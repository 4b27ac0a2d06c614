----------------------------- MODULE MCRuntime ------------------------------
(***************************************************************************)
(* Two instances with one product.  About money: two users, who also send  *)
(* one another money; an account can afford the price and not the fee, or  *)
(* be closed by a transfer.  About titles: three users, so that the seller *)
(* on record, the holder of the NFT and the buyer can be three.            *)
(***************************************************************************)
EXTENDS Runtime, TLC

CONSTANTS alice, bob, carol, pallet

MCTwo == {alice, bob, pallet}
MCThree == {alice, bob, carol, pallet}
MCEndowment == {5}
MCRich == {6}
MCPrice == {1}
MCTransfer == {1, 2}
MCNoTransfer == {}
MCItemPrice == {1}
MCNoItemPrice == {}
MCLabel == {"bag"}
MCItemId == 0 .. MaxProducts
MCSymmetry == Permutations({alice, bob, carol})
MCSymmetryOfTwo == Permutations({alice, bob})
=============================================================================
