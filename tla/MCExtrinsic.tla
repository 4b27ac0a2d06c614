---------------------------- MODULE MCExtrinsic -----------------------------
(***************************************************************************)
(* Two users and two products: the second one finds the collection there.  *)
(* An endowed account can pay a price of 1 once; a price of 0 moves nothing.               *)
(***************************************************************************)
EXTENDS Extrinsic

CONSTANTS alice, bob, pallet

MCAccount == {alice, bob, pallet}
MCEndowment == {3}
MCPrice == {0, 1}
MCLabel == {"bag"}
MCItemId == 0 .. MaxProducts
MCSymmetry == Permutations({alice, bob})
=============================================================================
