--------------------------- MODULE MCMarketplace ----------------------------
(***************************************************************************)
(* What TLC checks of Marketplace, and of the register of titles that it   *)
(* implements: three users, two products.  The price is below the deposit; *)
(* an endowed account can pay it once and then holds exactly the deposit.  *)
(***************************************************************************)
EXTENDS MarketplaceRefinement, TLC

CONSTANTS alice, bob, carol, pallet, bag, watch

MCAccount == {alice, bob, carol, pallet}
MCEndowment == {3}
MCPrice == {1}
MCLabel == {bag, watch}
MCItemId == 0 .. MaxProducts
MCSymmetry == Permutations({alice, bob, carol}) \union Permutations({bag, watch})
=============================================================================
