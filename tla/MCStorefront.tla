---------------------------- MODULE MCStorefront ----------------------------
(***************************************************************************)
(* A session of two accounts on a market that a third user, who is also    *)
(* the manufacturer, uses all the while.  With everything interleaved: one *)
(* product, three clicks and two syncs.  One step at a time: two products, *)
(* one sync and four clicks, enough to buy, list, unlist and redeem.       *)
(* Prices are 0: money plays no part in what the page shows.               *)
(***************************************************************************)
EXTENDS Storefront, TLC

CONSTANTS ann, bob, carol, pallet, c1, c2, c3, c4, s1, s2

MCAccount == {ann, bob, carol, pallet}
MCWallet == {ann, bob}
MCManufacturers == {carol}
MCEndowment == {}
MCPrice == {0}
MCLabel == {"bag"}
MCItemId == 0 .. MaxProducts
MCThreeCalls == {c1, c2, c3}
MCFourCalls == {c1, c2, c3, c4}
MCSyncs == {s1, s2}
MCOneSync == {s1}
MCSymmetry == Permutations({c1, c2, c3, c4}) \union Permutations({s1, s2})
=============================================================================
