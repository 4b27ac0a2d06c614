----------------------- MODULE MarketplaceRefinement ------------------------
(***************************************************************************)
(* The register of titles that the marketplace pallet implements.  A title *)
(* is read from the NFT ledger, not from the product record; an offer is   *)
(* an on_sale flag that still has an NFT to sell.                          *)
(***************************************************************************)
EXTENDS Marketplace

CONSTANTS Unissued, Retired

ASSUME TitleAssumption == Unissued \notin Account /\ Retired \notin Account

title == [id \in ProductId |-> IF Exists(ItemIdOf(id)) THEN nft[ItemIdOf(id)].owner
                               ELSE IF id \in Listed THEN Retired
                               ELSE Unissued]

offers == {id \in Listed : products[id].on_sale /\ Exists(ItemIdOf(id))}

price_list == [id \in ProductId |-> IF id \in Listed THEN products[id].price ELSE 0]

Register == INSTANCE TitleRegister
    WITH Party <- Account, Good <- ProductId, Amount <- Price,
         holder <- title, offered <- offers, price <- price_list, funds <- free

\* Every extrinsic is one step of the register of titles, or none: buying is an
\* exchange, redeeming retires the title, and no call moves a title otherwise.
ImplementsRegister == Register!Spec
=============================================================================
