---------------------------- MODULE Marketplace -----------------------------
(***************************************************************************)
(* The marketplace pallet: its storage and its seven extrinsics.           *)
(*                                                                         *)
(* An extrinsic that returns Err changes nothing: FRAME runs every call in *)
(* a storage layer of its own and drops the layer on an error.  A failing  *)
(* call is therefore a stuttering step, and an action below is the call    *)
(* that returns Ok(()).  Its conjuncts before the primed variables are the *)
(* ensure! checks and fallible calls of the code, in their order.          *)
(***************************************************************************)
EXTENDS Balances, Uniques

CONSTANTS MaxProducts,  \* T::MaxProducts
          HoldersMax,   \* u64::MAX, where holders_count saturates
          Price,        \* the prices manufacturers ask for
          Label,        \* the names and metadata they give
          NoProduct     \* an empty slot of the Products map

\* MaxProducts itself is kept as an id, so that an id past the limit would show.
ProductId == 0 .. MaxProducts

Product == [item          : ItemId,
            label         : Label,
            price         : Price,
            owner         : Account,
            genesis_owner : Account,
            on_sale       : BOOLEAN,
            is_redeemed   : BOOLEAN,
            holders_count : 0 .. HoldersMax]

ASSUME MarketplaceAssumption ==
    /\ MaxProducts \in Nat
    /\ HoldersMax \in Nat \ {0}
    /\ Price \subseteq Nat
    /\ ProductId \subseteq ItemId
    /\ NoProduct \notin Product

VARIABLES products, registered_manufacturers, next_product_id, admin_account

storage == <<products, registered_manufacturers, next_product_id, admin_account>>
vars == <<storage, free, collection, nft>>

TypeOK ==
    /\ BalancesTypeOK
    /\ UniquesTypeOK
    /\ products \in [ProductId -> Product \union {NoProduct}]
    /\ registered_manufacturers \subseteq Account
    /\ next_product_id \in Nat
    /\ admin_account \in Account \union {NoAccount}

Init == /\ BalancesInit
        /\ UniquesInit
        /\ products = [id \in ProductId |-> NoProduct]
        /\ registered_manufacturers = {}
        /\ next_product_id = 0
        /\ admin_account = NoAccount

Listed == {id \in ProductId : products[id] # NoProduct}

\* Operators named MUT_ are faulty forms of the definition that follows them: a
\* run is repeated with one of them in its place, to show that a property it
\* checks would notice.  Nothing else refers to them.
MUT_ItemIdOf(id) == id + 1

\* The runtime's ItemIdConverter.
ItemIdOf(id) == id
-----------------------------------------------------------------------------
\* ensure_collection_exists looks only whether there is a collection.
EnsuredCollection ==
    IF collection = NoCollection
    THEN Created(PalletAccount, PalletAccount)
    ELSE collection

NewProduct(id, who, label, price) ==
    [item |-> ItemIdOf(id), label |-> label, price |-> price, owner |-> who,
     genesis_owner |-> who, on_sale |-> TRUE, is_redeemed |-> FALSE,
     holders_count |-> 0]

MUT_Full == next_product_id > MaxProducts

Full == next_product_id >= MaxProducts

MUT_NextId == next_product_id

NextId == next_product_id + 1

list_product(who, label, price) ==
    LET id == next_product_id
    IN  /\ who \in registered_manufacturers
        /\ ~Full
        /\ CanMint(EnsuredCollection, PalletAccount, ItemIdOf(id))
        /\ collection' = EnsuredCollection
        /\ nft' = Minted(ItemIdOf(id), who)
        /\ products' = [products EXCEPT ![id] = NewProduct(id, who, label, price)]
        /\ next_product_id' = NextId
        /\ UNCHANGED <<free, registered_manufacturers, admin_account>>

MUT_SaturatingIncr(n) == n + 1

SaturatingIncr(n) == IF n < HoldersMax THEN n + 1 ELSE n

MUT_SoldStillOnSale(product, buyer) ==
    [product EXCEPT !.holders_count = SaturatingIncr(@), !.owner = buyer]

MUT_SoldKeepingOwner(product, buyer) ==
    [product EXCEPT !.on_sale = FALSE, !.holders_count = SaturatingIncr(@)]

MUT_SoldRelabelled(product, buyer) ==
    [product EXCEPT !.on_sale = FALSE, !.holders_count = SaturatingIncr(@),
                    !.owner = buyer, !.genesis_owner = product.owner]

Sold(product, buyer) ==
    [product EXCEPT !.on_sale = FALSE,
                    !.holders_count = SaturatingIncr(@),
                    !.owner = buyer]

MUT_CanPay(buyer, product) ==
    CanTransferAllowDeath(buyer, product.owner, product.price)

\* The payment of a sale would succeed.  KeepAlive: it must not close the
\* buyer's account.
CanPay(buyer, product) == CanTransfer(buyer, product.owner, product.price)

MUT_Paid(buyer, product) == [free EXCEPT ![product.owner] = @ + product.price]

Paid(buyer, product) == Transferred(buyer, product.owner, product.price)

MUT_CanBuyUnlisted(buyer, id) ==
    LET product == products[id]
    IN  /\ id \in Listed
        /\ product.owner # buyer
        /\ CanPay(buyer, product)
        /\ CanMove(product.owner, product.item)

MUT_CanBuyUnchecked(buyer, id) ==
    LET product == products[id]
    IN  /\ id \in Listed
        /\ product.on_sale
        /\ product.owner # buyer
        /\ CanPay(buyer, product)
        /\ Exists(product.item)

\* buy_product would be accepted.
CanBuy(buyer, id) ==
    LET product == products[id]
    IN  /\ id \in Listed
        /\ product.on_sale
        /\ product.owner # buyer
        /\ CanPay(buyer, product)
        /\ CanMove(product.owner, product.item)

buy_product(buyer, id) ==
    LET product == products[id]
    IN  /\ CanBuy(buyer, id)
        /\ free' = Paid(buyer, product)
        /\ nft' = Moved(product.item, buyer)
        /\ products' = [products EXCEPT ![id] = Sold(product, buyer)]
        /\ UNCHANGED <<collection, registered_manufacturers, next_product_id,
                       admin_account>>

\* toggle_sale would be accepted, whatever the NFT's fate.
CanToggle(who, id) == id \in Listed /\ products[id].owner = who

toggle_sale(who, id, for_sale) ==
    /\ CanToggle(who, id)
    /\ products' = [products EXCEPT ![id].on_sale = for_sale]
    /\ UNCHANGED <<free, collection, nft, registered_manufacturers,
                   next_product_id, admin_account>>

MUT_Redeemed(product) == product

Redeemed(product) == [product EXCEPT !.is_redeemed = TRUE]

\* redeem_product would be accepted.
CanRedeem(who, id) == /\ id \in Listed
                      /\ OwnerIs(products[id].item, who)
                      /\ ~products[id].is_redeemed
                      /\ CanBurn(who, products[id].item)

redeem_product(who, id) ==
    /\ CanRedeem(who, id)
    /\ nft' = Burnt(products[id].item)
    /\ products' = [products EXCEPT ![id] = Redeemed(products[id])]
    /\ UNCHANGED <<free, collection, registered_manufacturers,
                   next_product_id, admin_account>>

MUT_IsAdmin(who) == admin_account \in {NoAccount, who}

IsAdmin(who) == admin_account = who

register_manufacturer(who, manufacturer) ==
    /\ IsAdmin(who)
    /\ manufacturer \notin registered_manufacturers
    /\ registered_manufacturers' = registered_manufacturers \union {manufacturer}
    /\ UNCHANGED <<free, collection, nft, products, next_product_id, admin_account>>

unregister_manufacturer(who, manufacturer) ==
    /\ IsAdmin(who)
    /\ manufacturer \in registered_manufacturers
    /\ registered_manufacturers' = registered_manufacturers \ {manufacturer}
    /\ UNCHANGED <<free, collection, nft, products, next_product_id, admin_account>>

\* Until an admin is set, whoever calls sets it.
set_admin(who, new_admin) ==
    /\ admin_account = NoAccount \/ IsAdmin(who)
    /\ admin_account' = new_admin
    /\ UNCHANGED <<free, collection, nft, products, registered_manufacturers,
                   next_product_id>>
-----------------------------------------------------------------------------
\* One signed extrinsic of `who`.
Call(who) ==
    \/ \E label \in Label, price \in Price : list_product(who, label, price)
    \/ \E id \in ProductId : \/ buy_product(who, id)
                             \/ redeem_product(who, id)
                             \/ \E for_sale \in BOOLEAN :
                                    toggle_sale(who, id, for_sale)
    \/ \E a \in Account : \/ register_manufacturer(who, a)
                          \/ unregister_manufacturer(who, a)
                          \/ set_admin(who, a)

Next == \E who \in User : Call(who)

Spec == Init /\ [][Next]_vars
-----------------------------------------------------------------------------
(* What must be true of the storage between two extrinsics. *)

\* The record and the NFT ledger tell one story: the record's owner holds the
\* NFT until it is redeemed, and a redeemed product has no NFT left.  They are
\* two pallets' storage, kept together by buy_product and redeem_product alone.
Agrees(id) ==
    IF products[id].is_redeemed
    THEN ~Exists(products[id].item)
    ELSE OwnerIs(products[id].item, products[id].owner)

RecordAgreesWithNft == \A id \in Listed : Agrees(id)

\* Ids are given out in order, none is skipped, given twice or past the limit,
\* and no NFT of the collection is without its record: list_product.
IdsInOrder ==
    /\ Listed = {id \in ProductId : id < next_product_id}
    /\ next_product_id <= MaxProducts
    /\ \A id \in Listed : products[id].item = ItemIdOf(id)
    /\ \A item \in ItemId : Exists(item) => item \in Listed

\* Products come from manufacturers, and manufacturers from an admin: before the
\* first set_admin the market is closed, and no admin can leave it without one.
AuthorityChain ==
    admin_account = NoAccount => registered_manufacturers = {} /\ Listed = {}

\* A product that never changed hands is still its manufacturer's: the buyer of
\* a first sale is the one who leaves count 0 (the store front shows the count
\* as "Ownership Tally").
FirstHolderIsManufacturer ==
    \A id \in Listed :
        products[id].holders_count = 0 =>
            products[id].owner = products[id].genesis_owner

\* A product on sale can be bought by everyone who can pay, unless it is redeemed:
\* a redemption leaves on_sale as it was, and toggle_sale can turn it on again, but
\* then buy_product gets past its payment and fails with TransferFailed, whoever
\* calls.  No other product is ever stuck like this, whatever happened before.
StuckSalesAreRedeemed ==
    \A id \in Listed, buyer \in User :
        LET product == products[id]
        IN  ( /\ product.on_sale
              /\ product.owner # buyer
              /\ CanPay(buyer, product) )
            => (CanBuy(buyer, id) <=> ~product.is_redeemed)

\* A registered manufacturer can list until MaxProducts is reached: the mint in
\* list_product never fails, on the first listing or on a later one.
ListNeverBlocked ==
    ~Full =>
        CanMint(EnsuredCollection, PalletAccount, ItemIdOf(next_product_id))
-----------------------------------------------------------------------------
(* What a step may never do. *)

\* A product's history only grows: its record stays, its manufacturer, name,
\* metadata, price and item never change, a redemption is final and freezes the owner, and the
\* holders are counted exactly when the product changes hands.
RecordGrows(id) ==
    LET old == products[id]
        new == products'[id]
    IN  /\ new # NoProduct
        /\ <<new.item, new.label, new.price, new.genesis_owner>>
               = <<old.item, old.label, old.price, old.genesis_owner>>
        /\ old.is_redeemed => new.is_redeemed /\ new.owner = old.owner
        /\ new.holders_count = IF new.owner = old.owner
                               THEN old.holders_count
                               ELSE SaturatingIncr(old.holders_count)

HistoryOnlyGrows == [][\A id \in Listed : RecordGrows(id)]_vars

\* Product id changes hands in this step: its record, its NFT and the price move
\* together, between the two parties and nobody else, and the sale is over.
Exchanged(id) ==
    LET seller == products[id].owner
        buyer  == products'[id].owner
        price  == products[id].price
    IN  /\ products[id].on_sale /\ ~products[id].is_redeemed
        /\ ~products'[id].on_sale
        /\ OwnerIs(products[id].item, seller)
        /\ nft' = Moved(products[id].item, buyer)
        /\ free'[seller] = free[seller] + price
        /\ free'[buyer] = free[buyer] - price
        /\ \A a \in Account \ {seller, buyer} : free'[a] = free[a]

ChangesHands(id) == /\ products'[id] # NoProduct
                    /\ products'[id].owner # products[id].owner

\* Money and goods change hands together or not at all (buy_product): whoever
\* loses a product is paid its price, and whoever pays gets the product.  So no
\* sale makes or destroys money.
ExchangeIsAtomic ==
    [][ /\ \A id \in Listed : ChangesHands(id) => Exchanged(id)
        /\ free' # free => \E id \in Listed : ChangesHands(id) ]_vars
-----------------------------------------------------------------------------
(* What the source says of the program, and the program does not do. *)

\* toggle_sale is "for allowing the user to list their owned nft for sell", so who
\* puts a product on sale owns its NFT at that moment.
ToggleListsOwnedNft ==
    [][\A id \in Listed :
        ~products[id].on_sale /\ products'[id].on_sale =>
            OwnerIs(products[id].item, products[id].owner)]_vars
=============================================================================
