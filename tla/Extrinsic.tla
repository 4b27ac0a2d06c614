----------------------------- MODULE Extrinsic ------------------------------
(***************************************************************************)
(* What Marketplace takes as one step, in the steps the pallet takes: the  *)
(* checks, every call into another pallet, every write and event, and what *)
(* FRAME does around them.  The #[pallet::call] macro runs an extrinsic in *)
(* a storage layer, which it drops, events included, on an Err.            *)
(***************************************************************************)
EXTENDS Marketplace, SequencesExt

CONSTANT None

\* The calls that are signed: a record each, with its arguments.
Extrinsics ==
    [fn : {"list_product"}, who : User, label : Label, price : Price]
    \union [fn : {"buy_product", "redeem_product"}, who : User, id : ProductId]
    \union [fn : {"toggle_sale"}, who : User, id : ProductId, for_sale : BOOLEAN]
    \union [fn : {"register_manufacturer", "unregister_manufacturer", "set_admin"},
            who : User, account : Account]

ASSUME NoneAssumption == None \notin Extrinsics

VARIABLES call,     \* the extrinsic being executed, or None
          at,       \* the part of its body that is next
          below,    \* what the storage is below its layer, or None
          events,   \* what it deposited so far
          outcome   \* "Ok", or the error it returns

frame == <<call, at, below, events, outcome>>
xvars == <<vars, frame>>

\* The errors of the checks, and those of calls into other pallets.
CheckErrors == {"ProductNotFound", "NotManufacturer", "ProductNotForSale", "AlreadyOwner",
                "Overflow", "NotOwner", "AlreadyRedeemed", "NotAuthorized",
                "ManufacturerAlreadyRegistered", "ManufacturerNotFound"}
InnerErrors == {"InsufficientBalance", "MintFailed", "TransferFailed", "BurnFailed"}

\* Everything that a storage layer covers.
Storages == [products : [ProductId -> Product \union {NoProduct}],
             manufacturers : SUBSET Account, next_id : Nat,
             admin : Account \union {NoAccount}, free : [Account -> Nat],
             collection : CollectionDetails \union {NoCollection},
             nft : [ItemId -> ItemDetails \union {NoItem}]]

Storage == [products |-> products, manufacturers |-> registered_manufacturers,
            next_id |-> next_product_id, admin |-> admin_account,
            free |-> free, collection |-> collection, nft |-> nft]

\* The other pallets refuse nothing that the checks let through, but a payment and
\* the transfer of a redeemed product's NFT.
InnerCallsSucceed ==
    outcome \in InnerErrors =>
        \/ outcome = "InsufficientBalance"
        \/ outcome = "TransferFailed" /\ products[call.id].is_redeemed

ExtrinsicTypeOK ==
    /\ TypeOK
    /\ at \in {"idle", "collection", "mint", "payment", "transfer", "burn", "record", "return"}
    /\ at = "idle" => call = None /\ below = None /\ events = << >> /\ outcome = "Ok"
    /\ at # "idle" => call \in Extrinsics /\ below \in Storages
    /\ outcome \in CheckErrors \union InnerErrors \union {"Ok"}
    /\ outcome # "Ok" => at = "return"
    /\ InnerCallsSucceed

ExtrinsicInit == /\ Init
                 /\ call = None /\ at = "idle" /\ below = None
                 /\ events = << >> /\ outcome = "Ok"
-----------------------------------------------------------------------------
\* The body goes on with another part, or returns Ok.
GoOn(part, deposited) == /\ at' = part
                         /\ events' = events \o deposited
                         /\ UNCHANGED outcome

\* The body returns an error: nothing more is executed.
Err(error) == /\ at' = "return"
              /\ outcome' = error
              /\ UNCHANGED <<vars, events>>

\* ensure!(condition, error), or the `?` of a call that may fail; then the rest.
Ensure(condition, error, rest) == IF condition THEN rest ELSE Err(error)

\* The ensure!s at the head of each body.  They write nothing.
Checked(part) == GoOn(part, << >>) /\ UNCHANGED vars

list_product_checks(c) ==
    /\ c.fn = "list_product"
    /\ Ensure(c.who \in registered_manufacturers, "NotManufacturer",
       Ensure(~Full, "Overflow",
       Checked("collection")))

buy_product_checks(c) ==
    /\ c.fn = "buy_product"
    /\ Ensure(c.id \in Listed, "ProductNotFound",
       Ensure(products[c.id].on_sale, "ProductNotForSale",
       Ensure(products[c.id].owner # c.who, "AlreadyOwner",
       Checked("payment"))))

toggle_sale_checks(c) ==
    /\ c.fn = "toggle_sale"
    /\ Ensure(c.id \in Listed, "ProductNotFound",
       Ensure(products[c.id].owner = c.who, "NotOwner",
       Checked("record")))

redeem_product_checks(c) ==
    /\ c.fn = "redeem_product"
    /\ Ensure(c.id \in Listed, "ProductNotFound",
       Ensure(OwnerIs(products[c.id].item, c.who), "NotOwner",
       Ensure(~products[c.id].is_redeemed, "AlreadyRedeemed",
       Checked("burn"))))

register_manufacturer_checks(c) ==
    /\ c.fn = "register_manufacturer"
    /\ Ensure(IsAdmin(c.who), "NotAuthorized",
       Ensure(c.account \notin registered_manufacturers, "ManufacturerAlreadyRegistered",
       Checked("record")))

unregister_manufacturer_checks(c) ==
    /\ c.fn = "unregister_manufacturer"
    /\ Ensure(IsAdmin(c.who), "NotAuthorized",
       Ensure(c.account \in registered_manufacturers, "ManufacturerNotFound",
       Checked("record")))

set_admin_checks(c) ==
    /\ c.fn = "set_admin"
    /\ Ensure(admin_account = NoAccount \/ IsAdmin(c.who), "NotAuthorized",
       Checked("record"))

\* The storage layer is opened over the storage.
Begin(c) == /\ at = "idle"
            /\ call' = c
            /\ below' = Storage
            /\ \/ list_product_checks(c)
               \/ buy_product_checks(c)
               \/ toggle_sale_checks(c)
               \/ redeem_product_checks(c)
               \/ register_manufacturer_checks(c)
               \/ unregister_manufacturer_checks(c)
               \/ set_admin_checks(c)
-----------------------------------------------------------------------------
(* The calls into the other pallets, which deposit events of their own (that *)
(* an account was opened by a payment is told, too, and left out).           *)

\* The only error of create is that there is such a collection, so
\* CollectionCreateFailed is never returned.
ensure_collection_exists ==
    /\ at = "collection"
    /\ collection' = EnsuredCollection
    /\ GoOn("mint", IF collection = NoCollection
                    THEN <<[name |-> "Created", by |-> PalletAccount]>> ELSE << >>)
    /\ UNCHANGED <<storage, free, nft>>

mint ==
    LET item == ItemIdOf(next_product_id)
    IN  /\ at = "mint"
        /\ Ensure(CanMint(collection, PalletAccount, item), "MintFailed",
              /\ nft' = Minted(item, call.who)
              /\ GoOn("record", <<[name |-> "Issued", item |-> item, to |-> call.who]>>)
              /\ UNCHANGED <<storage, free, collection>>)

\* A transfer of nothing is no transfer, and has no event.
pay ==
    LET product == products[call.id]
    IN  /\ at = "payment"
        /\ Ensure(CanPay(call.who, product), "InsufficientBalance",
              /\ free' = Paid(call.who, product)
              /\ GoOn("transfer",
                     IF product.price = 0 THEN << >>
                     ELSE <<[name |-> "Transfer", from |-> call.who,
                             to |-> product.owner, amount |-> product.price]>>)
              /\ UNCHANGED <<storage, collection, nft>>)

transfer ==
    LET product == products[call.id]
    IN  /\ at = "transfer"
        /\ Ensure(CanMove(product.owner, product.item), "TransferFailed",
              /\ nft' = Moved(product.item, call.who)
              /\ GoOn("record", <<[name |-> "Transferred", item |-> product.item,
                                  to |-> call.who]>>)
              /\ UNCHANGED <<storage, free, collection>>)

burn ==
    LET item == products[call.id].item
    IN  /\ at = "burn"
        /\ Ensure(CanBurn(call.who, item), "BurnFailed",
              /\ nft' = Burnt(item)
              /\ GoOn("record", <<[name |-> "Burned", item |-> item]>>)
              /\ UNCHANGED <<storage, free, collection>>)
-----------------------------------------------------------------------------
(* The last part of each body: the pallet's own storage, its event, Ok(()). *)

Records(fn) == at = "record" /\ call.fn = fn /\ UNCHANGED <<free, collection, nft>>

record_listed ==
    LET id == next_product_id
    IN  /\ Records("list_product")
        /\ products' = [products EXCEPT ![id] = NewProduct(id, call.who, call.label, call.price)]
        /\ next_product_id' = NextId
        /\ GoOn("return", <<[name |-> "ProductListed", id |-> id, item |-> ItemIdOf(id),
                            who |-> call.who, price |-> call.price]>>)
        /\ UNCHANGED <<registered_manufacturers, admin_account>>

\* Writes the product's record with its event.
Inserts(product, event) ==
    /\ products' = [products EXCEPT ![call.id] = product]
    /\ GoOn("return", <<event>>)
    /\ UNCHANGED <<registered_manufacturers, next_product_id, admin_account>>

MUT_ProductPurchased(product) ==
    [name |-> "ProductPurchased", id |-> call.id, item |-> product.item,
     buyer |-> call.who, price |-> product.price,
     holders |-> products[call.id].holders_count]

ProductPurchased(product) ==
    [name |-> "ProductPurchased", id |-> call.id, item |-> product.item,
     buyer |-> product.owner, price |-> product.price,
     holders |-> product.holders_count]

record_purchased ==
    LET product == Sold(products[call.id], call.who)
    IN  Records("buy_product") /\ Inserts(product, ProductPurchased(product))

record_toggled ==
    /\ Records("toggle_sale")
    /\ Inserts([products[call.id] EXCEPT !.on_sale = call.for_sale],
               [name |-> "SaleToggled", id |-> call.id, who |-> call.who,
                status |-> call.for_sale])

record_redeemed ==
    LET product == Redeemed(products[call.id])
    IN  /\ Records("redeem_product")
        /\ Inserts(product, [name |-> "ProductRedeemed", id |-> call.id,
                             item |-> product.item, who |-> call.who])

record_manufacturer ==
    /\ \/ /\ Records("register_manufacturer")
          /\ registered_manufacturers' = registered_manufacturers \union {call.account}
          /\ GoOn("return", <<[name |-> "ManufacturerRegistered", who |-> call.account]>>)
       \/ /\ Records("unregister_manufacturer")
          /\ registered_manufacturers' = registered_manufacturers \ {call.account}
          /\ GoOn("return", <<[name |-> "ManufacturerUnregistered", who |-> call.account]>>)
    /\ UNCHANGED <<products, next_product_id, admin_account>>

record_admin ==
    /\ Records("set_admin")
    /\ admin_account' = call.account
    /\ GoOn("return", <<[name |-> "AdminSet", who |-> call.account]>>)
    /\ UNCHANGED <<products, registered_manufacturers, next_product_id>>

Part == \/ ensure_collection_exists \/ mint \/ pay \/ transfer \/ burn
        \/ record_listed \/ record_purchased \/ record_toggled \/ record_redeemed
        \/ record_manufacturer \/ record_admin
-----------------------------------------------------------------------------
MUT_Left == Storage

\* What the storage is after the call: its layer, or what was below it.
Left == IF outcome = "Ok" THEN Storage ELSE below

Return == /\ at = "return"
          /\ products' = Left.products
          /\ registered_manufacturers' = Left.manufacturers
          /\ next_product_id' = Left.next_id
          /\ admin_account' = Left.admin
          /\ free' = Left.free
          /\ collection' = Left.collection
          /\ nft' = Left.nft
          /\ call' = None /\ at' = "idle" /\ below' = None
          /\ events' = << >> /\ outcome' = "Ok"

ExtrinsicNext == \/ \E c \in Extrinsics : Begin(c)
                 \/ Part /\ UNCHANGED <<call, below>>
                 \/ Return

ExtrinsicSpec == ExtrinsicInit /\ [][ExtrinsicNext]_xvars
-----------------------------------------------------------------------------
\* What the rest of the runtime sees: the storage below the layer.
Seen == IF at = "idle" THEN Storage ELSE below

Atomic == INSTANCE Marketplace
    WITH products <- Seen.products, registered_manufacturers <- Seen.manufacturers,
         next_product_id <- Seen.next_id, admin_account <- Seen.admin,
         free <- Seen.free, collection <- Seen.collection, nft <- Seen.nft

\* Each extrinsic is one step of Marketplace, or none, though it calls other
\* pallets in between and may fail after some of them have written.
ImplementsMarketplace == Atomic!Spec

\* A record as a listener of events knows it: ProductListed carries neither the
\* name nor the metadata.
Unlabelled(product) ==
    IF product = NoProduct THEN NoProduct
    ELSE [item |-> product.item, price |-> product.price, owner |-> product.owner,
          genesis_owner |-> product.genesis_owner, on_sale |-> product.on_sale,
          is_redeemed |-> product.is_redeemed, holders_count |-> product.holders_count]

Known(records) == [id \in ProductId |-> Unlabelled(records[id])]

Public(s) == [s EXCEPT !.products = Known(s.products)]

\* What another pallet's event, or the pallet's own, says has changed.
Tells(s, e) ==
    CASE e.name = "Created" -> [s EXCEPT !.collection = Created(e.by, e.by)]
      [] e.name \in {"Issued", "Transferred"} ->
             [s EXCEPT !.nft[e.item] = [owner |-> e.to, approved |-> NoAccount]]
      [] e.name = "Burned" -> [s EXCEPT !.nft[e.item] = NoItem]
      [] e.name = "Transfer" -> [s EXCEPT !.free[e.from] = @ - e.amount,
                                          !.free[e.to] = @ + e.amount]
      [] e.name = "ProductListed" ->
             [s EXCEPT !.next_id = e.id + 1,
                       !.products[e.id] =
                  [item |-> e.item, price |-> e.price, owner |-> e.who,
                   genesis_owner |-> e.who, on_sale |-> TRUE,
                   is_redeemed |-> FALSE, holders_count |-> 0]]
      [] e.name = "ProductPurchased" ->
             [s EXCEPT !.products[e.id].owner = e.buyer,
                       !.products[e.id].on_sale = FALSE,
                       !.products[e.id].holders_count = e.holders]
      [] e.name = "ProductRedeemed" -> [s EXCEPT !.products[e.id].is_redeemed = TRUE]
      [] e.name = "SaleToggled" -> [s EXCEPT !.products[e.id].on_sale = e.status]
      [] e.name = "ManufacturerRegistered" -> [s EXCEPT !.manufacturers = @ \union {e.who}]
      [] e.name = "ManufacturerUnregistered" -> [s EXCEPT !.manufacturers = @ \ {e.who}]
      [] e.name = "AdminSet" -> [s EXCEPT !.admin = e.who]

\* Who follows the events drifts from the storage in nothing but the names and
\* metadata of products, which no event carries and which must be read once per
\* product: the events of an extrinsic, in their order, say all else that it did.
EventsTellAllButLabels ==
    at = "return" => FoldLeft(Tells, Public(below), events) = Public(Storage)
=============================================================================
