-------------------------- MODULE ExtrinsicProofs ---------------------------
(***************************************************************************)
(* An extrinsic taken apart is still one step of Marketplace, or none, for *)
(* every set of accounts and every limit.  What is proved of Marketplace   *)
(* is used here of the storage below the extrinsic's layer.                *)
(***************************************************************************)
EXTENDS Extrinsic, MarketplaceProofs

Before == INSTANCE MarketplaceProofs
    WITH products <- Seen.products, registered_manufacturers <- Seen.manufacturers,
         next_product_id <- Seen.next_id, admin_account <- Seen.admin,
         free <- Seen.free, collection <- Seen.collection, nft <- Seen.nft

-----------------------------------------------------------------------------
(* How the layer differs from the storage below it, call by call.  The       *)
(* checks that were passed are stated of the storage below.                  *)

list_product_layer ==
    LET id == below.next_id
    IN  /\ call.fn = "list_product"
        /\ at \in {"collection", "mint", "record", "return"}
        /\ call.who \in below.manufacturers /\ ~Before!Full
        /\ free = below.free
        /\ registered_manufacturers = below.manufacturers
        /\ admin_account = below.admin
        /\ collection = IF at = "collection" THEN below.collection
                        ELSE Before!EnsuredCollection
        /\ nft = IF at \in {"collection", "mint"} THEN below.nft
                 ELSE Before!Minted(ItemIdOf(id), call.who)
        /\ products = IF at = "return"
                      THEN [below.products EXCEPT ![id] =
                                NewProduct(id, call.who, call.label, call.price)]
                      ELSE below.products
        /\ next_product_id = IF at = "return" THEN id + 1 ELSE id

buy_product_layer ==
    LET product == below.products[call.id]
    IN  /\ call.fn = "buy_product"
        /\ at \in {"payment", "transfer", "record", "return"}
        /\ call.id \in Before!Listed
        /\ product.on_sale /\ product.owner # call.who
        /\ at # "payment" => Before!CanPay(call.who, product)
        /\ at \in {"record", "return"} => Before!CanMove(product.owner, product.item)
        /\ free = IF at = "payment" THEN below.free
                  ELSE Before!Paid(call.who, product)
        /\ nft = IF at \in {"payment", "transfer"} THEN below.nft
                 ELSE Before!Moved(product.item, call.who)
        /\ products = IF at = "return"
                      THEN [below.products EXCEPT ![call.id] = Sold(product, call.who)]
                      ELSE below.products
        /\ registered_manufacturers = below.manufacturers
        /\ next_product_id = below.next_id
        /\ admin_account = below.admin
        /\ collection = below.collection

redeem_product_layer ==
    LET product == below.products[call.id]
    IN  /\ call.fn = "redeem_product"
        /\ at \in {"burn", "record", "return"}
        /\ Before!CanRedeem(call.who, call.id)
        /\ nft = IF at = "burn" THEN below.nft ELSE Before!Burnt(product.item)
        /\ products = IF at = "return"
                      THEN [below.products EXCEPT ![call.id] = Redeemed(product)]
                      ELSE below.products
        /\ free = below.free
        /\ registered_manufacturers = below.manufacturers
        /\ next_product_id = below.next_id
        /\ admin_account = below.admin
        /\ collection = below.collection

toggle_sale_layer ==
    /\ call.fn = "toggle_sale"
    /\ at \in {"record", "return"}
    /\ Before!CanToggle(call.who, call.id)
    /\ products = IF at = "return"
                  THEN [below.products EXCEPT ![call.id].on_sale = call.for_sale]
                  ELSE below.products
    /\ free = below.free
    /\ registered_manufacturers = below.manufacturers
    /\ next_product_id = below.next_id
    /\ admin_account = below.admin
    /\ collection = below.collection
    /\ nft = below.nft

\* What register_manufacturer and unregister_manufacturer leave.
ManufacturersLeft ==
    IF call.fn = "register_manufacturer"
    THEN below.manufacturers \union {call.account}
    ELSE below.manufacturers \ {call.account}

admin_layer ==
    /\ at \in {"record", "return"}
    /\ \/ /\ call.fn \in {"register_manufacturer", "unregister_manufacturer"}
          /\ Before!IsAdmin(call.who)
          /\ call.fn = "register_manufacturer" <=> call.account \notin below.manufacturers
          /\ registered_manufacturers = IF at = "return" THEN ManufacturersLeft
                                        ELSE below.manufacturers
          /\ admin_account = below.admin
       \/ /\ call.fn = "set_admin"
          /\ below.admin = NoAccount \/ Before!IsAdmin(call.who)
          /\ registered_manufacturers = below.manufacturers
          /\ admin_account = IF at = "return" THEN call.account ELSE below.admin
    /\ products = below.products
    /\ next_product_id = below.next_id
    /\ free = below.free
    /\ collection = below.collection
    /\ nft = below.nft

\* Nothing is said of a layer that will be dropped.
LayerIsRight ==
    at # "idle" /\ outcome = "Ok" =>
        \/ list_product_layer \/ buy_product_layer \/ redeem_product_layer
        \/ toggle_sale_layer \/ admin_layer

\* The inductive invariant.  That the layer is right needs that the ledgers below
\* agree: a mint or a burn that could fail would leave through another branch.
LayerInv == ExtrinsicTypeOK /\ Before!LedgersAgree /\ LayerIsRight

-----------------------------------------------------------------------------
(* What carries over from Marketplace, and how calls are typed. *)

LEMMA SameTypes == /\ Before!ItemDetails = ItemDetails
                   /\ Before!CollectionDetails = CollectionDetails
                   /\ Before!ProductId = ProductId
                   /\ Before!Product = Product
                   /\ Before!User = User
BY DEF Before!ItemDetails, ItemDetails, Before!CollectionDetails, CollectionDetails,
       Before!ProductId, ProductId, Before!Product, Product, Before!User, User

LEMMA BeforeInit == Before!Init => Before!LedgersAgree
BY Before!LedgersInit, AccountAssumption, BalancesAssumption, UniquesAssumption,
   MarketplaceAssumption, SameTypes

LEMMA BeforeStep ==
    Before!LedgersAgree /\ [Before!Next]_(Before!vars) => Before!LedgersAgree'
BY Before!LedgersStep, AccountAssumption, BalancesAssumption, UniquesAssumption,
   MarketplaceAssumption, SameTypes

LEMMA BeforeNeverBlocks == Before!LedgersAgree => Before!ListNeverBlocked
BY Before!AgreedNeverBlock, AccountAssumption, BalancesAssumption, UniquesAssumption,
   MarketplaceAssumption, SameTypes

LEMMA CallType ==
    ASSUME NEW c \in Extrinsics
    PROVE  /\ c.who \in User /\ c.who \in Account
           /\ c.fn = "list_product" => c.label \in Label /\ c.price \in Price
           /\ c.fn \in {"buy_product", "redeem_product", "toggle_sale"} =>
                  c.id \in ProductId
           /\ c.fn = "toggle_sale" => c.for_sale \in BOOLEAN
           /\ c.fn \in {"register_manufacturer", "unregister_manufacturer", "set_admin"} =>
                  c.account \in Account
BY DEF Extrinsics, User

LEMMA StorageType == TypeOK => Storage \in Storages
BY DEF TypeOK, BalancesTypeOK, UniquesTypeOK, Storage, Storages

LEMMA ListedBelow ==
    ASSUME Before!LedgersAgree, NEW id \in Before!Listed
    PROVE  /\ id \in ProductId /\ Seen.products[id] \in Product
           /\ Seen.collection # NoCollection
           /\ ~Seen.products[id].is_redeemed =>
                  Before!OwnerIs(Seen.products[id].item, Seen.products[id].owner)
<1>1. id \in ProductId /\ Seen.products[id] \in Product
  BY SameTypes DEF Before!LedgersAgree, Before!TypeOK, Before!Listed
<1> QED
  BY <1>1 DEF Before!LedgersAgree, Before!CollectionIsOurs, Before!RecordAgreesWithNft,
              Before!Agrees

-----------------------------------------------------------------------------
(* The invariant is kept: the checks. *)

\* What is seen stays while a call begins and while its parts run.
LEMMA SeenKept ==
    ASSUME Before!LedgersAgree, Seen' = Seen
    PROVE  Before!LedgersAgree' /\ UNCHANGED Before!vars
<1>1. UNCHANGED Before!vars
  BY DEF Before!vars, Before!storage
<1> QED
  BY <1>1, BeforeStep

LEMMA LayerInit == ExtrinsicInit => LayerInv
<1> SUFFICES ASSUME ExtrinsicInit PROVE LayerInv
    OBVIOUS
<1>1. Before!Init
  BY DEF ExtrinsicInit, Init, Before!Init, Seen, Storage, BalancesInit, UniquesInit,
         Before!BalancesInit, Before!UniquesInit, ProductId, Before!ProductId
<1>2. ExtrinsicTypeOK
  BY TypeInit DEF ExtrinsicInit, ExtrinsicTypeOK, InnerCallsSucceed, InnerErrors
<1> QED
  BY <1>1, <1>2, BeforeInit DEF ExtrinsicInit, LayerInv, LayerIsRight

\* The checks of a call pass, which its part of the layer then records, or one of
\* them fails; the storage is not touched.
LEMMA BeginLayer ==
    ASSUME LayerInv, NEW c \in Extrinsics, Begin(c)
    PROVE  /\ UNCHANGED vars /\ Seen' = Seen
           /\ \/ at' = "return" /\ outcome' \in CheckErrors
              \/ /\ at' \in {"collection", "payment", "burn", "record"}
                 /\ outcome' = "Ok"
                 /\ LayerIsRight'
<1>1. at = "idle" /\ call' = c /\ below' = Storage /\ outcome = "Ok"
  BY DEF Begin, LayerInv, ExtrinsicTypeOK
<1>2. Seen = Storage /\ Before!LedgersAgree
  BY <1>1 DEF Seen, LayerInv
<1> DEFINE Failed == at' = "return" /\ outcome' \in CheckErrors
           Passed(part) == at' = part /\ outcome' = "Ok"
<1> SUFFICES UNCHANGED vars
             /\ \/ Failed
                \/ \E part \in {"collection", "payment", "burn", "record"} :
                      Passed(part) /\ LayerIsRight'
  BY <1>1, <1>2 DEF Seen
<1>3. ASSUME UNCHANGED vars, at' # "idle"
      PROVE  /\ Seen' = Storage
             /\ UNCHANGED <<products, registered_manufacturers, next_product_id,
                            admin_account, free, collection, nft>>
  BY <1>1, <1>3 DEF Seen, vars, storage
<1> USE DEF Ensure, Err, Checked, GoOn
<1>4. CASE list_product_checks(c)
  <2>1. UNCHANGED vars
        /\ \/ Failed
           \/ Passed("collection") /\ c.fn = "list_product"
              /\ c.who \in registered_manufacturers /\ ~Full
    BY <1>1, <1>4 DEF list_product_checks, CheckErrors
  <2>2. ASSUME Passed("collection") PROVE list_product_layer'
    BY <1>1, <1>3, <2>1, <2>2
       DEF list_product_layer, Full, Before!Full, Storage, CheckErrors
  <2> QED
    BY <2>1, <2>2 DEF LayerIsRight
<1>5. CASE buy_product_checks(c)
  <2>1. UNCHANGED vars
        /\ \/ Failed
           \/ Passed("payment") /\ c.fn = "buy_product" /\ c.id \in Listed
              /\ products[c.id].on_sale /\ products[c.id].owner # c.who
    BY <1>1, <1>5 DEF buy_product_checks, CheckErrors
  <2>2. ASSUME Passed("payment") PROVE buy_product_layer'
    BY <1>1, <1>3, <2>1, <2>2, SameTypes
       DEF buy_product_layer, Listed, Before!Listed, Storage, CheckErrors
  <2> QED
    BY <2>1, <2>2 DEF LayerIsRight
<1>6. CASE redeem_product_checks(c)
  <2>1. UNCHANGED vars
        /\ \/ Failed
           \/ Passed("burn") /\ c.fn = "redeem_product" /\ c.id \in Listed
              /\ OwnerIs(products[c.id].item, c.who) /\ ~products[c.id].is_redeemed
    BY <1>1, <1>6 DEF redeem_product_checks, CheckErrors
  <2>2. ASSUME Passed("burn") PROVE redeem_product_layer'
    <3>1. c.id \in Before!Listed
      BY <1>2, <2>1, <2>2, SameTypes DEF Listed, Before!Listed, Storage, CheckErrors
    <3>2. collection # NoCollection
      BY <1>2, <3>1, ListedBelow DEF Storage
    <3>3. Seen' = Storage /\ c.id \in Before!Listed'
      BY <1>2, <1>3, <2>1, <2>2, <3>1, SameTypes DEF Before!Listed, CheckErrors
    <3>4. Before!CanRedeem(c.who, c.id)'
      BY <2>1, <2>2, <3>2, <3>3
         DEF Before!CanRedeem, Before!CanBurn, Before!OwnerIs, Before!Exists,
             OwnerIs, Exists, Storage, CheckErrors
    <3> QED
      BY <1>1, <1>3, <2>1, <2>2, <3>4 DEF redeem_product_layer, Storage, CheckErrors
  <2> QED
    BY <2>1, <2>2 DEF LayerIsRight
<1>7. CASE toggle_sale_checks(c)
  <2>1. UNCHANGED vars
        /\ \/ Failed
           \/ Passed("record") /\ c.fn = "toggle_sale" /\ c.id \in Listed
              /\ products[c.id].owner = c.who
    BY <1>1, <1>7 DEF toggle_sale_checks, CheckErrors
  <2>2. ASSUME Passed("record") PROVE toggle_sale_layer'
    BY <1>1, <1>3, <2>1, <2>2, SameTypes
       DEF toggle_sale_layer, Before!CanToggle, Listed, Before!Listed, Storage, CheckErrors
  <2> QED
    BY <2>1, <2>2 DEF LayerIsRight
<1>8. CASE \/ register_manufacturer_checks(c) \/ unregister_manufacturer_checks(c)
           \/ set_admin_checks(c)
  <2>1. UNCHANGED vars
        /\ \/ Failed
           \/ /\ Passed("record")
              /\ \/ /\ c.fn \in {"register_manufacturer", "unregister_manufacturer"}
                    /\ IsAdmin(c.who)
                    /\ c.fn = "register_manufacturer" <=>
                           c.account \notin registered_manufacturers
                 \/ /\ c.fn = "set_admin"
                    /\ admin_account = NoAccount \/ IsAdmin(c.who)
    BY <1>1, <1>8 DEF register_manufacturer_checks, unregister_manufacturer_checks,
                      set_admin_checks, CheckErrors
  <2>2. ASSUME Passed("record") PROVE admin_layer'
    BY <1>1, <1>3, <2>1, <2>2
       DEF admin_layer, IsAdmin, Before!IsAdmin, Storage, CheckErrors
  <2> QED
    BY <2>1, <2>2 DEF LayerIsRight
<1> QED
  BY <1>4, <1>5, <1>6, <1>7, <1>8 DEF Begin

LEMMA BeginKeeps ==
    ASSUME LayerInv, NEW c \in Extrinsics, Begin(c)
    PROVE  LayerInv' /\ UNCHANGED Before!vars
<1>1. at = "idle" /\ call' = c /\ below' = Storage
  BY DEF Begin, LayerInv, ExtrinsicTypeOK
<1>2. /\ UNCHANGED vars /\ Seen' = Seen
      /\ \/ at' = "return" /\ outcome' \in CheckErrors
         \/ /\ at' \in {"collection", "payment", "burn", "record"}
            /\ outcome' = "Ok"
            /\ LayerIsRight'
  BY BeginLayer
<1>3. Before!LedgersAgree' /\ UNCHANGED Before!vars
  BY <1>2, SeenKept DEF LayerInv
<1>4. TypeOK' /\ below' \in Storages
  BY <1>1, <1>2, StorageType, TypeStep DEF LayerInv, ExtrinsicTypeOK
<1>5. ExtrinsicTypeOK'
  BY <1>1, <1>2, <1>4 DEF ExtrinsicTypeOK, InnerCallsSucceed, CheckErrors, InnerErrors
<1>6. LayerIsRight'
  BY <1>2 DEF LayerIsRight, CheckErrors
<1> QED
  BY <1>3, <1>5, <1>6 DEF LayerInv

-----------------------------------------------------------------------------
(* The invariant is kept: the parts. *)

LEMMA LayerOf ==
    ASSUME LayerInv, at # "idle"
    PROVE  /\ Seen = below /\ below \in Storages /\ call \in Extrinsics
           /\ at \in {"collection", "mint"} => list_product_layer
           /\ at \in {"payment", "transfer"} => buy_product_layer
           /\ at = "burn" => redeem_product_layer
           /\ at = "record" => outcome = "Ok" /\ LayerIsRight
BY DEF LayerInv, ExtrinsicTypeOK, Seen, LayerIsRight, list_product_layer,
       buy_product_layer, redeem_product_layer, toggle_sale_layer, admin_layer

\* What a part has to show of itself.
LEMMA PartKeeps ==
    ASSUME LayerInv, at # "idle", UNCHANGED <<call, below>>, TypeOK',
           \/ /\ at' \in {"mint", "transfer", "record", "return"} /\ outcome' = "Ok"
              /\ LayerIsRight'
           \/ /\ at' = "return" /\ outcome' \in InnerErrors /\ InnerCallsSucceed'
    PROVE  LayerInv' /\ UNCHANGED Before!vars
<1>1. Seen' = Seen
  BY DEF Seen, InnerErrors
<1>2. Before!LedgersAgree' /\ UNCHANGED Before!vars
  BY <1>1, SeenKept DEF LayerInv
<1>3. ExtrinsicTypeOK' /\ LayerIsRight'
  BY DEF LayerInv, ExtrinsicTypeOK, InnerCallsSucceed, InnerErrors, LayerIsRight
<1> QED
  BY <1>2, <1>3 DEF LayerInv

LEMMA CollectionKeeps ==
    ASSUME LayerInv, ensure_collection_exists, UNCHANGED <<call, below>>
    PROVE  LayerInv' /\ UNCHANGED Before!vars
<1>1. at = "collection" /\ outcome = "Ok" /\ Seen = below /\ list_product_layer
  BY LayerOf DEF ensure_collection_exists, LayerInv, ExtrinsicTypeOK
<1>2. /\ at' = "mint" /\ outcome' = "Ok" /\ collection' = EnsuredCollection
      /\ UNCHANGED <<products, registered_manufacturers, next_product_id, admin_account,
                     free, nft>>
  BY <1>1 DEF ensure_collection_exists, GoOn, storage
<1>3. EnsuredCollection \in CollectionDetails
  BY AccountAssumption
     DEF EnsuredCollection, Created, CollectionDetails, LayerInv, ExtrinsicTypeOK, TypeOK,
         UniquesTypeOK
<1>4. TypeOK'
  BY <1>2, <1>3 DEF LayerInv, ExtrinsicTypeOK, TypeOK, UniquesTypeOK, BalancesTypeOK
<1>5. Seen' = below' /\ Seen' = Seen
  BY <1>1, <1>2 DEF Seen
<1>6. list_product_layer'
  BY <1>1, <1>2, <1>5
     DEF list_product_layer, EnsuredCollection, Before!EnsuredCollection, Created,
         Before!Created, Before!Full
<1> QED
  BY <1>1, <1>2, <1>4, <1>6, PartKeeps DEF LayerIsRight

LEMMA MintKeeps ==
    ASSUME LayerInv, mint, UNCHANGED <<call, below>>
    PROVE  LayerInv' /\ UNCHANGED Before!vars
<1> DEFINE item == ItemIdOf(next_product_id)
<1>1. /\ at = "mint" /\ outcome = "Ok" /\ Seen = below /\ list_product_layer
      /\ Before!LedgersAgree /\ call.who \in Account
  BY LayerOf, CallType DEF mint, LayerInv, ExtrinsicTypeOK
<1>2. CanMint(collection, PalletAccount, item)
  <2>1. Before!CanMint(Before!EnsuredCollection, PalletAccount,
                       Before!ItemIdOf(below.next_id))
    BY <1>1, BeforeNeverBlocks DEF Before!ListNeverBlocked, list_product_layer
  <2> QED
    BY <1>1, <2>1 DEF list_product_layer, CanMint, Before!CanMint, Exists, Before!Exists,
                      ItemIdOf, Before!ItemIdOf
<1>3. /\ at' = "record" /\ outcome' = "Ok" /\ nft' = Minted(item, call.who)
      /\ UNCHANGED <<products, registered_manufacturers, next_product_id, admin_account,
                     free, collection>>
  BY <1>1, <1>2 DEF mint, Ensure, GoOn, storage
<1>4. item \in ItemId
  BY <1>1, MarketplaceAssumption
     DEF list_product_layer, Before!Full, LayerInv, ExtrinsicTypeOK, TypeOK, ProductId,
         ItemIdOf
<1>5. TypeOK'
  BY <1>1, <1>3, <1>4, MintedType
     DEF LayerInv, ExtrinsicTypeOK, TypeOK, UniquesTypeOK, BalancesTypeOK
<1>6. Seen' = below' /\ Seen' = Seen
  BY <1>1, <1>3 DEF Seen
<1>7. list_product_layer'
  BY <1>1, <1>3, <1>6
     DEF list_product_layer, Minted, Before!Minted, Before!EnsuredCollection, Before!Full,
         Before!Created, ItemIdOf
<1> QED
  BY <1>1, <1>3, <1>5, <1>7, PartKeeps DEF LayerIsRight

LEMMA PayKeeps ==
    ASSUME LayerInv, pay, UNCHANGED <<call, below>>
    PROVE  LayerInv' /\ UNCHANGED Before!vars
<1> DEFINE product == products[call.id]
<1>1. /\ at = "payment" /\ outcome = "Ok" /\ Seen = below /\ buy_product_layer
      /\ Before!LedgersAgree /\ call.who \in Account
  BY LayerOf, CallType DEF pay, LayerInv, ExtrinsicTypeOK
<1>2. products = below.products /\ free = below.free /\ call.id \in Before!Listed
  BY <1>1 DEF buy_product_layer
<1>3. product \in Product
  BY <1>1, <1>2, ListedBelow
<1>4. CASE CanPay(call.who, product)
  <2>1. /\ at' = "transfer" /\ outcome' = "Ok" /\ free' = Paid(call.who, product)
        /\ UNCHANGED <<products, registered_manufacturers, next_product_id,
                       admin_account, collection, nft>>
    BY <1>1, <1>4 DEF pay, Ensure, GoOn, storage
  <2>2. product.owner \in Account /\ product.price \in Nat
    BY <1>3, MarketplaceAssumption DEF Product
  <2>3. free' \in [Account -> Nat]
    BY <1>1, <1>4, <2>1, <2>2, TransferredType
       DEF CanPay, Paid, LayerInv, ExtrinsicTypeOK, TypeOK
  <2>4. TypeOK'
    BY <2>1, <2>3 DEF LayerInv, ExtrinsicTypeOK, TypeOK, UniquesTypeOK, BalancesTypeOK
  <2>5. Seen' = below' /\ Seen' = Seen
    BY <1>1, <2>1 DEF Seen
  <2>6. Before!CanPay(call.who, below.products[call.id])
        /\ Before!Paid(call.who, below.products[call.id]) = Paid(call.who, product)
    BY <1>1, <1>2, <1>4 DEF CanPay, Before!CanPay, CanTransfer, Before!CanTransfer,
                            Paid, Before!Paid, Transferred, Before!Transferred
  <2>7. buy_product_layer'
    BY <1>1, <1>2, <2>1, <2>5, <2>6
       DEF buy_product_layer, Before!Listed, Before!CanPay, Before!CanTransfer,
           Before!Paid, Before!Transferred
  <2> QED
    BY <1>1, <2>1, <2>4, <2>7, PartKeeps DEF LayerIsRight
<1>5. CASE ~CanPay(call.who, product)
  <2>1. at' = "return" /\ outcome' = "InsufficientBalance" /\ UNCHANGED vars
    BY <1>1, <1>5 DEF pay, Ensure, Err
  <2>2. TypeOK'
    BY <2>1, TypeStep DEF LayerInv, ExtrinsicTypeOK
  <2> QED
    BY <1>1, <2>1, <2>2, PartKeeps DEF InnerCallsSucceed, InnerErrors
<1> QED
  BY <1>4, <1>5

LEMMA TransferKeeps ==
    ASSUME LayerInv, transfer, UNCHANGED <<call, below>>
    PROVE  LayerInv' /\ UNCHANGED Before!vars
<1> DEFINE product == products[call.id]
<1>1. /\ at = "transfer" /\ outcome = "Ok" /\ Seen = below /\ buy_product_layer
      /\ Before!LedgersAgree /\ call.who \in Account
  BY LayerOf, CallType DEF transfer, LayerInv, ExtrinsicTypeOK
<1>2. /\ products = below.products /\ collection = below.collection
      /\ nft = below.nft /\ call.id \in Before!Listed
  BY <1>1 DEF buy_product_layer
<1>3. /\ product \in Product /\ collection # NoCollection
      /\ ~product.is_redeemed => OwnerIs(product.item, product.owner)
  BY <1>1, <1>2, ListedBelow DEF OwnerIs, Before!OwnerIs, Exists, Before!Exists
<1>4. CASE CanMove(product.owner, product.item)
  <2>1. /\ at' = "record" /\ outcome' = "Ok" /\ nft' = Moved(product.item, call.who)
        /\ UNCHANGED <<products, registered_manufacturers, next_product_id,
                       admin_account, free, collection>>
    BY <1>1, <1>4 DEF transfer, Ensure, GoOn, storage
  <2>2. product.item \in ItemId
    BY <1>3 DEF Product
  <2>3. TypeOK'
    BY <1>1, <2>1, <2>2, MintedType
       DEF Moved, LayerInv, ExtrinsicTypeOK, TypeOK, UniquesTypeOK, BalancesTypeOK
  <2>4. Seen' = below' /\ Seen' = Seen
    BY <1>1, <2>1 DEF Seen
  <2>5. Before!CanMove(below.products[call.id].owner, below.products[call.id].item)
    BY <1>1, <1>2, <1>4 DEF CanMove, Before!CanMove, Exists, Before!Exists
  <2>6. buy_product_layer'
    BY <1>1, <1>2, <2>1, <2>4, <2>5
       DEF buy_product_layer, Before!Listed, Before!CanPay, Before!CanTransfer,
           Before!Paid, Before!Transferred, Before!CanMove, Before!Exists,
           Before!Moved, Before!Minted, Moved, Minted
  <2> QED
    BY <1>1, <2>1, <2>3, <2>6, PartKeeps DEF LayerIsRight
<1>5. CASE ~CanMove(product.owner, product.item)
  <2>1. at' = "return" /\ outcome' = "TransferFailed" /\ UNCHANGED vars
    BY <1>1, <1>5 DEF transfer, Ensure, Err
  <2>2. TypeOK'
    BY <2>1, TypeStep DEF LayerInv, ExtrinsicTypeOK
  <2>3. product.is_redeemed
    BY <1>3, <1>5 DEF CanMove, OwnerIs
  <2>4. InnerCallsSucceed'
    BY <2>1, <2>3 DEF InnerCallsSucceed, vars, storage
  <2> QED
    BY <1>1, <2>1, <2>2, <2>4, PartKeeps DEF InnerErrors
<1> QED
  BY <1>4, <1>5

LEMMA BurnKeeps ==
    ASSUME LayerInv, burn, UNCHANGED <<call, below>>
    PROVE  LayerInv' /\ UNCHANGED Before!vars
<1> DEFINE product == products[call.id]
<1>1. /\ at = "burn" /\ outcome = "Ok" /\ Seen = below /\ redeem_product_layer
  BY LayerOf DEF burn, LayerInv, ExtrinsicTypeOK
<1>2. /\ products = below.products /\ collection = below.collection /\ nft = below.nft
  BY <1>1 DEF redeem_product_layer
<1>3. CanBurn(call.who, product.item)
  BY <1>1, <1>2 DEF redeem_product_layer, Before!CanRedeem, Before!CanBurn, CanBurn,
                    Before!OwnerIs, OwnerIs, Before!Exists, Exists
<1>4. /\ at' = "record" /\ outcome' = "Ok" /\ nft' = Burnt(product.item)
      /\ UNCHANGED <<products, registered_manufacturers, next_product_id,
                     admin_account, free, collection>>
  BY <1>1, <1>3 DEF burn, Ensure, GoOn, storage
<1>5. TypeOK'
  BY <1>4 DEF Burnt, LayerInv, ExtrinsicTypeOK, TypeOK, UniquesTypeOK, BalancesTypeOK
<1>6. Seen' = below' /\ Seen' = Seen
  BY <1>1, <1>4 DEF Seen
<1>7. redeem_product_layer'
  BY <1>1, <1>2, <1>4, <1>6
     DEF redeem_product_layer, Before!Listed, Before!CanRedeem, Before!CanBurn,
         Before!OwnerIs, Before!Exists, Before!Burnt, Burnt
<1> QED
  BY <1>1, <1>4, <1>5, <1>7, PartKeeps DEF LayerIsRight

LEMMA ListedKeeps ==
    ASSUME LayerInv, record_listed, UNCHANGED <<call, below>>
    PROVE  LayerInv' /\ UNCHANGED Before!vars
<1> DEFINE id == next_product_id
<1>1. /\ at = "record" /\ outcome = "Ok" /\ Seen = below /\ call.fn = "list_product"
      /\ call.who \in Account /\ call.label \in Label /\ call.price \in Price
  BY LayerOf, CallType DEF record_listed, Records
<1>2. list_product_layer
  BY <1>1, LayerOf DEF LayerIsRight, buy_product_layer, redeem_product_layer,
                       toggle_sale_layer, admin_layer
<1>3. /\ at' = "return" /\ outcome' = "Ok"
      /\ products' = [products EXCEPT ![id] = NewProduct(id, call.who, call.label, call.price)]
      /\ next_product_id' = id + 1
      /\ UNCHANGED <<registered_manufacturers, admin_account, free, collection, nft>>
  BY <1>1 DEF record_listed, Records, GoOn, NextId
<1>4. TypeOK'
  <2>1. id \in ProductId /\ id \in ItemId /\ id \in Nat
    BY <1>1, <1>2, MarketplaceAssumption
       DEF list_product_layer, Before!Full, LayerInv, ExtrinsicTypeOK, TypeOK, ProductId
  <2>2. NewProduct(id, call.who, call.label, call.price) \in Product
    BY <1>1, <2>1, MarketplaceAssumption DEF NewProduct, Product, ItemIdOf
  <2> QED
    BY <1>3, <2>1, <2>2
       DEF LayerInv, ExtrinsicTypeOK, TypeOK, UniquesTypeOK, BalancesTypeOK
<1>5. Seen' = below' /\ Seen' = Seen
  BY <1>1, <1>3 DEF Seen
<1>6. list_product_layer'
  BY <1>1, <1>2, <1>3, <1>5
     DEF list_product_layer, Before!Minted, Before!EnsuredCollection, Before!Full,
         Before!Created, NewProduct
<1> QED
  BY <1>1, <1>3, <1>4, <1>6, PartKeeps DEF LayerIsRight

LEMMA PurchasedKeeps ==
    ASSUME LayerInv, record_purchased, UNCHANGED <<call, below>>
    PROVE  LayerInv' /\ UNCHANGED Before!vars
<1> DEFINE new == Sold(products[call.id], call.who)
<1>1. /\ at = "record" /\ outcome = "Ok" /\ Seen = below /\ call.fn = "buy_product"
      /\ call.who \in Account /\ Before!LedgersAgree
  BY LayerOf, CallType DEF record_purchased, Records, LayerInv
<1>2. buy_product_layer
  BY <1>1, LayerOf DEF LayerIsRight, list_product_layer, redeem_product_layer,
                       toggle_sale_layer, admin_layer
<1>3. products = below.products /\ call.id \in Before!Listed
  BY <1>1, <1>2 DEF buy_product_layer
<1>4. new \in Product
  BY <1>1, <1>3, ListedBelow, SoldType
<1> HIDE DEF new
<1>5. /\ at' = "return" /\ outcome' = "Ok" /\ products' = [products EXCEPT ![call.id] = new]
      /\ UNCHANGED <<registered_manufacturers, next_product_id, admin_account, free,
                     collection, nft>>
  BY <1>1 DEF record_purchased, Records, Inserts, GoOn, new
<1>6. TypeOK'
  BY <1>4, <1>5 DEF LayerInv, ExtrinsicTypeOK, TypeOK, UniquesTypeOK, BalancesTypeOK
<1>7. Seen' = below' /\ Seen' = Seen
  BY <1>1, <1>5 DEF Seen
<1>8. buy_product_layer'
  BY <1>1, <1>2, <1>3, <1>5, <1>7
     DEF buy_product_layer, Before!Listed, Before!CanPay, Before!CanTransfer,
         Before!Paid, Before!Transferred, Before!CanMove, Before!Exists,
         Before!Moved, Before!Minted, new
<1> QED
  BY <1>1, <1>5, <1>6, <1>8, PartKeeps DEF LayerIsRight

LEMMA ToggledKeeps ==
    ASSUME LayerInv, record_toggled, UNCHANGED <<call, below>>
    PROVE  LayerInv' /\ UNCHANGED Before!vars
<1> DEFINE new == [products[call.id] EXCEPT !.on_sale = call.for_sale]
<1>1. /\ at = "record" /\ outcome = "Ok" /\ Seen = below /\ call.fn = "toggle_sale"
      /\ call.for_sale \in BOOLEAN /\ Before!LedgersAgree
  BY LayerOf, CallType DEF record_toggled, Records, LayerInv
<1>2. toggle_sale_layer
  BY <1>1, LayerOf DEF LayerIsRight, list_product_layer, redeem_product_layer,
                       buy_product_layer, admin_layer
<1>3. products = below.products /\ call.id \in Before!Listed
  BY <1>1, <1>2 DEF toggle_sale_layer, Before!CanToggle
<1>4. new \in Product
  BY <1>1, <1>3, ListedBelow DEF Product
<1>5. /\ at' = "return" /\ outcome' = "Ok" /\ products' = [products EXCEPT ![call.id] = new]
      /\ UNCHANGED <<registered_manufacturers, next_product_id, admin_account, free,
                     collection, nft>>
  BY <1>1 DEF record_toggled, Records, Inserts, GoOn
<1>6. TypeOK'
  BY <1>4, <1>5 DEF LayerInv, ExtrinsicTypeOK, TypeOK, UniquesTypeOK, BalancesTypeOK
<1>7. Seen' = below' /\ Seen' = Seen
  BY <1>1, <1>5 DEF Seen
<1>8. toggle_sale_layer'
  BY <1>1, <1>2, <1>3, <1>5, <1>7
     DEF toggle_sale_layer, Before!CanToggle, Before!Listed
<1> QED
  BY <1>1, <1>5, <1>6, <1>8, PartKeeps DEF LayerIsRight

LEMMA RedeemedKeeps ==
    ASSUME LayerInv, record_redeemed, UNCHANGED <<call, below>>
    PROVE  LayerInv' /\ UNCHANGED Before!vars
<1> DEFINE new == Redeemed(products[call.id])
<1>1. /\ at = "record" /\ outcome = "Ok" /\ Seen = below /\ call.fn = "redeem_product"
      /\ Before!LedgersAgree
  BY LayerOf DEF record_redeemed, Records, LayerInv
<1>2. redeem_product_layer
  BY <1>1, LayerOf DEF LayerIsRight, list_product_layer, toggle_sale_layer,
                       buy_product_layer, admin_layer
<1>3. products = below.products /\ call.id \in Before!Listed
  BY <1>1, <1>2 DEF redeem_product_layer, Before!CanRedeem
<1>4. new \in Product
  BY <1>1, <1>3, ListedBelow DEF Redeemed, Product
<1> HIDE DEF new
<1>5. /\ at' = "return" /\ outcome' = "Ok" /\ products' = [products EXCEPT ![call.id] = new]
      /\ UNCHANGED <<registered_manufacturers, next_product_id, admin_account, free,
                     collection, nft>>
  BY <1>1 DEF record_redeemed, Records, Inserts, GoOn, new
<1>6. TypeOK'
  BY <1>4, <1>5 DEF LayerInv, ExtrinsicTypeOK, TypeOK, UniquesTypeOK, BalancesTypeOK
<1>7. Seen' = below' /\ Seen' = Seen
  BY <1>1, <1>5 DEF Seen
<1>8. redeem_product_layer'
  BY <1>1, <1>2, <1>3, <1>5, <1>7
     DEF redeem_product_layer, Before!Listed, Before!CanRedeem, Before!CanBurn,
         Before!OwnerIs, Before!Exists, Before!Burnt, new
<1> QED
  BY <1>1, <1>5, <1>6, <1>8, PartKeeps DEF LayerIsRight

LEMMA AdminKeeps ==
    ASSUME LayerInv, record_manufacturer \/ record_admin, UNCHANGED <<call, below>>
    PROVE  LayerInv' /\ UNCHANGED Before!vars
<1>1. /\ at = "record" /\ outcome = "Ok" /\ Seen = below
      /\ call.fn \in {"register_manufacturer", "unregister_manufacturer", "set_admin"}
      /\ call.account \in Account
  BY LayerOf, CallType DEF record_manufacturer, record_admin, Records
<1>2. admin_layer
  BY <1>1, LayerOf DEF LayerIsRight, list_product_layer, toggle_sale_layer,
                       buy_product_layer, redeem_product_layer
<1>3. /\ at' = "return" /\ outcome' = "Ok"
      /\ UNCHANGED <<products, next_product_id, free, collection, nft>>
      /\ \/ /\ call.fn \in {"register_manufacturer", "unregister_manufacturer"}
            /\ registered_manufacturers' =
                   IF call.fn = "register_manufacturer"
                   THEN registered_manufacturers \union {call.account}
                   ELSE registered_manufacturers \ {call.account}
            /\ admin_account' = admin_account
         \/ /\ call.fn = "set_admin"
            /\ admin_account' = call.account
            /\ UNCHANGED registered_manufacturers
  BY <1>1 DEF record_manufacturer, record_admin, Records, GoOn
<1>4. TypeOK'
  BY <1>1, <1>3 DEF LayerInv, ExtrinsicTypeOK, TypeOK, UniquesTypeOK, BalancesTypeOK
<1>5. Seen' = below' /\ Seen' = Seen
  BY <1>1, <1>3 DEF Seen
<1>6. admin_layer'
  BY <1>1, <1>2, <1>3, <1>5 DEF admin_layer, ManufacturersLeft, Before!IsAdmin
<1> QED
  BY <1>1, <1>3, <1>4, <1>6, PartKeeps DEF LayerIsRight

-----------------------------------------------------------------------------
(* The invariant is kept: the end.  A call that returns Ok has made the step *)
(* of Marketplace, all of it; another has made none.                         *)

LEMMA ReturnSteps ==
    ASSUME LayerInv, Return
    PROVE  [Before!Next]_(Before!vars)
<1>1. /\ at = "return" /\ Seen = below /\ Before!LedgersAgree /\ call \in Extrinsics
      /\ call.who \in Before!User /\ Seen' = Storage'
  BY LayerOf, CallType, SameTypes DEF Return, LayerInv, Seen
<1>2. /\ Seen'.products = Left.products
      /\ Seen'.manufacturers = Left.manufacturers
      /\ Seen'.next_id = Left.next_id
      /\ Seen'.admin = Left.admin
      /\ Seen'.free = Left.free
      /\ Seen'.collection = Left.collection
      /\ Seen'.nft = Left.nft
  BY <1>1 DEF Return, Storage
<1>3. CASE outcome # "Ok"
  BY <1>1, <1>2, <1>3 DEF Left, Before!vars, Before!storage
<1>4. CASE outcome = "Ok"
  <2>1. LayerIsRight
    BY DEF LayerInv
  <2>2. /\ Seen'.products = products
        /\ Seen'.manufacturers = registered_manufacturers
        /\ Seen'.next_id = next_product_id
        /\ Seen'.admin = admin_account
        /\ Seen'.free = free
        /\ Seen'.collection = collection
        /\ Seen'.nft = nft
    BY <1>2, <1>4 DEF Left, Storage
  <2>3. CASE list_product_layer
    <3>1. Before!CanMint(Before!EnsuredCollection, PalletAccount,
                         Before!ItemIdOf(below.next_id))
      BY <1>1, <2>3, BeforeNeverBlocks DEF Before!ListNeverBlocked, list_product_layer
    <3>2. Before!list_product(call.who, call.label, call.price)
      BY <1>1, <2>2, <2>3, <3>1
         DEF list_product_layer, Before!list_product, NewProduct, Before!NewProduct,
             ItemIdOf, Before!ItemIdOf, Before!NextId
    <3>3. call.label \in Label /\ call.price \in Price
      BY <1>1, <2>3, CallType DEF list_product_layer
    <3> QED
      BY <1>1, <3>2, <3>3 DEF Before!Next, Before!Call
  <2>4. CASE buy_product_layer
    <3>1. Before!buy_product(call.who, call.id)
      BY <1>1, <2>2, <2>4
         DEF buy_product_layer, Before!buy_product, Before!CanBuy, Sold, Before!Sold,
             SaturatingIncr, Before!SaturatingIncr
    <3>2. call.id \in Before!ProductId
      BY <1>1, <2>4, CallType, SameTypes DEF buy_product_layer
    <3> QED
      BY <1>1, <3>1, <3>2 DEF Before!Next, Before!Call
  <2>5. CASE redeem_product_layer
    <3>1. Before!redeem_product(call.who, call.id)
      BY <1>1, <2>2, <2>5
         DEF redeem_product_layer, Before!redeem_product, Redeemed, Before!Redeemed
    <3>2. call.id \in Before!ProductId
      BY <1>1, <2>5, CallType, SameTypes DEF redeem_product_layer
    <3> QED
      BY <1>1, <3>1, <3>2 DEF Before!Next, Before!Call
  <2>6. CASE toggle_sale_layer
    <3>1. Before!toggle_sale(call.who, call.id, call.for_sale)
      BY <1>1, <2>2, <2>6 DEF toggle_sale_layer, Before!toggle_sale
    <3>2. call.id \in Before!ProductId /\ call.for_sale \in BOOLEAN
      BY <1>1, <2>6, CallType, SameTypes DEF toggle_sale_layer
    <3> QED
      BY <1>1, <3>1, <3>2 DEF Before!Next, Before!Call
  <2>7. CASE admin_layer
    <3>1. \/ Before!register_manufacturer(call.who, call.account)
          \/ Before!unregister_manufacturer(call.who, call.account)
          \/ Before!set_admin(call.who, call.account)
      BY <1>1, <2>2, <2>7
         DEF admin_layer, ManufacturersLeft, Before!register_manufacturer,
             Before!unregister_manufacturer, Before!set_admin
    <3>2. call.account \in Account
      BY <1>1, <2>7, CallType DEF admin_layer
    <3> QED
      BY <1>1, <3>1, <3>2 DEF Before!Next, Before!Call
  <2> QED
    BY <1>1, <1>4, <2>1, <2>3, <2>4, <2>5, <2>6, <2>7 DEF LayerIsRight
<1> QED
  BY <1>3, <1>4

LEMMA ReturnKeeps ==
    ASSUME LayerInv, Return
    PROVE  LayerInv'
<1>1. at' = "idle" /\ call' = None /\ below' = None /\ events' = << >> /\ outcome' = "Ok"
  BY DEF Return
<1>2. TypeOK'
  <2>1. Left \in Storages
    BY LayerOf, StorageType DEF Return, Left, LayerInv, ExtrinsicTypeOK
  <2> QED
    BY <2>1 DEF Return, Storages, TypeOK, BalancesTypeOK, UniquesTypeOK
<1>3. Before!LedgersAgree'
  BY ReturnSteps, BeforeStep DEF LayerInv
<1> QED
  BY <1>1, <1>2, <1>3
     DEF LayerInv, LayerIsRight, ExtrinsicTypeOK, InnerCallsSucceed, InnerErrors

LEMMA LayerStep ==
    LayerInv /\ [ExtrinsicNext]_xvars => LayerInv' /\ [Before!Next]_(Before!vars)
<1> SUFFICES ASSUME LayerInv, [ExtrinsicNext]_xvars
             PROVE  LayerInv' /\ [Before!Next]_(Before!vars)
    OBVIOUS
<1>1. ASSUME NEW c \in Extrinsics, Begin(c)
      PROVE  LayerInv' /\ [Before!Next]_(Before!vars)
  BY <1>1, BeginKeeps
<1>2. ASSUME Part, UNCHANGED <<call, below>>
      PROVE  LayerInv' /\ [Before!Next]_(Before!vars)
  BY <1>2, CollectionKeeps, MintKeeps, PayKeeps, TransferKeeps, BurnKeeps, ListedKeeps,
     PurchasedKeeps, ToggledKeeps, RedeemedKeeps, AdminKeeps DEF Part
<1>3. CASE Return
  BY <1>3, ReturnKeeps, ReturnSteps
<1>4. CASE UNCHANGED xvars
  <2>1. UNCHANGED <<vars, call, at, below, events, outcome>> /\ Seen' = Seen
    BY <1>4 DEF xvars, frame, Seen, Storage, vars, storage
  <2>2. UNCHANGED <<products, registered_manufacturers, next_product_id, admin_account,
                    free, collection, nft>>
    BY <2>1 DEF vars, storage
  <2>3. Before!LedgersAgree' /\ UNCHANGED Before!vars
    BY <2>1, SeenKept DEF LayerInv
  <2>4. ExtrinsicTypeOK'
    BY <2>1, <2>2, TypeStep DEF LayerInv, ExtrinsicTypeOK, InnerCallsSucceed
  <2>5. LayerIsRight'
    <3>1. list_product_layer => list_product_layer'
      BY <2>1, <2>2
         DEF list_product_layer, Before!Full, Before!EnsuredCollection, Before!Minted
    <3>2. buy_product_layer => buy_product_layer'
      BY <2>1, <2>2
         DEF buy_product_layer, Before!Listed, Before!CanPay, Before!CanTransfer,
             Before!CanMove, Before!Exists, Before!Paid, Before!Transferred,
             Before!Moved, Before!Minted
    <3>3. redeem_product_layer => redeem_product_layer'
      BY <2>1, <2>2
         DEF redeem_product_layer, Before!CanRedeem, Before!Listed, Before!OwnerIs,
             Before!Exists, Before!CanBurn, Before!Burnt
    <3>4. toggle_sale_layer => toggle_sale_layer'
      BY <2>1, <2>2 DEF toggle_sale_layer, Before!CanToggle, Before!Listed
    <3>5. admin_layer => admin_layer'
      BY <2>1, <2>2 DEF admin_layer, ManufacturersLeft, Before!IsAdmin
    <3> QED
      BY <2>1, <3>1, <3>2, <3>3, <3>4, <3>5 DEF LayerInv, LayerIsRight
  <2> QED
    BY <2>3, <2>4, <2>5 DEF LayerInv
<1> QED
  BY <1>1, <1>2, <1>3, <1>4 DEF ExtrinsicNext

LEMMA LayerCorrect == ExtrinsicSpec => []LayerInv
BY LayerInit, LayerStep, PTL DEF ExtrinsicSpec

\* The storage is well typed at every point of an extrinsic, and of its calls into
\* other pallets only a payment fails, or the transfer of a redeemed product's NFT:
\* MintFailed and BurnFailed are never returned.
THEOREM ExtrinsicTypeCorrect == ExtrinsicSpec => []ExtrinsicTypeOK
<1>1. LayerInv => ExtrinsicTypeOK
  BY DEF LayerInv
<1> QED
  BY <1>1, LayerCorrect, PTL

\* Whatever an extrinsic has written when it fails or goes on, what the rest of the
\* runtime sees always has records and NFTs that agree.
THEOREM SeenRecordsAgree == ExtrinsicSpec => []Before!RecordAgreesWithNft
<1>1. LayerInv => Before!RecordAgreesWithNft
  BY DEF LayerInv, Before!LedgersAgree
<1> QED
  BY <1>1, LayerCorrect, PTL

\* Before and Atomic are one specification of the same storage.
LEMMA SameSteps == [Before!Next]_(Before!vars) => [Atomic!Next]_(Atomic!vars)
<1>1. /\ Before!User = Atomic!User /\ Before!ProductId = Atomic!ProductId
      /\ Before!Listed = Atomic!Listed
  BY DEF Before!User, Atomic!User, Before!ProductId, Atomic!ProductId,
         Before!Listed, Atomic!Listed
<1>2. UNCHANGED Before!vars => UNCHANGED Atomic!vars
  BY DEF Before!vars, Before!storage, Atomic!vars, Atomic!storage
<1>3. ASSUME NEW who, NEW label, NEW price, Before!list_product(who, label, price)
      PROVE  Atomic!list_product(who, label, price)
  BY <1>3 DEF Before!list_product, Before!Full, Before!CanMint, Before!EnsuredCollection,
              Before!Exists, Before!Minted, Before!NewProduct, Before!NextId,
              Before!ItemIdOf, Before!Created,
              Atomic!list_product, Atomic!Full, Atomic!CanMint, Atomic!EnsuredCollection,
              Atomic!Exists, Atomic!Minted, Atomic!NewProduct, Atomic!NextId,
              Atomic!ItemIdOf, Atomic!Created
<1>4. ASSUME NEW who, NEW id, Before!buy_product(who, id)
      PROVE  Atomic!buy_product(who, id)
  BY <1>1, <1>4
     DEF Before!buy_product, Before!CanBuy, Before!CanPay, Before!CanTransfer,
         Before!CanMove, Before!Exists, Before!Paid, Before!Transferred, Before!Moved,
         Before!Minted, Before!Sold, Before!SaturatingIncr,
         Atomic!buy_product, Atomic!CanBuy, Atomic!CanPay, Atomic!CanTransfer,
         Atomic!CanMove, Atomic!Exists, Atomic!Paid, Atomic!Transferred, Atomic!Moved,
         Atomic!Minted, Atomic!Sold, Atomic!SaturatingIncr
<1>5. ASSUME NEW who, NEW id, Before!redeem_product(who, id)
      PROVE  Atomic!redeem_product(who, id)
  BY <1>1, <1>5
     DEF Before!redeem_product, Before!CanRedeem, Before!OwnerIs, Before!Exists,
         Before!CanBurn, Before!Burnt, Before!Redeemed,
         Atomic!redeem_product, Atomic!CanRedeem, Atomic!OwnerIs, Atomic!Exists,
         Atomic!CanBurn, Atomic!Burnt, Atomic!Redeemed
<1>6. ASSUME NEW who, NEW id, NEW for_sale, Before!toggle_sale(who, id, for_sale)
      PROVE  Atomic!toggle_sale(who, id, for_sale)
  BY <1>1, <1>6
     DEF Before!toggle_sale, Before!CanToggle, Atomic!toggle_sale, Atomic!CanToggle
<1>7. ASSUME NEW who, NEW a,
             \/ Before!register_manufacturer(who, a)
             \/ Before!unregister_manufacturer(who, a)
             \/ Before!set_admin(who, a)
      PROVE  \/ Atomic!register_manufacturer(who, a)
             \/ Atomic!unregister_manufacturer(who, a)
             \/ Atomic!set_admin(who, a)
  BY <1>7
     DEF Before!register_manufacturer, Before!unregister_manufacturer, Before!set_admin,
         Before!IsAdmin, Atomic!register_manufacturer, Atomic!unregister_manufacturer,
         Atomic!set_admin, Atomic!IsAdmin
<1> QED
  BY <1>1, <1>2, <1>3, <1>4, <1>5, <1>6, <1>7
     DEF Before!Next, Before!Call, Atomic!Next, Atomic!Call

\* Each extrinsic, through all its parts and errors, is one step of Marketplace or
\* none.
THEOREM ExtrinsicImplementsMarketplace == ExtrinsicSpec => ImplementsMarketplace
<1>1. ExtrinsicInit => Atomic!Init
  BY DEF ExtrinsicInit, Init, Atomic!Init, Seen, Storage, BalancesInit, UniquesInit,
         Atomic!BalancesInit, Atomic!UniquesInit, ProductId, Atomic!ProductId
<1>2. LayerInv /\ [ExtrinsicNext]_xvars => [Atomic!Next]_(Atomic!vars)
  BY LayerStep, SameSteps
<1> QED
  BY <1>1, <1>2, LayerCorrect, PTL DEF ExtrinsicSpec, ImplementsMarketplace, Atomic!Spec

-----------------------------------------------------------------------------
(* The events.  FoldLeft is computed by recursion on the positions of the    *)
(* events; there are three at most, so what it computes is settled position  *)
(* by position.                                                              *)

\* An extrinsic deposits three events at most, which are followed one by one.
Followed(b, es) ==
    LET one   == IF 1 \in DOMAIN es THEN Tells(b, es[1]) ELSE b
        two   == IF 2 \in DOMAIN es THEN Tells(one, es[2]) ELSE one
    IN  IF 3 \in DOMAIN es THEN Tells(two, es[3]) ELSE two

\* The function of which FoldLeft takes the value at DOMAIN es.
Follows(iter, b, es) ==
    iter = [s \in SUBSET DOMAIN es |->
               IF s = {} THEN b ELSE Tells(iter[s \ {Max(s)}], es[Max(s)])]

LEMMA LastOf ==
    ASSUME NEW s \in SUBSET {1, 2, 3}, s # {}
    PROVE  Max(s) = IF 3 \in s THEN 3 ELSE IF 2 \in s THEN 2 ELSE 1
<1> DEFINE m == IF 3 \in s THEN 3 ELSE IF 2 \in s THEN 2 ELSE 1
<1>1. m \in s /\ \A y \in s : m >= y
  <2>1. \A y \in s : y = 1 \/ y = 2 \/ y = 3
    OBVIOUS
  <2>2. CASE 3 \in s
    BY <2>1, <2>2
  <2>3. CASE 3 \notin s /\ 2 \in s
    BY <2>1, <2>3
  <2>4. CASE 3 \notin s /\ 2 \notin s
    <3>1. PICK z \in s : TRUE
      OBVIOUS
    <3>2. m = 1 /\ 1 \in s /\ \A y \in s : y = 1
      BY <2>1, <2>4, <3>1
    <3> HIDE DEF m
    <3> QED
      BY <3>2
  <2> QED
    BY <2>2, <2>3, <2>4
<1>2. \A x \in s : (\A y \in s : x >= y) => x = m
  BY <1>1
<1> QED
  BY <1>1, <1>2 DEF Max

\* There is one, so that FoldLeft takes its value.
LEMMA FollowsExists ==
    ASSUME NEW b, NEW es, DOMAIN es \subseteq {1, 2, 3}
    PROVE  \E g : Follows(g, b, es)
<1> DEFINE one(s) == IF 1 \in s THEN Tells(b, es[1]) ELSE b
           two(s) == IF 2 \in s THEN Tells(one(s), es[2]) ELSE one(s)
           all(s) == IF 3 \in s THEN Tells(two(s), es[3]) ELSE two(s)
           g == [s \in SUBSET DOMAIN es |-> all(s)]
<1>1. ASSUME NEW s \in SUBSET DOMAIN es, s # {}
      PROVE  all(s) = Tells(all(s \ {Max(s)}), es[Max(s)])
  <2>1. Max(s) = IF 3 \in s THEN 3 ELSE IF 2 \in s THEN 2 ELSE 1
    BY <1>1, LastOf
  <2>2. CASE 3 \in s
    BY <2>1, <2>2
  <2>3. CASE 3 \notin s /\ 2 \in s
    BY <2>1, <2>3
  <2>4. CASE 3 \notin s /\ 2 \notin s
    BY <1>1, <2>1, <2>4
  <2> QED
    BY <2>2, <2>3, <2>4
<1>2. all({}) = b
  OBVIOUS
<1>3. \A s \in SUBSET DOMAIN es :
          g[s] = IF s = {} THEN b ELSE Tells(g[s \ {Max(s)}], es[Max(s)])
  <2> HIDE DEF all
  <2> SUFFICES ASSUME NEW s \in SUBSET DOMAIN es
               PROVE  g[s] = IF s = {} THEN b ELSE Tells(g[s \ {Max(s)}], es[Max(s)])
      OBVIOUS
  <2>1. s \ {Max(s)} \in SUBSET DOMAIN es
    OBVIOUS
  <2> QED
    BY <1>1, <1>2, <2>1
<1>4. g = [s \in SUBSET DOMAIN es |-> g[s]]
  <2> HIDE DEF all
  <2> QED
    OBVIOUS
<1>5. [s \in SUBSET DOMAIN es |-> g[s]] =
      [s \in SUBSET DOMAIN es |->
          IF s = {} THEN b ELSE Tells(g[s \ {Max(s)}], es[Max(s)])]
  <2> HIDE DEF g
  <2> QED
    BY <1>3
<1> HIDE DEF g
<1> QED
  BY <1>4, <1>5 DEF Follows

LEMMA FoldIs ==
    ASSUME NEW b, NEW es, DOMAIN es \in {{}, {1}, {1, 2}, {1, 2, 3}}
    PROVE  FoldLeft(Tells, b, es) = Followed(b, es)
<1> DEFINE g == CHOOSE iter : Follows(iter, b, es)
           D == DOMAIN es
<1>1. Follows(g, b, es)
  BY FollowsExists
<1>2. FoldLeft(Tells, b, es) = g[D]
  BY DEF FoldLeft, MapThenFoldSet, Follows
<1> HIDE DEF g
<1>3. \A s \in SUBSET D : g[s] = IF s = {} THEN b
                                 ELSE Tells(g[s \ {Max(s)}], es[Max(s)])
  BY <1>1 DEF Follows
<1>4. \A s \in SUBSET {1, 2, 3} : s # {} =>
          Max(s) = IF 3 \in s THEN 3 ELSE IF 2 \in s THEN 2 ELSE 1
  BY LastOf
<1>5. g[{}] = b
  BY <1>3
<1>6. 1 \in D => g[{1}] = Tells(b, es[1])
  <2> SUFFICES ASSUME 1 \in D PROVE g[{1}] = Tells(b, es[1])
      OBVIOUS
  <2>1. Max({1}) = 1 /\ {1} \ {1} = {} /\ {1} \in SUBSET D
    BY <1>4
  <2> HIDE DEF D
  <2> QED
    BY <1>3, <1>5, <2>1
<1>7. 2 \in D => g[{1, 2}] = Tells(g[{1}], es[2])
  <2> SUFFICES ASSUME 2 \in D PROVE g[{1, 2}] = Tells(g[{1}], es[2])
      OBVIOUS
  <2>1. Max({1, 2}) = 2 /\ {1, 2} \ {2} = {1} /\ {1, 2} \in SUBSET D
    BY <1>4
  <2> HIDE DEF D
  <2> QED
    BY <1>3, <2>1
<1>8. 3 \in D => g[{1, 2, 3}] = Tells(g[{1, 2}], es[3])
  <2> SUFFICES ASSUME 3 \in D PROVE g[{1, 2, 3}] = Tells(g[{1, 2}], es[3])
      OBVIOUS
  <2>1. Max({1, 2, 3}) = 3 /\ {1, 2, 3} \ {3} = {1, 2} /\ {1, 2, 3} \in SUBSET D
    BY <1>4
  <2> HIDE DEF D
  <2> QED
    BY <1>3, <2>1
<1> QED
  BY <1>2, <1>5, <1>6, <1>7, <1>8 DEF Followed

LEMMA OneMore ==
    ASSUME NEW E, NEW es \in Seq(E), NEW e
    PROVE  /\ es \o <<e>> \in Seq(E \union {e}) /\ Len(es \o <<e>>) = Len(es) + 1
           /\ (es \o <<e>>)[Len(es) + 1] = e
           /\ \A i \in 1 .. Len(es) : (es \o <<e>>)[i] = es[i]
<1>1. es \in Seq(E \union {e}) /\ <<e>> \in Seq(E \union {e})
  OBVIOUS
<1> QED
  BY <1>1

\* Another event is followed after the others.
LEMMA FollowedOneMore ==
    ASSUME NEW b, NEW E, NEW es \in Seq(E), Len(es) <= 2, NEW e
    PROVE  FoldLeft(Tells, b, es \o <<e>>) = Tells(FoldLeft(Tells, b, es), e)
<1>1. Len(es) = 0 \/ Len(es) = 1 \/ Len(es) = 2
  <2>1. Len(es) \in Nat
    OBVIOUS
  <2>2. \A n \in Nat : n <= 2 => n = 0 \/ n = 1 \/ n = 2
    OBVIOUS
  <2> QED
    BY <2>1, <2>2, Zenon
<1> DEFINE fs == es \o <<e>>
<1>2. /\ Len(es) \in Nat /\ fs \in Seq(E \union {e}) /\ Len(fs) = Len(es) + 1
      /\ fs[Len(es) + 1] = e /\ \A i \in 1 .. Len(es) : fs[i] = es[i]
  BY OneMore
<1>3. DOMAIN es = 1 .. Len(es) /\ DOMAIN fs = 1 .. (Len(es) + 1)
  BY <1>2
<1> HIDE DEF fs
<1>4. /\ FoldLeft(Tells, b, es) = Followed(b, es)
      /\ FoldLeft(Tells, b, fs) = Followed(b, fs)
  <2>1. /\ DOMAIN es \in {{}, {1}, {1, 2}, {1, 2, 3}}
        /\ DOMAIN fs \in {{}, {1}, {1, 2}, {1, 2, 3}}
    <3>1. 1 .. 0 = {} /\ 1 .. 1 = {1} /\ 1 .. 2 = {1, 2} /\ 1 .. 3 = {1, 2, 3}
      OBVIOUS
    <3> QED
      BY <1>3, <1>1, <3>1
  <2> QED
    BY <2>1, FoldIs
<1>5. Followed(b, fs) = Tells(Followed(b, es), e)
  <2>1. CASE Len(es) = 0
    BY <1>2, <1>3, <2>1 DEF Followed
  <2>2. CASE Len(es) = 1
    BY <1>2, <1>3, <2>2 DEF Followed
  <2>3. CASE Len(es) = 2
    BY <1>2, <1>3, <2>3 DEF Followed
  <2> QED
    BY <1>1, <2>1, <2>2, <2>3
<1> QED
  BY <1>4, <1>5 DEF fs

\* What a listener of events knows of the layer.
View == [products |-> Known(products), manufacturers |-> registered_manufacturers,
         next_id |-> next_product_id, admin |-> admin_account,
         free |-> free, collection |-> collection, nft |-> nft]

LEMMA ViewIs == Public(Storage) = View
BY DEF Public, Storage, View

\* The inductive invariant of the events: at every part, those deposited so far tell
\* what the layer is, and there is room for those to come.
Told ==
    /\ at # "idle" => FoldLeft(Tells, Public(below), events) = View
    /\ \E E : events \in Seq(E)
    /\ at \in {"idle", "collection", "payment", "burn"} => events = << >>
    /\ at \in {"mint", "transfer"} => Len(events) <= 1
    /\ at = "record" => Len(events) <= 2

LEMMA NothingTold == \A b : FoldLeft(Tells, b, << >>) = b
<1> SUFFICES ASSUME NEW b PROVE FoldLeft(Tells, b, << >>) = b
    OBVIOUS
<1>1. \A es : DOMAIN es = {} => FoldLeft(Tells, b, es) = b
  <2> SUFFICES ASSUME NEW es, DOMAIN es = {} PROVE FoldLeft(Tells, b, es) = b
      OBVIOUS
  <2>1. FoldLeft(Tells, b, es) = Followed(b, es)
    BY FoldIs
  <2> QED
    BY <2>1 DEF Followed
<1>2. DOMAIN << >> = {}
  OBVIOUS
<1> QED
  BY <1>1, <1>2, Zenon

LEMMA FewTold ==
    ASSUME Told, Len(events) <= 1
    PROVE  Len(events) <= 2
<1>1. PICK E : events \in Seq(E)
  BY DEF Told
<1>2. Len(events) \in Nat
  BY <1>1
<1> QED
  BY <1>2

LEMMA OneEventMore ==
    ASSUME NEW E, events \in Seq(E), Len(events) <= 2, NEW e, NEW b
    PROVE  FoldLeft(Tells, b, events \o <<e>>) = Tells(FoldLeft(Tells, b, events), e)
BY FollowedOneMore, ZenonT(60)

\* What a part that deposits one event has to show of itself.
LEMMA ToldOnce ==
    ASSUME Told, at # "idle", UNCHANGED below, NEW e, events' = events \o <<e>>,
           Len(events) <= 2, at' = "record" => Len(events) <= 1,
           at' \in {"mint", "transfer"} => events = << >>,
           at' \in {"mint", "transfer", "record", "return"},
           View' = Tells(View, e)
    PROVE  Told'
<1>1. PICK E : events \in Seq(E)
  BY DEF Told
<1>2. FoldLeft(Tells, Public(below), events) = View
  BY DEF Told
<1>3. /\ events' \in Seq(E \union {e}) /\ Len(events') = Len(events) + 1
      /\ Len(events) \in Nat
  BY <1>1, OneMore
<1>4. FoldLeft(Tells, Public(below), events') =
          Tells(FoldLeft(Tells, Public(below), events), e)
  <2>1. \A b : FoldLeft(Tells, b, events \o <<e>>) =
                   Tells(FoldLeft(Tells, b, events), e)
    <3> SUFFICES ASSUME NEW b
                 PROVE  FoldLeft(Tells, b, events \o <<e>>) =
                            Tells(FoldLeft(Tells, b, events), e)
        OBVIOUS
    <3> QED
      BY <1>1, OneEventMore, ZenonT(60)
  <2>2. FoldLeft(Tells, Public(below), events \o <<e>>) =
            Tells(FoldLeft(Tells, Public(below), events), e)
    BY <2>1, Zenon
  <2> QED
    BY <2>2
<1>5. FoldLeft(Tells, Public(below'), events') = View'
  BY <1>2, <1>4
<1>6. events = << >> => Len(events) = 0
  OBVIOUS
<1> QED
  BY <1>3, <1>5, <1>6 DEF Told

\* And one that deposits none.
LEMMA ToldNone ==
    ASSUME Told, at # "idle", UNCHANGED <<vars, below>>,
           events' = events \/ events' = events \o << >>,
           at' = "record" => Len(events) <= 2,
           at' \in {"mint", "transfer"} => Len(events) <= 1,
           at' \in {"mint", "transfer", "record", "return"}
    PROVE  Told'
<1>1. PICK E : events \in Seq(E)
  BY DEF Told
<1>2. events' = events
  BY <1>1
<1>3. View' = View
  BY DEF View, vars, storage
<1> QED
  BY <1>2, <1>3 DEF Told

LEMMA CollectionTold ==
    ASSUME LayerInv, Told, ensure_collection_exists, UNCHANGED <<call, below>>
    PROVE  Told'
<1>1. /\ at = "collection" /\ at' = "mint" /\ events = << >> /\ Len(events) = 0
      /\ UNCHANGED <<products, registered_manufacturers, next_product_id, admin_account,
                     free, nft>>
  BY DEF ensure_collection_exists, GoOn, storage, Told
<1>2. CASE collection = NoCollection
  <2> DEFINE e == [name |-> "Created", by |-> PalletAccount]
  <2>1. events' = events \o <<e>> /\ collection' = Created(PalletAccount, PalletAccount)
    BY <1>2 DEF ensure_collection_exists, GoOn, EnsuredCollection
  <2>2. View' = Tells(View, e)
    BY <1>1, <2>1 DEF Tells, View
  <2> HIDE DEF e
  <2> QED
    BY <1>1, <2>1, <2>2, ToldOnce
<1>3. CASE collection # NoCollection
  BY <1>1, <1>3, ToldNone
     DEF ensure_collection_exists, GoOn, EnsuredCollection, vars, storage
<1> QED
  BY <1>2, <1>3

LEMMA MintTold ==
    ASSUME LayerInv, Told, mint, UNCHANGED <<call, below>>
    PROVE  Told'
<1> DEFINE item == ItemIdOf(next_product_id)
           e == [name |-> "Issued", item |-> item, to |-> call.who]
<1>1. at = "mint" /\ Len(events) <= 1
  BY DEF mint, Told
<1>2. CASE CanMint(collection, PalletAccount, item)
  <2>1. /\ at' = "record" /\ nft' = Minted(item, call.who) /\ events' = events \o <<e>>
        /\ UNCHANGED <<products, registered_manufacturers, next_product_id,
                       admin_account, free, collection>>
    BY <1>2 DEF mint, Ensure, GoOn, storage
  <2>2. View' = Tells(View, e)
    BY <2>1 DEF Tells, View, Minted
  <2> HIDE DEF e
  <2>3. Len(events) <= 2
    BY <1>1, FewTold
  <2> QED
    BY <1>1, <2>1, <2>2, <2>3, ToldOnce
<1>3. CASE ~CanMint(collection, PalletAccount, item)
  BY <1>1, <1>3, ToldNone DEF mint, Ensure, Err
<1> QED
  BY <1>2, <1>3

LEMMA PayTold ==
    ASSUME LayerInv, Told, pay, UNCHANGED <<call, below>>
    PROVE  Told'
<1> DEFINE product == products[call.id]
           e == [name |-> "Transfer", from |-> call.who,
                 to |-> product.owner, amount |-> product.price]
<1>1. at = "payment" /\ events = << >> /\ Len(events) = 0
  BY DEF pay, Told
<1>2. CASE CanPay(call.who, product)
  <2>1. /\ at' = "transfer" /\ free' = Transferred(call.who, product.owner, product.price)
        /\ events' = events \o (IF product.price = 0 THEN << >> ELSE <<e>>)
        /\ UNCHANGED <<products, registered_manufacturers, next_product_id,
                       admin_account, collection, nft>>
    BY <1>2 DEF pay, Ensure, GoOn, storage, Paid
  <2>2. CASE product.price # 0
    <3>1. View' = Tells(View, e)
      BY <2>1 DEF Tells, View, Transferred
    <3> HIDE DEF e
    <3> QED
      BY <1>1, <2>1, <2>2, <3>1, ToldOnce
  <2>3. CASE product.price = 0
    <3>1. free' = free
      BY <2>1, <2>3
         DEF Transferred, LayerInv, ExtrinsicTypeOK, TypeOK, BalancesTypeOK
    <3> QED
      BY <1>1, <2>1, <2>3, <3>1, ToldNone DEF vars, storage
  <2> QED
    BY <2>2, <2>3
<1>3. CASE ~CanPay(call.who, product)
  BY <1>1, <1>3, ToldNone DEF pay, Ensure, Err
<1> QED
  BY <1>2, <1>3

LEMMA TransferTold ==
    ASSUME LayerInv, Told, transfer, UNCHANGED <<call, below>>
    PROVE  Told'
<1> DEFINE product == products[call.id]
           e == [name |-> "Transferred", item |-> product.item, to |-> call.who]
<1>1. at = "transfer" /\ Len(events) <= 1
  BY DEF transfer, Told
<1>2. CASE CanMove(product.owner, product.item)
  <2>1. /\ at' = "record" /\ nft' = Minted(product.item, call.who)
        /\ events' = events \o <<e>>
        /\ UNCHANGED <<products, registered_manufacturers, next_product_id,
                       admin_account, free, collection>>
    BY <1>2 DEF transfer, Ensure, GoOn, storage, Moved
  <2>2. View' = Tells(View, e)
    BY <2>1 DEF Tells, View, Minted
  <2> HIDE DEF e
  <2>3. Len(events) <= 2
    BY <1>1, FewTold
  <2> QED
    BY <1>1, <2>1, <2>2, <2>3, ToldOnce
<1>3. CASE ~CanMove(product.owner, product.item)
  BY <1>1, <1>3, ToldNone DEF transfer, Ensure, Err
<1> QED
  BY <1>2, <1>3

LEMMA BurnTold ==
    ASSUME LayerInv, Told, burn, UNCHANGED <<call, below>>
    PROVE  Told'
<1> DEFINE item == products[call.id].item
           e == [name |-> "Burned", item |-> item]
<1>1. at = "burn" /\ events = << >> /\ Len(events) = 0
  BY DEF burn, Told
<1>2. CASE CanBurn(call.who, item)
  <2>1. /\ at' = "record" /\ nft' = Burnt(item) /\ events' = events \o <<e>>
        /\ UNCHANGED <<products, registered_manufacturers, next_product_id,
                       admin_account, free, collection>>
    BY <1>2 DEF burn, Ensure, GoOn, storage
  <2>2. View' = Tells(View, e)
    BY <2>1 DEF Tells, View, Burnt
  <2> HIDE DEF e
  <2> QED
    BY <1>1, <2>1, <2>2, ToldOnce
<1>3. CASE ~CanBurn(call.who, item)
  BY <1>1, <1>3, ToldNone DEF burn, Ensure, Err
<1> QED
  BY <1>2, <1>3

\* The pallet's own events.
LEMMA RecordTold ==
    ASSUME LayerInv, Told, at = "record", at' = "return", NEW e,
           events' = events \o <<e>>, UNCHANGED below, View' = Tells(View, e)
    PROVE  Told'
BY ToldOnce DEF Told

\* What a listener knows of the records follows each write.
LEMMA KnownExcept ==
    ASSUME NEW f, f \in [ProductId -> Product \union {NoProduct}], NEW id \in ProductId, NEW p
    PROVE  Known([f EXCEPT ![id] = p]) = [Known(f) EXCEPT ![id] = Unlabelled(p)]
BY DEF Known

LEMMA ListedType ==
    ASSUME LayerInv, record_listed
    PROVE  /\ next_product_id \in ProductId
           /\ NewProduct(next_product_id, call.who, call.label, call.price) \in Product
           /\ NewProduct(next_product_id, call.who, call.label, call.price) # NoProduct
<1> DEFINE id == next_product_id
<1>1. /\ at = "record" /\ outcome = "Ok" /\ Seen = below /\ call.fn = "list_product"
      /\ call.who \in Account /\ call.label \in Label /\ call.price \in Price
  BY LayerOf, CallType DEF record_listed, Records
<1>2. list_product_layer
  BY <1>1, LayerOf DEF LayerIsRight, buy_product_layer, redeem_product_layer,
                       toggle_sale_layer, admin_layer
<1>3. id \in ProductId /\ id \in ItemId
  BY <1>1, <1>2, MarketplaceAssumption
     DEF list_product_layer, Before!Full, LayerInv, ExtrinsicTypeOK, TypeOK, ProductId
<1>4. NewProduct(id, call.who, call.label, call.price) \in Product
  BY <1>1, <1>3, MarketplaceAssumption DEF NewProduct, Product, ItemIdOf
<1> QED
  BY <1>3, <1>4, MarketplaceAssumption

LEMMA RecordedIsCalled ==
    ASSUME LayerInv, at = "record" PROVE call \in Extrinsics
BY LayerOf, CallType DEF LayerInv, ExtrinsicTypeOK

\* A record that is rewritten is there.
LEMMA RecordedIsListed ==
    ASSUME LayerInv, at = "record",
           call.fn \in {"buy_product", "toggle_sale", "redeem_product"}
    PROVE  products[call.id] \in Product /\ call.id \in ProductId
<1>1. /\ Seen = below /\ Before!LedgersAgree
      /\ buy_product_layer \/ toggle_sale_layer \/ redeem_product_layer
  BY LayerOf DEF LayerIsRight, list_product_layer, admin_layer, LayerInv
<1>2. products = below.products /\ call.id \in Before!Listed
  BY <1>1 DEF buy_product_layer, toggle_sale_layer, redeem_product_layer, Before!CanToggle,
              Before!CanRedeem
<1> QED
  BY <1>1, <1>2, ListedBelow

LEMMA ListedTold ==
    ASSUME LayerInv, Told, record_listed, UNCHANGED <<call, below>>
    PROVE  Told'
<1> DEFINE id == next_product_id
           e == [name |-> "ProductListed", id |-> id, item |-> ItemIdOf(id),
                 who |-> call.who, price |-> call.price]
<1>1. /\ at = "record" /\ at' = "return" /\ events' = events \o <<e>>
      /\ products' = [products EXCEPT ![id] = NewProduct(id, call.who, call.label, call.price)]
      /\ next_product_id' = id + 1
      /\ UNCHANGED <<registered_manufacturers, admin_account, free, collection, nft>>
  BY DEF record_listed, Records, GoOn, NextId
<1> DEFINE new == NewProduct(id, call.who, call.label, call.price)
<1>2. /\ Known(products') = [Known(products) EXCEPT ![id] = Unlabelled(new)]
      /\ new # NoProduct
  BY <1>1, ListedType, KnownExcept DEF LayerInv, ExtrinsicTypeOK, TypeOK, UniquesTypeOK
<1>3. Unlabelled(new) = [item |-> e.item, price |-> e.price, owner |-> e.who,
                         genesis_owner |-> e.who, on_sale |-> TRUE,
                         is_redeemed |-> FALSE, holders_count |-> 0]
  BY <1>2 DEF Unlabelled, NewProduct
<1> HIDE DEF new
<1>4. View' = Tells(View, e)
  BY <1>1, <1>2, <1>3 DEF Tells, View
<1> HIDE DEF e
<1> QED
  BY <1>1, <1>4, RecordTold

\* An update of a product's record, and its event.
LEMMA InsertsTold ==
    ASSUME LayerInv, Told, at = "record", UNCHANGED <<call, below, free, collection, nft>>,
           NEW product, NEW e, Inserts(product, e),
           call.id \in ProductId,
           Tells(View, e) =
               [View EXCEPT !.products =
                    [Known(products) EXCEPT ![call.id] = Unlabelled(product)]]
    PROVE  Told'
<1>1. /\ at' = "return" /\ events' = events \o <<e>>
      /\ products' = [products EXCEPT ![call.id] = product]
      /\ UNCHANGED <<registered_manufacturers, next_product_id, admin_account>>
  BY DEF Inserts, GoOn
<1>2. Known(products') = [Known(products) EXCEPT ![call.id] = Unlabelled(product)]
  <2>1. products \in [ProductId -> Product \union {NoProduct}]
    BY DEF LayerInv, ExtrinsicTypeOK, TypeOK
  <2> QED
    BY <1>1, <2>1 DEF Known
<1>3. View' = [View EXCEPT !.products =
                              [Known(products) EXCEPT ![call.id] = Unlabelled(product)]]
  BY <1>1, <1>2 DEF View
<1> QED
  BY <1>1, <1>3, RecordTold

\* The fields of a record that the events tell.
Fields(p) ==
    [item |-> p.item, price |-> p.price, owner |-> p.owner,
     genesis_owner |-> p.genesis_owner, on_sale |-> p.on_sale,
     is_redeemed |-> p.is_redeemed, holders_count |-> p.holders_count]

LEMMA UnlabelledIs == \A p \in Product : Unlabelled(p) = Fields(p)
BY MarketplaceAssumption DEF Unlabelled, Fields

\* What it takes for one record to be another with one field changed, or with three.
LEMMA RedeemedFields ==
    ASSUME NEW p, NEW q, NEW v, p.item = q.item, p.price = q.price,
           p.genesis_owner = q.genesis_owner, q.owner = p.owner,
           q.on_sale = p.on_sale, q.holders_count = p.holders_count,
           q.is_redeemed = v
    PROVE  Fields(q) = [Fields(p) EXCEPT !.is_redeemed = v]
BY DEF Fields

SoldAs(r, owner, on_sale, holders_count) ==
    [[[r EXCEPT !.owner = owner]
          EXCEPT !.on_sale = on_sale]
          EXCEPT !.holders_count = holders_count]

LEMMA SoldFields ==
    ASSUME NEW p, NEW q, NEW v, p.item = q.item, p.price = q.price,
           p.genesis_owner = q.genesis_owner, q.is_redeemed = p.is_redeemed,
           q.on_sale = v
    PROVE  Fields(q) = SoldAs(Fields(p), q.owner, v, q.holders_count)
<1> DEFINE n == {"item", "price", "owner", "genesis_owner", "on_sale",
                 "is_redeemed", "holders_count"}
           f0 == Fields(p)
           f1 == [f0 EXCEPT !.owner = q.owner]
           f2 == [f1 EXCEPT !.on_sale = v]
           f3 == [f2 EXCEPT !.holders_count = q.holders_count]
<1>1. f0 = [x \in n |-> f0[x]]
  BY DEF Fields
<1>2. f1 = [x \in n |-> IF x = "owner" THEN q.owner ELSE f0[x]]
  <2> HIDE DEF f0, n
  <2> QED
    BY <1>1
<1>3. f2 = [x \in n |-> IF x = "on_sale" THEN v ELSE f1[x]]
  <2> HIDE DEF f0, f1, n
  <2> QED
    BY <1>2
<1>4. f3 = [x \in n |-> IF x = "holders_count" THEN q.holders_count ELSE f2[x]]
  <2> HIDE DEF f0, f1, f2, n
  <2> QED
    BY <1>3
<1>5. Fields(q) = [x \in n |-> Fields(q)[x]]
  BY DEF Fields
<1>6. \A x \in n : Fields(q)[x] = f3[x]
  <2> HIDE DEF f0, f1, f2, f3
  <2>1. \A x \in n : f3[x] = CASE x = "owner" -> q.owner
                               [] x = "on_sale" -> v
                               [] x = "holders_count" -> q.holders_count
                               [] OTHER -> f0[x]
    BY <1>2, <1>3, <1>4
  <2> QED
    BY <2>1 DEF f0, Fields
<1>7. Fields(q) = f3
  <2> HIDE DEF n, f2, f3
  <2> QED
    BY <1>4, <1>5, <1>6
<1> QED
  BY <1>7 DEF SoldAs

LEMMA PurchasedTold ==
    ASSUME LayerInv, Told, record_purchased, UNCHANGED <<call, below>>
    PROVE  Told'
<1> DEFINE old == products[call.id]
           new == Sold(old, call.who)
           e == ProductPurchased(new)
<1>1. at = "record" /\ call.fn = "buy_product" /\ UNCHANGED <<free, collection, nft>>
      /\ Inserts(new, e)
  BY DEF record_purchased, Records
<1>2. old \in Product /\ call.id \in ProductId
  BY <1>1, RecordedIsListed
<1>3. /\ e.name = "ProductPurchased" /\ e.id = call.id
      /\ e.buyer = new.owner /\ e.holders = new.holders_count
  BY DEF ProductPurchased
<1>4. Unlabelled(new) = SoldAs(Unlabelled(old), new.owner, FALSE, new.holders_count)
  <2>1. call.who \in Account
    BY <1>1, CallType, RecordedIsCalled
  <2>2. new \in Product /\ new.item = old.item /\ new.price = old.price
        /\ new.genesis_owner = old.genesis_owner /\ new.is_redeemed = old.is_redeemed
        /\ new.on_sale = FALSE
    BY <1>2, <2>1, SoldType
  <2> HIDE DEF e, new, old
  <2>3. /\ Unlabelled(old) = Fields(old) /\ Unlabelled(new) = Fields(new)
    BY <1>2, <2>2, UnlabelledIs
  <2>4. Fields(new) = SoldAs(Fields(old), new.owner, FALSE, new.holders_count)
    BY <2>2, SoldFields
  <2> QED
    BY <2>3, <2>4
<1> HIDE DEF e, new, old
<1>5. Tells(View, e) =
          [View EXCEPT !.products =
               [Known(products) EXCEPT ![call.id] = Unlabelled(new)]]
  <2> DEFINE With(p) == [View EXCEPT !.products = p]
             p0 == Known(products)
             p1 == [p0 EXCEPT ![call.id].owner = new.owner]
             p2 == [p1 EXCEPT ![call.id].on_sale = FALSE]
             p3 == [p2 EXCEPT ![call.id].holders_count = new.holders_count]
  <2>1. Tells(View, e) =
            [View EXCEPT !.products[call.id].owner = new.owner,
                                    !.products[call.id].on_sale = FALSE,
                                    !.products[call.id].holders_count =
                                        new.holders_count]
    BY <1>3 DEF Tells
  <2>2. Tells(View, e) =
            [[[View EXCEPT !.products[call.id].owner = new.owner]
                 EXCEPT !.products[call.id].on_sale = FALSE]
                 EXCEPT !.products[call.id].holders_count = new.holders_count]
    BY <2>1, Zenon
  <2>3. /\ [View EXCEPT !.products[call.id].owner = new.owner] = With(p1)
        /\ [With(p1) EXCEPT !.products[call.id].on_sale = FALSE] = With(p2)
        /\ [With(p2) EXCEPT !.products[call.id].holders_count = new.holders_count]
               = With(p3)
    BY DEF View
  <2>4. p3 = [p0 EXCEPT ![call.id] = Unlabelled(new)]
    <3>1. p0 = [id \in ProductId |-> p0[id]] /\ p0[call.id] = Unlabelled(old)
      BY <1>2 DEF Known, old
    <3> HIDE DEF p0
    <3> QED
      BY <1>2, <1>4, <3>1 DEF SoldAs
  <2> HIDE DEF With, p0, p1, p2, p3
  <2>5. Tells(View, e) = With(p3)
    BY <2>2, <2>3
  <2> QED
    BY <2>4, <2>5 DEF With, p0
<1> QED
  BY <1>1, <1>2, <1>5, InsertsTold

LEMMA ToggledTold ==
    ASSUME LayerInv, Told, record_toggled, UNCHANGED <<call, below>>
    PROVE  Told'
<1> DEFINE old == products[call.id]
           new == [old EXCEPT !.on_sale = call.for_sale]
           e == [name |-> "SaleToggled", id |-> call.id, who |-> call.who,
                 status |-> call.for_sale]
<1>1. /\ at = "record" /\ call.fn = "toggle_sale"
      /\ UNCHANGED <<free, collection, nft>> /\ Inserts(new, e)
  BY DEF record_toggled, Records
<1>2. old \in Product /\ call.id \in ProductId /\ call.for_sale \in BOOLEAN
  BY <1>1, RecordedIsListed, RecordedIsCalled, CallType
<1>3. Unlabelled(new) = [Unlabelled(old) EXCEPT !.on_sale = call.for_sale]
  <2>1. new \in Product /\ old # NoProduct /\ new # NoProduct
    BY <1>2, MarketplaceAssumption DEF Product
  <2> QED
    BY <1>2, <2>1 DEF Product, Unlabelled
<1>4. Tells(View, e) =
          [View EXCEPT !.products =
               [Known(products) EXCEPT ![call.id] = Unlabelled(new)]]
  <2>1. Tells(View, e) =
            [View EXCEPT !.products[call.id].on_sale = call.for_sale]
    BY DEF Tells
  <2>2. Known(products)[call.id] = Unlabelled(old)
    BY <1>2 DEF Known
  <2> HIDE DEF new, old
  <2> QED
    BY <1>3, <2>1, <2>2 DEF View
<1> HIDE DEF e, new
<1> QED
  BY <1>1, <1>2, <1>4, InsertsTold

LEMMA RedeemedTold ==
    ASSUME LayerInv, Told, record_redeemed, UNCHANGED <<call, below>>
    PROVE  Told'
<1> DEFINE old == products[call.id]
           new == Redeemed(old)
           e == [name |-> "ProductRedeemed", id |-> call.id, item |-> new.item,
                 who |-> call.who]
<1>1. /\ at = "record" /\ call.fn = "redeem_product"
      /\ UNCHANGED <<free, collection, nft>> /\ Inserts(new, e)
  BY DEF record_redeemed, Records
<1>2. old \in Product /\ call.id \in ProductId
  BY <1>1, RecordedIsListed
<1>3. Unlabelled(new) = [Unlabelled(old) EXCEPT !.is_redeemed = TRUE]
  <2>1. /\ new \in Product /\ new.item = old.item /\ new.price = old.price
        /\ new.owner = old.owner /\ new.genesis_owner = old.genesis_owner
        /\ new.on_sale = old.on_sale /\ new.holders_count = old.holders_count
        /\ new.is_redeemed = TRUE
    BY <1>2 DEF Product, Redeemed
  <2> HIDE DEF e, new, old
  <2>2. Unlabelled(old) = Fields(old) /\ Unlabelled(new) = Fields(new)
    BY <1>2, <2>1, UnlabelledIs
  <2> QED
    BY <2>1, <2>2, RedeemedFields
<1>4. Tells(View, e) =
          [View EXCEPT !.products =
               [Known(products) EXCEPT ![call.id] = Unlabelled(new)]]
  <2>1. Tells(View, e) =
            [View EXCEPT !.products[call.id].is_redeemed = TRUE]
    BY DEF Tells
  <2>2. Known(products)[call.id] = Unlabelled(old)
    BY <1>2 DEF Known
  <2> HIDE DEF new, old
  <2> QED
    BY <1>3, <2>1, <2>2 DEF View
<1> HIDE DEF e, new
<1> QED
  BY <1>1, <1>2, <1>4, InsertsTold

LEMMA ManufacturerTold ==
    ASSUME LayerInv, Told, record_manufacturer, UNCHANGED <<call, below>>
    PROVE  Told'
<1>1. /\ at = "record" /\ at' = "return"
      /\ UNCHANGED <<products, next_product_id, admin_account, free, collection, nft>>
  BY DEF record_manufacturer, Records, GoOn
<1>2. ASSUME NEW e, e = [name |-> "ManufacturerRegistered", who |-> call.account],
             events' = events \o <<e>>,
             registered_manufacturers' = registered_manufacturers \union {call.account}
      PROVE  Told'
  <2>1. View' = Tells(View, e)
    BY <1>1, <1>2 DEF Tells, View
  <2> QED
    BY <1>1, <1>2, <2>1, RecordTold
<1>3. ASSUME NEW e, e = [name |-> "ManufacturerUnregistered", who |-> call.account],
             events' = events \o <<e>>,
             registered_manufacturers' = registered_manufacturers \ {call.account}
      PROVE  Told'
  <2>1. View' = Tells(View, e)
    BY <1>1, <1>3 DEF Tells, View
  <2> QED
    BY <1>1, <1>3, <2>1, RecordTold
<1> QED
  BY <1>2, <1>3 DEF record_manufacturer, GoOn

LEMMA AdminTold ==
    ASSUME LayerInv, Told, record_admin, UNCHANGED <<call, below>>
    PROVE  Told'
<1> DEFINE e == [name |-> "AdminSet", who |-> call.account]
<1>1. /\ at = "record" /\ at' = "return" /\ events' = events \o <<e>>
      /\ admin_account' = call.account
      /\ UNCHANGED <<products, registered_manufacturers, next_product_id, free, collection,
                     nft>>
  BY DEF record_admin, Records, GoOn
<1>2. View' = Tells(View, e)
  BY <1>1 DEF Tells, View
<1> HIDE DEF e
<1> QED
  BY <1>1, <1>2, RecordTold

\* The checks write nothing and deposit nothing.
LEMMA BeginTold ==
    ASSUME LayerInv, Told, NEW c \in Extrinsics, Begin(c)
    PROVE  Told'
<1>1. at = "idle" /\ events = << >> /\ below' = Storage
  BY DEF Begin, Told
<1>2. /\ UNCHANGED vars /\ events' = << >>
      /\ at' \in {"collection", "payment", "burn", "record", "return"}
  BY <1>1 DEF Begin, list_product_checks, buy_product_checks, toggle_sale_checks,
              redeem_product_checks, register_manufacturer_checks,
              unregister_manufacturer_checks, set_admin_checks, Ensure, Checked, Err, GoOn
<1>3. View' = View /\ Public(below') = View
  BY <1>1, <1>2, ViewIs DEF View, vars, storage
<1>4. << >> \in Seq({}) /\ Len(<< >>) = 0
  OBVIOUS
<1> QED
  BY <1>1, <1>2, <1>3, <1>4, NothingTold DEF Told

LEMMA ToldStep == LayerInv /\ Told /\ [ExtrinsicNext]_xvars => Told'
<1> SUFFICES ASSUME LayerInv, Told, [ExtrinsicNext]_xvars PROVE Told'
    OBVIOUS
<1>1. ASSUME NEW c \in Extrinsics, Begin(c) PROVE Told'
  BY <1>1, BeginTold
<1>2. ASSUME Part, UNCHANGED <<call, below>> PROVE Told'
  BY <1>2, CollectionTold, MintTold, PayTold, TransferTold, BurnTold, ListedTold,
     PurchasedTold, ToggledTold, RedeemedTold, ManufacturerTold, AdminTold DEF Part
<1>3. CASE Return
  <2>1. << >> \in Seq({})
    OBVIOUS
  <2> QED
    BY <1>3, <2>1 DEF Return, Told
<1>4. CASE UNCHANGED xvars
  <2>1. View' = View /\ UNCHANGED <<at, below, events>>
    BY <1>4 DEF xvars, frame, vars, storage, View
  <2> QED
    BY <2>1 DEF Told
<1> QED
  BY <1>1, <1>2, <1>3, <1>4 DEF ExtrinsicNext

\* Who follows the events, of this pallet and of those it calls, drifts in nothing but
\* the names and metadata of products, which no event carries: whatever the call and
\* its arguments, they say all else that it did to the storage.
THEOREM EventsTell == ExtrinsicSpec => []EventsTellAllButLabels
<1>1. ExtrinsicInit => Told
  <2>1. << >> \in Seq({})
    OBVIOUS
  <2> QED
    BY <2>1 DEF ExtrinsicInit, Told
<1>2. Told => EventsTellAllButLabels
  BY ViewIs DEF Told, EventsTellAllButLabels
<1> QED
  BY <1>1, <1>2, ToldStep, LayerCorrect, PTL DEF ExtrinsicSpec
=============================================================================
