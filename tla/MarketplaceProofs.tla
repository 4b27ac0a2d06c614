------------------------- MODULE MarketplaceProofs --------------------------
(***************************************************************************)
(* Theorems about the marketplace pallet, for every set of accounts, every *)
(* limit on products and every existential deposit.                        *)
(***************************************************************************)
EXTENDS Marketplace, TLAPS

-----------------------------------------------------------------------------
(* What the helpers return, when the state is well typed. *)

LEMMA ListedIsProduct ==
    ASSUME TypeOK, NEW id \in Listed
    PROVE  /\ id \in ProductId
           /\ products[id] \in Product
BY DEF TypeOK, Listed

LEMMA TransferredType ==
    ASSUME BalancesTypeOK, NEW from \in Account, NEW to \in Account,
           NEW amount \in Nat, CanTransfer(from, to, amount)
    PROVE  Transferred(from, to, amount) \in [Account -> Nat]
<1>1. CASE from = to
  BY <1>1 DEF BalancesTypeOK, Transferred
<1>2. CASE from # to
  <2>1. free[from] - amount \in Nat /\ free[to] + amount \in Nat
    BY BalancesAssumption, <1>2 DEF BalancesTypeOK, CanTransfer
  <2> QED
    BY <1>2, <2>1 DEF BalancesTypeOK, Transferred
<1> QED
  BY <1>1, <1>2

LEMMA MintedType ==
    ASSUME UniquesTypeOK, NEW item \in ItemId, NEW to \in Account
    PROVE  Minted(item, to) \in [ItemId -> ItemDetails \union {NoItem}]
BY DEF UniquesTypeOK, Minted, ItemDetails

LEMMA SoldType ==
    ASSUME NEW product \in Product, NEW buyer \in Account
    PROVE  /\ Sold(product, buyer) \in Product
           /\ Sold(product, buyer).owner = buyer
           /\ Sold(product, buyer).on_sale = FALSE
           /\ Sold(product, buyer).holders_count
                  = SaturatingIncr(product.holders_count)
           /\ Sold(product, buyer).item = product.item
           /\ Sold(product, buyer).label = product.label
           /\ Sold(product, buyer).price = product.price
           /\ Sold(product, buyer).genesis_owner = product.genesis_owner
           /\ Sold(product, buyer).is_redeemed = product.is_redeemed
<1>1. SaturatingIncr(product.holders_count) \in 0 .. HoldersMax
  BY MarketplaceAssumption DEF Product, SaturatingIncr
<1> QED
  BY <1>1 DEF Product, Sold

-----------------------------------------------------------------------------
(* Every state is well typed. *)

LEMMA TypeInit == Init => TypeOK
<1> SUFFICES ASSUME Init PROVE TypeOK
    OBVIOUS
<1>1. BalancesTypeOK
  <2>1. Endowment \union {0} \subseteq Nat
    BY BalancesAssumption
  <2> QED
    BY <2>1 DEF Init, BalancesInit, BalancesTypeOK
<1>2. UniquesTypeOK
  BY DEF Init, UniquesInit, UniquesTypeOK
<1> QED
  BY <1>1, <1>2 DEF Init, TypeOK

LEMMA TypeStep == TypeOK /\ [Next]_vars => TypeOK'
<1> SUFFICES ASSUME TypeOK, [Next]_vars PROVE TypeOK'
    OBVIOUS
<1> USE DEF TypeOK
<1>1. ASSUME NEW who \in User, NEW label \in Label, NEW price \in Price,
             list_product(who, label, price)
      PROVE  TypeOK'
  <2> DEFINE id == next_product_id
  <2>1. id \in ProductId /\ id + 1 \in Nat /\ ItemIdOf(id) \in ItemId
    BY MarketplaceAssumption, <1>1 DEF list_product, Full, NextId, ProductId, ItemIdOf
  <2>2. who \in Account
    BY DEF User
  <2>3. NewProduct(id, who, label, price) \in Product
    BY MarketplaceAssumption, <2>1, <2>2 DEF NewProduct, Product
  <2>4. EnsuredCollection \in CollectionDetails
    BY AccountAssumption
       DEF EnsuredCollection, Created, CollectionDetails, UniquesTypeOK
  <2> QED
    BY <1>1, <2>1, <2>2, <2>3, <2>4, MintedType
       DEF list_product, Full, NextId, BalancesTypeOK, UniquesTypeOK
<1>2. ASSUME NEW who \in User, NEW id \in ProductId, buy_product(who, id)
      PROVE  TypeOK'
  <2>1. who \in Account /\ id \in Listed /\ products[id] \in Product
    BY <1>2, ListedIsProduct DEF User, buy_product, CanBuy
  <2>2. /\ products[id].owner \in Account /\ products[id].price \in Nat
        /\ products[id].item \in ItemId
    BY MarketplaceAssumption, <2>1 DEF Product
  <2>3. free' \in [Account -> Nat]
    BY <1>2, <2>1, <2>2, TransferredType DEF buy_product, CanBuy, CanPay, Paid
  <2>4. nft' \in [ItemId -> ItemDetails \union {NoItem}]
    BY <1>2, <2>1, <2>2, MintedType DEF buy_product, Moved
  <2>5. products' \in [ProductId -> Product \union {NoProduct}]
    BY <1>2, <2>1, SoldType DEF buy_product
  <2> QED
    BY <1>2, <2>3, <2>4, <2>5 DEF buy_product, BalancesTypeOK, UniquesTypeOK
<1>3. ASSUME NEW who \in User, NEW id \in ProductId, redeem_product(who, id)
      PROVE  TypeOK'
  <2>1. products[id] \in Product
    BY <1>3, ListedIsProduct DEF redeem_product, CanRedeem, Redeemed
  <2>2. Redeemed(products[id]) \in Product
    BY <2>1 DEF Product, Redeemed
  <2> QED
    BY <1>3, <2>1, <2>2
       DEF redeem_product, CanRedeem, Redeemed, Burnt, BalancesTypeOK, UniquesTypeOK
<1>4. ASSUME NEW who \in User, NEW id \in ProductId, NEW for_sale \in BOOLEAN,
             toggle_sale(who, id, for_sale)
      PROVE  TypeOK'
  <2>1. products[id] \in Product
    BY <1>4, ListedIsProduct DEF toggle_sale, CanToggle
  <2>2. [products[id] EXCEPT !.on_sale = for_sale] \in Product
    BY <2>1 DEF Product
  <2> QED
    BY <1>4, <2>1, <2>2 DEF toggle_sale, CanToggle, BalancesTypeOK, UniquesTypeOK
<1>5. ASSUME NEW who \in User, NEW a \in Account,
             \/ register_manufacturer(who, a)
             \/ unregister_manufacturer(who, a)
             \/ set_admin(who, a)
      PROVE  TypeOK'
  BY <1>5 DEF IsAdmin, register_manufacturer, unregister_manufacturer, set_admin,
              BalancesTypeOK, UniquesTypeOK
<1>6. CASE UNCHANGED vars
  BY <1>6 DEF vars, storage, BalancesTypeOK, UniquesTypeOK
<1> QED
  BY <1>1, <1>2, <1>3, <1>4, <1>5, <1>6 DEF Next, Call

\* Every storage item keeps its type, whatever is called: in particular no
\* balance goes negative, and no product gets an owner that is not an account.
THEOREM TypeCorrect == Spec => []TypeOK
BY TypeInit, TypeStep, PTL DEF Spec

-----------------------------------------------------------------------------
(* The ledgers agree.  Neither the agreement of records and NFTs nor the     *)
(* order of ids is inductive alone: a listing must not overwrite the NFT of  *)
(* an older product, which the order of ids tells, and a sale moves the NFT  *)
(* of its own product only because item and id correspond.                   *)

\* The pallet account keeps the collection it creates on demand.
CollectionIsOurs ==
    /\ collection \in {NoCollection, Created(PalletAccount, PalletAccount)}
    /\ Listed # {} => collection # NoCollection

LedgersAgree == /\ TypeOK
                /\ IdsInOrder
                /\ RecordAgreesWithNft
                /\ CollectionIsOurs

LEMMA LedgersInit == Init => LedgersAgree
<1> SUFFICES ASSUME Init PROVE LedgersAgree
    OBVIOUS
<1>1. Listed = {}
  BY DEF Init, Listed
<1>2. \A item \in ItemId : ~Exists(item)
  BY DEF Init, UniquesInit, Exists
<1>3. IdsInOrder
  BY MarketplaceAssumption, <1>1, <1>2 DEF Init, IdsInOrder, ProductId
<1> QED
  BY <1>1, <1>3, TypeInit DEF Init, LedgersAgree, RecordAgreesWithNft,
                              CollectionIsOurs, UniquesInit

LEMMA LedgersList ==
    ASSUME LedgersAgree, TypeOK', NEW who \in User, NEW label \in Label, NEW price \in Price,
           list_product(who, label, price)
    PROVE  LedgersAgree'
<1> DEFINE id == next_product_id
           new == NewProduct(id, who, label, price)
<1> USE DEF LedgersAgree, ItemIdOf
<1>1. id \in ProductId /\ id \in ItemId /\ id \notin Listed
  BY MarketplaceAssumption DEF list_product, Full, NextId, TypeOK, ProductId, IdsInOrder
<1>2. /\ new # NoProduct /\ new.item = id /\ new.owner = who
      /\ new.is_redeemed = FALSE
  <2>1. /\ new.item = id /\ new.owner = who /\ new.is_redeemed = FALSE
    BY DEF NewProduct
  <2>2. products'[id] = new
    BY <1>1 DEF list_product, Full, NextId, TypeOK
  <2>3. new \in Product
    <3>1. who \in Account
      BY DEF User
    <3> QED
      BY MarketplaceAssumption, <1>1, <3>1 DEF NewProduct, Product
  <2> QED
    BY MarketplaceAssumption, <2>1, <2>3
<1>3. Listed' = Listed \union {id}
  BY <1>1, <1>2 DEF list_product, Full, NextId, Listed, TypeOK
<1>4. /\ \A item \in ItemId \ {id} : nft'[item] = nft[item]
      /\ nft'[id] = [owner |-> who, approved |-> NoAccount]
      /\ nft'[id] # NoItem
  <2>1. who \in Account
    BY DEF User
  <2> QED
    BY UniquesAssumption, <1>1, <2>1
       DEF list_product, Full, NextId, Minted, TypeOK, UniquesTypeOK, ItemDetails
<1>5. IdsInOrder'
  <2>1. Listed' = {i \in ProductId : i < next_product_id'}
    BY <1>1, <1>3 DEF list_product, Full, NextId, IdsInOrder, ProductId, TypeOK
  <2>2. next_product_id' <= MaxProducts
    BY MarketplaceAssumption DEF list_product, Full, NextId, TypeOK
  <2>3. \A i \in Listed' : products'[i].item = i
    BY <1>1, <1>2, <1>3 DEF list_product, Full, NextId, IdsInOrder, Listed, TypeOK
  <2>4. \A item \in ItemId : Exists(item)' => item \in Listed'
    BY <1>3, <1>4 DEF IdsInOrder, Exists
  <2> QED
    BY <2>1, <2>2, <2>3, <2>4 DEF IdsInOrder
<1>6. RecordAgreesWithNft'
  <2> SUFFICES ASSUME NEW i \in Listed' PROVE Agrees(i)'
    BY DEF RecordAgreesWithNft
  <2>1. CASE i = id
    <3>1. products'[id] = new
      BY <1>1 DEF list_product, Full, NextId, TypeOK
    <3> HIDE DEF new
    <3> QED
      BY <2>1, <3>1, <1>1, <1>2, <1>4 DEF Agrees, OwnerIs, Exists
  <2>2. CASE i # id
    <3>1. i \in Listed /\ products'[i] = products[i] /\ products[i].item = i
      BY <2>2, <1>1, <1>3 DEF list_product, Full, NextId, TypeOK, IdsInOrder
    <3>2. i \in ItemId /\ nft'[i] = nft[i]
      BY MarketplaceAssumption, <2>2, <3>1, <1>4, ListedIsProduct
    <3> QED
      BY <3>1, <3>2 DEF RecordAgreesWithNft, Agrees, OwnerIs, Exists
  <2> QED
    BY <2>1, <2>2
<1>7. CollectionIsOurs'
  <2>1. collection' = Created(PalletAccount, PalletAccount)
    BY DEF list_product, Full, NextId, EnsuredCollection, CollectionIsOurs
  <2>2. Created(PalletAccount, PalletAccount) # NoCollection
    BY AccountAssumption, UniquesAssumption DEF Created, CollectionDetails
  <2> QED
    BY <2>1, <2>2 DEF CollectionIsOurs
<1> QED
  BY <1>5, <1>6, <1>7

\* A call that replaces the record of one listed product, and mints nothing,
\* leaves the ids as they were.
LEMMA RecordReplaced ==
    ASSUME TypeOK, IdsInOrder, NEW id \in Listed, NEW new \in Product,
           new.item = products[id].item,
           products' = [products EXCEPT ![id] = new],
           next_product_id' = next_product_id,
           \A item \in ItemId : Exists(item)' => Exists(item)
    PROVE  /\ Listed' = Listed
           /\ IdsInOrder'
           /\ products'[id] = new
           /\ \A i \in Listed \ {id} : products'[i] = products[i]
<1>1. /\ id \in ProductId /\ products'[id] = new
      /\ \A i \in ProductId \ {id} : products'[i] = products[i]
  BY DEF Listed, TypeOK
<1>2. Listed' = Listed
  BY MarketplaceAssumption, <1>1 DEF Listed
<1>3. \A i \in Listed : products'[i].item = ItemIdOf(i)
  BY <1>1, <1>2 DEF IdsInOrder, Listed
<1> QED
  BY <1>1, <1>2, <1>3 DEF IdsInOrder, Listed, ItemIdOf, ProductId

\* A product that shares neither record nor NFT with the one a call is about.
LEMMA OthersAgree ==
    ASSUME LedgersAgree, NEW id \in Listed, NEW i \in Listed \ {id},
           products'[i] = products[i],
           \A item \in ItemId \ {id} : nft'[item] = nft[item]
    PROVE  Agrees(i)'
<1>1. i \in ItemId /\ products[i].item = i
  BY MarketplaceAssumption, ListedIsProduct DEF LedgersAgree, IdsInOrder, ItemIdOf
<1>2. nft'[i] = nft[i]
  BY <1>1
<1> QED
  BY <1>1, <1>2 DEF LedgersAgree, RecordAgreesWithNft, Agrees, OwnerIs, Exists

LEMMA LedgersBuy ==
    ASSUME LedgersAgree, TypeOK', NEW who \in User, NEW id \in ProductId,
           buy_product(who, id)
    PROVE  LedgersAgree'
<1> DEFINE new == Sold(products[id], who)
<1>1. /\ id \in Listed /\ products[id] \in Product /\ who \in Account
      /\ products[id].item = id /\ id \in ItemId
  BY MarketplaceAssumption, ListedIsProduct
     DEF buy_product, CanBuy, LedgersAgree, IdsInOrder,
                         ItemIdOf, User
<1>2. /\ new \in Product /\ new.item = id /\ new.owner = who
      /\ new.is_redeemed = products[id].is_redeemed
  BY <1>1, SoldType
<1>3. Exists(id) /\ ~products[id].is_redeemed
  BY <1>1 DEF LedgersAgree, RecordAgreesWithNft, Agrees, buy_product, CanBuy,
              CanMove
<1>4. /\ nft'[id] = [owner |-> who, approved |-> NoAccount]
      /\ nft'[id] # NoItem
      /\ \A item \in ItemId \ {id} : nft'[item] = nft[item]
  BY UniquesAssumption, <1>1
     DEF buy_product, Moved, Minted, LedgersAgree, TypeOK, UniquesTypeOK,
              ItemDetails
<1>5. \A item \in ItemId : Exists(item)' => Exists(item)
  BY <1>3, <1>4 DEF Exists
<1> HIDE DEF new
<1>6. products' = [products EXCEPT ![id] = new] /\ next_product_id' = next_product_id
  BY DEF buy_product, new
<1>7. /\ Listed' = Listed /\ IdsInOrder' /\ products'[id] = new
      /\ \A i \in Listed \ {id} : products'[i] = products[i]
  <2>1. TypeOK /\ IdsInOrder
    BY DEF LedgersAgree
  <2> QED
    BY <1>1, <1>2, <1>5, <1>6, <2>1, RecordReplaced
<1>8. RecordAgreesWithNft'
  <2>1. Agrees(id)'
    BY <1>2, <1>3, <1>4, <1>7 DEF Agrees, OwnerIs, Exists
  <2>2. \A i \in Listed \ {id} : Agrees(i)'
    BY <1>1, <1>4, <1>7, OthersAgree
  <2> QED
    BY <1>7, <2>1, <2>2 DEF RecordAgreesWithNft
<1>9. CollectionIsOurs'
  BY <1>7 DEF LedgersAgree, CollectionIsOurs, buy_product
<1> QED
  BY <1>7, <1>8, <1>9 DEF LedgersAgree

LEMMA LedgersRedeem ==
    ASSUME LedgersAgree, TypeOK', NEW who \in User, NEW id \in ProductId,
           redeem_product(who, id)
    PROVE  LedgersAgree'
<1> DEFINE new == [products[id] EXCEPT !.is_redeemed = TRUE]
<1>1. /\ id \in Listed /\ products[id] \in Product
      /\ products[id].item = id /\ id \in ItemId
  BY MarketplaceAssumption, ListedIsProduct
     DEF redeem_product, CanRedeem, Redeemed, LedgersAgree, IdsInOrder, ItemIdOf
<1>2. new \in Product /\ new.item = id /\ new.is_redeemed = TRUE
  BY <1>1 DEF Product
<1>3. /\ nft'[id] = NoItem
      /\ \A item \in ItemId \ {id} : nft'[item] = nft[item]
  BY <1>1 DEF redeem_product, CanRedeem, Redeemed, Burnt, LedgersAgree, TypeOK, UniquesTypeOK
<1>4. \A item \in ItemId : Exists(item)' => Exists(item)
  BY <1>3 DEF Exists
<1>5. products' = [products EXCEPT ![id] = new] /\ next_product_id' = next_product_id
  BY DEF redeem_product, CanRedeem, Redeemed
<1> HIDE DEF new
<1>6. /\ Listed' = Listed /\ IdsInOrder' /\ products'[id] = new
      /\ \A i \in Listed \ {id} : products'[i] = products[i]
  <2>1. TypeOK /\ IdsInOrder
    BY DEF LedgersAgree
  <2> QED
    BY <1>1, <1>2, <1>4, <1>5, <2>1, RecordReplaced
<1>7. RecordAgreesWithNft'
  <2>1. Agrees(id)'
    BY <1>2, <1>3, <1>6 DEF Agrees, Exists
  <2>2. \A i \in Listed \ {id} : Agrees(i)'
    BY <1>1, <1>3, <1>6, OthersAgree
  <2> QED
    BY <1>6, <2>1, <2>2 DEF RecordAgreesWithNft
<1>8. CollectionIsOurs'
  BY <1>6 DEF LedgersAgree, CollectionIsOurs, redeem_product, CanRedeem
<1> QED
  BY <1>6, <1>7, <1>8 DEF LedgersAgree

LEMMA LedgersToggle ==
    ASSUME LedgersAgree, TypeOK', NEW who \in User, NEW id \in ProductId,
           NEW for_sale \in BOOLEAN, toggle_sale(who, id, for_sale)
    PROVE  LedgersAgree'
<1> DEFINE new == [products[id] EXCEPT !.on_sale = for_sale]
<1>1. id \in Listed /\ products[id] \in Product
  BY ListedIsProduct DEF toggle_sale, CanToggle, LedgersAgree
<1>2. /\ new \in Product /\ new.item = products[id].item
      /\ new.owner = products[id].owner
      /\ new.is_redeemed = products[id].is_redeemed
  BY <1>1 DEF Product
<1>3. products' = [products EXCEPT ![id] = new] /\ next_product_id' = next_product_id
  BY DEF toggle_sale, CanToggle
<1>4. nft' = nft /\ collection' = collection
  BY DEF toggle_sale, CanToggle
<1> HIDE DEF new
<1>5. /\ Listed' = Listed /\ IdsInOrder' /\ products'[id] = new
      /\ \A i \in Listed \ {id} : products'[i] = products[i]
  BY <1>1, <1>2, <1>3, <1>4, RecordReplaced DEF LedgersAgree, Exists
<1>6. RecordAgreesWithNft'
  BY <1>1, <1>2, <1>4, <1>5
     DEF LedgersAgree, RecordAgreesWithNft, Agrees, OwnerIs, Exists
<1> QED
  BY <1>4, <1>5, <1>6 DEF LedgersAgree, CollectionIsOurs

LEMMA LedgersStep == LedgersAgree /\ [Next]_vars => LedgersAgree'
<1> SUFFICES ASSUME LedgersAgree, [Next]_vars PROVE LedgersAgree'
    OBVIOUS
<1>1. TypeOK'
  BY TypeStep DEF LedgersAgree
<1>2. ASSUME UNCHANGED <<collection, nft, products, next_product_id>>
      PROVE  LedgersAgree'
  BY <1>1, <1>2 DEF LedgersAgree, IdsInOrder, RecordAgreesWithNft, Agrees,
                    OwnerIs, Exists, CollectionIsOurs, Listed
<1>3. ASSUME NEW who \in User, NEW a \in Account,
             \/ register_manufacturer(who, a)
             \/ unregister_manufacturer(who, a)
             \/ set_admin(who, a)
      PROVE  LedgersAgree'
  BY <1>2, <1>3 DEF IsAdmin, register_manufacturer, unregister_manufacturer, set_admin
<1>4. CASE UNCHANGED vars
  BY <1>2, <1>4 DEF vars, storage
<1> QED
  BY <1>1, <1>3, <1>4, LedgersList, LedgersBuy, LedgersRedeem, LedgersToggle
     DEF Next, Call

LEMMA LedgersCorrect == Spec => []LedgersAgree
BY LedgersInit, LedgersStep, PTL DEF Spec

\* The product records and the NFT ledger never disagree, through any sequence
\* of listings, sales, toggles and redemptions.
THEOREM RecordsAgree == Spec => []RecordAgreesWithNft
BY LedgersCorrect, PTL DEF LedgersAgree

\* Ids are given out in order and never past the limit, and no NFT of the
\* collection lacks its record.
THEOREM IdsAreInOrder == Spec => []IdsInOrder
BY LedgersCorrect, PTL DEF LedgersAgree

\* The pallet account keeps the collection it creates on demand.
THEOREM CollectionStaysOurs == Spec => []CollectionIsOurs
BY LedgersCorrect, PTL DEF LedgersAgree

\* A product on sale can be bought by whoever can pay, unless it is redeemed, and
\* then by nobody: buy_product's transfer of the NFT fails after its payment for the
\* redeemed products, whose NFT is burnt, and for no others.
THEOREM StuckAreRedeemed == Spec => []StuckSalesAreRedeemed
<1>1. LedgersAgree => StuckSalesAreRedeemed
  <2> SUFFICES ASSUME LedgersAgree, NEW id \in Listed, NEW buyer \in User,
                      products[id].on_sale,
                      products[id].owner # buyer,
                      CanPay(buyer, products[id])
               PROVE  CanBuy(buyer, id) <=> ~products[id].is_redeemed
    BY Zenon DEF StuckSalesAreRedeemed
  <2>1. Agrees(id)
    BY DEF LedgersAgree, RecordAgreesWithNft
  <2>2. CASE products[id].is_redeemed
    <3>1. ~CanMove(products[id].owner, products[id].item)
      BY <2>1, <2>2 DEF Agrees, CanMove
    <3> QED
      BY <2>2, <3>1 DEF CanBuy
  <2>3. CASE ~products[id].is_redeemed
    <3>1. OwnerIs(products[id].item, products[id].owner)
      BY <2>1, <2>3 DEF Agrees
    <3>2. collection # NoCollection
      BY DEF LedgersAgree, CollectionIsOurs
    <3>3. CanMove(products[id].owner, products[id].item)
      BY <3>1, <3>2 DEF CanMove, OwnerIs
    <3> QED
      BY <2>3, <3>3 DEF CanBuy
  <2> QED
    BY <2>2, <2>3
<1> QED
  BY <1>1, LedgersCorrect, PTL

LEMMA AgreedNeverBlock == LedgersAgree => ListNeverBlocked
<1> SUFFICES ASSUME LedgersAgree, next_product_id < MaxProducts
             PROVE  CanMint(EnsuredCollection, PalletAccount,
                            ItemIdOf(next_product_id))
  BY MarketplaceAssumption DEF ListNeverBlocked, Full, LedgersAgree, TypeOK
<1>1. EnsuredCollection = Created(PalletAccount, PalletAccount)
  BY DEF LedgersAgree, CollectionIsOurs, EnsuredCollection
<1>2. Created(PalletAccount, PalletAccount) # NoCollection
  BY AccountAssumption, UniquesAssumption DEF Created, CollectionDetails
<1>3. next_product_id \in ItemId /\ next_product_id \notin Listed
  BY MarketplaceAssumption DEF LedgersAgree, IdsInOrder, TypeOK, ProductId
<1>4. ~Exists(next_product_id)
  BY <1>3 DEF LedgersAgree, IdsInOrder
<1> QED
  BY <1>1, <1>2, <1>4 DEF CanMint, Created, ItemIdOf

\* Until MaxProducts is reached, the mint in list_product never fails.
THEOREM ListingsNeverBlock == Spec => []ListNeverBlocked
BY AgreedNeverBlock, LedgersCorrect, PTL

-----------------------------------------------------------------------------
(* Invariants of one storage item at a time, on top of the agreement of the  *)
(* ledgers.                                                                  *)

LEMMA AuthorityStep ==
    LedgersAgree /\ LedgersAgree' /\ AuthorityChain /\ [Next]_vars => AuthorityChain'
<1> SUFFICES ASSUME LedgersAgree, LedgersAgree', AuthorityChain, [Next]_vars
             PROVE  AuthorityChain'
    OBVIOUS
<1>1. ASSUME NEW who \in User, NEW label \in Label, NEW price \in Price,
             list_product(who, label, price)
      PROVE  AuthorityChain'
  BY <1>1 DEF list_product, Full, NextId, AuthorityChain
<1>2. ASSUME NEW who \in User, NEW id \in ProductId,
             buy_product(who, id) \/ redeem_product(who, id)
      PROVE  AuthorityChain'
  BY <1>2 DEF buy_product, CanBuy, redeem_product, CanRedeem, AuthorityChain
<1>3. ASSUME NEW who \in User, NEW id \in ProductId, NEW for_sale \in BOOLEAN,
             toggle_sale(who, id, for_sale)
      PROVE  AuthorityChain'
  BY <1>3 DEF toggle_sale, CanToggle, AuthorityChain
<1>4. ASSUME NEW who \in User, NEW a \in Account, set_admin(who, a)
      PROVE  AuthorityChain'
  BY AccountAssumption, <1>4 DEF IsAdmin, set_admin, AuthorityChain
<1>5. ASSUME NEW who \in User, NEW a \in Account,
             register_manufacturer(who, a) \/ unregister_manufacturer(who, a)
      PROVE  AuthorityChain'
  BY AccountAssumption, <1>5
     DEF IsAdmin, register_manufacturer, unregister_manufacturer, AuthorityChain, User
<1>6. CASE UNCHANGED vars
  BY <1>6 DEF vars, storage, AuthorityChain, Listed
<1> QED
  BY <1>1, <1>2, <1>3, <1>4, <1>5, <1>6 DEF Next, Call

\* The market is closed until there is an admin, and never loses its admin.
THEOREM AuthorityComesFirst == Spec => []AuthorityChain
<1>1. Init => AuthorityChain
  BY DEF Init, AuthorityChain, Listed
<1> QED
  BY <1>1, AuthorityStep, LedgersCorrect, PTL DEF Spec

-----------------------------------------------------------------------------
(* What one step does to one listed product. *)

LEMMA FreshId == LedgersAgree => TypeOK /\ next_product_id \notin Listed
BY DEF LedgersAgree, IdsInOrder, TypeOK

\* The four ways a listed product's record fares in a step: untouched, sold,
\* put on or taken off sale, redeemed.
LEMMA RecordStep ==
    ASSUME TypeOK, next_product_id \notin Listed, [Next]_vars, NEW i \in Listed
    PROVE  \/ products'[i] = products[i]
           \/ \E who \in User : /\ buy_product(who, i)
                                /\ products'[i] = Sold(products[i], who)
           \/ \E for_sale \in BOOLEAN :
                 products'[i] = [products[i] EXCEPT !.on_sale = for_sale]
           \/ \E who \in User : /\ redeem_product(who, i)
                                /\ products'[i] = [products[i] EXCEPT !.is_redeemed = TRUE]
<1> USE DEF TypeOK
<1>1. i \in ProductId
  BY DEF Listed
<1>2. ASSUME NEW who \in User, NEW label \in Label, NEW price \in Price,
             list_product(who, label, price)
      PROVE  products'[i] = products[i]
  BY <1>1, <1>2 DEF list_product
<1>3. ASSUME NEW who \in User, NEW id \in ProductId, buy_product(who, id)
      PROVE  \/ products'[i] = products[i]
             \/ id = i /\ products'[i] = Sold(products[i], who)
  BY <1>1, <1>3 DEF buy_product
<1>4. ASSUME NEW who \in User, NEW id \in ProductId, redeem_product(who, id)
      PROVE  \/ products'[i] = products[i]
             \/ /\ id = i
                /\ products'[i] = [products[i] EXCEPT !.is_redeemed = TRUE]
  BY <1>1, <1>4 DEF redeem_product, CanRedeem, Redeemed
<1>5. ASSUME NEW who \in User, NEW id \in ProductId, NEW for_sale \in BOOLEAN,
             toggle_sale(who, id, for_sale)
      PROVE  \/ products'[i] = products[i]
             \/ /\ id = i
                /\ products'[i] = [products[i] EXCEPT !.on_sale = for_sale]
  BY <1>1, <1>5 DEF toggle_sale, CanToggle
<1>6. ASSUME NEW who \in User, NEW a \in Account,
             \/ register_manufacturer(who, a)
             \/ unregister_manufacturer(who, a)
             \/ set_admin(who, a)
      PROVE  products'[i] = products[i]
  BY <1>6 DEF IsAdmin, register_manufacturer, unregister_manufacturer, set_admin
<1>7. CASE UNCHANGED vars
  BY <1>7 DEF vars, storage
<1> QED
  BY <1>2, <1>3, <1>4, <1>5, <1>6, <1>7 DEF Next, Call

LEMMA RecordGrowsStep ==
    ASSUME LedgersAgree, [Next]_vars, NEW i \in Listed
    PROVE  RecordGrows(i)
<1>1. /\ products[i] \in Product /\ products[i] # NoProduct
  BY MarketplaceAssumption, ListedIsProduct DEF LedgersAgree
<1>2. CASE products'[i] = products[i]
  BY <1>1, <1>2 DEF RecordGrows
<1>3. ASSUME NEW who \in User, buy_product(who, i),
             products'[i] = Sold(products[i], who)
      PROVE  RecordGrows(i)
  <2>1. who \in Account /\ who # products[i].owner
    BY <1>3 DEF User, buy_product, CanBuy
  <2>2. ~products[i].is_redeemed
    BY <1>3 DEF LedgersAgree, RecordAgreesWithNft, Agrees, buy_product, CanBuy,
                CanMove
  <2> DEFINE new == Sold(products[i], who)
  <2>3. /\ new \in Product /\ new.owner = who
        /\ new.holders_count = SaturatingIncr(products[i].holders_count)
        /\ new.item = products[i].item /\ new.price = products[i].price
        /\ new.label = products[i].label
        /\ new.genesis_owner = products[i].genesis_owner
    BY <1>1, <2>1, SoldType
  <2> HIDE DEF new
  <2>4. products'[i] = new
    BY <1>3 DEF new
  <2> QED
    BY MarketplaceAssumption, <2>1, <2>2, <2>3, <2>4 DEF RecordGrows
<1>4. ASSUME NEW for_sale \in BOOLEAN,
             products'[i] = [products[i] EXCEPT !.on_sale = for_sale]
      PROVE  RecordGrows(i)
  <2>1. products'[i] \in Product
    BY <1>1, <1>4 DEF Product
  <2> QED
    BY MarketplaceAssumption, <1>1, <1>4, <2>1 DEF RecordGrows, Product
<1>5. ASSUME products'[i] = [products[i] EXCEPT !.is_redeemed = TRUE]
      PROVE  RecordGrows(i)
  <2>1. products'[i] \in Product
    BY <1>1, <1>5 DEF Product
  <2> QED
    BY MarketplaceAssumption, <1>1, <1>5, <2>1 DEF RecordGrows, Product
<1> QED
  BY <1>2, <1>3, <1>4, <1>5, RecordStep, FreshId

\* A product's history only grows: record, manufacturer, price and item stay, a
\* redemption is final, and the holders are counted with each change of hands.
THEOREM HistoryGrows == Spec => HistoryOnlyGrows
<1>1. LedgersAgree /\ [Next]_vars => [\A id \in Listed : RecordGrows(id)]_vars
  BY RecordGrowsStep
<1> QED
  BY <1>1, LedgersCorrect, PTL DEF Spec, HistoryOnlyGrows

LEMMA FirstHolderStep ==
    ASSUME LedgersAgree, LedgersAgree', FirstHolderIsManufacturer, [Next]_vars
    PROVE  FirstHolderIsManufacturer'
<1> SUFFICES ASSUME NEW i \in Listed', products'[i].holders_count = 0
             PROVE  products'[i].owner = products'[i].genesis_owner
    BY DEF FirstHolderIsManufacturer
<1>1. CASE i \in Listed
  <2>1. RecordGrows(i) /\ products[i] \in Product
    BY <1>1, RecordGrowsStep, ListedIsProduct DEF LedgersAgree
  <2>2. SaturatingIncr(products[i].holders_count) # 0
    BY MarketplaceAssumption, <2>1 DEF SaturatingIncr, Product
  <2> QED
    BY <1>1, <2>1, <2>2 DEF RecordGrows, FirstHolderIsManufacturer
<1>2. CASE i \notin Listed
  <2>1. i \in ProductId /\ products'[i] # products[i]
    BY <1>2 DEF Listed
  <2>2. PICK who \in User, label \in Label, price \in Price : list_product(who, label, price)
    BY <1>2, <2>1 DEF Next, Call, vars, storage, buy_product, CanBuy,
          redeem_product, CanRedeem, toggle_sale, CanToggle, register_manufacturer,
          unregister_manufacturer, set_admin, LedgersAgree, TypeOK
  <2>3. products'[i] = NewProduct(next_product_id, who, label, price)
    BY <2>1, <2>2 DEF list_product, Full, NextId, LedgersAgree, TypeOK
  <2> QED
    BY <2>3 DEF NewProduct
<1> QED
  BY <1>1, <1>2

\* A product nobody has bought is still its manufacturer's.
THEOREM FirstHolder == Spec => []FirstHolderIsManufacturer
<1>1. Init => FirstHolderIsManufacturer
  BY DEF Init, FirstHolderIsManufacturer, Listed
<1> QED
  BY <1>1, FirstHolderStep, LedgersCorrect, PTL DEF Spec

-----------------------------------------------------------------------------
(* Money and goods move together. *)

LEMMA BuyExchanges ==
    ASSUME LedgersAgree, NEW who \in User, NEW id \in Listed,
           buy_product(who, id), products'[id] = Sold(products[id], who)
    PROVE  ChangesHands(id) /\ Exchanged(id)
<1> DEFINE product == products[id]
           new == Sold(product, who)
<1>1. /\ product \in Product /\ who \in Account /\ product.owner \in Account
      /\ product.price \in Nat /\ product.owner # who
  BY MarketplaceAssumption, ListedIsProduct
     DEF LedgersAgree, Product, User, buy_product, CanBuy
<1>2. new \in Product /\ new.owner = who /\ new.on_sale = FALSE
  BY <1>1, SoldType
<1>3. /\ product.on_sale /\ ~product.is_redeemed
      /\ OwnerIs(product.item, product.owner)
  BY DEF LedgersAgree, RecordAgreesWithNft, Agrees, buy_product, CanBuy, CanMove
<1>4. nft' = Moved(product.item, who)
  BY DEF buy_product
<1>5. /\ free'[product.owner] = free[product.owner] + product.price
      /\ free'[who] = free[who] - product.price
      /\ \A a \in Account \ {product.owner, who} : free'[a] = free[a]
  BY <1>1 DEF buy_product, Paid, Transferred, LedgersAgree, TypeOK, BalancesTypeOK
<1>6. products'[id] = new
  OBVIOUS
<1> HIDE DEF new
<1>7. products'[id] # NoProduct /\ products'[id].owner = who /\ ~products'[id].on_sale
  BY MarketplaceAssumption, <1>2, <1>6
<1> QED
  BY <1>1, <1>3, <1>4, <1>5, <1>7 DEF ChangesHands, Exchanged

\* Whoever loses a product is paid its price by whoever gets it, whoever pays
\* gets the product, and no other balance moves.
THEOREM AtomicExchange == Spec => ExchangeIsAtomic
<1> DEFINE Step == /\ \A id \in Listed : ChangesHands(id) => Exchanged(id)
                   /\ free' # free => \E id \in Listed : ChangesHands(id)
<1>1. LedgersAgree /\ [Next]_vars => [Step]_vars
  <2> SUFFICES ASSUME LedgersAgree, [Next]_vars PROVE Step
    OBVIOUS
  <2>1. ASSUME NEW id \in Listed, ChangesHands(id) PROVE Exchanged(id)
    <3>1. products[id] \in Product /\ products'[id].owner # products[id].owner
      BY <2>1, ListedIsProduct DEF ChangesHands, LedgersAgree
    <3>2. \A b \in BOOLEAN :
             /\ [products[id] EXCEPT !.on_sale = b].owner = products[id].owner
             /\ [products[id] EXCEPT !.is_redeemed = b].owner = products[id].owner
      BY <3>1 DEF Product
    <3>3. PICK who \in User : /\ buy_product(who, id)
                              /\ products'[id] = Sold(products[id], who)
      BY <3>1, <3>2, RecordStep, FreshId
    <3> QED
      BY <3>3, BuyExchanges
  <2>2. ASSUME free' # free PROVE \E id \in Listed : ChangesHands(id)
    <3>1. PICK who \in User, id \in ProductId : buy_product(who, id)
      BY <2>2 DEF Next, Call, vars, list_product, redeem_product, CanRedeem, toggle_sale, CanToggle,
                  register_manufacturer, unregister_manufacturer, set_admin
    <3>2. id \in Listed /\ products'[id] = Sold(products[id], who)
      BY <3>1 DEF buy_product, CanBuy, LedgersAgree, TypeOK
    <3> QED
      BY <3>1, <3>2, BuyExchanges
  <2> QED
    BY <2>1, <2>2
<1> QED
  BY <1>1, LedgersCorrect, PTL DEF Spec, ExchangeIsAtomic
=============================================================================
