--------------------------- MODULE RuntimeProofs ----------------------------
(***************************************************************************)
(* What is left of the marketplace's promises when NFTs and money also     *)
(* move outside it, for every set of accounts, fee and existential deposit.*)
(* The ledgers no longer agree, so nothing here rests on LedgersAgree.     *)
(***************************************************************************)
EXTENDS Runtime, MarketplaceProofs, FiniteSetTheorems, WellFoundedInduction

\* The part of IdsInOrder that is about the pallet's own storage.  The owner on
\* record is never the pallet account, which could move any NFT.
RecordsInOrder ==
    /\ Listed = {id \in ProductId : id < next_product_id}
    /\ next_product_id <= MaxProducts
    /\ \A id \in Listed : products[id].item = ItemIdOf(id) /\ products[id].owner \in User

\* Before there is a collection there are no NFTs and no offers: so that none is in
\* the way when list_product creates it.
NothingBeforeCollection ==
    collection = NoCollection =>
        \A item \in ItemId : ~Exists(item) /\ item_price[item] = NoPrice

\* What is asked of NFTs and offers.
TitlesSound == /\ NothingBeforeCollection
               /\ OurCollection => RedeemedIsGone /\ OffersAreOfNfts

\* The inductive invariant.
RuntimeInv == RuntimeTypeOK /\ RecordsInOrder /\ TitlesSound

-----------------------------------------------------------------------------
(* Every state is well typed. *)

LEMMA RuntimeTypeInit == RuntimeInit => RuntimeTypeOK
BY TypeInit DEF RuntimeInit, RuntimeTypeOK

LEMMA UnofferedType ==
    ASSUME RuntimeTypeOK, NEW items
    PROVE  Unoffered(items) \in [ItemId -> Offer \union {NoPrice}]
BY DEF RuntimeTypeOK, Unoffered

\* A marketplace call is a step of Marketplace, and takes back offers only.
LEMMA MarketplaceCallSteps ==
    ASSUME NEW who \in User, MarketplaceCall(who)
    PROVE  Next /\ item_price' = Unoffered(Traded)
BY DEF MarketplaceCall, Next

LEMMA UniquesTypeStep ==
    ASSUME RuntimeTypeOK, NEW who \in User, UniquesCall(who)
    PROVE  /\ TypeOK' /\ UNCHANGED storage
           /\ item_price' \in [ItemId -> Offer \union {NoPrice}]
<1> USE DEF RuntimeTypeOK, TypeOK, BalancesTypeOK, UniquesTypeOK
<1>1. who \in Account
  BY DEF User
<1>2. ASSUME NEW a \in Account, uniques_create(who, a)
      PROVE  /\ TypeOK' /\ UNCHANGED storage
             /\ item_price' \in [ItemId -> Offer \union {NoPrice}]
  BY <1>1, <1>2 DEF uniques_create, Created, CollectionDetails, storage
<1>3. ASSUME NEW item \in ItemId, NEW a \in Account,
             uniques_mint(who, item, a) \/ uniques_transfer(who, item, a)
      PROVE  /\ TypeOK' /\ UNCHANGED storage
             /\ item_price' \in [ItemId -> Offer \union {NoPrice}]
  BY <1>3, MintedType, UnofferedType DEF uniques_mint, uniques_transfer, Moved, storage
<1>4. ASSUME NEW item \in ItemId, uniques_burn(who, item)
      PROVE  /\ TypeOK' /\ UNCHANGED storage
             /\ item_price' \in [ItemId -> Offer \union {NoPrice}]
  BY <1>4, UnofferedType DEF uniques_burn, Burnt, storage
<1>5. ASSUME NEW item \in ItemId, NEW a \in Account \union {NoAccount}, Exists(item),
             nft' = [nft EXCEPT ![item].approved = a],
             UNCHANGED <<storage, free, collection, item_price>>
      PROVE  /\ TypeOK' /\ UNCHANGED storage
             /\ item_price' \in [ItemId -> Offer \union {NoPrice}]
  <2>1. [nft[item] EXCEPT !.approved = a] \in ItemDetails
    BY <1>5 DEF Exists, ItemDetails
  <2> QED
    BY <1>5, <2>1 DEF storage
<1>6. ASSUME NEW item \in ItemId, NEW offer \in Offer \union {NoPrice},
             set_price(who, item, offer)
      PROVE  /\ TypeOK' /\ UNCHANGED storage
             /\ item_price' \in [ItemId -> Offer \union {NoPrice}]
  BY <1>6 DEF set_price, vars, storage
<1>7. ASSUME NEW item \in ItemId, NEW bid \in ItemPrice, buy_item(who, item, bid)
      PROVE  /\ TypeOK' /\ UNCHANGED storage
             /\ item_price' \in [ItemId -> Offer \union {NoPrice}]
  <2>1. nft[item].owner \in Account /\ item_price[item].price \in Nat
    BY <1>7, RuntimeAssumption DEF buy_item, MayBuyItem, Exists, ItemDetails, Offer
  <2>2. free' \in [Account -> Nat]
    BY <1>1, <1>7, <2>1, TransferredType DEF buy_item
  <2> QED
    BY <1>1, <1>7, <2>2, MintedType, UnofferedType DEF buy_item, Moved, storage
<1> QED
  BY <1>2, <1>3, <1>4, <1>5, <1>6, <1>7
     DEF UniquesCall, approve_transfer, cancel_approval, Governs

LEMMA SentType ==
    ASSUME BalancesTypeOK, NEW from \in Account, NEW to \in Account,
           NEW amount \in Nat, CanTransferAllowDeath(from, to, amount)
    PROVE  Sent(from, to, amount) \in [Account -> Nat]
<1>1. CASE amount = 0 \/ from = to
  BY <1>1 DEF Sent, BalancesTypeOK
<1>2. CASE amount # 0 /\ from # to
  <2>1. Reaped(free[from] - amount) \in Nat /\ free[to] + amount \in Nat
    BY BalancesAssumption, <1>2 DEF BalancesTypeOK, CanTransferAllowDeath, Reaped
  <2> QED
    BY <1>2, <2>1 DEF Sent, BalancesTypeOK
<1> QED
  BY <1>1, <1>2

LEMMA RuntimeTypeStep == RuntimeTypeOK /\ [RuntimeNext]_rvars => RuntimeTypeOK'
<1> SUFFICES ASSUME RuntimeTypeOK, [RuntimeNext]_rvars PROVE RuntimeTypeOK'
    OBVIOUS
<1>1. ASSUME NEW who \in User, PreDispatch(who) PROVE RuntimeTypeOK'
  <2>1. who \in Account /\ free[who] - Fee \in Nat
    BY <1>1, BalancesAssumption, RuntimeAssumption
       DEF User, PreDispatch, CanPayFee, RuntimeTypeOK, TypeOK, BalancesTypeOK
  <2> QED
    BY <1>1, <2>1 DEF PreDispatch, ledgers, storage, RuntimeTypeOK, TypeOK,
                      BalancesTypeOK, UniquesTypeOK
<1>2. ASSUME Dispatch PROVE RuntimeTypeOK'
  <2>1. in_flight \in User /\ in_flight' = NoAccount
    BY <1>2 DEF Dispatch, RuntimeTypeOK
  <2>2. CASE MarketplaceCall(in_flight)
    BY <2>1, <2>2, MarketplaceCallSteps, TypeStep, UnofferedType DEF RuntimeTypeOK
  <2>3. CASE UniquesCall(in_flight)
    BY <2>1, <2>3, UniquesTypeStep DEF RuntimeTypeOK
  <2>4. CASE BalancesCall(in_flight)
    <3>1. in_flight \in Account
      BY <2>1 DEF User
    <3>2. free' \in [Account -> Nat] /\ UNCHANGED ledgers
      BY <2>4, <3>1, RuntimeAssumption, SentType, TransferredType
         DEF BalancesCall, transfer_allow_death, transfer_keep_alive, RuntimeTypeOK, TypeOK
    <3> QED
      BY <2>1, <3>2 DEF ledgers, storage, RuntimeTypeOK, TypeOK, BalancesTypeOK,
                        UniquesTypeOK
  <2> QED
    BY <1>2, <2>2, <2>3, <2>4 DEF Dispatch
<1>3. ASSUME UNCHANGED <<vars, item_price>>, in_flight' \in {in_flight, NoAccount}
      PROVE  RuntimeTypeOK'
  BY <1>3, TypeStep DEF RuntimeTypeOK
<1> QED
  BY <1>1, <1>2, <1>3 DEF RuntimeNext, DispatchFails, rvars

\* Balances, records, NFTs and offers keep their types, whoever moves them.
THEOREM RuntimeTypeCorrect == RuntimeSpec => []RuntimeTypeOK
BY RuntimeTypeInit, RuntimeTypeStep, PTL DEF RuntimeSpec

-----------------------------------------------------------------------------
(* The pallet's own records.  Only a marketplace call writes them. *)

LEMMA RecordsFresh ==
    ASSUME TypeOK, RecordsInOrder
    PROVE  next_product_id \notin Listed
BY DEF RecordsInOrder, TypeOK

\* What a listed product's id tells.
LEMMA ListedItem ==
    ASSUME TypeOK, RecordsInOrder, NEW id \in Listed
    PROVE  /\ id \in ProductId /\ id \in ItemId /\ products[id] \in Product
           /\ products[id].item = id
           /\ products[id].owner \in User /\ products[id].owner \in Account
           /\ products[id].price \in Nat
BY MarketplaceAssumption, ListedIsProduct DEF RecordsInOrder, ItemIdOf, User, Product

\* A sale, a toggle and a redemption replace one record, for one of the same item.
LEMMA RecordsReplaced ==
    ASSUME TypeOK, RecordsInOrder, NEW id \in Listed, NEW new \in Product,
           new.item = products[id].item, new.owner \in User,
           products' = [products EXCEPT ![id] = new],
           next_product_id' = next_product_id
    PROVE  RecordsInOrder' /\ Listed' = Listed
<1>1. /\ id \in ProductId /\ products'[id] = new
      /\ \A i \in ProductId \ {id} : products'[i] = products[i]
  BY DEF Listed, TypeOK
<1>2. Listed' = Listed
  BY MarketplaceAssumption, <1>1 DEF Listed
<1>3. \A i \in Listed : products'[i].item = ItemIdOf(i) /\ products'[i].owner \in User
  BY <1>1, <1>2 DEF RecordsInOrder, Listed
<1> QED
  BY <1>2, <1>3 DEF RecordsInOrder, ItemIdOf

LEMMA RecordsListed ==
    ASSUME TypeOK, RecordsInOrder, NEW who \in User, NEW label \in Label, NEW price \in Price,
           list_product(who, label, price)
    PROVE  /\ RecordsInOrder'
           /\ Listed' = Listed \union {next_product_id}
           /\ ~products'[next_product_id].is_redeemed
           /\ \A i \in Listed : products'[i] = products[i]
<1> DEFINE id == next_product_id
           new == NewProduct(id, who, label, price)
<1>1. id \in ProductId /\ id \in ItemId /\ id \notin Listed /\ who \in Account
  BY MarketplaceAssumption, RecordsFresh DEF list_product, Full, TypeOK, ProductId, User
<1>2. /\ new \in Product /\ new.item = ItemIdOf(id) /\ new.owner = who
      /\ ~new.is_redeemed
  BY MarketplaceAssumption, <1>1 DEF NewProduct, Product, ItemIdOf
<1> HIDE DEF new
<1>3. /\ products'[id] = new
      /\ \A i \in ProductId \ {id} : products'[i] = products[i]
  BY <1>1 DEF list_product, TypeOK, new
<1>4. Listed' = Listed \union {id}
  BY MarketplaceAssumption, <1>1, <1>2, <1>3 DEF Listed
<1>5. Listed' = {i \in ProductId : i < next_product_id'}
  BY <1>1, <1>4 DEF list_product, NextId, RecordsInOrder, ProductId, TypeOK
<1>6. \A i \in Listed' : products'[i].item = ItemIdOf(i) /\ products'[i].owner \in User
  BY <1>1, <1>2, <1>3, <1>4 DEF RecordsInOrder, Listed
<1>7. next_product_id' <= MaxProducts
  BY MarketplaceAssumption DEF list_product, Full, NextId, TypeOK
<1> QED
  BY <1>1, <1>2, <1>3, <1>4, <1>5, <1>6, <1>7 DEF RecordsInOrder, ItemIdOf, Listed

LEMMA RecordsBought ==
    ASSUME TypeOK, RecordsInOrder, NEW who \in User, NEW id \in ProductId,
           buy_product(who, id)
    PROVE  /\ RecordsInOrder' /\ Listed' = Listed /\ id \in Listed
           /\ products'[id].owner = who
           /\ products'[id].is_redeemed = products[id].is_redeemed
           /\ \A i \in Listed \ {id} : products'[i] = products[i]
<1> DEFINE new == Sold(products[id], who)
<1>1. id \in Listed /\ who \in Account /\ products[id] \in Product
  BY ListedItem DEF buy_product, CanBuy, User
<1>2. /\ new \in Product /\ new.item = products[id].item /\ new.owner = who
      /\ new.is_redeemed = products[id].is_redeemed
  BY <1>1, SoldType
<1>3. products' = [products EXCEPT ![id] = new] /\ next_product_id' = next_product_id
  BY DEF buy_product
<1> HIDE DEF new
<1>4. RecordsInOrder' /\ Listed' = Listed
  BY <1>1, <1>2, <1>3, RecordsReplaced
<1> QED
  BY <1>1, <1>2, <1>3, <1>4 DEF TypeOK, Listed

LEMMA RecordsRedeemed ==
    ASSUME TypeOK, RecordsInOrder, NEW who \in User, NEW id \in ProductId,
           redeem_product(who, id)
    PROVE  /\ RecordsInOrder' /\ Listed' = Listed /\ id \in Listed
           /\ products'[id].is_redeemed /\ ~products[id].is_redeemed
           /\ \A i \in Listed \ {id} : products'[i] = products[i]
<1> DEFINE new == Redeemed(products[id])
<1>1. id \in Listed /\ products[id] \in Product /\ products[id].owner \in User
  BY ListedItem DEF redeem_product, CanRedeem
<1>2. /\ new \in Product /\ new.item = products[id].item
      /\ new.owner = products[id].owner /\ new.is_redeemed
  BY <1>1 DEF Product, Redeemed
<1>3. products' = [products EXCEPT ![id] = new] /\ next_product_id' = next_product_id
  BY DEF redeem_product
<1> HIDE DEF new
<1>4. RecordsInOrder' /\ Listed' = Listed
  BY <1>1, <1>2, <1>3, RecordsReplaced
<1> QED
  BY <1>1, <1>2, <1>3, <1>4 DEF TypeOK, Listed, redeem_product, CanRedeem

LEMMA RecordsToggled ==
    ASSUME TypeOK, RecordsInOrder, NEW who \in User, NEW id \in ProductId,
           NEW for_sale \in BOOLEAN, toggle_sale(who, id, for_sale)
    PROVE  /\ RecordsInOrder' /\ Listed' = Listed
           /\ \A i \in Listed : products'[i].is_redeemed = products[i].is_redeemed
<1> DEFINE new == [products[id] EXCEPT !.on_sale = for_sale]
<1>1. id \in Listed /\ products[id] \in Product /\ products[id].owner \in User
  BY ListedItem DEF toggle_sale, CanToggle
<1>2. /\ new \in Product /\ new.item = products[id].item
      /\ new.owner = products[id].owner
      /\ new.is_redeemed = products[id].is_redeemed
  BY <1>1 DEF Product
<1>3. products' = [products EXCEPT ![id] = new] /\ next_product_id' = next_product_id
  BY DEF toggle_sale
<1> HIDE DEF new
<1>4. RecordsInOrder' /\ Listed' = Listed
  BY <1>1, <1>2, <1>3, RecordsReplaced
<1> QED
  BY <1>1, <1>2, <1>3, <1>4 DEF TypeOK, Listed

-----------------------------------------------------------------------------
(* The NFTs of the collection.  Here every call can disturb them. *)

\* A call that brings no NFT, and leaves no offer without its NFT that was not so
\* before.
LEMMA TitlesKept ==
    ASSUME RuntimeInv, UNCHANGED collection, Listed' = Listed,
           \A item \in ItemId :
              /\ Exists(item)' =>
                    /\ Exists(item)
                    /\ item \in Listed /\ ~products[item].is_redeemed =>
                           ~products'[item].is_redeemed
              /\ item_price'[item] # NoPrice /\ ~Exists(item)' =>
                    item_price[item] # NoPrice /\ ~Exists(item)
    PROVE  TitlesSound'
<1>1. NothingBeforeCollection'
  BY DEF RuntimeInv, TitlesSound, NothingBeforeCollection
<1>2. OurCollection' => RedeemedIsGone' /\ OffersAreOfNfts'
  BY DEF RuntimeInv, TitlesSound, OurCollection, RedeemedIsGone, OffersAreOfNfts
<1> QED
  BY <1>1, <1>2 DEF TitlesSound

\* The items that a call touches, one at most.
LEMMA MovedItem ==
    ASSUME UniquesTypeOK, NEW item \in ItemId, NEW to \in Account, nft' = Moved(item, to)
    PROVE  /\ nft'[item] = [owner |-> to, approved |-> NoAccount] /\ nft'[item] # NoItem
           /\ \A other \in ItemId \ {item} : nft'[other] = nft[other]
BY UniquesAssumption DEF Moved, Minted, UniquesTypeOK, ItemDetails

LEMMA BurntItem ==
    ASSUME UniquesTypeOK, NEW item \in ItemId, nft' = Burnt(item)
    PROVE  /\ nft'[item] = NoItem
           /\ \A other \in ItemId \ {item} : nft'[other] = nft[other]
BY DEF Burnt, UniquesTypeOK

LEMMA TitlesThroughUniques ==
    ASSUME RuntimeInv, NEW who \in User, UniquesCall(who), UNCHANGED storage
    PROVE  TitlesSound'
<1> USE DEF RuntimeInv, RuntimeTypeOK, TypeOK
<1>1. Listed' = Listed /\ products' = products /\ who \in Account /\ who # PalletAccount
  BY DEF Listed, storage, User
<1>2. ASSUME NEW a \in Account, uniques_create(who, a)
      PROVE  TitlesSound'
  <2>1. collection' # NoCollection /\ ~OurCollection'
    BY UniquesAssumption, <1>1, <1>2
       DEF uniques_create, Created, CollectionDetails, OurCollection
  <2> QED
    BY <2>1 DEF TitlesSound, NothingBeforeCollection
<1>3. ASSUME NEW item \in ItemId, NEW a \in Account, uniques_mint(who, item, a)
      PROVE  TitlesSound'
  <2>1. collection' # NoCollection /\ ~OurCollection'
    BY <1>1, <1>3 DEF uniques_mint, CanMint, Created, OurCollection
  <2> QED
    BY <2>1 DEF TitlesSound, NothingBeforeCollection
<1>4. ASSUME NEW item \in ItemId, NEW a \in Account, Exists(item), nft' = Moved(item, a),
             item_price' = Unoffered({item}), UNCHANGED collection
      PROVE  TitlesSound'
  BY <1>1, <1>4, MovedItem, TitlesKept DEF Exists, Unoffered
<1>5. ASSUME NEW item \in ItemId, uniques_burn(who, item)
      PROVE  TitlesSound'
  BY <1>1, <1>5, BurntItem, TitlesKept DEF uniques_burn, Exists, Unoffered
<1>6. ASSUME NEW item \in ItemId, NEW a \in Account \union {NoAccount}, Exists(item),
             nft' = [nft EXCEPT ![item].approved = a],
             UNCHANGED <<collection, item_price>>
      PROVE  TitlesSound'
  <2>1. [nft[item] EXCEPT !.approved = a] # NoItem
    BY UniquesAssumption, <1>6 DEF Exists, ItemDetails, UniquesTypeOK
  <2>2. \A other \in ItemId : Exists(other)' <=> Exists(other)
    BY <1>6, <2>1 DEF UniquesTypeOK, Exists
  <2> QED
    BY <1>1, <1>6, <2>2, TitlesKept
<1>7. ASSUME NEW item \in ItemId, NEW offer, set_price(who, item, offer)
      PROVE  TitlesSound'
  BY <1>1, <1>7, TitlesKept DEF set_price, OwnerIs, Exists, vars
<1>8. ASSUME NEW item \in ItemId, NEW bid \in ItemPrice, buy_item(who, item, bid)
      PROVE  TitlesSound'
  BY <1>1, <1>4, <1>8 DEF buy_item, MayBuyItem
<1> QED
  BY <1>2, <1>3, <1>4, <1>5, <1>6, <1>7, <1>8
     DEF UniquesCall, uniques_transfer, CanMove, approve_transfer, cancel_approval, Governs

LEMMA TitlesThroughListing ==
    ASSUME RuntimeInv, NEW who \in User, NEW label \in Label, NEW price \in Price,
           list_product(who, label, price),
           item_price' = Unoffered(Traded)
    PROVE  TitlesSound'
<1> DEFINE id == next_product_id
<1> USE DEF RuntimeInv, RuntimeTypeOK, TypeOK
<1>1. /\ Listed' = Listed \union {id} /\ ~products'[id].is_redeemed
      /\ \A i \in Listed : products'[i] = products[i]
  BY RecordsListed
<1>2. id \in ItemId /\ who \in Account /\ UniquesTypeOK
  BY MarketplaceAssumption DEF list_product, Full, ProductId, User
<1>3. /\ nft'[id] # NoItem /\ ~Exists(id)
      /\ \A item \in ItemId \ {id} : nft'[item] = nft[item]
  <2>1. nft' = Moved(id, who) /\ ~Exists(id)
    BY DEF list_product, CanMint, ItemIdOf, Moved
  <2> QED
    BY <1>2, <2>1, MovedItem
<1>4. \A item \in ItemId : item_price'[item] # NoPrice => item_price[item] # NoPrice
  BY DEF Unoffered
<1>5. collection' # NoCollection
  BY UniquesAssumption, AccountAssumption
     DEF list_product, EnsuredCollection, Created, CollectionDetails
<1>6. CASE collection = NoCollection
  <2>1. \A item \in ItemId : ~Exists(item) /\ item_price'[item] = NoPrice
    BY <1>4, <1>6 DEF TitlesSound, NothingBeforeCollection
  <2> QED
    BY <1>1, <1>3, <1>5, <2>1
       DEF TitlesSound, NothingBeforeCollection, RedeemedIsGone, OffersAreOfNfts, Exists
<1>7. CASE collection # NoCollection
  <2>1. collection' = collection
    BY <1>7 DEF list_product, EnsuredCollection
  <2>2. OurCollection' => RedeemedIsGone'
    BY <1>1, <1>3, <2>1 DEF TitlesSound, OurCollection, RedeemedIsGone, Exists
  <2>3. OurCollection' => OffersAreOfNfts'
    BY <1>3, <1>4, <2>1 DEF TitlesSound, OurCollection, OffersAreOfNfts, Exists
  <2> QED
    BY <1>5, <2>2, <2>3 DEF TitlesSound, NothingBeforeCollection
<1> QED
  BY <1>6, <1>7

LEMMA TitlesThroughMarketplace ==
    ASSUME RuntimeInv, NEW who \in User, MarketplaceCall(who)
    PROVE  RecordsInOrder' /\ TitlesSound'
<1> USE DEF RuntimeInv, RuntimeTypeOK, TypeOK
<1>1. \A item \in ItemId : item_price'[item] # NoPrice => item_price[item] # NoPrice
  BY DEF MarketplaceCall, Unoffered
<1>2. ASSUME NEW label \in Label, NEW price \in Price, list_product(who, label, price)
      PROVE  RecordsInOrder' /\ TitlesSound'
  BY <1>2, RecordsListed, TitlesThroughListing DEF MarketplaceCall
<1>3. ASSUME NEW id \in ProductId, buy_product(who, id)
      PROVE  RecordsInOrder' /\ TitlesSound'
  <2>1. /\ RecordsInOrder' /\ Listed' = Listed /\ id \in Listed
        /\ \A i \in Listed : products'[i].is_redeemed = products[i].is_redeemed
    BY <1>3, RecordsBought
  <2>2. products[id].item = id /\ id \in ItemId /\ who \in Account /\ Exists(id)
    BY <1>3, <2>1, ListedItem DEF User, buy_product, CanBuy, CanMove
  <2>3. \A item \in ItemId : Exists(item)' <=> Exists(item)
    BY <1>3, <2>2, MovedItem DEF buy_product, Exists
  <2>4. UNCHANGED collection
    BY <1>3 DEF buy_product
  <2> QED
    BY <1>1, <2>1, <2>3, <2>4, TitlesKept
<1>4. ASSUME NEW id \in ProductId, redeem_product(who, id)
      PROVE  RecordsInOrder' /\ TitlesSound'
  <2>1. /\ RecordsInOrder' /\ Listed' = Listed /\ id \in Listed
        /\ products'[id].is_redeemed # products[id].is_redeemed
        /\ \A i \in Listed \ {id} : products'[i] = products[i]
    BY <1>4, RecordsRedeemed
  <2>2. products[id].item = id /\ id \in ItemId
    BY <2>1, ListedItem
  <2>3. /\ ~Exists(id)'
        /\ \A item \in ItemId \ {id} : Exists(item)' <=> Exists(item)
    BY <1>4, <2>2, BurntItem DEF redeem_product, Exists
  <2>4. item_price'[id] = NoPrice
    BY <2>1, <2>2 DEF MarketplaceCall, Unoffered, Traded
  <2>5. UNCHANGED collection
    BY <1>4 DEF redeem_product
  <2> QED
    BY <1>1, <2>1, <2>3, <2>4, <2>5, TitlesKept
<1>5. ASSUME NEW id \in ProductId, NEW for_sale \in BOOLEAN, toggle_sale(who, id, for_sale)
      PROVE  RecordsInOrder' /\ TitlesSound'
  <2>1. UNCHANGED <<collection, nft>>
    BY <1>5 DEF toggle_sale
  <2> QED
    BY <1>1, <1>5, <2>1, RecordsToggled, TitlesKept DEF Exists
<1>6. ASSUME UNCHANGED <<collection, nft, products, next_product_id>>
      PROVE  RecordsInOrder' /\ TitlesSound'
  <2>1. RecordsInOrder' /\ Listed' = Listed
    BY <1>6 DEF RecordsInOrder, Listed, ItemIdOf
  <2> QED
    BY <1>1, <1>6, <2>1, TitlesKept DEF Exists
<1> QED
  BY <1>2, <1>3, <1>4, <1>5, <1>6
     DEF MarketplaceCall, Call, register_manufacturer, unregister_manufacturer, set_admin

LEMMA RuntimeInvInit == RuntimeInit => RuntimeInv
<1> SUFFICES ASSUME RuntimeInit PROVE RuntimeInv
    OBVIOUS
<1>1. Listed = {} /\ \A item \in ItemId : ~Exists(item) /\ item_price[item] = NoPrice
  BY DEF RuntimeInit, Init, UniquesInit, Listed, Exists
<1>2. RecordsInOrder
  BY MarketplaceAssumption, <1>1 DEF RuntimeInit, Init, RecordsInOrder, ProductId
<1> QED
  BY <1>1, <1>2, RuntimeTypeInit
     DEF RuntimeInv, TitlesSound, NothingBeforeCollection, RedeemedIsGone,
         OffersAreOfNfts

LEMMA RuntimeInvStep == RuntimeInv /\ [RuntimeNext]_rvars => RuntimeInv'
<1> SUFFICES ASSUME RuntimeInv, [RuntimeNext]_rvars PROVE RuntimeInv'
    OBVIOUS
<1>1. RuntimeTypeOK'
  BY RuntimeTypeStep DEF RuntimeInv
<1>2. ASSUME UNCHANGED ledgers PROVE RecordsInOrder' /\ TitlesSound'
  <2>1. RecordsInOrder' /\ Listed' = Listed
    BY <1>2 DEF RuntimeInv, RecordsInOrder, Listed, ItemIdOf, ledgers, storage
  <2> QED
    BY <1>2, <2>1, TitlesKept DEF Exists, ledgers, storage
<1> SUFFICES RecordsInOrder' /\ TitlesSound'
    BY <1>1 DEF RuntimeInv
<1>3. CASE Dispatch
  <2>1. in_flight \in User
    BY <1>3 DEF Dispatch, RuntimeInv, RuntimeTypeOK
  <2>2. CASE MarketplaceCall(in_flight)
    BY <2>1, <2>2, TitlesThroughMarketplace
  <2>3. CASE UniquesCall(in_flight)
    <3>1. UNCHANGED storage
      BY <2>1, <2>3, UniquesTypeStep DEF RuntimeInv
    <3>2. RecordsInOrder'
      BY <3>1 DEF RuntimeInv, RecordsInOrder, Listed, ItemIdOf, storage
    <3> QED
      BY <2>1, <2>3, <3>1, <3>2, TitlesThroughUniques
  <2>4. CASE BalancesCall(in_flight)
    BY <1>2, <2>4 DEF BalancesCall, transfer_allow_death, transfer_keep_alive
  <2> QED
    BY <1>3, <2>2, <2>3, <2>4 DEF Dispatch
<1>4. CASE ~Dispatch
  <2>1. UNCHANGED ledgers
    BY <1>4 DEF RuntimeNext, PreDispatch, DispatchFails, rvars, vars, ledgers, storage
  <2> QED
    BY <1>2, <2>1
<1> QED
  BY <1>3, <1>4

LEMMA RuntimeInvCorrect == RuntimeSpec => []RuntimeInv
BY RuntimeInvInit, RuntimeInvStep, PTL DEF RuntimeSpec

\* Whatever holders do with their NFTs through pallet_uniques, the marketplace's own
\* collection holds the titles of its products and no others, no redeemed product's
\* among them, and list_product goes on listing until MaxProducts is reached.
THEOREM CollectionIsSound == RuntimeSpec => []CollectionStaysSound
<1>1. RuntimeInv => CollectionStaysSound
  <2> SUFFICES ASSUME RuntimeInv, OurCollection, ~Full
               PROVE  CanMint(EnsuredCollection, PalletAccount,
                              ItemIdOf(next_product_id))
    BY DEF CollectionStaysSound, ListNeverBlocked, RuntimeInv, TitlesSound
  <2>1. next_product_id \in ItemId /\ next_product_id \notin Listed
    BY MarketplaceAssumption, RecordsFresh
       DEF RuntimeInv, RuntimeTypeOK, TypeOK, Full, ProductId
  <2>2. ~Exists(next_product_id)
    BY <2>1 DEF RuntimeInv, TitlesSound, RedeemedIsGone
  <2>3. collection # NoCollection
    BY UniquesAssumption, AccountAssumption DEF OurCollection, Created, CollectionDetails
  <2> QED
    BY <2>2, <2>3 DEF OurCollection, EnsuredCollection, CanMint, Created, ItemIdOf
<1> QED
  BY <1>1, RuntimeInvCorrect, PTL

-----------------------------------------------------------------------------
(* Sums over a finite set.  MapThenSumSet computes them by recursion on      *)
(* subsets.  Were there a subset for which a claim about it fails, there     *)
(* would be a smallest one, and the recursion takes that to a smaller.       *)

\* The order in which MapThenSumSet takes the elements.
First(s) == CHOOSE x \in s : TRUE

\* The sum of f over S, and the function of which MapThenSumSet takes the value at S.
Total(f, S) == MapThenSumSet(LAMBDA a : f[a], S)

Adds(iter, f, S) ==
    iter = [s \in SUBSET S |->
               IF s = {} THEN 0 ELSE f[First(s)] + iter[s \ {First(s)}]]

LEMMA FirstIs ==
    ASSUME NEW s, s # {}
    PROVE  First(s) \in s /\ s \ {First(s)} \subseteq s /\ s \ {First(s)} # s
BY DEF First

\* Among subsets of a finite set there is one with no smaller one.
LEMMA SmallestIs ==
    ASSUME NEW S, IsFiniteSet(S), NEW T, T \subseteq SUBSET S, T # {}
    PROVE  \E s \in T : \A u \in T : u \subseteq s => u = s
<1>1. IsWellFoundedOn(StrictSubsetOrdering(S), SUBSET S)
  BY FS_StrictSubsetOrderingWellFounded, FS_FiniteSubsetsOfFinite
<1>2. PICK s \in T : \A u \in T : <<u, s>> \notin StrictSubsetOrdering(S)
  BY <1>1, WFMin
<1> QED
  BY <1>2 DEF StrictSubsetOrdering

\* Two ways to add up agree.
LEMMA AddsAgree ==
    ASSUME NEW S, IsFiniteSet(S), NEW f, NEW s \in SUBSET S, NEW t \in SUBSET S,
           NEW g, NEW h, Adds(g, f, s), Adds(h, f, t),
           NEW u \in SUBSET S, u \subseteq s, u \subseteq t
    PROVE  g[u] = h[u]
<1> DEFINE T == {w \in SUBSET S : w \subseteq s /\ w \subseteq t /\ g[w] # h[w]}
<1>1. SUFFICES ASSUME T # {} PROVE FALSE
    OBVIOUS
<1>2. PICK w \in T : \A v \in T : v \subseteq w => v = w
  <2> HIDE DEF T
  <2>1. T \subseteq SUBSET S
    BY DEF T
  <2> QED
    BY <1>1, <2>1, SmallestIs
<1>3. /\ g[w] = IF w = {} THEN 0 ELSE f[First(w)] + g[w \ {First(w)}]
      /\ h[w] = IF w = {} THEN 0 ELSE f[First(w)] + h[w \ {First(w)}]
  BY DEF Adds
<1>4. CASE w = {}
  BY <1>3, <1>4
<1>5. CASE w # {}
  <2>1. w \ {First(w)} \notin T
    BY <1>2, <1>5, FirstIs
  <2>2. g[w \ {First(w)}] = h[w \ {First(w)}]
    BY <2>1
  <2> QED
    BY <1>3, <1>5, <2>2
<1> QED
  BY <1>4, <1>5

\* And there is one, so that MapThenSumSet takes its value.
LEMMA AddsExists ==
    ASSUME NEW S, IsFiniteSet(S), NEW f
    PROVE  \E g : Adds(g, f, S)
<1> DEFINE T == {s \in SUBSET S : ~\E g : Adds(g, f, s)}
<1>1. SUFFICES ASSUME T # {} PROVE FALSE
    OBVIOUS
<1>2. PICK s \in T : \A u \in T : u \subseteq s => u = s
  <2> HIDE DEF T
  <2>1. T \subseteq SUBSET S
    BY DEF T
  <2> QED
    BY <1>1, <2>1, SmallestIs
<1> DEFINE H(u) == CHOOSE g : Adds(g, f, u)
           Rest(u) == u \ {First(u)}
           g == [u \in SUBSET s |->
                    IF u = {} THEN 0
                    ELSE f[First(u)] + H(Rest(u))[Rest(u)]]
<1>3. \A u \in SUBSET s : u # s => Adds(H(u), f, u)
  BY <1>2
<1>4. ASSUME NEW u \in SUBSET s, u # {}
      PROVE  g[Rest(u)] = H(Rest(u))[Rest(u)]
  <2>1. /\ Rest(u) \in SUBSET s /\ Rest(u) # s /\ Rest(u) \in SUBSET S
    BY <1>2, <1>4, FirstIs
  <2>2. Adds(H(Rest(u)), f, Rest(u))
    BY <1>3, <2>1
  <2> DEFINE w == Rest(u)
  <2>3. H(w)[w] = IF w = {} THEN 0 ELSE f[First(w)] + H(w)[Rest(w)]
    <3> HIDE DEF H, w
    <3> QED
      BY <2>2 DEF w, Adds
  <2>4. CASE w = {}
    BY <2>1, <2>3, <2>4
  <2>5. CASE w # {}
    <3>1. /\ Rest(w) \in SUBSET s /\ Rest(w) # s /\ Rest(w) \subseteq w /\ Rest(w) \in SUBSET S
      BY <1>2, <2>1, <2>5, FirstIs
    <3>2. Adds(H(Rest(w)), f, Rest(w))
      BY <1>3, <3>1
    <3>3. H(w)[Rest(w)] = H(Rest(w))[Rest(w)]
      <4>1. /\ Adds(H(w), f, w) /\ Adds(H(Rest(w)), f, Rest(w))
            /\ w \in SUBSET S /\ Rest(w) \in SUBSET S /\ Rest(w) \subseteq w
        BY <2>1, <2>2, <3>1, <3>2
      <4>2. Rest(w) \subseteq Rest(w)
        OBVIOUS
      <4> HIDE DEF H, Rest, w
      <4>3. \A h1, h2 : Adds(h1, f, w) /\ Adds(h2, f, Rest(w)) => h1[Rest(w)] = h2[Rest(w)]
        BY <4>1, <4>2, AddsAgree
      <4> QED
        BY <4>1, <4>3, Zenon
    <3> QED
      BY <2>1, <2>3, <2>5, <3>3
  <2> QED
    BY <2>4, <2>5
<1>5. Adds(g, f, s)
  <2>1. ASSUME NEW u \in SUBSET s
        PROVE  g[u] = IF u = {} THEN 0 ELSE f[First(u)] + g[Rest(u)]
    <3>1. g[u] = IF u = {} THEN 0 ELSE f[First(u)] + H(Rest(u))[Rest(u)]
      <4> HIDE DEF H, Rest
      <4> QED
        OBVIOUS
    <3> HIDE DEF H, Rest, g
    <3> QED
      BY <1>4, <3>1
  <2>2. g = [u \in SUBSET s |-> g[u]]
    <3> HIDE DEF H, Rest
    <3> QED
      OBVIOUS
  <2>3. [u \in SUBSET s |-> g[u]] =
        [u \in SUBSET s |-> IF u = {} THEN 0 ELSE f[First(u)] + g[Rest(u)]]
    <3> HIDE DEF g, Rest
    <3> QED
      BY <2>1
  <2> HIDE DEF g
  <2> QED
    BY <2>2, <2>3 DEF Adds
<1> QED
  BY <1>2, <1>5

\* The sum is computed step by step, and is an integer at each.
LEMMA TotalIs ==
    ASSUME NEW S, IsFiniteSet(S), NEW f \in [S -> Int]
    PROVE  \E g : /\ Adds(g, f, S) /\ Total(f, S) = g[S]
                  /\ \A u \in SUBSET S : g[u] \in Int
<1> DEFINE g == CHOOSE iter : Adds(iter, f, S)
<1>1. Adds(g, f, S)
  BY AddsExists
<1>2. Total(f, S) = g[S]
  BY DEF Total, MapThenSumSet, MapThenFoldSet, Adds, First
<1> HIDE DEF g
<1>3. ASSUME NEW u \in SUBSET S PROVE g[u] \in Int
  <2> DEFINE T == {w \in SUBSET S : g[w] \notin Int}
  <2>1. SUFFICES ASSUME T # {} PROVE FALSE
      OBVIOUS
  <2>2. PICK w \in T : \A v \in T : v \subseteq w => v = w
    <3> HIDE DEF T
    <3>1. T \subseteq SUBSET S
      BY DEF T
    <3> QED
      BY <2>1, <3>1, SmallestIs
  <2>3. g[w] = IF w = {} THEN 0 ELSE f[First(w)] + g[w \ {First(w)}]
    BY <1>1 DEF Adds
  <2>4. w # {}
    BY <2>3
  <2>5. w \ {First(w)} \notin T /\ First(w) \in S
    BY <2>2, <2>4, FirstIs
  <2>6. g[w \ {First(w)}] \in Int /\ f[First(w)] \in Int
    BY <2>5
  <2> QED
    BY <2>3, <2>4, <2>6
<1> QED
  BY <1>1, <1>2, <1>3

\* If one summand changes, the sum changes by as much.
LEMMA TotalChanges ==
    ASSUME NEW S, IsFiniteSet(S), NEW f \in [S -> Int], NEW h \in [S -> Int],
           NEW a \in S, \A x \in S : x # a => h[x] = f[x]
    PROVE  /\ Total(f, S) \in Int
           /\ Total(h, S) = Total(f, S) + (h[a] - f[a])
<1>1. PICK g : /\ Adds(g, f, S) /\ Total(f, S) = g[S]
               /\ \A u \in SUBSET S : g[u] \in Int
  BY TotalIs
<1>2. PICK k : /\ Adds(k, h, S) /\ Total(h, S) = k[S]
               /\ \A u \in SUBSET S : k[u] \in Int
  BY TotalIs
<1> DEFINE delta == h[a] - f[a]
           More(u) == IF a \in u THEN delta ELSE 0
           T == {u \in SUBSET S : k[u] # g[u] + More(u)}
<1>3. delta \in Int
  OBVIOUS
<1> HIDE DEF delta
<1>4. ASSUME T # {} PROVE FALSE
  <2>1. PICK w \in T : \A v \in T : v \subseteq w => v = w
    <3> HIDE DEF T
    <3>1. T \subseteq SUBSET S
      BY DEF T
    <3> QED
      BY <1>4, <3>1, SmallestIs
  <2> DEFINE x == First(w)
             r == w \ {x}
  <2>2. /\ g[w] = IF w = {} THEN 0 ELSE f[x] + g[r]
        /\ k[w] = IF w = {} THEN 0 ELSE h[x] + k[r]
    BY <1>1, <1>2 DEF Adds
  <2>3. w # {}
    BY <2>2
  <2>4. r \notin T /\ x \in S /\ r \in SUBSET S /\ x \in w /\ x \notin r
        /\ w = r \union {x}
    BY <2>1, <2>3, FirstIs
  <2> HIDE DEF x, r
  <2>5. /\ k[r] = g[r] + More(r) /\ g[r] \in Int /\ k[r] \in Int
        /\ f[x] \in Int /\ h[x] \in Int
    BY <1>1, <1>2, <2>4
  <2>6. CASE x = a
    <3>1. More(w) = delta /\ More(r) = 0 /\ h[x] = f[x] + delta
      BY <2>4, <2>5, <2>6 DEF delta
    <3>2. k[w] = g[w] + delta
      BY <1>3, <2>2, <2>3, <2>5, <3>1
    <3> QED
      BY <3>1, <3>2
  <2>7. CASE x # a
    <3>1. More(w) = More(r) /\ h[x] = f[x] /\ More(r) \in Int
      BY <1>3, <2>4, <2>7
    <3> HIDE DEF More
    <3>2. k[w] = g[w] + More(w)
      BY <2>2, <2>3, <2>5, <3>1
    <3> QED
      BY <3>2
  <2> QED
    BY <2>6, <2>7
<1>5. k[S] = g[S] + delta
  BY <1>4
<1> QED
  BY <1>1, <1>2, <1>5 DEF delta

-----------------------------------------------------------------------------
(* The money there is. *)

LEMMA IssuanceIs == Issuance = Total(free, Account) /\ Issuance' = Total(free', Account)
BY DEF Issuance, Total, MapThenSumSet, MapThenFoldSet

\* Only two balances can have changed: the issuance changes by what they do.
LEMMA IssuanceMoves ==
    ASSUME BalancesTypeOK, free' \in [Account -> Int], NEW a \in Account, NEW b \in Account,
           a # b, \A c \in Account \ {a, b} : free'[c] = free[c]
    PROVE  Issuance - Issuance' = (free[a] - free'[a]) + (free[b] - free'[b])
<1> DEFINE half == [free EXCEPT ![a] = free'[a]]
<1>1. free \in [Account -> Int] /\ half \in [Account -> Int]
  BY DEF BalancesTypeOK
<1>2. /\ half[a] = free'[a] /\ half[b] = free[b]
      /\ \A c \in Account : c # a => half[c] = free[c]
      /\ \A c \in Account : c # b => free'[c] = half[c]
  BY <1>1
<1> HIDE DEF half
<1>3. /\ Total(free, Account) \in Int
      /\ Total(half, Account) = Total(free, Account) + (half[a] - free[a])
  BY <1>1, <1>2, RuntimeAssumption, TotalChanges
<1>4. /\ Total(half, Account) \in Int
      /\ Total(free', Account) = Total(half, Account) + (free'[b] - half[b])
  BY <1>1, <1>2, RuntimeAssumption, TotalChanges
<1>5. free[a] \in Int /\ free[b] \in Int /\ free'[a] \in Int /\ free'[b] \in Int
  BY <1>1
<1> QED
  BY <1>2, <1>3, <1>4, <1>5, IssuanceIs

\* A step that leaves the balances alone leaves the issuance.
LEMMA IssuanceKept ==
    ASSUME BalancesTypeOK, UNCHANGED free PROVE Issuance - Issuance' = 0
<1>1. PICK a \in Account : TRUE
  BY AccountAssumption
<1>2. free \in [Account -> Int]
  BY DEF BalancesTypeOK
<1>3. Total(free, Account) \in Int
  BY <1>2, RuntimeAssumption, AccountAssumption, TotalChanges
<1> QED
  BY <1>3, IssuanceIs

\* The issuance changes as one balance does.
LEMMA IssuanceMovesOnce ==
    ASSUME BalancesTypeOK, NEW a \in Account, NEW n \in Int,
           free' = [free EXCEPT ![a] = n]
    PROVE  Issuance - Issuance' = free[a] - n
<1>1. free \in [Account -> Int] /\ free' \in [Account -> Int]
  BY DEF BalancesTypeOK
<1>2. free'[a] = n /\ \A c \in Account : c # a => free'[c] = free[c]
  BY DEF BalancesTypeOK
<1>3. /\ Total(free, Account) \in Int
      /\ Total(free', Account) = Total(free, Account) + (free'[a] - free[a])
  <2>1. \A f, h \in [Account -> Int] :
            (\A c \in Account : c # a => h[c] = f[c]) =>
                /\ Total(f, Account) \in Int
                /\ Total(h, Account) = Total(f, Account) + (h[a] - f[a])
    BY RuntimeAssumption, TotalChanges
  <2> QED
    BY <1>1, <1>2, <2>1
<1>4. free[a] \in Int
  BY <1>1
<1> QED
  BY <1>2, <1>3, <1>4, IssuanceIs

\* A transfer that keeps both accounts alive burns nothing.
LEMMA TransferBurnsNothing ==
    ASSUME BalancesTypeOK, NEW from \in Account, NEW to \in Account, NEW amount \in Nat,
           free' = Transferred(from, to, amount)
    PROVE  Issuance - Issuance' = 0
<1>1. CASE from = to
  <2>1. free' = free
    BY <1>1 DEF BalancesTypeOK, Transferred
  <2> QED
    BY <2>1, IssuanceKept
<1>2. CASE from # to
  <2>1. /\ free' \in [Account -> Int]
        /\ free'[from] = free[from] - amount /\ free'[to] = free[to] + amount
        /\ \A a \in Account \ {from, to} : free'[a] = free[a]
        /\ free[from] \in Int /\ free[to] \in Int
    BY <1>2 DEF BalancesTypeOK, Transferred
  <2>2. Issuance - Issuance' = (free[from] - free'[from]) + (free[to] - free'[to])
    BY <1>2, <2>1, IssuanceMoves
  <2> QED
    BY <2>1, <2>2
<1> QED
  BY <1>1, <1>2

\* A transfer that may close its sender's account burns what it closes it with.
LEMMA SentBurnsDust ==
    ASSUME BalancesTypeOK, NEW from \in Account, NEW to \in Account, NEW amount \in Nat,
           CanTransferAllowDeath(from, to, amount), free' = Sent(from, to, amount)
    PROVE  \/ Issuance - Issuance' = 0
           \/ /\ Issuance - Issuance' \in 0 .. (ExistentialDeposit - 1)
              /\ free'[from] = 0
<1>1. CASE amount = 0 \/ from = to
  BY <1>1, IssuanceKept DEF Sent
<1>2. CASE amount # 0 /\ from # to
  <2> DEFINE rest == free[from] - amount
  <2>1. rest \in Nat
    BY <1>2 DEF CanTransferAllowDeath, BalancesTypeOK
  <2>2. Reaped(rest) \in Int
    BY <2>1 DEF Reaped
  <2>3. /\ free' \in [Account -> Int]
        /\ free'[from] = Reaped(rest) /\ free'[to] = free[to] + amount
        /\ \A a \in Account \ {from, to} : free'[a] = free[a]
        /\ free[from] \in Int /\ free[to] \in Int
    BY <1>2, <2>2 DEF BalancesTypeOK, Sent
  <2>4. Issuance - Issuance' = (free[from] - free'[from]) + (free[to] - free'[to])
    BY <1>2, <2>3, IssuanceMoves
  <2>5. Issuance - Issuance' = rest - Reaped(rest)
    BY <2>2, <2>3, <2>4
  <2> QED
    BY BalancesAssumption, <2>1, <2>3, <2>5 DEF Reaped
<1> QED
  BY <1>1, <1>2

\* Of the marketplace's calls only a sale moves money.
LEMMA MarketplaceBurnsNothing ==
    ASSUME TypeOK, NEW who \in User, Call(who) PROVE Issuance - Issuance' = 0
<1> USE DEF TypeOK
<1>1. ASSUME NEW id \in ProductId, buy_product(who, id) PROVE Issuance - Issuance' = 0
  <2>1. who \in Account /\ products[id].owner \in Account /\ products[id].price \in Nat
    BY <1>1, MarketplaceAssumption DEF User, buy_product, CanBuy, Listed, Product
  <2>2. free' = Transferred(who, products[id].owner, products[id].price)
    BY <1>1 DEF buy_product, Paid
  <2> QED
    BY <2>1, <2>2, TransferBurnsNothing
<1>2. CASE UNCHANGED free
  BY <1>2, IssuanceKept
<1> QED
  BY <1>1, <1>2
     DEF Call, list_product, redeem_product, toggle_sale, register_manufacturer,
         unregister_manufacturer, set_admin

\* Of pallet_uniques' only the purchase of an offered NFT does.
LEMMA UniquesBurnsNothing ==
    ASSUME RuntimeTypeOK, NEW who \in User, UniquesCall(who) PROVE Issuance - Issuance' = 0
<1> USE DEF RuntimeTypeOK, TypeOK
<1>1. ASSUME NEW item \in ItemId, NEW bid \in ItemPrice, buy_item(who, item, bid)
      PROVE  Issuance - Issuance' = 0
  <2>1. /\ who \in Account /\ nft[item].owner \in Account
        /\ item_price[item].price \in Nat
    BY <1>1, RuntimeAssumption
       DEF User, buy_item, MayBuyItem, Exists, ItemDetails, Offer, UniquesTypeOK
  <2> QED
    BY <1>1, <2>1, TransferBurnsNothing DEF buy_item
<1>2. CASE UNCHANGED free
  BY <1>2, IssuanceKept
<1> QED
  BY <1>1, <1>2
     DEF UniquesCall, uniques_create, uniques_mint, uniques_transfer, uniques_burn,
         approve_transfer, cancel_approval, set_price, vars

\* Money never appears.  It disappears as the fee of an extrinsic, or as the dust of
\* an account that its own signer's transfer closes; no sale makes or destroys any.
THEOREM MoneyIsNeverMade == RuntimeSpec => MoneyOnlyBurns
<1> DEFINE burnt == Issuance - Issuance'
           Step == \/ burnt = 0
                   \/ burnt = Fee /\ in_flight = NoAccount
                   \/ /\ burnt \in 0 .. (ExistentialDeposit - 1)
                      /\ free'[in_flight] = 0
<1>1. RuntimeTypeOK /\ [RuntimeNext]_rvars => [Step]_rvars
  <2> SUFFICES ASSUME RuntimeTypeOK, RuntimeNext PROVE Step
      BY DEF rvars
  <2> USE DEF RuntimeTypeOK, TypeOK
  <2>1. ASSUME NEW who \in User, PreDispatch(who)
        PROVE  burnt = Fee /\ in_flight = NoAccount
    <3>1. /\ who \in Account /\ in_flight = NoAccount
          /\ free[who] \in Int /\ Fee \in Int /\ free[who] - Fee \in Int
          /\ free' = [free EXCEPT ![who] = free[who] - Fee]
      BY <2>1, RuntimeAssumption DEF User, PreDispatch, BalancesTypeOK
    <3>2. burnt = free[who] - (free[who] - Fee)
      BY <3>1, IssuanceMovesOnce
    <3> HIDE DEF burnt
    <3> QED
      BY <3>1, <3>2
  <2>2. ASSUME Dispatch PROVE Step
    <3>1. in_flight \in User /\ in_flight \in Account
      BY <2>2 DEF Dispatch, User
    <3>2. CASE MarketplaceCall(in_flight)
      BY <3>1, <3>2, MarketplaceBurnsNothing DEF MarketplaceCall
    <3>3. CASE UniquesCall(in_flight)
      BY <3>1, <3>3, UniquesBurnsNothing
    <3>4. CASE BalancesCall(in_flight)
      <4>1. PICK to \in Account, amount \in Transfer :
                    \/ transfer_allow_death(in_flight, to, amount)
                    \/ transfer_keep_alive(in_flight, to, amount)
        BY <3>4 DEF BalancesCall
      <4>2. amount \in Nat
        BY RuntimeAssumption
      <4>3. CASE transfer_allow_death(in_flight, to, amount)
        BY <3>1, <4>2, <4>3, SentBurnsDust DEF transfer_allow_death
      <4>4. CASE transfer_keep_alive(in_flight, to, amount)
        BY <3>1, <4>2, <4>4, TransferBurnsNothing DEF transfer_keep_alive
      <4> QED
        BY <4>1, <4>3, <4>4
    <3> QED
      BY <2>2, <3>2, <3>3, <3>4 DEF Dispatch
  <2>3. ASSUME DispatchFails PROVE burnt = 0
    BY <2>3, IssuanceKept DEF DispatchFails, vars
  <2> QED
    BY <2>1, <2>2, <2>3 DEF RuntimeNext
<1> QED
  BY <1>1, RuntimeTypeCorrect, PTL DEF RuntimeSpec, MoneyOnlyBurns

-----------------------------------------------------------------------------
(* What a step of the runtime may never do. *)

\* Only a sale changes the owner on record.
LEMMA HandsChangeBySale ==
    ASSUME RuntimeInv, [RuntimeNext]_rvars, NEW id \in Listed, ChangesHands(id)
    PROVE  /\ in_flight \in User /\ buy_product(in_flight, id)
           /\ products'[id] = Sold(products[id], in_flight)
<1> USE DEF RuntimeInv, RuntimeTypeOK
<1>1. /\ products[id] \in Product /\ products'[id].owner # products[id].owner
      /\ products' # products
  BY ListedItem DEF ChangesHands
<1>2. Dispatch /\ in_flight \in User
  BY <1>1 DEF RuntimeNext, PreDispatch, Dispatch, DispatchFails, rvars, vars, ledgers,
              storage
<1>3. MarketplaceCall(in_flight)
  <2>1. UniquesCall(in_flight) => UNCHANGED products
    BY <1>2, UniquesTypeStep DEF storage
  <2>2. BalancesCall(in_flight) => UNCHANGED products
    BY DEF BalancesCall, transfer_allow_death, transfer_keep_alive, ledgers, storage
  <2> QED
    BY <1>1, <1>2, <2>1, <2>2 DEF Dispatch
<1>4. Call(in_flight)
  BY <1>3 DEF MarketplaceCall
<1>5. ASSUME NEW b \in BOOLEAN
      PROVE  /\ [products[id] EXCEPT !.on_sale = b].owner = products[id].owner
             /\ [products[id] EXCEPT !.is_redeemed = b].owner = products[id].owner
  BY <1>1 DEF Product
<1>6. ASSUME NEW label \in Label, NEW price \in Price,
             list_product(in_flight, label, price)
      PROVE  FALSE
  BY <1>1, <1>2, <1>6, RecordsListed
<1>7. ASSUME NEW i \in ProductId, redeem_product(in_flight, i) PROVE FALSE
  BY <1>1, <1>5, <1>7 DEF redeem_product, Redeemed, TypeOK, Listed
<1>8. ASSUME NEW i \in ProductId, NEW for_sale \in BOOLEAN,
             toggle_sale(in_flight, i, for_sale)
      PROVE  FALSE
  BY <1>1, <1>5, <1>8 DEF toggle_sale, TypeOK, Listed
<1>9. ASSUME NEW i \in ProductId, buy_product(in_flight, i)
      PROVE  i = id /\ products'[id] = Sold(products[id], in_flight)
  BY <1>1, <1>9 DEF buy_product, TypeOK, Listed
<1> QED
  BY <1>1, <1>2, <1>4, <1>6, <1>7, <1>8, <1>9
     DEF Call, register_manufacturer, unregister_manufacturer, set_admin

\* The record of a product changes hands by buy_product alone: its buyer signed,
\* gets the NFT with the record, pays the owner on record, and keeps its account.
THEOREM BuyersGetBoth == RuntimeSpec => BuyerGetsBoth
<1> DEFINE Step == \A id \in Listed : ChangesHands(id) => SoldWithNft(id)
<1>1. RuntimeInv /\ [RuntimeNext]_rvars => [Step]_rvars
  <2> SUFFICES ASSUME RuntimeInv, [RuntimeNext]_rvars, NEW id \in Listed,
                      ChangesHands(id)
               PROVE  SoldWithNft(id)
    OBVIOUS
  <2> DEFINE who == in_flight
             product == products[id]
  <2>1. /\ who \in User /\ who \in Account /\ buy_product(who, id)
        /\ products'[id] = Sold(product, who)
    BY HandsChangeBySale DEF User
  <2>2. /\ product \in Product /\ product.item = id /\ id \in ItemId
        /\ product.owner \in Account /\ product.price \in Nat
    BY ListedItem DEF RuntimeInv, RuntimeTypeOK
  <2>3. products'[id].owner = who
    <3>1. Sold(product, who).owner = who
      BY <2>1, <2>2, SoldType
    <3> QED
      BY <2>1, <3>1
  <2>4. nft'[id] = [owner |-> who, approved |-> NoAccount]
    BY <2>1, <2>2, MovedItem DEF buy_product, RuntimeInv, RuntimeTypeOK, TypeOK
  <2>5. free' = Transferred(who, product.owner, product.price)
    BY <2>1 DEF buy_product, Paid
  <2>6. free'[who] >= ExistentialDeposit \/ product.price = 0
    BY BalancesAssumption, <2>1, <2>2, <2>5
       DEF buy_product, CanBuy, CanPay, CanTransfer, Transferred, RuntimeInv,
           RuntimeTypeOK, TypeOK, BalancesTypeOK
  <2> QED
    BY <2>1, <2>2, <2>3, <2>4, <2>5, <2>6 DEF SoldWithNft, buy_product, CanBuy
<1> QED
  BY <1>1, RuntimeInvCorrect, PTL DEF RuntimeSpec, BuyerGetsBoth

\* What each call of the marketplace does to an NFT of its own collection.
LEMMA SellerMayMove ==
    ASSUME RuntimeInv, OurCollection, NEW who \in User, Call(who), NEW item \in ItemId,
           Exists(item), nft'[item] # nft[item]
    PROVE  \/ who = nft[item].owner
           \/ /\ item \in Listed /\ products[item].on_sale
              /\ products[item].owner \in {nft[item].owner, nft[item].approved}
<1> USE DEF RuntimeInv, RuntimeTypeOK, TypeOK
<1>1. ASSUME NEW label \in Label, NEW price \in Price, list_product(who, label, price) PROVE FALSE
  <2> DEFINE id == next_product_id
  <2>1. nft' = Moved(id, who) /\ ~Exists(id)
    BY <1>1 DEF list_product, CanMint, ItemIdOf, Moved
  <2>2. id \in ItemId /\ who \in Account
    BY MarketplaceAssumption, <1>1 DEF list_product, Full, ProductId, User
  <2>3. item # id
    BY <2>1
  <2>4. \A other \in ItemId \ {id} : nft'[other] = nft[other]
    BY <2>1, <2>2, MovedItem
  <2> QED
    BY <2>3, <2>4
<1>2. ASSUME NEW id \in ProductId, buy_product(who, id)
      PROVE  /\ item \in Listed /\ products[item].on_sale
             /\ products[item].owner \in {nft[item].owner, nft[item].approved}
  <2>1. id \in Listed /\ products[id].item = id /\ id \in ItemId
        /\ products[id].owner # PalletAccount /\ who \in Account
    BY <1>2, ListedItem DEF buy_product, CanBuy, User
  <2>2. item = id
    BY <1>2, <2>1, MovedItem DEF buy_product
  <2> QED
    BY <1>2, <2>1, <2>2 DEF buy_product, CanBuy, CanMove, OurCollection, Created
<1>3. ASSUME NEW id \in ProductId, redeem_product(who, id) PROVE who = nft[item].owner
  <2>1. id \in Listed /\ products[id].item = id /\ id \in ItemId
    BY <1>3, ListedItem DEF redeem_product, CanRedeem
  <2>2. item = id
    BY <1>3, <2>1, BurntItem DEF redeem_product
  <2> QED
    BY <1>3, <2>1, <2>2 DEF redeem_product, CanRedeem, OwnerIs
<1> QED
  BY <1>1, <1>2, <1>3
     DEF Call, toggle_sale, register_manufacturer, unregister_manufacturer, set_admin

LEMMA HolderMayMove ==
    ASSUME RuntimeInv, OurCollection, NEW who \in User, UniquesCall(who),
           NEW item \in ItemId, Exists(item),
           nft'[item] = NoItem \/ nft'[item].owner # nft[item].owner
    PROVE  \/ who \in {nft[item].owner, nft[item].approved}
           \/ /\ item_price[item] # NoPrice
              /\ item_price[item].to \in {who, NoAccount}
              /\ free' = Transferred(who, nft[item].owner, item_price[item].price)
<1> USE DEF RuntimeInv, RuntimeTypeOK, TypeOK
<1>1. /\ collection # NoCollection /\ collection.issuer # who /\ collection.admin # who
      /\ who \in Account /\ nft[item] \in ItemDetails
  BY UniquesAssumption, AccountAssumption
     DEF OurCollection, Created, CollectionDetails, User, Exists, UniquesTypeOK
<1>2. ASSUME NEW i \in ItemId, NEW a \in Account, uniques_transfer(who, i, a)
      PROVE  who \in {nft[item].owner, nft[item].approved}
  <2>1. i = item
    BY <1>1, <1>2, MovedItem DEF uniques_transfer, Exists
  <2> QED
    BY <1>1, <1>2, <2>1 DEF uniques_transfer, CanMove
<1>3. ASSUME NEW i \in ItemId, uniques_burn(who, i)
      PROVE  who = nft[item].owner
  <2>1. i = item
    BY <1>1, <1>3, BurntItem DEF uniques_burn, Exists
  <2> QED
    BY <1>1, <1>3, <2>1 DEF uniques_burn, Governs
<1>4. ASSUME NEW i \in ItemId, NEW a \in Account \union {NoAccount},
             nft' = [nft EXCEPT ![i].approved = a]
      PROVE  FALSE
  <2>1. [nft[item] EXCEPT !.approved = a] \in ItemDetails
        /\ [nft[item] EXCEPT !.approved = a].owner = nft[item].owner
    BY <1>1 DEF ItemDetails
  <2>2. nft'[item] = nft[item] \/ nft'[item] = [nft[item] EXCEPT !.approved = a]
    BY <1>4 DEF UniquesTypeOK
  <2> QED
    BY UniquesAssumption, <1>1, <2>1, <2>2
<1>5. ASSUME NEW i \in ItemId, NEW bid \in ItemPrice, buy_item(who, i, bid)
      PROVE  /\ item_price[item] # NoPrice
             /\ item_price[item].to \in {who, NoAccount}
             /\ free' = Transferred(who, nft[item].owner, item_price[item].price)
  <2>1. i = item
    BY <1>1, <1>5, MovedItem DEF buy_item, Exists
  <2> QED
    BY <1>5, <2>1 DEF buy_item, MayBuyItem
<1>6. ASSUME UNCHANGED nft PROVE FALSE
  BY UniquesAssumption, <1>1, <1>6
<1> QED
  BY <1>1, <1>2, <1>3, <1>4, <1>5, <1>6
     DEF UniquesCall, uniques_create, uniques_mint, CanMint, approve_transfer,
         cancel_approval, set_price, vars

\* Nobody loses an NFT of the marketplace's collection without a say: its owner
\* signed, approved the signer or the seller of a product on sale, or offered it and
\* is paid.
THEOREM NothingTakenUnasked == RuntimeSpec => NoLossWithoutConsent
<1> DEFINE Lost(item) == /\ OurCollection /\ Exists(item)
                         /\ \/ nft'[item] = NoItem
                            \/ nft'[item].owner # nft[item].owner
           Step == \A item \in ItemId : Lost(item) => Consented(item)
<1>1. RuntimeInv /\ [RuntimeNext]_rvars => [Step]_rvars
  <2> SUFFICES ASSUME RuntimeInv, [RuntimeNext]_rvars, NEW item \in ItemId, Lost(item)
               PROVE  Consented(item)
    OBVIOUS
  <2>1. nft'[item] # nft[item]
    BY DEF Exists
  <2>2. Dispatch /\ in_flight \in User
    BY <2>1 DEF RuntimeNext, PreDispatch, Dispatch, DispatchFails, rvars, vars, ledgers,
                RuntimeInv, RuntimeTypeOK
  <2>3. CASE MarketplaceCall(in_flight)
    BY <2>1, <2>2, <2>3, SellerMayMove DEF MarketplaceCall, Consented
  <2>4. CASE UniquesCall(in_flight)
    BY <2>2, <2>4, HolderMayMove DEF Consented
  <2>5. CASE BalancesCall(in_flight)
    BY <2>1, <2>5 DEF BalancesCall, transfer_allow_death, transfer_keep_alive, ledgers
  <2> QED
    BY <2>2, <2>3, <2>4, <2>5 DEF Dispatch
<1> QED
  BY <1>1, RuntimeInvCorrect, PTL DEF RuntimeSpec, NoLossWithoutConsent
=============================================================================
