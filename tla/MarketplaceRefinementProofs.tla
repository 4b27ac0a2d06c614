-------------------- MODULE MarketplaceRefinementProofs ---------------------
(***************************************************************************)
(* The marketplace pallet implements the register of titles, for every set *)
(* of accounts and every limit on products.  Each extrinsic is a step of   *)
(* the register, or none: the simulation uses that the ledgers agree.      *)
(***************************************************************************)
EXTENDS MarketplaceRefinement, MarketplaceProofs

\* What the register sees of one call: the product it is about, and no other.
LEMMA MappedExcept ==
    ASSUME NEW id \in ProductId, Listed \subseteq Listed', Listed' \subseteq Listed \union {id},
           \A i \in ProductId \ {id} : /\ nft'[i] = nft[i]
                                       /\ products'[i] = products[i]
    PROVE  /\ title' = [title EXCEPT ![id] = title'[id]]
           /\ price_list' = [price_list EXCEPT ![id] = price_list'[id]]
           /\ \A i \in ProductId \ {id} : i \in offers' <=> i \in offers
<1>1. \A i \in ProductId \ {id} : i \in Listed' <=> i \in Listed
  OBVIOUS
<1>2. \A i \in ProductId \ {id} : /\ title'[i] = title[i]
                                  /\ price_list'[i] = price_list[i]
                                  /\ i \in offers' <=> i \in offers
  BY <1>1 DEF title, price_list, offers, Exists, ItemIdOf
<1>3. /\ title = [i \in ProductId |-> title[i]]
      /\ title' = [i \in ProductId |-> title'[i]]
      /\ price_list = [i \in ProductId |-> price_list[i]]
      /\ price_list' = [i \in ProductId |-> price_list'[i]]
  BY DEF title, price_list
<1> HIDE DEF title, price_list
<1> QED
  BY <1>2, <1>3

\* A listed product's title, price and offer, as its record tells them.
Mapped(id) ==
    /\ price_list[id] = products[id].price
    /\ title[id] = IF products[id].is_redeemed THEN Retired ELSE products[id].owner
    /\ id \in offers <=> products[id].on_sale /\ ~products[id].is_redeemed

LEMMA MappedListed == LedgersAgree => \A id \in Listed : Mapped(id)
<1> SUFFICES ASSUME LedgersAgree, NEW id \in Listed PROVE Mapped(id)
    OBVIOUS
<1>1. id \in ProductId /\ products[id].item = id
  BY DEF Listed, LedgersAgree, IdsInOrder, ItemIdOf
<1>2. /\ Exists(id) <=> ~products[id].is_redeemed
      /\ Exists(id) => nft[id].owner = products[id].owner
  BY <1>1 DEF LedgersAgree, RecordAgreesWithNft, Agrees, OwnerIs
<1> QED
  BY <1>1, <1>2 DEF Mapped, price_list, title, offers, ItemIdOf

LEMMA MappedAfter == (LedgersAgree => \A id \in Listed : Mapped(id))'
BY MappedListed, PTL

LEMMA RegisterInit == Init => Register!Init
<1> SUFFICES ASSUME Init PROVE Register!Init
    OBVIOUS
<1>1. Listed = {} /\ \A id \in ProductId : ~Exists(id)
  BY MarketplaceAssumption DEF Init, Listed, UniquesInit, Exists
<1>2. title = [id \in ProductId |-> Unissued]
  BY <1>1 DEF title, ItemIdOf
<1>3. price_list = [id \in ProductId |-> 0]
  BY <1>1 DEF price_list
<1>4. free \in [Account -> Nat]
  BY TypeInit DEF TypeOK, BalancesTypeOK
<1> QED
  BY <1>1, <1>2, <1>3, <1>4 DEF Register!Init, offers

LEMMA RegisterIssue ==
    ASSUME LedgersAgree, LedgersAgree', NEW who \in User, NEW label \in Label, NEW price \in Price,
           list_product(who, label, price)
    PROVE  Register!Next
<1> DEFINE id == next_product_id
<1>1. /\ id \in ProductId /\ id \in ItemId /\ id \notin Listed /\ who \in Account
      /\ ~Exists(id)
  BY MarketplaceAssumption
     DEF list_product, Full, NextId, LedgersAgree, TypeOK, ProductId, IdsInOrder, User,
         CanMint, ItemIdOf
<1>2. /\ products'[id] = NewProduct(id, who, label, price)
      /\ \A i \in ProductId \ {id} : products'[i] = products[i]
  BY <1>1 DEF list_product, Full, NextId, LedgersAgree, TypeOK
<1>3. \A i \in ProductId \ {id} : nft'[i] = nft[i]
  BY <1>1, MarketplaceAssumption
     DEF list_product, Full, NextId, Minted, ItemIdOf, LedgersAgree, TypeOK, UniquesTypeOK
<1>4. Listed' = Listed \union {id}
  <2>1. next_product_id' = id + 1 /\ next_product_id \in Nat
    BY DEF list_product, Full, NextId, LedgersAgree, TypeOK
  <2> QED
    BY <1>1, <2>1 DEF LedgersAgree, IdsInOrder, ProductId
<1>5. title[id] = Unissued
  BY <1>1 DEF title, ItemIdOf
<1>6. /\ title'[id] = who /\ price_list'[id] = price /\ id \in offers'
  <2>1. products'[id].item = id /\ nft'[id] # NoItem /\ nft'[id].owner = who
    BY <1>1, <1>2, UniquesAssumption
       DEF NewProduct, ItemIdOf, list_product, Minted, LedgersAgree, TypeOK,
           UniquesTypeOK, ItemDetails
  <2> QED
    BY <1>1, <1>2, <1>4, <2>1
       DEF title, price_list, offers, Exists, ItemIdOf, NewProduct
<1> HIDE DEF id
<1>7. /\ title' = [title EXCEPT ![id] = who]
      /\ price_list' = [price_list EXCEPT ![id] = price]
      /\ \A i \in ProductId \ {id} : i \in offers' <=> i \in offers
  BY <1>1, <1>2, <1>3, <1>4, <1>6, MappedExcept
<1>8. offers' = offers \union {id}
  <2>1. offers \subseteq ProductId /\ offers' \subseteq ProductId
    BY DEF offers, Listed
  <2> QED
    BY <1>6, <1>7, <2>1
<1>9. Register!Issue(id, who, price)
  BY <1>5, <1>7, <1>8 DEF Register!Issue, list_product
<1> QED
  BY <1>1, <1>9 DEF Register!Next

\* A sale, a redemption or a toggle touches one listed product and lists none.
LEMMA MappedUpdate ==
    ASSUME LedgersAgree, NEW id \in Listed, NEW new \in Product,
           products' = [products EXCEPT ![id] = new],
           \A item \in ItemId \ {id} : nft'[item] = nft[item]
    PROVE  /\ Listed' = Listed /\ products'[id] = new
           /\ title' = [title EXCEPT ![id] = title'[id]]
           /\ price_list' = [price_list EXCEPT ![id] = price_list'[id]]
           /\ offers' \ {id} = offers \ {id}
<1>1. id \in ProductId /\ new # NoProduct
  BY MarketplaceAssumption DEF Listed
<1>2. /\ products'[id] = new
      /\ \A i \in ProductId \ {id} : products'[i] = products[i]
  BY <1>1 DEF LedgersAgree, TypeOK
<1>3. Listed' = Listed
  BY <1>1, <1>2 DEF Listed
<1>4. \A i \in ProductId \ {id} : nft'[i] = nft[i]
  BY MarketplaceAssumption
<1>5. /\ title' = [title EXCEPT ![id] = title'[id]]
      /\ price_list' = [price_list EXCEPT ![id] = price_list'[id]]
      /\ \A i \in ProductId \ {id} : i \in offers' <=> i \in offers
  BY <1>1, <1>2, <1>3, <1>4, MappedExcept
<1>6. offers \subseteq ProductId /\ offers' \subseteq ProductId
  BY DEF offers, Listed
<1>7. offers' \ {id} = offers \ {id}
  BY <1>5, <1>6
<1> QED
  BY <1>2, <1>3, <1>5, <1>7

\* The price column changes only where the price does.
LEMMA PriceKept ==
    ASSUME NEW id \in ProductId, price_list'[id] = price_list[id],
           price_list' = [price_list EXCEPT ![id] = price_list'[id]]
    PROVE  price_list' = price_list
BY DEF price_list

LEMMA RegisterExchange ==
    ASSUME LedgersAgree, LedgersAgree', NEW who \in User, NEW id \in ProductId,
           buy_product(who, id)
    PROVE  Register!Next
<1> DEFINE product == products[id]
           new == Sold(product, who)
<1>1. /\ id \in Listed /\ product \in Product /\ who \in Account
      /\ product.item = id /\ id \in ItemId /\ product.owner \in Account
      /\ product.on_sale /\ product.owner # who /\ product.price \in Nat
  BY MarketplaceAssumption, ListedIsProduct
     DEF buy_product, CanBuy, LedgersAgree, IdsInOrder, ItemIdOf, User, Product
<1>2. ~product.is_redeemed
  BY <1>1 DEF LedgersAgree, RecordAgreesWithNft, Agrees, buy_product, CanBuy,
              CanMove
<1>3. /\ new \in Product /\ new.owner = who /\ new.on_sale = FALSE
      /\ new.price = product.price /\ new.is_redeemed = product.is_redeemed
  BY <1>1, SoldType
<1>4. products' = [products EXCEPT ![id] = new]
  BY DEF buy_product
<1>5. \A item \in ItemId \ {id} : nft'[item] = nft[item]
  BY <1>1 DEF buy_product, Moved, Minted, LedgersAgree, TypeOK, UniquesTypeOK
<1>6. /\ free' = [free EXCEPT ![who] = @ - product.price,
                              ![product.owner] = @ + product.price]
      /\ free[who] >= product.price
  BY <1>1, BalancesAssumption
     DEF buy_product, CanBuy, CanPay, Paid, CanTransfer, Transferred, LedgersAgree, TypeOK,
         BalancesTypeOK
<1> HIDE DEF new, product
<1>7. /\ Listed' = Listed /\ products'[id] = new
      /\ title' = [title EXCEPT ![id] = title'[id]]
      /\ price_list' = [price_list EXCEPT ![id] = price_list'[id]]
      /\ offers' \ {id} = offers \ {id}
  BY <1>1, <1>3, <1>4, <1>5, MappedUpdate
<1>8. title[id] = product.owner /\ price_list[id] = product.price /\ id \in offers
  BY <1>1, <1>2, MappedListed DEF product, Mapped
<1>9. title'[id] = who /\ price_list'[id] = product.price /\ id \notin offers'
  BY <1>1, <1>2, <1>3, <1>7, MappedAfter DEF Mapped
<1>10. price_list' = price_list
  BY <1>7, <1>8, <1>9, PriceKept
<1>11. Register!Exchange(id, who)
  BY <1>1, <1>6, <1>7, <1>8, <1>9, <1>10 DEF Register!Exchange, Register!Held
<1> QED
  BY <1>1, <1>11 DEF Register!Next

LEMMA RegisterRetire ==
    ASSUME LedgersAgree, LedgersAgree', NEW who \in User, NEW id \in ProductId,
           redeem_product(who, id)
    PROVE  Register!Next
<1> DEFINE product == products[id]
           new == [product EXCEPT !.is_redeemed = TRUE]
<1>1. /\ id \in Listed /\ product \in Product /\ ~product.is_redeemed
      /\ product.item = id /\ id \in ItemId /\ product.owner \in Account
  BY MarketplaceAssumption, ListedIsProduct
     DEF redeem_product, CanRedeem, Redeemed, LedgersAgree, IdsInOrder, ItemIdOf, Product
<1>2. new \in Product /\ new.price = product.price /\ new.is_redeemed = TRUE
  BY <1>1 DEF Product
<1>3. products' = [products EXCEPT ![id] = new]
  BY DEF redeem_product, CanRedeem, Redeemed
<1>4. \A item \in ItemId \ {id} : nft'[item] = nft[item]
  BY <1>1 DEF redeem_product, CanRedeem, Redeemed, Burnt, LedgersAgree, TypeOK, UniquesTypeOK
<1> HIDE DEF new, product
<1>5. /\ Listed' = Listed /\ products'[id] = new
      /\ title' = [title EXCEPT ![id] = title'[id]]
      /\ price_list' = [price_list EXCEPT ![id] = price_list'[id]]
      /\ offers' \ {id} = offers \ {id}
  BY <1>1, <1>2, <1>3, <1>4, MappedUpdate DEF product
<1>6. title[id] = product.owner /\ price_list[id] = product.price
  BY <1>1, MappedListed DEF product, Mapped
<1>7. title'[id] = Retired /\ price_list'[id] = product.price /\ id \notin offers'
  BY <1>1, <1>2, <1>5, MappedAfter DEF Mapped
<1>8. price_list' = price_list
  BY <1>5, <1>6, <1>7, PriceKept
<1>9. Register!Retire(id)
  BY <1>1, <1>5, <1>6, <1>7, <1>8 DEF Register!Retire, Register!Held, redeem_product, CanRedeem
<1> QED
  BY <1>9 DEF Register!Next

\* Toggling a product without an NFT is no step of the register at all.
LEMMA RegisterOffer ==
    ASSUME LedgersAgree, LedgersAgree', NEW who \in User, NEW id \in ProductId,
           NEW for_sale \in BOOLEAN, toggle_sale(who, id, for_sale)
    PROVE  Register!Next \/ UNCHANGED <<title, offers, price_list, free>>
<1> DEFINE product == products[id]
           new == [product EXCEPT !.on_sale = for_sale]
<1>1. id \in Listed /\ product \in Product /\ product.owner \in Account
  BY ListedIsProduct DEF toggle_sale, CanToggle, LedgersAgree, Product
<1>2. /\ new \in Product /\ new.price = product.price /\ new.owner = product.owner
      /\ new.is_redeemed = product.is_redeemed /\ new.on_sale = for_sale
  BY <1>1 DEF Product
<1>3. products' = [products EXCEPT ![id] = new]
  BY DEF toggle_sale, CanToggle
<1>4. free' = free /\ \A item \in ItemId \ {id} : nft'[item] = nft[item]
  BY DEF toggle_sale, CanToggle
<1> HIDE DEF new, product
<1>5. /\ Listed' = Listed /\ products'[id] = new
      /\ title' = [title EXCEPT ![id] = title'[id]]
      /\ price_list' = [price_list EXCEPT ![id] = price_list'[id]]
      /\ offers' \ {id} = offers \ {id}
  BY <1>1, <1>2, <1>3, <1>4, MappedUpdate DEF product
<1>6. /\ title[id] = IF product.is_redeemed THEN Retired ELSE product.owner
      /\ price_list[id] = product.price
      /\ id \in offers <=> product.on_sale /\ ~product.is_redeemed
  BY <1>1, MappedListed DEF product, Mapped
<1>7. /\ title'[id] = title[id] /\ price_list'[id] = product.price
      /\ id \in offers' <=> for_sale /\ ~product.is_redeemed
  BY <1>1, <1>2, <1>5, <1>6, MappedAfter DEF Mapped
<1>8. price_list' = price_list
  BY <1>5, <1>6, <1>7, PriceKept
<1>9. title' = title
  BY <1>5, <1>7 DEF title
<1>10. CASE product.is_redeemed
  <2>1. offers' = offers
    BY <1>5, <1>6, <1>7, <1>10
  <2> QED
    BY <1>4, <1>8, <1>9, <2>1
<1>11. CASE ~product.is_redeemed /\ for_sale
  <2>1. offers' = offers \union {id}
    BY <1>5, <1>7, <1>11
  <2>2. Register!Offer(id)
    BY <1>1, <1>4, <1>6, <1>8, <1>9, <1>11, <2>1 DEF Register!Offer, Register!Held
  <2> QED
    BY <2>2 DEF Register!Next
<1>12. CASE ~product.is_redeemed /\ ~for_sale
  <2>1. offers' = offers \ {id}
    BY <1>5, <1>7, <1>12
  <2>2. Register!Withdraw(id)
    BY <1>1, <1>4, <1>6, <1>8, <1>9, <1>12, <2>1 DEF Register!Withdraw, Register!Held
  <2> QED
    BY <2>2 DEF Register!Next
<1> QED
  BY <1>10, <1>11, <1>12

LEMMA RegisterStep ==
    LedgersAgree /\ LedgersAgree' /\ [Next]_vars => [Register!Next]_(Register!tvars)
<1> SUFFICES ASSUME LedgersAgree, LedgersAgree', [Next]_vars
             PROVE  Register!Next \/ UNCHANGED <<title, offers, price_list, free>>
    BY DEF Register!tvars
<1>1. ASSUME UNCHANGED <<free, nft, products>>
      PROVE  UNCHANGED <<title, offers, price_list, free>>
  BY <1>1 DEF title, offers, price_list, Listed, Exists
<1>2. ASSUME NEW who \in User, NEW a \in Account,
             \/ register_manufacturer(who, a)
             \/ unregister_manufacturer(who, a)
             \/ set_admin(who, a)
      PROVE  UNCHANGED <<free, nft, products>>
  BY <1>2 DEF IsAdmin, register_manufacturer, unregister_manufacturer, set_admin
<1>3. CASE UNCHANGED vars
  BY <1>1, <1>3 DEF vars, storage
<1> QED
  BY <1>1, <1>2, <1>3, RegisterIssue, RegisterExchange, RegisterRetire,
     RegisterOffer DEF Next, Call

\* The marketplace implements the register of titles: every extrinsic is one of
\* its steps or none.
THEOREM MarketplaceImplementsRegister == Spec => ImplementsRegister
BY RegisterInit, RegisterStep, LedgersCorrect, PTL
   DEF Spec, ImplementsRegister, Register!Spec
=============================================================================
