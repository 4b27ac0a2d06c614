------------------------------ MODULE Runtime -------------------------------
(***************************************************************************)
(* The runtime around the marketplace pallet.  Signed extrinsics are       *)
(* applied one at a time: the transaction extensions take the fee, and     *)
(* then the call is dispatched.  Besides the marketplace, construct_runtime *)
(* exposes pallet_uniques and pallet_balances, so the NFTs and the money   *)
(* that the marketplace's records speak of also move without it.           *)
(*                                                                         *)
(* Root calls through pallet_sudo are not modelled, nor the calls of       *)
(* pallet_uniques that administer a collection after it was created: when  *)
(* the pallet account owns the collection, no signer may make them.  An    *)
(* item's attributes and metadata do not touch what is modelled here.      *)
(***************************************************************************)
EXTENDS Marketplace

CONSTANTS Fee,       \* what ChargeTransactionPayment takes
          Transfer,  \* the amounts users send one another
          ItemPrice, \* the prices for which they offer NFTs without the marketplace
          NoPrice    \* no such offer

\* An offer of pallet_uniques: to one account, or to everybody.
Offer == [price : ItemPrice, to : Account \union {NoAccount}]

\* Account identifiers are 32 bytes long: there are finitely many.
ASSUME RuntimeAssumption == /\ IsFiniteSet(Account)
                            /\ Fee \in Nat /\ Transfer \subseteq Nat
                            /\ ItemPrice \subseteq Nat
                            /\ NoPrice \notin Offer

VARIABLES in_flight,  \* the signer of the extrinsic being applied, or NoAccount
          item_price  \* pallet_uniques: the offer of each NFT

ledgers == <<storage, collection, nft, item_price>>
rvars == <<vars, in_flight, item_price>>

RuntimeTypeOK == /\ TypeOK
                 /\ in_flight \in User \union {NoAccount}
                 /\ item_price \in [ItemId -> Offer \union {NoPrice}]

RuntimeInit == /\ Init
               /\ in_flight = NoAccount
               /\ item_price = [item \in ItemId |-> NoPrice]
-----------------------------------------------------------------------------
\* The fee must leave the signer's account alive.
CanPayFee(who) == free[who] >= Fee + ExistentialDeposit

\* withdraw_fee.  The imbalance is handed to (), which burns it.
PreDispatch(who) ==
    /\ in_flight = NoAccount
    /\ CanPayFee(who)
    /\ free' = [free EXCEPT ![who] = @ - Fee]
    /\ in_flight' = who
    /\ UNCHANGED ledgers

\* A call that returns Err has its storage layer dropped; the fee stays paid.
DispatchFails ==
    /\ in_flight # NoAccount
    /\ in_flight' = NoAccount
    /\ UNCHANGED <<vars, item_price>>

\* An account left with less than the deposit is closed and the rest is burnt.
Reaped(balance) == IF balance < ExistentialDeposit THEN 0 ELSE balance

Sent(from, to, amount) ==
    IF amount = 0 \/ from = to THEN free
    ELSE [free EXCEPT ![from] = Reaped(@ - amount), ![to] = @ + amount]

transfer_allow_death(who, to, amount) ==
    /\ CanTransferAllowDeath(who, to, amount)
    /\ free' = Sent(who, to, amount)
    /\ UNCHANGED ledgers

transfer_keep_alive(who, to, amount) ==
    /\ CanTransfer(who, to, amount)
    /\ free' = Transferred(who, to, amount)
    /\ UNCHANGED ledgers

\* An offer ends with the next transfer of its NFT, and with the NFT.
Unoffered(items) ==
    [item \in ItemId |-> IF item \in items THEN NoPrice ELSE item_price[item]]

uniques_create(who, admin) ==
    /\ collection = NoCollection
    /\ collection' = Created(who, admin)
    /\ UNCHANGED <<storage, free, nft, item_price>>

uniques_mint(who, item, to) ==
    /\ CanMint(collection, who, item)
    /\ nft' = Minted(item, to)
    /\ UNCHANGED <<storage, free, collection, item_price>>

uniques_transfer(who, item, to) ==
    /\ CanMove(who, item)
    /\ nft' = Moved(item, to)
    /\ item_price' = Unoffered({item})
    /\ UNCHANGED <<storage, free, collection>>

\* The item's owner or the collection's admin: approvals and burning.
Governs(who, item) ==
    /\ collection # NoCollection
    /\ Exists(item)
    /\ who \in {nft[item].owner, collection.admin}

uniques_burn(who, item) ==
    /\ Governs(who, item)
    /\ nft' = Burnt(item)
    /\ item_price' = Unoffered({item})
    /\ UNCHANGED <<storage, free, collection>>

approve_transfer(who, item, delegate) ==
    /\ Governs(who, item)
    /\ nft' = [nft EXCEPT ![item].approved = delegate]
    /\ UNCHANGED <<storage, free, collection, item_price>>

cancel_approval(who, item) ==
    /\ Governs(who, item)
    /\ nft[item].approved # NoAccount
    /\ nft' = [nft EXCEPT ![item].approved = NoAccount]
    /\ UNCHANGED <<storage, free, collection, item_price>>

\* The owner offers the NFT, or with NoPrice no longer does.
set_price(who, item, offer) ==
    /\ OwnerIs(item, who)
    /\ item_price' = [item_price EXCEPT ![item] = offer]
    /\ UNCHANGED vars

\* The bid is what the buyer pays at most; the price is what is paid.
MayBuyItem(who, item) ==
    /\ Exists(item)
    /\ item_price[item] # NoPrice
    /\ item_price[item].to \in {who, NoAccount}

buy_item(who, item, bid) ==
    LET owner == nft[item].owner
        price == item_price[item].price
    IN  /\ MayBuyItem(who, item)
        /\ owner # who
        /\ bid >= price
        /\ CanTransfer(who, owner, price)
        /\ free' = Transferred(who, owner, price)
        /\ nft' = Moved(item, who)
        /\ item_price' = Unoffered({item})
        /\ UNCHANGED <<storage, collection>>

BalancesCall(who) ==
    \E to \in Account, amount \in Transfer :
        \/ transfer_allow_death(who, to, amount)
        \/ transfer_keep_alive(who, to, amount)

UniquesCall(who) ==
    \/ \E a \in Account : uniques_create(who, a)
    \/ \E item \in ItemId :
           \/ uniques_burn(who, item)
           \/ cancel_approval(who, item)
           \/ \E a \in Account : \/ uniques_mint(who, item, a)
                                 \/ uniques_transfer(who, item, a)
                                 \/ approve_transfer(who, item, a)
           \/ \E offer \in Offer \union {NoPrice} : set_price(who, item, offer)
           \/ \E bid \in ItemPrice : buy_item(who, item, bid)

\* The NFTs that a call of the marketplace moves or burns.
Traded == {products[id].item :
              id \in {id \in Listed : products'[id].owner # products[id].owner
                                    \/ products'[id].is_redeemed # products[id].is_redeemed}}

MarketplaceCall(who) == Call(who) /\ item_price' = Unoffered(Traded)

Dispatch == /\ in_flight # NoAccount
            /\ \/ MarketplaceCall(in_flight)
               \/ UniquesCall(in_flight)
               \/ BalancesCall(in_flight)
            /\ in_flight' = NoAccount

RuntimeNext == (\E who \in User : PreDispatch(who)) \/ Dispatch \/ DispatchFails

RuntimeSpec == RuntimeInit /\ [][RuntimeNext]_rvars
-----------------------------------------------------------------------------
(* What survives when NFTs and money also move outside the marketplace.  The *)
(* records and the NFT ledger may then disagree about the owner; the rest    *)
(* holds as long as the collection is the one list_product creates.          *)

OurCollection == collection = Created(PalletAccount, PalletAccount)

\* A redeemed product has no NFT, now or ever again, and no NFT of the collection
\* lacks a record: nobody but list_product mints, and it never reuses an id.
RedeemedIsGone ==
    \A item \in ItemId :
        Exists(item) => item \in Listed /\ ~products[item].is_redeemed

\* An offer does not outlive its NFT, or it would come back with the next one.
OffersAreOfNfts == \A item \in ItemId : item_price[item] # NoPrice => Exists(item)

\* Whatever holders do with their NFTs outside the marketplace, its own collection
\* holds the titles of its products and no others, and list_product goes on listing
\* until MaxProducts is reached: its mint never meets an old item.
CollectionStaysSound ==
    OurCollection => RedeemedIsGone /\ OffersAreOfNfts /\ ListNeverBlocked

\* The record of a product changes hands by buy_product alone, which always
\* hands over the NFT with it and pays the owner on record.
SoldWithNft(id) ==
    LET seller == products[id].owner
        buyer  == products'[id].owner
        price  == products[id].price
    IN  /\ buyer = in_flight
        /\ products[id].on_sale
        /\ nft'[products[id].item] = [owner |-> buyer, approved |-> NoAccount]
        /\ free' = Transferred(buyer, seller, price)
        /\ free'[buyer] >= ExistentialDeposit \/ price = 0

BuyerGetsBoth ==
    [][\A id \in Listed : ChangesHands(id) => SoldWithNft(id)]_rvars

\* Nobody loses an NFT without a say: its owner signed the extrinsic, approved
\* its signer, approved (or is) the seller on record of a product on sale, or
\* offered it to the signer and is paid.
Consented(item) ==
    \/ in_flight \in {nft[item].owner, nft[item].approved}
    \/ /\ item_price[item] # NoPrice
       /\ item_price[item].to \in {in_flight, NoAccount}
       /\ free' = Transferred(in_flight, nft[item].owner, item_price[item].price)
    \/ /\ item \in Listed
       /\ products[item].on_sale
       /\ products[item].owner \in {nft[item].owner, nft[item].approved}

NoLossWithoutConsent ==
    [][\A item \in ItemId :
        /\ OurCollection /\ Exists(item)
        /\ \/ nft'[item] = NoItem
           \/ nft'[item].owner # nft[item].owner
        => Consented(item)]_rvars

\* Money never appears.  It disappears as the fee of an extrinsic, or as the dust
\* of an account that is closed.
MoneyOnlyBurns ==
    [][LET burnt == Issuance - Issuance'
       IN  \/ burnt = 0
           \/ burnt = Fee /\ in_flight = NoAccount
           \/ burnt \in 0 .. (ExistentialDeposit - 1) /\ free'[in_flight] = 0]_rvars
=============================================================================
