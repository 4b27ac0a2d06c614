------------------------------ MODULE Uniques -------------------------------
(***************************************************************************)
(* pallet_uniques, as the marketplace uses it: an external component.  The *)
(* marketplace owns one collection (MarketplaceCollectionId), so the model *)
(* has that collection only.  Deposits are zero in this runtime.  Freezing *)
(* is left out: only the collection's freezer and the items' owner could   *)
(* ask for it, and the freezer is the pallet account, which never signs.   *)
(***************************************************************************)
EXTENDS Accounts

CONSTANTS ItemId, NoItem, NoCollection

ItemDetails == [owner : Account, approved : Account \union {NoAccount}]

CollectionDetails == [owner : Account, issuer : Account, admin : Account]

ASSUME UniquesAssumption == /\ NoItem \notin ItemDetails
                            /\ NoCollection \notin CollectionDetails

VARIABLES collection,  \* the marketplace collection's details
          nft          \* its items

UniquesTypeOK ==
    /\ collection \in CollectionDetails \union {NoCollection}
    /\ nft \in [ItemId -> ItemDetails \union {NoItem}]

UniquesInit == /\ collection = NoCollection
               /\ nft = [i \in ItemId |-> NoItem]

Exists(item) == nft[item] # NoItem

OwnerIs(item, who) == Exists(item) /\ nft[item].owner = who

\* create(origin, collection, admin): the caller owns the collection, and the
\* admin argument is its issuer, its admin and its freezer.
Created(who, admin) == [owner |-> who, issuer |-> admin, admin |-> admin]

\* mint by `who` into collection c: only the issuer, and never over an item.
CanMint(c, who, item) == /\ c # NoCollection
                         /\ c.issuer = who
                         /\ ~Exists(item)

Minted(item, to) ==
    [nft EXCEPT ![item] = [owner |-> to, approved |-> NoAccount]]

\* transfer: the item's owner, the collection's admin or the item's delegate.
CanMove(who, item) == /\ collection # NoCollection
                      /\ Exists(item)
                      /\ who \in {nft[item].owner, nft[item].approved,
                                  collection.admin}

\* A transfer also takes back the approval.
Moved(item, to) == Minted(item, to)

\* burn(origin, item, check_owner = Some(who)), called by who.
CanBurn(who, item) == collection # NoCollection /\ OwnerIs(item, who)

Burnt(item) == [nft EXCEPT ![item] = NoItem]
=============================================================================
