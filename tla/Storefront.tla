----------------------------- MODULE Storefront -----------------------------
(***************************************************************************)
(* The page (App.tsx): what it shows, the handlers behind its buttons, and *)
(* the effect that reads the chain when an account is chosen.  It runs     *)
(* against the marketplace pallet, which others use at the same time.      *)
(*                                                                         *)
(* A handler is an async function: between its await and what follows      *)
(* anything may happen.  What it captured at the click (the account, the   *)
(* product) it keeps; what it sets, it sets in one turn of the event loop. *)
(* Here a block is final as soon as it is executed: TxTracker has forks.   *)
(* Order and repetitions of the vault's entries are layout and left out.   *)
(***************************************************************************)
EXTENDS Marketplace

CONSTANTS Wallet,    \* the accounts that the wallet modal offers
          DevAccount,  \* Bob, the test account among them
          Manufacturers,  \* those registered when the session starts
          CallSlot,  \* names of the clicks of a session: bounds their number
          SyncSlot,  \* names of the choices of an account: bounds their number
          NoTask,    \* a slot not used yet
          Returned,  \* one that has returned
          Missed     \* one that has returned with an error and left the page behind

VARIABLES account,   \* account: the chosen account, or null
          shelf,     \* products: what Home shows of each product
          locker,    \* locker: what the vault shows
          modal,     \* txModal.status, "none" when not shown
          delivery,  \* showDeliveryModal
          calls,     \* the running handleBuy, handleToggleSale, handleRedeem
          syncs      \* the running syncs

page == <<account, shelf, locker, modal, delivery>>
svars == <<vars, page, calls, syncs>>

\* What the page knows of a product.
Flags == [on_sale : BOOLEAN, is_redeemed : BOOLEAN]
Entry == [id : ProductId, flags : Flags]

Kind == {"buy", "list", "unlist", "redeem"}

\* phase: sent until a block executes the extrinsic, then ok or failed; lost when the
\* handler has returned with an error and a block may still execute the extrinsic.
CallTask == [kind : Kind, who : Wallet, id : ProductId,
             phase : {"sent", "ok", "failed", "lost"}]

\* todo: the keys still to query; read: what was answered, with the owner.
Reading == [owner : Account, flags : Flags]
SyncTask == [who : Wallet, phase : {"keys", "values"},
             todo : SUBSET ProductId,
             read : [ProductId -> Reading \union {NoProduct}]]

ASSUME StorefrontAssumption ==
    /\ Wallet \subseteq User
    /\ DevAccount \in Wallet
    /\ Manufacturers \subseteq Account
    /\ NoProduct \notin Flags \union Reading
    /\ {NoTask, Returned, Missed} \intersect (CallTask \union SyncTask) = {}
    /\ NoTask # Returned /\ NoTask # Missed /\ Returned # Missed

StorefrontTypeOK ==
    /\ account \in Wallet \union {NoAccount}
    /\ shelf \in [ProductId -> Flags \union {NoProduct}]
    /\ locker \subseteq Entry
    /\ modal \in {"none", "pending", "success", "error"}
    /\ delivery \in BOOLEAN
    /\ calls \in [CallSlot -> CallTask \union {NoTask, Returned, Missed}]
    /\ syncs \in [SyncSlot -> SyncTask \union {NoTask, Returned, Missed}]

\* The page ships with a catalogue (data/products.ts) of products on sale, which
\* it shows until the first sync.
Catalogue == [id \in ProductId |-> IF id < MaxProducts
                                   THEN [on_sale |-> TRUE, is_redeemed |-> FALSE]
                                   ELSE NoProduct]

PageInit == /\ account = NoAccount
            /\ shelf = Catalogue
            /\ locker = {}
            /\ modal = "none"
            /\ delivery = FALSE
            /\ calls = [c \in CallSlot |-> NoTask]
            /\ syncs = [s \in SyncSlot |-> NoTask]

\* The session starts on a market with nothing listed yet, whose manufacturers stay
\* as they are: the admin is the account that nobody signs for.
StorefrontInit == /\ PageInit
                  /\ BalancesInit
                  /\ UniquesInit
                  /\ products = [id \in ProductId |-> NoProduct]
                  /\ registered_manufacturers = Manufacturers
                  /\ next_product_id = 0
                  /\ admin_account = PalletAccount

IsTask(slot) == slot \notin {NoTask, Returned, Missed}
RunningCall(c) == IsTask(calls[c]) /\ calls[c].phase # "lost"
RunningSync(s) == IsTask(syncs[s])
-----------------------------------------------------------------------------
(* Choosing an account, and the sync that it starts. *)

\* Operators named MUT_ are faulty forms of the definition that follows them, put in
\* its place to show that a property notices.  Nothing else refers to them.
MUT_PageIsFree == modal = "none"

\* A modal covers the page until it is closed.
PageIsFree == modal = "none" /\ ~delivery

\* handleConnectWallet, then the effect of [account], which starts a sync.  The test
\* account is a new object each time, so choosing it again syncs again.
handleConnectWallet(s, who) ==
    /\ PageIsFree
    /\ syncs[s] = NoTask
    /\ who # account \/ who = DevAccount
    /\ account' = who
    /\ syncs' = [syncs EXCEPT ![s] =
           [who |-> who, phase |-> "keys", todo |-> {},
            read |-> [id \in ProductId |-> NoProduct]]]
    /\ UNCHANGED <<vars, shelf, locker, modal, delivery, calls>>

\* await api.query.marketplace.products.keys()
SyncKeys(s) ==
    /\ RunningSync(s) /\ syncs[s].phase = "keys"
    /\ syncs' = [syncs EXCEPT ![s].phase = "values", ![s].todo = Listed]
    /\ UNCHANGED <<vars, page, calls>>

MUT_FlagsOf(product) == product

FlagsOf(product) ==
    [on_sale |-> product.on_sale, is_redeemed |-> product.is_redeemed]

\* await api.query.marketplace.products(id), one key after the other.
SyncValue(s, id) ==
    /\ RunningSync(s) /\ id \in syncs[s].todo
    /\ syncs' = [syncs EXCEPT ![s].todo = @ \ {id}, ![s].read[id] =
           [owner |-> products[id].owner, flags |-> FlagsOf(products[id])]]
    /\ UNCHANGED <<vars, page, calls>>

MUT_VaultOf(who, read) ==
    {[id |-> id, flags |-> read[id].flags] :
        id \in {i \in ProductId : read[i] # NoProduct}}

\* updatedProducts.filter(p => p.owner === account?.address)
VaultOf(who, read) ==
    {[id |-> id, flags |-> read[id].flags] :
        id \in {i \in ProductId : read[i] # NoProduct /\ read[i].owner = who}}

\* setProducts and setLocker, for the account that was chosen when it started.
SyncEnds(s) ==
    /\ RunningSync(s) /\ syncs[s].phase = "values" /\ syncs[s].todo = {}
    /\ LET read == syncs[s].read
       IN  /\ shelf' = [id \in ProductId |->
                           IF read[id] = NoProduct THEN NoProduct
                           ELSE read[id].flags]
           /\ locker' = VaultOf(syncs[s].who, read)
    /\ syncs' = [syncs EXCEPT ![s] = Returned]
    /\ UNCHANGED <<vars, account, modal, delivery, calls>>

\* A query fails: the error is logged and nothing shown changes.
SyncFails(s) ==
    /\ RunningSync(s)
    /\ syncs' = [syncs EXCEPT ![s] = Missed]
    /\ UNCHANGED <<vars, page, calls>>
-----------------------------------------------------------------------------
(* The buttons and the handlers behind them. *)

\* The buttons that are not disabled, on Home and in the vault.
Enabled(kind, flags) ==
    /\ ~flags.is_redeemed
    /\ kind \in {"buy", "unlist"} => flags.on_sale
    /\ kind = "list" => ~flags.on_sale

Clickable(kind, id) ==
    IF kind = "buy" THEN shelf[id] # NoProduct /\ Enabled(kind, shelf[id])
    ELSE \E e \in locker : e.id = id /\ Enabled(kind, e.flags)

\* A click of somebody who has chosen an account, up to the first await.
Click(c, kind, id) ==
    /\ calls[c] = NoTask
    /\ account # NoAccount
    /\ PageIsFree
    /\ Clickable(kind, id)
    /\ calls' = [calls EXCEPT ![c] =
           [kind |-> kind, who |-> account, id |-> id, phase |-> "sent"]]
    /\ modal' = "pending"
    /\ delivery' = (delivery \/ kind = "redeem")
    /\ UNCHANGED <<vars, account, shelf, locker, syncs>>

CloseModal == /\ modal # "none"
              /\ modal' = "none"
              /\ UNCHANGED <<vars, account, shelf, locker, delivery, calls, syncs>>

CloseDelivery == /\ delivery
                 /\ delivery' = FALSE
                 /\ UNCHANGED <<vars, account, shelf, locker, modal, calls, syncs>>

Extrinsic(call) ==
    CASE call.kind = "buy"    -> buy_product(call.who, call.id)
      [] call.kind = "list"   -> toggle_sale(call.who, call.id, TRUE)
      [] call.kind = "unlist" -> toggle_sale(call.who, call.id, FALSE)
      [] call.kind = "redeem" -> redeem_product(call.who, call.id)

Accepted(call) ==
    CASE call.kind = "buy"    -> CanBuy(call.who, call.id)
      [] call.kind = "redeem" -> CanRedeem(call.who, call.id)
      [] OTHER                -> CanToggle(call.who, call.id)

\* A block executes the extrinsic, whether its handler still waits for it or not.
Executed(c) ==
    /\ IsTask(calls[c]) /\ calls[c].phase \in {"sent", "lost"}
    /\ IF Accepted(calls[c]) THEN Extrinsic(calls[c]) ELSE UNCHANGED vars
    /\ calls' = [calls EXCEPT ![c] =
           IF @.phase = "lost" THEN Missed
           ELSE [@ EXCEPT !.phase = IF Accepted(calls[c]) THEN "ok" ELSE "failed"]]
    /\ UNCHANGED <<page, syncs>>

MUT_Outcome(call, flags) ==
    CASE call.kind = "unlist"            -> [flags EXCEPT !.on_sale = FALSE]
      [] call.kind = "list"              -> [flags EXCEPT !.on_sale = TRUE]
      [] call.kind = "redeem"            -> [flags EXCEPT !.is_redeemed = TRUE]
      [] call.kind = "buy"               -> flags

\* What a successful handler writes on each copy of the product it shows.
Outcome(call, flags) ==
    CASE call.kind \in {"buy", "unlist"} -> [flags EXCEPT !.on_sale = FALSE]
      [] call.kind = "list"              -> [flags EXCEPT !.on_sale = TRUE]
      [] call.kind = "redeem"            -> [flags EXCEPT !.is_redeemed = TRUE]

\* handleBuy adds the product as it was shown when it was clicked: not redeemed.
Bought(call) ==
    {[id |-> call.id, flags |-> [on_sale |-> TRUE, is_redeemed |-> FALSE]] :
        k \in {call.kind} \intersect {"buy"}}

\* The handler goes on after its await, in the try block.
Succeeds(c) ==
    LET call == calls[c]
    IN  /\ RunningCall(c) /\ call.phase = "ok"
        /\ modal' = "success"
        /\ locker' = {IF e.id = call.id
                      THEN [e EXCEPT !.flags = Outcome(call, @)] ELSE e :
                          e \in locker \union Bought(call)}
        /\ shelf' = [shelf EXCEPT ![call.id] =
                        IF @ = NoProduct THEN @ ELSE Outcome(call, @)]
        /\ calls' = [calls EXCEPT ![c] = Returned]
        /\ UNCHANGED <<vars, account, delivery, syncs>>

MUT_FailsSilently(c) ==
    /\ RunningCall(c) /\ calls[c].phase \in {"sent", "failed"}
    /\ calls' = [calls EXCEPT ![c] = Returned]
    /\ UNCHANGED <<vars, page, syncs>>

MUT_FailsLikeSuccess(c) ==
    /\ RunningCall(c) /\ calls[c].phase \in {"sent", "failed"}
    /\ modal' = "error"
    /\ shelf' = [shelf EXCEPT ![calls[c].id] =
                    IF @ = NoProduct THEN @ ELSE Outcome(calls[c], @)]
    /\ calls' = [calls EXCEPT ![c] = Returned]
    /\ UNCHANGED <<vars, account, locker, delivery, syncs>>

\* It goes on in the catch block: the extrinsic failed, or was never sent because
\* the user did not sign it or the node refused it.
Fails(c) ==
    /\ RunningCall(c) /\ calls[c].phase \in {"sent", "failed"}
    /\ modal' = "error"
    /\ calls' = [calls EXCEPT ![c] = Returned]
    /\ UNCHANGED <<vars, account, shelf, locker, delivery, syncs>>

\* It goes on in the catch block, and a block executes the extrinsic all the same: the
\* socket closed before the node's reply, or the error came from a block that a fork
\* took back (TxTracker).
FailsFalsely(c) ==
    /\ RunningCall(c) /\ calls[c].phase \in {"sent", "ok"}
    /\ modal' = "error"
    /\ calls' = [calls EXCEPT ![c] = IF @.phase = "ok" THEN Missed
                                    ELSE [@ EXCEPT !.phase = "lost"]]
    /\ UNCHANGED <<vars, account, shelf, locker, delivery, syncs>>

\* Everybody else uses the marketplace without this page.
Elsewhere == /\ \E who \in User \ Wallet : Call(who)
             /\ UNCHANGED <<page, calls, syncs>>

StorefrontNext ==
    \/ \E s \in SyncSlot :
           \/ \E who \in Wallet : handleConnectWallet(s, who)
           \/ SyncKeys(s)
           \/ \E id \in ProductId : SyncValue(s, id)
           \/ SyncEnds(s)
           \/ SyncFails(s)
    \/ \E c \in CallSlot :
           \/ \E kind \in Kind, id \in ProductId : Click(c, kind, id)
           \/ Executed(c)
           \/ Succeeds(c)
           \/ Fails(c)
           \/ FailsFalsely(c)
    \/ CloseModal
    \/ CloseDelivery
    \/ Elsewhere

StorefrontSpec == StorefrontInit /\ [][StorefrontNext]_svars

\* The session of somebody who takes one step at a time, with one account, on a
\* market that nobody else uses meanwhile: every wait is waited out.  Queries and
\* submissions fail as they do in any other session.
Idle == /\ \A c \in CallSlot : ~RunningCall(c)
        /\ \A s \in SyncSlot : ~RunningSync(s)

OneStepAtATime ==
    \/ account = NoAccount /\ Elsewhere
    \/ \E s \in SyncSlot :
           \/ account = NoAccount
              /\ \E who \in Wallet : handleConnectWallet(s, who)
           \/ SyncKeys(s)
           \/ \E id \in ProductId : SyncValue(s, id)
           \/ SyncEnds(s)
           \/ SyncFails(s)
    \/ \E c \in CallSlot :
           \/ Idle /\ \E kind \in Kind, id \in ProductId : Click(c, kind, id)
           \/ Executed(c)
           \/ Succeeds(c)
           \/ Fails(c)
           \/ FailsFalsely(c)
    \/ CloseModal
    \/ CloseDelivery

SequentialSpec == StorefrontInit /\ [][OneStepAtATime]_svars
-----------------------------------------------------------------------------
(* What the page may be relied on for. *)

\* What it shows as redeemed is redeemed, in the vault and on Home, however late the
\* answers of the chain are applied: a redemption is shown only once it is executed,
\* and the chain never takes one back.
RedeemedIsTrue ==
    /\ \A e \in locker : e.flags.is_redeemed => products[e.id].is_redeemed
    /\ \A id \in ProductId :
           shelf[id] # NoProduct /\ shelf[id].is_redeemed =>
               products[id].is_redeemed

\* The vault may show what is no longer the user's, and never what never was: each
\* entry has been sold at least once, or was made by an account of this wallet.
VaultWasBought ==
    \A e \in locker : \/ products[e.id].holders_count > 0
                      \/ products[e.id].genesis_owner \in Wallet

\* A pending modal has a handler behind it, whatever other handlers wrote to the one
\* modal in between: none returns and leaves it pending.  (Whether the handler ever
\* returns is another matter: a submission whose subscription ended does not settle.)
PendingHasHandler == modal = "pending" => \E c \in CallSlot : RunningCall(c)

\* The flags of a vault entry agree with the chain's.
Fresh(id, flags) == flags = FlagsOf(products[id])

\* Every sync got its answers, and no error hid an extrinsic that was or may be executed.
NothingMissed ==
    /\ \A s \in SyncSlot : syncs[s] # Missed
    /\ \A c \in CallSlot : calls[c] # Missed /\ (IsTask(calls[c]) => RunningCall(c))

\* Used one step at a time, the page is right when nothing runs and nothing was missed:
\* the vault shows the account's products and no others, and Home every product, as
\* they are on chain, with no second sync: the handlers' own updates keep up with the
\* pallet's.
IdleIsFresh ==
    account # NoAccount /\ Idle /\ NothingMissed =>
        /\ \A e \in locker : Fresh(e.id, e.flags)
        /\ {e.id : e \in locker} = {id \in Listed : products[id].owner = account}
        /\ \A id \in Listed : Fresh(id, shelf[id])

\* The form that asks for the delivery address opens before the redemption is sent.
\* Used one step at a time, success beside the open form means that there is a
\* product to deliver: the form of a redemption that failed is out of the way first.
FormWithSuccessDelivers ==
    delivery /\ modal = "success" =>
        \E id \in Listed : products[id].owner = account /\ products[id].is_redeemed
-----------------------------------------------------------------------------
(* What the source says of the page, and the page does not do. *)

\* "Update locker for the current account": the vault that a sync sets is the one of
\* the account that is chosen at that moment.
SyncIsForTheCurrentAccount ==
    [][\A s \in SyncSlot :
        RunningSync(s) /\ locker' # locker /\ ~RunningSync(s)' =>
            syncs[s].who = account]_svars
=============================================================================
