-------------------------- MODULE StorefrontProofs --------------------------
(***************************************************************************)
(* Theorems about the page, for every wallet, every number of clicks and   *)
(* every order in which the chain's answers reach it.  What is proved of   *)
(* the marketplace pallet is used of the chain that the page reads.        *)
(***************************************************************************)
EXTENDS Storefront, MarketplaceProofs

-----------------------------------------------------------------------------
(* What the page is told stays true, as long as the chain only goes on.      *)

\* A product that was sold, or that an account of this wallet made.
WasTheirs(id) == /\ id \in Listed
                 /\ \/ products[id].holders_count > 0
                    \/ products[id].genesis_owner \in Wallet

IsTrue(id, flags) == /\ id \in Listed
                     /\ flags.is_redeemed => products[id].is_redeemed

VaultIsTrue == \A e \in locker : WasTheirs(e.id) /\ IsTrue(e.id, e.flags)

ShelfIsTrue == \A id \in ProductId :
                   shelf[id] # NoProduct /\ shelf[id].is_redeemed =>
                       id \in Listed /\ products[id].is_redeemed

\* A sync applies its answers later, in the vault those of its account's products.
AnswersAreTrue(s) ==
    /\ syncs[s].todo \subseteq Listed
    /\ \A id \in ProductId :
           syncs[s].read[id] # NoProduct =>
               /\ IsTrue(id, syncs[s].read[id].flags)
               /\ syncs[s].read[id].owner \in Wallet => WasTheirs(id)

\* And so does a handler whose extrinsic was executed.
ResultIsTrue(c) ==
    /\ calls[c].id \in Listed
    /\ calls[c].kind = "buy" => products[calls[c].id].holders_count > 0
    /\ calls[c].kind = "redeem" => products[calls[c].id].is_redeemed

\* All that is shown, and all that is held to be shown.
HeldIsTrue == /\ VaultIsTrue
              /\ ShelfIsTrue
              /\ \A s \in SyncSlot : RunningSync(s) => AnswersAreTrue(s)
              /\ \A c \in CallSlot : RunningCall(c) /\ calls[c].phase = "ok" => ResultIsTrue(c)

\* The inductive invariant: not only what is shown is true, but what a sync or a
\* handler holds to show later.
StorefrontInv ==
    /\ StorefrontTypeOK
    /\ LedgersAgree
    /\ FirstHolderIsManufacturer
    /\ HeldIsTrue

\* What the chain once said of a product, later steps do not take back.
LEMMA ChainGoesOn ==
    ASSUME LedgersAgree, [Next]_vars, NEW id \in Listed
    PROVE  /\ id \in Listed'
           /\ products[id].is_redeemed => products'[id].is_redeemed
           /\ products[id].is_redeemed => products'[id].owner = products[id].owner
           /\ products[id].holders_count > 0 => products'[id].holders_count > 0
           /\ products'[id].genesis_owner = products[id].genesis_owner
<1>1. RecordGrows(id) /\ products[id] \in Product /\ id \in ProductId
  BY RecordGrowsStep, ListedIsProduct DEF LedgersAgree
<1>2. products[id].holders_count \in Nat /\ HoldersMax \in Nat
  BY MarketplaceAssumption, <1>1 DEF Product
<1>3. SaturatingIncr(products[id].holders_count) > 0
  BY MarketplaceAssumption, <1>2 DEF SaturatingIncr
<1> QED
  BY <1>1, <1>2, <1>3 DEF RecordGrows, Listed

\* The steps of the page that touch the chain are steps of the marketplace.
LEMMA ExecutedSteps ==
    ASSUME StorefrontTypeOK, NEW c \in CallSlot, Executed(c)
    PROVE  [Next]_vars
<1>1. calls[c] \in CallTask /\ calls[c].who \in User
  BY StorefrontAssumption DEF StorefrontTypeOK, Executed, RunningCall, IsTask, CallTask
<1>2. CASE Accepted(calls[c])
  <2>1. Extrinsic(calls[c])
    BY <1>2 DEF Executed
  <2>2. Call(calls[c].who)
    BY <1>1, <2>1 DEF Extrinsic, CallTask, Kind, Call
  <2> QED
    BY <1>1, <2>2 DEF Next
<1>3. CASE ~Accepted(calls[c])
  BY <1>3 DEF Executed
<1> QED
  BY <1>2, <1>3

LEMMA PageSteps ==
    ASSUME StorefrontTypeOK, [StorefrontNext]_svars
    PROVE  [Next]_vars
<1>1. Elsewhere => Next
  BY DEF Elsewhere, Next
<1> QED
  BY <1>1, ExecutedSteps
     DEF StorefrontNext, svars, handleConnectWallet, SyncKeys, SyncValue, SyncEnds, SyncFails,
         Click, Succeeds, Fails, FailsFalsely, CloseModal, CloseDelivery

-----------------------------------------------------------------------------
(* Types. *)

LEMMA CallIsTask ==
    ASSUME StorefrontTypeOK, NEW c \in CallSlot, RunningCall(c) \/ IsTask(calls[c])
    PROVE  /\ calls[c] \in CallTask /\ calls[c].who \in Wallet
           /\ calls[c].id \in ProductId /\ calls[c].kind \in Kind
BY DEF StorefrontTypeOK, RunningCall, IsTask, CallTask

\* What becomes of a call when a block executes its extrinsic.
LEMMA ExecutedTask ==
    ASSUME StorefrontTypeOK, NEW c \in CallSlot, Executed(c)
    PROVE  /\ calls[c] \in CallTask
           /\ \A d \in CallSlot \ {c} : calls'[d] = calls[d]
           /\ \/ /\ calls[c].phase = "lost" /\ calls'[c] = Missed
                 /\ ~RunningCall(c) /\ ~RunningCall(c)'
              \/ /\ RunningCall(c) /\ RunningCall(c)' /\ calls[c].phase = "sent"
                 /\ calls'[c] \in CallTask
                 /\ calls'[c].who = calls[c].who
                 /\ calls'[c].id = calls[c].id /\ calls'[c].kind = calls[c].kind
                 /\ calls'[c].phase = IF Accepted(calls[c]) THEN "ok" ELSE "failed"
<1>1. calls[c] \in CallTask /\ IsTask(calls[c])
  BY CallIsTask DEF Executed
<1>2. \A d \in CallSlot \ {c} : calls'[d] = calls[d]
  BY DEF Executed, StorefrontTypeOK
<1>3. CASE calls[c].phase = "lost"
  BY <1>1, <1>2, <1>3 DEF Executed, StorefrontTypeOK, RunningCall, IsTask
<1>4. CASE calls[c].phase = "sent"
  <2> DEFINE phase == IF Accepted(calls[c]) THEN "ok" ELSE "failed"
             task == [calls[c] EXCEPT !.phase = phase]
  <2>1. calls'[c] = task
    BY <1>1, <1>4 DEF Executed, StorefrontTypeOK
  <2>2. phase \in {"ok", "failed"}
    OBVIOUS
  <2> HIDE DEF phase
  <2>3. /\ task \in CallTask /\ task.who = calls[c].who /\ task.phase = phase
        /\ task.id = calls[c].id /\ task.kind = calls[c].kind
    BY <1>1, <2>2 DEF CallTask
  <2> HIDE DEF task
  <2>4. IsTask(task)
    BY <2>3, StorefrontAssumption DEF IsTask
  <2>5. RunningCall(c) /\ RunningCall(c)'
    BY <1>1, <1>4, <2>1, <2>2, <2>3, <2>4 DEF RunningCall, IsTask
  <2> QED
    BY <1>1, <1>2, <1>4, <2>1, <2>3, <2>5 DEF phase
<1> QED
  BY <1>1, <1>3, <1>4 DEF Executed

LEMMA SyncIsTask ==
    ASSUME StorefrontTypeOK, NEW s \in SyncSlot, RunningSync(s)
    PROVE  /\ syncs[s] \in SyncTask /\ syncs[s].who \in Wallet
           /\ syncs[s].todo \subseteq ProductId
           /\ syncs[s].read \in [ProductId -> Reading \union {NoProduct}]
BY DEF StorefrontTypeOK, RunningSync, IsTask, SyncTask

LEMMA VaultType ==
    ASSUME NEW who, NEW read \in [ProductId -> Reading \union {NoProduct}]
    PROVE  VaultOf(who, read) \subseteq Entry
BY DEF VaultOf, Entry, Reading

LEMMA OutcomeType ==
    ASSUME NEW call \in CallTask, NEW flags \in Flags
    PROVE  /\ Outcome(call, flags) \in Flags
           /\ Outcome(call, flags).is_redeemed =>
                  flags.is_redeemed \/ call.kind = "redeem"
BY DEF CallTask, Kind, Outcome, Flags

\* What the vault shows after a handler's success: every entry is an old one, or the
\* bought product's, and other products' entries are untouched.
VaultAfter(call) ==
    {IF e.id = call.id THEN [e EXCEPT !.flags = Outcome(call, @)] ELSE e :
        e \in locker \union Bought(call)}

LEMMA VaultAfterType ==
    ASSUME StorefrontTypeOK, NEW call \in CallTask, NEW e \in VaultAfter(call)
    PROVE  /\ e \in Entry
           /\ \/ e \in locker /\ e.id # call.id
              \/ \E old \in locker \union Bought(call) :
                    /\ old \in Entry /\ old.id = call.id
                    /\ e.id = call.id /\ e.flags = Outcome(call, old.flags)
<1>1. PICK old \in locker \union Bought(call) :
         e = IF old.id = call.id THEN [old EXCEPT !.flags = Outcome(call, @)] ELSE old
  BY DEF VaultAfter
<1>2. old \in Entry
  BY DEF StorefrontTypeOK, Bought, Entry, Flags, CallTask
<1>3. old.id \in ProductId /\ old.flags \in Flags /\ Outcome(call, old.flags) \in Flags
  BY <1>2, OutcomeType DEF Entry
<1>4. CASE old.id = call.id
  BY <1>1, <1>2, <1>3, <1>4 DEF Entry
<1>5. CASE old.id # call.id
  BY <1>1, <1>2, <1>5 DEF Bought
<1> QED
  BY <1>4, <1>5

LEMMA StorefrontTypeInit == StorefrontInit => StorefrontTypeOK
<1> SUFFICES ASSUME StorefrontInit PROVE StorefrontTypeOK
    OBVIOUS
<1>1. [on_sale |-> TRUE, is_redeemed |-> FALSE] \in Flags
  BY DEF Flags
<1>2. shelf \in [ProductId -> Flags \union {NoProduct}]
  BY <1>1 DEF StorefrontInit, PageInit, Catalogue
<1> QED
  BY <1>2 DEF StorefrontInit, PageInit, StorefrontTypeOK

\* How a running sync's task changes.
LEMMA SyncKeysTask ==
    ASSUME StorefrontTypeOK, NEW s \in SyncSlot, SyncKeys(s)
    PROVE  /\ syncs'[s] \in SyncTask /\ syncs'[s].who = syncs[s].who
           /\ syncs[s].phase = "keys" /\ syncs'[s].phase = "values"
           /\ syncs'[s].todo = Listed /\ syncs'[s].read = syncs[s].read
           /\ syncs' = [syncs EXCEPT ![s] = syncs'[s]]
<1> DEFINE task == [syncs[s] EXCEPT !.phase = "values", !.todo = Listed]
<1>1. syncs[s] \in SyncTask
  BY SyncIsTask DEF SyncKeys
<1>2. syncs' = [syncs EXCEPT ![s] = task] /\ syncs'[s] = task
  BY <1>1 DEF SyncKeys, SyncTask, StorefrontTypeOK
<1>3. task \in SyncTask
  BY <1>1 DEF SyncTask, Listed
<1> QED
  BY <1>1, <1>2, <1>3 DEF SyncKeys, SyncTask

LEMMA SyncValueTask ==
    ASSUME StorefrontTypeOK, LedgersAgree, NEW s \in SyncSlot, NEW id \in ProductId,
           SyncValue(s, id), AnswersAreTrue(s)
    PROVE  /\ id \in Listed
           /\ syncs'[s] \in SyncTask /\ syncs'[s].who = syncs[s].who
           /\ syncs'[s].phase = syncs[s].phase /\ syncs'[s].todo = syncs[s].todo \ {id}
           /\ syncs'[s].read[id] # NoProduct
           /\ syncs'[s].read[id].owner = products[id].owner
           /\ syncs'[s].read[id].flags = FlagsOf(products[id])
           /\ \A i \in ProductId \ {id} : syncs'[s].read[i] = syncs[s].read[i]
           /\ syncs' = [syncs EXCEPT ![s] = syncs'[s]]
<1> DEFINE answer == [owner |-> products[id].owner, flags |-> FlagsOf(products[id])]
           task == [syncs[s] EXCEPT !.todo = @ \ {id}, !.read[id] = answer]
<1>1. syncs[s] \in SyncTask /\ id \in Listed
  BY SyncIsTask DEF SyncValue, AnswersAreTrue
<1>2. answer \in Reading /\ answer # NoProduct
  BY <1>1, ListedIsProduct, StorefrontAssumption
     DEF LedgersAgree, Product, FlagsOf, Reading, Flags
<1>3. syncs' = [syncs EXCEPT ![s] = task] /\ syncs'[s] = task
  BY <1>1 DEF SyncValue, SyncTask, StorefrontTypeOK
<1>4. answer.owner = products[id].owner /\ answer.flags = FlagsOf(products[id])
  OBVIOUS
<1> HIDE DEF answer
<1>5. task \in SyncTask
  BY <1>1, <1>2 DEF SyncTask
<1>6. /\ task.who = syncs[s].who /\ task.phase = syncs[s].phase
      /\ task.todo = syncs[s].todo \ {id}
      /\ task.read = [syncs[s].read EXCEPT ![id] = answer]
  BY <1>1 DEF SyncTask
<1>7. /\ task.read[id] = answer
      /\ \A i \in ProductId \ {id} : task.read[i] = syncs[s].read[i]
  BY <1>1, <1>6 DEF SyncTask
<1> HIDE DEF task
<1> QED
  BY <1>1, <1>2, <1>3, <1>4, <1>5, <1>6, <1>7

\* A sync asks only for products that are listed, or it would get no owner: types need
\* the rest of the invariant.
LEMMA StorefrontTypeStep ==
    StorefrontInv /\ [StorefrontNext]_svars => StorefrontTypeOK'
<1> SUFFICES ASSUME StorefrontInv, StorefrontTypeOK, [StorefrontNext]_svars
             PROVE  StorefrontTypeOK'
    BY DEF StorefrontInv
<1>1. ASSUME NEW s \in SyncSlot, NEW who \in Wallet, handleConnectWallet(s, who)
      PROVE  StorefrontTypeOK'
  <2>1. [who |-> who, phase |-> "keys", todo |-> {},
         read |-> [id \in ProductId |-> NoProduct]] \in SyncTask
    BY DEF SyncTask
  <2> QED
    BY <1>1, <2>1 DEF handleConnectWallet, StorefrontTypeOK
<1>2. ASSUME NEW s \in SyncSlot, SyncKeys(s)
      PROVE  StorefrontTypeOK'
  BY <1>2, SyncKeysTask DEF SyncKeys, StorefrontTypeOK, page
<1>3. ASSUME NEW s \in SyncSlot, NEW id \in ProductId, SyncValue(s, id)
      PROVE  StorefrontTypeOK'
  <2>1. syncs'[s] \in SyncTask /\ syncs' = [syncs EXCEPT ![s] = syncs'[s]]
    BY <1>3, SyncValueTask DEF SyncValue, StorefrontInv, HeldIsTrue
  <2> QED
    BY <1>3, <2>1 DEF SyncValue, StorefrontTypeOK, page
<1>4. ASSUME NEW s \in SyncSlot, SyncEnds(s)
      PROVE  StorefrontTypeOK'
  <2>1. syncs[s].read \in [ProductId -> Reading \union {NoProduct}]
    BY <1>4, SyncIsTask DEF SyncEnds
  <2>2. locker' \subseteq Entry
    BY <1>4, <2>1, VaultType DEF SyncEnds
  <2>3. shelf' \in [ProductId -> Flags \union {NoProduct}]
    BY <1>4, <2>1 DEF SyncEnds, Reading
  <2> QED
    BY <1>4, <2>2, <2>3 DEF SyncEnds, StorefrontTypeOK
<1>5. ASSUME NEW s \in SyncSlot, SyncFails(s)
      PROVE  StorefrontTypeOK'
  BY <1>5 DEF SyncFails, StorefrontTypeOK, page
<1>6. ASSUME NEW c \in CallSlot, NEW kind \in Kind, NEW id \in ProductId, Click(c, kind, id)
      PROVE  StorefrontTypeOK'
  <2>1. [kind |-> kind, who |-> account, id |-> id, phase |-> "sent"] \in CallTask
    BY <1>6 DEF Click, CallTask, StorefrontTypeOK
  <2>2. delivery' \in BOOLEAN
    BY <1>6 DEF Click, StorefrontTypeOK
  <2> QED
    BY <1>6, <2>1, <2>2 DEF Click, StorefrontTypeOK
<1>7. ASSUME NEW c \in CallSlot, Executed(c)
      PROVE  StorefrontTypeOK'
  <2>1. calls[c] \in CallTask
    BY <1>7, CallIsTask DEF Executed
  <2>2. /\ [calls[c] EXCEPT !.phase = "ok"] \in CallTask
        /\ [calls[c] EXCEPT !.phase = "failed"] \in CallTask
    BY <2>1 DEF CallTask
  <2>3. PICK task \in CallTask \union {Missed} : calls' = [calls EXCEPT ![c] = task]
    BY <1>7, <2>1, <2>2 DEF Executed
  <2> QED
    BY <1>7, <2>3 DEF Executed, StorefrontTypeOK, page
<1>8. ASSUME NEW c \in CallSlot, Succeeds(c)
      PROVE  StorefrontTypeOK'
  <2>1. calls[c] \in CallTask
    BY <1>8, CallIsTask DEF Succeeds
  <2>2. locker' \subseteq Entry
    BY <1>8, <2>1, VaultAfterType DEF Succeeds, VaultAfter
  <2>3. \A flags \in Flags : Outcome(calls[c], flags) \in Flags
    BY <2>1, OutcomeType
  <2>4. shelf' \in [ProductId -> Flags \union {NoProduct}]
    BY <1>8, <2>3 DEF Succeeds, StorefrontTypeOK
  <2> QED
    BY <1>8, <2>2, <2>4 DEF Succeeds, StorefrontTypeOK
<1>9. ASSUME NEW c \in CallSlot, FailsFalsely(c) PROVE StorefrontTypeOK'
  <2>1. calls[c] \in CallTask
    BY <1>9, CallIsTask DEF FailsFalsely
  <2>2. [calls[c] EXCEPT !.phase = "lost"] \in CallTask
    BY <2>1 DEF CallTask
  <2> QED
    BY <1>9, <2>2 DEF FailsFalsely, StorefrontTypeOK
<1>10. ASSUME \/ \E c \in CallSlot : Fails(c)
             \/ CloseModal \/ CloseDelivery \/ Elsewhere \/ UNCHANGED svars
      PROVE  StorefrontTypeOK'
  BY <1>10 DEF Fails, CloseModal, CloseDelivery, Elsewhere, StorefrontTypeOK, svars, page
<1> QED
  BY <1>1, <1>2, <1>3, <1>4, <1>5, <1>6, <1>7, <1>8, <1>9, <1>10 DEF StorefrontNext

-----------------------------------------------------------------------------
(* The invariant. *)

LEMMA StorefrontInvInit == StorefrontInit => StorefrontInv
<1> SUFFICES ASSUME StorefrontInit PROVE StorefrontInv
    OBVIOUS
<1>1. Listed = {}
  BY DEF StorefrontInit, Listed
<1>2. TypeOK
  <2>1. Endowment \union {0} \subseteq Nat
    BY BalancesAssumption
  <2> QED
    BY <2>1, AccountAssumption, StorefrontAssumption
       DEF StorefrontInit, BalancesInit, BalancesTypeOK, UniquesInit, UniquesTypeOK, TypeOK
<1>3. IdsInOrder
  BY MarketplaceAssumption, <1>1
     DEF StorefrontInit, UniquesInit, IdsInOrder, ProductId, Exists
<1>4. LedgersAgree /\ FirstHolderIsManufacturer
  BY <1>1, <1>2, <1>3 DEF StorefrontInit, UniquesInit, LedgersAgree, RecordAgreesWithNft,
                          CollectionIsOurs, FirstHolderIsManufacturer
<1>5. VaultIsTrue /\ ShelfIsTrue
  BY StorefrontAssumption DEF StorefrontInit, PageInit, VaultIsTrue, ShelfIsTrue, Catalogue
<1>6. /\ \A s \in SyncSlot : ~RunningSync(s)
      /\ \A c \in CallSlot : ~RunningCall(c)
  BY DEF StorefrontInit, PageInit, RunningSync, IsTask, RunningCall
<1> QED
  BY <1>4, <1>5, <1>6, StorefrontTypeInit DEF StorefrontInv, HeldIsTrue

\* What is held stays true through a step of the chain that leaves the page alone.
LEMMA HeldStaysTrue ==
    ASSUME StorefrontInv, [Next]_vars, UNCHANGED <<shelf, locker, syncs>>
    PROVE  /\ VaultIsTrue' /\ ShelfIsTrue'
           /\ \A s \in SyncSlot : RunningSync(s)' => AnswersAreTrue(s)'
           /\ \A c \in CallSlot : ResultIsTrue(c) /\ calls'[c].id = calls[c].id
                                     /\ calls'[c].kind = calls[c].kind => ResultIsTrue(c)'
<1>1. ASSUME NEW id \in Listed
      PROVE  /\ id \in Listed'
             /\ products[id].is_redeemed => products'[id].is_redeemed
             /\ products[id].holders_count > 0 => products'[id].holders_count > 0
             /\ products'[id].genesis_owner = products[id].genesis_owner
  BY ChainGoesOn DEF StorefrontInv
<1>2. ASSUME NEW id, WasTheirs(id) PROVE WasTheirs(id)'
  BY <1>1, <1>2 DEF WasTheirs
<1>3. ASSUME NEW id, NEW flags, IsTrue(id, flags) PROVE IsTrue(id, flags)'
  BY <1>1, <1>3 DEF IsTrue
<1>4. VaultIsTrue'
  BY <1>2, <1>3 DEF StorefrontInv, HeldIsTrue, VaultIsTrue, page
<1>5. ShelfIsTrue'
  BY <1>1 DEF StorefrontInv, HeldIsTrue, ShelfIsTrue, page
<1>6. ASSUME NEW s \in SyncSlot, RunningSync(s)' PROVE AnswersAreTrue(s)'
  <2>1. AnswersAreTrue(s)
    BY <1>6 DEF StorefrontInv, HeldIsTrue, RunningSync, IsTask
  <2>2. syncs'[s].todo \subseteq Listed'
    BY <1>1, <2>1 DEF AnswersAreTrue
  <2>3. ASSUME NEW id \in ProductId, syncs[s].read[id] # NoProduct
        PROVE  /\ IsTrue(id, syncs[s].read[id].flags)'
               /\ syncs'[s].read[id].owner \in Wallet => WasTheirs(id)'
    <3>1. /\ IsTrue(id, syncs[s].read[id].flags)
          /\ syncs[s].read[id].owner \in Wallet => WasTheirs(id)
      BY <2>1, <2>3 DEF AnswersAreTrue
    <3> QED
      BY <1>1, <1>2, <3>1 DEF IsTrue
  <2> QED
    BY <2>2, <2>3 DEF AnswersAreTrue
<1>7. ASSUME NEW c \in CallSlot, ResultIsTrue(c), calls'[c].id = calls[c].id,
             calls'[c].kind = calls[c].kind
      PROVE  ResultIsTrue(c)'
  BY <1>1, <1>7 DEF ResultIsTrue
<1> QED
  BY <1>4, <1>5, <1>6, <1>7

\* A sale counts a holder, and a redemption redeems.
LEMMA ExecutedIsTrue ==
    ASSUME StorefrontInv, NEW c \in CallSlot, Executed(c), RunningCall(c)',
           calls'[c].phase = "ok"
    PROVE  ResultIsTrue(c)'
<1> DEFINE call == calls[c]
<1>1. call \in CallTask /\ call.id \in ProductId /\ call.kind \in Kind
  BY CallIsTask DEF StorefrontInv, Executed
<1>2. Accepted(call) /\ calls'[c].id = call.id /\ calls'[c].kind = call.kind
  BY ExecutedTask DEF StorefrontInv
<1>3. /\ Extrinsic(call) /\ calls'[c].id = call.id /\ calls'[c].kind = call.kind
  BY <1>2 DEF Executed
<1>4. call.id \in Listed
  BY <1>1, <1>2 DEF Accepted, CanBuy, CanRedeem, CanToggle, Kind
<1>5. [Next]_vars
  BY ExecutedSteps DEF StorefrontInv
<1>6. call.id \in Listed'
  BY <1>4, <1>5, ChainGoesOn DEF StorefrontInv
<1>7. products[call.id] \in Product /\ products \in [ProductId -> Product \union {NoProduct}]
  BY <1>4, ListedIsProduct DEF StorefrontInv, LedgersAgree, TypeOK
<1>8. CASE call.kind = "buy"
  <2>1. products'[call.id] = Sold(products[call.id], call.who) /\ call.who \in Account
    BY <1>1, <1>3, <1>7, <1>8, StorefrontAssumption DEF Extrinsic, buy_product, CallTask, User
  <2>2. products'[call.id].holders_count = SaturatingIncr(products[call.id].holders_count)
    <3>1. Sold(products[call.id], call.who).holders_count
              = SaturatingIncr(products[call.id].holders_count)
      BY <1>7, <2>1, SoldType
    <3> QED
      BY <2>1, <3>1
  <2>3. products'[call.id].holders_count > 0
    BY MarketplaceAssumption, <1>7, <2>2 DEF Product, SaturatingIncr
  <2> QED
    BY <1>3, <1>6, <1>8, <2>3 DEF ResultIsTrue
<1>9. CASE call.kind = "redeem"
  <2>1. products'[call.id].is_redeemed
    BY <1>1, <1>3, <1>7, <1>9 DEF Extrinsic, redeem_product, Redeemed, Product
  <2> QED
    BY <1>3, <1>6, <1>9, <2>1 DEF ResultIsTrue
<1> QED
  BY <1>3, <1>6, <1>8, <1>9 DEF ResultIsTrue

LEMMA FirstHolderKept ==
    ASSUME StorefrontInv, [Next]_vars
    PROVE  LedgersAgree' /\ FirstHolderIsManufacturer'
BY LedgersStep, FirstHolderStep DEF StorefrontInv

\* The page's own steps: what they show they held, and what they hold they read.
LEMMA SyncsKeep ==
    ASSUME StorefrontInv, UNCHANGED vars, NEW s \in SyncSlot,
           \/ \E who \in Wallet : handleConnectWallet(s, who)
           \/ SyncKeys(s)
           \/ \E id \in ProductId : SyncValue(s, id)
           \/ SyncEnds(s)
           \/ SyncFails(s)
    PROVE  HeldIsTrue'
<1>1. /\ Listed' = Listed /\ products' = products /\ StorefrontTypeOK
      /\ VaultIsTrue /\ ShelfIsTrue
      /\ \A t \in SyncSlot : RunningSync(t) => AnswersAreTrue(t)
      /\ \A c \in CallSlot : RunningCall(c) /\ calls[c].phase = "ok" => ResultIsTrue(c)
  BY DEF vars, storage, Listed, StorefrontInv, HeldIsTrue
<1>2. UNCHANGED calls
  BY DEF handleConnectWallet, SyncKeys, SyncValue, SyncEnds, SyncFails, page
<1>3. \A c \in CallSlot : RunningCall(c)' /\ calls'[c].phase = "ok" => ResultIsTrue(c)'
  BY <1>1, <1>2 DEF RunningCall, IsTask, ResultIsTrue
<1>4. ASSUME syncs'[s] = syncs[s] \/ (RunningSync(s)' => AnswersAreTrue(s)'),
             \A t \in SyncSlot \ {s} : syncs'[t] = syncs[t]
      PROVE  \A t \in SyncSlot : RunningSync(t)' => AnswersAreTrue(t)'
  <2> SUFFICES ASSUME NEW t \in SyncSlot, RunningSync(t)', syncs'[t] = syncs[t]
               PROVE  AnswersAreTrue(t)'
    BY <1>4
  <2> QED
    BY <1>1 DEF RunningSync, IsTask, AnswersAreTrue, IsTrue, WasTheirs
<1>5. ASSUME UNCHANGED <<shelf, locker>> PROVE VaultIsTrue' /\ ShelfIsTrue'
  BY <1>1, <1>5 DEF VaultIsTrue, ShelfIsTrue, IsTrue, WasTheirs
<1>6. CASE \E who \in Wallet : handleConnectWallet(s, who)
  <2>1. AnswersAreTrue(s)'
    BY <1>1, <1>6 DEF handleConnectWallet, AnswersAreTrue, StorefrontTypeOK
  <2> QED
    BY <1>1, <1>3, <1>4, <1>5, <1>6, <2>1
       DEF handleConnectWallet, HeldIsTrue, StorefrontTypeOK
<1>7. CASE SyncKeys(s)
  <2>1. syncs[s] \in SyncTask /\ AnswersAreTrue(s)
    BY <1>1, <1>7, SyncIsTask DEF SyncKeys
  <2>2. syncs'[s].todo = Listed /\ syncs'[s].read = syncs[s].read
    BY <1>1, <1>7, <2>1 DEF SyncKeys, SyncTask, StorefrontTypeOK
  <2>3. AnswersAreTrue(s)'
    BY <1>1, <2>1, <2>2 DEF AnswersAreTrue, IsTrue, WasTheirs
  <2> QED
    BY <1>1, <1>3, <1>4, <1>5, <1>7, <2>3 DEF SyncKeys, HeldIsTrue, StorefrontTypeOK, page
<1>8. ASSUME NEW id \in ProductId, SyncValue(s, id) PROVE HeldIsTrue'
  <2> DEFINE answer == [owner |-> products[id].owner, flags |-> FlagsOf(products[id])]
  <2>1. syncs[s] \in SyncTask /\ AnswersAreTrue(s) /\ id \in Listed
    BY <1>1, <1>8, SyncIsTask DEF SyncValue, AnswersAreTrue
  <2>2. /\ syncs'[s].todo = syncs[s].todo \ {id}
        /\ syncs'[s].read = [syncs[s].read EXCEPT ![id] = answer]
    BY <1>1, <1>8, <2>1 DEF SyncValue, SyncTask, StorefrontTypeOK
  <2>3. products[id] \in Product
    BY <2>1, ListedIsProduct DEF StorefrontInv, LedgersAgree
  <2>4. IsTrue(id, answer.flags)
    BY <2>1, <2>3 DEF IsTrue, FlagsOf
  <2>5. answer.owner \in Wallet => WasTheirs(id)
    BY <2>1, <2>3 DEF WasTheirs, StorefrontInv, FirstHolderIsManufacturer, Product
  <2> HIDE DEF answer
  <2>6. /\ syncs'[s].read[id] = answer
        /\ \A i \in ProductId \ {id} : syncs'[s].read[i] = syncs[s].read[i]
    BY <2>1, <2>2 DEF SyncTask
  <2>7. AnswersAreTrue(s)'
    BY <1>1, <2>1, <2>2, <2>4, <2>5, <2>6 DEF AnswersAreTrue, IsTrue, WasTheirs
  <2> QED
    BY <1>1, <1>3, <1>4, <1>5, <1>8, <2>7 DEF SyncValue, HeldIsTrue, StorefrontTypeOK, page
<1>9. CASE SyncEnds(s)
  <2>1. AnswersAreTrue(s) /\ syncs[s].who \in Wallet
    BY <1>1, <1>9, SyncIsTask DEF SyncEnds
  <2>2. ASSUME NEW e \in locker' PROVE WasTheirs(e.id)' /\ IsTrue(e.id, e.flags)'
    <3>1. PICK i \in ProductId : /\ syncs[s].read[i] # NoProduct
                                 /\ syncs[s].read[i].owner = syncs[s].who
                                 /\ e.id = i /\ e.flags = syncs[s].read[i].flags
      BY <1>9, <2>2 DEF SyncEnds, VaultOf
    <3> QED
      BY <1>1, <2>1, <3>1 DEF AnswersAreTrue, IsTrue, WasTheirs
  <2>3. ShelfIsTrue'
    BY <1>1, <1>9, <2>1 DEF SyncEnds, ShelfIsTrue, AnswersAreTrue, IsTrue
  <2>4. ~RunningSync(s)'
    BY <1>1, <1>9 DEF SyncEnds, RunningSync, IsTask, StorefrontTypeOK
  <2> QED
    BY <1>1, <1>3, <1>4, <1>9, <2>2, <2>3, <2>4
       DEF SyncEnds, HeldIsTrue, VaultIsTrue, StorefrontTypeOK
<1>10. CASE SyncFails(s)
  <2>1. ~RunningSync(s)'
    BY <1>1, <1>10 DEF SyncFails, RunningSync, IsTask, StorefrontTypeOK
  <2> QED
    BY <1>1, <1>3, <1>4, <1>5, <1>10, <2>1 DEF SyncFails, HeldIsTrue, StorefrontTypeOK, page
<1> QED
  BY <1>6, <1>7, <1>8, <1>9, <1>10

LEMMA HandlersKeep ==
    ASSUME StorefrontInv, UNCHANGED vars, NEW c \in CallSlot,
           \/ \E kind \in Kind, id \in ProductId : Click(c, kind, id)
           \/ Succeeds(c)
           \/ Fails(c)
           \/ FailsFalsely(c)
    PROVE  HeldIsTrue'
<1>1. /\ Listed' = Listed /\ products' = products /\ StorefrontTypeOK
      /\ VaultIsTrue /\ ShelfIsTrue
      /\ \A s \in SyncSlot : RunningSync(s) => AnswersAreTrue(s)
      /\ \A d \in CallSlot : RunningCall(d) /\ calls[d].phase = "ok" => ResultIsTrue(d)
  BY DEF vars, storage, Listed, StorefrontInv, HeldIsTrue
<1>2. UNCHANGED syncs
  BY DEF Click, Succeeds, Fails, FailsFalsely
<1>3. \A s \in SyncSlot : RunningSync(s)' => AnswersAreTrue(s)'
  BY <1>1, <1>2 DEF RunningSync, IsTask, AnswersAreTrue, IsTrue, WasTheirs
<1>4. \A d \in CallSlot : RunningCall(d)' /\ calls'[d].phase = "ok" =>
          RunningCall(d) /\ calls[d].phase = "ok" /\ calls'[d] = calls[d]
  <2>1. CASE FailsFalsely(c)
    <3>1. /\ calls[c] \in CallTask
          /\ calls'[c] = Missed \/ calls'[c] = [calls[c] EXCEPT !.phase = "lost"]
          /\ \A d \in CallSlot \ {c} : calls'[d] = calls[d]
      BY <1>1, <2>1, CallIsTask DEF FailsFalsely, StorefrontTypeOK
    <3>2. ~RunningCall(c)'
      BY <3>1 DEF RunningCall, IsTask, CallTask
    <3> QED
      BY <3>1, <3>2 DEF RunningCall, IsTask
  <2>2. CASE ~FailsFalsely(c)
    BY <1>1, <2>2 DEF Click, Succeeds, Fails, RunningCall, IsTask, StorefrontTypeOK
  <2> QED
    BY <2>1, <2>2
<1>5. \A d \in CallSlot : RunningCall(d)' /\ calls'[d].phase = "ok" => ResultIsTrue(d)'
  BY <1>1, <1>4 DEF ResultIsTrue
<1>6. CASE UNCHANGED <<shelf, locker>>
  BY <1>1, <1>3, <1>5, <1>6 DEF HeldIsTrue, VaultIsTrue, ShelfIsTrue, IsTrue, WasTheirs
<1>7. CASE Succeeds(c)
  <2> DEFINE call == calls[c]
  <2>1. call \in CallTask /\ call.id \in ProductId /\ call.kind \in Kind /\ ResultIsTrue(c)
    BY <1>1, <1>7, CallIsTask DEF Succeeds
  <2>2. ASSUME NEW e \in locker' PROVE WasTheirs(e.id) /\ IsTrue(e.id, e.flags)
    <3>1. e \in VaultAfter(call)
      BY <1>7, <2>2 DEF Succeeds, VaultAfter
    <3>2. CASE e \in locker
      BY <1>1, <3>2 DEF VaultIsTrue
    <3>3. ASSUME NEW old \in locker \union Bought(call), old \in Entry, old.id = call.id,
                 e.id = call.id, e.flags = Outcome(call, old.flags)
          PROVE  WasTheirs(e.id) /\ IsTrue(e.id, e.flags)
      <4>1. WasTheirs(call.id)
        BY <1>1, <2>1, <3>3 DEF VaultIsTrue, WasTheirs, ResultIsTrue, Bought
      <4>2. old.flags.is_redeemed => products[call.id].is_redeemed
        BY <1>1, <3>3 DEF VaultIsTrue, IsTrue, Bought
      <4>3. /\ old.flags \in Flags
            /\ e.flags.is_redeemed => old.flags.is_redeemed \/ call.kind = "redeem"
        BY <2>1, <3>3, OutcomeType DEF Entry
      <4> QED
        BY <2>1, <3>3, <4>1, <4>2, <4>3 DEF IsTrue, ResultIsTrue
    <3> QED
      BY <1>1, <2>1, <3>1, <3>2, <3>3, VaultAfterType
  <2>3. VaultIsTrue'
    BY <1>1, <2>2 DEF VaultIsTrue, WasTheirs, IsTrue
  <2>4. ASSUME NEW id \in ProductId, shelf'[id] # NoProduct, shelf'[id].is_redeemed
        PROVE  id \in Listed /\ products[id].is_redeemed
    <3>1. CASE id # call.id \/ shelf[id] = NoProduct
      BY <1>1, <1>7, <2>1, <2>4, <3>1 DEF Succeeds, ShelfIsTrue, StorefrontTypeOK
    <3>2. CASE id = call.id /\ shelf[id] # NoProduct
      <4>1. shelf[id] \in Flags /\ shelf'[id] = Outcome(call, shelf[id])
        BY <1>1, <1>7, <3>2 DEF Succeeds, StorefrontTypeOK
      <4>2. shelf[id].is_redeemed \/ call.kind = "redeem"
        BY <2>1, <2>4, <4>1, OutcomeType
      <4> QED
        BY <1>1, <2>1, <3>2, <4>2 DEF ShelfIsTrue, ResultIsTrue
    <3> QED
      BY <3>1, <3>2
  <2> QED
    BY <1>1, <1>3, <1>5, <2>3, <2>4 DEF HeldIsTrue, ShelfIsTrue
<1> QED
  BY <1>6, <1>7 DEF Click, Fails, FailsFalsely

LEMMA StorefrontInvStep == StorefrontInv /\ [StorefrontNext]_svars => StorefrontInv'
<1> SUFFICES ASSUME StorefrontInv, [StorefrontNext]_svars PROVE StorefrontInv'
    OBVIOUS
<1>1. StorefrontTypeOK' /\ [Next]_vars
  BY StorefrontTypeStep, PageSteps DEF StorefrontInv
<1>2. LedgersAgree' /\ FirstHolderIsManufacturer'
  BY <1>1, FirstHolderKept
<1> SUFFICES HeldIsTrue'
  BY <1>1, <1>2 DEF StorefrontInv
<1>3. ASSUME NEW s \in SyncSlot,
             \/ \E who \in Wallet : handleConnectWallet(s, who)
             \/ SyncKeys(s)
             \/ \E id \in ProductId : SyncValue(s, id)
             \/ SyncEnds(s)
             \/ SyncFails(s)
      PROVE  HeldIsTrue'
  <2>1. UNCHANGED vars
    BY <1>3 DEF handleConnectWallet, SyncKeys, SyncValue, SyncEnds, SyncFails
  <2> QED
    BY <1>3, <2>1, SyncsKeep
<1>4. ASSUME NEW c \in CallSlot,
             \/ \E kind \in Kind, id \in ProductId : Click(c, kind, id)
             \/ Succeeds(c)
             \/ Fails(c)
             \/ FailsFalsely(c)
      PROVE  HeldIsTrue'
  <2>1. UNCHANGED vars
    BY <1>4 DEF Click, Succeeds, Fails, FailsFalsely
  <2> QED
    BY <1>4, <2>1, HandlersKeep
<1>5. ASSUME NEW c \in CallSlot, Executed(c) PROVE HeldIsTrue'
  <2>1. UNCHANGED <<shelf, locker, syncs>>
    BY <1>5 DEF Executed, page
  <2>2. \A d \in CallSlot \ {c} : calls'[d] = calls[d]
    BY <1>5 DEF Executed, StorefrontInv, StorefrontTypeOK
  <2>3. \A d \in CallSlot : RunningCall(d)' /\ calls'[d].phase = "ok" => ResultIsTrue(d)'
    BY <1>1, <1>5, <2>1, <2>2, HeldStaysTrue, ExecutedIsTrue DEF StorefrontInv, HeldIsTrue, RunningCall, IsTask
  <2> QED
    BY <1>1, <2>1, <2>3, HeldStaysTrue DEF HeldIsTrue
<1>6. CASE \/ Elsewhere \/ CloseModal \/ CloseDelivery \/ UNCHANGED svars
  <2>1. UNCHANGED <<shelf, locker, syncs, calls>>
    BY <1>6 DEF Elsewhere, CloseModal, CloseDelivery, svars, page
  <2>2. \A c \in CallSlot : RunningCall(c)' /\ calls'[c].phase = "ok" => ResultIsTrue(c)'
    BY <1>1, <2>1, HeldStaysTrue DEF StorefrontInv, HeldIsTrue, RunningCall, IsTask
  <2> QED
    BY <1>1, <2>1, <2>2, HeldStaysTrue DEF HeldIsTrue
<1> QED
  BY <1>3, <1>4, <1>5, <1>6 DEF StorefrontNext

LEMMA StorefrontCorrect == StorefrontSpec => []StorefrontInv
BY StorefrontInvInit, StorefrontInvStep, PTL DEF StorefrontSpec

\* What the page, its handlers and its syncs hold is well typed: a sync never reads a
\* product that is not there.
THEOREM StorefrontTypeCorrect == StorefrontSpec => []StorefrontTypeOK
BY StorefrontCorrect, PTL DEF StorefrontInv

\* What the page shows as redeemed is redeemed, in whatever order answers come.
THEOREM RedeemedIsShownTruly == StorefrontSpec => []RedeemedIsTrue
<1>1. StorefrontInv => RedeemedIsTrue
  BY DEF StorefrontInv, HeldIsTrue, VaultIsTrue, ShelfIsTrue, IsTrue, RedeemedIsTrue
<1> QED
  BY <1>1, StorefrontCorrect, PTL

\* Each entry of the vault was sold at least once, or was made by an account of this
\* wallet.
THEOREM VaultHoldsTheBought == StorefrontSpec => []VaultWasBought
<1>1. StorefrontInv => VaultWasBought
  BY DEF StorefrontInv, HeldIsTrue, VaultIsTrue, WasTheirs, VaultWasBought
<1> QED
  BY <1>1, StorefrontCorrect, PTL

LEMMA PendingStep ==
    StorefrontTypeOK /\ PendingHasHandler /\ [StorefrontNext]_svars => PendingHasHandler'
<1> SUFFICES ASSUME StorefrontTypeOK, PendingHasHandler, [StorefrontNext]_svars,
                    modal' = "pending"
             PROVE  \E c \in CallSlot : RunningCall(c)'
    BY DEF PendingHasHandler
<1>1. ASSUME NEW c \in CallSlot, NEW kind \in Kind, NEW id \in ProductId, Click(c, kind, id)
      PROVE  RunningCall(c)'
  <2>1. [kind |-> kind, who |-> account, id |-> id, phase |-> "sent"] \in CallTask
    BY <1>1 DEF Click, CallTask, StorefrontTypeOK
  <2> QED
    BY <1>1, <2>1, StorefrontAssumption DEF Click, RunningCall, IsTask, StorefrontTypeOK
<1>2. ASSUME NEW c \in CallSlot, Executed(c) PROVE \E d \in CallSlot : RunningCall(d)'
  <2>1. PICK d \in CallSlot : RunningCall(d)
    BY <1>2 DEF PendingHasHandler, Executed, page
  <2>2. CASE d = c
    BY <1>2, <2>1, <2>2, ExecutedTask
  <2>3. CASE d # c
    <3>1. calls'[d] = calls[d]
      BY <1>2, <2>3, ExecutedTask
    <3> QED
      BY <2>1, <3>1 DEF RunningCall, IsTask
  <2> QED
    BY <2>2, <2>3
<1>3. CASE UNCHANGED <<modal, calls>>
  BY <1>3 DEF PendingHasHandler, RunningCall, IsTask
<1> QED
  BY <1>1, <1>2, <1>3
     DEF StorefrontNext, svars, page, handleConnectWallet, SyncKeys, SyncValue, SyncEnds,
         SyncFails, Succeeds, Fails, FailsFalsely, CloseModal, CloseDelivery, Elsewhere

\* A pending modal has a running handler behind it: none returns and leaves it pending.
THEOREM PendingModalHasHandler == StorefrontSpec => []PendingHasHandler
<1>1. StorefrontInit => PendingHasHandler
  BY DEF StorefrontInit, PageInit, PendingHasHandler
<1> QED
  BY <1>1, PendingStep, StorefrontTypeCorrect, PTL DEF StorefrontSpec
-----------------------------------------------------------------------------
(* One step at a time. *)

LEMMA SequentialSteps == [OneStepAtATime]_svars => [StorefrontNext]_svars
BY DEF OneStepAtATime, StorefrontNext

\* One task runs at a time, for the account that is chosen, which stays.  A submission
\* that was given up was the same account's.
OneTask ==
    /\ \A c \in CallSlot : IsTask(calls[c]) =>
          /\ account # NoAccount /\ calls[c].who = account
          /\ \A s \in SyncSlot : ~RunningSync(s)
    /\ \A c, d \in CallSlot : RunningCall(c) /\ RunningCall(d) => d = c
    /\ \A s \in SyncSlot : RunningSync(s) =>
          /\ account # NoAccount /\ syncs[s].who = account
          /\ \A t \in SyncSlot : RunningSync(t) => t = s

\* What a sync has read so far is the chain as it is, and it still asks for the rest.
ReadIsFresh(s) ==
    /\ syncs[s].phase = "keys" => /\ syncs[s].todo = {}
                                  /\ \A id \in ProductId : syncs[s].read[id] = NoProduct
    /\ syncs[s].phase = "values" =>
          \A id \in Listed : id \in syncs[s].todo \/ syncs[s].read[id] # NoProduct
    /\ \A id \in ProductId : syncs[s].read[id] # NoProduct =>
          /\ id \in Listed
          /\ syncs[s].read[id].owner = products[id].owner
          /\ Fresh(id, syncs[s].read[id].flags)

PageIsFresh(vault, home) ==
    /\ \A e \in vault : Fresh(e.id, e.flags)
    /\ {e.id : e \in vault} = {id \in Listed : products[id].owner = account}
    /\ \A id \in Listed : Fresh(id, home[id])

HomeAfter(call) ==
    [shelf EXCEPT ![call.id] = IF @ = NoProduct THEN @ ELSE Outcome(call, @)]

Answered(c) == RunningCall(c) /\ calls[c].phase = "ok"

\* The page is fresh, or will be with the handler's own update.
WillBeFresh ==
    account # NoAccount /\ NothingMissed /\ (\A s \in SyncSlot : ~RunningSync(s)) =>
        \/ PageIsFresh(locker, shelf) /\ \A c \in CallSlot : ~Answered(c)
        \/ \E c \in CallSlot :
              /\ Answered(c)
              /\ PageIsFresh(VaultAfter(calls[c]), HomeAfter(calls[c]))

\* The form is open for the redemption that runs, or for one that was.
FormIsForRedemption ==
    /\ delivery => \A c \in CallSlot : RunningCall(c) => calls[c].kind = "redeem"
    /\ \A c \in CallSlot : Answered(c) => products[calls[c].id].owner = account
    /\ FormWithSuccessDelivers

TurnsTaken == /\ OneTask
              /\ \A s \in SyncSlot : RunningSync(s) => ReadIsFresh(s)
              /\ WillBeFresh
              /\ FormIsForRedemption

\* The inductive invariant of a session that takes one step at a time.
SequentialInv == StorefrontInv /\ TurnsTaken

LEMMA SequentialInit == StorefrontInit => SequentialInv
<1> SUFFICES ASSUME StorefrontInit PROVE SequentialInv
    OBVIOUS
<1>1. /\ \A s \in SyncSlot : ~RunningSync(s)
      /\ \A c \in CallSlot : ~RunningCall(c) /\ ~IsTask(calls[c])
  BY DEF StorefrontInit, PageInit, RunningSync, IsTask, RunningCall
<1> QED
  BY <1>1, StorefrontInvInit
     DEF StorefrontInit, PageInit, SequentialInv, TurnsTaken, OneTask, WillBeFresh,
         FormIsForRedemption, FormWithSuccessDelivers, Answered

\* What an extrinsic that was accepted does, as far as the page shows it: the flags of
\* its product change as its handler changes them on the page, and a buyer becomes the
\* owner.
LEMMA ExecutedShows ==
    ASSUME StorefrontInv, NEW call \in CallTask, Accepted(call), Extrinsic(call)
    PROVE  /\ Listed' = Listed /\ call.id \in Listed
           /\ \A i \in Listed \ {call.id} : products'[i] = products[i]
           /\ products'[call.id].owner = call.who
           /\ FlagsOf(products'[call.id]) = Outcome(call, FlagsOf(products[call.id]))
           /\ call.kind # "buy" => products[call.id].owner = call.who
           /\ call.kind = "buy" =>
                 /\ products[call.id].owner # call.who
                 /\ FlagsOf(products[call.id]) = [on_sale |-> TRUE, is_redeemed |-> FALSE]
<1> DEFINE id == call.id
           old == products[call.id]
           new == products'[call.id]
<1>1. /\ call.kind \in Kind /\ id \in ProductId /\ call.who \in Account
  BY StorefrontAssumption DEF CallTask, User
<1>2. id \in Listed /\ old \in Product /\ Agrees(id) /\ TypeOK
  BY <1>1, ListedIsProduct
     DEF Accepted, CanBuy, CanRedeem, CanToggle, Kind, StorefrontInv, LedgersAgree,
         RecordAgreesWithNft
<1>3. ASSUME NEW p \in Product, products' = [products EXCEPT ![id] = p]
      PROVE  /\ Listed' = Listed /\ new = p
             /\ \A i \in Listed \ {id} : products'[i] = products[i]
  BY MarketplaceAssumption, <1>1, <1>2, <1>3 DEF TypeOK, Listed
<1>4. CASE call.kind = "buy"
  <2> DEFINE p == Sold(old, call.who)
  <2>1. /\ products' = [products EXCEPT ![id] = p]
        /\ old.on_sale /\ old.owner # call.who /\ Exists(old.item)
    BY <1>4 DEF Extrinsic, buy_product, CanBuy, CanMove
  <2>2. p \in Product /\ p.owner = call.who /\ p.on_sale = FALSE
        /\ p.is_redeemed = old.is_redeemed
    BY <1>1, <1>2, SoldType
  <2>3. ~old.is_redeemed
    BY <1>2, <2>1 DEF Agrees
  <2> HIDE DEF p
  <2>4. FlagsOf(old) = [on_sale |-> TRUE, is_redeemed |-> FALSE]
    BY <1>2, <2>1, <2>3 DEF FlagsOf, Product
  <2>5. FlagsOf(p) = Outcome(call, FlagsOf(old))
    BY <1>2, <1>4, <2>2, <2>3, <2>4 DEF FlagsOf, Outcome
  <2> QED
    BY <1>2, <1>3, <1>4, <2>1, <2>2, <2>4, <2>5
<1>5. CASE call.kind \in {"list", "unlist"}
  <2> DEFINE p == [old EXCEPT !.on_sale = (call.kind = "list")]
  <2>1. products' = [products EXCEPT ![id] = p] /\ old.owner = call.who
    BY <1>5 DEF Extrinsic, toggle_sale, CanToggle
  <2>2. p \in Product /\ p.owner = call.who
    BY <1>2, <2>1 DEF Product
  <2>3. FlagsOf(p) = Outcome(call, FlagsOf(old))
    BY <1>2, <1>5 DEF FlagsOf, Outcome, Product
  <2> HIDE DEF p
  <2> QED
    BY <1>2, <1>3, <1>5, <2>1, <2>2, <2>3
<1>6. CASE call.kind = "redeem"
  <2> DEFINE p == Redeemed(old)
  <2>1. /\ products' = [products EXCEPT ![id] = p]
        /\ ~old.is_redeemed /\ OwnerIs(old.item, call.who)
    BY <1>6 DEF Extrinsic, redeem_product, CanRedeem
  <2>2. old.owner = call.who
    BY <1>2, <2>1 DEF Agrees, OwnerIs
  <2>3. p \in Product /\ p.owner = call.who
    BY <1>2, <2>2 DEF Product, Redeemed
  <2>4. FlagsOf(p) = Outcome(call, FlagsOf(old))
    BY <1>2, <1>6 DEF FlagsOf, Outcome, Product, Redeemed
  <2> HIDE DEF p
  <2> QED
    BY <1>2, <1>3, <1>6, <2>1, <2>2, <2>3, <2>4
<1> QED
  BY <1>1, <1>4, <1>5, <1>6 DEF Kind

LEMMA VaultIds ==
    ASSUME NEW who, NEW read
    PROVE  {e.id : e \in VaultOf(who, read)} =
               {i \in ProductId : read[i] # NoProduct /\ read[i].owner = who}
<1> DEFINE Entry1(i) == [id |-> i, flags |-> read[i].flags]
           Owned == {i \in ProductId : read[i] # NoProduct /\ read[i].owner = who}
<1>1. \A i : Entry1(i).id = i
  OBVIOUS
<1>2. VaultOf(who, read) = {Entry1(i) : i \in Owned}
  BY DEF VaultOf
<1> HIDE DEF Entry1
<1>3. {e.id : e \in {Entry1(i) : i \in Owned}} = Owned
  BY <1>1
<1> QED
  BY <1>2, <1>3

LEMMA SequentialSync ==
    ASSUME SequentialInv, UNCHANGED vars, NEW s \in SyncSlot,
           \/ account = NoAccount /\ \E who \in Wallet : handleConnectWallet(s, who)
           \/ SyncKeys(s)
           \/ \E id \in ProductId : SyncValue(s, id)
           \/ SyncEnds(s)
           \/ SyncFails(s)
    PROVE  TurnsTaken'
<1>1. /\ Listed' = Listed /\ products' = products /\ StorefrontTypeOK
      /\ OneTask /\ WillBeFresh /\ FormIsForRedemption
      /\ \A t \in SyncSlot : RunningSync(t) => ReadIsFresh(t)
  BY DEF vars, storage, Listed, SequentialInv, TurnsTaken, StorefrontInv
<1>2. UNCHANGED <<calls, modal, delivery>>
  BY DEF handleConnectWallet, SyncKeys, SyncValue, SyncEnds, SyncFails, page
<1>3. \A c \in CallSlot :
          /\ ~IsTask(calls[c]) /\ ~IsTask(calls'[c])
          /\ ~RunningCall(c) /\ ~RunningCall(c)'
  <2>1. account = NoAccount \/ RunningSync(s)
    BY DEF SyncKeys, SyncValue, SyncEnds, SyncFails
  <2> QED
    BY <1>1, <1>2, <2>1 DEF OneTask, RunningCall
<1>4. FormIsForRedemption' /\ \A c \in CallSlot : ~Answered(c)'
  BY <1>1, <1>2, <1>3
     DEF FormIsForRedemption, FormWithSuccessDelivers, Answered, handleConnectWallet,
         PageIsFree, SyncKeys, SyncValue, SyncEnds, SyncFails, page
<1>5. ASSUME RunningSync(s)', ReadIsFresh(s)', account' # NoAccount,
             syncs'[s].who = account', \A t \in SyncSlot \ {s} : ~RunningSync(t)'
      PROVE  TurnsTaken'
  BY <1>3, <1>4, <1>5 DEF TurnsTaken, OneTask, WillBeFresh
<1>6. CASE account = NoAccount /\ \E who \in Wallet : handleConnectWallet(s, who)
  <2>1. PICK who \in Wallet : handleConnectWallet(s, who)
    BY <1>6
  <2> DEFINE task == [who |-> who, phase |-> "keys", todo |-> {},
                      read |-> [id \in ProductId |-> NoProduct]]
  <2>2. task \in SyncTask /\ who # NoAccount
    BY StorefrontAssumption, AccountAssumption DEF SyncTask, User
  <2>3. syncs'[s] = task /\ \A t \in SyncSlot \ {s} : syncs'[t] = syncs[t]
    BY <1>1, <2>1 DEF handleConnectWallet, StorefrontTypeOK
  <2>4. RunningSync(s)' /\ \A t \in SyncSlot \ {s} : ~RunningSync(t)'
    BY <1>1, <1>6, <2>2, <2>3, StorefrontAssumption DEF RunningSync, IsTask, OneTask
  <2>5. ReadIsFresh(s)'
    BY <2>3 DEF ReadIsFresh
  <2> QED
    BY <1>5, <2>1, <2>2, <2>3, <2>4, <2>5 DEF handleConnectWallet
<1>7. ASSUME RunningSync(s), account' = account, syncs'[s] \in SyncTask,
             syncs'[s].who = syncs[s].who, syncs' = [syncs EXCEPT ![s] = syncs'[s]],
             ReadIsFresh(s)'
      PROVE  TurnsTaken'
  <2>1. RunningSync(s)' /\ syncs'[s].who = account /\ account # NoAccount
    BY <1>1, <1>7, StorefrontAssumption DEF RunningSync, IsTask, OneTask
  <2>2. \A t \in SyncSlot \ {s} : ~RunningSync(t)'
    BY <1>1, <1>7 DEF RunningSync, IsTask, OneTask, StorefrontTypeOK
  <2> QED
    BY <1>5, <1>7, <2>1, <2>2
<1>8. CASE SyncKeys(s)
  <2>1. RunningSync(s) /\ account' = account /\ ReadIsFresh(s)
    BY <1>1, <1>8 DEF SyncKeys, page
  <2>2. /\ syncs'[s] \in SyncTask /\ syncs'[s].who = syncs[s].who
        /\ syncs[s].phase = "keys" /\ syncs'[s].phase = "values"
        /\ syncs'[s].todo = Listed /\ syncs'[s].read = syncs[s].read
        /\ syncs' = [syncs EXCEPT ![s] = syncs'[s]]
    BY <1>1, <1>8, SyncKeysTask
  <2>3. ReadIsFresh(s)'
    BY <1>1, <2>1, <2>2 DEF ReadIsFresh
  <2> QED
    BY <1>7, <2>1, <2>2, <2>3
<1>9. ASSUME NEW id \in ProductId, SyncValue(s, id) PROVE TurnsTaken'
  <2>1. RunningSync(s) /\ account' = account /\ ReadIsFresh(s) /\ id \in syncs[s].todo
    BY <1>1, <1>9 DEF SyncValue, page
  <2>2. /\ id \in Listed
        /\ syncs'[s] \in SyncTask /\ syncs'[s].who = syncs[s].who
        /\ syncs'[s].phase = syncs[s].phase /\ syncs'[s].todo = syncs[s].todo \ {id}
        /\ syncs'[s].read[id] # NoProduct
        /\ syncs'[s].read[id].owner = products[id].owner
        /\ syncs'[s].read[id].flags = FlagsOf(products[id])
        /\ \A i \in ProductId \ {id} : syncs'[s].read[i] = syncs[s].read[i]
        /\ syncs' = [syncs EXCEPT ![s] = syncs'[s]]
    BY <1>1, <1>9, <2>1, SyncValueTask DEF SequentialInv, StorefrontInv, HeldIsTrue
  <2>3. ASSUME NEW i \in ProductId, syncs'[s].read[i] # NoProduct
        PROVE  /\ i \in Listed /\ syncs'[s].read[i].owner = products[i].owner
               /\ Fresh(i, syncs'[s].read[i].flags)
    BY <2>1, <2>2, <2>3 DEF ReadIsFresh, Fresh
  <2>4. ASSUME NEW i \in Listed, syncs[s].phase = "values"
        PROVE  i \in syncs'[s].todo \/ syncs'[s].read[i] # NoProduct
    BY <2>1, <2>2, <2>4 DEF ReadIsFresh, Listed
  <2>5. syncs'[s].phase # "keys"
    BY <2>1, <2>2 DEF ReadIsFresh
  <2>6. ReadIsFresh(s)'
    BY <1>1, <2>2, <2>3, <2>4, <2>5 DEF ReadIsFresh, Fresh
  <2> QED
    BY <1>7, <2>1, <2>2, <2>6
<1>10. CASE SyncEnds(s)
  <2>1. /\ ReadIsFresh(s) /\ syncs[s].who = account /\ syncs[s].todo = {}
        /\ syncs[s].phase = "values" /\ \A t \in SyncSlot \ {s} : ~RunningSync(t)
        /\ account' = account
    BY <1>1, <1>10 DEF SyncEnds, OneTask
  <2>2. \A t \in SyncSlot : ~RunningSync(t)'
    BY <1>1, <1>10, <2>1 DEF SyncEnds, RunningSync, IsTask, StorefrontTypeOK
  <2> DEFINE read == syncs[s].read
  <2>3. locker' = VaultOf(account, read)
        /\ \A id \in Listed : read[id] # NoProduct /\ shelf'[id] = read[id].flags
    BY <1>10, <2>1 DEF SyncEnds, ReadIsFresh, Listed
  <2>4. \A e \in locker' : Fresh(e.id, e.flags)
    BY <2>1, <2>3 DEF VaultOf, ReadIsFresh
  <2>5. {e.id : e \in locker'} = {id \in Listed : products[id].owner = account}
    <3>1. {e.id : e \in locker'} =
              {id \in ProductId : read[id] # NoProduct /\ read[id].owner = account}
      BY <2>3, VaultIds
    <3> QED
      BY <2>1, <2>3, <3>1 DEF ReadIsFresh, Listed
  <2>6. \A id \in Listed : Fresh(id, shelf'[id])
    BY <2>1, <2>3 DEF ReadIsFresh, Listed
  <2>7. PageIsFresh(locker, shelf)'
    BY <1>1, <2>1, <2>4, <2>5, <2>6 DEF PageIsFresh, Fresh
  <2> QED
    BY <1>3, <1>4, <2>2, <2>7 DEF TurnsTaken, OneTask, WillBeFresh
<1>11. CASE SyncFails(s)
  <2>1. /\ syncs' = [syncs EXCEPT ![s] = Missed] /\ account' = account
        /\ \A t \in SyncSlot \ {s} : ~RunningSync(t)
    BY <1>1, <1>11 DEF SyncFails, OneTask, page
  <2>2. syncs'[s] = Missed /\ \A t \in SyncSlot : ~RunningSync(t)'
    BY <1>1, <2>1 DEF StorefrontTypeOK, RunningSync, IsTask
  <2>3. ~NothingMissed'
    BY <2>2 DEF NothingMissed
  <2> QED
    BY <1>3, <1>4, <2>2, <2>3 DEF TurnsTaken, OneTask, WillBeFresh
<1> QED
  BY <1>6, <1>8, <1>9, <1>10, <1>11

LEMMA SequentialClick ==
    ASSUME SequentialInv, Idle, NEW c \in CallSlot, NEW kind \in Kind, NEW id \in ProductId,
           Click(c, kind, id)
    PROVE  TurnsTaken'
<1> DEFINE task == [kind |-> kind, who |-> account, id |-> id, phase |-> "sent"]
<1>1. /\ Listed' = Listed /\ products' = products /\ StorefrontTypeOK
      /\ OneTask /\ WillBeFresh /\ account # NoAccount /\ ~delivery /\ calls[c] = NoTask
      /\ UNCHANGED <<account, shelf, locker, syncs>>
  BY DEF vars, storage, Listed, SequentialInv, TurnsTaken, StorefrontInv, Click, PageIsFree
<1>2. task \in CallTask
  BY <1>1 DEF CallTask, StorefrontTypeOK
<1>3. calls'[c] = task /\ \A d \in CallSlot \ {c} : calls'[d] = calls[d]
  BY <1>1 DEF Click, StorefrontTypeOK
<1>4. /\ RunningCall(c)' /\ \A d \in CallSlot \ {c} : ~RunningCall(d)'
      /\ \A s \in SyncSlot : ~RunningSync(s) /\ ~RunningSync(s)'
      /\ \A d \in CallSlot : ~Answered(d) /\ ~Answered(d)'
  BY <1>1, <1>2, <1>3, StorefrontAssumption DEF Idle, RunningCall, IsTask, RunningSync, Answered
<1>5. NothingMissed' => NothingMissed
  BY <1>1, <1>3, StorefrontAssumption DEF NothingMissed, IsTask, RunningCall
<1>6. NothingMissed' => PageIsFresh(locker, shelf)'
  <2>1. NothingMissed' => PageIsFresh(locker, shelf)
    BY <1>1, <1>4, <1>5 DEF WillBeFresh
  <2> QED
    BY <1>1, <2>1 DEF PageIsFresh, Fresh
<1>7. OneTask'
  BY <1>1, <1>3, <1>4 DEF OneTask
<1>8. FormIsForRedemption'
  <2>1. modal' = "pending" /\ (delivery' => kind = "redeem")
    BY <1>1 DEF Click
  <2>2. ASSUME NEW d \in CallSlot, RunningCall(d)' PROVE calls'[d].kind = kind
    BY <1>3, <1>4, <2>2
  <2> QED
    BY <1>4, <2>1, <2>2 DEF FormIsForRedemption, FormWithSuccessDelivers
<1> QED
  BY <1>4, <1>6, <1>7, <1>8 DEF TurnsTaken, WillBeFresh

\* A redeemed product stays redeemed, and its owner's.
LEMMA DeliveryStays ==
    ASSUME StorefrontInv, [Next]_vars, FormWithSuccessDelivers,
           UNCHANGED <<modal, delivery, account>>
    PROVE  FormWithSuccessDelivers'
<1> SUFFICES ASSUME delivery, modal = "success" PROVE FormWithSuccessDelivers'
    BY DEF FormWithSuccessDelivers
<1>1. PICK id \in Listed : products[id].owner = account /\ products[id].is_redeemed
  BY DEF FormWithSuccessDelivers
<1>2. /\ id \in Listed' /\ products'[id].is_redeemed
      /\ products'[id].owner = products[id].owner
  BY <1>1, ChainGoesOn DEF StorefrontInv
<1> QED
  BY <1>1, <1>2 DEF FormWithSuccessDelivers

\* Once its extrinsic is executed, the handler's own update will be right.
LEMMA ExecutedWillBeFresh ==
    ASSUME StorefrontInv, NEW call \in CallTask, Accepted(call), Extrinsic(call),
           call.who = account, account' = account, PageIsFresh(locker, shelf)
    PROVE  /\ \A e \in VaultAfter(call) : e.flags = FlagsOf(products'[e.id])
           /\ {e.id : e \in VaultAfter(call)} = {i \in Listed' : products'[i].owner = account}
           /\ \A i \in Listed' : HomeAfter(call)[i] = FlagsOf(products'[i])
<1> DEFINE id == call.id
<1>1. /\ Listed' = Listed /\ id \in Listed
      /\ \A i \in Listed \ {id} : products'[i] = products[i]
      /\ products'[id].owner = call.who
      /\ FlagsOf(products'[id]) = Outcome(call, FlagsOf(products[id]))
      /\ call.kind # "buy" => products[id].owner = call.who
      /\ call.kind = "buy" =>
            /\ products[id].owner # call.who
            /\ FlagsOf(products[id]) = [on_sale |-> TRUE, is_redeemed |-> FALSE]
  BY ExecutedShows
<1>2. /\ \A e \in locker : Fresh(e.id, e.flags)
      /\ {e.id : e \in locker} = {i \in Listed : products[i].owner = account}
      /\ \A i \in Listed : Fresh(i, shelf[i])
  BY DEF PageIsFresh
<1>3. \A e \in locker \union Bought(call) : Fresh(e.id, e.flags)
  BY <1>1, <1>2 DEF Bought, Fresh
<1>4. ASSUME NEW e \in VaultAfter(call) PROVE e.flags = FlagsOf(products'[e.id])
  <2>1. CASE e \in locker /\ e.id # id
    <3>1. e.id \in Listed
      BY <1>2, <2>1
    <3> QED
      BY <1>1, <1>2, <2>1, <3>1 DEF Fresh
  <2>2. ASSUME NEW old \in locker \union Bought(call), old.id = id,
               e.id = id, e.flags = Outcome(call, old.flags)
        PROVE  e.flags = FlagsOf(products'[e.id])
    BY <1>1, <1>3, <2>2 DEF Fresh
  <2> QED
    BY <2>1, <2>2, VaultAfterType DEF StorefrontInv
<1>5. {e.id : e \in VaultAfter(call)} = {e.id : e \in locker \union Bought(call)}
  <2>1. ASSUME NEW e \in VaultAfter(call)
        PROVE  \E old \in locker \union Bought(call) : old.id = e.id
    BY VaultAfterType DEF StorefrontInv
  <2>2. ASSUME NEW old \in locker \union Bought(call)
        PROVE  \E e \in VaultAfter(call) : e.id = old.id
    <3>1. old \in Entry
      BY DEF StorefrontInv, StorefrontTypeOK, Bought, Entry, Flags, CallTask
    <3> DEFINE new == IF old.id = id THEN [old EXCEPT !.flags = Outcome(call, @)] ELSE old
    <3>2. new \in VaultAfter(call)
      BY DEF VaultAfter
    <3>3. new.id = old.id
      BY <3>1 DEF Entry
    <3> QED
      BY <3>2, <3>3
  <2> QED
    BY <2>1, <2>2
<1>6. {e.id : e \in locker \union Bought(call)} =
          {i \in Listed : products'[i].owner = account}
  <2>1. {e.id : e \in locker \union Bought(call)} =
            {e.id : e \in locker} \union (IF call.kind = "buy" THEN {id} ELSE {})
    <3>1. CASE call.kind = "buy"
      <4> DEFINE b == [id |-> id, flags |-> [on_sale |-> TRUE, is_redeemed |-> FALSE]]
      <4>1. Bought(call) = {b}
        BY <3>1 DEF Bought
      <4>2. b.id = id
        OBVIOUS
      <4> HIDE DEF b
      <4>3. \A i : i \in {e.id : e \in locker \union {b}} <=>
                      i \in {e.id : e \in locker} \/ i = id
        BY <4>2
      <4> HIDE DEF id
      <4> QED
        BY <3>1, <4>1, <4>3
    <3>2. CASE call.kind # "buy"
      <4>1. Bought(call) = {}
        BY <3>2 DEF Bought
      <4> QED
        BY <3>2, <4>1
    <3> QED
      BY <3>1, <3>2
  <2> QED
    BY <1>1, <1>2, <2>1
<1>7. ASSUME NEW i \in Listed PROVE HomeAfter(call)[i] = FlagsOf(products'[i])
  <2>1. /\ shelf[i] = FlagsOf(products[i]) /\ i \in ProductId
        /\ shelf \in [ProductId -> Flags \union {NoProduct}]
    BY <1>2 DEF Fresh, Listed, StorefrontInv, StorefrontTypeOK
  <2>2. CASE i # id
    BY <1>1, <2>1, <2>2 DEF HomeAfter
  <2>3. CASE i = id
    <3>1. FlagsOf(products[i]) \in Flags
      BY ListedIsProduct DEF StorefrontInv, LedgersAgree, Product, FlagsOf, Flags
    <3>2. shelf[i] # NoProduct
      BY <2>1, <3>1, StorefrontAssumption
    <3> QED
      BY <1>1, <2>1, <2>3, <3>2 DEF HomeAfter
  <2> QED
    BY <2>2, <2>3
<1> QED
  BY <1>1, <1>4, <1>5, <1>6, <1>7

LEMMA SequentialExecuted ==
    ASSUME SequentialInv, NEW c \in CallSlot, Executed(c)
    PROVE  TurnsTaken'
<1> DEFINE call == calls[c]
<1>1. /\ StorefrontInv /\ StorefrontTypeOK /\ IsTask(call)
      /\ OneTask /\ WillBeFresh /\ FormIsForRedemption
      /\ UNCHANGED <<account, shelf, locker, modal, delivery, syncs>>
  BY DEF SequentialInv, TurnsTaken, StorefrontInv, Executed, page
<1>2. /\ call \in CallTask /\ call.who = account /\ account # NoAccount
      /\ \A d \in CallSlot \ {c} : calls'[d] = calls[d]
      /\ \A s \in SyncSlot : ~RunningSync(s) /\ ~RunningSync(s)'
  BY <1>1, ExecutedTask DEF OneTask, RunningSync, IsTask
<1>3. \A d \in CallSlot \ {c} :
          /\ IsTask(calls'[d]) <=> IsTask(calls[d])
          /\ RunningCall(d)' <=> RunningCall(d)
          /\ Answered(d)' <=> Answered(d)
  <2> SUFFICES ASSUME NEW d \in CallSlot \ {c}
               PROVE  /\ IsTask(calls'[d]) <=> IsTask(calls[d])
                      /\ RunningCall(d)' <=> RunningCall(d)
                      /\ Answered(d)' <=> Answered(d)
    OBVIOUS
  <2>1. calls'[d] = calls[d]
    BY <1>2
  <2>2. RunningCall(d)' <=> RunningCall(d)
    BY <2>1 DEF IsTask, RunningCall
  <2> QED
    BY <2>1, <2>2 DEF Answered
<1>4. FormWithSuccessDelivers'
  BY <1>1, ExecutedSteps, DeliveryStays DEF FormIsForRedemption
<1>5. CASE call.phase = "lost"
  <2>1. /\ calls'[c] = Missed /\ ~IsTask(calls'[c])
        /\ ~RunningCall(c) /\ ~RunningCall(c)' /\ ~Answered(c)'
    BY <1>1, <1>5, ExecutedTask DEF IsTask, Answered
  <2>2. OneTask' /\ ~NothingMissed'
    BY <1>1, <1>2, <1>3, <2>1 DEF OneTask, NothingMissed
  <2>3. ASSUME NEW d \in CallSlot, Answered(d)'
        PROVE  products'[calls'[d].id].owner = account'
    <3>1. d # c /\ Answered(d) /\ calls'[d] = calls[d]
      BY <1>2, <1>3, <2>1, <2>3
    <3>2. /\ products[calls[d].id].owner = account
          /\ calls[d].id \in Listed
      BY <1>1, <3>1
         DEF FormIsForRedemption, StorefrontInv, HeldIsTrue, Answered, ResultIsTrue
    <3>3. CASE Accepted(call)
      <4>1. Extrinsic(call)
        BY <3>3 DEF Executed
      <4>2. /\ \A i \in Listed \ {call.id} : products'[i] = products[i]
            /\ products'[call.id].owner = call.who
        BY <1>1, <1>2, <3>3, <4>1, ExecutedShows
      <4> QED
        BY <1>1, <1>2, <3>1, <3>2, <4>2
    <3>4. CASE ~Accepted(call)
      BY <1>1, <3>1, <3>2, <3>4 DEF Executed, vars, storage
    <3> QED
      BY <3>3, <3>4
  <2>4. FormIsForRedemption'
    <3>1. ASSUME delivery', NEW d \in CallSlot, RunningCall(d)'
          PROVE  calls'[d].kind = "redeem"
      BY <1>1, <1>2, <1>3, <2>1, <3>1 DEF FormIsForRedemption
    <3> QED
      BY <1>4, <2>3, <3>1 DEF FormIsForRedemption
  <2> QED
    BY <1>2, <2>2, <2>4 DEF TurnsTaken, WillBeFresh
<1>6. CASE call.phase # "lost"
  <2>1. /\ RunningCall(c) /\ RunningCall(c)' /\ call.phase = "sent"
        /\ calls'[c] \in CallTask /\ IsTask(calls'[c]) /\ calls'[c].who = account
        /\ calls'[c].id = call.id /\ calls'[c].kind = call.kind
        /\ calls'[c].phase = IF Accepted(call) THEN "ok" ELSE "failed"
    BY <1>1, <1>2, <1>6, ExecutedTask DEF RunningCall
  <2>2. /\ \A d \in CallSlot \ {c} : ~RunningCall(d) /\ ~RunningCall(d)'
        /\ \A d \in CallSlot \ {c} : ~Answered(d) /\ ~Answered(d)'
        /\ ~Answered(c)
    BY <1>1, <1>3, <2>1 DEF OneTask, Answered
  <2>3. OneTask'
    BY <1>1, <1>2, <1>3, <2>1, <2>2 DEF OneTask
  <2>4. NothingMissed' => NothingMissed
    <3>1. calls[c] # Missed /\ (IsTask(calls[c]) => RunningCall(c))
      BY <1>1, <2>1 DEF IsTask
    <3> QED
      BY <1>1, <1>2, <1>3, <3>1 DEF NothingMissed
  <2>5. NothingMissed' => PageIsFresh(locker, shelf)
    BY <1>1, <1>2, <2>2, <2>4 DEF WillBeFresh
  <2>6. CASE Accepted(call)
    <3>1. Extrinsic(call)
      BY <2>6 DEF Executed
    <3>2. ASSUME PageIsFresh(locker, shelf)
          PROVE  /\ \A e \in VaultAfter(call) : e.flags = FlagsOf(products'[e.id])
                 /\ {e.id : e \in VaultAfter(call)} =
                        {i \in Listed' : products'[i].owner = account}
                 /\ \A i \in Listed' : HomeAfter(call)[i] = FlagsOf(products'[i])
      BY <1>1, <1>2, <2>6, <3>1, <3>2, ExecutedWillBeFresh
    <3>3. VaultAfter(calls[c])' = VaultAfter(call) /\ HomeAfter(calls[c])' = HomeAfter(call)
      BY <1>1, <2>1 DEF VaultAfter, HomeAfter, Bought, Outcome
    <3>4. Answered(c)'
      BY <2>1, <2>6 DEF Answered
    <3>5. NothingMissed' => PageIsFresh(VaultAfter(calls[c]), HomeAfter(calls[c]))'
      BY <1>1, <2>5, <3>2, <3>3 DEF PageIsFresh, Fresh
    <3>6. products'[call.id].owner = account
      BY <1>1, <1>2, <2>6, <3>1, ExecutedShows
    <3>7. FormIsForRedemption'
      BY <1>1, <1>4, <2>1, <2>2, <3>6 DEF FormIsForRedemption
    <3> QED
      BY <1>2, <2>3, <3>4, <3>5, <3>7 DEF TurnsTaken, WillBeFresh
  <2>7. CASE ~Accepted(call)
    <3>1. UNCHANGED vars /\ ~Answered(c)'
      BY <2>1, <2>7 DEF Executed, Answered
    <3>2. NothingMissed' => PageIsFresh(locker, shelf)'
      BY <1>1, <2>5, <3>1 DEF PageIsFresh, Fresh, Listed, vars, storage
    <3>3. FormIsForRedemption'
      BY <1>1, <1>4, <2>1, <2>2, <3>1 DEF FormIsForRedemption
    <3> QED
      BY <1>2, <2>2, <2>3, <3>1, <3>2, <3>3 DEF TurnsTaken, WillBeFresh
  <2> QED
    BY <2>6, <2>7
<1> QED
  BY <1>5, <1>6

LEMMA SequentialReturns ==
    ASSUME SequentialInv, NEW c \in CallSlot, Succeeds(c) \/ Fails(c) \/ FailsFalsely(c)
    PROVE  TurnsTaken'
<1> DEFINE call == calls[c]
<1>1. /\ StorefrontTypeOK /\ RunningCall(c) /\ IsTask(call)
      /\ OneTask /\ WillBeFresh /\ FormIsForRedemption
      /\ UNCHANGED <<account, delivery, syncs>>
      /\ Listed' = Listed /\ products' = products
  BY DEF SequentialInv, TurnsTaken, StorefrontInv, Succeeds, Fails, FailsFalsely, vars,
         storage, Listed, RunningCall
<1>2. /\ call \in CallTask /\ call.who = account /\ account # NoAccount
      /\ \A d \in CallSlot \ {c} : ~RunningCall(d) /\ calls'[d] = calls[d]
      /\ \A s \in SyncSlot : ~RunningSync(s) /\ ~RunningSync(s)'
  BY <1>1, CallIsTask
     DEF OneTask, RunningSync, IsTask, Succeeds, Fails, FailsFalsely, StorefrontTypeOK
<1>3. CASE Succeeds(c) \/ Fails(c)
  <2>1. calls'[c] = Returned /\ ~IsTask(calls'[c])
    BY <1>1, <1>3 DEF Succeeds, Fails, StorefrontTypeOK, IsTask
  <2>2. \A d \in CallSlot : ~RunningCall(d)' /\ ~Answered(d)'
    BY <1>2, <2>1 DEF RunningCall, Answered
  <2>3. OneTask'
    BY <1>1, <1>2, <2>1, <2>2 DEF OneTask
  <2>4. NothingMissed' => NothingMissed
    BY <1>1, <1>2 DEF NothingMissed, RunningCall, IsTask
  <2>5. CASE Succeeds(c)
    <3>1. NothingMissed' => PageIsFresh(VaultAfter(call), HomeAfter(call))
      BY <1>1, <1>2, <2>4, <2>5 DEF WillBeFresh, Answered, Succeeds
    <3>2. locker' = VaultAfter(call) /\ shelf' = HomeAfter(call)
      BY <2>5 DEF Succeeds, VaultAfter, HomeAfter
    <3>3. NothingMissed' => PageIsFresh(locker, shelf)'
      BY <1>1, <3>1, <3>2 DEF PageIsFresh, Fresh
    <3>4. ASSUME delivery
          PROVE  \E id \in Listed : products[id].owner = account /\ products[id].is_redeemed
      <4>1. call.kind = "redeem" /\ products[call.id].owner = account /\ ResultIsTrue(c)
        BY <1>1, <2>5, <3>4
           DEF FormIsForRedemption, Answered, Succeeds, SequentialInv, StorefrontInv, HeldIsTrue
      <4> QED
        BY <4>1 DEF ResultIsTrue
    <3>5. FormIsForRedemption'
      BY <1>1, <2>2, <3>4 DEF FormIsForRedemption, FormWithSuccessDelivers
    <3> QED
      BY <1>2, <2>2, <2>3, <3>3, <3>5 DEF TurnsTaken, WillBeFresh
  <2>6. CASE Fails(c)
    <3>1. UNCHANGED <<locker, shelf>> /\ modal' = "error" /\ ~Answered(c)
      BY <2>6 DEF Fails, Answered
    <3>2. NothingMissed' => PageIsFresh(locker, shelf)
      BY <1>1, <1>2, <2>4, <3>1 DEF WillBeFresh, Answered
    <3>3. NothingMissed' => PageIsFresh(locker, shelf)'
      BY <1>1, <3>1, <3>2 DEF PageIsFresh, Fresh
    <3>4. FormIsForRedemption'
      BY <2>2, <3>1 DEF FormIsForRedemption, FormWithSuccessDelivers
    <3> QED
      BY <1>2, <2>2, <2>3, <3>3, <3>4 DEF TurnsTaken, WillBeFresh
  <2> QED
    BY <1>3, <2>5, <2>6
<1>4. CASE FailsFalsely(c)
  <2>1. /\ calls'[c] = Missed \/ calls'[c] = [call EXCEPT !.phase = "lost"]
        /\ modal' = "error"
    BY <1>1, <1>4 DEF FailsFalsely, StorefrontTypeOK
  <2>2. /\ ~RunningCall(c)'
        /\ IsTask(calls'[c]) => calls'[c].who = account
        /\ calls'[c] = Missed \/ IsTask(calls'[c])
    <3>1. CASE calls'[c] = Missed
      BY <3>1 DEF RunningCall, IsTask
    <3>2. CASE calls'[c] = [call EXCEPT !.phase = "lost"]
      <4>1. /\ calls'[c] \in CallTask /\ calls'[c].phase = "lost"
            /\ calls'[c].who = account
        BY <1>2, <3>2 DEF CallTask
      <4> QED
        BY <4>1, StorefrontAssumption DEF RunningCall, IsTask
    <3> QED
      BY <2>1, <3>1, <3>2
  <2>3. \A d \in CallSlot : ~RunningCall(d)' /\ ~Answered(d)'
    BY <1>2, <2>2 DEF RunningCall, Answered
  <2>4. OneTask'
    BY <1>1, <1>2, <2>2, <2>3 DEF OneTask
  <2>5. ~NothingMissed'
    BY <2>2 DEF NothingMissed
  <2>6. FormIsForRedemption'
    BY <2>1, <2>3 DEF FormIsForRedemption, FormWithSuccessDelivers
  <2> QED
    BY <1>2, <2>4, <2>5, <2>6 DEF TurnsTaken, WillBeFresh
<1> QED
  BY <1>3, <1>4

LEMMA SequentialElsewhere ==
    ASSUME SequentialInv, Elsewhere, account = NoAccount
    PROVE  TurnsTaken'
<1>1. UNCHANGED <<account, modal, delivery, calls, syncs>> /\ [Next]_vars
  BY DEF Elsewhere, page, Next
<1>2. /\ \A c \in CallSlot :
            ~RunningCall(c) /\ ~RunningCall(c)' /\ ~IsTask(calls'[c])
      /\ \A s \in SyncSlot : ~RunningSync(s) /\ ~RunningSync(s)'
  BY <1>1 DEF SequentialInv, TurnsTaken, OneTask, RunningCall, IsTask, RunningSync
<1>3. FormWithSuccessDelivers'
  BY <1>1, DeliveryStays DEF SequentialInv, TurnsTaken, FormIsForRedemption
<1> QED
  BY <1>1, <1>2, <1>3 DEF TurnsTaken, OneTask, WillBeFresh, FormIsForRedemption, Answered

LEMMA SequentialRest ==
    ASSUME SequentialInv, CloseModal \/ CloseDelivery \/ UNCHANGED svars
    PROVE  TurnsTaken'
<1>1. /\ UNCHANGED <<account, shelf, locker, calls, syncs>>
      /\ Listed' = Listed /\ products' = products
      /\ delivery' => delivery
      /\ modal' = "success" => modal = "success"
  BY DEF CloseModal, CloseDelivery, svars, page, vars, storage, Listed
<1>2. /\ OneTask /\ WillBeFresh /\ FormIsForRedemption
      /\ \A s \in SyncSlot : RunningSync(s) => ReadIsFresh(s)
  BY DEF SequentialInv, TurnsTaken
<1>3. OneTask' /\ \A s \in SyncSlot : RunningSync(s)' => ReadIsFresh(s)'
  BY <1>1, <1>2 DEF OneTask, RunningCall, IsTask, RunningSync, ReadIsFresh, Fresh
<1>4. FormIsForRedemption'
  BY <1>1, <1>2 DEF FormIsForRedemption, FormWithSuccessDelivers, RunningCall, IsTask, Answered
<1>5. WillBeFresh'
  <2>1. PageIsFresh(locker, shelf)' <=> PageIsFresh(locker, shelf)
    BY <1>1 DEF PageIsFresh, Fresh
  <2>2. ASSUME NEW c \in CallSlot
        PROVE  /\ Answered(c)' <=> Answered(c)
               /\ PageIsFresh(VaultAfter(calls[c]), HomeAfter(calls[c]))' <=>
                      PageIsFresh(VaultAfter(calls[c]), HomeAfter(calls[c]))
    <3>1. /\ VaultAfter(calls[c])' = VaultAfter(calls[c])
          /\ HomeAfter(calls[c])' = HomeAfter(calls[c])
      BY <1>1 DEF VaultAfter, HomeAfter, Bought, Outcome
    <3>2. Answered(c)' <=> Answered(c)
      BY <1>1 DEF Answered, RunningCall, IsTask
    <3> QED
      BY <1>1, <3>1, <3>2 DEF PageIsFresh, Fresh
  <2>3. \A s \in SyncSlot : RunningSync(s)' <=> RunningSync(s)
    BY <1>1 DEF RunningSync, IsTask
  <2>4. NothingMissed' <=> NothingMissed
    BY <1>1 DEF NothingMissed, RunningCall, IsTask
  <2> QED
    BY <1>1, <1>2, <2>1, <2>2, <2>3, <2>4 DEF WillBeFresh
<1> QED
  BY <1>3, <1>4, <1>5 DEF TurnsTaken

LEMMA SequentialStep == SequentialInv /\ [OneStepAtATime]_svars => SequentialInv'
<1> SUFFICES ASSUME SequentialInv, [OneStepAtATime]_svars PROVE SequentialInv'
    OBVIOUS
<1>1. StorefrontInv'
  BY SequentialSteps, StorefrontInvStep DEF SequentialInv
<1>2. ASSUME NEW s \in SyncSlot,
             \/ account = NoAccount /\ \E who \in Wallet : handleConnectWallet(s, who)
             \/ SyncKeys(s)
             \/ \E id \in ProductId : SyncValue(s, id)
             \/ SyncEnds(s)
             \/ SyncFails(s)
      PROVE  TurnsTaken'
  <2>1. UNCHANGED vars
    BY <1>2 DEF handleConnectWallet, SyncKeys, SyncValue, SyncEnds, SyncFails
  <2> QED
    BY <1>2, <2>1, SequentialSync
<1>3. TurnsTaken'
  BY <1>2, SequentialClick, SequentialExecuted, SequentialReturns, SequentialElsewhere,
     SequentialRest DEF OneStepAtATime
<1> QED
  BY <1>1, <1>3 DEF SequentialInv

LEMMA SequentialCorrect == SequentialSpec => []SequentialInv
BY SequentialInit, SequentialStep, PTL DEF SequentialSpec

\* Used one step at a time, the page needs no second sync: whenever nothing runs and
\* nothing was missed, the vault and Home show what is on chain.
THEOREM IdlePageIsFresh == SequentialSpec => []IdleIsFresh
<1>1. SequentialInv => IdleIsFresh
  BY DEF SequentialInv, TurnsTaken, WillBeFresh, Answered, Idle, PageIsFresh, IdleIsFresh
<1> QED
  BY <1>1, SequentialCorrect, PTL

\* Used one step at a time, success beside the open delivery form means that there is
\* a product to deliver.
THEOREM FormDelivers == SequentialSpec => []FormWithSuccessDelivers
<1>1. SequentialInv => FormWithSuccessDelivers
  BY DEF SequentialInv, TurnsTaken, FormIsForRedemption
<1> QED
  BY <1>1, SequentialCorrect, PTL
=============================================================================
