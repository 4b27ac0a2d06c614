----------------------------- MODULE TxTracker ------------------------------
(***************************************************************************)
(* One submission of the store front, from the click to the answer: what   *)
(* polkadotApi.ts makes of the status notifications that the node sends    *)
(* for an extrinsic.  buyProduct, toggleSale, redeemProduct and the test   *)
(* account's branch of handleBuy share the handler modelled here.          *)
(*                                                                         *)
(* The node is external.  Its pool puts the extrinsic into a block of one  *)
(* fork, where it succeeds or fails, takes it back when the fork is        *)
(* abandoned, and tells the client each time; Aura authors blocks and      *)
(* GRANDPA finalizes them later, so what was executed is not yet final.    *)
(***************************************************************************)
EXTENDS Naturals, Sequences

CONSTANT MaxRetractions  \* how often the extrinsic may lose its block

ASSUME TrackerAssumption == MaxRetractions \in Nat

VARIABLES place,        \* where the extrinsic is
          result,       \* what became of it in the block it is in
          reply,        \* the node's answer to the request to submit and watch
          watched,      \* the node still sends notifications
          inbox,        \* those the page has not handled yet
          promise,      \* what the caller awaits
          retractions   \* blocks lost so far

chain == <<place, result, retractions>>
tracker == <<chain, reply, watched, inbox, promise>>

\* Discarded stands for the statuses Dropped, Invalid and Usurped.
Status == {"InBlock", "Retracted", "Finalized", "FinalityTimeout", "Discarded"}

\* dispatchError is there when the block holds the extrinsic and it failed.
Notification == [status : Status, dispatchError : BOOLEAN]

TrackerTypeOK ==
    /\ place \in {"signing", "pool", "block", "final", "gone"}
    /\ result \in {"none", "ok", "error"}
    /\ reply \in {"none", "due", "received", "lost"}
    /\ watched \in BOOLEAN
    /\ inbox \in Seq(Notification)
    /\ promise \in {"pending", "resolved", "rejected"}
    /\ retractions \in 0 .. MaxRetractions

TrackerInit == /\ place = "signing"
               /\ result = "none"
               /\ reply = "none"
               /\ watched = FALSE
               /\ inbox = << >>
               /\ promise = "pending"
               /\ retractions = 0
-----------------------------------------------------------------------------
(* The node. *)

Notify(status, failed) ==
    inbox' = IF watched
             THEN Append(inbox, [status |-> status, dispatchError |-> failed])
             ELSE inbox

\* The pool takes the extrinsic; the page does not know it before the reply.
Submitted == /\ place = "signing" /\ promise = "pending"
             /\ place' = "pool"
             /\ reply' = "due"
             /\ watched' = TRUE
             /\ UNCHANGED <<result, retractions, inbox, promise>>

Included == /\ place = "pool"
            /\ place' = "block"
            /\ result' \in {"ok", "error"}
            /\ Notify("InBlock", result' = "error")
            /\ UNCHANGED <<retractions, reply, watched, promise>>

Retracted == /\ place = "block" /\ retractions < MaxRetractions
             /\ place' = "pool"
             /\ result' = "none"
             /\ retractions' = retractions + 1
             /\ Notify("Retracted", FALSE)
             /\ UNCHANGED <<reply, watched, promise>>

Finalized == /\ place = "block"
             /\ place' = "final"
             /\ Notify("Finalized", result = "error")
             /\ UNCHANGED <<result, retractions, reply, watched, promise>>

\* The pool forgets the extrinsic: it is full, another one with the same nonce
\* came first, or it is no longer valid.
Discarded == /\ place = "pool"
             /\ place' = "gone"
             /\ Notify("Discarded", FALSE)
             /\ watched' = FALSE
             /\ UNCHANGED <<result, retractions, reply, promise>>

\* Finality lags too far behind: the pool stops watching, the chain goes on.
FinalityTimeout == /\ place = "block" /\ watched
                   /\ Notify("FinalityTimeout", FALSE)
                   /\ watched' = FALSE
                   /\ UNCHANGED <<chain, reply, promise>>

\* The web socket closes.  A request without a reply ends with an error, so the
\* page gives up what the node may have in its pool (.catch(reject)); an accepted
\* subscription just falls silent.
Disconnected == /\ reply = "due" \/ watched
                /\ watched' = FALSE
                /\ inbox' = << >>
                /\ IF reply = "due"
                   THEN reply' = "lost" /\ promise' = "rejected"
                   ELSE UNCHANGED <<reply, promise>>
                /\ UNCHANGED chain
-----------------------------------------------------------------------------
(* The page. *)

\* The user declines to sign, the node refuses the extrinsic, or the socket closes
\* before the node has read it: .catch(reject).
Refused == /\ place = "signing" /\ promise = "pending"
           /\ promise' = "rejected"
           /\ place' = "gone"
           /\ UNCHANGED <<result, retractions, reply, watched, inbox>>

\* The reply comes before every notification; from here on, they are heard.
Replied == /\ reply = "due"
           /\ reply' = "received"
           /\ UNCHANGED <<chain, watched, inbox, promise>>

\* Operators named MUT_ are faulty forms of the definition that follows them, put in
\* its place to show that a property notices.  Nothing else refers to them.
MUT_AnswerStatus(note) ==
    IF note.dispatchError THEN "rejected" ELSE note.status

MUT_AnswerInBlock(note) ==
    IF note.dispatchError THEN "rejected"
    ELSE IF note.status \in {"InBlock", "Finalized"} THEN "resolved"
    ELSE "pending"

MUT_AnswerOnTimeout(note) ==
    IF note.dispatchError \/ note.status = "FinalityTimeout" THEN "rejected"
    ELSE IF note.status = "Finalized" THEN "resolved"
    ELSE "pending"

MUT_AnswerErrorLogged(note) ==
    IF note.status = "Finalized" /\ ~note.dispatchError THEN "resolved" ELSE "pending"

\* The handler: an error is looked for first, in whatever status; every status
\* but Finalized is otherwise passed over.
Answer(note) == IF note.dispatchError THEN "rejected"
                ELSE IF note.status = "Finalized" THEN "resolved"
                ELSE "pending"

\* A promise settles once; later calls of resolve and reject do nothing.
Handle == /\ reply = "received" /\ inbox # << >>
          /\ inbox' = Tail(inbox)
          /\ promise' = IF promise = "pending" THEN Answer(Head(inbox)) ELSE promise
          /\ UNCHANGED <<chain, reply, watched>>

TrackerNext == \/ Submitted \/ Included \/ Retracted \/ Finalized
               \/ Discarded \/ FinalityTimeout \/ Disconnected
               \/ Refused \/ Replied \/ Handle

\* What the node has sent arrives unless the socket closes, and the page's event
\* loop handles it; the node owes nothing more.
TrackerSpec == /\ TrackerInit /\ [][TrackerNext]_tracker
               /\ WF_tracker(Replied) /\ WF_tracker(Handle)
-----------------------------------------------------------------------------
AppliedForGood == place = "final" /\ result = "ok"

\* "Purchase successful!" is never said of a purchase that a fork can still take
\* back, or that failed: success waits for finality and for no error.
ResolvedIsApplied == promise = "resolved" => AppliedForGood

\* An error means that it did not happen and that trying again is safe, as long as
\* no fork took the extrinsic's block away and no socket closed between the node's
\* taking the extrinsic and the page's receiving the reply.
ErrorIsTrueWithoutLoss ==
    retractions = 0 /\ reply # "lost" /\ promise = "rejected" => ~AppliedForGood

\* Who waits for an extrinsic that becomes final gets an answer, in every order of
\* blocks, retractions and late handling, unless the node stopped telling.
FinalityIsTold == (place = "final" /\ watched) ~> (promise # "pending" \/ ~watched)

\* The message of an error is "Transaction failed. Please try again."  (A rejection
\* without a reply is left aside: that one told nothing of the chain.)
ErrorIsTrue == promise = "rejected" /\ reply # "lost" => ~AppliedForGood
=============================================================================
