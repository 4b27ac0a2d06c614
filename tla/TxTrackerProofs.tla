-------------------------- MODULE TxTrackerProofs ---------------------------
(***************************************************************************)
(* What the page may conclude from an answer, for any number of abandoned  *)
(* blocks and however many notifications are waiting to be handled.        *)
(***************************************************************************)
EXTENDS TxTracker, TLAPS

\* The notification says that the extrinsic became final without an error.
TellsSuccess(note) == note.status = "Finalized" /\ ~note.dispatchError

\* The inductive invariant.  That a resolved promise means an applied extrinsic is
\* not inductive alone: the promise resolves from a notification that was sent
\* earlier, so those that wait must be true too, and stay true because a final
\* block is never left.
NewsIsTrue == /\ TrackerTypeOK
              /\ ResolvedIsApplied
              /\ place = "block" => result # "none"
              /\ \A i \in 1 .. Len(inbox) :
                     TellsSuccess(inbox[i]) => AppliedForGood

\* A notification that is true when it is sent joins the ones that wait.
LEMMA NotifyKeeps ==
    ASSUME inbox \in Seq(Notification), NEW s \in Status, NEW failed \in BOOLEAN,
           Notify(s, failed),
           \A i \in 1 .. Len(inbox) : ~TellsSuccess(inbox[i]) \/ AppliedForGood',
           s = "Finalized" /\ ~failed => AppliedForGood'
    PROVE  /\ inbox' \in Seq(Notification)
           /\ \A i \in 1 .. Len(inbox') : TellsSuccess(inbox'[i]) => AppliedForGood'
<1> DEFINE note == [status |-> s, dispatchError |-> failed]
<1>1. note \in Notification /\ (TellsSuccess(note) => AppliedForGood')
  BY DEF Notification, TellsSuccess
<1>2. CASE ~watched
  BY <1>2 DEF Notify
<1>3. CASE watched
  <2>1. inbox' = Append(inbox, note)
    BY <1>3 DEF Notify
  <2> HIDE DEF note
  <2>2. /\ inbox' \in Seq(Notification)
        /\ Len(inbox') = Len(inbox) + 1
        /\ \A i \in 1 .. Len(inbox) : inbox'[i] = inbox[i]
        /\ inbox'[Len(inbox) + 1] = note
    BY <1>1, <2>1
  <2>3. ASSUME NEW i \in 1 .. Len(inbox'), TellsSuccess(inbox'[i])
        PROVE  AppliedForGood'
    <3>1. i \in 1 .. Len(inbox) \/ i = Len(inbox) + 1
      BY <2>2
    <3> QED
      BY <1>1, <2>2, <2>3, <3>1
  <2> QED
    BY <2>2, <2>3
<1> QED
  BY <1>2, <1>3

LEMMA NoNews == << >> \in Seq(Notification) /\ Len(<< >>) = 0
OBVIOUS

LEMMA NewsInit == TrackerInit => NewsIsTrue
<1> SUFFICES ASSUME TrackerInit PROVE NewsIsTrue
    OBVIOUS
<1>1. inbox \in Seq(Notification) /\ \A i \in 1 .. Len(inbox) : FALSE
  <2>1. inbox \in Seq(Notification) /\ Len(inbox) = 0
    BY NoNews DEF TrackerInit
  <2> QED
    BY <2>1
<1>2. retractions \in 0 .. MaxRetractions
  BY TrackerAssumption DEF TrackerInit
<1> QED
  BY <1>1, <1>2 DEF TrackerInit, NewsIsTrue, TrackerTypeOK, ResolvedIsApplied

LEMMA NewsStep == NewsIsTrue /\ [TrackerNext]_tracker => NewsIsTrue'
<1> SUFFICES ASSUME NewsIsTrue, [TrackerNext]_tracker PROVE NewsIsTrue'
    OBVIOUS
<1> USE DEF NewsIsTrue, TrackerTypeOK, ResolvedIsApplied
<1>1. CASE Submitted
  BY <1>1 DEF Submitted, AppliedForGood
<1>2. CASE Included
  <2>1. \A i \in 1 .. Len(inbox) : ~TellsSuccess(inbox[i]) \/ AppliedForGood'
    BY <1>2 DEF Included, AppliedForGood
  <2>2. Notify("InBlock", result' = "error")
    BY <1>2 DEF Included
  <2>3. /\ inbox' \in Seq(Notification)
        /\ \A i \in 1 .. Len(inbox') : TellsSuccess(inbox'[i]) => AppliedForGood'
    BY <2>1, <2>2, NotifyKeeps DEF Status
  <2> QED
    BY <1>2, <2>3 DEF Included, AppliedForGood
<1>3. CASE Retracted
  <2>1. \A i \in 1 .. Len(inbox) : ~TellsSuccess(inbox[i]) \/ AppliedForGood'
    BY <1>3 DEF Retracted, AppliedForGood
  <2>2. Notify("Retracted", FALSE)
    BY <1>3 DEF Retracted
  <2>3. /\ inbox' \in Seq(Notification)
        /\ \A i \in 1 .. Len(inbox') : TellsSuccess(inbox'[i]) => AppliedForGood'
    BY <2>1, <2>2, NotifyKeeps DEF Status
  <2>4. retractions' \in 0 .. MaxRetractions
    BY <1>3, TrackerAssumption DEF Retracted
  <2> QED
    BY <1>3, <2>3, <2>4 DEF Retracted, AppliedForGood
<1>4. CASE Finalized
  <2>1. \A i \in 1 .. Len(inbox) : ~TellsSuccess(inbox[i]) \/ AppliedForGood'
    BY <1>4 DEF Finalized, AppliedForGood
  <2>2. Notify("Finalized", result = "error")
    BY <1>4 DEF Finalized
  <2>3. result # "error" => AppliedForGood'
    BY <1>4 DEF Finalized, AppliedForGood
  <2>4. /\ inbox' \in Seq(Notification)
        /\ \A i \in 1 .. Len(inbox') : TellsSuccess(inbox'[i]) => AppliedForGood'
    BY <2>1, <2>2, <2>3, NotifyKeeps DEF Status
  <2> QED
    BY <1>4, <2>4 DEF Finalized, AppliedForGood
<1>5. CASE Discarded
  <2>1. \A i \in 1 .. Len(inbox) : ~TellsSuccess(inbox[i]) \/ AppliedForGood'
    BY <1>5 DEF Discarded, AppliedForGood
  <2>2. Notify("Discarded", FALSE)
    BY <1>5 DEF Discarded
  <2>3. /\ inbox' \in Seq(Notification)
        /\ \A i \in 1 .. Len(inbox') : TellsSuccess(inbox'[i]) => AppliedForGood'
    BY <2>1, <2>2, NotifyKeeps DEF Status
  <2> QED
    BY <1>5, <2>3 DEF Discarded, AppliedForGood
<1>6. CASE FinalityTimeout
  <2>1. UNCHANGED <<place, result, retractions, promise>>
    BY <1>6 DEF FinalityTimeout, chain
  <2>2. \A i \in 1 .. Len(inbox) : ~TellsSuccess(inbox[i]) \/ AppliedForGood'
    BY <2>1 DEF AppliedForGood
  <2>3. Notify("FinalityTimeout", FALSE)
    BY <1>6 DEF FinalityTimeout
  <2>4. /\ inbox' \in Seq(Notification)
        /\ \A i \in 1 .. Len(inbox') : TellsSuccess(inbox'[i]) => AppliedForGood'
    BY <2>2, <2>3, NotifyKeeps DEF Status
  <2> QED
    BY <1>6, <2>1, <2>4 DEF FinalityTimeout, AppliedForGood
<1>7. CASE Disconnected
  <2>1. inbox' \in Seq(Notification) /\ Len(inbox') = 0
    BY <1>7, NoNews DEF Disconnected
  <2>2. \A i \in 1 .. Len(inbox') : FALSE
    BY <2>1
  <2> QED
    BY <1>7, <2>1, <2>2 DEF Disconnected, chain, AppliedForGood
<1>8. CASE Refused
  BY <1>8 DEF Refused, AppliedForGood
<1>9. CASE Handle
  <2>1. UNCHANGED <<place, result, retractions, reply, watched>> /\ inbox # << >>
    BY <1>9 DEF Handle, chain
  <2>2. /\ inbox' = Tail(inbox) /\ Head(inbox) = inbox[1]
        /\ Len(inbox) \in Nat /\ Len(inbox) > 0
        /\ Head(inbox) \in Notification
    BY <1>9, <2>1 DEF Handle
  <2>3. /\ inbox' \in Seq(Notification) /\ Len(inbox') = Len(inbox) - 1
        /\ \A i \in 1 .. Len(inbox') : inbox'[i] = inbox[i + 1]
    BY <2>1, <2>2
  <2>4. \A i \in 1 .. Len(inbox') : TellsSuccess(inbox'[i]) => AppliedForGood'
    BY <2>1, <2>2, <2>3 DEF AppliedForGood
  <2>5. promise' \in {"pending", "resolved", "rejected"}
    BY <1>9 DEF Handle, Answer
  <2>6. promise' = "resolved" => promise = "resolved" \/ TellsSuccess(Head(inbox))
    BY <1>9 DEF Handle, Answer, TellsSuccess
  <2>7. promise' = "resolved" => AppliedForGood'
    BY <2>1, <2>2, <2>6 DEF AppliedForGood
  <2> QED
    BY <2>1, <2>3, <2>4, <2>5, <2>7
<1>10. CASE Replied
  BY <1>10 DEF Replied, chain, AppliedForGood
<1>11. CASE UNCHANGED tracker
  BY <1>11 DEF tracker, chain, AppliedForGood
<1> QED
  BY <1>1, <1>2, <1>3, <1>4, <1>5, <1>6, <1>7, <1>8, <1>9, <1>10, <1>11
     DEF TrackerNext

LEMMA NewsAlways == TrackerSpec => []NewsIsTrue
BY NewsInit, NewsStep, PTL DEF TrackerSpec

\* A submission's state stays well typed, for every number of abandoned blocks.
THEOREM TrackerTypeCorrect == TrackerSpec => []TrackerTypeOK
<1>1. NewsIsTrue => TrackerTypeOK
  BY DEF NewsIsTrue
<1> QED
  BY <1>1, NewsAlways, PTL

\* Success is told only of an extrinsic that is final and did not fail: what the
\* page says of a purchase that went well can never be taken back.
THEOREM SuccessIsFinal == TrackerSpec => []ResolvedIsApplied
<1>1. NewsIsTrue => ResolvedIsApplied
  BY DEF NewsIsTrue
<1> QED
  BY <1>1, NewsAlways, PTL
-----------------------------------------------------------------------------
(* What an error means as long as neither a block nor a reply has been lost. *)

\* The extrinsic failed or was given up.
DidNotHappen == result = "error" \/ place = "gone"

\* The inductive invariant, beside NewsIsTrue.  An error is told from a notification
\* sent earlier, so those that wait must be true as well.  Without a retraction they
\* stay true: the block that the extrinsic failed in is the only one it had.
ErrorsAreTrue ==
    /\ place \in {"signing", "pool"} => result = "none"
    /\ retractions = 0 =>
           /\ promise = "rejected" => reply = "lost" \/ DidNotHappen
           /\ \A i \in 1 .. Len(inbox) : inbox[i].dispatchError => DidNotHappen

\* What waits after a notification is what waited before, and the notification.
LEMMA NotifyAdds ==
    ASSUME inbox \in Seq(Notification), NEW s \in Status, NEW failed \in BOOLEAN,
           Notify(s, failed)
    PROVE  \A i \in 1 .. Len(inbox') :
               \/ inbox'[i].dispatchError = failed
               \/ \E j \in 1 .. Len(inbox) : inbox'[i] = inbox[j]
<1> DEFINE note == [status |-> s, dispatchError |-> failed]
<1>1. note \in Notification /\ note.dispatchError = failed
  BY DEF Notification
<1>2. CASE ~watched
  BY <1>2 DEF Notify
<1>3. CASE watched
  <2>1. inbox' = Append(inbox, note)
    BY <1>3 DEF Notify
  <2> HIDE DEF note
  <2>2. /\ Len(inbox) \in Nat /\ Len(inbox') = Len(inbox) + 1
        /\ \A i \in 1 .. Len(inbox) : inbox'[i] = inbox[i]
        /\ inbox'[Len(inbox) + 1] = note
    BY <1>1, <2>1
  <2>3. ASSUME NEW i \in 1 .. Len(inbox')
        PROVE  i \in 1 .. Len(inbox) \/ i = Len(inbox) + 1
    BY <2>2
  <2> QED
    BY <1>1, <2>2, <2>3
<1> QED
  BY <1>2, <1>3

\* A notification of no failure keeps the errors that wait true, as long as what
\* did not happen stays so.
LEMMA ErrorsStayTrue ==
    ASSUME NewsIsTrue, ErrorsAreTrue, NEW s \in Status, NEW failed \in BOOLEAN,
           Notify(s, failed), UNCHANGED <<retractions, promise, reply>>,
           failed => DidNotHappen', DidNotHappen => DidNotHappen',
           place' \in {"signing", "pool"} => result' = "none"
    PROVE  ErrorsAreTrue'
<1>1. inbox \in Seq(Notification)
  BY DEF NewsIsTrue, TrackerTypeOK
<1>2. ASSUME retractions' = 0, NEW i \in 1 .. Len(inbox'), inbox'[i].dispatchError
      PROVE  DidNotHappen'
  BY <1>1, <1>2, NotifyAdds DEF ErrorsAreTrue
<1> QED
  BY <1>2 DEF ErrorsAreTrue

LEMMA ErrorsInit == TrackerInit => ErrorsAreTrue
<1> SUFFICES ASSUME TrackerInit PROVE ErrorsAreTrue
    OBVIOUS
<1>1. Len(inbox) = 0
  BY NoNews DEF TrackerInit
<1> QED
  BY <1>1 DEF TrackerInit, ErrorsAreTrue

LEMMA ErrorsStep ==
    NewsIsTrue /\ ErrorsAreTrue /\ [TrackerNext]_tracker => ErrorsAreTrue'
<1> SUFFICES ASSUME NewsIsTrue, ErrorsAreTrue, [TrackerNext]_tracker
             PROVE  ErrorsAreTrue'
    OBVIOUS
<1>1. /\ inbox \in Seq(Notification)
      /\ retractions \in 0 .. MaxRetractions
  BY DEF NewsIsTrue, TrackerTypeOK
<1>2. CASE Submitted
  BY <1>2 DEF Submitted, ErrorsAreTrue, DidNotHappen
<1>3. CASE Included
  BY <1>3, ErrorsStayTrue DEF Included, Status, ErrorsAreTrue, DidNotHappen
<1>4. CASE Retracted
  <2>1. retractions' # 0 /\ result' = "none"
    BY <1>1, <1>4, TrackerAssumption DEF Retracted
  <2> QED
    BY <2>1 DEF ErrorsAreTrue
<1>5. CASE Finalized
  <2>1. Notify("Finalized", result = "error") /\ UNCHANGED <<retractions, promise, reply>>
    BY <1>5 DEF Finalized
  <2>2. place' = "final" /\ (DidNotHappen => DidNotHappen')
        /\ (result = "error" => DidNotHappen')
    BY <1>5 DEF Finalized, DidNotHappen
  <2> QED
    BY <2>1, <2>2, ErrorsStayTrue DEF Status
<1>6. CASE Discarded
  BY <1>6, ErrorsStayTrue DEF Discarded, Status, DidNotHappen
<1>7. CASE FinalityTimeout
  BY <1>7, ErrorsStayTrue DEF FinalityTimeout, chain, Status, ErrorsAreTrue, DidNotHappen
<1>8. CASE Disconnected
  <2>1. /\ Len(inbox') = 0 /\ UNCHANGED <<place, result, retractions>>
        /\ UNCHANGED <<promise, reply>> \/ reply' = "lost"
    BY <1>8, NoNews DEF Disconnected, chain
  <2> QED
    BY <2>1 DEF ErrorsAreTrue, DidNotHappen
<1>9. CASE Refused
  BY <1>9 DEF Refused, ErrorsAreTrue, DidNotHappen
<1>10. CASE Handle
  <2>1. UNCHANGED <<place, result, retractions, reply>> /\ inbox # << >>
    BY <1>10 DEF Handle, chain
  <2>2. /\ inbox' = Tail(inbox) /\ Head(inbox) = inbox[1]
        /\ Len(inbox) \in Nat /\ Len(inbox) > 0
    BY <1>1, <1>10, <2>1 DEF Handle
  <2>3. /\ Len(inbox') = Len(inbox) - 1
        /\ \A i \in 1 .. Len(inbox') : inbox'[i] = inbox[i + 1]
    BY <1>1, <2>1, <2>2
  <2>4. promise' = "rejected" => promise = "rejected" \/ Head(inbox).dispatchError
    BY <1>10 DEF Handle, Answer
  <2>5. ASSUME retractions = 0, NEW i \in 1 .. Len(inbox'), inbox'[i].dispatchError
        PROVE  DidNotHappen
    BY <2>2, <2>3, <2>5 DEF ErrorsAreTrue
  <2>6. ASSUME retractions = 0, promise' = "rejected"
        PROVE  reply = "lost" \/ DidNotHappen
    BY <2>2, <2>4, <2>6 DEF ErrorsAreTrue
  <2> QED
    BY <2>1, <2>5, <2>6 DEF ErrorsAreTrue, DidNotHappen
<1>11. CASE Replied
  BY <1>11 DEF Replied, chain, ErrorsAreTrue, DidNotHappen
<1>12. CASE UNCHANGED tracker
  BY <1>12 DEF tracker, chain, ErrorsAreTrue, DidNotHappen
<1> QED
  BY <1>2, <1>3, <1>4, <1>5, <1>6, <1>7, <1>8, <1>9, <1>10, <1>11, <1>12
     DEF TrackerNext

\* As long as no block was abandoned and no socket closed between the node's taking
\* the extrinsic and the page's receiving the reply, an error means that the
\* extrinsic was not applied: trying again is safe.
THEOREM ErrorIsSafeToRetry == TrackerSpec => []ErrorIsTrueWithoutLoss
<1>1. ErrorsAreTrue => ErrorIsTrueWithoutLoss
  BY DEF ErrorsAreTrue, ErrorIsTrueWithoutLoss, AppliedForGood, DidNotHappen
<1>2. TrackerSpec => []ErrorsAreTrue
  BY NewsAlways, ErrorsInit, ErrorsStep, PTL DEF TrackerSpec
<1> QED
  BY <1>1, <1>2, PTL
=============================================================================
