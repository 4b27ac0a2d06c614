--------------------------- MODULE DetailsProofs ----------------------------
(***************************************************************************)
(* The connection and the details view, for any number of callers, clicks  *)
(* and products: what a caller is handed, and what the view shows whatever *)
(* the order in which connections come up and answers arrive.              *)
(***************************************************************************)
EXTENDS Details, TLAPS

\* The inductive invariant of the connection.  A caller returns the shared variable
\* and not what it opened itself, so what it is handed is created because the
\* variable only ever holds a connection that is, and holds one as soon as any is.
ConnectionInv == /\ ConnectionTypeOK
                 /\ HandedIsCreated
                 /\ api # NoApi => api \in created
                 /\ created # {} => api # NoApi

\* The inductive invariant of the view.  An answer is shown whoever asked for it, so
\* what is shown was asked for because, without an overlap, no other request runs.
ViewInv == /\ DetailsTypeOK
           /\ NeverBlank
           /\ ShowsWhatWasAsked
           /\ ~overlapped => \A r \in Request : Running(r) => requests[r].id = asked

DetailsInv == ConnectionInv /\ ViewInv

\* What a call of connectApi or a socket does to the connection.
Connects == \E c \in Caller : ConnectionStep(c) \/ Lost(c) \/ Reconnected(c)

LEMMA ConnectionInvStep ==
    ASSUME ConnectionInv, Connects \/ UNCHANGED connection
    PROVE  ConnectionInv'
<1> USE ConnectionAssumption DEF ConnectionInv, ConnectionTypeOK, HandedIsCreated
<1>1. ASSUME NEW c \in Caller, connectApi(c) PROVE ConnectionInv'
  BY <1>1 DEF connectApi, Reuses, OpenedBy
<1>2. ASSUME NEW c \in Caller, Created(c) PROVE ConnectionInv'
  BY <1>2 DEF Created
<1>3. ASSUME NEW c \in Caller, Returns(c) PROVE ConnectionInv'
  BY <1>3 DEF Returns
<1>4. ASSUME NEW c \in Caller, Lost(c) \/ Reconnected(c) PROVE ConnectionInv'
  BY <1>4 DEF Lost, Reconnected
<1>5. CASE UNCHANGED connection
  BY <1>5 DEF connection
<1> QED
  BY <1>1, <1>2, <1>3, <1>4, <1>5 DEF Connects, ConnectionStep

\* What a step of the page does to the connection.
LEMMA DetailsConnects ==
    ASSUME [DetailsNext]_dvars
    PROVE  Connects \/ UNCHANGED connection
BY DetailsAssumption DEF DetailsNext, Effect, handleDetails, Connecting, Queries, Answered,
                         onClose, SocketCloses, SocketReopens, Connects, dvars

LEMMA DetailsInitial == DetailsInit => DetailsInv
<1> SUFFICES ASSUME DetailsInit PROVE DetailsInv
    OBVIOUS
<1>1. ConnectionInv
  BY ConnectionAssumption DEF DetailsInit, ConnectionInit, ConnectionInv, ConnectionTypeOK,
                              HandedIsCreated
<1>2. ViewInv
  BY <1>1 DEF DetailsInit, ViewInv, DetailsTypeOK, NeverBlank, ShowsWhatWasAsked, Running,
              ConnectionInv
<1> QED
  BY <1>1, <1>2 DEF DetailsInv

LEMMA ViewInvStep ==
    ASSUME ViewInv, ConnectionTypeOK', [DetailsNext]_dvars
    PROVE  ViewInv'
<1> USE DEF ViewInv, DetailsTypeOK
<1>1. CASE UNCHANGED <<view, requests>>
  BY <1>1 DEF view, NeverBlank, ShowsWhatWasAsked, Running
<1>2. ASSUME NEW r \in Request, NEW id \in ProductId, handleDetails(r, id)
      PROVE  ViewInv'
  <2>1. DetailsTypeOK' /\ loading'
    BY <1>2 DEF handleDetails, LoadingAfterClick, Task
  <2>2. ASSUME ~overlapped', NEW q \in Request, Running(q)'
        PROVE  requests'[q].id = asked'
    BY <1>2, <2>2 DEF handleDetails, Running
  <2> QED
    BY <2>1, <2>2 DEF NeverBlank, ShowsWhatWasAsked
<1>3. ASSUME NEW r \in Request, Queries(r)
      PROVE  ViewInv'
  <2>1. requests[r] \in Task /\ Running(r)
    BY <1>3 DEF Queries, Running
  <2>2. /\ requests'[r] \in Task /\ requests'[r].id = requests[r].id
        /\ \A q \in Request \ {r} : requests'[q] = requests[q]
        /\ UNCHANGED view
    BY <1>3, <2>1 DEF Queries, Task
  <2>3. DetailsTypeOK'
    BY <1>3, <2>2 DEF Queries, view
  <2> QED
    BY <2>1, <2>2, <2>3 DEF view, NeverBlank, ShowsWhatWasAsked, Running
<1>4. ASSUME NEW r \in Request, Answered(r)
      PROVE  ViewInv'
  <2>1. requests[r] \in Task /\ Running(r)
    BY <1>4 DEF Answered, Running
  <2>2. PICK kind \in {"found", "notFound", "error"} :
            selected' = [id |-> requests[r].id, kind |-> kind]
    BY <1>4 DEF Answered, Shown
  <2>3. selected' \in Answer /\ selected'.id = requests[r].id
    BY <2>1, <2>2 DEF Answer, Task
  <2>4. DetailsTypeOK'
    BY <1>4, <2>3 DEF Answered, LoadingAfterAnswer
  <2>5. ASSUME NEW q \in Request, Running(q)'
        PROVE  Running(q) /\ requests'[q] = requests[q]
    BY <1>4, <2>5 DEF Answered, Running
  <2>6. selected' # Nothing /\ UNCHANGED <<show, asked, overlapped>>
    BY <1>4, <2>3, DetailsAssumption DEF Answered
  <2> QED
    BY <2>1, <2>3, <2>4, <2>5, <2>6 DEF NeverBlank, ShowsWhatWasAsked
<1>5. CASE onClose
  BY <1>5 DEF onClose, NeverBlank, ShowsWhatWasAsked, Running
<1>6. CASE SocketCloses
  <2>1. UNCHANGED view /\ DOMAIN requests' = Request
    BY <1>6 DEF SocketCloses
  <2>2. ASSUME NEW r \in Request, Querying(r)
        PROVE  /\ requests'[r] \in Task /\ requests'[r].id = requests[r].id
               /\ Running(r)
    BY <1>6, <2>2 DEF SocketCloses, Querying, Running, Task
  <2>3. \A r \in Request : ~Querying(r) => requests'[r] = requests[r]
    BY <1>6 DEF SocketCloses
  <2>4. requests' \in [Request -> Task \union {NoTask, Returned}]
    <3>1. \A r \in Request : requests'[r] \in Task \union {NoTask, Returned}
      BY <2>2, <2>3
    <3> QED
      BY <1>6, <3>1 DEF SocketCloses
  <2>5. DetailsTypeOK'
    BY <2>1, <2>4 DEF view
  <2>6. \A r \in Request : Running(r)' => Running(r) /\ requests'[r].id = requests[r].id
    BY <2>2, <2>3 DEF Running
  <2> QED
    BY <2>1, <2>5, <2>6 DEF view, NeverBlank, ShowsWhatWasAsked
<1> QED
  BY <1>1, <1>2, <1>3, <1>4, <1>5, <1>6
     DEF DetailsNext, Effect, Connecting, SocketReopens, dvars

LEMMA DetailsInvStep == DetailsInv /\ [DetailsNext]_dvars => DetailsInv'
<1> SUFFICES ASSUME DetailsInv, [DetailsNext]_dvars PROVE DetailsInv'
    OBVIOUS
<1>1. ConnectionInv'
  BY DetailsConnects, ConnectionInvStep DEF DetailsInv
<1>2. ViewInv'
  BY <1>1, ViewInvStep DEF DetailsInv, ConnectionInv
<1> QED
  BY <1>1, <1>2 DEF DetailsInv

LEMMA DetailsCorrect == DetailsSpec => []DetailsInv
BY DetailsInitial, DetailsInvStep, PTL DEF DetailsSpec

\* The view and the connection stay well typed.
THEOREM DetailsTypeCorrect == DetailsSpec => []DetailsTypeOK
<1>1. DetailsInv => DetailsTypeOK
  BY DEF DetailsInv, ViewInv
<1> QED
  BY <1>1, DetailsCorrect, PTL

\* However many callers of connectApi race, each is handed a connection whose create
\* has resolved, although each returns the shared variable.
THEOREM RacersGetAConnection == DetailsSpec => []HandedIsCreated
<1>1. DetailsInv => HandedIsCreated
  BY DEF DetailsInv, ConnectionInv
<1> QED
  BY <1>1, DetailsCorrect, PTL

\* Once a connection is there and nobody is still opening one, it is the connection
\* for good: no later call and no loss of its socket replaces it.
THEOREM OneConnectionRemains == DetailsSpec => ConnectionSettles
<1>1. ASSUME NEW c \in Caller
      PROVE  DetailsSpec => [](api = c /\ opening = {} => [](api = c))
  <2> DEFINE Settled == api = c /\ opening = {}
  <2>1. Settled /\ [DetailsNext]_dvars => Settled'
    <3> SUFFICES ASSUME Settled, [DetailsNext]_dvars PROVE Settled'
        OBVIOUS
    <3>1. ASSUME NEW d \in Caller, ConnectionStep(d) PROVE Settled'
      BY <3>1, ConnectionAssumption
         DEF ConnectionStep, connectApi, Created, Returns, Reuses
    <3>2. ASSUME NEW d \in Caller, Lost(d) \/ Reconnected(d) PROVE Settled'
      BY <3>2 DEF Lost, Reconnected
    <3>3. CASE UNCHANGED connection
      BY <3>3 DEF connection
    <3> QED
      BY <3>1, <3>2, <3>3, DetailsConnects DEF Connects
  <2>2. Settled => api = c
    OBVIOUS
  <2> HIDE DEF Settled
  <2>3. DetailsSpec => [](Settled => [](api = c))
    BY <2>1, <2>2, PTL DEF DetailsSpec
  <2> QED
    BY <2>3, PTL DEF Settled
<1> QED
  BY <1>1 DEF ConnectionSettles

\* The open view has something to show as soon as it is not loading, in whatever
\* order clicks, closes and late answers come.
THEOREM ViewIsNeverBlank == DetailsSpec => []NeverBlank
<1>1. DetailsInv => NeverBlank
  BY DEF DetailsInv, ViewInv
<1> QED
  BY <1>1, DetailsCorrect, PTL

\* Without a request that was still running at the click, the view shows the product
\* that was asked for.
THEOREM ViewShowsTheAsked == DetailsSpec => []ShowsWhatWasAsked
<1>1. DetailsInv => ShowsWhatWasAsked
  BY DEF DetailsInv, ViewInv
<1> QED
  BY <1>1, DetailsCorrect, PTL
=============================================================================
