------------------------------ MODULE Details -------------------------------
(***************************************************************************)
(* The details view of Home: a request for one product's record, through   *)
(* connectApi and a query, and a modal that shows what comes back.  The    *)
(* page's own effects call connectApi too.  Closing the modal cancels      *)
(* nothing, so an answer may come when the view is closed, or open for     *)
(* another product.  Leaving Home for another route is not modelled.       *)
(***************************************************************************)
EXTENDS ApiConnection

CONSTANTS Request,    \* the clicks on Details in a session, each a Caller
          ProductId,
          NoTask, Returned,  \* a request not made yet; one whose handler returned
          Nothing     \* selectedProduct = null


VARIABLES show,      \* showProductDetail
          loading,   \* loadingDetails
          selected,  \* selectedProduct
          requests,  \* the running handleDetails
          asked,     \* history: the product of the last click
          overlapped \* history: the last click came while a request was running

view == <<show, loading, selected, asked, overlapped>>
dvars == <<connection, view, requests>>

\* The kind of object that selectedProduct is set to, and which product it is about.
Answer == [id : ProductId, kind : {"found", "notFound", "error"}]

\* "rejected" is a query that the library ended because the socket closed.
Task == [id : ProductId, phase : {"connecting", "querying", "rejected"}]

ASSUME DetailsAssumption ==
    /\ Request \subseteq Caller
    /\ {NoTask, Returned} \intersect Task = {} /\ NoTask # Returned
    /\ Nothing \notin Answer

DetailsTypeOK == /\ ConnectionTypeOK
                 /\ show \in BOOLEAN
                 /\ loading \in BOOLEAN
                 /\ selected \in Answer \union {Nothing}
                 /\ requests \in [Request -> Task \union {NoTask, Returned}]
                 /\ asked \in ProductId
                 /\ overlapped \in BOOLEAN

Running(r) == requests[r] \notin {NoTask, Returned}

DetailsInit == /\ ConnectionInit
               /\ show = FALSE
               /\ loading = FALSE
               /\ selected = Nothing
               /\ requests = [r \in Request |-> NoTask]
               /\ asked \in ProductId
               /\ overlapped = FALSE
-----------------------------------------------------------------------------
\* The effects of Home and App call connectApi once each and use no result.
Effect == /\ \E c \in Caller \ Request : ConnectionStep(c)
          /\ UNCHANGED <<view, requests>>

MUT_LoadingAfterClick == loading

\* setLoadingDetails(true), on every click.
LoadingAfterClick == TRUE

\* A click on Details; the modal covers the page while it is shown.
handleDetails(r, id) ==
    /\ requests[r] = NoTask
    /\ ~show
    /\ show' = TRUE
    /\ loading' = LoadingAfterClick
    /\ requests' = [requests EXCEPT ![r] = [id |-> id, phase |-> "connecting"]]
    /\ asked' = id
    /\ overlapped' = \E q \in Request : Running(q)
    /\ UNCHANGED <<connection, selected>>

\* getProduct's await connectApi().
Connecting(r) == /\ Running(r) /\ requests[r].phase = "connecting"
                 /\ ConnectionStep(r)
                 /\ UNCHANGED <<view, requests>>

Queries(r) == /\ Running(r) /\ requests[r].phase = "connecting"
              /\ got[r] # NoApi
              /\ requests' = [requests EXCEPT ![r].phase =
                                 IF got[r] \in up THEN "querying" ELSE "rejected"]
              /\ UNCHANGED <<connection, view>>

Querying(r) == Running(r) /\ requests[r].phase = "querying"

\* Without a socket the library rejects at once what is sent or waits on it.
SocketCloses == \E c \in Caller :
    /\ Lost(c)
    /\ requests' = [r \in Request |-> IF Querying(r) /\ got[r] = c
                                     THEN [requests[r] EXCEPT !.phase = "rejected"]
                                     ELSE requests[r]]
    /\ UNCHANGED view

SocketReopens == /\ \E c \in Caller : Reconnected(c)
                 /\ UNCHANGED <<view, requests>>

MUT_Shown(id, kind) == IF kind = "found" THEN [id |-> id, kind |-> kind] ELSE selected

MUT_ShownRaw(id, kind) == [kind |-> kind]

\* setSelectedProduct, in the try block or in the catch block.
Shown(id, kind) == [id |-> id, kind |-> kind]

MUT_LoadingAfterAnswer(kind) == loading /\ kind # "found"

\* finally: setLoadingDetails(false), whatever came.
LoadingAfterAnswer(kind) == FALSE

\* The record, null, or an error; an error if the socket closed.
Answered(r) == /\ Running(r) /\ requests[r].phase # "connecting"
               /\ \E kind \in {"found", "notFound", "error"} :
                      /\ Querying(r) \/ kind = "error"
                      /\ selected' = Shown(requests[r].id, kind)
                      /\ loading' = LoadingAfterAnswer(kind)
               /\ requests' = [requests EXCEPT ![r] = Returned]
               /\ UNCHANGED <<connection, show, asked, overlapped>>

onClose == /\ show
           /\ show' = FALSE
           /\ selected' = Nothing
           /\ UNCHANGED <<connection, loading, requests, asked, overlapped>>

DetailsNext == \/ Effect
               \/ \E r \in Request : \/ \E id \in ProductId : handleDetails(r, id)
                                     \/ Connecting(r)
                                     \/ Queries(r)
                                     \/ Answered(r)
               \/ onClose
               \/ SocketCloses
               \/ SocketReopens

DetailsSpec == /\ DetailsInit
               /\ [][DetailsNext]_dvars
               /\ \A r \in Request : /\ WF_dvars(Connecting(r))
                                     /\ WF_dvars(Queries(r))
                                     /\ WF_dvars(Answered(r))
-----------------------------------------------------------------------------
\* The view is never blank: when it is open and not loading it has a record, a "not
\* found" or an error to show, even when a late answer stopped the loading or an
\* earlier close cleared what there was.
NeverBlank == show /\ ~loading => selected # Nothing

\* If no earlier request was still running at the click, what is shown is what was
\* asked for.  If one was, its late answer may be shown instead.
ShowsWhatWasAsked ==
    ~overlapped /\ show /\ ~loading /\ selected # Nothing => selected.id = asked

\* With a node that answers, the view does not load for ever: every open view gets
\* its answer or is closed, whichever of the racing connections is used and whenever
\* its socket closes.
LoadingEnds == (show /\ loading) ~> (~show \/ ~loading)
=============================================================================
