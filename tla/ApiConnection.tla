--------------------------- MODULE ApiConnection ----------------------------
(***************************************************************************)
(* connectApi (polkadotApi.ts): one connection to the node for the page,   *)
(* kept in the module's variable api.  It checks api and then awaits, so   *)
(* callers that come before the first connection is there open one each;   *)
(* the last of them to finish sets api.  A socket may close at any time    *)
(* and the library opens it again; connectApi looks at api only.           *)
(* A connection is named after the caller that opened it.                  *)
(***************************************************************************)

CONSTANTS Caller,  \* the calls of connectApi in a session
          NoApi    \* null

ASSUME ConnectionAssumption == NoApi \notin Caller

VARIABLES api,      \* the module's variable
          opening,  \* the callers at await ApiPromise.create
          created,  \* the connections that ApiPromise.create resolved with
          up,       \* those of them whose socket is open now
          got       \* what each caller was returned, NoApi before

connection == <<api, opening, created, up, got>>

ConnectionTypeOK == /\ api \in Caller \union {NoApi}
                    /\ opening \subseteq Caller
                    /\ created \subseteq Caller
                    /\ up \subseteq created
                    /\ got \in [Caller -> Caller \union {NoApi}]

ConnectionInit == /\ api = NoApi
                  /\ opening = {}
                  /\ created = {}
                  /\ up = {}
                  /\ got = [c \in Caller |-> NoApi]

Fresh(c) == got[c] = NoApi /\ c \notin opening /\ c \notin created

\* Operators named MUT_ are faulty forms of the definition that follows them, put in
\* its place to show that a property notices.  Nothing else refers to them.
MUT_Reuses(c) == FALSE

\* if (api) return api, whatever its socket's state.
Reuses(c) == api # NoApi

MUT_OpenedBy(c) == c

\* api is assigned only when ApiPromise.create has resolved.
OpenedBy(c) == api

connectApi(c) ==
    /\ Fresh(c)
    /\ IF Reuses(c)
       THEN got' = [got EXCEPT ![c] = api] /\ UNCHANGED <<api, opening>>
       ELSE opening' = opening \union {c} /\ api' = OpenedBy(c) /\ UNCHANGED got
    /\ UNCHANGED <<created, up>>

\* ApiPromise.create resolves when the node answers; until then it tries again.
Created(c) == /\ c \in opening
              /\ opening' = opening \ {c}
              /\ created' = created \union {c}
              /\ up' = up \union {c}
              /\ api' = c
              /\ UNCHANGED got

\* After await api.isReady: what api is by then, which may be another's.
Returns(c) == /\ c \in created /\ got[c] = NoApi
              /\ got' = [got EXCEPT ![c] = api]
              /\ UNCHANGED <<api, opening, created, up>>

ConnectionStep(c) == connectApi(c) \/ Created(c) \/ Returns(c)

\* The library's socket of connection c closes, and api keeps its value.
Lost(c) == /\ c \in up
           /\ up' = up \ {c}
           /\ UNCHANGED <<api, opening, created, got>>

Reconnected(c) == /\ c \in created \ up
                  /\ up' = up \union {c}
                  /\ UNCHANGED <<api, opening, created, got>>
-----------------------------------------------------------------------------
\* However callers race, each is handed a connection whose create has resolved: the
\* api.query.marketplace that it goes on to use is there.  That its socket is open is
\* not promised, since line 13 does not look.
HandedIsCreated == \A c \in Caller : got[c] # NoApi => got[c] \in created

\* Once a connection is there and nobody is still opening one, it is the connection
\* for good: whoever calls later shares it, through every loss of its socket.
ConnectionSettles ==
    \A c \in Caller : [](api = c /\ opening = {} => [](api = c))
=============================================================================
