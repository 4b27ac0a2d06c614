---------------------------- MODULE NodeService -----------------------------
(***************************************************************************)
(* The life of a node process: service.rs assembles the node task by task, *)
(* command.rs runs it until it is stopped or an essential task ends.       *)
(*                                                                         *)
(* A task runs as soon as it is spawned, while the later ones are still    *)
(* being built: RPC answers before the node authors or votes.  An error    *)
(* on the way (every `?` of new_partial and new_full) drops the task       *)
(* manager, and with it the tasks spawned so far.  Telemetry, metrics and  *)
(* the offchain workers, for which this runtime has no hook, are left out. *)
(***************************************************************************)
EXTENDS Integers, Sequences

CONSTANTS Node,
          Authority,      \* the nodes whose role is_authority()
          EnableGrandpa,  \* the nodes not run with disable_grandpa
          MaxFaults       \* bounds the stops of processes and the ends of tasks

ASSUME NodeAssumption == /\ Authority \subseteq Node
                         /\ EnableGrandpa \subseteq Node
                         /\ MaxFaults \in Nat

VARIABLES started,    \* how many tasks of its plan a process has spawned; 0: no process
          ended,      \* those of them that ended by themselves
          reverting,  \* blocks a running `revert` command has still to take off
          faults      \* counts against MaxFaults

service == <<started, ended, reverting, faults>>

Task == {"txpool", "import-queue", "network", "rpc", "aura", "grandpa-voter"}

\* The tasks in the order in which new_partial and new_full spawn them.
Plan(n) ==
    <<"txpool", "import-queue", "network", "rpc">>
    \o (IF n \in Authority THEN <<"aura">> ELSE << >>)
    \o (IF n \in EnableGrandpa THEN <<"grandpa-voter">> ELSE << >>)

\* Tasks spawned on the spawn_essential_handle.
Essential == {"txpool", "import-queue", "aura", "grandpa-voter"}

Running(n) == {Plan(n)[i] : i \in 1 .. started[n]} \ ended[n]

Complete(n) == started[n] = Len(Plan(n))

\* The database is locked by the process that has it open.
DatabaseFree(n) == started[n] = 0 /\ reverting[n] = 0

ServiceTypeOK ==
    /\ started \in [Node -> Nat] /\ ended \in [Node -> SUBSET Task]
    /\ \A n \in Node : started[n] \in 0 .. Len(Plan(n))
    /\ \A n \in Node : ended[n] \subseteq {Plan(n)[i] : i \in 1 .. started[n]}
    /\ reverting \in [Node -> Nat]
    /\ faults \in 0 .. MaxFaults

ServiceInit == /\ started = [n \in Node |-> 0]
               /\ ended = [n \in Node |-> {}]
               /\ reverting = [n \in Node |-> 0]
               /\ faults = 0
-----------------------------------------------------------------------------
Faulty == faults < MaxFaults /\ faults' = faults + 1

\* Opens the database, then spawns the pool's task and the import queue's.
new_partial(n) == /\ DatabaseFree(n)
                  /\ started' = [started EXCEPT ![n] = 2]
                  /\ UNCHANGED <<ended, reverting, faults>>

\* The next of build_network, spawn_tasks, start_aura and run_grandpa_voter.
new_full(n) == /\ started[n] > 0 /\ ~Complete(n)
               /\ started' = [started EXCEPT ![n] = @ + 1]
               /\ UNCHANGED <<ended, reverting, faults>>

TaskEnds(n, task) == /\ Faulty
                     /\ task \in Running(n)
                     /\ ended' = [ended EXCEPT ![n] = @ \union {task}]
                     /\ UNCHANGED <<started, reverting>>

ProcessEnds(n) == /\ started[n] > 0
                  /\ started' = [started EXCEPT ![n] = 0]
                  /\ ended' = [ended EXCEPT ![n] = {}]
                  /\ UNCHANGED reverting

\* new_full returns an error, or the process is stopped or killed.
Stopped(n) == Faulty /\ ProcessEnds(n)

\* run_node_until_exit waits for the task manager, which ends with the first
\* essential task that does; it is not looked at before new_full returns.
EssentialTaskFailed(n) == /\ Complete(n)
                          /\ ended[n] \intersect Essential # {}
                          /\ ProcessEnds(n)
                          /\ UNCHANGED faults
=============================================================================
