-------------------------- MODULE LaunchReservation --------------------------
(***************************************************************************)
(* The launch reservations of korrid and the workers that consume them     *)
(* (services/korrid/src/host/launch_reservation.rs and the start, cancel   *)
(* and status handlers of host/mod.rs).                                    *)
(*                                                                         *)
(* A caller reserves a launch id, starts it, and may cancel it at any      *)
(* time.  Starting hands the reservation to a blocking worker that         *)
(* prepares a route, crosses the commit gate under the session lock,       *)
(* performs native effects and finally reports.  Cancelling races with all *)
(* of that: it only touches the reservation mutex and the atomic phase.    *)
(*                                                                         *)
(* The native session is kept here as its contract: a launch is not        *)
(* started, live, stopping, or ended, and it can end by itself at any      *)
(* time.  Module HostSession is the detailed session, and refines this     *)
(* module.                                                                 *)
(*                                                                         *)
(* A caller is the pair of an RPC caller and the person it acts for; the   *)
(* code compares both, always together.  An RPC that fails a check changes *)
(* nothing, so it has no action.                                           *)
(***************************************************************************)
EXTENDS Naturals, FiniteSets

CONSTANTS
    Launch,     \* launch ids, never generated twice
    Caller,     \* (caller capability, person) pairs
    Game        \* game ids

VARIABLES
    phase,      \* AtomicU8 phase of each launch's reservation object
    pending,    \* keys of the reservation map
    bound,      \* caller and game a reservation is bound to
    worker,     \* where the blocking worker of start_launch stands
    native,     \* what the native session did for this launch
    blocked,    \* launches whose exact stop answered RecoveryBlocked
    promised    \* what cancel_launch answered from the reservation alone

rvars == <<phase, pending, bound, worker, native, blocked, promised>>

-----------------------------------------------------------------------------
(* State *)

Phase == {"None", "Reserved", "Preparing", "Committing", "Cancelled",
          "CancelledCommitting", "Lost"}
\* "None": the id is not reserved yet; "Lost": the process that held the
\* reservation died (the map is process-local, with no durable form).

WorkerState == {"idle", "routing", "entering", "effects", "launching",
                "returned", "stopping", "done"}

NativeState == {"none", "live", "stopping", "ended"}

Unbound == [caller |-> "nobody", game |-> "nothing"]
Binding == [caller : Caller, game : Game]

Committed == {"Committing", "CancelledCommitting"}

IsCancelled(l) == phase[l] \in {"Cancelled", "CancelledCommitting"}

\* The worker that holds the session lock while it performs effects.
InEffects(l) == worker[l] \in {"effects", "launching"}

Occupied == \E l \in Launch : native[l] \in {"live", "stopping"}

TypeOK ==
    /\ phase \in [Launch -> Phase]
    /\ pending \subseteq Launch
    /\ bound \in [Launch -> Binding \cup {Unbound}]
    /\ worker \in [Launch -> WorkerState]
    /\ native \in [Launch -> NativeState]
    /\ blocked \subseteq Launch
    /\ promised \in [Launch -> {"nothing", "never", "stop"}]

Init ==
    /\ phase = [l \in Launch |-> "None"]
    /\ pending = {}
    /\ bound = [l \in Launch |-> Unbound]
    /\ worker = [l \in Launch |-> "idle"]
    /\ native = [l \in Launch |-> "none"]
    /\ blocked = {}
    /\ promised = [l \in Launch |-> "nothing"]

-----------------------------------------------------------------------------
(* Faulty variants of the operations below: one plausible bug each.  They   *)
(* are not part of the specification.                                       *)

\* cancel treats a committing token like any other: it drops it.
CancelAfterCommit_Forgets(l, c) ==
    /\ l \in pending
    /\ bound[l].caller = c
    /\ phase[l] \in Committed
    /\ phase' = [phase EXCEPT ![l] = "Cancelled"]
    /\ pending' = pending \ {l}
    /\ promised' = [promised EXCEPT ![l] = "never"]
    /\ UNCHANGED <<bound, worker, native, blocked>>

\* commit stores the phase instead of comparing it first.
Commit_Stores(l) ==
    /\ worker[l] = "entering"
    /\ \A m \in Launch : ~InEffects(m)
    /\ ~Occupied
    /\ phase' = [phase EXCEPT ![l] = "Committing"]
    /\ worker' = [worker EXCEPT ![l] = "effects"]
    /\ UNCHANGED <<pending, bound, native, blocked, promised>>

\* commit without the session lock.
Commit_Unlocked(l) ==
    /\ worker[l] = "entering"
    /\ ~Occupied
    /\ phase[l] = "Preparing"
    /\ phase' = [phase EXCEPT ![l] = "Committing"]
    /\ worker' = [worker EXCEPT ![l] = "effects"]
    /\ UNCHANGED <<pending, bound, native, blocked, promised>>

\* finish reports every cancelled token as not committed.
Finish_NoStop(l) ==
    /\ worker[l] = "returned"
    /\ pending' = pending \ {l}
    /\ worker' = [worker EXCEPT ![l] = "done"]
    /\ UNCHANGED <<phase, bound, native, blocked, promised>>

-----------------------------------------------------------------------------
(* Requests *)

\* reserve: a fresh id bound to its caller and game.
Reserve(l, c, g) ==
    /\ phase[l] = "None"
    /\ phase' = [phase EXCEPT ![l] = "Reserved"]
    /\ pending' = pending \cup {l}
    /\ bound' = [bound EXCEPT ![l] = [caller |-> c, game |-> g]]
    /\ UNCHANGED <<worker, native, blocked, promised>>

\* start_launch: the exact caller and game claim the token once.
Start(l, c, g) ==
    /\ l \in pending
    /\ bound[l] = [caller |-> c, game |-> g]
    /\ phase[l] = "Reserved"
    /\ phase' = [phase EXCEPT ![l] = "Preparing"]
    /\ worker' = [worker EXCEPT ![l] = "routing"]
    /\ UNCHANGED <<pending, bound, native, blocked, promised>>

\* cancel_launch of a pending reservation whose effects have not begun: the
\* answer is Completed, and the token leaves the map.
CancelBeforeCommit(l, c) ==
    /\ l \in pending
    /\ bound[l].caller = c
    /\ phase[l] \notin Committed
    /\ phase' = [phase EXCEPT ![l] = "Cancelled"]
    /\ pending' = pending \ {l}
    /\ promised' = [promised EXCEPT ![l] = "never"]
    /\ UNCHANGED <<bound, worker, native, blocked>>

\* cancel_launch after the commit gate: the answer is AlreadyStopping, and
\* the worker owes an exact stop.
CancelAfterCommit(l, c) ==
    /\ l \in pending
    /\ bound[l].caller = c
    /\ phase[l] \in Committed
    /\ phase' = [phase EXCEPT ![l] = "CancelledCommitting"]
    /\ promised' = [promised EXCEPT ![l] = "stop"]
    /\ UNCHANGED <<pending, bound, worker, native, blocked>>

\* An exact native stop is accepted: session_stop, from cancel_launch with no
\* pending reservation or from any other controller of the session.
StopNative(l) ==
    /\ native[l] = "live"
    /\ native' = [native EXCEPT ![l] = "stopping"]
    /\ UNCHANGED <<phase, pending, bound, worker, blocked, promised>>

\* The stop helper failed, and host recovery is left with a running unit.
StopFails(l) ==
    /\ native[l] = "stopping"
    /\ native' = [native EXCEPT ![l] = "live"]
    /\ blocked' = blocked \cup {l}
    /\ UNCHANGED <<phase, pending, bound, worker, promised>>

-----------------------------------------------------------------------------
(* The worker of start_launch *)

\* Route preparation, outside every lock, then the is_cancelled check and
\* the admission gate.  A failing route or a selected peer session returns.
RouteReady(l) ==
    /\ worker[l] = "routing"
    /\ \/ ~IsCancelled(l) /\ worker' = [worker EXCEPT ![l] = "entering"]
       \/ worker' = [worker EXCEPT ![l] = "returned"]
    /\ UNCHANGED <<phase, pending, bound, native, blocked, promised>>

\* prepare_inner refuses before the commit gate: another session is live, a
\* recovery is pending, or an input was invalid.
Refuse(l) ==
    /\ worker[l] = "entering"
    /\ \A m \in Launch : ~InEffects(m)
    /\ worker' = [worker EXCEPT ![l] = "returned"]
    /\ UNCHANGED <<phase, pending, bound, native, blocked, promised>>

\* The commit gate, under the session lock with no session in progress: one
\* atomic winner between commit and cancel.
Commit(l) ==
    /\ worker[l] = "entering"
    /\ \A m \in Launch : ~InEffects(m)
    /\ ~Occupied
    /\ IF phase[l] = "Preparing"
       THEN /\ phase' = [phase EXCEPT ![l] = "Committing"]
            /\ worker' = [worker EXCEPT ![l] = "effects"]
       ELSE /\ worker' = [worker EXCEPT ![l] = "returned"]
            /\ UNCHANGED phase
    /\ UNCHANGED <<pending, bound, native, blocked, promised>>

\* Hooks, saves, journal and input seats, then the last cancellation check.
\* Any of the effects may fail, which undoes the startup.
CheckCancelled(l) ==
    /\ worker[l] = "effects"
    /\ \/ ~IsCancelled(l) /\ worker' = [worker EXCEPT ![l] = "launching"]
       \/ worker' = [worker EXCEPT ![l] = "returned"]
    /\ UNCHANGED <<phase, pending, bound, native, blocked, promised>>

\* backend.launch and the first observation of the unit: it runs, it is
\* already stopping, it is gone again, or it never started.
LaunchNative(l) ==
    /\ worker[l] = "launching"
    /\ \E n \in NativeState : native' = [native EXCEPT ![l] = n]
    /\ worker' = [worker EXCEPT ![l] = "returned"]
    /\ UNCHANGED <<phase, pending, bound, blocked, promised>>

\* finish, serialised with cancel by the reservation mutex.
Finish(l) ==
    /\ worker[l] = "returned"
    /\ pending' = pending \ {l}
    /\ worker' = [worker EXCEPT ![l] =
                    IF phase[l] = "CancelledCommitting" THEN "stopping" ELSE "done"]
    /\ UNCHANGED <<phase, bound, native, blocked, promised>>

\* A committed launch that was cancelled meanwhile is stopped by its worker.
\* The stop may answer RecoveryBlocked and leave the unit to host recovery.
StopCancelled(l) ==
    /\ worker[l] = "stopping"
    /\ \A m \in Launch : ~InEffects(m)
    /\ worker' = [worker EXCEPT ![l] = "done"]
    /\ \/ /\ native' = [native EXCEPT ![l] = IF @ = "live" THEN "stopping" ELSE @]
          /\ UNCHANGED blocked
       \/ /\ blocked' = blocked \cup {l}
          /\ \E n \in {native[l]} \cup {m \in {"live"} : native[l] = "stopping"} :
               native' = [native EXCEPT ![l] = n]
    /\ UNCHANGED <<phase, pending, bound, promised>>

-----------------------------------------------------------------------------
(* Observations and failures *)

\* The game ends by itself, or its stop completes.
NativeEnds(l) ==
    /\ native[l] \in {"live", "stopping"}
    /\ native' = [native EXCEPT ![l] = "ended"]
    /\ UNCHANGED <<phase, pending, bound, worker, blocked, promised>>

\* retire_completed drops the token without looking at the session.
RetireCompleted_Any(l) ==
    /\ l \in pending
    /\ phase[l] \in Committed
    /\ pending' = pending \ {l}
    /\ UNCHANGED <<phase, bound, worker, native, blocked, promised>>

\* retire_completed: a status that reports Completed or Failed may run
\* before the worker's own finish.
RetireCompleted(l) ==
    /\ native[l] = "ended"
    /\ l \in pending
    /\ phase[l] \in Committed
    /\ pending' = pending \ {l}
    /\ UNCHANGED <<phase, bound, worker, native, blocked, promised>>

\* korrid dies: the map, the phases and the workers go with it, the units
\* stay.  A launch between its last check and its first observation may have
\* left a unit behind, and a stop whose helper had not run is forgotten.
Crash ==
    /\ phase' = [l \in Launch |-> IF phase[l] = "None" THEN "None" ELSE "Lost"]
    /\ pending' = {}
    /\ worker' = [l \in Launch |-> IF worker[l] = "idle" THEN "idle" ELSE "done"]
    /\ promised' = [l \in Launch |->
                      IF promised[l] = "stop" THEN "nothing" ELSE promised[l]]
    /\ native' \in [Launch -> NativeState]
    /\ \A l \in Launch : \/ native'[l] = native[l]
                         \/ worker[l] = "launching"
                         \/ native[l] = "stopping" /\ native'[l] = "live"
    /\ UNCHANGED <<bound, blocked>>

-----------------------------------------------------------------------------
WorkerStep(l) ==
    \/ RouteReady(l) \/ Refuse(l) \/ Commit(l) \/ CheckCancelled(l)
    \/ LaunchNative(l) \/ Finish(l) \/ StopCancelled(l)

Request(l) ==
    \/ \E c \in Caller, g \in Game : Reserve(l, c, g) \/ Start(l, c, g)
    \/ \E c \in Caller : CancelBeforeCommit(l, c) \/ CancelAfterCommit(l, c)
    \/ StopNative(l) \/ StopFails(l)

Next ==
    \/ \E l \in Launch : Request(l) \/ WorkerStep(l) \/ NativeEnds(l)
                         \/ RetireCompleted(l)
    \/ Crash

Spec == Init /\ [][Next]_rvars

\* Blocking workers run to their end, and a unit that was told to stop ends
\* (systemd kills what outlives the stop timeout).
Fairness == \A l \in Launch :
    /\ WF_rvars(WorkerStep(l))
    /\ WF_rvars(native[l] = "stopping" /\ NativeEnds(l))

FairSpec == Spec /\ Fairness

-----------------------------------------------------------------------------
(* Properties *)

\* A cancel that answered Completed is final: its launch never reaches the
\* native session, whatever the worker was doing and even across a restart.
CancelledNeverRuns ==
    \A l \in Launch : promised[l] = "never" => native[l] = "none"

\* A cancel accepted after the commit gate is not forgotten: once the worker
\* has returned, the launch does not run on, unless its exact stop handed the
\* unit to host recovery.
CancelledIsStopped ==
    \A l \in Launch :
        worker[l] = "done" /\ phase[l] = "CancelledCommitting" /\ l \notin blocked
            => native[l] # "live"

\* Native preparation is exclusive: no two launches are live or stopping, and
\* none is while a worker holds the session lock for a new one.
OneSession ==
    \A l, m \in Launch :
          /\ native[l] \in {"live", "stopping"} \/ InEffects(l)
          /\ native[m] \in {"live", "stopping"} \/ InEffects(m)
          => l = m

\* A launch still being prepared can be cancelled: until its worker returns,
\* its token stays in the map or is already cancelled, so cancel_launch never
\* falls through to a session stop that knows nothing of it.
CancelFindsPreparing ==
    \A l \in Launch :
        worker[l] \in {"routing", "entering", "effects", "launching"}
            => l \in pending \/ phase[l] = "Cancelled"

\* What pending_launches lists and in_use counts is unfinished work: no token
\* of a returned worker and no token cancelled before its commit remains.
PendingIsUnfinished ==
    \A l \in pending :
        /\ worker[l] \notin {"stopping", "done"}
        /\ phase[l] \in {"Reserved", "Preparing"} \cup Committed

\* The inductive strengthening of the five invariants above: which phases a
\* worker's position allows, where the token is, and what has run.
WorkerAgrees ==
    \A l \in Launch :
        /\ worker[l] = "idle" => phase[l] \in {"None", "Reserved", "Cancelled", "Lost"}
        /\ worker[l] \in {"routing", "entering"} =>
               phase[l] = "Cancelled" \/ (phase[l] = "Preparing" /\ l \in pending)
        /\ InEffects(l) => phase[l] \in Committed /\ l \in pending /\ native[l] = "none"
        /\ worker[l] = "returned" => phase[l] \in {"Preparing", "Cancelled"} \cup Committed
        /\ worker[l] = "stopping" => phase[l] = "CancelledCommitting"
        /\ worker[l] = "done" => phase[l] \notin {"None", "Reserved"}

EffectsNeedCommit ==
    \A l \in Launch :
        /\ native[l] # "none" => phase[l] \in Committed \cup {"Lost"}
        /\ phase[l] = "Lost" => worker[l] \in {"idle", "done"}
        /\ promised[l] = "never" => phase[l] \in {"Cancelled", "Lost"}

IInv ==
    /\ TypeOK
    /\ CancelledNeverRuns
    /\ CancelledIsStopped
    /\ OneSession
    /\ PendingIsUnfinished
    /\ WorkerAgrees
    /\ EffectsNeedCommit

\* A cancel answered AlreadyStopping ends the launch, unless host recovery is
\* needed or korrid itself dies first (reservations have no durable form).
CancelEndsLaunch ==
    \A l \in Launch :
        promised[l] = "stop"
            ~> \/ worker[l] = "done" /\ native[l] \in {"none", "ended"}
               \/ l \in blocked
               \/ phase[l] = "Lost"
==============================================================================
