---------------------- MODULE LaunchReservationProofs ----------------------
(***************************************************************************)
(* Proofs about LaunchReservation for any sets of launches, callers and    *)
(* games: the invariants hold of every race between start, cancel, finish, *)
(* status and a crash.                                                     *)
(***************************************************************************)
EXTENDS LaunchReservation, TLAPS

\* Before any request nothing is pending and nothing has run.
LEMMA InitIInv == Init => IInv
  BY DEF Init, IInv, TypeOK, CancelledNeverRuns, CancelledIsStopped, OneSession,
         PendingIsUnfinished, WorkerAgrees, EffectsNeedCommit, Phase, WorkerState,
         NativeState, Unbound, Binding, InEffects, Committed

\* Requests keep the invariant: they touch one token, under the map's mutex.
LEMMA RequestIInv ==
  ASSUME IInv, NEW l \in Launch, Request(l)
  PROVE  IInv'
<1> USE DEF TypeOK, Phase, WorkerState, NativeState, Unbound, Binding
<1>1. CASE \E c \in Caller, g \in Game : Reserve(l, c, g)
  BY <1>1 DEF IInv, Reserve, CancelledNeverRuns, CancelledIsStopped, OneSession,
     PendingIsUnfinished, WorkerAgrees, EffectsNeedCommit, InEffects, Committed
<1>2. CASE \E c \in Caller, g \in Game : Start(l, c, g)
  BY <1>2 DEF IInv, Start, CancelledNeverRuns, CancelledIsStopped, OneSession,
     PendingIsUnfinished, WorkerAgrees, EffectsNeedCommit, InEffects, Committed
<1>3. CASE \E c \in Caller : CancelBeforeCommit(l, c)
  BY <1>3 DEF IInv, CancelBeforeCommit, CancelledNeverRuns, CancelledIsStopped, OneSession,
     PendingIsUnfinished, WorkerAgrees, EffectsNeedCommit, InEffects, Committed
<1>4. CASE \E c \in Caller : CancelAfterCommit(l, c)
  BY <1>4 DEF IInv, CancelAfterCommit, CancelledNeverRuns, CancelledIsStopped, OneSession,
     PendingIsUnfinished, WorkerAgrees, EffectsNeedCommit, InEffects, Committed
<1>5. CASE StopNative(l)
  BY <1>5 DEF IInv, StopNative, CancelledNeverRuns, CancelledIsStopped, OneSession,
     PendingIsUnfinished, WorkerAgrees, EffectsNeedCommit, InEffects, Committed
<1>6. CASE StopFails(l)
  BY <1>6 DEF IInv, StopFails, CancelledNeverRuns, CancelledIsStopped, OneSession,
     PendingIsUnfinished, WorkerAgrees, EffectsNeedCommit, InEffects, Committed
<1> QED
  BY <1>1, <1>2, <1>3, <1>4, <1>5, <1>6 DEF Request

\* The worker's steps keep the invariant.  Only Commit and LaunchNative
\* approach the native session, and both need the session lock.
LEMMA WorkerIInv ==
  ASSUME IInv, NEW l \in Launch, WorkerStep(l)
  PROVE  IInv'
<1> USE DEF TypeOK, Phase, WorkerState, NativeState, Unbound, Binding
<1>1. CASE RouteReady(l)
  BY <1>1 DEF IInv, RouteReady, CancelledNeverRuns, CancelledIsStopped, OneSession,
     PendingIsUnfinished, WorkerAgrees, EffectsNeedCommit, InEffects, Committed
<1>2. CASE Refuse(l)
  BY <1>2 DEF IInv, Refuse, CancelledNeverRuns, CancelledIsStopped, OneSession,
     PendingIsUnfinished, WorkerAgrees, EffectsNeedCommit, InEffects, Committed
<1>3. CASE Commit(l)
  BY <1>3 DEF IInv, Commit, Occupied, CancelledNeverRuns, CancelledIsStopped, OneSession,
     PendingIsUnfinished, WorkerAgrees, EffectsNeedCommit, InEffects, Committed
<1>4. CASE CheckCancelled(l)
  BY <1>4 DEF IInv, CheckCancelled, CancelledNeverRuns, CancelledIsStopped, OneSession,
     PendingIsUnfinished, WorkerAgrees, EffectsNeedCommit, InEffects, Committed
<1>5. CASE LaunchNative(l)
  BY <1>5 DEF IInv, LaunchNative, CancelledNeverRuns, CancelledIsStopped, OneSession,
     PendingIsUnfinished, WorkerAgrees, EffectsNeedCommit, InEffects, Committed
<1>6. CASE Finish(l)
  BY <1>6 DEF IInv, Finish, CancelledNeverRuns, CancelledIsStopped, OneSession,
     PendingIsUnfinished, WorkerAgrees, EffectsNeedCommit, InEffects, Committed
<1>7. CASE StopCancelled(l)
  BY <1>7 DEF IInv, StopCancelled, CancelledNeverRuns, CancelledIsStopped, OneSession,
     PendingIsUnfinished, WorkerAgrees, EffectsNeedCommit, InEffects, Committed
<1> QED
  BY <1>1, <1>2, <1>3, <1>4, <1>5, <1>6, <1>7 DEF WorkerStep

\* A unit that ends, a status that retires its token and a dying korrid keep
\* the invariant: a crash forgets every promise but those already final.
LEMMA ObserveIInv ==
  ASSUME IInv,
         \/ \E l \in Launch : NativeEnds(l) \/ RetireCompleted(l)
         \/ Crash
  PROVE  IInv'
<1> USE DEF TypeOK, Phase, WorkerState, NativeState, Unbound, Binding
<1>1. CASE \E l \in Launch : NativeEnds(l)
  BY <1>1 DEF IInv, NativeEnds, CancelledNeverRuns, CancelledIsStopped, OneSession,
     PendingIsUnfinished, WorkerAgrees, EffectsNeedCommit, InEffects, Committed
<1>2. CASE \E l \in Launch : RetireCompleted(l)
  BY <1>2 DEF IInv, RetireCompleted, CancelledNeverRuns, CancelledIsStopped, OneSession,
     PendingIsUnfinished, WorkerAgrees, EffectsNeedCommit, InEffects, Committed
<1>3. CASE Crash
  BY <1>3 DEF IInv, Crash, CancelledNeverRuns, CancelledIsStopped, OneSession,
     PendingIsUnfinished, WorkerAgrees, EffectsNeedCommit, InEffects, Committed
<1> QED
  BY <1>1, <1>2, <1>3

\* Every behaviour keeps the inductive invariant.
LEMMA SpecIInv == Spec => []IInv
<1>1. IInv /\ [Next]_rvars => IInv'
  <2> SUFFICES ASSUME IInv, [Next]_rvars PROVE IInv'
    OBVIOUS
  <2>1. CASE UNCHANGED rvars
    BY <2>1 DEF rvars, IInv, TypeOK, CancelledNeverRuns, CancelledIsStopped, OneSession,
       PendingIsUnfinished, WorkerAgrees, EffectsNeedCommit, InEffects
  <2>2. CASE Next
    BY <2>2, RequestIInv, WorkerIInv, ObserveIInv DEF Next
  <2> QED
    BY <2>1, <2>2
<1> QED
  BY InitIInv, <1>1, PTL DEF Spec

\* Type correctness of the reservation state.
THEOREM ReservationTypes == Spec => []TypeOK
  BY SpecIInv, PTL DEF IInv

\* A cancel answered Completed is final: the launch never runs, whichever of
\* commit and cancel the scheduler lets first touch the phase.
THEOREM CancelIsFinal == Spec => []CancelledNeverRuns
  BY SpecIInv, PTL DEF IInv

\* A cancel accepted after the commit gate is carried out by the worker.
THEOREM CancelIsCarriedOut == Spec => []CancelledIsStopped
  BY SpecIInv, PTL DEF IInv

\* At most one native session, counting the one being prepared.
THEOREM SessionIsExclusive == Spec => []OneSession
  BY SpecIInv, PTL DEF IInv

\* A launch still being prepared is found by cancel_launch.
THEOREM PreparingIsCancellable == Spec => []CancelFindsPreparing
<1>1. IInv => CancelFindsPreparing
  BY DEF IInv, WorkerAgrees, CancelFindsPreparing, InEffects
<1> QED
  BY SpecIInv, <1>1, PTL

\* No token outlives its worker.
THEOREM PendingIsExact == Spec => []PendingIsUnfinished
  BY SpecIInv, PTL DEF IInv
=============================================================================
