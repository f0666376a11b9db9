------------------------------ MODULE HostSession ------------------------------
(***************************************************************************)
(* The native session of korrid (host/session_state.rs) together with the  *)
(* launch reservations that lead to it.                                    *)
(*                                                                         *)
(* The session keeps an in-memory state, a journal naming the launch whose *)
(* unit may be live, an input-seat lease and the receiver's reservation.   *)
(* One mutex serialises its transitions, with one deliberate exception: an *)
(* exact stop releases it while the stop helper runs, and takes it again   *)
(* to finish.  Preparing a launch keeps the mutex over several effects,    *)
(* which a cancel, the unit and a crash can interleave with.               *)
(*                                                                         *)
(* Everything the mutex protects, and the systemd units, are one record,   *)
(* so that each helper of the code is a function from a host to the set of *)
(* hosts it may leave behind.  A failing external call (systemctl helper,  *)
(* journal write, compositor, receiver) is a choice bounded by MaxFaults.  *)
(* Most of them are retried; losing the seat coordinator is not: it fences  *)
(* korrid, and until a restart no session can be ended.                     *)
(* Running, Frozen and FocusFailed are one kind, "Live": which of them a   *)
(* live session is concerns the freezer, not its lifetime.  What completing*)
(* a session does to plays, saves and hooks is module SessionJournal.      *)
(***************************************************************************)
EXTENDS Naturals, FiniteSets

CONSTANTS
    Launch, Caller, Game,   \* as in LaunchReservation
    Client,                 \* callers of session_stop other than the workers
    Nobody,                 \* no launch
    MaxFaults, MaxCrashes

ASSUME HostConstants ==
    /\ Nobody \notin Launch
    /\ Client \cap Launch = {}
    /\ MaxFaults \in Nat /\ MaxCrashes \in Nat

VARIABLES
    phase, pending, bound, worker, blocked, promised,   \* as in LaunchReservation
    host,       \* the native session, see Host
    prep,       \* the launch that holds the session lock, and how far it is
    call,       \* observe_stop calls in progress, by actor
    crashes

resv == <<phase, pending, bound, worker, blocked, promised>>
hvars == <<resv, host, prep, call, crashes>>

-----------------------------------------------------------------------------
(* State *)

Maybe == Launch \cup {Nobody}

\* The worker of a cancelled launch stops it; clients stop any launch.
Actor == Launch \cup Client

Kind == {"NoActive", "Live", "Stopping", "Completed", "Failed",
         "RecoveryPending", "RecoveryBlocked"}

Host == [kind : Kind, launch : Maybe,
         journal : Maybe, journalPhase : {"none", "running", "pending"},
         unit : [Launch -> {"absent", "running", "stopping", "failed", "gone"}],
         lease : Maybe, seat : Maybe, faults : 0..MaxFaults,
         fenced : BOOLEAN,      \* the seat coordinator is lost until a restart
         temp : BOOLEAN]        \* a write of the journal left its temporary

PrepStep == {"none", "committed", "persisted", "seated", "clear", "launched"}

NoPrep == [launch |-> Nobody, at |-> "none"]
NoCall == [at |-> "idle", launch |-> Nobody, seatFailed |-> FALSE, ok |-> TRUE]

TypeOK ==
    /\ host \in Host
    /\ host.journal = Nobody <=> host.journalPhase = "none"
    /\ host.launch = Nobody <=>
         host.kind \in {"NoActive", "RecoveryPending", "RecoveryBlocked"}
    /\ prep \in [launch : Maybe, at : PrepStep]
    /\ call \in [Actor -> [at : {"idle", "helper", "relock"}, launch : Maybe,
                           seatFailed : BOOLEAN, ok : BOOLEAN]]
    /\ crashes \in 0..MaxCrashes

\* What the unit and the session state say of a launch.  While its worker
\* holds the lock, nothing is known of it yet.
Native == [l \in Launch |->
    IF worker[l] \in {"effects", "launching"} THEN "none" ELSE
    CASE host.unit[l] = "running" ->
           IF host.kind = "Stopping" /\ host.launch = l THEN "stopping" ELSE "live"
      [] host.unit[l] = "stopping" -> "stopping"
      [] host.unit[l] = "absent" -> "none"
      [] OTHER -> "ended"]

Reservations == INSTANCE LaunchReservation WITH native <- Native

Init ==
    /\ host = [kind |-> "RecoveryPending", launch |-> Nobody,
               journal |-> Nobody, journalPhase |-> "none",
               unit |-> [l \in Launch |-> "absent"],
               lease |-> Nobody, seat |-> Nobody, faults |-> 0,
               fenced |-> FALSE, temp |-> FALSE]
    /\ prep = NoPrep
    /\ call = [a \in Actor |-> NoCall]
    /\ crashes = 0
    /\ Reservations!Init

-----------------------------------------------------------------------------
(* Helpers: from a host to the hosts a call may leave behind *)

Unlocked == prep = NoPrep

LiveIds(h) == {l \in Launch : h.unit[l] \in {"running", "stopping"}}

\* backend.state reports an absent and a collected unit alike.
Completed(h, l) == h.unit[l] \in {"absent", "gone"}

Set(h, k, l) == [h EXCEPT !.kind = k, !.launch = l]
Block(h) == Set(h, "RecoveryBlocked", Nobody)

\* h after one more failed external call, if the bound allows one.
Faulty(h) == IF h.faults < MaxFaults THEN {[h EXCEPT !.faults = @ + 1]} ELSE {}

\* (An operator named X_Bug is a faulty variant of X, not part of the
\* specification: one plausible bug each.)

\* end_session of the receiver, then removal of the record.
Ended(h) == [h EXCEPT !.seat = IF @ = h.journal THEN Nobody ELSE @]

\* The record is emptied but not removed.
Cleared_KeepsPhase(h) == [Ended(h) EXCEPT !.journal = Nobody]

Cleared(h) == [Ended(h) EXCEPT !.journal = Nobody, !.journalPhase = "none"]

\* A fenced korrid cannot end the session of a record (end_session).
CannotEnd(h) == h.fenced /\ h.journal # Nobody

\* discard_active, then the state k when it succeeds.
DiscardTo(h, k, l) ==
    IF CannotEnd(h) THEN {Block(h)} ELSE
    {Set(Cleared(h), k, l)} \cup UNION {{Block(f), Block(Ended(f))} : f \in Faulty(h)}

\* complete_active, then the state k when it succeeds.  It fails before or
\* after the completion record replaced the running one.
CompleteTo(h, k, l) ==
    DiscardTo(h, k, l) \cup
    {Block([Ended(f) EXCEPT !.journalPhase = "pending"]) :
        f \in {g \in Faulty(h) : g.journal # Nobody /\ ~g.fenced}}

\* clear_failed_unit: the exact stop releases the failed unit.
ClearFailed(h, l) == [h EXCEPT !.unit[l] = IF @ = "failed" THEN "gone" ELSE @]

\* stop_seats: refuses a lease of another launch, otherwise drops the lease.
\* Failing to route, as a fence always does, leaves it; failing to stop it
\* loses it.
StopSeatsOk(h, l) ==
    IF h.lease \in {Nobody, l} /\ ~h.fenced THEN {[h EXCEPT !.lease = Nobody]} ELSE {}
StopSeatsErr(h, l) ==
    IF h.lease \in {Nobody, l} /\ ~h.fenced
    THEN UNION {{f, [f EXCEPT !.lease = Nobody]} : f \in Faulty(h)}
    ELSE {h}
StopSeats(h, l) == StopSeatsOk(h, l) \cup StopSeatsErr(h, l)

\* fail_active and recover_failed_unit, once the seats are stopped.
FailTo(h, l) ==
    {Block(f) : f \in Faulty(h)} \cup CompleteTo(ClearFailed(h, l), "Failed", l)

\* recover, once the journal can be read: the state rebuilt from it and from
\* the live units.
Rebuild(h) ==
    CASE h.journalPhase = "none" /\ LiveIds(h) = {} ->
           {Set(h, "NoActive", Nobody)}
      [] h.journalPhase = "pending" /\ LiveIds(h) = {} ->
           CompleteTo(h, "NoActive", Nobody)
      [] h.journalPhase = "running" /\ LiveIds(h) = {h.journal} ->
           {Set(h, IF h.unit[h.journal] = "running" THEN "Live" ELSE "Stopping", h.journal)}
      [] h.journalPhase = "running" /\ LiveIds(h) = {} ->
           IF h.unit[h.journal] = "failed"
           THEN FailTo(h, h.journal)
           ELSE CompleteTo(h, "NoActive", Nobody)
      [] OTHER -> {Block(h)}

\* recover: a temporary beside the journal is removed when no unit is live, and
\* is not understood otherwise.
Recover(h) ==
    {Set(f, "RecoveryPending", Nobody) : f \in Faulty(h)} \cup
    (CASE ~h.temp -> Rebuild(h)
       [] h.temp /\ LiveIds(h) = {} ->
            {Block(f) : f \in Faulty(h)} \cup Rebuild([h EXCEPT !.temp = FALSE])
       [] h.temp /\ LiveIds(h) # {} -> {Block(h)})

\* Only a helper failure is retried, a blocked session stays blocked.
Refresh_OnlyPending(h) == IF h.kind = "RecoveryPending" THEN Recover(h) ELSE {h}

\* refresh_recovery, the first step of every transition.
Refresh(h) ==
    IF h.kind \in {"RecoveryPending", "RecoveryBlocked"} THEN Recover(h) ELSE {h}

\* The lock is released, or a status ends: the input transition of a live
\* session may fail, which drops its lease (record_focus_failure).
Unlock(h) ==
    IF h.kind # "Live" THEN {h} ELSE
    {h} \cup StopSeatsOk(h, h.launch) \cup {Block(s) : s \in StopSeatsErr(h, h.launch)}

\* observe_status_locked after the refresh: what the tracked unit has become.
Observe(h) ==
    LET l == h.launch IN
    IF h.kind \notin {"Live", "Stopping"} THEN {h} ELSE
    {Block(f) : f \in Faulty(h)} \cup
    (CASE h.unit[l] = "running" -> Unlock(h)
       [] h.unit[l] = "stopping" -> {Set(s, "Stopping", l) : s \in StopSeats(h, l)}
       [] Completed(h, l) ->
            {Block(s) : s \in StopSeatsErr(h, l)}
            \cup UNION {CompleteTo(s, "Completed", l) : s \in StopSeatsOk(h, l)}
       [] h.unit[l] = "failed" ->
            {Block(s) : s \in StopSeatsErr(h, l)}
            \cup UNION {FailTo(s, l) : s \in StopSeatsOk(h, l)})

-----------------------------------------------------------------------------
(* Reservations and the worker outside the session lock *)

Outside == UNCHANGED <<host, prep, call, crashes>>

Reserve(l, c, g) == Outside /\ Reservations!Reserve(l, c, g)
Start(l, c, g) == Outside /\ Reservations!Start(l, c, g)
CancelBeforeCommit(l, c) == Outside /\ Reservations!CancelBeforeCommit(l, c)
CancelAfterCommit(l, c) == Outside /\ Reservations!CancelAfterCommit(l, c)
RouteReady(l) == Outside /\ Reservations!RouteReady(l)
Finish(l) == Outside /\ Reservations!Finish(l)

-----------------------------------------------------------------------------
(* Preparing a launch *)

\* The worker returns to start_launch and releases the session lock.
Return(l, h) ==
    /\ host' \in Unlock(h)
    /\ worker' = [worker EXCEPT ![l] = "returned"]
    /\ prep' = NoPrep

\* prepare_inner takes the lock: refresh, refusals, then the commit gate.
Enter(l) ==
    /\ worker[l] = "entering" /\ Unlocked
    /\ \E h \in {host} \cup Refresh(host) :
         \/ Return(l, h) /\ UNCHANGED phase
         \/ /\ h.kind \in {"NoActive", "Completed", "Failed"} /\ ~h.fenced
            /\ phase[l] = "Preparing"
            /\ phase' = [phase EXCEPT ![l] = "Committing"]
            /\ worker' = [worker EXCEPT ![l] = "effects"]
            /\ prep' = [launch |-> l, at |-> "committed"]
            /\ host' = h
    /\ UNCHANGED <<pending, bound, blocked, promised, call, crashes>>

\* Hooks and saves, which may refuse, then persist_active: it refuses a
\* journal that is not empty, and may fail before or after its rename.
PersistActive(l) ==
    /\ prep = [launch |-> l, at |-> "committed"]
    /\ LET written == [host EXCEPT !.journal = l, !.journalPhase = "running"] IN
       \/ Return(l, host)
       \/ /\ host.journalPhase # "none" \/ host.temp
          /\ Return(l, Block(host))
       \/ /\ host.journalPhase = "none" /\ ~host.temp
          /\ \/ /\ host' = written
                /\ prep' = [prep EXCEPT !.at = "persisted"]
                /\ UNCHANGED worker
             \/ \E h \in Faulty(host) \cup Faulty(written) : Return(l, Block(h))
    /\ UNCHANGED <<phase, pending, bound, blocked, promised, call, crashes>>

\* begin_session and start of the input seats; a refusal discards the record.
StartSeats(l) ==
    /\ prep = [launch |-> l, at |-> "persisted"]
    /\ \/ /\ host.seat = Nobody /\ ~host.fenced
          /\ host' = [host EXCEPT !.seat = l]
          /\ prep' = [prep EXCEPT !.at = "seated"]
          /\ UNCHANGED worker
       \/ \E s \in {host, [host EXCEPT !.seat = IF @ = Nobody THEN l ELSE @]} :
          \E h \in DiscardTo(s, "NoActive", Nobody) : Return(l, h)
    /\ UNCHANGED <<phase, pending, bound, blocked, promised, call, crashes>>

\* No second look at the reservation after the seats were acquired.
CheckCancelled_Skipped(l) ==
    /\ prep = [launch |-> l, at |-> "seated"]
    /\ prep' = [prep EXCEPT !.at = "clear"]
    /\ worker' = [worker EXCEPT ![l] = "launching"]
    /\ UNCHANGED <<phase, pending, bound, blocked, promised, call, crashes, host>>

\* The last cancellation check, after the seats were acquired.
CheckCancelled(l) ==
    /\ prep = [launch |-> l, at |-> "seated"]
    /\ IF Reservations!IsCancelled(l)
       THEN \E h \in DiscardTo(host, "NoActive", Nobody) : Return(l, h)
       ELSE /\ prep' = [prep EXCEPT !.at = "clear"]
            /\ worker' = [worker EXCEPT ![l] = "launching"]
            /\ UNCHANGED host
    /\ UNCHANGED <<phase, pending, bound, blocked, promised, call, crashes>>

\* A failed helper is taken as proof that nothing was started.
LaunchUnit_TrustsError(l) ==
    /\ prep = [launch |-> l, at |-> "clear"]
    /\ LET with(u) == [host EXCEPT !.unit[l] = u] IN
       \/ /\ host' = with("running")
          /\ prep' = [prep EXCEPT !.at = "launched"]
          /\ UNCHANGED worker
       \/ \E f \in Faulty(host) \cup Faulty(with("running")) :
          \E h \in DiscardTo(f, "NoActive", Nobody) : Return(l, h)
    /\ UNCHANGED <<phase, pending, bound, blocked, promised, call, crashes>>

\* backend.launch.  On an error the live units decide: a unit that is gone or
\* failed is discarded, one that is live after all blocks for recovery.
LaunchUnit(l) ==
    /\ prep = [launch |-> l, at |-> "clear"]
    /\ LET with(u) == [host EXCEPT !.unit[l] = u] IN
       \/ /\ host' = with("running")
          /\ prep' = [prep EXCEPT !.at = "launched"]
          /\ UNCHANGED worker
       \/ \E h \in DiscardTo(host, "NoActive", Nobody) : Return(l, h)
       \/ \E h \in DiscardTo(with("gone"), "Failed", l)
                   \cup {Block(f) : f \in Faulty(with("failed"))} : Return(l, h)
       \/ \E f \in Faulty(host) \cup Faulty(with("running")) : Return(l, Block(f))
    /\ UNCHANGED <<phase, pending, bound, blocked, promised, call, crashes>>

\* The first observation of the launched unit decides the session state.
ObserveUnit(l) ==
    /\ prep = [launch |-> l, at |-> "launched"]
    /\ LET seen == CASE host.unit[l] = "running" ->
                          {[Set(host, "Live", l) EXCEPT !.lease = l]}
                     [] host.unit[l] = "stopping" -> {Set(host, "Stopping", l)}
                     [] Completed(host, l) ->
                          DiscardTo(host, "NoActive", Nobody) \cup Faulty(host)
                     [] host.unit[l] = "failed" ->
                          DiscardTo(ClearFailed(host, l), "Failed", l)
                          \cup {Block(f) : f \in Faulty(host)}
       IN \E h \in seen \cup {Block(f) : f \in Faulty(host)} : Return(l, h)
    /\ UNCHANGED <<phase, pending, bound, blocked, promised, call, crashes>>

-----------------------------------------------------------------------------
(* Observing and stopping a session *)

\* Stops that this step leaves to host recovery with the unit running.
GivenUp == {m \in Launch : /\ host.kind = "Stopping" /\ host.launch = m
                           /\ host'.kind = "RecoveryBlocked" /\ host'.unit[m] = "running"}

\* A status poll, of the watcher or of a client.  A terminal status that a
\* client is given retires the reservation of its launch.
Status ==
    /\ Unlocked
    /\ \E r \in Refresh(host) : host' \in Observe(r)
    /\ LET l == host'.launch IN
       \/ UNCHANGED pending
       \/ /\ host'.kind \in {"Completed", "Failed"} /\ l \in pending
          /\ phase[l] \in Reservations!Committed
          /\ pending' = pending \ {l}
    /\ blocked' = blocked \cup GivenUp
    /\ UNCHANGED <<phase, bound, worker, promised, prep, call, crashes>>

\* The answer of an exact stop.  The worker of a cancelled launch reports it,
\* and notes when host recovery has to take over.
Answer(a, h) ==
    /\ host' = h
    /\ call' = [call EXCEPT ![a] = NoCall]
    /\ worker' = [w \in Launch |-> IF w = a THEN "done" ELSE worker[w]]
    /\ blocked' = blocked \cup GivenUp \cup
         {m \in {a} \cap Launch : host'.kind \in {"RecoveryPending", "RecoveryBlocked"}}

\* observe_stop under the lock: only the exact live session starts a stop, and
\* gives up its input before the lock is released.
StopBegin(a, l) ==
    /\ call[a] = NoCall /\ Unlocked
    /\ a \in Launch => a = l /\ worker[l] = "stopping"
    /\ \E h \in Refresh(host) :
         CASE h.kind = "Live" /\ h.launch = l ->
                \/ \E f \in Faulty(h) : Answer(a, Block(f))
                \/ \E failing \in BOOLEAN :
                   \E s \in IF failing THEN StopSeatsErr(h, l) ELSE StopSeatsOk(h, l) :
                      /\ host' = Set(s, "Stopping", l)
                      /\ call' = [call EXCEPT ![a] = [at |-> "helper", launch |-> l,
                                    seatFailed |-> failing, ok |-> TRUE]]
                      /\ UNCHANGED <<worker, blocked>>
           [] h.kind \in {"Completed", "Failed"} /\ h.launch = l ->
                Answer(a, Set(h, "Completed", l))
           [] OTHER -> \E u \in Unlock(h) : Answer(a, u)
    /\ UNCHANGED <<phase, pending, bound, promised, prep, crashes>>

\* The stop helper, outside the lock.  It may fail with or without effect.
StopHelper(a) ==
    /\ call[a].at = "helper"
    /\ LET l == call[a].launch
           told == [host EXCEPT !.unit[l] = CASE @ = "running" -> "stopping"
                                              [] @ = "failed" -> "gone"
                                              [] OTHER -> @]
       IN \/ /\ host' = told
             /\ call' = [call EXCEPT ![a].at = "relock"]
          \/ /\ host' \in Faulty(host) \cup Faulty(told)
             /\ call' = [call EXCEPT ![a].at = "relock", ![a].ok = FALSE]
    /\ UNCHANGED <<resv, prep, crashes>>

\* The late half of a stop trusts that the session is still its own.
StopEnd_Unchecked(a) ==
    /\ call[a].at = "relock" /\ Unlocked
    /\ IF Completed(host, call[a].launch)
       THEN \E h \in CompleteTo(host, "Completed", call[a].launch) : Answer(a, h)
       ELSE Answer(a, host)
    /\ UNCHANGED <<phase, pending, bound, promised, prep, crashes>>

\* observe_stop takes the lock again.  Status may have collected the launch
\* and a replacement may run: only an unchanged session is touched.
StopEnd(a) ==
    /\ call[a].at = "relock" /\ Unlocked
    /\ LET l == call[a].launch
           over == host.kind \in {"Completed", "Failed"} /\ host.launch = l
           mine == host.kind = "Stopping" /\ host.launch = l
                   /\ host.journal \in {l, Nobody}
           proven == Completed(host, l)
       IN CASE over -> Answer(a, Set(host, "Completed", l))
            [] ~over /\ ~mine -> Answer(a, host)
            [] OTHER ->
                 \/ /\ ~call[a].seatFailed /\ proven
                    /\ \E h \in CompleteTo(host, "Completed", l) : Answer(a, h)
                 \/ /\ ~call[a].seatFailed
                    /\ IF call[a].ok THEN l \in LiveIds(host) ELSE host.unit[l] = "stopping"
                    /\ Answer(a, host)
                 \/ /\ \/ call[a].seatFailed
                       \/ ~call[a].ok /\ ~proven /\ host.unit[l] # "stopping"
                       \/ call[a].ok /\ host.unit[l] = "failed"
                    /\ Answer(a, Block(host))
                 \/ \E f \in Faulty(host) : Answer(a, Block(f))
    /\ UNCHANGED <<phase, pending, bound, promised, prep, crashes>>

-----------------------------------------------------------------------------
(* The environment *)

\* A unit exits, fails, is stopped behind korrid's back, or completes a stop.
UnitEnds(l) ==
    /\ l \in LiveIds(host)
    /\ \E u \in {"stopping", "gone", "failed"} \ {host.unit[l]} :
         host' = [host EXCEPT !.unit[l] = u]
    /\ UNCHANGED <<resv, prep, call, crashes>>

\* A seat request times out, or the connection to the receiver is lost.
Fence ==
    /\ ~host.fenced
    /\ \E f \in Faulty(host) : host' = [f EXCEPT !.fenced = TRUE]
    /\ UNCHANGED <<resv, prep, call, crashes>>

\* The journal may be in the middle of a write: persist_active, the result of a
\* stop of the live session, or the writes of completing and discarding.
MayWrite ==
    \/ prep.at = "committed"
    \/ host.journalPhase = "running" /\ (host.kind = "Live" \/ LiveIds(host) = {})

\* korrid dies.  Units, journal and the receiver's reservation stay, with the
\* temporary of a write; the lease socket closes and a fence is gone.
Crash ==
    /\ crashes < MaxCrashes
    /\ crashes' = crashes + 1
    /\ \E t \in {host.temp} \cup {b \in {TRUE} : MayWrite} :
         host' = [Set(host, "RecoveryPending", Nobody) EXCEPT
                    !.lease = Nobody, !.fenced = FALSE, !.temp = t]
    /\ prep' = NoPrep
    /\ call' = [a \in Actor |-> NoCall]
    /\ phase' = [l \in Launch |-> IF phase[l] = "None" THEN "None" ELSE "Lost"]
    /\ pending' = {}
    /\ worker' = [l \in Launch |-> IF worker[l] = "idle" THEN "idle" ELSE "done"]
    /\ promised' = [l \in Launch |-> IF promised[l] = "stop" THEN "nothing" ELSE promised[l]]
    /\ UNCHANGED <<bound, blocked>>

-----------------------------------------------------------------------------
WorkerStep(l) ==
    \/ RouteReady(l) \/ Finish(l)
    \/ Enter(l) \/ PersistActive(l) \/ StartSeats(l) \/ CheckCancelled(l)
    \/ LaunchUnit(l) \/ ObserveUnit(l)
    \/ StopBegin(l, l) \/ StopHelper(l) \/ StopEnd(l)

ClientStop(a) == StopHelper(a) \/ StopEnd(a)

Next ==
    \/ \E l \in Launch, c \in Caller, g \in Game : Reserve(l, c, g) \/ Start(l, c, g)
    \/ \E l \in Launch, c \in Caller : CancelBeforeCommit(l, c) \/ CancelAfterCommit(l, c)
    \/ \E l \in Launch : WorkerStep(l) \/ UnitEnds(l)
    \/ \E a \in Client : ClientStop(a) \/ \E l \in Launch : StopBegin(a, l)
    \/ Status \/ Fence \/ Crash

Spec == Init /\ [][Next]_hvars

\* Workers and stop calls run on, the portal watcher polls the session every
\* second, and a unit that is told to stop ends.
FairSpec ==
    /\ Spec
    /\ \A l \in Launch : WF_hvars(WorkerStep(l))
                         /\ WF_hvars(host.unit[l] = "stopping" /\ UnitEnds(l))
    /\ \A a \in Client : WF_hvars(ClientStop(a))
    /\ WF_hvars(Status)

-----------------------------------------------------------------------------
(* Properties *)

\* A live unit is always journaled as running, so a crash at any step of
\* preparing, stopping or completing leaves no game korrid does not know of.
UnitIsJournaled ==
    \A l \in LiveIds(host) : host.journal = l /\ host.journalPhase = "running"

\* The session never forgets a live unit: unless it is unresolved, or the
\* launch is just being prepared, the state names that unit.
LiveUnitIsTracked ==
    \A l \in LiveIds(host) :
        \/ host.kind \in {"Live", "Stopping"} /\ host.launch = l
        \/ host.kind \in {"RecoveryPending", "RecoveryBlocked"}
        \/ prep = [launch |-> l, at |-> "launched"]

\* Player input follows the session: the receiver reserves its seats only for
\* the journaled launch, and a lease that can still feed a game belongs to it
\* and to the live session, unless recovery is unresolved.  (A lease without
\* a reservation is a closed socket.)
InputFollowsSession ==
    /\ host.seat # Nobody => host.seat = host.journal
    /\ host.lease # Nobody /\ host.lease = host.seat =>
          \/ host.kind \in {"Live", "Stopping"} /\ host.launch = host.lease
          \/ host.kind \in {"RecoveryPending", "RecoveryBlocked"}

\* Unit, journal, session state and player input agree on which game runs, after
\* every failing call, crash and late stop.
SessionAgrees == UnitIsJournaled /\ LiveUnitIsTracked /\ InputFollowsSession

\* A stop helper that returns late leaves a replacement session alone: its
\* state, its journal, its input and its unit.
LateStopIsHarmless ==
    [][\A a \in Actor :
         /\ call[a].at = "relock" /\ call'[a].at = "idle"
         /\ host.launch # call[a].launch /\ crashes' = crashes
         => host' = host]_hvars

\* The session implements the contract that the reservations rely on.
ReservationContract == Reservations!Spec

\* An accepted stop does not hang: the session leaves Stopping.
StopSettles ==
    \A l \in Launch :
        (host.kind = "Stopping" /\ host.launch = l)
            ~> ~(host.kind = "Stopping" /\ host.launch = l)

\* Unresolved recovery heals by itself once the external calls work again:
\* whatever failed or crashed, the watcher's polls lead back to a session
\* whose state is known.  Two things are not healed: a fence, which only a
\* restart lifts, and a temporary left beside the journal of a live game, for as
\* long as the game runs.
RecoveryResolves ==
    host.kind \in {"RecoveryPending", "RecoveryBlocked"}
        ~> \/ host.kind \notin {"RecoveryPending", "RecoveryBlocked"}
           \/ host.fenced
           \/ [](host.temp /\ LiveIds(host) # {})

\* The session comes to rest: no stop hangs, and no recovery stays unresolved
\* that does not wait for a restart or for the end of its game.
SessionSettles == StopSettles /\ RecoveryResolves
==============================================================================
