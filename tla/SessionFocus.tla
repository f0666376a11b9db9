----------------------------- MODULE SessionFocus -----------------------------
(***************************************************************************)
(* Who has the screen and the controllers: the running game or the portal.  *)
(* Leaving a game dims it, freezes its unit, gives the input back to the    *)
(* portal, thaws the portal and raises it; returning does the reverse, and  *)
(* while a focused game runs the portal itself is frozen.  Each of these is *)
(* a chain of calls to systemd, to the compositor and to the input seats,   *)
(* and any of them may fail and leave its effect half done.                 *)
(*                                                                         *)
(* Every operation holds the session mutex from its first call to its last, *)
(* so it is one step; its chain is built from the outcomes of the calls     *)
(* (Then, Catch, Always), and the step picks one of the outcomes.  Only the *)
(* stop helper runs without the mutex.                                      *)
(*                                                                         *)
(* Simplifications: one game at a time and no name for it (HostSession has  *)
(* the identities); the portal has a freezer and a native input source; a   *)
(* live game has a window; no remote device is selected to play on; at most *)
(* MaxFaults calls fail, so that from some time on they all work; a panic   *)
(* of an operation is a Crash.                                              *)
(***************************************************************************)
EXTENDS Naturals

CONSTANT MaxFaults   \* how many failing calls, coordinator losses and crashes there are
ASSUME MaxFaultsAssumption == MaxFaults \in Nat

VARIABLES
    w,        \* the world: see World
    helper    \* the stop helper, outside the mutex: see Helper

vars == <<w, helper>>

Phases == {"Running", "Frozen", "FocusFailed", "Stopping", "Gone", "Blocked"}
Live   == {"running", "frozen", "transition"}

Fields == [phase : Phases,                                 \* ActiveState
           unit : Live \cup {"stopping", "gone", "failed"}, \* the game's unit
           dim : BOOLEAN,                                  \* its window is dimmed
           focus : BOOLEAN,                                \* its window has the focus
           route : {"game", "portal"},                     \* where the seats' input goes
           fenced : BOOLEAN,                               \* the seats are fenced
           seat : {"live", "dead", "none"},                \* seat_lease
           applied : {"Unknown", "Frozen", "Thawed"},      \* PortalFreezerState
           portal : BOOLEAN,                               \* the portal's unit is frozen
           native : BOOLEAN,                               \* native input reaches the portal
           roll : BOOLEAN,                                 \* dim_rollback
           lost : BOOLEAN,                                 \* history: Blocked since this game began
           faults : 0..MaxFaults]                          \* failures still to come

\* A remembered "Thawed" is relied on: no thaw is tried then.
World == {s \in Fields : s.applied = "Thawed" => ~s.portal}

\* "asked" is before the helper ran; seats: stop_seats worked; mine: the game it
\* was asked to stop is still the tracked one.
Helper == [at : {"none", "asked", "ok", "err"}, seats : BOOLEAN, mine : BOOLEAN]
Idle   == [at |-> "none", seats |-> TRUE, mine |-> TRUE]

-----------------------------------------------------------------------------
(* Outcomes.  An outcome is a world, whether the chain goes on, and whether *)
(* the guard reconciles when the mutex is released.                         *)

Go(s)     == {[s |-> s, ok |-> TRUE, rec |-> TRUE]}
Fail(s)   == {[s |-> s, ok |-> FALSE, rec |-> TRUE]}
Settled(s) == {[s |-> s, ok |-> TRUE, rec |-> FALSE]}
Leaves(s)  == {[s |-> s, ok |-> FALSE, rec |-> FALSE]}

Then(R, Op(_))   == UNION {IF r.ok THEN Op(r.s) ELSE {r} : r \in R}
Catch(R, Op(_))  == UNION {IF r.ok THEN {r} ELSE Op(r.s) : r \in R}
Always(R, Op(_)) == UNION {Op(r.s) : r \in R}

\* What happens instead if a call fails; a failure uses up one fault.
Lossy(s, Op(_)) == IF s.faults = 0 THEN {} ELSE Op([s EXCEPT !.faults = @ - 1])

\* A call that works, or fails in one of the given worlds.
Call(good, bad) == Go(good) \cup UNION {Lossy(b, Fail) : b \in bad}

At(s, p) == [s EXCEPT !.phase = p, !.lost = @ \/ p = "Blocked"]

\* The unit has ended, and its window with it.
Dead(s, u) == [s EXCEPT !.unit = u, !.dim = FALSE, !.focus = FALSE]

-----------------------------------------------------------------------------
(* The calls. *)

\* InputSeatManager::route and ready: refused, or never acknowledged and fenced;
\* the receiver of a lost coordinator has taken the input from the game (InputSeats).
Fence(s) == [s EXCEPT !.fenced = TRUE, !.route = "portal"]
Route(s, x) ==
    IF s.fenced THEN Fail(s) ELSE Call([s EXCEPT !.route = x], {s, Fence(s)})
SeatsReady(s) == IF s.fenced THEN Fail(s) ELSE Call(s, {s})

\* stop_seats, ensure_seats, reset_seats.
StopSeats(s) ==
    Then(Route(s, "portal"),
         LAMBDA t : IF t.seat = "none" THEN Go(t)
                    ELSE Call([t EXCEPT !.seat = "none"], {[t EXCEPT !.seat = "none"]}))
EnsureSeats(s) ==
    IF s.seat = "live" THEN Go(s)
    ELSE IF s.fenced THEN Fail([s EXCEPT !.seat = "none"])
    ELSE Call([s EXCEPT !.seat = "live"], {[s EXCEPT !.seat = "none"]})
ResetSeats(s) == IF s.seat = "live" THEN Call(s, {s}) ELSE Fail(s)

\* game_opacity: a failing command may still have been carried out.
Opacity(s, dim) ==
    IF s.unit \in {"gone", "failed"} THEN Go(s)
    ELSE Call([s EXCEPT !.dim = dim], {s, [s EXCEPT !.dim = dim]})

\* The freezer of the game's unit: a failing helper leaves it anywhere.
Freezer(s, u) ==
    IF s.unit \notin Live THEN Fail(s)
    ELSE Call([s EXCEPT !.unit = u],
              {[s EXCEPT !.unit = v] : v \in Live} \cup {Dead(s, v) : v \in {"gone", "failed"}})

\* place_overlay raises the portal; focus_launch raises the game, at full opacity.
PlaceOverlay(s) == Call([s EXCEPT !.focus = FALSE], {s, [s EXCEPT !.focus = FALSE]})
FocusLaunch(s) ==
    IF s.unit \notin Live THEN Fail(s)
    ELSE Call([s EXCEPT !.focus = TRUE, !.dim = FALSE],
              {s, [s EXCEPT !.dim = FALSE], [s EXCEPT !.focus = TRUE, !.dim = FALSE]})

\* complete_active ends the session of the seats first: not while they are fenced.
Complete(s) ==
    LET b == At(s, "Blocked")
    IN  IF s.fenced THEN Fail(b)
        ELSE Call([s EXCEPT !.phase = "Gone", !.route = "portal"], {b, Fence(b)})

\* fail_active: the failed unit is cleared, then its session is completed.
FailActive(s) ==
    Catch(Then(StopSeats(s),
               LAMBDA t : Then(Call([t EXCEPT !.unit = "gone"], {t}), Complete)),
          LAMBDA t : Fail(At(t, "Blocked")))

-----------------------------------------------------------------------------
(* The portal's freezer and its native input. *)

\* thaw_portal_unit.
ThawPortalUnit(s) ==
    IF s.applied = "Thawed" THEN Go(s)
    ELSE Call([s EXCEPT !.applied = "Thawed", !.portal = FALSE],
              {[s EXCEPT !.applied = "Unknown"], [s EXCEPT !.applied = "Unknown", !.portal = FALSE]})

\* emergency_thaw_portal: the seats are lost, only the unit is thawed.
EmergencyThaw(s) == ThawPortalUnit(Fence(s))

\* thaw_portal: native input resumes only after the game has lost the route.
ThawPortal(s) ==
    UNION {IF r.ok THEN Then(ThawPortalUnit(r.s), LAMBDA t : Go([t EXCEPT !.native = TRUE]))
           ELSE IF r.s.fenced THEN Always(EmergencyThaw(r.s), Fail)
           ELSE {r} : r \in Route(s, "portal")}

\* retire_native: suspend, and when that is not acknowledged undo it.
RetireNative(s) ==
    LET off == [s EXCEPT !.native = FALSE]
        undo(u) == Always(Then(Route(u, "portal"), LAMBDA t : Go([t EXCEPT !.native = TRUE])), Fail)
    IN  IF s.native THEN Go(off) \cup Lossy(off, undo) ELSE undo(off)

\* The freeze was attempted; until the focus leaves it is not tried again.
Attempted(s) == [s EXCEPT !.applied = "Frozen"]

X_Refused(s) == Call(Attempted([s EXCEPT !.portal = TRUE]), {s, [s EXCEPT !.portal = TRUE]})

\* The portal's unit is frozen; one that refuses may be frozen half way.
FreezePortal(s) ==
    Call(Attempted([s EXCEPT !.portal = TRUE]),
         {[s EXCEPT !.applied = "Unknown"], [s EXCEPT !.applied = "Unknown", !.portal = TRUE]})

\* The tail of reconcile_local_portal_observed: freeze the portal under a game.
FreezeUnderGame(s) ==
    Catch(FreezePortal(s),
          LAMBDA t : Then(Then(ThawPortal(t), LAMBDA u : Route(u, "game")),
                          LAMBDA u : Go(Attempted(u))))

\* reconcile_local_portal_observed, while the seats work.
FollowFocus(s, owns) ==
    IF ~(s.phase = "Running" /\ owns) THEN ThawPortal(s)
    ELSE Then(Then(IF s.applied = "Unknown" THEN ThawPortal(s) ELSE Go(s),
                   LAMBDA t : Route(t, "game")),
              LAMBDA t : IF t.applied = "Frozen" THEN Go(t)
                         ELSE Then(RetireNative(t), FreezeUnderGame))

X_FencedIsOver(s, owns) == IF s.fenced THEN Fail(s) ELSE FollowFocus(s, owns)

\* reconcile_local_portal_observed.
ReconcileObserved(s, owns) ==
    IF s.fenced THEN Always(EmergencyThaw(s), Fail) ELSE FollowFocus(s, owns)

\* current_focus_ownership; a focus that cannot be read is nobody's.
Reconcile(s) ==
    ReconcileObserved(s, s.focus /\ s.unit \in Live)
    \cup (IF s.focus THEN Lossy(s, LAMBDA t : ReconcileObserved(t, FALSE)) ELSE {})

-----------------------------------------------------------------------------
(* Repairs. *)

\* refreeze_after_opacity_failure.
Refreeze(s) ==
    UNION {Fail(At(r.s, IF r.ok THEN "Frozen" ELSE "Blocked")) :
           r \in Then(Freezer(s, "frozen"), StopSeats)}

X_LeaveDimmed(s) ==
    UNION {IF r.ok THEN Go(At(r.s, "FocusFailed")) ELSE Fail(At(r.s, "Blocked")) : r \in StopSeats(s)}

\* record_focus_failure: the game keeps running, but without its seat and undimmed.
RecordFocusFailure(s) ==
    UNION {IF ~r.ok THEN Refreeze(r.s)
           ELSE UNION {IF q.ok THEN Go(At(q.s, "FocusFailed")) ELSE Fail(At(q.s, "Blocked")) :
                       q \in StopSeats(r.s)} : r \in Opacity(s, FALSE)}

\* LaunchUnitBackend::stop thaws a frozen unit first; it may time out half way.
StopUnit(s) ==
    IF s.unit \in {"gone", "failed"} THEN Call([s EXCEPT !.unit = "gone"], {s})
    ELSE Go(Dead(s, "gone"))
         \cup Call([s EXCEPT !.unit = "stopping"],
                   {[s EXCEPT !.unit = v] : v \in {s.unit, "running", "stopping"}} \cup {Dead(s, "gone")})

\* stop_game_after_seat_failure.
StopGame(s) ==
    LET stopped == Then(Always(StopSeats(s), LAMBDA t : Call(t, {t})), StopUnit)
    IN  UNION {IF r.s.unit = "gone" THEN Complete(r.s)
               ELSE IF r.ok THEN Go(At(r.s, "Stopping")) \cup Lossy(At(r.s, "Blocked"), Fail)
               ELSE Fail(At(r.s, "Blocked")) : r \in stopped}

\* recover, when the session is blocked.
Recover(s) ==
    Lossy(s, LAMBDA t : {t})
    \cup CASE s.unit = "running" -> IF s.focus THEN {At(s, "Running")} \cup Lossy(s, LAMBDA t : {At(t, "FocusFailed")})
                                    ELSE {At(s, "FocusFailed")}
           [] s.unit \in {"frozen", "transition"} -> {At(s, "Frozen")}
           [] s.unit = "stopping" -> {At(s, "Stopping")}
           [] OTHER -> {r.s : r \in Complete([s EXCEPT !.unit = "gone"])}
Refresh(s) == IF s.phase = "Blocked" THEN Recover(s) ELSE {s}

\* Dropping SessionStateGuard.
Drop(r) ==
    IF ~r.rec THEN {r.s}
    ELSE {q.s : q \in Catch(Reconcile(r.s),
                  LAMBDA t : Always(IF t.phase = "Running" THEN RecordFocusFailure(t) ELSE Go(t),
                                    ThawPortal))}
Release(R) == UNION {Drop(r) : r \in R}

-----------------------------------------------------------------------------
(* The operations on a game. *)

\* The unit as the operation reads it: a live one lets it go on.
Read(s) ==
    Lossy(At(s, "Blocked"), Fail)
    \cup CASE s.unit \in Live     -> Go(s)
           [] s.unit = "stopping" -> Always(StopSeats(s), LAMBDA t : Fail(At(t, "Stopping")))
           [] s.unit = "gone"     -> Always(Catch(Then(StopSeats(s), Complete),
                                                  LAMBDA t : Fail(At(t, "Blocked"))),
                                            Fail)
           [] OTHER               -> Always(FailActive(s), Fail)

\* After a failing freezer call: only a game that ended changes the phase.
Reread(s) == Always(Read(s), Fail)

\* Leaving failed after the game was frozen: give the game back.
UndoLeave(s) ==
    UNION {IF ~r.ok THEN Always(StopGame(r.s), Leaves)
           ELSE Always(Catch(Then(Then(Then(EnsureSeats(At(r.s, "Running")),
                                            LAMBDA t : Route(t, "game")),
                                       ResetSeats),
                                  LAMBDA t : Then(FocusLaunch(t),
                                                  LAMBDA u : Go([u EXCEPT !.roll = FALSE]))),
                             RecordFocusFailure),
                       Leaves)
           : r \in Freezer(s, "running")}

\* Every failing Leave restores the dimmed window, or pauses the game.
Rollback(s) ==
    IF ~s.roll \/ s.phase = "Gone" THEN Go(s)
    ELSE UNION {IF r.ok THEN Go(r.s)
                ELSE {[q EXCEPT !.s.phase = IF s.phase = "Blocked" THEN "Blocked" ELSE @] :
                      q \in Refreeze(r.s)} : r \in Opacity(s, FALSE)}

\* set_freezer_observed, frozen.
LeaveGame(s) ==
    LET dimmed   == Opacity([s EXCEPT !.roll = TRUE], TRUE)
        read     == Then(dimmed, Read)
        frozen   == Then(read, LAMBDA t : IF t.unit = "frozen" THEN Go(t)
                                          ELSE Catch(Freezer(t, "frozen"), Reread))
        portal   == Then(frozen, LAMBDA t :
                        Catch(Then(Then(Route(At(t, "Frozen"), "portal"), ThawPortal), PlaceOverlay),
                              UndoLeave))
        done     == Then(portal, LAMBDA t :
                        Catch(Then(Reconcile(t), Settled),
                              LAMBDA u : Always(RecordFocusFailure(u), Fail)))
    IN  UNION {IF r.ok THEN {r}
               ELSE {[q EXCEPT !.rec = r.rec] : q \in Rollback(r.s)} : r \in done}

\* set_freezer_observed, running.
ReturnToGame(s) ==
    LET ready   == Then(Read(s), SeatsReady)
        thawed  == Then(ready, LAMBDA t : IF t.unit = "running" THEN Go(t)
                        ELSE Catch(Freezer(t, "running"), LAMBDA u :
                                UNION {IF r.ok THEN Reread(r.s) ELSE Refreeze(r.s) : r \in Opacity(u, FALSE)}))
        focused == Then(thawed, LAMBDA t :
                        Catch(Then(Then(EnsureSeats(At(t, "Running")), ResetSeats), FocusLaunch),
                              LAMBDA u : Always(RecordFocusFailure(u), Fail)))
    IN  Then(focused, LAMBDA t :
             Catch(Then(Reconcile(t), Settled), LAMBDA u : Always(RecordFocusFailure(u), Fail)))

Operate(Op(_)) ==
    /\ \E s \in Refresh(w) :
        w' \in {[t EXCEPT !.roll = FALSE] :
                t \in Release(IF s.phase \in {"Running", "Frozen", "FocusFailed"} THEN Op(s) ELSE Fail(s))}
    /\ UNCHANGED helper

Leave  == Operate(LeaveGame)
Return == Operate(ReturnToGame)

\* invoke_running_effect: an effect on a game that may be frozen, which it wakes
\* for the time of the effect; wait_for_effect_completion when the game should end.
Restore(s, frozen, owned, had) ==
    IF owned THEN Always(StopSeats(s), LAMBDA t : Fail(At(t, "FocusFailed")))
    ELSE LET kept == IF had THEN Go(s) ELSE Always(StopSeats(s), Go)
         IN  IF ~frozen THEN Always(kept, Fail)
             ELSE Always(kept, LAMBDA t : UNION {Fail(At(r.s, IF r.ok THEN "Frozen" ELSE "Blocked")) :
                                                 r \in Freezer(t, "frozen")})

RefuseSeats(s, frozen, owned) ==
    IF owned THEN Always(StopSeats(s), LAMBDA t : Fail(At(t, "FocusFailed")))
    ELSE IF ~frozen THEN Fail(s)
    ELSE UNION {Fail(IF r.ok THEN At(r.s, "Frozen") ELSE r.s) : r \in Freezer(s, "frozen")}

\* wait_for_effect_completion: the game ends in time, or it is put back as it was.
Ended(s, frozen, owned, had) ==
    LET blocked(R) == Catch(R, LAMBDA t : Fail(At(t, "Blocked")))
        gone(t)    == blocked(Then(StopSeats(t), Complete))
        ending(t)  == blocked(Then(StopSeats(t), LAMBDA u : Go(At(u, "Stopping"))))
        back(t)    == IF owned THEN blocked(Then(StopSeats(t), LAMBDA u : Go(At(u, "FocusFailed"))))
                      ELSE IF ~frozen THEN Go(At(t, "Running"))
                      ELSE blocked(Then(Then(Freezer(t, "frozen"),
                                             LAMBDA u : IF had THEN Go(u) ELSE StopSeats(u)),
                                        LAMBDA u : Go(At(u, "Frozen"))))
    IN  gone(Dead(s, "gone")) \cup ending([s EXCEPT !.unit = "stopping"])
        \cup FailActive(Dead(s, "failed")) \cup back(s)
        \cup Lossy(At(s, "Blocked"), Fail)

EffectOn(s, after, waits) ==
    LET owned == s.phase = "FocusFailed"
        halted == s.unit \in {"frozen", "transition"}
        frozen == s.phase = "Frozen" \/ halted
        had    == s.seat = "live"
        awake  == Then(Call(s, {s}), LAMBDA t :
                     IF t.unit \notin Live
                     THEN CASE t.unit = "stopping" -> Fail(At(t, "Stopping"))
                            [] t.unit = "failed"   -> Always(FailActive(t), Fail)
                            [] OTHER -> Always(Always(StopSeats(t), Complete), LAMBDA u : Fail(At(u, "Gone")))
                     ELSE Then(SeatsReady(t), LAMBDA u :
                            IF halted THEN Then(Opacity(u, FALSE), LAMBDA v : Freezer(v, "running")) ELSE Go(u)))
        seated == Then(awake, LAMBDA t : Catch(EnsureSeats(At(t, "Running")),
                                               LAMBDA u : RefuseSeats(u, frozen, owned)))
        done   == Then(seated, LAMBDA t : Catch(Call(t, {t}), LAMBDA u : Restore(u, frozen, owned, had)))
    IN  Then(done, LAMBDA t :
            IF waits THEN Ended(t, frozen, owned, had)
            ELSE IF frozen THEN UNION {Go(At(r.s, IF r.ok THEN "Frozen" ELSE "Blocked")) : r \in Freezer(t, "frozen")}
            ELSE IF after THEN Catch(FocusLaunch(t), RecordFocusFailure)
            ELSE Go(t))

Effect == \E after, waits \in BOOLEAN : Operate(LAMBDA s : EffectOn(s, after, waits))

-----------------------------------------------------------------------------
(* Observing. *)

X_Unobserved(s) ==
    IF s.unit \in Live THEN Go(s) ELSE Always(StopSeats(s), LAMBDA t : Go(At(t, "Stopping")))

\* observe_status_locked, up to the reconciliation.
Observed(s) ==
    IF s.phase \notin {"Running", "Frozen", "FocusFailed", "Stopping"} THEN Go(s)
    ELSE Lossy(At(s, "Blocked"), Go)
         \cup CASE s.unit = "running" /\ s.phase # "FocusFailed" /\ s.phase # "Stopping" -> Go(At(s, "Running"))
                [] s.unit \in {"frozen", "transition"} /\ s.phase # "Stopping" -> Go(At(s, "Frozen"))
                [] s.unit = "stopping" -> Always(StopSeats(s), LAMBDA t : Go(At(t, "Stopping")))
                [] s.unit = "gone"     -> Catch(Then(StopSeats(s), Complete), LAMBDA t : Fail(At(t, "Blocked")))
                [] s.unit = "failed"   -> FailActive(s)
                [] OTHER               -> Go(s)

\* watcher_status, the portal's own poll included: focus is inspected, and the
\* guard has nothing left to do.
WatchOn(s) ==
    Always(Always(Observed(s), LAMBDA t : Catch(Reconcile(t), LAMBDA u :
                IF u.phase = "Running" THEN RecordFocusFailure(u) ELSE Fail(u))),
           Settled)
Watch ==
    /\ \E s \in Refresh(w) : w' \in Release(WatchOn(s))
    /\ UNCHANGED helper

\* control_status: no focus is inspected and nothing is reconciled.
ControlStatus ==
    /\ \E s \in Refresh(w) : w' \in Release(Always(Observed(s), Settled))
    /\ UNCHANGED helper

-----------------------------------------------------------------------------
(* Launching and stopping. *)

\* The end of a successful prepare: the unit runs and the session is tracked.
Prepare ==
    /\ w.phase = "Gone" /\ w.unit = "gone" /\ ~w.fenced
    /\ LET s == [w EXCEPT !.phase = "Running", !.unit = "running", !.seat = "live", !.lost = FALSE]
       IN  w' \in Release(Catch(Reconcile(s), LAMBDA t : Always(RecordFocusFailure(t), Fail)))
    /\ helper' = [helper EXCEPT !.mine = FALSE]

\* observe_stop, up to the release of the mutex.  One stop helper at a time.
StopBegin ==
    /\ helper.at = "none"
    /\ \E s \in Refresh(w) :
        /\ s.phase \in {"Running", "Frozen", "FocusFailed"}
        /\ \E r \in Then(Opacity(s, FALSE), LAMBDA t : Call(t, {t})) :
            IF ~r.ok THEN w' \in Release(Fail(At(r.s, "Blocked"))) /\ helper' = helper
            ELSE \E q \in StopSeats(At(r.s, "Stopping")) :
                   /\ w' \in Release({q})
                   /\ helper' = [at |-> "asked", seats |-> q.ok, mine |-> TRUE]

\* The helper, while any other operation may run; a late one finds its unit gone.
StopHelper ==
    /\ helper.at = "asked"
    /\ \E r \in IF helper.mine THEN StopUnit(w) ELSE Call(w, {w}) :
        /\ w' = r.s
        /\ helper' = [helper EXCEPT !.at = IF r.ok THEN "ok" ELSE "err"]

X_StopAnyone(s) ==
    IF helper.at = "ok" /\ helper.seats THEN Complete(s) ELSE Fail(At(s, "Blocked"))

\* observe_stop, after the helper: only the game it was asked for is touched.
StopEndOn(s) ==
    IF s.phase # "Stopping" \/ ~helper.mine THEN Settled(s)
    ELSE Lossy(At(s, "Blocked"), Fail)
         \cup IF ~helper.seats THEN Fail(At(s, "Blocked"))
              ELSE CASE s.unit = "gone"     -> Complete(s)
                     [] s.unit = "stopping" -> Go(s)
                     [] s.unit \in Live     -> IF helper.at = "ok" THEN Go(s) ELSE Fail(At(s, "Blocked"))
                     [] OTHER               -> Fail(At(s, "Blocked"))
StopEnd ==
    /\ helper.at \in {"ok", "err"}
    /\ w' \in Release(StopEndOn(w))
    /\ helper' = Idle

-----------------------------------------------------------------------------
(* The environment. *)

UnitEnds ==
    /\ w.unit \in Live \cup {"stopping"}
    /\ \E u \in {"gone", "failed"} : w' = Dead(w, u)
    /\ UNCHANGED helper

UnitSettles ==
    /\ w.unit = "transition"
    /\ \E u \in {"running", "frozen"} : w' = [w EXCEPT !.unit = u]
    /\ UNCHANGED helper

\* The player, or the game's first window, moves the focus.
FocusMoves ==
    /\ w.unit \in Live
    /\ w' = [w EXCEPT !.focus = ~@]
    /\ UNCHANGED helper

LeaseDies ==
    /\ w.seat = "live"
    /\ w' = [w EXCEPT !.seat = "dead"]
    /\ UNCHANGED helper

\* The inputd coordinator is lost: the seats are fenced (InputSeats).
CoordinatorLost ==
    /\ ~w.fenced
    /\ w' \in Lossy(w, LAMBDA s : {Fence(s)})
    /\ UNCHANGED helper

\* korrid dies, perhaps in the middle of an operation, and starts again: the
\* units and the windows are as the operation left them.
Crash ==
    /\ w.faults > 0
    /\ \E u \in IF w.unit \in Live THEN Live ELSE {w.unit}, p \in BOOLEAN :
       \E d \in IF w.unit \in Live THEN BOOLEAN ELSE {FALSE} :
         w' = [w EXCEPT !.phase = "Blocked", !.unit = u, !.dim = d, !.portal = p,
                        !.applied = "Unknown", !.native = TRUE, !.route = "portal",
                        !.fenced = FALSE, !.seat = "none", !.lost = TRUE, !.faults = @ - 1]
    /\ helper' = Idle

-----------------------------------------------------------------------------
Init ==
    /\ \E p \in BOOLEAN :
         w = [phase |-> "Gone", unit |-> "gone", dim |-> FALSE, focus |-> FALSE,
              route |-> "portal", fenced |-> FALSE, seat |-> "none", applied |-> "Unknown",
              portal |-> p, native |-> TRUE, roll |-> FALSE, lost |-> FALSE,
              faults |-> MaxFaults]
    /\ helper = Idle

Next ==
    \/ Leave \/ Return \/ Effect \/ Watch \/ ControlStatus
    \/ Prepare \/ StopBegin \/ StopHelper \/ StopEnd
    \/ UnitEnds \/ UnitSettles \/ FocusMoves \/ LeaseDies \/ CoordinatorLost \/ Crash

\* The portal watch runs on a timer for as long as korrid does.
Spec == Init /\ [][Next]_vars /\ WF_vars(Watch)

-----------------------------------------------------------------------------
\* The session, the units and the stop helper keep their types, and a portal that is
\* remembered as thawed is not frozen: thaw_portal_unit relies on it and skips the
\* thaw, so a freeze that was refused half way must never be remembered as nothing.
TypeOK ==
    /\ w \in World
    /\ helper \in Helper

\* A running game is never left dimmed: every failing Leave restores the window, or
\* pauses the game when it cannot (record_focus_failure, dim_rollback), unless the
\* session was given up as RecoveryBlocked or korrid died in the meantime.
DimmedIsPaused == w.dim /\ w.unit = "running" => w.lost

\* The controllers do not stay with a game that lost the focus, is frozen, is being
\* stopped or failed: after the last failure the portal watch takes them back.
InputComesBack ==
    w.route = "game" ~> (w.route = "portal" \/ (w.phase = "Running" /\ w.focus /\ w.unit = "running"))

\* A session is over only when its unit is gone, also when the stop helper of an
\* earlier game comes back while the next game runs.
OverWhenUnitIsGone == w.phase = "Gone" => w.unit = "gone"

\* A frozen portal is thawed, unless a focused and running game keeps it frozen:
\* whatever failed half way, a crash or the loss of the coordinator included.
PortalComesBack ==
    w.portal ~> (~w.portal \/ (w.phase = "Running" /\ w.focus /\ w.unit = "running"))

=============================================================================
