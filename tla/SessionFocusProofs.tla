-------------------------- MODULE SessionFocusProofs --------------------------
(***************************************************************************)
(* Proofs about SessionFocus, for any number of failing calls.             *)
(*                                                                         *)
(* An operation is a chain of calls, so the proof follows the chain: one   *)
(* lemma per operator says what its outcomes may have changed of the five  *)
(* fields that safety is about.  Most calls change none of them (Quiet).   *)
(* Between two operations the world is Sound; inside a Leave the game is   *)
(* dimmed while it still runs, and all that is kept is that the rollback   *)
(* is armed (Rough).                                                       *)
(***************************************************************************)
EXTENDS SessionFocus, TLAPS

-----------------------------------------------------------------------------
(* The inductive invariant. *)

Outcome == [s : World, ok : BOOLEAN, rec : BOOLEAN]

\* A window goes with its unit.
Windowed(t) == t \in World /\ (t.unit \in {"gone", "failed"} => ~t.dim)

\* What every world has between two calls.
Whole(t) ==
    /\ Windowed(t)
    /\ t.phase = "Gone" => t.unit = "gone"
    /\ t.phase = "Blocked" => t.lost

\* What every world has between two operations: a dimmed game is a frozen one that
\* nobody is stopping, or the session was given up.
Sound(t) ==
    /\ Whole(t)
    /\ t.dim => t.lost \/ (t.unit = "frozen" /\ t.phase # "Stopping")

\* Inside a Leave: the window is put back by the rollback, if it is still armed.
Rough(t) == Whole(t) /\ (~t.roll => Sound(t))

\* A stop helper that is still to run was asked to stop a game that is undimmed.
HelperOK ==
    /\ helper \in Helper
    /\ helper.at = "asked" /\ helper.mine => w.phase \in {"Stopping", "Gone"} \/ w.lost

IInv == Sound(w) /\ ~w.roll /\ HelperOK

-----------------------------------------------------------------------------
(* Calls. *)

\* Nothing that safety is about has changed.
Quiet(s, t) ==
    /\ t \in World
    /\ t.phase = s.phase /\ t.unit = s.unit /\ t.dim = s.dim
    /\ t.lost = s.lost /\ t.roll = s.roll

\* An outcome of such a call.
Mild(s, r) == r \in Outcome /\ r.rec /\ Quiet(s, r.s)

\* What is never taken back within an operation.
Keeps(s, t) == (s.lost => t.lost) /\ t.roll = s.roll

LEMMA QuietTrans == ASSUME NEW s, NEW t, NEW u, Quiet(s, t), Quiet(t, u) PROVE Quiet(s, u)
  BY DEF Quiet

LEMMA GoIs == ASSUME NEW s \in World, NEW r \in Go(s)
              PROVE  r \in Outcome /\ r.ok /\ r.rec /\ r.s = s
<1>1. r = [s |-> s, ok |-> TRUE, rec |-> TRUE]
  BY DEF Go
<1>2. r \in Outcome /\ r.s = s /\ r.ok = TRUE /\ r.rec = TRUE
  BY <1>1 DEF Outcome
<1> QED BY <1>2

LEMMA FailIs == ASSUME NEW s \in World, NEW r \in Fail(s)
                PROVE  r \in Outcome /\ ~r.ok /\ r.rec /\ r.s = s
<1>1. r = [s |-> s, ok |-> FALSE, rec |-> TRUE]
  BY DEF Fail
<1>2. r \in Outcome /\ r.s = s /\ r.ok = FALSE /\ r.rec = TRUE
  BY <1>1 DEF Outcome
<1> QED BY <1>2

LEMMA MildWorld == ASSUME NEW s, NEW r, Mild(s, r) PROVE r.s \in World
  BY DEF Mild, Quiet

LEMMA MildTrans == ASSUME NEW s, NEW q, NEW r, Mild(s, q), Mild(q.s, r) PROVE Mild(s, r)
  BY DEF Mild, Quiet

LEMMA MildGo == ASSUME NEW s, NEW t, Quiet(s, t), NEW r \in Go(t) \cup Fail(t) PROVE Mild(s, r)
<1>1. t \in World
  BY DEF Quiet
<1>2. r \in Outcome /\ r.rec /\ r.s = t
  BY <1>1, GoIs, FailIs
<1> QED BY <1>2 DEF Mild

LEMMA QuietRefl == ASSUME NEW s \in World PROVE Quiet(s, s)
  BY DEF Quiet

LEMMA SpentIs == ASSUME NEW s \in World, s.faults # 0
                 PROVE  Quiet(s, [s EXCEPT !.faults = @ - 1])
<1>1. s.faults \in 0..MaxFaults /\ s.faults - 1 \in 0..MaxFaults
  BY MaxFaultsAssumption DEF World, Fields
<1> QED BY <1>1 DEF World, Fields, Quiet

LEMMA LossyIs == ASSUME NEW s \in World, NEW r \in Lossy(s, Fail)
                 PROVE  r \in Outcome /\ ~r.ok /\ r.rec /\ Quiet(s, r.s)
<1>1. s.faults # 0 /\ r = [s |-> [s EXCEPT !.faults = @ - 1], ok |-> FALSE, rec |-> TRUE]
  BY DEF Lossy, Fail
<1> QED BY <1>1, SpentIs DEF Outcome, Quiet

\* A call works, or it fails in one of the given worlds.
LEMMA CallIs == ASSUME NEW good \in World, NEW bad \in SUBSET World, NEW r \in Call(good, bad)
                PROVE  /\ r \in Outcome /\ r.rec
                       /\ r.ok => r.s = good
                       /\ ~r.ok => \E b \in bad : Quiet(b, r.s)
<1>1. CASE r \in Go(good)
  BY <1>1, GoIs
<1>2. ASSUME NEW b \in bad, r \in Lossy(b, Fail)
      PROVE  r \in Outcome /\ r.rec /\ ~r.ok /\ Quiet(b, r.s)
  BY <1>2, LossyIs
<1> QED BY <1>1, <1>2 DEF Call

\* The same for a call that only does things of no concern here.
LEMMA QuietCall == ASSUME NEW s \in World, NEW good, NEW bad, Quiet(s, good),
                          \A b \in bad : Quiet(s, b), NEW r \in Call(good, bad)
                   PROVE  Mild(s, r)
<1>1. good \in World /\ bad \in SUBSET World
  BY DEF Quiet
<1>2. r \in Outcome /\ r.rec /\ (r.ok => r.s = good) /\ (~r.ok => \E b \in bad : Quiet(b, r.s))
  BY <1>1, CallIs
<1> QED BY <1>2, QuietTrans DEF Mild

LEMMA FenceIs == ASSUME NEW s \in World PROVE Quiet(s, Fence(s))
  BY DEF Quiet, Fence, World, Fields

LEMMA RouteIs == ASSUME NEW s \in World, NEW x \in {"game", "portal"}, NEW r \in Route(s, x)
                 PROVE  Mild(s, r)
<1>1. CASE s.fenced
  BY <1>1, MildGo, QuietRefl DEF Route
<1>2. CASE ~s.fenced
  <2>1. Quiet(s, [s EXCEPT !.route = x])
    BY DEF Quiet, World, Fields
  <2>2. r \in Call([s EXCEPT !.route = x], {s, Fence(s)})
    BY <1>2 DEF Route
  <2> QED BY <2>1, <2>2, QuietCall, QuietRefl, FenceIs
<1> QED BY <1>1, <1>2

LEMMA SeatsReadyIs == ASSUME NEW s \in World, NEW r \in SeatsReady(s)
                      PROVE  Mild(s, r)
  BY QuietCall, MildGo, QuietRefl DEF SeatsReady

LEMMA StopSeatsIs == ASSUME NEW s \in World, NEW r \in StopSeats(s)
                     PROVE  Mild(s, r)
<1>1. PICK q \in Route(s, "portal") :
        r \in IF q.ok THEN IF q.s.seat = "none" THEN Go(q.s)
                           ELSE Call([q.s EXCEPT !.seat = "none"], {[q.s EXCEPT !.seat = "none"]})
                      ELSE {q}
  BY DEF StopSeats, Then
<1>2. Mild(s, q) /\ q.s \in World
  BY RouteIs, MildWorld
<1>3. CASE ~q.ok
  BY <1>1, <1>2, <1>3
<1>4. CASE q.ok /\ q.s.seat = "none"
  BY <1>1, <1>2, <1>4, MildGo, QuietRefl, MildTrans
<1>5. CASE q.ok /\ q.s.seat # "none"
  <2>1. Quiet(q.s, [q.s EXCEPT !.seat = "none"])
    BY <1>2 DEF Quiet, World, Fields
  <2> QED BY <1>1, <1>2, <1>5, <2>1, QuietCall, MildTrans
<1> QED BY <1>3, <1>4, <1>5

LEMMA EnsureSeatsIs == ASSUME NEW s \in World, NEW r \in EnsureSeats(s)
                       PROVE  Mild(s, r)
<1>1. Quiet(s, [s EXCEPT !.seat = "none"]) /\ Quiet(s, [s EXCEPT !.seat = "live"])
  BY DEF Quiet, World, Fields
<1>2. [s EXCEPT !.seat = "none"] \in World
  BY <1>1 DEF Quiet
<1> QED BY <1>1, <1>2, QuietCall, MildGo, QuietRefl DEF EnsureSeats

LEMMA ResetSeatsIs == ASSUME NEW s \in World, NEW r \in ResetSeats(s)
                      PROVE  Mild(s, r)
  BY QuietCall, MildGo, QuietRefl DEF ResetSeats

LEMMA PlaceOverlayIs == ASSUME NEW s \in World, NEW r \in PlaceOverlay(s)
                        PROVE  Mild(s, r)
<1>1. Quiet(s, [s EXCEPT !.focus = FALSE])
  BY DEF Quiet, World, Fields
<1> QED BY <1>1, QuietCall, QuietRefl DEF PlaceOverlay

-----------------------------------------------------------------------------
(* The portal's freezer and its native input: nothing of the game changes. *)

LEMMA ThawPortalUnitIs == ASSUME NEW s \in World, NEW r \in ThawPortalUnit(s) PROVE Mild(s, r)
<1>1. CASE s.applied = "Thawed"
  BY <1>1, MildGo, QuietRefl DEF ThawPortalUnit
<1>2. CASE s.applied # "Thawed"
  <2>1. /\ Quiet(s, [s EXCEPT !.applied = "Thawed", !.portal = FALSE])
        /\ Quiet(s, [s EXCEPT !.applied = "Unknown"])
        /\ Quiet(s, [s EXCEPT !.applied = "Unknown", !.portal = FALSE])
    BY DEF Quiet, World, Fields
  <2> QED BY <1>2, <2>1, QuietCall DEF ThawPortalUnit
<1> QED BY <1>1, <1>2

LEMMA EmergencyThawIs == ASSUME NEW s \in World, NEW r \in Always(EmergencyThaw(s), Fail)
                         PROVE  Mild(s, r)
<1>1. PICK q \in ThawPortalUnit(Fence(s)) : r \in Fail(q.s)
  BY DEF Always, EmergencyThaw
<1>2. Quiet(s, Fence(s)) /\ Fence(s) \in World
  BY FenceIs DEF Quiet
<1>3. Quiet(s, q.s)
  BY <1>2, ThawPortalUnitIs, QuietTrans DEF Mild
<1> QED BY <1>1, <1>3, MildGo

\* Native input is switched on.
LEMMA NativeIs == ASSUME NEW s \in World, NEW t, Quiet(s, t), NEW r \in Go([t EXCEPT !.native = TRUE])
                  PROVE  Mild(s, r)
<1>1. Quiet(s, [t EXCEPT !.native = TRUE])
  BY DEF Quiet, World, Fields
<1> QED BY <1>1, MildGo

LEMMA ThawPortalIs == ASSUME NEW s \in World, NEW r \in ThawPortal(s) PROVE Mild(s, r)
<1>1. PICK q \in Route(s, "portal") :
        r \in IF q.ok THEN Then(ThawPortalUnit(q.s), LAMBDA t : Go([t EXCEPT !.native = TRUE]))
              ELSE IF q.s.fenced THEN Always(EmergencyThaw(q.s), Fail) ELSE {q}
  BY DEF ThawPortal
<1>2. Mild(s, q) /\ q.s \in World
  BY RouteIs, MildWorld
<1>3. CASE q.ok
  <2>1. PICK p \in ThawPortalUnit(q.s) : r \in IF p.ok THEN Go([p.s EXCEPT !.native = TRUE]) ELSE {p}
    BY <1>1, <1>3 DEF Then
  <2>2. Mild(q.s, p)
    BY <1>2, ThawPortalUnitIs
  <2>3. Mild(s, p) /\ Quiet(s, p.s)
    BY <1>2, <2>2, MildTrans DEF Mild
  <2> QED BY <2>1, <2>3, NativeIs
<1>4. CASE ~q.ok /\ q.s.fenced
  BY <1>1, <1>2, <1>4, EmergencyThawIs, MildTrans
<1>5. CASE ~q.ok /\ ~q.s.fenced
  BY <1>1, <1>2, <1>5
<1> QED BY <1>3, <1>4, <1>5

LEMMA RetireNativeIs == ASSUME NEW s \in World, NEW r \in RetireNative(s) PROVE Mild(s, r)
<1> DEFINE off == [s EXCEPT !.native = FALSE]
           undo(u) == Always(Then(Route(u, "portal"), LAMBDA t : Go([t EXCEPT !.native = TRUE])), Fail)
<1>1. Quiet(s, off)
  BY DEF Quiet, World, Fields
<1>2. ASSUME NEW u, Quiet(s, u), NEW q \in undo(u) PROVE Mild(s, q)
  <2>1. PICK p \in Then(Route(u, "portal"), LAMBDA t : Go([t EXCEPT !.native = TRUE])) : q \in Fail(p.s)
    BY <1>2 DEF Always
  <2>2. PICK o \in Route(u, "portal") : p \in IF o.ok THEN Go([o.s EXCEPT !.native = TRUE]) ELSE {o}
    BY <2>1 DEF Then
  <2>3. u \in World
    BY <1>2 DEF Quiet
  <2>4. Quiet(s, o.s) /\ Mild(s, o)
    BY <1>2, <2>3, RouteIs, QuietTrans DEF Mild
  <2>5. Quiet(s, p.s)
    BY <2>2, <2>4, NativeIs DEF Mild
  <2> QED BY <2>1, <2>5, MildGo
<1>3. CASE r \in Go(off)
  BY <1>1, <1>3, MildGo
<1>4. CASE r \in Lossy(off, undo)
  <2>1. off.faults # 0 /\ r \in undo([off EXCEPT !.faults = @ - 1])
    BY <1>4 DEF Lossy
  <2>2. Quiet(s, [off EXCEPT !.faults = @ - 1])
    <3>1. off \in World
      BY <1>1 DEF Quiet
    <3> HIDE DEF off
    <3> QED BY <1>1, <2>1, <3>1, SpentIs, QuietTrans
  <2> HIDE DEF undo, off
  <2> QED BY <1>2, <2>1, <2>2
<1>5. CASE r \in undo(off)
  <2> HIDE DEF undo, off
  <2> QED BY <1>1, <1>2, <1>5
<1> QED BY <1>3, <1>4, <1>5 DEF RetireNative

LEMMA FreezeUnderGameIs == ASSUME NEW s \in World, NEW r \in FreezeUnderGame(s) PROVE Mild(s, r)
<1>1. PICK q \in FreezePortal(s) :
        r \in IF q.ok THEN {q}
              ELSE Then(Then(ThawPortal(q.s), LAMBDA u : Route(u, "game")),
                        LAMBDA u : Go(Attempted(u)))
  BY DEF FreezeUnderGame, Catch
<1>2. ASSUME NEW t, Quiet(s, t), NEW p \in Go(Attempted(t)) PROVE Mild(s, p)
  <2>1. Quiet(s, Attempted(t))
    BY <1>2 DEF Quiet, World, Fields, Attempted
  <2> QED BY <1>2, <2>1, MildGo
<1>3. Mild(s, q)
  <2>1. /\ Quiet(s, Attempted([s EXCEPT !.portal = TRUE]))
        /\ Quiet(s, [s EXCEPT !.applied = "Unknown"])
        /\ Quiet(s, [s EXCEPT !.applied = "Unknown", !.portal = TRUE])
    BY DEF Quiet, World, Fields, Attempted
  <2> QED BY <2>1, QuietCall DEF FreezePortal
<1>4. CASE q.ok
  BY <1>1, <1>3, <1>4
<1>5. CASE ~q.ok
  <2>1. Quiet(s, q.s) /\ q.s \in World
    BY <1>3 DEF Quiet, Mild
  <2>2. PICK p \in Then(ThawPortal(q.s), LAMBDA v : Route(v, "game")) :
          r \in IF p.ok THEN Go(Attempted(p.s)) ELSE {p}
    BY <1>1, <1>5 DEF Then
  <2>3. PICK o \in ThawPortal(q.s) : p \in IF o.ok THEN Route(o.s, "game") ELSE {o}
    BY <2>2 DEF Then
  <2>4. Mild(s, o) /\ o.s \in World
    BY <2>1, ThawPortalIs, MildWorld, QuietTrans DEF Mild
  <2>5. Mild(s, p) /\ Quiet(s, p.s)
    BY <2>3, <2>4, RouteIs, MildTrans DEF Mild
  <2> QED BY <1>2, <2>2, <2>5
<1> QED BY <1>4, <1>5

LEMMA FollowFocusIs == ASSUME NEW s \in World, NEW owns \in BOOLEAN, NEW r \in FollowFocus(s, owns)
                       PROVE  Mild(s, r)
<1>1. CASE r \in ThawPortal(s)
  BY <1>1, ThawPortalIs
<1>2. CASE r \in Then(Then(IF s.applied = "Unknown" THEN ThawPortal(s) ELSE Go(s),
                           LAMBDA t : Route(t, "game")),
                      LAMBDA t : IF t.applied = "Frozen" THEN Go(t)
                                 ELSE Then(RetireNative(t), FreezeUnderGame))
  <2>1. PICK q \in Then(IF s.applied = "Unknown" THEN ThawPortal(s) ELSE Go(s), LAMBDA t : Route(t, "game")) :
          r \in IF q.ok THEN IF q.s.applied = "Frozen" THEN Go(q.s)
                             ELSE Then(RetireNative(q.s), FreezeUnderGame)
                ELSE {q}
    BY <1>2 DEF Then
  <2>2. PICK p \in IF s.applied = "Unknown" THEN ThawPortal(s) ELSE Go(s) :
          q \in IF p.ok THEN Route(p.s, "game") ELSE {p}
    BY <2>1 DEF Then
  <2>3. Mild(s, p) /\ p.s \in World
    BY <2>2, ThawPortalIs, MildGo, QuietRefl, MildWorld
  <2>4. Mild(s, q) /\ q.s \in World
    BY <2>2, <2>3, RouteIs, MildTrans, MildWorld
  <2>5. CASE r \in Then(RetireNative(q.s), FreezeUnderGame)
    <3>1. PICK o \in RetireNative(q.s) : r \in IF o.ok THEN FreezeUnderGame(o.s) ELSE {o}
      BY <2>5 DEF Then
    <3>2. Mild(s, o) /\ o.s \in World
      BY <2>4, RetireNativeIs, MildTrans, MildWorld
    <3> QED BY <3>1, <3>2, FreezeUnderGameIs, MildTrans
  <2>6. CASE r \in Go(q.s)
    BY <2>4, <2>6, MildGo DEF Mild
  <2> QED BY <2>1, <2>4, <2>5, <2>6
<1> QED BY <1>1, <1>2 DEF FollowFocus

LEMMA ReconcileObservedIs ==
    ASSUME NEW s \in World, NEW owns \in BOOLEAN, NEW r \in ReconcileObserved(s, owns)
    PROVE  Mild(s, r)
  BY EmergencyThawIs, FollowFocusIs DEF ReconcileObserved

LEMMA ReconcileIs == ASSUME NEW s \in World, NEW r \in Reconcile(s) PROVE Mild(s, r)
<1>1. CASE r \in ReconcileObserved(s, s.focus /\ s.unit \in Live)
  BY <1>1, ReconcileObservedIs
<1>2. CASE r \in Lossy(s, LAMBDA t : ReconcileObserved(t, FALSE))
  <2> DEFINE t == [s EXCEPT !.faults = @ - 1]
  <2>1. s.faults # 0 /\ r \in ReconcileObserved(t, FALSE)
    BY <1>2 DEF Lossy
  <2>2. Quiet(s, t) /\ t \in World
    BY <2>1, SpentIs DEF Quiet
  <2> HIDE DEF t
  <2>3. Mild(t, r)
    BY <2>1, <2>2, ReconcileObservedIs
  <2> QED BY <2>2, <2>3, QuietTrans DEF Mild
<1> QED BY <1>1, <1>2 DEF Reconcile

-----------------------------------------------------------------------------
(* Calls on the game. *)

LEMMA AtIs == ASSUME NEW s \in World, NEW p \in Phases
              PROVE  /\ At(s, p) \in World /\ At(s, p).phase = p
                     /\ At(s, p).unit = s.unit /\ At(s, p).dim = s.dim
                     /\ Keeps(s, At(s, p)) /\ (p = "Blocked" => At(s, p).lost)
<1>1. (s.lost \/ p = "Blocked") \in BOOLEAN
  OBVIOUS
<1>2. /\ At(s, p) \in World /\ At(s, p).phase = p /\ At(s, p).unit = s.unit
      /\ At(s, p).dim = s.dim /\ At(s, p).roll = s.roll
      /\ At(s, p).lost = (s.lost \/ p = "Blocked")
  BY <1>1 DEF At, World, Fields
<1> QED BY <1>2 DEF Keeps

LEMMA DeadIs == ASSUME NEW s \in World, NEW u \in {"gone", "failed"}
                PROVE  /\ Windowed(Dead(s, u)) /\ Dead(s, u).unit = u /\ ~Dead(s, u).dim
                       /\ Dead(s, u).phase = s.phase /\ Dead(s, u).lost = s.lost
                       /\ Dead(s, u).roll = s.roll
<1>1. /\ Dead(s, u) \in World /\ Dead(s, u).unit = u /\ Dead(s, u).dim = FALSE
      /\ Dead(s, u).phase = s.phase /\ Dead(s, u).lost = s.lost /\ Dead(s, u).roll = s.roll
  BY DEF Dead, World, Fields
<1> QED BY <1>1 DEF Windowed

\* A call on the unit or its window: it is never dimmed by one that should not.
Touches(s, t) ==
    /\ Windowed(t)
    /\ t.phase = s.phase /\ t.lost = s.lost /\ t.roll = s.roll

LEMMA QuietTouches == ASSUME NEW s, Windowed(s), NEW t, Quiet(s, t)
                      PROVE  Touches(s, t) /\ t.unit = s.unit /\ t.dim = s.dim
  BY DEF Windowed, Quiet, Touches

\* A world that differs only by its window is a touched one.
LEMMA DimIs == ASSUME NEW s, Windowed(s), NEW d \in BOOLEAN,
                      d => s.unit \notin {"gone", "failed"}
               PROVE  /\ Touches(s, [s EXCEPT !.dim = d])
                      /\ [s EXCEPT !.dim = d].unit = s.unit /\ [s EXCEPT !.dim = d].dim = d
<1>1. /\ [s EXCEPT !.dim = d] \in World
      /\ [s EXCEPT !.dim = d].unit = s.unit /\ [s EXCEPT !.dim = d].dim = d
      /\ [s EXCEPT !.dim = d].phase = s.phase /\ [s EXCEPT !.dim = d].lost = s.lost
      /\ [s EXCEPT !.dim = d].roll = s.roll
  BY DEF Windowed, World, Fields
<1> HIDE DEF Windowed
<1> QED BY <1>1 DEF Touches, Windowed

LEMMA OpacityIs == ASSUME NEW s, Windowed(s), NEW d \in BOOLEAN, NEW r \in Opacity(s, d)
                   PROVE  /\ r \in Outcome /\ r.rec
                          /\ Touches(s, r.s) /\ r.s.unit = s.unit
                          /\ r.s.dim => s.dim \/ d
                          /\ r.ok /\ ~d => ~r.s.dim
<1>1. s \in World
  BY DEF Windowed
<1>2. CASE s.unit \in {"gone", "failed"}
  <2>1. r \in Go(s)
    BY <1>2 DEF Opacity
  <2>2. r \in Outcome /\ r.rec /\ r.s = s
    BY <1>1, <2>1, GoIs
  <2> QED BY <1>1, <1>2, <2>2 DEF Touches, Windowed
<1>3. CASE s.unit \notin {"gone", "failed"}
  <2> DEFINE t == [s EXCEPT !.dim = d]
  <2>1. Touches(s, t) /\ t.unit = s.unit /\ t.dim = d /\ t \in World
    BY <1>3, DimIs DEF Touches, Windowed
  <2>2. r \in Call(t, {s, t})
    BY <1>3 DEF Opacity
  <2> HIDE DEF t
  <2>3. /\ r \in Outcome /\ r.rec /\ (r.ok => r.s = t)
        /\ ~r.ok => Quiet(s, r.s) \/ Quiet(t, r.s)
    <3>1. {s, t} \in SUBSET World
      BY <1>1, <2>1
    <3> QED BY <1>1, <2>1, <2>2, <3>1, CallIs
  <2>4. CASE r.ok
    BY <2>1, <2>3, <2>4
  <2>5. CASE ~r.ok
    BY <2>1, <2>3, <2>5, <1>3 DEF Quiet, Touches, Windowed
  <2> QED BY <2>4, <2>5
<1> QED BY <1>2, <1>3

LEMMA FocusLaunchIs == ASSUME NEW s, Windowed(s), NEW r \in FocusLaunch(s)
                       PROVE  /\ r \in Outcome /\ r.rec
                              /\ Touches(s, r.s) /\ r.s.unit = s.unit
                              /\ r.s.dim => s.dim
                              /\ r.ok => ~r.s.dim
<1>1. s \in World
  BY DEF Windowed
<1>2. CASE s.unit \notin Live
  <2>1. r \in Outcome /\ r.rec /\ r.s = s /\ ~r.ok
    BY <1>1, <1>2, FailIs DEF FocusLaunch
  <2> QED BY <2>1 DEF Touches
<1>3. CASE s.unit \in Live
  <2> DEFINE t == [s EXCEPT !.focus = TRUE, !.dim = FALSE]
             v == [s EXCEPT !.dim = FALSE]
  <2>1. Touches(s, t) /\ t.unit = s.unit /\ t.dim = FALSE /\ t \in World
    <3>1. /\ t \in World /\ t.unit = s.unit /\ t.dim = FALSE
          /\ t.phase = s.phase /\ t.lost = s.lost /\ t.roll = s.roll
      BY <1>1 DEF World, Fields
    <3> QED BY <3>1 DEF Touches, Windowed
  <2>2. Touches(s, v) /\ v.unit = s.unit /\ v.dim = FALSE /\ v \in World
    BY DimIs DEF Touches, Windowed
  <2>3. r \in Call(t, {s, v, t})
    BY <1>3 DEF FocusLaunch
  <2> HIDE DEF t, v
  <2>4. /\ r \in Outcome /\ r.rec /\ (r.ok => r.s = t)
        /\ ~r.ok => Quiet(s, r.s) \/ Quiet(v, r.s) \/ Quiet(t, r.s)
    <3>1. {s, v, t} \in SUBSET World
      BY <1>1, <2>1, <2>2
    <3> QED BY <2>1, <2>3, <3>1, CallIs
  <2>5. CASE r.ok
    BY <2>1, <2>4, <2>5
  <2>6. CASE ~r.ok
    BY <2>1, <2>2, <2>4, <2>6 DEF Quiet, Touches, Windowed
  <2> QED BY <2>5, <2>6
<1> QED BY <1>2, <1>3

LEMMA UnitIs == ASSUME NEW s, Windowed(s), NEW u \in Live \cup {"stopping"}
                PROVE  /\ Touches(s, [s EXCEPT !.unit = u])
                       /\ [s EXCEPT !.unit = u].unit = u /\ [s EXCEPT !.unit = u].dim = s.dim
<1>1. /\ [s EXCEPT !.unit = u] \in World
      /\ [s EXCEPT !.unit = u].unit = u /\ [s EXCEPT !.unit = u].dim = s.dim
      /\ [s EXCEPT !.unit = u].phase = s.phase /\ [s EXCEPT !.unit = u].lost = s.lost
      /\ [s EXCEPT !.unit = u].roll = s.roll
  BY DEF Windowed, World, Fields
<1> QED BY <1>1 DEF Touches, Windowed, Live

LEMMA FreezerIs == ASSUME NEW s, Windowed(s), NEW u \in {"running", "frozen"}, NEW r \in Freezer(s, u)
                   PROVE  /\ r \in Outcome /\ r.rec
                          /\ Touches(s, r.s)
                          /\ r.s.dim => s.dim
                          /\ r.ok => r.s.unit = u
<1>1. s \in World
  BY DEF Windowed
<1>2. CASE s.unit \notin Live
  <2>1. r \in Outcome /\ r.rec /\ r.s = s /\ ~r.ok
    BY <1>1, <1>2, FailIs DEF Freezer
  <2> QED BY <2>1 DEF Touches
<1>3. CASE s.unit \in Live
  <2> DEFINE t == [s EXCEPT !.unit = u]
             bad == {[s EXCEPT !.unit = v] : v \in Live} \cup {Dead(s, v) : v \in {"gone", "failed"}}
  <2>1. Touches(s, t) /\ t.unit = u /\ t.dim = s.dim /\ t \in World
    BY UnitIs DEF Touches, Windowed, Live
  <2>2. ASSUME NEW b \in bad PROVE b \in World /\ Touches(s, b) /\ (b.dim => s.dim)
    <3>1. ASSUME NEW v \in Live, b = [s EXCEPT !.unit = v]
          PROVE  b \in World /\ Touches(s, b) /\ (b.dim => s.dim)
      BY <3>1, UnitIs DEF Touches, Windowed
    <3>2. ASSUME NEW v \in {"gone", "failed"}, b = Dead(s, v)
          PROVE  b \in World /\ Touches(s, b) /\ (b.dim => s.dim)
      BY <1>1, <3>2, DeadIs DEF Touches, Windowed
    <3> QED BY <3>1, <3>2
  <2>3. r \in Call(t, bad)
    BY <1>3 DEF Freezer
  <2> HIDE DEF t, bad
  <2>4. /\ r \in Outcome /\ r.rec /\ (r.ok => r.s = t)
        /\ ~r.ok => \E b \in bad : Quiet(b, r.s)
    <3>1. bad \in SUBSET World
      BY <2>2
    <3> QED BY <2>1, <2>3, <3>1, CallIs
  <2>5. CASE r.ok
    BY <2>1, <2>4, <2>5
  <2>6. CASE ~r.ok
    <3>1. PICK b \in bad : Quiet(b, r.s)
      BY <2>4, <2>6
    <3> QED BY <2>2, <2>4, <2>6, <3>1 DEF Quiet, Touches, Windowed
  <2> QED BY <2>5, <2>6
<1> QED BY <1>2, <1>3

LEMMA StopUnitIs == ASSUME NEW s, Windowed(s), NEW r \in StopUnit(s)
                    PROVE  /\ r \in Outcome /\ r.rec /\ Touches(s, r.s) /\ (r.s.dim => s.dim)
                           /\ s.unit = "gone" => r.s.unit = "gone"
<1>1. s \in World
  BY DEF Windowed
<1>2. CASE s.unit \in {"gone", "failed"}
  <2> DEFINE t == [s EXCEPT !.unit = "gone"]
  <2>1. /\ t \in World /\ t.dim = s.dim /\ t.unit = "gone"
        /\ t.phase = s.phase /\ t.lost = s.lost /\ t.roll = s.roll
    BY <1>1 DEF World, Fields
  <2>2. r \in Call(t, {s})
    BY <1>2 DEF StopUnit
  <2> HIDE DEF t
  <2>3. /\ r \in Outcome /\ r.rec /\ (r.ok => r.s = t)
        /\ ~r.ok => Quiet(s, r.s)
    <3>1. {s} \in SUBSET World
      BY <1>1
    <3> QED BY <2>1, <2>2, <3>1, CallIs
  <2>4. ~s.dim
    BY <1>2 DEF Windowed
  <2> QED BY <2>1, <2>3, <2>4 DEF Quiet, Touches, Windowed
<1>3. CASE r \in Go(Dead(s, "gone"))
  <2>1. Touches(s, Dead(s, "gone")) /\ Dead(s, "gone").unit = "gone" /\ ~Dead(s, "gone").dim /\ Dead(s, "gone") \in World
    BY <1>1, DeadIs DEF Touches, Windowed
  <2> QED BY <1>3, <2>1, GoIs
<1>4. ASSUME s.unit \notin {"gone", "failed"},
             r \in Call([s EXCEPT !.unit = "stopping"],
                        {[s EXCEPT !.unit = v] : v \in {s.unit, "running", "stopping"}} \cup {Dead(s, "gone")})
      PROVE  r \in Outcome /\ r.rec /\ Touches(s, r.s) /\ (r.s.dim => s.dim)
  <2> DEFINE t == [s EXCEPT !.unit = "stopping"]
             bad == {[s EXCEPT !.unit = v] : v \in {s.unit, "running", "stopping"}} \cup {Dead(s, "gone")}
  <2>1. Touches(s, t) /\ t.dim = s.dim /\ t \in World
    BY UnitIs DEF Touches, Windowed
  <2>2. ASSUME NEW b \in bad PROVE b \in World /\ Touches(s, b) /\ (b.dim => s.dim)
    <3>1. ASSUME NEW v \in {s.unit, "running", "stopping"}, b = [s EXCEPT !.unit = v]
          PROVE  b \in World /\ Touches(s, b) /\ (b.dim => s.dim)
      <4>1. v \in Live \cup {"stopping"}
        BY <1>1, <1>4 DEF Live, World, Fields
      <4> QED BY <3>1, <4>1, UnitIs DEF Touches, Windowed
    <3>2. CASE b = Dead(s, "gone")
      BY <1>1, <3>2, DeadIs DEF Touches, Windowed
    <3> QED BY <3>1, <3>2
  <2>3. r \in Call(t, bad)
    BY <1>4
  <2> HIDE DEF t, bad
  <2>4. /\ r \in Outcome /\ r.rec /\ (r.ok => r.s = t)
        /\ ~r.ok => \E b \in bad : Quiet(b, r.s)
    <3>1. bad \in SUBSET World
      BY <2>2
    <3> QED BY <2>1, <2>3, <3>1, CallIs
  <2>5. CASE ~r.ok
    <3>1. PICK b \in bad : Quiet(b, r.s)
      BY <2>4, <2>5
    <3> QED BY <2>2, <2>4, <2>5, <3>1 DEF Quiet, Touches, Windowed
  <2> QED BY <2>1, <2>4, <2>5
<1> QED BY <1>2, <1>3, <1>4 DEF StopUnit

-----------------------------------------------------------------------------
(* Repairs.  Each of them leaves a sound world, whatever failed before. *)

\* A phase that an operation ends in, with what is then known of the game.
LEMMA EndsSound ==
    ASSUME NEW t, Windowed(t), NEW p \in Phases \ {"Gone"},
           t.dim => t.lost \/ p = "Blocked" \/ (t.unit = "frozen" /\ p # "Stopping")
    PROVE  Sound(At(t, p)) /\ Keeps(t, At(t, p)) /\ At(t, p) \in World
<1>1. t \in World /\ p \in Phases
  BY DEF Windowed
<1>2. /\ At(t, p) \in World /\ At(t, p).phase = p
      /\ At(t, p).unit = t.unit /\ At(t, p).dim = t.dim
      /\ Keeps(t, At(t, p)) /\ (p = "Blocked" => At(t, p).lost)
  BY <1>1, AtIs
<1> QED BY <1>2 DEF Sound, Whole, Windowed, Keeps

\* An outcome that is sound, and takes nothing back.
Ends(s, r) == r \in Outcome /\ Sound(r.s) /\ Keeps(s, r.s)

LEMMA EndAt ==
    ASSUME NEW s, NEW t, Windowed(t), Keeps(s, t), NEW p \in Phases \ {"Gone"},
           t.dim => t.lost \/ p = "Blocked" \/ (t.unit = "frozen" /\ p # "Stopping"),
           NEW r \in Go(At(t, p)) \cup Fail(At(t, p))
    PROVE  Ends(s, r) /\ r.s.phase = p
<1>1. Sound(At(t, p)) /\ Keeps(t, At(t, p)) /\ At(t, p) \in World /\ At(t, p).phase = p
  BY EndsSound, AtIs DEF Windowed
<1>2. r \in Outcome /\ r.rec /\ r.s = At(t, p)
  BY <1>1, GoIs, FailIs
<1> QED BY <1>1, <1>2 DEF Ends, Keeps

\* The same when the call that records it may fail.
LEMMA EndLossy ==
    ASSUME NEW s, NEW t, Windowed(t), Keeps(s, t), NEW r \in Lossy(At(t, "Blocked"), Fail)
    PROVE  Ends(s, r) /\ ~r.ok /\ r.s.phase = "Blocked"
<1>1. Sound(At(t, "Blocked")) /\ Keeps(t, At(t, "Blocked")) /\ At(t, "Blocked") \in World
  BY EndsSound DEF Phases
<1>2. At(t, "Blocked").phase = "Blocked"
  BY AtIs DEF Phases, Windowed
<1>3. r \in Outcome /\ ~r.ok /\ r.rec /\ Quiet(At(t, "Blocked"), r.s)
  BY <1>1, LossyIs
<1> QED BY <1>1, <1>2, <1>3 DEF Ends, Keeps, Quiet, Sound, Whole, Windowed

LEMMA CompleteIs == ASSUME NEW s, Windowed(s), s.unit = "gone", NEW r \in Complete(s)
                    PROVE  Ends(s, r) /\ r.s.phase \in {"Gone", "Blocked"} /\ r.s.unit = "gone"
<1> DEFINE t == [s EXCEPT !.phase = "Gone", !.route = "portal"]
           b == At(s, "Blocked")
<1>1. /\ t \in World /\ t.phase = "Gone" /\ t.unit = "gone" /\ t.dim = s.dim
      /\ t.lost = s.lost /\ t.roll = s.roll
  BY DEF Windowed, World, Fields, Phases
<1>2. Sound(b) /\ Keeps(s, b) /\ b \in World /\ b.phase = "Blocked" /\ b.unit = "gone"
  BY EndsSound, AtIs DEF Phases, Windowed
<1>3. r \in Fail(b) \/ r \in Call(t, {b, Fence(b)})
  BY DEF Complete
<1>4. ~s.dim
  BY DEF Windowed
<1> HIDE DEF t, b
<1>5. Quiet(b, b) /\ Quiet(b, Fence(b)) /\ Fence(b) \in World
  BY <1>2, QuietRefl, FenceIs DEF Quiet
<1>6. CASE r \in Fail(b)
  BY <1>2, <1>6, FailIs DEF Ends
<1>7. CASE r \in Call(t, {b, Fence(b)})
  <2>1. /\ r \in Outcome /\ r.rec /\ (r.ok => r.s = t)
        /\ ~r.ok => Quiet(b, r.s)
    <3>1. {b, Fence(b)} \in SUBSET World
      BY <1>2, <1>5
    <3>2. /\ r \in Outcome /\ r.rec /\ (r.ok => r.s = t)
          /\ ~r.ok => \E c \in {b, Fence(b)} : Quiet(c, r.s)
      BY <1>1, <1>7, <3>1, CallIs
    <3> QED BY <1>5, <3>2, QuietTrans
  <2>2. CASE r.ok
    BY <1>1, <1>4, <2>1, <2>2 DEF Ends, Sound, Whole, Windowed, Keeps
  <2>3. CASE ~r.ok
    BY <1>2, <2>1, <2>3 DEF Ends, Sound, Whole, Windowed, Keeps, Quiet
  <2> QED BY <2>2, <2>3
<1> QED BY <1>3, <1>6, <1>7

LEMMA FailActiveIs == ASSUME NEW s, Windowed(s), ~s.dim, NEW r \in FailActive(s)
                      PROVE  Ends(s, r) /\ r.s.phase \in {"Gone", "Blocked"}
<1>0. s \in World
  BY DEF Windowed
<1>1. PICK q \in Then(StopSeats(s), LAMBDA t : Then(Call([t EXCEPT !.unit = "gone"], {t}), Complete)) :
        r \in IF q.ok THEN {q} ELSE Fail(At(q.s, "Blocked"))
  BY DEF FailActive, Catch
<1>2. PICK p \in StopSeats(s) :
        q \in IF p.ok THEN Then(Call([p.s EXCEPT !.unit = "gone"], {p.s}), Complete) ELSE {p}
  BY <1>1 DEF Then
<1>3. p \in Outcome /\ p.rec /\ Quiet(s, p.s) /\ p.s \in World
  BY <1>0, StopSeatsIs DEF Mild, Quiet
<1> DEFINE t == [p.s EXCEPT !.unit = "gone"]
<1>4. /\ t \in World /\ t.phase = s.phase /\ t.unit = "gone" /\ t.dim = s.dim
      /\ t.lost = s.lost /\ t.roll = s.roll
  BY <1>3 DEF Quiet, World, Fields
<1>5. Windowed(t) /\ Keeps(s, t)
  BY <1>4 DEF Windowed, Keeps
<1>6. PICK o : IF p.ok THEN o \in Call(t, {p.s}) /\ q \in IF o.ok THEN Complete(o.s) ELSE {o}
               ELSE q = p
  BY <1>2 DEF Then
<1> HIDE DEF t
<1>7. CASE p.ok
  <2>1. o \in Outcome /\ (o.ok => o.s = t) /\ (~o.ok => Quiet(p.s, o.s))
    <3>1. {p.s} \in SUBSET World
      BY <1>3
    <3> QED BY <1>4, <1>6, <1>7, <3>1, CallIs
  <2>2. CASE o.ok
    <3>1. q \in Complete(t)
      BY <1>6, <1>7, <2>1, <2>2
    <3>2. Ends(t, q) /\ q.s.phase \in {"Gone", "Blocked"} /\ q.s.unit = "gone"
      BY <1>4, <1>5, <3>1, CompleteIs
    <3>3. Ends(s, q)
      BY <1>5, <3>2 DEF Ends, Keeps
    <3>4. Windowed(q.s) /\ ~q.s.dim /\ Keeps(s, q.s)
      BY <3>2, <3>3 DEF Ends, Sound, Whole, Windowed
    <3>5. CASE q.ok
      BY <1>1, <3>2, <3>3, <3>5
    <3>6. CASE ~q.ok
      BY <1>1, <3>4, <3>6, EndAt DEF Phases
    <3> QED BY <3>5, <3>6
  <2>3. CASE ~o.ok
    <3>1. q = o /\ Quiet(s, q.s)
      BY <1>3, <1>6, <1>7, <2>1, <2>3, QuietTrans
    <3>2. Windowed(q.s) /\ ~q.s.dim /\ Keeps(s, q.s)
      BY <3>1 DEF Quiet, Windowed, Keeps
    <3> QED BY <1>1, <2>3, <3>1, <3>2, EndAt DEF Phases
  <2> QED BY <2>2, <2>3
<1>8. CASE ~p.ok
  <2>1. q = p /\ Windowed(q.s) /\ ~q.s.dim /\ Keeps(s, q.s)
    BY <1>3, <1>6, <1>8 DEF Quiet, Windowed, Keeps
  <2> QED BY <1>1, <1>8, <2>1, EndAt DEF Phases
<1> QED BY <1>7, <1>8

LEMMA RefreezeIs == ASSUME NEW s, Windowed(s), NEW r \in Refreeze(s)
                    PROVE  Ends(s, r) /\ ~r.ok /\ r.s.phase \in {"Frozen", "Blocked"}
<1>1. PICK q \in Then(Freezer(s, "frozen"), StopSeats) :
        r \in Fail(At(q.s, IF q.ok THEN "Frozen" ELSE "Blocked"))
  BY DEF Refreeze
<1>2. PICK p \in Freezer(s, "frozen") : q \in IF p.ok THEN StopSeats(p.s) ELSE {p}
  BY <1>1 DEF Then
<1>3. p \in Outcome /\ Touches(s, p.s) /\ p.s \in World /\ (p.ok => p.s.unit = "frozen")
  BY FreezerIs DEF Touches, Windowed
<1>4. Touches(s, q.s) /\ (q.ok => q.s.unit = "frozen")
  <2>1. CASE p.ok
    <3>1. Quiet(p.s, q.s)
      BY <1>2, <1>3, <2>1, StopSeatsIs DEF Mild
    <3> QED BY <1>3, <2>1, <3>1 DEF Touches, Windowed, Quiet
  <2>2. CASE ~p.ok
    BY <1>2, <1>3, <2>2
  <2> QED BY <2>1, <2>2
<1>5. Windowed(q.s) /\ Keeps(s, q.s) /\ q.s \in World
  BY <1>4 DEF Touches, Keeps, Windowed
<1>6. ~r.ok
  <2>1. At(q.s, IF q.ok THEN "Frozen" ELSE "Blocked") \in World
    BY <1>5, AtIs DEF Phases
  <2> QED BY <1>1, <2>1, FailIs
<1>7. CASE q.ok
  BY <1>1, <1>4, <1>5, <1>6, <1>7, EndAt DEF Phases
<1>8. CASE ~q.ok
  BY <1>1, <1>5, <1>6, <1>8, EndAt DEF Phases
<1> QED BY <1>7, <1>8

LEMMA RecordFocusFailureIs ==
    ASSUME NEW s, Windowed(s), NEW r \in RecordFocusFailure(s)
    PROVE  Ends(s, r) /\ r.s.phase \in {"FocusFailed", "Frozen", "Blocked"}
<1>1. PICK q \in Opacity(s, FALSE) :
        r \in IF ~q.ok THEN Refreeze(q.s)
              ELSE UNION {IF p.ok THEN Go(At(p.s, "FocusFailed")) ELSE Fail(At(p.s, "Blocked")) :
                          p \in StopSeats(q.s)}
  BY DEF RecordFocusFailure
<1>2. Touches(s, q.s) /\ Windowed(q.s) /\ q.s \in World /\ (q.ok => ~q.s.dim)
  BY OpacityIs DEF Touches, Windowed
<1>3. CASE ~q.ok
  <2>1. Ends(q.s, r) /\ r.s.phase \in {"Frozen", "Blocked"}
    BY <1>1, <1>2, <1>3, RefreezeIs
  <2> QED BY <1>2, <2>1 DEF Ends, Keeps, Touches
<1>4. CASE q.ok
  <2>1. PICK p \in StopSeats(q.s) :
          r \in IF p.ok THEN Go(At(p.s, "FocusFailed")) ELSE Fail(At(p.s, "Blocked"))
    BY <1>1, <1>4
  <2>2. Quiet(q.s, p.s)
    BY <1>2, StopSeatsIs DEF Mild
  <2>3. Windowed(p.s) /\ Keeps(s, p.s) /\ ~p.s.dim
    BY <1>2, <1>4, <2>2 DEF Quiet, Touches, Keeps, Windowed
  <2> QED BY <2>1, <2>3, EndAt DEF Phases
<1> QED BY <1>3, <1>4

\* The repair as an operation ends with it.
LEMMA GivesUp == ASSUME NEW s, Windowed(s), NEW r \in Always(RecordFocusFailure(s), Fail)
                 PROVE  Ends(s, r) /\ ~r.ok
<1>1. PICK q \in RecordFocusFailure(s) : r \in Fail(q.s)
  BY DEF Always
<1>2. Ends(s, q) /\ q.s \in World
  BY RecordFocusFailureIs DEF Ends, Sound, Whole, Windowed
<1>3. r \in Outcome /\ ~r.ok /\ r.s = q.s
  BY <1>1, <1>2, FailIs
<1> QED BY <1>2, <1>3 DEF Ends

\* A sound world stays so when nothing of concern changes.
LEMMA QuietSound == ASSUME NEW s, NEW t, Quiet(s, t)
                    PROVE  /\ Keeps(s, t)
                           /\ Windowed(s) => Windowed(t)
                           /\ Whole(s) => Whole(t)
                           /\ Sound(s) => Sound(t)
  BY DEF Quiet, Keeps, Windowed, Whole, Sound

LEMMA SettledIs == ASSUME NEW s \in World, NEW r \in Settled(s) PROVE r \in Outcome /\ r.s = s
<1>1. r = [s |-> s, ok |-> TRUE, rec |-> FALSE]
  BY DEF Settled
<1> QED BY <1>1 DEF Outcome

LEMMA LeavesIs == ASSUME NEW s \in World, NEW r \in Leaves(s) PROVE r \in Outcome /\ ~r.ok /\ r.s = s
<1>1. r = [s |-> s, ok |-> FALSE, rec |-> FALSE]
  BY DEF Leaves
<1>2. r \in Outcome /\ r.s = s /\ r.ok = FALSE
  BY <1>1 DEF Outcome
<1> QED BY <1>2

LEMMA StopGameIs == ASSUME NEW s, Windowed(s), NEW r \in StopGame(s)
                    PROVE  r \in Outcome /\ Whole(r.s) /\ Keeps(s, r.s)
<1> DEFINE stopped == Then(Always(StopSeats(s), LAMBDA t : Call(t, {t})), StopUnit)
<1>1. PICK q \in stopped :
        r \in IF q.s.unit = "gone" THEN Complete(q.s)
              ELSE IF q.ok THEN Go(At(q.s, "Stopping")) \cup Lossy(At(q.s, "Blocked"), Fail)
              ELSE Fail(At(q.s, "Blocked"))
  BY DEF StopGame
<1>2. Windowed(q.s) /\ Keeps(s, q.s)
  <2>1. PICK p \in Always(StopSeats(s), LAMBDA t : Call(t, {t})) :
          q \in IF p.ok THEN StopUnit(p.s) ELSE {p}
    BY <1>1 DEF Then
  <2>2. PICK o \in StopSeats(s) : p \in Call(o.s, {o.s})
    BY <2>1 DEF Always
  <2>3. s \in World
    BY DEF Windowed
  <2>4. Quiet(s, o.s) /\ o.s \in World
    BY <2>3, StopSeatsIs, MildWorld DEF Mild
  <2>5. Quiet(o.s, p.s)
    BY <2>2, <2>4, QuietRefl, QuietCall DEF Mild
  <2>6. Windowed(p.s) /\ Keeps(s, p.s)
    BY <2>4, <2>5, QuietTrans, QuietSound
  <2>7. CASE p.ok
    BY <2>1, <2>6, <2>7, StopUnitIs DEF Touches, Keeps
  <2>8. CASE ~p.ok
    BY <2>1, <2>6, <2>8
  <2> QED BY <2>7, <2>8
<1> HIDE DEF stopped
<1>3. q.s \in World
  BY <1>2 DEF Windowed
<1>4. CASE r \in Complete(q.s) /\ q.s.unit = "gone"
  <2>1. Ends(q.s, r)
    BY <1>2, <1>4, CompleteIs
  <2> QED BY <1>2, <2>1 DEF Ends, Keeps, Sound
<1>5. CASE r \in Go(At(q.s, "Stopping"))
  <2> DEFINE t == At(q.s, "Stopping")
  <2>1. t \in World /\ t.phase = "Stopping" /\ t.unit = q.s.unit /\ t.dim = q.s.dim /\ Keeps(q.s, t)
    BY <1>3, AtIs DEF Phases
  <2> HIDE DEF t
  <2>2. r \in Outcome /\ r.s = t
    BY <1>5, <2>1, GoIs DEF t
  <2> QED BY <1>2, <2>1, <2>2 DEF Keeps, Whole, Windowed
<1>6. CASE r \in Lossy(At(q.s, "Blocked"), Fail)
  BY <1>2, <1>6, EndLossy DEF Ends, Sound
<1>7. CASE r \in Fail(At(q.s, "Blocked"))
  BY <1>2, <1>7, EndAt DEF Ends, Sound, Phases
<1> QED BY <1>1, <1>4, <1>5, <1>6, <1>7

\* Recovery finds the game as it is: it was given up before, so nothing is lost.
LEMMA RefreshIs == ASSUME NEW s, Sound(s), NEW t \in Refresh(s)
                   PROVE  /\ Sound(t) /\ Keeps(s, t)
                          /\ s.phase # "Blocked" => t = s
<1>1. CASE s.phase # "Blocked"
  BY <1>1 DEF Refresh, Keeps
<1>2. CASE s.phase = "Blocked"
  <2> SUFFICES Sound(t) /\ Keeps(s, t)
    BY <1>2
  <2>1. t \in Recover(s) /\ s.lost /\ Windowed(s) /\ s \in World
    BY <1>2 DEF Refresh, Sound, Whole, Windowed
  <2>2. ASSUME NEW v, Quiet(s, v) \/ v = s, NEW p \in Phases \ {"Gone"}, t = At(v, p)
        PROVE  Sound(t) /\ Keeps(s, t)
    <3>1. Windowed(v) /\ v.lost /\ Keeps(s, v)
      BY <2>1, <2>2, QuietSound DEF Keeps, Quiet
    <3> QED BY <2>2, <3>1, EndsSound DEF Keeps
  <2>3. CASE t \in Lossy(s, LAMBDA v : {v})
    <3>1. s.faults # 0 /\ t = [s EXCEPT !.faults = @ - 1]
      BY <2>3 DEF Lossy
    <3> QED BY <2>1, <3>1, SpentIs, QuietSound
  <2>4. CASE t \in Lossy(s, LAMBDA v : {At(v, "FocusFailed")})
    <3> DEFINE v == [s EXCEPT !.faults = @ - 1]
    <3>1. s.faults # 0 /\ t = At(v, "FocusFailed")
      BY <2>4 DEF Lossy
    <3>2. Quiet(s, v)
      BY <2>1, <3>1, SpentIs
    <3> HIDE DEF v
    <3> QED BY <2>2, <3>1, <3>2 DEF Phases
  <2>5. CASE t \in {At(s, "Running"), At(s, "FocusFailed"), At(s, "Frozen"), At(s, "Stopping")}
    BY <2>2, <2>5 DEF Phases
  <2>6. ASSUME s.unit \notin {"running", "frozen", "transition", "stopping"},
               NEW r \in Complete([s EXCEPT !.unit = "gone"]), t = r.s
        PROVE  Sound(t) /\ Keeps(s, t)
    <3> DEFINE v == [s EXCEPT !.unit = "gone"]
    <3>1. s.unit \in {"gone", "failed"}
      BY <2>1, <2>6 DEF World, Fields, Live
    <3>2. /\ v \in World /\ v.unit = "gone" /\ v.dim = s.dim
          /\ v.lost = s.lost /\ v.roll = s.roll
      BY <2>1 DEF World, Fields
    <3>3. Windowed(v) /\ Keeps(s, v)
      BY <2>1, <3>1, <3>2 DEF Windowed, Keeps
    <3> HIDE DEF v
    <3>4. Ends(v, r)
      BY <2>6, <3>2, <3>3, CompleteIs DEF v
    <3> QED BY <2>6, <3>3, <3>4 DEF Ends, Keeps
  <2>7. \/ t \in Lossy(s, LAMBDA v : {v}) \/ t \in Lossy(s, LAMBDA v : {At(v, "FocusFailed")})
        \/ t \in {At(s, "Running"), At(s, "FocusFailed"), At(s, "Frozen"), At(s, "Stopping")}
        \/ /\ s.unit \notin {"running", "frozen", "transition", "stopping"}
           /\ \E r \in Complete([s EXCEPT !.unit = "gone"]) : t = r.s
    BY <2>1 DEF Recover
  <2> QED BY <2>3, <2>4, <2>5, <2>6, <2>7
<1> QED BY <1>1, <1>2

\* Releasing the mutex keeps a world sound, and touches only a running session.
LEMMA DropIs == ASSUME NEW s, NEW r, Ends(s, r), NEW t \in Drop(r)
                PROVE  /\ Sound(t) /\ Keeps(s, t)
                       /\ r.s.phase # "Running" => t.phase = r.s.phase
<1>1. CASE ~r.rec
  BY <1>1 DEF Drop, Ends
<1>2. CASE r.rec
  <2>1. PICK q \in Catch(Reconcile(r.s),
                         LAMBDA u : Always(IF u.phase = "Running" THEN RecordFocusFailure(u) ELSE Go(u),
                                           ThawPortal)) : t = q.s
    BY <1>2 DEF Drop
  <2>2. PICK p \in Reconcile(r.s) :
          q \in IF p.ok THEN {p}
                ELSE Always(IF p.s.phase = "Running" THEN RecordFocusFailure(p.s) ELSE Go(p.s), ThawPortal)
    BY <2>1 DEF Catch
  <2>3. r.s \in World /\ Sound(r.s) /\ Keeps(s, r.s)
    BY DEF Ends, Sound, Whole, Windowed
  <2>4. Quiet(r.s, p.s) /\ p.s \in World
    BY <2>3, ReconcileIs, MildWorld DEF Mild
  <2>5. Sound(p.s) /\ Keeps(s, p.s) /\ p.s.phase = r.s.phase
    BY <2>3, <2>4, QuietSound DEF Keeps, Quiet
  <2>6. CASE p.ok
    BY <2>1, <2>2, <2>5, <2>6
  <2>7. CASE ~p.ok
    <3>1. PICK o \in IF p.s.phase = "Running" THEN RecordFocusFailure(p.s) ELSE Go(p.s) :
            q \in ThawPortal(o.s)
      BY <2>2, <2>7 DEF Always
    <3>2. /\ Sound(o.s) /\ Keeps(s, o.s) /\ o.s \in World
          /\ r.s.phase # "Running" => o.s.phase = r.s.phase
      <4>1. CASE p.s.phase = "Running"
        <5>1. Ends(p.s, o)
          BY <2>5, <3>1, <4>1, RecordFocusFailureIs DEF Sound, Whole
        <5> QED BY <2>5, <4>1, <5>1 DEF Ends, Keeps, Sound, Whole, Windowed
      <4>2. CASE p.s.phase # "Running"
        BY <2>4, <2>5, <3>1, <4>2, GoIs
      <4> QED BY <4>1, <4>2
    <3>3. Quiet(o.s, q.s)
      BY <3>1, <3>2, ThawPortalIs DEF Mild
    <3> QED BY <2>1, <3>2, <3>3, QuietSound DEF Keeps, Quiet
  <2> QED BY <2>6, <2>7
<1> QED BY <1>1, <1>2

-----------------------------------------------------------------------------
(* Leaving a game and returning to it. *)

Active == {"Running", "Frozen", "FocusFailed"}

\* A game that is gone is completed.
LEMMA FinishIs ==
    ASSUME NEW s, Windowed(s), s.unit = "gone",
           NEW r \in Catch(Then(StopSeats(s), Complete), LAMBDA t : Fail(At(t, "Blocked")))
    PROVE  Ends(s, r) /\ r.s.phase \in {"Gone", "Blocked"}
<1>1. PICK p \in Then(StopSeats(s), Complete) : r \in IF p.ok THEN {p} ELSE Fail(At(p.s, "Blocked"))
  BY DEF Catch
<1>2. PICK o \in StopSeats(s) : p \in IF o.ok THEN Complete(o.s) ELSE {o}
  BY <1>1 DEF Then
<1>3. Windowed(o.s) /\ o.s.unit = "gone" /\ Keeps(s, o.s)
  BY StopSeatsIs, QuietSound DEF Mild, Quiet, Windowed
<1>4. Windowed(p.s) /\ Keeps(s, p.s) /\ (p.ok => Ends(s, p) /\ p.s.phase \in {"Gone", "Blocked"})
  <2>1. CASE o.ok
    BY <1>2, <1>3, <2>1, CompleteIs DEF Ends, Sound, Whole, Keeps
  <2>2. CASE ~o.ok
    BY <1>2, <1>3, <2>2
  <2> QED BY <2>1, <2>2
<1>5. CASE p.ok
  BY <1>1, <1>4, <1>5
<1>6. CASE ~p.ok
  BY <1>1, <1>4, <1>6, EndAt DEF Phases
<1> QED BY <1>5, <1>6

LEMMA ReadIs == ASSUME NEW s, Whole(s), NEW r \in Read(s)
                PROVE  /\ r \in Outcome /\ Whole(r.s) /\ Keeps(s, r.s)
                       /\ Sound(s) => Sound(r.s)
                       /\ r.ok => r.s = s /\ s.unit \in Live
<1>1. Windowed(s) /\ s \in World /\ Keeps(s, s)
  BY DEF Whole, Windowed, Keeps
<1>2. CASE r \in Lossy(At(s, "Blocked"), Fail)
  BY <1>1, <1>2, EndLossy DEF Ends, Sound
<1>3. CASE s.unit \in Live /\ r \in Go(s)
  BY <1>1, <1>3, GoIs
<1>4. CASE s.unit = "stopping" /\ r \in Always(StopSeats(s), LAMBDA t : Fail(At(t, "Stopping")))
  <2>1. PICK q \in StopSeats(s) : r \in Fail(At(q.s, "Stopping"))
    BY <1>4 DEF Always
  <2>2. Quiet(s, q.s) /\ q.s \in World
    BY <1>1, StopSeatsIs, MildWorld DEF Mild
  <2> DEFINE t == At(q.s, "Stopping")
  <2>3. /\ t \in World /\ t.phase = "Stopping" /\ t.unit = q.s.unit
        /\ t.dim = q.s.dim /\ Keeps(q.s, t)
    BY <2>2, AtIs DEF Phases
  <2> HIDE DEF t
  <2>4. r \in Outcome /\ ~r.ok /\ r.s = t
    BY <2>1, <2>3, FailIs DEF t
  <2> QED BY <1>4, <2>2, <2>3, <2>4 DEF Quiet, Keeps, Whole, Windowed, Sound
<1>5. CASE /\ s.unit = "gone"
           /\ r \in Always(Catch(Then(StopSeats(s), Complete), LAMBDA t : Fail(At(t, "Blocked"))), Fail)
  <2>1. PICK q \in Catch(Then(StopSeats(s), Complete), LAMBDA t : Fail(At(t, "Blocked"))) : r \in Fail(q.s)
    BY <1>5 DEF Always
  <2>2. Ends(s, q)
    BY <1>1, <1>5, FinishIs
  <2>3. r \in Outcome /\ ~r.ok /\ r.s = q.s
    BY <2>1, <2>2, FailIs DEF Ends, Sound, Whole, Windowed
  <2> QED BY <2>2, <2>3 DEF Ends, Sound
<1>6. CASE s.unit = "failed" /\ r \in Always(FailActive(s), Fail)
  <2>1. PICK q \in FailActive(s) : r \in Fail(q.s)
    BY <1>6 DEF Always
  <2>2. Ends(s, q)
    BY <1>1, <1>6, FailActiveIs DEF Windowed
  <2>3. r \in Outcome /\ ~r.ok /\ r.s = q.s
    BY <2>1, <2>2, FailIs DEF Ends, Sound, Whole, Windowed
  <2> QED BY <2>2, <2>3 DEF Ends, Sound
<1>7. s.unit \in Live \cup {"stopping", "gone", "failed"}
  BY <1>1 DEF World, Fields
<1> QED BY <1>2, <1>3, <1>4, <1>5, <1>6, <1>7 DEF Read, Live

LEMMA RereadIs == ASSUME NEW s, Whole(s), NEW r \in Reread(s)
                  PROVE  /\ r \in Outcome /\ ~r.ok /\ Whole(r.s) /\ Keeps(s, r.s)
                         /\ Sound(s) => Sound(r.s)
<1>1. PICK q \in Read(s) : r \in Fail(q.s)
  BY DEF Reread, Always
<1>2. Whole(q.s) /\ Keeps(s, q.s) /\ (Sound(s) => Sound(q.s)) /\ q.s \in World
  BY ReadIs DEF Whole, Windowed
<1> QED BY <1>1, <1>2, FailIs

\* The end of Leave and Return: the portal follows the focus, or the game is repaired.
LEMMA TailIs ==
    ASSUME NEW s, Sound(s),
           NEW r \in Catch(Then(Reconcile(s), Settled), LAMBDA u : Always(RecordFocusFailure(u), Fail))
    PROVE  Ends(s, r)
<1>1. PICK q \in Then(Reconcile(s), Settled) :
        r \in IF q.ok THEN {q} ELSE Always(RecordFocusFailure(q.s), Fail)
  BY DEF Catch
<1>2. PICK p \in Reconcile(s) : q \in IF p.ok THEN Settled(p.s) ELSE {p}
  BY <1>1 DEF Then
<1>3. p \in Outcome /\ Quiet(s, p.s) /\ p.s \in World
  BY ReconcileIs, MildWorld DEF Mild, Sound, Whole, Windowed
<1>4. q \in Outcome /\ q.s = p.s
  BY <1>2, <1>3, SettledIs
<1>5. Sound(q.s) /\ Keeps(s, q.s)
  BY <1>3, <1>4, QuietSound
<1>6. CASE q.ok
  BY <1>1, <1>4, <1>5, <1>6 DEF Ends
<1>7. CASE ~q.ok
  BY <1>1, <1>5, <1>7, GivesUp DEF Ends, Sound, Whole, Keeps
<1> QED BY <1>6, <1>7

LEMMA UndoLeaveIs == ASSUME NEW s, Windowed(s), s.roll, NEW r \in UndoLeave(s)
                     PROVE  r \in Outcome /\ ~r.ok /\ Rough(r.s) /\ (s.lost => r.s.lost)
<1>1. PICK q \in Freezer(s, "running") :
        r \in IF ~q.ok THEN Always(StopGame(q.s), Leaves)
              ELSE Always(Catch(Then(Then(Then(EnsureSeats(At(q.s, "Running")),
                                               LAMBDA t : Route(t, "game")),
                                          ResetSeats),
                                     LAMBDA t : Then(FocusLaunch(t),
                                                     LAMBDA u : Go([u EXCEPT !.roll = FALSE]))),
                                RecordFocusFailure),
                          Leaves)
  BY DEF UndoLeave
<1>2. Windowed(q.s) /\ Keeps(s, q.s)
  BY FreezerIs DEF Touches, Keeps
<1>3. CASE ~q.ok
  <2>1. PICK p \in StopGame(q.s) : r \in Leaves(p.s)
    BY <1>1, <1>3 DEF Always
  <2>2. Whole(p.s) /\ Keeps(q.s, p.s) /\ p.s \in World
    BY <1>2, StopGameIs DEF Whole, Windowed
  <2> QED BY <1>2, <2>1, <2>2, LeavesIs DEF Rough, Keeps
<1>4. CASE q.ok
  <2> DEFINE back == At(q.s, "Running")
             seated == Then(Then(EnsureSeats(back), LAMBDA t : Route(t, "game")), ResetSeats)
             shown  == Then(seated, LAMBDA t : Then(FocusLaunch(t), LAMBDA u : Go([u EXCEPT !.roll = FALSE])))
  <2>1. back \in World /\ Windowed(back) /\ Keeps(s, back) /\ back.phase = "Running"
    BY <1>2, AtIs DEF Windowed, Phases, Keeps
  <2>2. PICK p \in Catch(shown, RecordFocusFailure) : r \in Leaves(p.s)
    BY <1>1, <1>4 DEF Always
  <2>3. PICK o \in shown : p \in IF o.ok THEN {o} ELSE RecordFocusFailure(o.s)
    BY <2>2 DEF Catch
  <2>4. PICK n \in seated :
          o \in IF n.ok THEN Then(FocusLaunch(n.s), LAMBDA u : Go([u EXCEPT !.roll = FALSE])) ELSE {n}
    BY <2>3 DEF Then
  <2> HIDE DEF shown
  <2>5. Quiet(back, n.s)
    <3>1. PICK m \in Then(EnsureSeats(back), LAMBDA t : Route(t, "game")) :
            n \in IF m.ok THEN ResetSeats(m.s) ELSE {m}
      BY <2>4 DEF Then
    <3>2. PICK k \in EnsureSeats(back) : m \in IF k.ok THEN Route(k.s, "game") ELSE {k}
      BY <3>1 DEF Then
    <3> HIDE DEF back, seated
    <3>3. Mild(back, k) /\ k.s \in World
      BY <2>1, EnsureSeatsIs, MildWorld
    <3>4. Mild(back, m) /\ m.s \in World
      BY <3>2, <3>3, RouteIs, MildTrans, MildWorld
    <3>5. Mild(back, n)
      BY <3>1, <3>4, ResetSeatsIs, MildTrans
    <3> QED BY <3>5 DEF Mild
  <2> HIDE DEF back, seated
  <2>6. Windowed(n.s) /\ Keeps(s, n.s) /\ n.s.phase = "Running"
    BY <2>1, <2>5, QuietSound DEF Keeps, Quiet
  <2>7. /\ Windowed(o.s) /\ (s.lost => o.s.lost)
        /\ o.ok => Sound(o.s) /\ ~o.s.roll
        /\ ~o.ok => o.s.roll
    <3>1. CASE ~n.ok
      BY <2>4, <2>6, <3>1 DEF Keeps
    <3>2. CASE n.ok
      <4>1. PICK f \in FocusLaunch(n.s) : o \in IF f.ok THEN Go([f.s EXCEPT !.roll = FALSE]) ELSE {f}
        BY <2>4, <3>2 DEF Then
      <4>2. Touches(n.s, f.s) /\ (f.ok => ~f.s.dim) /\ f.s \in World /\ Windowed(f.s)
        BY <2>6, FocusLaunchIs DEF Touches, Windowed
      <4>3. CASE ~f.ok
        BY <2>6, <4>1, <4>2, <4>3 DEF Touches, Keeps
      <4>4. CASE f.ok
        <5> DEFINE v == [f.s EXCEPT !.roll = FALSE]
        <5>1. /\ v \in World /\ v.roll = FALSE /\ v.dim = f.s.dim /\ v.unit = f.s.unit
              /\ v.phase = f.s.phase /\ v.lost = f.s.lost
          BY <4>2 DEF World, Fields
        <5>2. o \in Go(v)
          BY <4>1, <4>4
        <5> HIDE DEF v
        <5>3. o.ok /\ o.s = v
          BY <5>1, <5>2, GoIs
        <5> QED BY <2>6, <4>2, <4>4, <5>1, <5>3 DEF Touches, Keeps, Sound, Whole, Windowed
      <4> QED BY <4>3, <4>4
    <3> QED BY <3>1, <3>2
  <2>8. Rough(p.s) /\ (s.lost => p.s.lost) /\ p.s \in World
    <3>1. CASE o.ok
      BY <2>3, <2>7, <3>1 DEF Rough, Sound, Whole, Windowed
    <3>2. CASE ~o.ok
      <4>1. Ends(o.s, p)
        BY <2>3, <2>7, <3>2, RecordFocusFailureIs
      <4> QED BY <2>7, <4>1 DEF Ends, Keeps, Rough, Sound, Whole, Windowed
    <3> QED BY <3>1, <3>2
  <2> QED BY <2>2, <2>8, LeavesIs
<1> QED BY <1>3, <1>4

LEMMA RollbackIs == ASSUME NEW s, Rough(s), NEW r \in Rollback(s)
                    PROVE  r \in Outcome /\ Sound(r.s) /\ (s.lost => r.s.lost)
<1>1. s \in World /\ Windowed(s)
  BY DEF Rough, Whole, Windowed
<1>2. CASE ~s.roll \/ s.phase = "Gone"
  <2>1. r \in Outcome /\ r.s = s
    BY <1>1, <1>2, GoIs DEF Rollback
  <2>2. Sound(s)
    BY <1>2 DEF Rough, Sound, Whole, Windowed
  <2> QED BY <2>1, <2>2
<1>3. CASE s.roll /\ s.phase # "Gone"
  <2>1. PICK q \in Opacity(s, FALSE) :
          r \in IF q.ok THEN Go(q.s)
                ELSE {[p EXCEPT !.s.phase = IF s.phase = "Blocked" THEN "Blocked" ELSE @] : p \in Refreeze(q.s)}
    BY <1>3 DEF Rollback
  <2>2. Touches(s, q.s) /\ Windowed(q.s) /\ q.s \in World /\ q.s.unit = s.unit /\ (q.ok => ~q.s.dim)
    BY <1>1, OpacityIs DEF Touches, Windowed
  <2>3. CASE q.ok
    <3>1. r \in Outcome /\ r.s = q.s
      BY <2>1, <2>2, <2>3, GoIs
    <3> QED BY <2>2, <2>3, <3>1 DEF Touches, Rough, Sound, Whole, Windowed
  <2>4. CASE ~q.ok
    <3>1. PICK p \in Refreeze(q.s) : r = [p EXCEPT !.s.phase = IF s.phase = "Blocked" THEN "Blocked" ELSE @]
      BY <2>1, <2>4
    <3>2. Ends(q.s, p) /\ p \in Outcome /\ p.s \in World
      BY <2>2, RefreezeIs DEF Ends, Sound, Whole, Windowed
    <3>3. CASE s.phase # "Blocked"
      <4>1. r = p
        BY <3>1, <3>2, <3>3 DEF Outcome, World, Fields
      <4> QED BY <2>2, <3>2, <4>1 DEF Ends, Keeps, Touches
    <3>4. CASE s.phase = "Blocked"
      <4>1. /\ r \in Outcome /\ r.s \in World /\ r.s.phase = "Blocked"
            /\ r.s.unit = p.s.unit /\ r.s.dim = p.s.dim /\ r.s.lost = p.s.lost
        BY <3>1, <3>2, <3>4 DEF Outcome, World, Fields, Phases
      <4>2. p.s.lost
        BY <2>2, <3>2, <3>4 DEF Ends, Keeps, Touches, Rough, Whole
      <4> QED BY <3>2, <4>1, <4>2 DEF Ends, Sound, Whole, Windowed
    <3> QED BY <3>3, <3>4
  <2> QED BY <2>3, <2>4
<1> QED BY <1>2, <1>3

LEMMA LeaveGameIs == ASSUME NEW s, Sound(s), s.phase \in Active, NEW r \in LeaveGame(s)
                     PROVE  r \in Outcome /\ Sound(r.s) /\ (s.lost => r.s.lost)
<1> DEFINE armed  == [s EXCEPT !.roll = TRUE]
           dimmed == Opacity(armed, TRUE)
           read   == Then(dimmed, Read)
           frozen == Then(read, LAMBDA t : IF t.unit = "frozen" THEN Go(t)
                                           ELSE Catch(Freezer(t, "frozen"), Reread))
           portal == Then(frozen, LAMBDA t :
                        Catch(Then(Then(Route(At(t, "Frozen"), "portal"), ThawPortal), PlaceOverlay),
                              UndoLeave))
           done   == Then(portal, LAMBDA t :
                        Catch(Then(Reconcile(t), Settled),
                              LAMBDA u : Always(RecordFocusFailure(u), Fail)))
           Midway(t) == Windowed(t) /\ t.phase \in Active /\ t.roll /\ (s.lost => t.lost)
           Broken(q) == q \in Outcome /\ ~q.ok /\ Rough(q.s) /\ (s.lost => q.s.lost)
<1>1. Midway(armed)
  <2>1. /\ armed \in World /\ armed.roll = TRUE /\ armed.phase = s.phase /\ armed.unit = s.unit
        /\ armed.dim = s.dim /\ armed.lost = s.lost
    BY DEF Sound, Whole, Windowed, World, Fields
  <2> HIDE DEF armed
  <2> QED BY <2>1 DEF Sound, Whole, Windowed
<1> HIDE DEF armed
<1>2. ASSUME NEW q \in dimmed PROVE q \in Outcome /\ Midway(q.s)
  <2>1. q \in Outcome /\ Touches(armed, q.s)
    BY <1>1, <1>2, OpacityIs
  <2> HIDE DEF dimmed
  <2> QED BY <1>1, <2>1 DEF Touches
<1>3. ASSUME NEW t, Midway(t) PROVE Whole(t) /\ Rough(t)
  BY <1>3 DEF Whole, Rough, Active
<1> HIDE DEF dimmed
<1>4. ASSUME NEW q \in read PROVE (q.ok /\ q \in Outcome /\ Midway(q.s)) \/ Broken(q)
  <2>1. PICK p \in dimmed : q \in IF p.ok THEN Read(p.s) ELSE {p}
    BY <1>4 DEF Then
  <2>2. p \in Outcome /\ Midway(p.s) /\ Whole(p.s) /\ Rough(p.s)
    BY <1>2, <1>3
  <2>3. CASE ~p.ok
    BY <2>1, <2>2, <2>3
  <2>4. CASE p.ok
    <3>1. /\ q \in Outcome /\ Whole(q.s) /\ Keeps(p.s, q.s)
          /\ q.ok => q.s = p.s
      BY <2>1, <2>2, <2>4, ReadIs
    <3> QED BY <2>2, <3>1 DEF Keeps, Rough
  <2> QED BY <2>3, <2>4
<1> HIDE DEF read
<1>5. ASSUME NEW q \in frozen
      PROVE  (q.ok /\ q \in Outcome /\ Midway(q.s) /\ q.s.unit = "frozen") \/ Broken(q)
  <2>1. PICK p \in read : q \in IF p.ok THEN IF p.s.unit = "frozen" THEN Go(p.s)
                                             ELSE Catch(Freezer(p.s, "frozen"), Reread)
                                ELSE {p}
    BY <1>5 DEF Then
  <2>2. CASE Broken(p)
    BY <2>1, <2>2
  <2>3. CASE p.ok /\ p \in Outcome /\ Midway(p.s)
    <3>1. p.s \in World
      BY <2>3 DEF Windowed
    <3>2. CASE p.s.unit = "frozen"
      BY <2>1, <2>3, <3>1, <3>2, GoIs
    <3>3. CASE p.s.unit # "frozen"
      <4>1. PICK o \in Freezer(p.s, "frozen") : q \in IF o.ok THEN {o} ELSE Reread(o.s)
        BY <2>1, <2>3, <3>3 DEF Catch
      <4>2. o \in Outcome /\ Midway(o.s) /\ (o.ok => o.s.unit = "frozen")
        BY <2>3, FreezerIs DEF Touches
      <4>3. CASE o.ok
        BY <4>1, <4>2, <4>3
      <4>4. CASE ~o.ok
        <5>1. Whole(o.s)
          BY <1>3, <4>2
        <5>2. q \in Outcome /\ ~q.ok /\ Whole(q.s) /\ Keeps(o.s, q.s)
          BY <4>1, <4>4, <5>1, RereadIs
        <5> QED BY <4>2, <5>2 DEF Keeps, Rough
      <4> QED BY <4>3, <4>4
    <3> QED BY <3>2, <3>3
  <2> QED BY <1>4, <2>2, <2>3
<1> HIDE DEF frozen
<1>6. ASSUME NEW q \in portal
      PROVE  (q.ok /\ q \in Outcome /\ Sound(q.s) /\ (s.lost => q.s.lost)) \/ Broken(q)
  <2>1. PICK p \in frozen :
          q \in IF p.ok THEN Catch(Then(Then(Route(At(p.s, "Frozen"), "portal"), ThawPortal), PlaceOverlay),
                                   UndoLeave)
                ELSE {p}
    BY <1>6 DEF Then
  <2>2. CASE Broken(p)
    BY <2>1, <2>2
  <2>3. CASE p.ok /\ p \in Outcome /\ Midway(p.s) /\ p.s.unit = "frozen"
    <3> DEFINE t == At(p.s, "Frozen")
    <3>1. /\ Windowed(t) /\ t \in World /\ t.phase = "Frozen" /\ t.unit = "frozen"
          /\ t.roll /\ (s.lost => t.lost)
      BY <2>3, AtIs DEF Windowed, Phases, Keeps
    <3>2. PICK o \in Then(Then(Route(t, "portal"), ThawPortal), PlaceOverlay) :
            q \in IF o.ok THEN {o} ELSE UndoLeave(o.s)
      BY <2>1, <2>3 DEF Catch
    <3> HIDE DEF t
    <3>3. Mild(t, o)
      <4>1. PICK n \in Then(Route(t, "portal"), ThawPortal) : o \in IF n.ok THEN PlaceOverlay(n.s) ELSE {n}
        BY <3>2 DEF Then
      <4>2. PICK m \in Route(t, "portal") : n \in IF m.ok THEN ThawPortal(m.s) ELSE {m}
        BY <4>1 DEF Then
      <4>3. Mild(t, m) /\ m.s \in World
        BY <3>1, RouteIs, MildWorld
      <4>4. Mild(t, n) /\ n.s \in World
        BY <4>2, <4>3, ThawPortalIs, MildTrans, MildWorld
      <4> QED BY <4>1, <4>4, PlaceOverlayIs, MildTrans
    <3>4. /\ o \in Outcome /\ Windowed(o.s) /\ o.s.phase = "Frozen" /\ o.s.unit = "frozen"
          /\ o.s.roll /\ (s.lost => o.s.lost)
      BY <3>1, <3>3, QuietSound DEF Mild, Quiet
    <3>5. CASE o.ok
      BY <3>2, <3>4, <3>5 DEF Sound, Whole
    <3>6. CASE ~o.ok
      BY <3>2, <3>4, <3>6, UndoLeaveIs
    <3> QED BY <3>5, <3>6
  <2> QED BY <1>5, <2>2, <2>3
<1> HIDE DEF portal
<1>7. ASSUME NEW q \in done
      PROVE  q \in Outcome /\ Rough(q.s) /\ (s.lost => q.s.lost) /\ (q.ok => Sound(q.s))
  <2>1. PICK p \in portal :
          q \in IF p.ok THEN Catch(Then(Reconcile(p.s), Settled),
                                   LAMBDA u : Always(RecordFocusFailure(u), Fail))
                ELSE {p}
    BY <1>7 DEF Then
  <2>2. CASE Broken(p)
    BY <2>1, <2>2
  <2>3. CASE p.ok /\ p \in Outcome /\ Sound(p.s) /\ (s.lost => p.s.lost)
    <3>1. Ends(p.s, q)
      BY <2>1, <2>3, TailIs
    <3> QED BY <2>3, <3>1 DEF Ends, Keeps, Rough, Sound
  <2> QED BY <1>6, <2>2, <2>3
<1>8. PICK q \in done : r \in IF q.ok THEN {q} ELSE {[p EXCEPT !.rec = q.rec] : p \in Rollback(q.s)}
  BY DEF LeaveGame, done, portal, frozen, read, dimmed, armed
<1> HIDE DEF done
<1>9. CASE q.ok
  BY <1>7, <1>8, <1>9
<1>10. CASE ~q.ok
  <2>1. PICK p \in Rollback(q.s) : r = [p EXCEPT !.rec = q.rec]
    BY <1>8, <1>10
  <2>2. p \in Outcome /\ Sound(p.s) /\ (q.s.lost => p.s.lost) /\ q \in Outcome
    BY <1>7, RollbackIs
  <2>3. r \in Outcome /\ r.s = p.s
    BY <2>1, <2>2 DEF Outcome
  <2> QED BY <1>7, <2>2, <2>3
<1> QED BY <1>9, <1>10

LEMMA ReturnToGameIs == ASSUME NEW s, Sound(s), s.phase \in Active, NEW r \in ReturnToGame(s)
                        PROVE  r \in Outcome /\ Sound(r.s) /\ (s.lost => r.s.lost)
<1> DEFINE ready   == Then(Read(s), SeatsReady)
           thawed  == Then(ready, LAMBDA t : IF t.unit = "running" THEN Go(t)
                        ELSE Catch(Freezer(t, "running"), LAMBDA u :
                                UNION {IF q.ok THEN Reread(q.s) ELSE Refreeze(q.s) : q \in Opacity(u, FALSE)}))
           focused == Then(thawed, LAMBDA t :
                        Catch(Then(Then(EnsureSeats(At(t, "Running")), ResetSeats), FocusLaunch),
                              LAMBDA u : Always(RecordFocusFailure(u), Fail)))
<1>1. ASSUME NEW q \in ready
      PROVE  Ends(s, q) /\ (q.ok => q.s.phase \in Active)
  <2>1. PICK p \in Read(s) : q \in IF p.ok THEN SeatsReady(p.s) ELSE {p}
    BY <1>1 DEF Then
  <2>2. p \in Outcome /\ Keeps(s, p.s) /\ Sound(p.s) /\ p.s \in World /\ (p.ok => p.s = s)
    BY ReadIs DEF Sound, Whole, Windowed
  <2>3. CASE ~p.ok
    BY <2>1, <2>2, <2>3 DEF Ends
  <2>4. CASE p.ok
    <3>1. q \in Outcome /\ Quiet(s, q.s)
      BY <2>1, <2>2, <2>4, SeatsReadyIs DEF Mild
    <3> QED BY <3>1, QuietSound DEF Ends, Quiet
  <2> QED BY <2>3, <2>4
<1> HIDE DEF ready
<1>2. ASSUME NEW q \in thawed
      PROVE  (q.ok /\ q \in Outcome /\ Windowed(q.s) /\ Keeps(s, q.s)) \/ Ends(s, q)
  <2>1. PICK p \in ready :
          q \in IF p.ok THEN IF p.s.unit = "running" THEN Go(p.s)
                             ELSE Catch(Freezer(p.s, "running"), LAMBDA u :
                                    UNION {IF o.ok THEN Reread(o.s) ELSE Refreeze(o.s) : o \in Opacity(u, FALSE)})
                ELSE {p}
    BY <1>2 DEF Then
  <2>2. Ends(s, p) /\ Windowed(p.s) /\ p.s \in World /\ Keeps(s, p.s) /\ (p.ok => p.s.phase \in Active)
    BY <1>1 DEF Ends, Sound, Whole, Windowed
  <2>3. CASE ~p.ok
    BY <2>1, <2>2, <2>3
  <2>4. CASE p.ok /\ p.s.unit = "running"
    BY <2>1, <2>2, <2>4, GoIs
  <2>5. CASE p.ok /\ p.s.unit # "running"
    <3>1. PICK o \in Freezer(p.s, "running") :
            q \in IF o.ok THEN {o}
                  ELSE UNION {IF n.ok THEN Reread(n.s) ELSE Refreeze(n.s) : n \in Opacity(o.s, FALSE)}
      BY <2>1, <2>5 DEF Catch
    <3>2. o \in Outcome /\ Windowed(o.s) /\ Keeps(s, o.s) /\ o.s.phase \in Active
      BY <2>2, <2>5, FreezerIs DEF Touches, Keeps
    <3>3. CASE o.ok
      BY <3>1, <3>2, <3>3
    <3>4. CASE ~o.ok
      <4>1. PICK n \in Opacity(o.s, FALSE) : q \in IF n.ok THEN Reread(n.s) ELSE Refreeze(n.s)
        BY <3>1, <3>4
      <4>2. Windowed(n.s) /\ Keeps(s, n.s) /\ n.s.phase \in Active /\ (n.ok => ~n.s.dim)
        <5>1. Touches(o.s, n.s) /\ (n.ok => ~n.s.dim)
          BY <3>2, <4>1, OpacityIs
        <5> QED BY <3>2, <5>1 DEF Touches, Keeps
      <4>3. CASE n.ok
        <5>1. Sound(n.s) /\ Whole(n.s)
          BY <4>2, <4>3 DEF Sound, Whole, Active
        <5>2. q \in Outcome /\ Keeps(n.s, q.s) /\ Sound(q.s)
          BY <4>1, <4>3, <5>1, RereadIs
        <5> QED BY <4>2, <5>2 DEF Ends, Keeps
      <4>4. CASE ~n.ok
        BY <4>1, <4>2, <4>4, RefreezeIs DEF Ends, Keeps
      <4> QED BY <4>3, <4>4
    <3> QED BY <3>3, <3>4
  <2> QED BY <2>3, <2>4, <2>5
<1> HIDE DEF thawed
<1>3. ASSUME NEW q \in focused PROVE Ends(s, q)
  <2>1. PICK p \in thawed :
          q \in IF p.ok THEN Catch(Then(Then(EnsureSeats(At(p.s, "Running")), ResetSeats), FocusLaunch),
                                   LAMBDA u : Always(RecordFocusFailure(u), Fail))
                ELSE {p}
    BY <1>3 DEF Then
  <2>2. CASE Ends(s, p) /\ ~p.ok
    BY <2>1, <2>2
  <2>3. CASE p.ok
    <3> DEFINE t == At(p.s, "Running")
    <3>1. Windowed(p.s) /\ Keeps(s, p.s) /\ p.s \in World
      BY <1>2, <2>3 DEF Ends, Sound, Whole, Windowed
    <3>2. Windowed(t) /\ t \in World /\ t.phase = "Running" /\ Keeps(s, t)
      BY <3>1, AtIs DEF Windowed, Phases, Keeps
    <3>3. PICK o \in Then(Then(EnsureSeats(t), ResetSeats), FocusLaunch) :
            q \in IF o.ok THEN {o} ELSE Always(RecordFocusFailure(o.s), Fail)
      BY <2>1, <2>3 DEF Catch
    <3>4. PICK n \in Then(EnsureSeats(t), ResetSeats) : o \in IF n.ok THEN FocusLaunch(n.s) ELSE {n}
      BY <3>3 DEF Then
    <3>5. PICK m \in EnsureSeats(t) : n \in IF m.ok THEN ResetSeats(m.s) ELSE {m}
      BY <3>4 DEF Then
    <3> HIDE DEF t
    <3>6. Mild(t, m) /\ m.s \in World
      BY <3>2, EnsureSeatsIs, MildWorld
    <3>7. Mild(t, n)
      BY <3>5, <3>6, ResetSeatsIs, MildTrans
    <3>8. n \in Outcome /\ Windowed(n.s) /\ n.s.phase = "Running" /\ Keeps(s, n.s)
      BY <3>2, <3>7, QuietSound DEF Mild, Quiet, Keeps
    <3>9. /\ o \in Outcome /\ Windowed(o.s) /\ o.s.phase = "Running" /\ Keeps(s, o.s)
          /\ o.ok => ~o.s.dim
      <4>1. CASE n.ok
        BY <3>4, <3>8, <4>1, FocusLaunchIs DEF Touches, Keeps
      <4>2. CASE ~n.ok
        BY <3>4, <3>8, <4>2
      <4> QED BY <4>1, <4>2
    <3>10. CASE o.ok
      BY <3>3, <3>9, <3>10 DEF Ends, Sound, Whole
    <3>11. CASE ~o.ok
      BY <3>3, <3>9, <3>11, GivesUp DEF Ends, Keeps
    <3> QED BY <3>10, <3>11
  <2> QED BY <1>2, <2>2, <2>3
<1>4. PICK q \in focused :
        r \in IF q.ok THEN Catch(Then(Reconcile(q.s), Settled),
                                 LAMBDA u : Always(RecordFocusFailure(u), Fail))
              ELSE {q}
  BY DEF ReturnToGame, Then, focused, thawed, ready
<1> HIDE DEF focused
<1>5. Ends(s, q) /\ Sound(q.s)
  BY <1>3 DEF Ends
<1>6. CASE q.ok
  BY <1>4, <1>5, <1>6, TailIs DEF Ends, Keeps
<1>7. CASE ~q.ok
  BY <1>4, <1>5, <1>7 DEF Ends, Keeps
<1> QED BY <1>6, <1>7

-----------------------------------------------------------------------------
(* Effects on a game. *)

\* A game that is not dimmed, unless the session was given up.
Tame(t) == Windowed(t) /\ (t.dim => t.lost)

LEMMA FailAt ==
    ASSUME NEW s, NEW t, Tame(t), Keeps(s, t), NEW p \in Phases \ {"Gone"}, NEW r \in Fail(At(t, p))
    PROVE  Ends(s, r) /\ ~r.ok
<1>1. At(t, p) \in World
  BY AtIs DEF Tame, Windowed
<1> QED BY <1>1, EndAt, FailIs DEF Tame

LEMMA QuietTame == ASSUME NEW s, Tame(s), NEW t, Quiet(s, t) PROVE Tame(t) /\ Keeps(s, t)
  BY QuietSound DEF Tame, Quiet

LEMMA TameRunning == ASSUME NEW s, NEW t, Tame(t), t.phase \in Active, Keeps(s, t), NEW r \in Outcome, r.s = t
                     PROVE  Ends(s, r)
  BY DEF Tame, Active, Ends, Sound, Whole

LEMMA StopSeatsTame == ASSUME NEW s, Tame(s), NEW r \in StopSeats(s)
                       PROVE  /\ r \in Outcome /\ Tame(r.s) /\ Keeps(s, r.s)
                              /\ r.s.phase = s.phase /\ r.s.unit = s.unit
<1>1. s \in World
  BY DEF Tame, Windowed
<1>2. r \in Outcome /\ Quiet(s, r.s)
  BY <1>1, StopSeatsIs DEF Mild
<1> QED BY <1>2, QuietTame DEF Quiet

LEMMA FreezerTame == ASSUME NEW s, Tame(s), NEW r \in Freezer(s, "frozen")
                     PROVE  r \in Outcome /\ Tame(r.s) /\ Keeps(s, r.s) /\ r.s.phase = s.phase
  BY FreezerIs DEF Tame, Touches, Keeps

LEMMA StopAt ==
    ASSUME NEW s, Tame(s), NEW p \in Phases \ {"Gone"},
           NEW q \in StopSeats(s), NEW r \in Fail(At(q.s, p))
    PROVE  Ends(s, r) /\ ~r.ok
  BY StopSeatsTame, FailAt

LEMMA RestoreIs ==
    ASSUME NEW s, Tame(s), s.phase = "Running", NEW frozen, NEW owned, NEW had,
           NEW r \in Restore(s, frozen, owned, had)
    PROVE  Ends(s, r) /\ ~r.ok
<1>0. s \in World
  BY DEF Tame, Windowed
<1> DEFINE kept == IF had THEN Go(s) ELSE Always(StopSeats(s), Go)
<1>1. CASE owned
  <2>1. PICK q \in StopSeats(s) : r \in Fail(At(q.s, "FocusFailed"))
    BY <1>1 DEF Restore, Always
  <2> QED BY <2>1, StopAt DEF Phases
<1>2. ASSUME NEW q \in kept PROVE Tame(q.s) /\ Keeps(s, q.s) /\ q.s.phase = "Running" /\ q.s \in World
  <2>1. CASE q \in Go(s)
    BY <1>0, <2>1, GoIs DEF Keeps
  <2>2. CASE q \in Always(StopSeats(s), Go)
    <3>1. PICK p \in StopSeats(s) : q \in Go(p.s)
      BY <2>2 DEF Always
    <3>2. Tame(p.s) /\ Keeps(s, p.s) /\ p.s.phase = "Running" /\ p.s \in World
      BY StopSeatsTame DEF Tame, Windowed
    <3> QED BY <3>1, <3>2, GoIs
  <2> QED BY <1>2, <2>1, <2>2
<1>3. CASE ~owned /\ ~frozen
  <2>1. PICK q \in kept : r \in Fail(q.s)
    BY <1>3 DEF Restore, Always
  <2> HIDE DEF kept
  <2>2. r \in Outcome /\ ~r.ok /\ r.s = q.s
    BY <1>2, <2>1, FailIs
  <2> QED BY <1>2, <2>2, TameRunning DEF Active
<1>4. CASE ~owned /\ frozen
  <2>1. PICK q \in kept :
          r \in UNION {Fail(At(p.s, IF p.ok THEN "Frozen" ELSE "Blocked")) : p \in Freezer(q.s, "frozen")}
    BY <1>4 DEF Restore, Always
  <2> HIDE DEF kept
  <2>2. PICK p \in Freezer(q.s, "frozen") : r \in Fail(At(p.s, IF p.ok THEN "Frozen" ELSE "Blocked"))
    BY <2>1
  <2>3. Tame(p.s) /\ Keeps(s, p.s)
    BY <1>2, FreezerTame DEF Keeps
  <2> QED BY <2>2, <2>3, FailAt DEF Phases
<1> QED BY <1>1, <1>3, <1>4

LEMMA RefuseSeatsIs ==
    ASSUME NEW s, Tame(s), s.phase = "Running", NEW frozen, NEW owned,
           NEW r \in RefuseSeats(s, frozen, owned)
    PROVE  Ends(s, r) /\ ~r.ok
<1>0. s \in World /\ Keeps(s, s)
  BY DEF Tame, Windowed, Keeps
<1>1. CASE owned
  <2>1. PICK q \in StopSeats(s) : r \in Fail(At(q.s, "FocusFailed"))
    BY <1>1 DEF RefuseSeats, Always
  <2> QED BY <2>1, StopAt DEF Phases
<1>2. CASE ~owned /\ ~frozen
  <2>1. r \in Outcome /\ ~r.ok /\ r.s = s
    BY <1>0, <1>2, FailIs DEF RefuseSeats
  <2> QED BY <1>0, <2>1, TameRunning DEF Active
<1>3. CASE ~owned /\ frozen
  <2>1. PICK p \in Freezer(s, "frozen") : r \in Fail(IF p.ok THEN At(p.s, "Frozen") ELSE p.s)
    BY <1>3 DEF RefuseSeats
  <2>2. Tame(p.s) /\ Keeps(s, p.s) /\ p.s.phase = "Running" /\ p.s \in World
    BY FreezerTame DEF Tame, Windowed
  <2>3. CASE p.ok
    BY <2>1, <2>2, <2>3, FailAt DEF Phases
  <2>4. CASE ~p.ok
    <3>1. r \in Outcome /\ ~r.ok /\ r.s = p.s
      BY <2>1, <2>2, <2>4, FailIs
    <3> QED BY <2>2, <3>1, TameRunning DEF Active
  <2> QED BY <2>3, <2>4
<1> QED BY <1>1, <1>2, <1>3

\* The steps that end in a phase, or block the session when a call fails.
LEMMA OrBlocked ==
    ASSUME NEW s, NEW q, q.ok => Ends(s, q), ~q.ok => Windowed(q.s) /\ Keeps(s, q.s),
           NEW r \in IF q.ok THEN {q} ELSE Fail(At(q.s, "Blocked"))
    PROVE  Ends(s, r)
<1>1. CASE q.ok
  BY <1>1
<1>2. CASE ~q.ok
  BY <1>2, EndAt DEF Phases
<1> QED BY <1>1, <1>2

LEMMA StopOrBlocked ==
    ASSUME NEW s, Tame(s), NEW p \in Phases \ {"Gone"},
           NEW o \in StopSeats(s), NEW q \in IF o.ok THEN Go(At(o.s, p)) ELSE {o},
           NEW r \in IF q.ok THEN {q} ELSE Fail(At(q.s, "Blocked"))
    PROVE  Ends(s, r)
<1>1. Tame(o.s) /\ Keeps(s, o.s)
  BY StopSeatsTame
<1>2. CASE o.ok
  <2>1. Ends(s, q)
    BY <1>1, <1>2, EndAt DEF Tame
  <2> QED BY <2>1, OrBlocked DEF Ends, Sound, Whole
<1>3. CASE ~o.ok
  BY <1>1, <1>3, OrBlocked DEF Tame
<1> QED BY <1>2, <1>3

LEMMA EndedIs ==
    ASSUME NEW s, Tame(s), NEW frozen, NEW owned, NEW had, NEW r \in Ended(s, frozen, owned, had)
    PROVE  Ends(s, r)
<1>0. s \in World /\ Windowed(s) /\ Keeps(s, s)
  BY DEF Tame, Windowed, Keeps
<1>1. CASE r \in Catch(Then(StopSeats(Dead(s, "gone")), Complete), LAMBDA t : Fail(At(t, "Blocked")))
  <2> DEFINE d == Dead(s, "gone")
  <2>1. Windowed(d) /\ d.unit = "gone" /\ Keeps(s, d)
    BY <1>0, DeadIs DEF Keeps
  <2> HIDE DEF d
  <2>2. Ends(d, r)
    BY <1>1, <2>1, FinishIs DEF d
  <2> QED BY <2>1, <2>2 DEF Ends, Keeps
<1>2. CASE r \in Catch(Then(StopSeats([s EXCEPT !.unit = "stopping"]), LAMBDA u : Go(At(u, "Stopping"))),
                       LAMBDA t : Fail(At(t, "Blocked")))
  <2> DEFINE d == [s EXCEPT !.unit = "stopping"]
  <2>1. Tame(d) /\ Keeps(s, d)
    BY <1>0, UnitIs DEF Tame, Touches, Keeps
  <2> HIDE DEF d
  <2>2. Ends(d, r)
    <3>1. PICK q \in Then(StopSeats(d), LAMBDA u : Go(At(u, "Stopping"))) :
            r \in IF q.ok THEN {q} ELSE Fail(At(q.s, "Blocked"))
      BY <1>2 DEF Catch, d
    <3>2. PICK o \in StopSeats(d) : q \in IF o.ok THEN Go(At(o.s, "Stopping")) ELSE {o}
      BY <3>1 DEF Then
    <3> QED BY <2>1, <3>1, <3>2, StopOrBlocked DEF Phases
  <2> QED BY <2>1, <2>2 DEF Ends, Keeps
<1>3. CASE r \in FailActive(Dead(s, "failed"))
  <2> DEFINE d == Dead(s, "failed")
  <2>1. Windowed(d) /\ ~d.dim /\ Keeps(s, d)
    BY <1>0, DeadIs DEF Keeps
  <2> HIDE DEF d
  <2>2. Ends(d, r)
    BY <1>3, <2>1, FailActiveIs DEF d
  <2> QED BY <2>1, <2>2 DEF Ends, Keeps
<1>4. CASE r \in Lossy(At(s, "Blocked"), Fail)
  BY <1>0, <1>4, EndLossy
<1>5. CASE r \in Catch(Then(StopSeats(s), LAMBDA u : Go(At(u, "FocusFailed"))),
                       LAMBDA t : Fail(At(t, "Blocked")))
  <2>1. PICK q \in Then(StopSeats(s), LAMBDA u : Go(At(u, "FocusFailed"))) :
          r \in IF q.ok THEN {q} ELSE Fail(At(q.s, "Blocked"))
    BY <1>5 DEF Catch
  <2>2. PICK o \in StopSeats(s) : q \in IF o.ok THEN Go(At(o.s, "FocusFailed")) ELSE {o}
    BY <2>1 DEF Then
  <2> QED BY <2>1, <2>2, StopOrBlocked DEF Phases
<1>6. CASE r \in Go(At(s, "Running"))
  BY <1>0, <1>6, EndAt DEF Phases, Tame
<1>7. CASE r \in Catch(Then(Then(Freezer(s, "frozen"), LAMBDA u : IF had THEN Go(u) ELSE StopSeats(u)),
                            LAMBDA u : Go(At(u, "Frozen"))),
                       LAMBDA t : Fail(At(t, "Blocked")))
  <2>1. PICK q \in Then(Then(Freezer(s, "frozen"), LAMBDA u : IF had THEN Go(u) ELSE StopSeats(u)),
                        LAMBDA u : Go(At(u, "Frozen"))) :
          r \in IF q.ok THEN {q} ELSE Fail(At(q.s, "Blocked"))
    BY <1>7 DEF Catch
  <2>2. PICK p \in Then(Freezer(s, "frozen"), LAMBDA u : IF had THEN Go(u) ELSE StopSeats(u)) :
          q \in IF p.ok THEN Go(At(p.s, "Frozen")) ELSE {p}
    BY <2>1 DEF Then
  <2>3. PICK o \in Freezer(s, "frozen") :
          p \in IF o.ok THEN IF had THEN Go(o.s) ELSE StopSeats(o.s) ELSE {o}
    BY <2>2 DEF Then
  <2>4. Tame(o.s) /\ Keeps(s, o.s) /\ o.s \in World
    BY FreezerTame DEF Tame, Windowed
  <2>5. Tame(p.s) /\ Keeps(s, p.s)
    <3>1. CASE p = o
      BY <2>4, <3>1
    <3>2. CASE p \in Go(o.s)
      BY <2>4, <3>2, GoIs
    <3>3. CASE p \in StopSeats(o.s)
      BY <2>4, <3>3, StopSeatsTame DEF Keeps
    <3> QED BY <2>3, <3>1, <3>2, <3>3
  <2>6. CASE p.ok
    <3>1. Ends(s, q)
      BY <2>2, <2>5, <2>6, EndAt DEF Tame, Phases
    <3> QED BY <2>1, <3>1, OrBlocked DEF Ends, Sound, Whole
  <2>7. CASE ~p.ok
    BY <2>1, <2>2, <2>5, <2>7, OrBlocked DEF Tame
  <2> QED BY <2>6, <2>7
<1> QED BY <1>1, <1>2, <1>3, <1>4, <1>5, <1>6, <1>7 DEF Ended

LEMMA EffectOnIs ==
    ASSUME NEW s, Sound(s), s.phase \in Active, NEW after, NEW waits, NEW r \in EffectOn(s, after, waits)
    PROVE  Ends(s, r)
<1> DEFINE owned == s.phase = "FocusFailed"
           halted == s.unit \in {"frozen", "transition"}
           frozen == s.phase = "Frozen" \/ halted
           had    == s.seat = "live"
           awake  == Then(Call(s, {s}), LAMBDA t :
                     IF t.unit \notin Live
                     THEN CASE t.unit = "stopping" -> Fail(At(t, "Stopping"))
                            [] t.unit = "failed"   -> Always(FailActive(t), Fail)
                            [] OTHER -> Always(Always(StopSeats(t), Complete), LAMBDA u : Fail(At(u, "Gone")))
                     ELSE Then(SeatsReady(t), LAMBDA u :
                            IF halted THEN Then(Opacity(u, FALSE), LAMBDA v : Freezer(v, "running")) ELSE Go(u)))
           seated == Then(awake, LAMBDA t : Catch(EnsureSeats(At(t, "Running")),
                                                  LAMBDA u : RefuseSeats(u, frozen, owned)))
           done   == Then(seated, LAMBDA t : Catch(Call(t, {t}), LAMBDA u : Restore(u, frozen, owned, had)))
<1>0. s \in World /\ Windowed(s) /\ Keeps(s, s)
  BY DEF Sound, Whole, Windowed, Keeps
<1>1. ASSUME NEW q \in awake
      PROVE  (q.ok /\ q \in Outcome /\ Tame(q.s) /\ Keeps(s, q.s)) \/ (~q.ok /\ Ends(s, q))
  <2>1. PICK p \in Call(s, {s}) :
          q \in IF p.ok
                THEN IF p.s.unit \notin Live
                     THEN CASE p.s.unit = "stopping" -> Fail(At(p.s, "Stopping"))
                            [] p.s.unit = "failed"   -> Always(FailActive(p.s), Fail)
                            [] OTHER -> Always(Always(StopSeats(p.s), Complete), LAMBDA u : Fail(At(u, "Gone")))
                     ELSE Then(SeatsReady(p.s), LAMBDA u :
                            IF halted THEN Then(Opacity(u, FALSE), LAMBDA v : Freezer(v, "running")) ELSE Go(u))
                ELSE {p}
    BY <1>1 DEF Then
  <2>2. p \in Outcome /\ Quiet(s, p.s) /\ (p.ok => p.s = s)
    <3>1. {s} \in SUBSET World
      BY <1>0
    <3>2. p \in Outcome /\ (p.ok => p.s = s) /\ (~p.ok => Quiet(s, p.s))
      BY <1>0, <3>1, CallIs
    <3> QED BY <1>0, <3>2, QuietRefl
  <2>3. CASE ~p.ok
    BY <2>1, <2>2, <2>3, QuietSound DEF Ends
  <2>4. CASE p.ok /\ s.unit = "stopping"
    <3>1. q \in Fail(At(s, "Stopping"))
      BY <2>1, <2>2, <2>4 DEF Live
    <3>2. Tame(s)
      BY <1>0, <2>4 DEF Tame, Sound
    <3> QED BY <1>0, <3>1, <3>2, FailAt DEF Phases
  <2>5. CASE p.ok /\ s.unit = "failed"
    <3>1. q \in Always(FailActive(s), Fail)
      BY <2>1, <2>2, <2>5 DEF Live
    <3>2. PICK o \in FailActive(s) : q \in Fail(o.s)
      BY <3>1 DEF Always
    <3>3. Ends(s, o) /\ o.s \in World
      BY <1>0, <2>5, FailActiveIs DEF Windowed, Ends, Sound, Whole
    <3>4. q \in Outcome /\ ~q.ok /\ q.s = o.s
      BY <3>2, <3>3, FailIs
    <3> QED BY <3>3, <3>4 DEF Ends
  <2>6. CASE p.ok /\ s.unit = "gone"
    <3>1. q \in Always(Always(StopSeats(s), Complete), LAMBDA u : Fail(At(u, "Gone")))
      BY <2>1, <2>2, <2>6 DEF Live
    <3>2. PICK o \in Always(StopSeats(s), Complete) : q \in Fail(At(o.s, "Gone"))
      BY <3>1 DEF Always
    <3>3. PICK n \in StopSeats(s) : o \in Complete(n.s)
      BY <3>2 DEF Always
    <3>4. Windowed(n.s) /\ n.s.unit = "gone" /\ Keeps(s, n.s)
      BY <1>0, <2>6, StopSeatsIs, QuietSound DEF Mild, Quiet
    <3>5. Ends(n.s, o) /\ o.s.unit = "gone" /\ o.s \in World
      BY <3>3, <3>4, CompleteIs DEF Ends, Sound, Whole, Windowed
    <3> DEFINE t == At(o.s, "Gone")
    <3>6. t \in World /\ t.phase = "Gone" /\ t.unit = "gone" /\ t.dim = o.s.dim /\ Keeps(o.s, t)
      BY <3>5, AtIs DEF Phases
    <3> HIDE DEF t
    <3>7. q \in Outcome /\ ~q.ok /\ q.s = t
      BY <3>2, <3>6, FailIs DEF t
    <3> QED BY <3>4, <3>5, <3>6, <3>7 DEF Ends, Keeps, Sound, Whole, Windowed
  <2>7. CASE p.ok /\ s.unit \in Live
    <3>1. PICK o \in SeatsReady(s) :
            q \in IF o.ok THEN IF halted THEN Then(Opacity(o.s, FALSE), LAMBDA v : Freezer(v, "running"))
                               ELSE Go(o.s)
                  ELSE {o}
      BY <2>1, <2>2, <2>7 DEF Then
    <3>2. o \in Outcome /\ Quiet(s, o.s) /\ o.s \in World
      BY <1>0, SeatsReadyIs, MildWorld DEF Mild
    <3>3. Windowed(o.s) /\ Sound(o.s) /\ Keeps(s, o.s) /\ o.s.phase \in Active
      BY <1>0, <3>2, QuietSound DEF Quiet
    <3>4. CASE ~o.ok
      BY <3>1, <3>2, <3>3, <3>4 DEF Ends
    <3>5. CASE o.ok /\ ~halted
      <4>1. q.ok /\ q \in Outcome /\ q.s = o.s
        BY <3>1, <3>2, <3>5, GoIs
      <4>2. Tame(o.s)
        BY <3>2, <3>3, <3>5 DEF Tame, Sound, Quiet
      <4>3. Sound(q.s) /\ Keeps(s, q.s) /\ Tame(q.s)
        BY <3>3, <4>1, <4>2
      <4>4. Ends(s, q)
        BY <4>1, <4>3 DEF Ends
      <4> QED BY <4>1, <4>3, <4>4
    <3>6. CASE o.ok /\ halted
      <4>1. PICK n \in Opacity(o.s, FALSE) : q \in IF n.ok THEN Freezer(n.s, "running") ELSE {n}
        BY <3>1, <3>6 DEF Then
      <4>2. /\ n \in Outcome /\ Touches(o.s, n.s) /\ n.s.unit = o.s.unit
            /\ (n.s.dim => o.s.dim) /\ (n.ok => ~n.s.dim)
        BY <3>3, <4>1, OpacityIs
      <4>3. Windowed(n.s) /\ Keeps(s, n.s) /\ n.s.phase \in Active /\ Sound(n.s)
        BY <3>3, <4>2 DEF Touches, Keeps, Sound, Whole
      <4>4. CASE ~n.ok
        BY <4>1, <4>2, <4>3, <4>4 DEF Ends
      <4>5. CASE n.ok
        <5>1. q \in Outcome /\ Touches(n.s, q.s) /\ (q.s.dim => n.s.dim)
          BY <4>1, <4>3, <4>5, FreezerIs
        <5>2. Tame(q.s) /\ Keeps(s, q.s) /\ q.s.phase \in Active
          BY <4>2, <4>3, <4>5, <5>1 DEF Touches, Tame, Keeps
        <5>3. Ends(s, q)
          BY <5>1, <5>2, TameRunning
        <5> QED BY <5>1, <5>2, <5>3
      <4> QED BY <4>4, <4>5
    <3> QED BY <3>4, <3>5, <3>6
  <2>8. s.unit \in Live \cup {"stopping", "gone", "failed"}
    BY <1>0 DEF World, Fields
  <2> QED BY <2>3, <2>4, <2>5, <2>6, <2>7, <2>8
<1> HIDE DEF awake
<1>2. ASSUME NEW q \in seated
      PROVE  \/ q.ok /\ q \in Outcome /\ Tame(q.s) /\ q.s.phase = "Running" /\ Keeps(s, q.s)
             \/ ~q.ok /\ Ends(s, q)
  <2>1. PICK p \in awake :
          q \in IF p.ok THEN Catch(EnsureSeats(At(p.s, "Running")), LAMBDA u : RefuseSeats(u, frozen, owned))
                ELSE {p}
    BY <1>2 DEF Then
  <2>2. CASE ~p.ok
    BY <1>1, <2>1, <2>2
  <2>3. CASE p.ok
    <3> DEFINE t == At(p.s, "Running")
    <3>1. p \in Outcome /\ Tame(p.s) /\ Keeps(s, p.s)
      BY <1>1, <2>3
    <3>2. Tame(t) /\ t \in World /\ t.phase = "Running" /\ Keeps(s, t)
      BY <3>1, AtIs DEF Tame, Windowed, Phases, Keeps
    <3>3. PICK o \in EnsureSeats(t) : q \in IF o.ok THEN {o} ELSE RefuseSeats(o.s, frozen, owned)
      BY <2>1, <2>3 DEF Catch
    <3> HIDE DEF t, frozen, owned
    <3>4. o \in Outcome /\ Quiet(t, o.s)
      BY <3>2, EnsureSeatsIs DEF Mild
    <3>5. Tame(o.s) /\ o.s.phase = "Running" /\ Keeps(s, o.s)
      BY <3>2, <3>4, QuietTame DEF Quiet, Keeps
    <3>6. CASE o.ok
      BY <3>3, <3>4, <3>5, <3>6
    <3>7. CASE ~o.ok
      BY <3>3, <3>5, <3>7, RefuseSeatsIs DEF Ends, Keeps
    <3> QED BY <3>6, <3>7
  <2> QED BY <2>2, <2>3
<1> HIDE DEF seated
<1>3. ASSUME NEW q \in done
      PROVE  \/ q.ok /\ q \in Outcome /\ Tame(q.s) /\ q.s.phase = "Running" /\ Keeps(s, q.s)
             \/ ~q.ok /\ Ends(s, q)
  <2>1. PICK p \in seated :
          q \in IF p.ok THEN Catch(Call(p.s, {p.s}), LAMBDA u : Restore(u, frozen, owned, had)) ELSE {p}
    BY <1>3 DEF Then
  <2>2. CASE ~p.ok
    BY <1>2, <2>1, <2>2
  <2>3. CASE p.ok
    <3>1. p \in Outcome /\ Tame(p.s) /\ p.s.phase = "Running" /\ Keeps(s, p.s) /\ p.s \in World
      BY <1>2, <2>3 DEF Tame, Windowed
    <3>2. PICK o \in Call(p.s, {p.s}) : q \in IF o.ok THEN {o} ELSE Restore(o.s, frozen, owned, had)
      BY <2>1, <2>3 DEF Catch
    <3> HIDE DEF frozen, owned, had
    <3>3. o \in Outcome /\ Quiet(p.s, o.s)
      BY <3>1, QuietCall, QuietRefl DEF Mild
    <3>4. Tame(o.s) /\ o.s.phase = "Running" /\ Keeps(s, o.s)
      BY <3>1, <3>3, QuietTame DEF Quiet, Keeps
    <3>5. CASE o.ok
      BY <3>2, <3>3, <3>4, <3>5
    <3>6. CASE ~o.ok
      BY <3>2, <3>4, <3>6, RestoreIs DEF Ends, Keeps
    <3> QED BY <3>5, <3>6
  <2> QED BY <2>2, <2>3
<1>4. PICK q \in done :
        r \in IF q.ok
              THEN IF waits THEN Ended(q.s, frozen, owned, had)
                   ELSE IF frozen THEN UNION {Go(At(p.s, IF p.ok THEN "Frozen" ELSE "Blocked")) : p \in Freezer(q.s, "frozen")}
                   ELSE IF after THEN Catch(FocusLaunch(q.s), RecordFocusFailure)
                   ELSE Go(q.s)
              ELSE {q}
  BY DEF EffectOn, Then, done, seated, awake
<1> HIDE DEF done, frozen, owned, had
<1>5. CASE ~q.ok
  BY <1>3, <1>4, <1>5
<1>6. CASE q.ok
  <2>1. q \in Outcome /\ Tame(q.s) /\ q.s.phase = "Running" /\ Keeps(s, q.s) /\ q.s \in World /\ Windowed(q.s)
    BY <1>3, <1>6 DEF Tame, Windowed
  <2>2. CASE r \in Ended(q.s, frozen, owned, had)
    BY <2>1, <2>2, EndedIs DEF Ends, Keeps
  <2>3. CASE r \in UNION {Go(At(p.s, IF p.ok THEN "Frozen" ELSE "Blocked")) : p \in Freezer(q.s, "frozen")}
    <3>1. PICK p \in Freezer(q.s, "frozen") : r \in Go(At(p.s, IF p.ok THEN "Frozen" ELSE "Blocked"))
      BY <2>3
    <3>2. Tame(p.s) /\ Keeps(s, p.s)
      BY <2>1, FreezerTame DEF Keeps
    <3> QED BY <3>1, <3>2, EndAt DEF Tame, Phases
  <2>4. CASE r \in Catch(FocusLaunch(q.s), RecordFocusFailure)
    <3>1. PICK p \in FocusLaunch(q.s) : r \in IF p.ok THEN {p} ELSE RecordFocusFailure(p.s)
      BY <2>4 DEF Catch
    <3>2. p \in Outcome /\ Touches(q.s, p.s) /\ (p.s.dim => q.s.dim)
      BY <2>1, FocusLaunchIs
    <3>3. Tame(p.s) /\ p.s.phase = "Running" /\ Keeps(s, p.s)
      BY <2>1, <3>2 DEF Touches, Tame, Keeps
    <3>4. CASE p.ok
      BY <3>1, <3>2, <3>3, <3>4, TameRunning DEF Active
    <3>5. CASE ~p.ok
      BY <3>1, <3>3, <3>5, RecordFocusFailureIs DEF Ends, Keeps, Tame
    <3> QED BY <3>4, <3>5
  <2>5. CASE r \in Go(q.s)
    BY <2>1, <2>5, GoIs, TameRunning DEF Active
  <2> QED BY <1>4, <1>6, <2>2, <2>3, <2>4, <2>5
<1> QED BY <1>5, <1>6

-----------------------------------------------------------------------------
(* Observing. *)

\* A session that is being stopped, or is over, does not come back by itself.
StaysDown(s, t) == s.phase \in {"Stopping", "Gone"} => t.phase \in {"Stopping", "Gone"} \/ t.lost

LEMMA ObservedIs == ASSUME NEW s, Sound(s), NEW r \in Observed(s)
                    PROVE  Ends(s, r) /\ StaysDown(s, r.s)
<1>0. s \in World /\ Windowed(s) /\ Keeps(s, s)
  BY DEF Sound, Whole, Windowed, Keeps
<1>1. CASE r \in Go(s)
  BY <1>0, <1>1, GoIs DEF Ends, StaysDown
<1>2. CASE r \in Lossy(At(s, "Blocked"), Go)
  <2> DEFINE b == At(s, "Blocked")
             v == [b EXCEPT !.faults = @ - 1]
  <2>1. Sound(b) /\ Keeps(s, b) /\ b \in World /\ b.lost
    BY <1>0, EndsSound, AtIs DEF Phases
  <2>2. b.faults # 0 /\ r \in Go(v)
    BY <1>2 DEF Lossy
  <2> HIDE DEF b
  <2>3. Quiet(b, v)
    BY <2>1, <2>2, SpentIs
  <2> HIDE DEF v
  <2>4. r \in Outcome /\ r.s = v
    BY <2>2, <2>3, GoIs DEF Quiet
  <2> QED BY <2>1, <2>3, <2>4, QuietSound DEF Ends, Keeps, StaysDown
<1>3. CASE s.unit = "running" /\ s.phase # "FocusFailed" /\ s.phase # "Stopping" /\ r \in Go(At(s, "Running"))
           /\ s.phase \in {"Running", "Frozen", "FocusFailed", "Stopping"}
  BY <1>0, <1>3, EndAt DEF Sound, Phases, StaysDown
<1>4. CASE s.unit \in {"frozen", "transition"} /\ s.phase # "Stopping" /\ r \in Go(At(s, "Frozen"))
           /\ s.phase \in {"Running", "Frozen", "FocusFailed", "Stopping"}
  BY <1>0, <1>4, EndAt DEF Sound, Phases, StaysDown
<1>5. CASE s.unit = "stopping" /\ r \in Always(StopSeats(s), LAMBDA t : Go(At(t, "Stopping")))
  <2>1. PICK q \in StopSeats(s) : r \in Go(At(q.s, "Stopping"))
    BY <1>5 DEF Always
  <2>2. Tame(s)
    BY <1>0, <1>5 DEF Tame, Sound
  <2>3. Tame(q.s) /\ Keeps(s, q.s)
    BY <2>2, StopSeatsTame
  <2> QED BY <2>1, <2>3, EndAt DEF Tame, Phases, StaysDown
<1>6. CASE s.unit = "gone" /\ r \in Catch(Then(StopSeats(s), Complete), LAMBDA t : Fail(At(t, "Blocked")))
  <2>1. Ends(s, r) /\ r.s.phase \in {"Gone", "Blocked"}
    BY <1>0, <1>6, FinishIs
  <2> QED BY <2>1 DEF Ends, Sound, Whole, StaysDown
<1>7. CASE s.unit = "failed" /\ r \in FailActive(s)
  <2>1. Ends(s, r) /\ r.s.phase \in {"Gone", "Blocked"}
    BY <1>0, <1>7, FailActiveIs DEF Windowed
  <2> QED BY <2>1 DEF Ends, Sound, Whole, StaysDown
<1> QED BY <1>1, <1>2, <1>3, <1>4, <1>5, <1>6, <1>7 DEF Observed

LEMMA WatchOnIs == ASSUME NEW s, Sound(s), NEW r \in WatchOn(s)
                   PROVE  Ends(s, r) /\ StaysDown(s, r.s)
<1>1. PICK q \in Always(Observed(s), LAMBDA t : Catch(Reconcile(t), LAMBDA u :
                   IF u.phase = "Running" THEN RecordFocusFailure(u) ELSE Fail(u))) : r \in Settled(q.s)
  BY DEF WatchOn, Always
<1>2. PICK p \in Observed(s) : q \in Catch(Reconcile(p.s), LAMBDA u :
                   IF u.phase = "Running" THEN RecordFocusFailure(u) ELSE Fail(u))
  BY <1>1 DEF Always
<1>3. PICK o \in Reconcile(p.s) :
        q \in IF o.ok THEN {o} ELSE IF o.s.phase = "Running" THEN RecordFocusFailure(o.s) ELSE Fail(o.s)
  BY <1>2 DEF Catch
<1>4. Ends(s, p) /\ StaysDown(s, p.s) /\ p.s \in World /\ Sound(p.s)
  BY ObservedIs DEF Ends, Sound, Whole, Windowed
<1>5. o \in Outcome /\ Quiet(p.s, o.s) /\ o.s \in World
  BY <1>4, ReconcileIs, MildWorld DEF Mild
<1>6. Sound(o.s) /\ Keeps(s, o.s) /\ StaysDown(s, o.s) /\ Windowed(o.s)
  BY <1>4, <1>5, QuietSound DEF Ends, Keeps, Quiet, StaysDown, Sound, Whole
<1>7. Sound(q.s) /\ Keeps(s, q.s) /\ StaysDown(s, q.s) /\ q.s \in World
  <2>1. CASE o.ok
    BY <1>3, <1>5, <1>6, <2>1
  <2>2. CASE ~o.ok /\ o.s.phase # "Running"
    BY <1>3, <1>5, <1>6, <2>2, FailIs
  <2>3. CASE ~o.ok /\ o.s.phase = "Running"
    <3>1. Ends(o.s, q)
      BY <1>3, <1>6, <2>3, RecordFocusFailureIs
    <3>2. s.phase \in {"Stopping", "Gone"} => o.s.lost
      BY <1>6, <2>3 DEF StaysDown
    <3> QED BY <1>6, <3>1, <3>2 DEF Ends, Keeps, StaysDown, Sound, Whole, Windowed
  <2> QED BY <2>1, <2>2, <2>3
<1> QED BY <1>1, <1>7, SettledIs DEF Ends

-----------------------------------------------------------------------------
(* The steps. *)

\* The invariant of the first state.
LEMMA InitIInv == Init => IInv
<1> SUFFICES ASSUME Init PROVE IInv
  OBVIOUS
<1>1. PICK p \in BOOLEAN :
        w = [phase |-> "Gone", unit |-> "gone", dim |-> FALSE, focus |-> FALSE,
             route |-> "portal", fenced |-> FALSE, seat |-> "none", applied |-> "Unknown",
             portal |-> p, native |-> TRUE, roll |-> FALSE, lost |-> FALSE,
             faults |-> MaxFaults]
  BY DEF Init
<1>2. MaxFaults \in 0..MaxFaults
  BY MaxFaultsAssumption
<1>3. /\ w \in World /\ w.phase = "Gone" /\ w.unit = "gone" /\ w.dim = FALSE
      /\ w.roll = FALSE
  BY <1>1, <1>2 DEF World, Fields, Phases
<1>4. helper \in Helper /\ helper.at = "none"
  BY DEF Init, Idle, Helper
<1> QED BY <1>3, <1>4 DEF IInv, Sound, Whole, Windowed, HelperOK

\* A step that leaves the helper alone.
LEMMA SameHelper ==
    ASSUME IInv, Sound(w'), ~w'.roll, w.lost => w'.lost, StaysDown(w, w'), UNCHANGED helper
    PROVE  IInv'
  BY DEF IInv, HelperOK, StaysDown, Sound, Whole, Windowed, World, Fields

\* Leave, Return and Effect: they do nothing to a session that is not active.
LEMMA Operated ==
    ASSUME IInv, NEW s \in Refresh(w), NEW r \in Outcome, Sound(r.s), s.lost => r.s.lost,
           s.phase \notin Active => r.s = s, NEW t \in Drop(r),
           w' = [t EXCEPT !.roll = FALSE], UNCHANGED helper
    PROVE  IInv'
<1>1. Sound(s) /\ Keeps(w, s) /\ (w.phase # "Blocked" => s = w)
  BY RefreshIs DEF IInv
<1>2. Ends(r.s, r)
  BY DEF Ends, Keeps
<1>3. Sound(t) /\ Keeps(r.s, t) /\ (r.s.phase # "Running" => t.phase = r.s.phase)
  BY <1>2, DropIs
<1>4. /\ w' \in World /\ w'.roll = FALSE /\ w'.phase = t.phase /\ w'.unit = t.unit
      /\ w'.dim = t.dim /\ w'.lost = t.lost
  BY <1>3 DEF Sound, Whole, Windowed, World, Fields
<1>5. Sound(w') /\ ~w'.roll
  BY <1>3, <1>4 DEF Sound, Whole, Windowed
<1>6. w.lost => w'.lost
  BY <1>1, <1>3, <1>4 DEF Keeps
<1>7. StaysDown(w, w')
  BY <1>1, <1>3, <1>4 DEF StaysDown, Active
<1> QED BY <1>5, <1>6, <1>7, SameHelper

LEMMA RefusedIs == ASSUME NEW s, Sound(s), NEW r \in Fail(s)
                   PROVE  r \in Outcome /\ r.s = s
  BY FailIs DEF Sound, Whole, Windowed

LEMMA LeaveStep == IInv /\ Leave => IInv'
<1> SUFFICES ASSUME IInv, Leave PROVE IInv'
  OBVIOUS
<1>1. PICK s \in Refresh(w) :
        w' \in {[t EXCEPT !.roll = FALSE] :
                t \in Release(IF s.phase \in {"Running", "Frozen", "FocusFailed"} THEN LeaveGame(s) ELSE Fail(s))}
  BY DEF Leave, Operate
<1>2. PICK r \in IF s.phase \in Active THEN LeaveGame(s) ELSE Fail(s) :
        \E t \in Drop(r) : w' = [t EXCEPT !.roll = FALSE]
  BY <1>1 DEF Release, Active
<1>3. Sound(s)
  BY RefreshIs DEF IInv
<1>4. r \in Outcome /\ Sound(r.s) /\ (s.lost => r.s.lost) /\ (s.phase \notin Active => r.s = s)
  BY <1>2, <1>3, LeaveGameIs, RefusedIs
<1>5. UNCHANGED helper
  BY DEF Leave, Operate
<1> QED BY <1>2, <1>4, <1>5, Operated

LEMMA ReturnStep == IInv /\ Return => IInv'
<1> SUFFICES ASSUME IInv, Return PROVE IInv'
  OBVIOUS
<1>1. PICK s \in Refresh(w) :
        w' \in {[t EXCEPT !.roll = FALSE] :
                t \in Release(IF s.phase \in {"Running", "Frozen", "FocusFailed"} THEN ReturnToGame(s) ELSE Fail(s))}
  BY DEF Return, Operate
<1>2. PICK r \in IF s.phase \in Active THEN ReturnToGame(s) ELSE Fail(s) :
        \E t \in Drop(r) : w' = [t EXCEPT !.roll = FALSE]
  BY <1>1 DEF Release, Active
<1>3. Sound(s)
  BY RefreshIs DEF IInv
<1>4. r \in Outcome /\ Sound(r.s) /\ (s.lost => r.s.lost) /\ (s.phase \notin Active => r.s = s)
  BY <1>2, <1>3, ReturnToGameIs, RefusedIs
<1>5. UNCHANGED helper
  BY DEF Return, Operate
<1> QED BY <1>2, <1>4, <1>5, Operated

LEMMA EffectStep == IInv /\ Effect => IInv'
<1> SUFFICES ASSUME IInv, Effect PROVE IInv'
  OBVIOUS
<1>1. PICK after, waits \in BOOLEAN : Operate(LAMBDA s : EffectOn(s, after, waits))
  BY DEF Effect
<1>2. PICK s \in Refresh(w) :
        w' \in {[t EXCEPT !.roll = FALSE] :
                t \in Release(IF s.phase \in {"Running", "Frozen", "FocusFailed"}
                              THEN EffectOn(s, after, waits) ELSE Fail(s))}
  BY <1>1 DEF Operate
<1>3. PICK r \in IF s.phase \in Active THEN EffectOn(s, after, waits) ELSE Fail(s) :
        \E t \in Drop(r) : w' = [t EXCEPT !.roll = FALSE]
  BY <1>2 DEF Release, Active
<1>4. Sound(s)
  BY RefreshIs DEF IInv
<1>5. r \in Outcome /\ Sound(r.s) /\ (s.lost => r.s.lost) /\ (s.phase \notin Active => r.s = s)
  <2>1. CASE s.phase \in Active
    BY <1>3, <1>4, <2>1, EffectOnIs DEF Ends, Keeps
  <2>2. CASE s.phase \notin Active
    BY <1>3, <1>4, <2>2, RefusedIs
  <2> QED BY <2>1, <2>2
<1>6. UNCHANGED helper
  BY <1>1 DEF Operate
<1> QED BY <1>3, <1>5, <1>6, Operated

\* A poll of the status.
LEMMA Polled ==
    ASSUME IInv, NEW s \in Refresh(w), NEW r, Ends(s, r), StaysDown(s, r.s), NEW t \in Drop(r),
           w' = t, UNCHANGED helper
    PROVE  IInv'
<1>1. Sound(s) /\ Keeps(w, s) /\ (w.phase # "Blocked" => s = w)
  BY RefreshIs DEF IInv
<1>2. Sound(w') /\ Keeps(s, w') /\ (r.s.phase # "Running" => w'.phase = r.s.phase)
  BY DropIs
<1>3. r.s.lost => w'.lost
  <2>1. Ends(r.s, r)
    BY DEF Ends, Keeps
  <2> QED BY <2>1, DropIs DEF Keeps
<1>4. (w.lost => w'.lost) /\ ~w'.roll
  BY <1>1, <1>2 DEF Keeps, IInv
<1>5. StaysDown(w, w')
  BY <1>1, <1>2, <1>3 DEF StaysDown
<1> QED BY <1>2, <1>4, <1>5, SameHelper

LEMMA WatchStep == IInv /\ (Watch \/ ControlStatus) => IInv'
<1> SUFFICES ASSUME IInv, Watch \/ ControlStatus PROVE IInv'
  OBVIOUS
<1>1. UNCHANGED helper
  BY DEF Watch, ControlStatus
<1>2. CASE Watch
  <2>1. PICK s \in Refresh(w) : w' \in Release(WatchOn(s))
    BY <1>2 DEF Watch
  <2>2. PICK r \in WatchOn(s) : w' \in Drop(r)
    BY <2>1 DEF Release
  <2>3. Sound(s)
    BY RefreshIs DEF IInv
  <2> QED BY <1>1, <2>2, <2>3, WatchOnIs, Polled
<1>3. CASE ControlStatus
  <2>1. PICK s \in Refresh(w) : w' \in Release(Always(Observed(s), Settled))
    BY <1>3 DEF ControlStatus
  <2>2. PICK r \in Always(Observed(s), Settled) : w' \in Drop(r)
    BY <2>1 DEF Release
  <2>3. PICK q \in Observed(s) : r \in Settled(q.s)
    BY <2>2 DEF Always
  <2>4. Sound(s)
    BY RefreshIs DEF IInv
  <2>5. Ends(s, q) /\ StaysDown(s, q.s) /\ q.s \in World
    BY <2>4, ObservedIs DEF Ends, Sound, Whole, Windowed
  <2>6. Ends(s, r) /\ StaysDown(s, r.s)
    BY <2>3, <2>5, SettledIs DEF Ends
  <2> QED BY <1>1, <2>2, <2>6, Polled
<1> QED BY <1>2, <1>3

LEMMA PrepareStep == IInv /\ Prepare => IInv'
<1> SUFFICES ASSUME IInv, Prepare PROVE IInv'
  OBVIOUS
<1> DEFINE s == [w EXCEPT !.phase = "Running", !.unit = "running", !.seat = "live", !.lost = FALSE]
<1>1. PICK r \in Catch(Reconcile(s), LAMBDA t : Always(RecordFocusFailure(t), Fail)) : w' \in Drop(r)
  BY DEF Prepare, Release
<1>2. w \in World /\ ~w.dim /\ w.roll = FALSE
  BY DEF IInv, Sound, Whole, Windowed, Prepare, World, Fields
<1>3. s \in World /\ s.phase = "Running" /\ s.unit = "running" /\ s.dim = w.dim /\ s.roll = FALSE
  BY <1>2 DEF World, Fields, Phases, Live
<1> HIDE DEF s
<1>4. Sound(s) /\ Keeps(s, s)
  BY <1>2, <1>3 DEF Sound, Whole, Windowed, Keeps
<1>5. PICK q \in Reconcile(s) : r \in IF q.ok THEN {q} ELSE Always(RecordFocusFailure(q.s), Fail)
  BY <1>1 DEF Catch
<1>6. q \in Outcome /\ Quiet(s, q.s)
  BY <1>3, ReconcileIs DEF Mild
<1>7. Sound(q.s) /\ Keeps(s, q.s) /\ Windowed(q.s)
  BY <1>4, <1>6, QuietSound DEF Sound, Whole
<1>8. Ends(s, r)
  <2>1. CASE q.ok
    BY <1>5, <1>6, <1>7, <2>1 DEF Ends
  <2>2. CASE ~q.ok
    BY <1>5, <1>7, <2>2, GivesUp DEF Ends, Keeps
  <2> QED BY <2>1, <2>2
<1>9. Sound(w') /\ ~w'.roll
  BY <1>1, <1>3, <1>8, DropIs DEF Keeps
<1>10. helper' \in Helper /\ ~helper'.mine
  <2>1. helper' \in Helper /\ helper'.mine = FALSE
    BY DEF IInv, HelperOK, Prepare, Helper
  <2> QED BY <2>1
<1> QED BY <1>9, <1>10 DEF IInv, HelperOK

LEMMA StopBeginStep == IInv /\ StopBegin => IInv'
<1> SUFFICES ASSUME IInv, StopBegin PROVE IInv'
  OBVIOUS
<1>1. PICK s \in Refresh(w) :
        /\ s.phase \in {"Running", "Frozen", "FocusFailed"}
        /\ \E r \in Then(Opacity(s, FALSE), LAMBDA t : Call(t, {t})) :
            IF ~r.ok THEN w' \in Release(Fail(At(r.s, "Blocked"))) /\ helper' = helper
            ELSE \E q \in StopSeats(At(r.s, "Stopping")) :
                   /\ w' \in Release({q})
                   /\ helper' = [at |-> "asked", seats |-> q.ok, mine |-> TRUE]
  BY DEF StopBegin
<1>2. PICK r \in Then(Opacity(s, FALSE), LAMBDA t : Call(t, {t})) :
        IF ~r.ok THEN w' \in Release(Fail(At(r.s, "Blocked"))) /\ helper' = helper
        ELSE \E q \in StopSeats(At(r.s, "Stopping")) :
               /\ w' \in Release({q})
               /\ helper' = [at |-> "asked", seats |-> q.ok, mine |-> TRUE]
  BY <1>1
<1>3. PICK p \in Opacity(s, FALSE) : r \in IF p.ok THEN Call(p.s, {p.s}) ELSE {p}
  BY <1>2 DEF Then
<1>4. Sound(s) /\ Windowed(s) /\ Keeps(w, s) /\ helper \in Helper /\ helper.at = "none"
  BY RefreshIs DEF IInv, Sound, Whole, HelperOK, StopBegin
<1>5. Touches(s, p.s) /\ (p.ok => ~p.s.dim) /\ p.s \in World
  BY <1>4, OpacityIs DEF Touches, Windowed
<1>6. Windowed(r.s) /\ Keeps(w, r.s) /\ (r.ok => ~r.s.dim)
  <2>1. CASE ~p.ok
    BY <1>3, <1>4, <1>5, <2>1 DEF Touches, Keeps
  <2>2. CASE p.ok
    <3>1. Quiet(p.s, r.s)
      BY <1>3, <1>5, <2>2, QuietCall, QuietRefl DEF Mild
    <3> QED BY <1>4, <1>5, <2>2, <3>1, QuietSound DEF Touches, Keeps, Quiet
  <2> QED BY <2>1, <2>2
<1>7. CASE ~r.ok
  <2>1. PICK q \in Fail(At(r.s, "Blocked")) : w' \in Drop(q)
    BY <1>2, <1>7 DEF Release
  <2>2. Ends(w, q)
    BY <1>6, EndAt DEF Phases
  <2>3. Sound(w') /\ Keeps(w, w')
    BY <2>1, <2>2, DropIs
  <2>4. helper' = helper /\ ~w'.roll
    BY <1>2, <1>7, <2>3 DEF IInv, Keeps
  <2> QED BY <1>4, <2>3, <2>4 DEF IInv, HelperOK
<1>8. CASE r.ok
  <2> DEFINE t == At(r.s, "Stopping")
  <2>1. PICK q \in StopSeats(t) :
          w' \in Release({q}) /\ helper' = [at |-> "asked", seats |-> q.ok, mine |-> TRUE]
    BY <1>2, <1>8
  <2>2. t \in World /\ t.phase = "Stopping" /\ Tame(t) /\ Keeps(w, t)
    BY <1>6, <1>8, AtIs DEF Windowed, Phases, Tame, Keeps
  <2> HIDE DEF t
  <2>3. q \in Outcome /\ Quiet(t, q.s)
    BY <2>2, StopSeatsIs DEF Mild
  <2>4. Ends(w, q) /\ q.s.phase = "Stopping"
    BY <2>2, <2>3, QuietTame DEF Quiet, Ends, Sound, Whole, Tame, Keeps
  <2>5. w' \in Drop(q)
    BY <2>1 DEF Release
  <2>6. Sound(w') /\ Keeps(w, w') /\ w'.phase = "Stopping"
    BY <2>4, <2>5, DropIs
  <2>7. helper' \in Helper
    BY <2>1, <2>3 DEF Helper, Outcome
  <2> QED BY <2>6, <2>7 DEF IInv, HelperOK, Keeps
<1> QED BY <1>7, <1>8

LEMMA StopHelperStep == IInv /\ StopHelper => IInv'
<1> SUFFICES ASSUME IInv, StopHelper PROVE IInv'
  OBVIOUS
<1>1. PICK r \in IF helper.mine THEN StopUnit(w) ELSE Call(w, {w}) :
        /\ w' = r.s
        /\ helper' = [helper EXCEPT !.at = IF r.ok THEN "ok" ELSE "err"]
  BY DEF StopHelper
<1>2. w \in World /\ Windowed(w) /\ Sound(w) /\ ~w.roll
  BY DEF IInv, Sound, Whole, Windowed
<1>3. helper' \in Helper /\ helper'.at # "asked"
  BY <1>1 DEF IInv, HelperOK, Helper
<1>4. CASE ~helper.mine
  <2>1. Quiet(w, w')
    BY <1>1, <1>2, <1>4, QuietCall, QuietRefl DEF Mild
  <2> QED BY <1>2, <1>3, <2>1, QuietSound DEF IInv, HelperOK, Quiet
<1>5. CASE helper.mine
  <2>1. Touches(w, w') /\ (w'.dim => w.dim) /\ (w.unit = "gone" => w'.unit = "gone")
    BY <1>1, <1>2, <1>5, StopUnitIs
  <2>2. w.phase \in {"Stopping", "Gone"} \/ w.lost
    BY <1>5 DEF IInv, HelperOK, StopHelper
  <2>3. w.dim => w.lost
    BY <1>2, <2>2 DEF Sound, Whole, Windowed
  <2>4. Sound(w') /\ ~w'.roll
    BY <1>2, <2>1, <2>3 DEF Touches, Sound, Whole
  <2> QED BY <1>3, <2>4 DEF IInv, HelperOK
<1> QED BY <1>4, <1>5

LEMMA StopEndStep == IInv /\ StopEnd => IInv'
<1> SUFFICES ASSUME IInv, StopEnd PROVE IInv'
  OBVIOUS
<1>1. PICK r \in StopEndOn(w) : w' \in Drop(r)
  BY DEF StopEnd, Release
<1>2. w \in World /\ Windowed(w) /\ Sound(w) /\ Keeps(w, w)
  BY DEF IInv, Sound, Whole, Windowed, Keeps
<1>3. Ends(w, r)
  <2>1. CASE r \in Settled(w)
    BY <1>2, <2>1, SettledIs DEF Ends
  <2>2. CASE r \in Lossy(At(w, "Blocked"), Fail)
    BY <1>2, <2>2, EndLossy
  <2>3. CASE r \in Fail(At(w, "Blocked"))
    BY <1>2, <2>3, EndAt DEF Phases
  <2>4. CASE w.unit = "gone" /\ r \in Complete(w)
    BY <1>2, <2>4, CompleteIs
  <2>5. CASE r \in Go(w)
    BY <1>2, <2>5, GoIs DEF Ends
  <2> QED BY <1>1, <2>1, <2>2, <2>3, <2>4, <2>5 DEF StopEndOn
<1>4. Sound(w') /\ ~w'.roll
  BY <1>1, <1>3, DropIs DEF Keeps, IInv
<1>5. helper' \in Helper /\ helper'.at = "none"
  BY DEF StopEnd, Idle, Helper
<1> QED BY <1>4, <1>5 DEF IInv, HelperOK

LEMMA EnvironmentStep ==
    IInv /\ (UnitEnds \/ UnitSettles \/ FocusMoves \/ LeaseDies \/ CoordinatorLost) => IInv'
<1> SUFFICES ASSUME IInv, UnitEnds \/ UnitSettles \/ FocusMoves \/ LeaseDies \/ CoordinatorLost PROVE IInv'
  OBVIOUS
<1>1. w \in World /\ Windowed(w) /\ Sound(w) /\ ~w.roll
  BY DEF IInv, Sound, Whole, Windowed
<1>2. UNCHANGED helper
  BY DEF UnitEnds, UnitSettles, FocusMoves, LeaseDies, CoordinatorLost
<1>3. ASSUME Quiet(w, w') PROVE IInv'
  BY <1>1, <1>2, <1>3, QuietSound, SameHelper DEF Quiet, StaysDown
<1>4. CASE UnitEnds
  <2>1. PICK u \in {"gone", "failed"} : w' = Dead(w, u)
    BY <1>4 DEF UnitEnds
  <2>2. w.phase # "Gone"
    BY <1>1, <1>4 DEF UnitEnds, Sound, Whole, Live
  <2>3. Sound(w') /\ ~w'.roll /\ w'.lost = w.lost /\ w'.phase = w.phase
    BY <1>1, <2>1, <2>2, DeadIs DEF Sound, Whole
  <2> QED BY <1>2, <2>3, SameHelper DEF StaysDown
<1>5. CASE UnitSettles
  <2>1. PICK u \in {"running", "frozen"} : w' = [w EXCEPT !.unit = u]
    BY <1>5 DEF UnitSettles
  <2>2. Touches(w, w') /\ w'.unit = u /\ w'.dim = w.dim
    BY <1>1, <2>1, UnitIs DEF Live
  <2>3. Sound(w') /\ ~w'.roll /\ w'.lost = w.lost /\ w'.phase = w.phase
    BY <1>1, <1>5, <2>2 DEF Touches, Sound, Whole, UnitSettles
  <2> QED BY <1>2, <2>3, SameHelper DEF StaysDown
<1>6. CASE FocusMoves
  <2>1. Quiet(w, w')
    BY <1>1, <1>6 DEF FocusMoves, Quiet, World, Fields
  <2> QED BY <1>3, <2>1
<1>7. CASE LeaseDies
  <2>1. Quiet(w, w')
    BY <1>1, <1>7 DEF LeaseDies, Quiet, World, Fields
  <2> QED BY <1>3, <2>1
<1>8. CASE CoordinatorLost
  <2> DEFINE v == [w EXCEPT !.faults = @ - 1]
  <2>1. w.faults # 0 /\ w' = Fence(v)
    BY <1>8 DEF CoordinatorLost, Lossy
  <2>2. Quiet(w, v) /\ v \in World
    BY <1>1, <2>1, SpentIs DEF Quiet
  <2> HIDE DEF v
  <2>3. Quiet(w, w')
    BY <2>1, <2>2, FenceIs, QuietTrans
  <2> QED BY <1>3, <2>3
<1> QED BY <1>4, <1>5, <1>6, <1>7, <1>8

LEMMA CrashStep == IInv /\ Crash => IInv'
<1> SUFFICES ASSUME IInv, Crash PROVE IInv'
  OBVIOUS
<1>1. PICK u \in IF w.unit \in Live THEN Live ELSE {w.unit}, p \in BOOLEAN :
       \E d \in IF w.unit \in Live THEN BOOLEAN ELSE {FALSE} :
         w' = [w EXCEPT !.phase = "Blocked", !.unit = u, !.dim = d, !.portal = p,
                        !.applied = "Unknown", !.native = TRUE, !.route = "portal",
                        !.fenced = FALSE, !.seat = "none", !.lost = TRUE, !.faults = @ - 1]
  BY DEF Crash
<1>2. PICK d \in IF w.unit \in Live THEN BOOLEAN ELSE {FALSE} :
         w' = [w EXCEPT !.phase = "Blocked", !.unit = u, !.dim = d, !.portal = p,
                        !.applied = "Unknown", !.native = TRUE, !.route = "portal",
                        !.fenced = FALSE, !.seat = "none", !.lost = TRUE, !.faults = @ - 1]
  BY <1>1
<1>3. w \in World /\ w.roll = FALSE
  BY DEF IInv, Sound, Whole, Windowed, World, Fields
<1>4. w.faults - 1 \in 0..MaxFaults
  BY <1>3, MaxFaultsAssumption DEF Crash, World, Fields
<1>5. u \in Live \cup {"stopping", "gone", "failed"} /\ d \in BOOLEAN
  BY <1>3 DEF World, Fields
<1>6. /\ w' \in World /\ w'.phase = "Blocked" /\ w'.unit = u /\ w'.dim = d
      /\ w'.lost = TRUE /\ w'.roll = FALSE
  <2> DEFINE a == [w EXCEPT !.phase = "Blocked", !.unit = u, !.dim = d]
             b == [a EXCEPT !.portal = p, !.applied = "Unknown", !.native = TRUE, !.route = "portal"]
             c == [b EXCEPT !.fenced = FALSE, !.seat = "none"]
             e == [c EXCEPT !.lost = TRUE, !.faults = @ - 1]
  <2>1. w' = e
    BY <1>2
  <2>2. a \in World /\ a.phase = "Blocked" /\ a.unit = u /\ a.dim = d /\ a.roll = FALSE
        /\ a.faults = w.faults
    BY <1>3, <1>5 DEF World, Fields, Phases
  <2> HIDE DEF a
  <2>3. b \in World /\ b.phase = "Blocked" /\ b.unit = u /\ b.dim = d /\ b.roll = FALSE
        /\ b.faults = w.faults
    BY <2>2 DEF World, Fields
  <2> HIDE DEF b
  <2>4. c \in World /\ c.phase = "Blocked" /\ c.unit = u /\ c.dim = d /\ c.roll = FALSE
        /\ c.faults = w.faults
    BY <2>3 DEF World, Fields
  <2> HIDE DEF c
  <2>5. e \in World /\ e.phase = "Blocked" /\ e.unit = u /\ e.dim = d /\ e.roll = FALSE
        /\ e.lost = TRUE
    BY <1>4, <2>4 DEF World, Fields
  <2> QED BY <2>1, <2>5
<1>7. u \in {"gone", "failed"} => ~d
  BY DEF Live
<1>8. helper' \in Helper /\ helper'.at = "none"
  BY DEF Crash, Idle, Helper
<1> QED BY <1>6, <1>7, <1>8 DEF IInv, Sound, Whole, Windowed, HelperOK

-----------------------------------------------------------------------------
(* The theorems. *)

\* The invariant holds in every state of every behaviour.
THEOREM Inductive == Spec => []IInv
<1>1. IInv /\ UNCHANGED vars => IInv'
  BY DEF IInv, HelperOK, vars
<1>2. IInv /\ [Next]_vars => IInv'
  BY <1>1, LeaveStep, ReturnStep, EffectStep, WatchStep, PrepareStep, StopBeginStep,
     StopHelperStep, StopEndStep, EnvironmentStep, CrashStep DEF Next
<1> QED BY <1>2, InitIInv, PTL DEF Spec

\* The session, the units and the stop helper keep their types, and a portal that is
\* remembered as thawed is not frozen (thaw_portal_unit skips the thaw then).
THEOREM FocusTypes == Spec => []TypeOK
<1>1. IInv => TypeOK
  BY DEF IInv, Sound, Whole, Windowed, HelperOK, TypeOK
<1> QED BY <1>1, Inductive, PTL

\* A running game is never left dimmed, however many calls of a Leave, a Return, an
\* effect and their repairs fail (record_focus_failure, dim_rollback), unless the
\* session was given up as RecoveryBlocked or korrid died in the meantime.
THEOREM NeverLeftDimmed == Spec => []DimmedIsPaused
<1>1. IInv => DimmedIsPaused
  BY DEF IInv, Sound, DimmedIsPaused
<1> QED BY <1>1, Inductive, PTL

\* A session is recorded as over only when its unit is gone, whatever a status, an
\* effect or a late stop helper (observe_stop) found.
THEOREM OverIsGone == Spec => []OverWhenUnitIsGone
<1>1. IInv => OverWhenUnitIsGone
  BY DEF IInv, Sound, Whole, OverWhenUnitIsGone
<1> QED BY <1>1, Inductive, PTL
==============================================================================
