------------------------------ MODULE InputSeats ------------------------------
(***************************************************************************)
(* The controllers of a device.  inputd's receiver owns a pool of virtual   *)
(* gamepads (seats) and gives them to sources: local controllers (pads),    *)
(* controllers of a stream client (remotes) and a netplay guest.  korrid's  *)
(* coordinator is its only client: it opens and ends sessions, routes the   *)
(* input to the game or to the portal and forwards local controllers.  Both *)
(* processes may die, every exchange may be cut off, and a caller in korrid *)
(* may give up on a request that the receiver still carries out.            *)
(*                                                                         *)
(* Simplifications: a gamepad state is held (something is pressed) or       *)
(* neutral; time is left out, so a timeout may strike whenever the code     *)
(* waits; a failing write to a device ends the receiver, as it does in the  *)
(* code, and takes the devices with it.  The exchange of a call that changes *)
(* the session or the route is split at every point where it can be cut off; *)
(* the exchanges of polls and of local controllers are one step each.        *)
(***************************************************************************)
EXTENDS Naturals, Sequences, FiniteSets, SequencesExt

CONSTANTS
    Launches,     \* sessions of games and of viewers
    Pads,         \* local controllers
    Controllers,  \* controller numbers of the stream client
    Guests,       \* netplay devices
    MaxSeats,     \* seats the pool may have
    MaxPads,      \* MAX_PHYSICAL_SOURCES
    MaxEvents,    \* MAX_REMOTE_EVENTS
    None

Remotes == Launches \X Controllers
Keys    == Pads \cup Guests \cup Remotes
Slots   == 1..MaxSeats
Orders  == {"Attached", "FirstPress"}

ASSUME SeatConstants ==
    /\ MaxSeats \in Nat \ {0} /\ MaxEvents \in Nat /\ MaxPads \in Nat
    /\ None \notin Launches \cup Keys /\ "unset" \notin Launches \cup {None}
    /\ IsFiniteSet(Keys)
    /\ Pads \cap Guests = {} /\ Pads \cap Remotes = {} /\ Guests \cap Remotes = {}

VARIABLES
    rt,        \* SeatRuntime and its pool: see Runtime
    coord,     \* the receiver has a coordinator connection
    lease,     \* launch of the receiver's lease connection
    up,        \* the receiver runs
    link,      \* korrid's coordinator thread has a connection
    fenced,    \* SeatCoordinator::fenced
    manager,   \* UnixInputSeatManager: initialized and the cached route
    latest,    \* last reply: session, count, recovery
    mapper,    \* NativeSources: state of each remote source, and the pads
    handle,    \* launch of the lease korrid holds
    owner,     \* the session korrid began and has not ended
    call,      \* the call of the session and how far its exchange is
    producer,  \* private_input: the pads it has announced
    pressed,   \* history: sources whose press began under the present route
    desync     \* history: the mapper met an event it could not place

vars == <<rt, coord, lease, up, link, fenced, manager, latest, mapper, handle,
          owner, call, producer, pressed, desync>>
recvVars   == <<rt, coord, lease, up>>
korridVars == <<link, fenced, manager, latest, mapper, handle, owner, call, producer, desync>>

-----------------------------------------------------------------------------
(* The pool and the runtime. *)

NoSource == [known |-> FALSE, held |-> FALSE, has |-> FALSE, rearm |-> FALSE]
NoSeat   == [key |-> None, on |-> FALSE]

Sources == [known : BOOLEAN, held : BOOLEAN, has : BOOLEAN, rearm : BOOLEAN]
Seats   == [key : Keys \cup {None}, on : BOOLEAN]
Event   == [kind : {"Connected", "State", "Disconnected"}, key : Remotes, held : BOOLEAN]

Runtime == [count : Slots, seat : [Slots -> Seats], held : SUBSET Slots,
            session : Launches \cup {None}, order : Orders, src : [Keys -> Sources],
            mirror : Launches \cup {None}, route : BOOLEAN, recovery : BOOLEAN,
            feedback : Seq(Event), overflow : BOOLEAN]

\* SeatRuntime::boot: every seat created and neutral, nobody trusted yet.
Boot == [count |-> MaxSeats, seat |-> [s \in Slots |-> NoSeat], held |-> {},
         session |-> None, order |-> "Attached", src |-> [k \in Keys |-> NoSource],
         mirror |-> None, route |-> FALSE, recovery |-> TRUE,
         feedback |-> <<>>, overflow |-> FALSE]

Known(r)      == {k \in Keys : r.src[k].known}
Bound(r, k)   == \E s \in Slots : r.seat[s].key = k
SlotOf(r, k)  == CHOOSE s \in Slots : r.seat[s].key = k
Free(r)       == {s \in 1..r.count : r.seat[s].key = None}
FirstFree(r)  == CHOOSE s \in Free(r) : \A t \in Free(r) : s <= t
FirstPress(r) == r.session # None /\ r.order = "FirstPress"
Ready(r)      == ~r.recovery /\ ~r.overflow

\* SeatPool::connect: a source keeps or reclaims its seat, otherwise it takes
\* the first free one; without one it stays unseated.
Connect(r, k) ==
    LET at(s) == [r EXCEPT !.seat[s] = [key |-> k, on |-> TRUE],
                           !.held = IF r.seat[s].on THEN @ ELSE @ \ {s}]
    IN  IF Bound(r, k) THEN at(SlotOf(r, k))
        ELSE IF Free(r) # {} THEN at(FirstFree(r)) ELSE r

\* SeatPool::release_all.
ReleaseAll(r) == [r EXCEPT !.seat = [s \in Slots |-> NoSeat], !.held = {}]

\* SeatPool::end_session: reservations of absent sources go, seats in use stay.
EndReservations(r) ==
    [r EXCEPT !.session = None, !.order = "Attached",
              !.seat = [s \in Slots |-> IF r.seat[s].on THEN r.seat[s] ELSE NoSeat],
              !.held = {s \in @ : r.seat[s].on}]

\* SeatPool::resize.
Resize(r, n) ==
    IF n = r.count THEN r
    ELSE [r EXCEPT !.count = n, !.held = {},
                   !.seat = [s \in Slots |-> IF s <= n THEN r.seat[s] ELSE NoSeat]]

X_NoRebalance(r) == {r}

\* SeatRuntime::rebalance: outside a first-press session the first free seats go
\* to the sources without one, which must be released before they count.  The
\* order of the sources is the order of their names, which are arbitrary.
Rebalance(r) ==
    LET waiting == {k \in Known(r) : ~Bound(r, k)}
        usable  == {s \in Free(r) : Cardinality({t \in Free(r) : t < s}) < Cardinality(waiting)}
        pairs   == {f \in [usable -> waiting] : \A s, t \in usable : f[s] = f[t] => s = t}
    IN  IF FirstPress(r) THEN {r}
        ELSE {[r EXCEPT !.seat = [s \in Slots |-> IF s \in usable
                                                  THEN [key |-> f[s], on |-> TRUE]
                                                  ELSE r.seat[s]],
                        !.held = @ \ usable,
                        !.src = [k \in Keys |-> IF \E s \in usable : f[s] = k
                                                THEN [r.src[k] EXCEPT !.rearm = TRUE]
                                                ELSE r.src[k]]] : f \in pairs}

X_Unbounded(r, events) == [r EXCEPT !.feedback = @ \o events]

\* SeatRuntime::push_feedback.
Push(r, events) ==
    LET room == MaxEvents - Len(r.feedback)
    IN  [r EXCEPT !.feedback = @ \o SubSeq(events, 1, IF Len(events) < room THEN Len(events) ELSE room),
                  !.overflow = @ \/ Len(events) > room]

\* SeatRuntime::disconnect_source, for each of a set of sources: in a session the
\* seat stays reserved for its source, outside it becomes free.
DropSources(r, ks) ==
    LET told == {k \in ks \cap Remotes : r.src[k].known /\ r.src[k].has}
        gone == SetToSeq(told)
        mine == {s \in Slots : r.seat[s].key \in ks}
        left == [r EXCEPT !.src = [k \in Keys |-> IF k \in ks THEN NoSource ELSE r.src[k]],
                          !.held = @ \ mine,
                          !.seat = [s \in Slots |->
                              IF s \notin mine THEN r.seat[s]
                              ELSE IF r.session = None THEN NoSeat
                              ELSE [r.seat[s] EXCEPT !.on = FALSE]]]
    IN  Rebalance(Push(left, [i \in 1..Len(gone) |->
                              [kind |-> "Disconnected", key |-> gone[i], held |-> FALSE]]))

X_NoRearm(r, game) == [r EXCEPT !.route = game, !.held = {}]

\* SeatRuntime::set_route: whatever is held must be released first.
SetRoute(r, game) ==
    [r EXCEPT !.route = game, !.held = {},
              !.src = [k \in Keys |-> IF r.src[k].known THEN [r.src[k] EXCEPT !.rearm = TRUE]
                                                        ELSE r.src[k]]]

\* SeatRuntime::connect_source.
ConnectSource(r, k, held, has) ==
    LET seated == IF FirstPress(r) /\ ~Bound(r, k) THEN r ELSE Connect(r, k)
    IN  [seated EXCEPT !.src[k] = [known |-> TRUE, held |-> held, has |-> has, rearm |-> TRUE]]

\* SeatRuntime::update_source.
UpdateSource(r, k, held) ==
    LET seen == [r EXCEPT !.src[k].held = held, !.src[k].has = TRUE]
        play == IF FirstPress(seen) /\ ~Bound(seen, k) /\ held THEN Connect(seen, k) ELSE seen
    IN  IF ~r.route THEN seen
        ELSE IF r.src[k].rearm THEN [seen EXCEPT !.src[k].rearm = held]
        ELSE IF ~Bound(play, k) THEN play
        ELSE [play EXCEPT !.held = IF held THEN @ \cup {SlotOf(play, k)} ELSE @ \ {SlotOf(play, k)}]

\* SeatRuntime::unbind.
Unbind(r) == DropSources([r EXCEPT !.mirror = None], Known(r) \cap Remotes)

\* SeatRuntime::coordinator_lost: all input stops, the session does not.
CoordinatorLost(r) ==
    {[d EXCEPT !.held = {}, !.feedback = <<>>, !.overflow = FALSE] :
        d \in DropSources([r EXCEPT !.recovery = TRUE, !.route = FALSE, !.mirror = None], Known(r))}

-----------------------------------------------------------------------------
(* Requests of the coordinator and the receiver's answers. *)

Requests ==
    [type : {"ApplyCount"}, count : Slots]
    \cup [type : {"BeginSession"}, launch : Launches, order : Orders]
    \cup [type : {"EndSession"}, launch : Launches]
    \cup [type : {"Route"}, launch : Launches \cup {None}]
    \cup [type : {"ReserveNetplay"}, launch : Launches, key : Guests]

Done(r)    == [rt |-> r, ok |-> TRUE]
Refused(r) == {[rt |-> r, ok |-> FALSE]}

\* SeatRuntime::apply, one operator per request.
ApplyCount(r, q) ==
    IF r.session # None THEN Refused(r)
    ELSE {Done([b EXCEPT !.recovery = FALSE]) : b \in Rebalance(Resize(r, q.count))}

X_RecoverAfresh(r, q) ==
    IF r.recovery /\ r.session = q.launch
    THEN {Done([ReleaseAll(r) EXCEPT !.order = q.order, !.recovery = FALSE])}
    ELSE IF ~Ready(r) \/ r.session # None THEN Refused(r)
    ELSE {Done([r EXCEPT !.session = q.launch, !.order = q.order])}

BeginSession(r, q) ==
    IF r.recovery /\ r.session = q.launch
    THEN {Done([r EXCEPT !.order = q.order, !.recovery = FALSE])}
    ELSE IF ~Ready(r) \/ r.session # None THEN Refused(r)
    ELSE LET begun == [r EXCEPT !.session = q.launch, !.order = q.order]
         IN  {Done(IF q.order = "FirstPress" THEN ReleaseAll(begun) ELSE begun)}

EndSession(r, q) ==
    IF r.session # q.launch THEN Refused(r)
    ELSE UNION {{Done(b) : b \in Rebalance(EndReservations(SetRoute(u, FALSE)))} : u \in Unbind(r)}

Route(r, q) ==
    IF ~Ready(r) \/ q.launch \notin {None, r.session} THEN Refused(r)
    ELSE {Done(SetRoute(r, q.launch # None))}

ReserveNetplay(r, q) ==
    IF \/ ~Ready(r) \/ r.session # q.launch
       \/ \E g \in Guests \ {q.key} : Bound(r, g)
       \/ ~Bound(r, q.key) /\ Free(r) = {}
    THEN Refused(r)
    ELSE IF Bound(r, q.key) THEN {Done(r)}
    ELSE {Done([r EXCEPT !.seat[FirstFree(r)] = [key |-> q.key, on |-> FALSE],
                         !.held = @ \ {FirstFree(r)}])}

PhysicalConnected(r, q) ==
    IF ~Ready(r) THEN Refused(r)
    ELSE IF r.src[q.key].known THEN {Done(r)}
    ELSE IF Cardinality(Known(r) \cap Pads) >= MaxPads THEN Refused(r)
    ELSE {Done([ConnectSource(r, q.key, q.held, TRUE) EXCEPT !.src[q.key].rearm = q.held])}

PhysicalState(r, q) ==
    IF ~Ready(r) \/ ~r.src[q.key].known THEN Refused(r)
    ELSE {Done(UpdateSource(r, q.key, q.held))}

PhysicalDisconnected(r, q) ==
    IF ~Ready(r) \/ ~r.src[q.key].known THEN Refused(r)
    ELSE {Done(d) : d \in DropSources(r, {q.key})}

Apply(r, q) ==
    CASE q.type = "ApplyCount"           -> ApplyCount(r, q)
      [] q.type = "BeginSession"         -> BeginSession(r, q)
      [] q.type = "EndSession"           -> EndSession(r, q)
      [] q.type = "Route"                -> Route(r, q)
      [] q.type = "ReserveNetplay"       -> ReserveNetplay(r, q)
      [] q.type = "PhysicalConnected"    -> PhysicalConnected(r, q)
      [] q.type = "PhysicalState"        -> PhysicalState(r, q)
      [] q.type = "PhysicalDisconnected" -> PhysicalDisconnected(r, q)

\* SeatRuntime::coordinate: the reply carries the events collected so far.
Reply(a) == [ok |-> a.ok, session |-> a.rt.session, count |-> a.rt.count,
             recovery |-> a.rt.recovery, events |-> a.rt.feedback]
Snapshot(m) == [session |-> m.session, count |-> m.count, recovery |-> m.recovery]

-----------------------------------------------------------------------------
(* The receiver process.  Its loop is single-threaded, so each of these is one step. *)

\* A source that is pressed counts when the press began under the route the game has.
Track(old, new, barrier) ==
    {k \in Keys : /\ new.src[k].known /\ new.src[k].held /\ new.route
                  /\ ~barrier
                  /\ k \in pressed \/ (old.src[k].known /\ old.src[k].has /\ ~old.src[k].held)}

\* The end of a turn of the loop: an overflown event queue costs the coordinator.
Settle(r, l, barrier) ==
    \E new \in IF r.overflow THEN CoordinatorLost(r) ELSE {r} :
        /\ rt' = new
        /\ lease' = IF r.overflow THEN None ELSE l
        /\ coord' = (coord /\ ~r.overflow)
        /\ pressed' = Track(rt, new, barrier)
        /\ UNCHANGED <<up>>

\* lose_coordinator: the watchdog struck, or the connection was closed.
LoseCoordinator ==
    /\ up /\ coord
    /\ \E new \in CoordinatorLost(rt) :
        /\ rt' = new
        /\ pressed' = Track(rt, new, TRUE)
    /\ coord' = FALSE /\ lease' = None
    /\ UNCHANGED <<up, korridVars>>

\* The lease connection was closed by korrid (or its reply could not be sent).
LeaseHangup ==
    /\ up /\ lease # None /\ handle # lease
    /\ \E new \in Unbind(rt) : Settle(new, None, FALSE)
    /\ UNCHANGED korridVars

\* SeatRuntime::accept: a frame of the stream client, with the launch and the
\* token of the present mirror.  Frames over the rate limit are as good as lost.
FrameConnected(c) ==
    LET k == <<rt.mirror, c>>
    IN  /\ up /\ rt.mirror # None /\ ~rt.src[k].known
        /\ Settle(ConnectSource(rt, k, FALSE, FALSE), lease, FALSE)
        /\ UNCHANGED korridVars

FrameState(c, held) ==
    LET k    == <<rt.mirror, c>>
        was  == rt.src[k]
        seen == IF was.known THEN rt ELSE ConnectSource(rt, k, FALSE, FALSE)
        new  == UpdateSource(seen, k, held)
        tell == IF ~was.known \/ ~was.has THEN <<[kind |-> "Connected", key |-> k, held |-> held]>>
                ELSE IF was.held # held THEN <<[kind |-> "State", key |-> k, held |-> held]>>
                ELSE <<>>
    IN  /\ up /\ rt.mirror # None
        /\ Settle(Push(new, tell), lease, FALSE)
        /\ UNCHANGED korridVars

FrameDisconnected(c) ==
    LET k == <<rt.mirror, c>>
    IN  /\ up /\ rt.mirror # None /\ rt.src[k].known
        /\ \E new \in DropSources(rt, {k}) : Settle(new, lease, FALSE)
        /\ UNCHANGED korridVars

\* SeatRuntime::expire_stale: a source that has been silent too long.
Expire(k) ==
    /\ up /\ rt.src[k].known
    /\ \E new \in DropSources(rt, {k}) : Settle(new, lease, FALSE)
    /\ UNCHANGED korridVars

\* A failed write, a signal or a crash ends the process and with it the devices.
ReceiverDies ==
    /\ up
    /\ up' = FALSE /\ coord' = FALSE /\ lease' = None /\ rt' = Boot /\ pressed' = {}
    /\ UNCHANGED korridVars

ReceiverBoots ==
    /\ ~up /\ up' = TRUE
    /\ UNCHANGED <<rt, coord, lease, pressed, korridVars>>

-----------------------------------------------------------------------------
(* korrid: the coordinator thread. *)

NoCall   == [st |-> "none", waits |-> FALSE, q |-> None, init |-> FALSE, m |-> None]
NoMapper == [remote |-> [k \in Remotes |-> "absent"], pads |-> {}]
NoReply  == [session |-> None, count |-> MaxSeats, recovery |-> TRUE]
Unset    == [init |-> FALSE, route |-> "unset"]

\* The thread ends: it fences, forgets the native sources and closes the
\* connection.  A caller that still waits gets an error.
ThreadEnds ==
    /\ fenced' = TRUE /\ link' = FALSE /\ mapper' = NoMapper /\ call' = NoCall
    /\ UNCHANGED <<manager, latest, handle, owner, producer>>

ThreadStops ==
    /\ link /\ fenced /\ call.st = "none"
    /\ ThreadEnds /\ UNCHANGED <<recvVars, pressed, desync>>

\* A poll fails: the receiver is gone or has dropped the connection.
PollFails ==
    /\ link /\ ~coord /\ call.st = "none"
    /\ ThreadEnds /\ UNCHANGED <<recvVars, pressed, desync>>

\* NativeSources::remote, one event.
MapRemote(m, e) ==
    [m EXCEPT !.remote[e.key] = IF e.kind = "Disconnected" THEN "absent"
                                ELSE IF e.held THEN "held" ELSE "neutral"]
MapsRemote(m, e) ==
    CASE e.kind = "Connected" -> m.remote[e.key] = "absent"
      [] e.kind = "State"     -> m.remote[e.key] # "absent"
      [] OTHER                -> TRUE
MapAll(m, events) ==
    LET mapped[i \in 0..Len(events)] ==
            IF i = 0 THEN m ELSE MapRemote(mapped[i - 1], events[i])
    IN  mapped[Len(events)]
MapsAll(m, events) == \A i \in 1..Len(events) : MapsRemote(MapAll(m, SubSeq(events, 1, i - 1)), events[i])

\* NativeSources::physical, after a request that was carried out.
MapPads(m, q) ==
    CASE q.type = "PhysicalConnected"    -> [m EXCEPT !.pads = @ \cup {q.key}]
      [] q.type = "PhysicalDisconnected" -> [m EXCEPT !.pads = @ \ {q.key}]
      [] OTHER                           -> m
MapsPads(m, q) ==
    CASE q.type = "PhysicalConnected" -> q.key \notin m.pads
      [] q.type = "PhysicalState"     -> q.key \in m.pads
      [] OTHER                        -> TRUE

X_OnlyRoute(q) == IF q.type = "Route" THEN q.launch ELSE manager.route

\* UnixInputSeatManager::route after a request that was carried out; a session
\* that begins or ends makes it unknown.
CachedRoute(q) ==
    CASE q.type \in {"BeginSession", "EndSession"} -> "unset"
      [] q.type = "Route" -> q.launch
      [] OTHER -> manager.route

\* What the reply to a call means: UnixInputSeatManager.
Answered(m) ==
    LET q == call.q
        bad == /\ m.ok
               /\ CASE q.type = "ApplyCount"   -> m.count # q.count \/ m.session # None \/ m.recovery
                    [] q.type = "BeginSession" -> m.session # q.launch \/ m.recovery
                    [] q.type = "EndSession"   -> m.session # None /\ ~call.init
                    [] OTHER                   -> FALSE
        good == m.ok /\ ~bad
    IN  /\ fenced' = (fenced \/ bad \/ (~m.ok /\ (call.init \/ q.type = "ApplyCount")))
        /\ call' = NoCall
        /\ manager' =
              [init  |-> (manager.init \/ (call.init /\ good /\ q.type # "EndSession")) /\ ~bad,
               route |-> IF good THEN CachedRoute(q) ELSE manager.route]
        /\ owner' = IF ~good THEN owner
                    ELSE CASE q.type = "BeginSession" -> q.launch
                           [] q.type = "EndSession" /\ owner = q.launch -> None
                           [] OTHER -> owner

\* The thread has the reply: first the native sources, then the snapshot, then
\* the caller, if it still waits.
Deliver ==
    /\ link /\ call.st = "reply"
    /\ IF ~MapsAll(mapper, call.m.events)
       THEN ThreadEnds /\ desync' = TRUE /\ UNCHANGED <<recvVars, pressed>>
       ELSE /\ mapper' = MapAll(mapper, call.m.events)
            /\ latest' = Snapshot(call.m)
            /\ IF call.waits THEN Answered(call.m)
               ELSE call' = NoCall /\ UNCHANGED <<fenced, manager, owner>>
            /\ UNCHANGED <<recvVars, link, handle, producer, pressed, desync>>

\* SeatCoordinator::request gives up; the command may still be carried out.
CallerTimesOut ==
    /\ link /\ call.waits
    /\ fenced' = TRUE
    /\ call' = [call EXCEPT !.waits = FALSE]
    /\ UNCHANGED <<recvVars, link, manager, latest, mapper, handle, owner, producer, pressed, desync>>

\* A poll: the events the receiver has collected reach the native sources.
Poll ==
    /\ link /\ coord /\ up /\ call.st = "none"
    /\ IF ~MapsAll(mapper, rt.feedback)
       THEN ThreadEnds /\ desync' = TRUE
       ELSE /\ mapper' = MapAll(mapper, rt.feedback)
            /\ latest' = Snapshot(rt)
            /\ UNCHANGED <<link, fenced, manager, handle, owner, call, producer, desync>>
    /\ rt' = [rt EXCEPT !.feedback = <<>>]
    /\ UNCHANGED <<coord, lease, up, pressed>>

-----------------------------------------------------------------------------
(* korrid: the input manager, its lease and the producer of local controllers. *)

\* A request reaches the receiver, which answers; the answer is on its way.
Carry(q, c) ==
    /\ up /\ coord
    /\ \E a \in Apply(rt, q) :
        /\ call' = [c EXCEPT !.st = "reply", !.q = q, !.m = Reply(a)]
        /\ Settle([a.rt EXCEPT !.feedback = <<>>], IF a.rt.mirror = None THEN None ELSE lease,
                  a.ok /\ q.type \in {"Route", "EndSession"})

\* A write fails while the request is carried out, before or after the session was
\* set or cleared: the refusal is sent, then the receiver leaves its loop.
CarryFails(q, c) ==
    /\ up /\ coord
    /\ \E s \in {rt.session} \cup (CASE q.type = "BeginSession" -> {q.launch}
                                     [] q.type = "EndSession"   -> {None}
                                     [] OTHER                   -> {}) :
        call' = [c EXCEPT !.st = "reply", !.q = q,
                          !.m = [ok |-> FALSE, session |-> s, count |-> rt.count,
                                 recovery |-> TRUE, events |-> rt.feedback]]
    /\ up' = FALSE /\ coord' = FALSE /\ lease' = None /\ rt' = Boot /\ pressed' = {}

\* SeatCoordinator::request and exchange.  The receiver's loop is one thread, so
\* whatever it does while the request waits might as well come before it.  Nobody
\* has korrid's input before initialize was called, except the recovery of the
\* journal, which ends the session of a game that is gone.
Ask(q) ==
    /\ manager.init \/ q.type = "EndSession"
    /\ ~fenced /\ link /\ call.st = "none"
    /\ Carry(q, [NoCall EXCEPT !.waits = TRUE]) \/ CarryFails(q, [NoCall EXCEPT !.waits = TRUE])
    /\ UNCHANGED <<link, fenced, manager, latest, mapper, handle, owner, producer, desync>>

\* SeatCoordinator::connect.  The receiver notices a closed connection before it
\* accepts the next one.  korrid without a receiver runs without input.
Starting == ~link /\ ~fenced /\ ~manager.init

Hello ==
    /\ Starting /\ up /\ ~coord
    /\ link' = TRUE /\ coord' = TRUE
    /\ latest' = Snapshot(rt)
    /\ UNCHANGED <<rt, lease, up, fenced, manager, mapper, handle, owner, call, producer, pressed, desync>>

HelloFails ==
    /\ Starting /\ ~up
    /\ fenced' = TRUE
    /\ UNCHANGED <<recvVars, link, manager, latest, mapper, handle, owner, call, producer, pressed, desync>>

\* UnixInputSeatManager::initialize, with the session that the journal still has.
\* A session that the receiver kept and korrid does not know is ended first, and
\* initialize goes on from there.
Initialize(s, n) ==
    LET kept == latest.session
        lost == s # None /\ (kept # s \/ latest.count # n)
        q == IF s # None THEN [type |-> "BeginSession", launch |-> s, order |-> "FirstPress"]
             ELSE IF kept # None THEN [type |-> "EndSession", launch |-> kept]
             ELSE [type |-> "ApplyCount", count |-> n]
        c == [NoCall EXCEPT !.waits = TRUE, !.init = TRUE]
    IN  /\ link /\ ~fenced /\ ~manager.init /\ call.st = "none"
        /\ owner' = s
        /\ fenced' = lost
        /\ IF lost THEN UNCHANGED <<recvVars, call, pressed>>
                   ELSE Carry(q, c) \/ CarryFails(q, c)
        /\ UNCHANGED <<link, manager, latest, mapper, handle, producer, desync>>

\* The callers: a count changes while no session is there (with_idle_session), a
\* refusal then fences; one session at a time.
CallCount(n)      == owner = None /\ Ask([type |-> "ApplyCount", count |-> n])
CallBegin(l, o)   == owner = None /\ Ask([type |-> "BeginSession", launch |-> l, order |-> o])
CallReserve(g)    == owner # None /\ Ask([type |-> "ReserveNetplay", launch |-> owner, key |-> g])

\* end_session trusts the snapshot when it shows no session.
CallEnd ==
    /\ owner # None
    /\ \/ latest.session # None /\ Ask([type |-> "EndSession", launch |-> owner])
       \/ /\ latest.session = None /\ link /\ ~fenced /\ call.st = "none"
          /\ owner' = None
          /\ UNCHANGED <<recvVars, link, fenced, manager, latest, mapper, handle, call, producer,
                         pressed, desync>>

\* route asks only when the cached route differs.
CallRoute(x) ==
    /\ ~latest.recovery /\ manager.route # x
    /\ Ask([type |-> "Route", launch |-> x])

\* InputSeatManager::start; korrid may have stopped waiting for the answer.
StartLease(l) ==
    /\ l = owner /\ manager.init /\ ~fenced /\ ~latest.recovery /\ handle = None
    /\ up /\ lease = None /\ coord
    /\ Ready(rt) /\ rt.session = l /\ rt.mirror = None
    /\ rt' = [rt EXCEPT !.mirror = l]
    /\ lease' = l
    /\ handle' \in {l, None}
    /\ UNCHANGED <<coord, up, link, fenced, manager, latest, mapper, owner, call, producer, pressed, desync>>

\* InputSeatLease::reset: the stream client's controllers must be released first.
ResetLease ==
    /\ handle # None /\ lease = handle
    /\ rt' = [rt EXCEPT !.held = {s \in @ : rt.seat[s].key \notin Remotes},
                        !.src = [k \in Keys |-> IF k \in Remotes /\ rt.src[k].known
                                                THEN [rt.src[k] EXCEPT !.rearm = TRUE] ELSE rt.src[k]]]
    /\ UNCHANGED <<coord, lease, up, pressed, korridVars>>

\* InputSeatLease::stop, acknowledged; and a lease that is dropped instead.
StopLease ==
    /\ handle # None /\ lease = handle
    /\ handle' = None
    /\ \E new \in Unbind(rt) : Settle(new, None, FALSE)
    /\ UNCHANGED <<link, fenced, manager, latest, mapper, owner, call, producer, desync>>

DropLease ==
    /\ handle # None
    /\ handle' = None
    /\ UNCHANGED <<recvVars, link, fenced, manager, latest, mapper, owner, call, producer, pressed, desync>>

\* private_input::run: a request about a local controller.  A refusal ends the
\* producer, which takes back what it has announced (Cleanup).
PadRequest(q, pads) ==
    /\ link /\ coord /\ up /\ ~fenced /\ manager.init /\ call.st = "none"
    /\ \E a \in Apply(rt, q) :
        LET m == Reply(a)
            seen == MapAll(mapper, m.events)
        IN  /\ Settle([a.rt EXCEPT !.feedback = <<>>], lease, FALSE)
            /\ IF ~MapsAll(mapper, m.events) \/ (a.ok /\ ~MapsPads(seen, q))
               THEN /\ ThreadEnds
                    /\ desync' = (desync \/ ~MapsAll(mapper, m.events))
               ELSE /\ mapper' = IF a.ok THEN MapPads(seen, q) ELSE seen
                    /\ latest' = Snapshot(m)
                    /\ producer' = [pads |-> pads, on |-> a.ok]
                    /\ UNCHANGED <<link, fenced, manager, handle, owner, call, desync>>

PadConnects(p, h) ==
    /\ producer.on /\ p \notin producer.pads /\ Cardinality(producer.pads) < MaxPads
    /\ PadRequest([type |-> "PhysicalConnected", key |-> p, held |-> h], producer.pads \cup {p})
PadStates(p, h) ==
    /\ producer.on /\ p \in producer.pads
    /\ PadRequest([type |-> "PhysicalState", key |-> p, held |-> h], producer.pads)
PadDisconnects(p) ==
    /\ producer.on /\ p \in producer.pads
    /\ PadRequest([type |-> "PhysicalDisconnected", key |-> p], producer.pads \ {p})

\* The producer has ended (its socket closed, it was silent, or it was refused):
\* every pad it announced is disconnected before another producer may come; a
\* refusal here fences the coordinator.
ProducerEnds ==
    /\ producer.on
    /\ producer' = [producer EXCEPT !.on = FALSE]
    /\ UNCHANGED <<recvVars, link, fenced, manager, latest, mapper, handle, owner, call, pressed, desync>>

Cleanup(p) ==
    /\ ~producer.on /\ p \in producer.pads /\ (fenced \/ call.st = "none")
    /\ IF link /\ coord /\ up /\ ~fenced /\ Ready(rt) /\ rt.src[p].known
       THEN /\ \E new \in DropSources(rt, {p}) :
                  /\ MapsAll(mapper, new.feedback)
                  /\ mapper' = MapPads(MapAll(mapper, new.feedback), [type |-> "PhysicalDisconnected", key |-> p])
                  /\ Settle([new EXCEPT !.feedback = <<>>], lease, FALSE)
            /\ producer' = [producer EXCEPT !.pads = @ \ {p}]
            /\ UNCHANGED <<link, fenced, manager, latest, handle, owner, call, desync>>
       ELSE /\ fenced' = TRUE
            /\ producer' = [producer EXCEPT !.pads = {}]
            /\ UNCHANGED <<recvVars, link, manager, latest, mapper, handle, owner, call, pressed, desync>>

ProducerOpens ==
    /\ ~producer.on /\ producer.pads = {} /\ link /\ ~fenced /\ manager.init
    /\ producer' = [on |-> TRUE, pads |-> {}]
    /\ UNCHANGED <<recvVars, link, fenced, manager, latest, mapper, handle, owner, call, pressed, desync>>

\* korrid dies, or is restarted because it is fenced, which only a restart cures;
\* its journal still names the session.
KorridDies ==
    /\ link' = FALSE /\ fenced' = FALSE /\ manager' = Unset
    /\ latest' = NoReply /\ mapper' = NoMapper /\ handle' = None
    /\ call' = NoCall /\ producer' = [on |-> FALSE, pads |-> {}]
    /\ UNCHANGED <<recvVars, owner, pressed, desync>>

-----------------------------------------------------------------------------
Init ==
    /\ rt = Boot /\ coord = FALSE /\ lease = None /\ up = TRUE
    /\ link = FALSE /\ fenced = FALSE /\ manager = Unset
    /\ latest = NoReply /\ mapper = NoMapper /\ handle = None /\ owner = None
    /\ call = NoCall
    /\ producer = [on |-> FALSE, pads |-> {}]
    /\ pressed = {} /\ desync = FALSE

Receiver ==
    \/ LoseCoordinator \/ LeaseHangup
    \/ \E c \in Controllers : FrameConnected(c) \/ FrameDisconnected(c)
                              \/ \E h \in BOOLEAN : FrameState(c, h)
    \/ \E k \in Keys : Expire(k)
    \/ ReceiverDies \/ ReceiverBoots

Thread == ThreadStops \/ PollFails \/ Deliver \/ Poll

Manager ==
    \/ Hello \/ HelloFails
    \/ \E s \in {None, owner}, n \in Slots : Initialize(s, n)
    \/ \E n \in Slots : CallCount(n)
    \/ \E l \in Launches : StartLease(l) \/ \E o \in Orders : CallBegin(l, o)
    \/ \E g \in Guests : CallReserve(g)
    \/ \E x \in {None, owner} : CallRoute(x)
    \/ CallEnd
    \/ ResetLease \/ StopLease \/ DropLease \/ KorridDies \/ CallerTimesOut

Producer ==
    \/ ProducerOpens \/ ProducerEnds
    \/ \E p \in Pads : \/ PadDisconnects(p) \/ Cleanup(p)
                       \/ \E h \in BOOLEAN : PadConnects(p, h) \/ PadStates(p, h)

Next == Receiver \/ Thread \/ Manager \/ Producer

Spec == Init /\ [][Next]_vars

-----------------------------------------------------------------------------
(* Properties. *)

TypeOK ==
    /\ rt \in Runtime /\ ~rt.overflow /\ Len(rt.feedback) <= MaxEvents
    /\ coord \in BOOLEAN /\ lease \in Launches \cup {None} /\ up \in BOOLEAN
    /\ link \in BOOLEAN /\ fenced \in BOOLEAN
    /\ manager \in [init : BOOLEAN, route : Launches \cup {None, "unset"}]
    /\ latest \in [session : Launches \cup {None}, count : Slots, recovery : BOOLEAN]
    /\ mapper \in [remote : [Remotes -> {"absent", "neutral", "held"}], pads : SUBSET Pads]
    /\ handle \in Launches \cup {None} /\ owner \in Launches \cup {None}
    /\ call.st \in {"none", "reply"} /\ call.waits \in BOOLEAN /\ call.init \in BOOLEAN
    /\ call.st # "none" => call.q \in Requests
    /\ producer \in [on : BOOLEAN, pads : SUBSET Pads]
    /\ pressed \subseteq Keys /\ desync \in BOOLEAN

\* A source has at most one seat, and a seat in use belongs to a source that is
\* there; a source that has a seat is not left disconnected.  Outside first-press
\* sessions nobody waits while a seat is free.
SeatsMatchSources ==
    /\ \A s, t \in Slots : rt.seat[s].key = rt.seat[t].key /\ rt.seat[s].key # None => s = t
    /\ \A s \in Slots : rt.seat[s].key # None =>
          /\ s <= rt.count
          /\ rt.seat[s].on <=> rt.src[rt.seat[s].key].known
    /\ (Free(rt) # {} /\ ~FirstPress(rt)) => \A k \in Known(rt) : Bound(rt, k)

\* What a game sees pressed was pressed while the game had the input, by a source
\* that is still there: no button that was held across a change of route, a
\* hand-over of a seat or a reconnect ever reaches it (set_route, rebalance,
\* connect_source, update_source).
HeldIsPressed ==
    \A s \in rt.held : /\ rt.seat[s].on /\ rt.seat[s].key \in pressed
                       /\ rt.route /\ rt.session # None /\ coord

\* While korrid believes that the portal has the input, no game has it; while it
\* believes that a game has it, that game's session is the one routed, or the
\* connection is already lost (the cached route of UnixInputSeatManager).
RouteIsTrue ==
    (~fenced /\ call.st = "none") =>
        /\ manager.route = None => ~rt.route /\ rt.held = {}
        /\ (manager.route \in Launches /\ coord) => rt.route /\ rt.session = manager.route

\* The snapshot that end_session and the viewer trust shows the receiver's
\* session whenever no call and no loss is under way.
SnapshotIsTrue ==
    (~fenced /\ link /\ coord /\ manager.init /\ call.st = "none")
        => latest.session = rt.session /\ owner = rt.session

\* Frames of a stream client are taken only for the session that runs, under a
\* lease and a coordinator; its controllers go when any of these goes.
MirrorIsAuthorized ==
    /\ rt.mirror # None => coord /\ rt.session = rt.mirror /\ lease = rt.mirror
    /\ \A k \in Known(rt) \cap Remotes : k[1] = rt.mirror

\* korrid's native sources, once the pending events are applied, are exactly the
\* remote controllers of the receiver: no edge is lost or invented, and the mapper
\* never meets an event that it cannot place.
NativeAgrees ==
    /\ ~desync
    /\ (link /\ coord) =>
        LET replied == IF call.st = "reply" THEN call.m.events ELSE <<>>
            view    == MapAll(mapper, replied \o rt.feedback)
        IN  \A k \in Remotes : view.remote[k] = IF rt.src[k].known /\ rt.src[k].has
                                                THEN IF rt.src[k].held THEN "held" ELSE "neutral"
                                                ELSE "absent"

\* What a game gets is what its own players press: through its route, its session
\* and its authorized stream client, whatever died or was abandoned meanwhile.
InputIsAuthorized == HeldIsPressed /\ MirrorIsAuthorized

\* korrid's picture of the receiver, which it acts on without asking, is true:
\* the cached route, the last snapshot and the native sources.
ViewIsTrue == RouteIsTrue /\ SnapshotIsTrue /\ NativeAgrees

\* Within a session no seat passes from one source to another, not even when
\* korrid dies and comes back: a controller that returns finds its seat.
SeatsAreKept ==
    [][(up' /\ rt.session # None /\ rt'.session = rt.session)
        => \A s \in Slots : rt.seat[s].key # None => rt'.seat[s].key = rt.seat[s].key]_vars

=============================================================================
