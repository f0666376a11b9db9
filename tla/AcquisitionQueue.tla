--------------------------- MODULE AcquisitionQueue ---------------------------
(***************************************************************************)
(* The download queue of services/korrid/src/acquisition/mod.rs: one job at *)
(* a time, a launch first, Pause and Cancel, the turns of provider games in *)
(* the same line, and the queue rebuilt from the cache after a restart.     *)
(*                                                                         *)
(* Requests and the worker share the queue mutex; every section under it is *)
(* one step, and so is every stretch of the worker between two awaits.  The *)
(* worker's control point stands for the fields worker (it is not "off" or  *)
(* "asleep") and running (Running).                                         *)
(*                                                                         *)
(* Simplifications: one version of each artifact; progress within a         *)
(* download, the sleep inhibitor and the wording of failures are left out;  *)
(* a caller cancels an artifact once at a time; every artifact of a removed *)
(* game may be removed.  Another process can hold a .lock at any moment,    *)
(* so an attempt to take it may find it held.                               *)
(***************************************************************************)
EXTENDS Naturals, Sequences, Functions

CONSTANTS
    Artifacts,   \* the contributions of the registry
    Jobs,        \* provider game jobs, each with a key of its own
    Routes,      \* the lists of artifacts that requests name, each id once
    MaxAsks,     \* bound: requests for a download
    MaxCrashes,  \* bound: restarts of korrid
    Nothing      \* neither an artifact nor a job

ASSUME AcquisitionAssumption ==
    /\ Artifacts \cap Jobs = {}
    /\ Nothing \notin Artifacts \cup Jobs
    /\ Routes \subseteq Seq(Artifacts)
    /\ MaxAsks \in Nat
    /\ MaxCrashes \in Nat

VARIABLES
    ready,    \* disk: the artifacts with a ready directory
    marks,    \* disk: the artifacts with an entry in .downloads, oldest first
    job,      \* Queue.jobs: the state of each artifact's job
    waiting,  \* Queue.waiting, front first
    w,        \* the worker: see Worker
    caller,   \* what a pending cancel of an artifact waits for
    turn,     \* the place of each provider job: TurnWait and Turn
    want,     \* history: what was last asked of an artifact
    asks,     \* how many requests there were
    crashes   \* how many restarts there were

disk   == <<ready, marks>>
counts == <<asks, crashes>>
vars   == <<ready, marks, job, waiting, w, caller, turn, want, asks, crashes>>

Stops   == {"Run", "Pause", "Cancel"}
Results == {"Ok", "Cancelled", "Failed"}
\* Control points at which queue.running is set, and at which .lock is held.
RunningAt == {"turn", "lock", "reclaim", "fetch", "unpack", "tidy", "back", "read"}
LockedAt  == {"reclaim", "fetch", "unpack", "tidy"}

Worker == [at : RunningAt \cup {"off", "asleep", "loop", "ticket", "discard"},
           base : Artifacts \cup Jobs \cup {Nothing},
           stop : Stops,         \* what Running.stop was last sent
           stopped : Stops,      \* what work() read of it
           result : Results]     \* what acquire() returned
Off == [at |-> "off", base |-> Nothing, stop |-> "Run", stopped |-> "Run", result |-> "Ok"]

\* The items of s at the positions of I, in their order.
Pick(s, I) ==
    LET picked[i \in 0..Len(s)] ==
            IF i = 0 THEN <<>>
            ELSE IF i \in I THEN Append(picked[i - 1], s[i]) ELSE picked[i - 1]
    IN  picked[Len(s)]

\* VecDeque::retain: every item of S leaves; and what takes one item at a time
\* (position, remove): the first of each item of S leaves.
Without(s, S)      == Pick(s, {i \in DOMAIN s : s[i] \notin S})
WithoutFirst(s, S) == Pick(s, {i \in DOMAIN s : s[i] \in S => \E j \in 1..(i - 1) : s[j] = s[i]})

Running(x)   == w.at \in RunningAt /\ w.base = x
IsWaiting(x) == x \in Range(waiting)
Marked(a)    == a \in Range(marks)
Locked(a)    == w.at \in LockedAt /\ w.base = a

\* ensure_worker: a request runs inside the runtime.
Awake(line) == IF w.at \in {"off", "asleep"} /\ line # <<>> THEN [Off EXCEPT !.at = "loop"] ELSE w

------------------------------------------------------------------------------
(* Requests.                                                               *)

\* A background download pauses for a launch of first.
Pauses(first) == /\ w.at \in RunningAt
                 /\ w.base \in Artifacts
                 /\ w.base \notin Range(first)
                 /\ job[w.base] = "Downloading"

\* Mutant: the paused job is not put back.
X_PauseDrops(first) == <<>>

Paused(first) == IF Pauses(first) THEN <<w.base>> ELSE <<>>

\* The queue after a launch: its artifacts, the job it pauses, the others.
\* The running job stays where a pause may have put it.
LaunchLine(first) ==
    LET moved == Without(first, {a \in Artifacts : Running(a)})
    IN moved \o Paused(first) \o WithoutFirst(waiting, Range(moved))

\* history: a request for a is skipped because a runs, but the run is ending.
Ending(a) == Running(a) /\ (w.stop = "Cancel" \/ w.at \in {"back", "read"})

\* enqueue: start() is front, download() is not.  bad: the new ones whose
\* marker cannot be written.
Enqueue(ids, front) ==
    LET asked == Without(ids, ready)
        new   == {a \in Range(asked) : ~Running(a) /\ ~IsWaiting(a)}
    IN /\ asks < MaxAsks
       /\ asks' = asks + 1
       /\ \E bad \in SUBSET new :
            LET first  == Without(asked, bad)
                fresh  == Without(first, Artifacts \ new)
                launch == front /\ first # <<>>
                stop   == IF launch /\ Pauses(first) THEN "Pause" ELSE w.stop
            IN /\ waiting' = IF launch THEN LaunchLine(first)
                             ELSE IF front THEN waiting ELSE waiting \o fresh
               /\ marks' = marks \o Without(fresh, Range(marks))
               /\ job' = [a \in Artifacts |-> IF a \in bad THEN "Failed"
                                              ELSE IF a \in new THEN "Queued" ELSE job[a]]
               /\ w' = [Awake(waiting') EXCEPT !.stop = stop]
               /\ want' = [a \in Artifacts |->
                             IF a \in Range(first) /\ (a \in Range(waiting') \/ ~Ending(a))
                             THEN "asked" ELSE want[a]]
       /\ UNCHANGED <<ready, caller, turn, crashes>>

\* status, the part that changes anything: ensure_worker.
Status ==
    /\ w' = Awake(waiting)
    /\ UNCHANGED <<disk, job, waiting, caller, turn, want, counts>>

\* cancel, its decision under the queue mutex.
Cancel(a) ==
    /\ caller[a] = "none"
    /\ job[a] # "Unpacking"
    /\ waiting' = Without(waiting, {a})
    /\ want' = [want EXCEPT ![a] = "cancelled"]
    /\ \/ /\ Running(a)
          /\ w' = [w EXCEPT !.stop = "Cancel"]
          /\ caller' = [caller EXCEPT ![a] = "running"]
          /\ job' = job
       \/ /\ ~Running(a)
          /\ caller' = [caller EXCEPT ![a] = "idle"]
          /\ job' = [job EXCEPT ![a] = IF @ = "Queued" THEN "Missing" ELSE @]
          /\ w' = w
    /\ UNCHANGED <<disk, turn, counts>>

\* Mutant: the partial files go whoever writes them.
X_Unlocked(a) == marks' = Without(marks, {a})

\* remove_downloads under the lock, or lock_briefly gives up: the worker or
\* another process holds it.
DiscardPartials(a) ==
    \/ ~Locked(a) /\ marks' = Without(marks, {a})
    \/ marks' = marks

\* cancel of a job that does not run: it deletes the files itself.  The
\* status of its answer starts the worker; an error returns before that.
CancelDiscards(a) ==
    /\ caller[a] = "idle"
    /\ DiscardPartials(a)
    /\ caller' = [caller EXCEPT ![a] = "none"]
    /\ w' \in {Awake(waiting), w}
    /\ UNCHANGED <<ready, job, waiting, turn, want, counts>>

\* remove: a ready artifact is not busy, whatever waits.
RemoveDownload(a) ==
    /\ a \in ready
    /\ ~Locked(a)
    /\ ready' = ready \ {a}
    /\ want' = [want EXCEPT ![a] = "none"]
    /\ w' = Awake(waiting)
    /\ UNCHANGED <<marks, job, waiting, caller, turn, counts>>

------------------------------------------------------------------------------
(* Turns of provider games.                                                *)

\* queue_turn.
QueueTurn(t) ==
    /\ turn[t] = "new"
    /\ turn' = [turn EXCEPT ![t] = "waits"]
    /\ waiting' = Append(waiting, t)
    /\ w' = Awake(waiting')
    /\ UNCHANGED <<disk, job, caller, want, counts>>

\* A cancelled job drops its TurnWait.  Before turn() was polled the drop
\* leaves the queue; afterwards turn() took the receiver and the drop finds
\* none: the ticket stays, without a receiver.
DropWait(t) ==
    /\ turn[t] = "waits"
    /\ \/ /\ turn' = [turn EXCEPT ![t] = IF IsWaiting(t) THEN "over" ELSE "stale"]
          /\ waiting' = Without(waiting, {t})
       \/ /\ turn' = [turn EXCEPT ![t] = "stale"]
          /\ waiting' = waiting
    /\ UNCHANGED <<disk, job, w, caller, want, counts>>

\* The job ends, or is cancelled, and drops its Turn.
DropTurn(t) ==
    /\ turn[t] = "turn"
    /\ turn' = [turn EXCEPT ![t] = "over"]
    /\ UNCHANGED <<disk, job, waiting, w, caller, want, counts>>

------------------------------------------------------------------------------
(* The worker.                                                             *)

\* The head of the loop: leave, or take the front of the queue.
Take ==
    /\ w.at = "loop"
    /\ \/ /\ waiting = <<>>
          /\ w' = Off
          /\ UNCHANGED <<job, waiting>>
       \/ /\ waiting # <<>>
          /\ waiting' = Tail(waiting)
          /\ w' = [Off EXCEPT !.at = IF Head(waiting) \in Jobs THEN "ticket" ELSE "lock",
                              !.base = Head(waiting)]
          /\ job' = [a \in Artifacts |-> IF a = Head(waiting) THEN "Downloading" ELSE job[a]]
    /\ UNCHANGED <<disk, caller, turn, want, counts>>

\* Mutant: the worker waits for the job also when nobody took the turn.
X_AwaitAnyway ==
    /\ w.at = "ticket"
    /\ turn' = [turn EXCEPT ![w.base] = IF @ = "waits" THEN "turn" ELSE @]
    /\ w' = [w EXCEPT !.at = "turn"]
    /\ UNCHANGED <<disk, job, waiting, caller, want, counts>>

\* The turn is handed over, or nobody is left to receive it.
GiveTurn ==
    /\ w.at = "ticket"
    /\ \/ /\ turn[w.base] = "waits"
          /\ turn' = [turn EXCEPT ![w.base] = "turn"]
          /\ w' = [w EXCEPT !.at = "turn"]
       \/ /\ turn[w.base] = "stale"
          /\ turn' = [turn EXCEPT ![w.base] = "over"]
          /\ w' = [Off EXCEPT !.at = "loop"]
    /\ UNCHANGED <<disk, job, waiting, caller, want, counts>>

TurnOver ==
    /\ w.at = "turn"
    /\ turn[w.base] = "over"
    /\ w' = [Off EXCEPT !.at = "loop"]
    /\ UNCHANGED <<disk, job, waiting, caller, turn, want, counts>>

Return(result) == w' = [w EXCEPT !.at = "back", !.result = result]

\* acquire: the loop that takes .lock (while another process holds it, it
\* sleeps and tries again), or stops.  The cache can fail before the stop is
\* looked at.
TakeLock ==
    /\ w.at = "lock"
    /\ \/ w.stop # "Run" /\ Return("Cancelled")
       \/ w.stop = "Run" /\ w' = [w EXCEPT !.at = "reclaim"]
       \/ Return("Failed")
    /\ UNCHANGED <<disk, job, waiting, caller, turn, want, counts>>

\* acquire: an old unpacking unit is reclaimed and old work cleaned, whatever
\* was stopped meanwhile; then the download directory is there to write in.
Reclaim ==
    /\ w.at = "reclaim"
    /\ \/ Return("Failed") /\ marks' = marks
       \/ w.base \in ready /\ Return("Ok") /\ marks' = marks
       \/ /\ w.base \notin ready
          /\ w' = [w EXCEPT !.at = "fetch"]
          /\ marks' = IF Marked(w.base) THEN marks ELSE Append(marks, w.base)
    /\ UNCHANGED <<ready, job, waiting, caller, turn, want, counts>>

\* acquire: the files arrive, or the download fails or is stopped.  Whether
\* unpacking starts is decided under the queue mutex.
Fetch ==
    /\ w.at = "fetch"
    /\ \/ w.stop # "Run" /\ Return("Cancelled") /\ job' = job
       \/ Return("Failed") /\ job' = job
       \/ /\ w.stop = "Run"
          /\ w' = [w EXCEPT !.at = "unpack"]
          /\ job' = [job EXCEPT ![w.base] = "Unpacking"]
    /\ UNCHANGED <<disk, waiting, caller, turn, want, counts>>

\* publish: up to the rename.
Publish ==
    /\ w.at = "unpack"
    /\ \/ Return("Failed") /\ ready' = ready
       \/ w' = [w EXCEPT !.at = "tidy"] /\ ready' = ready \cup {w.base}
    /\ UNCHANGED <<marks, job, waiting, caller, turn, want, counts>>

\* publish: the downloads go.
Tidy ==
    /\ w.at = "tidy"
    /\ \/ Return("Ok") /\ marks' = Without(marks, {w.base})
       \/ Return("Failed") /\ marks' = marks
    /\ UNCHANGED <<ready, job, waiting, caller, turn, want, counts>>

\* work reads what it was told, before it takes the queue mutex.
ReadStop ==
    /\ w.at = "back"
    /\ w' = [w EXCEPT !.at = "read", !.stopped = w.stop]
    /\ UNCHANGED <<disk, job, waiting, caller, turn, want, counts>>

\* Mutant: only a pause gives a stopped job a new state.
X_KeepsState == CASE w.result = "Ok"     -> "Ready"
                  [] w.result = "Failed" -> "Failed"
                  [] OTHER -> IF w.stopped = "Pause" THEN "Queued" ELSE job[w.base]

Outcome == CASE w.result = "Ok"     -> "Ready"
             [] w.result = "Failed" -> "Failed"
             [] OTHER               -> IF w.stopped = "Pause" THEN "Queued" ELSE "Missing"

\* done is sent: the cancels that waited for this run return.
Done(a) == caller' = [caller EXCEPT ![a] = IF @ = "running" THEN "none" ELSE @]

Settle ==
    /\ w.at = "read"
    /\ job' = [job EXCEPT ![w.base] = Outcome]
    /\ \/ /\ w.stopped = "Cancel"
          /\ w' = [w EXCEPT !.at = "discard"]
          /\ caller' = caller
       \/ /\ w.stopped # "Cancel"
          /\ w' = [Off EXCEPT !.at = "loop"]
          /\ Done(w.base)
    /\ UNCHANGED <<disk, waiting, turn, want, counts>>

Discard ==
    /\ w.at = "discard"
    /\ DiscardPartials(w.base)
    /\ Done(w.base)
    /\ w' = [Off EXCEPT !.at = "loop"]
    /\ UNCHANGED <<ready, job, waiting, turn, want, counts>>

------------------------------------------------------------------------------
(* The environment.                                                        *)

\* korrid stops anywhere and starts again.  recover_artifacts drops the
\* downloads of ready artifacts and queues the others, oldest first.  It leaves
\* what another process holds, and an error in one of them ends it for all:
\* seen is what it gets to.
Restart ==
    /\ crashes < MaxCrashes
    /\ crashes' = crashes + 1
    /\ \E seen \in SUBSET Range(marks) :
          /\ waiting' = Without(marks, ready \cup (Artifacts \ seen))
          /\ marks' = Without(marks, seen \cap ready)
    /\ job' = [a \in Artifacts |-> IF a \in Range(waiting') THEN "Queued" ELSE "Missing"]
    /\ want' = [a \in Artifacts |-> IF a \in Range(waiting') THEN "asked" ELSE "none"]
    /\ \/ waiting' # <<>> /\ w' = [Off EXCEPT !.at = "loop"]
       \/ w' = [Off EXCEPT !.at = "asleep"]
    /\ caller' = [a \in Artifacts |-> "none"]
    /\ turn' = [t \in Jobs |-> IF turn[t] = "new" THEN "new" ELSE "over"]
    /\ UNCHANGED <<ready, asks>>

------------------------------------------------------------------------------

Init ==
    /\ ready = {} /\ marks = <<>>
    /\ job = [a \in Artifacts |-> "Missing"]
    /\ waiting = <<>>
    /\ w = Off
    /\ caller = [a \in Artifacts |-> "none"]
    /\ turn = [t \in Jobs |-> "new"]
    /\ want = [a \in Artifacts |-> "none"]
    /\ asks = 0 /\ crashes = 0

Request ==
    \/ \E ids \in Routes, front \in BOOLEAN : Enqueue(ids, front)
    \/ \E a \in Artifacts : Cancel(a) \/ RemoveDownload(a)
    \/ \E t \in Jobs : QueueTurn(t) \/ DropWait(t)
    \/ Status

Work == \/ Take \/ GiveTurn \/ TurnOver
        \/ TakeLock \/ Reclaim \/ Fetch \/ Publish \/ Tidy
        \/ ReadStop \/ Settle \/ Discard

Next ==
    \/ Request
    \/ Work
    \/ \E a \in Artifacts : CancelDiscards(a)
    \/ \E t \in Jobs : DropTurn(t)
    \/ Restart

Spec == Init /\ [][Next]_vars

\* The worker task is scheduled and its awaits end: downloads and units have
\* time limits, a job that has its turn ends, another process lets go of .lock.
Fairness ==
    /\ WF_vars(Work)
    /\ \A t \in Jobs : WF_vars(DropTurn(t))

FairSpec == Spec /\ Fairness

------------------------------------------------------------------------------
(* Properties.                                                             *)

Types ==
    /\ ready \subseteq Artifacts
    /\ marks \in Seq(Artifacts)
    /\ job \in [Artifacts -> {"Missing", "Queued", "Downloading", "Unpacking", "Ready", "Failed"}]
    /\ waiting \in Seq(Artifacts \cup Jobs)
    /\ w \in Worker
    /\ caller \in [Artifacts -> {"none", "running", "idle"}]
    /\ turn \in [Jobs -> {"new", "waits", "stale", "turn", "over"}]
    /\ want \in [Artifacts -> {"none", "asked", "cancelled"}]
    /\ asks \in 0..MaxAsks
    /\ crashes \in 0..MaxCrashes

\* A state of a run belongs to a run: no job is shown as downloading or
\* unpacking when the worker is through with it (work, its match of result).
\* Nothing would ever end it, and cancel refuses a job that is Unpacking.
ShownIsRunning == \A a \in Artifacts : job[a] \in {"Downloading", "Unpacking"} => Running(a)

\* The fields of the queue have their types, and the state of a job is one that
\* a job in its place can have.
TypeOK == Types /\ ShownIsRunning

\* One download at a time (mod.rs:41): a provider job that has its turn is
\* the one the worker waits for, so no artifact is downloaded beside it.
OneAtATime == \A t \in Jobs : turn[t] = "turn" => w.at = "turn" /\ w.base = t

\* A stop that saw Downloading is never lost once unpacking starts
\* (mod.rs:798): what is being published was told neither to pause nor to stop.
StopIsNotLost == w.at \in {"unpack", "tidy"} => w.stop = "Run"

\* Whatever launches, pauses, failures and turns come between, a download that
\* was accepted and not cancelled is ready, is reported as failed, runs or
\* waits for its turn.  (A request that is skipped because the same artifact
\* runs, when that run is about to end, is not counted as accepted: Ending; and a
\* restart starts afresh with what it recovers: what it loses is QueuedIsMarked.)
NotForgotten == \A a \in Artifacts :
    want[a] = "asked" => a \in ready \/ job[a] = "Failed" \/ Running(a) \/ IsWaiting(a)

\* A cancel deletes partial files while other runs go on; it never deletes
\* them under the worker that writes or unpacks them (discard_partials).
WriterKeepsFiles == w.at \in {"fetch", "unpack"} => Marked(w.base)

\* The work under way is exclusive: nothing is downloaded beside it, nothing that
\* was told to stop is published, and no request deletes its files.
WorkIsExclusive == OneAtATime /\ StopIsNotLost /\ WriterKeepsFiles

\* Everything in the queue leaves it, unless korrid restarted outside a
\* runtime and no request came since: no wakeup of the worker is lost, and
\* neither a dropped ticket nor a held lock stops it for ever.
QueueDrains == \A x \in Artifacts \cup Jobs :
    IsWaiting(x) ~> (~IsWaiting(x) \/ w.at = "asleep")

\* Refuted by acquisition_cancel.  Once cancel has returned, its download is out of
\* the queue:
\* "Stop one download, delete its partial files and leave the queue." (mod.rs:542)
CancelIsFinal == \A a \in Artifacts :
    want[a] = "cancelled" /\ caller[a] = "none" => ~IsWaiting(a)

\* Refuted, see the README.
\* "A queued contribution always has a `.part` marker, so a restart can
\* rebuild the queue from the cache alone." (mod.rs:44)
QueuedIsMarked == \A a \in Artifacts : IsWaiting(a) => Marked(a) \/ a \in ready

==============================================================================
