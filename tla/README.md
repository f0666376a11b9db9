# Verification of korrid

TLA+ models of the parts of Korri that must not go wrong, with the TLC runs that
check them and the TLAPS proofs about them. Paths below are relative to
`services/korrid/src/` unless they name another directory.

Korri runs one daemon, **korrid**, on every device. It launches games as systemd
units, keeps exactly one *live session*, journals it so that a crash loses neither a
play nor a save, streams it to peers, and binds the device to the person that owns it.
Around it are small helpers: `services/inputd` (controllers and seats),
`services/limitsd` (CPU and GPU limits of a game), the plugin host, a local signer
that holds person keys, and front ends.

## 1. Inventory

| Component | State it keeps | Operations | Works with | What is hard | Modelled |
|---|---|---|---|---|---|
| Launch reservations (`host/launch_reservation.rs`, `host/mod.rs`) | map of reservations, an atomic phase each | reserve, start, commit, cancel, finish, retire | session, RPC callers | a cancel races a worker without the session lock | `LaunchReservation` |
| Active session journal (`host/identity.rs`, `host/session_state.rs`) | `active.json`, temporaries | persist, mark, acknowledge, complete, discard, recover | hooks, saves, play log, systemd | a crash between any two of its durable steps | `SessionJournal` |
| Native session (`host/session_state.rs`, `host/systemd_unit.rs`) | in-memory state, seat lease, units | prepare, status, stop, fail, recover | reservations, journal, inputd, systemd | the stop helper runs outside the lock; helpers fail or time out after they acted | `HostSession` |
| Identity switch (`identity_switch/`) | live and staged identity directory, journal | switch, complete, roll back | local signer, relays, play log, authorization, federation | several stores change, any of them may fail or die | `IdentitySwitch`, `DeviceOwner` |
| Local signer keyring (`local_signer.rs`) | active and retired person keys | import, activate, retire, promote, roll back, delete | identity switch | it can die between two links | inside `IdentitySwitch` |
| Focus and freezing (`host/session_state.rs` 2740-3345) | frozen, focus failed | focus portal, resume, effects | compositor, freezer, seats | several external calls with repair | `SessionFocus` |
| Input seats (`host/input_coordination.rs`, `services/inputd`) | seat pool, bindings, command channel, fence | begin/end session, connect, reserve, disconnect, resize | session, uinput | a timed-out request may have been carried out | `InputSeats` |
| Save history and sync (`saves/`, `host/saves.rs`) | snapshots with parents, objects, confirmations | capture, choose, restore, merge, prune, exchange | session, peers | two devices extend one history; prune against reuse | `SaveHistory` |
| Acquisition (`acquisition/`) | one-at-a-time queue, tickets, `.part` markers | start, pause, cancel, remove, recover | plugins, network | a launch, a cancel and the worker at work on one artifact | `AcquisitionQueue`, without the provider protocol |
| Federation (`federation/`) | directory, epochs, attempts, publication | membership, endpoints, reach | relays, peers | an answer of an older attempt | planned |
| Stream play, invites, netplay (`stream_play/`, `invites/`, `netplay/`, `upstreams.rs`) | selected remote session, viewer, cache of invites | select, observe, stop, refresh | peers, viewer | a refresh that crosses a start; half-failed start | planned |
| limitsd (`services/limitsd`) | limits of one unit | apply, restore, reassert | sysfs | a unit that goes while limits are applied | planned |
| Plugin host (`plugin-host/`) | receipts, units, store | install, update, remove | systemd | a crash during an update | planned last |
| Launch settings, configuration, discovery | documents under one write lock | set, resolve, rescan | - | mostly data transformation | not planned |
| Command line, portal, surfaces, Android client, images, contracts | - | - | - | front ends, generated or third-party code | no |

`PROJECT.json` lists every component with its source files, and every hazard with
its line and the properties that would show it going wrong. The hazards of parts that
are not modelled yet are in this table and in section 7.

### What makes each core component correct

* **Reservations.** A caller that was told its launch is cancelled never sees the
  game start; a cancel accepted too late for that ends the game; two launches are
  never prepared at once; a launch in preparation can always be cancelled.
* **Journal.** Each game that a player had is logged exactly once with the save that
  belongs to it; after-hooks run in order and hear the right result; a running unit
  is always named by the journal; the journal empties, after the next restart at the
  latest when the input seats were lost.
* **Session.** The state, the journal, the input seats and the units agree or
  recovery is pending; a stop that returns late does not touch the next game;
  a stop settles, recovery resolves.
* **Identity switch.** The live directory is always one complete, unrevoked identity;
  while calls do not overlap, a committed switch is never undone, and signer, earlier
  play records and revocation follow. It is completed unless one of three things
  blocks it for good (finding 7).
* **Input seats.** A game sees only what its players press while it has the input;
  what korrid believes of the receiver is true or korrid knows that it may not be;
  a controller that comes back finds its seat.
* **Focus.** Whatever call fails half way, the portal is thawed and gets the
  controllers back unless a focused game runs; no running game stays dimmed.
* **Save history.** A snapshot loses its last payload only when somebody went on from it
  and another device confirmed it, so of every snapshot it or one made after it can
  still be played (an open side whose successor a device has not seen may go,
  finding 12); receipts stay true; a completed walk leaves no gap.
* **Acquisition.** One download at a time; while korrid runs, none that was accepted is
  forgotten (a restart may lose one, finding 11), and the queue drains.

## 2. Modules

`LaunchReservation` <- refined by - `HostSession`; `DeviceOwner` <- refined by -
`IdentitySwitch`; `SessionJournal` details what `HostSession` calls completing a
session, and `SessionFocus` what it calls `Live`. `InputSeats`, `SaveHistory` and
`AcquisitionQueue` stand by themselves. `MC*` modules instantiate them for TLC; `*Proofs` modules hold the theorems.
An operator `X_Something` is a faulty variant of `X` and belongs to no specification;
the mutants of `PROJECT.json` put it in place of `X` to show that a property can fail.

### LaunchReservation

`phase` is the `AtomicU8`, `pending` the keys of the map, `bound` what a reservation
was made for, `worker` the position of the blocking task that `start_launch` spawns.
One action per map operation (`Reserve`, `Start`, `CancelBeforeCommit`,
`CancelAfterCommit`, `RetireCompleted`, `Finish`) and per worker step (`RouteReady`,
`Refuse`, `Commit`, `CheckCancelled`, `LaunchNative`, `StopCancelled`). The native
session appears as its contract only: `native` says whether a launch has run. A crash
loses the whole map. An RPC that fails its check changes nothing and has no action.

### SessionJournal

The journal is one file, so `record` is one record; `temp` is the temporary an
interrupted write leaves. Every durable step of preparing, completing, discarding and
recovering is one action, in the code's order: `Persist`, `Seats`, `StartUnit`,
`ObserveLaunch`, `ExitMark`/`DropFailedLaunch`, `StopMark`, `FailMark`, `FailClear`,
`EndSeats`, `JournalResult`, `RunHook`, `AcknowledgeHook`, `AfterHooks`, `ReplaceByCompletion`,
`PutSnapshot`, `RecordPlay`, `ClearRecord`, `Recover`. They run under the session lock,
so there is one program counter; units, failing steps (`StepFails`), `Crash` and `Reboot`
interleave with it. A step that fails may be retried, with one exception: a seat request that
times out (`LoseSeats`) fences the coordinator until korrid restarts
(`host/input_coordination.rs:124-149`), and `EndSeats`, the `end_session` with which every completion
and discard begins, is refused for as long. An entry is the number of the capture that made it, so that a
second capture is a different entry.

### HostSession

Everything the session mutex protects, and the units, are the record `host`; a helper
of the code is a function from a host to the hosts it may leave. `Enter`,
`PersistActive`, `StartSeats`, `CheckCancelled`, `LaunchUnit`, `ObserveUnit` are the steps of
`prepare_inner`; `Status` is `observe_status_locked` with the recovery it triggers;
`StopBegin`, `StopHelper`, `StopEnd` are `observe_stop`, whose middle part runs without the
mutex. The reservation actions are those of `LaunchReservation` with the native part
replaced by these steps, and `ReservationContract` states that the result implements
that module. Running, frozen and focus-failed are one kind `Live`. `Fence` is the lost seat
coordinator again; `temp` is the temporary that a death inside a journal write leaves (`Crash`, where
`MayWrite` says when a write can be under way), and `Recover` reads the journal only when there is
none or no unit is live.

### IdentitySwitch and DeviceOwner

Every switch call is a process, and so is the recovery of a starting korrid (`Boot`);
an await ends a step. `Begin` to `Exchange` are `IdentitySwitchCoordinator::switch`,
`Complete` to `RemoveJournal` are `complete_commit`, shared by call and recovery.
`live` and `staged` are directories with a device key, an owner statement, a NIP-46
connection and certificate grants; the device key a call creates is named after the
call. `ActivateHalf` is a signer that fails between retiring and promoting; `ActivateTorn` one
that dies inside either, which leaves a key active and retired, and a signer in that state refuses
its status. `DisposeData` fails, at every start, when the records to transfer collide with some the new
person has. `Fault` fails any other step, `Restart` is the exit korrid schedules after each
call, `Crash` any other death. `Launch`, `Play`, `Pair`, `Announce` and `DeleteRetired` are the rest of
korrid: a game is journaled for a person (`game`), outlives korrid's exits, and is logged for that
person when it ends, before, during or after a switch.

`DeviceOwner` is the promise: device key and owner change together in one
step, a device key that was given up does not come back, and only such a key is revoked. Under the
refinement mapping a switch happens at the moment its commit is journaled. Nothing in the code
serialises the calls or keeps a retired key from being deleted under a switch. Where a property
depends on that, the module does not assume it away by a bound: `mishaps` remembers whether it
happened, the property holds until then, and `DeviceOwner` becomes `void`. Play records are not
part of the promise, because a late play puts some back under the person who left.

Not in this module: file permissions, the strict codec of the journal and key encryption. Play
records are one flag per person, so a transfer may collide whenever both persons have
some: the code refuses when one record of each has the same id and they differ.

### InputSeats

Two processes. `rt` is inputd's `SeatRuntime` with its pool: the seats and the source
each belongs to, what the sources hold, the route, the session, the mirror of a stream
client and the queued events. `ApplyCount`, `BeginSession`, `EndSession`, `Route`, `ReserveNetplay` and
the `Physical*` operators are the requests, each a function from a runtime to its outcomes
(`Apply`); `Frame*`, `Expire` and `LoseCoordinator` are the rest of the receiver's loop. On korrid's side are the coordinator thread (`link`,
`latest`, `mapper`), the manager with its cached route and its fence, and the producer of local
controllers. A call of the manager (`Call*`) is split where it can be cut: carried out with its
reply under way (`Carry`), delivered (`Deliver`), given up (`CallerTimesOut`). A caller that gives up fences the coordinator while the receiver may
still carry the request out. A local controller beyond `MaxPads` is refused by either side. A session
that an earlier korrid left is ended before `initialize`, as the recovery of the journal does. Either process can die at any time. `pressed` and `desync` are
history.

### SessionFocus

Every operation holds the session mutex throughout, so it is one step; what is hard is
not who interleaves but which of its dozen calls fails, and how far it got.
An operation is therefore a chain of outcomes (`Then`, `Catch`, `Always`): a call either has
its effect, or fails with or without it, and each failure uses up one of `MaxFaults`. `Leave` and
`Return` are `set_freezer_observed`, `Effect` is `invoke_running_effect`, `Watch` is the portal watcher,
`Drop` the reconciliation that `SessionStateGuard` does when the mutex is released. The stop
helper alone runs outside the mutex (`StopBegin`, `StopHelper`, `StopEnd`). `Crash` leaves the units and
the window in any state an interrupted operation can leave them in.

### SaveHistory

Records are numbered in the order in which they are made, so a parent is smaller than
its child; a record is immutable, and a device has or lacks it. `recs`, `objs` and `conf` are
what a device stores: records, objects, receipts. The operations of `NativeSaveStore` hold
one mutex and are one action each: `Baseline`, `Launch`, `Discard`, `Capture`, `Publish`, `Choose`, `Restore`, `Reconcile`,
`Prune`.
`synchronize` is split at its awaits (`Begin`, `Fetch`, `Plan`, `Push`, `Finish`), may be cut at each of them, and interleaves with whatever either device does.
Two simplifications: a device has one synchronization at a time (the code runs one per peer, and a launch
check beside them), and the receiver's handler of a push is one step or is cut at one of its
awaits (`PushCut`). `Synced` is the answer that the receipts give; the code also answers so when a peer has
just been asked without a failure (`host/saves.rs:651`). The
bound `Keep` stands for the ten snapshots that retention keeps.

### AcquisitionQueue

`waiting`, `job` and `turn` are the fields of `Queue`; `w` is the worker, whose control point also
says whether `running` is set and whether `.lock` is held. Requests (`Enqueue`, `Status`, `Cancel`,
`CancelDiscards`, `RemoveDownload`, `QueueTurn`, `DropWait`) and the worker's steps between awaits (`Take`
to `Discard`) interleave freely. `marks` are the `.downloads` directories in the order in which they
were made, from which `Restart` rebuilds the queue. `want` is history: what was last asked of
an artifact since korrid started. A restart begins it afresh from the markers, so what a restart
itself can lose is not its subject (finding 11). A job shown as downloading or unpacking is one that runs
(`ShownIsRunning`, part of the types).

## 3. Runs

| Run | Instance | Shows | Distinct states |
|---|---|---|---|
| `launch_reservation` | 2 launches, 2 callers | a cancelled launch never runs (`CancelledNeverRuns`) or is stopped (`CancelledIsStopped`), one session, a launch in preparation is found by its cancel; a late cancel ends its launch | 13,085 |
| `session_journal` | 2 launches (one anonymous, one with saves), 2 hook steps, 2 failing steps or a lost seat coordinator, 2 crashes or reboots | every play once and never lost (`PlayExactlyOnce`); save before play, hooks before completion and rightly told (`CompletionIsHonest`); no orphan unit; the journal drains unless the seats are fenced | 1,248,715 |
| `host_session` | 2 launches, 1 other client, 1 failing call, 1 crash | units journaled and tracked, input follows the session (`SessionAgrees`), late stops harmless, implements `LaunchReservation`; stops settle, and recovery resolves unless it waits for a restart or for the end of its game (`SessionSettles`) | 242,631 |
| `identity_switch` | 2 calls one after the other, 2 persons, one of whom plays, 1 fault, 1 crash, 1 deletion, 1 torn change of key | implements `DeviceOwner`, committed switches stay recoverable unless a key is deleted under them (`CommitSurvives`), signer and effects complete once the journal is gone (`SwitchIsWhole`); the journal resolves or is stuck in one of three named ways | 1,322,088 |
| `identity_switch_pair` | 2 overlapping calls, a deletion, a torn change of key, a crash | the live identity is complete and unrevoked | 654,172 |
| `input_seats` | 1 launch, a local controller, a stream controller, a guest, 2 seats, 1 queued event | seats and sources match, only authorized input reaches a game, korrid's view is true, seats are kept | 614,626 |
| `session_focus` | one game after another, 3 failures | no running game stays dimmed, over means gone, portal and controllers come back | 30,065 |
| `save_history` | 2 devices, 3 records, 2 contents, retention of 1, 1 contact at a time | payloads survive, receipts hold, a walk is whole, of every snapshot it or one that went on from it can still be played (`ProgressSurvives`) | 812,657 |
| `acquisition_queue` | 2 artifacts, 1 provider job, 3 requests, 1 restart | work is exclusive, nothing accepted is forgotten; the queue drains | 554,511 |
| `identity_overlap`, `save_first_files`, `acquisition_cancel` | the smallest that shows it | one finding each, section 6 | - |

**Why the bounds are enough.** Two launches are what a race needs: the second is the
replacement that a late stop, a stale lease or a retired token could harm, and the
single journal, lock and session leave no role for a third. One fault and one crash
reach every combination of a failing step with a death after it; `session_journal` has two
of each, because the second crash meets what the recovery of the first has half done, and a
fence can meet a failing step. Two
persons and two calls allow a switch and a switch back, and two calls that overlap;
a third call changes nothing for `LiveIsOwned`, which is proved for any number.
`input_seats` has three sources for two seats, so that one waits, one of each kind; deaths are not
bounded there. Three failures let a `Leave` fail, its repair fail, and the guard's repair
fail after it. In `save_history` three records are a root with two children, or a split and
its join; with two contents, two records share an object, which is what retention can get
wrong. Longer histories and a third device do not only repeat these: two statements that hold
on this instance fail beyond it (findings 12 and 13). The four that the run
checks are proved for any number of devices and records. Two artifacts give a launch something to pause, the
third request meets a cancel or a pause under way.

No run uses a state constraint. `save_history` uses the symmetry of the devices: no action
names one, and the run has no liveness property.

**Deadlock** is checked in every run but `identity_switch_pair` and `identity_overlap`, where the calls of
the instance run out: a finished `session_journal` has an explicit
`Exhausted` step, the other models always have something to do.

**Fairness.** `CancelEndsLaunch`: workers run on and a stopped unit ends (the blocking
pool has no unbounded wait; systemd kills after its timeout). `JournalDrains`: the
procedure under the lock continues, status is polled, games end. `SessionSettles`: workers and
stop calls run on, a unit told to stop ends, and the
portal watcher calls status every second. `JournalResolves`: awaits of signers and relays
are bounded by timeouts, korrid exits 500 ms after each call, and the service manager
restarts it; korrid's recovery is not assumed to succeed. `PortalComesBack` and `InputComesBack`: the portal watcher runs on its timer, nothing
else. `QueueDrains`: the worker task is scheduled and its awaits end (downloads and units have
time limits, and a job that has its turn ends). Failing calls are bounded, so these say:
once the outside world works again, the system gets there by itself, except where the formula
names what it cannot get over. Those exceptions are states of the code: a fence lasts
until korrid is restarted (`JournalDrains`, `SessionSettles`, `InputComesBack`); a journal temporary
beside a live game blocks recovery until the game ends (`SessionSettles`); a record left
by a failing write of the exit stays until the next launch or restart (`JournalDrains`); a switch
can be stuck for good (`Stuck` in `JournalResolves`, finding 7).
No fairness is assumed of callers, cancels, faults, crashes or of a restart that nobody scheduled.

## 4. Proofs

`LaunchReservationProofs` proves, for any sets of launches, callers and games, the type
invariant, the four invariants of `launch_reservation`, and that every token that counts as
pending belongs to a launch that has not finished (`PendingIsUnfinished`, proved only). None of them is inductive: whether a
cancelled launch can still run depends on where its worker stands. The inductive
invariant `IInv` adds `WorkerAgrees` (which phases a worker's position allows, and that
its token is in the map until it returns) and `EffectsNeedCommit` (whatever ran had
passed the commit gate, and an id whose cancel was answered as final never did).
Requests, worker steps and environment steps are three lemmas, one step per action.

`IdentitySwitchProofs` proves `Spec => []LiveIsOwned` for any number of persons and of
calls that overlap, fail and die anywhere, with any number of faults, crashes,
deletions and torn changes of key. The invariant again is not inductive, and the code has
no lock that would make it so. The argument:

* the journal file acts as one (`OneHolder`): a call passes `WritePreparing` only when
  there is none, and only the process that holds it removes it;
* nobody refers to the device key of a call before that call's exchange
  (`FreshIsUnused`), so an exchange installs a key that cannot have been revoked;
* after its exchange a call's key is live until its journal is gone, and no running
  call takes it for the old one (`InstalledIsLive`): what is published as revoked is
  not live;
* while the staged directory is a revoked one, neither the journal nor any running call
  wants to exchange the live device away (`RevokedStaysOut`): it is never put back.

Most actions only move a process on; `MoveIInv` says when that is harmless and the
lemmas for them cite it. The mutual exclusion is a theorem of its own,
`JournalHasOneHolder`. The inductive invariant was model-checked on the instance of
`identity_switch_pair` before it was proved.

The second half of `IdentitySwitchProofs` goes on from there. `SwitchTypes` proves the types, with overlapping
calls too; it needs that a working process knows which switch it works on (`Known`).
The other three theorems have no hypothesis on the constants either: any number of calls may be allowed to overlap.
Their properties hold up to the moment they do, which the history `mishaps` records. The
invariant `SInv` is proved while no overlap has happened (`Serial`). Until then the staged
directory is the one call's until its switch is done (`StagingOf`, `SwitchedOf`), or the recovery's
(`Recovering`); while no commit is journaled the signer, the records of the time before, and the revocations are the owner's (`Settled`);
while one is, the two directories are the old and the new identity, in one order or the other (`Committed`); and
no call is about to install a key that was given up (`GivenUp`). `SwitchesAreWhole` and `ImplementsDeviceOwner` follow, the latter
as a step simulation in which only the step that journals a commit changes the owner and only a given-up key is revoked.
`CommitsAreRecoverable` also excepts what follows the deletion of a retired key during a switch. Neither exception can be dropped: on
the instance of `identity_overlap` TLC refutes all three without the first, and `CommitIsRecoverable` without the second as soon as one deletion is allowed.

`SessionJournalProofs` proves `PlayExactlyOnce`, `CompletionIsHonest` and `NoOrphanUnit` for any launches, hook
steps, failing steps, crashes and reboots. The inductive invariant says, for each place
at which the procedure can be interrupted, what its memory and the journal have in common
(`HoldsRecord`), what the units may be doing (`UnitsAgree`), and how far the durable effects have
got: `PlaysAgree`, `OnePlay`, `PlayIsKept` and `SaveBeforePlay` for entries of the log, `HooksCounted` for the hooks,
`FailureIsWitnessed` and `FailureIsHeard` for the result they are told. The fence may be raised anywhere; it turns a completion back before it has
changed anything. `FreshLaunches` and `Boots` keep a launch from
being mistaken for one of an earlier run.

`HostSessionProofs` proves `SessionAgrees`, `LateStopIsHarmless` and the refinement of `LaunchReservation`
(`ImplementsReservations`). For every helper that has several outcomes a lemma says which hosts it may
leave; they all keep `HostOK`, the part of the invariant about the host alone. `Tracked` (a live unit
and a lease that feeds a game are those of the session) holds only while no
preparation is under way; `LockOK` says what a preparation may have done so far, `CallsOK` what
a stop remembers while it is outside the mutex, and `NotStarted` that nothing runs for a launch
whose worker has not had the lock yet.

`AcquisitionQueueProofs` proves `WorkIsExclusive` and `NotForgotten` for any artifacts, jobs, routes, requests and
restarts. The queue is a sequence that is filtered; what the filters keep is shown
first, by a least counterexample in place of an induction principle. `NotForgotten` is
not inductive while a run ends: `FallsInLine`, `PausedWaits` and `Told` say why an artifact whose run was
stopped is in the queue again unless nobody wants it. `WorkIsExclusive` needs that unpacking was
announced (`Announced`), since neither a pause nor a cancel touches a job that unpacks. The types include
`ShownIsRunning`: when a run ends, however it ends, its job is not shown as one that works.

`InputSeatsProofs` proves `SeatsMatchSources`, `InputIsAuthorized` and `SeatsAreKept` for any number of seats, sources and
launches. `Good` describes the receiver's runtime between two steps, relative to the sources
whose press may count: seats and sources match, a source that may reach the game was
armed after the route was given, nothing is held on a seat that is off or without the route. A
change of route empties that set of sources, and every operator of the runtime keeps
`Good`. `Full` (nobody waits while a seat is free) is not kept by them but restored by
`rebalance`, whatever was there before, by counting free seats and waiting sources.

The same module proves `ViewIsTrue`, for event queues of any bound. What korrid makes of joined sequences of
events is shown first (`MapConcat`; a least counterexample stands in for an induction). Every operator of the runtime then
either is silent about stream controllers (`Quiet`) or *tells* (`Tells`): whoever agreed with the runtime before,
pending events included, agrees with it afterwards, or the queue overflowed and the turn ends by cutting korrid off.
The property itself is silent while a call is under way, so it is not inductive: `NInv` says that the native
sources agree once the reply on its way is applied, `CInv` which of the cached route, snapshot and owner are true already and
which the reply will correct. A fence gives up all claims of `CInv` and none of `NInv`.

`SaveHistoryProofs` proves `PayloadsSurvive`, `ReceiptsHold`, `WalkIsWhole` and `ProgressSurvives` for any devices, records, contents and
retention, and that a device gives up a payload only when somebody went on from its
record and another device confirmed it (`DropsFollowReceipts`, proved only; `docs/adr/0014`). A step only adds, except for a prune, which
removes objects. What survives both is that a device *answers* for a record (`Answers`): it
has the payload, or somebody went on from the record and another device confirmed it. The
inductive invariant adds where a record can be that no device answers for yet: in the
journal of the device that captured it (`JournalHolds`), or in a contact under way (`SyncHolds`).
`ProgressSurvives` takes the newest record that went on from a snapshot: nobody went on from that one, so the device that answers
for it has its payload. Ancestors are the least set closed under parents, so no
recursion is needed.

`SessionFocusProofs` proves the types, `DimmedIsPaused` and `OverWhenUnitIsGone` for any number of failing
calls, crashes and losses of the coordinator. An operation is a chain of calls that can each
fail half done, so its outcomes are a set; one lemma per operator says what any of them
changed of the five fields safety is about: the phase, the unit, the dimming, the rollback that
is armed, and whether the session was ever given up. Most change none (`Quiet`). `DimmedIsPaused` speaks of running units
only; the inductive invariant says more, why a window may be dimmed at all
(`Sound`): its unit is frozen and nobody is stopping it, or the session is or was given up. Inside a
Leave that is not so: there the rollback is armed (`Rough`), and every way out of the Leave
either disarms it after handing over or runs it. `HelperOK` carries the argument over the part of a stop
that is outside the mutex: a helper still to run was asked to stop a game that is not dimmed. The proof
found a mistake in the model: the end of an effect that leaves the session frozen
or stopping had been modelled as one that gives it up.

TLC confirms each of these inductive invariants on all states of its component's run (that of
`SaveHistory` also in simulations with three devices and four records). To repeat that, check it from a module
that extends the `*Proofs` module, with the constants of the run.

**Assumptions** are those named in the modules, and every run evaluates them. They say
that identifiers are what the code makes them: the null value is none of the others,
calls, the recovery process and the first device differ (`SwitchConstants`), launches and clients
differ (`HostConstants`), the persons who play are some of the persons, saving and anonymous launches are disjoint (`JournalConstants`), artifacts and provider
jobs differ (`AcquisitionAssumption`), local controllers, guests and stream controllers differ and are finitely many,
and a route that is not known is neither a launch nor none (`SeatConstants`; the code has an `Option` of an `Option`), devices are finitely many and retention keeps at least one (`SaveHistoryAssumption`); the rest are
bounds that are natural numbers.

**Model-checked only:**

* all liveness: fairness and ENABLED are outside the prover.

Nothing is claimed of an identity switch after two calls overlapped, beyond `LiveIsOwned` and the types:
there the rest is false (finding 1).

## 5. Not modelled, and why

Front ends, images, generated contracts and the Android client hold no state the
device depends on or are third-party code. Parsing of tool output, file formats,
encryption, archive reading and downloads are I/O or pure data. Korrid's orderly
shutdown is not modelled: what follows it is the recovery of the next start, which the
restart steps cover. `InputSeats` leaves out the capture of local devices and uinput;
`SaveHistory` screenshots, warnings that a save is in use elsewhere, and the bytes of a
transfer; `AcquisitionQueue` the protocol of provider plugins and what a provider job does
inside its turn. The unreserved resume path of a session, stream play, netplay, the
federation directory, limitsd and the plugin host are left for later (section 7).

## 6. Findings

Three are runs in which TLC violates what a comment or a test says:

1. `identity_overlap` (`CommitIsRecoverable`): a second switch call removes the directory the
   first has staged; the first commits a switch that no recovery can complete.
2. `save_first_files` (`FirstFilesEnter`): a restore on a device whose first files were not
   captured counts as a record of this device, so the next launch skips the capture and
   replaces the files. `saves/mod.rs:74` says that they "must enter history before any
   received snapshot may replace them at a launch boundary".
3. `acquisition_cancel` (`CancelIsFinal`): a launch that arrives while a cancel is being carried
   out overwrites `Stop::Cancel` by `Stop::Pause` and puts the job back into the queue.

The following statements are definitions of the modules too, marked there as refuted. No
run is kept for them; to reproduce one, make it the only property of the module's cfg, with
the constants named here if any.

4. `NoPhantomPlay` (`SessionJournal`; `session_state.rs:3679`): korrid dies after it journaled a launch and
   before it started the unit; recovery logs a play of a game that never ran, although
   `session_state.rs:2471` says "No play is recorded for a launch the player never received."
5. `CrashKeepsRecoverable` (`SessionJournal`; `session_state.rs:3636`): korrid dies inside a journal write while a game
   runs; recovery refuses the temporary it left, and the session cannot be stopped until the
   game ends. `host/identity.rs:7`: "A crash at any boundary therefore keeps either a recoverable
   running record or a replayable completion record."
6. `ResultBeforeRelease` (`SessionJournal`; `session_state.rs:2486`): a unit that failed at startup is released before
   its failure is journaled; a crash in between tells the after-hooks that it exited.
   `session_state.rs:1619`: "Journal the result before releasing its diagnostic source."
7. A switch is stuck after its commit (`[]Stuck` in `JournalResolves`, `IdentitySwitch`; to see one, check
   `journal # NoJournal ~> journal = NoJournal` on the instance of `identity_switch`): recovery fails at every start, and
   `main.rs:715-720` panics. There are three ways. A signer that died while it retired (`local_signer.rs:228-243`) or
   promoted a key (`:491`) holds it twice and refuses its status, which recovery asks for first
   (`coordinator.rs:389`); its own retry, which the test at `local_signer.rs:2107` covers, is never reached.
   Records to transfer collide with different ones of the new person, who has played on the device
   before (`play_log.rs:250-253`). The replacement key was deleted by `IdentityRetiredDelete` while the
   switch was under way (`lib.rs:4024`). `identity_switch/mod.rs:1` calls the storage
   "Crash-recoverable".
8. `StreamTrustIsLost` (`IdentitySwitch`, in the cfg of `identity_switch_pair`; `coordinator.rs:399`): the grants to revoke are read from the live
   directory after the exchange, so stream clients of the old identity stay trusted; the dialog
   says "I understand that peer pairings and stream-client trust will be cleared."
9. `SplitIsReal` (`SaveHistory` with `Purposes = {"CheckLaunch"}`; `saves/peer/sync.rs:431`): a contact that is cut after it
   imported a head shows a split that disappears with the missing records; ADR 0014: "korrid
   finds splits by ancestry, never by clocks or arrival order".
10. `ContactMemoryIsTrue` (`SaveHistory` with `Purposes = {"Contact"}`; `saves/peer/sync.rs:516`): the memory of a contact keeps the
    peer's heads of its beginning and this device's heads of its end, so a snapshot published in
    between can be taken for one that was exchanged.
11. `QueuedIsMarked` (`AcquisitionQueue`; `acquisition/mod.rs:44`): a cancel that is still deleting files removes the marker of
    the same artifact queued again; a restart then forgets it, although "a queued contribution
    always has a `.part` marker".
12. `HeadsSurvive` (`SaveHistory` with three devices, `MaxRecords = 2`, `WildContents = {1}`; `saves/store.rs:701`): two devices that went
    on from a snapshot drop its payload on each other's receipts, while a third, whose contact
    was cut, still shows it as one side of a split; no device has it then. ADR 0014: "The other side stays in the save history
    and can be restored". What does hold is `SidesSurvive`: the payload is there or somebody went on from it.
13. `LaunchFindsBase` (`SaveHistory` with `MaxRecords = 5`, `MaxContents = 3`, `Keep = 2`, from the state in which both devices recorded
    the same first files and know both records; `saves/store.rs:353`): an import between `reconcile` and
    `launch_base` leaves two heads of equal content unjoined; when the newer one's payload is
    missing, the launch is refused as a split though there is none to choose. The next completed
    contact ends it.

Two consequences of the code contradict no line of the repository, but a reader should know them:

14. A game of the old owner that ends after the switch is logged for the old owner
    (`session_state.rs:1458-1556`), whose records the switch has already deleted or
    transferred: the new owner's device keeps play records of a person who left. `EffectsAreComplete`
    speaks of the records of the time before the disposal only.
15. A seat request that times out once fences korrid until it is restarted
    (`input_coordination.rs:124-149`). Launches are refused from then on, and the session that is
    running ends in `RecoveryBlocked` with its record still in the journal; nothing in korrid schedules the restart.

## 7. Plan

Done: `LaunchReservation`, `SessionJournal`, `HostSession`, `DeviceOwner`, `IdentitySwitch`, `SessionFocus`, `InputSeats`,
`SaveHistory`, `AcquisitionQueue`, and the proofs of section 4.

Left to model:

1. **StreamPlay**, invites and netplay: one selected session and a viewer that follows it
   (`stream_play/registry.rs:131`: a start and its cleanup may both fail); no refresh that began
   while the device was idle puts its offers back after a start (`invites/device.rs:72`).
2. **FederationDirectory**: work tokens, attempts, publication generations
   (`federation/mod.rs:669`: an answer of an older attempt).
3. The provider turn protocol, limitsd, then the plugin host's lifecycle.
