---------------------------- MODULE SessionJournal ----------------------------
(***************************************************************************)
(* The active session journal of korrid (host/identity.rs) and the         *)
(* procedures that move a session through it (host/session_state.rs:       *)
(* persisting, completing, discarding, recovering).                        *)
(*                                                                         *)
(* The journal is one file.  A running record is written before the unit   *)
(* is launched; when the unit has ended korrid runs the after-hooks, each  *)
(* acknowledged in the record, captures a play entry and a save snapshot,  *)
(* replaces the record by a completion record, stores the snapshot, logs   *)
(* the play and removes the file.  Everything happens under the session    *)
(* lock, so there is one program counter; what interleaves with it is the  *)
(* unit, a failing step, a dying korrid and a rebooting device, and the     *)
(* loss of the input-seat coordinator, which fences korrid until it is      *)
(* restarted: no session can be ended before that.                          *)
(*                                                                         *)
(* The contents of entries and snapshots are left out: an entry is the     *)
(* number of the capture that made it, so two captures of one session are  *)
(* different entries.                                                      *)
(***************************************************************************)
EXTENDS Naturals, FiniteSets

CONSTANTS
    Launch,         \* launch ids
    Anonymous,      \* launches with no person identity: no play, no saves
    Saving,         \* launches whose runner declares save locations
    Steps,          \* number of after-hook steps of every launch
    MaxFaults,      \* bound on failing steps
    MaxCrashes      \* bound on deaths of korrid, reboots included

ASSUME JournalConstants ==
    /\ Anonymous \subseteq Launch
    /\ Saving \subseteq Launch \ Anonymous
    /\ Steps \in Nat /\ MaxFaults \in Nat /\ MaxCrashes \in Nat

VARIABLES
    record,     \* active.json
    temp,       \* a temporary of an interrupted write is left beside it
    log,        \* play log: pairs of a launch and an entry
    saves,      \* save store: pairs of a launch and a snapshot
    unit,       \* systemd's view of each launch's unit
    boot,       \* boot identity
    pc,         \* where the procedure under the session lock stands
    mem,        \* the record that procedure holds in memory
    mode,       \* whether it completes or discards the session
    session,    \* ActiveState, reduced: free, live, or to be recovered
    fenced,     \* the seat coordinator is lost until korrid restarts
    captures,   \* number of captures made so far, names the next entry
    faults, crashes,
    \* what happened, for the properties
    used,       \* launch ids already given out
    ran,        \* launches whose unit has run
    delivered,  \* launches that became a live session
    failed,     \* launches whose unit failed
    hooked,     \* the last after-hook step run for each launch
    told        \* results the after-hooks of each launch were told

durable == <<record, temp, log, saves>>
volatile == <<pc, mem, mode, session, fenced>>
history == <<used, ran, delivered, failed, hooked, told>>
jvars == <<durable, unit, boot, volatile, captures, faults, crashes, history>>

-----------------------------------------------------------------------------
(* State *)

None == [phase |-> "none"]

Running(l) == [phase |-> "running", launch |-> l, result |-> "unset",
               left |-> Steps, boot |-> boot, entry |-> 0]

Result == {"unset", "stopped", "failed", "exited"}

Record == [phase : {"running", "pending"}, launch : Launch, result : Result,
           left : 0..Steps, boot : 1..(MaxCrashes + 1), entry : Nat]

ProgramCounter == {"idle", "persist", "seats", "launch", "observe", "stopMark",
                   "exitMark", "failMark", "failClear", "dropFailed", "end", "hooks",
                   "journal", "run", "ack", "after", "replace", "put", "log", "clear", "consume"}

\* Steps that write the journal file through a temporary and a rename.
Writing == {"persist", "stopMark", "exitMark", "failMark", "journal", "ack", "replace"}

Live == {l \in Launch : unit[l] = "running"}

TypeOK ==
    /\ record \in Record \cup {None} /\ mem \in Record \cup {None}
    /\ temp \in BOOLEAN
    /\ log \subseteq Launch \X Nat /\ saves \subseteq Launch \X Nat
    /\ unit \in [Launch -> {"absent", "running", "failed"}]
    /\ boot \in 1..(MaxCrashes + 1)
    /\ pc \in ProgramCounter
    /\ mode \in {"complete", "discard"}
    /\ session \in {"free", "live", "recovering"} /\ fenced \in BOOLEAN
    /\ captures \in Nat
    /\ faults \in 0..MaxFaults /\ crashes \in 0..MaxCrashes
    /\ used \subseteq Launch /\ ran \subseteq used
    /\ delivered \subseteq ran /\ failed \subseteq ran
    /\ hooked \in [Launch -> 0..Steps]
    /\ told \in [Launch -> SUBSET Result]

Init ==
    /\ record = None /\ mem = None /\ temp = FALSE
    /\ log = {} /\ saves = {}
    /\ unit = [l \in Launch |-> "absent"]
    /\ boot = 1 /\ captures = 0 /\ faults = 0 /\ crashes = 0
    /\ pc = "idle" /\ mode = "complete" /\ session = "recovering" /\ fenced = FALSE
    /\ used = {} /\ ran = {} /\ delivered = {} /\ failed = {}
    /\ hooked = [l \in Launch |-> 0]
    /\ told = [l \in Launch |-> {}]

\* mark_hook_result: journals a result for the after-hooks, an explicit stop
\* keeps precedence.
Marked(r, result) ==
    [r EXCEPT !.result = IF Steps > 0 /\ r.phase = "running" /\ @ # "stopped"
                         THEN result ELSE @]

-----------------------------------------------------------------------------
(* Faulty variants of the operations below: one plausible bug each.  They   *)
(* are not part of the specification.                                       *)

\* A completion record is captured again when it is replayed.
AfterHooks_Recaptures ==
    /\ pc = "after"
    /\ IF mode = "discard" \/ mem.launch \in Anonymous
       THEN pc' = "consume" /\ UNCHANGED <<mem, captures>>
       ELSE /\ captures' = captures + 1
            /\ mem' = [mem EXCEPT !.phase = "pending", !.entry = captures + 1]
            /\ pc' = "replace"
    /\ UNCHANGED <<durable, unit, boot, fenced, mode, session, faults, crashes, history>>

\* The failure of a unit is journaled only by the hooks, after its release.
FailMark_Deferred ==
    /\ pc = "failMark" /\ pc' = "failClear"
    /\ UNCHANGED <<durable, unit, boot, fenced, mem, mode, session, captures, faults, crashes,
                   history>>

\* A stop that was journaled completes the session without proof of its end.
ObserveEnd_TrustsStop ==
    /\ pc = "idle" /\ session = "live"
    /\ mode' = "complete"
    /\ CASE unit[record.launch] = "absent" \/ record.result = "stopped" ->
              pc' = "end" /\ mem' = record
         [] unit[record.launch] = "failed" /\ record.result # "stopped" ->
              pc' = "failMark" /\ mem' = Marked(record, "failed")
         [] OTHER -> FALSE
    /\ UNCHANGED <<durable, unit, boot, fenced, session, captures, faults, crashes, history>>

\* Recovery does not remove the temporaries of an interrupted write.
Recover_KeepsTemporaries ==
    /\ pc = "idle" /\ session = "recovering"
    /\ ~temp /\ UNCHANGED temp
    /\ mode' = "complete"
    /\ \/ /\ record = None /\ Live = {}
          /\ session' = "free"
          /\ UNCHANGED <<pc, mem, delivered>>
       \/ /\ record # None /\ Live = {}
          /\ IF record.phase = "running" /\ unit[record.launch] = "failed"
             THEN pc' = "failMark" /\ mem' = Marked(record, "failed")
             ELSE pc' = "end" /\ mem' = record
          /\ UNCHANGED <<session, delivered>>
       \/ /\ record.phase = "running" /\ Live = {record.launch}
          /\ session' = "live"
          /\ delivered' = delivered \cup {record.launch}
          /\ UNCHANGED <<pc, mem>>
    /\ UNCHANGED <<record, log, saves, unit, boot, fenced, captures, faults, crashes, used, ran,
                   failed, hooked, told>>

\* The hook loop does not notice that no step is left.
HooksTurn_NoEnd ==
    /\ pc = "hooks"
    /\ IF mem.phase = "running" /\ mem.boot = boot
       THEN /\ mem' = [mem EXCEPT !.result = IF @ = "unset" THEN "exited" ELSE @]
            /\ pc' = "journal"
       ELSE pc' = "after" /\ UNCHANGED mem
    /\ UNCHANGED <<durable, unit, boot, fenced, mode, session, captures, faults, crashes, history>>

-----------------------------------------------------------------------------
(* Starting a session *)

\* prepare_inner after its commit gate: the record is composed in memory.
\* A launch id is used once, and none while the coordinator is lost.
Prepare(l) ==
    /\ pc = "idle" /\ session = "free" /\ ~fenced
    /\ l \notin used
    /\ used' = used \cup {l}
    /\ mem' = Running(l)
    /\ pc' = "persist"
    /\ UNCHANGED <<durable, unit, boot, fenced, mode, session, captures, faults, crashes,
                   ran, delivered, failed, hooked, told>>

\* persist_active refuses a directory that is not empty; otherwise the
\* record is durable once write_active returns.
Persist ==
    /\ pc = "persist"
    /\ IF record = None /\ ~temp
       THEN record' = mem /\ pc' = "seats" /\ UNCHANGED session
       ELSE session' = "recovering" /\ pc' = "idle" /\ UNCHANGED record
    /\ UNCHANGED <<temp, log, saves, unit, boot, fenced, mem, mode, captures, faults, crashes, history>>

\* begin_session and start of the input seats, then the cancellation check:
\* a refusal or a cancel discards the record, the game never ran.
Seats ==
    /\ pc = "seats"
    /\ \/ ~fenced /\ pc' = "launch" /\ UNCHANGED <<mem, mode>>
       \/ /\ pc' = "end" /\ mode' = "discard"
          /\ mem' = [record EXCEPT !.result = IF @ = "unset" THEN "failed" ELSE @]
    /\ UNCHANGED <<durable, unit, boot, fenced, session, captures, faults, crashes, history>>

\* backend.launch starts the unit, or fails without leaving a live unit.
StartUnit ==
    /\ pc = "launch"
    /\ \/ /\ unit' = [unit EXCEPT ![record.launch] = "running"]
          /\ ran' = ran \cup {record.launch}
          /\ pc' = "observe"
          /\ UNCHANGED <<mem, mode>>
       \/ /\ pc' = "end" /\ mode' = "discard"
          /\ mem' = [record EXCEPT !.result = IF @ = "unset" THEN "failed" ELSE @]
          /\ UNCHANGED <<unit, ran>>
    /\ UNCHANGED <<durable, boot, fenced, session, captures, faults, crashes,
                   used, delivered, failed, hooked, told>>

\* The first observation of the unit.  A live unit is a session; one that is
\* already gone or failed is discarded.
ObserveLaunch ==
    /\ pc = "observe"
    /\ LET l == record.launch IN
       CASE unit[l] = "running" ->
              /\ session' = "live" /\ pc' = "idle"
              /\ delivered' = delivered \cup {l}
              /\ UNCHANGED mem
         [] unit[l] = "absent" ->
              /\ pc' = "exitMark" /\ mem' = Marked(record, "exited")
              /\ UNCHANGED <<session, delivered>>
         [] unit[l] = "failed" ->
              /\ pc' = "dropFailed"
              /\ UNCHANGED <<mem, session, delivered>>
    /\ UNCHANGED <<durable, unit, boot, fenced, mode, captures, faults, crashes, used, ran,
                   failed, hooked, told>>

\* The unit exited before prepare returned: its result is journaled, then the
\* record is discarded and no play is recorded.
ExitMark ==
    /\ pc = "exitMark"
    /\ record' = mem /\ mode' = "discard" /\ pc' = "end"
    /\ UNCHANGED <<temp, log, saves, unit, boot, fenced, mem, session, captures, faults,
                   crashes, history>>

\* The unit failed before prepare returned: clear_failed_unit releases it, then
\* discard_active notes the failure in its copy of the record.
DropFailedLaunch ==
    /\ pc = "dropFailed"
    /\ unit' = [unit EXCEPT ![record.launch] = "absent"]
    /\ mem' = [record EXCEPT !.result = IF @ = "unset" THEN "failed" ELSE @]
    /\ mode' = "discard" /\ pc' = "end"
    /\ UNCHANGED <<durable, boot, fenced, session, captures, faults, crashes, history>>

-----------------------------------------------------------------------------
(* Ending a session *)

\* The first half of an exact stop journals "stopped" before the helper runs,
\* whatever has become of the unit.  A stop with no hooks to tell, or one that
\* was journaled before, writes nothing.
BeginStop ==
    /\ pc = "idle" /\ session = "live"
    /\ Marked(record, "stopped") # record
    /\ mem' = Marked(record, "stopped")
    /\ pc' = "stopMark"
    /\ UNCHANGED <<durable, unit, boot, fenced, mode, session, captures, faults, crashes, history>>

StopMark ==
    /\ pc = "stopMark"
    /\ record' = mem /\ pc' = "idle"
    /\ UNCHANGED <<temp, log, saves, unit, boot, fenced, mem, mode, session, captures, faults,
                   crashes, history>>

\* A status poll finds the unit of a live session gone (complete_active) or
\* failed (fail_active).
ObserveEnd ==
    /\ pc = "idle" /\ session = "live"
    /\ mode' = "complete"
    /\ CASE unit[record.launch] = "absent" -> pc' = "end" /\ mem' = record
         [] unit[record.launch] = "failed" ->
              pc' = "failMark" /\ mem' = Marked(record, "failed")
         [] OTHER -> FALSE
    /\ UNCHANGED <<durable, unit, boot, fenced, session, captures, faults, crashes, history>>

\* fail_active and recover_failed_unit journal the result first, and only then
\* release the failed unit, the only other witness of the failure.
FailMark ==
    /\ pc = "failMark"
    /\ record' = mem /\ pc' = "failClear"
    /\ UNCHANGED <<temp, log, saves, unit, boot, fenced, mem, mode, session, captures, faults,
                   crashes, history>>

\* fail_active gives up the seats in between, which a fence refuses.
FailClear ==
    /\ pc = "failClear"
    /\ IF fenced /\ session = "live"
       THEN pc' = "idle" /\ session' = "recovering" /\ mem' = None /\ UNCHANGED unit
       ELSE /\ unit' = [unit EXCEPT ![record.launch] = "absent"]
            /\ pc' = "end" /\ UNCHANGED <<mem, session>>
    /\ UNCHANGED <<durable, boot, fenced, mode, captures, faults, crashes, history>>

\* end_session, with which completing and discarding begin: korrid asks the
\* receiver, and a fenced korrid has nobody to ask.
EndSeats ==
    /\ pc = "end"
    /\ IF fenced
       THEN pc' = "idle" /\ session' = "recovering" /\ mem' = None
       ELSE pc' = "hooks" /\ UNCHANGED <<mem, session>>
    /\ UNCHANGED <<durable, unit, boot, fenced, mode, captures, faults, crashes, history>>

\* finish_after_hooks, one turn of its loop: the hooks of another boot are
\* skipped, a missing result means the game exited.
HooksTurn ==
    /\ pc = "hooks"
    /\ IF mem.phase = "running" /\ mem.left > 0 /\ mem.boot = boot
       THEN /\ mem' = [mem EXCEPT !.result = IF @ = "unset" THEN "exited" ELSE @]
            /\ pc' = "journal"
       ELSE pc' = "after" /\ UNCHANGED mem
    /\ UNCHANGED <<durable, unit, boot, fenced, mode, session, captures, faults, crashes, history>>

JournalResult ==
    /\ pc = "journal"
    /\ record' = mem /\ pc' = "run"
    /\ UNCHANGED <<temp, log, saves, unit, boot, fenced, mem, mode, session, captures, faults,
                   crashes, history>>

RunHook ==
    /\ pc = "run"
    /\ hooked' = [hooked EXCEPT ![mem.launch] = Steps - mem.left + 1]
    /\ told' = [told EXCEPT ![mem.launch] = @ \cup {mem.result}]
    /\ mem' = [mem EXCEPT !.left = @ - 1]
    /\ pc' = "ack"
    /\ UNCHANGED <<durable, unit, boot, fenced, mode, session, captures, faults, crashes,
                   used, ran, delivered, failed>>

AcknowledgeHook ==
    /\ pc = "ack"
    /\ record' = mem /\ pc' = "hooks"
    /\ UNCHANGED <<temp, log, saves, unit, boot, fenced, mem, mode, session, captures, faults,
                   crashes, history>>

\* After the hooks: a discarded or anonymous session is removed, a completion
\* record is replayed, a running record is captured (complete_active_snapshot).
AfterHooks ==
    /\ pc = "after"
    /\ CASE mode = "discard" \/ (mem.phase = "running" /\ mem.launch \in Anonymous) ->
              pc' = "consume" /\ UNCHANGED <<mem, captures>>
         [] mode = "complete" /\ mem.phase = "pending" ->
              pc' = "put" /\ UNCHANGED <<mem, captures>>
         [] OTHER ->
              /\ captures' = captures + 1
              /\ mem' = [mem EXCEPT !.phase = "pending", !.entry = captures + 1]
              /\ pc' = "replace"
    /\ UNCHANGED <<durable, unit, boot, fenced, mode, session, faults, crashes, history>>

ReplaceByCompletion ==
    /\ pc = "replace"
    /\ record' = mem /\ pc' = "put"
    /\ UNCHANGED <<temp, log, saves, unit, boot, fenced, mem, mode, session, captures, faults,
                   crashes, history>>

\* put_record: content-addressed, storing it again changes nothing.
PutSnapshot ==
    /\ pc = "put"
    /\ saves' = IF mem.launch \in Saving
                THEN saves \cup {<<mem.launch, mem.entry>>} ELSE saves
    /\ pc' = "log"
    /\ UNCHANGED <<record, temp, log, unit, boot, fenced, mem, mode, session, captures, faults,
                   crashes, history>>

\* play_log.record: idempotent for the exact entry.
RecordPlay ==
    /\ pc = "log"
    /\ log' = log \cup {<<mem.launch, mem.entry>>}
    /\ pc' = "clear"
    /\ UNCHANGED <<record, temp, saves, unit, boot, fenced, mem, mode, session, captures, faults,
                   crashes, history>>

\* clear_active and consume_active unlink active.json.
ClearRecord ==
    /\ pc \in {"clear", "consume"}
    /\ record' = None /\ mem' = None
    /\ pc' = "idle" /\ session' = "free"
    /\ UNCHANGED <<temp, log, saves, unit, boot, fenced, mode, captures, faults, crashes, history>>

-----------------------------------------------------------------------------
(* Recovery *)

\* recover, at start and on every observation while recovery is unresolved.
\* Temporaries of an interrupted write are removed only when no unit is live.
Recover ==
    /\ pc = "idle" /\ session = "recovering"
    /\ temp => Live = {}
    /\ temp' = FALSE
    /\ mode' = "complete"
    /\ \/ /\ record = None /\ Live = {}
          /\ session' = "free"
          /\ UNCHANGED <<pc, mem, delivered>>
       \/ /\ record # None /\ Live = {}
          /\ IF record.phase = "running" /\ unit[record.launch] = "failed"
             THEN pc' = "failMark" /\ mem' = Marked(record, "failed")
             ELSE pc' = "end" /\ mem' = record
          /\ UNCHANGED <<session, delivered>>
       \/ /\ record.phase = "running" /\ Live = {record.launch}
          /\ session' = "live"
          /\ delivered' = delivered \cup {record.launch}
          /\ UNCHANGED <<pc, mem>>
    /\ UNCHANGED <<record, log, saves, unit, boot, fenced, captures, faults, crashes, used, ran,
                   failed, hooked, told>>

\* A step of a procedure fails: the journal keeps what is durable and the
\* session goes to RecoveryBlocked, from which recovery starts again.  A write
\* may fail after its rename, a removal after its unlink, when the directory
\* cannot be synced.  Only a failing ExitMark leaves the session state as it is.
StepFails ==
    /\ pc # "idle"
    /\ faults < MaxFaults
    /\ faults' = faults + 1
    /\ pc' = "idle" /\ mem' = None
    /\ session' = IF pc = "exitMark" THEN session ELSE "recovering"
    /\ \/ UNCHANGED record
       \/ pc \in Writing /\ (pc = "persist" => record = None /\ ~temp) /\ record' = mem
       \/ pc \in {"clear", "consume"} /\ record' = None
    /\ UNCHANGED <<temp, log, saves, unit, boot, fenced, mode, captures, crashes, history>>

-----------------------------------------------------------------------------
(* The environment *)

\* The game exits, is stopped, or fails.
UnitEnds(l) ==
    /\ unit[l] = "running"
    /\ \/ unit' = [unit EXCEPT ![l] = "absent"] /\ UNCHANGED failed
       \/ unit' = [unit EXCEPT ![l] = "failed"] /\ failed' = failed \cup {l}
    /\ UNCHANGED <<durable, boot, volatile, captures, faults, crashes,
                   used, ran, delivered, hooked, told>>

\* A seat request times out or the receiver is lost: korrid is fenced until it
\* is restarted.
LoseSeats ==
    /\ ~fenced /\ fenced' = TRUE
    /\ faults < MaxFaults
    /\ faults' = faults + 1
    /\ UNCHANGED <<durable, unit, boot, pc, mem, mode, session, captures, crashes, history>>

\* korrid dies; in the middle of a write it leaves the temporary behind.
Crash ==
    /\ crashes < MaxCrashes
    /\ crashes' = crashes + 1
    /\ pc' = "idle" /\ mem' = None /\ mode' = "complete" /\ session' = "recovering"
    /\ fenced' = FALSE
    /\ \/ UNCHANGED temp
       \/ pc \in Writing /\ temp' = TRUE
    /\ UNCHANGED <<record, log, saves, unit, boot, captures, faults, history>>

\* The device reboots: no unit survives and the boot identity changes.
Reboot ==
    /\ crashes < MaxCrashes
    /\ crashes' = crashes + 1
    /\ boot' = boot + 1
    /\ unit' = [l \in Launch |-> "absent"]
    /\ pc' = "idle" /\ mem' = None /\ mode' = "complete" /\ session' = "recovering"
    /\ fenced' = FALSE
    /\ \/ UNCHANGED temp
       \/ pc \in Writing /\ temp' = TRUE
    /\ UNCHANGED <<record, log, saves, captures, faults, history>>

\* Nothing is under way, and every launch id of the model is used up or launches
\* are refused until a restart.  Any other state without a step would be a
\* journal nobody can move on.
Exhausted ==
    /\ used = Launch \/ fenced
    /\ pc = "idle" /\ session = "free"
    /\ UNCHANGED jvars

-----------------------------------------------------------------------------
Procedure ==
    \/ Persist \/ Seats \/ StartUnit \/ ObserveLaunch \/ ExitMark \/ DropFailedLaunch
    \/ StopMark \/ FailMark \/ FailClear
    \/ EndSeats \/ HooksTurn \/ JournalResult \/ RunHook \/ AcknowledgeHook \/ AfterHooks
    \/ ReplaceByCompletion \/ PutSnapshot \/ RecordPlay \/ ClearRecord

Observe == ObserveEnd \/ Recover

Next ==
    \/ \E l \in Launch : Prepare(l) \/ UnitEnds(l)
    \/ BeginStop \/ Observe \/ Procedure
    \/ StepFails \/ LoseSeats \/ Crash \/ Reboot \/ Exhausted

Spec == Init /\ [][Next]_jvars

\* The procedure under the lock runs on, the portal watcher polls the session
\* every second, and a game ends some day.
FairSpec == Spec /\ WF_jvars(Procedure) /\ WF_jvars(Observe)
                 /\ \A l \in Launch : WF_jvars(UnitEnds(l))

-----------------------------------------------------------------------------
(* Properties *)

\* A session is logged at most once, however often its completion is replayed.
OnePlay ==
    \A p, q \in log : p[1] = q[1] => p = q

\* A session the player had is never forgotten: until its play is logged, the
\* journal names it.
PlayIsKept ==
    \A l \in delivered \ Anonymous :
        (\E e \in log : e[1] = l) \/ (record # None /\ record.launch = l)

\* Exactly one play for every session the player had, wherever korrid dies or a
\* step of the completion fails: never a second one, and none lost.
PlayExactlyOnce == OnePlay /\ PlayIsKept

\* The snapshot of a session is stored before its play is logged, and it is
\* the one captured with that play.
SaveBeforePlay ==
    \A e \in log : e[1] \in Saving => e \in saves

\* A completion record means every after-hook of this boot has run.
HooksBeforeCompletion ==
    record.phase = "pending" /\ record.boot = boot => hooked[record.launch] = Steps

\* A live session whose unit failed is never reported to its after-hooks as
\* having exited, wherever korrid dies on the way.
FailureIsHeard ==
    \A l \in failed \cap delivered : "exited" \notin told[l]

\* What the completion of a session tells others is true after any crash: a play
\* has its snapshot, a completion record has its hooks, a failure is not an exit.
CompletionIsHonest == SaveBeforePlay /\ HooksBeforeCompletion /\ FailureIsHeard

\* A running unit always has its running record: no crash and no failing step
\* leaves a game korrid does not know of.
NoOrphanUnit ==
    \A l \in Live : record.phase = "running" /\ record.launch = l

Names(l) == record # None /\ record.launch = l

\* What the journal names leaves it once its game has ended, unless korrid is
\* fenced: then it stays until the restart that lifts the fence, after which it
\* leaves.  A failing ExitMark leaves a record behind a free session: the next
\* launch or restart meets it and recovers, so it stays only if neither comes.
JournalDrains ==
    \A l \in Launch :
        Names(l) ~> (~Names(l) \/ fenced \/ [](session = "free" /\ pc = "idle"))

-----------------------------------------------------------------------------
(* Statements of the source that the model refutes; no passing run checks   *)
(* them.  The README says what happens.                                     *)

\* "No play is recorded for a launch the player never received": every logged
\* launch has had a running unit.
NoPhantomPlay ==
    \A e \in log : e[1] \in ran

\* "A crash at any boundary therefore keeps either a recoverable running record
\* or a replayable completion record": no temporary blocks recovery while a
\* unit is live.
CrashKeepsRecoverable ==
    ~(session = "recovering" /\ temp /\ Live # {})

\* "Journal the result before releasing its diagnostic source": no failed unit
\* is ever reported as exited.
ResultBeforeRelease ==
    \A l \in failed : "exited" \notin told[l]
==============================================================================
