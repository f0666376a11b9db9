------------------------ MODULE SessionJournalProofs ------------------------
(***************************************************************************)
(* Proofs about SessionJournal for any launches, any number of hook steps, *)
(* and any number of failing steps, crashes and reboots.                   *)
(***************************************************************************)
EXTENDS SessionJournal, TLAPS

-----------------------------------------------------------------------------
(* The inductive invariant *)

\* A launch that nothing has happened to yet.
Fresh(l) ==
    /\ unit[l] = "absent" /\ l \notin ran
    /\ hooked[l] = 0 /\ told[l] = {}
    /\ \A e \in log : e[1] # l

\* Where the procedure stands.
Preparing == {"seats", "launch", "observe", "exitMark", "dropFailed"}
Marking   == {"stopMark", "exitMark", "failMark", "failClear", "journal", "run", "ack"}
Completing == {"put", "log", "clear"}
Hooking   == {"end", "hooks", "journal", "run", "ack", "after", "consume"}
Ending    == {"exitMark", "failMark", "failClear", "dropFailed", "replace"}
             \cup Hooking \cup Completing
Busy      == Preparing \cup Marking \cup Ending

\* A launch that was not given out is fresh, and so is one that is about to be
\* journaled; a journaled one was given out.
FreshLaunches ==
    /\ \A l \in Launch \ used : Fresh(l)
    /\ record # None => record.launch \in used
    /\ pc = "persist" =>
         /\ mem \in Record /\ mem = Running(mem.launch)
         /\ mem.launch \in used /\ Fresh(mem.launch)
         /\ record # None => record.launch # mem.launch
    /\ pc \in {"seats", "launch"} => Fresh(record.launch)

\* No record is of a later boot.
Boots ==
    /\ boot <= crashes + 1
    /\ record # None => record.boot <= boot

\* The procedure holds the journaled session in memory, in the same phase
\* except while it turns it into a completion.
HoldsRecord ==
    /\ pc \in Busy => /\ record \in Record /\ mem \in Record
                      /\ mem.launch = record.launch /\ mem.boot = record.boot
    /\ pc \in Preparing \cup Marking =>
         record.phase = "running" /\ mem.phase = "running"
    /\ pc = "replace" => record.phase = "running" /\ mem.phase = "pending"
    /\ pc \in Completing => record.phase = "pending"
    /\ pc \in {"end", "hooks", "after"} => mem.phase = record.phase
    /\ pc \in {"failClear", "run"} => mem = record
    /\ pc \in Hooking \cup Completing /\ record.phase = "pending" => mem = record
    /\ pc \in {"journal", "run"} => mem.left > 0 /\ mem.boot = boot

\* A live unit is named by the running record; nobody ends a session whose unit
\* runs, and a free session has none.
UnitsAgree ==
    /\ NoOrphanUnit
    /\ pc \in Ending => unit[record.launch] # "running"
    /\ pc \in Preparing \cup {"persist"} => session = "free"
    /\ pc = "idle" /\ session = "live" => record.phase = "running"
    /\ \A l \in Live : l \in ran /\ l \notin failed /\ told[l] = {}

\* What is logged belongs to the completion record, and nothing is consumed that
\* a player had.
PlaysAgree ==
    /\ record # None =>
         \A e \in log : e[1] = record.launch => record.phase = "pending" /\ e[2] = record.entry
    /\ pc = "log" /\ mem.launch \in Saving => <<mem.launch, mem.entry>> \in saves
    /\ pc = "clear" => <<mem.launch, mem.entry>> \in log
    /\ pc \in {"failMark", "failClear"} => mode = "complete"
    /\ pc \in Preparing => record.launch \notin delivered
    /\ pc \in Hooking /\ mode = "discard" => record.launch \notin delivered
    /\ pc = "consume" /\ mode # "discard" => record.launch \in Anonymous

\* A record counts the hook steps that have run: none is skipped.
HooksCounted ==
    /\ record # None => hooked[record.launch] >= Steps - record.left
    /\ pc \in Busy => hooked[mem.launch] >= Steps - mem.left
    /\ pc = "after" /\ mem.phase = "running" => mem.left = 0 \/ mem.boot # boot
    /\ HooksBeforeCompletion
    /\ pc = "replace" /\ mem.boot = boot => hooked[mem.launch] = Steps

\* r has hooks of this boot to run, for a session that failed.
FailedSession(r) ==
    /\ r.phase = "running" /\ r.boot = boot /\ r.left > 0
    /\ r.launch \in failed \cap delivered

\* Until the hooks have heard of a failure its unit witnesses it or the record says so.
FailureIsWitnessed ==
    /\ record # None /\ FailedSession(record) =>
         unit[record.launch] = "failed" \/ record.result \in {"failed", "stopped"}
    /\ pc = "stopMark" /\ mem.left > 0 => mem.result = "stopped"
    /\ pc \in {"failMark", "failClear"} /\ mem.left > 0 => mem.result \in {"failed", "stopped"}
    /\ pc \in Hooking /\ FailedSession(mem) => mem.result \in {"failed", "stopped"}

IInv ==
    /\ TypeOK
    /\ FreshLaunches /\ Boots /\ HoldsRecord /\ UnitsAgree
    /\ PlaysAgree /\ OnePlay /\ PlayIsKept /\ SaveBeforePlay
    /\ HooksCounted
    /\ FailureIsWitnessed /\ FailureIsHeard

-----------------------------------------------------------------------------
(* The records *)

\* The result of a record where none is set yet.
Defaulted(r, result) ==
    [r EXCEPT !.result = IF @ = "unset" THEN result ELSE @]

\* The record after one more hook step.
Stepped(r) == [r EXCEPT !.left = @ - 1]

\* The completion record with entry n.
Completion(r, n) == [r EXCEPT !.phase = "pending", !.entry = n]

\* r and s are records that differ in the result at most.
SameSession(r, s) ==
    /\ r \in Record /\ s \in Record
    /\ r.phase = s.phase /\ r.launch = s.launch /\ r.left = s.left
    /\ r.boot = s.boot /\ r.entry = s.entry

\* The journal file of a session is never the missing file.
LEMMA RecordFields ==
  /\ None.phase = "none" /\ None \notin Record
  /\ \A r \in Record :
        /\ r # None
        /\ r.phase \in {"running", "pending"} /\ r.launch \in Launch
        /\ r.result \in Result /\ r.left \in 0..Steps
        /\ r.boot \in 1..(MaxCrashes + 1) /\ r.entry \in Nat
  BY DEF None, Record

\* Noting a result changes nothing else of a record.
LEMMA DefaultedSession ==
  ASSUME NEW r \in Record, NEW x \in Result
  PROVE  /\ SameSession(Defaulted(r, x), r)
         /\ Defaulted(r, x).result = IF r.result = "unset" THEN x ELSE r.result
<1> DEFINE y == IF r.result = "unset" THEN x ELSE r.result
<1>1. Defaulted(r, x) = [r EXCEPT !.result = y] /\ y \in Result
  BY DEF Defaulted, Record
<1> HIDE DEF y
<1>2. SameSession([r EXCEPT !.result = y], r) /\ [r EXCEPT !.result = y].result = y
  BY <1>1 DEF SameSession, Record
<1> QED
  BY <1>1, <1>2 DEF y

\* mark_hook_result keeps a stop, and marks only a record that has hooks.
LEMMA MarkedSession ==
  ASSUME NEW r \in Record, NEW x \in Result
  PROVE  /\ SameSession(Marked(r, x), r)
         /\ Marked(r, x).result =
              IF Steps > 0 /\ r.phase = "running" /\ r.result # "stopped" THEN x ELSE r.result
<1> DEFINE y == IF Steps > 0 /\ r.phase = "running" /\ r.result # "stopped" THEN x ELSE r.result
<1>1. Marked(r, x) = [r EXCEPT !.result = y] /\ y \in Result
  BY DEF Marked, Record
<1> HIDE DEF y
<1>2. SameSession([r EXCEPT !.result = y], r) /\ [r EXCEPT !.result = y].result = y
  BY <1>1 DEF SameSession, Record
<1> QED
  BY <1>1, <1>2 DEF y

\* A hook step only lowers the count of the steps left.
LEMMA SteppedSession ==
  ASSUME NEW r \in Record, r.left \in 1..Steps
  PROVE  LET s == Stepped(r) IN
         /\ s \in Record /\ s.left = r.left - 1 /\ s.phase = r.phase
         /\ s.launch = r.launch /\ s.result = r.result
         /\ s.boot = r.boot /\ s.entry = r.entry
<1> DEFINE x == r.left - 1
<1>1. x \in 0..Steps
  BY JournalConstants
<1>2. Stepped(r) = [r EXCEPT !.left = x]
  BY DEF Stepped
<1> HIDE DEF x
<1>3. LET s == [r EXCEPT !.left = x] IN
         /\ s \in Record /\ s.left = x /\ s.phase = r.phase
         /\ s.launch = r.launch /\ s.result = r.result
         /\ s.boot = r.boot /\ s.entry = r.entry
  BY <1>1 DEF Record
<1> QED
  BY <1>2, <1>3 DEF x

\* A completion record is of the session it was captured from.
LEMMA CompletionSession ==
  ASSUME NEW r \in Record, NEW n \in Nat
  PROVE  LET s == Completion(r, n) IN
         /\ s \in Record /\ s.phase = "pending" /\ s.entry = n
         /\ s.launch = r.launch /\ s.result = r.result
         /\ s.boot = r.boot /\ s.left = r.left
  BY DEF Record, Completion

-----------------------------------------------------------------------------
(* The steps under the session lock *)

\* The record of a fresh launch becomes durable, or recovery is called for.
LEMMA PersistIInv == IInv /\ Persist => IInv'
<1> SUFFICES ASSUME IInv, Persist PROVE IInv'
  OBVIOUS
<1> USE JournalConstants, RecordFields, DefaultedSession, MarkedSession
    DEF IInv, Persist, durable, volatile, history, Running, Result, Writing,
        SameSession,
        Preparing, Marking, Completing, Hooking, Ending, Busy
<1>1. TypeOK'
  BY DEF TypeOK, ProgramCounter, FreshLaunches, Boots, UnitsAgree, Live
<1>2. (FreshLaunches /\ Boots)'
  BY DEF TypeOK, HoldsRecord, FreshLaunches, Boots, Fresh
<1>3. HoldsRecord'
  BY DEF TypeOK, HoldsRecord, FreshLaunches, UnitsAgree
<1>4. UnitsAgree'
  BY DEF TypeOK, HoldsRecord, UnitsAgree, NoOrphanUnit, Live, FreshLaunches, Fresh
<1>5. (PlaysAgree /\ OnePlay /\ PlayIsKept /\ SaveBeforePlay)'
  BY DEF TypeOK, HoldsRecord, PlaysAgree, OnePlay, PlayIsKept, SaveBeforePlay,
     FreshLaunches, UnitsAgree, Fresh
<1>6. HooksCounted'
  BY DEF TypeOK, HoldsRecord, HooksCounted, HooksBeforeCompletion, Boots, FreshLaunches
<1>7. (FailureIsWitnessed /\ FailureIsHeard)'
  BY DEF TypeOK, HoldsRecord, FailureIsWitnessed, FailedSession, FailureIsHeard,
     PlaysAgree, UnitsAgree, NoOrphanUnit, Live, FreshLaunches, Fresh, Boots
<1> QED
  BY <1>1, <1>2, <1>3, <1>4, <1>5, <1>6, <1>7

\* A refused launch keeps its record and discards it.
LEMMA SeatsIInv == IInv /\ Seats => IInv'
<1> SUFFICES ASSUME IInv, Seats PROVE IInv'
  OBVIOUS
<1> USE JournalConstants, RecordFields, DefaultedSession, MarkedSession
    DEF IInv, Seats, durable, volatile, history, Running, Result, Writing,
        SameSession,
        Preparing, Marking, Completing, Hooking, Ending, Busy
<1>1. mem' = mem \/ mem' = Defaulted(record, "failed")
  BY DEF Defaulted
<1>2. record \in Record /\ mem \in Record
  BY DEF HoldsRecord
<1>3. TypeOK'
  BY <1>1, <1>2 DEF TypeOK, ProgramCounter, FreshLaunches, Boots, UnitsAgree, Live
<1>4. (FreshLaunches /\ Boots)'
  BY <1>1, <1>2 DEF TypeOK, HoldsRecord, FreshLaunches, Boots, Fresh
<1>5. HoldsRecord'
  BY <1>1, <1>2 DEF TypeOK, HoldsRecord, FreshLaunches, UnitsAgree
<1>6. UnitsAgree'
  BY <1>1, <1>2 DEF TypeOK, HoldsRecord, UnitsAgree, NoOrphanUnit, Live, FreshLaunches,
     Fresh
<1>7. (PlaysAgree /\ OnePlay /\ PlayIsKept /\ SaveBeforePlay)'
  BY <1>1, <1>2 DEF TypeOK, HoldsRecord, PlaysAgree, OnePlay, PlayIsKept,
     SaveBeforePlay, FreshLaunches, UnitsAgree, Fresh
<1>8. HooksCounted'
  BY <1>1, <1>2 DEF TypeOK, HoldsRecord, HooksCounted, HooksBeforeCompletion, Boots,
     FreshLaunches
<1>9. (FailureIsWitnessed /\ FailureIsHeard)'
  BY <1>1, <1>2 DEF TypeOK, HoldsRecord, FailureIsWitnessed, FailedSession,
     FailureIsHeard, PlaysAgree, UnitsAgree, NoOrphanUnit, Live, FreshLaunches, Fresh,
     Boots
<1> QED
  BY <1>3, <1>4, <1>5, <1>6, <1>7, <1>8, <1>9

\* The unit that starts is the journaled one.
LEMMA StartUnitIInv == IInv /\ StartUnit => IInv'
<1> SUFFICES ASSUME IInv, StartUnit PROVE IInv'
  OBVIOUS
<1> USE JournalConstants, RecordFields, DefaultedSession, MarkedSession
    DEF IInv, StartUnit, durable, volatile, history, Running, Result, Writing,
        SameSession,
        Preparing, Marking, Completing, Hooking, Ending, Busy
<1>1. mem' = mem \/ mem' = Defaulted(record, "failed")
  BY DEF Defaulted
<1>2. record \in Record /\ mem \in Record
  BY DEF HoldsRecord
<1>3. TypeOK'
  BY <1>1, <1>2 DEF TypeOK, ProgramCounter, FreshLaunches, Boots, UnitsAgree, Live
<1>4. (FreshLaunches /\ Boots)'
  BY <1>1, <1>2 DEF TypeOK, HoldsRecord, FreshLaunches, Boots, Fresh
<1>5. HoldsRecord'
  BY <1>1, <1>2 DEF TypeOK, HoldsRecord, FreshLaunches, UnitsAgree
<1>6. UnitsAgree'
  BY <1>1, <1>2 DEF TypeOK, HoldsRecord, UnitsAgree, NoOrphanUnit, Live, FreshLaunches,
     Fresh
<1>7. (PlaysAgree /\ OnePlay /\ PlayIsKept /\ SaveBeforePlay)'
  BY <1>1, <1>2 DEF TypeOK, HoldsRecord, PlaysAgree, OnePlay, PlayIsKept,
     SaveBeforePlay, FreshLaunches, UnitsAgree, Fresh
<1>8. HooksCounted'
  BY <1>1, <1>2 DEF TypeOK, HoldsRecord, HooksCounted, HooksBeforeCompletion, Boots,
     FreshLaunches
<1>9. (FailureIsWitnessed /\ FailureIsHeard)'
  BY <1>1, <1>2 DEF TypeOK, HoldsRecord, FailureIsWitnessed, FailedSession,
     FailureIsHeard, PlaysAgree, UnitsAgree, NoOrphanUnit, Live, FreshLaunches, Fresh,
     Boots
<1> QED
  BY <1>3, <1>4, <1>5, <1>6, <1>7, <1>8, <1>9

\* The first observation delivers a unit that runs.
LEMMA ObserveLaunchIInv == IInv /\ ObserveLaunch => IInv'
<1> SUFFICES ASSUME IInv, ObserveLaunch PROVE IInv'
  OBVIOUS
<1>1. record \in Record /\ mem \in Record
  BY DEF ObserveLaunch, IInv, HoldsRecord, Preparing, Busy
<1>2. record.launch \in Launch /\ unit[record.launch] \in {"absent", "running", "failed"}
  BY <1>1, RecordFields DEF IInv, TypeOK
<1>3. \/ /\ unit[record.launch] = "running" /\ session' = "live" /\ pc' = "idle"
         /\ delivered' = delivered \cup {record.launch} /\ UNCHANGED mem
      \/ /\ unit[record.launch] = "absent" /\ pc' = "exitMark"
         /\ mem' = Marked(record, "exited") /\ UNCHANGED <<session, delivered>>
      \/ /\ unit[record.launch] = "failed" /\ pc' = "dropFailed"
         /\ UNCHANGED <<mem, session, delivered>>
  <2>1. CASE unit[record.launch] = "running"
    BY <2>1 DEF ObserveLaunch
  <2>2. CASE unit[record.launch] = "absent"
    BY <2>2 DEF ObserveLaunch
  <2>3. CASE unit[record.launch] = "failed"
    BY <2>3 DEF ObserveLaunch
  <2> QED
    BY <1>2, <2>1, <2>2, <2>3
<1>4. /\ pc = "observe"
       /\ UNCHANGED <<durable, unit, boot, fenced, mode, captures, faults, crashes, used, ran, failed,
                      hooked, told>>
  BY DEF ObserveLaunch
<1> USE JournalConstants, RecordFields, MarkedSession, <1>4
    DEF IInv, durable, Result, SameSession,
        Preparing, Marking, Completing, Hooking, Ending, Busy
<1>5. TypeOK'
  BY <1>1, <1>2, <1>3 DEF TypeOK, ProgramCounter, FreshLaunches, Boots, UnitsAgree, Live
<1>6. (FreshLaunches /\ Boots)'
  BY <1>1, <1>2, <1>3 DEF TypeOK, HoldsRecord, FreshLaunches, Boots, Fresh
<1>7. HoldsRecord'
  BY <1>1, <1>2, <1>3 DEF TypeOK, HoldsRecord, FreshLaunches, UnitsAgree
<1>8. UnitsAgree'
  BY <1>1, <1>2, <1>3 DEF TypeOK, HoldsRecord, UnitsAgree, NoOrphanUnit, Live,
     FreshLaunches, Fresh
<1>9. (PlaysAgree /\ OnePlay /\ PlayIsKept /\ SaveBeforePlay)'
  BY <1>1, <1>2, <1>3 DEF TypeOK, HoldsRecord, PlaysAgree, OnePlay, PlayIsKept,
     SaveBeforePlay, FreshLaunches, UnitsAgree, Fresh
<1>10. HooksCounted'
  BY <1>1, <1>2, <1>3 DEF TypeOK, HoldsRecord, HooksCounted, HooksBeforeCompletion,
     Boots, FreshLaunches
<1>11. (FailureIsWitnessed /\ FailureIsHeard)'
  BY <1>1, <1>2, <1>3 DEF TypeOK, HoldsRecord, FailureIsWitnessed, FailedSession,
     FailureIsHeard, PlaysAgree, UnitsAgree, NoOrphanUnit, Live, FreshLaunches, Fresh,
     Boots
<1> QED
  BY <1>5, <1>6, <1>7, <1>8, <1>9, <1>10, <1>11

\* An exit before delivery is journaled and discarded.
LEMMA ExitMarkIInv == IInv /\ ExitMark => IInv'
<1> SUFFICES ASSUME IInv, ExitMark PROVE IInv'
  OBVIOUS
<1> USE JournalConstants, RecordFields, DefaultedSession, MarkedSession
    DEF IInv, ExitMark, durable, volatile, history, Running, Result, Writing,
        SameSession,
        Preparing, Marking, Completing, Hooking, Ending, Busy
<1>1. TypeOK'
  BY DEF TypeOK, ProgramCounter, FreshLaunches, Boots, UnitsAgree, Live
<1>2. (FreshLaunches /\ Boots)'
  BY DEF TypeOK, HoldsRecord, FreshLaunches, Boots, Fresh
<1>3. HoldsRecord'
  BY DEF TypeOK, HoldsRecord, FreshLaunches, UnitsAgree
<1>4. UnitsAgree'
  BY DEF TypeOK, HoldsRecord, UnitsAgree, NoOrphanUnit, Live, FreshLaunches, Fresh
<1>5. (PlaysAgree /\ OnePlay /\ PlayIsKept /\ SaveBeforePlay)'
  BY DEF TypeOK, HoldsRecord, PlaysAgree, OnePlay, PlayIsKept, SaveBeforePlay,
     FreshLaunches, UnitsAgree, Fresh
<1>6. HooksCounted'
  BY DEF TypeOK, HoldsRecord, HooksCounted, HooksBeforeCompletion, Boots, FreshLaunches
<1>7. (FailureIsWitnessed /\ FailureIsHeard)'
  BY DEF TypeOK, HoldsRecord, FailureIsWitnessed, FailedSession, FailureIsHeard,
     PlaysAgree, UnitsAgree, NoOrphanUnit, Live, FreshLaunches, Fresh, Boots
<1> QED
  BY <1>1, <1>2, <1>3, <1>4, <1>5, <1>6, <1>7

\* A failed launch is released and discarded.
LEMMA DropFailedLaunchIInv == IInv /\ DropFailedLaunch => IInv'
<1> SUFFICES ASSUME IInv, DropFailedLaunch PROVE IInv'
  OBVIOUS
<1> USE JournalConstants, RecordFields, DefaultedSession, MarkedSession
    DEF IInv, DropFailedLaunch, durable, volatile, history, Running, Result, Writing,
        SameSession,
        Preparing, Marking, Completing, Hooking, Ending, Busy
<1>1. mem' = Defaulted(record, "failed")
  BY DEF Defaulted
<1>2. record \in Record /\ mem \in Record
  BY DEF HoldsRecord
<1>3. TypeOK'
  BY <1>1, <1>2 DEF TypeOK, ProgramCounter, FreshLaunches, Boots, UnitsAgree, Live
<1>4. (FreshLaunches /\ Boots)'
  BY <1>1, <1>2 DEF TypeOK, HoldsRecord, FreshLaunches, Boots, Fresh
<1>5. HoldsRecord'
  BY <1>1, <1>2 DEF TypeOK, HoldsRecord, FreshLaunches, UnitsAgree
<1>6. UnitsAgree'
  BY <1>1, <1>2 DEF TypeOK, HoldsRecord, UnitsAgree, NoOrphanUnit, Live, FreshLaunches,
     Fresh
<1>7. (PlaysAgree /\ OnePlay /\ PlayIsKept /\ SaveBeforePlay)'
  BY <1>1, <1>2 DEF TypeOK, HoldsRecord, PlaysAgree, OnePlay, PlayIsKept,
     SaveBeforePlay, FreshLaunches, UnitsAgree, Fresh
<1>8. HooksCounted'
  BY <1>1, <1>2 DEF TypeOK, HoldsRecord, HooksCounted, HooksBeforeCompletion, Boots,
     FreshLaunches
<1>9. (FailureIsWitnessed /\ FailureIsHeard)'
  BY <1>1, <1>2 DEF TypeOK, HoldsRecord, FailureIsWitnessed, FailedSession,
     FailureIsHeard, PlaysAgree, UnitsAgree, NoOrphanUnit, Live, FreshLaunches, Fresh,
     Boots
<1> QED
  BY <1>3, <1>4, <1>5, <1>6, <1>7, <1>8, <1>9

\* A stop is noted for the running session.
LEMMA BeginStopIInv == IInv /\ BeginStop => IInv'
<1> SUFFICES ASSUME IInv, BeginStop PROVE IInv'
  OBVIOUS
<1> USE JournalConstants, RecordFields, DefaultedSession, MarkedSession
    DEF IInv, BeginStop, durable, volatile, history, Running, Result, Writing,
        SameSession,
        Preparing, Marking, Completing, Hooking, Ending, Busy
<1>1. record \in Record
  BY DEF TypeOK, UnitsAgree
<1>2. TypeOK'
  BY <1>1 DEF TypeOK, ProgramCounter, FreshLaunches, Boots, UnitsAgree, Live
<1>3. (FreshLaunches /\ Boots)'
  BY <1>1 DEF TypeOK, HoldsRecord, FreshLaunches, Boots, Fresh
<1>4. HoldsRecord'
  BY <1>1 DEF TypeOK, HoldsRecord, FreshLaunches, UnitsAgree
<1>5. UnitsAgree'
  BY <1>1 DEF TypeOK, HoldsRecord, UnitsAgree, NoOrphanUnit, Live, FreshLaunches, Fresh
<1>6. (PlaysAgree /\ OnePlay /\ PlayIsKept /\ SaveBeforePlay)'
  BY <1>1 DEF TypeOK, HoldsRecord, PlaysAgree, OnePlay, PlayIsKept, SaveBeforePlay,
     FreshLaunches, UnitsAgree, Fresh
<1>7. HooksCounted'
  BY <1>1 DEF TypeOK, HoldsRecord, HooksCounted, HooksBeforeCompletion, Boots, FreshLaunches
<1>8. (FailureIsWitnessed /\ FailureIsHeard)'
  BY <1>1 DEF TypeOK, HoldsRecord, FailureIsWitnessed, FailedSession, FailureIsHeard,
     PlaysAgree, UnitsAgree, NoOrphanUnit, Live, FreshLaunches, Fresh, Boots
<1> QED
  BY <1>2, <1>3, <1>4, <1>5, <1>6, <1>7, <1>8

\* The stop is durable before the unit is asked to end.
LEMMA StopMarkIInv == IInv /\ StopMark => IInv'
<1> SUFFICES ASSUME IInv, StopMark PROVE IInv'
  OBVIOUS
<1> USE JournalConstants, RecordFields, DefaultedSession, MarkedSession
    DEF IInv, StopMark, durable, volatile, history, Running, Result, Writing,
        SameSession,
        Preparing, Marking, Completing, Hooking, Ending, Busy
<1>1. TypeOK'
  BY DEF TypeOK, ProgramCounter, FreshLaunches, Boots, UnitsAgree, Live
<1>2. (FreshLaunches /\ Boots)'
  BY DEF TypeOK, HoldsRecord, FreshLaunches, Boots, Fresh
<1>3. HoldsRecord'
  BY DEF TypeOK, HoldsRecord, FreshLaunches, UnitsAgree
<1>4. UnitsAgree'
  BY DEF TypeOK, HoldsRecord, UnitsAgree, NoOrphanUnit, Live, FreshLaunches, Fresh
<1>5. (PlaysAgree /\ OnePlay /\ PlayIsKept /\ SaveBeforePlay)'
  BY DEF TypeOK, HoldsRecord, PlaysAgree, OnePlay, PlayIsKept, SaveBeforePlay,
     FreshLaunches, UnitsAgree, Fresh
<1>6. HooksCounted'
  BY DEF TypeOK, HoldsRecord, HooksCounted, HooksBeforeCompletion, Boots, FreshLaunches
<1>7. (FailureIsWitnessed /\ FailureIsHeard)'
  BY DEF TypeOK, HoldsRecord, FailureIsWitnessed, FailedSession, FailureIsHeard,
     PlaysAgree, UnitsAgree, NoOrphanUnit, Live, FreshLaunches, Fresh, Boots
<1> QED
  BY <1>1, <1>2, <1>3, <1>4, <1>5, <1>6, <1>7

\* A session is ended only when its unit is gone or failed.
LEMMA ObserveEndIInv == IInv /\ ObserveEnd => IInv'
<1> SUFFICES ASSUME IInv, ObserveEnd PROVE IInv'
  OBVIOUS
<1>1. \/ unit[record.launch] = "absent" /\ pc' = "end" /\ mem' = record
      \/ /\ unit[record.launch] = "failed" /\ pc' = "failMark"
         /\ mem' = Marked(record, "failed")
  <2>1. CASE unit[record.launch] = "absent"
    BY <2>1 DEF ObserveEnd
  <2>2. CASE unit[record.launch] = "failed"
    BY <2>2 DEF ObserveEnd
  <2> QED
    BY <2>1, <2>2 DEF ObserveEnd
<1>2. record \in Record
  BY RecordFields DEF ObserveEnd, IInv, TypeOK, UnitsAgree
<1>3. /\ pc = "idle" /\ session = "live" /\ mode' = "complete"
       /\ UNCHANGED <<durable, unit, boot, fenced, session, captures, faults, crashes, history>>
  BY DEF ObserveEnd
<1> USE JournalConstants, RecordFields, MarkedSession, <1>3
    DEF IInv, durable, history, Result, SameSession,
        Preparing, Marking, Completing, Hooking, Ending, Busy
<1>4. TypeOK'
  BY <1>1, <1>2 DEF TypeOK, ProgramCounter, FreshLaunches, Boots, UnitsAgree, Live
<1>5. (FreshLaunches /\ Boots)'
  BY <1>1, <1>2 DEF TypeOK, HoldsRecord, FreshLaunches, Boots, Fresh
<1>6. HoldsRecord'
  BY <1>1, <1>2 DEF TypeOK, HoldsRecord, FreshLaunches, UnitsAgree
<1>7. UnitsAgree'
  BY <1>1, <1>2 DEF TypeOK, HoldsRecord, UnitsAgree, NoOrphanUnit, Live, FreshLaunches,
     Fresh
<1>8. (PlaysAgree /\ OnePlay /\ PlayIsKept /\ SaveBeforePlay)'
  BY <1>1, <1>2 DEF TypeOK, HoldsRecord, PlaysAgree, OnePlay, PlayIsKept,
     SaveBeforePlay, FreshLaunches, UnitsAgree, Fresh
<1>9. HooksCounted'
  BY <1>1, <1>2 DEF TypeOK, HoldsRecord, HooksCounted, HooksBeforeCompletion, Boots,
     FreshLaunches
<1>10. (FailureIsWitnessed /\ FailureIsHeard)'
  BY <1>1, <1>2 DEF TypeOK, HoldsRecord, FailureIsWitnessed, FailedSession,
     FailureIsHeard, PlaysAgree, UnitsAgree, NoOrphanUnit, Live, FreshLaunches, Fresh,
     Boots
<1> QED
  BY <1>4, <1>5, <1>6, <1>7, <1>8, <1>9, <1>10

\* The failure is durable before its unit is released.
LEMMA FailMarkIInv == IInv /\ FailMark => IInv'
<1> SUFFICES ASSUME IInv, FailMark PROVE IInv'
  OBVIOUS
<1> USE JournalConstants, RecordFields, DefaultedSession, MarkedSession
    DEF IInv, FailMark, durable, volatile, history, Running, Result, Writing,
        SameSession,
        Preparing, Marking, Completing, Hooking, Ending, Busy
<1>1. TypeOK'
  BY DEF TypeOK, ProgramCounter, FreshLaunches, Boots, UnitsAgree, Live
<1>2. (FreshLaunches /\ Boots)'
  BY DEF TypeOK, HoldsRecord, FreshLaunches, Boots, Fresh
<1>3. HoldsRecord'
  BY DEF TypeOK, HoldsRecord, FreshLaunches, UnitsAgree
<1>4. UnitsAgree'
  BY DEF TypeOK, HoldsRecord, UnitsAgree, NoOrphanUnit, Live, FreshLaunches, Fresh
<1>5. (PlaysAgree /\ OnePlay /\ PlayIsKept /\ SaveBeforePlay)'
  BY DEF TypeOK, HoldsRecord, PlaysAgree, OnePlay, PlayIsKept, SaveBeforePlay,
     FreshLaunches, UnitsAgree, Fresh
<1>6. HooksCounted'
  BY DEF TypeOK, HoldsRecord, HooksCounted, HooksBeforeCompletion, Boots, FreshLaunches
<1>7. (FailureIsWitnessed /\ FailureIsHeard)'
  BY DEF TypeOK, HoldsRecord, FailureIsWitnessed, FailedSession, FailureIsHeard,
     PlaysAgree, UnitsAgree, NoOrphanUnit, Live, FreshLaunches, Fresh, Boots
<1> QED
  BY <1>1, <1>2, <1>3, <1>4, <1>5, <1>6, <1>7

\* The released unit's failure is in the record.
LEMMA FailClearIInv == IInv /\ FailClear => IInv'
<1> SUFFICES ASSUME IInv, FailClear PROVE IInv'
  OBVIOUS
<1> USE JournalConstants, RecordFields, DefaultedSession, MarkedSession
    DEF IInv, FailClear, durable, volatile, history, Running, Result, Writing,
        SameSession,
        Preparing, Marking, Completing, Hooking, Ending, Busy
<1>1. TypeOK'
  BY DEF TypeOK, ProgramCounter, FreshLaunches, Boots, UnitsAgree, Live
<1>2. (FreshLaunches /\ Boots)'
  BY DEF TypeOK, HoldsRecord, FreshLaunches, Boots, Fresh
<1>3. HoldsRecord'
  BY DEF TypeOK, HoldsRecord, FreshLaunches, UnitsAgree
<1>4. UnitsAgree'
  BY DEF TypeOK, HoldsRecord, UnitsAgree, NoOrphanUnit, Live, FreshLaunches, Fresh
<1>5. (PlaysAgree /\ OnePlay /\ PlayIsKept /\ SaveBeforePlay)'
  BY DEF TypeOK, HoldsRecord, PlaysAgree, OnePlay, PlayIsKept, SaveBeforePlay,
     FreshLaunches, UnitsAgree, Fresh
<1>6. HooksCounted'
  BY DEF TypeOK, HoldsRecord, HooksCounted, HooksBeforeCompletion, Boots, FreshLaunches
<1>7. (FailureIsWitnessed /\ FailureIsHeard)'
  BY DEF TypeOK, HoldsRecord, FailureIsWitnessed, FailedSession, FailureIsHeard,
     PlaysAgree, UnitsAgree, NoOrphanUnit, Live, FreshLaunches, Fresh, Boots
<1> QED
  BY <1>1, <1>2, <1>3, <1>4, <1>5, <1>6, <1>7

\* A session that cannot be ended is left to recovery, as the journal has it.
LEMMA EndSeatsIInv == IInv /\ EndSeats => IInv'
<1> SUFFICES ASSUME IInv, EndSeats PROVE IInv'
  OBVIOUS
<1> USE JournalConstants, RecordFields, DefaultedSession, MarkedSession
    DEF IInv, EndSeats, durable, volatile, history, Running, Result, Writing,
        SameSession,
        Preparing, Marking, Completing, Hooking, Ending, Busy
<1>1. TypeOK'
  BY DEF TypeOK, ProgramCounter, FreshLaunches, Boots, UnitsAgree, Live
<1>2. (FreshLaunches /\ Boots)'
  BY DEF TypeOK, HoldsRecord, FreshLaunches, Boots, Fresh
<1>3. HoldsRecord'
  BY DEF TypeOK, HoldsRecord, FreshLaunches, UnitsAgree
<1>4. UnitsAgree'
  BY DEF TypeOK, HoldsRecord, UnitsAgree, NoOrphanUnit, Live, FreshLaunches, Fresh
<1>5. (PlaysAgree /\ OnePlay /\ PlayIsKept /\ SaveBeforePlay)'
  BY DEF TypeOK, HoldsRecord, PlaysAgree, OnePlay, PlayIsKept, SaveBeforePlay,
     FreshLaunches, UnitsAgree, Fresh
<1>6. HooksCounted'
  BY DEF TypeOK, HoldsRecord, HooksCounted, HooksBeforeCompletion, Boots, FreshLaunches
<1>7. (FailureIsWitnessed /\ FailureIsHeard)'
  BY DEF TypeOK, HoldsRecord, FailureIsWitnessed, FailedSession, FailureIsHeard,
     PlaysAgree, UnitsAgree, NoOrphanUnit, Live, FreshLaunches, Fresh, Boots
<1> QED
  BY <1>1, <1>2, <1>3, <1>4, <1>5, <1>6, <1>7

\* A turn of the hook loop decides whether a step is left.
LEMMA HooksTurnIInv == IInv /\ HooksTurn => IInv'
<1> SUFFICES ASSUME IInv, HooksTurn PROVE IInv'
  OBVIOUS
<1> USE JournalConstants, RecordFields, DefaultedSession, MarkedSession
    DEF IInv, HooksTurn, durable, volatile, history, Running, Result, Writing,
        SameSession,
        Preparing, Marking, Completing, Hooking, Ending, Busy
<1>1. mem' = mem \/ mem' = Defaulted(mem, "exited")
  BY DEF Defaulted
<1>2. record \in Record /\ mem \in Record
  BY DEF HoldsRecord
<1>3. TypeOK'
  BY <1>1, <1>2 DEF TypeOK, ProgramCounter, FreshLaunches, Boots, UnitsAgree, Live
<1>4. (FreshLaunches /\ Boots)'
  BY <1>1, <1>2 DEF TypeOK, HoldsRecord, FreshLaunches, Boots, Fresh
<1>5. HoldsRecord'
  BY <1>1, <1>2 DEF TypeOK, HoldsRecord, FreshLaunches, UnitsAgree
<1>6. UnitsAgree'
  BY <1>1, <1>2 DEF TypeOK, HoldsRecord, UnitsAgree, NoOrphanUnit, Live, FreshLaunches,
     Fresh
<1>7. (PlaysAgree /\ OnePlay /\ PlayIsKept /\ SaveBeforePlay)'
  BY <1>1, <1>2 DEF TypeOK, HoldsRecord, PlaysAgree, OnePlay, PlayIsKept,
     SaveBeforePlay, FreshLaunches, UnitsAgree, Fresh
<1>8. HooksCounted'
  BY <1>1, <1>2 DEF TypeOK, HoldsRecord, HooksCounted, HooksBeforeCompletion, Boots,
     FreshLaunches
<1>9. (FailureIsWitnessed /\ FailureIsHeard)'
  BY <1>1, <1>2 DEF TypeOK, HoldsRecord, FailureIsWitnessed, FailedSession,
     FailureIsHeard, PlaysAgree, UnitsAgree, NoOrphanUnit, Live, FreshLaunches, Fresh,
     Boots
<1> QED
  BY <1>3, <1>4, <1>5, <1>6, <1>7, <1>8, <1>9

\* The result a hook is told is durable first.
LEMMA JournalResultIInv == IInv /\ JournalResult => IInv'
<1> SUFFICES ASSUME IInv, JournalResult PROVE IInv'
  OBVIOUS
<1> USE JournalConstants, RecordFields, DefaultedSession, MarkedSession
    DEF IInv, JournalResult, durable, volatile, history, Running, Result, Writing,
        SameSession,
        Preparing, Marking, Completing, Hooking, Ending, Busy
<1>1. TypeOK'
  BY DEF TypeOK, ProgramCounter, FreshLaunches, Boots, UnitsAgree, Live
<1>2. (FreshLaunches /\ Boots)'
  BY DEF TypeOK, HoldsRecord, FreshLaunches, Boots, Fresh
<1>3. HoldsRecord'
  BY DEF TypeOK, HoldsRecord, FreshLaunches, UnitsAgree
<1>4. UnitsAgree'
  BY DEF TypeOK, HoldsRecord, UnitsAgree, NoOrphanUnit, Live, FreshLaunches, Fresh
<1>5. (PlaysAgree /\ OnePlay /\ PlayIsKept /\ SaveBeforePlay)'
  BY DEF TypeOK, HoldsRecord, PlaysAgree, OnePlay, PlayIsKept, SaveBeforePlay,
     FreshLaunches, UnitsAgree, Fresh
<1>6. HooksCounted'
  BY DEF TypeOK, HoldsRecord, HooksCounted, HooksBeforeCompletion, Boots, FreshLaunches
<1>7. (FailureIsWitnessed /\ FailureIsHeard)'
  BY DEF TypeOK, HoldsRecord, FailureIsWitnessed, FailedSession, FailureIsHeard,
     PlaysAgree, UnitsAgree, NoOrphanUnit, Live, FreshLaunches, Fresh, Boots
<1> QED
  BY <1>1, <1>2, <1>3, <1>4, <1>5, <1>6, <1>7

\* A hook step runs and is counted; a failed session is not told it exited.
LEMMA RunHookIInv == IInv /\ RunHook => IInv'
<1> SUFFICES ASSUME IInv, RunHook PROVE IInv'
  OBVIOUS
<1> USE JournalConstants, RecordFields, SteppedSession
    DEF IInv, RunHook, durable, volatile, history, Running, Result, Writing,
        SameSession,
        Preparing, Marking, Completing, Hooking, Ending, Busy
<1>1. record \in Record /\ mem \in Record /\ mem.left \in 1..Steps
  BY DEF HoldsRecord
<1>2. mem' = Stepped(mem)
  BY DEF Stepped
<1>3. TypeOK'
  BY <1>1, <1>2 DEF TypeOK, ProgramCounter, FreshLaunches, Boots, UnitsAgree, Live
<1>4. (FreshLaunches /\ Boots)'
  BY <1>1, <1>2 DEF TypeOK, HoldsRecord, FreshLaunches, Boots, Fresh
<1>5. HoldsRecord'
  BY <1>1, <1>2 DEF TypeOK, HoldsRecord, FreshLaunches, UnitsAgree
<1>6. UnitsAgree'
  BY <1>1, <1>2 DEF TypeOK, HoldsRecord, UnitsAgree, NoOrphanUnit, Live, FreshLaunches,
     Fresh
<1>7. (PlaysAgree /\ OnePlay /\ PlayIsKept /\ SaveBeforePlay)'
  BY <1>1, <1>2 DEF TypeOK, HoldsRecord, PlaysAgree, OnePlay, PlayIsKept,
     SaveBeforePlay, FreshLaunches, UnitsAgree, Fresh
<1>8. HooksCounted'
  BY <1>1, <1>2 DEF TypeOK, HoldsRecord, HooksCounted, HooksBeforeCompletion, Boots,
     FreshLaunches
<1>9. (FailureIsWitnessed /\ FailureIsHeard)'
  BY <1>1, <1>2 DEF TypeOK, HoldsRecord, FailureIsWitnessed, FailedSession,
     FailureIsHeard, PlaysAgree, UnitsAgree, NoOrphanUnit, Live, FreshLaunches, Fresh,
     Boots
<1> QED
  BY <1>3, <1>4, <1>5, <1>6, <1>7, <1>8, <1>9

\* The count of hook steps becomes durable.
LEMMA AcknowledgeHookIInv == IInv /\ AcknowledgeHook => IInv'
<1> SUFFICES ASSUME IInv, AcknowledgeHook PROVE IInv'
  OBVIOUS
<1> USE JournalConstants, RecordFields, DefaultedSession, MarkedSession
    DEF IInv, AcknowledgeHook, durable, volatile, history, Running, Result, Writing,
        SameSession,
        Preparing, Marking, Completing, Hooking, Ending, Busy
<1>1. TypeOK'
  BY DEF TypeOK, ProgramCounter, FreshLaunches, Boots, UnitsAgree, Live
<1>2. (FreshLaunches /\ Boots)'
  BY DEF TypeOK, HoldsRecord, FreshLaunches, Boots, Fresh
<1>3. HoldsRecord'
  BY DEF TypeOK, HoldsRecord, FreshLaunches, UnitsAgree
<1>4. UnitsAgree'
  BY DEF TypeOK, HoldsRecord, UnitsAgree, NoOrphanUnit, Live, FreshLaunches, Fresh
<1>5. (PlaysAgree /\ OnePlay /\ PlayIsKept /\ SaveBeforePlay)'
  BY DEF TypeOK, HoldsRecord, PlaysAgree, OnePlay, PlayIsKept, SaveBeforePlay,
     FreshLaunches, UnitsAgree, Fresh
<1>6. HooksCounted'
  BY DEF TypeOK, HoldsRecord, HooksCounted, HooksBeforeCompletion, Boots, FreshLaunches
<1>7. (FailureIsWitnessed /\ FailureIsHeard)'
  BY DEF TypeOK, HoldsRecord, FailureIsWitnessed, FailedSession, FailureIsHeard,
     PlaysAgree, UnitsAgree, NoOrphanUnit, Live, FreshLaunches, Fresh, Boots
<1> QED
  BY <1>1, <1>2, <1>3, <1>4, <1>5, <1>6, <1>7

\* A running record is captured when no hook of this boot is left.
LEMMA AfterHooksIInv == IInv /\ AfterHooks => IInv'
<1> SUFFICES ASSUME IInv, AfterHooks PROVE IInv'
  OBVIOUS
<1>1. record \in Record /\ mem \in Record /\ captures + 1 \in Nat
      /\ mem.phase \in {"running", "pending"} /\ mode \in {"complete", "discard"}
  BY RecordFields DEF AfterHooks, IInv, TypeOK, HoldsRecord, Hooking, Ending, Busy
<1>2. \/ /\ mode = "discard" \/ mem.launch \in Anonymous
         /\ pc' = "consume" /\ UNCHANGED <<mem, captures>>
      \/ mode # "discard" /\ mem.phase = "pending" /\ pc' = "put" /\ UNCHANGED <<mem, captures>>
      \/ /\ mem.phase = "running" /\ pc' = "replace"
         /\ captures' = captures + 1 /\ mem' \in Record /\ mem'.phase = "pending"
         /\ mem'.launch = mem.launch /\ mem'.boot = mem.boot /\ mem'.left = mem.left
  <2>1. CASE mode = "discard" \/ (mem.phase = "running" /\ mem.launch \in Anonymous)
    BY <2>1 DEF AfterHooks
  <2>2. CASE mode = "complete" /\ mem.phase = "pending"
    BY <2>2 DEF AfterHooks
  <2>3. CASE mode = "complete" /\ mem.phase = "running" /\ mem.launch \notin Anonymous
    <3>1. mem' = Completion(mem, captures + 1) /\ pc' = "replace" /\ captures' = captures + 1
      BY <2>3 DEF AfterHooks, Completion
    <3> QED
      BY <1>1, <2>3, <3>1, CompletionSession
  <2> QED
    BY <1>1, <2>1, <2>2, <2>3
<1>3. /\ pc = "after"
       /\ UNCHANGED <<durable, unit, boot, fenced, mode, session, faults, crashes, history>>
  BY DEF AfterHooks
<1> USE JournalConstants, RecordFields, <1>3
    DEF IInv, durable, history, Result, Preparing, Marking, Completing, Hooking, Ending, Busy
<1>4. TypeOK'
  BY <1>1, <1>2 DEF TypeOK, ProgramCounter, FreshLaunches, Boots, UnitsAgree, Live
<1>5. (FreshLaunches /\ Boots)'
  BY <1>1, <1>2 DEF TypeOK, HoldsRecord, FreshLaunches, Boots, Fresh
<1>6. HoldsRecord'
  BY <1>1, <1>2 DEF TypeOK, HoldsRecord, FreshLaunches, UnitsAgree
<1>7. UnitsAgree'
  BY <1>1, <1>2 DEF TypeOK, HoldsRecord, UnitsAgree, NoOrphanUnit, Live, FreshLaunches,
     Fresh
<1>8. (PlaysAgree /\ OnePlay /\ PlayIsKept /\ SaveBeforePlay)'
  BY <1>1, <1>2 DEF TypeOK, HoldsRecord, PlaysAgree, OnePlay, PlayIsKept,
     SaveBeforePlay, FreshLaunches, UnitsAgree, Fresh
<1>9. HooksCounted'
  BY <1>1, <1>2 DEF TypeOK, HoldsRecord, HooksCounted, HooksBeforeCompletion, Boots,
     FreshLaunches
<1>10. (FailureIsWitnessed /\ FailureIsHeard)'
  BY <1>1, <1>2 DEF TypeOK, HoldsRecord, FailureIsWitnessed, FailedSession,
     FailureIsHeard, PlaysAgree, UnitsAgree, NoOrphanUnit, Live, FreshLaunches, Fresh,
     Boots
<1> QED
  BY <1>4, <1>5, <1>6, <1>7, <1>8, <1>9, <1>10

\* The completion record takes the place of the running one.
LEMMA ReplaceByCompletionIInv == IInv /\ ReplaceByCompletion => IInv'
<1> SUFFICES ASSUME IInv, ReplaceByCompletion PROVE IInv'
  OBVIOUS
<1> USE JournalConstants, RecordFields, DefaultedSession, MarkedSession
    DEF IInv, ReplaceByCompletion, durable, volatile, history, Running, Result, Writing,
        SameSession,
        Preparing, Marking, Completing, Hooking, Ending, Busy
<1>1. TypeOK'
  BY DEF TypeOK, ProgramCounter, FreshLaunches, Boots, UnitsAgree, Live
<1>2. (FreshLaunches /\ Boots)'
  BY DEF TypeOK, HoldsRecord, FreshLaunches, Boots, Fresh
<1>3. HoldsRecord'
  BY DEF TypeOK, HoldsRecord, FreshLaunches, UnitsAgree
<1>4. UnitsAgree'
  BY DEF TypeOK, HoldsRecord, UnitsAgree, NoOrphanUnit, Live, FreshLaunches, Fresh
<1>5. (PlaysAgree /\ OnePlay /\ PlayIsKept /\ SaveBeforePlay)'
  BY DEF TypeOK, HoldsRecord, PlaysAgree, OnePlay, PlayIsKept, SaveBeforePlay,
     FreshLaunches, UnitsAgree, Fresh
<1>6. HooksCounted'
  BY DEF TypeOK, HoldsRecord, HooksCounted, HooksBeforeCompletion, Boots, FreshLaunches
<1>7. (FailureIsWitnessed /\ FailureIsHeard)'
  BY DEF TypeOK, HoldsRecord, FailureIsWitnessed, FailedSession, FailureIsHeard,
     PlaysAgree, UnitsAgree, NoOrphanUnit, Live, FreshLaunches, Fresh, Boots
<1> QED
  BY <1>1, <1>2, <1>3, <1>4, <1>5, <1>6, <1>7

\* The snapshot is stored before the play is logged.
LEMMA PutSnapshotIInv == IInv /\ PutSnapshot => IInv'
<1> SUFFICES ASSUME IInv, PutSnapshot PROVE IInv'
  OBVIOUS
<1> USE JournalConstants, RecordFields, DefaultedSession, MarkedSession
    DEF IInv, PutSnapshot, durable, volatile, history, Running, Result, Writing,
        SameSession,
        Preparing, Marking, Completing, Hooking, Ending, Busy
<1>1. record \in Record /\ mem \in Record
  BY DEF HoldsRecord
<1>2. TypeOK'
  BY <1>1 DEF TypeOK, ProgramCounter, FreshLaunches, Boots, UnitsAgree, Live
<1>3. (FreshLaunches /\ Boots)'
  BY <1>1 DEF TypeOK, HoldsRecord, FreshLaunches, Boots, Fresh
<1>4. HoldsRecord'
  BY <1>1 DEF TypeOK, HoldsRecord, FreshLaunches, UnitsAgree
<1>5. UnitsAgree'
  BY <1>1 DEF TypeOK, HoldsRecord, UnitsAgree, NoOrphanUnit, Live, FreshLaunches, Fresh
<1>6. (PlaysAgree /\ OnePlay /\ PlayIsKept /\ SaveBeforePlay)'
  BY <1>1 DEF TypeOK, HoldsRecord, PlaysAgree, OnePlay, PlayIsKept, SaveBeforePlay,
     FreshLaunches, UnitsAgree, Fresh
<1>7. HooksCounted'
  BY <1>1 DEF TypeOK, HoldsRecord, HooksCounted, HooksBeforeCompletion, Boots, FreshLaunches
<1>8. (FailureIsWitnessed /\ FailureIsHeard)'
  BY <1>1 DEF TypeOK, HoldsRecord, FailureIsWitnessed, FailedSession, FailureIsHeard,
     PlaysAgree, UnitsAgree, NoOrphanUnit, Live, FreshLaunches, Fresh, Boots
<1> QED
  BY <1>2, <1>3, <1>4, <1>5, <1>6, <1>7, <1>8

\* The play that is logged is the one of the completion record.
LEMMA RecordPlayIInv == IInv /\ RecordPlay => IInv'
<1> SUFFICES ASSUME IInv, RecordPlay PROVE IInv'
  OBVIOUS
<1> USE JournalConstants, RecordFields, DefaultedSession, MarkedSession
    DEF IInv, RecordPlay, durable, volatile, history, Running, Result, Writing,
        SameSession,
        Preparing, Marking, Completing, Hooking, Ending, Busy
<1>1. record \in Record /\ mem \in Record
  BY DEF HoldsRecord
<1>2. TypeOK'
  BY <1>1 DEF TypeOK, ProgramCounter, FreshLaunches, Boots, UnitsAgree, Live
<1>3. (FreshLaunches /\ Boots)'
  BY <1>1 DEF TypeOK, HoldsRecord, FreshLaunches, Boots, Fresh
<1>4. HoldsRecord'
  BY <1>1 DEF TypeOK, HoldsRecord, FreshLaunches, UnitsAgree
<1>5. UnitsAgree'
  BY <1>1 DEF TypeOK, HoldsRecord, UnitsAgree, NoOrphanUnit, Live, FreshLaunches, Fresh
<1>6. (PlaysAgree /\ OnePlay /\ PlayIsKept /\ SaveBeforePlay)'
  BY <1>1 DEF TypeOK, HoldsRecord, PlaysAgree, OnePlay, PlayIsKept, SaveBeforePlay,
     FreshLaunches, UnitsAgree, Fresh
<1>7. HooksCounted'
  BY <1>1 DEF TypeOK, HoldsRecord, HooksCounted, HooksBeforeCompletion, Boots, FreshLaunches
<1>8. (FailureIsWitnessed /\ FailureIsHeard)'
  BY <1>1 DEF TypeOK, HoldsRecord, FailureIsWitnessed, FailedSession, FailureIsHeard,
     PlaysAgree, UnitsAgree, NoOrphanUnit, Live, FreshLaunches, Fresh, Boots
<1> QED
  BY <1>2, <1>3, <1>4, <1>5, <1>6, <1>7, <1>8

\* A record leaves the journal when its play is logged, or no play is due.
LEMMA ClearRecordIInv == IInv /\ ClearRecord => IInv'
<1> SUFFICES ASSUME IInv, ClearRecord PROVE IInv'
  OBVIOUS
<1> USE JournalConstants, RecordFields, DefaultedSession, MarkedSession
    DEF IInv, ClearRecord, durable, volatile, history, Running, Result, Writing,
        SameSession,
        Preparing, Marking, Completing, Hooking, Ending, Busy
<1>1. TypeOK'
  BY DEF TypeOK, ProgramCounter, FreshLaunches, Boots, UnitsAgree, Live
<1>2. (FreshLaunches /\ Boots)'
  BY DEF TypeOK, HoldsRecord, FreshLaunches, Boots, Fresh
<1>3. HoldsRecord'
  BY DEF TypeOK, HoldsRecord, FreshLaunches, UnitsAgree
<1>4. UnitsAgree'
  BY DEF TypeOK, HoldsRecord, UnitsAgree, NoOrphanUnit, Live, FreshLaunches, Fresh
<1>5. (PlaysAgree /\ OnePlay /\ PlayIsKept /\ SaveBeforePlay)'
  BY DEF TypeOK, HoldsRecord, PlaysAgree, OnePlay, PlayIsKept, SaveBeforePlay,
     FreshLaunches, UnitsAgree, Fresh
<1>6. HooksCounted'
  BY DEF TypeOK, HoldsRecord, HooksCounted, HooksBeforeCompletion, Boots, FreshLaunches
<1>7. (FailureIsWitnessed /\ FailureIsHeard)'
  BY DEF TypeOK, HoldsRecord, FailureIsWitnessed, FailedSession, FailureIsHeard,
     PlaysAgree, UnitsAgree, NoOrphanUnit, Live, FreshLaunches, Fresh, Boots
<1> QED
  BY <1>1, <1>2, <1>3, <1>4, <1>5, <1>6, <1>7

\* Recovery resumes a live unit's session and completes any other record.
LEMMA RecoverIInv == IInv /\ Recover => IInv'
<1> SUFFICES ASSUME IInv, Recover PROVE IInv'
  OBVIOUS
<1> USE JournalConstants, RecordFields, DefaultedSession, MarkedSession
    DEF IInv, Recover, durable, volatile, history, Running, Result, Writing,
        SameSession,
        Preparing, Marking, Completing, Hooking, Ending, Busy
<1>1. record # None => record \in Record
  BY DEF TypeOK
<1>2. TypeOK'
  BY <1>1 DEF TypeOK, ProgramCounter, FreshLaunches, Boots, UnitsAgree, Live
<1>3. (FreshLaunches /\ Boots)'
  BY <1>1 DEF TypeOK, HoldsRecord, FreshLaunches, Boots, Fresh
<1>4. HoldsRecord'
  BY <1>1 DEF TypeOK, HoldsRecord, FreshLaunches, UnitsAgree
<1>5. UnitsAgree'
  BY <1>1 DEF TypeOK, HoldsRecord, UnitsAgree, NoOrphanUnit, Live, FreshLaunches, Fresh
<1>6. (PlaysAgree /\ OnePlay /\ PlayIsKept /\ SaveBeforePlay)'
  BY <1>1 DEF TypeOK, HoldsRecord, PlaysAgree, OnePlay, PlayIsKept, SaveBeforePlay,
     FreshLaunches, UnitsAgree, Fresh
<1>7. HooksCounted'
  BY <1>1 DEF TypeOK, HoldsRecord, HooksCounted, HooksBeforeCompletion, Boots, FreshLaunches
<1>8. (FailureIsWitnessed /\ FailureIsHeard)'
  BY <1>1 DEF TypeOK, HoldsRecord, FailureIsWitnessed, FailedSession, FailureIsHeard,
     PlaysAgree, UnitsAgree, NoOrphanUnit, Live, FreshLaunches, Fresh, Boots
<1> QED
  BY <1>2, <1>3, <1>4, <1>5, <1>6, <1>7, <1>8

\* A failing step leaves one of two records the other steps leave too.
LEMMA StepFailsIInv == IInv /\ StepFails => IInv'
<1> SUFFICES ASSUME IInv, StepFails PROVE IInv'
  OBVIOUS
<1> USE JournalConstants, RecordFields, DefaultedSession, MarkedSession
    DEF IInv, StepFails, durable, volatile, history, Running, Result, Writing,
        SameSession,
        Preparing, Marking, Completing, Hooking, Ending, Busy
<1>1. TypeOK'
  BY DEF TypeOK, ProgramCounter, FreshLaunches, Boots, UnitsAgree, Live
<1>2. (FreshLaunches /\ Boots)'
  BY DEF TypeOK, HoldsRecord, FreshLaunches, Boots, Fresh
<1>3. HoldsRecord'
  BY DEF TypeOK, HoldsRecord, FreshLaunches, UnitsAgree
<1>4. UnitsAgree'
  BY DEF TypeOK, HoldsRecord, UnitsAgree, NoOrphanUnit, Live, FreshLaunches, Fresh
<1>5. (PlaysAgree /\ OnePlay /\ PlayIsKept /\ SaveBeforePlay)'
  BY DEF TypeOK, HoldsRecord, PlaysAgree, OnePlay, PlayIsKept, SaveBeforePlay,
     FreshLaunches, UnitsAgree, Fresh
<1>6. HooksCounted'
  BY DEF TypeOK, HoldsRecord, HooksCounted, HooksBeforeCompletion, Boots, FreshLaunches
<1>7. (FailureIsWitnessed /\ FailureIsHeard)'
  BY DEF TypeOK, HoldsRecord, FailureIsWitnessed, FailedSession, FailureIsHeard,
     PlaysAgree, UnitsAgree, NoOrphanUnit, Live, FreshLaunches, Fresh, Boots
<1> QED
  BY <1>1, <1>2, <1>3, <1>4, <1>5, <1>6, <1>7

\* A lost coordinator changes nothing of the session.
LEMMA LoseSeatsIInv == IInv /\ LoseSeats => IInv'
<1> SUFFICES ASSUME IInv, LoseSeats PROVE IInv'
  OBVIOUS
<1> USE JournalConstants, RecordFields, DefaultedSession, MarkedSession
    DEF IInv, LoseSeats, durable, volatile, history, Running, Result, Writing,
        SameSession,
        Preparing, Marking, Completing, Hooking, Ending, Busy
<1>1. TypeOK'
  BY DEF TypeOK, ProgramCounter, FreshLaunches, Boots, UnitsAgree, Live
<1>2. (FreshLaunches /\ Boots)'
  BY DEF TypeOK, HoldsRecord, FreshLaunches, Boots, Fresh
<1>3. HoldsRecord'
  BY DEF TypeOK, HoldsRecord, FreshLaunches, UnitsAgree
<1>4. UnitsAgree'
  BY DEF TypeOK, HoldsRecord, UnitsAgree, NoOrphanUnit, Live, FreshLaunches, Fresh
<1>5. (PlaysAgree /\ OnePlay /\ PlayIsKept /\ SaveBeforePlay)'
  BY DEF TypeOK, HoldsRecord, PlaysAgree, OnePlay, PlayIsKept, SaveBeforePlay,
     FreshLaunches, UnitsAgree, Fresh
<1>6. HooksCounted'
  BY DEF TypeOK, HoldsRecord, HooksCounted, HooksBeforeCompletion, Boots, FreshLaunches
<1>7. (FailureIsWitnessed /\ FailureIsHeard)'
  BY DEF TypeOK, HoldsRecord, FailureIsWitnessed, FailedSession, FailureIsHeard,
     PlaysAgree, UnitsAgree, NoOrphanUnit, Live, FreshLaunches, Fresh, Boots
<1> QED
  BY <1>1, <1>2, <1>3, <1>4, <1>5, <1>6, <1>7

\* A crash keeps what is durable.
LEMMA CrashIInv == IInv /\ Crash => IInv'
<1> SUFFICES ASSUME IInv, Crash PROVE IInv'
  OBVIOUS
<1> USE JournalConstants, RecordFields, DefaultedSession, MarkedSession
    DEF IInv, Crash, durable, volatile, history, Running, Result, Writing,
        SameSession,
        Preparing, Marking, Completing, Hooking, Ending, Busy
<1>1. temp' \in BOOLEAN /\ fenced' \in BOOLEAN
  BY Zenon DEF TypeOK
<1>2. TypeOK'
  BY <1>1 DEF TypeOK, ProgramCounter, FreshLaunches, Boots, UnitsAgree, Live
<1>3. (FreshLaunches /\ Boots)'
  BY <1>1 DEF TypeOK, HoldsRecord, FreshLaunches, Boots, Fresh
<1>4. HoldsRecord'
  BY <1>1 DEF TypeOK, HoldsRecord, FreshLaunches, UnitsAgree
<1>5. UnitsAgree'
  BY <1>1 DEF TypeOK, HoldsRecord, UnitsAgree, NoOrphanUnit, Live, FreshLaunches, Fresh
<1>6. (PlaysAgree /\ OnePlay /\ PlayIsKept /\ SaveBeforePlay)'
  BY <1>1 DEF TypeOK, HoldsRecord, PlaysAgree, OnePlay, PlayIsKept, SaveBeforePlay,
     FreshLaunches, UnitsAgree, Fresh
<1>7. HooksCounted'
  BY <1>1 DEF TypeOK, HoldsRecord, HooksCounted, HooksBeforeCompletion, Boots, FreshLaunches
<1>8. (FailureIsWitnessed /\ FailureIsHeard)'
  BY <1>1 DEF TypeOK, HoldsRecord, FailureIsWitnessed, FailedSession, FailureIsHeard,
     PlaysAgree, UnitsAgree, NoOrphanUnit, Live, FreshLaunches, Fresh, Boots
<1> QED
  BY <1>2, <1>3, <1>4, <1>5, <1>6, <1>7, <1>8

\* A reboot ends every unit, and every record is of an earlier boot.
LEMMA RebootIInv == IInv /\ Reboot => IInv'
<1> SUFFICES ASSUME IInv, Reboot PROVE IInv'
  OBVIOUS
<1> USE JournalConstants, RecordFields, DefaultedSession, MarkedSession
    DEF IInv, Reboot, durable, volatile, history, Running, Result, Writing,
        SameSession,
        Preparing, Marking, Completing, Hooking, Ending, Busy
<1>1. temp' \in BOOLEAN /\ fenced' \in BOOLEAN
  BY Zenon DEF TypeOK
<1>2. TypeOK'
  BY <1>1 DEF TypeOK, ProgramCounter, FreshLaunches, Boots, UnitsAgree, Live
<1>3. (FreshLaunches /\ Boots)'
  BY <1>1 DEF TypeOK, HoldsRecord, FreshLaunches, Boots, Fresh
<1>4. HoldsRecord'
  BY <1>1 DEF TypeOK, HoldsRecord, FreshLaunches, UnitsAgree
<1>5. UnitsAgree'
  BY <1>1 DEF TypeOK, HoldsRecord, UnitsAgree, NoOrphanUnit, Live, FreshLaunches, Fresh
<1>6. (PlaysAgree /\ OnePlay /\ PlayIsKept /\ SaveBeforePlay)'
  BY <1>1 DEF TypeOK, HoldsRecord, PlaysAgree, OnePlay, PlayIsKept, SaveBeforePlay,
     FreshLaunches, UnitsAgree, Fresh
<1>7. HooksCounted'
  BY <1>1 DEF TypeOK, HoldsRecord, HooksCounted, HooksBeforeCompletion, Boots, FreshLaunches
<1>8. (FailureIsWitnessed /\ FailureIsHeard)'
  BY <1>1 DEF TypeOK, HoldsRecord, FailureIsWitnessed, FailedSession, FailureIsHeard,
     PlaysAgree, UnitsAgree, NoOrphanUnit, Live, FreshLaunches, Fresh, Boots
<1> QED
  BY <1>2, <1>3, <1>4, <1>5, <1>6, <1>7, <1>8

\* A launch id is given out once, so what is prepared is fresh.
LEMMA PrepareIInv ==
  ASSUME NEW l \in Launch, IInv, Prepare(l)
  PROVE  IInv'
<1> USE JournalConstants, RecordFields
    DEF IInv, durable, volatile, history, Prepare, Result,
        Preparing, Marking, Completing, Hooking, Ending, Busy
<1>1. /\ mem' \in Record /\ mem'.launch = l
      /\ mem' = Running(l) /\ Running(l) = Running(l)'
  BY DEF TypeOK, Running, Record
<1>2. TypeOK'
  BY <1>1 DEF TypeOK, ProgramCounter, FreshLaunches, Boots, UnitsAgree, Live
<1>3. (FreshLaunches /\ Boots)'
  BY <1>1 DEF TypeOK, HoldsRecord, FreshLaunches, Boots, Fresh
<1>4. HoldsRecord'
  BY <1>1 DEF TypeOK, HoldsRecord, FreshLaunches, UnitsAgree
<1>5. UnitsAgree'
  BY <1>1 DEF TypeOK, HoldsRecord, UnitsAgree, NoOrphanUnit, Live, FreshLaunches, Fresh
<1>6. (PlaysAgree /\ OnePlay /\ PlayIsKept /\ SaveBeforePlay)'
  BY <1>1 DEF TypeOK, HoldsRecord, PlaysAgree, OnePlay, PlayIsKept, SaveBeforePlay,
     FreshLaunches, UnitsAgree, Fresh
<1>7. HooksCounted'
  BY <1>1 DEF TypeOK, HoldsRecord, HooksCounted, HooksBeforeCompletion, Boots,
     FreshLaunches
<1>8. (FailureIsWitnessed /\ FailureIsHeard)'
  BY <1>1 DEF TypeOK, HoldsRecord, FailureIsWitnessed, FailedSession, FailureIsHeard,
     PlaysAgree, UnitsAgree, NoOrphanUnit, Live, FreshLaunches, Fresh, Boots
<1> QED
  BY <1>2, <1>3, <1>4, <1>5, <1>6, <1>7, <1>8

\* A unit that fails is the witness of its failure.
LEMMA UnitEndsIInv ==
  ASSUME NEW l \in Launch, IInv, UnitEnds(l)
  PROVE  IInv'
<1> USE JournalConstants, RecordFields
    DEF IInv, durable, volatile, history, UnitEnds, Result, Running,
        Preparing, Marking, Completing, Hooking, Ending, Busy
<1>1. TypeOK'
  BY DEF TypeOK, ProgramCounter, FreshLaunches, Boots, UnitsAgree, Live
<1>2. (FreshLaunches /\ Boots)'
  BY DEF TypeOK, HoldsRecord, FreshLaunches, Boots, Fresh
<1>3. HoldsRecord'
  BY DEF TypeOK, HoldsRecord, FreshLaunches, UnitsAgree
<1>4. UnitsAgree'
  BY DEF TypeOK, HoldsRecord, UnitsAgree, NoOrphanUnit, Live, FreshLaunches, Fresh
<1>5. (PlaysAgree /\ OnePlay /\ PlayIsKept /\ SaveBeforePlay)'
  BY DEF TypeOK, HoldsRecord, PlaysAgree, OnePlay, PlayIsKept, SaveBeforePlay,
     FreshLaunches, UnitsAgree, Fresh
<1>6. HooksCounted'
  BY DEF TypeOK, HoldsRecord, HooksCounted, HooksBeforeCompletion, Boots,
     FreshLaunches
<1>7. (FailureIsWitnessed /\ FailureIsHeard)'
  BY DEF TypeOK, HoldsRecord, FailureIsWitnessed, FailedSession, FailureIsHeard,
     PlaysAgree, UnitsAgree, NoOrphanUnit, Live, FreshLaunches, Fresh, Boots
<1> QED
  BY <1>1, <1>2, <1>3, <1>4, <1>5, <1>6, <1>7

-----------------------------------------------------------------------------
(* The theorems *)

\* A new device has an empty journal and no unit.
LEMMA InitIInv == Init => IInv
<1> SUFFICES ASSUME Init PROVE IInv
  OBVIOUS
<1> USE JournalConstants, RecordFields DEF Init
<1>1. TypeOK
  <2>1. 1 \in 1..(MaxCrashes + 1) /\ 0 \in 0..Steps
    BY MaxCrashes + 1 >= 1
  <2>2. hooked \in [Launch -> 0..Steps] /\ told \in [Launch -> SUBSET Result]
    BY <2>1
  <2>3. temp \in BOOLEAN /\ unit \in [Launch -> {"absent", "running", "failed"}]
    OBVIOUS
  <2>4. /\ pc \in ProgramCounter /\ mode \in {"complete", "discard"}
        /\ session \in {"free", "live", "recovering"} /\ fenced \in BOOLEAN
    BY DEF ProgramCounter
  <2>5. /\ boot \in 1..(MaxCrashes + 1) /\ captures \in Nat
        /\ faults \in 0..MaxFaults /\ crashes \in 0..MaxCrashes
    BY <2>1
  <2>6. /\ record \in Record \cup {None} /\ mem \in Record \cup {None}
        /\ log \subseteq Launch \X Nat /\ saves \subseteq Launch \X Nat
        /\ used \subseteq Launch /\ ran \subseteq used
        /\ delivered \subseteq ran /\ failed \subseteq ran
    OBVIOUS
  <2> QED
    BY ONLY <2>2, <2>3, <2>4, <2>5, <2>6 DEF TypeOK
<1>2. FreshLaunches /\ Boots /\ HoldsRecord /\ UnitsAgree
  BY DEF FreshLaunches, Fresh, Boots, HoldsRecord, UnitsAgree, NoOrphanUnit, Live,
      Preparing, Marking, Completing, Hooking, Ending, Busy
<1>3. PlaysAgree /\ OnePlay /\ PlayIsKept /\ SaveBeforePlay
  BY DEF PlaysAgree, OnePlay, PlayIsKept, SaveBeforePlay, Preparing, Hooking
<1>4. HooksCounted /\ FailureIsWitnessed /\ FailureIsHeard
  BY DEF HooksCounted, HooksBeforeCompletion, FailureIsWitnessed, FailedSession,
      FailureIsHeard, Preparing, Marking, Completing, Hooking, Ending, Busy
<1> QED
  BY <1>1, <1>2, <1>3, <1>4 DEF IInv

\* No step disturbs the invariant.
LEMMA NextIInv == IInv /\ [Next]_jvars => IInv'
<1> SUFFICES ASSUME IInv, [Next]_jvars PROVE IInv'
  OBVIOUS
<1>1. CASE \E l \in Launch : Prepare(l) \/ UnitEnds(l)
  BY <1>1, PrepareIInv, UnitEndsIInv
<1>2. CASE BeginStop \/ Observe
  BY <1>2, BeginStopIInv, ObserveEndIInv, RecoverIInv DEF Observe
<1>3. CASE Procedure
  BY <1>3, PersistIInv, SeatsIInv, StartUnitIInv, ObserveLaunchIInv, ExitMarkIInv,
     DropFailedLaunchIInv, StopMarkIInv, FailMarkIInv, FailClearIInv, EndSeatsIInv,
     HooksTurnIInv,
     JournalResultIInv, RunHookIInv, AcknowledgeHookIInv, AfterHooksIInv,
     ReplaceByCompletionIInv, PutSnapshotIInv, RecordPlayIInv, ClearRecordIInv DEF Procedure
<1>4. CASE StepFails \/ LoseSeats \/ Crash \/ Reboot
  BY <1>4, StepFailsIInv, LoseSeatsIInv, CrashIInv, RebootIInv
<1>5. CASE Exhausted \/ UNCHANGED jvars
  BY <1>5
  DEF Exhausted, jvars, durable, volatile, history, IInv, TypeOK, FreshLaunches, Fresh, Boots,
      HoldsRecord, UnitsAgree, NoOrphanUnit, Live, PlaysAgree, OnePlay, PlayIsKept,
      SaveBeforePlay, HooksCounted, HooksBeforeCompletion, FailureIsWitnessed, FailedSession,
      FailureIsHeard, Running
<1> QED
  BY <1>1, <1>2, <1>3, <1>4, <1>5 DEF Next

\* The invariant holds after any steps, failures, crashes and reboots.
THEOREM Inductive == Spec => []IInv
  BY InitIInv, NextIInv, PTL DEF Spec

\* The journal, the unit and the procedure under the session lock stay in the
\* states the journal's code distinguishes.
THEOREM TypeCorrect == Spec => []TypeOK
<1>1. IInv => TypeOK
  BY DEF IInv
<1> QED
  BY <1>1, Inductive, PTL

\* Wherever korrid dies, a step of the completion fails or the device reboots, a
\* session the player had is logged once: never twice, and until it is logged the
\* journal names it.
THEOREM PlayedOnce == Spec => []PlayExactlyOnce
<1>1. IInv => PlayExactlyOnce
  BY DEF IInv, PlayExactlyOnce
<1> QED
  BY <1>1, Inductive, PTL

\* What a completion tells others is true: a logged play has its snapshot, a
\* completion record has run its hooks, a failure is not reported as an exit.
THEOREM HonestCompletion == Spec => []CompletionIsHonest
<1>1. IInv => CompletionIsHonest
  BY DEF IInv, CompletionIsHonest, HooksCounted
<1> QED
  BY <1>1, Inductive, PTL

\* Every running unit is named by the running record.
THEOREM UnitsAreJournaled == Spec => []NoOrphanUnit
<1>1. IInv => NoOrphanUnit
  BY DEF IInv, UnitsAgree
<1> QED
  BY <1>1, Inductive, PTL
=============================================================================
