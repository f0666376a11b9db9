------------------------- MODULE IdentitySwitchProofs -------------------------
(***************************************************************************)
(* The live identity directory is one complete identity that was never     *)
(* revoked, for any number of persons and of switch calls that overlap,    *)
(* fail or die anywhere.  Until two calls overlap the switch is whole and  *)
(* implements DeviceOwner.                                                 *)
(***************************************************************************)
EXTENDS IdentitySwitch, FiniteSetTheorems, TLAPS

\* A call that has not exchanged the directories: its device key is unused.
Fresh == {"idle", "stage", "import", "approve", "bind", "revoke", "prepare",
          "commit", "exchange"}

\* The process that works on the journal.
Holding == {"commit", "exchange", "complete", "data", "signer", "trust", "publish",
            "finish", "rollback", "abort"}

\* The effects of a committed switch.
Effects == {"data", "signer", "trust", "publish"}

\* A call whose device key is the live one until its journal is removed.
Installed == Effects \cup {"complete", "finish"}

Labels == Fresh \cup Holding \cup {"sweep", "returned", "gone", "start", "up"}

Directory == [device : Device \cup {None},
              event : [device : Device \cup {None}, owner : Person \cup {None}],
              remote : Person \cup {None}, grants : (SUBSET Client) \cup {None}]

Locals == [old : Device \cup {None}, owner : Person \cup {None},
           person : Person \cup {None}, kind : {"local", "nip46"},
           disp : {"transfer", "delete"}, pub : BOOLEAN]

Shape ==
    /\ live \in Directory /\ staged \in Directory
    /\ journal \in {NoJournal} \cup
          [phase : {"preparing", "commit"}, old : Device, owner : Person \cup {None},
           kind : {"local", "nip46"}, disp : {"transfer", "delete"}, pub : BOOLEAN]
    /\ mem \in [Process -> Locals]
    /\ pc \in [Process -> Labels]
    /\ revoked \subseteq Device
    /\ \A c \in Running : pc[Boot] = "up" /\ mem[c].old \in Device

\* The journal is worked on by one process, for the switch it is about.
OneHolder ==
    \A a \in Process : pc[a] \in Holding =>
        /\ journal # NoJournal /\ journal.old = mem[a].old
        /\ \A b \in Process : pc[b] \in Holding => b = a

\* Nobody knows the device key of a call before its exchange.
FreshIsUnused ==
    \A c \in Call : pc[c] \in Fresh =>
        /\ c # live.device /\ c \notin revoked
        /\ (journal # NoJournal => journal.old # c)
        /\ \A a \in Process : mem[a].old # c
        /\ pc[c] = "idle" => staged.device # c

\* After the exchange the new device is live, and it is nobody's old device.
InstalledIsLive ==
    /\ \A c \in Call : pc[c] \in Installed =>
          live.device = c /\ \A d \in Running : mem[d].old # c
    /\ pc[Boot] \in Effects => live.device # mem[Boot].old

\* Nobody will exchange a revoked directory back.
RevokedStaysOut ==
    staged.device \in revoked =>
        /\ (journal # NoJournal => journal.old # live.device)
        /\ \A c \in Running : mem[c].old # live.device

IInv ==
    /\ Shape /\ OneHolder /\ FreshIsUnused /\ InstalledIsLive /\ RevokedStaysOut
    /\ live.device # staged.device
    /\ LiveIsOwned

-----------------------------------------------------------------------------

\* Before the first call the device is owned and nothing is staged or journaled.
LEMMA InitIInv == Init => IInv
  BY SwitchConstants
  DEF Init, IInv, Shape, Locals, OneHolder, FreshIsUnused, InstalledIsLive, RevokedStaysOut,
      LiveIsOwned, Owned, Running, Process, Device, NoDir, NoEvent, NoJournal, NoCall,
      Fresh, Holding, Effects, Installed, Labels, Directory

\* A step that keeps the journal, the identity in the live directory and, unless
\* it removes it, the one being staged.
Keeps ==
    /\ live' \in Directory /\ live'.device = live.device /\ live'.event = live.event
    /\ staged' \in Directory /\ staged'.device \in {staged.device, None}
    /\ UNCHANGED <<journal, mem, revoked>>

\* Processes that move on during such a step, without taking up the journal, the
\* effects or a call, disturb nothing.
LEMMA MoveIInv ==
  ASSUME IInv, Keeps,
         pc' \in [Process -> Labels],
         \A a \in Process :
            /\ pc'[a] \in Fresh => pc[a] \in Fresh
            /\ pc'[a] = "idle" => pc[a] = "idle"
            /\ pc'[a] \in Holding => pc[a] \in Holding
            /\ pc'[a] \in Installed => pc[a] \in Installed
            /\ pc'[a] \in Effects => pc[a] \in Effects,
         Running' \subseteq Running,
         Running' # {} => pc'[Boot] = "up"
  PROVE  IInv'
<1> USE DEF IInv, Keeps
<1>1. Boot \in Process /\ Call \subseteq Process /\ None \notin Call \cup Device
  BY SwitchConstants DEF Process, Device
<1>2. Shape'
  BY <1>1 DEF Shape
<1>3. OneHolder'
  BY DEF OneHolder
<1>4. FreshIsUnused'
  BY <1>1 DEF FreshIsUnused
<1>5. InstalledIsLive'
  BY <1>1 DEF InstalledIsLive
<1>6. revoked \subseteq Device
  BY DEF Shape
<1>7. RevokedStaysOut' /\ live'.device # staged'.device /\ LiveIsOwned'
  BY <1>1, <1>6 DEF RevokedStaysOut, LiveIsOwned, Owned
<1> QED
  BY <1>2, <1>3, <1>4, <1>5, <1>7

\* The same of one process that goes to label l.
LEMMA GotoIInv ==
  ASSUME IInv, Keeps, NEW a \in Process, NEW l \in Labels \ {"idle"}, Goto(a, l),
         l \in Fresh => pc[a] \in Fresh,
         l \in Holding => pc[a] \in Holding,
         l \in Installed => pc[a] \in Installed,
         l \in Effects => pc[a] \in Effects,
         pc[a] \notin {"idle", "returned", "gone", "up"}
  PROVE  IInv'
<1>1. pc \in [Process -> Labels] /\ (Running # {} => pc[Boot] = "up")
  BY DEF IInv, Shape
<1>2. pc' = [pc EXCEPT ![a] = l]
  BY DEF Goto
<1>3. Running' \subseteq Running
  BY <1>1, <1>2 DEF Running, Process
<1>4. Running' # {} => pc'[Boot] = "up"
  BY <1>1, <1>2, <1>3 DEF Process
<1> QED
  BY <1>1, <1>2, <1>3, <1>4, MoveIInv

\* A call that fails answers, a recovery that fails starts again.
LEMMA FailIInv ==
  ASSUME IInv, Keeps, NEW a \in Process,
         pc[a] \notin {"idle", "returned", "gone", "up"}, FailTo(a)
  PROVE  IInv'
<1>1. CASE a = Boot
  BY <1>1, GotoIInv DEF FailTo, Labels, Fresh, Holding, Installed, Effects
<1>2. CASE a # Boot
  BY <1>2, GotoIInv DEF FailTo, Labels, Fresh, Holding, Installed, Effects
<1> QED
  BY <1>1, <1>2

\* What changes no file keeps.
LEMMA SameKeeps ==
  ASSUME IInv, UNCHANGED <<live, staged, journal, mem, revoked>>
  PROVE  Keeps
  BY DEF IInv, Shape, Keeps

\* Every step of a call or a recovery that leaves the journal and the identities alone.
LEMMA StepIInv ==
  ASSUME IInv, NEW a \in Process,
         \/ a \in Call /\ (Import(a) \/ Approve(a) \/ Bind(a) \/ SignRevocation(a))
         \/ DisposeData(a) \/ Activate(a) \/ ActivateHalf(a) \/ ActivateTorn(a)
         \/ ResetTrust(a) \/ Sweep(a) \/ Fault(a)
  PROVE  IInv'
<1>1. pc[a] \notin {"idle", "returned", "gone", "up"}
  BY DEF Import, Approve, Bind, SignRevocation, DisposeData, Activate, ActivateHalf,
         ActivateTorn, ResetTrust, Sweep, Fault
<1>2. NoDir \in Directory /\ NoDir.device = None
  BY DEF NoDir, NoEvent, Directory
<1>3. /\ live \in Directory /\ staged \in Directory
      /\ mem[a].person \in Person \cup {None}
  BY DEF IInv, Shape, Locals
<1>4. Keeps
  <2>1. CASE ResetTrust(a)
    BY <1>3, <2>1 DEF ResetTrust, Keeps, Directory
  <2>2. CASE Sweep(a)
    BY <1>2, <1>3, <2>2 DEF Sweep, ComeUp, Keeps, Directory, world, past
  <2>3. CASE Approve(a)
    BY <1>2, <1>3, <2>3 DEF Approve, Keeps, Directory, world, past
  <2>4. CASE a \in Call /\ Bind(a)
    BY <1>2, <1>3, <2>4 DEF Bind, Keeps, Directory, world, Device, past
  <2> QED
    BY <2>1, <2>2, <2>3, <2>4, SameKeeps
    DEF Import, SignRevocation, DisposeData, Activate, ActivateHalf, ActivateTorn, Fault,
        disk, world, past
<1>5. CASE FailTo(a)
  BY <1>1, <1>4, <1>5, FailIInv
<1>6. CASE ~FailTo(a)
  <2>1. \/ pc[a] = "import" /\ Goto(a, "approve")
        \/ pc[a] = "approve" /\ Goto(a, "bind")
        \/ pc[a] = "bind" /\ Goto(a, "revoke")
        \/ pc[a] = "revoke" /\ Goto(a, "prepare")
        \/ pc[a] = "data" /\ Goto(a, "signer")
        \/ pc[a] = "signer" /\ Goto(a, "trust")
        \/ pc[a] = "trust" /\ Goto(a, "publish")
        \/ pc[a] = "sweep" /\ (Goto(a, "up") \/ Goto(a, "returned"))
    BY <1>6 DEF Import, Approve, Bind, SignRevocation, DisposeData, Activate, ActivateHalf,
                ActivateTorn, ResetTrust, Sweep, ComeUp, Fault
  <2> QED
    BY <1>1, <1>4, <2>1, GotoIInv DEF Labels, Fresh, Holding, Installed, Effects
<1> QED
  BY <1>5, <1>6

\* korrid exits or dies: the calls are gone and the recovery starts.
LEMMA StopIInv ==
  ASSUME IInv, Restart \/ Crash
  PROVE  IInv'
<1>1. Stop /\ UNCHANGED <<live, staged, journal, revoked>>
  BY DEF Restart, Crash, disk, world, past
<1>2. Boot \in Process /\ Call \subseteq Process /\ Boot \notin Call /\ None \notin Call
  BY SwitchConstants DEF Process
<1>3. \A a \in Process : /\ pc'[a] \in {"start", "idle", "gone"}
                         /\ pc'[a] = "idle" => pc[a] = "idle"
                         /\ a = Boot => pc'[a] = "start"
                         /\ a \in Call => pc'[a] # "start"
                         /\ mem'[a] = NoCall
  BY <1>1, <1>2 DEF Stop
<1>4. Running' = {}
  BY <1>2, <1>3 DEF Running
<1>5. pc' \in [Process -> Labels] /\ mem' \in [Process -> Locals]
  <2>1. NoCall \in Locals
    BY DEF NoCall, Locals
  <2>2. {"start", "idle", "gone"} \subseteq Labels
    BY DEF Labels, Fresh
  <2> QED
    BY <1>1, <1>3, <2>1, <2>2 DEF Stop
<1>6. Shape'
  BY <1>1, <1>4, <1>5 DEF IInv, Shape
<1>7. OneHolder' /\ InstalledIsLive'
  BY <1>2, <1>3 DEF OneHolder, InstalledIsLive, Holding, Installed, Effects
<1>8. FreshIsUnused'
  BY <1>1, <1>2, <1>3 DEF IInv, FreshIsUnused, Fresh, NoCall
<1>9. RevokedStaysOut' /\ live'.device # staged'.device /\ LiveIsOwned'
  BY <1>1, <1>4 DEF IInv, RevokedStaysOut, LiveIsOwned, Owned
<1> QED
  BY <1>6, <1>7, <1>8, <1>9 DEF IInv

\* The rest of korrid works beside the calls.
LEMMA RestIInv ==
  ASSUME IInv,
         \/ Play \/ Announce
         \/ \E p \in Player : Launch(p)
         \/ \E k \in Client : Pair(k)
         \/ \E p \in Person : DeleteRetired(p)
  PROVE  IInv'
<1>1. pc' = pc
  BY DEF Play, Launch, Announce, Pair, DeleteRetired
<1>2. live \in Directory /\ staged \in Directory
  BY DEF IInv, Shape
<1>3. Keeps
  <2>1. ASSUME NEW k \in Client, Pair(k) PROVE Keeps
    <3>1. live.grants \in SUBSET Client
      BY <1>2, <2>1 DEF Pair, Directory
    <3> QED
      BY <1>2, <2>1, <3>1 DEF Pair, Keeps, Directory
  <2> QED
    BY <2>1, SameKeeps DEF Play, Launch, Announce, DeleteRetired, disk, world, past
<1>4. Running' = Running
  BY <1>1 DEF Running
<1> QED
  BY <1>1, <1>3, <1>4, MoveIInv DEF IInv, Shape

-----------------------------------------------------------------------------
(* The steps that change what the invariant relates *)

\* A call begins with the live device as the one it replaces.
LEMMA BeginIInv ==
  ASSUME IInv, NEW c \in Call, NEW p \in Person, NEW kind \in {"local", "nip46"},
         NEW disp \in {"transfer", "delete"}, Begin(c, p, kind, disp)
  PROVE  IInv'
<1>1. Boot \in Process /\ c \in Process /\ c # Boot /\ None \notin Call \cup Device
  BY SwitchConstants DEF Process, Device
<1>2. Shape /\ pc[c] = "idle" /\ pc[Boot] = "up" /\ UNCHANGED <<live, journal, revoked>>
  BY DEF IInv, Begin, world, past
<1>3. NoDir \in Directory /\ NoDir.device = None
  BY DEF NoDir, NoEvent, Directory
<1>4. CASE Goto(c, "returned") /\ UNCHANGED mem /\ (staged' = staged \/ staged' = NoDir)
  <2>1. Keeps
    BY <1>2, <1>3, <1>4 DEF Keeps, Shape
  <2>2. pc' = [pc EXCEPT ![c] = "returned"] /\ Running' \subseteq Running
    BY <1>2, <1>4 DEF Goto, Shape, Running, Process
  <2> QED
    BY <1>1, <1>2, <2>1, <2>2, MoveIInv
    DEF Shape, Labels, Fresh, Holding, Installed, Effects
<1>5. CASE /\ journal = NoJournal /\ staged' = NoDir /\ Owned(live) /\ Goto(c, "stage")
           /\ mem' = [mem EXCEPT ![c] = [old |-> live.device, owner |-> live.event.owner,
                         person |-> p, kind |-> kind, disp |-> disp, pub |-> FALSE]]
  <2>1. pc' = [pc EXCEPT ![c] = "stage"] /\ Running' = Running \cup {c}
    BY <1>1, <1>2, <1>5 DEF Goto, Shape, Running, Process
  <2>2. live.device \in Device /\ live.event.owner \in Person \cup {None}
    BY <1>2, <1>5 DEF Owned, Shape, Directory
  <2>3. \A a \in Process : a # c => mem'[a] = mem[a] /\ pc'[a] = pc[a]
    BY <1>2, <1>5, <2>1 DEF Shape
  <2>4. mem'[c].old = live.device /\ pc'[c] = "stage"
    BY <1>1, <1>2, <1>5, <2>1 DEF Shape
  <2>5. \A a \in Process : pc[a] \notin Holding
    BY <1>5 DEF IInv, OneHolder
  <2>6. Shape'
    BY <1>1, <1>2, <1>3, <1>5, <2>1, <2>2, <2>3, <2>4 DEF Shape, Locals, Labels, Fresh
  <2>7. OneHolder'
    BY <2>3, <2>4, <2>5 DEF OneHolder, Holding
  <2>8. FreshIsUnused'
    BY <1>1, <1>2, <1>3, <1>5, <2>3, <2>4 DEF IInv, FreshIsUnused, Process, Fresh
  <2>9. InstalledIsLive'
    BY <1>1, <1>2, <2>3, <2>4, <2>5
    DEF IInv, InstalledIsLive, Process, Installed, Effects, Holding
  <2>10. RevokedStaysOut' /\ live'.device # staged'.device /\ LiveIsOwned'
    BY <1>1, <1>2, <1>3, <1>5, <2>2 DEF IInv, Shape, RevokedStaysOut, LiveIsOwned, Owned
  <2> QED
    BY <2>6, <2>7, <2>8, <2>9, <2>10 DEF IInv
<1> QED
  BY <1>1, <1>4, <1>5 DEF Begin, FailTo

\* A call stages its own device key.
LEMMA StageIInv ==
  ASSUME IInv, NEW c \in Call, Stage(c)
  PROVE  IInv'
<1>1. /\ Boot \in Process /\ c \in Process /\ c # Boot
      /\ c \in Device /\ None \notin Call \cup Device
  BY SwitchConstants DEF Process, Device
<1>2. Shape /\ pc[c] = "stage" /\ UNCHANGED <<live, journal, revoked>>
  BY DEF IInv, Stage, world, past
<1>3. CASE FailTo(c) /\ UNCHANGED <<staged, mem>>
  BY <1>1, <1>2, <1>3, SameKeeps, FailIInv
<1>4. CASE /\ journal = NoJournal
           /\ staged' = [NoDir EXCEPT !.device = c,
                            !.remote = IF mem[c].kind = "nip46" THEN mem[c].person ELSE None]
           /\ mem' = [mem EXCEPT ![c].pub = mem[c].old \in announced]
           /\ Goto(c, IF mem[c].kind = "local" THEN "import" ELSE "approve")
  <2>1. pc' = [pc EXCEPT ![c] = IF mem[c].kind = "local" THEN "import" ELSE "approve"]
    BY <1>4 DEF Goto
  <2>2. /\ \A a \in Process : a # c => pc'[a] = pc[a]
        /\ pc'[c] \in {"import", "approve"}
        /\ Running' = Running
    BY <1>1, <1>2, <2>1 DEF Shape, Running, Process
  <2>3. \A a \in Process : mem'[a].old = mem[a].old
    BY <1>2, <1>4 DEF Shape
  <2>4. staged' \in Directory /\ staged'.device = c
    BY <1>1, <1>2, <1>4 DEF Shape, Locals, Directory, NoDir, NoEvent
  <2>5. mem' \in [Process -> Locals]
    <3>1. mem[c] \in Locals /\ mem \in [Process -> Locals]
      BY <1>1, <1>2 DEF Shape
    <3>2. (mem[c].old \in announced) \in BOOLEAN
      BY SMT
    <3>3. [mem[c] EXCEPT !.pub = mem[c].old \in announced] \in Locals
      BY <3>1, <3>2 DEF Locals
    <3> QED
      BY <1>1, <1>4, <3>1, <3>3
  <2>6. Shape'
    BY <1>1, <1>2, <2>1, <2>2, <2>3, <2>4, <2>5 DEF Shape, Locals, Labels, Fresh, Running, Process
  <2>7. OneHolder'
    BY <1>2, <2>2, <2>3 DEF IInv, OneHolder, Holding
  <2>8. FreshIsUnused'
    BY <1>1, <1>2, <2>2, <2>3, <2>4 DEF IInv, FreshIsUnused, Process, Fresh
  <2>9. InstalledIsLive'
    <3>1. Running \subseteq Process
      BY DEF Running, Process
    <3> QED
      BY <1>1, <1>2, <2>2, <2>3, <3>1 DEF IInv, InstalledIsLive, Process, Installed, Effects
  <2>10. c # live.device /\ c \notin revoked
    BY <1>2 DEF IInv, FreshIsUnused, Fresh
  <2>11. RevokedStaysOut' /\ live'.device # staged'.device /\ LiveIsOwned'
    BY <1>2, <2>4, <2>10 DEF IInv, RevokedStaysOut, LiveIsOwned, Owned
  <2> QED
    BY <2>6, <2>7, <2>8, <2>9, <2>11 DEF IInv
<1> QED
  BY <1>3, <1>4 DEF Stage

\* Only a call that finds no journal takes it up, for the device it replaces.
LEMMA WritePreparingIInv ==
  ASSUME IInv, NEW c \in Call, WritePreparing(c)
  PROVE  IInv'
<1>1. Boot \in Process /\ c \in Process /\ c # Boot
  BY SwitchConstants DEF Process
<1>2. /\ Shape /\ pc[c] = "prepare" /\ c \in Running
      /\ UNCHANGED <<live, staged, mem, revoked>>
  BY DEF IInv, WritePreparing, world, Running, past
<1>3. CASE FailTo(c) /\ UNCHANGED journal
  BY <1>1, <1>2, <1>3, SameKeeps, FailIInv
<1>4. CASE journal = NoJournal /\ journal' = Entry("preparing", mem[c]) /\ Goto(c, "commit")
  <2>1. pc' = [pc EXCEPT ![c] = "commit"]
    BY <1>4 DEF Goto
  <2>2. \A a \in Process : a # c => pc'[a] = pc[a] /\ pc'[a] \notin Holding
    BY <1>2, <1>4, <2>1 DEF IInv, Shape, OneHolder
  <2>3. pc'[c] = "commit" /\ Running' = Running
    BY <1>1, <1>2, <2>1 DEF Shape, Running, Process
  <2>4. journal'.old = mem[c].old /\ journal'.phase = "preparing" /\ NoJournal.phase = "none"
    BY <1>4 DEF Entry, NoJournal
  <2>5. Shape'
    <3>1. mem[c].old \in Device
      BY <1>2 DEF Shape
    <3>2. journal' \in [phase : {"preparing", "commit"}, old : Device,
               owner : Person \cup {None}, kind : {"local", "nip46"},
               disp : {"transfer", "delete"}, pub : BOOLEAN]
      BY <1>1, <1>2, <1>4, <3>1 DEF Shape, Locals, Entry
    <3> QED
      BY <1>1, <1>2, <2>1, <2>2, <2>3, <3>2 DEF Shape, Labels, Holding
  <2>6. OneHolder'
    BY <1>1, <1>2, <2>2, <2>3, <2>4 DEF OneHolder
  <2>7. FreshIsUnused'
    BY <1>1, <1>2, <1>4, <2>2, <2>3, <2>4 DEF IInv, FreshIsUnused, Fresh, Process
  <2>8. InstalledIsLive'
    BY <1>1, <1>2, <2>2, <2>3 DEF IInv, InstalledIsLive, Installed, Effects, Holding, Process
  <2>9. RevokedStaysOut' /\ live'.device # staged'.device /\ LiveIsOwned'
    BY <1>2, <2>3, <2>4 DEF IInv, RevokedStaysOut, LiveIsOwned, Owned
  <2> QED
    BY <2>5, <2>6, <2>7, <2>8, <2>9 DEF IInv
<1> QED
  BY <1>3, <1>4 DEF WritePreparing

\* The commit is journaled by the process that prepared it.
LEMMA WriteCommitIInv ==
  ASSUME IInv, NEW c \in Call, WriteCommit(c)
  PROVE  IInv'
<1>1. Boot \in Process /\ c \in Process /\ c # Boot
  BY SwitchConstants DEF Process
<1>2. /\ Shape /\ pc[c] = "commit" /\ c \in Running
      /\ UNCHANGED <<live, staged, mem, revoked>>
  BY DEF IInv, WriteCommit, world, Running, past
<1>3. CASE FailTo(c) /\ UNCHANGED journal
  BY <1>1, <1>2, <1>3, SameKeeps, FailIInv
<1>4. CASE /\ journal = Entry("preparing", mem[c]) /\ journal' = Entry("commit", mem[c])
           /\ Goto(c, "exchange")
  <2>1. pc' = [pc EXCEPT ![c] = "exchange"]
    BY <1>4 DEF Goto
  <2>2. /\ \A a \in Process : a # c => pc'[a] = pc[a]
        /\ pc'[c] = "exchange" /\ Running' = Running
    BY <1>1, <1>2, <2>1 DEF Shape, Running, Process
  <2>3. /\ journal'.old = mem[c].old /\ journal.old = mem[c].old
        /\ journal # NoJournal /\ journal' # NoJournal
    BY <1>4 DEF Entry, NoJournal
  <2>4. Shape'
    <3>1. mem[c].old \in Device
      BY <1>2 DEF Shape
    <3>2. journal' \in [phase : {"preparing", "commit"}, old : Device,
               owner : Person \cup {None}, kind : {"local", "nip46"},
               disp : {"transfer", "delete"}, pub : BOOLEAN]
      BY <1>1, <1>2, <1>4, <3>1 DEF Shape, Locals, Entry
    <3> QED
      BY <1>1, <1>2, <2>1, <2>2, <3>2 DEF Shape, Labels, Holding
  <2>5. OneHolder'
    BY <1>1, <1>2, <2>2, <2>3 DEF IInv, OneHolder, Holding
  <2>6. FreshIsUnused'
    BY <1>1, <1>2, <2>2, <2>3 DEF IInv, FreshIsUnused, Fresh, Process
  <2>7. InstalledIsLive'
    BY <1>1, <1>2, <2>2 DEF IInv, InstalledIsLive, Installed, Effects, Process
  <2>8. RevokedStaysOut' /\ live'.device # staged'.device /\ LiveIsOwned'
    BY <1>2, <2>2, <2>3 DEF IInv, RevokedStaysOut, LiveIsOwned, Owned
  <2> QED
    BY <2>4, <2>5, <2>6, <2>7, <2>8 DEF IInv
<1> QED
  BY <1>3, <1>4 DEF WriteCommit

\* A call installs the directory it staged: its device key was unused until now.
LEMMA ExchangeIInv ==
  ASSUME IInv, NEW c \in Call, Exchange(c)
  PROVE  IInv'
<1>1. Boot \in Process /\ c \in Process /\ c # Boot
  BY SwitchConstants DEF Process
<1>2. /\ Shape /\ pc[c] = "exchange" /\ c \in Running
      /\ UNCHANGED <<journal, mem, revoked>>
  BY DEF IInv, Exchange, world, Running, past
<1>3. CASE FailTo(c) /\ UNCHANGED <<live, staged>>
  BY <1>1, <1>2, <1>3, SameKeeps, FailIInv
<1>4. /\ c # live.device /\ c \notin revoked
      /\ \A a \in Process : mem[a].old # c
  BY <1>2 DEF IInv, FreshIsUnused, Fresh
<1>5. CASE /\ live' = staged /\ staged' = live /\ Goto(c, "complete")
           /\ Holds(staged, [device |-> c, owner |-> mem[c].person])
  <2>1. pc' = [pc EXCEPT ![c] = "complete"]
    BY <1>5 DEF Goto
  <2>2. live'.device = c /\ Owned(live)' /\ live.device \notin revoked
    BY <1>5 DEF Holds, Owned, IInv, LiveIsOwned
  <2>3. \A a \in Process : a # c => pc'[a] = pc[a] /\ pc'[a] \notin Holding
    BY <1>1, <1>2, <2>1 DEF IInv, Shape, OneHolder, Holding
  <2>4. pc'[c] = "complete" /\ Running' = Running
    BY <1>1, <1>2, <2>1 DEF Shape, Running, Process
  <2>5. Shape'
    BY <1>1, <1>2, <1>5, <2>1, <2>3, <2>4 DEF Shape, Labels, Holding
  <2>6. OneHolder'
    BY <1>1, <1>2, <2>3, <2>4 DEF IInv, OneHolder, Holding
  <2>7. FreshIsUnused'
    BY <1>1, <1>2, <1>5, <2>2, <2>3, <2>4 DEF IInv, FreshIsUnused, Fresh, Process
  <2>8. InstalledIsLive'
    <3>1. Running \subseteq Process
      BY DEF Running, Process
    <3> QED
      BY <1>1, <1>2, <1>4, <2>2, <2>3, <2>4, <3>1
      DEF InstalledIsLive, Installed, Effects, Holding, Process
  <2>9. RevokedStaysOut' /\ live'.device # staged'.device /\ LiveIsOwned'
    BY <1>2, <1>4, <1>5, <2>2 DEF IInv, RevokedStaysOut, LiveIsOwned
  <2> QED
    BY <2>5, <2>6, <2>7, <2>8, <2>9 DEF IInv
<1>6. ~Holds(live, [device |-> c, owner |-> mem[c].person])
  BY <1>4 DEF Holds, Owned
<1>7. \/ UNCHANGED <<live, staged>> /\ FailTo(c)
      \/ /\ live' = staged /\ staged' = live /\ Goto(c, "complete")
         /\ Holds(staged, [device |-> c, owner |-> mem[c].person])
  BY <1>6 DEF Exchange
<1> QED
  BY <1>3, <1>5, <1>7

\* A call that has exchanged goes on with its own device live; a recovery
\* exchanges only the device the journal is about, whose replacement is not
\* revoked.
LEMMA CompleteIInv ==
  ASSUME IInv, NEW a \in Process, Complete(a)
  PROVE  IInv'
<1>1. Boot \in Process /\ Call \subseteq Process /\ Boot \notin Call
      /\ Running \subseteq Call /\ None \notin Device
  BY SwitchConstants DEF Process, Running, Device
<1>2. /\ Shape /\ pc[a] = "complete" /\ UNCHANGED <<journal, revoked>>
      /\ (a \in Call => a \in Running)
      /\ (a \notin Call => a = Boot /\ Running = {})
  BY DEF IInv, Complete, world, Running, Shape, Process, past
<1>3. CASE FailTo(a) /\ UNCHANGED <<live, staged, mem>>
  BY <1>2, <1>3, SameKeeps, FailIInv
<1>4. DeviceOf(live) = live.device
  BY DEF IInv, LiveIsOwned, Owned, DeviceOf
<1>5. ASSUME NEW q \in Person \cup {None}, Goto(a, "data"),
             mem' = [mem EXCEPT ![a].person = q],
             \/ live.device # mem[a].old /\ UNCHANGED <<live, staged>>
             \/ /\ live.device = mem[a].old /\ Owned(staged)
                /\ live' = staged /\ staged' = live
      PROVE  IInv'
  <2>1. pc' = [pc EXCEPT ![a] = "data"]
    BY <1>5 DEF Goto
  <2>2. \A b \in Process : mem'[b].old = mem[b].old
    BY <1>2, <1>5 DEF Shape
  <2>3. mem' \in [Process -> Locals]
    BY <1>2, <1>5 DEF Shape, Locals
  <2>4. \A b \in Process : b # a => pc'[b] = pc[b] /\ pc'[b] \notin Holding
    BY <1>2, <2>1 DEF IInv, Shape, OneHolder, Holding
  <2>5. pc'[a] = "data" /\ Running' = Running
    BY <1>2, <2>1 DEF Shape, Running, Process
  <2>6. journal # NoJournal /\ journal.old = mem[a].old
    BY <1>2 DEF IInv, OneHolder, Holding
  <2>7. a \in Call => live.device = a /\ mem[a].old # a /\ UNCHANGED <<live, staged>>
    BY <1>2, <1>5 DEF IInv, InstalledIsLive, Installed
  <2>8. /\ live'.device \notin revoked /\ Owned(live)' /\ live'.device # staged'.device
        /\ live'.device # mem[a].old
    BY <1>2, <1>5, <2>6 DEF IInv, LiveIsOwned, Owned, RevokedStaysOut
  <2>9. Shape'
    BY <1>1, <1>2, <1>5, <2>1, <2>2, <2>3, <2>5, <2>4 DEF Shape, Labels, Holding
  <2>10. OneHolder'
    BY <1>2, <2>2, <2>4, <2>5, <2>6 DEF OneHolder
  <2>11. FreshIsUnused'
    <3>1. CASE UNCHANGED <<live, staged>>
      BY <1>1, <1>2, <2>2, <2>4, <2>5, <3>1 DEF IInv, FreshIsUnused, Fresh
    <3>2. CASE a = Boot /\ Running = {} /\ live' = staged /\ staged' = live
      <4>1. \A c \in Call : pc'[c] \in Fresh => pc[c] = "idle"
        BY <1>1, <2>4, <3>2 DEF Running, Fresh
      <4> QED
        BY <1>1, <1>2, <2>2, <2>4, <3>2, <4>1 DEF IInv, FreshIsUnused, Fresh
    <3> QED
      BY <1>2, <1>5, <2>7, <3>1, <3>2
  <2>12. InstalledIsLive'
    <3>1. CASE a \in Call
      BY <1>1, <1>2, <2>2, <2>4, <2>5, <2>7, <3>1
      DEF IInv, InstalledIsLive, Installed, Effects, Holding
    <3>2. CASE a = Boot
      BY <1>1, <1>2, <2>2, <2>4, <2>5, <2>8, <3>2
      DEF InstalledIsLive, Installed, Effects, Holding
    <3> QED
      BY <1>2, <3>1, <3>2
  <2>13. RevokedStaysOut'
    BY <1>1, <1>2, <1>5, <2>2, <2>5 DEF IInv, LiveIsOwned, RevokedStaysOut
  <2> QED
    BY <1>2, <2>8, <2>9, <2>10, <2>11, <2>12, <2>13 DEF IInv, LiveIsOwned
<1>6. staged.event.owner \in Person \cup {None} /\ live.event.owner \in Person \cup {None}
  BY <1>2 DEF Shape, Directory
<1>7. \/ FailTo(a) /\ UNCHANGED <<live, staged, mem>>
      \/ /\ DeviceOf(live) = mem[a].old /\ Owned(staged)
         /\ live' = staged /\ staged' = live
         /\ mem' = [mem EXCEPT ![a].person = staged.event.owner] /\ Goto(a, "data")
      \/ /\ DeviceOf(live) # mem[a].old /\ UNCHANGED <<live, staged>>
         /\ mem' = [mem EXCEPT ![a].person = live.event.owner] /\ Goto(a, "data")
  BY DEF Complete
<1> QED
  BY <1>3, <1>4, <1>5, <1>6, <1>7

\* What is revoked is not live, and nobody is about to exchange it back.
LEMMA PublishIInv ==
  ASSUME IInv, NEW a \in Process, PublishRevocation(a)
  PROVE  IInv'
<1>1. Boot \in Process /\ Call \subseteq Process /\ Boot \notin Call
      /\ Running \subseteq Call
  BY SwitchConstants DEF Process, Running
<1>2. /\ Shape /\ pc[a] = "publish" /\ UNCHANGED <<live, staged, journal, mem>>
      /\ (a \in Call => a \in Running)
      /\ (a \notin Call => a = Boot /\ Running = {})
  BY DEF IInv, PublishRevocation, disk, Running, Shape, Process, past
<1>3. pc' = [pc EXCEPT ![a] = "finish"]
  BY DEF PublishRevocation, Goto
<1>4. /\ \A b \in Process : b # a => pc'[b] = pc[b]
      /\ pc'[a] = "finish" /\ Running' = Running
  BY <1>2, <1>3 DEF Shape, Running, Process
<1>5. journal # NoJournal /\ journal.old = mem[a].old /\ mem[a].old \in Device
  BY <1>2 DEF IInv, OneHolder, Holding, Shape
<1>6. revoked' \subseteq revoked \cup {mem[a].old}
  BY DEF PublishRevocation
<1>7. live.device # mem[a].old /\ \A c \in Running : mem[c].old # live.device
  BY <1>1, <1>2 DEF IInv, InstalledIsLive, Installed, Effects
<1>8. Shape'
  BY <1>1, <1>2, <1>3, <1>4, <1>5, <1>6 DEF Shape, Labels, Holding
<1>9. OneHolder'
  BY <1>2, <1>4 DEF IInv, OneHolder, Holding
<1>10. FreshIsUnused'
  BY <1>1, <1>2, <1>4, <1>6 DEF IInv, FreshIsUnused, Fresh
<1>11. InstalledIsLive'
  BY <1>1, <1>2, <1>4 DEF IInv, InstalledIsLive, Installed, Effects
<1>12. RevokedStaysOut' /\ live'.device # staged'.device /\ LiveIsOwned'
  BY <1>2, <1>4, <1>5, <1>6, <1>7 DEF IInv, RevokedStaysOut, LiveIsOwned, Owned
<1> QED
  BY <1>8, <1>9, <1>10, <1>11, <1>12 DEF IInv

\* The process that holds the journal removes it.
LEMMA RemoveJournalIInv ==
  ASSUME IInv, NEW a \in Process, RemoveJournal(a)
  PROVE  IInv'
<1>1. Boot \in Process /\ Call \subseteq Process /\ Boot \notin Call
  BY SwitchConstants DEF Process
<1>2. Shape /\ pc[a] \in {"finish", "abort"} /\ UNCHANGED <<live, staged, mem, revoked>>
  BY DEF IInv, RemoveJournal, world, past
<1>3. CASE FailTo(a) /\ UNCHANGED journal
  BY <1>2, <1>3, SameKeeps, FailIInv
<1>4. CASE journal' = NoJournal /\ Goto(a, "sweep")
  <2>1. pc' = [pc EXCEPT ![a] = "sweep"]
    BY <1>4 DEF Goto
  <2>2. \A b \in Process : b # a => pc'[b] = pc[b] /\ pc'[b] \notin Holding
    BY <1>2, <2>1 DEF IInv, Shape, OneHolder, Holding
  <2>3. pc'[a] = "sweep" /\ Running' = Running
    BY <1>2, <2>1 DEF Shape, Running, Process
  <2>4. Shape'
    BY <1>1, <1>2, <1>4, <2>1, <2>2, <2>3 DEF Shape, Labels, Holding
  <2>5. OneHolder'
    BY <2>2, <2>3 DEF OneHolder, Holding
  <2>6. FreshIsUnused'
    BY <1>1, <1>2, <1>4, <2>2, <2>3 DEF IInv, FreshIsUnused, Fresh
  <2>7. InstalledIsLive'
    BY <1>1, <1>2, <2>2, <2>3 DEF IInv, InstalledIsLive, Installed, Effects
  <2>8. RevokedStaysOut' /\ live'.device # staged'.device /\ LiveIsOwned'
    BY <1>2, <1>4, <2>3 DEF IInv, RevokedStaysOut, LiveIsOwned, Owned
  <2> QED
    BY <2>4, <2>5, <2>6, <2>7, <2>8 DEF IInv
<1> QED
  BY <1>3, <1>4 DEF RemoveJournal

\* A starting korrid comes up or takes the journal over; no call is running.
LEMMA BootIInv ==
  ASSUME IInv, BootStep
  PROVE  IInv'
<1>1. Boot \in Process /\ Call \subseteq Process /\ Boot \notin Call /\ None \notin Device
  BY SwitchConstants DEF Process, Device
<1>2. Shape /\ live \in Directory /\ staged \in Directory
  BY DEF IInv, Shape
<1>3. NoDir \in Directory /\ NoDir.device = None
  BY DEF NoDir, NoEvent, Directory
<1>4. CASE Rollback
  <2>1. Keeps /\ pc[Boot] = "rollback" /\ (FailTo(Boot) \/ Goto(Boot, "abort"))
    BY <1>4, SameKeeps DEF Rollback, disk, world, past
  <2> QED
    BY <1>1, <2>1, FailIInv, GotoIInv DEF Labels, Fresh, Holding, Installed, Effects
<1>5. CASE BootStart /\ journal = NoJournal
  <2>1. Keeps /\ pc[Boot] = "start" /\ Goto(Boot, "up")
    BY <1>2, <1>3, <1>5 DEF BootStart, ComeUp, Keeps, Directory, world, past
  <2> QED
    BY <1>1, <2>1, GotoIInv DEF Labels, Fresh, Holding, Installed, Effects
<1>6. CASE BootStart /\ journal # NoJournal
  <2>1. /\ pc[Boot] = "start" /\ UNCHANGED <<live, staged, journal, revoked>>
        /\ mem' = [mem EXCEPT ![Boot] = [NoCall EXCEPT !.old = journal.old,
                      !.owner = journal.owner, !.kind = journal.kind,
                      !.disp = journal.disp, !.pub = journal.pub]]
        /\ Goto(Boot, IF journal.phase = "preparing" THEN "rollback" ELSE "complete")
    BY <1>6 DEF BootStart, world, past
  <2>2. Running = {}
    BY <1>2, <2>1 DEF Shape
  <2>3. /\ \A b \in Process : b # Boot => pc'[b] = pc[b] /\ mem'[b] = mem[b]
        /\ pc'[Boot] \in {"rollback", "complete"}
        /\ pc' \in [Process -> Labels]
    BY <1>1, <1>2, <2>1 DEF Shape, Goto, Labels, Holding
  <2>4. Running' = {}
    BY <1>1, <2>2, <2>3 DEF Running
  <2>5. journal.old \in Device /\ journal \in
          [phase : {"preparing", "commit"}, old : Device, owner : Person \cup {None},
           kind : {"local", "nip46"}, disp : {"transfer", "delete"}, pub : BOOLEAN]
    BY <1>2, <1>6 DEF Shape
  <2>6. mem'[Boot].old = journal.old
    BY <1>1, <1>2, <2>1 DEF Shape, NoCall
  <2>7. Shape'
    BY <1>1, <1>2, <2>1, <2>3, <2>4, <2>5 DEF Shape, Locals, NoCall
  <2>8. \A b \in Process : b # Boot => pc'[b] \notin Holding
    BY <2>2, <2>3 DEF Running, Process, Holding
  <2>9. OneHolder'
    BY <1>1, <1>6, <2>1, <2>6, <2>8 DEF OneHolder
  <2>10. FreshIsUnused'
    BY <1>1, <1>6, <2>1, <2>3, <2>6 DEF IInv, FreshIsUnused
  <2>11. InstalledIsLive'
    BY <1>1, <2>3, <2>8 DEF InstalledIsLive, Installed, Effects, Holding
  <2>12. RevokedStaysOut' /\ live'.device # staged'.device /\ LiveIsOwned'
    BY <2>1, <2>4 DEF IInv, RevokedStaysOut, LiveIsOwned, Owned
  <2> QED
    BY <2>7, <2>9, <2>10, <2>11, <2>12 DEF IInv
<1> QED
  BY <1>4, <1>5, <1>6 DEF BootStep

-----------------------------------------------------------------------------

\* Every step keeps the invariant.
LEMMA NextIInv == IInv /\ [Next]_vars => IInv'
<1> SUFFICES ASSUME IInv, [Next]_vars PROVE IInv'
  OBVIOUS
<1>1. Call \subseteq Process
  BY DEF Process
<1>2. CASE \E c \in Call, p \in Person, kind \in {"local", "nip46"},
              disp \in {"transfer", "delete"} : Begin(c, p, kind, disp)
  BY <1>2, BeginIInv
<1>3. CASE \E c \in Call : CallStep(c)
  BY <1>1, <1>3, StageIInv, StepIInv, WritePreparingIInv, WriteCommitIInv, ExchangeIInv
  DEF CallStep
<1>4. CASE \E a \in Process : CommitStep(a) \/ ActivateHalf(a) \/ ActivateTorn(a) \/ Fault(a)
  BY <1>4, CompleteIInv, StepIInv, PublishIInv, RemoveJournalIInv DEF CommitStep
<1>5. CASE UNCHANGED vars
  <2>1. Keeps /\ pc' = pc
    BY <1>5, SameKeeps DEF vars, disk, world, past
  <2> QED
    BY <2>1, MoveIInv DEF IInv, Shape, Running
<1> QED
  BY <1>2, <1>3, <1>4, <1>5, BootIInv, StopIInv, RestIInv DEF Next

\* The live directory is at every moment one complete identity, and never one
\* whose revocation was published: for any calls that overlap in any way, any
\* faults and crashes, deleted keys and torn promotions.
THEOREM LiveIsAlwaysOwned == Spec => []LiveIsOwned
<1>1. IInv => LiveIsOwned
  BY DEF IInv
<1> QED
  BY InitIInv, NextIInv, <1>1, PTL DEF Spec

\* The journal is a lock: at most one call or recovery is between writing the
\* Preparing journal and removing it, and the journal is about its switch,
\* although nothing else serialises the calls.
THEOREM JournalHasOneHolder == Spec => []OneHolder
<1>1. IInv => OneHolder
  BY DEF IInv
<1> QED
  BY InitIInv, NextIInv, <1>1, PTL DEF Spec

-----------------------------------------------------------------------------
(* Types *)

\* A process whose locals say which switch it works on.
Working == {"stage", "import", "approve", "bind", "revoke", "prepare"} \cup Holding

\* The locals of a working process are those of a switch, and what it will revoke
\* is on the relays.
Known ==
    /\ \A a \in Process : pc[a] \in Working =>
          /\ mem[a].old \in Device /\ mem[a].owner \in Person
          /\ a \in Call \/ pc[a] \in Effects => mem[a].person \in Person
          /\ mem[a].pub => mem[a].old \in announced
    /\ journal # NoJournal /\ journal.pub => journal.old \in announced

TInv == TypeOK /\ Known

-----------------------------------------------------------------------------

\* TypeOK in parts.
DirsOK ==
    /\ live \in Dirs \ {NoDir} /\ staged \in Dirs
    /\ booted \in Events \ {NoEvent}
JournalOK ==
    journal \in {NoJournal} \cup
        [phase : {"preparing", "commit"}, old : Device, owner : Person,
         kind : {"local", "nip46"}, disp : {"transfer", "delete"}, pub : BOOLEAN]
KeysOK ==
    /\ active \in Person \cup {None} /\ retired \subseteq Person
    /\ active \in retired => torn > 0
DataOK ==
    /\ plays \subseteq Person /\ game \in Person \cup {None} /\ memory \in Device
    /\ owed \subseteq Person
WorldOK ==
    /\ trusted \subseteq Client \X Device
    /\ announced \subseteq Device /\ revoked \subseteq announced
    /\ left \subseteq Device \X BOOLEAN
CountsOK ==
    /\ mishaps \subseteq {"overlap", "delete"}
    /\ faults \in 0..MaxFaults /\ crashes \in 0..MaxCrashes /\ deletes \in 0..MaxDeletes
    /\ torn \in 0..MaxTorn

LEMMA TypeParts ==
  ASSUME IInv
  PROVE  TypeOK <=> DirsOK /\ JournalOK /\ KeysOK /\ DataOK /\ WorldOK /\ CountsOK
  BY DEF IInv, Shape, TypeOK, DirsOK, JournalOK, KeysOK, DataOK, WorldOK, CountsOK,
         Labels, Fresh, Holding

\* The first start.
LEMMA InitTInv == Init => TInv
<1> SUFFICES ASSUME Init PROVE TInv
  OBVIOUS
<1>1. IInv
  BY InitIInv
<1>2. DirsOK
  BY SwitchConstants DEF Init, DirsOK, Dirs, Events, NoDir, NoEvent, Device
<1>3. JournalOK /\ KeysOK /\ DataOK /\ WorldOK /\ CountsOK
  BY SwitchConstants DEF Init, JournalOK, KeysOK, DataOK, WorldOK, CountsOK, Device
<1>4. Known
  BY SwitchConstants DEF Init, Known, Working, Holding, Process, NoJournal
<1> QED
  BY <1>1, <1>2, <1>3, <1>4, TypeParts DEF TInv

\* What a step leaves alone keeps its type.
LEMMA SameTypes ==
  ASSUME IInv, TInv
  PROVE  /\ UNCHANGED <<live, staged, booted>> => DirsOK'
         /\ UNCHANGED journal => JournalOK'
         /\ UNCHANGED <<active, retired, torn>> => KeysOK'
         /\ UNCHANGED <<plays, game, memory, owed>> => DataOK'
         /\ UNCHANGED <<trusted, announced, revoked, left>> => WorldOK'
         /\ UNCHANGED <<faults, crashes, deletes, torn, mishaps>> => CountsOK'
<1>1. DirsOK /\ JournalOK /\ KeysOK /\ DataOK /\ WorldOK /\ CountsOK
  BY TypeParts DEF TInv
<1> QED
  BY <1>1 DEF DirsOK, JournalOK, KeysOK, DataOK, WorldOK, CountsOK

\* What Known says of one process.
KnownOf(a) ==
    pc[a] \in Working =>
        /\ mem[a].old \in Device /\ mem[a].owner \in Person
        /\ a \in Call \/ pc[a] \in Effects => mem[a].person \in Person
        /\ mem[a].pub => mem[a].old \in announced

\* A process that moves on, to work only from work.
LEMMA KnownMoves ==
  ASSUME IInv, TInv, UNCHANGED <<journal, mem>>, announced \subseteq announced',
         \A a \in Process :
            /\ pc'[a] \in Working => pc[a] \in Working
            /\ a = Boot /\ pc'[a] \in Effects => pc[a] \in Effects
  PROVE  Known'
<1>1. ASSUME NEW a \in Process PROVE KnownOf(a)'
  <2>1. KnownOf(a)
    BY DEF TInv, Known, KnownOf
  <2>2. a \in Call \/ a = Boot
    BY DEF Process
  <2> HIDE DEF Working, Effects
  <2> QED
    BY <2>1, <2>2 DEF KnownOf
<1> QED
  BY <1>1 DEF TInv, Known, KnownOf

\* The same of one process that goes to label l.
LEMMA KnownGoto ==
  ASSUME IInv, TInv, UNCHANGED <<journal, mem>>, announced \subseteq announced',
         NEW a \in Process, NEW l, Goto(a, l),
         l \in Working => pc[a] \in Working, a = Boot /\ l \in Effects => pc[a] \in Effects
  PROVE  Known'
<1>1. pc \in [Process -> Labels]
  BY DEF IInv, Shape
<1> QED
  BY <1>1, KnownMoves DEF Goto

\* A call that fails answers, a recovery that fails starts again.
LEMMA KnownFail ==
  ASSUME IInv, TInv, UNCHANGED <<journal, mem>>, announced \subseteq announced',
         NEW a \in Process, FailTo(a)
  PROVE  Known'
<1>1. "start" \notin Working \cup Effects /\ "returned" \notin Working \cup Effects
  BY DEF Working, Holding, Effects
<1> QED
  BY <1>1, KnownGoto DEF FailTo

-----------------------------------------------------------------------------

\* The parts of TypeOK after a step.
LEMMA StepTypes ==
  ASSUME IInv', DirsOK', JournalOK', KeysOK', DataOK', WorldOK', CountsOK', Known'
  PROVE  TInv'
<1>1. (TypeOK <=> DirsOK /\ JournalOK /\ KeysOK /\ DataOK /\ WorldOK /\ CountsOK)'
  BY TypeParts, PTL
<1> QED
  BY <1>1 DEF TInv

\* The live directory is a device with an owner.
LEMMA LiveTyped ==
  ASSUME IInv, TInv
  PROVE  /\ live \in [device : Device, event : Events, remote : Person \cup {None},
                      grants : (SUBSET Client) \cup {None}]
         /\ live.event \in [device : Device, owner : Person]
         /\ live.event # NoEvent
<1>1. live \in Dirs \ {NoDir} /\ None \notin Device
  BY SwitchConstants DEF TInv, TypeOK, Device
<1>2. live.device # None /\ live.event.device = live.device
  BY DEF IInv, LiveIsOwned, Owned
<1> QED
  BY <1>1, <1>2 DEF Dirs, Events, NoEvent

\* A complete staged directory is a device with an owner.
LEMMA StagedTyped ==
  ASSUME TInv, Owned(staged)
  PROVE  /\ staged \in Dirs \ {NoDir}
         /\ staged.event \in [device : Device, owner : Person]
<1>1. staged \in Dirs /\ None \notin Device
  BY SwitchConstants DEF TInv, TypeOK, Device
<1> QED
  BY <1>1 DEF Dirs, Events, NoEvent, NoDir, Owned

\* A staged directory that exists.
LEMMA StagedDir ==
  ASSUME TInv, staged # NoDir
  PROVE  staged \in [device : Device, event : Events, remote : Person \cup {None},
                     grants : (SUBSET Client) \cup {None}]
  BY DEF TInv, TypeOK, Dirs

\* What every process knows, unless it moves.
LEMMA KnownOne ==
  ASSUME IInv, TInv, NEW a \in Process, UNCHANGED announced,
         \A b \in Process \ {a} : pc'[b] = pc[b] /\ mem'[b] = mem[b],
         KnownOf(a)',
         journal' # NoJournal /\ journal'.pub => journal'.old \in announced
  PROVE  Known'
<1>1. ASSUME NEW b \in Process PROVE KnownOf(b)'
  <2>1. CASE b = a
    BY <2>1
  <2>2. CASE b # a
    <3>1. KnownOf(b) /\ pc'[b] = pc[b] /\ mem'[b] = mem[b]
      BY <2>2 DEF TInv, Known, KnownOf
    <3> HIDE DEF Working, Effects
    <3> QED
      BY <3>1 DEF KnownOf
  <2> QED
    BY <2>1, <2>2
<1> QED
  BY <1>1 DEF Known, KnownOf

\* A call begins with the owner of the live directory.
LEMMA BeginTInv ==
  ASSUME IInv, TInv, IInv', NEW c \in Call, NEW p \in Person, NEW kind \in {"local", "nip46"},
         NEW disp \in {"transfer", "delete"}, Begin(c, p, kind, disp)
  PROVE  TInv'
<1>1. c \in Process /\ c # Boot /\ pc \in [Process -> Labels] /\ mem \in [Process -> Locals]
  BY SwitchConstants DEF Process, IInv, Shape
<1>2. /\ UNCHANGED <<live, journal, active, retired, plays, game, memory, trusted, announced,
                     revoked, booted, faults, crashes, deletes, torn, left, owed>>
      /\ staged' \in {staged, NoDir} /\ mishaps' \in {mishaps, mishaps \cup {"overlap"}}
  BY DEF Begin, keys, data, world, bounds, past
<1>3. DirsOK'
  BY <1>2 DEF TInv, TypeOK, DirsOK, Dirs
<1>4. JournalOK' /\ KeysOK' /\ DataOK' /\ WorldOK'
  BY <1>2, SameTypes
<1>6. CountsOK'
  BY <1>2 DEF TInv, TypeOK, CountsOK
<1>5. Known'
  <2>1. CASE FailTo(c) /\ UNCHANGED mem
    BY <1>1, <1>2, <2>1, KnownFail
  <2>2. CASE /\ Goto(c, "stage")
             /\ mem' = [mem EXCEPT ![c] = [old |-> live.device, owner |-> live.event.owner,
                            person |-> p, kind |-> kind, disp |-> disp, pub |-> FALSE]]
    <3>1. \A b \in Process \ {c} : pc'[b] = pc[b] /\ mem'[b] = mem[b]
      BY <1>1, <2>2 DEF Goto
    <3>2. KnownOf(c)'
      BY <1>1, <2>2, LiveTyped DEF KnownOf
    <3> QED
      BY <1>1, <1>2, <3>1, <3>2, KnownOne DEF TInv, Known
  <2> QED
    BY <1>1, <2>1, <2>2 DEF Begin, FailTo
<1> QED
  BY <1>3, <1>4, <1>5, <1>6, StepTypes

\* A call stages its own device key and asks whether the old one is published.
LEMMA StageTInv ==
  ASSUME IInv, TInv, IInv', NEW c \in Call, Stage(c)
  PROVE  TInv'
<1>1. c \in Process /\ c # Boot /\ pc \in [Process -> Labels] /\ mem \in [Process -> Locals]
  BY SwitchConstants DEF Process, IInv, Shape
<1>2. /\ UNCHANGED <<live, journal, active, retired, plays, game, memory, trusted, announced,
                     revoked, booted, faults, crashes, deletes, torn, left, owed, mishaps>>
      /\ pc[c] = "stage"
  BY DEF Stage, keys, data, world, bounds, past
<1>3. KnownOf(c) /\ pc[c] \in Working /\ mem[c] \in Locals
  BY <1>1, <1>2 DEF TInv, Known, KnownOf, Working
<1>4. mem[c].person \in Person /\ mem[c].old \in Device /\ mem[c].owner \in Person
  BY <1>3 DEF KnownOf
<1>5. JournalOK' /\ KeysOK' /\ DataOK' /\ WorldOK' /\ CountsOK'
  BY <1>2, SameTypes
<1>6. CASE FailTo(c) /\ UNCHANGED <<staged, mem>>
  <2>1. DirsOK' /\ Known'
    BY <1>1, <1>2, <1>6, SameTypes, KnownFail
  <2> QED
    BY <1>5, <2>1, StepTypes
<1>7. CASE /\ staged' = [NoDir EXCEPT !.device = c,
                            !.remote = IF mem[c].kind = "nip46" THEN mem[c].person ELSE None]
           /\ mem' = [mem EXCEPT ![c].pub = mem[c].old \in announced]
           /\ Goto(c, IF mem[c].kind = "local" THEN "import" ELSE "approve")
  <2>1. DirsOK'
    BY <1>2, <1>4, <1>7 DEF TInv, TypeOK, DirsOK, Dirs, NoDir, Events, NoEvent, Device
  <2>2. \A b \in Process \ {c} : pc'[b] = pc[b] /\ mem'[b] = mem[b]
    BY <1>1, <1>7 DEF Goto
  <2>3. mem'[c] = [mem[c] EXCEPT !.pub = mem[c].old \in announced]
    BY <1>1, <1>7
  <2>4. /\ mem'[c].old = mem[c].old /\ mem'[c].owner = mem[c].owner
        /\ mem'[c].person = mem[c].person /\ mem'[c].pub = (mem[c].old \in announced)
    BY <1>3, <2>3 DEF Locals
  <2>5. KnownOf(c)'
    BY <1>2, <1>4, <2>4 DEF KnownOf
  <2> QED
    BY <1>1, <1>2, <1>5, <2>1, <2>2, <2>5, KnownOne, StepTypes DEF TInv, Known
<1> QED
  BY <1>6, <1>7 DEF Stage

\* The steps of a call from the import to the revocation.
LEMMA ApproveTInv ==
  ASSUME IInv, TInv, IInv', NEW c \in Call, Import(c) \/ Approve(c) \/ Bind(c) \/ SignRevocation(c)
  PROVE  TInv'
<1>1. c \in Process /\ c # Boot /\ pc \in [Process -> Labels] /\ mem \in [Process -> Locals]
  BY SwitchConstants DEF Process, IInv, Shape
<1>2. /\ UNCHANGED <<live, journal, active, plays, game, memory, trusted, announced, revoked,
                     booted, mem, faults, crashes, deletes, torn, left, owed, mishaps>>
      /\ pc[c] \in {"import", "approve", "bind", "revoke"}
  BY DEF Import, Approve, Bind, SignRevocation, disk, keys, data, world, bounds, past
<1>3. KnownOf(c) /\ pc[c] \in Working
  BY <1>1, <1>2 DEF TInv, Known, KnownOf, Working
<1>4. mem[c].person \in Person /\ mem[c].owner \in Person /\ c \in Device
  BY <1>3 DEF KnownOf, Device
<1>5. JournalOK' /\ DataOK' /\ WorldOK' /\ CountsOK'
  BY <1>2, SameTypes
<1>6. KeysOK'
  <2>1. retired' \subseteq retired \/ (active # mem[c].person /\ retired' = retired \cup {mem[c].person})
    BY DEF Import, Approve, Bind, SignRevocation, keys, past
  <2> QED
    BY <1>2, <1>4, <2>1 DEF TInv, TypeOK, KeysOK
<1>7. DirsOK'
  <2>1. CASE staged' \in {staged, NoDir}
    BY <1>2, <2>1 DEF TInv, TypeOK, DirsOK, Dirs
  <2>2. CASE staged # NoDir /\ staged' = [staged EXCEPT !.remote = mem[c].person]
    BY <1>2, <1>4, <2>2, StagedDir DEF TInv, TypeOK, DirsOK, Dirs
  <2>3. CASE staged # NoDir /\ staged' = [staged EXCEPT !.event = [device |-> c, owner |-> mem[c].person]]
    BY <1>2, <1>4, <2>3, StagedDir DEF TInv, TypeOK, DirsOK, Dirs, Events
  <2> QED
    BY <2>1, <2>2, <2>3 DEF Import, Approve, Bind, SignRevocation, disk, past
<1>8. Known'
  <2>1. FailTo(c) \/ Goto(c, "approve") \/ Goto(c, "bind") \/ Goto(c, "revoke") \/ Goto(c, "prepare")
    BY DEF Import, Approve, Bind, SignRevocation
  <2> QED
    BY <1>1, <1>2, <1>3, <2>1, KnownFail, KnownGoto DEF Working
<1> QED
  BY <1>5, <1>6, <1>7, <1>8, StepTypes

\* The journal is written from the locals of a call.
LEMMA WriteTInv ==
  ASSUME IInv, TInv, IInv', NEW c \in Call, WritePreparing(c) \/ WriteCommit(c)
  PROVE  TInv'
<1>1. c \in Process /\ c # Boot /\ pc \in [Process -> Labels] /\ mem \in [Process -> Locals]
  BY SwitchConstants DEF Process, IInv, Shape
<1>2. /\ UNCHANGED <<live, staged, active, retired, plays, game, memory, trusted, announced, revoked,
                     booted, mem, faults, crashes, deletes, torn, mishaps>>
      /\ pc[c] \in {"prepare", "commit"}
  BY DEF WritePreparing, WriteCommit, keys, data, world, bounds, past
<1>3. KnownOf(c) /\ pc[c] \in Working /\ mem[c] \in Locals
  BY <1>1, <1>2 DEF TInv, Known, KnownOf, Working, Holding
<1>4. mem[c].old \in Device /\ mem[c].owner \in Person /\ (mem[c].pub => mem[c].old \in announced)
  BY <1>3 DEF KnownOf
<1>5. DirsOK' /\ KeysOK' /\ CountsOK'
  BY <1>2, SameTypes
<1>6. CASE FailTo(c) /\ UNCHANGED <<journal, left, owed>>
  BY <1>1, <1>2, <1>5, <1>6, SameTypes, KnownFail, StepTypes
<1>7. CASE /\ journal' = Entry("preparing", mem[c]) \/ journal' = Entry("commit", mem[c])
           /\ Goto(c, "commit") \/ Goto(c, "exchange")
           /\ left' \subseteq left \cup {<<mem[c].old, mem[c].pub>>}
           /\ owed' \subseteq owed \cup {mem[c].owner}
  <2>1. JournalOK'
    BY <1>3, <1>4, <1>7 DEF Entry, JournalOK, Locals
  <2>2. WorldOK'
    BY <1>2, <1>3, <1>4, <1>7 DEF TInv, TypeOK, WorldOK, Locals
  <2>6. DataOK'
    BY <1>2, <1>4, <1>7 DEF TInv, TypeOK, DataOK
  <2>3. journal'.pub = mem[c].pub /\ journal'.old = mem[c].old
    BY <1>7 DEF Entry
  <2>4. \A b \in Process \ {c} : pc'[b] = pc[b] /\ mem'[b] = mem[b]
    BY <1>1, <1>2, <1>7 DEF Goto
  <2>5. KnownOf(c)'
    BY <1>2, <1>3 DEF KnownOf
  <2> QED
    BY <1>1, <1>2, <1>4, <1>5, <2>1, <2>2, <2>3, <2>4, <2>5, <2>6, KnownOne, StepTypes
<1> QED
  BY <1>6, <1>7 DEF WritePreparing, WriteCommit, past

\* The exchanged directories are two complete identities.
LEMMA ExchangeTInv ==
  ASSUME IInv, TInv, IInv', NEW c \in Call, Exchange(c)
  PROVE  TInv'
<1>1. c \in Process /\ c # Boot /\ pc \in [Process -> Labels]
  BY SwitchConstants DEF Process, IInv, Shape
<1>2. /\ UNCHANGED <<journal, active, retired, plays, game, memory, trusted, announced, revoked,
                     booted, mem, faults, crashes, deletes, torn, left, owed, mishaps>>
      /\ pc[c] = "exchange"
  BY DEF Exchange, keys, data, world, bounds, past
<1>3. JournalOK' /\ KeysOK' /\ DataOK' /\ WorldOK' /\ CountsOK'
  BY <1>2, SameTypes
<1>4. \/ live' = staged /\ staged' = live /\ Owned(staged)
      \/ UNCHANGED <<live, staged>>
  BY DEF Exchange, Holds
<1>5. DirsOK'
  BY <1>2, <1>4, StagedTyped DEF TInv, TypeOK, DirsOK
<1>6. FailTo(c) \/ Goto(c, "complete")
  BY DEF Exchange
<1>7. Known'
  BY <1>1, <1>2, <1>6, KnownFail, KnownGoto DEF Working, Holding
<1> QED
  BY <1>3, <1>5, <1>7, StepTypes

\* What a committed switch is completed with is a person.
LEMMA CompleteTInv ==
  ASSUME IInv, TInv, IInv', NEW a \in Process, Complete(a)
  PROVE  TInv'
<1>1. pc \in [Process -> Labels] /\ mem \in [Process -> Locals]
  BY DEF IInv, Shape
<1>2. /\ UNCHANGED <<journal, active, retired, plays, game, memory, trusted, announced, revoked,
                     booted, faults, crashes, deletes, torn, left, owed, mishaps>>
      /\ pc[a] = "complete"
  BY DEF Complete, keys, data, world, bounds, past
<1>3. JournalOK' /\ KeysOK' /\ DataOK' /\ WorldOK' /\ CountsOK'
  BY <1>2, SameTypes
<1>4. \/ FailTo(a) /\ UNCHANGED <<live, staged, mem>>
      \/ /\ Owned(staged) /\ live' = staged /\ staged' = live
         /\ mem' = [mem EXCEPT ![a].person = staged.event.owner] /\ Goto(a, "data")
      \/ /\ UNCHANGED <<live, staged>>
         /\ mem' = [mem EXCEPT ![a].person = live.event.owner] /\ Goto(a, "data")
  BY DEF Complete
<1>5. DirsOK'
  BY <1>2, <1>4, StagedTyped DEF TInv, TypeOK, DirsOK
<1>6. CASE FailTo(a) /\ UNCHANGED mem
  BY <1>2, <1>3, <1>5, <1>6, KnownFail, StepTypes
<1>7. ASSUME NEW q \in Person, mem' = [mem EXCEPT ![a].person = q], Goto(a, "data")
      PROVE  Known'
  <2>1. KnownOf(a) /\ pc[a] \in Working
    BY <1>2 DEF TInv, Known, KnownOf, Working, Holding
  <2>2. \A b \in Process \ {a} : pc'[b] = pc[b] /\ mem'[b] = mem[b]
    BY <1>1, <1>7 DEF Goto
  <2>3. mem[a] \in Locals /\ mem'[a] = [mem[a] EXCEPT !.person = q]
    BY <1>1, <1>7
  <2>4. /\ mem'[a].old = mem[a].old /\ mem'[a].owner = mem[a].owner
        /\ mem'[a].person = q /\ mem'[a].pub = mem[a].pub
    BY <2>3 DEF Locals
  <2>5. KnownOf(a)'
    BY <1>2, <2>1, <2>4 DEF KnownOf
  <2> QED
    BY <1>2, <2>2, <2>5, KnownOne DEF TInv, Known
<1> QED
  BY <1>3, <1>4, <1>5, <1>6, <1>7, LiveTyped, StagedTyped, StepTypes

\* The records and the keys of the signer are those of persons.
LEMMA EffectTInv ==
  ASSUME IInv, TInv, IInv', NEW a \in Process,
         DisposeData(a) \/ Activate(a) \/ ActivateHalf(a) \/ ActivateTorn(a)
  PROVE  TInv'
<1>1. /\ UNCHANGED <<live, staged, journal, memory, trusted, announced, revoked, booted, mem,
                     game, crashes, deletes, left, mishaps>>
      /\ pc[a] \in {"data", "signer"}
  BY DEF DisposeData, Activate, ActivateHalf, ActivateTorn, disk, data, world, bounds, past
<1>2. KnownOf(a) /\ pc[a] \in Working \cap Effects
  BY <1>1 DEF TInv, Known, KnownOf, Working, Holding, Effects
<1>3. mem[a].person \in Person /\ mem[a].owner \in Person
  BY <1>2 DEF KnownOf
<1>4. /\ active \in Person \cup {None} /\ retired \subseteq Person /\ plays \subseteq Person
      /\ None \notin Person /\ (active \in retired => torn > 0)
      /\ memory \in Device /\ game \in Person \cup {None} /\ owed \subseteq Person
  BY SwitchConstants DEF TInv, TypeOK
<1>5. DirsOK' /\ JournalOK' /\ WorldOK'
  BY <1>1, SameTypes
<1>6. Known'
  <2>1. FailTo(a) \/ Goto(a, "signer") \/ Goto(a, "trust")
    BY DEF DisposeData, Activate, ActivateHalf, ActivateTorn
  <2> QED
    BY <1>1, <1>2, <2>1, KnownFail, KnownGoto
<1>7. CASE DisposeData(a)
  <2>1. UNCHANGED <<active, retired, faults, crashes, deletes, torn>>
    BY <1>7 DEF DisposeData, keys, bounds, past
  <2>2. DataOK'
    BY <1>1, <1>3, <1>4, <1>7 DEF DisposeData, DataOK
  <2> QED
    BY <1>1, <1>5, <1>6, <2>1, <2>2, SameTypes, StepTypes
<1>8. CASE Activate(a)
  <2> DEFINE new == IF mem[a].kind = "local" THEN mem[a].person ELSE None
  <2>1. UNCHANGED <<plays, game, memory, owed, faults, crashes, deletes, torn>>
    BY <1>8 DEF Activate, data, bounds, past
  <2>2. \/ UNCHANGED <<active, retired>>
        \/ active' = new /\ retired' = (retired \cup ({active} \ {None})) \ {new}
    BY <1>8 DEF Activate, keys, past
  <2>3. KeysOK'
    <3>1. new \in Person \cup {None}
      BY <1>3
    <3> HIDE DEF new
    <3> QED
      BY <1>4, <2>1, <2>2, <3>1 DEF KeysOK
  <2> QED
    BY <1>1, <1>5, <1>6, <2>1, <2>3, SameTypes, StepTypes
<1>9. CASE ActivateHalf(a)
  <2>1. KeysOK'
    BY <1>3, <1>4, <1>9 DEF ActivateHalf, KeysOK
  <2>2. DataOK'
    BY <1>9, SameTypes DEF ActivateHalf, data, past
  <2>3. CountsOK'
    BY <1>1, <1>9, SwitchConstants DEF ActivateHalf, CountsOK, TInv, TypeOK
  <2> QED
    BY <1>5, <1>6, <2>1, <2>2, <2>3, StepTypes
<1>10. CASE ActivateTorn(a)
  <2>1. torn \in 0..MaxTorn /\ torn' = torn + 1 /\ torn < MaxTorn /\ UNCHANGED <<faults, crashes, deletes>>
    BY <1>10 DEF ActivateTorn, TInv, TypeOK
  <2>2. KeysOK'
    BY <1>3, <1>4, <1>10, <2>1, SwitchConstants DEF ActivateTorn, KeysOK
  <2>3. DataOK'
    BY <1>10, SameTypes DEF ActivateTorn, data, past
  <2>4. CountsOK'
    BY <1>1, <2>1, SwitchConstants DEF CountsOK, TInv, TypeOK
  <2> QED
    BY <1>5, <1>6, <2>2, <2>3, <2>4, StepTypes
<1> QED
  BY <1>7, <1>8, <1>9, <1>10

\* Trust starts over for the live device.
LEMMA TrustTInv ==
  ASSUME IInv, TInv, IInv', NEW a \in Process, ResetTrust(a) \/ PublishRevocation(a)
  PROVE  TInv'
<1>1. /\ UNCHANGED <<staged, journal, active, retired, plays, game, announced, booted, mem,
                     faults, crashes, deletes, torn, left, owed, mishaps>>
      /\ pc[a] \in {"trust", "publish"}
  BY DEF ResetTrust, PublishRevocation, disk, keys, data, world, bounds, past
<1>2. KnownOf(a) /\ pc[a] \in Working \cap Effects
  BY <1>1 DEF TInv, Known, KnownOf, Working, Holding, Effects
<1>3. JournalOK' /\ KeysOK' /\ CountsOK'
  BY <1>1, SameTypes
<1>4. Known'
  <2>1. FailTo(a) \/ Goto(a, "publish") \/ Goto(a, "finish")
    BY DEF ResetTrust, PublishRevocation
  <2> QED
    BY <1>1, <1>2, <2>1, KnownFail, KnownGoto DEF Working, Holding, Effects
<1>5. CASE ResetTrust(a)
  <2>1. DirsOK'
    BY <1>1, <1>5, LiveTyped DEF ResetTrust, TInv, TypeOK, DirsOK, Dirs, NoDir
  <2>2. DataOK'
    BY <1>1, <1>5, LiveTyped DEF ResetTrust, TInv, TypeOK, DataOK
  <2>3. WorldOK'
    BY <1>1, <1>5 DEF ResetTrust, TInv, TypeOK, WorldOK
  <2> QED
    BY <1>3, <1>4, <2>1, <2>2, <2>3, StepTypes
<1>6. CASE PublishRevocation(a)
  <2>1. UNCHANGED <<live, memory, trusted>>
    BY <1>6 DEF PublishRevocation, disk, data, past
  <2>2. WorldOK'
    BY <1>1, <1>2, <1>6, <2>1 DEF PublishRevocation, KnownOf, TInv, TypeOK, WorldOK
  <2> QED
    BY <1>1, <1>3, <1>4, <2>1, <2>2, SameTypes, StepTypes
<1> QED
  BY <1>5, <1>6

\* The journal and the staging tree are removed, and korrid comes up.
LEMMA FinishTInv ==
  ASSUME IInv, TInv, IInv', NEW a \in Process,
         RemoveJournal(a) \/ Sweep(a) \/ Fault(a)
  PROVE  TInv'
<1>1. /\ UNCHANGED <<active, retired, plays, game, memory, trusted, announced, revoked, mem,
                     crashes, deletes, torn, left, owed, mishaps>>
      /\ pc[a] \in Working \cup {"sweep"} \/ Fault(a)
      /\ pc \in [Process -> Labels]
  BY DEF RemoveJournal, Sweep, Fault, keys, data, world, bounds, Working, Holding, IInv, Shape, past
<1>2. KeysOK' /\ DataOK' /\ WorldOK'
  BY <1>1, SameTypes
<1>3. CASE RemoveJournal(a)
  <2>1. UNCHANGED <<live, staged, booted, faults>> /\ journal' \in {journal, NoJournal}
    BY <1>3 DEF RemoveJournal, bounds, past
  <2>2. DirsOK' /\ CountsOK' /\ JournalOK'
    BY <1>1, <2>1, SameTypes DEF TInv, TypeOK, JournalOK
  <2>3. CASE FailTo(a) /\ UNCHANGED journal
    BY <1>1, <1>2, <2>2, <2>3, KnownFail, StepTypes
  <2>4. CASE Goto(a, "sweep") /\ journal' = NoJournal
    <3>1. \A b \in Process \ {a} : pc'[b] = pc[b] /\ mem'[b] = mem[b]
      BY <1>1, <2>4 DEF Goto
    <3>2. KnownOf(a)'
      BY <1>1, <2>4 DEF KnownOf, Goto, Working, Holding
    <3> QED
      BY <1>1, <1>2, <2>2, <2>4, <3>1, <3>2, KnownOne, StepTypes
  <2> QED
    BY <1>3, <2>3, <2>4 DEF RemoveJournal
<1>4. CASE Sweep(a)
  <2>1. UNCHANGED <<journal, faults>> /\ staged' = NoDir
    BY <1>4 DEF Sweep, bounds, past
  <2>2. \/ UNCHANGED <<live, booted>>
        \/ /\ booted' = live.event
           /\ live' = [live EXCEPT !.grants = IF @ = None THEN {} ELSE @]
    BY <1>4 DEF Sweep, ComeUp
  <2>3. DirsOK'
    BY <2>1, <2>2, LiveTyped DEF TInv, TypeOK, DirsOK, Dirs, Events, NoDir
  <2>4. Goto(a, "up") \/ Goto(a, "returned")
    BY <1>4 DEF Sweep, ComeUp
  <2>5. Known'
    BY <1>1, <2>1, <2>4, KnownGoto DEF Working, Holding, Effects
  <2> QED
    BY <1>1, <1>2, <2>1, <2>3, <2>5, SameTypes, StepTypes
<1>5. CASE Fault(a)
  <2>1. UNCHANGED <<live, staged, booted, journal>> /\ FailTo(a)
    BY <1>5 DEF Fault, disk, past
  <2>2. CountsOK'
    BY <1>1, <1>5, SwitchConstants DEF Fault, CountsOK, TInv, TypeOK
  <2>3. Known'
    BY <1>1, <2>1, KnownFail
  <2> QED
    BY <1>2, <2>1, <2>2, <2>3, SameTypes, StepTypes
<1> QED
  BY <1>3, <1>4, <1>5

\* The recovery takes what it knows from the journal.
LEMMA BootTInv ==
  ASSUME IInv, TInv, IInv', BootStep
  PROVE  TInv'
<1>1. /\ Boot \in Process /\ Boot \notin Call
      /\ pc \in [Process -> Labels] /\ mem \in [Process -> Locals]
  BY SwitchConstants DEF Process, IInv, Shape
<1>2. /\ UNCHANGED <<journal, active, plays, game, memory, trusted, announced, revoked,
                     faults, crashes, deletes, torn, left, owed, mishaps>>
      /\ retired' \subseteq retired
  BY DEF BootStep, BootStart, Rollback, disk, keys, data, world, bounds, past
<1>3. JournalOK' /\ DataOK' /\ WorldOK' /\ CountsOK'
  BY <1>2, SameTypes
<1>4. KeysOK'
  BY <1>2 DEF TInv, TypeOK, KeysOK
<1>5. DirsOK'
  <2>1. /\ staged' \in {staged, NoDir}
        /\ \/ UNCHANGED <<live, booted>>
           \/ /\ booted' = live.event
              /\ live' = [live EXCEPT !.grants = IF @ = None THEN {} ELSE @]
    BY DEF BootStep, BootStart, Rollback, ComeUp, disk, past
  <2> QED
    BY <2>1, LiveTyped DEF TInv, TypeOK, DirsOK, Dirs, Events, NoDir
<1>6. CASE \/ FailTo(Boot) /\ UNCHANGED mem
           \/ Goto(Boot, "up") /\ UNCHANGED mem
           \/ pc[Boot] = "rollback" /\ Goto(Boot, "abort") /\ UNCHANGED mem
  <2>1. Known'
    BY <1>1, <1>2, <1>6, KnownFail, KnownGoto DEF Working, Holding, Effects
  <2> QED
    BY <1>3, <1>4, <1>5, <2>1, StepTypes
<1>7. CASE /\ journal # NoJournal
           /\ mem' = [mem EXCEPT ![Boot] = [NoCall EXCEPT !.old = journal.old,
                      !.owner = journal.owner, !.kind = journal.kind,
                      !.disp = journal.disp, !.pub = journal.pub]]
           /\ Goto(Boot, IF journal.phase = "preparing" THEN "rollback" ELSE "complete")
  <2>1. \A b \in Process \ {Boot} : pc'[b] = pc[b] /\ mem'[b] = mem[b]
    BY <1>1, <1>7 DEF Goto
  <2>2. /\ mem'[Boot].old = journal.old /\ mem'[Boot].owner = journal.owner
        /\ mem'[Boot].pub = journal.pub
    BY <1>1, <1>7 DEF NoCall
  <2>3. /\ journal.old \in Device /\ journal.owner \in Person
        /\ (journal.pub => journal.old \in announced)
    BY <1>7 DEF TInv, TypeOK, Known
  <2>4. pc'[Boot] \in {"rollback", "complete"}
    BY <1>1, <1>7 DEF Goto
  <2>5. KnownOf(Boot)'
    BY <1>1, <1>2, <2>2, <2>3, <2>4 DEF KnownOf, Effects
  <2> QED
    BY <1>1, <1>2, <1>3, <1>4, <1>5, <2>1, <2>3, <2>5, KnownOne, StepTypes
<1> QED
  BY <1>6, <1>7 DEF BootStep, BootStart, Rollback, ComeUp

\* korrid exits or dies: nobody works.
LEMMA StopTInv ==
  ASSUME IInv, TInv, IInv', Restart \/ Crash
  PROVE  TInv'
<1>1. /\ UNCHANGED <<live, staged, journal, active, retired, plays, game, memory, trusted, announced,
                     revoked, booted, faults, deletes, torn, left, owed, mishaps>>
      /\ Stop
  BY DEF Restart, Crash, disk, keys, data, world, bounds, past
<1>2. DirsOK' /\ JournalOK' /\ KeysOK' /\ DataOK' /\ WorldOK'
  BY <1>1, SameTypes
<1>3. CountsOK'
  <2>1. UNCHANGED crashes \/ (crashes < MaxCrashes /\ crashes' = crashes + 1)
    BY DEF Restart, Crash, bounds, past
  <2> QED
    BY <1>1, <2>1, SwitchConstants DEF CountsOK, TInv, TypeOK
<1>4. \A a \in Process : pc'[a] \in {"start", "idle", "gone"}
  BY <1>1 DEF Stop
<1>5. Known'
  BY <1>1, <1>4 DEF TInv, Known, Working, Holding
<1> QED
  BY <1>2, <1>3, <1>5, StepTypes

\* The rest of korrid works for the owner it was started with.
LEMMA RestTInv ==
  ASSUME IInv, TInv, IInv',
         \/ Play \/ Announce
         \/ \E p \in Player : Launch(p)
         \/ \E k \in Client : Pair(k)
         \/ \E p \in Person : DeleteRetired(p)
  PROVE  TInv'
<1>1. UNCHANGED <<staged, journal, active, memory, revoked, booted, pc, mem, faults, crashes,
                  torn, left>>
  BY DEF Play, Launch, Announce, Pair, DeleteRetired, disk, keys, data, world, bounds, past
<1>2. JournalOK'
  BY <1>1, SameTypes
<1>3. booted.owner \in Person /\ booted.device \in Device
  BY DEF TInv, TypeOK, Events
<1>4. announced \subseteq announced' /\ announced' \subseteq Device
  BY <1>3 DEF Play, Launch, Announce, Pair, DeleteRetired, world, TInv, TypeOK, past
<1>5. Known'
  BY <1>1, <1>4, KnownMoves
<1>6. DataOK' /\ KeysOK'
  <2>1. /\ \/ plays' \in {plays, plays \cup {game}} /\ game # None /\ game' = None
           \/ plays' = plays /\ game' \in {game} \cup Player
        /\ owed' \subseteq owed /\ retired' \subseteq retired
    BY DEF Play, Launch, Announce, Pair, DeleteRetired, data, keys, past
  <2> QED
    BY <1>1, <2>1, SwitchConstants DEF TInv, TypeOK, DataOK, KeysOK
<1>7. CountsOK'
  <2>1. /\ UNCHANGED deletes \/ (deletes < MaxDeletes /\ deletes' = deletes + 1)
        /\ mishaps' \subseteq mishaps \cup {"delete"}
    BY DEF Play, Launch, Announce, Pair, DeleteRetired, bounds, past
  <2> QED
    BY <1>1, <2>1, SwitchConstants DEF CountsOK, TInv, TypeOK
<1>8. DirsOK' /\ WorldOK'
  <2>1. CASE UNCHANGED <<live, trusted>>
    BY <1>1, <1>4, <2>1 DEF TInv, TypeOK, DirsOK, WorldOK
  <2>2. ASSUME NEW k \in Client, Pair(k) PROVE DirsOK' /\ WorldOK'
    <3>1. live.grants \in SUBSET Client
      BY <2>2, LiveTyped DEF Pair
    <3>2. live' = [live EXCEPT !.grants = @ \cup {k}] /\ trusted' = trusted \cup {<<k, live.device>>}
      BY <2>2 DEF Pair
    <3>3. DirsOK'
      BY <1>1, <3>1, <3>2, LiveTyped DEF TInv, TypeOK, DirsOK, Dirs, NoDir
    <3>4. WorldOK'
      BY <1>1, <1>4, <3>2, LiveTyped DEF TInv, TypeOK, WorldOK
    <3> QED
      BY <3>3, <3>4
  <2> QED
    BY <2>1, <2>2 DEF Play, Launch, Announce, DeleteRetired, disk, world, past
<1> QED
  BY <1>2, <1>5, <1>6, <1>7, <1>8, StepTypes

\* Every step keeps the types.
LEMMA NextTInv == IInv /\ TInv /\ [Next]_vars => TInv'
<1> SUFFICES ASSUME IInv, TInv, [Next]_vars PROVE TInv'
  OBVIOUS
<1>1. IInv'
  BY NextIInv
<1>2. CASE \E c \in Call, p \in Person, kind \in {"local", "nip46"},
              disp \in {"transfer", "delete"} : Begin(c, p, kind, disp)
  BY <1>1, <1>2, BeginTInv
<1>3. CASE \E c \in Call : CallStep(c)
  BY <1>1, <1>3, StageTInv, ApproveTInv, WriteTInv, ExchangeTInv DEF CallStep
<1>4. CASE \E a \in Process : CommitStep(a) \/ ActivateHalf(a) \/ ActivateTorn(a) \/ Fault(a)
  BY <1>1, <1>4, CompleteTInv, EffectTInv, TrustTInv, FinishTInv DEF CommitStep
<1>5. CASE UNCHANGED vars
  <2>1. /\ UNCHANGED <<live, staged, journal, active, retired, plays, game, memory, trusted,
                       announced, revoked>>
        /\ UNCHANGED <<booted, pc, mem, faults, crashes, deletes, torn, left, owed, mishaps>>
    BY <1>5 DEF vars, disk, keys, data, world, bounds, past
  <2>2. Known'
    BY <2>1, KnownMoves
  <2> QED
    BY <1>1, <2>1, <2>2, SameTypes, StepTypes
<1> QED
  BY <1>1, <1>2, <1>3, <1>4, <1>5, BootTInv, StopTInv, RestTInv DEF Next

\* The state of a switch keeps its types for any persons, calls, faults and
\* crashes, with calls that overlap: the live directory is a device with an owner,
\* no call runs before korrid is up, only published devices are revoked, and a key
\* is both active and retired only after a torn promotion.
THEOREM SwitchTypes == Spec => []TypeOK
<1>1. TInv => TypeOK
  BY DEF TInv
<1> QED
  BY InitIInv, InitTInv, NextIInv, NextTInv, <1>1, PTL DEF Spec

-----------------------------------------------------------------------------
(* One call at a time *)

\* A call before its exchange: it replaces the live identity, and what is staged
\* is its own.
StagingOf(c) ==
    /\ pc[c] \in Fresh \ {"idle"} =>
         /\ mem[c].old = live.device /\ mem[c].owner = live.event.owner
         /\ pc[c] \notin {"commit", "exchange"} => journal = NoJournal
         /\ pc[c] = "stage" => staged = NoDir
         /\ pc[c] # "stage" =>
              /\ staged.device = c /\ staged.grants = None
              /\ staged.remote = IF mem[c].kind = "nip46" THEN mem[c].person ELSE None
    /\ pc[c] \in {"bind", "revoke", "prepare", "commit", "exchange"} =>
         /\ mem[c].person # mem[c].owner
         /\ mem[c].kind = "local" /\ "delete" \notin mishaps => mem[c].person \in retired
    /\ pc[c] \in {"revoke", "prepare", "commit", "exchange"} =>
         staged.event = [device |-> c, owner |-> mem[c].person]
    /\ pc[c] = "commit" => journal = Entry("preparing", mem[c])

\* A call after its commit: it never gets beyond the trust store, whose directory
\* the new identity does not have yet.
SwitchedOf(c) ==
    /\ pc[c] \notin {"publish", "finish", "rollback", "abort", "sweep"}
    /\ pc[c] \in {"exchange", "complete", "data", "signer", "trust"} =>
         journal = Entry("commit", mem[c])
    /\ pc[c] \in {"complete", "data", "signer", "trust"} =>
         live.device = c /\ live.event.owner = mem[c].person /\ live.grants = None

\* The recovery works on the journaled switch, and what it has done so far.
Recovering ==
    LET l == mem[Boot]
    IN  /\ pc[Boot] \in {"rollback", "abort"} => journal.phase = "preparing"
        /\ pc[Boot] \in Installed => journal = Entry("commit", l)
        /\ pc[Boot] = "sweep" => journal = NoJournal
        /\ pc[Boot] \in Effects \cup {"finish"} =>
             live.device # l.old /\ l.person = live.event.owner
        /\ pc[Boot] \in {"signer", "trust", "publish", "finish"} => plays \cap owed = {}
        /\ pc[Boot] \in {"trust", "publish", "finish"} =>
             active = IF l.kind = "local" THEN l.person ELSE None
        /\ pc[Boot] \in {"publish", "finish"} => memory = live.device
        /\ pc[Boot] = "finish" /\ l.pub => l.old \in revoked

\* While no switch is committed everything is the owner's.
Settled ==
    journal.phase # "commit" =>
        /\ active \in {live.event.owner, None}
        /\ live.event.owner \in {active, live.remote}
        /\ plays \cap owed = {}
        /\ memory = live.device
        /\ \A d \in Device : <<d, TRUE>> \in left => d \in revoked

\* The directories o and n are the old and the new identity of the journaled switch,
\* and nothing is lost on the way from one to the other.
Between(o, n) ==
    /\ o.device = journal.old
    /\ o.event = [device |-> journal.old, owner |-> journal.owner]
    /\ Owned(n) /\ n.device # journal.old /\ n.event.owner # journal.owner
    /\ n.remote = IF journal.kind = "nip46" THEN n.event.owner ELSE None
    /\ plays \cap owed \subseteq {journal.owner} /\ n.event.owner \notin owed
    /\ active \in {journal.owner, None} \/ (journal.kind = "local" /\ active = n.event.owner)
    /\ journal.kind = "local" /\ "delete" \notin mishaps => n.event.owner \in retired \cup {active}
    /\ \A d \in Device :
          <<d, TRUE>> \in left => d \in revoked \/ (d = journal.old /\ journal.pub)
    /\ <<journal.old, journal.pub>> \in left

\* A committed switch has not exchanged the directories, or it has.
Committed ==
    journal.phase = "commit" => Between(live, staged) \/ Between(staged, live)

\* The device keys given up so far are not those of calls still to exchange.
GivenUp == \A c \in Call : pc[c] \in Fresh => \A t \in left : t[1] # c

SInv ==
    /\ \A c, d \in Running : c = d
    /\ \A c \in Call : StagingOf(c) /\ SwitchedOf(c)
    /\ Recovering /\ Settled /\ Committed /\ GivenUp

-----------------------------------------------------------------------------

\* The first start.
LEMMA InitSInv == Init => SInv
<1> SUFFICES ASSUME Init PROVE SInv
  OBVIOUS
<1>1. \A c \in Call : pc[c] = "idle"
  BY SwitchConstants DEF Init, Process
<1>2. pc[Boot] = "up" /\ journal.phase = "none" /\ left = {} /\ Running = {}
  BY <1>1 DEF Init, Process, NoJournal, Running
<1>3. \A c \in Call : StagingOf(c) /\ SwitchedOf(c)
  BY <1>1 DEF StagingOf, SwitchedOf
<1>4. Recovering
  BY <1>2 DEF Recovering, Installed, Effects
<1>5. Settled
  BY <1>2 DEF Init, Settled
<1> QED
  BY <1>2, <1>3, <1>4, <1>5 DEF SInv, Committed, GivenUp

\* A step of a call at work.
LEMMA CallSInv ==
  ASSUME IInv, SInv, NEW c \in Call, pc[c] \notin {"idle", "returned", "gone"},
         \A b \in Process \ {c} : pc'[b] = pc[b],
         StagingOf(c)', SwitchedOf(c)', Settled', Committed', GivenUp'
  PROVE  SInv'
<1>1. c \in Process /\ Boot \in Process /\ c # Boot /\ Call \subseteq Process
  BY SwitchConstants DEF Process
<1>2. \A d \in Call \ {c} : pc[d] \in {"idle", "returned", "gone"}
  BY DEF SInv, Running
<1>3. pc[Boot] = "up"
  BY DEF IInv, Shape, Running
<1>4. \A d \in Call \ {c} : pc'[d] \in {"idle", "returned", "gone"}
  BY <1>1, <1>2
<1>5. \A d \in Call : StagingOf(d)' /\ SwitchedOf(d)'
  BY <1>4 DEF StagingOf, SwitchedOf, Fresh
<1>6. Recovering'
  BY <1>1, <1>3 DEF Recovering, Installed, Effects
<1>7. \A d, e \in Running' : d = e
  BY <1>4 DEF Running
<1> QED
  BY <1>5, <1>6, <1>7 DEF SInv

\* A step of the recovery.
LEMMA RecoverySInv ==
  ASSUME IInv, SInv, pc[Boot] # "up",
         \A b \in Process \ {Boot} : pc'[b] = pc[b], UNCHANGED left,
         Recovering', Settled', Committed'
  PROVE  SInv'
<1>1. Boot \notin Call /\ Call \subseteq Process
  BY SwitchConstants DEF Process
<1>2. \A c \in Call : pc'[c] = pc[c] /\ pc[c] \in {"idle", "returned", "gone"}
  BY <1>1 DEF IInv, Shape, Running
<1>3. \A c \in Call : StagingOf(c)' /\ SwitchedOf(c)'
  BY <1>2 DEF StagingOf, SwitchedOf, Fresh
<1>4. GivenUp'
  BY <1>2 DEF SInv, GivenUp
<1>5. Running' = {}
  BY <1>2 DEF Running
<1> QED
  BY <1>3, <1>4, <1>5 DEF SInv

\* Steps that change nothing of what a switch is about.
SameSwitch ==
    /\ live'.device = live.device /\ live'.event = live.event /\ live'.remote = live.remote
    /\ UNCHANGED <<journal, active, plays, memory, revoked, left, owed, mishaps>>

LEMMA SettledStays ==
  ASSUME SInv, SameSwitch
  PROVE  Settled'
  BY DEF SInv, Settled, SameSwitch

LEMMA CommittedStays ==
  ASSUME SInv, SameSwitch, journal.phase = "commit" => UNCHANGED <<staged, retired>>
  PROVE  Committed'
  BY DEF SInv, Committed, Between, SameSwitch, Owned

\* What is given up stays given up.
LEMMA GivenUpStays ==
  ASSUME SInv, UNCHANGED left, \A c \in Call : pc'[c] \in Fresh => pc[c] \in Fresh
  PROVE  GivenUp'
  BY DEF SInv, GivenUp

\* A call that fails answers; what it leaves staged concerns nobody unless it is
\* committed.
LEMMA CallFails ==
  ASSUME IInv, SInv, NEW c \in Call, pc[c] \notin {"idle", "returned", "gone"}, FailTo(c),
         SameSwitch, UNCHANGED booted, journal.phase = "commit" => UNCHANGED <<staged, retired>>
  PROVE  SInv'
<1>1. /\ c \in Process /\ c # Boot /\ Boot \in Process /\ Call \subseteq Process
      /\ pc \in [Process -> Labels] /\ pc[Boot] = "up"
  BY SwitchConstants DEF Process, IInv, Shape, Running
<1>2. pc' = [pc EXCEPT ![c] = "returned"]
  BY <1>1 DEF FailTo, Goto
<1>3. pc'[c] = "returned" /\ \A b \in Process \ {c} : pc'[b] = pc[b]
  BY <1>1, <1>2
<1>4. StagingOf(c)' /\ SwitchedOf(c)'
  BY <1>3 DEF StagingOf, SwitchedOf, Fresh
<1>5. Settled' /\ Committed'
  BY <1>1, <1>3, SettledStays, CommittedStays
<1>6. GivenUp'
  BY <1>1, <1>3, GivenUpStays DEF SameSwitch, Fresh
<1> QED
  BY <1>3, <1>4, <1>5, <1>6, CallSInv

\* A recovery that fails starts again.
LEMMA RecoveryFails ==
  ASSUME IInv, SInv, pc[Boot] # "up", FailTo(Boot), SameSwitch,
         journal.phase = "commit" => UNCHANGED <<staged, retired>>
  PROVE  SInv'
<1>1. Boot \in Process /\ pc \in [Process -> Labels]
  BY SwitchConstants DEF Process, IInv, Shape
<1>2. pc' = [pc EXCEPT ![Boot] = "start"]
  BY DEF FailTo, Goto
<1>3. pc'[Boot] = "start" /\ \A b \in Process \ {Boot} : pc'[b] = pc[b]
  BY <1>1, <1>2
<1>4. Settled' /\ Committed'
  BY <1>3, SettledStays, CommittedStays
<1>5. Recovering'
  BY <1>3 DEF Recovering, Installed, Effects
<1> QED
  BY <1>3, <1>4, <1>5, RecoverySInv DEF SameSwitch

-----------------------------------------------------------------------------
(* The steps of a call that has the switch to itself *)

\* A call begins while no other runs.
LEMMA BeginSInv ==
  ASSUME IInv, TInv, SInv, "overlap" \notin mishaps',
         NEW c \in Call, NEW p \in Person, NEW kind \in {"local", "nip46"},
         NEW disp \in {"transfer", "delete"}, Begin(c, p, kind, disp)
  PROVE  SInv'
<1>1. /\ c \in Process /\ c # Boot /\ Boot \in Process /\ Call \subseteq Process
      /\ pc \in [Process -> Labels] /\ mem \in [Process -> Locals]
  BY SwitchConstants DEF Process, IInv, Shape
<1>2. Running = {}
  BY DEF Begin
<1>3. /\ UNCHANGED <<live, journal, active, retired, plays, memory, revoked, booted, left, owed, mishaps>>
      /\ pc[Boot] = "up" /\ pc[c] = "idle"
      /\ (journal # NoJournal => UNCHANGED staged)
  BY <1>2 DEF Begin, keys, data, world, bounds, past
<1>4. SameSwitch /\ (journal.phase = "commit" => UNCHANGED <<staged, retired>>)
  BY <1>3 DEF SameSwitch, NoJournal
<1>5. /\ \A b \in Process \ {c} : pc'[b] = pc[b]
      /\ pc'[c] \in {"returned", "stage"}
  BY <1>1 DEF Begin, Goto, FailTo
<1>6. \A d \in Call \ {c} : pc'[d] \in {"idle", "returned", "gone"}
  BY <1>1, <1>2, <1>5 DEF Running
<1>7. \A d, e \in Running' : d = e
  BY <1>6 DEF Running
<1>8. Settled' /\ Committed'
  BY <1>1, <1>3, <1>4, <1>5, SettledStays, CommittedStays
<1>9. GivenUp'
  BY <1>1, <1>3, <1>5, GivenUpStays DEF Fresh
<1>10. Recovering'
  BY <1>1, <1>3, <1>5 DEF Recovering, Installed, Effects
<1>11. SwitchedOf(c)'
  BY <1>5 DEF SwitchedOf
<1>12. StagingOf(c)'
  <2>1. CASE pc'[c] = "returned"
    BY <2>1 DEF StagingOf, Fresh
  <2>2. CASE pc'[c] = "stage"
    <3>1. /\ journal = NoJournal /\ staged' = NoDir
          /\ mem' = [mem EXCEPT ![c] = [old |-> live.device, owner |-> live.event.owner,
                         person |-> p, kind |-> kind, disp |-> disp, pub |-> FALSE]]
      BY <1>1, <2>2 DEF Begin, Goto, FailTo
    <3>2. mem'[c].old = live.device /\ mem'[c].owner = live.event.owner
      BY <1>1, <3>1
    <3> QED
      BY <1>3, <2>2, <3>1, <3>2 DEF StagingOf
  <2> QED
    BY <1>5, <2>1, <2>2
<1>13. \A d \in Call : StagingOf(d)' /\ SwitchedOf(d)'
  BY <1>6, <1>11, <1>12 DEF StagingOf, SwitchedOf, Fresh
<1> QED
  BY <1>7, <1>8, <1>9, <1>10, <1>13 DEF SInv

\* A call stages its own device key.
LEMMA StageSInv ==
  ASSUME IInv, TInv, SInv, NEW c \in Call, Stage(c)
  PROVE  SInv'
<1>1. /\ c \in Process /\ c # Boot /\ Boot \in Process /\ Call \subseteq Process
      /\ pc \in [Process -> Labels] /\ mem \in [Process -> Locals]
  BY SwitchConstants DEF Process, IInv, Shape
<1>2. /\ UNCHANGED <<live, journal, active, retired, plays, memory, revoked, booted, left, owed, mishaps>>
      /\ pc[c] = "stage"
  BY DEF Stage, keys, data, world, past
<1>3. StagingOf(c)
  BY DEF SInv
<1>4. journal = NoJournal
  BY <1>2, <1>3 DEF StagingOf, Fresh
<1>5. SameSwitch /\ (journal.phase = "commit" => UNCHANGED <<staged, retired>>)
  BY <1>2, <1>4 DEF SameSwitch, NoJournal
<1>6. CASE FailTo(c)
  BY <1>2, <1>5, <1>6, CallFails
<1>7. CASE /\ staged' = [NoDir EXCEPT !.device = c,
                            !.remote = IF mem[c].kind = "nip46" THEN mem[c].person ELSE None]
           /\ mem' = [mem EXCEPT ![c].pub = mem[c].old \in announced]
           /\ Goto(c, IF mem[c].kind = "local" THEN "import" ELSE "approve")
  <2>1. pc'[c] \in {"import", "approve"} /\ \A b \in Process \ {c} : pc'[b] = pc[b]
    BY <1>1, <1>7 DEF Goto
  <2>2. mem[c] \in Locals /\ mem'[c] = [mem[c] EXCEPT !.pub = mem[c].old \in announced]
    BY <1>1, <1>7
  <2>3. /\ mem'[c].old = mem[c].old /\ mem'[c].owner = mem[c].owner
        /\ mem'[c].person = mem[c].person /\ mem'[c].kind = mem[c].kind
    BY <2>2 DEF Locals
  <2>4. /\ staged'.device = c /\ staged'.grants = None
        /\ staged'.remote = IF mem[c].kind = "nip46" THEN mem[c].person ELSE None
    BY <1>7 DEF NoDir
  <2>5. mem[c].old = live.device /\ mem[c].owner = live.event.owner
    BY <1>2, <1>3 DEF StagingOf, Fresh
  <2>6. StagingOf(c)' /\ SwitchedOf(c)'
    BY <1>2, <1>4, <2>1, <2>3, <2>4, <2>5 DEF StagingOf, SwitchedOf
  <2>7. Settled' /\ Committed'
    BY <1>1, <1>2, <1>5, <2>1, SettledStays, CommittedStays
  <2>8. GivenUp'
    BY <1>1, <1>2, <2>1, GivenUpStays DEF Fresh
  <2> QED
    BY <1>2, <2>1, <2>6, <2>7, <2>8, CallSInv
<1> QED
  BY <1>6, <1>7 DEF Stage

\* The replacement signs, and what is staged is bound to it.
LEMMA ApproveSInv ==
  ASSUME IInv, TInv, SInv, NEW c \in Call, Import(c) \/ Approve(c) \/ Bind(c) \/ SignRevocation(c)
  PROVE  SInv'
<1>1. /\ c \in Process /\ c # Boot /\ Boot \in Process /\ Call \subseteq Process
      /\ pc \in [Process -> Labels]
  BY SwitchConstants DEF Process, IInv, Shape
<1>2. /\ UNCHANGED <<live, journal, active, plays, memory, revoked, booted, left, owed, mishaps, mem>>
      /\ pc[c] \in {"import", "approve", "bind", "revoke"}
  BY DEF Import, Approve, Bind, SignRevocation, disk, keys, data, world, past
<1>3. StagingOf(c)
  BY DEF SInv
<1>4. /\ journal = NoJournal /\ mem[c].old = live.device /\ mem[c].owner = live.event.owner
      /\ staged.device = c /\ staged.grants = None
      /\ staged.remote = IF mem[c].kind = "nip46" THEN mem[c].person ELSE None
  BY <1>2, <1>3 DEF StagingOf, Fresh
<1>5. SameSwitch /\ (journal.phase = "commit" => UNCHANGED <<staged, retired>>)
  BY <1>2, <1>4 DEF SameSwitch, NoJournal
<1>6. CASE FailTo(c)
  BY <1>2, <1>5, <1>6, CallFails
<1>7. ASSUME NEW l \in {"approve", "bind", "revoke", "prepare"}, Goto(c, l), StagingOf(c)'
      PROVE  SInv'
  <2>1. pc'[c] = l /\ \A b \in Process \ {c} : pc'[b] = pc[b]
    BY <1>1, <1>7 DEF Goto
  <2>2. SwitchedOf(c)'
    BY <2>1, <1>7 DEF SwitchedOf
  <2>3. Settled' /\ Committed'
    BY <1>1, <1>2, <1>5, <2>1, SettledStays, CommittedStays
  <2>4. GivenUp'
    BY <1>1, <1>2, <2>1, GivenUpStays DEF Fresh
  <2> QED
    BY <1>2, <1>7, <2>1, <2>2, <2>3, <2>4, CallSInv
<1>8. CASE Import(c)
  <2>1. Goto(c, "approve") => pc'[c] = "approve" /\ staged' = staged
    BY <1>1, <1>8 DEF Import, Goto, disk, past
  <2>2. Goto(c, "approve") => StagingOf(c)'
    BY <1>2, <1>4, <2>1 DEF StagingOf
  <2> QED
    BY <1>6, <1>7, <1>8, <2>2 DEF Import
<1>9. CASE Approve(c)
  <2>1. CASE /\ IF mem[c].kind = "local" THEN mem[c].person \in retired ELSE staged # NoDir
             /\ mem[c].person # mem[c].owner
             /\ staged' = IF mem[c].kind = "local" THEN staged
                          ELSE [staged EXCEPT !.remote = mem[c].person]
             /\ Goto(c, "bind") /\ UNCHANGED retired
    <3>1. pc'[c] = "bind"
      BY <1>1, <2>1 DEF Goto
    <3>2. mem[c].kind \in {"local", "nip46"} /\ staged \in Directory
      BY <1>1 DEF IInv, Shape, Locals
    <3>3. /\ staged'.device = c /\ staged'.grants = None
          /\ staged'.remote = IF mem[c].kind = "nip46" THEN mem[c].person ELSE None
      BY <1>4, <2>1, <3>2 DEF Directory
    <3>4. StagingOf(c)'
      BY <1>2, <1>4, <2>1, <3>1, <3>3 DEF StagingOf
    <3> QED
      BY <1>7, <2>1, <3>4
  <2> QED
    BY <1>6, <1>9, <2>1 DEF Approve
<1>10. CASE Bind(c)
  <2>1. CASE /\ staged' = [staged EXCEPT !.event = [device |-> c, owner |-> mem[c].person]]
             /\ Goto(c, "revoke") /\ UNCHANGED retired /\ pc[c] = "bind"
    <3>1. pc'[c] = "revoke" /\ staged \in Directory
      BY <1>1, <2>1 DEF Goto, IInv, Shape
    <3>2. /\ staged'.device = c /\ staged'.grants = None
          /\ staged'.remote = IF mem[c].kind = "nip46" THEN mem[c].person ELSE None
          /\ staged'.event = [device |-> c, owner |-> mem[c].person]
      BY <1>4, <2>1, <3>1 DEF Directory
    <3>3. StagingOf(c)'
      BY <1>2, <1>3, <1>4, <2>1, <3>1, <3>2 DEF StagingOf
    <3> QED
      BY <1>7, <2>1, <3>3
  <2> QED
    BY <1>6, <1>10, <2>1 DEF Bind, keys, past
<1>11. CASE SignRevocation(c)
  <2>1. Goto(c, "prepare") => pc'[c] = "prepare" /\ pc[c] = "revoke" /\ staged' = staged /\ retired' = retired
    BY <1>1, <1>11 DEF SignRevocation, Goto, disk, keys, past
  <2>2. Goto(c, "prepare") => StagingOf(c)'
    BY <1>2, <1>3, <1>4, <2>1 DEF StagingOf
  <2> QED
    BY <1>6, <1>7, <1>11, <2>2 DEF SignRevocation
<1> QED
  BY <1>8, <1>9, <1>10, <1>11

\* The journal is written; with the commit the switch is decided.
LEMMA WriteSInv ==
  ASSUME IInv, TInv, SInv, NEW c \in Call, WritePreparing(c) \/ WriteCommit(c)
  PROVE  SInv'
<1>1. /\ c \in Process /\ c # Boot /\ Boot \in Process /\ Call \subseteq Process
      /\ pc \in [Process -> Labels] /\ mem \in [Process -> Locals] /\ mem[c] \in Locals
  BY SwitchConstants DEF Process, IInv, Shape
<1>2. /\ UNCHANGED <<live, staged, active, retired, plays, memory, revoked, booted, mishaps, mem>>
      /\ pc[c] \in {"prepare", "commit"}
  BY DEF WritePreparing, WriteCommit, keys, data, world, past
<1>3. StagingOf(c)
  BY DEF SInv
<1>4. /\ mem[c].old = live.device /\ mem[c].owner = live.event.owner
      /\ mem[c].person # mem[c].owner
      /\ (mem[c].kind = "local" /\ "delete" \notin mishaps => mem[c].person \in retired)
      /\ staged.device = c /\ staged.grants = None
      /\ staged.remote = IF mem[c].kind = "nip46" THEN mem[c].person ELSE None
      /\ staged.event = [device |-> c, owner |-> mem[c].person]
  BY <1>2, <1>3 DEF StagingOf, Fresh
<1>5. CASE FailTo(c) /\ UNCHANGED <<journal, left, owed>>
  BY <1>2, <1>5, CallFails DEF SameSwitch
<1>6. CASE /\ WritePreparing(c) /\ journal = NoJournal /\ UNCHANGED <<left, owed>>
           /\ journal' = Entry("preparing", mem[c]) /\ Goto(c, "commit")
  <2>1. pc'[c] = "commit" /\ \A b \in Process \ {c} : pc'[b] = pc[b]
    BY <1>1, <1>6 DEF Goto
  <2>2. StagingOf(c)' /\ SwitchedOf(c)'
    BY <1>2, <1>4, <1>6, <2>1 DEF StagingOf, SwitchedOf
  <2>3. journal.phase = "none" /\ journal'.phase = "preparing"
    BY <1>6 DEF NoJournal, Entry
  <2>4. Settled'
    BY <1>1, <1>2, <1>6, <2>1, <2>3 DEF SInv, Settled
  <2>5. Committed'
    BY <2>3 DEF Committed
  <2>6. GivenUp'
    BY <1>1, <1>2, <1>6, <2>1, GivenUpStays DEF Fresh
  <2> QED
    BY <1>2, <2>1, <2>2, <2>4, <2>5, <2>6, CallSInv
<1>7. CASE /\ WriteCommit(c) /\ journal = Entry("preparing", mem[c])
           /\ journal' = Entry("commit", mem[c]) /\ Goto(c, "exchange")
           /\ left' = left \cup {<<mem[c].old, mem[c].pub>>}
           /\ owed' = (owed \cup {mem[c].owner}) \ {mem[c].person}
  <2>1. pc'[c] = "exchange" /\ \A b \in Process \ {c} : pc'[b] = pc[b]
    BY <1>1, <1>7 DEF Goto
  <2>2. StagingOf(c)' /\ SwitchedOf(c)'
    BY <1>2, <1>4, <1>7, <2>1 DEF StagingOf, SwitchedOf
  <2>3. /\ journal.phase = "preparing" /\ journal'.phase = "commit"
        /\ journal'.old = mem[c].old /\ journal'.owner = mem[c].owner
        /\ journal'.kind = mem[c].kind /\ journal'.pub = mem[c].pub
    BY <1>7 DEF Entry
  <2>4. Settled'
    BY <2>3 DEF Settled
  <2>5. \A d \in Call : pc[d] \in Fresh => mem[c].old # d
    BY <1>1 DEF IInv, FreshIsUnused
  <2>6. GivenUp'
    <3>1. \A d \in Call : pc'[d] \in Fresh => pc[d] \in Fresh
      BY <1>1, <1>2, <2>1 DEF Fresh
    <3>2. \A t \in left' : t \in left \/ t[1] = mem[c].old
      BY <1>7
    <3> QED
      BY <2>5, <3>1, <3>2 DEF SInv, GivenUp
  <2>7. /\ live.event = [device |-> mem[c].old, owner |-> mem[c].owner]
        /\ c # None /\ c # mem[c].old
    <3>1. live.event \in [device : Device, owner : Person] /\ live.event.device = live.device
      BY LiveTyped DEF IInv, LiveIsOwned, Owned
    <3>2. c # live.device
      BY <1>2 DEF IInv, FreshIsUnused, Fresh
    <3> QED
      BY <1>4, <3>1, <3>2, SwitchConstants
  <2>8. /\ active \in {live.event.owner, None} /\ plays \cap owed = {}
        /\ \A d \in Device : <<d, TRUE>> \in left => d \in revoked
    BY <2>3 DEF SInv, Settled
  <2>9. Owned(staged) /\ staged.event.owner = mem[c].person
    BY <1>4, <2>7 DEF Owned
  <2>10. \A d \in Device : <<d, TRUE>> \in left' => d \in revoked \/ (d = mem[c].old /\ mem[c].pub)
    BY <1>7, <2>8
  <2>11. /\ plays' \cap owed' \subseteq {mem[c].owner} /\ mem[c].person \notin owed'
         /\ <<mem[c].old, mem[c].pub>> \in left'
    BY <1>2, <1>7, <2>8
  <2>12. Between(live, staged)'
    BY <1>2, <1>4, <2>3, <2>7, <2>8, <2>9, <2>10, <2>11 DEF Between, Owned
  <2> QED
    BY <1>2, <2>1, <2>2, <2>4, <2>6, <2>12, CallSInv DEF Committed
<1> QED
  BY <1>5, <1>6, <1>7 DEF WritePreparing, WriteCommit, past

\* The call exchanges the directories it committed.
LEMMA ExchangeSInv ==
  ASSUME IInv, TInv, SInv, NEW c \in Call, Exchange(c)
  PROVE  SInv'
<1>1. /\ c \in Process /\ c # Boot /\ Boot \in Process /\ Call \subseteq Process
      /\ pc \in [Process -> Labels]
  BY SwitchConstants DEF Process, IInv, Shape
<1>2. /\ UNCHANGED <<journal, active, retired, plays, memory, revoked, booted, left, owed, mishaps, mem>>
      /\ pc[c] = "exchange"
  BY DEF Exchange, keys, data, world, past
<1>3. StagingOf(c) /\ SwitchedOf(c)
  BY DEF SInv
<1>4. /\ mem[c].old = live.device /\ staged.device = c /\ staged.grants = None
      /\ staged.event = [device |-> c, owner |-> mem[c].person]
      /\ journal = Entry("commit", mem[c])
  BY <1>2, <1>3 DEF StagingOf, SwitchedOf, Fresh
<1>5. c # live.device
  BY <1>2 DEF IInv, FreshIsUnused, Fresh
<1>6. ~Holds(live, [device |-> c, owner |-> mem[c].person])
  BY <1>5 DEF Holds, Owned
<1>7. \/ UNCHANGED <<live, staged>> /\ FailTo(c)
      \/ live' = staged /\ staged' = live /\ Goto(c, "complete")
  BY <1>6 DEF Exchange
<1>8. CASE UNCHANGED <<live, staged>> /\ FailTo(c)
  BY <1>2, <1>8, CallFails DEF SameSwitch
<1>9. CASE live' = staged /\ staged' = live /\ Goto(c, "complete")
  <2>1. pc'[c] = "complete" /\ \A b \in Process \ {c} : pc'[b] = pc[b]
    BY <1>1, <1>9 DEF Goto
  <2>2. StagingOf(c)' /\ SwitchedOf(c)'
    BY <1>2, <1>4, <1>9, <2>1 DEF StagingOf, SwitchedOf, Fresh
  <2>3. journal.phase = "commit" /\ journal.old = mem[c].old
    BY <1>4 DEF Entry
  <2>4. Settled'
    BY <1>2, <2>3 DEF Settled
  <2>5. Between(live, staged)
    BY <1>4, <1>5, <2>3 DEF SInv, Committed, Between
  <2>6. Between(staged, live)'
    BY <1>2, <1>9, <2>5 DEF Between, Owned
  <2>7. GivenUp'
    BY <1>1, <1>2, <2>1, GivenUpStays DEF Fresh
  <2> QED
    BY <1>2, <2>1, <2>2, <2>4, <2>6, <2>7, CallSInv DEF Committed
<1> QED
  BY <1>7, <1>8, <1>9

\* A call completes what it exchanged.
LEMMA CompleteCallSInv ==
  ASSUME IInv, TInv, SInv, NEW c \in Call, Complete(c)
  PROVE  SInv'
<1>1. /\ c \in Process /\ c # Boot /\ Boot \in Process /\ Call \subseteq Process
      /\ pc \in [Process -> Labels] /\ mem \in [Process -> Locals] /\ mem[c] \in Locals
  BY SwitchConstants DEF Process, IInv, Shape
<1>2. /\ UNCHANGED <<journal, active, retired, plays, memory, revoked, booted, left, owed, mishaps>>
      /\ pc[c] = "complete"
  BY DEF Complete, keys, data, world, past
<1>3. /\ journal = Entry("commit", mem[c]) /\ live.device = c
      /\ live.event.owner = mem[c].person /\ live.grants = None
  BY <1>2 DEF SInv, SwitchedOf
<1>4. DeviceOf(live) = c /\ c # mem[c].old
  <2>1. DeviceOf(live) = live.device
    BY DEF IInv, LiveIsOwned, Owned, DeviceOf
  <2>2. live.device # mem[c].old
    BY <1>2 DEF IInv, InstalledIsLive, Installed, Running
  <2> QED
    BY <1>3, <2>1, <2>2
<1>5. /\ UNCHANGED <<live, staged>>
      /\ \/ FailTo(c)
         \/ mem' = [mem EXCEPT ![c].person = live.event.owner] /\ Goto(c, "data")
  BY <1>4 DEF Complete
<1>6. SameSwitch
  BY <1>2, <1>5 DEF SameSwitch
<1>7. CASE FailTo(c)
  BY <1>2, <1>5, <1>6, <1>7, CallFails
<1>8. CASE mem' = [mem EXCEPT ![c].person = live.event.owner] /\ Goto(c, "data")
  <2>1. pc'[c] = "data" /\ \A b \in Process \ {c} : pc'[b] = pc[b]
    BY <1>1, <1>8 DEF Goto
  <2>2. mem'[c] = mem[c]
    BY <1>1, <1>3, <1>8 DEF Locals
  <2>3. StagingOf(c)' /\ SwitchedOf(c)'
    BY <1>2, <1>3, <1>5, <2>1, <2>2 DEF StagingOf, SwitchedOf, Fresh
  <2>4. Settled' /\ Committed'
    BY <1>1, <1>2, <1>5, <1>6, <2>1, SettledStays, CommittedStays
  <2>5. GivenUp'
    BY <1>1, <1>2, <2>1, GivenUpStays DEF Fresh
  <2> QED
    BY <1>2, <2>1, <2>3, <2>4, <2>5, CallSInv
<1> QED
  BY <1>5, <1>7, <1>8

-----------------------------------------------------------------------------
(* The effects of a committed switch, by its call or by the recovery *)

\* What the process that carries out the effects knows.
LEMMA EffectsOf ==
  ASSUME IInv, TInv, SInv, NEW a \in Process, pc[a] \in {"data", "signer", "trust"}
  PROVE  /\ journal = Entry("commit", mem[a]) /\ journal.phase = "commit"
         /\ journal.old = mem[a].old /\ journal.owner = mem[a].owner
         /\ journal.kind = mem[a].kind /\ journal.pub = mem[a].pub
         /\ mem[a].person = live.event.owner /\ mem[a].owner # mem[a].person
         /\ Between(staged, live)
<1>1. a \in Call \/ a = Boot
  BY DEF Process
<1>2. journal = Entry("commit", mem[a]) /\ mem[a].person = live.event.owner
  BY <1>1 DEF SInv, SwitchedOf, Recovering, Installed, Effects
<1>3. /\ journal.phase = "commit" /\ journal.old = mem[a].old /\ journal.owner = mem[a].owner
      /\ journal.kind = mem[a].kind /\ journal.pub = mem[a].pub
  BY <1>2 DEF Entry
<1>4. live.device # mem[a].old
  BY <1>1 DEF IInv, InstalledIsLive, Installed, Effects, Running
<1>5. Between(staged, live)
  BY <1>3, <1>4 DEF SInv, Committed, Between
<1> QED
  BY <1>2, <1>3, <1>5 DEF Between

\* A call goes on with an effect done.
LEMMA CallEffect ==
  ASSUME IInv, TInv, SInv, NEW c \in Call, pc[c] \in {"data", "signer"},
         NEW l \in {"signer", "trust"}, Goto(c, l),
         UNCHANGED <<live, journal, mem, left>>, Committed'
  PROVE  SInv'
<1>1. /\ c \in Process /\ c # Boot /\ Boot \in Process /\ Call \subseteq Process
      /\ pc \in [Process -> Labels]
  BY SwitchConstants DEF Process, IInv, Shape
<1>2. pc'[c] = l /\ \A b \in Process \ {c} : pc'[b] = pc[b]
  BY <1>1 DEF Goto
<1>3. SwitchedOf(c) /\ journal.phase = "commit"
  BY <1>1, EffectsOf DEF SInv
<1>4. SwitchedOf(c)'
  BY <1>2, <1>3 DEF SwitchedOf
<1>5. StagingOf(c)' /\ Settled'
  BY <1>2, <1>3 DEF StagingOf, Fresh, Settled
<1>6. GivenUp'
  BY <1>1, <1>2, GivenUpStays DEF Fresh
<1> QED
  BY <1>2, <1>4, <1>5, <1>6, CallSInv

\* The recovery goes on with an effect done.
LEMMA RecoveryEffect ==
  ASSUME IInv, TInv, SInv, pc[Boot] \in {"data", "signer", "trust", "publish"},
         NEW l \in Labels, Goto(Boot, l), UNCHANGED <<journal, left>>, Recovering', Committed'
  PROVE  SInv'
<1>1. Boot \in Process /\ pc \in [Process -> Labels]
  BY SwitchConstants DEF Process, IInv, Shape
<1>2. pc'[Boot] = l /\ \A b \in Process \ {Boot} : pc'[b] = pc[b]
  BY <1>1 DEF Goto
<1>3. journal.phase = "commit"
  BY DEF SInv, Recovering, Installed, Effects, Entry
<1>4. Settled'
  BY <1>3 DEF Settled
<1> QED
  BY <1>2, <1>4, RecoverySInv

\* The old owner's records are gone, or the new owner's.
LEMMA DisposeSInv ==
  ASSUME IInv, TInv, SInv, NEW a \in Process, DisposeData(a)
  PROVE  SInv'
<1>1. /\ UNCHANGED <<live, staged, journal, active, retired, memory, revoked, booted, left,
                     mishaps, mem>>
      /\ pc[a] = "data"
  BY DEF DisposeData, disk, keys, world
<1>2. /\ journal.owner = mem[a].owner /\ journal.phase = "commit"
      /\ mem[a].person = live.event.owner /\ mem[a].owner # mem[a].person
      /\ Between(staged, live)
  BY <1>1, EffectsOf
<1>3. CASE FailTo(a) /\ UNCHANGED <<plays, owed>>
  <2>1. SameSwitch
    BY <1>1, <1>3 DEF SameSwitch
  <2> QED
    BY <1>1, <1>3, <2>1, CallFails, RecoveryFails DEF Process
<1>4. CASE /\ Goto(a, "signer") /\ owed' = owed \cup {mem[a].owner}
           /\ plays' \subseteq (plays \ {mem[a].owner}) \cup {mem[a].person}
  <2>1. plays \cap owed \subseteq {mem[a].owner} /\ mem[a].person \notin owed
    BY <1>2 DEF Between
  <2>2. plays' \cap owed' = {} /\ mem[a].person \notin owed'
    BY <1>2, <1>4, <2>1
  <2>3. Between(staged, live)'
    BY <1>1, <1>2, <2>2 DEF Between, Owned
  <2>4. Committed'
    BY <2>3 DEF Committed
  <2>5. CASE a \in Call
    BY <1>1, <1>4, <2>4, <2>5, CallEffect
  <2>6. CASE a = Boot
    <3>1. Boot \in Process /\ pc \in [Process -> Labels]
      BY SwitchConstants DEF Process, IInv, Shape
    <3>2. pc'[Boot] = "signer" /\ Recovering
      BY <1>1, <1>4, <2>6, <3>1 DEF Goto, SInv
    <3>3. Recovering'
      BY <1>1, <2>2, <2>6, <3>2 DEF Recovering, Installed, Effects
    <3> QED
      BY <1>1, <1>4, <2>4, <2>6, <3>3, RecoveryEffect DEF Labels, Holding
  <2> QED
    BY <2>5, <2>6 DEF Process
<1> QED
  BY <1>3, <1>4 DEF DisposeData

\* The signer follows.
LEMMA ActivateSInv ==
  ASSUME IInv, TInv, SInv, NEW a \in Process, Activate(a) \/ ActivateHalf(a) \/ ActivateTorn(a)
  PROVE  SInv'
<1>1. /\ UNCHANGED <<live, staged, journal, plays, memory, revoked, booted, left, owed, mishaps, mem>>
      /\ pc[a] = "signer"
  BY DEF Activate, ActivateHalf, ActivateTorn, disk, data, world, past
<1>2. /\ journal = Entry("commit", mem[a]) /\ journal.phase = "commit"
      /\ journal.owner = mem[a].owner /\ journal.kind = mem[a].kind
      /\ mem[a].person = live.event.owner /\ mem[a].owner # mem[a].person
      /\ Between(staged, live)
  BY <1>1, EffectsOf
<1>3. mem[a].kind \in {"local", "nip46"} /\ pc \in [Process -> Labels] /\ Boot \in Process
  BY SwitchConstants DEF Process, IInv, Shape, Locals
<1> DEFINE new == IF mem[a].kind = "local" THEN mem[a].person ELSE None
<1>4. ASSUME \/ UNCHANGED <<active, retired>>
             \/ active' = new /\ retired' = (retired \cup ({active} \ {None})) \ {new}
             \/ active' = None /\ retired' = retired \cup {mem[a].owner}
                               /\ (mem[a].kind = "local" => mem[a].person \in retired)
             \/ /\ mem[a].kind = "local" /\ active' = mem[a].person
                /\ retired' = retired \cup ({active} \ {None})
             \/ UNCHANGED active /\ retired' = retired \cup ({active} \ {None})
      PROVE  Between(staged, live)'
  <2>1. CASE UNCHANGED <<active, retired>>
    BY <1>1, <1>2, <2>1 DEF Between, Owned
  <2>2. CASE active' = new /\ retired' = (retired \cup ({active} \ {None})) \ {new}
    BY <1>1, <1>2, <2>2 DEF Between, Owned
  <2>3. CASE /\ active' = None /\ retired' = retired \cup {mem[a].owner}
             /\ (mem[a].kind = "local" => mem[a].person \in retired)
    BY <1>1, <1>2, <2>3 DEF Between, Owned
  <2>4. CASE /\ mem[a].kind = "local" /\ active' = mem[a].person
             /\ retired' = retired \cup ({active} \ {None})
    BY <1>1, <1>2, <2>4 DEF Between, Owned
  <2>5. CASE UNCHANGED active /\ retired' = retired \cup ({active} \ {None})
    BY <1>1, <1>2, <2>5 DEF Between, Owned
  <2> QED
    BY <1>4, <2>1, <2>2, <2>3, <2>4, <2>5
<1>5. ASSUME FailTo(a), Between(staged, live)' PROVE SInv'
  <2>1. Settled' /\ Committed'
    BY <1>1, <1>2, <1>5 DEF Settled, Committed
  <2>2. CASE a \in Call
    <3>1. a # Boot /\ pc'[a] = "returned" /\ \A b \in Process \ {a} : pc'[b] = pc[b]
      BY <1>3, <1>5, <2>2, SwitchConstants DEF FailTo, Goto
    <3>2. StagingOf(a)' /\ SwitchedOf(a)'
      BY <3>1 DEF StagingOf, SwitchedOf, Fresh
    <3>3. GivenUp'
      BY <1>1, <3>1, GivenUpStays DEF Fresh, Process
    <3> QED
      BY <1>1, <2>1, <2>2, <3>1, <3>2, <3>3, CallSInv
  <2>3. CASE a = Boot
    <3>1. pc'[Boot] = "start" /\ \A b \in Process \ {Boot} : pc'[b] = pc[b]
      BY <1>3, <1>5, <2>3 DEF FailTo, Goto
    <3>2. Recovering'
      BY <3>1 DEF Recovering, Installed, Effects
    <3> QED
      BY <1>1, <2>1, <2>3, <3>1, <3>2, RecoverySInv
  <2> QED
    BY <2>2, <2>3 DEF Process
<1>6. CASE Activate(a)
  <2>1. \/ FailTo(a) /\ UNCHANGED <<active, retired>>
        \/ /\ Goto(a, "trust") /\ active' = new
           /\ retired' = (retired \cup ({active} \ {None})) \ {new}
        \/ Goto(a, "trust") /\ UNCHANGED <<active, retired>> /\ active = new
    BY <1>6 DEF Activate, keys, past
  <2>2. Between(staged, live)' /\ Committed'
    BY <1>4, <2>1 DEF Committed
  <2>3. CASE Goto(a, "trust") /\ active' = new
    <3>1. CASE a \in Call
      BY <1>1, <2>2, <2>3, <3>1, CallEffect
    <3>2. CASE a = Boot
      <4>1. pc'[Boot] = "trust" /\ Recovering
        BY <1>3, <2>3, <3>2 DEF Goto, SInv
      <4>2. Recovering'
        BY <1>1, <2>3, <3>2, <4>1 DEF Recovering, Installed, Effects
      <4> QED
        BY <1>1, <2>2, <2>3, <3>2, <4>2, RecoveryEffect DEF Labels, Holding
    <3> QED
      BY <3>1, <3>2 DEF Process
  <2> QED
    BY <1>5, <2>1, <2>2, <2>3
<1>7. CASE ActivateHalf(a)
  BY <1>4, <1>5, <1>7 DEF ActivateHalf
<1>8. CASE ActivateTorn(a)
  BY <1>4, <1>5, <1>8 DEF ActivateTorn
<1> QED
  BY <1>6, <1>7, <1>8

\* The recovery exchanges the directories unless the call has.
LEMMA CompleteBootSInv ==
  ASSUME IInv, TInv, SInv, Complete(Boot)
  PROVE  SInv'
<1>1. /\ Boot \in Process /\ pc \in [Process -> Labels]
      /\ mem \in [Process -> Locals] /\ mem[Boot] \in Locals
  BY SwitchConstants DEF Process, IInv, Shape
<1>2. /\ UNCHANGED <<journal, active, retired, plays, memory, revoked, booted, left, owed, mishaps>>
      /\ pc[Boot] = "complete"
  BY DEF Complete, keys, data, world, past
<1>3. journal = Entry("commit", mem[Boot])
  BY <1>2 DEF SInv, Recovering, Installed
<1>4. journal.phase = "commit" /\ journal.old = mem[Boot].old
  BY <1>3 DEF Entry
<1>5. DeviceOf(live) = live.device
  BY DEF IInv, LiveIsOwned, Owned, DeviceOf
<1>6. \/ FailTo(Boot) /\ UNCHANGED <<live, staged, mem>>
      \/ /\ live.device = mem[Boot].old /\ live' = staged /\ staged' = live
         /\ mem' = [mem EXCEPT ![Boot].person = staged.event.owner] /\ Goto(Boot, "data")
      \/ /\ live.device # mem[Boot].old /\ UNCHANGED <<live, staged>>
         /\ mem' = [mem EXCEPT ![Boot].person = live.event.owner] /\ Goto(Boot, "data")
  BY <1>5 DEF Complete
<1>7. CASE FailTo(Boot) /\ UNCHANGED <<live, staged, mem>>
  BY <1>2, <1>7, RecoveryFails DEF SameSwitch
<1>8. CASE /\ mem' = [mem EXCEPT ![Boot].person = live'.event.owner] /\ Goto(Boot, "data")
           /\ live'.device # journal.old /\ Between(staged, live)'
  <2>1. pc'[Boot] = "data" /\ \A b \in Process \ {Boot} : pc'[b] = pc[b]
    BY <1>1, <1>8 DEF Goto
  <2>2. mem'[Boot] = [mem[Boot] EXCEPT !.person = live'.event.owner]
    BY <1>1, <1>8
  <2>3. /\ mem'[Boot].old = mem[Boot].old /\ mem'[Boot].person = live'.event.owner
        /\ Entry("commit", mem'[Boot]) = Entry("commit", mem[Boot])
    BY <1>1, <2>2 DEF Locals, Entry
  <2>4. Recovering'
    BY <1>2, <1>3, <1>4, <1>8, <2>1, <2>3 DEF Recovering, Installed, Effects
  <2>5. Settled' /\ Committed'
    BY <1>2, <1>4, <1>8 DEF Settled, Committed
  <2> QED
    BY <1>2, <2>1, <2>4, <2>5, RecoverySInv
<1>9. CASE live.device = mem[Boot].old /\ live' = staged /\ staged' = live
  <2>1. Between(live, staged)
    BY <1>4, <1>9 DEF SInv, Committed, Between
  <2>2. Between(staged, live)'
    BY <1>2, <1>9, <2>1 DEF Between, Owned
  <2> QED
    BY <1>4, <1>6, <1>7, <1>8, <1>9, <2>1, <2>2 DEF Between
<1>10. CASE live.device # mem[Boot].old /\ UNCHANGED <<live, staged>>
  <2>1. Between(staged, live)
    BY <1>4, <1>10 DEF SInv, Committed, Between
  <2>2. Between(staged, live)'
    BY <1>2, <1>10, <2>1 DEF Between, Owned
  <2> QED
    BY <1>4, <1>6, <1>7, <1>8, <1>10, <2>2
<1> QED
  BY <1>6, <1>7, <1>9, <1>10

\* Trust: a call finds no grants in the new directory and stops, the recovery
\* creates them.
LEMMA TrustSInv ==
  ASSUME IInv, TInv, SInv, NEW a \in Process, ResetTrust(a)
  PROVE  SInv'
<1>1. /\ UNCHANGED <<staged, journal, active, retired, plays, revoked, booted, left, owed, mishaps, mem>>
      /\ pc[a] = "trust"
  BY DEF ResetTrust, keys, world, past
<1>2. journal.phase = "commit" /\ Between(staged, live)
  BY <1>1, EffectsOf
<1>3. CASE a \in Call
  <2>1. a # Boot /\ live.grants = None
    BY <1>1, <1>3, SwitchConstants DEF SInv, SwitchedOf
  <2>2. FailTo(a) /\ UNCHANGED <<live, memory>>
    BY <2>1 DEF ResetTrust
  <2> QED
    BY <1>1, <1>3, <2>2, CallFails DEF SameSwitch
<1>4. CASE a = Boot
  <2>1. /\ live' = [live EXCEPT !.grants = {}] /\ memory' = live.device
        /\ Goto(Boot, "publish")
    BY <1>4 DEF ResetTrust
  <2>2. live \in Directory /\ Boot \in Process /\ pc \in [Process -> Labels]
    BY SwitchConstants DEF Process, IInv, Shape
  <2>3. live'.device = live.device /\ live'.event = live.event /\ live'.remote = live.remote
    BY <2>1, <2>2 DEF Directory
  <2>4. Between(staged, live)'
    BY <1>1, <1>2, <2>3 DEF Between, Owned
  <2>5. pc'[Boot] = "publish" /\ Recovering
    BY <2>1, <2>2 DEF Goto, SInv
  <2>6. Recovering'
    BY <1>1, <1>4, <2>1, <2>3, <2>5 DEF Recovering, Installed, Effects
  <2> QED
    BY <1>1, <1>4, <2>1, <2>4, <2>6, RecoveryEffect DEF Labels, Holding, Committed
<1> QED
  BY <1>3, <1>4 DEF Process

\* No call gets as far as the revocation.
LEMMA OnlyRecovery ==
  ASSUME SInv, NEW a \in Process,
         pc[a] \in {"publish", "finish", "rollback", "abort", "sweep"}
  PROVE  a = Boot
  BY DEF SInv, SwitchedOf, Process

\* The recovery revokes the old device.
LEMMA PublishSInv ==
  ASSUME IInv, TInv, SInv, NEW a \in Process, PublishRevocation(a)
  PROVE  SInv'
<1>1. /\ UNCHANGED <<live, staged, journal, active, retired, plays, memory, booted, left, owed, mishaps, mem>>
      /\ pc[a] = "publish" /\ Goto(a, "finish")
      /\ revoked' = IF mem[a].pub THEN revoked \cup {mem[a].old} ELSE revoked
  BY DEF PublishRevocation, disk, keys, data, past
<1>2. a = Boot /\ Boot \in Process /\ pc \in [Process -> Labels]
  BY <1>1, OnlyRecovery, SwitchConstants DEF Process, IInv, Shape
<1>3. pc'[Boot] = "finish" /\ Recovering
  BY <1>1, <1>2 DEF Goto, SInv
<1>4. Recovering'
  BY <1>1, <1>2, <1>3 DEF Recovering, Installed, Effects
<1>5. Committed'
  <2>1. revoked \subseteq revoked'
    BY <1>1
  <2> QED
    BY <1>1, <2>1 DEF SInv, Committed, Between, Owned
<1> QED
  BY <1>1, <1>2, <1>4, <1>5, RecoveryEffect DEF Labels, Holding

\* The journal is removed when everything is the new owner's, or the old one's.
LEMMA RemoveJournalSInv ==
  ASSUME IInv, TInv, SInv, NEW a \in Process, RemoveJournal(a)
  PROVE  SInv'
<1>1. /\ UNCHANGED <<live, staged, active, retired, plays, memory, revoked, booted, left, owed, mishaps, mem>>
      /\ pc[a] \in {"finish", "abort"}
  BY DEF RemoveJournal, keys, data, world, past
<1>2. a = Boot /\ Boot \in Process /\ pc \in [Process -> Labels]
  BY <1>1, OnlyRecovery, SwitchConstants DEF Process, IInv, Shape
<1>3. CASE FailTo(a) /\ UNCHANGED journal
  BY <1>1, <1>2, <1>3, RecoveryFails DEF SameSwitch
<1>4. CASE journal' = NoJournal /\ Goto(a, "sweep")
  <2>1. pc'[Boot] = "sweep" /\ \A b \in Process \ {Boot} : pc'[b] = pc[b]
    BY <1>2, <1>4 DEF Goto
  <2>2. Recovering' /\ Committed'
    BY <1>4, <2>1 DEF Recovering, Committed, Installed, Effects, NoJournal
  <2>3. Settled'
    <3>1. CASE pc[Boot] = "abort"
      <4>1. journal.phase = "preparing"
        BY <3>1 DEF SInv, Recovering
      <4> QED
        BY <1>1, <2>1, <4>1 DEF SInv, Settled
    <3>2. CASE pc[Boot] = "finish"
      <4>1. /\ journal = Entry("commit", mem[Boot]) /\ live.device # mem[Boot].old
            /\ mem[Boot].person = live.event.owner /\ plays \cap owed = {}
            /\ active = IF mem[Boot].kind = "local" THEN mem[Boot].person ELSE None
            /\ memory = live.device /\ (mem[Boot].pub => mem[Boot].old \in revoked)
        BY <3>2 DEF SInv, Recovering, Installed
      <4>2. /\ journal.phase = "commit" /\ journal.old = mem[Boot].old
            /\ journal.kind = mem[Boot].kind /\ journal.pub = mem[Boot].pub
        BY <4>1 DEF Entry
      <4>3. Between(staged, live) /\ mem[Boot].kind \in {"local", "nip46"}
        BY <1>2, <4>1, <4>2 DEF SInv, Committed, Between, IInv, Shape, Locals
      <4>4. /\ live.remote = IF mem[Boot].kind = "nip46" THEN live.event.owner ELSE None
            /\ \A d \in Device : <<d, TRUE>> \in left => d \in revoked
        BY <4>1, <4>2, <4>3 DEF Between
      <4> QED
        BY <1>1, <2>1, <4>1, <4>3, <4>4 DEF Settled
    <3> QED
      BY <1>1, <1>2, <3>1, <3>2
  <2> QED
    BY <1>1, <1>2, <2>1, <2>2, <2>3, RecoverySInv
<1> QED
  BY <1>3, <1>4 DEF RemoveJournal

\* korrid comes up with the owner of the live directory.
LEMMA ComeUpSInv ==
  ASSUME IInv, TInv, SInv, pc[Boot] # "up", journal = NoJournal, ComeUp, UNCHANGED journal,
         UNCHANGED <<active, plays, memory, revoked, left, owed, mishaps>>
  PROVE  SInv'
<1>1. live \in Directory /\ Boot \in Process /\ pc \in [Process -> Labels]
  BY SwitchConstants DEF Process, IInv, Shape
<1>2. live'.device = live.device /\ live'.event = live.event /\ live'.remote = live.remote
  BY <1>1 DEF ComeUp, Directory
<1>3. pc'[Boot] = "up" /\ (\A b \in Process \ {Boot} : pc'[b] = pc[b]) /\ booted' = live.event
  BY <1>1 DEF ComeUp, Goto
<1>4. SameSwitch /\ journal.phase # "commit"
  BY <1>2 DEF SameSwitch, NoJournal
<1>5. Settled' /\ Committed'
  BY <1>3, <1>4, SettledStays, CommittedStays
<1>6. Recovering'
  BY <1>3 DEF Recovering, Installed, Effects
<1> QED
  BY <1>3, <1>5, <1>6, RecoverySInv

LEMMA SweepSInv ==
  ASSUME IInv, TInv, SInv, NEW a \in Process, Sweep(a)
  PROVE  SInv'
<1>1. /\ pc[a] = "sweep"
      /\ UNCHANGED <<journal, active, plays, memory, revoked, left, owed, mishaps>>
  BY DEF Sweep, keys, data, world, past
<1>2. a = Boot
  BY <1>1, OnlyRecovery
<1>3. ComeUp /\ journal = NoJournal
  BY <1>1, <1>2 DEF Sweep, SInv, Recovering
<1> QED
  BY <1>1, <1>2, <1>3, ComeUpSInv

\* The recovery takes the journal over, or drops what was imported.
LEMMA BootSInv ==
  ASSUME IInv, TInv, SInv, BootStep
  PROVE  SInv'
<1>1. /\ Boot \in Process /\ pc \in [Process -> Labels] /\ mem \in [Process -> Locals]
  BY SwitchConstants DEF Process, IInv, Shape
<1>2. UNCHANGED <<journal, active, plays, memory, revoked, left, owed, mishaps>>
  BY DEF BootStep, BootStart, Rollback, disk, keys, data, world, past
<1>3. CASE BootStart /\ journal = NoJournal
  BY <1>2, <1>3, ComeUpSInv DEF BootStart
<1>4. CASE BootStart /\ journal # NoJournal
  <2>1. /\ pc[Boot] = "start" /\ UNCHANGED <<live, staged, retired>>
        /\ mem' = [mem EXCEPT ![Boot] = [NoCall EXCEPT !.old = journal.old,
                      !.owner = journal.owner, !.kind = journal.kind,
                      !.disp = journal.disp, !.pub = journal.pub]]
        /\ Goto(Boot, IF journal.phase = "preparing" THEN "rollback" ELSE "complete")
    BY <1>4 DEF BootStart, keys, past
  <2>2. journal \in [phase : {"preparing", "commit"}, old : Device, owner : Person,
           kind : {"local", "nip46"}, disp : {"transfer", "delete"}, pub : BOOLEAN]
    BY <1>4 DEF TInv, TypeOK
  <2>3. /\ pc'[Boot] = IF journal.phase = "preparing" THEN "rollback" ELSE "complete"
        /\ \A b \in Process \ {Boot} : pc'[b] = pc[b]
    BY <1>1, <2>1 DEF Goto
  <2>4. /\ mem'[Boot].old = journal.old /\ mem'[Boot].owner = journal.owner
        /\ mem'[Boot].kind = journal.kind /\ mem'[Boot].disp = journal.disp
        /\ mem'[Boot].pub = journal.pub
    BY <1>1, <2>1 DEF NoCall
  <2>5. journal.phase = "commit" => journal = Entry("commit", mem'[Boot])
    BY <2>2, <2>4 DEF Entry
  <2>6. Recovering'
    BY <1>2, <2>2, <2>3, <2>5 DEF Recovering, Installed, Effects
  <2>7. SameSwitch
    BY <1>2, <2>1 DEF SameSwitch
  <2>8. Settled' /\ Committed'
    BY <2>1, <2>3, <2>7, SettledStays, CommittedStays
  <2> QED
    BY <1>2, <2>1, <2>3, <2>6, <2>8, RecoverySInv
<1>5. CASE Rollback
  <2>1. /\ pc[Boot] = "rollback" /\ UNCHANGED <<live, staged, booted, mem>>
        /\ FailTo(Boot) \/ Goto(Boot, "abort")
    BY <1>5 DEF Rollback, disk, past
  <2>2. journal.phase = "preparing" /\ SameSwitch
    BY <1>2, <2>1 DEF SInv, Recovering, SameSwitch
  <2>3. CASE FailTo(Boot)
    BY <2>1, <2>2, <2>3, RecoveryFails
  <2>4. CASE Goto(Boot, "abort")
    <3>1. pc'[Boot] = "abort" /\ \A b \in Process \ {Boot} : pc'[b] = pc[b]
      BY <1>1, <2>4 DEF Goto
    <3>2. Recovering'
      BY <1>2, <2>2, <3>1 DEF Recovering, Installed, Effects
    <3>3. Settled' /\ Committed'
      BY <2>2, <3>1, SettledStays, CommittedStays
    <3> QED
      BY <1>2, <2>1, <3>1, <3>2, <3>3, RecoverySInv
  <2> QED
    BY <2>1, <2>3, <2>4
<1> QED
  BY <1>3, <1>4, <1>5 DEF BootStep

-----------------------------------------------------------------------------
(* Failures, restarts and the rest of korrid *)

LEMMA FaultSInv ==
  ASSUME IInv, TInv, SInv, NEW a \in Process, Fault(a)
  PROVE  SInv'
<1>1. /\ UNCHANGED <<live, staged, journal, active, retired, plays, memory, revoked, booted, left, owed, mishaps>>
      /\ pc[a] \notin {"idle", "returned", "gone", "start", "up"} /\ FailTo(a)
  BY DEF Fault, disk, keys, data, world, past
<1>2. SameSwitch
  BY <1>1 DEF SameSwitch
<1> QED
  BY <1>1, <1>2, CallFails, RecoveryFails DEF Process

\* korrid exits or dies anywhere.
LEMMA StopSInv ==
  ASSUME IInv, TInv, SInv, Restart \/ Crash
  PROVE  SInv'
<1>1. /\ UNCHANGED <<live, staged, journal, active, retired, plays, memory, revoked, booted, left, owed, mishaps>>
      /\ Stop
  BY DEF Restart, Crash, disk, keys, data, world, past
<1>2. Boot \in Process /\ Boot \notin Call /\ Call \subseteq Process
  BY SwitchConstants DEF Process
<1>3. pc'[Boot] = "start" /\ \A c \in Call : pc'[c] = IF pc[c] = "idle" THEN "idle" ELSE "gone"
  BY <1>1, <1>2 DEF Stop
<1>4. \A c \in Call : StagingOf(c)' /\ SwitchedOf(c)'
  BY <1>3 DEF StagingOf, SwitchedOf, Fresh
<1>5. SameSwitch
  BY <1>1 DEF SameSwitch
<1>6. Settled' /\ Committed'
  BY <1>1, <1>3, <1>5, SettledStays, CommittedStays
<1>7. GivenUp'
  BY <1>1, <1>3, GivenUpStays DEF Fresh
<1>8. Recovering'
  BY <1>3 DEF Recovering, Installed, Effects
<1>9. Running' = {}
  BY <1>3 DEF Running
<1> QED
  BY <1>4, <1>6, <1>7, <1>8, <1>9 DEF SInv

\* Nobody moves.  A retired key that goes during a switch is a mishap.
LEMMA BesideSInv ==
  ASSUME IInv, TInv, SInv, pc[Boot] = "up",
         UNCHANGED <<pc, mem, staged, journal, left>>,
         live'.device = live.device, live'.event = live.event,
         live'.grants = live.grants \/ live.grants # None,
         \/ UNCHANGED <<retired, mishaps>>
         \/ "delete" \in mishaps'
         \/ Running = {},
         Settled', Committed'
  PROVE  SInv'
<1>1. ASSUME NEW c \in Call PROVE StagingOf(c)' /\ SwitchedOf(c)'
  <2>1. StagingOf(c) /\ SwitchedOf(c)
    BY DEF SInv
  <2>2. StagingOf(c)'
    <3>1. CASE UNCHANGED <<retired, mishaps>> \/ "delete" \in mishaps'
      BY <2>1, <3>1 DEF StagingOf
    <3>2. CASE Running = {}
      <4>1. pc[c] \in {"idle", "returned", "gone"}
        BY <3>2 DEF Running
      <4> QED
        BY <4>1 DEF StagingOf, Fresh
    <3> QED
      BY <3>1, <3>2
  <2>3. SwitchedOf(c)'
    BY <2>1 DEF SwitchedOf
  <2> QED
    BY <2>2, <2>3
<1>2. Recovering'
  BY DEF Recovering, Installed, Effects
<1>3. GivenUp'
  BY GivenUpStays
<1>4. Running' = Running
  BY DEF Running
<1> QED
  BY <1>1, <1>2, <1>3, <1>4 DEF SInv

LEMMA RestSInv ==
  ASSUME IInv, TInv, SInv,
         \/ Play \/ Announce
         \/ \E p \in Player : Launch(p)
         \/ \E k \in Client : Pair(k)
         \/ \E p \in Person : DeleteRetired(p)
  PROVE  SInv'
<1>1. /\ UNCHANGED <<pc, mem, staged, journal, active, memory, revoked, booted, left>>
      /\ pc[Boot] = "up" /\ live \in Directory
  BY DEF Play, Launch, Announce, Pair, DeleteRetired, disk, keys, data, world, IInv, Shape, past
<1>2. CASE Play
  <2>1. /\ UNCHANGED <<live, retired, mishaps>>
        /\ plays' = plays \cup {game} /\ owed' = owed \ {game}
    BY <1>2 DEF Play, disk, keys
  <2>2. plays' \cap owed' \subseteq plays \cap owed
    BY <2>1
  <2>3. Settled'
    BY <1>1, <2>1, <2>2 DEF SInv, Settled
  <2>4. Committed'
    BY <1>1, <2>1, <2>2 DEF SInv, Committed, Between, Owned
  <2> QED
    BY <1>1, <2>1, <2>3, <2>4, BesideSInv
<1>3. CASE Announce \/ \E p \in Player : Launch(p)
  <2>1. UNCHANGED <<live, retired, plays, owed, mishaps>>
    BY <1>3 DEF Announce, Launch, disk, keys, data, past
  <2>2. SameSwitch
    BY <1>1, <2>1 DEF SameSwitch
  <2> QED
    BY <1>1, <2>1, <2>2, SettledStays, CommittedStays, BesideSInv
<1>4. ASSUME NEW k \in Client, Pair(k) PROVE SInv'
  <2>1. /\ UNCHANGED <<retired, plays, owed, mishaps>> /\ live.grants # None
        /\ live' = [live EXCEPT !.grants = @ \cup {k}]
    BY <1>4 DEF Pair, keys, data, past
  <2>2. live'.device = live.device /\ live'.event = live.event /\ live'.remote = live.remote
    BY <1>1, <2>1 DEF Directory
  <2>3. SameSwitch
    BY <1>1, <2>1, <2>2 DEF SameSwitch
  <2> QED
    BY <1>1, <2>1, <2>2, <2>3, SettledStays, CommittedStays, BesideSInv
<1>5. ASSUME NEW p \in Person, DeleteRetired(p) PROVE SInv'
  <2>1. /\ UNCHANGED <<live, plays, owed>>
        /\ "delete" \in mishaps' \/ (Running = {} /\ journal = NoJournal)
    BY <1>5 DEF DeleteRetired, disk, data
  <2>2. Settled'
    BY <1>1, <2>1 DEF SInv, Settled
  <2>3. Committed'
    <3>1. CASE "delete" \in mishaps'
      BY <1>1, <2>1, <3>1 DEF SInv, Committed, Between, Owned
    <3>2. CASE journal = NoJournal
      BY <1>1, <3>2 DEF Committed, NoJournal
    <3> QED
      BY <2>1, <3>1, <3>2
  <2> QED
    BY <1>1, <2>1, <2>2, <2>3, BesideSInv
<1> QED
  BY <1>2, <1>3, <1>4, <1>5

LEMMA CompleteSInv ==
  ASSUME IInv, TInv, SInv, NEW a \in Process, Complete(a)
  PROVE  SInv'
  BY CompleteCallSInv, CompleteBootSInv DEF Process

\* As long as no two calls overlap every step keeps the invariant.
LEMMA NextSInv ==
    IInv /\ TInv /\ SInv /\ [Next]_vars /\ "overlap" \notin mishaps' => SInv'
<1> SUFFICES ASSUME IInv, TInv, SInv, [Next]_vars, "overlap" \notin mishaps' PROVE SInv'
  OBVIOUS
<1>1. CASE \E c \in Call, p \in Person, kind \in {"local", "nip46"},
              disp \in {"transfer", "delete"} : Begin(c, p, kind, disp)
  BY <1>1, BeginSInv
<1>2. CASE \E c \in Call : CallStep(c)
  BY <1>2, StageSInv, ApproveSInv, WriteSInv, ExchangeSInv DEF CallStep
<1>3. CASE \E a \in Process : CommitStep(a) \/ ActivateHalf(a) \/ ActivateTorn(a) \/ Fault(a)
  BY <1>3, CompleteSInv, DisposeSInv, ActivateSInv, TrustSInv, PublishSInv,
     RemoveJournalSInv, SweepSInv, FaultSInv DEF CommitStep
<1>4. CASE UNCHANGED vars
  <2>1. /\ UNCHANGED <<live, staged, journal, active, retired, plays, memory, revoked>>
        /\ UNCHANGED <<booted, pc, mem, left, owed, mishaps>>
    BY <1>4 DEF vars, disk, keys, data, world, past
  <2>2. SameSwitch /\ Settled' /\ Committed'
    BY <2>1, SettledStays, CommittedStays DEF SameSwitch
  <2>3. \A c \in Call : StagingOf(c)' /\ SwitchedOf(c)'
    BY <2>1 DEF SInv, StagingOf, SwitchedOf
  <2>4. Recovering'
    BY <2>1 DEF SInv, Recovering
  <2>5. GivenUp' /\ Running' = Running
    BY <2>1, GivenUpStays DEF Running
  <2> QED
    BY <2>2, <2>3, <2>4, <2>5 DEF SInv
<1> QED
  BY <1>1, <1>2, <1>3, <1>4, BootSInv, StopSInv, RestSInv DEF Next

\* What happened to the switches so far is not forgotten.
LEMMA MishapsGrow == [Next]_vars => mishaps \subseteq mishaps'
<1> SUFFICES ASSUME [Next]_vars PROVE mishaps \subseteq mishaps'
  OBVIOUS
<1>1. CASE \E c \in Call, p \in Person, kind \in {"local", "nip46"},
              disp \in {"transfer", "delete"} : Begin(c, p, kind, disp)
  BY <1>1 DEF Begin
<1>2. CASE \E c \in Call : CallStep(c)
  BY <1>2 DEF CallStep, Stage, Import, Approve, Bind, SignRevocation, WritePreparing,
              WriteCommit, Exchange, past
<1>3. CASE \E a \in Process : CommitStep(a) \/ ActivateHalf(a) \/ ActivateTorn(a) \/ Fault(a)
  BY <1>3 DEF CommitStep, Complete, DisposeData, Activate, ResetTrust, PublishRevocation,
              RemoveJournal, Sweep, ActivateHalf, ActivateTorn, Fault, past
<1>4. CASE BootStep \/ Restart \/ Crash \/ UNCHANGED vars
  BY <1>4 DEF BootStep, BootStart, Rollback, Restart, Crash, vars, past
<1>5. CASE \/ Play \/ Announce \/ \E p \in Player : Launch(p)
           \/ \E k \in Client : Pair(k)
           \/ \E p \in Person : DeleteRetired(p)
  BY <1>5 DEF Play, Announce, Launch, Pair, DeleteRetired, past
<1> QED
  BY <1>1, <1>2, <1>3, <1>4, <1>5 DEF Next

\* The invariants together: the last one until two calls overlap.
LEMMA Serial == Spec => [](IInv /\ TInv /\ ("overlap" \notin mishaps => SInv))
<1> DEFINE Inv == IInv /\ TInv /\ ("overlap" \notin mishaps => SInv)
<1>1. Init => Inv
  BY InitIInv, InitTInv, InitSInv
<1>2. Inv /\ [Next]_vars => Inv'
  <2> SUFFICES ASSUME Inv, [Next]_vars PROVE Inv'
    OBVIOUS
  <2>1. IInv' /\ TInv'
    BY NextIInv, NextTInv
  <2>2. ASSUME "overlap" \notin mishaps' PROVE SInv'
    <3>1. "overlap" \notin mishaps
      BY <2>2, MishapsGrow
    <3> QED
      BY <2>2, <3>1, NextSInv
  <2> QED
    BY <2>1, <2>2
<1> QED
  BY <1>1, <1>2, PTL DEF Spec

\* A switch is all or nothing.  Until two calls overlap, whatever fails or dies in
\* between, whatever is played meanwhile and whichever keys are deleted, as soon as
\* no switch is journaled the signer, the records of the time before, the federation
\* directory and the revocation are those of the live identity.
THEOREM SwitchesAreWhole == Spec => []SwitchIsWhole
<1>1. SInv => SignerFollowsOwner /\ EffectsAreComplete
  <2> SUFFICES ASSUME SInv, journal = NoJournal PROVE SignerFollowsOwner /\ EffectsAreComplete
    BY DEF SignerFollowsOwner, EffectsAreComplete
  <2>1. journal.phase # "commit" /\ Settled
    BY DEF NoJournal, SInv
  <2> QED
    BY <2>1 DEF Settled, SignerFollowsOwner, EffectsAreComplete
<1>2. ("overlap" \notin mishaps => SInv) => SwitchIsWhole
  BY <1>1 DEF SwitchIsWhole
<1> QED
  BY Serial, <1>2, PTL

\* A committed switch can be completed by any later start.  Until two calls overlap
\* or a retired key is deleted during a switch, the two directories are two complete
\* identities of two persons, one of them the journaled old device, and the signer
\* holds the replacement key of a local switch until it is active.
THEOREM CommitsAreRecoverable == Spec => []CommitSurvives
<1>1. ASSUME IInv, TInv, SInv, "delete" \notin mishaps PROVE CommitIsRecoverable
  <2> SUFFICES ASSUME journal.phase = "commit" PROVE CommitIsRecoverable
    BY DEF CommitIsRecoverable, ReplacementIsHeld
  <2>1. Owned(live) /\ live.device # staged.device
    BY <1>1 DEF IInv, LiveIsOwned
  <2>2. journal.old \in Device /\ None \notin Device
    BY <1>1, SwitchConstants DEF TInv, TypeOK, NoJournal, Device
  <2>3. CASE Between(live, staged)
    <3>1. /\ live.device = journal.old /\ staged.device # journal.old /\ Owned(staged)
          /\ live.event.owner # staged.event.owner
          /\ (journal.kind = "local" => staged.event.owner \in retired \cup {active})
      BY <1>1, <2>3 DEF Between
    <3>2. {live.device, staged.device} \cap {journal.old} = {journal.old}
      BY <3>1
    <3> QED
      BY <2>1, <3>1, <3>2, FS_Singleton DEF CommitIsRecoverable, ReplacementIsHeld
  <2>4. CASE Between(staged, live)
    <3>1. /\ staged.device = journal.old /\ live.device # journal.old
          /\ staged.event.device = journal.old
          /\ live.event.owner # staged.event.owner
          /\ (journal.kind = "local" => live.event.owner \in retired \cup {active})
      BY <1>1, <2>4 DEF Between
    <3>2. {live.device, staged.device} \cap {journal.old} = {journal.old} /\ Owned(staged)
      BY <2>2, <3>1 DEF Owned
    <3> QED
      BY <2>1, <3>1, <3>2, FS_Singleton DEF CommitIsRecoverable, ReplacementIsHeld
  <2> QED
    BY <1>1, <2>3, <2>4 DEF SInv, Committed
<1>2. IInv /\ TInv /\ ("overlap" \notin mishaps => SInv) => CommitSurvives
  BY <1>1 DEF CommitSurvives
<1> QED
  BY Serial, <1>2, PTL

-----------------------------------------------------------------------------
(* The contract of the switch *)

Given == {t[1] : t \in left}

Void == "overlap" \in mishaps

OwnerStep == [Contract!Next]_<<Binding, Given, revoked, Void>>

\* A step that the contract does not see.
LEMMA Unseen ==
  ASSUME live'.device = live.device, live'.event = live.event,
         UNCHANGED <<journal, revoked, left, Void>>,
         journal.phase = "commit" => UNCHANGED staged
  PROVE  OwnerStep
<1>1. Binding' = Binding
  BY DEF Binding
<1> QED
  BY <1>1 DEF OwnerStep, Given

\* The steps of a call up to the Preparing journal change nothing but its staging.
LEMMA StagingUnseen ==
  ASSUME SInv, NEW c \in Call, Stage(c) \/ Import(c) \/ Approve(c) \/ Bind(c) \/ SignRevocation(c)
  PROVE  OwnerStep
<1>1. /\ UNCHANGED <<live, journal, revoked, left, Void>>
      /\ pc[c] \in {"stage", "import", "approve", "bind", "revoke"}
  BY DEF Stage, Import, Approve, Bind, SignRevocation, disk, world, past, Void
<1>2. StagingOf(c)
  BY DEF SInv
<1>3. journal.phase # "commit"
  BY <1>1, <1>2 DEF StagingOf, Fresh, NoJournal
<1> QED
  BY <1>1, <1>3, Unseen

\* The commit is the switch.
LEMMA WriteIsSwitch ==
  ASSUME IInv, TInv, SInv, ~Void, NEW c \in Call, WritePreparing(c) \/ WriteCommit(c)
  PROVE  OwnerStep
<1>1. /\ UNCHANGED <<live, staged, revoked, Void>> /\ pc[c] \in {"prepare", "commit"}
      /\ mem[c] \in Locals /\ c \in Process /\ c \in Device
  BY DEF WritePreparing, WriteCommit, world, past, Void, Process, Device, IInv, Shape
<1>2. /\ mem[c].old = live.device /\ mem[c].owner = live.event.owner
      /\ mem[c].person # mem[c].owner
      /\ staged.event = [device |-> c, owner |-> mem[c].person]
      /\ (pc[c] # "commit" => journal = NoJournal)
  BY <1>1 DEF SInv, StagingOf, Fresh
<1>3. CASE UNCHANGED <<journal, left>>
  BY <1>1, <1>3, Unseen
<1>4. CASE /\ journal' = Entry("preparing", mem[c]) /\ UNCHANGED left /\ journal = NoJournal
  <2>1. journal.phase # "commit" /\ journal'.phase # "commit"
    BY <1>4 DEF NoJournal, Entry
  <2> QED
    BY <1>1, <1>4, <2>1 DEF OwnerStep, Binding, Given
<1>5. CASE /\ journal = Entry("preparing", mem[c]) /\ journal' = Entry("commit", mem[c])
           /\ left' = left \cup {<<mem[c].old, mem[c].pub>>}
  <2>1. /\ journal.phase # "commit" /\ journal'.phase = "commit"
        /\ journal'.old = mem[c].old
    BY <1>5 DEF Entry
  <2>2. Binding = live.event
    BY <2>1 DEF Binding
  <2>3. Binding' = [device |-> c, owner |-> mem[c].person]
    BY <1>1, <1>2, <2>1 DEF Binding
  <2>4. mem[c].person \in Person
    BY <1>1 DEF TInv, Known, Working, Holding, Locals
  <2>5. c # live.device /\ live.event.device = live.device
    BY <1>1 DEF IInv, FreshIsUnused, Fresh, LiveIsOwned, Owned
  <2>6. c \notin Given
    BY <1>1 DEF SInv, GivenUp, Fresh, Given
  <2>7. Given' = Given \cup {live.event.device}
    <3>1. Given' = {t[1] : t \in left \cup {<<live.event.device, mem[c].pub>>}}
      BY <1>2, <1>5, <2>5 DEF Given
    <3>2. <<live.event.device, mem[c].pub>>[1] = live.event.device
      OBVIOUS
    <3> QED
      BY <3>1, <3>2 DEF Given
  <2> HIDE DEF Binding, Given
  <2>8. PICK p \in Person : p = mem[c].person
    BY <2>4
  <2>9. Contract!Switch(c, p)
    BY <1>1, <1>2, <2>2, <2>3, <2>5, <2>6, <2>7, <2>8 DEF Contract!Switch, Given, Void
  <2>10. Contract!Next
    BY <1>1, <2>9 DEF Contract!Next, Void
  <2> QED
    BY <2>10 DEF OwnerStep
<1> QED
  BY <1>2, <1>3, <1>4, <1>5 DEF WritePreparing, WriteCommit, past

\* The exchange changes which directory is live, not which binding is in force.
LEMMA SwapUnseen ==
  ASSUME Between(live, staged), live' = staged, staged' = live,
         UNCHANGED <<journal, revoked, left, Void>>, journal.phase = "commit"
  PROVE  OwnerStep
<1>1. live.device = journal.old /\ staged.device # journal.old
  BY DEF Between
<1>2. Binding = staged.event /\ Binding' = staged.event
  BY <1>1 DEF Binding
<1> QED
  BY <1>2 DEF OwnerStep, Given

LEMMA ExchangeUnseen ==
  ASSUME IInv, TInv, SInv, NEW c \in Call, Exchange(c)
  PROVE  OwnerStep
<1>1. UNCHANGED <<journal, revoked, left, Void>> /\ pc[c] = "exchange"
  BY DEF Exchange, world, past, Void
<1>2. /\ mem[c].old = live.device /\ journal = Entry("commit", mem[c])
  BY <1>1 DEF SInv, StagingOf, SwitchedOf, Fresh
<1>3. journal.phase = "commit" /\ journal.old = live.device
  BY <1>2 DEF Entry
<1>4. Between(live, staged)
  BY <1>3 DEF SInv, Committed, Between
<1>5. UNCHANGED <<live, staged>> \/ (live' = staged /\ staged' = live)
  BY DEF Exchange
<1> QED
  BY <1>1, <1>3, <1>4, <1>5, SwapUnseen, Unseen

LEMMA CompleteUnseen ==
  ASSUME IInv, TInv, SInv, NEW a \in Process, Complete(a)
  PROVE  OwnerStep
<1>1. UNCHANGED <<journal, revoked, left, Void>> /\ pc[a] = "complete"
  BY DEF Complete, world, past, Void
<1>2. journal = Entry("commit", mem[a])
  BY <1>1 DEF SInv, SwitchedOf, Recovering, Installed, Process
<1>3. journal.phase = "commit" /\ journal.old = mem[a].old /\ DeviceOf(live) = live.device
  BY <1>2 DEF Entry, IInv, LiveIsOwned, Owned, DeviceOf
<1>4. UNCHANGED <<live, staged>> \/ (live.device = mem[a].old /\ live' = staged /\ staged' = live)
  BY <1>3 DEF Complete
<1>5. live.device = mem[a].old => Between(live, staged)
  BY <1>3 DEF SInv, Committed, Between
<1> QED
  BY <1>1, <1>3, <1>4, <1>5, SwapUnseen, Unseen

\* The journal goes when the new directory is live, or when nothing was committed.
LEMMA RemoveUnseen ==
  ASSUME IInv, TInv, SInv, NEW a \in Process, RemoveJournal(a)
  PROVE  OwnerStep
<1>1. /\ UNCHANGED <<live, staged, revoked, left, Void>>
      /\ pc[a] \in {"finish", "abort"} /\ a = Boot
  BY OnlyRecovery DEF RemoveJournal, world, past, Void
<1>2. CASE UNCHANGED journal
  BY <1>1, <1>2, Unseen
<1>3. CASE journal' = NoJournal /\ pc[Boot] = "abort"
  <2>1. journal.phase # "commit" /\ journal'.phase # "commit"
    BY <1>3 DEF SInv, Recovering, NoJournal
  <2> QED
    BY <1>1, <2>1 DEF OwnerStep, Binding, Given
<1>4. CASE journal' = NoJournal /\ pc[Boot] = "finish"
  <2>1. journal = Entry("commit", mem[Boot]) /\ live.device # mem[Boot].old
    BY <1>4 DEF SInv, Recovering, Installed
  <2>2. journal.old = mem[Boot].old /\ journal'.phase # "commit"
    BY <1>4, <2>1 DEF Entry, NoJournal
  <2>3. Binding' = Binding
    BY <1>1, <2>1, <2>2 DEF Binding
  <2> QED
    BY <1>1, <2>3 DEF OwnerStep, Given
<1> QED
  BY <1>1, <1>2, <1>3, <1>4 DEF RemoveJournal

\* What the recovery revokes is the device the journaled switch gave up.
LEMMA PublishIsRevoke ==
  ASSUME IInv, TInv, SInv, ~Void, NEW a \in Process, PublishRevocation(a)
  PROVE  OwnerStep
<1>1. /\ UNCHANGED <<live, staged, journal, left, Void>> /\ pc[a] = "publish"
      /\ revoked' = IF mem[a].pub THEN revoked \cup {mem[a].old} ELSE revoked
  BY DEF PublishRevocation, disk, past, Void
<1>2. a = Boot
  BY <1>1, OnlyRecovery
<1>3. journal = Entry("commit", mem[Boot]) /\ live.device # mem[Boot].old
  BY <1>1, <1>2 DEF SInv, Recovering, Installed, Effects
<1>4. journal.phase = "commit" /\ journal.old = mem[Boot].old
  BY <1>3 DEF Entry
<1>5. <<journal.old, journal.pub>> \in left /\ journal.old \in Device
  BY <1>3, <1>4 DEF SInv, Committed, Between, TInv, TypeOK, NoJournal
<1>6. Binding' = Binding /\ Given' = Given
  BY <1>1 DEF Binding, Given
<1>7. CASE revoked' = revoked
  BY <1>1, <1>7, Unseen
<1>8. CASE revoked' = revoked \cup {journal.old}
  <2>1. journal.old \in Given
    <3>1. <<journal.old, journal.pub>>[1] = journal.old
      OBVIOUS
    <3> QED
      BY <1>5, <3>1 DEF Given
  <2> HIDE DEF Binding, Given
  <2>2. Contract!Revoke(journal.old)
    BY <1>1, <1>6, <1>8, <2>1 DEF Contract!Revoke, Given, Void
  <2>3. Contract!Next
    BY <1>5, <2>2 DEF Contract!Next, Void
  <2> QED
    BY <2>3 DEF OwnerStep
<1> QED
  BY <1>1, <1>2, <1>4, <1>7, <1>8

\* A call that begins beside another one is where the contract ends.
LEMMA BeginUnseen ==
  ASSUME ~Void, NEW c \in Call, NEW p \in Person, NEW kind \in {"local", "nip46"},
         NEW disp \in {"transfer", "delete"}, Begin(c, p, kind, disp)
  PROVE  OwnerStep
<1>1. UNCHANGED <<live, journal, revoked, left>> /\ (journal.phase = "commit" => UNCHANGED staged)
  BY DEF Begin, world, NoJournal
<1>2. Binding' = Binding /\ Given' = Given
  BY <1>1 DEF Binding, Given
<1>3. CASE mishaps' = mishaps
  BY <1>1, <1>3, Unseen DEF Void
<1>4. CASE mishaps' = mishaps \cup {"overlap"}
  <2> HIDE DEF Binding, Given
  <2>1. Contract!Overlap
    BY <1>1, <1>2, <1>4 DEF Contract!Overlap, Given, Void
  <2>2. Contract!Next
    BY <2>1 DEF Contract!Next, Void
  <2> QED
    BY <2>2 DEF OwnerStep
<1> QED
  BY <1>3, <1>4 DEF Begin

\* Every other step is one that the contract does not see.
LEMMA RestUnseen ==
  ASSUME IInv, TInv, SInv,
         \/ \E a \in Process :
               \/ DisposeData(a) \/ Activate(a) \/ ResetTrust(a) \/ Sweep(a)
               \/ ActivateHalf(a) \/ ActivateTorn(a) \/ Fault(a)
         \/ BootStep \/ Restart \/ Crash \/ Announce \/ Play
         \/ \E p \in Player : Launch(p)
         \/ \E k \in Client : Pair(k)
         \/ \E p \in Person : DeleteRetired(p)
         \/ UNCHANGED vars
  PROVE  OwnerStep
<1>1. UNCHANGED <<journal, revoked, left, Void>>
  BY DEF DisposeData, Activate, ResetTrust, Sweep, ActivateHalf, ActivateTorn, Fault,
         BootStep, BootStart, Rollback, Restart, Crash, Announce, Play, Launch, Pair,
         DeleteRetired, vars, disk, world, past, Void
<1>2. live \in Directory
  BY DEF IInv, Shape
<1>3. \/ UNCHANGED live \/ (\E g : live' = [live EXCEPT !.grants = g])
  BY DEF DisposeData, Activate, ResetTrust, Sweep, ComeUp, ActivateHalf, ActivateTorn, Fault,
         BootStep, BootStart, Rollback, Restart, Crash, Announce, Play, Launch, Pair,
         DeleteRetired, vars, disk
<1>4. live'.device = live.device /\ live'.event = live.event
  BY <1>2, <1>3 DEF Directory
<1>5. journal.phase = "commit" => UNCHANGED staged
  <2>1. ASSUME NEW a \in Process, Sweep(a) PROVE journal.phase # "commit"
    <3>1. a = Boot /\ pc[a] = "sweep"
      BY <2>1, OnlyRecovery DEF Sweep
    <3> QED
      BY <3>1 DEF SInv, Recovering, NoJournal
  <2>2. ASSUME NEW a \in Process, ResetTrust(a) PROVE UNCHANGED staged
    BY <2>2 DEF ResetTrust
  <2>3. CASE BootStep
    BY <2>3 DEF BootStep, BootStart, Rollback, NoJournal, disk
  <2> QED
    BY <2>1, <2>2, <2>3
    DEF DisposeData, Activate, ActivateHalf, ActivateTorn, Fault, Restart, Crash,
        Announce, Play, Launch, Pair, DeleteRetired, vars, disk
<1> QED
  BY <1>1, <1>4, <1>5, Unseen

LEMMA NextIsOwnerStep == IInv /\ TInv /\ (~Void => SInv) /\ [Next]_vars => OwnerStep
<1> SUFFICES ASSUME IInv, TInv, ~Void => SInv, [Next]_vars PROVE OwnerStep
  OBVIOUS
<1>1. CASE Void
  <2>1. Contract!Next
    BY <1>1, MishapsGrow DEF Contract!Next, Void
  <2> QED
    BY <2>1 DEF OwnerStep
<1>2. CASE ~Void
  <2>1. SInv
    BY <1>2
  <2>2. CASE \E c \in Call, p \in Person, kind \in {"local", "nip46"},
                disp \in {"transfer", "delete"} : Begin(c, p, kind, disp)
    BY <1>2, <2>2, BeginUnseen
  <2>3. CASE \E c \in Call : CallStep(c)
    BY <1>2, <2>1, <2>3, StagingUnseen, WriteIsSwitch, ExchangeUnseen DEF CallStep
  <2>4. CASE \E a \in Process : CommitStep(a)
    BY <1>2, <2>1, <2>4, CompleteUnseen, PublishIsRevoke, RemoveUnseen, RestUnseen DEF CommitStep
  <2>5. CASE \E a \in Process : ActivateHalf(a) \/ ActivateTorn(a) \/ Fault(a)
    BY <2>1, <2>5, RestUnseen
  <2> QED
    BY <2>1, <2>2, <2>3, <2>4, <2>5, RestUnseen DEF Next
<1> QED
  BY <1>1, <1>2

\* The switch implements DeviceOwner.  Whatever fails or dies in between and however
\* often the recovery repeats its effects, the device key and its owner change in one
\* step, when the commit is journaled; a device key that was given up never comes
\* back, and no other is ever revoked.  The contract ends when two calls overlap.
THEOREM ImplementsDeviceOwner == Spec => OwnerContract
<1>1. Init => \E d \in Device, p \in Person : Contract!Start(d, p)
  <2> SUFFICES ASSUME Init PROVE \E d \in Device, p \in Person : Contract!Start(d, p)
    OBVIOUS
  <2>1. /\ Binding = [device |-> FirstDevice, owner |-> FirstOwner]
        /\ Given = {} /\ revoked = {} /\ "overlap" \notin mishaps
    BY DEF Init, Binding, Given, NoJournal
  <2>2. Contract!Start(FirstDevice, FirstOwner)
    BY <2>1 DEF Contract!Start, Given
  <2> QED
    BY <2>2, SwitchConstants DEF Device
<1>2. IInv /\ TInv /\ ("overlap" \notin mishaps => SInv) /\ [Next]_vars
        => [Contract!Next]_<<Binding, Given, revoked, Void>>
  BY NextIsOwnerStep DEF OwnerStep, Void
<1> QED
  BY <1>1, <1>2, Serial, PTL DEF Spec, OwnerContract, Contract!Spec, Given, Void
===============================================================================
