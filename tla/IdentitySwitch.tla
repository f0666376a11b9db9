---------------------------- MODULE IdentitySwitch ----------------------------
(***************************************************************************)
(* The identity switch of korrid (services/korrid/src/identity_switch):    *)
(* the device owner is replaced by another person.  A call stages a new    *)
(* device key and the new person's signed owner statement next to the live *)
(* identity directory, journals the switch, exchanges the two directories  *)
(* and then carries the effects out: play records, local signer, trust,    *)
(* the revocation of the old device.  korrid exits after every call; what  *)
(* a call left unfinished is rolled back or completed by the next start.   *)
(*                                                                         *)
(* Nothing serialises switch calls: each is a process of its own, and so   *)
(* is the recovery of a starting korrid (Boot).  An await of a call ends   *)
(* its step.  The device key a call creates is named after the call.       *)
(***************************************************************************)
EXTENDS Naturals, FiniteSets

CONSTANTS
    Call,           \* identity switch calls
    Person,         \* person keys
    Player,         \* persons who play on the device
    Client,         \* stream clients that can be paired
    FirstDevice, FirstOwner,
    Boot,           \* the recovery process of a starting korrid
    None,
    MaxConcurrent,  \* switch calls that run at once
    MaxFaults,      \* bound on failing external calls and file operations
    MaxCrashes,     \* bound on deaths of korrid other than its own exits
    MaxDeletes,     \* bound on deletions of retired keys
    MaxTorn         \* bound on changes of key the signer leaves half done

ASSUME SwitchConstants ==
    /\ FirstDevice \notin Call /\ Boot \notin Call
    /\ FirstOwner \in Person /\ Player \subseteq Person
    /\ None \notin Call \cup Person \cup Client \cup {FirstDevice, Boot}
    /\ MaxConcurrent \in Nat \ {0}
    /\ MaxFaults \in Nat /\ MaxCrashes \in Nat /\ MaxDeletes \in Nat
    /\ MaxTorn \in Nat

VARIABLES
    live,       \* <private root>/identity
    staged,     \* <private root>/identity-switch/next/identity
    journal,    \* identity-switch/journal
    active,     \* person key active in the local signer
    retired,    \* person keys the local signer holds inactive
    plays,      \* persons with play records
    game,       \* person the journaled game session was launched for
    memory,     \* device key the federation directory on disk belongs to
    trusted,    \* stream clients the streaming host accepts, with the device
                \* key they were paired under
    announced,  \* device keys whose owner statement is on the relays
    revoked,    \* device keys whose revocation is on the relays
    booted,     \* owner binding the running korrid loaded at its start
    pc, mem,    \* program counter and locals of every process
    faults, crashes, deletes, torn,
    left,       \* history: devices given up by a committed switch, with
                \* whether their revocation is owed
    owed,       \* history: persons who gave the device up and for whom no play
                \* was logged since their records were disposed of
    mishaps     \* history: "overlap", a call began while another ran; "delete",
                \* a retired key was deleted during a switch

disk == <<live, staged, journal>>
keys == <<active, retired>>
data == <<plays, game, memory>>
world == <<trusted, announced, revoked>>
bounds == <<faults, crashes, deletes, torn>>
past == <<left, owed, mishaps>>
vars == <<disk, keys, data, world, booted, pc, mem, bounds, past>>

-----------------------------------------------------------------------------
(* State *)

Process == Call \cup {Boot}
Device == Call \cup {FirstDevice}

NoEvent == [device |-> None, owner |-> None]

\* An identity directory: device key, owner statement, the person of its
\* NIP-46 connection, and the certificate grants of its peers.  None for the
\* grants: the directory identity/peer-certificates does not exist.
NoDir == [device |-> None, event |-> NoEvent, remote |-> None, grants |-> None]

NoJournal == [phase |-> "none"]

NoCall == [old |-> None, owner |-> None, person |-> None, kind |-> "local",
           disp |-> "delete", pub |-> FALSE]

\* The device key load_or_create reports: none when the statement beside it
\* binds another key (IdentityState::Invalid).
DeviceOf(dir) ==
    IF dir.event # NoEvent /\ dir.event.device # dir.device THEN None ELSE dir.device

Owned(dir) == dir.device # None /\ dir.event.device = dir.device

Holds(dir, event) == Owned(dir) /\ dir.event = event

Entry(phase, l) ==
    [phase |-> phase, old |-> l.old, owner |-> l.owner, kind |-> l.kind,
     disp |-> l.disp, pub |-> l.pub]

Running == {c \in Call : pc[c] \notin {"idle", "returned", "gone"}}

Events == [device : Device, owner : Person] \cup {NoEvent}

Dirs == [device : Device, event : Events, remote : Person \cup {None},
         grants : (SUBSET Client) \cup {None}] \cup {NoDir}

TypeOK ==
    /\ live \in Dirs \ {NoDir} /\ staged \in Dirs
    /\ journal \in {NoJournal} \cup
          [phase : {"preparing", "commit"}, old : Device, owner : Person,
           kind : {"local", "nip46"}, disp : {"transfer", "delete"}, pub : BOOLEAN]
    /\ active \in Person \cup {None} /\ retired \subseteq Person
    /\ plays \subseteq Person /\ game \in Person \cup {None} /\ memory \in Device
    /\ trusted \subseteq Client \X Device
    /\ announced \subseteq Device /\ revoked \subseteq announced
    /\ booted \in Events \ {NoEvent}
    /\ pc \in [Process -> {"idle", "stage", "import", "approve", "bind", "revoke",
                           "prepare", "commit", "exchange", "complete", "data", "signer",
                           "trust", "publish", "finish", "sweep", "returned", "gone",
                           "start", "rollback", "abort", "up"}]
    /\ \A c \in Running : pc[Boot] = "up"
    /\ faults \in 0..MaxFaults /\ crashes \in 0..MaxCrashes /\ deletes \in 0..MaxDeletes
    /\ torn \in 0..MaxTorn
    /\ left \subseteq Device \X BOOLEAN /\ owed \subseteq Person
    /\ mishaps \subseteq {"overlap", "delete"}
    /\ active \in retired => torn > 0

Init ==
    /\ live = [device |-> FirstDevice, event |-> [device |-> FirstDevice, owner |-> FirstOwner],
               remote |-> None, grants |-> {}]
    /\ staged = NoDir /\ journal = NoJournal
    /\ active = FirstOwner /\ retired = {}
    /\ plays = {} /\ game = None /\ memory = FirstDevice
    /\ trusted = {} /\ announced = {} /\ revoked = {}
    /\ left = {} /\ owed = {} /\ mishaps = {}
    /\ booted = live.event
    /\ pc = [a \in Process |-> IF a = Boot THEN "up" ELSE "idle"]
    /\ mem = [a \in Process |-> NoCall]
    /\ faults = 0 /\ crashes = 0 /\ deletes = 0 /\ torn = 0

-----------------------------------------------------------------------------
(* Helpers of the steps *)

Goto(a, l) == pc' = [pc EXCEPT ![a] = l]

\* A call that fails answers its caller and korrid exits half a second later; a
\* recovery that fails panics and the service manager starts korrid again.
FailTo(a) == Goto(a, IF a = Boot THEN "start" ELSE "returned")

\* korrid is up: the federation resources are opened from the live directory.
ComeUp ==
    /\ live' = [live EXCEPT !.grants = IF @ = None THEN {} ELSE @]
    /\ booted' = live.event
    /\ Goto(Boot, "up")

-----------------------------------------------------------------------------
(* Faulty variants of the operations below: one plausible bug each.  They   *)
(* are not part of the specification.                                       *)

\* The imported key is stored without looking at the active one.
Import_Active(c) ==
    /\ pc[c] = "import"
    /\ retired' = retired \cup {mem[c].person}
    /\ Goto(c, "approve")
    /\ UNCHANGED <<disk, active, data, world, booted, mem, bounds, past>>

\* The signed statement stays in memory.
Bind_InMemory(c) ==
    /\ pc[c] = "bind"
    /\ Goto(c, "revoke")
    /\ UNCHANGED <<disk, keys, data, world, booted, mem, bounds, past>>

\* A committed journal is taken as proof that the directories were exchanged.
Complete_AssumesExchange(a) ==
    /\ pc[a] = "complete"
    /\ mem' = [mem EXCEPT ![a].person =
                 IF DeviceOf(live) = mem[a].old THEN staged.event.owner ELSE live.event.owner]
    /\ Goto(a, "data")
    /\ UNCHANGED <<disk, keys, data, world, booted, bounds, past>>

\* Recovery rolls a committed switch back while the old directory is live.
BootStart_RollsBack ==
    /\ pc[Boot] = "start"
    /\ \/ /\ journal = NoJournal
          /\ staged' = NoDir
          /\ ComeUp
          /\ UNCHANGED <<journal, mem>>
       \/ /\ journal # NoJournal
          /\ mem' = [mem EXCEPT ![Boot] = [NoCall EXCEPT !.old = journal.old,
                        !.owner = journal.owner, !.kind = journal.kind,
                        !.disp = journal.disp, !.pub = journal.pub]]
          /\ IF DeviceOf(live) = journal.old
             THEN journal' = [journal EXCEPT !.phase = "preparing"] /\ Goto(Boot, "rollback")
             ELSE journal' = journal /\ Goto(Boot, "complete")
          /\ UNCHANGED <<live, staged, booted>>
    /\ UNCHANGED <<keys, data, world, bounds, past>>

\* The old key is retired and the replacement is not promoted.
Activate_OnlyRetires(a) ==
    /\ pc[a] = "signer"
    /\ IF active = mem[a].owner
       THEN active' = None /\ retired' = retired \cup {mem[a].owner}
       ELSE UNCHANGED keys
    /\ Goto(a, "trust")
    /\ UNCHANGED <<disk, data, world, booted, mem, bounds, past>>

\* A signer that already holds the replacement is taken for a mismatch.
Activate_Once(a) ==
    LET l == mem[a]
        new == IF l.kind = "local" THEN l.person ELSE None
    IN  /\ pc[a] = "signer"
        /\ IF active \in {l.owner, None} /\ new \in retired \cup {None}
           THEN /\ active' = new
                /\ retired' = (retired \cup ({active} \ {None})) \ {new}
                /\ Goto(a, "trust")
           ELSE FailTo(a) /\ UNCHANGED keys
        /\ UNCHANGED <<disk, data, world, booted, mem, bounds, past>>

-----------------------------------------------------------------------------
(* A switch call *)

\* Abandoned staging is removed, a pending journal is refused, and the current
\* identity is loaded; then the relays are asked whether it was published.
Begin(c, p, kind, disp) ==
    /\ pc[Boot] = "up" /\ pc[c] = "idle"
    /\ Cardinality(Running) < MaxConcurrent
    /\ mishaps' = IF Running = {} THEN mishaps ELSE mishaps \cup {"overlap"}
    /\ \/ /\ journal # NoJournal
          /\ Goto(c, "returned")
          /\ UNCHANGED <<staged, mem>>
       \/ /\ journal = NoJournal
          /\ staged' = NoDir
          /\ IF Owned(live)
             THEN /\ mem' = [mem EXCEPT ![c] = [old |-> live.device, owner |-> live.event.owner,
                                person |-> p, kind |-> kind, disp |-> disp, pub |-> FALSE]]
                  /\ Goto(c, "stage")
             ELSE FailTo(c) /\ UNCHANGED mem
    /\ UNCHANGED <<live, journal, keys, data, world, booted, bounds, left, owed>>

\* The relays have answered.  prepare_staging_root, the new device key and, for
\* a NIP-46 replacement, its connection.
Stage(c) ==
    /\ pc[c] = "stage"
    /\ \/ /\ journal # NoJournal \/ staged # NoDir
          /\ FailTo(c)
          /\ UNCHANGED <<staged, mem>>
       \/ /\ journal = NoJournal /\ staged = NoDir
          /\ staged' = [NoDir EXCEPT !.device = c,
                            !.remote = IF mem[c].kind = "nip46" THEN mem[c].person ELSE None]
          /\ mem' = [mem EXCEPT ![c].pub = mem[c].old \in announced]
          /\ Goto(c, IF mem[c].kind = "local" THEN "import" ELSE "approve")
    /\ UNCHANGED <<live, journal, keys, data, world, booted, bounds, past>>

\* stage_import: the local signer keeps the imported key as an inactive one.
Import(c) ==
    /\ pc[c] = "import"
    /\ IF active = mem[c].person
       THEN FailTo(c) /\ UNCHANGED retired
       ELSE retired' = retired \cup {mem[c].person} /\ Goto(c, "approve")
    /\ UNCHANGED <<disk, active, data, world, booted, mem, bounds, past>>

\* The replacement has signed the owner statement of the new device key.  The
\* person that already owns the device is refused, and what was staged for it
\* is removed.
Approve(c) ==
    LET local == mem[c].kind = "local"
    IN  /\ pc[c] = "approve"
        /\ \/ /\ IF local THEN mem[c].person \notin retired ELSE staged = NoDir
              /\ FailTo(c)
              /\ UNCHANGED <<staged, retired>>
           \/ /\ IF local THEN mem[c].person \in retired ELSE staged # NoDir
              /\ mem[c].person = mem[c].owner
              /\ retired' = IF local /\ active # mem[c].person
                            THEN retired \ {mem[c].person} ELSE retired
              /\ staged' = IF journal = NoJournal THEN NoDir ELSE staged
              /\ FailTo(c)
           \/ /\ IF local THEN mem[c].person \in retired ELSE staged # NoDir
              /\ mem[c].person # mem[c].owner
              /\ staged' = IF local THEN staged ELSE [staged EXCEPT !.remote = mem[c].person]
              /\ Goto(c, "bind")
              /\ UNCHANGED retired
        /\ UNCHANGED <<live, journal, active, data, world, booted, mem, bounds, past>>

\* apply_signed_owner_binding checks the statement against the key it holds in
\* memory and writes the file into whatever directory is there.
Bind(c) ==
    /\ pc[c] = "bind"
    /\ IF staged = NoDir
       THEN FailTo(c) /\ UNCHANGED staged
       ELSE /\ staged' = [staged EXCEPT !.event = [device |-> c, owner |-> mem[c].person]]
            /\ Goto(c, "revoke")
    /\ UNCHANGED <<live, journal, keys, data, world, booted, mem, bounds, past>>

\* sign_current_owner: the old owner signs the revocation, in the local signer
\* or over the NIP-46 connection of the live directory.
SignRevocation(c) ==
    /\ pc[c] = "revoke"
    /\ IF active \notin retired /\ mem[c].owner \in {active, live.remote}
       THEN Goto(c, "prepare") ELSE FailTo(c)
    /\ UNCHANGED <<disk, keys, data, world, booted, mem, bounds, past>>

WritePreparing(c) ==
    /\ pc[c] = "prepare"
    /\ IF journal # NoJournal
       THEN FailTo(c) /\ UNCHANGED journal
       ELSE journal' = Entry("preparing", mem[c]) /\ Goto(c, "commit")
    /\ UNCHANGED <<live, staged, keys, data, world, booted, mem, bounds, past>>

WriteCommit(c) ==
    /\ pc[c] = "commit"
    /\ IF journal # Entry("preparing", mem[c])
       THEN FailTo(c) /\ UNCHANGED <<journal, left, owed>>
       ELSE /\ journal' = Entry("commit", mem[c])
            /\ left' = left \cup {<<mem[c].old, mem[c].pub>>}
            /\ owed' = (owed \cup {mem[c].owner}) \ {mem[c].person}
            /\ Goto(c, "exchange")
    /\ UNCHANGED <<live, staged, keys, data, world, booted, mem, bounds, mishaps>>

\* exchange_identity_directories with the statements the call holds.
Exchange(c) ==
    LET old == [device |-> mem[c].old, owner |-> mem[c].owner]
        new == [device |-> c, owner |-> mem[c].person]
    IN  /\ pc[c] = "exchange"
        /\ CASE journal.phase = "commit" /\ Holds(live, old) /\ Holds(staged, new) ->
                  live' = staged /\ staged' = live /\ Goto(c, "complete")
             [] journal.phase = "commit" /\ Holds(live, new) /\ Holds(staged, old) ->
                  Goto(c, "complete") /\ UNCHANGED <<live, staged>>
             [] OTHER -> FailTo(c) /\ UNCHANGED <<live, staged>>
        /\ UNCHANGED <<journal, keys, data, world, booted, mem, bounds, past>>

-----------------------------------------------------------------------------
(* complete_commit, by the call or by the recovery of the next start *)

\* The two directories are told apart by the device of the journaled
\* revocation, and exchanged if the old one is still live.
Complete(a) ==
    /\ pc[a] = "complete"
    /\ CASE DeviceOf(live) = mem[a].old /\ Owned(live) /\ Owned(staged) ->
              /\ live' = staged /\ staged' = live
              /\ mem' = [mem EXCEPT ![a].person = staged.event.owner]
              /\ Goto(a, "data")
         [] DeviceOf(live) # mem[a].old /\ DeviceOf(staged) = mem[a].old
                /\ Owned(live) /\ Owned(staged) ->
              /\ mem' = [mem EXCEPT ![a].person = live.event.owner]
              /\ Goto(a, "data")
              /\ UNCHANGED <<live, staged>>
         [] OTHER -> FailTo(a) /\ UNCHANGED <<live, staged, mem>>
    /\ UNCHANGED <<journal, keys, data, world, booted, bounds, past>>

\* transfer_person_records or delete_person_records.  A transfer to a person who
\* has a record of the same game is refused, now and whenever it is tried again.
DisposeData(a) ==
    LET l == mem[a]
    IN  /\ pc[a] = "data"
        /\ \/ /\ plays' = IF l.disp = "transfer" /\ l.owner \in plays
                           THEN (plays \ {l.owner}) \cup {l.person} ELSE plays \ {l.owner}
              /\ owed' = owed \cup {l.owner}
              /\ Goto(a, "signer")
           \/ /\ l.disp = "transfer" /\ {l.owner, l.person} \subseteq plays
              /\ FailTo(a)
              /\ UNCHANGED <<plays, owed>>
        /\ UNCHANGED <<disk, keys, game, memory, world, booted, mem, bounds, left, mishaps>>

\* The signer reports its status, which it refuses while a key is both active
\* and retired; then it retires the old owner's key and promotes a local
\* replacement.  A signer that has done so already is left alone.
Activate(a) ==
    LET l == mem[a]
        new == IF l.kind = "local" THEN l.person ELSE None
    IN  /\ pc[a] = "signer"
        /\ CASE active \in retired -> FailTo(a) /\ UNCHANGED keys
             [] active \in {l.owner, None} \ retired /\ new \in retired \cup {None} ->
                  /\ active' = new
                  /\ retired' = (retired \cup ({active} \ {None})) \ {new}
                  /\ Goto(a, "trust")
             [] active \notin retired \cup {l.owner, None} /\ active = new ->
                  Goto(a, "trust") /\ UNCHANGED keys
             [] OTHER -> FailTo(a) /\ UNCHANGED keys
        /\ UNCHANGED <<disk, data, world, booted, mem, bounds, past>>

\* The signer stops between retiring the old key and promoting the new one.
ActivateHalf(a) ==
    LET l == mem[a]
    IN  /\ pc[a] = "signer" /\ faults < MaxFaults
        /\ active = l.owner /\ active \notin retired
        /\ (l.kind = "local" => l.person \in retired)
        /\ active' = None /\ retired' = retired \cup {l.owner}
        /\ faults' = faults + 1
        /\ FailTo(a)
        /\ UNCHANGED <<disk, data, world, booted, mem, crashes, deletes, torn, past>>

\* The signer dies after it wrote the retired copy of the old key and before it
\* removed the active one, or after it linked the replacement as the active key
\* and before it removed the retired entry.
ActivateTorn(a) ==
    LET l == mem[a]
    IN  /\ pc[a] = "signer" /\ torn < MaxTorn
        /\ active \in {l.owner, None} \ retired
        /\ l.kind = "local" => l.person \in retired
        /\ \/ active = l.owner /\ UNCHANGED active
           \/ l.kind = "local" /\ active' = l.person
        /\ retired' = retired \cup ({active} \ {None})
        /\ torn' = torn + 1
        /\ FailTo(a)
        /\ UNCHANGED <<disk, data, world, booted, mem, faults, crashes, deletes, past>>

\* The stream clients of the grants in the live directory are revoked, the
\* authorization evidence is cleared and the federation directory starts over.
\* A recovery opens the authorization store, which creates its directories; a
\* call uses the store opened at korrid's start and reads the directory as it is.
ResetTrust(a) ==
    /\ pc[a] = "trust"
    /\ IF a = Boot \/ live.grants # None
       THEN /\ trusted' = IF live.grants = None THEN trusted
                          ELSE {t \in trusted : t[1] \notin live.grants}
            /\ live' = [live EXCEPT !.grants = {}]
            /\ memory' = live.device
            /\ Goto(a, "publish")
       ELSE FailTo(a) /\ UNCHANGED <<live, memory, trusted>>
    /\ UNCHANGED <<staged, journal, keys, plays, game, announced, revoked, booted, mem, bounds, past>>

\* A published owner statement is revoked on the relays; a relay that refuses
\* is a fault.
PublishRevocation(a) ==
    /\ pc[a] = "publish"
    /\ revoked' = IF mem[a].pub THEN revoked \cup {mem[a].old} ELSE revoked
    /\ Goto(a, "finish")
    /\ UNCHANGED <<disk, keys, data, trusted, announced, booted, mem, bounds, past>>

\* finish_commit and abort_preparing: first the journal, then the staging tree.
RemoveJournal(a) ==
    /\ pc[a] \in {"finish", "abort"}
    /\ IF journal.phase = IF pc[a] = "finish" THEN "commit" ELSE "preparing"
       THEN journal' = NoJournal /\ Goto(a, "sweep")
       ELSE FailTo(a) /\ UNCHANGED journal
    /\ UNCHANGED <<live, staged, keys, data, world, booted, mem, bounds, past>>

Sweep(a) ==
    /\ pc[a] = "sweep"
    /\ staged' = NoDir
    /\ IF a = Boot THEN ComeUp ELSE Goto(a, "returned") /\ UNCHANGED <<live, booted>>
    /\ UNCHANGED <<journal, keys, data, world, mem, bounds, past>>

-----------------------------------------------------------------------------
(* Recovery at start *)

BootStart ==
    /\ pc[Boot] = "start"
    /\ \/ /\ journal = NoJournal
          /\ staged' = NoDir
          /\ ComeUp
          /\ UNCHANGED mem
       \/ /\ journal # NoJournal
          /\ mem' = [mem EXCEPT ![Boot] = [NoCall EXCEPT !.old = journal.old,
                        !.owner = journal.owner, !.kind = journal.kind,
                        !.disp = journal.disp, !.pub = journal.pub]]
          /\ Goto(Boot, IF journal.phase = "preparing" THEN "rollback" ELSE "complete")
          /\ UNCHANGED <<live, staged, booted>>
    /\ UNCHANGED <<journal, keys, data, world, bounds, past>>

\* A switch that was only being prepared: the imported key is dropped.
Rollback ==
    /\ pc[Boot] = "rollback"
    /\ IF mem[Boot].kind = "local" /\ Owned(staged)
       THEN IF active = staged.event.owner
            THEN FailTo(Boot) /\ UNCHANGED retired
            ELSE retired' = retired \ {staged.event.owner} /\ Goto(Boot, "abort")
       ELSE Goto(Boot, "abort") /\ UNCHANGED retired
    /\ UNCHANGED <<disk, active, data, world, booted, mem, bounds, past>>

-----------------------------------------------------------------------------
(* Failures, restarts and the rest of korrid *)

\* A signer, a relay or a file operation fails.
Fault(a) ==
    /\ pc[a] \notin {"idle", "returned", "gone", "start", "up"}
    /\ faults < MaxFaults
    /\ faults' = faults + 1
    /\ FailTo(a)
    /\ UNCHANGED <<disk, keys, data, world, booted, mem, crashes, deletes, torn, past>>

\* Every process ends, and its locals with it.
Stop ==
    /\ pc' = [a \in Process |-> IF a = Boot THEN "start"
                                ELSE IF pc[a] = "idle" THEN "idle" ELSE "gone"]
    /\ mem' = [a \in Process |-> NoCall]

\* schedule_identity_restart: korrid exits once a call has returned.
Restart ==
    /\ \E c \in Call : pc[c] = "returned"
    /\ Stop
    /\ UNCHANGED <<disk, keys, data, world, booted, bounds, past>>

Crash ==
    /\ crashes < MaxCrashes
    /\ crashes' = crashes + 1
    /\ Stop
    /\ UNCHANGED <<disk, keys, data, world, booted, faults, deletes, torn, past>>

\* A game is launched for the owner of the live directory, or for the person whose
\* pass the asking device holds; the session journal keeps the person.
Launch(p) ==
    /\ pc[Boot] = "up" /\ game = None
    /\ game' = p
    /\ UNCHANGED <<disk, keys, plays, memory, world, booted, pc, mem, bounds, past>>

\* complete_active: the finished game is logged for the journaled person, whoever
\* owns the device by now.  The game outlives korrid's exit.
Play ==
    /\ pc[Boot] = "up" /\ game # None
    /\ plays' = plays \cup {game}
    /\ owed' = owed \ {game}
    /\ game' = None
    /\ UNCHANGED <<disk, keys, memory, world, booted, pc, mem, bounds, left, mishaps>>

\* A stream client is granted a certificate and the streaming host accepts it.
Pair(k) ==
    /\ pc[Boot] = "up" /\ live.grants # None
    /\ k \notin live.grants
    /\ live' = [live EXCEPT !.grants = @ \cup {k}]
    /\ trusted' = trusted \cup {<<k, live.device>>}
    /\ UNCHANGED <<staged, journal, keys, data, announced, revoked, booted, pc, mem, bounds, past>>

\* A federation cycle publishes the owner statement korrid holds in memory.
Announce ==
    /\ pc[Boot] = "up"
    /\ booted.device \notin announced
    /\ announced' = announced \cup {booted.device}
    /\ UNCHANGED <<disk, keys, data, trusted, revoked, booted, pc, mem, bounds, past>>

DeleteRetired(p) ==
    /\ pc[Boot] = "up" /\ deletes < MaxDeletes
    /\ p \in retired /\ p # active
    /\ retired' = retired \ {p}
    /\ deletes' = deletes + 1
    /\ mishaps' = IF Running = {} /\ journal = NoJournal THEN mishaps
                  ELSE mishaps \cup {"delete"}
    /\ UNCHANGED <<disk, active, data, world, booted, pc, mem, faults, crashes, torn, left, owed>>

-----------------------------------------------------------------------------

CallStep(c) ==
    \/ Stage(c) \/ Import(c) \/ Approve(c) \/ Bind(c) \/ SignRevocation(c)
    \/ WritePreparing(c) \/ WriteCommit(c) \/ Exchange(c)

CommitStep(a) ==
    \/ Complete(a) \/ DisposeData(a) \/ Activate(a) \/ ResetTrust(a)
    \/ PublishRevocation(a) \/ RemoveJournal(a) \/ Sweep(a)

BootStep == BootStart \/ Rollback

Next ==
    \/ \E c \in Call, p \in Person, kind \in {"local", "nip46"}, disp \in {"transfer", "delete"} :
          Begin(c, p, kind, disp)
    \/ \E c \in Call : CallStep(c)
    \/ \E a \in Process : CommitStep(a) \/ ActivateHalf(a) \/ ActivateTorn(a) \/ Fault(a)
    \/ BootStep
    \/ Restart \/ Crash
    \/ Play \/ Announce
    \/ \E p \in Player : Launch(p)
    \/ \E k \in Client : Pair(k)
    \/ \E p \in Person : DeleteRetired(p)

Spec == Init /\ [][Next]_vars

\* Every await of a call ends (relays and signers are bounded by timeouts),
\* korrid exits after a call, and the service manager starts it again.
Fairness ==
    /\ \A c \in Call : WF_vars(CallStep(c))
    /\ \A a \in Process : WF_vars(CommitStep(a))
    /\ WF_vars(BootStep)
    /\ WF_vars(Restart)

FairSpec == Spec /\ Fairness

-----------------------------------------------------------------------------
(* Properties *)

\* The signer holds the replacement key of a committed local switch.
ReplacementIsHeld ==
    journal.phase = "commit" /\ journal.kind = "local" =>
        LET new == IF live.device = journal.old THEN staged ELSE live
        IN  new.event.owner \in retired \cup {active}

\* A committed switch can always be completed: the directories are two complete
\* identities, one of them the journaled old device, owned by two persons, and
\* the signer still has the key it needs.
CommitIsRecoverable ==
    /\ ReplacementIsHeld
    /\ journal.phase = "commit" =>
          /\ Owned(live) /\ Owned(staged)
          /\ live.event.owner # staged.event.owner
          /\ Cardinality({live.device, staged.device} \cap {journal.old}) = 1

\* Whatever fails or dies, only a second call beside the first, or a retired key
\* that is deleted during a switch, can take away what completing it needs.
CommitSurvives == mishaps = {} => CommitIsRecoverable

\* At every moment the live directory is one complete identity, and it is never
\* one whose revocation has been published.
LiveIsOwned == Owned(live) /\ live.device \notin revoked

\* Once no switch is journaled the owner of the device can sign: its key is the
\* active one of the local signer or it has a NIP-46 connection; and no other
\* person's key is active.
SignerFollowsOwner ==
    journal = NoJournal =>
        /\ active \in {live.event.owner, None}
        /\ live.event.owner \in {active, live.remote}

\* Once no switch is journaled its other effects are complete: a person who gave
\* the device up has no play records of the time before, the federation directory
\* is the live device's, and what was published when the switch was committed is
\* revoked.
EffectsAreComplete ==
    journal = NoJournal =>
        /\ plays \cap owed = {}
        /\ memory = live.device
        /\ \A d \in Device : <<d, TRUE>> \in left => d \in revoked

\* A switch is all or nothing, as long as no two calls overlapped: signer, records,
\* directory and revocation follow the live identity as soon as no switch is
\* journaled.
SwitchIsWhole == "overlap" \notin mishaps => SignerFollowsOwner /\ EffectsAreComplete

\* Refuted, see the README.
\* The switch loses stream trust: the streaming host accepts only clients that
\* were paired under the live device key.
StreamTrustIsLost ==
    journal = NoJournal => \A t \in trusted : t[2] = live.device

\* The owner binding in force: a committed switch counts as done.
Binding ==
    IF journal.phase = "commit" /\ live.device = journal.old THEN staged.event ELSE live.event

\* What no start of korrid gets over: the signer died with a key that is active and
\* retired, the records of the two persons collide, or the replacement is deleted.
Stuck ==
    /\ journal.phase = "commit"
    /\ \/ active \in retired
       \/ journal.disp = "transfer" /\ {journal.owner, Binding.owner} \subseteq plays
       \/ ~ReplacementIsHeld

\* Every journaled switch is finished or rolled back, or it is stuck for good in one
\* of three ways.
JournalResolves == journal # NoJournal ~> (journal = NoJournal \/ []Stuck)

Contract == INSTANCE DeviceOwner WITH
    authority <- Binding,
    given <- {t[1] : t \in left},
    void <- "overlap" \in mishaps

\* The switch implements DeviceOwner: seen from outside, device key and owner change
\* in one step, when the commit is journaled, no fault, crash or repeated recovery
\* undoes or repeats it, and only a key that was given up is ever revoked.
OwnerContract == Contract!Spec

=============================================================================
