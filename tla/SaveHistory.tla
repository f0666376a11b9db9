----------------------------- MODULE SaveHistory -----------------------------
(***************************************************************************)
(* One person's save history of one game on that person's devices          *)
(* (services/korrid/src/saves/): the records and objects each device       *)
(* stores, the session boundaries that read and write them, and the peer   *)
(* synchronization that moves them.                                        *)
(*                                                                         *)
(* A snapshot record is immutable and named by the hash of its bytes, so   *)
(* two devices that write the same record write one record.  `rec' lists   *)
(* every record that was ever made; its index is the id, and a parent has  *)
(* a smaller id than its child.  `ended' stands for ended_at: a session    *)
(* and a pick stamp their own, a join copies its first head's.  Contents   *)
(* are the progress files of a snapshot, one object each; screenshots,     *)
(* which never decide anything, are left out with the in-use warnings.     *)
(*                                                                         *)
(* Every operation of NativeSaveStore holds one mutex, so each is one      *)
(* step; an awaited call of the synchronization separates two steps.       *)
(*                                                                         *)
(* Simplifications: a device synchronizes with one peer at a time (the code *)
(* runs one contact per peer at once, and a launch's check beside them:     *)
(* what they write is only added to, under the store's mutex); the peer's   *)
(* handler of a pushed record is one step, or is cut off at one of its      *)
(* awaits.                                                                  *)
(***************************************************************************)
EXTENDS Integers, FiniteSets, Sequences, FiniteSetsExt

CONSTANTS
    Devices,      \* the owner's devices
    Purposes,     \* why a device synchronizes, a subset of SyncPurposes
    Keep,         \* snapshots whose payload retention keeps (10 in the code)
    MaxRecords,   \* bound: records ever made
    WildContents, \* contents save folders may hold before the first sync
    MaxContents,  \* bound: different progress contents ever written
    MaxSyncs      \* bound: synchronizations under way at once

SyncPurposes == {"Replicate", "Contact", "CheckLaunch"}

ASSUME SaveHistoryAssumption ==
    /\ IsFiniteSet(Devices)
    /\ Purposes \subseteq SyncPurposes
    /\ Keep \in Nat \ {0}
    /\ MaxRecords \in Nat
    /\ MaxContents \in Nat
    /\ WildContents \subseteq 1..MaxContents
    /\ MaxSyncs \in Nat

VARIABLES
    rec,      \* every record made: parents, device, content, ended
    recs,     \* recs[d]: the records d stores
    objs,     \* objs[d]: the contents whose object d stores
    conf,     \* conf[d]: pairs <<record, device>> of confirmations.json
    wild,     \* wild[d]: content of d's save folder from before the first
              \* sync, 0 once it is in the history or was replaced
    session,  \* session[d]: the session boundary d is at
    sync,     \* sync[d]: the synchronization d runs with one peer
    mark      \* mark[d]: the remembered heads of a complete contact, per peer

vars == <<rec, recs, objs, conf, wild, session, sync, mark>>

store == <<rec, recs, objs, conf>>

------------------------------------------------------------------------------
(* Reading a history.                                                      *)

Ids == 1..Len(rec)

Contents == 1..MaxContents

Parents(S) == UNION {rec[x].parents : x \in S}

\* head_ids: the records no other record names as a parent.
head_ids(S) == S \ Parents(S)

Heads(d) == head_ids(recs[d])

\* T holds whatever the walk through S finds above a record of T.
Closed(S, T) == \A y \in S \cap T : rec[y].parents \subseteq T

\* The ancestors of a record, walked through the records of S only: the least
\* closed set that has the record's parents.
AncestorsIn(S) ==
    [x \in Ids |-> IF x \in S
                   THEN {a \in Ids : \A T \in SUBSET Ids :
                            rec[x].parents \subseteq T /\ Closed(S, T) => a \in T}
                   ELSE {}]

Ancestors == AncestorsIn(Ids)

\* record_complete: the store holds the record's objects.
Complete(d, x) == rec[x].content \in objs[d]

\* automatic_join applies: heads that agree on their progress.
Joinable(H) == \A x, y \in H : rec[x].content = rec[y].content

\* automatic_join: the lowest id's record with all the heads as parents.
JoinOf(H) == [rec[Min(H)] EXCEPT !.parents = H]

\* history_decision
Split(S) == Cardinality(head_ids(S)) > 1 /\ ~Joinable(head_ids(S))

CanJoin(d) == /\ Cardinality(Heads(d)) > 1
              /\ Joinable(Heads(d))
              /\ \A x \in Heads(d) : Complete(d, x)

------------------------------------------------------------------------------
(* Writing a history.  A record whose bytes exist already keeps its id.     *)

NextId == Len(rec) + 1

IdOf(r) == IF \E x \in Ids : rec[x] = r
           THEN CHOOSE x \in Ids : rec[x] = r
           ELSE NextId

Made(r) == IF \E x \in Ids : rec[x] = r THEN rec ELSE Append(rec, r)

CanMake(r) == IdOf(r) <= MaxRecords

\* write_record
WriteRecord(d, r) ==
    /\ CanMake(r)
    /\ rec' = Made(r)
    /\ recs' = [recs EXCEPT ![d] = @ \cup {IdOf(r)}]

\* reconcile: a join is published when every side's content is here.
Reconcile(d) ==
    /\ CanJoin(d)
    /\ WriteRecord(d, JoinOf(Heads(d)))
    /\ UNCHANGED <<objs, conf, wild, session, sync, mark>>

------------------------------------------------------------------------------
(* Session boundaries of one device.                                       *)

NoSession == [at |-> "none", base |-> 0, made |-> 0]

Idle(d) == session[d] = NoSession

\* Mutant of Parent: a session without a base names it all the same.
X_ParentZero(x) == {x}

Parent(x) == IF x = 0 THEN {} ELSE {x}

Snapshot(d, parents, c, stamp) ==
    [parents |-> parents, device |-> d, content |-> c, ended |-> stamp]

\* Contents a game may write: one that was seen before or a new one.  New
\* ones are numbered in the order they appear.
Seen == {rec[x].content : x \in Ids} \cup {wild[d] : d \in Devices}

Writable == {c \in Contents : c \in Seen \/ \A e \in 1..(c - 1) : e \in Seen}

\* The folder's content is that of a record this device knows.
Recognized(d) == \E x \in recs[d] : rec[x].content = wild[d]

\* capture_initial has something to do: this device made no record yet, and
\* its folder is neither stored nor recognized.
Unrecorded(d) ==
    /\ wild[d] # 0
    /\ \A x \in recs[d] : rec[x].device # d
    /\ ~(Recognized(d) /\ wild[d] \in objs[d])

\* baseline_saves and the first step of a launch, for this game: the folder
\* is captured, and recorded unless it is recognized.  A declaration that
\* cannot be read defers it.
Baseline(d) ==
    /\ Idle(d)
    /\ Unrecorded(d)
    /\ IF Recognized(d)
       THEN UNCHANGED <<rec, recs, wild>>
       ELSE /\ WriteRecord(d, Snapshot(d, {}, wild[d], NextId))
            /\ wild' = [wild EXCEPT ![d] = 0]
    /\ objs' = [objs EXCEPT ![d] = @ \cup {wild[d]}]
    /\ UNCHANGED <<conf, session, sync, mark>>

\* launch_base falls back to the newest complete records of this device.
LocalNewest(d) ==
    LET A == AncestorsIn(recs[d])
        local == {x \in recs[d] : rec[x].device = d /\ Complete(d, x)}
    IN  {x \in local : \A y \in local \ {x} : x \notin A[y]}

CompleteHeads(d) == {x \in Heads(d) : Complete(d, x)}

\* launch_base, no snapshot being 0; the code takes the first complete head.
Bases(d) ==
    IF Split(recs[d]) THEN {}
    ELSE IF CompleteHeads(d) # {} THEN CompleteHeads(d)
    ELSE CASE LocalNewest(d) = {} -> {0}
           [] Cardinality(LocalNewest(d)) = 1 -> LocalNewest(d)
           [] OTHER -> {}

\* The end of prepare_inner: the base is materialized over the folder.
Run(d, b) ==
    /\ session' = [session EXCEPT ![d].at = "running", ![d].base = b]
    /\ wild' = IF b = 0 THEN wild ELSE [wild EXCEPT ![d] = 0]

\* prepare_inner: reconcile, launch_base, materialize.  A launch that finds
\* a split or no single base is refused and changes nothing.  An import
\* between reconcile and launch_base leaves heads that are not joined.
Launch(d) ==
    /\ Idle(d)
    /\ ~Unrecorded(d)
    /\ \/ /\ CanJoin(d)
          /\ WriteRecord(d, JoinOf(Heads(d)))
          /\ Run(d, IdOf(JoinOf(Heads(d))))
       \/ /\ \E b \in Bases(d) : Run(d, b)
          /\ UNCHANGED <<rec, recs>>
    /\ UNCHANGED <<objs, conf, sync, mark>>

\* The launch fails before the game ran: discard_active, without a snapshot.
Discard(d) ==
    /\ session[d].at = "running"
    /\ session' = [session EXCEPT ![d] = NoSession]
    /\ UNCHANGED <<store, wild, sync, mark>>

\* The game wrote c and exited; capture stores the objects and the journal
\* keeps the record that is not published yet.
Capture(d, c) ==
    /\ session[d].at = "running"
    /\ LET r == Snapshot(d, Parent(session[d].base), c, NextId)
       IN  /\ CanMake(r)
           /\ rec' = Made(r)
           /\ session' = [session EXCEPT ![d] = [at |-> "captured", base |-> 0, made |-> NextId]]
    /\ wild' = [wild EXCEPT ![d] = 0]
    /\ objs' = [objs EXCEPT ![d] = @ \cup {c}]
    /\ UNCHANGED <<recs, conf, sync, mark>>

\* put_record of the journaled record; its peers are told afterwards.
Publish(d) ==
    /\ session[d].at = "captured"
    /\ recs' = [recs EXCEPT ![d] = @ \cup {session[d].made}]
    /\ session' = [session EXCEPT ![d] = NoSession]
    /\ UNCHANGED <<rec, objs, conf, wild, sync, mark>>

\* pick: the chosen content on top of every head.
Pick(d, x) ==
    /\ Idle(d)
    /\ x \in recs[d]
    /\ Complete(d, x)
    /\ WriteRecord(d, Snapshot(d, Heads(d), rec[x].content, NextId))
    /\ UNCHANGED <<objs, conf, wild, session, sync, mark>>

Choose(d, x) == Cardinality(Heads(d)) > 1 /\ x \in Heads(d) /\ Pick(d, x)

Restore(d, x) == Pick(d, x)

------------------------------------------------------------------------------
(* Retention.                                                              *)

\* The records of S at most n steps above a head.
Within(S) ==
    LET W[n \in 0..MaxRecords] ==
            IF n = 0 THEN head_ids(S)
            ELSE W[n - 1] \cup (Parents(W[n - 1] \cap S) \cap S)
    IN  W

\* The sides of a merge that were not picked.
Unpicked(S) ==
    UNION {{p \in rec[m].parents \cap S : rec[p].content # rec[m].content} :
              m \in {m \in S : Cardinality(rec[m].parents) > 1}}

\* The nearest `Keep' records; ids, which are hashes, break ties.
Nearest(S) ==
    LET W == Within(S)
    IN  {K \in kSubset(Keep, S) :
            \A x \in K, y \in S \ K, n \in 0..MaxRecords : y \in W[n] => x \in W[n]}

ConfirmedElsewhere(d, x) == \E p \in Devices \ {d} : <<x, p>> \in conf[d]

\* Mutant of Protected: retention drops the sides that were not picked.
X_ForgetSides(d, K) == Heads(d) \cup K

\* Mutant of Protected: a head beyond the nearest records is dropped.
X_ForgetHeads(d, K) == K \cup Unpicked(recs[d])

Protected(d, K) == Heads(d) \cup K \cup Unpicked(recs[d])

Prunable(d, K) == {x \in recs[d] \ Protected(d, K) : ConfirmedElsewhere(d, x)}

\* prune: payloads of prunable records that no retained record refers to.
DropPayloads(d) ==
    /\ Cardinality(recs[d]) > Keep
    /\ \E K \in Nearest(recs[d]) :
          LET kept == {rec[x].content : x \in recs[d] \ Prunable(d, K)}
          IN  objs' = [objs EXCEPT ![d] =
                 @ \ ({rec[x].content : x \in Prunable(d, K)} \ kept)]
    /\ UNCHANGED <<rec, recs, conf, wild, session, sync, mark>>

\* prune_saves, which the code asks for after a snapshot until it ran.
Prune(d) == Idle(d) /\ DropPayloads(d)

------------------------------------------------------------------------------
(* Peer synchronization.  A device runs one at a time.                     *)

NoSync == [phase |-> "none"]

NoMark == [remote |-> {}, local |-> {}]

\* The peer answered SaveHeads.  contact_unchanged ends a contact here that
\* matches the remembered one, unless CONTACT_MEMORY_TTL has passed.
Begin(d, p, why) ==
    /\ Cardinality({e \in Devices : sync[e] # NoSync}) < MaxSyncs
    /\ sync[d] = NoSync
    /\ p # d
    /\ sync' = [sync EXCEPT ![d] =
          [phase |-> "walk", peer |-> p, why |-> why,
           adv |-> Heads(p),                            \* advertised
           ask |-> Heads(p),                            \* heads not asked for yet
           had |-> {x \in Ids : <<x, p>> \in conf[d]},  \* confirmed
           sure |-> {},                                 \* remote_complete
           push |-> {}]]                                \* records left to push
    /\ UNCHANGED <<store, wild, session, mark>>

End(d) == sync' = [sync EXCEPT ![d] = NoSync]

\* The ancestry of the advertised heads as d knows it.
Visited(d) ==
    LET A == AncestorsIn(recs[d])
    IN  sync[d].adv \cup UNION {A[x] : x \in sync[d].adv}

\* Mutant of Wanted: the walk looks no further than the heads' parents.
X_OneGeneration(d) == sync[d].ask \cup (Parents(sync[d].adv) \ recs[d])

Wanted(d) == sync[d].ask \cup (Visited(d) \ recs[d])

\* Mutant of Confirms: holding the record counts as holding its payload.
X_ConfirmRecord(held, x) == TRUE

\* The `records' handler confirms a record whose objects are held.
Confirms(held, x) == rec[x].content \in held

\* One SaveRecords call of the walk: the record is imported before its
\* parents are asked for.  A peer that lacks it breaks the protocol.
Import(d, x) ==
    /\ sync[d].phase = "walk"
    /\ x \in Wanted(d)
    /\ LET p == sync[d].peer
       IN  IF x \in recs[p]
           THEN /\ recs' = [recs EXCEPT ![d] = @ \cup {x}]
                /\ sync' = [sync EXCEPT
                      ![d].ask = @ \ {x},
                      ![d].sure = IF Confirms(objs[p], x) THEN @ \cup {x} ELSE @]
           ELSE End(d) /\ UNCHANGED recs
    /\ UNCHANGED <<rec, objs, conf, wild, session, mark>>

\* fetch_record_payload of an advertised head, after the whole ancestry.
Fetch(d, x) ==
    /\ sync[d].phase = "walk"
    /\ Wanted(d) = {}
    /\ x \in sync[d].adv
    /\ ~Complete(d, x)
    /\ IF Complete(sync[d].peer, x)
       THEN objs' = [objs EXCEPT ![d] = @ \cup {rec[x].content}] /\ UNCHANGED sync
       ELSE End(d) /\ UNCHANGED objs
    /\ UNCHANGED <<rec, recs, conf, wild, session, mark>>

\* held_record: what a record the peer holds already still needs.
Pushed(d, x) ==
    LET s == sync[d]
        offered == x \in s.adv /\ x \notin s.sure
        unconfirmed == x \in s.adv /\ x \notin s.had
    IN  \/ x \notin Visited(d)
        \/ s.why = "CheckLaunch" /\ (offered \/ unconfirmed)
        \/ s.why # "CheckLaunch" /\ (offered \/ (x \in Heads(d) /\ x \notin s.had))

\* Receipts that are only asked for by id.
Readable(d, x) ==
    /\ sync[d].why # "CheckLaunch"
    /\ x \notin sync[d].had \cup sync[d].sure
    /\ x \in recs[sync[d].peer]
    /\ Confirms(objs[sync[d].peer], x)

\* The receipts of the walk are confirmed, and the records that are pushed
\* or only asked for are planned; asking changes nothing else.
Plan(d) ==
    /\ sync[d].phase = "walk"
    /\ Wanted(d) = {}
    /\ \A x \in sync[d].adv : Complete(d, x)
    /\ LET push == {x \in recs[d] : Pushed(d, x)}
           read == {x \in recs[d] \ push : Readable(d, x)}
       IN  /\ conf' = [conf EXCEPT
                 ![d] = @ \cup ((sync[d].sure \cup read) \X {sync[d].peer})]
           /\ sync' = [sync EXCEPT ![d] =
                 [@ EXCEPT !.phase = "push", !.had = {}, !.sure = {}, !.push = push]]
    /\ UNCHANGED <<rec, recs, objs, wild, session, mark>>

\* The `records' handler of the peer: it imports the record, fetches the
\* payload if the sender advertises the record as a head, asks for the
\* sender's receipt and answers with its own.
Push(d, x) ==
    /\ sync[d].phase = "push"
    /\ x \in sync[d].push
    /\ LET p == sync[d].peer
           fetch == x \in Heads(d) /\ ~Complete(p, x)
           there == IF fetch THEN objs[p] \cup {rec[x].content} ELSE objs[p]
       IN  /\ recs' = [recs EXCEPT ![p] = @ \cup {x}]
           /\ IF fetch /\ ~Complete(d, x)
              THEN End(d) /\ UNCHANGED <<objs, conf>>
              ELSE /\ objs' = [objs EXCEPT ![p] = there]
                   /\ conf' = [e \in Devices |-> conf[e] \cup
                         {r \in {<<x, d>>} : e = p /\ Confirms(objs[d], x)} \cup
                         {r \in {<<x, p>>} : e = d /\ Confirms(there, x)}]
                   /\ sync' = [sync EXCEPT ![d].push = @ \ {x}]
    /\ UNCHANGED <<rec, wild, session, mark>>

\* The same call when it fails after the import, after the payload was fetched,
\* or after the sender's receipt was written: the sender hears of none of them.
PushCut(d, x) ==
    /\ sync[d].phase = "push"
    /\ x \in sync[d].push
    /\ LET p == sync[d].peer
           fetch == x \in Heads(d) /\ ~Complete(p, x)
       IN  /\ recs' = [recs EXCEPT ![p] = @ \cup {x}]
           /\ \/ UNCHANGED <<objs, conf>>
              \/ /\ fetch => Complete(d, x)
                 /\ objs' = [objs EXCEPT ![p] = IF fetch THEN @ \cup {rec[x].content} ELSE @]
                 /\ \/ conf' = conf
                    \/ Confirms(objs[d], x) /\ conf' = [conf EXCEPT ![p] = @ \cup {<<x, d>>}]
    /\ End(d)
    /\ UNCHANGED <<rec, wild, session, mark>>

\* A complete contact remembers the peer's heads of its beginning and this
\* device's heads of its end.
Finish(d) ==
    /\ sync[d].phase = "push"
    /\ sync[d].push = {}
    /\ mark' = IF sync[d].why = "Contact"
               THEN [mark EXCEPT ![d][sync[d].peer] =
                        [remote |-> sync[d].adv, local |-> Heads(d)]]
               ELSE mark
    /\ End(d)
    /\ UNCHANGED <<store, wild, session>>

\* The launch check's deadline, a network failure or a restart.
Cut(d) ==
    /\ sync[d] # NoSync
    /\ End(d)
    /\ UNCHANGED <<store, wild, session, mark>>

\* fetch_snapshot_payload, before a restore and outside its idle guard.
FetchPayload(d, p, x) ==
    /\ x \in recs[d] \cap recs[p]
    /\ ~Complete(d, x)
    /\ Complete(p, x)
    /\ objs' = [objs EXCEPT ![d] = @ \cup {rec[x].content}]
    /\ conf' = [conf EXCEPT ![d] = @ \cup {<<x, p>>}]
    /\ UNCHANGED <<rec, recs, wild, session, sync, mark>>

------------------------------------------------------------------------------
Init ==
    /\ rec = <<>>
    /\ recs = [d \in Devices |-> {}]
    /\ objs = [d \in Devices |-> {}]
    /\ conf = [d \in Devices |-> {}]
    /\ wild \in [Devices -> {0} \cup WildContents]
    /\ session = [d \in Devices |-> NoSession]
    /\ sync = [d \in Devices |-> NoSync]
    /\ mark = [d \in Devices |-> [p \in Devices |-> NoMark]]

Boundary(d) ==
    \/ Baseline(d) \/ Launch(d) \/ Discard(d) \/ Publish(d)
    \/ \E c \in Writable : Capture(d, c)
    \/ \E x \in Ids : Choose(d, x)
    \/ \E x \in Ids : Restore(d, x)

Syncing(d) ==
    \/ \E x \in Ids : Import(d, x) \/ Fetch(d, x) \/ Push(d, x) \/ PushCut(d, x)
    \/ Plan(d) \/ Finish(d) \/ Cut(d)

Next ==
    \E d \in Devices :
        \/ Boundary(d)
        \/ Reconcile(d)
        \/ Prune(d)
        \/ \E p \in Devices, why \in Purposes : Begin(d, p, why)
        \/ Syncing(d)
        \/ \E p \in Devices, x \in Ids : FetchPayload(d, p, x)

Spec == Init /\ [][Next]_vars

------------------------------------------------------------------------------
Record == [parents : SUBSET (1..MaxRecords), device : Devices,
           content : Contents, ended : 1..MaxRecords]

SyncRecord == [phase : {"walk", "push"}, peer : Devices, why : Purposes,
               adv : SUBSET Ids, ask : SUBSET Ids, had : SUBSET Ids,
               sure : SUBSET Ids, push : SUBSET Ids]

\* Histories hold records that were made, and a record names older ones only.
TypeOK ==
    /\ rec \in Seq(Record)
    /\ \A x \in Ids : \A y \in rec[x].parents : y < x
    /\ recs \in [Devices -> SUBSET Ids]
    /\ objs \in [Devices -> SUBSET Contents]
    /\ conf \in [Devices -> SUBSET (Ids \X Devices)]
    /\ wild \in [Devices -> {0} \cup Contents]
    /\ session \in [Devices -> [at : {"none", "running", "captured"},
                                base : {0} \cup Ids, made : {0} \cup Ids]]
    /\ sync \in [Devices -> {NoSync} \cup SyncRecord]
    /\ mark \in [Devices -> [Devices -> [remote : SUBSET Ids, local : SUBSET Ids]]]

\* Somebody went on from x: a session that started from it, or a merge that
\* has its content.
Continued(d, x) ==
    \E m \in recs[d] :
        /\ x \in rec[m].parents
        /\ Cardinality(rec[m].parents) > 1 => rec[x].content = rec[m].content

\* d has the record, and its payload unless retention dropped it, which takes
\* another device's receipt and never concerns a head or an open side.
Answers(d, x) ==
    /\ x \in recs[d]
    /\ Complete(d, x) \/ (Continued(d, x) /\ ConfirmedElsewhere(d, x))

\* Every record of a history has a device that answers for it: its payload is
\* gone from everywhere only after somebody went on from it, whatever retention
\* did on the other devices.  Prune trusts receipts that are never taken back.
SidesSurvive ==
    \A d \in Devices : \A x \in recs[d] : \E e \in Devices : Answers(e, x)

\* A receipt in confirmations.json stays true: the device that gave it answers
\* for the record.
ReceiptIsTrue ==
    \A d, p \in Devices : \A x \in Ids : <<x, p>> \in conf[d] => Answers(p, x)

\* A device holds what it made until another device confirmed it, although
\* objects are shared between records and retention removes objects.
UnconfirmedIsKept ==
    \A d \in Devices : \A x \in recs[d] :
        rec[x].device = d /\ rec[x].ended = x /\ ~ConfirmedElsewhere(d, x) => Complete(d, x)

\* The bytes of a captured snapshot are there until its record is published:
\* prune cannot see the record that refers to them yet.
CapturedIsWhole ==
    \A d \in Devices : session[d].at = "captured" => Complete(d, session[d].made)

\* Retention never takes the last payload of what nobody went on from: a snapshot
\* a device knows has its payload, or one that went on from it, on some device
\* (SidesSurvive), and the device's own unconfirmed work and what it is just capturing are on the
\* device itself.
PayloadsSurvive == SidesSurvive /\ UnconfirmedIsKept /\ CapturedIsWhole

\* y is the snapshot x or came after it.
Succeeds(y, x) == y = x \/ x \in Ancestors[y]

\* A history can always be continued: of every snapshot a device knows, itself or
\* one that came after it still has its payload on some device.
ProgressSurvives ==
    \A d \in Devices : \A x \in recs[d] :
        \E e \in Devices : \E y \in recs[e] : Complete(e, y) /\ Succeeds(y, x)

\* When synchronize starts to push, the ancestry of every head the peer
\* advertised is here to the last record, whatever a contact that was cut
\* short had left out.
WalkIsWhole ==
    \A d \in Devices : sync[d].phase = "push" =>
        \A x \in sync[d].adv : {x} \cup Ancestors[x] \subseteq recs[d]

\* confirmed_elsewhere, one of the two ways in which the portal shows a game as
\* Synced: save_check also does when its synchronization with a peer just ended
\* without a failure (host/saves.rs:651).
Synced(d) ==
    /\ Heads(d) # {}
    /\ \A x \in Heads(d) : Complete(d, x) /\ ConfirmedElsewhere(d, x)

\* A game shown as Synced can be continued elsewhere: another device holds the
\* payload of each head or of a snapshot that came after it.
SyncedIsSafe ==
    \A d \in Devices : Synced(d) => \A x \in Heads(d) :
        \E p \in Devices \ {d} : \E y \in recs[p] : Complete(p, y) /\ Succeeds(y, x)

\* Receipts hold: what they say of a device, and what Synced promises the person.
ReceiptsHold == ReceiptIsTrue /\ SyncedIsSafe

\* Refuted, see the README.
\* Saves refuse a launch only for a split: launch_base never ends with several
\* local snapshots when the heads agree.
LaunchFindsBase == \A d \in Devices : ~Split(recs[d]) => Bases(d) # {}

\* Refuted, see the README.
\* A head or a side of a split that was not picked has its payload on some
\* device, however far the other devices have gone on.
HeadsSurvive ==
    \A d \in Devices : \A x \in Heads(d) \cup Unpicked(recs[d]) :
        \E e \in Devices : Complete(e, x)

\* Refuted, see the README.
\* A split is two snapshots of which neither came from the other, never a
\* matter of which records arrived first.
SplitIsReal ==
    \A d \in Devices : Split(recs[d]) /\ (\A e \in Devices : sync[e] = NoSync) =>
        \E x, y \in Heads(d) : x # y /\ x \notin Ancestors[y] /\ y \notin Ancestors[x]

\* Refuted, see the README.
\* A contact that stops because the heads on both sides match the remembered
\* contact had nothing left to move.
ContactMemoryIsTrue ==
    \A d, p \in Devices :
        /\ mark[d][p] # NoMark
        /\ mark[d][p] = [remote |-> Heads(p), local |-> Heads(d)]
        => recs[d] = recs[p]

\* Refuted by save_first_files.  Files from before the first sync are in the
\* history before a launch puts a snapshot in their place (saves/mod.rs:74).
FirstFilesEnter ==
    [][\A d \in Devices : Idle(d) /\ wild[d] # 0 /\ wild'[d] = 0 =>
          \E x \in recs'[d] : rec'[x].content = wild[d]]_vars

=============================================================================
