-------------------------- MODULE SaveHistoryProofs --------------------------
(***************************************************************************)
(* SaveHistory keeps its payloads, its receipts and its ancestries for any *)
(* number of devices, records, contents and synchronizations under way.    *)
(*                                                                         *)
(* A step only adds records, receipts and objects, except for a prune,     *)
(* which removes objects.  What survives both is that a device answers for *)
(* a record (Answers): it has the payload, or somebody went on from the    *)
(* record and another device confirmed it.  SidesSurvive and ReceiptIsTrue *)
(* are made of it, and the inductive invariant adds where a record that is *)
(* not answered for yet can be: in the journal of the device that captured *)
(* it (CapturedIsOwn), or in a synchronization under way (SyncAgrees).     *)
(*                                                                         *)
(* ProgressSurvives and SyncedIsSafe follow without another induction over *)
(* steps: the newest successor of a snapshot has none of its own, so the   *)
(* device that answers for it has its payload.                             *)
(***************************************************************************)
EXTENDS SaveHistory, FiniteSetTheorems, WellFoundedInduction, TLAPS

------------------------------------------------------------------------------
(* The inductive invariant.                                                *)

\* Records are numbered within the bound, and none is stamped by a later one.
Stamped == Len(rec) <= MaxRecords /\ \A x \in Ids : rec[x].ended <= x

\* Whoever has a record that is no join, the device that made it has it too.
OwnAreHome ==
    \A d \in Devices : \A x \in recs[d] :
        rec[x].ended = x => x \in recs[rec[x].device]

\* The record in the journal of a session is one this device made, and whole.
JournalHolds(d) ==
    session[d].at = "captured" =>
        /\ session[d].made \in Ids
        /\ rec[session[d].made].device = d
        /\ Complete(d, session[d].made)

\* A peer answers for what it was seen to hold; what is pushed is here, and so
\* is, once something is pushed, the ancestry of the advertised heads.
SyncHolds(d) ==
    /\ sync[d].phase # "none" =>
          /\ \A x \in sync[d].sure : Answers(sync[d].peer, x)
          /\ sync[d].push \subseteq recs[d]
    /\ sync[d].phase = "push" =>
          \A x \in sync[d].adv : {x} \cup Ancestors[x] \subseteq recs[d]

History == SidesSurvive /\ ReceiptIsTrue /\ UnconfirmedIsKept /\ OwnAreHome

IInv ==
    /\ TypeOK /\ Stamped /\ History
    /\ \A d \in Devices : JournalHolds(d) /\ SyncHolds(d)

------------------------------------------------------------------------------
(* Numbers and ancestors.                                                  *)

\* A set of naturals that is not empty has a least member.
LEMMA Least == ASSUME NEW T \in SUBSET Nat, T # {}
               PROVE  \E n \in T : \A m \in T : n <= m
<1>1. \E n \in T : \A m \in T : ~(<<m, n>> \in OpToRel(<, Nat))
  BY NatLessThanWellFounded, WFMin, Zenon
<1>2. PICK n \in T : \A m \in T : ~(<<m, n>> \in OpToRel(<, Nat))
  BY <1>1, Zenon
<1>3. ASSUME NEW m \in T PROVE n <= m
  <2>1. m \in Nat /\ n \in Nat /\ ~(<<m, n>> \in OpToRel(<, Nat))
    BY <1>2, Zenon
  <2>2. m < n => <<m, n>> \in OpToRel(<, Nat)
    BY <2>1, SMT DEF OpToRel
  <2>3. ~(m < n)
    BY <2>1, <2>2, Zenon
  <2> QED
    <3>1. m \in Nat /\ n \in Nat BY <2>1
    <3> QED BY <3>1, <2>3
<1> QED BY <1>3

\* A set of record numbers that is not empty has a greatest member.
LEMMA Greatest == ASSUME NEW n \in Nat, NEW T \in SUBSET (1..n), T # {}
                  PROVE  \E k \in T : \A m \in T : m <= k
<1> DEFINE U == {n - k : k \in T}
<1>1. U \in SUBSET Nat /\ U # {}
  OBVIOUS
<1> HIDE DEF U
<1>2. PICK u \in U : \A v \in U : u <= v
  BY <1>1, Least
<1>3. PICK k \in T : u = n - k
  BY <1>2 DEF U
<1>4. ASSUME NEW m \in T PROVE m <= k
  <2>1. n - m \in U
    BY DEF U
  <2> QED BY <2>1, <1>2, <1>3
<1> QED BY <1>4

\* The lowest of several heads is one of them.
LEMMA MinIn == ASSUME NEW H \in SUBSET Nat, H # {}
               PROVE  Min(H) \in H
<1>1. \E x \in H : \A y \in H : x =< y
  BY Least
<1> QED BY <1>1 DEF Min

\* What the types of rec and recs say of one record.
LEMMA RecordIs ==
    ASSUME TypeOK, NEW x \in Ids
    PROVE  /\ rec[x] \in Record /\ rec[x].parents \in SUBSET Ids
           /\ \A y \in rec[x].parents : y \in Ids /\ y < x
<1>1. Len(rec) \in Nat /\ rec[x] \in Record /\ x \in 1..Len(rec)
  BY DEF TypeOK, Ids
<1>2. rec[x].parents \in SUBSET (1..MaxRecords) /\ x \in Nat
  BY <1>1 DEF Record
<1>3. ASSUME NEW y \in rec[x].parents PROVE y \in Ids /\ y < x
  <2>1. y < x /\ y \in 1..MaxRecords
    BY <1>2 DEF TypeOK
  <2> QED BY <2>1, <1>1, SaveHistoryAssumption DEF Ids
<1> QED BY <1>1, <1>3

\* A child's ancestors include its parents and theirs.
LEMMA AncestorsClosed ==
    ASSUME TypeOK, NEW x \in Ids, NEW y \in Ids, x \in rec[y].parents
    PROVE  /\ x \in Ancestors[y]
           /\ \A a \in Ancestors[x] : a \in Ancestors[y]
<1>1. x \in Ancestors[y]
  BY DEF Ancestors, AncestorsIn
<1>2. ASSUME NEW a \in Ancestors[x] PROVE a \in Ancestors[y]
  <2>1. a \in Ids
    BY DEF Ancestors, AncestorsIn
  <2>2. ASSUME NEW T \in SUBSET Ids, rec[y].parents \subseteq T, Closed(Ids, T) PROVE a \in T
    <3>1. rec[x].parents \subseteq T
      BY <2>2 DEF Closed
    <3> QED BY <3>1, <2>2 DEF Ancestors, AncestorsIn
  <2> QED BY <2>1, <2>2 DEF Ancestors, AncestorsIn
<1> QED BY <1>1, <1>2

\* Ancestors are older.
LEMMA AncestorsOlder ==
    ASSUME TypeOK, NEW x \in Ids, NEW a \in Ancestors[x]
    PROVE  a \in Ids /\ a < x
<1> DEFINE T == {y \in Ids : y < x}
<1>1. rec[x].parents \subseteq T
  BY RecordIs
<1>2. Closed(Ids, T)
  <2> SUFFICES ASSUME NEW y \in Ids, y < x, NEW z \in rec[y].parents PROVE z \in Ids /\ z < x
    BY DEF Closed
  <2>1. z \in Ids /\ z < y
    BY RecordIs
  <2>2. x \in Int /\ y \in Int /\ z \in Int
    BY <2>1 DEF Ids, TypeOK
  <2> QED BY <2>1, <2>2
<1>3. T \in SUBSET Ids
  OBVIOUS
<1>4. a \in T
  <2> HIDE DEF T
  <2> QED BY <1>1, <1>2, <1>3 DEF Ancestors, AncestorsIn
<1> QED BY <1>4

\* A walk through S that found nothing outside S found every ancestor.
LEMMA WalkFindsAll ==
    ASSUME TypeOK, NEW S \in SUBSET Ids, NEW x \in S, AncestorsIn(S)[x] \subseteq S
    PROVE  Ancestors[x] \subseteq S
<1> DEFINE T == AncestorsIn(S)[x]
<1>1. T \in SUBSET Ids /\ rec[x].parents \subseteq T /\ T \subseteq S
  <2>1. rec[x].parents \in SUBSET Ids
    BY RecordIs
  <2> QED BY <2>1 DEF AncestorsIn
<1>2. Closed(Ids, T)
  <2> SUFFICES ASSUME NEW y \in T, NEW z \in rec[y].parents PROVE z \in T
    BY DEF Closed
  <2>1. y \in S /\ y \in Ids /\ z \in Ids
    BY <1>1, RecordIs
  <2>2. ASSUME NEW V \in SUBSET Ids, rec[x].parents \subseteq V, Closed(S, V) PROVE z \in V
    <3>1. y \in V
      BY <2>2 DEF AncestorsIn
    <3> QED BY <3>1, <2>1, <2>2 DEF Closed
  <2> QED BY <2>1, <2>2 DEF AncestorsIn
<1>3. \A a \in Ancestors[x] : a \in T
  BY <1>1, <1>2 DEF Ancestors, AncestorsIn
<1> QED BY <1>1, <1>3

\* Nothing that was recorded changes; records are added at the end.
Extends ==
    /\ Len(rec) <= Len(rec')
    /\ \A x \in Ids : x \in Ids' /\ rec'[x] = rec[x]

\* A new record gives an old one no ancestors.
LEMMA AncestorsStay ==
    ASSUME TypeOK, Extends, NEW x \in Ids
    PROVE  Ancestors'[x] \subseteq Ancestors[x]
<1>0. PICK T : T = Ancestors[x]
  OBVIOUS
<1>1. x \in Ids' /\ rec'[x] = rec[x] /\ T \in SUBSET Ids
  BY <1>0 DEF Extends, Ancestors, AncestorsIn
<1>2. T \in SUBSET Ids' /\ rec[x].parents \subseteq T
  <2>1. rec[x].parents \in SUBSET Ids
    BY RecordIs
  <2>2. rec[x].parents \subseteq T
    BY <1>0, <2>1 DEF Ancestors, AncestorsIn
  <2> QED BY <1>1, <2>2 DEF Extends
<1>3. Closed(Ids, T)'
  <2> SUFFICES ASSUME NEW y \in T, NEW z \in rec'[y].parents PROVE z \in T
    BY DEF Closed
  <2>1. y \in Ids /\ rec'[y] = rec[y] /\ z \in rec[y].parents /\ z \in Ids
    BY <1>1, RecordIs DEF Extends
  <2>2. ASSUME NEW V \in SUBSET Ids, rec[x].parents \subseteq V, Closed(Ids, V) PROVE z \in V
    <3>1. y \in V
      BY <1>0, <2>2 DEF Ancestors, AncestorsIn
    <3> QED BY <3>1, <2>1, <2>2 DEF Closed
  <2> QED BY <1>0, <2>1, <2>2 DEF Ancestors, AncestorsIn
<1>4. \A a \in Ancestors'[x] : a \in T
  BY <1>1, <1>2, <1>3 DEF Ancestors, AncestorsIn
<1> QED BY <1>0, <1>4

------------------------------------------------------------------------------
(* What a step that only adds keeps.                                       *)

\* Records, objects and receipts are added, none is taken away.
Grows ==
    /\ Extends
    /\ \A e \in Devices : /\ recs[e] \subseteq recs'[e]
                          /\ objs[e] \subseteq objs'[e]
                          /\ conf[e] \subseteq conf'[e]

\* A record that is new to a device is known to another one, or was made here
\* and is complete.
NewRecords ==
    \A e \in Devices : \A x \in recs'[e] \ recs[e] :
        \/ \E f \in Devices : x \in recs[f]
        \/ Complete(e, x)' /\ (rec'[x].ended = x => rec'[x].device = e)

\* A new receipt is given by a device that answers for the record.
NewReceipts ==
    \A e, p \in Devices : \A x \in Ids' :
        <<x, p>> \in conf'[e] \ conf[e] => Answers(p, x)'

\* A record a device has was made, and keeps its content.
LEMMA HeldIs ==
    ASSUME TypeOK, NEW d \in Devices, NEW x \in recs[d]
    PROVE  x \in Ids
BY DEF TypeOK

\* Whoever answers for a record goes on answering for it.
LEMMA AnswersGrow ==
    ASSUME TypeOK, Grows, NEW e \in Devices, NEW x, Answers(e, x)
    PROVE  Answers(e, x)'
<1>1. x \in recs[e] /\ x \in Ids /\ x \in recs'[e] /\ rec'[x] = rec[x]
  BY HeldIs DEF Answers, Grows, Extends
<1>2. CASE Complete(e, x)
  BY <1>1, <1>2 DEF Answers, Complete, Grows
<1>3. CASE Continued(e, x) /\ ConfirmedElsewhere(e, x)
  <2>1. PICK m \in recs[e] : /\ x \in rec[m].parents
                             /\ Cardinality(rec[m].parents) > 1 => rec[x].content = rec[m].content
    BY <1>3 DEF Continued
  <2>2. m \in Ids /\ rec'[m] = rec[m] /\ m \in recs'[e]
    BY <2>1, HeldIs DEF Grows, Extends
  <2>3. Continued(e, x)'
    BY <1>1, <2>1, <2>2 DEF Continued
  <2>4. ConfirmedElsewhere(e, x)'
    BY <1>3 DEF ConfirmedElsewhere, Grows
  <2> QED BY <1>1, <2>3, <2>4 DEF Answers
<1> QED BY <1>2, <1>3 DEF Answers

\* A step that only adds keeps the history.
LEMMA HistoryGrows ==
    ASSUME TypeOK, TypeOK', History, Grows, NewRecords, NewReceipts
    PROVE  History'
<1>1. SidesSurvive'
  <2> SUFFICES ASSUME NEW d \in Devices, NEW x \in recs'[d]
               PROVE  \E e \in Devices : Answers(e, x)'
    BY DEF SidesSurvive
  <2>1. CASE \E f \in Devices : x \in recs[f]
    <3>1. PICK e \in Devices : Answers(e, x)
      BY <2>1 DEF History, SidesSurvive
    <3> QED BY <3>1, AnswersGrow
  <2>2. CASE Complete(d, x)'
    BY <2>2 DEF Answers
  <2> QED BY <2>1, <2>2 DEF NewRecords
<1>2. ReceiptIsTrue'
  <2> SUFFICES ASSUME NEW d \in Devices, NEW p \in Devices, NEW x \in Ids', <<x, p>> \in conf'[d]
               PROVE  Answers(p, x)'
    BY DEF ReceiptIsTrue
  <2>1. CASE <<x, p>> \in conf[d]
    <3>1. x \in Ids
      BY <2>1 DEF TypeOK
    <3>2. Answers(p, x)
      BY <2>1, <3>1 DEF History, ReceiptIsTrue
    <3> QED BY <3>2, AnswersGrow
  <2> QED BY <2>1 DEF NewReceipts
<1>3. UnconfirmedIsKept'
  <2> SUFFICES ASSUME NEW d \in Devices, NEW x \in recs'[d],
                      rec'[x].device = d, rec'[x].ended = x, ~ConfirmedElsewhere(d, x)'
               PROVE  Complete(d, x)'
    BY DEF UnconfirmedIsKept
  <2>1. CASE \E f \in Devices : x \in recs[f]
    <3>1. PICK f \in Devices : x \in recs[f]
      BY <2>1
    <3>2. x \in Ids /\ rec'[x] = rec[x]
      BY <3>1, HeldIs DEF Grows, Extends
    <3>3. x \in recs[d]
      BY <3>1, <3>2 DEF History, OwnAreHome
    <3>4. ~ConfirmedElsewhere(d, x)
      BY DEF ConfirmedElsewhere, Grows
    <3>5. Complete(d, x)
      BY <3>2, <3>3, <3>4 DEF History, UnconfirmedIsKept
    <3> QED BY <3>2, <3>5 DEF Complete, Grows
  <2> QED BY <2>1 DEF NewRecords
<1>4. OwnAreHome'
  <2> SUFFICES ASSUME NEW d \in Devices, NEW x \in recs'[d], rec'[x].ended = x
               PROVE  x \in recs'[rec'[x].device]
    BY DEF OwnAreHome
  <2>1. CASE \E f \in Devices : x \in recs[f]
    <3>1. PICK f \in Devices : x \in recs[f]
      BY <2>1
    <3>2. x \in Ids /\ rec'[x] = rec[x]
      BY <3>1, HeldIs DEF Grows, Extends
    <3>3. x \in recs[rec[x].device] /\ rec[x].device \in Devices
      <4>1. rec[x] \in Record
        BY <3>2, RecordIs
      <4> QED BY <3>1, <3>2, <4>1 DEF History, OwnAreHome, Record
    <3> QED BY <3>2, <3>3 DEF Grows
  <2> QED BY <2>1 DEF NewRecords
<1> QED BY <1>1, <1>2, <1>3, <1>4 DEF History

\* A session that is not touched keeps its journal.
LEMMA JournalGrows ==
    ASSUME TypeOK, Grows, NEW d \in Devices, JournalHolds(d),
           session'[d] = session[d] \/ session'[d].at # "captured"
    PROVE  JournalHolds(d)'
BY DEF JournalHolds, Complete, Grows, Extends

\* A synchronization that does not move keeps what it knows.
LEMMA SyncGrows ==
    ASSUME TypeOK, Extends,
           \A e \in Devices : recs[e] \subseteq recs'[e],
           \A e \in Devices, x \in Ids : Answers(e, x) => Answers(e, x)',
           NEW d \in Devices, SyncHolds(d), sync'[d] = sync[d] \/ sync'[d] = NoSync
    PROVE  SyncHolds(d)'
<1>1. CASE sync'[d] = NoSync
  BY <1>1 DEF NoSync, SyncHolds
<1>2. CASE sync'[d] = sync[d] /\ sync[d] # NoSync
  <2>1. PICK s \in SyncRecord : s = sync[d]
    BY <1>2 DEF TypeOK
  <2>2. s.peer \in Devices /\ s.sure \in SUBSET Ids /\ s.adv \in SUBSET Ids
    BY <2>1 DEF SyncRecord
  <2>3. ASSUME s.phase # "none" 
        PROVE  (\A x \in s.sure : Answers(s.peer, x)') /\ s.push \subseteq recs'[d]
    BY <2>1, <2>2, <2>3 DEF SyncHolds
  <2>4. ASSUME s.phase = "push", NEW x \in s.adv
        PROVE  {x} \cup Ancestors'[x] \subseteq recs'[d]
    <3>1. {x} \cup Ancestors[x] \subseteq recs[d] /\ x \in Ids
      BY <2>1, <2>2, <2>4 DEF SyncHolds
    <3>2. Ancestors'[x] \subseteq Ancestors[x]
      BY <3>1, AncestorsStay
    <3> QED BY <3>1, <3>2
  <2>5. s = sync'[d]
    BY <1>2, <2>1
  <2>6. SyncHolds(d)' <=>
          /\ s.phase # "none" => (\A x \in s.sure : Answers(s.peer, x)') /\ s.push \subseteq recs'[d]
          /\ s.phase = "push" => \A x \in s.adv : {x} \cup Ancestors'[x] \subseteq recs'[d]
    BY <2>5, Zenon DEF SyncHolds
  <2> QED BY <2>6, <2>3, <2>4
<1> QED BY <1>1, <1>2

\* A step that only adds keeps the invariant if it keeps the types and leaves
\* whole what it moves.
LEMMA GrowingStep ==
    ASSUME IInv, TypeOK', Stamped', Grows, NewRecords, NewReceipts,
           \A e \in Devices :
              session'[e] = session[e] \/ session'[e].at # "captured" \/ JournalHolds(e)',
           \A e \in Devices : sync'[e] = sync[e] \/ sync'[e] = NoSync \/ SyncHolds(e)'
    PROVE  IInv'
<1>1. History'
  BY HistoryGrows DEF IInv
<1>2. ASSUME NEW d \in Devices PROVE JournalHolds(d)' /\ SyncHolds(d)'
  <2>1. JournalHolds(d)'
    BY JournalGrows DEF IInv
  <2>2. \A e \in Devices, x \in Ids : Answers(e, x) => Answers(e, x)'
    BY AnswersGrow DEF IInv
  <2>3. SyncHolds(d)'
    BY <2>2, SyncGrows DEF IInv, Grows
  <2> QED BY <2>1, <2>3
<1> QED BY <1>1, <1>2 DEF IInv

\* What is typed stays so when records are added.
LEMMA TypesGrow ==
    ASSUME TypeOK, Extends
    PROVE  /\ \A S \in SUBSET Ids : S \in SUBSET Ids'
           /\ recs \in [Devices -> SUBSET Ids']
           /\ conf \in [Devices -> SUBSET (Ids' \X Devices)]
           /\ session \in [Devices -> [at : {"none", "running", "captured"},
                                       base : {0} \cup Ids', made : {0} \cup Ids']]
           /\ sync \in [Devices -> {NoSync} \cup SyncRecord']
           /\ mark \in [Devices -> [Devices -> [remote : SUBSET Ids', local : SUBSET Ids']]]
<1>1. Ids \subseteq Ids'
  BY DEF Extends
<1>2. recs \in [Devices -> SUBSET Ids']
  BY <1>1 DEF TypeOK
<1>3. conf \in [Devices -> SUBSET (Ids' \X Devices)]
  BY <1>1 DEF TypeOK
<1>4. session \in [Devices -> [at : {"none", "running", "captured"},
                               base : {0} \cup Ids', made : {0} \cup Ids']]
  BY <1>1 DEF TypeOK
<1>5. sync \in [Devices -> {NoSync} \cup SyncRecord']
  <2>1. SyncRecord \subseteq SyncRecord'
    BY <1>1 DEF SyncRecord
  <2> QED BY <2>1 DEF TypeOK
<1>6. mark \in [Devices -> [Devices -> [remote : SUBSET Ids', local : SUBSET Ids']]]
  <2>1. PICK M, N : /\ M = [remote : SUBSET Ids, local : SUBSET Ids]
                    /\ N = [remote : SUBSET Ids', local : SUBSET Ids']
    OBVIOUS
  <2>2. M \subseteq N
    BY <1>1, <2>1
  <2>3. mark \in [Devices -> [Devices -> M]]
    BY <2>1 DEF TypeOK
  <2>4. mark \in [Devices -> [Devices -> N]]
    BY <2>2, <2>3
  <2> QED BY <2>1, <2>4
<1> QED BY <1>1, <1>2, <1>3, <1>4, <1>5, <1>6

\* The records a step may make: older records are their parents.
Makeable == [parents : SUBSET Ids, device : Devices, content : Contents, ended : 1..NextId]

\* What Made leaves: i is the number of r.
Added(r, i) ==
    /\ rec' \in Seq(Record)
    /\ Extends
    /\ Stamped'
    /\ \A x \in Ids' : \A y \in rec'[x].parents : y < x
    /\ i \in Ids' /\ rec'[i] = r
    /\ \A x \in Ids' : x \in Ids \/ x = i
    /\ r.ended = NextId => i = NextId
    /\ i = NextId \/ i \in Ids

\* Making a record adds it at the end, unless it is there already.
LEMMA MadeIs ==
    ASSUME TypeOK, Stamped, NEW r \in Makeable, CanMake(r), rec' = Made(r)
    PROVE  Added(r, IdOf(r))
<1>0. Len(rec) \in Nat /\ rec \in Seq(Record) /\ MaxRecords \in Nat
  BY SaveHistoryAssumption DEF TypeOK
<1>1. CASE \E x \in Ids : rec[x] = r
  <2>1. rec' = rec /\ IdOf(r) \in Ids /\ rec[IdOf(r)] = r
    BY <1>1 DEF Made, IdOf
  <2>2. r.ended # NextId
    <3>1. rec[IdOf(r)].ended <= IdOf(r) /\ IdOf(r) \in 1..Len(rec)
      BY <2>1 DEF Stamped, Ids
    <3>2. r.ended <= IdOf(r) /\ r.ended \in Nat
      BY <2>1, <3>1 DEF Makeable, NextId
    <3> QED BY <1>0, <3>1, <3>2 DEF NextId
  <2>3. Ids' = Ids /\ Extends /\ Stamped'
    BY <2>1, <1>0 DEF Extends, Stamped, Ids
  <2>4. \A x \in Ids' : \A y \in rec'[x].parents : y < x
    BY <2>1, <2>3 DEF TypeOK
  <2> QED BY <1>0, <2>1, <2>2, <2>3, <2>4 DEF Added
<1>2. CASE ~ \E x \in Ids : rec[x] = r
  <2>1. rec' = Append(rec, r) /\ IdOf(r) = NextId /\ NextId <= MaxRecords /\ NextId = Len(rec) + 1
    BY <1>2 DEF Made, IdOf, CanMake, NextId
  <2>2. r \in Record
    <3>1. 1..NextId \subseteq 1..MaxRecords /\ Ids \subseteq 1..MaxRecords
      BY <1>0, <2>1 DEF Ids
    <3> QED BY <3>1 DEF Makeable, Record
  <2>3. /\ rec' \in Seq(Record) /\ Len(rec') = Len(rec) + 1
        /\ \A x \in 1..Len(rec) : rec'[x] = rec[x]
        /\ rec'[Len(rec) + 1] = r
    BY <1>0, <2>1, <2>2
  <2>4. /\ Extends /\ IdOf(r) \in Ids' /\ rec'[IdOf(r)] = r
        /\ \A x \in Ids' : x \in Ids \/ x = IdOf(r)
    BY <1>0, <2>1, <2>3 DEF Extends, Ids
  <2>5. ASSUME NEW x \in Ids'
        PROVE  rec'[x].ended <= x /\ \A y \in rec'[x].parents : y < x
    <3>1. CASE x \in Ids
      BY <3>1, <2>4 DEF Stamped, TypeOK, Extends
    <3>2. CASE x = IdOf(r)
      <4>1. rec'[x] = r /\ x = Len(rec) + 1
        BY <3>2, <2>1, <2>4
      <4>2. r.ended \in 1..(Len(rec) + 1) /\ r.parents \in SUBSET (1..Len(rec))
        BY <2>1 DEF Makeable, Ids
      <4> QED BY <1>0, <4>1, <4>2
    <3> QED BY <3>1, <3>2, <2>4
  <2>6. Stamped'
    BY <2>1, <2>3, <2>5 DEF Stamped
  <2> QED BY <2>1, <2>3, <2>4, <2>5, <2>6 DEF Added
<1> QED BY <1>1, <1>2

------------------------------------------------------------------------------
(* Session boundaries.                                                     *)

\* A step that makes no record.
LEMMA RecordsStay ==
    ASSUME TypeOK, Stamped, rec' = rec
    PROVE  /\ Ids' = Ids /\ Extends /\ Stamped' /\ SyncRecord' = SyncRecord
           /\ rec' \in Seq(Record) /\ \A x \in Ids' : \A y \in rec'[x].parents : y < x
BY DEF TypeOK, Stamped, Extends, Ids, SyncRecord

\* Types of everything but the sequence of records.
StoreTypes ==
    /\ recs \in [Devices -> SUBSET Ids]
    /\ objs \in [Devices -> SUBSET Contents]
    /\ conf \in [Devices -> SUBSET (Ids \X Devices)]
    /\ wild \in [Devices -> {0} \cup Contents]

SessionTypes ==
    session \in [Devices -> [at : {"none", "running", "captured"},
                             base : {0} \cup Ids, made : {0} \cup Ids]]

SyncTypes ==
    /\ sync \in [Devices -> {NoSync} \cup SyncRecord]
    /\ mark \in [Devices -> [Devices -> [remote : SUBSET Ids, local : SUBSET Ids]]]

\* The type invariant by its parts.
LEMMA TypeParts ==
    /\ TypeOK <=> /\ rec \in Seq(Record)
                  /\ \A x \in Ids : \A y \in rec[x].parents : y < x
                  /\ StoreTypes /\ SessionTypes /\ SyncTypes
    /\ TypeOK' <=> /\ rec' \in Seq(Record)
                   /\ \A x \in Ids' : \A y \in rec'[x].parents : y < x
                   /\ StoreTypes' /\ SessionTypes' /\ SyncTypes'
BY DEF TypeOK, StoreTypes, SessionTypes, SyncTypes

\* A record that is written to the history of d, whole.
LEMMA WriteStep ==
    ASSUME IInv, NEW d \in Devices, NEW r \in Makeable, WriteRecord(d, r),
           r.device = d \/ \E y \in r.parents : r.ended <= y,
           r.content \in objs'[d], objs' \in [Devices -> SUBSET Contents],
           \A e \in Devices : objs[e] \subseteq objs'[e],
           wild' \in [Devices -> {0} \cup Contents], SessionTypes',
           \A e \in Devices : session'[e] = session[e] \/ session'[e].at # "captured",
           UNCHANGED <<conf, sync, mark>>
    PROVE  IInv'
<1>0. TypeOK /\ Stamped /\ recs \in [Devices -> SUBSET Ids]
  BY DEF IInv, TypeOK
<1>1. PICK i : i = IdOf(r)
  OBVIOUS
<1>2. Added(r, i) /\ recs' = [recs EXCEPT ![d] = @ \cup {i}]
  BY <1>0, <1>1, MadeIs DEF WriteRecord
<1>3. Extends /\ Stamped' /\ i \in Ids' /\ rec'[i] = r
  BY <1>2 DEF Added
<1>4. /\ recs \in [Devices -> SUBSET Ids'] /\ conf \in [Devices -> SUBSET (Ids' \X Devices)]
      /\ sync \in [Devices -> {NoSync} \cup SyncRecord']
      /\ mark \in [Devices -> [Devices -> [remote : SUBSET Ids', local : SUBSET Ids']]]
  BY <1>0, <1>3, TypesGrow
<1>5. recs' \in [Devices -> SUBSET Ids']
  BY <1>2, <1>3, <1>4
<1>6. StoreTypes' /\ SyncTypes'
  BY <1>4, <1>5 DEF StoreTypes, SyncTypes
<1>7. TypeOK'
  BY <1>2, <1>6, TypeParts DEF Added
<1>8. \A e \in Devices : recs[e] \subseteq recs'[e] /\ recs'[e] \ recs[e] \subseteq {i}
  BY <1>0, <1>2
<1>9. Grows
  BY <1>3, <1>8 DEF Grows
<1>10. NewRecords
  <2> SUFFICES ASSUME NEW e \in Devices, NEW x \in recs'[e] \ recs[e]
               PROVE  Complete(e, x)' /\ (rec'[x].ended = x => rec'[x].device = e)
    BY DEF NewRecords
  <2>1. x = i /\ e = d
    BY <1>0, <1>2
  <2>2. Complete(d, i)'
    BY <1>3 DEF Complete
  <2>3. rec'[i].ended = i => rec'[i].device = d
    <3>1. CASE \E y \in r.parents : r.ended <= y
      <4>1. PICK y \in r.parents : r.ended <= y
        BY <3>1
      <4>2. y < i
        BY <1>2, <1>3 DEF Added
      <4>3. y \in Nat /\ i \in Nat /\ r.ended \in Nat
        BY <1>0, <1>3 DEF Makeable, Ids, NextId, TypeOK
      <4> QED BY <1>3, <4>1, <4>2, <4>3
    <3> QED BY <1>3, <3>1
  <2> QED BY <2>1, <2>2, <2>3
<1>11. NewReceipts
  BY DEF NewReceipts
<1> QED BY <1>3, <1>7, <1>9, <1>10, <1>11, GrowingStep

\* An automatic join is a record that may be made, and its content is here.
LEMMA JoinIs ==
    ASSUME TypeOK, Stamped, NEW d \in Devices, CanJoin(d)
    PROVE  /\ JoinOf(Heads(d)) \in Makeable
           /\ JoinOf(Heads(d)).content \in objs[d]
           /\ \E y \in JoinOf(Heads(d)).parents : JoinOf(Heads(d)).ended <= y
<1>0. Len(rec) \in Nat /\ recs[d] \in SUBSET Ids
  BY DEF TypeOK
<1>1. PICK H : H = Heads(d)
  OBVIOUS
<1>2. H \in SUBSET Ids /\ H \in SUBSET Nat
  BY <1>0, <1>1 DEF Heads, head_ids, Ids
<1>3. H # {}
  <2> SUFFICES ASSUME H = {} PROVE FALSE
    OBVIOUS
  <2>1. Cardinality(H) = 0
    BY FS_EmptySet
  <2> QED BY <1>1, <2>1 DEF CanJoin
<1>4. PICK h \in H : h = Min(H)
  BY <1>2, <1>3, MinIn
<1>5. h \in Ids /\ rec[h] \in Record
  BY <1>2, <1>4, RecordIs
<1>6. JoinOf(H) = [parents |-> H, device |-> rec[h].device, content |-> rec[h].content, ended |-> rec[h].ended]
  BY <1>4, <1>5 DEF JoinOf, Record
<1>7. rec[h].ended <= h /\ rec[h].ended \in Nat \ {0} /\ h \in 1..Len(rec)
  BY <1>5 DEF Stamped, Record, Ids
<1>8. JoinOf(H) \in Makeable
  <2>1. rec[h].ended \in 1..NextId
    BY <1>0, <1>7 DEF NextId
  <2> QED BY <1>2, <1>5, <1>6, <2>1 DEF Makeable, Record
<1>9. rec[h].content \in objs[d]
  BY <1>1, <1>4 DEF CanJoin, Complete
<1> QED BY <1>1, <1>4, <1>6, <1>7, <1>8, <1>9

\* A snapshot of this device is a record that may be made.
LEMMA SnapshotIs ==
    ASSUME TypeOK, NEW d \in Devices, NEW P \in SUBSET Ids, NEW c \in Contents
    PROVE  /\ Snapshot(d, P, c, NextId) \in Makeable
           /\ Snapshot(d, P, c, NextId).device = d
           /\ Snapshot(d, P, c, NextId).content = c
           /\ Snapshot(d, P, c, NextId).ended = NextId
<1>1. NextId \in 1..NextId
  BY DEF NextId, TypeOK
<1> QED BY <1>1 DEF Snapshot, Makeable

\* A join of agreeing heads keeps the invariant.
LEMMA ReconcileStep ==
    ASSUME IInv, NEW d \in Devices, Reconcile(d)
    PROVE  IInv'
<1>0. TypeOK /\ Stamped /\ CanJoin(d) /\ WriteRecord(d, JoinOf(Heads(d)))
      /\ UNCHANGED <<objs, conf, wild, session, sync, mark>>
  BY DEF IInv, Reconcile
<1>1. PICK r \in Makeable : /\ r = JoinOf(Heads(d)) /\ r.content \in objs[d]
                            /\ \E y \in r.parents : r.ended <= y
  BY <1>0, JoinIs
<1>2. Extends
  BY <1>0, <1>1, MadeIs DEF WriteRecord, Added
<1>3. SessionTypes'
  BY <1>0, <1>2, TypesGrow DEF SessionTypes
<1> QED BY <1>0, <1>1, <1>3, WriteStep DEF TypeOK

\* The first files of a device enter the history with their payload.
LEMMA BaselineStep ==
    ASSUME IInv, NEW d \in Devices, Baseline(d)
    PROVE  IInv'
<1>0. TypeOK /\ Stamped /\ UNCHANGED <<conf, session, sync, mark>> /\ wild[d] \in Contents
      /\ objs' = [objs EXCEPT ![d] = @ \cup {wild[d]}] /\ objs \in [Devices -> SUBSET Contents]
  BY DEF IInv, Baseline, Unrecorded, TypeOK
<1>1. /\ objs' \in [Devices -> SUBSET Contents] /\ wild[d] \in objs'[d]
      /\ \A e \in Devices : objs[e] \subseteq objs'[e]
  BY <1>0
<1>2. CASE Recognized(d)
  <2>1. UNCHANGED <<rec, recs, wild>>
    BY <1>2 DEF Baseline
  <2>2. Ids' = Ids /\ Extends /\ Stamped' /\ SyncRecord' = SyncRecord
    BY <1>0, <2>1, RecordsStay
  <2>3. TypeOK'
    BY <1>0, <1>1, <2>1, <2>2 DEF TypeOK
  <2>4. Grows /\ NewRecords /\ NewReceipts
    BY <1>0, <1>1, <2>1, <2>2 DEF Grows, NewRecords, NewReceipts
  <2> QED BY <1>0, <2>2, <2>3, <2>4, GrowingStep
<1>3. CASE ~Recognized(d)
  <2>1. PICK r \in Makeable : /\ r = Snapshot(d, {}, wild[d], NextId)
                              /\ r.device = d /\ r.content = wild[d]
    BY <1>0, SnapshotIs
  <2>2. WriteRecord(d, r) /\ wild' = [wild EXCEPT ![d] = 0]
    BY <1>3, <2>1 DEF Baseline
  <2>3. Extends
    BY <1>0, <2>1, <2>2, MadeIs DEF WriteRecord, Added
  <2>4. SessionTypes' /\ wild' \in [Devices -> {0} \cup Contents]
    <3>1. SessionTypes'
      BY <1>0, <2>3, TypesGrow DEF SessionTypes
    <3>2. wild' \in [Devices -> {0} \cup Contents]
      BY <1>0, <2>2 DEF TypeOK
    <3> QED BY <3>1, <3>2
  <2> QED BY <1>0, <1>1, <2>1, <2>2, <2>4, WriteStep
<1> QED BY <1>2, <1>3

\* A launch starts from a record of this device, or from none.
LEMMA BaseIs ==
    ASSUME TypeOK, NEW d \in Devices, NEW b \in Bases(d)
    PROVE  b \in {0} \cup Ids
<1>1. recs[d] \in SUBSET Ids
  BY DEF TypeOK
<1>2. CompleteHeads(d) \subseteq recs[d] /\ LocalNewest(d) \subseteq recs[d]
  BY DEF CompleteHeads, Heads, head_ids, LocalNewest
<1>3. b \in CompleteHeads(d) \/ b = 0 \/ b \in LocalNewest(d)
  BY DEF Bases
<1> QED BY <1>1, <1>2, <1>3

\* What a launch leaves of the session and of the folder.
LEMMA RunIs ==
    ASSUME TypeOK, Extends, NEW d \in Devices, NEW b \in {0} \cup Ids', Run(d, b)
    PROVE  /\ SessionTypes' /\ wild' \in [Devices -> {0} \cup Contents]
           /\ \A e \in Devices : session'[e] = session[e] \/ session'[e].at # "captured"
<1>1. session \in [Devices -> [at : {"none", "running", "captured"},
                               base : {0} \cup Ids', made : {0} \cup Ids']]
  BY TypesGrow
<1>2. session' = [session EXCEPT ![d] = [session[d] EXCEPT !.at = "running", !.base = b]]
  BY <1>1 DEF Run
<1>3. wild' \in [Devices -> {0} \cup Contents]
  BY DEF Run, TypeOK
<1>4. SessionTypes'
  BY <1>1, <1>2 DEF SessionTypes
<1>5. \A e \in Devices : session'[e] = session[e] \/ session'[e].at # "captured"
  BY <1>1, <1>2
<1> QED BY <1>3, <1>4, <1>5

\* A launch joins agreeing heads or starts from a base; either way it only adds.
LEMMA LaunchStep ==
    ASSUME IInv, NEW d \in Devices, Launch(d)
    PROVE  IInv'
<1>0. TypeOK /\ Stamped /\ UNCHANGED <<objs, conf, sync, mark>>
  BY DEF IInv, Launch
<1>1. CASE /\ CanJoin(d)
           /\ WriteRecord(d, JoinOf(Heads(d)))
           /\ Run(d, IdOf(JoinOf(Heads(d))))
  <2>1. PICK r \in Makeable : /\ r = JoinOf(Heads(d)) /\ r.content \in objs[d]
                              /\ \E y \in r.parents : r.ended <= y
    BY <1>0, <1>1, JoinIs
  <2>2. Added(r, IdOf(r))
    BY <1>0, <1>1, <2>1, MadeIs DEF WriteRecord
  <2>3. PICK b \in Ids' : b = IdOf(r)
    BY <2>2 DEF Added
  <2>4. /\ SessionTypes' /\ wild' \in [Devices -> {0} \cup Contents]
        /\ \A e \in Devices : session'[e] = session[e] \/ session'[e].at # "captured"
    BY <1>0, <1>1, <2>1, <2>2, <2>3, RunIs DEF Added
  <2> QED BY <1>0, <1>1, <2>1, <2>4, WriteStep DEF TypeOK
<1>2. CASE (\E b \in Bases(d) : Run(d, b)) /\ UNCHANGED <<rec, recs>>
  <2>1. PICK b \in Bases(d) : Run(d, b)
    BY <1>2
  <2>2. Ids' = Ids /\ Extends /\ Stamped' /\ SyncRecord' = SyncRecord
    BY <1>0, <1>2, RecordsStay
  <2>3. /\ SessionTypes' /\ wild' \in [Devices -> {0} \cup Contents]
        /\ \A e \in Devices : session'[e] = session[e] \/ session'[e].at # "captured"
    BY <1>0, <2>1, <2>2, BaseIs, RunIs
  <2>4. TypeOK'
    BY <1>0, <1>2, <2>2, <2>3 DEF TypeOK, SessionTypes
  <2>5. Grows /\ NewRecords /\ NewReceipts
    BY <1>0, <1>2, <2>2 DEF Grows, NewRecords, NewReceipts
  <2> QED BY <1>0, <2>2, <2>3, <2>4, <2>5, GrowingStep
<1> QED BY <1>1, <1>2 DEF Launch

\* A launch that failed leaves no trace in the history.
LEMMA DiscardStep ==
    ASSUME IInv, NEW d \in Devices, Discard(d)
    PROVE  IInv'
<1>0. TypeOK /\ Stamped /\ session' = [session EXCEPT ![d] = NoSession]
      /\ UNCHANGED <<rec, recs, objs, conf, wild, sync, mark>>
  BY DEF IInv, Discard, store
<1>1. Ids' = Ids /\ Extends /\ Stamped' /\ SyncRecord' = SyncRecord
  BY <1>0, RecordsStay
<1>2. /\ SessionTypes'
      /\ \A e \in Devices : session'[e] = session[e] \/ session'[e].at # "captured"
  BY <1>0, <1>1 DEF SessionTypes, TypeOK, NoSession
<1>3. TypeOK'
  BY <1>0, <1>1, <1>2 DEF TypeOK, SessionTypes
<1>4. Grows /\ NewRecords /\ NewReceipts
  BY <1>0, <1>1 DEF Grows, NewRecords, NewReceipts
<1> QED BY <1>0, <1>1, <1>2, <1>3, <1>4, GrowingStep

\* A capture makes its record and stores its payload; nobody has the record yet.
LEMMA CaptureStep ==
    ASSUME IInv, NEW d \in Devices, NEW c \in Writable, Capture(d, c)
    PROVE  IInv'
<1>0. TypeOK /\ Stamped /\ UNCHANGED <<recs, conf, sync, mark>>
      /\ c \in Contents /\ wild' = [wild EXCEPT ![d] = 0]
      /\ objs' = [objs EXCEPT ![d] = @ \cup {c}]
      /\ objs \in [Devices -> SUBSET Contents]
  BY DEF IInv, Capture, Writable, TypeOK
<1>1. PICK P \in SUBSET Ids : P = Parent(session[d].base)
  BY <1>0 DEF Parent, TypeOK
<1>2. PICK r \in Makeable : /\ r = Snapshot(d, P, c, NextId)
                            /\ r.device = d /\ r.content = c /\ r.ended = NextId
  BY <1>0, SnapshotIs
<1>3. PICK n : n = NextId
  OBVIOUS
<1>4. /\ CanMake(r) /\ rec' = Made(r)
      /\ session' = [session EXCEPT ![d] = [at |-> "captured", base |-> 0, made |-> n]]
  BY <1>1, <1>2, <1>3 DEF Capture
<1>5. Added(r, n) /\ Extends /\ n \in Ids' /\ rec'[n] = r
  BY <1>0, <1>2, <1>3, <1>4, MadeIs DEF Added
<1>6. SessionTypes'
  <2>1. session \in [Devices -> [at : {"none", "running", "captured"},
                                 base : {0} \cup Ids', made : {0} \cup Ids']]
    BY <1>0, <1>5, TypesGrow
  <2> QED BY <1>4, <1>5, <2>1 DEF SessionTypes
<1>7. StoreTypes' /\ SyncTypes'
  <2>1. objs' \in [Devices -> SUBSET Contents] /\ wild' \in [Devices -> {0} \cup Contents]
    BY <1>0 DEF TypeOK
  <2> QED BY <1>0, <1>5, <2>1, TypesGrow DEF StoreTypes, SyncTypes
<1>8. TypeOK' /\ Stamped'
  BY <1>5, <1>6, <1>7, TypeParts DEF Added
<1>9. Grows /\ NewRecords /\ NewReceipts
  BY <1>0, <1>5 DEF Grows, NewRecords, NewReceipts
<1>10. ASSUME NEW e \in Devices PROVE session'[e] = session[e] \/ JournalHolds(e)'
  <2>1. CASE e = d
    <3>1. c \in objs'[d]
      BY <1>0
    <3>2. session'[d].made = n
      BY <1>0, <1>4 DEF TypeOK
    <3> QED BY <1>2, <1>5, <2>1, <3>1, <3>2 DEF JournalHolds, Complete
  <2>2. CASE e # d
    BY <1>0, <1>4, <2>2 DEF TypeOK
  <2> QED BY <2>1, <2>2
<1> QED BY <1>0, <1>8, <1>9, <1>10, GrowingStep

\* The journaled record enters the history with its payload.
LEMMA PublishStep ==
    ASSUME IInv, NEW d \in Devices, Publish(d)
    PROVE  IInv'
<1>0. /\ TypeOK /\ Stamped /\ session[d].at = "captured"
      /\ session' = [session EXCEPT ![d] = NoSession]
      /\ recs' = [recs EXCEPT ![d] = @ \cup {session[d].made}]
      /\ UNCHANGED <<rec, objs, conf, wild, sync, mark>>
      /\ recs \in [Devices -> SUBSET Ids]
  BY DEF IInv, Publish, TypeOK
<1>1. Ids' = Ids /\ Extends /\ Stamped' /\ SyncRecord' = SyncRecord
  BY <1>0, RecordsStay
<1>2. PICK m \in Ids : m = session[d].made /\ rec[m].device = d /\ Complete(d, m)
  BY <1>0 DEF IInv, JournalHolds
<1>3. recs' = [recs EXCEPT ![d] = @ \cup {m}] /\ recs' \in [Devices -> SUBSET Ids]
  BY <1>0, <1>2
<1>4. /\ SessionTypes'
      /\ \A e \in Devices : session'[e] = session[e] \/ session'[e].at # "captured"
  BY <1>0, <1>1 DEF SessionTypes, TypeOK, NoSession
<1>5. TypeOK'
  BY <1>0, <1>1, <1>3, <1>4 DEF TypeOK, SessionTypes
<1>6. Grows /\ NewReceipts
  BY <1>0, <1>1, <1>3 DEF Grows, NewReceipts
<1>7. NewRecords
  <2> SUFFICES ASSUME NEW e \in Devices, NEW x \in recs'[e] \ recs[e]
               PROVE  Complete(e, x)' /\ rec'[x].device = e
    BY DEF NewRecords
  <2>1. x = m /\ e = d
    BY <1>0, <1>3
  <2> QED BY <1>0, <1>2, <2>1 DEF Complete
<1> QED BY <1>0, <1>1, <1>4, <1>5, <1>6, <1>7, GrowingStep

\* A choice or a restore: a new record with a payload that is here.
LEMMA PickStep ==
    ASSUME IInv, NEW d \in Devices, NEW x \in Ids, Pick(d, x)
    PROVE  IInv'
<1>0. /\ TypeOK /\ Stamped /\ Complete(d, x) /\ x \in recs[d]
      /\ WriteRecord(d, Snapshot(d, Heads(d), rec[x].content, NextId))
      /\ UNCHANGED <<objs, conf, wild, session, sync, mark>>
  BY DEF IInv, Pick
<1>1. rec[x].content \in Contents /\ Heads(d) \in SUBSET Ids
  <2>1. rec[x] \in Record
    BY <1>0, RecordIs
  <2> QED BY <1>0, <2>1 DEF Record, Heads, head_ids, TypeOK
<1>2. PICK r \in Makeable : /\ r = Snapshot(d, Heads(d), rec[x].content, NextId)
                            /\ r.device = d /\ r.content = rec[x].content
  BY <1>0, <1>1, SnapshotIs
<1>3. Extends
  BY <1>0, <1>2, MadeIs DEF WriteRecord, Added
<1>4. SessionTypes'
  BY <1>0, <1>3, TypesGrow DEF SessionTypes
<1>5. r.content \in objs[d]
  BY <1>0, <1>2 DEF Complete
<1> QED BY <1>0, <1>2, <1>4, <1>5, WriteStep DEF TypeOK

------------------------------------------------------------------------------
(* Retention.                                                              *)

\* A payload that a prune drops belongs to records somebody went on from and
\* another device confirmed, although records share their objects.
LEMMA DroppedIs ==
    ASSUME TypeOK, NEW d \in Devices, Prune(d), NEW x \in recs[d],
           Complete(d, x), ~Complete(d, x)'
    PROVE  Continued(d, x) /\ ConfirmedElsewhere(d, x)
<1>0. recs[d] \in SUBSET Ids /\ rec' = rec /\ objs \in [Devices -> SUBSET Contents]
  BY DEF TypeOK, Prune, DropPayloads
<1>1. PICK K \in Nearest(recs[d]) :
         objs' = [objs EXCEPT ![d] = @ \ ({rec[z].content : z \in Prunable(d, K)}
                                           \ {rec[z].content : z \in recs[d] \ Prunable(d, K)})]
  BY DEF Prune, DropPayloads
<1>2. x \in Prunable(d, K)
  <2> SUFFICES ASSUME x \notin Prunable(d, K) PROVE FALSE
    OBVIOUS
  <2>1. rec[x].content \in {rec[z].content : z \in recs[d] \ Prunable(d, K)}
    OBVIOUS
  <2> QED BY <1>0, <1>1, <2>1 DEF Complete
<1>3. x \notin Heads(d) /\ x \notin Unpicked(recs[d]) /\ ConfirmedElsewhere(d, x)
  BY <1>2 DEF Prunable, Protected
<1>4. PICK m \in recs[d] : x \in rec[m].parents
  BY <1>3 DEF Heads, head_ids, Parents
<1>5. Cardinality(rec[m].parents) > 1 => rec[x].content = rec[m].content
  BY <1>3, <1>4 DEF Unpicked
<1> QED BY <1>3, <1>4, <1>5 DEF Continued

\* A prune keeps the invariant: who loses a payload goes on answering for it.
LEMMA PruneStep ==
    ASSUME IInv, NEW d \in Devices, Prune(d)
    PROVE  IInv'
<1>0. /\ TypeOK /\ Stamped /\ History /\ UNCHANGED <<rec, recs, conf, wild, session, sync, mark>>
      /\ Idle(d)
  BY DEF IInv, Prune, DropPayloads
<1>1. Ids' = Ids /\ Extends /\ Stamped' /\ SyncRecord' = SyncRecord
  BY <1>0, RecordsStay
<1>2. /\ objs' \in [Devices -> SUBSET Contents] /\ \A e \in Devices \ {d} : objs'[e] = objs[e]
  <2>1. PICK S : objs' = [objs EXCEPT ![d] = @ \ S]
    BY DEF Prune, DropPayloads
  <2> QED BY <1>0, <2>1 DEF TypeOK
<1>3. TypeOK'
  BY <1>0, <1>1, <1>2 DEF TypeOK
<1>4. ASSUME NEW e \in Devices, NEW x, Answers(e, x) PROVE Answers(e, x)'
  <2>1. Continued(e, x)' <=> Continued(e, x)
    BY <1>0 DEF Continued
  <2>2. ConfirmedElsewhere(e, x)' <=> ConfirmedElsewhere(e, x)
    BY <1>0 DEF ConfirmedElsewhere
  <2>3. x \in recs[e] /\ x \in recs'[e]
    BY <1>0, <1>4 DEF Answers
  <2>4. CASE Complete(e, x) /\ ~Complete(e, x)'
    <3>1. e = d
      BY <1>0, <1>2, <2>4 DEF Complete
    <3>2. Continued(e, x) /\ ConfirmedElsewhere(e, x)
      BY <1>0, <2>3, <2>4, <3>1, DroppedIs
    <3> QED BY <2>1, <2>2, <2>3, <3>2 DEF Answers
  <2> QED BY <1>4, <2>1, <2>2, <2>3, <2>4 DEF Answers
<1>5. History'
  <2>1. SidesSurvive'
    BY <1>0, <1>4 DEF History, SidesSurvive
  <2>2. ReceiptIsTrue'
    BY <1>0, <1>1, <1>4 DEF History, ReceiptIsTrue
  <2>3. UnconfirmedIsKept'
    <3> SUFFICES ASSUME NEW e \in Devices, NEW x \in recs[e], rec[x].device = e,
                        rec[x].ended = x, ~ConfirmedElsewhere(e, x)
                 PROVE  Complete(e, x)'
      BY <1>0 DEF UnconfirmedIsKept, ConfirmedElsewhere
    <3>1. Complete(e, x)
      BY <1>0 DEF History, UnconfirmedIsKept
    <3>2. CASE e = d
      BY <1>0, <3>1, <3>2, DroppedIs
    <3>3. CASE e # d
      BY <1>0, <1>2, <3>1, <3>3 DEF Complete
    <3> QED BY <3>2, <3>3
  <2>4. OwnAreHome'
    BY <1>0 DEF History, OwnAreHome
  <2> QED BY <2>1, <2>2, <2>3, <2>4 DEF History
<1>6. ASSUME NEW e \in Devices PROVE JournalHolds(e)' /\ SyncHolds(e)'
  <2>1. JournalHolds(e)'
    <3>1. CASE e = d
      BY <1>0, <3>1 DEF JournalHolds, Idle, NoSession
    <3>2. CASE e # d
      BY <1>0, <1>1, <1>2, <3>2 DEF IInv, JournalHolds, Complete
    <3> QED BY <3>1, <3>2
  <2>2. SyncHolds(e)'
    BY <1>0, <1>1, <1>4, SyncGrows DEF IInv
  <2> QED BY <2>1, <2>2
<1> QED BY <1>1, <1>3, <1>5, <1>6 DEF IInv

------------------------------------------------------------------------------
(* Synchronization.                                                        *)

\* A synchronization that is under way has its fields.
LEMMA SyncIs ==
    ASSUME TypeOK, NEW d \in Devices, sync[d] # NoSync \/ sync[d].phase \in {"walk", "push"}
    PROVE  /\ sync[d] \in SyncRecord /\ sync[d].peer \in Devices /\ sync[d].why \in Purposes
           /\ sync[d].phase \in {"walk", "push"}
           /\ sync[d].adv \in SUBSET Ids /\ sync[d].ask \in SUBSET Ids
           /\ sync[d].had \in SUBSET Ids /\ sync[d].sure \in SUBSET Ids /\ sync[d].push \in SUBSET Ids
<1>1. sync[d] \in SyncRecord
  BY DEF TypeOK, NoSync
<1> QED BY <1>1 DEF SyncRecord

\* A step that makes no record and moves the synchronization of d only.
LEMMA SyncStep ==
    ASSUME IInv, NEW d \in Devices, UNCHANGED <<rec, wild, session>>,
           recs' \in [Devices -> SUBSET Ids], objs' \in [Devices -> SUBSET Contents],
           conf' \in [Devices -> SUBSET (Ids \X Devices)],
           \A e \in Devices : /\ recs[e] \subseteq recs'[e] /\ objs[e] \subseteq objs'[e]
                              /\ conf[e] \subseteq conf'[e],
           \A e \in Devices : \A x \in recs'[e] : \E f \in Devices : x \in recs[f],
           NewReceipts,
           NEW s \in {NoSync} \cup SyncRecord, sync' = [sync EXCEPT ![d] = s],
           s = NoSync \/ s = sync[d] \/ SyncHolds(d)',
           mark' \in [Devices -> [Devices -> [remote : SUBSET Ids, local : SUBSET Ids]]]
    PROVE  IInv'
<1>0. TypeOK /\ Stamped /\ sync \in [Devices -> {NoSync} \cup SyncRecord]
  BY DEF IInv, TypeOK
<1>1. Ids' = Ids /\ Extends /\ Stamped' /\ SyncRecord' = SyncRecord
  BY <1>0, RecordsStay
<1>2. sync' \in [Devices -> {NoSync} \cup SyncRecord]
  BY <1>0
<1>3. TypeOK'
  BY <1>0, <1>1, <1>2 DEF TypeOK
<1>4. Grows
  BY <1>1 DEF Grows
<1>5. NewRecords
  BY DEF NewRecords
<1>6. \A e \in Devices : sync'[e] = sync[e] \/ sync'[e] = NoSync \/ SyncHolds(e)'
  BY <1>0
<1> QED BY <1>1, <1>3, <1>4, <1>5, <1>6, GrowingStep

\* Types of the store, for the steps that leave parts of it alone.
LEMMA StoreIs ==
    ASSUME TypeOK
    PROVE  /\ recs \in [Devices -> SUBSET Ids] /\ objs \in [Devices -> SUBSET Contents]
           /\ conf \in [Devices -> SUBSET (Ids \X Devices)]
           /\ sync \in [Devices -> {NoSync} \cup SyncRecord]
           /\ mark \in [Devices -> [Devices -> [remote : SUBSET Ids, local : SUBSET Ids]]]
           /\ \A e \in Devices : Heads(e) \in SUBSET Ids
<1>1. recs \in [Devices -> SUBSET Ids]
  BY DEF TypeOK
<1>2. \A e \in Devices : Heads(e) \in SUBSET Ids
  BY <1>1 DEF Heads, head_ids
<1> QED BY <1>1, <1>2 DEF TypeOK

\* A synchronization that ends leaves the store alone.
LEMMA EndStep ==
    ASSUME IInv, NEW d \in Devices, End(d),
           UNCHANGED <<rec, recs, objs, conf, wild, session>>,
           mark' \in [Devices -> [Devices -> [remote : SUBSET Ids, local : SUBSET Ids]]]
    PROVE  IInv'
<1>0. TypeOK
  BY DEF IInv
<1>1. NewReceipts
  BY DEF NewReceipts
<1> QED BY <1>0, <1>1, StoreIs, SyncStep DEF End

\* A synchronization begins without having seen or pushed anything.
LEMMA BeginStep ==
    ASSUME IInv, NEW d \in Devices, NEW p \in Devices, NEW why \in Purposes, Begin(d, p, why)
    PROVE  IInv'
<1>0. TypeOK /\ UNCHANGED <<rec, recs, objs, conf, wild, session, mark>>
  BY DEF IInv, Begin, store
<1>1. PICK H \in SUBSET Ids, C \in SUBSET Ids : H = Heads(p) /\ C = {x \in Ids : <<x, p>> \in conf[d]}
  BY <1>0, StoreIs
<1>2. PICK s : s = [phase |-> "walk", peer |-> p, why |-> why, adv |-> H, ask |-> H, had |-> C,
                    sure |-> {}, push |-> {}]
  OBVIOUS
<1>3. s \in SyncRecord
  BY <1>2 DEF SyncRecord
<1>4. sync' = [sync EXCEPT ![d] = s]
  BY <1>1, <1>2 DEF Begin
<1>5. SyncHolds(d)'
  <2>1. sync'[d] = s
    BY <1>0, <1>4, StoreIs
  <2> QED BY <1>2, <2>1 DEF SyncHolds
<1>6. NewReceipts
  BY <1>0 DEF NewReceipts
<1> QED BY <1>0, <1>3, <1>4, <1>5, <1>6, StoreIs, SyncStep

\* An import brings a record the peer has, and notes whether the peer is whole.
LEMMA ImportStep ==
    ASSUME IInv, NEW d \in Devices, NEW x \in Ids, Import(d, x)
    PROVE  IInv'
<1>0. /\ TypeOK /\ sync[d].phase = "walk"
      /\ UNCHANGED <<rec, objs, conf, wild, session, mark>>
  BY DEF IInv, Import
<1>1. PICK q \in SyncRecord : q = sync[d] /\ q.peer \in Devices /\ q.phase = "walk"
  BY <1>0, SyncIs
<1>2. CASE x \in recs[q.peer]
  <2>1. recs' = [recs EXCEPT ![d] = @ \cup {x}]
    BY <1>1, <1>2 DEF Import
  <2>2. PICK s : s = [q EXCEPT !.ask = @ \ {x},
                               !.sure = IF Confirms(objs[q.peer], x) THEN @ \cup {x} ELSE @]
    OBVIOUS
  <2>3. sync' = [sync EXCEPT ![d] = s]
    BY <1>0, <1>1, <1>2, <2>2, StoreIs DEF Import
  <2>4. /\ s \in SyncRecord /\ s.phase = "walk" /\ s.peer = q.peer /\ s.push = q.push
        /\ \A y \in s.sure : y \in q.sure \/ (y = x /\ Confirms(objs[q.peer], x))
    BY <1>1, <2>2 DEF SyncRecord
  <2>5. /\ recs' \in [Devices -> SUBSET Ids] /\ \A e \in Devices : recs[e] \subseteq recs'[e]
        /\ \A e \in Devices : \A y \in recs'[e] : \E f \in Devices : y \in recs[f]
    BY <1>0, <1>1, <1>2, <2>1, StoreIs
  <2>6. Grows
    BY <1>0, <2>5, RecordsStay DEF Grows, IInv
  <2>7. \A y \in s.sure : Answers(s.peer, y)'
    <3> SUFFICES ASSUME NEW y \in s.sure PROVE Answers(q.peer, y)'
      BY <2>4
    <3>1. Answers(q.peer, y)
      BY <1>1, <1>2, <2>4 DEF IInv, SyncHolds, Answers, Complete, Confirms
    <3> QED BY <1>0, <1>1, <2>6, <3>1, AnswersGrow
  <2>8. s.push \subseteq recs'[d]
    BY <1>1, <2>4, <2>5 DEF IInv, SyncHolds
  <2>9. SyncHolds(d)'
    <3>1. s = sync'[d]
      BY <1>0, <2>3, StoreIs
    <3>2. SyncHolds(d)' <=>
            /\ s.phase # "none" => (\A y \in s.sure : Answers(s.peer, y)') /\ s.push \subseteq recs'[d]
            /\ s.phase = "push" => \A y \in s.adv : {y} \cup Ancestors'[y] \subseteq recs'[d]
      BY <3>1, Zenon DEF SyncHolds
    <3>3. s.phase # "push"
      BY <2>4
    <3> QED BY <3>2, <3>3, <2>7, <2>8
  <2>10. NewReceipts
    BY <1>0 DEF NewReceipts
  <2> QED BY <1>0, <2>3, <2>4, <2>5, <2>9, <2>10, StoreIs, SyncStep
<1>3. CASE x \notin recs[q.peer]
  <2>1. End(d) /\ UNCHANGED recs
    BY <1>1, <1>3 DEF Import
  <2> QED BY <1>0, <2>1, StoreIs, EndStep
<1> QED BY <1>2, <1>3

\* A fetch adds the payload of an advertised head, or ends the contact.
LEMMA FetchStep ==
    ASSUME IInv, NEW d \in Devices, NEW x \in Ids, Fetch(d, x)
    PROVE  IInv'
<1>0. /\ TypeOK /\ sync[d].phase = "walk"
      /\ UNCHANGED <<rec, recs, conf, wild, session, mark>>
  BY DEF IInv, Fetch
<1>1. CASE Complete(sync[d].peer, x)
  <2>1. objs' = [objs EXCEPT ![d] = @ \cup {rec[x].content}] /\ sync' = sync
    BY <1>1 DEF Fetch
  <2>2. rec[x].content \in Contents
    BY <1>0, RecordIs DEF Record
  <2>3. objs' \in [Devices -> SUBSET Contents] /\ \A e \in Devices : objs[e] \subseteq objs'[e]
    BY <1>0, <2>1, <2>2, StoreIs
  <2>4. PICK s \in {NoSync} \cup SyncRecord : s = sync[d] /\ sync' = [sync EXCEPT ![d] = s]
    BY <1>0, <2>1, StoreIs
  <2>5. NewReceipts
    BY <1>0 DEF NewReceipts
  <2> QED BY <1>0, <2>3, <2>4, <2>5, StoreIs, SyncStep
<1>2. CASE ~Complete(sync[d].peer, x)
  <2>1. End(d) /\ UNCHANGED objs
    BY <1>2 DEF Fetch
  <2> QED BY <1>0, <2>1, StoreIs, EndStep
<1> QED BY <1>1, <1>2

\* The walk is over: the receipts it saw are stored, and the ancestry is whole.
LEMMA PlanStep ==
    ASSUME IInv, NEW d \in Devices, Plan(d)
    PROVE  IInv'
<1>0. /\ TypeOK /\ sync[d].phase = "walk" /\ Wanted(d) = {}
      /\ UNCHANGED <<rec, recs, objs, wild, session, mark>>
  BY DEF IInv, Plan
<1>1. PICK q \in SyncRecord : q = sync[d] /\ q.peer \in Devices /\ q.phase = "walk"
                              /\ q.sure \in SUBSET Ids /\ q.adv \in SUBSET Ids
  BY <1>0, SyncIs
<1>2. PICK push \in SUBSET recs[d], read \in SUBSET recs[d] :
         /\ push = {x \in recs[d] : Pushed(d, x)}
         /\ read = {x \in recs[d] \ push : Readable(d, x)}
  OBVIOUS
<1>3. PICK s : s = [q EXCEPT !.phase = "push", !.had = {}, !.sure = {}, !.push = push]
  OBVIOUS
<1>4. /\ conf' = [conf EXCEPT ![d] = @ \cup ((q.sure \cup read) \X {q.peer})]
      /\ sync' = [sync EXCEPT ![d] = s]
  BY <1>1, <1>2, <1>3 DEF Plan
<1>5. recs[d] \in SUBSET Ids /\ conf \in [Devices -> SUBSET (Ids \X Devices)]
  BY <1>0, StoreIs
<1>6. s \in SyncRecord /\ s.sure = {} /\ s.push = push /\ s.adv = q.adv
  BY <1>1, <1>2, <1>3, <1>5 DEF SyncRecord
<1>7. conf' \in [Devices -> SUBSET (Ids \X Devices)] /\ \A e \in Devices : conf[e] \subseteq conf'[e]
  BY <1>1, <1>2, <1>4, <1>5
<1>8. Grows
  BY <1>0, <1>7, RecordsStay DEF Grows, IInv
<1>9. NewReceipts
  <2> SUFFICES ASSUME NEW e \in Devices, NEW p \in Devices, NEW x \in Ids',
                      <<x, p>> \in conf'[e] \ conf[e]
               PROVE  Answers(p, x)
    BY <1>0, <1>8, AnswersGrow DEF NewReceipts
  <2>1. p = q.peer /\ x \in q.sure \cup read
    BY <1>4, <1>5
  <2>2. CASE x \in q.sure
    BY <1>1, <2>1, <2>2 DEF IInv, SyncHolds
  <2>3. CASE x \in read
    BY <1>1, <1>2, <2>1, <2>3 DEF Readable, Confirms, Answers, Complete
  <2> QED BY <2>1, <2>2, <2>3
<1>10. ASSUME NEW x \in q.adv PROVE {x} \cup Ancestors[x] \subseteq recs[d]
  <2>1. Visited(d) \subseteq recs[d]
    BY <1>0 DEF Wanted
  <2>2. x \in recs[d] /\ AncestorsIn(recs[d])[x] \subseteq recs[d]
    BY <1>1, <2>1 DEF Visited
  <2>3. Ancestors[x] \subseteq recs[d]
    BY <1>0, <1>5, <2>2, WalkFindsAll
  <2> QED BY <2>2, <2>3
<1>11. SyncHolds(d)'
  <2>1. s = sync'[d]
    BY <1>0, <1>4, StoreIs
  <2>2. SyncHolds(d)' <=>
          /\ s.phase # "none" => (\A y \in s.sure : Answers(s.peer, y)') /\ s.push \subseteq recs'[d]
          /\ s.phase = "push" => \A y \in s.adv : {y} \cup Ancestors'[y] \subseteq recs'[d]
    BY <2>1, Zenon DEF SyncHolds
  <2>3. ASSUME NEW y \in s.adv PROVE {y} \cup Ancestors'[y] \subseteq recs'[d]
    <3>1. y \in Ids /\ {y} \cup Ancestors[y] \subseteq recs[d]
      BY <1>1, <1>6, <1>10
    <3>2. Ancestors'[y] \subseteq Ancestors[y]
      BY <1>0, <1>8, <3>1, AncestorsStay DEF Grows
    <3> QED BY <1>0, <3>1, <3>2
  <2> QED BY <1>0, <1>6, <2>2, <2>3
<1> QED BY <1>0, <1>4, <1>6, <1>7, <1>9, <1>11, StoreIs, SyncStep

\* A call of `records': the peer imports the record and both sides confirm what
\* they hold.
LEMMA PushStep ==
    ASSUME IInv, NEW d \in Devices, NEW x \in Ids, Push(d, x)
    PROVE  IInv'
<1>0. TypeOK /\ sync[d].phase = "push" /\ x \in sync[d].push /\ UNCHANGED <<rec, wild, session, mark>>
  BY DEF IInv, Push
<1>1. PICK q \in SyncRecord : q = sync[d] /\ q.peer \in Devices /\ q.phase = "push"
  BY <1>0, SyncIs
<1>2. PICK p \in Devices : p = q.peer
  BY <1>1
<1>3. x \in recs[d] /\ rec[x].content \in Contents
  <2>1. q.push \subseteq recs[d]
    BY <1>1 DEF IInv, SyncHolds
  <2>2. rec[x] \in Record
    BY <1>0, RecordIs
  <2> QED BY <1>0, <1>1, <2>1, <2>2 DEF Record
<1>4. recs' = [recs EXCEPT ![p] = @ \cup {x}]
  BY <1>1, <1>2 DEF Push
<1>5. /\ recs' \in [Devices -> SUBSET Ids] /\ \A e \in Devices : recs[e] \subseteq recs'[e]
      /\ \A e \in Devices : \A y \in recs'[e] : \E f \in Devices : y \in recs[f]
      /\ x \in recs'[p]
  BY <1>0, <1>3, <1>4, StoreIs
<1>6. CASE End(d) /\ UNCHANGED <<objs, conf>>
  <2>1. NewReceipts
    BY <1>6 DEF NewReceipts
  <2> QED BY <1>0, <1>5, <1>6, <2>1, StoreIs, SyncStep DEF End
<1>7. CASE ~(End(d) /\ UNCHANGED <<objs, conf>>)
  <2>1. PICK there : there = IF x \in Heads(d) /\ ~Complete(p, x) THEN objs[p] \cup {rec[x].content}
                             ELSE objs[p]
    OBVIOUS
  <2>2. /\ objs' = [objs EXCEPT ![p] = there]
        /\ conf' = [e \in Devices |-> conf[e] \cup
                       {r \in {<<x, d>>} : e = p /\ Confirms(objs[d], x)} \cup
                       {r \in {<<x, p>>} : e = d /\ Confirms(there, x)}]
        /\ sync' = [sync EXCEPT ![d].push = @ \ {x}]
    BY <1>1, <1>2, <1>7, <2>1 DEF Push
  <2>3. there \in SUBSET Contents /\ objs[p] \subseteq there
    BY <1>0, <1>3, <2>1, StoreIs
  <2>4. /\ objs' \in [Devices -> SUBSET Contents] /\ objs'[p] = there
        /\ \A e \in Devices : objs[e] \subseteq objs'[e]
    BY <1>0, <2>2, <2>3, StoreIs
  <2>5. /\ conf' \in [Devices -> SUBSET (Ids \X Devices)]
        /\ \A e \in Devices : conf[e] \subseteq conf'[e]
        /\ \A e \in Devices : \A z \in conf'[e] \ conf[e] :
              \/ z = <<x, d>> /\ Confirms(objs[d], x)
              \/ z = <<x, p>> /\ Confirms(there, x)
    BY <1>0, <2>2, StoreIs
  <2>6. NewReceipts
    <3> SUFFICES ASSUME NEW e \in Devices, NEW g \in Devices, NEW y \in Ids',
                        <<y, g>> \in conf'[e] \ conf[e]
                 PROVE  Answers(g, y)'
      BY DEF NewReceipts
    <3>1. CASE y = x /\ g = d /\ Confirms(objs[d], x)
      BY <1>0, <1>3, <1>5, <2>4, <3>1 DEF Answers, Complete, Confirms
    <3>2. CASE y = x /\ g = p /\ Confirms(there, x)
      BY <1>0, <1>5, <2>4, <3>2 DEF Answers, Complete, Confirms
    <3> QED BY <2>5, <3>1, <3>2
  <2>7. PICK s : s = [q EXCEPT !.push = @ \ {x}]
    OBVIOUS
  <2>8. /\ s \in SyncRecord /\ s.phase = "push" /\ s.peer = q.peer /\ s.sure = q.sure
        /\ s.push = q.push \ {x} /\ s.adv = q.adv
    BY <1>1, <2>7 DEF SyncRecord
  <2>9. sync' = [sync EXCEPT ![d] = s]
    BY <1>0, <1>1, <2>2, <2>7, StoreIs
  <2>10. Grows
    BY <1>0, <1>5, <2>4, <2>5, RecordsStay DEF Grows, IInv
  <2>11. \A y \in s.sure : Answers(s.peer, y)'
    <3> SUFFICES ASSUME NEW y \in q.sure PROVE Answers(q.peer, y)'
      BY <2>8
    <3>1. Answers(q.peer, y)
      BY <1>1 DEF IInv, SyncHolds
    <3> QED BY <1>0, <1>1, <2>10, <3>1, AnswersGrow
  <2>12. ASSUME NEW y \in s.adv PROVE {y} \cup Ancestors'[y] \subseteq recs'[d]
    <3>1. {y} \cup Ancestors[y] \subseteq recs[d]
      BY <1>1, <2>8 DEF IInv, SyncHolds
    <3>2. y \in Ids
      BY <1>0, <3>1, HeldIs
    <3>3. Ancestors'[y] \subseteq Ancestors[y]
      BY <1>0, <2>10, <3>2, AncestorsStay DEF Grows
    <3> QED BY <1>5, <3>1, <3>3
  <2>13. SyncHolds(d)'
    <3>1. s = sync'[d]
      BY <1>0, <2>9, StoreIs
    <3>2. SyncHolds(d)' <=>
            /\ s.phase # "none" => (\A y \in s.sure : Answers(s.peer, y)') /\ s.push \subseteq recs'[d]
            /\ s.phase = "push" => \A y \in s.adv : {y} \cup Ancestors'[y] \subseteq recs'[d]
      BY <3>1, Zenon DEF SyncHolds
    <3>3. s.push \subseteq recs'[d]
      BY <1>1, <1>5, <2>8 DEF IInv, SyncHolds
    <3> QED BY <3>2, <3>3, <2>11, <2>12
  <2> QED BY <1>0, <1>5, <2>4, <2>5, <2>6, <2>8, <2>9, <2>13, StoreIs, SyncStep
<1> QED BY <1>6, <1>7

\* A call that is cut after the import has moved the record only.
LEMMA PushCutStep ==
    ASSUME IInv, NEW d \in Devices, NEW x \in Ids, PushCut(d, x)
    PROVE  IInv'
<1>0. /\ TypeOK /\ sync[d].phase = "push" /\ x \in sync[d].push /\ End(d)
      /\ UNCHANGED <<rec, wild, session, mark>>
  BY DEF IInv, PushCut
<1>1. PICK p \in Devices : p = sync[d].peer
  BY <1>0, SyncIs
<1>2. x \in recs[d] /\ rec[x].content \in Contents
  BY <1>0, RecordIs DEF IInv, SyncHolds, Record
<1>3. recs' = [recs EXCEPT ![p] = @ \cup {x}]
  BY <1>1 DEF PushCut
<1>4. /\ recs' \in [Devices -> SUBSET Ids] /\ \A e \in Devices : recs[e] \subseteq recs'[e]
      /\ \A e \in Devices : \A y \in recs'[e] : \E f \in Devices : y \in recs[f]
  BY <1>0, <1>2, <1>3, StoreIs
<1>5. /\ \/ objs' = objs
         \/ objs' = [objs EXCEPT ![p] = @ \cup {rec[x].content}]
         \/ objs' = [objs EXCEPT ![p] = @]
      /\ \/ conf' = conf
         \/ Confirms(objs[d], x) /\ conf' = [conf EXCEPT ![p] = @ \cup {<<x, d>>}]
  BY <1>1 DEF PushCut
<1>6. objs' \in [Devices -> SUBSET Contents] /\ \A e \in Devices : objs[e] \subseteq objs'[e]
  <2>1. CASE objs' = objs \/ objs' = [objs EXCEPT ![p] = @]
    BY <1>0, <2>1, StoreIs
  <2>2. CASE objs' = [objs EXCEPT ![p] = @ \cup {rec[x].content}]
    BY <1>0, <1>2, <2>2, StoreIs
  <2> QED BY <1>5, <2>1, <2>2
<1>7. /\ conf' \in [Devices -> SUBSET (Ids \X Devices)]
      /\ \A e \in Devices : conf[e] \subseteq conf'[e]
      /\ \A e \in Devices : \A z \in conf'[e] \ conf[e] : z = <<x, d>> /\ Confirms(objs[d], x)
  <2>1. CASE conf' = conf
    BY <1>0, <2>1, StoreIs
  <2>2. CASE Confirms(objs[d], x) /\ conf' = [conf EXCEPT ![p] = @ \cup {<<x, d>>}]
    <3>1. /\ conf' \in [Devices -> SUBSET (Ids \X Devices)]
          /\ \A e \in Devices : conf[e] \subseteq conf'[e]
          /\ \A e \in Devices : \A z \in conf'[e] \ conf[e] : z = <<x, d>>
      BY <1>0, <2>2, StoreIs
    <3> QED BY <2>2, <3>1
  <2> QED BY <1>5, <2>1, <2>2
<1>8. NewReceipts
  <2> SUFFICES ASSUME NEW e \in Devices, NEW g \in Devices, NEW y \in Ids',
                      <<y, g>> \in conf'[e] \ conf[e]
               PROVE  Answers(g, y)'
    BY DEF NewReceipts
  <2>1. y = x /\ g = d /\ Confirms(objs[d], x)
    BY <1>7
  <2> QED BY <1>0, <1>2, <1>4, <1>6, <2>1 DEF Answers, Complete, Confirms
<1> QED BY <1>0, <1>4, <1>6, <1>7, <1>8, StoreIs, SyncStep DEF End

\* A complete contact changes its memory only.
LEMMA FinishStep ==
    ASSUME IInv, NEW d \in Devices, Finish(d)
    PROVE  IInv'
<1>0. /\ TypeOK /\ sync[d].phase = "push" /\ End(d)
      /\ UNCHANGED <<rec, recs, objs, conf, wild, session>>
  BY DEF IInv, Finish, store
<1>1. PICK p \in Devices, A \in SUBSET Ids, H \in SUBSET Ids :
         p = sync[d].peer /\ A = sync[d].adv /\ H = Heads(d)
  BY <1>0, SyncIs, StoreIs
<1>2. \/ mark' = mark
      \/ mark' = [mark EXCEPT ![d][p] = [remote |-> A, local |-> H]]
  BY <1>1 DEF Finish
<1>3. mark' \in [Devices -> [Devices -> [remote : SUBSET Ids, local : SUBSET Ids]]]
  <2>1. PICK M : M = [remote : SUBSET Ids, local : SUBSET Ids]
    OBVIOUS
  <2>2. PICK m \in M : m = [remote |-> A, local |-> H]
    BY <2>1
  <2>3. mark \in [Devices -> [Devices -> M]]
    BY <1>0, <2>1, StoreIs
  <2>4. mark' \in [Devices -> [Devices -> M]]
    BY <1>2, <2>2, <2>3
  <2> QED BY <2>1, <2>4
<1> QED BY <1>0, <1>3, EndStep

\* A contact may be cut anywhere.
LEMMA CutStep ==
    ASSUME IInv, NEW d \in Devices, Cut(d)
    PROVE  IInv'
<1>0. TypeOK /\ End(d) /\ UNCHANGED <<rec, recs, objs, conf, wild, session, mark>>
  BY DEF IInv, Cut, store
<1> QED BY <1>0, StoreIs, EndStep

\* A payload that is fetched for a restore brings the receipt of its holder.
LEMMA FetchPayloadStep ==
    ASSUME IInv, NEW d \in Devices, NEW p \in Devices, NEW x \in Ids, FetchPayload(d, p, x)
    PROVE  IInv'
<1>0. /\ TypeOK /\ x \in recs[p] /\ Complete(p, x)
      /\ objs' = [objs EXCEPT ![d] = @ \cup {rec[x].content}]
      /\ conf' = [conf EXCEPT ![d] = @ \cup {<<x, p>>}]
      /\ UNCHANGED <<rec, recs, wild, session, sync, mark>>
  BY DEF IInv, FetchPayload
<1>1. rec[x].content \in Contents
  BY <1>0, RecordIs DEF Record
<1>2. objs' \in [Devices -> SUBSET Contents] /\ \A e \in Devices : objs[e] \subseteq objs'[e]
  BY <1>0, <1>1, StoreIs
<1>3. /\ conf' \in [Devices -> SUBSET (Ids \X Devices)]
      /\ \A e \in Devices : conf[e] \subseteq conf'[e]
      /\ \A e \in Devices : \A z \in conf'[e] \ conf[e] : z = <<x, p>>
  BY <1>0, StoreIs
<1>4. NewReceipts
  <2> SUFFICES ASSUME NEW e \in Devices, NEW g \in Devices, NEW y \in Ids',
                      <<y, g>> \in conf'[e] \ conf[e]
               PROVE  Answers(g, y)'
    BY DEF NewReceipts
  <2>1. y = x /\ g = p
    BY <1>3
  <2> QED BY <1>0, <1>2, <2>1 DEF Answers, Complete
<1>5. PICK s \in {NoSync} \cup SyncRecord : s = sync[d] /\ sync' = [sync EXCEPT ![d] = s]
  BY <1>0, StoreIs
<1> QED BY <1>0, <1>2, <1>3, <1>4, <1>5, StoreIs, SyncStep

------------------------------------------------------------------------------
(* The theorems.                                                           *)

\* The first states satisfy the inductive invariant.
LEMMA InitIInv == Init => IInv
<1> SUFFICES ASSUME Init PROVE IInv
  OBVIOUS
<1>0. rec = <<>> /\ Len(rec) = 0 /\ Ids = {}
  BY DEF Init, Ids
<1>1. StoreTypes
  BY SaveHistoryAssumption DEF Init, StoreTypes, Contents
<1>2. SessionTypes
  BY DEF Init, SessionTypes, NoSession
<1>3. SyncTypes
  <2>1. PICK M : M = [remote : SUBSET Ids, local : SUBSET Ids]
    OBVIOUS
  <2>2. NoMark \in M
    BY <2>1 DEF NoMark
  <2>3. mark \in [Devices -> [Devices -> M]]
    BY <2>2 DEF Init
  <2> QED BY <2>1, <2>3 DEF Init, SyncTypes
<1>4. TypeOK /\ Stamped
  BY <1>0, <1>1, <1>2, <1>3, TypeParts, SaveHistoryAssumption DEF Stamped
<1>5. History
  BY DEF Init, History, SidesSurvive, ReceiptIsTrue, UnconfirmedIsKept, OwnAreHome
<1>6. \A d \in Devices : JournalHolds(d) /\ SyncHolds(d)
  BY DEF Init, JournalHolds, SyncHolds, NoSession, NoSync
<1> QED BY <1>4, <1>5, <1>6 DEF IInv

\* One step per action.
LEMMA NextIInv == IInv /\ [Next]_vars => IInv'
<1> SUFFICES ASSUME IInv, [Next]_vars PROVE IInv'
  OBVIOUS
<1>1. CASE UNCHANGED vars
  <2>0. TypeOK /\ UNCHANGED <<rec, recs, objs, conf, wild, session, sync, mark>>
    BY <1>1 DEF IInv, vars
  <2>1. Ids' = Ids /\ Extends /\ Stamped' /\ SyncRecord' = SyncRecord
    BY <2>0, RecordsStay DEF IInv
  <2>2. TypeOK'
    BY <2>0, <2>1 DEF TypeOK
  <2>3. Grows /\ NewRecords /\ NewReceipts
    BY <2>0, <2>1 DEF Grows, NewRecords, NewReceipts
  <2> QED BY <2>0, <2>1, <2>2, <2>3, GrowingStep
<1>2. CASE Next
  <2>1. PICK d \in Devices :
           \/ Boundary(d) \/ Reconcile(d) \/ Prune(d)
           \/ \E p \in Devices, why \in Purposes : Begin(d, p, why)
           \/ Syncing(d)
           \/ \E p \in Devices, x \in Ids : FetchPayload(d, p, x)
    BY <1>2 DEF Next
  <2>2. CASE Boundary(d)
    <3>1. CASE Baseline(d) BY <3>1, BaselineStep
    <3>2. CASE Launch(d) BY <3>2, LaunchStep
    <3>3. CASE Discard(d) BY <3>3, DiscardStep
    <3>4. CASE Publish(d) BY <3>4, PublishStep
    <3>5. CASE \E c \in Writable : Capture(d, c) BY <3>5, CaptureStep
    <3>6. CASE \E x \in Ids : Choose(d, x) BY <3>6, PickStep DEF Choose
    <3>7. CASE \E x \in Ids : Restore(d, x) BY <3>7, PickStep DEF Restore
    <3> QED BY <2>2, <3>1, <3>2, <3>3, <3>4, <3>5, <3>6, <3>7 DEF Boundary
  <2>3. CASE Reconcile(d) BY <2>3, ReconcileStep
  <2>4. CASE Prune(d) BY <2>4, PruneStep
  <2>5. CASE \E p \in Devices, why \in Purposes : Begin(d, p, why) BY <2>5, BeginStep
  <2>6. CASE Syncing(d)
    <3>1. CASE \E x \in Ids : Import(d, x) BY <3>1, ImportStep
    <3>2. CASE \E x \in Ids : Fetch(d, x) BY <3>2, FetchStep
    <3>3. CASE \E x \in Ids : Push(d, x) BY <3>3, PushStep
    <3>4. CASE \E x \in Ids : PushCut(d, x) BY <3>4, PushCutStep
    <3>5. CASE Plan(d) BY <3>5, PlanStep
    <3>6. CASE Finish(d) BY <3>6, FinishStep
    <3>7. CASE Cut(d) BY <3>7, CutStep
    <3> QED BY <2>6, <3>1, <3>2, <3>3, <3>4, <3>5, <3>6, <3>7 DEF Syncing
  <2>7. CASE \E p \in Devices, x \in Ids : FetchPayload(d, p, x) BY <2>7, FetchPayloadStep
  <2> QED BY <2>1, <2>2, <2>3, <2>4, <2>5, <2>6, <2>7
<1> QED BY <1>1, <1>2

\* Every state the devices reach satisfies the inductive invariant.
THEOREM Inductive == Spec => []IInv
<1>1. Init => IInv BY InitIInv
<1>2. IInv /\ [Next]_vars => IInv' BY NextIInv
<1> QED BY <1>1, <1>2, PTL DEF Spec

\* Histories, receipts and synchronizations stay typed: a device only ever
\* stores records that were made, and a record names older ones only.
THEOREM HistoryTypes == Spec => []TypeOK
<1>1. IInv => TypeOK BY DEF IInv
<1> QED BY <1>1, Inductive, PTL

\* prune, the receipts and the captures together lose no payload that somebody
\* may still need, on any number of devices.
THEOREM PayloadsKept == Spec => []PayloadsSurvive
<1>1. IInv => PayloadsSurvive
  BY DEF IInv, History, PayloadsSurvive, CapturedIsWhole, JournalHolds
<1> QED BY <1>1, Inductive, PTL

\* A walk that went on to push has closed every gap.
THEOREM WalksAreWhole == Spec => []WalkIsWhole
<1>1. IInv => WalkIsWhole
  BY DEF IInv, WalkIsWhole, SyncHolds
<1> QED BY <1>1, Inductive, PTL

\* A device that answers for a record has its payload or a record that came
\* after it.
LEMMA AnswerOrChild ==
    ASSUME TypeOK, NEW e \in Devices, NEW y \in Ids, Answers(e, y), NEW x \in Ids, Succeeds(y, x)
    PROVE  \/ y \in recs[e] /\ Complete(e, y)
           \/ \E m \in recs[e] : m \in Ids /\ y < m /\ Succeeds(m, x) /\ Succeeds(m, y)
<1> SUFFICES ASSUME Continued(e, y)
             PROVE  \E m \in recs[e] : m \in Ids /\ y < m /\ Succeeds(m, x) /\ Succeeds(m, y)
  BY DEF Answers
<1>1. PICK m \in recs[e] : y \in rec[m].parents
  BY DEF Continued
<1>2. m \in Ids
  BY <1>1, HeldIs
<1>3. y < m
  BY <1>1, <1>2, RecordIs
<1>4. y \in Ancestors[m] /\ \A a \in Ancestors[y] : a \in Ancestors[m]
  BY <1>1, <1>2, AncestorsClosed
<1> QED BY <1>1, <1>2, <1>3, <1>4 DEF Succeeds

\* Among the records with some property that are known anywhere there is a
\* newest one.
LEMMA NewestOf ==
    ASSUME TypeOK, NEW T \in SUBSET Ids, T # {}
    PROVE  \E z \in T : \A y \in T : ~(z < y)
<1>1. Len(rec) \in Nat /\ T \in SUBSET (1..Len(rec))
  BY DEF TypeOK, Ids
<1>2. PICK z \in T : \A y \in T : y <= z
  BY <1>1, Greatest
<1> QED BY <1>1, <1>2

\* The newest record that came after x is on a device that answers for it, and
\* nothing came after it there.
LEMMA NewestIsHeld ==
    ASSUME IInv, NEW d \in Devices, NEW x \in recs[d]
    PROVE  \E e \in Devices : \E y \in recs[e] : Complete(e, y) /\ Succeeds(y, x)
<1>0. TypeOK /\ SidesSurvive /\ x \in Ids
  BY HeldIs DEF IInv, History
<1> DEFINE T == {y \in Ids : Succeeds(y, x) /\ \E f \in Devices : y \in recs[f]}
<1>1. T \in SUBSET Ids /\ T # {}
  BY <1>0 DEF Succeeds
<1>2. PICK z \in T : \A y \in T : ~(z < y)
  BY <1>0, <1>1, NewestOf
<1>3. PICK e \in Devices : Answers(e, z)
  BY <1>0, <1>2 DEF SidesSurvive
<1>4. ~ \E m \in recs[e] : m \in Ids /\ z < m /\ Succeeds(m, x) /\ Succeeds(m, z)
  BY <1>2
<1>5. z \in Ids /\ Succeeds(z, x)
  BY <1>2
<1> HIDE DEF T
<1>6. z \in recs[e] /\ Complete(e, z)
  BY <1>0, <1>3, <1>4, <1>5, AnswerOrChild
<1> QED BY <1>5, <1>6

\* Of every snapshot that a device knows, itself or one that came after it can
\* still be played on some device.
THEOREM ProgressKept == Spec => []ProgressSurvives
<1>1. IInv => ProgressSurvives
  BY NewestIsHeld DEF ProgressSurvives
<1> QED BY <1>1, Inductive, PTL

\* What Synced promises: the newest record that came after a head x and is on
\* another device is either unknown here, then whoever answers for it is
\* another device; or a head h of this device came after it, and the device
\* that confirmed h answers for h.
LEMMA SyncedLemma ==
    ASSUME IInv, NEW d \in Devices, Synced(d), NEW x \in Heads(d)
    PROVE  \E p \in Devices \ {d} : \E y \in recs[p] : Complete(p, y) /\ Succeeds(y, x)
<1>0. TypeOK /\ SidesSurvive /\ ReceiptIsTrue /\ x \in recs[d] /\ x \in Ids
  BY HeldIs DEF IInv, History, Heads, head_ids
<1> DEFINE T == {y \in Ids : Succeeds(y, x) /\ \E f \in Devices \ {d} : y \in recs[f]}
<1>1. T \in SUBSET Ids /\ T # {}
  <2>1. PICK p \in Devices \ {d} : <<x, p>> \in conf[d]
    BY DEF Synced, ConfirmedElsewhere
  <2>2. x \in recs[p]
    BY <1>0, <2>1 DEF ReceiptIsTrue, Answers
  <2> QED BY <1>0, <2>2 DEF Succeeds
<1>2. PICK z \in T : \A y \in T : ~(z < y)
  BY <1>0, <1>1, NewestOf
<1>3. z \in Ids /\ Succeeds(z, x) /\ \E f \in Devices \ {d} : z \in recs[f]
  BY <1>2
<1>4. ASSUME NEW f \in Devices \ {d}, NEW m \in recs[f], m \in Ids, z < m, Succeeds(m, x)
      PROVE  FALSE
  <2>1. m \in T
    BY <1>4
  <2> QED BY <1>2, <1>4, <2>1
<1> HIDE DEF T
<1>5. CASE z \notin recs[d]
  <2>1. PICK e \in Devices : Answers(e, z)
    BY <1>0, <1>3 DEF SidesSurvive
  <2>2. e # d
    BY <1>5, <2>1 DEF Answers
  <2>3. z \in recs[e] /\ Complete(e, z)
    BY <1>0, <1>3, <1>4, <2>1, <2>2, AnswerOrChild
  <2> QED BY <1>3, <2>2, <2>3
<1>6. CASE z \in recs[d]
  <2> DEFINE U == {y \in recs[d] : Succeeds(y, z) /\ Succeeds(y, x)}
  <2>1. U \in SUBSET Ids /\ U # {}
    BY <1>0, <1>3, <1>6, HeldIs DEF Succeeds
  <2>2. PICK h \in U : \A y \in U : ~(h < y)
    BY <1>0, <2>1, NewestOf
  <2>3. h \in recs[d] /\ h \in Ids /\ Succeeds(h, z) /\ Succeeds(h, x)
    BY <1>0, <2>2, HeldIs
  <2>4. h \in Heads(d)
    <3> SUFFICES ASSUME NEW m \in recs[d], h \in rec[m].parents PROVE FALSE
      BY <2>3 DEF Heads, head_ids, Parents
    <3>1. m \in Ids
      BY <1>0, HeldIs
    <3>2. h < m
      BY <1>0, <3>1, RecordIs
    <3>3. h \in Ancestors[m] /\ \A a \in Ancestors[h] : a \in Ancestors[m]
      BY <1>0, <2>3, <3>1, AncestorsClosed
    <3>4. Succeeds(m, z) /\ Succeeds(m, x)
      BY <2>3, <3>3 DEF Succeeds
    <3> QED BY <2>2, <3>2, <3>4
  <2>5. PICK q \in Devices \ {d} : <<h, q>> \in conf[d]
    BY <2>4 DEF Synced, ConfirmedElsewhere
  <2>6. Answers(q, h)
    BY <1>0, <2>3, <2>5 DEF ReceiptIsTrue
  <2>7. ~(h < z)
    <3>1. h \in Nat /\ z \in Nat
      BY <1>0, <1>3, <2>3 DEF Ids, TypeOK
    <3>2. z \in U
      BY <1>3, <1>6 DEF Succeeds
    <3> HIDE DEF U
    <3>3. CASE z \in Ancestors[h]
      BY <1>0, <2>3, <3>1, <3>3, AncestorsOlder
    <3> QED BY <2>3, <3>1, <3>3 DEF Succeeds
  <2>8. h \in recs[q] /\ Complete(q, h)
    <3>1. ASSUME NEW m \in recs[q], m \in Ids, h < m, Succeeds(m, x) PROVE FALSE
      <4>1. h \in Nat /\ z \in Nat /\ m \in Nat
        BY <1>0, <1>3, <2>3, <3>1 DEF Ids, TypeOK
      <4> QED BY <1>4, <2>7, <3>1, <4>1
    <3> QED BY <1>0, <2>3, <2>5, <2>6, <3>1, AnswerOrChild
  <2> QED BY <2>3, <2>5, <2>8
<1> QED BY <1>5, <1>6

\* Receipts stay true on any number of devices, and a game that is shown as
\* Synced can be continued on another one.
THEOREM ReceiptsKept == Spec => []ReceiptsHold
<1>1. IInv => SyncedIsSafe
  BY SyncedLemma DEF SyncedIsSafe
<1>2. IInv => ReceiptIsTrue
  BY DEF IInv, History
<1> QED BY <1>1, <1>2, Inductive, PTL DEF ReceiptsHold

\* An object that leaves a device belongs to nothing but snapshots that
\* somebody went on from and that another device confirmed.  ADR 0014: "A device
\* never drops a snapshot that no other device has confirmed receiving, whatever
\* retention says".
DropsAreConfirmed ==
    [][\A d \in Devices : \A x \in recs[d] :
          rec[x].content \in objs[d] \ objs'[d] =>
              Continued(d, x) /\ ConfirmedElsewhere(d, x)]_vars

\* Only a prune takes objects away.
LEMMA OnlyPruneDrops ==
    ASSUME TypeOK, Next, NEW e \in Devices
    PROVE  objs[e] \subseteq objs'[e] \/ Prune(e)
<1>0. objs \in [Devices -> SUBSET Contents]
  BY DEF TypeOK
<1>1. PICK d \in Devices :
           \/ Boundary(d) \/ Reconcile(d) \/ Prune(d)
           \/ \E p \in Devices, why \in Purposes : Begin(d, p, why)
           \/ Syncing(d)
           \/ \E p \in Devices, x \in Ids : FetchPayload(d, p, x)
  BY DEF Next
<1>2. CASE Boundary(d) \/ Reconcile(d)
  BY <1>0, <1>2 DEF Boundary, Baseline, Launch, Discard, Publish, Capture, Choose, Restore, Pick,
                    Reconcile, store
<1>3. CASE Prune(d)
  BY <1>0, <1>3 DEF Prune, DropPayloads
<1>4. CASE Syncing(d)
  <2>1. CASE \E x \in Ids : Import(d, x) \/ Fetch(d, x)
    BY <1>0, <2>1 DEF Import, Fetch
  <2>c. CASE \E x \in Ids : PushCut(d, x)
    <3>1. PICK x \in Ids : PushCut(d, x)
      BY <2>c
    <3>2. \/ objs' = objs
          \/ objs' = [objs EXCEPT ![sync[d].peer] = objs[sync[d].peer] \cup {rec[x].content}]
          \/ objs' = [objs EXCEPT ![sync[d].peer] = objs[sync[d].peer]]
      BY <3>1 DEF PushCut
    <3> QED BY <1>0, <3>2
  <2>2. CASE \E x \in Ids : Push(d, x)
    <3>1. PICK x \in Ids : Push(d, x)
      BY <2>2
    <3>2. \/ objs' = objs
          \/ \E S : objs' = [objs EXCEPT ![sync[d].peer] = objs[sync[d].peer] \cup S]
      <4>1. \/ objs' = objs
            \/ objs' = [objs EXCEPT ![sync[d].peer] = objs[sync[d].peer] \cup {rec[x].content}]
            \/ objs' = [objs EXCEPT ![sync[d].peer] = objs[sync[d].peer]]
        BY <3>1 DEF Push
      <4> QED BY <1>0, <4>1
    <3> QED BY <1>0, <3>2
  <2>3. CASE Plan(d) \/ Finish(d) \/ Cut(d)
    BY <2>3 DEF Plan, Finish, Cut, store
  <2> QED BY <1>4, <2>1, <2>c, <2>2, <2>3 DEF Syncing
<1>5. CASE \E p \in Devices, why \in Purposes : Begin(d, p, why)
  BY <1>5 DEF Begin, store
<1>6. CASE \E p \in Devices, x \in Ids : FetchPayload(d, p, x)
  BY <1>0, <1>6 DEF FetchPayload
<1> QED BY <1>1, <1>2, <1>3, <1>4, <1>5, <1>6

\* Retention keeps to the rule of the ADR, although records share objects.
THEOREM DropsFollowReceipts == Spec => DropsAreConfirmed
<1>1. ASSUME IInv, [Next]_vars
      PROVE  [\A d \in Devices : \A x \in recs[d] :
                 rec[x].content \in objs[d] \ objs'[d] =>
                     Continued(d, x) /\ ConfirmedElsewhere(d, x)]_vars
  <2> SUFFICES ASSUME Next, NEW d \in Devices, NEW x \in recs[d], rec[x].content \in objs[d] \ objs'[d]
               PROVE  Continued(d, x) /\ ConfirmedElsewhere(d, x)
    BY <1>1
  <2>1. TypeOK
    BY <1>1 DEF IInv
  <2>2. Prune(d)
    BY <2>1, OnlyPruneDrops
  <2>3. Complete(d, x) /\ ~Complete(d, x)'
    BY <2>2 DEF Complete, Prune, DropPayloads
  <2> QED BY <2>1, <2>2, <2>3, DroppedIs
<1> QED BY <1>1, Inductive, PTL DEF Spec, DropsAreConfirmed
==============================================================================
