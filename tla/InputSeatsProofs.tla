--------------------------- MODULE InputSeatsProofs ---------------------------
(***************************************************************************)
(* Proofs about InputSeats, for any number of seats, controllers, guests    *)
(* and launches.                                                            *)
(*                                                                         *)
(* The argument: Good describes the receiver's runtime between two steps    *)
(* and Full says that nobody waits while a seat is free.  Every operator of *)
(* the runtime preserves Good relative to a set P of sources whose presses  *)
(* may count; a change of route makes P empty, and what a game then sees    *)
(* pressed was pressed afterwards.  rebalance gives Full whatever was there  *)
(* before, by counting the free seats and the waiting sources.  The actions  *)
(* then follow from their operators, one lemma each.                        *)
(*                                                                         *)
(* korrid's picture of the receiver needs a second invariant on top, VInv.  *)
(* Tells says of an operator that native sources which agreed with the      *)
(* runtime before, pending events included, agree with it afterwards, or    *)
(* that events were lost and the runtime says so; then Settle cuts korrid   *)
(* off.  NInv carries that agreement through a reply on its way; CInv says  *)
(* which of the cached values that reply will correct.                      *)
(***************************************************************************)
EXTENDS InputSeats, FiniteSetTheorems, SequenceTheorems, WellFoundedInduction, TLAPS

(* What holds of the receiver's runtime r between two steps, with P the       *)
(* sources whose press the game may see.                                     *)
Seated(r) ==
    /\ \A s, t \in Slots : r.seat[s].key = r.seat[t].key /\ r.seat[s].key # None => s = t
    /\ \A s \in Slots : r.seat[s].key # None =>
          s <= r.count /\ (r.seat[s].on <=> r.src[r.seat[s].key].known)
    /\ \A s \in Slots : r.seat[s].key = None => ~r.seat[s].on

Full(r) == (Free(r) # {} /\ ~FirstPress(r)) => \A k \in Known(r) : Bound(r, k)

Armed(r, P) == \A k \in Keys : r.src[k].known /\ ~r.src[k].rearm =>
                 r.src[k].has /\ (r.route /\ r.src[k].held => k \in P)

HeldOk(r, P) == \A s \in r.held :
      /\ r.route /\ r.seat[s].on /\ r.seat[s].key \in P
      /\ r.src[r.seat[s].key].held /\ ~r.src[r.seat[s].key].rearm

Silent(r) == r.recovery => Known(r) = {} /\ r.mirror = None /\ ~r.route

Mirrored(r) == /\ r.route => r.session # None
               /\ r.mirror # None => r.session = r.mirror
               /\ \A k \in Known(r) \cap Remotes : k[1] = r.mirror
               /\ Known(r) \cap Guests = {}

Good(r, P) == /\ r \in Runtime /\ Seated(r) /\ Armed(r, P) /\ HeldOk(r, P)
              /\ Silent(r) /\ Mirrored(r)

(* Within a session a seat stays with its source.                             *)
Keeps(r, d) == r.session # None /\ d.session = r.session =>
                  \A s \in Slots : r.seat[s].key # None => d.seat[s].key = r.seat[s].key

\* A set of naturals that is not empty has a least member.
LEMMA Least == ASSUME NEW T \in SUBSET Nat, T # {}
               PROVE  \E n \in T : \A m \in T : n <= m
<1>1. \E n \in T : \A m \in T : ~(<<m, n>> \in OpToRel(<, Nat))
  BY NatLessThanWellFounded, WFMin, Zenon
<1>2. PICK n \in T : \A m \in T : ~(<<m, n>> \in OpToRel(<, Nat))
  BY <1>1, Zenon
<1>3. ASSUME NEW m \in T PROVE n <= m
  <2>1. m \in Nat /\ n \in Nat /\ ~(<<m, n>> \in OpToRel(<, Nat))
    BY <1>2, Zenon
  <2>2. m < n => <<m, n>> \in OpToRel(<, Nat)
    BY <2>1, SMT DEF OpToRel
  <2>3. ~(m < n)
    BY <2>1, <2>2, Zenon
  <2> QED
    <3>1. m \in Nat /\ n \in Nat BY <2>1, Zenon
    <3> QED BY <3>1, <2>3
<1> QED BY <1>3

-----------------------------------------------------------------------------
(* korrid's native sources, and what the events of the receiver make of them. *)
Mappers == [remote : [Remotes -> {"absent", "neutral", "held"}], pads : SUBSET Pads]

\* NativeSources::remote keeps the native sources what they are.
LEMMA MapRemoteType ==
    ASSUME NEW m \in Mappers, NEW e \in Event
    PROVE  MapRemote(m, e) \in Mappers
<1> DEFINE x == IF e.kind = "Disconnected" THEN "absent" ELSE IF e.held THEN "held" ELSE "neutral"
           f == [m.remote EXCEPT ![e.key] = x]
<1>1. m.remote \in [Remotes -> {"absent", "neutral", "held"}] /\ e.key \in Remotes
  BY DEF Mappers, Event
<1>2. f \in [Remotes -> {"absent", "neutral", "held"}]
  BY <1>1
<1>3. MapRemote(m, e) = [m EXCEPT !.remote = f]
  BY DEF MapRemote
<1> HIDE DEF f
<1> QED BY <1>2, <1>3 DEF Mappers

(* p are the native sources m and what each of the events makes of them.      *)
Runs(p, m, events) ==
    /\ p[0] = m
    /\ \A i \in 1..Len(events) : p[i] = MapRemote(p[i - 1], events[i])

\* The events of a reply, one after the other: the recursion is well defined, and
\* none is the first to break the type.
LEMMA MapAllRuns ==
    ASSUME NEW m \in Mappers, NEW events \in Seq(Event)
    PROVE  \E p \in [0..Len(events) -> Mappers] :
              Runs(p, m, events) /\ MapAll(m, events) = p[Len(events)]
<1> DEFINE N == Len(events)
           Chain(g, n) == /\ g[0] = m
                          /\ \A i \in 1..n : g[i] = MapRemote(g[i - 1], events[i])
           Bad == {n \in 0..N : ~\E g \in [0..n -> Mappers] : Chain(g, n)}
<1>0. N \in Nat /\ \A i \in 1..N : events[i] \in Event
  BY LenProperties, ElementOfSeq
<1>1. Bad = {}
  <2> SUFFICES ASSUME Bad # {} PROVE FALSE
    OBVIOUS
  <2>1. Bad \in SUBSET Nat
    BY <1>0
  <2>2. PICK n \in Bad : \A x \in Bad : n <= x
    <3> HIDE DEF Bad
    <3> QED BY <2>1, Least
  <2>3. n # 0
    <3> SUFFICES ASSUME n = 0 PROVE FALSE
      OBVIOUS
    <3>1. [i \in 0..0 |-> m] \in [0..0 -> Mappers] /\ Chain([i \in 0..0 |-> m], 0)
      OBVIOUS
    <3> QED BY <3>1
  <2>4. n \in 1..N /\ n - 1 \in 0..N /\ n - 1 \notin Bad
    <3>1. n \in 0..N
      BY <2>2
    <3>2. n \in 1..N /\ n - 1 \in 0..N
      BY <3>1, <2>3, <1>0
    <3>3. n - 1 \notin Bad
      <4> HIDE DEF Bad
      <4> QED BY <2>2, <3>2, <1>0
    <3> QED BY <3>2, <3>3
  <2>5. PICK g \in [0..(n - 1) -> Mappers] : Chain(g, n - 1)
    BY <2>4
  <2> DEFINE last == MapRemote(g[n - 1], events[n])
             h == [i \in 0..n |-> IF i < n THEN g[i] ELSE last]
  <2>6. g[n - 1] \in Mappers /\ last \in Mappers
    <3>1. g[n - 1] \in Mappers /\ events[n] \in Event
      BY <2>4, <2>5, <1>0
    <3> QED BY <3>1, MapRemoteType
  <2> HIDE DEF last
  <2>7. h \in [0..n -> Mappers]
    BY <2>4, <2>5, <2>6, <1>0
  <2>8. Chain(h, n)
    <3>1. h[0] = m
      BY <2>4, <2>5, <1>0
    <3>2. ASSUME NEW i \in 1..n PROVE h[i] = MapRemote(h[i - 1], events[i])
      <4>1. CASE i = n
        <5>1. h[n] = last /\ h[n - 1] = g[n - 1]
          BY <2>4, <1>0
        <5> QED BY <4>1, <5>1 DEF last
      <4>2. CASE i # n
        <5>1. i \in 1..(n - 1) /\ i < n /\ i - 1 < n /\ i \in 0..n /\ i - 1 \in 0..n
          BY <4>2, <2>4, <1>0
        <5>2. h[i] = g[i] /\ h[i - 1] = g[i - 1]
          BY <5>1
        <5> QED BY <5>1, <5>2, <2>5
      <4> QED BY <4>1, <4>2
    <3> QED BY <3>1, <3>2
  <2> QED BY <2>2, <2>7, <2>8
<1>2. PICK g \in [0..N -> Mappers] : Chain(g, N)
  <2>1. N \in 0..N
    BY <1>0
  <2> QED BY <1>1, <2>1
<1> DEFINE Eq(f) == f = [i \in 0..N |-> IF i = 0 THEN m ELSE MapRemote(f[i - 1], events[i])]
           p == CHOOSE f : Eq(f)
<1>3. Eq(g)
  <2>1. ASSUME NEW i \in 0..N PROVE g[i] = IF i = 0 THEN m ELSE MapRemote(g[i - 1], events[i])
    <3>1. i = 0 \/ i \in 1..N
      BY <1>0
    <3> QED BY <3>1, <1>2, <1>0
  <2> QED BY <2>1, <1>2
<1>4. Eq(p)
  <2> HIDE DEF Eq
  <2> QED BY <1>3
<1>5. MapAll(m, events) = p[N]
  BY DEF MapAll
<1> HIDE DEF p
<1> DEFINE Odd == {j \in 0..N : p[j] \notin Mappers}
<1>6. Odd = {}
  <2> SUFFICES ASSUME Odd # {} PROVE FALSE
    OBVIOUS
  <2>1. Odd \in SUBSET Nat
    BY <1>0
  <2>2. PICK n \in Odd : \A x \in Odd : n <= x
    <3> HIDE DEF Odd
    <3> QED BY <2>1, Least
  <2>3. n \in 0..N /\ p[n] \notin Mappers
    BY <2>2
  <2>4. p[n] = IF n = 0 THEN m ELSE MapRemote(p[n - 1], events[n])
    BY <1>4, <2>3
  <2>5. n # 0
    BY <2>3, <2>4
  <2>6. n - 1 \in 0..N /\ n - 1 < n /\ n \in 1..N
    BY <2>3, <2>5, <1>0
  <2>7. n - 1 \notin Odd
    <3> HIDE DEF Odd
    <3> QED BY <2>2, <2>3, <2>6, <1>0
  <2>8. p[n - 1] \in Mappers
    BY <2>6, <2>7
  <2>9. MapRemote(p[n - 1], events[n]) \in Mappers
    BY <1>0, <2>6, <2>8, MapRemoteType
  <2> QED BY <2>3, <2>4, <2>5, <2>9
<1>7. p \in [0..N -> Mappers]
  <2>1. p = [i \in 0..N |-> p[i]]
    BY <1>4
  <2> QED BY <1>6, <2>1
<1>8. Runs(p, m, events)
  <2>1. p[0] = m
    BY <1>0, <1>4
  <2>2. ASSUME NEW i \in 1..N PROVE p[i] = MapRemote(p[i - 1], events[i])
    <3>1. i \in 0..N /\ i # 0
      BY <1>0
    <3> QED BY <1>4, <3>1
  <2> HIDE DEF N
  <2> QED BY <2>1, <2>2 DEF Runs, N
<1> QED BY <1>5, <1>7, <1>8

LEMMA MapAllType ==
    ASSUME NEW m \in Mappers, NEW events \in Seq(Event)
    PROVE  MapAll(m, events) \in Mappers
<1>1. PICK p \in [0..Len(events) -> Mappers] : MapAll(m, events) = p[Len(events)]
  BY MapAllRuns
<1>2. Len(events) \in 0..Len(events)
  BY LenProperties
<1> QED BY <1>1, <1>2


\* The recursion has no other solution.
LEMMA MapAllIs ==
    ASSUME NEW m \in Mappers, NEW events \in Seq(Event), NEW q, Runs(q, m, events)
    PROVE  MapAll(m, events) = q[Len(events)]
<1> DEFINE N == Len(events)
<1>0. N \in Nat
  BY LenProperties
<1>1. PICK p \in [0..N -> Mappers] : Runs(p, m, events) /\ MapAll(m, events) = p[N]
  BY MapAllRuns
<1> DEFINE Odd == {j \in 0..N : p[j] # q[j]}
<1>2. Odd = {}
  <2> SUFFICES ASSUME Odd # {} PROVE FALSE
    OBVIOUS
  <2>1. Odd \in SUBSET Nat
    BY <1>0
  <2>2. PICK n \in Odd : \A x \in Odd : n <= x
    <3> HIDE DEF Odd
    <3> QED BY <2>1, Least
  <2>3. n \in 0..N /\ p[n] # q[n]
    BY <2>2
  <2>4. n # 0
    BY <1>1, <2>3 DEF Runs
  <2>5. n \in 1..N /\ n - 1 \in 0..N /\ n - 1 < n
    BY <1>0, <2>3, <2>4
  <2>6. n - 1 \notin Odd
    <3> HIDE DEF Odd
    <3> QED BY <1>0, <2>2, <2>3, <2>5
  <2>7. p[n - 1] = q[n - 1]
    BY <2>5, <2>6
  <2> QED BY <1>1, <2>3, <2>5, <2>7 DEF Runs
<1>3. N \in 0..N
  BY <1>0
<1> QED BY <1>1, <1>2, <1>3

\* What becomes of the native sources with the first events only.
LEMMA MapAllPrefix ==
    ASSUME NEW m \in Mappers, NEW events \in Seq(Event), NEW q, Runs(q, m, events),
           NEW i \in 0..Len(events)
    PROVE  /\ MapAll(m, SubSeq(events, 1, i)) = q[i] /\ SubSeq(events, 1, i) \in Seq(Event)
           /\ Runs(q, m, SubSeq(events, 1, i)) /\ Len(SubSeq(events, 1, i)) = i
           /\ \A j \in 1..i : SubSeq(events, 1, i)[j] = events[j]
<1> DEFINE part == SubSeq(events, 1, i)
<1>0. Len(events) \in Nat /\ i \in Nat /\ i <= Len(events) /\ \A j \in 1..Len(events) : events[j] \in Event
  BY LenProperties, ElementOfSeq
<1>1. /\ part \in Seq(Event) /\ Len(part) = i
      /\ \A j \in 1..i : part[j] = events[j]
  <2>1. \A j \in 1..i : events[j] \in Event
    BY <1>0
  <2>2. /\ part \in Seq(Event)
        /\ Len(part) = (IF 1 <= i THEN i - 1 + 1 ELSE 0)
        /\ \A j \in 1..(i - 1 + 1) : part[j] = events[1 + j - 1]
    BY <1>0, <2>1, SubSeqProperties
  <2> HIDE DEF part
  <2>3. Len(part) = i
    BY <1>0, <2>2
  <2>4. ASSUME NEW j \in 1..i PROVE part[j] = events[j]
    <3>1. i - 1 + 1 = i /\ 1 + j - 1 = j
      BY <1>0
    <3> QED BY <2>2, <3>1
  <2> QED BY <2>2, <2>3, <2>4
<1> HIDE DEF part
<1>2. Runs(q, m, part)
  <2>1. ASSUME NEW j \in 1..i PROVE q[j] = MapRemote(q[j - 1], part[j])
    <3>1. j \in 1..Len(events)
      BY <1>0
    <3> QED BY <1>1, <3>1 DEF Runs
  <2> QED BY <1>1, <2>1 DEF Runs
<1>3. MapAll(m, part) = q[i]
  BY <1>1, <1>2, MapAllIs
<1> QED BY <1>1, <1>2, <1>3 DEF part

\* Whether the mapper can place all the events.
LEMMA MapsAllIs ==
    ASSUME NEW m \in Mappers, NEW events \in Seq(Event), NEW q, Runs(q, m, events)
    PROVE  MapsAll(m, events) <=> \A i \in 1..Len(events) : MapsRemote(q[i - 1], events[i])
<1>0. Len(events) \in Nat
  BY LenProperties
<1>1. ASSUME NEW i \in 1..Len(events) PROVE MapAll(m, SubSeq(events, 1, i - 1)) = q[i - 1]
  <2>1. i - 1 \in 0..Len(events)
    BY <1>0
  <2> QED BY <2>1, MapAllPrefix
<1> QED BY <1>1 DEF MapsAll

\* A mapper that can place all the events can place the first of them.
LEMMA MapsPrefix ==
    ASSUME NEW m \in Mappers, NEW events \in Seq(Event), MapsAll(m, events), NEW n \in 0..Len(events)
    PROVE  MapsAll(m, SubSeq(events, 1, n))
<1>0. Len(events) \in Nat
  BY LenProperties
<1>1. PICK q \in [0..Len(events) -> Mappers] : Runs(q, m, events)
  BY MapAllRuns
<1>2. PICK part : part = SubSeq(events, 1, n)
  OBVIOUS
<1>3. /\ part \in Seq(Event) /\ Runs(q, m, part) /\ Len(part) = n
      /\ \A j \in 1..n : part[j] = events[j]
  BY <1>1, <1>2, MapAllPrefix
<1>4. \A i \in 1..Len(events) : MapsRemote(q[i - 1], events[i])
  BY <1>1, MapsAllIs
<1>5. ASSUME NEW i \in 1..Len(part) PROVE MapsRemote(q[i - 1], part[i])
  <2>1. i \in 1..n /\ i \in 1..Len(events)
    BY <1>0, <1>3
  <2> QED BY <1>3, <1>4, <2>1
<1>6. MapsAll(m, part)
  BY <1>3, <1>5, MapsAllIs
<1> QED BY <1>2, <1>6

\* Without events nothing changes.
LEMMA MapNone ==
    ASSUME NEW m \in Mappers
    PROVE  MapAll(m, <<>>) = m /\ MapsAll(m, <<>>)
<1>0. <<>> \in Seq(Event) /\ Len(<<>>) = 0
  OBVIOUS
<1>1. PICK e : e = <<>> /\ e \in Seq(Event) /\ Len(e) = 0
  BY <1>0
<1>2. PICK q : q = [i \in 0..0 |-> m]
  OBVIOUS
<1>3. Runs(q, m, e)
  BY <1>1, <1>2 DEF Runs
<1>4. MapAll(m, e) = q[0]
  BY <1>1, <1>3, MapAllIs
<1>5. MapsAll(m, e)
  BY <1>1 DEF MapsAll
<1> QED BY <1>1, <1>2, <1>4, <1>5

\* Events in two parts.
LEMMA MapConcat ==
    ASSUME NEW m \in Mappers, NEW a \in Seq(Event), NEW b \in Seq(Event)
    PROVE  /\ MapAll(m, a \o b) = MapAll(MapAll(m, a), b)
           /\ MapsAll(m, a) /\ MapsAll(MapAll(m, a), b) => MapsAll(m, a \o b)
<1> DEFINE M == Len(a)
           N == Len(b)
<1>0. M \in Nat /\ N \in Nat
  BY LenProperties
<1>1. PICK mid \in Mappers : mid = MapAll(m, a)
  BY MapAllType
<1>2. PICK p \in [0..M -> Mappers] : Runs(p, m, a) /\ mid = p[M]
  BY <1>1, MapAllRuns
<1>3. PICK q \in [0..N -> Mappers] : Runs(q, mid, b) /\ MapAll(mid, b) = q[N]
  BY MapAllRuns
<1>4. PICK c : c = a \o b
  OBVIOUS
<1>5. /\ c \in Seq(Event) /\ Len(c) = M + N
      /\ \A i \in 1..(M + N) : c[i] = IF i <= M THEN a[i] ELSE b[i - M]
  BY <1>4, ConcatProperties
<1> HIDE DEF M, N
<1>6. PICK h : h = [i \in 0..(M + N) |-> IF i <= M THEN p[i] ELSE q[i - M]]
  OBVIOUS
<1>7. (\A i \in 0..M : h[i] = p[i]) /\ (\A i \in 0..N : h[M + i] = q[i])
  <2>1. ASSUME NEW i \in 0..M PROVE h[i] = p[i]
    BY <1>0, <1>6
  <2>2. ASSUME NEW i \in 0..N PROVE h[M + i] = q[i]
    <3>1. CASE i = 0
      <4>1. h[M] = p[M] /\ M + i = M
        BY <1>0, <2>1, <3>1
      <4> QED BY <1>2, <1>3, <3>1, <4>1 DEF Runs
    <3>2. CASE i # 0
      <4>1. PICK j : j = M + i
        OBVIOUS
      <4>2. j \in 0..(M + N) /\ ~(j <= M) /\ j - M = i
        BY <1>0, <3>2, <4>1
      <4>3. h[j] = q[j - M]
        BY <1>6, <4>2
      <4> QED BY <4>1, <4>2, <4>3
    <3> QED BY <3>1, <3>2
  <2> QED BY <2>1, <2>2
<1>8. ASSUME NEW i \in 1..(M + N)
      PROVE  \/ i \in 1..M /\ c[i] = a[i] /\ h[i] = p[i] /\ h[i - 1] = p[i - 1]
             \/ /\ i - M \in 1..N /\ c[i] = b[i - M] /\ h[i] = q[i - M]
                /\ h[i - 1] = q[i - M - 1]
  <2>1. CASE i <= M
    <3>1. i \in 1..M /\ i \in 0..M /\ i - 1 \in 0..M
      BY <1>0, <2>1
    <3> QED BY <1>5, <1>7, <2>1, <3>1
  <2>2. CASE ~(i <= M)
    <3>1. PICK j \in 1..N : j = i - M
      BY <1>0, <2>2
    <3>2. j \in 0..N /\ j - 1 \in 0..N /\ i = M + j /\ i - 1 = M + (j - 1)
      BY <1>0, <3>1
    <3>3. h[i] = q[j] /\ h[i - 1] = q[j - 1]
      BY <1>7, <3>2
    <3> QED BY <1>5, <2>2, <3>1, <3>3
  <2> QED BY <2>1, <2>2
<1>9. Runs(h, m, c)
  <2>1. h[0] = m
    <3>1. 0 \in 0..M
      BY <1>0
    <3> QED BY <1>2, <1>7, <3>1 DEF Runs
  <2>2. ASSUME NEW i \in 1..(M + N) PROVE h[i] = MapRemote(h[i - 1], c[i])
    BY <1>2, <1>3, <1>8 DEF Runs, M, N
  <2> QED BY <1>5, <2>1, <2>2 DEF Runs
<1>10. MapAll(m, c) = h[M + N]
  BY <1>5, <1>9, MapAllIs
<1>11. h[M + N] = q[N]
  <2>1. N \in 0..N
    BY <1>0
  <2> QED BY <1>7, <2>1
<1>12. MapsAll(m, a) /\ MapsAll(mid, b) => MapsAll(m, c)
  <2> SUFFICES ASSUME MapsAll(m, a), MapsAll(mid, b) PROVE MapsAll(m, c)
    OBVIOUS
  <2>1. \A i \in 1..M : MapsRemote(p[i - 1], a[i])
    BY <1>2, MapsAllIs DEF M
  <2>2. \A i \in 1..N : MapsRemote(q[i - 1], b[i])
    BY <1>3, MapsAllIs DEF N
  <2>3. ASSUME NEW i \in 1..(M + N) PROVE MapsRemote(h[i - 1], c[i])
    BY <1>8, <2>1, <2>2
  <2>4. MapsAll(m, c) <=> \A i \in 1..Len(c) : MapsRemote(h[i - 1], c[i])
    BY <1>5, <1>9, MapsAllIs
  <2> QED BY <1>5, <2>3, <2>4
<1> QED BY <1>1, <1>3, <1>4, <1>10, <1>11, <1>12

\* What one event does.
LEMMA MapRemoteIs ==
    ASSUME NEW m \in Mappers, NEW e \in Event
    PROVE  /\ MapRemote(m, e).remote[e.key] = IF e.kind = "Disconnected" THEN "absent"
                                              ELSE IF e.held THEN "held" ELSE "neutral"
           /\ \A k \in Remotes : k # e.key => MapRemote(m, e).remote[k] = m.remote[k]
<1>1. m.remote \in [Remotes -> {"absent", "neutral", "held"}] /\ e.key \in Remotes
  BY DEF Mappers, Event
<1>2. PICK x : x = IF e.kind = "Disconnected" THEN "absent" ELSE IF e.held THEN "held" ELSE "neutral"
  OBVIOUS
<1>3. MapRemote(m, e) = [m EXCEPT !.remote = [m.remote EXCEPT ![e.key] = x]]
  BY <1>2 DEF MapRemote
<1>4. MapRemote(m, e).remote = [m.remote EXCEPT ![e.key] = x]
  BY <1>3 DEF Mappers
<1> QED BY <1>1, <1>2, <1>4

\* One event.
LEMMA MapOne ==
    ASSUME NEW m \in Mappers, NEW e \in Event
    PROVE  MapAll(m, <<e>>) = MapRemote(m, e) /\ (MapsRemote(m, e) => MapsAll(m, <<e>>))
<1>0. <<e>> \in Seq(Event) /\ Len(<<e>>) = 1 /\ <<e>>[1] = e
  OBVIOUS
<1>1. PICK s : s = <<e>> /\ s \in Seq(Event) /\ Len(s) = 1 /\ s[1] = e
  BY <1>0
<1>2. PICK q : q = [i \in 0..1 |-> IF i = 0 THEN m ELSE MapRemote(m, e)]
  OBVIOUS
<1>3. q[0] = m /\ q[1] = MapRemote(m, e)
  BY <1>2
<1>4. ASSUME NEW i \in 1..Len(s) PROVE i = 1 /\ i - 1 = 0
  BY <1>1
<1>5. Runs(q, m, s)
  BY <1>1, <1>3, <1>4 DEF Runs
<1>6. MapAll(m, s) = q[1]
  BY <1>1, <1>5, MapAllIs
<1>7. MapsRemote(m, e) => MapsAll(m, s)
  <2>1. MapsAll(m, s) <=> \A i \in 1..Len(s) : MapsRemote(q[i - 1], s[i])
    BY <1>1, <1>5, MapsAllIs
  <2>2. ASSUME NEW i \in 1..Len(s) PROVE q[i - 1] = m /\ s[i] = e
    BY <1>1, <1>3, <1>4
  <2> QED BY <2>1, <2>2
<1> QED BY <1>1, <1>3, <1>6, <1>7

\* Controllers that go: the mapper can place that at any time.
LEMMA MapGone ==
    ASSUME NEW m \in Mappers, NEW events \in Seq(Event),
           \A i \in 1..Len(events) : events[i].kind = "Disconnected"
    PROVE  /\ MapsAll(m, events)
           /\ \A k \in Remotes : MapAll(m, events).remote[k] =
                IF \E i \in 1..Len(events) : events[i].key = k THEN "absent" ELSE m.remote[k]
<1> DEFINE N == Len(events)
<1>0. N \in Nat /\ \A i \in 1..N : events[i] \in Event
  BY LenProperties, ElementOfSeq
<1>1. PICK p \in [0..N -> Mappers] : Runs(p, m, events) /\ MapAll(m, events) = p[N]
  BY MapAllRuns
<1>2. MapsAll(m, events)
  <2>1. \A i \in 1..N : MapsRemote(p[i - 1], events[i])
    BY DEF MapsRemote
  <2> QED BY <1>1, <2>1, MapsAllIs
<1> DEFINE Right(n) == \A k \in Remotes :
              p[n].remote[k] = IF \E i \in 1..n : events[i].key = k THEN "absent" ELSE m.remote[k]
           Odd == {n \in 0..N : ~Right(n)}
<1>3. Odd = {}
  <2> SUFFICES ASSUME Odd # {} PROVE FALSE
    OBVIOUS
  <2>1. Odd \in SUBSET Nat
    BY <1>0
  <2>2. PICK n \in Odd : \A x \in Odd : n <= x
    <3> HIDE DEF Odd
    <3> QED BY <2>1, Least
  <2>3. n \in 0..N /\ ~Right(n)
    BY <2>2
  <2>4. n # 0
    <3> SUFFICES ASSUME n = 0 PROVE FALSE
      OBVIOUS
    <3>1. p[0] = m
      BY <1>1 DEF Runs
    <3> QED BY <2>3, <3>1
  <2>5. n \in 1..N /\ n - 1 \in 0..N /\ n - 1 < n
    BY <1>0, <2>3, <2>4
  <2>6. n - 1 \notin Odd
    <3> HIDE DEF Odd
    <3> QED BY <1>0, <2>2, <2>3, <2>5
  <2>7. Right(n - 1)
    BY <2>5, <2>6
  <2>8. p[n] = MapRemote(p[n - 1], events[n]) /\ p[n - 1] \in Mappers /\ events[n] \in Event
    BY <1>0, <1>1, <2>5 DEF Runs
  <2>9. /\ p[n].remote[events[n].key] = "absent"
        /\ \A k \in Remotes : k # events[n].key => p[n].remote[k] = p[n - 1].remote[k]
    BY <2>5, <2>8, MapRemoteIs
  <2>10. \A i : i \in 1..n <=> i \in 1..(n - 1) \/ i = n
    BY <1>0, <2>5
  <2>11. Right(n)
    <3> SUFFICES ASSUME NEW k \in Remotes
                 PROVE  p[n].remote[k] = IF \E i \in 1..n : events[i].key = k THEN "absent" ELSE m.remote[k]
      OBVIOUS
    <3>1. CASE k = events[n].key
      <4>1. \E i \in 1..n : events[i].key = k
        BY <2>10, <3>1
      <4> QED BY <2>9, <3>1, <4>1
    <3>2. CASE k # events[n].key
      <4>1. (\E i \in 1..n : events[i].key = k) <=> \E i \in 1..(n - 1) : events[i].key = k
        BY <2>10, <3>2
      <4>2. p[n].remote[k] = p[n - 1].remote[k]
        BY <2>9, <3>2
      <4> QED BY <2>7, <4>1, <4>2
    <3> QED BY <3>1, <3>2
  <2> QED BY <2>3, <2>11
<1>4. Right(N)
  <2>1. N \in 0..N
    BY <1>0
  <2> QED BY <1>3, <2>1
<1> QED BY <1>1, <1>2, <1>4

-----------------------------------------------------------------------------
(* The pool and the runtime.                                                 *)

\* The fields of a runtime.
LEMMA RuntimeFields ==
    ASSUME NEW r \in Runtime
    PROVE  /\ r.count \in Slots /\ r.held \subseteq Slots
           /\ r.session \in Launches \cup {None} /\ r.order \in Orders
           /\ r.mirror \in Launches \cup {None}
           /\ r.route \in BOOLEAN /\ r.recovery \in BOOLEAN /\ r.overflow \in BOOLEAN
           /\ r.feedback \in Seq(Event)
           /\ r.seat \in [Slots -> Seats] /\ r.src \in [Keys -> Sources]
           /\ \A s \in Slots : r.seat[s].key \in Keys \cup {None} /\ r.seat[s].on \in BOOLEAN
           /\ \A k \in Keys : /\ r.src[k].known \in BOOLEAN /\ r.src[k].held \in BOOLEAN
                              /\ r.src[k].has \in BOOLEAN /\ r.src[k].rearm \in BOOLEAN
<1>1. /\ r.count \in Slots /\ r.held \subseteq Slots
      /\ r.session \in Launches \cup {None} /\ r.order \in Orders
      /\ r.mirror \in Launches \cup {None}
      /\ r.route \in BOOLEAN /\ r.recovery \in BOOLEAN /\ r.overflow \in BOOLEAN
      /\ r.feedback \in Seq(Event)
      /\ r.seat \in [Slots -> Seats] /\ r.src \in [Keys -> Sources]
  BY DEF Runtime
<1> QED BY <1>1 DEF Seats, Sources

(* The parts of a runtime that the seats, the sources and the route are.      *)
Same(r, d) == /\ d.count = r.count /\ d.session = r.session /\ d.order = r.order
              /\ d.mirror = r.mirror /\ d.route = r.route /\ d.recovery = r.recovery

Put(r, d, s, k) == d = [r EXCEPT !.seat[s] = [key |-> k, on |-> TRUE],
                                 !.held = IF r.seat[s].on THEN @ ELSE @ \ {s}]

\* What follows for the parts of d.
Placed(r, d, s, k) ==
    /\ d \in Runtime /\ Same(r, d) /\ d.src = r.src
    /\ d.feedback = r.feedback /\ d.overflow = r.overflow
    /\ d.seat[s].key = k /\ d.seat[s].on = TRUE
    /\ \A t \in Slots : t # s => d.seat[t] = r.seat[t]
    /\ d.held = IF r.seat[s].on THEN r.held ELSE r.held \ {s}

\* A seat given to a source: what connect changes and what it leaves.
LEMMA PutFields ==
    ASSUME NEW r \in Runtime, NEW s \in Slots, NEW k \in Keys, NEW d, Put(r, d, s, k)
    PROVE  Placed(r, d, s, k)
<1>1. [key |-> k, on |-> TRUE] \in Seats
  BY DEF Seats
<1> DEFINE seat == [r.seat EXCEPT ![s] = [key |-> k, on |-> TRUE]]
           held == IF r.seat[s].on THEN r.held ELSE r.held \ {s}
<1>2. seat \in [Slots -> Seats] /\ held \subseteq Slots
  BY <1>1, RuntimeFields
<1>3. d = [r EXCEPT !.seat = seat, !.held = held]
  BY DEF Put
<1>4. seat[s].key = k /\ seat[s].on = TRUE /\ \A t \in Slots : t # s => seat[t] = r.seat[t]
  BY RuntimeFields
<1> HIDE DEF seat, held
<1>5. d \in Runtime /\ d.seat = seat /\ d.held = held /\ d.src = r.src
  BY <1>2, <1>3 DEF Runtime
<1>6. Same(r, d) /\ d.feedback = r.feedback /\ d.overflow = r.overflow
  BY <1>3 DEF Runtime, Same
<1> QED BY <1>4, <1>5, <1>6 DEF held, Placed

\* SeatPool::connect finds the source's own seat, the first free one, or none.
LEMMA ConnectCases ==
    ASSUME NEW r \in Runtime, NEW k \in Keys
    PROVE  \/ Connect(r, k) = r /\ ~Bound(r, k) /\ Free(r) = {}
           \/ \E s \in Slots : /\ Put(r, Connect(r, k), s, k)
                               /\ r.seat[s].key = k \/ (r.seat[s].key = None /\ s <= r.count /\ ~Bound(r, k))
<1>0. None \notin Keys /\ Slots \subseteq Nat /\ r.count \in Nat
  BY SeatConstants, RuntimeFields DEF Slots
<1>1. CASE Bound(r, k)
  <2>1. SlotOf(r, k) \in Slots /\ r.seat[SlotOf(r, k)].key = k
    BY <1>1 DEF Bound, SlotOf
  <2>2. Put(r, Connect(r, k), SlotOf(r, k), k)
    BY <1>1 DEF Connect, Put
  <2> QED BY <2>1, <2>2
<1>2. CASE ~Bound(r, k) /\ Free(r) # {}
  <2>1. Free(r) \in SUBSET Nat
    BY <1>0 DEF Free
  <2>2. \E n \in Free(r) : \A m \in Free(r) : n <= m
    BY <1>2, <2>1, Least
  <2>3. FirstFree(r) \in Free(r)
    BY <2>2 DEF FirstFree
  <2>4. FirstFree(r) \in Slots /\ r.seat[FirstFree(r)].key = None /\ FirstFree(r) <= r.count
    BY <2>3, RuntimeFields, SeatConstants DEF Free, Slots
  <2>5. Put(r, Connect(r, k), FirstFree(r), k)
    BY <1>2 DEF Connect, Put
  <2> QED BY <1>2, <2>4, <2>5
<1>3. CASE ~Bound(r, k) /\ Free(r) = {}
  BY <1>3 DEF Connect
<1> QED BY <1>1, <1>2, <1>3

(* A step about one source k, which is there afterwards.                      *)
Touched(r, d, k, P) ==
    /\ d \in Runtime /\ Same(r, d)
    /\ \A j \in Keys : j # k => d.src[j] = r.src[j]
    /\ d.src[k].known
    /\ ~d.src[k].rearm => d.src[k].has /\ (r.route /\ d.src[k].held => k \in P)
    /\ \A s \in Slots : \/ d.seat[s] = r.seat[s]
                        \/ /\ d.seat[s].key = k
                           /\ \/ r.seat[s].key = k
                              \/ r.seat[s].key = None /\ s <= r.count
    /\ \A s, t \in Slots : d.seat[s].key = k /\ d.seat[t].key = k => s = t
    /\ \A s \in Slots : d.seat[s].key = k => d.seat[s].on
    /\ \A s \in d.held : \/ s \in r.held /\ d.seat[s].key # k
                         \/ /\ d.seat[s].key = k /\ k \in P
                            /\ r.route /\ d.src[k].held /\ ~d.src[k].rearm

\* A step about one source keeps the runtime good.
LEMMA TouchedGood ==
    ASSUME NEW r, NEW d, NEW k \in Keys, NEW P, Good(r, P), Touched(r, d, k, P),
           ~r.recovery, k \in Remotes => k[1] = r.mirror, k \notin Guests
    PROVE  /\ Good(d, P) /\ Keeps(r, d)
           /\ Full(r) /\ (Free(r) # {} /\ ~FirstPress(r) => Bound(d, k)) => Full(d)
<1>0. r \in Runtime /\ d \in Runtime /\ Same(r, d) /\ None \notin Keys
  BY SeatConstants DEF Good, Touched
<1>r. /\ r.held \subseteq Slots /\ d.held \subseteq Slots
      /\ \A s \in Slots : /\ r.seat[s].key \in Keys \cup {None} /\ d.seat[s].key \in Keys \cup {None}
                          /\ r.seat[s].on \in BOOLEAN /\ d.seat[s].on \in BOOLEAN
  BY <1>0, RuntimeFields
<1>1. Seated(d)
  <2>1. ASSUME NEW s \in Slots, NEW t \in Slots, d.seat[s].key = d.seat[t].key, d.seat[s].key # None
        PROVE  s = t
    <3>1. CASE d.seat[s].key = k
      BY <2>1, <3>1 DEF Touched
    <3>2. CASE d.seat[s].key # k
      <4>1. d.seat[s] = r.seat[s] /\ d.seat[t] = r.seat[t]
        BY <2>1, <3>2 DEF Touched
      <4> QED BY <2>1, <4>1 DEF Good, Seated
    <3> QED BY <3>1, <3>2
  <2>2. ASSUME NEW s \in Slots, d.seat[s].key # None
        PROVE  s <= d.count /\ (d.seat[s].on <=> d.src[d.seat[s].key].known)
    <3>1. CASE d.seat[s].key = k
      <4>1. d.seat[s].on /\ d.src[k].known
        BY <3>1 DEF Touched
      <4>2. s <= r.count
        BY <2>2, <3>1 DEF Touched, Good, Seated
      <4> QED BY <1>0, <3>1, <4>1, <4>2 DEF Same
    <3>2. CASE d.seat[s].key # k
      <4>1. d.seat[s] = r.seat[s]
        BY <3>2 DEF Touched
      <4>2. d.src[d.seat[s].key] = r.src[r.seat[s].key]
        BY <1>r, <2>2, <3>2, <4>1 DEF Touched
      <4> QED BY <1>0, <2>2, <4>1, <4>2 DEF Same, Good, Seated
    <3> QED BY <3>1, <3>2
  <2>3. ASSUME NEW s \in Slots, d.seat[s].key = None PROVE ~d.seat[s].on
    <3>1. d.seat[s] = r.seat[s]
      BY <1>0, <2>3 DEF Touched
    <3> QED BY <2>3, <3>1 DEF Good, Seated
  <2> QED BY <2>1, <2>2, <2>3 DEF Seated
<1>2. Armed(d, P)
  <2> SUFFICES ASSUME NEW j \in Keys, d.src[j].known, ~d.src[j].rearm
               PROVE  d.src[j].has /\ (d.route /\ d.src[j].held => j \in P)
    BY DEF Armed
  <2>1. CASE j = k
    BY <1>0, <2>1 DEF Touched, Same
  <2>2. CASE j # k
    <3>1. d.src[j] = r.src[j]
      BY <2>2 DEF Touched
    <3> QED BY <1>0, <3>1 DEF Same, Good, Armed
  <2> QED BY <2>1, <2>2
<1>3. HeldOk(d, P)
  <2> SUFFICES ASSUME NEW s \in d.held
               PROVE  /\ d.route /\ d.seat[s].on /\ d.seat[s].key \in P
                      /\ d.src[d.seat[s].key].held /\ ~d.src[d.seat[s].key].rearm
    BY DEF HeldOk
  <2>1. CASE d.seat[s].key = k
    BY <1>0, <1>r, <2>1 DEF Touched, Same
  <2>2. CASE d.seat[s].key # k
    <3>1. d.seat[s] = r.seat[s] /\ s \in r.held
      BY <1>r, <2>2 DEF Touched
    <3>2. /\ r.route /\ r.seat[s].on /\ r.seat[s].key \in P
          /\ r.src[r.seat[s].key].held /\ ~r.src[r.seat[s].key].rearm
      BY <3>1 DEF Good, HeldOk
    <3>3. r.seat[s].key \in Keys
      BY <1>r, <3>1, <3>2 DEF Good, Seated
    <3>4. d.src[d.seat[s].key] = r.src[r.seat[s].key]
      BY <2>2, <3>1, <3>3 DEF Touched
    <3> QED BY <1>0, <3>1, <3>2, <3>4 DEF Same
  <2> QED BY <2>1, <2>2
<1>k. \A j \in Known(d) : j = k \/ j \in Known(r)
  BY DEF Known, Touched
<1>4. Silent(d) /\ Mirrored(d)
  BY <1>0, <1>k DEF Same, Silent, Mirrored, Good
<1>5. Keeps(r, d)
  BY <1>0 DEF Keeps, Touched
<1>6. ASSUME Full(r), Free(r) # {} /\ ~FirstPress(r) => Bound(d, k) PROVE Full(d)
  <2> SUFFICES ASSUME Free(d) # {}, ~FirstPress(d), NEW j \in Known(d) PROVE Bound(d, j)
    BY DEF Full
  <2>1. ~FirstPress(r)
    BY <1>0 DEF FirstPress, Same
  <2>2. Free(r) # {}
    <3>1. PICK s \in 1..d.count : d.seat[s].key = None
      BY DEF Free
    <3>2. s \in Slots
      BY <1>0, <3>1, RuntimeFields, SeatConstants DEF Slots
    <3>3. r.seat[s].key = None
      BY <1>0, <3>1, <3>2 DEF Touched
    <3> QED BY <1>0, <3>1, <3>3 DEF Free, Same
  <2>3. CASE j = k
    BY <1>6, <2>1, <2>2, <2>3
  <2>4. CASE j # k
    <3>1. j \in Known(r) /\ Bound(r, j)
      BY <1>6, <1>k, <2>1, <2>2, <2>4 DEF Full
    <3>2. PICK s \in Slots : r.seat[s].key = j
      BY <3>1 DEF Bound
    <3>3. j # None /\ d.seat[s] = r.seat[s]
      BY <1>0, <2>4, <3>1, <3>2 DEF Touched, Known
    <3> QED BY <3>2, <3>3 DEF Bound
  <2> QED BY <2>3, <2>4
<1> QED BY <1>0, <1>1, <1>2, <1>3, <1>4, <1>5, <1>6 DEF Good

(* The source k is new in d.                                                  *)
Joined(r, d, k, P, held, has, rearm) ==
    /\ Good(d, P) /\ Keeps(r, d) /\ Same(r, d)
    /\ d.feedback = r.feedback /\ d.overflow = r.overflow
    /\ \A j \in Keys : j # k => d.src[j] = r.src[j]
    /\ d.src[k].known /\ d.src[k].held = held /\ d.src[k].has = has /\ d.src[k].rearm = rearm
    /\ Full(r) => Full(d)

\* SeatRuntime::connect_source: a source that comes back finds its seat, a new
\* one takes a free seat; what it held before does not count.
LEMMA ConnectSourceGood ==
    ASSUME NEW r, NEW P, Good(r, P), NEW k \in Keys, NEW held \in BOOLEAN, NEW has \in BOOLEAN,
           ~r.src[k].known, ~r.recovery, k \in Remotes => k[1] = r.mirror, k \notin Guests,
           NEW rearm \in BOOLEAN, rearm \/ (has /\ ~held),
           NEW e, \/ e = [ConnectSource(r, k, held, has) EXCEPT !.src[k].rearm = rearm]
                  \/ rearm = TRUE /\ e = ConnectSource(r, k, held, has)
    PROVE  Joined(r, e, k, P, held, has, rearm)
<1> DEFINE seated == IF FirstPress(r) /\ ~Bound(r, k) THEN r ELSE Connect(r, k)
           source == [known |-> TRUE, held |-> held, has |-> has, rearm |-> TRUE]
           armed  == [source EXCEPT !.rearm = rearm]
           c == [seated EXCEPT !.src[k] = source]
           d == [c EXCEPT !.src[k].rearm = rearm]
<1>0. r \in Runtime /\ None \notin Keys
  BY SeatConstants DEF Good
<1>r. /\ r.held \subseteq Slots
      /\ \A s \in Slots : r.seat[s].key \in Keys \cup {None} /\ r.seat[s].on \in BOOLEAN
  BY <1>0, RuntimeFields
<1>o. \A s \in Slots : r.seat[s].key = k => ~r.seat[s].on /\ s \notin r.held
  BY <1>0 DEF Good, Seated, HeldOk
<1>1. /\ seated \in Runtime /\ Same(r, seated) /\ seated.src = r.src
      /\ seated.feedback = r.feedback /\ seated.overflow = r.overflow
      /\ \A s \in Slots : \/ seated.seat[s] = r.seat[s]
                          \/ /\ seated.seat[s].key = k /\ s \notin seated.held
                             /\ \/ r.seat[s].key = k
                                \/ r.seat[s].key = None /\ s <= r.count
      /\ \A s, t \in Slots : seated.seat[s].key = k /\ seated.seat[t].key = k => s = t
      /\ \A s \in Slots : seated.seat[s].key = k => seated.seat[s].on /\ s \notin seated.held
      /\ seated.held \subseteq r.held
      /\ Free(r) # {} /\ ~FirstPress(r) => Bound(seated, k)
  <2>1. CASE seated = r
    <3>1. (~Bound(r, k) /\ (FirstPress(r) \/ Free(r) = {})) \/ (\E s \in Slots : Put(r, r, s, k) /\ r.seat[s].key \in {k, None})
      BY <1>0, <2>1, ConnectCases
    <3>2. ~Bound(r, k) /\ (FirstPress(r) \/ Free(r) = {})
      <4>1. ASSUME NEW s \in Slots, Put(r, r, s, k), r.seat[s].key \in {k, None} PROVE FALSE
        <5>0. Placed(r, r, s, k)
          BY <1>0, <4>1, PutFields
        <5>1. r.seat[s].key = k /\ r.seat[s].on = TRUE
          BY <5>0 DEF Placed
        <5> QED BY <1>o, <5>1
      <4> QED BY <3>1, <4>1
    <3>3. \A s \in Slots : r.seat[s].key # k
      BY <3>2 DEF Bound
    <3> QED BY <1>0, <2>1, <3>2, <3>3 DEF Same
  <2>2. CASE seated # r
    <3>1. PICK s \in Slots : /\ Put(r, seated, s, k)
                             /\ r.seat[s].key = k \/ (r.seat[s].key = None /\ s <= r.count /\ ~Bound(r, k))
      BY <1>0, <2>2, ConnectCases
    <3> HIDE DEF seated
    <3>2. ~r.seat[s].on
      BY <1>o, <3>1 DEF Good, Seated
    <3>3. /\ seated \in Runtime /\ Same(r, seated) /\ seated.src = r.src
          /\ seated.feedback = r.feedback /\ seated.overflow = r.overflow
          /\ seated.seat[s].key = k /\ seated.seat[s].on = TRUE
          /\ \A t \in Slots : t # s => seated.seat[t] = r.seat[t]
          /\ seated.held = r.held \ {s}
      <4>1. /\ seated \in Runtime /\ Same(r, seated) /\ seated.src = r.src
            /\ seated.feedback = r.feedback /\ seated.overflow = r.overflow
            /\ seated.seat[s].key = k /\ seated.seat[s].on = TRUE
            /\ \A t \in Slots : t # s => seated.seat[t] = r.seat[t]
            /\ seated.held = IF r.seat[s].on THEN r.held ELSE r.held \ {s}
        <5>1. Placed(r, seated, s, k)
          BY <1>0, <3>1, PutFields
        <5> QED BY <5>1 DEF Placed
      <4> QED BY <3>2, <4>1
    <3>4. \A t \in Slots : t # s => r.seat[t].key # k
      BY <1>0, <3>1 DEF Good, Seated, Bound
    <3>5. Bound(seated, k)
      BY <3>3 DEF Bound
    <3> QED BY <3>1, <3>3, <3>4, <3>5
  <2> QED BY <2>1, <2>2
<1> HIDE DEF seated
<1>2. /\ source \in Sources /\ armed \in Sources
      /\ armed.known = TRUE /\ armed.held = held /\ armed.has = has /\ armed.rearm = rearm
      /\ rearm = TRUE => armed = source
  <2>1. PICK x : x = source
    OBVIOUS
  <2>2. x \in Sources /\ x.known = TRUE /\ x.held = held /\ x.has = has /\ x.rearm = TRUE
    BY <2>1 DEF Sources
  <2> HIDE DEF source
  <2>3. /\ [x EXCEPT !.rearm = rearm] \in Sources
        /\ [x EXCEPT !.rearm = rearm].known = TRUE
        /\ [x EXCEPT !.rearm = rearm].held = held
        /\ [x EXCEPT !.rearm = rearm].has = has
        /\ [x EXCEPT !.rearm = rearm].rearm = rearm
        /\ rearm = TRUE => [x EXCEPT !.rearm = rearm] = x
    BY ONLY <2>2, rearm \in BOOLEAN DEF Sources
  <2>4. armed = [x EXCEPT !.rearm = rearm]
    BY <2>1
  <2> HIDE DEF armed
  <2> QED BY <2>1, <2>2, <2>3, <2>4
<1>3. /\ d = [seated EXCEPT !.src = [r.src EXCEPT ![k] = armed]]
      /\ [r.src EXCEPT ![k] = armed] \in [Keys -> Sources]
      /\ rearm = TRUE => d = c
  <2>1. seated.src = r.src /\ r.src \in [Keys -> Sources]
    BY <1>0, <1>1, RuntimeFields
  <2>2. c = [seated EXCEPT !.src = [r.src EXCEPT ![k] = source]]
    BY <1>1, <2>1
  <2>3. c.src = [r.src EXCEPT ![k] = source]
    BY <1>1, <2>2 DEF Runtime
  <2>4. [c.src EXCEPT ![k].rearm = rearm] = [r.src EXCEPT ![k] = armed]
    <3>1. c.src[k] = source /\ c.src \in [Keys -> Sources]
      BY <1>2, <2>1, <2>3
    <3>2. [c.src[k] EXCEPT !.rearm = rearm] = armed
      BY <3>1
    <3> HIDE DEF c, armed, source
    <3>3. [c.src EXCEPT ![k].rearm = rearm] = [c.src EXCEPT ![k] = armed]
      BY <3>1, <3>2
    <3> QED BY <2>1, <2>3, <3>3
  <2>5. d = [c EXCEPT !.src = [r.src EXCEPT ![k] = armed]]
    BY <2>4
  <2>6. rearm = TRUE => d = c
    <3> SUFFICES ASSUME rearm = TRUE PROVE d = c
      OBVIOUS
    <3>1. armed = source /\ c \in Runtime
      BY <1>1, <1>2, <2>1, <2>2 DEF Runtime
    <3>2. d = [c EXCEPT !.src = c.src]
      BY <2>3, <2>5, <3>1
    <3> HIDE DEF c, d
    <3> QED BY <3>1, <3>2 DEF Runtime
  <2>7. d = [seated EXCEPT !.src = [r.src EXCEPT ![k] = armed]]
    BY <1>1, <1>2, <2>1, <2>2, <2>5 DEF Runtime
  <2> QED BY <1>2, <2>1, <2>6, <2>7
<1> HIDE DEF c, d, armed
<1>4. /\ d \in Runtime /\ Same(seated, d) /\ d.seat = seated.seat /\ d.held = seated.held
      /\ d.src = [r.src EXCEPT ![k] = armed]
      /\ d.feedback = seated.feedback /\ d.overflow = seated.overflow
  BY <1>1, <1>3 DEF Runtime, Same
<1>5. /\ d.src[k] = armed
      /\ \A j \in Keys : j # k => d.src[j] = r.src[j]
  BY <1>0, <1>4, RuntimeFields
<1>6. Touched(r, d, k, P)
  <2>1. d.src[k].known /\ d.src[k].rearm = rearm /\ d.src[k].has = has /\ d.src[k].held = held
    BY <1>2, <1>5
  <2>2. Same(r, d)
    BY <1>1, <1>4 DEF Same
  <2>3. \A s \in d.held : s \in r.held /\ d.seat[s].key # k
    BY <1>1, <1>4, <1>r
  <2>4. /\ \A s \in Slots : \/ d.seat[s] = r.seat[s]
                            \/ /\ d.seat[s].key = k
                               /\ r.seat[s].key = k \/ (r.seat[s].key = None /\ s <= r.count)
        /\ \A s, t \in Slots : d.seat[s].key = k /\ d.seat[t].key = k => s = t
        /\ \A s \in Slots : d.seat[s].key = k => d.seat[s].on
    BY <1>1, <1>4
  <2> QED BY <1>4, <1>5, <2>1, <2>2, <2>3, <2>4 DEF Touched
<1>7. Free(r) # {} /\ ~FirstPress(r) => Bound(d, k)
  BY <1>1, <1>4 DEF Bound
<1>8. Good(d, P) /\ Keeps(r, d) /\ (Full(r) => Full(d))
  BY <1>6, <1>7, TouchedGood
<1>9. /\ d = [ConnectSource(r, k, held, has) EXCEPT !.src[k].rearm = rearm]
      /\ c = ConnectSource(r, k, held, has)
  BY DEF ConnectSource, seated, c, d
<1>10. Same(r, d) /\ d.feedback = r.feedback /\ d.overflow = r.overflow
  BY <1>1, <1>4 DEF Same
<1>11. Joined(r, d, k, P, held, has, rearm)
  BY <1>2, <1>5, <1>8, <1>10 DEF Joined
<1> QED BY <1>3, <1>9, <1>11

(* What an update of a source changes at most.                                *)
Heard(r, d, k, held) ==
    /\ d \in Runtime /\ Same(r, d)
    /\ d.feedback = r.feedback /\ d.overflow = r.overflow
    /\ \A j \in Keys : j # k => d.src[j] = r.src[j]
    /\ d.src[k].known /\ d.src[k].has /\ d.src[k].held = held

(* d is r with the source k as x.                                             *)
Resourced(r, d, k, x) ==
    /\ d \in Runtime /\ Same(r, d) /\ d.seat = r.seat /\ d.held = r.held
    /\ d.feedback = r.feedback /\ d.overflow = r.overflow
    /\ d.src = [r.src EXCEPT ![k] = x]
    /\ d.src[k] = x /\ \A j \in Keys : j # k => d.src[j] = r.src[j]

\* A runtime whose source k has other properties.
LEMMA SourceFields ==
    ASSUME NEW r \in Runtime, NEW k \in Keys, NEW x \in Sources
    PROVE  Resourced(r, [r EXCEPT !.src[k] = x], k, x)
<1> DEFINE d == [r EXCEPT !.src[k] = x]
<1>1. [r.src EXCEPT ![k] = x] \in [Keys -> Sources]
  BY RuntimeFields
<1>2. d = [r EXCEPT !.src = [r.src EXCEPT ![k] = x]]
  OBVIOUS
<1>3. d \in Runtime /\ d.src = [r.src EXCEPT ![k] = x]
  BY <1>1, <1>2 DEF Runtime
<1>4. /\ Same(r, d) /\ d.seat = r.seat /\ d.held = r.held
      /\ d.feedback = r.feedback /\ d.overflow = r.overflow
  BY <1>2 DEF Runtime, Same
<1>5. [r.src EXCEPT ![k] = x][k] = x /\ \A j \in Keys : j # k => [r.src EXCEPT ![k] = x][j] = r.src[j]
  BY RuntimeFields
<1> HIDE DEF d
<1>6. d.src[k] = x /\ \A j \in Keys : j # k => d.src[j] = r.src[j]
  BY <1>3, <1>5
<1> QED BY <1>3, <1>4, <1>6 DEF d, Resourced

\* SeatRuntime::update_source: a press counts only of a source that was released
\* under the present route.
LEMMA UpdateSourceGood ==
    ASSUME NEW r, NEW P, Good(r, P), NEW k \in Keys, NEW held \in BOOLEAN,
           r.src[k].known, r.src[k].has /\ ~r.src[k].held => k \in P
    PROVE  LET d == UpdateSource(r, k, held)
           IN  Good(d, P) /\ Keeps(r, d) /\ Heard(r, d, k, held) /\ (Full(r) => Full(d))
<1> DEFINE old  == r.src[k]
           x    == [old EXCEPT !.held = held, !.has = TRUE]
           seen == [r EXCEPT !.src[k].held = held, !.src[k].has = TRUE]
           y    == [x EXCEPT !.rearm = held]
<1>0. r \in Runtime /\ None \notin Keys /\ old \in Sources
  BY SeatConstants, RuntimeFields DEF Good
<1>g. ~r.recovery /\ (k \in Remotes => k[1] = r.mirror) /\ k \notin Guests
  BY <1>0, RuntimeFields DEF Good, Silent, Mirrored, Known
<1>r. /\ r.held \subseteq Slots /\ r.src \in [Keys -> Sources]
      /\ \A s \in Slots : r.seat[s].key \in Keys \cup {None} /\ r.seat[s].on \in BOOLEAN
  BY <1>0, RuntimeFields
<1>s. /\ \A s \in Slots : r.seat[s].key = k => r.seat[s].on
      /\ \A s, t \in Slots : r.seat[s].key = k /\ r.seat[t].key = k => s = t
  BY <1>0 DEF Good, Seated
<1>1. x \in Sources /\ x.known /\ x.held = held /\ x.has = TRUE /\ x.rearm = old.rearm
  BY <1>0 DEF Sources
<1>2. y \in Sources /\ y.known /\ y.held = held /\ y.has = TRUE /\ y.rearm = held
  <2> HIDE DEF x
  <2> QED BY <1>1 DEF Sources
<1>3. seen = [r EXCEPT !.src[k] = x]
  BY <1>0
<1> HIDE DEF old, x
<1>4. /\ seen \in Runtime /\ Same(r, seen) /\ seen.seat = r.seat /\ seen.held = r.held
      /\ seen.feedback = r.feedback /\ seen.overflow = r.overflow
      /\ seen.src[k] = x /\ \A j \in Keys : j # k => seen.src[j] = r.src[j]
  <2>1. Resourced(r, seen, k, x)
    BY <1>0, <1>1, <1>3, SourceFields
  <2> QED BY <2>1 DEF Resourced
<1>p. ~old.rearm /\ r.route => k \in P \/ ~old.held
  BY <1>0 DEF Good, Armed, old
<1>q. ~old.rearm /\ r.route => k \in P
  BY <1>0, <1>p DEF Good, Armed, old
<1>m. \A s \in r.held : r.seat[s].key = k => r.route /\ k \in P /\ ~old.rearm
  BY <1>0 DEF Good, HeldOk, old
<1> HIDE DEF seen
<1> SUFFICES ASSUME NEW d, d = UpdateSource(r, k, held),
                    ~(Good(d, P) /\ Keeps(r, d) /\ Heard(r, d, k, held) /\ (Full(r) => Full(d)))
             PROVE  FALSE
  OBVIOUS
<1>5. ASSUME Touched(r, d, k, P), Heard(r, d, k, held), Bound(r, k) => Bound(d, k) PROVE FALSE
  <2>1. Full(r) => (Free(r) # {} /\ ~FirstPress(r) => Bound(d, k))
    BY <1>5 DEF Full, Known
  <2>2. Good(d, P) /\ Keeps(r, d)
    BY <1>5, <1>g, TouchedGood
  <2>3. Full(r) => Full(d)
    BY <1>5, <1>g, <2>1, TouchedGood
  <2> QED BY <1>5, <2>2, <2>3
<1>6. CASE ~r.route
  <2>1. d = seen
    BY <1>6 DEF UpdateSource, seen
  <2>2. Touched(r, seen, k, P)
    BY <1>1, <1>4, <1>6, <1>r, <1>s, <1>m DEF Touched
  <2>3. Heard(r, seen, k, held) /\ (Bound(r, k) => Bound(seen, k))
    BY <1>1, <1>4 DEF Heard, Bound
  <2> QED BY <1>5, <2>1, <2>2, <2>3
<1>7. CASE r.route /\ old.rearm
  <2>1. d = [seen EXCEPT !.src[k].rearm = held]
    BY <1>7 DEF UpdateSource, seen, old
  <2>2. d = [seen EXCEPT !.src[k] = y]
    BY <1>4, <2>1
  <2> HIDE DEF y
  <2>3. /\ d \in Runtime /\ Same(seen, d) /\ d.seat = seen.seat /\ d.held = seen.held
        /\ d.feedback = seen.feedback /\ d.overflow = seen.overflow
        /\ d.src[k] = y /\ \A j \in Keys : j # k => d.src[j] = seen.src[j]
    <3>1. Resourced(seen, d, k, y)
      BY <1>2, <1>4, <2>2, SourceFields
    <3> QED BY <3>1 DEF Resourced
  <2>4. Same(r, d)
    BY <1>4, <2>3 DEF Same
  <2>5. Touched(r, d, k, P)
    BY <1>2, <1>4, <1>7, <2>3, <2>4, <1>r, <1>s, <1>m DEF Touched
  <2>6. Heard(r, d, k, held) /\ (Bound(r, k) => Bound(d, k))
    BY <1>2, <1>4, <2>3, <2>4 DEF Heard, Bound
  <2> QED BY <1>5, <2>5, <2>6
<1>8. CASE r.route /\ ~old.rearm
  <2> DEFINE play == IF FirstPress(seen) /\ ~Bound(seen, k) /\ held THEN Connect(seen, k) ELSE seen
  <2>1. d = IF ~Bound(play, k) THEN play
            ELSE [play EXCEPT !.held = IF held THEN @ \cup {SlotOf(play, k)} ELSE @ \ {SlotOf(play, k)}]
    BY <1>8 DEF UpdateSource, seen, old
  <2>2. /\ play \in Runtime /\ Same(seen, play) /\ play.src = seen.src
        /\ play.feedback = seen.feedback /\ play.overflow = seen.overflow
        /\ \A s \in Slots : \/ play.seat[s] = seen.seat[s]
                            \/ /\ play.seat[s].key = k
                               /\ seen.seat[s].key = k \/ (seen.seat[s].key = None /\ s <= seen.count)
        /\ \A s, t \in Slots : play.seat[s].key = k /\ play.seat[t].key = k => s = t
        /\ \A s \in Slots : play.seat[s].key = k => play.seat[s].on
        /\ play.held \subseteq seen.held
        /\ Bound(seen, k) => Bound(play, k)
    <3>1. CASE play = seen
      BY <1>4, <1>s, <3>1 DEF Same
    <3>2. CASE play # seen
      <4>1. play = Connect(seen, k) /\ ~Bound(seen, k)
        BY <3>2
      <4>2. PICK s \in Slots : /\ Put(seen, play, s, k)
                               /\ seen.seat[s].key = None /\ s <= seen.count
        <5>1. PICK s \in Slots : /\ Put(seen, play, s, k)
                                 /\ seen.seat[s].key = k \/ (seen.seat[s].key = None /\ s <= seen.count /\ ~Bound(seen, k))
          BY <1>4, <3>2, <4>1, ConnectCases
        <5> QED BY <4>1, <5>1 DEF Bound
      <4> HIDE DEF play
      <4>3. Placed(seen, play, s, k)
        BY <1>4, <4>2, PutFields
      <4>4. \A t \in Slots : seen.seat[t].key # k
        BY <4>1 DEF Bound
      <4> QED BY <4>1, <4>2, <4>3, <4>4 DEF Placed
    <3> QED BY <3>1, <3>2
  <2> HIDE DEF play
  <2>3. CASE ~Bound(play, k)
    <3>1. d = play
      BY <2>1, <2>3
    <3>2. Same(r, d)
      BY <1>4, <2>2, <3>1 DEF Same
    <3>3. \A s \in Slots : d.seat[s].key # k
      BY <2>3, <3>1 DEF Bound
    <3>4. \A s \in d.held : s \in r.held /\ d.seat[s].key # k
      BY <1>4, <2>2, <3>1, <3>3, <1>r
    <3>5. /\ \A j \in Keys : j # k => d.src[j] = r.src[j]
          /\ d.src[k] = x /\ d \in Runtime
      BY <1>4, <2>2, <3>1
    <3>6. Touched(r, d, k, P)
      <4>1. \A s \in Slots : d.seat[s] = r.seat[s]
        BY <1>4, <2>2, <3>1, <3>3
      <4> QED BY <1>1, <1>8, <1>q, <3>2, <3>3, <3>4, <3>5, <4>1 DEF Touched
    <3>7. Heard(r, d, k, held) /\ (Bound(r, k) => Bound(d, k))
      BY <1>1, <1>4, <2>2, <3>1, <3>2, <3>5 DEF Heard, Bound
    <3> QED BY <1>5, <3>6, <3>7
  <2>4. CASE Bound(play, k)
    <3> DEFINE s0 == SlotOf(play, k)
               now == IF held THEN play.held \cup {s0} ELSE play.held \ {s0}
    <3>1. s0 \in Slots /\ play.seat[s0].key = k
      BY <2>4 DEF SlotOf, Bound
    <3>2. d = [play EXCEPT !.held = now]
      BY <2>1, <2>4
    <3>3. now \subseteq Slots /\ (\A s \in now : s = s0 => held) /\ (\A s \in now : s # s0 => s \in play.held)
      BY <2>2, <3>1, RuntimeFields
    <3> HIDE DEF s0, now
    <3>4. /\ d \in Runtime /\ d.seat = play.seat /\ d.src = play.src /\ d.held = now
          /\ Same(play, d) /\ d.feedback = play.feedback /\ d.overflow = play.overflow
      BY <2>2, <3>2, <3>3 DEF Runtime, Same
    <3>5. Same(r, d)
      BY <1>4, <2>2, <3>4 DEF Same
    <3>6. /\ \A j \in Keys : j # k => d.src[j] = r.src[j]
          /\ d.src[k] = x
      BY <1>4, <2>2, <3>4
    <3>7. \A s \in d.held : \/ s \in r.held /\ d.seat[s].key # k
                            \/ d.seat[s].key = k /\ held
      BY <1>4, <2>2, <3>1, <3>3, <3>4
    <3>8. Touched(r, d, k, P)
      <4>1. /\ \A s \in Slots : \/ d.seat[s] = r.seat[s]
                                \/ /\ d.seat[s].key = k
                                   /\ r.seat[s].key = k \/ (r.seat[s].key = None /\ s <= r.count)
            /\ \A s, t \in Slots : d.seat[s].key = k /\ d.seat[t].key = k => s = t
            /\ \A s \in Slots : d.seat[s].key = k => d.seat[s].on
        BY <1>4, <2>2, <3>4 DEF Same
      <4> QED BY <1>1, <1>8, <1>q, <3>4, <3>5, <3>6, <3>7, <4>1 DEF Touched
    <3>9. Heard(r, d, k, held) /\ (Bound(r, k) => Bound(d, k))
      BY <1>1, <1>4, <2>2, <2>4, <3>4, <3>5, <3>6 DEF Heard, Bound
    <3> QED BY <1>5, <3>8, <3>9
  <2> QED BY <2>3, <2>4
<1> QED BY <1>0, <1>6, <1>7, <1>8 DEF Sources

(* d differs from r in its events only.                                       *)
Core(r, d) == d \in Runtime /\ Same(r, d) /\ d.seat = r.seat /\ d.held = r.held /\ d.src = r.src
Fits(r)    == Len(r.feedback) <= MaxEvents

\* Events alone change nothing of the seats.
LEMMA CoreGood ==
    ASSUME NEW r, NEW d, NEW P, Core(r, d)
    PROVE  /\ Good(r, P) => Good(d, P)
           /\ Full(r) => Full(d)
           /\ Keeps(r, d)
<1>1. Known(d) = Known(r) /\ Free(d) = Free(r) /\ (FirstPress(d) <=> FirstPress(r))
  BY DEF Core, Same, Known, Free, FirstPress
<1>2. \A k : Bound(d, k) <=> Bound(r, k)
  BY DEF Core, Bound
<1>3. Full(r) => Full(d)
  BY <1>1, <1>2 DEF Full
<1>4. Good(r, P) => Good(d, P)
  <2> SUFFICES ASSUME Good(r, P) PROVE Good(d, P)
    OBVIOUS
  <2>1. Seated(d)
    BY DEF Good, Core, Same, Seated
  <2>2. Armed(d, P) /\ HeldOk(d, P)
    BY DEF Good, Core, Same, Armed, HeldOk
  <2>3. Silent(d) /\ Mirrored(d)
    BY <1>1 DEF Good, Core, Same, Silent, Mirrored
  <2> QED BY <2>1, <2>2, <2>3 DEF Good, Core
<1>5. Keeps(r, d)
  BY DEF Core, Keeps
<1> QED BY <1>3, <1>4, <1>5

\* SeatRuntime::push_feedback keeps to its bound and touches nothing else.
LEMMA PushCore ==
    ASSUME NEW r \in Runtime, NEW events \in Seq(Event)
    PROVE  Core(r, Push(r, events)) /\ (Fits(r) => Fits(Push(r, events)))
<1> DEFINE room == MaxEvents - Len(r.feedback)
           n    == IF Len(events) < room THEN Len(events) ELSE room
           part == SubSeq(events, 1, n)
           d    == Push(r, events)
<1>0. r.feedback \in Seq(Event) /\ MaxEvents \in Nat /\ r.overflow \in BOOLEAN
  BY RuntimeFields, SeatConstants
<1>1. n \in Int /\ n <= Len(events) /\ n <= room /\ room \in Int /\ Len(events) \in Nat
  <2>1. Len(events) \in Nat /\ Len(r.feedback) \in Nat
    BY <1>0
  <2>2. room \in Int
    BY <1>0, <2>1
  <2> HIDE DEF room
  <2> QED BY <2>1, <2>2
<1> HIDE DEF n
<1>2. \A i \in 1..n : events[i] \in Event
  BY <1>1
<1>3. part \in Seq(Event) /\ Len(part) = IF 1 <= n THEN n - 1 + 1 ELSE 0
  BY <1>1, <1>2, SubSeqProperties
<1> HIDE DEF part
<1>4. r.feedback \o part \in Seq(Event) /\ Len(r.feedback \o part) = Len(r.feedback) + Len(part)
  BY <1>0, <1>3, ConcatProperties
<1>5. d = [r EXCEPT !.feedback = r.feedback \o part, !.overflow = r.overflow \/ Len(events) > room]
  BY DEF Push, n, part
<1> HIDE DEF room
<1>6. (r.overflow \/ Len(events) > room) \in BOOLEAN
  BY <1>0
<1> DEFINE full == r.overflow \/ Len(events) > room
<1> HIDE DEF full
<1>7. d = [r EXCEPT !.feedback = r.feedback \o part, !.overflow = full]
  BY <1>5 DEF full
<1> HIDE DEF d
<1>8. d \in Runtime
  BY <1>4, <1>6, <1>7 DEF Runtime, full
<1>9. /\ Same(r, d) /\ d.seat = r.seat /\ d.held = r.held /\ d.src = r.src
      /\ d.feedback = r.feedback \o part
  BY <1>7 DEF Runtime, Same
<1>10. Fits(r) => Fits(d)
  BY <1>0, <1>1, <1>3, <1>4, <1>9 DEF Fits, room
<1> QED BY <1>8, <1>9, <1>10 DEF Core, d

(* What korrid's native sources have to show of a controller of the stream     *)
(* client, and what a runtime's pending events make them show.                 *)
StateOf(r, k) == IF r.src[k].known /\ r.src[k].has
                 THEN IF r.src[k].held THEN "held" ELSE "neutral" ELSE "absent"
Shows(m, r)   == \A k \in Remotes : m.remote[k] = StateOf(r, k)
Agrees(m, r)  == MapsAll(m, r.feedback) /\ Shows(MapAll(m, r.feedback), r)

(* The step from r to d tells korrid all it has to know: native sources that    *)
(* agree with r can place what is then pending, and agree with d, or events     *)
(* were lost and d says so.                                                    *)
Tells(r, d) == \A m \in Mappers : Agrees(m, r) =>
                  /\ MapsAll(m, d.feedback)
                  /\ ~d.overflow => Shows(MapAll(m, d.feedback), d)

(* The step is none of korrid's business.                                      *)
Quiet(r, d) == /\ d.feedback = r.feedback /\ d.overflow = r.overflow
               /\ \A k \in Remotes : StateOf(d, k) = StateOf(r, k)

\* Quiet steps, and quiet steps around one that is told.
LEMMA QuietTells ==
    ASSUME NEW r, NEW d, Quiet(r, d)
    PROVE  /\ Tells(r, d)
           /\ \A e : Tells(d, e) => Tells(r, e)
           /\ \A e : Tells(e, r) => Tells(e, d)
<1>1. \A m : Agrees(m, r) <=> Agrees(m, d)
  BY DEF Agrees, Shows, Quiet
<1>2. \A m : Shows(m, r) <=> Shows(m, d)
  BY DEF Shows, Quiet
<1>3. Tells(r, d)
  BY <1>1 DEF Tells, Agrees
<1>4. ASSUME NEW e, Tells(d, e) PROVE Tells(r, e)
  BY <1>1, <1>4 DEF Tells
<1>5. ASSUME NEW e, Tells(e, r) PROVE Tells(e, d)
  BY <1>2, <1>5 DEF Tells, Quiet
<1> QED BY <1>3, <1>4, <1>5

\* SeatRuntime::push_feedback keeps the events that there is room for, in order,
\* and remembers when that was not all of them.
LEMMA PushEvents ==
    ASSUME NEW r \in Runtime, NEW events \in Seq(Event), Fits(r), ~r.overflow
    PROVE  \E n \in 0..Len(events) :
              /\ Push(r, events).feedback = r.feedback \o SubSeq(events, 1, n)
              /\ ~Push(r, events).overflow => n = Len(events)
<1> DEFINE room == MaxEvents - Len(r.feedback)
           d    == Push(r, events)
<1>0. r.feedback \in Seq(Event) /\ MaxEvents \in Nat
  BY RuntimeFields, SeatConstants
<1>1. Len(events) \in Nat /\ Len(r.feedback) \in Nat
  BY <1>0, LenProperties
<1>2. room \in Nat
  BY <1>0, <1>1 DEF Fits
<1>3. PICK n : n = IF Len(events) < room THEN Len(events) ELSE room
  OBVIOUS
<1>4. d = [r EXCEPT !.feedback = r.feedback \o SubSeq(events, 1, n), !.overflow = r.overflow \/ Len(events) > room]
  BY <1>3 DEF Push
<1> HIDE DEF room, d
<1>5. n \in 0..Len(events) /\ (~(Len(events) > room) => n = Len(events))
  BY <1>1, <1>2, <1>3
<1>6. PICK part : part = r.feedback \o SubSeq(events, 1, n)
  OBVIOUS
<1>7. PICK full \in BOOLEAN : full = (r.overflow \/ Len(events) > room)
  <2>1. (r.overflow \/ Len(events) > room) \in BOOLEAN
    OBVIOUS
  <2> QED BY <2>1
<1>8. d = [r EXCEPT !.feedback = part, !.overflow = full]
  BY <1>4, <1>6, <1>7
<1>9. d.feedback = part /\ d.overflow = full
  BY <1>8 DEF Runtime
<1>10. ~d.overflow => n = Len(events)
  BY <1>5, <1>7, <1>9
<1> QED BY <1>5, <1>6, <1>9, <1>10 DEF d

\* A change from r to n, of which the events tell.
LEMMA PushTells ==
    ASSUME NEW r \in Runtime, NEW n \in Runtime, NEW events \in Seq(Event), Fits(r), ~r.overflow,
           n.feedback = r.feedback, n.overflow = r.overflow,
           \A m \in Mappers : Shows(m, r) => MapsAll(m, events) /\ Shows(MapAll(m, events), n)
    PROVE  Tells(r, Push(n, events))
<1> DEFINE d == Push(n, events)
<1>0. Fits(n) /\ ~n.overflow /\ r.feedback \in Seq(Event) /\ Len(events) \in Nat
  BY RuntimeFields, LenProperties DEF Fits
<1>1. PICK i \in 0..Len(events) :
            /\ d.feedback = r.feedback \o SubSeq(events, 1, i)
            /\ ~d.overflow => i = Len(events)
  BY <1>0, PushEvents
<1>2. d.src = n.src
  BY PushCore DEF Core
<1> HIDE DEF d
<1>3. ASSUME NEW m \in Mappers, Agrees(m, r)
      PROVE  MapsAll(m, d.feedback) /\ (~d.overflow => Shows(MapAll(m, d.feedback), d))
  <2>1. PICK mid \in Mappers : mid = MapAll(m, r.feedback)
    BY <1>0, MapAllType
  <2>2. MapsAll(m, r.feedback) /\ Shows(mid, r)
    BY <1>3, <2>1 DEF Agrees
  <2>3. MapsAll(mid, events) /\ Shows(MapAll(mid, events), n)
    BY <2>2
  <2>4. PICK q \in [0..Len(events) -> Mappers] :
            Runs(q, mid, events) /\ MapAll(mid, events) = q[Len(events)]
    BY MapAllRuns
  <2>5. PICK part : part = SubSeq(events, 1, i)
    OBVIOUS
  <2>6. part \in Seq(Event) /\ MapAll(mid, part) = q[i]
    BY <2>4, <2>5, MapAllPrefix
  <2>7. MapsAll(mid, part)
    BY <2>3, <2>5, MapsPrefix
  <2>8. MapsAll(m, d.feedback) /\ MapAll(m, d.feedback) = MapAll(mid, part)
    <3>1. PICK f \in Seq(Event) : f = r.feedback
      BY <1>0
    <3>2. d.feedback = f \o part /\ mid = MapAll(m, f) /\ MapsAll(m, f)
      BY <1>1, <2>1, <2>2, <2>5, <3>1
    <3>3. MapAll(m, f \o part) = MapAll(mid, part) /\ MapsAll(m, f \o part)
      BY <2>6, <2>7, <3>2, MapConcat
    <3> QED BY <3>2, <3>3
  <2>9. ~d.overflow => MapAll(m, d.feedback) = MapAll(mid, events)
    BY <1>1, <2>4, <2>6, <2>8
  <2>10. Shows(MapAll(mid, events), d)
    BY <1>2, <2>3 DEF Shows, StateOf
  <2> QED BY <2>8, <2>9, <2>10
<1> QED BY <1>3 DEF Tells, d

\* An injection into a set that is not larger than its domain meets all of it.
LEMMA Onto ==
    ASSUME NEW S, NEW T, IsFiniteSet(T), IsFiniteSet(S), Cardinality(T) <= Cardinality(S),
           NEW f \in [S -> T], \A s, t \in S : f[s] = f[t] => s = t
    PROVE  \A y \in T : \E x \in S : f[x] = y
<1>1. f \in Injection(S, T)
  BY DEF Injection, IsInjective
<1>2. Cardinality(S) <= Cardinality(T) /\ (Cardinality(S) = Cardinality(T) <=> f \in Surjection(S, T))
  BY <1>1, FS_Injection
<1>3. Cardinality(S) \in Nat /\ Cardinality(T) \in Nat
  BY FS_CardinalityType
<1>4. f \in Surjection(S, T)
  BY <1>2, <1>3
<1> QED BY <1>4 DEF Surjection

\* SetToSeq lists the set.
LEMMA SetToSeqType ==
    ASSUME NEW S, IsFiniteSet(S)
    PROVE  SetToSeq(S) \in Seq(S) /\ \A y \in S : \E i \in 1..Len(SetToSeq(S)) : SetToSeq(S)[i] = y
<1>1. Cardinality(S) \in Nat /\ ExistsBijection(1..Cardinality(S), S)
  BY FS_CardinalityType
<1>2. \E f \in [1..Cardinality(S) -> S] : IsInjective(f)
  BY <1>1 DEF ExistsBijection, Bijection, Injection
<1>3. SetToSeq(S) \in [1..Cardinality(S) -> S] /\ IsInjective(SetToSeq(S))
  BY <1>2 DEF SetToSeq
<1>4. PICK f : f = SetToSeq(S)
  OBVIOUS
<1>5. PICK n \in Nat : n = Cardinality(S)
  BY <1>1
<1>6. f \in [1..n -> S] /\ \A s, t \in 1..n : f[s] = f[t] => s = t
  BY <1>3, <1>4, <1>5 DEF IsInjective
<1>7. f \in Seq(S) /\ Len(f) = n
  BY <1>6
<1>8. IsFiniteSet(1..n) /\ Cardinality(1..n) = n
  BY <1>5, FS_Interval
<1>9. \A y \in S : \E i \in 1..n : f[i] = y
  <2>1. PICK D : D = 1..n
    OBVIOUS
  <2>2. /\ IsFiniteSet(D) /\ Cardinality(S) <= Cardinality(D) /\ f \in [D -> S]
        /\ \A s, t \in D : f[s] = f[t] => s = t
    BY <1>5, <1>6, <1>8, <2>1
  <2>3. \A y \in S : \E i \in D : f[i] = y
    BY <2>2, Onto
  <2> QED BY <2>1, <2>3
<1> QED BY <1>4, <1>7, <1>9

(* What a hand-out of seats to the waiting sources changes at most.           *)
Seating(r, d) ==
    /\ d \in Runtime /\ Same(r, d)
    /\ d.feedback = r.feedback /\ d.overflow = r.overflow
    /\ \A k \in Keys : /\ d.src[k].known <=> r.src[k].known
                       /\ d.src[k].has = r.src[k].has /\ d.src[k].held = r.src[k].held
                       /\ r.src[k].rearm => d.src[k].rearm

\* SeatRuntime::rebalance: the seats stay one to one with the sources, a source
\* that gets a seat has to be released first, and afterwards nobody waits while a
\* seat is free: there are as many free seats used as there are sources waiting,
\* or all of them.
LEMMA RebalanceGood ==
    ASSUME NEW r, NEW P, Good(r, P), NEW d \in Rebalance(r)
    PROVE  Good(d, P) /\ Full(d) /\ Keeps(r, d) /\ Seating(r, d)
<1> DEFINE waiting == {k \in Known(r) : ~Bound(r, k)}
           usable  == {s \in Free(r) : Cardinality({t \in Free(r) : t < s}) < Cardinality(waiting)}
<1>0. r \in Runtime /\ None \notin Keys /\ MaxSeats \in Nat /\ IsFiniteSet(Keys)
  BY SeatConstants DEF Good
<1>r. /\ r.held \subseteq Slots /\ r.src \in [Keys -> Sources] /\ r.seat \in [Slots -> Seats]
      /\ r.count \in Slots
      /\ \A s \in Slots : r.seat[s].key \in Keys \cup {None} /\ r.seat[s].on \in BOOLEAN
      /\ \A k \in Keys : r.src[k] \in Sources
  BY <1>0, RuntimeFields
<1>1. CASE FirstPress(r)
  <2>1. d = r
    BY <1>1 DEF Rebalance
  <2>2. \A k \in Keys : r.src[k].known \in BOOLEAN
    BY <1>0, RuntimeFields
  <2> QED BY <1>0, <1>1, <2>1, <2>2 DEF Full, Keeps, Seating, Same
<1>2. CASE ~FirstPress(r)
  <2>1. PICK f \in [usable -> waiting] :
            /\ \A s, t \in usable : f[s] = f[t] => s = t
            /\ d = [r EXCEPT !.seat = [s \in Slots |-> IF s \in usable
                                                  THEN [key |-> f[s], on |-> TRUE]
                                                  ELSE r.seat[s]],
                             !.held = r.held \ usable,
                             !.src = [k \in Keys |-> IF \E s \in usable : f[s] = k
                                                THEN [r.src[k] EXCEPT !.rearm = TRUE]
                                                ELSE r.src[k]]]
    BY <1>2 DEF Rebalance
  <2>u. /\ \A s \in usable : s \in Slots /\ s <= r.count /\ r.seat[s].key = None
        /\ \A k \in waiting : k \in Keys /\ r.src[k].known /\ ~Bound(r, k)
    BY <1>r, <1>0 DEF Free, Known, Slots
  <2>2. /\ IsFiniteSet(waiting) /\ IsFiniteSet(Free(r)) /\ IsFiniteSet(usable)
        /\ Free(r) \subseteq Nat /\ Free(r) \subseteq Slots
    <3>1. waiting \in SUBSET Keys
      BY DEF Known
    <3>2. IsFiniteSet(waiting)
      BY <1>0, <3>1, FS_Subset
    <3>3. Free(r) \in SUBSET Slots /\ Slots \subseteq Nat
      BY <1>0, <1>r DEF Free, Slots
    <3>4. IsFiniteSet(Slots)
      BY <1>0, FS_Interval DEF Slots
    <3>5. IsFiniteSet(Free(r))
      BY <3>3, <3>4, FS_Subset
    <3>6. usable \in SUBSET Free(r)
      OBVIOUS
    <3>7. IsFiniteSet(usable)
      BY <3>5, <3>6, FS_Subset
    <3> QED BY <3>2, <3>3, <3>5, <3>7
  \* A seat that stays free: every waiting source has got one.
  <2>3. ASSUME Free(r) \ usable # {} PROVE \A k \in waiting : \E s \in usable : f[s] = k
    <3>1. Free(r) \ usable \in SUBSET Nat
      BY <2>2
    <3>2. PICK s0 \in Free(r) \ usable : \A t \in Free(r) \ usable : s0 <= t
      BY <2>3, <3>1, Least
    <3> DEFINE before == {t \in Free(r) : t < s0}
    <3>3. before \in SUBSET usable
      <4> SUFFICES ASSUME NEW t \in Free(r), t < s0, t \notin usable PROVE FALSE
        OBVIOUS
      <4>1. s0 <= t
        BY <3>2
      <4>2. s0 \in Nat /\ t \in Nat
        BY <2>2
      <4> QED BY <4>1, <4>2
    <3>4. ~(Cardinality(before) < Cardinality(waiting))
      OBVIOUS
    <3> HIDE DEF before
    <3>5. Cardinality(before) <= Cardinality(usable) /\ IsFiniteSet(before)
      BY <2>2, <3>3, FS_Subset
    <3> HIDE DEF waiting, usable
    <3>6. Cardinality(before) \in Nat /\ Cardinality(waiting) \in Nat /\ Cardinality(usable) \in Nat
      BY <2>2, <3>5, FS_CardinalityType
    <3>7. Cardinality(waiting) <= Cardinality(usable)
      BY <3>4, <3>5, <3>6
    <3> QED BY <2>1, <2>2, <3>7, Onto
  <2> HIDE DEF usable, waiting
  <2> DEFINE seat == [s \in Slots |-> IF s \in usable THEN [key |-> f[s], on |-> TRUE] ELSE r.seat[s]]
             src  == [k \in Keys |-> IF \E s \in usable : f[s] = k
                                     THEN [r.src[k] EXCEPT !.rearm = TRUE] ELSE r.src[k]]
  <2>4. seat \in [Slots -> Seats]
    <3>1. \A s \in usable : [key |-> f[s], on |-> TRUE] \in Seats
      BY <2>u DEF Seats
    <3> QED BY <1>r, <3>1
  <2>5. src \in [Keys -> Sources]
    <3>1. \A k \in Keys : [r.src[k] EXCEPT !.rearm = TRUE] \in Sources
      BY <1>r DEF Sources
    <3> QED BY <1>r, <3>1
  <2>6. /\ \A s \in usable : seat[s].key = f[s] /\ seat[s].on = TRUE
        /\ \A s \in Slots \ usable : seat[s] = r.seat[s]
    BY <2>u
  <2>7. \A k \in Keys : /\ src[k].known = r.src[k].known /\ src[k].has = r.src[k].has
                        /\ src[k].held = r.src[k].held
                        /\ src[k].rearm = IF \E s \in usable : f[s] = k THEN TRUE ELSE r.src[k].rearm
    <3> SUFFICES ASSUME NEW k \in Keys
                 PROVE  /\ src[k].known = r.src[k].known /\ src[k].has = r.src[k].has
                        /\ src[k].held = r.src[k].held
                        /\ src[k].rearm = IF \E s \in usable : f[s] = k THEN TRUE ELSE r.src[k].rearm
      OBVIOUS
    <3>1. src[k] = IF \E s \in usable : f[s] = k THEN [r.src[k] EXCEPT !.rearm = TRUE] ELSE r.src[k]
      OBVIOUS
    <3>2. r.src[k] \in Sources
      BY <1>r
    <3> HIDE DEF src
    <3>3. CASE \E s \in usable : f[s] = k
      <4>1. src[k] = [r.src[k] EXCEPT !.rearm = TRUE]
        BY <3>1, <3>3
      <4> QED BY <3>2, <3>3, <4>1 DEF Sources
    <3>4. CASE ~\E s \in usable : f[s] = k
      BY <3>1, <3>4
    <3> QED BY <3>3, <3>4
  <2> DEFINE held == r.held \ usable
  <2>8. held \subseteq Slots
    BY <1>r
  <2>9. d = [r EXCEPT !.seat = seat, !.held = held, !.src = src]
    BY <2>1
  <2> HIDE DEF seat, src, held
  <2>10. /\ d \in Runtime /\ d.seat = seat /\ d.held = held /\ d.src = src
         /\ d.feedback = r.feedback /\ d.overflow = r.overflow
    BY <1>0, <2>4, <2>5, <2>8, <2>9 DEF Runtime
  <2>11. Same(r, d)
    BY <1>0, <2>9 DEF Runtime, Same
  <2>12. Seating(r, d)
    BY <2>7, <2>10, <2>11 DEF Seating
  <2>b. \A s \in Slots : r.seat[s].key = None \/ \A t \in usable : f[t] # r.seat[s].key
    BY <2>u DEF Bound
  <2>13. Seated(d)
    <3>1. ASSUME NEW s \in Slots, NEW t \in Slots, d.seat[s].key = d.seat[t].key, d.seat[s].key # None
          PROVE  s = t
      <4>1. CASE s \in usable /\ t \in usable
        BY <2>1, <2>6, <2>10, <3>1, <4>1
      <4>2. CASE s \in usable /\ t \notin usable
        BY <2>6, <2>10, <2>b, <3>1, <4>2
      <4>3. CASE s \notin usable /\ t \in usable
        BY <2>6, <2>10, <2>b, <3>1, <4>3
      <4>4. CASE s \notin usable /\ t \notin usable
        BY <2>6, <2>10, <3>1, <4>4 DEF Good, Seated
      <4> QED BY <4>1, <4>2, <4>3, <4>4
    <3>2. ASSUME NEW s \in Slots, d.seat[s].key # None
          PROVE  s <= d.count /\ (d.seat[s].on <=> d.src[d.seat[s].key].known)
      <4>1. CASE s \in usable
        <5>1. d.seat[s].key \in waiting /\ d.seat[s].on
          BY <2>6, <2>10, <4>1
        <5> QED BY <2>u, <2>7, <2>10, <2>11, <4>1, <5>1 DEF Same
      <4>2. CASE s \notin usable
        <5>1. d.seat[s] = r.seat[s] /\ r.seat[s].key \in Keys
          BY <1>r, <2>6, <2>10, <3>2, <4>2
        <5>2. d.src[r.seat[s].key].known = r.src[r.seat[s].key].known
          BY <2>7, <2>10, <5>1
        <5>3. s <= r.count /\ (r.seat[s].on <=> r.src[r.seat[s].key].known)
          BY <1>0, <5>1 DEF Good, Seated
        <5> QED BY <2>11, <5>1, <5>2, <5>3 DEF Same
      <4> QED BY <4>1, <4>2
    <3>3. ASSUME NEW s \in Slots, d.seat[s].key = None PROVE ~d.seat[s].on
      <4>1. s \notin usable
        BY <1>0, <2>u, <2>6, <2>10, <3>3
      <4> QED BY <2>6, <2>10, <3>3, <4>1 DEF Good, Seated
    <3> QED BY <3>1, <3>2, <3>3 DEF Seated
  <2>14. Armed(d, P)
    <3> SUFFICES ASSUME NEW k \in Keys, d.src[k].known, ~d.src[k].rearm
                 PROVE  d.src[k].has /\ (d.route /\ d.src[k].held => k \in P)
      BY DEF Armed
    <3>1. r.src[k].known /\ ~r.src[k].rearm
      BY <2>7, <2>10
    <3> QED BY <2>7, <2>10, <2>11, <3>1 DEF Same, Good, Armed
  <2>15. HeldOk(d, P)
    <3> SUFFICES ASSUME NEW s \in d.held
                 PROVE  /\ d.route /\ d.seat[s].on /\ d.seat[s].key \in P
                        /\ d.src[d.seat[s].key].held /\ ~d.src[d.seat[s].key].rearm
      BY DEF HeldOk
    <3>1. s \in r.held /\ s \in Slots /\ s \notin usable
      BY <1>r, <2>10 DEF held
    <3>2. d.seat[s] = r.seat[s]
      BY <2>6, <2>10, <3>1
    <3>3. /\ r.route /\ r.seat[s].on /\ r.seat[s].key \in P
          /\ r.src[r.seat[s].key].held /\ ~r.src[r.seat[s].key].rearm
      BY <3>1 DEF Good, HeldOk
    <3>4. r.seat[s].key # None /\ r.seat[s].key \in Keys
      BY <1>r, <3>1, <3>3 DEF Good, Seated
    <3>5. /\ d.src[r.seat[s].key].held = r.src[r.seat[s].key].held
          /\ d.src[r.seat[s].key].rearm = r.src[r.seat[s].key].rearm
      <4>1. PICK j \in Keys : j = r.seat[s].key
        BY <3>4
      <4>2. ~\E t \in usable : f[t] = j
        BY <2>b, <3>1, <3>4, <4>1
      <4>3. src[j].held = r.src[j].held /\ src[j].rearm = r.src[j].rearm
        BY <2>7, <4>2
      <4> QED BY <2>10, <4>1, <4>3
    <3> QED BY <2>11, <3>2, <3>3, <3>5 DEF Same
  <2>16. Known(d) = Known(r)
    <3>1. \A k \in Keys : d.src[k].known = r.src[k].known
      BY <2>7, <2>10
    <3> QED BY <3>1 DEF Known
  <2>17. Silent(d) /\ Mirrored(d)
    BY <2>11, <2>16 DEF Same, Good, Silent, Mirrored
  <2>18. Keeps(r, d)
    BY <2>6, <2>10, <2>u DEF Keeps
  <2>19. Full(d)
    <3> SUFFICES ASSUME Free(d) # {}, NEW k \in Known(d) PROVE Bound(d, k)
      BY DEF Full
    <3>1. PICK s \in 1..d.count : d.seat[s].key = None
      BY DEF Free
    <3>2. s \in Slots /\ s \in 1..r.count
      BY <1>r, <1>0, <2>11, <3>1 DEF Slots, Same
    <3>3. s \notin usable
      BY <1>0, <2>u, <2>6, <2>10, <3>1
    <3>4. r.seat[s].key = None
      BY <2>6, <2>10, <3>1, <3>2, <3>3
    <3>5. Free(r) \ usable # {}
      BY <3>2, <3>3, <3>4 DEF Free
    <3>6. CASE Bound(r, k)
      <4>1. PICK t \in Slots : r.seat[t].key = k
        BY <3>6 DEF Bound
      <4>2. t \notin usable
        BY <1>0, <2>u, <4>1 DEF Known
      <4> QED BY <2>6, <2>10, <4>1, <4>2 DEF Bound
    <3>7. CASE ~Bound(r, k)
      <4>1. k \in waiting
        BY <2>16, <3>7 DEF waiting
      <4>2. PICK t \in usable : f[t] = k
        BY <2>3, <3>5, <4>1
      <4> QED BY <2>u, <2>6, <2>10, <4>2 DEF Bound
    <3> QED BY <3>6, <3>7
  <2> QED BY <2>10, <2>12, <2>13, <2>14, <2>15, <2>17, <2>18, <2>19 DEF Good
<1> QED BY <1>1, <1>2

\* A hand-out of seats is none of korrid's business.
LEMMA SeatingQuiet ==
    ASSUME NEW r, NEW d, Seating(r, d)
    PROVE  Quiet(r, d)
<1>1. Remotes \subseteq Keys
  BY DEF Keys
<1>2. \A k \in Remotes : StateOf(d, k) = StateOf(r, k)
  BY <1>1 DEF Seating, StateOf
<1> QED BY <1>2 DEF Quiet, Seating

(* What has to hold of a runtime that is about to lose the sources ks.        *)
Loose(r, P, ks) ==
    /\ r \in Runtime /\ Seated(r)
    /\ \A k \in Keys \ ks : r.src[k].known /\ ~r.src[k].rearm =>
                              r.src[k].has /\ (r.route /\ r.src[k].held => k \in P)
    /\ \A s \in r.held : r.seat[s].key \notin ks =>
          /\ r.route /\ r.seat[s].on /\ r.seat[s].key \in P
          /\ r.src[r.seat[s].key].held /\ ~r.src[r.seat[s].key].rearm
    /\ r.recovery => Known(r) \subseteq ks /\ r.mirror = None /\ ~r.route
    /\ r.route => r.session # None
    /\ r.mirror # None => r.session = r.mirror
    /\ \A k \in (Known(r) \cap Remotes) \ ks : k[1] = r.mirror
    /\ Known(r) \cap Guests = {}

(* What is left without the sources ks.                                       *)
Without(r, d, ks) ==
    /\ d \in Runtime /\ Same(r, d) /\ (Fits(r) => Fits(d))
    /\ \A k \in ks : ~d.src[k].known
    /\ \A k \in Keys \ ks : /\ d.src[k].known <=> r.src[k].known
                            /\ d.src[k].has = r.src[k].has /\ d.src[k].held = r.src[k].held

\* SeatRuntime::disconnect_source.
LEMMA DropGood ==
    ASSUME NEW r, NEW P, NEW ks \in SUBSET Keys, Loose(r, P, ks), NEW d \in DropSources(r, ks)
    PROVE  /\ Good(d, P) /\ Full(d) /\ Keeps(r, d) /\ Without(r, d, ks)
           /\ Fits(r) /\ ~r.overflow => Tells(r, d)
<1> DEFINE told == {k \in ks \cap Remotes : r.src[k].known /\ r.src[k].has}
           gone == SetToSeq(told)
           mine == {s \in Slots : r.seat[s].key \in ks}
           src  == [k \in Keys |-> IF k \in ks THEN NoSource ELSE r.src[k]]
           seat == [s \in Slots |-> IF s \notin mine THEN r.seat[s]
                                    ELSE IF r.session = None THEN NoSeat
                                    ELSE [r.seat[s] EXCEPT !.on = FALSE]]
           held == r.held \ mine
           left == [r EXCEPT !.src = src, !.held = held, !.seat = seat]
           events == [i \in 1..Len(gone) |-> [kind |-> "Disconnected", key |-> gone[i], held |-> FALSE]]
<1>0. r \in Runtime /\ None \notin Keys /\ IsFiniteSet(Keys)
  BY SeatConstants DEF Loose
<1>r. /\ r.held \subseteq Slots /\ r.src \in [Keys -> Sources] /\ r.seat \in [Slots -> Seats]
      /\ \A s \in Slots : r.seat[s] \in Seats /\ r.seat[s].key \in Keys \cup {None} /\ r.seat[s].on \in BOOLEAN
      /\ \A k \in Keys : r.src[k] \in Sources /\ r.src[k].known \in BOOLEAN
  BY <1>0, RuntimeFields
<1>1. d \in Rebalance(Push(left, events))
  BY DEF DropSources
<1>2. /\ events \in Seq(Event) /\ Len(events) \in Nat
      /\ \A i \in 1..Len(events) : events[i].kind = "Disconnected" /\ events[i].key \in told
      /\ \A k \in told : \E i \in 1..Len(events) : events[i].key = k
  <2>1. told \in SUBSET Keys
    OBVIOUS
  <2>2. IsFiniteSet(told)
    BY <1>0, <2>1, FS_Subset
  <2>3. gone \in Seq(told) /\ \A k \in told : \E i \in 1..Len(gone) : gone[i] = k
    BY <2>2, SetToSeqType
  <2>r. told \subseteq Remotes
    OBVIOUS
  <2> HIDE DEF gone, told
  <2>4. \A i \in 1..Len(gone) : gone[i] \in Remotes /\ gone[i] \in told
    BY <2>3, <2>r
  <2>5. \A i \in 1..Len(gone) : [kind |-> "Disconnected", key |-> gone[i], held |-> FALSE] \in Event
    BY <2>4 DEF Event
  <2>6. Len(gone) \in Nat
    BY <2>3
  <2>7. events \in Seq(Event) /\ Len(events) = Len(gone)
    BY <2>5, <2>6
  <2>8. \A i \in 1..Len(gone) : events[i].kind = "Disconnected" /\ events[i].key = gone[i]
    OBVIOUS
  <2> HIDE DEF events
  <2> QED BY <2>3, <2>4, <2>6, <2>7, <2>8
<1>t. \A k \in Remotes : k \in told <=> k \in ks /\ r.src[k].known /\ r.src[k].has
  OBVIOUS
<1> HIDE DEF events, gone, told
<1>3. src \in [Keys -> Sources]
  BY <1>r DEF Sources, NoSource
<1>4. /\ \A k \in ks : src[k].known = FALSE
      /\ \A k \in Keys \ ks : src[k] = r.src[k]
  BY DEF NoSource
<1>5. /\ seat \in [Slots -> Seats]
      /\ \A s \in Slots : s \notin mine => seat[s] = r.seat[s]
      /\ \A s \in Slots : s \in mine => seat[s].on = FALSE
      /\ \A s \in Slots : s \in mine => seat[s].key = IF r.session = None THEN None ELSE r.seat[s].key
  <2>1. NoSeat \in Seats /\ NoSeat.on = FALSE /\ NoSeat.key = None
    BY DEF Seats, NoSeat
  <2>2. \A s \in Slots : LET x == [r.seat[s] EXCEPT !.on = FALSE]
                         IN  x \in Seats /\ x.on = FALSE /\ x.key = r.seat[s].key
    BY <1>r DEF Seats
  <2> HIDE DEF mine
  <2>3. \A s \in Slots : seat[s] = IF s \notin mine THEN r.seat[s]
                                   ELSE IF r.session = None THEN NoSeat
                                   ELSE [r.seat[s] EXCEPT !.on = FALSE]
    OBVIOUS
  <2>4. seat = [s \in Slots |-> seat[s]]
    OBVIOUS
  <2> HIDE DEF seat
  <2>5. \A s \in Slots : seat[s] \in Seats
    BY <1>r, <2>1, <2>2, <2>3
  <2>6. seat \in [Slots -> Seats]
    BY <2>4, <2>5
  <2> QED BY <2>1, <2>2, <2>3, <2>6
<1>6. held \subseteq Slots /\ \A s \in held : s \in r.held /\ s \notin mine
  BY <1>r
<1>m. \A s \in Slots : s \in mine <=> r.seat[s].key \in ks
  OBVIOUS
<1> HIDE DEF src, seat, held, mine
<1>7. /\ left \in Runtime /\ left.seat = seat /\ left.held = held /\ left.src = src
      /\ left.feedback = r.feedback /\ left.overflow = r.overflow /\ Same(r, left)
  <2>1. left \in Runtime
    BY <1>0, <1>3, <1>5, <1>6 DEF Runtime
  <2>2. left.seat = seat /\ left.held = held /\ left.src = src /\ left.feedback = r.feedback
        /\ left.overflow = r.overflow
    BY <1>0 DEF Runtime
  <2>3. Same(r, left)
    BY <1>0 DEF Runtime, Same
  <2> QED BY <2>1, <2>2, <2>3
<1> HIDE DEF left
<1>k. Known(left) = Known(r) \ ks
  BY <1>4, <1>7 DEF Known
<1>8. Good(left, P)
  <2>1. Seated(left)
    <3>1. ASSUME NEW s \in Slots, NEW t \in Slots, left.seat[s].key = left.seat[t].key, left.seat[s].key # None
          PROVE  s = t
      <4>1. left.seat[s].key = r.seat[s].key /\ left.seat[t].key = r.seat[t].key
        BY <1>5, <1>7, <3>1
      <4> QED BY <3>1, <4>1 DEF Loose, Seated
    <3>2. ASSUME NEW s \in Slots, left.seat[s].key # None
          PROVE  s <= left.count /\ (left.seat[s].on <=> left.src[left.seat[s].key].known)
      <4>1. left.seat[s].key = r.seat[s].key /\ r.seat[s].key \in Keys
        BY <1>5, <1>7, <1>r, <3>2
      <4>2. s <= r.count /\ (r.seat[s].on <=> r.src[r.seat[s].key].known)
        BY <1>0, <4>1 DEF Loose, Seated
      <4>3. CASE s \in mine
        <5>1. left.seat[s].on = FALSE /\ left.src[r.seat[s].key].known = FALSE
          BY <1>4, <1>5, <1>7, <1>m, <4>3
        <5> QED BY <1>7, <4>1, <4>2, <5>1 DEF Same
      <4>4. CASE s \notin mine
        <5>1. left.seat[s] = r.seat[s] /\ left.src[r.seat[s].key] = r.src[r.seat[s].key]
          BY <1>4, <1>5, <1>7, <1>m, <4>1, <4>4
        <5> QED BY <1>7, <4>1, <4>2, <5>1 DEF Same
      <4> QED BY <4>3, <4>4
    <3>3. ASSUME NEW s \in Slots, left.seat[s].key = None PROVE ~left.seat[s].on
      BY <1>5, <1>7, <3>3 DEF Loose, Seated
    <3> QED BY <3>1, <3>2, <3>3 DEF Seated
  <2>2. Armed(left, P)
    BY <1>4, <1>7 DEF Armed, Loose, Same
  <2>3. HeldOk(left, P)
    <3> SUFFICES ASSUME NEW s \in left.held
                 PROVE  /\ left.route /\ left.seat[s].on /\ left.seat[s].key \in P
                        /\ left.src[left.seat[s].key].held /\ ~left.src[left.seat[s].key].rearm
      BY DEF HeldOk
    <3>1. s \in Slots /\ s \in r.held /\ s \notin mine /\ r.seat[s].key \notin ks
      BY <1>6, <1>7, <1>m
    <3>2. /\ r.route /\ r.seat[s].on /\ r.seat[s].key \in P
          /\ r.src[r.seat[s].key].held /\ ~r.src[r.seat[s].key].rearm
      BY <3>1 DEF Loose
    <3>3. r.seat[s].key \in Keys
      BY <1>r, <3>1, <3>2 DEF Loose, Seated
    <3>4. left.seat[s] = r.seat[s] /\ left.src[r.seat[s].key] = r.src[r.seat[s].key]
      BY <1>4, <1>5, <1>7, <3>1, <3>3
    <3> QED BY <1>7, <3>2, <3>4 DEF Same
  <2>4. Silent(left) /\ Mirrored(left)
    BY <1>7, <1>k DEF Silent, Mirrored, Loose, Same
  <2> QED BY <1>7, <2>1, <2>2, <2>3, <2>4 DEF Good
<1>9. Keeps(r, left)
  BY <1>5, <1>7 DEF Keeps
<1>10. Core(left, Push(left, events)) /\ (Fits(left) => Fits(Push(left, events)))
  BY <1>2, <1>7, PushCore
<1>11. PICK p : p = Push(left, events)
  OBVIOUS
<1>12. Good(p, P) /\ Core(left, p) /\ (Fits(left) => Fits(p)) /\ d \in Rebalance(p)
  BY <1>1, <1>8, <1>10, <1>11, CoreGood
<1>13. Good(d, P) /\ Full(d) /\ Keeps(p, d) /\ Seating(p, d)
  BY <1>12, RebalanceGood
<1>14. Keeps(r, d)
  BY <1>7, <1>9, <1>12, <1>13 DEF Keeps, Seating, Core, Same
<1>15. Without(r, d, ks)
  <2>1. Same(r, d) /\ d \in Runtime
    BY <1>7, <1>12, <1>13 DEF Seating, Core, Same
  <2>2. Fits(r) => Fits(d)
    BY <1>7, <1>12, <1>13 DEF Seating, Fits
  <2>3. \A k \in Keys : /\ d.src[k].known <=> src[k].known
                        /\ d.src[k].has = src[k].has /\ d.src[k].held = src[k].held
    BY <1>7, <1>12, <1>13 DEF Seating, Core
  <2>4. \A k \in ks : ~d.src[k].known
    BY <1>4, <2>3
  <2>5. \A k \in Keys \ ks : /\ d.src[k].known <=> r.src[k].known
                             /\ d.src[k].has = r.src[k].has /\ d.src[k].held = r.src[k].held
    BY <1>4, <2>3
  <2> QED BY <2>1, <2>2, <2>4, <2>5 DEF Without
<1>16. ASSUME Fits(r), ~r.overflow PROVE Tells(r, d)
  <2>0. Remotes \subseteq Keys
    BY DEF Keys
  <2>1. ASSUME NEW m \in Mappers, Shows(m, r)
        PROVE  MapsAll(m, events) /\ Shows(MapAll(m, events), left)
    <3>1. /\ MapsAll(m, events)
          /\ \A k \in Remotes : MapAll(m, events).remote[k] =
                IF \E i \in 1..Len(events) : events[i].key = k THEN "absent" ELSE m.remote[k]
      BY <1>2, MapGone
    <3>2. ASSUME NEW k \in Remotes PROVE MapAll(m, events).remote[k] = StateOf(left, k)
      <4>1. (\E i \in 1..Len(events) : events[i].key = k) <=> k \in told
        BY <1>2
      <4>2. m.remote[k] = StateOf(r, k)
        BY <2>1 DEF Shows
      <4>3. CASE k \in ks
        <5>1. StateOf(left, k) = "absent"
          BY <1>4, <1>7, <4>3 DEF StateOf
        <5>2. k \notin told => StateOf(r, k) = "absent"
          BY <1>t, <4>3 DEF StateOf
        <5> QED BY <3>1, <4>1, <4>2, <5>1, <5>2
      <4>4. CASE k \notin ks
        <5>1. left.src[k] = r.src[k] /\ k \notin told
          BY <1>4, <1>7, <1>t, <2>0, <4>4
        <5>2. StateOf(left, k) = StateOf(r, k)
          BY <5>1 DEF StateOf
        <5> QED BY <3>1, <4>1, <4>2, <5>1, <5>2
      <4> QED BY <4>3, <4>4
    <3> QED BY <3>1, <3>2 DEF Shows
  <2>2. Tells(r, Push(left, events))
    BY <1>0, <1>2, <1>7, <1>16, <2>1, PushTells
  <2>3. Quiet(p, d)
    BY <1>13, SeatingQuiet
  <2> QED BY <1>11, <2>2, <2>3, QuietTells
<1> QED BY <1>13, <1>14, <1>15, <1>16

\* Any source may go from a good runtime.
LEMMA GoodIsLoose ==
    ASSUME NEW r, NEW P, Good(r, P), NEW ks
    PROVE  Loose(r, P, ks)
<1>1. r.recovery => Known(r) \subseteq ks /\ r.mirror = None /\ ~r.route
  BY DEF Good, Silent
<1>2. r \in Runtime /\ Seated(r) /\ Armed(r, P) /\ HeldOk(r, P) /\ Mirrored(r)
  BY DEF Good
<1> QED BY <1>1, <1>2 DEF Loose, Armed, HeldOk, Mirrored

\* More sources whose presses count.
LEMMA GoodMono ==
    ASSUME NEW r, NEW P, NEW Q, Good(r, P), P \subseteq Q
    PROVE  Good(r, Q)
BY DEF Good, Armed, HeldOk

\* SeatRuntime::unbind.
LEMMA UnbindGood ==
    ASSUME NEW r, NEW P, Good(r, P), Fits(r), NEW d \in Unbind(r)
    PROVE  /\ Good(d, P) /\ Full(d) /\ Keeps(r, d) /\ Fits(d)
           /\ d.mirror = None /\ d.session = r.session /\ d.recovery = r.recovery
           /\ d.route = r.route /\ (~r.overflow => Tells(r, d))
<1> DEFINE m == [r EXCEPT !.mirror = None]
           ks == Known(r) \cap Remotes
<1>0. r \in Runtime
  BY DEF Good
<1>1. /\ m \in Runtime /\ m.mirror = None /\ m.session = r.session /\ m.count = r.count
      /\ m.order = r.order /\ m.route = r.route /\ m.recovery = r.recovery
      /\ m.src = r.src /\ m.seat = r.seat /\ m.held = r.held /\ m.feedback = r.feedback
      /\ m.overflow = r.overflow
  BY <1>0 DEF Runtime
<1>2. d \in DropSources(m, ks) /\ ks \in SUBSET Keys
  BY DEF Unbind, Known
<1> HIDE DEF m
<1>k. Known(m) = Known(r)
  BY <1>1 DEF Known
<1>3. Loose(m, P, ks)
  <2>1. Seated(m) /\ m \in Runtime
    BY <1>1 DEF Good, Seated
  <2>2. \A k \in Keys : m.src[k].known /\ ~m.src[k].rearm =>
                        m.src[k].has /\ (m.route /\ m.src[k].held => k \in P)
    BY <1>1 DEF Good, Armed
  <2>3. \A s \in m.held : /\ m.route /\ m.seat[s].on /\ m.seat[s].key \in P
                          /\ m.src[m.seat[s].key].held /\ ~m.src[m.seat[s].key].rearm
    BY <1>1 DEF Good, HeldOk
  <2>4. m.recovery => Known(m) \subseteq ks /\ m.mirror = None /\ ~m.route
    BY <1>1, <1>k DEF Good, Silent
  <2>5. (m.route => m.session # None) /\ Known(m) \cap Guests = {}
    BY <1>1, <1>k DEF Good, Mirrored
  <2> QED BY <1>1, <1>k, <2>1, <2>2, <2>3, <2>4, <2>5 DEF Loose
<1> HIDE DEF ks
<1>4. /\ Good(d, P) /\ Full(d) /\ Keeps(m, d) /\ Without(m, d, ks)
      /\ Fits(m) /\ ~m.overflow => Tells(m, d)
  BY <1>2, <1>3, DropGood
<1>q. Quiet(r, m)
  BY <1>1 DEF Quiet, StateOf
<1>t. ~r.overflow => Tells(r, d)
  BY <1>1, <1>4, <1>q, QuietTells DEF Fits
<1>5. Keeps(r, d)
  BY <1>1, <1>4 DEF Keeps
<1>6. Fits(d)
  BY <1>1, <1>4 DEF Fits, Without
<1> QED BY <1>1, <1>4, <1>5, <1>6, <1>t DEF Without, Same

\* SeatRuntime::coordinator_lost: nothing is pressed and nobody is known, but the
\* session and its seats stay.
LEMMA LostGood ==
    ASSUME NEW r, NEW P, Good(r, P), NEW d \in CoordinatorLost(r)
    PROVE  /\ Good(d, {}) /\ Full(d) /\ Keeps(r, d) /\ Fits(d) /\ ~d.overflow
           /\ d.mirror = None /\ d.session = r.session /\ d.recovery
           /\ d.feedback = <<>> /\ ~d.route
<1> DEFINE m == [r EXCEPT !.recovery = TRUE, !.route = FALSE, !.mirror = None]
           ks == Known(r)
<1>0. r \in Runtime /\ None \notin Keys
  BY SeatConstants DEF Good
<1>1. /\ m \in Runtime /\ m.mirror = None /\ m.session = r.session /\ m.count = r.count
      /\ m.order = r.order /\ m.route = FALSE /\ m.recovery = TRUE
      /\ m.src = r.src /\ m.seat = r.seat /\ m.held = r.held
  BY <1>0 DEF Runtime
<1>2. PICK b \in DropSources(m, ks) : d = [b EXCEPT !.held = {}, !.feedback = <<>>, !.overflow = FALSE]
  BY DEF CoordinatorLost
<1>3. ks \in SUBSET Keys
  BY DEF Known
<1> HIDE DEF m
<1>k. Known(m) = Known(r)
  BY <1>1 DEF Known
<1>4. Loose(m, {}, ks)
  <2>1. Seated(m) /\ m \in Runtime
    BY <1>1 DEF Good, Seated
  <2>2. \A k \in Keys \ ks : ~m.src[k].known
    BY <1>1 DEF Known
  <2>3. \A s \in m.held : m.seat[s].key \in ks
    <3> SUFFICES ASSUME NEW s \in r.held PROVE r.seat[s].key \in ks
      BY <1>1
    <3>1. s \in Slots /\ r.seat[s].key \in Keys \cup {None}
      BY <1>0, RuntimeFields
    <3>2. r.seat[s].on
      BY DEF Good, HeldOk
    <3>3. r.seat[s].key # None /\ r.src[r.seat[s].key].known
      BY <3>1, <3>2 DEF Good, Seated
    <3> QED BY <3>1, <3>3 DEF Known
  <2>5. Known(m) \cap Guests = {}
    BY <1>1, <1>k DEF Good, Mirrored
  <2> QED BY <1>1, <1>k, <2>1, <2>2, <2>3, <2>5 DEF Loose
<1>5. Good(b, {}) /\ Full(b) /\ Keeps(m, b) /\ Without(m, b, ks)
  BY <1>2, <1>3, <1>4, DropGood
<1>6. b \in Runtime
  BY <1>5 DEF Good
<1>7. /\ d \in Runtime /\ Same(b, d) /\ d.src = b.src /\ d.seat = b.seat
      /\ d.held = {} /\ d.feedback = <<>> /\ d.overflow = FALSE
  <2>1. <<>> \in Seq(Event)
    OBVIOUS
  <2>2. PICK e : e = <<>> /\ e \in Seq(Event)
    BY <2>1
  <2>3. d = [b EXCEPT !.held = {}, !.feedback = e, !.overflow = FALSE]
    BY <1>2, <2>2
  <2>4. d \in Runtime
    BY <1>6, <2>2, <2>3 DEF Runtime
  <2>5. /\ Same(b, d) /\ d.src = b.src /\ d.seat = b.seat
        /\ d.held = {} /\ d.feedback = e /\ d.overflow = FALSE
    BY <1>6, <2>3 DEF Runtime, Same
  <2> QED BY <2>2, <2>4, <2>5
<1>8. b.held = {}
  <2> SUFFICES ASSUME NEW s \in b.held PROVE FALSE
    OBVIOUS
  <2> QED BY <1>5 DEF Good, HeldOk
<1>9. Core(b, d)
  BY <1>7, <1>8 DEF Core
<1>10. Good(d, {}) /\ Full(d) /\ Keeps(b, d)
  BY <1>5, <1>9, CoreGood
<1>11. Keeps(r, d)
  BY <1>1, <1>5, <1>7 DEF Keeps, Without, Same
<1>12. Fits(d)
  BY <1>7, SeatConstants DEF Fits
<1> QED BY <1>1, <1>5, <1>7, <1>10, <1>11, <1>12 DEF Without, Same

\* SeatRuntime::set_route: whatever is held counts only after a release.
LEMMA SetRouteGood ==
    ASSUME NEW r, NEW P, Good(r, P), NEW game \in BOOLEAN,
           game => r.session # None /\ ~r.recovery
    PROVE  LET d == SetRoute(r, game)
           IN  /\ Good(d, {}) /\ Keeps(r, d) /\ (Full(r) => Full(d)) /\ (Fits(r) => Fits(d))
               /\ d.mirror = r.mirror /\ d.session = r.session /\ d.recovery = r.recovery
               /\ d.route = game /\ Quiet(r, d)
<1> DEFINE src == [k \in Keys |-> IF r.src[k].known THEN [r.src[k] EXCEPT !.rearm = TRUE]
                                                    ELSE r.src[k]]
           d == SetRoute(r, game)
<1>0. r \in Runtime /\ \A k \in Keys : r.src[k] \in Sources
  BY RuntimeFields DEF Good
<1>1. \A k \in Keys : LET x == [r.src[k] EXCEPT !.rearm = TRUE]
                      IN  /\ x \in Sources /\ x.known = r.src[k].known /\ x.rearm = TRUE
                          /\ x.held = r.src[k].held /\ x.has = r.src[k].has
  BY <1>0 DEF Sources
<1>2. /\ src \in [Keys -> Sources]
      /\ \A k \in Keys : /\ src[k].known = r.src[k].known /\ (src[k].known => src[k].rearm)
                         /\ src[k].held = r.src[k].held /\ src[k].has = r.src[k].has
  BY <1>0, <1>1
<1>3. d = [r EXCEPT !.route = game, !.held = {}, !.src = src]
  BY DEF SetRoute
<1> HIDE DEF src, d
<1>4. /\ d \in Runtime /\ d.src = src /\ d.seat = r.seat /\ d.held = {} /\ d.route = game
      /\ d.mirror = r.mirror /\ d.session = r.session /\ d.recovery = r.recovery
      /\ d.count = r.count /\ d.order = r.order
      /\ d.feedback = r.feedback /\ d.overflow = r.overflow
  BY <1>0, <1>2, <1>3 DEF Runtime
<1>5. Known(d) = Known(r)
  <2>1. \A k \in Keys : d.src[k].known = r.src[k].known
    BY <1>2, <1>4
  <2> QED BY <2>1 DEF Known
<1>6. Seated(d)
  <2>1. \A s \in Slots : r.seat[s].key # None => r.seat[s].key \in Keys
    BY <1>0, RuntimeFields
  <2>2. \A s \in Slots : r.seat[s].key # None => src[r.seat[s].key].known = r.src[r.seat[s].key].known
    BY <1>2, <2>1
  <2> QED BY <1>4, <2>2 DEF Good, Seated
<1>7. Armed(d, {}) /\ HeldOk(d, {})
  BY <1>2, <1>4 DEF Armed, HeldOk
<1>8. Silent(d) /\ Mirrored(d)
  BY <1>4, <1>5 DEF Good, Silent, Mirrored
<1>9. Full(r) => Full(d)
  BY <1>4, <1>5 DEF Full, Free, FirstPress, Bound
<1>10. Quiet(r, d)
  <2>1. Remotes \subseteq Keys
    BY DEF Keys
  <2>2. \A k \in Remotes : StateOf(d, k) = StateOf(r, k)
    BY <1>2, <1>4, <2>1 DEF StateOf
  <2> QED BY <1>4, <2>2 DEF Quiet
<1> QED BY <1>4, <1>6, <1>7, <1>8, <1>9, <1>10 DEF Good, Keeps, Fits, d

\* SeatPool::end_session, once the input is off and no stream client is left.
LEMMA EndReservationsGood ==
    ASSUME NEW r, NEW P, Good(r, P), ~r.route, r.mirror = None
    PROVE  LET d == EndReservations(r)
           IN  /\ Good(d, P) /\ (Fits(r) => Fits(d))
               /\ d.mirror = None /\ d.session = None /\ d.recovery = r.recovery /\ Quiet(r, d)
<1> DEFINE seat == [s \in Slots |-> IF r.seat[s].on THEN r.seat[s] ELSE NoSeat]
           held == {s \in r.held : r.seat[s].on}
           d == EndReservations(r)
<1>0. r \in Runtime /\ r.held \subseteq Slots /\ \A s \in Slots : r.seat[s] \in Seats
  BY RuntimeFields DEF Good
<1>1. NoSeat \in Seats /\ NoSeat.key = None /\ NoSeat.on = FALSE
  BY DEF Seats, NoSeat
<1>2. /\ seat \in [Slots -> Seats]
      /\ \A s \in Slots : seat[s] = r.seat[s] \/ seat[s] = NoSeat
  BY <1>0, <1>1
<1>3. held = {}
  BY DEF Good, HeldOk
<1>4. d = [r EXCEPT !.session = None, !.order = "Attached", !.seat = seat, !.held = held]
  BY DEF EndReservations
<1> HIDE DEF seat, held, d
<1>5. "Attached" \in Orders /\ None \in Launches \cup {None} /\ held \subseteq Slots
  BY <1>3 DEF Orders
<1>6. /\ d \in Runtime /\ d.src = r.src /\ d.seat = seat /\ d.held = {} /\ d.route = r.route
      /\ d.mirror = r.mirror /\ d.session = None /\ d.recovery = r.recovery
      /\ d.count = r.count /\ d.feedback = r.feedback /\ d.overflow = r.overflow
  BY <1>0, <1>2, <1>3, <1>4, <1>5 DEF Runtime
<1>7. Known(d) = Known(r)
  BY <1>6 DEF Known
<1>8. Seated(d)
  BY <1>1, <1>2, <1>6 DEF Good, Seated
<1>9. Armed(d, P) /\ HeldOk(d, P)
  BY <1>6 DEF Good, Armed, HeldOk
<1>10. Silent(d) /\ Mirrored(d)
  BY <1>6, <1>7 DEF Good, Silent, Mirrored
<1>11. Quiet(r, d)
  BY <1>6 DEF Quiet, StateOf
<1> QED BY <1>6, <1>8, <1>9, <1>10, <1>11 DEF Good, Fits, d

\* SeatPool::resize, which happens outside sessions only.
LEMMA ResizeGood ==
    ASSUME NEW r, NEW P, Good(r, P), r.session = None, NEW n \in Slots
    PROVE  LET d == Resize(r, n)
           IN  /\ Good(d, P) /\ (Fits(r) => Fits(d))
               /\ d.mirror = r.mirror /\ d.session = None /\ d.recovery = r.recovery
               /\ d.route = r.route /\ Quiet(r, d)
<1> DEFINE seat == [s \in Slots |-> IF s <= n THEN r.seat[s] ELSE NoSeat]
           d == Resize(r, n)
<1>1. CASE n = r.count
  BY <1>1 DEF Resize, Quiet
<1>2. CASE n # r.count
  <2>0. r \in Runtime /\ \A s \in Slots : r.seat[s] \in Seats
    BY RuntimeFields DEF Good
  <2>1. NoSeat \in Seats /\ NoSeat.key = None /\ NoSeat.on = FALSE
    BY DEF Seats, NoSeat
  <2>2. /\ seat \in [Slots -> Seats]
        /\ \A s \in Slots : (seat[s] = r.seat[s] /\ s <= n) \/ seat[s] = NoSeat
    BY <2>0, <2>1
  <2>3. d = [r EXCEPT !.count = n, !.held = {}, !.seat = seat]
    BY <1>2 DEF Resize
  <2> HIDE DEF seat, d
  <2>4. /\ d \in Runtime /\ d.src = r.src /\ d.seat = seat /\ d.held = {} /\ d.route = r.route
        /\ d.mirror = r.mirror /\ d.session = None /\ d.recovery = r.recovery
        /\ d.count = n /\ d.feedback = r.feedback /\ d.overflow = r.overflow
    BY <2>0, <2>2, <2>3 DEF Runtime
  <2>5. Known(d) = Known(r)
    BY <2>4 DEF Known
  <2>6. Seated(d)
    BY <2>1, <2>2, <2>4 DEF Good, Seated
  <2>7. Armed(d, P) /\ HeldOk(d, P)
    BY <2>4 DEF Good, Armed, HeldOk
  <2>8. Silent(d) /\ Mirrored(d)
    BY <2>4, <2>5 DEF Good, Silent, Mirrored
  <2>9. Quiet(r, d)
    BY <2>4 DEF Quiet, StateOf
  <2> QED BY <2>4, <2>6, <2>7, <2>8, <2>9 DEF Good, Fits, d
<1> QED BY <1>1, <1>2

(* What a step of the receiver leaves behind, with Q the presses that count.   *)
Served(r, d, Q) == /\ Good(d, Q) /\ Full(d) /\ Keeps(r, d) /\ Fits(d)
                   /\ d.mirror \in {None, r.mirror}

(* Sources that are released: their next press counts.                         *)
Fresh(r) == {k \in Keys : r.src[k].known /\ r.src[k].has /\ ~r.src[k].held}

(* The session and the route are what they were.                               *)
Stays(r, d) == d.session = r.session /\ d.route = r.route

\* A step about one source that is not the stream client's.
LEMMA OtherQuiet ==
    ASSUME NEW r, NEW d, NEW k, k \notin Remotes, d.feedback = r.feedback, d.overflow = r.overflow,
           \A j \in Keys : j # k => d.src[j] = r.src[j]
    PROVE  Quiet(r, d)
<1>1. \A j \in Remotes : d.src[j] = r.src[j]
  BY DEF Keys
<1> QED BY <1>1 DEF Quiet, StateOf

\* A runtime is told of what it is.
LEMMA SelfTells == ASSUME NEW r PROVE Tells(r, r)
BY DEF Tells, Agrees

\* A refusal changes nothing.
LEMMA RefusedServed ==
    ASSUME NEW r, NEW P, Good(r, P), Full(r), Fits(r), NEW a \in Refused(r)
    PROVE  Served(r, a.rt, P) /\ a.ok = FALSE /\ Tells(r, a.rt) /\ Stays(r, a.rt)
<1>1. a.rt = r /\ a.ok = FALSE
  BY DEF Refused
<1>2. Served(r, r, P)
  BY DEF Served, Keeps
<1> QED BY <1>1, <1>2, SelfTells DEF Stays

\* SeatRuntime::apply, ApplyCount: the pool is resized and the seats handed out again.
LEMMA ApplyCountServed ==
    ASSUME NEW r, NEW P, Good(r, P), Full(r), Fits(r), NEW q, q.count \in Slots,
           NEW a \in ApplyCount(r, q)
    PROVE  Served(r, a.rt, P) /\ a.ok \in BOOLEAN /\ (~r.overflow => Tells(r, a.rt)) /\ Stays(r, a.rt)
<1>1. CASE r.session # None
  <2>1. a \in Refused(r)
    BY <1>1 DEF ApplyCount
  <2> QED BY <2>1, RefusedServed
<1>2. CASE r.session = None
  <2>1. PICK b \in Rebalance(Resize(r, q.count)) : a = Done([b EXCEPT !.recovery = FALSE])
    BY <1>2 DEF ApplyCount
  <2>2. PICK z : z = Resize(r, q.count)
    OBVIOUS
  <2>3. /\ Good(z, P) /\ Fits(z) /\ z.mirror = r.mirror /\ z.session = None
        /\ z.route = r.route /\ Quiet(r, z)
    BY <1>2, <2>2, ResizeGood
  <2>4. Good(b, P) /\ Full(b) /\ Seating(z, b)
    BY <2>1, <2>2, <2>3, RebalanceGood
  <2>5. PICK d : d = [b EXCEPT !.recovery = FALSE]
    OBVIOUS
  <2>6. b \in Runtime
    BY <2>4 DEF Good
  <2>7. /\ d \in Runtime /\ d.src = b.src /\ d.seat = b.seat /\ d.held = b.held /\ d.route = b.route
        /\ d.mirror = b.mirror /\ d.session = b.session /\ d.recovery = FALSE
        /\ d.count = b.count /\ d.order = b.order /\ d.feedback = b.feedback
        /\ d.overflow = b.overflow
    BY <2>5, <2>6 DEF Runtime
  <2>8. Known(d) = Known(b)
    BY <2>7 DEF Known
  <2>9. Seated(d) /\ Armed(d, P) /\ HeldOk(d, P)
    BY <2>4, <2>7 DEF Good, Seated, Armed, HeldOk
  <2>10. Silent(d) /\ Mirrored(d)
    BY <2>4, <2>7, <2>8 DEF Good, Silent, Mirrored
  <2>11. Full(d)
    BY <2>4, <2>7, <2>8 DEF Full, Free, FirstPress, Bound
  <2>12. Fits(d)
    BY <2>3, <2>4, <2>7 DEF Fits, Seating
  <2>13. d.mirror = r.mirror
    BY <2>3, <2>4, <2>7 DEF Seating, Same
  <2>14. Keeps(r, d)
    BY <1>2 DEF Keeps
  <2>15. Tells(r, d)
    <3>1. Quiet(z, b) /\ Quiet(b, d)
      BY <2>4, <2>7, SeatingQuiet DEF Quiet, StateOf
    <3> QED BY <2>3, <3>1, QuietTells
  <2>16. Stays(r, d)
    BY <1>2, <2>3, <2>4, <2>7 DEF Stays, Seating, Same
  <2>17. Served(r, d, P)
    BY <2>7, <2>9, <2>10, <2>11, <2>12, <2>13, <2>14 DEF Served, Good
  <2>18. a.rt = d /\ a.ok = TRUE
    BY <2>1, <2>5 DEF Done
  <2> QED BY <2>15, <2>16, <2>17, <2>18
<1> QED BY <1>1, <1>2

\* BeginSession: a kept session is taken up again, or a new one begins.
LEMMA BeginSessionServed ==
    ASSUME NEW r, NEW P, Good(r, P), Full(r), Fits(r), NEW q, q.launch \in Launches, q.order \in Orders,
           NEW a \in BeginSession(r, q)
    PROVE  Served(r, a.rt, P) /\ a.ok \in BOOLEAN /\ (~r.overflow => Tells(r, a.rt)) /\ (~a.ok => Stays(r, a.rt))
<1>0. r \in Runtime /\ None \notin Launches
  BY SeatConstants DEF Good
<1>1. CASE r.recovery /\ r.session = q.launch
  <2>1. PICK d : d = [r EXCEPT !.order = q.order, !.recovery = FALSE] /\ a = Done(d)
    BY <1>1 DEF BeginSession
  <2>2. /\ d \in Runtime /\ d.src = r.src /\ d.seat = r.seat /\ d.held = r.held /\ d.route = r.route
        /\ d.mirror = r.mirror /\ d.session = r.session /\ d.recovery = FALSE
        /\ d.count = r.count /\ d.feedback = r.feedback /\ d.overflow = r.overflow
    BY <1>0, <2>1 DEF Runtime
  <2>3. Known(d) = {}
    BY <1>1, <2>2 DEF Known, Good, Silent
  <2>4. Seated(d) /\ Armed(d, P) /\ HeldOk(d, P)
    BY <2>2 DEF Good, Seated, Armed, HeldOk
  <2>5. Silent(d) /\ Mirrored(d)
    BY <2>2, <2>3 DEF Good, Silent, Mirrored
  <2>6. Full(d) /\ Keeps(r, d)
    BY <2>2, <2>3 DEF Full, Keeps
  <2>7. Quiet(r, d)
    BY <2>2 DEF Quiet, StateOf
  <2>8. Served(r, d, P)
    BY <2>2, <2>4, <2>5, <2>6 DEF Served, Good, Fits
  <2>9. a.rt = d /\ a.ok = TRUE
    BY <2>1 DEF Done
  <2> QED BY <2>7, <2>8, <2>9, QuietTells
<1>2. CASE ~(r.recovery /\ r.session = q.launch) /\ (~Ready(r) \/ r.session # None)
  <2>1. a \in Refused(r)
    BY <1>2 DEF BeginSession
  <2> QED BY <2>1, RefusedServed
<1>3. CASE ~(r.recovery /\ r.session = q.launch) /\ Ready(r) /\ r.session = None
  <2>1. PICK b : /\ b = [r EXCEPT !.session = q.launch, !.order = q.order]
                 /\ a = Done(IF q.order = "FirstPress" THEN ReleaseAll(b) ELSE b)
    BY <1>3 DEF BeginSession
  <2>2. /\ b \in Runtime /\ b.src = r.src /\ b.seat = r.seat /\ b.held = r.held /\ b.route = r.route
        /\ b.mirror = r.mirror /\ b.session = q.launch /\ b.recovery = r.recovery /\ b.order = q.order
        /\ b.count = r.count /\ b.feedback = r.feedback /\ b.overflow = r.overflow
    BY <1>0, <2>1 DEF Runtime
  <2>3. Known(b) = Known(r)
    BY <2>2 DEF Known
  <2>m. r.mirror = None /\ ~r.route /\ ~r.recovery /\ r.held = {}
    BY <1>0, <1>3, RuntimeFields DEF Good, Mirrored, HeldOk, Ready
  <2>4. CASE q.order # "FirstPress"
    <3>1. a = Done(b)
      BY <2>1, <2>4
    <3>2. Seated(b) /\ Armed(b, P) /\ HeldOk(b, P)
      BY <2>2 DEF Good, Seated, Armed, HeldOk
    <3>3. Silent(b) /\ Mirrored(b)
      BY <2>2, <2>3, <2>m DEF Good, Silent, Mirrored
    <3>4. Full(b)
      BY <1>3, <2>2, <2>3 DEF Full, Free, FirstPress, Bound
    <3>5. Quiet(r, b)
      BY <2>2 DEF Quiet, StateOf
    <3>6. Served(r, b, P)
      BY <1>3, <2>2, <3>2, <3>3, <3>4 DEF Served, Good, Fits, Keeps
    <3>7. a.rt = b /\ a.ok = TRUE
      BY <3>1 DEF Done
    <3> QED BY <3>5, <3>6, <3>7, QuietTells
  <2>5. CASE q.order = "FirstPress"
    <3> DEFINE seat == [s \in Slots |-> NoSeat]
    <3>1. PICK d : d = ReleaseAll(b) /\ a = Done(d)
      BY <2>1, <2>5
    <3>2. seat \in [Slots -> Seats] /\ \A s \in Slots : seat[s].key = None /\ seat[s].on = FALSE
      BY DEF Seats, NoSeat
    <3>3. d = [b EXCEPT !.seat = seat, !.held = {}]
      BY <3>1 DEF ReleaseAll
    <3> HIDE DEF seat
    <3>4. /\ d \in Runtime /\ d.src = b.src /\ d.seat = seat /\ d.held = {} /\ d.route = b.route
          /\ d.mirror = b.mirror /\ d.session = b.session /\ d.recovery = b.recovery /\ d.order = b.order
          /\ d.count = b.count /\ d.feedback = b.feedback /\ d.overflow = b.overflow
      BY <2>2, <3>2, <3>3 DEF Runtime
    <3>5. Known(d) = Known(r)
      BY <2>2, <3>4 DEF Known
    <3>6. Seated(d) /\ HeldOk(d, P)
      BY <3>2, <3>4 DEF Seated, HeldOk
    <3>7. Armed(d, P)
      BY <2>2, <3>4 DEF Good, Armed
    <3>8. Silent(d) /\ Mirrored(d)
      BY <2>2, <2>m, <3>4, <3>5 DEF Good, Silent, Mirrored
    <3>9. Full(d)
      BY <1>0, <2>2, <2>5, <3>4 DEF Full, FirstPress
    <3>10. Quiet(r, d)
      BY <2>2, <3>4 DEF Quiet, StateOf
    <3>11. Served(r, d, P)
      BY <1>3, <2>2, <3>4, <3>6, <3>7, <3>8, <3>9 DEF Served, Good, Fits, Keeps
    <3>12. a.rt = d /\ a.ok = TRUE
      BY <3>1 DEF Done
    <3> QED BY <3>10, <3>11, <3>12, QuietTells
  <2> QED BY <2>4, <2>5
<1> QED BY <1>1, <1>2, <1>3

\* EndSession: every press has to begin anew afterwards.
LEMMA EndSessionServed ==
    ASSUME NEW r, NEW P, Good(r, P), Full(r), Fits(r), NEW q, q.launch \in Launches,
           NEW a \in EndSession(r, q)
    PROVE  /\ Served(r, a.rt, IF a.ok THEN {} ELSE P) /\ a.ok \in BOOLEAN
           /\ ~r.overflow => Tells(r, a.rt)
           /\ ~a.ok => Stays(r, a.rt)
<1>0. None \notin Launches
  BY SeatConstants
<1>1. CASE r.session # q.launch
  <2>1. a \in Refused(r)
    BY <1>1 DEF EndSession
  <2> QED BY <2>1, RefusedServed
<1>2. CASE r.session = q.launch
  <2>1. PICK u \in Unbind(r) : a \in {Done(b) : b \in Rebalance(EndReservations(SetRoute(u, FALSE)))}
    BY <1>2 DEF EndSession
  <2>2. PICK e : e = SetRoute(u, FALSE)
    OBVIOUS
  <2>3. PICK g : g = EndReservations(e)
    OBVIOUS
  <2>4. PICK b \in Rebalance(g) : a = Done(b)
    BY <2>1, <2>2, <2>3
  <2>5. Good(u, P) /\ Fits(u) /\ u.mirror = None /\ (~r.overflow => Tells(r, u))
    BY <2>1, UnbindGood
  <2>6. Good(e, {}) /\ Fits(e) /\ e.mirror = None /\ ~e.route /\ Quiet(u, e)
    BY <2>2, <2>5, SetRouteGood
  <2>7. Good(g, {}) /\ Fits(g) /\ g.mirror = None /\ g.session = None /\ Quiet(e, g)
    BY <2>3, <2>6, EndReservationsGood
  <2>8. Good(b, {}) /\ Full(b) /\ Seating(g, b)
    BY <2>4, <2>7, RebalanceGood
  <2>9. Fits(b) /\ b.mirror = None /\ b.session = None
    BY <2>7, <2>8 DEF Seating, Same, Fits
  <2>10. Keeps(r, b)
    BY <1>0, <1>2, <2>9 DEF Keeps
  <2>11. Served(r, b, {})
    BY <2>8, <2>9, <2>10 DEF Served
  <2>12. a.rt = b /\ a.ok = TRUE
    BY <2>4 DEF Done
  <2>13. ~r.overflow => Tells(r, b)
    <3>1. Quiet(g, b)
      BY <2>8, SeatingQuiet
    <3> QED BY <2>5, <2>6, <2>7, <3>1, QuietTells
  <2> QED BY <2>11, <2>12, <2>13
<1> QED BY <1>1, <1>2

\* Route: every press has to begin anew afterwards.
LEMMA RouteServed ==
    ASSUME NEW r, NEW P, Good(r, P), Full(r), Fits(r), NEW q, q.launch \in Launches \cup {None},
           NEW a \in Route(r, q)
    PROVE  /\ Served(r, a.rt, IF a.ok THEN {} ELSE P) /\ a.ok \in BOOLEAN
           /\ ~r.overflow => Tells(r, a.rt)
           /\ ~a.ok => Stays(r, a.rt)
           /\ a.ok => /\ a.rt.session = r.session /\ q.launch \in {None, r.session}
                      /\ a.rt.route <=> q.launch # None
<1>1. CASE ~Ready(r) \/ q.launch \notin {None, r.session}
  <2>1. a \in Refused(r)
    BY <1>1 DEF Route
  <2> QED BY <2>1, RefusedServed
<1>2. CASE Ready(r) /\ q.launch \in {None, r.session}
  <2>1. PICK game \in BOOLEAN : game = (q.launch # None)
    OBVIOUS
  <2>2. PICK d : d = SetRoute(r, game) /\ a = Done(d)
    BY <1>2, <2>1 DEF Route
  <2>3. game => r.session # None /\ ~r.recovery
    BY <1>2, <2>1 DEF Ready
  <2>4. /\ Good(d, {}) /\ Keeps(r, d) /\ Full(d) /\ Fits(d) /\ d.mirror = r.mirror
        /\ d.session = r.session /\ d.route = game /\ Quiet(r, d)
    BY <2>2, <2>3, SetRouteGood
  <2>5. a.rt = d /\ a.ok = TRUE
    BY <2>2 DEF Done
  <2>6. Served(r, d, {})
    BY <2>4 DEF Served
  <2>7. Tells(r, d)
    BY <2>4, QuietTells
  <2>8. (d.route <=> q.launch # None) /\ q.launch \in {None, r.session}
    BY <1>2, <2>1, <2>4
  <2> QED BY <2>4, <2>5, <2>6, <2>7, <2>8
<1> QED BY <1>1, <1>2

\* ReserveNetplay: a seat for a guest that is not there yet.
LEMMA ReserveNetplayServed ==
    ASSUME NEW r, NEW P, Good(r, P), Full(r), Fits(r), NEW q, q.key \in Guests,
           NEW a \in ReserveNetplay(r, q)
    PROVE  Served(r, a.rt, P) /\ a.ok \in BOOLEAN /\ (~r.overflow => Tells(r, a.rt)) /\ Stays(r, a.rt)
<1> DEFINE k == q.key
           s0 == FirstFree(r)
           seat == [r.seat EXCEPT ![s0] = [key |-> k, on |-> FALSE]]
           held == r.held \ {s0}
<1>0. r \in Runtime /\ None \notin Keys /\ k \in Keys
  BY SeatConstants DEF Good, Keys
<1>r. /\ r.held \subseteq Slots /\ r.seat \in [Slots -> Seats] /\ r.count \in Slots
      /\ \A s \in Slots : r.seat[s].key \in Keys \cup {None}
  BY <1>0, RuntimeFields
<1>1. CASE a \in Refused(r)
  BY <1>1, RefusedServed
<1>2. CASE a = Done(r)
  <2>1. a.rt = r /\ a.ok = TRUE
    BY <1>2 DEF Done
  <2> QED BY <2>1, SelfTells DEF Served, Keeps, Stays
<1>3. CASE /\ ~Bound(r, k) /\ Free(r) # {} /\ Ready(r)
           /\ a = Done([r EXCEPT !.seat[FirstFree(r)] = [key |-> q.key, on |-> FALSE],
                                 !.held = r.held \ {FirstFree(r)}])
  <2>1. s0 \in Slots /\ r.seat[s0].key = None /\ s0 <= r.count
    <3>1. Free(r) \in SUBSET Nat /\ Free(r) \subseteq Slots
      BY <1>r, SeatConstants DEF Free, Slots
    <3>2. \E n \in Free(r) : \A m \in Free(r) : n <= m
      BY <1>3, <3>1, Least
    <3>3. FirstFree(r) \in Free(r)
      BY <3>2 DEF FirstFree
    <3> QED BY <3>1, <3>3 DEF Free
  <2> HIDE DEF s0
  <2>2. [key |-> k, on |-> FALSE] \in Seats
    BY <1>0 DEF Seats
  <2>3. /\ seat \in [Slots -> Seats] /\ held \subseteq Slots
        /\ seat[s0].key = k /\ seat[s0].on = FALSE
        /\ \A s \in Slots : s # s0 => seat[s] = r.seat[s]
    BY <1>r, <2>1, <2>2
  <2>4. PICK d : d = [r EXCEPT !.seat = seat, !.held = held] /\ a = Done(d)
    BY <1>3 DEF s0
  <2>5. \A s \in held : s \in r.held /\ s # s0 /\ s \in Slots
    BY <1>r
  <2> HIDE DEF seat, held
  <2>6. /\ d \in Runtime /\ d.src = r.src /\ d.seat = seat /\ d.held = held /\ d.route = r.route
        /\ d.mirror = r.mirror /\ d.session = r.session /\ d.recovery = r.recovery /\ d.order = r.order
        /\ d.count = r.count /\ d.feedback = r.feedback /\ d.overflow = r.overflow
    BY <1>0, <2>3, <2>4 DEF Runtime
  <2>7. Known(d) = Known(r) /\ k \notin Known(r) /\ ~r.src[k].known
    BY <1>0, <2>6 DEF Known, Good, Mirrored
  <2>8. Seated(d)
    <3>1. \A s \in Slots : r.seat[s].key # k
      BY <1>3 DEF Bound
    <3>2. ASSUME NEW s \in Slots, NEW t \in Slots, d.seat[s].key = d.seat[t].key, d.seat[s].key # None
          PROVE  s = t
      BY <2>3, <2>6, <3>1, <3>2 DEF Good, Seated
    <3>3. ASSUME NEW s \in Slots, d.seat[s].key # None
          PROVE  s <= d.count /\ (d.seat[s].on <=> d.src[d.seat[s].key].known)
      <4>1. CASE s = s0
        BY <2>1, <2>3, <2>6, <2>7, <4>1
      <4>2. CASE s # s0
        BY <2>3, <2>6, <3>3, <4>2 DEF Good, Seated
      <4> QED BY <4>1, <4>2
    <3>4. ASSUME NEW s \in Slots, d.seat[s].key = None PROVE ~d.seat[s].on
      BY <2>3, <2>6, <3>4 DEF Good, Seated
    <3> QED BY <3>2, <3>3, <3>4 DEF Seated
  <2>9. Armed(d, P) /\ HeldOk(d, P)
    BY <2>3, <2>5, <2>6 DEF Good, Armed, HeldOk
  <2>10. Silent(d) /\ Mirrored(d)
    BY <2>6, <2>7 DEF Good, Silent, Mirrored
  <2>11. Full(d)
    <3> SUFFICES ASSUME Free(d) # {}, ~FirstPress(d), NEW j \in Known(d) PROVE Bound(d, j)
      BY DEF Full
    <3>1. Bound(r, j) /\ j # None
      BY <1>0, <1>3, <2>6, <2>7 DEF Full, FirstPress, Known
    <3>2. PICK s \in Slots : r.seat[s].key = j
      BY <3>1 DEF Bound
    <3>3. s # s0
      BY <2>1, <3>1, <3>2
    <3> QED BY <2>3, <2>6, <3>2, <3>3 DEF Bound
  <2>12. Keeps(r, d)
    BY <2>1, <2>3, <2>6 DEF Keeps
  <2>13. a.rt = d /\ a.ok = TRUE
    BY <2>4 DEF Done
  <2>14. Quiet(r, d) /\ Stays(r, d)
    BY <2>6 DEF Quiet, StateOf, Stays
  <2>15. Served(r, d, P)
    BY <2>6, <2>8, <2>9, <2>10, <2>11, <2>12 DEF Served, Good, Fits
  <2> QED BY <2>13, <2>14, <2>15, QuietTells
<1> QED BY <1>1, <1>2, <1>3 DEF ReserveNetplay

\* PhysicalConnected: a local controller is announced.
LEMMA PhysicalConnectedServed ==
    ASSUME NEW r, NEW P, Good(r, P), Full(r), Fits(r),
           NEW q, q.key \in Pads, q.held \in BOOLEAN, NEW a \in PhysicalConnected(r, q)
    PROVE  Served(r, a.rt, P) /\ a.ok \in BOOLEAN /\ (~r.overflow => Tells(r, a.rt)) /\ Stays(r, a.rt)
<1>0. r \in Runtime /\ q.key \in Keys /\ q.key \notin Remotes /\ q.key \notin Guests
  BY SeatConstants DEF Good, Keys
<1>1. CASE a \in Refused(r)
  BY <1>1, RefusedServed
<1>2. CASE a = Done(r)
  <2>1. a.rt = r /\ a.ok = TRUE
    BY <1>2 DEF Done
  <2> QED BY <2>1, SelfTells DEF Served, Keeps, Stays
<1>3. CASE /\ ~r.src[q.key].known /\ Ready(r)
           /\ a = Done([ConnectSource(r, q.key, q.held, TRUE) EXCEPT !.src[q.key].rearm = q.held])
  <2>1. PICK d : /\ d = [ConnectSource(r, q.key, q.held, TRUE) EXCEPT !.src[q.key].rearm = q.held]
                 /\ a = Done(d)
    BY <1>3
  <2>2. PICK k \in Keys : k = q.key
    BY <1>0
  <2>3. PICK h \in BOOLEAN : h = q.held
    OBVIOUS
  <2>4. /\ Good(d, P) /\ Keeps(r, d) /\ Same(r, d) /\ d.feedback = r.feedback /\ (Full(r) => Full(d))
        /\ Quiet(r, d)
    <3>1. PICK t \in BOOLEAN : t = TRUE
      OBVIOUS
    <3>2. d = [ConnectSource(r, k, h, t) EXCEPT !.src[k].rearm = h]
      BY <2>1, <2>2, <2>3, <3>1
    <3>3. ~r.src[k].known /\ ~r.recovery /\ k \notin Remotes /\ k \notin Guests
      BY <1>0, <1>3, <2>2 DEF Ready
    <3>4. h \/ (t /\ ~h)
      BY <3>1
    <3>5. Joined(r, d, k, P, h, t, h)
      BY <3>2, <3>3, <3>4, ConnectSourceGood
    <3>6. Quiet(r, d)
      BY <3>3, <3>5, OtherQuiet DEF Joined
    <3> QED BY <3>5, <3>6 DEF Joined
  <2>5. a.rt = d /\ a.ok = TRUE
    BY <2>1 DEF Done
  <2>6. Served(r, d, P) /\ Stays(r, d)
    BY <2>4 DEF Served, Fits, Same, Stays
  <2> QED BY <2>4, <2>5, <2>6, QuietTells
<1> QED BY <1>1, <1>2, <1>3 DEF PhysicalConnected

\* PhysicalState: a local controller is pressed or released.
LEMMA PhysicalStateServed ==
    ASSUME NEW r, NEW P, Good(r, P), Full(r), Fits(r), Fresh(r) \subseteq P,
           NEW q, q.key \in Pads, q.held \in BOOLEAN, NEW a \in PhysicalState(r, q)
    PROVE  Served(r, a.rt, P) /\ a.ok \in BOOLEAN /\ (~r.overflow => Tells(r, a.rt)) /\ Stays(r, a.rt)
<1>1. CASE a \in Refused(r)
  BY <1>1, RefusedServed
<1>2. CASE r.src[q.key].known /\ a = Done(UpdateSource(r, q.key, q.held))
  <2>1. PICK d : d = UpdateSource(r, q.key, q.held) /\ a = Done(d)
    BY <1>2
  <2>2. q.key \in Keys
    BY DEF Keys
  <2>3. r.src[q.key].has /\ ~r.src[q.key].held => q.key \in P
    BY <1>2, <2>2 DEF Fresh
  <2>4. Good(d, P) /\ Keeps(r, d) /\ Heard(r, d, q.key, q.held) /\ (Full(r) => Full(d))
    BY <1>2, <2>1, <2>2, <2>3, UpdateSourceGood
  <2>5. a.rt = d /\ a.ok = TRUE
    BY <2>1 DEF Done
  <2>6. q.key \notin Remotes
    BY SeatConstants
  <2>7. Quiet(r, d)
    BY <2>4, <2>6, OtherQuiet DEF Heard
  <2>8. Served(r, d, P) /\ Stays(r, d)
    BY <2>4 DEF Served, Fits, Heard, Same, Stays
  <2> QED BY <2>5, <2>7, <2>8, QuietTells
<1> QED BY <1>1, <1>2 DEF PhysicalState

\* PhysicalDisconnected: a local controller goes.
LEMMA PhysicalDisconnectedServed ==
    ASSUME NEW r, NEW P, Good(r, P), Full(r), Fits(r),
           NEW q, q.key \in Pads, NEW a \in PhysicalDisconnected(r, q)
    PROVE  Served(r, a.rt, P) /\ a.ok \in BOOLEAN /\ (~r.overflow => Tells(r, a.rt)) /\ Stays(r, a.rt)
<1>1. CASE a \in Refused(r)
  BY <1>1, RefusedServed
<1>2. CASE a \in {Done(d) : d \in DropSources(r, {q.key})}
  <2>1. PICK d \in DropSources(r, {q.key}) : a = Done(d)
    BY <1>2
  <2>2. {q.key} \in SUBSET Keys
    BY DEF Keys
  <2>3. /\ Good(d, P) /\ Full(d) /\ Keeps(r, d) /\ Without(r, d, {q.key})
        /\ ~r.overflow => Tells(r, d)
    BY <2>1, <2>2, GoodIsLoose, DropGood
  <2>4. a.rt = d /\ a.ok = TRUE
    BY <2>1 DEF Done
  <2>5. Served(r, d, P) /\ Stays(r, d)
    BY <2>3 DEF Served, Without, Same, Stays
  <2> QED BY <2>3, <2>4, <2>5
<1> QED BY <1>1, <1>2 DEF PhysicalDisconnected

\* The events of a runtime are handed over.
LEMMA ClearCore ==
    ASSUME NEW r \in Runtime
    PROVE  LET d == [r EXCEPT !.feedback = <<>>]
           IN  Core(r, d) /\ Fits(d) /\ d.overflow = r.overflow
<1>0. <<>> \in Seq(Event) /\ Len(<<>>) = 0
  OBVIOUS
<1>1. PICK e : e = <<>> /\ e \in Seq(Event) /\ Len(e) = 0
  BY <1>0
<1>2. PICK d : d = [r EXCEPT !.feedback = e]
  OBVIOUS
<1>3. d \in Runtime
  BY <1>1, <1>2 DEF Runtime
<1>4. /\ Same(r, d) /\ d.seat = r.seat /\ d.held = r.held /\ d.src = r.src
      /\ d.feedback = e /\ d.overflow = r.overflow
  BY <1>2 DEF Runtime, Same
<1>5. Fits(d)
  BY <1>1, <1>4, SeatConstants DEF Fits
<1> QED BY <1>1, <1>2, <1>3, <1>4, <1>5 DEF Core

\* A reply takes the events with it.
LEMMA ClearServed ==
    ASSUME NEW o, NEW r, NEW Q, Served(o, r, Q)
    PROVE  Served(o, [r EXCEPT !.feedback = <<>>], Q)
<1>0. r \in Runtime
  BY DEF Served, Good
<1>1. PICK d : d = [r EXCEPT !.feedback = <<>>]
  OBVIOUS
<1>2. Core(r, d) /\ Fits(d)
  BY <1>0, <1>1, ClearCore
<1>3. Good(d, Q) /\ Full(d) /\ Keeps(r, d)
  BY <1>2, CoreGood DEF Served
<1>4. Keeps(o, d) /\ d.mirror = r.mirror
  BY <1>2 DEF Served, Keeps, Core, Same
<1> QED BY <1>1, <1>2, <1>3, <1>4 DEF Served

\* A step that keeps the session keeps what a step before it has kept.
LEMMA KeepsTrans ==
    ASSUME NEW r, NEW d, NEW e, Keeps(r, d), Keeps(d, e), d.session = r.session
    PROVE  Keeps(r, e)
BY DEF Keeps

(* The receiver between two steps.                                             *)
RInv == /\ Good(rt, pressed) /\ Full(rt) /\ Fits(rt) /\ ~rt.overflow
        /\ ~coord => rt.recovery
        /\ rt.mirror # None => lease = rt.mirror

Counting == pressed \cup Fresh(rt)

\* Of the sources whose presses may count, the history names those pressed.
LEMMA TrackGood ==
    ASSUME NEW d, NEW barrier \in BOOLEAN, Good(d, IF barrier THEN {} ELSE Counting)
    PROVE  Good(d, Track(rt, d, barrier))
<1>1. CASE barrier
  <2>1. Good(d, {})
    BY <1>1
  <2> QED BY <2>1, GoodMono
<1>2. CASE ~barrier
  <2>0. Good(d, Counting)
    BY <1>2
  <2>t. d \in Runtime
    BY <2>0 DEF Good
  <2>1. \A k \in Keys : d.src[k].known /\ d.src[k].held /\ d.route /\ k \in Counting => k \in Track(rt, d, barrier)
    BY <1>2 DEF Track, Counting, Fresh
  <2>2. Armed(d, Track(rt, d, barrier))
    BY <2>0, <2>1 DEF Good, Armed
  <2>3. HeldOk(d, Track(rt, d, barrier))
    <3> SUFFICES ASSUME NEW s \in d.held
                 PROVE  /\ d.route /\ d.seat[s].on /\ d.seat[s].key \in Track(rt, d, barrier)
                        /\ d.src[d.seat[s].key].held /\ ~d.src[d.seat[s].key].rearm
      BY DEF HeldOk
    <3>1. /\ d.route /\ d.seat[s].on /\ d.seat[s].key \in Counting
          /\ d.src[d.seat[s].key].held /\ ~d.src[d.seat[s].key].rearm
      BY <2>0 DEF Good, HeldOk
    <3>2. s \in Slots /\ d.seat[s].key \in Keys \cup {None}
      BY <2>t, RuntimeFields
    <3>3. d.seat[s].key # None /\ d.src[d.seat[s].key].known
      BY <2>0, <3>1, <3>2 DEF Good, Seated
    <3> QED BY <2>1, <3>1, <3>2, <3>3
  <2> QED BY <2>0, <2>2, <2>3 DEF Good
<1> QED BY <1>1, <1>2

\* The end of a turn of the receiver's loop.
LEMMA SettleKeeps ==
    ASSUME coord \in BOOLEAN, NEW r, NEW l, NEW barrier \in BOOLEAN, Served(rt, r, IF barrier THEN {} ELSE Counting),
           r.mirror # None => l = r.mirror, ~coord => r.recovery,
           Settle(r, l, barrier)
    PROVE  RInv' /\ Keeps(rt, rt') /\ lease' \in {l, None} /\ coord' \in BOOLEAN /\ pressed' \subseteq Keys /\ up' = up
<1>0. r \in Runtime /\ r.overflow \in BOOLEAN
  BY RuntimeFields DEF Served, Good
<1>1. CASE r.overflow
  <2>1. PICK new \in CoordinatorLost(r) : rt' = new /\ pressed' = Track(rt, new, barrier)
    BY <1>1 DEF Settle
  <2>2. lease' = None /\ coord' = FALSE /\ up' = up
    BY <1>1 DEF Settle
  <2>3. /\ Good(new, {}) /\ Full(new) /\ Keeps(r, new) /\ Fits(new) /\ ~new.overflow
        /\ new.mirror = None /\ new.session = r.session /\ new.recovery
    BY <2>1, LostGood DEF Served
  <2>4. Good(new, Track(rt, new, barrier)) /\ Track(rt, new, barrier) \subseteq Keys
    BY <2>3, GoodMono DEF Track
  <2>5. Keeps(rt, new)
    BY <2>3 DEF Keeps, Served
  <2> QED BY <2>1, <2>2, <2>3, <2>4, <2>5 DEF RInv
<1>2. CASE ~r.overflow
  <2>1. rt' = r /\ pressed' = Track(rt, r, barrier)
    BY <1>2 DEF Settle
  <2>2. lease' = l /\ coord' = coord /\ up' = up /\ coord' \in BOOLEAN
    BY <1>2 DEF Settle
  <2>3. Good(r, Track(rt, r, barrier)) /\ Track(rt, r, barrier) \subseteq Keys
    BY TrackGood DEF Served, Track
  <2> QED BY <1>2, <2>1, <2>2, <2>3 DEF RInv, Served
<1> QED BY <1>0, <1>1, <1>2

\* The runtime, with the sources whose next press counts.
LEMMA CountingGood ==
    ASSUME RInv
    PROVE  Good(rt, Counting) /\ Full(rt) /\ Fits(rt) /\ Fresh(rt) \subseteq Counting /\ rt \in Runtime
BY GoodMono DEF RInv, Counting, Good

(* The requests that korrid makes.                                             *)
PadRequests == [type : {"PhysicalConnected", "PhysicalState"}, key : Pads, held : BOOLEAN]
               \cup [type : {"PhysicalDisconnected"}, key : Pads]

(* What korrid may conclude from the answer a to the request q.                *)
Told(r, a, q) ==
    /\ ~r.overflow => Tells(r, a.rt)
    /\ ~a.ok \/ q.type \notin {"BeginSession", "EndSession", "Route"} => Stays(r, a.rt)
    /\ a.ok /\ q.type = "Route" => /\ a.rt.session = r.session /\ q.launch \in {None, r.session}
                                   /\ a.rt.route <=> q.launch # None

\* SeatRuntime::apply: whatever is asked, the receiver keeps its promises.
LEMMA ApplyServed ==
    ASSUME NEW r, NEW P, Good(r, P), Full(r), Fits(r), Fresh(r) \subseteq P,
           NEW q \in Requests \cup PadRequests, NEW a \in Apply(r, q)
    PROVE  /\ Served(r, a.rt, IF a.ok /\ q.type \in {"Route", "EndSession"} THEN {} ELSE P)
           /\ a.ok \in BOOLEAN /\ Told(r, a, q)
<1>1. CASE q \in [type : {"ApplyCount"}, count : Slots]
  <2>1. q.type = "ApplyCount" /\ q.count \in Slots
    BY <1>1
  <2>2. a \in ApplyCount(r, q)
    BY <2>1 DEF Apply
  <2> QED BY <2>1, <2>2, ApplyCountServed DEF Told
<1>2. CASE q \in [type : {"BeginSession"}, launch : Launches, order : Orders]
  <2>1. q.type = "BeginSession" /\ q.launch \in Launches /\ q.order \in Orders
    BY <1>2
  <2>2. a \in BeginSession(r, q)
    BY <2>1 DEF Apply
  <2> QED BY <2>1, <2>2, BeginSessionServed DEF Told
<1>3. CASE q \in [type : {"EndSession"}, launch : Launches]
  <2>1. q.type = "EndSession" /\ q.launch \in Launches
    BY <1>3
  <2>2. a \in EndSession(r, q)
    BY <2>1 DEF Apply
  <2> QED BY <2>1, <2>2, EndSessionServed DEF Told
<1>4. CASE q \in [type : {"Route"}, launch : Launches \cup {None}]
  <2>1. q.type = "Route" /\ q.launch \in Launches \cup {None}
    BY <1>4
  <2>2. a \in Route(r, q)
    BY <2>1 DEF Apply
  <2> QED BY <2>1, <2>2, RouteServed DEF Told
<1>5. CASE q \in [type : {"ReserveNetplay"}, launch : Launches, key : Guests]
  <2>1. q.type = "ReserveNetplay" /\ q.key \in Guests
    BY <1>5
  <2>2. a \in ReserveNetplay(r, q)
    BY <2>1 DEF Apply
  <2> QED BY <2>1, <2>2, ReserveNetplayServed DEF Told
<1>6. CASE q \in [type : {"PhysicalConnected", "PhysicalState"}, key : Pads, held : BOOLEAN]
  <2>1. q.type \in {"PhysicalConnected", "PhysicalState"} /\ q.key \in Pads /\ q.held \in BOOLEAN
    BY <1>6
  <2>2. CASE q.type = "PhysicalConnected"
    <3>1. a \in PhysicalConnected(r, q)
      BY <2>2 DEF Apply
    <3> QED BY <2>1, <2>2, <3>1, PhysicalConnectedServed DEF Told
  <2>3. CASE q.type = "PhysicalState"
    <3>1. a \in PhysicalState(r, q)
      BY <2>3 DEF Apply
    <3> QED BY <2>1, <2>3, <3>1, PhysicalStateServed DEF Told
  <2> QED BY <2>1, <2>2, <2>3
<1>7. CASE q \in [type : {"PhysicalDisconnected"}, key : Pads]
  <2>1. q.type = "PhysicalDisconnected" /\ q.key \in Pads
    BY <1>7
  <2>2. a \in PhysicalDisconnected(r, q)
    BY <2>1 DEF Apply
  <2> QED BY <2>1, <2>2, PhysicalDisconnectedServed DEF Told
<1> QED BY <1>1, <1>2, <1>3, <1>4, <1>5, <1>6, <1>7 DEF Requests, PadRequests

\* SeatRuntime::boot.
LEMMA BootGood == Good(Boot, {}) /\ Full(Boot) /\ Fits(Boot) /\ ~Boot.overflow /\ Boot.recovery /\ Boot.mirror = None
<1> DEFINE seat == [s \in Slots |-> NoSeat]
           src  == [k \in Keys |-> NoSource]
<1>1. seat \in [Slots -> Seats] /\ \A s \in Slots : seat[s].key = None /\ seat[s].on = FALSE
  BY DEF Seats, NoSeat
<1>2. src \in [Keys -> Sources] /\ \A k \in Keys : src[k].known = FALSE
  BY DEF Sources, NoSource
<1>3. <<>> \in Seq(Event) /\ Len(<<>>) = 0
  OBVIOUS
<1>4. PICK e : e = <<>> /\ e \in Seq(Event) /\ Len(e) = 0
  BY <1>3
<1>5. PICK b : b = Boot
  OBVIOUS
<1>6. b = [count |-> MaxSeats, seat |-> seat, held |-> {},
           session |-> None, order |-> "Attached", src |-> src,
           mirror |-> None, route |-> FALSE, recovery |-> TRUE,
           feedback |-> e, overflow |-> FALSE]
  BY <1>4, <1>5 DEF Boot
<1> HIDE DEF seat, src
<1>7. MaxSeats \in Slots /\ "Attached" \in Orders
  BY SeatConstants DEF Slots, Orders
<1>8. b \in Runtime
  BY <1>1, <1>2, <1>4, <1>6, <1>7 DEF Runtime
<1>9. /\ b.seat = seat /\ b.src = src /\ b.held = {} /\ b.mirror = None /\ b.route = FALSE
      /\ b.recovery = TRUE /\ b.feedback = e /\ b.overflow = FALSE
  BY <1>6
<1>10. Known(b) = {}
  BY <1>2, <1>9 DEF Known
<1>11. Good(b, {})
  BY <1>1, <1>2, <1>8, <1>9, <1>10 DEF Good, Seated, Armed, HeldOk, Silent, Mirrored
<1>12. Full(b) /\ Fits(b)
  BY <1>4, <1>9, <1>10, SeatConstants DEF Full, Fits
<1> QED BY <1>5, <1>9, <1>11, <1>12

RTypes == coord \in BOOLEAN /\ up \in BOOLEAN /\ lease \in Launches \cup {None} /\ pressed \subseteq Keys

(* What every step of the system does to the receiver.                         *)
Kept == RInv' /\ RTypes' /\ (up' => Keeps(rt, rt'))

(* What korrid may rely on in a step of the receiver: it is cut off, or it is     *)
(* told, and the session and the route stay.                                   *)
Cut    == coord' = FALSE /\ lease' = None /\ rt'.feedback = <<>> /\ ~rt'.route
Turned == \/ Cut
          \/ coord /\ coord' = coord /\ Tells(rt, rt') /\ Stays(rt, rt')

\* The end of a turn: lost events cost the coordinator.
LEMMA SettleCases ==
    ASSUME coord \in BOOLEAN, NEW r, NEW l, NEW barrier, NEW Q, Good(r, Q), Settle(r, l, barrier)
    PROVE  Cut \/ (~r.overflow /\ rt' = r /\ coord' = coord)
<1>0. r.overflow \in BOOLEAN
  BY RuntimeFields DEF Good
<1>1. CASE r.overflow
  <2>1. PICK new \in CoordinatorLost(r) : rt' = new
    BY <1>1 DEF Settle
  <2>2. lease' = None /\ coord' = FALSE
    BY <1>1 DEF Settle
  <2>3. new.feedback = <<>> /\ ~new.route
    BY <2>1, LostGood
  <2> QED BY <2>1, <2>2, <2>3 DEF Cut
<1>2. CASE ~r.overflow
  BY <1>2 DEF Settle
<1> QED BY <1>0, <1>1, <1>2

\* A turn that tells, and leaves the session and the route.
LEMMA SettleTurned ==
    ASSUME RTypes, coord, NEW r, NEW l, NEW barrier, NEW Q, Good(r, Q), Tells(rt, r), Stays(rt, r),
           Settle(r, l, barrier)
    PROVE  Turned
<1>1. Cut \/ (~r.overflow /\ rt' = r /\ coord' = coord)
  BY SettleCases DEF RTypes
<1> QED BY <1>1 DEF Turned

\* The end of a turn, with the types of the receiver's variables.
LEMMA SettleKept ==
    ASSUME RTypes, NEW r, NEW l \in Launches \cup {None}, NEW barrier \in BOOLEAN,
           Served(rt, r, IF barrier THEN {} ELSE Counting),
           r.mirror # None => l = r.mirror, ~coord => r.recovery,
           Settle(r, l, barrier)
    PROVE  Kept
<1>1. /\ RInv' /\ Keeps(rt, rt') /\ lease' \in {l, None} /\ coord' \in BOOLEAN
      /\ pressed' \subseteq Keys /\ up' = up
  BY SettleKeeps DEF RTypes
<1> QED BY <1>1 DEF Kept, RTypes

\* A turn that leaves out sources.
LEMMA DropKept ==
    ASSUME RTypes, RInv, NEW ks \in SUBSET Keys, NEW new \in DropSources(rt, ks),
           NEW r, r = new \/ r = [new EXCEPT !.feedback = <<>>],
           Settle(r, lease, FALSE)
    PROVE  Kept
<1>1. Good(rt, Counting) /\ Full(rt) /\ Fits(rt)
  BY CountingGood
<1>2. Good(new, Counting) /\ Full(new) /\ Keeps(rt, new) /\ Without(rt, new, ks)
  BY <1>1, GoodIsLoose, DropGood
<1>3. Served(rt, new, Counting)
  BY <1>1, <1>2 DEF Served, Without, Same
<1>4. Served(rt, r, Counting)
  BY <1>3, ClearServed
<1>5. new.recovery = rt.recovery /\ new.mirror = rt.mirror /\ new \in Runtime
  BY <1>2 DEF Without, Same
<1>6. r.recovery = rt.recovery /\ r.mirror = rt.mirror
  BY <1>5, ClearCore DEF Core, Same
<1>7. (r.mirror # None => lease = r.mirror) /\ (~coord => r.recovery) /\ lease \in Launches \cup {None}
  BY <1>6 DEF RInv, RTypes
<1>8. PICK b \in BOOLEAN : b = FALSE
  OBVIOUS
<1>9. Settle(r, lease, b) /\ Served(rt, r, IF b THEN {} ELSE Counting)
  BY <1>4, <1>8
<1> QED BY <1>7, <1>9, SettleKept

\* A turn that lets the stream client go.
LEMMA UnbindKept ==
    ASSUME RTypes, RInv, NEW new \in Unbind(rt), Settle(new, None, FALSE)
    PROVE  Kept
<1>1. Good(rt, Counting) /\ Full(rt) /\ Fits(rt)
  BY CountingGood
<1>2. /\ Good(new, Counting) /\ Full(new) /\ Keeps(rt, new) /\ Fits(new)
      /\ new.mirror = None /\ new.recovery = rt.recovery
  BY <1>1, UnbindGood
<1>3. Served(rt, new, Counting)
  BY <1>2 DEF Served
<1>4. PICK b \in BOOLEAN : b = FALSE
  OBVIOUS
<1>5. Settle(new, None, b) /\ Served(rt, new, IF b THEN {} ELSE Counting)
  BY <1>3, <1>4
<1>6. None \in Launches \cup {None} /\ (~coord => new.recovery)
  BY <1>2 DEF RInv
<1> QED BY <1>2, <1>5, <1>6, SettleKept

\* Sources or the stream client go: korrid is told.
LEMMA DropTurned ==
    ASSUME RTypes, RInv, coord, NEW ks \in SUBSET Keys, NEW new \in DropSources(rt, ks),
           Settle(new, lease, FALSE)
    PROVE  Turned
<1>1. Good(rt, Counting) /\ Fits(rt) /\ ~rt.overflow
  BY CountingGood DEF RInv
<1>2. Good(new, Counting) /\ Without(rt, new, ks) /\ Tells(rt, new)
  BY <1>1, GoodIsLoose, DropGood
<1>3. Stays(rt, new)
  BY <1>2 DEF Without, Same, Stays
<1> QED BY <1>2, <1>3, SettleTurned

LEMMA UnbindTurned ==
    ASSUME RTypes, RInv, coord, NEW new \in Unbind(rt), Settle(new, None, FALSE)
    PROVE  Turned
<1>1. Good(rt, Counting) /\ Fits(rt) /\ ~rt.overflow
  BY CountingGood DEF RInv
<1>2. Good(new, Counting) /\ Tells(rt, new) /\ Stays(rt, new)
  BY <1>1, UnbindGood DEF Stays
<1> QED BY <1>2, SettleTurned

\* lose_coordinator.
LEMMA LoseCoordinatorKept ==
    ASSUME RTypes, RInv, LoseCoordinator
    PROVE  Kept /\ Cut
<1>1. PICK new \in CoordinatorLost(rt) : rt' = new /\ pressed' = Track(rt, new, TRUE)
  BY DEF LoseCoordinator
<1>2. /\ Good(new, {}) /\ Full(new) /\ Keeps(rt, new) /\ Fits(new) /\ ~new.overflow
      /\ new.mirror = None /\ new.recovery /\ new.feedback = <<>> /\ ~new.route
  BY LostGood DEF RInv
<1>3. Good(new, Track(rt, new, TRUE)) /\ Track(rt, new, TRUE) \subseteq Keys
  BY <1>2, GoodMono DEF Track
<1>4. coord' = FALSE /\ lease' = None /\ up' = up
  BY DEF LoseCoordinator
<1> QED BY <1>1, <1>2, <1>3, <1>4 DEF Kept, RInv, RTypes, Cut

\* The receiver is gone: what comes next starts afresh.
LEMMA BootKept ==
    ASSUME up' = FALSE, coord' = FALSE, lease' = None, rt' = Boot, pressed' = {}
    PROVE  Kept /\ Cut
<1>1. Boot.feedback = <<>> /\ Boot.route = FALSE
  BY DEF Boot
<1> QED BY <1>1, BootGood DEF Kept, RInv, RTypes, Cut

\* A step that leaves the receiver alone.
LEMMA StutterKept ==
    ASSUME RTypes, RInv, UNCHANGED <<rt, coord, lease, pressed>>, up' \in BOOLEAN
    PROVE  Kept
<1>1. Keeps(rt, rt)
  BY DEF Keeps
<1>2. Keeps(rt, rt')
  BY <1>1
<1> QED BY <1>2 DEF Kept, RInv, RTypes

\* A controller of the stream client.
LEMMA FrameConnectedKept ==
    ASSUME RTypes, RInv, NEW c \in Controllers, FrameConnected(c)
    PROVE  Kept /\ Turned
<1> DEFINE k == <<rt.mirror, c>>
<1>1. Good(rt, Counting) /\ Full(rt) /\ Fits(rt) /\ rt \in Runtime
  BY CountingGood
<1>2. rt.mirror \in Launches /\ rt.mirror # None /\ ~rt.recovery
  BY <1>1, RuntimeFields DEF FrameConnected, Good, Silent
<1>3. k \in Remotes /\ k \in Keys /\ k[1] = rt.mirror /\ k \notin Guests /\ ~rt.src[k].known
  BY <1>2, SeatConstants DEF Remotes, Keys, FrameConnected
<1>4. PICK f \in BOOLEAN : f = FALSE
  OBVIOUS
<1>5. PICK t \in BOOLEAN : t = TRUE
  OBVIOUS
<1>6. PICK d : d = ConnectSource(rt, k, f, f)
  OBVIOUS
<1>7. Settle(d, lease, f)
  BY <1>4, <1>6 DEF FrameConnected
<1> HIDE DEF k
<1>8. Joined(rt, d, k, Counting, f, f, t)
  BY <1>1, <1>2, <1>3, <1>5, <1>6, ConnectSourceGood
<1>9. Served(rt, d, IF f THEN {} ELSE Counting)
  BY <1>1, <1>4, <1>8 DEF Served, Joined, Fits, Same
<1>10. d.mirror = rt.mirror /\ lease = rt.mirror /\ coord
  BY <1>2, <1>8 DEF Joined, Same, RInv
<1>11. Kept
  BY <1>2, <1>7, <1>9, <1>10, SettleKept DEF RTypes
<1>12. Quiet(rt, d)
  <2>1. ASSUME NEW j \in Remotes PROVE StateOf(d, j) = StateOf(rt, j)
    <3>1. j \in Keys
      BY DEF Keys
    <3> QED BY <1>3, <1>4, <1>8, <3>1 DEF Joined, StateOf
  <2> QED BY <1>8, <2>1 DEF Joined, Quiet
<1>13. Tells(rt, d) /\ Stays(rt, d) /\ Good(d, Counting)
  BY <1>8, <1>12, QuietTells DEF Joined, Same, Stays
<1> QED BY <1>7, <1>10, <1>11, <1>13, SettleTurned

\* A frame of the stream client, which may announce its controller.
LEMMA FrameStateKept ==
    ASSUME RTypes, RInv, NEW c \in Controllers, NEW held \in BOOLEAN, FrameState(c, held)
    PROVE  Kept /\ Turned
<1> DEFINE k    == <<rt.mirror, c>>
           was  == rt.src[k]
           seen == IF was.known THEN rt ELSE ConnectSource(rt, k, FALSE, FALSE)
           new  == UpdateSource(seen, k, held)
           tell == IF ~was.known \/ ~was.has THEN <<[kind |-> "Connected", key |-> k, held |-> held]>>
                   ELSE IF was.held # held THEN <<[kind |-> "State", key |-> k, held |-> held]>>
                   ELSE <<>>
<1>1. Good(rt, Counting) /\ Full(rt) /\ Fits(rt) /\ Fresh(rt) \subseteq Counting /\ rt \in Runtime
  BY CountingGood
<1>2. rt.mirror \in Launches /\ rt.mirror # None /\ ~rt.recovery
  BY <1>1, RuntimeFields DEF FrameState, Good, Silent
<1>3. k \in Remotes /\ k \in Keys /\ k[1] = rt.mirror /\ k \notin Guests
  BY <1>2, SeatConstants DEF Remotes, Keys
<1>4. PICK f \in BOOLEAN : f = FALSE
  OBVIOUS
<1>5. PICK t \in BOOLEAN : t = TRUE
  OBVIOUS
<1>6. Settle(Push(new, tell), lease, f)
  BY <1>4 DEF FrameState
<1>7. tell \in Seq(Event)
  <2> HIDE DEF k
  <2>1. \A x \in {"Connected", "State"} : [kind |-> x, key |-> k, held |-> held] \in Event
    BY <1>3 DEF Event
  <2>2. <<>> \in Seq(Event) /\ \A x \in Event : <<x>> \in Seq(Event)
    OBVIOUS
  <2> QED BY <2>1, <2>2
<1> HIDE DEF k, tell
<1>8. /\ Good(seen, Counting) /\ Full(seen) /\ Fits(seen) /\ Keeps(rt, seen) /\ Same(rt, seen)
      /\ seen.feedback = rt.feedback /\ seen.overflow = rt.overflow
      /\ \A j \in Keys : j # k => seen.src[j] = rt.src[j]
      /\ seen.src[k].known /\ (seen.src[k].has /\ ~seen.src[k].held => k \in Counting)
  <2>1. CASE was.known
    <3>1. seen = rt
      BY <2>1
    <3> QED BY <1>1, <1>3, <2>1, <3>1 DEF Keeps, Same, Fresh
  <2>2. CASE ~was.known
    <3>1. seen = ConnectSource(rt, k, f, f)
      BY <1>4, <2>2
    <3> HIDE DEF seen
    <3>2. Joined(rt, seen, k, Counting, f, f, t)
      BY <1>1, <1>2, <1>3, <1>5, <2>2, <3>1, ConnectSourceGood
    <3> QED BY <1>1, <1>4, <3>2 DEF Joined, Fits
  <2> QED BY <2>1, <2>2
<1> HIDE DEF seen
<1>9. Good(new, Counting) /\ Keeps(seen, new) /\ Heard(seen, new, k, held) /\ (Full(seen) => Full(new))
  BY <1>3, <1>8, UpdateSourceGood
<1> HIDE DEF new
<1>10. PICK d : d = Push(new, tell)
  OBVIOUS
<1>11. Core(new, d) /\ (Fits(new) => Fits(d))
  BY <1>7, <1>9, <1>10, PushCore DEF Heard
<1>12. Good(d, Counting) /\ Full(d) /\ Keeps(new, d)
  BY <1>8, <1>9, <1>11, CoreGood
<1>13. Fits(d)
  BY <1>8, <1>9, <1>11 DEF Heard, Fits
<1>14. Same(rt, d) /\ Same(rt, new)
  BY <1>8, <1>9, <1>11 DEF Same, Heard, Core
<1>15. Keeps(rt, d)
  <2>1. Keeps(rt, new)
    BY <1>8, <1>9, KeepsTrans DEF Same
  <2> QED BY <1>12, <1>14, <2>1, KeepsTrans DEF Same
<1>16. Served(rt, d, IF f THEN {} ELSE Counting)
  BY <1>4, <1>12, <1>13, <1>14, <1>15 DEF Served, Same
<1>17. d.mirror = rt.mirror /\ lease = rt.mirror /\ coord
  BY <1>2, <1>14 DEF Same, RInv
<1>18. Kept
  BY <1>2, <1>6, <1>10, <1>16, <1>17, SettleKept DEF RTypes
<1>19. /\ \A j \in Remotes : j # k => StateOf(new, j) = StateOf(rt, j)
       /\ StateOf(new, k) = IF held THEN "held" ELSE "neutral"
       /\ new.feedback = rt.feedback /\ new.overflow = rt.overflow /\ new \in Runtime
  <2>1. Remotes \subseteq Keys
    BY DEF Keys
  <2> QED BY <1>8, <1>9, <2>1 DEF Heard, StateOf
<1>20. ASSUME NEW m \in Mappers, Shows(m, rt)
       PROVE  MapsAll(m, tell) /\ Shows(MapAll(m, tell), new)
  <2>1. \A j \in Remotes : m.remote[j] = StateOf(rt, j)
    BY <1>20 DEF Shows
  <2>2. was.known \in BOOLEAN /\ was.has \in BOOLEAN /\ was.held \in BOOLEAN
    BY <1>1, <1>3, RuntimeFields
  <2>3. ASSUME NEW x \in {"Connected", "State"}, tell = <<[kind |-> x, key |-> k, held |-> held]>>,
               x = "Connected" => StateOf(rt, k) = "absent",
               x = "State" => StateOf(rt, k) # "absent"
        PROVE  MapsAll(m, tell) /\ Shows(MapAll(m, tell), new)
    <3>1. PICK e : e = [kind |-> x, key |-> k, held |-> held]
      OBVIOUS
    <3>2. e \in Event /\ e.kind = x /\ e.key = k /\ e.held = held /\ tell = <<e>>
      BY <1>3, <2>3, <3>1 DEF Event
    <3>3. m.remote[k] = StateOf(rt, k)
      BY <1>3, <2>1
    <3>4. MapsRemote(m, e)
      <4>1. CASE x = "Connected"
        BY <2>3, <3>2, <3>3, <4>1 DEF MapsRemote
      <4>2. CASE x = "State"
        BY <2>3, <3>2, <3>3, <4>2 DEF MapsRemote
      <4> QED BY <4>1, <4>2
    <3>5. MapAll(m, tell) = MapRemote(m, e) /\ MapsAll(m, tell)
      BY <3>2, <3>4, MapOne
    <3>6. /\ MapRemote(m, e).remote[k] = IF held THEN "held" ELSE "neutral"
          /\ \A j \in Remotes : j # k => MapRemote(m, e).remote[j] = m.remote[j]
      <4>1. e.kind # "Disconnected"
        BY <3>2
      <4> QED BY <3>2, <4>1, MapRemoteIs
    <3>7. \A j \in Remotes : MapRemote(m, e).remote[j] = StateOf(new, j)
      BY <1>19, <2>1, <3>6
    <3> QED BY <3>5, <3>7 DEF Shows
  <2>4. CASE ~was.known \/ ~was.has
    <3>1. StateOf(rt, k) = "absent"
      BY <2>4 DEF StateOf
    <3>2. tell = <<[kind |-> "Connected", key |-> k, held |-> held]>>
      BY <2>4 DEF tell
    <3> QED BY <2>3, <3>1, <3>2
  <2>5. CASE was.known /\ was.has /\ was.held # held
    <3>1. StateOf(rt, k) # "absent"
      BY <2>5 DEF StateOf
    <3>2. tell = <<[kind |-> "State", key |-> k, held |-> held]>>
      BY <2>5 DEF tell
    <3> QED BY <2>3, <3>1, <3>2
  <2>6. CASE was.known /\ was.has /\ was.held = held
    <3>1. tell = <<>>
      BY <2>6 DEF tell
    <3>2. StateOf(rt, k) = IF held THEN "held" ELSE "neutral"
      BY <2>6 DEF StateOf
    <3>3. Shows(m, new)
      BY <1>3, <1>19, <2>1, <3>2 DEF Shows
    <3> QED BY <3>1, <3>3, MapNone
  <2> QED BY <2>2, <2>4, <2>5, <2>6
<1>21. Tells(rt, d)
  <2>1. ~rt.overflow
    BY DEF RInv
  <2> QED BY <1>1, <1>7, <1>10, <1>19, <1>20, <2>1, PushTells
<1>22. Stays(rt, d)
  BY <1>14 DEF Same, Stays
<1> QED BY <1>6, <1>10, <1>12, <1>17, <1>18, <1>21, <1>22, SettleTurned

(* The parts of korrid.                                                        *)
Replies  == [ok : BOOLEAN, session : Launches \cup {None}, count : Slots, recovery : BOOLEAN,
             events : Seq(Event)]
Calls    == [st : {"none", "reply"}, waits : BOOLEAN, q : Requests \cup {None}, init : BOOLEAN,
             m : Replies \cup {None}]
Managers == [init : BOOLEAN, route : Launches \cup {None, "unset"}]
Latest   == [session : Launches \cup {None}, count : Slots, recovery : BOOLEAN]
Producers == [on : BOOLEAN, pads : SUBSET Pads]

CallOk == call \in Calls /\ (call.st = "reply" => call.q \in Requests /\ call.m \in Replies)

KTypes == /\ link \in BOOLEAN /\ fenced \in BOOLEAN /\ desync \in BOOLEAN
          /\ manager \in Managers /\ latest \in Latest /\ mapper \in Mappers
          /\ handle \in Launches \cup {None} /\ owner \in Launches \cup {None}
          /\ producer \in Producers /\ CallOk

(* The inductive invariant.                                                    *)
IInv == RInv /\ RTypes /\ KTypes

\* korrid's variables as they start.
LEMMA Empties ==
    /\ NoCall \in Calls /\ NoCall.st = "none"
    /\ NoMapper \in Mappers /\ NoReply \in Latest /\ Unset \in Managers
    /\ [on |-> FALSE, pads |-> {}] \in Producers /\ [on |-> TRUE, pads |-> {}] \in Producers
<1>1. NoCall \in Calls /\ NoCall.st = "none"
  BY DEF NoCall, Calls
<1>2. NoMapper \in Mappers
  BY DEF NoMapper, Mappers
<1>3. MaxSeats \in Slots
  BY SeatConstants DEF Slots
<1>4. NoReply \in Latest /\ Unset \in Managers
  BY <1>3 DEF NoReply, Latest, Unset, Managers
<1>5. [on |-> FALSE, pads |-> {}] \in Producers /\ [on |-> TRUE, pads |-> {}] \in Producers
  BY DEF Producers
<1> QED BY <1>1, <1>2, <1>4, <1>5

\* A call that is about to be made.
LEMMA NewCall ==
    /\ [NoCall EXCEPT !.waits = TRUE] \in Calls
    /\ [NoCall EXCEPT !.waits = TRUE, !.init = TRUE] \in Calls
<1>1. PICK n \in Calls : n = NoCall
  BY Empties
<1>2. [n EXCEPT !.waits = TRUE] \in Calls /\ [n EXCEPT !.waits = TRUE, !.init = TRUE] \in Calls
  BY DEF Calls
<1> QED BY <1>1, <1>2

\* The reply to a request.
LEMMA ReplyType ==
    ASSUME NEW a, a.rt \in Runtime, a.ok \in BOOLEAN
    PROVE  Reply(a) \in Replies
BY RuntimeFields DEF Reply, Replies

\* The snapshot of a reply.
LEMMA SnapshotType ==
    ASSUME NEW m, m \in Replies \/ m \in Runtime
    PROVE  Snapshot(m) \in Latest
BY RuntimeFields DEF Snapshot, Latest, Replies

\* A call gets its answer.
LEMMA Answering ==
    ASSUME NEW c \in Calls, NEW q \in Requests, NEW m \in Replies,
           call' = [c EXCEPT !.st = "reply", !.q = q, !.m = m]
    PROVE  CallOk'
<1>1. PICK d : d = [c EXCEPT !.st = "reply", !.q = q, !.m = m]
  OBVIOUS
<1>2. d \in Calls /\ d.q = q /\ d.m = m
  BY <1>1 DEF Calls
<1> QED BY <1>1, <1>2 DEF CallOk

\* A request is carried out and answered.
LEMMA CarryKept ==
    ASSUME RTypes, RInv, NEW q \in Requests, NEW c \in Calls, Carry(q, c)
    PROVE  Kept /\ CallOk'
<1>1. PICK a \in Apply(rt, q) :
        /\ call' = [c EXCEPT !.st = "reply", !.q = q, !.m = Reply(a)]
        /\ Settle([a.rt EXCEPT !.feedback = <<>>], IF a.rt.mirror = None THEN None ELSE lease,
                  a.ok /\ q.type \in {"Route", "EndSession"})
  BY DEF Carry
<1>2. coord
  BY DEF Carry
<1>3. Good(rt, Counting) /\ Full(rt) /\ Fits(rt) /\ Fresh(rt) \subseteq Counting
  BY CountingGood
<1>4. /\ Served(rt, a.rt, IF a.ok /\ q.type \in {"Route", "EndSession"} THEN {} ELSE Counting)
      /\ a.ok \in BOOLEAN
  BY <1>3, ApplyServed
<1>5. a.rt \in Runtime
  BY <1>4 DEF Served, Good
<1>6. CallOk'
  <2>1. Reply(a) \in Replies
    BY <1>4, <1>5, ReplyType
  <2> QED BY <1>1, <2>1, Answering
<1>7. PICK b \in BOOLEAN : b = (a.ok /\ q.type \in {"Route", "EndSession"})
  BY <1>4
<1>8. PICK d : d = [a.rt EXCEPT !.feedback = <<>>]
  OBVIOUS
<1>9. PICK l : l = IF a.rt.mirror = None THEN None ELSE lease
  OBVIOUS
<1>10. Settle(d, l, b)
  BY <1>1, <1>7, <1>8, <1>9
<1>11. Served(rt, a.rt, IF b THEN {} ELSE Counting)
  BY <1>4, <1>7
<1>12. Served(rt, d, IF b THEN {} ELSE Counting)
  BY <1>8, <1>11, ClearServed
<1>13. d.mirror = a.rt.mirror
  BY <1>5, <1>8, ClearCore DEF Core, Same
<1>14. (d.mirror # None => l = d.mirror) /\ l \in Launches \cup {None}
  BY <1>4, <1>9, <1>13 DEF Served, RInv, RTypes
<1> QED BY <1>2, <1>6, <1>10, <1>12, <1>14, SettleKept

\* A request on which the receiver ends.
LEMMA CarryFailsKept ==
    ASSUME RInv, NEW q \in Requests, NEW c \in Calls, CarryFails(q, c)
    PROVE  Kept /\ CallOk'
<1>1. rt \in Runtime
  BY DEF RInv, Good
<1>2. PICK s \in {rt.session, None} \cup (IF q.type = "BeginSession" THEN {q.launch} ELSE {}) :
        call' = [c EXCEPT !.st = "reply", !.q = q,
                          !.m = [ok |-> FALSE, session |-> s, count |-> rt.count,
                                 recovery |-> TRUE, events |-> rt.feedback]]
  BY DEF CarryFails
<1>3. q.type = "BeginSession" => q.launch \in Launches
  BY DEF Requests
<1>4. s \in Launches \cup {None}
  BY <1>1, <1>2, <1>3, RuntimeFields
<1>5. PICK m : m = [ok |-> FALSE, session |-> s, count |-> rt.count,
                    recovery |-> TRUE, events |-> rt.feedback]
  OBVIOUS
<1>6. m \in Replies
  BY <1>1, <1>4, <1>5, RuntimeFields DEF Replies
<1>7. CallOk'
  BY <1>2, <1>5, <1>6, Answering
<1>8. Kept
  BY BootKept DEF CarryFails
<1> QED BY <1>7, <1>8

\* SeatCoordinator::request.
LEMMA AskKept ==
    ASSUME IInv, NEW q \in Requests, Ask(q)
    PROVE  Kept /\ CallOk' /\ UNCHANGED <<link, fenced, manager, latest, mapper, handle, owner, producer, desync>>
<1>1. PICK c \in Calls : c = [NoCall EXCEPT !.waits = TRUE]
  BY NewCall
<1>2. Carry(q, c) \/ CarryFails(q, c)
  BY <1>1 DEF Ask
<1>3. Kept /\ CallOk'
  BY <1>2, CarryKept, CarryFailsKept DEF IInv
<1> QED BY <1>3 DEF Ask

\* The lease: it starts with the session that runs, and its reset asks for a release.
LEMMA StartLeaseKept ==
    ASSUME RTypes, RInv, NEW l \in Launches, StartLease(l)
    PROVE  Kept /\ Turned
<1>0. rt \in Runtime /\ None \notin Launches
  BY SeatConstants DEF RInv, Good
<1>1. PICK d : d = [rt EXCEPT !.mirror = l] /\ rt' = d
  BY DEF StartLease
<1>2. coord /\ Ready(rt) /\ rt.session = l /\ rt.mirror = None /\ lease' = l
      /\ coord' = coord /\ up' = up /\ pressed' = pressed
  BY DEF StartLease
<1>3. l \in Launches \cup {None}
  OBVIOUS
<1>4. /\ d \in Runtime /\ d.src = rt.src /\ d.seat = rt.seat /\ d.held = rt.held /\ d.route = rt.route
      /\ d.mirror = l /\ d.session = rt.session /\ d.recovery = rt.recovery /\ d.order = rt.order
      /\ d.count = rt.count /\ d.feedback = rt.feedback /\ d.overflow = rt.overflow
  BY <1>0, <1>1, <1>3 DEF Runtime
<1>5. Known(d) = Known(rt)
  BY <1>4 DEF Known
<1>6. Known(rt) \cap Remotes = {}
  <2>1. \A k \in Remotes : k[1] \in Launches
    BY DEF Remotes
  <2> QED BY <1>0, <1>2, <2>1 DEF RInv, Good, Mirrored
<1>7. Seated(d) /\ Armed(d, pressed) /\ HeldOk(d, pressed)
  BY <1>4 DEF RInv, Good, Seated, Armed, HeldOk
<1>8. Silent(d) /\ Mirrored(d)
  BY <1>2, <1>4, <1>5, <1>6 DEF RInv, Good, Silent, Mirrored, Ready
<1>9. Full(d)
  BY <1>4, <1>5 DEF RInv, Full, Free, FirstPress, Bound
<1>10. Keeps(rt, d)
  BY <1>4 DEF Keeps
<1>11. Good(d, pressed) /\ Full(d) /\ Fits(d) /\ ~d.overflow
  BY <1>4, <1>7, <1>8, <1>9 DEF Good, Fits, RInv
<1>12. Kept
  BY <1>1, <1>2, <1>3, <1>4, <1>10, <1>11 DEF Kept, RInv, RTypes
<1>13. Quiet(rt, d)
  BY <1>4 DEF Quiet, StateOf
<1>14. Tells(rt, d) /\ Stays(rt, d)
  BY <1>4, <1>13, QuietTells DEF Stays
<1> QED BY <1>1, <1>2, <1>12, <1>14 DEF Turned

\* InputSeatLease::reset.
LEMMA ResetLeaseKept ==
    ASSUME RTypes, RInv, ResetLease
    PROVE  Kept /\ (coord => Turned)
<1> DEFINE held == {s \in rt.held : rt.seat[s].key \notin Remotes}
           src == [k \in Keys |-> IF k \in Remotes /\ rt.src[k].known
                                  THEN [rt.src[k] EXCEPT !.rearm = TRUE] ELSE rt.src[k]]
<1>0. rt \in Runtime /\ rt.held \subseteq Slots /\ \A k \in Keys : rt.src[k] \in Sources
  BY RuntimeFields DEF RInv, Good
<1>1. PICK d : d = [rt EXCEPT !.held = held, !.src = src] /\ rt' = d
  BY DEF ResetLease
<1>2. coord' = coord /\ up' = up /\ pressed' = pressed /\ lease' = lease
  BY DEF ResetLease
<1>3. \A k \in Keys : LET x == [rt.src[k] EXCEPT !.rearm = TRUE]
                      IN  /\ x \in Sources /\ x.known = rt.src[k].known /\ x.rearm = TRUE
                          /\ x.has = rt.src[k].has /\ x.held = rt.src[k].held
  BY <1>0 DEF Sources
<1>4. /\ src \in [Keys -> Sources] /\ held \subseteq Slots
      /\ \A k \in Keys : /\ src[k].known = rt.src[k].known
                         /\ src[k].has = rt.src[k].has /\ src[k].held = rt.src[k].held
                         /\ src[k] = rt.src[k] \/ (k \in Remotes /\ src[k].rearm)
      /\ \A s \in held : s \in rt.held /\ rt.seat[s].key \notin Remotes
  BY <1>0, <1>3
<1> HIDE DEF held, src
<1>5. /\ d \in Runtime /\ d.src = src /\ d.seat = rt.seat /\ d.held = held /\ d.route = rt.route
      /\ d.mirror = rt.mirror /\ d.session = rt.session /\ d.recovery = rt.recovery /\ d.order = rt.order
      /\ d.count = rt.count /\ d.feedback = rt.feedback /\ d.overflow = rt.overflow
  BY <1>0, <1>1, <1>4 DEF Runtime
<1>6. Known(d) = Known(rt)
  <2>1. \A k \in Keys : d.src[k].known = rt.src[k].known
    BY <1>4, <1>5
  <2> QED BY <2>1 DEF Known
<1>s. \A s \in Slots : rt.seat[s].key # None => rt.seat[s].key \in Keys
  BY <1>0, RuntimeFields
<1>7. Seated(d)
  <2>1. \A s \in Slots : rt.seat[s].key # None => src[rt.seat[s].key].known = rt.src[rt.seat[s].key].known
    BY <1>4, <1>s
  <2> QED BY <1>5, <2>1 DEF RInv, Good, Seated
<1>8. Armed(d, pressed)
  BY <1>4, <1>5 DEF RInv, Good, Armed
<1>9. HeldOk(d, pressed)
  <2> SUFFICES ASSUME NEW s \in d.held
               PROVE  /\ d.route /\ d.seat[s].on /\ d.seat[s].key \in pressed
                      /\ d.src[d.seat[s].key].held /\ ~d.src[d.seat[s].key].rearm
    BY DEF HeldOk
  <2>1. s \in rt.held /\ rt.seat[s].key \notin Remotes /\ s \in Slots
    BY <1>0, <1>4, <1>5
  <2>2. /\ rt.route /\ rt.seat[s].on /\ rt.seat[s].key \in pressed
        /\ rt.src[rt.seat[s].key].held /\ ~rt.src[rt.seat[s].key].rearm
    BY <2>1 DEF RInv, Good, HeldOk
  <2>3. rt.seat[s].key \in Keys
    BY <1>s, <2>1, <2>2 DEF RInv, Good, Seated
  <2>4. src[rt.seat[s].key] = rt.src[rt.seat[s].key]
    BY <1>4, <2>1, <2>3
  <2> QED BY <1>5, <2>2, <2>4
<1>10. Silent(d) /\ Mirrored(d)
  BY <1>5, <1>6 DEF RInv, Good, Silent, Mirrored
<1>11. Full(d)
  BY <1>5, <1>6 DEF RInv, Full, Free, FirstPress, Bound
<1>12. Keeps(rt, d)
  BY <1>5 DEF Keeps
<1>13. Good(d, pressed) /\ Fits(d) /\ ~d.overflow
  BY <1>5, <1>7, <1>8, <1>9, <1>10 DEF Good, Fits, RInv
<1>14. Kept
  BY <1>1, <1>2, <1>5, <1>11, <1>12, <1>13 DEF Kept, RInv, RTypes
<1>15. Quiet(rt, d)
  <2>1. \A k \in Remotes : k \in Keys
    BY DEF Keys
  <2> QED BY <1>4, <1>5, <2>1 DEF Quiet, StateOf
<1>16. Tells(rt, d) /\ Stays(rt, d)
  BY <1>5, <1>15, QuietTells DEF Stays
<1> QED BY <1>1, <1>2, <1>14, <1>16 DEF Turned

\* A step that leaves korrid alone.
LEMMA SameKorrid ==
    ASSUME KTypes, UNCHANGED korridVars
    PROVE  KTypes'
BY DEF KTypes, korridVars, CallOk

\* The receiver's own steps.
LEMMA ReceiverStep ==
    ASSUME IInv, Receiver
    PROVE  Kept /\ KTypes'
<1>0. RTypes /\ RInv /\ KTypes
  BY DEF IInv
<1>1. CASE LoseCoordinator
  <2>1. UNCHANGED korridVars
    BY <1>1 DEF LoseCoordinator
  <2> QED BY <1>0, <1>1, <2>1, LoseCoordinatorKept, SameKorrid
<1>2. CASE LeaseHangup
  <2>1. PICK new \in Unbind(rt) : Settle(new, None, FALSE)
    BY <1>2 DEF LeaseHangup
  <2>2. UNCHANGED korridVars
    BY <1>2 DEF LeaseHangup
  <2> QED BY <1>0, <2>1, <2>2, UnbindKept, SameKorrid
<1>3. ASSUME NEW c \in Controllers, FrameConnected(c) PROVE Kept /\ KTypes'
  <2>1. UNCHANGED korridVars
    BY <1>3 DEF FrameConnected
  <2> QED BY <1>0, <1>3, <2>1, FrameConnectedKept, SameKorrid
<1>4. ASSUME NEW c \in Controllers, FrameDisconnected(c) PROVE Kept /\ KTypes'
  <2>1. UNCHANGED korridVars
    BY <1>4 DEF FrameDisconnected
  <2>2. PICK k : k = <<rt.mirror, c>>
    OBVIOUS
  <2>3. rt.mirror # None /\ \E new \in DropSources(rt, {k}) : Settle(new, lease, FALSE)
    BY <1>4, <2>2 DEF FrameDisconnected
  <2>4. rt.mirror \in Launches
    BY <1>0, <2>3, RuntimeFields DEF RInv, Good
  <2>5. {k} \in SUBSET Keys
    BY <2>2, <2>4 DEF Keys, Remotes
  <2>6. PICK new \in DropSources(rt, {k}) : Settle(new, lease, FALSE)
    BY <2>3
  <2>7. Kept
    BY <1>0, <2>5, <2>6, DropKept
  <2> QED BY <1>0, <2>1, <2>7, SameKorrid
<1>5. ASSUME NEW c \in Controllers, NEW h \in BOOLEAN, FrameState(c, h) PROVE Kept /\ KTypes'
  <2>1. UNCHANGED korridVars
    BY <1>5 DEF FrameState
  <2> QED BY <1>0, <1>5, <2>1, FrameStateKept, SameKorrid
<1>6. ASSUME NEW k \in Keys, Expire(k) PROVE Kept /\ KTypes'
  <2>1. UNCHANGED korridVars
    BY <1>6 DEF Expire
  <2>2. PICK new \in DropSources(rt, {k}) : Settle(new, lease, FALSE)
    BY <1>6 DEF Expire
  <2>3. {k} \in SUBSET Keys
    OBVIOUS
  <2>4. Kept
    BY <1>0, <2>2, <2>3, DropKept
  <2> QED BY <1>0, <2>1, <2>4, SameKorrid
<1>7. CASE ReceiverDies
  <2>1. UNCHANGED korridVars
    BY <1>7 DEF ReceiverDies
  <2>2. Kept
    BY <1>7, BootKept DEF ReceiverDies
  <2> QED BY <1>0, <2>1, <2>2, SameKorrid
<1>8. CASE ReceiverBoots
  <2>1. UNCHANGED korridVars
    BY <1>8 DEF ReceiverBoots, korridVars
  <2>2. Kept
    BY <1>0, <1>8, StutterKept DEF ReceiverBoots
  <2> QED BY <1>0, <2>1, <2>2, SameKorrid
<1> QED BY <1>1, <1>2, <1>3, <1>4, <1>5, <1>6, <1>7, <1>8 DEF Receiver

\* The fields of a request that carry a launch.
LEMMA RequestFields ==
    ASSUME NEW q \in Requests
    PROVE  /\ q.type = "BeginSession" => q.launch \in Launches
           /\ q.type = "Route" => q.launch \in Launches \cup {None}
BY DEF Requests

\* The steps of korrid's coordinator thread.
LEMMA ThreadStep ==
    ASSUME IInv, Thread
    PROVE  Kept /\ KTypes'
<1>0. RTypes /\ RInv /\ KTypes
  BY DEF IInv
<1>e. ThreadEnds /\ desync' \in BOOLEAN => KTypes'
  BY <1>0, Empties DEF KTypes, ThreadEnds, CallOk
<1>s. UNCHANGED <<recvVars, pressed>> => Kept
  BY <1>0, StutterKept DEF recvVars, RTypes
<1>1. CASE ThreadStops
  BY <1>0, <1>1, <1>e, <1>s DEF ThreadStops, KTypes
<1>2. CASE PollFails
  BY <1>0, <1>2, <1>e, <1>s DEF PollFails, KTypes
<1>3. CASE Deliver
  <2>1. CASE ThreadEnds /\ desync' = TRUE /\ UNCHANGED <<recvVars, pressed>>
    BY <1>e, <1>s, <2>1
  <2>2. CASE /\ mapper' = MapAll(mapper, call.m.events)
             /\ latest' = Snapshot(call.m)
             /\ IF call.waits THEN Answered(call.m)
                ELSE call' = NoCall /\ UNCHANGED <<fenced, manager, owner>>
             /\ UNCHANGED <<recvVars, link, handle, producer, pressed, desync>>
    <3>1. call.m \in Replies /\ call.q \in Requests /\ call \in Calls
      BY <1>0, <1>3 DEF Deliver, KTypes, CallOk
    <3>2. call.m.events \in Seq(Event) /\ call.m.ok \in BOOLEAN /\ call.init \in BOOLEAN
      BY <3>1 DEF Replies, Calls
    <3>3. mapper' \in Mappers /\ latest' \in Latest
      BY <1>0, <2>2, <3>1, <3>2, MapAllType, SnapshotType DEF KTypes
    <3>4. CallOk' /\ fenced' \in BOOLEAN /\ manager' \in Managers /\ owner' \in Launches \cup {None}
      <4>1. CASE ~call.waits
        BY <1>0, <2>2, <4>1, Empties DEF KTypes, CallOk
      <4>2. CASE call.waits
        <5>0. Answered(call.m)
          BY <2>2, <4>2
        <5>1. CallOk'
          BY <5>0, Empties DEF Answered, CallOk
        <5>2. fenced' \in BOOLEAN
          BY <5>0 DEF Answered
        <5>3. owner' \in Launches \cup {None}
          BY <1>0, <3>1, <5>0, RequestFields DEF Answered, KTypes
        <5>4. CachedRoute(call.q) \in Launches \cup {None, "unset"}
          BY <1>0, <3>1, RequestFields DEF CachedRoute, KTypes, Managers
        <5>5. manager' \in Managers
          <6>1. \E i, g \in BOOLEAN : manager' = [init |-> i, route |-> IF g THEN CachedRoute(call.q) ELSE manager.route]
            BY <1>0, <5>0 DEF Answered, KTypes, Managers
          <6>2. manager.route \in Launches \cup {None, "unset"}
            BY <1>0 DEF KTypes, Managers
          <6> QED BY <5>4, <6>1, <6>2 DEF Managers
        <5> QED BY <5>1, <5>2, <5>3, <5>5
      <4> QED BY <4>1, <4>2
    <3> QED BY <1>0, <1>s, <2>2, <3>3, <3>4 DEF KTypes
  <2> QED BY <1>3, <2>1, <2>2 DEF Deliver
<1>4. CASE Poll
  <2>0. rt \in Runtime /\ rt.feedback \in Seq(Event)
    BY <1>0, RuntimeFields DEF RInv, Good
  <2>1. Kept
    <3>1. rt' = [rt EXCEPT !.feedback = <<>>] /\ UNCHANGED <<coord, lease, up, pressed>>
      BY <1>4 DEF Poll
    <3>2. Core(rt, rt') /\ Fits(rt') /\ rt'.overflow = rt.overflow
      BY <2>0, <3>1, ClearCore
    <3>3. Good(rt', pressed) /\ Full(rt') /\ Keeps(rt, rt')
      BY <1>0, <3>2, CoreGood DEF RInv
    <3> QED BY <1>0, <3>1, <3>2, <3>3 DEF Kept, RInv, RTypes, Core, Same
  <2>2. CASE ThreadEnds /\ desync' = TRUE
    BY <1>e, <2>1, <2>2
  <2>3. CASE /\ mapper' = MapAll(mapper, rt.feedback)
             /\ latest' = Snapshot(rt)
             /\ UNCHANGED <<link, fenced, manager, handle, owner, call, producer, desync>>
    <3>1. mapper' \in Mappers /\ latest' \in Latest
      BY <1>0, <2>0, <2>3, MapAllType, SnapshotType DEF KTypes
    <3>2. KTypes'
      BY <1>0, <2>3, <3>1 DEF KTypes, CallOk
    <3> QED BY <2>1, <3>2
  <2> QED BY <1>4, <2>2, <2>3 DEF Poll
<1> QED BY <1>1, <1>2, <1>3, <1>4 DEF Thread

\* The steps of korrid's input manager and of its lease.
LEMMA ManagerStep ==
    ASSUME IInv, Manager
    PROVE  Kept /\ KTypes'
<1>0. RTypes /\ RInv /\ KTypes /\ None \notin Launches
  BY SeatConstants DEF IInv
<1>s. UNCHANGED <<recvVars, pressed>> => Kept
  BY <1>0, StutterKept DEF recvVars, RTypes
<1>a. ASSUME NEW q \in Requests, Ask(q) PROVE Kept /\ KTypes'
  <2>1. /\ Kept /\ CallOk'
        /\ UNCHANGED <<link, fenced, manager, latest, mapper, handle, owner, producer, desync>>
    BY <1>a, AskKept
  <2> QED BY <1>0, <2>1 DEF KTypes
<1>1. CASE Hello
  <2>1. latest' \in Latest
    BY <1>0, <1>1, SnapshotType DEF Hello, RInv, Good
  <2>2. KTypes'
    BY <1>0, <1>1, <2>1 DEF Hello, KTypes, CallOk
  <2>3. UNCHANGED <<rt, lease, up, pressed>> /\ ~coord /\ coord' = TRUE
    BY <1>1 DEF Hello, Starting
  <2>4. Keeps(rt, rt)
    BY DEF Keeps
  <2>5. Kept
    BY <1>0, <2>3, <2>4 DEF Kept, RInv, RTypes
  <2> QED BY <2>2, <2>5
<1>2. CASE HelloFails
  BY <1>0, <1>2, <1>s DEF HelloFails, KTypes, CallOk
<1>3. ASSUME NEW s \in {None, owner}, NEW n \in Slots, Initialize(s, n) PROVE Kept /\ KTypes'
  <2> DEFINE q == IF s # None THEN [type |-> "BeginSession", launch |-> s, order |-> "FirstPress"]
                  ELSE IF latest.session # None THEN [type |-> "EndSession", launch |-> latest.session]
                  ELSE [type |-> "ApplyCount", count |-> n]
  <2>1. s \in Launches \cup {None} /\ latest.session \in Launches \cup {None}
    BY <1>0, <1>3 DEF KTypes, Latest
  <2>2. q \in Requests
    BY <2>1 DEF Requests, Orders
  <2>3. PICK c \in Calls : c = [NoCall EXCEPT !.waits = TRUE, !.init = TRUE]
    BY NewCall
  <2>4. /\ owner' = s /\ fenced' \in BOOLEAN
        /\ UNCHANGED <<link, manager, latest, mapper, handle, producer, desync>>
        /\ UNCHANGED <<recvVars, call, pressed>> \/ Carry(q, c) \/ CarryFails(q, c)
    BY <1>3, <2>3 DEF Initialize
  <2> HIDE DEF q
  <2>5. Kept /\ CallOk'
    <3>1. CASE UNCHANGED <<recvVars, call, pressed>>
      BY <1>0, <1>s, <3>1 DEF KTypes, CallOk
    <3>2. CASE Carry(q, c)
      BY <1>0, <2>2, <2>3, <3>2, CarryKept
    <3>3. CASE CarryFails(q, c)
      BY <1>0, <2>2, <2>3, <3>3, CarryFailsKept
    <3> QED BY <2>4, <3>1, <3>2, <3>3
  <2> QED BY <1>0, <2>1, <2>4, <2>5 DEF KTypes
<1>4. ASSUME NEW n \in Slots, CallCount(n) PROVE Kept /\ KTypes'
  <2>1. [type |-> "ApplyCount", count |-> n] \in Requests
    BY DEF Requests
  <2> QED BY <1>4, <1>a, <2>1 DEF CallCount
<1>5. ASSUME NEW l \in Launches, StartLease(l) PROVE Kept /\ KTypes'
  <2>1. Kept
    BY <1>0, <1>5, StartLeaseKept
  <2>2. KTypes'
    BY <1>0, <1>5 DEF StartLease, KTypes, CallOk
  <2> QED BY <2>1, <2>2
<1>6. ASSUME NEW l \in Launches, NEW o \in Orders, CallBegin(l, o) PROVE Kept /\ KTypes'
  <2>1. [type |-> "BeginSession", launch |-> l, order |-> o] \in Requests
    BY DEF Requests
  <2> QED BY <1>6, <1>a, <2>1 DEF CallBegin
<1>7. ASSUME NEW g \in Guests, CallReserve(g) PROVE Kept /\ KTypes'
  <2>1. owner \in Launches
    BY <1>0, <1>7 DEF CallReserve, KTypes
  <2>2. [type |-> "ReserveNetplay", launch |-> owner, key |-> g] \in Requests
    BY <2>1 DEF Requests
  <2> QED BY <1>7, <1>a, <2>2 DEF CallReserve
<1>8. ASSUME NEW x \in {None, owner}, CallRoute(x) PROVE Kept /\ KTypes'
  <2>1. x \in Launches \cup {None}
    BY <1>0, <1>8 DEF KTypes
  <2>2. [type |-> "Route", launch |-> x] \in Requests
    BY <2>1 DEF Requests
  <2> QED BY <1>8, <1>a, <2>2 DEF CallRoute
<1>9. CASE CallEnd
  <2>1. owner \in Launches
    BY <1>0, <1>9 DEF CallEnd, KTypes
  <2>2. [type |-> "EndSession", launch |-> owner] \in Requests
    BY <2>1 DEF Requests
  <2>3. CASE Ask([type |-> "EndSession", launch |-> owner])
    BY <1>a, <2>2, <2>3
  <2>4. CASE /\ owner' = None
             /\ UNCHANGED <<recvVars, link, fenced, manager, latest, mapper, handle, call, producer,
                            pressed, desync>>
    <3>1. KTypes'
      BY <1>0, <2>4 DEF KTypes, CallOk
    <3> QED BY <1>s, <2>4, <3>1
  <2> QED BY <1>9, <2>3, <2>4 DEF CallEnd
<1>10. CASE ResetLease
  <2>1. UNCHANGED korridVars
    BY <1>10 DEF ResetLease, korridVars
  <2> QED BY <1>0, <1>10, <2>1, ResetLeaseKept, SameKorrid
<1>11. CASE StopLease
  <2>1. PICK new \in Unbind(rt) : Settle(new, None, FALSE)
    BY <1>11 DEF StopLease
  <2>2. KTypes'
    BY <1>0, <1>11 DEF StopLease, KTypes, CallOk
  <2> QED BY <1>0, <2>1, <2>2, UnbindKept
<1>12. CASE DropLease
  <2>1. KTypes'
    BY <1>0, <1>12 DEF DropLease, KTypes, CallOk
  <2> QED BY <1>12, <1>s, <2>1 DEF DropLease
<1>13. CASE KorridDies
  <2>1. KTypes'
    BY <1>0, <1>13, Empties DEF KorridDies, KTypes, CallOk
  <2> QED BY <1>13, <1>s, <2>1 DEF KorridDies
<1>14. CASE CallerTimesOut
  <2>1. call \in Calls /\ (call.st = "reply" => call.q \in Requests /\ call.m \in Replies)
    BY <1>0 DEF KTypes, CallOk
  <2>2. PICK d : d = [call EXCEPT !.waits = FALSE] /\ call' = d
    BY <1>14 DEF CallerTimesOut
  <2>3. d \in Calls /\ d.st = call.st /\ d.q = call.q /\ d.m = call.m
    BY <2>1, <2>2 DEF Calls
  <2>4. CallOk'
    BY <2>1, <2>2, <2>3 DEF CallOk
  <2>5. KTypes'
    BY <1>0, <1>14, <2>4 DEF CallerTimesOut, KTypes
  <2> QED BY <1>14, <1>s, <2>5 DEF CallerTimesOut
<1> QED BY <1>1, <1>2, <1>3, <1>4, <1>5, <1>6, <1>7, <1>8, <1>9, <1>10, <1>11, <1>12, <1>13, <1>14 DEF Manager

\* A request about a local controller.
LEMMA PadRequestStep ==
    ASSUME IInv, NEW q \in PadRequests, NEW pads \in SUBSET Pads, PadRequest(q, pads)
    PROVE  Kept /\ KTypes'
<1>0. RTypes /\ RInv /\ KTypes
  BY DEF IInv
<1>1. PICK a \in Apply(rt, q) :
        /\ Settle([a.rt EXCEPT !.feedback = <<>>], lease, FALSE)
        /\ \/ ThreadEnds /\ desync' \in BOOLEAN
           \/ /\ mapper' = IF a.ok THEN MapPads(MapAll(mapper, Reply(a).events), q)
                                   ELSE MapAll(mapper, Reply(a).events)
              /\ latest' = Snapshot(Reply(a))
              /\ producer' = [pads |-> pads, on |-> a.ok]
              /\ UNCHANGED <<link, fenced, manager, handle, owner, call, desync>>
  BY DEF PadRequest
<1>2. coord
  BY DEF PadRequest
<1>3. Good(rt, Counting) /\ Full(rt) /\ Fits(rt) /\ Fresh(rt) \subseteq Counting
  BY <1>0, CountingGood
<1>q. q.type \notin {"Route", "EndSession"} /\ q.key \in Pads
  BY DEF PadRequests
<1>4. /\ Served(rt, a.rt, IF a.ok /\ q.type \in {"Route", "EndSession"} THEN {} ELSE Counting)
      /\ a.ok \in BOOLEAN
  BY <1>3, ApplyServed
<1>5. a.rt \in Runtime /\ Served(rt, a.rt, Counting)
  BY <1>4, <1>q DEF Served, Good
<1>6. Kept
  <2>1. PICK d : d = [a.rt EXCEPT !.feedback = <<>>]
    OBVIOUS
  <2>2. PICK b \in BOOLEAN : b = FALSE
    OBVIOUS
  <2>3. Settle(d, lease, b)
    BY <1>1, <2>1, <2>2
  <2>4. Served(rt, d, IF b THEN {} ELSE Counting)
    BY <1>5, <2>1, <2>2, ClearServed
  <2>5. d.mirror = a.rt.mirror
    BY <1>5, <2>1, ClearCore DEF Core, Same
  <2>6. (d.mirror # None => lease = d.mirror) /\ lease \in Launches \cup {None}
    BY <1>0, <1>5, <2>5 DEF Served, RInv, RTypes
  <2> QED BY <1>0, <1>2, <2>3, <2>4, <2>6, SettleKept
<1>7. KTypes'
  <2>1. CASE ThreadEnds /\ desync' \in BOOLEAN
    BY <1>0, <2>1, Empties DEF KTypes, ThreadEnds, CallOk
  <2>2. CASE /\ mapper' = IF a.ok THEN MapPads(MapAll(mapper, Reply(a).events), q)
                                  ELSE MapAll(mapper, Reply(a).events)
             /\ latest' = Snapshot(Reply(a))
             /\ producer' = [pads |-> pads, on |-> a.ok]
             /\ UNCHANGED <<link, fenced, manager, handle, owner, call, desync>>
    <3>1. Reply(a) \in Replies
      BY <1>4, <1>5, ReplyType
    <3>2. Reply(a).events \in Seq(Event)
      BY <3>1 DEF Replies
    <3>3. PICK seen \in Mappers : seen = MapAll(mapper, Reply(a).events)
      BY <1>0, <3>2, MapAllType DEF KTypes
    <3>4. MapPads(seen, q) \in Mappers
      BY <1>q DEF MapPads, Mappers
    <3>5. mapper' \in Mappers /\ latest' \in Latest
      BY <2>2, <3>1, <3>3, <3>4, SnapshotType
    <3>6. producer' \in Producers
      BY <1>4, <2>2 DEF Producers
    <3> QED BY <1>0, <2>2, <3>5, <3>6 DEF KTypes, CallOk
  <2> QED BY <1>1, <2>1, <2>2
<1> QED BY <1>6, <1>7

\* The steps of the producer of local controllers.
LEMMA ProducerStep ==
    ASSUME IInv, Producer
    PROVE  Kept /\ KTypes'
<1>0. RTypes /\ RInv /\ KTypes
  BY DEF IInv
<1>p. producer.pads \in SUBSET Pads
  BY <1>0 DEF KTypes, Producers
<1>s. UNCHANGED <<recvVars, pressed>> => Kept
  BY <1>0, StutterKept DEF recvVars, RTypes
<1>1. CASE ProducerOpens
  <2>1. KTypes'
    BY <1>0, <1>1, Empties DEF ProducerOpens, KTypes, CallOk
  <2> QED BY <1>1, <1>s, <2>1 DEF ProducerOpens
<1>2. CASE ProducerEnds
  <2>1. producer' \in Producers
    BY <1>0, <1>2 DEF ProducerEnds, KTypes, Producers
  <2>2. KTypes'
    BY <1>0, <1>2, <2>1 DEF ProducerEnds, KTypes, CallOk
  <2> QED BY <1>2, <1>s, <2>2 DEF ProducerEnds
<1>3. ASSUME NEW p \in Pads, PadDisconnects(p) PROVE Kept /\ KTypes'
  <2>1. [type |-> "PhysicalDisconnected", key |-> p] \in PadRequests
    BY DEF PadRequests
  <2>2. producer.pads \ {p} \in SUBSET Pads
    BY <1>p
  <2> QED BY <1>3, <2>1, <2>2, PadRequestStep DEF PadDisconnects
<1>4. ASSUME NEW p \in Pads, NEW h \in BOOLEAN, PadConnects(p, h) PROVE Kept /\ KTypes'
  <2>1. [type |-> "PhysicalConnected", key |-> p, held |-> h] \in PadRequests
    BY DEF PadRequests
  <2>2. producer.pads \cup {p} \in SUBSET Pads
    BY <1>p
  <2> QED BY <1>4, <2>1, <2>2, PadRequestStep DEF PadConnects
<1>5. ASSUME NEW p \in Pads, NEW h \in BOOLEAN, PadStates(p, h) PROVE Kept /\ KTypes'
  <2>1. [type |-> "PhysicalState", key |-> p, held |-> h] \in PadRequests
    BY DEF PadRequests
  <2> QED BY <1>5, <1>p, <2>1, PadRequestStep DEF PadStates
<1>6. ASSUME NEW p \in Pads, Cleanup(p) PROVE Kept /\ KTypes'
  <2>1. CASE /\ \E new \in DropSources(rt, {p}) :
                  /\ mapper' = MapPads(MapAll(mapper, new.feedback), [type |-> "PhysicalDisconnected", key |-> p])
                  /\ Settle([new EXCEPT !.feedback = <<>>], lease, FALSE)
             /\ producer' = [producer EXCEPT !.pads = @ \ {p}]
             /\ UNCHANGED <<link, fenced, manager, latest, handle, owner, call, desync>>
    <3>1. PICK new \in DropSources(rt, {p}) :
                  /\ mapper' = MapPads(MapAll(mapper, new.feedback), [type |-> "PhysicalDisconnected", key |-> p])
                  /\ Settle([new EXCEPT !.feedback = <<>>], lease, FALSE)
      BY <2>1
    <3>2. {p} \in SUBSET Keys
      BY DEF Keys
    <3>3. PICK r : r = [new EXCEPT !.feedback = <<>>]
      OBVIOUS
    <3>4. Kept
      BY <1>0, <3>1, <3>2, <3>3, DropKept
    <3>5. Good(rt, Counting)
      BY <1>0, CountingGood
    <3>6. Without(rt, new, {p})
      BY <3>1, <3>2, <3>5, GoodIsLoose, DropGood
    <3>7. new.feedback \in Seq(Event)
      BY <3>6, RuntimeFields DEF Without
    <3>8. PICK seen \in Mappers : seen = MapAll(mapper, new.feedback)
      BY <1>0, <3>7, MapAllType DEF KTypes
    <3>9. MapPads(seen, [type |-> "PhysicalDisconnected", key |-> p]) \in Mappers
      BY DEF MapPads, Mappers
    <3>10. producer' \in Producers
      BY <1>0, <2>1 DEF KTypes, Producers
    <3>11. KTypes'
      BY <1>0, <2>1, <3>1, <3>8, <3>9, <3>10 DEF KTypes, CallOk
    <3> QED BY <3>4, <3>11
  <2>2. CASE /\ fenced' = TRUE
             /\ producer' = [producer EXCEPT !.pads = {}]
             /\ UNCHANGED <<recvVars, link, manager, latest, mapper, handle, owner, call, pressed, desync>>
    <3>1. producer' \in Producers
      BY <1>0, <2>2 DEF KTypes, Producers
    <3>2. KTypes'
      BY <1>0, <2>2, <3>1 DEF KTypes, CallOk
    <3> QED BY <1>s, <2>2, <3>2
  <2> QED BY <1>6, <2>1, <2>2 DEF Cleanup
<1> QED BY <1>1, <1>2, <1>3, <1>4, <1>5, <1>6 DEF Producer

-----------------------------------------------------------------------------
(* korrid's picture of the receiver.                                          *)

(* The native sources once the reply that is on its way has arrived.           *)
Seen == IF call.st = "reply" THEN MapAll(mapper, call.m.events) ELSE mapper

NInv == /\ ~desync
        /\ ~link => mapper = NoMapper /\ call.st = "none"
        /\ ~coord => rt.feedback = <<>> /\ lease = None
        /\ link /\ call.st = "reply" => MapsAll(mapper, call.m.events)
        /\ link /\ coord => Agrees(Seen, rt)

(* The receiver's route is x, as far as korrid can tell.                       *)
RouteOf(x) == /\ x = None => ~rt.route
              /\ x \in Launches /\ coord => rt.route /\ rt.session = x

Obeyed == call.st = "reply" /\ call.m.ok

(* What korrid has cached, with what a reply on its way will correct.          *)
CInv == ~fenced =>
    /\ ~manager.init => manager.route = "unset"
    /\ (Obeyed /\ call.q.type \in {"BeginSession", "EndSession", "Route"}) \/ RouteOf(manager.route)
    /\ Obeyed /\ call.q.type = "Route" => RouteOf(call.q.launch)
    /\ call.st = "reply" =>
          /\ call.waits /\ (call.init => ~manager.init)
          /\ manager.init \/ call.init \/ call.q.type = "EndSession"
          /\ call.q.type \in {"Route", "ReserveNetplay"} => manager.init
    /\ link /\ coord /\ call.st = "none" =>
          latest.session = rt.session /\ (manager.init => owner = rt.session)
    /\ link /\ coord /\ call.st = "reply" =>
          /\ call.m.session = rt.session
          /\ ~call.m.ok /\ manager.init => owner = rt.session
          /\ call.q.type = "ApplyCount" => owner = None
          /\ call.q.type = "EndSession" /\ manager.init => owner = call.q.launch
          /\ call.q.type \in {"Route", "ReserveNetplay"} => owner = rt.session

VInv == NInv /\ CInv

LEMMA SeenType ==
    ASSUME KTypes
    PROVE  Seen \in Mappers
<1>1. CASE call.st = "reply"
  <2>1. call.m \in Replies
    BY <1>1 DEF KTypes, CallOk
  <2>2. call.m.events \in Seq(Event)
    BY <2>1 DEF Replies
  <2> QED BY <1>1, <2>2, MapAllType DEF Seen, KTypes
<1>2. CASE call.st # "reply"
  BY <1>2 DEF Seen, KTypes
<1> QED BY <1>1, <1>2

\* Nothing is pending.
LEMMA NothingPending ==
    ASSUME NEW m \in Mappers, NEW r, r.feedback = <<>>, Shows(m, r)
    PROVE  Agrees(m, r)
BY MapNone DEF Agrees

\* A step that korrid is told of, or that cuts it off, leaves its picture true.
LEMMA TurnView ==
    ASSUME IInv, VInv, IInv', Turned \/ UNCHANGED <<rt, coord, lease>>,
           UNCHANGED <<link, fenced, manager, latest, mapper, owner, call, desync>>
    PROVE  VInv'
<1>0. ~rt'.overflow /\ Seen \in Mappers
  BY SeenType DEF IInv, RInv
<1>1. Seen' = Seen /\ (Obeyed' <=> Obeyed)
  BY DEF Seen, Obeyed
<1>2. CASE UNCHANGED <<rt, coord, lease>>
  <2>1. NInv'
    BY <1>1, <1>2 DEF VInv, NInv
  <2>2. CInv'
    BY <1>1, <1>2 DEF VInv, CInv, RouteOf
  <2> QED BY <2>1, <2>2 DEF VInv
<1>3. CASE Cut
  <2>1. NInv'
    BY <1>3 DEF VInv, NInv, Cut
  <2>2. CInv'
    BY <1>1, <1>3 DEF VInv, CInv, RouteOf, Cut
  <2> QED BY <2>1, <2>2 DEF VInv
<1>4. CASE coord /\ coord' = coord /\ Tells(rt, rt') /\ Stays(rt, rt')
  <2>1. link => Agrees(Seen, rt')
    BY <1>0, <1>4 DEF VInv, NInv, Tells, Agrees
  <2>2. NInv'
    BY <1>1, <1>4, <2>1 DEF VInv, NInv
  <2>3. CInv'
    BY <1>1, <1>4 DEF VInv, CInv, RouteOf, Stays
  <2> QED BY <2>2, <2>3 DEF VInv
<1> QED BY <1>2, <1>3, <1>4 DEF Turned

\* The thread ends: what korrid has cached is fenced off.
LEMMA EndedView ==
    ASSUME ThreadEnds, ~desync', ~coord' => rt'.feedback = <<>> /\ lease' = None
    PROVE  VInv'
<1>1. link' = FALSE /\ mapper' = NoMapper /\ call'.st = "none" /\ fenced' = TRUE
  BY Empties DEF ThreadEnds
<1>2. NInv'
  BY <1>1 DEF NInv
<1>3. CInv'
  BY <1>1 DEF CInv
<1> QED BY <1>2, <1>3 DEF VInv

\* The thread takes over all that was pending.
LEMMA HeardView ==
    ASSUME VInv, link, coord, call.st = "none", mapper' \in Mappers,
           UNCHANGED <<link, fenced, manager, owner, call, desync>>,
           \/ Cut
           \/ /\ coord' = coord /\ rt'.feedback = <<>> /\ Shows(mapper', rt') /\ Stays(rt, rt')
              /\ ~fenced => latest'.session = rt.session
    PROVE  VInv'
<1>1. Seen' = mapper' /\ ~Obeyed' /\ ~Obeyed
  BY DEF Seen, Obeyed
<1>2. CASE Cut
  <2>1. NInv'
    BY <1>2 DEF VInv, NInv, Cut
  <2>2. CInv'
    BY <1>1, <1>2 DEF VInv, CInv, RouteOf, Cut
  <2> QED BY <2>1, <2>2 DEF VInv
<1>3. CASE /\ coord' = coord /\ rt'.feedback = <<>> /\ Shows(mapper', rt') /\ Stays(rt, rt')
           /\ ~fenced => latest'.session = rt.session
  <2>1. Agrees(mapper', rt')
    BY <1>3, NothingPending
  <2>2. NInv'
    BY <1>1, <1>3, <2>1 DEF VInv, NInv
  <2>3. CInv'
    BY <1>1, <1>3 DEF VInv, CInv, RouteOf, Stays
  <2> QED BY <2>2, <2>3 DEF VInv
<1> QED BY <1>2, <1>3

\* A request was answered; the reply is on its way.
LEMMA ReplyView ==
    ASSUME VInv, link, coord, ~fenced, call.st = "none", mapper \in Mappers,
           NEW q, NEW m \in Replies,
           call'.st = "reply", call'.q = q, call'.m = m, call'.waits, call'.init => ~manager.init,
           manager.init \/ call'.init \/ q.type = "EndSession",
           MapsAll(mapper, m.events),
           \/ Cut
           \/ /\ coord' = coord /\ rt'.feedback = <<>> /\ Shows(MapAll(mapper, m.events), rt')
              /\ m.session = rt'.session
              /\ ~m.ok \/ q.type \notin {"BeginSession", "EndSession", "Route"} => Stays(rt, rt')
              /\ m.ok /\ q.type = "Route" => /\ rt'.session = rt.session /\ q.launch \in {None, rt.session}
                                             /\ rt'.route <=> q.launch # None,
           UNCHANGED <<link, manager, latest, mapper, desync>>, fenced' = FALSE,
           manager.init => owner' = owner,
           q.type = "ApplyCount" => owner' = None,
           q.type = "EndSession" /\ manager.init => owner' = q.launch,
           q.type \in {"Route", "ReserveNetplay"} => manager.init
    PROVE  VInv'
<1>0. m.events \in Seq(Event) /\ m.ok \in BOOLEAN
  BY DEF Replies
<1>1. Seen' = MapAll(mapper, m.events) /\ (Obeyed' <=> m.ok) /\ ~Obeyed
  BY DEF Seen, Obeyed
<1>2. MapAll(mapper, m.events) \in Mappers
  BY <1>0, MapAllType
<1>3. RouteOf(manager.route) /\ (~manager.init => manager.route = "unset")
      /\ latest.session = rt.session /\ (manager.init => owner = rt.session)
  BY <1>1 DEF VInv, CInv
<1>4. CASE Cut
  <2>1. NInv'
    BY <1>4 DEF VInv, NInv, Cut
  <2>2. CInv'
    BY <1>1, <1>3, <1>4 DEF CInv, RouteOf, Cut
  <2> QED BY <2>1, <2>2 DEF VInv
<1>5. CASE /\ coord' = coord /\ rt'.feedback = <<>> /\ Shows(MapAll(mapper, m.events), rt')
           /\ m.session = rt'.session
           /\ ~m.ok \/ q.type \notin {"BeginSession", "EndSession", "Route"} => Stays(rt, rt')
           /\ m.ok /\ q.type = "Route" => /\ rt'.session = rt.session /\ q.launch \in {None, rt.session}
                                          /\ rt'.route <=> q.launch # None
  <2>1. Agrees(MapAll(mapper, m.events), rt')
    BY <1>2, <1>5, NothingPending
  <2>2. NInv'
    BY <1>1, <1>5, <2>1 DEF VInv, NInv
  <2>3. (m.ok /\ q.type \in {"BeginSession", "EndSession", "Route"}) \/ RouteOf(manager.route)'
    BY <1>0, <1>3, <1>5 DEF RouteOf, Stays
  <2>4. m.ok /\ q.type = "Route" => RouteOf(q.launch)'
    BY <1>5, SeatConstants DEF RouteOf
  <2>5. q.type \in {"Route", "ReserveNetplay"} => owner' = rt'.session
    BY <1>0, <1>3, <1>5 DEF Stays
  <2>6. ~m.ok /\ manager.init => owner' = rt'.session
    BY <1>3, <1>5 DEF Stays
  <2>7. CInv'
    BY <1>1, <1>3, <1>5, <2>3, <2>4, <2>5, <2>6 DEF CInv, RouteOf
  <2> QED BY <2>2, <2>7 DEF VInv
<1> QED BY <1>4, <1>5

(* A call may be made: what a request needs of korrid and leaves of it.          *)
Asks(q, c) == /\ link /\ ~fenced /\ call.st = "none"
              /\ c \in Calls /\ c.waits /\ (c.init => ~manager.init)
              /\ manager.init \/ c.init \/ q.type = "EndSession"
              /\ UNCHANGED <<link, manager, latest, mapper, desync>> /\ fenced' = FALSE
              /\ manager.init => owner' = owner
              /\ q.type = "ApplyCount" => owner' = None
              /\ q.type = "EndSession" /\ manager.init => owner' = q.launch
              /\ q.type \in {"Route", "ReserveNetplay"} => manager.init

\* A request is carried out.
LEMMA CarryView ==
    ASSUME IInv, VInv, NEW q \in Requests, NEW c, Asks(q, c), Carry(q, c)
    PROVE  VInv'
<1>0. RTypes /\ RInv /\ KTypes /\ NInv /\ coord
  BY DEF IInv, VInv, Carry
<1>1. PICK a \in Apply(rt, q) :
        /\ call' = [c EXCEPT !.st = "reply", !.q = q, !.m = Reply(a)]
        /\ Settle([a.rt EXCEPT !.feedback = <<>>], IF a.rt.mirror = None THEN None ELSE lease,
                  a.ok /\ q.type \in {"Route", "EndSession"})
  BY DEF Carry
<1>2. Good(rt, Counting) /\ Full(rt) /\ Fits(rt) /\ Fresh(rt) \subseteq Counting /\ ~rt.overflow
  BY <1>0, CountingGood DEF RInv
<1>3. /\ Served(rt, a.rt, IF a.ok /\ q.type \in {"Route", "EndSession"} THEN {} ELSE Counting)
      /\ a.ok \in BOOLEAN /\ Told(rt, a, q)
  BY <1>2, ApplyServed
<1>4. PICK m \in Replies : m = Reply(a)
  BY <1>3, ReplyType DEF Served, Good
<1>5. m.ok = a.ok /\ m.session = a.rt.session /\ m.events = a.rt.feedback
  BY <1>4 DEF Reply
<1>6. /\ call'.st = "reply" /\ call'.q = q /\ call'.m = m
      /\ call'.waits = c.waits /\ call'.init = c.init
  BY <1>1, <1>4 DEF Asks, Calls
<1>7. PICK d : d = [a.rt EXCEPT !.feedback = <<>>]
  OBVIOUS
<1>8. a.rt \in Runtime /\ Core(a.rt, d) /\ d.overflow = a.rt.overflow /\ d.feedback = <<>>
  <2>1. a.rt \in Runtime
    BY <1>3 DEF Served, Good
  <2>2. d.feedback = <<>>
    BY <1>7, <2>1 DEF Runtime
  <2> QED BY <1>7, <2>1, <2>2, ClearCore
<1>9. Good(d, IF a.ok /\ q.type \in {"Route", "EndSession"} THEN {} ELSE Counting)
  BY <1>3, <1>8, CoreGood DEF Served
<1>10. Cut \/ (~d.overflow /\ rt' = d /\ coord' = coord)
  BY <1>0, <1>1, <1>7, <1>9, SettleCases DEF RTypes
<1>11. mapper \in Mappers /\ Agrees(mapper, rt)
  BY <1>0 DEF Asks, NInv, Seen, KTypes
<1>12. MapsAll(mapper, m.events) /\ (~d.overflow => Shows(MapAll(mapper, m.events), a.rt))
  BY <1>2, <1>3, <1>5, <1>8, <1>11 DEF Told, Tells
<1>13. Shows(MapAll(mapper, m.events), a.rt) => Shows(MapAll(mapper, m.events), d)
  BY <1>8 DEF Core, Shows, StateOf
<1>14. d.session = a.rt.session /\ d.route = a.rt.route
  BY <1>8 DEF Core, Same
<1>15. \/ Cut
       \/ /\ coord' = coord /\ rt'.feedback = <<>> /\ Shows(MapAll(mapper, m.events), rt')
          /\ m.session = rt'.session
          /\ ~m.ok \/ q.type \notin {"BeginSession", "EndSession", "Route"} => Stays(rt, rt')
          /\ m.ok /\ q.type = "Route" => /\ rt'.session = rt.session /\ q.launch \in {None, rt.session}
                                         /\ rt'.route <=> q.launch # None
  BY <1>3, <1>5, <1>8, <1>10, <1>12, <1>13, <1>14 DEF Told, Stays
<1> QED BY <1>0, <1>6, <1>11, <1>12, <1>15, ReplyView DEF Asks

\* The receiver ends on a request.
LEMMA CarryFailsView ==
    ASSUME IInv, VInv, NEW q \in Requests, NEW c, Asks(q, c), CarryFails(q, c)
    PROVE  VInv'
<1>0. RTypes /\ RInv /\ KTypes /\ NInv /\ coord
  BY DEF IInv, VInv, CarryFails
<1>1. CallOk' /\ Cut
  <2>1. CallOk'
    BY <1>0, CarryFailsKept DEF Asks
  <2>2. Cut
    BY BootKept DEF CarryFails
  <2> QED BY <2>1, <2>2
<1>2. PICK s : call' = [c EXCEPT !.st = "reply", !.q = q,
                          !.m = [ok |-> FALSE, session |-> s, count |-> rt.count,
                                 recovery |-> TRUE, events |-> rt.feedback]]
  BY DEF CarryFails
<1>3. PICK m : m = [ok |-> FALSE, session |-> s, count |-> rt.count,
                    recovery |-> TRUE, events |-> rt.feedback]
  OBVIOUS
<1>4. /\ call'.st = "reply" /\ call'.q = q /\ call'.m = m
      /\ call'.waits = c.waits /\ call'.init = c.init
  BY <1>2, <1>3 DEF Asks, Calls
<1>5. m \in Replies /\ m.events = rt.feedback
  BY <1>1, <1>3, <1>4 DEF CallOk
<1>6. mapper \in Mappers /\ MapsAll(mapper, m.events)
  BY <1>0, <1>5 DEF Asks, NInv, Seen, KTypes, Agrees
<1> QED BY <1>0, <1>1, <1>4, <1>5, <1>6, ReplyView DEF Asks

\* SeatCoordinator::request.
LEMMA AskView ==
    ASSUME IInv, VInv, NEW q \in Requests, Ask(q),
           q.type = "ApplyCount" => owner = None,
           q.type = "EndSession" => owner = q.launch
    PROVE  VInv'
<1>1. PICK c : c = [NoCall EXCEPT !.waits = TRUE]
  OBVIOUS
<1>2. c \in Calls /\ c.waits = TRUE /\ c.init = FALSE
  <2>1. c \in Calls
    BY <1>1, NewCall
  <2> QED BY <1>1, <2>1 DEF NoCall
<1>3. Asks(q, c)
  BY <1>2 DEF Ask, Asks
<1>4. Carry(q, c) \/ CarryFails(q, c)
  BY <1>1 DEF Ask
<1> QED BY <1>3, <1>4, CarryView, CarryFailsView

\* A reply arrives.
LEMMA DeliverView ==
    ASSUME IInv, VInv, Deliver
    PROVE  VInv'
<1>0. KTypes /\ NInv /\ CInv /\ link /\ call.st = "reply"
  BY DEF IInv, VInv, Deliver
<1>1. /\ mapper' = MapAll(mapper, call.m.events)
      /\ latest' = Snapshot(call.m)
      /\ IF call.waits THEN Answered(call.m)
         ELSE call' = NoCall /\ UNCHANGED <<fenced, manager, owner>>
      /\ UNCHANGED <<recvVars, link, handle, producer, pressed, desync>>
  BY <1>0 DEF Deliver, NInv
<1>2. call' = NoCall /\ call'.st = "none" /\ UNCHANGED <<rt, coord, lease, link, desync>>
  BY <1>1, Empties DEF Answered, recvVars
<1>3. NInv'
  <2>1. Seen' = Seen
    BY <1>0, <1>1, <1>2 DEF Seen
  <2> QED BY <1>0, <1>2, <2>1 DEF NInv
<1>4. ASSUME ~fenced' PROVE CInv'
  <2>1. ~fenced /\ call.waits /\ Answered(call.m)
    BY <1>0, <1>1, <1>4 DEF CInv, Answered
  <2>2. PICK q \in Requests : q = call.q
    BY <1>0 DEF KTypes, CallOk
  <2>3. PICK m \in Replies : m = call.m
    BY <1>0 DEF KTypes, CallOk
  <2>t. /\ m.ok \in BOOLEAN /\ call.init \in BOOLEAN /\ manager.init \in BOOLEAN
        /\ q.type \in {"ApplyCount", "BeginSession", "EndSession", "Route", "ReserveNetplay"}
    BY <1>0, <2>2, <2>3 DEF KTypes, CallOk, Calls, Managers, Replies, Requests
  <2> DEFINE good == /\ m.ok
                     /\ q.type = "ApplyCount" => m.session = None
                     /\ q.type = "BeginSession" => m.session = q.launch
                     /\ q.type = "EndSession" /\ ~call.init => m.session = None
  <2>4. /\ m.ok => good
        /\ manager' = [init  |-> manager.init \/ (call.init /\ m.ok /\ q.type # "EndSession"),
                       route |-> IF m.ok THEN CachedRoute(q) ELSE manager.route]
        /\ owner' = IF ~m.ok THEN owner
                    ELSE CASE q.type = "BeginSession" -> q.launch
                           [] q.type = "EndSession" /\ owner = q.launch -> None
                           [] OTHER -> owner
    BY <1>4, <2>1, <2>2, <2>3, <2>t DEF Answered
  <2>5. /\ manager'.init = (manager.init \/ (call.init /\ m.ok /\ q.type # "EndSession"))
        /\ manager'.route = IF m.ok THEN CachedRoute(q) ELSE manager.route
    BY <2>4
  <2>6. /\ ~manager.init => manager.route = "unset"
        /\ (m.ok /\ q.type \in {"BeginSession", "EndSession", "Route"}) \/ RouteOf(manager.route)
        /\ m.ok /\ q.type = "Route" => RouteOf(q.launch)
        /\ call.init => ~manager.init
        /\ manager.init \/ call.init \/ q.type = "EndSession"
        /\ q.type \in {"Route", "ReserveNetplay"} => manager.init
        /\ coord => /\ m.session = rt.session
                    /\ ~m.ok /\ manager.init => owner = rt.session
                    /\ q.type = "ApplyCount" => owner = None
                    /\ q.type = "EndSession" /\ manager.init => owner = q.launch
                    /\ q.type \in {"Route", "ReserveNetplay"} => owner = rt.session
    BY <1>0, <2>1, <2>2, <2>3 DEF CInv, Obeyed
  <2>7. ~manager'.init => manager'.route = "unset"
    BY <2>t, <2>5, <2>6 DEF CachedRoute
  <2>8. RouteOf(manager'.route)
    <3>1. CASE ~m.ok
      BY <2>5, <2>6, <3>1
    <3>2. CASE m.ok /\ q.type \in {"BeginSession", "EndSession"}
      <4>1. manager'.route = "unset"
        BY <2>5, <3>2 DEF CachedRoute
      <4> QED BY <4>1, SeatConstants DEF RouteOf
    <3>3. CASE m.ok /\ q.type = "Route"
      <4>1. manager'.route = q.launch
        BY <2>5, <3>3 DEF CachedRoute
      <4> QED BY <2>6, <3>3, <4>1
    <3>4. CASE m.ok /\ q.type \in {"ApplyCount", "ReserveNetplay"}
      <4>1. manager'.route = manager.route
        BY <2>5, <3>4 DEF CachedRoute
      <4> QED BY <2>6, <3>4, <4>1
    <3> QED BY <2>t, <3>1, <3>2, <3>3, <3>4
  <2>9. latest'.session = m.session
    BY <1>1, <2>3 DEF Snapshot
  <2>10. ASSUME coord, manager'.init PROVE owner' = rt.session
    <3>1. CASE ~m.ok
      BY <2>4, <2>5, <2>6, <2>10, <3>1
    <3>2. CASE m.ok
      <4>0. good
        BY <2>4, <3>2
      <4>1. CASE q.type = "ApplyCount"
        BY <2>4, <2>6, <2>10, <3>2, <4>0, <4>1
      <4>2. CASE q.type = "BeginSession"
        BY <2>4, <2>6, <2>10, <3>2, <4>0, <4>2
      <4>3. CASE q.type = "EndSession"
        BY <2>4, <2>5, <2>6, <2>10, <3>2, <4>0, <4>3
      <4>4. CASE q.type \in {"Route", "ReserveNetplay"}
        BY <2>4, <2>6, <2>10, <3>2, <4>4
      <4> QED BY <2>t, <4>1, <4>2, <4>3, <4>4
    <3> QED BY <2>t, <3>1, <3>2
  <2>11. RouteOf(manager.route)'
    BY <1>2, <2>8 DEF RouteOf
  <2> HIDE DEF good
  <2> QED BY <1>2, <2>6, <2>7, <2>9, <2>10, <2>11 DEF CInv, Obeyed
<1>5. CInv'
  BY <1>4 DEF CInv
<1> QED BY <1>3, <1>5 DEF VInv

\* A poll.
LEMMA PollView ==
    ASSUME IInv, VInv, IInv', Poll
    PROVE  VInv'
<1>0. NInv /\ link /\ coord /\ call.st = "none" /\ rt \in Runtime
  BY DEF IInv, VInv, Poll, RInv, Good
<1>1. Agrees(mapper, rt)
  BY <1>0 DEF NInv, Seen
<1>2. /\ mapper' = MapAll(mapper, rt.feedback) /\ latest' = Snapshot(rt)
      /\ UNCHANGED <<link, fenced, manager, owner, call, desync, coord>>
      /\ rt' = [rt EXCEPT !.feedback = <<>>]
  BY <1>1 DEF Poll, Agrees
<1>3. Core(rt, rt') /\ rt'.feedback = <<>>
  <2>1. rt'.feedback = <<>>
    BY <1>0, <1>2 DEF Runtime
  <2> QED BY <1>0, <1>2, <2>1, ClearCore
<1>4. Shows(mapper', rt') /\ Stays(rt, rt')
  BY <1>1, <1>2, <1>3 DEF Agrees, Shows, StateOf, Core, Same, Stays
<1>5. latest'.session = rt.session /\ mapper' \in Mappers
  BY <1>2 DEF Snapshot, IInv, KTypes
<1> QED BY <1>0, <1>2, <1>3, <1>4, <1>5, HeardView

\* What the pads change of the native sources is none of the stream client's.
LEMMA PadsShow ==
    ASSUME NEW m \in Mappers, NEW q \in PadRequests
    PROVE  MapPads(m, q).remote = m.remote
BY DEF MapPads, Mappers

\* A request about a local controller.
LEMMA PadRequestView ==
    ASSUME IInv, VInv, IInv', NEW q \in PadRequests, NEW pads, PadRequest(q, pads)
    PROVE  VInv'
<1>0. RTypes /\ RInv /\ KTypes /\ NInv /\ CInv /\ link /\ coord /\ ~fenced /\ call.st = "none"
  BY DEF IInv, VInv, PadRequest
<1>1. PICK a \in Apply(rt, q) :
        /\ Settle([a.rt EXCEPT !.feedback = <<>>], lease, FALSE)
        /\ IF ~MapsAll(mapper, a.rt.feedback) \/ (a.ok /\ ~MapsPads(MapAll(mapper, a.rt.feedback), q))
           THEN ThreadEnds /\ desync' = (desync \/ ~MapsAll(mapper, a.rt.feedback))
           ELSE /\ mapper' = IF a.ok THEN MapPads(MapAll(mapper, a.rt.feedback), q)
                                     ELSE MapAll(mapper, a.rt.feedback)
                /\ latest' = Snapshot(Reply(a))
                /\ UNCHANGED <<link, fenced, manager, owner, call, desync>>
  BY DEF PadRequest, Reply
<1>2. Good(rt, Counting) /\ Full(rt) /\ Fits(rt) /\ Fresh(rt) \subseteq Counting /\ ~rt.overflow
  BY <1>0, CountingGood DEF RInv
<1>q. q.type \notin {"BeginSession", "EndSession", "Route"}
  BY DEF PadRequests
<1>3. /\ Served(rt, a.rt, Counting) /\ a.ok \in BOOLEAN
      /\ Tells(rt, a.rt) /\ Stays(rt, a.rt)
  <2>1. /\ Served(rt, a.rt, IF a.ok /\ q.type \in {"Route", "EndSession"} THEN {} ELSE Counting)
        /\ a.ok \in BOOLEAN /\ Told(rt, a, q)
    BY <1>2, ApplyServed
  <2> QED BY <1>2, <1>q, <2>1 DEF Told
<1>4. PICK d : d = [a.rt EXCEPT !.feedback = <<>>]
  OBVIOUS
<1>5. a.rt \in Runtime /\ Core(a.rt, d) /\ d.overflow = a.rt.overflow /\ d.feedback = <<>>
  <2>1. a.rt \in Runtime
    BY <1>3 DEF Served, Good
  <2>2. d.feedback = <<>>
    BY <1>4, <2>1 DEF Runtime
  <2> QED BY <1>4, <2>1, <2>2, ClearCore
<1>6. Cut \/ (~d.overflow /\ rt' = d /\ coord' = coord)
  <2>1. Good(d, Counting)
    BY <1>3, <1>5, CoreGood DEF Served
  <2> QED BY <1>0, <1>1, <1>4, <2>1, SettleCases DEF RTypes
<1>7. mapper \in Mappers /\ Agrees(mapper, rt) /\ a.rt.feedback \in Seq(Event)
  BY <1>0, <1>5, RuntimeFields DEF NInv, Seen, KTypes
<1>8. PICK seen \in Mappers : seen = MapAll(mapper, a.rt.feedback)
  BY <1>7, MapAllType
<1>9. MapsAll(mapper, a.rt.feedback) /\ (~d.overflow => Shows(seen, a.rt))
  BY <1>3, <1>5, <1>7, <1>8 DEF Tells
<1>10. CASE ThreadEnds /\ desync' = (desync \/ ~MapsAll(mapper, a.rt.feedback))
  <2>1. ~desync'
    BY <1>0, <1>9, <1>10 DEF NInv
  <2>2. ~coord' => rt'.feedback = <<>> /\ lease' = None
    BY <1>0, <1>6 DEF Cut
  <2> QED BY <1>10, <2>1, <2>2, EndedView
<1>11. CASE /\ mapper' = IF a.ok THEN MapPads(seen, q) ELSE seen
            /\ latest' = Snapshot(Reply(a))
            /\ UNCHANGED <<link, fenced, manager, owner, call, desync>>
  <2>1. mapper' \in Mappers /\ mapper'.remote = seen.remote
    <3>1. mapper' \in Mappers
      BY DEF IInv, KTypes
    <3> QED BY <1>8, <1>11, <3>1, PadsShow
  <2>2. ~d.overflow => Shows(mapper', d) /\ Stays(rt, d)
    BY <1>3, <1>5, <1>9, <2>1 DEF Shows, StateOf, Core, Same, Stays
  <2>3. latest'.session = rt.session
    BY <1>3, <1>11 DEF Snapshot, Reply, Stays
  <2> QED BY <1>0, <1>5, <1>6, <1>11, <2>1, <2>2, <2>3, HeardView DEF VInv
<1> QED BY <1>1, <1>8, <1>10, <1>11

\* Pads that a producer has left behind.
LEMMA CleanupView ==
    ASSUME IInv, VInv, IInv', NEW p \in Pads, Cleanup(p)
    PROVE  VInv'
<1>0. RTypes /\ RInv /\ KTypes /\ NInv /\ CInv
  BY DEF IInv, VInv
<1>1. CASE /\ link /\ coord /\ ~fenced /\ call.st = "none"
           /\ \E new \in DropSources(rt, {p}) :
                  /\ mapper' = MapPads(MapAll(mapper, new.feedback), [type |-> "PhysicalDisconnected", key |-> p])
                  /\ Settle([new EXCEPT !.feedback = <<>>], lease, FALSE)
           /\ UNCHANGED <<link, fenced, manager, latest, handle, owner, call, desync>>
  <2>1. PICK new \in DropSources(rt, {p}) :
                  /\ mapper' = MapPads(MapAll(mapper, new.feedback), [type |-> "PhysicalDisconnected", key |-> p])
                  /\ Settle([new EXCEPT !.feedback = <<>>], lease, FALSE)
    BY <1>1
  <2>2. {p} \in SUBSET Keys
    BY DEF Keys
  <2>3. Good(rt, Counting) /\ Fits(rt) /\ ~rt.overflow
    BY <1>0, CountingGood DEF RInv
  <2>4. Good(new, Counting) /\ Without(rt, new, {p}) /\ Tells(rt, new)
    BY <2>2, <2>3, GoodIsLoose, DropGood
  <2>5. Stays(rt, new) /\ new \in Runtime
    BY <2>4 DEF Without, Same, Stays
  <2>6. PICK d : d = [new EXCEPT !.feedback = <<>>]
    OBVIOUS
  <2>7. Core(new, d) /\ d.overflow = new.overflow /\ d.feedback = <<>>
    <3>1. d.feedback = <<>>
      BY <2>5, <2>6 DEF Runtime
    <3> QED BY <2>5, <2>6, <3>1, ClearCore
  <2>8. Cut \/ (~d.overflow /\ rt' = d /\ coord' = coord)
    <3>1. Good(d, Counting)
      BY <2>4, <2>7, CoreGood
    <3> QED BY <1>0, <2>1, <2>6, <3>1, SettleCases DEF RTypes
  <2>9. mapper \in Mappers /\ Agrees(mapper, rt) /\ new.feedback \in Seq(Event)
    BY <1>0, <1>1, <2>5, RuntimeFields DEF NInv, Seen, KTypes
  <2>10. PICK seen \in Mappers : seen = MapAll(mapper, new.feedback)
    BY <2>9, MapAllType
  <2>11. ~d.overflow => Shows(seen, new)
    BY <2>4, <2>7, <2>9, <2>10 DEF Tells
  <2>12. mapper' \in Mappers /\ mapper'.remote = seen.remote
    <3>1. mapper' \in Mappers
      BY DEF IInv, KTypes
    <3>2. PICK q \in PadRequests : q = [type |-> "PhysicalDisconnected", key |-> p]
      BY DEF PadRequests
    <3> QED BY <2>1, <2>10, <3>1, <3>2, PadsShow
  <2>13. ~d.overflow => Shows(mapper', d) /\ Stays(rt, d)
    BY <2>5, <2>7, <2>11, <2>12 DEF Shows, StateOf, Core, Same, Stays
  <2>14. latest'.session = rt.session
    BY <1>0, <1>1 DEF CInv
  <2> QED BY <1>1, <2>7, <2>8, <2>12, <2>13, <2>14, HeardView
<1>2. CASE /\ fenced' = TRUE
           /\ UNCHANGED <<recvVars, link, mapper, call, desync>>
  <2>1. Seen' = Seen
    BY <1>2 DEF Seen
  <2>2. NInv'
    BY <1>0, <1>2, <2>1 DEF NInv, recvVars
  <2>3. CInv'
    BY <1>2 DEF CInv
  <2> QED BY <2>2, <2>3 DEF VInv
<1> QED BY <1>1, <1>2 DEF Cleanup

\* The receiver's steps: korrid is told, or cut off.
LEMMA ReceiverView ==
    ASSUME IInv, VInv, IInv', Receiver
    PROVE  VInv'
<1>0. RTypes /\ RInv /\ KTypes /\ NInv
  BY DEF IInv, VInv
<1>r. rt \in Runtime /\ Silent(rt) /\ (~coord => rt.recovery /\ lease = None)
  BY <1>0 DEF RInv, Good, NInv
<1>u. ASSUME UNCHANGED korridVars, Turned \/ UNCHANGED <<rt, coord, lease>> PROVE VInv'
  <2>1. UNCHANGED <<link, fenced, manager, latest, mapper, owner, call, desync>>
    BY <1>u DEF korridVars
  <2> QED BY <1>u, <2>1, TurnView
<1>1. CASE LoseCoordinator
  <2>1. UNCHANGED korridVars
    BY <1>1 DEF LoseCoordinator
  <2> QED BY <1>0, <1>1, <1>u, <2>1, LoseCoordinatorKept DEF Turned
<1>2. CASE LeaseHangup
  <2>1. PICK new \in Unbind(rt) : Settle(new, None, FALSE)
    BY <1>2 DEF LeaseHangup
  <2>2. UNCHANGED korridVars /\ coord
    BY <1>2, <1>r DEF LeaseHangup
  <2> QED BY <1>0, <1>u, <2>1, <2>2, UnbindTurned
<1>3. ASSUME NEW c \in Controllers, FrameConnected(c) PROVE VInv'
  <2>1. UNCHANGED korridVars
    BY <1>3 DEF FrameConnected
  <2> QED BY <1>0, <1>3, <1>u, <2>1, FrameConnectedKept
<1>4. ASSUME NEW c \in Controllers, FrameDisconnected(c) PROVE VInv'
  <2>1. UNCHANGED korridVars
    BY <1>4 DEF FrameDisconnected
  <2>2. PICK k : k = <<rt.mirror, c>>
    OBVIOUS
  <2>3. rt.mirror # None /\ \E new \in DropSources(rt, {k}) : Settle(new, lease, FALSE)
    BY <1>4, <2>2 DEF FrameDisconnected
  <2>4. rt.mirror \in Launches /\ coord
    BY <1>r, <2>3, RuntimeFields DEF Silent
  <2>5. {k} \in SUBSET Keys
    BY <2>2, <2>4 DEF Keys, Remotes
  <2>6. PICK new \in DropSources(rt, {k}) : Settle(new, lease, FALSE)
    BY <2>3
  <2>7. Turned
    BY <1>0, <2>4, <2>5, <2>6, DropTurned
  <2> QED BY <1>u, <2>1, <2>7
<1>5. ASSUME NEW c \in Controllers, NEW h \in BOOLEAN, FrameState(c, h) PROVE VInv'
  <2>1. UNCHANGED korridVars
    BY <1>5 DEF FrameState
  <2> QED BY <1>0, <1>5, <1>u, <2>1, FrameStateKept
<1>6. ASSUME NEW k \in Keys, Expire(k) PROVE VInv'
  <2>1. UNCHANGED korridVars
    BY <1>6 DEF Expire
  <2>2. PICK new \in DropSources(rt, {k}) : Settle(new, lease, FALSE)
    BY <1>6 DEF Expire
  <2>3. {k} \in SUBSET Keys /\ k \in Known(rt)
    BY <1>6 DEF Expire, Known
  <2>4. coord
    BY <1>r, <2>3 DEF Silent
  <2>5. Turned
    BY <1>0, <2>2, <2>3, <2>4, DropTurned
  <2> QED BY <1>u, <2>1, <2>5
<1>7. CASE ReceiverDies
  <2>1. UNCHANGED korridVars
    BY <1>7 DEF ReceiverDies
  <2>2. Cut
    BY <1>7, BootKept DEF ReceiverDies
  <2> QED BY <1>u, <2>1, <2>2 DEF Turned
<1>8. CASE ReceiverBoots
  <2>1. UNCHANGED korridVars /\ UNCHANGED <<rt, coord, lease>>
    BY <1>8 DEF ReceiverBoots, korridVars
  <2> QED BY <1>u, <2>1
<1> QED BY <1>1, <1>2, <1>3, <1>4, <1>5, <1>6, <1>7, <1>8 DEF Receiver

\* The thread's steps.
LEMMA ThreadView ==
    ASSUME IInv, VInv, IInv', Thread
    PROVE  VInv'
<1>1. CASE ThreadStops \/ PollFails
  <2>1. ThreadEnds /\ UNCHANGED <<rt, coord, lease, desync>>
    BY <1>1 DEF ThreadStops, PollFails, recvVars
  <2> QED BY <2>1, EndedView DEF VInv, NInv
<1> QED BY <1>1, DeliverView, PollView DEF Thread

\* SeatCoordinator::connect: nothing is pending, and no controller of a stream client
\* is there.
LEMMA HelloView ==
    ASSUME IInv, VInv, Hello
    PROVE  VInv'
<1>1. /\ ~link /\ ~fenced /\ ~manager.init /\ ~coord /\ latest' = Snapshot(rt)
      /\ UNCHANGED <<rt, lease, fenced, manager, mapper, owner, call, desync>>
  BY DEF Hello, Starting
<1>2. /\ ~desync /\ mapper = NoMapper /\ call.st = "none" /\ rt.feedback = <<>>
      /\ manager.route = "unset" /\ coord' = TRUE
  BY <1>1 DEF VInv, NInv, CInv, Hello
<1>3. Known(rt) = {}
  BY <1>1 DEF IInv, RInv, Good, Silent
<1>4. Shows(NoMapper, rt)
  <2>1. ASSUME NEW k \in Remotes PROVE NoMapper.remote[k] = StateOf(rt, k)
    <3>1. NoMapper.remote[k] = "absent"
      BY DEF NoMapper
    <3>2. ~rt.src[k].known
      BY <1>3 DEF Known, Keys
    <3> QED BY <3>1, <3>2 DEF StateOf
  <2> QED BY <2>1 DEF Shows
<1>5. Agrees(NoMapper, rt)
  BY <1>2, <1>4, Empties, NothingPending
<1>6. Seen' = NoMapper /\ ~Obeyed'
  BY <1>1, <1>2 DEF Seen, Obeyed
<1>7. NInv'
  BY <1>1, <1>2, <1>5, <1>6 DEF NInv
<1>8. RouteOf(manager.route)'
  BY <1>1, <1>2, SeatConstants DEF RouteOf
<1>9. latest'.session = rt.session
  BY <1>1 DEF Snapshot
<1>10. CInv'
  BY <1>1, <1>2, <1>6, <1>8, <1>9 DEF CInv
<1> QED BY <1>7, <1>10 DEF VInv

\* UnixInputSeatManager::initialize.
LEMMA InitializeView ==
    ASSUME IInv, VInv, NEW s \in {None, owner}, NEW n \in Slots, Initialize(s, n)
    PROVE  VInv'
<1> DEFINE q == IF s # None THEN [type |-> "BeginSession", launch |-> s, order |-> "FirstPress"]
                ELSE IF latest.session # None THEN [type |-> "EndSession", launch |-> latest.session]
                ELSE [type |-> "ApplyCount", count |-> n]
           lost == s # None /\ (latest.session # s \/ latest.count # n)
<1>1. s \in Launches \cup {None} /\ latest.session \in Launches \cup {None}
  BY DEF IInv, KTypes, Latest
<1>2. q \in Requests
  BY <1>1 DEF Requests, Orders
<1>3. q.type \in {"BeginSession", "EndSession", "ApplyCount"} /\ (q.type = "ApplyCount" => s = None)
  OBVIOUS
<1>4. PICK c : c = [NoCall EXCEPT !.waits = TRUE, !.init = TRUE]
  OBVIOUS
<1>5. c \in Calls /\ c.waits = TRUE /\ c.init = TRUE
  <2>1. c \in Calls
    BY <1>4, NewCall
  <2> QED BY <1>4, <2>1 DEF NoCall
<1>6. /\ link /\ ~fenced /\ ~manager.init /\ call.st = "none" /\ owner' = s /\ fenced' = lost
      /\ IF lost THEN UNCHANGED <<recvVars, call, pressed>> ELSE Carry(q, c) \/ CarryFails(q, c)
      /\ UNCHANGED <<link, manager, latest, mapper, handle, producer, desync>>
  BY <1>4 DEF Initialize
<1> HIDE DEF q, lost
<1>7. CASE lost
  <2>1. fenced' = TRUE /\ UNCHANGED <<rt, coord, lease, call>>
    BY <1>6, <1>7 DEF recvVars
  <2>2. Seen' = Seen
    BY <1>6, <2>1 DEF Seen
  <2>3. NInv'
    BY <1>6, <2>1, <2>2 DEF VInv, NInv
  <2>4. CInv'
    BY <2>1 DEF CInv
  <2> QED BY <2>3, <2>4 DEF VInv
<1>8. CASE ~lost
  <2>1. fenced' = FALSE
    BY <1>6, <1>8 DEF lost
  <2>2. Asks(q, c)
    BY <1>3, <1>5, <1>6, <2>1 DEF Asks
  <2> QED BY <1>2, <1>6, <1>8, <2>2, CarryView, CarryFailsView
<1> QED BY <1>7, <1>8

\* The manager's steps.
LEMMA ManagerView ==
    ASSUME IInv, VInv, IInv', Manager
    PROVE  VInv'
<1>0. RTypes /\ RInv /\ KTypes /\ NInv /\ None \notin Launches
  BY SeatConstants DEF IInv, VInv
<1>l. lease # None => coord
  BY <1>0 DEF NInv
<1>f. ASSUME fenced' = TRUE, UNCHANGED <<rt, coord, lease, link, mapper, desync>>,
             call'.st = call.st, call'.m = call.m
      PROVE  VInv'
  <2>1. Seen' = Seen
    BY <1>f DEF Seen
  <2>2. NInv'
    BY <1>0, <1>f, <2>1 DEF NInv
  <2>3. CInv'
    BY <1>f DEF CInv
  <2> QED BY <2>2, <2>3 DEF VInv
<1>2. CASE HelloFails
  BY <1>2, <1>f DEF HelloFails, recvVars
<1>4. ASSUME NEW n \in Slots, CallCount(n) PROVE VInv'
  <2>1. PICK q \in Requests : q = [type |-> "ApplyCount", count |-> n]
    BY DEF Requests
  <2>2. q.type = "ApplyCount" /\ Ask(q) /\ owner = None
    BY <1>4, <2>1 DEF CallCount
  <2> QED BY <2>2, AskView
<1>5. ASSUME NEW l \in Launches, StartLease(l) PROVE VInv'
  <2>1. Turned
    BY <1>0, <1>5, StartLeaseKept
  <2>2. UNCHANGED <<link, fenced, manager, latest, mapper, owner, call, desync>>
    BY <1>5 DEF StartLease
  <2> QED BY <2>1, <2>2, TurnView
<1>6. ASSUME NEW l \in Launches, NEW o \in Orders, CallBegin(l, o) PROVE VInv'
  <2>1. PICK q \in Requests : q = [type |-> "BeginSession", launch |-> l, order |-> o]
    BY DEF Requests
  <2>2. q.type = "BeginSession" /\ Ask(q)
    BY <1>6, <2>1 DEF CallBegin
  <2> QED BY <2>2, AskView
<1>7. ASSUME NEW g \in Guests, CallReserve(g) PROVE VInv'
  <2>1. owner \in Launches
    BY <1>0, <1>7 DEF CallReserve, KTypes
  <2>2. PICK q \in Requests : q = [type |-> "ReserveNetplay", launch |-> owner, key |-> g]
    BY <2>1 DEF Requests
  <2>3. q.type = "ReserveNetplay" /\ Ask(q)
    BY <1>7, <2>2 DEF CallReserve
  <2> QED BY <2>3, AskView
<1>8. ASSUME NEW x \in {None, owner}, CallRoute(x) PROVE VInv'
  <2>1. x \in Launches \cup {None}
    BY <1>0, <1>8 DEF KTypes
  <2>2. PICK q \in Requests : q = [type |-> "Route", launch |-> x]
    BY <2>1 DEF Requests
  <2>3. q.type = "Route" /\ Ask(q)
    BY <1>8, <2>2 DEF CallRoute
  <2> QED BY <2>3, AskView
<1>9. CASE CallEnd
  <2>1. owner \in Launches
    BY <1>0, <1>9 DEF CallEnd, KTypes
  <2>2. PICK q \in Requests : q = [type |-> "EndSession", launch |-> owner]
    BY <2>1 DEF Requests
  <2>3. CASE Ask([type |-> "EndSession", launch |-> owner])
    <3>1. q.type = "EndSession" /\ q.launch = owner /\ Ask(q)
      BY <2>2, <2>3
    <3> QED BY <3>1, AskView
  <2>4. CASE /\ latest.session = None /\ ~fenced /\ call.st = "none" /\ owner' = None
             /\ UNCHANGED <<recvVars, link, fenced, manager, latest, mapper, handle, call, producer,
                            pressed, desync>>
    <3>1. UNCHANGED <<rt, coord, lease>> /\ Seen' = Seen /\ ~Obeyed /\ ~Obeyed'
      BY <2>4 DEF recvVars, Seen, Obeyed
    <3>2. NInv'
      BY <1>0, <2>4, <3>1 DEF NInv
    <3>3. CInv'
      BY <2>4, <3>1 DEF VInv, CInv, RouteOf
    <3> QED BY <3>2, <3>3 DEF VInv
  <2> QED BY <1>9, <2>3, <2>4 DEF CallEnd
<1>10. CASE ResetLease
  <2>1. UNCHANGED <<link, fenced, manager, latest, mapper, owner, call, desync>> /\ coord
    BY <1>10, <1>l DEF ResetLease, korridVars
  <2> QED BY <1>0, <1>10, <2>1, ResetLeaseKept, TurnView
<1>11. CASE StopLease
  <2>1. PICK new \in Unbind(rt) : Settle(new, None, FALSE)
    BY <1>11 DEF StopLease
  <2>2. UNCHANGED <<link, fenced, manager, latest, mapper, owner, call, desync>> /\ coord
    BY <1>11, <1>l DEF StopLease
  <2>3. Turned
    BY <1>0, <2>1, <2>2, UnbindTurned
  <2> QED BY <2>2, <2>3, TurnView
<1>12. CASE DropLease
  <2>1. UNCHANGED <<rt, coord, lease, link, fenced, manager, latest, mapper, owner, call, desync>>
    BY <1>12 DEF DropLease, recvVars
  <2> QED BY <2>1, TurnView
<1>13. CASE KorridDies
  <2>1. /\ ~link' /\ mapper' = NoMapper /\ call'.st = "none" /\ ~Obeyed'
        /\ manager'.route = "unset" /\ UNCHANGED <<rt, coord, lease, desync>>
    BY <1>13, Empties DEF KorridDies, recvVars, Unset, Obeyed
  <2>2. NInv'
    BY <1>0, <2>1 DEF NInv
  <2>3. RouteOf(manager.route)'
    BY <2>1, SeatConstants DEF RouteOf
  <2>4. CInv'
    BY <2>1, <2>3 DEF CInv
  <2> QED BY <2>2, <2>4 DEF VInv
<1>14. CASE CallerTimesOut
  <2>1. PICK d : d = [call EXCEPT !.waits = FALSE] /\ call' = d
    BY <1>14 DEF CallerTimesOut
  <2>2. d.st = call.st /\ d.m = call.m
    BY <1>0, <2>1 DEF KTypes, CallOk, Calls
  <2> QED BY <1>14, <1>f, <2>1, <2>2 DEF CallerTimesOut, recvVars
<1> QED BY <1>2, <1>4, <1>5, <1>6, <1>7, <1>8, <1>9, <1>10, <1>11, <1>12, <1>13, <1>14,
           HelloView, InitializeView DEF Manager

\* The producer's steps.
LEMMA ProducerView ==
    ASSUME IInv, VInv, IInv', Producer
    PROVE  VInv'
<1>1. CASE ProducerOpens \/ ProducerEnds
  <2>1. UNCHANGED <<rt, coord, lease, link, fenced, manager, latest, mapper, owner, call, desync>>
    BY <1>1 DEF ProducerOpens, ProducerEnds, recvVars
  <2> QED BY <2>1, TurnView
<1>2. ASSUME NEW p \in Pads, PadDisconnects(p) PROVE VInv'
  <2>1. [type |-> "PhysicalDisconnected", key |-> p] \in PadRequests
    BY DEF PadRequests
  <2> QED BY <1>2, <2>1, PadRequestView DEF PadDisconnects
<1>3. ASSUME NEW p \in Pads, NEW h \in BOOLEAN, PadConnects(p, h) PROVE VInv'
  <2>1. [type |-> "PhysicalConnected", key |-> p, held |-> h] \in PadRequests
    BY DEF PadRequests
  <2> QED BY <1>3, <2>1, PadRequestView DEF PadConnects
<1>4. ASSUME NEW p \in Pads, NEW h \in BOOLEAN, PadStates(p, h) PROVE VInv'
  <2>1. [type |-> "PhysicalState", key |-> p, held |-> h] \in PadRequests
    BY DEF PadRequests
  <2> QED BY <1>4, <2>1, PadRequestView DEF PadStates
<1> QED BY <1>1, <1>2, <1>3, <1>4, CleanupView DEF Producer

\* korrid's picture is true at the start: it has none.
LEMMA InitView == Init => VInv
<1> SUFFICES ASSUME Init PROVE VInv
  OBVIOUS
<1>1. /\ ~link /\ mapper = NoMapper /\ call.st = "none" /\ rt.feedback = <<>> /\ lease = None
      /\ ~desync /\ manager.route = "unset"
  BY Empties DEF Init, Boot, Unset
<1>2. RouteOf(manager.route)
  BY <1>1, SeatConstants DEF RouteOf
<1> QED BY <1>1, <1>2 DEF VInv, NInv, CInv, Obeyed

\* Every step leaves it true.
LEMMA StepView ==
    ASSUME IInv, VInv, IInv', [Next]_vars
    PROVE  VInv'
<1>1. CASE UNCHANGED vars
  <2>1. UNCHANGED <<rt, coord, lease, link, fenced, manager, latest, mapper, owner, call, desync>>
    BY <1>1 DEF vars
  <2> QED BY <2>1, TurnView
<1> QED BY <1>1, ReceiverView, ThreadView, ManagerView, ProducerView DEF Next

-----------------------------------------------------------------------------
\* The invariant holds at the start.
LEMMA InitInv == Init => IInv
<1> SUFFICES ASSUME Init PROVE IInv
  OBVIOUS
<1>1. RInv /\ RTypes
  BY BootGood DEF Init, RInv, RTypes
<1>2. KTypes
  BY Empties DEF Init, KTypes, CallOk
<1> QED BY <1>1, <1>2 DEF IInv

\* Every step keeps the invariant, and the seats of a session.
LEMMA StepKept ==
    ASSUME IInv, [Next]_vars
    PROVE  IInv' /\ Kept
<1>1. CASE Next
  <2>1. Kept /\ KTypes'
    BY <1>1, ReceiverStep, ThreadStep, ManagerStep, ProducerStep DEF Next
  <2> QED BY <2>1 DEF IInv, Kept
<1>2. CASE UNCHANGED vars
  <2>1. UNCHANGED korridVars /\ UNCHANGED <<rt, coord, lease, pressed>> /\ up' = up
    BY <1>2 DEF vars, korridVars
  <2>2. Kept
    BY <2>1, StutterKept DEF IInv, RTypes
  <2>3. KTypes'
    BY <2>1, SameKorrid DEF IInv
  <2> QED BY <2>2, <2>3 DEF IInv, Kept
<1> QED BY <1>1, <1>2

\* The invariant of the receiver and of korrid's coordinator, whatever dies, is cut
\* off or is abandoned.
THEOREM Inductive == Spec => []IInv
<1>1. IInv /\ [Next]_vars => IInv'
  BY StepKept
<1> QED BY <1>1, InitInv, PTL DEF Spec

\* Every variable keeps its type; the receiver's event queue keeps to its bound
\* (push_feedback) and no overflow outlives the turn that met it.
THEOREM SeatTypes == Spec => []TypeOK
<1>1. IInv => TypeOK
  <2> SUFFICES ASSUME IInv PROVE TypeOK
    OBVIOUS
  <2>1. rt \in Runtime /\ ~rt.overflow /\ Len(rt.feedback) <= MaxEvents
    BY DEF IInv, RInv, Good, Fits
  <2>2. /\ call.st \in {"none", "reply"} /\ call.waits \in BOOLEAN /\ call.init \in BOOLEAN
        /\ call.st # "none" => call.q \in Requests
    BY DEF IInv, KTypes, CallOk, Calls
  <2> QED BY <2>1, <2>2 DEF TypeOK, IInv, RTypes, KTypes, Managers, Latest, Mappers, Producers
<1> QED BY <1>1, Inductive, PTL

\* SeatsMatchSources: the seats are one to one with the sources that use them or
\* are awaited, and nobody waits while a seat is free, for any number of seats,
\* controllers and sessions (SeatPool, SeatRuntime::rebalance).
THEOREM SeatsMatch == Spec => []SeatsMatchSources
<1>1. IInv => SeatsMatchSources
  BY DEF IInv, RInv, Good, Seated, Full, SeatsMatchSources
<1> QED BY <1>1, Inductive, PTL

\* InputIsAuthorized: what a game sees pressed was pressed under its route by a
\* source that is there, and a stream client is heard only for the session that
\* runs, under its lease and a coordinator.
THEOREM Authorized == Spec => []InputIsAuthorized
<1>1. IInv => InputIsAuthorized
  <2> SUFFICES ASSUME IInv PROVE InputIsAuthorized
    OBVIOUS
  <2>1. Good(rt, pressed) /\ (~coord => rt.recovery) /\ (rt.mirror # None => lease = rt.mirror)
    BY DEF IInv, RInv
  <2>2. HeldIsPressed
    BY <2>1 DEF Good, HeldOk, Mirrored, Silent, HeldIsPressed
  <2>3. MirrorIsAuthorized
    BY <2>1 DEF Good, Mirrored, Silent, MirrorIsAuthorized
  <2> QED BY <2>2, <2>3 DEF InputIsAuthorized
<1> QED BY <1>1, Inductive, PTL

\* SeatsAreKept: within a session no step passes a seat from one source to
\* another, not even when korrid dies and comes back.
THEOREM SeatsKept == Spec => SeatsAreKept
<1>1. IInv /\ [Next]_vars => [(up' /\ rt.session # None /\ rt'.session = rt.session)
                               => \A s \in Slots : rt.seat[s].key # None
                                                   => rt'.seat[s].key = rt.seat[s].key]_vars
  BY StepKept DEF Kept, Keeps
<1> QED BY <1>1, Inductive, PTL DEF Spec, SeatsAreKept

\* ViewIsTrue: what korrid acts on without asking is true of the receiver - the route
\* it has cached, the session of the last snapshot, and the native sources once the
\* pending events are applied - through every loss, time-out and restart, for event
\* queues of any length.
THEOREM ViewHolds == Spec => []ViewIsTrue
<1>1. IInv /\ VInv /\ [Next]_vars => IInv' /\ VInv'
  BY StepKept, StepView
<1>2. IInv /\ VInv => ViewIsTrue
  <2> SUFFICES ASSUME IInv, VInv PROVE ViewIsTrue
    OBVIOUS
  <2>0. KTypes /\ NInv /\ CInv /\ rt \in Runtime /\ HeldOk(rt, pressed)
    BY DEF IInv, VInv, RInv, Good
  <2>1. RouteIsTrue
    BY <2>0 DEF CInv, Obeyed, RouteOf, HeldOk, RouteIsTrue
  <2>2. SnapshotIsTrue
    BY <2>0 DEF CInv, SnapshotIsTrue
  <2>3. NativeAgrees
    <3>1. PICK e : e = IF call.st = "reply" THEN call.m.events ELSE <<>>
      OBVIOUS
    <3>2. e \in Seq(Event) /\ rt.feedback \in Seq(Event) /\ mapper \in Mappers
      BY <2>0, <3>1, RuntimeFields DEF KTypes, CallOk, Replies
    <3>3. MapAll(mapper, e) = Seen
      BY <3>1, <3>2, MapNone DEF Seen
    <3>4. MapAll(mapper, e \o rt.feedback) = MapAll(Seen, rt.feedback)
      BY <3>2, <3>3, MapConcat
    <3>5. link /\ coord => \A k \in Remotes : MapAll(mapper, e \o rt.feedback).remote[k] = StateOf(rt, k)
      BY <2>0, <3>4 DEF NInv, Agrees, Shows
    <3> QED BY <2>0, <3>1, <3>5 DEF NInv, NativeAgrees, StateOf
  <2> QED BY <2>1, <2>2, <2>3 DEF ViewIsTrue
<1> QED BY <1>1, <1>2, InitInv, InitView, PTL DEF Spec

=============================================================================
