------------------------ MODULE AcquisitionQueueProofs ------------------------
(***************************************************************************)
(* AcquisitionQueue keeps WorkIsExclusive and NotForgotten, whatever the     *)
(* artifacts, the provider jobs, the routes and the number of requests and   *)
(* restarts.                                                                 *)
(*                                                                         *)
(* The queue is a sequence that is filtered and joined; the invariants only  *)
(* ask what is in it.  The first part shows what the filters keep (by        *)
(* induction along the sequence, with the least counterexample in place of   *)
(* an induction principle); after it no proof looks inside a sequence.       *)
(*                                                                         *)
(* NotForgotten is not inductive: when a run ends, what was asked for is     *)
(* ready, failed or waiting only because of what happened during the run.    *)
(* FallsInLine says so while it runs: a run that was told to stop, or whose  *)
(* result was removed again, has its artifact in the queue unless nobody     *)
(* asks for it any more; PausedWaits and Told are what it rests on.          *)
(* WorkIsExclusive needs that unpacking was announced (Announced): neither a *)
(* pause nor a cancel touches a job that is Unpacking.                       *)
(***************************************************************************)
EXTENDS AcquisitionQueue, SequenceTheorems, WellFoundedInduction, TLAPS

\* A set of naturals that is not empty has a least member.
LEMMA Least == ASSUME NEW T \in SUBSET Nat, T # {}
               PROVE  \E n \in T : \A m \in T : n <= m
<1>1. \E n \in T : \A m \in T : ~(<<m, n>> \in OpToRel(<, Nat))
  BY NatLessThanWellFounded, WFMin, Zenon
<1>2. PICK n \in T : \A m \in T : ~(<<m, n>> \in OpToRel(<, Nat))
  BY <1>1, Zenon
<1>3. ASSUME NEW m \in T PROVE n <= m
  <2>1. m \in Nat /\ n \in Nat /\ ~(<<m, n>> \in OpToRel(<, Nat))
    BY <1>2, Zenon
  <2>2. m < n => <<m, n>> \in OpToRel(<, Nat)
    BY <2>1, SMT DEF OpToRel
  <2>3. ~(m < n)
    BY <2>1, <2>2, Zenon
  <2> QED
    <3>1. m \in Nat /\ n \in Nat BY <2>1
    <3> QED BY <3>1, <2>3
<1> QED BY <1>3

\* What push_back leaves in the queue.
LEMMA AppendRange ==
    ASSUME NEW A, NEW s \in Seq(A), NEW x \in A
    PROVE  Append(s, x) \in Seq(A) /\ Range(Append(s, x)) = Range(s) \cup {x}
<1>1. /\ Append(s, x) \in Seq(A) /\ <<x>> \in Seq(A)
      /\ Append(s, x) = s \o <<x>> /\ Range(<<x>>) = {x}
  BY AppendProperties, AppendIsConcat DEF Range
<1>2. Range(s \o <<x>>) = Range(s) \cup Range(<<x>>)
  BY <1>1, RangeConcatenation
<1> QED BY <1>1, <1>2

\* The recursion of Pick is well defined: picked is a chain of sequences, each
\* made from the one before.
LEMMA PickChain ==
    ASSUME NEW A, NEW s \in Seq(A), NEW I
    PROVE  \E g \in [0..Len(s) -> Seq(A)] :
              /\ Pick(s, I) = g[Len(s)]
              /\ g[0] = <<>>
              /\ \A i \in 1..Len(s) : g[i] = IF i \in I THEN Append(g[i - 1], s[i]) ELSE g[i - 1]
<1> DEFINE Step(g, n) == /\ g[0] = <<>>
                         /\ \A i \in 1..n : g[i] = IF i \in I THEN Append(g[i - 1], s[i]) ELSE g[i - 1]
           Bad == {n \in 0..Len(s) : ~\E g \in [0..n -> Seq(A)] : Step(g, n)}
<1>0. Len(s) \in Nat /\ \A i \in 1..Len(s) : s[i] \in A
  BY LenProperties, ElementOfSeq
<1>1. Bad = {}
  <2> SUFFICES ASSUME Bad # {} PROVE FALSE
    OBVIOUS
  <2>1. Bad \in SUBSET Nat
    BY <1>0
  <2>2. PICK n \in Bad : \A m \in Bad : n <= m
    <3> HIDE DEF Bad
    <3> QED BY <2>1, Least
  <2>3. n # 0
    <3> SUFFICES ASSUME n = 0 PROVE FALSE
      OBVIOUS
    <3>1. [i \in 0..0 |-> <<>>] \in [0..0 -> Seq(A)]
      BY EmptySeq
    <3>2. Step([i \in 0..0 |-> <<>>], 0)
      OBVIOUS
    <3> QED BY <3>1, <3>2
  <2>4. n \in 1..Len(s) /\ n - 1 \in 0..Len(s) /\ n - 1 \notin Bad
    <3>1. n \in 0..Len(s)
      BY <2>2
    <3>2. n \in 1..Len(s) /\ n - 1 \in 0..Len(s)
      BY <3>1, <2>3, <1>0
    <3>3. n - 1 \notin Bad
      <4> HIDE DEF Bad
      <4> QED BY <2>2, <3>2, <1>0
    <3> QED BY <3>2, <3>3
  <2>5. PICK g \in [0..(n - 1) -> Seq(A)] : Step(g, n - 1)
    BY <2>4
  <2> DEFINE h == [i \in 0..n |-> IF i < n THEN g[i]
                                  ELSE IF n \in I THEN Append(g[n - 1], s[n]) ELSE g[n - 1]]
  <2>6. g[n - 1] \in Seq(A) /\ Append(g[n - 1], s[n]) \in Seq(A)
    BY <2>4, <2>5, <1>0, AppendProperties
  <2>7. h \in [0..n -> Seq(A)]
    BY <2>4, <2>5, <2>6, <1>0
  <2>8. Step(h, n)
    <3>1. h[0] = <<>>
      BY <2>4, <2>5, <1>0
    <3>2. ASSUME NEW i \in 1..n PROVE h[i] = IF i \in I THEN Append(h[i - 1], s[i]) ELSE h[i - 1]
      <4>1. CASE i = n
        BY <4>1, <2>4, <1>0
      <4>2. CASE i # n
        <5>1. i \in 1..(n - 1) /\ i < n /\ i - 1 < n /\ i \in 0..n /\ i - 1 \in 0..n
          BY <4>2, <2>4, <1>0
        <5>2. h[i] = g[i] /\ h[i - 1] = g[i - 1]
          BY <5>1
        <5> QED BY <5>1, <5>2, <2>5
      <4> QED BY <4>1, <4>2
    <3> QED BY <3>1, <3>2
  <2> QED BY <2>2, <2>7, <2>8
<1>2. PICK g \in [0..Len(s) -> Seq(A)] : Step(g, Len(s))
  <2>1. Len(s) \in 0..Len(s) BY <1>0
  <2> QED BY <1>1, <2>1
<1> DEFINE Eq(f) == f = [i \in 0..Len(s) |->
                            IF i = 0 THEN <<>>
                            ELSE IF i \in I THEN Append(f[i - 1], s[i]) ELSE f[i - 1]]
           p == CHOOSE f : Eq(f)
<1>3. Eq(g)
  <2>1. ASSUME NEW i \in 0..Len(s)
        PROVE  g[i] = IF i = 0 THEN <<>> ELSE IF i \in I THEN Append(g[i - 1], s[i]) ELSE g[i - 1]
    <3>1. i = 0 \/ i \in 1..Len(s) BY <1>0
    <3> QED BY <3>1, <1>2, <1>0
  <2> QED BY <2>1, <1>2
<1>4. Eq(p)
  <2> HIDE DEF Eq
  <2> QED BY <1>3
<1>5. Pick(s, I) = p[Len(s)]
  BY DEF Pick
<1>6. ASSUME NEW i \in 0..Len(s) PROVE p[i] = g[i]
  <2> HIDE DEF p
  <2> DEFINE Differ == {j \in 0..Len(s) : p[j] # g[j]}
  <2> SUFFICES Differ = {} OBVIOUS
  <2> SUFFICES ASSUME Differ # {} PROVE FALSE OBVIOUS
  <2>1. Differ \in SUBSET Nat BY <1>0
  <2>2. PICK n \in Differ : \A m \in Differ : n <= m
    <3> HIDE DEF Differ
    <3> QED BY <2>1, Least
  <2>3. n \in 0..Len(s) /\ p[n] # g[n] BY <2>2
  <2>4. p[n] = IF n = 0 THEN <<>> ELSE IF n \in I THEN Append(p[n - 1], s[n]) ELSE p[n - 1]
    BY <1>4, <2>3
  <2>5. g[n] = IF n = 0 THEN <<>> ELSE IF n \in I THEN Append(g[n - 1], s[n]) ELSE g[n - 1]
    BY <1>3, <2>3
  <2>6. n # 0 BY <2>3, <2>4, <2>5
  <2>7. n - 1 \in 0..Len(s) /\ n - 1 < n BY <2>3, <2>6, <1>0
  <2>8. n - 1 \notin Differ
    <3> HIDE DEF Differ
    <3> QED BY <2>2, <2>7, <2>3, <1>0
  <2>9. p[n - 1] = g[n - 1] BY <2>7, <2>8
  <2> QED BY <2>3, <2>4, <2>5, <2>6, <2>9
<1> QED
  <2> HIDE DEF p
  <2>1. Len(s) \in 0..Len(s) BY <1>0
  <2> QED BY <2>1, <1>5, <1>6, <1>2

\* The items of a sequence that are picked are picked from it, and all of them.
LEMMA PickRange ==
    ASSUME NEW A, NEW s \in Seq(A), NEW I
    PROVE  /\ Pick(s, I) \in Seq(A)
           /\ \A x : x \in Range(Pick(s, I)) <=> \E i \in DOMAIN s : i \in I /\ s[i] = x
<1>0. Len(s) \in Nat /\ DOMAIN s = 1..Len(s) /\ \A i \in 1..Len(s) : s[i] \in A
  BY LenProperties, ElementOfSeq
<1>1. PICK g \in [0..Len(s) -> Seq(A)] :
              /\ Pick(s, I) = g[Len(s)]
              /\ g[0] = <<>>
              /\ \A i \in 1..Len(s) : g[i] = IF i \in I THEN Append(g[i - 1], s[i]) ELSE g[i - 1]
  BY PickChain
<1> DEFINE Good(n) == \A x : x \in Range(g[n]) <=> \E i \in 1..n : i \in I /\ s[i] = x
           Bad == {n \in 0..Len(s) : ~Good(n)}
<1>2. Bad = {}
  <2> SUFFICES ASSUME Bad # {} PROVE FALSE
    OBVIOUS
  <2>1. Bad \in SUBSET Nat
    BY <1>0
  <2>2. PICK n \in Bad : \A m \in Bad : n <= m
    <3> HIDE DEF Bad
    <3> QED BY <2>1, Least
  <2>3. n \in 0..Len(s) /\ ~Good(n)
    BY <2>2
  <2>4. n # 0
    <3> SUFFICES ASSUME n = 0 PROVE Good(0)
      BY <2>3
    <3>1. g[0] = <<>> /\ Range(g[0]) = {}
      BY <1>1 DEF Range
    <3> QED BY <3>1
  <2>5. n \in 1..Len(s) /\ n - 1 \in 0..Len(s) /\ n - 1 < n
    BY <2>3, <2>4, <1>0
  <2>6. Good(n - 1)
    <3>1. n - 1 \notin Bad
      <4> HIDE DEF Bad
      <4> QED BY <2>2, <2>3, <2>5, <1>0
    <3> QED BY <3>1, <2>5
  <2>7. g[n - 1] \in Seq(A) /\ s[n] \in A /\ n \in Nat
    <3>1. g[n - 1] \in Seq(A)
      BY <2>5
    <3>2. s[n] \in A
      BY <1>0, <2>5
    <3>3. n \in Nat
      BY <1>0, <2>3
    <3> QED BY <3>1, <3>2, <3>3
  <2>8. n \in I => \A x : x \in Range(g[n]) <=> x \in Range(g[n - 1]) \/ x = s[n]
    <3> SUFFICES ASSUME n \in I PROVE \A x : x \in Range(g[n]) <=> x \in Range(g[n - 1]) \/ x = s[n]
      OBVIOUS
    <3>1. g[n] = Append(g[n - 1], s[n])
      BY <1>1, <2>5
    <3>2. Range(g[n]) = Range(g[n - 1]) \cup {s[n]}
      BY <3>1, <2>7, AppendRange
    <3> QED BY <3>2
  <2>9. n \notin I => g[n] = g[n - 1]
    BY <1>1, <2>5
  <2>10. Good(n)
    <3>1. ASSUME NEW x PROVE x \in Range(g[n]) <=> \E i \in 1..n : i \in I /\ s[i] = x
      <4>1. (\E i \in 1..n : i \in I /\ s[i] = x)
              <=> (\E i \in 1..(n - 1) : i \in I /\ s[i] = x) \/ (n \in I /\ s[n] = x)
        BY <2>5, <2>7
      <4> QED BY <4>1, <2>6, <2>8, <2>9
    <3> QED BY <3>1
  <2> QED BY <2>3, <2>10
<1>3. Good(Len(s))
  <2>1. Len(s) \in 0..Len(s) BY <1>0
  <2> QED BY <1>2, <2>1
<1>4. g[Len(s)] \in Seq(A)
  <2>1. Len(s) \in 0..Len(s) BY <1>0
  <2> QED BY <2>1
<1>5. \A x : x \in Range(Pick(s, I)) <=> \E i \in DOMAIN s : i \in I /\ s[i] = x
  BY <1>0, <1>1, <1>3
<1> QED BY <1>1, <1>4, <1>5

\* Without takes every item of S out and keeps the others.
LEMMA WithoutRange ==
    ASSUME NEW A, NEW s \in Seq(A), NEW S
    PROVE  Without(s, S) \in Seq(A) /\ Range(Without(s, S)) = Range(s) \ S
<1> DEFINE I == {i \in DOMAIN s : s[i] \notin S}
<1>1. /\ Pick(s, I) \in Seq(A)
      /\ \A x : x \in Range(Pick(s, I)) <=> \E i \in DOMAIN s : i \in I /\ s[i] = x
  <2> HIDE DEF I
  <2> QED BY PickRange
<1>2. \A x : x \in Range(Pick(s, I)) <=> x \in Range(s) \ S
  BY <1>1 DEF Range
<1>3. Without(s, S) = Pick(s, I)
  BY DEF Without
<1> HIDE DEF I
<1> QED BY <1>1, <1>2, <1>3

\* WithoutFirst keeps every item that is not in S, and invents none.
LEMMA WithoutFirstRange ==
    ASSUME NEW A, NEW s \in Seq(A), NEW S
    PROVE  /\ WithoutFirst(s, S) \in Seq(A)
           /\ Range(WithoutFirst(s, S)) \subseteq Range(s)
           /\ Range(s) \ S \subseteq Range(WithoutFirst(s, S))
<1> DEFINE I == {i \in DOMAIN s : s[i] \in S => \E j \in 1..(i - 1) : s[j] = s[i]}
<1>1. /\ Pick(s, I) \in Seq(A)
      /\ \A x : x \in Range(Pick(s, I)) <=> \E i \in DOMAIN s : i \in I /\ s[i] = x
  <2> HIDE DEF I
  <2> QED BY PickRange
<1>2. \A x : x \in Range(Pick(s, I)) => x \in Range(s)
  BY <1>1 DEF Range
<1>3. \A x : x \in Range(s) \ S => x \in Range(Pick(s, I))
  BY <1>1 DEF Range
<1>4. WithoutFirst(s, S) = Pick(s, I)
  BY DEF WithoutFirst
<1> HIDE DEF I
<1> QED BY <1>1, <1>2, <1>3, <1>4

\* What pop_front takes from the queue and leaves in it.
LEMMA TailRange ==
    ASSUME NEW A, NEW s \in Seq(A), s # <<>>
    PROVE  /\ Head(s) \in A /\ Head(s) \in Range(s) /\ Tail(s) \in Seq(A)
           /\ Range(s) = Range(Tail(s)) \cup {Head(s)}
<1>1. Head(s) \in A /\ Tail(s) \in Seq(A) /\ s = <<Head(s)>> \o Tail(s)
  BY HeadTailProperties
<1>2. <<Head(s)>> \in Seq(A) /\ Range(<<Head(s)>>) = {Head(s)}
  BY <1>1 DEF Range
<1>3. Range(<<Head(s)>> \o Tail(s)) = Range(<<Head(s)>>) \cup Range(Tail(s))
  <2> DEFINE h == <<Head(s)>>
             t == Tail(s)
  <2>1. h \in Seq(A) /\ t \in Seq(A)
    BY <1>1, <1>2
  <2> HIDE DEF h, t
  <2>2. Range(h \o t) = Range(h) \cup Range(t)
    BY <2>1, RangeConcatenation
  <2> QED BY <2>2 DEF h, t
<1>4. Range(s) = Range(Tail(s)) \cup {Head(s)}
  BY <1>1, <1>2, <1>3
<1> QED BY <1>1, <1>4

\* An empty queue has nothing in it.
LEMMA EmptyRange == Range(<<>>) = {} /\ \A A : <<>> \in Seq(A)
BY EmptySeq DEF Range

\* What extend leaves in the queue.
LEMMA ConcatRange ==
    ASSUME NEW A, NEW s \in Seq(A), NEW t \in Seq(A)
    PROVE  s \o t \in Seq(A) /\ Range(s \o t) = Range(s) \cup Range(t)
BY ConcatProperties, RangeConcatenation


------------------------------------------------------------------------------
(* The inductive invariant.                                                *)

States == {"Missing", "Queued", "Downloading", "Unpacking", "Ready", "Failed"}

(* What the worker is at work on: a ticket or a turn of a provider job, or an *)
(* artifact from .lock to the end of the run.                                *)
ArtifactAt == LockedAt \cup {"lock", "back", "read", "discard"}

BaseFits ==
    /\ w.at \in {"ticket", "turn"} => w.base \in Jobs
    /\ w.at \in ArtifactAt => w.base \in Artifacts

(* Unpacking is announced before it starts, and what is tidied is published. *)
Announced ==
    /\ w.at \in {"unpack", "tidy"} => job[w.base] = "Unpacking"
    /\ w.at = "tidy" => w.base \in ready

(* acquire() returns Cancelled only when it was told to stop, and no stop is  *)
(* taken back.                                                               *)
Told ==
    /\ w.at \in {"back", "read"} /\ w.result = "Cancelled" => w.stop # "Run"
    /\ w.at = "read" /\ w.result = "Cancelled" => w.stopped # "Run"

(* A paused job stands in the queue while it still runs.                      *)
PausedWaits ==
    w.at \in RunningAt /\ w.base \in Artifacts /\ w.stop = "Pause" => IsWaiting(w.base)

(* The run will not end as asked: it was told to stop, or what it published   *)
(* was removed.                                                              *)
Falls == \/ w.stop # "Run"
         \/ w.at = "read" /\ w.stopped # "Run"
         \/ w.at \in {"back", "read"} /\ w.result = "Ok" /\ w.base \notin ready

FallsInLine ==
    w.at \in RunningAt /\ w.base \in Artifacts /\ Falls
        => IsWaiting(w.base) \/ want[w.base] # "asked"

\* The invariant and what makes it inductive.
IInv == /\ Types /\ BaseFits /\ WorkIsExclusive /\ Announced
        /\ Told /\ PausedWaits /\ FallsInLine /\ NotForgotten

------------------------------------------------------------------------------
(* The steps of a run.                                                     *)

(* A step of acquire(): the run goes on, or returns.                          *)
Onward ==
    /\ w.at \in LockedAt \cup {"lock"}
    /\ w' \in Worker
    /\ w'.at \in LockedAt \cup {"back"}
    /\ w'.base = w.base /\ w'.stop = w.stop /\ w'.stopped = w.stopped
    /\ w'.at = "back" => /\ w'.result = "Cancelled" => w.stop # "Run"
                         /\ w'.result = "Ok" => w.base \in ready'
    /\ ready \subseteq ready' /\ ready' \subseteq Artifacts
    /\ marks' \in Seq(Artifacts)
    /\ job' \in [Artifacts -> States]
    /\ \A a \in Artifacts : a # w.base => job'[a] = job[a]
    /\ UNCHANGED <<waiting, caller, turn, want, asks, crashes>>

\* A step of acquire() keeps the queue's promises; what it does with its files
\* is shown for each step.
LEMMA OnwardStep ==
    ASSUME IInv, Onward
    PROVE  /\ Types' /\ BaseFits' /\ OneAtATime' /\ Told'
           /\ PausedWaits' /\ FallsInLine' /\ NotForgotten'
<1>0. /\ w.at \in {"lock", "reclaim", "fetch", "unpack", "tidy"}
      /\ w'.at \in {"reclaim", "fetch", "unpack", "tidy", "back"}
      /\ w.base \in Artifacts
      /\ w \in Worker /\ w' \in Worker
  BY DEF IInv, Types, Onward, LockedAt, BaseFits, ArtifactAt
<1>1. Types'
  BY DEF IInv, Types, Onward, States
<1>2. BaseFits'
  BY <1>0 DEF BaseFits, Onward
<1>3. OneAtATime'
  BY <1>0 DEF IInv, WorkIsExclusive, OneAtATime, Onward
<1>4. Told'
  BY <1>0 DEF Told, Onward
<1>5. PausedWaits'
  BY <1>0 DEF IInv, PausedWaits, IsWaiting, RunningAt, Onward
<1>6. FallsInLine'
  BY <1>0 DEF IInv, FallsInLine, Falls, IsWaiting, RunningAt, Onward
<1>7. NotForgotten'
  <2> SUFFICES ASSUME NEW a \in Artifacts, want'[a] = "asked"
               PROVE  a \in ready' \/ job'[a] = "Failed" \/ Running(a)' \/ IsWaiting(a)'
    BY DEF NotForgotten
  <2>1. CASE a = w.base
    BY <2>1, <1>0 DEF Onward, Running, RunningAt
  <2>2. CASE a # w.base
    <3>1. a \in ready \/ job[a] = "Failed" \/ IsWaiting(a)
      BY <2>2 DEF IInv, NotForgotten, Running, Onward
    <3> QED BY <3>1, <2>2 DEF Onward, IsWaiting
  <2> QED BY <2>1, <2>2
<1> QED BY <1>1, <1>2, <1>3, <1>4, <1>5, <1>6, <1>7

\* The worker when acquire() returns.
LEMMA ReturnFields ==
    ASSUME w \in Worker, NEW r \in Results, Return(r)
    PROVE  /\ w' \in Worker /\ w'.at = "back" /\ w'.base = w.base
           /\ w'.stop = w.stop /\ w'.stopped = w.stopped /\ w'.result = r
BY DEF Return, Worker, RunningAt

\* The worker when it only moves on.
LEMMA AtFields ==
    ASSUME w \in Worker, NEW x \in RunningAt \cup {"discard"}, w' = [w EXCEPT !.at = x]
    PROVE  /\ w' \in Worker /\ w'.at = x /\ w'.base = w.base
           /\ w'.stop = w.stop /\ w'.stopped = w.stopped /\ w'.result = w.result
BY DEF Worker

\* acquire, the .lock loop.
LEMMA TakeLockStep == ASSUME IInv, TakeLock PROVE IInv'
<1>0. /\ w \in Worker /\ w.at = "lock"
      /\ UNCHANGED <<ready, marks, job, waiting, caller, turn, want, asks, crashes>>
      /\ ready \subseteq Artifacts /\ marks \in Seq(Artifacts) /\ job \in [Artifacts -> States]
  BY DEF IInv, Types, TakeLock, States, disk, counts
<1>1. Onward /\ w'.at \in {"back", "reclaim"}
  <2>1. CASE w.stop # "Run" /\ Return("Cancelled")
    <3>1. /\ w' \in Worker /\ w'.at = "back" /\ w'.base = w.base
          /\ w'.stop = w.stop /\ w'.stopped = w.stopped /\ w'.result = "Cancelled"
      BY <1>0, <2>1, ReturnFields DEF Results
    <3> QED BY <1>0, <2>1, <3>1 DEF Onward
  <2>2. CASE Return("Failed")
    <3>1. /\ w' \in Worker /\ w'.at = "back" /\ w'.base = w.base
          /\ w'.stop = w.stop /\ w'.stopped = w.stopped /\ w'.result = "Failed"
      BY <1>0, <2>2, ReturnFields DEF Results
    <3> QED BY <1>0, <3>1 DEF Onward
  <2>3. CASE w' = [w EXCEPT !.at = "reclaim"]
    <3>1. /\ w' \in Worker /\ w'.at = "reclaim" /\ w'.base = w.base
          /\ w'.stop = w.stop /\ w'.stopped = w.stopped
      BY <1>0, <2>3, AtFields DEF RunningAt
    <3> QED BY <1>0, <3>1 DEF Onward, LockedAt
  <2> QED BY <2>1, <2>2, <2>3 DEF TakeLock
<1>2. StopIsNotLost' /\ WriterKeepsFiles' /\ Announced'
  BY <1>1 DEF StopIsNotLost, WriterKeepsFiles, Announced
<1> QED BY <1>1, <1>2, OnwardStep DEF IInv, WorkIsExclusive

\* acquire, up to the download directory.
LEMMA ReclaimStep == ASSUME IInv, Reclaim PROVE IInv'
<1>0. /\ w \in Worker /\ w.at = "reclaim" /\ w.base \in Artifacts
      /\ UNCHANGED <<ready, job, waiting, caller, turn, want, asks, crashes>>
      /\ ready \subseteq Artifacts /\ marks \in Seq(Artifacts) /\ job \in [Artifacts -> States]
  BY DEF IInv, Types, Reclaim, States, counts, BaseFits, ArtifactAt, LockedAt
<1>1. /\ Onward /\ w'.at \in {"back", "fetch"}
      /\ w'.at = "fetch" => w.base \in Range(marks')
  <2>1. CASE Return("Failed") /\ marks' = marks
    <3>1. /\ w' \in Worker /\ w'.at = "back" /\ w'.base = w.base
          /\ w'.stop = w.stop /\ w'.stopped = w.stopped /\ w'.result = "Failed"
      BY <1>0, <2>1, ReturnFields DEF Results
    <3> QED BY <1>0, <2>1, <3>1 DEF Onward, LockedAt
  <2>2. CASE w.base \in ready /\ Return("Ok") /\ marks' = marks
    <3>1. /\ w' \in Worker /\ w'.at = "back" /\ w'.base = w.base
          /\ w'.stop = w.stop /\ w'.stopped = w.stopped /\ w'.result = "Ok"
      BY <1>0, <2>2, ReturnFields DEF Results
    <3> QED BY <1>0, <2>2, <3>1 DEF Onward, LockedAt
  <2>3. CASE /\ w' = [w EXCEPT !.at = "fetch"]
             /\ marks' = IF Marked(w.base) THEN marks ELSE Append(marks, w.base)
    <3>1. /\ w' \in Worker /\ w'.at = "fetch" /\ w'.base = w.base
          /\ w'.stop = w.stop /\ w'.stopped = w.stopped
      BY <1>0, <2>3, AtFields DEF RunningAt
    <3>2. marks' \in Seq(Artifacts) /\ w.base \in Range(marks')
      BY <1>0, <2>3, AppendRange DEF Marked
    <3> QED BY <1>0, <3>1, <3>2 DEF Onward, LockedAt
  <2> QED BY <2>1, <2>2, <2>3 DEF Reclaim
<1>2. StopIsNotLost' /\ WriterKeepsFiles' /\ Announced'
  BY <1>1 DEF StopIsNotLost, WriterKeepsFiles, Announced, Marked, Onward
<1> QED BY <1>1, <1>2, OnwardStep DEF IInv, WorkIsExclusive

\* acquire, the download: unpacking starts only when nothing stopped it.
LEMMA FetchStep == ASSUME IInv, Fetch PROVE IInv'
<1>0. /\ w \in Worker /\ w.at = "fetch" /\ w.base \in Artifacts /\ w.base \in Range(marks)
      /\ UNCHANGED <<ready, marks, waiting, caller, turn, want, asks, crashes>>
      /\ ready \subseteq Artifacts /\ marks \in Seq(Artifacts) /\ job \in [Artifacts -> States]
  BY DEF IInv, Types, Fetch, States, counts, disk, BaseFits, ArtifactAt, LockedAt,
         WorkIsExclusive, WriterKeepsFiles, Marked
<1>1. /\ Onward /\ w'.at \in {"back", "unpack"}
      /\ w'.at = "unpack" => w.stop = "Run" /\ job'[w.base] = "Unpacking"
  <2>1. CASE w.stop # "Run" /\ Return("Cancelled") /\ job' = job
    <3>1. /\ w' \in Worker /\ w'.at = "back" /\ w'.base = w.base
          /\ w'.stop = w.stop /\ w'.stopped = w.stopped /\ w'.result = "Cancelled"
      BY <1>0, <2>1, ReturnFields DEF Results
    <3> QED BY <1>0, <2>1, <3>1 DEF Onward, LockedAt
  <2>2. CASE Return("Failed") /\ job' = job
    <3>1. /\ w' \in Worker /\ w'.at = "back" /\ w'.base = w.base
          /\ w'.stop = w.stop /\ w'.stopped = w.stopped /\ w'.result = "Failed"
      BY <1>0, <2>2, ReturnFields DEF Results
    <3> QED BY <1>0, <2>2, <3>1 DEF Onward, LockedAt
  <2>3. CASE /\ w.stop = "Run"
             /\ w' = [w EXCEPT !.at = "unpack"]
             /\ job' = [job EXCEPT ![w.base] = "Unpacking"]
    <3>1. /\ w' \in Worker /\ w'.at = "unpack" /\ w'.base = w.base
          /\ w'.stop = w.stop /\ w'.stopped = w.stopped
      BY <1>0, <2>3, AtFields DEF RunningAt
    <3>2. /\ job' \in [Artifacts -> States] /\ job'[w.base] = "Unpacking"
          /\ \A a \in Artifacts : a # w.base => job'[a] = job[a]
      BY <1>0, <2>3 DEF States
    <3> QED BY <1>0, <2>3, <3>1, <3>2 DEF Onward, LockedAt
  <2> QED BY <2>1, <2>2, <2>3 DEF Fetch
<1>2. StopIsNotLost' /\ WriterKeepsFiles' /\ Announced'
  BY <1>0, <1>1 DEF StopIsNotLost, WriterKeepsFiles, Announced, Marked, Onward
<1> QED BY <1>1, <1>2, OnwardStep DEF IInv, WorkIsExclusive

\* publish, the rename.
LEMMA PublishStep == ASSUME IInv, Publish PROVE IInv'
<1>0. /\ w \in Worker /\ w.at = "unpack" /\ w.base \in Artifacts
      /\ w.stop = "Run" /\ job[w.base] = "Unpacking"
      /\ UNCHANGED <<marks, job, waiting, caller, turn, want, asks, crashes>>
      /\ ready \subseteq Artifacts /\ marks \in Seq(Artifacts) /\ job \in [Artifacts -> States]
  BY DEF IInv, Types, Publish, States, counts, BaseFits, ArtifactAt, LockedAt,
         WorkIsExclusive, StopIsNotLost, Announced
<1>1. /\ Onward /\ w'.at \in {"back", "tidy"}
      /\ w'.at = "tidy" => w.base \in ready'
  <2>1. CASE Return("Failed") /\ ready' = ready
    <3>1. /\ w' \in Worker /\ w'.at = "back" /\ w'.base = w.base
          /\ w'.stop = w.stop /\ w'.stopped = w.stopped /\ w'.result = "Failed"
      BY <1>0, <2>1, ReturnFields DEF Results
    <3> QED BY <1>0, <2>1, <3>1 DEF Onward, LockedAt
  <2>2. CASE w' = [w EXCEPT !.at = "tidy"] /\ ready' = ready \cup {w.base}
    <3>1. /\ w' \in Worker /\ w'.at = "tidy" /\ w'.base = w.base
          /\ w'.stop = w.stop /\ w'.stopped = w.stopped
      BY <1>0, <2>2, AtFields DEF RunningAt
    <3> QED BY <1>0, <2>2, <3>1 DEF Onward, LockedAt
  <2> QED BY <2>1, <2>2 DEF Publish
<1>2. StopIsNotLost' /\ WriterKeepsFiles' /\ Announced'
  BY <1>0, <1>1 DEF StopIsNotLost, WriterKeepsFiles, Announced, Onward
<1> QED BY <1>1, <1>2, OnwardStep DEF IInv, WorkIsExclusive

\* publish, the end.
LEMMA TidyStep == ASSUME IInv, Tidy PROVE IInv'
<1>0. /\ w \in Worker /\ w.at = "tidy" /\ w.base \in ready
      /\ UNCHANGED <<ready, job, waiting, caller, turn, want, asks, crashes>>
      /\ ready \subseteq Artifacts /\ marks \in Seq(Artifacts) /\ job \in [Artifacts -> States]
  BY DEF IInv, Types, Tidy, States, counts, Announced
<1>1. Onward /\ w'.at = "back"
  <2>0. marks' \in Seq(Artifacts)
    BY <1>0, WithoutRange DEF Tidy
  <2>1. PICK r \in {"Ok", "Failed"} : Return(r)
    BY DEF Tidy
  <2>2. /\ w' \in Worker /\ w'.at = "back" /\ w'.base = w.base
        /\ w'.stop = w.stop /\ w'.stopped = w.stopped /\ w'.result = r
    BY <1>0, <2>1, ReturnFields DEF Results
  <2> QED BY <1>0, <2>0, <2>2 DEF Onward, LockedAt
<1>2. StopIsNotLost' /\ WriterKeepsFiles' /\ Announced'
  BY <1>1 DEF StopIsNotLost, WriterKeepsFiles, Announced
<1> QED BY <1>1, <1>2, OnwardStep DEF IInv, WorkIsExclusive

\* The worker is between two jobs: what is promised of a run holds.
LEMMA BetweenJobs ==
    ASSUME w'.at \in {"off", "asleep", "loop"}
    PROVE  /\ BaseFits' /\ StopIsNotLost' /\ WriterKeepsFiles' /\ Announced'
           /\ Told' /\ PausedWaits' /\ FallsInLine'
BY DEF BaseFits, ArtifactAt, LockedAt, RunningAt, StopIsNotLost, WriterKeepsFiles, Announced,
       Told, PausedWaits, FallsInLine

\* The worker when it has let go of its job.
LEMMA OffFields ==
    ASSUME NEW x \in {"off", "asleep", "loop"}, w' = [Off EXCEPT !.at = x]
    PROVE  w' \in Worker /\ w'.at = x
BY DEF Off, Worker, Stops, Results

\* ensure_worker leaves a worker that is at work alone.
LEMMA AwakeFields ==
    ASSUME w \in Worker, NEW line, w' = Awake(line)
    PROVE  /\ w' \in Worker
           /\ w' = w \/ (w.at \in {"off", "asleep"} /\ w'.at = "loop")
<1>1. CASE w.at \in {"off", "asleep"} /\ line # <<>>
  BY <1>1, OffFields DEF Awake
<1>2. CASE ~(w.at \in {"off", "asleep"} /\ line # <<>>)
  BY <1>2 DEF Awake
<1> QED BY <1>1, <1>2

(* A step beside the worker: at most it wakes it up.  It keeps its promises   *)
(* when it leaves the running job, its files and its place in the queue alone.*)
Beside ==
    /\ w' \in Worker
    /\ w' = w \/ (w.at \in {"off", "asleep"} /\ w'.at = "loop")
    /\ w.at \in LockedAt => /\ job'[w.base] = job[w.base]
                            /\ w.base \in ready => w.base \in ready'
                            /\ w.base \in Range(marks) => w.base \in Range(marks')
    /\ w.at \in RunningAt /\ w.base \in Artifacts =>
          /\ w.base \in Range(waiting) => w.base \in Range(waiting')
          /\ want'[w.base] # want[w.base] => want'[w.base] # "asked"
          /\ w.base \notin ready' => w.base \notin ready \/ want'[w.base] # "asked"
    /\ \A t \in Jobs : turn'[t] = "turn" => turn[t] = "turn"

\* A step beside the worker keeps what is promised of the run.
LEMMA BesideStep ==
    ASSUME IInv, Beside
    PROVE  /\ BaseFits' /\ WorkIsExclusive' /\ Announced' /\ Told' /\ PausedWaits' /\ FallsInLine'
<1>1. CASE w'.at = "loop" /\ w.at \in {"off", "asleep"}
  <2>1. OneAtATime'
    BY <1>1 DEF IInv, WorkIsExclusive, OneAtATime, Beside
  <2> QED BY <1>1, <2>1, BetweenJobs DEF WorkIsExclusive
<1>2. CASE w' = w
  <2>1. BaseFits' /\ Told'
    BY <1>2 DEF IInv, BaseFits, Told
  <2>2. OneAtATime'
    BY <1>2 DEF IInv, WorkIsExclusive, OneAtATime, Beside
  <2>3. StopIsNotLost' /\ WriterKeepsFiles' /\ Announced'
    BY <1>2 DEF IInv, WorkIsExclusive, StopIsNotLost, WriterKeepsFiles, Marked, Announced, Beside, LockedAt
  <2>4. PausedWaits'
    BY <1>2 DEF IInv, PausedWaits, Beside, IsWaiting
  <2>5. FallsInLine'
    BY <1>2 DEF IInv, FallsInLine, Falls, Beside, IsWaiting
  <2> QED BY <2>1, <2>2, <2>3, <2>4, <2>5 DEF WorkIsExclusive
<1> QED BY <1>1, <1>2 DEF Beside

(* What was asked for stays accounted for when nothing is taken from it.      *)
Kept(a) == /\ want'[a] = "asked" => want[a] = "asked"
           /\ a \in ready => a \in ready'
           /\ job[a] = "Failed" => job'[a] = "Failed"
           /\ Running(a) => Running(a)'
           /\ IsWaiting(a) => IsWaiting(a)'

\* A step that takes nothing from what was asked for forgets nothing.
LEMMA KeptStep ==
    ASSUME IInv, \A a \in Artifacts : want'[a] # "asked" \/ Kept(a)
    PROVE  NotForgotten'
BY DEF IInv, NotForgotten, Kept

\* status.
LEMMA StatusStep == ASSUME IInv, Status PROVE IInv'
<1>0. w \in Worker /\ w' = Awake(waiting) /\ UNCHANGED <<ready, marks, job, waiting, caller, turn, want, asks, crashes>>
  BY DEF IInv, Types, Status, disk, counts
<1>1. w' \in Worker /\ (w' = w \/ (w.at \in {"off", "asleep"} /\ w'.at = "loop"))
  BY <1>0, AwakeFields
<1>2. Types'
  BY <1>0, <1>1 DEF IInv, Types
<1>3. Beside
  BY <1>0, <1>1 DEF Beside, IsWaiting
<1>4. NotForgotten'
  BY <1>0, <1>1, KeptStep DEF Kept, Running, RunningAt, IsWaiting
<1> QED BY <1>2, <1>3, <1>4, BesideStep DEF IInv

\* remove: nobody asks for it any more.
LEMMA RemoveDownloadStep == ASSUME IInv, NEW a \in Artifacts, RemoveDownload(a) PROVE IInv'
<1>0. /\ w \in Worker /\ w' = Awake(waiting) /\ ~Locked(a)
      /\ ready' = ready \ {a} /\ want' = [want EXCEPT ![a] = "none"]
      /\ want \in [Artifacts -> {"none", "asked", "cancelled"}]
      /\ UNCHANGED <<marks, job, waiting, caller, turn, asks, crashes>>
  BY DEF IInv, Types, RemoveDownload, counts
<1>1. w' \in Worker /\ (w' = w \/ (w.at \in {"off", "asleep"} /\ w'.at = "loop"))
  BY <1>0, AwakeFields
<1>2. Types'
  BY <1>0, <1>1 DEF IInv, Types
<1>3. Beside
  BY <1>0, <1>1 DEF Beside, IsWaiting, Locked
<1>4. NotForgotten'
  BY <1>0, <1>1, KeptStep DEF Kept, Running, RunningAt, IsWaiting
<1> QED BY <1>2, <1>3, <1>4, BesideStep DEF IInv

\* A cancel deletes no files that the worker has locked.
LEMMA CancelDiscardsStep == ASSUME IInv, NEW a \in Artifacts, CancelDiscards(a) PROVE IInv'
<1>0. /\ w \in Worker /\ w' \in {Awake(waiting), w} /\ marks \in Seq(Artifacts)
      /\ caller' = [caller EXCEPT ![a] = "none"]
      /\ UNCHANGED <<ready, job, waiting, want, turn, asks, crashes>>
  BY DEF IInv, Types, CancelDiscards, counts
<1>1. w' \in Worker /\ (w' = w \/ (w.at \in {"off", "asleep"} /\ w'.at = "loop"))
  BY <1>0, AwakeFields
<1>2. /\ marks' \in Seq(Artifacts)
      /\ Locked(a) => marks' = marks
      /\ \A b \in Artifacts : b # a /\ b \in Range(marks) => b \in Range(marks')
  BY <1>0, WithoutRange DEF CancelDiscards, DiscardPartials
<1>3. Types'
  BY <1>0, <1>1, <1>2 DEF IInv, Types
<1>4. Beside
  BY <1>0, <1>1, <1>2 DEF IInv, BaseFits, ArtifactAt, Beside, IsWaiting, Locked
<1>5. NotForgotten'
  BY <1>0, <1>1, KeptStep DEF Kept, Running, RunningAt, IsWaiting
<1> QED BY <1>3, <1>4, <1>5, BesideStep DEF IInv

\* queue_turn.
LEMMA QueueTurnStep == ASSUME IInv, NEW t \in Jobs, QueueTurn(t) PROVE IInv'
<1>0. /\ w \in Worker /\ w' = Awake(waiting')
      /\ turn' = [turn EXCEPT ![t] = "waits"]
      /\ turn \in [Jobs -> {"new", "waits", "stale", "turn", "over"}]
      /\ UNCHANGED <<ready, marks, job, caller, want, asks, crashes>>
  BY DEF IInv, Types, QueueTurn, counts, disk
<1>1. w' \in Worker /\ (w' = w \/ (w.at \in {"off", "asleep"} /\ w'.at = "loop"))
  BY <1>0, AwakeFields
<1>2. waiting' \in Seq(Artifacts \cup Jobs) /\ Range(waiting) \subseteq Range(waiting')
  BY AppendRange DEF IInv, Types, QueueTurn
<1>3. Types'
  BY <1>0, <1>1, <1>2 DEF IInv, Types
<1>4. Beside
  BY <1>0, <1>1, <1>2 DEF Beside, IsWaiting
<1>5. NotForgotten'
  BY <1>0, <1>1, <1>2, KeptStep DEF Kept, Running, RunningAt, IsWaiting
<1> QED BY <1>3, <1>4, <1>5, BesideStep DEF IInv

\* TurnWait::drop: only the ticket leaves the queue.
LEMMA DropWaitStep == ASSUME IInv, NEW t \in Jobs, DropWait(t) PROVE IInv'
<1>0. /\ UNCHANGED <<ready, marks, job, w, caller, want, asks, crashes>>
      /\ turn \in [Jobs -> {"new", "waits", "stale", "turn", "over"}]
      /\ turn' \in [Jobs -> {"new", "waits", "stale", "turn", "over"}]
      /\ \A u \in Jobs : turn'[u] = "turn" => turn[u] = "turn"
  BY DEF IInv, Types, DropWait, counts, disk
<1>1. /\ waiting' \in Seq(Artifacts \cup Jobs)
      /\ \A a \in Artifacts : a \in Range(waiting) => a \in Range(waiting')
  <2>1. Without(waiting, {t}) \in Seq(Artifacts \cup Jobs) /\ Range(Without(waiting, {t})) = Range(waiting) \ {t}
    BY WithoutRange DEF IInv, Types
  <2> QED BY <2>1, AcquisitionAssumption DEF IInv, Types, DropWait
<1>2. Types'
  BY <1>0, <1>1 DEF IInv, Types
<1>3. Beside
  BY <1>0, <1>1 DEF IInv, Types, Beside, IsWaiting
<1>4. NotForgotten'
  BY <1>0, <1>1, KeptStep DEF Kept, Running, IsWaiting
<1> QED BY <1>2, <1>3, <1>4, BesideStep DEF IInv

\* Turn::drop.
LEMMA DropTurnStep == ASSUME IInv, NEW t \in Jobs, DropTurn(t) PROVE IInv'
<1>0. /\ UNCHANGED <<ready, marks, job, waiting, w, caller, want, asks, crashes>>
      /\ turn' = [turn EXCEPT ![t] = "over"]
      /\ turn \in [Jobs -> {"new", "waits", "stale", "turn", "over"}]
  BY DEF IInv, Types, DropTurn, counts, disk
<1>1. Types'
  BY <1>0 DEF IInv, Types
<1>2. Beside
  BY <1>0 DEF IInv, Types, Beside, IsWaiting
<1>3. NotForgotten'
  BY <1>0, KeptStep DEF Kept, Running, IsWaiting
<1> QED BY <1>1, <1>2, <1>3, BesideStep DEF IInv

\* cancel: of a running job, which is not unpacking, or of another.
LEMMA CancelStep == ASSUME IInv, NEW a \in Artifacts, Cancel(a) PROVE IInv'
<1>0. /\ w \in Worker /\ job[a] # "Unpacking"
      /\ want' = [want EXCEPT ![a] = "cancelled"]
      /\ want \in [Artifacts -> {"none", "asked", "cancelled"}]
      /\ job \in [Artifacts -> States]
      /\ caller \in [Artifacts -> {"none", "running", "idle"}]
      /\ UNCHANGED <<ready, marks, turn, asks, crashes>>
  BY DEF IInv, Types, Cancel, counts, disk, States
<1>1. waiting' \in Seq(Artifacts \cup Jobs) /\ Range(waiting') = Range(waiting) \ {a}
  BY WithoutRange DEF IInv, Types, Cancel
<1>2. CASE Running(a) /\ w' = [w EXCEPT !.stop = "Cancel"]
           /\ caller' = [caller EXCEPT ![a] = "running"] /\ job' = job
  <2>1. /\ w' \in Worker /\ w'.at = w.at /\ w'.base = w.base /\ w'.stop = "Cancel"
        /\ w'.stopped = w.stopped /\ w'.result = w.result
    BY <1>0, <1>2 DEF Worker, Stops
  <2>2. w.base = a /\ w.at \in RunningAt
    BY <1>2 DEF Running
  <2>3. Types'
    BY <1>0, <1>1, <1>2, <2>1 DEF IInv, Types
  <2>4. BaseFits' /\ Told'
    BY <2>1 DEF IInv, BaseFits, Told
  <2>5. OneAtATime' /\ WriterKeepsFiles'
    BY <1>0, <2>1 DEF IInv, WorkIsExclusive, OneAtATime, WriterKeepsFiles, Marked
  <2>6. StopIsNotLost' /\ Announced'
    BY <1>0, <1>2, <2>1, <2>2 DEF IInv, Announced, StopIsNotLost
  <2>7. PausedWaits' /\ FallsInLine'
    BY <1>0, <2>1, <2>2 DEF PausedWaits, FallsInLine
  <2>8. NotForgotten'
    <3>1. ASSUME NEW b \in Artifacts, b # a PROVE Kept(b)
      BY <1>0, <1>1, <1>2, <2>1, <3>1 DEF Kept, Running, IsWaiting
    <3>2. want'[a] # "asked"
      BY <1>0
    <3> QED BY <3>1, <3>2, KeptStep
  <2> QED BY <2>3, <2>4, <2>5, <2>6, <2>7, <2>8 DEF IInv, WorkIsExclusive
<1>3. CASE ~Running(a) /\ caller' = [caller EXCEPT ![a] = "idle"] /\ w' = w
           /\ job' = [job EXCEPT ![a] = IF @ = "Queued" THEN "Missing" ELSE @]
  <2>1. /\ job' \in [Artifacts -> States]
        /\ \A b \in Artifacts : b # a => job'[b] = job[b]
    BY <1>0, <1>3 DEF States
  <2>2. Types'
    BY <1>0, <1>1, <1>3, <2>1 DEF IInv, Types, States
  <2>3. Beside
    <3>1. w.at \in RunningAt => w.base # a
      BY <1>3 DEF Running
    <3>2. w.at \in LockedAt => w.at \in RunningAt /\ w.base \in Artifacts
      BY DEF IInv, BaseFits, ArtifactAt, LockedAt, RunningAt
    <3> QED BY <1>0, <1>1, <1>3, <2>1, <3>1, <3>2 DEF Beside
  <2>4. NotForgotten'
    <3>1. ASSUME NEW b \in Artifacts, b # a PROVE Kept(b)
      BY <1>0, <1>1, <1>3, <2>1, <3>1 DEF Kept, Running, IsWaiting
    <3>2. want'[a] # "asked"
      BY <1>0
    <3> QED BY <3>1, <3>2, KeptStep
  <2> QED BY <2>2, <2>3, <2>4, BesideStep DEF IInv
<1> QED BY <1>2, <1>3 DEF Cancel

\* The worker takes the front of the queue: it leaves the queue and runs.
LEMMA TakeStep == ASSUME IInv, Take PROVE IInv'
<1>0. /\ w.at = "loop" /\ waiting \in Seq(Artifacts \cup Jobs) /\ job \in [Artifacts -> States]
      /\ UNCHANGED <<ready, marks, caller, turn, want, asks, crashes>>
  BY DEF IInv, Types, Take, counts, disk, States
<1>t. \A t \in Jobs : turn[t] # "turn"
  BY <1>0 DEF IInv, WorkIsExclusive, OneAtATime
<1>1. CASE w' = Off /\ UNCHANGED <<job, waiting>>
  <2>1. w' \in Worker /\ w'.at = "off"
    BY <1>1 DEF Off, Worker, Stops, Results
  <2>2. Types'
    BY <1>0, <1>1, <2>1 DEF IInv, Types
  <2>3. OneAtATime'
    BY <1>0, <1>t DEF OneAtATime
  <2>4. NotForgotten'
    BY <1>0, <1>1, KeptStep DEF Kept, Running, RunningAt, IsWaiting
  <2> QED BY <2>1, <2>2, <2>3, <2>4, BetweenJobs DEF IInv, WorkIsExclusive
<1>2. CASE /\ waiting # <<>>
           /\ waiting' = Tail(waiting)
           /\ w' = [Off EXCEPT !.at = IF Head(waiting) \in Jobs THEN "ticket" ELSE "lock",
                               !.base = Head(waiting)]
           /\ job' = [a \in Artifacts |-> IF a = Head(waiting) THEN "Downloading" ELSE job[a]]
  <2>1. PICK h : h = Head(waiting)
    OBVIOUS
  <2>2. /\ h \in Artifacts \cup Jobs /\ waiting' \in Seq(Artifacts \cup Jobs)
        /\ Range(waiting) = Range(waiting') \cup {h}
    BY <1>0, <1>2, <2>1, TailRange
  <2>3. /\ w' \in Worker /\ w'.at = (IF h \in Jobs THEN "ticket" ELSE "lock") /\ w'.base = h
        /\ w'.stop = "Run" /\ w'.stopped = "Run" /\ w'.result = "Ok"
    BY <1>2, <2>1, <2>2 DEF Off, Worker, Stops, Results, RunningAt
  <2>4. job' \in [Artifacts -> States] /\ \A a \in Artifacts : a # h => job'[a] = job[a]
    BY <1>0, <1>2, <2>1 DEF States
  <2>5. Types'
    BY <1>0, <2>2, <2>3, <2>4 DEF IInv, Types, States
  <2>6. BaseFits'
    BY <2>2, <2>3 DEF BaseFits, ArtifactAt, LockedAt
  <2>7. OneAtATime' /\ StopIsNotLost' /\ WriterKeepsFiles' /\ Announced' /\ Told'
    BY <1>0, <1>t, <2>3 DEF OneAtATime, StopIsNotLost, WriterKeepsFiles, Announced, Told
  <2>8. PausedWaits' /\ FallsInLine'
    BY <2>3 DEF PausedWaits, FallsInLine, Falls
  <2>9. NotForgotten'
    <3> SUFFICES ASSUME NEW a \in Artifacts, want[a] = "asked"
                 PROVE  a \in ready' \/ job'[a] = "Failed" \/ Running(a)' \/ IsWaiting(a)'
      BY <1>0 DEF NotForgotten
    <3>1. CASE a = h
      BY <2>3, <3>1, AcquisitionAssumption DEF Running, RunningAt
    <3>2. CASE a # h
      <4>1. a \in ready \/ job[a] = "Failed" \/ IsWaiting(a)
        BY <1>0 DEF IInv, NotForgotten, Running, RunningAt
      <4> QED BY <1>0, <2>2, <2>4, <3>2, <4>1 DEF IsWaiting
    <3> QED BY <3>1, <3>2
  <2> QED BY <2>5, <2>6, <2>7, <2>8, <2>9 DEF IInv, WorkIsExclusive
<1> QED BY <1>1, <1>2 DEF Take

\* The turn is handed over, or nobody takes it.
LEMMA GiveTurnStep == ASSUME IInv, GiveTurn PROVE IInv'
<1>0. /\ w \in Worker /\ w.at = "ticket" /\ w.base \in Jobs
      /\ turn \in [Jobs -> {"new", "waits", "stale", "turn", "over"}]
      /\ UNCHANGED <<ready, marks, job, waiting, caller, want, asks, crashes>>
  BY DEF IInv, Types, GiveTurn, counts, disk, BaseFits
<1>t. \A t \in Jobs : turn[t] # "turn"
  BY <1>0 DEF IInv, WorkIsExclusive, OneAtATime
<1>n. NotForgotten'
  BY <1>0, KeptStep DEF Kept, Running, RunningAt, IsWaiting
<1>1. CASE turn' = [turn EXCEPT ![w.base] = "turn"] /\ w' = [w EXCEPT !.at = "turn"]
  <2>1. /\ w' \in Worker /\ w'.at = "turn" /\ w'.base = w.base
        /\ w'.stop = w.stop /\ w'.stopped = w.stopped /\ w'.result = w.result
    BY <1>0, <1>1, AtFields DEF RunningAt
  <2>2. Types'
    BY <1>0, <1>1, <2>1 DEF IInv, Types
  <2>3. OneAtATime'
    BY <1>0, <1>1, <1>t, <2>1 DEF OneAtATime
  <2>4. BaseFits' /\ StopIsNotLost' /\ WriterKeepsFiles' /\ Announced' /\ Told'
    BY <1>0, <2>1 DEF BaseFits, ArtifactAt, LockedAt, StopIsNotLost, WriterKeepsFiles, Announced, Told
  <2>5. PausedWaits' /\ FallsInLine'
    <3>1. w'.base \notin Artifacts
      BY <1>0, <2>1, AcquisitionAssumption
    <3> QED BY <3>1 DEF PausedWaits, FallsInLine
  <2> QED BY <1>n, <2>2, <2>3, <2>4, <2>5 DEF IInv, WorkIsExclusive
<1>2. CASE turn' = [turn EXCEPT ![w.base] = "over"] /\ w' = [Off EXCEPT !.at = "loop"]
  <2>1. w' \in Worker /\ w'.at = "loop"
    BY <1>2, OffFields
  <2>2. Types' /\ OneAtATime'
    BY <1>0, <1>2, <1>t, <2>1 DEF IInv, Types, OneAtATime
  <2> QED BY <1>n, <2>1, <2>2, BetweenJobs DEF IInv, WorkIsExclusive
<1> QED BY <1>1, <1>2 DEF GiveTurn

\* The job with the turn is over.
LEMMA TurnOverStep == ASSUME IInv, TurnOver PROVE IInv'
<1>0. /\ w.at = "turn" /\ w.base \in Jobs /\ turn[w.base] = "over"
      /\ UNCHANGED <<ready, marks, job, waiting, caller, turn, want, asks, crashes>>
  BY DEF IInv, Types, TurnOver, counts, disk, BaseFits
<1>1. w' \in Worker /\ w'.at = "loop"
  BY OffFields DEF TurnOver
<1>2. Types'
  BY <1>0, <1>1 DEF IInv, Types
<1>3. OneAtATime'
  BY <1>0 DEF IInv, WorkIsExclusive, OneAtATime
<1>4. NotForgotten'
  <2>1. ASSUME NEW a \in Artifacts PROVE ~Running(a)
    BY <1>0, AcquisitionAssumption DEF Running
  <2> QED BY <1>0, <2>1, KeptStep DEF Kept, IsWaiting
<1> QED BY <1>1, <1>2, <1>3, <1>4, BetweenJobs DEF IInv, WorkIsExclusive

\* work reads the stop.
LEMMA ReadStopStep == ASSUME IInv, ReadStop PROVE IInv'
<1>0. /\ w \in Worker /\ w.at = "back"
      /\ UNCHANGED <<ready, marks, job, waiting, caller, turn, want, asks, crashes>>
  BY DEF IInv, Types, ReadStop, counts, disk
<1>1. /\ w' \in Worker /\ w'.at = "read" /\ w'.base = w.base
      /\ w'.stop = w.stop /\ w'.stopped = w.stop /\ w'.result = w.result
  BY <1>0 DEF ReadStop, Worker, RunningAt
<1>2. Types'
  BY <1>0, <1>1 DEF IInv, Types
<1>3. BaseFits' /\ OneAtATime' /\ StopIsNotLost' /\ WriterKeepsFiles' /\ Announced' /\ Told'
  BY <1>0, <1>1 DEF IInv, WorkIsExclusive, BaseFits, ArtifactAt, LockedAt, OneAtATime, StopIsNotLost,
                    WriterKeepsFiles, Announced, Told
<1>4. PausedWaits' /\ FallsInLine'
  BY <1>0, <1>1 DEF IInv, PausedWaits, FallsInLine, Falls, IsWaiting, RunningAt
<1>5. NotForgotten'
  BY <1>0, <1>1, KeptStep DEF Kept, Running, RunningAt, IsWaiting
<1> QED BY <1>2, <1>3, <1>4, <1>5 DEF IInv, WorkIsExclusive

\* The run ends: its artifact is ready, failed, in the queue, or not asked for.
LEMMA SettleStep == ASSUME IInv, Settle PROVE IInv'
<1>0. /\ w \in Worker /\ w.at = "read" /\ w.base \in Artifacts
      /\ job \in [Artifacts -> States] /\ job' = [job EXCEPT ![w.base] = Outcome]
      /\ caller \in [Artifacts -> {"none", "running", "idle"}]
      /\ w.result \in Results /\ w.stopped \in Stops
      /\ UNCHANGED <<ready, marks, waiting, turn, want, asks, crashes>>
  BY DEF IInv, Types, Worker, Settle, counts, disk, States, BaseFits, ArtifactAt
<1>1. Outcome \in States
  BY <1>0 DEF Outcome, States
<1>2. /\ job' \in [Artifacts -> States] /\ job'[w.base] = Outcome
      /\ \A a \in Artifacts : a # w.base => job'[a] = job[a]
  BY <1>0, <1>1
<1>3. OneAtATime'
  BY <1>0 DEF IInv, WorkIsExclusive, OneAtATime
<1>4. caller' \in [Artifacts -> {"none", "running", "idle"}]
  BY <1>0 DEF Settle, Done
<1>5. NotForgotten'
  <2> SUFFICES ASSUME NEW a \in Artifacts, want[a] = "asked"
               PROVE  a \in ready' \/ job'[a] = "Failed" \/ Running(a)' \/ IsWaiting(a)'
    BY <1>0 DEF NotForgotten
  <2>1. CASE a = w.base
    <3>1. Falls => IsWaiting(a)
      BY <1>0, <2>1 DEF IInv, FallsInLine, RunningAt
    <3>2. Falls \/ w.base \in ready \/ w.result = "Failed"
      BY <1>0 DEF IInv, Told, Falls, Results
    <3>3. w.result = "Failed" => job'[a] = "Failed"
      BY <1>2, <2>1 DEF Outcome
    <3> QED BY <1>0, <2>1, <3>1, <3>2, <3>3 DEF IsWaiting
  <2>2. CASE a # w.base
    <3>1. a \in ready \/ job[a] = "Failed" \/ IsWaiting(a)
      BY <2>2 DEF IInv, NotForgotten, Running
    <3> QED BY <1>0, <1>2, <2>2, <3>1 DEF IsWaiting
  <2> QED BY <2>1, <2>2
<1>6. CASE w' = [w EXCEPT !.at = "discard"]
  <2>1. w' \in Worker /\ w'.at = "discard" /\ w'.base = w.base
    BY <1>0, <1>6, AtFields
  <2>2. Types'
    BY <1>0, <1>2, <1>4, <2>1 DEF IInv, Types, States
  <2>3. BaseFits' /\ StopIsNotLost' /\ WriterKeepsFiles' /\ Announced' /\ Told' /\ PausedWaits' /\ FallsInLine'
    BY <1>0, <2>1 DEF BaseFits, ArtifactAt, LockedAt, StopIsNotLost, WriterKeepsFiles, Announced,
                      Told, PausedWaits, FallsInLine, RunningAt
  <2> QED BY <1>3, <1>5, <2>2, <2>3 DEF IInv, WorkIsExclusive
<1>7. CASE w' = [Off EXCEPT !.at = "loop"]
  <2>1. w' \in Worker /\ w'.at = "loop"
    BY <1>7, OffFields
  <2>2. Types'
    BY <1>0, <1>2, <1>4, <2>1 DEF IInv, Types, States
  <2> QED BY <1>3, <1>5, <2>1, <2>2, BetweenJobs DEF IInv, WorkIsExclusive
<1> QED BY <1>6, <1>7 DEF Settle

\* The worker deletes the files of a cancelled job.
LEMMA DiscardStep == ASSUME IInv, Discard PROVE IInv'
<1>0. /\ w.at = "discard" /\ marks \in Seq(Artifacts)
      /\ caller \in [Artifacts -> {"none", "running", "idle"}]
      /\ UNCHANGED <<ready, job, waiting, turn, want, asks, crashes>>
  BY DEF IInv, Types, Discard, counts
<1>1. w' \in Worker /\ w'.at = "loop"
  BY OffFields DEF Discard
<1>2. marks' \in Seq(Artifacts)
  BY <1>0, WithoutRange DEF Discard, DiscardPartials
<1>3. caller' \in [Artifacts -> {"none", "running", "idle"}]
  BY <1>0 DEF Discard, Done
<1>4. Types'
  BY <1>0, <1>1, <1>2, <1>3 DEF IInv, Types
<1>5. OneAtATime'
  BY <1>0 DEF IInv, WorkIsExclusive, OneAtATime
<1>6. NotForgotten'
  BY <1>0, KeptStep DEF Kept, Running, RunningAt, IsWaiting
<1> QED BY <1>1, <1>4, <1>5, <1>6, BetweenJobs DEF IInv, WorkIsExclusive

\* A launch puts what it names in front; nothing else leaves the queue.
LEMMA LaunchLineRange ==
    ASSUME IInv, NEW first \in Seq(Artifacts)
    PROVE  /\ LaunchLine(first) \in Seq(Artifacts \cup Jobs)
           /\ Range(waiting) \subseteq Range(LaunchLine(first))
           /\ \A a \in Range(first) : ~Running(a) => a \in Range(LaunchLine(first))
           /\ Pauses(first) => w.base \in Range(LaunchLine(first))
<1> DEFINE moved == Without(first, {a \in Artifacts : Running(a)})
           rest  == WithoutFirst(waiting, Range(moved))
           pause == Paused(first)
           All   == Artifacts \cup Jobs
<1>0. waiting \in Seq(All) /\ w \in Worker
  BY DEF IInv, Types
<1>1. moved \in Seq(Artifacts) /\ Range(moved) = Range(first) \ {a \in Artifacts : Running(a)}
  BY WithoutRange
<1>2. moved \in Seq(All)
  <2> HIDE DEF moved
  <2> QED BY <1>1, SeqMonotonic
<1>3. rest \in Seq(All) /\ Range(waiting) \ Range(moved) \subseteq Range(rest)
  <2> HIDE DEF moved
  <2> QED BY <1>0, WithoutFirstRange
<1>4. pause \in Seq(All) /\ (Pauses(first) => w.base \in Range(pause))
  <2>1. CASE Pauses(first)
    <3>1. pause = <<w.base>> /\ w.base \in All
      BY <2>1 DEF Paused, Pauses
    <3>2. <<w.base>> \in Seq(All) /\ w.base \in Range(<<w.base>>)
      BY <3>1 DEF Range
    <3> QED BY <3>1, <3>2
  <2>2. CASE ~Pauses(first)
    BY <2>2, EmptyRange DEF Paused
  <2> QED BY <2>1, <2>2
<1>5. LaunchLine(first) = moved \o pause \o rest
  BY DEF LaunchLine
<1>6. \A a \in Range(first) : a \in Artifacts
  BY RangeOfSeq
<1> HIDE DEF moved, rest, pause, All
<1>7. moved \o pause \in Seq(All) /\ Range(moved \o pause) = Range(moved) \cup Range(pause)
  BY <1>2, <1>4, ConcatRange
<1>8. /\ (moved \o pause) \o rest \in Seq(All)
      /\ Range((moved \o pause) \o rest) = Range(moved) \cup Range(pause) \cup Range(rest)
  <2> DEFINE front == moved \o pause
  <2>1. front \in Seq(All) /\ Range(front) = Range(moved) \cup Range(pause)
    BY <1>7
  <2> HIDE DEF front
  <2>2. front \o rest \in Seq(All) /\ Range(front \o rest) = Range(front) \cup Range(rest)
    BY <1>3, <2>1, ConcatRange
  <2> QED BY <2>1, <2>2 DEF front
<1> QED BY <1>1, <1>3, <1>4, <1>5, <1>6, <1>8 DEF All

\* enqueue, of start and download.
LEMMA EnqueueStep ==
    ASSUME IInv, NEW ids \in Routes, NEW front \in BOOLEAN, Enqueue(ids, front)
    PROVE  IInv'
<1> DEFINE asked == Without(ids, ready)
           new   == {a \in Range(asked) : ~Running(a) /\ ~IsWaiting(a)}
<1>0. /\ w \in Worker /\ waiting \in Seq(Artifacts \cup Jobs) /\ marks \in Seq(Artifacts)
      /\ job \in [Artifacts -> States] /\ want \in [Artifacts -> {"none", "asked", "cancelled"}]
      /\ asks' \in 0..MaxAsks
      /\ UNCHANGED <<ready, caller, turn, crashes>>
  BY AcquisitionAssumption DEF IInv, Types, Enqueue, States
<1>1. asked \in Seq(Artifacts) /\ Range(asked) \subseteq Artifacts
  <2>1. ids \in Seq(Artifacts)
    BY AcquisitionAssumption
  <2>2. asked \in Seq(Artifacts)
    BY <2>1, WithoutRange
  <2> QED BY <2>2, RangeOfSeq
<1>2. PICK bad \in SUBSET new :
        LET first  == Without(asked, bad)
            fresh  == Without(first, Artifacts \ new)
            launch == front /\ first # <<>>
            stop   == IF launch /\ Pauses(first) THEN "Pause" ELSE w.stop
        IN /\ waiting' = IF launch THEN LaunchLine(first)
                         ELSE IF front THEN waiting ELSE waiting \o fresh
           /\ marks' = marks \o Without(fresh, Range(marks))
           /\ job' = [a \in Artifacts |-> IF a \in bad THEN "Failed"
                                          ELSE IF a \in new THEN "Queued" ELSE job[a]]
           /\ w' = [Awake(waiting') EXCEPT !.stop = stop]
           /\ want' = [a \in Artifacts |->
                         IF a \in Range(first) /\ (a \in Range(waiting') \/ ~Ending(a))
                         THEN "asked" ELSE want[a]]
  BY DEF Enqueue
<1> DEFINE first  == Without(asked, bad)
           fresh  == Without(first, Artifacts \ new)
           launch == front /\ first # <<>>
           stop   == IF launch /\ Pauses(first) THEN "Pause" ELSE w.stop
<1>3. first \in Seq(Artifacts) /\ Range(first) = Range(asked) \ bad
  <2> HIDE DEF asked, new
  <2> QED BY <1>1, WithoutRange
<1>4. fresh \in Seq(Artifacts) /\ Range(fresh) = Range(first) \ (Artifacts \ new)
  <2> HIDE DEF first, new
  <2> QED BY <1>3, WithoutRange
<1>5. new \subseteq Artifacts /\ \A a \in new : ~Running(a) /\ ~IsWaiting(a)
  BY <1>1
<1>6. /\ waiting' = IF launch THEN LaunchLine(first) ELSE IF front THEN waiting ELSE waiting \o fresh
      /\ marks' = marks \o Without(fresh, Range(marks))
      /\ job' = [a \in Artifacts |-> IF a \in bad THEN "Failed"
                                     ELSE IF a \in new THEN "Queued" ELSE job[a]]
      /\ w' = [Awake(waiting') EXCEPT !.stop = stop]
      /\ want' = [a \in Artifacts |->
                    IF a \in Range(first) /\ (a \in Range(waiting') \/ ~Ending(a))
                    THEN "asked" ELSE want[a]]
  BY <1>2
<1>n. \A a \in Range(first) : a \in new \/ Running(a) \/ IsWaiting(a)
  BY <1>3
<1> HIDE DEF asked, new, first, fresh
\* The queue grows, by what is new.
<1>7. /\ waiting' \in Seq(Artifacts \cup Jobs)
      /\ Range(waiting) \subseteq Range(waiting')
      /\ \A a \in Range(first) : ~Running(a) => a \in Range(waiting')
      /\ launch /\ Pauses(first) => w.base \in Range(waiting')
  <2>1. CASE launch
    BY <1>3, <1>6, <2>1, LaunchLineRange
  <2>2. CASE ~launch /\ front
    <3>1. Range(first) = {}
      BY <2>2, EmptyRange
    <3> QED BY <1>0, <1>6, <2>2, <3>1
  <2>3. CASE ~launch /\ ~front
    <3>1. fresh \in Seq(Artifacts \cup Jobs)
      BY <1>4, SeqMonotonic
    <3>2. /\ waiting \o fresh \in Seq(Artifacts \cup Jobs)
          /\ Range(waiting \o fresh) = Range(waiting) \cup Range(fresh)
      BY <1>0, <3>1, ConcatRange
    <3>3. waiting' = waiting \o fresh
      BY <1>6, <2>3
    <3>4. \A a \in Range(first) : ~Running(a) => a \in Range(waiting \o fresh)
      BY <1>n, <1>4, <1>5, <3>2 DEF IsWaiting
    <3> QED BY <2>3, <3>2, <3>3, <3>4
  <2> QED BY <2>1, <2>2, <2>3
<1>8. marks' \in Seq(Artifacts) /\ Range(marks) \subseteq Range(marks')
  <2>1. Without(fresh, Range(marks)) \in Seq(Artifacts)
    BY <1>4, WithoutRange
  <2> QED BY <1>0, <1>6, <2>1, ConcatRange
<1>9. /\ job' \in [Artifacts -> States]
      /\ \A a \in Artifacts : Running(a) \/ IsWaiting(a) => job'[a] = job[a]
      /\ \A a \in Artifacts : job[a] = "Failed" => job'[a] = "Failed" \/ (a \in new /\ a \notin bad)
  BY <1>0, <1>2, <1>5, <1>6 DEF States
<1>10. stop \in Stops
  BY <1>0 DEF Worker, Stops
<1> HIDE DEF launch
<1>11. /\ w' \in Worker
       /\ \/ w.at \in {"off", "asleep"} /\ w'.at = "loop"
          \/ /\ w'.at = w.at /\ w'.base = w.base /\ w'.stop = stop
             /\ w'.stopped = w.stopped /\ w'.result = w.result
  <2> HIDE DEF stop
  <2>1. CASE w.at \in {"off", "asleep"} /\ waiting' # <<>>
    <3>1. w' = [[Off EXCEPT !.at = "loop"] EXCEPT !.stop = stop]
      BY <1>6, <2>1 DEF Awake
    <3> QED BY <1>10, <2>1, <3>1 DEF Off, Worker, Stops, Results
  <2>2. CASE ~(w.at \in {"off", "asleep"} /\ waiting' # <<>>)
    <3>1. w' = [w EXCEPT !.stop = stop]
      BY <1>6, <2>2 DEF Awake
    <3> QED BY <1>0, <1>10, <3>1 DEF Worker
  <2> QED BY <2>1, <2>2
<1>12. Types'
  <2>1. want' \in [Artifacts -> {"none", "asked", "cancelled"}]
    BY <1>0, <1>6
  <2> QED BY <1>0, <1>7, <1>8, <1>9, <1>11, <2>1 DEF IInv, Types, States
<1>13. OneAtATime'
  BY <1>0, <1>11 DEF IInv, WorkIsExclusive, OneAtATime
\* What was asked for is in the queue, or runs and is not about to end.
<1>14. NotForgotten'
  <2> SUFFICES ASSUME NEW a \in Artifacts, want'[a] = "asked"
               PROVE  a \in ready' \/ job'[a] = "Failed" \/ Running(a)' \/ IsWaiting(a)'
    BY DEF NotForgotten
  <2>1. Running(a) => Running(a)'
    BY <1>11 DEF Running, RunningAt
  <2>2. CASE a \in Range(first)
    BY <1>7, <2>1, <2>2 DEF IsWaiting
  <2>3. CASE a \notin Range(first)
    <3>1. want[a] = "asked"
      BY <1>6, <2>3
    <3>2. a \in ready \/ job[a] = "Failed" \/ Running(a) \/ IsWaiting(a)
      BY <3>1 DEF IInv, NotForgotten
    <3>3. a \in new => a \in bad
      BY <1>3, <2>3 DEF new
    <3> QED BY <1>0, <1>7, <1>9, <2>1, <3>2, <3>3 DEF IsWaiting
  <2> QED BY <2>2, <2>3
<1>15. CASE w'.at = "loop" /\ w.at \in {"off", "asleep"}
  BY <1>12, <1>13, <1>14, <1>15, BetweenJobs DEF IInv, WorkIsExclusive
<1>16. CASE /\ w'.at = w.at /\ w'.base = w.base /\ w'.stop = stop
            /\ w'.stopped = w.stopped /\ w'.result = w.result
  <2>1. w.at \in RunningAt /\ w.base \in Artifacts => job'[w.base] = job[w.base]
    BY <1>9 DEF Running
  <2>2. stop = w.stop \/ (/\ stop = "Pause" /\ w.base \in Range(waiting')
                          /\ w.at \in RunningAt /\ job[w.base] = "Downloading"
                          /\ w.base \notin Range(first))
    BY <1>7 DEF Pauses
  <2> HIDE DEF stop
  <2>3. w.at \in {"unpack", "tidy"} => w.at \in RunningAt /\ w.base \in Artifacts
    BY DEF IInv, BaseFits, ArtifactAt, LockedAt, RunningAt
  <2>4. BaseFits'
    BY <1>16 DEF IInv, BaseFits
  <2>5. StopIsNotLost' /\ Announced'
    BY <1>0, <1>16, <2>1, <2>2, <2>3 DEF IInv, WorkIsExclusive, StopIsNotLost, Announced
  <2>6. WriterKeepsFiles'
    BY <1>8, <1>16 DEF IInv, WorkIsExclusive, WriterKeepsFiles, Marked
  <2>7. Told'
    BY <1>16, <2>2 DEF IInv, Told
  <2>8. PausedWaits'
    BY <1>7, <1>16, <2>2 DEF IInv, PausedWaits, IsWaiting
  <2>9. FallsInLine'
    <3> SUFFICES ASSUME w.at \in RunningAt, w.base \in Artifacts, Falls', w.base \notin Range(waiting'),
                        want'[w.base] = "asked"
                 PROVE  FALSE
      BY <1>16 DEF FallsInLine, IsWaiting
    <3>1. stop = w.stop /\ Falls
      BY <1>0, <1>16, <2>2 DEF Falls
    <3>2. w.base \notin Range(waiting)
      BY <1>7
    <3>3. want[w.base] # "asked"
      BY <3>1, <3>2 DEF IInv, FallsInLine, IsWaiting
    <3>4. ~Ending(w.base)
      BY <1>6, <3>3
    <3>5. w.stop # "Cancel" /\ w.at \notin {"back", "read"}
      BY <3>4 DEF Ending, Running
    <3>6. w.stop = "Pause"
      BY <1>0, <3>1, <3>5 DEF Falls, Worker, Stops
    <3> QED BY <3>2, <3>6 DEF IInv, PausedWaits, IsWaiting
  <2> QED BY <1>12, <1>13, <1>14, <2>4, <2>5, <2>6, <2>7, <2>8, <2>9 DEF IInv, WorkIsExclusive
<1> QED BY <1>11, <1>15, <1>16

\* recover_artifacts.
LEMMA RestartStep == ASSUME IInv, Restart PROVE IInv'
<1>0. /\ crashes' \in 0..MaxCrashes /\ UNCHANGED <<ready, asks>>
      /\ job' = [a \in Artifacts |-> IF a \in Range(waiting') THEN "Queued" ELSE "Missing"]
      /\ want' = [a \in Artifacts |-> IF a \in Range(waiting') THEN "asked" ELSE "none"]
      /\ caller' = [a \in Artifacts |-> "none"]
      /\ turn' = [t \in Jobs |-> IF turn[t] = "new" THEN "new" ELSE "over"]
  BY AcquisitionAssumption DEF IInv, Types, Restart
<1>1. waiting' \in Seq(Artifacts \cup Jobs) /\ marks' \in Seq(Artifacts)
  <2>1. PICK seen \in SUBSET Range(marks) :
          /\ waiting' = Without(marks, ready \cup (Artifacts \ seen))
          /\ marks' = Without(marks, seen \cap ready)
    BY DEF Restart
  <2>2. waiting' \in Seq(Artifacts) /\ marks' \in Seq(Artifacts)
    BY <2>1, WithoutRange DEF IInv, Types
  <2> QED BY <2>2, SeqMonotonic
<1>2. PICK x \in {"loop", "asleep"} : w' = [Off EXCEPT !.at = x]
  BY DEF Restart
<1>3. w' \in Worker /\ w'.at \in {"loop", "asleep"}
  BY <1>2, OffFields
<1>4. Types'
  BY <1>0, <1>1, <1>3 DEF IInv, Types
<1>5. OneAtATime' /\ NotForgotten'
  BY <1>0 DEF OneAtATime, NotForgotten, IsWaiting
<1> QED BY <1>3, <1>4, <1>5, BetweenJobs DEF IInv, WorkIsExclusive

\* The inductive invariant, of every request, every step of the worker and every
\* restart.
THEOREM Inductive == Spec => []IInv
<1>1. Init => IInv
  <2> SUFFICES ASSUME Init PROVE IInv
    OBVIOUS
  <2>1. Types
    <3>1. w \in Worker /\ marks \in Seq(Artifacts) /\ waiting \in Seq(Artifacts \cup Jobs)
      BY EmptyRange DEF Init, Off, Worker, Stops, Results
    <3> QED BY <3>1, AcquisitionAssumption DEF Types, Init
  <2>2. BaseFits /\ WorkIsExclusive /\ Announced /\ Told /\ PausedWaits /\ FallsInLine /\ NotForgotten
    BY DEF Init, Off, BaseFits, ArtifactAt, LockedAt, RunningAt, WorkIsExclusive, OneAtATime, StopIsNotLost,
           WriterKeepsFiles, Announced, Told, PausedWaits, FallsInLine, NotForgotten
  <2> QED BY <2>1, <2>2 DEF IInv
<1>2. IInv /\ [Next]_vars => IInv'
  <2> SUFFICES ASSUME IInv, [Next]_vars PROVE IInv'
    OBVIOUS
  <2>1. CASE Request
    BY <2>1, EnqueueStep, CancelStep, RemoveDownloadStep, QueueTurnStep, DropWaitStep, StatusStep DEF Request
  <2>2. CASE Work
    BY <2>2, TakeStep, GiveTurnStep, TurnOverStep, TakeLockStep, ReclaimStep, FetchStep, PublishStep,
       TidyStep, ReadStopStep, SettleStep, DiscardStep DEF Work
  <2>3. CASE \E a \in Artifacts : CancelDiscards(a)
    BY <2>3, CancelDiscardsStep
  <2>4. CASE \E t \in Jobs : DropTurn(t)
    BY <2>4, DropTurnStep
  <2>5. CASE Restart
    BY <2>5, RestartStep
  <2>6. CASE UNCHANGED vars
    <3>1. Types' /\ BaseFits' /\ Announced' /\ Told'
      BY <2>6 DEF IInv, vars, Types, BaseFits, Announced, Told
    <3>2. WorkIsExclusive'
      BY <2>6 DEF IInv, vars, WorkIsExclusive, OneAtATime, StopIsNotLost, WriterKeepsFiles, Marked
    <3>3. PausedWaits' /\ FallsInLine' /\ NotForgotten'
      BY <2>6 DEF IInv, vars, PausedWaits, FallsInLine, Falls, NotForgotten, IsWaiting, Running
    <3> QED BY <3>1, <3>2, <3>3 DEF IInv
  <2> QED BY <2>1, <2>2, <2>3, <2>4, <2>5, <2>6 DEF Next
<1> QED BY <1>1, <1>2, PTL DEF Spec

\* A step that starts no run and ends none shows none.
LEMMA ShownKept ==
    ASSUME ShownIsRunning,
           \A a \in Artifacts : job'[a] \in {"Downloading", "Unpacking"}
                                  => job[a] \in {"Downloading", "Unpacking"},
           \A a \in Artifacts : Running(a) => Running(a)'
    PROVE  ShownIsRunning'
BY DEF ShownIsRunning

\* Requests: a job that they queue, fail or cancel is not running.
LEMMA ShownBeside ==
    ASSUME IInv, ShownIsRunning, Request \/ \E a \in Artifacts : CancelDiscards(a)
    PROVE  ShownIsRunning'
<1>0. w \in Worker /\ job \in [Artifacts -> States]
  BY DEF IInv, Types, States
<1>1. ASSUME NEW line, NEW stop, w' = [Awake(line) EXCEPT !.stop = stop], NEW a \in Artifacts, Running(a)
      PROVE  Running(a)'
  <2>1. Awake(line) = w
    BY <1>1 DEF Awake, Running, RunningAt
  <2> QED BY <1>0, <1>1, <2>1 DEF Running, Worker
<1>2. ASSUME NEW line, w' \in {Awake(line), w}, NEW a \in Artifacts, Running(a) PROVE Running(a)'
  BY <1>2 DEF Awake, Running, RunningAt
<1>3. CASE \E ids \in Routes, front \in BOOLEAN : Enqueue(ids, front)
  <2>1. PICK ids \in Routes, front \in BOOLEAN : Enqueue(ids, front)
    BY <1>3
  <2> DEFINE asked == Without(ids, ready)
             new   == {a \in Range(asked) : ~Running(a) /\ ~IsWaiting(a)}
  <2>2. PICK bad \in SUBSET new :
          LET first == Without(asked, bad)
              stop  == IF front /\ first # <<>> /\ Pauses(first) THEN "Pause" ELSE w.stop
          IN  /\ job' = [a \in Artifacts |-> IF a \in bad THEN "Failed"
                                             ELSE IF a \in new THEN "Queued" ELSE job[a]]
              /\ w' = [Awake(waiting') EXCEPT !.stop = stop]
    BY <2>1 DEF Enqueue
  <2>3. \A a \in Artifacts : Running(a) => Running(a)'
    BY <1>1, <2>2
  <2> HIDE DEF new
  <2> QED BY <2>2, <2>3, ShownKept
<1>4. CASE \E a \in Artifacts : Cancel(a)
  <2>1. PICK a \in Artifacts : Cancel(a)
    BY <1>4
  <2>2. \A b \in Artifacts : Running(b) => Running(b)'
    BY <1>0, <2>1 DEF Cancel, Running, Worker
  <2>3. \A b \in Artifacts : job'[b] \in {"Downloading", "Unpacking"} => job[b] \in {"Downloading", "Unpacking"}
    BY <1>0, <2>1 DEF Cancel
  <2> QED BY <2>2, <2>3, ShownKept
<1>5. CASE \E a \in Artifacts : RemoveDownload(a) \/ CancelDiscards(a)
  <2>1. job' = job /\ w' \in {Awake(waiting), w}
    BY <1>5 DEF RemoveDownload, CancelDiscards
  <2> QED BY <1>2, <2>1, ShownKept
<1>6. CASE Status \/ \E t \in Jobs : QueueTurn(t) \/ DropWait(t)
  <2>1. job' = job /\ \E line : w' \in {Awake(line), w}
    BY <1>6 DEF Status, QueueTurn, DropWait
  <2> QED BY <1>2, <2>1, ShownKept
<1> QED BY <1>3, <1>4, <1>5, <1>6 DEF Request

\* work and acquire: the run gives its job another state when it ends.
LEMMA ShownWork == ASSUME IInv, ShownIsRunning, Work PROVE ShownIsRunning'
<1>0. w \in Worker /\ job \in [Artifacts -> States]
  BY DEF IInv, Types, States
<1>1. CASE TakeLock \/ Reclaim \/ Publish \/ Tidy \/ ReadStop
  <2>1. job' = job /\ w'.base = w.base /\ w'.at \in RunningAt
    BY <1>0, <1>1 DEF TakeLock, Reclaim, Publish, Tidy, ReadStop, Return, Worker, RunningAt
  <2> QED BY <2>1, ShownKept DEF Running
<1>2. CASE Fetch
  <2>1. w'.base = w.base /\ w'.at \in RunningAt /\ w.base \in Artifacts
    BY <1>0, <1>2 DEF IInv, BaseFits, ArtifactAt, LockedAt, Fetch, Return, Worker, RunningAt
  <2>2. \A a \in Artifacts : a # w.base => job'[a] = job[a]
    BY <1>0, <1>2 DEF Fetch
  <2> QED BY <2>1, <2>2 DEF ShownIsRunning, Running
<1>3. CASE Take
  <2>1. \A a \in Artifacts : job[a] \notin {"Downloading", "Unpacking"}
    BY <1>3 DEF Take, ShownIsRunning, Running, RunningAt
  <2>2. CASE UNCHANGED job
    BY <2>1, <2>2 DEF ShownIsRunning
  <2>3. CASE /\ waiting # <<>>
             /\ w' = [Off EXCEPT !.at = IF Head(waiting) \in Jobs THEN "ticket" ELSE "lock",
                                 !.base = Head(waiting)]
             /\ job' = [a \in Artifacts |-> IF a = Head(waiting) THEN "Downloading" ELSE job[a]]
    <3>1. \A a \in Artifacts : a = Head(waiting) => w'.at = "lock" /\ w'.base = a
      BY <2>3, AcquisitionAssumption DEF Off
    <3> QED BY <2>1, <2>3, <3>1 DEF ShownIsRunning, Running, RunningAt
  <2> QED BY <1>3, <2>2, <2>3 DEF Take
<1>4. CASE GiveTurn \/ TurnOver
  <2>1. job' = job /\ w.base \in Jobs
    BY <1>4 DEF GiveTurn, TurnOver, IInv, BaseFits
  <2>2. \A a \in Artifacts : ~Running(a)
    BY <2>1, AcquisitionAssumption DEF Running
  <2> QED BY <2>1, <2>2, ShownKept
<1>5. CASE Settle
  <2>1. w.base \in Artifacts /\ job' = [job EXCEPT ![w.base] = Outcome]
    BY <1>5 DEF Settle, IInv, BaseFits, ArtifactAt
  <2>2. Outcome \in {"Ready", "Failed", "Queued", "Missing"}
    BY DEF Outcome
  <2>3. job'[w.base] = Outcome /\ \A a \in Artifacts : a # w.base => job'[a] = job[a]
    BY <1>0, <2>1
  <2> QED BY <2>2, <2>3 DEF ShownIsRunning, Running
<1>6. CASE Discard
  BY <1>6, ShownKept DEF Discard, Running, RunningAt
<1> QED BY <1>1, <1>2, <1>3, <1>4, <1>5, <1>6 DEF Work

\* The fields of the queue keep their types (Queue, Running, TurnWait), and no job
\* is shown as downloading or unpacking when its run is over.
THEOREM TypeCorrect == Spec => []TypeOK
<1>1. Init => ShownIsRunning
  BY DEF Init, ShownIsRunning
<1>2. IInv /\ ShownIsRunning /\ [Next]_vars => ShownIsRunning'
  <2> SUFFICES ASSUME IInv, ShownIsRunning, [Next]_vars PROVE ShownIsRunning'
    OBVIOUS
  <2>1. CASE Request \/ \E a \in Artifacts : CancelDiscards(a)
    BY <2>1, ShownBeside
  <2>2. CASE Work
    BY <2>2, ShownWork
  <2>3. CASE \E t \in Jobs : DropTurn(t)
    BY <2>3, ShownKept DEF DropTurn, Running
  <2>4. CASE Restart
    BY <2>4 DEF Restart, ShownIsRunning
  <2>5. CASE UNCHANGED vars
    BY <2>5, ShownKept DEF vars, Running
  <2> QED BY <2>1, <2>2, <2>3, <2>4, <2>5 DEF Next
<1>3. IInv /\ ShownIsRunning => TypeOK
  BY DEF IInv, TypeOK
<1> QED BY <1>1, <1>2, <1>3, Inductive, PTL DEF Spec

\* work, cancel and discard_partials: a provider job has its turn alone, nothing
\* that was told to stop is unpacked, and no request deletes the files of the run.
THEOREM ExclusiveWork == Spec => []WorkIsExclusive
<1>1. IInv => WorkIsExclusive BY DEF IInv
<1> QED BY <1>1, Inductive, PTL

\* enqueue, cancel and work: a download that was accepted and not cancelled is
\* ready, is reported as failed, runs or waits, whatever comes between.
THEOREM NothingForgotten == Spec => []NotForgotten
<1>1. IInv => NotForgotten BY DEF IInv
<1> QED BY <1>1, Inductive, PTL

==============================================================================
