-------------------------- MODULE HostSessionProofs --------------------------
(***************************************************************************)
(* Proofs about HostSession for any launches, callers, games and clients,  *)
(* and any number of failing calls and crashes.                            *)
(***************************************************************************)
EXTENDS HostSession, TLAPS

-----------------------------------------------------------------------------
(* What holds of a host whenever the lock is released *)

\* Recovery has not resolved yet.
Unknown == {"RecoveryPending", "RecoveryBlocked"}

\* The parts of a host that only the host itself is about.
HostOK(h) ==
    /\ h \in Host
    /\ h.journal = Nobody <=> h.journalPhase = "none"
    /\ h.launch = Nobody <=> h.kind \in {"NoActive"} \cup Unknown
    /\ \A l \in LiveIds(h) : h.journal = l /\ h.journalPhase = "running"
    /\ h.seat # Nobody => h.seat = h.journal
    /\ h.lease # Nobody => h.unit[h.lease] # "absent"
    /\ h.kind \in {"Live", "Stopping"} => h.unit[h.launch] # "absent"
    /\ h.kind \in {"Completed", "Failed"} => h.unit[h.launch] = "gone"

\* A live unit and a lease that can feed a game are those of the session.
Tracked(h) ==
    /\ \A l \in LiveIds(h) :
          h.kind \in Unknown \/ (h.kind \in {"Live", "Stopping"} /\ h.launch = l)
    /\ h.lease # Nobody /\ h.lease = h.seat =>
          h.kind \in Unknown \/ (h.kind \in {"Live", "Stopping"} /\ h.launch = h.lease)

\* r has the units of h, except that failed ones may have been released.
SameUnits(h, r) ==
    \A l \in Launch : r.unit[l] = h.unit[l] \/ (h.unit[l] = "failed" /\ r.unit[l] = "gone")

-----------------------------------------------------------------------------
(* The helpers *)

\* r is the host with these fields, however many calls have failed.
Is(r, kind, launch, journal, journalPhase, unit, lease, seat) ==
    /\ r \in Host
    /\ r.kind = kind /\ r.launch = launch
    /\ r.journal = journal /\ r.journalPhase = journalPhase
    /\ r.unit = unit /\ r.lease = lease /\ r.seat = seat

\* The fields of a host.
LEMMA HostFields ==
  ASSUME NEW h \in Host
  PROVE  /\ h.kind \in Kind /\ h.launch \in Maybe /\ h.journal \in Maybe
         /\ h.journalPhase \in {"none", "running", "pending"}
         /\ h.unit \in [Launch -> {"absent", "running", "stopping", "failed", "gone"}]
         /\ h.lease \in Maybe /\ h.seat \in Maybe /\ h.faults \in 0..MaxFaults
  BY DEF Host

\* A new session state.
LEMMA SetIs ==
  ASSUME NEW h \in Host, NEW k \in Kind, NEW l \in Maybe
  PROVE  Is(Set(h, k, l), k, l, h.journal, h.journalPhase, h.unit, h.lease, h.seat)
  BY DEF Is, Set, Host

\* A blocked session keeps everything but its state.
LEMMA BlockIs ==
  ASSUME NEW h \in Host
  PROVE  Is(Block(h), "RecoveryBlocked", Nobody, h.journal, h.journalPhase, h.unit,
            h.lease, h.seat)
  BY SetIs DEF Block, Maybe, Kind

\* A failed call by itself changes nothing.
LEMMA FaultyIs ==
  ASSUME NEW h \in Host, NEW r \in Faulty(h)
  PROVE  Is(r, h.kind, h.launch, h.journal, h.journalPhase, h.unit, h.lease, h.seat)
<1> DEFINE n == h.faults + 1
<1>1. h.faults < MaxFaults /\ r = [h EXCEPT !.faults = n]
  BY DEF Faulty
<1>2. n \in 0..MaxFaults
  BY <1>1, HostConstants, HostFields
<1> HIDE DEF n
<1> QED
  BY <1>1, <1>2 DEF Is, Host

\* Another unit state.
LEMMA UnitIs ==
  ASSUME NEW h \in Host, NEW l \in Launch,
         NEW u \in {"absent", "running", "stopping", "failed", "gone"}
  PROVE  Is([h EXCEPT !.unit[l] = u], h.kind, h.launch, h.journal, h.journalPhase,
            [h.unit EXCEPT ![l] = u], h.lease, h.seat)
  BY DEF Is, Host

\* Another lease.
LEMMA LeaseIs ==
  ASSUME NEW h \in Host, NEW l \in Maybe
  PROVE  Is([h EXCEPT !.lease = l], h.kind, h.launch, h.journal, h.journalPhase, h.unit,
            l, h.seat)
  BY DEF Is, Host

\* Another reservation of the receiver.
LEMMA SeatIs ==
  ASSUME NEW h \in Host, NEW l \in Maybe
  PROVE  Is([h EXCEPT !.seat = l], h.kind, h.launch, h.journal, h.journalPhase, h.unit,
            h.lease, l)
  BY DEF Is, Host

\* A fence, or a temporary beside the journal, shows in no other field.
LEMMA MarkIs ==
  ASSUME NEW h \in Host, NEW b \in BOOLEAN
  PROVE  /\ Is([h EXCEPT !.fenced = b], h.kind, h.launch, h.journal, h.journalPhase, h.unit,
               h.lease, h.seat)
         /\ Is([h EXCEPT !.temp = b], h.kind, h.launch, h.journal, h.journalPhase, h.unit,
               h.lease, h.seat)
  BY DEF Is, Host

\* Another journal record, or another phase of it.
LEMMA JournalIs ==
  ASSUME NEW h \in Host, NEW l \in Maybe, NEW p \in {"none", "running", "pending"}
  PROVE  /\ Is([h EXCEPT !.journal = l, !.journalPhase = p], h.kind, h.launch, l, p, h.unit,
               h.lease, h.seat)
         /\ Is([h EXCEPT !.journalPhase = p], h.kind, h.launch, h.journal, p, h.unit,
               h.lease, h.seat)
  BY DEF Is, Host

\* Ending a session takes the reservation of the journaled launch, and clearing
\* it the record too.
LEMMA ClearedIs ==
  ASSUME NEW h \in Host
  PROVE  LET s == IF h.seat = h.journal THEN Nobody ELSE h.seat IN
         /\ Is(Ended(h), h.kind, h.launch, h.journal, h.journalPhase, h.unit, h.lease, s)
         /\ Is(Cleared(h), h.kind, h.launch, Nobody, "none", h.unit, h.lease, s)
<1> DEFINE s == IF h.seat = h.journal THEN Nobody ELSE h.seat
           e == Ended(h)
<1>1. e = [h EXCEPT !.seat = s] /\ s \in Maybe
  BY HostFields DEF Ended, Maybe
<1>2. Cleared(h) = [e EXCEPT !.journal = Nobody, !.journalPhase = "none"]
  BY DEF Cleared
<1> HIDE DEF s, e
<1>3. Is(e, h.kind, h.launch, h.journal, h.journalPhase, h.unit, h.lease, s)
  BY <1>1, SeatIs
<1>4. Is(Cleared(h), h.kind, h.launch, Nobody, "none", h.unit, h.lease, s)
  <2>1. e \in Host /\ Nobody \in Maybe
    BY <1>3 DEF Is, Maybe
  <2>2. Is(Cleared(h), e.kind, e.launch, Nobody, "none", e.unit, e.lease, e.seat)
    BY <1>2, <2>1, JournalIs
  <2> QED
    BY <1>3, <2>2 DEF Is
<1> QED
  BY <1>3, <1>4 DEF e, s

\* Completing or discarding a session with no live unit reaches the intended
\* state, or blocks, and leaves no input behind.
LEMMA CompleteOK ==
  ASSUME NEW h, HostOK(h), LiveIds(h) = {},
         NEW k \in {"NoActive", "Completed", "Failed"}, NEW l \in Maybe,
         IF k = "NoActive" THEN l = Nobody ELSE l \in Launch /\ h.unit[l] = "gone",
         NEW r \in CompleteTo(h, k, l)
  PROVE  /\ HostOK(r) /\ Tracked(r) /\ r.unit = h.unit
         /\ r.kind \in {k, "RecoveryBlocked"}
<1>1. h \in Host /\ Nobody \in Maybe /\ k \in Kind
  BY DEF HostOK, Maybe, Kind
<1>2. CASE r = Set(Cleared(h), k, l)
  <2>1. Is(r, k, l, Nobody, "none", h.unit, h.lease, Nobody)
    BY <1>1, <1>2, ClearedIs, SetIs DEF Is, HostOK
  <2> QED
    BY <1>1, <2>1, HostConstants DEF Is, HostOK, Tracked, LiveIds, Unknown, Maybe
<1>3. ASSUME NEW f \in Faulty(h), r \in {Block(f), Block(Ended(f))}
      PROVE  HostOK(r) /\ Tracked(r) /\ r.unit = h.unit /\ r.kind = "RecoveryBlocked"
  <2>1. \E s \in {h.seat, Nobody} :
          Is(r, "RecoveryBlocked", Nobody, h.journal, h.journalPhase, h.unit, h.lease, s)
    BY <1>1, <1>3, FaultyIs, ClearedIs, BlockIs DEF Is
  <2> QED
    BY <2>1 DEF Is, HostOK, Tracked, LiveIds, Unknown
<1>4. ASSUME NEW f \in Faulty(h), f.journal # Nobody,
             r = Block([Ended(f) EXCEPT !.journalPhase = "pending"])
      PROVE  HostOK(r) /\ Tracked(r) /\ r.unit = h.unit /\ r.kind = "RecoveryBlocked"
  <2>1. \E s \in {h.seat, Nobody} :
          Is(Ended(f), h.kind, h.launch, h.journal, h.journalPhase, h.unit, h.lease, s)
    BY <1>1, FaultyIs, ClearedIs DEF Is
  <2>2. \E s \in {h.seat, Nobody} :
          Is(r, "RecoveryBlocked", Nobody, h.journal, "pending", h.unit, h.lease, s)
    <3> DEFINE e == Ended(f)
               p == [e EXCEPT !.journalPhase = "pending"]
    <3>1. e \in Host
      BY <2>1 DEF Is
    <3>2. Is(p, e.kind, e.launch, e.journal, "pending", e.unit, e.lease, e.seat)
      <4> HIDE DEF e
      <4> QED
        BY <3>1, JournalIs
    <3>3. p \in Host
      BY <3>2 DEF Is
    <3>4. Is(r, "RecoveryBlocked", Nobody, p.journal, p.journalPhase, p.unit, p.lease, p.seat)
      BY <1>4, <3>3, BlockIs
    <3> QED
      BY <2>1, <3>2, <3>4 DEF Is
  <2>3. h.journal # Nobody
    BY <1>1, <1>4, FaultyIs DEF Is
  <2> QED
    BY <2>2, <2>3 DEF Is, HostOK, Tracked, LiveIds, Unknown
<1>5. CASE r = Block(h)
  <2>1. Is(r, "RecoveryBlocked", Nobody, h.journal, h.journalPhase, h.unit, h.lease, h.seat)
    BY <1>1, <1>5, BlockIs
  <2> QED
    BY <2>1 DEF Is, HostOK, Tracked, LiveIds, Unknown
<1> QED
  BY <1>2, <1>3, <1>4, <1>5 DEF CompleteTo, DiscardTo

\* Stopping the seats of a launch changes the lease only.
LEMMA StopSeatsOK ==
  ASSUME NEW h, HostOK(h), NEW l \in Launch, NEW r \in StopSeats(h, l)
  PROVE  /\ HostOK(r) /\ (Tracked(h) => Tracked(r))
         /\ \E e \in {h.lease, Nobody} :
              Is(r, h.kind, h.launch, h.journal, h.journalPhase, h.unit, e, h.seat)
<1>1. h \in Host /\ Nobody \in Maybe
  BY DEF HostOK, Maybe
<1>2. \E e \in {h.lease, Nobody} :
        Is(r, h.kind, h.launch, h.journal, h.journalPhase, h.unit, e, h.seat)
  <2>1. ASSUME NEW f \in Faulty(h), r \in {f, [f EXCEPT !.lease = Nobody]}
        PROVE  \E e \in {h.lease, Nobody} :
                 Is(r, h.kind, h.launch, h.journal, h.journalPhase, h.unit, e, h.seat)
    <3>1. Is(f, h.kind, h.launch, h.journal, h.journalPhase, h.unit, h.lease, h.seat)
      BY <1>1, FaultyIs
    <3>2. Is([f EXCEPT !.lease = Nobody], f.kind, f.launch, f.journal, f.journalPhase, f.unit,
             Nobody, f.seat)
      BY <1>1, <3>1, LeaseIs DEF Is
    <3> QED
      BY <2>1, <3>1, <3>2 DEF Is
  <2>2. CASE r = [h EXCEPT !.lease = Nobody]
    BY <1>1, <2>2, LeaseIs
  <2>3. CASE r = h
    BY <1>1, <2>3 DEF Is
  <2> QED
    BY <2>1, <2>2, <2>3 DEF StopSeats, StopSeatsOk, StopSeatsErr
<1> QED
  BY <1>2 DEF Is, HostOK, Tracked, LiveIds, Unknown

\* Blocking keeps everything but the session state.
LEMMA BlockOK ==
  ASSUME NEW h, HostOK(h)
  PROVE  HostOK(Block(h)) /\ Tracked(Block(h))
  BY BlockIs DEF HostOK, Is, Tracked, LiveIds, Unknown

\* A call that fails keeps everything.
LEMMA FaultyOK ==
  ASSUME NEW h, HostOK(h), NEW r \in Faulty(h)
  PROVE  HostOK(r) /\ (Tracked(h) => Tracked(r)) /\ r.unit = h.unit
         /\ r.kind = h.kind /\ r.launch = h.launch
  BY FaultyIs DEF HostOK, Is, Tracked, LiveIds, Unknown

\* A failed unit is released before its session is reported as failed.
LEMMA ClearFailedOK ==
  ASSUME NEW h, HostOK(h), NEW l \in Launch
  PROVE  LET r == ClearFailed(h, l) IN
         /\ HostOK(r) /\ SameUnits(h, r) /\ LiveIds(r) = LiveIds(h)
         /\ r.unit[l] = (IF h.unit[l] = "failed" THEN "gone" ELSE h.unit[l])
         /\ r.kind = h.kind /\ r.launch = h.launch
<1> DEFINE u == IF h.unit[l] = "failed" THEN "gone" ELSE h.unit[l]
           r == ClearFailed(h, l)
<1>1. h \in Host /\ u \in {"absent", "running", "stopping", "failed", "gone"}
  BY HostFields DEF HostOK
<1>2. r = [h EXCEPT !.unit[l] = u]
  BY <1>1 DEF ClearFailed
<1>3. Is(r, h.kind, h.launch, h.journal, h.journalPhase, [h.unit EXCEPT ![l] = u],
         h.lease, h.seat)
  <2> HIDE DEF u, r
  <2> QED
    BY <1>1, <1>2, UnitIs
<1>4. /\ r.unit[l] = u /\ \A m \in Launch \ {l} : r.unit[m] = h.unit[m]
  BY <1>1, <1>3, HostFields DEF Is
<1> HIDE DEF r
<1>5. LiveIds(r) = LiveIds(h)
  BY <1>4 DEF LiveIds
<1>6. HostOK(r)
  BY <1>1, <1>3, <1>4, <1>5, HostFields DEF HostOK, Is, Maybe
<1> QED
  BY <1>3, <1>4, <1>5, <1>6 DEF SameUnits, Is, r

\* The session of a failed unit is reported as failed, or blocks.
LEMMA FailOK ==
  ASSUME NEW h, HostOK(h), LiveIds(h) = {}, NEW l \in Launch, h.unit[l] = "failed",
         NEW r \in FailTo(h, l)
  PROVE  HostOK(r) /\ Tracked(r) /\ SameUnits(h, r) /\ r.kind \in {"Failed", "RecoveryBlocked"}
<1>1. ASSUME NEW f \in Faulty(h), r = Block(f)
      PROVE  HostOK(r) /\ Tracked(r) /\ SameUnits(h, r) /\ r.kind = "RecoveryBlocked"
  BY <1>1, FaultyOK, BlockOK, BlockIs DEF HostOK, Is, SameUnits
<1>2. CASE r \in CompleteTo(ClearFailed(h, l), "Failed", l)
  BY <1>2, ClearFailedOK, CompleteOK DEF SameUnits, Maybe
<1> QED
  BY <1>1, <1>2 DEF FailTo

\* r is a host that h may become under the lock without a new stop: a stop of
\* a running unit that is given up is left to recovery.
Resolves(h, r) ==
    /\ HostOK(r) /\ Tracked(r) /\ SameUnits(h, r)
    /\ r.kind = "Stopping" /\ r.unit[r.launch] = "running" =>
          h.kind = "Stopping" /\ h.launch = r.launch
    /\ h.kind = "Stopping" /\ h.unit[h.launch] = "running" =>
          \/ r.kind = "RecoveryBlocked"
          \/ r.kind = "Stopping" /\ r.launch = h.launch

\* Recovery rebuilds a session that names the live unit, or stays unresolved.
LEMMA RebuildOK ==
  ASSUME NEW h, HostOK(h), h.kind \in Unknown, NEW r \in Rebuild(h)
  PROVE  Resolves(h, r)
<1> USE DEF Resolves
<1>1. h \in Host /\ Nobody \in Maybe /\ h.kind # "Stopping" /\ {"NoActive", "Live", "Stopping",
         "RecoveryPending"} \subseteq Kind
  BY DEF HostOK, Maybe, Unknown, Kind
<1>2. CASE LiveIds(h) = {} /\ r = Set(h, "NoActive", Nobody) /\ h.journalPhase = "none"
  <2>1. Is(r, "NoActive", Nobody, h.journal, h.journalPhase, h.unit, h.lease, h.seat)
    BY <1>1, <1>2, SetIs
  <2> QED
    BY <1>1, <1>2, <2>1 DEF Is, HostOK, Tracked, LiveIds, Unknown, SameUnits
<1>3. CASE LiveIds(h) = {} /\ r \in CompleteTo(h, "NoActive", Nobody)
  BY <1>1, <1>3, CompleteOK DEF SameUnits
<1>4. CASE /\ LiveIds(h) = {h.journal}
           /\ r = Set(h, IF h.unit[h.journal] = "running" THEN "Live" ELSE "Stopping", h.journal)
  <2>1. \E k \in {"Live", "Stopping"} :
          /\ k = "Stopping" => h.unit[h.journal] # "running"
          /\ Is(r, k, h.journal, h.journal, h.journalPhase, h.unit, h.lease, h.seat)
    BY <1>1, <1>4, SetIs, HostFields
  <2>2. h.journal \in Launch /\ h.unit[h.journal] \in {"running", "stopping"}
    BY <1>4 DEF LiveIds
  <2> QED
    BY <1>1, <1>4, <2>1, <2>2, HostConstants DEF Is, HostOK, Tracked, LiveIds, Unknown, SameUnits
<1>5. CASE LiveIds(h) = {} /\ h.journalPhase = "running" /\ h.unit[h.journal] = "failed"
           /\ r \in FailTo(h, h.journal)
  <2>1. h.journal \in Launch
    BY <1>1, <1>5, HostFields DEF HostOK, Maybe
  <2> QED
    BY <1>1, <1>5, <2>1, FailOK
<1>6. CASE r = Block(h)
  BY <1>1, <1>6, BlockIs, BlockOK DEF Is, SameUnits
<1> QED
  <2>1. CASE h.journalPhase = "none" /\ LiveIds(h) = {}
    BY <1>2, <2>1 DEF Rebuild
  <2>2. CASE h.journalPhase = "pending" /\ LiveIds(h) = {}
    BY <1>3, <2>2 DEF Rebuild
  <2>3. CASE h.journalPhase = "running" /\ LiveIds(h) = {h.journal}
    BY <1>4, <2>3 DEF Rebuild
  <2>4. CASE h.journalPhase = "running" /\ LiveIds(h) = {}
    BY <1>3, <1>5, <2>4 DEF Rebuild
  <2>5. CASE ~(h.journalPhase = "running" /\ LiveIds(h) = {h.journal}) /\ LiveIds(h) # {}
    BY <1>6, <2>5 DEF Rebuild
  <2> QED
    BY <2>1, <2>2, <2>3, <2>4, <2>5, <1>1, HostFields

\* A temporary beside the journal is removed first, or blocks the recovery.
LEMMA RecoverOK ==
  ASSUME NEW h, HostOK(h), h.kind \in Unknown, NEW r \in Recover(h)
  PROVE  Resolves(h, r)
<1> USE DEF Resolves
<1>1. h \in Host /\ Nobody \in Maybe /\ h.kind # "Stopping" /\ "RecoveryPending" \in Kind
  BY DEF HostOK, Maybe, Unknown, Kind
<1>2. ASSUME NEW f \in Faulty(h), r = Set(f, "RecoveryPending", Nobody)
      PROVE  Resolves(h, r)
  <2>1. Is(r, "RecoveryPending", Nobody, h.journal, h.journalPhase, h.unit, h.lease, h.seat)
    BY <1>1, <1>2, FaultyIs, SetIs DEF Is
  <2> QED
    BY <1>1, <2>1 DEF Is, HostOK, Tracked, LiveIds, Unknown, SameUnits
<1>3. ASSUME NEW f \in Faulty(h) \cup {h}, r = Block(f)
      PROVE  Resolves(h, r)
  <2>1. HostOK(f) /\ f \in Host /\ f.unit = h.unit
    BY <1>1, FaultyOK DEF HostOK
  <2> QED
    BY <1>1, <1>3, <2>1, BlockIs, BlockOK DEF Is, SameUnits
<1>4. CASE r \in Rebuild(h)
  BY <1>4, RebuildOK
<1>5. CASE r \in Rebuild([h EXCEPT !.temp = FALSE])
  <2> DEFINE g == [h EXCEPT !.temp = FALSE]
  <2>1. Is(g, h.kind, h.launch, h.journal, h.journalPhase, h.unit, h.lease, h.seat)
    BY <1>1, MarkIs
  <2> HIDE DEF g
  <2>2. HostOK(g) /\ g.kind \in Unknown
    BY <2>1 DEF Is, HostOK, LiveIds
  <2>3. Resolves(g, r)
    BY <1>5, <2>2, RebuildOK DEF g
  <2> QED
    BY <1>1, <2>1, <2>3 DEF Is, SameUnits
<1> QED
  BY <1>2, <1>3, <1>4, <1>5 DEF Recover

\* refresh_recovery leaves a resolved session alone.
LEMMA RefreshOK ==
  ASSUME NEW h, HostOK(h), Tracked(h), NEW r \in Refresh(h)
  PROVE  Resolves(h, r) /\ (r = h \/ h.kind \in Unknown)
<1>1. Resolves(h, h)
  BY DEF Resolves, SameUnits
<1> QED
  BY <1>1, RecoverOK DEF Refresh, Unknown

\* Releasing the lock may drop the input of a live session.
LEMMA UnlockOK ==
  ASSUME NEW h, HostOK(h), Tracked(h), NEW r \in Unlock(h)
  PROVE  /\ HostOK(r) /\ Tracked(r) /\ r.unit = h.unit
         /\ \/ r = h
            \/ h.kind = "Live" /\ r.kind = "Live" /\ r.launch = h.launch
            \/ h.kind = "Live" /\ r.kind = "RecoveryBlocked"
<1>1. CASE h.kind # "Live"
  BY <1>1 DEF Unlock
<1>2. CASE h.kind = "Live"
  <2>1. h.launch \in Launch
    BY <1>2, HostFields DEF HostOK, Maybe, Unknown
  <2>2. ASSUME NEW t \in StopSeats(h, h.launch)
        PROVE  /\ HostOK(t) /\ Tracked(t) /\ t.unit = h.unit /\ t.kind = "Live"
               /\ t.launch = h.launch /\ HostOK(Block(t)) /\ Tracked(Block(t))
               /\ Block(t).unit = h.unit /\ Block(t).kind = "RecoveryBlocked"
    BY <1>2, <2>1, StopSeatsOK, BlockOK, BlockIs DEF Is
  <2> QED
    BY <1>2, <2>2 DEF Unlock, StopSeats
<1> QED
  BY <1>1, <1>2

\* Observing the tracked unit ends the session of one that is gone.
LEMMA ObserveOK ==
  ASSUME NEW h, HostOK(h), Tracked(h), NEW r \in Observe(h)
  PROVE  Resolves(h, r) /\ (h.kind \notin {"Live", "Stopping"} => r = h)
<1>1. CASE h.kind \notin {"Live", "Stopping"}
  BY <1>1 DEF Observe, Resolves, SameUnits
<1>2. CASE h.kind \in {"Live", "Stopping"}
  <2> DEFINE l == h.launch
  <2>1. /\ h \in Host /\ l \in Launch /\ l \in Maybe
        /\ h.unit[l] \in {"running", "stopping", "failed", "gone"}
    BY <1>2, HostFields DEF HostOK, Maybe, Unknown
  <2>2. ASSUME NEW f \in Faulty(h), r = Block(f)
        PROVE  Resolves(h, r)
    BY <2>1, <2>2, FaultyOK, BlockOK, BlockIs DEF HostOK, Is, SameUnits, Resolves
  <2>3. ASSUME NEW t \in StopSeats(h, l)
        PROVE  /\ HostOK(t) /\ Tracked(t) /\ t.unit = h.unit
               /\ t.kind = h.kind /\ t.launch = l
               /\ Resolves(h, Block(t))
    <3>1. /\ HostOK(t) /\ Tracked(t) /\ t \in Host
          /\ t.unit = h.unit /\ t.kind = h.kind /\ t.launch = l
      BY <2>1, StopSeatsOK DEF Is
    <3> QED
      BY <3>1, BlockOK, BlockIs DEF Is, Resolves, SameUnits
  <2>4. CASE h.unit[l] = "running"
    <3>1. r \in Unlock(h) => Resolves(h, r)
      BY UnlockOK DEF Resolves, SameUnits
    <3>2. r \in {Block(f) : f \in Faulty(h)} \cup Unlock(h)
      BY <1>2, <2>4 DEF Observe, Completed
    <3> QED
      BY <1>2, <2>2, <3>1, <3>2
  <2>5. CASE h.unit[l] = "stopping"
    <3>1. ASSUME NEW t \in StopSeats(h, l), r = Set(t, "Stopping", l)
          PROVE  Resolves(h, r)
      <4>1. t \in Host /\ "Stopping" \in Kind
        BY <2>3 DEF HostOK, Kind
      <4>2. Is(r, "Stopping", l, t.journal, t.journalPhase, t.unit, t.lease, t.seat)
        BY <2>1, <3>1, <4>1, SetIs
      <4> QED
        BY <1>2, <2>1, <2>3, <2>5, <4>2
        DEF Is, HostOK, Tracked, LiveIds, Unknown, SameUnits, Resolves
    <3>2. r \in {Block(f) : f \in Faulty(h)} \cup {Set(t, "Stopping", l) : t \in StopSeats(h, l)}
      BY <1>2, <2>5 DEF Observe, Completed
    <3> QED
      BY <1>2, <2>2, <3>1, <3>2
  <2>6. h.unit[l] \in {"failed", "gone"} => LiveIds(h) = {}
    BY <1>2 DEF Tracked, LiveIds, Unknown
  <2>7. CASE h.unit[l] = "gone"
    <3>1. ASSUME NEW t \in StopSeatsOk(h, l), r \in CompleteTo(t, "Completed", l)
          PROVE  Resolves(h, r)
      <4>1. HostOK(t) /\ LiveIds(t) = {} /\ t.unit[l] = "gone" /\ t.unit = h.unit
        BY <2>3, <2>6, <2>7 DEF LiveIds, StopSeats
      <4>2. /\ HostOK(r) /\ Tracked(r) /\ r.unit = t.unit
            /\ r.kind \in {"Completed", "RecoveryBlocked"}
        BY <2>1, <3>1, <4>1, CompleteOK
      <4> QED
        BY <2>7, <4>1, <4>2 DEF Resolves, SameUnits
    <3>2. r \in {Block(f) : f \in Faulty(h)} \cup {Block(t) : t \in StopSeatsErr(h, l)}
               \cup UNION {CompleteTo(t, "Completed", l) : t \in StopSeatsOk(h, l)}
      BY <1>2, <2>7 DEF Observe, Completed
    <3> QED
      BY <1>2, <2>2, <2>3, <3>1, <3>2 DEF StopSeats
  <2>8. CASE h.unit[l] = "failed"
    <3>1. ASSUME NEW t \in StopSeatsOk(h, l), r \in FailTo(t, l)
          PROVE  Resolves(h, r)
      <4>1. HostOK(t) /\ LiveIds(t) = {} /\ t.unit[l] = "failed" /\ t.unit = h.unit
        BY <2>3, <2>6, <2>8 DEF LiveIds, StopSeats
      <4>2. HostOK(r) /\ Tracked(r) /\ SameUnits(t, r) /\ r.kind \in {"Failed", "RecoveryBlocked"}
        BY <2>1, <3>1, <4>1, FailOK
      <4> QED
        BY <2>8, <4>1, <4>2 DEF Resolves, SameUnits
    <3>2. r \in {Block(f) : f \in Faulty(h)} \cup {Block(t) : t \in StopSeatsErr(h, l)}
               \cup UNION {FailTo(t, l) : t \in StopSeatsOk(h, l)}
      BY <1>2, <2>8 DEF Observe, Completed
    <3> QED
      BY <1>2, <2>2, <2>3, <3>1, <3>2 DEF StopSeats
  <2> QED
    BY <1>2, <2>1, <2>4, <2>5, <2>7, <2>8
<1> QED
  BY <1>1, <1>2

-----------------------------------------------------------------------------
(* The inductive invariant *)

\* The part of the reservations that the session depends on.
ResvOK ==
    /\ phase \in [Launch -> Reservations!Phase]
    /\ worker \in [Launch -> Reservations!WorkerState]
    /\ blocked \subseteq Launch
    /\ \A l \in Launch : phase[l] \in {"None", "Reserved"} => worker[l] = "idle"

\* A launch that is being prepared holds the lock over an idle session: no unit
\* but its own is live, and nothing of an earlier session is taken for its own.
LockOK ==
    /\ prep \in [launch : Maybe, at : PrepStep]
    /\ prep.launch = Nobody <=> prep.at = "none"
    /\ \A l \in Launch : worker[l] \in {"effects", "launching"} <=> prep.launch = l
    /\ prep.launch # Nobody =>
         /\ worker[prep.launch] =
              IF prep.at \in {"clear", "launched"} THEN "launching" ELSE "effects"
         /\ host.kind \in {"NoActive", "Completed", "Failed"}
         /\ LiveIds(host) \subseteq {prep.launch}
         /\ prep.at # "launched" => host.unit[prep.launch] = "absent"
         /\ prep.at # "committed" => host.journal = prep.launch /\ host.journalPhase = "running"
         /\ host.lease # prep.launch
         /\ host.lease # Nobody => host.lease # host.seat

\* Nothing is started for a launch before its worker holds the lock.
NotStarted ==
    \A l \in Launch :
        worker[l] \in {"idle", "routing", "entering"} => host.unit[l] = "absent"

\* A worker that stops its launch is stopping, and its unit is not left running
\* unless it was given up to recovery.
CallsOK ==
    /\ call \in [Actor -> [at : {"idle", "helper", "relock"}, launch : Maybe,
                           seatFailed : BOOLEAN, ok : BOOLEAN]]
    /\ \A a \in Actor : call[a].at # "idle" =>
         /\ call[a].launch \in Launch
         /\ a \in Launch =>
              /\ call[a].launch = a /\ worker[a] = "stopping"
              /\ host.unit[a] = "running" =>
                   a \in blocked \/ (host.kind = "Stopping" /\ host.launch = a)

IInv ==
    /\ ResvOK
    /\ HostOK(host)
    /\ prep.launch = Nobody => Tracked(host)
    /\ LockOK
    /\ NotStarted
    /\ CallsOK
    /\ crashes \in 0..MaxCrashes

\* The invariant implies the properties.
LEMMA IInvAgrees == IInv => TypeOK /\ SessionAgrees
<1> SUFFICES ASSUME IInv PROVE TypeOK /\ SessionAgrees
  OBVIOUS
<1> USE DEF IInv
<1>1. TypeOK
  BY DEF TypeOK, HostOK, LockOK, CallsOK, Unknown
<1>2. UnitIsJournaled
  BY DEF UnitIsJournaled, HostOK
<1>3. LiveUnitIsTracked
  <2>1. CASE prep.launch = Nobody
    BY <2>1 DEF LiveUnitIsTracked, Tracked, Unknown
  <2>2. CASE prep.launch # Nobody
    <3>1. ASSUME NEW l \in LiveIds(host) PROVE prep.launch = l /\ prep.at = "launched"
      BY <2>2 DEF LockOK, LiveIds
    <3>2. prep = [launch |-> prep.launch, at |-> prep.at]
      BY DEF LockOK
    <3> QED
      BY <3>1, <3>2 DEF LiveUnitIsTracked
  <2> QED
    BY <2>1, <2>2
<1>4. InputFollowsSession
  BY DEF InputFollowsSession, Tracked, LockOK, HostOK, Unknown
<1> QED
  BY <1>1, <1>2, <1>3, <1>4 DEF SessionAgrees

\* Nothing runs when korrid starts for the first time.
LEMMA InitIInv == Init => IInv
<1> SUFFICES ASSUME Init PROVE IInv
  OBVIOUS
<1> USE HostConstants DEF Init
<1>1. host \in Host /\ LiveIds(host) = {}
  BY DEF Host, Kind, Maybe, LiveIds
<1>2. HostOK(host) /\ Tracked(host)
  BY <1>1 DEF HostOK, Tracked, Unknown
<1>3. ResvOK /\ LockOK /\ NotStarted
  BY DEF ResvOK, LockOK, NotStarted, NoPrep, PrepStep, Maybe, Reservations!Init,
         Reservations!Phase, Reservations!WorkerState
<1>4. CallsOK
  BY DEF CallsOK, NoCall, Maybe
<1> QED
  BY <1>2, <1>3, <1>4 DEF IInv

-----------------------------------------------------------------------------
(* What the reservations see of a step *)

\* Native for one launch: its worker is at w, the host is h.
View(w, h, l) ==
    IF w \in {"effects", "launching"} THEN "none" ELSE
    CASE h.unit[l] = "running" ->
           IF h.kind = "Stopping" /\ h.launch = l THEN "stopping" ELSE "live"
      [] h.unit[l] = "stopping" -> "stopping"
      [] h.unit[l] = "absent" -> "none"
      [] OTHER -> "ended"

\* A step of the reservations' specification, or one they do not see.
RStep == [Reservations!Next]_(Reservations!rvars)

\* What every step is shown to do.
StepOK == IInv' /\ RStep

\* The refinement mapping, and its next value, launch by launch.
LEMMA NativeView ==
  /\ Native = [l \in Launch |-> View(worker[l], host, l)]
  /\ Native' = [l \in Launch |-> View(worker'[l], host', l)]
  BY DEF Native, View

\* A step that changes the view of at most one launch.
LEMMA NativeMoves ==
  ASSUME NEW l \in Launch,
         \A m \in Launch \ {l} : View(worker'[m], host', m) = View(worker[m], host, m)
  PROVE  /\ Native[l] = View(worker[l], host, l)
         /\ Native' = [Native EXCEPT ![l] = View(worker'[l], host', l)]
         /\ View(worker'[l], host', l) = View(worker[l], host, l) => Native' = Native
  BY NativeView

\* A step that changes no view.
LEMMA NativeStays ==
  ASSUME \A m \in Launch : View(worker'[m], host', m) = View(worker[m], host, m)
  PROVE  Native' = Native
  BY NativeView

\* The views are states of the reservations' native session.
LEMMA ViewType ==
  ASSUME NEW w, NEW h \in Host, NEW l \in Launch
  PROVE  View(w, h, l) \in Reservations!NativeState
  BY HostFields DEF View, Reservations!NativeState

-----------------------------------------------------------------------------
(* Every step keeps the invariant, and is a step of the reservations *)

\* Requests, and the worker before and after it holds the lock.
LEMMA OutsideStep ==
  ASSUME IInv, Outside, NEW l \in Launch,
         \/ \E c \in Caller, g \in Game : \/ Reservations!Reserve(l, c, g)
                                          \/ Reservations!Start(l, c, g)
         \/ \E c \in Caller : \/ Reservations!CancelBeforeCommit(l, c)
                              \/ Reservations!CancelAfterCommit(l, c)
         \/ Reservations!RouteReady(l) \/ Reservations!Finish(l)
  PROVE  StepOK
<1>1. UNCHANGED <<host, prep, call, crashes, blocked>> /\ ResvOK'
  BY DEF Outside, IInv, ResvOK, Reservations!Phase, Reservations!WorkerState,
     Reservations!Reserve, Reservations!Start, Reservations!CancelBeforeCommit,
     Reservations!CancelAfterCommit, Reservations!RouteReady, Reservations!Finish
<1>2. /\ \A m \in Launch \ {l} : worker'[m] = worker[m]
      /\ \/ worker'[l] = worker[l]
         \/ /\ worker[l] \notin {"effects", "launching", "stopping"}
            /\ worker'[l] \notin {"effects", "launching"}
            /\ worker'[l] \in {"idle", "routing", "entering"} =>
                  worker[l] \in {"idle", "routing", "entering"}
  BY DEF IInv, ResvOK, Reservations!WorkerState,
     Reservations!Reserve, Reservations!Start, Reservations!CancelBeforeCommit,
     Reservations!CancelAfterCommit, Reservations!RouteReady, Reservations!Finish
<1>3. LockOK'
  BY <1>1, <1>2 DEF IInv, LockOK, Maybe
<1>4. NotStarted' /\ CallsOK'
  BY <1>1, <1>2 DEF IInv, NotStarted, CallsOK
<1>5. HostOK(host') /\ (prep'.launch = Nobody => Tracked(host'))
  BY <1>1 DEF IInv
<1>6. RStep
  BY DEF RStep, Reservations!Next, Reservations!Request, Reservations!WorkerStep
<1> QED
  BY <1>1, <1>3, <1>4, <1>5, <1>6 DEF IInv, StepOK

\* A worker that returns with the host h releases the lock.
LEMMA ReturnStep ==
  ASSUME IInv, NEW l \in Launch, NEW h, HostOK(h), Tracked(h), Return(l, h),
         \/ prep.launch = l
         \/ prep.launch = Nobody /\ worker[l] = "entering",
         \A m \in Launch \ {l} :
            h.unit[m] = host.unit[m] \/ (host.unit[m] = "failed" /\ h.unit[m] = "gone"),
         worker[l] # "launching" => h.unit[l] = host.unit[l],
         host.kind = "Stopping" => h = host,
         h.kind = "Stopping" => host.kind = "Stopping" \/ h.unit[h.launch] # "running",
         UNCHANGED <<phase, pending, bound, blocked, promised, call, crashes>>
  PROVE  StepOK
<1>1. HostOK(host') /\ Tracked(host') /\ host'.unit = h.unit
      /\ (host.kind = "Stopping" => host' = host)
  BY UnlockOK DEF Return
<1>2. /\ prep' = NoPrep /\ worker' = [worker EXCEPT ![l] = "returned"]
      /\ \A m \in Launch : worker'[m] \in {"effects", "launching"} =>
                              worker[m] \in {"effects", "launching"} /\ m # l
  BY DEF Return, IInv, ResvOK
<1>3. ResvOK'
  BY <1>2 DEF IInv, ResvOK, LockOK, Reservations!WorkerState, Reservations!Phase
<1>4. LockOK'
  BY <1>2, HostConstants DEF IInv, LockOK, NoPrep, PrepStep, Maybe
<1>5. NotStarted'
  BY <1>1, <1>2 DEF IInv, NotStarted, ResvOK
<1>6. CallsOK'
  <2>1. worker[l] # "stopping" /\ (prep.launch # Nobody => host.kind # "Stopping")
    BY DEF IInv, LockOK
  <2> QED
    BY <1>1, <1>2, <2>1 DEF IInv, CallsOK, ResvOK
<1>7. RStep
  <2>1. worker' \in [Launch -> Reservations!WorkerState] /\ worker'[l] = "returned"
        /\ \A m \in Launch \ {l} : worker'[m] = worker[m]
    BY <1>2, <1>3 DEF ResvOK, IInv
  <2>2. host'.kind = "Stopping" => host' = h
    BY UnlockOK DEF Return
  <2>3. ASSUME NEW m \in Launch \ {l}
        PROVE  View(worker'[m], host', m) = View(worker[m], host, m)
    BY <1>1, <2>1, <2>2 DEF View
  <2>4. worker[l] # "launching" => View(worker'[l], host', l) = View(worker[l], host, l)
    <3>1. worker[l] # "launching" => host.unit[l] = "absent" /\ host'.unit[l] = "absent"
      BY <1>1, HostConstants DEF IInv, LockOK, NotStarted
    <3> QED
      BY <2>1, <3>1 DEF View
  <2>5. CASE worker[l] = "entering"
    <3>1. \A m \in Launch : worker[m] \notin {"effects", "launching"}
      BY <2>5, HostConstants DEF IInv, LockOK
    <3>2. Reservations!Refuse(l)
      BY <1>2, <2>3, <2>4, <2>5, <3>1, NativeMoves DEF Reservations!Refuse, Reservations!InEffects
    <3> QED
      BY <3>2 DEF RStep, Reservations!Next, Reservations!WorkerStep
  <2>6. CASE worker[l] = "effects"
    <3>1. Reservations!CheckCancelled(l)
      BY <1>2, <2>3, <2>4, <2>6, NativeMoves DEF Reservations!CheckCancelled
    <3> QED
      BY <3>1 DEF RStep, Reservations!Next, Reservations!WorkerStep
  <2>7. CASE worker[l] = "launching"
    <3>1. View(worker'[l], host', l) \in Reservations!NativeState
      BY <1>1, ViewType DEF HostOK
    <3>2. Reservations!LaunchNative(l)
      BY <1>2, <2>3, <2>7, <3>1, NativeMoves DEF Reservations!LaunchNative
    <3> QED
      BY <3>2 DEF RStep, Reservations!Next, Reservations!WorkerStep
  <2> QED
    BY <2>5, <2>6, <2>7 DEF IInv, LockOK
<1> QED
  BY <1>1, <1>3, <1>4, <1>5, <1>6, <1>7 DEF IInv, StepOK

\* Until the unit is launched no unit is live, and nothing is left of the input.
LEMMA PrepIdle ==
  ASSUME IInv, NEW l \in Launch, prep.launch = l
  PROVE  /\ HostOK(host) /\ host \in Host /\ host.kind \in {"NoActive", "Completed", "Failed"}
         /\ LiveIds(host) \subseteq {l}
         /\ LiveIds(host) = {} => Tracked(host)
         /\ prep.at # "launched" => LiveIds(host) = {}
  BY HostConstants DEF IInv, LockOK, HostOK, Tracked, LiveIds

\* The route is ready and the session lock is taken.
LEMMA EnterStep ==
  ASSUME IInv, NEW l \in Launch, Enter(l)
  PROVE  StepOK
<1>1. prep.launch = Nobody /\ worker[l] = "entering" /\ Tracked(host) /\ HostOK(host)
      /\ host.unit[l] = "absent"
  BY DEF Enter, IInv, Unlocked, NoPrep, NotStarted
<1>2. PICK h \in {host} \cup Refresh(host) :
         \/ Return(l, h) /\ UNCHANGED phase
         \/ /\ h.kind \in {"NoActive", "Completed", "Failed"} /\ ~h.fenced
            /\ phase[l] = "Preparing"
            /\ phase' = [phase EXCEPT ![l] = "Committing"]
            /\ worker' = [worker EXCEPT ![l] = "effects"]
            /\ prep' = [launch |-> l, at |-> "committed"]
            /\ host' = h
  BY DEF Enter
<1>3. HostOK(h) /\ Tracked(h) /\ SameUnits(host, h) /\ (h = host \/ host.kind \in Unknown)
      /\ (h.kind = "Stopping" => host.kind = "Stopping" \/ h.unit[h.launch] # "running")
  BY <1>1, <1>2, RefreshOK DEF Resolves, SameUnits
<1>4. CASE Return(l, h) /\ UNCHANGED phase
  BY <1>1, <1>3, <1>4, ReturnStep DEF Enter, SameUnits, Unknown
<1>5. CASE /\ h.kind \in {"NoActive", "Completed", "Failed"}
           /\ phase[l] = "Preparing"
           /\ phase' = [phase EXCEPT ![l] = "Committing"]
           /\ worker' = [worker EXCEPT ![l] = "effects"]
           /\ prep' = [launch |-> l, at |-> "committed"]
           /\ host' = h
  <2>1. UNCHANGED <<call, crashes, blocked>>
    BY DEF Enter
  <2>2. ResvOK'
    BY <1>5, <2>1 DEF IInv, ResvOK, Reservations!Phase, Reservations!WorkerState
  <2>3. LiveIds(h) = {} /\ h.unit[l] = "absent" /\ h.lease # l /\ h \in Host
        /\ (h.lease # Nobody => h.lease # h.seat)
    BY <1>1, <1>3, <1>5, HostConstants DEF Tracked, Unknown, HostOK, SameUnits
  <2>4. LockOK'
    BY <1>1, <1>5, <2>3, HostConstants DEF IInv, LockOK, ResvOK, PrepStep, Maybe
  <2>5. NotStarted'
    BY <1>3, <1>5 DEF IInv, NotStarted, ResvOK, SameUnits
  <2>6. CallsOK'
    BY <1>1, <1>3, <1>5, <2>1 DEF IInv, CallsOK, ResvOK, SameUnits, Unknown
  <2>7. RStep
    <3>1. \A m \in Launch : worker[m] \notin {"effects", "launching"}
      BY <1>1, HostConstants DEF IInv, LockOK
    <3>2. /\ worker'[l] = "effects" /\ \A m \in Launch \ {l} : worker'[m] = worker[m]
          /\ LiveIds(host) = {}
      BY <1>3, <1>5, <2>3 DEF IInv, ResvOK, SameUnits, LiveIds
    <3>3. ASSUME NEW m \in Launch
          PROVE  View(worker'[m], host', m) = View(worker[m], host, m)
      BY <1>1, <1>3, <1>5, <3>2, <2>3 DEF View, SameUnits, LiveIds
    <3>4. \A m \in Launch : Native[m] \notin {"live", "stopping"}
      BY <3>1, <3>2, NativeView DEF View, LiveIds
    <3>5. Reservations!Commit(l)
      BY <1>1, <1>5, <3>1, <3>3, <3>4, NativeStays
      DEF Enter, Reservations!Commit, Reservations!InEffects, Reservations!Occupied
    <3> QED
      BY <3>5 DEF RStep, Reservations!Next, Reservations!WorkerStep
  <2> QED
    BY <1>3, <1>5, <2>1, <2>2, <2>4, <2>5, <2>6, <2>7, HostConstants DEF IInv, StepOK
<1> QED
  BY <1>2, <1>4, <1>5

\* A worker that goes on keeps the lock.
LEMMA GoOnStep ==
  ASSUME IInv, NEW l \in Launch, prep.launch = l, HostOK(host'), LockOK',
         \A m \in Launch \ {l} : host'.unit[m] = host.unit[m] /\ worker'[m] = worker[m],
         worker'[l] \in {"effects", "launching"}, worker' \in [Launch -> Reservations!WorkerState],
         \/ worker' = worker
         \/ /\ worker[l] = "effects" /\ worker' = [worker EXCEPT ![l] = "launching"]
            /\ ~Reservations!IsCancelled(l),
         prep'.launch = l, UNCHANGED <<phase, pending, bound, blocked, promised, call, crashes>>
  PROVE  StepOK
<1>1. ResvOK' /\ NotStarted'
  BY DEF IInv, ResvOK, NotStarted, LockOK
<1>2. CallsOK'
  <2>1. host.kind # "Stopping" /\ worker[l] # "stopping"
    BY HostConstants DEF IInv, LockOK
  <2> QED
    BY <2>1 DEF IInv, CallsOK
<1>3. RStep
  <2>1. worker[l] \in {"effects", "launching"} /\ host.kind # "Stopping" /\ host'.kind # "Stopping"
    BY HostConstants DEF IInv, LockOK
  <2>2. ASSUME NEW m \in Launch
        PROVE  View(worker'[m], host', m) = View(worker[m], host, m)
    BY <2>1 DEF View
  <2>3. Native' = Native
    BY <2>2, NativeStays
  <2>4. CASE worker' = worker
    BY <2>3, <2>4 DEF RStep, Reservations!rvars
  <2>5. CASE /\ worker[l] = "effects" /\ worker' = [worker EXCEPT ![l] = "launching"]
             /\ ~Reservations!IsCancelled(l)
    <3>1. Reservations!CheckCancelled(l)
      BY <2>3, <2>5 DEF Reservations!CheckCancelled
    <3> QED
      BY <3>1 DEF RStep, Reservations!Next, Reservations!WorkerStep
  <2> QED
    BY <2>4, <2>5
<1> QED
  BY <1>1, <1>2, <1>3, HostConstants DEF IInv, StepOK

\* The record is written while the journal is empty.
LEMMA PersistStep ==
  ASSUME IInv, NEW l \in Launch, PersistActive(l)
  PROVE  StepOK
<1> DEFINE written == [host EXCEPT !.journal = l, !.journalPhase = "running"]
<1>1. /\ prep.launch = l /\ prep.at = "committed"
      /\ UNCHANGED <<phase, pending, bound, blocked, promised, call, crashes>>
  BY DEF PersistActive
<1>2. HostOK(host) /\ host \in Host /\ LiveIds(host) = {} /\ Tracked(host)
      /\ host.kind \in {"NoActive", "Completed", "Failed"}
  BY <1>1, PrepIdle
<1>3. Is(written, host.kind, host.launch, l, "running", host.unit, host.lease, host.seat)
  BY <1>2, JournalIs DEF Maybe
<1>4. host.journalPhase = "none" => HostOK(written)
  BY <1>2, <1>3, HostConstants DEF HostOK, Is, LiveIds
<1>5. ASSUME NEW h, Return(l, h), HostOK(h), Tracked(h), h.unit = host.unit, h.kind # "Stopping"
      PROVE  StepOK
  BY <1>1, <1>2, <1>5, ReturnStep
<1>6. CASE Return(l, host)
  BY <1>2, <1>5, <1>6
<1>7. CASE Return(l, Block(host))
  BY <1>2, <1>5, <1>7, BlockOK, BlockIs DEF Is
<1>8. ASSUME host.journalPhase = "none", NEW f \in Faulty(host) \cup Faulty(written),
             Return(l, Block(f))
      PROVE  StepOK
  <2>1. HostOK(f) /\ f \in Host /\ f.unit = host.unit
    BY <1>2, <1>3, <1>4, <1>8, FaultyOK DEF HostOK, Is
  <2> QED
    BY <1>5, <1>8, <2>1, BlockOK, BlockIs DEF Is
<1>9. CASE /\ host.journalPhase = "none"
           /\ host' = written
           /\ prep' = [prep EXCEPT !.at = "persisted"]
           /\ UNCHANGED worker
  <2>1. prep' = [launch |-> l, at |-> "persisted"]
    BY <1>9 DEF PersistActive
  <2>2. LockOK'
    BY <1>1, <1>2, <1>3, <1>9, <2>1 DEF IInv, LockOK, Is, LiveIds, PrepStep, Maybe
  <2>3. worker[l] \in {"effects", "launching"} /\ worker' = worker
    BY <1>1, <1>9 DEF IInv, LockOK
  <2>4. worker \in [Launch -> Reservations!WorkerState] /\ host'.unit = host.unit
    BY <1>3, <1>9 DEF IInv, ResvOK, Is
  <2> QED
    BY <1>1, <1>4, <1>9, <2>1, <2>2, <2>3, <2>4, GoOnStep
<1> QED
  BY <1>6, <1>7, <1>8, <1>9 DEF PersistActive

\* A startup that is undone leaves an idle session, or blocks.
LEMMA UndoStep ==
  ASSUME IInv, NEW l \in Launch, prep.launch = l,
         NEW s, HostOK(s), LiveIds(s) = {}, \A m \in Launch \ {l} : s.unit[m] = host.unit[m],
         NEW k \in {"NoActive", "Failed"}, NEW n \in Maybe,
         IF k = "NoActive" THEN n = Nobody ELSE n = l /\ s.unit[l] = "gone",
         worker[l] # "launching" => s.unit[l] = host.unit[l],
         NEW h \in DiscardTo(s, k, n), Return(l, h),
         UNCHANGED <<phase, pending, bound, blocked, promised, call, crashes>>
  PROVE  StepOK
<1>1. h \in CompleteTo(s, k, n)
  BY DEF CompleteTo
<1>2. HostOK(h) /\ Tracked(h) /\ h.unit = s.unit /\ h.kind # "Stopping"
  BY <1>1, CompleteOK
<1>3. host.kind # "Stopping"
  BY PrepIdle
<1> QED
  BY <1>2, <1>3, ReturnStep

\* The seats are reserved for the journaled launch.
LEMMA StartSeatsStep ==
  ASSUME IInv, NEW l \in Launch, StartSeats(l)
  PROVE  StepOK
<1>1. /\ prep.launch = l /\ prep.at = "persisted"
      /\ UNCHANGED <<phase, pending, bound, blocked, promised, call, crashes>>
  BY DEF StartSeats
<1>2. HostOK(host) /\ host \in Host /\ LiveIds(host) = {} /\ host.journal = l
  BY <1>1, PrepIdle, HostConstants DEF IInv, LockOK
<1>3. Is([host EXCEPT !.seat = l], host.kind, host.launch, host.journal, host.journalPhase,
         host.unit, host.lease, l)
  BY <1>2, SeatIs DEF Maybe
<1>4. CASE /\ host' = [host EXCEPT !.seat = l]
           /\ prep' = [prep EXCEPT !.at = "seated"]
           /\ UNCHANGED worker
  <2>1. prep' = [launch |-> l, at |-> "seated"]
    BY <1>4 DEF StartSeats
  <2>2. HostOK(host')
    BY <1>2, <1>3, <1>4 DEF HostOK, Is, LiveIds
  <2>3. LockOK'
    BY <1>1, <1>2, <1>3, <1>4, <2>1, HostConstants DEF IInv, LockOK, Is, LiveIds, PrepStep, Maybe
  <2>4. worker[l] \in {"effects", "launching"} /\ worker' = worker
    BY <1>1, <1>4 DEF IInv, LockOK
  <2>5. worker \in [Launch -> Reservations!WorkerState] /\ host'.unit = host.unit
    BY <1>3, <1>4 DEF IInv, ResvOK, Is
  <2> QED
    BY <1>1, <2>1, <2>2, <2>3, <2>4, <2>5, GoOnStep
<1>5. ASSUME NEW s \in {host, [host EXCEPT !.seat = IF @ = Nobody THEN l ELSE @]},
             NEW h \in DiscardTo(s, "NoActive", Nobody), Return(l, h)
      PROVE  StepOK
  <2>1. s = host \/ s = [host EXCEPT !.seat = l]
    <3>1. CASE host.seat = Nobody
      BY <1>5, <3>1
    <3>2. CASE host.seat # Nobody
      <4>1. host.seat = l
        BY <1>2, <3>2 DEF HostOK
      <4> QED
        BY <1>5, <4>1
    <3> QED
      BY <3>1, <3>2
  <2>2. HostOK(s) /\ LiveIds(s) = {} /\ s.unit = host.unit
    BY <1>2, <1>3, <2>1 DEF HostOK, Is, LiveIds
  <2> QED
    BY <1>1, <1>5, <2>2, UndoStep DEF Maybe
<1> QED
  BY <1>4, <1>5 DEF StartSeats

\* The last check of the reservation.
LEMMA CheckCancelledStep ==
  ASSUME IInv, NEW l \in Launch, CheckCancelled(l)
  PROVE  StepOK
<1>1. /\ prep.launch = l /\ prep.at = "seated"
      /\ UNCHANGED <<phase, pending, bound, blocked, promised, call, crashes>>
  BY DEF CheckCancelled
<1>2. HostOK(host) /\ LiveIds(host) = {}
  BY <1>1, PrepIdle
<1>3. ASSUME NEW h \in DiscardTo(host, "NoActive", Nobody), Return(l, h)
      PROVE  StepOK
  BY <1>1, <1>2, <1>3, UndoStep DEF Maybe
<1>4. CASE /\ prep' = [prep EXCEPT !.at = "clear"]
           /\ worker' = [worker EXCEPT ![l] = "launching"]
           /\ UNCHANGED host
           /\ ~Reservations!IsCancelled(l)
  <2>1. prep' = [launch |-> l, at |-> "clear"] /\ worker \in [Launch -> Reservations!WorkerState]
    BY <1>4 DEF CheckCancelled, IInv, ResvOK
  <2>2. worker' \in [Launch -> Reservations!WorkerState] /\ worker'[l] = "launching"
        /\ \A m \in Launch \ {l} : worker'[m] = worker[m]
    BY <1>4, <2>1 DEF Reservations!WorkerState
  <2>3. LockOK'
    BY <1>1, <1>4, <2>1, <2>2, HostConstants DEF IInv, LockOK, PrepStep, Maybe
  <2>4. worker[l] = "effects"
    BY <1>1, HostConstants DEF IInv, LockOK
  <2> QED
    BY <1>1, <1>2, <1>4, <2>1, <2>2, <2>3, <2>4, GoOnStep
<1> QED
  BY <1>3, <1>4 DEF CheckCancelled

\* The unit of the launch being prepared is the only one that may be started.
LEMMA LaunchUnitStep ==
  ASSUME IInv, NEW l \in Launch, LaunchUnit(l)
  PROVE  StepOK
<1> DEFINE with(u) == [host EXCEPT !.unit[l] = u]
<1>1. /\ prep.launch = l /\ prep.at = "clear"
      /\ UNCHANGED <<phase, pending, bound, blocked, promised, call, crashes>>
  BY DEF LaunchUnit
<1>2. HostOK(host) /\ host \in Host /\ LiveIds(host) = {} /\ host.journal = l
      /\ host.journalPhase = "running" /\ host.unit[l] = "absent" /\ host.kind # "Stopping"
      /\ worker[l] = "launching"
  BY <1>1, PrepIdle, HostConstants DEF IInv, LockOK
<1>3. ASSUME NEW u \in {"running", "failed", "gone"}
      PROVE  /\ HostOK(with(u)) /\ with(u) \in Host
             /\ with(u).unit[l] = u /\ \A m \in Launch \ {l} : with(u).unit[m] = host.unit[m]
             /\ LiveIds(with(u)) \subseteq {l} /\ (u # "running" => LiveIds(with(u)) = {})
             /\ Is(with(u), host.kind, host.launch, host.journal, host.journalPhase,
                   [host.unit EXCEPT ![l] = u], host.lease, host.seat)
  <2>1. Is(with(u), host.kind, host.launch, host.journal, host.journalPhase,
                   [host.unit EXCEPT ![l] = u], host.lease, host.seat)
    BY <1>2, UnitIs
  <2>2. with(u).unit[l] = u /\ \A m \in Launch \ {l} : with(u).unit[m] = host.unit[m]
    BY <1>2, <2>1, HostFields DEF Is
  <2> HIDE DEF with
  <2>3. LiveIds(with(u)) \subseteq {l} /\ (u # "running" => LiveIds(with(u)) = {})
    BY <1>2, <2>2 DEF LiveIds
  <2>4. HostOK(with(u))
    BY <1>2, <2>1, <2>2, <2>3, HostFields DEF HostOK, Is, Maybe
  <2> QED
    BY <2>1, <2>2, <2>3, <2>4 DEF Is
<1> HIDE DEF with
<1>4. CASE /\ host' = with("running")
           /\ prep' = [prep EXCEPT !.at = "launched"]
           /\ UNCHANGED worker
  <2>1. prep' = [launch |-> l, at |-> "launched"]
    BY <1>4 DEF LaunchUnit
  <2>2. LockOK'
    BY <1>1, <1>2, <1>3, <1>4, <2>1, HostConstants DEF IInv, LockOK, Is, PrepStep, Maybe
  <2>3. worker[l] \in {"effects", "launching"} /\ worker' = worker
        /\ worker \in [Launch -> Reservations!WorkerState]
    BY <1>1, <1>4 DEF IInv, LockOK, ResvOK
  <2> QED
    BY <1>1, <1>3, <1>4, <2>1, <2>2, <2>3, GoOnStep
<1>5. ASSUME NEW h \in DiscardTo(host, "NoActive", Nobody), Return(l, h)
      PROVE  StepOK
  BY <1>1, <1>2, <1>5, UndoStep DEF Maybe
<1>6. ASSUME NEW h \in DiscardTo(with("gone"), "Failed", l), Return(l, h)
      PROVE  StepOK
  BY <1>1, <1>2, <1>3, <1>6, UndoStep DEF Maybe
<1>7. ASSUME NEW f \in Faulty(host) \cup Faulty(with("running")) \cup Faulty(with("failed")),
             Return(l, Block(f))
      PROVE  StepOK
  <2>1. HostOK(f) /\ f \in Host /\ \A m \in Launch \ {l} : f.unit[m] = host.unit[m]
    BY <1>2, <1>3, <1>7, FaultyOK DEF HostOK
  <2>2. HostOK(Block(f)) /\ Tracked(Block(f)) /\ Block(f).unit = f.unit
        /\ Block(f).kind # "Stopping"
    BY <2>1, BlockOK, BlockIs DEF Is
  <2> QED
    BY <1>1, <1>2, <1>7, <2>1, <2>2, ReturnStep
<1> QED
  BY <1>4, <1>5, <1>6, <1>7 DEF LaunchUnit, with

\* The first observation makes a live unit the session.
LEMMA ObserveUnitStep ==
  ASSUME IInv, NEW l \in Launch, ObserveUnit(l)
  PROVE  StepOK
<1>1. /\ prep.launch = l /\ prep.at = "launched"
      /\ UNCHANGED <<phase, pending, bound, blocked, promised, call, crashes>>
  BY DEF ObserveUnit
<1>2. HostOK(host) /\ host \in Host /\ LiveIds(host) \subseteq {l} /\ host.kind # "Stopping"
      /\ (LiveIds(host) = {} => Tracked(host))
      /\ (host.lease # Nobody => host.lease # host.seat)
      /\ {"Live", "Stopping"} \subseteq Kind /\ l \in Maybe /\ l # Nobody
      /\ worker[l] = "launching"
  BY <1>1, PrepIdle, HostConstants DEF IInv, LockOK, Kind, Maybe
<1>3. ASSUME NEW h, Return(l, h), HostOK(h), Tracked(h), h.unit = host.unit,
             h.kind = "Stopping" => h.unit[h.launch] # "running"
      PROVE  StepOK
  BY <1>1, <1>2, <1>3, ReturnStep
<1>4. ASSUME NEW f \in Faulty(host), Return(l, Block(f))
      PROVE  StepOK
  BY <1>2, <1>3, <1>4, FaultyOK, BlockOK, BlockIs DEF HostOK, Is
<1>5. CASE host.unit[l] = "running"
  <2> DEFINE g == Set(host, "Live", l)
             h == [g EXCEPT !.lease = l]
  <2>1. Is(g, "Live", l, host.journal, host.journalPhase, host.unit, host.lease, host.seat)
    BY <1>2, SetIs
  <2>2. Is(h, g.kind, g.launch, g.journal, g.journalPhase, g.unit, l, g.seat)
    <3> HIDE DEF g
    <3> QED
      BY <1>2, <2>1, LeaseIs DEF Is
  <2>3. HostOK(h) /\ Tracked(h) /\ h.unit = host.unit /\ h.kind = "Live"
    BY <1>2, <1>5, <2>1, <2>2 DEF Is, HostOK, Tracked, LiveIds, Unknown
  <2>4. \E r \in {h} \cup {Block(f) : f \in Faulty(host)} : Return(l, r)
    BY <1>5 DEF ObserveUnit, Completed
  <2> QED
    BY <1>3, <1>4, <2>3, <2>4
<1>6. CASE host.unit[l] = "stopping"
  <2> DEFINE h == Set(host, "Stopping", l)
  <2>1. Is(h, "Stopping", l, host.journal, host.journalPhase, host.unit, host.lease, host.seat)
    BY <1>2, SetIs
  <2>2. HostOK(h) /\ Tracked(h) /\ h.unit = host.unit /\ h.launch = l
    BY <1>2, <1>6, <2>1 DEF Is, HostOK, Tracked, LiveIds, Unknown
  <2>3. \E r \in {h} \cup {Block(f) : f \in Faulty(host)} : Return(l, r)
    BY <1>6 DEF ObserveUnit, Completed
  <2> QED
    BY <1>3, <1>4, <1>6, <2>2, <2>3
<1>7. host.unit[l] \notin {"running", "stopping"} => LiveIds(host) = {}
  BY <1>2 DEF LiveIds
<1>8. CASE Completed(host, l)
  <2>1. LiveIds(host) = {}
    BY <1>7, <1>8 DEF Completed
  <2>2. \E r \in DiscardTo(host, "NoActive", Nobody) \cup Faulty(host)
                 \cup {Block(f) : f \in Faulty(host)} : Return(l, r)
    BY <1>8 DEF ObserveUnit, Completed
  <2>3. ASSUME NEW h \in DiscardTo(host, "NoActive", Nobody), Return(l, h)
        PROVE  StepOK
    BY <1>1, <1>2, <2>1, <2>3, UndoStep DEF Maybe
  <2>4. ASSUME NEW f \in Faulty(host), Return(l, f)
        PROVE  StepOK
    BY <1>2, <1>3, <2>1, <2>4, FaultyOK
  <2> QED
    BY <1>4, <2>2, <2>3, <2>4
<1>9. CASE host.unit[l] = "failed"
  <2>1. LiveIds(host) = {}
    BY <1>7, <1>9
  <2>2. \E r \in DiscardTo(ClearFailed(host, l), "Failed", l)
                 \cup {Block(f) : f \in Faulty(host)} : Return(l, r)
    BY <1>9 DEF ObserveUnit, Completed
  <2>3. LET c == ClearFailed(host, l) IN
        HostOK(c) /\ LiveIds(c) = {} /\ c.unit[l] = "gone" /\ SameUnits(host, c)
    BY <1>2, <1>9, <2>1, ClearFailedOK
  <2>4. ASSUME NEW h \in DiscardTo(ClearFailed(host, l), "Failed", l), Return(l, h)
        PROVE  StepOK
    <3>1. h \in CompleteTo(ClearFailed(host, l), "Failed", l)
      BY <2>4 DEF CompleteTo
    <3>2. HostOK(h) /\ Tracked(h) /\ h.unit = ClearFailed(host, l).unit /\ h.kind # "Stopping"
      BY <1>2, <2>3, <3>1, CompleteOK
    <3> QED
      BY <1>1, <1>2, <2>3, <2>4, <3>2, ReturnStep DEF SameUnits
  <2> QED
    BY <1>4, <2>2, <2>4
<1> QED
  BY <1>2, <1>5, <1>6, <1>8, <1>9, HostFields DEF Completed

\* A step under a free lock that keeps the units, and notes the stops given up.
LEMMA LockedIInv ==
  ASSUME IInv, prep.launch = Nobody, UNCHANGED <<phase, prep, crashes>>, Resolves(host, host'),
         worker' \in [Launch -> Reservations!WorkerState],
         \A m \in Launch :
            worker'[m] = worker[m] \/ (worker[m] = "stopping" /\ worker'[m] = "done"),
         blocked' \subseteq Launch, CallsOK'
  PROVE  IInv'
<1>1. ResvOK' /\ NotStarted'
  BY DEF IInv, ResvOK, NotStarted, Resolves, SameUnits
<1>2. LockOK'
  BY DEF IInv, LockOK
<1> QED
  BY <1>1, <1>2 DEF IInv, Resolves

\* What the reservations see of such a step: a stop that is given up lets its
\* unit run on.
LEMMA LockedViews ==
  ASSUME IInv, prep.launch = Nobody, Resolves(host, host'),
         \A m \in Launch : worker'[m] = worker[m] \/ (worker[m] = "stopping" /\ worker'[m] = "done")
  PROVE  /\ \A m \in Launch : worker[m] \notin {"effects", "launching"}
         /\ \A m \in Launch \ GivenUp : View(worker'[m], host', m) = View(worker[m], host, m)
         /\ \A m \in GivenUp : /\ View(worker[m], host, m) = "stopping"
                              /\ View(worker'[m], host', m) = "live"
                              /\ GivenUp = {m}
<1>1. \A m \in Launch : worker[m] \notin {"effects", "launching"}
                       /\ worker'[m] \notin {"effects", "launching"}
  BY HostConstants DEF IInv, LockOK
<1>2. ASSUME NEW m \in Launch \ GivenUp
      PROVE  View(worker'[m], host', m) = View(worker[m], host, m)
  <2>1. host.unit[m] = "running" =>
          ((host'.kind = "Stopping" /\ host'.launch = m)
           <=> host.kind = "Stopping" /\ host.launch = m)
    BY <1>2 DEF GivenUp, Resolves, SameUnits
  <2> QED
    BY <1>1, <2>1 DEF View, Resolves, SameUnits
<1>3. ASSUME NEW m \in GivenUp
      PROVE  /\ View(worker[m], host, m) = "stopping" /\ View(worker'[m], host', m) = "live"
             /\ GivenUp = {m}
  BY <1>1 DEF GivenUp, View, Resolves, SameUnits
<1> QED
  BY <1>1, <1>2, <1>3

\* What a status poll makes of the session.
LEMMA StatusResolves ==
  ASSUME IInv, Status
  PROVE  prep.launch = Nobody /\ Resolves(host, host')
<1>1. PICK r \in Refresh(host) : host' \in Observe(r)
  BY DEF Status
<1>2. prep.launch = Nobody /\ HostOK(host) /\ Tracked(host)
  BY DEF Status, Unlocked, NoPrep, IInv
<1>3. Resolves(host, r) /\ (r = host \/ host.kind \in Unknown)
  BY <1>1, <1>2, RefreshOK
<1>4. Resolves(r, host') /\ (r.kind \notin {"Live", "Stopping"} => host' = r)
  BY <1>1, <1>3, ObserveOK DEF Resolves
<1>5. host'.kind = "Stopping" => host'.launch \in Launch
  BY <1>4, HostFields DEF Resolves, HostOK, Maybe, Unknown
<1> QED
  BY <1>2, <1>3, <1>4, <1>5 DEF Resolves, SameUnits, Unknown

\* A status poll gives up a stop, retires a launch, or shows the reservations nothing.
LEMMA StatusStep ==
  ASSUME IInv, Status
  PROVE  StepOK
<1>1. prep.launch = Nobody /\ Resolves(host, host')
  BY StatusResolves
<1>2. UNCHANGED <<phase, worker, prep, call, crashes>> /\ blocked' = blocked \cup GivenUp
  BY DEF Status
<1>3. blocked' \subseteq Launch
  BY <1>2 DEF GivenUp, IInv, ResvOK
<1>4. CallsOK'
  BY <1>1, <1>2 DEF CallsOK, IInv, Resolves, SameUnits, GivenUp
<1>5. IInv'
  BY <1>1, <1>2, <1>3, <1>4, LockedIInv DEF IInv, ResvOK
<1>6. RStep
  <2>1. CASE GivenUp # {}
    <3>1. PICK m \in Launch : GivenUp = {m} /\ Native[m] = "stopping"
                             /\ Native' = [Native EXCEPT ![m] = "live"]
      BY <1>1, <1>2, <2>1, LockedViews, NativeMoves DEF GivenUp
    <3>2. pending' = pending
      BY <2>1 DEF Status, GivenUp
    <3>3. Reservations!StopFails(m)
      BY <3>1, <3>2 DEF Status, Reservations!StopFails
    <3> QED
      BY <3>3 DEF RStep, Reservations!Next, Reservations!Request
  <2>2. CASE GivenUp = {}
    <3>1. Native' = Native /\ blocked' = blocked
      BY <1>1, <1>2, <2>2, LockedViews, NativeStays
    <3>2. CASE pending' = pending
      BY <1>2, <3>1, <3>2 DEF Status, RStep, Reservations!rvars
    <3>3. CASE pending' # pending
      <4> DEFINE l == host'.launch
      <4>1. /\ host'.kind \in {"Completed", "Failed"} /\ l \in pending
            /\ phase[l] \in Reservations!Committed /\ pending' = pending \ {l}
        BY <3>3 DEF Status
      <4>2. l \in Launch
        BY <1>1, <4>1, HostFields DEF Resolves, HostOK, Maybe, Unknown
      <4>3. host.unit[l] \in {"failed", "gone"} /\ worker[l] \notin {"effects", "launching"}
        BY <1>1, <1>2, <4>1, <4>2, LockedViews DEF Resolves, HostOK, SameUnits
      <4>4. Native[l] = "ended"
        BY <4>2, <4>3, NativeView DEF View
      <4>5. Reservations!RetireCompleted(l)
        BY <1>2, <3>1, <4>1, <4>4 DEF Status, Reservations!RetireCompleted
      <4> QED
        BY <4>2, <4>5 DEF RStep, Reservations!Next
    <3> QED
      BY <3>2, <3>3
  <2> QED
    BY <2>1, <2>2
<1> QED
  BY <1>5, <1>6 DEF StepOK

\* The exact stop of actor a answers with the host h: it gives up no stop but
\* its own, and a worker that reports leaves no running unit behind that is not
\* being stopped or left to recovery.
Reports(a, h) ==
    /\ Answer(a, h) /\ Resolves(host, h)
    /\ a \in Launch =>
         /\ worker[a] = "stopping"
         /\ host.kind = "Stopping" /\ h # host => host.launch = a
         /\ h.kind \notin Unknown /\ h.unit[a] = "running" =>
              a \in blocked \/ (h.kind = "Stopping" /\ h.launch = a)

\* The answer of an exact stop: of a worker, or of a client.
LEMMA ReportsStep ==
  ASSUME IInv, prep.launch = Nobody, UNCHANGED <<phase, pending, bound, promised, prep, crashes>>,
         NEW a \in Actor, NEW h, Reports(a, h)
  PROVE  StepOK
<1>1. /\ host' = h /\ call' = [call EXCEPT ![a] = NoCall]
      /\ worker' = [w \in Launch |-> IF w = a THEN "done" ELSE worker[w]]
      /\ blocked \cup GivenUp \subseteq blocked' /\ blocked' \subseteq Launch
  BY DEF Reports, Answer, GivenUp, IInv, ResvOK
<1>2. worker' \in [Launch -> Reservations!WorkerState]
  BY <1>1 DEF IInv, ResvOK, Reservations!WorkerState
<1>3. \A m \in Launch : worker'[m] = worker[m] \/ (worker[m] = "stopping" /\ worker'[m] = "done")
  BY <1>1 DEF Reports
<1>4. CallsOK'
  <2>1. call' \in [Actor -> [at : {"idle", "helper", "relock"}, launch : Maybe,
                             seatFailed : BOOLEAN, ok : BOOLEAN]]
    BY <1>1 DEF IInv, CallsOK, NoCall, Maybe
  <2>2. ASSUME NEW b \in Actor, call'[b].at # "idle"
        PROVE  call'[b] = call[b] /\ b # a
    BY <1>1, <2>2 DEF IInv, CallsOK, NoCall
  <2> QED
    BY <1>1, <2>1, <2>2 DEF IInv, CallsOK, Reports, Resolves, SameUnits, GivenUp
<1>5. IInv' /\ Resolves(host, host')
  BY <1>1, <1>2, <1>3, <1>4, LockedIInv DEF Reports
<1>6. CASE a \notin Launch
  <2>1. worker' = worker /\ blocked' = blocked \cup GivenUp
    BY <1>1, <1>6 DEF Reports, Answer, IInv, ResvOK
  <2>2. CASE GivenUp # {}
    <3>1. PICK m \in Launch : GivenUp = {m} /\ Native[m] = "stopping"
                             /\ Native' = [Native EXCEPT ![m] = "live"]
      BY <1>3, <1>5, <2>2, LockedViews, NativeMoves DEF GivenUp
    <3>2. Reservations!StopFails(m)
      BY <2>1, <3>1 DEF Reservations!StopFails
    <3> QED
      BY <1>5, <3>2 DEF StepOK, RStep, Reservations!Next, Reservations!Request
  <2>3. CASE GivenUp = {}
    <3>1. Native' = Native /\ blocked' = blocked
      BY <1>3, <1>5, <2>1, <2>3, LockedViews, NativeStays
    <3> QED
      BY <1>5, <2>1, <3>1 DEF StepOK, RStep, Reservations!rvars
  <2> QED
    BY <2>2, <2>3
<1>7. CASE a \in Launch
  <2>1. /\ worker[a] = "stopping" /\ worker' = [worker EXCEPT ![a] = "done"]
        /\ \A m \in Launch : worker[m] \notin {"effects", "launching"}
    BY <1>1, <1>3, <1>5, <1>7, LockedViews DEF Reports, IInv, ResvOK
  <2>2. GivenUp \subseteq {a}
    BY <1>1, <1>7 DEF Reports, GivenUp
  <2>3. /\ Native' = [Native EXCEPT ![a] = View(worker'[a], host', a)]
        /\ Native[a] = View(worker[a], host, a)
        /\ View(worker'[a], host', a) \in
             {Native[a]} \cup {m \in {"live"} : Native[a] = "stopping" /\ a \in GivenUp}
    BY <1>3, <1>5, <1>7, <2>2, LockedViews, NativeMoves
  <2>4. CASE h.kind \in Unknown
    <3>1. blocked' = blocked \cup {a}
      BY <1>1, <1>7, <2>2, <2>4 DEF Reports, Answer, Unknown
    <3>2. Reservations!StopCancelled(a)
      BY <2>1, <2>3, <3>1 DEF Reservations!StopCancelled, Reservations!InEffects
    <3> QED
      BY <1>5, <1>7, <3>2 DEF StepOK, RStep, Reservations!Next, Reservations!WorkerStep
  <2>5. CASE h.kind \notin Unknown
    <3>1. GivenUp = {} /\ blocked' = blocked
      BY <1>1, <2>5 DEF Reports, Answer, Unknown, GivenUp
    <3>2. Native' = Native
      BY <1>3, <1>5, <3>1, LockedViews, NativeStays
    <3>3. Native[a] = "live" => a \in blocked
      <4>1. Native[a] = "live" => View(worker'[a], host', a) = "live"
        BY <2>3, <3>1
      <4> QED
        BY <1>1, <1>7, <2>1, <2>5, <4>1 DEF View, Reports
    <3>4. Native = [Native EXCEPT ![a] = Native[a]]
      BY NativeView
    <3>5. Reservations!StopCancelled(a)
      <4>1. CASE a \in blocked
        BY <2>1, <3>1, <3>2, <3>4, <4>1 DEF Reservations!StopCancelled, Reservations!InEffects
      <4>2. CASE Native[a] # "live"
        BY <2>1, <3>1, <3>2, <3>4, <4>2 DEF Reservations!StopCancelled, Reservations!InEffects
      <4> QED
        BY <3>3, <4>1, <4>2
    <3> QED
      BY <1>5, <1>7, <3>5 DEF StepOK, RStep, Reservations!Next, Reservations!WorkerStep
  <2> QED
    BY <2>4, <2>5
<1> QED
  BY <1>6, <1>7

\* The first half of a stop that finds its session live.
Stops(a, l) ==
    /\ \E h : /\ Resolves(host, h) /\ h.kind = "Live" /\ h.launch = l
              /\ (h = host \/ host.kind \in Unknown)
              /\ host'.unit = h.unit
    /\ HostOK(host') /\ Tracked(host') /\ host'.kind = "Stopping" /\ host'.launch = l
    /\ \E f \in BOOLEAN : call' = [call EXCEPT ![a] = [at |-> "helper", launch |-> l,
                                                       seatFailed |-> f, ok |-> TRUE]]
    /\ a \in Launch => a = l /\ worker[a] = "stopping"
    /\ UNCHANGED <<worker, blocked>>

\* A stop answers at once, or goes on to its helper.
LEMMA StopBeginCases ==
  ASSUME IInv, NEW a \in Actor, NEW l \in Launch, StopBegin(a, l)
  PROVE  /\ prep.launch = Nobody /\ UNCHANGED <<phase, pending, bound, promised, prep, crashes>>
         /\ call[a] = NoCall
         /\ (\E h : Reports(a, h)) \/ Stops(a, l)
<1>1. /\ call[a] = NoCall /\ prep.launch = Nobody /\ HostOK(host) /\ Tracked(host)
      /\ UNCHANGED <<phase, pending, bound, promised, prep, crashes>>
      /\ a \in Launch => a = l /\ worker[a] = "stopping"
      /\ l \in Maybe /\ "Stopping" \in Kind /\ "Completed" \in Kind
  BY DEF StopBegin, Unlocked, NoPrep, IInv, Maybe, Kind
<1>2. PICK h \in Refresh(host) :
         CASE h.kind = "Live" /\ h.launch = l ->
                \/ \E f \in Faulty(h) : Answer(a, Block(f))
                \/ \E failing \in BOOLEAN :
                   \E s \in IF failing THEN StopSeatsErr(h, l) ELSE StopSeatsOk(h, l) :
                      /\ host' = Set(s, "Stopping", l)
                      /\ call' = [call EXCEPT ![a] = [at |-> "helper", launch |-> l,
                                    seatFailed |-> failing, ok |-> TRUE]]
                      /\ UNCHANGED <<worker, blocked>>
           [] h.kind \in {"Completed", "Failed"} /\ h.launch = l ->
                Answer(a, Set(h, "Completed", l))
           [] OTHER -> \E u \in Unlock(h) : Answer(a, u)
  BY DEF StopBegin
<1>3. Resolves(host, h) /\ (h = host \/ host.kind \in Unknown) /\ HostOK(h) /\ Tracked(h)
      /\ h \in Host
  BY <1>1, RefreshOK DEF Resolves, HostOK
<1>4. CASE h.kind = "Live" /\ h.launch = l
  <2>1. \/ \E f \in Faulty(h) : Answer(a, Block(f))
        \/ \E failing \in BOOLEAN :
           \E s \in IF failing THEN StopSeatsErr(h, l) ELSE StopSeatsOk(h, l) :
              /\ host' = Set(s, "Stopping", l)
              /\ call' = [call EXCEPT ![a] = [at |-> "helper", launch |-> l,
                            seatFailed |-> failing, ok |-> TRUE]]
              /\ UNCHANGED <<worker, blocked>>
    BY <1>2, <1>4
  <2>2. ASSUME NEW f \in Faulty(h), Answer(a, Block(f))
        PROVE  Reports(a, Block(f))
    <3>1. HostOK(f) /\ f \in Host /\ f.unit = h.unit
      BY <1>3, FaultyOK DEF HostOK
    <3>2. HostOK(Block(f)) /\ Tracked(Block(f)) /\ Block(f).unit = h.unit
          /\ Block(f).kind = "RecoveryBlocked"
      BY <3>1, BlockOK, BlockIs DEF Is
    <3> QED
      BY <1>1, <1>3, <1>4, <2>2, <3>2 DEF Reports, Resolves, SameUnits, Unknown
  <2>3. ASSUME NEW failing \in BOOLEAN, NEW s \in StopSeats(h, l),
               host' = Set(s, "Stopping", l),
               call' = [call EXCEPT ![a] = [at |-> "helper", launch |-> l,
                            seatFailed |-> failing, ok |-> TRUE]],
               UNCHANGED <<worker, blocked>>
        PROVE  Stops(a, l)
    <3>1. \E e \in {h.lease, Nobody} :
            Is(s, h.kind, h.launch, h.journal, h.journalPhase, h.unit, e, h.seat)
      BY <1>3, StopSeatsOK
    <3>2. s \in Host
      BY <3>1 DEF Is
    <3>3. Is(host', "Stopping", l, s.journal, s.journalPhase, s.unit, s.lease, s.seat)
      BY <1>1, <2>3, <3>2, SetIs
    <3>4. HostOK(s) /\ Tracked(s) /\ s.kind = "Live" /\ s.launch = l /\ s.unit = h.unit
      BY <1>3, <1>4, <3>1, StopSeatsOK DEF Is
    <3>5. HostOK(host') /\ Tracked(host') /\ host'.kind = "Stopping" /\ host'.launch = l
          /\ host'.unit = h.unit
      BY <3>3, <3>4, HostConstants DEF Is, HostOK, Tracked, LiveIds, Unknown
    <3> QED
      BY <1>1, <1>3, <1>4, <2>3, <3>5 DEF Stops
  <2> QED
    BY <1>1, <2>1, <2>2, <2>3 DEF StopSeats
<1>5. CASE h.kind \in {"Completed", "Failed"} /\ h.launch = l
  <2> DEFINE r == Set(h, "Completed", l)
  <2>1. Answer(a, r)
    BY <1>2, <1>5
  <2>2. Is(r, "Completed", l, h.journal, h.journalPhase, h.unit, h.lease, h.seat)
    BY <1>1, <1>3, SetIs
  <2>3. HostOK(r) /\ Tracked(r) /\ r.unit = h.unit /\ r.unit[l] = "gone" /\ r.kind = "Completed"
    BY <1>3, <1>5, <2>2, HostConstants DEF Is, HostOK, Tracked, LiveIds, Unknown
  <2> HIDE DEF r
  <2>4. Reports(a, r)
    BY <1>1, <1>3, <1>5, <2>1, <2>3 DEF Reports, Resolves, SameUnits, Unknown
  <2> QED
    BY <1>1, <2>4
<1>6. CASE /\ ~(h.kind = "Live" /\ h.launch = l)
           /\ ~(h.kind \in {"Completed", "Failed"} /\ h.launch = l)
  <2>1. PICK u \in Unlock(h) : Answer(a, u)
    BY <1>2, <1>6
  <2>2. /\ HostOK(u) /\ Tracked(u) /\ u.unit = h.unit
        /\ \/ u = h
           \/ h.kind = "Live" /\ u.kind = "Live" /\ u.launch = h.launch
           \/ h.kind = "Live" /\ u.kind = "RecoveryBlocked"
    BY <1>3, UnlockOK
  <2>3. u.kind \notin Unknown /\ u.unit[l] = "running" => u.kind = "Stopping" /\ u.launch = l
    BY <1>6, <2>2 DEF Tracked, LiveIds, Unknown
  <2>4. Resolves(host, u)
    BY <1>1, <1>3, <2>2 DEF Resolves, SameUnits, Unknown
  <2>5. Reports(a, u)
    BY <1>1, <1>3, <2>1, <2>2, <2>3, <2>4 DEF Reports, Unknown
  <2> QED
    BY <1>1, <2>5
<1> QED
  BY <1>4, <1>5, <1>6

\* The stop of a running unit is accepted here.
LEMMA StopBeginStep ==
  ASSUME IInv, NEW a \in Actor, NEW l \in Launch, StopBegin(a, l)
  PROVE  StepOK
<1>1. /\ prep.launch = Nobody /\ UNCHANGED <<phase, pending, bound, promised, prep, crashes>>
      /\ (\E h : Reports(a, h)) \/ Stops(a, l)
  BY StopBeginCases
<1>2. CASE \E h : Reports(a, h)
  BY <1>1, <1>2, ReportsStep
<1>3. CASE Stops(a, l)
  <2>1. PICK h : Resolves(host, h) /\ h.kind = "Live" /\ h.launch = l
                 /\ (h = host \/ host.kind \in Unknown) /\ host'.unit = h.unit
    BY <1>3 DEF Stops
  <2>2. SameUnits(host, host') /\ host.kind # "Stopping"
    BY <2>1 DEF Resolves, SameUnits, Unknown
  <2>3. PICK f \in BOOLEAN : call' = [call EXCEPT ![a] = [at |-> "helper", launch |-> l,
                                                       seatFailed |-> f, ok |-> TRUE]]
    BY <1>3 DEF Stops
  <2>4. /\ call' \in [Actor -> [at : {"idle", "helper", "relock"}, launch : Maybe,
                                seatFailed : BOOLEAN, ok : BOOLEAN]]
        /\ call'[a].at = "helper" /\ call'[a].launch = l
        /\ \A b \in Actor \ {a} : call'[b] = call[b]
    BY <2>3 DEF IInv, CallsOK, Maybe
  <2>5. CallsOK'
    BY <1>3, <2>2, <2>4 DEF IInv, CallsOK, Stops, SameUnits
  <2>6. ResvOK' /\ NotStarted' /\ LockOK'
    BY <1>1, <1>3, <2>2 DEF IInv, ResvOK, NotStarted, LockOK, Stops, SameUnits
  <2>7. IInv'
    BY <1>1, <1>3, <2>5, <2>6 DEF IInv, Stops
  <2>8. UNCHANGED <<worker, blocked>> /\ host'.kind = "Stopping" /\ host'.launch = l
        /\ \A m \in Launch : worker[m] \notin {"effects", "launching"}
    BY <1>1, <1>3, HostConstants DEF Stops, IInv, LockOK
  <2>9. \A m \in Launch \ {l} : View(worker'[m], host', m) = View(worker[m], host, m)
    BY <2>2, <2>8 DEF View, SameUnits
  <2>10. View(worker'[l], host', l) =
           (IF View(worker[l], host, l) = "live" THEN "stopping" ELSE View(worker[l], host, l))
    BY <2>2, <2>8 DEF View, SameUnits
  <2>11. RStep
    <3>1. CASE Native[l] = "live"
      <4>1. Reservations!StopNative(l)
        BY <1>1, <2>8, <2>9, <2>10, <3>1, NativeMoves DEF Reservations!StopNative
      <4> QED
        BY <4>1 DEF RStep, Reservations!Next, Reservations!Request
    <3>2. CASE Native[l] # "live"
      BY <1>1, <2>8, <2>9, <2>10, <3>2, NativeMoves DEF RStep, Reservations!rvars
    <3> QED
      BY <3>1, <3>2
  <2> QED
    BY <2>7, <2>11 DEF StepOK
<1> QED
  BY <1>1, <1>2, <1>3

\* A unit may move from v to u: towards its end, or not at all.
UnitStep(v, u) ==
    /\ (v = "absent") = (u = "absent")
    /\ u = "running" => v = "running"
    /\ u = "stopping" => v \in {"running", "stopping"}
    /\ v = "gone" => u = "gone"
    /\ u \in {"absent", "running", "stopping", "failed", "gone"}

\* A unit that moves towards its end keeps the host in order.
LEMMA UnitMoves ==
  ASSUME NEW h, HostOK(h), NEW l \in Launch, NEW u, NEW r, UnitStep(h.unit[l], u),
         Is(r, h.kind, h.launch, h.journal, h.journalPhase, [h.unit EXCEPT ![l] = u],
            h.lease, h.seat)
  PROVE  /\ HostOK(r) /\ (Tracked(h) => Tracked(r)) /\ LiveIds(r) \subseteq LiveIds(h)
         /\ r.unit[l] = u /\ \A m \in Launch \ {l} : r.unit[m] = h.unit[m]
<1>1. r.unit[l] = u /\ \A m \in Launch \ {l} : r.unit[m] = h.unit[m]
  BY HostFields DEF Is, HostOK
<1>2. LiveIds(r) \subseteq LiveIds(h)
  BY <1>1 DEF LiveIds, UnitStep
<1>3. HostOK(r) /\ (Tracked(h) => Tracked(r))
  BY <1>1, <1>2, HostFields DEF HostOK, Tracked, Is, Maybe, Unknown, UnitStep
<1> QED
  BY <1>1, <1>2, <1>3

\* The units move on outside the lock: what is prepared, called and journaled
\* stays as it is.
LEMMA MovesStep ==
  ASSUME IInv, HostOK(host'), Tracked(host) => Tracked(host'),
         LiveIds(host') \subseteq LiveIds(host),
         NEW l \in Launch, UnitStep(host.unit[l], host'.unit[l]),
         \A m \in Launch \ {l} : host'.unit[m] = host.unit[m],
         host'.kind = host.kind, host'.launch = host.launch, host'.journal = host.journal,
         host'.journalPhase = host.journalPhase, host'.lease = host.lease, host'.seat = host.seat,
         UNCHANGED <<resv, prep, crashes>>,
         call' \in [Actor -> [at : {"idle", "helper", "relock"}, launch : Maybe,
                              seatFailed : BOOLEAN, ok : BOOLEAN]],
         \A a \in Actor : call'[a].launch = call[a].launch
                          /\ (call'[a].at = "idle" <=> call[a].at = "idle")
  PROVE  StepOK
<1>1. ResvOK' /\ NotStarted'
  BY DEF IInv, ResvOK, NotStarted, resv, UnitStep
<1>2. LockOK'
  BY DEF IInv, LockOK, resv, Maybe, UnitStep
<1>3. CallsOK'
  BY DEF IInv, CallsOK, resv, Actor, UnitStep
<1>4. IInv'
  BY <1>1, <1>2, <1>3 DEF IInv
<1>5. RStep
  <2> DEFINE v == View(worker[l], host, l)
             u == View(worker'[l], host', l)
  <2>1. \A m \in Launch \ {l} : View(worker'[m], host', m) = View(worker[m], host, m)
    BY DEF View, resv
  <2>2. u = v \/ (v = "live" /\ u = "stopping") \/ (v \in {"live", "stopping"} /\ u = "ended")
    BY HostFields DEF View, resv, UnitStep, IInv, HostOK
  <2> HIDE DEF u, v
  <2>3. /\ Native[l] = v /\ Native' = [Native EXCEPT ![l] = u]
        /\ u = v => Native' = Native
    BY <2>1, NativeMoves DEF u, v
  <2>4. CASE u = v
    BY <2>3, <2>4 DEF RStep, Reservations!rvars, resv
  <2>5. CASE v = "live" /\ u = "stopping"
    <3>1. Reservations!StopNative(l)
      BY <2>3, <2>5 DEF Reservations!StopNative, resv
    <3> QED
      BY <3>1 DEF RStep, Reservations!Next, Reservations!Request
  <2>6. CASE v \in {"live", "stopping"} /\ u = "ended"
    <3>1. Reservations!NativeEnds(l)
      BY <2>3, <2>6 DEF Reservations!NativeEnds, resv
    <3> QED
      BY <3>1 DEF RStep, Reservations!Next
  <2> QED
    BY <2>2, <2>4, <2>5, <2>6
<1> QED
  BY <1>4, <1>5 DEF StepOK

\* The stop helper moves its unit, or fails.
LEMMA StopHelperMoves ==
  ASSUME IInv, NEW a \in Actor, StopHelper(a)
  PROVE  /\ call[a].launch \in Launch
         /\ \E u \in {host.unit[call[a].launch], "stopping", "gone"} :
              /\ u = "stopping" => host.unit[call[a].launch] \in {"running", "stopping"}
              /\ u = "gone" => host.unit[call[a].launch] \in {"failed", "gone"}
              /\ \E r : /\ r = [host EXCEPT !.unit[call[a].launch] = u]
                        /\ host' = r \/ host' \in Faulty(r)
         /\ \E f \in {call[a].ok, FALSE} : call' = [call EXCEPT ![a].at = "relock", ![a].ok = f]
         /\ UNCHANGED <<resv, prep, crashes>>
<1> DEFINE l == call[a].launch
           u == CASE host.unit[l] = "running" -> "stopping"
                  [] host.unit[l] = "failed" -> "gone"
                  [] OTHER -> host.unit[l]
           told == [host EXCEPT !.unit[l] = u]
<1>1. l \in Launch /\ host \in Host /\ UNCHANGED <<resv, prep, crashes>>
      /\ call \in [Actor -> [at : {"idle", "helper", "relock"}, launch : Maybe,
                             seatFailed : BOOLEAN, ok : BOOLEAN]]
  BY DEF StopHelper, IInv, CallsOK, HostOK
<1>2. \/ /\ host' = told
         /\ call' = [call EXCEPT ![a].at = "relock"]
      \/ /\ host' \in Faulty(host) \cup Faulty(told)
         /\ call' = [call EXCEPT ![a].at = "relock", ![a].ok = FALSE]
  BY DEF StopHelper
<1>3. host = [host EXCEPT !.unit[l] = host.unit[l]]
  BY <1>1 DEF Host
<1>4. [call EXCEPT ![a].at = "relock"] = [call EXCEPT ![a].at = "relock", ![a].ok = call[a].ok]
  BY <1>1
<1>5. /\ u \in {host.unit[l], "stopping", "gone"}
      /\ u = "stopping" => host.unit[l] \in {"running", "stopping"}
      /\ u = "gone" => host.unit[l] \in {"failed", "gone"}
  OBVIOUS
<1> HIDE DEF u
<1>6. CASE host' \in Faulty(host)
  BY <1>1, <1>2, <1>3, <1>4, <1>6
<1>7. CASE host' = told \/ host' \in Faulty(told)
  BY <1>1, <1>2, <1>4, <1>5, <1>7
<1> QED
  BY <1>2, <1>6, <1>7

\* The helper outside the lock.
LEMMA StopHelperStep ==
  ASSUME IInv, NEW a \in Actor, StopHelper(a)
  PROVE  StepOK
<1> DEFINE l == call[a].launch
<1>1. l \in Launch /\ HostOK(host) /\ host \in Host
  BY StopHelperMoves DEF IInv, HostOK
<1>2. PICK u \in {host.unit[l], "stopping", "gone"} :
              /\ u = "stopping" => host.unit[l] \in {"running", "stopping"}
              /\ u = "gone" => host.unit[l] \in {"failed", "gone"}
              /\ \E r : /\ r = [host EXCEPT !.unit[l] = u]
                        /\ host' = r \/ host' \in Faulty(r)
  BY StopHelperMoves
<1> DEFINE r == [host EXCEPT !.unit[l] = u]
<1> HIDE DEF l
<1>3. u \in {"absent", "running", "stopping", "failed", "gone"}
  BY <1>1, HostFields
<1>4. /\ HostOK(r) /\ (Tracked(host) => Tracked(r)) /\ LiveIds(r) \subseteq LiveIds(host)
      /\ r.unit[l] = u /\ \A m \in Launch \ {l} : r.unit[m] = host.unit[m]
      /\ Is(r, host.kind, host.launch, host.journal, host.journalPhase,
            [host.unit EXCEPT ![l] = u], host.lease, host.seat)
  <2>1. UnitStep(host.unit[l], u)
    BY <1>1, <1>2, <1>3 DEF UnitStep
  <2>2. Is(r, host.kind, host.launch, host.journal, host.journalPhase,
           [host.unit EXCEPT ![l] = u], host.lease, host.seat)
    BY <1>1, <1>3, UnitIs
  <2> HIDE DEF r
  <2> QED
    BY <1>1, <2>1, <2>2, UnitMoves
<1>5. host' = r \/ host' \in Faulty(r)
  BY <1>2
<1> HIDE DEF r
<1>6. Is(host', r.kind, r.launch, r.journal, r.journalPhase, r.unit, r.lease, r.seat)
      /\ HostOK(host') /\ (Tracked(r) => Tracked(host'))
  BY <1>4, <1>5, FaultyOK, FaultyIs DEF Is
<1>7. PICK f \in {call[a].ok, FALSE} : call' = [call EXCEPT ![a].at = "relock", ![a].ok = f]
  BY StopHelperMoves
<1>8. /\ call' \in [Actor -> [at : {"idle", "helper", "relock"}, launch : Maybe,
                              seatFailed : BOOLEAN, ok : BOOLEAN]]
      /\ \A b \in Actor : call'[b].launch = call[b].launch
                          /\ (call'[b].at = "idle" <=> call[b].at = "idle")
  BY <1>7 DEF IInv, CallsOK, StopHelper
<1>9. UNCHANGED <<resv, prep, crashes>>
  BY DEF StopHelper
<1>10. /\ LiveIds(host') \subseteq LiveIds(host) /\ UnitStep(host.unit[l], host'.unit[l])
       /\ \A m \in Launch \ {l} : host'.unit[m] = host.unit[m]
  BY <1>2, <1>3, <1>4, <1>6, HostFields DEF Is, LiveIds, UnitStep
<1> QED
  BY <1>1, <1>4, <1>6, <1>8, <1>9, <1>10, MovesStep DEF Is

\* The late half of a stop touches nothing but its own session.
LEMMA StopEndReports ==
  ASSUME IInv, NEW a \in Actor, StopEnd(a)
  PROVE  /\ prep.launch = Nobody /\ UNCHANGED <<phase, pending, bound, promised, prep, crashes>>
         /\ \E h : Reports(a, h) /\ (host.launch # call[a].launch => h = host)
<1> DEFINE l == call[a].launch
<1>1. /\ prep.launch = Nobody /\ HostOK(host) /\ Tracked(host) /\ l \in Launch /\ l \in Maybe
      /\ UNCHANGED <<phase, pending, bound, promised, prep, crashes>>
      /\ host \in Host /\ "Completed" \in Kind
      /\ a \in Launch => /\ a = l /\ worker[a] = "stopping"
                         /\ host.unit[a] = "running" =>
                              a \in blocked \/ (host.kind = "Stopping" /\ host.launch = a)
  BY DEF StopEnd, Unlocked, NoPrep, IInv, CallsOK, Maybe, Kind, HostOK
<1>2. CASE host.kind \in {"Completed", "Failed"} /\ host.launch = l
  <2> DEFINE r == Set(host, "Completed", l)
  <2>1. Answer(a, r)
    BY <1>2 DEF StopEnd
  <2>2. Is(r, "Completed", l, host.journal, host.journalPhase, host.unit, host.lease, host.seat)
    BY <1>1, SetIs
  <2>3. HostOK(r) /\ Tracked(r) /\ r.unit = host.unit /\ r.unit[l] = "gone" /\ r.kind = "Completed"
    BY <1>1, <1>2, <2>2, HostConstants DEF Is, HostOK, Tracked, LiveIds, Unknown
  <2> HIDE DEF r
  <2>4. Reports(a, r)
    BY <1>1, <1>2, <2>1, <2>3 DEF Reports, Resolves, SameUnits, Unknown
  <2> QED
    BY <1>1, <1>2, <2>4
<1>3. CASE /\ ~(host.kind \in {"Completed", "Failed"} /\ host.launch = l)
           /\ ~(host.kind = "Stopping" /\ host.launch = l) \/ host.journal \notin {l, Nobody}
  <2>1. Answer(a, host)
    BY <1>3 DEF StopEnd
  <2>2. Reports(a, host)
    BY <1>1, <2>1 DEF Reports, Resolves, SameUnits
  <2> QED
    BY <1>1, <2>2
<1>4. CASE host.kind = "Stopping" /\ host.launch = l /\ host.journal \in {l, Nobody}
  <2>1. \/ Completed(host, l) /\ \E h \in CompleteTo(host, "Completed", l) : Answer(a, h)
        \/ Answer(a, host)
        \/ Answer(a, Block(host))
        \/ \E f \in Faulty(host) : Answer(a, Block(f))
    BY <1>4 DEF StopEnd
  <2>2. ASSUME Completed(host, l), NEW h \in CompleteTo(host, "Completed", l), Answer(a, h)
        PROVE  Reports(a, h)
    <3>1. host.unit[l] = "gone" /\ LiveIds(host) = {}
      BY <1>1, <1>4, <2>2 DEF Completed, HostOK, Tracked, LiveIds, Unknown
    <3>2. /\ HostOK(h) /\ Tracked(h) /\ h.unit = host.unit
          /\ h.kind \in {"Completed", "RecoveryBlocked"}
      BY <1>1, <2>2, <3>1, CompleteOK
    <3> QED
      BY <1>1, <1>4, <2>2, <3>1, <3>2 DEF Reports, Resolves, SameUnits
  <2>3. ASSUME NEW f \in Faulty(host) \cup {host}, Answer(a, Block(f))
        PROVE  Reports(a, Block(f))
    <3>1. HostOK(f) /\ f \in Host /\ f.unit = host.unit
      BY <1>1, FaultyOK DEF HostOK
    <3>2. HostOK(Block(f)) /\ Tracked(Block(f)) /\ Block(f).unit = host.unit
          /\ Block(f).kind = "RecoveryBlocked"
      BY <3>1, BlockOK, BlockIs DEF Is
    <3> QED
      BY <1>1, <1>4, <2>3, <3>2 DEF Reports, Resolves, SameUnits, Unknown
  <2>4. Answer(a, host) => Reports(a, host)
    BY <1>1 DEF Reports, Resolves, SameUnits
  <2> QED
    BY <1>1, <1>4, <2>1, <2>2, <2>3, <2>4
<1> QED
  BY <1>2, <1>3, <1>4

\* The late half of a stop only answers.
LEMMA StopEndStep ==
  ASSUME IInv, NEW a \in Actor, StopEnd(a)
  PROVE  StepOK
  BY StopEndReports, ReportsStep

\* A unit that ends by itself.
LEMMA UnitEndsStep ==
  ASSUME IInv, NEW l \in Launch, UnitEnds(l)
  PROVE  StepOK
<1>1. PICK u \in {"stopping", "gone", "failed"} : host' = [host EXCEPT !.unit[l] = u]
  BY DEF UnitEnds
<1>2. HostOK(host) /\ host.unit[l] \in {"running", "stopping"}
  BY DEF UnitEnds, LiveIds, IInv
<1>3. /\ HostOK(host') /\ (Tracked(host) => Tracked(host'))
      /\ LiveIds(host') \subseteq LiveIds(host)
      /\ host'.unit[l] = u /\ \A m \in Launch \ {l} : host'.unit[m] = host.unit[m]
      /\ Is(host', host.kind, host.launch, host.journal, host.journalPhase,
            [host.unit EXCEPT ![l] = u], host.lease, host.seat)
  <2>1. UnitStep(host.unit[l], u) /\ u \in {"absent", "running", "stopping", "failed", "gone"}
    BY <1>2 DEF UnitStep
  <2>2. Is(host', host.kind, host.launch, host.journal, host.journalPhase,
           [host.unit EXCEPT ![l] = u], host.lease, host.seat)
    BY <1>1, <1>2, <2>1, UnitIs DEF HostOK
  <2> QED
    BY <1>2, <2>1, <2>2, UnitMoves
<1>4. UnitStep(host.unit[l], host'.unit[l])
  BY <1>2, <1>3 DEF UnitStep
<1>5. UNCHANGED <<resv, prep, call, crashes>>
  BY DEF UnitEnds
<1>6. call' \in [Actor -> [at : {"idle", "helper", "relock"}, launch : Maybe,
                           seatFailed : BOOLEAN, ok : BOOLEAN]]
  BY <1>5 DEF IInv, CallsOK
<1> QED
  BY <1>2, <1>3, <1>4, <1>5, <1>6, MovesStep DEF Is

\* A crash leaves the units and the journal to recovery.
LEMMA CrashStep ==
  ASSUME IInv, Crash
  PROVE  StepOK
<1> DEFINE g == Set(host, "RecoveryPending", Nobody)
<1>1. host \in Host /\ Nobody \in Maybe /\ "RecoveryPending" \in Kind
  BY DEF IInv, HostOK, Maybe, Kind
<1>2. Is(g, "RecoveryPending", Nobody, host.journal, host.journalPhase, host.unit,
         host.lease, host.seat)
  BY <1>1, SetIs
<1>3. PICK t \in BOOLEAN :
         host' = [g EXCEPT !.lease = Nobody, !.fenced = FALSE, !.temp = t]
  <2>1. host.temp \in BOOLEAN
    BY <1>1 DEF Host
  <2> QED
    BY <2>1, Zenon DEF Crash
<1> HIDE DEF g
<1>4. Is(host', "RecoveryPending", Nobody, host.journal, host.journalPhase, host.unit,
         Nobody, host.seat)
  BY <1>1, <1>2, <1>3 DEF Is, Host
<1>5. HostOK(host') /\ Tracked(host')
  BY <1>4 DEF IInv, HostOK, Tracked, Is, LiveIds, Unknown
<1>6. ResvOK' /\ NotStarted'
  BY <1>4 DEF Crash, IInv, ResvOK, NotStarted, Is, Reservations!Phase, Reservations!WorkerState
<1>7. LockOK'
  BY HostConstants DEF Crash, IInv, ResvOK, LockOK, NoPrep, PrepStep, Maybe
<1>8. CallsOK'
  BY DEF Crash, IInv, CallsOK, NoCall, Maybe
<1>9. crashes' \in 0..MaxCrashes
  BY HostConstants DEF Crash, IInv
<1>10. RStep
  <2>1. \A m \in Launch : worker'[m] \in {"idle", "done"}
    BY DEF Crash
  <2>2. ASSUME NEW m \in Launch
        PROVE  \/ View(worker'[m], host', m) = View(worker[m], host, m)
               \/ worker[m] = "launching"
               \/ View(worker[m], host, m) = "stopping" /\ View(worker'[m], host', m) = "live"
    <3>1. worker[m] = "effects" => host.unit[m] = "absent"
      BY HostConstants DEF IInv, LockOK
    <3> QED
      BY <1>4, <2>1, <3>1 DEF View, Is
  <2>3. \A m \in Launch : View(worker'[m], host', m) \in Reservations!NativeState
    BY <1>5, ViewType DEF HostOK
  <2>4. Native' \in [Launch -> Reservations!NativeState]
    BY <2>3, NativeView
  <2>5. \A m \in Launch : \/ Native'[m] = Native[m]
                          \/ worker[m] = "launching"
                          \/ Native[m] = "stopping" /\ Native'[m] = "live"
    BY <2>2, NativeView
  <2>6. Reservations!Crash
    BY <2>4, <2>5 DEF Crash, Reservations!Crash
  <2> QED
    BY <2>6 DEF RStep, Reservations!Next
<1> QED
  BY <1>5, <1>6, <1>7, <1>8, <1>9, <1>10 DEF IInv, StepOK

\* A fence changes nothing that the reservations see.
LEMMA FenceStep ==
  ASSUME IInv, Fence
  PROVE  StepOK
<1>1. PICK f \in Faulty(host) : host' = [f EXCEPT !.fenced = TRUE]
  BY DEF Fence
<1>2. UNCHANGED <<resv, prep, call, crashes>>
  BY DEF Fence
<1>3. Is(host', host.kind, host.launch, host.journal, host.journalPhase, host.unit,
         host.lease, host.seat)
  <2>1. host \in Host
    BY DEF IInv, HostOK
  <2>2. Is(f, host.kind, host.launch, host.journal, host.journalPhase, host.unit,
           host.lease, host.seat)
    BY <2>1, FaultyIs
  <2>3. Is([f EXCEPT !.fenced = TRUE], f.kind, f.launch, f.journal, f.journalPhase, f.unit,
           f.lease, f.seat)
    BY <2>2, MarkIs DEF Is
  <2> QED
    BY <1>1, <2>2, <2>3 DEF Is
<1>4. HostOK(host') /\ (Tracked(host) => Tracked(host')) /\ LiveIds(host') = LiveIds(host)
  BY <1>3 DEF IInv, HostOK, Tracked, Is, LiveIds
<1>5. ResvOK' /\ NotStarted'
  BY <1>2, <1>3 DEF resv, IInv, ResvOK, NotStarted, Is
<1>6. LockOK' /\ CallsOK'
  BY <1>2, <1>3, <1>4 DEF resv, IInv, LockOK, CallsOK, Is
<1>7. Native' = Native
  BY <1>2, <1>3, NativeStays DEF resv, View, Is
<1> QED
  BY <1>2, <1>4, <1>5, <1>6, <1>7 DEF resv, IInv, StepOK, RStep, Reservations!rvars

\* Every step of the session.
LEMMA NextStep == IInv /\ [Next]_hvars => StepOK
<1> SUFFICES ASSUME IInv, [Next]_hvars PROVE StepOK
  OBVIOUS
<1>1. ASSUME NEW l \in Launch,
             \/ \E c \in Caller, g \in Game : Reserve(l, c, g) \/ Start(l, c, g)
             \/ \E c \in Caller : CancelBeforeCommit(l, c) \/ CancelAfterCommit(l, c)
             \/ RouteReady(l) \/ Finish(l)
      PROVE  StepOK
  BY <1>1, OutsideStep
  DEF Reserve, Start, CancelBeforeCommit, CancelAfterCommit, RouteReady, Finish
<1>2. ASSUME NEW l \in Launch, WorkerStep(l) \/ UnitEnds(l)
      PROVE  StepOK
  BY <1>1, <1>2, EnterStep, PersistStep, StartSeatsStep, CheckCancelledStep, LaunchUnitStep,
     ObserveUnitStep, StopBeginStep, StopHelperStep, StopEndStep, UnitEndsStep
  DEF WorkerStep, Actor
<1>3. ASSUME NEW a \in Client, ClientStop(a) \/ \E l \in Launch : StopBegin(a, l)
      PROVE  StepOK
  BY <1>3, StopBeginStep, StopHelperStep, StopEndStep DEF ClientStop, Actor
<1>4. CASE UNCHANGED hvars
  <2>1. IInv'
    BY <1>4 DEF hvars, resv, IInv, ResvOK, LockOK, NotStarted, CallsOK
  <2>2. Native' = Native
    BY <1>4, NativeStays DEF hvars, resv
  <2> QED
    BY <1>4, <2>1, <2>2 DEF hvars, resv, StepOK, RStep, Reservations!rvars
<1> QED
  BY <1>1, <1>2, <1>3, <1>4, StatusStep, FenceStep, CrashStep DEF Next

\* The invariant holds whatever fails, crashes or overlaps.
THEOREM Inductive == Spec => []IInv
<1>1. IInv /\ [Next]_hvars => IInv'
  BY NextStep DEF StepOK
<1> QED
  BY <1>1, InitIInv, PTL DEF Spec

\* The session, its lock and the stops in progress stay well formed: a journal
\* without a phase, or a session state without a launch, never arises.
THEOREM SessionTypes == Spec => []TypeOK
  BY Inductive, IInvAgrees, PTL

\* Unit, journal, session state and player input agree on which game runs, after
\* every failing call, crash and late stop.
THEOREM SessionIsConsistent == Spec => []SessionAgrees
  BY Inductive, IInvAgrees, PTL

\* A stop call that has run its helper is answered by its own late half, or dies
\* with korrid.
LEMMA OnlyItsEnd ==
  ASSUME IInv, Next, NEW a \in Actor, call[a].at = "relock", call'[a].at = "idle",
         crashes' = crashes
  PROVE  StopEnd(a)
<1>1. call \in [Actor -> [at : {"idle", "helper", "relock"}, launch : Maybe,
                         seatFailed : BOOLEAN, ok : BOOLEAN]] /\ call' # call
  BY DEF IInv, CallsOK
<1>2. crashes \in Nat
  BY HostConstants DEF IInv
<1>3. ~Crash /\ ~Status /\ ~Fence
  <2>1. Crash => crashes' = crashes + 1
    BY DEF Crash
  <2>2. Status \/ Fence => call' = call
    BY DEF Status, Fence
  <2> QED
    BY <1>1, <1>2, <2>1, <2>2
<1>4. ASSUME NEW l \in Launch
      PROVE  /\ \A c \in Caller, g \in Game : ~Reserve(l, c, g) /\ ~Start(l, c, g)
             /\ \A c \in Caller : ~CancelBeforeCommit(l, c) /\ ~CancelAfterCommit(l, c)
             /\ ~RouteReady(l) /\ ~Finish(l) /\ ~Enter(l) /\ ~PersistActive(l) /\ ~StartSeats(l)
             /\ ~CheckCancelled(l) /\ ~LaunchUnit(l) /\ ~ObserveUnit(l) /\ ~UnitEnds(l)
  <2>1. /\ \A c \in Caller, g \in Game : ~Reserve(l, c, g) /\ ~Start(l, c, g)
        /\ \A c \in Caller : ~CancelBeforeCommit(l, c) /\ ~CancelAfterCommit(l, c)
        /\ ~RouteReady(l) /\ ~Finish(l)
    BY <1>1 DEF Reserve, Start, CancelBeforeCommit, CancelAfterCommit, RouteReady, Finish, Outside
  <2>2. ~Enter(l) /\ ~PersistActive(l) /\ ~StartSeats(l)
    BY <1>1 DEF Enter, PersistActive, StartSeats
  <2>3. ~CheckCancelled(l) /\ ~LaunchUnit(l) /\ ~ObserveUnit(l) /\ ~UnitEnds(l)
    BY <1>1 DEF CheckCancelled, LaunchUnit, ObserveUnit, UnitEnds
  <2> QED
    BY <2>1, <2>2, <2>3
<1>5. ASSUME NEW b \in Actor, NEW l \in Launch
      PROVE  ~StopBegin(b, l)
  <2>1. StopBegin(b, l) => call[b] = NoCall /\ \E c : call' = [call EXCEPT ![b] = c]
    BY StopBeginCases DEF Reports, Stops, Answer
  <2> QED
    BY <1>1, <2>1 DEF NoCall
<1>6. ASSUME NEW b \in Actor
      PROVE  ~StopHelper(b)
  <2>1. StopHelper(b) =>
          \E f \in {call[b].ok, FALSE} : call' = [call EXCEPT ![b].at = "relock", ![b].ok = f]
    BY StopHelperMoves
  <2> QED
    BY <1>1, <2>1
<1>7. PICK b \in Actor : StopEnd(b)
  BY <1>3, <1>4, <1>5, <1>6 DEF Next, WorkerStep, ClientStop, Actor
<1>8. call' = [call EXCEPT ![b] = NoCall]
  BY <1>7, StopEndReports DEF Reports, Answer
<1> QED
  BY <1>1, <1>7, <1>8

\* A stop helper that returns late leaves a replacement session alone: its
\* state, its journal, its input and its unit.
THEOREM LateStop == Spec => LateStopIsHarmless
<1>1. ASSUME IInv, [Next]_hvars
      PROVE  [\A a \in Actor :
                /\ call[a].at = "relock" /\ call'[a].at = "idle"
                /\ host.launch # call[a].launch /\ crashes' = crashes
                => host' = host]_hvars
  <2>1. ASSUME NEW a \in Actor, Next, call[a].at = "relock", call'[a].at = "idle",
               host.launch # call[a].launch, crashes' = crashes
        PROVE  host' = host
    BY <1>1, <2>1, OnlyItsEnd, StopEndReports DEF Reports, Answer
  <2> QED
    BY <1>1, <2>1 DEF hvars
<1> QED
  BY <1>1, Inductive, PTL DEF Spec, LateStopIsHarmless

\* The session implements the contract that the reservations rely on: whatever
\* fails, crashes or overlaps, each of its steps is one of LaunchReservation, or
\* one the reservations do not see.
THEOREM ImplementsReservations == Spec => ReservationContract
<1>1. Init => Reservations!Init
  BY DEF Init
<1>2. IInv /\ [Next]_hvars => [Reservations!Next]_(Reservations!rvars)
  BY NextStep DEF StepOK, RStep
<1> QED
  BY <1>1, <1>2, Inductive, PTL DEF Spec, ReservationContract, Reservations!Spec
==============================================================================
