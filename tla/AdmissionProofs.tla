---------------------------- MODULE AdmissionProofs ----------------------------
(***************************************************************************)
(* The admission control leaks no slot and exceeds no rate, for any number *)
(* of requests and sources, any capacities, and every order in which the   *)
(* threads read the clock and reach the lock.                              *)
(***************************************************************************)
EXTENDS Admission, FiniteSetTheorems, SequenceTheorems, TLAPS

-----------------------------------------------------------------------------
(* The inductive invariants *)

\* The slots: the holders are counted, and who gives a slot back knows how it ends.
In(pcs) == {r \in Requests : req[r].pc \in pcs}
SlotInv ==
  /\ TypeOK
  /\ IsFiniteSet(In(Holding))
  /\ SlotsConserved
  /\ \A r \in Requests : req[r].pc \in {"leaving", "uncounted"} => req[r].verdict \in Over

\* The rates: what was admitted since any admission, and what a bucket would still admit
\* now, fit together in what the rate allows until the bucket's last update.
GlobalRoom ==
  \A i \in 1 .. Len(admitted) :
    (Len(admitted) - i + 1) * Window + global.tokens
      <= Allowed(GlobalCapacity, 1, admitted[i].now, global.updated)

\* A source without a bucket is as good as one with a full bucket.
SourceRoom(s) ==
  \A i \in 1 .. Len(admitted) : admitted[i].source = s =>
    IF s \in Tracked(order)
    THEN Cardinality(Of(s, i, Len(admitted))) * Window + bucket[s].tokens
           <= Allowed(SourceCapacity, 1 + evicted[s], admitted[i].now, bucket[s].updated)
    ELSE Cardinality(Of(s, i, Len(admitted))) * Window
           <= Allowed(SourceCapacity, evicted[s], admitted[i].now, global.updated)

BucketsSeen == \A s \in Tracked(order) : bucket[s].updated <= global.updated

RateInv ==
  /\ BucketsSeen
  /\ GlobalRoom
  /\ \A s \in Sources : SourceRoom(s)
  /\ RatesBounded

-----------------------------------------------------------------------------
(* Slots *)

ReqRow == [pc : Pcs, source : Sources, now : 0 .. LastTick, closed : BOOLEAN,
           verdict : Over \cup {"none"}]

\* When one request moves, the size of a set of requests at given places changes by what
\* it no longer and what it now contributes.
LEMMA OneMoves ==
  ASSUME NEW r \in Requests, NEW pcs, IsFiniteSet(In(pcs)),
         \A k \in Requests \ {r} : req'[k].pc = req[k].pc
  PROVE  /\ IsFiniteSet(In(pcs)') /\ With(pcs) \in Nat /\ With(pcs)' \in Nat
         /\ With(pcs)' = With(pcs) - (IF req[r].pc \in pcs THEN 1 ELSE 0)
                                   + (IF req'[r].pc \in pcs THEN 1 ELSE 0)
<1> DEFINE old == In(pcs)
           new == In(pcs)'
           rest == old \ {r}
<1>1. /\ req'[r].pc \in pcs => new = rest \cup {r}
      /\ req'[r].pc \notin pcs => new = rest
  <2>1. \A k \in Requests : k # r => (k \in new <=> k \in old)
    BY DEF In
  <2>2. r \in new <=> req'[r].pc \in pcs
    BY DEF In
  <2>3. new \subseteq Requests /\ old \subseteq Requests
    BY DEF In
  <2> HIDE DEF new, old
  <2> QED
    BY <2>1, <2>2, <2>3
<1>2. r \in old <=> req[r].pc \in pcs
  BY DEF In
<1>3. With(pcs) = Cardinality(old) /\ With(pcs)' = Cardinality(new)
  BY DEF With, In
<1>4. IsFiniteSet(old) /\ r \notin rest
  OBVIOUS
<1> HIDE DEF old, new
<1>5. /\ IsFiniteSet(rest) /\ Cardinality(old) \in Nat
      /\ Cardinality(rest) = IF r \in old THEN Cardinality(old) - 1 ELSE Cardinality(old)
  BY <1>4, FS_RemoveElement, FS_CardinalityType
<1>6. IsFiniteSet(rest \cup {r}) /\ Cardinality(rest \cup {r}) = Cardinality(rest) + 1
  BY <1>4, <1>5, FS_AddElement
<1>7. Cardinality(rest) \in Nat
  BY <1>5, FS_CardinalityType
<1> HIDE DEF rest
<1>8. /\ IsFiniteSet(new) /\ Cardinality(new) \in Nat
      /\ Cardinality(new) = Cardinality(old) - (IF req[r].pc \in pcs THEN 1 ELSE 0)
                                            + (IF req'[r].pc \in pcs THEN 1 ELSE 0)
  <2>1. CASE req'[r].pc \in pcs
    <3>1. new = rest \cup {r}
      BY <1>1, <2>1
    <3>2. IsFiniteSet(new) /\ Cardinality(new) = Cardinality(rest) + 1
      BY <1>6, <3>1, Zenon
    <3> QED
      BY <1>2, <1>5, <1>7, <2>1, <3>2
  <2>2. CASE req'[r].pc \notin pcs
    BY <1>1, <1>2, <1>5, <1>7, <2>2
  <2> QED
    BY <2>1, <2>2
<1> QED
  BY <1>3, <1>5, <1>8 DEF old, new

\* The active requests are among the holders.
LEMMA CountedAmongHolding ==
  ASSUME IsFiniteSet(In(Holding))
  PROVE  /\ IsFiniteSet(In(Counted))
         /\ With(Counted) \in Nat /\ With(Holding) \in Nat /\ With(Counted) <= With(Holding)
<1>1. In(Counted) \in SUBSET In(Holding)
  BY DEF In, Counted
<1>2. With(Counted) = Cardinality(In(Counted)) /\ With(Holding) = Cardinality(In(Holding))
  BY DEF With, In
<1> QED
  BY <1>1, <1>2, FS_Subset, FS_CardinalityType

\* How a step that may take, count or give back the slot of one request keeps them conserved.
LEMMA SlotsMove ==
  ASSUME SlotInv, NEW r \in Requests,
         req' \in [Requests -> ReqRow], \A k \in Requests \ {r} : req'[k] = req[k],
         req'[r].pc \in {"leaving", "uncounted"} => req'[r].verdict \in Over,
         slots' \in Nat,
         slots' = slots + (IF req[r].pc \in Holding THEN 1 ELSE 0)
                        - (IF req'[r].pc \in Holding THEN 1 ELSE 0),
         active' = active - (IF req[r].pc \in Counted THEN 1 ELSE 0)
                          + (IF req'[r].pc \in Counted THEN 1 ELSE 0)
  PROVE  /\ slots' \in 0 .. MaxConcurrency /\ active' \in 0 .. MaxConcurrency
         /\ IsFiniteSet(In(Holding)') /\ SlotsConserved'
         /\ \A k \in Requests : req'[k].pc \in {"leaving", "uncounted"} => req'[k].verdict \in Over
<1>1. IsFiniteSet(In(Holding)) /\ slots + With(Holding) = MaxConcurrency /\ active = With(Counted)
      /\ slots \in Nat /\ MaxConcurrency \in Nat
  BY AdmissionAssumption DEF SlotInv, SlotsConserved, TypeOK
<1>2. IsFiniteSet(In(Counted))
  BY <1>1, CountedAmongHolding
<1>3. /\ IsFiniteSet(In(Holding)') /\ With(Holding) \in Nat /\ With(Holding)' \in Nat
      /\ With(Holding)' = With(Holding) - (IF req[r].pc \in Holding THEN 1 ELSE 0)
                                        + (IF req'[r].pc \in Holding THEN 1 ELSE 0)
  BY <1>1, OneMoves
<1>4. /\ With(Counted) \in Nat /\ With(Counted)' \in Nat
      /\ With(Counted)' = With(Counted) - (IF req[r].pc \in Counted THEN 1 ELSE 0)
                                        + (IF req'[r].pc \in Counted THEN 1 ELSE 0)
  BY <1>2, OneMoves
<1>5. slots' + With(Holding)' = MaxConcurrency
  BY <1>1, <1>3
<1>6. active' = With(Counted)'
  BY <1>1, <1>4
<1>7. SlotsConserved'
  BY <1>5, <1>6 DEF SlotsConserved
<1>8. With(Counted)' <= With(Holding)'
  <2>1. In(Counted)' \in SUBSET In(Holding)'
    BY DEF In, Counted
  <2>2. With(Counted)' = Cardinality(In(Counted)') /\ With(Holding)' = Cardinality(In(Holding)')
    BY DEF With, In
  <2> QED
    BY <1>3, <2>1, <2>2, FS_Subset
<1>9. \A k \in Requests : req'[k].pc \in {"leaving", "uncounted"} => req'[k].verdict \in Over
  BY DEF SlotInv
<1>10. slots' \in 0 .. MaxConcurrency /\ active' \in 0 .. MaxConcurrency
  BY <1>1, <1>3, <1>4, <1>5, <1>6, <1>8
<1> QED
  BY <1>3, <1>7, <1>9, <1>10

\* The places that a step leaves and enters, and what becomes of the verdict.
LEMMA StepMoves ==
  ASSUME SlotInv, NEW r \in Requests, Step(r)
  PROVE  /\ req' \in [Requests -> ReqRow] /\ \A k \in Requests \ {r} : req'[k] = req[k]
         /\ req'[r].pc \in {"leaving", "uncounted"} => req'[r].verdict \in Over
         /\ slots' \in Nat
         /\ slots' = slots + (IF req[r].pc \in Holding THEN 1 ELSE 0)
                           - (IF req'[r].pc \in Holding THEN 1 ELSE 0)
         /\ active' = active - (IF req[r].pc \in Counted THEN 1 ELSE 0)
                             + (IF req'[r].pc \in Counted THEN 1 ELSE 0)
<1> USE DEF Holding, Counted, Over
<1>1. /\ req \in [Requests -> ReqRow] /\ slots \in Nat /\ active \in Nat /\ clock \in 0 .. LastTick
      /\ req[r].pc \in {"leaving", "uncounted"} => req[r].verdict \in Over
  BY AdmissionAssumption DEF SlotInv, TypeOK, ReqRow
<1>2. /\ req[r].verdict \in Over \cup {"none"} /\ req[r].now \in 0 .. LastTick
      /\ req[r].closed \in BOOLEAN
  BY <1>1 DEF ReqRow
<1>3. ASSUME NEW pc \in Pcs, Goto(r, pc)
      PROVE  /\ req' \in [Requests -> ReqRow] /\ \A k \in Requests \ {r} : req'[k] = req[k]
             /\ req'[r].pc = pc /\ req'[r].verdict = req[r].verdict
  BY <1>1, <1>3 DEF Goto, ReqRow
<1>4. ASSUME NEW verdict \in Over, Leave(r, verdict)
      PROVE  /\ req' \in [Requests -> ReqRow] /\ \A k \in Requests \ {r} : req'[k] = req[k]
             /\ req'[r].pc = "leaving" /\ req'[r].verdict = verdict
  BY ZenonT(40), <1>1, <1>4 DEF Leave, ReqRow, Pcs
<1> USE DEF Pcs
<1>5. CASE Acquire(r)
  BY <1>1, <1>3, <1>5 DEF Acquire
<1>6. CASE ServerBusy(r)
  BY <1>1, <1>3, <1>6 DEF ServerBusy
<1>7. CASE CountIn(r)
  BY <1>1, <1>3, <1>7 DEF CountIn
<1>8. CASE ReadClock(r)
  <2>1. /\ req[r].pc = "counted" /\ UNCHANGED << slots, active >>
        /\ req' = [req EXCEPT ![r].pc = "clocked", ![r].now = clock]
    BY <1>8 DEF ReadClock
  <2>2. /\ req' \in [Requests -> ReqRow] /\ \A k \in Requests \ {r} : req'[k] = req[k]
        /\ req'[r].pc = "clocked"
    BY ZenonT(40), <1>1, <2>1 DEF ReqRow
  <2> QED
    BY <1>1, <2>1, <2>2
<1>9. CASE SourceInvalid(r) \/ ClockInvalid(r) \/ GlobalLimited(r)
  <2>1. /\ req[r].pc = "clocked" /\ UNCHANGED << slots, active >>
        /\ Leave(r, "unavailable") \/ Leave(r, "limited")
    BY <1>9 DEF SourceInvalid, ClockInvalid, GlobalLimited
  <2> QED
    BY <1>1, <1>4, <2>1
<1>10. CASE AdmitOrLimit(r)
  <2>1. /\ req[r].pc = "clocked" /\ UNCHANGED << slots, active >>
        /\ Goto(r, "calling") \/ Leave(r, "limited")
    BY <1>10, Zenon DEF AdmitOrLimit
  <2> QED
    BY <1>1, <1>3, <1>4, <2>1
<1>11. CASE Call(r)
  <2>1. /\ req[r].pc = "calling" /\ UNCHANGED << slots, active >>
        /\ Leave(r, "served") \/ Goto(r, "streaming")
    BY <1>11 DEF Call
  <2> QED
    BY <1>1, <1>3, <1>4, <2>1
<1>12. CASE Close(r)
  <2>1. /\ req[r].pc = "streaming" /\ UNCHANGED << slots, active >>
        /\ req' = [req EXCEPT ![r].pc = "leaving", ![r].verdict = "served", ![r].closed = TRUE]
    BY <1>12 DEF Close
  <2>2. /\ req' \in [Requests -> ReqRow] /\ \A k \in Requests \ {r} : req'[k] = req[k]
        /\ req'[r].pc = "leaving" /\ req'[r].verdict = "served"
    <3> DEFINE row == [req[r] EXCEPT !.pc = "leaving", !.verdict = "served", !.closed = TRUE]
    <3>1. row \in ReqRow /\ row.pc = "leaving" /\ row.verdict = "served"
      BY <1>1 DEF ReqRow
    <3>2. req' = [req EXCEPT ![r] = row]
      BY <2>1
    <3> HIDE DEF row
    <3> QED
      BY <1>1, <3>1, <3>2
  <2> QED
    BY <1>1, <2>1, <2>2
<1>13. CASE CountOut(r)
  BY <1>1, <1>3, <1>13 DEF CountOut
<1>14. CASE Release(r)
  <2>1. /\ req[r].pc = "uncounted" /\ slots' = slots + 1 /\ active' = active
        /\ req[r].verdict \in Over /\ Goto(r, req[r].verdict)
    BY <1>1, <1>14 DEF Release
  <2> SUFFICES ASSUME NEW verdict \in Over, verdict = req[r].verdict
               PROVE  /\ req' \in [Requests -> ReqRow] /\ \A k \in Requests \ {r} : req'[k] = req[k]
                      /\ req'[r].pc \in {"leaving", "uncounted"} => req'[r].verdict \in Over
                      /\ slots' \in Nat
                      /\ slots' = slots + (IF req[r].pc \in Holding THEN 1 ELSE 0)
                                        - (IF req'[r].pc \in Holding THEN 1 ELSE 0)
                      /\ active' = active - (IF req[r].pc \in Counted THEN 1 ELSE 0)
                                          + (IF req'[r].pc \in Counted THEN 1 ELSE 0)
    BY <2>1
  <2>2. Goto(r, verdict) /\ verdict \in Pcs
    BY <2>1
  <2>3. /\ req' \in [Requests -> ReqRow] /\ \A k \in Requests \ {r} : req'[k] = req[k]
        /\ req'[r].pc = verdict
    BY <1>3, <2>2
  <2> QED
    BY <1>1, <2>1, <2>3
<1> QED
  BY <1>5, <1>6, <1>7, <1>8, <1>9, <1>10, <1>11, <1>12, <1>13, <1>14 DEF Step

-----------------------------------------------------------------------------
(* What a rate lets through *)

\* What is allowed is an integer.
LEMMA AllowedTyped ==
  ASSUME NEW c \in Nat, NEW n \in Int, NEW from \in Int, NEW to \in Int
  PROVE  Allowed(c, n, from, to) \in Int
BY AdmissionAssumption DEF Allowed

\* One more full bucket.
LEMMA AllowedMore ==
  ASSUME NEW c \in Nat, NEW n \in Int, NEW from \in Int, NEW to \in Int
  PROVE  /\ Allowed(c, n, from, to) + c * Window <= Allowed(c, 1 + n, from, to)
         /\ Allowed(c, n, from, to) <= Allowed(c, 1 + n, from, to)
<1>1. Allowed(c, 1 + n, from, to) = Allowed(c, n, from, to) + c * Window
  BY AdmissionAssumption DEF Allowed
<1>2. c * Window \in Nat
  BY AdmissionAssumption
<1>3. Allowed(c, n, from, to) \in Int
  BY AllowedTyped
<1> QED
  BY <1>1, <1>2, <1>3

\* What is allowed grows with the clock as a bucket refills.
LEMMA AllowedLater ==
  ASSUME NEW c \in Nat, NEW n \in Int, NEW from \in Int, NEW to \in Int, NEW later \in Int, to <= later
  PROVE  /\ Allowed(c, n, from, to) + c * (later - to) <= Allowed(c, n, from, later)
         /\ c * (later - to) \in Nat
         /\ Allowed(c, n, from, to) <= Allowed(c, n, from, later)
<1>1. Allowed(c, n, from, later) = Allowed(c, n, from, to) + c * (later - to)
  BY AdmissionAssumption DEF Allowed
<1>2. c * (later - to) \in Nat
  <2> SUFFICES ASSUME NEW d \in Nat, d = later - to PROVE c * d \in Nat
    OBVIOUS
  <2> QED
    OBVIOUS
<1>3. Allowed(c, n, from, to) \in Int
  BY AllowedTyped
<1> HIDE DEF Allowed
<1> QED
  BY <1>1, <1>2, <1>3

\* A bucket that was idle for a window is as good as a full one.
LEMMA AllowedIdle ==
  ASSUME NEW c \in Nat, NEW n \in Int, NEW from \in Int, NEW to \in Int, NEW later \in Int,
         to + Window <= later
  PROVE  Allowed(c, 1 + n, from, to) <= Allowed(c, n, from, later)
<1>1. Window \in Nat /\ to + Window \in Int
  BY AdmissionAssumption
<1>2. Allowed(c, 1 + n, from, to) = Allowed(c, n, from, to + Window)
  BY <1>1 DEF Allowed
<1>3. Allowed(c, n, from, to + Window) <= Allowed(c, n, from, later)
  BY <1>1, AllowedLater, Zenon
<1> QED
  BY <1>2, <1>3, Zenon

\* A full bucket allows at least one request at once.
LEMMA AllowedStarts ==
  ASSUME NEW c \in Nat \ {0}, NEW n \in Nat, NEW now \in Int
  PROVE  /\ c * Window <= Allowed(c, 1 + n, now, now)
         /\ c * Window \in Nat
         /\ Window <= c * Window
<1>1. Window \in Nat /\ c * Window \in Nat /\ c * (Window * n) \in Nat
  BY AdmissionAssumption
<1>2. Allowed(c, 1 + n, now, now) = c * Window + c * (Window * n)
  BY <1>1 DEF Allowed
<1>3. c * Window = Window + (c - 1) * Window /\ (c - 1) * Window \in Nat
  BY <1>1
<1> QED
  BY <1>1, <1>2, <1>3

\* A bucket that is refilled stays within what is allowed.
LEMMA RefillFits ==
  ASSUME NEW b, b.tokens \in Nat, b.updated \in Int, NEW capacity \in Nat, NEW now \in Int,
         b.updated <= now
  PROVE  /\ Refilled(b, capacity, now).updated = now
         /\ Refilled(b, capacity, now).tokens \in 0 .. capacity * Window
         /\ Refilled(b, capacity, now).tokens <= b.tokens + capacity * (now - b.updated)
<1> SUFFICES ASSUME NEW most, most = capacity * Window, NEW refill, refill = (now - b.updated) * capacity
             PROVE  /\ Refilled(b, capacity, now).updated = now
                    /\ Refilled(b, capacity, now).tokens \in 0 .. most
                    /\ Refilled(b, capacity, now).tokens <= b.tokens + refill
  <2>1. (now - b.updated) * capacity = capacity * (now - b.updated)
    OBVIOUS
  <2> QED
    BY <2>1
<1>1. most \in Nat
  BY AdmissionAssumption
<1>2. refill \in Nat
  <2>1. now - b.updated \in Nat
    OBVIOUS
  <2> QED
    BY <2>1
<1>3. Refilled(b, capacity, now) = [tokens |-> AtMost(most, b.tokens + refill), updated |-> now]
  BY DEF Refilled
<1>4. AtMost(most, b.tokens + refill) \in 0 .. most /\ AtMost(most, b.tokens + refill) <= b.tokens + refill
  BY <1>1, <1>2 DEF AtMost
<1> QED
  BY <1>3, <1>4

-----------------------------------------------------------------------------
(* The table of sources *)

\* Pruning keeps a part of the keys, and every key it drops is idle.
LEMMA FreshKeys ==
  ASSUME NEW keys \in Seq(Sources), NEW now
  PROVE  /\ Fresh(keys, now) \in Seq(Sources)
         /\ Tracked(Fresh(keys, now)) \subseteq Tracked(keys)
         /\ \A k \in Tracked(keys) \ Tracked(Fresh(keys, now)) : now - bucket[k].updated >= Idle
<1> DEFINE idle == {i \in 1 .. Len(keys) : \A j \in 1 .. i : now - bucket[keys[j]].updated >= Idle}
           n == Cardinality(idle)
           m == Len(keys)
           kept == SubSeq(keys, n + 1, m)
<1>1. Fresh(keys, now) = kept
  BY DEF Fresh
<1>2. m \in Nat /\ \A i \in 1 .. m : keys[i] \in Sources
  BY LenProperties
<1>3. IsFiniteSet(1 .. m) /\ Cardinality(1 .. m) = m
  BY SMTT(30), <1>2, FS_Interval
<1>4. IsFiniteSet(idle) /\ n \in Nat /\ n <= m
  <2>1. idle \in SUBSET (1 .. m)
    OBVIOUS
  <2> QED
    BY <1>3, <2>1, FS_Subset, FS_CardinalityType
<1>5. /\ kept \in Seq(Sources) /\ Len(kept) = m - n
      /\ \A i \in 1 .. m - n : kept[i] = keys[n + i]
  <2> HIDE DEF idle, n, m
  <2>1. \A i \in n + 1 .. m : keys[i] \in Sources
    BY <1>2, <1>4
  <2>2. n + 1 \in Int /\ m \in Int
    BY <1>2, <1>4
  <2>3. /\ kept \in Seq(Sources)
        /\ Len(kept) = IF n + 1 <= m THEN m - (n + 1) + 1 ELSE 0
        /\ \A i \in 1 .. m - (n + 1) + 1 : kept[i] = keys[n + 1 + i - 1]
    BY <2>1, <2>2, SubSeqProperties
  <2> QED
    BY <1>2, <1>4, <2>3
<1>6. ASSUME NEW i \in 1 .. m, i <= n PROVE i \in idle
  <2>1. SUFFICES ASSUME i \notin idle PROVE FALSE
    OBVIOUS
  <2>2. PICK j \in 1 .. i : ~(now - bucket[keys[j]].updated >= Idle)
    BY <2>1
  <2>3. \A k \in idle : k < j
    BY <1>2, <2>2
  <2>4. idle \in SUBSET (1 .. j - 1)
    <3>1. \A k \in idle : k \in Nat /\ k >= 1
      BY <1>2
    <3> HIDE DEF idle
    <3> QED
      BY <1>2, <2>3, <3>1
  <2>5. IsFiniteSet(1 .. j - 1) /\ Cardinality(1 .. j - 1) = j - 1
    BY FS_Interval
  <2>6. n <= j - 1
    BY <2>4, <2>5, FS_Subset
  <2> QED
    BY <1>2, <1>4, <1>6, <2>6
<1>7. Tracked(kept) \subseteq Tracked(keys)
  <2> HIDE DEF idle, n, kept
  <2> QED
    BY <1>2, <1>4, <1>5 DEF Tracked
<1>8. ASSUME NEW k \in Tracked(keys) \ Tracked(kept) PROVE now - bucket[k].updated >= Idle
  <2>1. PICK i \in 1 .. m : k = keys[i]
    BY DEF Tracked
  <2>2. CASE i <= n
    <3>1. i \in idle
      BY <1>6, <2>2
    <3> QED
      BY <1>2, <2>1, <3>1
  <2>3. CASE n < i
    <3>1. i - n \in 1 .. m - n /\ kept[i - n] = keys[n + (i - n)] /\ n + (i - n) = i
      BY <1>2, <1>4, <1>5, <2>3
    <3>2. k \in Tracked(kept)
      BY <1>5, <2>1, <3>1 DEF Tracked
    <3> QED
      BY <3>2
  <2> QED
    BY <1>2, <1>4, <2>2, <2>3
<1> HIDE DEF kept
<1> QED
  BY <1>1, <1>5, <1>7, <1>8

\* Looking a source up puts it in the table, and nothing else that was not there.
LEMMA PlacedKeys ==
  ASSUME NEW keys \in Seq(Sources), NEW s \in Sources
  PROVE  /\ Placed(keys, s) \in Seq(Sources)
         /\ s \in Tracked(Placed(keys, s))
         /\ Tracked(Placed(keys, s)) \subseteq Tracked(keys) \cup {s}
<1> DEFINE m == Len(keys)
<1>1. m \in Nat /\ \A i \in 1 .. m : keys[i] \in Sources
  BY LenProperties
<1>2. ASSUME NEW rest \in Seq(Sources), Tracked(rest) \subseteq Tracked(keys)
      PROVE  /\ Append(rest, s) \in Seq(Sources)
             /\ s \in Tracked(Append(rest, s))
             /\ Tracked(Append(rest, s)) \subseteq Tracked(keys) \cup {s}
  <2> DEFINE all == Append(rest, s)
  <2>1. /\ all \in Seq(Sources) /\ Len(all) = Len(rest) + 1 /\ Len(rest) \in Nat
        /\ \A i \in 1 .. Len(rest) : all[i] = rest[i]
        /\ all[Len(rest) + 1] = s
    BY AppendProperties, LenProperties
  <2> HIDE DEF all
  <2>2. s \in Tracked(all)
    BY <2>1 DEF Tracked
  <2>3. Tracked(all) \subseteq Tracked(keys) \cup {s}
    BY <1>2, <2>1 DEF Tracked
  <2> QED
    BY <2>1, <2>2, <2>3 DEF all
<1>3. CASE s \in Tracked(keys)
  <2> DEFINE i == CHOOSE i \in 1 .. m : keys[i] = s
             front == SubSeq(keys, 1, i - 1)
             back == SubSeq(keys, i + 1, m)
  <2>1. i \in 1 .. m
    BY <1>3 DEF Tracked
  <2> HIDE DEF i
  <2>2. /\ front \in Seq(Sources) /\ Len(front) = i - 1
        /\ \A j \in 1 .. i - 1 : front[j] = keys[j]
    <3>1. \A j \in 1 .. i - 1 : keys[j] \in Sources
      BY <1>1, <2>1
    <3>2. /\ front \in Seq(Sources) /\ Len(front) = IF 1 <= i - 1 THEN i - 1 - 1 + 1 ELSE 0
          /\ \A j \in 1 .. i - 1 - 1 + 1 : front[j] = keys[1 + j - 1]
      BY <2>1, <3>1, SubSeqProperties
    <3> QED
      BY <2>1, <3>2
  <2>3. /\ back \in Seq(Sources) /\ Len(back) = m - i
        /\ \A j \in 1 .. m - i : back[j] = keys[i + j]
    <3>1. \A j \in i + 1 .. m : keys[j] \in Sources
      BY <1>1, <2>1
    <3> HIDE DEF m
    <3>2. /\ back \in Seq(Sources) /\ Len(back) = IF i + 1 <= m THEN m - (i + 1) + 1 ELSE 0
          /\ \A j \in 1 .. m - (i + 1) + 1 : back[j] = keys[i + 1 + j - 1]
      BY <1>1, <2>1, <3>1, SubSeqProperties
    <3> QED
      BY <1>1, <2>1, <3>2
  <2>4. Without(keys, s) = front \o back
    BY DEF Without, RemoveAt, i
  <2> HIDE DEF front, back
  <2>5. /\ front \o back \in Seq(Sources)
        /\ Len(front \o back) = Len(front) + Len(back)
        /\ \A j \in 1 .. Len(front) + Len(back) :
             (front \o back)[j] = IF j <= Len(front) THEN front[j] ELSE back[j - Len(front)]
    BY <2>2, <2>3, ConcatProperties
  <2>6. Tracked(front \o back) \subseteq Tracked(keys)
    <3>1. ASSUME NEW j \in 1 .. Len(front \o back)
          PROVE  \E k \in 1 .. m : (front \o back)[j] = keys[k]
      <4>1. CASE j <= i - 1
        BY <1>1, <2>1, <2>2, <2>3, <2>5, <4>1
      <4>2. CASE j > i - 1
        <5>1. j - (i - 1) \in 1 .. m - i
          BY <1>1, <2>1, <2>2, <2>3, <2>5, <4>2
        <5>2. (front \o back)[j] = keys[i + (j - (i - 1))]
          BY <1>1, <2>1, <2>2, <2>3, <2>5, <4>2, <5>1
        <5>3. i + (j - (i - 1)) \in 1 .. m
          BY <1>1, <2>1, <5>1
        <5> QED
          BY <5>2, <5>3
      <4> QED
        BY <2>1, <2>5, <4>1, <4>2
    <3> QED
      BY <3>1 DEF Tracked
  <2>7. Placed(keys, s) = Append(front \o back, s)
    BY <1>3, <2>4 DEF Placed
  <2> QED
    BY <1>2, <2>5, <2>6, <2>7
<1>4. CASE s \notin Tracked(keys)
  <2> DEFINE rest == IF m >= MaxTracked THEN Tail(keys) ELSE keys
  <2>1. rest \in Seq(Sources) /\ Tracked(rest) \subseteq Tracked(keys)
    <3>1. CASE m >= MaxTracked
      <4>1. keys # << >>
        BY <1>1, <3>1, AdmissionAssumption
      <4>2. /\ Tail(keys) \in Seq(Sources) /\ Len(Tail(keys)) = m - 1
            /\ \A i \in 1 .. m - 1 : Tail(keys)[i] = keys[i + 1]
        BY <4>1, HeadTailProperties
      <4>3. Tracked(Tail(keys)) \subseteq Tracked(keys)
        BY <1>1, <4>2 DEF Tracked
      <4> QED
        BY <3>1, <4>2, <4>3
    <3>2. CASE ~(m >= MaxTracked)
      BY <3>2
    <3> QED
      BY <3>1, <3>2
  <2>2. Placed(keys, s) = Append(rest, s)
    BY <1>4 DEF Placed
  <2> QED
    BY <1>2, <2>1, <2>2
<1> QED
  BY <1>3, <1>4

-----------------------------------------------------------------------------
(* The admissions *)

AdmissionRow == [source : Sources, now : 0 .. LastTick]

\* The admissions of a source over a stretch can be counted.
LEMMA OfFinite ==
  ASSUME NEW k, NEW i \in Int, NEW j \in Int
  PROVE  IsFiniteSet(Of(k, i, j)) /\ Cardinality(Of(k, i, j)) \in Nat
<1>1. IsFiniteSet(i .. j) /\ Of(k, i, j) \in SUBSET (i .. j)
  BY FS_Interval DEF Of
<1> QED
  BY <1>1, FS_Subset, FS_CardinalityType

\* One more admission counts for its own source only.
LEMMA OfAppended ==
  ASSUME admitted \in Seq(AdmissionRow), NEW e \in AdmissionRow, admitted' = Append(admitted, e),
         NEW CONSTANT n, n = Len(admitted)
  PROVE  /\ n \in Nat /\ Len(admitted)' = n + 1 /\ admitted' \in Seq(AdmissionRow)
         /\ \A i \in 1 .. n : admitted'[i] = admitted[i]
         /\ admitted'[n + 1] = e
         /\ \A k, i, j : i \in 1 .. n /\ j \in 1 .. n => Of(k, i, j)' = Of(k, i, j)
         /\ \A k, i : i \in 1 .. n =>
              Cardinality(Of(k, i, n + 1)') = Cardinality(Of(k, i, n)) + (IF e.source = k THEN 1 ELSE 0)
         /\ Cardinality(Of(e.source, n + 1, n + 1)') = 1
<1>1. /\ n \in Nat /\ Len(admitted)' = n + 1 /\ admitted' \in Seq(AdmissionRow)
      /\ \A i \in 1 .. n : admitted'[i] = admitted[i]
      /\ admitted'[n + 1] = e
  BY AppendProperties, LenProperties
<1>2. ASSUME NEW k, NEW i \in 1 .. n, NEW j \in 1 .. n PROVE Of(k, i, j)' = Of(k, i, j)
  BY <1>1 DEF Of
<1>3. ASSUME NEW k, NEW i \in 1 .. n
      PROVE  Cardinality(Of(k, i, n + 1)') = Cardinality(Of(k, i, n)) + (IF e.source = k THEN 1 ELSE 0)
  <2> DEFINE old == Of(k, i, n)
             new == Of(k, i, n + 1)'
  <2>1. IsFiniteSet(old) /\ Cardinality(old) \in Nat /\ n + 1 \notin old
    <3>1. i \in Int /\ n \in Int
      BY <1>1
    <3>2. IsFiniteSet(old) /\ Cardinality(old) \in Nat
      BY <3>1, OfFinite
    <3>3. n + 1 \notin old
      BY <3>1 DEF Of
    <3> QED
      BY <3>2, <3>3
  <2>2. CASE e.source = k
    <3>1. new = old \cup {n + 1}
      BY <1>1, <2>2 DEF Of
    <3> HIDE DEF old, new
    <3>2. Cardinality(new) = Cardinality(old) + 1
      BY <2>1, <3>1, FS_AddElement
    <3> QED
      BY <2>2, <3>2 DEF old, new
  <2>3. CASE e.source # k
    <3>1. new = old
      BY <1>1, <2>3 DEF Of
    <3> HIDE DEF old, new
    <3> QED
      BY <2>1, <2>3, <3>1 DEF old, new
  <2> QED
    BY <2>2, <2>3
<1>4. Cardinality(Of(e.source, n + 1, n + 1)') = 1
  <2>1. Of(e.source, n + 1, n + 1)' = {n + 1}
    BY <1>1 DEF Of
  <2> QED
    BY <2>1, FS_Singleton
<1> QED
  BY <1>1, <1>2, <1>3, <1>4

-----------------------------------------------------------------------------
(* The rates *)

BucketTypes ==
  /\ global \in Buckets(GlobalCapacity)
  /\ bucket \in [Sources -> Buckets(SourceCapacity)]
  /\ order \in Seq(Sources)
  /\ admitted \in Seq(AdmissionRow)
  /\ evicted \in [Sources -> Nat]

\* Everything about the buckets that a step of admission may rely on.
AdmissionInv == BucketTypes /\ RateInv

\* The fields of a bucket.
LEMMA BucketTyped ==
  ASSUME NEW capacity, NEW b \in Buckets(capacity), capacity \in Nat
  PROVE  b.tokens \in Nat /\ b.updated \in Nat /\ b.updated \in 0 .. LastTick
         /\ b.tokens \in 0 .. capacity * Window
BY AdmissionAssumption DEF Buckets

\* The fields of an admission.
LEMMA AdmissionTyped ==
  ASSUME admitted \in Seq(AdmissionRow), NEW i \in 1 .. Len(admitted)
  PROVE  /\ admitted[i].source \in Sources /\ admitted[i].now \in Nat /\ Len(admitted) \in Nat
         /\ i \in Nat
<1>1. admitted[i] \in AdmissionRow /\ Len(admitted) \in Nat
  BY LenProperties
<1> QED
  BY <1>1, AdmissionAssumption DEF AdmissionRow

\* What the bucket of s would admit at once when s is looked up, whether it is new, or new
\* again, or refilled.
LookedUp(s, keys, now) ==
  IF s \in Tracked(keys) THEN Refilled(bucket[s], SourceCapacity, now)
                         ELSE NewBucket(SourceCapacity, now)

\* A source that has no bucket after pruning is within its rate at `now'.
LEMMA UntrackedRoom ==
  ASSUME AdmissionInv, NEW now \in 0 .. LastTick, global.updated <= now,
         NEW keys, keys = Fresh(order, now),
         NEW k \in Sources, k \notin Tracked(keys),
         NEW n, n = Len(admitted), NEW i \in 1 .. n, admitted[i].source = k
  PROVE  Cardinality(Of(k, i, n)) * Window <= Allowed(SourceCapacity, evicted[k], admitted[i].now, now)
<1>1. /\ n \in Nat /\ i \in Nat /\ admitted[i].now \in Nat /\ now \in Nat /\ global.updated \in Nat
      /\ SourceCapacity \in Nat /\ evicted[k] \in Nat /\ Window \in Nat /\ Idle \in Nat
      /\ bucket[k].tokens \in Nat /\ bucket[k].updated \in Nat
  BY AdmissionAssumption, BucketTyped, AdmissionTyped DEF AdmissionInv, BucketTypes
<1> SUFFICES ASSUME NEW e \in Nat, e = evicted[k], NEW a \in Nat, a = admitted[i].now,
                    NEW used, used = Cardinality(Of(k, i, n)) * Window
             PROVE  used <= Allowed(SourceCapacity, e, a, now)
  BY <1>1
<1>2. used \in Nat
  <2>1. Cardinality(Of(k, i, n)) \in Nat
    BY <1>1, OfFinite
  <2> QED
    BY <1>1, <2>1
<1>3. CASE k \notin Tracked(order)
  <2>1. used <= Allowed(SourceCapacity, e, a, global.updated)
    BY <1>3 DEF AdmissionInv, RateInv, SourceRoom
  <2>2. /\ Allowed(SourceCapacity, e, a, global.updated) <= Allowed(SourceCapacity, e, a, now)
        /\ Allowed(SourceCapacity, e, a, global.updated) \in Int
        /\ Allowed(SourceCapacity, e, a, now) \in Int
    <3>1. global.updated \in Int /\ now \in Int /\ e \in Int /\ a \in Int
      BY <1>1
    <3> QED
      BY <1>1, <3>1, AllowedLater, AllowedTyped, Zenon
  <2> QED
    BY <1>2, <2>1, <2>2
<1>4. CASE k \in Tracked(order)
  <2> DEFINE u == bucket[k].updated
  <2>1. used + bucket[k].tokens <= Allowed(SourceCapacity, 1 + e, a, u)
    BY <1>4 DEF AdmissionInv, RateInv, SourceRoom
  <2>2. now - u >= Idle
    <3>1. order \in Seq(Sources)
      BY DEF AdmissionInv, BucketTypes
    <3> QED
      BY <1>4, <3>1, FreshKeys
  <2>3. u + Window <= now /\ u + Window \in Int
    <3>1. u \in Nat /\ now \in Nat /\ Window \in Nat /\ Idle \in Nat
      BY <1>1
    <3>2. Window <= Idle
      BY AdmissionAssumption
    <3> HIDE DEF u
    <3> QED
      BY <3>1, <3>2, <2>2
  <2> HIDE DEF u
  <2>4. u \in Nat
    BY <1>1 DEF u
  <2>5. e \in Int /\ a \in Int /\ u \in Int /\ now \in Int /\ 1 + e \in Int /\ u + Window <= now
    BY <1>1, <2>3, <2>4
  <2>6. /\ Allowed(SourceCapacity, 1 + e, a, u) <= Allowed(SourceCapacity, e, a, now)
        /\ Allowed(SourceCapacity, 1 + e, a, u) \in Int
        /\ Allowed(SourceCapacity, e, a, now) \in Int
    BY <1>1, <2>5, AllowedIdle, AllowedTyped, Zenon
  <2> QED
    BY <1>1, <1>2, <2>1, <2>6
<1> QED
  BY <1>3, <1>4

\* A source that is looked up is within its rate at `now', with all that its bucket holds.
LEMMA LookedUpRoom ==
  ASSUME AdmissionInv, NEW now \in 0 .. LastTick, global.updated <= now,
         NEW keys, keys = Fresh(order, now), NEW s \in Sources, NEW b, b = LookedUp(s, keys, now)
  PROVE  /\ b.updated = now /\ b.tokens \in 0 .. SourceCapacity * Window
         /\ b = [tokens |-> b.tokens, updated |-> b.updated]
         /\ \A i \in 1 .. Len(admitted) : admitted[i].source = s =>
              Cardinality(Of(s, i, Len(admitted))) * Window + b.tokens
                <= Allowed(SourceCapacity, 1 + evicted[s], admitted[i].now, now)
<1>1. /\ now \in Nat /\ global.updated \in Nat
      /\ SourceCapacity \in Nat /\ SourceCapacity * Window \in Nat /\ evicted[s] \in Nat /\ Window \in Nat
      /\ bucket[s].tokens \in Nat /\ bucket[s].updated \in Nat
  BY AdmissionAssumption, BucketTyped DEF AdmissionInv, BucketTypes
<1>2. CASE s \in Tracked(keys)
  <2>1. s \in Tracked(order)
    <3>1. order \in Seq(Sources)
      BY DEF AdmissionInv, BucketTypes
    <3> QED
      BY <1>2, <3>1, FreshKeys
  <2>2. b = Refilled(bucket[s], SourceCapacity, now)
    BY <1>2 DEF LookedUp
  <2>3. bucket[s].updated <= now
    BY <1>1, <2>1 DEF AdmissionInv, RateInv, BucketsSeen
  <2>4. /\ b.updated = now /\ b.tokens \in 0 .. SourceCapacity * Window
        /\ b.tokens <= bucket[s].tokens + SourceCapacity * (now - bucket[s].updated)
    BY <1>1, <2>2, <2>3, RefillFits
  <2>5. b = [tokens |-> b.tokens, updated |-> b.updated]
    BY <2>2 DEF Refilled
  <2>6. ASSUME NEW i \in 1 .. Len(admitted), admitted[i].source = s
        PROVE  Cardinality(Of(s, i, Len(admitted))) * Window + b.tokens
                 <= Allowed(SourceCapacity, 1 + evicted[s], admitted[i].now, now)
    <3>1. i \in Nat /\ Len(admitted) \in Nat /\ admitted[i].now \in Nat
      BY AdmissionTyped DEF AdmissionInv, BucketTypes
    <3> DEFINE e == 1 + evicted[s]
               a == admitted[i].now
               used == Cardinality(Of(s, i, Len(admitted))) * Window
               u == bucket[s].updated
               t == bucket[s].tokens
               more == SourceCapacity * (now - u)
               held == b.tokens
    <3>2. used \in Nat
      <4>1. Cardinality(Of(s, i, Len(admitted))) \in Nat
        BY <3>1, OfFinite
      <4> QED
        BY <1>1, <4>1
    <3>3. used + t <= Allowed(SourceCapacity, e, a, u)
      BY <2>1, <2>6 DEF AdmissionInv, RateInv, SourceRoom
    <3>4. /\ Allowed(SourceCapacity, e, a, u) + more <= Allowed(SourceCapacity, e, a, now)
          /\ Allowed(SourceCapacity, e, a, u) \in Int /\ Allowed(SourceCapacity, e, a, now) \in Int
          /\ more \in Nat
      <4>1. e \in Int /\ a \in Int /\ u \in Int /\ now \in Int /\ u <= now /\ SourceCapacity \in Nat
        BY <1>1, <2>3, <3>1
      <4> HIDE DEF e, a, u
      <4> QED
        BY <4>1, AllowedLater, AllowedTyped, Zenon
    <3>5. held <= t + more /\ held \in Int /\ t \in Int
      BY <1>1, <2>4
    <3>6. used + held <= Allowed(SourceCapacity, e, a, now)
      <4> HIDE DEF e, a, u, t, more, held, used
      <4> QED
        BY <3>2, <3>3, <3>4, <3>5
    <3> QED
      BY <3>6
  <2> QED
    BY <2>4, <2>5, <2>6
<1>3. CASE s \notin Tracked(keys)
  <2>1. b = [tokens |-> SourceCapacity * Window, updated |-> now]
    BY <1>3 DEF LookedUp, NewBucket
  <2>2. ASSUME NEW i \in 1 .. Len(admitted), admitted[i].source = s
        PROVE  Cardinality(Of(s, i, Len(admitted))) * Window + b.tokens
                 <= Allowed(SourceCapacity, 1 + evicted[s], admitted[i].now, now)
    <3>1. i \in Nat /\ Len(admitted) \in Nat /\ admitted[i].now \in Nat
      BY AdmissionTyped DEF AdmissionInv, BucketTypes
    <3> SUFFICES ASSUME NEW e \in Nat, e = evicted[s], NEW a \in Nat, a = admitted[i].now,
                        NEW used, used = Cardinality(Of(s, i, Len(admitted))) * Window
                 PROVE  used + b.tokens <= Allowed(SourceCapacity, 1 + e, a, now)
      BY <1>1, <3>1
    <3>2. used \in Nat
      <4>1. Cardinality(Of(s, i, Len(admitted))) \in Nat
        BY <3>1, OfFinite
      <4> QED
        BY <1>1, <4>1
    <3>3. used <= Allowed(SourceCapacity, e, a, now)
      BY <1>3, <2>2, UntrackedRoom
    <3>4. /\ Allowed(SourceCapacity, e, a, now) + SourceCapacity * Window
               <= Allowed(SourceCapacity, 1 + e, a, now)
          /\ Allowed(SourceCapacity, e, a, now) \in Int /\ Allowed(SourceCapacity, 1 + e, a, now) \in Int
      <4>1. now \in Int
        BY <1>1
      <4>2. e \in Int /\ 1 + e \in Int /\ a \in Int
        OBVIOUS
      <4>3. Allowed(SourceCapacity, e, a, now) + SourceCapacity * Window
              <= Allowed(SourceCapacity, 1 + e, a, now)
        BY <1>1, <4>1, <4>2, AllowedMore, Zenon
      <4> QED
        BY <1>1, <4>1, <4>2, <4>3, AllowedTyped, Zenon
    <3> QED
      BY <1>1, <2>1, <3>2, <3>3, <3>4
  <2> QED
    BY <1>1, <2>1, <2>2
<1> QED
  BY <1>2, <1>3

\* The global bucket, refilled, is within its rate.
LEMMA GlobalRefilled ==
  ASSUME AdmissionInv, NEW now \in 0 .. LastTick, global.updated <= now,
         NEW g, g = Refilled(global, GlobalCapacity, now)
  PROVE  /\ g.updated = now /\ g.tokens \in 0 .. GlobalCapacity * Window
         /\ g = [tokens |-> g.tokens, updated |-> g.updated]
         /\ \A i \in 1 .. Len(admitted) :
              (Len(admitted) - i + 1) * Window + g.tokens
                <= Allowed(GlobalCapacity, 1, admitted[i].now, now)
<1>1. /\ now \in Nat /\ GlobalCapacity \in Nat /\ Window \in Nat
      /\ global.tokens \in Nat /\ global.updated \in Nat
  BY AdmissionAssumption, BucketTyped DEF AdmissionInv, BucketTypes
<1>2. /\ g.updated = now /\ g.tokens \in 0 .. GlobalCapacity * Window
      /\ g.tokens <= global.tokens + GlobalCapacity * (now - global.updated)
  BY <1>1, RefillFits
<1>3. g = [tokens |-> g.tokens, updated |-> g.updated]
  BY DEF Refilled
<1>4. ASSUME NEW i \in 1 .. Len(admitted)
      PROVE  (Len(admitted) - i + 1) * Window + g.tokens
               <= Allowed(GlobalCapacity, 1, admitted[i].now, now)
  <2>1. i \in Nat /\ Len(admitted) \in Nat /\ admitted[i].now \in Nat
    BY AdmissionTyped DEF AdmissionInv, BucketTypes
  <2> DEFINE a == admitted[i].now
             used == (Len(admitted) - i + 1) * Window
             u == global.updated
             t == global.tokens
             more == GlobalCapacity * (now - u)
             held == g.tokens
  <2>2. used \in Int
    BY <1>1, <2>1
  <2>3. used + t <= Allowed(GlobalCapacity, 1, a, u)
    BY DEF AdmissionInv, RateInv, GlobalRoom
  <2>4. /\ Allowed(GlobalCapacity, 1, a, u) + more <= Allowed(GlobalCapacity, 1, a, now)
        /\ Allowed(GlobalCapacity, 1, a, u) \in Int /\ Allowed(GlobalCapacity, 1, a, now) \in Int
        /\ more \in Nat
    <3>1. 1 \in Int /\ a \in Int /\ u \in Int /\ now \in Int /\ u <= now /\ GlobalCapacity \in Nat
      BY <1>1, <2>1
    <3> HIDE DEF a, u
    <3> QED
      BY <3>1, AllowedLater, AllowedTyped, Zenon
  <2>5. held <= t + more /\ held \in Int /\ t \in Int
    BY <1>1, <1>2
  <2>6. used + held <= Allowed(GlobalCapacity, 1, a, now)
    <3> HIDE DEF a, u, t, more, held, used
    <3> QED
      BY <2>2, <2>3, <2>4, <2>5
  <2> QED
    BY <2>6
<1> QED
  BY <1>2, <1>3, <1>4

\* A step that only refills the global bucket keeps every rate.
LEMMA GlobalRefills ==
  ASSUME AdmissionInv, NEW now \in 0 .. LastTick, global.updated <= now,
         global' = Refilled(global, GlobalCapacity, now),
         UNCHANGED << bucket, order, admitted, evicted >>
  PROVE  AdmissionInv'
<1>1. /\ global'.updated = now /\ global'.tokens \in 0 .. GlobalCapacity * Window
      /\ global' = [tokens |-> global'.tokens, updated |-> global'.updated]
      /\ \A i \in 1 .. Len(admitted) :
           (Len(admitted) - i + 1) * Window + global'.tokens
             <= Allowed(GlobalCapacity, 1, admitted[i].now, now)
  BY GlobalRefilled
<1>2. /\ now \in Nat /\ SourceCapacity \in Nat /\ Window \in Nat /\ global.updated \in Nat
  BY AdmissionAssumption, BucketTyped DEF AdmissionInv, BucketTypes
<1>3. BucketTypes'
  <2>1. global' \in Buckets(GlobalCapacity)
    BY <1>1 DEF Buckets
  <2> QED
    BY <2>1 DEF AdmissionInv, BucketTypes
<1>4. BucketsSeen'
  <2>1. \A s \in Tracked(order) : bucket[s].updated <= global.updated /\ bucket[s].updated \in Nat
    <3>1. \A i \in 1 .. Len(order) : order[i] \in Sources
      BY LenProperties DEF AdmissionInv, BucketTypes
    <3>2. \A s \in Tracked(order) : s \in Sources
      BY <3>1 DEF Tracked
    <3>3. \A s \in Sources : bucket[s].updated \in Nat
      BY AdmissionAssumption, BucketTyped DEF AdmissionInv, BucketTypes
    <3> QED
      BY <3>2, <3>3 DEF AdmissionInv, RateInv, BucketsSeen
  <2> QED
    BY <1>1, <1>2, <2>1 DEF BucketsSeen
<1>5. GlobalRoom'
  BY <1>1 DEF GlobalRoom
<1>6. ASSUME NEW s \in Sources PROVE SourceRoom(s)'
  <2> SUFFICES ASSUME NEW i \in 1 .. Len(admitted), admitted[i].source = s, s \notin Tracked(order)
               PROVE  Cardinality(Of(s, i, Len(admitted))) * Window
                        <= Allowed(SourceCapacity, evicted[s], admitted[i].now, now)
    BY <1>1 DEF SourceRoom, AdmissionInv, RateInv, Of
  <2>1. i \in Nat /\ Len(admitted) \in Nat /\ admitted[i].now \in Nat /\ evicted[s] \in Nat
    BY AdmissionTyped DEF AdmissionInv, BucketTypes
  <2> DEFINE a == admitted[i].now
             e == evicted[s]
             u == global.updated
             used == Cardinality(Of(s, i, Len(admitted))) * Window
  <2>2. used \in Nat
    <3>1. Cardinality(Of(s, i, Len(admitted))) \in Nat
      BY <2>1, OfFinite
    <3> QED
      BY <1>2, <3>1
  <2>3. used <= Allowed(SourceCapacity, e, a, u)
    BY DEF AdmissionInv, RateInv, SourceRoom
  <2>4. a \in Int /\ e \in Int /\ u \in Int /\ now \in Int /\ u <= now
    BY <1>2, <2>1
  <2> HIDE DEF a, e, u, used
  <2>5. /\ Allowed(SourceCapacity, e, a, u) <= Allowed(SourceCapacity, e, a, now)
        /\ Allowed(SourceCapacity, e, a, u) \in Int /\ Allowed(SourceCapacity, e, a, now) \in Int
    BY <1>2, <2>4, AllowedLater, AllowedTyped, Zenon
  <2>6. used <= Allowed(SourceCapacity, e, a, now)
    BY <2>2, <2>3, <2>5
  <2> QED
    BY <2>6 DEF a, e, used
<1>7. RatesBounded'
  BY DEF AdmissionInv, RateInv, RatesBounded, GlobalRateBound, SourceRateBound, Of
<1> QED
  BY <1>3, <1>4, <1>5, <1>6, <1>7 DEF AdmissionInv, RateInv

\* What a step of _admit does to the buckets, with the names it gives its parts.
LEMMA AdmitEffect ==
  ASSUME AdmissionInv, NEW r \in Requests, req[r] \in ReqRow, AdmitOrLimit(r),
         NEW s, s = req[r].source, NEW now, now = req[r].now,
         NEW keys, keys = Fresh(order, now), NEW b, b = LookedUp(s, keys, now),
         NEW g, g = Refilled(global, GlobalCapacity, now)
  PROVE  /\ s \in Sources /\ now \in 0 .. LastTick /\ global.updated <= now
         /\ g.tokens >= Window /\ global' = Paid(g)
         /\ order' = Placed(keys, s)
         /\ bucket' = [k \in Sources |-> IF k = s THEN (IF b.tokens >= Window THEN Paid(b) ELSE b)
                                        ELSE IF k \in Tracked(order') THEN bucket[k]
                                        ELSE NewBucket(SourceCapacity, 0)]
         /\ evicted' = [k \in Sources |->
              IF k \in Tracked(keys) \ Tracked(order') THEN evicted[k] + 1 ELSE evicted[k]]
         /\ admitted' = IF b.tokens >= Window THEN Append(admitted, [source |-> s, now |-> now])
                                              ELSE admitted
<1>1. s \in Sources /\ now \in 0 .. LastTick
  BY DEF ReqRow
<1>2. now >= global.updated /\ g.tokens >= Window /\ global' = Paid(g) /\ order' = Placed(keys, s)
  BY DEF AdmitOrLimit
<1>3. bucket' = [k \in Sources |-> IF k = s THEN (IF b.tokens >= Window THEN Paid(b) ELSE b)
                                  ELSE IF k \in Tracked(order') THEN bucket[k]
                                  ELSE NewBucket(SourceCapacity, 0)]
  BY DEF AdmitOrLimit, LookedUp
<1>4. evicted' = [k \in Sources |->
        IF k \in Tracked(keys) \ Tracked(order') THEN evicted[k] + 1 ELSE evicted[k]]
  BY DEF AdmitOrLimit
<1>5. admitted' = IF b.tokens >= Window THEN Append(admitted, [source |-> s, now |-> now])
                                        ELSE admitted
  BY DEF AdmitOrLimit, LookedUp
<1>6. now >= global.updated => global.updated <= now
  BY <1>1, BucketTyped, AdmissionAssumption DEF AdmissionInv, BucketTypes
<1> QED
  BY <1>1, <1>2, <1>3, <1>4, <1>5, <1>6

\* A step of _admit keeps the table and every rate.
LEMMA AdmitPreserves ==
  ASSUME AdmissionInv, NEW r \in Requests, req[r] \in ReqRow, AdmitOrLimit(r)
  PROVE  AdmissionInv'
<1>1. PICK s, now : s = req[r].source /\ now = req[r].now
  OBVIOUS
<1>2. PICK keys, b, g : keys = Fresh(order, now) /\ b = LookedUp(s, keys, now)
                        /\ g = Refilled(global, GlobalCapacity, now)
  OBVIOUS
<1>3. /\ s \in Sources /\ now \in 0 .. LastTick /\ global.updated <= now
      /\ g.tokens >= Window /\ global' = Paid(g)
      /\ order' = Placed(keys, s)
      /\ bucket' = [k \in Sources |-> IF k = s THEN (IF b.tokens >= Window THEN Paid(b) ELSE b)
                                     ELSE IF k \in Tracked(order') THEN bucket[k]
                                     ELSE NewBucket(SourceCapacity, 0)]
      /\ evicted' = [k \in Sources |->
           IF k \in Tracked(keys) \ Tracked(order') THEN evicted[k] + 1 ELSE evicted[k]]
      /\ admitted' = IF b.tokens >= Window THEN Append(admitted, [source |-> s, now |-> now])
                                           ELSE admitted
  BY <1>1, <1>2, AdmitEffect
<1>4. /\ now \in Nat /\ SourceCapacity \in Nat \ {0} /\ GlobalCapacity \in Nat \ {0}
      /\ Window \in Nat \ {0} /\ LastTick \in Nat
      /\ SourceCapacity * Window \in Nat /\ GlobalCapacity * Window \in Nat
  BY <1>3, AdmissionAssumption
<1>5. /\ order \in Seq(Sources) /\ admitted \in Seq(AdmissionRow) /\ evicted \in [Sources -> Nat]
      /\ bucket \in [Sources -> Buckets(SourceCapacity)]
  BY DEF AdmissionInv, BucketTypes
<1>6. /\ g.updated = now /\ g.tokens \in 0 .. GlobalCapacity * Window
      /\ g = [tokens |-> g.tokens, updated |-> g.updated]
      /\ \A i \in 1 .. Len(admitted) :
           (Len(admitted) - i + 1) * Window + g.tokens
             <= Allowed(GlobalCapacity, 1, admitted[i].now, now)
  BY <1>2, <1>3, GlobalRefilled
<1>7. /\ b.updated = now /\ b.tokens \in 0 .. SourceCapacity * Window
      /\ b = [tokens |-> b.tokens, updated |-> b.updated]
      /\ \A i \in 1 .. Len(admitted) : admitted[i].source = s =>
           Cardinality(Of(s, i, Len(admitted))) * Window + b.tokens
             <= Allowed(SourceCapacity, 1 + evicted[s], admitted[i].now, now)
  BY <1>2, <1>3, LookedUpRoom
<1>8. /\ keys \in Seq(Sources) /\ Tracked(keys) \subseteq Tracked(order)
      /\ order' \in Seq(Sources) /\ s \in Tracked(order')
      /\ Tracked(order') \subseteq Tracked(keys) \cup {s}
  BY <1>2, <1>3, <1>5, FreshKeys, PlacedKeys
<1>9. /\ global'.tokens = g.tokens - Window /\ global'.updated = now
      /\ global' \in Buckets(GlobalCapacity)
  <2>1. global' = [tokens |-> g.tokens - Window, updated |-> now]
    BY <1>3, <1>6 DEF Paid
  <2>2. g.tokens - Window \in 0 .. GlobalCapacity * Window
    BY <1>3, <1>4, <1>6
  <2> QED
    BY <1>3, <2>1, <2>2 DEF Buckets
<1>10. PICK left : left = bucket'[s].tokens
  OBVIOUS
<1>11. /\ bucket'[s].updated = now /\ left \in 0 .. SourceCapacity * Window
       /\ bucket'[s] \in Buckets(SourceCapacity)
       /\ b.tokens >= Window => left = b.tokens - Window
       /\ ~(b.tokens >= Window) => left = b.tokens
  <2>1. CASE b.tokens >= Window
    <3>1. bucket'[s] = [tokens |-> b.tokens - Window, updated |-> now]
      BY <1>3, <1>7, <2>1 DEF Paid
    <3>2. b.tokens - Window \in 0 .. SourceCapacity * Window
      BY <1>4, <1>7, <2>1
    <3> QED
      BY <1>3, <1>10, <2>1, <3>1, <3>2 DEF Buckets
  <2>2. CASE ~(b.tokens >= Window)
    <3>1. bucket'[s] = [tokens |-> b.tokens, updated |-> now]
      BY <1>3, <1>7, <2>2
    <3> QED
      BY <1>3, <1>7, <1>10, <2>2, <3>1 DEF Buckets
  <2> QED
    BY <2>1, <2>2
<1>12. \A k \in Sources \ {s} : k \in Tracked(order') => bucket'[k] = bucket[k]
  BY <1>3
<1>13. \A k \in Sources :
         /\ evicted[k] \in Nat /\ evicted'[k] \in Nat
         /\ k \in Tracked(keys) /\ k \notin Tracked(order') => evicted'[k] = 1 + evicted[k]
         /\ k \notin Tracked(keys) \/ k \in Tracked(order') => evicted'[k] = evicted[k]
  BY <1>3, <1>5
<1>14. BucketTypes'
  <2>1. bucket' \in [Sources -> Buckets(SourceCapacity)]
    <3>1. NewBucket(SourceCapacity, 0) \in Buckets(SourceCapacity)
      BY <1>4 DEF NewBucket, Buckets
    <3>2. ASSUME NEW k \in Sources, k # s PROVE bucket'[k] \in Buckets(SourceCapacity)
      BY <1>3, <1>5, <3>1, <3>2
    <3>3. \A k \in Sources : bucket'[k] \in Buckets(SourceCapacity)
      BY <1>11, <3>2
    <3>4. bucket' = [k \in Sources |-> bucket'[k]]
      BY <1>3
    <3> QED
      BY <3>3, <3>4
  <2>2. admitted' \in Seq(AdmissionRow)
    <3>1. [source |-> s, now |-> now] \in AdmissionRow
      BY <1>3 DEF AdmissionRow
    <3> QED
      BY <1>3, <1>5, <3>1, AppendProperties
  <2>3. evicted' \in [Sources -> Nat]
    BY <1>3, <1>13
  <2> QED
    BY <1>8, <1>9, <2>1, <2>2, <2>3 DEF BucketTypes
<1>15. BucketsSeen'
  <2>1. ASSUME NEW k \in Tracked(order'), k # s PROVE bucket'[k].updated <= now
    <3>1. k \in Tracked(order) /\ k \in Sources
      <4>1. \A i \in 1 .. Len(order) : order[i] \in Sources
        BY <1>5, LenProperties
      <4> QED
        BY <1>8, <2>1, <4>1 DEF Tracked
    <3>2. bucket[k].updated \in Nat /\ bucket[k].updated <= global.updated /\ global.updated \in Nat
      BY <1>4, <3>1, BucketTyped, AdmissionAssumption
      DEF AdmissionInv, BucketTypes, RateInv, BucketsSeen
    <3> QED
      BY <1>3, <1>4, <1>12, <2>1, <3>1, <3>2
  <2> QED
    BY <1>4, <1>9, <1>11, <2>1 DEF BucketsSeen
<1>16. PICK n, m : n = Len(admitted) /\ m = Len(admitted)'
  OBVIOUS
<1>17. /\ n \in Nat /\ m \in Nat
       /\ \A i \in 1 .. n : admitted'[i] = admitted[i]
       /\ \A k, i, j : i \in 1 .. n /\ j \in 1 .. n => Of(k, i, j)' = Of(k, i, j)
       /\ b.tokens >= Window =>
            /\ m = n + 1 /\ admitted'[m].source = s /\ admitted'[m].now = now
            /\ \A k, i : i \in 1 .. n =>
                 Cardinality(Of(k, i, m)') = Cardinality(Of(k, i, n)) + (IF s = k THEN 1 ELSE 0)
            /\ Cardinality(Of(s, m, m)') = 1
       /\ ~(b.tokens >= Window) => m = n
  <2>1. CASE b.tokens >= Window
    <3>1. PICK e : e = [source |-> s, now |-> now]
      OBVIOUS
    <3>2. e \in AdmissionRow /\ e.source = s /\ e.now = now /\ admitted' = Append(admitted, e)
      BY <1>3, <2>1, <3>1 DEF AdmissionRow
    <3>3. /\ n \in Nat /\ Len(admitted)' = n + 1
          /\ \A i \in 1 .. n : admitted'[i] = admitted[i]
          /\ admitted'[n + 1] = e
          /\ \A k, i, j : i \in 1 .. n /\ j \in 1 .. n => Of(k, i, j)' = Of(k, i, j)
          /\ \A k, i : i \in 1 .. n =>
               Cardinality(Of(k, i, n + 1)') = Cardinality(Of(k, i, n)) + (IF e.source = k THEN 1 ELSE 0)
          /\ Cardinality(Of(e.source, n + 1, n + 1)') = 1
      BY <1>5, <1>16, <3>2, OfAppended
    <3>4. m = n + 1
      BY <1>16, <3>3
    <3> QED
      BY <2>1, <3>2, <3>3, <3>4
  <2>2. CASE ~(b.tokens >= Window)
    <3>1. admitted' = admitted
      BY <1>3, <2>2
    <3>2. n \in Nat
      BY <1>5, <1>16, LenProperties
    <3> QED
      BY <1>16, <2>2, <3>1, <3>2 DEF Of
  <2> QED
    BY <2>1, <2>2
<1>18. ASSUME NEW i \in 1 .. m
       PROVE  (m - i + 1) * Window + global'.tokens <= Allowed(GlobalCapacity, 1, admitted'[i].now, now)
  <2>1. CASE i \in 1 .. n
    <3>1. PICK a, used, held, top : /\ a = admitted[i].now /\ used = (n - i + 1) * Window
                                    /\ held = g.tokens /\ top = Allowed(GlobalCapacity, 1, a, now)
      OBVIOUS
    <3>2. used + held <= top
      BY <1>6, <1>16, <2>1, <3>1
    <3>3. used \in Int /\ held \in Int /\ top \in Int
      <4>1. a \in Int /\ 1 \in Int /\ now \in Int /\ GlobalCapacity \in Nat
        BY SMTT(30), <1>4, <1>5, <1>16, <2>1, <3>1, AdmissionTyped
      <4>2. top \in Int
        BY <3>1, <4>1, AllowedTyped, Zenon
      <4> QED
        BY <1>4, <1>6, <1>17, <2>1, <3>1, <4>2
    <3>4. admitted'[i].now = a /\ global'.tokens = held - Window
      BY <1>9, <1>17, <2>1, <3>1
    <3>5. (m - i + 1) * Window = used \/ (m - i + 1) * Window = used + Window
      <4>1. CASE m = n
        BY <3>1, <4>1
      <4>2. CASE m = n + 1
        <5>1. m - i + 1 = (n - i + 1) + 1
          BY <1>17, <2>1, <4>2
        <5>2. ((n - i + 1) + 1) * Window = (n - i + 1) * Window + Window
          BY <1>4, <1>17, <2>1
        <5> QED
          BY <3>1, <5>1, <5>2
      <4> QED
        BY <1>17, <4>1, <4>2
    <3> QED
      BY <1>4, <3>1, <3>2, <3>3, <3>4, <3>5
  <2>2. CASE i \notin 1 .. n
    <3>1. i = m /\ m = n + 1 /\ admitted'[i].now = now /\ m - i + 1 = 1
      BY <1>17, <2>2
    <3>2. GlobalCapacity * Window <= Allowed(GlobalCapacity, 1, now, now)
      <4>1. 0 \in Nat /\ now \in Int
        BY <1>4
      <4>2. GlobalCapacity * Window <= Allowed(GlobalCapacity, 1 + 0, now, now)
        BY <1>4, <4>1, AllowedStarts, Zenon
      <4> QED
        BY <4>2
    <3>3. Allowed(GlobalCapacity, 1, now, now) \in Int
      <4>1. 1 \in Int /\ now \in Int /\ GlobalCapacity \in Nat
        BY <1>4
      <4> QED
        BY <4>1, AllowedTyped, Zenon
    <3> QED
      BY <1>4, <1>6, <1>9, <3>1, <3>2, <3>3
  <2> QED
    BY <2>1, <2>2
<1>19. GlobalRoom'
  BY <1>9, <1>16, <1>18 DEF GlobalRoom
<1>20. GlobalRateBound'
  <2> SUFFICES ASSUME NEW i \in 1 .. m, NEW j \in 1 .. m, i <= j
               PROVE  (j - i + 1) * Window
                        <= Allowed(GlobalCapacity, 1, admitted'[i].now, admitted'[j].now)
    BY <1>16 DEF GlobalRateBound
  <2>1. CASE j \in 1 .. n
    <3>1. i \in 1 .. n
      BY <1>17, <2>1
    <3> QED
      BY <1>16, <1>17, <2>1, <3>1 DEF AdmissionInv, RateInv, RatesBounded, GlobalRateBound
  <2>2. CASE j \notin 1 .. n
    <3>1. j = m /\ admitted'[j].now = now
      BY <1>17, <2>2
    <3>2. PICK used, top : /\ used = (m - i + 1) * Window
                           /\ top = Allowed(GlobalCapacity, 1, admitted'[i].now, now)
      OBVIOUS
    <3>3. used + global'.tokens <= top
      BY <1>18, <3>2
    <3>4. used \in Int /\ global'.tokens \in Nat /\ top \in Int
      <4>1. admitted' \in Seq(AdmissionRow)
        BY <1>14 DEF BucketTypes
      <4>2. PICK a : a = admitted'[i].now
        OBVIOUS
      <4>3. a \in Int /\ 1 \in Int /\ now \in Int /\ GlobalCapacity \in Nat
        <5>1. admitted'[i] \in AdmissionRow
          BY <1>16, <4>1, LenProperties
        <5> QED
          BY <1>4, <4>2, <5>1 DEF AdmissionRow
      <4>4. top \in Int
        BY <3>2, <4>2, <4>3, AllowedTyped, Zenon
      <4>5. used \in Int
        BY <1>4, <1>17, <3>2
      <4>6. global'.tokens \in Nat
        BY <1>3, <1>4, <1>6, <1>9
      <4> QED
        BY <4>4, <4>5, <4>6
    <3>5. used <= top
      BY <3>3, <3>4
    <3> QED
      BY <3>1, <3>2, <3>5
  <2> QED
    BY <2>1, <2>2
<1>21. \A k \in Sources : SourceRoom(k)'
  <2> SUFFICES ASSUME NEW k \in Sources, NEW i \in 1 .. m, admitted'[i].source = k
               PROVE  IF k \in Tracked(order')
                      THEN Cardinality(Of(k, i, m)') * Window + bucket'[k].tokens
                             <= Allowed(SourceCapacity, 1 + evicted'[k], admitted'[i].now,
                                        bucket'[k].updated)
                      ELSE Cardinality(Of(k, i, m)') * Window
                             <= Allowed(SourceCapacity, evicted'[k], admitted'[i].now, global'.updated)
    BY <1>16 DEF SourceRoom, Of
  <2>1. CASE i \in 1 .. n
    <3>1. PICK a, e, size, used : /\ a = admitted[i].now /\ e = evicted[k]
                                  /\ size = Cardinality(Of(k, i, n)) /\ used = size * Window
      OBVIOUS
    <3>2. /\ admitted'[i].now = a /\ admitted[i].source = k /\ i \in Int /\ n \in Int
          /\ a \in Int /\ e \in Int /\ 1 + e \in Int /\ now \in Int /\ SourceCapacity \in Nat
      BY <1>4, <1>5, <1>13, <1>16, <1>17, <2>1, <3>1, AdmissionTyped
    <3>3. size \in Nat /\ used \in Nat
      <4>1. size \in Nat
        BY <3>1, <3>2, OfFinite
      <4> QED
        BY <1>4, <3>1, <4>1
    <3>4. /\ Allowed(SourceCapacity, e, a, now) \in Int
          /\ Allowed(SourceCapacity, 1 + e, a, now) \in Int
      BY <3>2, AllowedTyped, Zenon
    <3>5. CASE k = s
      <4>1. Cardinality(Of(k, i, m)') = size + (IF b.tokens >= Window THEN 1 ELSE 0)
        <5>1. CASE b.tokens >= Window
          BY <1>17, <2>1, <3>1, <3>5, <5>1
        <5>2. CASE ~(b.tokens >= Window)
          <6>1. Cardinality(Of(k, i, m)') = size
            BY <1>17, <2>1, <3>1, <5>2
          <6> QED
            BY <3>3, <5>2, <6>1
        <5> QED
          BY <5>1, <5>2
      <4>2. Cardinality(Of(k, i, m)') * Window + left = used + b.tokens
        <5>1. CASE b.tokens >= Window
          <6>1. (size + 1) * Window = size * Window + Window
            BY <1>4, <3>3
          <6> QED
            BY <1>4, <1>7, <1>11, <3>1, <3>3, <4>1, <5>1, <6>1
        <5>2. CASE ~(b.tokens >= Window)
          BY <1>11, <3>1, <3>3, <4>1, <5>2
        <5> QED
          BY <5>1, <5>2
      <4>3. used + b.tokens <= Allowed(SourceCapacity, 1 + e, a, now)
        BY <1>7, <1>16, <2>1, <3>1, <3>2, <3>5
      <4>4. evicted'[k] = e
        BY <1>8, <1>13, <3>1, <3>5
      <4>5. k \in Tracked(order') /\ bucket'[k].updated = now /\ bucket'[k].tokens = left
        BY <1>8, <1>10, <1>11, <3>5
      <4> QED
        BY <3>2, <4>2, <4>3, <4>4, <4>5
    <3>6. CASE k # s
      <4>1. Cardinality(Of(k, i, m)') = size
        <5>1. CASE b.tokens >= Window
          <6>1. Cardinality(Of(k, i, m)') = size + 0
            BY <1>17, <2>1, <3>1, <3>6, <5>1
          <6> QED
            BY <3>3, <6>1
        <5>2. CASE ~(b.tokens >= Window)
          BY <1>17, <2>1, <3>1, <5>2
        <5> QED
          BY <5>1, <5>2
      <4>2. CASE k \in Tracked(order')
        <5>1. k \in Tracked(order) /\ bucket'[k] = bucket[k] /\ evicted'[k] = e
          BY <1>8, <1>12, <1>13, <3>1, <3>6, <4>2
        <5>2. used + bucket[k].tokens <= Allowed(SourceCapacity, 1 + e, a, bucket[k].updated)
          BY <1>16, <2>1, <3>1, <3>2, <5>1 DEF AdmissionInv, RateInv, SourceRoom
        <5> QED
          BY <3>1, <3>2, <4>1, <4>2, <5>1, <5>2
      <4>3. CASE k \notin Tracked(order') /\ k \in Tracked(keys)
        <5>1. k \in Tracked(order) /\ evicted'[k] = 1 + e
          BY <1>8, <1>13, <3>1, <4>3
        <5>2. PICK u, held : u = bucket[k].updated /\ held = bucket[k].tokens
          OBVIOUS
        <5>3. u \in Int /\ held \in Nat /\ u <= now
          <6>1. u \in Nat /\ held \in Nat /\ u <= global.updated /\ global.updated \in Nat
            BY <1>4, <5>1, <5>2, BucketTyped, AdmissionAssumption
            DEF AdmissionInv, BucketTypes, RateInv, BucketsSeen
          <6> QED
            BY <1>3, <1>4, <6>1
        <5>4. used + held <= Allowed(SourceCapacity, 1 + e, a, u)
          BY <1>16, <2>1, <3>1, <3>2, <5>1, <5>2 DEF AdmissionInv, RateInv, SourceRoom
        <5>5. /\ Allowed(SourceCapacity, 1 + e, a, u) <= Allowed(SourceCapacity, 1 + e, a, now)
              /\ Allowed(SourceCapacity, 1 + e, a, u) \in Int
          BY <3>2, <5>3, AllowedLater, AllowedTyped, Zenon
        <5>6. used <= Allowed(SourceCapacity, 1 + e, a, now)
          BY <3>3, <3>4, <5>3, <5>4, <5>5
        <5> QED
          BY <1>9, <3>1, <3>2, <4>1, <4>3, <5>1, <5>6
      <4>4. CASE k \notin Tracked(order') /\ k \notin Tracked(keys)
        <5>1. evicted'[k] = e
          BY <1>13, <3>1, <4>4
        <5>2. used <= Allowed(SourceCapacity, e, a, now)
          BY <1>2, <1>3, <1>16, <2>1, <3>1, <3>2, <4>4, UntrackedRoom
        <5> QED
          BY <1>9, <3>1, <3>2, <4>1, <4>4, <5>1, <5>2
      <4> QED
        BY <4>2, <4>3, <4>4
    <3> QED
      BY <3>5, <3>6
  <2>2. CASE i \notin 1 .. n
    <3>1. i = m /\ b.tokens >= Window /\ k = s /\ admitted'[i].now = now
      BY <1>17, <2>2
    <3>2. Cardinality(Of(k, i, m)') = 1
      BY <1>17, <3>1
    <3>3. evicted'[k] = evicted[k] /\ evicted[k] \in Nat
      BY <1>8, <1>13, <3>1
    <3>4. PICK e : e = evicted[k]
      OBVIOUS
    <3>5. SourceCapacity * Window <= Allowed(SourceCapacity, 1 + e, now, now)
      <4>1. e \in Nat /\ now \in Int /\ SourceCapacity \in Nat \ {0}
        BY <1>4, <3>3, <3>4
      <4> QED
        BY <4>1, AllowedStarts, Zenon
    <3>6. Allowed(SourceCapacity, 1 + e, now, now) \in Int
      <4>1. 1 + e \in Int /\ now \in Int /\ SourceCapacity \in Nat
        BY <1>4, <3>3, <3>4
      <4> QED
        BY <4>1, AllowedTyped, Zenon
    <3>7. Window + left <= Allowed(SourceCapacity, 1 + e, now, now)
      BY <1>4, <1>7, <1>11, <3>1, <3>5, <3>6
    <3>8. k \in Tracked(order') /\ bucket'[k].updated = now /\ bucket'[k].tokens = left
      BY <1>8, <1>10, <1>11, <3>1
    <3>9. 1 * Window = Window
      BY <1>4
    <3> QED
      BY <3>1, <3>2, <3>3, <3>4, <3>7, <3>8, <3>9
  <2> QED
    BY <2>1, <2>2
<1>22. SourceRateBound'
  <2> SUFFICES ASSUME NEW k \in Sources, NEW i \in 1 .. m, NEW j \in 1 .. m, i <= j,
                      admitted'[i].source = k, admitted'[j].source = k
               PROVE  Cardinality(Of(k, i, j)') * Window
                        <= Allowed(SourceCapacity, 1 + evicted'[k], admitted'[i].now, admitted'[j].now)
    BY <1>16 DEF SourceRateBound, Of
  <2>1. CASE j \in 1 .. n
    <3>1. i \in 1 .. n
      BY <1>17, <2>1
    <3>2. PICK a, z, e, used : /\ a = admitted[i].now /\ z = admitted[j].now /\ e = evicted[k]
                               /\ used = Cardinality(Of(k, i, j)) * Window
      OBVIOUS
    <3>3. used <= Allowed(SourceCapacity, 1 + e, a, z)
      BY <1>16, <1>17, <2>1, <3>1, <3>2 DEF AdmissionInv, RateInv, RatesBounded, SourceRateBound
    <3>4. /\ a \in Int /\ z \in Int /\ 1 + e \in Int /\ 1 + (1 + e) \in Int /\ SourceCapacity \in Nat
          /\ i \in Int /\ j \in Int
      <4>1. a \in Nat /\ z \in Nat /\ i \in Nat /\ j \in Nat
        BY <1>5, <1>16, <2>1, <3>1, <3>2, AdmissionTyped
      <4>2. e \in Nat
        BY <1>13, <3>2
      <4> QED
        BY <1>4, <4>1, <4>2
    <3>5. /\ Allowed(SourceCapacity, 1 + e, a, z) <= Allowed(SourceCapacity, 1 + (1 + e), a, z)
          /\ Allowed(SourceCapacity, 1 + e, a, z) \in Int
          /\ Allowed(SourceCapacity, 1 + (1 + e), a, z) \in Int
      BY <3>4, AllowedMore, AllowedTyped, Zenon
    <3>6. used \in Nat
      <4>1. Cardinality(Of(k, i, j)) \in Nat
        BY <3>4, OfFinite
      <4> QED
        BY <1>4, <3>2, <4>1
    <3>7. used <= Allowed(SourceCapacity, 1 + (1 + e), a, z)
      BY <3>3, <3>5, <3>6
    <3>8. /\ Of(k, i, j)' = Of(k, i, j) /\ admitted'[i].now = a /\ admitted'[j].now = z
          /\ evicted'[k] = e \/ evicted'[k] = 1 + e
      BY <1>13, <1>17, <2>1, <3>1, <3>2
    <3> QED
      BY <3>2, <3>3, <3>7, <3>8
  <2>2. CASE j \notin 1 .. n
    <3>1. j = m /\ admitted'[j].now = now /\ k = s
      BY <1>17, <2>2
    <3>2. PICK a, e, used : /\ a = admitted'[i].now /\ e = evicted'[k]
                            /\ used = Cardinality(Of(k, i, m)') * Window
      OBVIOUS
    <3>3. used + left <= Allowed(SourceCapacity, 1 + e, a, now)
      <4>1. SourceRoom(s)'
        BY <1>3, <1>21
      <4>2. k \in Tracked(order') /\ bucket'[k].updated = now /\ bucket'[k].tokens = left
        BY <1>8, <1>10, <1>11, <3>1
      <4> QED
        BY <1>16, <3>1, <3>2, <4>1, <4>2 DEF SourceRoom
    <3>4. used \in Nat
      <4>1. IsFiniteSet(i .. m) /\ Of(k, i, m)' \in SUBSET (i .. m)
        BY <1>17, FS_Interval DEF Of
      <4>2. Cardinality(Of(k, i, m)') \in Nat
        BY <4>1, FS_Subset, FS_CardinalityType
      <4> QED
        BY <1>4, <3>2, <4>2
    <3>5. Allowed(SourceCapacity, 1 + e, a, now) \in Int
      <4>1. admitted'[i] \in AdmissionRow
        BY <1>14, <1>16, LenProperties DEF BucketTypes
      <4>2. a \in Int /\ 1 + e \in Int /\ now \in Int /\ SourceCapacity \in Nat
        BY <1>4, <1>13, <3>2, <4>1 DEF AdmissionRow
      <4> QED
        BY <4>2, AllowedTyped, Zenon
    <3>6. left \in Nat
      BY <1>4, <1>11
    <3>7. used <= Allowed(SourceCapacity, 1 + e, a, now)
      BY <3>3, <3>4, <3>5, <3>6
    <3> QED
      BY <3>1, <3>2, <3>7
  <2> QED
    BY <2>1, <2>2
<1> QED
  BY <1>14, <1>15, <1>19, <1>20, <1>21, <1>22 DEF AdmissionInv, RateInv, RatesBounded

-----------------------------------------------------------------------------
(* The theorems *)

Inv == SlotInv /\ RateInv

\* The types of the state are those of the buckets and those of the slots.
LEMMA TypesSplit == TypeOK <=>
                      /\ clock \in 0 .. LastTick /\ slots \in 0 .. MaxConcurrency
                      /\ active \in 0 .. MaxConcurrency /\ req \in [Requests -> ReqRow]
                      /\ BucketTypes
BY DEF TypeOK, BucketTypes, ReqRow, AdmissionRow

\* All slots are free and nothing was admitted yet.
LEMMA InvInit == ASSUME Init PROVE Inv
<1>1. /\ clock = 0 /\ slots = MaxConcurrency /\ active = 0 /\ order = << >> /\ admitted = << >>
      /\ global = NewBucket(GlobalCapacity, 0)
      /\ bucket = [s \in Sources |-> NewBucket(SourceCapacity, 0)]
      /\ evicted = [s \in Sources |-> 0]
  BY DEF Init
<1>2. req \in [Requests -> ReqRow] /\ \A r \in Requests : req[r].pc = "idle"
  <2> DEFINE Row(s) == [pc |-> "idle", source |-> s, now |-> 0, closed |-> FALSE, verdict |-> "none"]
  <2>1. \A s \in Sources : Row(s) \in ReqRow /\ Row(s).pc = "idle"
    BY AdmissionAssumption DEF ReqRow, Pcs
  <2>2. req \in [Requests -> {Row(s) : s \in Sources}]
    BY DEF Init
  <2> HIDE DEF Row
  <2> QED
    BY <2>1, <2>2
<1>3. TypeOK
  <2>1. \A c \in Nat : NewBucket(c, 0) \in Buckets(c)
    BY AdmissionAssumption DEF NewBucket, Buckets
  <2>2. BucketTypes
    BY <1>1, <2>1, AdmissionAssumption DEF BucketTypes
  <2> QED
    BY <1>1, <1>2, <2>2, TypesSplit, AdmissionAssumption
<1>4. In(Holding) = {} /\ In(Counted) = {}
  BY <1>2 DEF In, Holding, Counted
<1>5. With(Holding) = 0 /\ With(Counted) = 0
  BY <1>4, FS_EmptySet DEF With, In
<1>6. SlotInv
  BY <1>1, <1>2, <1>3, <1>4, <1>5, AdmissionAssumption, FS_EmptySet DEF SlotInv, SlotsConserved
<1>7. RateInv
  <2>1. Len(order) = 0 /\ Len(admitted) = 0
    BY <1>1
  <2>2. 1 .. Len(order) = {} /\ 1 .. Len(admitted) = {}
    BY <2>1
  <2> QED
    BY <2>2 DEF RateInv, BucketsSeen, Tracked, GlobalRoom, SourceRoom, RatesBounded,
                GlobalRateBound, SourceRateBound
<1> QED
  BY <1>6, <1>7 DEF Inv

\* Every step keeps the slots and the rates.
LEMMA InvNext == ASSUME Inv, [Next]_vars PROVE Inv'
<1>1. SlotInv /\ RateInv /\ TypeOK /\ AdmissionInv
  BY TypesSplit DEF Inv, SlotInv, AdmissionInv
<1>2. ASSUME NEW r \in Requests, Step(r) PROVE Inv'
  <2>1. req[r] \in ReqRow /\ clock' = clock
    BY <1>1, <1>2, TypesSplit, Zenon
    DEF Step, Acquire, ServerBusy, CountIn, ReadClock, SourceInvalid, ClockInvalid, GlobalLimited,
        AdmitOrLimit, Call, Close, CountOut, Release
  <2>2. /\ req' \in [Requests -> ReqRow]
        /\ slots' \in 0 .. MaxConcurrency /\ active' \in 0 .. MaxConcurrency
        /\ IsFiniteSet(In(Holding)') /\ SlotsConserved'
        /\ \A k \in Requests : req'[k].pc \in {"leaving", "uncounted"} => req'[k].verdict \in Over
    BY <1>1, <1>2, StepMoves, SlotsMove
  <2>3. AdmissionInv'
    <3>1. CASE AdmitOrLimit(r)
      BY <1>1, <2>1, <3>1, AdmitPreserves
    <3>2. CASE GlobalLimited(r)
      <4>1. PICK now : now = req[r].now
        OBVIOUS
      <4>2. now \in 0 .. LastTick
        BY <2>1, <4>1 DEF ReqRow
      <4>3. /\ now >= global.updated /\ global' = Refilled(global, GlobalCapacity, now)
            /\ UNCHANGED << bucket, order, admitted, evicted >>
        BY <3>2, <4>1 DEF GlobalLimited
      <4>4. global.updated <= now
        BY <1>1, <4>2, <4>3, BucketTyped, AdmissionAssumption DEF AdmissionInv, BucketTypes
      <4> QED
        BY <1>1, <4>2, <4>3, <4>4, GlobalRefills
    <3>3. CASE UnchangedBuckets
      BY <1>1, <3>3
      DEF UnchangedBuckets, AdmissionInv, BucketTypes, RateInv, BucketsSeen, GlobalRoom, SourceRoom,
          RatesBounded, GlobalRateBound, SourceRateBound, Of
    <3>4. AdmitOrLimit(r) \/ GlobalLimited(r) \/ UnchangedBuckets
      BY <1>2, Zenon
      DEF Step, Acquire, ServerBusy, CountIn, ReadClock, SourceInvalid, ClockInvalid, Call, Close,
          CountOut, Release
    <3> QED
      BY <3>1, <3>2, <3>3, <3>4
  <2>4. TypeOK'
    BY <1>1, <2>1, <2>2, <2>3, TypesSplit DEF AdmissionInv, TypeOK, BucketTypes, ReqRow, AdmissionRow
  <2> QED
    BY <2>2, <2>3, <2>4 DEF Inv, SlotInv, AdmissionInv
<1>3. ASSUME UNCHANGED << slots, active, req >>, clock' \in 0 .. LastTick, AdmissionInv' PROVE Inv'
  <2>1. TypeOK'
    BY <1>1, <1>3 DEF AdmissionInv, TypeOK, BucketTypes, AdmissionRow
  <2>2. SlotInv'
    BY <1>1, <1>3, <2>1 DEF SlotInv, SlotsConserved, With, In
  <2> QED
    BY <1>3, <2>2 DEF Inv, AdmissionInv
<1>4. ASSUME NEW now \in 0 .. LastTick, Probe(now) PROVE Inv'
  <2>1. /\ now > global.updated /\ global' = Refilled(global, GlobalCapacity, now)
        /\ UNCHANGED << bucket, order, admitted, evicted >>
        /\ UNCHANGED << slots, active, req >> /\ clock' = clock
    BY <1>4 DEF Probe
  <2>2. global.updated <= now
    BY <1>1, <2>1, BucketTyped, AdmissionAssumption DEF AdmissionInv, BucketTypes
  <2>3. AdmissionInv'
    BY <1>1, <2>1, <2>2, GlobalRefills
  <2> QED
    BY <1>1, <1>3, <2>1, <2>3 DEF TypeOK
<1>5. ASSUME UnchangedBuckets, UNCHANGED << slots, active, req >>, clock' \in 0 .. LastTick PROVE Inv'
  <2>1. AdmissionInv'
    BY <1>1, <1>5
    DEF UnchangedBuckets, AdmissionInv, BucketTypes, RateInv, BucketsSeen, GlobalRoom, SourceRoom,
        RatesBounded, GlobalRateBound, SourceRateBound, Of
  <2> QED
    BY <1>3, <1>5, <2>1
<1>6. CASE Tick
  BY <1>1, <1>5, <1>6, AdmissionAssumption DEF Tick, TypeOK
<1>7. CASE UNCHANGED vars
  BY <1>1, <1>5, <1>7 DEF vars, UnchangedBuckets, TypeOK
<1> QED
  BY <1>2, <1>4, <1>6, <1>7 DEF Next

\* No path through the middleware, in whatever order the threads take it, leaks a slot or
\* gives one back twice, and the reported activity counts those that hold one.
THEOREM SlotsAreConserved == Spec => []SlotsConserved
<1>1. Init => Inv
  BY InvInit
<1>2. Inv /\ [Next]_vars => Inv'
  BY InvNext
<1>3. Inv => SlotsConserved
  BY DEF Inv, SlotInv
<1> QED
  BY <1>1, <1>2, <1>3, PTL DEF Spec

\* Whatever order the threads read the clock and reach the lock in, and whatever the table
\* prunes or evicts, no stretch of readings lets more requests through than the two rates
\* allow.
THEOREM RatesAreBounded == Spec => []RatesBounded
<1>1. Init => Inv
  BY InvInit
<1>2. Inv /\ [Next]_vars => Inv'
  BY InvNext
<1>3. Inv => RatesBounded
  BY DEF Inv, RateInv
<1> QED
  BY <1>1, <1>2, <1>3, PTL DEF Spec

=============================================================================
