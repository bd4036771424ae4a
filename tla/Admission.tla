------------------------------- MODULE Admission -------------------------------
(***************************************************************************)
(* The admission control in front of the Team API                          *)
(* (TeamAdmissionControlMiddleware): a bounded number of slots, a global   *)
(* token bucket, and one token bucket per source in least-recently-seen    *)
(* order.  Requests are served by concurrent threads; each reads the clock *)
(* and only then takes the lock under which the buckets change.            *)
(*                                                                         *)
(* The clock here never runs backward.  Tokens are counted in units of     *)
(* 1/Window, so that a bucket refills by `capacity' units per tick exactly;*)
(* a request costs Window units.                                           *)
(***************************************************************************)
EXTENDS Integers, FiniteSets, Sequences, SequencesExt

CONSTANTS
  Requests,
  Sources,
  MaxConcurrency,
  GlobalCapacity,
  SourceCapacity,
  Window,         \* rate_window_seconds
  Idle,           \* source_idle_seconds
  MaxTracked,     \* max_tracked_sources
  LastTick        \* bound of the clock

ASSUME AdmissionAssumption ==
  /\ {MaxConcurrency, GlobalCapacity, SourceCapacity, Window, MaxTracked} \subseteq Nat \ {0}
  /\ Idle \in Nat /\ Window <= Idle
  /\ LastTick \in Nat

VARIABLES
  clock,
  slots,          \* free slots of the semaphore
  active,         \* _active_requests
  global,         \* the global bucket
  bucket,         \* _source_buckets: the bucket of every source in `order'
  order,          \* the order of its keys, least recently seen first
  req,            \* the threads
  admitted,       \* the admissions so far, in order
  evicted         \* how often each source lost its bucket to make room

vars == << clock, slots, active, global, bucket, order, req, admitted, evicted >>

-----------------------------------------------------------------------------
(* States *)

\* "taken" holds a slot not yet counted as active; "uncounted" is counted no more and
\* still holds its slot.
Pcs == {"idle", "taken", "counted", "clocked", "calling", "streaming", "leaving", "uncounted",
        "served", "limited", "unavailable", "busy"}
Holding == {"taken", "counted", "clocked", "calling", "streaming", "leaving", "uncounted"}
Counted == Holding \ {"taken", "uncounted"}
Over == {"served", "limited", "unavailable", "busy"}

NewBucket(capacity, now) == [tokens |-> capacity * Window, updated |-> now]
AtMost(m, n) == IF m <= n THEN m ELSE n

\* _refill of a bucket whose last update is not later than `now'.
Refilled(b, capacity, now) ==
  [tokens |-> AtMost(capacity * Window, b.tokens + (now - b.updated) * capacity), updated |-> now]

Paid(b) == [b EXCEPT !.tokens = @ - Window]

Init ==
  /\ clock = 0
  /\ slots = MaxConcurrency
  /\ active = 0
  /\ global = NewBucket(GlobalCapacity, 0)
  /\ bucket = [s \in Sources |-> NewBucket(SourceCapacity, 0)]
  /\ order = << >>
  /\ req \in [Requests -> {[pc |-> "idle", source |-> s, now |-> 0, closed |-> FALSE,
                            verdict |-> "none"] : s \in Sources}]
  /\ admitted = << >>
  /\ evicted = [s \in Sources |-> 0]

UnchangedBuckets == UNCHANGED << global, bucket, order, admitted, evicted >>
Goto(r, pc) == req' = [req EXCEPT ![r].pc = pc]

\* The thread gives its slot back and ends with `verdict'.
Leave(r, verdict) == req' = [req EXCEPT ![r].pc = "leaving", ![r].verdict = verdict]

-----------------------------------------------------------------------------
(* The slot *)

Acquire(r) ==
  /\ req[r].pc = "idle"
  /\ slots > 0
  /\ slots' = slots - 1
  /\ Goto(r, "taken")
  /\ UNCHANGED << clock, active >> /\ UnchangedBuckets

ServerBusy(r) ==
  /\ req[r].pc = "idle"
  /\ slots = 0
  /\ Goto(r, "busy")
  /\ UNCHANGED << clock, slots, active >> /\ UnchangedBuckets

CountIn(r) ==
  /\ req[r].pc = "taken"
  /\ active' = active + 1
  /\ Goto(r, "counted")
  /\ UNCHANGED << clock, slots >> /\ UnchangedBuckets

\* _release_slot: the counter under the lock, then the semaphore.
CountOut(r) ==
  /\ req[r].pc = "leaving"
  /\ active' = active - 1
  /\ Goto(r, "uncounted")
  /\ UNCHANGED << clock, slots >> /\ UnchangedBuckets

Release(r) ==
  /\ req[r].pc = "uncounted"
  /\ slots' = slots + 1
  /\ Goto(r, req[r].verdict)
  /\ UNCHANGED << clock, active >> /\ UnchangedBuckets

-----------------------------------------------------------------------------
(* The buckets *)

ReadClock(r) ==
  /\ req[r].pc = "counted"
  /\ req' = [req EXCEPT ![r].pc = "clocked", ![r].now = clock]
  /\ UNCHANGED << clock, slots, active >> /\ UnchangedBuckets

\* The source resolver fails.
SourceInvalid(r) ==
  /\ req[r].pc = "clocked"
  /\ Leave(r, "unavailable")
  /\ UNCHANGED << clock, slots, active >> /\ UnchangedBuckets

\* _admit finds that another thread updated the global bucket with a later reading.
ClockInvalid(r) ==
  /\ req[r].pc = "clocked"
  /\ req[r].now < global.updated
  /\ Leave(r, "unavailable")
  /\ UNCHANGED << clock, slots, active >> /\ UnchangedBuckets

GlobalLimited(r) ==
  LET g == Refilled(global, GlobalCapacity, req[r].now) IN
  /\ req[r].pc = "clocked"
  /\ req[r].now >= global.updated
  /\ g.tokens < Window
  /\ global' = g
  /\ Leave(r, "limited")
  /\ UNCHANGED << clock, slots, active, bucket, order, admitted, evicted >>

\* Variant: pruning stops at nothing.
FreshOfAll(keys, now) == << >>

\* _prune_sources: the keys left when the idle ones at the front are dropped.
Fresh(keys, now) ==
  LET idle == {i \in 1 .. Len(keys) :
                 \A j \in 1 .. i : now - bucket[keys[j]].updated >= Idle}
  IN  SubSeq(keys, Cardinality(idle) + 1, Len(keys))

Tracked(keys) == {keys[i] : i \in 1 .. Len(keys)}
Without(keys, s) == RemoveAt(keys, CHOOSE i \in 1 .. Len(keys) : keys[i] = s)

\* The keys once source s was looked up: s last, the first one evicted to make room for a
\* source that had no bucket.
Placed(keys, s) ==
  IF s \in Tracked(keys) THEN Append(Without(keys, s), s)
  ELSE Append(IF Len(keys) >= MaxTracked THEN Tail(keys) ELSE keys, s)

\* The rest of _admit, with a global token: the source's bucket admits or limits the
\* request, and the global token is gone in both cases.
AdmitOrLimit(r) ==
  LET s == req[r].source
      now == req[r].now
      g == Refilled(global, GlobalCapacity, now)
      keys == Fresh(order, now)
      b == IF s \in Tracked(keys) THEN Refilled(bucket[s], SourceCapacity, now)
                                  ELSE NewBucket(SourceCapacity, now)
      admits == b.tokens >= Window
  IN
  /\ req[r].pc = "clocked"
  /\ now >= global.updated
  /\ g.tokens >= Window
  /\ global' = Paid(g)
  /\ order' = Placed(keys, s)
  /\ bucket' = [k \in Sources |-> IF k = s THEN (IF admits THEN Paid(b) ELSE b)
                                 ELSE IF k \in Tracked(order') THEN bucket[k]
                                 ELSE NewBucket(SourceCapacity, 0)]
  /\ evicted' = [k \in Sources |->
       IF k \in Tracked(keys) \ Tracked(order') THEN evicted[k] + 1 ELSE evicted[k]]
  /\ admitted' = IF admits THEN Append(admitted, [source |-> s, now |-> now]) ELSE admitted
  /\ IF admits THEN Goto(r, "calling") ELSE Leave(r, "limited")
  /\ UNCHANGED << clock, slots, active >>

\* The readiness probe takes no slot, and refills the global bucket unless its reading is
\* older than the bucket; a probe reads and refills at any two moments.
Probe(now) ==
  /\ now <= clock
  /\ now > global.updated
  /\ global' = Refilled(global, GlobalCapacity, now)
  /\ UNCHANGED << clock, slots, active, bucket, order, req, admitted, evicted >>

-----------------------------------------------------------------------------
(* The application and its response *)

\* The application raises, and the slot is given back at once; or it returns an iterable.
Call(r) ==
  /\ req[r].pc = "calling"
  /\ \/ Leave(r, "served")
     \/ Goto(r, "streaming")
  /\ UNCHANGED << clock, slots, active >> /\ UnchangedBuckets

\* Variant: whoever closes the response gives the slot back.
CloseEvery(r) ==
  /\ req[r].pc \in {"streaming", "leaving", "uncounted", "served"}
  /\ req[r].verdict \in {"none", "served"}
  /\ ~req[r].closed
  /\ req' = [req EXCEPT ![r].pc = "leaving", ![r].verdict = "served",
                        ![r].closed = req[r].pc # "streaming"]
  /\ UNCHANGED << clock, slots, active >> /\ UnchangedBuckets

\* _ReleasingIterable.close, by the end of the iteration or by the server: the first
\* caller gives the slot back, any later one finds it closed and does nothing.
Close(r) ==
  /\ req[r].pc = "streaming"
  /\ ~req[r].closed
  /\ req' = [req EXCEPT ![r].pc = "leaving", ![r].verdict = "served", ![r].closed = TRUE]
  /\ UNCHANGED << clock, slots, active >> /\ UnchangedBuckets

Tick ==
  /\ clock < LastTick
  /\ clock' = clock + 1
  /\ UNCHANGED << slots, active, req >> /\ UnchangedBuckets

Step(r) ==
  \/ Acquire(r) \/ ServerBusy(r) \/ CountIn(r) \/ ReadClock(r) \/ SourceInvalid(r)
  \/ ClockInvalid(r) \/ GlobalLimited(r) \/ AdmitOrLimit(r)
  \/ Call(r) \/ Close(r) \/ CountOut(r) \/ Release(r)

Next ==
  \/ \E r \in Requests : Step(r)
  \/ \E now \in 0 .. LastTick : Probe(now)
  \/ Tick

Spec == Init /\ [][Next]_vars

-----------------------------------------------------------------------------
(* Properties *)

Buckets(capacity) == [tokens : 0 .. capacity * Window, updated : 0 .. LastTick]

TypeOK ==
  /\ clock \in 0 .. LastTick
  /\ slots \in 0 .. MaxConcurrency
  /\ active \in 0 .. MaxConcurrency
  /\ global \in Buckets(GlobalCapacity)
  /\ bucket \in [Sources -> Buckets(SourceCapacity)]
  /\ order \in Seq(Sources)
  /\ req \in [Requests -> [pc : Pcs, source : Sources, now : 0 .. LastTick, closed : BOOLEAN,
                           verdict : Over \cup {"none"}]]
  /\ admitted \in Seq([source : Sources, now : 0 .. LastTick])
  /\ evicted \in [Sources -> Nat]

\* No path through the middleware leaks a slot or gives one back twice: the free slots and
\* the requests that hold one always add up, and the reported activity never exceeds it.
With(pcs) == Cardinality({r \in Requests : req[r].pc \in pcs})
SlotsConserved ==
  /\ slots + With(Holding) = MaxConcurrency
  /\ active = With(Counted)

\* What a rate lets through between two readings, after so many full buckets.
Allowed(capacity, buckets, from, to) == capacity * (Window * buckets + to - from)

\* Over any stretch of readings the global bucket admits no more than its capacity plus
\* what it refilled meanwhile, whatever order the threads reach the lock in.
GlobalRateBound ==
  \A i \in 1 .. Len(admitted), j \in 1 .. Len(admitted) : i <= j =>
    (j - i + 1) * Window <= Allowed(GlobalCapacity, 1, admitted[i].now, admitted[j].now)

\* The same for each source.  A bucket pruned as idle was full again, so pruning lends a
\* source nothing; each eviction lends it at most one more capacity.
Of(s, i, j) == {k \in i .. j : admitted[k].source = s}
SourceRateBound ==
  \A s \in Sources, i \in 1 .. Len(admitted), j \in 1 .. Len(admitted) :
    i <= j /\ admitted[i].source = s /\ admitted[j].source = s =>
      Cardinality(Of(s, i, j)) * Window <=
        Allowed(SourceCapacity, 1 + evicted[s], admitted[i].now, admitted[j].now)

\* No reading of the clock, no order of the threads and no pruning of the table lets more
\* requests through than the two rates allow, over all sources or for one of them.
RatesBounded == GlobalRateBound /\ SourceRateBound

\* The keys are in the order in which their sources were last seen, which pruning relies on
\* when it stops at the first key that is not idle, and eviction when it drops the first.
SourcesOrdered ==
  /\ Len(order) <= MaxTracked
  /\ \A i \in 1 .. Len(order), j \in 1 .. Len(order) : i < j =>
       order[i] # order[j] /\ bucket[order[i]].updated <= bucket[order[j]].updated
  /\ \A s \in Tracked(order) : bucket[s].updated <= global.updated

\* A request is refused for the clock only if the clock ran backward or is invalid, which
\* it does not and is not here.
MonotonicClockAccepted ==
  \A r \in Requests : req[r].pc = "clocked" => req[r].now >= global.updated

=============================================================================
