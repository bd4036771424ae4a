----------------------------- MODULE SandboxProofs -----------------------------
(***************************************************************************)
(* The sandboxed runner ends cleanly, for every number of references, any  *)
(* pool, any lease and every interleaving of its threads, its containers,  *)
(* the proxy and a crash.                                                  *)
(***************************************************************************)
EXTENDS SandboxRun, QuotaLedgerProofs, WellFoundedInduction

-----------------------------------------------------------------------------
(* The inductive invariant *)

Stopping == {"scan", "kill", "watch", "join"}

\* What the main thread knows of the pool and of its own error at each place.
MainInv ==
  /\ run.pc \in {"start", "preflight"} =>
       \A w \in Workers : thread[w] = "queued" /\ container[w] = "absent"
  /\ run.pc = "start" => ~run.leased
  /\ run.pc \in {"settle", "cancel", "succeeded", "failed"} =>
       \A w \in Workers : thread[w] \in Finished \cup {"queued"}
  /\ run.pc \in {"settle", "succeeded"} => \A w \in Workers : thread[w] = "ok"
  /\ run.pc \in {"settle", "cancel"} => run.leased
  /\ run.pc \in Stopping \cup {"cancel"} => run.code \in RunCodes

\* A container that runs has a thread that watches it, or one that gave up on it.
ContainerInv(w) == container[w] = "live" => thread[w] \in HasProcess \cup {"lost", "dead"}

\* A confirmed name is suppressed, and nothing is left that could still create it.
ConfirmedInv(w) ==
  w \in confirmed =>
    /\ w \in tomb
    /\ container[w] # "live"
    /\ container[w] = "absent" => thread[w] \notin HasProcess

\* While a removal is awaited its name is suppressed already: a process that was not there
\* when the tombstone was set never comes.
WatchInv ==
  run.pc = "watch" =>
    /\ Target \in run.active
    /\ Target \in tomb
    /\ ~run.seen => thread[Target] \notin HasProcess

\* How a run with a lease leaves it.
OutcomeInv ==
  /\ run.pc = "succeeded" /\ run.leased =>
       lease[run.lease].state = "settled" /\ lease[run.lease].successful = Count
  /\ run.pc = "failed" /\ run.leased =>
       lease[run.lease].state \in {"canceled", "failed"} \/ run.code = "quota_cancellation_failed"

SInv ==
  /\ SandboxTypeOK
  /\ IInv
  /\ MainInv
  /\ \A w \in Workers : ContainerInv(w) /\ ConfirmedInv(w)
  /\ WatchInv
  /\ OutcomeInv

-----------------------------------------------------------------------------
(* Types and frames *)

RunRow ==
  [pc : Pcs, code : RunCodes \cup {"none", "quota_reservation_failed", "quota_cancellation_failed"},
   lease : Leases, leased : BOOLEAN, stopped : BOOLEAN, next : 1 .. Count + 1,
   active : SUBSET Workers, seen : BOOLEAN]

LEMMA Types ==
  ASSUME SInv
  PROVE  /\ lease \in [Leases -> LeaseRow] /\ op \in [Leases -> [Seqs -> OpRow]]
         /\ run \in RunRow
         /\ thread \in [Workers -> Threads]
         /\ container \in [Workers -> {"absent", "live", "exited", "removed"}]
         /\ tomb \subseteq Workers /\ confirmed \subseteq Workers
BY DEF SInv, SandboxTypeOK, LedgerTypeOK, RunRow

\* The next name to cancel is one of those still active.
LEMMA TargetIsActive ==
  ASSUME run.active \in SUBSET Workers, run.active # {}
  PROVE  Target \in run.active
<1> DEFINE R == {p \in Nat \X Nat : p[1] < p[2]}
<1>1. IsWellFoundedOn(R, Nat)
  BY NatLessThanWellFounded, Zenon DEF OpToRel
<1>2. run.active \subseteq Nat
  BY SandboxAssumption DEF Workers
<1>3. PICK w \in run.active : \A v \in run.active : <<v, w>> \notin R
  <2> HIDE DEF R
  <2> QED
    BY <1>1, <1>2, WFMin
<1>4. ASSUME NEW v \in run.active PROVE w <= v
  <2>1. v \in Nat /\ w \in Nat /\ <<v, w>> \in Nat \X Nat
    BY <1>2
  <2>2. ~(v < w)
    BY <1>3, <2>1
  <2> QED
    BY <2>1, <2>2
<1>5. \E u \in run.active : \A v \in run.active : u <= v
  BY <1>4
<1> QED
  BY <1>5 DEF Target

\* A step of the main thread that touches no worker and awaits no removal.
LEMMA QuietMove ==
  ASSUME SInv, IInv', UnchangedWorkers, run' \in RunRow, run'.pc # "watch", MainInv', OutcomeInv'
  PROVE  SInv'
<1>1. SandboxTypeOK'
  BY DEF SInv, IInv, SandboxTypeOK, UnchangedWorkers, RunRow
<1>2. \A w \in Workers : ContainerInv(w)' /\ ConfirmedInv(w)'
  BY DEF SInv, UnchangedWorkers, ContainerInv, ConfirmedInv
<1>3. WatchInv'
  BY DEF WatchInv
<1> QED
  BY <1>1, <1>2, <1>3 DEF SInv

\* The tables keep the invariant of the store when no transaction runs.
LEMMA TablesUntouched ==
  ASSUME SInv, UnchangedLedger
  PROVE  IInv'
BY NextPreserves DEF SInv, UnchangedLedger, ledgerVars

-----------------------------------------------------------------------------
(* The main thread *)

\* What a raise leads to.
LEMMA FailPreserves ==
  ASSUME SInv, UnchangedWorkers, UnchangedLedger, NEW code \in RunCodes, Fail(code),
         \A w \in Workers : thread[w] \in Finished \cup {"queued"},
         run.pc \notin {"succeeded", "failed"}
  PROVE  SInv'
<1>1. run \in RunRow /\ IInv'
  BY Types, TablesUntouched
<1>2. run' \in RunRow /\ run'.leased = run.leased /\ run'.code = code
      /\ run'.pc = (IF run.leased THEN "cancel" ELSE "failed")
  BY <1>1 DEF Fail, RunRow, Pcs, Terminals
<1>3. MainInv'
  BY <1>2 DEF SInv, MainInv, UnchangedWorkers, Stopping
<1>4. OutcomeInv'
  BY <1>2 DEF OutcomeInv
<1> QED
  BY <1>1, <1>2, <1>3, <1>4, QuietMove

\* A step to a place with the same code and lease.
LEMMA ProceedPreserves ==
  ASSUME SInv, UnchangedWorkers, UnchangedLedger, NEW pc \in Pcs, Proceed(pc),
         \/ run.pc = "start" /\ pc = "preflight"
         \/ run.pc = "preflight" /\ pc = "workers"
         \/ /\ run.pc = "workers" /\ \A w \in Workers : thread[w] = "ok"
            /\ \/ run.leased /\ pc = "settle"
               \/ ~run.leased /\ pc = "succeeded"
         \/ run.pc = "kill" /\ pc = "join"
  PROVE  SInv'
<1>1. run \in RunRow /\ IInv'
  BY Types, TablesUntouched
<1>2. run' \in RunRow /\ run'.leased = run.leased /\ run'.code = run.code /\ run'.pc = pc
  BY <1>1 DEF Proceed, RunRow
<1>3. MainInv'
  BY <1>2 DEF SInv, MainInv, UnchangedWorkers, Stopping, Finished
<1>4. OutcomeInv'
  BY <1>2 DEF OutcomeInv
<1> QED
  BY <1>1, <1>2, <1>3, <1>4, QuietMove

LEMMA BeginningsPreserve ==
  ASSUME SInv, StartOffline \/ ReserveFails \/ Preflight
  PROVE  SInv'
<1>1. run \in RunRow
  BY Types
<1>2. CASE StartOffline
  BY <1>2, ProceedPreserves DEF StartOffline, Pcs
<1>3. CASE ReserveFails
  <2>1. /\ run.pc = "start" /\ UnchangedWorkers /\ UnchangedLedger
        /\ run' = [run EXCEPT !.pc = "failed", !.code = "quota_reservation_failed"]
    BY <1>3 DEF ReserveFails
  <2>2. run' \in RunRow /\ run'.leased = run.leased /\ run'.pc = "failed"
    BY <1>1, <2>1 DEF RunRow, Pcs, Terminals
  <2>3. MainInv' /\ OutcomeInv'
    BY <2>1, <2>2 DEF SInv, MainInv, OutcomeInv, UnchangedWorkers, Stopping
  <2> QED
    BY <2>1, <2>2, <2>3, TablesUntouched, QuietMove
<1>4. CASE Preflight
  <2>1. run.pc = "preflight" /\ UnchangedWorkers /\ UnchangedLedger
        /\ \A w \in Workers : thread[w] \in Finished \cup {"queued"}
    BY <1>4 DEF Preflight, SInv, MainInv
  <2>2. CASE Proceed("workers")
    BY <2>1, <2>2, ProceedPreserves DEF Pcs
  <2>3. CASE Fail("preflight_failed")
    BY <2>1, <2>3, FailPreserves DEF RunCodes
  <2>4. CASE Fail("lease_invalid")
    BY <2>1, <2>4, FailPreserves DEF RunCodes
  <2> QED
    BY <1>4, <2>2, <2>3, <2>4 DEF Preflight
<1> QED
  BY <1>2, <1>3, <1>4

LEMMA ReservePreservesRun ==
  ASSUME SInv, ReserveLease
  PROVE  SInv' /\ LedgerNext
<1>1. PICK l \in Leases, r \in Reservations :
        /\ Requested(r) /\ Reserve(l, r)
        /\ \/ run' = [run EXCEPT !.pc = "preflight", !.lease = l, !.leased = TRUE]
           \/ run' = [run EXCEPT !.pc = "cancel", !.lease = l, !.leased = TRUE, !.code = "lease_invalid"]
           \/ run' = [run EXCEPT !.pc = "failed", !.code = "quota_reservation_failed"]
  BY DEF ReserveLease
<1>2. LedgerNext /\ IInv'
  <2>1. LedgerNext
    BY <1>1 DEF LedgerNext
  <2> QED
    BY <2>1, NextPreserves DEF SInv
<1>3. run.pc = "start" /\ UnchangedWorkers /\ run \in RunRow /\ ~run.leased
  BY Types DEF ReserveLease, SInv, MainInv
<1>4. /\ run' \in RunRow
      /\ \/ run'.pc = "preflight" /\ run'.leased
         \/ run'.pc = "cancel" /\ run'.leased /\ run'.code = "lease_invalid"
         \/ run'.pc = "failed" /\ ~run'.leased
  BY <1>1, <1>3 DEF RunRow, Pcs, Terminals, RunCodes
<1>5. MainInv' /\ OutcomeInv'
  BY <1>3, <1>4 DEF SInv, MainInv, OutcomeInv, UnchangedWorkers, Stopping, RunCodes
<1> QED
  BY <1>2, <1>3, <1>4, <1>5, QuietMove

LEMMA ReturnsPreserve ==
  ASSUME SInv, AllReturned \/ Join \/ SettleFails \/ KillDone
  PROVE  SInv'
<1>1. CASE AllReturned
  <2>1. /\ run.pc = "workers" /\ UnchangedWorkers /\ UnchangedLedger
        /\ \A w \in Workers : thread[w] = "ok"
    BY <1>1 DEF AllReturned
  <2>2. CASE Fail("outcomes_invalid")
    BY <2>1, <2>2, FailPreserves DEF RunCodes, Finished
  <2>3. CASE (run.leased /\ Proceed("settle")) \/ (~run.leased /\ Proceed("succeeded"))
    BY <2>1, <2>3, ProceedPreserves DEF Pcs, Terminals
  <2> QED
    BY <1>1, <2>2, <2>3 DEF AllReturned
<1>2. CASE Join
  BY <1>2, FailPreserves DEF Join, SInv, MainInv, Stopping
<1>3. CASE SettleFails
  BY <1>3, FailPreserves DEF SettleFails, SInv, MainInv, RunCodes
<1>4. CASE KillDone
  BY <1>4, ProceedPreserves DEF KillDone, Pcs
<1> QED
  BY <1>1, <1>2, <1>3, <1>4

LEMMA StopPreserves ==
  ASSUME SInv, StopWorkers
  PROVE  SInv'
<1>1. PICK code \in {"worker_failed", "sandbox_cleanup_unconfirmed", "timeout_exceeded"} :
        run' = [run EXCEPT !.pc = "scan", !.stopped = TRUE, !.code = code]
  BY DEF StopWorkers
<1>2. run \in RunRow /\ UnchangedWorkers /\ UnchangedLedger
  BY Types DEF StopWorkers
<1>3. run' \in RunRow /\ run'.pc = "scan" /\ run'.code = code /\ code \in RunCodes
  BY <1>1, <1>2 DEF RunRow, Pcs, RunCodes
<1>4. MainInv' /\ OutcomeInv'
  BY <1>3 DEF MainInv, OutcomeInv, Stopping
<1> QED
  BY <1>2, <1>3, <1>4, TablesUntouched, QuietMove

LEMMA ScanPreserves ==
  ASSUME SInv, Scan
  PROVE  SInv'
<1> DEFINE w == run.next
           rest == IF thread[w] \in Finished \cup {"queued"} THEN run.active ELSE run.active \cup {w}
<1>1. /\ run.pc = "scan" /\ w \in Workers
      /\ thread' = [thread EXCEPT ![w] = IF thread[w] = "queued" THEN "canceled" ELSE thread[w]]
      /\ run' = [run EXCEPT !.next = w + 1, !.active = rest,
                            !.pc = IF w = Count THEN "kill" ELSE run.pc]
      /\ UNCHANGED << container, tomb, confirmed >> /\ UnchangedLedger
  BY DEF Scan
<1>2. /\ run \in RunRow /\ thread \in [Workers -> Threads] /\ IInv'
  BY <1>1, Types, TablesUntouched
<1>3. w + 1 \in 1 .. Count + 1 /\ rest \in SUBSET Workers
  BY <1>1, <1>2, SandboxAssumption DEF Workers, RunRow
<1> HIDE DEF rest, w
<1>4. run' \in RunRow /\ run'.pc \in {"scan", "kill"} /\ run'.code = run.code
  BY <1>1, <1>2, <1>3 DEF RunRow, Pcs
<1>5. thread' \in [Workers -> Threads]
      /\ \A v \in Workers : thread'[v] = thread[v] \/ (thread[v] = "queued" /\ thread'[v] = "canceled")
  BY <1>1, <1>2 DEF Threads, Finished
<1>6. SandboxTypeOK'
  BY <1>1, <1>2, <1>4, <1>5, Types DEF IInv, SandboxTypeOK, RunRow
<1>7. MainInv' /\ OutcomeInv' /\ WatchInv'
  BY <1>1, <1>4 DEF SInv, MainInv, OutcomeInv, WatchInv, Stopping
<1>8. \A v \in Workers : ContainerInv(v)' /\ ConfirmedInv(v)'
  BY <1>1, <1>5 DEF SInv, ContainerInv, ConfirmedInv, HasProcess
<1> QED
  BY <1>2, <1>6, <1>7, <1>8 DEF SInv

LEMMA KillNextPreserves ==
  ASSUME SInv, KillNext
  PROVE  SInv'
<1>1. /\ run.pc = "kill" /\ run.active # {}
      /\ tomb' = tomb \cup {Target}
      /\ run' = [run EXCEPT !.pc = "watch", !.seen = thread[Target] \in HasProcess]
      /\ UNCHANGED << thread, container, confirmed >> /\ UnchangedLedger
  BY DEF KillNext
<1>2. run \in RunRow /\ IInv' /\ run.active \in SUBSET Workers
  BY <1>1, Types, TablesUntouched DEF RunRow
<1>3. Target \in run.active
  BY <1>1, <1>2, TargetIsActive
<1>4. /\ run' \in RunRow /\ run'.pc = "watch" /\ run'.code = run.code /\ run'.active = run.active
      /\ ~run'.seen => thread[Target] \notin HasProcess
  <2>1. CASE thread[Target] \in HasProcess
    BY <1>1, <1>2, <2>1 DEF RunRow, Pcs
  <2>2. CASE thread[Target] \notin HasProcess
    <3>1. (thread[Target] \in HasProcess) = FALSE
      BY <2>2
    <3>2. run' = [run EXCEPT !.pc = "watch", !.seen = FALSE]
      BY <1>1, <3>1, Zenon
    <3> QED
      BY <1>2, <2>2, <3>2 DEF RunRow, Pcs
  <2> QED
    BY <2>1, <2>2
<1>5. Target' = Target
  BY <1>4 DEF Target
<1>6. tomb' \subseteq Workers
  BY <1>1, <1>2, <1>3, Types
<1>7. SandboxTypeOK'
  BY <1>1, <1>2, <1>4, <1>6, Types DEF IInv, SandboxTypeOK, RunRow
<1>8. MainInv' /\ OutcomeInv'
  BY <1>1, <1>4 DEF SInv, MainInv, OutcomeInv, Stopping
<1>9. \A v \in Workers : ContainerInv(v)' /\ ConfirmedInv(v)'
  BY <1>1 DEF SInv, ContainerInv, ConfirmedInv
<1>10. WatchInv'
  BY <1>1, <1>3, <1>4, <1>5 DEF WatchInv
<1> QED
  BY <1>2, <1>7, <1>8, <1>9, <1>10 DEF SInv

LEMMA KillConfirmedPreserves ==
  ASSUME SInv, KillConfirmed
  PROVE  SInv'
<1>1. Target \in run.active /\ Target \in tomb /\ (~run.seen => thread[Target] \notin HasProcess)
  BY DEF KillConfirmed, SInv, WatchInv
<1> SUFFICES ASSUME NEW w \in run.active, w = Target
             PROVE  SInv'
  BY <1>1
<1>2. /\ run.pc = "watch"
      /\ container[w] = "live" \/ (container[w] # "live" /\ (run.seen => thread[w] \notin HasProcess))
      /\ container' = [container EXCEPT ![w] = IF container[w] = "live" THEN "removed" ELSE container[w]]
      /\ confirmed' = confirmed \cup {w}
      /\ run' = [run EXCEPT !.pc = "kill", !.active = run.active \ {w}]
      /\ UNCHANGED << thread, tomb >> /\ UnchangedLedger
  BY DEF KillConfirmed
<1>3. run \in RunRow /\ IInv' /\ w \in Workers
      /\ container \in [Workers -> {"absent", "live", "exited", "removed"}]
  BY <1>2, Types, TablesUntouched DEF RunRow
<1>4. run' \in RunRow /\ run'.pc = "kill" /\ run'.code = run.code
  BY <1>2, <1>3 DEF RunRow, Pcs
<1>5. /\ container' \in [Workers -> {"absent", "live", "exited", "removed"}]
      /\ container'[w] # "live"
      /\ container'[w] = "absent" => container[w] = "absent"
      /\ \A v \in Workers \ {w} : container'[v] = container[v]
  BY <1>2, <1>3
<1>6. SandboxTypeOK'
  BY <1>2, <1>3, <1>4, <1>5, Types DEF IInv, SandboxTypeOK, RunRow
<1>7. MainInv' /\ OutcomeInv' /\ WatchInv'
  BY <1>2, <1>4 DEF SInv, MainInv, OutcomeInv, WatchInv, Stopping
<1>8. ASSUME NEW v \in Workers PROVE ContainerInv(v)' /\ ConfirmedInv(v)'
  <2>1. ContainerInv(v) /\ ConfirmedInv(v)
    BY DEF SInv
  <2>2. CASE v # w
    BY <1>2, <1>5, <2>1, <2>2 DEF ContainerInv, ConfirmedInv
  <2>3. CASE v = w
    <3>1. container'[w] = "absent" => thread'[w] \notin HasProcess
      BY <1>1, <1>2, <1>5
    <3> QED
      BY <1>1, <1>2, <1>5, <2>3, <3>1 DEF ContainerInv, ConfirmedInv
  <2> QED
    BY <2>2, <2>3
<1> QED
  BY <1>3, <1>6, <1>7, <1>8 DEF SInv

LEMMA KillUnconfirmedPreserves ==
  ASSUME SInv, KillUnconfirmed
  PROVE  SInv'
<1>1. /\ run.pc = "watch" /\ UnchangedWorkers /\ UnchangedLedger
      /\ run' = [run EXCEPT !.pc = "kill", !.active = run.active \ {Target},
                            !.code = "sandbox_cleanup_unconfirmed"]
  BY DEF KillUnconfirmed
<1>2. run \in RunRow
  BY Types
<1>3. run' \in RunRow /\ run'.pc = "kill" /\ run'.code \in RunCodes
  BY <1>1, <1>2 DEF RunRow, Pcs, RunCodes
<1>4. MainInv' /\ OutcomeInv'
  BY <1>3 DEF MainInv, OutcomeInv, Stopping
<1> QED
  BY <1>1, <1>3, <1>4, TablesUntouched, QuietMove

LEMMA SettlePreservesRun ==
  ASSUME SInv, SettleLease
  PROVE  SInv' /\ LedgerNext
<1>1. run \in RunRow /\ run.lease \in Leases /\ run.leased /\ run.pc = "settle"
      /\ lease \in [Leases -> LeaseRow]
  BY Types DEF SInv, MainInv, SettleLease, RunRow
<1> SUFFICES ASSUME NEW l \in Leases, l = run.lease
             PROVE  SInv' /\ LedgerNext
  BY <1>1
<1>2. /\ Settle(l, Count) /\ UnchangedWorkers
      /\ Proceed("succeeded") \/ Fail("quota_settlement_failed")
  BY DEF SettleLease
<1>3. LedgerNext /\ IInv'
  <2>1. Count = lease[l].successful /\ lease[l].successful \in 0 .. MaxOperations
    BY <1>1, <1>2 DEF Settle, Settleable, LeaseRow
  <2>2. LedgerNext
    BY <1>2, <2>1 DEF LedgerNext
  <2> QED
    BY <2>2, NextPreserves DEF SInv
<1>4. lease'[l].state = "settled" /\ lease'[l].successful = Count
  BY <1>1, <1>2 DEF Settle, Settleable, Ended, LeaseRow
<1>5. /\ run' \in RunRow /\ run'.lease = l /\ run'.leased
      /\ run'.pc = "succeeded" \/ (run'.pc = "cancel" /\ run'.code \in RunCodes)
  BY <1>1, <1>2 DEF Proceed, Fail, RunRow, Pcs, Terminals, RunCodes
<1>6. MainInv'
  BY <1>1, <1>2, <1>5 DEF SInv, MainInv, Stopping, UnchangedWorkers
<1>7. OutcomeInv'
  BY <1>4, <1>5 DEF OutcomeInv
<1> QED
  BY <1>2, <1>3, <1>5, <1>6, <1>7, QuietMove

LEMMA CancelPreservesRun ==
  ASSUME SInv, CancelLease
  PROVE  SInv' /\ LedgerNext
<1>1. run \in RunRow /\ run.lease \in Leases /\ run.leased /\ run.pc = "cancel"
      /\ run.code \in RunCodes /\ run.code \in Reasons /\ lease \in [Leases -> LeaseRow]
  BY Types, SandboxAssumption DEF SInv, MainInv, CancelLease, RunRow
<1> SUFFICES ASSUME NEW l \in Leases, l = run.lease, NEW reason \in Reasons, reason = run.code
             PROVE  SInv' /\ LedgerNext
  BY <1>1
<1>2. /\ Cancel(l, reason) /\ UnchangedWorkers
      /\ Proceed("failed") \/ CancelFailed
  BY DEF CancelLease
<1>3. LedgerNext /\ IInv'
  <2>1. LedgerNext
    BY <1>2 DEF LedgerNext
  <2> QED
    BY <2>1, NextPreserves DEF SInv
<1>4. lease'[l].state \in {"canceled", "failed"}
  BY <1>1, <1>2 DEF Cancel, CancelAccepted, Ended, LeaseRow
<1>5. run' \in RunRow /\ run'.lease = l /\ run'.pc = "failed"
  BY <1>1, <1>2 DEF Proceed, CancelFailed, RunRow, Pcs, Terminals
<1>6. MainInv'
  BY <1>1, <1>2, <1>5 DEF SInv, MainInv, Stopping, UnchangedWorkers
<1>7. OutcomeInv'
  BY <1>4, <1>5 DEF OutcomeInv
<1> QED
  BY <1>2, <1>3, <1>5, <1>6, <1>7, QuietMove

LEMMA CancelFailsPreserves ==
  ASSUME SInv, CancelFails
  PROVE  SInv'
<1>1. run \in RunRow /\ run.pc = "cancel" /\ CancelFailed /\ UnchangedWorkers /\ UnchangedLedger
  BY Types DEF CancelFails
<1>2. run' \in RunRow /\ run'.pc = "failed" /\ run'.code = "quota_cancellation_failed"
  BY <1>1 DEF CancelFailed, RunRow, Pcs, Terminals
<1>3. MainInv' /\ OutcomeInv'
  BY <1>1, <1>2 DEF SInv, MainInv, OutcomeInv, Stopping, UnchangedWorkers
<1> QED
  BY <1>1, <1>2, <1>3, TablesUntouched, QuietMove

LEMMA CrashPreserves ==
  ASSUME SInv, RunnerCrash
  PROVE  SInv'
<1>1. /\ run \in RunRow /\ thread \in [Workers -> Threads] /\ IInv'
      /\ Proceed("crashed") /\ UNCHANGED << container, tomb, confirmed >>
      /\ thread' = [w \in Workers |-> IF thread[w] \in Finished THEN thread[w] ELSE "dead"]
  BY Types, TablesUntouched DEF RunnerCrash
<1>2. run' \in RunRow /\ run'.pc = "crashed"
  BY <1>1 DEF Proceed, RunRow, Pcs, Terminals
<1>3. thread' \in [Workers -> Threads]
  BY <1>1 DEF Threads
<1>4. SandboxTypeOK'
  BY <1>1, <1>2, <1>3, Types DEF IInv, SandboxTypeOK, RunRow
<1>5. MainInv' /\ OutcomeInv' /\ WatchInv'
  BY <1>2 DEF MainInv, OutcomeInv, WatchInv, Stopping
<1>6. \A w \in Workers : ContainerInv(w)' /\ ConfirmedInv(w)'
  BY <1>1 DEF SInv, ContainerInv, ConfirmedInv, HasProcess, Finished
<1> QED
  BY <1>1, <1>4, <1>5, <1>6 DEF SInv

-----------------------------------------------------------------------------
(* Worker threads and containers *)

Quiet == {"settle", "cancel", "succeeded", "failed"}

\* A step of one worker: the main thread and the tables stay as they are.
LEMMA OneWorkerMoves ==
  ASSUME SInv, UNCHANGED << run, confirmed >>, UnchangedLedger, NEW w \in Workers,
         thread' \in [Workers -> Threads],
         container' \in [Workers -> {"absent", "live", "exited", "removed"}],
         tomb \subseteq tomb', tomb' \subseteq Workers,
         \A v \in Workers \ {w} : thread'[v] = thread[v] /\ container'[v] = container[v],
         run.pc \notin {"start", "preflight"},
         run.pc \in Quiet => thread'[w] = thread[w],
         w \in tomb /\ thread[w] \notin HasProcess => thread'[w] \notin HasProcess,
         ContainerInv(w)', ConfirmedInv(w)'
  PROVE  SInv'
<1>1. IInv' /\ confirmed' \subseteq Workers /\ run' = run /\ run \in RunRow /\ confirmed' = confirmed
  BY TablesUntouched, Types
<1>2. SandboxTypeOK'
  BY <1>1 DEF IInv, SandboxTypeOK, RunRow
<1>3. MainInv'
  BY <1>1 DEF SInv, MainInv, Quiet
<1>4. OutcomeInv'
  BY <1>1 DEF SInv, OutcomeInv, UnchangedLedger
<1>5. ASSUME NEW v \in Workers, v # w PROVE ContainerInv(v)' /\ ConfirmedInv(v)'
  BY <1>1, <1>5 DEF SInv, ContainerInv, ConfirmedInv
<1>6. WatchInv'
  <2>1. Target' = Target
    BY <1>1 DEF Target
  <2>2. run.pc = "watch" => Target \in Workers
    BY <1>1 DEF SInv, WatchInv, RunRow
  <2>3. run.pc = "watch" /\ ~run.seen => thread'[Target] \notin HasProcess
    <3>1. SUFFICES ASSUME run.pc = "watch", ~run.seen, NEW t \in Workers, t = Target
                   PROVE  thread'[t] \notin HasProcess
      BY <2>2
    <3>2. t \in tomb /\ thread[t] \notin HasProcess
      BY <3>1 DEF SInv, WatchInv
    <3> QED
      BY <3>2
  <2> QED
    BY <1>1, <2>1, <2>3 DEF SInv, WatchInv
<1> QED
  BY <1>1, <1>2, <1>3, <1>4, <1>5, <1>6 DEF SInv

\* A thread of the pool is at work only while the main thread runs or stops the workers.
LEMMA AtWork ==
  ASSUME SInv, NEW w \in Workers, thread[w] \in HasProcess \cup {"checked"}
  PROVE  run.pc \notin Quiet \cup {"start", "preflight"}
BY DEF SInv, MainInv, Quiet, HasProcess, Finished

LEMMA ThreadPreserves ==
  ASSUME SInv, NEW w \in Workers, ThreadStep(w)
  PROVE  SInv'
<1> USE DEF Become, HasProcess, Threads, Finished
<1>1. /\ thread \in [Workers -> Threads] /\ tomb \subseteq Workers
      /\ container \in [Workers -> {"absent", "live", "exited", "removed"}]
      /\ ContainerInv(w) /\ ConfirmedInv(w)
  BY Types DEF SInv
<1>2. CASE Take(w)
  <2>1. PICK state \in {"error", "checked"} : thread' = [thread EXCEPT ![w] = state]
    BY <1>2 DEF Take
  <2>2. /\ thread[w] = "queued" /\ UNCHANGED << run, container, tomb, confirmed >> /\ UnchangedLedger
        /\ run.pc \in {"workers", "scan", "kill", "watch", "join"}
    BY <1>2 DEF Take
  <2>3. ContainerInv(w)' /\ ConfirmedInv(w)'
    BY <1>1, <2>1, <2>2 DEF ContainerInv, ConfirmedInv
  <2> QED
    BY <1>1, <2>1, <2>2, <2>3, OneWorkerMoves DEF Quiet
<1>3. CASE Launch(w)
  <2>1. PICK state \in {"error", "running"} :
          thread' = [thread EXCEPT ![w] = state] /\ (state = "running" => w \notin tomb)
    BY <1>3 DEF Launch
  <2>2. /\ thread[w] = "checked" /\ UNCHANGED << run, container, tomb, confirmed >> /\ UnchangedLedger
    BY <1>3 DEF Launch
  <2>3. ContainerInv(w)' /\ ConfirmedInv(w)'
    BY <1>1, <2>1, <2>2 DEF ContainerInv, ConfirmedInv
  <2> QED
    BY <1>1, <2>1, <2>2, <2>3, OneWorkerMoves, AtWork
<1>4. CASE Return(w)
  <2>1. PICK state \in {"error", "ok"} : thread' = [thread EXCEPT ![w] = state]
    BY <1>4 DEF Return
  <2>2. /\ thread[w] = "running" /\ container[w] # "live"
        /\ UNCHANGED << run, container, tomb, confirmed >> /\ UnchangedLedger
    BY <1>4 DEF Return
  <2>3. ContainerInv(w)' /\ ConfirmedInv(w)'
    BY <1>1, <2>1, <2>2 DEF ContainerInv, ConfirmedInv
  <2> QED
    BY <1>1, <2>1, <2>2, <2>3, OneWorkerMoves, AtWork
<1>5. CASE GiveUp(w)
  <2>1. /\ thread[w] = "running" /\ thread' = [thread EXCEPT ![w] = "cleaning"]
        /\ tomb' = tomb \cup {w}
        /\ UNCHANGED << run, container, confirmed >> /\ UnchangedLedger
    BY <1>5 DEF GiveUp
  <2>2. ContainerInv(w)' /\ ConfirmedInv(w)'
    BY <1>1, <2>1 DEF ContainerInv, ConfirmedInv
  <2> QED
    BY <1>1, <2>1, <2>2, OneWorkerMoves, AtWork
<1>6. CASE CleanUp(w)
  <2>1. /\ thread[w] = "cleaning" /\ thread' = [thread EXCEPT ![w] = "error"]
        /\ container' = [container EXCEPT ![w] = IF container[w] = "live" THEN "removed" ELSE container[w]]
        /\ UNCHANGED << run, tomb, confirmed >> /\ UnchangedLedger
    BY <1>6 DEF CleanUp
  <2>2. /\ container' \in [Workers -> {"absent", "live", "exited", "removed"}]
        /\ container'[w] # "live"
        /\ \A v \in Workers \ {w} : container'[v] = container[v]
    BY <1>1, <2>1
  <2>3. ContainerInv(w)' /\ ConfirmedInv(w)'
    BY <1>1, <2>1, <2>2 DEF ContainerInv, ConfirmedInv
  <2> QED
    BY <1>1, <2>1, <2>2, <2>3, OneWorkerMoves, AtWork
<1>7. CASE CleanUpUnconfirmed(w)
  <2>1. /\ thread[w] = "cleaning" /\ thread' = [thread EXCEPT ![w] = "lost"]
        /\ UNCHANGED << run, container, tomb, confirmed >> /\ UnchangedLedger
    BY <1>7 DEF CleanUpUnconfirmed
  <2>2. ContainerInv(w)' /\ ConfirmedInv(w)'
    BY <1>1, <2>1 DEF ContainerInv, ConfirmedInv
  <2> QED
    BY <1>1, <2>1, <2>2, OneWorkerMoves, AtWork
<1> QED
  BY <1>2, <1>3, <1>4, <1>5, <1>6, <1>7 DEF ThreadStep

LEMMA ContainerPreserves ==
  ASSUME SInv, NEW w \in Workers, ContainerStarts(w) \/ ContainerExits(w)
  PROVE  SInv'
<1>1. /\ thread \in [Workers -> Threads] /\ tomb \subseteq Workers
      /\ container \in [Workers -> {"absent", "live", "exited", "removed"}]
      /\ ContainerInv(w) /\ ConfirmedInv(w)
  BY Types DEF SInv
<1>2. UNCHANGED << run, thread, tomb, confirmed >> /\ UnchangedLedger
  BY DEF ContainerStarts, ContainerExits
<1>3. CASE ContainerStarts(w)
  <2>1. /\ thread[w] \in HasProcess /\ container[w] = "absent"
        /\ container' = [container EXCEPT ![w] = "live"]
    BY <1>3 DEF ContainerStarts
  <2>2. ContainerInv(w)' /\ ConfirmedInv(w)'
    BY <1>1, <1>2, <2>1 DEF ContainerInv, ConfirmedInv
  <2> QED
    BY <1>1, <1>2, <2>1, <2>2, OneWorkerMoves, AtWork
<1>4. CASE ContainerExits(w)
  <2>1. container[w] = "live" /\ container' = [container EXCEPT ![w] = "exited"]
    BY <1>4 DEF ContainerExits
  <2>2. run.pc \notin {"start", "preflight"}
    BY <2>1 DEF SInv, MainInv
  <2>3. ContainerInv(w)' /\ ConfirmedInv(w)'
    BY <1>1, <1>2, <2>1 DEF ContainerInv, ConfirmedInv
  <2> QED
    BY <1>1, <1>2, <2>1, <2>2, <2>3, OneWorkerMoves
<1> QED
  BY <1>3, <1>4

-----------------------------------------------------------------------------
(* Calls of the workers and answers of the proxy *)

LEMMA ProxyPreserves ==
  ASSUME SInv, UNCHANGED << run, thread, container, tomb, confirmed >>, LedgerNext
  PROVE  SInv'
<1>1. run \in RunRow /\ run.lease \in Leases
  BY Types DEF RunRow
<1>2. IInv'
  BY NextPreserves DEF SInv
<1>3. lease[run.lease].state \in Terminal => Kept(run.lease)
  BY <1>1, TerminalStep DEF SInv
<1>4. OutcomeInv'
  BY <1>3 DEF SInv, OutcomeInv, Kept, Terminal
<1>5. SandboxTypeOK'
  BY <1>2 DEF SInv, IInv, SandboxTypeOK
<1>6. MainInv' /\ WatchInv' /\ \A w \in Workers : ContainerInv(w)' /\ ConfirmedInv(w)'
  BY DEF SInv, MainInv, WatchInv, Target, ContainerInv, ConfirmedInv
<1> QED
  BY <1>2, <1>4, <1>5, <1>6 DEF SInv

LEMMA CallPreserves ==
  ASSUME SInv, NEW w \in Workers, Call(w)
  PROVE  SInv' /\ LedgerNext
<1>1. run.lease \in Leases /\ HoldCost \in Amounts /\ 0 \in Instants
  BY Types, SandboxAssumption, LedgerAssumption DEF RunRow, Instants
<1>2. BeginOperation(run.lease, HoldCost, 0)
  BY DEF Call
<1>3. LedgerNext
  BY <1>1, <1>2 DEF LedgerNext
<1> QED
  BY <1>3, ProxyPreserves DEF Call

LEMMA AnswerPreserves ==
  ASSUME SInv, NEW s \in Seqs, Answer(s)
  PROVE  SInv' /\ LedgerNext
<1>1. run.lease \in Leases /\ CallCost \in Amounts /\ "upstream_unavailable" \in Reasons
  <2>1. HoldCost \in 0 .. MaxCost /\ CallCost \in 0 .. HoldCost /\ MaxCost \in Nat
    BY SandboxAssumption, LedgerAssumption DEF Amounts
  <2>2. CallCost \in Amounts
    BY <2>1 DEF Amounts
  <2> QED
    BY <2>2, Types, SandboxAssumption DEF RunRow
<1>2. CompleteOperation(run.lease, s, CallCost) \/ MarkUncertain(run.lease, s, "upstream_unavailable")
  BY DEF Answer
<1>3. LedgerNext
  BY <1>1, <1>2 DEF LedgerNext
<1> QED
  BY <1>3, ProxyPreserves DEF Answer

-----------------------------------------------------------------------------
(* The theorems *)

LEMMA SandboxInitEstablishes == SandboxInit => SInv
<1> SUFFICES ASSUME SandboxInit PROVE SInv
  OBVIOUS
<1>1. LedgerInit /\ IInv
  BY InitEstablishes DEF SandboxInit
<1>2. /\ run = [pc |-> "start", code |-> "none", lease |-> CHOOSE l \in Leases : TRUE, leased |-> FALSE,
                stopped |-> FALSE, next |-> 1, active |-> {}, seen |-> FALSE]
      /\ thread = [w \in Workers |-> "queued"] /\ container = [w \in Workers |-> "absent"]
      /\ tomb = {} /\ confirmed = {}
  BY DEF SandboxInit
<1>3. (CHOOSE l \in Leases : TRUE) \in Leases /\ 1 \in 1 .. Count + 1
  BY SandboxAssumption
<1>4. run \in RunRow
  BY <1>2, <1>3 DEF RunRow, Pcs
<1>5. SandboxTypeOK
  BY <1>1, <1>2, <1>4 DEF SandboxTypeOK, IInv, RunRow, Threads
<1>6. MainInv /\ OutcomeInv /\ WatchInv
  BY <1>2 DEF MainInv, OutcomeInv, WatchInv, Stopping
<1>7. \A w \in Workers : ContainerInv(w) /\ ConfirmedInv(w)
  BY <1>2 DEF ContainerInv, ConfirmedInv
<1> QED
  BY <1>1, <1>5, <1>6, <1>7 DEF SInv

LEMMA SandboxStep == SInv /\ [SandboxNext]_sandboxVars => SInv' /\ [LedgerNext]_ledgerVars
<1> SUFFICES ASSUME SInv, [SandboxNext]_sandboxVars PROVE SInv' /\ [LedgerNext]_ledgerVars
  OBVIOUS
<1> USE DEF UnchangedLedger, ledgerVars
<1>1. CASE MainStep
  <2>1. CASE ReserveLease
    BY <2>1, ReservePreservesRun
  <2>2. CASE SettleLease
    BY <2>2, SettlePreservesRun
  <2>3. CASE CancelLease
    BY <2>3, CancelPreservesRun
  <2>4. CASE StartOffline \/ ReserveFails \/ Preflight
    BY <2>4, BeginningsPreserve DEF StartOffline, ReserveFails, Preflight
  <2>5. CASE AllReturned \/ Join \/ SettleFails \/ KillDone
    BY <2>5, ReturnsPreserve DEF AllReturned, Join, SettleFails, KillDone
  <2>6. CASE StopWorkers
    BY <2>6, StopPreserves DEF StopWorkers
  <2>7. CASE Scan
    BY <2>7, ScanPreserves DEF Scan
  <2>8. CASE KillNext
    BY <2>8, KillNextPreserves DEF KillNext
  <2>9. CASE KillConfirmed
    BY <2>9, KillConfirmedPreserves DEF KillConfirmed
  <2>10. CASE KillUnconfirmed
    BY <2>10, KillUnconfirmedPreserves DEF KillUnconfirmed
  <2>11. CASE CancelFails
    BY <2>11, CancelFailsPreserves DEF CancelFails
  <2> QED
    BY <1>1, <2>1, <2>2, <2>3, <2>4, <2>5, <2>6, <2>7, <2>8, <2>9, <2>10, <2>11 DEF MainStep
<1>2. CASE RunnerCrash
  BY <1>2, CrashPreserves DEF RunnerCrash
<1>3. ASSUME NEW w \in Workers, ThreadStep(w) PROVE SInv' /\ [LedgerNext]_ledgerVars
  BY <1>3, ThreadPreserves DEF ThreadStep, Take, Launch, Return, GiveUp, CleanUp, CleanUpUnconfirmed
<1>4. ASSUME NEW w \in Workers, ContainerStarts(w) \/ ContainerExits(w)
      PROVE  SInv' /\ [LedgerNext]_ledgerVars
  BY <1>4, ContainerPreserves DEF ContainerStarts, ContainerExits
<1>5. ASSUME NEW w \in Workers, Call(w) PROVE SInv' /\ [LedgerNext]_ledgerVars
  BY <1>5, CallPreserves
<1>6. ASSUME NEW s \in Seqs, Answer(s) PROVE SInv' /\ [LedgerNext]_ledgerVars
  BY <1>6, AnswerPreserves
<1>7. CASE UNCHANGED sandboxVars
  <2>1. UNCHANGED << lease, op, run, thread, container, tomb, confirmed >>
    BY <1>7 DEF sandboxVars
  <2>2. IInv'
    BY <2>1, TablesUntouched
  <2>3. SandboxTypeOK' /\ MainInv' /\ OutcomeInv' /\ WatchInv'
    BY <2>1, <2>2 DEF SInv, IInv, SandboxTypeOK, MainInv, OutcomeInv, WatchInv, Target
  <2>4. \A w \in Workers : ContainerInv(w)' /\ ConfirmedInv(w)'
    BY <2>1 DEF SInv, ContainerInv, ConfirmedInv
  <2> QED
    BY <2>1, <2>2, <2>3, <2>4 DEF SInv
<1> QED
  BY <1>1, <1>2, <1>3, <1>4, <1>5, <1>6, <1>7 DEF SandboxNext

LEMMA SandboxInductive == SandboxSpec => []SInv
BY SandboxInitEstablishes, SandboxStep, PTL DEF SandboxSpec

\* A run drives the store only through its transactions, so the budget of its lease is a
\* hard limit whatever becomes of the run (SandboxedAdapterRunner over the quota proxy).
THEOREM SandboxKeepsHardLimit == SandboxSpec => LedgerSpec /\ HardLimit
<1>1. SandboxSpec => LedgerSpec
  BY SandboxInitEstablishes, SandboxStep, PTL DEF SandboxSpec, LedgerSpec, SandboxInit
<1> QED
  BY <1>1, LedgerIsHardLimit, PTL

\* A run that succeeds with a lease has settled it for exactly its references, with nothing
\* running and nothing unaccounted, and no late answer or crash changes that
\* (SandboxedAdapterRunner._run, _settle_quota).
THEOREM ReceiptsAreFinal == SandboxSpec => []ReceiptIsFinal
<1>1. ASSUME SInv, run.pc = "succeeded", run.leased
      PROVE  /\ lease[run.lease].state = "settled"
             /\ \A w \in Workers : thread[w] = "ok" /\ container[w] # "live"
             /\ Cardinality(Rows(run.lease, {"completed"})) = Count
             /\ Rows(run.lease, {"forwarding", "uncertain"}) = {}
  <2>1. run.lease \in Leases
    BY <1>1, Types DEF RunRow
  <2> SUFFICES ASSUME NEW l \in Leases, l = run.lease
               PROVE  /\ lease[l].state = "settled"
                      /\ \A w \in Workers : thread[w] = "ok" /\ container[w] # "live"
                      /\ Cardinality(Rows(l, {"completed"})) = Count
                      /\ Rows(l, {"forwarding", "uncertain"}) = {}
    BY <2>1
  <2>2. lease[l].state = "settled" /\ lease[l].successful = Count /\ IInv /\ LeaseInv(l)
    BY <1>1 DEF SInv, OutcomeInv, IInv
  <2>3. \A w \in Workers : thread[w] = "ok" /\ container[w] # "live"
    BY <1>1 DEF SInv, MainInv, ContainerInv, HasProcess
  <2>4. Cardinality(Rows(l, {"completed"})) = Count
    BY <2>2 DEF LeaseInv, CountersMatchRows
  <2>5. \A s \in Seqs : op[l][s].status # "forwarding"
    BY <2>2, ForwardingIsOpen
  <2>6. \A s \in Seqs : op[l][s].status # "uncertain"
    BY <2>2 DEF LeaseInv, Rows
  <2> QED
    BY <2>2, <2>3, <2>4, <2>5, <2>6 DEF Rows
<1>2. SInv => ReceiptIsFinal
  BY <1>1 DEF ReceiptIsFinal
<1> QED
  BY <1>2, SandboxInductive, PTL

\* A failed run leaves its lease revoked or says that it could not cancel it; the proxy
\* cannot bring it back (_cancel_quota).
THEOREM FailuresRevoke == SandboxSpec => []FailedRunRevokes
<1>1. SInv => FailedRunRevokes
  BY DEF SInv, OutcomeInv, FailedRunRevokes
<1> QED
  BY <1>1, SandboxInductive, PTL

\* No container of a name whose removal was confirmed ever runs again, whatever its thread
\* and its docker process were doing (DockerCliSandboxRuntime.cancel, _cancelled_names).
THEOREM ConfirmedRemovalsStand == SandboxSpec => []ConfirmedStaysGone
<1>1. SInv => ConfirmedStaysGone
  BY DEF SInv, ConfirmedInv, ConfirmedStaysGone, SandboxTypeOK
<1> QED
  BY <1>1, SandboxInductive, PTL

\* A run that returned has joined its threads, and only a container whose own cleanup was
\* given up may still run (SandboxedAdapterRunner._run, executor.shutdown).
THEOREM RunsLeaveNothing == SandboxSpec => []NothingOutlivesRun
<1>1. SInv => NothingOutlivesRun
  BY DEF SInv, MainInv, ContainerInv, NothingOutlivesRun, HasProcess, Finished
<1> QED
  BY <1>1, SandboxInductive, PTL

=============================================================================
