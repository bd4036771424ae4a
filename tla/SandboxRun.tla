------------------------------- MODULE SandboxRun -------------------------------
(***************************************************************************)
(* One run of SandboxedAdapterRunner: reserve a lease, preflight, run each *)
(* reference in a container of its own, validate the outcomes, settle the  *)
(* lease; and on any failure stop the workers, remove their containers and *)
(* cancel the lease.  The main thread, the pool's worker threads, the      *)
(* docker processes and the containers interleave freely, the worker in a  *)
(* container calls the proxy when it likes, and every call to the quota    *)
(* controller may fail before it is committed or lose its reply after.     *)
(*                                                                         *)
(* The proxy is the transactions of QuotaLedger; its handlers (QuotaProxy) *)
(* may end an operation long after the container that asked for it is gone.*)
(***************************************************************************)
EXTENDS QuotaLedger

CONSTANTS
  Count,          \* how many references the request has
  PoolSize,       \* budget.max_concurrency of the request
  HoldCost,       \* what the proxy holds for one call of a worker
  CallCost        \* what a completed call is charged

\* Reason codes of the runner; each stands for the codes of its step.
RunCodes == {"lease_invalid", "preflight_failed", "worker_failed", "timeout_exceeded",
             "sandbox_cleanup_unconfirmed", "outcomes_invalid", "quota_settlement_failed"}

ASSUME SandboxAssumption ==
  /\ Leases # {}
  /\ Count \in Nat \ {0}
  /\ PoolSize \in Nat \ {0}
  /\ HoldCost \in Amounts
  /\ CallCost \in 0 .. HoldCost
  /\ RunCodes \cup {"upstream_unavailable"} \subseteq Reasons

VARIABLES
  run,            \* the main thread
  thread,         \* the future of every worker and how far its thread got
  container,      \* the container of every worker
  tomb,           \* names whose launch is suppressed (_cancelled_names)
  confirmed       \* names whose removal a cancel of the main thread confirmed

sandboxVars == << lease, op, run, thread, container, tomb, confirmed >>

-----------------------------------------------------------------------------
(* States *)

Terminals == {"succeeded", "failed", "crashed"}
Pcs == {"start", "preflight", "workers", "scan", "kill", "watch", "join", "settle", "cancel"}
         \cup Terminals

\* "lost" is a thread that ended with sandbox_cleanup_unconfirmed.
HasProcess == {"running", "cleaning"}
Finished == {"ok", "error", "lost", "canceled"}
Threads == {"queued", "checked", "dead"} \cup HasProcess \cup Finished

Workers == 1 .. Count
AtMost(m, n) == IF m <= n THEN m ELSE n

\* max_workers of the pool, and the requests a lease is reserved for.
Pool == AtMost(AtMost(Count, PoolSize), IF run.leased THEN lease[run.lease].maxConc ELSE PoolSize)
Requested(r) == r.conc <= AtMost(PoolSize, Count) /\ r.ops = Count

SandboxInit ==
  /\ LedgerInit
  /\ run = [pc |-> "start", code |-> "none", lease |-> CHOOSE l \in Leases : TRUE, leased |-> FALSE,
            stopped |-> FALSE, next |-> 1, active |-> {}, seen |-> FALSE]
  /\ thread = [w \in Workers |-> "queued"]
  /\ container = [w \in Workers |-> "absent"]
  /\ tomb = {}
  /\ confirmed = {}

UnchangedWorkers == UNCHANGED << thread, container, tomb, confirmed >>
UnchangedLedger == UNCHANGED << lease, op >>

\* The main thread raises: with a lease it cancels the lease first.
Fail(code) ==
  run' = [run EXCEPT !.pc = IF run.leased THEN "cancel" ELSE "failed", !.code = code]
Proceed(pc) == run' = [run EXCEPT !.pc = pc]

-----------------------------------------------------------------------------
(* The main thread *)

\* _reserve_quota without a quota proxy.
StartOffline ==
  /\ run.pc = "start"
  /\ Proceed("preflight")
  /\ UnchangedWorkers /\ UnchangedLedger

\* _reserve_quota gets a lease: valid; or not, and then it cancels it itself; or the
\* reply with the lease is lost.
ReserveLease ==
  /\ run.pc = "start"
  /\ \E l \in Leases, r \in Reservations :
       /\ Requested(r)
       /\ Reserve(l, r)
       /\ \/ run' = [run EXCEPT !.pc = "preflight", !.lease = l, !.leased = TRUE]
          \/ run' = [run EXCEPT !.pc = "cancel", !.lease = l, !.leased = TRUE, !.code = "lease_invalid"]
          \/ run' = [run EXCEPT !.pc = "failed", !.code = "quota_reservation_failed"]
  /\ UnchangedWorkers

ReserveFails ==
  /\ run.pc = "start"
  /\ run' = [run EXCEPT !.pc = "failed", !.code = "quota_reservation_failed"]
  /\ UnchangedWorkers /\ UnchangedLedger

\* preflight, then the second look at the lease's expiry.
Preflight ==
  /\ run.pc = "preflight"
  /\ \/ Proceed("workers")
     \/ Fail("preflight_failed")
     \/ run.leased /\ Fail("lease_invalid")
  /\ UnchangedWorkers /\ UnchangedLedger

\* as_completed yields every future and no result raises.
\* Variant: a future that raised counts as returned.
AllFinished ==
  /\ run.pc = "workers"
  /\ \A w \in Workers : thread[w] \in {"ok", "error"}
  /\ \/ run.leased /\ Proceed("settle")
     \/ ~run.leased /\ Proceed("succeeded")
     \/ Fail("outcomes_invalid")
  /\ UnchangedWorkers /\ UnchangedLedger

AllReturned ==
  /\ run.pc = "workers"
  /\ \A w \in Workers : thread[w] = "ok"
  /\ \/ run.leased /\ Proceed("settle")
     \/ ~run.leased /\ Proceed("succeeded")
     \/ Fail("outcomes_invalid")
  /\ UnchangedWorkers /\ UnchangedLedger

\* The first failed future that as_completed yields, or its timeout, sets `stopped'.
StopWorkers ==
  /\ run.pc = "workers"
  /\ \E code \in {"worker_failed", "sandbox_cleanup_unconfirmed", "timeout_exceeded"} :
       /\ code = "worker_failed" => \E w \in Workers : thread[w] = "error"
       /\ code = "sandbox_cleanup_unconfirmed" => \E w \in Workers : thread[w] = "lost"
       /\ code = "timeout_exceeded" => \E w \in Workers : thread[w] \notin Finished
       /\ run' = [run EXCEPT !.pc = "scan", !.stopped = TRUE, !.code = code]
  /\ UnchangedWorkers /\ UnchangedLedger

\* The loop over the futures: cancel the ones still queued, remember the unfinished ones.
Scan ==
  LET w == run.next IN
  /\ run.pc = "scan"
  /\ w \in Workers
  /\ thread' = [thread EXCEPT ![w] = IF @ = "queued" THEN "canceled" ELSE @]
  /\ run' = [run EXCEPT !.next = w + 1,
                        !.active = IF thread[w] \in Finished \cup {"queued"} THEN @ ELSE @ \cup {w},
                        !.pc = IF w = Count THEN "kill" ELSE @]
  /\ UNCHANGED << container, tomb, confirmed >> /\ UnchangedLedger

Target == CHOOSE w \in run.active : \A v \in run.active : w <= v

\* Variant: the launch is not suppressed.
KillWithoutTombstone ==
  /\ run.pc = "kill"
  /\ run.active # {}
  /\ tomb' = tomb
  /\ run' = [run EXCEPT !.pc = "watch", !.seen = thread[Target] \in HasProcess]
  /\ UNCHANGED << thread, container, confirmed >> /\ UnchangedLedger

\* runtime.cancel of the next active name: the tombstone and the look at its process are
\* one critical section.
KillNext ==
  /\ run.pc = "kill"
  /\ run.active # {}
  /\ tomb' = tomb \cup {Target}
  /\ run' = [run EXCEPT !.pc = "watch", !.seen = thread[Target] \in HasProcess]
  /\ UNCHANGED << thread, container, confirmed >> /\ UnchangedLedger

\* Its loop: `rm --force' removes the container; or there is none, and the docker process
\* that could still create it was not there or has exited; or the time is up.
KillConfirmed ==
  /\ run.pc = "watch"
  /\ \/ container[Target] = "live"
     \/ container[Target] # "live" /\ (run.seen => thread[Target] \notin HasProcess)
  /\ container' = [container EXCEPT ![Target] = IF @ = "live" THEN "removed" ELSE @]
  /\ confirmed' = confirmed \cup {Target}
  /\ run' = [run EXCEPT !.pc = "kill", !.active = @ \ {Target}]
  /\ UNCHANGED << thread, tomb >> /\ UnchangedLedger

KillUnconfirmed ==
  /\ run.pc = "watch"
  /\ run' = [run EXCEPT !.pc = "kill", !.active = @ \ {Target},
                        !.code = "sandbox_cleanup_unconfirmed"]
  /\ UnchangedWorkers /\ UnchangedLedger

KillDone ==
  /\ run.pc = "kill"
  /\ run.active = {}
  /\ Proceed("join")
  /\ UnchangedWorkers /\ UnchangedLedger

\* Variant: the pool is shut down without waiting.
JoinNothing ==
  /\ run.pc = "join"
  /\ Fail(run.code)
  /\ UnchangedWorkers /\ UnchangedLedger

\* executor.shutdown waits for the threads that are left.
Join ==
  /\ run.pc = "join"
  /\ \A w \in Workers : thread[w] \in Finished
  /\ Fail(run.code)
  /\ UnchangedWorkers /\ UnchangedLedger

\* _settle_quota: settled; settled without a reply; or refused or not reached.
SettleLease ==
  /\ run.pc = "settle"
  /\ Settle(run.lease, Count)
  /\ Proceed("succeeded") \/ Fail("quota_settlement_failed")
  /\ UnchangedWorkers

SettleFails ==
  /\ run.pc = "settle"
  /\ Fail("quota_settlement_failed")
  /\ UnchangedWorkers /\ UnchangedLedger

\* _cancel_quota: canceled; canceled without a reply; or refused or not reached.
CancelFailed == run' = [run EXCEPT !.pc = "failed", !.code = "quota_cancellation_failed"]

CancelLease ==
  /\ run.pc = "cancel"
  /\ Cancel(run.lease, run.code)
  /\ Proceed("failed") \/ CancelFailed
  /\ UnchangedWorkers

\* Variant: a cancellation that could not be confirmed is swallowed.
CancelSwallowed ==
  /\ run.pc = "cancel"
  /\ Proceed("failed")
  /\ UnchangedWorkers /\ UnchangedLedger

CancelFails ==
  /\ run.pc = "cancel"
  /\ CancelFailed
  /\ UnchangedWorkers /\ UnchangedLedger

\* The runner's process dies with all its threads; containers live on.
RunnerCrash ==
  /\ run.pc \notin Terminals
  /\ Proceed("crashed")
  /\ thread' = [w \in Workers |-> IF thread[w] \in Finished THEN thread[w] ELSE "dead"]
  /\ UNCHANGED << container, tomb, confirmed >> /\ UnchangedLedger

MainStep ==
  \/ StartOffline \/ ReserveLease \/ ReserveFails \/ Preflight \/ AllReturned \/ StopWorkers
  \/ Scan \/ KillNext \/ KillConfirmed \/ KillUnconfirmed \/ KillDone \/ Join
  \/ SettleLease \/ SettleFails \/ CancelLease \/ CancelFails

-----------------------------------------------------------------------------
(* Worker threads and containers *)

Become(w, state) == thread' = [thread EXCEPT ![w] = state]

\* A pool thread takes the next future: _run_one looks at `stopped' first.
Take(w) ==
  /\ run.pc \in {"workers", "scan", "kill", "watch", "join"}
  /\ thread[w] = "queued"
  /\ \A v \in Workers : v < w => thread[v] # "queued"
  /\ Cardinality({v \in Workers : thread[v] \in HasProcess \cup {"checked"}}) < Pool
  /\ Become(w, IF run.stopped THEN "error" ELSE "checked")
  /\ UNCHANGED << run, container, tomb, confirmed >> /\ UnchangedLedger

\* runtime.run: suppressed, or unable to start docker, or the docker process is started.
Launch(w) ==
  /\ thread[w] = "checked"
  /\ \/ Become(w, "error")
     \/ w \notin tomb /\ Become(w, "running")
  /\ UNCHANGED << run, container, tomb, confirmed >> /\ UnchangedLedger

ContainerStarts(w) ==
  /\ thread[w] \in HasProcess
  /\ container[w] = "absent"
  /\ container' = [container EXCEPT ![w] = "live"]
  /\ UNCHANGED << run, thread, tomb, confirmed >> /\ UnchangedLedger

ContainerExits(w) ==
  /\ container[w] = "live"
  /\ container' = [container EXCEPT ![w] = "exited"]
  /\ UNCHANGED << run, thread, tomb, confirmed >> /\ UnchangedLedger

\* The docker process ends by itself: only a container that exited can have answered.
Return(w) ==
  /\ thread[w] = "running"
  /\ container[w] # "live"
  /\ \/ Become(w, "error")
     \/ container[w] = "exited" /\ Become(w, "ok")
  /\ UNCHANGED << run, container, tomb, confirmed >> /\ UnchangedLedger

\* Variant: the thread has no deadline of its own.
GiveUpAfterExit(w) ==
  /\ thread[w] = "running"
  /\ container[w] = "exited"
  /\ Become(w, "cleaning")
  /\ tomb' = tomb \cup {w}
  /\ UNCHANGED << run, container, confirmed >> /\ UnchangedLedger

\* Deadline, output limit or broken pipe: the thread cancels its own container ...
GiveUp(w) ==
  /\ thread[w] = "running"
  /\ Become(w, "cleaning")
  /\ tomb' = tomb \cup {w}
  /\ UNCHANGED << run, container, confirmed >> /\ UnchangedLedger

\* ... which is removed or already gone, or its docker process ended without it; ...
CleanUp(w) ==
  /\ thread[w] = "cleaning"
  /\ Become(w, "error")
  /\ container' = [container EXCEPT ![w] = IF @ = "live" THEN "removed" ELSE @]
  /\ UNCHANGED << run, tomb, confirmed >> /\ UnchangedLedger

\* ... or whose removal cannot be confirmed, and the docker process is killed.
CleanUpUnconfirmed(w) ==
  /\ thread[w] = "cleaning"
  /\ Become(w, "lost")
  /\ UNCHANGED << run, container, tomb, confirmed >> /\ UnchangedLedger

ThreadStep(w) ==
  \/ Take(w) \/ Launch(w) \/ Return(w) \/ GiveUp(w) \/ CleanUp(w) \/ CleanUpUnconfirmed(w)

\* The program in a container calls the provider through the proxy with its lease.
Call(w) ==
  /\ container[w] = "live"
  /\ run.leased
  /\ BeginOperation(run.lease, HoldCost, 0)
  /\ UNCHANGED << run, thread, container, tomb, confirmed >>

\* The proxy ends an operation, whatever became of the container that asked for it.
Answer(s) ==
  /\ \/ CompleteOperation(run.lease, s, CallCost)
     \/ MarkUncertain(run.lease, s, "upstream_unavailable")
  /\ UNCHANGED << run, thread, container, tomb, confirmed >>

SandboxNext ==
  \/ MainStep
  \/ RunnerCrash
  \/ \E w \in Workers : ThreadStep(w) \/ ContainerStarts(w) \/ ContainerExits(w) \/ Call(w)
  \/ \E s \in Seqs : Answer(s)

\* The operating system schedules the runner's threads; docker calls are bounded by
\* timeouts.  Nothing makes a container start or exit, a worker call, or a proxy answer.
SandboxFairness ==
  /\ WF_sandboxVars(MainStep)
  /\ \A w \in Workers : WF_sandboxVars(ThreadStep(w))

SandboxSpec == SandboxInit /\ [][SandboxNext]_sandboxVars /\ SandboxFairness

-----------------------------------------------------------------------------
(* Properties *)

SandboxTypeOK ==
  /\ LedgerTypeOK
  /\ run \in [pc : Pcs, code : RunCodes \cup {"none", "quota_reservation_failed", "quota_cancellation_failed"},
              lease : Leases, leased : BOOLEAN, stopped : BOOLEAN, next : 1 .. Count + 1,
              active : SUBSET Workers, seen : BOOLEAN]
  /\ thread \in [Workers -> Threads]
  /\ container \in [Workers -> {"absent", "live", "exited", "removed"}]
  /\ tomb \subseteq Workers
  /\ confirmed \subseteq Workers

\* A receipt is final: the run succeeds with a lease only when the lease is settled, every
\* worker returned, nothing is left running, and the provider accounted for exactly one
\* operation per outcome.
ReceiptIsFinal ==
  run.pc = "succeeded" /\ run.leased =>
    /\ lease[run.lease].state = "settled"
    /\ \A w \in Workers : thread[w] = "ok" /\ container[w] # "live"
    /\ Cardinality(Rows(run.lease, {"completed"})) = Count
    /\ Rows(run.lease, {"forwarding", "uncertain"}) = {}

\* A failed run says so when it leaves its lease usable or settled.
FailedRunRevokes ==
  run.pc = "failed" /\ run.leased =>
    lease[run.lease].state \in {"canceled", "failed"} \/ run.code = "quota_cancellation_failed"

\* A confirmed removal is final: whatever the worker's thread was doing when its name was
\* canceled, no container of that name runs from then on.
ConfirmedStaysGone == \A w \in confirmed : container[w] # "live"

\* A run that returns leaves no thread behind, and no container except one whose own thread
\* could not confirm its cleanup: the pool's threads are joined even when the main thread
\* could not confirm a removal.
NothingOutlivesRun ==
  run.pc \in {"succeeded", "failed"} =>
    /\ \A w \in Workers : thread[w] \in Finished \cup {"queued"}
    /\ \A w \in Workers : container[w] = "live" => thread[w] = "lost"

\* A cleanup that cannot be confirmed becomes sandbox_cleanup_unconfirmed, even if another
\* error happened first (docs/sandboxed-adapter-runner.md); a lost cancellation may
\* replace it.
CleanupIsReported ==
  run.pc = "failed" /\ (\E w \in Workers : container[w] = "live") =>
    run.code \in {"sandbox_cleanup_unconfirmed", "quota_cancellation_failed"}

\* Every run ends.
RunEnds == <>(run.pc \in Terminals)

=============================================================================
