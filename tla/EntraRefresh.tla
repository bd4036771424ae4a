---------------------------- MODULE EntraRefresh ----------------------------
(* Trust refresh of the Team bearer host, src/causure/team_entra_refresh.py: *)
(* several processes of one host share a trust snapshot file, an owner lock  *)
(* file and a refresh-request marker.  Each process has a reloader, a        *)
(* supervisor thread (CoordinatedEntraAccessTokenVerifier._run) and, while   *)
(* it owns the lock, a refresh worker (ManagedEntraAccessTokenVerifier).     *)
(*                                                                           *)
(* A snapshot is [age, keys]: how long ago its refreshed_at was, up to TTL   *)
(* where it has expired, and the generation of the provider's signing keys   *)
(* it holds.  Ages stand for timestamps, so time has no end in the model.    *)
(* The periodic, retry, cooldown and polling delays may each run out at any  *)
(* moment.                                                                   *)
EXTENDS Integers, FiniteSets, TLC

CONSTANTS
    Proc,             \* processes of the host
    NoProc,           \* an unheld lock
    NoDoc,            \* no snapshot
    TTL,              \* snapshot_ttl_seconds
    MaxAttempt,       \* bound: a refresh attempt lasts at most this long
    MaxRotations,     \* bound: the provider's key rotations
    MaxReplacements,  \* bound: replacements of the owner lock file
    Budgets           \* bound: what may happen in one behaviour, as records of
                      \* rotations, replacements, faults (crashes, closes, dead
                      \* workers, failed reads) and signals (whether tokens of
                      \* keys not yet trusted come in)

ASSUME NoProcAssumption == NoProc \notin Proc
ASSUME NoDocAssumption == NoDoc \notin [age: 0..TTL, keys: 0..MaxRotations]
ASSUME TimesAssumption ==
    /\ {TTL, MaxAttempt} \subseteq Nat \ {0}
    /\ MaxAttempt < TTL
ASSUME BoundsAssumption ==
    /\ MaxRotations \in Nat /\ MaxReplacements \in Nat
    /\ Budgets \subseteq [rotations : 0..MaxRotations,
                          replacements : 0..MaxReplacements, faults : Nat,
                          signals : {0, 1}]

VARIABLES
    provider,   \* generation of the keys the provider publishes
    file,       \* the installed snapshot
    lockId,     \* identity of the file now at owner_lock_path
    holder,     \* per identity, the process holding its OS lock
    marker,     \* the refresh-request marker exists
    owed,       \* history: no attempt began since the marker was created
    left,       \* what is left of the budget
    co,         \* per process, its coordinated verifier and supervisor
    wk,         \* per process, its manager and the manager's worker
    reloader,   \* per process, the snapshot its verifier trusts
    rejected    \* per process, the file its reloader refused

env == <<provider, lockId, left>>
vars == <<provider, file, lockId, holder, marker, owed, left,
          co, wk, reloader, rejected>>

Doc == [age: 0..TTL, keys: 0..MaxRotations]
DocOrNone == Doc \cup {NoDoc}
Id == 0..MaxReplacements
NoHandle == -1

\* A closed verifier: the process is not running.
DownCo == [pc |-> "down", handle |-> NoHandle, own |-> FALSE, first |-> TRUE,
           consume |-> FALSE, stop |-> FALSE]

\* No manager.
NoWorker == [pc |-> "none", startup |-> FALSE, pending |-> FALSE, stop |-> FALSE,
             failed |-> FALSE, cand |-> NoDoc]

Init ==
    /\ provider = 0
    /\ file = NoDoc
    /\ lockId = 0
    /\ holder = [i \in Id |-> NoProc]
    /\ marker = FALSE
    /\ owed = FALSE
    /\ left \in Budgets
    /\ co = [p \in Proc |-> DownCo]
    /\ wk = [p \in Proc |-> NoWorker]
    /\ reloader = [p \in Proc |-> NoDoc]
    /\ rejected = [p \in Proc |-> NoDoc]

-----------------------------------------------------------------------------

Spend(what) == left[what] > 0 /\ left' = [left EXCEPT ![what] = @ - 1]

-----------------------------------------------------------------------------
(* Snapshots                                                                 *)

Fresh(d) == d # NoDoc /\ d.age < TTL

Newer(d, e) == d.age < e.age

Older(d) == IF d = NoDoc \/ d.age = TTL THEN d ELSE [d EXCEPT !.age = @ + 1]

\* Mutant: the installer compares store IDs only.
InstallVerdictUndated(cand) == IF file = cand THEN "same" ELSE "write"

\* What install_entra_trust_store does with a candidate after reading the file.
InstallVerdict(cand) ==
    IF file = cand THEN "same"
    ELSE IF file # NoDoc /\ ~Newer(cand, file) THEN "not_newer" ELSE "write"

\* A reload adopts only a fresh snapshot newer than the one in use, and
\* remembers the file it refused so as not to read it again.
Adopts(current, refused) ==
    /\ file # refused
    /\ Fresh(file)
    /\ current = NoDoc \/ Newer(file, current)

Refuses(current, refused) ==
    /\ file \notin {NoDoc, current, refused}
    /\ ~Adopts(current, refused)

Reloaded(p) == IF Adopts(reloader[p], rejected[p]) THEN file ELSE reloader[p]

RejectedAfter(p) ==
    IF Refuses(reloader[p], rejected[p]) THEN file
    ELSE IF file = Reloaded(p) THEN NoDoc ELSE rejected[p]

-----------------------------------------------------------------------------
(* The owner lock                                                            *)

\* The lock this process holds is still the file at owner_lock_path.
OwnershipValid(p) == co[p].handle = lockId

\* release() frees the OS lock of the handle, whichever file it is on.
Released(p) ==
    IF co[p].handle = NoHandle THEN holder
    ELSE [holder EXCEPT ![co[p].handle] = NoProc]

Up(p) == co[p].pc # "down"

\* Mutant: the lock attempt succeeds while another process holds it.
TryAcquireShared(p) ==
    /\ \/ co[p].pc = "down"
       \/ co[p].pc = "poll" /\ ~co[p].stop /\ co[p].handle = NoHandle
    /\ holder' = [holder EXCEPT ![lockId] = p]
    /\ co' = [co EXCEPT ![p].pc = "promote", ![p].handle = lockId]
    /\ UNCHANGED <<env, file, marker, owed, wk, reloader, rejected>>

\* start() tries the lock until it has it or joins as a follower, and the
\* supervisor of a follower polls for it later.
TryAcquire(p) ==
    /\ \/ co[p].pc = "down"
       \/ co[p].pc = "poll" /\ ~co[p].stop /\ co[p].handle = NoHandle
    /\ holder[lockId] = NoProc
    /\ holder' = [holder EXCEPT ![lockId] = p]
    /\ co' = [co EXCEPT ![p].pc = "promote", ![p].handle = lockId]
    /\ UNCHANGED <<env, file, marker, owed, wk, reloader, rejected>>

\* Without the lock a starting process waits for a usable snapshot.
JoinAsFollower(p) ==
    /\ co[p].pc = "down"
    /\ holder[lockId] # NoProc
    /\ Fresh(file)
    /\ reloader' = [reloader EXCEPT ![p] = file]
    /\ co' = [co EXCEPT ![p].pc = "poll", ![p].first = FALSE]
    /\ UNCHANGED <<env, file, holder, marker, owed, wk, rejected>>

-----------------------------------------------------------------------------
(* One refresh attempt: _refresh_once.  At startup it runs in the            *)
(* supervisor, later in the worker.                                          *)

\* The attempt ends; its outcome matters to the promotion it starts.  A stopped
\* worker leaves its loop, any other waits for a request or its next due time.
AttemptEnded(w, ok) ==
    [w EXCEPT !.pc = IF w.stop THEN "none" ELSE IF w.startup THEN "ready" ELSE "idle",
              !.failed = w.startup /\ ~ok,
              !.cand = NoDoc]

\* Manager.close(): a waiting or dead worker is gone at once, a busy one
\* finishes its attempt first.
WorkerStopped(w) ==
    [w EXCEPT !.stop = TRUE, !.pending = FALSE,
              !.pc = IF @ \in {"idle", "dead"} THEN "none" ELSE @]

\* The attempt is dated, and the first guard checked, before the first fetch.
BeginAttempt(p) ==
    /\ wk[p].pc = "begin"
    /\ wk' = [wk EXCEPT ![p] =
           IF OwnershipValid(p)
           THEN [@ EXCEPT !.pc = "fetch",
                          !.cand = [age |-> 0, keys |-> provider]]
           ELSE AttemptEnded(@, FALSE)]
    /\ owed' = (owed /\ ~OwnershipValid(p))
    /\ UNCHANGED <<env, file, holder, marker, co, reloader, rejected>>

\* Every tenant's discovery and keys arrived and form a ready snapshot.
FetchOk(p) ==
    /\ wk[p].pc = "fetch"
    /\ \E k \in wk[p].cand.keys..provider :
          wk' = [wk EXCEPT ![p].pc = "guard", ![p].cand.keys = k]
    /\ UNCHANGED <<env, file, holder, marker, owed, co, reloader, rejected>>

\* Any failure on any tenant fails the whole attempt.
FetchFails(p) ==
    /\ wk[p].pc = "fetch"
    /\ wk' = [wk EXCEPT ![p] = AttemptEnded(@, FALSE)]
    /\ UNCHANGED <<env, file, holder, marker, owed, co, reloader, rejected>>

\* The second guard, and the installer's read of the snapshot it would replace.
CheckInstall(p) ==
    /\ wk[p].pc = "guard"
    /\ LET verdict == InstallVerdict(wk[p].cand) IN
       wk' = [wk EXCEPT ![p] =
           IF OwnershipValid(p) /\ verdict = "write" THEN [@ EXCEPT !.pc = "replace"]
           ELSE AttemptEnded(@, OwnershipValid(p) /\ verdict = "same")]
    /\ UNCHANGED <<env, file, holder, marker, owed, co, reloader, rejected>>

\* os.replace: nothing is compared again.  The attempt then ends; whether the
\* manager's own reloader took the file only changes its status.
ReplaceFile(p) ==
    /\ wk[p].pc = "replace"
    /\ file' = wk[p].cand
    /\ wk' = [wk EXCEPT ![p] = AttemptEnded(@, TRUE)]
    /\ UNCHANGED <<env, holder, marker, owed, co, reloader, rejected>>

-----------------------------------------------------------------------------
(* Promotion and demotion                                                    *)

\* Without valid ownership nothing is started, and the handle is left for
\* the supervisor's next poll; otherwise the manager's startup attempt begins.
Promote(p) ==
    /\ co[p].pc = "promote"
    /\ \/ /\ ~OwnershipValid(p)
          /\ co' = [co EXCEPT ![p].pc = "poll", ![p].first = FALSE]
          /\ UNCHANGED wk
       \/ /\ OwnershipValid(p)
          /\ co' = [co EXCEPT ![p].pc = "booting"]
          /\ wk' = [wk EXCEPT ![p] =
                 [NoWorker EXCEPT !.pc = "begin", !.startup = TRUE]]
    /\ UNCHANGED <<env, file, holder, marker, owed, reloader, rejected>>

\* The manager starts on the refreshed snapshot or on a still fresh last known
\* good; without either, or once ownership is lost or close() was called, the
\* promotion fails and the lock is released.  A marker found by a promotion
\* whose startup attempt succeeded is taken for answered.
FinishPromotion(p) ==
    /\ co[p].pc = "booting"
    /\ wk[p].pc = "ready"
    /\ \/ /\ Fresh(file) /\ Fresh(Reloaded(p)) /\ OwnershipValid(p) /\ ~co[p].stop
          /\ wk' = [wk EXCEPT ![p].pc = "idle", ![p].startup = FALSE,
                              ![p].failed = FALSE]
          /\ reloader' = [reloader EXCEPT ![p] = Reloaded(p)]
          /\ rejected' = [rejected EXCEPT ![p] = RejectedAfter(p)]
          /\ co' = [co EXCEPT ![p].pc = "poll", ![p].own = TRUE, ![p].first = FALSE,
                              ![p].consume = ~wk[p].failed /\ marker]
          /\ UNCHANGED holder
       \/ /\ ~(Fresh(file) /\ Fresh(Reloaded(p)) /\ OwnershipValid(p) /\ ~co[p].stop)
          /\ wk' = [wk EXCEPT ![p] = NoWorker]
          /\ holder' = Released(p)
          /\ co' = [co EXCEPT ![p] =
                 IF co[p].first THEN DownCo
                 ELSE [DownCo EXCEPT !.pc = "poll", !.first = FALSE,
                                     !.stop = co[p].stop]]
          /\ UNCHANGED <<reloader, rejected>>
    /\ UNCHANGED <<env, file, marker, owed>>

\* The supervisor finds its ownership lost or its worker gone, or holds a
\* handle no promotion used: it gives up the role and stops the manager.
Demote(p) ==
    /\ co[p].pc = "poll" /\ ~co[p].stop
    /\ IF co[p].own THEN ~OwnershipValid(p) \/ wk[p].pc = "dead"
       ELSE co[p].handle # NoHandle
    /\ co' = [co EXCEPT ![p].pc = "demoting", ![p].own = FALSE, ![p].consume = FALSE]
    /\ wk' = [wk EXCEPT ![p] = WorkerStopped(@)]
    /\ UNCHANGED <<env, file, holder, marker, owed, reloader, rejected>>

\* Mutant: the lock is released while the worker may still be refreshing.
FinishDemotionEarly(p) ==
    /\ co[p].pc = "demoting"
    /\ holder' = Released(p)
    /\ co' = [co EXCEPT ![p].pc = "poll", ![p].handle = NoHandle]
    /\ UNCHANGED <<env, file, marker, owed, wk, reloader, rejected>>

\* Mutant: a demotion forgets its handle without unlocking it.
FinishDemotionHolding(p) ==
    /\ co[p].pc = "demoting"
    /\ wk[p].pc = "none"
    /\ co' = [co EXCEPT ![p].pc = "poll", ![p].handle = NoHandle]
    /\ wk' = [wk EXCEPT ![p] = NoWorker]
    /\ UNCHANGED <<env, file, holder, marker, owed, reloader, rejected>>

\* The lock is released only after the worker has left its loop.
FinishDemotion(p) ==
    /\ co[p].pc = "demoting"
    /\ wk[p].pc = "none"
    /\ holder' = Released(p)
    /\ co' = [co EXCEPT ![p].pc = "poll", ![p].handle = NoHandle]
    /\ wk' = [wk EXCEPT ![p] = NoWorker]
    /\ UNCHANGED <<env, file, marker, owed, reloader, rejected>>

-----------------------------------------------------------------------------
(* The refresh worker's loop and the request marker                          *)

\* For a pending request, or because the next periodic attempt is due.
WorkerWakes(p) ==
    /\ wk[p].pc = "idle"
    /\ wk' = [wk EXCEPT ![p].pc = "begin", ![p].pending = FALSE]
    /\ UNCHANGED <<env, file, holder, marker, owed, co, reloader, rejected>>

\* The worker thread ends on an error outside an attempt (an invalid clock).
WorkerDies(p) ==
    /\ wk[p].pc = "idle"
    /\ Spend("faults")
    /\ wk' = [wk EXCEPT ![p].pc = "dead"]
    /\ UNCHANGED <<provider, lockId, file, holder, marker, owed, co, reloader, rejected>>

\* _schedule_unknown_key_refresh: a running manager takes one request at a time.
TakesRequest(p) ==
    wk[p].pc \notin {"none", "dead"} /\ ~wk[p].stop /\ ~wk[p].pending

\* The owner's poll hands a marker to its manager, once the cooldown since the
\* last attempt's start has passed and no refresh is already pending.
ScheduleRequest(p) ==
    /\ co[p].pc = "poll" /\ ~co[p].stop
    /\ co[p].own /\ OwnershipValid(p)
    /\ ~co[p].consume
    /\ marker
    /\ TakesRequest(p)
    /\ wk' = [wk EXCEPT ![p].pending = TRUE]
    /\ co' = [co EXCEPT ![p].consume = TRUE]
    /\ UNCHANGED <<env, file, holder, marker, owed, reloader, rejected>>

\* Only the valid owner removes the marker; a failed removal is tried again at
\* the next poll without scheduling anything.
ConsumeRequest(p) ==
    /\ co[p].pc = "poll" /\ ~co[p].stop
    /\ co[p].consume /\ OwnershipValid(p)
    /\ marker' = FALSE
    /\ owed' = FALSE
    /\ co' = [co EXCEPT ![p].consume = FALSE]
    /\ UNCHANGED <<env, file, holder, wk, reloader, rejected>>

-----------------------------------------------------------------------------
(* Requests, and what the host, the operator and the provider do             *)

Serving(p) ==
    /\ Up(p) /\ ~co[p].first /\ ~co[p].stop
    /\ reloader[p] # NoDoc
    /\ co[p].own => wk[p].pc # "dead"

\* signal_refresh: exclusive creation, so that concurrent signals coalesce.
Signal(unknown) ==
    /\ marker' = (marker \/ unknown)
    /\ owed' = (owed \/ (unknown /\ ~marker))

\* A request or a readiness probe reloads first.  A token signed with a key
\* generation the trusted snapshot lacks creates the marker, unless one exists.
Verify(p) ==
    /\ Serving(p)
    /\ reloader' = [reloader EXCEPT ![p] = Reloaded(p)]
    /\ rejected' = [rejected EXCEPT ![p] = RejectedAfter(p)]
    /\ \E unknown \in {FALSE, /\ left.signals > 0 /\ Fresh(Reloaded(p))
                              /\ provider > Reloaded(p).keys} :
          Signal(unknown)
    /\ UNCHANGED <<env, file, holder, co, wk>>

\* The file could not be read this once: it is refused like an invalid one.
ReloadFails(p) ==
    /\ Serving(p)
    /\ file \notin {NoDoc, reloader[p], rejected[p]}
    /\ Spend("faults")
    /\ rejected' = [rejected EXCEPT ![p] = file]
    /\ UNCHANGED <<provider, lockId, file, holder, marker, owed, co, wk, reloader>>

\* close(): stop the supervisor, then the manager, then release the lock.
Close(p) ==
    /\ Up(p) /\ ~co[p].first /\ ~co[p].stop
    /\ Spend("faults")
    /\ co' = [co EXCEPT ![p].stop = TRUE]
    /\ UNCHANGED <<provider, lockId, file, holder, marker, owed, wk, reloader, rejected>>

StopManager(p) ==
    /\ co[p].pc = "poll" /\ co[p].stop
    /\ co' = [co EXCEPT ![p].pc = "closing"]
    /\ wk' = [wk EXCEPT ![p] = WorkerStopped(@)]
    /\ UNCHANGED <<env, file, holder, marker, owed, reloader, rejected>>

ProcessGone(p) ==
    /\ holder' = Released(p)
    /\ co' = [co EXCEPT ![p] = DownCo]
    /\ wk' = [wk EXCEPT ![p] = NoWorker]
    /\ reloader' = [reloader EXCEPT ![p] = NoDoc]
    /\ rejected' = [rejected EXCEPT ![p] = NoDoc]
    /\ UNCHANGED <<provider, lockId, file, marker, owed>>

FinishClose(p) ==
    /\ co[p].pc = "closing"
    /\ wk[p].pc = "none"
    /\ ProcessGone(p)
    /\ UNCHANGED left

\* The process ends at any point; the system frees its lock.
Crash(p) ==
    /\ Up(p)
    /\ Spend("faults")
    /\ ProcessGone(p)

\* The operator replaces the owner lock file.
ReplaceLock ==
    /\ Spend("replacements")
    /\ lockId' = lockId + 1
    /\ UNCHANGED <<provider, file, holder, marker, owed, co, wk,
                   reloader, rejected>>

Rotate ==
    /\ Spend("rotations")
    /\ provider' = provider + 1
    /\ UNCHANGED <<lockId, file, holder, marker, owed, co, wk,
                   reloader, rejected>>

\* Fetches have timeouts: no attempt outlasts MaxAttempt.
Tick ==
    /\ \A p \in Proc : wk[p].cand # NoDoc => wk[p].cand.age < MaxAttempt
    /\ file' = Older(file)
    /\ reloader' = [p \in Proc |-> Older(reloader[p])]
    /\ rejected' = [p \in Proc |-> Older(rejected[p])]
    /\ wk' = [p \in Proc |-> [wk[p] EXCEPT !.cand = Older(@)]]
    /\ UNCHANGED <<env, holder, marker, owed, co>>

-----------------------------------------------------------------------------

Attempt(p) ==
    WorkerWakes(p) \/ BeginAttempt(p) \/ CheckInstall(p) \/ ReplaceFile(p)

Supervise(p) ==
    \/ JoinAsFollower(p) \/ Promote(p) \/ FinishPromotion(p)
    \/ Demote(p) \/ FinishDemotion(p)
    \/ ConsumeRequest(p) \/ StopManager(p) \/ FinishClose(p)

Next ==
    \/ \E p \in Proc :
          \/ TryAcquire(p) \/ Supervise(p)
          \/ Attempt(p) \/ FetchOk(p) \/ FetchFails(p)
          \/ WorkerDies(p) \/ ScheduleRequest(p)
          \/ Verify(p) \/ ReloadFails(p) \/ Close(p) \/ Crash(p)
    \/ ReplaceLock \/ Rotate \/ Tick

Spec == Init /\ [][Next]_vars

\* Time passes and threads run.  The lock is polled far more often than it
\* changes hands (0.5 s against minutes), the provider answers now and then, and
\* requests or readiness probes keep coming faster than snapshots expire.  The
\* request marker is not relied on: an unknown key is also met by the periodic
\* refresh.
Fairness ==
    /\ WF_vars(Tick)
    /\ \A p \in Proc :
          /\ WF_vars(Supervise(p))
          /\ WF_vars(Attempt(p))
          /\ SF_vars(FetchOk(p))
          /\ SF_vars(TryAcquire(p))
          /\ SF_vars(Verify(p) /\ reloader'[p] # reloader[p])

FairSpec == Spec /\ Fairness

-----------------------------------------------------------------------------
(* Properties                                                                *)

\* Every variable stays in its type.
EntraTypeOK ==
    /\ provider \in 0..MaxRotations
    /\ file \in DocOrNone
    /\ lockId \in Id
    /\ holder \in [Id -> Proc \cup {NoProc}]
    /\ marker \in BOOLEAN
    /\ owed \in BOOLEAN
    /\ left \in [{"rotations", "replacements", "faults", "signals"} -> Nat]
    /\ co \in [Proc ->
         [pc : {"down", "promote", "booting", "poll", "demoting", "closing"},
          handle : Id \cup {NoHandle}, own : BOOLEAN, first : BOOLEAN,
          consume : BOOLEAN, stop : BOOLEAN]]
    /\ wk \in [Proc ->
         [pc : {"none", "begin", "fetch", "guard", "replace", "ready", "idle", "dead"},
          startup : BOOLEAN, pending : BOOLEAN, stop : BOOLEAN, failed : BOOLEAN,
          cand : DocOrNone]]
    /\ reloader \in [Proc -> DocOrNone]
    /\ rejected \in [Proc -> DocOrNone]

\* A process that can still fetch or install holds the OS lock it was promoted
\* under, through demotions, closes and failed promotions (_demote, close and
\* _release_after_failed_promotion join the worker before they release), so no
\* two of them share one lock file.
WorkerUnderLock ==
    \A p \in Proc : wk[p].pc # "none" =>
        co[p].handle # NoHandle /\ holder[co[p].handle] = p

\* The check of install_entra_trust_store and its os.replace are two steps, yet
\* as long as nobody replaces the lock file no install puts an older snapshot
\* over a newer one, whichever processes crash, close or take over.
FileAdvances ==
    [][lockId = 0 /\ file # NoDoc /\ (\E p \in Proc : ReplaceFile(p))
          => Newer(file', file)]_vars

\* A process never goes back to an earlier generation of signing keys while it
\* runs: refreshed_at is taken before the fetches, so the date order that
\* _maybe_reload compares is the order of the contents only because one owner
\* refreshes at a time.
TrustAdvances ==
    [][\A p \in Proc :
          lockId = 0 /\ reloader[p] # NoDoc /\ reloader'[p] # NoDoc
              => reloader'[p].keys >= reloader[p].keys]_vars

\* After the provider's last rotation every serving process comes to trust the
\* new keys, through an owner's crash or close, a dead worker, a failed read and
\* lost signals, and, where no signal comes at all, through a replaced lock file.
RolloverRecovers ==
    \A p \in Proc :
        (Serving(p) /\ left.rotations = 0)
            ~> (~Serving(p) \/ reloader[p].keys = provider)

\* docs/team-entra-bearer-host.md: the owner schedules a request through the
\* cooldown, then consumes it.  A marker that is removed was answered by an
\* attempt that began after it was created, or such an attempt is due.
ConsumedMarkerIsScheduled ==
    [][marker /\ ~marker' =>
          ~owed \/ \E p \in Proc : wk[p].pending \/ wk[p].pc = "begin"]_vars
=============================================================================
