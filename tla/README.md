# Causure: specifications, model checks and proofs

Causure reviews changes of AI agents. It runs untrusted adapters in sandboxed containers
that may spend a bounded amount at an LLM provider, turns what they produce into evidence
and decisions, delivers the decisions to GitHub and Azure DevOps, and offers teams an HTTP
service around cases and investigations. This directory holds TLA+ modules of the parts
whose correctness depends on the order in which things happen, TLC configurations that
check them on small instances, and proofs that hold for every instance.

Paths below are those of the repository (`src/causure/...`, `docs/...`, `tests/...`).

## 1. Inventory

| Component | State | Operations | Hard behaviour | What makes it correct | Modelled in |
|---|---|---|---|---|---|
| Quota pricing (`openai_quota.py`) | none | `maximum_cost_nusd`, `actual_cost_nusd` | rounding per token class | the hold and the charge cover the exact bill | `QuotaPricing` |
| Quota lease store (`SQLiteOpenAIQuotaStore`) | `quota_leases`, `quota_operations` | `reserve`, `begin_operation`, `complete_operation`, `mark_operation_uncertain`, `settle`, `cancel` | running sums, rolled-back updates, late answers for ended leases | never more held or charged than granted; terminal is final | `QuotaLedger`, `QuotaBudget` |
| Quota proxy | one thread per request | `_forward`, `_reserve`, `_settle`, `_cancel` | timeouts, late provider work, busy store, process death | what is billed stays within the lease's liability; every hold ends | `QuotaProxy` |
| Sandboxed runner, docker runtime (`sandbox.py`) | futures, `stopped`, lease, tombstones | reserve, preflight, run workers, settle, cancel | failure while workers run, cancellation races, lost threads | receipts are final; failures revoke; nothing outlives a run | `SandboxRun` |
| Admission control (`team_admission.py`) | slots, token buckets, source table | `_admit`, `_release_slot`, close | clock read outside the lock, eviction, double close | no slot leaks; rates stay bounded | `Admission` |
| Entra trust refresh (`team_entra_refresh.py`) | snapshot file, owner lock, request marker | refresh, install, reload, promote, demote, signal | check-then-replace, lost signals, dead owners | trust never goes backward; a key rollover is learned | `EntraRefresh` |
| Team store (`team_store.py`) | hash-chained events, records, policies, exports, backups | append, put policy, export, backup, initialize | compare-and-swap of heads, crashes between file and row | one chain, each mutation once | `TeamStore` |
| Team application (`team_application.py`, `team_service.py`) | none of its own | read, validate, commit; pages | data read before a commit and used in it, lost replies | what was validated is what is committed | `TeamApplication`, `TeamMutations`, `TeamContracts` |
| Investigations, cases (`team_investigations.py`, `team_cases.py`) | records with revisions | derive, successor rules | long sequences of legal steps | no reachable illegal record | `TeamInvestigations`, `TeamCases` |
| Team host as a Windows service | SCM entry, registration, process | install, configure, recovery, start, stop, remove; run, close | steps that fail, interrupts, a stop before the host exists | every report is true; a stop is not lost | `TeamWindowsService` |
| Decision engine (`engine.py`, `policy.py`) | none | `review_case` | precedence of findings, absent measurements | a stricter policy never admits more | `GateDecision` |
| GitHub action (`github_*.py`) | documents of a job, the check | select, gate, publish | the pull request moves, lost replies, re-runs | a check is about its head commit | `GitHubReview`, `ReviewDocuments` |
| Azure DevOps and approvals (`azure_devops.py`, `approvals.py`) | documents, keys, revocation lists | publish, verify, approve | old lists, clocks that are off | an accepted approval stands | `AzureApproval`, `ReviewDocuments` |
| Attestations (`attestations.py`) | trust store, revocation list | attest, verify | files replaced while they are read | a receipt is about what was signed | `ArtifactAttestation` |
| Adapter process, generated cases (`runner.py`, `trusted_case_*.py`) | a child, an evidence directory | replay, evaluate, generate, place | deadline against answer, files that change, a killed caller | a receipt names what ran | `TrustedGeneration` |
| Canary (`canary.py`) | none | declare, observe, compare | replaced policies, interval bounds | the verdict is earned | `CanaryRollout` |
| Collection, fixtures, workspaces (`collector.py`, `fixtures.py`, `onboarding.py`, `investigation_workspace.py`, `case_creation.py`) | folders of a project | init, collect, investigate, configure, create a case | commands at once, failed writes, kills, copied files | a case names its evidence | `TraceEvidence`, `LocalWorkspaces` |
| HTTP routing, dashboard, schemas, argument parsing | none | parsing, rendering | none that depends on order | | not modelled |

`PROJECT.json` lists each component with its status, and under `hazards` the lines where
this code is hard to test, with the properties that watch them.

How the components meet:

    sandbox runner --reserve/settle/cancel--> controller --HTTPS--> proxy admin routes --+
          |                                                                              v
          +-- docker run/rm --> containers --requests--> proxy handlers ---------> lease store
                                                             |  ^
                                                             v  |  (may be late or never)
                                                           provider

    SCM --> Team host process: Team API threads --> admission control --> bearer check
                                                          (Entra trust snapshot file) --+
                                 store  <------------- Team application <---------------+

    trace exports --> investigations --> cases --\
    pull request --> generated case --------------> gate --> publication --> check, approval
                                                      \--> canary         attestations

## 2. Modules

    QuotaPricing -------------------+
    QuotaLedger (INSTANCE QuotaBudget)                          MCQuotaLedger   QuotaLedgerProofs
        +-- QuotaProxy (EXTENDS QuotaLedger, QuotaPricing)      MCQuotaProxy    QuotaProxyProofs
        +-- SandboxRun (EXTENDS QuotaLedger)                    MCSandboxRun    SandboxProofs
    Admission                                                   MCAdmission     AdmissionProofs
    EntraRefresh                                                MCEntraRefresh  EntraRefreshProofs
    TeamContracts, TeamInvestigations, TeamCases
        +-- TeamMutations -- AtomicTeam
        +-- TeamStore
              +-- TeamApplication (INSTANCE AtomicTeam)
                    +-- TeamDeployment (and TeamWindowsService) MCTeam          TeamProofs
    GateDecision
        +-- GitHubReview, AzureApproval, ReviewDocuments                        ApprovalProofs
    TrustedGeneration, CanaryRollout, ArtifactAttestation
    TraceEvidence -- LocalWorkspaces
        +-- ReviewDelivery (EXTENDS all of these)               MCReview        ReviewProofs
    Records (EXTENDED by TeamContracts, TrustedGeneration, GitHubReview, ReviewDocuments)

In each module, definitions commented *Variant* or *Mutant* are plausible slips of the
definition after them. They are used nowhere; each property is violated when a definition
is replaced by the variant named for it in `PROJECT.json`.

### Quota, sandbox, admission

**QuotaPricing.** A price per million tokens with nine decimals is a whole number of
`1/Scale` nano-USD per token (`Scale` is 10^6 in the code). `Cost` is the ceiling that
`_cost` takes, `MaximumCost` and `ActualCost` the two sums of `OpenAIModelPricing`, and
`ExactBill` the unrounded amount a provider charges.

**QuotaLedger.** `lease[l]` and `op[l][s]` are the rows of the two tables, with the columns
that decide anything. Every public writing method runs in one `BEGIN IMMEDIATE`
transaction (`_write`), so each is one action: `Reserve`, `BeginOperation`,
`CompleteOperation`, `CompleteOverrun` (the path whose two updates are undone by the raise
that follows them), `MarkUncertain`, `Settle`, `Cancel`. Calls that raise before writing
are disabled guards. The expiry is compared with a clock reading taken before the lock, so
`now` is an arbitrary instant here. Left out: tokens, digests, timestamps of rows.

**QuotaBudget.** The abstract specification: budgets of nano-USD with holds that are taken
before they cost anything, then charged or burned; burning revokes; closing cleanly needs
nothing held and nothing burned. It has no counters. `QuotaLedger` instantiates it through
`PhaseOf`, `LeftOf`, `HoldOf`, `UsedOf`, `BurnedOf`; `HardLimit` is the refinement.

**QuotaProxy.** One record per handler thread with the program counter of `_forward`:
`Authorize` (request checked, clock read), `Begin`/`BeginRefused`, `Send`,
`UpstreamAnswers`/`UpstreamRefuses`/`UpstreamFails`, `Complete`/`Overrun`, `Mark`.
`StoreBusy` is the write lock held past `busy_timeout` at each point where the handler
writes, following its `except` clauses; a busy `Mark` ends the handler with its operation
still `forwarding`. `Crash` loses all threads and keeps the tables. The provider is
external: it works on what was sent, and may finish and charge although nobody listens
(`ProviderFinishesUnheard`). `Admin` is any admin call at any time.

**SandboxRun.** The main thread of `SandboxedAdapterRunner._run` with `_reserve_quota`,
`_execute_workers`, `_cancel_containers`, `_settle_quota` and `_cancel_quota`; one future
and one container per reference; the runtime's tombstones and process table. A thread goes
from `queued` through `checked` (it looked at `stopped`) and `running` (a docker process
exists) to `ok`, `error`, `canceled` or `lost` (its own cleanup was not confirmed). The
scan over the futures takes one step per future, because threads move between them.
`runtime.cancel` is two steps: its critical section and its removal loop. The lease store
takes part as the actions of `QuotaLedger`; a controller call can fail before its commit
or lose its reply after it. Docker is external, with one assumption: a docker process that
ends without being killed leaves no running container.

**Admission.** Threads of the Team API through `TeamAdmissionControlMiddleware.__call__`:
slot, counter, clock reading, the locked part of `_admit`, the application, the response's
close, the release. Tokens are counted in `1/Window` of a request so that refills are
exact integers; the code's floating point is not modelled. `ClockInvalid` is the refusal
of a reading older than the bucket. `Fresh` is the pruning loop, `Placed` the LRU table.
Every bucket outside `order` is reset, it stands for no entry. The clock only advances:
a clock that fails or goes backward is refused before it changes anything.

### Entra trust refresh

**EntraRefresh.** Several processes of one host share a trust snapshot file, an owner lock
file and a refresh-request marker. A snapshot is its age and the generation of the signing
keys it holds; ages instead of dates let time have no end. Per process: the coordinated
verifier's supervisor (`_run`: poll, promote, boot, demote, close), its manager's worker
(begin, fetch, guard, replace) and its reloader (`_maybe_reload`, with the remembered
refused file). `install_entra_trust_store` is two steps, the comparison and the replace.
Crashes, closes, dead workers, failed reads, lost signals and a replaced lock file are faults
with a budget; the provider rotates its keys at any time.

### Team service

**TeamContracts, TeamInvestigations, TeamCases, TeamMutations** are pure: policies and
decisions, the chained audit event and its export, the records and their successor rules,
and what each kind of request asks for, derives and checks.

**TeamStore.** The tables of one tenant; every `BEGIN IMMEDIATE` transaction is an action
and a check that raises is a guard. A digest is injective, so the head is the sequence of
the events' ids. Backups run in steps (reserve an empty file, copy, replace, fail, crash);
`initialize` and the migrations in two (read the version, bring it to the newest).

**TeamApplication.** Workers serve one request each through separate transactions: the
snapshot (`ReadSnapshot`), the reads and checks that prepare the event (`PreparePublish`,
`PrepareOpen`, `PrepareAttach`, `PrepareTransition`, `PrepareAction`) and the commit. A client
bases a request on the head it loaded and sends the same bytes again when the reply is lost.
The event of an authorized mutation carries the record that becomes a row; that of a claimed
action carries whatever outcome and payload its client chose (`Payloads`: any media type and
bytes), and so does the operator's. Beside them: the operator's command line, policies that
are put at any time, and readers that walk events, cases or investigations page by page.

**AtomicTeam.** What the service promises: each mutation authorized, derived and stored at
one instant. `TeamApplication` implements it through `Logged` and `Exported`
(`ImplementsAtomicTeam`).

**TeamWindowsService.** The administrator's commands (`team_windows_service.py`) step by
step, each of which may fail without effect, be interrupted, or be the command's last; the
service process from `SvcDoRun` through `TeamHostServer.run` to its close; the control
handler's thread (`SvcStop`). Service Control Manager is external: it keeps the entry,
restarts a failed process once, starts an automatic service at boot, and lets a service
marked for deletion go when nothing holds it. **TeamDeployment** puts the two beside each
other: they share no modelled state, so a behaviour is of one of them.

### Reviews and their delivery

**GateDecision.** `review_case` as a set of findings over the counts and flags of a case
and a policy, and the precedence of their consequences. Rates are whole percents.

**GitHubReview.** A workflow run reads its event, the pages of the changed files, selects
the component, gates the case and posts a check. The pull request moves between any two
API calls; a POST is refused, lost, or processed after the client gave up; a run is
cancelled and re-run under its first event. Policy and case are read from the tree that is
checked out: with a merge checkout, a file the pull request leaves alone is the base's
(`CheckedOut`).

**AzureApproval.** A build publishes, a later stage verifies, an authority signs, and a
verifier, whose clock is off by up to `ClockSkew`, checks the assertion against a trust
store and a revocation list of bounded age. Lists are external and cumulative.

**ReviewDocuments.** The files of a job: case, result, report, publication, verification,
request, receipt. Commands run one at a time in any order, over files an earlier job or
attempt left, and may be killed between two writes. A digest is the document. Times are
half-seconds, because a review is dated to the microsecond and everything else to the
second. `job` is what the environment says of the running job.

**TrustedGeneration.** A child process for the three modes of an adapter, with its
deadline, answer, end and stop; around it the generation of a case: the digests of
component and adapter directory before and after, the evidence directory, the placed case.
Files change meanwhile, writes fail and the caller is killed.

**CanaryRollout.** Policies, reviews and observations appear at any time; the comparison is
given any of them. The score interval is computed in thousandths, rounded outward; its
root is the integer part of the real one.

**TraceEvidence, LocalWorkspaces.** What the collector keeps of an export, what the
manifest's reader accepts and how the fixture groups it, as operators; and the folders of a
project with `init`, `investigate`, the configuring commands and `case create` as processes
of their own. A folder is made exclusively and filled file by file; a failed write removes
it, a killed command leaves a part of it, a person removes folders and copies files.
A sorted list is written as a set in its order (`InOrder`, `Ascending`, `Picked`), which the
proofs can reason about.

**ArtifactAttestation.** A producer signs an artifact's bytes; a verifier reads artifact,
attestation, trust store and revocation list, then its clock, while a person replaces,
edits or rotates each. A signature is its payload with the public half of the key.

**ReviewDelivery** chooses one of these stages for a behaviour. They hand documents to each
other and share no other state, so checking them side by side loses nothing and lets them
be instantiated together.

## 3. Runs

| Run | Distinct states | Instance | Shows |
|---|---|---|---|
| `ledger` | 16,792 | 1 lease, 3 operations, 2 concurrent, 4 nano-USD, amounts 0..4, 2 reservations, 2 instants around an expiry | sums, finality, refinement of `QuotaBudget` |
| `proxy` | 473,852 | 2 handlers on 1 lease, 3 reservations, half a nano-USD per token, one busy fault, one crash | bill covered, concurrency bounded at the provider, quiet settlement, ownership of holds, every hold ends |
| `proxy_usage` | violation | as `proxy`, no faults | bounded usage may exceed its hold |
| `proxy_overrun` | violation | as `proxy`, no faults | an overrun is not recorded |
| `sandbox` | 249,401 | 2 references, leases for 1 or 2 at once, a hold of half the budget | final receipts, revocation on failure, final removals, nothing left behind, termination |
| `sandbox_cleanup` | violation | as `sandbox` | a lost cleanup is not reported |
| `admission` | 893,238 under symmetry | 4 requests, 3 sources, 2 slots, table of 2, 3 ticks | slots conserved, both rate bounds |
| `admission_clock` | violation | 2 requests | a monotonic clock is refused |
| `entra_refresh` | 175,458 | 2 processes, TTL 2, attempts of 1; one rotation, with a fault while tokens of the new keys come in, or with a replaced lock file and no such tokens | one writer, no rollback of file or keys, every rollover is learned |
| `entra_signal` | violation | as above | a consumed request that nothing answers |
| `team` | 401,910 | 2 workers, 2 investigations, 2 cases, 13 agendas, 4 events, pages of 1; 3 commands, 2 faults and 1 edit of the service | refinement of `AtomicTeam`, links, decisions, records, retries, backups, walks, true reports of the service's commands |
| `review` | 2,672,835 | the seven stages, bounds in `MCReview.cfg` | each document is about what it names |

**Bounds, quota to admission.** Leases share no state but the operation table, whose key
starts with the lease, so one is representative; the proofs remove the bound anyway. Two
handlers are the least that race; two operations allow one to be settled and one in flight.
The budget of 4 is filled by two holds of 2. Half a nano-USD per token is the smallest
price at which rounding matters. A second crash finds only what the first left. Two workers
are enough for a failure of one while the other is at any of its steps, and `conc = 1`
gives a queued future. Three sources compete for two table entries and four requests outrun
a capacity of three. `Horizon` and `LastTick` bound the clocks.

**Bounds, Entra.** Two processes are an owner and a follower. With a TTL of 2 a snapshot is
new, usable or expired, and an attempt may last until the snapshot it replaces has aged
once. A `Budget` bounds what befalls a behaviour. One has a
rotation, a fault and tokens of the new keys, whose signals may be lost. The other has a
rotation and a replaced lock file, in either order, and no token of the new keys arrives:
the periodic refresh alone has to learn them.

**Bounds, Team.** An *agenda* is what clients and the operator do in a behaviour: a cycle of
duplicates; publishing, revising and linking a case; attaching and assigning while policies
are replaced; an action and an export beside the command line, with a retry and with a policy
that is replaced; an action, and an operator's event, whose payload is byte for byte the
record that another request stores (`MCLookalike`); backups by two operators; walks of
investigations, of cases and of events; a file of each earlier schema version. `MaxEvents = 4`
holds each of them and a spare. Pages of one item make each walk as long as possible. Three
commands of the service are an install and two that act on it; two faults let a step and its
undo fail in one command.

**Bounds, reviews.** GitHub: six heads, two bases of which the later one tightens the policy
and improves the case, eight settings, pages of one file, a run with two attempts; runs share
only the pull request, so one is enough. Azure: an approving key and one that only counts
later, one receipt and assertion, two lists, windows of one and an instant 5 at which
everything has expired. Documents: environments that differ in attempt, fork, merge ref,
changeset and branch; two gates and publications, so that an older one can be left in place of
a newer. Generation: two versions of each file, two cases, one crash. Canary: two batches and
two looks, two plans; all four decisions occur. Evidence: exports with two traces and three
spans, one given twice, a late one and an empty one; two faults and two hand-made changes.
Attestation: two contents, clocks off by one, a list that may be as old as the limit, two
edits (a key rotated under its name, a time moved after the signature, another store's list, a
duplicate key).

**Deadlock** is off in all runs: handlers, runs, requests, commands and jobs end, and the
bounded clocks stop.

**Fairness.** `QuotaProxy` assumes weak fairness of each handler's own steps: threads are
scheduled, and the transport has a timeout, so waiting ends in `UpstreamFails` at the
latest. Requests, admin calls, the clock, faults and the provider are not fair.
`SandboxRun` assumes weak fairness of the main thread and of each pool thread: docker
commands have timeouts (`_CONTROL_TIMEOUT_SECONDS`, `_PROCESS_STOP_SECONDS`), and each
thread has a deadline of its own (`GiveUp`). Containers need neither start nor exit, and
the proxy need not answer. `EntraRefresh` assumes weak fairness of time, of each
supervisor's loop and of the worker's steps, and strong fairness of three things that
others can undo over and over: the fetch succeeds infinitely often if it is tried
infinitely often (the provider is not down for ever), a free lock is eventually acquired
by a supervisor that keeps polling, and a request is eventually verified with a file that
would be adopted. Faults and rotations are not fair. The Team and review modules have
safety properties only: their commands and requests may all be abandoned.

**Symmetry** is used in the admission run only (requests and sources are interchangeable,
and it checks no liveness).

**What the properties leave out.** `NothingOutlivesRun` and `FailedRunRevokes` leave out
runs whose runner died or whose reservation reply was lost: only the lease's expiry bounds
them. `FileAdvances` and `TrustAdvances` hold until somebody replaces the owner lock file:
two owners then write. `FinishedFoldersStand` leaves out folders made inside a project
whose `init` is still running (see below), and those made in the place of one that such an
`init` removed while its command was still writing. The proof showed that the second
exclusion is needed, and the run shows why (an agenda of an `init` and two investigations
of one identifier): the `init` fails and removes the half-written folder, the second
investigation makes it again, and the first goes on writing there, so that the second
reports a folder with documents of both.

## 4. Findings

1. `openai_quota.py:1170` and `1204`: the updates that record `accounting_failed` are
   rolled back by the exception raised after them. The operation ends as `uncertain`, and
   the usage the provider reported is lost (`OverrunIsRecorded`). The liability stays
   right: the whole hold is burned.
2. `openai_quota.py:361`: cached and regular input tokens are rounded up separately, the
   hold rounds their sum. A valid answer can therefore cost one nano-USD more than its
   hold and fail its lease, unlike what `docs/openai-compatible-quota-proxy.md:174-176`
   describes (`BoundedUsageFitsHold`). `OverrunIsAtMostOne` proves that the excess is
   never more than one, `WholeInputRateNeverOverruns` that it needs an input price that
   is not a whole number of nano-USD per token.
3. `sandbox.py:1050`: the unconfirmed cleanup of a worker that finished between the first
   error and the scan is not reported, unlike `docs/sandboxed-adapter-runner.md:116`
   (`CleanupIsReported`).
4. `team_admission.py:248`: the clock is read before the lock is taken, so two concurrent
   requests can make one of them fail with `admission_control_unavailable` although the
   clock is monotonic (`MonotonicClockAccepted`; `docs/team-http-api.md:264`).
5. `team_entra_refresh.py:2049`: a new owner removes a request marker it finds after its
   startup fetch without scheduling it, although the marker may be younger than the fetch
   (`ConsumedMarkerIsScheduled`; `docs/team-entra-bearer-host.md:177-178`). The key that
   was asked for is learned at the next refresh.

Observations met while modelling, for which no run was added:

- `team_application.py:1316-1328`: closing A as a duplicate of B and then B as one of C
  leaves a chain, though `docs/team-investigation-queue.md:145` says chains are rejected.
  `LinksResolve` excludes cycles only.
- `team_store.py:1209`: putting an older policy document that is already stored succeeds
  and activates nothing. A policy with a future `effective_at` blocks mutations until then.
- `cli.py:2033`: `team-store-append` does not ask for the active policy;
  `team_application.py:1415`: `create_audit_export` is not idempotent when it is retried.
- `team_http.py:472-477`, `team_application.py:1391-1404`, `cli.py:1841`: the payload of a
  claimed action, and of an operator's event, may have the media type and the bytes of a case
  or investigation record. `_append_event` looks at a payload's media type only when a record
  is stored with the event (`team_store.py:2112`), so an event may look as if it carried a
  record that no table has. `RecordsMatchEvents` says what holds: the events with a row are
  those of the authorized mutations, and a look-alike never gets one.
- `engine.py`: a baseline of zero gives no change ratio, so a metric that regresses from
  zero is at most conditional, also under `block_on_metric_regression`.
- `github_checks.py:1063`: the publisher does not look for a check it already made; a
  re-run makes a second one. `github_action_runner.py:230`: with a merge checkout, a check on
  the head may judge a case and a policy of the base branch that the head's own tree does not
  contain. `ChecksMatchTheirCommit` says that one commit of the base accounts for both.
- `onboarding.py:813`: an `init` that fails after it wrote its configuration removes the
  whole project, with investigations another command finished inside it meanwhile; one that
  is still being written inside it goes on in a folder a second command may have made in its
  place. Two configuring commands at once lose one update and both report success; one that
  read before the project was removed re-creates `.causure` with one file, which a later
  `init` refuses.
- `collector.py` accepts a span that is its own parent, the manifest's reader refuses it:
  `collect` can write a manifest that its own reader rejects. `investigate` refuses it.
- `team_windows_service.py`: `configure`, `recovery-set` and `remove` look whether the
  service is stopped and act later; SCM's queued restart or a boot can start it in between.
  A stop that arrives between the publication of the controller and `run()` makes `run`
  raise `server_closed`: a clean stop ends as a failure and SCM restarts the service once.
  An interrupted `remove` leaves the service disabled (`KeyboardInterrupt` passes
  `except Exception`); an install that was killed and followed by `configure` gives a
  service that runs without its SID and recovery policy.

## 5. Proofs

All proofs are checked by TLAPS. They assume what the modules state as `ASSUME`: positive
limits, reservations within the columns' bounds, a cached price of at most the regular one,
windows and ages that are numbers, trusted keys of the stated form, at least one lease in the
composed quota systems (a handler and a run name one), `NoDoc` and `None` that are no
document, request, policy or id, and in `TeamMutations` what the parsers of the requests
ensure (`MutationAssumption`: every request is of a known kind, by a principal, about a case
or an investigation, a transition names every queue field, and an action claims that it
succeeded or failed). `GitHubReview` adds that there are finitely many patterns, that a
comparison of two trees is a sequence of changes, and what git does on a pull request
(`TreesAssumption`: the case and the policies that a head does not change are what they were
on one base commit, where it left the base). The workspaces assume of exports that their
digests are numbers and their times natural or absent (`EvidenceAssumption`), that no
investigation is called `cases` (`WorkspaceAssumption`: the code allows the name, and the
investigation is then the parent of the project's cases), that the folders there are at first
were made by commands, and that no `--output` is the project's own folder
(`AgendaAssumption`). TLC evaluates these assumptions on the instances, and checked every
inductive invariant below on them before it was proved.

**QuotaLedgerProofs.** `LedgerInvariants` proves `LedgerTypeOK`, `LedgerBalanced`,
`ChecksHold`, `SettledIsExact` and `UncertainRevokes` for every number of leases,
operations, amounts and instants. None of them is inductive alone: that `inFlight` may be
decremented follows from its being the number of forwarding rows, that `held` may be
decremented follows from its being a sum that contains the row's hold, that a completed
operation fits the cost limit needs both the sum and the limit, and that settlement is
exact needs the counters. The inductive invariant is their conjunction. A sum over rows is
the cardinality of a disjoint union of intervals (`Total`), so that the lemmas about
adding, removing and changing one row are facts about finite sets and need no recursion.
`TerminalLeasesStay` proves the action property `TerminalIsFinal`. `LedgerIsHardLimit`
proves `LedgerSpec => HardLimit`: the initial tables map to no budgets, and each
transaction to `Grant`, `Hold`, `Charge`, `Burn`, `CloseClean`, `Revoke` or a stutter. It
uses the invariant for the room left in a budget and for the freshness of the next
sequence number.

**QuotaProxyProofs.** First the prices: ceiling division is bounded from both sides
(`CeilingBounds`), and from it `ChargeCoversBill`, `HoldCoversBill` and
`OverrunIsAtMostOne`. Then the handlers: each step of `QuotaProxy` is a transaction of the
store or leaves the tables alone, so `ProxySpec => LedgerSpec`, and with it `HardLimit`
and the ledger's invariants hold of the composed system (`ProxyKeepsHardLimit`). The other
invariants need `PInv`, which ties a program counter to its row (`HandlerInv`: a handler
in `_forward` has a forwarding row that was priced at its own request, and one about to
complete has exactly the usage the provider billed), bounds what the provider may do to a
row (`RowInv`), gives each operation one owner (`OneOwner`, `NoOrphan`), and bounds the
operations whose provider work is not known to be over (`ExposureBounded`).
`BillsAreCovered`, `ConcurrencyIsBounded`, `SettlementIsQuiet` and `HoldsHaveOwners`
follow. `ExposureBounded` is the strengthening of the concurrency property: the rows that
are forwarding or uncertain, not only those the provider works on, are counted, because an
uncertain row leaves the counter while its work goes on, and a begin is refused from then.

**SandboxProofs.** A controller call that fails before or after its commit is a ledger
transaction or none, so `SandboxSpec => LedgerSpec` (`SandboxKeepsHardLimit`). `SInv` says
what the main thread knows at each place (`MainInv`), that a running container has a thread
that watches it or gave up (`ContainerInv`), that a confirmed name is suppressed and
nothing left could create it (`ConfirmedInv`, `WatchInv`), and how a run leaves its lease
(`OutcomeInv`). From it: `ReceiptsAreFinal`, `FailuresRevoke`, `ConfirmedRemovalsStand`,
`RunsLeaveNothing`.

**AdmissionProofs.** `SlotsAreConserved` counts holders as a finite set of requests and
follows each request through the middleware. `RatesAreBounded` needs a stronger bound than
the property: what was admitted since any admission *and* what the bucket still holds fit
in what the rate allows until the bucket's last update (`GlobalRoom`), and for a source
without a bucket, which is as good as one with a full bucket, the bound of what it was
given before (`SourceRoom`). It shows that pruning an idle bucket costs nothing and that
each eviction lends a source at most one more capacity.

**EntraRefreshProofs.** `WorkersHoldTheLock` follows from `LockInv`: a handle is held by
the process that has it, and a worker lives only under a handle. `FileNeverGoesBack` and
`TrustNeverGoesBack` need that an attempt under way is no older than anything installed or
trusted and has the keys of whatever is older (`OrderInv`), which holds until the lock file
is replaced and rests on one owner fetching at a time.

**TeamProofs.** `TeamInv` has one conjunct per part of the state. The ledger is one chain with
fresh ids (`ChainInv`); every stored row is what the event of its sequence says (`TablesInv`)
and the events with a row are those of the authorized mutations, since a commit stores a row
by what was asked and not by what a payload looks like (`EventsStored`); a worker's snapshot
is a state the store had, and if the head is still its base then what it prepared is still
allowed *now* (`WorkInv`: this is what makes compare-and-swap of the head enough); unsent
requests left no event (`IdsInv`); the operator's draft is authorized by a stored policy
(`DraftInv`); at most one operator works on a backup path and what is copied is a prefix of
the chain (`BackupInv`). From it: `DecisionsSpentOnce`, `RetriesApplyOnce`,
`EveryLinkResolves`, `RowsMatchLedger`, `BackupsStand`, `LedgerIsChained`, and the refinement
`TeamIsAtomic`: initial states map to initial states, each commit to one step of `AtomicTeam`
(the checks made against the snapshot hold at the commit because the head did not move),
everything else to a stutter. `ReportsHold` proves `ServiceReportsHold` of the Windows
service. A report can be judged only by what the command found, so `WindowsInv` says, phase by
phase of an install, a recovery setting and a removal, which fields of the entry may differ
from those found and what the command remembers of them, also while it undoes its steps.
`DeploymentIsBoth` carries all of these to the specification that the run checks.
`WalksMissOnlyRevised` is about a client reading page by page what others write. Its invariant
(`WalkInv`): what was shown lies at or above the cursor and in order; every latest row from
the cursor to the start of the walk was shown; and a page of events is an interval of the
chain. A page holds the first rows below its cursor (`PageKeepsPromise`, from an enumeration
of any finite set of rows, `SetAsSequence`), and a row revised during the walk moves above its
start (`RowsGrow`). One operator was written for the prover: `Updated` of `Records` stands for
the override of record fields, because TLAPS does not support the operator of the module TLC.

**ApprovalProofs.** `StricterPolicyNeverAdmits`: a well-formed case that a
policy approves is approved by every policy whose thresholds are no stricter; one lemma per
check compares its findings under the two policies. `ApprovalsStand`: an accepted approval
is not revoked by any list that was out for longer than `MaxRevocationAge + 2 * ClockSkew`.
The invariant is `TimesAreInstants`, `ListsAccumulate` (a later list holds the earlier
one's entries) and the property: the age limit bounds the list the verifier used, its clock
may be off in one direction when the list is dated and in the other when it is read, and
accumulation makes the older entry visible in it. `ReceiptsHold`: a receipt is about bytes
that a trusted producer signed, within their retention, untouched by a revocation older
than `ListAgeLimit + 2 * SkewLimit`. The invariant says beside the property that
signatures are real (`SignatureIsReal`), that what the verifier holds was read before now
(`ReadBefore`), that lists of one identifier accumulate and that receipts are dated.

**ReviewProofs.** The stages of `ReviewDelivery` share no variable, so each theorem has an
invariant of its stage, which steps of the others leave alone.

- *Generation* (`ReceiptNames`, `CaseLast`, `ChildEnds`). `GenerationInv` orders the versions
  of a file: the one the caller took a digest of is no later than the one the child imported,
  that one no later than its entry, and that one no later than what is there now
  (`ChainHeld`). The check after the child finds the first equal to the last, which squeezes
  the two between them to the same version. `CallHeld` and `FoldersHeld` say what the caller
  knows and has written at each place.
- *Pull requests* (`ChecksMatch`, `ExitsTrue`). Whichever tree is checked out, one commit of
  the base branch gives the policy and, unless the pull request changes it, the case: the
  event's base for a merge, the commit the head left for a checkout of the head (`OneBase`,
  from `TreesAssumption`). A request, a check and a reply are what their
  run owes for its attempt (`PostHeld`), whenever they are processed. Listing the files takes
  several calls while the pull request moves; `Discovering` says that what was read are the
  event's files as long as the head is the event's, and a head that was left does not come
  back, so the re-check at the end speaks for the whole listing.
- *Documents* (`DeliveredReviews`, `PromptSteps`). `DocumentsInv`: each document in the
  workspace or at GitHub agrees with what it embeds and is not of the future, and the windows
  of the steps add up to the age of a posted check. `PromptSteps` is about acceptance: the
  publisher reads again what the writers wrote, so it needs that findings name each code once
  (`FindingsOnce`, a lemma per check of the gate), that the decision made again from them is
  the gate's (`DecisionAgain`), and that an instant rounded down to its second stays within
  the windows (`SecondInWindow`).
- *Canaries* (`VerdictEarned`, `ResultsRead`). `IntervalCovers`: for every count and quantile,
  `k` of `n` lies in the integer score interval. The code computes it in floating point; here
  the halves and quarters cut off are made up for by a root rounded up and bounds rounded
  outward. The bounds of a difference therefore contain the difference of the rates
  (`DifferenceCovers`), and the statuses say what is true of it (`StatusTells`). `CanaryInv`
  ties the result to the one observation and window there are. That a result is read back
  follows from what the parsers of policy and observation demanded.

- *Evidence* (`CasesNamed`, `FoldersStand`). `EvidenceInv` says who owns a folder and what a
  file may hold. The exclusive mkdir makes a command the only one that writes or cleans up at
  its path, and a folder inside the project's keeps that project (`Sheltered`), until it is
  reported whole or cleaned up; so what is there is what the command wrote, up to its next
  document (`Written`) or to the last (`Stands`). What can be moved between folders by hand,
  or replaced by a configuring command, is bound to its name instead (`Known`): a manifest is
  one that was collected, a fixture one that was generated, a configuration one that parses,
  and this is all that a reader may assume who finds the three files mixed. Verification then
  makes a case name its evidence (`CaseComplete`), because a fixture's clusters are ordered
  and each names the traces of its export (`FixtureGives`); these rest on what a sorted list
  is (`InOrderLists`: the rank of an element, the number of those before it, is a bijection
  on `1 .. n`, in order). An investigation that can be written is one its reader accepts
  (`InvestigationComplete`).

**Only model-checked.** No safety property: each of them, and every action property, is
stated by a theorem.
`EveryForwardEnds`, `RunEnds` and `RolloverRecovers` are liveness under fairness, which is
out of the prover's reach, and so is `ENABLED`.

The type invariants `ProxyTypeOK`, `SandboxTypeOK`, `TypeOK` (`Admission`), `EntraTypeOK`
and `TeamTypeOK`, and `ChecksHold`, `SettledIsExact`, `UncertainRevokes` and `LedgerTypeOK`
of the ledger are stated but listed in no run: they are conjuncts of the proved inductive
invariants (`TeamTypeOK` is `LedgerIsChained`). `SourcesOrdered` of `Admission` is stated
only; of it the proof of the rates needs the last conjunct, `BucketsSeen`.

## 6. Not modelled

- Schemas and constants (`schema.py`): the closed formats of documents; the fields that are
  compared across documents are modelled where they are compared. Argument parsing and
  printing of the command line; its commands that change state are in the modules of what
  they change.
- HTTP routing, rendering and the dashboard; secrets, TLS and configuration parsing;
  documents of the sandbox and the plan of docker's command line; the quota proxy's host
  and pilot.
- Floating-point error of the admission buckets; the counters for status pages; the file
  formats, passwords and permissions of keys; byte and text limits.
- Commits, files and contents that return to an earlier version (ABA) on the GitHub side
  and in the generation.
- pywin32's `InstallService` creates the service and then sets its properties and the registry:
  the model takes it as one external step that takes effect or fails. A failure after its
  `CreateService` would leave a registered service behind a report that nothing was installed.
- A docker process that dies without its container: `sandbox.py:673` would take it for
  gone. A tombstone pruned after a day (`_CANCELLATION_TOMBSTONE_SECONDS`).
- What stays behind a dead or interrupted runner (`sandbox.py:1198`) or a lost reservation
  reply (`:809`): steps of the model that no property constrains.
- `team_admission.py:415`: a `BaseException` of the application (interpreter shutdown)
  keeps its slot. `openai_quota.py:1037`: the clock is read before the write lock, so a
  request may be admitted just after its lease expired; the model lets `now` be any
  instant. `team_entra_refresh.py:1687`: the time between deciding on a refresh and dating
  it.

## 7. Plan

The components whose correctness depends on order are modelled, and every safety and action
property the runs check is proved; the three liveness properties stay with TLC. What would
extend the project is in section 6: the quota proxy's host and pilot, and the routing of the
Team API. When the code changes, the operators that name the changed lines are re-read first,
then the invariant of their component.
