--------------------------- MODULE ReviewDocuments ---------------------------
(***************************************************************************)
(* The documents a pipeline job hands from one command to the next: the    *)
(* gate's result and report, the publication that binds them to the job,   *)
(* the receipt of its verification, and on GitHub the check that is posted *)
(* from them.  A job may find the files of an earlier job or attempt in    *)
(* its workspace, a command may be killed between two files it writes, and *)
(* the commands may be called in any order, one at a time.                 *)
(*                                                                         *)
(* A digest binds the bytes of a document, so it is the document itself.   *)
(* Times are half-seconds: reviews are dated to the microsecond, every     *)
(* other document to the whole second it was written in.  The clock never  *)
(* steps back.  Lengths of texts and numbers of bytes are left out, and    *)
(* letter case with them.                                                  *)
(***************************************************************************)
EXTENDS GateDecision, Records

CONSTANTS
    DocumentCase, DocumentPolicy,   \* the change cases and gate policies, by name
    Environments,                   \* what the commands of a job read from their environment
    PublicationWindow, PublicationAge, RequestWindow, PostWindow,   \* seconds
    MaxClock, MaxJobs, MaxGates, MaxPublications, MaxVerifications, MaxRequests

ASSUME DocumentsAssumption ==
    {PublicationWindow, PublicationAge, RequestWindow, PostWindow, MaxClock, MaxJobs,
     MaxGates, MaxPublications, MaxVerifications, MaxRequests} \subseteq Nat

VARIABLES
    clock,
    job,        \* the environment of the running job
    files,      \* the documents in its workspace
    request,    \* the check request of a running command that is yet to be posted
    posted,     \* the checks GitHub accepted, [request, at]
    spent       \* how often each command wrote its document

documentVars == <<clock, job, files, request, posted, spent>>

Second(instant) == 2 * (instant \div 2)

\* One instant follows another by at most a window, or, as a date cut to the second
\* may lie before the review it follows, precedes it by at most a second.
WithinForward(from, to, window) == to >= from /\ to - from <= 2 * window
Within(from, to, window) == to - from >= -2 /\ to - from <= 2 * window

Actions ==
    [approve |-> "patch", conditional_pass |-> "patch", reject |-> "do_not_patch",
     needs_evidence |-> "collect_evidence", human_review |-> "escalate"]

---------------------------------------------------------------------------
(* The gate's documents                                                    *)

ReviewResult(case, policy, instant) ==
    LET findings == Findings(DocumentCase[case], DocumentPolicy[policy])
        decision == DecisionFor(findings)
    IN  [case |-> case, policy |-> policy, decision |-> decision, action |-> Actions[decision],
         findings |-> findings, reviewed_at |-> instant]

\* What the publications repeat of a result: all but its findings.
ReviewBinding(result) ==
    [case |-> result.case, policy |-> result.policy, decision |-> result.decision,
     action |-> result.action, reviewed_at |-> result.reviewed_at]

CaseFits(case, review) == case = review.case
ReportFits(report, review) == report = review

---------------------------------------------------------------------------
(* A GitHub job                                                            *)

SupportedActions == {"opened", "ready_for_review", "reopened", "synchronize"}

\* base and head are [repository, ref, sha]; merge is the pull request whose merge
\* ref was checked out, home the repository that holds the workflow.
PullRequest(e) ==
    [number |-> e.number, base |-> e.base, head |-> e.head,
     fork |-> e.head.repository # e.base.repository]
Workflow(e) ==
    [event |-> e.event, action |-> e.action, merge |-> e.merge, home |-> e.home,
     run |-> e.run, attempt |-> e.attempt]

PullRequestParses(p) == p.fork = (p.head.repository # p.base.repository)
WorkflowParses(w) == w.event = "pull_request" /\ w.action \in SupportedActions
ContextAgrees(p, w) == w.merge = p.number /\ w.home = p.base.repository

\* The event names the same repository and refs as the runner's variables.
GitHubJob(e) ==
    /\ e.platform = "github"
    /\ e.event = "pull_request"
    /\ e.action \in SupportedActions
    /\ e.repository = e.base.repository
    /\ e.base_ref = e.base.ref /\ e.head_ref = e.head.ref
    /\ ContextAgrees(PullRequest(e), Workflow(e))

GitHubArtifacts(docs) == [case |-> docs.case, result |-> docs.result, report |-> docs.report]

GitHubPublicationParses(p) ==
    /\ p.platform = "github"
    /\ PullRequestParses(p.pull) /\ WorkflowParses(p.workflow)
    /\ ContextAgrees(p.pull, p.workflow)
    /\ Within(p.review.reviewed_at, p.created_at, PublicationWindow)

GitHubPublication(docs, e, instant) ==
    [platform |-> "github", created_at |-> Second(instant), review |-> ReviewBinding(docs.result),
     pull |-> PullRequest(e), workflow |-> Workflow(e), artifacts |-> GitHubArtifacts(docs)]

GitHubPublishes(docs, e, instant) ==
    /\ Absent \notin {docs.case, docs.result, docs.report}
    /\ GitHubJob(e)
    /\ CaseFits(docs.case, ReviewBinding(docs.result))
    /\ ReportFits(docs.report, ReviewBinding(docs.result))
    /\ GitHubPublicationParses(GitHubPublication(docs, e, instant))

Unchanged(docs, artifacts) == \A name \in DOMAIN artifacts : docs[name] = artifacts[name]

\* The age of the publication is the verification's; a later publication is refused.
GitHubVerifies(docs, e, instant) ==
    LET p == docs.publication
    IN  /\ Absent \notin {docs.case, docs.result, docs.report, p}
        /\ GitHubPublicationParses(p)
        /\ p.pull = PullRequest(e) /\ p.workflow = Workflow(e)
        /\ WithinForward(p.created_at, instant, PublicationAge)
        /\ Unchanged(docs, p.artifacts)
        /\ CaseFits(docs.case, ReviewBinding(docs.result))
        /\ ReportFits(docs.report, ReviewBinding(docs.result))
        /\ p.review = ReviewBinding(docs.result)

GitHubVerification(p, instant) ==
    [platform |-> "github", verified_at |-> instant, age |-> instant - p.created_at,
     publication |-> p, review |-> p.review, pull |-> p.pull, workflow |-> p.workflow,
     artifacts |-> p.artifacts]

GitHubVerificationParses(v) ==
    /\ v.platform = "github"
    /\ 0 <= v.age /\ v.age <= 2 * PublicationAge
    /\ PullRequestParses(v.pull) /\ WorkflowParses(v.workflow)
    /\ ContextAgrees(v.pull, v.workflow)

---------------------------------------------------------------------------
(* The check request                                                       *)

DecisionForFindings(findings) ==
    LET said == {f.consequence : f \in findings}
    IN  IF "human_review" \in said THEN "human_review"
        ELSE IF "reject" \in said THEN "reject"
        ELSE IF "needs_evidence" \in said THEN "needs_evidence"
        ELSE IF "conditional" \in said THEN "conditional_pass"
        ELSE "approve"

CheckConclusion(decision, conditional) ==
    IF decision = "approve" \/ (decision = "conditional_pass" /\ conditional) THEN "success"
    ELSE IF decision = "reject" THEN "failure"
    ELSE "action_required"

ExternalId(number, run, attempt, verification) == <<number, run, attempt, verification>>

CheckRequest(docs, e, conditional, instant) ==
    LET v == docs.verification
    IN  [created_at |-> Second(instant), number |-> e.number, head |-> e.head.sha,
         fork |-> PullRequest(e).fork, run |-> e.run, attempt |-> e.attempt,
         verification |-> v, review |-> v.review, conditional |-> conditional,
         conclusion |-> CheckConclusion(v.review.decision, conditional),
         external |-> ExternalId(e.number, e.run, e.attempt, v),
         findings |-> docs.result.findings]

CheckReviewParses(review) == review.action = Actions[review.decision]
CheckFindingParses(finding) == finding.consequence \in Consequences

\* The findings of a request reproduce its decision, and its identity is that of
\* the run it is bound to.
RequestAgrees(r) ==
    /\ r.review.decision = DecisionForFindings(r.findings)
    /\ r.conclusion = CheckConclusion(r.review.decision, r.conditional)
    /\ r.external = ExternalId(r.number, r.run, r.attempt, r.verification)
    /\ Cardinality({f.code : f \in r.findings}) = Cardinality(r.findings)

RequestParses(r) ==
    /\ CheckReviewParses(r.review)
    /\ \A f \in r.findings : CheckFindingParses(f)
    /\ RequestAgrees(r)

\* The receipt is made again, at the time it gives, from the files and the job.
Reproduces(docs, e) ==
    LET v == docs.verification
    IN  /\ GitHubVerifies(docs, e, v.verified_at)
        /\ v = GitHubVerification(docs.publication, v.verified_at)

\* A publisher that takes the receipt for what it says.
CreatesUnreproduced(docs, e, conditional, instant) ==
    /\ docs.verification # Absent /\ docs.publication # Absent
    /\ GitHubJob(e)
    /\ GitHubVerificationParses(docs.verification)
    /\ Within(docs.verification.verified_at, Second(instant), RequestWindow)
    /\ RequestParses(CheckRequest(docs, e, conditional, instant))

CreatesRequest(docs, e, conditional, instant) ==
    /\ docs.verification # Absent /\ docs.publication # Absent
    /\ GitHubJob(e)
    /\ GitHubVerificationParses(docs.verification)
    /\ Reproduces(docs, e)
    /\ Within(docs.verification.verified_at, Second(instant), RequestWindow)
    /\ RequestParses(CheckRequest(docs, e, conditional, instant))

CanPost(r, instant) == ~r.fork /\ Within(r.created_at, Second(instant), PostWindow)

CheckReceipt(r, instant) ==
    [published_at |-> Second(instant), number |-> r.number, head |-> r.head, run |-> r.run,
     attempt |-> r.attempt, conclusion |-> r.conclusion, external |-> r.external,
     annotations |-> Cardinality(r.findings), request |-> r, verification |-> r.verification]

ReceiptParses(receipt) ==
    receipt.external =
        ExternalId(receipt.number, receipt.run, receipt.attempt, receipt.verification)

ReceiptFits(r, receipt) ==
    /\ RequestParses(r) /\ ReceiptParses(receipt)
    /\ [receipt EXCEPT !.published_at = 0] = [CheckReceipt(r, 0) EXCEPT !.published_at = 0]
    /\ Within(r.created_at, receipt.published_at, PostWindow)

---------------------------------------------------------------------------
(* An Azure build                                                          *)

ShelvesetReasons == {"ValidateShelveset", "CheckInShelveset"}

Tfvc(e) ==
    [path |-> e.path,
     target |-> IF e.shelveset = Absent THEN [changeset |-> e.version]
                ELSE [shelveset |-> e.shelveset]]
Build(e) ==
    [id |-> e.build, reason |-> e.reason, provider |-> e.provider, version |-> e.version,
     branch |-> e.branch, shelveset |-> e.shelveset]

OfChangeset(target) == "changeset" \in DOMAIN target
BuildParses(b) == b.provider = "TfsVersionControl"

\* A changeset is built from the server path, a shelveset from itself.
TargetFitsBuild(tfvc, b) ==
    IF OfChangeset(tfvc.target)
    THEN /\ b.version = tfvc.target.changeset /\ b.shelveset = Absent
         /\ b.branch = tfvc.path /\ b.reason \notin ShelvesetReasons
    ELSE /\ b.shelveset = tfvc.target.shelveset /\ b.branch = tfvc.target.shelveset
         /\ b.reason \in ShelvesetReasons

AzureJob(e) ==
    /\ e.platform = "azure"
    /\ e.provider = "TfsVersionControl"
    /\ IF e.shelveset # Absent
       THEN e.reason \in ShelvesetReasons /\ e.branch = e.shelveset
       ELSE e.version # Absent /\ e.reason \notin ShelvesetReasons /\ e.branch = e.path

AzureArtifacts(docs) == [result |-> docs.result, report |-> docs.report]

AzurePublicationParses(p) ==
    /\ p.platform = "azure"
    /\ BuildParses(p.build)
    /\ Within(p.review.reviewed_at, p.created_at, PublicationWindow)
    /\ TargetFitsBuild(p.tfvc, p.build)

AzurePublication(docs, e, instant) ==
    [platform |-> "azure", created_at |-> Second(instant), review |-> ReviewBinding(docs.result),
     tfvc |-> Tfvc(e), build |-> Build(e), artifacts |-> AzureArtifacts(docs)]

AzurePublishes(docs, e, instant) ==
    /\ Absent \notin {docs.result, docs.report}
    /\ AzureJob(e)
    /\ ReportFits(docs.report, ReviewBinding(docs.result))
    /\ AzurePublicationParses(AzurePublication(docs, e, instant))

AzureVerifies(docs, e, instant) ==
    LET p == docs.publication
    IN  /\ Absent \notin {docs.result, docs.report, p}
        /\ AzurePublicationParses(p)
        /\ p.tfvc = Tfvc(e) /\ p.build = Build(e)
        /\ WithinForward(p.created_at, instant, PublicationAge)
        /\ Unchanged(docs, p.artifacts)
        /\ ReportFits(docs.report, ReviewBinding(docs.result))
        /\ p.review = ReviewBinding(docs.result)

AzureVerification(p, instant) ==
    [platform |-> "azure", verified_at |-> instant, age |-> instant - p.created_at,
     publication |-> p, review |-> p.review, tfvc |-> p.tfvc, build |-> p.build.id,
     artifacts |-> p.artifacts]

AzureVerificationParses(v) == 0 <= v.age /\ v.age <= 2 * PublicationAge

\* The build summary is rendered for a receipt that corresponds to the publication.
SummaryFits(p, v) ==
    /\ v.publication = p /\ v.review = p.review /\ v.tfvc = p.tfvc
    /\ v.build = p.build.id /\ v.artifacts = p.artifacts

---------------------------------------------------------------------------
(* The commands                                                            *)

Nothing ==
    [case |-> Absent, result |-> Absent, report |-> Absent, publication |-> Absent,
     verification |-> Absent, request |-> Absent, receipt |-> Absent]

Limit ==
    [job |-> MaxJobs, gate |-> MaxGates, publication |-> MaxPublications,
     verification |-> MaxVerifications, request |-> MaxRequests]

DocumentsInit ==
    /\ clock = 0
    /\ job \in Environments
    /\ \E case \in DOMAIN DocumentCase : files = [Nothing EXCEPT !.case = case]
    /\ request = Absent /\ posted = {}
    /\ spent = [command \in DOMAIN Limit |-> 0]

PassTime ==
    /\ clock < MaxClock
    /\ clock' = clock + 1
    /\ UNCHANGED <<job, files, request, posted, spent>>

Spend(command) ==
    /\ spent[command] < Limit[command]
    /\ spent' = [spent EXCEPT ![command] = @ + 1]

\* Commands run one at a time; a refused one writes nothing.
Command(command, written) ==
    /\ request = Absent
    /\ Spend(command)
    /\ files' = Updated(files, written)
    /\ UNCHANGED <<clock, job, posted>>

\* Another job of the platform takes over the workspace and checks its commit out;
\* a command that was running is killed.
NextJob(e, case) ==
    /\ e.platform = job.platform
    /\ Spend("job")
    /\ job' = e /\ request' = Absent
    /\ files' = [files EXCEPT !.case = case]
    /\ UNCHANGED <<clock, posted>>

\* The report is written before the result, and the gate may be killed in between.
RunGate(policy) ==
    /\ LET result == ReviewResult(files.case, policy, clock)
           report == ReviewBinding(result)
       IN  \/ Command("gate", [report |-> report, result |-> result])
           \/ Command("gate", [report |-> report])
    /\ UNCHANGED request

GitHubPublish ==
    /\ GitHubPublishes(files, job, clock)
    /\ Command("publication", [publication |-> GitHubPublication(files, job, clock)])
    /\ UNCHANGED request

AzurePublish ==
    /\ AzurePublishes(files, job, clock)
    /\ Command("publication", [publication |-> AzurePublication(files, job, clock)])
    /\ UNCHANGED request

GitHubVerify ==
    /\ GitHubJob(job) /\ GitHubVerifies(files, job, Second(clock))
    /\ Command("verification",
               [verification |-> GitHubVerification(files.publication, Second(clock))])
    /\ UNCHANGED request

AzureVerify ==
    /\ AzureJob(job) /\ AzureVerifies(files, job, Second(clock))
    /\ LET v == AzureVerification(files.publication, Second(clock))
       IN  /\ SummaryFits(files.publication, v) /\ AzureVerificationParses(v)
           /\ Command("verification", [verification |-> v])
    /\ UNCHANGED request

\* The request is written before it is posted.
CreateRequest(conditional) ==
    /\ CreatesRequest(files, job, conditional, clock)
    /\ Command("request", [request |-> CheckRequest(files, job, conditional, clock)])
    /\ request' = CheckRequest(files, job, conditional, clock)

\* GitHub may refuse the check, or accept it and the answer be lost; only an
\* answer that names the request is written.
PostRequest ==
    /\ request # Absent
    /\ request' = Absent
    /\ \/ /\ CanPost(request, clock)
          /\ posted' = posted \cup {[request |-> request, at |-> clock]}
          /\ files' \in {files, [files EXCEPT !.receipt = CheckReceipt(request, clock)]}
       \/ UNCHANGED <<posted, files>>
    /\ UNCHANGED <<clock, job, spent>>

DocumentsNext ==
    \/ PassTime
    \/ \E e \in Environments, case \in DOMAIN DocumentCase : NextJob(e, case)
    \/ \E policy \in DOMAIN DocumentPolicy : RunGate(policy)
    \/ GitHubPublish \/ GitHubVerify
    \/ AzurePublish \/ AzureVerify
    \/ \E conditional \in BOOLEAN : CreateRequest(conditional)
    \/ PostRequest

---------------------------------------------------------------------------
(* Properties                                                              *)

\* What a verification receipt says of the review its files hold.
Holds(v) ==
    LET artifacts == v.publication.artifacts
        result    == artifacts.result
    IN  /\ v.artifacts = artifacts
        /\ v.review = ReviewBinding(result) /\ artifacts.report = v.review
        /\ "case" \in DOMAIN artifacts => artifacts.case = result.case
        /\ result.decision = Decide(DocumentCase[result.case], DocumentPolicy[result.policy])
        /\ v.verified_at - result.reviewed_at <= 2 * (PublicationWindow + PublicationAge)

(* Whatever commands ran before it, in whichever job and over whichever    *)
(* files, a posted check is for the head, run and attempt of the job that  *)
(* published the review, says what the gate decided on the case and policy *)
(* of that review, and says it within the windows of all the steps; and an *)
(* Azure receipt holds of the build it names.  A receipt of a check that   *)
(* fits its request was given for a check GitHub has.  This is what the    *)
(* reproduction of the receipt is for (create_github_check_run_request).   *)
DeliveredReviewsHold ==
    /\ \A p \in posted :
           LET r   == p.request
               v   == r.verification
               made == v.publication.workflow
           IN  /\ Holds(v) /\ r.review = v.review
               /\ r.findings = v.artifacts.result.findings
               /\ r.head = v.publication.pull.head.sha /\ r.number = v.publication.pull.number
               /\ r.run = made.run /\ r.attempt = made.attempt
               /\ r.conclusion = "success" =>
                      \/ r.review.decision = "approve"
                      \/ r.review.decision = "conditional_pass" /\ r.conditional
               /\ p.at - r.review.reviewed_at <=
                      2 * (PublicationWindow + PublicationAge + RequestWindow + PostWindow) + 1
    /\ files.verification # Absent /\ files.verification.platform = "azure" =>
           /\ Holds(files.verification)
           /\ files.verification.build = files.verification.publication.build.id
    /\ files.receipt # Absent /\ ReceiptFits(files.request, files.receipt) =>
           \E p \in posted : p.request = files.request

\* The files one run of the gate left.
OfOneGate(docs) ==
    /\ Absent \notin {docs.case, docs.report, docs.result}
    /\ docs.report = ReviewBinding(docs.result) /\ docs.case = docs.result.case

(* A job whose environment is sound, that runs the commands in order on    *)
(* the files of one gate run and keeps within each window, is never        *)
(* refused: dates cut to the second, the parsers' checks of each other's   *)
(* documents and the decision made again from the findings agree with what *)
(* the commands before them wrote.                                         *)
PromptStepsAccepted ==
    OfOneGate(files) =>
        LET result       == files.result
            publication  == files.publication
            verification == files.verification
        IN  /\ clock - result.reviewed_at <= 2 * PublicationWindow =>
                   /\ GitHubJob(job) => GitHubPublishes(files, job, clock)
                   /\ AzureJob(job) => AzurePublishes(files, job, clock)
            /\ publication # Absent /\ clock - publication.created_at <= 2 * PublicationAge =>
                   /\ /\ GitHubJob(job)
                      /\ publication = GitHubPublication(files, job, publication.created_at)
                      => GitHubVerifies(files, job, Second(clock))
                   /\ /\ AzureJob(job)
                      /\ publication = AzurePublication(files, job, publication.created_at)
                      => AzureVerifies(files, job, Second(clock))
            /\ /\ verification # Absent /\ publication # Absent /\ GitHubJob(job)
               /\ publication = GitHubPublication(files, job, publication.created_at)
               /\ verification = GitHubVerification(publication, verification.verified_at)
               /\ clock - verification.verified_at <= 2 * RequestWindow
               => \A conditional \in BOOLEAN : CreatesRequest(files, job, conditional, clock)
            /\ request # Absent /\ ~request.fork /\ clock - request.created_at <= 2 * PostWindow =>
                   CanPost(request, clock)
=============================================================================
