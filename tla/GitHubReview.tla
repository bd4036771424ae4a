--------------------------- MODULE GitHubReview ---------------------------
(***************************************************************************)
(* The GitHub Action: a workflow run on a pull request finds the changed   *)
(* files through the API, selects the configured component, reviews its    *)
(* case and publishes a check on the head it was triggered for.  Between   *)
(* any two API calls the pull request may move; a POST may be lost,        *)
(* refused or arrive after the client gave up; a run may be cancelled and  *)
(* re-run under the event of its first attempt.                            *)
(*                                                                         *)
(* GitHub is external: a pull request is its base and head commits, a      *)
(* commit is its tree, and the files of a pull request are those its head  *)
(* changed since it left the base branch.  A head that was replaced does   *)
(* not come back (a force-push to an earlier commit is not modelled).      *)
(***************************************************************************)
EXTENDS GateDecision, Records, SequencesExt

CONSTANTS
    None,
    Bases, Heads,   \* commits of the base branch and of the pull request's branch
    Commit,         \* what a commit holds: its policies by path and its case; a head its changed files too
    Patterns,       \* the files each configured component matches
    Expected,       \* the component each configured component expects its case to name
    DefaultPolicy,  \* the gate policy of a run that names none
    Settings,       \* what a workflow asks of the Action
    PullFilesPerPage, MaxPullFiles,
    Runs, MaxAttempts

ASSUME GitHubAssumption ==
    /\ None \notin Nat /\ Bases \cap Heads = {}
    /\ IsFiniteSet(DOMAIN Patterns)
    /\ \A h \in Heads : Commit[h].files \in Seq(Range(Commit[h].files))
    /\ PullFilesPerPage \in Nat \ {0} /\ MaxPullFiles \in Nat /\ MaxAttempts \in Nat \ {0}
    /\ \A s \in Settings : /\ s.mode \in {"configured", "explicit"}
                           /\ s.checkout \in {"head", "merge"}
                           /\ s.publish \in {"auto", "required", "disabled"}
                           /\ {s.fork, s.dependabot, s.token, s.conditional, s.reuse} \subseteq BOOLEAN

VARIABLES
    pull,       \* the pull request as the API shows it
    pushed,     \* every base and head it ever had
    runs,       \* the workflow runs
    posts,      \* check requests on their way to GitHub
    checks,     \* the checks GitHub has
    replies     \* 201 answers on their way back

githubVars == <<pull, pushed, runs, posts, checks, replies>>

---------------------------------------------------------------------------
(* Trees and files                                                         *)

Files(head) == Commit[head].files

\* The paths of a changed file: a rename has two.
Names(file) == {file.path, file.previous} \ {None}
AllNames(files) == UNION {Names(file) : file \in Range(files)}

ConfigPath == "config"
CasePath == "case"
PolicyPath(s) == IF s.override # None THEN s.override ELSE "policy"

\* What a head left alone is what it was on the base branch where the head left it.
ASSUME TreesAssumption ==
    \A h \in Heads : \E b \in Bases :
        /\ CasePath \notin AllNames(Files(h)) => Commit[h].case = Commit[b].case
        /\ \A s \in Settings :
              PolicyPath(s) \notin AllNames(Files(h)) =>
                  Commit[h].policies[PolicyPath(s)] = Commit[b].policies[PolicyPath(s)]

\* Automatic selection distrusts these when the pull request changes them.
Governance(s) == {ConfigPath, "policy", PolicyPath(s)}

Matched(files) == {c \in DOMAIN Patterns : AllNames(files) \cap Patterns[c] # {}}

\* A merge checkout takes from the base what the pull request leaves alone.
CheckedOut(s, event, path) ==
    IF s.checkout = "merge" /\ path \notin AllNames(Files(event.head))
    THEN Commit[event.base] ELSE Commit[event.head]

CaseIn(s, event) == CheckedOut(s, event, CasePath).case

PolicyIn(s, event) ==
    IF s.mode = "explicit" /\ s.override = None THEN DefaultPolicy
    ELSE CheckedOut(s, event, PolicyPath(s)).policies[PolicyPath(s)]

Conclusion(decision, conditional) ==
    IF decision = "approve" \/ (decision = "conditional_pass" /\ conditional) THEN "success"
    ELSE IF decision = "reject" THEN "failure"
    ELSE "action_required"

Review(s, event) == Decide(CaseIn(s, event), PolicyIn(s, event))

Favourable(s, decision) ==
    decision = "approve" \/ (decision = "conditional_pass" /\ s.conditional)

---------------------------------------------------------------------------
(* The pull request                                                        *)

Idle == [phase |-> "idle", attempt |-> 1, event |-> None, setting |-> None, files |-> <<>>,
         count |-> 0, decision |-> None, wrote |-> FALSE, exit |-> None, status |-> None]

GitHubInit ==
    /\ \E b \in Bases, h \in Heads : pull = [base |-> b, head |-> h] /\ pushed = {b, h}
    /\ runs = [r \in Runs |-> Idle]
    /\ posts = {} /\ checks = {} /\ replies = {}

Push(h) ==
    /\ h \in Heads \ pushed
    /\ pull' = [pull EXCEPT !.head = h]
    /\ pushed' = pushed \cup {h}
    /\ UNCHANGED <<runs, posts, checks, replies>>

MoveBase(b) ==
    /\ b \in Bases \ pushed
    /\ pull' = [pull EXCEPT !.base = b]
    /\ pushed' = pushed \cup {b}
    /\ UNCHANGED <<runs, posts, checks, replies>>

---------------------------------------------------------------------------
(* A run                                                                   *)

Advance(r, change) ==
    /\ runs' = [runs EXCEPT ![r] = Updated(@, change)]
    /\ UNCHANGED <<pull, pushed, posts, checks, replies>>

Finished(exit, status) == [phase |-> "done", exit |-> exit, status |-> status]

\* Every error of the Action, of any call it makes, ends the process with 2.
Failed == Finished(2, "error")

\* Explicit inputs skip discovery; automatic selection needs the token for it.
Started(s) ==
    IF s.mode = "explicit" THEN [phase |-> "gate"]
    ELSE IF s.token THEN [phase |-> "discover"]
    ELSE Failed

Trigger(r, s) ==
    /\ runs[r].phase = "idle"
    /\ Advance(r, Updated([runs[r] EXCEPT !.event = pull, !.setting = s], Started(s)))

\* A re-run keeps the event; a self-hosted runner may keep the workspace too.
Rerun(r) ==
    /\ runs[r].phase = "done" /\ runs[r].attempt < MaxAttempts
    /\ Advance(r, Updated([Idle EXCEPT !.attempt = runs[r].attempt + 1,
                                       !.event = runs[r].event,
                                       !.setting = runs[r].setting,
                                       !.wrote = runs[r].wrote /\ runs[r].setting.reuse],
                          Started(runs[r].setting)))

\* The pull request still has the base and head of the event.
SameSnapshot(r) == pull = runs[r].event /\ Len(Files(pull.head)) <= MaxPullFiles

ReadPull(r) ==
    /\ runs[r].phase = "discover"
    /\ LET count == Len(Files(pull.head))
       IN  Advance(r, IF ~SameSnapshot(r) THEN Failed
                      ELSE [phase |-> IF count = 0 THEN "recheck" ELSE "pages",
                            count |-> count])

AtMostFiles(m, n) == IF m <= n THEN m ELSE n

ReadFilePage(r) ==
    /\ runs[r].phase = "pages"
    /\ LET have    == runs[r].files
           current == Files(pull.head)
           page    == SubSeq(current, Len(have) + 1,
                             AtMostFiles(Len(current), Len(have) + PullFilesPerPage))
           files   == have \o page
       IN  Advance(r, IF Len(page) # AtMostFiles(PullFilesPerPage, runs[r].count - Len(have))
                      THEN Failed
                      ELSE [files |-> files,
                            phase |-> IF Len(files) < runs[r].count THEN "pages" ELSE "recheck"])

\* Mutant: what was read is believed when as many files came as were announced.
DiscoveredUnchecked(r) == Len(runs[r].files) = runs[r].count

Discovered(r) ==
    /\ SameSnapshot(r)
    /\ Len(Files(pull.head)) = runs[r].count
    /\ \A i, j \in DOMAIN runs[r].files : runs[r].files[i].path = runs[r].files[j].path => i = j

RecheckPull(r) ==
    /\ runs[r].phase = "recheck"
    /\ Advance(r, IF Discovered(r) THEN [phase |-> "gate"] ELSE Failed)

\* The API answers with an error, times out or sends something malformed.
ApiFails(r) ==
    /\ runs[r].phase \in {"discover", "pages", "recheck"}
    /\ Advance(r, Failed)

---------------------------------------------------------------------------
(* Selection, review and the request, all of it on the checkout            *)

Select(s, event, files) ==
    LET matched == Matched(files)
    IN  IF s.mode = "explicit" THEN "reviewed"
        ELSE IF AllNames(files) \cap {ConfigPath, "policy"} # {} THEN "error"
        ELSE IF matched = {} THEN "no_match"
        ELSE IF Cardinality(matched) > 1 THEN "error"
        ELSE IF \E c \in matched : Expected[c] # CaseIn(s, event).component THEN "error"
        ELSE IF PolicyPath(s) \in AllNames(files) THEN "error"
        ELSE "reviewed"

\* A dependabot run never publishes on its own account.
Mode(s) == IF s.dependabot /\ s.publish = "auto" THEN "disabled" ELSE s.publish

ShouldPublish(s) == Mode(s) = "required" \/ (Mode(s) = "auto" /\ ~s.fork)

ExitFor(s, decision) == IF Favourable(s, decision) THEN 0 ELSE 1

Request(r, decision) ==
    [run |-> r, attempt |-> runs[r].attempt, head |-> runs[r].event.head,
     conclusion |-> Conclusion(decision, runs[r].setting.conditional)]

\* Nothing configured was changed, or the change cannot be reviewed.
Skip(r) ==
    /\ runs[r].phase = "gate"
    /\ LET s == runs[r].setting
           selected == Select(s, runs[r].event, runs[r].files)
       IN  \/ selected = "no_match" /\ Advance(r, Finished(0, "not_applicable"))
           \/ selected = "error" /\ Advance(r, Failed)
           \/ selected = "reviewed" /\ runs[r].wrote /\ Advance(r, Failed)

Gate(r) ==
    /\ runs[r].phase = "gate" /\ ~runs[r].wrote
    /\ LET s == runs[r].setting
           decision == Review(s, runs[r].event)
           written == [runs[r] EXCEPT !.decision = decision, !.wrote = TRUE]
       IN  /\ Select(s, runs[r].event, runs[r].files) = "reviewed"
           /\ IF (Mode(s) = "required" /\ s.fork) \/ (ShouldPublish(s) /\ ~s.token)
              THEN Advance(r, Updated(written, Failed))
              ELSE IF ~ShouldPublish(s)
              THEN Advance(r, Updated(written, Finished(ExitFor(s, decision),
                     IF s.fork /\ Mode(s) = "auto" THEN "fork_skipped" ELSE "disabled")))
              ELSE /\ posts' = posts \cup {Request(r, decision)}
                   /\ runs' = [runs EXCEPT ![r] = [written EXCEPT !.phase = "sent"]]
                   /\ UNCHANGED <<pull, pushed, checks, replies>>

---------------------------------------------------------------------------
(* The check                                                               *)

CreateCheck(post) ==
    /\ post \in posts
    /\ posts' = posts \ {post}
    /\ checks' = checks \cup {post}
    /\ replies' = replies \cup {post}
    /\ UNCHANGED <<pull, pushed, runs>>

LosePost(post) ==
    /\ post \in posts
    /\ posts' = posts \ {post}
    /\ UNCHANGED <<pull, pushed, runs, checks, replies>>

\* Mutant: a request that went out counts as answered.
AnsweredWhenGone(r) == Request(r, runs[r].decision) \notin posts

\* The answer must name the head, conclusion and external id that were sent.
Answered(r) == \E reply \in replies : reply = Request(r, runs[r].decision)

ReceiveReply(r) ==
    /\ runs[r].phase = "sent"
    /\ Answered(r)
    /\ runs' = [runs EXCEPT ![r] =
                  Updated(@, Finished(ExitFor(runs[r].setting, runs[r].decision), "published"))]
    /\ replies' = replies \ {Request(r, runs[r].decision)}
    /\ UNCHANGED <<pull, pushed, posts, checks>>

\* The request is refused, or no acceptable answer comes in time; GitHub may
\* process it all the same.
PublishFails(r) ==
    /\ runs[r].phase = "sent"
    /\ Advance(r, Failed)

\* The job's timeout or a cancellation kills the process.
Cancel(r) ==
    /\ runs[r].phase \notin {"idle", "done"}
    /\ Advance(r, Finished(None, "cancelled"))

GitHubNext ==
    \/ \E h \in Heads : Push(h)
    \/ \E b \in Bases : MoveBase(b)
    \/ \E r \in Runs, s \in Settings : Trigger(r, s)
    \/ \E r \in Runs :
         \/ Rerun(r) \/ Cancel(r) \/ ReadPull(r) \/ ReadFilePage(r) \/ RecheckPull(r)
         \/ ApiFails(r) \/ Skip(r) \/ Gate(r) \/ ReceiveReply(r) \/ PublishFails(r)
    \/ \E post \in posts : CreateCheck(post) \/ LosePost(post)

---------------------------------------------------------------------------
(* Properties                                                              *)

\* The case of a head whose unchanged files are those of a base commit.
CaseOver(head, b) ==
    IF CasePath \in AllNames(Files(head)) THEN Commit[head].case ELSE Commit[b].case

(* A check is on the head its run was triggered for.  Of an automatic run, *)
(* it stands only where the pull request really changes exactly one        *)
(* component and none of its governance, and one commit of the base branch *)
(* accounts for its conclusion: it gives the policy, and the case as well  *)
(* unless the head brings its own.  This holds whatever moved while the    *)
(* files were being discovered, for a checkout of the head or the merge.   *)
ChecksMatchTheirCommit ==
    \A c \in checks :
        LET s     == runs[c.run].setting
            files == Files(c.head)
        IN  /\ c.head = runs[c.run].event.head
            /\ s.mode = "configured" =>
                 /\ Cardinality(Matched(files)) = 1
                 /\ AllNames(files) \cap Governance(s) = {}
                 /\ \E b \in Bases :
                      c.conclusion = Conclusion(Decide(CaseOver(c.head, b),
                                                       Commit[b].policies[PolicyPath(s)]),
                                                s.conditional)

(* How a run ends tells the truth about the pull request it was triggered  *)
(* for: success means its review was favourable or it changes nothing that *)
(* is configured, "published" means GitHub has the check of this attempt,  *)
(* and an attempt that says it published nothing has none; no attempt has  *)
(* two.                                                                    *)
ExitsTellTheTruth ==
    /\ \A r \in Runs :
         LET run == runs[r]
             own == {c \in checks : c.run = r /\ c.attempt = run.attempt}
         IN  run.phase = "done" =>
               /\ run.status = "published" =>
                    \E c \in own : (c.conclusion = "success") <=> (run.exit = 0)
               /\ run.status \in {"not_applicable", "disabled", "fork_skipped"} => own = {}
               /\ run.exit = 0 =>
                    IF run.status = "not_applicable"
                    THEN Matched(Files(run.event.head)) = {}
                    ELSE Favourable(run.setting, Review(run.setting, run.event))
    /\ \A c, d \in checks : c.run = d.run /\ c.attempt = d.attempt => c = d
=============================================================================
