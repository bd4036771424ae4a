------------------------- MODULE TrustedGeneration -------------------------
(***************************************************************************)
(* Adapters run in a child process with a deadline: a replay, an           *)
(* evaluation, or the generation of a case from a pull request's component *)
(* by a trusted adapter, whose caller then writes the evidence directory   *)
(* and puts the case in place.  The files the child reads may change under *)
(* it, any write may fail, and the caller may be killed between any two of *)
(* its steps and be started again in the same checkout.                    *)
(*                                                                         *)
(* A file's content is its version; a digest is that version.  A version   *)
(* that was replaced does not come back.  A killed process is gone.  One   *)
(* call runs at a time, as the steps of a job do.                          *)
(***************************************************************************)
EXTENDS Records, Naturals, Sequences, SequencesExt, FiniteSetsExt

CONSTANTS
    Outputs,          \* the output directories a job may name
    Jobs,             \* what the Action's step is asked for and finds
    OutcomeLists,     \* what a replay or an evaluation adapter may return
    MaxCases, MaxCost,
    MaxVersion, MaxCrashes

ASSUME GenerationAssumption ==
    /\ MaxCases \in Nat \ {0} /\ {MaxCost, MaxVersion, MaxCrashes} \subseteq Nat
    /\ \A j \in Jobs : {j.selected, j.generator, j.fork, j.base, j.head} \subseteq BOOLEAN

VARIABLES
    sources,   \* the versions of the component and of the adapter directory on disk
    call,      \* the caller
    child,     \* its process
    pipe,      \* the message the child sent, if it is still there
    folders,   \* per output directory: the evidence in it, if it exists
    placed,    \* the configured case, if it exists
    crashes

generationVars == <<sources, call, child, pipe, folders, placed, crashes>>

---------------------------------------------------------------------------
(* What a child answers                                                    *)

Costs(outcomes) == MapThenSumSet(LAMBDA i : outcomes[i].cost, DOMAIN outcomes)

\* The checks run in this order, inside the child.
OutcomeVerdict(outcomes) ==
    IF outcomes = <<>> THEN "protocol"
    ELSE IF Len(outcomes) > MaxCases THEN "budget"
    ELSE IF ~IsInjective([i \in DOMAIN outcomes |-> outcomes[i].id]) THEN "protocol"
    ELSE IF Costs(outcomes) > MaxCost THEN "budget"
    ELSE "ok"

\* What a generator may come up with, and what the child says of it.
Generated ==
    [bound |-> "ok", unbound |-> "ok", indented |-> "ok", untyped |-> "protocol",
     large |-> "budget", raises |-> "execution"]

---------------------------------------------------------------------------
(* The caller before its child                                             *)

NoCall == [phase |-> "idle", mode |-> "none", output |-> "none", component |-> 0, adapter |-> 0,
           late |-> FALSE, written |-> 0, exit |-> "none"]
NoChild == [phase |-> "none", ran |-> 0, entry |-> 0, data |-> 0, says |-> "none", made |-> "none"]

GenerationInit ==
    /\ sources = [component |-> 0, adapter |-> 0]
    /\ call = NoCall /\ child = NoChild /\ pipe = <<>>
    /\ folders = [o \in Outputs |-> {}] /\ placed = {} /\ crashes = 0

Step(change) == call' = Updated(call, change)
End(exit) == Step([phase |-> "done", exit |-> exit])

Edit(file) ==
    /\ sources[file] < MaxVersion
    /\ sources' = [sources EXCEPT ![file] = @ + 1]
    /\ UNCHANGED <<call, child, pipe, folders, placed, crashes>>

\* The Action's step: only a same-repository pull request whose two checkouts
\* are at its base and head reaches the generator.
Route(job) ==
    IF ~job.selected THEN "no_match"
    ELSE IF ~job.generator THEN "existing_case"
    ELSE IF job.fork \/ ~job.base \/ ~job.head THEN "refused"
    ELSE "generate"

StartStep(job, output) ==
    /\ call.phase \in {"idle", "done"}
    /\ call' = IF Route(job) = "generate"
               THEN [NoCall EXCEPT !.phase = "hash component", !.mode = "case", !.output = output]
               ELSE [NoCall EXCEPT !.phase = "done", !.exit = Route(job)]
    /\ child' = NoChild /\ pipe' = <<>>
    /\ UNCHANGED <<sources, folders, placed, crashes>>

\* A replay or an evaluation has nothing to hash and refuses too many references.
StartReplay(mode, references) ==
    /\ call.phase \in {"idle", "done"}
    /\ call' = IF references > MaxCases
               THEN [NoCall EXCEPT !.phase = "done", !.mode = mode, !.exit = "budget"]
               ELSE [NoCall EXCEPT !.phase = "spawn", !.mode = mode]
    /\ child' = NoChild /\ pipe' = <<>>
    /\ UNCHANGED <<sources, folders, placed, crashes>>

HashComponent ==
    /\ call.phase = "hash component"
    /\ Step([phase |-> "hash adapter", component |-> sources.component])
    /\ UNCHANGED <<sources, child, pipe, folders, placed, crashes>>

\* Both destinations must be new.
HashAdapter ==
    /\ call.phase = "hash adapter"
    /\ IF folders[call.output] = {} /\ placed = {}
       THEN Step([phase |-> "spawn", adapter |-> sources.adapter])
       ELSE End("refused")
    /\ UNCHANGED <<sources, child, pipe, folders, placed, crashes>>

Spawn ==
    /\ call.phase = "spawn"
    /\ \/ Step([phase |-> "poll"]) /\ child' = [NoChild EXCEPT !.phase = "started"]
       \/ End("execution") /\ UNCHANGED child
    /\ UNCHANGED <<sources, pipe, folders, placed, crashes>>

---------------------------------------------------------------------------
(* The child                                                               *)

Running == {"started", "imported", "read", "answered", "sent"}

Import ==
    /\ call.mode = "case" /\ child.phase = "started"
    /\ child' = [child EXCEPT !.phase = "imported", !.ran = sources.adapter]
    /\ UNCHANGED <<sources, call, pipe, folders, placed, crashes>>

\* The module is read for its digest after it was imported.
ReadModule ==
    /\ child.phase = "imported"
    /\ child' = [child EXCEPT !.phase = "read", !.entry = sources.adapter]
    /\ UNCHANGED <<sources, call, pipe, folders, placed, crashes>>

\* The generator runs on the component it finds; then the module is read again.
Generate(made) ==
    /\ child.phase = "read"
    /\ child' = [child EXCEPT !.phase = "answered", !.data = sources.component, !.made = made,
                              !.says = IF Generated[made] = "ok" /\ sources.adapter # child.entry
                                       THEN "execution" ELSE Generated[made]]
    /\ UNCHANGED <<sources, call, pipe, folders, placed, crashes>>

RunAdapter(outcomes) ==
    /\ call.mode # "case" /\ child.phase = "started"
    /\ child' = [child EXCEPT !.phase = "answered", !.says = OutcomeVerdict(outcomes)]
    /\ UNCHANGED <<sources, call, pipe, folders, placed, crashes>>

Send ==
    /\ child.phase = "answered"
    /\ child' = [child EXCEPT !.phase = "sent"]
    /\ pipe' = << child.says >>
    /\ UNCHANGED <<sources, call, folders, placed, crashes>>

\* It ends, after its answer or without one.
Exit ==
    /\ child.phase \in Running
    /\ child' = [child EXCEPT !.phase = "gone"]
    /\ UNCHANGED <<sources, call, pipe, folders, placed, crashes>>

---------------------------------------------------------------------------
(* The caller waits                                                        *)

Stopped == child' = IF child.phase \in Running THEN [child EXCEPT !.phase = "stopped"] ELSE child

Deadline ==
    /\ call.phase \in {"poll", "join"} /\ ~call.late
    /\ Step([late |-> TRUE])
    /\ UNCHANGED <<sources, child, pipe, folders, placed, crashes>>

\* The message, or the end of a pipe nobody writes to any more.
Receive ==
    /\ call.phase = "poll"
    /\ pipe # <<>> \/ child.phase = "gone"
    /\ pipe' = <<>>
    /\ IF pipe # <<>> THEN Step([phase |-> "join"]) /\ UNCHANGED child
                      ELSE End("execution") /\ Stopped
    /\ UNCHANGED <<sources, folders, placed, crashes>>

PollTimesOut ==
    /\ call.phase = "poll" /\ call.late /\ pipe = <<>>
    /\ End("timeout") /\ Stopped
    /\ UNCHANGED <<sources, pipe, folders, placed, crashes>>

\* The time left is the child's to end in, whatever it has answered.
JoinTimesOut ==
    /\ call.phase = "join" /\ call.late /\ child.phase \in Running
    /\ End("timeout") /\ Stopped
    /\ UNCHANGED <<sources, pipe, folders, placed, crashes>>

TakeAnswer ==
    /\ call.phase = "join"
    /\ IF child.says = "ok" /\ call.mode = "case" THEN Step([phase |-> "recheck component"])
       ELSE End(child.says)
    /\ UNCHANGED <<sources, child, pipe, folders, placed, crashes>>

Joined ==
    /\ child.phase = "gone"
    /\ TakeAnswer

---------------------------------------------------------------------------
(* The caller with its answer                                              *)

RecheckComponent ==
    /\ call.phase = "recheck component"
    /\ IF sources.component = call.component THEN Step([phase |-> "recheck adapter"])
       ELSE End("changed")
    /\ UNCHANGED <<sources, child, pipe, folders, placed, crashes>>

\* Variant: the adapter directory is not looked at again.
RecheckOnlyComponent ==
    /\ call.phase = "recheck adapter"
    /\ Step([phase |-> "judge"])
    /\ UNCHANGED <<sources, child, pipe, folders, placed, crashes>>

RecheckAdapter ==
    /\ call.phase = "recheck adapter"
    /\ IF sources.adapter = call.adapter THEN Step([phase |-> "judge"]) ELSE End("changed")
    /\ UNCHANGED <<sources, child, pipe, folders, placed, crashes>>

\* The case must name this head and component and fit its limit when indented,
\* and the policy must load.
Judge ==
    /\ call.phase = "judge"
    /\ \/ /\ child.made = "bound"
          /\ Step([phase |-> "write"])
          /\ folders' = [folders EXCEPT ![call.output] = {[files |-> 0, case |-> child.data]}]
       \/ End("failed") /\ UNCHANGED folders
    /\ UNCHANGED <<sources, child, pipe, placed, crashes>>

\* The case, the result, the report, the receipt and a guide to them.
EvidenceFiles == 5

Receipt == [component |-> call.component, adapter |-> call.adapter, entry |-> child.entry]

WriteFile ==
    /\ call.phase = "write" /\ call.written < EvidenceFiles
    /\ \/ /\ Step([written |-> call.written + 1])
          /\ folders' = [folders EXCEPT ![call.output] =
                           {[files |-> call.written + 1, case |-> child.data]}]
       \/ Step([phase |-> "clean folder"]) /\ UNCHANGED folders
    /\ UNCHANGED <<sources, child, pipe, placed, crashes>>

\* Variant: the case is put in place right after its copy among the evidence.
PlaceCaseFirst ==
    /\ call.phase = "write" /\ call.written \in {1, EvidenceFiles}
    /\ \/ /\ placed' = {[case |-> child.data, ran |-> child.ran, receipt |-> Receipt]}
          /\ IF call.written = 1 THEN Step([written |-> 2]) ELSE End("ok")
       \/ Step([phase |-> "clean folder"]) /\ UNCHANGED placed
    /\ UNCHANGED <<sources, child, pipe, folders, crashes>>

\* What the case in place came from is kept beside what its receipt says.
PlaceCase ==
    /\ call.phase = "write" /\ call.written = EvidenceFiles
    /\ \/ /\ placed' = {[case |-> child.data, ran |-> child.ran, receipt |-> Receipt]}
          /\ End("ok")
       \/ Step([phase |-> "clean folder"]) /\ UNCHANGED placed
    /\ UNCHANGED <<sources, child, pipe, folders, crashes>>

\* A directory that cannot be removed stays, without a word.
CleanFolder ==
    /\ call.phase = "clean folder"
    /\ \/ folders' = [folders EXCEPT ![call.output] = {}]
       \/ UNCHANGED folders
    /\ placed' = {}
    /\ End("failed")
    /\ UNCHANGED <<sources, child, pipe, crashes>>

Kill ==
    /\ call.phase \notin {"idle", "done"} /\ crashes < MaxCrashes
    /\ crashes' = crashes + 1
    /\ End("killed")
    /\ UNCHANGED <<sources, child, pipe, folders, placed>>

GenerationNext ==
    \/ \E f \in {"component", "adapter"} : Edit(f)
    \/ \E j \in Jobs, o \in Outputs : StartStep(j, o)
    \/ \E m \in {"replay", "evaluation"}, n \in {1, MaxCases + 1} : StartReplay(m, n)
    \/ HashComponent \/ HashAdapter \/ Spawn
    \/ Import \/ ReadModule \/ Send \/ Exit
    \/ \E made \in DOMAIN Generated : Generate(made)
    \/ \E outcomes \in OutcomeLists : RunAdapter(outcomes)
    \/ Deadline \/ Receive \/ PollTimesOut \/ JoinTimesOut \/ Joined
    \/ RecheckComponent \/ RecheckAdapter \/ Judge
    \/ WriteFile \/ PlaceCase \/ CleanFolder \/ Kill

---------------------------------------------------------------------------
(* Properties                                                              *)

\* The configured case was made from the component its receipt names, by the
\* adapter directory and the entry module its receipt names, although either
\* may change while the child imports, reads and runs, and the entry module's
\* digest is taken after its import.
ReceiptNamesWhatRan ==
    \A p \in placed : /\ p.receipt.component = p.case
                      /\ p.receipt.adapter = p.ran
                      /\ p.receipt.entry = p.ran

\* Wherever a caller was killed and whichever write failed, a configured case
\* has its whole evidence beside it in some output directory.
CaseComesLast ==
    \A p \in placed : \E o \in Outputs : [files |-> EvidenceFiles, case |-> p.case] \in folders[o]

\* A call that was not killed leaves no child behind, and a good answer comes
\* from a child that ended by itself.
ChildEndsWithCall ==
    call.phase = "done" /\ call.exit # "killed" =>
        /\ child.phase \notin Running
        /\ call.exit = "ok" => child.phase = "gone"
=============================================================================
