-------------------------- MODULE LocalWorkspaces --------------------------
(***************************************************************************)
(* The folders the command line keeps for one project: its configuration   *)
(* (onboarding.py), the investigations made from trace exports             *)
(* (investigation_workspace.py) and the cases made from them               *)
(* (case_creation.py).  Commands of one agenda run as processes of their   *)
(* own, at once; writes fail, commands are killed, and a person removes    *)
(* folders and copies documents from one to another.                       *)
(*                                                                         *)
(* Each file is replaced atomically.  A trace manifest or a fixture is     *)
(* kept as what it was made from, which is also its digest: ManifestAt and *)
(* FixtureAt give what it says.  A folder is a path of names; a path holds *)
(* at most one, as a set.                                                  *)
(***************************************************************************)
EXTENDS TraceEvidence

CONSTANTS
    Agendas,       \* [project, holds, commands]: the folders there are and what will be run
    Requests,      \* what investigations ask for
    Ids,           \* identifiers of investigations and cases
    Answers,       \* per case identifier: what is answered to the questions of a guided case
    CasePolicy,    \* per name: a policy; "preset" is the one built in
    MaxRetention, MaxFaults, MaxHands

ASSUME WorkspaceAssumption ==
    /\ MaxRetention \in Nat \ {0} /\ {MaxFaults, MaxHands} \subseteq Nat
    /\ {r.id : r \in Requests} \subseteq Ids /\ DOMAIN Answers \subseteq Ids
    /\ {r.export : r \in Requests} \subseteq DOMAIN Export
    /\ "cases" \notin Ids   \* that investigation would share its folder with the cases
    /\ "preset" \in DOMAIN CasePolicy

VARIABLES
    tree,      \* per path: the files of the folder there, if there is one
    agenda,    \* the commands of this behaviour
    at,        \* per command: where it is and what it holds
    reports,   \* the folders whose commands reported success
    faults, hands

workspaceVars == <<tree, agenda, at, reports, faults, hands>>

---------------------------------------------------------------------------
(* Paths                                                                   *)

Project == <<"project">>
Standalone == {<<"causure-investigation">>, <<"causure-investigation-2">>}
Paths == {Project} \cup Standalone \cup {<<"project", id>> : id \in Ids}
           \cup {<<"project", "cases", id>> : id \in Ids} \cup {<<"causure-cases", id>> : id \in Ids}

Under(path, folder) == \A i \in DOMAIN folder : i \in DOMAIN path /\ path[i] = folder[i]
NoFiles == [name \in {} |-> Absent]

\* Directories above a path are made as needed; of those only the project's matters.
WithParents(path) ==
    [p \in Paths |-> IF p = Project /\ Under(path, p) /\ tree[p] = {} THEN {NoFiles} ELSE tree[p]]

\* A write makes the directories it needs, the folder itself included.
Put(path, name, content) ==
    LET old == IF tree[path] = {} THEN NoFiles ELSE CHOOSE files \in tree[path] : TRUE
    IN  tree' = [WithParents(path) EXCEPT ![path] =
                    {[n \in DOMAIN old \cup {name} |-> IF n = name THEN content ELSE old[n]]}]

Has(path, name) == \E files \in tree[path] : name \in DOMAIN files
Read(path, name) == (CHOOSE files \in tree[path] : TRUE)[name]

Removed(path) == tree' = [p \in Paths |-> IF Under(p, path) THEN {} ELSE tree[p]]

---------------------------------------------------------------------------
(* The project configuration                                               *)

FirstConfiguration == [retention |-> 1, components |-> <<>>, adapters |-> <<>>]

FieldsDiffer(seq, Field(_)) == IsInjective([i \in DOMAIN seq |-> Field(seq[i])])

AdaptersParse(adapters) == FieldsDiffer(adapters, LAMBDA a : a.id)

ComponentsParse(components) ==
    /\ FieldsDiffer(components, LAMBDA c : c.id)
    /\ FieldsDiffer(components, LAMBDA c : c.case)
    /\ \A i \in DOMAIN components :
           /\ components[i].paths # {}
           /\ \A j \in 1 .. i - 1 : components[i].paths \cap components[j].paths = {}

ConfigurationParses(c) ==
    /\ c.retention \in 1 .. MaxRetention
    /\ AdaptersParse(c.adapters) /\ ComponentsParse(c.components)
    /\ \A component \in ToSet(c.components) :
          component.generator # Absent =>
             \E a \in ToSet(c.adapters) : a.id = component.generator /\ a.kind = "case_generator"

\* github-configure adds a component, adapter-configure an adapter that may
\* become the generator of a component without one.
WithComponent(c, change) ==
    [c EXCEPT !.components = Append(@, change.component),
              !.retention = IF change.retention = Absent THEN @ ELSE change.retention]

BindsTo(change, component) == change.binds # Absent /\ component.id = change.binds

WithAdapter(c, change) ==
    [c EXCEPT !.adapters = Append(@, change.adapter),
              !.components = [i \in DOMAIN @ |->
                  IF BindsTo(change, @[i]) THEN [@[i] EXCEPT !.generator = change.adapter.id]
                  ELSE @[i]]]

AdapterFits(c, change) ==
    change.binds # Absent =>
       /\ change.adapter.kind = "case_generator"
       /\ \E component \in ToSet(c.components) :
             BindsTo(change, component) /\ component.generator = Absent

---------------------------------------------------------------------------
(* The guided case: nothing is in it that was not answered                 *)

Yes(trials) == Cardinality({i \in DOMAIN trials : trials[i]})

\* A hypothesis is answered with its trials, one yes or no each.
GuidedHypotheses(hypotheses) ==
    [i \in DOMAIN hypotheses |->
        [component |-> hypotheses[i].component, confidence |-> hypotheses[i].confidence,
         intervention |->
            IF hypotheses[i].intervention = Absent THEN Absent
            ELSE LET trials == hypotheses[i].intervention.trials
                 IN  [isolated |-> hypotheses[i].intervention.isolated,
                      trials |-> Len(trials), resolved |-> Yes(trials)]]]

\* The component of the first hypothesis is proposed, "other" without one.
GuidedComponent(answers) ==
    IF answers.component # Absent THEN answers.component
    ELSE IF answers.hypotheses = <<>> THEN "other" ELSE answers.hypotheses[1].component

\* Baseline and candidate measure the same fields, or nothing is written.
MetricsFit(answers) == DOMAIN answers.baseline = DOMAIN answers.candidate

Measured(answers, field) ==
    IF field \notin DOMAIN answers.baseline THEN [baseline |-> Absent, candidate |-> Absent]
    ELSE [baseline |-> answers.baseline[field], candidate |-> answers.candidate[field]]

GuidedMetrics(answers) ==
    IF DOMAIN answers.baseline = {} THEN Absent
    ELSE [cost |-> Measured(answers, "cost"), latency |-> Measured(answers, "latency")]

GuidedCase(answers) ==
    [requirement |-> answers.requirement, oracleIndependent |-> answers.independent,
     trials |-> Len(answers.reproductions), reproduced |-> Yes(answers.reproductions),
     hypotheses |-> GuidedHypotheses(answers.hypotheses),
     component |-> GuidedComponent(answers), surfaces |-> answers.surfaces,
     evidenceAgainstNull |-> answers.against, controls |-> answers.controls,
     metrics |-> GuidedMetrics(answers)]

---------------------------------------------------------------------------
(* The documents of an investigation and of a case                         *)

ManifestKey(r) == [export |-> r.export, artifact |-> r.artifact]
FixtureKey(r) == [manifest |-> ManifestKey(r), id |-> r.id]

ManifestAt ==
    [key \in {ManifestKey(r) : r \in {q \in Requests : Collects(q.export, q.maxSpans)}} |->
        CollectManifest(key.export, key.artifact)]
FixtureAt ==
    [key \in {FixtureKey(r) : r \in {q \in Requests :
                  /\ ManifestKey(q) \in DOMAIN ManifestAt
                  /\ GeneratesFixture(ManifestAt[ManifestKey(q)], q.maxClusters)}} |->
        GenerateFixture(ManifestAt[key.manifest], key.manifest, key.id)]

\* A fixture is read back before it is rendered.
Prepares(r) ==
    /\ Collects(r.export, r.maxSpans)
    /\ GeneratesFixture(ManifestAt[ManifestKey(r)], r.maxClusters)
    /\ FixtureParses(FixtureAt[FixtureKey(r)])

ClusterIds(f) == [i \in DOMAIN f.clusters |-> f.clusters[i].trace]

\* A selection is of one-based positions and cluster identifiers; none is all.
Means(token, f, i) == token \in {[position |-> i], [cluster |-> f.clusters[i].trace]}

Chosen(f, select) ==
    {i \in DOMAIN f.clusters :
        select # {} => \E token \in select : Means(token, f, i)}

SelectionFits(f, select) ==
    \A token \in select : \E i \in DOMAIN f.clusters : Means(token, f, i)

Selected(f, select) == Picked(ClusterIds(f), Chosen(f, select))

\* It can be written: it prepares, and its selection is of clusters there are.
Investigates(r) == Prepares(r) /\ SelectionFits(FixtureAt[FixtureKey(r)], r.select)

Selection(r) ==
    [manifest |-> ManifestKey(r), fixture |-> FixtureKey(r),
     ids |-> Selected(FixtureAt[FixtureKey(r)], r.select),
     artifact |-> r.artifact, sha256 |-> r.export]

\* In the order they are written; the notes and guides are one text.
InvestigationFiles(r) ==
    << <<"manifest", ManifestKey(r)>>, <<"fixture", FixtureKey(r)>>,
       <<"selection", Selection(r)>>, <<"notes", Absent>>, <<"readme", Absent>> >>

ProjectFiles ==
    << <<"configuration", FirstConfiguration>>, <<"policy", "preset">>, <<"gitignore", Absent>>,
       <<"adapters", Absent>>, <<"readme", Absent>> >>

SelectedClusters(f, ids) ==
    Picked(f.clusters, {i \in DOMAIN f.clusters : f.clusters[i].trace \in ToSet(ids)})

\* The case is bound to its bytes, to the selection's, and to the clusters selected.
CaseFiles(evidence, id, policy) ==
    LET clusters == SelectedClusters(FixtureAt[evidence.fixture], evidence.selection.ids)
        case == [id |-> id, refs |-> [i \in DOMAIN clusters |-> clusters[i].ref]]
    IN  << <<"case", case>>,
           <<"result", [policy |-> policy, decision |-> Decide(GuidedCase(Answers[id]), CasePolicy[policy])]>>,
           <<"report", Absent>>,
           <<"source", [case |-> case, fixture |-> evidence.fixture.id,
                        ids |-> [i \in DOMAIN clusters |-> clusters[i].trace],
                        selection |-> evidence.selection]>>,
           <<"readme", Absent>> >>

Folder(files) == [name \in {f[1] : f \in ToSet(files)} |->
                     (CHOOSE f \in ToSet(files) : f[1] = name)[2]]

---------------------------------------------------------------------------
(* Reading an investigation                                                *)

SourcesAgree(evidence) ==
    LET m == ManifestAt[evidence.manifest]
        f == FixtureAt[evidence.fixture]
        s == evidence.selection
        clusters == SelectedClusters(f, s.ids)
    IN  /\ ManifestParses(m) /\ FixtureParses(f)
        /\ s.artifact = m.source.artifact /\ s.sha256 = m.source.sha256
        /\ f.source.manifest = evidence.manifest
        /\ \A field \in DOMAIN m.source : f.source[field] = m.source[field]
        /\ s.ids # <<>> /\ [i \in DOMAIN clusters |-> clusters[i].trace] = s.ids

\* The digests the selection names come first.
Verified(evidence) ==
    /\ evidence.manifest = evidence.selection.manifest
    /\ evidence.fixture = evidence.selection.fixture
    /\ SourcesAgree(evidence)

---------------------------------------------------------------------------
(* Commands                                                                *)

Asked(i) == agenda.commands[i]
Go(i, state) == at' = [at EXCEPT ![i] = state]
Done(i) == Go(i, [phase |-> "done"])
Make(path, files) == [phase |-> "make", path |-> path, files |-> files]
Writing == {i \in DOMAIN at : at[i].phase \in {"write", "clean"}}

\* The folders there are at first were made by commands, and no investigation
\* is put in the place of the project's own folder.
ASSUME AgendaAssumption ==
    /\ \A r \in Requests : r.output \in (Paths \ {Project}) \cup {Absent}
    /\ \A a \in Agendas :
          /\ \A path \in DOMAIN a.holds :
                /\ a.holds[path] \in Requests /\ Investigates(a.holds[path])
                /\ Under(path, Project) => a.project
          /\ \A command \in ToSet(a.commands) :
                /\ command.do = "investigate" => command.request \in Requests
                /\ command.do = "case" => command.from \in Paths /\ command.id \in DOMAIN Answers

WorkspaceInit ==
    /\ agenda \in Agendas
    /\ tree = [p \in Paths |->
                 IF p = Project THEN IF agenda.project THEN {Folder(ProjectFiles)} ELSE {}
                 ELSE IF p \in DOMAIN agenda.holds
                      THEN {Folder(InvestigationFiles(agenda.holds[p]))} ELSE {}]
    /\ reports = UNION {{[path |-> p, files |-> files, exposed |-> FALSE] : files \in tree[p]} :
                          p \in Paths}
    /\ at = [i \in DOMAIN agenda.commands |->
                IF agenda.commands[i].do = "init" THEN Make(Project, ProjectFiles)
                ELSE [phase |-> "waiting"]]
    /\ faults = 0 /\ hands = 0

\* The exclusive mkdir of a command that writes a folder.  "exposed" says that
\* the folder is made inside a project whose own command is still writing, or
\* where a command still writes whose folder was cleaned up with such a project.
MakesFolder(i) ==
    /\ tree' = [WithParents(at[i].path) EXCEPT ![at[i].path] = {NoFiles}]
    /\ Go(i, [phase |-> "write", path |-> at[i].path, files |-> at[i].files, next |-> 1,
              exposed |-> \E j \in Writing : at[j].path \in {Project, at[i].path}])

\* Variant: a folder that is there will do.
MakeFolderAnyway(i) ==
    /\ at[i].phase = "make"
    /\ IF tree[at[i].path] = {} THEN MakesFolder(i)
       ELSE /\ Go(i, [phase |-> "write", path |-> at[i].path, files |-> at[i].files, next |-> 1,
                      exposed |-> FALSE])
            /\ UNCHANGED tree
    /\ UNCHANGED <<agenda, reports, faults, hands>>

MakeFolder(i) ==
    /\ at[i].phase = "make"
    /\ IF tree[at[i].path] = {} THEN MakesFolder(i) ELSE Done(i) /\ UNCHANGED tree
    /\ UNCHANGED <<agenda, reports, faults, hands>>

WriteDocument(i) ==
    /\ at[i].phase = "write"
    /\ LET file == at[i].files[at[i].next]
       IN  Put(at[i].path, file[1], file[2])
    /\ IF at[i].next < Len(at[i].files)
       THEN Go(i, [at[i] EXCEPT !.next = @ + 1]) /\ UNCHANGED reports
       ELSE /\ Done(i)
            /\ reports' = reports \cup {[path |-> at[i].path, files |-> Folder(at[i].files),
                                         exposed |-> at[i].exposed]}
    /\ UNCHANGED <<agenda, faults, hands>>

WriteFails(i) ==
    /\ at[i].phase = "write" /\ faults < MaxFaults
    /\ faults' = faults + 1
    /\ Go(i, [phase |-> "clean", path |-> at[i].path])
    /\ UNCHANGED <<tree, agenda, reports, hands>>

\* A folder that cannot be removed stays, without a word.
RemoveUnfinished(i) ==
    /\ at[i].phase = "clean"
    /\ Removed(at[i].path) \/ UNCHANGED tree
    /\ Done(i)
    /\ UNCHANGED <<agenda, reports, faults, hands>>

\* Collected, clustered, rendered and selected from in memory; then an output is chosen.
Prepare(i) ==
    /\ Asked(i).do = "investigate" /\ at[i].phase = "waiting"
    /\ LET r == Asked(i).request
           default == IF Has(Project, "configuration") THEN <<"project", r.id>>
                      ELSE <<"causure-investigation">>
       IN  IF Investigates(r)
           THEN Go(i, Make(IF r.output = Absent THEN default ELSE r.output, InvestigationFiles(r)))
           ELSE Done(i)
    /\ UNCHANGED <<tree, agenda, reports, faults, hands>>

ReadSelection(i) ==
    /\ Asked(i).do = "case" /\ at[i].phase = "waiting"
    /\ IF Has(Asked(i).from, "selection")
       THEN Go(i, [phase |-> "manifest", selection |-> Read(Asked(i).from, "selection")])
       ELSE Done(i)
    /\ UNCHANGED <<tree, agenda, reports, faults, hands>>

ReadManifest(i) ==
    /\ at[i].phase = "manifest"
    /\ IF Has(Asked(i).from, "manifest")
       THEN Go(i, [phase |-> "fixture", selection |-> at[i].selection,
                   manifest |-> Read(Asked(i).from, "manifest")])
       ELSE Done(i)
    /\ UNCHANGED <<tree, agenda, reports, faults, hands>>

\* The last file is read, and everything is compared; an investigation among a
\* configured project's artifacts belongs to the project.
ReadFixture(i) ==
    /\ at[i].phase = "fixture"
    /\ IF Has(Asked(i).from, "fixture")
       THEN LET evidence == [selection |-> at[i].selection, manifest |-> at[i].manifest,
                             fixture |-> Read(Asked(i).from, "fixture")]
            IN  IF Verified(evidence)
                THEN Go(i, [phase |-> "answers", evidence |-> evidence,
                            project |-> Under(Asked(i).from, Project)
                                          /\ Has(Project, "configuration")])
                ELSE Done(i)
       ELSE Done(i)
    /\ UNCHANGED <<tree, agenda, reports, faults, hands>>

\* The questions take their time; output and policy are found after them.
Answer(i) ==
    /\ at[i].phase = "answers"
    /\ LET c == Asked(i)
           ready == /\ Has(Project, "configuration")
                    /\ c.policy = Absent => Has(Project, "policy")
           policy == IF c.policy # Absent THEN c.policy
                     ELSE IF at[i].project THEN Read(Project, "policy") ELSE "preset"
       IN  IF ~MetricsFit(Answers[c.id]) \/ (at[i].project /\ ~ready) THEN Done(i)
           ELSE Go(i, Make(IF at[i].project THEN <<"project", "cases", c.id>>
                           ELSE <<"causure-cases", c.id>>, CaseFiles(at[i].evidence, c.id, policy)))
    /\ UNCHANGED <<tree, agenda, reports, faults, hands>>

\* Both configuring commands read, change, check and replace the whole document.
Reconfigured(command, c) ==
    IF command.do = "component" THEN WithComponent(c, command) ELSE WithAdapter(c, command)

Reconfigures(command, c) ==
    /\ command.do = "adapter" => AdapterFits(c, command)
    /\ ConfigurationParses(Reconfigured(command, c))

ReadConfiguration(i) ==
    /\ Asked(i).do \in {"component", "adapter"} /\ at[i].phase = "waiting"
    /\ IF Has(Project, "configuration") /\ Reconfigures(Asked(i), Read(Project, "configuration"))
       THEN Go(i, [phase |-> "configure",
                   configuration |-> Reconfigured(Asked(i), Read(Project, "configuration"))])
       ELSE Done(i)
    /\ UNCHANGED <<tree, agenda, reports, faults, hands>>

WriteConfiguration(i) ==
    /\ at[i].phase = "configure"
    /\ Put(Project, "configuration", at[i].configuration)
    /\ Done(i)
    /\ UNCHANGED <<agenda, reports, faults, hands>>

KillCommand(i) ==
    /\ at[i].phase \notin {"waiting", "done"} /\ faults < MaxFaults
    /\ faults' = faults + 1
    /\ Done(i)
    /\ UNCHANGED <<tree, agenda, reports, hands>>

---------------------------------------------------------------------------
(* A person at the same files                                              *)

Handled(path) ==
    /\ hands < MaxHands /\ hands' = hands + 1
    /\ tree[path] # {}
    /\ \A i \in Writing : ~Under(at[i].path, path)
    /\ reports' = {r \in reports : ~Under(r.path, path)}
    /\ UNCHANGED <<agenda, at, faults>>

RemoveByHand(path) == Handled(path) /\ Removed(path)

CopyByHand(from, to, name) ==
    /\ Has(from, name) /\ Has(to, name) /\ Read(from, name) # Read(to, name)
    /\ Handled(to)
    /\ Put(to, name, Read(from, name))

WorkspaceNext ==
    \/ \E i \in DOMAIN at :
          \/ MakeFolder(i) \/ WriteDocument(i) \/ WriteFails(i) \/ RemoveUnfinished(i)
          \/ Prepare(i) \/ ReadSelection(i) \/ ReadManifest(i) \/ ReadFixture(i) \/ Answer(i)
          \/ ReadConfiguration(i) \/ WriteConfiguration(i) \/ KillCommand(i)
    \/ \E path \in Paths : RemoveByHand(path)
    \/ \E from, to \in Paths, name \in {"selection", "manifest", "fixture"} :
          CopyByHand(from, to, name)

---------------------------------------------------------------------------
(* Properties                                                              *)

\* A case a command reported names evidence that belongs together, although
\* its investigation may be removed, replaced or mixed with another while its
\* files are read and its questions answered: the references are those of the
\* selected traces of one export, in order, and the selection whose bytes the
\* case is bound to names that export and the fixture the case was made from.
CasesNameTheirEvidence ==
    \A r \in reports : "source" \in DOMAIN r.files =>
        LET source == r.files["source"]
            chosen == source.selection
            traces == {TraceHash[span.trace] : span \in ToSet(Export[chosen.sha256])}
        IN  /\ source.case = r.files["case"]
            /\ source.ids = chosen.ids /\ source.ids # <<>> /\ ToSet(source.ids) \subseteq traces
            /\ \A n \in 1 .. Len(source.ids) - 1 : source.ids[n] < source.ids[n + 1]
            /\ source.case.refs = [n \in DOMAIN source.ids |->
                                     [source |-> chosen.sha256, trace |-> source.ids[n]]]
            /\ chosen.fixture = [manifest |-> [export |-> chosen.sha256, artifact |-> chosen.artifact],
                                 id |-> source.fixture]

\* A folder whose command reported success is whole and stays as it was
\* written, whatever other commands make, fail, clean up or are killed in: an
\* investigation is one its reader accepts, and the configuration, which alone
\* is replaced, always parses.  Folders made inside a project whose own command
\* was still writing are left out, for its clean-up removes them, and so are
\* those made in the place of one removed so: its command goes on writing there.
FinishedFoldersStand ==
    \A r \in reports : r.exposed \/
        \E files \in tree[r.path] :
           /\ DOMAIN files = DOMAIN r.files
           /\ \A name \in DOMAIN files \ {"configuration"} : files[name] = r.files[name]
           /\ "configuration" \in DOMAIN files => ConfigurationParses(files["configuration"])
           /\ "selection" \in DOMAIN files =>
                 Verified([selection |-> files["selection"], manifest |-> files["manifest"],
                           fixture |-> files["fixture"]])
=============================================================================
