---------------------------- MODULE ReviewProofs ----------------------------
(***************************************************************************)
(* Proofs about the stages of ReviewDelivery, for every value of their     *)
(* constants.  A stage's variables change only in its own steps, so each   *)
(* theorem rests on an invariant of the variables of one stage.            *)
(***************************************************************************)
EXTENDS ReviewDelivery, FiniteSetTheorems, FunctionTheorems, SequenceTheorems,
        WellFoundedInduction, TLAPS

-----------------------------------------------------------------------------
(* Generated cases                                                         *)

CallFields == DOMAIN NoCall
ChildFields == DOMAIN NoChild

\* Where a caller is before it has a child, and after its child answered well.
BeforeChild == {"idle", "hash component", "hash adapter", "spawn"}
Writes == {"judge", "write", "clean folder"}
AfterChild == {"recheck component", "recheck adapter"} \cup Writes

SourcesTyped ==
  DOMAIN sources = {"component", "adapter"} /\ sources.component \in Nat /\ sources.adapter \in Nat

CallTyped ==
  /\ DOMAIN call = CallFields
  /\ call.phase \in BeforeChild \cup {"poll", "join", "done"} \cup AfterChild
  /\ call.component \in Nat /\ call.adapter \in Nat
  /\ call.mode = "case" => call.output \in Outputs

ChildTyped ==
  /\ DOMAIN child = ChildFields
  /\ child.ran \in Nat /\ child.entry \in Nat /\ child.data \in Nat
  /\ child.says # "killed"

GenerationTyped ==
  SourcesTyped /\ CallTyped /\ ChildTyped /\ DOMAIN folders = Outputs

\* What the child read lies between what was there when the caller took its digests and
\* what is there now.
ChainHeld ==
  /\ call.component <= sources.component /\ call.adapter <= sources.adapter
  /\ call.mode = "case" =>
       /\ child.phase \in {"imported", "read", "answered", "sent"} =>
            call.adapter <= child.ran /\ child.ran <= sources.adapter
       /\ child.phase \in {"read", "answered", "sent"} =>
            child.ran <= child.entry /\ child.entry <= sources.adapter
       /\ child.says = "ok" =>
            /\ call.adapter <= child.ran /\ child.ran <= child.entry
            /\ child.entry <= sources.adapter
            /\ call.component <= child.data /\ child.data <= sources.component

\* What the caller knows at each place.
CallHeld ==
  /\ call.phase \in BeforeChild => child.phase = "none" /\ child.says = "none"
  /\ child.phase \in {"started", "imported", "read"} => child.says = "none"
  /\ call.phase \in AfterChild => call.mode = "case" /\ child.phase = "gone" /\ child.says = "ok"
  /\ call.phase \in {"recheck adapter"} \cup Writes => child.data = call.component
  /\ call.phase \in Writes => child.ran = call.adapter /\ child.entry = call.adapter
  /\ child.phase \in Running => call.phase \in {"poll", "join"} \/ call.exit = "killed"
  /\ call.exit = "killed" => call.phase = "done"
  /\ call.exit = "ok" => call.phase = "done" /\ child.phase = "gone"

\* The case is put in place by a call that found none and wrote all of its evidence.
FoldersHeld ==
  /\ call.phase \notin {"write", "clean folder", "done"} => call.written = 0
  /\ call.phase \in {"spawn", "poll", "join"} \cup AfterChild /\ call.mode = "case" => placed = {}
  /\ call.phase = "write" => folders[call.output] = {[files |-> call.written, case |-> child.data]}

GenerationInv ==
  /\ GenerationTyped /\ ChainHeld /\ CallHeld /\ FoldersHeld
  /\ ReceiptNamesWhatRan /\ CaseComesLast

\* A call that goes on to another phase.
LEMMA PhaseGoes ==
  ASSUME DOMAIN call = CallFields, NEW phase, Step([phase |-> phase])
  PROVE  /\ DOMAIN call' = CallFields /\ call'.phase = phase
         /\ call'.mode = call.mode /\ call'.output = call.output /\ call'.written = call.written
         /\ call'.component = call.component /\ call'.adapter = call.adapter
         /\ call'.exit = call.exit
BY DEF Step, Updated, CallFields, NoCall

\* A call that ends.
LEMMA CallEnds ==
  ASSUME DOMAIN call = CallFields, NEW exit, End(exit)
  PROVE  /\ DOMAIN call' = CallFields /\ call'.phase = "done"
         /\ call'.mode = call.mode /\ call'.output = call.output /\ call'.written = call.written
         /\ call'.component = call.component /\ call'.adapter = call.adapter
         /\ call'.exit = exit
BY DEF End, Step, Updated, CallFields, NoCall

\* A call that ends leaves no child behind and touches neither the evidence nor the case.
LEMMA EndKeeps ==
  ASSUME GenerationInv, NEW exit, exit # "killed", End(exit),
         sources' = sources, folders' = folders, placed' = placed,
         \/ child' = child /\ child.phase \notin Running
         \/ Stopped /\ exit # "ok",
         exit = "ok" => child.phase = "gone"
  PROVE  GenerationInv'
<1>1. /\ DOMAIN call' = CallFields /\ call'.phase = "done"
      /\ call'.mode = call.mode /\ call'.output = call.output /\ call'.written = call.written
      /\ call'.component = call.component /\ call'.adapter = call.adapter
      /\ call'.exit = exit
  BY CallEnds DEF GenerationInv, GenerationTyped, CallTyped
<1>2. DOMAIN child = {"phase", "ran", "entry", "data", "says", "made"}
  BY DEF GenerationInv, GenerationTyped, ChildTyped, ChildFields, NoChild
<1>3. /\ DOMAIN child' = ChildFields /\ child'.phase \notin Running
      /\ child'.ran = child.ran /\ child'.entry = child.entry /\ child'.data = child.data
      /\ child'.says = child.says /\ (exit = "ok" => child'.phase = "gone")
  BY <1>2 DEF Stopped, Running, ChildFields, NoChild
<1>4. CallTyped'
  BY <1>1, <1>3
     DEF GenerationInv, GenerationTyped, CallTyped, BeforeChild, AfterChild, Writes
<1>5. SourcesTyped' /\ ChildTyped' /\ DOMAIN folders' = Outputs
  BY <1>1, <1>3
     DEF GenerationInv, GenerationTyped, SourcesTyped, ChildTyped
<1>6. ChainHeld'
  BY <1>1, <1>3
     DEF GenerationInv, GenerationTyped, SourcesTyped, CallTyped, ChildTyped, ChainHeld,
         CallHeld, BeforeChild, AfterChild, Writes, Running
<1>7. CallHeld'
  BY <1>1, <1>3
     DEF GenerationInv, CallHeld, BeforeChild, AfterChild, Writes, Running
<1>8. FoldersHeld'
  BY <1>1, <1>3
     DEF GenerationInv, CallHeld, FoldersHeld, BeforeChild, AfterChild, Writes
<1>9. ReceiptNamesWhatRan' /\ CaseComesLast'
  BY <1>1, <1>3
     DEF GenerationInv, ReceiptNamesWhatRan, CaseComesLast
<1> QED
  BY <1>4, <1>5, <1>6, <1>7, <1>8, <1>9 DEF GenerationInv, GenerationTyped

\* Files only get newer.
LEMMA EditKeeps ==
  ASSUME GenerationInv, NEW f \in {"component", "adapter"}, Edit(f)
  PROVE  GenerationInv'
<1>1. /\ DOMAIN sources' = {"component", "adapter"}
      /\ sources.component <= sources'.component /\ sources'.component \in Nat
      /\ sources.adapter <= sources'.adapter /\ sources'.adapter \in Nat
  BY DEF Edit, GenerationInv, GenerationTyped, SourcesTyped
<1>2. call' = call /\ child' = child /\ folders' = folders /\ placed' = placed
  BY DEF Edit
<1>3. CallTyped'
  BY <1>1, <1>2
     DEF GenerationInv, GenerationTyped, CallTyped, BeforeChild, AfterChild, Writes
<1>4. SourcesTyped' /\ ChildTyped' /\ DOMAIN folders' = Outputs
  BY <1>1, <1>2
     DEF GenerationInv, GenerationTyped, SourcesTyped, ChildTyped
<1>5. ChainHeld'
  BY <1>1, <1>2
     DEF GenerationInv, GenerationTyped, SourcesTyped, CallTyped, ChildTyped, ChainHeld
<1>6. CallHeld'
  BY <1>1, <1>2
     DEF GenerationInv, CallHeld, BeforeChild, AfterChild, Writes, Running
<1>7. FoldersHeld'
  BY <1>1, <1>2
     DEF GenerationInv, CallHeld, FoldersHeld, BeforeChild, AfterChild, Writes
<1>8. ReceiptNamesWhatRan' /\ CaseComesLast'
  BY <1>1, <1>2
     DEF GenerationInv, ReceiptNamesWhatRan, CaseComesLast
<1> QED
  BY <1>3, <1>4, <1>5, <1>6, <1>7, <1>8 DEF GenerationInv, GenerationTyped

\* A call begins with a clean sheet.
LEMMA StartsClean ==
  ASSUME \/ \E j \in Jobs, o \in Outputs : StartStep(j, o)
         \/ \E m \in {"replay", "evaluation"}, n \in {1, MaxCases + 1} : StartReplay(m, n)
  PROVE  /\ DOMAIN call' = CallFields
         /\ call'.component = 0 /\ call'.adapter = 0 /\ call'.written = 0
         /\ call'.phase \in {"hash component", "spawn", "done"}
         /\ call'.exit \notin {"ok", "killed"}
         /\ call'.phase = "spawn" => call'.mode # "case"
         /\ call'.mode = "case" => call'.output \in Outputs
         /\ child' = NoChild /\ sources' = sources /\ folders' = folders /\ placed' = placed
<1>1. ASSUME NEW j \in Jobs, NEW o \in Outputs, StartStep(j, o)
      PROVE  /\ DOMAIN call' = CallFields
             /\ call'.component = 0 /\ call'.adapter = 0 /\ call'.written = 0
             /\ call'.phase \in {"hash component", "spawn", "done"}
             /\ call'.exit \notin {"ok", "killed"}
             /\ call'.phase = "spawn" => call'.mode # "case"
             /\ call'.mode = "case" => call'.output \in Outputs
  <2>1. Route(j) \in {"no_match", "existing_case", "refused", "generate"}
    BY DEF Route
  <2>2. CASE Route(j) = "generate"
    BY <1>1, <2>2 DEF StartStep, NoCall, CallFields
  <2>3. CASE Route(j) # "generate"
    BY <1>1, <2>1, <2>3 DEF StartStep, NoCall, CallFields
  <2> QED
    BY <2>2, <2>3
<1>2. ASSUME NEW m \in {"replay", "evaluation"}, NEW n, StartReplay(m, n)
      PROVE  /\ DOMAIN call' = CallFields
             /\ call'.component = 0 /\ call'.adapter = 0 /\ call'.written = 0
             /\ call'.phase \in {"hash component", "spawn", "done"}
             /\ call'.exit \notin {"ok", "killed"}
             /\ call'.phase = "spawn" => call'.mode # "case"
             /\ call'.mode = "case" => call'.output \in Outputs
  <2>1. CASE n > MaxCases
    BY <1>2, <2>1 DEF StartReplay, NoCall, CallFields
  <2>2. CASE ~(n > MaxCases)
    BY <1>2, <2>2 DEF StartReplay, NoCall, CallFields
  <2> QED
    BY <2>1, <2>2
<1>3. child' = NoChild /\ sources' = sources /\ folders' = folders /\ placed' = placed
  BY DEF StartStep, StartReplay
<1> QED
  BY <1>1, <1>2, <1>3

\* A call that starts names a mode and an output and has nothing of an earlier one.
LEMMA StartKeeps ==
  ASSUME GenerationInv,
         \/ \E j \in Jobs, o \in Outputs : StartStep(j, o)
         \/ \E m \in {"replay", "evaluation"}, n \in {1, MaxCases + 1} : StartReplay(m, n)
  PROVE  GenerationInv'
<1>1. /\ DOMAIN call' = CallFields
      /\ call'.component = 0 /\ call'.adapter = 0 /\ call'.written = 0
      /\ call'.phase \in {"hash component", "spawn", "done"}
      /\ call'.exit \notin {"ok", "killed"}
      /\ call'.phase = "spawn" => call'.mode # "case"
      /\ call'.mode = "case" => call'.output \in Outputs
      /\ child' = NoChild /\ sources' = sources /\ folders' = folders /\ placed' = placed
  BY StartsClean
<1>2. /\ DOMAIN child' = ChildFields /\ child'.phase = "none" /\ child'.says = "none"
      /\ child'.ran = 0 /\ child'.entry = 0 /\ child'.data = 0
  BY <1>1 DEF ChildFields, NoChild
<1>3. sources.component \in Nat /\ sources.adapter \in Nat
  BY DEF GenerationInv, GenerationTyped, SourcesTyped
<1>4. call'.component = 0 /\ call'.adapter = 0 /\ sources' = sources
  BY <1>1
<1>5. call'.component <= sources'.component /\ call'.adapter <= sources'.adapter
  BY <1>3, <1>4
<1>6. /\ DOMAIN call' = CallFields /\ call'.phase \in BeforeChild \cup {"done"}
      /\ call'.mode = "case" => call'.output \in Outputs
  BY <1>1 DEF BeforeChild
<1>7. call'.component \in Nat /\ call'.adapter \in Nat
  BY <1>4
<1>8. SourcesTyped' /\ ChildTyped'
  BY <1>2, <1>4 DEF GenerationInv, GenerationTyped, SourcesTyped, ChildTyped
<1>9. CallTyped'
  BY <1>6, <1>7
     DEF GenerationInv, CallTyped
<1>10. SourcesTyped' /\ ChildTyped' /\ DOMAIN folders' = Outputs
  BY <1>1, <1>8
     DEF GenerationInv, GenerationTyped
<1>11. ChainHeld'
  BY <1>2, <1>5
     DEF GenerationInv, ChainHeld
<1>12. CallHeld'
  BY <1>1, <1>2
     DEF GenerationInv, CallHeld, BeforeChild, AfterChild, Writes, Running
<1>13. FoldersHeld'
  BY <1>1, <1>2
     DEF GenerationInv, CallHeld, FoldersHeld, BeforeChild, AfterChild, Writes
<1>14. ReceiptNamesWhatRan' /\ CaseComesLast'
  BY <1>1, <1>2
     DEF GenerationInv, ReceiptNamesWhatRan, CaseComesLast
<1> QED
  BY <1>9, <1>10, <1>11, <1>12, <1>13, <1>14 DEF GenerationInv, GenerationTyped

\* The digests before the child, and the child's start.
LEMMA HashKeeps ==
  ASSUME GenerationInv, HashComponent \/ HashAdapter \/ Spawn
  PROVE  GenerationInv'
<1>1. DOMAIN call = CallFields /\ sources' = sources /\ folders' = folders /\ placed' = placed
  BY DEF GenerationInv, GenerationTyped, CallTyped, HashComponent, HashAdapter, Spawn
<1>2. /\ call.phase \in BeforeChild /\ child.phase = "none" /\ child.says = "none"
      /\ call.written = 0 /\ call.exit \notin {"ok", "killed"}
  BY DEF GenerationInv, CallHeld, FoldersHeld, HashComponent, HashAdapter, Spawn, BeforeChild
<1>3. CASE HashComponent
  <2>1. PICK v : v = sources.component
    OBVIOUS
  <2>2. Step([phase |-> "hash adapter", component |-> v]) /\ child' = child
    BY <1>3, <2>1 DEF HashComponent
  <2>3. /\ DOMAIN call' = CallFields /\ call'.phase = "hash adapter" /\ call'.component = v
        /\ call'.mode = call.mode /\ call'.output = call.output /\ call'.written = call.written
        /\ call'.adapter = call.adapter /\ call'.exit = call.exit
    BY <1>1, <2>2 DEF Step, Updated, CallFields, NoCall
  <2>4. /\ sources.component \in Nat /\ v = sources.component /\ v <= sources.component
        /\ call.adapter <= sources.adapter
    BY <2>1 DEF GenerationInv, GenerationTyped, SourcesTyped, ChainHeld
  <2>5. CallTyped'
    BY <1>1, <2>1, <2>3
       DEF GenerationInv, GenerationTyped, SourcesTyped, CallTyped, BeforeChild
  <2>6. SourcesTyped' /\ ChildTyped' /\ DOMAIN folders' = Outputs
    BY <1>1, <1>2, <2>1, <2>2, <2>3
       DEF GenerationInv, GenerationTyped, SourcesTyped, ChildTyped
  <2>7. ChainHeld'
    BY <1>1, <1>2, <2>4, <2>2, <2>3
       DEF GenerationInv, ChainHeld
  <2>8. CallHeld'
    BY <1>1, <1>2, <2>1, <2>2, <2>3
       DEF GenerationInv, CallHeld, BeforeChild, AfterChild, Writes, Running
  <2>9. FoldersHeld'
    BY <1>1, <1>2, <2>1, <2>2, <2>3
       DEF GenerationInv, CallHeld, FoldersHeld, BeforeChild, AfterChild, Writes
  <2>10. ReceiptNamesWhatRan' /\ CaseComesLast'
    BY <1>1, <1>2, <2>1, <2>2, <2>3
       DEF GenerationInv, ReceiptNamesWhatRan, CaseComesLast
  <2> QED
    BY <2>5, <2>6, <2>7, <2>8, <2>9, <2>10 DEF GenerationInv, GenerationTyped
<1>4. CASE HashAdapter
  <2>1. PICK v : v = sources.adapter
    OBVIOUS
  <2>2. \/ Step([phase |-> "spawn", adapter |-> v]) /\ placed = {} /\ child' = child
        \/ End("refused") /\ child' = child
    BY <1>4, <2>1 DEF HashAdapter
  <2>3. CASE Step([phase |-> "spawn", adapter |-> v]) /\ placed = {} /\ child' = child
    <3>1. /\ DOMAIN call' = CallFields /\ call'.phase = "spawn" /\ call'.adapter = v
          /\ call'.mode = call.mode /\ call'.output = call.output /\ call'.written = call.written
          /\ call'.component = call.component /\ call'.exit = call.exit
      BY <1>1, <2>3 DEF Step, Updated, CallFields, NoCall
    <3>2. CallTyped'
      BY <1>1, <2>1, <3>1
         DEF GenerationInv, GenerationTyped, SourcesTyped, CallTyped, BeforeChild
    <3>3. SourcesTyped' /\ ChildTyped' /\ DOMAIN folders' = Outputs
      BY <1>1, <1>2, <2>1, <2>3, <3>1
         DEF GenerationInv, GenerationTyped, SourcesTyped, ChildTyped
    <3>4. ChainHeld'
      BY <1>1, <1>2, <2>1, <2>3, <3>1
         DEF GenerationInv, GenerationTyped, SourcesTyped, ChainHeld
    <3>5. CallHeld'
      BY <1>1, <1>2, <2>1, <2>3, <3>1
         DEF GenerationInv, CallHeld, BeforeChild, AfterChild, Writes, Running
    <3>6. FoldersHeld'
      BY <1>1, <1>2, <2>1, <2>3, <3>1
         DEF GenerationInv, CallHeld, FoldersHeld, BeforeChild, AfterChild, Writes
    <3>7. ReceiptNamesWhatRan' /\ CaseComesLast'
      BY <1>1, <1>2, <2>1, <2>3, <3>1
         DEF GenerationInv, ReceiptNamesWhatRan, CaseComesLast
    <3> QED
      BY <3>2, <3>3, <3>4, <3>5, <3>6, <3>7 DEF GenerationInv, GenerationTyped
  <2>4. CASE End("refused") /\ child' = child
    BY <1>1, <1>2, <2>4, EndKeeps DEF Running
  <2> QED
    BY <2>2, <2>3, <2>4
<1>5. CASE Spawn
  <2>1. CASE Step([phase |-> "poll"]) /\ child' = [NoChild EXCEPT !.phase = "started"]
    <3>1. /\ DOMAIN call' = CallFields /\ call'.phase = "poll"
          /\ call'.mode = call.mode /\ call'.output = call.output /\ call'.written = call.written
          /\ call'.component = call.component /\ call'.adapter = call.adapter
          /\ call'.exit = call.exit
      BY <1>1, <2>1, PhaseGoes
    <3>2. /\ DOMAIN child' = ChildFields /\ child'.phase = "started" /\ child'.says = "none"
          /\ child'.ran = 0 /\ child'.entry = 0 /\ child'.data = 0
      BY <2>1 DEF ChildFields, NoChild
    <3>3. call.mode = "case" => placed = {}
      BY <1>5 DEF GenerationInv, FoldersHeld, Spawn
    <3>4. CallTyped'
      BY <1>1, <1>2, <3>1, <3>2, <3>3
         DEF GenerationInv, GenerationTyped, CallTyped, BeforeChild, AfterChild, Writes
    <3>5. SourcesTyped' /\ ChildTyped' /\ DOMAIN folders' = Outputs
      BY <1>1, <1>2, <3>1, <3>2, <3>3
         DEF GenerationInv, GenerationTyped, SourcesTyped, ChildTyped
    <3>6. ChainHeld'
      BY <1>1, <1>2, <3>1, <3>2, <3>3
         DEF GenerationInv, GenerationTyped, SourcesTyped, CallTyped, ChildTyped, ChainHeld,
             CallHeld, BeforeChild, AfterChild, Writes, Running
    <3>7. CallHeld'
      BY <1>1, <1>2, <3>1, <3>2, <3>3
         DEF GenerationInv, CallHeld, BeforeChild, AfterChild, Writes, Running
    <3>8. FoldersHeld'
      BY <1>1, <1>2, <3>1, <3>2, <3>3
         DEF GenerationInv, CallHeld, FoldersHeld, BeforeChild, AfterChild, Writes
    <3>9. ReceiptNamesWhatRan' /\ CaseComesLast'
      BY <1>1, <1>2, <3>1, <3>2, <3>3
         DEF GenerationInv, ReceiptNamesWhatRan, CaseComesLast
    <3> QED
      BY <3>4, <3>5, <3>6, <3>7, <3>8, <3>9 DEF GenerationInv, GenerationTyped
  <2>2. CASE End("execution") /\ child' = child
    BY <1>1, <1>2, <2>2, EndKeeps DEF Running
  <2> QED
    BY <1>5, <2>1, <2>2 DEF Spawn
<1> QED
  BY <1>3, <1>4, <1>5

\* What the child does.
LEMMA ChildKeeps ==
  ASSUME GenerationInv,
         \/ Import \/ ReadModule \/ Send \/ Exit
         \/ \E made \in DOMAIN Generated : Generate(made)
         \/ \E outcomes \in OutcomeLists : RunAdapter(outcomes)
  PROVE  GenerationInv'
<1>1. /\ call' = call /\ sources' = sources /\ folders' = folders /\ placed' = placed
      /\ child.phase \in Running
  BY DEF Import, ReadModule, Send, Exit, Generate, RunAdapter, Running
<1>2. DOMAIN child = {"phase", "ran", "entry", "data", "says", "made"}
  BY DEF GenerationInv, GenerationTyped, ChildTyped, ChildFields, NoChild
<1>3. /\ call.phase \in {"poll", "join"} \/ call.exit = "killed"
      /\ call.phase \notin AfterChild /\ call.phase \notin BeforeChild
      /\ child.phase # "none" /\ child.phase # "gone" /\ call.exit # "ok"
  BY <1>1 DEF GenerationInv, CallHeld, Running, BeforeChild, AfterChild, Writes
<1>4. /\ sources.component \in Nat /\ sources.adapter \in Nat
      /\ call.component \in Nat /\ call.adapter \in Nat
      /\ child.ran \in Nat /\ child.entry \in Nat /\ child.data \in Nat
  BY DEF GenerationInv, GenerationTyped, SourcesTyped, CallTyped, ChildTyped
<1>5. call.component <= sources.component /\ call.adapter <= sources.adapter
  BY DEF GenerationInv, ChainHeld
<1>6. ChildTyped' /\ ChainHeld' /\ (child'.phase \in {"started", "imported", "read"} => child'.says = "none")
  <2>1. CASE Import
    <3>1. /\ DOMAIN child' = ChildFields /\ child.phase = "started" /\ child'.phase = "imported"
          /\ child'.ran = sources.adapter /\ child'.says = child.says
          /\ child'.entry = child.entry /\ child'.data = child.data
      BY <1>2, <2>1 DEF Import, ChildFields, NoChild
    <3>2. child'.says = "none"
      BY <3>1 DEF GenerationInv, CallHeld
    <3>3. ChildTyped'
      BY <1>4, <3>1, <3>2 DEF ChildTyped
    <3> QED
      BY <1>1, <1>4, <1>5, <3>1, <3>2, <3>3 DEF ChainHeld
  <2>2. CASE ReadModule
    <3>1. /\ DOMAIN child' = ChildFields /\ child.phase = "imported" /\ child'.phase = "read"
          /\ child'.ran = child.ran /\ child'.says = child.says
          /\ child'.entry = sources.adapter /\ child'.data = child.data
      BY <1>2, <2>2 DEF ReadModule, ChildFields, NoChild
    <3>2. child'.says = "none"
      BY <3>1 DEF GenerationInv, CallHeld
    <3>3. ChildTyped'
      BY <1>4, <3>1, <3>2 DEF ChildTyped
    <3>4. call.mode = "case" => call.adapter <= child.ran /\ child.ran <= sources.adapter
      BY <3>1 DEF GenerationInv, ChainHeld
    <3> QED
      BY <1>1, <1>4, <1>5, <3>1, <3>2, <3>3, <3>4 DEF ChainHeld
  <2>3. CASE Send \/ Exit
    <3>1. /\ DOMAIN child' = ChildFields /\ child'.ran = child.ran /\ child'.says = child.says
          /\ child'.entry = child.entry /\ child'.data = child.data
          /\ \/ child.phase = "answered" /\ child'.phase = "sent"
             \/ child'.phase = "gone"
      BY <1>2, <2>3 DEF Send, Exit, ChildFields, NoChild
    <3>2. ChildTyped'
      BY <3>1 DEF GenerationInv, GenerationTyped, ChildTyped
    <3> QED
      BY <1>1, <3>1, <3>2 DEF GenerationInv, ChainHeld
  <2>4. ASSUME NEW made \in DOMAIN Generated, Generate(made)
        PROVE  <1>6
    <3>1. /\ DOMAIN child' = ChildFields /\ child.phase = "read" /\ child'.phase = "answered"
          /\ child'.ran = child.ran /\ child'.entry = child.entry
          /\ child'.data = sources.component
      BY <1>2, <2>4 DEF Generate, ChildFields, NoChild
    <3>2. child'.says # "killed" /\ (child'.says = "ok" => sources.adapter = child.entry)
      <4>1. Generated[made] \in {"ok", "protocol", "budget", "execution"}
        BY DEF Generated
      <4>2. child'.says = IF Generated[made] = "ok" /\ sources.adapter # child.entry
                          THEN "execution" ELSE Generated[made]
        BY <1>2, <2>4 DEF Generate
      <4>3. CASE Generated[made] = "ok" /\ sources.adapter # child.entry
        BY <4>2, <4>3
      <4>4. CASE ~(Generated[made] = "ok" /\ sources.adapter # child.entry)
        <5>1. child'.says = Generated[made]
          BY <4>2, <4>4
        <5> QED
          BY <4>1, <4>4, <5>1
      <4> QED
        BY <4>3, <4>4
    <3>3. ChildTyped'
      BY <1>4, <3>1, <3>2 DEF ChildTyped
    <3>4. call.mode = "case" => /\ call.adapter <= child.ran /\ child.ran <= sources.adapter
                                /\ child.ran <= child.entry /\ child.entry <= sources.adapter
      BY <3>1 DEF GenerationInv, ChainHeld
    <3> QED
      BY <1>1, <1>4, <1>5, <3>1, <3>2, <3>3, <3>4 DEF ChainHeld
  <2>5. ASSUME NEW outcomes \in OutcomeLists, RunAdapter(outcomes)
        PROVE  <1>6
    <3>1. /\ DOMAIN child' = ChildFields /\ call.mode # "case" /\ child'.phase = "answered"
          /\ child'.ran = child.ran /\ child'.entry = child.entry /\ child'.data = child.data
          /\ child'.says = OutcomeVerdict(outcomes)
      BY <1>2, <2>5 DEF RunAdapter, ChildFields, NoChild
    <3>2. child'.says # "killed"
      BY <3>1 DEF OutcomeVerdict
    <3>3. ChildTyped'
      BY <3>1, <3>2 DEF GenerationInv, GenerationTyped, ChildTyped
    <3> QED
      BY <1>1, <1>5, <3>1, <3>3 DEF ChainHeld
  <2> QED
    BY <2>1, <2>2, <2>3, <2>4, <2>5
<1>7. CallTyped' /\ SourcesTyped' /\ DOMAIN folders' = Outputs
  BY <1>1 DEF GenerationInv, GenerationTyped, CallTyped, SourcesTyped
<1>8. CallHeld'
  BY <1>1, <1>3, <1>6 DEF GenerationInv, CallHeld, AfterChild, Writes, Running
<1>9. FoldersHeld'
  BY <1>1, <1>3 DEF GenerationInv, FoldersHeld, AfterChild, Writes
<1> QED
  BY <1>1, <1>6, <1>7, <1>8, <1>9
     DEF GenerationInv, GenerationTyped, ReceiptNamesWhatRan, CaseComesLast

\* A caller that goes on without touching the evidence or the case.
LEMMA GoesKeeps ==
  ASSUME GenerationInv,
         NEW to \in {"join", "recheck component", "recheck adapter", "judge", "clean folder"},
         Step([phase |-> to]),
         sources' = sources, folders' = folders, placed' = placed, child' = child,
         call.phase \in {"poll", "join"} \cup AfterChild,
         to # "clean folder" => call.phase \notin {"write", "clean folder"},
         to # "join" => call.mode = "case" /\ child.phase = "gone" /\ child.says = "ok",
         to \in {"recheck adapter", "judge", "clean folder"} => child.data = call.component,
         to \in {"judge", "clean folder"} => child.ran = call.adapter /\ child.entry = call.adapter
  PROVE  GenerationInv'
<1>1. /\ DOMAIN call' = CallFields /\ call'.phase = to
      /\ call'.mode = call.mode /\ call'.output = call.output /\ call'.written = call.written
      /\ call'.component = call.component /\ call'.adapter = call.adapter
      /\ call'.exit = call.exit
  BY PhaseGoes DEF GenerationInv, GenerationTyped, CallTyped
<1>2. /\ call.phase # "done" /\ call.exit \notin {"ok", "killed"}
      /\ to # "clean folder" => call.written = 0
      /\ call.mode = "case" => placed = {}
  BY DEF GenerationInv, CallHeld, FoldersHeld, AfterChild, Writes
<1>3. CallTyped'
  BY <1>1 DEF GenerationInv, GenerationTyped, CallTyped, AfterChild, Writes
<1>4. SourcesTyped' /\ ChildTyped' /\ DOMAIN folders' = Outputs
  BY DEF GenerationInv, GenerationTyped, SourcesTyped, ChildTyped
<1>5. ChainHeld'
  BY <1>1 DEF GenerationInv, ChainHeld
<1>6. CallHeld'
  BY <1>1, <1>2 DEF GenerationInv, CallHeld, BeforeChild, AfterChild, Writes, Running
<1>7. FoldersHeld'
  BY <1>1, <1>2 DEF FoldersHeld
<1> QED
  BY <1>3, <1>4, <1>5, <1>6, <1>7
     DEF GenerationInv, GenerationTyped, ReceiptNamesWhatRan, CaseComesLast

\* The caller waits for its child's answer, and for its end.
LEMMA WaitKeeps ==
  ASSUME GenerationInv, Deadline \/ Receive \/ PollTimesOut \/ JoinTimesOut \/ Joined
  PROVE  GenerationInv'
<1>1. /\ sources' = sources /\ folders' = folders /\ placed' = placed
      /\ call.phase \in {"poll", "join"} /\ DOMAIN call = CallFields /\ child.says # "killed"
  BY DEF GenerationInv, GenerationTyped, CallTyped, ChildTyped, Deadline, Receive, PollTimesOut,
         JoinTimesOut, Joined, TakeAnswer
<1>2. CASE Deadline
  <2>1. Step([late |-> TRUE]) /\ child' = child
    BY <1>2 DEF Deadline
  <2>2. /\ DOMAIN call' = CallFields /\ call'.phase = call.phase
        /\ call'.mode = call.mode /\ call'.output = call.output /\ call'.written = call.written
        /\ call'.component = call.component /\ call'.adapter = call.adapter
        /\ call'.exit = call.exit
    BY <1>1, <2>1 DEF Step, Updated, CallFields, NoCall
  <2>3. GenerationTyped'
    BY <1>1, <2>1, <2>2
       DEF GenerationInv, GenerationTyped, SourcesTyped, CallTyped, ChildTyped
  <2>4. ChainHeld' /\ CallHeld' /\ FoldersHeld'
    BY <1>1, <2>1, <2>2 DEF GenerationInv, ChainHeld, CallHeld, FoldersHeld
  <2> QED
    BY <1>1, <2>3, <2>4 DEF GenerationInv, ReceiptNamesWhatRan, CaseComesLast
<1>3. CASE Receive
  <2>1. CASE Step([phase |-> "join"]) /\ child' = child
    BY <1>1, <1>3, <2>1, GoesKeeps DEF AfterChild, Writes, Receive
  <2>2. CASE End("execution") /\ Stopped
    BY <1>1, <2>2, EndKeeps
  <2> QED
    BY <1>3, <2>1, <2>2 DEF Receive
<1>4. CASE PollTimesOut \/ JoinTimesOut
  BY <1>1, <1>4, EndKeeps DEF PollTimesOut, JoinTimesOut
<1>5. CASE Joined
  <2>1. child' = child /\ child.phase = "gone"
    BY <1>5 DEF Joined, TakeAnswer
  <2>2. CASE child.says = "ok" /\ call.mode = "case" /\ Step([phase |-> "recheck component"])
    BY <1>1, <2>1, <2>2, GoesKeeps
  <2>3. CASE End(child.says)
    BY <1>1, <2>1, <2>3, EndKeeps DEF Running
  <2> QED
    BY <1>5, <2>2, <2>3 DEF Joined, TakeAnswer
<1> QED
  BY <1>2, <1>3, <1>4, <1>5

\* Two equal digests with reads between them in order: all of them saw the same version.
LEMMA Squeezed ==
  ASSUME NEW a \in Nat, NEW r \in Nat, NEW e \in Nat, a <= r, r <= e, e <= a
  PROVE  r = a /\ e = a
OBVIOUS

\* The digests after the child: what it read has not changed since the first ones.
LEMMA RecheckKeeps ==
  ASSUME GenerationInv, RecheckComponent \/ RecheckAdapter
  PROVE  GenerationInv'
<1>1. /\ sources' = sources /\ folders' = folders /\ placed' = placed /\ child' = child
      /\ call.phase \in {"recheck component", "recheck adapter"}
      /\ call.mode = "case" /\ child.phase = "gone" /\ child.says = "ok"
  BY DEF GenerationInv, CallHeld, AfterChild, RecheckComponent, RecheckAdapter
<1>2. /\ call.adapter <= child.ran /\ child.ran <= child.entry /\ child.entry <= sources.adapter
      /\ call.component <= child.data /\ child.data <= sources.component
  BY <1>1 DEF GenerationInv, ChainHeld
<1>3. /\ sources.component \in Nat /\ sources.adapter \in Nat
      /\ call.component \in Nat /\ call.adapter \in Nat
      /\ child.ran \in Nat /\ child.entry \in Nat /\ child.data \in Nat
  BY DEF GenerationInv, GenerationTyped, SourcesTyped, CallTyped, ChildTyped
<1>4. CASE End("changed")
  BY <1>1, <1>4, EndKeeps DEF Running
<1>5. CASE RecheckComponent /\ ~End("changed")
  <2>1. sources.component = call.component /\ Step([phase |-> "recheck adapter"])
    BY <1>5 DEF RecheckComponent
  <2>2. child.data = call.component
    <3>1. child.data <= call.component
      BY <1>2, <2>1
    <3> QED
      BY <1>2, <1>3, <3>1, Squeezed
  <2> QED
    BY <1>1, <2>1, <2>2, GoesKeeps DEF AfterChild
<1>6. CASE RecheckAdapter /\ ~End("changed")
  <2>1. /\ sources.adapter = call.adapter /\ Step([phase |-> "judge"])
        /\ call.phase = "recheck adapter"
    BY <1>6 DEF RecheckAdapter
  <2>2. child.ran = call.adapter /\ child.entry = call.adapter
    <3>1. child.entry <= call.adapter
      BY <1>2, <2>1
    <3> QED
      BY <1>2, <1>3, <3>1, Squeezed
  <2>3. child.data = call.component
    BY <2>1 DEF GenerationInv, CallHeld
  <2> QED
    BY <1>1, <2>1, <2>2, <2>3, GoesKeeps DEF AfterChild
<1> QED
  BY <1>4, <1>5, <1>6

\* What a caller that judges or writes knows.
LEMMA WriterKnows ==
  ASSUME GenerationInv, call.phase \in Writes
  PROVE  /\ call.mode = "case" /\ call.output \in Outputs /\ placed = {}
         /\ child.phase = "gone" /\ child.says = "ok" /\ child.data = call.component
         /\ child.ran = call.adapter /\ child.entry = call.adapter
         /\ call.exit \notin {"ok", "killed"} /\ DOMAIN call = CallFields
         /\ DOMAIN folders = Outputs
BY DEF GenerationInv, GenerationTyped, CallTyped, CallHeld, FoldersHeld, AfterChild, Writes

\* The directory of the evidence is made.
LEMMA JudgeKeeps ==
  ASSUME GenerationInv, Judge
  PROVE  GenerationInv'
<1>1. /\ sources' = sources /\ placed' = placed /\ child' = child
      /\ call.phase = "judge" /\ call.phase \in Writes /\ call.written = 0
  BY DEF GenerationInv, FoldersHeld, Writes, Judge
<1>2. CASE End("failed") /\ folders' = folders
  BY <1>1, <1>2, WriterKnows, EndKeeps DEF Running
<1>3. CASE /\ Step([phase |-> "write"])
           /\ folders' = [folders EXCEPT ![call.output] = {[files |-> 0, case |-> child.data]}]
  <2>1. /\ DOMAIN call' = CallFields /\ call'.phase = "write"
        /\ call'.mode = call.mode /\ call'.output = call.output /\ call'.written = call.written
        /\ call'.component = call.component /\ call'.adapter = call.adapter
        /\ call'.exit = call.exit
    BY <1>1, <1>3, WriterKnows, PhaseGoes
  <2>2. /\ DOMAIN folders' = Outputs
        /\ folders'[call.output] = {[files |-> 0, case |-> child.data]}
    BY <1>1, <1>3, WriterKnows
  <2>3. CallTyped'
    BY <1>1, <2>1, WriterKnows DEF GenerationInv, GenerationTyped, CallTyped, AfterChild, Writes
  <2>4. SourcesTyped' /\ ChildTyped'
    BY <1>1 DEF GenerationInv, GenerationTyped, SourcesTyped, ChildTyped
  <2>5. ChainHeld'
    BY <1>1, <2>1 DEF GenerationInv, ChainHeld
  <2>6. CallHeld'
    BY <1>1, <2>1, WriterKnows DEF CallHeld, BeforeChild, AfterChild, Writes, Running
  <2>7. FoldersHeld'
    BY <1>1, <2>1, <2>2, WriterKnows DEF FoldersHeld
  <2>8. placed' = {}
    BY <1>1, WriterKnows
  <2> QED
    BY <2>2, <2>3, <2>4, <2>5, <2>6, <2>7, <2>8
       DEF GenerationInv, GenerationTyped, ReceiptNamesWhatRan, CaseComesLast
<1> QED
  BY <1>2, <1>3 DEF Judge

\* One more document of the evidence, or its removal.
LEMMA WriteKeeps ==
  ASSUME GenerationInv, WriteFile
  PROVE  GenerationInv'
<1>1. /\ sources' = sources /\ placed' = placed /\ child' = child
      /\ call.phase = "write" /\ call.phase \in Writes
  BY DEF Writes, WriteFile
<1>2. CASE Step([phase |-> "clean folder"]) /\ folders' = folders
  BY <1>1, <1>2, WriterKnows, GoesKeeps DEF AfterChild
<1>3. CASE /\ Step([written |-> call.written + 1])
           /\ folders' = [folders EXCEPT ![call.output] =
                            {[files |-> call.written + 1, case |-> child.data]}]
  <2>1. PICK n : n = call.written + 1
    OBVIOUS
  <2>2. Step([written |-> n])
    BY <1>3, <2>1
  <2>3. /\ DOMAIN call' = CallFields /\ call'.phase = call.phase
        /\ call'.mode = call.mode /\ call'.output = call.output /\ call'.written = n
        /\ call'.component = call.component /\ call'.adapter = call.adapter
        /\ call'.exit = call.exit
    BY <1>1, <2>2, WriterKnows DEF Step, Updated, CallFields, NoCall
  <2>4. /\ DOMAIN folders' = Outputs
        /\ folders'[call.output] = {[files |-> n, case |-> child.data]}
    BY <1>1, <1>3, <2>1, WriterKnows
  <2>5. CallTyped'
    BY <1>1, <2>3, WriterKnows DEF GenerationInv, GenerationTyped, CallTyped
  <2>6. SourcesTyped' /\ ChildTyped'
    BY <1>1 DEF GenerationInv, GenerationTyped, SourcesTyped, ChildTyped
  <2>7. ChainHeld'
    BY <1>1, <2>3 DEF GenerationInv, ChainHeld
  <2>8. CallHeld'
    BY <1>1, <2>3, WriterKnows DEF CallHeld, BeforeChild, AfterChild, Writes, Running
  <2>9. FoldersHeld'
    BY <1>1, <2>3, <2>4, WriterKnows DEF FoldersHeld
  <2>10. placed' = {}
    BY <1>1, WriterKnows
  <2> QED
    BY <2>4, <2>5, <2>6, <2>7, <2>8, <2>9, <2>10
       DEF GenerationInv, GenerationTyped, ReceiptNamesWhatRan, CaseComesLast
<1> QED
  BY <1>2, <1>3 DEF WriteFile

\* The case comes last, from a caller that has written all of its evidence.
LEMMA PlaceKeeps ==
  ASSUME GenerationInv, PlaceCase
  PROVE  GenerationInv'
<1>1. /\ sources' = sources /\ folders' = folders /\ child' = child
      /\ call.phase = "write" /\ call.phase \in Writes /\ call.written = EvidenceFiles
  BY DEF Writes, PlaceCase
<1>2. CASE Step([phase |-> "clean folder"]) /\ placed' = placed
  BY <1>1, <1>2, WriterKnows, GoesKeeps DEF AfterChild
<1>3. CASE placed' = {[case |-> child.data, ran |-> child.ran, receipt |-> Receipt]} /\ End("ok")
  <2>1. /\ DOMAIN call' = CallFields /\ call'.phase = "done"
        /\ call'.mode = call.mode /\ call'.output = call.output /\ call'.written = call.written
        /\ call'.component = call.component /\ call'.adapter = call.adapter
        /\ call'.exit = "ok"
    BY <1>1, <1>3, WriterKnows, CallEnds
  <2>2. CallTyped'
    BY <1>1, <2>1, WriterKnows DEF GenerationInv, GenerationTyped, CallTyped
  <2>3. SourcesTyped' /\ ChildTyped' /\ DOMAIN folders' = Outputs
    BY <1>1 DEF GenerationInv, GenerationTyped, SourcesTyped, ChildTyped
  <2>4. ChainHeld'
    BY <1>1, <2>1 DEF GenerationInv, ChainHeld
  <2>5. CallHeld'
    BY <1>1, <2>1, WriterKnows DEF CallHeld, BeforeChild, AfterChild, Writes, Running
  <2>6. FoldersHeld'
    BY <2>1 DEF FoldersHeld, AfterChild, Writes
  <2>7. ReceiptNamesWhatRan'
    BY <1>1, <1>3, WriterKnows DEF ReceiptNamesWhatRan, Receipt
  <2>8. CaseComesLast'
    <3>1. folders[call.output] = {[files |-> EvidenceFiles, case |-> child.data]}
      BY <1>1 DEF GenerationInv, FoldersHeld
    <3> QED
      BY <1>1, <1>3, <3>1, WriterKnows DEF CaseComesLast
  <2> QED
    BY <2>2, <2>3, <2>4, <2>5, <2>6, <2>7, <2>8 DEF GenerationInv, GenerationTyped
<1> QED
  BY <1>2, <1>3 DEF PlaceCase

\* The evidence is taken away again, or stays.
LEMMA CleanKeeps ==
  ASSUME GenerationInv, CleanFolder
  PROVE  GenerationInv'
<1>1. /\ sources' = sources /\ placed' = {} /\ child' = child /\ End("failed")
      /\ call.phase \in Writes
  BY DEF Writes, CleanFolder
<1>2. /\ DOMAIN call' = CallFields /\ call'.phase = "done"
      /\ call'.mode = call.mode /\ call'.output = call.output /\ call'.written = call.written
      /\ call'.component = call.component /\ call'.adapter = call.adapter
      /\ call'.exit = "failed"
  BY <1>1, WriterKnows, CallEnds
<1>3. DOMAIN folders' = Outputs
  BY <1>1, WriterKnows DEF CleanFolder
<1>4. CallTyped'
  BY <1>1, <1>2, WriterKnows DEF GenerationInv, GenerationTyped, CallTyped
<1>5. SourcesTyped' /\ ChildTyped'
  BY <1>1 DEF GenerationInv, GenerationTyped, SourcesTyped, ChildTyped
<1>6. ChainHeld'
  BY <1>1, <1>2 DEF GenerationInv, ChainHeld
<1>7. CallHeld'
  BY <1>1, <1>2, WriterKnows DEF CallHeld, BeforeChild, AfterChild, Writes, Running
<1>8. FoldersHeld'
  BY <1>2 DEF FoldersHeld, AfterChild, Writes
<1> QED
  BY <1>1, <1>3, <1>4, <1>5, <1>6, <1>7, <1>8
     DEF GenerationInv, GenerationTyped, ReceiptNamesWhatRan, CaseComesLast

\* A killed caller leaves everything as it is, its child included.
LEMMA KillKeeps ==
  ASSUME GenerationInv, Kill
  PROVE  GenerationInv'
<1>1. /\ sources' = sources /\ placed' = placed /\ child' = child /\ folders' = folders
      /\ End("killed") /\ DOMAIN call = CallFields
  BY DEF GenerationInv, GenerationTyped, CallTyped, Kill
<1>2. /\ DOMAIN call' = CallFields /\ call'.phase = "done"
      /\ call'.mode = call.mode /\ call'.output = call.output /\ call'.written = call.written
      /\ call'.component = call.component /\ call'.adapter = call.adapter
      /\ call'.exit = "killed"
  BY <1>1, CallEnds
<1>3. CallTyped'
  BY <1>2 DEF GenerationInv, GenerationTyped, CallTyped
<1>4. SourcesTyped' /\ ChildTyped' /\ DOMAIN folders' = Outputs
  BY <1>1 DEF GenerationInv, GenerationTyped, SourcesTyped, ChildTyped
<1>5. ChainHeld'
  BY <1>1, <1>2 DEF GenerationInv, ChainHeld
<1>6. CallHeld'
  BY <1>1, <1>2 DEF GenerationInv, CallHeld, BeforeChild, AfterChild, Writes, Running
<1>7. FoldersHeld'
  BY <1>2 DEF FoldersHeld, AfterChild, Writes
<1> QED
  BY <1>1, <1>3, <1>4, <1>5, <1>6, <1>7
     DEF GenerationInv, GenerationTyped, ReceiptNamesWhatRan, CaseComesLast

\* Initially there is no call, no child, no folder and no case.
LEMMA GenerationStarts == GenerationInit => GenerationInv
<1> SUFFICES ASSUME GenerationInit PROVE GenerationInv
  OBVIOUS
<1>1. SourcesTyped /\ DOMAIN folders = Outputs
  BY DEF GenerationInit, SourcesTyped
<1>2. CallTyped
  BY DEF GenerationInit, CallTyped, NoCall, CallFields, BeforeChild
<1>3. ChildTyped
  BY DEF GenerationInit, ChildTyped, NoChild, ChildFields
<1>4. ChainHeld
  BY DEF GenerationInit, ChainHeld, NoCall, NoChild
<1>5. CallHeld /\ FoldersHeld
  BY DEF GenerationInit, CallHeld, FoldersHeld, NoCall, NoChild, BeforeChild, AfterChild, Writes,
         Running
<1> QED
  BY <1>1, <1>2, <1>3, <1>4, <1>5
     DEF GenerationInv, GenerationTyped, GenerationInit, ReceiptNamesWhatRan, CaseComesLast

\* Every step of a behaviour keeps the invariant of generation.
LEMMA GenerationSteps == GenerationInv /\ [Next]_vars => GenerationInv'
<1> SUFFICES ASSUME GenerationInv, [Next]_vars PROVE GenerationInv'
  OBVIOUS
<1>1. CASE UNCHANGED generationVars
  BY ZenonT(40), <1>1 DEF generationVars, GenerationInv, GenerationTyped, SourcesTyped, CallTyped, ChildTyped,
              ChainHeld, CallHeld, FoldersHeld, ReceiptNamesWhatRan, CaseComesLast
<1>2. CASE GenerationNext
  BY <1>2, EditKeeps, StartKeeps, HashKeeps, ChildKeeps, WaitKeeps, RecheckKeeps, JudgeKeeps,
     WriteKeeps, PlaceKeeps, CleanKeeps, KillKeeps DEF GenerationNext
<1> QED
  BY <1>1, <1>2 DEF vars, Next, OnEvidence, OnGeneration, OnGitHub, OnDocuments, OnAzure, OnCanary,
                    OnAttestation

\* What a generation read, wrote and answered is what its call's phase says, in every state.
THEOREM GenerationCorrect == Spec => []GenerationInv
<1>1. Init => GenerationInv
  BY GenerationStarts DEF Init
<1> QED
  BY <1>1, GenerationSteps, PTL DEF Spec

\* The configured case was made from the component and by the adapter its receipt names,
\* however their files change while the child imports, reads and runs.
THEOREM ReceiptNames == Spec => []ReceiptNamesWhatRan
<1>1. GenerationInv => ReceiptNamesWhatRan
  BY DEF GenerationInv
<1> QED
  BY <1>1, GenerationCorrect, PTL

\* A configured case has all of its evidence in an output directory, wherever a caller was
\* killed and whichever write failed.
THEOREM CaseLast == Spec => []CaseComesLast
<1>1. GenerationInv => CaseComesLast
  BY DEF GenerationInv
<1> QED
  BY <1>1, GenerationCorrect, PTL

\* A call that was not killed leaves no child behind, and a good answer comes from a child
\* that ended by itself.
THEOREM ChildEnds == Spec => []ChildEndsWithCall
<1>1. GenerationInv => ChildEndsWithCall
  BY DEF GenerationInv, CallHeld, ChildEndsWithCall
<1> QED
  BY <1>1, GenerationCorrect, PTL
-----------------------------------------------------------------------------
(* Checks on pull requests                                                 *)

RunFields == DOMAIN Idle

\* The check a run owes for an attempt: its event and its settings stay what they were.
Owed(r, attempt) ==
  [run |-> r, attempt |-> attempt, head |-> runs[r].event.head,
   conclusion |-> Conclusion(Review(runs[r].setting, runs[r].event), runs[r].setting.conditional)]

\* A pull request that changes one component and none of its governance.
Reviewable(s, changed) ==
  Cardinality(Matched(changed)) = 1 /\ AllNames(changed) \cap Governance(s) = {}

PullHeld == pull.base \in Bases /\ pull.head \in Heads /\ pull.head \in pushed

Triggered(run) ==
  run.phase # "idle" => /\ run.event.base \in Bases /\ run.event.head \in Heads
                        /\ run.event.head \in pushed /\ run.setting \in Settings

\* While the pull request has the head of the event the files read are that head's,
\* and a head it has left does not come back.
Discovering(run) ==
  /\ run.phase \in {"discover", "pages", "recheck"} => run.setting.mode = "configured"
  /\ run.phase \in {"idle", "discover"} => run.files = <<>>
  /\ run.phase = "pages" /\ pull.head = run.event.head =>
       /\ run.count = Len(Files(run.event.head))
       /\ \E n \in 0 .. Len(Files(run.event.head)) : run.files = SubSeq(Files(run.event.head), 1, n)
  /\ run.phase = "recheck" /\ pull.head = run.event.head => run.files = Files(run.event.head)
  /\ run.phase = "gate" /\ run.setting.mode = "configured" => run.files = Files(run.event.head)

Concluded(run) ==
  /\ run.phase = "sent" => run.decision = Review(run.setting, run.event)
  /\ run.phase = "done" /\ run.exit = 0 =>
       IF run.status = "not_applicable" THEN Matched(Files(run.event.head)) = {}
       ELSE Favourable(run.setting, Review(run.setting, run.event))

RunHeld(run) ==
  DOMAIN run = RunFields /\ run.attempt \in Nat /\ Triggered(run) /\ Discovering(run) /\ Concluded(run)

\* A request, a check or an answer is what its run owed for its attempt, and the current
\* attempt sent it.
PostHeld(c) ==
  /\ c.run \in Runs /\ runs[c.run].phase # "idle"
  /\ c.attempt \in Nat /\ c.attempt <= runs[c.run].attempt /\ c = Owed(c.run, c.attempt)
  /\ runs[c.run].setting.mode = "configured" =>
       Reviewable(runs[c.run].setting, Files(runs[c.run].event.head))
  /\ c.attempt = runs[c.run].attempt =>
       \/ runs[c.run].phase = "sent"
       \/ runs[c.run].phase = "done" /\ runs[c.run].status \in {"published", "error", "cancelled"}

\* What a run says it published is there.
Published(r) ==
  runs[r].phase = "done" /\ runs[r].status = "published" =>
    /\ Owed(r, runs[r].attempt) \in checks
    /\ runs[r].exit = 0 <=> Favourable(runs[r].setting, Review(runs[r].setting, runs[r].event))

GitHubInv ==
  /\ PullHeld /\ DOMAIN runs = Runs /\ replies \subseteq checks
  /\ \A r \in Runs : RunHeld(runs[r])
  /\ \A c \in posts \cup checks : PostHeld(c)
  /\ \A r \in Runs : Published(r)

\* What a step of one run changes.
LEMMA AdvanceGives ==
  ASSUME DOMAIN runs = Runs, NEW r \in Runs, DOMAIN runs[r] = RunFields, NEW change,
         Advance(r, change)
  PROVE  /\ DOMAIN runs' = Runs /\ \A q \in Runs \ {r} : runs'[q] = runs[q]
         /\ runs'[r] = Updated(runs[r], change) /\ DOMAIN runs'[r] = RunFields
         /\ pull' = pull /\ pushed' = pushed
         /\ posts' = posts /\ checks' = checks /\ replies' = replies
BY DEF Advance, Updated

\* A run that goes on under the event, the settings and the attempt it has: its requests are
\* still what it owes, and what it does not do is publish.
LEMMA GoingKeeps ==
  ASSUME GitHubInv, NEW r \in Runs,
         DOMAIN runs' = Runs, \A q \in Runs \ {r} : runs'[q] = runs[q],
         pull' = pull, pushed' = pushed, posts' = posts, checks' = checks, replies' = replies,
         runs[r].phase \notin {"idle", "done"}, runs'[r].phase # "idle",
         DOMAIN runs'[r] = RunFields, runs'[r].attempt = runs[r].attempt,
         runs'[r].event = runs[r].event, runs'[r].setting = runs[r].setting,
         runs[r].phase = "sent" =>
           runs'[r].phase = "done" /\ runs'[r].status \in {"error", "cancelled"},
         runs'[r].phase = "done" => runs'[r].status # "published",
         Discovering(runs'[r]), Concluded(runs'[r])
  PROVE  GitHubInv'
<1>1. PullHeld' /\ replies' \subseteq checks'
  BY DEF GitHubInv, PullHeld
<1>2. \A q \in Runs : runs'[q].attempt = runs[q].attempt /\ runs'[q].event = runs[q].event
                      /\ runs'[q].setting = runs[q].setting
                      /\ (runs[q].phase # "idle" => runs'[q].phase # "idle")
  OBVIOUS
<1>3. ASSUME NEW q \in Runs PROVE RunHeld(runs[q])'
  <2>1. CASE q = r
    <3>1. runs[r].attempt \in Nat /\ Triggered(runs[r])
      BY DEF GitHubInv, RunHeld
    <3>2. Triggered(runs[r])'
      BY <3>1 DEF Triggered
    <3>3. Discovering(runs[r])' /\ Concluded(runs[r])'
      BY DEF Discovering, Concluded
    <3> QED
      BY <2>1, <3>1, <3>2, <3>3 DEF RunHeld
  <2>2. CASE q # r
    BY ZenonT(40), <2>2 DEF GitHubInv, RunHeld, Triggered, Discovering, Concluded
  <2> QED
    BY <2>1, <2>2
<1>4. \A q \in Runs : \A a : Owed(q, a)' = Owed(q, a)
  BY <1>2 DEF Owed
<1>5. ASSUME NEW c \in posts' \cup checks' PROVE PostHeld(c)'
  <2>1. PostHeld(c)
    BY DEF GitHubInv
  <2>2. c.run \in Runs
    BY <2>1 DEF PostHeld
  <2>3. CASE c.run = r
    BY <1>2, <1>4, <2>1, <2>2, <2>3 DEF PostHeld
  <2>4. CASE c.run # r
    BY <1>2, <1>4, <2>1, <2>2, <2>4 DEF PostHeld
  <2> QED
    BY <2>3, <2>4
<1>6. ASSUME NEW q \in Runs PROVE Published(q)'
  <2>1. CASE q = r
    BY <2>1 DEF Published
  <2>2. CASE q # r
    BY <1>2, <1>4, <2>2 DEF GitHubInv, Published
  <2> QED
    BY <2>1, <2>2
<1> QED
  BY <1>1, <1>3, <1>5, <1>6 DEF GitHubInv

\* A run that fails, skips its gate or is cancelled: it ends without a check.
LEMMA EndingKeeps ==
  ASSUME GitHubInv, NEW r \in Runs, NEW exit, NEW status,
         Advance(r, Finished(exit, status)),
         runs[r].phase \notin {"idle", "done"}, status # "published",
         runs[r].phase = "sent" => status \in {"error", "cancelled"},
         exit = 0 => IF status = "not_applicable" THEN Matched(Files(runs[r].event.head)) = {}
                     ELSE Favourable(runs[r].setting, Review(runs[r].setting, runs[r].event))
  PROVE  GitHubInv'
<1>1. DOMAIN runs = Runs /\ DOMAIN runs[r] = RunFields
  BY DEF GitHubInv, RunHeld
<1>2. /\ DOMAIN runs' = Runs /\ \A q \in Runs \ {r} : runs'[q] = runs[q]
      /\ runs'[r] = Updated(runs[r], Finished(exit, status)) /\ DOMAIN runs'[r] = RunFields
      /\ pull' = pull /\ pushed' = pushed
      /\ posts' = posts /\ checks' = checks /\ replies' = replies
  BY <1>1, AdvanceGives
<1>3. /\ runs'[r].phase = "done" /\ runs'[r].exit = exit /\ runs'[r].status = status
      /\ runs'[r].attempt = runs[r].attempt /\ runs'[r].event = runs[r].event
      /\ runs'[r].setting = runs[r].setting
  BY <1>1, <1>2 DEF Updated, Finished, RunFields, Idle
<1>4. Discovering(runs'[r]) /\ Concluded(runs'[r])
  BY <1>3 DEF Discovering, Concluded
<1> QED
  BY <1>2, <1>3, <1>4, GoingKeeps

\* A page is read of the files that follow those there are.
LEMMA PageExtends ==
  ASSUME NEW S, NEW all \in Seq(S), NEW n \in 0 .. Len(all), NEW m \in n .. Len(all)
  PROVE  /\ SubSeq(all, 1, n) \o SubSeq(all, n + 1, m) = SubSeq(all, 1, m)
         /\ Len(SubSeq(all, 1, n)) = n
         /\ m = Len(all) => SubSeq(all, 1, m) = all
<1>1. SubSeq(all, 1, n) \o SubSeq(all, n + 1, m) = SubSeq(all, 1, m)
  BY ConcatAdjacentSubSeq
<1>2. Len(SubSeq(all, 1, n)) = n
  BY SubSeqProperties
<1>3. SubSeq(all, 1, Len(all)) = all
  BY SubSeqFull
<1> QED
  BY <1>1, <1>2, <1>3

\* The files of a head, and the pages of them, are sequences of its files.
LEMMA FilesAreSequences ==
  ASSUME NEW h \in Heads
  PROVE  Files(h) \in Seq(Range(Files(h))) /\ Len(Files(h)) \in Nat
BY GitHubAssumption DEF GitHubAssumption, Files

\* The files of a pull request are read page by page.
LEMMA DiscoverKeeps ==
  ASSUME GitHubInv, NEW r \in Runs, ReadPull(r) \/ ReadFilePage(r) \/ RecheckPull(r) \/ ApiFails(r)
  PROVE  GitHubInv'
<1>1. /\ runs[r].phase \in {"discover", "pages", "recheck"} /\ RunHeld(runs[r])
      /\ DOMAIN runs = Runs /\ DOMAIN runs[r] = RunFields
      /\ runs[r].event.head \in Heads /\ runs[r].setting.mode = "configured" /\ pull.head \in Heads
  BY DEF GitHubInv, RunHeld, Triggered, Discovering, PullHeld, ReadPull, ReadFilePage, RecheckPull,
         ApiFails
<1>2. CASE Advance(r, Failed)
  BY <1>1, <1>2, EndingKeeps DEF Failed
<1>3. CASE ReadPull(r) /\ ~Advance(r, Failed)
  <2>1. PICK count : count = Len(Files(pull.head))
    OBVIOUS
  <2>2. PICK phase : phase = IF count = 0 THEN "recheck" ELSE "pages"
    OBVIOUS
  <2>3. /\ Advance(r, [phase |-> phase, count |-> count])
        /\ runs[r].phase = "discover" /\ pull = runs[r].event
    BY <1>3, <2>1, <2>2 DEF ReadPull, SameSnapshot
  <2>4. /\ DOMAIN runs' = Runs /\ \A q \in Runs \ {r} : runs'[q] = runs[q]
        /\ runs'[r] = Updated(runs[r], [phase |-> phase, count |-> count])
        /\ DOMAIN runs'[r] = RunFields
        /\ pull' = pull /\ pushed' = pushed
        /\ posts' = posts /\ checks' = checks /\ replies' = replies
    BY <1>1, <2>3, AdvanceGives
  <2>5. /\ runs'[r].phase = phase /\ runs'[r].count = count /\ runs'[r].files = runs[r].files
        /\ runs'[r].attempt = runs[r].attempt /\ runs'[r].event = runs[r].event
        /\ runs'[r].setting = runs[r].setting
    BY <1>1, <2>4 DEF Updated, RunFields, Idle
  <2>6. runs[r].files = <<>>
    BY <1>1, <2>3 DEF RunHeld, Discovering
  <2>7. /\ Files(runs[r].event.head) \in Seq(Range(Files(runs[r].event.head)))
        /\ count = Len(Files(runs[r].event.head)) /\ count \in Nat
    BY <1>1, <2>1, <2>3, FilesAreSequences
  <2>8. count = 0 => Files(runs[r].event.head) = <<>>
    BY <2>7, EmptySeq
  <2>9. SubSeq(Files(runs[r].event.head), 1, 0) = <<>>
    BY SubSeqEmpty
  <2>10. Discovering(runs'[r])
    <3>1. CASE phase = "recheck"
      <4>1. count = 0
        BY <2>2, <3>1
      <4> QED
        BY <1>1, <2>5, <2>6, <2>8, <3>1, <4>1 DEF Discovering
    <3>2. CASE phase = "pages"
      <4>1. 0 \in 0 .. Len(Files(runs[r].event.head))
        BY <2>7
      <4> QED
        BY <1>1, <2>5, <2>6, <2>7, <2>9, <3>2, <4>1 DEF Discovering
    <3> QED
      BY <2>2, <3>1, <3>2
  <2>11. phase \in {"recheck", "pages"}
    BY <2>2
  <2>12. Concluded(runs'[r])
    BY <2>5, <2>11 DEF Concluded
  <2> QED
    BY <1>1, <2>3, <2>4, <2>5, <2>10, <2>11, <2>12, GoingKeeps
<1>4. CASE ReadFilePage(r) /\ ~Advance(r, Failed)
  <2> DEFINE have == runs[r].files
             current == Files(pull.head)
             last == AtMostFiles(Len(current), Len(have) + PullFilesPerPage)
             all == have \o SubSeq(current, Len(have) + 1, last)
  <2>1. PICK read : read = all
    OBVIOUS
  <2>2. PICK phase : phase = IF Len(read) < runs[r].count THEN "pages" ELSE "recheck"
    OBVIOUS
  <2>3. Advance(r, [files |-> read, phase |-> phase]) /\ runs[r].phase = "pages"
    BY <1>4, <2>1, <2>2 DEF ReadFilePage
  <2>4. /\ DOMAIN runs' = Runs /\ \A q \in Runs \ {r} : runs'[q] = runs[q]
        /\ runs'[r] = Updated(runs[r], [files |-> read, phase |-> phase])
        /\ DOMAIN runs'[r] = RunFields
        /\ pull' = pull /\ pushed' = pushed
        /\ posts' = posts /\ checks' = checks /\ replies' = replies
    BY <1>1, <2>3, AdvanceGives
  <2>5. /\ runs'[r].phase = phase /\ runs'[r].count = runs[r].count /\ runs'[r].files = read
        /\ runs'[r].attempt = runs[r].attempt /\ runs'[r].event = runs[r].event
        /\ runs'[r].setting = runs[r].setting
    BY <1>1, <2>4 DEF Updated, RunFields, Idle
  <2>6. phase \in {"recheck", "pages"}
    BY <2>2
  <2>7. ASSUME pull.head = runs[r].event.head
        PROVE  /\ \E n \in 0 .. Len(current) : read = SubSeq(current, 1, n)
               /\ phase = "recheck" => read = current
               /\ runs[r].count = Len(current)
    <3>1. PICK n \in 0 .. Len(current) : have = SubSeq(current, 1, n)
      BY <1>1, <2>3, <2>7 DEF RunHeld, Discovering
    <3>2. runs[r].count = Len(current)
      BY <1>1, <2>3, <2>7 DEF RunHeld, Discovering
    <3>3. current \in Seq(Range(current)) /\ Len(current) \in Nat
      BY <1>1, FilesAreSequences
    <3>4. Len(have) = n
      BY <3>1, <3>3, PageExtends
    <3>5. last \in n .. Len(current)
      BY <3>1, <3>3, <3>4, GitHubAssumption DEF AtMostFiles, GitHubAssumption
    <3>6. read = SubSeq(current, 1, last)
      BY <2>1, <3>1, <3>3, <3>4, <3>5, PageExtends
    <3>7. Len(read) = last /\ last \in 0 .. Len(current)
      BY <3>3, <3>5, <3>6, PageExtends
    <3>8. phase = "recheck" => last = Len(current)
      BY <2>2, <3>2, <3>3, <3>7
    <3>9. last = Len(current) => read = current
      BY <3>3, <3>6, <3>7, PageExtends
    <3> QED
      BY <3>2, <3>6, <3>7, <3>8, <3>9
  <2>8. Discovering(runs'[r])
    <3>1. CASE pull.head = runs[r].event.head
      BY <1>1, <2>5, <2>6, <2>7, <3>1 DEF Discovering
    <3>2. CASE pull.head # runs[r].event.head
      BY <1>1, <2>5, <2>6, <3>2 DEF Discovering
    <3> QED
      BY <3>1, <3>2
  <2>9. Concluded(runs'[r])
    BY <2>5, <2>6 DEF Concluded
  <2> QED
    BY <1>1, <2>3, <2>4, <2>5, <2>6, <2>8, <2>9, GoingKeeps
<1>5. CASE RecheckPull(r) /\ ~Advance(r, Failed)
  <2>1. /\ Advance(r, [phase |-> "gate"]) /\ runs[r].phase = "recheck"
        /\ pull = runs[r].event
    BY <1>5 DEF RecheckPull, Discovered, SameSnapshot
  <2>2. /\ DOMAIN runs' = Runs /\ \A q \in Runs \ {r} : runs'[q] = runs[q]
        /\ runs'[r] = Updated(runs[r], [phase |-> "gate"])
        /\ DOMAIN runs'[r] = RunFields
        /\ pull' = pull /\ pushed' = pushed
        /\ posts' = posts /\ checks' = checks /\ replies' = replies
    BY <1>1, <2>1, AdvanceGives
  <2>3. /\ runs'[r].phase = "gate" /\ runs'[r].files = runs[r].files
        /\ runs'[r].attempt = runs[r].attempt /\ runs'[r].event = runs[r].event
        /\ runs'[r].setting = runs[r].setting
    BY <1>1, <2>2 DEF Updated, RunFields, Idle
  <2>4. runs[r].files = Files(runs[r].event.head)
    BY <1>1, <2>1 DEF RunHeld, Discovering
  <2>5. Discovering(runs'[r]) /\ Concluded(runs'[r])
    BY <2>3, <2>4 DEF Discovering, Concluded
  <2> QED
    BY <1>1, <2>1, <2>2, <2>3, <2>5, GoingKeeps
<1> QED
  BY <1>2, <1>3, <1>4, <1>5 DEF ApiFails

\* What the selection calls reviewable of an automatic run changes exactly one component.
LEMMA SelectedIsReviewable ==
  ASSUME NEW s, NEW event, NEW changed, s.mode = "configured",
         Select(s, event, changed) = "reviewed"
  PROVE  Reviewable(s, changed)
<1>1. /\ AllNames(changed) \cap {ConfigPath, "policy"} = {} /\ Matched(changed) # {}
      /\ ~(Cardinality(Matched(changed)) > 1) /\ PolicyPath(s) \notin AllNames(changed)
  BY DEF Select
<1>2. IsFiniteSet(Matched(changed))
  <2>1. Matched(changed) \subseteq DOMAIN Patterns
    BY DEF Matched
  <2> QED
    BY <2>1, GitHubAssumption, FS_Subset DEF GitHubAssumption
<1>3. Cardinality(Matched(changed)) \in Nat /\ Cardinality(Matched(changed)) # 0
  BY <1>1, <1>2, FS_CardinalityType, FS_EmptySet
<1>4. AllNames(changed) \cap Governance(s) = {}
  BY <1>1 DEF Governance
<1> QED
  BY <1>1, <1>3, <1>4 DEF Reviewable

\* A run that finds nothing to review ends without a check.
LEMMA SkipKeeps ==
  ASSUME GitHubInv, NEW r \in Runs, Skip(r)
  PROVE  GitHubInv'
<1>1. CASE Advance(r, Failed)
  BY <1>1, EndingKeeps DEF Skip, Failed
<1>2. CASE /\ Select(runs[r].setting, runs[r].event, runs[r].files) = "no_match"
           /\ Advance(r, Finished(0, "not_applicable"))
  <2>1. runs[r].setting \in Settings /\ runs[r].phase = "gate"
    BY DEF GitHubInv, RunHeld, Triggered, Skip
  <2>2. runs[r].setting.mode = "configured"
    BY <1>2, <2>1, GitHubAssumption DEF Select, GitHubAssumption
  <2>3. runs[r].files = Files(runs[r].event.head)
    BY <2>1, <2>2 DEF GitHubInv, RunHeld, Discovering
  <2>4. Matched(runs[r].files) = {}
    BY <1>2 DEF Select
  <2> QED
    BY <1>2, <2>1, <2>3, <2>4, EndingKeeps
<1> QED
  BY <1>1, <1>2 DEF Skip

\* What a run decides is what its event and its settings make of the case.
LEMMA GateWrites ==
  ASSUME GitHubInv, NEW r \in Runs, Gate(r)
  PROVE  /\ runs[r].phase = "gate" /\ DOMAIN runs = Runs /\ DOMAIN runs[r] = RunFields
         /\ runs[r].setting \in Settings
         /\ runs[r].setting.mode = "configured" =>
              Reviewable(runs[r].setting, Files(runs[r].event.head))
<1>1. /\ runs[r].phase = "gate" /\ RunHeld(runs[r]) /\ DOMAIN runs = Runs
      /\ Select(runs[r].setting, runs[r].event, runs[r].files) = "reviewed"
  BY DEF GitHubInv, Gate
<1>2. runs[r].setting.mode = "configured" => runs[r].files = Files(runs[r].event.head)
  BY <1>1 DEF RunHeld, Discovering
<1> QED
  BY <1>1, <1>2, SelectedIsReviewable DEF RunHeld, Triggered

\* The gate decides, and the run ends or asks for its check.
LEMMA GateKeeps ==
  ASSUME GitHubInv, NEW r \in Runs, Gate(r)
  PROVE  GitHubInv'
<1>1. /\ runs[r].phase = "gate" /\ DOMAIN runs = Runs /\ DOMAIN runs[r] = RunFields
      /\ runs[r].setting \in Settings
      /\ runs[r].setting.mode = "configured" =>
           Reviewable(runs[r].setting, Files(runs[r].event.head))
  BY GateWrites
<1>2. PICK d : d = Review(runs[r].setting, runs[r].event)
  OBVIOUS
<1>3. PICK written : written = [runs[r] EXCEPT !.decision = d, !.wrote = TRUE]
  OBVIOUS
<1>4. /\ DOMAIN written = RunFields /\ written.decision = d
      /\ written.attempt = runs[r].attempt /\ written.event = runs[r].event
      /\ written.setting = runs[r].setting
  BY <1>1, <1>3 DEF RunFields, Idle
<1>5. ASSUME NEW exit, NEW status, status # "published", status # "not_applicable",
             Advance(r, Updated(written, Finished(exit, status))),
             exit = 0 => Favourable(runs[r].setting, d)
      PROVE  GitHubInv'
  <2>1. /\ DOMAIN runs' = Runs /\ \A q \in Runs \ {r} : runs'[q] = runs[q]
        /\ runs'[r] = Updated(runs[r], Updated(written, Finished(exit, status)))
        /\ DOMAIN runs'[r] = RunFields
        /\ pull' = pull /\ pushed' = pushed
        /\ posts' = posts /\ checks' = checks /\ replies' = replies
    BY <1>1, <1>5, AdvanceGives
  <2>2. /\ runs'[r].phase = "done" /\ runs'[r].exit = exit /\ runs'[r].status = status
        /\ runs'[r].attempt = runs[r].attempt /\ runs'[r].event = runs[r].event
        /\ runs'[r].setting = runs[r].setting
    BY <1>1, <1>4, <2>1 DEF Updated, Finished, RunFields, Idle
  <2>3. Discovering(runs'[r]) /\ Concluded(runs'[r])
    BY <1>2, <1>5, <2>2 DEF Discovering, Concluded
  <2> QED
    BY <1>1, <1>5, <2>1, <2>2, <2>3, GoingKeeps
<1>6. CASE Advance(r, Updated(written, Failed))
  BY <1>5, <1>6 DEF Failed
<1>7. ASSUME NEW status \in {"fork_skipped", "disabled"},
             Advance(r, Updated(written, Finished(ExitFor(runs[r].setting, d), status)))
      PROVE  GitHubInv'
  <2>1. PICK exit : exit = ExitFor(runs[r].setting, d)
    OBVIOUS
  <2>2. exit = 0 => Favourable(runs[r].setting, d)
    BY <2>1 DEF ExitFor
  <2> QED
    BY <1>5, <1>7, <2>1, <2>2
<1>8. ASSUME posts' = posts \cup {Request(r, d)},
             runs' = [runs EXCEPT ![r] = [written EXCEPT !.phase = "sent"]],
             pull' = pull, pushed' = pushed, checks' = checks, replies' = replies
      PROVE  GitHubInv'
  <2>1. /\ DOMAIN runs' = Runs /\ \A q \in Runs \ {r} : runs'[q] = runs[q]
        /\ DOMAIN runs'[r] = RunFields /\ runs'[r].phase = "sent" /\ runs'[r].decision = d
        /\ runs'[r].attempt = runs[r].attempt /\ runs'[r].event = runs[r].event
        /\ runs'[r].setting = runs[r].setting
    BY <1>1, <1>4, <1>8 DEF RunFields, Idle
  <2>2. PullHeld' /\ replies' \subseteq checks'
    BY <1>8 DEF GitHubInv, PullHeld
  <2>3. \A q \in Runs : \A a : Owed(q, a)' = Owed(q, a)
    BY <2>1 DEF Owed
  <2>4. Request(r, d) = Owed(r, runs[r].attempt)
    BY <1>2 DEF Request, Owed
  <2>5. ASSUME NEW q \in Runs PROVE RunHeld(runs[q])'
    <3>1. CASE q = r
      <4>1. runs[r].attempt \in Nat /\ Triggered(runs[r])
        BY DEF GitHubInv, RunHeld
      <4>2. Triggered(runs[r])'
        BY <1>1, <1>8, <2>1, <4>1 DEF Triggered
      <4>3. Discovering(runs[r])' /\ Concluded(runs[r])'
        BY <1>2, <2>1 DEF Discovering, Concluded
      <4> QED
        BY <2>1, <3>1, <4>1, <4>2, <4>3 DEF RunHeld
    <3>2. CASE q # r
      BY ZenonT(40), <1>8, <2>1, <3>2 DEF GitHubInv, RunHeld, Triggered, Discovering, Concluded
    <3> QED
      BY <3>1, <3>2
  <2>6. ASSUME NEW c \in posts \cup checks PROVE PostHeld(c)'
    <3>1. PostHeld(c)
      BY DEF GitHubInv
    <3>2. c.run \in Runs
      BY <3>1 DEF PostHeld
    <3>3. CASE c.run = r
      BY <1>1, <2>1, <2>3, <3>1, <3>2, <3>3 DEF PostHeld
    <3>4. CASE c.run # r
      BY <2>1, <2>3, <3>1, <3>2, <3>4 DEF PostHeld
    <3> QED
      BY <3>3, <3>4
  <2>7. ASSUME NEW c, c = Request(r, d) PROVE PostHeld(c)'
    <3>1. c = Owed(r, runs[r].attempt)
      BY <2>4, <2>7
    <3>2. c.run = r /\ c.attempt = runs[r].attempt /\ runs[r].attempt \in Nat
      BY <3>1 DEF Owed, GitHubInv, RunHeld
    <3>3. c = Owed(r, runs[r].attempt)'
      BY <2>1, <2>3, <3>1
    <3> QED
      BY <1>1, <2>1, <3>2, <3>3 DEF PostHeld
  <2>8. ASSUME NEW c \in posts' \cup checks' PROVE PostHeld(c)'
    <3>1. c \in posts \cup checks \/ c = Request(r, d)
      BY <1>8
    <3> QED
      BY <2>6, <2>7, <3>1
  <2>9. ASSUME NEW q \in Runs PROVE Published(q)'
    <3>1. CASE q = r
      BY <2>1, <3>1 DEF Published
    <3>2. CASE q # r
      BY <1>8, <2>1, <2>3, <3>2 DEF GitHubInv, Published
    <3> QED
      BY <3>1, <3>2
  <2> QED
    BY <2>1, <2>2, <2>5, <2>8, <2>9 DEF GitHubInv
<1> QED
  BY <1>2, <1>3, <1>6, <1>7, <1>8 DEF Gate

\* A request reaches GitHub, or does not.
LEMMA CheckKeeps ==
  ASSUME GitHubInv, NEW post \in posts, CreateCheck(post) \/ LosePost(post)
  PROVE  GitHubInv'
<1>1. /\ pull' = pull /\ pushed' = pushed /\ runs' = runs
      /\ checks \subseteq checks' /\ posts' \cup checks' \subseteq posts \cup checks
      /\ replies' \subseteq checks'
  BY DEF GitHubInv, CreateCheck, LosePost
<1>2. PullHeld' /\ DOMAIN runs' = Runs
  BY <1>1 DEF GitHubInv, PullHeld
<1>3. \A r \in Runs : RunHeld(runs[r])'
  BY <1>1 DEF GitHubInv, RunHeld, Triggered, Discovering, Concluded
<1>4. \A r \in Runs : \A a : Owed(r, a)' = Owed(r, a)
  BY <1>1 DEF Owed
<1>5. \A c \in posts' \cup checks' : PostHeld(c)'
  BY <1>1, <1>4 DEF GitHubInv, PostHeld
<1>6. \A r \in Runs : Published(r)'
  BY <1>1, <1>4 DEF GitHubInv, Published
<1> QED
  BY <1>1, <1>2, <1>3, <1>5, <1>6 DEF GitHubInv

\* The pull request moves, to commits it did not have before.
LEMMA PullKeeps ==
  ASSUME GitHubInv, (\E h \in Heads : Push(h)) \/ (\E b \in Bases : MoveBase(b))
  PROVE  GitHubInv'
<1>1. /\ runs' = runs /\ posts' = posts /\ checks' = checks /\ replies' = replies
      /\ pushed \subseteq pushed'
  BY DEF Push, MoveBase
<1>2. PullHeld' /\ (pull'.head = pull.head \/ pull'.head \notin pushed)
  <2>1. CASE \E h \in Heads : Push(h)
    <3>1. PICK h \in Heads : Push(h)
      BY <2>1
    <3>2. h \notin pushed /\ pull' = [pull EXCEPT !.head = h] /\ pushed' = pushed \cup {h}
      BY <3>1 DEF Push
    <3> QED
      BY <3>2 DEF GitHubInv, PullHeld
  <2>2. CASE \E b \in Bases : MoveBase(b)
    <3>1. PICK b \in Bases : MoveBase(b)
      BY <2>2
    <3>2. pull' = [pull EXCEPT !.base = b] /\ pushed' = pushed \cup {b}
      BY <3>1 DEF MoveBase
    <3> QED
      BY <3>2 DEF GitHubInv, PullHeld
  <2> QED
    BY <2>1, <2>2
<1>3. ASSUME NEW r \in Runs PROVE RunHeld(runs[r])'
  <2>1. RunHeld(runs[r])
    BY DEF GitHubInv
  <2>2. Triggered(runs[r])' /\ Concluded(runs[r])'
    BY <1>1, <2>1 DEF RunHeld, Triggered, Concluded
  <2>3. Discovering(runs[r])'
    <3>1. CASE runs[r].phase = "idle"
      BY <1>1, <2>1, <3>1 DEF RunHeld, Discovering
    <3>2. CASE runs[r].phase # "idle"
      <4>1. runs[r].event.head \in pushed
        BY <2>1, <3>2 DEF RunHeld, Triggered
      <4>2. pull'.head = runs[r].event.head => pull.head = runs[r].event.head
        BY <1>2, <4>1
      <4> QED
        BY <1>1, <2>1, <4>2 DEF RunHeld, Discovering
    <3> QED
      BY <3>1, <3>2
  <2> QED
    BY <1>1, <2>1, <2>2, <2>3 DEF RunHeld
<1>4. \A r \in Runs : \A a : Owed(r, a)' = Owed(r, a)
  BY <1>1 DEF Owed
<1>5. \A c \in posts' \cup checks' : PostHeld(c)'
  BY <1>1, <1>4 DEF GitHubInv, PostHeld
<1>6. \A r \in Runs : Published(r)'
  BY <1>1, <1>4 DEF GitHubInv, Published
<1> QED
  BY <1>1, <1>2, <1>3, <1>5, <1>6 DEF GitHubInv

\* A run begins an attempt, its first or another under the same event, with no check of it.
LEMMA BeginningKeeps ==
  ASSUME GitHubInv, NEW r \in Runs, NEW run,
         DOMAIN run = RunFields, run.attempt \in Nat, run.files = <<>>,
         run.event.base \in Bases, run.event.head \in Heads, run.event.head \in pushed,
         run.setting \in Settings,
         Advance(r, Updated(run, Started(run.setting))),
         \/ runs[r].phase = "idle" /\ run.attempt = runs[r].attempt
         \/ /\ runs[r].phase = "done" /\ run.attempt = runs[r].attempt + 1
            /\ run.event = runs[r].event /\ run.setting = runs[r].setting
  PROVE  GitHubInv'
<1>1. /\ DOMAIN runs = Runs /\ DOMAIN runs[r] = RunFields /\ runs[r].attempt \in Nat
      /\ RunHeld(runs[r])
  BY DEF GitHubInv, RunHeld
<1>2. /\ DOMAIN runs' = Runs /\ \A q \in Runs \ {r} : runs'[q] = runs[q]
      /\ runs'[r] = Updated(runs[r], Updated(run, Started(run.setting)))
      /\ DOMAIN runs'[r] = RunFields
      /\ pull' = pull /\ pushed' = pushed
      /\ posts' = posts /\ checks' = checks /\ replies' = replies
  BY <1>1, AdvanceGives
<1>3. /\ runs'[r].attempt = run.attempt /\ runs'[r].event = run.event
      /\ runs'[r].setting = run.setting /\ runs'[r].files = <<>>
      /\ \/ runs'[r].phase = "gate" /\ run.setting.mode = "explicit"
         \/ runs'[r].phase = "discover" /\ run.setting.mode # "explicit"
         \/ runs'[r].phase = "done" /\ runs'[r].exit = 2 /\ runs'[r].status = "error"
  BY <1>1, <1>2 DEF Updated, Started, Failed, Finished, RunFields, Idle
<1>4. run.setting.mode \in {"configured", "explicit"}
  BY GitHubAssumption DEF GitHubAssumption
<1>5. PullHeld' /\ replies' \subseteq checks'
  BY <1>2 DEF GitHubInv, PullHeld
<1>6. ASSUME NEW q \in Runs PROVE RunHeld(runs[q])'
  <2>1. CASE q = r
    <3>1. Triggered(runs[r])'
      BY <1>2, <1>3 DEF Triggered
    <3>2. Discovering(runs[r])' /\ Concluded(runs[r])'
      BY <1>2, <1>3, <1>4 DEF Discovering, Concluded
    <3> QED
      BY <1>2, <1>3, <2>1, <3>1, <3>2 DEF RunHeld
  <2>2. CASE q # r
    BY ZenonT(40), <1>2, <2>2 DEF GitHubInv, RunHeld, Triggered, Discovering, Concluded
  <2> QED
    BY <2>1, <2>2
<1>7. \A q \in Runs \ {r} : \A a : Owed(q, a)' = Owed(q, a)
  BY <1>2 DEF Owed
<1>8. ASSUME NEW c \in posts' \cup checks' PROVE PostHeld(c)'
  <2>1. PostHeld(c)
    BY <1>2 DEF GitHubInv
  <2>2. c.run \in Runs /\ c.attempt \in Nat
    BY <2>1 DEF PostHeld
  <2>3. CASE c.run = r
    <3>1. /\ runs[r].phase = "done" /\ run.attempt = runs[r].attempt + 1
          /\ run.event = runs[r].event /\ run.setting = runs[r].setting
      BY <2>1, <2>3 DEF PostHeld
    <3>2. Owed(r, c.attempt)' = Owed(r, c.attempt)
      BY <1>2, <1>3, <3>1 DEF Owed
    <3>3. c.attempt <= runs[r].attempt
      BY <2>1, <2>3 DEF PostHeld
    <3>4. c.attempt <= runs'[r].attempt /\ c.attempt # runs'[r].attempt
      BY <1>1, <1>3, <2>2, <3>1, <3>3
    <3> QED
      BY <1>2, <1>3, <2>1, <2>3, <3>1, <3>2, <3>4 DEF PostHeld
  <2>4. CASE c.run # r
    BY <1>2, <1>7, <2>1, <2>2, <2>4 DEF PostHeld
  <2> QED
    BY <2>3, <2>4
<1>9. ASSUME NEW q \in Runs PROVE Published(q)'
  <2>1. CASE q = r
    BY <1>3, <2>1 DEF Published
  <2>2. CASE q # r
    BY <1>2, <1>7, <2>2 DEF GitHubInv, Published
  <2> QED
    BY <2>1, <2>2
<1> QED
  BY <1>2, <1>5, <1>6, <1>8, <1>9 DEF GitHubInv

\* A run that is triggered, or run again, owes a check it has not asked for.
LEMMA TriggerKeeps ==
  ASSUME GitHubInv, NEW r \in Runs, (\E s \in Settings : Trigger(r, s)) \/ Rerun(r)
  PROVE  GitHubInv'
<1>1. /\ DOMAIN runs[r] = RunFields /\ runs[r].attempt \in Nat
      /\ Triggered(runs[r]) /\ Discovering(runs[r])
  BY DEF GitHubInv, RunHeld
<1>2. ASSUME NEW s \in Settings, Trigger(r, s) PROVE GitHubInv'
  <2>1. PICK run : run = [runs[r] EXCEPT !.event = pull, !.setting = s]
    OBVIOUS
  <2>2. /\ DOMAIN run = RunFields /\ run.attempt = runs[r].attempt /\ run.files = runs[r].files
        /\ run.event = pull /\ run.setting = s
    BY <1>1, <2>1 DEF RunFields, Idle
  <2>3. runs[r].phase = "idle" /\ Advance(r, Updated(run, Started(run.setting)))
    BY <1>2, <2>1, <2>2 DEF Trigger
  <2>4. run.files = <<>>
    BY <1>1, <2>2, <2>3 DEF Discovering
  <2>5. pull.base \in Bases /\ pull.head \in Heads /\ pull.head \in pushed
    BY DEF GitHubInv, PullHeld
  <2> QED
    BY <1>1, <2>2, <2>3, <2>4, <2>5, BeginningKeeps
<1>3. CASE Rerun(r)
  <2>1. PICK run : run = [Idle EXCEPT !.attempt = runs[r].attempt + 1,
                                      !.event = runs[r].event,
                                      !.setting = runs[r].setting,
                                      !.wrote = runs[r].wrote /\ runs[r].setting.reuse]
    OBVIOUS
  <2>2. /\ DOMAIN run = RunFields /\ run.attempt = runs[r].attempt + 1 /\ run.files = <<>>
        /\ run.event = runs[r].event /\ run.setting = runs[r].setting
    BY <1>1, <2>1 DEF RunFields, Idle
  <2>3. runs[r].phase = "done" /\ Advance(r, Updated(run, Started(run.setting)))
    BY <1>3, <2>1, <2>2 DEF Rerun
  <2>4. /\ run.event.base \in Bases /\ run.event.head \in Heads /\ run.event.head \in pushed
        /\ run.setting \in Settings /\ run.attempt \in Nat
    BY <1>1, <2>2, <2>3 DEF Triggered
  <2> QED
    BY <1>1, <2>2, <2>3, <2>4, BeginningKeeps
<1> QED
  BY <1>2, <1>3

\* GitHub's answer names the check of this attempt, so there is one.
LEMMA ReplyKeeps ==
  ASSUME GitHubInv, NEW r \in Runs, ReceiveReply(r)
  PROVE  GitHubInv'
<1>1. /\ DOMAIN runs = Runs /\ DOMAIN runs[r] = RunFields /\ RunHeld(runs[r])
      /\ runs[r].phase = "sent" /\ pull' = pull /\ pushed' = pushed /\ posts' = posts
      /\ checks' = checks /\ replies' \subseteq replies
  BY DEF GitHubInv, RunHeld, ReceiveReply
<1>2. PICK d : d = Review(runs[r].setting, runs[r].event)
  OBVIOUS
<1>3. runs[r].decision = d
  BY <1>1, <1>2 DEF RunHeld, Concluded
<1>4. PICK exit : exit = ExitFor(runs[r].setting, d)
  OBVIOUS
<1>5. exit = 0 <=> Favourable(runs[r].setting, d)
  BY <1>4 DEF ExitFor
<1>6. runs' = [runs EXCEPT ![r] = Updated(@, Finished(exit, "published"))]
  BY <1>3, <1>4 DEF ReceiveReply
<1>7. /\ DOMAIN runs' = Runs /\ \A q \in Runs \ {r} : runs'[q] = runs[q]
      /\ DOMAIN runs'[r] = RunFields /\ runs'[r].phase = "done"
      /\ runs'[r].exit = exit /\ runs'[r].status = "published"
      /\ runs'[r].attempt = runs[r].attempt /\ runs'[r].event = runs[r].event
      /\ runs'[r].setting = runs[r].setting
  BY <1>1, <1>6 DEF Updated, Finished, RunFields, Idle
<1>8. Owed(r, runs[r].attempt) \in checks
  <2>1. Request(r, d) \in replies
    BY <1>3 DEF ReceiveReply, Answered
  <2>2. Request(r, d) = Owed(r, runs[r].attempt)
    BY <1>2 DEF Request, Owed
  <2> QED
    BY <2>1, <2>2 DEF GitHubInv
<1>9. PullHeld' /\ replies' \subseteq checks'
  BY <1>1 DEF GitHubInv, PullHeld
<1>10. \A q \in Runs : \A a : Owed(q, a)' = Owed(q, a)
  BY <1>7 DEF Owed
<1>11. ASSUME NEW q \in Runs PROVE RunHeld(runs[q])'
  <2>1. CASE q = r
    <3>1. Triggered(runs[r])'
      BY <1>1, <1>7 DEF RunHeld, Triggered
    <3>2. Discovering(runs[r])' /\ Concluded(runs[r])'
      BY <1>2, <1>5, <1>7 DEF Discovering, Concluded
    <3> QED
      BY <1>1, <1>7, <2>1, <3>1, <3>2 DEF RunHeld
  <2>2. CASE q # r
    BY ZenonT(40), <1>1, <1>7, <2>2 DEF GitHubInv, RunHeld, Triggered, Discovering, Concluded
  <2> QED
    BY <2>1, <2>2
<1>12. ASSUME NEW c \in posts' \cup checks' PROVE PostHeld(c)'
  <2>1. PostHeld(c)
    BY <1>1 DEF GitHubInv
  <2>2. c.run \in Runs
    BY <2>1 DEF PostHeld
  <2>3. CASE c.run = r
    BY <1>7, <1>10, <2>1, <2>2, <2>3 DEF PostHeld
  <2>4. CASE c.run # r
    BY <1>7, <1>10, <2>1, <2>2, <2>4 DEF PostHeld
  <2> QED
    BY <2>3, <2>4
<1>13. ASSUME NEW q \in Runs PROVE Published(q)'
  <2>1. CASE q = r
    BY <1>1, <1>2, <1>5, <1>7, <1>8, <1>10, <2>1 DEF Published
  <2>2. CASE q # r
    BY <1>1, <1>7, <1>10, <2>2 DEF GitHubInv, Published
  <2> QED
    BY <2>1, <2>2
<1> QED
  BY <1>7, <1>9, <1>11, <1>12, <1>13 DEF GitHubInv

\* Initially no run was triggered and no check was asked for.
LEMMA GitHubStarts == GitHubInit => GitHubInv
<1> SUFFICES ASSUME GitHubInit PROVE GitHubInv
  OBVIOUS
<1>1. PullHeld
  BY DEF GitHubInit, PullHeld
<1>2. /\ DOMAIN runs = Runs /\ replies = {} /\ checks = {} /\ posts = {}
      /\ \A r \in Runs : runs[r] = Idle
  BY DEF GitHubInit
<1>3. RunHeld(Idle)
  BY DEF RunHeld, RunFields, Triggered, Discovering, Concluded, Idle
<1>4. \A r \in Runs : Published(r)
  BY <1>2 DEF Published, Idle
<1> QED
  BY <1>1, <1>2, <1>3, <1>4 DEF GitHubInv

\* Every step of a behaviour keeps the invariant of the GitHub Action.
LEMMA GitHubSteps == GitHubInv /\ [Next]_vars => GitHubInv'
<1> SUFFICES ASSUME GitHubInv, [Next]_vars PROVE GitHubInv'
  OBVIOUS
<1>1. CASE UNCHANGED githubVars
  <2>1. /\ pull' = pull /\ pushed' = pushed /\ runs' = runs /\ posts' = posts
        /\ checks' = checks /\ replies' = replies
    BY <1>1 DEF githubVars
  <2> QED
    BY ZenonT(40), <2>1 DEF GitHubInv, PullHeld, RunHeld, Triggered, Discovering, Concluded, PostHeld, Owed,
                Published
<1>2. CASE GitHubNext
  <2>1. ASSUME NEW r \in Runs, Cancel(r) \/ PublishFails(r)
        PROVE  GitHubInv'
    BY <2>1, EndingKeeps, GitHubAssumption DEF Cancel, PublishFails, Failed, GitHubAssumption
  <2> QED
    BY <1>2, <2>1, PullKeeps, TriggerKeeps, DiscoverKeeps, SkipKeeps, GateKeeps, CheckKeeps,
       ReplyKeeps DEF GitHubNext
<1> QED
  BY <1>1, <1>2 DEF vars, Next, OnEvidence, OnGeneration, OnGitHub, OnDocuments, OnAzure, OnCanary,
                    OnAttestation

\* What a run found, concluded and posted is about the event it was triggered for, in every state.
THEOREM GitHubCorrect == Spec => []GitHubInv
<1>1. Init => GitHubInv
  BY GitHubStarts DEF Init
<1> QED
  BY <1>1, GitHubSteps, PTL DEF Spec

\* One commit of the base branch gives what an automatic run takes from it, the case a head
\* leaves alone and the policy, whichever of the two trees is checked out.
LEMMA OneBase ==
  ASSUME NEW s \in Settings, NEW event, event.base \in Bases, event.head \in Heads,
         s.mode = "configured", PolicyPath(s) \notin AllNames(Files(event.head))
  PROVE  \E b \in Bases : /\ CaseIn(s, event) = CaseOver(event.head, b)
                          /\ PolicyIn(s, event) = Commit[b].policies[PolicyPath(s)]
<1>1. CASE s.checkout = "merge"
  <2>1. PolicyIn(s, event) = Commit[event.base].policies[PolicyPath(s)]
    BY <1>1 DEF PolicyIn, CheckedOut
  <2>2. CaseIn(s, event) = CaseOver(event.head, event.base)
    BY <1>1 DEF CaseIn, CheckedOut, CaseOver
  <2> QED
    BY <2>1, <2>2
<1>2. CASE s.checkout # "merge"
  <2>1. PICK b \in Bases :
          /\ CasePath \notin AllNames(Files(event.head)) => Commit[event.head].case = Commit[b].case
          /\ Commit[event.head].policies[PolicyPath(s)] = Commit[b].policies[PolicyPath(s)]
    BY TreesAssumption DEF TreesAssumption
  <2>2. PolicyIn(s, event) = Commit[b].policies[PolicyPath(s)]
    BY <1>2, <2>1 DEF PolicyIn, CheckedOut
  <2>3. CaseIn(s, event) = CaseOver(event.head, b)
    BY <1>2, <2>1 DEF CaseIn, CheckedOut, CaseOver
  <2> QED
    BY <2>2, <2>3
<1> QED
  BY <1>1, <1>2

\* A check is on the head of its event; of an automatic run it stands only where the pull request
\* changes one component and no governance, and one commit of the base branch gives the policy
\* and, unless the head brings its own, the case it judges.
THEOREM ChecksMatch == Spec => []ChecksMatchTheirCommit
<1>1. GitHubInv => ChecksMatchTheirCommit
  <2> SUFFICES ASSUME GitHubInv, NEW c \in checks
               PROVE  ChecksMatchTheirCommit!(c)
    BY DEF ChecksMatchTheirCommit
  <2> DEFINE run == runs[c.run]
             s == run.setting
             event == run.event
  <2>1. /\ c.run \in Runs /\ run.phase # "idle" /\ c = Owed(c.run, c.attempt)
        /\ s.mode = "configured" => Reviewable(s, Files(event.head))
    BY DEF GitHubInv, PostHeld
  <2>2. /\ c.head = event.head
        /\ c.conclusion = Conclusion(Decide(CaseIn(s, event), PolicyIn(s, event)), s.conditional)
    BY <2>1 DEF Owed, Review
  <2>3. event.base \in Bases /\ event.head \in Heads /\ s \in Settings
    BY <2>1 DEF GitHubInv, RunHeld, Triggered
  <2>4. ASSUME s.mode = "configured"
        PROVE  \E b \in Bases : /\ CaseIn(s, event) = CaseOver(c.head, b)
                                /\ PolicyIn(s, event) = Commit[b].policies[PolicyPath(s)]
    <3>1. PolicyPath(s) \notin AllNames(Files(event.head))
      BY <2>1, <2>4 DEF Reviewable, Governance
    <3> QED
      BY <2>2, <2>3, <2>4, <3>1, OneBase
  <2> QED
    BY <2>1, <2>2, <2>4 DEF Reviewable
<1> QED
  BY <1>1, GitHubCorrect, PTL

\* How a run ends tells the truth about the pull request it was triggered for, and no
\* attempt has two checks.
THEOREM ExitsTrue == Spec => []ExitsTellTheTruth
<1>1. GitHubInv => ExitsTellTheTruth
  <2> SUFFICES ASSUME GitHubInv PROVE ExitsTellTheTruth
    OBVIOUS
  <2>1. ASSUME NEW c \in checks, NEW d \in checks, c.run = d.run, c.attempt = d.attempt
        PROVE  c = d
    BY <2>1 DEF GitHubInv, PostHeld
  <2>2. ASSUME NEW r \in Runs, runs[r].phase = "done", runs[r].status = "published"
        PROVE  \E c \in {x \in checks : x.run = r /\ x.attempt = runs[r].attempt} :
                  (c.conclusion = "success") <=> (runs[r].exit = 0)
    <3>1. PICK c : c = Owed(r, runs[r].attempt)
      OBVIOUS
    <3>2. /\ c.run = r /\ c.attempt = runs[r].attempt
          /\ c.conclusion = Conclusion(Review(runs[r].setting, runs[r].event),
                                       runs[r].setting.conditional)
      BY <3>1 DEF Owed
    <3>3. /\ c \in checks
          /\ runs[r].exit = 0 <=> Favourable(runs[r].setting, Review(runs[r].setting, runs[r].event))
      BY <2>2, <3>1 DEF GitHubInv, Published
    <3>4. (c.conclusion = "success")
            <=> Favourable(runs[r].setting, Review(runs[r].setting, runs[r].event))
      BY <3>2 DEF Conclusion, Favourable
    <3> QED
      BY <3>2, <3>3, <3>4
  <2>3. ASSUME NEW r \in Runs, runs[r].phase = "done",
               runs[r].status \in {"not_applicable", "disabled", "fork_skipped"}
        PROVE  {x \in checks : x.run = r /\ x.attempt = runs[r].attempt} = {}
    BY <2>3 DEF GitHubInv, PostHeld
  <2>4. ASSUME NEW r \in Runs, runs[r].phase = "done", runs[r].exit = 0
        PROVE  IF runs[r].status = "not_applicable"
               THEN Matched(Files(runs[r].event.head)) = {}
               ELSE Favourable(runs[r].setting, Review(runs[r].setting, runs[r].event))
    BY <2>4 DEF GitHubInv, RunHeld, Concluded
  <2> QED
    BY <2>1, <2>2, <2>3, <2>4 DEF ExitsTellTheTruth
<1> QED
  BY <1>1, GitHubCorrect, PTL

-----------------------------------------------------------------------------
(* Documents of a review                                                   *)

DocumentNames == DOMAIN Nothing

\* No document is of the future.
Dated(instant) == instant \in Nat /\ instant <= clock

\* A result is the gate's, whichever run of it wrote it.
ResultHeld(result) ==
  /\ result.decision = Decide(DocumentCase[result.case], DocumentPolicy[result.policy])
  /\ result.findings = Findings(DocumentCase[result.case], DocumentPolicy[result.policy])
  /\ result.action = Actions[result.decision]
  /\ Dated(result.reviewed_at)

\* A publication lists the files its platform's command binds, and its readers accept it.
PublicationHeld(p) ==
  /\ Dated(p.created_at)
  /\ p.platform = "github" =>
       DOMAIN p.artifacts = {"case", "result", "report"} /\ GitHubPublicationParses(p)
  /\ p.platform = "azure" =>
       DOMAIN p.artifacts = {"result", "report"} /\ AzurePublicationParses(p)

\* A receipt is dated, young, and on Azure about the build it names.
VerificationHeld(v) ==
  /\ Dated(v.verified_at) /\ v.age \in Nat /\ v.age <= 2 * PublicationAge
  /\ v.platform = "azure" => Holds(v) /\ v.build = v.publication.build.id

\* A request that was created holds of the job it was created in, and is not late.
RequestHeld(r) ==
  /\ Holds(r.verification) /\ r.review = r.verification.review
  /\ r.findings = r.verification.artifacts.result.findings
  /\ r.head = r.verification.publication.pull.head.sha
  /\ r.number = r.verification.publication.pull.number
  /\ r.run = r.verification.publication.workflow.run
  /\ r.attempt = r.verification.publication.workflow.attempt
  /\ r.conclusion = "success" => \/ r.review.decision = "approve"
                                 \/ r.review.decision = "conditional_pass" /\ r.conditional
  /\ Dated(r.created_at) /\ r.review.reviewed_at \in Nat
  /\ r.created_at - r.review.reviewed_at <=
       2 * (PublicationWindow + PublicationAge + RequestWindow)

\* A check was posted within the last window.
PostedHeld(p) ==
  /\ RequestHeld(p.request)
  /\ p.at - p.request.review.reviewed_at <=
       2 * (PublicationWindow + PublicationAge + RequestWindow + PostWindow) + 1

\* Whatever is in the workspace, on its way or at GitHub holds.
DocumentsInv ==
  /\ clock \in Nat /\ DOMAIN files = DocumentNames
  /\ files.result # Absent => ResultHeld(files.result)
  /\ files.publication # Absent => PublicationHeld(files.publication)
  /\ files.verification # Absent => VerificationHeld(files.verification)
  /\ request # Absent => RequestHeld(request)
  /\ \A p \in posted : PostedHeld(p)
  /\ files.receipt # Absent =>
       \E p \in posted : \E instant \in Nat : files.receipt = CheckReceipt(p.request, instant)

\* A second begins at most one half-second before an instant of it.
LEMMA SecondNear ==
  ASSUME NEW instant \in Nat
  PROVE  Second(instant) \in Nat /\ Second(instant) <= instant /\ instant <= Second(instant) + 1
BY SMT DEF Second

\* What a command writes replaces its documents and no others.
LEMMA CommandWrites ==
  ASSUME DOMAIN files = DocumentNames, NEW command, NEW written, Command(command, written)
  PROVE  /\ DOMAIN files' = DocumentNames /\ request = Absent
         /\ \A name \in DocumentNames \ DOMAIN written : files'[name] = files[name]
         /\ \A name \in DocumentNames \cap DOMAIN written : files'[name] = written[name]
         /\ clock' = clock /\ job' = job /\ posted' = posted
BY DEF Command, Updated

\* What held of a document holds later on.
LEMMA HeldStays ==
  ASSUME clock \in Nat, clock' \in Nat, clock <= clock', NEW x
  PROVE  /\ ResultHeld(x) => ResultHeld(x)'
         /\ PublicationHeld(x) => PublicationHeld(x)'
         /\ VerificationHeld(x) => VerificationHeld(x)'
         /\ RequestHeld(x) => RequestHeld(x)'
         /\ PostedHeld(x) => PostedHeld(x)'
<1>1. ASSUME NEW instant, Dated(instant) PROVE Dated(instant)'
  BY <1>1, SMT DEF Dated
<1>2. ResultHeld(x) => ResultHeld(x)'
  BY <1>1 DEF ResultHeld
<1>3. PublicationHeld(x) => PublicationHeld(x)'
  BY <1>1 DEF PublicationHeld
<1>4. VerificationHeld(x) => VerificationHeld(x)'
  BY <1>1 DEF VerificationHeld
<1>5. ASSUME NEW r, RequestHeld(r) PROVE RequestHeld(r)'
  BY <1>1, <1>5 DEF RequestHeld
<1>6. PostedHeld(x) => PostedHeld(x)'
  BY <1>5 DEF PostedHeld
<1> QED
  BY <1>2, <1>3, <1>4, <1>5, <1>6

\* Steps that leave the posted checks and the receipt alone keep the invariant when each
\* document they write, and the request they leave, is one that holds.
LEMMA WritingKeeps ==
  ASSUME DocumentsInv, clock' \in Nat, clock <= clock', posted' = posted,
         DOMAIN files' = DocumentNames, files'.receipt = files.receipt,
         files'.result = files.result \/ ResultHeld(files'.result),
         files'.publication = files.publication \/ PublicationHeld(files'.publication),
         files'.verification = files.verification \/ VerificationHeld(files'.verification),
         request' \in {request, Absent} \/ RequestHeld(request')
  PROVE  DocumentsInv'
<1> clock \in Nat
  BY DEF DocumentsInv
<1>1. files'.result # Absent => ResultHeld(files.result)'
  <2>1. PICK x : x = files'.result
    OBVIOUS
  <2>2. x # Absent => ResultHeld(x)'
    BY <2>1, HeldStays DEF DocumentsInv
  <2> QED
    BY <2>1, <2>2 DEF ResultHeld, Dated
<1>2. files'.publication # Absent => PublicationHeld(files.publication)'
  <2>1. PICK x : x = files'.publication
    OBVIOUS
  <2>2. x # Absent => PublicationHeld(x)'
    BY <2>1, HeldStays DEF DocumentsInv
  <2> QED
    BY <2>1, <2>2 DEF PublicationHeld, Dated
<1>3. files'.verification # Absent => VerificationHeld(files.verification)'
  <2>1. PICK x : x = files'.verification
    OBVIOUS
  <2>2. x # Absent => VerificationHeld(x)'
    BY <2>1, HeldStays DEF DocumentsInv
  <2> QED
    BY <2>1, <2>2 DEF VerificationHeld, Holds, Dated
<1>4. request' # Absent => RequestHeld(request)'
  <2>1. PICK x : x = request'
    OBVIOUS
  <2>2. x # Absent => RequestHeld(x)'
    BY <2>1, HeldStays DEF DocumentsInv
  <2> QED
    BY <2>1, <2>2 DEF RequestHeld, Holds, Dated
<1>5. \A p \in posted' : PostedHeld(p)'
  BY HeldStays DEF DocumentsInv
<1>6. files'.receipt # Absent =>
        \E p \in posted' : \E instant \in Nat : files'.receipt = CheckReceipt(p.request, instant)
  BY DEF DocumentsInv
<1> QED
  BY <1>1, <1>2, <1>3, <1>4, <1>5, <1>6 DEF DocumentsInv

\* The gate's result is its decision on the case and the policy it names.
LEMMA GateWritesKeep ==
  ASSUME DocumentsInv, NEW policy, RunGate(policy)
  PROVE  DocumentsInv'
<1>1. PICK result : result = ReviewResult(files.case, policy, clock)
  OBVIOUS
<1>2. ResultHeld(result)
  BY <1>1, SMT DEF ResultHeld, ReviewResult, Decide, DocumentsInv, Dated
<1>3. PICK report : report = ReviewBinding(result)
  OBVIOUS
<1>4. request' = request
  BY DEF RunGate
<1>5. DOMAIN files = DocumentNames
  BY DEF DocumentsInv
<1>6. CASE Command("gate", [report |-> report, result |-> result])
  <2>1. PICK written : written = [report |-> report, result |-> result]
    OBVIOUS
  <2>2. Command("gate", written)
    BY <1>6, <2>1
  <2>3. DOMAIN written = {"report", "result"} /\ written.result = result
    BY <2>1
  <2>4. /\ DOMAIN files' = DocumentNames /\ files'.result = result
        /\ files'.publication = files.publication /\ files'.verification = files.verification
        /\ files'.receipt = files.receipt /\ clock' = clock /\ posted' = posted
    BY <1>5, <2>2, <2>3, CommandWrites DEF DocumentNames, Nothing
  <2>5. clock' \in Nat /\ clock <= clock'
    BY <2>4 DEF DocumentsInv
  <2> QED
    BY <1>2, <1>4, <2>4, <2>5, WritingKeeps
<1>7. CASE Command("gate", [report |-> report])
  <2>1. PICK written : written = [report |-> report]
    OBVIOUS
  <2>2. Command("gate", written)
    BY <1>7, <2>1
  <2>3. DOMAIN written = {"report"}
    BY <2>1
  <2>4. /\ DOMAIN files' = DocumentNames /\ files'.result = files.result
        /\ files'.publication = files.publication /\ files'.verification = files.verification
        /\ files'.receipt = files.receipt /\ clock' = clock /\ posted' = posted
    BY <1>5, <2>2, <2>3, CommandWrites DEF DocumentNames, Nothing
  <2>5. clock' \in Nat /\ clock <= clock'
    BY <2>4 DEF DocumentsInv
  <2> QED
    BY <1>4, <2>4, <2>5, WritingKeeps
<1> QED
  BY <1>1, <1>3, <1>6, <1>7 DEF RunGate

\* A publication that holds, when it is written.
LEMMA PublicationWritten ==
  ASSUME DocumentsInv, NEW p, PublicationHeld(p), request' = request,
         Command("publication", [publication |-> p])
  PROVE  DocumentsInv'
<1>1. PICK written : written = [publication |-> p]
  OBVIOUS
<1>2. Command("publication", written) /\ DOMAIN written = {"publication"} /\ written.publication = p
  BY <1>1
<1>3. DOMAIN files = DocumentNames
  BY DEF DocumentsInv
<1>4. /\ DOMAIN files' = DocumentNames /\ files'.publication = p
      /\ files'.result = files.result /\ files'.verification = files.verification
      /\ files'.receipt = files.receipt /\ clock' = clock /\ posted' = posted
  BY <1>2, <1>3, CommandWrites DEF DocumentNames, Nothing
<1>5. clock' \in Nat /\ clock <= clock'
  BY <1>4 DEF DocumentsInv
<1> QED
  BY <1>4, <1>5, WritingKeeps

\* A verification that holds, when it is written.
LEMMA VerificationWritten ==
  ASSUME DocumentsInv, NEW v, VerificationHeld(v), request' = request,
         Command("verification", [verification |-> v])
  PROVE  DocumentsInv'
<1>1. PICK written : written = [verification |-> v]
  OBVIOUS
<1>2. Command("verification", written) /\ DOMAIN written = {"verification"}
      /\ written.verification = v
  BY <1>1
<1>3. DOMAIN files = DocumentNames
  BY DEF DocumentsInv
<1>4. /\ DOMAIN files' = DocumentNames /\ files'.verification = v
      /\ files'.result = files.result /\ files'.publication = files.publication
      /\ files'.receipt = files.receipt /\ clock' = clock /\ posted' = posted
  BY <1>2, <1>3, CommandWrites DEF DocumentNames, Nothing
<1>5. clock' \in Nat /\ clock <= clock'
  BY <1>4 DEF DocumentsInv
<1> QED
  BY <1>4, <1>5, WritingKeeps

\* A publication lists the files of its platform.
LEMMA PublishKeeps ==
  ASSUME DocumentsInv, GitHubPublish \/ AzurePublish
  PROVE  DocumentsInv'
<1>1. Dated(Second(clock))
  BY SecondNear DEF DocumentsInv, Dated
<1>2. CASE GitHubPublish
  <2>1. PICK p : p = GitHubPublication(files, job, clock)
    OBVIOUS
  <2>2. /\ p.created_at = Second(clock) /\ p.platform = "github"
        /\ DOMAIN p.artifacts = {"case", "result", "report"}
    BY <2>1 DEF GitHubPublication, GitHubArtifacts
  <2>3. GitHubPublicationParses(p)
    BY <1>2, <2>1 DEF GitHubPublish, GitHubPublishes
  <2>4. PublicationHeld(p)
    BY <1>1, <2>2, <2>3 DEF PublicationHeld
  <2>5. request' = request /\ Command("publication", [publication |-> p])
    BY <1>2, <2>1 DEF GitHubPublish
  <2> QED
    BY <2>4, <2>5, PublicationWritten
<1>3. CASE AzurePublish
  <2>1. PICK p : p = AzurePublication(files, job, clock)
    OBVIOUS
  <2>2. /\ p.created_at = Second(clock) /\ p.platform = "azure"
        /\ DOMAIN p.artifacts = {"result", "report"}
    BY <2>1 DEF AzurePublication, AzureArtifacts
  <2>3. AzurePublicationParses(p)
    BY <1>3, <2>1 DEF AzurePublish, AzurePublishes
  <2>4. PublicationHeld(p)
    BY <1>1, <2>2, <2>3 DEF PublicationHeld
  <2>5. request' = request /\ Command("publication", [publication |-> p])
    BY <1>3, <2>1 DEF AzurePublish
  <2> QED
    BY <2>4, <2>5, PublicationWritten
<1> QED
  BY <1>2, <1>3

\* The windows of a publication and of its verification add up.
LEMMA WindowsAdd ==
  ASSUME NEW dated \in Nat, NEW created \in Nat, NEW verified \in Nat,
         Within(dated, created, PublicationWindow),
         WithinForward(created, verified, PublicationAge)
  PROVE  verified - dated <= 2 * (PublicationWindow + PublicationAge)
BY DocumentsAssumption, SMT DEF DocumentsAssumption, Within, WithinForward

\* The age of a publication that verifies is a number within its window.
LEMMA AgesFit ==
  ASSUME NEW created \in Nat, NEW verified \in Nat,
         WithinForward(created, verified, PublicationAge)
  PROVE  verified - created \in Nat /\ verified - created <= 2 * PublicationAge
BY SMT DEF WithinForward

\* A GitHub publication that verifies is of the review in the files.
LEMMA GitHubHolds ==
  ASSUME DocumentsInv, NEW instant \in Nat, NEW e, GitHubVerifies(files, e, instant),
         NEW v, v = GitHubVerification(files.publication, instant)
  PROVE  /\ Holds(v) /\ v.review = ReviewBinding(files.result)
         /\ v.artifacts.result = files.result
         /\ v.publication.pull = PullRequest(e) /\ v.publication.workflow = Workflow(e)
         /\ files.result.reviewed_at \in Nat
         /\ instant - files.result.reviewed_at <= 2 * (PublicationWindow + PublicationAge)
<1> DEFINE p == files.publication
           result == files.result
<1>1. /\ files.case # Absent /\ result # Absent /\ files.report # Absent /\ p # Absent
      /\ GitHubPublicationParses(p) /\ p.pull = PullRequest(e) /\ p.workflow = Workflow(e)
      /\ WithinForward(p.created_at, instant, PublicationAge)
      /\ Unchanged(files, p.artifacts)
      /\ CaseFits(files.case, ReviewBinding(result)) /\ ReportFits(files.report, ReviewBinding(result))
      /\ p.review = ReviewBinding(result)
  BY DEF GitHubVerifies
<1>2. ResultHeld(result) /\ PublicationHeld(p)
  BY <1>1 DEF DocumentsInv
<1>3. p.platform = "github" /\ Within(p.review.reviewed_at, p.created_at, PublicationWindow)
  BY <1>1 DEF GitHubPublicationParses
<1>4. /\ p.artifacts.case = files.case /\ p.artifacts.result = result
      /\ p.artifacts.report = files.report
  BY <1>1, <1>2, <1>3 DEF PublicationHeld, Unchanged
<1>5. /\ v.publication = p /\ v.review = p.review /\ v.artifacts = p.artifacts
      /\ v.verified_at = instant
  BY DEF GitHubVerification
<1>6. ReviewBinding(result).reviewed_at = result.reviewed_at /\ ReviewBinding(result).case = result.case
  BY DEF ReviewBinding
<1>7. instant - result.reviewed_at <= 2 * (PublicationWindow + PublicationAge)
  <2>1. result.reviewed_at \in Nat /\ p.created_at \in Nat
    BY <1>2 DEF ResultHeld, PublicationHeld, Dated
  <2>2. Within(result.reviewed_at, p.created_at, PublicationWindow)
    BY <1>1, <1>3, <1>6
  <2> QED
    BY <1>1, <2>1, <2>2, WindowsAdd
<1>8. v.artifacts = v.publication.artifacts /\ v.publication.artifacts.result = result
      /\ v.publication.artifacts.report = v.review /\ v.review = ReviewBinding(result)
  BY <1>1, <1>4, <1>5 DEF ReportFits
<1>9. v.publication.artifacts.case = result.case
  BY <1>1, <1>4, <1>5, <1>6 DEF CaseFits
<1>10. result.decision = Decide(DocumentCase[result.case], DocumentPolicy[result.policy])
       /\ result.reviewed_at \in Nat
  BY <1>2 DEF ResultHeld, Dated
<1>11. Holds(v)
  BY <1>5, <1>7, <1>8, <1>9, <1>10 DEF Holds
<1> QED
  BY <1>1, <1>5, <1>7, <1>8, <1>10, <1>11

\* A GitHub receipt is dated to the second it is written in.
LEMMA GitHubVerifyKeeps ==
  ASSUME DocumentsInv, GitHubVerify
  PROVE  DocumentsInv'
<1>1. Dated(Second(clock))
  BY SecondNear DEF DocumentsInv, Dated
<1>2. PICK v : v = GitHubVerification(files.publication, Second(clock))
  OBVIOUS
<1>3. v.verified_at = Second(clock) /\ v.platform = "github"
      /\ v.age = Second(clock) - files.publication.created_at
  BY <1>2 DEF GitHubVerification
<1>4. PublicationHeld(files.publication)
      /\ WithinForward(files.publication.created_at, Second(clock), PublicationAge)
  BY DEF GitHubVerify, GitHubVerifies, DocumentsInv
<1>5. v.age \in Nat /\ v.age <= 2 * PublicationAge
  BY <1>1, <1>3, <1>4, AgesFit DEF PublicationHeld, Dated
<1>6. VerificationHeld(v)
  BY <1>1, <1>3, <1>5 DEF VerificationHeld
<1>7. request' = request /\ Command("verification", [verification |-> v])
  BY <1>2 DEF GitHubVerify
<1> QED
  BY <1>6, <1>7, VerificationWritten

\* An Azure receipt is of the review in the files and of the build it names.
LEMMA AzureVerifyKeeps ==
  ASSUME DocumentsInv, AzureVerify
  PROVE  DocumentsInv'
<1> DEFINE p == files.publication
           result == files.result
           instant == Second(clock)
<1>1. instant \in Nat /\ Dated(instant)
  BY SecondNear DEF DocumentsInv, Dated
<1>2. PICK v : v = AzureVerification(p, instant)
  OBVIOUS
<1>3. request' = request /\ Command("verification", [verification |-> v])
      /\ AzureVerifies(files, job, instant)
  BY <1>2 DEF AzureVerify
<1>4. /\ result # Absent /\ files.report # Absent /\ p # Absent
      /\ AzurePublicationParses(p)
      /\ WithinForward(p.created_at, instant, PublicationAge)
      /\ Unchanged(files, p.artifacts)
      /\ ReportFits(files.report, ReviewBinding(result)) /\ p.review = ReviewBinding(result)
  BY <1>3 DEF AzureVerifies
<1>5. ResultHeld(result) /\ PublicationHeld(p)
  BY <1>4 DEF DocumentsInv
<1>6. p.platform = "azure" /\ Within(p.review.reviewed_at, p.created_at, PublicationWindow)
  BY <1>4 DEF AzurePublicationParses
<1>7. /\ DOMAIN p.artifacts = {"result", "report"}
      /\ p.artifacts.result = result /\ p.artifacts.report = files.report
  BY <1>4, <1>5, <1>6 DEF PublicationHeld, Unchanged
<1>8. /\ v.publication = p /\ v.review = p.review /\ v.artifacts = p.artifacts
      /\ v.verified_at = instant /\ v.build = p.build.id
      /\ v.age = instant - p.created_at
  BY <1>2 DEF AzureVerification
<1>9. ReviewBinding(result).reviewed_at = result.reviewed_at
  BY DEF ReviewBinding
<1>10. result.reviewed_at \in Nat /\ p.created_at \in Nat
  BY <1>5 DEF ResultHeld, PublicationHeld, Dated
<1>11. instant - result.reviewed_at <= 2 * (PublicationWindow + PublicationAge)
  <2>1. Within(result.reviewed_at, p.created_at, PublicationWindow)
    BY <1>4, <1>6, <1>9
  <2>2. WithinForward(p.created_at, instant, PublicationAge)
    BY <1>4
  <2> HIDE DEF p, result, instant
  <2> QED
    BY <1>1, <1>10, <2>1, <2>2, WindowsAdd
<1>12. /\ v.artifacts = v.publication.artifacts /\ v.publication.artifacts.result = result
       /\ v.publication.artifacts.report = v.review /\ v.review = ReviewBinding(result)
       /\ "case" \notin DOMAIN v.publication.artifacts
  BY <1>4, <1>7, <1>8 DEF ReportFits
<1>13. result.decision = Decide(DocumentCase[result.case], DocumentPolicy[result.policy])
  BY <1>5 DEF ResultHeld
<1>14. Holds(v)
  BY <1>8, <1>11, <1>12, <1>13 DEF Holds
<1>15. v.age \in Nat /\ v.age <= 2 * PublicationAge
  BY <1>1, <1>4, <1>8, <1>10, AgesFit
<1>16. VerificationHeld(v)
  BY <1>1, <1>8, <1>14, <1>15 DEF VerificationHeld
<1> QED
  BY <1>3, <1>16, VerificationWritten

\* A request made from files that reproduce the receipt holds of the running job.
LEMMA CreateKeeps ==
  ASSUME DocumentsInv, NEW conditional \in BOOLEAN, CreateRequest(conditional)
  PROVE  DocumentsInv'
<1> DEFINE v == files.verification
           result == files.result
<1>1. PICK r : r = CheckRequest(files, job, conditional, clock)
  OBVIOUS
<1>2. /\ request' = r /\ Command("request", [request |-> r])
      /\ CreatesRequest(files, job, conditional, clock)
  BY <1>1 DEF CreateRequest
<1>3. /\ v # Absent /\ GitHubVerifies(files, job, v.verified_at)
      /\ v = GitHubVerification(files.publication, v.verified_at)
      /\ Within(v.verified_at, Second(clock), RequestWindow)
  BY <1>2 DEF CreatesRequest, Reproduces
<1>4. v.verified_at \in Nat
  BY <1>3 DEF DocumentsInv, VerificationHeld, Dated
<1>5. /\ Holds(v) /\ v.review = ReviewBinding(result) /\ v.artifacts.result = result
      /\ v.publication.pull = PullRequest(job) /\ v.publication.workflow = Workflow(job)
      /\ result.reviewed_at \in Nat
      /\ v.verified_at - result.reviewed_at <= 2 * (PublicationWindow + PublicationAge)
  BY <1>3, <1>4, GitHubHolds
<1>6. /\ r.verification = v /\ r.review = v.review /\ r.findings = result.findings
      /\ r.head = job.head.sha /\ r.number = job.number /\ r.run = job.run
      /\ r.attempt = job.attempt /\ r.created_at = Second(clock) /\ r.conditional = conditional
      /\ r.conclusion = CheckConclusion(v.review.decision, conditional)
  BY <1>1 DEF CheckRequest
<1>7. /\ r.head = v.publication.pull.head.sha /\ r.number = v.publication.pull.number
      /\ r.run = v.publication.workflow.run /\ r.attempt = v.publication.workflow.attempt
  BY <1>5, <1>6 DEF PullRequest, Workflow
<1>8. r.conclusion = "success" => \/ r.review.decision = "approve"
                                  \/ r.review.decision = "conditional_pass" /\ r.conditional
  BY <1>6 DEF CheckConclusion
<1>9. r.review.reviewed_at = result.reviewed_at
  BY <1>5, <1>6 DEF ReviewBinding
<1>10. Dated(r.created_at) /\ r.created_at \in Nat
  BY <1>6, SecondNear DEF DocumentsInv, Dated
<1>11. r.created_at - r.review.reviewed_at
         <= 2 * (PublicationWindow + PublicationAge + RequestWindow)
  <2>1. PICK verified \in Nat : verified = v.verified_at
    BY <1>4
  <2>2. PICK dated \in Nat : dated = result.reviewed_at
    BY <1>5
  <2>3. PICK created \in Nat : created = r.created_at
    BY <1>10
  <2>4. verified - dated <= 2 * (PublicationWindow + PublicationAge)
    BY <1>5, <2>1, <2>2
  <2>5. created - verified <= 2 * RequestWindow
    BY <1>3, <1>6, <2>1, <2>3 DEF Within
  <2>6. created - dated <= 2 * (PublicationWindow + PublicationAge + RequestWindow)
    BY <2>4, <2>5, DocumentsAssumption DEF DocumentsAssumption
  <2> QED
    BY <1>9, <2>2, <2>3, <2>6
<1>12. RequestHeld(r)
  BY <1>5, <1>6, <1>7, <1>8, <1>9, <1>10, <1>11 DEF RequestHeld
<1>13. PICK written : written = [request |-> r]
  OBVIOUS
<1>14. Command("request", written) /\ DOMAIN written = {"request"}
  BY <1>2, <1>13
<1>15. DOMAIN files = DocumentNames
  BY DEF DocumentsInv
<1>16. /\ DOMAIN files' = DocumentNames /\ files'.verification = files.verification
       /\ files'.result = files.result /\ files'.publication = files.publication
       /\ files'.receipt = files.receipt /\ clock' = clock /\ posted' = posted
  BY <1>14, <1>15, CommandWrites DEF DocumentNames, Nothing
<1>17. clock' \in Nat /\ clock <= clock'
  BY <1>16 DEF DocumentsInv
<1> QED
  BY <1>2, <1>12, <1>16, <1>17, WritingKeeps

\* A check GitHub accepts was posted within the last window, and its receipt names it.
LEMMA PostKeeps ==
  ASSUME DocumentsInv, PostRequest
  PROVE  DocumentsInv'
<1>1. /\ request # Absent /\ request' = Absent /\ clock' = clock
      /\ RequestHeld(request) /\ clock \in Nat /\ DOMAIN files = DocumentNames
  BY DEF PostRequest, DocumentsInv
<1>2. CASE posted' = posted /\ files' = files
  BY <1>1, <1>2, WritingKeeps
<1>3. CASE /\ CanPost(request, clock)
           /\ posted' = posted \cup {[request |-> request, at |-> clock]}
           /\ files' \in {files, [files EXCEPT !.receipt = CheckReceipt(request, clock)]}
  <2>1. PICK new : new = [request |-> request, at |-> clock]
    OBVIOUS
  <2>2. new.request = request /\ new.at = clock /\ posted' = posted \cup {new}
    BY <1>3, <2>1
  <2>3. PostedHeld(new)
    <3>1. PICK dated \in Nat : dated = request.review.reviewed_at
      BY <1>1 DEF RequestHeld
    <3>2. PICK created \in Nat : created = request.created_at
      BY <1>1 DEF RequestHeld, Dated
    <3>3. created - dated <= 2 * (PublicationWindow + PublicationAge + RequestWindow)
      BY <1>1, <3>1, <3>2 DEF RequestHeld
    <3>4. Second(clock) - created <= 2 * PostWindow
      BY <1>3, <3>2 DEF CanPost, Within
    <3>5. Second(clock) \in Nat /\ clock <= Second(clock) + 1
      BY <1>1, SecondNear
    <3>6. clock - dated
            <= 2 * (PublicationWindow + PublicationAge + RequestWindow + PostWindow) + 1
      BY <1>1, <3>3, <3>4, <3>5, DocumentsAssumption DEF DocumentsAssumption
    <3> QED
      BY <1>1, <2>2, <3>1, <3>6 DEF PostedHeld
  <2>4. \A p \in posted' : PostedHeld(p)'
    BY <1>1, <2>2, <2>3, HeldStays DEF DocumentsInv
  <2>5. /\ DOMAIN files' = DocumentNames /\ files'.result = files.result
        /\ files'.publication = files.publication /\ files'.verification = files.verification
        /\ files'.receipt = files.receipt \/ files'.receipt = CheckReceipt(request, clock)
    BY <1>1, <1>3 DEF DocumentNames, Nothing
  <2>6. files'.receipt # Absent =>
          \E p \in posted' : \E instant \in Nat : files'.receipt = CheckReceipt(p.request, instant)
    BY <1>1, <2>2, <2>5 DEF DocumentsInv
  <2>8. files'.result # Absent => ResultHeld(files.result)'
    BY <1>1, <2>5 DEF DocumentsInv, ResultHeld, Dated
  <2>9. files'.publication # Absent => PublicationHeld(files.publication)'
    BY <1>1, <2>5 DEF DocumentsInv, PublicationHeld, Dated
  <2>10. files'.verification # Absent => VerificationHeld(files.verification)'
    BY <1>1, <2>5 DEF DocumentsInv, VerificationHeld, Holds, Dated
  <2> QED
    BY <1>1, <2>4, <2>5, <2>6, <2>8, <2>9, <2>10 DEF DocumentsInv
<1> QED
  BY <1>2, <1>3 DEF PostRequest

\* Initially the workspace holds a case only.
LEMMA DocumentsStart == DocumentsInit => DocumentsInv
<1> SUFFICES ASSUME DocumentsInit PROVE DocumentsInv
  OBVIOUS
<1>1. PICK case \in DOMAIN DocumentCase : files = [Nothing EXCEPT !.case = case]
  BY DEF DocumentsInit
<1>2. /\ DOMAIN files = DocumentNames /\ files.result = Absent /\ files.publication = Absent
      /\ files.verification = Absent /\ files.receipt = Absent
  BY <1>1 DEF DocumentNames, Nothing
<1>3. clock = 0 /\ request = Absent /\ posted = {}
  BY DEF DocumentsInit
<1> QED
  BY <1>2, <1>3 DEF DocumentsInv

\* Every step of a behaviour keeps the invariant of the documents.
LEMMA DocumentsSteps == DocumentsInv /\ [Next]_vars => DocumentsInv'
<1> SUFFICES ASSUME DocumentsInv, [Next]_vars PROVE DocumentsInv'
  OBVIOUS
<1>1. CASE UNCHANGED documentVars
  <2>1. /\ clock' = clock /\ files' = files /\ request' = request /\ posted' = posted
    BY <1>1 DEF documentVars
  <2>2. clock' \in Nat /\ clock <= clock' /\ DOMAIN files' = DocumentNames
    BY <2>1 DEF DocumentsInv
  <2> QED
    BY <2>1, <2>2, WritingKeeps
<1>2. CASE DocumentsNext
  <2>1. CASE PassTime
    <3>1. /\ clock' = clock + 1 /\ files' = files /\ request' = request /\ posted' = posted
      BY <2>1 DEF PassTime
    <3>2. clock' \in Nat /\ clock <= clock' /\ DOMAIN files' = DocumentNames
      BY <3>1 DEF DocumentsInv
    <3> QED
      BY <3>1, <3>2, WritingKeeps
  <2>2. ASSUME NEW e \in Environments, NEW case \in DOMAIN DocumentCase, NextJob(e, case)
        PROVE  DocumentsInv'
    <3>1. /\ clock' = clock /\ files' = [files EXCEPT !.case = case] /\ request' = Absent
          /\ posted' = posted
      BY <2>2 DEF NextJob
    <3>2. clock' \in Nat /\ clock <= clock' /\ DOMAIN files = DocumentNames
      BY <3>1 DEF DocumentsInv
    <3>3. /\ DOMAIN files' = DocumentNames /\ files'.result = files.result
          /\ files'.publication = files.publication /\ files'.verification = files.verification
          /\ files'.receipt = files.receipt
      BY <3>1, <3>2 DEF DocumentNames, Nothing
    <3> QED
      BY <3>1, <3>2, <3>3, WritingKeeps
  <2> QED
    BY <1>2, <2>1, <2>2, GateWritesKeep, PublishKeeps, GitHubVerifyKeeps, AzureVerifyKeeps,
       CreateKeeps, PostKeeps DEF DocumentsNext
<1> QED
  BY <1>1, <1>2 DEF vars, Next, OnEvidence, OnGeneration, OnGitHub, OnDocuments, OnAzure, OnCanary,
                    OnAttestation

\* Every document a job delivers holds, over whatever files and in whatever order its
\* commands ran, for every window and environment.
THEOREM DocumentsCorrect == Spec => []DocumentsInv
<1>1. Init => DocumentsInv
  BY DocumentsStart DEF Init
<1> QED
  BY <1>1, DocumentsSteps, PTL DEF Spec

\* A posted check and an Azure receipt say what the gate decided, within the windows of all
\* steps, for the job that published the review; a fitting check receipt has its check.
THEOREM DeliveredReviews == Spec => []DeliveredReviewsHold
<1>1. DocumentsInv => DeliveredReviewsHold
  <2> SUFFICES ASSUME DocumentsInv PROVE DeliveredReviewsHold
    OBVIOUS
  <2>1. \A p \in posted : PostedHeld(p)
    BY DEF DocumentsInv
  <2>2. files.verification # Absent /\ files.verification.platform = "azure" =>
           /\ Holds(files.verification)
           /\ files.verification.build = files.verification.publication.build.id
    BY DEF DocumentsInv, VerificationHeld
  <2>3. ASSUME files.receipt # Absent, ReceiptFits(files.request, files.receipt)
        PROVE  \E p \in posted : p.request = files.request
    <3>1. PICK p \in posted : \E instant \in Nat : files.receipt = CheckReceipt(p.request, instant)
      BY <2>3 DEF DocumentsInv
    <3>2. PICK instant \in Nat : files.receipt = CheckReceipt(p.request, instant)
      BY <3>1
    <3>3. PICK made : made = CheckReceipt(files.request, 0)
      OBVIOUS
    <3>4. made.request = files.request /\ files.receipt.request = p.request
          /\ "request" \in DOMAIN made /\ "request" \in DOMAIN files.receipt
      BY <3>2, <3>3 DEF CheckReceipt
    <3>5. [files.receipt EXCEPT !.published_at = 0] = [made EXCEPT !.published_at = 0]
      BY <2>3, <3>3 DEF ReceiptFits
    <3>6. [files.receipt EXCEPT !.published_at = 0].request = files.receipt.request
          /\ [made EXCEPT !.published_at = 0].request = made.request
      BY <3>4
    <3> QED
      BY <3>4, <3>5, <3>6
  <2> QED
    BY <2>1, <2>2, <2>3 DEF DeliveredReviewsHold, PostedHeld, RequestHeld
<1> QED
  BY <1>1, DocumentsCorrect, PTL

\* Findings that name each code once, from the given codes.
OnePerCode(findings, codes) ==
  /\ IsFiniteSet(findings)
  /\ \A f \in findings : f.code \in codes /\ f.consequence \in Consequences
  /\ \A f, g \in findings : f.code = g.code => f = g

\* A check that raises one finding names its code once, however it grades it.
LEMMA OneFinding ==
  ASSUME NEW code, NEW consequence \in Consequences, NEW found
  PROVE  OnePerCode(Finding(code, consequence, found), {code})
<1>1. \/ Finding(code, consequence, found) = {}
      \/ Finding(code, consequence, found) = {[code |-> code, consequence |-> consequence]}
  BY DEF Finding
<1>2. IsFiniteSet({}) /\ IsFiniteSet({[code |-> code, consequence |-> consequence]})
  BY FS_EmptySet, FS_Singleton
<1> QED
  BY <1>1, <1>2 DEF OnePerCode

\* So does a check that asks for evidence first and rejects later.
LEMMA OneGraded ==
  ASSUME NEW code, NEW tooFew, NEW failed
  PROVE  OnePerCode(Graded(code, tooFew, failed), {code})
<1>1. \/ Graded(code, tooFew, failed) = {}
      \/ Graded(code, tooFew, failed) = {[code |-> code, consequence |-> "needs_evidence"]}
      \/ Graded(code, tooFew, failed) = {[code |-> code, consequence |-> "reject"]}
  BY DEF Graded, Finding
<1>2. /\ IsFiniteSet({}) /\ IsFiniteSet({[code |-> code, consequence |-> "needs_evidence"]})
      /\ IsFiniteSet({[code |-> code, consequence |-> "reject"]})
  BY FS_EmptySet, FS_Singleton
<1> QED
  BY <1>1, <1>2 DEF OnePerCode, Consequences

\* Checks with codes of their own do not interfere.
LEMMA CodesApart ==
  ASSUME NEW S, NEW T, NEW A, NEW B, OnePerCode(S, A), OnePerCode(T, B), A \cap B = {}
  PROVE  OnePerCode(S \cup T, A \cup B)
<1>1. IsFiniteSet(S \cup T)
  BY FS_Union DEF OnePerCode
<1> QED
  BY <1>1 DEF OnePerCode

\* The requirement has one state.
LEMMA RequirementOnce ==
  ASSUME NEW case
  PROVE  OnePerCode(Requirement(case), {"REQ-001"})
<1>1. \/ Requirement(case) = {}
      \/ Requirement(case) = {[code |-> "REQ-001", consequence |-> "human_review"]}
      \/ Requirement(case) = {[code |-> "REQ-001", consequence |-> "needs_evidence"]}
  BY DEF Requirement, Finding
<1>2. /\ IsFiniteSet({})
      /\ IsFiniteSet({[code |-> "REQ-001", consequence |-> "human_review"]})
      /\ IsFiniteSet({[code |-> "REQ-001", consequence |-> "needs_evidence"]})
  BY FS_EmptySet, FS_Singleton
<1> QED
  BY <1>1, <1>2 DEF OnePerCode, Consequences

\* The reproduction is judged by its oracle and by its trials.
LEMMA ReproductionOnce ==
  ASSUME NEW case, NEW policy
  PROVE  OnePerCode(Reproduction(case, policy), {"VER-001", "VER-002"})
<1> "needs_evidence" \in Consequences
  BY DEF Consequences
<1>1. PICK S, T : /\ Reproduction(case, policy) = S \cup T
                  /\ OnePerCode(S, {"VER-001"}) /\ OnePerCode(T, {"VER-002"})
  BY OneFinding, OneGraded DEF Reproduction
<1>2. OnePerCode(S \cup T, {"VER-001"} \cup {"VER-002"})
  BY <1>1, CodesApart
<1>3. {"VER-001"} \cup {"VER-002"} = {"VER-001", "VER-002"}
  OBVIOUS
<1> QED
  BY <1>1, <1>2, <1>3

\* An intervention is missing, or judged by its isolation and by its trials.
LEMMA InterventionOnce ==
  ASSUME NEW trial, NEW policy
  PROVE  OnePerCode(Intervention(trial, policy), {"ATT-004", "ATT-005"})
<1> "needs_evidence" \in Consequences
  BY DEF Consequences
<1>1. CASE trial = Absent
  <2>1. OnePerCode(Intervention(trial, policy), {"ATT-004"})
    BY <1>1, OneFinding DEF Intervention
  <2> QED
    BY <2>1 DEF OnePerCode
<1>2. CASE trial # Absent
  <2>1. PICK S, T : /\ Intervention(trial, policy) = S \cup T
                    /\ OnePerCode(S, {"ATT-004"}) /\ OnePerCode(T, {"ATT-005"})
    BY <1>2, OneFinding, OneGraded DEF Intervention
  <2>2. OnePerCode(S \cup T, {"ATT-004"} \cup {"ATT-005"})
    BY <2>1, CodesApart
  <2>3. {"ATT-004"} \cup {"ATT-005"} = {"ATT-004", "ATT-005"}
    OBVIOUS
  <2> QED
    BY <2>1, <2>2, <2>3
<1> QED
  BY <1>1, <1>2

\* There is no hypothesis, or the leading one is judged.
LEMMA AttributionOnce ==
  ASSUME NEW case, NEW policy
  PROVE  OnePerCode(Attribution(case, policy),
                    {"ATT-001", "ATT-002", "ATT-003", "ATT-004", "ATT-005"})
<1> "needs_evidence" \in Consequences /\ "reject" \in Consequences
  BY DEF Consequences
<1>1. CASE case.hypotheses = <<>>
  <2>1. OnePerCode(Attribution(case, policy), {"ATT-001"})
    BY <1>1, OneFinding DEF Attribution
  <2> QED
    BY <2>1 DEF OnePerCode
<1>2. CASE case.hypotheses # <<>>
  <2>1. PICK S, T, U, V :
           /\ Attribution(case, policy) = S \cup T \cup U \cup V
           /\ OnePerCode(S, {"ATT-001"}) /\ OnePerCode(T, {"ATT-002"})
           /\ OnePerCode(U, {"ATT-003"}) /\ OnePerCode(V, {"ATT-004", "ATT-005"})
    BY ZenonT(40), <1>2, OneFinding, InterventionOnce DEF Attribution
  <2>2. OnePerCode(S \cup T, {"ATT-001"} \cup {"ATT-002"})
    BY <2>1, CodesApart
  <2>3. OnePerCode((S \cup T) \cup U, ({"ATT-001"} \cup {"ATT-002"}) \cup {"ATT-003"})
    BY <2>1, <2>2, CodesApart
  <2>4. OnePerCode(((S \cup T) \cup U) \cup V,
                   (({"ATT-001"} \cup {"ATT-002"}) \cup {"ATT-003"}) \cup {"ATT-004", "ATT-005"})
    BY <2>1, <2>3, CodesApart
  <2>5. (({"ATT-001"} \cup {"ATT-002"}) \cup {"ATT-003"}) \cup {"ATT-004", "ATT-005"}
          = {"ATT-001", "ATT-002", "ATT-003", "ATT-004", "ATT-005"}
    OBVIOUS
  <2> QED
    BY <2>1, <2>4, <2>5
<1> QED
  BY <1>1, <1>2

\* A change is judged by its null hypothesis and by its size.
LEMMA ChangeOnce ==
  ASSUME NEW case, NEW policy
  PROVE  OnePerCode(Change(case, policy), {"NULL-001", "MIN-001"})
<1> "needs_evidence" \in Consequences /\ "reject" \in Consequences
  BY DEF Consequences
<1>1. PICK S, T : /\ Change(case, policy) = S \cup T
                  /\ OnePerCode(S, {"NULL-001"}) /\ OnePerCode(T, {"MIN-001"})
  BY OneFinding DEF Change
<1>2. OnePerCode(S \cup T, {"NULL-001"} \cup {"MIN-001"})
  BY <1>1, CodesApart
<1>3. {"NULL-001"} \cup {"MIN-001"} = {"NULL-001", "MIN-001"}
  OBVIOUS
<1> QED
  BY <1>1, <1>2, <1>3

\* The controls of each kind are graded.
LEMMA ControlsOnce ==
  ASSUME NEW case, NEW policy
  PROVE  /\ OnePerCode(PositiveControls(case, policy), {"VAL-001"})
         /\ OnePerCode(NegativeControls(case, policy), {"VAL-002"})
         /\ OnePerCode(RegressionControls(case, policy), {"VAL-003"})
BY OneGraded DEF PositiveControls, NegativeControls, RegressionControls

\* Cost and latency are judged, or were not measured.
LEMMA MetricsOnce ==
  ASSUME NEW case, NEW policy
  PROVE  OnePerCode(Metrics(case, policy), {"MET-001", "MET-002"})
<1>1. ASSUME NEW code, NEW measure, NEW percent
      PROVE  OnePerCode(Metric(code, measure, percent, policy), {code})
  BY OneFinding DEF Metric, Consequences
<1>2. CASE case.metrics = Absent
  <2>1. OnePerCode(Metrics(case, policy), {"MET-001"})
    BY <1>2, OneFinding DEF Metrics, Consequences
  <2> QED
    BY <2>1 DEF OnePerCode
<1>3. CASE case.metrics # Absent
  <2>1. PICK S, T : /\ Metrics(case, policy) = S \cup T
                    /\ OnePerCode(S, {"MET-001"}) /\ OnePerCode(T, {"MET-002"})
    BY <1>1, <1>3 DEF Metrics
  <2>2. OnePerCode(S \cup T, {"MET-001"} \cup {"MET-002"})
    BY <2>1, CodesApart
  <2>3. {"MET-001"} \cup {"MET-002"} = {"MET-001", "MET-002"}
    OBVIOUS
  <2> QED
    BY <2>1, <2>2, <2>3
<1> QED
  BY <1>2, <1>3

\* The gate raises no code twice, on any case and policy.
LEMMA FindingsOnce ==
  ASSUME NEW case, NEW policy
  PROVE  \E codes : OnePerCode(Findings(case, policy), codes)
<1> DEFINE A == {"REQ-001"}
           B == {"VER-001", "VER-002"}
           C == {"ATT-001", "ATT-002", "ATT-003", "ATT-004", "ATT-005"}
           D == {"NULL-001", "MIN-001"}
           E == {"VAL-001"}
           F == {"VAL-002"}
           G == {"VAL-003"}
           H == {"MET-001", "MET-002"}
           S1 == Requirement(case) \cup Reproduction(case, policy)
           S2 == S1 \cup Attribution(case, policy)
           S3 == S2 \cup Change(case, policy)
           S4 == S3 \cup PositiveControls(case, policy)
           S5 == S4 \cup NegativeControls(case, policy)
           S6 == S5 \cup RegressionControls(case, policy)
<1>1. /\ A \cap B = {} /\ (A \cup B) \cap C = {} /\ (A \cup B \cup C) \cap D = {}
      /\ (A \cup B \cup C \cup D) \cap E = {} /\ (A \cup B \cup C \cup D \cup E) \cap F = {}
      /\ (A \cup B \cup C \cup D \cup E \cup F) \cap G = {}
      /\ (A \cup B \cup C \cup D \cup E \cup F \cup G) \cap H = {}
  OBVIOUS
<1>2. /\ OnePerCode(Requirement(case), A) /\ OnePerCode(Reproduction(case, policy), B)
      /\ OnePerCode(Attribution(case, policy), C) /\ OnePerCode(Change(case, policy), D)
      /\ OnePerCode(PositiveControls(case, policy), E)
      /\ OnePerCode(NegativeControls(case, policy), F)
      /\ OnePerCode(RegressionControls(case, policy), G)
      /\ OnePerCode(Metrics(case, policy), H)
  BY RequirementOnce, ReproductionOnce, AttributionOnce, ChangeOnce, ControlsOnce, MetricsOnce
<1> HIDE DEF A, B, C, D, E, F, G, H
<1>3. OnePerCode(S1, A \cup B)
  BY <1>1, <1>2, CodesApart
<1>4. OnePerCode(S2, A \cup B \cup C)
  BY <1>1, <1>2, <1>3, CodesApart
<1>5. OnePerCode(S3, A \cup B \cup C \cup D)
  BY <1>1, <1>2, <1>4, CodesApart
<1>6. OnePerCode(S4, A \cup B \cup C \cup D \cup E)
  BY <1>1, <1>2, <1>5, CodesApart
<1>7. OnePerCode(S5, A \cup B \cup C \cup D \cup E \cup F)
  BY <1>1, <1>2, <1>6, CodesApart
<1>8. OnePerCode(S6, A \cup B \cup C \cup D \cup E \cup F \cup G)
  BY <1>1, <1>2, <1>7, CodesApart
<1>9. OnePerCode(S6 \cup Metrics(case, policy), A \cup B \cup C \cup D \cup E \cup F \cup G \cup H)
  BY <1>1, <1>2, <1>8, CodesApart
<1>10. Findings(case, policy) = S6 \cup Metrics(case, policy)
  BY DEF Findings
<1> QED
  BY <1>9, <1>10

\* Findings that name each code once have as many codes.
LEMMA CodesCount ==
  ASSUME NEW findings, NEW codes, OnePerCode(findings, codes)
  PROVE  Cardinality({f.code : f \in findings}) = Cardinality(findings)
<1> DEFINE T == {f.code : f \in findings}
           code == [f \in findings |-> f.code]
<1>1. code \in [findings -> T]
  OBVIOUS
<1>2. \A t \in T : \E f \in findings : code[f] = t
  OBVIOUS
<1>3. \A f, g \in findings : code[f] = code[g] => f = g
  BY DEF OnePerCode
<1>4. IsFiniteSet(findings)
  BY DEF OnePerCode
<1> HIDE DEF T, code
<1>5. code \in Surjection(findings, T)
  BY <1>1, <1>2, Fun_IsSurj
<1>6. code \in Injection(findings, T)
  BY <1>1, <1>3, Fun_IsInj
<1>7. Cardinality(T) = Cardinality(findings)
  BY <1>4, <1>5, <1>6, FS_Surjection
<1> QED
  BY <1>7 DEF T

\* The decision made again from the findings is the gate's.
LEMMA DecisionAgain ==
  ASSUME NEW findings
  PROVE  DecisionForFindings(findings) = DecisionFor(findings)
BY DEF DecisionForFindings, DecisionFor

\* What a result and the files of one gate give to every command after it.
LEMMA OneGateGives ==
  ASSUME DocumentsInv, OfOneGate(files)
  PROVE  /\ files.case # Absent /\ files.result # Absent /\ files.report # Absent
         /\ CaseFits(files.case, ReviewBinding(files.result))
         /\ ReportFits(files.report, ReviewBinding(files.result))
         /\ ResultHeld(files.result)
         /\ ReviewBinding(files.result).reviewed_at = files.result.reviewed_at
BY DEF OfOneGate, DocumentsInv, CaseFits, ReportFits, ReviewBinding

\* A date cut to the second is no more than a second before a document of the past, and in
\* its window when the time is.
LEMMA SecondInWindow ==
  ASSUME clock \in Nat, NEW from, Dated(from), NEW span \in Nat, clock - from <= 2 * span
  PROVE  /\ Within(from, Second(clock), span)
         /\ from = Second(from) => WithinForward(from, Second(clock), span)
<1>1. PICK second \in Nat : second = Second(clock) /\ second <= clock /\ clock <= second + 1
  BY SecondNear
<1>2. from \in Nat /\ from <= clock
  BY DEF Dated
<1>3. Within(from, Second(clock), span)
  BY <1>1, <1>2 DEF Within
<1>4. from = Second(from) => from <= Second(clock)
  BY <1>2, SMT DEF Second
<1>5. from = Second(from) => WithinForward(from, Second(clock), span)
  BY <1>1, <1>2, <1>4 DEF WithinForward
<1> QED
  BY <1>3, <1>5

\* A prompt job publishes what its gate wrote.
LEMMA PromptPublish ==
  ASSUME DocumentsInv, OfOneGate(files),
         clock - files.result.reviewed_at <= 2 * PublicationWindow
  PROVE  /\ GitHubJob(job) => GitHubPublishes(files, job, clock)
         /\ AzureJob(job) => AzurePublishes(files, job, clock)
<1>1. Within(files.result.reviewed_at, Second(clock), PublicationWindow)
  <2>1. clock \in Nat /\ Dated(files.result.reviewed_at) /\ PublicationWindow \in Nat
    BY OneGateGives, DocumentsAssumption DEF DocumentsInv, ResultHeld, DocumentsAssumption
  <2> QED
    BY <2>1, SecondInWindow
<1>2. ASSUME GitHubJob(job) PROVE GitHubPublishes(files, job, clock)
  <2>1. PICK p : p = GitHubPublication(files, job, clock)
    OBVIOUS
  <2>2. /\ p.platform = "github" /\ p.created_at = Second(clock)
        /\ p.review = ReviewBinding(files.result)
        /\ p.pull = PullRequest(job) /\ p.workflow = Workflow(job)
    BY <2>1 DEF GitHubPublication
  <2>3. PullRequestParses(PullRequest(job)) /\ WorkflowParses(Workflow(job))
        /\ ContextAgrees(PullRequest(job), Workflow(job))
    BY <1>2 DEF GitHubJob, PullRequestParses, WorkflowParses, PullRequest, Workflow
  <2>4. GitHubPublicationParses(p)
    BY <1>1, <2>2, <2>3, OneGateGives DEF GitHubPublicationParses
  <2> QED
    BY <1>2, <2>1, <2>4, OneGateGives DEF GitHubPublishes
<1>3. ASSUME AzureJob(job) PROVE AzurePublishes(files, job, clock)
  <2>1. PICK p : p = AzurePublication(files, job, clock)
    OBVIOUS
  <2>2. /\ p.platform = "azure" /\ p.created_at = Second(clock)
        /\ p.review = ReviewBinding(files.result)
        /\ p.tfvc = Tfvc(job) /\ p.build = Build(job)
    BY <2>1 DEF AzurePublication
  <2>3. BuildParses(Build(job))
    BY <1>3 DEF AzureJob, BuildParses, Build
  <2>4. TargetFitsBuild(Tfvc(job), Build(job))
    <3>1. CASE job.shelveset = Absent
      BY <1>3, <3>1 DEF AzureJob, TargetFitsBuild, OfChangeset, Tfvc, Build
    <3>2. CASE job.shelveset # Absent
      BY <1>3, <3>2 DEF AzureJob, TargetFitsBuild, OfChangeset, Tfvc, Build
    <3> QED
      BY <3>1, <3>2
  <2>5. AzurePublicationParses(p)
    BY <1>1, <2>2, <2>3, <2>4, OneGateGives DEF AzurePublicationParses
  <2> QED
    BY <1>3, <2>1, <2>5, OneGateGives DEF AzurePublishes
<1> QED
  BY <1>2, <1>3

\* A publication made from the files verifies at every instant of its window.
LEMMA PromptGitHubVerifies ==
  ASSUME DocumentsInv, OfOneGate(files), files.publication # Absent,
         files.publication = GitHubPublication(files, job, files.publication.created_at),
         NEW instant, WithinForward(files.publication.created_at, instant, PublicationAge)
  PROVE  GitHubVerifies(files, job, instant)
<1> DEFINE p == files.publication
<1>1. PICK created : created = p.created_at
  OBVIOUS
<1>2. p = GitHubPublication(files, job, created)
  BY <1>1
<1>3. /\ p.platform = "github" /\ p.review = ReviewBinding(files.result)
      /\ p.pull = PullRequest(job) /\ p.workflow = Workflow(job)
      /\ p.artifacts = GitHubArtifacts(files)
  BY <1>2 DEF GitHubPublication
<1>4. GitHubPublicationParses(p)
  BY <1>3 DEF DocumentsInv, PublicationHeld
<1>5. Unchanged(files, p.artifacts)
  BY <1>3 DEF Unchanged, GitHubArtifacts
<1> QED
  BY <1>3, <1>4, <1>5, OneGateGives DEF GitHubVerifies

\* So does one of an Azure build.
LEMMA PromptAzureVerifies ==
  ASSUME DocumentsInv, OfOneGate(files), files.publication # Absent,
         files.publication = AzurePublication(files, job, files.publication.created_at),
         NEW instant, WithinForward(files.publication.created_at, instant, PublicationAge)
  PROVE  AzureVerifies(files, job, instant)
<1> DEFINE p == files.publication
<1>1. PICK created : created = p.created_at
  OBVIOUS
<1>2. p = AzurePublication(files, job, created)
  BY <1>1
<1>3. /\ p.platform = "azure" /\ p.review = ReviewBinding(files.result)
      /\ p.tfvc = Tfvc(job) /\ p.build = Build(job) /\ p.artifacts = AzureArtifacts(files)
  BY <1>2 DEF AzurePublication
<1>4. AzurePublicationParses(p)
  BY <1>3 DEF DocumentsInv, PublicationHeld
<1>5. Unchanged(files, p.artifacts)
  BY <1>3 DEF Unchanged, AzureArtifacts
<1> QED
  BY <1>3, <1>4, <1>5, OneGateGives DEF AzureVerifies

\* A prompt job verifies what it published.
LEMMA PromptVerify ==
  ASSUME DocumentsInv, OfOneGate(files), files.publication # Absent,
         clock - files.publication.created_at <= 2 * PublicationAge
  PROVE  /\ /\ GitHubJob(job)
            /\ files.publication = GitHubPublication(files, job, files.publication.created_at)
            => GitHubVerifies(files, job, Second(clock))
         /\ /\ AzureJob(job)
            /\ files.publication = AzurePublication(files, job, files.publication.created_at)
            => AzureVerifies(files, job, Second(clock))
<1>1. PICK created : created = files.publication.created_at
  OBVIOUS
<1>2. clock \in Nat /\ Dated(created) /\ PublicationAge \in Nat
  BY <1>1, DocumentsAssumption DEF DocumentsInv, PublicationHeld, DocumentsAssumption
<1>3. created = Second(created) => WithinForward(created, Second(clock), PublicationAge)
  BY <1>1, <1>2, SecondInWindow
<1>4. ASSUME files.publication = GitHubPublication(files, job, created)
      PROVE  GitHubVerifies(files, job, Second(clock))
  <2>1. created = Second(created)
    BY <1>1, <1>4 DEF GitHubPublication
  <2> QED
    BY <1>1, <1>3, <1>4, <2>1, PromptGitHubVerifies
<1>5. ASSUME files.publication = AzurePublication(files, job, created)
      PROVE  AzureVerifies(files, job, Second(clock))
  <2>1. created = Second(created)
    BY <1>1, <1>5 DEF AzurePublication
  <2> QED
    BY <1>1, <1>3, <1>5, <2>1, PromptAzureVerifies
<1> QED
  BY <1>1, <1>4, <1>5

\* The request of a prompt job reproduces the receipt, and its own parser accepts it.
LEMMA PromptCreate ==
  ASSUME DocumentsInv, OfOneGate(files), files.verification # Absent, files.publication # Absent,
         GitHubJob(job),
         files.publication = GitHubPublication(files, job, files.publication.created_at),
         files.verification
           = GitHubVerification(files.publication, files.verification.verified_at),
         clock - files.verification.verified_at <= 2 * RequestWindow,
         NEW conditional \in BOOLEAN
  PROVE  CreatesRequest(files, job, conditional, clock)
<1> DEFINE p == files.publication
           v == files.verification
           result == files.result
<1>1. PICK verified : verified = v.verified_at
  OBVIOUS
<1>2. v = GitHubVerification(p, verified)
  BY <1>1
<1>3. /\ v.platform = "github" /\ v.age = verified - p.created_at /\ v.review = p.review
      /\ v.pull = p.pull /\ v.workflow = p.workflow
  BY <1>2 DEF GitHubVerification
<1>4. PICK created : created = p.created_at
  OBVIOUS
<1>5. p = GitHubPublication(files, job, created)
  BY <1>4
<1>6. p.review = ReviewBinding(result) /\ p.platform = "github"
  BY <1>5 DEF GitHubPublication
<1>7. VerificationHeld(v) /\ PublicationHeld(p) /\ ResultHeld(result)
  BY OneGateGives DEF DocumentsInv
<1>8. /\ v.age \in Nat /\ v.age <= 2 * PublicationAge /\ verified \in Nat /\ Dated(verified)
      /\ created \in Nat /\ v.age = verified - created
  BY <1>1, <1>3, <1>4, <1>7 DEF VerificationHeld, PublicationHeld, Dated
<1>9. WithinForward(created, verified, PublicationAge)
  <2>1. PICK age \in Nat : age = v.age
    BY <1>8
  <2>2. age = verified - created /\ age <= 2 * PublicationAge
    BY <1>8, <2>1
  <2> QED
    BY <1>8, <2>2 DEF WithinForward
<1>10. Reproduces(files, job)
  <2>1. GitHubVerifies(files, job, verified)
    BY <1>4, <1>9, PromptGitHubVerifies
  <2> QED
    BY <1>1, <1>2, <2>1 DEF Reproduces
<1>11. GitHubVerificationParses(v)
  <2>1. PullRequestParses(p.pull) /\ WorkflowParses(p.workflow) /\ ContextAgrees(p.pull, p.workflow)
    BY <1>6, <1>7 DEF PublicationHeld, GitHubPublicationParses
  <2>2. 0 <= v.age
    BY <1>8
  <2> QED
    BY <1>3, <1>8, <2>1, <2>2 DEF GitHubVerificationParses
<1>12. Within(verified, Second(clock), RequestWindow)
  <2>1. clock \in Nat /\ RequestWindow \in Nat
    BY DocumentsAssumption DEF DocumentsInv, DocumentsAssumption
  <2> QED
    BY <1>1, <1>8, <2>1, SecondInWindow
<1>13. PICK r : r = CheckRequest(files, job, conditional, clock)
  OBVIOUS
<1>14. /\ r.review = v.review /\ r.findings = result.findings /\ r.conditional = conditional
       /\ r.conclusion = CheckConclusion(v.review.decision, conditional)
       /\ r.number = job.number /\ r.run = job.run /\ r.attempt = job.attempt
       /\ r.verification = v
       /\ r.external = ExternalId(job.number, job.run, job.attempt, v)
  BY <1>13 DEF CheckRequest
<1>15. r.review.action = result.action /\ r.review.decision = result.decision
  BY <1>3, <1>6, <1>14 DEF ReviewBinding
<1>16. CheckReviewParses(r.review)
  BY <1>7, <1>15 DEF CheckReviewParses, ResultHeld
<1>17. PICK codes : OnePerCode(r.findings, codes)
  BY <1>7, <1>14, FindingsOnce DEF ResultHeld
<1>18. \A f \in r.findings : CheckFindingParses(f)
  BY <1>17 DEF OnePerCode, CheckFindingParses
<1>19. r.review.decision = DecisionForFindings(r.findings)
  BY <1>7, <1>14, <1>15, DecisionAgain DEF ResultHeld, Decide
<1>20. RequestAgrees(r)
  BY <1>14, <1>17, <1>19, CodesCount DEF RequestAgrees
<1>21. RequestParses(r)
  BY <1>16, <1>18, <1>20 DEF RequestParses
<1> QED
  BY <1>1, <1>10, <1>11, <1>12, <1>13, <1>21 DEF CreatesRequest

\* A job with a sound environment that runs the commands in order, on the files of one gate
\* run and within each window, is never refused.
THEOREM PromptSteps == Spec => []PromptStepsAccepted
<1>1. DocumentsInv => PromptStepsAccepted
  <2> SUFFICES ASSUME DocumentsInv, OfOneGate(files) PROVE PromptStepsAccepted
    BY DEF PromptStepsAccepted
  <2>1. ASSUME request # Absent, ~request.fork,
               clock - request.created_at <= 2 * PostWindow
        PROVE  CanPost(request, clock)
    <3>1. PICK created : created = request.created_at
      OBVIOUS
    <3>2. clock \in Nat /\ Dated(created) /\ PostWindow \in Nat
      BY <2>1, <3>1, DocumentsAssumption DEF DocumentsInv, RequestHeld, DocumentsAssumption
    <3>3. Within(created, Second(clock), PostWindow)
      BY <2>1, <3>1, <3>2, SecondInWindow
    <3> QED
      BY <2>1, <3>1, <3>3 DEF CanPost
  <2> QED
    BY <2>1, PromptPublish, PromptVerify, PromptCreate DEF PromptStepsAccepted
<1> QED
  BY <1>1, DocumentsCorrect, PTL

-----------------------------------------------------------------------------
(* Canaries: the score interval                                            *)

\* A set of numbers has a least one.
LEMMA LeastNumber ==
  ASSUME NEW S \in SUBSET Nat, S # {}
  PROVE  \E x \in S : \A y \in S : x <= y
<1> DEFINE R == {ss \in Nat \X Nat : ss[1] < ss[2]}
<1>1. IsWellFoundedOn(R, Nat)
  BY NatLessThanWellFounded, Zenon DEF OpToRel
<1>2. PICK x \in S : \A y \in S : <<y, x>> \notin R
  <2> HIDE DEF R
  <2> QED
    BY <1>1, WFMin
<1>3. ASSUME NEW y \in S
      PROVE  ~(y < x)
  <2>1. <<y, x>> \in Nat \X Nat
    OBVIOUS
  <2> QED
    BY <1>2, <2>1
<1> QED
  BY <1>3

\* Products keep their order.
LEMMA ProductsGrow ==
  ASSUME NEW a \in Nat, NEW b \in Nat, NEW c \in Nat, NEW d \in Nat, a <= c, b <= d
  PROVE  a * b <= c * d
<1>1. PICK e \in Nat : c = a + e
  <2>1. c - a \in Nat /\ c = a + (c - a)
    OBVIOUS
  <2> QED
    BY <2>1
<1>2. PICK f \in Nat : d = b + f
  <2>1. d - b \in Nat /\ d = b + (d - b)
    OBVIOUS
  <2> QED
    BY <2>1
<1>3. c * d = a * b + a * f + e * b + e * f
  BY <1>1, <1>2
<1>4. a * b \in Nat /\ a * f \in Nat /\ e * b \in Nat /\ e * f \in Nat
  OBVIOUS
<1> QED
  BY <1>3, <1>4

\* Every number up to a square has a root up to its side.
LEMMA RootExists ==
  ASSUME NEW x \in Nat, NEW bound \in Nat, x <= bound * bound
  PROVE  \E r \in 0 .. bound : r * r <= x /\ x < (r + 1) * (r + 1)
<1> DEFINE S == {r \in Nat : x < (r + 1) * (r + 1)}
<1>1. bound \in S
  <2>1. (bound + 1) * (bound + 1) = bound * bound + 2 * bound + 1
    OBVIOUS
  <2>2. bound * bound \in Nat
    OBVIOUS
  <2> QED
    BY <2>1, <2>2
<1>2. PICK r \in S : \A y \in S : r <= y
  BY <1>1, LeastNumber
<1>3. r \in Nat /\ r <= bound /\ x < (r + 1) * (r + 1)
  BY <1>1, <1>2
<1>4. CASE r = 0
  BY <1>3, <1>4
<1>5. CASE r # 0
  <2>1. PICK s \in Nat : r = s + 1
    <3>1. r - 1 \in Nat /\ r = (r - 1) + 1
      BY <1>3, <1>5
    <3> QED
      BY <3>1
  <2>2. s \notin S
    BY <1>2, <2>1
  <2>3. ~(x < (s + 1) * (s + 1))
    BY <2>2
  <2>4. r * r <= x
    BY <1>3, <2>1, <2>3
  <2> QED
    BY <1>3, <2>4
<1> QED
  BY <1>4, <1>5

\* The square root of the model, with its bound, is one.
LEMMA RootIsRoot ==
  ASSUME NEW x \in Nat, NEW bound \in Nat, x <= bound * bound
  PROVE  /\ Root(x, bound) \in Nat
         /\ x < (Root(x, bound) + 1) * (Root(x, bound) + 1)
<1> DEFINE Fits(r, step) == r * r <= x /\ x < (r + step) * (r + step)
           high == CHOOSE h \in 0 .. bound \div 128 : Fits(128 * h, 128)
           low == CHOOSE l \in 0 .. 127 : Fits(128 * high + l, 1)
<1>1. PICK r \in 0 .. bound : Fits(r, 1)
  BY RootExists
<1>2. PICK a \in 0 .. bound \div 128, b \in 0 .. 127 : r = 128 * a + b
  <2>1. r \div 128 \in Nat /\ r \div 128 <= bound \div 128
    BY SMT
  <2>2. r - 128 * (r \div 128) \in 0 .. 127
    BY SMT
  <2>3. bound \div 128 \in Nat /\ r = 128 * (r \div 128) + (r - 128 * (r \div 128))
    BY <2>1, SMT
  <2> QED
    BY <2>1, <2>2, <2>3
<1>3. Fits(128 * a, 128)
  <2>1. (128 * a) * (128 * a) <= r * r
    BY <1>2, ProductsGrow
  <2>2. (r + 1) * (r + 1) <= (128 * a + 128) * (128 * a + 128)
    BY <1>2, ProductsGrow
  <2>3. PICK A \in Nat, B \in Nat, C \in Nat, D \in Nat :
           A = (128 * a) * (128 * a) /\ B = r * r /\ C = (r + 1) * (r + 1)
           /\ D = (128 * a + 128) * (128 * a + 128)
    OBVIOUS
  <2>4. A <= B /\ B <= x /\ x < C /\ C <= D
    BY <1>1, <2>1, <2>2, <2>3
  <2>5. A <= x /\ x < D
    BY <2>4
  <2> QED
    BY <2>3, <2>5
<1>4. \E h \in 0 .. bound \div 128 : Fits(128 * h, 128)
  BY <1>3
<1>5. high \in 0 .. bound \div 128 /\ Fits(128 * high, 128)
  BY <1>4
<1>6. high = a
  <2>1. high \in Nat /\ a \in Nat
    BY <1>5
  <2>2. ~(high < a)
    <3>1. SUFFICES ASSUME high < a PROVE FALSE
      OBVIOUS
    <3>2. (128 * high + 128) * (128 * high + 128) <= (128 * a) * (128 * a)
      BY <2>1, <3>1, ProductsGrow
    <3> QED
      BY <1>3, <1>5, <2>1, <3>2
  <2>3. ~(a < high)
    <3>1. SUFFICES ASSUME a < high PROVE FALSE
      OBVIOUS
    <3>2. (128 * a + 128) * (128 * a + 128) <= (128 * high) * (128 * high)
      BY <2>1, <3>1, ProductsGrow
    <3> QED
      BY <1>3, <1>5, <2>1, <3>2
  <2> QED
    BY <2>1, <2>2, <2>3
<1> HIDE DEF high
<1>7. Fits(128 * high + b, 1)
  BY <1>1, <1>2, <1>6
<1>8. low \in 0 .. 127 /\ Fits(128 * high + low, 1)
  BY <1>7
<1>9. Root(x, bound) = 128 * high + low
  BY DEF Root, high
<1>10. PICK h \in Nat : h = high
  <2>1. bound \div 128 \in Nat
    BY SMT
  <2> QED
    BY <1>5, <2>1
<1>11. PICK l \in Nat : l = low
  <2>1. 0 .. 127 \subseteq Nat
    OBVIOUS
  <2> QED
    BY <1>8, <2>1, Zenon
<1>12. PICK root \in Nat : root = 128 * high + low
  <2>1. 128 * h + l \in Nat
    OBVIOUS
  <2> QED
    BY <1>10, <1>11, <2>1
<1>13. x < (root + 1) * (root + 1)
  BY <1>8, <1>12
<1> QED
  BY <1>9, <1>12, <1>13

\* A quotient rounded down.
LEMMA QuotientBounds ==
  ASSUME NEW a \in Int, NEW b \in Nat \ {0}
  PROVE  a \div b \in Int /\ b * (a \div b) <= a /\ a < b * (a \div b) + b
BY SMT

\* A positive factor on both sides.
LEMMA FactorCancels ==
  ASSUME NEW d \in Nat \ {0}, NEW a \in Int, NEW b \in Int
  PROVE  /\ d * a <= d * b => a <= b
         /\ d * a < d * b => a < b
<1>1. ASSUME b < a PROVE d * b + d <= d * a
  <2>1. PICK e \in Nat : a = b + 1 + e
    <3>1. a - b - 1 \in Nat /\ a = b + 1 + (a - b - 1)
      BY <1>1
    <3> QED
      BY <3>1
  <2>2. d * a = d * b + d + d * e /\ d * e \in Nat
    BY <2>1
  <2> QED
    BY <2>2
<1>2. ASSUME a = b PROVE d * a = d * b
  BY <1>2
<1>3. d * a \in Int /\ d * b \in Int
  OBVIOUS
<1> QED
  BY <1>1, <1>2, <1>3

\* The greater and the lesser of two numbers.
LEMMA GreaterOfTwo ==
  ASSUME NEW a \in Int, NEW b \in Int
  PROVE  Max({a, b}) \in {a, b} /\ a <= Max({a, b}) /\ b <= Max({a, b})
<1>1. \E x \in {a, b} : \A y \in {a, b} : x >= y
  OBVIOUS
<1> QED
  BY <1>1 DEF Max

LEMMA LesserOfTwo ==
  ASSUME NEW a \in Int, NEW b \in Int
  PROVE  Min({a, b}) \in {a, b} /\ Min({a, b}) <= a /\ Min({a, b}) <= b
<1>1. \E x \in {a, b} : \A y \in {a, b} : x <= y
  OBVIOUS
<1> QED
  BY <1>1 DEF Min

\* An interval of rates that has k of n in it.
Covers(d, k, n) ==
    /\ d.lower \in 0 .. 1000 /\ d.upper \in 0 .. 1000 /\ d.lower <= d.upper
    /\ n * d.lower <= 1000 * k /\ 1000 * k <= n * d.upper

\* The score interval contains the rate it is about, whatever the counts and the quantile:
\* rounding outward makes up for the integer root and the halves and quarters cut off.
LEMMA IntervalCovers ==
  ASSUME NEW n \in Nat \ {0}, NEW k \in 0 .. n, NEW zz \in Nat \ {0}
  PROVE  Covers(WilsonInterval(k, n, zz), k, n)
<1>1. PICK D \in Nat \ {0} : D = 1000 * n + zz
  <2>1. 1000 * n + zz \in Nat \ {0}
    OBVIOUS
  <2> QED
    BY <2>1
<1>2. PICK A \in Nat : A = (1000 * k * (n - k)) \div n /\ A <= 1000 * n
  <2>1. PICK j \in Nat : n = k + j /\ j = n - k
    <3>1. n - k \in Nat /\ n = k + (n - k)
      OBVIOUS
    <3> QED
      BY <3>1
  <2>2. PICK N \in Nat : N = 1000 * k * (n - k)
    <3>1. 1000 * k \in Nat
      OBVIOUS
    <3>2. 1000 * k * j \in Nat
      BY <3>1
    <3> QED
      BY <2>1, <3>2
  <2>3. PICK B \in Int : B = N \div n /\ n * B <= N /\ N < n * B + n
    BY QuotientBounds
  <2>4. 0 <= B
    <3>1. n * 0 < n * (B + 1)
      BY <2>2, <2>3
    <3>2. 0 < B + 1
      BY <2>3, <3>1, FactorCancels
    <3> QED
      BY <2>3, <3>2
  <2>5. N <= n * (1000 * k)
    <3>1. (1000 * k) * j <= (1000 * k) * n
      BY <2>1, ProductsGrow
    <3> QED
      BY <2>1, <2>2, <3>1
  <2>6. n * B <= n * (1000 * k)
    BY <2>2, <2>3, <2>5
  <2>7. B <= 1000 * k
    BY <2>3, <2>6, FactorCancels
  <2> QED
    BY <2>2, <2>3, <2>4, <2>7
<1>3. PICK q \in Nat : q = zz \div 4 /\ 4 * q <= zz /\ zz <= 4 * q + 3
  <2>1. zz \div 4 \in Nat /\ 4 * (zz \div 4) <= zz /\ zz <= 4 * (zz \div 4) + 3
    BY SMT
  <2> QED
    BY <2>1
<1>4. PICK h \in Nat : h = zz \div 2 /\ 2 * h <= zz /\ zz <= 2 * h + 1
  <2>1. zz \div 2 \in Nat /\ 2 * (zz \div 2) <= zz /\ zz <= 2 * (zz \div 2) + 1
    BY SMT
  <2> QED
    BY <2>1
<1>5. PICK x \in Nat : x = zz * (A + q)
  <2>1. zz * (A + q) \in Nat
    OBVIOUS
  <2> QED
    BY <2>1
<1>6. x <= D * D
  <2>1. zz <= D /\ A + q <= D
    BY <1>1, <1>2, <1>3
  <2> QED
    BY <1>5, <2>1, ProductsGrow
<1>7. PICK r \in Nat : r = Root(x, D) /\ x < (r + 1) * (r + 1)
  BY <1>6, RootIsRoot
<1>8. PICK m \in Nat : m = r + 1 /\ 2 * q + 1 <= m
  <2>1. ~(r + 1 <= 2 * q)
    <3>1. SUFFICES ASSUME r + 1 <= 2 * q PROVE FALSE
      OBVIOUS
    <3>2. (r + 1) * (r + 1) <= (2 * q) * (2 * q)
      BY <3>1, ProductsGrow
    <3>3. (4 * q) * q <= zz * (A + q)
      BY <1>3, ProductsGrow
    <3>4. (2 * q) * (2 * q) = (4 * q) * q
      OBVIOUS
    <3>5. PICK s \in Nat, t \in Nat : s = (r + 1) * (r + 1) /\ t = (4 * q) * q
      OBVIOUS
    <3> QED
      BY <1>5, <1>7, <3>2, <3>3, <3>4, <3>5
  <2> QED
    BY <2>1
<1>9. PICK c \in Nat : c = 1000 * k + h
  OBVIOUS
<1>10. PICK lo \in Int : lo = (1000 * (c - m)) \div D /\ D * lo <= 1000 * (c - m)
  BY QuotientBounds
<1>11. PICK up \in Int : up = (1000 * (c + m)) \div D + 1 /\ 1000 * (c + m) + 1 <= D * up
  <2>1. PICK u \in Int : u = (1000 * (c + m)) \div D /\ 1000 * (c + m) < D * u + D
    BY QuotientBounds
  <2>2. D * (u + 1) = D * u + D /\ D * u \in Int
    OBVIOUS
  <2> QED
    BY <2>1, <2>2
<1>12. WilsonInterval(k, n, zz) = [lower |-> Max({0, lo}), upper |-> Min({1000, up})]
  <2> DEFINE dd == 1000 * n + zz
             y == zz * ((1000 * k * (n - k)) \div n + zz \div 4)
             root == Root(y, dd)
             center == 1000 * k + zz \div 2
             margin == root + 1
             below == (1000 * (center - margin)) \div dd
             above == (1000 * (center + margin)) \div dd + 1
  <2>1. WilsonInterval(k, n, zz) = [lower |-> Max({0, below}), upper |-> Min({1000, above})]
    BY DEF WilsonInterval
  <2>2. dd = D
    BY <1>1
  <2>3. y = x
    <3>1. (1000 * k * (n - k)) \div n + zz \div 4 = A + q
      BY <1>2, <1>3
    <3> QED
      BY ZenonT(40), <1>5, <3>1
  <2>4. center = c
    BY <1>4, <1>9
  <2> HIDE DEF dd, y, center
  <2>5. root = r
    BY <1>7, <2>2, <2>3
  <2> HIDE DEF root
  <2>6. margin = m
    BY <1>8, <2>5
  <2> HIDE DEF margin
  <2>7. below = lo
    BY <1>10, <2>2, <2>4, <2>6
  <2>8. above = up
    BY <1>11, <2>2, <2>4, <2>6
  <2> HIDE DEF below, above
  <2> QED
    BY <2>1, <2>7, <2>8
<1>13. lo <= 1000
  <2>1. 1000 * (c - m) <= D * 1000
    BY <1>1, <1>3, <1>4, <1>8, <1>9
  <2>2. D * lo <= D * 1000
    BY <1>10, <2>1
  <2> QED
    BY <2>2, FactorCancels
<1>14. lo < up /\ 0 < up
  <2>1. D * lo < D * up /\ D * 0 < D * up
    BY <1>10, <1>11
  <2> QED
    BY <2>1, FactorCancels
<1>15. n * lo <= 1000 * k
  <2>1. n * (c - m) <= k * D
    <3>1. h - m <= 0
      BY <1>3, <1>4, <1>8
    <3>2. PICK e \in Nat : m = h + e
      <4>1. m - h \in Nat /\ m = h + (m - h)
        BY <3>1
      <4> QED
        BY <4>1
    <3>3. n * (c - m) = n * (1000 * k) - n * e
      BY <1>9, <3>2
    <3>4. k * D = n * (1000 * k) + k * zz
      BY <1>1
    <3>5. n * e \in Nat /\ k * zz \in Nat /\ n * (1000 * k) \in Nat
      OBVIOUS
    <3> QED
      BY <3>3, <3>4, <3>5
  <2>2. PICK f \in Int, g \in Int : f = n * (c - m) /\ g = k * D
    OBVIOUS
  <2>3. n * (D * lo) <= n * (1000 * (c - m))
    <3>1. PICK e \in Nat : 1000 * (c - m) = D * lo + e
      <4>1. 1000 * (c - m) - D * lo \in Nat
        BY <1>10
      <4> QED
        BY <4>1
    <3>2. n * (1000 * (c - m)) = n * (D * lo) + n * e /\ n * e \in Nat
      BY <3>1
    <3> QED
      BY <3>2
  <2>4. n * (1000 * (c - m)) = 1000 * f
    BY <2>2
  <2>5. D * (n * lo) = n * (D * lo) /\ D * (1000 * k) = 1000 * g
    BY <2>2
  <2>6. D * (n * lo) <= D * (1000 * k)
    BY <2>1, <2>2, <2>3, <2>4, <2>5
  <2> QED
    BY <2>6, FactorCancels
<1>16. 1000 * k <= n * up
  <2>1. zz <= h + m + 1
    BY <1>3, <1>4, <1>8
  <2>2. PICK e \in Nat : h + m + 1 = zz + e
    <3>1. h + m + 1 - zz \in Nat
      BY <2>1
    <3> QED
      BY <3>1
  <2>3. PICK j \in Nat : n = k + j
    <3>1. n - k \in Nat /\ n = k + (n - k)
      OBVIOUS
    <3> QED
      BY <3>1
  <2>4. k * D <= n * (c + m) + n
    <3>1. n * (c + m) + n = n * (1000 * k) + n * zz + n * e
      <4>1. c + m + 1 = 1000 * k + zz + e
        BY <1>9, <2>2
      <4>2. n * (c + m) + n = n * (c + m + 1)
        OBVIOUS
      <4> QED
        BY <4>1, <4>2
    <3>2. k * D = n * (1000 * k) + k * zz
      BY <1>1
    <3>3. n * zz = k * zz + j * zz
      BY <2>3
    <3>4. n * e \in Nat /\ j * zz \in Nat /\ k * zz \in Nat /\ n * (1000 * k) \in Nat
      OBVIOUS
    <3> QED
      BY <3>1, <3>2, <3>3, <3>4
  <2>5. PICK f \in Int, g \in Int : f = n * (c + m) /\ g = k * D
    OBVIOUS
  <2>6. n * (1000 * (c + m) + 1) <= n * (D * up)
    <3>1. PICK i \in Nat : D * up = 1000 * (c + m) + 1 + i
      <4>1. D * up - (1000 * (c + m) + 1) \in Nat
        BY <1>11
      <4> QED
        BY <4>1
    <3>2. n * (D * up) = n * (1000 * (c + m) + 1) + n * i /\ n * i \in Nat
      BY <3>1
    <3> QED
      BY <3>2
  <2>7. n * (1000 * (c + m) + 1) = 1000 * f + n
    BY <2>5
  <2>8. D * (n * up + 1) = n * (D * up) + D /\ D * (1000 * k) = 1000 * g
    BY <2>5
  <2>9. D * (1000 * k) < D * (n * up + 1)
    BY <1>1, <2>4, <2>5, <2>6, <2>7, <2>8
  <2>10. n * up \in Int
    OBVIOUS
  <2>11. 1000 * k < n * up + 1
    BY <2>9, <2>10, FactorCancels
  <2> QED
    BY <2>10, <2>11
<1>17. PICK lower \in Int : lower = Max({0, lo}) /\ lower \in {0, lo} /\ 0 <= lower
  BY GreaterOfTwo
<1>18. PICK upper \in Int : upper = Min({1000, up}) /\ upper \in {1000, up} /\ upper <= 1000
  BY LesserOfTwo
<1>19. lower \in 0 .. 1000 /\ upper \in 0 .. 1000 /\ lower <= upper
  <2>1. lower \in {0, lo} /\ 0 <= lower /\ upper \in {1000, up} /\ upper <= 1000
    BY <1>17, <1>18
  <2>2. lower <= 1000
    BY <1>13, <2>1
  <2>3. 0 <= upper
    BY <1>14, <2>1
  <2>4. lower <= upper
    BY <1>13, <1>14, <2>1, <2>2, <2>3
  <2>5. lower \in 0 .. 1000
    BY <2>1, <2>2
  <2>6. upper \in 0 .. 1000
    BY <2>1, <2>3
  <2> QED
    BY <2>4, <2>5, <2>6
<1>20. n * lower <= 1000 * k
  BY <1>15, <1>17
<1>21. 1000 * k <= n * upper
  BY <1>16, <1>18
<1>22. WilsonInterval(k, n, zz).lower = lower /\ WilsonInterval(k, n, zz).upper = upper
  BY <1>12, <1>17, <1>18
<1> QED
  BY <1>19, <1>20, <1>21, <1>22 DEF Covers

\* A positive factor keeps an order.
LEMMA FactorKeeps ==
  ASSUME NEW d \in Nat \ {0}, NEW x \in Int, NEW y \in Int, x <= y
  PROVE  d * x <= d * y
<1>1. y - x \in Nat /\ y = x + (y - x)
  OBVIOUS
<1>2. PICK e \in Nat : y = x + e
  BY <1>1
<1>3. d * y = d * x + d * e /\ d * e \in Nat /\ d * x \in Int
  BY <1>2
<1> QED
  BY <1>3

\* Two rates of which each lies in its interval differ by what the intervals allow.
LEMMA RatesDiffer ==
  ASSUME NEW a \in Nat \ {0}, NEW b \in Nat \ {0}, NEW k \in Nat, NEW j \in Nat,
         NEW e \in Int, NEW f \in Int, NEW g \in Int, NEW h \in Int,
         a * e <= 1000 * k, 1000 * k <= a * f, b * g <= 1000 * j, 1000 * j <= b * h
  PROVE  /\ (a * b) * (g - f) <= 1000 * (j * a - k * b)
         /\ 1000 * (j * a - k * b) <= (a * b) * (h - e)
<1>1. PICK ae \in Int, af \in Int, bg \in Int, bh \in Int :
        ae = a * e /\ af = a * f /\ bg = b * g /\ bh = b * h
  OBVIOUS
<1>2. ae <= 1000 * k /\ 1000 * k <= af /\ bg <= 1000 * j /\ 1000 * j <= bh
  BY <1>1
<1>3. 1000 * k \in Int /\ 1000 * j \in Int
  OBVIOUS
<1>4. /\ b * ae <= b * (1000 * k) /\ b * (1000 * k) <= b * af
      /\ a * bg <= a * (1000 * j) /\ a * (1000 * j) <= a * bh
  BY <1>2, <1>3, FactorKeeps
<1>5. /\ b * ae = (a * b) * e /\ b * af = (a * b) * f
      /\ a * bg = (a * b) * g /\ a * bh = (a * b) * h
  BY <1>1
<1>6. PICK t \in Int : t = a * b
  OBVIOUS
<1>7. PICK v \in Int, w \in Int : v = j * a /\ w = k * b
  OBVIOUS
<1>8. a * (1000 * j) = 1000 * v /\ b * (1000 * k) = 1000 * w
  BY <1>7
<1>9. t * e <= 1000 * w /\ 1000 * w <= t * f /\ t * g <= 1000 * v /\ 1000 * v <= t * h
  BY <1>4, <1>5, <1>6, <1>8
<1>10. t * (g - f) = t * g - t * f /\ t * (h - e) = t * h - t * e
  OBVIOUS
<1>11. t * (g - f) <= 1000 * (v - w) /\ 1000 * (v - w) <= t * (h - e)
  <2>1. PICK te \in Int, tf \in Int, tg \in Int, th \in Int :
          te = t * e /\ tf = t * f /\ tg = t * g /\ th = t * h
    OBVIOUS
  <2>2. tg - tf <= 1000 * (v - w) /\ 1000 * (v - w) <= th - te
    BY <1>9, <2>1
  <2> QED
    BY <1>10, <2>1, <2>2
<1> QED
  BY <1>6, <1>7, <1>11

\* The samples and events of a cohort as an observation that parses has them.
Tallied(o, m) ==
    \A c \in Cohorts : o[c].samples \in Nat \ {0} /\ o[c].events[m] \in 0 .. o[c].samples

\* Only plans that parse are declared, and a quantile is known for each.
LEMMA PlansParse ==
  ASSUME NEW plan \in CanaryPlans
  PROVE  PlanParses(plan) /\ ZSquared[Comparisons(plan)] \in Nat \ {0}
BY CanaryAssumption

\* The difference of the intervals contains the difference of the rates.
LEMMA DifferenceCovers ==
  ASSUME NEW o, NEW m, o.policy.plan \in CanaryPlans, Tallied(o, m)
  PROVE  LET d == Difference(m, o)
             both == o.baseline.samples * o.candidate.samples
             rise == 1000 * (o.candidate.events[m] * o.baseline.samples
                             - o.baseline.events[m] * o.candidate.samples)
         IN  /\ d.lower \in Int /\ d.upper \in Int
             /\ -1000 <= d.lower /\ d.lower <= d.upper /\ d.upper <= 1000
             /\ both * d.lower <= rise /\ rise <= both * d.upper
<1>1. PICK zz \in Nat \ {0} : zz = ZSquared[Comparisons(o.policy.plan)]
  BY PlansParse
<1>2. PICK a \in Nat \ {0}, k \in Nat : a = o.baseline.samples /\ k = o.baseline.events[m]
                                        /\ k \in 0 .. a
  BY DEF Tallied, Cohorts
<1>3. PICK b \in Nat \ {0}, j \in Nat : b = o.candidate.samples /\ j = o.candidate.events[m]
                                        /\ j \in 0 .. b
  BY DEF Tallied, Cohorts
<1>4. PICK base : base = WilsonInterval(k, a, zz)
  OBVIOUS
<1>5. PICK cand : cand = WilsonInterval(j, b, zz)
  OBVIOUS
<1> DEFINE thousandths == 0 .. 1000
<1> HIDE DEF thousandths
<1>6. /\ base.lower \in thousandths /\ base.upper \in thousandths /\ base.lower <= base.upper
      /\ a * base.lower <= 1000 * k /\ 1000 * k <= a * base.upper
  <2>1. k \in 0 .. a
    BY <1>2
  <2>2. Covers(base, k, a)
    BY <2>1, <1>4, IntervalCovers
  <2> QED
    BY <2>2, Zenon DEF Covers, thousandths
<1>7. /\ cand.lower \in thousandths /\ cand.upper \in thousandths /\ cand.lower <= cand.upper
      /\ b * cand.lower <= 1000 * j /\ 1000 * j <= b * cand.upper
  <2>1. j \in 0 .. b
    BY <1>3
  <2>2. Covers(cand, j, b)
    BY <2>1, <1>5, IntervalCovers
  <2> QED
    BY <2>2, Zenon DEF Covers, thousandths
<1>8. PICK e \in thousandths : e = base.lower
  BY <1>6
<1>9. PICK f \in thousandths : f = base.upper
  BY <1>6
<1>10. PICK g \in thousandths : g = cand.lower
  BY <1>7
<1>11. PICK h \in thousandths : h = cand.upper
  BY <1>7
<1>12. e <= f /\ g <= h
  BY <1>6, <1>7, <1>8, <1>9, <1>10, <1>11
<1>13. Difference(m, o) = [lower |-> g - f, upper |-> h - e]
  BY <1>1, <1>2, <1>3, <1>4, <1>5, <1>8, <1>9, <1>10, <1>11 DEF Difference
<1>14. /\ g - f \in Int /\ h - e \in Int /\ -1000 <= g - f /\ g - f <= h - e /\ h - e <= 1000
  BY <1>12 DEF thousandths
<1>15. /\ (a * b) * (g - f) <= 1000 * (j * a - k * b)
       /\ 1000 * (j * a - k * b) <= (a * b) * (h - e)
  <2>1. a * e <= 1000 * k /\ 1000 * k <= a * f /\ b * g <= 1000 * j /\ 1000 * j <= b * h
    BY <1>6, <1>7, <1>8, <1>9, <1>10, <1>11
  <2>2. e \in Int /\ f \in Int /\ g \in Int /\ h \in Int
    BY DEF thousandths
  <2> QED
    BY <2>1, <2>2, RatesDiffer
<1> QED
  BY <1>2, <1>3, <1>13, <1>14, <1>15

\* There is at most one window and it began in the past.
WindowHeld == \A w \in window : w.from \in Nat /\ w.from <= elapsed /\ (\A v \in window : v = w)

\* There is at most one observation: of the window as it is now, made under a policy that
\* was declared.
ObservationHeld ==
  \A o \in observed :
    /\ o.policy.plan \in CanaryPlans /\ o.look \in Nat /\ o.to = elapsed
    /\ \E w \in window : o.from = w.from /\ o.change = w.change
    /\ \A c \in Cohorts : o[c].samples = served[c].samples
    /\ \A p \in observed : p = o

\* The documents of an observation are fit to be compared.
Comparable(o) == ObservationParses(o) /\ Binds(o, o.policy, o.review)
                 /\ Eligible(o, o.policy, o.review)

\* A result is what comparing the observation gives.
ComparisonHeld ==
  \A c \in compared : \E o \in observed : c = CanaryResult(o, elapsed) /\ Comparable(o)

CanaryInv ==
  /\ elapsed \in Nat
  /\ DOMAIN served = Cohorts
  /\ \A c \in Cohorts : served[c].samples \in Nat
  /\ \A p \in declared : p.plan \in CanaryPlans
  /\ WindowHeld /\ ObservationHeld /\ ComparisonHeld

\* Initially nothing was served, declared or reported.
LEMMA CanaryStarts == CanaryInit => CanaryInv
BY DEF CanaryInit, CanaryInv, WindowHeld, ObservationHeld, ComparisonHeld

\* The steps of a canary that change what it is about keep its invariant.
LEMMA ServeKeeps ==
  ASSUME CanaryInv, NEW c \in Cohorts, NEW b \in Batches, Serve(c, b)
  PROVE  CanaryInv'
<1>1. /\ elapsed' = elapsed /\ declared' = declared /\ window' = window
      /\ observed = {} /\ observed' = {} /\ compared = {} /\ compared' = {}
  BY DEF Serve, Unobserved, Open
<1>2. PICK entry :
         /\ entry.samples = served[c].samples + BatchSize
         /\ served' = [served EXCEPT ![c] = entry]
  <2> DEFINE entry == [samples |-> served[c].samples + BatchSize,
                       events |-> [m \in Metered |-> served[c].events[m] + b[m]]]
  <2>1. entry.samples = served[c].samples + BatchSize /\ served' = [served EXCEPT ![c] = entry]
    BY DEF Serve
  <2> HIDE DEF entry
  <2> QED
    BY <2>1
<1>3. entry.samples \in Nat
  BY <1>2, CanaryAssumption DEF CanaryInv, CanaryAssumption
<1>4. DOMAIN served' = Cohorts /\ \A k \in Cohorts : served'[k].samples \in Nat
  BY <1>2, <1>3 DEF CanaryInv
<1> QED
  BY <1>1, <1>4 DEF CanaryInv, WindowHeld, ObservationHeld, ComparisonHeld

LEMMA ObserveKeeps ==
  ASSUME CanaryInv, NEW p \in declared, NEW r \in reviewed, NEW look \in 1 .. MaxLooks,
         NEW assignment, Observe(p, r, look, assignment)
  PROVE  CanaryInv'
<1>1. /\ elapsed' = elapsed /\ declared' = declared /\ window' = window /\ served' = served
      /\ compared = {} /\ compared' = {}
  BY DEF Observe, Unobserved, Open
<1>2. look \in Nat
  BY CanaryAssumption DEF CanaryAssumption
<1>3. PICK w, o :
         /\ w \in window
         /\ observed' = {o} /\ o.policy = p /\ o.look = look /\ o.to = elapsed
         /\ o.from = w.from /\ o.change = w.change
         /\ o["baseline"].samples = served["baseline"].samples
         /\ o["candidate"].samples = served["candidate"].samples
  <2>1. PICK w \in window :
         LET cohort(c) == [samples |-> served[c].samples,
                           events |-> Restrict(served[c].events, DOMAIN p.plan.metrics)]
         IN  observed' = {[policy |-> p, review |-> r, look |-> look,
                           sticky |-> assignment # "drifted",
                           contaminated |-> assignment = "contaminated",
                           change |-> w.change, from |-> w.from, to |-> elapsed,
                           baseline |-> cohort("baseline"), candidate |-> cohort("candidate")]}
    BY DEF Observe
  <2>2. PICK base, cand :
          /\ base = [samples |-> served["baseline"].samples,
                     events |-> Restrict(served["baseline"].events, DOMAIN p.plan.metrics)]
          /\ cand = [samples |-> served["candidate"].samples,
                     events |-> Restrict(served["candidate"].events, DOMAIN p.plan.metrics)]
    OBVIOUS
  <2>3. PICK s, n : s = (assignment # "drifted") /\ n = (assignment = "contaminated")
    OBVIOUS
  <2>4. PICK o : o = [policy |-> p, review |-> r, look |-> look, sticky |-> s,
                      contaminated |-> n, change |-> w.change, from |-> w.from, to |-> elapsed,
                      baseline |-> base, candidate |-> cand]
    OBVIOUS
  <2>5. observed' = {o}
    BY <2>1, <2>2, <2>3, <2>4
  <2>6. /\ o.policy = p /\ o.look = look /\ o.to = elapsed
        /\ o.from = w.from /\ o.change = w.change
        /\ o["baseline"] = base /\ o["candidate"] = cand
    BY <2>4
  <2>7. base.samples = served["baseline"].samples /\ cand.samples = served["candidate"].samples
    BY <2>2
  <2> QED
    BY <2>5, <2>6, <2>7
<1>4. ObservationHeld'
  BY <1>1, <1>2, <1>3 DEF ObservationHeld, CanaryInv, Cohorts
<1> QED
  BY <1>1, <1>4 DEF CanaryInv, WindowHeld, ComparisonHeld

LEMMA CompareKeeps ==
  ASSUME CanaryInv, NEW o \in observed, NEW p \in declared, NEW r \in reviewed, Compare(o, p, r)
  PROVE  CanaryInv'
<1>1. /\ elapsed' = elapsed /\ declared' = declared /\ window' = window /\ served' = served
      /\ observed' = observed /\ compared' = {CanaryResult(o, elapsed)}
  BY DEF Compare
<1>2. Comparable(o)
  BY DEF Compare, Comparable, Binds
<1>5. ComparisonHeld'
  BY <1>1, <1>2 DEF ComparisonHeld, Comparable, Binds, ObservationParses, Eligible
<1> QED
  BY <1>1, <1>5 DEF CanaryInv, WindowHeld, ObservationHeld

\* Every step of a behaviour keeps the invariant of a canary.
LEMMA CanarySteps == CanaryInv /\ [Next]_vars => CanaryInv'
<1> SUFFICES ASSUME CanaryInv, [Next]_vars PROVE CanaryInv'
  OBVIOUS
<1>1. ASSUME elapsed' = elapsed, window' = window, served' = served, observed' = observed,
             compared' = compared, \A p \in declared' : p.plan \in CanaryPlans
      PROVE  CanaryInv'
  BY <1>1 DEF CanaryInv, WindowHeld, ObservationHeld, ComparisonHeld
<1>2. CASE UNCHANGED canaryVars
  BY <1>1, <1>2 DEF canaryVars, CanaryInv
<1>3. CASE CanaryNext
  <2>1. CASE Wait
    BY <2>1 DEF Wait, Unobserved, Open, CanaryInv, WindowHeld, ObservationHeld, ComparisonHeld
  <2>2. ASSUME NEW plan \in CanaryPlans, Declare(plan) PROVE CanaryInv'
    <3>1. PICK d : d.plan = plan /\ declared' = declared \cup {d}
      BY <2>2 DEF Declare
    <3>2. \A p \in declared' : p.plan \in CanaryPlans
      BY <3>1 DEF CanaryInv
    <3> QED
      BY <1>1, <2>2, <3>2 DEF Declare
  <2>3. ASSUME NEW review, ReviewChange(review) PROVE CanaryInv'
    BY <1>1, <2>3 DEF ReviewChange, CanaryInv
  <2>4. ASSUME NEW change, StartWindow(change) PROVE CanaryInv'
    <3>1. PICK w : w.from = elapsed /\ window' = {w}
      BY <2>4 DEF StartWindow
    <3>2. WindowHeld'
      BY <2>4, <3>1 DEF StartWindow, WindowHeld, CanaryInv
    <3> QED
      BY <2>4, <3>2 DEF StartWindow, Unobserved, Open, CanaryInv, ObservationHeld, ComparisonHeld
  <2> QED
    BY <1>3, <2>1, <2>2, <2>3, <2>4, ServeKeeps, ObserveKeeps, CompareKeeps DEF CanaryNext
<1> QED
  BY <1>2, <1>3 DEF vars, Next, OnEvidence, OnGeneration, OnGitHub, OnDocuments, OnAzure, OnCanary,
                    OnAttestation

\* What a canary reported and concluded is of the one window it served, in every state.
THEOREM CanaryCorrect == Spec => []CanaryInv
<1>1. Init => CanaryInv
  BY CanaryStarts DEF Init
<1> QED
  BY <1>1, CanarySteps, PTL DEF Spec

\* It keeps a strict one too.
LEMMA FactorKeepsStrict ==
  ASSUME NEW d \in Nat \ {0}, NEW x \in Int, NEW y \in Int, x < y
  PROVE  d * x < d * y
<1>1. d * (x + 1) <= d * y
  <2>1. x + 1 \in Int /\ x + 1 <= y
    OBVIOUS
  <2> QED
    BY <2>1, FactorKeeps
<1>2. d * (x + 1) = d * x + d /\ d * x \in Int /\ d * y \in Int
  OBVIOUS
<1> QED
  BY <1>1, <1>2

\* What an interval of a difference tells of the difference, by a tolerated amount.
LEMMA ToleranceTold ==
  ASSUME NEW both \in Nat \ {0}, NEW rise \in Int, NEW allowed \in Nat,
         NEW lower \in Int, NEW upper \in Int, both * lower <= rise, rise <= both * upper
  PROVE  /\ lower >= -allowed => -rise <= both * allowed
         /\ upper <= allowed => rise <= both * allowed
         /\ upper < -allowed => -rise > both * allowed
         /\ lower > allowed => rise > both * allowed
<1>1. PICK a \in Int, l \in Int, u \in Int : a = both * allowed /\ l = both * lower
                                              /\ u = both * upper
  OBVIOUS
<1>2. both * (-allowed) = -a
  BY <1>1
<1>3. -allowed \in Int /\ allowed \in Int
  OBVIOUS
<1>4. lower >= -allowed => -a <= l
  BY <1>1, <1>2, <1>3, FactorKeeps
<1>5. upper <= allowed => u <= a
  BY <1>1, <1>3, FactorKeeps
<1>6. upper < -allowed => u < -a
  BY <1>1, <1>2, <1>3, FactorKeepsStrict
<1>7. lower > allowed => a < l
  BY <1>1, <1>3, FactorKeepsStrict
<1>8. l <= rise /\ rise <= u
  BY <1>1
<1> QED
  BY <1>1, <1>4, <1>5, <1>6, <1>7, <1>8

\* The degradation a plan tolerates is a number.
LEMMA DegradationNatural ==
  ASSUME NEW plan, PlanParses(plan), NEW m \in DOMAIN plan.metrics
  PROVE  plan.metrics[m].degradation \in Nat
<1> DEFINE tolerated == 0 .. 1000
<1> HIDE DEF tolerated
<1>1. \A x \in DOMAIN plan.metrics : /\ plan.metrics[x].direction \in Directions
                                      /\ plan.metrics[x].degradation \in tolerated
  BY Zenon DEF PlanParses, tolerated
<1>2. plan.metrics[m].degradation \in tolerated
  BY Zenon, <1>1
<1>3. \A x \in tolerated : x \in Nat
  BY DEF tolerated
<1> QED
  BY Zenon, <1>2, <1>3

\* A metric called noninferior did no worse than is tolerated, one called a regression did.
LEMMA StatusTells ==
  ASSUME NEW o, NEW m, o.policy.plan \in CanaryPlans, m \in DOMAIN o.policy.plan.metrics,
         Tallied(o, m), NEW s, s = Status(o.policy.plan.metrics[m], Difference(m, o))
  PROVE  /\ s \in {"noninferior", "regression", "inconclusive"}
         /\ s = "noninferior" => Worse(m, o) <= Tolerated(m, o)
         /\ s = "regression" => Worse(m, o) > Tolerated(m, o)
<1>1. PICK metric : metric = o.policy.plan.metrics[m]
  OBVIOUS
<1>2. PICK allowed \in Nat : allowed = metric.degradation
  BY <1>1, PlansParse, DegradationNatural
<1>3. PICK d : d = Difference(m, o)
  OBVIOUS
<1>4. PICK n \in Nat \ {0}, k \in Int : n = o.baseline.samples /\ k = o.baseline.events[m]
  BY DEF Tallied, Cohorts
<1>5. PICK c \in Nat \ {0}, j \in Int : c = o.candidate.samples /\ j = o.candidate.events[m]
  BY DEF Tallied, Cohorts
<1>6. PICK both \in Nat \ {0} : both = n * c
  <2>1. n * c \in Nat \ {0}
    <3>1. n * 0 < n * c
      BY FactorKeepsStrict
    <3> QED
      BY <3>1
  <2> QED
    BY <2>1
<1>7. PICK rise \in Int : rise = 1000 * (j * n - k * c)
  OBVIOUS
<1>8. /\ d.lower \in Int /\ d.upper \in Int /\ both * d.lower <= rise /\ rise <= both * d.upper
  BY <1>3, <1>4, <1>5, <1>6, <1>7, DifferenceCovers
<1>9. PICK lower \in Int, upper \in Int : lower = d.lower /\ upper = d.upper
  BY <1>8
<1>10. /\ lower >= -allowed => -rise <= both * allowed
       /\ upper <= allowed => rise <= both * allowed
       /\ upper < -allowed => -rise > both * allowed
       /\ lower > allowed => rise > both * allowed
  <2>1. both * lower <= rise /\ rise <= both * upper
    BY <1>8, <1>9
  <2> QED
    BY <2>1, ToleranceTold
<1>11. PICK high : high = (metric.direction = "higher")
  OBVIOUS
<1>12. Tolerated(m, o) = both * allowed
  <2>1. Tolerated(m, o) = allowed * c * n
    BY <1>1, <1>2, <1>4, <1>5 DEF Tolerated
  <2> QED
    BY <1>6, <2>1
<1>13. Worse(m, o) = IF metric.direction = "higher" THEN -rise ELSE rise
  BY <1>1, <1>4, <1>5, <1>7 DEF Worse
<1>14. CASE metric.direction = "higher"
  <2>1. s = IF lower >= -allowed THEN "noninferior"
            ELSE IF upper < -allowed THEN "regression" ELSE "inconclusive"
    BY <1>1, <1>2, <1>3, <1>9, <1>14 DEF Status
  <2>2. Worse(m, o) = -rise
    BY <1>13, <1>14
  <2> QED
    BY <1>10, <1>12, <2>1, <2>2
<1>15. CASE metric.direction # "higher"
  <2>1. s = IF upper <= allowed THEN "noninferior"
            ELSE IF lower > allowed THEN "regression" ELSE "inconclusive"
    BY <1>1, <1>2, <1>3, <1>9, <1>15 DEF Status
  <2>2. Worse(m, o) = rise
    BY <1>13, <1>15
  <2> QED
    BY <1>10, <1>12, <2>1, <2>2
<1> QED
  BY <1>14, <1>15

\* The cohorts of an observation that is fit to be compared are counted for its metrics.
LEMMA ComparableTallied ==
  ASSUME CanaryInv, NEW o \in observed, Comparable(o), NEW m \in DOMAIN o.policy.plan.metrics
  PROVE  Tallied(o, m)
<1>1. ASSUME NEW c \in Cohorts PROVE o[c].samples \in Nat \ {0} /\ o[c].events[m] \in 0 .. o[c].samples
  <2>1. CohortParses(o[c])
    BY SMT DEF Comparable, ObservationParses, Cohorts
  <2>2. m \in DOMAIN o[c].events
    BY DEF Comparable, Eligible
  <2>3. o[c].samples \in Nat
    BY DEF CanaryInv, ObservationHeld
  <2> QED
    BY <2>1, <2>2, <2>3 DEF CohortParses
<1> QED
  BY <1>1 DEF Tallied

\* A decision is as the statuses of the metrics are, and a design that is ready.
LEMMA DecisionTells ==
  ASSUME NEW o, NEW statuses, NEW decision, decision = CanaryDecision(o, statuses)
  PROVE  /\ decision = "promote" => DesignReady(o) /\ statuses \cap {"regression", "inconclusive"} = {}
         /\ decision = "rollback" => DesignReady(o) /\ "regression" \in statuses
BY DEF CanaryDecision

\* The metrics of a policy, and what an observation makes of them.
StatusesOf(o) ==
    {Status(o.policy.plan.metrics[m], Difference(m, o)) : m \in DOMAIN o.policy.plan.metrics}

SamplesOf(o) == {o[k].samples : k \in Cohorts}
DifferencesOf(o) == [m \in DOMAIN o.policy.plan.metrics |-> Difference(m, o)]

\* What a result says, field by field.
LEMMA ResultSays ==
  ASSUME NEW o, NEW made, NEW c, c = CanaryResult(o, made)
  PROVE  /\ c.policy = o.policy /\ c.review = o.review
         /\ c.decision = CanaryDecision(o, StatusesOf(o))
         /\ c.look = o.look /\ c.looks = o.policy.plan.looks
         /\ c.from = o.from /\ c.to = o.to /\ c.at = made /\ c.seconds = Seconds(o)
         /\ c.samples = SamplesOf(o)
         /\ c.checks = Checks(o, StatusesOf(o))
         /\ c.differences = DifferencesOf(o)
<1> DEFINE metrics == o.policy.plan.metrics
           differences == [m \in DOMAIN metrics |-> Difference(m, o)]
           statuses == {Status(metrics[m], differences[m]) : m \in DOMAIN metrics}
           samples == {o[k].samples : k \in Cohorts}
<1>1. statuses = StatusesOf(o)
  BY DEF StatusesOf
<1>2. c = [decision |-> CanaryDecision(o, statuses), policy |-> o.policy, review |-> o.review,
           look |-> o.look, looks |-> o.policy.plan.looks, from |-> o.from, to |-> o.to, at |-> made,
           seconds |-> Seconds(o), samples |-> samples, checks |-> Checks(o, statuses),
           differences |-> differences]
  BY DEF CanaryResult
<1> HIDE DEF statuses, differences, samples
<1>3. PICK verdict, marks : verdict = CanaryDecision(o, statuses) /\ marks = Checks(o, statuses)
  OBVIOUS
<1>4. /\ c.policy = o.policy /\ c.review = o.review /\ c.decision = verdict
      /\ c.look = o.look /\ c.looks = o.policy.plan.looks
      /\ c.from = o.from /\ c.to = o.to /\ c.at = made /\ c.seconds = Seconds(o)
      /\ c.samples = samples /\ c.checks = marks /\ c.differences = differences
  BY <1>2, <1>3
<1> QED
  BY <1>1, <1>3, <1>4 DEF samples, differences, SamplesOf, DifferencesOf

\* The verdict is earned: by the intervals on the metrics, and by what the observation was
\* compared under, which is of the window as it is.
THEOREM VerdictEarned == Spec => []VerdictIsEarned
<1>1. CanaryInv => VerdictIsEarned
  <2> SUFFICES ASSUME CanaryInv, NEW c \in compared, NEW o \in observed, NEW w \in window,
                      c.decision \in {"promote", "rollback"}
               PROVE  /\ c.decision = "promote" =>
                           \A m \in DOMAIN c.policy.plan.metrics : Worse(m, o) <= Tolerated(m, o)
                      /\ c.decision = "rollback" =>
                           \E m \in DOMAIN c.policy.plan.metrics : Worse(m, o) > Tolerated(m, o)
                      /\ \A k \in Cohorts : served[k].samples >= c.policy.plan.samples
                      /\ (elapsed - w.from) * SecondsPerStep >= c.policy.plan.seconds
                      /\ c.policy.at <= w.from /\ c.review.at <= w.from
                      /\ c.review.review.change = w.change
                      /\ c.review.review.decision # "reject"
    BY DEF VerdictIsEarned
  <2>1. c = CanaryResult(o, elapsed) /\ Comparable(o)
    BY DEF CanaryInv, ComparisonHeld, ObservationHeld
  <2>2. /\ o.policy.plan \in CanaryPlans /\ o.to = elapsed /\ o.from = w.from
        /\ o.change = w.change /\ \A k \in Cohorts : o[k].samples = served[k].samples
    BY DEF CanaryInv, ObservationHeld, WindowHeld
  <2> DEFINE metrics == o.policy.plan.metrics
             statuses == StatusesOf(o)
  <2>3. c.policy = o.policy /\ c.review = o.review /\ c.decision = CanaryDecision(o, statuses)
    BY <2>1, ResultSays
  <2>4. ASSUME NEW m \in DOMAIN metrics, NEW s, s = Status(metrics[m], Difference(m, o))
        PROVE  /\ s \in statuses /\ s \in {"noninferior", "regression", "inconclusive"}
               /\ s = "noninferior" => Worse(m, o) <= Tolerated(m, o)
               /\ s = "regression" => Worse(m, o) > Tolerated(m, o)
    BY <2>1, <2>2, <2>4, ComparableTallied, StatusTells DEF StatusesOf
  <2>5. \A s \in statuses : \E m \in DOMAIN metrics : s = Status(metrics[m], Difference(m, o))
    BY DEF StatusesOf
  <2> HIDE DEF metrics, statuses
  <2>6. /\ c.decision = "promote" => statuses \cap {"regression", "inconclusive"} = {}
        /\ c.decision = "rollback" => "regression" \in statuses
        /\ DesignReady(o)
    BY <2>3, DecisionTells
  <2>7. c.decision = "promote" => \A m \in DOMAIN metrics : Worse(m, o) <= Tolerated(m, o)
    BY <2>4, <2>6
  <2>8. c.decision = "rollback" => \E m \in DOMAIN metrics : Worse(m, o) > Tolerated(m, o)
    BY <2>4, <2>5, <2>6
  <2>9. /\ \A k \in Cohorts : o[k].samples >= c.policy.plan.samples
        /\ (o.to - o.from) * SecondsPerStep >= c.policy.plan.seconds
    BY <2>3, <2>6 DEF DesignReady, SampleReady, WindowReady, Seconds
  <2>10. /\ c.policy.at <= o.from /\ c.review.at <= o.from /\ c.review.review.change = o.change
         /\ c.review.review.decision # "reject"
    BY SMT, <2>1, <2>3 DEF Comparable, Binds, Eligible
  <2>11. metrics = c.policy.plan.metrics
    BY <2>3 DEF metrics
  <2> QED
    BY <2>2, <2>7, <2>8, <2>9, <2>10, <2>11
<1> QED
  BY <1>1, CanaryCorrect, PTL

\* The six checks a result has.
CheckNames == {"predeclared_policy", "planned_look", "observation_window",
               "assignment_integrity", "cohort_sample_size", "metric_outcomes"}

\* They are six, whatever they say.
LEMMA SixNames == Cardinality(CheckNames) = 6
<1>1. Cardinality({"predeclared_policy"}) = 1 /\ IsFiniteSet({"predeclared_policy"})
  BY FS_Singleton
<1>2. PICK s : s = {"predeclared_policy", "planned_look"}
  OBVIOUS
<1>3. Cardinality(s) = 2 /\ IsFiniteSet(s)
  <2>1. s = {"predeclared_policy"} \cup {"planned_look"}
        /\ "planned_look" \notin {"predeclared_policy"}
    BY <1>2
  <2> QED
    BY <1>1, <2>1, FS_AddElement
<1>4. PICK t : t = s \cup {"observation_window"}
  OBVIOUS
<1>5. Cardinality(t) = 3 /\ IsFiniteSet(t)
  <2>1. "observation_window" \notin s
    BY <1>2
  <2> QED
    BY <1>3, <1>4, <2>1, FS_AddElement
<1>6. PICK u : u = t \cup {"assignment_integrity"}
  OBVIOUS
<1>7. Cardinality(u) = 4 /\ IsFiniteSet(u)
  <2>1. "assignment_integrity" \notin t
    BY <1>2, <1>4
  <2> QED
    BY <1>5, <1>6, <2>1, FS_AddElement
<1>8. PICK v : v = u \cup {"cohort_sample_size"}
  OBVIOUS
<1>9. Cardinality(v) = 5 /\ IsFiniteSet(v)
  <2>1. "cohort_sample_size" \notin u
    BY <1>2, <1>4, <1>6
  <2> QED
    BY <1>7, <1>8, <2>1, FS_AddElement
<1>10. CheckNames = v \cup {"metric_outcomes"} /\ "metric_outcomes" \notin v
  BY <1>2, <1>4, <1>6, <1>8 DEF CheckNames
<1> QED
  BY <1>9, <1>10, FS_AddElement

LEMMA ChecksNamed ==
  ASSUME NEW o, NEW statuses
  PROVE  DOMAIN Checks(o, statuses) = CheckNames
BY DEF Checks, CheckNames

\* A result can be read back, as what its parser demands follows from what the parsers of the
\* policy and of the observation demanded and from the rounding of the intervals.
THEOREM ResultsRead == Spec => []ResultsReadBack
<1>1. CanaryInv => ResultsReadBack
  <2> SUFFICES ASSUME CanaryInv, NEW c \in compared PROVE ResultParses(c)
    BY DEF ResultsReadBack
  <2>1. PICK o \in observed : c = CanaryResult(o, elapsed) /\ Comparable(o)
    BY DEF CanaryInv, ComparisonHeld
  <2>2. PICK plan \in CanaryPlans : plan = o.policy.plan
    BY DEF CanaryInv, ObservationHeld
  <2>3. PlanParses(plan)
    BY PlansParse
  <2>4. /\ c.look = o.look /\ c.looks = plan.looks
        /\ c.from = o.from /\ c.to = o.to /\ c.at = elapsed /\ c.seconds = Seconds(o)
        /\ c.samples = SamplesOf(o)
        /\ c.checks = Checks(o, StatusesOf(o))
        /\ c.differences = DifferencesOf(o)
    BY <2>1, <2>2, ResultSays
  <2>5. LooksParse(c)
    <3>1. o.look \in 1 .. 100 /\ o.look <= plan.looks
      BY <2>1, <2>2 DEF Comparable, ObservationParses, Eligible
    <3>2. plan.looks \in 1 .. 100
      BY <2>3 DEF PlanParses
    <3> QED
      BY <2>4, <3>1, <3>2 DEF LooksParse
  <2>6. TimesParse(c)
    <3>1. PICK from \in Nat, to \in Nat : from = o.from /\ to = o.to /\ to = elapsed
      BY DEF CanaryInv, ObservationHeld, WindowHeld
    <3>2. from < to /\ (to - from) * SecondsPerStep <= MaxSeconds
      BY <2>1, <3>1 DEF Comparable, ObservationParses, Seconds
    <3>3. 0 < (to - from) * SecondsPerStep /\ (to - from) * SecondsPerStep \in Int
      <4>1. PICK steps \in Nat \ {0} : steps = to - from
        BY <3>2
      <4>2. PICK per \in Nat \ {0} : per = SecondsPerStep
        BY CanaryAssumption DEF CanaryAssumption
      <4>3. steps * 0 < steps * per
        BY FactorKeepsStrict
      <4>4. steps * per \in Int
        OBVIOUS
      <4> QED
        BY <4>1, <4>2, <4>3, <4>4
    <3>4. PICK seconds \in Int : seconds = (to - from) * SecondsPerStep
      BY <3>3
    <3>5. MaxSeconds \in Int
      BY SMT DEF MaxSeconds
    <3>6. seconds \in 1 .. MaxSeconds
      BY <3>2, <3>3, <3>4, <3>5
    <3>7. c.from = from /\ c.to = to /\ c.at = to /\ c.seconds = seconds
      BY <2>4, <3>1, <3>4 DEF Seconds
    <3> QED
      BY <3>2, <3>4, <3>6, <3>7 DEF TimesParse
  <2>7. ChecksParse(c)
    BY <2>4, ChecksNamed, SixNames DEF ChecksParse
  <2>8. DifferencesParse(c)
    <3>1. DOMAIN c.differences = DOMAIN plan.metrics
      BY <2>2, <2>4 DEF DifferencesOf
    <3>2. Cardinality(DOMAIN plan.metrics) \in 1 .. 50
      BY <2>3 DEF PlanParses
    <3>3. ASSUME NEW m \in DOMAIN plan.metrics, NEW d, d = c.differences[m]
          PROVE  -1000 <= d.lower /\ d.lower <= d.upper /\ d.upper <= 1000
      <4>1. d = Difference(m, o)
        BY <2>2, <2>4, <3>3 DEF DifferencesOf
      <4>2. Tallied(o, m)
        BY <2>1, <2>2, ComparableTallied
      <4> QED
        BY <2>2, <4>1, <4>2, DifferenceCovers
    <3> QED
      BY <3>1, <3>2, <3>3 DEF DifferencesParse
  <2>9. \A n \in c.samples : n >= 1
    BY <2>1, <2>4 DEF SamplesOf, Cohorts, Comparable, ObservationParses, CohortParses
  <2> QED
    BY <2>5, <2>6, <2>7, <2>8, <2>9 DEF ResultParses
<1> QED
  BY <1>1, CanaryCorrect, PTL
-----------------------------------------------------------------------------
(* Evidence: what sorting and picking give                                 *)

\* A finite set in a strict total order, as a sequence.
LEMMA InOrderLists ==
  ASSUME NEW S, IsFiniteSet(S), NEW below \in [S -> SUBSET S],
         \A x \in S : x \notin below[x],
         \A x, y \in S : x \in below[y] => below[x] \subseteq below[y],
         \A x, y \in S : x = y \/ x \in below[y] \/ y \in below[x]
  PROVE  LET s == InOrder(S, below)
         IN  /\ Cardinality(S) \in Nat
             /\ s \in [1 .. Cardinality(S) -> S]
             /\ \A x \in S : \E n \in 1 .. Cardinality(S) : s[n] = x
             /\ \A m, n \in 1 .. Cardinality(S) : m < n => s[m] \in below[s[n]]
<1>1. PICK size \in Nat : size = Cardinality(S)
  BY FS_CardinalityType
<1> DEFINE rank == [x \in S |-> Cardinality(below[x]) + 1]
<1>2. ASSUME NEW x \in S
      PROVE  /\ IsFiniteSet(below[x]) /\ Cardinality(below[x]) \in Nat
             /\ rank[x] = Cardinality(below[x]) + 1 /\ rank[x] \in 1 .. size
  <2>1. below[x] \subseteq S /\ below[x] # S
    OBVIOUS
  <2>2. /\ IsFiniteSet(below[x]) /\ Cardinality(below[x]) <= size
        /\ Cardinality(below[x]) # size
    BY <1>1, <2>1, FS_Subset
  <2>3. Cardinality(below[x]) \in Nat
    BY <2>2, FS_CardinalityType
  <2> QED
    BY <1>1, <2>2, <2>3
<1>3. ASSUME NEW x \in S, NEW y \in S, x \in below[y]
      PROVE  Cardinality(below[x]) < Cardinality(below[y])
  <2>1. below[x] \subseteq below[y] /\ below[x] # below[y]
    BY <1>3
  <2>2. IsFiniteSet(below[y]) /\ Cardinality(below[x]) \in Nat /\ Cardinality(below[y]) \in Nat
    BY <1>2
  <2>3. Cardinality(below[x]) <= Cardinality(below[y]) /\ Cardinality(below[x]) # Cardinality(below[y])
    BY <2>1, <2>2, FS_Subset
  <2> QED
    BY <2>2, <2>3
<1>4. rank \in [S -> 1 .. size]
  BY <1>2
<1>5. \A x, y \in S : rank[x] = rank[y] => x = y
  <2>1. SUFFICES ASSUME NEW x \in S, NEW y \in S, rank[x] = rank[y], x # y
                 PROVE  FALSE
    OBVIOUS
  <2>2. Cardinality(below[x]) = Cardinality(below[y])
    BY <1>2, <2>1
  <2>3. x \in below[y] \/ y \in below[x]
    BY <2>1
  <2> QED
    BY <1>2, <1>3, <2>1, <2>2, <2>3
<1>6. rank \in Injection(S, 1 .. size)
  BY <1>4, <1>5 DEF Injection, IsInjective
<1>7. IsFiniteSet(1 .. size) /\ Cardinality(1 .. size) = size
  <2>1. 1 \in Int /\ size \in Int
    BY <1>1
  <2>2. IsFiniteSet(1 .. size) /\ Cardinality(1 .. size) = IF 1 > size THEN 0 ELSE size - 1 + 1
    BY <2>1, FS_Interval
  <2> QED
    BY <1>1, <2>2
<1>8. rank \in Surjection(S, 1 .. size)
  BY <1>1, <1>6, <1>7, FS_Injection
<1>9. \A n \in 1 .. size : \E x \in S : rank[x] = n
  BY <1>8 DEF Surjection
<1>10. PICK s : s = InOrder(S, below)
  OBVIOUS
<1>11. ASSUME NEW n \in 1 .. size
       PROVE  s[n] \in S /\ rank[s[n]] = n
  <2>1. PICK x \in S : rank[x] = n
    BY <1>9
  <2>2. Cardinality(below[x]) = n - 1
    BY <1>2, <2>1
  <2>3. s[n] = CHOOSE y \in S : Cardinality(below[y]) = n - 1
    BY <1>1, <1>10 DEF InOrder
  <2>4. s[n] \in S /\ Cardinality(below[s[n]]) = n - 1
    BY <2>2, <2>3
  <2> QED
    BY <1>2, <2>4
<1>12. s \in [1 .. size -> S]
  BY <1>1, <1>10, <1>11 DEF InOrder
<1>13. ASSUME NEW x \in S
       PROVE  \E n \in 1 .. size : s[n] = x
  <2>1. PICK n \in 1 .. size : n = rank[x]
    BY <1>2
  <2>2. s[n] \in S /\ rank[s[n]] = n
    BY <1>11
  <2> HIDE DEF rank
  <2> QED
    BY <1>5, <2>1, <2>2
<1>14. ASSUME NEW m \in 1 .. size, NEW n \in 1 .. size, m < n
       PROVE  s[m] \in below[s[n]]
  <2>1. s[m] # s[n]
    <3>1. rank[s[m]] = m /\ rank[s[n]] = n /\ m # n
      BY <1>11, <1>14
    <3> HIDE DEF rank
    <3> QED
      BY <3>1
  <2>2. CASE s[n] \in below[s[m]]
    <3>1. Cardinality(below[s[n]]) < Cardinality(below[s[m]])
      BY <1>3, <1>11, <2>2
    <3>2. rank[s[n]] < rank[s[m]]
      BY <1>2, <1>11, <3>1
    <3> QED
      BY <1>11, <1>14, <3>2
  <2> QED
    BY <1>11, <2>1, <2>2
<1> QED
  BY <1>1, <1>10, <1>12, <1>13, <1>14

\* A finite set of integers, ascending.
LEMMA AscendingLists ==
  ASSUME NEW S \in SUBSET Int, IsFiniteSet(S)
  PROVE  LET s == Ascending(S)
         IN  /\ Cardinality(S) \in Nat
             /\ s \in [1 .. Cardinality(S) -> S]
             /\ \A x \in S : \E n \in 1 .. Cardinality(S) : s[n] = x
             /\ \A m, n \in 1 .. Cardinality(S) : m < n => s[m] < s[n]
<1>1. PICK below : below = [x \in S |-> {y \in S : y < x}]
  OBVIOUS
<1>2. \A x, y \in S : x \in below[y] <=> x < y
  BY <1>1
<1>3. below \in [S -> SUBSET S]
  BY <1>1
<1>4. \A x, y \in S : x \in below[y] => below[x] \subseteq below[y]
  <2>1. \A x, y, z \in S : x < y /\ y < z => x < z
    OBVIOUS
  <2>2. \A x \in S : below[x] \subseteq S
    BY <1>3
  <2> QED
    BY <1>2, <2>1, <2>2, Zenon
<1>5. \A x \in S : x \notin below[x]
  <2>1. \A x \in S : ~(x < x)
    OBVIOUS
  <2> QED
    BY <1>2, <2>1
<1>6. \A x, y \in S : x = y \/ x \in below[y] \/ y \in below[x]
  <2>1. \A x, y \in S : x = y \/ x < y \/ y < x
    OBVIOUS
  <2> QED
    BY <1>2, <2>1
<1>7. Ascending(S) = InOrder(S, below)
  BY <1>1 DEF Ascending
<1>8. LET s == InOrder(S, below)
      IN  /\ Cardinality(S) \in Nat
          /\ s \in [1 .. Cardinality(S) -> S]
          /\ \A x \in S : \E n \in 1 .. Cardinality(S) : s[n] = x
          /\ \A m, n \in 1 .. Cardinality(S) : m < n => s[m] \in below[s[n]]
  BY <1>3, <1>4, <1>5, <1>6, InOrderLists
<1> QED
  BY <1>2, <1>7, <1>8

\* What is picked of a sequence keeps its order.
LEMMA PickedGives ==
  ASSUME NEW seq, NEW size \in Nat, DOMAIN seq = 1 .. size, NEW I \in SUBSET DOMAIN seq
  PROVE  LET s == Ascending(I)
         IN  /\ Cardinality(I) \in Nat
             /\ DOMAIN Picked(seq, I) = 1 .. Cardinality(I)
             /\ \A n \in 1 .. Cardinality(I) : s[n] \in I /\ Picked(seq, I)[n] = seq[s[n]]
             /\ \A i \in I : \E n \in 1 .. Cardinality(I) : s[n] = i
             /\ \A m, n \in 1 .. Cardinality(I) : m < n => s[m] < s[n]
<1>1. IsFiniteSet(1 .. size)
  BY FS_Interval
<1>2. IsFiniteSet(I) /\ I \in SUBSET Int
  BY <1>1, FS_Subset
<1> QED
  BY <1>2, AscendingLists DEF Picked

\* What spans are ordered by, after their traces.
StartOf(s) == IF s.start = Absent THEN 0 ELSE s.start

\* The numbers a span is ordered by are numbers.
SpanTyped(s) == s.trace \in Nat /\ s.span \in Nat /\ StartOf(s) \in Nat

\* Spans are ordered by three numbers, the first that differs.
LEMMA SpanBeforeIs ==
  ASSUME NEW a, NEW b, SpanTyped(a), SpanTyped(b)
  PROVE  SpanBefore(a, b) <=>
           \/ a.trace < b.trace
           \/ a.trace = b.trace /\ StartOf(a) < StartOf(b)
           \/ a.trace = b.trace /\ StartOf(a) = StartOf(b) /\ a.span < b.span
<1> DEFINE key(s) == <<s.trace, StartOf(s), s.span>>
<1>1. SpanBefore(a, b) <=> \E n \in 1 .. 3 : /\ key(a)[n] < key(b)[n]
                                             /\ \A i \in 1 .. n - 1 : key(a)[i] = key(b)[i]
  BY DEF SpanBefore, StartOf
<1>2. \A s : key(s)[1] = s.trace /\ key(s)[2] = StartOf(s) /\ key(s)[3] = s.span
  OBVIOUS
<1> HIDE DEF key
<1>3. (\E n \in 1 .. 3 : /\ key(a)[n] < key(b)[n]
                         /\ \A i \in 1 .. n - 1 : key(a)[i] = key(b)[i])
        <=> \/ key(a)[1] < key(b)[1]
            \/ key(a)[1] = key(b)[1] /\ key(a)[2] < key(b)[2]
            \/ key(a)[1] = key(b)[1] /\ key(a)[2] = key(b)[2] /\ key(a)[3] < key(b)[3]
  OBVIOUS
<1> QED
  BY <1>1, <1>2, <1>3

\* Sorting keeps the spans that are sorted: no two are of one trace and span.
LEMMA SortedSpansAre ==
  ASSUME NEW S, IsFiniteSet(S), \A s \in S : SpanTyped(s),
         \A s, t \in S : s.trace = t.trace /\ s.span = t.span => s = t
  PROVE  /\ Cardinality(S) \in Nat
         /\ DOMAIN SortedSpans(S) = 1 .. Cardinality(S)
         /\ ToSet(SortedSpans(S)) = S
<1>1. PICK below : below = [s \in S |-> {t \in S : SpanBefore(t, s)}]
  OBVIOUS
<1>2. ASSUME NEW t \in S, NEW s \in S
      PROVE  t \in below[s] <=> \/ t.trace < s.trace
                                \/ t.trace = s.trace /\ StartOf(t) < StartOf(s)
                                \/ t.trace = s.trace /\ StartOf(t) = StartOf(s) /\ t.span < s.span
  BY <1>1, SpanBeforeIs
<1>3. below \in [S -> SUBSET S]
  BY <1>1
<1>4. \A s \in S : s \notin below[s]
  BY <1>2 DEF SpanTyped
<1>5. ASSUME NEW s \in S, NEW t \in S, s \in below[t], NEW u \in below[s]
      PROVE  u \in below[t]
  <2>1. u \in S
    BY <1>3
  <2> QED
    BY <1>2, <1>5, <2>1 DEF SpanTyped
<1>6. \A s, t \in S : s \in below[t] => below[s] \subseteq below[t]
  BY <1>5
<1>7. \A s, t \in S : s = t \/ s \in below[t] \/ t \in below[s]
  BY <1>2 DEF SpanTyped
<1>8. SortedSpans(S) = InOrder(S, below)
  BY <1>1 DEF SortedSpans
<1>9. /\ Cardinality(S) \in Nat
      /\ InOrder(S, below) \in [1 .. Cardinality(S) -> S]
      /\ \A x \in S : \E n \in 1 .. Cardinality(S) : InOrder(S, below)[n] = x
  BY <1>3, <1>4, <1>6, <1>7, InOrderLists
<1> QED
  BY <1>8, <1>9 DEF ToSet

\* The values of a function on a finite set are finitely many.
LEMMA ImageFinite ==
  ASSUME NEW S, IsFiniteSet(S), NEW f, DOMAIN f = S
  PROVE  IsFiniteSet({f[x] : x \in S})
<1>1. PICK g : g = [x \in S |-> f[x]]
  OBVIOUS
<1>2. g \in Surjection(S, {f[x] : x \in S})
  BY <1>1 DEF Surjection
<1> QED
  BY <1>2, FS_Surjection

\* The traces of a manifest are those of its export.
LEMMA ManifestTraces ==
  ASSUME EvidenceAssumption, NEW export \in DOMAIN Export, NEW maxSpans, Collects(export, maxSpans),
         NEW artifact
  PROVE  LET m == CollectManifest(export, artifact)
         IN  /\ ClusteredTraces(m) = {TraceHash[s.trace] : s \in ToSet(Export[export])}
             /\ IsFiniteSet(ClusteredTraces(m)) /\ ClusteredTraces(m) \in SUBSET Int
<1>1. PICK spans : spans = Export[export]
  OBVIOUS
<1>2. /\ spans \in Seq(ToSet(spans))
      /\ \A s \in ToSet(spans) :
            /\ s.trace \in DOMAIN TraceHash /\ <<s.trace, s.span>> \in DOMAIN SpanHash
            /\ s.start \in Nat \cup {Absent}
  BY <1>1 DEF EvidenceAssumption
<1>3. PICK size \in Nat : DOMAIN spans = 1 .. size
  BY <1>2
<1>4. PICK S : S = {Collected(export, s) : s \in ToSet(spans)}
  OBVIOUS
<1>5. IsFiniteSet(ToSet(spans))
  <2>1. IsFiniteSet(1 .. size)
    BY FS_Interval
  <2>2. IsFiniteSet({spans[i] : i \in 1 .. size})
    BY <1>3, <2>1, ImageFinite
  <2> QED
    BY <1>3, <2>2 DEF ToSet
<1>6. IsFiniteSet(S)
  <2>1. PICK g : g = [s \in ToSet(spans) |-> Collected(export, s)]
    OBVIOUS
  <2>2. S = {g[s] : s \in ToSet(spans)}
    BY <1>4, <2>1
  <2> QED
    BY <1>5, <2>1, <2>2, ImageFinite
<1>7. ASSUME NEW s \in ToSet(spans)
      PROVE  /\ Collected(export, s).trace = TraceHash[s.trace]
             /\ Collected(export, s).span = SpanHash[<<s.trace, s.span>>]
             /\ Collected(export, s).start = s.start
  BY DEF Collected
<1>8. ASSUME NEW x \in S
      PROVE  SpanTyped(x)
  <2>1. PICK s \in ToSet(spans) : x = Collected(export, s)
    BY <1>4
  <2>2. x.trace \in Nat /\ x.span \in Nat
    BY <1>2, <1>7, <2>1 DEF EvidenceAssumption
  <2>3. x.start = s.start /\ s.start \in Nat \cup {Absent}
    BY <1>2, <1>7, <2>1
  <2> QED
    BY <2>2, <2>3 DEF SpanTyped, StartOf
<1>9. \A i, j \in DOMAIN spans :
        spans[i].trace = spans[j].trace /\ spans[i].span = spans[j].span => i = j
  BY <1>1 DEF Collects, IsInjective
<1>10. ASSUME NEW x \in S, NEW y \in S, x.trace = y.trace, x.span = y.span
       PROVE  x = y
  <2>1. PICK i \in DOMAIN spans : x = Collected(export, spans[i])
    BY <1>4 DEF ToSet
  <2>2. PICK j \in DOMAIN spans : y = Collected(export, spans[j])
    BY <1>4 DEF ToSet
  <2>3. spans[i] \in ToSet(spans) /\ spans[j] \in ToSet(spans)
    BY DEF ToSet
  <2>4. SpanHash[<<spans[i].trace, spans[i].span>>] = SpanHash[<<spans[j].trace, spans[j].span>>]
    BY <1>7, <1>10, <2>1, <2>2, <2>3
  <2>5. <<spans[i].trace, spans[i].span>> = <<spans[j].trace, spans[j].span>>
    BY <1>2, <2>3, <2>4 DEF EvidenceAssumption, IsInjective
  <2>6. i = j
    BY <1>9, <2>5
  <2> QED
    BY <2>1, <2>2, <2>6
<1>11. ToSet(SortedSpans(S)) = S
  BY <1>6, <1>8, <1>10, SortedSpansAre
<1>12. CollectManifest(export, artifact).spans = SortedSpans(S)
  BY <1>1, <1>4 DEF CollectManifest
<1>13. ClusteredTraces(CollectManifest(export, artifact)) = {x.trace : x \in S}
  BY <1>11, <1>12 DEF ClusteredTraces
<1>14. {x.trace : x \in S} = {TraceHash[s.trace] : s \in ToSet(spans)}
  <2>1. ASSUME NEW x \in S
        PROVE  x.trace \in {TraceHash[s.trace] : s \in ToSet(spans)}
    <3>1. PICK s \in ToSet(spans) : x = Collected(export, s)
      BY <1>4
    <3>2. x.trace = TraceHash[s.trace]
      BY <1>7, <3>1
    <3> QED
      BY <3>2
  <2>2. ASSUME NEW s \in ToSet(spans)
        PROVE  TraceHash[s.trace] \in {x.trace : x \in S}
    <3>1. PICK x : x = Collected(export, s)
      OBVIOUS
    <3>2. x \in S
      BY <1>4, <3>1
    <3>3. x.trace = TraceHash[s.trace]
      BY <1>7, <3>1
    <3> QED
      BY <3>2, <3>3
  <2> QED
    BY <2>1, <2>2
<1>15. IsFiniteSet({x.trace : x \in S})
  <2>1. PICK g : g = [x \in S |-> x.trace]
    OBVIOUS
  <2>2. {x.trace : x \in S} = {g[x] : x \in S}
    BY <2>1
  <2> QED
    BY <1>6, <2>1, <2>2, ImageFinite
<1>16. {x.trace : x \in S} \in SUBSET Int
  BY <1>8 DEF SpanTyped
<1> QED
  BY <1>1, <1>13, <1>14, <1>15, <1>16

\* What is known of an investigation's manifest and fixture.
LEMMA FixtureGives ==
  ASSUME EvidenceAssumption, WorkspaceAssumption, NEW key \in DOMAIN FixtureAt
  PROVE  LET f == FixtureAt[key]
             m == ManifestAt[key.manifest]
             export == key.manifest.export
             traces == {TraceHash[s.trace] : s \in ToSet(Export[export])}
         IN  /\ key = [manifest |-> key.manifest, id |-> key.id]
             /\ key.manifest \in DOMAIN ManifestAt
             /\ key.manifest = [export |-> export, artifact |-> key.manifest.artifact]
             /\ m.source.sha256 = export /\ m.source.artifact = key.manifest.artifact
             /\ f.id = key.id /\ f.source.manifest = key.manifest
             /\ \A field \in DOMAIN m.source : f.source[field] = m.source[field]
             /\ \E size \in Nat : DOMAIN f.clusters = 1 .. size
             /\ \A i \in DOMAIN f.clusters :
                   /\ f.clusters[i].trace \in traces /\ f.clusters[i].trace \in Int
                   /\ f.clusters[i].ref = [source |-> export, trace |-> f.clusters[i].trace]
             /\ \A i, j \in DOMAIN f.clusters : i < j => f.clusters[i].trace < f.clusters[j].trace
<1>1. PICK r \in Requests : key = FixtureKey(r) /\ ManifestKey(r) \in DOMAIN ManifestAt
  BY DEF FixtureAt
<1>2. key.manifest = ManifestKey(r) /\ key.id = r.id
  BY <1>1 DEF FixtureKey
<1>3. PICK q \in Requests : Collects(q.export, q.maxSpans) /\ ManifestKey(r) = ManifestKey(q)
  BY <1>1 DEF ManifestAt
<1>4. PICK export, artifact : export = q.export /\ artifact = q.artifact
  OBVIOUS
<1>5. key.manifest = [export |-> export, artifact |-> artifact] /\ export \in DOMAIN Export
  BY <1>2, <1>3, <1>4 DEF ManifestKey, WorkspaceAssumption
<1>6. PICK m : m = CollectManifest(export, artifact)
  OBVIOUS
<1>7. ManifestAt[key.manifest] = m
  BY <1>1, <1>2, <1>5, <1>6 DEF ManifestAt
<1>8. PICK traces : traces = ClusteredTraces(m)
  OBVIOUS
<1>9. /\ traces = {TraceHash[s.trace] : s \in ToSet(Export[export])}
      /\ IsFiniteSet(traces) /\ traces \in SUBSET Int
  BY <1>3, <1>4, <1>5, <1>6, <1>8, ManifestTraces
<1>10. PICK order : order = Ascending(traces)
  OBVIOUS
<1>11. /\ Cardinality(traces) \in Nat /\ order \in [1 .. Cardinality(traces) -> traces]
       /\ \A i, j \in 1 .. Cardinality(traces) : i < j => order[i] < order[j]
  BY <1>9, <1>10, AscendingLists
<1>12. /\ m.source.sha256 = export /\ m.source.artifact = artifact
       /\ DOMAIN m.source = {"artifact", "sha256", "spans", "traces"}
  BY <1>6 DEF CollectManifest
<1>13. FixtureAt[key] = GenerateFixture(m, key.manifest, key.id)
  BY <1>7 DEF FixtureAt
<1>14. PICK f : f = FixtureAt[key]
  OBVIOUS
<1>15. /\ f.id = key.id /\ f.source.manifest = key.manifest
       /\ f.source.artifact = m.source.artifact /\ f.source.sha256 = m.source.sha256
       /\ f.source.traces = m.source.traces /\ f.source.spans = m.source.spans
  BY <1>13, <1>14 DEF GenerateFixture
<1>16. f.clusters = [i \in DOMAIN order |-> ClusterSpans(order[i], m)]
  BY <1>8, <1>10, <1>13, <1>14 DEF GenerateFixture
<1>17. \A trace : /\ ClusterSpans(trace, m).trace = trace
                  /\ ClusterSpans(trace, m).ref = [source |-> m.source.sha256, trace |-> trace]
  BY DEF ClusterSpans
<1>18. DOMAIN order = 1 .. Cardinality(traces)
  BY <1>11
<1>19. \A i \in DOMAIN f.clusters :
          /\ f.clusters[i].trace = order[i] /\ order[i] \in traces
          /\ f.clusters[i].ref = [source |-> export, trace |-> order[i]]
  BY <1>11, <1>12, <1>16, <1>17, <1>18
<1>20. ASSUME NEW i \in DOMAIN f.clusters, NEW j \in DOMAIN f.clusters, i < j
       PROVE  f.clusters[i].trace < f.clusters[j].trace
  <2>1. i \in 1 .. Cardinality(traces) /\ j \in 1 .. Cardinality(traces)
    BY <1>16, <1>18
  <2>2. order[i] < order[j]
    BY <1>11, <1>20, <2>1
  <2> QED
    BY <1>19, <2>2
<1>21. \A field \in DOMAIN m.source : f.source[field] = m.source[field]
  BY <1>12, <1>15
<1>22. DOMAIN f.clusters = 1 .. Cardinality(traces)
  BY <1>16, <1>18
<1>23. \A i \in DOMAIN f.clusters :
          /\ f.clusters[i].trace \in traces /\ f.clusters[i].trace \in Int
          /\ f.clusters[i].ref = [source |-> export, trace |-> f.clusters[i].trace]
  BY <1>9, <1>19
<1>24. /\ key = [manifest |-> key.manifest, id |-> key.id] /\ key.manifest \in DOMAIN ManifestAt
       /\ key.manifest.export = export /\ key.manifest.artifact = artifact
  BY <1>1, <1>2, <1>5 DEF FixtureKey
<1> QED
  BY ZenonT(40), <1>5, <1>7, <1>9, <1>11, <1>12, <1>14, <1>15, <1>20, <1>21, <1>22, <1>23, <1>24

-----------------------------------------------------------------------------
(* Evidence: the folders of a project                                      *)

\* The folders that go with the project's.
Inside == {<<"project", id>> : id \in Ids} \cup {<<"project", "cases", id>> : id \in Ids}

\* What is in a file of that name, wherever it is.
Known(name, content) ==
  /\ name = "configuration" => ConfigurationParses(content)
  /\ name = "manifest" => content \in DOMAIN ManifestAt
  /\ name = "fixture" => content \in DOMAIN FixtureAt

\* A folder with a selection is one that the reader of investigations accepts.
Accepted(f) ==
  "selection" \in DOMAIN f =>
    /\ {"manifest", "fixture"} \subseteq DOMAIN f
    /\ Verified([selection |-> f["selection"], manifest |-> f["manifest"], fixture |-> f["fixture"]])

\* A folder with a case names its evidence.
NamesEvidence(f) ==
  "source" \in DOMAIN f =>
    LET source == f["source"]
        chosen == source.selection
        traces == {TraceHash[span.trace] : span \in ToSet(Export[chosen.sha256])}
    IN  /\ source.case = f["case"]
        /\ source.ids = chosen.ids /\ source.ids # <<>> /\ ToSet(source.ids) \subseteq traces
        /\ \A n \in 1 .. Len(source.ids) - 1 : source.ids[n] < source.ids[n + 1]
        /\ source.case.refs = [n \in DOMAIN source.ids |->
                                 [source |-> chosen.sha256, trace |-> source.ids[n]]]
        /\ chosen.fixture = [manifest |-> [export |-> chosen.sha256, artifact |-> chosen.artifact],
                             id |-> source.fixture]

\* The names of five documents.
NamesOf(docs) == {docs[n][1] : n \in 1 .. 5}

\* The documents of a folder, before they are written.
Complete(docs) ==
  /\ DOMAIN docs = 1 .. 5 /\ Len(docs) = 5
  /\ \A m, n \in 1 .. 5 : docs[m][1] = docs[n][1] => m = n
  /\ \A n \in 1 .. 5 : Known(docs[n][1], docs[n][2])
  /\ Accepted(Folder(docs)) /\ NamesEvidence(Folder(docs))

\* They make up a folder there; the project's own has a configuration.
MayGoTo(docs, path) ==
  path \in Paths /\ Complete(docs) /\ (path = Project => "configuration" \in NamesOf(docs))

\* Evidence that was read whole and compared.
EvidenceKnown(evidence) ==
  Verified(evidence) /\ evidence.manifest \in DOMAIN ManifestAt /\ evidence.fixture \in DOMAIN FixtureAt

\* What a command holds at each place.
StateHeld(state) ==
  /\ state.phase \in {"make", "write"} => MayGoTo(state.files, state.path)
  /\ state.phase = "write" =>
        "next" \in DOMAIN state /\ state.next \in 1 .. 5 /\ state.exposed \in BOOLEAN
  /\ state.phase = "clean" => state.path \in Paths
  /\ state.phase = "fixture" => state.manifest \in DOMAIN ManifestAt
  /\ state.phase = "answers" => EvidenceKnown(state.evidence)
  /\ state.phase = "configure" => ConfigurationParses(state.configuration)

\* Every command holds that, and only one that makes a case reads an investigation.
CommandsHeld ==
  \A i \in DOMAIN at :
    /\ StateHeld(at[i])
    /\ at[i].phase \in {"manifest", "fixture", "answers"} => Asked(i).do = "case"

\* A path has at most one folder, with what its files' names say.
TreeHeld ==
  /\ DOMAIN tree = Paths
  /\ \A p \in Paths : \A f, g \in tree[p] : f = g
  /\ \A p \in Paths : \A f \in tree[p] : \A name \in DOMAIN f : Known(name, f[name])

\* Nobody but these commands works in the folder, or removes the project it is in.
Sheltered(path, own) ==
  /\ \A j \in Writing \ own : at[j].path # path
  /\ path \in Inside => tree[Project] # {} /\ \A j \in Writing : at[j].path # Project

\* A command writes into a folder that nobody else cleans up.
Firm(i) == at[i].phase = "write" /\ ~at[i].exposed

\* The first documents are in the folder, and none but these will be.
Written(f, docs, next) ==
  /\ DOMAIN f \subseteq NamesOf(docs)
  /\ \A n \in 1 .. 5 : n < next =>
        /\ docs[n][1] \in DOMAIN f
        /\ docs[n][1] # "configuration" => f[docs[n][1]] = docs[n][2]

\* Such a command finds what it wrote, and nothing of another.
WritersHeld ==
  \A i \in DOMAIN at : Firm(i) =>
    /\ Sheltered(at[i].path, {i})
    /\ \E f \in tree[at[i].path] : Written(f, at[i].files, at[i].next)

\* A folder is what its command reported, but for the configuration.
Stands(f, reported) ==
  DOMAIN f = DOMAIN reported /\ \A name \in DOMAIN f \ {"configuration"} : f[name] = reported[name]

\* What was reported is whole, accepted and, unless exposed, still there.
ReportsHeld ==
  \A r \in reports :
    /\ r.path \in Paths /\ Accepted(r.files) /\ NamesEvidence(r.files)
    /\ r.path = Project => "configuration" \in DOMAIN r.files
    /\ ~r.exposed => Sheltered(r.path, {}) /\ \E f \in tree[r.path] : Stands(f, r.files)

\* The invariant of evidence: who makes a folder owns it, and a file is what its name says.
EvidenceInv ==
  /\ agenda \in Agendas /\ DOMAIN at = DOMAIN agenda.commands
  /\ TreeHeld /\ CommandsHeld /\ WritersHeld /\ ReportsHeld

\* A folder has the documents that were to be written.
LEMMA FolderGives ==
  ASSUME NEW docs, DOMAIN docs = 1 .. 5, \A m, n \in 1 .. 5 : docs[m][1] = docs[n][1] => m = n
  PROVE  /\ DOMAIN Folder(docs) = NamesOf(docs)
         /\ \A n \in 1 .. 5 : Folder(docs)[docs[n][1]] = docs[n][2]
<1>1. PICK f : f = Folder(docs)
  OBVIOUS
<1>2. ToSet(docs) = {docs[n] : n \in 1 .. 5}
  BY DEF ToSet
<1>3. DOMAIN f = NamesOf(docs)
  BY <1>1, <1>2 DEF Folder, NamesOf
<1>4. ASSUME NEW n \in 1 .. 5
      PROVE  f[docs[n][1]] = docs[n][2]
  <2>1. PICK d : d = CHOOSE e \in ToSet(docs) : e[1] = docs[n][1]
    OBVIOUS
  <2>2. d \in ToSet(docs) /\ d[1] = docs[n][1]
    BY <1>2, <2>1
  <2>3. d = docs[n]
    BY <1>2, <2>2
  <2>4. docs[n][1] \in {e[1] : e \in ToSet(docs)}
    BY <1>2
  <2> QED
    BY <1>1, <2>1, <2>3, <2>4 DEF Folder
<1> QED
  BY <1>1, <1>3, <1>4

\* Nothing is in the first configuration that could clash.
LEMMA FirstParses ==
  ASSUME WorkspaceAssumption
  PROVE  ConfigurationParses(FirstConfiguration)
<1>1. FirstConfiguration.components = <<>> /\ FirstConfiguration.adapters = <<>>
  BY DEF FirstConfiguration
<1>2. FirstConfiguration.retention \in 1 .. MaxRetention
  BY DEF FirstConfiguration, WorkspaceAssumption
<1>3. DOMAIN <<>> = {} /\ ToSet(<<>>) = {}
  BY DEF ToSet
<1>4. AdaptersParse(<<>>)
  BY <1>3 DEF AdaptersParse, FieldsDiffer, IsInjective
<1>5. ComponentsParse(<<>>)
  BY <1>3 DEF ComponentsParse, FieldsDiffer, IsInjective
<1> QED
  BY <1>1, <1>2, <1>3, <1>4, <1>5 DEF ConfigurationParses

\* A new project has its five documents.
LEMMA ProjectComplete ==
  ASSUME WorkspaceAssumption
  PROVE  Complete(ProjectFiles) /\ "configuration" \in NamesOf(ProjectFiles)
<1>1. PICK docs : docs = ProjectFiles
  OBVIOUS
<1>2. /\ DOMAIN docs = 1 .. 5 /\ Len(docs) = 5
      /\ docs[1] = <<"configuration", FirstConfiguration>> /\ docs[2] = <<"policy", "preset">>
      /\ docs[3] = <<"gitignore", Absent>> /\ docs[4] = <<"adapters", Absent>>
      /\ docs[5] = <<"readme", Absent>>
  BY <1>1 DEF ProjectFiles
<1>3. \A n \in 1 .. 5 : n = 1 \/ n = 2 \/ n = 3 \/ n = 4 \/ n = 5
  OBVIOUS
<1>4. \A m, n \in 1 .. 5 : docs[m][1] = docs[n][1] => m = n
  BY <1>2, <1>3
<1>5. \A n \in 1 .. 5 : Known(docs[n][1], docs[n][2])
  BY <1>2, <1>3, FirstParses DEF Known
<1>6. NamesOf(docs) = {"configuration", "policy", "gitignore", "adapters", "readme"}
  BY <1>2, <1>3 DEF NamesOf
<1>7. DOMAIN Folder(docs) = NamesOf(docs)
  BY <1>2, <1>4, FolderGives
<1> QED
  BY <1>1, <1>2, <1>4, <1>5, <1>6, <1>7 DEF Complete, Accepted, NamesEvidence

\* An investigation that can be written is one its reader accepts.
LEMMA InvestigationComplete ==
  ASSUME EvidenceAssumption, WorkspaceAssumption, NEW r \in Requests, Investigates(r)
  PROVE  Complete(InvestigationFiles(r))
<1>1. PICK key, f, m : key = FixtureKey(r) /\ f = FixtureAt[key] /\ m = ManifestAt[ManifestKey(r)]
  OBVIOUS
<1>2. /\ Collects(r.export, r.maxSpans) /\ ManifestParses(m) /\ FixtureParses(f)
      /\ GeneratesFixture(m, r.maxClusters) /\ SelectionFits(f, r.select)
  BY <1>1 DEF Investigates, Prepares, GeneratesFixture
<1>3. ManifestKey(r) \in DOMAIN ManifestAt
  BY <1>2 DEF ManifestAt
<1>4. key \in DOMAIN FixtureAt
  BY <1>1, <1>2, <1>3 DEF FixtureAt
<1>5. key.manifest = ManifestKey(r) /\ ManifestKey(r).export = r.export
      /\ ManifestKey(r).artifact = r.artifact
  BY <1>1 DEF FixtureKey, ManifestKey
<1>6. /\ m.source.sha256 = r.export /\ m.source.artifact = r.artifact
      /\ f.source.manifest = ManifestKey(r)
      /\ \A field \in DOMAIN m.source : f.source[field] = m.source[field]
      /\ \E size \in Nat : DOMAIN f.clusters = 1 .. size
      /\ \A i \in DOMAIN f.clusters : f.clusters[i].trace \in Int
      /\ \A i, j \in DOMAIN f.clusters : i < j => f.clusters[i].trace < f.clusters[j].trace
  <2>1. m = ManifestAt[key.manifest]
    BY <1>1, <1>5
  <2>2. /\ ManifestAt[key.manifest].source.sha256 = key.manifest.export
        /\ ManifestAt[key.manifest].source.artifact = key.manifest.artifact
        /\ FixtureAt[key].source.manifest = key.manifest
        /\ \A field \in DOMAIN ManifestAt[key.manifest].source :
              FixtureAt[key].source[field] = ManifestAt[key.manifest].source[field]
        /\ \E size \in Nat : DOMAIN FixtureAt[key].clusters = 1 .. size
        /\ \A i \in DOMAIN FixtureAt[key].clusters : FixtureAt[key].clusters[i].trace \in Int
        /\ \A i, j \in DOMAIN FixtureAt[key].clusters :
              i < j => FixtureAt[key].clusters[i].trace < FixtureAt[key].clusters[j].trace
    BY <1>4, FixtureGives
  <2> QED
    BY <1>1, <1>5, <2>1, <2>2
<1>7. PICK size \in Nat : DOMAIN f.clusters = 1 .. size
  BY <1>6
<1>8. f.clusters # <<>>
  BY <1>2 DEF FixtureParses
<1>9. \A i, j \in 1 .. size : f.clusters[i].trace = f.clusters[j].trace => i = j
  BY <1>6, <1>7
<1>10. PICK C : C = Chosen(f, r.select)
  OBVIOUS
<1>11. C \in SUBSET (1 .. size)
  BY <1>7, <1>10 DEF Chosen
<1>12. PICK all : all = ClusterIds(f)
  OBVIOUS
<1>13. DOMAIN all = 1 .. size /\ \A i \in 1 .. size : all[i] = f.clusters[i].trace
  BY <1>7, <1>12 DEF ClusterIds
<1>14. PICK order : order = Ascending(C)
  OBVIOUS
<1>15. PICK ids : ids = Selected(f, r.select)
  OBVIOUS
<1>16. ids = Picked(all, C)
  BY <1>10, <1>12, <1>15 DEF Selected
<1>17. PICK count : count = Cardinality(C)
  OBVIOUS
<1>18. /\ count \in Nat /\ DOMAIN ids = 1 .. count
       /\ \A n \in 1 .. count : order[n] \in C /\ ids[n] = all[order[n]]
       /\ \A i \in C : \E n \in 1 .. count : order[n] = i
  <2>1. C \in SUBSET DOMAIN all
    BY <1>11, <1>13
  <2>2. /\ Cardinality(C) \in Nat /\ DOMAIN Picked(all, C) = 1 .. Cardinality(C)
        /\ \A n \in 1 .. Cardinality(C) :
              Ascending(C)[n] \in C /\ Picked(all, C)[n] = all[Ascending(C)[n]]
        /\ \A i \in C : \E n \in 1 .. Cardinality(C) : Ascending(C)[n] = i
    BY <1>13, <2>1, PickedGives
  <2> QED
    BY <1>14, <1>16, <1>17, <2>2
<1>19. PICK D : D = {i \in DOMAIN f.clusters : f.clusters[i].trace \in ToSet(ids)}
  OBVIOUS
<1>20. ToSet(ids) = {ids[n] : n \in 1 .. count}
  BY <1>18 DEF ToSet
<1>21. C = D
  <2>1. ASSUME NEW i \in C
        PROVE  i \in D
    <3>1. PICK n \in 1 .. count : order[n] = i
      BY <1>18
    <3>2. ids[n] = f.clusters[i].trace /\ i \in 1 .. size
      BY <1>11, <1>13, <1>18, <3>1
    <3> QED
      BY <1>7, <1>19, <1>20, <3>2
  <2>2. ASSUME NEW i \in D
        PROVE  i \in C
    <3>1. PICK n \in 1 .. count : f.clusters[i].trace = ids[n]
      BY <1>19, <1>20
    <3>2. order[n] \in C /\ order[n] \in 1 .. size /\ ids[n] = f.clusters[order[n]].trace
      BY <1>11, <1>13, <1>18
    <3>3. i \in 1 .. size
      BY <1>7, <1>19
    <3> QED
      BY <1>9, <3>1, <3>2, <3>3
  <2> QED
    BY <2>1, <2>2
<1>22. PICK clusters : clusters = SelectedClusters(f, ids)
  OBVIOUS
<1>23. clusters = Picked(f.clusters, C)
  BY <1>19, <1>21, <1>22 DEF SelectedClusters
<1>24. DOMAIN clusters = 1 .. count /\ \A n \in 1 .. count : clusters[n] = f.clusters[order[n]]
  <2>1. C \in SUBSET DOMAIN f.clusters
    BY <1>7, <1>11
  <2>2. /\ DOMAIN Picked(f.clusters, C) = 1 .. Cardinality(C)
        /\ \A n \in 1 .. Cardinality(C) : Picked(f.clusters, C)[n] = f.clusters[Ascending(C)[n]]
    BY <1>7, <2>1, PickedGives
  <2> QED
    BY <1>14, <1>17, <1>23, <2>2
<1>25. [n \in DOMAIN clusters |-> clusters[n].trace] = ids
  <2>1. \A n \in 1 .. count : clusters[n].trace = ids[n]
    BY ZenonT(40), <1>11, <1>13, <1>18, <1>24
  <2>2. ids = [n \in 1 .. count |-> ids[n]]
    BY <1>16, <1>18 DEF Picked
  <2> QED
    BY <1>24, <2>1, <2>2
<1>26. ids # <<>>
  <2>1. \E i : i \in C
    <3>1. CASE r.select = {}
      <4>1. C = 1 .. size
        BY <1>7, <1>10, <3>1 DEF Chosen
      <4>2. size # 0
        <5>1. size = 0 => DOMAIN f.clusters = {}
          BY <1>7
        <5>2. f.clusters = [i \in DOMAIN f.clusters |-> f.clusters[i]]
          BY <1>1, <1>4 DEF FixtureAt, GenerateFixture
        <5> QED
          <6>1. SUFFICES ASSUME size = 0
                         PROVE  FALSE
            OBVIOUS
          <6>2. PICK g : g = f.clusters
            OBVIOUS
          <6>3. DOMAIN g = {} /\ g = [i \in DOMAIN g |-> g[i]]
            BY <5>1, <5>2, <6>1, <6>2
          <6>4. g = <<>>
            BY <6>3
          <6> QED
            BY <1>8, <6>2, <6>4
      <4> QED
        BY <4>1, <4>2
    <3>2. CASE r.select # {}
      <4>1. PICK token \in r.select : TRUE
        BY <3>2
      <4>2. PICK i \in DOMAIN f.clusters : Means(token, f, i)
        BY <1>2 DEF SelectionFits
      <4> QED
        BY <1>10, <4>1, <4>2 DEF Chosen
    <3> QED
      BY <3>1, <3>2
  <2>2. 1 \in DOMAIN ids
    BY <1>18, <2>1
  <2>3. DOMAIN <<>> = {}
    OBVIOUS
  <2> QED
    BY <2>2, <2>3
<1>27. PICK selection : selection = Selection(r)
  OBVIOUS
<1>28. /\ selection.manifest = ManifestKey(r) /\ selection.fixture = key /\ selection.ids = ids
       /\ selection.artifact = r.artifact /\ selection.sha256 = r.export
  BY <1>1, <1>15, <1>27 DEF Selection
<1>29. PICK evidence : evidence = [selection |-> selection, manifest |-> ManifestKey(r), fixture |-> key]
  OBVIOUS
<1>30. SourcesAgree(evidence)
  BY <1>1, <1>2, <1>6, <1>22, <1>25, <1>26, <1>28, <1>29 DEF SourcesAgree
<1>31. Verified(evidence)
  BY <1>28, <1>29, <1>30 DEF Verified
<1>32. PICK docs : docs = InvestigationFiles(r)
  OBVIOUS
<1>33. /\ DOMAIN docs = 1 .. 5 /\ Len(docs) = 5
       /\ docs[1] = <<"manifest", ManifestKey(r)>> /\ docs[2] = <<"fixture", key>>
       /\ docs[3] = <<"selection", selection>> /\ docs[4] = <<"notes", Absent>>
       /\ docs[5] = <<"readme", Absent>>
  BY <1>1, <1>27, <1>32 DEF InvestigationFiles
<1>34. \A n \in 1 .. 5 : n = 1 \/ n = 2 \/ n = 3 \/ n = 4 \/ n = 5
  OBVIOUS
<1>35. \A i, n \in 1 .. 5 : docs[i][1] = docs[n][1] => i = n
  BY <1>33, <1>34
<1>36. \A n \in 1 .. 5 : Known(docs[n][1], docs[n][2])
  BY <1>3, <1>4, <1>33, <1>34 DEF Known
<1>37. NamesOf(docs) = {"manifest", "fixture", "selection", "notes", "readme"}
  BY <1>33, <1>34 DEF NamesOf
<1>38. /\ DOMAIN Folder(docs) = NamesOf(docs)
       /\ \A n \in 1 .. 5 : Folder(docs)[docs[n][1]] = docs[n][2]
  BY <1>33, <1>35, FolderGives
<1>39. /\ Folder(docs)["manifest"] = ManifestKey(r) /\ Folder(docs)["fixture"] = key
       /\ Folder(docs)["selection"] = selection
  BY <1>33, <1>38
<1>40. Accepted(Folder(docs)) /\ NamesEvidence(Folder(docs))
  BY <1>29, <1>31, <1>37, <1>38, <1>39 DEF Accepted, NamesEvidence
<1> QED
  BY <1>32, <1>33, <1>35, <1>36, <1>40 DEF Complete

\* A case made of evidence that was verified names it.
LEMMA CaseComplete ==
  ASSUME EvidenceAssumption, WorkspaceAssumption, NEW evidence, EvidenceKnown(evidence),
         NEW id, NEW policy
  PROVE  Complete(CaseFiles(evidence, id, policy))
<1>1. PICK key, f, m, chosen : /\ key = evidence.fixture /\ f = FixtureAt[key]
                               /\ m = ManifestAt[evidence.manifest] /\ chosen = evidence.selection
  OBVIOUS
<1>2. /\ key \in DOMAIN FixtureAt
      /\ evidence.manifest = chosen.manifest /\ evidence.fixture = chosen.fixture
      /\ SourcesAgree(evidence)
  BY <1>1 DEF EvidenceKnown, Verified
<1>3. PICK clusters : clusters = SelectedClusters(f, chosen.ids)
  OBVIOUS
<1>4. /\ chosen.artifact = m.source.artifact /\ chosen.sha256 = m.source.sha256
      /\ f.source.manifest = evidence.manifest /\ chosen.ids # <<>>
      /\ [n \in DOMAIN clusters |-> clusters[n].trace] = chosen.ids
  BY <1>1, <1>2, <1>3 DEF SourcesAgree
<1>5. PICK export : export = key.manifest.export
  OBVIOUS
<1>6. PICK traces : traces = {TraceHash[s.trace] : s \in ToSet(Export[export])}
  OBVIOUS
<1>7. /\ key = [manifest |-> key.manifest, id |-> key.id]
      /\ key.manifest = [export |-> export, artifact |-> key.manifest.artifact]
      /\ ManifestAt[key.manifest].source.sha256 = export
      /\ ManifestAt[key.manifest].source.artifact = key.manifest.artifact
      /\ f.source.manifest = key.manifest
      /\ \E size \in Nat : DOMAIN f.clusters = 1 .. size
      /\ \A i \in DOMAIN f.clusters :
            /\ f.clusters[i].trace \in traces /\ f.clusters[i].trace \in Int
            /\ f.clusters[i].ref = [source |-> export, trace |-> f.clusters[i].trace]
      /\ \A i, j \in DOMAIN f.clusters : i < j => f.clusters[i].trace < f.clusters[j].trace
  BY ZenonT(40), <1>1, <1>2, <1>5, <1>6, FixtureGives
<1>8. m = ManifestAt[key.manifest] /\ chosen.sha256 = export /\ chosen.artifact = key.manifest.artifact
  <2>1. evidence.manifest = key.manifest
    BY <1>4, <1>7
  <2>2. m = ManifestAt[key.manifest]
    BY <1>1, <2>1
  <2>3. m.source.sha256 = export /\ m.source.artifact = key.manifest.artifact
    BY <1>7, <2>2
  <2> QED
    BY <1>4, <2>2, <2>3
<1>9. PICK size \in Nat : DOMAIN f.clusters = 1 .. size
  BY <1>7
<1>10. PICK D : D = {i \in DOMAIN f.clusters : f.clusters[i].trace \in ToSet(chosen.ids)}
  OBVIOUS
<1>11. PICK order, count : order = Ascending(D) /\ count = Cardinality(D)
  OBVIOUS
<1>12. /\ count \in Nat /\ DOMAIN clusters = 1 .. count
       /\ \A n \in 1 .. count : order[n] \in D /\ clusters[n] = f.clusters[order[n]]
       /\ \A i, n \in 1 .. count : i < n => order[i] < order[n]
  <2>1. D \in SUBSET DOMAIN f.clusters /\ clusters = Picked(f.clusters, D)
    BY <1>3, <1>10 DEF SelectedClusters
  <2>2. /\ Cardinality(D) \in Nat /\ DOMAIN Picked(f.clusters, D) = 1 .. Cardinality(D)
        /\ \A n \in 1 .. Cardinality(D) :
              Ascending(D)[n] \in D /\ Picked(f.clusters, D)[n] = f.clusters[Ascending(D)[n]]
        /\ \A i, n \in 1 .. Cardinality(D) : i < n => Ascending(D)[i] < Ascending(D)[n]
    BY <1>9, <2>1, PickedGives
  <2> QED
    BY <1>11, <2>1, <2>2
<1>13. PICK ids : ids = chosen.ids
  OBVIOUS
<1>14. DOMAIN ids = 1 .. count /\ \A n \in 1 .. count : ids[n] = clusters[n].trace
  BY <1>4, <1>12, <1>13
<1>15. \A n \in 1 .. count : order[n] \in DOMAIN f.clusters
  BY <1>10, <1>12
<1>16. \A n \in 1 .. count :
          /\ ids[n] \in traces
          /\ clusters[n].ref = [source |-> export, trace |-> ids[n]]
  <2>1. SUFFICES ASSUME NEW n \in 1 .. count
                 PROVE  /\ ids[n] \in traces
                        /\ clusters[n].ref = [source |-> export, trace |-> ids[n]]
    OBVIOUS
  <2>2. PICK i \in DOMAIN f.clusters : i = order[n]
    BY <1>15
  <2>3. clusters[n] = f.clusters[i]
    BY <1>12, <2>2
  <2>4. /\ f.clusters[i].trace \in traces
        /\ f.clusters[i].ref = [source |-> export, trace |-> f.clusters[i].trace]
    BY <1>7
  <2>5. ids[n] = f.clusters[i].trace
    BY <1>14, <2>3
  <2> QED
    BY <2>3, <2>4, <2>5
<1>17. ToSet(ids) \subseteq traces
  BY <1>14, <1>16 DEF ToSet
<1>18. ASSUME NEW n \in 1 .. Len(ids) - 1
       PROVE  ids[n] < ids[n + 1]
  <2>1. Len(ids) = count
    <3>1. ids = [i \in DOMAIN clusters |-> clusters[i].trace]
      BY <1>4, <1>13
    <3>2. ids \in Seq({clusters[i].trace : i \in 1 .. count})
      BY <1>12, <3>1
    <3> QED
      BY <1>12, <1>14, <3>2
  <2>2. n \in 1 .. count /\ n + 1 \in 1 .. count /\ n < n + 1
    BY <1>12, <1>18, <2>1
  <2>3. order[n] < order[n + 1]
    BY <1>12, <2>2
  <2>4. f.clusters[order[n]].trace < f.clusters[order[n + 1]].trace
    BY <1>7, <1>15, <2>2, <2>3
  <2> QED
    BY <1>12, <1>14, <2>2, <2>4
<1>19. PICK docs : docs = CaseFiles(evidence, id, policy)
  OBVIOUS
<1>20. PICK case : case = [id |-> id, refs |-> [i \in DOMAIN clusters |-> clusters[i].ref]]
  OBVIOUS
<1>21. PICK source : source = [case |-> case, fixture |-> key.id,
                               ids |-> [i \in DOMAIN clusters |-> clusters[i].trace],
                               selection |-> chosen]
  OBVIOUS
<1>22. /\ DOMAIN docs = 1 .. 5 /\ Len(docs) = 5
       /\ docs[1] = <<"case", case>> /\ docs[2][1] = "result" /\ docs[3] = <<"report", Absent>>
       /\ docs[4] = <<"source", source>> /\ docs[5] = <<"readme", Absent>>
  <2>1. PICK result : result = [policy |-> policy,
                                decision |-> Decide(GuidedCase(Answers[id]), CasePolicy[policy])]
    OBVIOUS
  <2>2. clusters = SelectedClusters(FixtureAt[evidence.fixture], evidence.selection.ids)
    BY <1>1, <1>3
  <2>3. docs = << <<"case", case>>, <<"result", result>>, <<"report", Absent>>, <<"source", source>>,
                  <<"readme", Absent>> >>
    BY <1>1, <1>19, <1>20, <1>21, <2>1, <2>2, Zenon DEF CaseFiles
  <2> QED
    BY <2>3
<1>23. \A n \in 1 .. 5 : n = 1 \/ n = 2 \/ n = 3 \/ n = 4 \/ n = 5
  OBVIOUS
<1>24. \A i, n \in 1 .. 5 : docs[i][1] = docs[n][1] => i = n
  BY <1>22, <1>23
<1>25. \A n \in 1 .. 5 : Known(docs[n][1], docs[n][2])
  BY <1>22, <1>23 DEF Known
<1>26. NamesOf(docs) = {"case", "result", "report", "source", "readme"}
  BY <1>22, <1>23 DEF NamesOf
<1>27. /\ DOMAIN Folder(docs) = NamesOf(docs)
       /\ \A n \in 1 .. 5 : Folder(docs)[docs[n][1]] = docs[n][2]
  BY <1>22, <1>24, FolderGives
<1>28. Folder(docs)["case"] = case /\ Folder(docs)["source"] = source
  BY <1>22, <1>27
<1>29. Accepted(Folder(docs))
  BY <1>26, <1>27 DEF Accepted
<1>30. /\ source.case = case /\ source.fixture = key.id /\ source.selection = chosen
       /\ source.ids = ids
  BY <1>4, <1>13, <1>21
<1>31. case.refs = [n \in DOMAIN ids |-> [source |-> export, trace |-> ids[n]]]
  BY <1>12, <1>14, <1>16, <1>20
<1>32. chosen.fixture = [manifest |-> [export |-> export, artifact |-> chosen.artifact], id |-> key.id]
  BY <1>1, <1>2, <1>7, <1>8
<1>33. NamesEvidence(Folder(docs))
  <2>1. ids # <<>>
    BY <1>4, <1>13
  <2>2. ToSet(ids) \subseteq {TraceHash[span.trace] : span \in ToSet(Export[chosen.sha256])}
    BY <1>6, <1>8, <1>17
  <2>3. case.refs = [n \in DOMAIN ids |-> [source |-> chosen.sha256, trace |-> ids[n]]]
    BY <1>8, <1>31
  <2>4. chosen.fixture = [manifest |-> [export |-> chosen.sha256, artifact |-> chosen.artifact],
                          id |-> source.fixture]
    BY <1>8, <1>30, <1>32
  <2> QED
    BY <1>13, <1>18, <1>28, <1>30, <2>1, <2>2, <2>3, <2>4 DEF NamesEvidence
<1> QED
  BY <1>19, <1>22, <1>24, <1>25, <1>29, <1>33 DEF Complete

\* A folder is under the project's or under itself.
LEMMA PathsApart ==
  ASSUME WorkspaceAssumption
  PROVE  /\ Project \in Paths /\ Project \notin Inside /\ Inside \subseteq Paths
         /\ \A p, q \in Paths : Under(p, q) <=> p = q \/ (q = Project /\ p \in Inside)
<1>1. ASSUME NEW p \in Paths
      PROVE  \/ p = <<"project">>
             \/ p = <<"causure-investigation">> \/ p = <<"causure-investigation-2">>
             \/ \E id \in Ids : \/ p = <<"project", id>> \/ p = <<"project", "cases", id>>
                                \/ p = <<"causure-cases", id>>
  BY DEF Paths, Project, Standalone
<1>2. Project \in Paths /\ Inside \subseteq Paths
  BY DEF Paths, Inside
<1>3. ASSUME NEW p \in Inside
      PROVE  /\ \E id \in Ids : p = <<"project", id>> \/ p = <<"project", "cases", id>>
             /\ p # Project
  BY DEF Inside, Project
<1>4. \A p : Under(p, Project) <=> 1 \in DOMAIN p /\ p[1] = "project"
  <2>1. DOMAIN Project = {1} /\ Project[1] = "project"
    BY DEF Project
  <2> QED
    BY <2>1 DEF Under
<1>5. ASSUME NEW p \in Paths
      PROVE  Under(p, Project) <=> p = Project \/ p \in Inside
  <2>1. CASE p = <<"project">>
    BY <1>4, <2>1 DEF Project
  <2>2. CASE p = <<"causure-investigation">> \/ p = <<"causure-investigation-2">>
    <3>1. p[1] # "project"
      BY <2>2
    <3>2. p # Project
      BY <3>1 DEF Project
    <3>3. p \notin Inside
      BY <1>3, <3>1
    <3> QED
      BY <1>4, <3>1, <3>2, <3>3
  <2>3. ASSUME NEW id \in Ids, p = <<"project", id>> \/ p = <<"project", "cases", id>>
        PROVE  Under(p, Project) /\ p \in Inside
    BY <1>4, <2>3 DEF Inside
  <2>4. ASSUME NEW id \in Ids, p = <<"causure-cases", id>>
        PROVE  ~Under(p, Project) /\ p # Project /\ p \notin Inside
    <3>1. p[1] # "project"
      BY <2>4
    <3>2. p # Project
      BY <3>1 DEF Project
    <3>3. p \notin Inside
      BY <1>3, <3>1
    <3> QED
      BY <1>4, <3>1, <3>2, <3>3
  <2> QED
    BY <1>1, <2>1, <2>2, <2>3, <2>4
<1>6. ASSUME NEW p
      PROVE  Under(p, p)
  BY DEF Under
<1>7. ASSUME NEW p \in Paths, NEW q \in Paths, q # Project, Under(p, q)
      PROVE  p = q
  <2>1. \A i \in DOMAIN q : i \in DOMAIN p /\ p[i] = q[i]
    BY <1>7 DEF Under
  <2>2. CASE q = <<"causure-investigation">> \/ q = <<"causure-investigation-2">>
    <3>1. p[1] = q[1] /\ q[1] \in {"causure-investigation", "causure-investigation-2"}
      BY <2>1, <2>2
    <3>2. p = <<"causure-investigation">> \/ p = <<"causure-investigation-2">>
      BY <1>1, <3>1
    <3> QED
      BY <2>2, <3>1, <3>2
  <2>3. ASSUME NEW id \in Ids, q = <<"causure-cases", id>>
        PROVE  p = q
    <3>1. p[1] = "causure-cases" /\ 2 \in DOMAIN p /\ p[2] = id
      BY <2>1, <2>3
    <3>2. \E other \in Ids : p = <<"causure-cases", other>>
      BY <1>1, <3>1
    <3> QED
      BY <2>3, <3>1, <3>2
  <2>4. ASSUME NEW id \in Ids, q = <<"project", "cases", id>>
        PROVE  p = q
    <3>1. p[1] = "project" /\ 3 \in DOMAIN p /\ p[3] = id
      BY <2>1, <2>4
    <3>2. \E other \in Ids : p = <<"project", "cases", other>>
      BY <1>1, <3>1
    <3> QED
      BY <2>4, <3>1, <3>2
  <2>5. ASSUME NEW id \in Ids, q = <<"project", id>>
        PROVE  p = q
    <3>1. p[1] = "project" /\ 2 \in DOMAIN p /\ p[2] = id /\ id # "cases"
      BY <2>1, <2>5 DEF WorkspaceAssumption
    <3>2. \E other \in Ids : p = <<"project", other>>
      BY <1>1, <3>1
    <3> QED
      BY <2>5, <3>1, <3>2
  <2>6. q # <<"project">>
    BY <1>7 DEF Project
  <2> QED
    BY <1>1, <2>2, <2>3, <2>4, <2>5, <2>6
<1>8. ASSUME NEW p \in Paths, NEW q \in Paths
      PROVE  Under(p, q) <=> p = q \/ (q = Project /\ p \in Inside)
  BY <1>5, <1>6, <1>7
<1> QED
  BY <1>2, <1>3, <1>8

\* A folder that is made goes into the project's, if it is inside that.
LEMMA MadeGives ==
  ASSUME WorkspaceAssumption, TreeHeld, NEW p \in Paths, tree[p] = {},
         tree' = [WithParents(p) EXCEPT ![p] = {NoFiles}]
  PROVE  /\ TreeHeld' /\ NoFiles \in tree'[p]
         /\ \A q \in Paths : tree[q] # {} => q # p /\ tree'[q] = tree[q]
         /\ p \in Inside => tree'[Project] # {}
<1>1. /\ DOMAIN tree = Paths /\ \A q \in Paths : \A f, g \in tree[q] : f = g
      /\ \A q \in Paths : \A f \in tree[q] : \A name \in DOMAIN f : Known(name, f[name])
  BY DEF TreeHeld
<1>2. /\ DOMAIN WithParents(p) = Paths
      /\ \A q \in Paths : WithParents(p)[q] = IF q = Project /\ Under(p, q) /\ tree[q] = {}
                                              THEN {NoFiles} ELSE tree[q]
  BY DEF WithParents
<1>3. DOMAIN tree' = Paths /\ tree'[p] = {NoFiles}
      /\ \A q \in Paths \ {p} : tree'[q] = WithParents(p)[q]
  BY <1>2
<1>4. DOMAIN NoFiles = {}
  BY DEF NoFiles
<1>5. \A q \in Paths : tree'[q] = {NoFiles} \/ tree'[q] = tree[q]
  BY <1>2, <1>3
<1>6. p \in Inside => tree'[Project] # {}
  <2>1. SUFFICES ASSUME p \in Inside
                 PROVE  tree'[Project] # {}
    OBVIOUS
  <2>2. Under(p, Project) /\ Project \in Paths /\ Project # p
    BY <2>1, PathsApart
  <2> QED
    BY <1>2, <1>3, <2>2
<1>7. TreeHeld'
  <2>1. \A q \in Paths : \A f, g \in tree'[q] : f = g
    BY <1>1, <1>5
  <2>2. \A q \in Paths : \A f \in tree'[q] : \A name \in DOMAIN f : Known(name, f[name])
    BY <1>1, <1>4, <1>5
  <2> QED
    BY <1>3, <2>1, <2>2 DEF TreeHeld
<1> QED
  BY <1>2, <1>3, <1>6, <1>7

\* One file of a folder is replaced; other folders stay.
Replaced(p, name, content) ==
  /\ tree'[p] # {}
  /\ \A q \in Paths \ {p} : tree[q] # {} => tree'[q] = tree[q]
  /\ \A f \in tree[p] : \E g \in tree'[p] :
        /\ DOMAIN g = DOMAIN f \cup {name} /\ g[name] = content
        /\ \A n \in DOMAIN f : n # name => g[n] = f[n]

\* Writing a file replaces it, and puts nothing unknown there.
LEMMA PutGives ==
  ASSUME WorkspaceAssumption, TreeHeld, NEW p \in Paths, NEW name, NEW content, Known(name, content),
         Put(p, name, content)
  PROVE  TreeHeld' /\ Replaced(p, name, content)
<1>1. /\ DOMAIN tree = Paths /\ \A q \in Paths : \A f, g \in tree[q] : f = g
      /\ \A q \in Paths : \A f \in tree[q] : \A n \in DOMAIN f : Known(n, f[n])
  BY DEF TreeHeld
<1>2. /\ DOMAIN WithParents(p) = Paths
      /\ \A q \in Paths : WithParents(p)[q] = IF q = Project /\ Under(p, q) /\ tree[q] = {}
                                              THEN {NoFiles} ELSE tree[q]
  BY DEF WithParents
<1>3. PICK old : old = IF tree[p] = {} THEN NoFiles ELSE CHOOSE f \in tree[p] : TRUE
  OBVIOUS
<1>4. PICK new : new = [n \in DOMAIN old \cup {name} |-> IF n = name THEN content ELSE old[n]]
  OBVIOUS
<1>5. tree' = [WithParents(p) EXCEPT ![p] = {new}]
  BY <1>3, <1>4 DEF Put
<1>6. DOMAIN tree' = Paths /\ tree'[p] = {new}
      /\ \A q \in Paths \ {p} : tree'[q] = WithParents(p)[q]
  BY <1>2, <1>5
<1>7. DOMAIN NoFiles = {}
  BY DEF NoFiles
<1>8. \A f \in tree[p] : f = old
  BY <1>1, <1>3
<1>9. \A n \in DOMAIN old : Known(n, old[n])
  BY <1>1, <1>3, <1>7
<1>10. \A n \in DOMAIN new : Known(n, new[n])
  BY <1>4, <1>9
<1>11. \A q \in Paths \ {p} : tree'[q] = {NoFiles} \/ tree'[q] = tree[q]
  BY <1>2, <1>6
<1>12. TreeHeld'
  <2>1. \A q \in Paths : \A f, g \in tree'[q] : f = g
    BY <1>1, <1>6, <1>11
  <2>2. \A q \in Paths : \A f \in tree'[q] : \A n \in DOMAIN f : Known(n, f[n])
    BY <1>1, <1>6, <1>7, <1>10, <1>11
  <2> QED
    BY <1>6, <2>1, <2>2 DEF TreeHeld
<1>13. /\ DOMAIN new = DOMAIN old \cup {name} /\ new[name] = content
       /\ \A n \in DOMAIN old : n # name => new[n] = old[n]
  BY <1>4
<1> QED
  BY <1>2, <1>6, <1>8, <1>12, <1>13 DEF Replaced

\* A folder is removed with those inside it.
LEMMA RemovedGives ==
  ASSUME WorkspaceAssumption, TreeHeld, NEW p \in Paths, Removed(p)
  PROVE  /\ TreeHeld'
         /\ \A q \in Paths : q # p /\ (p = Project => q \notin Inside) => tree'[q] = tree[q]
<1>1. tree' = [q \in Paths |-> IF Under(q, p) THEN {} ELSE tree[q]]
  BY DEF Removed
<1>2. \A q \in Paths : tree'[q] = {} \/ tree'[q] = tree[q]
  BY <1>1
<1>3. TreeHeld'
  BY <1>1, <1>2 DEF TreeHeld
<1>4. \A q \in Paths : q # p /\ (p = Project => q \notin Inside) => ~Under(q, p)
  BY PathsApart
<1> QED
  BY <1>1, <1>3, <1>4

\* What is assumed of exports, identifiers and what can be asked.
EvidenceAssumptions == EvidenceAssumption /\ WorkspaceAssumption /\ AgendaAssumption

\* Nobody begins to write, or writes elsewhere.
NoNewWriting == \A j \in Writing' : j \in Writing /\ at'[j].path = at[j].path

\* A sheltered folder stays so while nobody begins to write and its project stays.
LEMMA ShelterKeeps ==
  ASSUME NEW p, NEW own, Sheltered(p, own), NoNewWriting, p \in Inside => tree'[Project] # {}
  PROVE  /\ \A j \in Writing' \ own : at'[j].path # p
         /\ p \in Inside => \A j \in Writing' : at'[j].path # Project
BY DEF Sheltered, NoNewWriting

\* What commands in progress rely on, when nobody begins to write.
LEMMA WritersKeep ==
  ASSUME WritersHeld, DOMAIN at' = DOMAIN at, NoNewWriting,
         \A k \in DOMAIN at : Firm(k)' =>
            /\ Firm(k) /\ at'[k].path = at[k].path
            /\ at[k].path \in Inside => tree'[Project] # {}
            /\ \E f \in tree'[at[k].path] : Written(f, at'[k].files, at'[k].next)
  PROVE  WritersHeld'
<1>1. SUFFICES ASSUME NEW k \in DOMAIN at, Firm(k)'
               PROVE  /\ (Sheltered(at[k].path, {k}))'
                      /\ \E f \in tree'[at'[k].path] : Written(f, at'[k].files, at'[k].next)
  BY DEF WritersHeld
<1>2. /\ Firm(k) /\ at'[k].path = at[k].path
      /\ at[k].path \in Inside => tree'[Project] # {}
      /\ \E f \in tree'[at[k].path] : Written(f, at'[k].files, at'[k].next)
  BY <1>1
<1>3. PICK p : p = at[k].path
  OBVIOUS
<1>4. Sheltered(p, {k})
  BY <1>2, <1>3 DEF WritersHeld
<1>5. /\ \A j \in Writing' \ {k} : at'[j].path # p
      /\ p \in Inside => \A j \in Writing' : at'[j].path # Project
  BY <1>2, <1>3, <1>4, ShelterKeeps
<1>6. (Sheltered(at[k].path, {k}))'
  BY <1>2, <1>3, <1>5 DEF Sheltered
<1> QED
  BY <1>2, <1>6

\* What was reported, when nobody begins to write.
LEMMA ReportsKeep ==
  ASSUME ReportsHeld, NoNewWriting, NEW R \in SUBSET reports,
         \A r \in R : ~r.exposed =>
            /\ r.path \in Inside => tree'[Project] # {}
            /\ \E f \in tree'[r.path] : Stands(f, r.files)
  PROVE  \A r \in R :
            /\ r.path \in Paths /\ Accepted(r.files) /\ NamesEvidence(r.files)
            /\ r.path = Project => "configuration" \in DOMAIN r.files
            /\ ~r.exposed => (Sheltered(r.path, {}))' /\ \E f \in tree'[r.path] : Stands(f, r.files)
<1>1. SUFFICES ASSUME NEW r \in R
               PROVE  /\ r.path \in Paths /\ Accepted(r.files) /\ NamesEvidence(r.files)
                      /\ r.path = Project => "configuration" \in DOMAIN r.files
                      /\ ~r.exposed => (Sheltered(r.path, {}))' /\ \E f \in tree'[r.path] : Stands(f, r.files)
  OBVIOUS
<1>2. /\ r.path \in Paths /\ Accepted(r.files) /\ NamesEvidence(r.files)
      /\ r.path = Project => "configuration" \in DOMAIN r.files
      /\ ~r.exposed => Sheltered(r.path, {})
  BY DEF ReportsHeld
<1>3. ASSUME ~r.exposed
      PROVE  (Sheltered(r.path, {}))' /\ \E f \in tree'[r.path] : Stands(f, r.files)
  <2>1. /\ r.path \in Inside => tree'[Project] # {}
        /\ \E f \in tree'[r.path] : Stands(f, r.files)
    BY <1>3
  <2>2. /\ \A j \in Writing' \ {} : at'[j].path # r.path
        /\ r.path \in Inside => \A j \in Writing' : at'[j].path # Project
    BY <1>2, <1>3, <2>1, ShelterKeeps
  <2> QED
    BY <2>1, <2>2 DEF Sheltered
<1> QED
  BY <1>2, <1>3

\* A command that goes on without touching a folder, and does not begin to write.
LEMMA CommandGoes ==
  ASSUME EvidenceInv, NEW i \in DOMAIN at, NEW state, Go(i, state), StateHeld(state),
         state.phase # "write",
         state.phase = "clean" => at[i].phase = "write" /\ state.path = at[i].path,
         state.phase \in {"manifest", "fixture", "answers"} => Asked(i).do = "case",
         UNCHANGED <<tree, agenda, reports>>
  PROVE  EvidenceInv'
<1>1. /\ DOMAIN at' = DOMAIN at /\ at'[i] = state
      /\ \A k \in DOMAIN at : k # i => at'[k] = at[k]
  BY DEF Go
<1>2. tree' = tree /\ agenda' = agenda /\ reports' = reports
  OBVIOUS
<1>3. TreeHeld'
  BY <1>2 DEF EvidenceInv, TreeHeld
<1>4. CommandsHeld'
  <2>1. SUFFICES ASSUME NEW k \in DOMAIN at
                 PROVE  /\ StateHeld(at'[k])
                        /\ at'[k].phase \in {"manifest", "fixture", "answers"} => Asked(k)'.do = "case"
    BY <1>1 DEF CommandsHeld, StateHeld
  <2>2. Asked(k)' = Asked(k)
    BY <1>2 DEF Asked
  <2>3. CASE k = i
    BY <1>1, <2>2, <2>3
  <2>4. CASE k # i
    BY <1>1, <2>2, <2>4 DEF EvidenceInv, CommandsHeld
  <2> QED
    BY <2>3, <2>4
<1>5. NoNewWriting
  BY <1>1 DEF NoNewWriting, Writing
<1>6. WritersHeld'
  <2>1. ASSUME NEW k \in DOMAIN at, Firm(k)'
        PROVE  /\ Firm(k) /\ at'[k].path = at[k].path
               /\ at[k].path \in Inside => tree'[Project] # {}
               /\ \E f \in tree'[at[k].path] : Written(f, at'[k].files, at'[k].next)
    <3>1. k # i /\ at'[k] = at[k]
      BY <1>1, <2>1 DEF Firm
    <3>2. Firm(k)
      BY <2>1, <3>1 DEF Firm
    <3> QED
      BY <1>2, <3>1, <3>2 DEF EvidenceInv, WritersHeld, Sheltered
  <2> QED
    BY <1>1, <1>5, <2>1, WritersKeep DEF EvidenceInv
<1>7. ReportsHeld'
  <2>1. ReportsHeld
    BY DEF EvidenceInv
  <2>2. \A r \in reports : ~r.exposed =>
            /\ r.path \in Inside => tree'[Project] # {}
            /\ \E f \in tree'[r.path] : Stands(f, r.files)
    BY <1>2, <2>1 DEF ReportsHeld, Sheltered
  <2>3. PICK R : R = reports
    OBVIOUS
  <2>4. \A r \in R :
            /\ r.path \in Paths /\ Accepted(r.files) /\ NamesEvidence(r.files)
            /\ r.path = Project => "configuration" \in DOMAIN r.files
            /\ ~r.exposed => (Sheltered(r.path, {}))' /\ \E f \in tree'[r.path] : Stands(f, r.files)
    BY <1>5, <2>1, <2>2, <2>3, ReportsKeep
  <2> QED
    BY <1>2, <2>3, <2>4 DEF ReportsHeld
<1> QED
  BY <1>1, <1>2, <1>3, <1>4, <1>6, <1>7 DEF EvidenceInv

\* The commands at other places hold what they held.
LEMMA OthersHold ==
  ASSUME CommandsHeld, agenda' = agenda, NEW i \in DOMAIN at, NEW state, Go(i, state),
         StateHeld(state), state.phase \notin {"manifest", "fixture", "answers"}
  PROVE  /\ CommandsHeld' /\ DOMAIN at' = DOMAIN at /\ at'[i] = state
         /\ \A k \in DOMAIN at : k # i => at'[k] = at[k]
<1>1. /\ DOMAIN at' = DOMAIN at /\ at'[i] = state
      /\ \A k \in DOMAIN at : k # i => at'[k] = at[k]
  BY DEF Go
<1>2. SUFFICES ASSUME NEW k \in DOMAIN at
               PROVE  /\ StateHeld(at'[k])
                      /\ at'[k].phase \in {"manifest", "fixture", "answers"} => Asked(k)'.do = "case"
  BY <1>1 DEF CommandsHeld, StateHeld
<1>3. Asked(k)' = Asked(k)
  BY DEF Asked
<1>4. CASE k = i
  BY <1>1, <1>4
<1>5. CASE k # i
  BY <1>1, <1>3, <1>5 DEF CommandsHeld
<1> QED
  BY <1>4, <1>5

\* A folder is made where none was.
LEMMA MakesKeeps ==
  ASSUME EvidenceAssumptions, EvidenceInv, NEW i \in DOMAIN at, at[i].phase = "make",
         tree[at[i].path] = {}, MakesFolder(i), UNCHANGED <<agenda, reports>>
  PROVE  EvidenceInv'
<1>1. PICK p, docs : p = at[i].path /\ docs = at[i].files
  OBVIOUS
<1>2. PICK exposed \in BOOLEAN : exposed = \E j \in Writing : at[j].path \in {Project, p}
  OBVIOUS
<1>3. PICK state : state = [phase |-> "write", path |-> p, files |-> docs, next |-> 1,
                            exposed |-> exposed]
  OBVIOUS
<1>4. Go(i, state) /\ tree' = [WithParents(p) EXCEPT ![p] = {NoFiles}] /\ tree[p] = {}
  BY <1>1, <1>2, <1>3 DEF MakesFolder
<1>5. MayGoTo(docs, p) /\ p \in Paths
  BY <1>1 DEF EvidenceInv, CommandsHeld, StateHeld, MayGoTo
<1>6. StateHeld(state)
  BY <1>3, <1>5 DEF StateHeld
<1>7. /\ CommandsHeld' /\ DOMAIN at' = DOMAIN at /\ at'[i] = state
      /\ \A k \in DOMAIN at : k # i => at'[k] = at[k]
  BY <1>3, <1>4, <1>6, OthersHold DEF EvidenceInv
<1>8. WorkspaceAssumption /\ TreeHeld
  BY DEF EvidenceAssumptions, EvidenceInv
<1>9. /\ TreeHeld' /\ NoFiles \in tree'[p]
      /\ \A q \in Paths : tree[q] # {} => q # p /\ tree'[q] = tree[q]
      /\ p \in Inside => tree'[Project] # {}
  BY <1>4, <1>5, <1>8, MadeGives
<1>10. Project \in Paths /\ Project \notin Inside
  BY <1>8, PathsApart
<1>11. \A j \in Writing' : j = i \/ (j \in Writing /\ at'[j].path = at[j].path)
  BY <1>7 DEF Writing
<1>12. at'[i].path = p
  BY <1>3, <1>7
<1>13. ASSUME NEW q \in Paths, NEW own, Sheltered(q, own), tree[q] # {}
       PROVE  /\ \A j \in Writing' \ own : at'[j].path # q
              /\ q \in Inside => tree'[Project] # {} /\ \A j \in Writing' : at'[j].path # Project
  <2>1. q # p
    BY <1>9, <1>13
  <2>2. \A j \in Writing' \ own : at'[j].path # q
    BY <1>11, <1>12, <1>13, <2>1 DEF Sheltered
  <2>3. ASSUME q \in Inside
        PROVE  tree'[Project] # {} /\ \A j \in Writing' : at'[j].path # Project
    <3>1. tree[Project] # {} /\ \A j \in Writing : at[j].path # Project
      BY <1>13, <2>3 DEF Sheltered
    <3>2. Project # p /\ tree'[Project] # {}
      BY <1>9, <1>10, <3>1
    <3> QED
      BY <1>11, <1>12, <3>1, <3>2
  <2> QED
    BY <2>2, <2>3
<1>14. WritersHeld'
  <2>1. SUFFICES ASSUME NEW k \in DOMAIN at, Firm(k)'
                 PROVE  /\ (Sheltered(at[k].path, {k}))'
                        /\ \E f \in tree'[at'[k].path] : Written(f, at'[k].files, at'[k].next)
    BY <1>7 DEF WritersHeld
  <2>2. CASE k = i
    <3>1. ~exposed
      BY <1>3, <1>7, <2>1, <2>2 DEF Firm
    <3>2. \A j \in Writing : at[j].path # p /\ at[j].path # Project
      BY <1>2, <3>1
    <3>3. \A j \in Writing' \ {i} : at'[j].path # p
      BY <1>11, <3>2
    <3>4. p \in Inside => tree'[Project] # {} /\ \A j \in Writing' : at'[j].path # Project
      BY <1>9, <1>10, <1>11, <1>12, <3>2
    <3>5. (Sheltered(at[i].path, {i}))'
      BY <1>12, <3>3, <3>4 DEF Sheltered
    <3>6. at'[i].files = docs /\ at'[i].next = 1
      BY <1>3, <1>7
    <3>7. Written(NoFiles, docs, 1)
      BY DEF Written, NoFiles
    <3> QED
      BY <1>9, <1>12, <2>2, <3>5, <3>6, <3>7
  <2>3. CASE k # i
    <3>1. at'[k] = at[k] /\ Firm(k)
      BY <1>7, <2>1, <2>3 DEF Firm
    <3>2. PICK q : q = at[k].path
      OBVIOUS
    <3>3. Sheltered(q, {k}) /\ \E f \in tree[q] : Written(f, at[k].files, at[k].next)
      BY <3>1, <3>2 DEF EvidenceInv, WritersHeld
    <3>4. q \in Paths
      BY <3>1, <3>2 DEF EvidenceInv, CommandsHeld, StateHeld, MayGoTo, Firm
    <3>5. tree'[q] = tree[q]
      BY <1>9, <3>3, <3>4
    <3>6. /\ \A j \in Writing' \ {k} : at'[j].path # q
          /\ q \in Inside => tree'[Project] # {} /\ \A j \in Writing' : at'[j].path # Project
      BY <1>13, <3>3, <3>4
    <3>7. (Sheltered(at[k].path, {k}))'
      BY <3>1, <3>2, <3>6 DEF Sheltered
    <3> QED
      BY <3>1, <3>2, <3>3, <3>5, <3>7
  <2> QED
    BY <2>2, <2>3
<1>15. ReportsHeld'
  <2>1. SUFFICES ASSUME NEW r \in reports
                 PROVE  /\ r.path \in Paths /\ Accepted(r.files) /\ NamesEvidence(r.files)
                        /\ r.path = Project => "configuration" \in DOMAIN r.files
                        /\ ~r.exposed => (Sheltered(r.path, {}))' /\ \E f \in tree'[r.path] : Stands(f, r.files)
    BY DEF ReportsHeld
  <2>2. /\ r.path \in Paths /\ Accepted(r.files) /\ NamesEvidence(r.files)
        /\ r.path = Project => "configuration" \in DOMAIN r.files
        /\ ~r.exposed => Sheltered(r.path, {}) /\ \E f \in tree[r.path] : Stands(f, r.files)
    BY DEF EvidenceInv, ReportsHeld
  <2>3. ASSUME ~r.exposed
        PROVE  (Sheltered(r.path, {}))' /\ \E f \in tree'[r.path] : Stands(f, r.files)
    <3>1. Sheltered(r.path, {}) /\ tree[r.path] # {}
      BY <2>2, <2>3
    <3>2. /\ \A j \in Writing' \ {} : at'[j].path # r.path
          /\ r.path \in Inside => tree'[Project] # {} /\ \A j \in Writing' : at'[j].path # Project
      BY <1>13, <2>2, <3>1
    <3>3. tree'[r.path] = tree[r.path]
      BY <1>9, <2>2, <3>1
    <3> QED
      BY <2>2, <2>3, <3>2, <3>3 DEF Sheltered
  <2> QED
    BY <2>2, <2>3
<1> QED
  BY <1>7, <1>9, <1>14, <1>15 DEF EvidenceInv

\* A command writes its next document, and reports with the last one.
LEMMA WriteDocumentKeeps ==
  ASSUME EvidenceAssumptions, EvidenceInv, NEW i \in DOMAIN at, WriteDocument(i)
  PROVE  EvidenceInv'
<1>1. PICK p, docs, next : p = at[i].path /\ docs = at[i].files /\ next = at[i].next
  OBVIOUS
<1>2. MayGoTo(docs, p) /\ p \in Paths /\ Complete(docs) /\ next \in 1 .. 5 /\ at[i].exposed \in BOOLEAN
      /\ at[i].phase = "write" /\ "next" \in DOMAIN at[i] /\ i \in Writing
  BY <1>1 DEF EvidenceInv, CommandsHeld, StateHeld, MayGoTo, WriteDocument, Writing
<1>3. PICK name, content : name = docs[next][1] /\ content = docs[next][2]
  OBVIOUS
<1>4. Put(p, name, content) /\ agenda' = agenda /\ DOMAIN docs = 1 .. 5 /\ Len(docs) = 5
  BY <1>1, <1>2, <1>3 DEF WriteDocument, Complete
<1>5. Known(name, content)
  BY <1>2, <1>3 DEF Complete
<1>6. WorkspaceAssumption /\ TreeHeld
  BY DEF EvidenceAssumptions, EvidenceInv
<1>7. /\ TreeHeld' /\ tree'[p] # {}
      /\ \A q \in Paths \ {p} : tree[q] # {} => tree'[q] = tree[q]
      /\ \A f \in tree[p] : \E g \in tree'[p] :
            /\ DOMAIN g = DOMAIN f \cup {name} /\ g[name] = content
            /\ \A n \in DOMAIN f : n # name => g[n] = f[n]
  <2>1. p \in Paths
    BY <1>2
  <2>2. Put(p, name, content)
    BY <1>4
  <2>3. TreeHeld' /\ Replaced(p, name, content)
    BY <1>5, <1>6, <2>1, <2>2, PutGives
  <2> QED
    BY <2>3 DEF Replaced
<1>8. Project \in Paths /\ Project \notin Inside
  BY <1>6, PathsApart
<1>9. ASSUME Firm(i)
      PROVE  \E g \in tree'[p] : Written(g, docs, next + 1)
  <2>1. PICK f \in tree[p] : Written(f, docs, next)
    BY <1>1, <1>9 DEF EvidenceInv, WritersHeld
  <2>2. PICK g \in tree'[p] :
            /\ DOMAIN g = DOMAIN f \cup {name} /\ g[name] = content
            /\ \A n \in DOMAIN f : n # name => g[n] = f[n]
    BY <1>7
  <2>3. name \in NamesOf(docs)
    BY <1>2, <1>3 DEF NamesOf
  <2>4. DOMAIN g \subseteq NamesOf(docs)
    BY <2>1, <2>2, <2>3 DEF Written
  <2>5. ASSUME NEW n \in 1 .. 5, n < next + 1
        PROVE  docs[n][1] \in DOMAIN g /\ (docs[n][1] # "configuration" => g[docs[n][1]] = docs[n][2])
    <3>1. CASE n = next
      BY <1>3, <2>2, <3>1
    <3>2. CASE n # next
      <4>1. n < next
        BY <1>2, <2>5, <3>2
      <4>2. docs[n][1] \in DOMAIN f /\ (docs[n][1] # "configuration" => f[docs[n][1]] = docs[n][2])
        BY <2>1, <4>1 DEF Written
      <4>3. docs[n][1] # name
        BY <1>2, <1>3, <3>2 DEF Complete
      <4> QED
        BY <2>2, <4>2, <4>3
    <3> QED
      BY <3>1, <3>2
  <2>6. \A n \in 1 .. 5 : n < next + 1 =>
           /\ docs[n][1] \in DOMAIN g
           /\ docs[n][1] # "configuration" => g[docs[n][1]] = docs[n][2]
    BY <2>5
  <2>7. Written(g, docs, next + 1)
    BY <2>4, <2>6 DEF Written
  <2> QED
    BY <2>7
<1>10. ASSUME NEW q \in Paths, NEW own, Sheltered(q, own), i \notin own, tree[q] # {}
       PROVE  tree'[q] = tree[q] /\ (q \in Inside => tree'[Project] # {})
  <2>1. q # p
    BY <1>1, <1>2, <1>10 DEF Sheltered
  <2>2. tree'[q] = tree[q]
    BY <1>7, <1>10, <2>1
  <2>3. ASSUME q \in Inside
        PROVE  tree'[Project] # {}
    <3>1. tree[Project] # {}
      BY <1>10, <2>3 DEF Sheltered
    <3> QED
      BY <1>7, <1>8, <3>1
  <2> QED
    BY <2>2, <2>3
<1>11. PICK old : old = reports
  OBVIOUS
<1>12. ASSUME NoNewWriting
       PROVE  \A r \in old :
                /\ r.path \in Paths /\ Accepted(r.files) /\ NamesEvidence(r.files)
                /\ r.path = Project => "configuration" \in DOMAIN r.files
                /\ ~r.exposed => (Sheltered(r.path, {}))' /\ \E f \in tree'[r.path] : Stands(f, r.files)
  <2>1. ReportsHeld /\ old \in SUBSET reports
    BY <1>11 DEF EvidenceInv
  <2>2. ASSUME NEW r \in old, ~r.exposed
        PROVE  /\ r.path \in Inside => tree'[Project] # {}
               /\ \E f \in tree'[r.path] : Stands(f, r.files)
    <3>1. /\ r.path \in Paths /\ Sheltered(r.path, {})
          /\ \E f \in tree[r.path] : Stands(f, r.files)
      BY <1>11, <2>1, <2>2 DEF ReportsHeld
    <3>2. tree'[r.path] = tree[r.path] /\ (r.path \in Inside => tree'[Project] # {})
      BY <1>10, <3>1
    <3> QED
      BY <3>1, <3>2
  <2> QED
    BY <1>12, <2>1, <2>2, ReportsKeep
<1>13. ASSUME NEW k \in DOMAIN at, k # i, at'[k] = at[k], Firm(k)'
       PROVE  /\ Firm(k) /\ at'[k].path = at[k].path
              /\ at[k].path \in Inside => tree'[Project] # {}
              /\ \E f \in tree'[at[k].path] : Written(f, at'[k].files, at'[k].next)
  <2>1. Firm(k)
    BY <1>13 DEF Firm
  <2>2. PICK q : q = at[k].path
    OBVIOUS
  <2>3. Sheltered(q, {k}) /\ \E f \in tree[q] : Written(f, at[k].files, at[k].next)
    BY <2>1, <2>2 DEF EvidenceInv, WritersHeld
  <2>4. q \in Paths
    BY <2>1, <2>2 DEF EvidenceInv, CommandsHeld, StateHeld, MayGoTo, Firm
  <2>5. tree'[q] = tree[q] /\ (q \in Inside => tree'[Project] # {})
    BY <1>10, <1>13, <2>3, <2>4
  <2> QED
    BY <1>13, <2>1, <2>2, <2>3, <2>5
<1>14. CASE next < 5
  <2>1. PICK state : state = [at[i] EXCEPT !.next = next + 1]
    OBVIOUS
  <2>2. Go(i, state) /\ reports' = reports
    BY <1>1, <1>4, <1>14, <2>1 DEF WriteDocument
  <2>3. /\ state.phase = "write" /\ state.path = p /\ state.files = docs
        /\ state.exposed = at[i].exposed /\ state.next = next + 1 /\ "next" \in DOMAIN state
    BY <1>1, <1>2, <2>1
  <2>4. StateHeld(state)
    BY <1>2, <1>14, <2>3 DEF StateHeld
  <2>5. /\ CommandsHeld' /\ DOMAIN at' = DOMAIN at /\ at'[i] = state
        /\ \A k \in DOMAIN at : k # i => at'[k] = at[k]
    BY <1>4, <2>2, <2>3, <2>4, OthersHold DEF EvidenceInv
  <2>6. NoNewWriting
    BY <1>1, <1>2, <2>3, <2>5 DEF NoNewWriting, Writing
  <2>7. WritersHeld'
    <3>1. ASSUME NEW k \in DOMAIN at, Firm(k)'
          PROVE  /\ Firm(k) /\ at'[k].path = at[k].path
                 /\ at[k].path \in Inside => tree'[Project] # {}
                 /\ \E f \in tree'[at[k].path] : Written(f, at'[k].files, at'[k].next)
      <4>1. CASE k # i
        BY <1>13, <2>5, <3>1, <4>1
      <4>2. CASE k = i
        <5>1. Firm(i)
          BY <1>2, <2>3, <2>5, <3>1, <4>2 DEF Firm
        <5>2. \E g \in tree'[p] : Written(g, docs, next + 1)
          BY <1>9, <5>1
        <5>3. p \in Inside => tree'[Project] # {}
          <6>1. p \in Inside => tree[Project] # {} /\ p # Project
            BY <1>1, <1>8, <5>1 DEF EvidenceInv, WritersHeld, Sheltered
          <6> QED
            BY <1>7, <1>8, <6>1
        <5> QED
          BY <1>1, <2>3, <2>5, <4>2, <5>1, <5>2, <5>3
      <4> QED
        BY <4>1, <4>2
    <3> QED
      BY <2>5, <2>6, <3>1, WritersKeep DEF EvidenceInv
  <2>8. ReportsHeld'
    BY <1>11, <1>12, <2>2, <2>6 DEF ReportsHeld
  <2> QED
    BY <1>4, <1>7, <2>5, <2>7, <2>8 DEF EvidenceInv
<1>15. CASE next = 5
  <2>1. PICK state : state = [phase |-> "done"]
    OBVIOUS
  <2>2. PICK r : r = [path |-> p, files |-> Folder(docs), exposed |-> at[i].exposed]
    OBVIOUS
  <2>3. Go(i, state) /\ reports' = reports \cup {r}
    BY <1>1, <1>4, <1>15, <2>1, <2>2 DEF WriteDocument, Done
  <2>4. StateHeld(state) /\ state.phase = "done"
    BY <2>1 DEF StateHeld
  <2>5. /\ CommandsHeld' /\ DOMAIN at' = DOMAIN at /\ at'[i] = state
        /\ \A k \in DOMAIN at : k # i => at'[k] = at[k]
    BY <1>4, <2>3, <2>4, OthersHold DEF EvidenceInv
  <2>6. NoNewWriting
    BY <2>4, <2>5 DEF NoNewWriting, Writing
  <2>7. WritersHeld'
    <3>1. ASSUME NEW k \in DOMAIN at, Firm(k)'
          PROVE  /\ Firm(k) /\ at'[k].path = at[k].path
                 /\ at[k].path \in Inside => tree'[Project] # {}
                 /\ \E f \in tree'[at[k].path] : Written(f, at'[k].files, at'[k].next)
      <4>1. k # i
        BY <2>4, <2>5, <3>1 DEF Firm
      <4> QED
        BY <1>13, <2>5, <3>1, <4>1
    <3> QED
      BY <2>5, <2>6, <3>1, WritersKeep DEF EvidenceInv
  <2>8. /\ DOMAIN Folder(docs) = NamesOf(docs)
        /\ \A n \in 1 .. 5 : Folder(docs)[docs[n][1]] = docs[n][2]
        /\ Accepted(Folder(docs)) /\ NamesEvidence(Folder(docs))
    BY <1>2, FolderGives DEF Complete
  <2>9. r.path = p /\ r.files = Folder(docs) /\ r.exposed = at[i].exposed
    BY <2>2
  <2>10. p = Project => "configuration" \in DOMAIN r.files
    BY <1>2, <2>8, <2>9 DEF MayGoTo
  <2>11. ASSUME ~r.exposed
         PROVE  (Sheltered(r.path, {}))' /\ \E f \in tree'[r.path] : Stands(f, r.files)
    <3>1. Firm(i)
      BY <1>2, <2>9, <2>11 DEF Firm
    <3>2. Sheltered(p, {i})
      BY <1>1, <3>1 DEF EvidenceInv, WritersHeld
    <3>3. p \in Inside => tree'[Project] # {}
      <4>1. p \in Inside => tree[Project] # {} /\ p # Project
        BY <1>8, <3>2 DEF Sheltered
      <4> QED
        BY <1>7, <1>8, <4>1
    <3>4. /\ \A j \in Writing' \ {i} : at'[j].path # p
          /\ p \in Inside => \A j \in Writing' : at'[j].path # Project
      BY <2>6, <3>2, <3>3, ShelterKeeps
    <3>5. i \notin Writing'
      BY <2>4, <2>5 DEF Writing
    <3>6. (Sheltered(r.path, {}))'
      BY <2>9, <3>3, <3>4, <3>5 DEF Sheltered
    <3>7. PICK g \in tree'[p] : Written(g, docs, 5 + 1)
      BY <1>9, <1>15, <3>1
    <3>8. \A n \in 1 .. 5 : /\ docs[n][1] \in DOMAIN g
                            /\ docs[n][1] # "configuration" => g[docs[n][1]] = docs[n][2]
      BY <3>7 DEF Written
    <3>9. DOMAIN g = NamesOf(docs)
      BY <3>7, <3>8 DEF Written, NamesOf
    <3>10. ASSUME NEW n \in DOMAIN g, n # "configuration"
           PROVE  g[n] = Folder(docs)[n]
      <4>1. PICK m \in 1 .. 5 : n = docs[m][1]
        BY <3>9, <3>10 DEF NamesOf
      <4> QED
        BY <2>8, <3>8, <3>10, <4>1
    <3>11. Stands(g, r.files)
      BY <2>8, <2>9, <3>9, <3>10 DEF Stands
    <3> QED
      BY <2>9, <3>6, <3>7, <3>11
  <2>12. ReportsHeld'
    <3>1. SUFFICES ASSUME NEW t \in reports'
                   PROVE  /\ t.path \in Paths /\ Accepted(t.files) /\ NamesEvidence(t.files)
                          /\ t.path = Project => "configuration" \in DOMAIN t.files
                          /\ ~t.exposed => (Sheltered(t.path, {}))'
                                             /\ \E f \in tree'[t.path] : Stands(f, t.files)
      BY DEF ReportsHeld
    <3>2. CASE t = r
      BY <1>2, <2>8, <2>9, <2>10, <2>11, <3>2
    <3>3. CASE t \in old
      BY <1>12, <2>6, <3>3
    <3> QED
      BY <1>11, <2>3, <3>1, <3>2, <3>3
  <2> QED
    BY <1>4, <1>7, <2>5, <2>7, <2>12 DEF EvidenceInv
<1> QED
  BY <1>2, <1>14, <1>15

\* A step in which nobody begins to write, and what is relied on stays.
LEMMA FoldersStay ==
  ASSUME EvidenceInv, agenda' = agenda, CommandsHeld', TreeHeld', DOMAIN at' = DOMAIN at,
         NoNewWriting, reports' \subseteq reports,
         \A k \in DOMAIN at : Firm(k)' =>
            /\ at'[k] = at[k]
            /\ at[k].path \in Inside => tree'[Project] # {}
            /\ \E f \in tree'[at[k].path] : Written(f, at[k].files, at[k].next),
         \A r \in reports' : ~r.exposed =>
            /\ r.path \in Inside => tree'[Project] # {}
            /\ \E f \in tree'[r.path] : Stands(f, r.files)
  PROVE  EvidenceInv'
<1>1. WritersHeld'
  <2>1. ASSUME NEW k \in DOMAIN at, Firm(k)'
        PROVE  /\ Firm(k) /\ at'[k].path = at[k].path
               /\ at[k].path \in Inside => tree'[Project] # {}
               /\ \E f \in tree'[at[k].path] : Written(f, at'[k].files, at'[k].next)
    <3>1. at'[k] = at[k]
      BY <2>1
    <3>2. Firm(k)
      BY <2>1, <3>1 DEF Firm
    <3> QED
      BY <2>1, <3>1, <3>2
  <2>2. WritersHeld
    BY DEF EvidenceInv
  <2> QED
    BY <2>1, <2>2, WritersKeep
<1>2. ReportsHeld'
  <2>1. PICK R : R = reports'
    OBVIOUS
  <2>2. ReportsHeld /\ R \in SUBSET reports
    BY <2>1 DEF EvidenceInv
  <2>3. \A r \in R : ~r.exposed =>
            /\ r.path \in Inside => tree'[Project] # {}
            /\ \E f \in tree'[r.path] : Stands(f, r.files)
    BY <2>1
  <2>4. \A r \in R :
            /\ r.path \in Paths /\ Accepted(r.files) /\ NamesEvidence(r.files)
            /\ r.path = Project => "configuration" \in DOMAIN r.files
            /\ ~r.exposed => (Sheltered(r.path, {}))' /\ \E f \in tree'[r.path] : Stands(f, r.files)
    BY <2>2, <2>3, ReportsKeep
  <2> QED
    BY <2>1, <2>4 DEF ReportsHeld
<1> QED
  BY <1>1, <1>2 DEF EvidenceInv

\* What is relied on, at one path.
LEMMA WriterRelies ==
  ASSUME EvidenceInv, NEW k \in DOMAIN at, Firm(k)
  PROVE  /\ at[k].path \in Paths /\ MayGoTo(at[k].files, at[k].path) /\ k \in Writing
         /\ Sheltered(at[k].path, {k})
         /\ \E f \in tree[at[k].path] : Written(f, at[k].files, at[k].next)
BY DEF EvidenceInv, WritersHeld, CommandsHeld, StateHeld, MayGoTo, Firm, Writing

\* What was reported firmly is sheltered and stands.
LEMMA ReportRelies ==
  ASSUME EvidenceInv, NEW r \in reports, ~r.exposed
  PROVE  /\ r.path \in Paths /\ Sheltered(r.path, {})
         /\ r.path = Project => "configuration" \in DOMAIN r.files
         /\ \E f \in tree[r.path] : Stands(f, r.files)
BY DEF EvidenceInv, ReportsHeld

\* A command that failed removes its own folder, or leaves it.
LEMMA RemoveUnfinishedKeeps ==
  ASSUME EvidenceAssumptions, EvidenceInv, NEW i \in DOMAIN at, RemoveUnfinished(i)
  PROVE  EvidenceInv'
<1>1. PICK p, state : p = at[i].path /\ state = [phase |-> "done"]
  OBVIOUS
<1>2. /\ at[i].phase = "clean" /\ (Removed(p) \/ UNCHANGED tree) /\ Go(i, state)
      /\ agenda' = agenda /\ reports' = reports
  BY <1>1 DEF RemoveUnfinished, Done
<1>3. p \in Paths /\ i \in Writing /\ at[i].path = p /\ ~Firm(i)
  BY <1>1, <1>2 DEF EvidenceInv, CommandsHeld, StateHeld, Writing, Firm
<1>4. StateHeld(state) /\ state.phase = "done"
  BY <1>1 DEF StateHeld
<1>5. /\ CommandsHeld' /\ DOMAIN at' = DOMAIN at /\ at'[i] = state
      /\ \A k \in DOMAIN at : k # i => at'[k] = at[k]
  BY <1>2, <1>4, OthersHold DEF EvidenceInv
<1>6. NoNewWriting
  BY <1>4, <1>5 DEF NoNewWriting, Writing
<1>7. WorkspaceAssumption /\ TreeHeld
  BY DEF EvidenceAssumptions, EvidenceInv
<1>8. Project \in Paths /\ Project \notin Inside
  BY <1>7, PathsApart
<1>9. TreeHeld' /\ \A q \in Paths : q # p /\ (p = Project => q \notin Inside) => tree'[q] = tree[q]
  <2>1. CASE Removed(p)
    BY <1>3, <1>7, <2>1, RemovedGives
  <2>2. CASE tree' = tree
    BY <1>7, <2>2 DEF TreeHeld
  <2> QED
    BY <1>2, <2>1, <2>2
<1>10. ASSUME NEW q \in Paths, NEW own, Sheltered(q, own), i \notin own
       PROVE  tree'[q] = tree[q] /\ (q \in Inside => tree'[Project] # {})
  <2>1. q # p /\ (q \in Inside => p # Project /\ tree[Project] # {})
    BY <1>3, <1>10 DEF Sheltered
  <2> QED
    BY <1>8, <1>9, <2>1
<1>11. ASSUME NEW k \in DOMAIN at, Firm(k)'
       PROVE  /\ at'[k] = at[k]
              /\ at[k].path \in Inside => tree'[Project] # {}
              /\ \E f \in tree'[at[k].path] : Written(f, at[k].files, at[k].next)
  <2>1. k # i /\ at'[k] = at[k]
    BY <1>4, <1>5, <1>11 DEF Firm
  <2>2. Firm(k)
    BY <1>11, <2>1 DEF Firm
  <2>3. PICK q : q = at[k].path
    OBVIOUS
  <2>4. q \in Paths /\ Sheltered(q, {k}) /\ \E f \in tree[q] : Written(f, at[k].files, at[k].next)
    BY <2>2, <2>3, WriterRelies
  <2>5. tree'[q] = tree[q] /\ (q \in Inside => tree'[Project] # {})
    BY <1>10, <2>1, <2>4
  <2> QED
    BY <2>1, <2>3, <2>4, <2>5
<1>12. ASSUME NEW r \in reports, ~r.exposed
       PROVE  /\ r.path \in Inside => tree'[Project] # {}
              /\ \E f \in tree'[r.path] : Stands(f, r.files)
  <2>1. r.path \in Paths /\ Sheltered(r.path, {}) /\ \E f \in tree[r.path] : Stands(f, r.files)
    BY <1>12, ReportRelies
  <2>2. tree'[r.path] = tree[r.path] /\ (r.path \in Inside => tree'[Project] # {})
    BY <1>10, <2>1
  <2> QED
    BY <2>1, <2>2
<1> QED
  BY <1>2, <1>5, <1>6, <1>9, <1>11, <1>12, FoldersStay

\* The configuration is replaced, where there is a project and where there is none.
LEMMA WriteConfigurationKeeps ==
  ASSUME EvidenceAssumptions, EvidenceInv, NEW i \in DOMAIN at, WriteConfiguration(i)
  PROVE  EvidenceInv'
<1>1. PICK c, state : c = at[i].configuration /\ state = [phase |-> "done"]
  OBVIOUS
<1>2. /\ at[i].phase = "configure" /\ Put(Project, "configuration", c) /\ Go(i, state)
      /\ agenda' = agenda /\ reports' = reports
  BY <1>1 DEF WriteConfiguration, Done
<1>3. Known("configuration", c)
  BY <1>1, <1>2 DEF EvidenceInv, CommandsHeld, StateHeld, Known
<1>4. StateHeld(state) /\ state.phase = "done"
  BY <1>1 DEF StateHeld
<1>5. /\ CommandsHeld' /\ DOMAIN at' = DOMAIN at /\ at'[i] = state
      /\ \A k \in DOMAIN at : k # i => at'[k] = at[k]
  BY <1>2, <1>4, OthersHold DEF EvidenceInv
<1>6. NoNewWriting
  BY <1>4, <1>5 DEF NoNewWriting, Writing
<1>7. WorkspaceAssumption /\ TreeHeld
  BY DEF EvidenceAssumptions, EvidenceInv
<1>8. Project \in Paths /\ Project \notin Inside
  BY <1>7, PathsApart
<1>9. TreeHeld' /\ Replaced(Project, "configuration", c)
  BY <1>2, <1>3, <1>7, <1>8, PutGives
<1>10. /\ tree'[Project] # {}
       /\ \A q \in Paths \ {Project} : tree[q] # {} => tree'[q] = tree[q]
       /\ \A f \in tree[Project] : \E g \in tree'[Project] :
             /\ DOMAIN g = DOMAIN f \cup {"configuration"} /\ g["configuration"] = c
             /\ \A n \in DOMAIN f : n # "configuration" => g[n] = f[n]
  BY <1>9 DEF Replaced
<1>11. ASSUME NEW k \in DOMAIN at, Firm(k)'
       PROVE  /\ at'[k] = at[k]
              /\ at[k].path \in Inside => tree'[Project] # {}
              /\ \E f \in tree'[at[k].path] : Written(f, at[k].files, at[k].next)
  <2>1. k # i /\ at'[k] = at[k]
    BY <1>4, <1>5, <1>11 DEF Firm
  <2>2. Firm(k)
    BY <1>11, <2>1 DEF Firm
  <2>3. PICK q, docs, next : q = at[k].path /\ docs = at[k].files /\ next = at[k].next
    OBVIOUS
  <2>4. q \in Paths /\ MayGoTo(docs, q) /\ \E f \in tree[q] : Written(f, docs, next)
    BY <2>2, <2>3, WriterRelies
  <2>5. PICK f \in tree[q] : Written(f, docs, next)
    BY <2>4
  <2>6. CASE q # Project
    BY <1>10, <2>1, <2>3, <2>4, <2>5, <2>6
  <2>7. CASE q = Project
    <3>1. PICK g \in tree'[Project] :
             /\ DOMAIN g = DOMAIN f \cup {"configuration"}
             /\ \A n \in DOMAIN f : n # "configuration" => g[n] = f[n]
      BY <1>10, <2>5, <2>7
    <3>2. "configuration" \in NamesOf(docs)
      BY <2>4, <2>7 DEF MayGoTo
    <3>3. Written(g, docs, next)
      BY <2>5, <3>1, <3>2 DEF Written
    <3> QED
      BY <1>10, <2>1, <2>3, <2>7, <3>3
  <2> QED
    BY <2>6, <2>7
<1>12. ASSUME NEW r \in reports, ~r.exposed
       PROVE  /\ r.path \in Inside => tree'[Project] # {}
              /\ \E f \in tree'[r.path] : Stands(f, r.files)
  <2>1. r.path \in Paths /\ (r.path = Project => "configuration" \in DOMAIN r.files)
        /\ \E f \in tree[r.path] : Stands(f, r.files)
    BY <1>12, ReportRelies
  <2>2. PICK f \in tree[r.path] : Stands(f, r.files)
    BY <2>1
  <2>3. CASE r.path # Project
    BY <1>10, <2>1, <2>2, <2>3
  <2>4. CASE r.path = Project
    <3>1. PICK g \in tree'[Project] :
             /\ DOMAIN g = DOMAIN f \cup {"configuration"}
             /\ \A n \in DOMAIN f : n # "configuration" => g[n] = f[n]
      BY <1>10, <2>2, <2>4
    <3>2. Stands(g, r.files)
      BY <2>1, <2>2, <2>4, <3>1 DEF Stands
    <3> QED
      BY <1>10, <2>4, <3>2
  <2> QED
    BY <2>3, <2>4
<1> QED
  BY <1>2, <1>5, <1>6, <1>9, <1>11, <1>12, FoldersStay

\* A person touches no folder that is being written, and what is reported of the
\* folders touched is forgotten.
LEMMA HandKeeps ==
  ASSUME EvidenceAssumptions, EvidenceInv, NEW p \in Paths, Handled(p), TreeHeld',
         \A q \in Paths : tree[q] # {} /\ ~Under(q, p) => tree'[q] = tree[q]
  PROVE  EvidenceInv'
<1>1. /\ \A j \in Writing : ~Under(at[j].path, p)
      /\ reports' = {r \in reports : ~Under(r.path, p)} /\ agenda' = agenda /\ at' = at
  BY DEF Handled
<1>2. WorkspaceAssumption
  BY DEF EvidenceAssumptions
<1>3. /\ Project \in Paths /\ Project \notin Inside
      /\ \A q \in Inside : ~Under(q, p) => ~Under(Project, p)
  BY <1>2, PathsApart
<1>4. CommandsHeld'
  BY <1>1 DEF EvidenceInv, CommandsHeld, StateHeld, Asked
<1>5. NoNewWriting
  BY <1>1 DEF NoNewWriting, Writing
<1>6. ASSUME NEW q \in Paths, NEW own, Sheltered(q, own), ~Under(q, p)
      PROVE  q \in Inside => tree'[Project] # {}
  BY <1>3, <1>6 DEF Sheltered
<1>7. ASSUME NEW k \in DOMAIN at, Firm(k)'
      PROVE  /\ at'[k] = at[k]
             /\ at[k].path \in Inside => tree'[Project] # {}
             /\ \E f \in tree'[at[k].path] : Written(f, at[k].files, at[k].next)
  <2>1. Firm(k)
    BY <1>1, <1>7 DEF Firm
  <2>2. PICK q : q = at[k].path
    OBVIOUS
  <2>3. /\ q \in Paths /\ k \in Writing /\ Sheltered(q, {k})
        /\ \E f \in tree[q] : Written(f, at[k].files, at[k].next)
    BY <2>1, <2>2, WriterRelies
  <2>4. ~Under(q, p)
    BY <1>1, <2>2, <2>3
  <2>5. tree'[q] = tree[q]
    BY <2>3, <2>4
  <2>6. q \in Inside => tree'[Project] # {}
    BY <1>6, <2>3, <2>4
  <2> QED
    BY <1>1, <2>2, <2>3, <2>5, <2>6
<1>8. ASSUME NEW r \in reports', ~r.exposed
      PROVE  /\ r.path \in Inside => tree'[Project] # {}
             /\ \E f \in tree'[r.path] : Stands(f, r.files)
  <2>1. r \in reports /\ ~Under(r.path, p)
    BY <1>1
  <2>2. r.path \in Paths /\ Sheltered(r.path, {}) /\ \E f \in tree[r.path] : Stands(f, r.files)
    BY <1>8, <2>1, ReportRelies
  <2>3. tree'[r.path] = tree[r.path] /\ (r.path \in Inside => tree'[Project] # {})
    BY <1>6, <2>1, <2>2
  <2> QED
    BY <2>2, <2>3
<1>9. reports' \subseteq reports /\ DOMAIN at' = DOMAIN at
  BY <1>1
<1> QED
  BY <1>1, <1>4, <1>5, <1>7, <1>8, <1>9, FoldersStay

\* A person removes a folder, with those inside.
LEMMA RemoveByHandKeeps ==
  ASSUME EvidenceAssumptions, EvidenceInv, NEW p \in Paths, RemoveByHand(p)
  PROVE  EvidenceInv'
<1>1. Handled(p) /\ Removed(p) /\ WorkspaceAssumption /\ TreeHeld
  BY DEF RemoveByHand, EvidenceAssumptions, EvidenceInv
<1>2. TreeHeld'
  BY <1>1, RemovedGives
<1>3. \A q \in Paths : ~Under(q, p) => tree'[q] = tree[q]
  BY <1>1 DEF Removed
<1> QED
  BY <1>1, <1>2, <1>3, HandKeeps

\* A person copies a document to where one of that name is.
LEMMA CopyByHandKeeps ==
  ASSUME EvidenceAssumptions, EvidenceInv, NEW from \in Paths, NEW to \in Paths, NEW name,
         CopyByHand(from, to, name)
  PROVE  EvidenceInv'
<1>1. PICK content : content = Read(from, name)
  OBVIOUS
<1>2. /\ Handled(to) /\ Put(to, name, content) /\ Has(from, name)
      /\ WorkspaceAssumption /\ TreeHeld
  BY <1>1 DEF CopyByHand, EvidenceAssumptions, EvidenceInv
<1>3. Known(name, content)
  <2>1. PICK f \in tree[from] : name \in DOMAIN f
    BY <1>2 DEF Has
  <2>2. PICK g : g = CHOOSE x \in tree[from] : TRUE
    OBVIOUS
  <2>3. g \in tree[from] /\ g = f
    BY <1>2, <2>1, <2>2 DEF TreeHeld
  <2>4. content = g[name]
    BY <1>1, <2>2 DEF Read
  <2> QED
    BY <1>2, <2>1, <2>3, <2>4 DEF TreeHeld
<1>4. TreeHeld' /\ Replaced(to, name, content)
  BY <1>2, <1>3, PutGives
<1>5. \A q \in Paths : tree[q] # {} /\ ~Under(q, to) => tree'[q] = tree[q]
  <2>1. \A q \in Paths : ~Under(q, to) => q # to
    BY <1>2, PathsApart
  <2> QED
    BY <1>4, <2>1 DEF Replaced
<1> QED
  BY <1>2, <1>4, <1>5, HandKeeps

\* A command that ends without touching a folder.
LEMMA CommandEnds ==
  ASSUME EvidenceInv, NEW i \in DOMAIN at, Done(i), UNCHANGED <<tree, agenda, reports>>
  PROVE  EvidenceInv'
<1>1. PICK state : state = [phase |-> "done"]
  OBVIOUS
<1>2. Go(i, state) /\ state.phase = "done" /\ StateHeld(state)
  BY <1>1 DEF Done, StateHeld
<1> QED
  BY <1>2, CommandGoes

\* A folder is made, or refused because there is one.
LEMMA MakeFolderKeeps ==
  ASSUME EvidenceAssumptions, EvidenceInv, NEW i \in DOMAIN at, MakeFolder(i)
  PROVE  EvidenceInv'
<1>1. CASE tree[at[i].path] = {}
  BY <1>1, MakesKeeps DEF MakeFolder
<1>2. CASE tree[at[i].path] # {}
  BY <1>2, CommandEnds DEF MakeFolder
<1> QED
  BY <1>1, <1>2

\* A write fails, and the folder is to be cleaned up.
LEMMA WriteFailsKeeps ==
  ASSUME EvidenceInv, NEW i \in DOMAIN at, WriteFails(i)
  PROVE  EvidenceInv'
<1>1. PICK p, state : p = at[i].path /\ state = [phase |-> "clean", path |-> p]
  OBVIOUS
<1>2. Go(i, state) /\ at[i].phase = "write" /\ UNCHANGED <<tree, agenda, reports>>
  BY <1>1 DEF WriteFails
<1>3. p \in Paths
  BY <1>1, <1>2 DEF EvidenceInv, CommandsHeld, StateHeld, MayGoTo
<1>4. StateHeld(state) /\ state.phase = "clean" /\ state.path = at[i].path
  BY <1>1, <1>3 DEF StateHeld
<1> QED
  BY <1>2, <1>4, CommandGoes

\* A command is killed and leaves what it wrote.
LEMMA KillKeepsEvidence ==
  ASSUME EvidenceInv, NEW i \in DOMAIN at, KillCommand(i)
  PROVE  EvidenceInv'
BY CommandEnds DEF KillCommand

\* What a command was asked for is something that can be asked.
LEMMA AskedGives ==
  ASSUME EvidenceAssumptions, EvidenceInv, NEW i \in DOMAIN at
  PROVE  /\ Asked(i).do = "investigate" => Asked(i).request \in Requests
         /\ Asked(i).do = "case" => Asked(i).from \in Paths /\ Asked(i).id \in DOMAIN Answers
<1>1. agenda \in Agendas /\ Asked(i) = agenda.commands[i] /\ i \in DOMAIN agenda.commands
  BY DEF EvidenceInv, Asked
<1>2. Asked(i) \in ToSet(agenda.commands)
  BY <1>1 DEF ToSet
<1> QED
  BY <1>1, <1>2 DEF EvidenceAssumptions, AgendaAssumption

\* A folder that is not the project's may have any complete set of documents.
LEMMA MakeHeld ==
  ASSUME NEW docs, NEW path, Complete(docs), path \in Paths \ {Project}
  PROVE  StateHeld(Make(path, docs)) /\ Make(path, docs).phase = "make"
BY DEF StateHeld, Make, MayGoTo

\* An investigation is prepared in memory, for a folder that is not the project's.
LEMMA PrepareKeeps ==
  ASSUME EvidenceAssumptions, EvidenceInv, NEW i \in DOMAIN at, Prepare(i)
  PROVE  EvidenceInv'
<1>1. PICK r : r = Asked(i).request
  OBVIOUS
<1>2. PICK path : path = IF r.output = Absent
                         THEN IF Has(Project, "configuration") THEN <<"project", r.id>>
                              ELSE <<"causure-investigation">>
                         ELSE r.output
  OBVIOUS
<1>3. r \in Requests
  BY <1>1, AskedGives DEF Prepare
<1>4. EvidenceAssumption /\ WorkspaceAssumption /\ AgendaAssumption
  BY DEF EvidenceAssumptions
<1>5. path \in Paths \ {Project}
  <2>1. r.id \in Ids
    BY <1>3, <1>4 DEF WorkspaceAssumption
  <2>2. <<"project", r.id>> \in Inside
    BY <2>1 DEF Inside
  <2>3. <<"project", r.id>> \in Paths \ {Project}
    BY <1>4, <2>2, PathsApart
  <2>4. <<"causure-investigation">> \in Paths /\ <<"causure-investigation">> # Project
    BY DEF Paths, Standalone, Project
  <2>5. r.output # Absent => r.output \in Paths \ {Project}
    BY <1>3, <1>4 DEF AgendaAssumption
  <2> QED
    BY <1>2, <2>3, <2>4, <2>5
<1>6. CASE Investigates(r)
  <2>1. PICK docs, state : docs = InvestigationFiles(r) /\ state = Make(path, docs)
    OBVIOUS
  <2>2. Complete(docs)
    BY <1>3, <1>4, <1>6, <2>1, InvestigationComplete
  <2>3. StateHeld(state) /\ state.phase = "make"
    BY <1>5, <2>1, <2>2, MakeHeld
  <2>4. Go(i, state) /\ UNCHANGED <<tree, agenda, reports>>
    BY <1>1, <1>2, <1>6, <2>1 DEF Prepare
  <2> QED
    BY <2>3, <2>4, CommandGoes
<1>7. CASE ~Investigates(r)
  BY <1>1, <1>7, CommandEnds DEF Prepare
<1> QED
  BY <1>6, <1>7

\* What is read from a file is something that was in a file of that name.
LEMMA ReadKnown ==
  ASSUME EvidenceInv, NEW path \in Paths, NEW name, Has(path, name)
  PROVE  Known(name, Read(path, name))
<1>1. PICK f \in tree[path] : name \in DOMAIN f
  BY DEF Has
<1>2. PICK g : g = CHOOSE x \in tree[path] : TRUE
  OBVIOUS
<1>3. g \in tree[path] /\ g = f
  BY <1>1, <1>2 DEF EvidenceInv, TreeHeld
<1>4. Read(path, name) = g[name]
  BY <1>2 DEF Read
<1> QED
  BY <1>1, <1>3, <1>4 DEF EvidenceInv, TreeHeld

\* The selection is read, whatever it says.
LEMMA ReadSelectionKeeps ==
  ASSUME EvidenceInv, NEW i \in DOMAIN at, ReadSelection(i)
  PROVE  EvidenceInv'
<1>1. CASE Has(Asked(i).from, "selection")
  <2>1. PICK state : state = [phase |-> "manifest", selection |-> Read(Asked(i).from, "selection")]
    OBVIOUS
  <2>2. Go(i, state) /\ Asked(i).do = "case" /\ UNCHANGED <<tree, agenda, reports>>
    BY <1>1, <2>1 DEF ReadSelection
  <2>3. state.phase = "manifest" /\ StateHeld(state)
    BY <2>1 DEF StateHeld
  <2> QED
    BY <2>2, <2>3, CommandGoes
<1>2. CASE ~Has(Asked(i).from, "selection")
  BY <1>2, CommandEnds DEF ReadSelection
<1> QED
  BY <1>1, <1>2

\* The manifest read is one of those there are.
LEMMA ReadManifestKeeps ==
  ASSUME EvidenceAssumptions, EvidenceInv, NEW i \in DOMAIN at, ReadManifest(i)
  PROVE  EvidenceInv'
<1>1. CASE Has(Asked(i).from, "manifest")
  <2>1. PICK manifest : manifest = Read(Asked(i).from, "manifest")
    OBVIOUS
  <2>2. PICK state : state = [phase |-> "fixture", selection |-> at[i].selection,
                              manifest |-> manifest]
    OBVIOUS
  <2>3. Go(i, state) /\ at[i].phase = "manifest" /\ UNCHANGED <<tree, agenda, reports>>
    BY <1>1, <2>1, <2>2 DEF ReadManifest
  <2>4. Asked(i).do = "case"
    BY <2>3 DEF EvidenceInv, CommandsHeld
  <2>5. manifest \in DOMAIN ManifestAt
    BY <1>1, <2>1, <2>4, AskedGives, ReadKnown DEF Known
  <2>6. state.phase = "fixture" /\ StateHeld(state)
    BY <2>2, <2>5 DEF StateHeld
  <2> QED
    BY <2>3, <2>4, <2>6, CommandGoes
<1>2. CASE ~Has(Asked(i).from, "manifest")
  BY <1>2, CommandEnds DEF ReadManifest
<1> QED
  BY <1>1, <1>2

\* The fixture is read and the three are compared, though they may come from different folders.
LEMMA ReadFixtureKeeps ==
  ASSUME EvidenceAssumptions, EvidenceInv, NEW i \in DOMAIN at, ReadFixture(i)
  PROVE  EvidenceInv'
<1>1. PICK evidence : evidence = [selection |-> at[i].selection, manifest |-> at[i].manifest,
                                  fixture |-> Read(Asked(i).from, "fixture")]
  OBVIOUS
<1>2. at[i].phase = "fixture" /\ UNCHANGED <<tree, agenda, reports>>
  BY DEF ReadFixture
<1>3. CASE Has(Asked(i).from, "fixture") /\ Verified(evidence)
  <2>1. PICK state : state = [phase |-> "answers", evidence |-> evidence,
                              project |-> Under(Asked(i).from, Project)
                                            /\ Has(Project, "configuration")]
    OBVIOUS
  <2>2. Go(i, state)
    BY <1>1, <1>3, <2>1 DEF ReadFixture
  <2>3. Asked(i).do = "case" /\ at[i].manifest \in DOMAIN ManifestAt
    BY <1>2 DEF EvidenceInv, CommandsHeld, StateHeld
  <2>4. evidence.fixture \in DOMAIN FixtureAt
    BY <1>1, <1>3, <2>3, AskedGives, ReadKnown DEF Known
  <2>5. EvidenceKnown(evidence)
    BY <1>1, <1>3, <2>3, <2>4 DEF EvidenceKnown
  <2>6. state.phase = "answers" /\ StateHeld(state)
    BY <2>1, <2>5 DEF StateHeld
  <2> QED
    BY <1>2, <2>2, <2>3, <2>6, CommandGoes
<1>4. CASE ~(Has(Asked(i).from, "fixture") /\ Verified(evidence))
  <2>1. Done(i)
    BY <1>1, <1>4 DEF ReadFixture
  <2> QED
    BY <1>2, <2>1, CommandEnds
<1> QED
  BY <1>3, <1>4

\* The case is made of the evidence that was verified, not of what is there by now.
LEMMA AnswerKeeps ==
  ASSUME EvidenceAssumptions, EvidenceInv, NEW i \in DOMAIN at, Answer(i)
  PROVE  EvidenceInv'
<1>1. PICK c, ready, policy :
         /\ c = Asked(i)
         /\ ready = (/\ Has(Project, "configuration")
                     /\ c.policy = Absent => Has(Project, "policy"))
         /\ policy = IF c.policy # Absent THEN c.policy
                     ELSE IF at[i].project THEN Read(Project, "policy") ELSE "preset"
  OBVIOUS
<1>2. PICK path, docs : /\ path = IF at[i].project THEN <<"project", "cases", c.id>>
                                  ELSE <<"causure-cases", c.id>>
                        /\ docs = CaseFiles(at[i].evidence, c.id, policy)
  OBVIOUS
<1>3. at[i].phase = "answers" /\ UNCHANGED <<tree, agenda, reports>>
  BY DEF Answer
<1>4. Done(i) \/ Go(i, Make(path, docs))
  BY <1>1, <1>2 DEF Answer
<1>5. EvidenceAssumption /\ WorkspaceAssumption
  BY DEF EvidenceAssumptions
<1>6. CASE Go(i, Make(path, docs))
  <2>1. Asked(i).do = "case" /\ EvidenceKnown(at[i].evidence)
    BY <1>3 DEF EvidenceInv, CommandsHeld, StateHeld
  <2>2. Complete(docs)
    BY <1>2, <1>5, <2>1, CaseComplete
  <2>3. c.id \in Ids
    BY <1>1, <1>5, <2>1, AskedGives DEF WorkspaceAssumption
  <2>4. <<"project", "cases", c.id>> \in Inside
    BY <2>3 DEF Inside
  <2>5. <<"project", "cases", c.id>> \in Paths \ {Project}
    BY <1>5, <2>4, PathsApart
  <2>6. <<"causure-cases", c.id>> \in Paths /\ <<"causure-cases", c.id>> # Project
    BY <2>3 DEF Paths, Project
  <2>7. path \in Paths \ {Project}
    BY <1>2, <2>5, <2>6
  <2>8. PICK state : state = Make(path, docs)
    OBVIOUS
  <2>9. StateHeld(state) /\ state.phase = "make"
    BY <2>2, <2>7, <2>8, MakeHeld
  <2> QED
    BY <1>3, <1>6, <2>8, <2>9, CommandGoes
<1> QED
  BY <1>3, <1>4, <1>6, CommandEnds

\* The changed configuration is checked before it is written.
LEMMA ReadConfigurationKeeps ==
  ASSUME EvidenceInv, NEW i \in DOMAIN at, ReadConfiguration(i)
  PROVE  EvidenceInv'
<1>1. PICK c : c = Reconfigured(Asked(i), Read(Project, "configuration"))
  OBVIOUS
<1>2. PICK state : state = [phase |-> "configure", configuration |-> c]
  OBVIOUS
<1>3. \/ Done(i)
      \/ Go(i, state) /\ ConfigurationParses(c)
  BY <1>1, <1>2 DEF ReadConfiguration, Reconfigures
<1>4. UNCHANGED <<tree, agenda, reports>>
  BY DEF ReadConfiguration
<1>5. CASE Go(i, state) /\ ConfigurationParses(c)
  <2>1. state.phase = "configure" /\ StateHeld(state)
    BY <1>2, <1>5 DEF StateHeld
  <2> QED
    BY <1>4, <1>5, <2>1, CommandGoes
<1> QED
  BY <1>3, <1>4, <1>5, CommandEnds

\* At first the folders are whole, and nobody is writing.
LEMMA EvidenceStarts ==
  ASSUME EvidenceAssumptions, WorkspaceInit
  PROVE  EvidenceInv
<1>1. EvidenceAssumption /\ WorkspaceAssumption /\ AgendaAssumption
  BY DEF EvidenceAssumptions
<1>2. /\ Project \in Paths /\ Project \notin Inside /\ Inside \subseteq Paths
      /\ \A p, q \in Paths : Under(p, q) <=> p = q \/ (q = Project /\ p \in Inside)
  BY <1>1, PathsApart
<1>3. agenda \in Agendas /\ DOMAIN at = DOMAIN agenda.commands
  BY DEF WorkspaceInit
<1>4. \A path \in DOMAIN agenda.holds :
         /\ agenda.holds[path] \in Requests /\ Investigates(agenda.holds[path])
         /\ Under(path, Project) => agenda.project
  BY <1>1, <1>3 DEF AgendaAssumption
<1>5. Complete(ProjectFiles) /\ "configuration" \in NamesOf(ProjectFiles)
  BY <1>1, ProjectComplete
<1>6. DOMAIN tree = Paths
  BY DEF WorkspaceInit
<1>7. \A p \in Paths \ {Project} :
         tree[p] = IF p \in DOMAIN agenda.holds
                   THEN {Folder(InvestigationFiles(agenda.holds[p]))} ELSE {}
  BY DEF WorkspaceInit
<1>8. tree[Project] = IF agenda.project THEN {Folder(ProjectFiles)} ELSE {}
  BY <1>2 DEF WorkspaceInit
<1>9. ASSUME NEW p \in Paths
      PROVE  /\ \A f, g \in tree[p] : f = g
             /\ \A f \in tree[p] : \E docs : Complete(docs) /\ f = Folder(docs)
  <2>1. CASE p = Project
    BY <1>5, <1>8, <2>1
  <2>2. CASE p # Project /\ p \in DOMAIN agenda.holds
    <3>1. PICK r : r = agenda.holds[p]
      OBVIOUS
    <3>2. r \in Requests /\ Investigates(r)
      BY <1>4, <2>2, <3>1
    <3>3. Complete(InvestigationFiles(r))
      BY <1>1, <3>2, InvestigationComplete
    <3> QED
      BY <1>7, <2>2, <3>1, <3>3
  <2>3. CASE p # Project /\ p \notin DOMAIN agenda.holds
    BY <1>7, <2>3
  <2> QED
    BY <2>1, <2>2, <2>3
<1>10. ASSUME NEW docs, Complete(docs)
       PROVE  /\ \A name \in DOMAIN Folder(docs) : Known(name, Folder(docs)[name])
              /\ Accepted(Folder(docs)) /\ NamesEvidence(Folder(docs))
  <2>1. /\ DOMAIN Folder(docs) = NamesOf(docs)
        /\ \A n \in 1 .. 5 : Folder(docs)[docs[n][1]] = docs[n][2]
    BY <1>10, FolderGives DEF Complete
  <2>2. \A n \in 1 .. 5 : Known(docs[n][1], Folder(docs)[docs[n][1]])
    BY <1>10, <2>1 DEF Complete
  <2>3. \A name \in DOMAIN Folder(docs) : \E n \in 1 .. 5 : name = docs[n][1]
    BY <2>1 DEF NamesOf
  <2> QED
    BY <1>10, <2>2, <2>3 DEF Complete
<1>11. TreeHeld
  BY <1>6, <1>9, <1>10 DEF TreeHeld
<1>12. \A i \in DOMAIN at : at[i] = Make(Project, ProjectFiles) \/ at[i] = [phase |-> "waiting"]
  BY DEF WorkspaceInit
<1>13. CommandsHeld
  <2>1. Make(Project, ProjectFiles).phase = "make" /\ StateHeld(Make(Project, ProjectFiles))
    BY <1>2, <1>5 DEF Make, StateHeld, MayGoTo
  <2>2. PICK state : state = [phase |-> "waiting"]
    OBVIOUS
  <2>3. state.phase = "waiting" /\ StateHeld(state)
    BY <2>2 DEF StateHeld
  <2>4. \A i \in DOMAIN at : StateHeld(at[i]) /\ at[i].phase \in {"make", "waiting"}
    BY <1>12, <2>1, <2>2, <2>3
  <2> QED
    BY <2>4 DEF CommandsHeld
<1>14. \A i \in DOMAIN at : at[i].phase \in {"make", "waiting"}
  BY <1>12 DEF Make
<1>15. Writing = {} /\ WritersHeld
  BY <1>14 DEF Writing, WritersHeld, Firm
<1>16. ReportsHeld
  <2>1. SUFFICES ASSUME NEW r \in reports
                 PROVE  /\ r.path \in Paths /\ Accepted(r.files) /\ NamesEvidence(r.files)
                        /\ r.path = Project => "configuration" \in DOMAIN r.files
                        /\ Sheltered(r.path, {}) /\ \E f \in tree[r.path] : Stands(f, r.files)
    BY DEF ReportsHeld
  <2>2. PICK p \in Paths : \E f \in tree[p] : r = [path |-> p, files |-> f, exposed |-> FALSE]
    BY DEF WorkspaceInit
  <2>8. PICK f \in tree[p] : r = [path |-> p, files |-> f, exposed |-> FALSE]
    BY <2>2
  <2>3. Accepted(f) /\ NamesEvidence(f)
    BY <1>9, <1>10
  <2>4. ASSUME p = Project
        PROVE  "configuration" \in DOMAIN f
    <3>1. f = Folder(ProjectFiles)
      BY <1>8, <2>4
    <3>2. DOMAIN Folder(ProjectFiles) = NamesOf(ProjectFiles)
      BY <1>5, FolderGives DEF Complete
    <3> QED
      BY <1>5, <3>1, <3>2
  <2>5. ASSUME p \in Inside
        PROVE  tree[Project] # {}
    <3>1. p # Project /\ Under(p, Project)
      BY <1>2, <2>5
    <3>2. p \in DOMAIN agenda.holds
      BY <1>7, <3>1
    <3> QED
      BY <1>4, <1>8, <3>1, <3>2
  <2>6. Sheltered(p, {})
    BY <1>15, <2>5 DEF Sheltered
  <2>7. Stands(f, f)
    BY DEF Stands
  <2> QED
    BY <2>3, <2>4, <2>6, <2>7, <2>8
<1> QED
  BY <1>3, <1>11, <1>13, <1>15, <1>16 DEF EvidenceInv

\* Every step of a behaviour keeps the invariant of evidence.
LEMMA EvidenceSteps ==
  ASSUME EvidenceAssumptions, EvidenceInv, [Next]_vars
  PROVE  EvidenceInv'
<1>1. CASE UNCHANGED workspaceVars
  BY <1>1 DEF workspaceVars, EvidenceInv, TreeHeld, CommandsHeld, Asked, WritersHeld, ReportsHeld,
              Sheltered, Firm, Writing
<1>2. CASE WorkspaceNext
  <2>1. ASSUME NEW i \in DOMAIN at,
               \/ MakeFolder(i) \/ WriteDocument(i) \/ WriteFails(i) \/ RemoveUnfinished(i)
               \/ WriteConfiguration(i) \/ KillCommand(i)
        PROVE  EvidenceInv'
    BY <2>1, MakeFolderKeeps, WriteDocumentKeeps, WriteFailsKeeps, RemoveUnfinishedKeeps,
       WriteConfigurationKeeps, KillKeepsEvidence
  <2>2. ASSUME NEW i \in DOMAIN at,
               \/ Prepare(i) \/ ReadSelection(i) \/ ReadManifest(i) \/ ReadFixture(i) \/ Answer(i)
               \/ ReadConfiguration(i)
        PROVE  EvidenceInv'
    BY <2>2, PrepareKeeps, ReadSelectionKeeps, ReadManifestKeeps, ReadFixtureKeeps, AnswerKeeps,
       ReadConfigurationKeeps
  <2>3. ASSUME NEW p \in Paths, RemoveByHand(p)
        PROVE  EvidenceInv'
    BY <2>3, RemoveByHandKeeps
  <2>4. ASSUME NEW from \in Paths, NEW to \in Paths, NEW name, CopyByHand(from, to, name)
        PROVE  EvidenceInv'
    BY <2>4, CopyByHandKeeps
  <2> QED
    BY <1>2, <2>1, <2>2, <2>3, <2>4 DEF WorkspaceNext
<1> QED
  BY <1>1, <1>2 DEF vars, Next, OnEvidence, OnGeneration, OnGitHub, OnDocuments, OnAzure, OnCanary,
                    OnAttestation

\* In every state the folders hold what their commands wrote, and a folder that is written or
\* was reported whole has nobody else at work in it: the exclusive mkdir decides who it is.
THEOREM EvidenceCorrect == Spec => []EvidenceInv
<1>1. EvidenceAssumptions
  BY EvidenceAssumption, WorkspaceAssumption, AgendaAssumption DEF EvidenceAssumptions
<1>2. Init => EvidenceInv
  BY <1>1, EvidenceStarts DEF Init
<1>3. EvidenceInv /\ [Next]_vars => EvidenceInv'
  BY <1>1, EvidenceSteps
<1> QED
  BY <1>2, <1>3, PTL DEF Spec

\* A case a command reported names one export, one selection of it and the clusters selected,
\* whatever happened to the investigation while it was read and the questions answered.
THEOREM CasesNamed == Spec => []CasesNameTheirEvidence
<1>1. EvidenceInv => CasesNameTheirEvidence
  BY DEF EvidenceInv, ReportsHeld, NamesEvidence, CasesNameTheirEvidence
<1> QED
  BY <1>1, EvidenceCorrect, PTL

\* A folder reported whole stays whole and what it was, however other commands make, fail,
\* clean up or are killed; its configuration, which is replaced, always parses.
THEOREM FoldersStand == Spec => []FinishedFoldersStand
<1>1. ASSUME EvidenceInv
      PROVE  FinishedFoldersStand
  <2>1. SUFFICES ASSUME NEW r \in reports, ~r.exposed
                 PROVE  \E g \in tree[r.path] :
                          /\ DOMAIN g = DOMAIN r.files
                          /\ \A name \in DOMAIN g \ {"configuration"} : g[name] = r.files[name]
                          /\ "configuration" \in DOMAIN g => ConfigurationParses(g["configuration"])
                          /\ "selection" \in DOMAIN g =>
                                Verified([selection |-> g["selection"], manifest |-> g["manifest"],
                                          fixture |-> g["fixture"]])
    BY DEF FinishedFoldersStand
  <2>2. r.path \in Paths /\ Accepted(r.files) /\ TreeHeld
    BY <1>1 DEF EvidenceInv, ReportsHeld
  <2>3. PICK g \in tree[r.path] : Stands(g, r.files)
    BY <1>1, <2>1, ReportRelies
  <2>4. DOMAIN g = DOMAIN r.files
        /\ \A name \in DOMAIN g \ {"configuration"} : g[name] = r.files[name]
    BY <2>3 DEF Stands
  <2>5. "configuration" \in DOMAIN g => ConfigurationParses(g["configuration"])
    BY <2>2, <2>3 DEF TreeHeld, Known
  <2>6. ASSUME "selection" \in DOMAIN g
        PROVE  Verified([selection |-> g["selection"], manifest |-> g["manifest"],
                         fixture |-> g["fixture"]])
    <3>1. {"manifest", "fixture"} \subseteq DOMAIN g
      BY <2>2, <2>4, <2>6 DEF Accepted
    <3>2. /\ g["selection"] = r.files["selection"] /\ g["manifest"] = r.files["manifest"]
          /\ g["fixture"] = r.files["fixture"]
      BY <2>4, <2>6, <3>1
    <3> QED
      BY <2>2, <2>4, <2>6, <3>2 DEF Accepted
  <2> QED
    BY <2>4, <2>5, <2>6
<1> QED
  BY <1>1, EvidenceCorrect, PTL
=============================================================================
