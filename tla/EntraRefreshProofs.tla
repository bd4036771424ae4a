-------------------------- MODULE EntraRefreshProofs --------------------------
(***************************************************************************)
(* The trust refresh, for any number of processes, any times and any       *)
(* budget of faults: who may fetch or install holds the owner lock, and    *)
(* while nobody replaces the lock file neither the snapshot file nor the   *)
(* keys that a process trusts go back.                                     *)
(***************************************************************************)
EXTENDS EntraRefresh, TLAPS

-----------------------------------------------------------------------------
(* The inductive invariant *)

CoRow == [pc : {"down", "promote", "booting", "poll", "demoting", "closing"},
          handle : Id \cup {NoHandle}, own : BOOLEAN, first : BOOLEAN,
          consume : BOOLEAN, stop : BOOLEAN]
WkRow == [pc : {"none", "begin", "fetch", "guard", "replace", "ready", "idle", "dead"},
          startup : BOOLEAN, pending : BOOLEAN, stop : BOOLEAN, failed : BOOLEAN,
          cand : DocOrNone]

\* The locks: a handle is of a file that existed, the system's record of a lock's holder is
\* the holder's own, and a process that may refresh has one.
LockInv ==
  /\ \A p \in Proc : co[p].handle <= lockId
  /\ \A p \in Proc, i \in Id : holder[i] = p <=> co[p].handle = i
  /\ \A p \in Proc : wk[p].pc # "none" => co[p].handle # NoHandle
  /\ \A p \in Proc : co[p].pc = "down" => co[p].handle = NoHandle /\ wk[p].pc = "none"

\* The snapshots: none holds keys that were not yet published; an attempt under way has one.
DocInv ==
  /\ file # NoDoc => file.keys <= provider
  /\ \A p \in Proc : reloader[p] # NoDoc => reloader[p].keys <= provider
  /\ \A p \in Proc : wk[p].cand # NoDoc => wk[p].cand.keys <= provider
  /\ \A p \in Proc : wk[p].cand # NoDoc <=> wk[p].pc \in {"fetch", "guard", "replace"}
  /\ \A p \in Proc : co[p].first => reloader[p] = NoDoc
  /\ \A p \in Proc : co[p].pc = "down" => co[p].first

\* An attempt under way is no older than anything installed or trusted, and has no older keys
\* than what is older.
Leads(d, e) == e # NoDoc => d.age <= e.age /\ (d.age < e.age => e.keys <= d.keys)
OrderInv ==
  /\ \A p \in Proc : wk[p].cand # NoDoc =>
       Leads(wk[p].cand, file) /\ \A q \in Proc : Leads(wk[p].cand, reloader[q])
  /\ \A p \in Proc : wk[p].pc = "replace" /\ file # NoDoc => Newer(wk[p].cand, file)
  /\ \A q \in Proc : file # NoDoc /\ reloader[q] # NoDoc /\ Newer(file, reloader[q])
                       => reloader[q].keys <= file.keys

\* What is left of the budget of the two bounded counters.
BudgetInv ==
  /\ provider + left.rotations <= MaxRotations
  /\ lockId + left.replacements <= MaxReplacements

EInv ==
  /\ EntraTypeOK
  /\ BudgetInv
  /\ LockInv
  /\ DocInv
  /\ lockId = 0 => OrderInv

-----------------------------------------------------------------------------
(* What a step of one process may do to the state *)

\* The rows of the other processes stand, and every row stays in its type.
RowsMove(p) ==
  /\ co' \in [Proc -> CoRow] /\ \A q \in Proc \ {p} : co'[q] = co[q]
  /\ wk' \in [Proc -> WkRow] /\ \A q \in Proc \ {p} : wk'[q] = wk[q]
  /\ reloader' \in [Proc -> DocOrNone] /\ \A q \in Proc \ {p} : reloader'[q] = reloader[q]
  /\ rejected' \in [Proc -> DocOrNone]
  /\ marker' \in BOOLEAN /\ owed' \in BOOLEAN
  /\ UNCHANGED << lockId, provider >>
  /\ left' = left \/ Spend("faults")

\* The process keeps its lock, releases it, or takes one that nobody holds.
LockMoves(p) ==
  /\ \/ co'[p].handle = co[p].handle /\ holder' = holder
     \/ co'[p].handle = NoHandle /\ holder' = Released(p)
     \/ /\ co[p].handle = NoHandle /\ holder[lockId] = NoProc
        /\ co'[p].handle = lockId /\ holder' = [holder EXCEPT ![lockId] = p]
  /\ wk'[p].pc # "none" => co'[p].handle # NoHandle
  /\ co'[p].pc = "down" => co'[p].handle = NoHandle /\ wk'[p].pc = "none"

\* The process trusts what it trusted, nothing, or the installed snapshot if that is newer.
TrustMoves(p) ==
  /\ \/ reloader'[p] \in {reloader[p], NoDoc}
     \/ reloader'[p] = file /\ (reloader[p] = NoDoc \/ Newer(file, reloader[p]))
  /\ co'[p].first => reloader'[p] = NoDoc
  /\ co'[p].pc = "down" => co'[p].first
  /\ wk'[p].cand # NoDoc <=> wk'[p].pc \in {"fetch", "guard", "replace"}

\* Nothing is installed, and an attempt goes on as it was or ends.
DocsStand(p) ==
  /\ file' = file
  /\ wk'[p].cand \in {wk[p].cand, NoDoc}
  /\ wk'[p].pc = "replace" => wk[p].pc = "replace"

Moves(p) == RowsMove(p) /\ LockMoves(p) /\ TrustMoves(p)

\* A step of one process keeps the locks.
LEMMA LocksKept ==
  ASSUME EInv, NEW p \in Proc, RowsMove(p), LockMoves(p)
  PROVE  LockInv' /\ holder' \in [Id -> Proc \cup {NoProc}]
<1>1. /\ holder \in [Id -> Proc \cup {NoProc}] /\ lockId \in Id /\ NoHandle \notin Id /\ Id \subseteq Int
      /\ co \in [Proc -> CoRow] /\ NoProc \notin Proc
  BY NoProcAssumption, BoundsAssumption DEF EInv, EntraTypeOK, CoRow, Id, NoHandle
<1>2. \A q \in Proc : /\ co[q].handle \in Id \cup {NoHandle} /\ co[q].handle <= lockId
                      /\ wk[q].pc # "none" => co[q].handle # NoHandle
                      /\ co[q].pc = "down" => co[q].handle = NoHandle /\ wk[q].pc = "none"
                      /\ \A i \in Id : holder[i] = q <=> co[q].handle = i
  BY <1>1 DEF EInv, LockInv, CoRow
<1>3. /\ \A q \in Proc \ {p} : co'[q] = co[q] /\ wk'[q] = wk[q]
      /\ lockId' = lockId
  BY DEF RowsMove
<1>4. CASE co'[p].handle = co[p].handle /\ holder' = holder
  BY <1>1, <1>2, <1>3, <1>4 DEF LockMoves, LockInv
<1>5. CASE co'[p].handle = NoHandle /\ holder' = Released(p)
  <2>1. /\ holder' \in [Id -> Proc \cup {NoProc}]
        /\ \A i \in Id : holder'[i] = IF i = co[p].handle THEN NoProc ELSE holder[i]
    BY <1>1, <1>2, <1>5 DEF Released
  <2>2. \A q \in Proc, i \in Id : holder'[i] = q <=> co'[q].handle = i
    BY <1>1, <1>2, <1>3, <1>5, <2>1
  <2>3. NoHandle <= lockId
    BY <1>1, BoundsAssumption DEF NoHandle, Id
  <2> QED
    BY <1>1, <1>2, <1>3, <1>5, <2>1, <2>2, <2>3 DEF LockMoves, LockInv
<1>6. CASE /\ co[p].handle = NoHandle /\ holder[lockId] = NoProc
           /\ co'[p].handle = lockId /\ holder' = [holder EXCEPT ![lockId] = p]
  <2>1. /\ holder' \in [Id -> Proc \cup {NoProc}]
        /\ \A i \in Id : holder'[i] = IF i = lockId THEN p ELSE holder[i]
    BY <1>1, <1>6
  <2>2. \A q \in Proc, i \in Id : holder'[i] = q <=> co'[q].handle = i
    BY <1>1, <1>2, <1>3, <1>6, <2>1
  <2> QED
    BY <1>1, <1>2, <1>3, <1>6, <2>1, <2>2 DEF LockMoves, LockInv
<1> QED
  BY <1>4, <1>5, <1>6 DEF LockMoves

\* A step of one process keeps the types and the budget, whatever it installs.
LEMMA TypesKept ==
  ASSUME EInv, NEW p \in Proc, Moves(p), file' \in DocOrNone
  PROVE  EntraTypeOK' /\ BudgetInv'
<1>1. /\ left' \in [{"rotations", "replacements", "faults", "signals"} -> Nat]
      /\ left'["rotations"] = left["rotations"] /\ left'["replacements"] = left["replacements"]
  BY DEF Moves, RowsMove, Spend, EInv, EntraTypeOK
<1>2. EntraTypeOK'
  BY <1>1, LocksKept DEF Moves, RowsMove, EInv, EntraTypeOK, CoRow, WkRow
<1>3. left.rotations = left["rotations"] /\ left'.rotations = left'["rotations"]
      /\ left.replacements = left["replacements"] /\ left'.replacements = left'["replacements"]
  OBVIOUS
<1> QED
  BY <1>1, <1>2, <1>3 DEF Moves, RowsMove, EInv, BudgetInv

\* The fields of snapshots.
LEMMA DocTyped ==
  ASSUME EInv
  PROVE  /\ provider \in Nat /\ lockId \in Nat /\ TTL \in Nat /\ MaxAttempt \in Nat /\ MaxAttempt < TTL
         /\ \A d \in DocOrNone : d # NoDoc => d \in Doc /\ d.age \in 0 .. TTL /\ d.keys \in Nat
         /\ file \in DocOrNone
         /\ \A p \in Proc : reloader[p] \in DocOrNone /\ wk[p].cand \in DocOrNone
<1>1. /\ provider \in Nat /\ lockId \in Nat /\ TTL \in Nat /\ MaxAttempt \in Nat /\ MaxAttempt < TTL
  BY BoundsAssumption, TimesAssumption DEF EInv, EntraTypeOK, Id
<1>2. \A d \in DocOrNone : d # NoDoc => d \in Doc /\ d.age \in 0 .. TTL /\ d.keys \in Nat
  BY BoundsAssumption DEF DocOrNone, Doc
<1> QED
  BY <1>1, <1>2 DEF EInv, EntraTypeOK

\* A step of one process that neither installs nor dates anything keeps the snapshots in order.
LEMMA DocsKept ==
  ASSUME EInv, NEW p \in Proc, Moves(p), DocsStand(p)
  PROVE  EInv'
<1>1. /\ file' = file /\ lockId' = lockId /\ provider' = provider
      /\ \A q \in Proc \ {p} : co'[q] = co[q] /\ wk'[q] = wk[q] /\ reloader'[q] = reloader[q]
      /\ wk'[p].cand \in {wk[p].cand, NoDoc}
      /\ wk'[p].pc = "replace" => wk[p].pc = "replace"
      /\ wk'[p].cand # NoDoc <=> wk'[p].pc \in {"fetch", "guard", "replace"}
      /\ reloader'[p] \in {reloader[p], NoDoc, file}
      /\ co'[p].first => reloader'[p] = NoDoc
      /\ co'[p].pc = "down" => co'[p].first
  BY DEF Moves, RowsMove, TrustMoves, DocsStand
<1>2. DocInv'
  BY <1>1 DEF EInv, DocInv
<1>3. ASSUME lockId' = 0 PROVE OrderInv'
  <2>1. OrderInv
    BY <1>1, <1>3 DEF EInv
  <2>2. ASSUME NEW q \in Proc, wk'[q].cand # NoDoc
        PROVE  /\ wk'[q].cand = wk[q].cand
               /\ Leads(wk'[q].cand, file') /\ \A r \in Proc : Leads(wk'[q].cand, reloader'[r])
    <3>1. wk'[q].cand = wk[q].cand
      BY <1>1, <2>2
    <3>2. Leads(wk[q].cand, file) /\ \A r \in Proc : Leads(wk[q].cand, reloader[r])
      BY <2>1, <2>2, <3>1 DEF OrderInv
    <3>3. Leads(wk[q].cand, NoDoc)
      BY DEF Leads
    <3> QED
      BY <1>1, <3>1, <3>2, <3>3
  <2>3. ASSUME NEW q \in Proc, wk'[q].pc = "replace", file' # NoDoc PROVE Newer(wk'[q].cand, file')
    <3>1. wk[q].pc = "replace" /\ wk'[q].cand = wk[q].cand
      BY <1>1, <1>2, <2>3 DEF DocInv
    <3> QED
      BY <1>1, <2>1, <2>3, <3>1 DEF OrderInv
  <2>4. ASSUME NEW q \in Proc, file' # NoDoc, reloader'[q] # NoDoc, Newer(file', reloader'[q])
        PROVE  reloader'[q].keys <= file'.keys
    <3>1. file.keys \in Int
      BY <1>1, <2>4, DocTyped
    <3> QED
      BY <1>1, <2>1, <2>4, <3>1 DEF OrderInv
  <2> QED
    BY <2>2, <2>3, <2>4 DEF OrderInv
<1>4. EntraTypeOK' /\ BudgetInv'
  BY <1>1, DocTyped, TypesKept
<1>5. LockInv'
  BY LocksKept DEF Moves
<1> QED
  BY <1>2, <1>3, <1>4, <1>5 DEF EInv

-----------------------------------------------------------------------------
(* Every operation is such a step *)

\* The rows that the operations of p start from.
LEMMA Rows ==
  ASSUME EInv, NEW p \in Proc
  PROVE  /\ co \in [Proc -> CoRow] /\ wk \in [Proc -> WkRow]
         /\ reloader \in [Proc -> DocOrNone] /\ rejected \in [Proc -> DocOrNone]
         /\ marker \in BOOLEAN /\ owed \in BOOLEAN /\ file \in DocOrNone /\ NoDoc \in DocOrNone
         /\ lockId \in Id /\ NoHandle \notin Id
         /\ wk[p].pc # "none" => co[p].handle # NoHandle
         /\ co[p].pc = "down" => co[p].handle = NoHandle /\ wk[p].pc = "none"
         /\ wk[p].cand # NoDoc <=> wk[p].pc \in {"fetch", "guard", "replace"}
         /\ co[p].first => reloader[p] = NoDoc
         /\ co[p].pc = "down" => co[p].first
BY BoundsAssumption DEF EInv, EntraTypeOK, LockInv, DocInv, CoRow, WkRow, DocOrNone, Id, NoHandle

\* The owner lock is taken.
LEMMA TryAcquireMoves ==
  ASSUME EInv, NEW p \in Proc, TryAcquire(p)
  PROVE  Moves(p) /\ DocsStand(p)
<1> DEFINE c == [co[p] EXCEPT !.pc = "promote", !.handle = lockId]
<1>1. /\ co' = [co EXCEPT ![p] = c] /\ holder' = [holder EXCEPT ![lockId] = p]
      /\ holder[lockId] = NoProc
      /\ UNCHANGED << env, file, marker, owed, wk, reloader, rejected >>
  BY DEF TryAcquire
<1>2. c \in CoRow /\ c.pc = "promote" /\ c.handle = lockId /\ c.first = co[p].first
  BY Rows DEF CoRow
<1>3. co[p].handle = NoHandle
  BY Rows DEF TryAcquire
<1> HIDE DEF c
<1>4. co' \in [Proc -> CoRow] /\ co'[p] = c /\ \A q \in Proc \ {p} : co'[q] = co[q]
  BY <1>1, <1>2, Rows
<1> QED
  BY <1>1, <1>2, <1>3, <1>4, Rows
  DEF Moves, RowsMove, LockMoves, TrustMoves, DocsStand, env

\* The process starts without the lock.
LEMMA JoinAsFollowerMoves ==
  ASSUME EInv, NEW p \in Proc, JoinAsFollower(p)
  PROVE  Moves(p) /\ DocsStand(p)
<1> DEFINE c == [co[p] EXCEPT !.pc = "poll", !.first = FALSE]
<1>1. /\ co[p].pc = "down" /\ co' = [co EXCEPT ![p] = c] /\ reloader' = [reloader EXCEPT ![p] = file]
      /\ UNCHANGED << env, file, holder, marker, owed, wk, rejected >>
  BY DEF JoinAsFollower
<1>2. c \in CoRow /\ c.pc = "poll" /\ c.handle = co[p].handle /\ c.first = FALSE
  BY Rows DEF CoRow
<1>3. wk[p].pc = "none" /\ reloader[p] = NoDoc
  BY <1>1, Rows
<1> HIDE DEF c
<1>4. co' \in [Proc -> CoRow] /\ co'[p] = c /\ \A q \in Proc \ {p} : co'[q] = co[q]
  BY <1>1, <1>2, Rows
<1> QED
  BY <1>1, <1>2, <1>3, <1>4, Rows
  DEF Moves, RowsMove, LockMoves, TrustMoves, DocsStand, env

\* An attempt that ends leaves nothing behind.
LEMMA EndedRow ==
  ASSUME NEW w \in WkRow, NEW ok \in BOOLEAN
  PROVE  /\ AttemptEnded(w, ok) \in WkRow /\ AttemptEnded(w, ok).cand = NoDoc
         /\ AttemptEnded(w, ok).pc \in {"none", "ready", "idle"}
<1> DEFINE pc == IF w.stop THEN "none" ELSE IF w.startup THEN "ready" ELSE "idle"
           failed == w.startup /\ ~ok
           v == [w EXCEPT !.pc = pc, !.failed = failed, !.cand = NoDoc]
<1>1. pc \in {"none", "ready", "idle"} /\ failed \in BOOLEAN /\ NoDoc \in DocOrNone
  BY DEF WkRow, DocOrNone
<1>2. AttemptEnded(w, ok) = v
  BY DEF AttemptEnded
<1> HIDE DEF pc, failed
<1>3. v \in WkRow /\ v.cand = NoDoc /\ v.pc = pc
  BY <1>1 DEF WkRow
<1> QED
  BY <1>1, <1>2, <1>3

\* A worker that is told to stop goes on with its attempt or is gone.
LEMMA StoppedRow ==
  ASSUME NEW w \in WkRow
  PROVE  /\ WorkerStopped(w) \in WkRow /\ WorkerStopped(w).cand = w.cand
         /\ WorkerStopped(w).pc = IF w.pc \in {"idle", "dead"} THEN "none" ELSE w.pc
<1> DEFINE pc == IF w.pc \in {"idle", "dead"} THEN "none" ELSE w.pc
           v == [w EXCEPT !.stop = TRUE, !.pending = FALSE, !.pc = pc]
<1>1. WorkerStopped(w) = v
  BY DEF WorkerStopped
<1>2. pc \in {"none", "begin", "fetch", "guard", "replace", "ready", "idle", "dead"}
  BY DEF WkRow
<1> HIDE DEF pc
<1>3. v \in WkRow /\ v.cand = w.cand /\ v.pc = pc
  BY <1>2 DEF WkRow
<1> QED
  BY <1>1, <1>3 DEF pc

\* What a reload leaves trusted.
LEMMA ReloadedDoc ==
  ASSUME EInv, NEW p \in Proc
  PROVE  /\ Reloaded(p) \in DocOrNone /\ RejectedAfter(p) \in DocOrNone
         /\ \/ Reloaded(p) = reloader[p]
            \/ Reloaded(p) = file /\ (reloader[p] = NoDoc \/ Newer(file, reloader[p]))
BY Rows DEF Reloaded, RejectedAfter, Adopts

\* The manager's startup attempt begins, or nothing does.
LEMMA PromoteMoves ==
  ASSUME EInv, NEW p \in Proc, Promote(p)
  PROVE  Moves(p) /\ DocsStand(p)
<1>1. CASE ~OwnershipValid(p)
  <2> DEFINE c == [co[p] EXCEPT !.pc = "poll", !.first = FALSE]
  <2>1. /\ co' = [co EXCEPT ![p] = c]
        /\ UNCHANGED << env, file, holder, marker, owed, wk, reloader, rejected >>
    BY <1>1 DEF Promote
  <2>2. c \in CoRow /\ c.pc = "poll" /\ c.handle = co[p].handle /\ c.first = FALSE
    BY Rows DEF CoRow
  <2> HIDE DEF c
  <2>3. co' \in [Proc -> CoRow] /\ co'[p] = c /\ \A q \in Proc \ {p} : co'[q] = co[q]
    BY <2>1, <2>2, Rows
  <2> QED
    BY <2>1, <2>2, <2>3, Rows DEF Moves, RowsMove, LockMoves, TrustMoves, DocsStand, env
<1>2. CASE OwnershipValid(p)
  <2> DEFINE c == [co[p] EXCEPT !.pc = "booting"]
             w == [NoWorker EXCEPT !.pc = "begin", !.startup = TRUE]
  <2>1. /\ co' = [co EXCEPT ![p] = c] /\ wk' = [wk EXCEPT ![p] = w]
        /\ UNCHANGED << env, file, holder, marker, owed, reloader, rejected >>
    BY <1>2 DEF Promote
  <2>2. c \in CoRow /\ c.pc = "booting" /\ c.handle = co[p].handle /\ c.first = co[p].first
    BY Rows DEF CoRow
  <2>3. w \in WkRow /\ w.pc = "begin" /\ w.cand = NoDoc
    BY Rows DEF NoWorker, WkRow
  <2>4. co[p].handle # NoHandle
    BY <1>2, Rows DEF OwnershipValid
  <2> HIDE DEF c, w
  <2>5. /\ co' \in [Proc -> CoRow] /\ co'[p] = c /\ \A q \in Proc \ {p} : co'[q] = co[q]
        /\ wk' \in [Proc -> WkRow] /\ wk'[p] = w /\ \A q \in Proc \ {p} : wk'[q] = wk[q]
    BY <2>1, <2>2, <2>3, Rows
  <2> QED
    BY <2>1, <2>2, <2>3, <2>4, <2>5, Rows DEF Moves, RowsMove, LockMoves, TrustMoves, DocsStand, env
<1> QED
  BY <1>1, <1>2

\* The manager runs, or the lock is given back.
LEMMA FinishPromotionMoves ==
  ASSUME EInv, NEW p \in Proc, FinishPromotion(p)
  PROVE  Moves(p) /\ DocsStand(p)
<1>1. /\ co[p].pc = "booting" /\ wk[p].pc = "ready" /\ wk[p].cand = NoDoc /\ co[p].handle # NoHandle
  BY Rows DEF FinishPromotion
<1> DEFINE Starts == Fresh(file) /\ Fresh(Reloaded(p)) /\ OwnershipValid(p) /\ ~co[p].stop
<1>2. CASE Starts
  <2> DEFINE consume == ~wk[p].failed /\ marker
             c == [co[p] EXCEPT !.pc = "poll", !.own = TRUE, !.first = FALSE, !.consume = consume]
             w == [wk[p] EXCEPT !.pc = "idle", !.startup = FALSE, !.failed = FALSE]
  <2>1. /\ co' = [co EXCEPT ![p] = c] /\ wk' = [wk EXCEPT ![p] = w]
        /\ reloader' = [reloader EXCEPT ![p] = Reloaded(p)]
        /\ rejected' = [rejected EXCEPT ![p] = RejectedAfter(p)]
        /\ UNCHANGED << env, file, holder, marker, owed >>
    BY <1>2 DEF FinishPromotion
  <2>2. consume \in BOOLEAN
    OBVIOUS
  <2>3. w \in WkRow /\ w.pc = "idle" /\ w.cand = wk[p].cand
    BY Rows DEF WkRow
  <2> HIDE DEF consume, w
  <2>4. c \in CoRow /\ c.pc = "poll" /\ c.handle = co[p].handle /\ c.first = FALSE
    BY <2>2, Rows DEF CoRow
  <2> HIDE DEF c
  <2>5. /\ co' \in [Proc -> CoRow] /\ co'[p] = c /\ \A q \in Proc \ {p} : co'[q] = co[q]
        /\ wk' \in [Proc -> WkRow] /\ wk'[p] = w /\ \A q \in Proc \ {p} : wk'[q] = wk[q]
    BY <2>1, <2>3, <2>4, Rows
  <2>6. /\ reloader' \in [Proc -> DocOrNone] /\ reloader'[p] = Reloaded(p)
        /\ \A q \in Proc \ {p} : reloader'[q] = reloader[q]
        /\ rejected' \in [Proc -> DocOrNone]
    BY <2>1, Rows, ReloadedDoc
  <2> QED
    BY <1>1, <2>1, <2>3, <2>4, <2>5, <2>6, Rows, ReloadedDoc
    DEF Moves, RowsMove, LockMoves, TrustMoves, DocsStand, env
<1>3. CASE ~Starts
  <2> DEFINE c == IF co[p].first THEN DownCo
                  ELSE [DownCo EXCEPT !.pc = "poll", !.first = FALSE, !.stop = co[p].stop]
  <2>1. /\ co' = [co EXCEPT ![p] = c] /\ wk' = [wk EXCEPT ![p] = NoWorker] /\ holder' = Released(p)
        /\ UNCHANGED << env, file, marker, owed, reloader, rejected >>
    BY <1>3 DEF FinishPromotion
  <2>2. /\ c \in CoRow /\ c.handle = NoHandle /\ (c.first => co[p].first)
        /\ c.pc = "down" => c.first
    BY Rows DEF CoRow, DownCo
  <2>3. NoWorker \in WkRow /\ NoWorker.pc = "none" /\ NoWorker.cand = NoDoc
    BY Rows DEF NoWorker, WkRow
  <2> HIDE DEF c
  <2>4. /\ co' \in [Proc -> CoRow] /\ co'[p] = c /\ \A q \in Proc \ {p} : co'[q] = co[q]
        /\ wk' \in [Proc -> WkRow] /\ wk'[p] = NoWorker /\ \A q \in Proc \ {p} : wk'[q] = wk[q]
    BY <2>1, <2>2, <2>3, Rows
  <2> QED
    BY <2>1, <2>2, <2>3, <2>4, Rows DEF Moves, RowsMove, LockMoves, TrustMoves, DocsStand, env
<1> QED
  BY <1>2, <1>3

\* The process gives up its role, or is told to close: a worker that is not busy is gone.
LEMMA DemoteMoves ==
  ASSUME EInv, NEW p \in Proc, Demote(p) \/ StopManager(p)
  PROVE  Moves(p) /\ DocsStand(p)
<1>1. PICK c \in CoRow : /\ co' = [co EXCEPT ![p] = c] /\ c.handle = co[p].handle
                         /\ c.first = co[p].first /\ c.pc # "down"
  <2>1. CASE Demote(p)
    <3> DEFINE c == [co[p] EXCEPT !.pc = "demoting", !.own = FALSE, !.consume = FALSE]
    <3>1. co' = [co EXCEPT ![p] = c]
      BY <2>1 DEF Demote
    <3>2. c \in CoRow /\ c.handle = co[p].handle /\ c.first = co[p].first /\ c.pc = "demoting"
      BY Rows DEF CoRow
    <3> HIDE DEF c
    <3> QED
      BY <3>1, <3>2
  <2>2. CASE StopManager(p)
    <3> DEFINE c == [co[p] EXCEPT !.pc = "closing"]
    <3>1. co' = [co EXCEPT ![p] = c]
      BY <2>2 DEF StopManager
    <3>2. c \in CoRow /\ c.handle = co[p].handle /\ c.first = co[p].first /\ c.pc = "closing"
      BY Rows DEF CoRow
    <3> HIDE DEF c
    <3> QED
      BY <3>1, <3>2
  <2> QED
    BY <2>1, <2>2
<1>2. /\ wk' = [wk EXCEPT ![p] = WorkerStopped(wk[p])]
      /\ UNCHANGED << env, file, holder, marker, owed, reloader, rejected >>
  BY DEF Demote, StopManager
<1>3. /\ WorkerStopped(wk[p]) \in WkRow /\ WorkerStopped(wk[p]).cand = wk[p].cand
      /\ WorkerStopped(wk[p]).pc = IF wk[p].pc \in {"idle", "dead"} THEN "none" ELSE wk[p].pc
  BY Rows, StoppedRow
<1>4. /\ co' \in [Proc -> CoRow] /\ co'[p] = c /\ \A q \in Proc \ {p} : co'[q] = co[q]
      /\ wk' \in [Proc -> WkRow] /\ wk'[p] = WorkerStopped(wk[p])
      /\ \A q \in Proc \ {p} : wk'[q] = wk[q]
  BY <1>1, <1>2, <1>3, Rows
<1> QED
  BY <1>1, <1>2, <1>3, <1>4, Rows DEF Moves, RowsMove, LockMoves, TrustMoves, DocsStand, env

\* The lock is given back once the worker is gone.
LEMMA FinishDemotionMoves ==
  ASSUME EInv, NEW p \in Proc, FinishDemotion(p)
  PROVE  Moves(p) /\ DocsStand(p)
<1> DEFINE c == [co[p] EXCEPT !.pc = "poll", !.handle = NoHandle]
<1>1. /\ co' = [co EXCEPT ![p] = c] /\ wk' = [wk EXCEPT ![p] = NoWorker] /\ holder' = Released(p)
      /\ UNCHANGED << env, file, marker, owed, reloader, rejected >>
  BY DEF FinishDemotion
<1>2. c \in CoRow /\ c.pc = "poll" /\ c.handle = NoHandle /\ c.first = co[p].first
  BY Rows DEF CoRow
<1>3. NoWorker \in WkRow /\ NoWorker.pc = "none" /\ NoWorker.cand = NoDoc
  BY Rows DEF NoWorker, WkRow
<1> HIDE DEF c
<1>4. /\ co' \in [Proc -> CoRow] /\ co'[p] = c /\ \A q \in Proc \ {p} : co'[q] = co[q]
      /\ wk' \in [Proc -> WkRow] /\ wk'[p] = NoWorker /\ \A q \in Proc \ {p} : wk'[q] = wk[q]
  BY <1>1, <1>2, <1>3, Rows
<1> QED
  BY <1>1, <1>2, <1>3, <1>4, Rows DEF Moves, RowsMove, LockMoves, TrustMoves, DocsStand, env

\* The process ends, by itself or not.
LEMMA ProcessGoneMoves ==
  ASSUME EInv, NEW p \in Proc, FinishClose(p) \/ Crash(p)
  PROVE  Moves(p) /\ DocsStand(p)
<1>1. /\ co' = [co EXCEPT ![p] = DownCo] /\ wk' = [wk EXCEPT ![p] = NoWorker] /\ holder' = Released(p)
      /\ reloader' = [reloader EXCEPT ![p] = NoDoc] /\ rejected' = [rejected EXCEPT ![p] = NoDoc]
      /\ UNCHANGED << provider, lockId, file, marker, owed >>
      /\ left' = left \/ Spend("faults")
  BY DEF FinishClose, Crash, ProcessGone
<1>2. DownCo \in CoRow /\ DownCo.pc = "down" /\ DownCo.handle = NoHandle /\ DownCo.first
  BY DEF DownCo, CoRow
<1>3. NoWorker \in WkRow /\ NoWorker.pc = "none" /\ NoWorker.cand = NoDoc
  BY Rows DEF NoWorker, WkRow
<1>4. /\ co' \in [Proc -> CoRow] /\ co'[p] = DownCo /\ \A q \in Proc \ {p} : co'[q] = co[q]
      /\ wk' \in [Proc -> WkRow] /\ wk'[p] = NoWorker /\ \A q \in Proc \ {p} : wk'[q] = wk[q]
      /\ reloader' \in [Proc -> DocOrNone] /\ reloader'[p] = NoDoc
      /\ \A q \in Proc \ {p} : reloader'[q] = reloader[q]
      /\ rejected' \in [Proc -> DocOrNone]
  BY <1>1, <1>2, <1>3, Rows
<1> QED
  BY <1>1, <1>2, <1>3, <1>4, Rows DEF Moves, RowsMove, LockMoves, TrustMoves, DocsStand, env

\* A step that changes only flags, or the place of a worker that is waiting.
LEMMA QuietMoves ==
  ASSUME EInv, NEW p \in Proc, NEW c \in CoRow, NEW w \in WkRow,
         co' = [co EXCEPT ![p] = c], c.handle = co[p].handle, c.first = co[p].first, c.pc = co[p].pc,
         wk' = [wk EXCEPT ![p] = w], w.cand = wk[p].cand,
         w.pc = wk[p].pc \/ (wk[p].pc = "idle" /\ w.pc \in {"begin", "dead"}),
         UNCHANGED << provider, lockId, file, holder, reloader >>,
         rejected' \in [Proc -> DocOrNone], marker' \in BOOLEAN, owed' \in BOOLEAN,
         left' = left \/ Spend("faults")
  PROVE  Moves(p) /\ DocsStand(p)
<1>1. /\ co' \in [Proc -> CoRow] /\ co'[p] = c /\ \A q \in Proc \ {p} : co'[q] = co[q]
      /\ wk' \in [Proc -> WkRow] /\ wk'[p] = w /\ \A q \in Proc \ {p} : wk'[q] = wk[q]
  BY Rows
<1> QED
  BY <1>1, Rows DEF Moves, RowsMove, LockMoves, TrustMoves, DocsStand, env

\* The worker wakes up or dies, a request is scheduled or consumed, the process is closed.
LEMMA SmallMoves ==
  ASSUME EInv, NEW p \in Proc,
         \/ WorkerWakes(p) \/ WorkerDies(p) \/ ScheduleRequest(p) \/ ConsumeRequest(p)
         \/ ReloadFails(p) \/ Close(p)
  PROVE  Moves(p) /\ DocsStand(p)
<1>1. /\ co = [co EXCEPT ![p] = co[p]] /\ wk = [wk EXCEPT ![p] = wk[p]]
      /\ co[p] \in CoRow /\ wk[p] \in WkRow
  BY Rows
<1>2. CASE WorkerWakes(p)
  <2> DEFINE w == [wk[p] EXCEPT !.pc = "begin", !.pending = FALSE]
  <2>1. /\ wk' = [wk EXCEPT ![p] = w] /\ wk[p].pc = "idle"
        /\ UNCHANGED << env, file, holder, marker, owed, co, reloader, rejected >>
    BY <1>2 DEF WorkerWakes
  <2>2. w \in WkRow /\ w.cand = wk[p].cand /\ w.pc = "begin"
    BY Rows DEF WkRow
  <2> HIDE DEF w
  <2> QED
    BY <1>1, <2>1, <2>2, Rows, QuietMoves DEF env
<1>3. CASE WorkerDies(p)
  <2> DEFINE w == [wk[p] EXCEPT !.pc = "dead"]
  <2>1. /\ wk' = [wk EXCEPT ![p] = w] /\ wk[p].pc = "idle" /\ Spend("faults")
        /\ UNCHANGED << provider, lockId, file, holder, marker, owed, co, reloader, rejected >>
    BY <1>3 DEF WorkerDies
  <2>2. w \in WkRow /\ w.cand = wk[p].cand /\ w.pc = "dead"
    BY Rows DEF WkRow
  <2> HIDE DEF w
  <2> QED
    BY <1>1, <2>1, <2>2, Rows, QuietMoves
<1>4. CASE ScheduleRequest(p)
  <2> DEFINE w == [wk[p] EXCEPT !.pending = TRUE]
             c == [co[p] EXCEPT !.consume = TRUE]
  <2>1. /\ wk' = [wk EXCEPT ![p] = w] /\ co' = [co EXCEPT ![p] = c]
        /\ UNCHANGED << env, file, holder, marker, owed, reloader, rejected >>
    BY <1>4 DEF ScheduleRequest
  <2>2. w \in WkRow /\ w.cand = wk[p].cand /\ w.pc = wk[p].pc
    BY Rows DEF WkRow
  <2>3. c \in CoRow /\ c.handle = co[p].handle /\ c.first = co[p].first /\ c.pc = co[p].pc
    BY Rows DEF CoRow
  <2> HIDE DEF w, c
  <2> QED
    BY <2>1, <2>2, <2>3, Rows, QuietMoves DEF env
<1>5. CASE ConsumeRequest(p)
  <2> DEFINE c == [co[p] EXCEPT !.consume = FALSE]
  <2>1. /\ co' = [co EXCEPT ![p] = c] /\ marker' = FALSE /\ owed' = FALSE
        /\ UNCHANGED << env, file, holder, wk, reloader, rejected >>
    BY <1>5 DEF ConsumeRequest
  <2>2. c \in CoRow /\ c.handle = co[p].handle /\ c.first = co[p].first /\ c.pc = co[p].pc
    BY Rows DEF CoRow
  <2> HIDE DEF c
  <2> QED
    BY <1>1, <2>1, <2>2, Rows, QuietMoves DEF env
<1>6. CASE ReloadFails(p)
  <2>1. /\ rejected' = [rejected EXCEPT ![p] = file] /\ Spend("faults")
        /\ UNCHANGED << provider, lockId, file, holder, marker, owed, co, wk, reloader >>
    BY <1>6 DEF ReloadFails
  <2>2. rejected' \in [Proc -> DocOrNone]
    BY <2>1, Rows
  <2> QED
    BY <1>1, <2>1, <2>2, Rows, QuietMoves
<1>7. CASE Close(p)
  <2> DEFINE c == [co[p] EXCEPT !.stop = TRUE]
  <2>1. /\ co' = [co EXCEPT ![p] = c] /\ Spend("faults")
        /\ UNCHANGED << provider, lockId, file, holder, marker, owed, wk, reloader, rejected >>
    BY <1>7 DEF Close
  <2>2. c \in CoRow /\ c.handle = co[p].handle /\ c.first = co[p].first /\ c.pc = co[p].pc
    BY Rows DEF CoRow
  <2> HIDE DEF c
  <2> QED
    BY <1>1, <2>1, <2>2, Rows, QuietMoves
<1> QED
  BY <1>2, <1>3, <1>4, <1>5, <1>6, <1>7

\* A request or a probe reloads the snapshot.
LEMMA VerifyMoves ==
  ASSUME EInv, NEW p \in Proc, Verify(p)
  PROVE  Moves(p) /\ DocsStand(p)
<1>1. /\ ~co[p].first /\ reloader' = [reloader EXCEPT ![p] = Reloaded(p)]
      /\ rejected' = [rejected EXCEPT ![p] = RejectedAfter(p)]
      /\ UNCHANGED << env, file, holder, co, wk >>
  BY DEF Verify, Serving
<1>2. marker' \in BOOLEAN /\ owed' \in BOOLEAN
  <2>1. PICK unknown \in {FALSE, Fresh(Reloaded(p)) /\ provider > Reloaded(p).keys} : Signal(unknown)
    BY DEF Verify
  <2>2. marker' = (marker \/ unknown) /\ owed' = (owed \/ (unknown /\ ~marker))
    BY <2>1 DEF Signal
  <2> QED
    BY <2>2
<1>3. /\ reloader' \in [Proc -> DocOrNone] /\ reloader'[p] = Reloaded(p)
      /\ \A q \in Proc \ {p} : reloader'[q] = reloader[q]
      /\ rejected' \in [Proc -> DocOrNone]
  BY <1>1, Rows, ReloadedDoc
<1> QED
  BY <1>1, <1>2, <1>3, Rows, ReloadedDoc DEF Moves, RowsMove, LockMoves, TrustMoves, DocsStand, env

-----------------------------------------------------------------------------
(* The steps of an attempt *)

\* A step of an attempt moves nothing but the worker.
LEMMA AttemptMoves ==
  ASSUME EInv, NEW p \in Proc, NEW w \in WkRow, wk' = [wk EXCEPT ![p] = w], wk[p].pc # "none",
         w.cand # NoDoc <=> w.pc \in {"fetch", "guard", "replace"},
         UNCHANGED << env, holder, marker, co, reloader, rejected >>, owed' \in BOOLEAN
  PROVE  Moves(p) /\ wk'[p] = w
<1>1. wk' \in [Proc -> WkRow] /\ wk'[p] = w /\ \A q \in Proc \ {p} : wk'[q] = wk[q]
  BY Rows
<1> QED
  BY <1>1, Rows DEF Moves, RowsMove, LockMoves, TrustMoves, DocsStand, env

\* An attempt that goes on without installing keeps the order of the snapshots if it leads them.
LEMMA AttemptGoesOn ==
  ASSUME EInv, NEW p \in Proc, Moves(p), file' = file, reloader' = reloader,
         wk'[p].cand # NoDoc => wk'[p].cand.keys <= provider,
         lockId = 0 /\ wk'[p].cand # NoDoc =>
           Leads(wk'[p].cand, file) /\ \A q \in Proc : Leads(wk'[p].cand, reloader[q]),
         lockId = 0 /\ wk'[p].pc = "replace" /\ file # NoDoc => Newer(wk'[p].cand, file)
  PROVE  EInv'
<1>1. /\ lockId' = lockId /\ provider' = provider
      /\ \A q \in Proc \ {p} : co'[q] = co[q] /\ wk'[q] = wk[q]
      /\ wk'[p].cand # NoDoc <=> wk'[p].pc \in {"fetch", "guard", "replace"}
      /\ co'[p].first => reloader'[p] = NoDoc
      /\ co'[p].pc = "down" => co'[p].first
  BY DEF Moves, RowsMove, TrustMoves
<1>2. DocInv'
  BY <1>1 DEF EInv, DocInv
<1>3. lockId' = 0 => OrderInv'
  BY <1>1 DEF EInv, OrderInv
<1>4. EntraTypeOK' /\ BudgetInv'
  BY DocTyped, TypesKept
<1>5. LockInv'
  BY LocksKept DEF Moves
<1> QED
  BY <1>2, <1>3, <1>4, <1>5 DEF EInv

\* An attempt that ends.
LEMMA AttemptEnds ==
  ASSUME EInv, NEW p \in Proc, NEW ok \in BOOLEAN, wk' = [wk EXCEPT ![p] = AttemptEnded(wk[p], ok)],
         wk[p].pc # "none",
         UNCHANGED << env, holder, marker, co, reloader, rejected >>, owed' \in BOOLEAN
  PROVE  /\ Moves(p) /\ wk'[p].cand = NoDoc /\ wk'[p].pc # "replace"
         /\ file' = file => EInv'
<1>1. /\ AttemptEnded(wk[p], ok) \in WkRow /\ AttemptEnded(wk[p], ok).cand = NoDoc
      /\ AttemptEnded(wk[p], ok).pc \in {"none", "ready", "idle"}
  BY Rows, EndedRow
<1>2. PICK w : w = AttemptEnded(wk[p], ok)
  OBVIOUS
<1>3. Moves(p) /\ wk'[p] = w
  BY <1>1, <1>2, AttemptMoves
<1>4. ASSUME file' = file PROVE EInv'
  BY <1>1, <1>2, <1>3, <1>4, AttemptGoesOn
<1> QED
  BY <1>1, <1>2, <1>3, <1>4

\* A new attempt is dated now and leads everything.
LEMMA BeginAttemptKeeps ==
  ASSUME EInv, NEW p \in Proc, BeginAttempt(p)
  PROVE  EInv' /\ Moves(p)
<1>1. /\ wk[p].pc = "begin" /\ file' = file /\ owed' \in BOOLEAN
      /\ UNCHANGED << env, holder, marker, co, reloader, rejected >>
  <2>1. wk[p].pc = "begin" /\ UNCHANGED << env, file, holder, marker, co, reloader, rejected >>
    BY DEF BeginAttempt
  <2>2. owed' = (owed /\ ~OwnershipValid(p))
    BY DEF BeginAttempt
  <2> QED
    BY <2>1, <2>2
<1>2. CASE OwnershipValid(p)
  <2> DEFINE d == [age |-> 0, keys |-> provider]
             w == [wk[p] EXCEPT !.pc = "fetch", !.cand = d]
  <2>1. wk' = [wk EXCEPT ![p] = w]
    BY <1>2 DEF BeginAttempt
  <2>2. d \in DocOrNone /\ d # NoDoc /\ d.age = 0 /\ d.keys = provider
    <3>1. d \in Doc
      BY TimesAssumption DEF EInv, EntraTypeOK, Doc
    <3> QED
      BY <3>1, NoDocAssumption DEF Doc, DocOrNone
  <2> HIDE DEF d
  <2>3. w \in WkRow /\ w.pc = "fetch" /\ w.cand = d
    BY <2>2, Rows DEF WkRow
  <2> HIDE DEF w
  <2>4. Moves(p) /\ wk'[p] = w
    BY <1>1, <2>1, <2>2, <2>3, AttemptMoves
  <2>5. \A e \in DocOrNone : e # NoDoc /\ e.keys <= provider => Leads(d, e)
    BY <2>2, DocTyped DEF Leads
  <2>6. Leads(d, file) /\ \A q \in Proc : Leads(d, reloader[q])
    BY <2>5, DocTyped DEF EInv, DocInv, Leads
  <2>7. d.keys <= provider
    BY <2>2, DocTyped
  <2> QED
    BY <1>1, <2>3, <2>4, <2>6, <2>7, AttemptGoesOn
<1>3. CASE ~OwnershipValid(p)
  <2>1. wk' = [wk EXCEPT ![p] = AttemptEnded(wk[p], FALSE)]
    BY <1>3 DEF BeginAttempt
  <2> QED
    BY <1>1, <2>1, AttemptEnds
<1> QED
  BY <1>2, <1>3

\* What is fetched is no older than what the provider published when the attempt began.
LEMMA FetchOkKeeps ==
  ASSUME EInv, NEW p \in Proc, FetchOk(p)
  PROVE  EInv' /\ Moves(p)
<1>1. PICK k \in wk[p].cand.keys .. provider :
        wk' = [wk EXCEPT ![p].pc = "guard", ![p].cand.keys = k]
  BY DEF FetchOk
<1>2. /\ wk[p].pc = "fetch" /\ file' = file /\ owed' \in BOOLEAN
      /\ UNCHANGED << env, holder, marker, co, reloader, rejected >>
  BY Rows DEF FetchOk
<1> DEFINE o == wk[p].cand
           d == [o EXCEPT !.keys = k]
           w == [wk[p] EXCEPT !.pc = "guard", !.cand = d]
<1>3. o \in Doc /\ o # NoDoc /\ o.keys \in Nat /\ o.age \in Nat
  BY <1>2, Rows, DocTyped
<1>4. k \in Nat /\ o.keys <= k /\ k \in 0 .. MaxRotations
  <2>1. provider \in 0 .. MaxRotations /\ MaxRotations \in Nat
    BY BoundsAssumption DEF EInv, EntraTypeOK
  <2> QED
    BY <1>3, <2>1
<1>5. d \in DocOrNone /\ d # NoDoc /\ d.age = o.age /\ d.keys = k
  <2>1. d \in Doc /\ d.age = o.age /\ d.keys = k
    BY <1>3, <1>4 DEF Doc
  <2> QED
    BY <2>1, NoDocAssumption DEF Doc, DocOrNone
<1>6. wk' = [wk EXCEPT ![p] = w]
  BY <1>1
<1> HIDE DEF d
<1>7. w \in WkRow /\ w.pc = "guard" /\ w.cand = d
  BY <1>5, Rows DEF WkRow
<1> HIDE DEF w
<1>8. Moves(p) /\ wk'[p] = w
  BY <1>2, <1>5, <1>6, <1>7, AttemptMoves
<1>9. ASSUME lockId = 0, NEW e \in DocOrNone, Leads(o, e) PROVE Leads(d, e)
  BY <1>3, <1>4, <1>5, <1>9, DocTyped DEF Leads
<1>10. lockId = 0 => Leads(d, file) /\ \A q \in Proc : Leads(d, reloader[q])
  BY <1>3, <1>9, DocTyped DEF EInv, OrderInv
<1>11. d.keys <= provider
  BY <1>1, <1>3, <1>5, DocTyped
<1> QED
  BY <1>2, <1>7, <1>8, <1>10, <1>11, AttemptGoesOn

\* A failed attempt leaves nothing.
LEMMA FetchFailsKeeps ==
  ASSUME EInv, NEW p \in Proc, FetchFails(p)
  PROVE  EInv' /\ Moves(p)
<1>1. /\ wk[p].pc = "fetch" /\ file' = file /\ owed' \in BOOLEAN
      /\ wk' = [wk EXCEPT ![p] = AttemptEnded(wk[p], FALSE)]
      /\ UNCHANGED << env, holder, marker, co, reloader, rejected >>
  BY Rows DEF FetchFails
<1> QED
  BY <1>1, AttemptEnds

\* An attempt that may install is newer than what is installed.
LEMMA CheckInstallKeeps ==
  ASSUME EInv, NEW p \in Proc, CheckInstall(p)
  PROVE  EInv' /\ Moves(p)
<1>1. /\ wk[p].pc = "guard" /\ file' = file /\ owed' \in BOOLEAN
      /\ UNCHANGED << env, holder, marker, co, reloader, rejected >>
  BY Rows DEF CheckInstall
<1> DEFINE verdict == InstallVerdict(wk[p].cand)
<1>2. CASE OwnershipValid(p) /\ verdict = "write"
  <2> DEFINE w == [wk[p] EXCEPT !.pc = "replace"]
  <2>1. wk' = [wk EXCEPT ![p] = w]
    BY <1>2 DEF CheckInstall
  <2>2. w \in WkRow /\ w.pc = "replace" /\ w.cand = wk[p].cand /\ w.cand # NoDoc
    BY <1>1, Rows DEF WkRow
  <2> HIDE DEF w
  <2>3. Moves(p) /\ wk'[p] = w
    BY <1>1, <2>1, <2>2, AttemptMoves
  <2>4. file # NoDoc => Newer(wk[p].cand, file)
    BY <1>2 DEF InstallVerdict
  <2>5. lockId = 0 => /\ Leads(wk[p].cand, file)
                      /\ \A q \in Proc : Leads(wk[p].cand, reloader[q])
    BY <2>2 DEF EInv, OrderInv
  <2>6. wk[p].cand.keys <= provider
    BY <2>2 DEF EInv, DocInv
  <2> QED
    BY <1>1, <2>2, <2>3, <2>4, <2>5, <2>6, AttemptGoesOn
<1>3. CASE ~(OwnershipValid(p) /\ verdict = "write")
  <2>1. PICK ok : ok = (OwnershipValid(p) /\ verdict = "same")
    OBVIOUS
  <2>2. wk' = [wk EXCEPT ![p] = AttemptEnded(wk[p], ok)] /\ ok \in BOOLEAN
    BY <1>3, <2>1 DEF CheckInstall
  <2> QED
    BY <1>1, <2>2, AttemptEnds
<1> QED
  BY <1>2, <1>3

\* While nobody replaces the lock file only one process is in an attempt.
LEMMA OneAttempt ==
  ASSUME EInv, lockId = 0, NEW p \in Proc, NEW q \in Proc, wk[p].pc # "none", wk[q].pc # "none"
  PROVE  p = q
<1>1. \A r \in Proc : wk[r].pc # "none" => co[r].handle = 0
  BY BoundsAssumption DEF EInv, EntraTypeOK, LockInv, CoRow, Id, NoHandle
<1>2. 0 \in Id
  BY BoundsAssumption DEF Id
<1>3. holder[0] = p /\ holder[0] = q
  BY <1>1, <1>2 DEF EInv, LockInv
<1> QED
  BY <1>3

\* An install is the only attempt's.
LEMMA ReplaceFileKeeps ==
  ASSUME EInv, NEW p \in Proc, ReplaceFile(p)
  PROVE  EInv' /\ Moves(p)
<1>1. /\ wk[p].pc = "replace" /\ owed' \in BOOLEAN /\ file' = wk[p].cand
      /\ wk' = [wk EXCEPT ![p] = AttemptEnded(wk[p], TRUE)]
      /\ UNCHANGED << env, holder, marker, co, reloader, rejected >>
  BY Rows DEF ReplaceFile
<1>2. Moves(p) /\ wk'[p].cand = NoDoc /\ wk'[p].pc # "replace"
  BY <1>1, AttemptEnds
<1>3. /\ wk[p].cand # NoDoc /\ wk[p].cand \in DocOrNone
  BY <1>1, Rows, DocTyped
<1>4. /\ lockId' = lockId /\ provider' = provider
      /\ \A q \in Proc \ {p} : wk'[q] = wk[q]
      /\ wk'[p].cand # NoDoc <=> wk'[p].pc \in {"fetch", "guard", "replace"}
  BY <1>2 DEF Moves, RowsMove, TrustMoves
<1>5. wk[p].cand.keys <= provider
  BY <1>3 DEF EInv, DocInv
<1>6. DocInv'
  BY ZenonT(40), <1>1, <1>2, <1>4, <1>5 DEF EInv, DocInv
<1>7. ASSUME lockId' = 0 PROVE OrderInv'
  <2>1. \A q \in Proc : wk'[q].cand = NoDoc /\ wk'[q].pc # "replace"
    <3>1. \A q \in Proc \ {p} : wk[q].pc = "none"
      BY <1>1, <1>4, <1>7, OneAttempt
    <3> QED
      BY <1>2, <1>4, <3>1 DEF EInv, DocInv
  <2>2. \A q \in Proc : Leads(wk[p].cand, reloader[q])
    BY <1>3, <1>4, <1>7 DEF EInv, OrderInv
  <2> QED
    BY <1>1, <2>1, <2>2 DEF OrderInv, Leads, Newer
<1>8. EntraTypeOK' /\ BudgetInv'
  BY <1>1, <1>2, <1>3, TypesKept
<1>9. LockInv'
  BY <1>2, LocksKept DEF Moves
<1> QED
  BY <1>2, <1>6, <1>7, <1>8, <1>9 DEF EInv

-----------------------------------------------------------------------------
(* The theorems *)

\* Nothing runs, is installed or trusted at first.
LEMMA EInit == Init => EInv
<1> SUFFICES ASSUME Init PROVE EInv
  OBVIOUS
<1>1. /\ provider = 0 /\ file = NoDoc /\ lockId = 0 /\ holder = [i \in Id |-> NoProc]
      /\ marker = FALSE /\ owed = FALSE /\ left \in Budgets
      /\ co = [p \in Proc |-> DownCo] /\ wk = [p \in Proc |-> NoWorker]
      /\ reloader = [p \in Proc |-> NoDoc] /\ rejected = [p \in Proc |-> NoDoc]
  BY DEF Init
<1>2. /\ MaxRotations \in Nat /\ MaxReplacements \in Nat /\ 0 \in Id /\ NoHandle <= 0 /\ NoHandle \notin Id
      /\ left \in [rotations : 0 .. MaxRotations, replacements : 0 .. MaxReplacements,
                  faults : Nat, signals : {0, 1}]
  BY <1>1, BoundsAssumption DEF Id, NoHandle
<1>3. DownCo \in CoRow /\ DownCo.pc = "down" /\ DownCo.handle = NoHandle /\ DownCo.first
  BY DEF DownCo, CoRow
<1>4. NoWorker \in WkRow /\ NoWorker.pc = "none" /\ NoWorker.cand = NoDoc
  BY DEF NoWorker, WkRow, DocOrNone
<1>5. left \in [{"rotations", "replacements", "faults", "signals"} -> Nat] /\ BudgetInv
  BY <1>1, <1>2 DEF BudgetInv
<1>6. EntraTypeOK
  <2>1. co \in [Proc -> CoRow] /\ wk \in [Proc -> WkRow]
    BY <1>1, <1>3, <1>4
  <2>2. provider \in 0 .. MaxRotations /\ lockId \in Id
    BY <1>1, <1>2
  <2>3. holder \in [Id -> Proc \cup {NoProc}]
    BY <1>1
  <2>4. /\ file \in DocOrNone /\ reloader \in [Proc -> DocOrNone]
        /\ rejected \in [Proc -> DocOrNone]
    BY <1>1 DEF DocOrNone
  <2> QED
    BY <1>1, <1>5, <2>1, <2>2, <2>3, <2>4 DEF EntraTypeOK, CoRow, WkRow
<1>7. LockInv
  BY <1>1, <1>2, <1>3, <1>4, NoProcAssumption DEF LockInv
<1>8. DocInv /\ OrderInv
  BY <1>1, <1>3, <1>4 DEF DocInv, OrderInv
<1> QED
  BY <1>5, <1>6, <1>7, <1>8 DEF EInv

\* The steps of the processes other than those of an attempt.
LEMMA ProcMoves ==
  ASSUME EInv, NEW p \in Proc,
         \/ TryAcquire(p) \/ Supervise(p) \/ WorkerWakes(p) \/ WorkerDies(p) \/ ScheduleRequest(p)
         \/ Verify(p) \/ ReloadFails(p) \/ Close(p) \/ Crash(p)
  PROVE  EInv' /\ Moves(p) /\ DocsStand(p)
<1>1. Moves(p) /\ DocsStand(p)
  BY TryAcquireMoves, JoinAsFollowerMoves, PromoteMoves, FinishPromotionMoves, DemoteMoves,
     FinishDemotionMoves, ProcessGoneMoves, SmallMoves, VerifyMoves
  DEF Supervise
<1> QED
  BY <1>1, DocsKept

\* The steps of an attempt.
LEMMA AttemptKeeps ==
  ASSUME EInv, NEW p \in Proc,
         BeginAttempt(p) \/ FetchOk(p) \/ FetchFails(p) \/ CheckInstall(p) \/ ReplaceFile(p)
  PROVE  EInv' /\ Moves(p)
BY BeginAttemptKeeps, FetchOkKeeps, FetchFailsKeeps, CheckInstallKeeps, ReplaceFileKeeps

\* What is spent of the budget.
LEMMA Spent ==
  ASSUME EInv, NEW what \in {"rotations", "replacements"}, Spend(what)
  PROVE  /\ left' \in [{"rotations", "replacements", "faults", "signals"} -> Nat]
         /\ left[what] > 0 /\ left'[what] = left[what] - 1
         /\ \A other \in {"rotations", "replacements"} \ {what} : left'[other] = left[other]
BY DEF EInv, EntraTypeOK, Spend

\* The operator and the provider.
LEMMA WorldKeeps ==
  ASSUME EInv, ReplaceLock \/ Rotate
  PROVE  EInv' /\ UNCHANGED << file, reloader >>
<1>1. /\ left \in [{"rotations", "replacements", "faults", "signals"} -> Nat]
      /\ provider + left["rotations"] <= MaxRotations /\ lockId + left["replacements"] <= MaxReplacements
      /\ provider \in Nat /\ lockId \in Nat /\ MaxRotations \in Nat /\ MaxReplacements \in Nat
  BY BoundsAssumption DEF EInv, EntraTypeOK, BudgetInv, Id
<1>2. CASE ReplaceLock
  <2>1. /\ Spend("replacements") /\ lockId' = lockId + 1
        /\ UNCHANGED << provider, file, holder, marker, owed, co, wk, reloader, rejected >>
    BY <1>2 DEF ReplaceLock
  <2>2. /\ left' \in [{"rotations", "replacements", "faults", "signals"} -> Nat]
        /\ left["replacements"] > 0 /\ left'["replacements"] = left["replacements"] - 1
        /\ left'["rotations"] = left["rotations"]
    BY <2>1, Spent
  <2>3. lockId' \in Id /\ lockId' # 0 /\ lockId' + left'["replacements"] <= MaxReplacements
    BY <1>1, <2>1, <2>2 DEF Id
  <2>4. EntraTypeOK'
    BY <2>1, <2>2, <2>3 DEF EInv, EntraTypeOK
  <2>5. BudgetInv'
    BY <1>1, <2>1, <2>2, <2>3 DEF BudgetInv
  <2>6. LockInv'
    <3>1. \A p \in Proc : co[p].handle <= lockId /\ co[p].handle \in Int
      BY BoundsAssumption DEF EInv, EntraTypeOK, LockInv, Id, NoHandle
    <3> QED
      BY <1>1, <2>1, <3>1 DEF EInv, LockInv
  <2>7. DocInv'
    BY <2>1 DEF EInv, DocInv
  <2> QED
    BY <2>1, <2>3, <2>4, <2>5, <2>6, <2>7 DEF EInv
<1>3. CASE Rotate
  <2>1. /\ Spend("rotations") /\ provider' = provider + 1
        /\ UNCHANGED << lockId, file, holder, marker, owed, co, wk, reloader, rejected >>
    BY <1>3 DEF Rotate
  <2>2. /\ left' \in [{"rotations", "replacements", "faults", "signals"} -> Nat]
        /\ left["rotations"] > 0 /\ left'["rotations"] = left["rotations"] - 1
        /\ left'["replacements"] = left["replacements"]
    BY <2>1, Spent
  <2>3. provider' \in 0 .. MaxRotations /\ provider' + left'["rotations"] <= MaxRotations
    BY <1>1, <2>1, <2>2
  <2>4. EntraTypeOK'
    BY <2>1, <2>2, <2>3 DEF EInv, EntraTypeOK
  <2>5. BudgetInv'
    BY <1>1, <2>1, <2>2, <2>3 DEF BudgetInv
  <2>6. LockInv' /\ (lockId' = 0 => OrderInv')
    BY <2>1 DEF EInv, LockInv, OrderInv
  <2>7. DocInv'
    <3>1. \A d \in DocOrNone : d # NoDoc /\ d.keys <= provider => d.keys <= provider'
      BY <1>1, <2>1, DocTyped
    <3> QED
      BY <2>1, <3>1, DocTyped DEF EInv, DocInv
  <2> QED
    BY <2>1, <2>4, <2>5, <2>6, <2>7 DEF EInv
<1> QED
  BY <1>2, <1>3 DEF ReplaceLock, Rotate

\* A snapshot that gets older, as long as it is not expired.
LEMMA OlderDoc ==
  ASSUME EInv, NEW d \in DocOrNone
  PROVE  /\ Older(d) \in DocOrNone /\ (Older(d) = NoDoc <=> d = NoDoc)
         /\ d # NoDoc => /\ Older(d).keys = d.keys
                         /\ Older(d).age = IF d.age = TTL THEN TTL ELSE d.age + 1
<1>1. CASE d = NoDoc
  BY <1>1 DEF Older
<1>2. CASE d # NoDoc /\ d.age = TTL
  BY <1>2 DEF Older
<1>3. CASE d # NoDoc /\ d.age # TTL
  <2> DEFINE e == [d EXCEPT !.age = d.age + 1]
  <2>1. Older(d) = e
    BY <1>3 DEF Older
  <2>2. d \in Doc /\ d.age \in 0 .. TTL /\ TTL \in Nat
    BY <1>3, DocTyped
  <2>3. e \in Doc /\ e.age = d.age + 1 /\ e.keys = d.keys
    BY <1>3, <2>2 DEF Doc
  <2> HIDE DEF e
  <2>4. e # NoDoc /\ e \in DocOrNone
    BY <2>3, NoDocAssumption DEF Doc, DocOrNone
  <2> QED
    BY <1>3, <2>1, <2>3, <2>4
<1> QED
  BY <1>1, <1>2, <1>3

\* Time passes: the order of dates and keys stands.
LEMMA TickKeeps ==
  ASSUME EInv, Tick
  PROVE  EInv'
<1>1. /\ \A p \in Proc : wk[p].cand # NoDoc => wk[p].cand.age < MaxAttempt
      /\ file' = Older(file) /\ reloader' = [p \in Proc |-> Older(reloader[p])]
      /\ rejected' = [p \in Proc |-> Older(rejected[p])]
      /\ wk' = [p \in Proc |-> [wk[p] EXCEPT !.cand = Older(wk[p].cand)]]
      /\ UNCHANGED << env, holder, marker, owed, co >>
  BY DEF Tick
<1>2. UNCHANGED << provider, lockId, left >>
  BY <1>1 DEF env
<1>3. /\ file' \in DocOrNone /\ reloader' \in [Proc -> DocOrNone] /\ rejected' \in [Proc -> DocOrNone]
      /\ \A p \in Proc : reloader'[p] = Older(reloader[p])
  BY <1>1, Rows, DocTyped, OlderDoc DEF EInv, EntraTypeOK
<1>4. /\ wk' \in [Proc -> WkRow]
      /\ \A p \in Proc : wk'[p].pc = wk[p].pc /\ wk'[p].cand = Older(wk[p].cand)
  <2>1. ASSUME NEW p \in Proc
        PROVE  /\ [wk[p] EXCEPT !.cand = Older(wk[p].cand)] \in WkRow
               /\ [wk[p] EXCEPT !.cand = Older(wk[p].cand)].pc = wk[p].pc
               /\ [wk[p] EXCEPT !.cand = Older(wk[p].cand)].cand = Older(wk[p].cand)
    <3>1. PICK d \in DocOrNone : d = Older(wk[p].cand)
      BY DocTyped, OlderDoc
    <3>2. /\ [wk[p] EXCEPT !.cand = d] \in WkRow /\ [wk[p] EXCEPT !.cand = d].pc = wk[p].pc
          /\ [wk[p] EXCEPT !.cand = d].cand = d
      BY Rows DEF WkRow
    <3> QED
      BY <3>1, <3>2
  <2> QED
    BY <1>1, <2>1
<1>5. EntraTypeOK' /\ BudgetInv'
  BY <1>1, <1>2, <1>3, <1>4 DEF EInv, EntraTypeOK, BudgetInv, WkRow
<1>6. LockInv'
  BY ZenonT(40), <1>1, <1>2, <1>4 DEF EInv, LockInv
<1>7. DocInv'
  <2>1. ASSUME NEW d \in DocOrNone, d # NoDoc => d.keys <= provider
        PROVE  (Older(d) # NoDoc <=> d # NoDoc) /\ (Older(d) # NoDoc => Older(d).keys <= provider)
    BY <2>1, OlderDoc
  <2>2. file' # NoDoc => file'.keys <= provider'
    BY <1>1, <1>2, <2>1, DocTyped DEF EInv, DocInv
  <2>3. ASSUME NEW p \in Proc
        PROVE  /\ reloader'[p] # NoDoc => reloader'[p].keys <= provider'
               /\ wk'[p].cand # NoDoc => wk'[p].cand.keys <= provider'
               /\ reloader'[p] # NoDoc <=> reloader[p] # NoDoc
               /\ wk'[p].cand # NoDoc <=> wk[p].cand # NoDoc
    <3>1. /\ reloader[p] # NoDoc => reloader[p].keys <= provider
          /\ wk[p].cand # NoDoc => wk[p].cand.keys <= provider
      BY DEF EInv, DocInv
    <3> QED
      BY <1>2, <1>3, <1>4, <2>1, <3>1, DocTyped
  <2>4. co' = co
    BY <1>1
  <2> QED
    BY <1>4, <2>2, <2>3, <2>4 DEF EInv, DocInv
<1>8. ASSUME lockId' = 0 PROVE OrderInv'
  <2>1. OrderInv
    BY <1>2, <1>8 DEF EInv
  <2>2. ASSUME NEW d \in DocOrNone, NEW e \in DocOrNone, d # NoDoc, e # NoDoc
        PROVE  /\ Leads(d, e) => Leads(Older(d), Older(e))
               /\ Newer(Older(d), Older(e)) => Newer(d, e)
               /\ Newer(d, e) /\ d.age < MaxAttempt => Newer(Older(d), Older(e))
               /\ Older(d) # NoDoc /\ Older(e) # NoDoc
               /\ Older(d).keys = d.keys /\ Older(e).keys = e.keys
    <3>1. /\ d.age \in 0 .. TTL /\ e.age \in 0 .. TTL /\ TTL \in Nat /\ MaxAttempt \in Nat
          /\ MaxAttempt < TTL
      BY <2>2, DocTyped
    <3>2. /\ Older(d).keys = d.keys /\ Older(d).age = IF d.age = TTL THEN TTL ELSE d.age + 1
          /\ Older(e).keys = e.keys /\ Older(e).age = IF e.age = TTL THEN TTL ELSE e.age + 1
          /\ Older(d) # NoDoc /\ Older(e) # NoDoc
      BY <2>2, OlderDoc
    <3> QED
      BY <2>2, <3>1, <3>2 DEF Leads, Newer
  <2>3. \A d \in DocOrNone : Leads(d, NoDoc)
    BY DEF Leads
  <2>4. ASSUME NEW p \in Proc, wk'[p].cand # NoDoc
        PROVE  Leads(wk'[p].cand, file') /\ \A q \in Proc : Leads(wk'[p].cand, reloader'[q])
    <3>1. wk[p].cand # NoDoc /\ wk[p].cand \in DocOrNone /\ wk'[p].cand = Older(wk[p].cand)
      BY <1>4, <2>4, DocTyped, OlderDoc
    <3>2. ASSUME NEW e \in DocOrNone, Leads(wk[p].cand, e) PROVE Leads(wk'[p].cand, Older(e))
      <4>1. CASE e = NoDoc
        <5>1. Older(e) = NoDoc
          BY <4>1 DEF Older
        <5> QED
          BY <5>1 DEF Leads
      <4>2. CASE e # NoDoc
        BY <2>2, <3>1, <3>2, <4>2
      <4> QED
        BY <4>1, <4>2
    <3> QED
      BY <1>1, <1>3, <2>1, <3>1, <3>2, DocTyped DEF OrderInv
  <2>5. ASSUME NEW p \in Proc, wk'[p].pc = "replace", file' # NoDoc PROVE Newer(wk'[p].cand, file')
    <3>1. wk[p].pc = "replace" /\ file # NoDoc /\ wk[p].cand # NoDoc
      BY <1>1, <1>4, <2>5, DocTyped, OlderDoc DEF EInv, DocInv
    <3>2. Newer(wk[p].cand, file) /\ wk[p].cand.age < MaxAttempt
      BY <1>1, <2>1, <3>1 DEF OrderInv
    <3> QED
      BY <1>1, <1>4, <2>2, <3>1, <3>2, DocTyped
  <2>6. ASSUME NEW q \in Proc, file' # NoDoc, reloader'[q] # NoDoc, Newer(file', reloader'[q])
        PROVE  reloader'[q].keys <= file'.keys
    <3>1. file # NoDoc /\ reloader[q] # NoDoc
      BY <1>1, <1>3, <2>6, DocTyped, OlderDoc
    <3>2. Newer(file, reloader[q])
      BY <1>1, <1>3, <2>2, <2>6, <3>1, DocTyped
    <3>3. reloader[q].keys <= file.keys
      BY <2>1, <3>1, <3>2 DEF OrderInv
    <3> QED
      BY <1>1, <1>3, <2>2, <3>1, <3>3, DocTyped
  <2> QED
    BY <2>4, <2>5, <2>6 DEF OrderInv
<1> QED
  BY <1>5, <1>6, <1>7, <1>8 DEF EInv

\* A step is one of the world's, of time, or of one process.
LEMMA ENext ==
  ASSUME EInv, [Next]_vars
  PROVE  /\ EInv'
         /\ \/ \E p \in Proc : Moves(p)
            \/ UNCHANGED << file, reloader >>
            \/ Tick
<1>1. CASE UNCHANGED vars
  BY <1>1 DEF vars, EInv, EntraTypeOK, BudgetInv, LockInv, DocInv, OrderInv
<1>2. CASE Next
  <2>1. ASSUME NEW p \in Proc,
               \/ TryAcquire(p) \/ Supervise(p)
               \/ Attempt(p) \/ FetchOk(p) \/ FetchFails(p)
               \/ WorkerDies(p) \/ ScheduleRequest(p)
               \/ Verify(p) \/ ReloadFails(p) \/ Close(p) \/ Crash(p)
        PROVE  EInv' /\ Moves(p)
    BY <2>1, ProcMoves, AttemptKeeps DEF Attempt
  <2>2. CASE ReplaceLock \/ Rotate
    BY <2>2, WorldKeeps
  <2>3. CASE Tick
    BY <2>3, TickKeeps
  <2> QED
    BY <1>2, <2>1, <2>2, <2>3 DEF Next
<1> QED
  BY <1>1, <1>2

\* Two processes never share the owner lock, and whoever may still fetch or install holds the
\* lock it was promoted under, through demotions, closes, crashes and failed promotions.
THEOREM WorkersHoldTheLock == Spec => []WorkerUnderLock
<1>1. EInv => WorkerUnderLock
  <2> SUFFICES ASSUME EInv, NEW p \in Proc, wk[p].pc # "none"
               PROVE  co[p].handle # NoHandle /\ holder[co[p].handle] = p
    BY DEF WorkerUnderLock
  <2>1. co[p].handle # NoHandle /\ co[p].handle \in Id \cup {NoHandle}
    BY Rows DEF CoRow
  <2> QED
    BY <2>1 DEF EInv, LockInv
<1>2. EInv /\ [Next]_vars => EInv'
  BY ENext
<1> QED
  BY <1>1, <1>2, EInit, PTL DEF Spec

\* The check of install_entra_trust_store still holds when its os.replace runs: as long as
\* nobody replaces the lock file, no install puts an older snapshot over a newer one.
THEOREM FileNeverGoesBack == Spec => FileAdvances
<1>1. ASSUME EInv, [Next]_vars
      PROVE  lockId = 0 /\ file # NoDoc /\ (\E p \in Proc : ReplaceFile(p)) => Newer(file', file)
  BY <1>1 DEF EInv, OrderInv, ReplaceFile
<1>2. EInv /\ [Next]_vars => EInv'
  BY ENext
<1> QED
  BY <1>1, <1>2, EInit, PTL DEF Spec, FileAdvances

\* As long as nobody replaces the lock file, no process goes back to an earlier generation of
\* signing keys while it runs.
THEOREM TrustNeverGoesBack == Spec => TrustAdvances
<1>1. ASSUME EInv, [Next]_vars, lockId = 0,
             NEW p \in Proc, reloader[p] # NoDoc, reloader'[p] # NoDoc
      PROVE  reloader'[p].keys >= reloader[p].keys
  <2>1. reloader[p].keys \in Nat
    BY <1>1, DocTyped
  <2>2. CASE \E q \in Proc : Moves(q)
    <3>1. reloader'[p] \in {reloader[p], NoDoc} \/ (reloader'[p] = file /\ Newer(file, reloader[p]))
      BY <1>1, <2>2 DEF Moves, RowsMove, TrustMoves
    <3>2. file # NoDoc /\ Newer(file, reloader[p]) => reloader[p].keys <= file.keys
      BY <1>1 DEF EInv, OrderInv
    <3>3. file # NoDoc => file.keys \in Nat
      BY <1>1, DocTyped
    <3> QED
      BY <1>1, <2>1, <3>1, <3>2, <3>3
  <2>3. CASE UNCHANGED << file, reloader >>
    BY <2>1, <2>3
  <2>4. CASE Tick
    <3>1. reloader'[p] = Older(reloader[p])
      BY <2>4 DEF Tick
    <3>2. Older(reloader[p]).keys = reloader[p].keys
      BY <1>1, DocTyped, OlderDoc
    <3> QED
      BY <2>1, <3>1, <3>2
  <2> QED
    BY <1>1, <2>2, <2>3, <2>4, ENext
<1>2. EInv /\ [Next]_vars => EInv'
  BY ENext
<1>3. EInv /\ [Next]_vars =>
        (\A p \in Proc : lockId = 0 /\ reloader[p] # NoDoc /\ reloader'[p] # NoDoc
                           => reloader'[p].keys >= reloader[p].keys)
  BY <1>1
<1> QED
  BY <1>2, <1>3, EInit, PTL DEF Spec, TrustAdvances

=============================================================================
