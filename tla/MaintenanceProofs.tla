-------------------------- MODULE MaintenanceProofs --------------------------
(***************************************************************************)
(* Theorems about Maintenance for every value of its constants.            *)
(*                                                                         *)
(* Seen from the approved scope the prune does nothing, and the database   *)
(* that a former version left is one that this version's workers could     *)
(* have made.  So the tables are looked at through the scope, and the      *)
(* invariant of Ingestion, which its workers keep, is taken over.          *)
(***************************************************************************)
EXTENDS Maintenance, IngestionProofs

-----------------------------------------------------------------------------
(* The tables as the approved scope shows them                             *)

ScopedDraws == [i \in Issues |-> IF i \in Scope THEN draws[i] ELSE NoDraw]

ScopedSnapshots ==
    [r \in RunIds |-> IF snapshots[r] = NoSnapshot THEN NoSnapshot ELSE Payload(snapshots[r])]

(* The former version's run, had it collected nothing but the scope. *)
LegacyCount == Cardinality(Records(snapshots[LegacyRun]))
ScopedLegacyRow ==
    [kind |-> "history", status |-> "succeeded", error |-> "none",
     fetched |-> LegacyCount, inserted |-> LegacyCount, skipped |-> 0]

ScopedRuns == [r \in RunIds |-> IF r = LegacyRun THEN ScopedLegacyRow ELSE runs[r]]

Scoped == INSTANCE IngestionProofs
    WITH draws <- ScopedDraws, runs <- ScopedRuns, snapshots <- ScopedSnapshots

-----------------------------------------------------------------------------
(* The invariant                                                           *)

(* The former version's run stays, and no worker of this version has it.   *)
LegacyKept ==
    /\ runs[LegacyRun] # NoRun
    /\ snapshots[LegacyRun] # NoSnapshot
    /\ \A i \in DOMAIN snapshots[LegacyRun] : i <= LastIssue
    /\ \A w \in Workers : HasRun(w) => job[w].run # LegacyRun

(* What lies outside the scope is early and the former version's. *)
EarlyIsLegacy ==
    /\ \A i \in Stored \ Scope :
          /\ IsEarly(i)
          /\ draws[i].run = LegacyRun
          /\ i \in DOMAIN snapshots[LegacyRun]
          /\ snapshots[LegacyRun][i] = draws[i].body
    /\ \A r \in RunIds \ {LegacyRun} :
          snapshots[r] # NoSnapshot => DOMAIN snapshots[r] \subseteq Scope

(* What the prune read stays true until it commits: workers add nothing    *)
(* early.                                                                  *)
ReadIsCurrent ==
    prune.pc = "read" =>
        /\ prune.early = {i \in Stored : IsEarly(i)}
        /\ prune.rewritten = [r \in RunIds |->
               IF r \in Affected THEN Retained(snapshots[r]) ELSE NoSnapshot]

ExplainedInv == explained \in SUBSET Versions /\ "current" \in explained

PruneInv ==
    /\ TypeOK
    /\ Scoped!IInv
    /\ LegacyKept
    /\ EarlyIsLegacy
    /\ ReadIsCurrent
    /\ ExplainedInv
    /\ PrunedForGood

-----------------------------------------------------------------------------
(* The instance has its own names for what does not depend on the tables.  *)
LEMMA SameSets ==
    /\ \A S : Scoped!IsFiniteSet(S) <=> IsFiniteSet(S)
    /\ \A S : Scoped!Cardinality(S) = Cardinality(S)
  BY DEF Scoped!IsFiniteSet, IsFiniteSet, Scoped!Cardinality, Cardinality

LEMMA SameTypes ==
    /\ Scoped!Kinds = Kinds /\ Scoped!Scope = Scope /\ Scoped!Docs = Docs
    /\ Scoped!Draw = Draw /\ Scoped!Statuses = Statuses /\ Scoped!Errors = Errors
    /\ Scoped!Run = Run /\ Scoped!Batches = Batches /\ Scoped!Job = Job
  BY DEF Scoped!Kinds, Kinds, Scoped!Scope, Scope, Scoped!Docs, Docs, Scoped!Draw, Draw,
         Scoped!Statuses, Statuses, Scoped!Errors, Errors, Scoped!Run, Run, Scoped!Batches, Batches,
         Scoped!Job, Job, Scoped!Stages, Stages

LEMMA SameAssumptions ==
    /\ Scoped!IsFiniteSet(Issues) /\ Issues \subseteq Int
    /\ FirstIssue \in Int /\ LastIssue \in Int
    /\ Pet \in [Issues -> Anchors]
    /\ OpenTime \in [Issues -> [Bodies -> Int]]
    /\ Window \in Nat \ {0}
    /\ NoRun \notin Scoped!Run \cup RunIds
    /\ NoDraw \notin Scoped!Draw \cup [body : Bodies, anchor : Anchors, kind : Scoped!Kinds]
    /\ NoSnapshot \notin Scoped!Docs /\ NoAnchor \notin Anchors
<1>1. IsFiniteSet(Issues) /\ Scoped!IsFiniteSet(Issues)
  BY SameSets, IssuesAreFinite
<1> QED
  BY <1>1, SameTypes, IssuesAreFinite, ScopeBounds, PetType, OpenTimeType, WindowType, AbsentValues

(* What Ingestion's workers keep, seen from the scope.                     *)
LEMMA ScopedNext == Scoped!IInv /\ [Scoped!Next]_(Scoped!vars) => Scoped!IInv'
  BY Scoped!InvNext, SameAssumptions

LEMMA ScopedLedgerStep ==
    Scoped!IInv /\ [Scoped!Next]_(Scoped!vars) => [ScopeLedger!Next]_ScopeView
<1>1. Scoped!IInv /\ [Scoped!Next]_(Scoped!vars) => [Scoped!Ledger!Next]_(Scoped!LedgerView)
  BY Scoped!LedgerStep, SameAssumptions
<1>2. Scoped!LedgerView = ScopeView /\ Scoped!LedgerView' = ScopeView'
  BY DEF Scoped!LedgerView, ScopeView, LedgerView, ScopedDraws
<1>3. Scoped!Ledger!Held = ScopeLedger!Held /\ Scoped!Ledger!Entry = ScopeLedger!Entry
  BY <1>2 DEF Scoped!Ledger!Held, ScopeLedger!Held, Scoped!Ledger!Entry, ScopeLedger!Entry
<1>4. \A New, kind : Scoped!Ledger!Grow(New, kind) <=> ScopeLedger!Grow(New, kind)
  BY <1>2, <1>3, SameTypes DEF Scoped!Ledger!Grow, ScopeLedger!Grow
<1>5. Scoped!Ledger!ConfirmedAnchors = ScopeLedger!ConfirmedAnchors
  BY <1>2, <1>3 DEF Scoped!Ledger!ConfirmedAnchors, ScopeLedger!ConfirmedAnchors
<1>6. Scoped!Ledger!Next <=> ScopeLedger!Next
  BY <1>2, <1>4, <1>5
     DEF Scoped!Ledger!Next, ScopeLedger!Next, Scoped!Ledger!Confirm, ScopeLedger!Confirm,
         Scoped!Ledger!Inherit, ScopeLedger!Inherit
<1> QED BY <1>1, <1>2, <1>6

-----------------------------------------------------------------------------
(* What a worker computes, in the scope's eyes                             *)

LEMMA SameOperators ==
    /\ Scoped!IdleJob = IdleJob /\ Scoped!NoRows = NoRows
    /\ \A kind : Scoped!NewRun(kind) = NewRun(kind) /\ Scoped!Served(kind) = Served(kind)
    /\ \A d : Scoped!Records(d) = Records(d) /\ Scoped!Payload(d) = Payload(d)
    /\ \A w, s : Scoped!At(w, s) <=> At(w, s)
    /\ \A w, i : Scoped!IsNext(w, i) <=> IsNext(w, i)
    /\ \A w, i : Scoped!AnchorFor(w, i) = AnchorFor(w, i)
    /\ \A w, i : Scoped!NewDraw(w, i) = NewDraw(w, i) /\ Scoped!Adding(w, i) = Adding(w, i)
    /\ \A d, b, a : Scoped!SameDraw(d, b, a) <=> SameDraw(d, b, a)
    /\ \A w : Scoped!SucceededRun(w) = SucceededRun(w)
<1>1. Scoped!IdleJob = IdleJob /\ Scoped!NoRows = NoRows
  BY DEF Scoped!IdleJob, IdleJob, Scoped!NoRows, NoRows
<1>2. \A kind : Scoped!NewRun(kind) = NewRun(kind)
  BY DEF Scoped!NewRun, NewRun
<1>3. \A kind : Scoped!Served(kind) = Served(kind)
  BY SameSets DEF Scoped!Served, Served, Scoped!LatestPublished, LatestPublished,
                  Scoped!Published, Published
<1>4. \A d : Scoped!Records(d) = Records(d) /\ Scoped!Payload(d) = Payload(d)
  BY SameTypes DEF Scoped!Records, Records, Scoped!Payload, Payload
<1>5. \A w, s : Scoped!At(w, s) <=> At(w, s)
  BY DEF Scoped!At, At
<1>6. \A w, i : Scoped!IsNext(w, i) <=> IsNext(w, i)
  BY DEF Scoped!IsNext, IsNext, Scoped!Precedes, Precedes
<1>7. \A w, i : Scoped!AnchorFor(w, i) = AnchorFor(w, i)
  BY DEF Scoped!AnchorFor, AnchorFor
<1>8. \A w, i : Scoped!NewDraw(w, i) = NewDraw(w, i)
  BY <1>7 DEF Scoped!NewDraw, NewDraw
<1>9. \A w, i : Scoped!Adding(w, i) = Adding(w, i)
  BY <1>8 DEF Scoped!Adding, Adding
<1>10. \A d, b, a : Scoped!SameDraw(d, b, a) <=> SameDraw(d, b, a)
  BY DEF Scoped!SameDraw, SameDraw
<1>11. \A w : Scoped!SucceededRun(w) = SucceededRun(w)
  BY <1>2, <1>4, SameSets DEF Scoped!SucceededRun, SucceededRun
<1> QED
  BY <1>1, <1>2, <1>3, <1>4, <1>5, <1>6, <1>7, <1>8, <1>9, <1>10, <1>11

(* A worker reads nothing but the scope. *)
LEMMA SameReading ==
    /\ Scoped!Stored = Stored \cap Scope
    /\ \A i \in Scope : ScopedDraws[i] = draws[i]
    /\ Scoped!LatestAnchor = LatestAnchor
    /\ \A w : Scoped!Insertable(w) <=> Insertable(w)
<1>1. \A i \in Scope : i \in Issues /\ ScopedDraws[i] = draws[i]
  BY DEF Scope, ScopedDraws
<1>2. Scoped!Stored = Stored \cap Scope
  BY <1>1 DEF Scoped!Stored, Stored, ScopedDraws
<1>3. Scoped!Stored \cap Scoped!Scope = Stored \cap Scope
  BY <1>2, SameTypes
<1>4. Scoped!LatestAnchor = LatestAnchor
  BY <1>1, <1>3 DEF Scoped!LatestAnchor, LatestAnchor, Scoped!Precedes, Precedes
<1>5. \A w : Scoped!Insertable(w) <=> Insertable(w)
  BY <1>2, SameTypes DEF Scoped!Insertable, Insertable
<1> QED
  BY <1>1, <1>2, <1>4, <1>5

-----------------------------------------------------------------------------
(* A worker's step is a worker's step, in the scope's eyes                 *)

LEMMA NothingWritten ==
    ASSUME UNCHANGED <<source, database>>
    PROVE  UNCHANGED <<Scoped!source, Scoped!database>>
  BY DEF source, database, Scoped!source, Scoped!database, ScopedDraws, ScopedRuns,
         ScopedSnapshots, ScopedLegacyRow, LegacyCount

LEMMA QuietSteps ==
    ASSUME NEW w \in Workers
    PROVE  /\ \A kind : Fetch(w, kind) => Scoped!Fetch(w, kind)
           /\ ReadAnchor(w) => Scoped!ReadAnchor(w)
           /\ RefuseWithoutAnchor(w) => Scoped!RefuseWithoutAnchor(w)
           /\ CommitRejected(w) => Scoped!CommitRejected(w)
           /\ TransientError(w) => Scoped!TransientError(w)
           /\ Crash(w) => Scoped!Crash(w)
<1> USE SameOperators, SameReading, NothingWritten
<1>1. \A kind : Fetch(w, kind) => Scoped!Fetch(w, kind)
  BY DEF Fetch, Scoped!Fetch
<1>2. ReadAnchor(w) => Scoped!ReadAnchor(w)
  BY DEF ReadAnchor, Scoped!ReadAnchor
<1>3. \A e : Fail(w, e) => Scoped!Fail(w, e)
  BY DEF Fail, Scoped!Fail
<1>4. RefuseWithoutAnchor(w) => Scoped!RefuseWithoutAnchor(w)
  BY <1>3 DEF RefuseWithoutAnchor, Scoped!RefuseWithoutAnchor
<1>5. CommitRejected(w) => Scoped!CommitRejected(w)
  BY <1>3 DEF CommitRejected, Scoped!CommitRejected, AtCommit, Scoped!AtCommit
<1>6. TransientError(w) => Scoped!TransientError(w)
  BY <1>3 DEF TransientError, Scoped!TransientError
<1>7. Crash(w) => Scoped!Crash(w)
  BY DEF Crash, Scoped!Crash
<1> QED
  BY <1>1, <1>2, <1>4, <1>5, <1>6, <1>7

(* The records a worker compares with the table are in the scope.          *)
LEMMA RecordSteps ==
    ASSUME NEW w \in Workers, Scoped!IInv
    PROVE  /\ SkipStored(w) => Scoped!SkipStored(w)
           /\ RefuseConflict(w) => Scoped!RefuseConflict(w)
           /\ QueueInsert(w) => Scoped!QueueInsert(w)
<1> USE SameOperators, SameReading, NothingWritten
<1>1. At(w, "looping") => job[w].todo \subseteq Scope
  <2>1. Scoped!LoopFaithful(w)
    BY DEF Scoped!IInv, Scoped!WorkerInv
  <2> QED
    BY <2>1 DEF Scoped!LoopFaithful, Records
<1>2. SkipStored(w) => Scoped!SkipStored(w)
  BY <1>1 DEF SkipStored, Scoped!SkipStored
<1>3. \A e : Fail(w, e) => Scoped!Fail(w, e)
  BY DEF Fail, Scoped!Fail
<1>4. RefuseConflict(w) => Scoped!RefuseConflict(w)
  BY <1>1, <1>3 DEF RefuseConflict, Scoped!RefuseConflict
<1>5. QueueInsert(w) => Scoped!QueueInsert(w)
  BY <1>1 DEF QueueInsert, Scoped!QueueInsert
<1> QED
  BY <1>2, <1>4, <1>5

(* Rows of other runs than the former version's are what they are.         *)
LEMMA RowWritten ==
    ASSUME NEW r \in RunIds \ {LegacyRun}, NEW row,
           runs \in [RunIds -> Run \cup {NoRun}],
           runs' = [runs EXCEPT ![r] = row], UNCHANGED snapshots
    PROVE  ScopedRuns' = [ScopedRuns EXCEPT ![r] = row] /\ ScopedRuns[r] = runs[r]
  BY DEF ScopedRuns, ScopedLegacyRow, LegacyCount

LEMMA RowSteps ==
    ASSUME NEW w \in Workers, TypeOK, LegacyKept
    PROVE  /\ OpenRun(w) => Scoped!OpenRun(w)
           /\ RecordFailure(w) /\ job[w].run \in RunIds => Scoped!RecordFailure(w)
<1>1. ASSUME OpenRun(w) PROVE Scoped!OpenRun(w)
  <2>1. PICK r \in RunIds :
          /\ runs[r] = NoRun
          /\ runs' = [runs EXCEPT ![r] = NewRun(job[w].kind)]
          /\ job' = [job EXCEPT ![w] = [job[w] EXCEPT !.pc = "opened", !.run = r]]
    BY <1>1 DEF OpenRun, TypeOK
  <2>2. r # LegacyRun /\ UNCHANGED <<feed, revisions, draws, snapshots>> /\ At(w, "received")
    BY <1>1, <2>1 DEF OpenRun, LegacyKept, source
  <2>3. ScopedRuns' = [ScopedRuns EXCEPT ![r] = NewRun(job[w].kind)] /\ ScopedRuns[r] = NoRun
    BY <2>1, <2>2, RowWritten DEF TypeOK
  <2>4. UNCHANGED <<Scoped!source, ScopedDraws, ScopedSnapshots>>
    BY <2>2 DEF Scoped!source, ScopedDraws, ScopedSnapshots
  <2> QED
    BY <2>1, <2>2, <2>3, <2>4, SameOperators DEF Scoped!OpenRun, TypeOK
<1>2. ASSUME RecordFailure(w), job[w].run \in RunIds PROVE Scoped!RecordFailure(w)
  <2>1. PICK r \in RunIds \ {LegacyRun} : r = job[w].run
    BY <1>2 DEF LegacyKept, HasRun, RecordFailure, At
  <2>2. PICK row : row = [runs[r] EXCEPT !.status = "failed", !.error = job[w].error]
    OBVIOUS
  <2>3. runs' = [runs EXCEPT ![r] = row]
    BY <1>2, <2>1, <2>2 DEF RecordFailure, TypeOK
  <2>4. UNCHANGED <<feed, revisions, draws, snapshots>> /\ At(w, "failing")
        /\ job' = [job EXCEPT ![w] = IdleJob]
    BY <1>2 DEF RecordFailure, source
  <2>5. ScopedRuns' = [ScopedRuns EXCEPT ![r] = row] /\ ScopedRuns[r] = runs[r]
    BY <2>3, <2>4, RowWritten DEF TypeOK
  <2>6. UNCHANGED <<Scoped!source, ScopedDraws, ScopedSnapshots>>
    BY <2>4 DEF Scoped!source, ScopedDraws, ScopedSnapshots
  <2>7. ScopedRuns' = [ScopedRuns EXCEPT ![r].status = "failed", ![r].error = job[w].error]
    BY <2>2, <2>5 DEF ScopedRuns
  <2> QED
    BY <2>1, <2>4, <2>6, <2>7, SameOperators DEF Scoped!RecordFailure
<1> QED
  BY <1>1, <1>2

(* A batch in the scope is the same batch. *)
LEMMA PayloadTwice ==
    ASSUME NEW d \in Docs
    PROVE  /\ Payload(d) \in Docs /\ DOMAIN Payload(d) = Records(d)
           /\ Payload(Payload(d)) = Payload(d) /\ Records(Payload(d)) = Records(d)
  BY PayloadTyped DEF Payload, Records

LEMMA BatchSteps ==
    ASSUME NEW w \in Workers, TypeOK, LegacyKept, AtCommit(w), Insertable(w),
           job[w].run \in RunIds, WriteBatch(w)
    PROVE  Scoped!WriteBatch(w)
<1>1. PICK r \in RunIds \ {LegacyRun} : r = job[w].run
  BY DEF LegacyKept, HasRun, AtCommit, At
<1>2. PICK p \in Batches : p = job[w].pending /\ DOMAIN p \subseteq Scope \ Stored
  BY JobFields DEF Insertable
<1>3. PICK d \in Docs : d = job[w].doc
  BY JobFields
<1>4. ScopedDraws' = [i \in Issues |-> IF i \in DOMAIN p THEN p[i] ELSE ScopedDraws[i]]
  <2>1. draws' = [i \in Issues |-> IF i \in DOMAIN p THEN p[i] ELSE draws[i]]
    BY <1>2 DEF WriteBatch
  <2> QED
    BY <1>2, <2>1 DEF ScopedDraws
<1>5. snapshots' = [snapshots EXCEPT ![r] = Payload(d)]
  BY <1>1, <1>3 DEF WriteBatch
<1>6. ScopedSnapshots' = [ScopedSnapshots EXCEPT ![r] = Payload(d)]
  <2>1. Payload(d) # NoSnapshot /\ Payload(Payload(d)) = Payload(d)
    BY PayloadTwice, AbsentValues
  <2>2. \A x \in RunIds : ScopedSnapshots'[x] =
            IF snapshots'[x] = NoSnapshot THEN NoSnapshot ELSE Payload(snapshots'[x])
    BY DEF ScopedSnapshots, Payload, Records
  <2>3. ScopedSnapshots'[r] = Payload(d)
    BY <1>5, <2>1, <2>2 DEF TypeOK
  <2>4. \A x \in RunIds \ {r} : ScopedSnapshots'[x] = ScopedSnapshots[x]
    BY <1>5, <2>2 DEF TypeOK, ScopedSnapshots
  <2> QED
    BY <2>3, <2>4 DEF ScopedSnapshots
<1>7. ScopedRuns' = [ScopedRuns EXCEPT ![r] = SucceededRun(w)]
  <2>1. snapshots'[LegacyRun] = snapshots[LegacyRun]
    BY <1>5, LegacyRunType DEF TypeOK
  <2>2. ScopedLegacyRow' = ScopedLegacyRow
    BY <2>1 DEF ScopedLegacyRow, LegacyCount, Records
  <2>3. runs' = [runs EXCEPT ![r] = SucceededRun(w)]
    BY <1>1 DEF WriteBatch
  <2> QED
    BY <2>2, <2>3 DEF ScopedRuns, TypeOK
<1> QED
  BY <1>1, <1>2, <1>3, <1>4, <1>6, <1>7, SameOperators DEF Scoped!WriteBatch

LEMMA CommitSteps ==
    ASSUME NEW w \in Workers, TypeOK, LegacyKept, job[w].run \in RunIds
    PROVE  /\ Commit(w) => Scoped!Commit(w)
           /\ CommitAckLost(w) => Scoped!CommitAckLost(w)
<1>1. AtCommit(w) <=> Scoped!AtCommit(w)
  BY SameOperators DEF AtCommit, Scoped!AtCommit
<1>2. source' = source <=> Scoped!source' = Scoped!source
  BY DEF source, Scoped!source
<1>3. Commit(w) => Scoped!Commit(w)
  BY <1>1, <1>2, BatchSteps, SameReading, SameOperators DEF Commit, Scoped!Commit
<1>4. CommitAckLost(w) => Scoped!CommitAckLost(w)
  BY <1>1, <1>2, BatchSteps, SameReading, SameOperators DEF CommitAckLost, Scoped!CommitAckLost
<1> QED
  BY <1>3, <1>4

LEMMA RunIsOwn ==
    ASSUME Scoped!IInv, NEW w \in Workers, HasRun(w)
    PROVE  job[w].run \in RunIds
  BY DEF Scoped!IInv, Scoped!WorkerInv, Scoped!OwnRun, Scoped!HasRun, HasRun

LEMMA WorkerMaps ==
    ASSUME PruneInv, NEW w \in Workers, Start(w) \/ Progress(w) \/ Trouble(w)
    PROVE  Scoped!Start(w) \/ Scoped!Progress(w) \/ Scoped!Trouble(w)
<1>1. TypeOK /\ Scoped!IInv /\ LegacyKept
  BY DEF PruneInv
<1>2. Start(w) => Scoped!Start(w)
  BY <1>1, QuietSteps, RowSteps, SameTypes DEF Start, Scoped!Start
<1>3. ReadAnchor(w) => Scoped!ReadAnchor(w)
  BY QuietSteps
<1>4. Record(w) => Scoped!Record(w)
  BY <1>1, QuietSteps, RecordSteps DEF Record, Scoped!Record
<1>5. Commit(w) \/ CommitRejected(w) \/ RecordFailure(w) \/ CommitAckLost(w) => job[w].run \in RunIds
  BY <1>1, RunIsOwn DEF Commit, CommitRejected, RecordFailure, CommitAckLost, AtCommit, At, HasRun
<1>6. End(w) => Scoped!End(w)
  BY <1>1, <1>5, QuietSteps, CommitSteps, RowSteps DEF End, Scoped!End
<1>7. Trouble(w) => Scoped!Trouble(w)
  BY <1>1, <1>5, QuietSteps, CommitSteps DEF Trouble, Scoped!Trouble
<1> QED
  BY <1>2, <1>3, <1>4, <1>6, <1>7 DEF Progress, Scoped!Progress

LEMMA StepMaps == PruneInv /\ [Next]_vars => [Scoped!Next]_(Scoped!vars)
<1> SUFFICES ASSUME PruneInv, [Next]_vars PROVE Scoped!Next \/ UNCHANGED Scoped!vars
  OBVIOUS
<1>1. CASE \E w \in Workers : Start(w) \/ Progress(w) \/ Trouble(w)
  BY <1>1, WorkerMaps DEF Scoped!Next
<1>2. CASE UNCHANGED <<draws, runs, snapshots>>
  <2>1. UNCHANGED <<ScopedDraws, ScopedRuns, ScopedSnapshots>>
    BY <1>2 DEF ScopedDraws, ScopedRuns, ScopedSnapshots, ScopedLegacyRow, LegacyCount
  <2>2. CASE UNCHANGED vars
    BY <2>1, <2>2 DEF vars, Scoped!vars
  <2>3. Publish => Scoped!Publish
    BY <2>1 DEF Publish, Scoped!Publish, Published, Scoped!Published, Scoped!database
  <2>4. Revise => Scoped!Revise
    BY <2>1 DEF Revise, Scoped!Revise, Published, Scoped!Published, Scoped!database
  <2> QED
    BY <1>1, <2>2, <2>3, <2>4 DEF Next, Scoped!Next
<1>3. Publish \/ Revise \/ UNCHANGED vars => UNCHANGED <<draws, runs, snapshots>>
  BY DEF Publish, Revise, vars, database
<1> QED
  BY <1>1, <1>2, <1>3 DEF Next

-----------------------------------------------------------------------------
(* What no worker touches                                                  *)

LeavesEarly ==
    /\ \A i \in Issues \ Scope : draws'[i] = draws[i]
    /\ runs'[LegacyRun] = runs[LegacyRun]
    /\ snapshots'[LegacyRun] = snapshots[LegacyRun]
    /\ \A r \in RunIds \ {LegacyRun} :
          snapshots'[r] = snapshots[r] \/ DOMAIN snapshots'[r] \subseteq Scope
    /\ draws' \in [Issues -> Draw \cup {NoDraw}]
    /\ runs' \in [RunIds -> Run \cup {NoRun}]
    /\ snapshots' \in [RunIds -> Docs \cup {NoSnapshot}]

(* A worker's run stays the one it opened. *)
LEMMA KeepsItsRun ==
    ASSUME TypeOK, NEW w \in Workers, Start(w) \/ Progress(w) \/ Trouble(w)
    PROVE  /\ \A v \in Workers \ {w} : job'[v] = job[v]
           /\ HasRun(w)' => OpenRun(w) \/ (HasRun(w) /\ job'[w].run = job[w].run)
<1> DEFINE Keeps == /\ \A v \in Workers \ {w} : job'[v] = job[v]
                    /\ HasRun(w)' => HasRun(w) /\ job'[w].run = job[w].run
<1>1. IdleJob \in Job /\ job[w] \in Job /\ job \in [Workers -> Job]
  BY IdleJobTyped DEF TypeOK
<1>2. ASSUME NEW j, job' = [job EXCEPT ![w] = j],
             j.pc \in {"opened", "looping", "failing"} => HasRun(w) /\ j.run = job[w].run
      PROVE  Keeps
  BY <1>1, <1>2 DEF HasRun
<1>3. ASSUME NEW kind, Fetch(w, kind) PROVE Keeps
  <2>1. PICK j : j = [IdleJob EXCEPT !.pc = "received", !.kind = kind, !.doc = Served(kind)]
    OBVIOUS
  <2>2. j.pc = "received" /\ job' = [job EXCEPT ![w] = j]
    BY <1>3, <2>1 DEF Fetch, IdleJob
  <2> QED BY <1>2, <2>2
<1>4. ASSUME ReadAnchor(w) PROVE Keeps
  <2>1. PICK a, j : /\ job' = [job EXCEPT ![w] = j]
                    /\ j = [job[w] EXCEPT !.pc = "looping", !.latest = a,
                               !.todo = Records(job[w].doc), !.pending = NoRows,
                               !.inserted = 0, !.skipped = 0]
    BY <1>1, <1>4 DEF ReadAnchor
  <2>2. j.run = job[w].run /\ HasRun(w)
    BY <1>1, <1>4, <2>1 DEF ReadAnchor, HasRun, At, Job
  <2> QED BY <1>2, <2>1, <2>2
<1>5. ASSUME NEW e, Fail(w, e), InTransaction(w) PROVE Keeps
  <2>1. PICK j : j = [IdleJob EXCEPT !.pc = "failing", !.kind = job[w].kind,
                          !.run = job[w].run, !.error = e]
    OBVIOUS
  <2>2. j.run = job[w].run /\ job' = [job EXCEPT ![w] = j] /\ HasRun(w)
    BY <1>5, <2>1 DEF Fail, IdleJob, InTransaction, HasRun
  <2> QED BY <1>2, <2>2
<1>6. ASSUME SkipStored(w) PROVE Keeps
  <2>1. PICK i, j : /\ job' = [job EXCEPT ![w] = j]
                    /\ j = [job[w] EXCEPT !.todo = job[w].todo \ {i},
                                           !.skipped = job[w].skipped + 1]
    BY <1>6 DEF SkipStored
  <2>2. j.run = job[w].run /\ HasRun(w)
    BY <1>1, <1>6, <2>1 DEF SkipStored, HasRun, At, Job
  <2> QED BY <1>2, <2>1, <2>2
<1>7. ASSUME QueueInsert(w) PROVE Keeps
  <2>1. PICK i, j : /\ job' = [job EXCEPT ![w] = j]
                    /\ j = [job[w] EXCEPT !.todo = job[w].todo \ {i}, !.pending = Adding(w, i),
                               !.latest = AnchorFor(w, i), !.inserted = job[w].inserted + 1]
    BY <1>7 DEF QueueInsert
  <2>2. j.run = job[w].run /\ HasRun(w)
    BY <1>1, <1>7, <2>1 DEF QueueInsert, HasRun, At, Job
  <2> QED BY <1>2, <2>1, <2>2
<1>8. ASSUME Commit(w) \/ RecordFailure(w) \/ Crash(w) PROVE Keeps
  <2>1. job' = [job EXCEPT ![w] = IdleJob]
    BY <1>8 DEF Commit, RecordFailure, Crash
  <2> QED BY <1>2, <2>1 DEF IdleJob
<1>9. ASSUME CommitAckLost(w) PROVE Keeps
  <2>1. PICK j : j = [IdleJob EXCEPT !.pc = "failing", !.kind = job[w].kind,
                          !.run = job[w].run, !.error = "SYNC_FAILED"]
    OBVIOUS
  <2>2. j.run = job[w].run /\ job' = [job EXCEPT ![w] = j] /\ HasRun(w)
    BY <1>9, <2>1 DEF CommitAckLost, IdleJob, AtCommit, At, HasRun
  <2> QED BY <1>2, <2>2
<1>10. CASE OpenRun(w)
  BY <1>1, <1>10 DEF OpenRun
<1> HIDE DEF Keeps
<1>11. ASSUME RefuseWithoutAnchor(w) \/ RefuseConflict(w) \/ CommitRejected(w) \/ TransientError(w)
       PROVE  Keeps
  BY <1>5, <1>11 DEF RefuseWithoutAnchor, RefuseConflict, CommitRejected, TransientError,
                     AtCommit, At, InTransaction
<1>12. Keeps \/ OpenRun(w)
  BY <1>3, <1>4, <1>6, <1>7, <1>8, <1>9, <1>11 DEF Start, Progress, Trouble, Record, End
<1> QED
  BY <1>10, <1>12 DEF Keeps

LEMMA RowsLeaveEarly ==
    ASSUME PruneInv, NEW w \in Workers, OpenRun(w) \/ RecordFailure(w)
    PROVE  LeavesEarly
<1>1. TypeOK /\ LegacyKept /\ LegacyRun \in RunIds
  BY LegacyRunType DEF PruneInv
<1>2. ASSUME NEW r \in RunIds \ {LegacyRun}, NEW row \in Run, runs' = [runs EXCEPT ![r] = row],
             UNCHANGED <<draws, snapshots>>
      PROVE  LeavesEarly
  BY <1>1, <1>2 DEF LeavesEarly, TypeOK
<1>3. CASE OpenRun(w)
  <2>1. PICK r \in RunIds : runs[r] = NoRun /\ runs' = [runs EXCEPT ![r] = NewRun(job[w].kind)]
    BY <1>3 DEF OpenRun
  <2>2. NewRun(job[w].kind) \in Run
    BY <1>1, JobFields DEF NewRun, Run, Statuses, Errors
  <2> QED
    BY <1>1, <1>2, <1>3, <2>1, <2>2 DEF OpenRun, LegacyKept
<1>4. CASE RecordFailure(w)
  <2>1. HasRun(w)
    BY <1>4 DEF RecordFailure, At, HasRun
  <2>2. PICK r \in RunIds \ {LegacyRun} : r = job[w].run
    BY <1>1, <2>1, RunIsOwn DEF LegacyKept, PruneInv
  <2>3. runs[r] \in Run
    <3>1. ScopedRuns[r] # NoRun /\ ScopedRuns[r] = runs[r]
      BY <2>1, <2>2 DEF PruneInv, Scoped!IInv, Scoped!WorkerInv, Scoped!OwnRun, Scoped!HasRun,
                        HasRun, ScopedRuns
    <3> QED BY <1>1, <2>2, <3>1 DEF TypeOK
  <2>4. PICK row : row = [runs[r] EXCEPT !.status = "failed", !.error = job[w].error]
    OBVIOUS
  <2>5. row \in Run
    BY <1>1, <2>3, <2>4, JobFields DEF Run, Statuses
  <2>6. runs' = [runs EXCEPT ![r] = row]
    BY <1>1, <1>4, <2>2, <2>4 DEF RecordFailure, TypeOK
  <2> QED
    BY <1>2, <1>4, <2>5, <2>6 DEF RecordFailure
<1> QED
  BY <1>3, <1>4

LEMMA BatchLeavesEarly ==
    ASSUME PruneInv, NEW w \in Workers, AtCommit(w), Insertable(w), WriteBatch(w)
    PROVE  LeavesEarly
<1>1. TypeOK /\ LegacyRun \in RunIds
  BY LegacyRunType DEF PruneInv
<1>2. PICK r \in RunIds \ {LegacyRun} : r = job[w].run
  BY RunIsOwn DEF PruneInv, LegacyKept, AtCommit, At, HasRun
<1>3. PICK p \in Batches : p = job[w].pending /\ DOMAIN p \subseteq Scope
  BY <1>1, JobFields DEF Insertable
<1>4. draws' = [i \in Issues |-> IF i \in DOMAIN p THEN p[i] ELSE draws[i]]
  BY <1>3 DEF WriteBatch
<1>5. draws' \in [Issues -> Draw \cup {NoDraw}] /\ \A i \in Issues \ Scope : draws'[i] = draws[i]
  BY <1>1, <1>3, <1>4, BatchAt DEF TypeOK
<1>6. PICK d \in Docs : d = Payload(job[w].doc) /\ DOMAIN d \subseteq Scope
  BY <1>1, JobFields, PayloadTwice DEF Records
<1>7. snapshots' = [snapshots EXCEPT ![r] = d]
  BY <1>2, <1>6 DEF WriteBatch
<1>8. runs' = [runs EXCEPT ![r] = SucceededRun(w)] /\ SucceededRun(w) \in Run
  BY <1>1, <1>2, SucceededRunTyped DEF WriteBatch
<1> QED
  BY <1>1, <1>2, <1>5, <1>6, <1>7, <1>8 DEF LeavesEarly, TypeOK

LEMMA StepLeavesEarly ==
    ASSUME PruneInv, [Next]_vars
    PROVE  LeavesEarly
<1>1. CASE UNCHANGED <<draws, runs, snapshots>>
  BY <1>1 DEF LeavesEarly, PruneInv, TypeOK
<1>2. ASSUME NEW w \in Workers, OpenRun(w) \/ RecordFailure(w) PROVE LeavesEarly
  BY <1>2, RowsLeaveEarly
<1>3. ASSUME NEW w \in Workers, Commit(w) \/ CommitAckLost(w) PROVE LeavesEarly
  BY <1>3, BatchLeavesEarly DEF Commit, CommitAckLost
<1>4. ASSUME NEW w \in Workers, Start(w) \/ Progress(w) \/ Trouble(w)
      PROVE  \/ UNCHANGED <<draws, runs, snapshots>>
             \/ OpenRun(w) \/ RecordFailure(w) \/ Commit(w) \/ CommitAckLost(w)
  BY <1>4 DEF Start, Progress, Trouble, Record, End, Fetch, ReadAnchor,
     RefuseWithoutAnchor, SkipStored, RefuseConflict, QueueInsert, CommitRejected,
     TransientError, Crash, Fail, database
<1> QED
  BY <1>1, <1>2, <1>3, <1>4 DEF Next, Publish, Revise, vars, database

-----------------------------------------------------------------------------
(* The invariant is kept                                                   *)

LEMMA EarlyIsOutside == \A i \in Issues : IsEarly(i) => i \notin Scope
  BY IssuesAreFinite, ScopeBounds DEF IsEarly, Scope

LEMMA WorkersKeep == PruneInv /\ [Next]_vars /\ UNCHANGED maintenance => PruneInv'
<1> SUFFICES ASSUME PruneInv, [Next]_vars, UNCHANGED <<prune, explained, pruned>>
             PROVE  PruneInv'
  BY DEF maintenance
<1>1. Scoped!IInv'
  BY StepMaps, ScopedNext DEF PruneInv
<1>2. LeavesEarly
  BY StepLeavesEarly
<1>3. TypeOK'
  <2>1. feed' \in Docs /\ revisions' \in Nat /\ job' \in [Workers -> Job]
    BY <1>1, SameTypes DEF Scoped!IInv, Scoped!TypeOK
  <2> QED BY <1>2, <2>1 DEF TypeOK, LeavesEarly
<1>4. \A w \in Workers : HasRun(w)' => job'[w].run # LegacyRun
  <2> SUFFICES ASSUME NEW w \in Workers, HasRun(w)' PROVE job'[w].run # LegacyRun
    OBVIOUS
  <2>1. TypeOK /\ LegacyKept
    BY DEF PruneInv
  <2>2. CASE OpenRun(w)
    BY <2>1, <2>2 DEF OpenRun, LegacyKept, TypeOK
  <2>3. CASE job'[w] = job[w]
    BY <2>1, <2>3 DEF LegacyKept, HasRun
  <2>4. CASE \E v \in Workers : Start(v) \/ Progress(v) \/ Trouble(v)
    BY <2>1, <2>2, <2>3, <2>4, KeepsItsRun DEF LegacyKept
  <2> QED
    BY <2>3, <2>4 DEF Next, Publish, Revise, vars, database
<1>5. LegacyKept'
  BY <1>2, <1>4 DEF PruneInv, LegacyKept, LeavesEarly
<1>6. \A i \in Issues : IsEarly(i) => i \notin Scope
  BY EarlyIsOutside
<1>7. Stored' \ Scope = Stored \ Scope
  BY <1>2 DEF LeavesEarly, Stored
<1>8. EarlyIsLegacy'
  BY <1>2, <1>7 DEF PruneInv, EarlyIsLegacy, LeavesEarly, Stored, IsEarly, Scope
<1>9. \A r \in RunIds : snapshots'[r] = snapshots[r]
         \/ (r \notin Affected /\ r \notin Affected')
  <2> SUFFICES ASSUME NEW r \in RunIds, snapshots'[r] # snapshots[r]
               PROVE  r \notin Affected /\ r \notin Affected'
    OBVIOUS
  <2>1. /\ DOMAIN snapshots'[r] \subseteq Scope
        /\ snapshots[r] # NoSnapshot => DOMAIN snapshots[r] \subseteq Scope
    BY <1>2 DEF PruneInv, EarlyIsLegacy, LeavesEarly
  <2>2. \A i \in Scope : ~ IsEarly(i)
    BY <1>6 DEF Scope
  <2>3. r \notin Affected
    BY <2>1, <2>2 DEF Affected
  <2>4. Affected' = {x \in RunIds : snapshots'[x] # NoSnapshot /\ \E i \in DOMAIN snapshots'[x] : IsEarly(i)}
    BY DEF Affected, IsEarly
  <2> QED
    BY <2>1, <2>2, <2>3, <2>4
<1>10. ReadIsCurrent'
  <2>1. {i \in Stored : IsEarly(i)}' = {i \in Stored : IsEarly(i)}
    BY <1>6, <1>7 DEF IsEarly, Stored
  <2>2. \A r \in RunIds :
          IF r \in Affected' THEN r \in Affected /\ Retained(snapshots'[r]) = Retained(snapshots[r])
          ELSE r \notin Affected
    BY <1>9 DEF Affected
  <2> QED
    BY <2>1, <2>2 DEF PruneInv, ReadIsCurrent, Retained
<1>11. PrunedForGood'
  BY <1>2, <1>7 DEF PruneInv, PrunedForGood, Constrainable, LeavesEarly, Scope
<1> QED
  BY <1>1, <1>3, <1>5, <1>8, <1>10, <1>11 DEF PruneInv, ExplainedInv

(* The prune removes nothing the scope shows. *)
LEMMA RetainedFacts ==
    ASSUME NEW d \in Docs
    PROVE  /\ Retained(d) \in Docs /\ DOMAIN Retained(d) = {i \in DOMAIN d : ~ IsEarly(i)}
           /\ \A i \in DOMAIN Retained(d) : Retained(d)[i] = d[i]
           /\ Records(Retained(d)) = Records(d) /\ Payload(Retained(d)) = Payload(d)
<1>1. \A i \in DOMAIN d \cap Scope : ~ IsEarly(i)
  BY EarlyIsOutside DEF Scope
<1>2. /\ DOMAIN Retained(d) = {i \in DOMAIN d : ~ IsEarly(i)}
      /\ \A i \in DOMAIN Retained(d) : Retained(d)[i] = d[i]
  BY DEF Retained
<1>3. Retained(d) \in Docs
  BY DocRestriction DEF Retained
<1>4. Records(Retained(d)) = Records(d)
  BY <1>1, <1>2 DEF Records
<1>5. Payload(Retained(d)) = Payload(d)
  BY <1>2, <1>4 DEF Payload, Records
<1> QED
  BY <1>2, <1>3, <1>4, <1>5

LEMMA PruneCommitsKeeps == PruneInv /\ PruneCommits => PruneInv'
<1> SUFFICES ASSUME PruneInv, PruneCommits PROVE PruneInv'
  OBVIOUS
<1>1. /\ TypeOK /\ LegacyKept /\ EarlyIsLegacy /\ ReadIsCurrent /\ ExplainedInv
      /\ prune.pc = "read" /\ LegacyRun \in RunIds
  BY LegacyRunType DEF PruneInv, PruneCommits
<1>2. UNCHANGED <<feed, revisions, runs, job>>
  BY DEF PruneCommits, source
<1>3. \A i \in Issues : draws'[i] = IF i \in Stored /\ IsEarly(i) THEN NoDraw ELSE draws[i]
  BY <1>1 DEF PruneCommits, ReadIsCurrent
<1>4. \A r \in RunIds :
         snapshots'[r] = IF r \in Affected THEN Retained(snapshots[r]) ELSE snapshots[r]
  <2> SUFFICES ASSUME NEW r \in RunIds
               PROVE  snapshots'[r] = IF r \in Affected THEN Retained(snapshots[r])
                                      ELSE snapshots[r]
    OBVIOUS
  <2>1. snapshots'[r] = IF prune.rewritten[r] # NoSnapshot
                        THEN prune.rewritten[r] ELSE snapshots[r]
    BY DEF PruneCommits
  <2>2. prune.rewritten[r] = IF r \in Affected THEN Retained(snapshots[r]) ELSE NoSnapshot
    BY <1>1 DEF ReadIsCurrent
  <2>3. r \in Affected => Retained(snapshots[r]) # NoSnapshot
    <3>1. r \in Affected => snapshots[r] \in Docs
      BY <1>1 DEF Affected, TypeOK
    <3>2. \A d \in Docs : Retained(d) # NoSnapshot
      BY RetainedFacts, AbsentValues
    <3> QED BY <3>1, <3>2
  <2> QED BY <2>1, <2>2, <2>3
<1>5. \A i \in Issues : IsEarly(i) => i \notin Scope
  BY EarlyIsOutside
<1>6. \A r \in RunIds :
         IF snapshots[r] = NoSnapshot THEN snapshots'[r] = NoSnapshot
         ELSE /\ snapshots'[r] \in Docs
              /\ DOMAIN snapshots'[r] = {i \in DOMAIN snapshots[r] : ~ IsEarly(i)}
              /\ \A i \in DOMAIN snapshots'[r] : snapshots'[r][i] = snapshots[r][i]
              /\ Records(snapshots'[r]) = Records(snapshots[r])
              /\ Payload(snapshots'[r]) = Payload(snapshots[r])
  <2> SUFFICES ASSUME NEW r \in RunIds, snapshots[r] # NoSnapshot, NEW d \in Docs, d = snapshots[r]
               PROVE  /\ snapshots'[r] \in Docs
                      /\ DOMAIN snapshots'[r] = {i \in DOMAIN d : ~ IsEarly(i)}
                      /\ \A i \in DOMAIN snapshots'[r] : snapshots'[r][i] = d[i]
                      /\ Records(snapshots'[r]) = Records(d)
                      /\ Payload(snapshots'[r]) = Payload(d)
    BY <1>1, <1>4 DEF TypeOK, Affected
  <2>1. CASE r \in Affected
    BY <1>4, <2>1, RetainedFacts
  <2>2. CASE r \notin Affected
    BY <1>4, <2>2 DEF Affected
  <2> QED BY <2>1, <2>2
<1>7. TypeOK'
  <2>1. draws' \in [Issues -> Draw \cup {NoDraw}]
    BY <1>1, <1>3 DEF PruneCommits, TypeOK
  <2>2. snapshots' \in [RunIds -> Docs \cup {NoSnapshot}]
    BY <1>1, <1>6 DEF PruneCommits, TypeOK
  <2> QED BY <1>1, <1>2, <2>1, <2>2 DEF TypeOK
<1>8. Scoped!IInv'
  <2>1. ScopedDraws' = ScopedDraws
    BY <1>3, <1>5 DEF ScopedDraws, Scope
  <2>2. ScopedSnapshots' = ScopedSnapshots
    <3>1. \A r \in RunIds : ScopedSnapshots'[r] =
            IF snapshots'[r] = NoSnapshot THEN NoSnapshot ELSE Payload(snapshots'[r])
      BY DEF ScopedSnapshots, Payload, Records
    <3>2. \A r \in RunIds : ScopedSnapshots'[r] = ScopedSnapshots[r]
      BY <1>6, <3>1, AbsentValues DEF ScopedSnapshots
    <3> QED BY <3>2 DEF ScopedSnapshots
  <2>3. ScopedRuns' = ScopedRuns
    <3>1. Records(snapshots'[LegacyRun]) = Records(snapshots[LegacyRun])
      BY <1>1, <1>6 DEF LegacyKept
    <3>2. ScopedLegacyRow' = ScopedLegacyRow
      BY <3>1 DEF ScopedLegacyRow, LegacyCount, Records
    <3> QED BY <1>2, <3>2 DEF ScopedRuns
  <2>4. UNCHANGED Scoped!vars
    BY <1>2, <2>1, <2>2, <2>3 DEF Scoped!vars
  <2> QED BY <2>4, ScopedNext DEF PruneInv
<1>9. LegacyKept'
  <2>1. snapshots'[LegacyRun] # NoSnapshot /\ DOMAIN snapshots'[LegacyRun] \subseteq DOMAIN snapshots[LegacyRun]
    BY <1>1, <1>6, AbsentValues DEF LegacyKept
  <2> QED BY <1>1, <1>2, <2>1 DEF LegacyKept, HasRun
<1>10. Constrainable'
  BY <1>1, <1>3 DEF Constrainable, EarlyIsLegacy, Stored, Scope
<1>11. \A r \in RunIds : snapshots'[r] # NoSnapshot => DOMAIN snapshots'[r] \subseteq Scope
  <2> SUFFICES ASSUME NEW r \in RunIds, snapshots'[r] # NoSnapshot
               PROVE  DOMAIN snapshots'[r] \subseteq Scope
    OBVIOUS
  <2>1. snapshots[r] # NoSnapshot /\ DOMAIN snapshots'[r] = {i \in DOMAIN snapshots[r] : ~ IsEarly(i)}
    BY <1>6
  <2>2. CASE r # LegacyRun
    BY <1>1, <2>1, <2>2 DEF EarlyIsLegacy
  <2>3. CASE r = LegacyRun
    <3>1. DOMAIN snapshots[r] \subseteq Issues /\ \A i \in DOMAIN snapshots[r] : i <= LastIssue
      BY <1>1, <2>1, <2>3, DocAt DEF TypeOK, LegacyKept
    <3>2. \A i \in Issues : i <= LastIssue /\ ~ IsEarly(i) => i \in Scope
      BY IssuesAreFinite, ScopeBounds DEF IsEarly, Scope
    <3> QED BY <2>1, <3>1, <3>2
  <2> QED BY <2>2, <2>3
<1>12. EarlyIsLegacy'
  BY <1>10, <1>11 DEF EarlyIsLegacy, Constrainable, Scope
<1>13. ReadIsCurrent'
  BY DEF ReadIsCurrent, PruneCommits, NoPrune
<1>14. explained' = {"current"}
  BY <1>1 DEF ExplainedInv, PruneCommits, CurrentExplained, Versions
<1> QED
  BY <1>7, <1>8, <1>9, <1>10, <1>11, <1>12, <1>13, <1>14
     DEF PruneInv, ExplainedInv, PrunedForGood, Versions, Constrainable, Scope

LEMMA PruneReadsKeeps == PruneInv /\ (PruneReads \/ PruneDies) => PruneInv'
<1> SUFFICES ASSUME PruneInv, PruneReads \/ PruneDies PROVE PruneInv'
  OBVIOUS
<1>1. UNCHANGED <<feed, revisions, draws, runs, snapshots, job, explained, pruned>>
  BY DEF PruneReads, PruneDies, vars
<1>2. ReadIsCurrent'
  <2>1. CASE PruneDies
    BY <2>1 DEF PruneDies, NoPrune, ReadIsCurrent
  <2>2. CASE PruneReads
    <3>1. Stored' = Stored /\ Affected' = Affected
      BY <1>1 DEF Stored, Affected
    <3>2. /\ prune'.early = {i \in Stored : IsEarly(i)}
          /\ prune'.rewritten = [r \in RunIds |->
                 IF r \in Affected THEN Retained(snapshots[r]) ELSE NoSnapshot]
      BY <2>2 DEF PruneReads
    <3> QED BY <1>1, <3>1, <3>2 DEF ReadIsCurrent, IsEarly, Retained
  <2> QED BY <2>1, <2>2
<1>3. Scoped!IInv'
  <2>1. UNCHANGED Scoped!vars
    BY <1>1 DEF Scoped!vars, ScopedDraws, ScopedRuns, ScopedSnapshots, ScopedLegacyRow, LegacyCount
  <2> QED BY <2>1, ScopedNext DEF PruneInv
<1> QED
  BY <1>1, <1>2, <1>3 DEF PruneInv, TypeOK, LegacyKept, EarlyIsLegacy, ExplainedInv, PrunedForGood,
     Constrainable, Stored, HasRun

-----------------------------------------------------------------------------
(* The invariant holds at first                                            *)

LEMMA PruneInvInit == MaintenanceInit => PruneInv
<1> SUFFICES ASSUME MaintenanceInit PROVE PruneInv
  OBVIOUS
<1>1. PICK old \in SUBSET {i \in Issues : i <= LastIssue}, b \in Bodies :
        /\ feed = [i \in old |-> b] /\ revisions = 0
        /\ draws = [i \in Issues |->
               IF i \in old THEN [body |-> b, anchor |-> Pet[i], kind |-> "history", run |-> LegacyRun]
               ELSE NoDraw]
        /\ runs = [r \in RunIds |->
               IF r = LegacyRun
               THEN [NewRun("history") EXCEPT !.status = "succeeded",
                        !.fetched = Cardinality(old), !.inserted = Cardinality(old)]
               ELSE NoRun]
        /\ snapshots = [r \in RunIds |-> IF r = LegacyRun THEN [i \in old |-> b] ELSE NoSnapshot]
        /\ job = [w \in Workers |-> IdleJob]
        /\ prune = NoPrune /\ explained = Versions /\ pruned = FALSE
  BY DEF MaintenanceInit
<1> DEFINE doc == [i \in old |-> b]
           row(i) == [body |-> b, anchor |-> Pet[i], kind |-> "history", run |-> LegacyRun]
           legacy == [NewRun("history") EXCEPT !.status = "succeeded",
                        !.fetched = Cardinality(old), !.inserted = Cardinality(old)]
<1>2. old \subseteq Issues /\ \A i \in old : i <= LastIssue
  OBVIOUS
<1>3. doc \in Docs /\ DOMAIN doc = old /\ \A i \in old : doc[i] = b
  BY <1>2 DEF Docs
<1>4. \A i \in old : /\ row(i) \in Draw /\ row(i) # NoDraw
                     /\ row(i).body = b /\ row(i).anchor = Pet[i]
                     /\ row(i).kind = "history" /\ row(i).run = LegacyRun
  <2>1. \A i \in old : row(i) \in Draw
    BY <1>2, PetType, LegacyRunType DEF Draw, Kinds
  <2> QED BY <2>1, AbsentValues
<1>5. legacy \in Run /\ legacy # NoRun
  <2>1. Cardinality(old) \in Nat
    BY <1>2, IssuesAreFinite, FS_Subset, FS_CardinalityType
  <2>2. legacy \in Run
    BY <2>1 DEF NewRun, Run, Kinds, Statuses, Errors
  <2> QED BY <2>2, AbsentValues
<1>6. /\ \A i \in old : draws[i] = row(i)
      /\ \A i \in Issues \ old : draws[i] = NoDraw
      /\ Stored = old
  BY <1>1, <1>2, <1>4 DEF Stored
<1>7. /\ runs[LegacyRun] = legacy /\ \A r \in RunIds \ {LegacyRun} : runs[r] = NoRun
      /\ snapshots[LegacyRun] = doc /\ \A r \in RunIds \ {LegacyRun} : snapshots[r] = NoSnapshot
      /\ doc # NoSnapshot
  BY <1>1, <1>3, LegacyRunType, AbsentValues
<1> HIDE DEF doc, row, legacy
<1>8. TypeOK
  <2>1. draws \in [Issues -> Draw \cup {NoDraw}]
    BY <1>1, <1>4, <1>6
  <2>2. runs \in [RunIds -> Run \cup {NoRun}]
    BY <1>1, <1>5, <1>7
  <2>3. snapshots \in [RunIds -> Docs \cup {NoSnapshot}]
    BY <1>1, <1>3, <1>7
  <2>4. feed \in Docs /\ revisions \in Nat /\ job \in [Workers -> Job]
    BY <1>1, <1>3, IdleJobTyped DEF doc
  <2> QED BY <2>1, <2>2, <2>3, <2>4 DEF TypeOK
<1>9. \A w \in Workers : job[w].pc = "idle"
  BY <1>1 DEF IdleJob
<1>10. LegacyKept
  BY <1>2, <1>3, <1>5, <1>7, <1>9 DEF LegacyKept, HasRun
<1>11. EarlyIsLegacy
  <2>1. \A i \in old \ Scope : IsEarly(i)
    BY <1>2, IssuesAreFinite, ScopeBounds DEF IsEarly, Scope
  <2> QED BY <1>3, <1>4, <1>6, <1>7, <2>1 DEF EarlyIsLegacy
<1>12. ReadIsCurrent /\ ExplainedInv /\ PrunedForGood
  BY <1>1 DEF ReadIsCurrent, NoPrune, ExplainedInv, Versions, PrunedForGood
<1>13. Scoped!IInv
  <2> DEFINE mine == old \cap Scope
  <2>1. Records(doc) = mine /\ Payload(doc) \in Docs /\ DOMAIN Payload(doc) = mine
        /\ \A i \in mine : Payload(doc)[i] = b
    BY <1>3, PayloadTyped DEF Payload, Records
  <2>2. LegacyCount = Cardinality(mine) /\ Cardinality(mine) \in Nat
    BY <1>2, <1>7, <2>1, IssuesAreFinite, FS_Subset, FS_CardinalityType DEF LegacyCount
  <2>3. /\ \A i \in mine : ScopedDraws[i] = row(i)
        /\ \A i \in Issues \ mine : ScopedDraws[i] = NoDraw
        /\ Scoped!Stored = mine
    BY <1>2, <1>6, SameReading DEF ScopedDraws
  <2>4. /\ ScopedRuns[LegacyRun] = ScopedLegacyRow /\ ScopedLegacyRow \in Run /\ ScopedLegacyRow # NoRun
        /\ \A r \in RunIds \ {LegacyRun} : ScopedRuns[r] = NoRun
    <3>1. ScopedLegacyRow \in Run
      BY <2>2 DEF ScopedLegacyRow, Run, Kinds, Statuses, Errors
    <3> QED BY <1>7, <3>1, LegacyRunType, AbsentValues DEF ScopedRuns
  <2>5. /\ ScopedSnapshots[LegacyRun] = Payload(doc) /\ Payload(doc) # NoSnapshot
        /\ \A r \in RunIds \ {LegacyRun} : ScopedSnapshots[r] = NoSnapshot
    BY <1>7, <2>1, LegacyRunType, AbsentValues DEF ScopedSnapshots
  <2> HIDE DEF mine
  <2>6. Scoped!TypeOK
    <3>1. ScopedDraws \in [Issues -> Draw \cup {NoDraw}]
      BY <1>8 DEF ScopedDraws, TypeOK
    <3>2. ScopedRuns \in [RunIds -> Run \cup {NoRun}]
      BY <1>8, <2>4 DEF ScopedRuns, TypeOK
    <3>3. ScopedSnapshots \in [RunIds -> Docs \cup {NoSnapshot}]
      BY <1>8, PayloadTyped DEF ScopedSnapshots, TypeOK
    <3> QED BY <1>8, <3>1, <3>2, <3>3, SameTypes DEF Scoped!TypeOK, TypeOK
  <2>7. \A w \in Workers : Scoped!WorkerInv(w)
    BY <1>9, Scoped!NothingAtStake, SameAssumptions
  <2>8. Scoped!RunsApart
    BY <1>9 DEF Scoped!RunsApart, Scoped!HasRun
  <2>9. \A r : Scoped!DrawsOf(r) = IF r = LegacyRun THEN mine ELSE {}
    BY <1>4, <2>3 DEF Scoped!DrawsOf, mine
  <2>10. Scoped!FreeRunsUnseen
    BY <2>4, <2>5, <2>9 DEF Scoped!FreeRunsUnseen, Scoped!Unseen
  <2>11. Scoped!AnchorsConfirmed
    BY <1>4, <2>3 DEF Scoped!AnchorsConfirmed, mine
  <2>12. Scoped!DrawsTraceable
    <3>1. ScopedLegacyRow.kind = "history"
      BY DEF ScopedLegacyRow
    <3>2. \A r \in RunIds : ScopedSnapshots[r] # NoSnapshot => DOMAIN ScopedSnapshots[r] \subseteq Scope
      BY <2>1, <2>5 DEF mine
    <3>3. \A i \in Scoped!Stored : ScopedDraws[i].run = LegacyRun /\ ScopedDraws[i].kind = "history"
                                  /\ ScopedDraws[i].body = b
      BY <1>4, <2>3 DEF mine
    <3> QED BY <2>1, <2>3, <2>4, <2>5, <3>1, <3>2, <3>3, SameTypes DEF Scoped!DrawsTraceable
  <2>13. \A r \in RunIds : Scoped!Succeeded(r) => r = LegacyRun
    BY <2>4 DEF Scoped!Succeeded
  <2>14. Scoped!SucceededRunsAgree
    BY <1>4, <2>1, <2>3, <2>5, <2>13 DEF Scoped!SucceededRunsAgree, mine
  <2>15. Scoped!CountsTellTheTruth
    <3>1. /\ ScopedLegacyRow.inserted = Cardinality(mine) /\ ScopedLegacyRow.fetched = Cardinality(mine)
          /\ ScopedLegacyRow.skipped = 0
      BY <2>2 DEF ScopedLegacyRow
    <3> QED BY <2>1, <2>2, <2>4, <2>5, <2>9, <2>13, <3>1, SameSets DEF Scoped!CountsTellTheTruth
  <2> QED
    BY <2>6, <2>7, <2>8, <2>10, <2>11, <2>12, <2>14, <2>15 DEF Scoped!IInv, Scoped!DrawsInv
<1> QED
  BY <1>8, <1>10, <1>11, <1>12, <1>13 DEF PruneInv

-----------------------------------------------------------------------------
(* Theorems                                                                *)

LEMMA PruneInvNext == PruneInv /\ [MaintenanceNext]_allVars => PruneInv'
<1>1. PruneInv /\ Next /\ UNCHANGED maintenance => PruneInv'
  BY WorkersKeep
<1>2. PruneInv /\ UNCHANGED allVars => PruneInv'
  BY WorkersKeep DEF allVars
<1> QED
  BY <1>1, <1>2, PruneReadsKeeps, PruneCommitsKeeps DEF MaintenanceNext

(* The invariant holds in every reachable state, whatever the workers and  *)
(* any number of prunes do to each other.                                  *)
THEOREM PruneInvariance == MaintenanceSpec => []PruneInv
<1>1. MaintenanceSpec => MaintenanceInit /\ [][MaintenanceNext]_allVars
  BY PTL DEF MaintenanceSpec
<1> QED
  BY <1>1, PruneInvInit, PruneInvNext, PTL

(* Once a prune is committed nothing early comes back to the draws, the    *)
(* snapshots or the explanations, whatever was being synchronized while it *)
(* ran: migration 0002 can add its constraint (maintenance.py 31-62).      *)
THEOREM PrunedForGoodHolds == MaintenanceSpec => []PrunedForGood
<1>1. PruneInv => PrunedForGood
  BY DEF PruneInv
<1> QED
  BY <1>1, PruneInvariance, PTL

(* Before, between and after prunes every stored draw is what the snapshot *)
(* of its run says (maintenance.py 51-62, ingestion.py 59-61).             *)
THEOREM StayTraceableHolds == MaintenanceSpec => []StayTraceable
<1>1. PruneInv => StayTraceable
  <2> SUFFICES ASSUME PruneInv, NEW i \in Stored
               PROVE  /\ snapshots[draws[i].run] # NoSnapshot
                      /\ i \in DOMAIN snapshots[draws[i].run]
                      /\ snapshots[draws[i].run][i] = draws[i].body
    BY DEF StayTraceable
  <2>1. TypeOK /\ Scoped!IInv /\ LegacyKept /\ EarlyIsLegacy
    BY DEF PruneInv
  <2>2. CASE i \notin Scope
    BY <2>1, <2>2 DEF EarlyIsLegacy, LegacyKept
  <2>3. CASE i \in Scope
    <3>1. i \in Scoped!Stored /\ ScopedDraws[i] = draws[i]
      BY <2>3, SameReading
    <3>2. PICK r \in RunIds : r = draws[i].run
      BY <2>1 DEF TypeOK, Stored, Draw
    <3>3. /\ ScopedSnapshots[r] # NoSnapshot
          /\ i \in DOMAIN ScopedSnapshots[r]
          /\ ScopedSnapshots[r][i] = draws[i].body
      BY <2>1, <3>1, <3>2 DEF Scoped!IInv, Scoped!DrawsInv, Scoped!DrawsTraceable
    <3>4. snapshots[r] # NoSnapshot /\ ScopedSnapshots[r] = Payload(snapshots[r])
      BY <3>3 DEF ScopedSnapshots
    <3> QED
      BY <3>2, <3>3, <3>4 DEF Payload, Records
  <2> QED
    BY <2>2, <2>3
<1> QED
  BY <1>1, PruneInvariance, PTL

(* What a succeeded run of this version reports stays true beside any      *)
(* number of prunes (ingestion.py 100-103, maintenance.py 51-62).          *)
THEOREM NewCountsAlwaysTrue == MaintenanceSpec => []NewCountsTellTheTruth
<1>1. PruneInv => NewCountsTellTheTruth
  <2> SUFFICES ASSUME PruneInv, NEW r \in RunIds \ {LegacyRun}, Succeeded(r)
               PROVE  /\ runs[r].inserted = Cardinality(DrawsOf(r))
                      /\ runs[r].fetched = Cardinality(DOMAIN snapshots[r])
                      /\ runs[r].inserted + runs[r].skipped = runs[r].fetched
    BY DEF NewCountsTellTheTruth
  <2>1. TypeOK /\ Scoped!IInv /\ EarlyIsLegacy
    BY DEF PruneInv
  <2>2. ScopedRuns[r] = runs[r]
    BY DEF ScopedRuns
  <2>3. Scoped!Succeeded(r)
    BY <2>2 DEF Scoped!Succeeded, Succeeded
  <2>4. /\ runs[r].inserted = Cardinality(Scoped!DrawsOf(r))
        /\ runs[r].fetched = Cardinality(DOMAIN ScopedSnapshots[r])
        /\ runs[r].inserted + runs[r].skipped = runs[r].fetched
        /\ ScopedSnapshots[r] # NoSnapshot
    BY <2>1, <2>2, <2>3, SameSets
       DEF Scoped!IInv, Scoped!DrawsInv, Scoped!CountsTellTheTruth, Scoped!SucceededRunsAgree
  <2>5. Scoped!DrawsOf(r) = DrawsOf(r)
    BY <2>1, SameReading DEF Scoped!DrawsOf, DrawsOf, EarlyIsLegacy
  <2>6. DOMAIN ScopedSnapshots[r] = DOMAIN snapshots[r]
    BY <2>1, <2>4 DEF ScopedSnapshots, EarlyIsLegacy, Payload, Records
  <2> QED
    BY <2>4, <2>5, <2>6
<1> QED
  BY <1>1, PruneInvariance, PTL

(* Readers of the approved scope see nothing of a prune: theirs is a       *)
(* ledger that only grows, by whole batches, beside any number of them.    *)
THEOREM PruneIsInvisibleHolds == MaintenanceSpec => PruneIsInvisible
<1>1. PruneInv /\ [MaintenanceNext]_allVars => [ScopeLedger!Next]_ScopeView
  <2> SUFFICES ASSUME PruneInv, [MaintenanceNext]_allVars
               PROVE  ScopeLedger!Next \/ UNCHANGED ScopeView
    OBVIOUS
  <2>1. CASE [Next]_vars
    BY <2>1, StepMaps, ScopedLedgerStep DEF PruneInv
  <2>2. CASE PruneCommits
    <3>1. \A i \in Scope : i \in Issues /\ draws'[i] = draws[i]
      BY <2>2, EarlyIsOutside DEF PruneInv, PruneCommits, ReadIsCurrent, Scope
    <3> QED
      BY <3>1 DEF ScopeView, LedgerView, Scope
  <2> QED
    BY <2>1, <2>2 DEF MaintenanceNext, allVars, PruneReads, PruneDies
<1>2. MaintenanceSpec => [][MaintenanceNext]_allVars
  BY PTL DEF MaintenanceSpec
<1> QED
  BY <1>1, <1>2, PruneInvariance, PTL DEF PruneIsInvisible
=============================================================================
