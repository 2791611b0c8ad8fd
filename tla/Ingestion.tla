------------------------------ MODULE Ingestion ------------------------------
(***************************************************************************)
(* Draw synchronization: ingestion.py over PostgreSQL at READ COMMITTED,   *)
(* fed by source.py.                                                       *)
(*                                                                         *)
(* A worker is whatever runs one synchronization: the scheduler process, a *)
(* request thread of POST /api/v1/admin/sync/{kind}, or the command line.  *)
(* Nothing serializes workers; they meet only in the database.  A worker   *)
(* fetches and parses first, then inserts its run row in a transaction of  *)
(* its own, and then works in a second transaction that holds the          *)
(* snapshot, the new draws and the end of the run.  Each statement of that *)
(* transaction sees what is committed when it executes, and nobody sees    *)
(* the transaction before it commits.                                      *)
(*                                                                         *)
(* A draw's numbers and opening time are one value, its body.              *)
(***************************************************************************)
EXTENDS Integers, FiniteSets

CONSTANTS
    Workers,         \* processes and request threads that synchronize
    RunIds,          \* identifiers for rows of source_sync_runs (bounds the runs)
    Issues,          \* issue identifiers, ordered as integers
    FirstIssue,      \* data_start_issue_id, the first issue in scope
    LastIssue,       \* the last issue of the data year
    Window,          \* how many rows the current interface returns
    Bodies,          \* numbers and opening time of a draw
    Anchors,         \* zodiac animals
    Pet,             \* Pet[i]: the anchor the history interface gives for issue i
    OpenTime,        \* OpenTime[i][b]: the opening time of issue i with body b
    MaxRevisions,    \* bound: how often the source may correct a published draw
    CrashesHappen,   \* may a worker die at any point
    AcksGetLost,     \* may a commit take effect and still be reported as failed
    NoRun, NoDraw, NoSnapshot, NoAnchor      \* absent values

Kinds == {"history", "current"}
Scope == {i \in Issues : FirstIssue <= i /\ i <= LastIssue}

(* What the source serves and what a snapshot keeps: a body for each issue present. *)
Docs == UNION {[S -> Bodies] : S \in SUBSET Issues}

Draw == [body : Bodies, anchor : Anchors, kind : Kinds, run : RunIds]
Statuses == {"running", "succeeded", "failed"}
Errors == {"none", "ZODIAC_ANCHOR_UNAVAILABLE", "DRAW_CONFLICT", "SYNC_FAILED"}
Run == [kind : Kinds, status : Statuses, error : Errors,
        fetched : Nat, inserted : Nat, skipped : Nat]
Batches == UNION {[S -> Draw] : S \in SUBSET Issues}

Stages == {"idle", "received", "opened", "looping", "failing"}
Job == [pc : Stages, kind : Kinds, doc : Docs, run : RunIds \cup {NoRun},
        latest : Anchors \cup {NoAnchor}, todo : SUBSET Issues,
        pending : Batches, inserted : Nat, skipped : Nat, error : Errors]

ASSUME IssuesAreFinite == IsFiniteSet(Issues) /\ Issues \subseteq Int
ASSUME ScopeBounds == FirstIssue \in Int /\ LastIssue \in Int
ASSUME PetType == Pet \in [Issues -> Anchors]
ASSUME OpenTimeType == OpenTime \in [Issues -> [Bodies -> Int]]
ASSUME WindowType == Window \in Nat \ {0}
ASSUME AbsentValues ==
    NoRun \notin Run \cup RunIds
    /\ NoDraw \notin Draw \cup [body : Bodies, anchor : Anchors, kind : Kinds]
    /\ NoSnapshot \notin Docs /\ NoAnchor \notin Anchors

VARIABLES
    feed,        \* the source: what it has published, a Docs value
    revisions,   \* how many published draws it has corrected
    draws,       \* draw_records: [Issues -> Draw \cup {NoDraw}]
    runs,        \* source_sync_runs: [RunIds -> Run \cup {NoRun}]
    snapshots,   \* raw_source_snapshots, by the run that wrote them
    job          \* each worker's local state: [Workers -> Job]

source == <<feed, revisions>>
database == <<draws, runs, snapshots>>
vars == <<feed, revisions, draws, runs, snapshots, job>>

NoRows == [i \in {} |-> NoDraw]
IdleJob == [pc |-> "idle", kind |-> "current", doc |-> NoRows, run |-> NoRun,
            latest |-> NoAnchor, todo |-> {}, pending |-> NoRows,
            inserted |-> 0, skipped |-> 0, error |-> "none"]
NewRun(kind) == [kind |-> kind, status |-> "running", error |-> "none",
                 fetched |-> 0, inserted |-> 0, skipped |-> 0]

Init ==
    /\ feed = NoRows
    /\ revisions = 0
    /\ draws = [i \in Issues |-> NoDraw]
    /\ runs = [r \in RunIds |-> NoRun]
    /\ snapshots = [r \in RunIds |-> NoSnapshot]
    /\ job = [w \in Workers |-> IdleJob]

-----------------------------------------------------------------------------
(* The source                                                              *)

Published == DOMAIN feed
LatestPublished == {i \in Published : Cardinality({k \in Published : k > i}) < Window}

(* The history interface returns everything, the current one its last rows. *)
Served(kind) ==
    IF kind = "history" THEN feed ELSE [i \in LatestPublished |-> feed[i]]

Publish ==
    /\ \E i \in Issues \ Published, b \in Bodies :
        /\ \A k \in Issues : k < i <=> k \in Published
        /\ feed' = [k \in Published \cup {i} |-> IF k = i THEN b ELSE feed[k]]
    /\ UNCHANGED <<revisions, database, job>>

(* The operator of the source corrects a draw it has already published. *)
Revise ==
    /\ revisions < MaxRevisions
    /\ revisions' = revisions + 1
    /\ \E i \in Published, b \in Bodies : feed[i] # b /\ feed' = [feed EXCEPT ![i] = b]
    /\ UNCHANGED <<database, job>>

-----------------------------------------------------------------------------
(* What one synchronization computes                                       *)

(* The issues that survive parsing: the others are skipped, not refused. *)
Records(doc) == DOMAIN doc \cap Scope

(* A faulty variant.  Here and below these stand before the definition     *)
(* they replace when the properties' strength is measured.                 *)
UnfilteredPayload(doc) == doc

(* The snapshot keeps only the rows that survived parsing. *)
Payload(doc) == [i \in Records(doc) |-> doc[i]]

Stored == {i \in Issues : draws[i] # NoDraw}

(* Records are taken in the order of opening time, then issue. *)
Precedes(i, b, k, c) ==
    OpenTime[i][b] < OpenTime[k][c] \/ (OpenTime[i][b] = OpenTime[k][c] /\ i < k)

(* The anchor of the newest stored draw in scope, NoAnchor when there is none. *)
LatestAnchor ==
    IF Stored \cap Scope = {} THEN {NoAnchor}
    ELSE {draws[i].anchor : i \in {n \in Stored \cap Scope :
            \A k \in (Stored \cap Scope) \ {n} :
                Precedes(k, draws[k].body, n, draws[n].body)}}

IsNext(w, i) ==
    /\ i \in job[w].todo
    /\ \A k \in job[w].todo \ {i} :
        Precedes(i, job[w].doc[i], k, job[w].doc[k])

AnchorFromIssue(w, i) == Pet[i]

(* The record's own anchor, or for the current interface the inherited one. *)
AnchorFor(w, i) == IF job[w].kind = "history" THEN Pet[i] ELSE job[w].latest

SameNumbers(d, b, a) == d.body = b

SameDraw(d, b, a) == d.body = b /\ d.anchor = a

-----------------------------------------------------------------------------
(* The steps of a worker                                                   *)

At(w, stage) == job[w].pc = stage

(* Fetch and parse, before any row is written.  A fetch with no usable     *)
(* answer in two attempts, or a document that does not parse, leaves no    *)
(* trace in the database: it is not a step.                                *)
Fetch(w, kind) ==
    /\ At(w, "idle")
    /\ job' = [job EXCEPT ![w] = [IdleJob EXCEPT
                  !.pc = "received", !.kind = kind, !.doc = Served(kind)]]
    /\ UNCHANGED <<source, database>>

(* The run row, status running, in a transaction of its own. *)
OpenRun(w) ==
    /\ At(w, "received")
    /\ \E r \in RunIds :
        /\ runs[r] = NoRun
        /\ runs' = [runs EXCEPT ![r] = NewRun(job[w].kind)]
        /\ job' = [job EXCEPT ![w] = [@ EXCEPT !.pc = "opened", !.run = r]]
    /\ UNCHANGED <<source, draws, snapshots>>

(* The second transaction: the snapshot is flushed, unseen by others, and  *)
(* the anchor to inherit is read, once for all the records, and the        *)
(* counters start at zero.                                                 *)
ReadAnchor(w) ==
    /\ At(w, "opened")
    /\ \E a \in LatestAnchor :
        job' = [job EXCEPT ![w] = [@ EXCEPT
                   !.pc = "looping", !.latest = a, !.todo = Records(job[w].doc),
                   !.pending = NoRows, !.inserted = 0, !.skipped = 0]]
    /\ UNCHANGED <<source, database>>

(* The exception handler's first half: roll back, forget everything unwritten. *)
Fail(w, error) ==
    /\ job' = [job EXCEPT ![w] = [IdleJob EXCEPT
                  !.pc = "failing", !.kind = job[w].kind, !.run = job[w].run, !.error = error]]
    /\ UNCHANGED <<source, database>>

RefuseWithoutAnchor(w) ==
    /\ At(w, "looping")
    /\ \E i \in job[w].todo : IsNext(w, i) /\ AnchorFor(w, i) = NoAnchor
    /\ Fail(w, "ZODIAC_ANCHOR_UNAVAILABLE")

SkipStored(w) ==
    /\ At(w, "looping")
    /\ \E i \in job[w].todo :
        /\ IsNext(w, i)
        /\ AnchorFor(w, i) # NoAnchor
        /\ i \in Stored
        /\ SameDraw(draws[i], job[w].doc[i], AnchorFor(w, i))
        /\ job' = [job EXCEPT ![w] = [job[w] EXCEPT !.todo = job[w].todo \ {i},
                                                   !.skipped = job[w].skipped + 1]]
    /\ UNCHANGED <<source, database>>

RefuseConflict(w) ==
    /\ At(w, "looping")
    /\ \E i \in job[w].todo :
        /\ IsNext(w, i)
        /\ AnchorFor(w, i) # NoAnchor
        /\ i \in Stored
        /\ ~ SameDraw(draws[i], job[w].doc[i], AnchorFor(w, i))
    /\ Fail(w, "DRAW_CONFLICT")

NewDraw(w, i) == [body |-> job[w].doc[i], anchor |-> AnchorFor(w, i),
                  kind |-> job[w].kind, run |-> job[w].run]

Adding(w, i) == [k \in DOMAIN job[w].pending \cup {i} |->
                     IF k = i THEN NewDraw(w, i) ELSE job[w].pending[k]]

AutocommittedInsert(w) ==
    /\ At(w, "looping")
    /\ \E i \in job[w].todo :
        /\ IsNext(w, i) /\ AnchorFor(w, i) # NoAnchor /\ i \notin Stored
        /\ draws' = [draws EXCEPT ![i] = NewDraw(w, i)]
        /\ job' = [job EXCEPT ![w].todo = @ \ {i}, ![w].inserted = @ + 1]
    /\ UNCHANGED <<source, runs, snapshots>>

(* An issue not stored is added to the session; nothing is sent before commit. *)
QueueInsert(w) ==
    /\ At(w, "looping")
    /\ \E i \in job[w].todo :
        /\ IsNext(w, i)
        /\ AnchorFor(w, i) # NoAnchor
        /\ i \notin Stored
        /\ job' = [job EXCEPT ![w] = [job[w] EXCEPT
                      !.todo = job[w].todo \ {i}, !.pending = Adding(w, i),
                      !.latest = AnchorFor(w, i), !.inserted = job[w].inserted + 1]]
    /\ UNCHANGED <<source, database>>

OverwriteAllowed(w) == DOMAIN job[w].pending \subseteq Scope

(* The primary key and the check constraint on the issue. *)
Insertable(w) == DOMAIN job[w].pending \subseteq Scope \ Stored

CountsEveryRow(w) ==
    [NewRun(job[w].kind) EXCEPT !.status = "succeeded",
        !.fetched = Cardinality(DOMAIN job[w].doc),
        !.inserted = job[w].inserted, !.skipped = job[w].skipped]

SucceededRun(w) ==
    [NewRun(job[w].kind) EXCEPT !.status = "succeeded",
        !.fetched = Cardinality(Records(job[w].doc)),
        !.inserted = job[w].inserted, !.skipped = job[w].skipped]

(* Everything the second transaction wrote, at once. *)
WriteBatch(w) ==
    /\ draws' = [i \in Issues |-> IF i \in DOMAIN job[w].pending
                                  THEN job[w].pending[i] ELSE draws[i]]
    /\ snapshots' = [snapshots EXCEPT ![job[w].run] = Payload(job[w].doc)]
    /\ runs' = [runs EXCEPT ![job[w].run] = SucceededRun(w)]

AtCommit(w) == At(w, "looping") /\ job[w].todo = {}

Commit(w) ==
    /\ AtCommit(w)
    /\ Insertable(w)
    /\ WriteBatch(w)
    /\ job' = [job EXCEPT ![w] = IdleJob]
    /\ UNCHANGED source

(* Another worker has committed one of these issues in the meantime. *)
CommitRejected(w) ==
    /\ AtCommit(w)
    /\ ~ Insertable(w)
    /\ Fail(w, "SYNC_FAILED")

(* The commit takes effect, its acknowledgement does not arrive. *)
CommitAckLost(w) ==
    /\ AcksGetLost
    /\ AtCommit(w)
    /\ Insertable(w)
    /\ WriteBatch(w)
    /\ job' = [job EXCEPT ![w] = [IdleJob EXCEPT
                  !.pc = "failing", !.kind = job[w].kind, !.run = job[w].run,
                  !.error = "SYNC_FAILED"]]
    /\ UNCHANGED source

(* Any statement of the second transaction may fail. *)
TransientError(w) ==
    /\ job[w].pc \in {"opened", "looping"}
    /\ Fail(w, "SYNC_FAILED")

RecordFailureSwapped(w) ==
    /\ At(w, "failing")
    /\ runs' = [runs EXCEPT ![job[w].run].status = job[w].error]
    /\ job' = [job EXCEPT ![w] = IdleJob]
    /\ UNCHANGED <<source, draws, snapshots>>

RecordFailureErrorOnly(w) ==
    /\ At(w, "failing")
    /\ runs' = [runs EXCEPT ![job[w].run].error = job[w].error]
    /\ job' = [job EXCEPT ![w] = IdleJob]
    /\ UNCHANGED <<source, draws, snapshots>>

(* The handler's second half marks the run failed, whatever the row says. *)
RecordFailure(w) ==
    /\ At(w, "failing")
    /\ runs' = [runs EXCEPT ![job[w].run].status = "failed",
                            ![job[w].run].error = job[w].error]
    /\ job' = [job EXCEPT ![w] = IdleJob]
    /\ UNCHANGED <<source, draws, snapshots>>

(* The process dies, or the commit of the handler fails as well; what a    *)
(* worker had not committed is rolled back.                                *)
Crash(w) ==
    /\ CrashesHappen
    /\ ~ At(w, "idle")
    /\ job' = [job EXCEPT ![w] = IdleJob]
    /\ UNCHANGED <<source, database>>

Record(w) == RefuseWithoutAnchor(w) \/ SkipStored(w) \/ RefuseConflict(w) \/ QueueInsert(w)
End(w) == Commit(w) \/ CommitRejected(w) \/ RecordFailure(w)
Progress(w) == ReadAnchor(w) \/ Record(w) \/ End(w)

Start(w) == (\E kind \in Kinds : Fetch(w, kind)) \/ OpenRun(w)

Trouble(w) == CommitAckLost(w) \/ TransientError(w) \/ Crash(w)

Next ==
    \/ Publish
    \/ Revise
    \/ \E w \in Workers : Start(w) \/ Progress(w) \/ Trouble(w)

Spec == Init /\ [][Next]_vars

(* A worker past its first commit keeps running unless it dies: no step of *)
(* it waits for another worker.  Nothing makes the source publish, or      *)
(* anybody ask for a synchronization.                                      *)
FairSpec == Spec /\ \A w \in Workers : WF_vars(Progress(w))

-----------------------------------------------------------------------------
(* Properties                                                              *)

TypeOK ==
    /\ feed \in Docs
    /\ revisions \in Nat
    /\ draws \in [Issues -> Draw \cup {NoDraw}]
    /\ runs \in [RunIds -> Run \cup {NoRun}]
    /\ snapshots \in [RunIds -> Docs \cup {NoSnapshot}]
    /\ job \in [Workers -> Job]

DrawsOf(r) == {i \in Stored : draws[i].run = r}
Succeeded(r) == runs[r] # NoRun /\ runs[r].status = "succeeded"

(* Every stored draw can be traced: the run that inserted it left a        *)
(* snapshot in which the source says exactly this, and no snapshot holds   *)
(* an issue outside the approved scope (ingestion.py 59-61, 126-145).      *)
DrawsTraceable ==
    /\ \A i \in Stored :
        LET r == draws[i].run IN
        /\ snapshots[r] # NoSnapshot
        /\ i \in DOMAIN snapshots[r]
        /\ snapshots[r][i] = draws[i].body
        /\ runs[r] # NoRun /\ runs[r].kind = draws[i].kind
    /\ \A r \in RunIds : snapshots[r] # NoSnapshot => DOMAIN snapshots[r] \subseteq Scope

(* All or nothing, whoever a run raced against and wherever it stopped: a  *)
(* run that did not succeed left no snapshot and no draw (the one commit   *)
(* at ingestion.py 105, the rollback at 114).  If the acknowledgement of   *)
(* that commit was lost it may have left everything, and its row, though   *)
(* overwritten by "failed", still counts what it left.                     *)
LeftNothing(r) == snapshots[r] = NoSnapshot /\ DrawsOf(r) = {}

LeftEverything(r) ==
    /\ snapshots[r] # NoSnapshot
    /\ runs[r].inserted = Cardinality(DrawsOf(r))
    /\ runs[r].fetched = Cardinality(DOMAIN snapshots[r])
    /\ runs[r].inserted + runs[r].skipped = runs[r].fetched

FailedRunsLeaveNothing ==
    \A r \in RunIds :
        ~ Succeeded(r) => LeftNothing(r) \/ (AcksGetLost /\ LeftEverything(r))

(* A succeeded run vouches for every row it was given, the skipped ones    *)
(* too: the draw table says the same, and still does however many runs     *)
(* followed; a history run also vouches for the anchors (81-85, 148-165).  *)
SucceededRunsAgree ==
    \A r \in RunIds : Succeeded(r) =>
        /\ snapshots[r] # NoSnapshot
        /\ \A i \in DOMAIN snapshots[r] :
            /\ i \in Stored
            /\ draws[i].body = snapshots[r][i]
            /\ runs[r].kind = "history" => draws[i].anchor = Pet[i]

(* The numbers a succeeded run reports are the truth: as many draws bear   *)
(* its name as it says it inserted, and each row was inserted or skipped   *)
(* (ingestion.py 100-103).                                                 *)
CountsTellTheTruth ==
    \A r \in RunIds : Succeeded(r) =>
        /\ runs[r].inserted = Cardinality(DrawsOf(r))
        /\ runs[r].fetched = Cardinality(DOMAIN snapshots[r])
        /\ runs[r].inserted + runs[r].skipped = runs[r].fetched

(* The draw table is the append-only ledger its readers rely on. *)
LedgerView ==
    [i \in Issues |-> IF draws[i] = NoDraw THEN NoDraw
                      ELSE [body |-> draws[i].body, anchor |-> draws[i].anchor,
                            kind |-> draws[i].kind]]
Ledger == INSTANCE DrawLedger WITH ledger <- LedgerView

(* Implementation: every step of the workers is a whole batch of the       *)
(* ledger, confirmed or inherited, or leaves it alone.                     *)
LedgerSpec == Ledger!Spec

(* No anchor is ever guessed (docs/SYSTEM.md 40-41, ingestion.py 72-80,    *)
(* 97): the anchor of a draw taken from the current interface is that of a *)
(* stored draw the history interface confirmed.                            *)
AnchorsConfirmed ==
    \A i \in Stored : \E h \in Stored :
        draws[h].kind = "history" /\ draws[h].anchor = draws[i].anchor

Running(r) == runs[r] # NoRun /\ runs[r].status = "running"

(* A run that has started ends, as long as its process lives and the       *)
(* database takes the handler's own commit: the handler at ingestion.py    *)
(* 113-122 writes the end of every run the commit at 105 did not end, and  *)
(* no worker waits for another.                                            *)
RunsFinish == \A r \in RunIds : Running(r) ~> ~ Running(r)
=============================================================================
