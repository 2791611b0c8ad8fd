--------------------------- MODULE IngestionProofs ---------------------------
(***************************************************************************)
(* Theorems about Ingestion for every value of its constants.              *)
(***************************************************************************)
EXTENDS Ingestion, FiniteSetTheorems, TLAPS

(***************************************************************************)
(* The inductive invariant.  The properties constrain only what is         *)
(* committed; to see that a commit keeps them one must know what a worker  *)
(* is about to commit, and that what it read earlier still holds.          *)
(***************************************************************************)

HasRun(w) == job[w].pc \in {"opened", "looping", "failing"}
InTransaction(w) == job[w].pc \in {"opened", "looping"}

(* A worker past its first commit has a run, still there. *)
OwnRun(w) == HasRun(w) =>
    /\ job[w].run \in RunIds
    /\ runs[job[w].run] # NoRun
    /\ runs[job[w].run].kind = job[w].kind

(* Nothing of a run is visible before its batch is. *)
Unseen(r) == snapshots[r] = NoSnapshot /\ DrawsOf(r) = {}
UnseenYet(w) == InTransaction(w) =>
    runs[job[w].run].status = "running" /\ Unseen(job[w].run)

(* What the records done so far have led to: a queued draw that says what  *)
(* the source said, or a stored draw that already says it.                 *)
Queued(w, i) ==
    /\ job[w].pending[i].body = job[w].doc[i]
    /\ job[w].pending[i].kind = job[w].kind
    /\ job[w].pending[i].run = job[w].run
    /\ job[w].kind = "history" => job[w].pending[i].anchor = Pet[i]

AlreadyStored(w, i) ==
    /\ i \in Stored
    /\ draws[i].body = job[w].doc[i]
    /\ job[w].kind = "history" => draws[i].anchor = Pet[i]

Done(w) == Records(job[w].doc) \ job[w].todo

LoopFaithful(w) == At(w, "looping") =>
    /\ job[w].todo \subseteq Records(job[w].doc)
    /\ DOMAIN job[w].pending \subseteq Done(w)
    /\ \A i \in DOMAIN job[w].pending : Queued(w, i)
    /\ \A i \in Done(w) : i \in DOMAIN job[w].pending \/ AlreadyStored(w, i)

LoopCounts(w) == At(w, "looping") =>
    /\ job[w].inserted = Cardinality(DOMAIN job[w].pending)
    /\ job[w].inserted + job[w].skipped + Cardinality(job[w].todo)
         = Cardinality(Records(job[w].doc))

(* The anchor to inherit was confirmed when it was read and stays so. *)
Confirmed(a) == \E h \in Stored : draws[h].kind = "history" /\ draws[h].anchor = a
InheritsConfirmed(w) == At(w, "looping") /\ job[w].kind = "current" =>
    /\ job[w].latest # NoAnchor => Confirmed(job[w].latest)
    /\ \A i \in DOMAIN job[w].pending :
        job[w].latest # NoAnchor /\ job[w].pending[i].anchor = job[w].latest

WorkerInv(w) ==
    /\ OwnRun(w)
    /\ UnseenYet(w)
    /\ LoopFaithful(w)
    /\ LoopCounts(w)
    /\ InheritsConfirmed(w)

(* No two workers share a run, and an id nobody has taken is not in use. *)
RunsApart ==
    \A v, w \in Workers : v # w /\ HasRun(v) /\ HasRun(w) => job[v].run # job[w].run
FreeRunsUnseen == \A r \in RunIds : runs[r] = NoRun => Unseen(r)

DrawsInv ==
    /\ AnchorsConfirmed
    /\ DrawsTraceable
    /\ SucceededRunsAgree
    /\ CountsTellTheTruth

IInv ==
    /\ TypeOK
    /\ \A w \in Workers : WorkerInv(w)
    /\ RunsApart
    /\ FreeRunsUnseen
    /\ DrawsInv

-----------------------------------------------------------------------------
(* A restriction or a one-issue extension of a document is a document. *)
LEMMA DocRestriction ==
    ASSUME NEW d \in Docs, NEW S, S \subseteq DOMAIN d
    PROVE  [i \in S |-> d[i]] \in Docs
<1>1. PICK T \in SUBSET Issues : d \in [T -> Bodies]
  BY DEF Docs
<1>2. S \in SUBSET Issues /\ [i \in S |-> d[i]] \in [S -> Bodies]
  BY <1>1
<1> QED
  BY <1>2 DEF Docs

LEMMA DocExtension ==
    ASSUME NEW d \in Docs, NEW k \in Issues, NEW b \in Bodies
    PROVE  [i \in DOMAIN d \cup {k} |-> IF i = k THEN b ELSE d[i]] \in Docs
<1>1. PICK T \in SUBSET Issues : d \in [T -> Bodies]
  BY DEF Docs
<1>2. /\ DOMAIN d \cup {k} \in SUBSET Issues
      /\ [i \in DOMAIN d \cup {k} |-> IF i = k THEN b ELSE d[i]]
            \in [DOMAIN d \cup {k} -> Bodies]
  BY <1>1
<1> QED
  BY <1>2 DEF Docs

LEMMA DocUpdate ==
    ASSUME NEW d \in Docs, NEW k \in DOMAIN d, NEW b \in Bodies
    PROVE  [d EXCEPT ![k] = b] \in Docs
<1>1. PICK T \in SUBSET Issues : d \in [T -> Bodies]
  BY DEF Docs
<1>2. [d EXCEPT ![k] = b] \in [T -> Bodies]
  BY <1>1
<1> QED
  BY <1>2 DEF Docs

LEMMA DocAt ==
    ASSUME NEW d \in Docs
    PROVE  DOMAIN d \subseteq Issues /\ \A i \in DOMAIN d : d[i] \in Bodies
<1>1. PICK T \in SUBSET Issues : d \in [T -> Bodies]
  BY DEF Docs
<1> QED
  BY <1>1

(* The same for the draws a worker has queued. *)
LEMMA BatchExtension ==
    ASSUME NEW p \in Batches, NEW k \in Issues, NEW d \in Draw
    PROVE  [i \in DOMAIN p \cup {k} |-> IF i = k THEN d ELSE p[i]] \in Batches
<1>1. PICK T \in SUBSET Issues : p \in [T -> Draw]
  BY DEF Batches
<1>2. /\ DOMAIN p \cup {k} \in SUBSET Issues
      /\ [i \in DOMAIN p \cup {k} |-> IF i = k THEN d ELSE p[i]]
            \in [DOMAIN p \cup {k} -> Draw]
  BY <1>1
<1> QED
  BY <1>2 DEF Batches

LEMMA BatchAt ==
    ASSUME NEW p \in Batches
    PROVE  DOMAIN p \subseteq Issues /\ \A i \in DOMAIN p : p[i] \in Draw
<1>1. PICK T \in SUBSET Issues : p \in [T -> Draw]
  BY DEF Batches
<1> QED
  BY <1>1

LEMMA NothingIsADocAndABatch == NoRows \in Docs /\ NoRows \in Batches
<1>1. {} \in SUBSET Issues /\ NoRows \in [{} -> Bodies] /\ NoRows \in [{} -> Draw]
  BY DEF NoRows
<1> QED
  BY <1>1 DEF Docs, Batches

LEMMA IdleJobTyped == IdleJob \in Job
  BY NothingIsADocAndABatch DEF IdleJob, Job, Stages, Kinds, Errors

(* A document has finitely many records, so counting them is counting.     *)
LEMMA RecordsFinite ==
    ASSUME NEW d \in Docs
    PROVE  /\ Records(d) \subseteq Issues /\ Records(d) \subseteq DOMAIN d
           /\ IsFiniteSet(Records(d)) /\ Cardinality(Records(d)) \in Nat
<1>1. Records(d) \subseteq Issues /\ Records(d) \subseteq DOMAIN d
  BY DocAt DEF Records
<1>2. IsFiniteSet(Records(d))
  BY <1>1, FS_Subset, IssuesAreFinite
<1> QED
  BY <1>1, <1>2, FS_CardinalityType

-----------------------------------------------------------------------------
(* Type correctness                                                        *)

LEMMA TypeInit == Init => TypeOK
  BY NothingIsADocAndABatch, IdleJobTyped DEF Init, TypeOK

LEMMA ServedTyped ==
    ASSUME TypeOK, NEW kind \in Kinds
    PROVE  Served(kind) \in Docs
<1>1. LatestPublished \subseteq DOMAIN feed
  BY DEF LatestPublished, Published
<1> QED
  BY <1>1, DocRestriction DEF Served, TypeOK

LEMMA PayloadTyped ==
    ASSUME NEW d \in Docs
    PROVE  Payload(d) \in Docs
  BY RecordsFinite, DocRestriction DEF Payload

LEMMA LatestAnchorTyped ==
    ASSUME TypeOK
    PROVE  LatestAnchor \subseteq Anchors \cup {NoAnchor}
<1>1. \A i \in Stored : draws[i] \in Draw
  BY DEF Stored, TypeOK
<1> QED
  BY <1>1 DEF LatestAnchor, Draw

(* The fields of a worker's local state. *)
LEMMA JobFields ==
    ASSUME TypeOK, NEW w \in Workers
    PROVE  /\ job[w] \in Job
           /\ job[w].kind \in Kinds /\ job[w].doc \in Docs
           /\ job[w].run \in RunIds \cup {NoRun}
           /\ job[w].latest \in Anchors \cup {NoAnchor}
           /\ job[w].todo \subseteq Issues /\ job[w].pending \in Batches
           /\ job[w].inserted \in Nat /\ job[w].skipped \in Nat
           /\ job[w].error \in Errors
  BY DEF TypeOK, Job

LEMMA NewDrawTyped ==
    ASSUME TypeOK, NEW w \in Workers, NEW i \in DOMAIN job[w].doc,
           AnchorFor(w, i) # NoAnchor, job[w].run \in RunIds
    PROVE  NewDraw(w, i) \in Draw
<1>1. i \in Issues /\ job[w].doc[i] \in Bodies
  BY JobFields, DocAt
<1>2. AnchorFor(w, i) \in Anchors
  BY <1>1, JobFields, PetType DEF AnchorFor
<1> QED
  BY <1>1, <1>2, JobFields DEF NewDraw, Draw

LEMMA SucceededRunTyped ==
    ASSUME TypeOK, NEW w \in Workers
    PROVE  SucceededRun(w) \in Run
<1>1. Cardinality(Records(job[w].doc)) \in Nat
  BY JobFields, RecordsFinite
<1> QED
  BY <1>1, JobFields DEF SucceededRun, NewRun, Run, Statuses, Errors

-----------------------------------------------------------------------------
(* The inductive invariant                                                 *)

LEMMA InvInit == Init => IInv
<1> SUFFICES ASSUME Init PROVE IInv
  OBVIOUS
<1>1. TypeOK
  BY TypeInit
<1>2. Stored = {}
  BY DEF Init, Stored
<1>3. \A w \in Workers : job[w].pc = "idle"
  BY DEF Init, IdleJob
<1>4. \A w \in Workers : WorkerInv(w)
  BY <1>3 DEF WorkerInv, OwnRun, UnseenYet, LoopFaithful, LoopCounts,
              InheritsConfirmed, HasRun, InTransaction, At
<1>5. RunsApart
  BY <1>3 DEF RunsApart, HasRun
<1>6. FreeRunsUnseen
  BY <1>2 DEF FreeRunsUnseen, Unseen, DrawsOf, Init
<1>7. AnchorsConfirmed /\ DrawsTraceable
  BY <1>2 DEF AnchorsConfirmed, DrawsTraceable, Init
<1>8. SucceededRunsAgree /\ CountsTellTheTruth
  BY DEF SucceededRunsAgree, CountsTellTheTruth, Succeeded, Init
<1> QED
  BY <1>1, <1>4, <1>5, <1>6, <1>7, <1>8 DEF IInv, DrawsInv

(* What a worker relies on while others act: its own state and its run are *)
(* left alone, and stored draws stay.                                      *)
Undisturbed(v) ==
    /\ job'[v] = job[v]
    /\ \A i \in Issues : draws[i] # NoDraw => draws'[i] = draws[i]
    /\ HasRun(v) => /\ runs'[job[v].run] = runs[job[v].run]
                    /\ snapshots'[job[v].run] = snapshots[job[v].run]
                    /\ DrawsOf(job[v].run)' = DrawsOf(job[v].run)

LEMMA WorkerUndisturbed ==
    ASSUME NEW v \in Workers, WorkerInv(v), Undisturbed(v)
    PROVE  WorkerInv(v)'
<1>1. OwnRun(v)'
  BY DEF WorkerInv, OwnRun, HasRun, Undisturbed
<1>2. UnseenYet(v)'
  BY DEF WorkerInv, UnseenYet, InTransaction, HasRun, Undisturbed, Unseen
<1>3. \A i \in Stored : i \in Stored' /\ draws'[i] = draws[i]
  BY DEF Undisturbed, Stored
<1>4. LoopFaithful(v)'
  <2> SUFFICES ASSUME At(v, "looping")' PROVE LoopFaithful(v)'
    BY DEF LoopFaithful
  <2>1. At(v, "looping") /\ LoopFaithful(v)
    BY DEF Undisturbed, At, WorkerInv
  <2>2. Done(v)' = Done(v)
    BY DEF Undisturbed, Done, Records
  <2>3. \A i : AlreadyStored(v, i) => AlreadyStored(v, i)'
    BY <1>3 DEF Undisturbed, AlreadyStored
  <2>4. \A i : Queued(v, i) => Queued(v, i)'
    BY DEF Undisturbed, Queued
  <2> QED
    BY <2>1, <2>2, <2>3, <2>4 DEF LoopFaithful, Undisturbed, Records
<1>5. LoopCounts(v)'
  BY DEF WorkerInv, LoopCounts, Undisturbed, At, Records
<1>6. InheritsConfirmed(v)'
  <2>1. \A a : Confirmed(a) => Confirmed(a)'
    BY <1>3 DEF Confirmed
  <2> QED
    BY <2>1 DEF WorkerInv, InheritsConfirmed, Undisturbed, At
<1> QED
  BY <1>1, <1>2, <1>4, <1>5, <1>6 DEF WorkerInv

(* A step of one worker that leaves the database alone need only be shown  *)
(* to keep that worker's own invariant.                                    *)
LEMMA LocalStep ==
    ASSUME IInv, NEW w \in Workers, UNCHANGED <<source, database>>,
           NEW j \in Job, job' = [job EXCEPT ![w] = j],
           j.pc \in {"opened", "looping", "failing"} => HasRun(w) /\ j.run = job[w].run,
           WorkerInv(w)'
    PROVE  IInv'
<1>1. UNCHANGED <<feed, revisions, draws, runs, snapshots>>
  BY DEF source, database
<1>2. job' \in [Workers -> Job] /\ job'[w] = j
      /\ \A v \in Workers \ {w} : job'[v] = job[v]
  BY DEF IInv, TypeOK
<1>3. TypeOK'
  BY <1>1, <1>2 DEF IInv, TypeOK
<1>4. Stored' = Stored /\ \A r : DrawsOf(r)' = DrawsOf(r)
  BY <1>1 DEF Stored, DrawsOf
<1>5. \A v \in Workers : WorkerInv(v)'
  <2> SUFFICES ASSUME NEW v \in Workers \ {w} PROVE WorkerInv(v)'
    OBVIOUS
  <2>1. Undisturbed(v)
    BY <1>1, <1>2, <1>4 DEF Undisturbed
  <2> QED
    BY <2>1, WorkerUndisturbed DEF IInv
<1>6. RunsApart'
  BY <1>2 DEF IInv, RunsApart, HasRun
<1>7. FreeRunsUnseen'
  BY <1>1, <1>4 DEF IInv, FreeRunsUnseen, Unseen
<1>8. DrawsInv'
  BY <1>1, <1>4 DEF IInv, DrawsInv, AnchorsConfirmed, DrawsTraceable, SucceededRunsAgree,
                    CountsTellTheTruth, Succeeded
<1> QED
  BY <1>3, <1>5, <1>6, <1>7, <1>8 DEF IInv

LEMMA SourceStep ==
    ASSUME IInv, Publish \/ Revise
    PROVE  IInv'
<1>1. UNCHANGED <<draws, runs, snapshots, job>>
  BY DEF Publish, Revise, database
<1>2. feed' \in Docs /\ revisions' \in Nat
  <2>1. CASE Publish
    <3>1. PICK i \in Issues, b \in Bodies :
            feed' = [k \in Published \cup {i} |-> IF k = i THEN b ELSE feed[k]]
      BY <2>1 DEF Publish
    <3> QED
      BY <2>1, <3>1, DocExtension DEF Publish, IInv, TypeOK, Published
  <2>2. CASE Revise
    <3>1. PICK i \in Published, b \in Bodies : feed' = [feed EXCEPT ![i] = b]
      BY <2>2 DEF Revise
    <3>2. feed \in Docs /\ i \in DOMAIN feed
      BY DEF IInv, TypeOK, Published
    <3>3. feed' \in Docs
      BY <3>1, <3>2, DocUpdate
    <3> QED
      BY <2>2, <3>3 DEF Revise, IInv, TypeOK
  <2> QED
    BY <2>1, <2>2
<1>3. TypeOK'
  BY <1>1, <1>2 DEF IInv, TypeOK
<1>4. Stored' = Stored /\ \A r : DrawsOf(r)' = DrawsOf(r)
  BY <1>1 DEF Stored, DrawsOf
<1>5. \A v \in Workers : Undisturbed(v)
  BY <1>1, <1>4 DEF Undisturbed
<1>6. \A v \in Workers : WorkerInv(v)'
  BY <1>5, WorkerUndisturbed DEF IInv
<1>7. RunsApart' /\ FreeRunsUnseen'
  BY <1>1, <1>4 DEF IInv, RunsApart, HasRun, FreeRunsUnseen, Unseen
<1>8. DrawsInv'
  BY <1>1, <1>4 DEF IInv, DrawsInv, AnchorsConfirmed, DrawsTraceable, SucceededRunsAgree,
                    CountsTellTheTruth, Succeeded
<1> QED
  BY <1>3, <1>6, <1>7, <1>8 DEF IInv

(* A worker that is idle or has only fetched relies on nothing. *)
LEMMA NothingAtStake ==
    ASSUME NEW w \in Workers, job[w].pc \in {"idle", "received"}
    PROVE  WorkerInv(w)
  BY DEF WorkerInv, OwnRun, UnseenYet, LoopFaithful, LoopCounts, InheritsConfirmed,
         HasRun, InTransaction, At

LEMMA FetchStep ==
    ASSUME IInv, NEW w \in Workers, NEW kind \in Kinds, Fetch(w, kind)
    PROVE  IInv'
<1> DEFINE j == [IdleJob EXCEPT !.pc = "received", !.kind = kind, !.doc = Served(kind)]
<1>1. j \in Job /\ j.pc = "received"
  BY IdleJobTyped, ServedTyped DEF IInv, Job, IdleJob, Stages
<1>2. job' = [job EXCEPT ![w] = j] /\ UNCHANGED <<source, database>>
  BY DEF Fetch
<1>3. job'[w].pc = "received"
  BY <1>1, <1>2 DEF IInv, TypeOK
<1>4. WorkerInv(w)'
  BY <1>3 DEF WorkerInv, OwnRun, UnseenYet, LoopFaithful, LoopCounts, InheritsConfirmed,
              HasRun, InTransaction, At
<1> HIDE DEF j
<1> QED
  BY <1>1, <1>2, <1>4, LocalStep

LEMMA GoIdleStep ==
    ASSUME IInv, NEW w \in Workers, job' = [job EXCEPT ![w] = IdleJob],
           UNCHANGED <<source, database>>
    PROVE  IInv'
<1>1. IdleJob \in Job /\ IdleJob.pc = "idle"
  BY IdleJobTyped DEF IdleJob
<1>2. job'[w].pc = "idle"
  BY <1>1 DEF IInv, TypeOK
<1>3. WorkerInv(w)'
  BY <1>2 DEF WorkerInv, OwnRun, UnseenYet, LoopFaithful, LoopCounts, InheritsConfirmed,
              HasRun, InTransaction, At
<1> QED
  BY <1>1, <1>3, LocalStep

LEMMA FailStep ==
    ASSUME IInv, NEW w \in Workers, NEW e \in Errors, InTransaction(w), Fail(w, e)
    PROVE  IInv'
<1> DEFINE j == [IdleJob EXCEPT !.pc = "failing", !.kind = job[w].kind,
                                !.run = job[w].run, !.error = e]
<1>1. j \in Job /\ j.pc = "failing" /\ j.run = job[w].run /\ j.kind = job[w].kind
  BY IdleJobTyped, JobFields DEF IInv, Job, IdleJob, Stages
<1>2. job' = [job EXCEPT ![w] = j] /\ UNCHANGED <<source, database>>
  BY DEF Fail
<1> HIDE DEF j
<1>3. job'[w] = j
  BY <1>2 DEF IInv, TypeOK
<1>4. HasRun(w)
  BY DEF InTransaction, HasRun
<1>5. WorkerInv(w)'
  <2>1. OwnRun(w)'
    BY <1>1, <1>2, <1>3, <1>4 DEF IInv, WorkerInv, OwnRun, database
  <2> QED
    BY <1>1, <1>3, <2>1 DEF WorkerInv, UnseenYet, LoopFaithful, LoopCounts,
                            InheritsConfirmed, InTransaction, At
<1> QED
  BY <1>1, <1>2, <1>4, <1>5, LocalStep

LEMMA ReadAnchorStep ==
    ASSUME IInv, NEW w \in Workers, ReadAnchor(w)
    PROVE  IInv'
<1>1. PICK a \in LatestAnchor :
        job' = [job EXCEPT ![w] = [@ EXCEPT
                   !.pc = "looping", !.latest = a, !.todo = Records(job[w].doc),
                   !.pending = NoRows, !.inserted = 0, !.skipped = 0]]
  BY DEF ReadAnchor
<1> DEFINE j == [job[w] EXCEPT !.pc = "looping", !.latest = a,
                               !.todo = Records(job[w].doc), !.pending = NoRows,
                               !.inserted = 0, !.skipped = 0]
<1>2. /\ job' = [job EXCEPT ![w] = j]
      /\ job[w].pc = "opened" /\ UNCHANGED <<source, database>>
  BY <1>1 DEF ReadAnchor, At
<1>3. a \in Anchors \cup {NoAnchor}
  BY LatestAnchorTyped DEF IInv
<1>4. j \in Job
  <2>1. Records(job[w].doc) \in SUBSET Issues
    BY JobFields, RecordsFinite DEF IInv
  <2>2. job[w] \in Job /\ NoRows \in Batches
    BY JobFields, NothingIsADocAndABatch DEF IInv
  <2> QED
    BY <1>3, <2>1, <2>2 DEF Job, Stages
<1>5. /\ j.pc = "looping" /\ j.run = job[w].run /\ j.kind = job[w].kind
      /\ j.doc = job[w].doc /\ j.latest = a /\ j.todo = Records(job[w].doc)
      /\ DOMAIN j.pending = {} /\ j.inserted = 0 /\ j.skipped = 0
  BY JobFields DEF IInv, Job, NoRows
<1> HIDE DEF j
<1>6. job'[w] = j
  BY <1>2 DEF IInv, TypeOK
<1>7. a # NoAnchor => Confirmed(a)
  <2> SUFFICES ASSUME a # NoAnchor PROVE Confirmed(a)
    OBVIOUS
  <2>1. PICK i \in Stored : draws[i].anchor = a
    BY DEF LatestAnchor
  <2> QED
    BY <2>1 DEF IInv, DrawsInv, AnchorsConfirmed, Confirmed
<1>8. UNCHANGED <<draws, runs, snapshots>>
  BY <1>2 DEF database
<1>9. WorkerInv(w)'
  <2>1. OwnRun(w)'
    BY <1>2, <1>5, <1>6, <1>8 DEF IInv, WorkerInv, OwnRun, HasRun
  <2>2. UnseenYet(w)'
    BY <1>2, <1>5, <1>6, <1>8
       DEF IInv, WorkerInv, UnseenYet, InTransaction, Unseen, DrawsOf, Stored
  <2>3. LoopFaithful(w)'
    BY <1>5, <1>6 DEF LoopFaithful, Done, Records
  <2>4. LoopCounts(w)'
    <3>1. Cardinality(Records(job[w].doc)) \in Nat
      BY JobFields, RecordsFinite DEF IInv
    <3>2. job'[w].inserted = 0 /\ job'[w].skipped = 0
          /\ Cardinality(DOMAIN job'[w].pending) = 0
      BY <1>5, <1>6, FS_EmptySet
    <3>3. job'[w].todo = Records(job[w].doc) /\ job'[w].doc = job[w].doc
      BY <1>5, <1>6
    <3>4. LoopCounts(w)' <=> (At(w, "looping")' =>
            /\ job'[w].inserted = Cardinality(DOMAIN job'[w].pending)
            /\ job'[w].inserted + job'[w].skipped + Cardinality(job'[w].todo)
                 = Cardinality(Records(job'[w].doc)))
      BY DEF LoopCounts, Records
    <3> QED
      BY <3>1, <3>2, <3>3, <3>4
  <2>5. InheritsConfirmed(w)'
    BY <1>5, <1>6, <1>7, <1>8 DEF InheritsConfirmed, Confirmed, Stored
  <2> QED
    BY <2>1, <2>2, <2>3, <2>4, <2>5 DEF WorkerInv
<1>10. HasRun(w)
  BY <1>2 DEF HasRun
<1> QED
  BY <1>2, <1>4, <1>5, <1>9, <1>10, LocalStep

(* Taking one record off the list: what both outcomes of a record share. *)
LEMMA OneRecordLess ==
    ASSUME IInv, NEW w \in Workers, At(w, "looping"), NEW i \in job[w].todo
    PROVE  /\ i \in Records(job[w].doc) /\ i \in DOMAIN job[w].doc /\ i \in Issues
           /\ i \notin DOMAIN job[w].pending
           /\ Records(job[w].doc) \ (job[w].todo \ {i}) = Done(w) \cup {i}
           /\ Cardinality(job[w].todo) \in Nat
           /\ Cardinality(job[w].todo \ {i}) = Cardinality(job[w].todo) - 1
<1>1. LoopFaithful(w)
  BY DEF IInv, WorkerInv
<1>2. i \in Records(job[w].doc) /\ i \notin DOMAIN job[w].pending
  BY <1>1 DEF LoopFaithful, Done
<1>3. i \in DOMAIN job[w].doc /\ i \in Issues
  BY <1>2, JobFields, RecordsFinite DEF IInv
<1>4. IsFiniteSet(job[w].todo)
  BY JobFields, FS_Subset, IssuesAreFinite DEF IInv
<1>5. Cardinality(job[w].todo) \in Nat
      /\ Cardinality(job[w].todo \ {i}) = Cardinality(job[w].todo) - 1
  BY <1>4, FS_CardinalityType, FS_RemoveElement
<1>6. Records(job[w].doc) \ (job[w].todo \ {i}) = Done(w) \cup {i}
  BY <1>2 DEF Done
<1> QED
  BY <1>2, <1>3, <1>5, <1>6

LEMMA SkipStoredStep ==
    ASSUME IInv, NEW w \in Workers, SkipStored(w)
    PROVE  IInv'
<1>1. PICK i \in job[w].todo :
        /\ AnchorFor(w, i) # NoAnchor
        /\ i \in Stored
        /\ SameDraw(draws[i], job[w].doc[i], AnchorFor(w, i))
        /\ job' = [job EXCEPT ![w] = [job[w] EXCEPT !.todo = job[w].todo \ {i},
                                                   !.skipped = job[w].skipped + 1]]
  BY DEF SkipStored
<1> DEFINE j == [job[w] EXCEPT !.todo = job[w].todo \ {i},
                               !.skipped = job[w].skipped + 1]
<1>2. At(w, "looping") /\ UNCHANGED <<source, database>> /\ job' = [job EXCEPT ![w] = j]
  BY <1>1 DEF SkipStored
<1>3. j \in Job
  <2>1. job[w] \in Job /\ job[w].todo \ {i} \in SUBSET Issues
        /\ job[w].skipped + 1 \in Nat
    BY JobFields DEF IInv
  <2> QED
    BY <2>1 DEF Job
<1>4. /\ j.pc = job[w].pc /\ j.run = job[w].run /\ j.kind = job[w].kind
      /\ j.doc = job[w].doc /\ j.latest = job[w].latest /\ j.todo = job[w].todo \ {i}
      /\ j.pending = job[w].pending
      /\ j.inserted = job[w].inserted /\ j.skipped = job[w].skipped + 1
  BY JobFields DEF IInv, Job
<1> HIDE DEF j
<1>5. job'[w] = j
  BY <1>2 DEF IInv, TypeOK
<1>6. UNCHANGED <<draws, runs, snapshots>>
  BY <1>2 DEF database
<1>7. WorkerInv(w)'
  <2>1. OwnRun(w)' /\ UnseenYet(w)'
    BY <1>4, <1>5, <1>6 DEF IInv, WorkerInv, OwnRun, UnseenYet, HasRun, InTransaction,
                            Unseen, DrawsOf, Stored
  <2>2. LoopFaithful(w)'
    <3>1. AlreadyStored(w, i)
      BY <1>1 DEF AlreadyStored, SameDraw, AnchorFor
    <3>2. Done(w)' = Done(w) \cup {i}
      BY <1>2, <1>4, <1>5, OneRecordLess DEF Done, Records
    <3>3. \A k : AlreadyStored(w, k)' <=> AlreadyStored(w, k)
      BY <1>4, <1>5, <1>6 DEF AlreadyStored, Stored
    <3>4. \A k : Queued(w, k)' <=> Queued(w, k)
      BY <1>4, <1>5 DEF Queued
    <3>5. LoopFaithful(w)
      BY DEF IInv, WorkerInv
    <3> QED
      BY <1>2, <1>4, <1>5, <3>1, <3>2, <3>3, <3>4, <3>5 DEF LoopFaithful, Records
  <2>3. LoopCounts(w)'
    <3>1. LoopCounts(w)
      BY DEF IInv, WorkerInv
    <3>2. /\ Cardinality(job[w].todo) \in Nat
          /\ Cardinality(job[w].todo \ {i}) = Cardinality(job[w].todo) - 1
      BY <1>2, OneRecordLess
    <3>3. job[w].inserted \in Nat /\ job[w].skipped \in Nat
      BY JobFields DEF IInv
    <3>4. job[w].inserted + (job[w].skipped + 1) + (Cardinality(job[w].todo) - 1)
            = job[w].inserted + job[w].skipped + Cardinality(job[w].todo)
      BY <3>2, <3>3
    <3> QED
      BY <1>2, <1>4, <1>5, <3>1, <3>2, <3>4 DEF LoopCounts, Records
  <2>4. InheritsConfirmed(w)'
    BY <1>4, <1>5, <1>6 DEF IInv, WorkerInv, InheritsConfirmed, At, Confirmed, Stored
  <2> QED
    BY <2>1, <2>2, <2>3, <2>4 DEF WorkerInv
<1>8. HasRun(w)
  BY <1>2 DEF HasRun, At
<1> QED
  BY <1>2, <1>3, <1>4, <1>7, <1>8, LocalStep

LEMMA QueueInsertStep ==
    ASSUME IInv, NEW w \in Workers, QueueInsert(w)
    PROVE  IInv'
<1>1. PICK i \in job[w].todo :
        /\ AnchorFor(w, i) # NoAnchor
        /\ i \notin Stored
        /\ job' = [job EXCEPT ![w] = [job[w] EXCEPT
                      !.todo = job[w].todo \ {i}, !.pending = Adding(w, i),
                      !.latest = AnchorFor(w, i), !.inserted = job[w].inserted + 1]]
  BY DEF QueueInsert
<1> DEFINE p == Adding(w, i)
           j == [job[w] EXCEPT !.todo = job[w].todo \ {i}, !.pending = p,
                               !.latest = AnchorFor(w, i),
                               !.inserted = job[w].inserted + 1]
<1>2. At(w, "looping") /\ UNCHANGED <<source, database>> /\ job' = [job EXCEPT ![w] = j]
  BY <1>1 DEF QueueInsert
<1>3. HasRun(w)
  BY <1>2 DEF HasRun, At
<1>4. NewDraw(w, i) \in Draw
  <2>1. job[w].run \in RunIds
    BY <1>3 DEF IInv, WorkerInv, OwnRun
  <2> QED
    BY <1>1, <1>2, <2>1, OneRecordLess, NewDrawTyped DEF IInv
<1>5. /\ DOMAIN p = DOMAIN job[w].pending \cup {i}
      /\ p[i] = NewDraw(w, i)
      /\ \A k \in DOMAIN job[w].pending : k # i => p[k] = job[w].pending[k]
  BY DEF Adding
<1>6. p \in Batches
  <2>1. i \in Issues /\ job[w].pending \in Batches
    BY <1>2, OneRecordLess, JobFields DEF IInv
  <2> QED
    BY <1>4, <2>1, BatchExtension DEF Adding
<1> HIDE DEF p
<1>7. AnchorFor(w, i) \in Anchors
  BY <1>1, <1>2, OneRecordLess, JobFields, PetType DEF AnchorFor, IInv
<1>8. j \in Job
  <2>1. job[w] \in Job /\ job[w].todo \ {i} \in SUBSET Issues
        /\ job[w].inserted + 1 \in Nat
    BY JobFields DEF IInv
  <2> QED
    BY <1>6, <1>7, <2>1 DEF Job
<1>9. /\ j.pc = job[w].pc /\ j.run = job[w].run /\ j.kind = job[w].kind
      /\ j.doc = job[w].doc /\ j.latest = AnchorFor(w, i) /\ j.todo = job[w].todo \ {i}
      /\ j.pending = p
      /\ j.inserted = job[w].inserted + 1 /\ j.skipped = job[w].skipped
  BY JobFields DEF IInv, Job
<1> HIDE DEF j
<1>10. job'[w] = j
  BY <1>2 DEF IInv, TypeOK
<1>11. UNCHANGED <<draws, runs, snapshots>>
  BY <1>2 DEF database
<1>12. i \notin DOMAIN job[w].pending
  BY <1>2, OneRecordLess
<1>13. WorkerInv(w)'
  <2>1. OwnRun(w)' /\ UnseenYet(w)'
    BY <1>9, <1>10, <1>11 DEF IInv, WorkerInv, OwnRun, UnseenYet, HasRun, InTransaction,
                              Unseen, DrawsOf, Stored
  <2>2. LoopFaithful(w)'
    <3>1. Queued(w, i)'
      BY <1>5, <1>9, <1>10 DEF Queued, NewDraw, AnchorFor
    <3>2. Done(w)' = Done(w) \cup {i}
      BY <1>2, <1>9, <1>10, OneRecordLess DEF Done, Records
    <3>3. \A k : AlreadyStored(w, k)' <=> AlreadyStored(w, k)
      BY <1>9, <1>10, <1>11 DEF AlreadyStored, Stored
    <3>4. \A k \in DOMAIN job[w].pending : Queued(w, k) => Queued(w, k)'
      BY <1>5, <1>9, <1>10, <1>12 DEF Queued
    <3>5. LoopFaithful(w) /\ At(w, "looping")
      BY <1>2 DEF IInv, WorkerInv
    <3>6. job'[w].todo \subseteq Records(job[w].doc)
      BY <1>9, <1>10, <3>5 DEF LoopFaithful
    <3>7. DOMAIN job'[w].pending = DOMAIN job[w].pending \cup {i}
      BY <1>5, <1>9, <1>10
    <3>8. Records(job[w].doc)' = Records(job[w].doc)
      BY <1>9, <1>10 DEF Records
    <3> QED
      BY <3>1, <3>2, <3>3, <3>4, <3>5, <3>6, <3>7, <3>8 DEF LoopFaithful
  <2>3. LoopCounts(w)'
    <3>1. LoopCounts(w)
      BY DEF IInv, WorkerInv
    <3>2. /\ Cardinality(job[w].todo) \in Nat
          /\ Cardinality(job[w].todo \ {i}) = Cardinality(job[w].todo) - 1
      BY <1>2, OneRecordLess
    <3>3. job[w].inserted \in Nat /\ job[w].skipped \in Nat
      BY JobFields DEF IInv
    <3>4. (job[w].inserted + 1) + job[w].skipped + Cardinality(job[w].todo \ {i})
            = job[w].inserted + job[w].skipped + Cardinality(job[w].todo)
      <4> DEFINE left == Cardinality(job[w].todo)
                 less == Cardinality(job[w].todo \ {i})
                 ins == job[w].inserted
                 skip == job[w].skipped
      <4>1. left \in Nat /\ less = left - 1 /\ ins \in Nat /\ skip \in Nat
        BY <3>2, <3>3
      <4> HIDE DEF left, less, ins, skip
      <4>2. (ins + 1) + skip + less = ins + skip + left
        BY <4>1
      <4> QED
        BY <4>2 DEF left, less, ins, skip
    <3>5. IsFiniteSet(DOMAIN job[w].pending)
      BY JobFields, BatchAt, FS_Subset, IssuesAreFinite DEF IInv
    <3>6. Cardinality(DOMAIN p) = Cardinality(DOMAIN job[w].pending) + 1
      BY <1>5, <1>12, <3>5, FS_AddElement
    <3> QED
      BY <1>2, <1>9, <1>10, <3>1, <3>2, <3>4, <3>6 DEF LoopCounts, Records
  <2>4. InheritsConfirmed(w)'
    <3> SUFFICES ASSUME job[w].kind = "current" PROVE InheritsConfirmed(w)'
      BY <1>9, <1>10 DEF InheritsConfirmed
    <3>1. AnchorFor(w, i) = job[w].latest /\ job[w].latest # NoAnchor
      BY <1>1 DEF AnchorFor
    <3>2. InheritsConfirmed(w)
      BY DEF IInv, WorkerInv
    <3>3. NewDraw(w, i).anchor = job[w].latest
      BY <3>1 DEF NewDraw
    <3>4. job'[w].latest = job[w].latest
      BY <1>9, <1>10, <3>1
    <3>5. Confirmed(job[w].latest)'
      BY <1>2, <1>11, <3>1, <3>2, <3>4 DEF InheritsConfirmed, Confirmed, Stored
    <3> QED
      BY <1>2, <1>5, <1>9, <1>10, <3>1, <3>2, <3>3, <3>4, <3>5 DEF InheritsConfirmed, At
  <2> QED
    BY <2>1, <2>2, <2>3, <2>4 DEF WorkerInv
<1> QED
  BY <1>2, <1>3, <1>8, <1>9, <1>13, LocalStep

LEMMA OpenRunStep ==
    ASSUME IInv, NEW w \in Workers, OpenRun(w)
    PROVE  IInv'
<1>1. PICK r \in RunIds :
        /\ runs[r] = NoRun
        /\ runs' = [runs EXCEPT ![r] = NewRun(job[w].kind)]
        /\ job' = [job EXCEPT ![w] = [@ EXCEPT !.pc = "opened", !.run = r]]
  BY DEF OpenRun
<1> DEFINE j == [job[w] EXCEPT !.pc = "opened", !.run = r]
<1>2. job' = [job EXCEPT ![w] = j] /\ UNCHANGED <<feed, revisions, draws, snapshots>>
  BY <1>1 DEF OpenRun, source
<1>3. j \in Job /\ j.pc = "opened" /\ j.run = r /\ j.kind = job[w].kind
  BY JobFields DEF IInv, Job, Stages
<1> HIDE DEF j
<1>4. job' \in [Workers -> Job] /\ job'[w] = j
      /\ \A v \in Workers \ {w} : job'[v] = job[v]
  BY <1>2, <1>3 DEF IInv, TypeOK
<1>5. NewRun(job[w].kind) \in Run
  BY JobFields DEF IInv, NewRun, Run, Statuses, Errors
<1>6. /\ runs' \in [RunIds -> Run \cup {NoRun}]
      /\ runs'[r] = NewRun(job[w].kind) /\ runs'[r] # NoRun
      /\ runs'[r].status = "running" /\ runs'[r].kind = job[w].kind
      /\ \A x \in RunIds \ {r} : runs'[x] = runs[x]
  BY <1>1, <1>5, AbsentValues DEF IInv, TypeOK, NewRun
<1>7. TypeOK'
  BY <1>2, <1>4, <1>6 DEF IInv, TypeOK
<1>8. Stored' = Stored /\ \A x : DrawsOf(x)' = DrawsOf(x)
  BY <1>2 DEF Stored, DrawsOf
<1>9. \A v \in Workers : HasRun(v) => job[v].run \in RunIds \ {r}
  BY <1>1 DEF IInv, WorkerInv, OwnRun
<1>10. \A v \in Workers : WorkerInv(v)'
  <2>1. ASSUME NEW v \in Workers \ {w} PROVE WorkerInv(v)'
    <3>1. Undisturbed(v)
      BY <1>2, <1>4, <1>6, <1>8, <1>9 DEF Undisturbed
    <3> QED
      BY <3>1, WorkerUndisturbed DEF IInv
  <2>2. WorkerInv(w)'
    <3>1. Unseen(r)'
      BY <1>1, <1>2, <1>8 DEF IInv, FreeRunsUnseen, Unseen
    <3>2. OwnRun(w)' /\ UnseenYet(w)'
      BY <1>3, <1>4, <1>6, <3>1 DEF OwnRun, UnseenYet, Unseen
    <3> QED
      BY <1>3, <1>4, <3>2 DEF WorkerInv, LoopFaithful, LoopCounts, InheritsConfirmed, At
  <2> QED
    BY <2>1, <2>2
<1>11. RunsApart'
  BY <1>3, <1>4, <1>9 DEF IInv, RunsApart, HasRun
<1>12. FreeRunsUnseen'
  BY <1>2, <1>6, <1>8 DEF IInv, FreeRunsUnseen, Unseen
<1>13. AnchorsConfirmed'
  BY <1>2, <1>8 DEF IInv, DrawsInv, AnchorsConfirmed
<1>14. DrawsTraceable'
  <2>1. r \notin {draws[i].run : i \in Stored}
    BY <1>1 DEF IInv, FreeRunsUnseen, Unseen, DrawsOf
  <2>2. \A i \in Stored : draws[i].run \in RunIds
    BY DEF IInv, TypeOK, Stored, Draw
  <2>3. \A i \in Stored : runs'[draws[i].run] = runs[draws[i].run]
    BY <1>6, <2>1, <2>2
  <2> QED
    BY <1>2, <1>8, <2>3 DEF IInv, DrawsInv, DrawsTraceable
<1>15. \A x \in RunIds : Succeeded(x)' => Succeeded(x) /\ runs'[x] = runs[x]
  BY <1>6 DEF Succeeded
<1>16. SucceededRunsAgree' /\ CountsTellTheTruth'
  BY <1>2, <1>8, <1>15 DEF IInv, DrawsInv, SucceededRunsAgree, CountsTellTheTruth
<1> QED
  BY <1>7, <1>10, <1>11, <1>12, <1>13, <1>14, <1>16 DEF IInv, DrawsInv

LEMMA RecordFailureStep ==
    ASSUME IInv, NEW w \in Workers, RecordFailure(w)
    PROVE  IInv'
<1> DEFINE r == job[w].run
<1>1. /\ job' = [job EXCEPT ![w] = IdleJob]
      /\ runs' = [runs EXCEPT ![r].status = "failed", ![r].error = job[w].error]
      /\ UNCHANGED <<feed, revisions, draws, snapshots>>
      /\ HasRun(w)
  BY DEF RecordFailure, source, At, HasRun
<1>2. r \in RunIds /\ runs[r] \in Run /\ runs[r] # NoRun
  BY <1>1 DEF IInv, WorkerInv, OwnRun, TypeOK
<1>3. job' \in [Workers -> Job] /\ job'[w].pc = "idle"
      /\ \A v \in Workers \ {w} : job'[v] = job[v]
  BY <1>1, IdleJobTyped DEF IInv, TypeOK, IdleJob
<1>4. /\ runs'[r] \in Run /\ runs'[r].kind = runs[r].kind /\ runs'[r].status = "failed"
      /\ \A x \in RunIds \ {r} : runs'[x] = runs[x]
      /\ runs' \in [RunIds -> Run \cup {NoRun}]
  BY <1>1, <1>2, JobFields DEF IInv, TypeOK, Run, Statuses
<1> HIDE DEF r
<1>5. runs'[r] # NoRun
  BY <1>4, AbsentValues
<1>6. TypeOK'
  BY <1>1, <1>3, <1>4 DEF IInv, TypeOK
<1>7. Stored' = Stored /\ \A x : DrawsOf(x)' = DrawsOf(x)
  BY <1>1 DEF Stored, DrawsOf
<1>8. \A v \in Workers \ {w} : HasRun(v) => job[v].run \in RunIds \ {r}
  BY <1>1 DEF IInv, WorkerInv, OwnRun, RunsApart, r
<1>9. \A v \in Workers : WorkerInv(v)'
  <2>1. ASSUME NEW v \in Workers \ {w} PROVE WorkerInv(v)'
    <3>1. Undisturbed(v)
      BY <1>1, <1>3, <1>4, <1>7, <1>8 DEF Undisturbed
    <3> QED
      BY <3>1, WorkerUndisturbed DEF IInv
  <2>2. WorkerInv(w)'
    BY <1>3 DEF WorkerInv, OwnRun, UnseenYet, LoopFaithful, LoopCounts, InheritsConfirmed,
                HasRun, InTransaction, At
  <2> QED
    BY <2>1, <2>2
<1>10. RunsApart'
  BY <1>3 DEF IInv, RunsApart, HasRun
<1>11. FreeRunsUnseen'
  BY <1>1, <1>4, <1>5, <1>7 DEF IInv, FreeRunsUnseen, Unseen
<1>12. AnchorsConfirmed'
  BY <1>1, <1>7 DEF IInv, DrawsInv, AnchorsConfirmed
<1>13. DrawsTraceable'
  <2>1. \A i \in Stored : draws[i].run \in RunIds
    BY DEF IInv, TypeOK, Stored, Draw
  <2>2. \A x \in RunIds : runs[x] # NoRun =>
            runs'[x] # NoRun /\ runs'[x].kind = runs[x].kind
    BY <1>4, <1>5
  <2> QED
    BY <1>1, <1>7, <2>1, <2>2 DEF IInv, DrawsInv, DrawsTraceable
<1>14. \A x \in RunIds : Succeeded(x)' => Succeeded(x) /\ runs'[x] = runs[x]
  BY <1>4 DEF Succeeded
<1>15. SucceededRunsAgree' /\ CountsTellTheTruth'
  <2>1. SucceededRunsAgree'
    <3>1. draws' = draws /\ snapshots' = snapshots
      BY <1>1
    <3> QED
      BY <1>7, <1>14, <3>1 DEF IInv, DrawsInv, SucceededRunsAgree
  <2>2. CountsTellTheTruth'
    BY <1>1, <1>7, <1>14 DEF IInv, DrawsInv, CountsTellTheTruth
  <2> QED
    BY <2>1, <2>2
<1> QED
  BY <1>6, <1>9, <1>10, <1>11, <1>12, <1>13, <1>15 DEF IInv, DrawsInv

(* The batch becomes visible, whole, and the worker forgets it. *)
LEMMA BatchWritten ==
    ASSUME IInv, NEW w \in Workers, AtCommit(w), Insertable(w), WriteBatch(w),
           UNCHANGED source,
           NEW j \in Job, job' = [job EXCEPT ![w] = j],
           \/ j.pc = "idle"
           \/ j.pc = "failing" /\ j.run = job[w].run /\ j.kind = job[w].kind
    PROVE  IInv'
<1> DEFINE P == job[w].pending
           d == job[w].doc
<1>1. At(w, "looping") /\ job[w].todo = {} /\ HasRun(w) /\ InTransaction(w)
  BY DEF AtCommit, At, HasRun, InTransaction
<1>2. PICK r \in RunIds :
        r = job[w].run /\ runs[r] # NoRun /\ runs[r].kind = job[w].kind /\ Unseen(r)
  BY <1>1 DEF IInv, WorkerInv, OwnRun, UnseenYet
<1>3. /\ Records(d) \subseteq Issues /\ Records(d) \subseteq DOMAIN d
      /\ Records(d) \subseteq Scope /\ Cardinality(Records(d)) \in Nat
  BY JobFields, RecordsFinite DEF IInv, Records
<1>4. /\ DOMAIN P \subseteq Records(d)
      /\ \A i \in DOMAIN P : Queued(w, i)
      /\ \A i \in Records(d) : i \in DOMAIN P \/ AlreadyStored(w, i)
  BY <1>1 DEF IInv, WorkerInv, LoopFaithful, Done
<1>5. \A i \in DOMAIN P : P[i] \in Draw /\ P[i] # NoDraw
  BY JobFields, BatchAt, AbsentValues DEF IInv
<1>6. DOMAIN P \cap Stored = {}
  BY DEF Insertable
<1>7. /\ draws' \in [Issues -> Draw \cup {NoDraw}]
      /\ \A i \in DOMAIN P : draws'[i] = P[i]
      /\ \A i \in Issues \ DOMAIN P : draws'[i] = draws[i]
  BY <1>3, <1>4, <1>5 DEF IInv, TypeOK, WriteBatch
<1>8. /\ snapshots' \in [RunIds -> Docs \cup {NoSnapshot}]
      /\ snapshots'[r] = Payload(d) /\ snapshots'[r] # NoSnapshot
      /\ \A x \in RunIds \ {r} : snapshots'[x] = snapshots[x]
  <2>1. Payload(d) \in Docs
    BY PayloadTyped, JobFields DEF IInv
  <2> QED
    BY <1>2, <2>1, AbsentValues DEF IInv, TypeOK, WriteBatch
<1>9. DOMAIN Payload(d) = Records(d) /\ \A i \in Records(d) : Payload(d)[i] = d[i]
  BY DEF Payload
<1>10. /\ runs' \in [RunIds -> Run \cup {NoRun}]
       /\ runs'[r] = SucceededRun(w) /\ runs'[r] # NoRun
       /\ \A x \in RunIds \ {r} : runs'[x] = runs[x]
  <2>1. SucceededRun(w) \in Run
    BY SucceededRunTyped DEF IInv
  <2> QED
    BY <1>2, <2>1, AbsentValues DEF IInv, TypeOK, WriteBatch
<1>11. /\ runs'[r].kind = job[w].kind /\ runs'[r].inserted = job[w].inserted
       /\ runs'[r].skipped = job[w].skipped /\ runs'[r].fetched = Cardinality(Records(d))
  BY <1>10 DEF SucceededRun, NewRun
<1>12. job' \in [Workers -> Job] /\ job'[w] = j
       /\ \A v \in Workers \ {w} : job'[v] = job[v]
  BY DEF IInv, TypeOK
<1> HIDE DEF P, d
<1>13. TypeOK'
  BY <1>7, <1>8, <1>10, <1>12 DEF IInv, TypeOK, source
<1>14. Stored' = Stored \cup DOMAIN P
  BY <1>3, <1>4, <1>5, <1>7 DEF Stored
<1>15. \A i \in Stored : draws'[i] = draws[i]
  BY <1>6, <1>7 DEF Stored
<1>16. \A i \in DOMAIN P : /\ draws'[i].body = d[i] /\ draws'[i].run = r
                           /\ draws'[i].kind = job[w].kind
                           /\ job[w].kind = "history" => draws'[i].anchor = Pet[i]
  BY <1>2, <1>4, <1>7 DEF Queued, P, d
<1>17. DrawsOf(r)' = DOMAIN P /\ \A x \in RunIds \ {r} : DrawsOf(x)' = DrawsOf(x)
  <2>1. \A x : DrawsOf(x)' = {i \in Stored' : draws'[i].run = x}
    BY DEF DrawsOf
  <2>2. \A i \in Stored : draws[i].run # r
    BY <1>2 DEF Unseen, DrawsOf
  <2>3. DrawsOf(r)' = DOMAIN P
    BY <1>14, <1>15, <1>16, <2>1, <2>2
  <2>4. ASSUME NEW x \in RunIds \ {r} PROVE DrawsOf(x)' = DrawsOf(x)
    <3>1. \A i \in DOMAIN P : draws'[i].run # x
      BY <1>16
    <3>2. {i \in Stored' : draws'[i].run = x} = {i \in Stored : draws[i].run = x}
      BY <1>14, <1>15, <3>1
    <3> QED
      BY <2>1, <3>2 DEF DrawsOf
  <2> QED
    BY <2>3, <2>4
<1>18. \A v \in Workers \ {w} : HasRun(v) => job[v].run \in RunIds \ {r}
  BY <1>1, <1>2 DEF IInv, WorkerInv, OwnRun, RunsApart
<1>19. \A v \in Workers : WorkerInv(v)'
  <2>1. ASSUME NEW v \in Workers \ {w} PROVE WorkerInv(v)'
    <3>1. \A i \in Issues : draws[i] # NoDraw => draws'[i] = draws[i]
      BY <1>15 DEF Stored
    <3>2. Undisturbed(v)
      BY <1>8, <1>10, <1>12, <1>17, <1>18, <3>1 DEF Undisturbed
    <3> QED
      BY <3>2, WorkerUndisturbed DEF IInv
  <2>2. OwnRun(w)'
    BY <1>2, <1>10, <1>11, <1>12 DEF OwnRun, HasRun
  <2>3. WorkerInv(w)'
    BY <1>12, <2>2 DEF WorkerInv, UnseenYet, LoopFaithful, LoopCounts,
                       InheritsConfirmed, InTransaction, At
  <2> QED
    BY <2>1, <2>3
<1>20. RunsApart'
  BY <1>1, <1>2, <1>12, <1>18 DEF IInv, RunsApart, HasRun
<1>21. FreeRunsUnseen'
  BY <1>8, <1>10, <1>17 DEF IInv, FreeRunsUnseen, Unseen
<1>22. AnchorsConfirmed'
  <2>1. \A a : Confirmed(a) => Confirmed(a)'
    BY <1>14, <1>15 DEF Confirmed
  <2>2. \A i \in Stored : Confirmed(draws[i].anchor)
    BY DEF IInv, DrawsInv, AnchorsConfirmed, Confirmed
  <2>3. \A i \in DOMAIN P : \E h \in Stored' :
            draws'[h].kind = "history" /\ draws'[h].anchor = draws'[i].anchor
    <3>1. CASE job[w].kind = "history"
      BY <1>14, <1>16, <3>1
    <3>2. CASE job[w].kind = "current"
      <4>1. \A i \in DOMAIN P : Confirmed(P[i].anchor)
        BY <1>1, <3>2 DEF IInv, WorkerInv, InheritsConfirmed, P
      <4> QED
        BY <1>7, <1>14, <1>15, <4>1 DEF Confirmed
    <3> QED
      BY <3>1, <3>2, JobFields DEF IInv, Kinds
  <2> QED
    BY <1>14, <1>15, <2>2, <2>3 DEF AnchorsConfirmed, Confirmed
<1>23. DrawsTraceable'
  <2>1. ASSUME NEW i \in Stored
        PROVE  /\ draws[i].run \in RunIds \ {r}
               /\ snapshots'[draws[i].run] = snapshots[draws[i].run]
               /\ runs'[draws[i].run] = runs[draws[i].run]
    <3>1. draws[i].run \in RunIds \ {r}
      BY <1>2 DEF IInv, TypeOK, Stored, Draw, Unseen, DrawsOf
    <3> QED
      BY <1>8, <1>10, <3>1
  <2>2. \A i \in Stored :
            LET x == draws'[i].run IN
            /\ snapshots'[x] # NoSnapshot /\ i \in DOMAIN snapshots'[x]
            /\ snapshots'[x][i] = draws'[i].body
            /\ runs'[x] # NoRun /\ runs'[x].kind = draws'[i].kind
    BY <1>15, <2>1 DEF IInv, DrawsInv, DrawsTraceable
  <2>3. \A i \in DOMAIN P :
            LET x == draws'[i].run IN
            /\ snapshots'[x] # NoSnapshot /\ i \in DOMAIN snapshots'[x]
            /\ snapshots'[x][i] = draws'[i].body
            /\ runs'[x] # NoRun /\ runs'[x].kind = draws'[i].kind
    BY <1>4, <1>8, <1>9, <1>10, <1>11, <1>16
  <2>4. \A x \in RunIds : snapshots'[x] # NoSnapshot => DOMAIN snapshots'[x] \subseteq Scope
    BY <1>3, <1>8, <1>9 DEF IInv, DrawsInv, DrawsTraceable
  <2> QED
    BY <1>14, <2>2, <2>3, <2>4 DEF DrawsTraceable
<1>24. \A x \in RunIds \ {r} : Succeeded(x)' => Succeeded(x)
  BY <1>10 DEF Succeeded
<1>25. SucceededRunsAgree'
  <2>1. ASSUME NEW x \in RunIds \ {r}, Succeeded(x)',
               NEW i \in DOMAIN snapshots[x]
        PROVE  /\ i \in Stored' /\ draws'[i].body = snapshots[x][i]
               /\ runs[x].kind = "history" => draws'[i].anchor = Pet[i]
    BY <1>14, <1>15, <1>24, <2>1 DEF IInv, DrawsInv, SucceededRunsAgree
  <2>2. \A x \in RunIds \ {r} : Succeeded(x)' => snapshots[x] # NoSnapshot
    BY <1>24 DEF IInv, DrawsInv, SucceededRunsAgree
  <2>3. ASSUME NEW i \in Records(d)
        PROVE  /\ i \in Stored' /\ draws'[i].body = d[i]
               /\ job[w].kind = "history" => draws'[i].anchor = Pet[i]
    BY <1>4, <1>14, <1>15, <1>16 DEF AlreadyStored, d
  <2> QED
    BY <1>8, <1>9, <1>10, <1>11, <2>1, <2>2, <2>3 DEF SucceededRunsAgree
<1>26. CountsTellTheTruth'
  <2>1. \A x \in RunIds \ {r} : Succeeded(x)' =>
            /\ runs'[x].inserted = Cardinality(DrawsOf(x)')
            /\ runs'[x].fetched = Cardinality(DOMAIN snapshots'[x])
            /\ runs'[x].inserted + runs'[x].skipped = runs'[x].fetched
    BY <1>8, <1>10, <1>17, <1>24 DEF IInv, DrawsInv, CountsTellTheTruth
  <2>2. /\ job[w].inserted = Cardinality(DOMAIN P)
        /\ job[w].inserted + job[w].skipped = Cardinality(Records(d))
    <3>1. Cardinality(job[w].todo) = 0
      BY <1>1, FS_EmptySet
    <3>2. job[w].inserted \in Nat /\ job[w].skipped \in Nat
      BY JobFields DEF IInv
    <3>3. job[w].inserted = Cardinality(DOMAIN P)
          /\ job[w].inserted + job[w].skipped + Cardinality(job[w].todo)
               = Cardinality(Records(d))
      BY <1>1 DEF IInv, WorkerInv, LoopCounts, P, d
    <3>4. job[w].inserted + job[w].skipped + 0 = job[w].inserted + job[w].skipped
      BY <3>2
    <3> QED
      BY <3>1, <3>3, <3>4
  <2>3. /\ runs'[r].inserted = Cardinality(DrawsOf(r)')
        /\ runs'[r].fetched = Cardinality(DOMAIN snapshots'[r])
        /\ runs'[r].inserted + runs'[r].skipped = runs'[r].fetched
    BY <1>8, <1>9, <1>11, <1>17, <2>2
  <2>4. \A x \in RunIds : Succeeded(x)' =>
            /\ runs'[x].inserted = Cardinality(DrawsOf(x)')
            /\ runs'[x].fetched = Cardinality(DOMAIN snapshots'[x])
            /\ runs'[x].inserted + runs'[x].skipped = runs'[x].fetched
    BY <2>1, <2>3
  <2> QED
    BY <2>4 DEF CountsTellTheTruth
<1> QED
  BY <1>13, <1>19, <1>20, <1>21, <1>22, <1>23, <1>25, <1>26 DEF IInv, DrawsInv

LEMMA WorkerStep ==
    ASSUME IInv, NEW w \in Workers, Start(w) \/ Progress(w) \/ Trouble(w)
    PROVE  IInv'
<1>1. CASE \E kind \in Kinds : Fetch(w, kind)
  BY <1>1, FetchStep
<1>2. CASE OpenRun(w)
  BY <1>2, OpenRunStep
<1>3. CASE ReadAnchor(w)
  BY <1>3, ReadAnchorStep
<1>4. CASE RefuseWithoutAnchor(w)
  BY <1>4, FailStep DEF RefuseWithoutAnchor, InTransaction, At, Errors
<1>5. CASE SkipStored(w)
  BY <1>5, SkipStoredStep
<1>6. CASE RefuseConflict(w)
  BY <1>6, FailStep DEF RefuseConflict, InTransaction, At, Errors
<1>7. CASE QueueInsert(w)
  BY <1>7, QueueInsertStep
<1>8. CASE Commit(w)
  <2>1. IdleJob \in Job /\ IdleJob.pc = "idle"
    BY IdleJobTyped DEF IdleJob
  <2> QED
    BY <1>8, <2>1, BatchWritten DEF Commit
<1>9. CASE CommitRejected(w)
  BY <1>9, FailStep DEF CommitRejected, AtCommit, InTransaction, At, Errors
<1>10. CASE RecordFailure(w)
  BY <1>10, RecordFailureStep
<1>11. CASE CommitAckLost(w)
  <2> DEFINE j == [IdleJob EXCEPT !.pc = "failing", !.kind = job[w].kind,
                                  !.run = job[w].run, !.error = "SYNC_FAILED"]
  <2>1. j \in Job /\ j.pc = "failing" /\ j.run = job[w].run /\ j.kind = job[w].kind
    BY IdleJobTyped, JobFields DEF IInv, Job, IdleJob, Stages, Errors
  <2>2. job' = [job EXCEPT ![w] = j]
    BY <1>11 DEF CommitAckLost
  <2> HIDE DEF j
  <2> QED
    BY <1>11, <2>1, <2>2, BatchWritten DEF CommitAckLost
<1>12. CASE TransientError(w)
  BY <1>12, FailStep DEF TransientError, InTransaction, Errors
<1>13. CASE Crash(w)
  BY <1>13, GoIdleStep DEF Crash
<1> QED
  BY <1>1, <1>2, <1>3, <1>4, <1>5, <1>6, <1>7, <1>8, <1>9, <1>10, <1>11, <1>12, <1>13
     DEF Start, Progress, Record, End, Trouble

LEMMA InvNext == IInv /\ [Next]_vars => IInv'
<1> SUFFICES ASSUME IInv, [Next]_vars PROVE IInv'
  OBVIOUS
<1>1. CASE Publish \/ Revise
  BY <1>1, SourceStep
<1>2. CASE \E w \in Workers : Start(w) \/ Progress(w) \/ Trouble(w)
  BY <1>2, WorkerStep
<1>3. CASE UNCHANGED vars
  <2>1. UNCHANGED <<feed, revisions, draws, runs, snapshots, job>>
    BY <1>3 DEF vars
  <2>2. Stored' = Stored /\ \A r : DrawsOf(r)' = DrawsOf(r)
    BY <2>1 DEF Stored, DrawsOf
  <2>3. \A v \in Workers : Undisturbed(v)
    BY <2>1, <2>2 DEF Undisturbed
  <2>4. \A v \in Workers : WorkerInv(v)'
    BY <2>3, WorkerUndisturbed DEF IInv
  <2>5. TypeOK' /\ RunsApart' /\ FreeRunsUnseen'
    BY <2>1, <2>2 DEF IInv, TypeOK, RunsApart, HasRun, FreeRunsUnseen, Unseen
  <2>6. DrawsInv'
    BY <2>1, <2>2 DEF IInv, DrawsInv, AnchorsConfirmed, DrawsTraceable, SucceededRunsAgree,
                      CountsTellTheTruth, Succeeded
  <2> QED
    BY <2>4, <2>5, <2>6 DEF IInv
<1> QED
  BY <1>1, <1>2, <1>3 DEF Next

-----------------------------------------------------------------------------
(* Theorems                                                                *)

(* The inductive invariant holds in every reachable state. *)
THEOREM Invariance == Spec => []IInv
  BY InvInit, InvNext, PTL DEF Spec

(* Every variable keeps its type: in particular the run rows only ever     *)
(* hold the statuses that the check constraint of source_sync_runs allows. *)
THEOREM TypeCorrect == Spec => []TypeOK
<1>1. IInv => TypeOK
  BY DEF IInv
<1> QED
  BY <1>1, Invariance, PTL

(* Whatever workers race, fail or die, an anchor in the draw table is one  *)
(* that the history interface gave for some stored draw.                   *)
THEOREM AnchorsAlwaysConfirmed == Spec => []AnchorsConfirmed
<1>1. IInv => AnchorsConfirmed
  BY DEF IInv, DrawsInv
<1> QED
  BY <1>1, Invariance, PTL

(* Every stored draw says what the snapshot of its run says. *)
THEOREM DrawsAlwaysTraceable == Spec => []DrawsTraceable
<1>1. IInv => DrawsTraceable
  BY DEF IInv, DrawsInv
<1> QED
  BY <1>1, Invariance, PTL

(* A run reported as succeeded vouches for all the rows it was given, for  *)
(* ever, although it compared them one by one at different times.          *)
THEOREM SucceededRunsAlwaysAgree == Spec => []SucceededRunsAgree
<1>1. IInv => SucceededRunsAgree
  BY DEF IInv, DrawsInv
<1> QED
  BY <1>1, Invariance, PTL

(* The counts a succeeded run reports are those of the draw table. *)
THEOREM CountsAlwaysTrue == Spec => []CountsTellTheTruth
<1>1. IInv => CountsTellTheTruth
  BY DEF IInv, DrawsInv
<1> QED
  BY <1>1, Invariance, PTL

-----------------------------------------------------------------------------
(* All or nothing, first when every commit that takes effect is            *)
(* acknowledged: then a worker about to mark its run failed has not        *)
(* committed the batch.                                                    *)

NoTrace == \A r \in RunIds : ~ Succeeded(r) => Unseen(r)

AtomicInv ==
    /\ NoTrace
    /\ \A w \in Workers : At(w, "failing") => ~ Succeeded(job[w].run)

LEMMA AtomicWorkerStep ==
    ASSUME ~ AcksGetLost, IInv, AtomicInv, NEW w \in Workers,
           Start(w) \/ Progress(w) \/ Trouble(w)
    PROVE  AtomicInv'
<1>1. ASSUME UNCHANGED database, NEW j, job' = [job EXCEPT ![w] = j],
             j.pc = "failing" => InTransaction(w) /\ j.run = job[w].run
      PROVE  AtomicInv'
  <2>1. draws' = draws /\ snapshots' = snapshots /\ runs' = runs
    BY <1>1 DEF database
  <2>2. NoTrace'
    BY <2>1 DEF AtomicInv, NoTrace, Unseen, Succeeded, DrawsOf, Stored
  <2>3. job'[w] = j /\ \A v \in Workers \ {w} : job'[v] = job[v]
    BY <1>1 DEF IInv, TypeOK
  <2>4. InTransaction(w) => ~ Succeeded(job[w].run)
    BY DEF IInv, WorkerInv, UnseenYet, Succeeded
  <2> QED
    BY <1>1, <2>1, <2>2, <2>3, <2>4 DEF AtomicInv, At, Succeeded
<1>2. ASSUME NEW e, InTransaction(w), Fail(w, e) PROVE AtomicInv'
  <2> DEFINE j == [IdleJob EXCEPT !.pc = "failing", !.kind = job[w].kind,
                                  !.run = job[w].run, !.error = e]
  <2>1. j.run = job[w].run
    BY DEF IdleJob
  <2>2. job' = [job EXCEPT ![w] = j] /\ UNCHANGED database
    BY <1>2 DEF Fail
  <2> HIDE DEF j
  <2> QED
    BY <1>1, <1>2, <2>1, <2>2
<1>3. ASSUME job' = [job EXCEPT ![w] = IdleJob], UNCHANGED <<draws, snapshots>>,
             \A x \in RunIds : Succeeded(x) <=> Succeeded(x)'
      PROVE  AtomicInv'
  <2>1. job'[w].pc = "idle" /\ \A v \in Workers \ {w} : job'[v] = job[v]
    BY <1>3, IdleJobTyped DEF IInv, TypeOK, IdleJob
  <2>2. NoTrace'
    BY <1>3 DEF AtomicInv, NoTrace, Unseen, DrawsOf, Stored
  <2>3. \A v \in Workers : At(v, "failing") => job[v].run \in RunIds
    BY DEF IInv, WorkerInv, OwnRun, HasRun, At
  <2>4. ASSUME NEW v \in Workers \ {w}, job'[v].pc = "failing"
        PROVE  job'[v].run \in RunIds /\ ~ Succeeded(job'[v].run)
    BY <2>1, <2>3, <2>4 DEF AtomicInv, At
  <2>5. ASSUME NEW v \in Workers, job'[v].pc = "failing"
        PROVE  ~ Succeeded(job[v].run)'
    <3>1. v # w
      BY <2>1, <2>5
    <3>2. PICK x \in RunIds : x = job'[v].run /\ ~ Succeeded(x)
      BY <2>4, <2>5, <3>1
    <3>3. ~ Succeeded(x)'
      BY <1>3, <3>2
    <3> QED
      BY <3>2, <3>3 DEF Succeeded
  <2> QED
    BY <2>2, <2>5 DEF AtomicInv, At
<1>4. CASE \E kind \in Kinds : Fetch(w, kind)
  <2>1. PICK kind \in Kinds : Fetch(w, kind)
    BY <1>4
  <2> DEFINE j == [IdleJob EXCEPT !.pc = "received", !.kind = kind, !.doc = Served(kind)]
  <2>2. job' = [job EXCEPT ![w] = j] /\ UNCHANGED database /\ j.pc = "received"
    BY <2>1 DEF Fetch, IdleJob
  <2> HIDE DEF j
  <2> QED
    BY <1>1, <2>2
<1>5. CASE OpenRun(w)
  <2>1. PICK r \in RunIds :
          /\ runs[r] = NoRun
          /\ runs' = [runs EXCEPT ![r] = NewRun(job[w].kind)]
          /\ job' = [job EXCEPT ![w] = [@ EXCEPT !.pc = "opened", !.run = r]]
    BY <1>5 DEF OpenRun
  <2>2. \A x \in RunIds : Succeeded(x) <=> Succeeded(x)'
    BY <2>1 DEF Succeeded, NewRun, IInv, TypeOK
  <2>3. draws' = draws /\ snapshots' = snapshots
    BY <1>5 DEF OpenRun
  <2>4. NoTrace'
    BY <2>2, <2>3 DEF AtomicInv, NoTrace, Unseen, DrawsOf, Stored
  <2>5. job'[w].pc = "opened" /\ \A v \in Workers \ {w} : job'[v] = job[v]
    BY <2>1, JobFields DEF IInv, TypeOK, Job
  <2>6. ASSUME NEW v \in Workers, job'[v].pc = "failing"
        PROVE  ~ Succeeded(job[v].run)'
    <3>1. job'[v] = job[v] /\ At(v, "failing")
      BY <2>5, <2>6 DEF At
    <3>2. PICK x \in RunIds : x = job[v].run /\ ~ Succeeded(x)
      BY <3>1 DEF AtomicInv, IInv, WorkerInv, OwnRun, HasRun, At
    <3>3. ~ Succeeded(x)'
      BY <2>2, <3>2
    <3> QED
      BY <3>1, <3>2, <3>3 DEF Succeeded
  <2> QED
    BY <2>4, <2>6 DEF AtomicInv, At
<1>6. CASE ReadAnchor(w)
  <2>1. PICK a \in LatestAnchor :
          job' = [job EXCEPT ![w] = [@ EXCEPT
                     !.pc = "looping", !.latest = a, !.todo = Records(job[w].doc),
                     !.pending = NoRows, !.inserted = 0, !.skipped = 0]]
    BY <1>6 DEF ReadAnchor
  <2>2. UNCHANGED database /\ job[w] \in Job
    BY <1>6, JobFields DEF ReadAnchor, IInv
  <2> DEFINE j == [job[w] EXCEPT
                     !.pc = "looping", !.latest = a, !.todo = Records(job[w].doc),
                     !.pending = NoRows, !.inserted = 0, !.skipped = 0]
  <2>3. job' = [job EXCEPT ![w] = j] /\ j.pc = "looping"
    BY <2>1, <2>2 DEF Job
  <2> HIDE DEF j
  <2> QED
    BY <1>1, <2>2, <2>3
<1>7. CASE SkipStored(w) \/ QueueInsert(w)
  <2>1. PICK j : job' = [job EXCEPT ![w] = j] /\ j.pc = job[w].pc
    BY <1>7, JobFields DEF SkipStored, QueueInsert, IInv, Job
  <2>2. UNCHANGED database /\ job[w].pc = "looping"
    BY <1>7 DEF SkipStored, QueueInsert, At
  <2> QED
    BY <1>1, <2>1, <2>2
<1>8. CASE RefuseWithoutAnchor(w) \/ RefuseConflict(w) \/ CommitRejected(w) \/ TransientError(w)
  BY <1>2, <1>8 DEF RefuseWithoutAnchor, RefuseConflict, CommitRejected, TransientError,
                    AtCommit, At, InTransaction
<1>9. CASE Commit(w)
  <2>1. PICK r \in RunIds : r = job[w].run /\ Unseen(r)
    BY <1>9 DEF Commit, AtCommit, At, IInv, WorkerInv, OwnRun, UnseenYet, HasRun,
                InTransaction
  <2>2. Succeeded(r)' /\ \A x \in RunIds \ {r} : Succeeded(x) <=> Succeeded(x)'
    <3>1. SucceededRun(w) \in Run /\ SucceededRun(w).status = "succeeded"
      BY SucceededRunTyped DEF IInv, SucceededRun, NewRun
    <3> QED
      BY <1>9, <2>1, <3>1, AbsentValues DEF Commit, WriteBatch, Succeeded, IInv, TypeOK
  <2>3. \A x \in RunIds \ {r} : Unseen(x) => Unseen(x)'
    <3>1. \A x \in RunIds \ {r} : snapshots'[x] = snapshots[x]
      BY <1>9, <2>1 DEF Commit, WriteBatch, IInv, TypeOK
    <3>2. LoopFaithful(w) /\ At(w, "looping")
      BY <1>9 DEF IInv, WorkerInv, Commit, AtCommit
    <3>3. \A i \in DOMAIN job[w].pending : job[w].pending[i].run = r
      BY <2>1, <3>2 DEF LoopFaithful, Queued
    <3>4. \A i \in Issues : draws'[i] = draws[i] \/ draws'[i].run = r
      BY <1>9, <3>3 DEF Commit, WriteBatch
    <3>5. ASSUME NEW x \in RunIds \ {r}, DrawsOf(x) = {} PROVE DrawsOf(x)' = {}
      BY <3>4, <3>5 DEF DrawsOf, Stored
    <3> QED
      BY <3>1, <3>5 DEF Unseen
  <2>4. NoTrace'
    BY <2>2, <2>3 DEF AtomicInv, NoTrace, Unseen
  <2>5. job'[w].pc = "idle" /\ \A v \in Workers \ {w} : job'[v] = job[v]
    BY <1>9, IdleJobTyped DEF Commit, IInv, TypeOK, IdleJob
  <2>6. ASSUME NEW v \in Workers, job'[v].pc = "failing"
        PROVE  ~ Succeeded(job[v].run)'
    <3>1. job'[v] = job[v] /\ At(v, "failing") /\ v # w
      BY <2>5, <2>6 DEF At
    <3>2. PICK x \in RunIds : x = job[v].run /\ ~ Succeeded(x)
      BY <3>1 DEF AtomicInv, IInv, WorkerInv, OwnRun, HasRun, At
    <3>3. x # r
      BY <1>9, <2>1, <3>1, <3>2 DEF Commit, AtCommit, At, IInv, RunsApart, HasRun
    <3>4. ~ Succeeded(x)'
      BY <2>2, <3>2, <3>3
    <3> QED
      BY <3>1, <3>2, <3>4 DEF Succeeded
  <2> QED
    BY <2>4, <2>6 DEF AtomicInv, At
<1>10. CASE RecordFailure(w)
  <2>1. PICK r \in RunIds : r = job[w].run /\ ~ Succeeded(r) /\ runs[r] \in Run
    BY <1>10 DEF RecordFailure, AtomicInv, IInv, WorkerInv, OwnRun, HasRun, At, TypeOK
  <2>2. runs' = [runs EXCEPT ![r].status = "failed", ![r].error = job[w].error]
    BY <1>10, <2>1 DEF RecordFailure
  <2>3. runs'[r].status = "failed" /\ \A x \in RunIds \ {r} : runs'[x] = runs[x]
    BY <2>1, <2>2 DEF IInv, TypeOK, Run
  <2>4. \A x \in RunIds : Succeeded(x) <=> Succeeded(x)'
    BY <2>1, <2>3 DEF Succeeded
  <2> QED
    BY <1>3, <1>10, <2>4 DEF RecordFailure
<1>11. CASE Crash(w)
  BY <1>3, <1>11 DEF Crash, database, Succeeded
<1> QED
  BY <1>4, <1>5, <1>6, <1>7, <1>8, <1>9, <1>10, <1>11
     DEF Start, Progress, Record, End, Trouble, CommitAckLost

LEMMA AtomicNext ==
    ASSUME ~ AcksGetLost
    PROVE  IInv /\ AtomicInv /\ [Next]_vars => AtomicInv'
<1> SUFFICES ASSUME IInv, AtomicInv, [Next]_vars PROVE AtomicInv'
  OBVIOUS
<1>1. CASE \E w \in Workers : Start(w) \/ Progress(w) \/ Trouble(w)
  BY <1>1, AtomicWorkerStep
<1>2. CASE UNCHANGED <<draws, runs, snapshots, job>>
  BY <1>2 DEF AtomicInv, NoTrace, Unseen, Succeeded, DrawsOf, Stored, At
<1> QED
  BY <1>1, <1>2 DEF Next, Publish, Revise, vars, database

LEMMA AcknowledgedAtomicity ==
    ASSUME ~ AcksGetLost
    PROVE  Spec => []FailedRunsLeaveNothing
<1>1. Init => AtomicInv
  BY DEF Init, AtomicInv, NoTrace, Unseen, DrawsOf, Stored, Succeeded, At, IdleJob
<1>2. IInv /\ AtomicInv /\ [Next]_vars => AtomicInv'
  BY AtomicNext
<1>3. AtomicInv => FailedRunsLeaveNothing
  BY DEF AtomicInv, NoTrace, Unseen, FailedRunsLeaveNothing, LeftNothing
<1> QED
  BY <1>1, <1>2, <1>3, Invariance, PTL DEF Spec

(* And when acknowledgements get lost: a run of which anything can be seen *)
(* has left its whole batch, and its row keeps the counts of it whatever   *)
(* its status becomes.                                                     *)
WholeOrUnseen ==
    \A r \in RunIds : Unseen(r) \/ (runs[r] # NoRun /\ LeftEverything(r))

LEMMA SucceededLeftEverything ==
    ASSUME IInv, NEW r \in RunIds, Succeeded(r)
    PROVE  runs[r] # NoRun /\ LeftEverything(r)
BY DEF IInv, DrawsInv, SucceededRunsAgree, CountsTellTheTruth, LeftEverything, Succeeded

LEMMA WholeBatch ==
    ASSUME IInv, IInv', WholeOrUnseen, NEW w \in Workers, AtCommit(w),
           Insertable(w), WriteBatch(w)
    PROVE  WholeOrUnseen'
<1>1. PICK r \in RunIds : r = job[w].run
  BY DEF AtCommit, At, IInv, WorkerInv, OwnRun, HasRun
<1>2. Succeeded(r)'
  <2>1. SucceededRun(w) \in Run /\ SucceededRun(w).status = "succeeded"
    BY SucceededRunTyped DEF IInv, SucceededRun, NewRun
  <2> QED
    BY <1>1, <2>1, AbsentValues DEF WriteBatch, Succeeded, IInv, TypeOK
<1>3. (runs[r] # NoRun /\ LeftEverything(r))'
  BY <1>2, SucceededLeftEverything DEF IInv, DrawsInv, SucceededRunsAgree,
     CountsTellTheTruth, LeftEverything, Succeeded
<1>4. ASSUME NEW x \in RunIds \ {r} PROVE (Unseen(x) \/ (runs[x] # NoRun /\ LeftEverything(x)))'
  <2>1. snapshots'[x] = snapshots[x] /\ runs'[x] = runs[x]
    BY <1>1, <1>4 DEF WriteBatch, IInv, TypeOK
  <2>2. LoopFaithful(w) /\ At(w, "looping")
    BY DEF IInv, WorkerInv, AtCommit
  <2>3. \A i \in DOMAIN job[w].pending : job[w].pending[i].run = r
    BY <1>1, <2>2 DEF LoopFaithful, Queued
  <2>4. /\ \A i \in DOMAIN job[w].pending : i \notin Stored /\ draws'[i].run # x
        /\ \A i \in Issues \ DOMAIN job[w].pending : draws'[i] = draws[i]
    BY <1>4, <2>3, JobFields DEF Insertable, WriteBatch, IInv, Stored, Scope
  <2>5. DrawsOf(x)' = DrawsOf(x)
    BY <2>4 DEF DrawsOf, Stored
  <2> QED
    BY <2>1, <2>5 DEF WholeOrUnseen, Unseen, LeftEverything
<1> QED
  BY <1>1, <1>3, <1>4 DEF WholeOrUnseen

LEMMA WholeNext == IInv /\ WholeOrUnseen /\ [Next]_vars => WholeOrUnseen'
<1> SUFFICES ASSUME IInv, WholeOrUnseen, [Next]_vars PROVE WholeOrUnseen'
  OBVIOUS
<1>1. IInv'
  BY InvNext
<1>2. ASSUME UNCHANGED <<draws, snapshots>>,
             \A x \in RunIds : runs[x] # NoRun =>
                 /\ runs'[x] # NoRun
                 /\ runs'[x].fetched = runs[x].fetched
                 /\ runs'[x].inserted = runs[x].inserted
                 /\ runs'[x].skipped = runs[x].skipped
      PROVE  WholeOrUnseen'
  BY <1>2 DEF WholeOrUnseen, Unseen, LeftEverything, DrawsOf, Stored
<1>3. ASSUME NEW w \in Workers, Commit(w) \/ CommitAckLost(w) PROVE WholeOrUnseen'
  BY <1>1, <1>3, WholeBatch DEF Commit, CommitAckLost
<1>4. ASSUME NEW w \in Workers, OpenRun(w) PROVE WholeOrUnseen'
  <2>1. PICK r \in RunIds : runs[r] = NoRun /\ runs' = [runs EXCEPT ![r] = NewRun(job[w].kind)]
    BY <1>4 DEF OpenRun
  <2>2. \A x \in RunIds : runs[x] # NoRun => runs'[x] = runs[x]
    BY <2>1 DEF IInv, TypeOK
  <2>3. UNCHANGED <<draws, snapshots>>
    BY <1>4 DEF OpenRun
  <2> QED
    BY <1>2, <2>2, <2>3
<1>5. ASSUME NEW w \in Workers, RecordFailure(w) PROVE WholeOrUnseen'
  <2>1. PICK r \in RunIds : r = job[w].run /\ runs[r] \in Run
    BY <1>5 DEF RecordFailure, IInv, WorkerInv, OwnRun, HasRun, At, TypeOK
  <2>2. runs' = [runs EXCEPT ![r].status = "failed", ![r].error = job[w].error]
    BY <1>5, <2>1 DEF RecordFailure
  <2>3. /\ runs'[r] = [runs[r] EXCEPT !.status = "failed", !.error = job[w].error]
        /\ \A x \in RunIds \ {r} : runs'[x] = runs[x]
    BY <2>1, <2>2 DEF IInv, TypeOK, Run
  <2>4. /\ runs'[r].status = "failed"
        /\ runs'[r].fetched = runs[r].fetched
        /\ runs'[r].inserted = runs[r].inserted
        /\ runs'[r].skipped = runs[r].skipped
    BY <2>1, <2>3 DEF Run
  <2>5. runs'[r] # NoRun
    <3>1. job[w].error \in Errors
      BY JobFields DEF IInv
    <3>2. runs'[r] \in Run
      BY <2>1, <2>3, <3>1 DEF Run, Statuses
    <3> QED
      BY <3>2, AbsentValues
  <2>6. UNCHANGED <<draws, snapshots>>
    BY <1>5 DEF RecordFailure
  <2> QED
    BY <1>2, <2>3, <2>4, <2>5, <2>6
<1>6. CASE UNCHANGED <<draws, runs, snapshots>>
  BY <1>2, <1>6
<1>7. ASSUME NEW w \in Workers, Start(w) \/ Progress(w) \/ Trouble(w)
      PROVE  \/ UNCHANGED <<draws, runs, snapshots>>
             \/ OpenRun(w) \/ RecordFailure(w) \/ Commit(w) \/ CommitAckLost(w)
  BY <1>7 DEF Start, Progress, Trouble, Record, End, Fetch, ReadAnchor,
     RefuseWithoutAnchor, SkipStored, RefuseConflict, QueueInsert, CommitRejected,
     TransientError, Crash, Fail, database
<1> QED
  BY <1>3, <1>4, <1>5, <1>6, <1>7 DEF Next, Publish, Revise, vars, database

(* Whatever fails, dies or is lost at whatever point, a run that did not   *)
(* succeed leaves nothing behind, no draw and no snapshot, unless it was   *)
(* the acknowledgement of its commit that got lost: then it leaves all.    *)
THEOREM Atomicity == Spec => []FailedRunsLeaveNothing
<1>1. CASE ~ AcksGetLost
  BY <1>1, AcknowledgedAtomicity
<1>2. CASE AcksGetLost
  <2>1. Init => WholeOrUnseen
    BY DEF Init, WholeOrUnseen, Unseen, DrawsOf, Stored
  <2>2. WholeOrUnseen => FailedRunsLeaveNothing
    BY <1>2 DEF WholeOrUnseen, Unseen, FailedRunsLeaveNothing, LeftNothing
  <2> QED
    BY <2>1, <2>2, WholeNext, Invariance, PTL DEF Spec
<1> QED
  BY <1>1, <1>2

-----------------------------------------------------------------------------
(* Refinement                                                              *)

LEMMA BatchGrowsLedger ==
    ASSUME IInv, NEW w \in Workers, AtCommit(w), Insertable(w), WriteBatch(w)
    PROVE  Ledger!Next \/ UNCHANGED LedgerView
<1> DEFINE P == job[w].pending
           V == DOMAIN P
<1>1. At(w, "looping") /\ LoopFaithful(w) /\ InheritsConfirmed(w)
  BY DEF AtCommit, IInv, WorkerInv
<1>2. V \subseteq Issues /\ \A i \in V : P[i] \in Draw /\ P[i] # NoDraw
  BY JobFields, BatchAt, AbsentValues DEF IInv
<1>3. V \subseteq Scope /\ \A i \in V : draws[i] = NoDraw
  BY <1>2 DEF Insertable, Stored
<1>4. \A i \in V : P[i].kind = job[w].kind
  BY <1>1 DEF LoopFaithful, Queued
<1>5. /\ \A i \in V : draws'[i] = P[i]
      /\ \A i \in Issues \ V : draws'[i] = draws[i]
  BY <1>2 DEF WriteBatch
<1> HIDE DEF P
<1>6. LedgerView' \in [Issues -> Ledger!Entry \cup {NoDraw}]
  <2>1. \A i \in Issues : draws'[i] \in Draw \cup {NoDraw}
    BY <1>2, <1>5 DEF IInv, TypeOK
  <2> QED
    BY <2>1 DEF LedgerView, Ledger!Entry, Draw, Kinds
<1>7. \A i \in Issues \ V : LedgerView'[i] = LedgerView[i]
  BY <1>5 DEF LedgerView
<1>8. \A i \in V : LedgerView'[i] = [body |-> P[i].body, anchor |-> P[i].anchor,
                                     kind |-> P[i].kind]
  BY <1>2, <1>5 DEF LedgerView
<1>9. \A i \in V : /\ LedgerView'[i] \in Ledger!Entry
                   /\ LedgerView'[i].kind = job[w].kind
                   /\ LedgerView'[i].anchor = P[i].anchor
  <2> SUFFICES ASSUME NEW i \in V
               PROVE  /\ LedgerView'[i] \in Ledger!Entry
                      /\ LedgerView'[i].kind = job[w].kind
                      /\ LedgerView'[i].anchor = P[i].anchor
    OBVIOUS
  <2>1. P[i].body \in Bodies /\ P[i].anchor \in Anchors /\ P[i].kind \in Kinds
    BY <1>2 DEF Draw
  <2>2. LedgerView'[i] = [body |-> P[i].body, anchor |-> P[i].anchor, kind |-> P[i].kind]
    BY <1>8
  <2> HIDE DEF V
  <2> QED
    BY <1>4, <2>1, <2>2 DEF Ledger!Entry, Kinds
<1>10. V \subseteq Scope \ Ledger!Held
  BY <1>2, <1>3 DEF Ledger!Held, LedgerView
<1>11. CASE V = {}
  <2>1. \A i \in Issues : draws'[i] = draws[i]
    BY <1>5, <1>11
  <2> QED
    BY <2>1 DEF LedgerView
<1>12. CASE V # {} /\ job[w].kind = "history"
  <2>1. Ledger!Confirm(V)
    BY <1>6, <1>7, <1>9, <1>10, <1>12 DEF Ledger!Confirm, Ledger!Grow
  <2> QED
    BY <1>2, <2>1 DEF Ledger!Next
<1>13. CASE V # {} /\ job[w].kind = "current"
  <2>1. /\ Confirmed(job[w].latest)
        /\ \A i \in V : P[i].anchor = job[w].latest
    BY <1>1, <1>13 DEF InheritsConfirmed, P
  <2>2. job[w].latest \in Ledger!ConfirmedAnchors
    <3>1. PICK h \in Issues : /\ draws[h] # NoDraw /\ draws[h].kind = "history"
                              /\ draws[h].anchor = job[w].latest
      BY <2>1 DEF Confirmed, Stored
    <3>2. /\ LedgerView[h] = [body |-> draws[h].body, anchor |-> draws[h].anchor,
                              kind |-> draws[h].kind]
          /\ draws[h] \in Draw
      BY <3>1 DEF LedgerView, IInv, TypeOK
    <3>3. LedgerView[h].kind = "history" /\ LedgerView[h].anchor = job[w].latest
      BY <3>1, <3>2
    <3>4. LedgerView[h] \in Ledger!Entry
      BY <3>2 DEF Ledger!Entry, Draw, Kinds
    <3>5. h \in Ledger!Held
      <4>1. NoDraw \notin {LedgerView[h]}
        BY <3>4, AbsentValues DEF Ledger!Entry, Kinds
      <4> QED
        BY <4>1 DEF Ledger!Held
    <3> QED
      BY <3>3, <3>5 DEF Ledger!ConfirmedAnchors
  <2>3. Ledger!Inherit(V)
    BY <1>6, <1>7, <1>9, <1>10, <1>13, <2>1, <2>2 DEF Ledger!Inherit, Ledger!Grow
  <2> QED
    BY <1>2, <2>3 DEF Ledger!Next
<1> QED
  BY <1>11, <1>12, <1>13, JobFields DEF IInv, Kinds

LEMMA LedgerStep == IInv /\ [Next]_vars => [Ledger!Next]_LedgerView
<1> SUFFICES ASSUME IInv, [Next]_vars PROVE Ledger!Next \/ UNCHANGED LedgerView
  OBVIOUS
<1>1. CASE \E w \in Workers : Commit(w) \/ CommitAckLost(w)
  BY <1>1, BatchGrowsLedger DEF Commit, CommitAckLost
<1>2. CASE UNCHANGED draws
  BY <1>2 DEF LedgerView
<1> QED
  BY <1>1, <1>2
     DEF Next, vars, database, Publish, Revise, Start, Fetch, OpenRun, Progress, ReadAnchor,
         Record, RefuseWithoutAnchor, SkipStored, RefuseConflict, QueueInsert, Fail, End,
         CommitRejected, RecordFailure, Trouble, TransientError, Crash

(* The workers, with everything they go through, implement the ledger:     *)
(* a reader of the draw table may think of nothing but whole batches       *)
(* appended, each confirmed or inherited.                                  *)
THEOREM LedgerImplemented == Spec => LedgerSpec
<1>1. Init => Ledger!Init
  BY DEF Init, Ledger!Init, LedgerView
<1> QED
  BY <1>1, LedgerStep, Invariance, PTL DEF Spec, LedgerSpec, Ledger!Spec
=============================================================================
