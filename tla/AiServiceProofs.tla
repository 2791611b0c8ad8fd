--------------------------- MODULE AiServiceProofs ---------------------------
(***************************************************************************)
(* Theorems about AiService for every set of threads, keys and runs, and   *)
(* every number of rows.                                                   *)
(***************************************************************************)
EXTENDS AiService, SequenceTheorems, TLAPS

-----------------------------------------------------------------------------
(* The invariant                                                           *)

(* A change that is under way has read the row in effect; unless another   *)
(* was written since, what it read is in effect still.                     *)
PutInv(t) ==
    At(t, "putting") =>
        /\ job[t].row = NoRow \/ (job[t].row = 1 /\ provider # <<>>)
        /\ ~ job[t].overlapped => job[t].row = CurrentRow /\ job[t].read = Current

(* The run of an explanation that is asked for is unsettled. *)
AskInv(t) ==
    At(t, "asking") =>
        job[t].run \in RunIds /\ run[job[t].run] = [status |-> "failed", error |-> "none"]

(* No two requests have the same run. *)
OwnRuns ==
    \A t, u \in Threads :
        At(t, "asking") /\ At(u, "asking") /\ t # u => job[t].run # job[u].run

IInv ==
    /\ TypeOK
    /\ \A t \in Threads : PutInv(t) /\ AskInv(t)
    /\ OwnRuns

-----------------------------------------------------------------------------
(* Records and rows                                                        *)

LEMMA BlankRecords == Blank \in Row /\ NoJob \in Job /\ NoJob.pc = "idle"
  BY RequestIdsType DEF Blank, Row, NoJob, Job, SomeRequest, Rows, NoRow, Payload, Keep, Clear

LEMMA JobFields ==
    ASSUME TypeOK, NEW t \in Threads
    PROVE  /\ job[t] \in Job /\ job[t].pc \in {"idle", "putting", "auditing", "asking"}
           /\ job[t].row \in Rows \cup {NoRow} /\ job[t].read \in Row
           /\ job[t].read.key \in Keys \cup {NoKey} /\ job[t].read.enabled \in BOOLEAN
           /\ job[t].payload.key \in Keys \cup {Keep, Clear}
           /\ job[t].payload.enabled \in BOOLEAN
           /\ job[t].request \in RequestIds /\ job[t].run \in RunIds \cup {NoRun}
           /\ job[t].overlapped \in BOOLEAN
  BY DEF TypeOK, Job, Row, Payload

LEMMA CurrentIsARow ==
    ASSUME TypeOK
    PROVE  /\ CurrentRow \in Rows \cup {NoRow} /\ Current \in Row
           /\ CurrentRow # NoRow <=> provider # <<>>
           /\ provider # <<>> => CurrentRow = 1 /\ Current = provider[1] /\ 1 \in 1 .. Len(provider)
  BY BlankRecords, RowsType DEF TypeOK, CurrentRow, Current, Rows, NoRow

(* What a change writes: a row at the end when it found none, or the first *)
(* row changed in place.                                                   *)
LEMMA WrittenRow ==
    ASSUME IInv, NEW t \in Threads, At(t, "putting"),
           job[t].row = NoRow => Len(provider) < MaxRows
    PROVE  /\ Written(t) \in Seq(Row) /\ Len(Written(t)) <= MaxRows /\ Written(t) # <<>>
           /\ ~ job[t].overlapped =>
                 Written(t)[1] = [key |-> IF job[t].payload.key = Keep
                                          THEN Current.key ELSE KeyAfter(t),
                                  enabled |-> job[t].payload.enabled]
<1>1. PutInv(t) /\ TypeOK
  BY DEF IInv
<1>2. KeyAfter(t) \in Keys \cup {NoKey}
  BY <1>1, JobFields DEF KeyAfter
<1>3. CASE job[t].row = NoRow
  <2> DEFINE new == [key |-> KeyAfter(t), enabled |-> job[t].payload.enabled]
  <2>1. new \in Row /\ Written(t) = Append(provider, new)
    BY <1>1, <1>2, <1>3, JobFields DEF Row, Written
  <2>2. /\ Append(provider, new) \in Seq(Row) /\ Len(Append(provider, new)) = Len(provider) + 1
        /\ provider = <<>> => Append(provider, new)[1] = new
    BY <1>1, <2>1 DEF TypeOK
  <2>3. ASSUME ~ job[t].overlapped
        PROVE  new = [key |-> IF job[t].payload.key = Keep
                              THEN Current.key ELSE KeyAfter(t),
                      enabled |-> job[t].payload.enabled] /\ provider = <<>>
    <3>1. provider = <<>> /\ job[t].read = Current
      BY <1>1, <1>3, <2>3, CurrentIsARow DEF PutInv
    <3> QED
      BY <3>1 DEF KeyAfter, Keep, Clear
  <2> HIDE DEF new
  <2>4. Len(provider) \in Nat /\ Len(provider) < MaxRows /\ MaxRows \in Nat
    BY <1>1, <1>3, RowsType DEF TypeOK
  <2>5. Written(t) \in Seq(Row) /\ Len(Written(t)) <= MaxRows /\ Written(t) # <<>>
    BY <2>1, <2>2, <2>4
  <2> QED
    BY <2>1, <2>2, <2>3, <2>5
<1>4. CASE job[t].row # NoRow
  <2> DEFINE new == [key |-> IF KeyWritten(t) THEN KeyAfter(t) ELSE provider[1].key,
                     enabled |-> IF SwitchWritten(t) THEN job[t].payload.enabled
                                 ELSE provider[1].enabled]
  <2>1. job[t].row = 1 /\ provider # <<>> /\ 1 \in 1 .. Len(provider) /\ provider[1] \in Row
    BY <1>1, <1>4, CurrentIsARow DEF PutInv, TypeOK
  <2>2. new \in Row /\ Written(t) = [provider EXCEPT ![1] = new]
    BY <1>1, <1>2, <1>4, <2>1, JobFields DEF Row, Written, NoRow
  <2>3. ASSUME ~ job[t].overlapped
        PROVE  new = [key |-> IF job[t].payload.key = Keep
                              THEN Current.key ELSE KeyAfter(t),
                      enabled |-> job[t].payload.enabled]
    <3>1. job[t].read = provider[1]
      BY <1>1, <2>1, <2>3, CurrentIsARow DEF PutInv
    <3>2. Current = provider[1]
      BY <1>1, <2>1, CurrentIsARow
    <3>3. (IF KeyWritten(t) THEN KeyAfter(t) ELSE provider[1].key)
            = IF job[t].payload.key = Keep THEN provider[1].key ELSE KeyAfter(t)
      BY <3>1 DEF KeyWritten, KeyAfter, Keep, Clear
    <3>4. (IF SwitchWritten(t) THEN job[t].payload.enabled ELSE provider[1].enabled)
            = job[t].payload.enabled
      BY <3>1 DEF SwitchWritten
    <3> QED
      BY <3>2, <3>3, <3>4
  <2> HIDE DEF new
  <2>4. /\ [provider EXCEPT ![1] = new] \in Seq(Row)
        /\ Len([provider EXCEPT ![1] = new]) = Len(provider)
        /\ [provider EXCEPT ![1] = new][1] = new
    BY <1>1, <2>1, <2>2, ExceptSeq DEF TypeOK
  <2> QED
    BY <1>1, <2>1, <2>2, <2>3, <2>4 DEF TypeOK
<1> QED
  BY <1>3, <1>4

-----------------------------------------------------------------------------
(* The invariant holds initially and every step keeps it                   *)

LEMMA InvInit == Init => IInv
<1> SUFFICES ASSUME Init PROVE IInv
  OBVIOUS
<1>1. provider \in Seq(Row) /\ Len(provider) <= MaxRows
  BY RowsType DEF Init
<1>2. TypeOK
  BY <1>1, BlankRecords DEF Init, TypeOK
<1>3. \A t \in Threads : ~ At(t, "putting") /\ ~ At(t, "asking")
  BY BlankRecords DEF Init, At
<1> QED
  BY <1>2, <1>3 DEF IInv, PutInv, AskInv, OwnRuns

(* What one thread does to its own request, the rest left as it is. *)
LEMMA OwnStep ==
    ASSUME IInv, NEW t \in Threads, NEW j \in Job, job' = [job EXCEPT ![t] = j],
           provider' = provider, audit' \subseteq RequestIds,
           run' \in [RunIds -> Run \cup {NoRun}], PutInv(t)',
           \A u \in Threads \ {t} : At(u, "asking") => run'[job[u].run] = run[job[u].run],
           j.pc = "asking" =>
               /\ j.run \in RunIds /\ run[j.run] = NoRun
               /\ run'[j.run] = [status |-> "failed", error |-> "none"]
    PROVE  IInv'
<1>1. job'[t] = j /\ \A u \in Threads \ {t} : job'[u] = job[u]
  BY DEF IInv, TypeOK
<1>2. TypeOK'
  BY DEF IInv, TypeOK
<1>3. \A u \in Threads : PutInv(u)'
  BY <1>1 DEF IInv, PutInv, At, CurrentRow, Current
<1>4. \A u \in Threads : AskInv(u)'
  BY <1>1 DEF IInv, AskInv, At
<1>5. \A u \in Threads \ {t} : At(u, "asking") => run[job[u].run] # NoRun
  <2>1. [status |-> "failed", error |-> "none"] # NoRun
    BY NoRunType DEF Run
  <2> QED
    BY <2>1 DEF IInv, AskInv
<1>6. OwnRuns'
  BY <1>1, <1>5 DEF IInv, OwnRuns, At
<1> QED
  BY <1>2, <1>3, <1>4, <1>6 DEF IInv

(* A request ends, and settles at most a run of its own.                   *)
LEMMA DoneStep ==
    ASSUME IInv, NEW t \in Threads, Done(t), provider' = provider, audit' \subseteq RequestIds,
           \/ run' = run
           \/ At(t, "asking") /\ \E row \in Run : run' = [run EXCEPT ![job[t].run] = row]
    PROVE  IInv'
<1>1. job' = [job EXCEPT ![t] = NoJob] /\ job'[t] = NoJob
  BY DEF Done, IInv, TypeOK
<1>2. PutInv(t)'
  BY <1>1, BlankRecords DEF PutInv, At
<1>3. run' \in [RunIds -> Run \cup {NoRun}]
  BY DEF IInv, TypeOK
<1>4. \A u \in Threads \ {t} : At(u, "asking") => run'[job[u].run] = run[job[u].run]
  BY DEF IInv, TypeOK, OwnRuns, AskInv
<1> QED
  BY <1>1, <1>2, <1>3, <1>4, OwnStep, BlankRecords

LEMMA ReadStep == ASSUME IInv, NEW t \in Threads, ReadProvider(t) PROVE IInv'
<1>1. PICK payload \in Payload, request \in RequestIds :
        job' = [job EXCEPT ![t] = [NoJob EXCEPT !.pc = "putting", !.row = CurrentRow,
                                     !.read = Current, !.payload = payload, !.request = request]]
  BY DEF ReadProvider, Current
<1> DEFINE j == [NoJob EXCEPT !.pc = "putting", !.row = CurrentRow,
                              !.read = Current, !.payload = payload, !.request = request]
<1>2. j \in Job /\ j.pc = "putting" /\ j.row = CurrentRow /\ j.read = Current
  BY CurrentIsARow, BlankRecords DEF IInv, Job
<1> HIDE DEF j
<1>3. job' = [job EXCEPT ![t] = j] /\ job'[t] = j /\ UNCHANGED <<provider, run, audit>>
  BY <1>1 DEF ReadProvider, IInv, TypeOK, j
<1>4. PutInv(t)'
  BY <1>2, <1>3 DEF PutInv, CurrentRow, Current, NoRow
<1> QED
  BY <1>2, <1>3, <1>4, OwnStep DEF IInv, TypeOK

LEMMA AskStep == ASSUME IInv, NEW t \in Threads, Ask(t) PROVE IInv'
<1>1. PICK r \in RunIds :
        /\ run[r] = NoRun /\ provider # <<>>
        /\ run' = [run EXCEPT ![r] = [status |-> "failed", error |-> "none"]]
        /\ job' = [job EXCEPT ![t] = [NoJob EXCEPT !.pc = "asking", !.run = r, !.read = Current]]
        /\ UNCHANGED <<provider, audit>>
  BY CurrentIsARow DEF Ask, NewRunId, Current, IInv
<1> DEFINE j == [NoJob EXCEPT !.pc = "asking", !.run = r, !.read = Current]
<1>2. j \in Job /\ j.pc = "asking" /\ j.run = r
  BY CurrentIsARow, BlankRecords DEF IInv, Job
<1>3. job' = [job EXCEPT ![t] = j]
  BY <1>1
<1> HIDE DEF j
<1>4. job'[t] = j
  BY <1>3 DEF IInv, TypeOK
<1>5. [status |-> "failed", error |-> "none"] \in Run
  BY DEF Run
<1>6. /\ run' \in [RunIds -> Run \cup {NoRun}]
      /\ run'[r] = [status |-> "failed", error |-> "none"]
      /\ \A x \in RunIds \ {r} : run'[x] = run[x]
  BY <1>1, <1>5 DEF IInv, TypeOK
<1>7. \A u \in Threads \ {t} : At(u, "asking") => run'[job[u].run] = run[job[u].run]
  BY <1>1, <1>5, <1>6, NoRunType DEF IInv, AskInv
<1>8. PutInv(t)'
  BY <1>2, <1>4 DEF PutInv, At
<1> QED
  BY <1>1, <1>2, <1>3, <1>6, <1>7, <1>8, OwnStep DEF IInv, TypeOK

(* A change that is written: every other that is under way is overlapped.  *)
LEMMA WriteStep == ASSUME IInv, NEW t \in Threads, WriteProvider(t) PROVE IInv'
<1>1. /\ At(t, "putting") /\ provider' = Written(t) /\ UNCHANGED <<run, audit>>
      /\ job[t].row = NoRow => Len(provider) < MaxRows
  BY DEF WriteProvider
<1>2. provider' \in Seq(Row) /\ Len(provider') <= MaxRows /\ provider' # <<>>
  BY <1>1, WrittenRow
<1>3. \A u \in Threads :
        /\ u = t => job'[u] = [NoJob EXCEPT !.pc = "auditing", !.request = job[t].request]
        /\ u # t /\ At(u, "putting") => job'[u] = [job[u] EXCEPT !.overlapped = TRUE]
        /\ u # t /\ ~ At(u, "putting") => job'[u] = job[u]
  BY DEF WriteProvider
<1>4. job' = [u \in Threads |-> job'[u]]
  BY DEF WriteProvider
<1>5. ASSUME NEW u \in Threads
      PROVE  /\ job'[u] \in Job
             /\ At(u, "putting")' => u # t /\ At(u, "putting") /\ job'[u].overlapped
                                     /\ job'[u].row = job[u].row
             /\ At(u, "asking")' => u # t /\ At(u, "asking") /\ job'[u] = job[u]
  <2>1. job[u] \in Job /\ job[t].request \in RequestIds
    BY JobFields DEF IInv
  <2>2. CASE u = t
    <3>1. /\ [NoJob EXCEPT !.pc = "auditing", !.request = job[t].request] \in Job
          /\ [NoJob EXCEPT !.pc = "auditing", !.request = job[t].request].pc = "auditing"
      BY <2>1, BlankRecords DEF Job
    <3> QED
      BY <1>3, <2>2, <3>1 DEF At
  <2>3. CASE u # t /\ At(u, "putting")
    <3>1. /\ [job[u] EXCEPT !.overlapped = TRUE] \in Job
          /\ [job[u] EXCEPT !.overlapped = TRUE].pc = "putting"
          /\ [job[u] EXCEPT !.overlapped = TRUE].row = job[u].row
          /\ [job[u] EXCEPT !.overlapped = TRUE].overlapped
      BY <2>1, <2>3 DEF Job, At
    <3> QED
      BY <1>3, <2>3, <3>1 DEF At
  <2>4. CASE u # t /\ ~ At(u, "putting")
    BY <1>3, <2>1, <2>4 DEF At
  <2> QED
    BY <2>2, <2>3, <2>4
<1>6. TypeOK'
  BY <1>1, <1>2, <1>4, <1>5 DEF IInv, TypeOK
<1>7. \A u \in Threads : PutInv(u)'
  BY <1>2, <1>5 DEF IInv, PutInv
<1>8. \A u \in Threads : AskInv(u)'
  BY <1>1, <1>5 DEF IInv, AskInv
<1>9. OwnRuns'
  BY <1>5 DEF IInv, OwnRuns
<1> QED
  BY <1>6, <1>7, <1>8, <1>9 DEF IInv

LEMMA InvNext == IInv /\ [Next]_vars => IInv'
<1> SUFFICES ASSUME IInv, [Next]_vars PROVE IInv'
  OBVIOUS
<1>1. CASE UNCHANGED vars
  BY <1>1 DEF vars, IInv, TypeOK, PutInv, AskInv, OwnRuns, At, CurrentRow, Current
<1>2. ASSUME NEW t \in Threads, Put(t) PROVE IInv'
  <2>1. CASE RefuseProvider(t)
    BY <2>1, DoneStep DEF RefuseProvider, IInv, TypeOK
  <2>2. CASE Audit(t)
    <3>1. audit' \subseteq RequestIds
      BY <2>2, JobFields DEF Audit, IInv, TypeOK
    <3> QED
      BY <2>2, <3>1, DoneStep DEF Audit
  <2> QED
    BY <1>2, <2>1, <2>2, ReadStep, WriteStep DEF Put
<1>3. ASSUME NEW t \in Threads, Explain(t) PROVE IInv'
  <2>1. CASE Explained(t)
    BY <2>1, DoneStep DEF Explained, IInv, TypeOK, Run
  <2>2. CASE NotExplained(t)
    <3>1. job[t].run \in RunIds /\ run[job[t].run] = [status |-> "failed", error |-> "none"]
      BY <2>2 DEF NotExplained, IInv, AskInv
    <3>2. run' = [run EXCEPT ![job[t].run] = [run[job[t].run] EXCEPT !.error = "AiServiceError"]]
      BY <2>2 DEF NotExplained
    <3>3. [run[job[t].run] EXCEPT !.error = "AiServiceError"] \in Run
      BY <3>1 DEF Run
    <3> QED
      BY <2>2, <3>2, <3>3, DoneStep DEF NotExplained, IInv, TypeOK
  <2>3. CASE AskingBreaks(t)
    BY <2>3, DoneStep DEF AskingBreaks, IInv, TypeOK
  <2> QED
    BY <1>3, <2>1, <2>2, <2>3, AskStep DEF Explain
<1>4. CASE Crash
  BY <1>4, BlankRecords DEF Crash, IInv, TypeOK, PutInv, AskInv, OwnRuns, At
<1> QED
  BY <1>1, <1>2, <1>3, <1>4 DEF Next

(* The invariant is inductive: it holds in every state of every behaviour  *)
(* of the configuration and the explanations.                              *)
THEOREM Invariance == Spec => []IInv
<1>1. Init => IInv
  BY InvInit
<1>2. IInv /\ [Next]_vars => IInv'
  BY InvNext
<1> QED
  BY <1>1, <1>2, PTL DEF Spec

(* Type correctness: rows, runs and requests keep their types, and the     *)
(* configurations stay within their bound.                                 *)
THEOREM TypeCorrect == Spec => []TypeOK
<1>1. IInv => TypeOK
  BY DEF IInv
<1> QED
  BY <1>1, Invariance, PTL

(* A change of the configuration that no other overlaps is in effect, all  *)
(* of it, when it is committed, however many rows earlier races left.      *)
THEOREM SoloPutTakesEffectHolds == Spec => SoloPutTakesEffect
<1> DEFINE asked(t) == [key |-> IF job[t].payload.key = Keep THEN Current.key ELSE KeyAfter(t),
                        enabled |-> job[t].payload.enabled]
<1>1. ASSUME IInv, NEW t \in Threads, WriteProvider(t), ~ job[t].overlapped
      PROVE  Current' = asked(t)
  <2>1. provider'[1] = asked(t) /\ provider' # <<>>
    BY <1>1, WrittenRow DEF WriteProvider
  <2> QED
    BY <2>1 DEF Current, CurrentRow, NoRow
<1>2. IInv /\ [Next]_vars =>
        [\A t \in Threads : WriteProvider(t) /\ ~ job[t].overlapped => Current' = asked(t)]_vars
  BY <1>1
<1> QED
  BY <1>2, Invariance, PTL DEF Spec, SoloPutTakesEffect

(* A run that succeeded, or says why it failed, is not touched again, by   *)
(* no other request.                                                       *)
THEOREM RunsSettleOnceHolds == Spec => RunsSettleOnce
<1>1. ASSUME IInv, [Next]_vars, NEW r \in RunIds, Settled(r) PROVE run'[r] = run[r]
  <2>1. CASE run' = run
    BY <2>1
  <2>2. ASSUME NEW t \in Threads, Ask(t) PROVE run'[r] = run[r]
    BY <1>1, <2>2 DEF Ask, NewRunId, Settled, IInv, TypeOK
  <2>3. ASSUME NEW t \in Threads, Explained(t) \/ NotExplained(t) PROVE run'[r] = run[r]
    <3>1. At(t, "asking") /\ \E row : run' = [run EXCEPT ![job[t].run] = row]
      <4>1. CASE Explained(t)
        BY <4>1 DEF Explained
      <4>2. CASE NotExplained(t)
        <5>1. run' = [run EXCEPT ![job[t].run] = [run[job[t].run] EXCEPT !.error = "AiServiceError"]]
          BY <4>2 DEF NotExplained
        <5> QED
          BY <4>2, <5>1 DEF NotExplained
      <4> QED
        BY <2>3, <4>1, <4>2
    <3>2. run[job[t].run] = [status |-> "failed", error |-> "none"]
      BY <1>1, <3>1 DEF IInv, AskInv
    <3>3. r # job[t].run
      BY <1>1, <3>2 DEF Settled
    <3> QED
      BY <1>1, <3>1, <3>3 DEF IInv, TypeOK
  <2> QED
    BY <1>1, <2>1, <2>2, <2>3 DEF Next, Put, Explain, ReadProvider, RefuseProvider, WriteProvider,
       Audit, AskingBreaks, Crash, vars
<1>2. IInv /\ [Next]_vars => [\A r \in RunIds : Settled(r) => run'[r] = run[r]]_vars
  BY <1>1
<1> QED
  BY <1>2, Invariance, PTL DEF Spec, RunsSettleOnce
=============================================================================
