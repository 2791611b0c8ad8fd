------------------------------ MODULE AiService ------------------------------
(***************************************************************************)
(* The administrator's AI configuration, its audit trail, and the          *)
(* explanations that users ask for: api.py 260-310 and 403-468.            *)
(*                                                                         *)
(* A request reads, decides, and commits later.  On commit the object      *)
(* mapper writes the columns whose value the request changed from what it  *)
(* had read.  The configuration in effect is the oldest row of             *)
(* ai_providers; of its columns the key and the switch are modelled, and   *)
(* the others behave like the switch.  A row is dated when it is flushed,  *)
(* just before its commit; here the two are one step, so that of two first *)
(* rows the one committed first is the oldest.                             *)
(*                                                                         *)
(* The provider of the explanations is outside: it answers, or fails, or   *)
(* the stored key cannot be decrypted and it is not asked.                 *)
(***************************************************************************)
EXTENDS Integers, Sequences

CONSTANTS
    Threads,       \* request threads
    Keys,          \* API keys
    RunIds,        \* ids for rows of analysis_runs (bounds the explanations)
    RequestIds,    \* values of X-Request-ID, chosen by the client
    MaxRows,       \* bound: rows of ai_providers
    CrashesHappen, \* whether the process may die
    NoKey, NoRun

ASSUME RowsType == MaxRows \in Nat \ {0}
ASSUME CrashesType == CrashesHappen \in BOOLEAN
ASSUME RequestIdsType == RequestIds # {}

Rows == 1 .. MaxRows
NoRow == 0
Row == [key : Keys \cup {NoKey}, enabled : BOOLEAN]
Blank == [key |-> NoKey, enabled |-> FALSE]

(* What the form may say of the key. *)
Keep == "keep"
Clear == "clear"
Payload == [key : Keys \cup {Keep, Clear}, enabled : BOOLEAN]

Run == [status : {"failed", "succeeded"}, error : {"none", "AiServiceError"}]

ASSUME KeysType == NoKey \notin Keys /\ {Keep, Clear} \cap Keys = {}
ASSUME NoRunType == NoRun \notin Run \cup RunIds

Job == [pc : {"idle", "putting", "auditing", "asking"},
        row : Rows \cup {NoRow}, read : Row, payload : Payload,
        request : RequestIds, run : RunIds \cup {NoRun},
        overlapped : BOOLEAN]   \* history: another PUT wrote since this one read

VARIABLES
    provider,    \* ai_providers, oldest first: [1 .. n -> Row]
    run,         \* analysis_runs: [RunIds -> Run \cup {NoRun}]
    audit,       \* the unique request ids of the change's rows in audit_logs
    job          \* each thread's request

vars == <<provider, run, audit, job>>

SomeRequest == CHOOSE r \in RequestIds : TRUE
NoJob == [pc |-> "idle", row |-> NoRow, read |-> Blank,
          payload |-> [key |-> Keep, enabled |-> FALSE],
          request |-> SomeRequest, run |-> NoRun, overlapped |-> FALSE]

Init ==
    /\ provider = <<>>
    /\ run = [r \in RunIds |-> NoRun]
    /\ audit = {}
    /\ job = [t \in Threads |-> NoJob]

At(t, stage) == job[t].pc = stage
Done(t) == job' = [job EXCEPT ![t] = NoJob]

-----------------------------------------------------------------------------
(* PUT /admin/ai-provider                                                  *)

CurrentRow == IF provider = <<>> THEN NoRow ELSE 1
Current == IF CurrentRow = NoRow THEN Blank ELSE provider[CurrentRow]

ReadProvider(t) ==
    /\ At(t, "idle")
    /\ \E payload \in Payload, request \in RequestIds :
        job' = [job EXCEPT ![t] = [NoJob EXCEPT
            !.pc = "putting", !.row = CurrentRow,
            !.read = Current, !.payload = payload, !.request = request]]
    /\ UNCHANGED <<provider, run, audit>>

(* Faulty variants, here and below, stand before what they replace when    *)
(* the properties' strength is measured.                                   *)
KeyAlwaysTaken(t) == IF job[t].payload.key = Clear THEN NoKey ELSE job[t].payload.key
KeyAfter(t) ==
    CASE job[t].payload.key = Clear -> NoKey
      [] job[t].payload.key = Keep -> job[t].read.key
      [] OTHER -> job[t].payload.key

Refused(t) == job[t].payload.enabled /\ KeyAfter(t) = NoKey

(* The columns changed from what was read.  An encrypted key is never the  *)
(* same twice, so a key that is sent counts as changed.                    *)
KeyWritten(t) == job[t].payload.key # Keep /\ ~ (KeyAfter(t) = NoKey /\ job[t].read.key = NoKey)
SwitchWritten(t) == job[t].payload.enabled # job[t].read.enabled

AlwaysInserted(t) ==
    Append(provider, [key |-> KeyAfter(t), enabled |-> job[t].payload.enabled])
Written(t) ==
    IF job[t].row = NoRow
    THEN Append(provider, [key |-> KeyAfter(t), enabled |-> job[t].payload.enabled])
    ELSE [provider EXCEPT ![job[t].row] =
             [key |-> IF KeyWritten(t) THEN KeyAfter(t) ELSE @.key,
              enabled |-> IF SwitchWritten(t) THEN job[t].payload.enabled ELSE @.enabled]]

(* A refused request has changed its copy only, and rolls back. *)
RefuseProvider(t) ==
    /\ At(t, "putting") /\ Refused(t)
    /\ Done(t)
    /\ UNCHANGED <<provider, run, audit>>

WriteProvider(t) ==
    /\ At(t, "putting") /\ ~ Refused(t)
    /\ job[t].row = NoRow => Len(provider) < MaxRows
    /\ provider' = Written(t)
    /\ job' = [u \in Threads |->
                  IF u = t THEN [NoJob EXCEPT !.pc = "auditing", !.request = job[t].request]
                  ELSE IF At(u, "putting") THEN [job[u] EXCEPT !.overlapped = TRUE] ELSE job[u]]
    /\ UNCHANGED <<run, audit>>

(* _audit commits on its own; (request_id, action) is unique, and an       *)
(* insert that is not ends the request with an error.                      *)
Audit(t) ==
    /\ At(t, "auditing")
    /\ audit' = audit \cup {job[t].request}
    /\ Done(t)
    /\ UNCHANGED <<provider, run>>

-----------------------------------------------------------------------------
(* POST /analysis/ai                                                       *)

NewRunId == {r \in RunIds : run[r] = NoRun}

(* The run is committed as failed before the provider is asked. *)
Ask(t) ==
    /\ At(t, "idle")
    /\ CurrentRow # NoRow
    /\ Current.enabled /\ Current.key # NoKey
    /\ \E r \in NewRunId :
        /\ run' = [run EXCEPT ![r] = [status |-> "failed", error |-> "none"]]
        /\ job' = [job EXCEPT ![t] = [NoJob EXCEPT
                      !.pc = "asking", !.run = r, !.read = Current]]
    /\ UNCHANGED <<provider, audit>>

Explained(t) ==
    /\ At(t, "asking")
    /\ run' = [run EXCEPT ![job[t].run] = [status |-> "succeeded", error |-> "none"]]
    /\ Done(t)
    /\ UNCHANGED <<provider, audit>>

NotExplainedAskedAgain(t) ==
    /\ At(t, "asking")
    /\ run' = [run EXCEPT ![job[t].run].error = "AiServiceError"]
    /\ UNCHANGED <<provider, audit, job>>

NotExplained(t) ==
    /\ At(t, "asking")
    /\ run' = [run EXCEPT ![job[t].run].error = "AiServiceError"]
    /\ Done(t)
    /\ UNCHANGED <<provider, audit>>

(* Any other exception, as that of a key that cannot be decrypted. *)
AskingBreaks(t) ==
    /\ At(t, "asking")
    /\ Done(t)
    /\ UNCHANGED <<provider, run, audit>>

(* All threads are of one process. *)
Crash ==
    /\ CrashesHappen
    /\ \E t \in Threads : ~ At(t, "idle")
    /\ job' = [t \in Threads |-> NoJob]
    /\ UNCHANGED <<provider, run, audit>>

Put(t) == ReadProvider(t) \/ RefuseProvider(t) \/ WriteProvider(t) \/ Audit(t)
Explain(t) == Ask(t) \/ Explained(t) \/ NotExplained(t) \/ AskingBreaks(t)

Next == (\E t \in Threads : Put(t) \/ Explain(t)) \/ Crash

Spec == Init /\ [][Next]_vars

-----------------------------------------------------------------------------
(* Properties                                                              *)

TypeOK ==
    /\ provider \in Seq(Row) /\ Len(provider) <= MaxRows
    /\ run \in [RunIds -> Run \cup {NoRun}]
    /\ audit \subseteq RequestIds
    /\ job \in [Threads -> Job]

(* A change that no other change overlaps is in effect, all of it, once it *)
(* is committed, although an earlier race may have left two rows           *)
(* (api.py 440-458).                                                       *)
SoloPutTakesEffect ==
    [][\A t \in Threads : WriteProvider(t) /\ ~ job[t].overlapped =>
          Current' = [key |-> IF job[t].payload.key = Keep THEN Current.key ELSE KeyAfter(t),
                      enabled |-> job[t].payload.enabled]]_vars

(* An explanation has one outcome: a run that succeeded or says why it     *)
(* failed is not touched again, by no other request (api.py 276-302).      *)
Settled(r) == run[r] # NoRun /\ (run[r].status = "succeeded" \/ run[r].error # "none")
RunsSettleOnce == [][\A r \in RunIds : Settled(r) => run'[r] = run[r]]_vars

(* api.py 456: a key must be configured before the service is enabled.     *)
EnabledProviderHasKey ==
    \A i \in DOMAIN provider : provider[i].enabled => provider[i].key # NoKey
=============================================================================
