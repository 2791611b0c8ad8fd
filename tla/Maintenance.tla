----------------------------- MODULE Maintenance -----------------------------
(***************************************************************************)
(* The one-off prune of maintenance.py, run from the command line beside   *)
(* the workers of Ingestion.                                               *)
(*                                                                         *)
(* A former version of the program collected the year from its first       *)
(* issue.  Its draws, its snapshots and its explanations are in the        *)
(* database when this version starts; its workers are stopped.  The prune  *)
(* removes what lies before the approved start from all three tables, in   *)
(* one transaction, while this version's workers may be synchronizing.     *)
(* Migration 0002 can add its constraint when no early draw is left.       *)
(***************************************************************************)
EXTENDS Ingestion

CONSTANT LegacyRun     \* the run of the former version that wrote the old rows

ASSUME LegacyRunType == LegacyRun \in RunIds

VARIABLES
    prune,       \* what the prune has read: the draws and snapshots it will change
    explained,   \* analysis_runs, by the version whose results they explain
    pruned       \* history: a prune was committed

maintenance == <<prune, explained, pruned>>
allVars == <<vars, maintenance>>

Versions == {"former", "current"}
NoPrune == [pc |-> "idle", early |-> {}, rewritten |-> [r \in RunIds |-> NoSnapshot]]

(* What the former version had stored: any of the issues up to the last    *)
(* one of the year, each with the anchor of the history interface.         *)
MaintenanceInit ==
    \E old \in SUBSET {i \in Issues : i <= LastIssue}, b \in Bodies :
        LET doc == [i \in old |-> b] IN
        /\ \A i \in old, k \in Issues : k < i => k \in old
        /\ feed = doc
        /\ revisions = 0
        /\ draws = [i \in Issues |->
               IF i \in old THEN [body |-> b, anchor |-> Pet[i], kind |-> "history", run |-> LegacyRun]
               ELSE NoDraw]
        /\ runs = [r \in RunIds |->
               IF r = LegacyRun
               THEN [NewRun("history") EXCEPT !.status = "succeeded",
                        !.fetched = Cardinality(old), !.inserted = Cardinality(old)]
               ELSE NoRun]
        /\ snapshots = [r \in RunIds |-> IF r = LegacyRun THEN doc ELSE NoSnapshot]
        /\ job = [w \in Workers |-> IdleJob]
        /\ prune = NoPrune
        /\ explained = Versions
        /\ pruned = FALSE

-----------------------------------------------------------------------------
IsEarlyOffByOne(i) == i <= FirstIssue

(* Of the issues from the first one of the year on: there are no others    *)
(* before the start.                                                       *)
IsEarly(i) == i < FirstIssue

RetainedEmptied(doc) == NoRows
Retained(doc) == [i \in {k \in DOMAIN doc : ~ IsEarly(k)} |-> doc[i]]

(* The snapshots that lose a record. *)
Affected == {r \in RunIds : snapshots[r] # NoSnapshot /\ \E i \in DOMAIN snapshots[r] : IsEarly(i)}

(* The three tables are read; nothing is sent before the commit.  They are *)
(* three statements: no worker adds to what they look for in between.      *)
PruneReads ==
    /\ prune.pc = "idle"
    /\ prune' = [pc |-> "read",
                 early |-> {i \in Stored : IsEarly(i)},
                 rewritten |-> [r \in RunIds |->
                     IF r \in Affected THEN Retained(snapshots[r]) ELSE NoSnapshot]]
    /\ UNCHANGED <<vars, explained, pruned>>

ForgetExplained == explained

(* The former version writes no more, so those found are those there are.  *)
CurrentExplained == explained \ {"former"}

PruneCommits ==
    /\ prune.pc = "read"
    /\ draws' = [i \in Issues |-> IF i \in prune.early THEN NoDraw ELSE draws[i]]
    /\ snapshots' = [r \in RunIds |-> IF prune.rewritten[r] # NoSnapshot
                                      THEN prune.rewritten[r] ELSE snapshots[r]]
    /\ explained' = CurrentExplained
    /\ pruned' = TRUE
    /\ prune' = NoPrune
    /\ UNCHANGED <<source, runs, job>>

(* The command fails or is killed before its commit. *)
PruneDies ==
    /\ prune.pc = "read"
    /\ prune' = NoPrune
    /\ UNCHANGED <<vars, explained, pruned>>

MaintenanceNext ==
    \/ Next /\ UNCHANGED maintenance
    \/ PruneReads \/ PruneCommits \/ PruneDies

(* Fairness is that of the workers; nobody has to prune. *)
MaintenanceSpec ==
    /\ MaintenanceInit
    /\ [][MaintenanceNext]_allVars
    /\ \A w \in Workers : WF_vars(Progress(w))

-----------------------------------------------------------------------------
(* Properties                                                              *)

(* The check constraint of migration 0002 holds of every row. *)
Constrainable == Stored \subseteq Scope

(* Once a prune is committed nothing early comes back, whatever was being  *)
(* synchronized meanwhile: not in the draws, so that the migration's       *)
(* constraint can be added, not in a snapshot, and not in an explanation   *)
(* (maintenance.py 31-62, ingestion.py 59-61, migration 0002).             *)
PrunedForGood ==
    pruned =>
        /\ Constrainable
        /\ \A r \in RunIds : snapshots[r] # NoSnapshot => DOMAIN snapshots[r] \subseteq Scope
        /\ explained = {"current"}

(* Draws and snapshots are pruned together: before, between and after,     *)
(* every stored draw is what the snapshot of its run says (51-62).         *)
StayTraceable ==
    \A i \in Stored :
        LET r == draws[i].run IN
        /\ snapshots[r] # NoSnapshot
        /\ i \in DOMAIN snapshots[r]
        /\ snapshots[r][i] = draws[i].body

(* A prune is invisible to the readers of the approved scope: what they    *)
(* see is a ledger that only grows, by whole batches, with anchors that    *)
(* are never inherited from an early draw.                                 *)
ScopeView == [i \in Issues |-> IF i \in Scope THEN LedgerView[i] ELSE NoDraw]
ScopeLedger == INSTANCE DrawLedger WITH ledger <- ScopeView
PruneIsInvisible == [][ScopeLedger!Next]_ScopeView

(* The counts of the runs of this version stay true (those of the former   *)
(* version still count what was pruned).                                   *)
NewCountsTellTheTruth ==
    \A r \in RunIds \ {LegacyRun} : Succeeded(r) =>
        /\ runs[r].inserted = Cardinality(DrawsOf(r))
        /\ runs[r].fetched = Cardinality(DOMAIN snapshots[r])
        /\ runs[r].inserted + runs[r].skipped = runs[r].fetched
=============================================================================
