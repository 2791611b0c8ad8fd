------------------------------ MODULE DailySync ------------------------------
(***************************************************************************)
(* The scheduler process of scheduler.py over the days: one incremental    *)
(* synchronization a day at a fixed time, bounded retries while it brings  *)
(* nothing new, failures that end the day's work, restarts that recompute  *)
(* the next trigger.                                                       *)
(*                                                                         *)
(* Time is counted in slots of a day.  The source draws one issue a day    *)
(* and may publish it late, but before the next day's draw.  A committed   *)
(* synchronization is one step here: Ingestion.tla is its detail.          *)
(* Nothing here is the administrator's history import, which fills any     *)
(* gap: what holds below holds without anybody watching.                   *)
(***************************************************************************)
EXTENDS Integers

CONSTANTS
    DaySlots,     \* how many slots a day has
    DrawSlot,     \* when the source draws the issue of the day
    SyncSlot,     \* sync_hour and sync_minute
    Retries,      \* sync_empty_retries
    RetrySlots,   \* sync_empty_retry_seconds
    Window,       \* how many rows the current interface returns
    LastDay,      \* bound: the source draws no issue after this day
    MaxFaults     \* bound: how many synchronizations fail or processes die

ASSUME SlotsOfADay == DaySlots \in Nat \ {0} /\ {DrawSlot, SyncSlot} \subseteq 0 .. DaySlots - 1
ASSUME DrawnBeforeSync == DrawSlot <= SyncSlot
ASSUME RetrySettings == Retries \in Nat /\ RetrySlots \in Nat \ {0}
(* True of the default settings; at the limits config.py accepts (ten      *)
(* retries 900 seconds apart) the last one falls on the next day, and one  *)
(* day of silence less is bridged.                                         *)
ASSUME RetriesEndBeforeMidnight == SyncSlot + Retries * RetrySlots < DaySlots
ASSUME Bounds == Window \in Nat \ {0} /\ LastDay \in Nat \ {0} /\ MaxFaults \in Nat

VARIABLES
    day, slot,     \* the date and the time of day
    published,     \* the source has published issues 1 .. published
    stored,        \* the issues in draw_records
    pc,            \* the scheduler: waiting, running, retrying or down
    delay,         \* slots left to sleep
    attempt,       \* which attempt of the day is next or running, from 1
    faults,        \* how many failures there were
    runsToday,     \* history: how often run_once was called since midnight
    silent,        \* history: days since a synchronization last committed
    longest        \* history: the largest such number when one committed

scheduler == <<pc, delay, attempt, runsToday>>
history == <<silent, longest>>
vars == <<day, slot, published, stored, pc, delay, attempt, faults, runsToday, silent, longest>>

Attempts == Retries + 1

(* Faulty variants, here and below, stand before what they replace when    *)
(* the properties' strength is measured.                                   *)
DelayTakingNow(s) == IF SyncSlot < s THEN SyncSlot + DaySlots - s ELSE SyncSlot - s

(* seconds_until_next_run: a trigger time that is now is already past. *)
UntilNextRun(s) == IF SyncSlot <= s THEN SyncSlot + DaySlots - s ELSE SyncSlot - s

(* The issues drawn so far.  Issue 1 came with the first history import.   *)
Drawn == IF slot >= DrawSlot THEN day ELSE day - 1

Init ==
    /\ day = 1 /\ slot \in SyncSlot .. DaySlots - 1
    /\ published = 1 /\ stored = {1}
    /\ pc = "waiting" /\ delay = UntilNextRun(slot) /\ attempt = 1
    /\ faults = 0 /\ runsToday = 0 /\ silent = 0 /\ longest = 0

Publish ==
    /\ published < Drawn
    /\ published' = published + 1
    /\ UNCHANGED <<day, slot, stored, scheduler, faults, history>>

Asleep == pc \in {"waiting", "retrying"}

NextSlot == IF slot < DaySlots - 1 THEN slot + 1 ELSE 0

(* A slot passes.  A process that is due acts first, and a draw is         *)
(* published before the next one is due.  After LastDay days go on without *)
(* draws, and the date is no longer counted.                               *)
Tick ==
    /\ pc # "running" /\ ~ (Asleep /\ delay = 0)
    /\ NextSlot = DrawSlot => published >= Drawn
    /\ delay' = IF Asleep THEN delay - 1 ELSE delay
    /\ slot' = NextSlot
    /\ IF NextSlot # 0
       THEN UNCHANGED <<day, runsToday, silent>>
       ELSE /\ day' = IF day < LastDay THEN day + 1 ELSE day
            /\ runsToday' = 0
            /\ silent' = IF silent <= LastDay THEN silent + 1 ELSE silent
    /\ UNCHANGED <<published, stored, pc, attempt, faults, longest>>

(* The loop of entrypoint wakes and calls run_once. *)
Wake ==
    /\ pc = "waiting" /\ delay = 0
    /\ pc' = "running" /\ attempt' = 1 /\ runsToday' = runsToday + 1
    /\ UNCHANGED <<day, slot, published, stored, delay, faults, history>>

WakeToRetry ==
    /\ pc = "retrying" /\ delay = 0
    /\ pc' = "running" /\ attempt' = attempt + 1
    /\ UNCHANGED <<day, slot, published, stored, delay, faults, runsToday, history>>

ShortWindow == {i \in 1 .. published : i > published - Window + 1}
CurrentRows == {i \in 1 .. published : i > published - Window}
NewestOnly == {published} \ stored
New == CurrentRows \ stored

RetriesForever == New # {}

(* run_once returns when a synchronization brought anything new. *)
Finished == New # {} \/ attempt = Attempts

WaitForTomorrow == pc' = "waiting" /\ delay' = UntilNextRun(slot) /\ attempt' = 1

(* A synchronization that commits, and what run_once does with its result. *)
Synchronize ==
    /\ pc = "running"
    /\ stored' = stored \cup New
    /\ silent' = 0 /\ longest' = IF silent > longest THEN silent ELSE longest
    /\ IF Finished THEN WaitForTomorrow
       ELSE pc' = "retrying" /\ delay' = RetrySlots /\ UNCHANGED attempt
    /\ UNCHANGED <<day, slot, published, faults, runsToday>>

(* Any exception leaves run_once: no retry is left for the day. *)
SynchronizeFails ==
    /\ pc = "running"
    /\ faults < MaxFaults /\ faults' = faults + 1
    /\ WaitForTomorrow
    /\ UNCHANGED <<day, slot, published, stored, runsToday, history>>

Die ==
    /\ pc # "down"
    /\ faults < MaxFaults /\ faults' = faults + 1
    /\ pc' = "down" /\ delay' = 0 /\ attempt' = 1
    /\ UNCHANGED <<day, slot, published, stored, runsToday, history>>

Restart ==
    /\ pc = "down"
    /\ WaitForTomorrow
    /\ UNCHANGED <<day, slot, published, stored, faults, runsToday, history>>

Next ==
    \/ Publish \/ Tick
    \/ Wake \/ WakeToRetry \/ Synchronize \/ SynchronizeFails
    \/ Die \/ Restart

Spec == Init /\ [][Next]_vars

(* Time passes, the source publishes what it draws, a process that is due  *)
(* runs, and Docker restarts a container that died (compose.production.yaml).    *)
FairSpec ==
    /\ Spec
    /\ WF_vars(Tick) /\ WF_vars(Publish) /\ WF_vars(Restart)
    /\ WF_vars(Wake) /\ WF_vars(WakeToRetry) /\ WF_vars(Synchronize)

-----------------------------------------------------------------------------
(* Properties                                                              *)

TypeOK ==
    /\ day \in 1 .. LastDay /\ slot \in 0 .. DaySlots - 1
    /\ published \in 1 .. LastDay /\ stored \subseteq 1 .. LastDay
    /\ pc \in {"waiting", "running", "retrying", "down"}
    /\ delay \in 0 .. DaySlots + RetrySlots /\ attempt \in 1 .. Attempts
    /\ faults \in 0 .. MaxFaults
    /\ runsToday \in Nat /\ silent \in Nat /\ longest \in Nat

(* However often it dies and comes back, the scheduler starts the day's    *)
(* work at most once a day, and only at its time of day (18-30, 63-75).    *)
OneRunADay == runsToday <= 1 /\ (pc = "waiting" /\ delay = 0 => slot = SyncSlot)

Contiguous == \A i \in stored : 1 .. i \subseteq stored

(* The window of the current interface bridges silence of fewer days than  *)
(* it has rows, late publication included: only a longer silence can leave *)
(* a hole in the issues, which the analysis would take for a transition.   *)
NoHoleAfterShortSilence == longest < Window => Contiguous

(* Every issue gets into the draw table in the end, without anybody's      *)
(* help, unless the scheduler was silent for longer than the window lasts. *)
EveryIssueStored ==
    \A i \in 1 .. LastDay : published >= i ~> (i \in stored \/ longest >= Window)

(* PRD.md 20-21 and README.md 13: when there is no new data at the time,   *)
(* the day's synchronization is retried a bounded number of times.  So     *)
(* when it stops with retries left, it has the day's draw.                 *)
StopsEarlyWithTodaysDraw ==
    [][Synchronize /\ attempt < Attempts /\ pc' = "waiting" => Drawn \in stored']_vars
=============================================================================
