--------------------------- MODULE DailySyncProofs ---------------------------
(***************************************************************************)
(* Theorems about DailySync for every length of a day, every trigger time, *)
(* every number of retries that ends before midnight, every window and     *)
(* every number of days and faults.                                        *)
(***************************************************************************)
EXTENDS DailySync, TLAPS

-----------------------------------------------------------------------------
(* The invariant                                                           *)

(* The process that sleeps until its trigger wakes at SyncSlot, today or   *)
(* tomorrow, and a trigger that is still to come today is the first one.   *)
NextTrigger ==
    pc = "waiting" =>
        \/ slot + delay = SyncSlot /\ runsToday = 0
        \/ slot + delay = SyncSlot + DaySlots

(* Attempt number n starts n - 1 retry delays after the trigger.           *)
AttemptsOnTime ==
    /\ pc = "running" => slot = SyncSlot + (attempt - 1) * RetrySlots
    /\ pc = "retrying" => attempt <= Retries /\ slot + delay = SyncSlot + attempt * RetrySlots

(* Nothing runs before the day's trigger. *)
NoneBeforeTrigger == runsToday <= 1 /\ (slot < SyncSlot => runsToday = 0)

(* The source is at most one issue behind once the day's draw is made.     *)
SourceLags == published <= day /\ (slot >= DrawSlot => day <= published + 1)

(* What is stored ends with what was published when a synchronization last *)
(* committed, and a day of silence adds one issue to what is missing.      *)
StoredUpTo(p) ==
    /\ stored \subseteq 1 .. p
    /\ day <= p + silent + 1
    /\ longest < Window => 1 .. p \subseteq stored

IInv ==
    /\ TypeOK
    /\ NextTrigger /\ AttemptsOnTime /\ NoneBeforeTrigger
    /\ SourceLags
    /\ \E p \in 1 .. published : StoredUpTo(p)

-----------------------------------------------------------------------------
(* Attempts that are not the last one end early enough. *)
LEMMA AttemptsEndToday ==
    ASSUME NEW n \in Nat, n <= Retries
    PROVE  n * RetrySlots \in Nat /\ SyncSlot + n * RetrySlots < DaySlots
<1>1. Retries \in Nat /\ RetrySlots \in Nat /\ SyncSlot \in Nat /\ DaySlots \in Nat
  BY RetrySettings, SlotsOfADay
<1>2. \A a, b, c \in Nat : a <= b => a * c <= b * c
  OBVIOUS
<1>3. n * RetrySlots <= Retries * RetrySlots /\ n * RetrySlots \in Nat
  BY <1>1, <1>2
<1> QED
  BY <1>1, <1>3, RetriesEndBeforeMidnight

LEMMA OneMore ==
    ASSUME NEW n \in Nat
    PROVE  (n + 1 - 1) * RetrySlots = n * RetrySlots
  OBVIOUS

(* The delay until the next trigger leads to it, and is never zero. *)
LEMMA UntilNextRunLeads ==
    ASSUME NEW s \in 0 .. DaySlots - 1
    PROVE  /\ UntilNextRun(s) \in 1 .. DaySlots
           /\ IF s < SyncSlot THEN s + UntilNextRun(s) = SyncSlot
              ELSE s + UntilNextRun(s) = SyncSlot + DaySlots
  BY SlotsOfADay DEF UntilNextRun

LEMMA InvInit == Init => IInv
<1> SUFFICES ASSUME Init PROVE IInv
  OBVIOUS
<1> USE SlotsOfADay, DrawnBeforeSync, RetrySettings, Bounds
<1>1. slot \in 0 .. DaySlots - 1 /\ slot >= SyncSlot
  BY DEF Init
<1>2. delay \in 1 .. DaySlots /\ slot + delay = SyncSlot + DaySlots
  BY <1>1, UntilNextRunLeads DEF Init
<1>3. TypeOK
  BY <1>1, <1>2 DEF Init, TypeOK, Attempts
<1>4. NextTrigger /\ AttemptsOnTime /\ NoneBeforeTrigger /\ SourceLags
  BY <1>1, <1>2 DEF Init, NextTrigger, AttemptsOnTime, NoneBeforeTrigger, SourceLags
<1>5. 1 \in 1 .. published /\ StoredUpTo(1)
  BY DEF Init, StoredUpTo
<1> QED
  BY <1>3, <1>4, <1>5 DEF IInv

(* What a step that leaves the issues alone has to say of them: nothing. *)
LEMMA IssuesUntouched ==
    ASSUME IInv, UNCHANGED <<day, slot, published, stored, history>>
    PROVE  SourceLags' /\ \E p \in 1 .. published' : StoredUpTo(p)'
  BY DEF IInv, SourceLags, StoredUpTo, history

(* run_once returns, or the process comes back: what is next is tomorrow's *)
(* trigger, or today's when that is still to come.                         *)
LEMMA WaitsForTrigger ==
    ASSUME IInv, WaitForTomorrow, UNCHANGED <<slot, runsToday>>
    PROVE  /\ NextTrigger' /\ AttemptsOnTime' /\ NoneBeforeTrigger'
           /\ pc' = "waiting" /\ delay' \in 0 .. DaySlots + RetrySlots
           /\ attempt' \in 1 .. Attempts
<1> USE SlotsOfADay, RetrySettings
<1>1. slot \in 0 .. DaySlots - 1
  BY DEF IInv, TypeOK
<1>2. delay' = UntilNextRun(slot) /\ pc' = "waiting" /\ attempt' = 1
  BY DEF WaitForTomorrow
<1>3. /\ delay' \in 1 .. DaySlots
      /\ IF slot < SyncSlot THEN slot + delay' = SyncSlot
         ELSE slot + delay' = SyncSlot + DaySlots
  BY <1>1, <1>2, UntilNextRunLeads
<1>4. NextTrigger'
  BY <1>1, <1>2, <1>3 DEF NextTrigger, IInv, NoneBeforeTrigger
<1>5. AttemptsOnTime' /\ NoneBeforeTrigger'
  BY <1>2 DEF AttemptsOnTime, NoneBeforeTrigger, IInv
<1> QED
  BY <1>2, <1>3, <1>4, <1>5 DEF Attempts

LEMMA PublishStep == ASSUME IInv, Publish PROVE IInv'
<1> USE SlotsOfADay
<1>1. Drawn <= day /\ Drawn \in Int /\ day \in 1 .. LastDay /\ published \in 1 .. LastDay
  BY DEF Drawn, IInv, TypeOK
<1>2. published + 1 <= day /\ published' = published + 1
  BY <1>1 DEF Publish
<1>3. TypeOK'
  BY <1>1, <1>2, Bounds DEF Publish, IInv, TypeOK, scheduler, history
<1>4. NextTrigger' /\ AttemptsOnTime' /\ NoneBeforeTrigger'
  BY DEF Publish, IInv, NextTrigger, AttemptsOnTime, NoneBeforeTrigger, scheduler
<1>5. SourceLags'
  BY <1>1, <1>2 DEF Publish, IInv, SourceLags, TypeOK
<1>6. PICK p \in 1 .. published : StoredUpTo(p)
  BY DEF IInv
<1>7. p \in 1 .. published' /\ StoredUpTo(p)'
  BY <1>1, <1>2, <1>6 DEF Publish, StoredUpTo, history
<1> QED
  BY <1>3, <1>4, <1>5, <1>7 DEF IInv

LEMMA TickStep == ASSUME IInv, Tick PROVE IInv'
<1> USE SlotsOfADay, RetrySettings, Bounds
<1>1. /\ slot \in 0 .. DaySlots - 1 /\ day \in 1 .. LastDay /\ published \in 1 .. LastDay
      /\ delay \in 0 .. DaySlots + RetrySlots /\ runsToday \in Nat
      /\ silent \in Nat /\ longest \in Nat /\ attempt \in 1 .. Attempts
      /\ stored \subseteq 1 .. LastDay
  BY DEF IInv, TypeOK
<1>2. slot' = NextSlot /\ slot' \in 0 .. DaySlots - 1
  BY <1>1 DEF Tick, NextSlot
<1>3. CASE NextSlot # 0
  <2>1. slot' = slot + 1 /\ slot + 1 < DaySlots /\ UNCHANGED <<day, runsToday, silent>>
    BY <1>1, <1>3 DEF Tick, NextSlot
  <2>2. TypeOK'
    BY <1>1, <1>2, <2>1 DEF Tick, TypeOK, IInv, Asleep
  <2>3. NextTrigger' /\ AttemptsOnTime'
    <3>1. CASE pc = "waiting"
      BY <1>1, <2>1, <3>1 DEF Tick, IInv, NextTrigger, AttemptsOnTime, Asleep
    <3>2. CASE pc = "retrying"
      <4>1. attempt * RetrySlots \in Nat
        BY <1>1, <3>2, AttemptsEndToday DEF IInv, AttemptsOnTime
      <4>2. pc' = pc /\ attempt' = attempt /\ delay' = delay - 1
        BY <3>2 DEF Tick, Asleep
      <4>3. slot' + delay' = slot + delay
        BY <1>1, <2>1, <4>2
      <4> QED
        BY <3>2, <4>1, <4>2, <4>3 DEF IInv, NextTrigger, AttemptsOnTime
    <3>3. CASE pc \notin {"waiting", "retrying"}
      BY <3>3 DEF Tick, NextTrigger, AttemptsOnTime
    <3> QED
      BY <3>1, <3>2, <3>3
  <2>4. NoneBeforeTrigger'
    BY <1>1, <2>1 DEF IInv, NoneBeforeTrigger
  <2>5. SourceLags'
    BY <1>1, <1>2, <2>1 DEF Tick, IInv, SourceLags, Drawn
  <2>6. \E p \in 1 .. published' : StoredUpTo(p)'
    BY <2>1 DEF Tick, IInv, StoredUpTo
  <2> QED
    BY <2>2, <2>3, <2>4, <2>5, <2>6 DEF IInv
<1>4. CASE NextSlot = 0
  <2>1. /\ slot' = 0 /\ slot = DaySlots - 1 /\ runsToday' = 0
        /\ day' = IF day < LastDay THEN day + 1 ELSE day
        /\ silent' = IF silent <= LastDay THEN silent + 1 ELSE silent
    BY <1>1, <1>4 DEF Tick, NextSlot
  <2>2. TypeOK'
    BY <1>1, <1>2, <2>1 DEF Tick, TypeOK, IInv, Asleep
  <2>3. pc # "retrying"
    <3> SUFFICES ASSUME pc = "retrying" PROVE FALSE
      OBVIOUS
    <3>1. delay # 0
      BY DEF Tick, Asleep
    <3>2. attempt * RetrySlots \in Nat /\ SyncSlot + attempt * RetrySlots < DaySlots
      BY <1>1, AttemptsEndToday DEF IInv, AttemptsOnTime
    <3>3. slot + delay = SyncSlot + attempt * RetrySlots
      BY DEF IInv, AttemptsOnTime
    <3> QED
      BY <1>1, <2>1, <3>1, <3>2, <3>3
  <2>4. NextTrigger' /\ AttemptsOnTime'
    <3>1. CASE pc = "waiting"
      BY <1>1, <2>1, <3>1 DEF Tick, IInv, NextTrigger, AttemptsOnTime, Asleep
    <3>2. CASE pc # "waiting"
      BY <2>3, <3>2 DEF Tick, NextTrigger, AttemptsOnTime
    <3> QED
      BY <3>1, <3>2
  <2>5. NoneBeforeTrigger'
    BY <2>1 DEF NoneBeforeTrigger
  <2>6. SourceLags'
    BY <1>1, <1>4, <2>1 DEF Tick, IInv, SourceLags, Drawn
  <2>7. PICK p \in 1 .. published : StoredUpTo(p)
    BY DEF IInv
  <2>8. p \in 1 .. published' /\ StoredUpTo(p)'
    BY <1>1, <2>1, <2>7 DEF Tick, StoredUpTo
  <2> QED
    BY <2>2, <2>4, <2>5, <2>6, <2>8 DEF IInv
<1> QED
  BY <1>3, <1>4

LEMMA WakeStep == ASSUME IInv, Wake PROVE IInv'
<1> USE SlotsOfADay, RetrySettings
<1>1. slot = SyncSlot /\ runsToday = 0
  BY DEF Wake, IInv, TypeOK, NextTrigger
<1>2. TypeOK'
  BY <1>1 DEF Wake, IInv, TypeOK, history, Attempts
<1>3. NextTrigger' /\ AttemptsOnTime' /\ NoneBeforeTrigger'
  BY <1>1 DEF Wake, NextTrigger, AttemptsOnTime, NoneBeforeTrigger
<1> QED
  BY <1>2, <1>3, IssuesUntouched DEF Wake, IInv

LEMMA WakeToRetryStep == ASSUME IInv, WakeToRetry PROVE IInv'
<1> USE SlotsOfADay, RetrySettings
<1>1. attempt \in 1 .. Retries /\ slot \in Nat /\ slot = SyncSlot + attempt * RetrySlots
  <2>1. attempt \in 1 .. Retries /\ slot \in Nat /\ delay = 0
    BY DEF WakeToRetry, IInv, TypeOK, AttemptsOnTime, Attempts
  <2>2. slot + delay = SyncSlot + attempt * RetrySlots
    BY DEF WakeToRetry, IInv, AttemptsOnTime
  <2> QED
    BY <2>1, <2>2
<1>2. TypeOK'
  BY <1>1 DEF WakeToRetry, IInv, TypeOK, history, Attempts
<1>3. AttemptsOnTime'
  BY <1>1, OneMore DEF WakeToRetry, AttemptsOnTime
<1>4. NextTrigger' /\ NoneBeforeTrigger'
  BY DEF WakeToRetry, IInv, NextTrigger, NoneBeforeTrigger
<1> QED
  BY <1>2, <1>3, <1>4, IssuesUntouched DEF WakeToRetry, IInv

(* The window reaches back to what was stored last, unless the silence was *)
(* as long as it.                                                          *)
LEMMA WindowBridges ==
    ASSUME IInv, Synchronize
    PROVE  SourceLags' /\ StoredUpTo(published)'
<1> USE SlotsOfADay, DrawnBeforeSync, RetrySettings, Bounds
<1>1. /\ day \in Nat /\ published \in 1 .. LastDay /\ silent \in Nat /\ longest \in Nat
      /\ attempt \in 1 .. Attempts
  BY DEF IInv, TypeOK
<1>2. published <= day /\ day <= published + 1
  <2>1. (attempt - 1) * RetrySlots \in Nat
    BY <1>1, AttemptsEndToday DEF Attempts
  <2>2. slot = SyncSlot + (attempt - 1) * RetrySlots
    BY DEF Synchronize, IInv, AttemptsOnTime
  <2>3. slot >= DrawSlot
    BY <2>1, <2>2
  <2> QED
    BY <2>3 DEF IInv, SourceLags
<1>3. PICK p \in 1 .. published : StoredUpTo(p)
  BY DEF IInv
<1>4. /\ stored' = stored \cup {i \in 1 .. published : i > published - Window}
      /\ silent' = 0 /\ longest' = IF silent > longest THEN silent ELSE longest
      /\ UNCHANGED <<day, slot, published>>
  BY DEF Synchronize, New, CurrentRows
<1>5. stored' \subseteq 1 .. published
  <2>1. stored \subseteq 1 .. published
    BY <1>1, <1>3 DEF StoredUpTo
  <2> QED
    BY <1>4, <2>1
<1>6. longest' < Window => 1 .. published \subseteq stored'
  <2> SUFFICES ASSUME longest' < Window, NEW i \in 1 .. published PROVE i \in stored'
    OBVIOUS
  <2>1. silent < Window /\ longest < Window
    BY <1>1, <1>4
  <2>2. published <= p + Window
    BY <1>1, <1>2, <1>3, <2>1 DEF StoredUpTo
  <2>3. CASE i <= p
    BY <1>3, <1>4, <2>1, <2>3 DEF StoredUpTo
  <2>4. CASE i > p
    BY <1>1, <1>3, <1>4, <2>2, <2>4
  <2> QED
    BY <1>3, <2>3, <2>4
<1>7. StoredUpTo(published)'
  BY <1>1, <1>2, <1>4, <1>5, <1>6 DEF StoredUpTo
<1>8. SourceLags'
  BY <1>4 DEF IInv, SourceLags
<1> QED
  BY <1>7, <1>8

LEMMA SynchronizeStep == ASSUME IInv, Synchronize PROVE IInv'
<1> USE SlotsOfADay, RetrySettings, Bounds
<1>1. SourceLags' /\ \E p \in 1 .. published' : StoredUpTo(p)'
  <2>1. published' = published /\ published \in 1 .. LastDay
    BY DEF Synchronize, IInv, TypeOK
  <2> QED
    BY <2>1, WindowBridges
<1>2. /\ day' \in 1 .. LastDay /\ slot' \in 0 .. DaySlots - 1
      /\ published' \in 1 .. LastDay /\ stored' \subseteq 1 .. LastDay
      /\ faults' \in 0 .. MaxFaults /\ runsToday' \in Nat
      /\ silent' \in Nat /\ longest' \in Nat
  <2>1. New \subseteq 1 .. LastDay
    BY DEF New, CurrentRows, IInv, TypeOK
  <2> QED
    BY <2>1 DEF Synchronize, IInv, TypeOK
<1>3. CASE Finished
  <2>1. WaitForTomorrow /\ UNCHANGED <<slot, runsToday>>
    BY <1>3 DEF Synchronize
  <2> QED
    BY <1>1, <1>2, <2>1, WaitsForTrigger DEF IInv, TypeOK
<1>4. CASE ~ Finished
  <2>1. pc' = "retrying" /\ delay' = RetrySlots /\ attempt' = attempt
    BY <1>4 DEF Synchronize
  <2>2. attempt \in 1 .. Retries /\ slot' = slot /\ slot \in Nat
    BY <1>4 DEF Synchronize, Finished, IInv, TypeOK, Attempts
  <2>3. slot + RetrySlots = SyncSlot + attempt * RetrySlots
    <3>1. slot = SyncSlot + (attempt - 1) * RetrySlots
      BY DEF Synchronize, IInv, AttemptsOnTime
    <3>2. \A a, b \in Nat : (a - 1) * b + b = a * b
      OBVIOUS
    <3>3. (attempt - 1) * RetrySlots + RetrySlots = attempt * RetrySlots
      BY <2>2, <3>2
    <3>4. (attempt - 1) * RetrySlots \in Nat
      BY <2>2, AttemptsEndToday
    <3> QED
      BY <3>1, <3>3, <3>4
  <2>4. AttemptsOnTime' /\ NextTrigger'
    BY <2>1, <2>2, <2>3 DEF AttemptsOnTime, NextTrigger
  <2>5. NoneBeforeTrigger'
    BY DEF Synchronize, IInv, NoneBeforeTrigger
  <2>6. pc' = "retrying" /\ delay' \in 0 .. DaySlots + RetrySlots /\ attempt' \in 1 .. Attempts
    BY <2>1, <2>2 DEF Attempts
  <2> QED
    BY <1>1, <1>2, <2>4, <2>5, <2>6 DEF IInv, TypeOK
<1> QED
  BY <1>3, <1>4

LEMMA FaultStep == ASSUME IInv, SynchronizeFails \/ Die \/ Restart PROVE IInv'
<1> USE SlotsOfADay, RetrySettings, Bounds
<1>1. UNCHANGED <<day, slot, published, stored, runsToday, history>>
  BY DEF SynchronizeFails, Die, Restart
<1>2. faults' \in 0 .. MaxFaults
  BY DEF SynchronizeFails, Die, Restart, IInv, TypeOK
<1>3. /\ NextTrigger' /\ AttemptsOnTime' /\ NoneBeforeTrigger'
      /\ pc' \in {"waiting", "down"} /\ delay' \in 0 .. DaySlots + RetrySlots
      /\ attempt' \in 1 .. Attempts
  <2>1. CASE Die
    BY <1>1, <2>1 DEF Die, IInv, NextTrigger, AttemptsOnTime, NoneBeforeTrigger, Attempts
  <2>2. CASE SynchronizeFails \/ Restart
    <3>1. WaitForTomorrow
      BY <2>2 DEF SynchronizeFails, Restart
    <3> QED
      BY <1>1, <3>1, WaitsForTrigger
  <2> QED
    BY <2>1, <2>2
<1>4. TypeOK'
  BY <1>1, <1>2, <1>3 DEF IInv, TypeOK, history
<1> QED
  BY <1>1, <1>3, <1>4, IssuesUntouched DEF IInv

LEMMA InvNext == IInv /\ [Next]_vars => IInv'
<1> SUFFICES ASSUME IInv, [Next]_vars PROVE IInv'
  OBVIOUS
<1>1. CASE UNCHANGED vars
  BY <1>1 DEF vars, IInv, TypeOK, NextTrigger, AttemptsOnTime, NoneBeforeTrigger,
     SourceLags, StoredUpTo
<1> QED
  BY <1>1, PublishStep, TickStep, WakeStep, WakeToRetryStep, SynchronizeStep, FaultStep
     DEF Next

(* The invariant is inductive: it holds in every state of every behaviour  *)
(* of the scheduler, whatever fails and whenever the source publishes.     *)
THEOREM Invariance == Spec => []IInv
  BY InvInit, InvNext, PTL DEF Spec

-----------------------------------------------------------------------------
(* What follows                                                            *)

(* Every variable keeps its type; so no attempt is beyond the last one,    *)
(* and the scheduler never sleeps longer than a day and a retry.           *)
THEOREM TypeCorrect == Spec => []TypeOK
<1>1. IInv => TypeOK
  BY DEF IInv
<1> QED
  BY <1>1, Invariance, PTL

(* However often the process dies, restarts or fails, the day's work is    *)
(* started at most once a day, at its time.                                *)
THEOREM OneRunADayHolds == Spec => []OneRunADay
<1>1. IInv => OneRunADay
  BY SlotsOfADay DEF IInv, TypeOK, NoneBeforeTrigger, NextTrigger, OneRunADay
<1> QED
  BY <1>1, Invariance, PTL

(* Silence of fewer days than the window has rows leaves no hole, whenever *)
(* the source publishes and whatever failed in between.                    *)
THEOREM NoHoleAfterShortSilenceHolds == Spec => []NoHoleAfterShortSilence
<1>1. IInv => NoHoleAfterShortSilence
  <2> SUFFICES ASSUME IInv, longest < Window, NEW i \in stored PROVE 1 .. i \subseteq stored
    BY DEF NoHoleAfterShortSilence, Contiguous
  <2>1. PICK p \in 1 .. published : StoredUpTo(p)
    BY DEF IInv
  <2> QED
    BY <2>1 DEF StoredUpTo, IInv, TypeOK
<1> QED
  BY <1>1, Invariance, PTL
=============================================================================
