--------------------------- MODULE BarrierProofs ---------------------------
(***************************************************************************)
(* Theorems about Barrier for any number of sleeping and awaking threads   *)
(* and of naps.                                                            *)
(***************************************************************************)
EXTENDS Barrier, TLAPS

(* Type correctness: a thread only reaches the statements of its command,  *)
(* and only waiting threads are linked in dev->wait_queue.                 *)
LEMMA BarTypeInit == BarInit /\ FlagsInit => BarTypeOK
  BY BarrierAssumption DEF BarInit, FlagsInit, BarTypeOK, BarThreads, Bits

(* A step of a sleep command preserves BarTypeOK.                          *)
LEMMA BarTypeSleep ==
  ASSUME BarTypeOK, NEW t \in Sleepers,
         sleep_enter(t) \/ SleepStep(t)
  PROVE  BarTypeOK'
<1> USE BarrierAssumption DEF BarTypeOK, BarThreads, Step, SleepPcs, AwakePcs, Waiting
<1>1. CASE sleep_enter(t)
  BY <1>1 DEF sleep_enter
<1>2. CASE set_barrier_load(t)
  BY <1>2 DEF set_barrier_load
<1>3. CASE set_barrier_store(t)
  BY <1>3 DEF set_barrier_store, set_bit, Bits
<1>4. CASE wait_event_test(t)
  BY <1>4 DEF wait_event_test
<1>5. CASE wait_event_prepare(t)
  BY <1>5 DEF wait_event_prepare
<1>6. CASE wait_event_cond(t)
  BY <1>6 DEF wait_event_cond
<1>7. CASE wait_event_resume(t)
  BY <1>7 DEF wait_event_resume
<1> QED
  BY <1>1, <1>2, <1>3, <1>4, <1>5, <1>6, <1>7 DEF SleepStep

(* A step of an awake command preserves BarTypeOK.                         *)
LEMMA BarTypeAwake ==
  ASSUME BarTypeOK, NEW a \in Awakers,
         awake_enter(a) \/ AwakeStep(a)
  PROVE  BarTypeOK'
<1> USE BarrierAssumption DEF BarTypeOK, BarThreads, Step, SleepPcs, AwakePcs, Waiting
<1>1. CASE awake_enter(a)
  BY <1>1 DEF awake_enter
<1>2. CASE awake_check(a)
  BY <1>2 DEF awake_check
<1>3. CASE clear_barrier_load(a)
  BY <1>3 DEF clear_barrier_load
<1>4. CASE clear_barrier_store(a)
  BY <1>4 DEF clear_barrier_store, StoreCleared, clear_bit
<1>5. CASE waitqueue_active_early(a)
  BY <1>5 DEF waitqueue_active_early
<1>6. CASE clear_barrier_late(a)
  BY <1>6 DEF clear_barrier_late, StoreCleared, clear_bit
<1>7. CASE waitqueue_active(a)
  BY <1>7 DEF waitqueue_active
<1>8. CASE wake_up_all(a)
  BY <1>8 DEF wake_up_all
<1> QED
  BY <1>1, <1>2, <1>3, <1>4, <1>5, <1>6, <1>7, <1>8 DEF AwakeStep

(* So does a step that changes nothing.                                    *)
LEMMA BarTypeStutter == BarTypeOK /\ UNCHANGED barVars => BarTypeOK'
  BY DEF BarTypeOK, barVars, barPriv

(* Type correctness of the barrier: whatever sleep_on_barrier() and        *)
(* awake_barrier() calls interleave, a thread linked in dev->wait_queue is *)
(* one that is inside wait_event.                                          *)
THEOREM BarTypeCorrect == BarSpec => []BarTypeOK
<1>1. BarTypeOK /\ [BarNext]_barVars => BarTypeOK'
  BY BarTypeSleep, BarTypeAwake, BarTypeStutter DEF BarNext
<1> QED
  BY BarTypeInit, <1>1, PTL DEF BarSpec, BarrierInit

-----------------------------------------------------------------------------
(* A step that changes neither the byte nor released, and takes no thread  *)
(* into Waiting, preserves SleepUntilAwoken.                               *)
LEMMA QuietStep ==
  ASSUME SleepUntilAwoken, flags' = flags, released' = released,
         \A t \in Sleepers : bpc'[t] \in Waiting => bpc[t] \in Waiting
  PROVE  SleepUntilAwoken'
  BY DEF SleepUntilAwoken, is_barrier_up, check_bit

(* Every step preserves SleepUntilAwoken: only clear_barrier stores the    *)
(* bit clear, and it releases every thread that waits.                     *)
LEMMA SleepUntilAwokenStep ==
  ASSUME BarTypeOK, SleepUntilAwoken, [BarNext]_barVars
  PROVE  SleepUntilAwoken'
<1> USE BarrierAssumption
<1>1. ASSUME NEW t \in Sleepers, set_barrier_store(t)
      PROVE  SleepUntilAwoken'
  <2>1. BARRIER_BIT \in flags'
    BY <1>1 DEF set_barrier_store, set_bit
  <2> QED
    BY <2>1 DEF SleepUntilAwoken, is_barrier_up, check_bit
<1>2. ASSUME NEW t \in Sleepers, sleep_enter(t) \/ SleepStep(t),
             ~set_barrier_store(t)
      PROVE  SleepUntilAwoken'
  <2>1. flags' = flags /\ released' = released
    BY <1>2 DEF SleepStep, sleep_enter, set_barrier_load, wait_event_test,
                wait_event_prepare, wait_event_cond, wait_event_resume
  <2>2. \A u \in Sleepers : bpc'[u] \in Waiting => bpc[u] \in Waiting
    BY <1>2 DEF SleepStep, sleep_enter, set_barrier_load, wait_event_test,
                wait_event_prepare, wait_event_cond, wait_event_resume,
                Step, Waiting, BarTypeOK, BarThreads
  <2> QED
    BY <2>1, <2>2, QuietStep
<1>3. ASSUME NEW a \in Awakers, awake_enter(a) \/ AwakeStep(a)
      PROVE  SleepUntilAwoken'
  <2>1. \A u \in Sleepers : bpc'[u] = bpc[u]
    BY <1>3 DEF AwakeStep, awake_enter, awake_check, clear_barrier_load,
                clear_barrier_store, waitqueue_active_early,
                clear_barrier_late, waitqueue_active, wake_up_all, Step,
                BarTypeOK, BarThreads
  <2>2. CASE clear_barrier_store(a) \/ clear_barrier_late(a)
    BY <2>1, <2>2 DEF clear_barrier_store, clear_barrier_late, StoreCleared,
                      SleepUntilAwoken
  <2>3. CASE ~(clear_barrier_store(a) \/ clear_barrier_late(a))
    <3>1. flags' = flags /\ released' = released
      BY <1>3, <2>3 DEF AwakeStep, awake_enter, awake_check,
           clear_barrier_load, waitqueue_active_early, waitqueue_active,
           wake_up_all
    <3> QED
      BY <2>1, <3>1, QuietStep
  <2> QED
    BY <2>2, <2>3
<1>4. CASE UNCHANGED barVars
  BY <1>4, QuietStep DEF barVars, barPriv
<1> QED
  BY <1>1, <1>2, <1>3, <1>4 DEF BarNext

(* sleep_on_barrier() never returns before an awake_barrier() that         *)
(* overlaps or follows it, whatever the threads interleave (while nobody   *)
(* else writes the flags byte: GroupDevice shows what happens then).       *)
THEOREM SleepersWait == BarSpec => []SleepUntilAwoken
<1>1. BarInit /\ FlagsInit => SleepUntilAwoken
  BY DEF BarInit, SleepUntilAwoken, Waiting, BarThreads
<1> QED
  BY <1>1, BarTypeCorrect, SleepUntilAwokenStep, PTL DEF BarSpec, BarrierInit

-----------------------------------------------------------------------------
(* On a sequentially consistent machine the queue is never tested before   *)
(* the barrier is destroyed, and no wake-up is lost.                       *)
NoLostWakeup ==
  machine = "SC" => /\ \A a \in Awakers : bpc[a] # "a_late"
                    /\ NoneStranded

(* Every step preserves the absence of a lost wake-up on an SC machine:    *)
(* an awake that clears the bit still has waitqueue_active before it.      *)
LEMMA NoLostWakeupStep ==
  ASSUME BarTypeOK, NoLostWakeup, [BarNext]_barVars
  PROVE  NoLostWakeup'
<1> USE BarrierAssumption
<1> SUFFICES ASSUME machine' = "SC"
             PROVE  /\ \A a \in Awakers : bpc'[a] # "a_late"
                    /\ NoneStranded'
  BY DEF NoLostWakeup
<1>1. ASSUME NEW t \in Sleepers, sleep_enter(t) \/ SleepStep(t)
      PROVE  /\ \A a \in Awakers : bpc'[a] # "a_late"
             /\ NoneStranded'
  <2>1. machine = "SC" /\ \A a \in Awakers : bpc'[a] = bpc[a]
    BY <1>1 DEF SleepStep, sleep_enter, set_barrier_load, set_barrier_store,
         wait_event_test, wait_event_prepare, wait_event_cond,
         wait_event_resume, Step, BarTypeOK, BarThreads
  <2>2. CASE set_barrier_store(t)
    BY <2>1, <2>2 DEF set_barrier_store, set_bit, NoneStranded,
         is_barrier_up, check_bit, NoLostWakeup
  <2>3. CASE ~set_barrier_store(t)
    <3>1. flags' = flags
      BY <1>1, <2>3 DEF SleepStep, sleep_enter, set_barrier_load,
           wait_event_test, wait_event_prepare, wait_event_cond,
           wait_event_resume
    <3>2. \A u \in Sleepers : Blocked(u)' /\ ~is_barrier_up => Blocked(u)
      BY <1>1, <2>3 DEF SleepStep, sleep_enter, set_barrier_load,
           wait_event_test, wait_event_prepare, wait_event_cond,
           wait_event_resume, Step, Blocked, BarTypeOK, BarThreads
    <3> QED
      BY <2>1, <3>1, <3>2 DEF NoneStranded, is_barrier_up, check_bit,
           NoLostWakeup
  <2> QED
    BY <2>2, <2>3
<1>2. ASSUME NEW a \in Awakers, awake_enter(a) \/ AwakeStep(a)
      PROVE  /\ \A b \in Awakers : bpc'[b] # "a_late"
             /\ NoneStranded'
  <2>1. machine = "SC"
    BY <1>2 DEF AwakeStep, awake_enter, awake_check, clear_barrier_load,
         clear_barrier_store, StoreCleared, waitqueue_active_early,
         clear_barrier_late, waitqueue_active, wake_up_all
  <2>2. \A b \in Awakers : bpc'[b] # "a_late"
    BY <1>2, <2>1 DEF AwakeStep, awake_enter, awake_check,
         clear_barrier_load, clear_barrier_store, waitqueue_active_early,
         clear_barrier_late, waitqueue_active, wake_up_all, Step,
         NoLostWakeup, BarTypeOK, BarThreads
  <2>3. \A u \in Sleepers : bpc'[u] = bpc[u]
    BY <1>2 DEF AwakeStep, awake_enter, awake_check, clear_barrier_load,
         clear_barrier_store, waitqueue_active_early, clear_barrier_late,
         waitqueue_active, wake_up_all, Step, BarTypeOK, BarThreads
  <2>4. CASE clear_barrier_store(a)
    <3>1. bpc'[a] = "a_active"
      BY <2>4 DEF clear_barrier_store, Step, BarTypeOK, BarThreads
    <3> QED
      BY <2>2, <3>1 DEF NoneStranded
  <2>5. CASE clear_barrier_late(a)
    BY <2>1, <2>5 DEF clear_barrier_late, Step, NoLostWakeup
  <2>6. CASE wake_up_all(a)
    BY <2>2, <2>6 DEF wake_up_all, NoneStranded, Blocked
  <2>7. CASE waitqueue_active(a)
    <3>1. CASE wait_queue = {}
      BY <2>2, <2>7, <3>1 DEF waitqueue_active, NoneStranded, Blocked
    <3>2. CASE wait_queue # {}
      <4>1. bpc'[a] = "a_wake"
        BY <2>7, <3>2 DEF waitqueue_active, Step, BarTypeOK, BarThreads
      <4> QED
        BY <2>2, <4>1 DEF NoneStranded
    <3> QED
      BY <3>1, <3>2
  <2>8. CASE awake_enter(a) \/ awake_check(a) \/ clear_barrier_load(a)
    <3>1. flags' = flags /\ wait_queue' = wait_queue
      BY <2>8 DEF awake_enter, awake_check, clear_barrier_load
    <3>2. \A b \in Awakers : bpc[b] \in {"a_active", "a_wake"} =>
                                bpc'[b] \in {"a_active", "a_wake"}
      BY <2>8 DEF awake_enter, awake_check, clear_barrier_load, Step,
           BarTypeOK, BarThreads
    <3> QED
      BY <2>1, <2>2, <2>3, <3>1, <3>2 DEF NoLostWakeup, NoneStranded,
           Blocked, is_barrier_up, check_bit
  <2>9. ~waitqueue_active_early(a)
    BY <2>1 DEF waitqueue_active_early
  <2> QED
    BY <1>2, <2>4, <2>5, <2>6, <2>7, <2>8, <2>9 DEF AwakeStep
<1>3. CASE UNCHANGED barVars
  BY <1>3 DEF barVars, barPriv, NoLostWakeup, NoneStranded, Blocked,
       is_barrier_up, check_bit
<1> QED
  BY <1>1, <1>2, <1>3 DEF BarNext

(* No lost wake-up without the reordering of clear_barrier and             *)
(* waitqueue_active: what the missing memory barrier costs is the only     *)
(* way a thread stays blocked on a destroyed barrier with nobody to wake   *)
(* it.                                                                     *)
THEOREM NoLostWakeupOnSC == BarSpec => []StrandedNeedsReordering
<1>1. BarInit /\ FlagsInit => NoLostWakeup
  BY BarrierAssumption DEF BarInit, NoLostWakeup, NoneStranded, Blocked,
       BarThreads
<1>2. NoLostWakeup => StrandedNeedsReordering
  BY DEF NoLostWakeup, StrandedNeedsReordering
<1> QED
  BY <1>1, <1>2, BarTypeCorrect, NoLostWakeupStep, PTL DEF BarSpec, BarrierInit

-----------------------------------------------------------------------------
(* The refinement: Barrier implements SleepBarrier                         *)

(* The threads the mapping counts as waiting on the barrier.               *)
Sleeping == {t \in Sleepers : bpc[t] \in Waiting}

(* A step of sleep_on_barrier() is a Sleep when it stores the raised bit,  *)
(* a Leave when the command returns, which it does only with the bit       *)
(* clear, and changes nothing of the abstract barrier otherwise.           *)
LEMMA SleepRefines ==
  ASSUME BarTypeOK, NEW t \in Sleepers, sleep_enter(t) \/ SleepStep(t)
  PROVE  [Gate!GateNext]_(Gate!gateVars)
<1> USE BarrierAssumption DEF BarTypeOK, BarThreads, Step, Waiting
<1>1. CASE set_barrier_store(t)
  <2>1. is_barrier_up'
    BY <1>1 DEF set_barrier_store, set_bit, is_barrier_up, check_bit
  <2>2. t \notin Sleeping /\ Sleeping' = Sleeping \cup {t}
    BY <1>1 DEF set_barrier_store, Sleeping
  <2> QED
    BY <2>1, <2>2 DEF Gate!GateNext, Gate!Sleep, Sleeping
<1>2. CASE sleep_enter(t) \/ set_barrier_load(t) \/ wait_event_prepare(t)
           \/ wait_event_resume(t)
  <2>1. flags' = flags
    BY <1>2 DEF sleep_enter, set_barrier_load, wait_event_prepare,
                wait_event_resume
  <2>2. Sleeping' = Sleeping
    BY <1>2 DEF sleep_enter, set_barrier_load, wait_event_prepare,
                wait_event_resume, Sleeping
  <2> QED
    BY <2>1, <2>2 DEF Gate!gateVars, Sleeping, is_barrier_up, check_bit
<1>3. CASE wait_event_test(t) \/ wait_event_cond(t)
  <2>1. flags' = flags
    BY <1>3 DEF wait_event_test, wait_event_cond
  <2>2. CASE is_barrier_up
    <3>1. Sleeping' = Sleeping
      BY <1>3, <2>2 DEF wait_event_test, wait_event_cond, Sleeping
    <3> QED
      BY <2>1, <3>1 DEF Gate!gateVars, Sleeping, is_barrier_up, check_bit
  <2>3. CASE ~is_barrier_up
    <3>1. t \in Sleeping /\ Sleeping' = Sleeping \ {t}
      BY <1>3, <2>3 DEF wait_event_test, wait_event_cond, Sleeping
    <3> QED
      BY <2>1, <2>3, <3>1 DEF Gate!GateNext, Gate!Leave, Sleeping,
           is_barrier_up, check_bit
  <2> QED
    BY <2>2, <2>3
<1> QED
  BY <1>1, <1>2, <1>3 DEF SleepStep

(* A step of awake_barrier() is an Awake when it stores the cleared bit,   *)
(* early or late, and changes nothing of the abstract barrier otherwise.   *)
LEMMA AwakeRefines ==
  ASSUME BarTypeOK, NEW a \in Awakers, awake_enter(a) \/ AwakeStep(a)
  PROVE  [Gate!GateNext]_(Gate!gateVars)
<1> USE BarrierAssumption DEF BarTypeOK, BarThreads, Step
<1>1. Sleeping' = Sleeping
  BY DEF AwakeStep, awake_enter, awake_check, clear_barrier_load,
         clear_barrier_store, waitqueue_active_early, clear_barrier_late,
         waitqueue_active, wake_up_all, Sleeping
<1>2. CASE clear_barrier_store(a) \/ clear_barrier_late(a)
  <2>1. ~is_barrier_up'
    BY <1>2 DEF clear_barrier_store, clear_barrier_late, StoreCleared,
         clear_bit, is_barrier_up, check_bit
  <2> QED
    BY <1>1, <2>1 DEF Gate!GateNext, Gate!Awake, Sleeping
<1>3. CASE ~(clear_barrier_store(a) \/ clear_barrier_late(a))
  <2>1. flags' = flags
    BY <1>3 DEF AwakeStep, awake_enter, awake_check, clear_barrier_load,
         waitqueue_active_early, waitqueue_active, wake_up_all
  <2> QED
    BY <1>1, <2>1 DEF Gate!gateVars, Sleeping, is_barrier_up, check_bit
<1> QED
  BY <1>2, <1>3

(* A new device has its barrier down and nobody asleep. *)
LEMMA GateInitMapped == BarInit /\ FlagsInit => Gate!GateInit
  BY BarrierAssumption DEF BarInit, FlagsInit, Gate!GateInit,
       is_barrier_up, check_bit, Waiting, BarThreads

(* Every step of a barrier command is a step of the atomic barrier or a    *)
(* stutter.                                                                *)
LEMMA GateStepMapped ==
  ASSUME BarTypeOK, BarNext
  PROVE  [Gate!GateNext]_(Gate!gateVars)
  BY SleepRefines, AwakeRefines DEF BarNext

(* A step that leaves BARRIER_BIT and the commands alone is a stutter. *)
LEMMA GateStutters ==
  ASSUME UNCHANGED barPriv, is_barrier_up' = is_barrier_up
  PROVE  [Gate!GateNext]_(Gate!gateVars)
  BY DEF barPriv, Gate!gateVars

(* For any number of threads, and with stores that overtake nothing or     *)
(* linger in a store buffer, IOCTL_SLEEP_ON_BARRIER and                    *)
(* IOCTL_AWAKE_BARRIER implement the atomic barrier of SleepBarrier.       *)
THEOREM BarrierRefines == BarSpec => ImplementsSleepBarrier
<1>1. BarrierInit => Gate!GateInit
  BY GateInitMapped DEF BarrierInit
<1>2. BarTypeOK /\ [BarNext]_barVars => [Gate!GateNext]_(Gate!gateVars)
  <2>1. CASE UNCHANGED barVars
    BY <2>1, GateStutters DEF barVars, is_barrier_up, check_bit
  <2> QED
    BY <2>1, GateStepMapped
<1> QED
  BY <1>1, <1>2, BarTypeCorrect, PTL DEF BarSpec, ImplementsSleepBarrier,
       Gate!GateSpec
=============================================================================
