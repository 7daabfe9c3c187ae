---------------------------- MODULE DeviceProofs ----------------------------
(***************************************************************************)
(* Theorems about a whole group device, with messages and the sleep        *)
(* barrier, which share the flags byte, and about its end: what group_free *)
(* leaves behind when the module is removed.                               *)
(***************************************************************************)
EXTENDS Teardown, WorkProofs, SlotProofs, BarrierProofs

-----------------------------------------------------------------------------
(* The flags byte                                                          *)

(* The statements between the load and the store of the byte. *)
FlushingStore == {"f_set", "f_clear"}
BarrierStore  == {"s_store", "a_store", "a_late"}

(* While the changes have not overlapped, what a revocation is about to    *)
(* store is what it loaded and still stands in the byte, and a barrier     *)
(* command is about to store FLUSHING_BIT as it stands in the byte.        *)
RegistersFresh ==
  /\ ~(FlushingRMW /\ BarrierRMW)
  /\ FlushingRMW => reg = flags
  /\ \A b \in BarThreads : bpc[b] \in BarrierStore =>
       (FLUSHING_BIT \in breg[b] <=> FLUSHING_BIT \in flags)

FlagsInv ==
  /\ overlapped \in BOOLEAN
  /\ ~overlapped => /\ RegistersFresh
                    /\ FlushingBitMeansFlushing /\ SleepUntilAwoken

DevBase == BaseInv /\ BarTypeOK

(* Every step of the device keeps the types and the semaphores. *)
LEMMA DevBaseStep ==
  ASSUME DevBase, [DevNext]_devVars
  PROVE  DevBase'
<1>1. CASE MsgNext /\ UNCHANGED barPriv
  <2>1. BaseInv'
    BY <1>1, BaseStep DEF DevBase
  <2>2. BarTypeOK'
    BY <1>1, <2>1 DEF DevBase, BaseInv, MsgTypeOK, BarTypeOK, barPriv
  <2> QED
    BY <2>1, <2>2 DEF DevBase
<1>2. CASE BarNext /\ UNCHANGED msgPriv
  <2>1. BarTypeOK'
    BY <1>2, BarTypeSleep, BarTypeAwake DEF BarNext, DevBase
  <2>2. BaseInv'
    BY <1>2, <2>1 DEF DevBase, BaseInv, MsgTypeOK, LockInv, HoldInv,
         BarTypeOK, msgPriv, listVars, paramVars, workVars, flushVars
  <2> QED
    BY <2>1, <2>2 DEF DevBase
<1>3. CASE UNCHANGED devVars
  <2>1. UNCHANGED msgVars /\ UNCHANGED barVars
    BY <1>3 DEF devVars, msgVars, barVars
  <2> QED
    BY <2>1, BaseStep, BarTypeStutter DEF DevBase
<1> QED
  BY <1>1, <1>2, <1>3 DEF DevNext

(* In a step of the message part only a revocation touches the byte, and   *)
(* no other revocation is between its load and its store.                  *)
LEMMA ByteOfMessages ==
  ASSUME BaseInv, [MsgNext]_msgVars
  PROVE  \/ /\ flags' = flags /\ reg' = reg /\ (FlushingRMW' => FlushingRMW)
         \/ /\ ~FlushingRMW /\ reg' = flags /\ flags' = flags
         \/ /\ FlushingRMW /\ ~FlushingRMW'
            /\ \/ flags' = set_bit(reg, FLUSHING_BIT)
               \/ flags' = clear_bit(reg, FLUSHING_BIT)
<1> USE ThreadAssumption
<1>1. CASE \E t \in Revokers : fflush_enter(t) \/ FlushStep(t)
  <2>1. PICK t \in Revokers : fflush_enter(t) \/ FlushStep(t)
    BY <1>1
  <2>2. \A u \in Revokers \ {t} : pc'[u] = pc[u]
    BY <2>1, FlushAlone DEF Alone, Procs, Callers
  <2>3. t \in DOMAIN pc
    BY DEF BaseInv, MsgTypeOK, Procs, Callers
  <2>4. pc[t] \in WqCS => \A u \in Revokers \ {t} : pc[u] \notin FlushingStore
    BY DEF BaseInv, LockInv, WqCS, FlushingStore, Procs, Callers
  <2>5. CASE set_flushing_load(t) \/ clear_flushing_load(t)
    <3>1. /\ pc[t] \in WqCS /\ pc[t] \notin FlushingStore
          /\ reg' = flags /\ flags' = flags
      BY <2>5 DEF set_flushing_load, clear_flushing_load, Goto, WqCS,
                  FlushingStore
    <3> QED
      BY <2>4, <3>1 DEF FlushingRMW, FlushingStore
  <2>6. CASE set_flushing_store(t) \/ clear_flushing_store(t)
    <3>1. /\ pc[t] \in WqCS /\ pc[t] \in FlushingStore
          /\ pc'[t] \notin FlushingStore
          /\ \/ flags' = set_bit(reg, FLUSHING_BIT)
             \/ flags' = clear_bit(reg, FLUSHING_BIT)
      BY <2>3, <2>6 DEF set_flushing_store, clear_flushing_store, Goto, WqCS,
                        FlushingStore
    <3>2. FlushingRMW /\ ~FlushingRMW'
      BY <2>2, <2>4, <3>1 DEF FlushingRMW, FlushingStore
    <3> QED
      BY <3>1, <3>2
  <2>7. CASE ~(\/ set_flushing_load(t) \/ clear_flushing_load(t)
               \/ set_flushing_store(t) \/ clear_flushing_store(t))
    <3>1. flags' = flags /\ reg' = reg /\ pc'[t] \notin FlushingStore
      BY <2>1, <2>3, <2>7 DEF FlushStep, fflush_enter, _fflush_pend_down,
           _fflush_msg_down, _fflush_splice, fflush_no_wq, fflush_down,
           fflush_first, fflush_unlink, fflush_flush, fflush_next,
           fflush_drain, Down, Goto, flushVars, FlushingStore
    <3> QED
      BY <2>2, <3>1 DEF FlushingRMW, FlushingStore
  <2> QED
    BY <2>5, <2>6, <2>7
<1>2. CASE UNCHANGED <<flags, reg>> /\ \A t \in Revokers : pc'[t] = pc[t]
  BY <1>2 DEF FlushingRMW
<1>3. CASE \E t \in Writers : group_write_enter(t) \/ WriteStep(t)
  BY <1>2, <1>3, WriteAlone DEF Alone, Procs, Callers
<1>4. CASE \E t \in Readers : group_read_enter(t) \/ ReadStep(t)
  BY <1>2, <1>4, ReadAlone DEF Alone, Procs, Callers
<1>5. CASE WorkerStep
  BY <1>2, <1>5, WorkerAlone DEF Alone, Procs, Callers
<1>6. CASE OtherStep
  BY <1>2, <1>6, NobodyMoves
<1> QED
  BY <1>1, <1>3, <1>4, <1>5, <1>6, StepKinds

(* In a step of the barrier part the byte is loaded or stored by a thread  *)
(* that is then, or was, between the two.                                  *)
LEMMA ByteOfBarrier ==
  ASSUME BarTypeOK, BarNext
  PROVE  \/ /\ flags' = flags
            /\ \A b \in BarThreads : bpc'[b] \in BarrierStore =>
                 \/ bpc[b] \in BarrierStore /\ breg'[b] = breg[b]
                 \/ breg'[b] = flags
         \/ \E b \in BarThreads :
              /\ bpc[b] \in BarrierStore /\ bpc'[b] \notin BarrierStore
              /\ FLUSHING_BIT \in flags' <=> FLUSHING_BIT \in breg[b]
              /\ \A c \in BarThreads \ {b} :
                   bpc'[c] = bpc[c] /\ breg'[c] = breg[c]
<1> USE BarrierAssumption
    DEF BarTypeOK, BarThreads, Step, BarrierStore
<1>1. CASE \E t \in Sleepers : sleep_enter(t) \/ SleepStep(t)
  <2>1. PICK t \in Sleepers : sleep_enter(t) \/ SleepStep(t)
    BY <1>1
  <2>2. CASE set_barrier_store(t)
    BY <2>2 DEF set_barrier_store, set_bit, BARRIER_BIT, FLUSHING_BIT
  <2>3. CASE set_barrier_load(t)
    BY <2>3 DEF set_barrier_load
  <2>4. CASE ~set_barrier_store(t) /\ ~set_barrier_load(t)
    BY <2>1, <2>4 DEF SleepStep, sleep_enter, wait_event_test,
         wait_event_prepare, wait_event_cond, wait_event_resume
  <2> QED
    BY <2>2, <2>3, <2>4
<1>2. CASE \E a \in Awakers : awake_enter(a) \/ AwakeStep(a)
  <2>1. PICK a \in Awakers : awake_enter(a) \/ AwakeStep(a)
    BY <1>2
  <2>2. CASE clear_barrier_store(a) \/ clear_barrier_late(a)
    BY <2>2 DEF clear_barrier_store, clear_barrier_late, StoreCleared,
         clear_bit, BARRIER_BIT, FLUSHING_BIT
  <2>3. CASE clear_barrier_load(a)
    BY <2>3 DEF clear_barrier_load
  <2>4. CASE ~(\/ clear_barrier_store(a) \/ clear_barrier_late(a)
               \/ clear_barrier_load(a))
    BY <2>1, <2>4 DEF AwakeStep, awake_enter, awake_check,
         waitqueue_active_early, waitqueue_active, wake_up_all
  <2> QED
    BY <2>2, <2>3, <2>4
<1> QED
  BY <1>1, <1>2 DEF BarNext

(* Every step of the device preserves FlagsInv. *)
LEMMA FlagsInvStep ==
  ASSUME DevBase, FlagsInv, [DevNext]_devVars
  PROVE  FlagsInv'
<1> USE DEF DevBase
<1>1. CASE UNCHANGED devVars
  <2>1. UNCHANGED <<overlapped, flags, reg, pc, bpc, breg, released>>
    BY <1>1 DEF devVars, msgPriv, barPriv, flushVars
  <2> QED
    BY <2>1 DEF FlagsInv, RegistersFresh, FlushingRMW, BarrierRMW,
         FlushingBitMeansFlushing, SleepUntilAwoken, is_flushing,
         is_barrier_up, check_bit
<1>2. CASE DevNext
  <2>1. overlapped' \in BOOLEAN
    BY <1>2 DEF DevNext
  <2> SUFFICES ASSUME ~overlapped'
               PROVE  /\ RegistersFresh'
                      /\ FlushingBitMeansFlushing' /\ SleepUntilAwoken'
    BY <2>1 DEF FlagsInv
  <2>2. ~overlapped /\ ~(FlushingRMW' /\ BarrierRMW')
    BY <1>2 DEF DevNext
  <2>3. RegistersFresh /\ FlushingBitMeansFlushing /\ SleepUntilAwoken
    BY <2>2 DEF FlagsInv
  <2>4. CASE MsgNext /\ UNCHANGED barPriv
    <3>1. FlushingBitMeansFlushing'
      BY <2>3, <2>4, FlushingBitStep
    <3>2. UNCHANGED <<bpc, breg, released>>
      BY <2>4 DEF barPriv
    <3>3. BARRIER_BIT \in flags' <=> BARRIER_BIT \in flags
      BY <2>3, <2>4, ByteOfMessages DEF RegistersFresh, set_bit, clear_bit,
           BARRIER_BIT, FLUSHING_BIT
    <3>4. SleepUntilAwoken'
      BY <2>3, <3>2, <3>3 DEF SleepUntilAwoken, is_barrier_up, check_bit
    <3>5. FlushingRMW' => reg' = flags'
      BY <2>3, <2>4, ByteOfMessages DEF RegistersFresh
    <3>6. ASSUME NEW b \in BarThreads, bpc'[b] \in BarrierStore
          PROVE  FLUSHING_BIT \in breg'[b] <=> FLUSHING_BIT \in flags'
      <4>1. ~FlushingRMW
        BY <2>3, <3>2, <3>6 DEF RegistersFresh, BarrierRMW, BarrierStore
      <4>2. flags' = flags
        BY <2>4, <4>1, ByteOfMessages
      <4> QED
        BY <2>3, <3>2, <3>6, <4>2 DEF RegistersFresh
    <3> QED
      BY <2>2, <3>1, <3>4, <3>5, <3>6 DEF RegistersFresh
  <2>5. CASE BarNext /\ UNCHANGED msgPriv
    <3>1. SleepUntilAwoken'
      BY <2>3, <2>5, SleepUntilAwokenStep
    <3>2. reg' = reg /\ pc' = pc
      BY <2>5 DEF msgPriv, flushVars
    <3>3. FLUSHING_BIT \in flags' <=> FLUSHING_BIT \in flags
      BY <2>3, <2>5, ByteOfBarrier DEF RegistersFresh
    <3>4. FlushingBitMeansFlushing'
      BY <2>3, <3>2, <3>3 DEF FlushingBitMeansFlushing, is_flushing,
                              check_bit
    <3>5. FlushingRMW' => reg' = flags'
      <4>1. ASSUME FlushingRMW PROVE flags' = flags
        <5>1. \A b \in BarThreads : bpc[b] \notin BarrierStore
          BY <2>3, <4>1 DEF RegistersFresh, BarrierRMW, BarrierStore
        <5> QED
          BY <2>5, <5>1, ByteOfBarrier
      <4>2. FlushingRMW' <=> FlushingRMW
        BY <3>2 DEF FlushingRMW
      <4> QED
        BY <2>3, <3>2, <4>1, <4>2 DEF RegistersFresh
    <3>6. ASSUME NEW c \in BarThreads, bpc'[c] \in BarrierStore
          PROVE  FLUSHING_BIT \in breg'[c] <=> FLUSHING_BIT \in flags'
      BY <2>3, <2>5, <3>3, <3>6, ByteOfBarrier DEF RegistersFresh
    <3> QED
      BY <2>2, <3>1, <3>4, <3>5, <3>6 DEF RegistersFresh
  <2> QED
    BY <1>2, <2>4, <2>5 DEF DevNext
<1> QED
  BY <1>1, <1>2

(* They hold in a new device. *)
LEMMA DevInvInit == DevInit => DevBase /\ FlagsInv
<1> SUFFICES ASSUME DevInit PROVE DevBase /\ FlagsInv
  OBVIOUS
<1>1. DevBase
  BY BaseInit, BarTypeInit DEF DevInit, DevBase
<1>2. /\ \A t \in Revokers : pc[t] = "idle"
      /\ \A t \in BarThreads : bpc[t] = "idle"
      /\ flags = {} /\ overlapped = FALSE
  BY DEF DevInit, MsgInit, BarInit, FlagsInit, Procs, Callers
<1>3. FlagsInv
  BY <1>2 DEF FlagsInv, RegistersFresh, FlushingRMW, BarrierRMW,
       BarrierStore, FlushingBitMeansFlushing, is_flushing, check_bit,
       SleepUntilAwoken, Waiting, BarThreads
<1> QED
  BY <1>1, <1>3

(* DevBase and FlagsInv are invariants of the device. *)
LEMMA DevInvCorrect == DevSpec => [](DevBase /\ FlagsInv)
<1>2. DevBase /\ FlagsInv /\ [DevNext]_devVars => (DevBase /\ FlagsInv)'
  BY DevBaseStep, FlagsInvStep
<1> QED
  BY DevInvInit, <1>2, PTL DEF DevSpec

(* The barrier and the revocation share one byte that each changes by an   *)
(* unprotected load and store.  As long as no two of those changes have    *)
(* overlapped, FLUSHING_BIT means flushing and no sleeper returns without  *)
(* an awake: the overlap is the only way the two features can disturb each *)
(* other, however many threads use them.                                   *)
THEOREM FlagsDoNotInterfere == DevSpec => []NoInterference
<1>1. FlagsInv => NoInterference
  BY DEF FlagsInv, NoInterference
<1> QED
  BY <1>1, DevInvCorrect, PTL

-----------------------------------------------------------------------------
(* The device keeps both promises                                          *)

(* What the mapping to the mail slot rests on. *)
MailInv == OnePlace /\ CountInv

(* The barrier commands touch nothing of the messages. *)
LEMMA MailInvStep ==
  ASSUME DevBase, MailInv, [DevNext]_devVars
  PROVE  MailInv'
<1>1. CASE MsgNext
  BY <1>1, OnePlaceStep, CountStep DEF DevBase, MailInv
<1>2. CASE UNCHANGED msgPriv
  <2>1. UNCHANGED <<pc, msg, fate, message_list, pending_list,
                    messages_number>>
    BY <1>2 DEF msgPriv, listVars
  <2> QED
    BY <2>1 DEF MailInv, OnePlace, Carries, CountInv, CountMatches, Counted,
         WorkerHand, SpaceLeft
<1> QED
  BY <1>1, <1>2 DEF DevNext, devVars

(* MailInv is an invariant of the device. *)
LEMMA MailInvCorrect == DevSpec => []MailInv
<1>1. DevInit => MailInv
  BY OnePlaceInit, CountInit DEF DevInit, MailInv
<1>2. DevBase /\ MailInv /\ [DevNext]_devVars => MailInv'
  BY MailInvStep
<1> QED
  BY <1>1, <1>2, DevInvCorrect, PTL DEF DevSpec

(* On the whole device, with barrier commands running at the same time,    *)
(* read, write, the delayed works and the revocation still implement the   *)
(* mail slot.  No hypothesis on the flags byte is needed: FLUSHING_BIT, as *)
(* a barrier command may leave it, decides whether a work publishes a      *)
(* message and how the work leaves the list of works, never that a message *)
(* is published out of turn, twice or into thin air.                       *)
THEOREM DeviceImplementsMailSlot == DevSpec => ImplementsMailSlot
<1>1. DevInit => Slot!SlotInit
  BY SlotInitMapped DEF DevInit
<1>2. DevBase /\ MailInv /\ [DevNext]_devVars
        => [Slot!SlotNext]_(Slot!slotVars)
  <2> SUFFICES ASSUME DevBase, MailInv, [DevNext]_devVars
               PROVE  [Slot!SlotNext]_(Slot!slotVars)
    OBVIOUS
  <2>1. CASE MsgNext
    BY <2>1, SlotStepMapped DEF DevBase, MailInv
  <2>2. CASE UNCHANGED msgPriv
    <3>1. UNCHANGED <<pc, msg, fate, message_list, pending_list,
                      max_storage_size>>
      BY <2>2 DEF msgPriv, listVars, paramVars
    <3>2. UNCHANGED <<max_storage_size, Reserved, Delayed, message_list,
                      Taken, Refused>>
      BY <3>1 DEF Reserved, Delayed, WorkerHand, Taken, Refused
    <3> QED
      BY <3>2, SlotStutters
  <2> QED
    BY <2>1, <2>2 DEF DevNext, devVars
<1> QED
  BY <1>1, <1>2, DevInvCorrect, MailInvCorrect, PTL
     DEF DevSpec, ImplementsMailSlot, Slot!SlotSpec

(* While the changes of the byte have not overlapped, no step of the       *)
(* message part changes BARRIER_BIT.                                       *)
LEMMA MessagesKeepBarrier ==
  ASSUME DevBase, FlagsInv, ~overlapped, [MsgNext]_msgVars
  PROVE  is_barrier_up' = is_barrier_up
<1>1. RegistersFresh
  BY DEF FlagsInv
<1>2. BARRIER_BIT \in flags' <=> BARRIER_BIT \in flags
  BY <1>1, ByteOfMessages DEF DevBase, RegistersFresh, set_bit, clear_bit,
       BARRIER_BIT, FLUSHING_BIT
<1> QED
  BY <1>2 DEF is_barrier_up, check_bit

(* On the whole device the barrier commands implement the atomic barrier   *)
(* as long as no change of the byte by a revocation has overlapped one by  *)
(* a barrier command.  The hypothesis is needed: a revocation that stores  *)
(* a byte it loaded before an awake raises the barrier again, and one that *)
(* loaded it before a sleep takes the barrier down.                        *)
THEOREM DeviceImplementsBarrier ==
  DevSpec /\ []~overlapped => ImplementsSleepBarrier
<1>1. DevInit => Gate!GateInit
  BY GateInitMapped DEF DevInit
<1>2. DevBase /\ FlagsInv /\ ~overlapped /\ [DevNext]_devVars
        => [Gate!GateNext]_(Gate!gateVars)
  <2> SUFFICES ASSUME DevBase, FlagsInv, ~overlapped, [DevNext]_devVars
               PROVE  [Gate!GateNext]_(Gate!gateVars)
    OBVIOUS
  <2>1. CASE MsgNext /\ UNCHANGED barPriv
    BY <2>1, MessagesKeepBarrier, GateStutters
  <2>2. CASE BarNext
    BY <2>2, GateStepMapped DEF DevBase
  <2>3. CASE UNCHANGED devVars
    BY <2>3, GateStutters DEF devVars, is_barrier_up, check_bit
  <2> QED
    BY <2>1, <2>2, <2>3 DEF DevNext
<1> QED
  BY <1>1, <1>2, DevInvCorrect, PTL
     DEF DevSpec, ImplementsSleepBarrier, Gate!GateSpec

-----------------------------------------------------------------------------
(* group_free: the inductive invariant                                     *)

(* group_free runs when nobody is inside a call, and the only call from    *)
(* then on is the fflush_workqueue it makes itself.                        *)
NoCallers ==
  /\ upc \in {"none", "barrier", "flush", "flushing", "destroy", "pending",
              "messages", "freed"}
  /\ upc # "none" =>
       /\ \A t \in Writers \cup Readers : pc[t] = "idle"
       /\ \A t \in BarThreads : bpc[t] = "idle"
  /\ upc \notin {"none", "flushing"} => \A t \in Revokers : pc[t] = "idle"
  /\ upc \in {"flushing", "destroy"} => delay_wq

(* The flush has published every pending message and executed every work   *)
(* whose timer was armed.                                                  *)
Clean ==
  /\ pending_list = <<>>
  /\ ~corrupted => delay_list = <<>> /\ \A w \in Msgs : work[w] # "timer"

(* The workqueue thread has nothing to do. *)
Done == queue = <<>> /\ pc[Worker] = "idle"

FlushInv ==
  /\ upc = "flushing" =>
       /\ \A t \in Revokers : pc[t] \in AfterSplice => pending_list = <<>>
       /\ (\A t \in Revokers : pc[t] = "idle") => Clean
  /\ upc = "destroy" => Clean
  /\ upc \in {"pending", "messages", "freed"} =>
       Done /\ (delay_wq => Clean)
  /\ upc = "messages" /\ ~corrupted => pending_list = <<>>

(* A raised barrier has a thread waiting on it; it keeps the file open. *)
RaisedInv ==
  /\ upc = "none" =>
       /\ FlagsInv
       /\ ~overlapped /\ is_barrier_up =>
            \E t \in Sleepers : bpc[t] \in Waiting
  /\ BarrierDownAtRemoval

TearInv ==
  /\ DevBase /\ WorkInv /\ RevokeInv
  /\ upc # "freed" => OnePlace
  /\ NoCallers /\ FlushInv /\ RaisedInv /\ EveryMessageFreed

-----------------------------------------------------------------------------
(* The steps                                                               *)

(* A step of the message part during the life of the device or the flush   *)
(* of group_free.                                                          *)
MessageStep ==
  /\ MsgNext /\ UNCHANGED <<barPriv, freed>>
  /\ \/ upc = "none" /\ upc' = "none"
          /\ overlapped' = (overlapped \/ (FlushingRMW' /\ BarrierRMW'))
     \/ /\ \/ StillAlive /\ upc' = upc
           \/ \E t \in Revokers : group_free_flush(t)
        /\ upc # "none" /\ overlapped' = overlapped

(* A step of the barrier part. *)
SleepingStep ==
  /\ ~corrupted /\ BarNext
  /\ UNCHANGED <<msgPriv, upc, freed>> /\ upc = "none"
  /\ overlapped' = (overlapped \/ (FlushingRMW' /\ BarrierRMW'))

(* A step of group_free that leaves the device as it is. *)
WaitingStep ==
  \/ group_free_enter \/ group_free_flushed \/ group_free_no_wq
  \/ destroy_workqueue \/ UNCHANGED tearVars

(* Every step is one of those, or group_free changes the device. *)
LEMMA TearKinds ==
  ASSUME [TearNext]_tearVars
  PROVE  \/ MessageStep \/ SleepingStep \/ WaitingStep
         \/ group_free_barrier \/ group_free_pending \/ group_free_messages
<1>1. CASE DevNext /\ upc = "none" /\ UNCHANGED <<upc, freed>>
  BY <1>1 DEF DevNext, MessageStep, SleepingStep
<1>2. CASE StillAlive /\ upc # "none"
             /\ UNCHANGED <<barPriv, overlapped, upc, freed>>
  <2>1. MsgNext
    BY <1>2 DEF StillAlive, MsgNext
  <2> QED
    BY <1>2, <2>1 DEF MessageStep
<1>3. CASE \E t \in Revokers : group_free_flush(t)
  <2>1. MsgNext /\ UNCHANGED <<barPriv, freed, overlapped>> /\ upc # "none"
    BY <1>3 DEF group_free_flush, Free, MsgNext, EnterCall
  <2> QED
    BY <1>3, <2>1 DEF MessageStep
<1> QED
  BY <1>1, <1>2, <1>3 DEF TearNext, GroupFree, WaitingStep

(* A WaitingStep leaves everything but upc alone. *)
LEMMA DeviceWaits ==
  ASSUME WaitingStep
  PROVE  UNCHANGED devVars /\ freed' = freed
  BY DEF WaitingStep, group_free_enter, group_free_flushed,
       group_free_no_wq, destroy_workqueue, tearVars

(* Once the workqueue is destroyed, or when there was none, nothing of the *)
(* device moves any more.                                                  *)
LEMMA NothingMoves ==
  ASSUME TearInv, upc \in {"pending", "messages", "freed"}
  PROVE  ~MessageStep
<1>1. Done /\ \A t \in Revokers : pc[t] = "idle"
  BY DEF TearInv, FlushInv, NoCallers
<1>2. ~WorkerStep
  BY <1>1 DEF Done, WorkerStep, worker_start, delayed_work_pend_down,
       delayed_work_empty, delayed_work_look, delayed_work_take,
       delayed_work_msg_down, delayed_work_publish, delayed_work_exit,
       delayed_work_unlink, delayed_work_free, Down, Goto
<1>3. ~corrupted => \A w \in Msgs : work[w] # "timer"
  <2>1. CASE delay_wq
    BY <2>1 DEF TearInv, FlushInv, Clean
  <2>2. CASE ~delay_wq
    BY <2>2 DEF TearInv, RevokeInv, NoWqInv
  <2> QED
    BY <2>1, <2>2
<1>4. \A w \in Msgs : ~timer_expire(w)
  BY <1>3 DEF timer_expire
<1>5. \A t \in Revokers : ~FlushStep(t)
  BY <1>1 DEF FlushStep, _fflush_pend_down, _fflush_msg_down,
       _fflush_splice, fflush_no_wq, fflush_down, set_flushing_load,
       set_flushing_store, fflush_first, fflush_unlink, fflush_flush,
       fflush_next, fflush_drain, clear_flushing_load,
       clear_flushing_store, Down, Goto
<1>6. \A t \in Revokers : ~group_free_flush(t)
  BY DEF group_free_flush, Free
<1> QED
  BY <1>2, <1>4, <1>5, <1>6 DEF MessageStep, StillAlive

(* What the invariants of the message part say does not involve the flags  *)
(* byte: they hold whatever the barrier does.                              *)
LEMMA MessagePartKept ==
  ASSUME TearInv, UNCHANGED msgPriv, flags' \subseteq Bits
  PROVE  /\ BaseInv' /\ WorkInv' /\ RevokeInv'
         /\ upc # "freed" => OnePlace'
<1>1. UNCHANGED <<message_list, pending_list, messages_number, stored, delay,
                  max_storage_size, delay_wq, work, delay_list, poisoned,
                  queue, running, pos, q, reg, owed, sem, pc, msg, fate,
                  corrupted>>
  BY DEF msgPriv, listVars, paramVars, workVars, flushVars
<1>2. BaseInv'
  BY <1>1 DEF TearInv, DevBase, BaseInv, MsgTypeOK, LockInv, HoldInv
<1>3. WorkInv'
  BY <1>1 DEF TearInv, WorkInv, WriterInv, QueueInv, LinkInv, LoopInv
<1>4. RevokeInv'
  BY <1>1 DEF TearInv, RevokeInv, OwedWritten, OwedPublished, NoWqInv,
              WorkerHand
<1>5. upc # "freed" => OnePlace'
  BY <1>1 DEF TearInv, OnePlace, Carries
<1> QED
  BY <1>2, <1>3, <1>4, <1>5

(* Every step preserves the invariants of the message part. *)
LEMMA MessagePartStep ==
  ASSUME TearInv, [TearNext]_tearVars
  PROVE  /\ BaseInv' /\ WorkInv' /\ RevokeInv'
         /\ upc' # "freed" => OnePlace'
<1>0. BaseInv /\ WorkInv /\ RevokeInv /\ flags \subseteq Bits
  BY DEF TearInv, DevBase, BaseInv, MsgTypeOK
<1>1. CASE MessageStep
  <2>1. upc # "freed" /\ [MsgNext]_msgVars
    BY <1>1, NothingMoves DEF MessageStep
  <2>2. OnePlace
    BY <2>1 DEF TearInv
  <2> QED
    BY <1>0, <2>1, <2>2, BaseStep, OnePlaceStep, WorkStep, RevokeInvStep
<1>2. CASE SleepingStep
  <2>1. BarTypeOK'
    BY <1>2, BarTypeSleep, BarTypeAwake
       DEF SleepingStep, BarNext, TearInv, DevBase
  <2> QED
    BY <1>2, <2>1, MessagePartKept DEF SleepingStep, BarTypeOK
<1>3. CASE WaitingStep
  <2>1. UNCHANGED msgPriv /\ flags' = flags
    BY <1>3, DeviceWaits DEF devVars
  <2>2. upc = "freed" => upc' = "freed"
    BY <1>3 DEF WaitingStep, group_free_enter, group_free_flushed,
         group_free_no_wq, destroy_workqueue, Free, tearVars
  <2> QED
    BY <1>0, <2>1, <2>2, MessagePartKept
<1>4. CASE group_free_barrier
  BY <1>0, <1>4, MessagePartKept DEF group_free_barrier, clear_bit, Free
<1>5. CASE group_free_pending
  <2>1. UNCHANGED <<message_list, pending_list, messages_number, stored,
                    delay, max_storage_size, delay_wq, work, delay_list,
                    poisoned, queue, running, pos, q, reg, owed, sem, pc,
                    msg, fate, flags>>
    BY <1>5 DEF group_free_pending, listVars, paramVars, workVars, flushVars
  <2>2. corrupted' \in BOOLEAN /\ ~corrupted /\ upc # "freed"
    BY <1>5 DEF group_free_pending, Free
  <2>3. BaseInv'
    BY <1>0, <2>1, <2>2 DEF BaseInv, MsgTypeOK, LockInv, HoldInv
  <2>4. WorkInv'
    BY <1>0, <2>1, <2>2 DEF WorkInv, WriterInv, QueueInv, LinkInv, LoopInv
  <2>5. RevokeInv'
    BY <1>0, <2>1 DEF RevokeInv, OwedWritten, OwedPublished, NoWqInv,
                      WorkerHand
  <2>6. OnePlace'
    BY <2>1, <2>2 DEF TearInv, OnePlace, Carries
  <2> QED
    BY <2>3, <2>4, <2>5, <2>6
<1>6. CASE group_free_messages
  <2>1. UNCHANGED <<pending_list, messages_number, stored,
                    delay, max_storage_size, delay_wq, work, delay_list,
                    poisoned, queue, running, pos, q, reg, owed, sem, pc,
                    msg, fate, flags, corrupted>>
    BY <1>6 DEF group_free_messages, paramVars, workVars, flushVars
  <2>2. message_list' = <<>> /\ upc' = "freed" /\ upc = "messages"
    BY <1>6 DEF group_free_messages, Free
  <2>3. \A t \in Readers : pc[t] = "idle"
    BY <2>2 DEF TearInv, NoCallers
  <2>4. BaseInv'
    <3>1. MsgTypeOK' /\ LockInv'
      BY <1>0, <2>1, <2>2 DEF BaseInv, MsgTypeOK, LockInv
    <3>2. HoldInv'
      BY <1>0, <2>1, <2>3 DEF BaseInv, HoldInv
    <3> QED
      BY <3>1, <3>2 DEF BaseInv
  <2>5. WorkInv'
    BY <1>0, <2>1 DEF WorkInv, WriterInv, QueueInv, LinkInv, LoopInv
  <2>6. RevokeInv'
    BY <1>0, <2>1 DEF RevokeInv, OwedWritten, OwedPublished, NoWqInv,
                      WorkerHand
  <2> QED
    BY <2>2, <2>4, <2>5, <2>6
<1> QED
  BY <1>1, <1>2, <1>3, <1>4, <1>5, <1>6, TearKinds

(* Every step keeps the barrier part well typed. *)
LEMMA BarrierPartStep ==
  ASSUME TearInv, [TearNext]_tearVars
  PROVE  BarTypeOK'
<1>0. BarTypeOK /\ flags' \subseteq Bits
  BY MessagePartStep DEF TearInv, DevBase, BaseInv, MsgTypeOK
<1>1. CASE UNCHANGED barPriv
  BY <1>0, <1>1 DEF barPriv, BarTypeOK
<1>2. CASE SleepingStep
  BY <1>0, <1>2, BarTypeSleep, BarTypeAwake DEF SleepingStep, BarNext
<1>3. CASE group_free_barrier
  BY <1>0, <1>3 DEF group_free_barrier, BarTypeOK
<1>4. WaitingStep => UNCHANGED barPriv
  BY DeviceWaits DEF devVars
<1> QED
  BY <1>1, <1>2, <1>3, <1>4, TearKinds DEF MessageStep, group_free_pending,
       group_free_messages

-----------------------------------------------------------------------------
(* Who is still active                                                     *)

(* While group_free runs, outside its flush, only the workqueue thread and *)
(* the timers move.                                                        *)
LEMMA OnlyWorks ==
  ASSUME TearInv, StillAlive, upc \notin {"none", "flushing"}
  PROVE  WorkerStep \/ \E w \in Msgs : timer_expire(w)
<1>1. \A t \in Revokers : pc[t] = "idle"
  BY DEF TearInv, NoCallers
<1>2. \A t \in Revokers : ~FlushStep(t)
  BY <1>1 DEF FlushStep, _fflush_pend_down, _fflush_msg_down,
       _fflush_splice, fflush_no_wq, fflush_down, set_flushing_load,
       set_flushing_store, fflush_first, fflush_unlink, fflush_flush,
       fflush_next, fflush_drain, clear_flushing_load,
       clear_flushing_store, Down, Goto
<1> QED
  BY <1>2 DEF StillAlive

(* The workqueue thread and the timers move no caller. *)
LEMMA WorksMoveNobody ==
  ASSUME BaseInv, WorkerStep \/ \E w \in Msgs : timer_expire(w)
  PROVE  /\ \A t \in Callers : pc'[t] = pc[t] /\ msg'[t] = msg[t]
         /\ UNCHANGED <<flags, delay_wq, fate>>
<1> USE ThreadAssumption
<1>1. CASE WorkerStep
  BY <1>1, WorkerAlone DEF Alone, Procs
<1>2. CASE \E w \in Msgs : timer_expire(w)
  BY <1>2, NobodyMoves DEF OtherStep
<1> QED
  BY <1>1, <1>2

(* Every step preserves NoCallers. *)
LEMMA NoCallersStep ==
  ASSUME TearInv, [TearNext]_tearVars
  PROVE  NoCallers'
<1> USE ThreadAssumption
<1>0. NoCallers /\ BaseInv
  BY DEF TearInv, DevBase
<1>1. CASE upc' = "none" /\ upc = "none"
  BY <1>1 DEF NoCallers
<1>2. CASE MessageStep /\ upc # "none"
  <2>1. bpc' = bpc
    BY <1>2 DEF MessageStep, barPriv
  <2>2. CASE \E t \in Revokers : group_free_flush(t)
    <3>1. PICK t \in Revokers : group_free_flush(t)
      BY <2>2
    <3>2. upc' = "flushing" /\ delay_wq /\ fflush_enter(t)
      BY <3>1 DEF group_free_flush, Free
    <3>3. delay_wq' /\ \A u \in Writers \cup Readers : pc'[u] = pc[u]
      BY <1>0, <3>2, FlushAlone DEF Alone, Procs, Callers
    <3> QED
      BY <1>0, <1>2, <2>1, <3>2, <3>3 DEF NoCallers
  <2>3. CASE StillAlive /\ upc' = upc /\ upc # "flushing"
    <3>1. (\A u \in Callers : pc'[u] = pc[u]) /\ delay_wq' = delay_wq
      BY <1>0, <1>2, <2>3, OnlyWorks, WorksMoveNobody
    <3> QED
      BY <1>0, <2>1, <2>3, <3>1 DEF NoCallers, Callers
  <2>4. CASE StillAlive /\ upc' = upc /\ upc = "flushing"
    <3>1. /\ \A u \in Writers \cup Readers : pc'[u] = pc[u]
          /\ delay_wq' = delay_wq
      BY <1>0, <2>4, WorksMoveNobody, FlushAlone
         DEF StillAlive, Alone, Procs, Callers
    <3> QED
      BY <1>0, <2>1, <2>4, <3>1 DEF NoCallers
  <2> QED
    BY <1>2, <2>2, <2>3, <2>4 DEF MessageStep
<1>3. CASE WaitingStep
  <2>1. UNCHANGED <<pc, bpc, delay_wq>>
    BY <1>3, DeviceWaits DEF devVars, msgPriv, barPriv, paramVars
  <2>2. CASE UNCHANGED tearVars
    BY <1>0, <2>1, <2>2 DEF NoCallers, tearVars
  <2>3. CASE group_free_enter \/ group_free_flushed
    BY <1>0, <2>1, <2>3 DEF NoCallers, group_free_enter, group_free_flushed,
                            Free, Quiet, Callers
  <2>4. CASE group_free_no_wq \/ destroy_workqueue
    BY <1>0, <2>1, <2>4 DEF NoCallers, group_free_no_wq, destroy_workqueue,
                            Free
  <2> QED
    BY <1>3, <2>2, <2>3, <2>4 DEF WaitingStep
<1>4. CASE group_free_barrier \/ group_free_pending \/ group_free_messages
  <2>1. UNCHANGED <<pc, bpc>>
    BY <1>4 DEF group_free_barrier, group_free_pending,
         group_free_messages, msgPriv, barPriv
  <2>2. upc \in {"barrier", "pending", "messages"}
        /\ upc' \in {"flush", "messages", "freed"}
    BY <1>4 DEF group_free_barrier, group_free_pending,
         group_free_messages, Free
  <2> QED
    BY <1>0, <2>1, <2>2 DEF NoCallers
<1> QED
  BY <1>1, <1>2, <1>3, <1>4, TearKinds DEF MessageStep, SleepingStep

-----------------------------------------------------------------------------
(* The flush                                                               *)

(* The workqueue thread and the timers bring no pending message back.     *)
LEMMA PendingStaysEmpty ==
  ASSUME BaseInv, OnePlace, pending_list = <<>>,
         WorkerStep \/ \E w \in Msgs : timer_expire(w)
  PROVE  pending_list' = <<>>
<1>1. CASE WorkerStep
  <2>1. Range(pending_list') \subseteq Range(pending_list)
    BY <1>1, WorkerEffect
  <2>2. pending_list' \in Seq(Msgs)
    BY <1>1, BaseStep DEF MsgNext, BaseInv, MsgTypeOK
  <2>3. pending_list' # <<>> => Range(pending_list') # {}
    BY <2>2, HeadInRange
  <2> QED
    BY <2>1, <2>3 DEF Range
<1>2. CASE \E w \in Msgs : timer_expire(w)
  BY <1>2 DEF timer_expire, listVars
<1> QED
  BY <1>1, <1>2

(* No step of the workqueue thread or of a timer brings back a pending     *)
(* message, a linked work or an armed timer.                               *)
LEMMA CleanKept ==
  ASSUME BaseInv, OnePlace, Clean,
         WorkerStep \/ \E w \in Msgs : timer_expire(w)
  PROVE  Clean'
<1>1. CASE WorkerStep
  <2>1. pending_list' = <<>>
    BY PendingStaysEmpty DEF Clean
  <2>2. ~corrupted
    BY <1>1, WorkerWork
  <2>3. delay_list' = <<>>
    <3>1. delay_list = <<>>
      BY <2>2 DEF Clean
    <3>2. list_del(running, delay_list) = <<>>
      BY <3>1 DEF list_del, Range
    <3> QED
      BY <1>1, <3>1, <3>2, WorkerWork DEF SameWorks
  <2>4. \A w \in Msgs : work'[w] # "timer"
    BY <1>1, <2>2, WorkerWork DEF Clean, SameWorks, BaseInv, MsgTypeOK
  <2> QED
    BY <2>1, <2>3, <2>4 DEF Clean
<1>2. CASE \E w \in Msgs : timer_expire(w)
  <2>1. pending_list' = <<>>
    BY PendingStaysEmpty DEF Clean
  <2> QED
    BY <1>2, <2>1 DEF timer_expire, Clean
<1> QED
  BY <1>1, <1>2

(* When the flush returns, it has drained everything. *)
LEMMA FlushCleans ==
  ASSUME TearInv, upc = "flushing", NEW t \in Revokers, FlushStep(t),
         pc'[t] = "idle"
  PROVE  Clean'
<1>1. BaseInv /\ WorkInv /\ delay_wq /\ ~corrupted
  BY FlushWork DEF TearInv, DevBase, NoCallers
<1>2. /\ pc[t] = "f_clear" /\ SameWorks /\ pending_list' = pending_list
      /\ corrupted' = corrupted
  <2>1. t \in DOMAIN pc
    BY <1>1 DEF BaseInv, MsgTypeOK, Procs, Callers
  <2> QED
    BY <1>1, <2>1 DEF FlushStep, _fflush_pend_down, _fflush_msg_down,
         _fflush_splice, fflush_no_wq, fflush_down, set_flushing_load,
         set_flushing_store, fflush_first, fflush_unlink, fflush_flush,
         fflush_next, fflush_drain, clear_flushing_load,
         clear_flushing_store, Down, Goto, SameWorks, workVars, listVars
<1>3. pending_list = <<>>
  BY <1>2 DEF TearInv, FlushInv, AfterSplice, FlushingPcs
<1>4. LinkInv /\ LoopInv
  BY <1>1 DEF WorkInv
<1>5. delay_list = <<>>
  BY <1>2, <1>4 DEF LoopInv
<1>6. /\ \A u \in Writers : pc[u] # "l_add"
      /\ \A u \in Revokers : pc[u] # "f_flush"
  BY <1>1, <1>2, OneInWqCS, ThreadAssumption DEF WqCS
<1>7. \A w \in Msgs : work[w] # "timer"
  BY <1>4, <1>5, <1>6 DEF LinkInv, Range
<1> QED
  BY <1>2, <1>3, <1>5, <1>7 DEF Clean, SameWorks

(* Every step preserves FlushInv. *)
LEMMA FlushInvStep ==
  ASSUME TearInv, [TearNext]_tearVars
  PROVE  FlushInv'
<1> USE ThreadAssumption
<1>0. FlushInv /\ BaseInv /\ (upc # "freed" => OnePlace)
  BY DEF TearInv, DevBase
<1>1. CASE upc' \in {"none", "barrier", "flush"}
  BY <1>1 DEF FlushInv
<1>2. CASE \E t \in Revokers : group_free_flush(t)
  <2>1. PICK t \in Revokers : group_free_flush(t)
    BY <1>2
  <2>2. upc' = "flushing" /\ fflush_enter(t) /\ upc = "flush"
    BY <2>1 DEF group_free_flush, Free
  <2>3. pc'[t] = "f_pdown" /\ \A u \in Revokers \ {t} : pc'[u] = "idle"
    BY <1>0, <2>2, FlushAlone DEF fflush_enter, Goto, Alone, TearInv,
         NoCallers, BaseInv, MsgTypeOK, Procs, Callers
  <2> QED
    BY <2>2, <2>3 DEF FlushInv, AfterSplice, FlushingPcs
<1>3. CASE StillAlive /\ upc' = upc /\ upc = "destroy"
  <2>1. Clean'
    BY <1>0, <1>3, OnlyWorks, CleanKept DEF FlushInv
  <2> QED
    BY <1>3, <2>1 DEF FlushInv
<1>4. CASE StillAlive /\ upc' = upc /\ upc = "flushing"
  <2>1. CASE WorkerStep \/ \E w \in Msgs : timer_expire(w)
    <3>1. \A t \in Revokers : pc'[t] = pc[t]
      BY <1>0, <2>1, WorksMoveNobody DEF Callers
    <3>2. pending_list = <<>> => pending_list' = <<>>
      BY <1>0, <1>4, <2>1, PendingStaysEmpty
    <3>3. Clean => Clean'
      BY <1>0, <1>4, <2>1, CleanKept
    <3> QED
      BY <1>0, <1>4, <3>1, <3>2, <3>3 DEF FlushInv
  <2>2. CASE \E t \in Revokers : FlushStep(t)
    <3>1. PICK t \in Revokers : FlushStep(t)
      BY <2>2
    <3>2. \A u \in Revokers \ {t} : pc'[u] = pc[u]
      BY <1>0, <3>1, FlushAlone DEF Alone, Procs, Callers
    <3>3. ASSUME pending_list = <<>> PROVE pending_list' = <<>>
      BY <1>0, <3>1, <3>3, FlushEffect
    <3>4. pc'[t] \in AfterSplice => pending_list' = <<>>
      <4>1. CASE pc'[t] \in {"idle", "f_pdown"}
        BY <4>1 DEF AfterSplice, FlushingPcs
      <4>2. CASE pc'[t] \notin {"idle", "f_pdown"}
        BY <1>0, <1>4, <3>1, <3>3, <4>2, FlushEffect DEF FlushInv
      <4> QED
        BY <4>1, <4>2
    <3>5. pc'[t] = "idle" => Clean'
      BY <1>4, <3>1, FlushCleans
    <3> QED
      BY <1>0, <1>4, <3>2, <3>3, <3>4, <3>5 DEF FlushInv
  <2> QED
    BY <1>4, <2>1, <2>2 DEF StillAlive
<1>5. CASE WaitingStep
  <2>1. UNCHANGED <<pc, pending_list, delay_list, work, queue, corrupted,
                    delay_wq>>
    BY <1>5, DeviceWaits DEF devVars, msgPriv, listVars, workVars, paramVars
  <2>2. (Clean' <=> Clean) /\ (Done' <=> Done)
    BY <2>1 DEF Clean, Done
  <2>3. CASE UNCHANGED tearVars
    BY <1>0, <2>1, <2>2, <2>3 DEF FlushInv, tearVars
  <2>4. CASE group_free_enter
    BY <1>1, <2>4 DEF group_free_enter, Free
  <2>5. CASE group_free_flushed
    BY <1>0, <2>2, <2>5 DEF FlushInv, group_free_flushed, Free, Quiet,
                            Callers
  <2>6. CASE group_free_no_wq
    <3>1. Done
      BY <2>6 DEF group_free_no_wq, TearInv, RevokeInv, NoWqInv, Done
    <3> QED
      BY <2>1, <2>2, <2>6, <3>1 DEF FlushInv, group_free_no_wq, Free
  <2>7. CASE destroy_workqueue
    BY <1>0, <2>2, <2>7 DEF FlushInv, destroy_workqueue, Free, Done
  <2> QED
    BY <1>5, <2>3, <2>4, <2>5, <2>6, <2>7 DEF WaitingStep
<1>6. CASE group_free_barrier
  BY <1>1, <1>6 DEF group_free_barrier, Free
<1>7. CASE group_free_pending
  BY <1>0, <1>7 DEF group_free_pending, Free, FlushInv, Clean, Done,
       listVars, workVars, paramVars
<1>8. CASE group_free_messages
  BY <1>0, <1>8 DEF group_free_messages, Free, FlushInv, Clean, Done,
       workVars, paramVars
<1>9. CASE MessageStep
  BY <1>1, <1>2, <1>3, <1>4, <1>9, NothingMoves
     DEF MessageStep, TearInv, NoCallers
<1> QED
  BY <1>1, <1>5, <1>6, <1>7, <1>8, <1>9, TearKinds DEF SleepingStep

-----------------------------------------------------------------------------
(* The barrier                                                             *)

(* A barrier command raises the barrier for a thread that then waits, and  *)
(* a waiting thread returns only when it finds the barrier down.           *)
LEMMA RaisedStep ==
  ASSUME BarTypeOK, BarNext,
         is_barrier_up => \E t \in Sleepers : bpc[t] \in Waiting,
         is_barrier_up'
  PROVE  \E t \in Sleepers : bpc'[t] \in Waiting
<1> USE BarrierAssumption
<1>0. \A t \in BarThreads : t \in DOMAIN bpc
  BY DEF BarTypeOK
<1>1. CASE \E t \in Sleepers : set_barrier_store(t)
  BY <1>0, <1>1 DEF set_barrier_store, Step, Waiting, BarThreads
<1>2. ASSUME NEW t \in Sleepers, sleep_enter(t) \/ SleepStep(t),
             ~set_barrier_store(t)
      PROVE  \E u \in Sleepers : bpc'[u] \in Waiting
  <2>1. flags' = flags
    BY <1>2 DEF SleepStep, sleep_enter, set_barrier_load, wait_event_test,
                wait_event_prepare, wait_event_cond, wait_event_resume
  <2>2. is_barrier_up
    BY <2>1 DEF is_barrier_up, check_bit
  <2>3. \A u \in Sleepers : bpc[u] \in Waiting => bpc'[u] \in Waiting
    BY <1>0, <1>2, <2>2 DEF SleepStep, sleep_enter, set_barrier_load,
         wait_event_test, wait_event_prepare, wait_event_cond,
         wait_event_resume, Step, Waiting, BarThreads, BarTypeOK
  <2> QED
    BY <2>2, <2>3
<1>3. ASSUME NEW a \in Awakers, awake_enter(a) \/ AwakeStep(a)
      PROVE  \E u \in Sleepers : bpc'[u] \in Waiting
  <2>1. \A u \in Sleepers : bpc'[u] = bpc[u]
    BY <1>3 DEF AwakeStep, awake_enter, awake_check, clear_barrier_load,
                clear_barrier_store, waitqueue_active_early,
                clear_barrier_late, waitqueue_active, wake_up_all, Step,
                BarTypeOK, BarThreads
  <2>2. BARRIER_BIT \in flags
    BY <1>3 DEF AwakeStep, awake_enter, awake_check, clear_barrier_load,
                clear_barrier_store, waitqueue_active_early,
                clear_barrier_late, waitqueue_active, wake_up_all,
                StoreCleared, clear_bit, is_barrier_up, check_bit
  <2> QED
    BY <2>1, <2>2 DEF is_barrier_up, check_bit
<1> QED
  BY <1>1, <1>2, <1>3 DEF BarNext

(* Every step preserves RaisedInv. *)
LEMMA RaisedInvStep ==
  ASSUME TearInv, [TearNext]_tearVars
  PROVE  RaisedInv'
<1>0. RaisedInv /\ DevBase /\ BaseInv /\ BarTypeOK
  BY DEF TearInv, DevBase
<1>1. CASE upc' \notin {"none", "barrier"}
  BY <1>1 DEF RaisedInv, BarrierDownAtRemoval
<1>2. CASE UNCHANGED <<upc, overlapped, flags, reg, pc, bpc, breg, released>>
  BY <1>0, <1>2 DEF RaisedInv, BarrierDownAtRemoval, FlagsInv,
       RegistersFresh, FlushingRMW, BarrierRMW, FlushingBitMeansFlushing,
       SleepUntilAwoken, is_flushing, is_barrier_up, check_bit
<1>3. CASE group_free_enter
  <2>1. upc = "none" /\ upc' = "barrier" /\ UNCHANGED <<flags, overlapped>>
    BY <1>3 DEF group_free_enter, Free, devVars
  <2>2. \A t \in Sleepers : bpc[t] \notin Waiting
    BY <1>3 DEF group_free_enter, Quiet, BarThreads, Waiting
  <2>3. is_barrier_up => overlapped
    BY <1>0, <2>1, <2>2 DEF RaisedInv
  <2> QED
    BY <2>1, <2>3 DEF RaisedInv, BarrierDownAtRemoval, is_barrier_up,
                      check_bit
<1>4. CASE MessageStep /\ upc # "none" /\ upc' = "barrier"
  <2>1. StillAlive /\ upc' = upc /\ overlapped' = overlapped
    BY <1>4 DEF MessageStep, group_free_flush, Free
  <2>2. flags' = flags
    BY <1>0, <1>4, <2>1, OnlyWorks, WorksMoveNobody
  <2> QED
    BY <1>0, <1>4, <2>1, <2>2 DEF RaisedInv, BarrierDownAtRemoval,
                                  is_barrier_up, check_bit
<1>5. CASE upc = "none" /\ upc' = "none" /\ (MessageStep \/ SleepingStep)
  <2>1. \/ MsgNext /\ UNCHANGED barPriv
        \/ BarNext /\ UNCHANGED msgPriv
    BY <1>5 DEF MessageStep, SleepingStep
  <2>2. overlapped' = (overlapped \/ (FlushingRMW' /\ BarrierRMW'))
    BY <1>5 DEF MessageStep, SleepingStep
  <2>3. FlagsInv /\ FlagsInv'
    <3>1. FlagsInv
      BY <1>0, <1>5 DEF RaisedInv
    <3>2. DevNext
      BY <1>5, <2>2 DEF DevNext, MessageStep, SleepingStep
    <3> QED
      BY <1>0, <3>1, <3>2, FlagsInvStep
  <2>4. ASSUME ~overlapped', is_barrier_up'
        PROVE  \E t \in Sleepers : bpc'[t] \in Waiting
    <3>1. ~overlapped
      BY <2>2, <2>4
    <3>2. is_barrier_up => \E t \in Sleepers : bpc[t] \in Waiting
      BY <1>0, <1>5, <3>1 DEF RaisedInv
    <3>3. CASE BarNext
      BY <1>0, <2>4, <3>2, <3>3, RaisedStep
    <3>4. CASE MsgNext /\ UNCHANGED barPriv
      <4>1. BARRIER_BIT \in flags' <=> BARRIER_BIT \in flags
        BY <1>0, <2>3, <3>1, <3>4, ByteOfMessages DEF FlagsInv,
             RegistersFresh, set_bit, clear_bit, BARRIER_BIT, FLUSHING_BIT
      <4> QED
        BY <2>4, <3>2, <3>4, <4>1 DEF is_barrier_up, check_bit, barPriv
    <3> QED
      BY <2>1, <3>3, <3>4
  <2> QED
    BY <1>5, <2>3, <2>4 DEF RaisedInv, BarrierDownAtRemoval
<1>6. CASE WaitingStep
  <2>1. CASE UNCHANGED tearVars
    BY <1>2, <2>1 DEF tearVars, devVars, msgPriv, barPriv, flushVars
  <2> QED
    BY <1>1, <1>3, <1>6, <2>1 DEF WaitingStep, group_free_flushed,
         group_free_no_wq, destroy_workqueue, Free
<1>7. CASE group_free_barrier \/ group_free_pending \/ group_free_messages
  BY <1>1, <1>7 DEF group_free_barrier, group_free_pending,
       group_free_messages, Free
<1>8. CASE MessageStep \/ SleepingStep
  BY <1>1, <1>4, <1>5, <1>8 DEF MessageStep, SleepingStep, group_free_flush,
       Free
<1> QED
  BY <1>6, <1>7, <1>8, TearKinds

-----------------------------------------------------------------------------
(* The messages                                                            *)

(* Every step preserves EveryMessageFreed: when the stored messages are    *)
(* freed there is no other place a message can be in.                      *)
LEMMA FreedStep ==
  ASSUME TearInv, [TearNext]_tearVars
  PROVE  EveryMessageFreed'
<1>1. CASE upc' # "freed"
  BY <1>1 DEF EveryMessageFreed
<1>2. CASE group_free_messages
  <2>1. /\ upc = "messages" /\ ~corrupted /\ fate' = fate
        /\ freed' = freed \cup Range(message_list)
    BY <1>2 DEF group_free_messages, Free
  <2>2. OnePlace /\ pending_list = <<>> /\ pc[Worker] = "idle"
    BY <2>1 DEF TearInv, FlushInv, Done
  <2>3. \A p \in Procs : pc[p] = "idle"
    BY <2>1, <2>2 DEF TearInv, NoCallers, Procs, Callers
  <2>4. \A p \in Procs : ~Carries(p)
    BY <2>3 DEF Carries
  <2>5. Range(pending_list) = {}
    BY <2>2 DEF Range
  <2> QED
    BY <2>1, <2>2, <2>4, <2>5 DEF EveryMessageFreed, OnePlace
<1>3. CASE upc = "freed" /\ UNCHANGED tearVars
  BY <1>3 DEF TearInv, EveryMessageFreed, tearVars, devVars, msgPriv
<1>4. CASE upc' = "freed" /\ ~group_free_messages
  <2>1. ~MessageStep \/ upc # "freed"
    BY NothingMoves
  <2>2. upc = "freed" /\ UNCHANGED tearVars
    BY <1>4, <2>1, TearKinds DEF MessageStep, SleepingStep, WaitingStep,
         group_free_enter, group_free_flushed, group_free_no_wq,
         destroy_workqueue, group_free_barrier, group_free_pending,
         group_free_flush, Free, tearVars
  <2> QED
    BY <1>3, <2>2
<1> QED
  BY <1>1, <1>2, <1>4

-----------------------------------------------------------------------------
(* The theorems                                                            *)

(* TearInv holds in a new device and every step preserves it. *)
LEMMA TearInvCorrect == TearSpec => []TearInv
<1>1. TearInit => TearInv
  <2> SUFFICES ASSUME TearInit PROVE TearInv
    OBVIOUS
  <2>1. DevBase /\ FlagsInv
    BY DevInvInit DEF TearInit
  <2>2. WorkInv /\ RevokeInv /\ OnePlace
    BY WorkInvInit, RevokeInvInit, OnePlaceInit DEF TearInit, DevInit
  <2>3. upc = "none" /\ flags = {}
    BY DEF TearInit, DevInit, FlagsInit
  <2>4. NoCallers /\ FlushInv /\ EveryMessageFreed
    BY <2>3 DEF NoCallers, FlushInv, EveryMessageFreed
  <2>5. RaisedInv
    BY <2>1, <2>3 DEF RaisedInv, BarrierDownAtRemoval, is_barrier_up,
                      check_bit
  <2> QED
    BY <2>1, <2>2, <2>4, <2>5 DEF TearInv
<1>2. TearInv /\ [TearNext]_tearVars => TearInv'
  BY MessagePartStep, BarrierPartStep, NoCallersStep, FlushInvStep,
     RaisedInvStep, FreedStep DEF TearInv, DevBase
<1> QED
  BY <1>1, <1>2, PTL DEF TearSpec

(* group_free frees the lists and the semaphores of a device with a        *)
(* workqueue only when nothing can touch them any more: no message is      *)
(* pending, no work linked, queued, running, or waiting for its timer,     *)
(* however many writers, revocations and sleepers used the device before.  *)
THEOREM RemovalLeavesNothing == TearSpec => []NothingLeftBehind
<1>1. TearInv => NothingLeftBehind
  <2> SUFFICES ASSUME TearInv, upc \in {"pending", "messages", "freed"},
                      ~corrupted, delay_wq
               PROVE  /\ pending_list = <<>> /\ delay_list = <<>>
                      /\ \A w \in Msgs : work[w] \in {"none", "freed"}
    BY DEF NothingLeftBehind
  <2>1. Clean /\ Done
    BY DEF TearInv, FlushInv
  <2>2. \A w \in Msgs : work[w] \notin {"queued", "running"}
    BY <2>1 DEF Done, TearInv, WorkInv, QueueInv, Range
  <2>3. \A w \in Msgs : work[w] # "timer"
    BY <2>1 DEF Clean
  <2>4. \A w \in Msgs :
          work[w] \in {"none", "timer", "queued", "running", "freed"}
    BY DEF TearInv, DevBase, BaseInv, MsgTypeOK
  <2> QED
    BY <2>1, <2>2, <2>3, <2>4 DEF Clean
<1> QED
  BY <1>1, TearInvCorrect, PTL

(* No message leaks: one that was written and never read is freed with the *)
(* device, wherever the delay, the worker or a revocation had it when the  *)
(* last file was closed.                                                   *)
THEOREM RemovalFreesMessages == TearSpec => []EveryMessageFreed
<1>1. TearInv => EveryMessageFreed
  BY DEF TearInv
<1> QED
  BY <1>1, TearInvCorrect, PTL

(* group_free finds the barrier up only after a lost update of the flags   *)
(* byte: otherwise a raised barrier has a thread waiting on it, whose open *)
(* file keeps the module.                                                  *)
THEOREM RemovalFindsBarrierDown == TearSpec => []BarrierDownAtRemoval
<1>1. TearInv => BarrierDownAtRemoval
  BY DEF TearInv, RaisedInv
<1> QED
  BY <1>1, TearInvCorrect, PTL

(* A revocation publishes what it owes also on a device whose barrier is   *)
(* in use, and also when it is the one group_free makes: a lost update of  *)
(* the flags byte may break the list of works, it never hides a message.   *)
THEOREM RevocationPublishesOnDevice == TearSpec => RevokeComplete
<1>1. TearInv /\ [TearNext]_tearVars =>
        [\A t \in Revokers : pc[t] # "idle" /\ pc'[t] = "idle" =>
           owed[t] \cap (Range(pending_list') \cup WorkerHand') = {}]_msgVars
  <2> SUFFICES ASSUME TearInv, [TearNext]_tearVars, NEW t \in Revokers,
                      pc[t] # "idle", pc'[t] = "idle"
               PROVE  owed[t] \cap (Range(pending_list') \cup WorkerHand')
                        = {}
    OBVIOUS
  <2>1. [MsgNext]_msgVars
    <3>1. WaitingStep => pc' = pc
      BY DeviceWaits DEF devVars, msgPriv
    <3> QED
      BY <3>1, TearKinds DEF MessageStep, SleepingStep, group_free_barrier,
           group_free_pending, group_free_messages, msgPriv
  <2> QED
    BY <2>1, RevokeReturns DEF TearInv, DevBase, RevokeInv
<1> QED
  BY <1>1, TearInvCorrect, PTL DEF TearSpec, RevokeComplete
=============================================================================
