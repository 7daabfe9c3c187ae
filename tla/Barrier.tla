------------------------------ MODULE Barrier ------------------------------
(***************************************************************************)
(* The sleep barrier of one group device: IOCTL_SLEEP_ON_BARRIER and       *)
(* IOCTL_AWAKE_BARRIER in group_unlocked_ioctl (kmodule/group_dev.c),      *)
(* with the kernel's wait_event, waitqueue_active and wake_up_all as those *)
(* two commands use them.                                                  *)
(*                                                                         *)
(* Neither command takes a lock of its own.  bpc[t] names the statement    *)
(* thread t executes next.  BARRIER_BIT is changed by a load and a store   *)
(* of the whole flags byte (see DeviceFlags), and breg[t] is the register  *)
(* between the two.                                                        *)
(***************************************************************************)
EXTENDS DeviceFlags, Integers

CONSTANTS
  Sleepers, Awakers,   \* threads, by the command they send
  Machines,            \* memory orders to consider, see MemoryOrders
  MaxNaps              \* bound: sleep commands of one thread

(* "SC": every access is seen in program order.  "TSO": a store may wait   *)
(* in the store buffer of its processor while a later load is answered,    *)
(* which is what the machines the module is built for do.                  *)
MemoryOrders == {"SC", "TSO"}

ASSUME BarrierAssumption ==
  /\ Sleepers \cap Awakers = {} /\ MaxNaps \in Nat
  /\ Machines \subseteq MemoryOrders

VARIABLES
  machine,             \* the memory order of this behaviour
  bpc, breg,           \* per thread: next statement, the loaded byte
  wait_queue,          \* threads linked in dev->wait_queue
  released,            \* history: an awake cleared the bit after t set it
  naps                 \* sleep commands each thread has sent

barPriv == <<machine, bpc, breg, wait_queue, released, naps>>
barVars == <<barPriv, flags>>

BarThreads == Sleepers \cup Awakers

BarInit ==
  /\ machine \in Machines
  /\ bpc = [t \in BarThreads |-> "idle"]
  /\ breg = [t \in BarThreads |-> {}]
  /\ wait_queue = {} /\ released = {}
  /\ naps = [t \in Sleepers |-> 0]

Step(t, from, to) == bpc[t] = from /\ bpc' = [bpc EXCEPT ![t] = to]

-----------------------------------------------------------------------------
(* IOCTL_SLEEP_ON_BARRIER: set_barrier, then wait_event                    *)

sleep_enter(t) ==
  /\ Step(t, "idle", "s_load")
  /\ naps[t] < MaxNaps /\ naps' = [naps EXCEPT ![t] = @ + 1]
  /\ UNCHANGED <<machine, breg, wait_queue, released, flags>>

set_barrier_load(t) ==
  /\ Step(t, "s_load", "s_store")
  /\ breg' = [breg EXCEPT ![t] = flags]
  /\ UNCHANGED <<machine, wait_queue, released, naps, flags>>

(* Mutant: set_barrier toggles the bit. *)
toggle_barrier_store(t) ==
  /\ Step(t, "s_store", "s_test")
  /\ flags' = IF BARRIER_BIT \in breg[t] THEN breg[t] \ {BARRIER_BIT}
              ELSE breg[t] \cup {BARRIER_BIT}
  /\ breg' = [breg EXCEPT ![t] = {}]
  /\ released' = released \ {t}
  /\ UNCHANGED <<machine, wait_queue, naps>>

set_barrier_store(t) ==
  /\ Step(t, "s_store", "s_test")
  /\ flags' = set_bit(breg[t], BARRIER_BIT)
  /\ breg' = [breg EXCEPT ![t] = {}]
  /\ released' = released \ {t}
  /\ UNCHANGED <<machine, wait_queue, naps>>

(* Mutant: the condition of wait_event is negated. *)
wait_event_inverted(t) ==
  /\ Step(t, "s_test", IF is_barrier_up THEN "idle" ELSE "s_prep")
  /\ UNCHANGED <<machine, breg, wait_queue, released, naps, flags>>

(* wait_event tests the condition once before it touches the queue. *)
wait_event_test(t) ==
  /\ Step(t, "s_test", IF is_barrier_up THEN "s_prep" ELSE "idle")
  /\ UNCHANGED <<machine, breg, wait_queue, released, naps, flags>>

(* prepare_to_wait: link the thread, unless it is linked already. *)
wait_event_prepare(t) ==
  /\ Step(t, "s_prep", "s_cond")
  /\ wait_queue' = wait_queue \cup {t}
  /\ UNCHANGED <<machine, breg, released, naps, flags>>

(* Mutant: the thread returns without finish_wait. *)
wait_event_unfinished(t) ==
  /\ Step(t, "s_cond", IF is_barrier_up THEN "s_sched" ELSE "idle")
  /\ UNCHANGED <<machine, breg, wait_queue, released, naps, flags>>

(* Barrier destroyed: finish_wait unlinks the thread, the command returns. *)
wait_event_cond(t) ==
  /\ Step(t, "s_cond", IF is_barrier_up THEN "s_sched" ELSE "idle")
  /\ wait_queue' = IF is_barrier_up THEN wait_queue ELSE wait_queue \ {t}
  /\ UNCHANGED <<machine, breg, released, naps, flags>>

(* Mutant: a woken thread does not test the condition again. *)
wait_event_once(t) ==
  /\ Step(t, "s_sched", "idle")
  /\ t \notin wait_queue
  /\ UNCHANGED <<machine, breg, wait_queue, released, naps, flags>>

(* schedule() comes back once a wake-up has unlinked the thread; the loop  *)
(* then tests the condition again.                                         *)
wait_event_resume(t) ==
  /\ Step(t, "s_sched", "s_prep")
  /\ t \notin wait_queue
  /\ UNCHANGED <<machine, breg, wait_queue, released, naps, flags>>

-----------------------------------------------------------------------------
(* IOCTL_AWAKE_BARRIER                                                     *)

awake_enter(a) ==
  /\ Step(a, "idle", "a_check")
  /\ UNCHANGED <<machine, breg, wait_queue, released, naps, flags>>

(* Mutant: nothing is done when the barrier is down already. *)
awake_check_return(a) ==
  /\ Step(a, "a_check", IF is_barrier_up THEN "a_load" ELSE "idle")
  /\ UNCHANGED <<machine, breg, wait_queue, released, naps, flags>>

awake_check(a) ==
  /\ Step(a, "a_check", IF is_barrier_up THEN "a_load" ELSE "a_active")
  /\ UNCHANGED <<machine, breg, wait_queue, released, naps, flags>>

clear_barrier_load(a) ==
  /\ Step(a, "a_load", "a_store")
  /\ breg' = [breg EXCEPT ![a] = flags]
  /\ UNCHANGED <<machine, wait_queue, released, naps, flags>>

(* The statements between set_barrier and the return of the command. *)
Waiting == {"s_test", "s_prep", "s_cond", "s_sched"}

StoreCleared(a) ==
  /\ flags' = clear_bit(breg[a], BARRIER_BIT)
  /\ breg' = [breg EXCEPT ![a] = {}]
  /\ released' = released \cup {t \in Sleepers : bpc[t] \in Waiting}
  /\ UNCHANGED <<machine, wait_queue, naps>>

clear_barrier_store(a) == Step(a, "a_store", "a_active") /\ StoreCleared(a)

(* Mutant: the queue is tested before the barrier is destroyed. *)
waitqueue_active_first(a) ==
  /\ Step(a, "a_store", "a_late")
  /\ wait_queue = {}
  /\ UNCHANGED <<machine, breg, wait_queue, released, naps, flags>>

(* The same two statements when the store is still in the store buffer     *)
(* while waitqueue_active loads the list head and finds it empty: no       *)
(* memory barrier stands between clear_barrier and waitqueue_active.       *)
waitqueue_active_early(a) ==
  /\ machine = "TSO"
  /\ Step(a, "a_store", "a_late")
  /\ wait_queue = {}
  /\ UNCHANGED <<machine, breg, wait_queue, released, naps, flags>>

clear_barrier_late(a) == Step(a, "a_late", "idle") /\ StoreCleared(a)

waitqueue_active(a) ==
  /\ Step(a, "a_active", IF wait_queue = {} THEN "idle" ELSE "a_wake")
  /\ UNCHANGED <<machine, breg, wait_queue, released, naps, flags>>

(* Every linked thread is unlinked and made runnable. *)
wake_up_all(a) ==
  /\ Step(a, "a_wake", "idle")
  /\ wait_queue' = {}
  /\ UNCHANGED <<machine, breg, released, naps, flags>>

-----------------------------------------------------------------------------
(* The specification                                                       *)

SleepStep(t) ==
  \/ set_barrier_load(t) \/ set_barrier_store(t) \/ wait_event_test(t)
  \/ wait_event_prepare(t) \/ wait_event_cond(t) \/ wait_event_resume(t)

AwakeStep(a) ==
  \/ awake_check(a) \/ clear_barrier_load(a) \/ clear_barrier_store(a)
  \/ waitqueue_active_early(a) \/ clear_barrier_late(a)
  \/ waitqueue_active(a) \/ wake_up_all(a)

BarNext ==
  \/ \E t \in Sleepers : sleep_enter(t) \/ SleepStep(t)
  \/ \E a \in Awakers : awake_enter(a) \/ AwakeStep(a)

BarrierInit == BarInit /\ FlagsInit

BarSpec == BarrierInit /\ [][BarNext]_barVars

(* A thread inside a command keeps running; nothing makes one start.       *)
BarFairness ==
  /\ \A t \in Sleepers : WF_barVars(SleepStep(t))
  /\ \A a \in Awakers : WF_barVars(AwakeStep(a))

FairBarSpec == BarSpec /\ BarFairness

-----------------------------------------------------------------------------
(* Properties                                                              *)

SleepPcs == {"s_load", "s_store"} \cup Waiting
AwakePcs == {"a_check", "a_load", "a_store", "a_active", "a_wake", "a_late"}

(* A thread only reaches the statements of the command it sent, and only   *)
(* threads waiting on the barrier are linked in dev->wait_queue.           *)
BarTypeOK ==
  /\ flags \subseteq Bits /\ machine \in Machines
  /\ bpc \in [BarThreads -> {"idle"} \cup SleepPcs \cup AwakePcs]
  /\ \A t \in Sleepers : bpc[t] \in {"idle"} \cup SleepPcs
  /\ \A a \in Awakers : bpc[a] \in {"idle"} \cup AwakePcs
  /\ breg \in [BarThreads -> SUBSET Bits]
  /\ wait_queue \subseteq {t \in Sleepers : bpc[t] \in {"s_cond", "s_sched"}}
  /\ released \subseteq Sleepers
  /\ naps \in [Sleepers -> 0..MaxNaps]

(* sleep_on_barrier() does not return before an awake_barrier() that       *)
(* overlaps or follows it: a waiting thread can only find the bit clear    *)
(* after an awake stored it clear.                                         *)
SleepUntilAwoken ==
  \A t \in Sleepers :
    bpc[t] \in Waiting /\ ~is_barrier_up => t \in released

(* The thread is off the processor until a wake-up unlinks it.             *)
Blocked(t) == bpc[t] = "s_sched" /\ t \in wait_queue

(* No lost wake-up: a thread blocked although the barrier is down will be  *)
(* woken by an awake_barrier() that is still under way.                    *)
NoneStranded ==
  \A t \in Sleepers : Blocked(t) /\ ~is_barrier_up =>
    \E a \in Awakers : bpc[a] \in {"a_active", "a_wake"}

(* Without the reordering of clear_barrier and waitqueue_active there is   *)
(* no lost wake-up, whatever the two commands interleave.                  *)
StrandedNeedsReordering == machine = "SC" => NoneStranded

(* When awake_barrier() is called again and again, every sleep command     *)
(* returns (each thread sends at most MaxNaps of them): neither the lost   *)
(* wake-up nor a re-raised barrier can keep a thread for ever.             *)
AwakesSuffice ==
  ([]<>(\E a \in Awakers : bpc[a] # "idle")) =>
    \A t \in Sleepers : bpc[t] # "idle" ~> bpc[t] = "idle"

-----------------------------------------------------------------------------
(* The barrier these commands implement                                    *)

Gate == INSTANCE SleepBarrier WITH
  Threads <- Sleepers,
  raised  <- is_barrier_up,
  waiting <- {t \in Sleepers : bpc[t] \in Waiting}

(* Loads, stores, the wait queue and the wake-ups together behave like an  *)
(* atomic barrier: a thread leaves only at a moment the barrier is down,   *)
(* also when it was woken and the barrier was raised again before it ran.  *)
ImplementsSleepBarrier == Gate!GateSpec
=============================================================================
