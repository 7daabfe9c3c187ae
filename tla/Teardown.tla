------------------------------ MODULE Teardown ------------------------------
(***************************************************************************)
(* The end of a group device: group_free (kmodule/group_dev_manager.c) on  *)
(* a device with everything its users have left in it.                     *)
(*                                                                         *)
(* The module can be removed once no file of the device is open, so no     *)
(* call is under way and none will start.  Works, timers and the worker    *)
(* go on until the workqueue is destroyed.                                 *)
(***************************************************************************)
EXTENDS GroupDevice

VARIABLES
  upc,         \* next statement of group_free, "none" before it is called
  freed        \* messages it has freed

tearVars == <<devVars, upc, freed>>

TearInit == DevInit /\ upc = "none" /\ freed = {}

Quiet ==
  /\ \A t \in Callers : pc[t] = "idle"
  /\ \A t \in BarThreads : bpc[t] = "idle"

Free(from, to) == ~corrupted /\ upc = from /\ upc' = to

(* The last file is closed and the module is on its way out. *)
group_free_enter ==
  /\ Free("none", "barrier") /\ Quiet
  /\ UNCHANGED <<devVars, freed>>

(* clear_barrier and wake_up_all, when the barrier is up. *)
group_free_barrier ==
  /\ Free("barrier", "flush")
  /\ flags' = clear_bit(flags, BARRIER_BIT)
  /\ wait_queue' = IF is_barrier_up THEN {} ELSE wait_queue
  /\ UNCHANGED <<msgPriv, machine, bpc, breg, released, naps, overlapped,
                 freed>>

(* Mutant: the workqueue is destroyed without a flush. *)
group_free_no_flush(t) ==
  /\ Free("flush", "destroy") /\ delay_wq
  /\ UNCHANGED <<devVars, freed>>

(* fflush_workqueue, executed by the thread t that removes the module. *)
group_free_flush(t) ==
  /\ Free("flush", "flushing") /\ delay_wq
  /\ fflush_enter(t)
  /\ UNCHANGED <<barPriv, overlapped, freed>>

group_free_flushed ==
  /\ Free("flushing", "destroy") /\ Quiet
  /\ UNCHANGED <<devVars, freed>>

group_free_no_wq ==
  /\ Free("flush", "pending") /\ ~delay_wq
  /\ UNCHANGED <<devVars, freed>>

(* destroy_workqueue waits for queued works, not for armed timers.  Then   *)
(* wq_sem, delay_list and pending_sem are freed.                           *)
destroy_workqueue ==
  /\ Free("destroy", "pending")
  /\ queue = <<>> /\ pc[Worker] = "idle"
  /\ UNCHANGED <<devVars, freed>>

(* The loop over pending_list takes the list head itself for a message and *)
(* unlinks and frees it.  An empty list is just freed.                     *)
group_free_pending ==
  /\ Free("pending", "messages")
  /\ corrupted' = (pending_list # <<>>)
  /\ UNCHANGED <<listVars, paramVars, workVars, flushVars, sem, pc, msg, fate,
                 barPriv, flags, overlapped, freed>>

(* Mutant: the list is freed, the messages are not. *)
group_free_list_only ==
  /\ Free("messages", "freed")
  /\ message_list' = <<>>
  /\ UNCHANGED <<pending_list, messages_number, stored, paramVars, workVars,
                 flushVars, sem, pc, msg, fate, corrupted, barPriv, flags,
                 overlapped, freed>>

(* Every stored message with its data, the list, and the device. *)
group_free_messages ==
  /\ Free("messages", "freed")
  /\ freed' = freed \cup Range(message_list) /\ message_list' = <<>>
  /\ UNCHANGED <<pending_list, messages_number, stored, paramVars, workVars,
                 flushVars, sem, pc, msg, fate, corrupted, barPriv, flags,
                 overlapped>>

GroupFree ==
  \/ group_free_enter \/ group_free_barrier
  \/ \E t \in Revokers : group_free_flush(t)
  \/ group_free_flushed \/ group_free_no_wq \/ destroy_workqueue
  \/ group_free_pending \/ group_free_messages

(* What goes on while group_free runs. *)
StillAlive ==
  \/ WorkerStep
  \/ \E w \in Msgs : timer_expire(w)
  \/ \E t \in Revokers : FlushStep(t)

TearNext ==
  \/ DevNext /\ upc = "none" /\ UNCHANGED <<upc, freed>>
  \/ StillAlive /\ upc # "none"
       /\ UNCHANGED <<barPriv, overlapped, upc, freed>>
  \/ GroupFree

TearSpec == TearInit /\ [][TearNext]_tearVars

-----------------------------------------------------------------------------
(* Properties                                                              *)

(* The comments in group_free: delay_list and pending_list "should be      *)
(* empty" when they are freed, and nothing that would still touch the      *)
(* device may be left: no armed timer, no queued or running work.  This    *)
(* holds for a device with a workqueue; without one nothing is flushed.    *)
NothingLeftBehind ==
  upc \in {"pending", "messages", "freed"} /\ ~corrupted /\ delay_wq =>
    /\ pending_list = <<>> /\ delay_list = <<>>
    /\ \A w \in Msgs : work[w] \in {"none", "freed"}

(* Removal leaks nothing: a message that was written and never read is     *)
(* freed, wherever the delay, the worker or the revocation had it when the *)
(* last file was closed.                                                   *)
EveryMessageFreed ==
  upc = "freed" /\ ~corrupted =>
    \A m \in Msgs : fate[m] = "live" => m \in freed

(* group_free's test for a raised barrier finds one only after a lost      *)
(* update of the flags byte: a sleeper keeps its file open, and the last   *)
(* one to leave has seen the barrier down.                                 *)
BarrierDownAtRemoval == upc = "barrier" /\ is_barrier_up => overlapped
=============================================================================
