---------------------------- MODULE RevokeProofs ----------------------------
(***************************************************************************)
(* Theorems about revoke_delayed_messages() (fflush_workqueue) in          *)
(* Messaging: what FLUSHING_BIT tells the workqueue thread, and what has   *)
(* been published when the call returns.                                   *)
(***************************************************************************)
EXTENDS MessagingProofs

-----------------------------------------------------------------------------
(* What the steps of one kind of process leave alone                       *)

(* Only p moves. *)
Alone(p) == \A r \in Procs \ {p} : pc'[r] = pc[r] /\ msg'[r] = msg[r]

(* A step of group_write. *)
LEMMA WriteAlone ==
  ASSUME BaseInv, NEW t \in Writers, group_write_enter(t) \/ WriteStep(t)
  PROVE  Alone(t) /\ UNCHANGED <<owed, pos, q, reg, flags, delay_wq>>
<1> USE DEF Alone, BaseInv, MsgTypeOK, Goto, Down, flushVars, paramVars
<1>1. CASE \/ group_write_enter(t) \/ group_write_down(t)
           \/ group_write_fail(t) \/ group_write_accept(t)
  BY <1>1 DEF group_write_enter, group_write_down, group_write_fail,
       group_write_accept
<1>2. CASE \/ group_write_publish(t) \/ group_write_defer(t)
           \/ group_write_pend_down(t) \/ group_write_pend(t)
  BY <1>2 DEF group_write_publish, group_write_defer,
       group_write_pend_down, group_write_pend
<1>3. CASE \/ add_delayed_work_fail(t) \/ add_delayed_work_alloc(t)
           \/ add_delayed_work_down(t)
  BY <1>3 DEF add_delayed_work_fail, add_delayed_work_alloc,
       add_delayed_work_down
<1>4. CASE \/ add_delayed_work_queue(t) \/ add_delayed_work_list(t)
           \/ group_write_return(t)
  BY <1>4 DEF add_delayed_work_queue, add_delayed_work_list,
       group_write_return
<1> QED
  BY <1>1, <1>2, <1>3, <1>4 DEF WriteStep

(* A step of group_read. *)
LEMMA ReadAlone ==
  ASSUME BaseInv, NEW t \in Readers, group_read_enter(t) \/ ReadStep(t)
  PROVE  /\ Alone(t)
         /\ UNCHANGED <<owed, pos, q, reg, flags, delay_wq, pending_list,
                        queue, work, running, delay_list>>
  BY DEF Alone, BaseInv, MsgTypeOK, Goto, Down, flushVars, paramVars,
       workVars, listVars, ReadStep, group_read_enter, group_read_down,
       group_read_empty, group_read_look, group_read_take, group_read_copy

(* A step of fflush_workqueue. *)
LEMMA FlushAlone ==
  ASSUME BaseInv, NEW t \in Revokers, fflush_enter(t) \/ FlushStep(t)
  PROVE  /\ Alone(t)
         /\ UNCHANGED <<msg, fate, delay_wq, messages_number,
                        max_storage_size>>
<1>1. UNCHANGED <<msg, fate, delay_wq, messages_number, max_storage_size>>
  BY DEF FlushStep, fflush_enter, _fflush_pend_down, _fflush_msg_down,
       _fflush_splice, fflush_no_wq, fflush_down, set_flushing_load,
       set_flushing_store, fflush_first, fflush_unlink, fflush_flush,
       fflush_next, fflush_drain, clear_flushing_load,
       clear_flushing_store, Down, paramVars, listVars
<1>2. \A r \in Procs \ {t} : pc'[r] = pc[r]
  BY DEF FlushStep, fflush_enter, _fflush_pend_down, _fflush_msg_down,
       _fflush_splice, fflush_no_wq, fflush_down, set_flushing_load,
       set_flushing_store, fflush_first, fflush_unlink, fflush_flush,
       fflush_next, fflush_drain, clear_flushing_load,
       clear_flushing_store, Down, Goto, BaseInv, MsgTypeOK
<1> QED
  BY <1>1, <1>2 DEF Alone

(* A step of the workqueue thread. *)
LEMMA WorkerAlone ==
  ASSUME BaseInv, WorkerStep
  PROVE  /\ Alone(Worker)
         /\ UNCHANGED <<owed, pos, q, reg, flags, delay_wq, fate,
                        messages_number, max_storage_size>>
  BY DEF Alone, BaseInv, MsgTypeOK, Goto, Down, flushVars, paramVars,
       listVars, WorkerStep, worker_start, delayed_work_pend_down,
       delayed_work_empty, delayed_work_look, delayed_work_take,
       delayed_work_msg_down, delayed_work_publish, delayed_work_exit,
       delayed_work_unlink, delayed_work_free

(* A timer that expires, the parameters, and a stutter. *)
OtherStep ==
  \/ \E w \in Msgs : timer_expire(w)
  \/ \E arg \in DelayArgs : _set_delay(arg)
  \/ \E n \in StorageSizes : set_max_storage_size(n)
  \/ UNCHANGED msgVars

(* They move no process and no message. *)
LEMMA NobodyMoves ==
  ASSUME BaseInv, OtherStep
  PROVE  UNCHANGED <<pc, msg, owed, pos, q, reg, flags, delay_wq, fate,
                     message_list, pending_list, messages_number, stored,
                     running, delay_list>>
  BY DEF OtherStep, timer_expire, _set_delay, set_max_storage_size, msgVars,
       msgPriv, flushVars, listVars, paramVars, workVars

(* Every step is one of those five. *)
LEMMA StepKinds ==
  ASSUME [MsgNext]_msgVars
  PROVE  \/ \E t \in Writers : group_write_enter(t) \/ WriteStep(t)
         \/ \E t \in Readers : group_read_enter(t) \/ ReadStep(t)
         \/ \E t \in Revokers : fflush_enter(t) \/ FlushStep(t)
         \/ WorkerStep
         \/ OtherStep
  BY DEF MsgNext, EnterCall, OtherStep

-----------------------------------------------------------------------------
(* FLUSHING_BIT                                                            *)

(* Where fflush_workqueue has set FLUSHING_BIT and not yet cleared it. *)
FlushingPcs == {"f_first", "f_unlink", "f_flush", "f_wait", "f_drain",
                "f_cload", "f_clear"}

(* A step of fflush_workqueue changes the bit where it should: wq_sem      *)
(* excludes a second revocation that could clear the bit of the first.     *)
LEMMA FlushingBitFlush ==
  ASSUME BaseInv, FlushingBitMeansFlushing, NEW t \in Revokers,
         fflush_enter(t) \/ FlushStep(t)
  PROVE  FlushingBitMeansFlushing'
<1> USE DEF FlushingPcs
<1>1. \A u \in Revokers \ {t} : pc'[u] = pc[u]
  BY FlushAlone DEF Alone, Procs, Callers
<1>2. FlushingBitMeansFlushing
        <=> (is_flushing <=> \E u \in Revokers : pc[u] \in FlushingPcs)
  BY DEF FlushingBitMeansFlushing
<1>3. FlushingBitMeansFlushing'
        <=> (is_flushing' <=> \E u \in Revokers : pc'[u] \in FlushingPcs)
  BY DEF FlushingBitMeansFlushing
<1>4. t \in DOMAIN pc
  BY DEF BaseInv, MsgTypeOK, Procs, Callers
<1>5. CASE set_flushing_store(t)
  <2>1. is_flushing' /\ pc'[t] \in FlushingPcs
    BY <1>4, <1>5 DEF set_flushing_store, set_bit, is_flushing, check_bit,
                      Goto
  <2> QED
    BY <1>3, <2>1
<1>6. CASE clear_flushing_store(t)
  <2>1. ~is_flushing' /\ pc'[t] = "idle" /\ pc[t] = "f_clear"
    BY <1>4, <1>6 DEF clear_flushing_store, clear_bit, is_flushing,
                      check_bit, Goto
  <2>2. \A u \in Revokers \ {t} : pc[u] \notin FlushingPcs
    BY <2>1 DEF BaseInv, LockInv, WqCS, Procs, Callers
  <2> QED
    BY <1>1, <1>3, <2>1, <2>2
<1>7. CASE ~set_flushing_store(t) /\ ~clear_flushing_store(t)
  <2>1. flags' = flags /\ (pc[t] \in FlushingPcs <=> pc'[t] \in FlushingPcs)
    BY <1>4, <1>7 DEF FlushStep, fflush_enter, _fflush_pend_down,
         _fflush_msg_down, _fflush_splice, fflush_no_wq, fflush_down,
         set_flushing_load, fflush_first, fflush_unlink, fflush_flush,
         fflush_next, fflush_drain, clear_flushing_load, Down, Goto
  <2>2. is_flushing' <=> is_flushing
    BY <2>1 DEF is_flushing, check_bit
  <2> QED
    BY <1>1, <1>2, <1>3, <2>1, <2>2
<1> QED
  BY <1>5, <1>6, <1>7

(* Every step of the device preserves the meaning of the bit. *)
LEMMA FlushingBitStep ==
  BaseInv /\ FlushingBitMeansFlushing /\ [MsgNext]_msgVars
    => FlushingBitMeansFlushing'
<1> SUFFICES ASSUME BaseInv, FlushingBitMeansFlushing, [MsgNext]_msgVars
             PROVE  FlushingBitMeansFlushing'
  OBVIOUS
<1>1. CASE \E t \in Revokers : fflush_enter(t) \/ FlushStep(t)
  BY <1>1, FlushingBitFlush
<1>2. CASE flags' = flags /\ \A t \in Revokers : pc'[t] = pc[t]
  BY <1>2 DEF FlushingBitMeansFlushing, is_flushing, check_bit
<1>3. CASE \E t \in Writers : group_write_enter(t) \/ WriteStep(t)
  BY <1>2, <1>3, WriteAlone, ThreadAssumption DEF Alone, Procs, Callers
<1>4. CASE \E t \in Readers : group_read_enter(t) \/ ReadStep(t)
  BY <1>2, <1>4, ReadAlone, ThreadAssumption DEF Alone, Procs, Callers
<1>5. CASE WorkerStep
  BY <1>2, <1>5, WorkerAlone, ThreadAssumption DEF Alone, Procs, Callers
<1>6. CASE OtherStep
  BY <1>2, <1>6, NobodyMoves
<1> QED
  BY <1>1, <1>3, <1>4, <1>5, <1>6, StepKinds

(* FLUSHING_BIT is set exactly while a revocation executes the works, with *)
(* any number of concurrent revocations, although set_flushing and         *)
(* clear_flushing are an unprotected load and store each: wq_sem keeps a   *)
(* second revocation out until the first has cleared the bit.  (With the   *)
(* barrier on the same device, see GroupDevice.)                           *)
THEOREM FlushingBitCorrect == MsgSpec => []FlushingBitMeansFlushing
<1>1. MsgInit /\ FlagsInit => FlushingBitMeansFlushing
  BY DEF MsgInit, FlagsInit, FlushingBitMeansFlushing, is_flushing,
         check_bit, Procs, Callers
<1> QED
  BY <1>1, FlushingBitStep, BaseCorrect, PTL DEF MsgSpec, MessagingInit

-----------------------------------------------------------------------------
(* What is published when the revocation returns                           *)

(* A writer that may still put its message in pending_list. *)
BeforePending == {"w_down", "w_check", "w_store", "p_down", "p_add"}

(* What a revocation owes cannot be pended again: it was written before    *)
(* the call and no writer still carries it.                                *)
OwedWritten ==
  \A t \in Revokers : pc[t] # "idle" => \A m \in owed[t] :
    /\ fate[m] # "unborn"
    /\ \A u \in Writers : pc[u] \in BeforePending => msg[u] # m

AfterSplice == {"f_check", "f_load", "f_set"} \cup FlushingPcs
AfterDrain  == {"f_cload", "f_clear"}

(* From the splice on nothing that is owed is pending, and from the drain  *)
(* on the worker does not carry it either.                                 *)
OwedPublished ==
  \A t \in Revokers :
    /\ pc[t] \in AfterSplice => owed[t] \cap Range(pending_list) = {}
    /\ pc[t] \in AfterDrain => owed[t] \cap WorkerHand = {}

(* Without a workqueue nothing is ever queued and the worker never runs:   *)
(* the revocation that skips the drain has nothing to wait for.            *)
NoWqInv ==
  ~delay_wq =>
    /\ queue = <<>> /\ pc[Worker] = "idle"
    /\ \A w \in Msgs : work[w] = "none"
    /\ \A t \in Writers : pc[t] \notin {"wq_down", "q_work", "l_add"}
    /\ \A t \in Revokers : pc[t] \notin WqCS

RevokeInv == OwedWritten /\ OwedPublished /\ NoWqInv

(* NoWqInv holds in every step: a writer reaches add_delayed_work's queue  *)
(* statements, and a revocation the flush, only with a workqueue.          *)
LEMMA NoWqStep ==
  ASSUME BaseInv, NoWqInv, [MsgNext]_msgVars
  PROVE  NoWqInv'
<1> USE ThreadAssumption
<1>1. CASE \E t \in Writers : group_write_enter(t) \/ WriteStep(t)
  <2>1. PICK t \in Writers : group_write_enter(t) \/ WriteStep(t)
    BY <1>1
  <2>2. Alone(t) /\ delay_wq' = delay_wq
    BY <2>1, WriteAlone
  <2>3. ~delay_wq => /\ pc'[t] \notin {"wq_down", "q_work", "l_add"}
                     /\ queue' = queue /\ work' = work
    <3>1. t \in DOMAIN pc
      BY DEF BaseInv, MsgTypeOK, Procs, Callers
    <3> QED
      BY <2>1, <3>1 DEF NoWqInv, WriteStep, group_write_enter,
           group_write_down, group_write_fail, group_write_accept,
           group_write_publish, group_write_defer, group_write_pend_down,
           group_write_pend, add_delayed_work_fail, add_delayed_work_alloc,
           add_delayed_work_down, add_delayed_work_queue,
           add_delayed_work_list, group_write_return, Goto, Down, workVars
  <2> QED
    BY <2>2, <2>3 DEF NoWqInv, Alone, Procs, Callers
<1>2. CASE \E t \in Readers : group_read_enter(t) \/ ReadStep(t)
  BY <1>2, ReadAlone DEF NoWqInv, Alone, Procs, Callers
<1>3. CASE \E t \in Revokers : fflush_enter(t) \/ FlushStep(t)
  <2>1. PICK t \in Revokers : fflush_enter(t) \/ FlushStep(t)
    BY <1>3
  <2>2. Alone(t) /\ delay_wq' = delay_wq
    BY <2>1, FlushAlone
  <2>3. ~delay_wq => /\ pc'[t] \notin WqCS
                     /\ queue' = queue /\ work' = work
    <3>1. t \in DOMAIN pc
      BY DEF BaseInv, MsgTypeOK, Procs, Callers
    <3> QED
      BY <2>1, <3>1 DEF NoWqInv, WqCS, FlushStep, fflush_enter,
           _fflush_pend_down, _fflush_msg_down, _fflush_splice,
           fflush_no_wq, fflush_down, set_flushing_load,
           set_flushing_store, fflush_first, fflush_unlink, fflush_flush,
           fflush_next, fflush_drain, clear_flushing_load,
           clear_flushing_store, Goto, Down, workVars
  <2> QED
    BY <2>2, <2>3 DEF NoWqInv, Alone, Procs, Callers
<1>4. CASE WorkerStep
  <2>1. Alone(Worker) /\ delay_wq' = delay_wq
    BY <1>4, WorkerAlone
  <2>2. delay_wq
    BY <1>4 DEF NoWqInv, WorkerStep, worker_start, delayed_work_pend_down,
         delayed_work_empty, delayed_work_look, delayed_work_take,
         delayed_work_msg_down, delayed_work_publish, delayed_work_exit,
         delayed_work_unlink, delayed_work_free, Goto, Down
  <2> QED
    BY <2>1, <2>2 DEF NoWqInv
<1>5. CASE OtherStep
  <2>1. pc' = pc /\ delay_wq' = delay_wq
    BY <1>5, NobodyMoves
  <2>2. ~delay_wq => queue' = queue /\ work' = work
    BY <1>5 DEF NoWqInv, OtherStep, timer_expire, _set_delay,
         set_max_storage_size, msgVars, msgPriv, workVars
  <2> QED
    BY <2>1, <2>2 DEF NoWqInv
<1> QED
  BY <1>1, <1>2, <1>3, <1>4, <1>5, StepKinds

(* A write gives no message back to a writer and pends only its own.       *)
LEMMA WriteEffect ==
  ASSUME BaseInv, OnePlace, NEW t \in Writers,
         group_write_enter(t) \/ WriteStep(t)
  PROVE  /\ pc'[t] \in BeforePending =>
              \/ pc[t] \in BeforePending /\ msg'[t] = msg[t]
              \/ fate[msg'[t]] = "unborn"
         /\ \A m \in Msgs : fate[m] # "unborn" => fate'[m] # "unborn"
         /\ \/ pending_list' = pending_list
            \/ /\ pc[t] = "p_add"
               /\ Range(pending_list') = Range(pending_list) \cup {msg[t]}
<1>0. t \in DOMAIN pc /\ t \in DOMAIN msg /\ DOMAIN fate = Msgs
  BY DEF BaseInv, MsgTypeOK, Procs, Callers
<1> USE <1>0 DEF BeforePending, Goto, Down, listVars
<1>1. CASE group_write_enter(t)
  BY <1>1 DEF group_write_enter
<1>2. CASE group_write_fail(t)
  BY <1>2 DEF group_write_fail
<1>3. CASE group_write_pend(t)
  <2>1. Carries(t) /\ t \in Procs
    BY <1>3 DEF group_write_pend, Carries, Procs, Callers
  <2>2. msg[t] \in Msgs \ Range(pending_list) /\ IsInjective(pending_list)
    BY <2>1 DEF OnePlace
  <2>3. Range(Append(pending_list, msg[t]))
          = Range(pending_list) \cup {msg[t]}
    BY <2>2, AddEntry DEF BaseInv, MsgTypeOK
  <2> QED
    BY <1>3, <2>3 DEF group_write_pend, list_add
<1>4. CASE \/ group_write_down(t) \/ group_write_accept(t)
           \/ group_write_publish(t) \/ group_write_defer(t)
           \/ group_write_pend_down(t)
  BY <1>4 DEF group_write_down, group_write_accept, group_write_publish,
       group_write_defer, group_write_pend_down
<1>5. CASE \/ add_delayed_work_fail(t) \/ add_delayed_work_alloc(t)
           \/ add_delayed_work_down(t) \/ add_delayed_work_queue(t)
           \/ add_delayed_work_list(t) \/ group_write_return(t)
  BY <1>5 DEF add_delayed_work_fail, add_delayed_work_alloc,
       add_delayed_work_down, add_delayed_work_queue,
       add_delayed_work_list, group_write_return
<1> QED
  BY <1>1, <1>2, <1>3, <1>4, <1>5 DEF WriteStep

(* The worker only takes messages out of pending_list.                     *)
LEMMA WorkerEffect ==
  ASSUME BaseInv, OnePlace, WorkerStep
  PROVE  /\ Range(pending_list') \subseteq Range(pending_list)
         /\ WorkerHand' \subseteq WorkerHand \cup Range(pending_list)
<1>0. /\ Worker \in DOMAIN pc /\ Worker \in DOMAIN msg
      /\ pending_list \in Seq(Msgs) /\ IsInjective(pending_list)
  BY DEF BaseInv, MsgTypeOK, Procs, OnePlace
<1>1. CASE delayed_work_take
  <2>1. pending_list # <<>> /\ msg[Worker] = Head(pending_list)
    BY <1>1 DEF delayed_work_take, Goto, BaseInv, HoldInv
  <2>2. /\ Range(pending_list') = Range(pending_list) \ {msg[Worker]}
        /\ msg[Worker] \in Range(pending_list)
    <3>1. /\ list_del(Head(pending_list), pending_list) = Tail(pending_list)
          /\ Range(Tail(pending_list))
               = Range(pending_list) \ {Head(pending_list)}
      BY <1>0, <2>1, DelOldest
    <3>2. Head(pending_list) \in Range(pending_list)
      BY <1>0, <2>1, HeadInRange
    <3> QED
      BY <1>1, <2>1, <3>1, <3>2 DEF delayed_work_take
  <2>3. WorkerHand' \subseteq {msg[Worker]}
    BY <1>0, <1>1 DEF delayed_work_take, WorkerHand
  <2> QED
    BY <2>2, <2>3
<1>2. CASE ~delayed_work_take
  <2>1. pending_list' = pending_list
    BY <1>2 DEF WorkerStep, worker_start, delayed_work_pend_down,
         delayed_work_empty, delayed_work_look, delayed_work_msg_down,
         delayed_work_publish, delayed_work_exit, delayed_work_unlink,
         delayed_work_free, Down, listVars
  <2>2. CASE delayed_work_msg_down
    BY <1>0, <2>1, <2>2 DEF delayed_work_msg_down, Down, Goto, WorkerHand
  <2>3. CASE ~delayed_work_msg_down
    <3>1. pc'[Worker] \notin {"d_mdown", "d_add"}
      BY <1>0, <1>2, <2>3 DEF WorkerStep, worker_start,
           delayed_work_pend_down, delayed_work_empty, delayed_work_look,
           delayed_work_publish, delayed_work_exit, delayed_work_unlink,
           delayed_work_free, Down, Goto
    <3> QED
      BY <2>1, <3>1 DEF WorkerHand
  <2> QED
    BY <2>2, <2>3
<1> QED
  BY <1>1, <1>2

(* Entering a call and a step inside it: what is owed is fixed on entry    *)
(* and forgotten on return, pending_list is only ever emptied.             *)
LEMMA FlushEffect ==
  ASSUME BaseInv, NEW t \in Revokers, fflush_enter(t) \/ FlushStep(t)
  PROVE  /\ \A u \in Revokers \ {t} : owed'[u] = owed[u]
         /\ \/ /\ pc'[t] = "f_pdown" /\ pending_list' = pending_list
               /\ owed'[t] = Range(pending_list) \cup WorkerHand
            \/ /\ pc[t] # "idle" /\ owed'[t] = owed[t]
               /\ \/ pending_list' = pending_list
                  \/ pending_list' = <<>>
               /\ pc'[t] \in AfterSplice =>
                    pc[t] \in AfterSplice \/ pending_list' = <<>>
               /\ pc'[t] \in AfterDrain =>
                    pc[t] \in AfterDrain \/ pc[Worker] = "idle"
            \/ /\ pc'[t] = "idle" /\ pending_list' = pending_list
               /\ (pc[t] = "f_check" /\ ~delay_wq) \/ pc[t] = "f_clear"
<1>0. t \in DOMAIN pc /\ DOMAIN owed = Revokers
  BY DEF BaseInv, MsgTypeOK, Procs, Callers
<1> USE <1>0 DEF AfterSplice, AfterDrain, FlushingPcs, Goto, Down, listVars,
                 flushVars
<1>1. CASE fflush_enter(t)
  BY <1>1 DEF fflush_enter
<1>2. CASE _fflush_splice(t)
  BY <1>2 DEF _fflush_splice
<1>3. CASE fflush_no_wq(t) \/ clear_flushing_store(t)
  BY <1>3 DEF fflush_no_wq, clear_flushing_store
<1>4. CASE \/ _fflush_pend_down(t) \/ _fflush_msg_down(t) \/ fflush_down(t)
           \/ set_flushing_load(t) \/ set_flushing_store(t)
           \/ fflush_first(t)
  BY <1>4 DEF _fflush_pend_down, _fflush_msg_down, fflush_down,
       set_flushing_load, set_flushing_store, fflush_first
<1>5. CASE \/ fflush_unlink(t) \/ fflush_flush(t) \/ fflush_next(t)
           \/ fflush_drain(t) \/ clear_flushing_load(t)
  BY <1>5 DEF fflush_unlink, fflush_flush, fflush_next, fflush_drain,
       clear_flushing_load
<1> QED
  BY <1>1, <1>2, <1>3, <1>4, <1>5 DEF FlushStep

(* Every step preserves OwedWritten. *)
LEMMA OwedWrittenStep ==
  ASSUME BaseInv, OnePlace, OwedWritten, [MsgNext]_msgVars
  PROVE  OwedWritten'
<1> USE ThreadAssumption
<1>1. CASE \E t \in Writers : group_write_enter(t) \/ WriteStep(t)
  <2>1. PICK t \in Writers : group_write_enter(t) \/ WriteStep(t)
    BY <1>1
  <2>2. Alone(t) /\ owed' = owed
    BY <2>1, WriteAlone
  <2>3. /\ pc'[t] \in BeforePending =>
             \/ pc[t] \in BeforePending /\ msg'[t] = msg[t]
             \/ fate[msg'[t]] = "unborn"
        /\ \A m \in Msgs : fate[m] # "unborn" => fate'[m] # "unborn"
    BY <2>1, WriteEffect
  <2>4. \A r \in Revokers : owed[r] \subseteq Msgs
    BY DEF BaseInv, MsgTypeOK
  <2> QED
    BY <2>2, <2>3, <2>4 DEF OwedWritten, Alone, Procs, Callers
<1>2. CASE \E t \in Readers : group_read_enter(t) \/ ReadStep(t)
  <2>1. PICK t \in Readers : group_read_enter(t) \/ ReadStep(t)
    BY <1>2
  <2>2. Alone(t) /\ owed' = owed
    BY <2>1, ReadAlone
  <2>3. \A m \in Msgs : fate[m] # "unborn" => fate'[m] # "unborn"
    BY <2>1 DEF BaseInv, MsgTypeOK, ReadStep, group_read_enter,
         group_read_down, group_read_empty, group_read_look,
         group_read_take, group_read_copy, Down
  <2>4. \A r \in Revokers : owed[r] \subseteq Msgs
    BY DEF BaseInv, MsgTypeOK
  <2> QED
    BY <2>2, <2>3, <2>4 DEF OwedWritten, Alone, Procs, Callers
<1>3. CASE \E t \in Revokers : fflush_enter(t) \/ FlushStep(t)
  <2>1. PICK t \in Revokers : fflush_enter(t) \/ FlushStep(t)
    BY <1>3
  <2>2. Alone(t) /\ fate' = fate /\ msg' = msg
    BY <2>1, FlushAlone
  <2>3. /\ \A u \in Revokers \ {t} : owed'[u] = owed[u]
        /\ \/ owed'[t] = Range(pending_list) \cup WorkerHand
           \/ pc[t] # "idle" /\ owed'[t] = owed[t]
           \/ pc'[t] = "idle"
    BY <2>1, FlushEffect
  <2>4. \A u \in Writers : pc'[u] = pc[u]
    BY <2>2 DEF Alone, Procs, Callers
  <2>5. ASSUME NEW m \in Range(pending_list) \cup WorkerHand
        PROVE  /\ fate[m] # "unborn"
               /\ \A u \in Writers : pc[u] \in BeforePending => msg[u] # m
    <3>1. \A u \in Writers : pc[u] \in BeforePending =>
                              Carries(u) /\ u \in Procs /\ u # Worker
      BY DEF BeforePending, Carries, Procs, Callers
    <3>2. CASE m \in Range(pending_list)
      <4>1. m \in Msgs
        BY <3>2, RangeDef DEF BaseInv, MsgTypeOK
      <4> QED
        BY <3>1, <3>2, <4>1 DEF OnePlace
    <3>3. CASE m \in WorkerHand
      <4>1. Carries(Worker) /\ msg[Worker] = m /\ Worker \in Procs
        BY <3>3 DEF WorkerHand, Carries, Procs
      <4> QED
        BY <3>1, <4>1 DEF OnePlace
    <3> QED
      BY <3>2, <3>3
  <2>6. ASSUME NEW u \in Revokers, pc'[u] # "idle", NEW m \in owed'[u]
        PROVE  /\ fate[m] # "unborn"
               /\ \A w \in Writers : pc[w] \in BeforePending => msg[w] # m
    <3>1. CASE u = t
      BY <2>3, <2>5, <2>6, <3>1 DEF OwedWritten
    <3>2. CASE u # t
      <4>1. pc[u] = pc'[u] /\ owed'[u] = owed[u]
        BY <2>2, <2>3, <3>2 DEF Alone, Procs, Callers
      <4> QED
        BY <2>6, <4>1 DEF OwedWritten
    <3> QED
      BY <3>1, <3>2
  <2> QED
    BY <2>2, <2>4, <2>6 DEF OwedWritten
<1>4. CASE WorkerStep
  BY <1>4, WorkerAlone DEF OwedWritten, Alone, Procs, Callers
<1>5. CASE OtherStep
  BY <1>5, NobodyMoves DEF OwedWritten
<1> QED
  BY <1>1, <1>2, <1>3, <1>4, <1>5, StepKinds

(* Every step preserves OwedPublished. *)
LEMMA OwedPublishedStep ==
  ASSUME BaseInv, OnePlace, OwedWritten, OwedPublished, [MsgNext]_msgVars
  PROVE  OwedPublished'
<1> USE ThreadAssumption
<1>1. CASE \E t \in Writers : group_write_enter(t) \/ WriteStep(t)
  <2>1. PICK t \in Writers : group_write_enter(t) \/ WriteStep(t)
    BY <1>1
  <2>2. Alone(t) /\ owed' = owed
    BY <2>1, WriteAlone
  <2>3. \/ pending_list' = pending_list
        \/ /\ pc[t] = "p_add"
           /\ Range(pending_list') = Range(pending_list) \cup {msg[t]}
    BY <2>1, WriteEffect
  <2>4. WorkerHand' = WorkerHand /\ \A u \in Revokers : pc'[u] = pc[u]
    BY <2>2 DEF Alone, WorkerHand, Procs, Callers
  <2>5. ASSUME NEW u \in Revokers, pc[u] \in AfterSplice
        PROVE  owed[u] \cap Range(pending_list') = {}
    <3>1. pc[u] # "idle"
      BY <2>5 DEF AfterSplice, FlushingPcs
    <3>2. pc[t] = "p_add" => msg[t] \notin owed[u]
      BY <3>1 DEF OwedWritten, BeforePending
    <3> QED
      BY <2>3, <2>5, <3>2 DEF OwedPublished
  <2> QED
    BY <2>2, <2>4, <2>5 DEF OwedPublished
<1>2. CASE \E t \in Readers : group_read_enter(t) \/ ReadStep(t)
  <2>1. PICK t \in Readers : group_read_enter(t) \/ ReadStep(t)
    BY <1>2
  <2>2. Alone(t) /\ owed' = owed /\ pending_list' = pending_list
    BY <2>1, ReadAlone
  <2>3. WorkerHand' = WorkerHand /\ \A u \in Revokers : pc'[u] = pc[u]
    BY <2>2 DEF Alone, WorkerHand, Procs, Callers
  <2> QED
    BY <2>2, <2>3 DEF OwedPublished
<1>3. CASE \E t \in Revokers : fflush_enter(t) \/ FlushStep(t)
  <2>1. PICK t \in Revokers : fflush_enter(t) \/ FlushStep(t)
    BY <1>3
  <2>2. Alone(t)
    BY <2>1, FlushAlone
  <2>3. WorkerHand' = WorkerHand
        /\ \A u \in Revokers \ {t} : pc'[u] = pc[u] /\ owed'[u] = owed[u]
    BY <2>1, <2>2, FlushEffect DEF Alone, WorkerHand, Procs, Callers
  <2>4. Range(<<>>) = {} /\ (pc[Worker] = "idle" => WorkerHand = {})
    BY DEF Range, WorkerHand
  <2>5. Range(pending_list') \subseteq Range(pending_list)
    BY <2>1, <2>4, FlushEffect
  <2>6. /\ pc'[t] \in AfterSplice => owed'[t] \cap Range(pending_list') = {}
        /\ pc'[t] \in AfterDrain => owed'[t] \cap WorkerHand = {}
    <3>1. AfterSplice \cap {"idle", "f_pdown"} = {}
          /\ AfterDrain \cap {"idle", "f_pdown"} = {}
      BY DEF AfterSplice, AfterDrain, FlushingPcs
    <3>2. CASE pc'[t] \in {"idle", "f_pdown"}
      BY <3>1, <3>2
    <3>3. CASE pc'[t] \notin {"idle", "f_pdown"}
      <4>1. /\ owed'[t] = owed[t]
            /\ pending_list' = pending_list \/ pending_list' = <<>>
            /\ pc'[t] \in AfterSplice =>
                 pc[t] \in AfterSplice \/ pending_list' = <<>>
            /\ pc'[t] \in AfterDrain =>
                 pc[t] \in AfterDrain \/ pc[Worker] = "idle"
        BY <2>1, <3>3, FlushEffect
      <4> QED
        BY <2>4, <4>1 DEF OwedPublished
    <3> QED
      BY <3>2, <3>3
  <2> QED
    BY <2>3, <2>5, <2>6 DEF OwedPublished
<1>4. CASE WorkerStep
  <2>1. Alone(Worker) /\ owed' = owed
    BY <1>4, WorkerAlone
  <2>2. \A u \in Revokers : pc'[u] = pc[u]
    BY <2>1 DEF Alone, Procs, Callers
  <2>3. /\ Range(pending_list') \subseteq Range(pending_list)
        /\ WorkerHand' \subseteq WorkerHand \cup Range(pending_list)
    BY <1>4, WorkerEffect
  <2>4. AfterDrain \subseteq AfterSplice
    BY DEF AfterDrain, AfterSplice, FlushingPcs
  <2> QED
    BY <2>1, <2>2, <2>3, <2>4 DEF OwedPublished
<1>5. CASE OtherStep
  <2>1. WorkerHand' = WorkerHand
    BY <1>5, NobodyMoves DEF WorkerHand
  <2> QED
    BY <1>5, <2>1, NobodyMoves DEF OwedPublished
<1> QED
  BY <1>1, <1>2, <1>3, <1>4, <1>5, StepKinds

(* A step in which a revocation returns leaves nothing it owes behind.     *)
LEMMA RevokeReturns ==
  ASSUME BaseInv, OwedPublished, NoWqInv, [MsgNext]_msgVars,
         NEW t \in Revokers, pc[t] # "idle", pc'[t] = "idle"
  PROVE  owed[t] \cap (Range(pending_list') \cup WorkerHand') = {}
<1> USE ThreadAssumption
<1>1. CASE fflush_enter(t) \/ FlushStep(t)
  <2>1. /\ pending_list' = pending_list
        /\ (pc[t] = "f_check" /\ ~delay_wq) \/ pc[t] = "f_clear"
    <3>1. /\ t \in DOMAIN pc /\ pc[t] \in {"idle"} \cup FlushPcs
      BY DEF BaseInv, MsgTypeOK, Procs, Callers
    <3> QED
      BY <1>1, <3>1 DEF FlushStep, fflush_enter, _fflush_pend_down,
           _fflush_msg_down, _fflush_splice, fflush_no_wq, fflush_down,
           set_flushing_load, set_flushing_store, fflush_first,
           fflush_unlink, fflush_flush, fflush_next, fflush_drain,
           clear_flushing_load, clear_flushing_store, Down, Goto, listVars
  <2>2. WorkerHand' = WorkerHand
    BY <1>1, FlushAlone DEF Alone, WorkerHand, Procs, Callers
  <2>3. pc[t] \in AfterSplice /\ (pc[t] = "f_clear" => pc[t] \in AfterDrain)
    BY <2>1 DEF AfterSplice, AfterDrain, FlushingPcs
  <2>4. ~delay_wq => WorkerHand = {}
    BY DEF NoWqInv, WorkerHand
  <2> QED
    BY <2>1, <2>2, <2>3, <2>4 DEF OwedPublished
<1>2. CASE \E u \in Revokers \ {t} : fflush_enter(u) \/ FlushStep(u)
  BY <1>2, FlushAlone DEF Alone, Procs, Callers
<1>3. CASE \E u \in Writers : group_write_enter(u) \/ WriteStep(u)
  BY <1>3, WriteAlone DEF Alone, Procs, Callers
<1>4. CASE \E u \in Readers : group_read_enter(u) \/ ReadStep(u)
  BY <1>4, ReadAlone DEF Alone, Procs, Callers
<1>5. CASE WorkerStep
  BY <1>5, WorkerAlone DEF Alone, Procs, Callers
<1>6. CASE OtherStep
  BY <1>6, NobodyMoves
<1> QED
  BY <1>1, <1>2, <1>3, <1>4, <1>5, <1>6, StepKinds

(* A revocation of a new device owes nothing. *)
LEMMA RevokeInvInit == MsgInit /\ FlagsInit => RevokeInv
  BY ThreadAssumption DEF MsgInit, RevokeInv, OwedWritten, OwedPublished,
       NoWqInv, AfterSplice, AfterDrain, FlushingPcs, WqCS, Procs, Callers

(* Every step preserves RevokeInv. *)
LEMMA RevokeInvStep ==
  ASSUME BaseInv, OnePlace, RevokeInv, [MsgNext]_msgVars
  PROVE  RevokeInv'
  BY OwedWrittenStep, OwedPublishedStep, NoWqStep DEF RevokeInv

(* RevokeInv is an invariant of the device. *)
LEMMA RevokeInvCorrect == MsgSpec => []RevokeInv
<1>1. BaseInv /\ OnePlace /\ RevokeInv /\ [MsgNext]_msgVars => RevokeInv'
  BY RevokeInvStep
<1> QED
  BY RevokeInvInit, <1>1, BaseCorrect, ExactlyOnce, PTL
     DEF MsgSpec, MessagingInit

(* When revoke_delayed_messages() returns, every message that was pending  *)
(* or in the worker's hands when it was called has been published: whether *)
(* there is a workqueue to drain or not, whatever is written, read and     *)
(* revoked meanwhile.  It rests on exactly-once (an owed message is pended *)
(* by nobody a second time), on the splice, and on the drain waiting for   *)
(* the worker.                                                             *)
THEOREM RevocationPublishes == MsgSpec => RevokeComplete
<1>1. BaseInv /\ RevokeInv /\ [MsgNext]_msgVars =>
        [\A t \in Revokers : pc[t] # "idle" /\ pc'[t] = "idle" =>
           owed[t] \cap (Range(pending_list') \cup WorkerHand') = {}]_msgVars
  BY RevokeReturns DEF RevokeInv
<1> QED
  BY <1>1, BaseCorrect, RevokeInvCorrect, PTL DEF MsgSpec, RevokeComplete
=============================================================================
