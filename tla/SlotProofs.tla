----------------------------- MODULE SlotProofs -----------------------------
(***************************************************************************)
(* messages_number, the unsigned counter that group_write compares with    *)
(* max_storage_size, counts what it is meant to count; and Messaging       *)
(* implements MailSlot: read, write, the delayed works and the revocation  *)
(* are atomic operations on a bounded mail slot.                           *)
(***************************************************************************)
EXTENDS RevokeProofs, FiniteSetTheorems

-----------------------------------------------------------------------------
(* The counter of messages                                                 *)

(* Counted and on their way from message_sem to pending_sem. *)
Deferred == {msg[t] : t \in {u \in Writers : pc[u] \in {"p_down", "p_add"}}}

(* A writer that passed the test of max_storage_size still has room: only  *)
(* holders of message_sem count.                                           *)
SpaceLeft ==
  \A t \in Writers : pc[t] = "w_store" =>
    \E n \in StorageSizes : messages_number < n

CountInv == CountMatches /\ SpaceLeft

-----------------------------------------------------------------------------
(* Messages that are accounted for are finitely many messages. *)
LEMMA CountedFinite ==
  ASSUME BaseInv
  PROVE  /\ Counted \subseteq Msgs /\ IsFiniteSet(Counted)
         /\ Cardinality(Counted) \in Nat
<1>1. Range(message_list) \subseteq Msgs /\ Range(pending_list) \subseteq Msgs
  BY RangeDef DEF BaseInv, MsgTypeOK
<1>2. WorkerHand \subseteq Msgs
  BY DEF BaseInv, HoldInv, WorkerHand, Procs
<1>3. Deferred \subseteq Msgs
  BY DEF BaseInv, HoldInv, Deferred, WritePcs, Procs, Callers
<1>4. Counted \subseteq Msgs
  BY <1>1, <1>2, <1>3 DEF Counted, Deferred
<1>5. IsFiniteSet(Msgs)
  BY FS_Interval, ParamAssumption DEF Msgs
<1>6. IsFiniteSet(Counted)
  BY <1>4, <1>5, FS_Subset
<1> QED
  BY <1>4, <1>6, FS_CardinalityType

(* A step of a writer that neither enters nor leaves the way to the        *)
(* pending list keeps the messages that are on it.                         *)
LEMMA DeferredKept ==
  ASSUME NEW t \in Writers, Alone(t),
         pc[t] \in {"p_down", "p_add"} <=> pc'[t] \in {"p_down", "p_add"},
         pc[t] \in {"p_down", "p_add"} => msg'[t] = msg[t]
  PROVE  Deferred' = Deferred
<1>1. \A u \in Writers : /\ pc[u] \in {"p_down", "p_add"}
                              <=> pc'[u] \in {"p_down", "p_add"}
                         /\ pc[u] \in {"p_down", "p_add"} => msg'[u] = msg[u]
  BY DEF Alone, Procs, Callers
<1> QED
  BY <1>1 DEF Deferred

(* A step of another process keeps them. *)
LEMMA DeferredOther ==
  ASSUME NEW p \in Procs \ Writers, Alone(p)
  PROVE  Deferred' = Deferred
<1>1. \A u \in Writers : pc'[u] = pc[u] /\ msg'[u] = msg[u]
  BY DEF Alone, Procs, Callers
<1> QED
  BY <1>1 DEF Deferred

(* A write counts its message exactly once, when message_sem is released.  *)
LEMMA WriteCounts ==
  ASSUME BaseInv, OnePlace, NEW t \in Writers,
         group_write_enter(t) \/ WriteStep(t)
  PROVE  \/ Counted' = Counted /\ messages_number' = messages_number
         \/ /\ pc[t] = "w_store" /\ pc'[t] # "w_store"
            /\ msg[t] \in Msgs \ Counted
            /\ Counted' = Counted \cup {msg[t]}
            /\ messages_number' = uint(messages_number + 1)
<1>0. /\ t \in Procs /\ t # Worker /\ t \in DOMAIN pc /\ t \in DOMAIN msg
      /\ message_list \in Seq(Msgs) /\ pending_list \in Seq(Msgs)
  BY ThreadAssumption DEF BaseInv, MsgTypeOK, Procs, Callers
<1>1. Alone(t)
  BY WriteAlone
<1>2. WorkerHand' = WorkerHand
  BY <1>0, <1>1 DEF Alone, WorkerHand, Procs
<1>3. CASE pc[t] \in {"w_store", "p_add"}
  <2>1. Carries(t)
    BY <1>3 DEF Carries
  <2>2. /\ msg[t] \in Msgs
        /\ msg[t] \notin Range(message_list) /\ msg[t] \notin Range(pending_list)
    BY <1>0, <2>1 DEF OnePlace
  <2>3. \A u \in Procs \ {t} : Carries(u) => msg[u] # msg[t]
    BY <1>0, <2>1 DEF OnePlace
  <2>4. msg[t] \notin WorkerHand
    BY <1>0, <2>3 DEF WorkerHand, Carries, Procs
  <2>5. \A u \in Writers \ {t} :
          pc[u] \in {"p_down", "p_add"} => msg[u] # msg[t]
    BY <2>3 DEF Carries, Procs, Callers
  <2>6. CASE group_write_publish(t)
    <3>1. pc[t] = "w_store" /\ pc'[t] = "w_info" /\ msg' = msg
      BY <1>0, <2>6 DEF group_write_publish, Goto
    <3>2. Range(message_list') = Range(message_list) \cup {msg[t]}
      BY <1>0, <2>2, <2>6, AddEntry DEF group_write_publish, list_add,
                                        OnePlace
    <3>3. Deferred' = Deferred
      BY <1>1, <3>1, DeferredKept
    <3>4. msg[t] \notin Deferred
      BY <2>5, <3>1 DEF Deferred
    <3>5. pending_list' = pending_list
          /\ messages_number' = uint(messages_number + 1)
      BY <2>6 DEF group_write_publish
    <3> QED
      BY <1>2, <2>2, <2>4, <3>1, <3>2, <3>3, <3>4, <3>5 DEF Counted, Deferred
  <2>7. CASE group_write_defer(t)
    <3>1. pc[t] = "w_store" /\ pc'[t] = "p_down" /\ msg' = msg
      BY <1>0, <2>7 DEF group_write_defer, Goto
    <3>2. \A u \in Writers : u # t => pc'[u] = pc[u]
      BY <1>1 DEF Alone, Procs, Callers
    <3>3. Deferred' = Deferred \cup {msg[t]} /\ msg[t] \notin Deferred
      BY <2>5, <3>1, <3>2 DEF Deferred
    <3>4. /\ message_list' = message_list /\ pending_list' = pending_list
          /\ messages_number' = uint(messages_number + 1)
      BY <2>7 DEF group_write_defer
    <3> QED
      BY <1>2, <2>2, <2>4, <3>1, <3>3, <3>4 DEF Counted, Deferred
  <2>8. CASE group_write_pend(t)
    <3>1. pc[t] = "p_add" /\ pc'[t] = "k_alloc" /\ msg' = msg
      BY <1>0, <2>8 DEF group_write_pend, Goto
    <3>2. \A u \in Writers : u # t => pc'[u] = pc[u]
      BY <1>1 DEF Alone, Procs, Callers
    <3>3. Deferred' \cup {msg[t]} = Deferred
      BY <3>1, <3>2 DEF Deferred
    <3>4. Range(pending_list') = Range(pending_list) \cup {msg[t]}
      BY <1>0, <2>2, <2>8, AddEntry DEF group_write_pend, list_add, OnePlace
    <3>5. message_list' = message_list /\ messages_number' = messages_number
      BY <2>8 DEF group_write_pend
    <3> QED
      BY <1>2, <3>3, <3>4, <3>5 DEF Counted, Deferred
  <2> QED
    BY <1>3, <2>6, <2>7, <2>8 DEF WriteStep, group_write_enter,
         group_write_down, group_write_fail, group_write_accept,
         group_write_pend_down, add_delayed_work_fail,
         add_delayed_work_alloc, add_delayed_work_down,
         add_delayed_work_queue, add_delayed_work_list, group_write_return,
         Goto, Down
<1>4. CASE pc[t] \notin {"w_store", "p_add"}
  <2>1. UNCHANGED <<message_list, pending_list, messages_number>>
    BY <1>4 DEF WriteStep, group_write_enter, group_write_down,
         group_write_fail, group_write_accept, group_write_publish,
         group_write_defer, group_write_pend_down, group_write_pend,
         add_delayed_work_fail, add_delayed_work_alloc,
         add_delayed_work_down, add_delayed_work_queue,
         add_delayed_work_list, group_write_return, Goto, Down, listVars
  <2>2. CASE group_write_pend_down(t)
    BY <1>0, <1>1, <1>2, <2>1, <2>2, DeferredKept
       DEF group_write_pend_down, Down, Goto, Counted, Deferred
  <2>3. CASE ~group_write_pend_down(t)
    <3>1. /\ pc[t] \notin {"p_down", "p_add"}
          /\ pc'[t] \notin {"p_down", "p_add"}
      BY <1>0, <1>4, <2>3 DEF WriteStep, group_write_enter,
           group_write_down, group_write_fail, group_write_accept,
           group_write_publish, group_write_defer, group_write_pend,
           add_delayed_work_fail, add_delayed_work_alloc,
           add_delayed_work_down, add_delayed_work_queue,
           add_delayed_work_list, group_write_return, Goto, Down
    <3>2. Deferred' = Deferred
      BY <1>1, <3>1, DeferredKept
    <3> QED
      BY <1>2, <2>1, <3>2 DEF Counted, Deferred
  <2> QED
    BY <2>2, <2>3
<1> QED
  BY <1>3, <1>4

(* A read discounts the message it takes, before it copies it.             *)
LEMMA ReadCounts ==
  ASSUME BaseInv, OnePlace, NEW t \in Readers,
         group_read_enter(t) \/ ReadStep(t)
  PROVE  \/ Counted' = Counted /\ messages_number' = messages_number
         \/ /\ pc[t] = "r_take"
            /\ msg[t] \in Counted
            /\ Counted' = Counted \ {msg[t]}
            /\ messages_number' = uint(messages_number - 1)
<1>0. /\ t \in Procs \ Writers /\ t # Worker /\ t \in DOMAIN pc
      /\ message_list \in Seq(Msgs) /\ pending_list \in Seq(Msgs)
  BY ThreadAssumption DEF BaseInv, MsgTypeOK, Procs, Callers
<1>1. Alone(t) /\ pending_list' = pending_list
  BY ReadAlone
<1>2. WorkerHand' = WorkerHand /\ Deferred' = Deferred
  BY <1>0, <1>1, DeferredOther DEF Alone, WorkerHand, Procs
<1>3. CASE group_read_take(t)
  <2>1. /\ pc[t] = "r_take" /\ message_list # <<>>
        /\ msg[t] = Head(message_list)
    BY <1>3 DEF group_read_take, Goto, BaseInv, HoldInv
  <2>2. /\ list_del(Head(message_list), message_list) = Tail(message_list)
        /\ Range(Tail(message_list))
             = Range(message_list) \ {Head(message_list)}
    BY <1>0, <2>1, DelOldest DEF OnePlace
  <2>3. Range(message_list') = Range(message_list) \ {msg[t]}
    BY <1>3, <2>1, <2>2 DEF group_read_take
  <2>4. msg[t] \in Range(message_list)
    BY <1>0, <2>1, HeadInRange
  <2>5. msg[t] \in Msgs /\ msg[t] \notin Range(pending_list)
    BY <1>0, <2>4, RangeDef DEF OnePlace
  <2>6. \A u \in Procs : Carries(u) => msg[u] # msg[t]
    BY <2>4 DEF OnePlace
  <2>7. msg[t] \notin WorkerHand /\ msg[t] \notin Deferred
    BY <2>6 DEF WorkerHand, Deferred, Carries, Procs, Callers
  <2>8. messages_number' = uint(messages_number - 1)
    BY <1>3 DEF group_read_take
  <2> QED
    BY <1>1, <1>2, <2>1, <2>3, <2>4, <2>5, <2>7, <2>8 DEF Counted, Deferred
<1>4. CASE ~group_read_take(t)
  <2>1. message_list' = message_list /\ messages_number' = messages_number
    BY <1>4 DEF ReadStep, group_read_enter, group_read_down,
         group_read_empty, group_read_look, group_read_copy, Down, listVars
  <2> QED
    BY <1>1, <1>2, <2>1 DEF Counted, Deferred
<1> QED
  BY <1>3, <1>4

(* The worker and the revocation move messages that are counted already.   *)
LEMMA MoversKeepCount ==
  ASSUME BaseInv, OnePlace,
         WorkerStep \/ \E t \in Revokers : fflush_enter(t) \/ FlushStep(t)
  PROVE  Counted' = Counted /\ messages_number' = messages_number
<1>0. /\ message_list \in Seq(Msgs) /\ pending_list \in Seq(Msgs)
      /\ Worker \in Procs \ Writers /\ Worker \in DOMAIN pc
  BY ThreadAssumption DEF BaseInv, MsgTypeOK, Procs, Callers
<1>1. CASE WorkerStep
  <2>1. Alone(Worker) /\ messages_number' = messages_number
    BY <1>1, WorkerAlone
  <2>2. Deferred' = Deferred
    BY <1>0, <2>1, DeferredOther
  <2>3. CASE delayed_work_take
    <3>1. /\ pending_list # <<>> /\ msg[Worker] = Head(pending_list)
          /\ pc[Worker] = "d_take" /\ pc'[Worker] = "d_mdown" /\ msg' = msg
      BY <1>0, <2>3 DEF delayed_work_take, Goto, BaseInv, HoldInv
    <3>2. /\ list_del(Head(pending_list), pending_list) = Tail(pending_list)
          /\ Range(Tail(pending_list))
               = Range(pending_list) \ {Head(pending_list)}
          /\ Head(pending_list) \in Range(pending_list)
      BY <1>0, <3>1, DelOldest, HeadInRange DEF OnePlace
    <3>3. /\ Range(pending_list') = Range(pending_list) \ {msg[Worker]}
          /\ message_list' = message_list
      BY <2>3, <3>1, <3>2 DEF delayed_work_take
    <3>4. WorkerHand = {} /\ WorkerHand' = {msg[Worker]}
      BY <3>1 DEF WorkerHand
    <3> QED
      BY <2>1, <2>2, <3>1, <3>2, <3>3, <3>4 DEF Counted, Deferred
  <2>4. CASE delayed_work_publish
    <3>1. pc[Worker] = "d_add" /\ pc'[Worker] = "d_exit" /\ msg' = msg
      BY <1>0, <2>4 DEF delayed_work_publish, Goto
    <3>2. msg[Worker] \in Msgs \ Range(message_list)
      BY <1>0, <3>1 DEF OnePlace, Carries
    <3>3. /\ Range(message_list') = Range(message_list) \cup {msg[Worker]}
          /\ pending_list' = pending_list
      BY <1>0, <2>4, <3>2, AddEntry DEF delayed_work_publish, list_add,
                                        OnePlace
    <3>4. WorkerHand = {msg[Worker]} /\ WorkerHand' = {}
      BY <3>1 DEF WorkerHand
    <3> QED
      BY <2>1, <2>2, <3>3, <3>4 DEF Counted, Deferred
  <2>5. CASE delayed_work_msg_down
    BY <1>0, <2>1, <2>2, <2>5 DEF delayed_work_msg_down, Down, Goto,
         listVars, WorkerHand, Counted, Deferred
  <2>6. CASE \/ worker_start \/ delayed_work_pend_down
             \/ delayed_work_empty \/ delayed_work_look
             \/ delayed_work_exit \/ delayed_work_unlink
             \/ delayed_work_free
    <3>1. message_list' = message_list /\ pending_list' = pending_list
      BY <2>6 DEF worker_start, delayed_work_pend_down, delayed_work_empty,
           delayed_work_look, delayed_work_exit, delayed_work_unlink,
           delayed_work_free, Down, listVars
    <3>2. WorkerHand = {} /\ WorkerHand' = {}
      BY <1>0, <2>6 DEF worker_start, delayed_work_pend_down,
           delayed_work_empty, delayed_work_look, delayed_work_exit,
           delayed_work_unlink, delayed_work_free, Down, Goto, WorkerHand
    <3> QED
      BY <2>1, <2>2, <3>1, <3>2 DEF Counted, Deferred
  <2> QED
    BY <1>1, <2>3, <2>4, <2>5, <2>6 DEF WorkerStep
<1>2. CASE \E t \in Revokers : fflush_enter(t) \/ FlushStep(t)
  <2>1. PICK t \in Revokers : fflush_enter(t) \/ FlushStep(t)
    BY <1>2
  <2>2. /\ t \in Procs \ Writers /\ t # Worker
    BY ThreadAssumption DEF Procs, Callers
  <2>3. Alone(t) /\ messages_number' = messages_number
    BY <2>1, FlushAlone
  <2>4. Deferred' = Deferred /\ WorkerHand' = WorkerHand
    BY <1>0, <2>2, <2>3, DeferredOther DEF Alone, WorkerHand
  <2>5. Range(message_list') \cup Range(pending_list')
          = Range(message_list) \cup Range(pending_list)
    <3>1. CASE _fflush_splice(t)
      <4>1. Range(pending_list \o message_list)
              = Range(pending_list) \cup Range(message_list)
        BY <1>0, JoinLists DEF OnePlace
      <4>2. Range(<<>>) = {}
        BY DEF Range
      <4> QED
        BY <3>1, <4>1, <4>2 DEF _fflush_splice, list_splice_tail
    <3>2. CASE ~_fflush_splice(t)
      BY <2>1, <3>2 DEF FlushStep, fflush_enter, _fflush_pend_down,
           _fflush_msg_down, fflush_no_wq, fflush_down, set_flushing_load,
           set_flushing_store, fflush_first, fflush_unlink, fflush_flush,
           fflush_next, fflush_drain, clear_flushing_load,
           clear_flushing_store, Down, listVars
    <3> QED
      BY <3>1, <3>2
  <2> QED
    BY <2>3, <2>4, <2>5 DEF Counted, Deferred
<1> QED
  BY <1>1, <1>2

-----------------------------------------------------------------------------
(* A step that counts nothing keeps CountInv, if the writers that enter    *)
(* w_store have tested the counter.                                        *)
LEMMA CountKept ==
  ASSUME CountInv, Counted' = Counted, messages_number' = messages_number,
         \A t \in Writers : pc'[t] = "w_store" =>
           pc[t] = "w_store" \/ \E n \in StorageSizes : messages_number < n
  PROVE  CountInv'
  BY DEF CountInv, CountMatches, SpaceLeft

(* Only group_write_accept enters w_store.                                 *)
LEMMA AcceptTests ==
  ASSUME BaseInv, NEW t \in Writers, group_write_enter(t) \/ WriteStep(t),
         pc'[t] = "w_store"
  PROVE  \E n \in StorageSizes : messages_number < n
<1>1. t \in DOMAIN pc /\ max_storage_size \in StorageSizes
  BY DEF BaseInv, MsgTypeOK, Procs, Callers
<1>2. group_write_accept(t)
  BY <1>1 DEF WriteStep, group_write_enter, group_write_down,
       group_write_fail, group_write_publish,
       group_write_defer, group_write_pend_down, group_write_pend,
       add_delayed_work_fail, add_delayed_work_alloc,
       add_delayed_work_down, add_delayed_work_queue,
       add_delayed_work_list, group_write_return, Goto, Down
<1> QED
  BY <1>1, <1>2 DEF group_write_accept

(* Every step preserves CountInv.                                          *)
LEMMA CountStep ==
  ASSUME BaseInv, OnePlace, CountInv, [MsgNext]_msgVars
  PROVE  CountInv'
<1> USE ThreadAssumption
<1>0. /\ IsFiniteSet(Counted) /\ messages_number \in Nat
      /\ messages_number = Cardinality(Counted)
  BY CountedFinite DEF CountInv, CountMatches
<1>1. StorageSizes \subseteq 0 .. UINT_RANGE - 1 /\ UINT_RANGE \in Nat \ {0}
  BY ParamAssumption
<1>2. CASE \E t \in Writers : group_write_enter(t) \/ WriteStep(t)
  <2>1. PICK t \in Writers : group_write_enter(t) \/ WriteStep(t)
    BY <1>2
  <2>2. \A u \in Writers \ {t} : pc'[u] = pc[u]
    BY <2>1, WriteAlone DEF Alone, Procs, Callers
  <2>3. CASE Counted' = Counted /\ messages_number' = messages_number
    BY <2>1, <2>2, <2>3, AcceptTests, CountKept
  <2>4. CASE /\ pc[t] = "w_store" /\ pc'[t] # "w_store"
             /\ msg[t] \in Msgs \ Counted
             /\ Counted' = Counted \cup {msg[t]}
             /\ messages_number' = uint(messages_number + 1)
    <3>1. PICK n \in StorageSizes : messages_number < n
      BY <2>4 DEF CountInv, SpaceLeft
    <3>2. messages_number' = messages_number + 1 /\ messages_number' <= n
      BY <1>0, <1>1, <2>4, <3>1 DEF uint
    <3>3. Cardinality(Counted') = Cardinality(Counted) + 1
      BY <1>0, <2>4, FS_AddElement
    <3>4. \A u \in Writers : pc'[u] # "w_store"
      BY <2>2, <2>4 DEF BaseInv, LockInv, MessageCS, Procs, Callers
    <3>5. CountMatches'
      BY <1>0, <3>2, <3>3 DEF CountMatches
    <3> QED
      BY <3>4, <3>5 DEF CountInv, SpaceLeft
  <2> QED
    BY <2>1, <2>3, <2>4, WriteCounts
<1>3. CASE \E t \in Readers : group_read_enter(t) \/ ReadStep(t)
  <2>1. PICK t \in Readers : group_read_enter(t) \/ ReadStep(t)
    BY <1>3
  <2>2. \A u \in Writers : pc'[u] = pc[u]
    BY <2>1, ReadAlone DEF Alone, Procs, Callers
  <2>3. CASE Counted' = Counted /\ messages_number' = messages_number
    BY <2>2, <2>3, CountKept
  <2>4. CASE /\ pc[t] = "r_take" /\ msg[t] \in Counted
             /\ Counted' = Counted \ {msg[t]}
             /\ messages_number' = uint(messages_number - 1)
    <3>1. Counted # {}
      BY <2>4
    <3>2. messages_number # 0
      BY <1>0, <3>1, FS_EmptySet
    <3>3. PICK n \in StorageSizes : messages_number <= n
      BY DEF CountInv, CountMatches
    <3>4. messages_number' = messages_number - 1 /\ messages_number' <= n
      BY <1>0, <1>1, <2>4, <3>2, <3>3 DEF uint
    <3>5. Cardinality(Counted') = Cardinality(Counted) - 1
      BY <1>0, <2>4, FS_RemoveElement
    <3>6. \A u \in Writers : pc'[u] # "w_store"
      BY <2>2, <2>4 DEF BaseInv, LockInv, MessageCS, Procs, Callers
    <3>7. CountMatches'
      BY <1>0, <3>4, <3>5 DEF CountMatches
    <3> QED
      BY <3>6, <3>7 DEF CountInv, SpaceLeft
  <2> QED
    BY <2>1, <2>3, <2>4, ReadCounts
<1>4. CASE \E t \in Revokers : fflush_enter(t) \/ FlushStep(t)
  <2>1. \A u \in Writers : pc'[u] = pc[u]
    BY <1>4, FlushAlone DEF Alone, Procs, Callers
  <2> QED
    BY <1>4, <2>1, MoversKeepCount, CountKept
<1>5. CASE WorkerStep
  <2>1. \A u \in Writers : pc'[u] = pc[u]
    BY <1>5, WorkerAlone DEF Alone, Procs, Callers
  <2> QED
    BY <1>5, <2>1, MoversKeepCount, CountKept
<1>6. CASE OtherStep
  <2>1. UNCHANGED <<pc, msg, message_list, pending_list, messages_number>>
    BY <1>6, NobodyMoves
  <2>2. Counted' = Counted
    BY <2>1 DEF Counted, WorkerHand
  <2> QED
    BY <2>1, <2>2, CountKept
<1> QED
  BY <1>2, <1>3, <1>4, <1>5, <1>6, StepKinds

(* It holds in a new device. *)
LEMMA CountInit == MsgInit => CountInv
<1> SUFFICES ASSUME MsgInit PROVE CountInv
  OBVIOUS
<1>1. Counted = {} /\ messages_number = 0 /\ max_storage_size \in StorageSizes
  BY DEF MsgInit, Counted, WorkerHand, Range, Procs, Callers
<1>2. Cardinality(Counted) = 0
  BY <1>1, FS_EmptySet
<1>3. CountMatches
  BY <1>1, <1>2, ParamAssumption DEF CountMatches
<1>4. SpaceLeft
  BY DEF MsgInit, SpaceLeft, Procs, Callers
<1> QED
  BY <1>3, <1>4 DEF CountInv

(* CountInv is an invariant of the device.                                 *)
LEMMA CountInvCorrect == MsgSpec => []CountInv
<1>1. MsgInit /\ FlagsInit => CountInv
  BY CountInit
<1>2. BaseInv /\ OnePlace /\ CountInv /\ [MsgNext]_msgVars => CountInv'
  BY CountStep
<1> QED
  BY <1>1, <1>2, BaseCorrect, ExactlyOnce, PTL
     DEF MsgSpec, MessagingInit

(* messages_number is the number of messages that are stored, pending or   *)
(* on their way, never exceeds the largest max_storage_size that was ever  *)
(* configured and so never wraps, although the parameter may shrink below  *)
(* it at any moment and writers count before they pend.  The argument      *)
(* needs exactly-once (a message is counted in one place) and that the     *)
(* test of max_storage_size and the increment are one section of           *)
(* message_sem.                                                            *)
THEOREM CountCorrect == MsgSpec => []CountMatches
<1>1. CountInv => CountMatches
  BY DEF CountInv
<1> QED
  BY <1>1, CountInvCorrect, PTL

-----------------------------------------------------------------------------
(* The mail slot                                                           *)

(* The state of the mail slot that the mapping of Messaging names no       *)
(* operator for.                                                           *)
Refused == {m \in Msgs : fate[m] = "rejected"}

(* The operators of the library mean the same inside the mail slot. *)
LEMMA SlotOperators ==
  /\ \A s : Slot!Range(s) = Range(s)
  /\ \A S : Slot!Cardinality(S) = Cardinality(S)
<1>1. \A s : Slot!Range(s) = Range(s)
  BY DEF Slot!Range, Range
<1>2. \A S : Slot!Cardinality(S) = Cardinality(S)
  BY DEF Slot!Cardinality, Cardinality
<1> QED
  BY <1>1, <1>2

-----------------------------------------------------------------------------
(* The mapping                                                             *)

(* Accepted by group_write and not yet in a list. *)
ReservedPcs == {"w_store", "p_down", "p_add"}

(* A step that changes nothing of the mapped state is a stutter. *)
LEMMA SlotStutters ==
  ASSUME UNCHANGED <<max_storage_size, Reserved, Delayed, message_list,
                     Taken, Refused>>
  PROVE  [Slot!SlotNext]_(Slot!slotVars)
  BY DEF Slot!slotVars, Refused

(* The delayed messages are the pending ones and the worker's. *)
LEMMA DelayedRange ==
  ASSUME BaseInv
  PROVE  /\ Delayed \in Seq(Msgs)
         /\ Range(Delayed) = WorkerHand \cup Range(pending_list)
         /\ WorkerHand = {} => Delayed = pending_list
         /\ WorkerHand # {} =>
              /\ Head(Delayed) = msg[Worker] /\ Tail(Delayed) = pending_list
              /\ Delayed # <<>> /\ Delayed = <<msg[Worker]>> \o pending_list
              /\ msg[Worker] \in Msgs /\ WorkerHand = {msg[Worker]}
<1>1. pending_list \in Seq(Msgs)
  BY DEF BaseInv, MsgTypeOK
<1>2. CASE WorkerHand = {}
  BY <1>1, <1>2 DEF Delayed
<1>3. CASE WorkerHand # {}
  <2>1. WorkerHand = {msg[Worker]} /\ msg[Worker] \in Msgs
    BY <1>3 DEF WorkerHand, BaseInv, HoldInv, Procs
  <2>2. Delayed = <<msg[Worker]>> \o pending_list
    BY <1>3 DEF Delayed
  <2>3. /\ Len(Delayed) = Len(pending_list) + 1 /\ Delayed \in Seq(Msgs)
        /\ Delayed[1] = msg[Worker]
        /\ \A i \in 1 .. Len(pending_list) :
             Delayed[i + 1] = pending_list[i]
    BY <1>1, <2>1, <2>2
  <2>4. Range(Delayed) = {msg[Worker]} \cup Range(pending_list)
    <3>1. ASSUME NEW x \in Range(Delayed)
          PROVE  x \in {msg[Worker]} \cup Range(pending_list)
      <4>1. PICK i \in 1 .. Len(pending_list) + 1 : x = Delayed[i]
        BY <2>3 DEF Range
      <4>2. CASE i = 1
        BY <2>3, <4>1, <4>2
      <4>3. CASE i # 1
        <5>1. i - 1 \in 1 .. Len(pending_list) /\ (i - 1) + 1 = i
          BY <1>1, <4>3
        <5>2. x = pending_list[i - 1]
          BY <2>3, <4>1, <5>1
        <5> QED
          BY <1>1, <5>1, <5>2 DEF Range
      <4> QED
        BY <4>2, <4>3
    <3>2. ASSUME NEW x \in Range(pending_list) PROVE x \in Range(Delayed)
      <4>1. PICK i \in 1 .. Len(pending_list) : x = pending_list[i]
        BY <1>1 DEF Range
      <4>2. i + 1 \in DOMAIN Delayed /\ Delayed[i + 1] = x
        BY <1>1, <2>3, <4>1
      <4> QED
        BY <4>2 DEF Range
    <3>3. msg[Worker] \in Range(Delayed)
      BY <1>1, <2>3 DEF Range
    <3> QED
      BY <3>1, <3>2, <3>3
  <2>5. Head(Delayed) = msg[Worker] /\ Delayed # <<>>
    BY <1>1, <2>3
  <2>6. Tail(Delayed) = pending_list
    BY <1>1, <2>2, <2>1
  <2> QED
    BY <1>3, <2>1, <2>2, <2>3, <2>4, <2>5, <2>6
<1> QED
  BY <1>2, <1>3

(* Cutting off the one entry in front of a list. *)
LEMMA OneBefore ==
  ASSUME NEW S, NEW e \in S, NEW s \in Seq(S)
  PROVE  LET d == <<e>> \o s
         IN  /\ 1 <= Len(d) /\ SubSeq(d, 1, 1) = <<e>>
             /\ SubSeq(d, 1 + 1, Len(d)) = s
<1> DEFINE d == <<e>> \o s
<1>1. /\ d \in Seq(S) /\ Len(d) = Len(s) + 1 /\ d[1] = e
      /\ \A i \in 1 .. Len(s) : d[i + 1] = s[i]
  OBVIOUS
<1> HIDE DEF d
<1>2. SubSeq(d, 1, 1) = <<e>>
  <2>1. /\ SubSeq(d, 1, 1) \in Seq(S) /\ Len(SubSeq(d, 1, 1)) = 1
        /\ SubSeq(d, 1, 1)[1] = e
    BY <1>1
  <2>2. <<e>> \in Seq(S) /\ Len(<<e>>) = 1 /\ <<e>>[1] = e
    OBVIOUS
  <2>3. \A i \in 1 .. 1 : SubSeq(d, 1, 1)[i] = <<e>>[i]
    BY <2>1, <2>2
  <2> DEFINE a == SubSeq(d, 1, 1)  b == <<e>>
  <2>4. a \in Seq(S) /\ b \in Seq(S) /\ Len(a) = Len(b)
        /\ \A i \in 1 .. Len(a) : a[i] = b[i]
    BY <2>1, <2>2, <2>3
  <2> HIDE DEF a, b
  <2>5. a = b
    BY <2>4
  <2> QED
    BY <2>5 DEF a, b
<1>3. /\ SubSeq(d, 2, Len(d)) \in Seq(S)
      /\ Len(SubSeq(d, 2, Len(d))) = Len(s)
      /\ \A i \in 1 .. Len(s) : SubSeq(d, 2, Len(d))[i] = s[i]
  BY <1>1
<1>4. SubSeq(d, 2, Len(d)) = s
  BY <1>3
<1> QED
  BY <1>1, <1>2, <1>4 DEF d

(* A step of t that neither enters nor leaves ReservedPcs keeps reserved.  *)
LEMMA ReservedKept ==
  ASSUME NEW t \in Writers, Alone(t),
         pc[t] \in ReservedPcs <=> pc'[t] \in ReservedPcs,
         pc[t] \in ReservedPcs => msg'[t] = msg[t]
  PROVE  Reserved' = Reserved
<1>1. \A u \in Writers :
        /\ pc[u] \in ReservedPcs <=> pc'[u] \in ReservedPcs
        /\ pc[u] \in ReservedPcs => msg'[u] = msg[u]
  BY DEF Alone, Procs, Callers
<1> QED
  BY <1>1 DEF Reserved, ReservedPcs

(* The steps of other processes keep it.                                   *)
LEMMA ReservedOther ==
  ASSUME NEW p \in Procs \ Writers, Alone(p)
  PROVE  Reserved' = Reserved
<1>1. \A u \in Writers : pc'[u] = pc[u] /\ msg'[u] = msg[u]
  BY DEF Alone, Procs, Callers
<1> QED
  BY <1>1 DEF Reserved

(* A step of a process that is no reader keeps what is taken, if it ends   *)
(* no message as delivered or lost.                                        *)
LEMMA TakenKept ==
  ASSUME NEW p \in Procs \ Readers, Alone(p),
         \A m \in Msgs : fate'[m] \in {"delivered", "lost"}
                            <=> fate[m] \in {"delivered", "lost"}
  PROVE  Taken' = Taken
<1>1. \A u \in Readers : pc'[u] = pc[u] /\ msg'[u] = msg[u]
  BY DEF Alone, Procs, Callers
<1> QED
  BY <1>1 DEF Taken

(* The message of a write that is not yet accepted is unknown to the slot. *)
LEMMA CarriedIsFresh ==
  ASSUME BaseInv, OnePlace, NEW t \in Writers, pc[t] = "w_check"
  PROVE  /\ msg[t] \in Msgs /\ Slot!Fresh(msg[t]) /\ fate[msg[t]] = "live"
<1>1. t \in Procs /\ Carries(t) /\ t # Worker
  BY ThreadAssumption DEF Procs, Callers, Carries
<1>2. /\ msg[t] \in Msgs /\ fate[msg[t]] = "live"
      /\ msg[t] \notin Range(message_list) /\ msg[t] \notin Range(pending_list)
  BY <1>1 DEF OnePlace
<1>3. \A u \in Procs \ {t} : Carries(u) => msg[u] # msg[t]
  BY <1>1 DEF OnePlace
<1>4. msg[t] \notin Reserved
  BY <1>3 DEF Reserved, Carries, Procs, Callers
<1>5. msg[t] \notin Taken
  <2>1. \A u \in Readers : u # t
    BY ThreadAssumption
  <2> QED
    BY <1>2, <1>3, <2>1 DEF Taken, Carries, Procs, Callers
<1>6. msg[t] \notin Range(Delayed)
  <2>1. msg[t] \notin WorkerHand
    BY <1>1, <1>3 DEF WorkerHand, Carries, Procs
  <2> QED
    BY <1>2, <2>1, DelayedRange
<1> QED
  BY <1>2, <1>4, <1>5, <1>6, SlotOperators DEF Slot!Fresh

(* While a writer tests max_storage_size under message_sem, messages_number *)
(* is exactly the number of messages the slot holds.                       *)
LEMMA FullMeansNoSpace ==
  ASSUME BaseInv, CountInv, NEW t \in Writers, pc[t] = "w_check"
  PROVE  Slot!Full <=> messages_number >= max_storage_size
<1>1. \A u \in Writers : pc[u] # "w_store"
  BY DEF BaseInv, LockInv, MessageCS, Procs, Callers
<1>2. Reserved = Deferred
  BY <1>1 DEF Reserved, Deferred
<1>3. Reserved \cup Range(Delayed) \cup Range(message_list) = Counted
  BY <1>2, DelayedRange DEF Counted, Deferred
<1>4. Slot!Held = Counted
  BY <1>3, SlotOperators DEF Slot!Held
<1>5. Cardinality(Counted) = messages_number
  BY DEF CountInv, CountMatches
<1> QED
  BY <1>4, <1>5, SlotOperators DEF Slot!Full

-----------------------------------------------------------------------------
(* The steps                                                               *)

(* group_write: Accept or Refuse where it tests max_storage_size, Store or *)
(* Delay where the message enters a list, a stutter everywhere else.       *)
LEMMA WriteRefines ==
  ASSUME BaseInv, OnePlace, CountInv, NEW t \in Writers,
         group_write_enter(t) \/ WriteStep(t)
  PROVE  [Slot!SlotNext]_(Slot!slotVars)
<1>0. /\ t \in Procs \ Readers /\ t # Worker /\ t \in DOMAIN pc
      /\ t \in DOMAIN msg /\ DOMAIN fate = Msgs
      /\ message_list \in Seq(Msgs) /\ pending_list \in Seq(Msgs)
  BY ThreadAssumption DEF BaseInv, MsgTypeOK, Procs, Callers
<1>1. Alone(t)
  BY WriteAlone
<1>2. /\ \A u \in Writers \ {t} : pc'[u] = pc[u] /\ msg'[u] = msg[u]
      /\ pc'[Worker] = pc[Worker] /\ msg'[Worker] = msg[Worker]
  BY <1>0, <1>1 DEF Alone, Procs, Callers
<1>3. /\ WorkerHand' = WorkerHand
      /\ pending_list' = pending_list => Delayed' = Delayed
  BY <1>2 DEF WorkerHand, Delayed
<1>4. CASE group_write_enter(t)
  <2>1. PICK m \in Msgs : fate[m] = "unborn"
                         /\ fate' = [fate EXCEPT ![m] = "live"]
    BY <1>4 DEF group_write_enter
  <2>2. UNCHANGED <<max_storage_size, message_list, pending_list>>
    BY <1>4 DEF group_write_enter, paramVars, listVars
  <2>3. pc[t] \notin ReservedPcs /\ pc'[t] \notin ReservedPcs
    <3>1. pc[t] = "idle" /\ pc'[t] = "w_down"
      BY <1>0, <1>4 DEF group_write_enter, Goto
    <3> QED
      BY <3>1 DEF ReservedPcs
  <2>4. Reserved' = Reserved
    BY <1>1, <2>3, ReservedKept
  <2>5. Taken' = Taken
    BY <1>0, <1>1, <2>1, TakenKept
  <2>6. Refused' = Refused
    BY <1>0, <2>1 DEF Refused
  <2> QED
    BY <1>3, <2>2, <2>4, <2>5, <2>6, SlotStutters
<1>5. CASE group_write_fail(t)
  <2>1. pc[t] = "w_check" /\ pc'[t] = "idle"
    BY <1>0, <1>5 DEF group_write_fail, Goto
  <2>2. /\ msg[t] \in Msgs /\ Slot!Fresh(msg[t]) /\ fate[msg[t]] = "live"
    BY <2>1, CarriedIsFresh
  <2>3. Slot!Full \/ "copy" \in Faults
    BY <1>5, <2>1, FullMeansNoSpace DEF group_write_fail
  <2>4. UNCHANGED <<max_storage_size, message_list, pending_list>>
    BY <1>5 DEF group_write_fail, paramVars, listVars
  <2>5. Reserved' = Reserved
    BY <1>1, <2>1, ReservedKept DEF ReservedPcs
  <2>6. fate' = [fate EXCEPT ![msg[t]] = "rejected"]
    BY <1>5 DEF group_write_fail
  <2>7. Taken' = Taken
    BY <1>0, <1>1, <2>2, <2>6, TakenKept
  <2>8. Refused' = Refused \cup {msg[t]}
    BY <1>0, <2>2, <2>6 DEF Refused
  <2>9. PICK m \in Msgs : m = msg[t]
    BY <2>2
  <2>10. Slot!Refuse(m)
    BY <1>3, <2>2, <2>3, <2>4, <2>5, <2>7, <2>8, <2>9 DEF Slot!Refuse, Refused
  <2> QED
    BY <2>10 DEF Slot!SlotNext
<1>6. CASE group_write_accept(t)
  <2>1. pc[t] = "w_check" /\ pc'[t] = "w_store" /\ msg' = msg
    BY <1>0, <1>6 DEF group_write_accept, Goto
  <2>2. msg[t] \in Msgs /\ Slot!Fresh(msg[t])
    BY <2>1, CarriedIsFresh
  <2>3. ~Slot!Full
    <3>1. messages_number < max_storage_size
      BY <1>6 DEF group_write_accept
    <3>2. messages_number \in Int /\ max_storage_size \in Int
      BY ParamAssumption DEF BaseInv, MsgTypeOK
    <3> QED
      BY <2>1, <3>1, <3>2, FullMeansNoSpace
  <2>4. UNCHANGED <<max_storage_size, message_list, pending_list, fate>>
    BY <1>6 DEF group_write_accept, paramVars, listVars
  <2>5. Reserved' = Reserved \cup {msg[t]}
    BY <1>2, <2>1 DEF Reserved
  <2>6. Taken' = Taken /\ Refused' = Refused
    BY <1>0, <1>1, <2>4, TakenKept DEF Refused
  <2>7. Slot!Accept(msg[t])
    BY <1>3, <2>2, <2>3, <2>4, <2>5, <2>6 DEF Slot!Accept, Refused
  <2> QED
    BY <2>2, <2>7 DEF Slot!SlotNext
<1>7. CASE group_write_publish(t) \/ group_write_pend(t)
  <2>1. /\ pc[t] \in {"w_store", "p_add"} /\ pc'[t] \notin ReservedPcs
        /\ msg' = msg
    BY <1>0, <1>7 DEF group_write_publish, group_write_pend, Goto,
                      ReservedPcs
  <2>2. UNCHANGED <<max_storage_size, fate>>
    BY <1>7 DEF group_write_publish, group_write_pend, paramVars
  <2>3. Carries(t) /\ msg[t] \in Msgs
    BY <1>0, <2>1 DEF Carries, OnePlace
  <2>4. \A u \in Writers \ {t} : pc[u] \in ReservedPcs => msg[u] # msg[t]
    BY <1>0, <2>3 DEF OnePlace, Carries, ReservedPcs, Procs, Callers
  <2>5. msg[t] \in Reserved /\ Reserved' = Reserved \ {msg[t]}
    BY <1>2, <2>1, <2>4 DEF Reserved, ReservedPcs
  <2>6. Taken' = Taken /\ Refused' = Refused
    BY <1>0, <1>1, <2>2, TakenKept DEF Refused
  <2>7. CASE group_write_publish(t)
    <3>1. /\ message_list' = Append(message_list, msg[t])
          /\ pending_list' = pending_list
      BY <2>7 DEF group_write_publish, list_add
    <3>2. Slot!Store(msg[t])
      BY <1>3, <2>2, <2>5, <2>6, <3>1 DEF Slot!Store, Refused
    <3> QED
      BY <2>3, <3>2 DEF Slot!SlotNext
  <2>8. CASE group_write_pend(t)
    <3>1. /\ pending_list' = Append(pending_list, msg[t])
          /\ message_list' = message_list
      BY <2>8 DEF group_write_pend, list_add
    <3>2. Delayed' = Append(Delayed, msg[t])
      <4>1. CASE WorkerHand = {}
        <5>1. Delayed = <<>> \o pending_list
              /\ Delayed' = <<>> \o pending_list'
          BY <1>3, <4>1 DEF Delayed
        <5> QED
          BY <1>0, <2>3, <3>1, <5>1
      <4>2. CASE WorkerHand # {}
        <5>1. /\ Delayed = <<msg[Worker]>> \o pending_list
              /\ Delayed' = <<msg[Worker]>> \o pending_list'
          BY <1>2, <1>3, <4>2 DEF Delayed
        <5>2. msg[Worker] \in Msgs
          BY <4>2, DelayedRange
        <5> QED
          BY <1>0, <2>3, <3>1, <5>1, <5>2
      <4> QED
        BY <4>1, <4>2
    <3>3. Slot!Delay(msg[t])
      BY <2>2, <2>5, <2>6, <3>1, <3>2 DEF Slot!Delay, Refused
    <3> QED
      BY <2>3, <3>3 DEF Slot!SlotNext
  <2> QED
    BY <1>7, <2>7, <2>8
<1>8. CASE \/ group_write_down(t) \/ group_write_defer(t)
           \/ group_write_pend_down(t) \/ add_delayed_work_fail(t)
           \/ add_delayed_work_alloc(t) \/ add_delayed_work_down(t)
           \/ add_delayed_work_queue(t) \/ add_delayed_work_list(t)
           \/ group_write_return(t)
  <2>1. UNCHANGED <<max_storage_size, message_list, pending_list, fate>>
    BY <1>8 DEF group_write_down, group_write_defer, group_write_pend_down,
         add_delayed_work_fail, add_delayed_work_alloc,
         add_delayed_work_down, add_delayed_work_queue,
         add_delayed_work_list, group_write_return, Down, paramVars, listVars
  <2>2. /\ pc[t] \in ReservedPcs <=> pc'[t] \in ReservedPcs
        /\ pc[t] \in ReservedPcs => msg'[t] = msg[t]
    BY <1>0, <1>8 DEF group_write_down, group_write_defer,
         group_write_pend_down, add_delayed_work_fail,
         add_delayed_work_alloc, add_delayed_work_down,
         add_delayed_work_queue, add_delayed_work_list, group_write_return,
         Down, Goto, ReservedPcs
  <2>3. Reserved' = Reserved
    BY <1>1, <2>2, ReservedKept
  <2>4. Taken' = Taken /\ Refused' = Refused
    BY <1>0, <1>1, <2>1, TakenKept DEF Refused
  <2> QED
    BY <1>3, <2>1, <2>3, <2>4, SlotStutters
<1> QED
  BY <1>4, <1>5, <1>6, <1>7, <1>8 DEF WriteStep

(* group_read: Receive where the message is unlinked.                      *)
LEMMA ReadRefines ==
  ASSUME BaseInv, OnePlace, NEW t \in Readers,
         group_read_enter(t) \/ ReadStep(t)
  PROVE  [Slot!SlotNext]_(Slot!slotVars)
<1>0. /\ t \in Procs \ Writers /\ t # Worker /\ t \in DOMAIN pc
      /\ t \in DOMAIN msg /\ DOMAIN fate = Msgs
      /\ message_list \in Seq(Msgs)
  BY ThreadAssumption DEF BaseInv, MsgTypeOK, Procs, Callers
<1>1. Alone(t) /\ pending_list' = pending_list
  BY ReadAlone
<1>2. /\ \A u \in Readers \ {t} : pc'[u] = pc[u] /\ msg'[u] = msg[u]
      /\ pc'[Worker] = pc[Worker] /\ msg'[Worker] = msg[Worker]
  BY <1>0, <1>1 DEF Alone, Procs, Callers
<1>3. Delayed' = Delayed /\ Reserved' = Reserved
  BY <1>0, <1>1, <1>2, ReservedOther DEF Delayed, WorkerHand
<1>4. max_storage_size' = max_storage_size
  BY DEF ReadStep, group_read_enter, group_read_down, group_read_empty,
       group_read_look, group_read_take, group_read_copy, Down, paramVars
<1>5. CASE group_read_take(t)
  <2>1. /\ pc[t] = "r_take" /\ pc'[t] = "r_copy" /\ msg' = msg
        /\ message_list # <<>> /\ msg[t] = Head(message_list)
        /\ fate' = fate
    BY <1>0, <1>5 DEF group_read_take, Goto, BaseInv, HoldInv
  <2>2. message_list' = Tail(message_list)
    <3>1. list_del(Head(message_list), message_list) = Tail(message_list)
      BY <1>0, <2>1, DelOldest DEF OnePlace
    <3> QED
      BY <1>5, <2>1, <3>1 DEF group_read_take
  <2>3. Taken' = Taken \cup {Head(message_list)}
    BY <1>2, <2>1 DEF Taken
  <2>4. Refused' = Refused
    BY <2>1 DEF Refused
  <2>5. Slot!Receive
    BY <1>3, <1>4, <2>1, <2>2, <2>3, <2>4 DEF Slot!Receive, Refused
  <2> QED
    BY <2>5 DEF Slot!SlotNext
<1>6. CASE group_read_copy(t)
  <2>1. pc[t] = "r_copy" /\ pc'[t] = "idle" /\ message_list' = message_list
    BY <1>0, <1>6 DEF group_read_copy, Goto, listVars
  <2>2. Carries(t) /\ msg[t] \in Msgs /\ fate[msg[t]] = "live"
    BY <1>0, <2>1 DEF Carries, OnePlace
  <2>3. PICK o \in {"delivered", "lost"} : fate' = [fate EXCEPT ![msg[t]] = o]
    BY <1>6 DEF group_read_copy
  <2>4. {m \in Msgs : fate'[m] \in {"delivered", "lost"}}
          = {m \in Msgs : fate[m] \in {"delivered", "lost"}} \cup {msg[t]}
    BY <1>0, <2>2, <2>3
  <2>5. {msg[u] : u \in {r \in Readers : pc[r] = "r_copy"}}
          = {msg'[u] : u \in {r \in Readers : pc'[r] = "r_copy"}}
              \cup {msg[t]}
    BY <1>2, <2>1
  <2>6. Taken' = Taken
    BY <2>4, <2>5 DEF Taken
  <2>7. Refused' = Refused
    BY <1>0, <2>2, <2>3 DEF Refused
  <2> QED
    BY <1>3, <1>4, <2>1, <2>6, <2>7, SlotStutters
<1>7. CASE \/ group_read_enter(t) \/ group_read_down(t)
           \/ group_read_empty(t) \/ group_read_look(t)
  <2>1. message_list' = message_list /\ fate' = fate
    BY <1>7 DEF group_read_enter, group_read_down, group_read_empty,
         group_read_look, Down, listVars
  <2>2. pc[t] # "r_copy" /\ pc'[t] # "r_copy"
    BY <1>0, <1>7 DEF group_read_enter, group_read_down, group_read_empty,
         group_read_look, Down, Goto
  <2>3. Taken' = Taken /\ Refused' = Refused
    BY <1>2, <2>1, <2>2 DEF Taken, Refused
  <2> QED
    BY <1>3, <1>4, <2>1, <2>3, SlotStutters
<1> QED
  BY <1>5, <1>6, <1>7 DEF ReadStep

(* fflush_workqueue: Revoke where the lists are spliced; the message the   *)
(* worker is moving is the one the splice misses.                          *)
LEMMA FlushRefines ==
  ASSUME BaseInv, NEW t \in Revokers, fflush_enter(t) \/ FlushStep(t)
  PROVE  [Slot!SlotNext]_(Slot!slotVars)
<1>0. /\ t \in Procs \ Writers /\ t \in Procs \ Readers /\ t # Worker
      /\ message_list \in Seq(Msgs) /\ pending_list \in Seq(Msgs)
  BY ThreadAssumption DEF BaseInv, MsgTypeOK, Procs, Callers
<1>1. Alone(t) /\ fate' = fate /\ max_storage_size' = max_storage_size
  BY FlushAlone
<1>2. Reserved' = Reserved /\ Taken' = Taken /\ Refused' = Refused
  BY <1>0, <1>1, ReservedOther, TakenKept DEF Refused
<1>3. WorkerHand' = WorkerHand /\ msg'[Worker] = msg[Worker]
  BY <1>0, <1>1 DEF Alone, WorkerHand, Procs
<1>4. CASE _fflush_splice(t)
  <2>1. /\ message_list' = pending_list \o message_list
        /\ pending_list' = <<>>
    BY <1>4 DEF _fflush_splice, list_splice_tail
  <2>2. CASE WorkerHand = {}
    <3>1. Delayed = pending_list /\ Delayed' = <<>>
      BY <1>3, <2>1, <2>2, DelayedRange DEF Delayed
    <3>2. /\ SubSeq(pending_list, 0 + 1, Len(pending_list)) = pending_list
          /\ SubSeq(pending_list, 1, 0) = <<>> /\ 0 <= Len(pending_list)
      BY <1>0
    <3>3. Slot!Revoke(0)
      BY <1>1, <1>2, <2>1, <3>1, <3>2 DEF Slot!Revoke, Refused
    <3> QED
      BY <3>3 DEF Slot!SlotNext
  <2>3. CASE WorkerHand # {}
    <3>1. /\ Delayed = <<msg[Worker]>> \o pending_list /\ msg[Worker] \in Msgs
      BY <2>3, DelayedRange
    <3>2. Delayed' = <<msg[Worker]>>
      BY <1>3, <2>1, <2>3, <3>1 DEF Delayed
    <3>3. /\ SubSeq(Delayed, 1 + 1, Len(Delayed)) = pending_list
          /\ SubSeq(Delayed, 1, 1) = <<msg[Worker]>> /\ 1 <= Len(Delayed)
      BY <1>0, <3>1, OneBefore
    <3>4. Slot!Revoke(1)
      BY <1>1, <1>2, <2>1, <3>2, <3>3 DEF Slot!Revoke, Refused
    <3> QED
      BY <3>4 DEF Slot!SlotNext
  <2> QED
    BY <2>2, <2>3
<1>5. CASE ~_fflush_splice(t)
  <2>1. message_list' = message_list /\ pending_list' = pending_list
    BY <1>5 DEF FlushStep, fflush_enter, _fflush_pend_down,
         _fflush_msg_down, fflush_no_wq, fflush_down, set_flushing_load,
         set_flushing_store, fflush_first, fflush_unlink, fflush_flush,
         fflush_next, fflush_drain, clear_flushing_load,
         clear_flushing_store, Down, listVars
  <2>2. Delayed' = Delayed
    BY <1>3, <2>1 DEF Delayed
  <2> QED
    BY <1>1, <1>2, <2>1, <2>2, SlotStutters
<1> QED
  BY <1>4, <1>5

(* delayed_work_fun: Publish where the message enters message_list; taking *)
(* it from pending_list changes nothing, it stays the oldest delayed one.  *)
LEMMA WorkerRefines ==
  ASSUME BaseInv, OnePlace, WorkerStep
  PROVE  [Slot!SlotNext]_(Slot!slotVars)
<1>0. /\ Worker \in Procs \ Writers /\ Worker \in Procs \ Readers
      /\ Worker \in DOMAIN pc
      /\ message_list \in Seq(Msgs) /\ pending_list \in Seq(Msgs)
  BY ThreadAssumption DEF BaseInv, MsgTypeOK, Procs, Callers
<1>1. Alone(Worker) /\ fate' = fate /\ max_storage_size' = max_storage_size
  BY WorkerAlone
<1>2. Reserved' = Reserved /\ Taken' = Taken /\ Refused' = Refused
  BY <1>0, <1>1, ReservedOther, TakenKept DEF Refused
<1>3. CASE delayed_work_take
  <2>1. /\ pc[Worker] = "d_take" /\ pc'[Worker] = "d_mdown" /\ msg' = msg
        /\ pending_list # <<>> /\ msg[Worker] = Head(pending_list)
        /\ message_list' = message_list
    BY <1>0, <1>3 DEF delayed_work_take, Goto, BaseInv, HoldInv
  <2>2. pending_list' = Tail(pending_list)
    <3>1. list_del(Head(pending_list), pending_list) = Tail(pending_list)
      BY <1>0, <2>1, DelOldest DEF OnePlace
    <3> QED
      BY <1>3, <2>1, <3>1 DEF delayed_work_take
  <2>3. WorkerHand = {} /\ WorkerHand' = {msg[Worker]}
    BY <2>1 DEF WorkerHand
  <2>4. Delayed = pending_list
    BY <2>3, DelayedRange
  <2>5. Delayed' = <<Head(pending_list)>> \o Tail(pending_list)
    BY <2>1, <2>2, <2>3 DEF Delayed
  <2>6. <<Head(pending_list)>> \o Tail(pending_list) = pending_list
    BY <1>0, <2>1
  <2> QED
    BY <1>1, <1>2, <2>1, <2>4, <2>5, <2>6, SlotStutters
<1>4. CASE delayed_work_publish
  <2>1. /\ pc[Worker] = "d_add" /\ pc'[Worker] = "d_exit"
        /\ message_list' = Append(message_list, msg[Worker])
        /\ pending_list' = pending_list
    BY <1>0, <1>4 DEF delayed_work_publish, Goto, list_add
  <2>2. WorkerHand # {} /\ WorkerHand' = {}
    BY <2>1 DEF WorkerHand
  <2>3. /\ Head(Delayed) = msg[Worker] /\ Tail(Delayed) = pending_list
        /\ Delayed # <<>>
    BY <2>2, DelayedRange
  <2>4. Delayed' = pending_list
    <3>1. Delayed' = <<>> \o pending_list
      BY <2>1, <2>2 DEF Delayed
    <3> QED
      BY <1>0, <3>1
  <2>5. Slot!Publish
    BY <1>1, <1>2, <2>1, <2>3, <2>4 DEF Slot!Publish, Refused
  <2> QED
    BY <2>5 DEF Slot!SlotNext
<1>5. CASE delayed_work_msg_down
  <2>1. UNCHANGED <<message_list, pending_list, msg>>
    BY <1>5 DEF delayed_work_msg_down, Down, listVars
  <2>2. Delayed' = Delayed
    BY <1>0, <1>5, <2>1 DEF delayed_work_msg_down, Down, Goto, Delayed,
                            WorkerHand
  <2> QED
    BY <1>1, <1>2, <2>1, <2>2, SlotStutters
<1>6. CASE \/ worker_start \/ delayed_work_pend_down
           \/ delayed_work_empty \/ delayed_work_look
           \/ delayed_work_exit \/ delayed_work_unlink
           \/ delayed_work_free
  <2>1. message_list' = message_list /\ pending_list' = pending_list
    BY <1>6 DEF worker_start, delayed_work_pend_down, delayed_work_empty,
         delayed_work_look, delayed_work_exit, delayed_work_unlink,
         delayed_work_free, Down, listVars
  <2>2. WorkerHand = {} /\ WorkerHand' = {}
    BY <1>0, <1>6 DEF worker_start, delayed_work_pend_down,
         delayed_work_empty, delayed_work_look, delayed_work_exit,
         delayed_work_unlink, delayed_work_free, Down, Goto, WorkerHand
  <2>3. Delayed' = Delayed
    BY <2>1, <2>2 DEF Delayed
  <2> QED
    BY <1>1, <1>2, <2>1, <2>3, SlotStutters
<1> QED
  BY <1>3, <1>4, <1>5, <1>6 DEF WorkerStep

(* The parameter: Reconfigure, or a stutter when it does not change.       *)
LEMMA OtherRefines ==
  ASSUME BaseInv, OtherStep
  PROVE  [Slot!SlotNext]_(Slot!slotVars)
<1>1. UNCHANGED <<pc, msg, fate, message_list, pending_list>>
  BY NobodyMoves
<1>2. UNCHANGED <<Reserved, Delayed, message_list, Taken, Refused>>
  BY <1>1 DEF Reserved, Delayed, WorkerHand, Taken, Refused
<1>3. max_storage_size' = max_storage_size \/ max_storage_size' \in StorageSizes
  BY DEF OtherStep, timer_expire, _set_delay, set_max_storage_size,
         paramVars, msgVars, msgPriv
<1>4. CASE max_storage_size' = max_storage_size
  BY <1>2, <1>4, SlotStutters
<1>5. CASE /\ max_storage_size' # max_storage_size
           /\ max_storage_size' \in StorageSizes
  <2>1. Slot!Reconfigure(max_storage_size')
    BY <1>2, <1>5 DEF Slot!Reconfigure, Refused
  <2> QED
    BY <1>5, <2>1 DEF Slot!SlotNext
<1> QED
  BY <1>3, <1>4, <1>5

(* A new device is an empty mail slot. *)
LEMMA SlotInitMapped == MsgInit => Slot!SlotInit
<1> SUFFICES ASSUME MsgInit PROVE Slot!SlotInit
  OBVIOUS
<1>1. /\ Reserved = {} /\ Delayed = <<>> /\ message_list = <<>>
      /\ Taken = {} /\ Refused = {}
  BY DEF MsgInit, Reserved, Delayed, WorkerHand, Taken, Refused, Procs,
         Callers
<1> QED
  BY <1>1 DEF MsgInit, Slot!SlotInit, Refused

(* Every step is a step of the mail slot or a stutter. *)
LEMMA SlotStepMapped ==
  ASSUME BaseInv, OnePlace, CountInv, [MsgNext]_msgVars
  PROVE  [Slot!SlotNext]_(Slot!slotVars)
  BY WriteRefines, ReadRefines, FlushRefines, WorkerRefines, OtherRefines,
     StepKinds

(* For any number of threads and messages and any faults, a group device   *)
(* implements the bounded mail slot.  Where the code takes effect: a write *)
(* is accepted or refused at its test of max_storage_size, when            *)
(* messages_number is exactly the number of messages held (CountInv), and  *)
(* a message keeps its place among the delayed ones while the worker has   *)
(* it in neither list.                                                     *)
THEOREM MessagingImplementsMailSlot == MsgSpec => ImplementsMailSlot
<1>1. MsgInit /\ FlagsInit => Slot!SlotInit
  BY SlotInitMapped
<1>2. BaseInv /\ OnePlace /\ CountInv /\ [MsgNext]_msgVars
        => [Slot!SlotNext]_(Slot!slotVars)
  BY SlotStepMapped
<1> QED
  BY <1>1, <1>2, BaseCorrect, ExactlyOnce, CountInvCorrect, PTL
     DEF MsgSpec, MessagingInit, ImplementsMailSlot, Slot!SlotSpec
=============================================================================
