-------------------------- MODULE MessagingProofs --------------------------
(***************************************************************************)
(* Theorems about Messaging for any number of writers, readers, revokers   *)
(* and messages, any delays and storage sizes, and any of the faults.      *)
(***************************************************************************)
EXTENDS Messaging, TLAPS

-----------------------------------------------------------------------------
(* Facts about the list operations.                                        *)

(* An entry of a list is one of its elements. *)
LEMMA RangeDef ==
  ASSUME NEW S, NEW s \in Seq(S)
  PROVE  /\ Range(s) = {s[i] : i \in 1..Len(s)}
         /\ Range(s) \subseteq S
  BY DEF Range

(* The oldest entry is an entry. *)
LEMMA HeadInRange ==
  ASSUME NEW S, NEW s \in Seq(S), s # <<>>
  PROVE  Head(s) \in Range(s) /\ Head(s) \in S
  BY DEF Range

(* list_del returns a list of the same kind of entries. *)
LEMMA ListDelType ==
  ASSUME NEW S, NEW s \in Seq(S), NEW e
  PROVE  list_del(e, s) \in Seq(S)
<1>1. CASE e \notin Range(s)
  BY <1>1 DEF list_del
<1>2. CASE e \in Range(s)
  <2> DEFINE i == CHOOSE j \in DOMAIN s : s[j] = e
  <2>1. i \in 1..Len(s)
    BY <1>2 DEF Range
  <2>2. list_del(e, s) = RemoveAt(s, i)
    BY <1>2 DEF list_del
  <2> HIDE DEF i
  <2>3. SubSeq(s, 1, i - 1) \in Seq(S) /\ SubSeq(s, i + 1, Len(s)) \in Seq(S)
    BY <2>1
  <2> QED
    BY <2>2, <2>3 DEF RemoveAt
<1> QED
  BY <1>1, <1>2

(* PrevEntry returns an entry of the list, or NULL. *)
LEMMA PrevEntryType ==
  ASSUME NEW S, NEW s \in Seq(S), NEW e
  PROVE  PrevEntry(s, e) \in S \cup {NULL}
<1> DEFINE I == {i \in DOMAIN s : i > 1 /\ s[i - 1] = e}
<1>1. CASE I = {}
  BY <1>1 DEF PrevEntry
<1>2. CASE I # {}
  <2>1. (CHOOSE i \in I : TRUE) \in I
    BY <1>2
  <2>2. PrevEntry(s, e) = s[CHOOSE i \in I : TRUE]
    BY <1>2 DEF PrevEntry
  <2> QED
    BY <2>1, <2>2
<1> QED
  BY <1>1, <1>2

(* The unsigned conversions stay in range. *)
LEMMA UintType ==
  ASSUME NEW n \in Int
  PROVE  uint(n) \in 0 .. UINT_RANGE - 1 /\ msecs_to_jiffies(n) \in Nat
<1>1. uint(n) \in 0 .. UINT_RANGE - 1
  BY ParamAssumption DEF uint
<1>2. msecs_to_jiffies(n) \in Nat
  BY <1>1, ParamAssumption DEF msecs_to_jiffies
<1> QED
  BY <1>1, <1>2

-----------------------------------------------------------------------------
(* The inductive invariant, first part: who holds which semaphore, and     *)
(* which local variables have a value.                                     *)

MessageCS == {"w_check", "w_store", "r_look", "r_take", "f_splice", "d_add"}
PendingCS == {"p_add", "f_mdown", "f_splice", "d_look", "d_take"}
WqCS      == {"q_work", "l_add", "f_load", "f_set", "f_first", "f_unlink",
              "f_flush", "f_wait", "f_drain", "f_cload", "f_clear"}

(* A process between down and up holds the semaphore. *)
LockInv ==
  \A p \in Procs :
    /\ pc[p] \in MessageCS => sem["message_sem"] = p
    /\ pc[p] \in PendingCS => sem["pending_sem"] = p
    /\ pc[p] \in WqCS => sem["wq_sem"] = p

(* msg, running and pos are set where the code dereferences them, and the  *)
(* message about to be unlinked is the oldest of its list.                 *)
HoldInv ==
  /\ \A p \in Procs :
       pc[p] \in WritePcs \cup {"r_take", "r_copy", "d_take", "d_mdown", "d_add"}
         => msg[p] \in Msgs
  /\ pc[Worker] # "idle" => running \in Msgs
  /\ \A t \in Revokers :
       pc[t] \in {"f_unlink", "f_flush", "f_wait"} => pos \in Msgs
  /\ \A t \in Readers : pc[t] = "r_take" =>
       message_list # <<>> /\ msg[t] = Head(message_list)
  /\ pc[Worker] = "d_take" =>
       pending_list # <<>> /\ msg[Worker] = Head(pending_list)

BaseInv == MsgTypeOK /\ LockInv /\ HoldInv

(* BaseInv holds in a new device. *)
LEMMA BaseInit == MsgInit /\ FlagsInit => BaseInv
<1> SUFFICES ASSUME MsgInit, FlagsInit PROVE BaseInv
  OBVIOUS
<1> USE DEF MsgInit, NULL
<1>1. delay_wq \in BOOLEAN
  OBVIOUS
<1>2. pc = [p \in Procs |-> "idle"] /\ msg = [p \in Procs |-> NULL]
  OBVIOUS
<1>3. MsgTypeOK
  <2>1. /\ flags \subseteq Bits /\ reg \subseteq Bits
        /\ message_list \in Seq(Msgs) /\ pending_list \in Seq(Msgs)
        /\ stored \in Seq(Msgs) /\ delay_list \in Seq(Msgs)
        /\ queue \in Seq(Msgs) /\ poisoned \subseteq Msgs
    BY DEF FlagsInit
  <2>2. messages_number \in 0 .. UINT_RANGE - 1 /\ delay \in Nat
    BY ParamAssumption
  <2>3. sem \in [{"message_sem", "pending_sem", "wq_sem"}
                   -> Procs \cup {NoProc}]
    OBVIOUS
  <2>4. /\ work \in [Msgs -> {"none", "timer", "queued", "running", "freed"}]
        /\ fate \in [Msgs -> {"unborn", "live", "rejected", "delivered",
                               "lost"}]
        /\ owed \in [Revokers -> SUBSET Msgs]
        /\ corrupted \in BOOLEAN
    OBVIOUS
  <2> QED
    BY <1>1, <1>2, <2>1, <2>2, <2>3, <2>4 DEF MsgTypeOK, Procs, Callers
<1>4. LockInv /\ HoldInv
  BY <1>2 DEF LockInv, HoldInv, Procs, Callers, MessageCS, PendingCS, WqCS,
              WritePcs
<1> QED
  BY <1>3, <1>4 DEF BaseInv

(* A step of group_write preserves BaseInv.                                *)
LEMMA BaseWrite ==
  ASSUME BaseInv, NEW t \in Writers,
         group_write_enter(t) \/ WriteStep(t)
  PROVE  BaseInv'
<1> USE ThreadAssumption, ParamAssumption
    DEF BaseInv, MsgTypeOK, LockInv, HoldInv, Procs, Callers, WritePcs,
        ReadPcs, FlushPcs, WorkerPcs, MessageCS, PendingCS, WqCS, NULL, Goto,
        Up, Down, listVars, paramVars, workVars, flushVars
<1>1. CASE group_write_enter(t)
  BY <1>1 DEF group_write_enter
<1>2. CASE group_write_down(t)
  BY <1>2 DEF group_write_down
<1>3. CASE group_write_fail(t)
  BY <1>3 DEF group_write_fail
<1>4. CASE group_write_accept(t)
  BY <1>4 DEF group_write_accept
<1>5. CASE group_write_publish(t)
  <2>1. messages_number' \in 0 .. UINT_RANGE - 1
    BY <1>5, UintType DEF group_write_publish
  <2> QED
    <3>1. message_list' \in Seq(Msgs) /\ stored' \in Seq(Msgs)
      BY <1>5 DEF group_write_publish, list_add
    <3>2. MsgTypeOK'
      BY <1>5, <2>1, <3>1 DEF group_write_publish
    <3>3. LockInv'
      BY <1>5 DEF group_write_publish
    <3>4. \A r \in Readers : pc'[r] # "r_take"
      BY <1>5 DEF group_write_publish
    <3>5. HoldInv'
      BY <1>5, <3>4 DEF group_write_publish
    <3> QED
      BY <3>2, <3>3, <3>5
<1>6. CASE group_write_defer(t)
  <2>1. messages_number' \in 0 .. UINT_RANGE - 1
    BY <1>6, UintType DEF group_write_defer
  <2> QED
    BY <1>6, <2>1 DEF group_write_defer
<1>7. CASE group_write_pend_down(t)
  BY <1>7 DEF group_write_pend_down
<1>8. CASE group_write_pend(t)
  BY <1>8 DEF group_write_pend, list_add
<1>9. CASE group_write_return(t)
  BY <1>9 DEF group_write_return
<1>10. CASE add_delayed_work_fail(t)
  BY <1>10 DEF add_delayed_work_fail
<1>11. CASE add_delayed_work_alloc(t)
  BY <1>11 DEF add_delayed_work_alloc
<1>12. CASE add_delayed_work_down(t)
  BY <1>12 DEF add_delayed_work_down
<1>13. CASE add_delayed_work_queue(t)
  BY <1>13 DEF add_delayed_work_queue
<1>14. CASE add_delayed_work_list(t)
  <2>1. corrupted' \in BOOLEAN
    BY <1>14 DEF add_delayed_work_list
  <2>2. delay_list' \in Seq(Msgs) /\ poisoned' \subseteq Msgs
    BY <1>14 DEF add_delayed_work_list, list_add
  <2> QED
    BY <1>14, <2>1, <2>2 DEF add_delayed_work_list
<1> QED
  BY <1>1, <1>2, <1>3, <1>4, <1>5, <1>6, <1>7, <1>8, <1>9, <1>10, <1>11, <1>12, <1>13, <1>14 DEF WriteStep

(* A step of group_read preserves BaseInv.                                 *)
LEMMA BaseRead ==
  ASSUME BaseInv, NEW t \in Readers,
         group_read_enter(t) \/ ReadStep(t)
  PROVE  BaseInv'
<1> USE ThreadAssumption, ParamAssumption
    DEF BaseInv, MsgTypeOK, LockInv, HoldInv, Procs, Callers, WritePcs,
        ReadPcs, FlushPcs, WorkerPcs, MessageCS, PendingCS, WqCS, NULL, Goto,
        Up, Down, listVars, paramVars, workVars, flushVars
<1>1. CASE group_read_enter(t)
  BY <1>1 DEF group_read_enter
<1>2. CASE group_read_down(t)
  BY <1>2 DEF group_read_down
<1>3. CASE group_read_empty(t)
  BY <1>3 DEF group_read_empty
<1>4. CASE group_read_look(t)
  BY <1>4, HeadInRange DEF group_read_look, list_last_entry
<1>5. CASE group_read_take(t)
  <2>1. messages_number' \in 0 .. UINT_RANGE - 1
    BY <1>5, UintType DEF group_read_take
  <2>2. message_list' \in Seq(Msgs)
    BY <1>5, ListDelType DEF group_read_take
  <2> QED
    BY <1>5, <2>1, <2>2 DEF group_read_take
<1>6. CASE group_read_copy(t)
  BY <1>6 DEF group_read_copy
<1> QED
  BY <1>1, <1>2, <1>3, <1>4, <1>5, <1>6 DEF ReadStep

(* A step of fflush_workqueue preserves BaseInv.                           *)
LEMMA BaseFlush ==
  ASSUME BaseInv, NEW t \in Revokers,
         fflush_enter(t) \/ FlushStep(t)
  PROVE  BaseInv'
<1> USE ThreadAssumption, ParamAssumption
    DEF BaseInv, MsgTypeOK, LockInv, HoldInv, Procs, Callers, WritePcs,
        ReadPcs, FlushPcs, WorkerPcs, MessageCS, PendingCS, WqCS, NULL, Goto,
        Up, Down, listVars, paramVars, workVars, flushVars
<1>1. CASE fflush_enter(t)
  BY <1>1, RangeDef DEF fflush_enter, WorkerHand
<1>2. CASE _fflush_pend_down(t)
  BY <1>2 DEF _fflush_pend_down
<1>3. CASE _fflush_msg_down(t)
  BY <1>3 DEF _fflush_msg_down
<1>4. CASE _fflush_splice(t)
  <2>1. message_list' \in Seq(Msgs) /\ stored' \in Seq(Msgs)
    BY <1>4 DEF _fflush_splice, list_splice_tail
  <2>2. MsgTypeOK'
    BY <1>4, <2>1 DEF _fflush_splice
  <2>3. LockInv'
    <3>1. sem["message_sem"] = t /\ sem["pending_sem"] = t
      BY <1>4 DEF _fflush_splice
    <3>2. \A p \in Procs : p # t => pc[p] \notin MessageCS \cup PendingCS
      BY <3>1
    <3>3. \A p \in Procs : p # t => pc'[p] = pc[p]
      BY <1>4 DEF _fflush_splice
    <3>4. pc'[t] = "f_check" /\ sem'["wq_sem"] = sem["wq_sem"]
      BY <1>4 DEF _fflush_splice
    <3>5. ASSUME NEW p \in Procs
          PROVE  /\ pc'[p] \notin MessageCS \cup PendingCS
                 /\ pc'[p] \in WqCS => sem'["wq_sem"] = p
      <4>1. CASE p = t
        BY <3>4, <4>1
      <4>2. CASE p # t
        BY <3>2, <3>3, <3>4, <4>2
      <4> QED
        BY <4>1, <4>2
    <3> QED
      BY <3>5
  <2>4. pc'[Worker] # "d_take" /\ \A r \in Readers : pc'[r] # "r_take"
    BY <1>4 DEF _fflush_splice
  <2>5. HoldInv'
    BY <1>4, <2>4 DEF _fflush_splice
  <2> QED
    BY <2>2, <2>3, <2>5
<1>5. CASE fflush_no_wq(t)
  BY <1>5 DEF fflush_no_wq
<1>6. CASE fflush_down(t)
  BY <1>6 DEF fflush_down
<1>7. CASE set_flushing_load(t)
  BY <1>7 DEF set_flushing_load
<1>8. CASE set_flushing_store(t)
  BY <1>8 DEF set_flushing_store, set_bit, Bits
<1>9. CASE fflush_first(t)
  <2>1. delay_list # <<>> => Head(delay_list) \in Msgs
    BY HeadInRange
  <2>2. pos' \in Msgs \cup {NULL} /\ q' \in Msgs \cup {NULL}
    BY <1>9, <2>1, PrevEntryType DEF fflush_first
  <2>3. MsgTypeOK'
    BY <1>9, <2>2 DEF fflush_first
  <2>4. LockInv'
    BY <1>9 DEF fflush_first
  <2>5. HoldInv'
    BY <1>9, <2>1 DEF fflush_first
  <2> QED
    BY <2>3, <2>4, <2>5
<1>10. CASE fflush_unlink(t)
  <2>1. delay_list' \in Seq(Msgs) /\ poisoned' \subseteq Msgs
    BY <1>10, ListDelType DEF fflush_unlink
  <2>2. corrupted' \in BOOLEAN
    BY <1>10 DEF fflush_unlink
  <2>3. MsgTypeOK'
    BY <1>10, <2>1, <2>2 DEF fflush_unlink
  <2>4. LockInv' /\ HoldInv'
    BY <1>10 DEF fflush_unlink
  <2> QED
    BY <2>3, <2>4
<1>11. CASE fflush_flush(t)
  BY <1>11 DEF fflush_flush
<1>12. CASE fflush_next(t)
  BY <1>12, PrevEntryType DEF fflush_next
<1>13. CASE fflush_drain(t)
  BY <1>13 DEF fflush_drain
<1>14. CASE clear_flushing_load(t)
  BY <1>14 DEF clear_flushing_load
<1>15. CASE clear_flushing_store(t)
  BY <1>15 DEF clear_flushing_store, clear_bit
<1> QED
  BY <1>1, <1>2, <1>3, <1>4, <1>5, <1>6, <1>7, <1>8, <1>9, <1>10, <1>11, <1>12, <1>13, <1>14, <1>15 DEF FlushStep

(* A step of the workqueue thread preserves BaseInv.                       *)
LEMMA BaseWorker ==
  ASSUME BaseInv,
         WorkerStep
  PROVE  BaseInv'
<1> USE ThreadAssumption, ParamAssumption
    DEF BaseInv, MsgTypeOK, LockInv, HoldInv, Procs, Callers, WritePcs,
        ReadPcs, FlushPcs, WorkerPcs, MessageCS, PendingCS, WqCS, NULL, Goto,
        Up, Down, listVars, paramVars, workVars, flushVars
<1>1. CASE worker_start
  BY <1>1 DEF worker_start
<1>2. CASE delayed_work_pend_down
  BY <1>2 DEF delayed_work_pend_down
<1>3. CASE delayed_work_empty
  BY <1>3 DEF delayed_work_empty
<1>4. CASE delayed_work_look
  BY <1>4, HeadInRange DEF delayed_work_look, list_last_entry
<1>5. CASE delayed_work_take
  BY <1>5, ListDelType DEF delayed_work_take
<1>6. CASE delayed_work_msg_down
  BY <1>6 DEF delayed_work_msg_down
<1>7. CASE delayed_work_publish
  BY <1>7 DEF delayed_work_publish, list_add
<1>8. CASE delayed_work_exit
  BY <1>8 DEF delayed_work_exit
<1>9. CASE delayed_work_unlink
  BY <1>9, ListDelType DEF delayed_work_unlink
<1>10. CASE delayed_work_free
  BY <1>10 DEF delayed_work_free
<1> QED
  BY <1>1, <1>2, <1>3, <1>4, <1>5, <1>6, <1>7, <1>8, <1>9, <1>10 DEF WorkerStep

(* Entering a call, an expiring timer and the parameters preserve BaseInv. *)
LEMMA BaseOther ==
  ASSUME BaseInv,
         \/ \E w \in Msgs : timer_expire(w)
         \/ \E arg \in DelayArgs : _set_delay(arg)
         \/ \E n \in StorageSizes : set_max_storage_size(n)
         \/ UNCHANGED msgVars
  PROVE  BaseInv'
<1> USE DEF BaseInv, MsgTypeOK, LockInv, HoldInv, listVars, paramVars,
            workVars, flushVars
<1>1. CASE \E w \in Msgs : timer_expire(w)
  BY <1>1 DEF timer_expire
<1>2. CASE \E arg \in DelayArgs : _set_delay(arg)
  <2>1. PICK arg \in DelayArgs : _set_delay(arg)
    BY <1>2
  <2>2. delay' \in Nat
    BY <2>1, UintType, ParamAssumption DEF _set_delay
  <2> QED
    BY <2>1, <2>2 DEF _set_delay
<1>3. CASE \E n \in StorageSizes : set_max_storage_size(n)
  BY <1>3 DEF set_max_storage_size
<1>4. CASE UNCHANGED msgVars
  BY <1>4 DEF msgVars, msgPriv
<1> QED
  BY <1>1, <1>2, <1>3, <1>4

(* Every step preserves BaseInv.                                           *)
LEMMA BaseStep == BaseInv /\ [MsgNext]_msgVars => BaseInv'
  BY BaseWrite, BaseRead, BaseFlush, BaseWorker, BaseOther
     DEF MsgNext, EnterCall

(* BaseInv is an invariant of the device.                                  *)
LEMMA BaseCorrect == MsgSpec => []BaseInv
  BY BaseInit, BaseStep, PTL DEF MsgSpec, MessagingInit

(* Type correctness of the device.  It needs the semaphores: the loop      *)
(* variables of fflush_workqueue and the message a reader or the worker    *)
(* unlinks have a value because nobody else changed the list in between.   *)
THEOREM MsgTypeCorrect == MsgSpec => []MsgTypeOK
<1>1. BaseInv => MsgTypeOK
  BY DEF BaseInv
<1> QED
  BY <1>1, BaseCorrect, PTL

-----------------------------------------------------------------------------
(* Adding, removing and joining distinct entries.                          *)

(* list_add of a new entry keeps the entries distinct.                     *)
LEMMA AddEntry ==
  ASSUME NEW S, NEW s \in Seq(S), NEW e \in S \ Range(s), IsInjective(s)
  PROVE  /\ Range(Append(s, e)) = Range(s) \cup {e}
         /\ IsInjective(Append(s, e))
  BY DEF Range, IsInjective

(* list_del of the oldest entry removes that entry and no other.           *)
LEMMA DelOldest ==
  ASSUME NEW S, NEW s \in Seq(S), s # <<>>, IsInjective(s)
  PROVE  /\ list_del(Head(s), s) = Tail(s)
         /\ Range(Tail(s)) = Range(s) \ {Head(s)}
         /\ IsInjective(Tail(s))
<1>1. Len(s) \in Nat \ {0} /\ Head(s) = s[1]
  OBVIOUS
<1>2. (CHOOSE j \in DOMAIN s : s[j] = Head(s)) = 1
  BY <1>1 DEF IsInjective
<1>3. list_del(Head(s), s) = RemoveAt(s, 1)
  <2>1. Head(s) \in Range(s)
    BY HeadInRange
  <2> QED
    BY <1>2, <2>1 DEF list_del
<1>4. RemoveAt(s, 1) = Tail(s)
  BY <1>1 DEF RemoveAt
<1>5. /\ DOMAIN Tail(s) = 1 .. Len(s) - 1
      /\ \A i \in 1 .. Len(s) - 1 : Tail(s)[i] = s[i + 1]
  BY <1>1
<1>6. IsInjective(Tail(s))
  BY <1>1, <1>5 DEF IsInjective
<1>7. ASSUME NEW x \in Range(Tail(s)) PROVE x \in Range(s) \ {Head(s)}
  <2>1. PICK i \in 1 .. Len(s) - 1 : x = s[i + 1]
    BY <1>5 DEF Range
  <2>2. i + 1 \in DOMAIN s /\ 1 \in DOMAIN s /\ i + 1 # 1
    BY <1>1
  <2> QED
    BY <1>1, <2>1, <2>2 DEF Range, IsInjective
<1>8. ASSUME NEW x \in Range(s) \ {Head(s)} PROVE x \in Range(Tail(s))
  <2>1. PICK i \in 1 .. Len(s) : x = s[i] /\ i # 1
    BY <1>1 DEF Range
  <2>2. i - 1 \in 1 .. Len(s) - 1 /\ Tail(s)[i - 1] = x
    BY <1>1, <1>5, <2>1
  <2> QED
    BY <1>5, <2>2 DEF Range
<1> QED
  BY <1>3, <1>4, <1>6, <1>7, <1>8

(* Splicing two lists without a common entry keeps the entries distinct.   *)
LEMMA JoinLists ==
  ASSUME NEW S, NEW s \in Seq(S), NEW r \in Seq(S),
         IsInjective(s), IsInjective(r), Range(s) \cap Range(r) = {}
  PROVE  /\ Range(s \o r) = Range(s) \cup Range(r)
         /\ IsInjective(s \o r)
<1>1. /\ DOMAIN (s \o r) = 1 .. Len(s) + Len(r)
      /\ \A i \in 1 .. Len(s) + Len(r) :
           (s \o r)[i] = IF i <= Len(s) THEN s[i] ELSE r[i - Len(s)]
  OBVIOUS
<1>2. Range(s \o r) \subseteq Range(s) \cup Range(r)
  BY <1>1 DEF Range
<1>3. ASSUME NEW x \in Range(s) PROVE x \in Range(s \o r)
  BY <1>1 DEF Range
<1>4. ASSUME NEW x \in Range(r) PROVE x \in Range(s \o r)
  <2>1. PICK i \in 1 .. Len(r) : x = r[i]
    BY DEF Range
  <2>2. /\ i + Len(s) \in 1 .. Len(s) + Len(r)
        /\ (s \o r)[i + Len(s)] = x
    BY <1>1, <2>1
  <2> QED
    BY <1>1, <2>2 DEF Range
<1>5. ASSUME NEW i \in 1 .. Len(s) + Len(r), NEW j \in 1 .. Len(s) + Len(r),
             (s \o r)[i] = (s \o r)[j]
      PROVE  i = j
  <2>1. CASE i <= Len(s) /\ j <= Len(s)
    BY <1>1, <1>5, <2>1 DEF IsInjective
  <2>2. CASE i > Len(s) /\ j > Len(s)
    BY <1>1, <1>5, <2>2 DEF IsInjective
  <2>3. CASE i <= Len(s) /\ j > Len(s)
    <3>1. s[i] \in Range(s) /\ r[j - Len(s)] \in Range(r)
      BY <2>3 DEF Range
    <3> QED
      BY <1>1, <1>5, <2>3, <3>1
  <2>4. CASE i > Len(s) /\ j <= Len(s)
    <3>1. r[i - Len(s)] \in Range(r) /\ s[j] \in Range(s)
      BY <2>4 DEF Range
    <3> QED
      BY <1>1, <1>5, <2>4, <3>1
  <2> QED
    BY <2>1, <2>2, <2>3, <2>4
<1> QED
  BY <1>1, <1>2, <1>3, <1>4, <1>5 DEF IsInjective

-----------------------------------------------------------------------------
(* Exactly-once.                                                           *)

(* A step that moves no message preserves OnePlace. *)
LEMMA NoMove ==
  ASSUME OnePlace, message_list' = message_list, pending_list' = pending_list,
         fate' = fate,
         \A p \in Procs : Carries(p)' <=> Carries(p),
         \A p \in Procs : Carries(p) => msg'[p] = msg[p]
  PROVE  OnePlace'
  BY DEF OnePlace

(* Most statements of a write move no message. *)
LEMMA QuietWrite ==
  ASSUME BaseInv, OnePlace, NEW t \in Writers,
         \/ group_write_down(t) \/ group_write_accept(t)
         \/ group_write_defer(t) \/ group_write_pend_down(t)
         \/ group_write_return(t) \/ add_delayed_work_fail(t)
         \/ add_delayed_work_alloc(t) \/ add_delayed_work_down(t)
         \/ add_delayed_work_queue(t) \/ add_delayed_work_list(t)
  PROVE  OnePlace'
<1>1. /\ message_list' = message_list /\ pending_list' = pending_list
      /\ fate' = fate
  BY DEF group_write_down, group_write_accept, group_write_defer,
         group_write_pend_down, group_write_return, add_delayed_work_fail,
         add_delayed_work_alloc, add_delayed_work_down,
         add_delayed_work_queue, add_delayed_work_list, Down, listVars
<1>2. \A p \in Procs : Carries(p)' <=> Carries(p)
  <2> USE DEF Carries, BaseInv, MsgTypeOK, Goto, Down
  <2>1. CASE \/ group_write_down(t) \/ group_write_accept(t)
             \/ group_write_defer(t) \/ group_write_pend_down(t)
    BY <2>1 DEF group_write_down, group_write_accept, group_write_defer,
                group_write_pend_down
  <2>2. CASE \/ group_write_return(t) \/ add_delayed_work_fail(t)
             \/ add_delayed_work_alloc(t)
    BY <2>2 DEF group_write_return, add_delayed_work_fail,
                add_delayed_work_alloc
  <2>3. CASE add_delayed_work_down(t) \/ add_delayed_work_queue(t)
    BY <2>3 DEF add_delayed_work_down, add_delayed_work_queue
  <2>4. CASE add_delayed_work_list(t)
    BY <2>4 DEF add_delayed_work_list
  <2> QED
    BY <2>1, <2>2, <2>3, <2>4
<1>3. \A p \in Procs : Carries(p) => msg'[p] = msg[p]
  BY DEF group_write_down, group_write_accept, group_write_defer,
         group_write_pend_down, group_write_return, add_delayed_work_fail,
         add_delayed_work_alloc, add_delayed_work_down,
         add_delayed_work_queue, add_delayed_work_list, Down, Goto,
         Carries, BaseInv, MsgTypeOK
<1> QED
  BY <1>1, <1>2, <1>3, NoMove

(* The steps of group_read that move no message.                           *)
LEMMA QuietRead ==
  ASSUME BaseInv, OnePlace, NEW t \in Readers,
         \/ group_read_enter(t) \/ group_read_down(t)
         \/ group_read_empty(t) \/ group_read_look(t)
  PROVE  OnePlace'
<1> USE DEF group_read_enter, group_read_down, group_read_empty,
            group_read_look, Down
<1>1. /\ message_list' = message_list /\ pending_list' = pending_list
      /\ fate' = fate
  BY DEF listVars
<1>2. \A p \in Procs : Carries(p)' <=> Carries(p)
  BY DEF Goto, Carries, BaseInv, MsgTypeOK
<1>3. \A p \in Procs : Carries(p) => msg'[p] = msg[p]
  BY DEF Goto, Carries, BaseInv, MsgTypeOK
<1> QED
  BY <1>1, <1>2, <1>3, NoMove

(* The steps of fflush_workqueue that move no message.                     *)
LEMMA QuietFlush ==
  ASSUME BaseInv, OnePlace, NEW t \in Revokers,
         fflush_enter(t) \/ FlushStep(t), ~_fflush_splice(t)
  PROVE  OnePlace'
<1> USE DEF FlushStep, fflush_enter, _fflush_pend_down, _fflush_msg_down,
            fflush_no_wq, fflush_down, set_flushing_load,
            set_flushing_store, fflush_first, fflush_unlink, fflush_flush,
            fflush_next, fflush_drain, clear_flushing_load,
            clear_flushing_store, Down
<1>1. /\ message_list' = message_list /\ pending_list' = pending_list
      /\ fate' = fate /\ msg' = msg
  BY DEF listVars
<1>2. \A p \in Procs : p # t => pc'[p] = pc[p]
  BY DEF Goto, BaseInv, MsgTypeOK
<1>3. ~Carries(t) /\ ~Carries(t)'
  <2>1. pc[t] \in {"idle"} \cup FlushPcs /\ pc'[t] \in {"idle"} \cup FlushPcs
    BY BaseFlush DEF BaseInv, MsgTypeOK
  <2> QED
    BY <2>1 DEF Carries, FlushPcs
<1>4. \A p \in Procs : Carries(p)' <=> Carries(p)
  BY <1>2, <1>3 DEF Carries
<1> QED
  BY <1>1, <1>4, NoMove

(* The steps of the workqueue thread that move no message.                 *)
LEMMA QuietWorker ==
  ASSUME BaseInv, OnePlace,
         \/ worker_start \/ delayed_work_pend_down \/ delayed_work_empty
         \/ delayed_work_look \/ delayed_work_msg_down
         \/ delayed_work_exit \/ delayed_work_unlink \/ delayed_work_free
  PROVE  OnePlace'
<1> USE DEF worker_start, delayed_work_pend_down, delayed_work_empty,
            delayed_work_look, delayed_work_msg_down, delayed_work_exit,
            delayed_work_unlink, delayed_work_free, Down
<1>1. /\ message_list' = message_list /\ pending_list' = pending_list
      /\ fate' = fate
  BY DEF listVars
<1>2. \A p \in Procs : Carries(p)' <=> Carries(p)
  BY DEF Goto, Carries, BaseInv, MsgTypeOK
<1>3. \A p \in Procs : Carries(p) => msg'[p] = msg[p]
  BY DEF Goto, Carries, BaseInv, MsgTypeOK
<1> QED
  BY <1>1, <1>2, <1>3, NoMove

(* An expiring timer, a parameter or a stutter moves no message.           *)
LEMMA QuietOther ==
  ASSUME BaseInv, OnePlace,
         \/ \E w \in Msgs : timer_expire(w)
         \/ \E arg \in DelayArgs : _set_delay(arg)
         \/ \E n \in StorageSizes : set_max_storage_size(n)
         \/ UNCHANGED msgVars
  PROVE  OnePlace'
<1>1. /\ message_list' = message_list /\ pending_list' = pending_list
      /\ fate' = fate /\ msg' = msg /\ pc' = pc
  BY DEF timer_expire, _set_delay, set_max_storage_size, msgVars, msgPriv,
         listVars
<1>2. \A p \in Procs : Carries(p)' <=> Carries(p)
  BY <1>1 DEF Carries
<1> QED
  BY <1>1, <1>2, NoMove

(* The other processes carry what they carried. *)
OthersKeep(p) ==
  \A r \in Procs \ {p} : (Carries(r)' <=> Carries(r)) /\ msg'[r] = msg[r]

(* A process puts the message it carries in one of the lists. *)
LEMMA PutMessage ==
  ASSUME MsgTypeOK, OnePlace, NEW p \in Procs, Carries(p), ~Carries(p)',
         OthersKeep(p), fate' = fate,
         \/ /\ message_list' = Append(message_list, msg[p])
            /\ pending_list' = pending_list
         \/ /\ pending_list' = Append(pending_list, msg[p])
            /\ message_list' = message_list
  PROVE  OnePlace'
<1> DEFINE m == msg[p]
<1>1. m \in Msgs /\ m \notin Range(message_list) \cup Range(pending_list)
  BY DEF OnePlace
<1>2. /\ IsInjective(message_list') /\ IsInjective(pending_list')
      /\ Range(message_list') \cap Range(pending_list') = {}
      /\ Range(message_list') \cup Range(pending_list')
           = Range(message_list) \cup Range(pending_list) \cup {m}
  <2>1. /\ Range(Append(message_list, m)) = Range(message_list) \cup {m}
        /\ IsInjective(Append(message_list, m))
    BY <1>1, AddEntry DEF MsgTypeOK, OnePlace
  <2>2. /\ Range(Append(pending_list, m)) = Range(pending_list) \cup {m}
        /\ IsInjective(Append(pending_list, m))
    BY <1>1, AddEntry DEF MsgTypeOK, OnePlace
  <2>3. CASE /\ message_list' = Append(message_list, m)
             /\ pending_list' = pending_list
    BY <1>1, <2>1, <2>3 DEF OnePlace
  <2>4. CASE /\ pending_list' = Append(pending_list, m)
             /\ message_list' = message_list
    BY <1>1, <2>2, <2>4 DEF OnePlace
  <2> QED
    BY <2>3, <2>4
<1>3. \A r \in Procs : Carries(r)' => /\ r # p /\ Carries(r)
                                      /\ msg'[r] = msg[r] /\ msg[r] # m
  BY DEF OthersKeep, OnePlace
<1>4. \A r \in Procs : Carries(r)' =>
        /\ msg'[r] \in Msgs
        /\ msg'[r] \notin Range(message_list') \cup Range(pending_list')
        /\ \A u \in Procs : Carries(u)' /\ msg'[u] = msg'[r] => u = r
  BY <1>2, <1>3 DEF OnePlace
<1>5. \A k \in Msgs : fate'[k] = "live" <=>
        \/ k \in Range(message_list') \cup Range(pending_list')
        \/ \E r \in Procs : Carries(r)' /\ msg'[r] = k
  <2> TAKE k \in Msgs
  <2>1. CASE k = m
    BY <1>2, <2>1 DEF OnePlace
  <2>2. CASE k # m
    <3>1. (\E r \in Procs : Carries(r)' /\ msg'[r] = k)
            <=> (\E r \in Procs : Carries(r) /\ msg[r] = k)
      BY <1>3, <2>2 DEF OthersKeep
    <3> QED
      BY <1>2, <2>2, <3>1 DEF OnePlace
  <2> QED
    BY <2>1, <2>2
<1> QED
  BY <1>2, <1>4, <1>5 DEF OnePlace

(* A process takes the oldest message of one of the lists. *)
LEMMA TakeMessage ==
  ASSUME MsgTypeOK, OnePlace, NEW p \in Procs, ~Carries(p), Carries(p)',
         OthersKeep(p), fate' = fate, msg'[p] = msg[p],
         \/ /\ message_list # <<>> /\ msg[p] = Head(message_list)
            /\ message_list' = list_del(msg[p], message_list)
            /\ pending_list' = pending_list
         \/ /\ pending_list # <<>> /\ msg[p] = Head(pending_list)
            /\ pending_list' = list_del(msg[p], pending_list)
            /\ message_list' = message_list
  PROVE  OnePlace'
<1> DEFINE m == msg[p]
<1>1. /\ m \in Msgs
      /\ IsInjective(message_list') /\ IsInjective(pending_list')
      /\ Range(message_list') \cap Range(pending_list') = {}
      /\ m \in Range(message_list) \cup Range(pending_list)
      /\ Range(message_list') \cup Range(pending_list')
           = (Range(message_list) \cup Range(pending_list)) \ {m}
  <2>1. CASE message_list # <<>> /\ m = Head(message_list)
             /\ message_list' = list_del(m, message_list)
             /\ pending_list' = pending_list
    <3>1. /\ m \in Range(message_list) /\ m \in Msgs
          /\ IsInjective(message_list')
          /\ Range(message_list') = Range(message_list) \ {m}
      <4>1. message_list \in Seq(Msgs) /\ IsInjective(message_list)
        BY DEF MsgTypeOK, OnePlace
      <4>2. /\ list_del(Head(message_list), message_list) = Tail(message_list)
            /\ Range(Tail(message_list)) = Range(message_list) \ {Head(message_list)}
            /\ IsInjective(Tail(message_list))
        BY <2>1, <4>1, DelOldest
      <4>3. Head(message_list) \in Range(message_list) /\ Head(message_list) \in Msgs
        BY <2>1, <4>1, HeadInRange
      <4> QED
        BY <2>1, <4>2, <4>3
    <3> QED
      BY <2>1, <3>1 DEF OnePlace
  <2>2. CASE pending_list # <<>> /\ m = Head(pending_list)
             /\ pending_list' = list_del(m, pending_list)
             /\ message_list' = message_list
    <3>1. /\ m \in Range(pending_list) /\ m \in Msgs
          /\ IsInjective(pending_list')
          /\ Range(pending_list') = Range(pending_list) \ {m}
      <4>1. pending_list \in Seq(Msgs) /\ IsInjective(pending_list)
        BY DEF MsgTypeOK, OnePlace
      <4>2. /\ list_del(Head(pending_list), pending_list) = Tail(pending_list)
            /\ Range(Tail(pending_list)) = Range(pending_list) \ {Head(pending_list)}
            /\ IsInjective(Tail(pending_list))
        BY <2>2, <4>1, DelOldest
      <4>3. Head(pending_list) \in Range(pending_list) /\ Head(pending_list) \in Msgs
        BY <2>2, <4>1, HeadInRange
      <4> QED
        BY <2>2, <4>2, <4>3
    <3> QED
      BY <2>2, <3>1 DEF OnePlace
  <2> QED
    BY <2>1, <2>2
<1>2. \A r \in Procs : Carries(r) => r # p /\ msg[r] # m
  BY <1>1 DEF OnePlace
<1>3. \A r \in Procs : Carries(r)' <=> (r = p \/ Carries(r))
  BY <1>2 DEF OthersKeep
<1>4. \A r \in Procs : msg'[r] = msg[r]
  BY DEF OthersKeep
<1>5. \A r \in Procs : Carries(r)' =>
        /\ msg'[r] \in Msgs
        /\ msg'[r] \notin Range(message_list') \cup Range(pending_list')
        /\ \A u \in Procs : Carries(u)' /\ msg'[u] = msg'[r] => u = r
  BY <1>1, <1>2, <1>3, <1>4 DEF OnePlace
<1>6. \A k \in Msgs : fate'[k] = "live" <=>
        \/ k \in Range(message_list') \cup Range(pending_list')
        \/ \E r \in Procs : Carries(r)' /\ msg'[r] = k
  <2> TAKE k \in Msgs
  <2>1. CASE k = m
    BY <1>1, <1>3, <1>4, <2>1 DEF OnePlace
  <2>2. CASE k # m
    <3>1. (\E r \in Procs : Carries(r)' /\ msg'[r] = k)
            <=> (\E r \in Procs : Carries(r) /\ msg[r] = k)
      BY <1>3, <1>4, <2>2
    <3> QED
      BY <1>1, <2>2, <3>1 DEF OnePlace
  <2> QED
    BY <2>1, <2>2
<1> QED
  BY <1>1, <1>5, <1>6 DEF OnePlace

(* A write creates a message, or a message that a process carries ends     *)
(* its life.                                                               *)
LEMMA NewMessage ==
  ASSUME MsgTypeOK, OnePlace, NEW p \in Procs, ~Carries(p), Carries(p)',
         OthersKeep(p), NEW m \in Msgs, fate[m] = "unborn", msg'[p] = m,
         fate' = [fate EXCEPT ![m] = "live"],
         message_list' = message_list, pending_list' = pending_list
  PROVE  OnePlace'
<1>1. m \notin Range(message_list) \cup Range(pending_list)
  BY DEF OnePlace
<1>2. \A r \in Procs : Carries(r) => r # p /\ msg[r] # m
  BY DEF OnePlace
<1>3. \A r \in Procs : r # p =>
        (Carries(r)' <=> Carries(r)) /\ msg'[r] = msg[r]
  BY DEF OthersKeep
<1>4. \A r \in Procs : Carries(r)' =>
        /\ msg'[r] \in Msgs
        /\ msg'[r] \notin Range(message_list') \cup Range(pending_list')
        /\ \A u \in Procs : Carries(u)' /\ msg'[u] = msg'[r] => u = r
  BY <1>1, <1>2, <1>3 DEF OnePlace
<1>5. \A k \in Msgs : fate'[k] = "live" <=>
        \/ k \in Range(message_list') \cup Range(pending_list')
        \/ \E r \in Procs : Carries(r)' /\ msg'[r] = k
  <2> TAKE k \in Msgs
  <2>1. CASE k = m
    BY <2>1 DEF MsgTypeOK
  <2>2. CASE k # m
    <3>1. (\E r \in Procs : Carries(r)' /\ msg'[r] = k)
            <=> (\E r \in Procs : Carries(r) /\ msg[r] = k)
      BY <1>2, <1>3, <2>2
    <3>2. fate'[k] = fate[k]
      BY <2>2 DEF MsgTypeOK
    <3> QED
      BY <3>1, <3>2 DEF OnePlace
  <2> QED
    BY <2>1, <2>2
<1> QED
  BY <1>4, <1>5 DEF OnePlace

(* A message that a process carried and gives up leaves the device.        *)
LEMMA EndMessage ==
  ASSUME MsgTypeOK, OnePlace, NEW p \in Procs, Carries(p), ~Carries(p)',
         OthersKeep(p), NEW o \in {"rejected", "delivered", "lost"},
         fate' = [fate EXCEPT ![msg[p]] = o],
         message_list' = message_list, pending_list' = pending_list
  PROVE  OnePlace'
<1> DEFINE m == msg[p]
<1>1. m \in Msgs /\ m \notin Range(message_list) \cup Range(pending_list)
  BY DEF OnePlace
<1>2. \A r \in Procs : Carries(r)' => /\ r # p /\ Carries(r)
                                      /\ msg'[r] = msg[r] /\ msg[r] # m
  BY DEF OthersKeep, OnePlace
<1>3. \A r \in Procs : Carries(r)' =>
        /\ msg'[r] \in Msgs
        /\ msg'[r] \notin Range(message_list') \cup Range(pending_list')
        /\ \A u \in Procs : Carries(u)' /\ msg'[u] = msg'[r] => u = r
  BY <1>2 DEF OnePlace
<1>4. \A k \in Msgs : fate'[k] = "live" <=>
        \/ k \in Range(message_list') \cup Range(pending_list')
        \/ \E r \in Procs : Carries(r)' /\ msg'[r] = k
  <2> TAKE k \in Msgs
  <2>1. CASE k = m
    <3>1. fate'[k] # "live"
      BY <1>1, <2>1 DEF MsgTypeOK
    <3> QED
      BY <1>1, <1>2, <2>1, <3>1
  <2>2. CASE k # m
    <3>1. (\E r \in Procs : Carries(r)' /\ msg'[r] = k)
            <=> (\E r \in Procs : Carries(r) /\ msg[r] = k)
      BY <1>2, <2>2 DEF OthersKeep
    <3>2. fate'[k] = fate[k]
      BY <1>1, <2>2 DEF MsgTypeOK
    <3> QED
      BY <3>1, <3>2 DEF OnePlace
  <2> QED
    BY <2>1, <2>2
<1> QED
  BY <1>3, <1>4 DEF OnePlace

(* Revocation joins the two lists. *)
LEMMA SpliceMessages ==
  ASSUME BaseInv, OnePlace, NEW t \in Revokers, _fflush_splice(t)
  PROVE  OnePlace'
<1>1. /\ Range(message_list') = Range(pending_list) \cup Range(message_list)
      /\ IsInjective(message_list')
  <2>1. /\ message_list \in Seq(Msgs) /\ pending_list \in Seq(Msgs)
        /\ IsInjective(message_list) /\ IsInjective(pending_list)
        /\ Range(pending_list) \cap Range(message_list) = {}
    BY DEF BaseInv, MsgTypeOK, OnePlace
  <2> QED
    BY <2>1, JoinLists DEF _fflush_splice, list_splice_tail
<1>2. Range(pending_list') = {} /\ IsInjective(pending_list')
  BY DEF _fflush_splice, Range, IsInjective
<1>3. fate' = fate /\ msg' = msg
  BY DEF _fflush_splice
<1>4. \A p \in Procs : Carries(p)' <=> Carries(p)
  BY DEF _fflush_splice, Goto, Carries, BaseInv, MsgTypeOK
<1> QED
  BY <1>1, <1>2, <1>3, <1>4 DEF OnePlace

(* A step of group_write preserves OnePlace.                               *)
LEMMA OnePlaceWrite ==
  ASSUME BaseInv, OnePlace, NEW t \in Writers,
         group_write_enter(t) \/ WriteStep(t)
  PROVE  OnePlace'
<1> USE DEF BaseInv
<1>0. t \in Procs
  BY DEF Procs, Callers
<1>1. CASE group_write_enter(t)
  <2>1. PICK m \in Msgs :
          /\ fate[m] = "unborn" /\ fate' = [fate EXCEPT ![m] = "live"]
          /\ msg' = [msg EXCEPT ![t] = m]
          /\ message_list' = message_list /\ pending_list' = pending_list
    BY <1>1 DEF group_write_enter, listVars
  <2>2. ~Carries(t) /\ Carries(t)' /\ OthersKeep(t) /\ msg'[t] = m
    BY <1>0, <1>1, <2>1 DEF group_write_enter, Goto, Carries, OthersKeep,
         MsgTypeOK
  <2> QED
    BY <1>0, <2>1, <2>2, NewMessage
<1>2. CASE group_write_fail(t)
  <2>1. Carries(t) /\ ~Carries(t)' /\ OthersKeep(t)
    BY <1>0, <1>2 DEF group_write_fail, Goto, Carries, OthersKeep, MsgTypeOK
  <2>2. /\ fate' = [fate EXCEPT ![msg[t]] = "rejected"]
        /\ message_list' = message_list /\ pending_list' = pending_list
    BY <1>2 DEF group_write_fail, listVars
  <2> QED
    BY <1>0, <2>1, <2>2, EndMessage
<1>3. CASE group_write_publish(t)
  <2>1. Carries(t) /\ ~Carries(t)' /\ OthersKeep(t)
    BY <1>0, <1>3 DEF group_write_publish, Goto, Carries, OthersKeep,
         MsgTypeOK
  <2>2. /\ fate' = fate
        /\ message_list' = Append(message_list, msg[t])
        /\ pending_list' = pending_list
    BY <1>3 DEF group_write_publish, list_add
  <2> QED
    BY <1>0, <2>1, <2>2, PutMessage
<1>4. CASE group_write_pend(t)
  <2>1. Carries(t) /\ ~Carries(t)' /\ OthersKeep(t)
    BY <1>0, <1>4 DEF group_write_pend, Goto, Carries, OthersKeep, MsgTypeOK
  <2>2. /\ fate' = fate
        /\ pending_list' = Append(pending_list, msg[t])
        /\ message_list' = message_list
    BY <1>4 DEF group_write_pend, list_add
  <2> QED
    BY <1>0, <2>1, <2>2, PutMessage
<1> QED
  BY <1>1, <1>2, <1>3, <1>4, QuietWrite DEF WriteStep

(* A step of group_read preserves OnePlace.                                *)
LEMMA OnePlaceRead ==
  ASSUME BaseInv, OnePlace, NEW t \in Readers,
         group_read_enter(t) \/ ReadStep(t)
  PROVE  OnePlace'
<1> USE DEF BaseInv
<1>0. t \in Procs
  BY DEF Procs, Callers
<1>1. CASE group_read_take(t)
  <2>1. ~Carries(t) /\ Carries(t)' /\ OthersKeep(t) /\ msg'[t] = msg[t]
    BY <1>0, <1>1 DEF group_read_take, Goto, Carries, OthersKeep, MsgTypeOK
  <2>2. /\ message_list # <<>> /\ msg[t] = Head(message_list)
        /\ message_list' = list_del(msg[t], message_list)
        /\ pending_list' = pending_list /\ fate' = fate
    BY <1>1 DEF group_read_take, HoldInv, Goto
  <2> QED
    BY <1>0, <2>1, <2>2, TakeMessage
<1>2. CASE group_read_copy(t)
  <2>1. Carries(t) /\ ~Carries(t)' /\ OthersKeep(t)
    BY <1>0, <1>2 DEF group_read_copy, Goto, Carries, OthersKeep, MsgTypeOK
  <2>2. PICK o \in {"delivered", "lost"} : fate' = [fate EXCEPT ![msg[t]] = o]
    BY <1>2 DEF group_read_copy
  <2>3. message_list' = message_list /\ pending_list' = pending_list
    BY <1>2 DEF group_read_copy, listVars
  <2> QED
    BY <1>0, <2>1, <2>2, <2>3, EndMessage
<1> QED
  BY <1>1, <1>2, QuietRead DEF ReadStep

(* A step of the workqueue thread preserves OnePlace.                      *)
LEMMA OnePlaceWorker ==
  ASSUME BaseInv, OnePlace, WorkerStep
  PROVE  OnePlace'
<1> USE DEF BaseInv
<1>0. Worker \in Procs
  BY DEF Procs
<1>1. CASE delayed_work_take
  <2>1. /\ ~Carries(Worker) /\ Carries(Worker)' /\ OthersKeep(Worker)
        /\ msg'[Worker] = msg[Worker]
    BY <1>0, <1>1 DEF delayed_work_take, Goto, Carries, OthersKeep, MsgTypeOK
  <2>2. /\ pending_list # <<>> /\ msg[Worker] = Head(pending_list)
        /\ pending_list' = list_del(msg[Worker], pending_list)
        /\ message_list' = message_list /\ fate' = fate
    BY <1>1 DEF delayed_work_take, HoldInv, Goto
  <2> QED
    BY <1>0, <2>1, <2>2, TakeMessage
<1>2. CASE delayed_work_publish
  <2>1. Carries(Worker) /\ ~Carries(Worker)' /\ OthersKeep(Worker)
    BY <1>0, <1>2 DEF delayed_work_publish, Goto, Carries, OthersKeep,
         MsgTypeOK
  <2>2. /\ fate' = fate
        /\ message_list' = Append(message_list, msg[Worker])
        /\ pending_list' = pending_list
    BY <1>2 DEF delayed_work_publish, list_add
  <2> QED
    BY <1>0, <2>1, <2>2, PutMessage
<1> QED
  BY <1>1, <1>2, QuietWorker DEF WorkerStep

(* Every step preserves OnePlace.                                          *)
LEMMA OnePlaceStep == BaseInv /\ OnePlace /\ [MsgNext]_msgVars => OnePlace'
  BY OnePlaceWrite, OnePlaceRead, OnePlaceWorker, QuietFlush, QuietOther,
     SpliceMessages DEF MsgNext, EnterCall

(* A new device has no message in any place. *)
LEMMA OnePlaceInit == MsgInit /\ FlagsInit => OnePlace
  BY DEF MsgInit, OnePlace, Carries, Range, IsInjective, NULL

(* Exactly-once delivery: whatever the writers, readers, revocations and   *)
(* delayed works interleave and whatever the kernel refuses, a message     *)
(* that was accepted and not yet delivered is in exactly one place, so no  *)
(* two reads deliver it and no list drops or duplicates it.                *)
THEOREM ExactlyOnce == MsgSpec => []OnePlace
  BY OnePlaceInit, OnePlaceStep, BaseCorrect, PTL DEF MsgSpec, MessagingInit
=============================================================================
