----------------------------- MODULE WorkProofs -----------------------------
(***************************************************************************)
(* The works of delayed messages: where a work can be in its life, and     *)
(* that fflush_workqueue leaves no armed timer when it drains the queue,   *)
(* and that there are works enough for the pending messages.               *)
(***************************************************************************)
EXTENDS RevokeProofs, FiniteSetTheorems

(* A writer that has not yet queued a work for its message. *)
BeforeWork == BeforePending \cup {"k_alloc", "wq_down", "q_work"}

(* Every write has a message, and so a work, of its own. *)
WriterInv ==
  /\ \A t \in Writers : pc[t] # "idle" => fate[msg[t]] # "unborn"
  /\ \A t, u \in Writers :
       pc[t] # "idle" /\ pc[u] # "idle" /\ msg[t] = msg[u] => t = u
  /\ \A m \in Msgs : fate[m] = "unborn" => work[m] = "none"
  /\ \A t \in Writers : pc[t] \in BeforeWork => work[msg[t]] = "none"

(* The queue holds the works that are due, each once, and the worker       *)
(* executes at most one.                                                   *)
QueueInv ==
  /\ IsInjective(queue)
  /\ \A w \in Msgs : work[w] = "queued" <=> w \in Range(queue)
  /\ \A w \in Msgs :
       work[w] = "running" <=> pc[Worker] # "idle" /\ running = w

(* A work with an armed timer is linked in delay_list, or the process that *)
(* links or unlinks it under wq_sem is about to deal with it.              *)
LinkInv ==
  /\ IsInjective(delay_list)
  /\ \A w \in Range(delay_list) : work[w] # "none"
  /\ \A t \in Writers : pc[t] = "l_add" =>
       msg[t] \notin Range(delay_list) /\ work[msg[t]] # "none"
  /\ \A w \in Msgs : work[w] = "timer" =>
       \/ w \in Range(delay_list)
       \/ \E t \in Writers : pc[t] = "l_add" /\ msg[t] = w
       \/ \E t \in Revokers : pc[t] = "f_flush" /\ pos = w

(* The loop of fflush_workqueue consumes delay_list from its oldest entry: *)
(* pos, as long as the worker has not unlinked it, is the oldest, q the    *)
(* one after it, and when the loop is over the list is empty.              *)
LoopInv ==
  \A t \in Revokers :
    /\ pc[t] = "f_unlink" /\ pos \in Range(delay_list) =>
         /\ Head(delay_list) = pos
         /\ q = NULL => Len(delay_list) = 1
         /\ q \in Range(delay_list) =>
              Len(delay_list) > 1 /\ delay_list[2] = q
    /\ pc[t] \in {"f_flush", "f_wait"} =>
         /\ q = NULL => delay_list = <<>>
         /\ q \in Range(delay_list) => Head(delay_list) = q
    /\ pc[t] \in {"f_drain", "f_cload", "f_clear"} => delay_list = <<>>

(* A fault stops everything: only states without one matter. *)
WorkInv ==
  /\ WriterInv /\ QueueInv
  /\ ~corrupted => LinkInv /\ LoopInv

-----------------------------------------------------------------------------
(* Facts about lists                                                       *)

(* A concatenation, element by element.                                    *)
LEMMA Concatenate ==
  ASSUME NEW S, NEW x \in Seq(S), NEW y \in Seq(S)
  PROVE  /\ x \o y \in Seq(S) /\ Len(x \o y) = Len(x) + Len(y)
         /\ \A i \in 1 .. Len(x) + Len(y) :
              (x \o y)[i] = IF i <= Len(x) THEN x[i] ELSE y[i - Len(x)]
  OBVIOUS

(* list_del removes the one entry and moves the newer ones up.             *)
LEMMA DelEntry ==
  ASSUME NEW S, NEW s \in Seq(S), IsInjective(s), NEW k \in 1 .. Len(s)
  PROVE  LET d == list_del(s[k], s)
         IN  /\ d \in Seq(S) /\ Len(d) = Len(s) - 1
             /\ \A i \in 1 .. Len(s) - 1 :
                  d[i] = IF i < k THEN s[i] ELSE s[i + 1]
<1>1. s[k] \in Range(s)
  BY DEF Range
<1>2. (CHOOSE i \in DOMAIN s : s[i] = s[k]) = k
  BY DEF IsInjective
<1>3. list_del(s[k], s) = SubSeq(s, 1, k - 1) \o SubSeq(s, k + 1, Len(s))
  BY <1>1, <1>2 DEF list_del, RemoveAt
<1> DEFINE a == SubSeq(s, 1, k - 1)
           b == SubSeq(s, k + 1, Len(s))
<1>4. /\ a \in Seq(S) /\ Len(a) = k - 1
      /\ \A i \in 1 .. k - 1 : a[i] = s[i]
  OBVIOUS
<1>5. /\ b \in Seq(S) /\ Len(b) = Len(s) - k
      /\ \A i \in 1 .. Len(s) - k : b[i] = s[k + i]
  OBVIOUS
<1> HIDE DEF a, b
<1>6. /\ a \o b \in Seq(S) /\ Len(a \o b) = Len(s) - 1
      /\ \A i \in 1 .. Len(s) - 1 :
           (a \o b)[i] = IF i < k THEN a[i] ELSE b[i - (k - 1)]
  <2>1. a \o b \in Seq(S) /\ Len(a \o b) = Len(a) + Len(b)
    BY <1>4, <1>5, Concatenate
  <2>2. Len(a) + Len(b) = Len(s) - 1
    BY <1>4, <1>5
  <2>3. \A i \in 1 .. Len(a) + Len(b) :
          (a \o b)[i] = IF i <= Len(a) THEN a[i] ELSE b[i - Len(a)]
    BY <1>4, <1>5, Concatenate
  <2>4. ASSUME NEW i \in 1 .. Len(s) - 1
        PROVE  (a \o b)[i] = IF i < k THEN a[i] ELSE b[i - (k - 1)]
    <3>1. i <= k - 1 <=> i < k
      OBVIOUS
    <3> QED
      BY <1>4, <2>2, <2>3, <3>1
  <2> QED
    BY <2>1, <2>2, <2>4
<1>7. ASSUME NEW i \in 1 .. Len(s) - 1
      PROVE  (a \o b)[i] = IF i < k THEN s[i] ELSE s[i + 1]
  <2>1. CASE i < k
    BY <1>4, <1>6, <2>1
  <2>2. CASE ~(i < k)
    <3>1. i - (k - 1) \in 1 .. Len(s) - k /\ k + (i - (k - 1)) = i + 1
      BY <2>2
    <3>2. ~(i < k)
      BY <2>2
    <3>3. (a \o b)[i] = b[i - (k - 1)]
      BY <1>6, <3>2
    <3>4. b[i - (k - 1)] = s[k + (i - (k - 1))]
      BY <1>5, <3>1
    <3> QED
      BY <3>1, <3>2, <3>3, <3>4
  <2> QED
    BY <2>1, <2>2
<1> QED
  BY <1>3, <1>6, <1>7 DEF a, b

(* list_del of any entry: the others stay, and stay distinct.              *)
LEMMA DelAny ==
  ASSUME NEW S, NEW s \in Seq(S), IsInjective(s), NEW e
  PROVE  /\ Range(list_del(e, s)) = Range(s) \ {e}
         /\ IsInjective(list_del(e, s))
<1>1. CASE e \notin Range(s)
  BY <1>1 DEF list_del
<1>2. CASE e \in Range(s)
  <2>1. PICK k \in 1 .. Len(s) : s[k] = e
    BY <1>2 DEF Range
  <2> DEFINE d == list_del(e, s)
  <2>2. /\ d \in Seq(S) /\ Len(d) = Len(s) - 1
        /\ \A i \in 1 .. Len(s) - 1 :
             d[i] = IF i < k THEN s[i] ELSE s[i + 1]
    BY <2>1, DelEntry
  <2> HIDE DEF d
  <2>3. IsInjective(d)
    <3>1. SUFFICES ASSUME NEW i \in 1 .. Len(s) - 1,
                          NEW j \in 1 .. Len(s) - 1, d[i] = d[j]
                   PROVE  i = j
      BY <2>2 DEF IsInjective
    <3> DEFINE up(n) == IF n < k THEN n ELSE n + 1
    <3>2. d[i] = s[up(i)] /\ d[j] = s[up(j)]
      BY <2>2
    <3>3. up(i) \in DOMAIN s /\ up(j) \in DOMAIN s
      OBVIOUS
    <3>4. up(i) = up(j)
      BY <3>1, <3>2, <3>3 DEF IsInjective
    <3> QED
      BY <3>4
  <2>4. ASSUME NEW x \in Range(d) PROVE x \in Range(s) \ {e}
    <3>1. PICK i \in 1 .. Len(s) - 1 : x = d[i]
      BY <2>2 DEF Range
    <3>2. PICK j \in 1 .. Len(s) : x = s[j] /\ j # k
      BY <2>2, <3>1
    <3> QED
      BY <2>1, <3>2 DEF Range, IsInjective
  <2>5. ASSUME NEW x \in Range(s) \ {e} PROVE x \in Range(d)
    <3>1. PICK j \in 1 .. Len(s) : x = s[j] /\ j # k
      BY <2>1 DEF Range
    <3>2. PICK i \in 1 .. Len(s) - 1 : x = d[i]
      <4>1. CASE j < k
        BY <2>2, <3>1, <4>1
      <4>2. CASE j > k
        <5>1. j - 1 \in 1 .. Len(s) - 1 /\ ~(j - 1 < k) /\ (j - 1) + 1 = j
          BY <4>2
        <5> QED
          BY <2>2, <3>1, <5>1
      <4> QED
        BY <3>1, <4>1, <4>2
    <3> QED
      BY <2>2, <3>2 DEF Range
  <2> QED
    BY <2>3, <2>4, <2>5 DEF d
<1> QED
  BY <1>1, <1>2

(* list_del of another entry keeps the oldest one, and the one after it.   *)
LEMMA DelKeepsFront ==
  ASSUME NEW S, NEW s \in Seq(S), IsInjective(s), NEW e, s # <<>>,
         Head(s) # e
  PROVE  LET d == list_del(e, s)
         IN  /\ d # <<>> /\ Head(d) = Head(s)
             /\ Len(s) = 1 => Len(d) = 1
             /\ Len(s) > 1 /\ s[2] # e => Len(d) > 1 /\ d[2] = s[2]
<1>1. CASE e \notin Range(s)
  BY <1>1 DEF list_del
<1>2. CASE e \in Range(s)
  <2>1. PICK k \in 1 .. Len(s) : s[k] = e
    BY <1>2 DEF Range
  <2> DEFINE d == list_del(e, s)
  <2>2. /\ d \in Seq(S) /\ Len(d) = Len(s) - 1
        /\ \A i \in 1 .. Len(s) - 1 :
             d[i] = IF i < k THEN s[i] ELSE s[i + 1]
    BY <2>1, DelEntry
  <2> HIDE DEF d
  <2>3. k > 1 /\ Len(s) > 1 /\ Head(s) = s[1]
    BY <2>1
  <2>4. d[1] = s[1] /\ d # <<>> /\ Head(d) = d[1]
    BY <2>2, <2>3
  <2>5. s[2] # e => k > 2 /\ Len(d) > 1 /\ d[2] = s[2]
    BY <2>1, <2>2, <2>3
  <2> QED
    BY <2>3, <2>4, <2>5 DEF d
<1> QED
  BY <1>1, <1>2

(* The entry after the oldest one. *)
LEMMA PrevOfHead ==
  ASSUME NEW S, NEW s \in Seq(S), IsInjective(s), s # <<>>
  PROVE  PrevEntry(s, Head(s)) = IF Len(s) = 1 THEN NULL ELSE s[2]
<1> DEFINE I == {i \in DOMAIN s : i > 1 /\ s[i - 1] = Head(s)}
<1>1. Head(s) = s[1] /\ Len(s) >= 1
  OBVIOUS
<1>2. CASE Len(s) = 1
  <2>1. I = {}
    BY <1>2
  <2> QED
    BY <1>2, <2>1 DEF PrevEntry
<1>3. CASE Len(s) # 1
  <2>1. I = {2}
    <3>1. 2 \in I
      <4>1. Len(s) \in Nat /\ Len(s) >= 2
        BY <1>1, <1>3
      <4>2. 2 \in DOMAIN s /\ s[2 - 1] = Head(s)
        BY <1>1, <4>1
      <4> QED
        BY <4>2
    <3>2. ASSUME NEW i \in I PROVE i = 2
      <4>1. i \in 1 .. Len(s) /\ i > 1 /\ s[i - 1] = s[1]
        BY <1>1
      <4>2. i - 1 \in DOMAIN s /\ 1 \in DOMAIN s
        BY <1>1, <4>1
      <4>3. i - 1 = 1
        BY <4>1, <4>2 DEF IsInjective
      <4> QED
        BY <4>1, <4>3
    <3> QED
      BY <3>1, <3>2
  <2>2. (CHOOSE i \in I : TRUE) = 2
    BY <2>1
  <2>3. I # {}
    BY <2>1
  <2> QED
    BY <1>3, <2>2, <2>3 DEF PrevEntry
<1> QED
  BY <1>2, <1>3

-----------------------------------------------------------------------------
(* What a step does to the works                                           *)

(* Nothing but the places of processes changes. *)
SameWorks == UNCHANGED <<work, queue, running, delay_list>>

(* Work w becomes due: it is queued behind the others. *)
Due(w) ==
  /\ work' = [work EXCEPT ![w] = "queued"]
  /\ queue' = Append(queue, w)
  /\ UNCHANGED <<running, delay_list>>

(* A write queues its work, or arms its timer, once, and then links it.    *)
LEMMA WriteWork ==
  ASSUME BaseInv, NEW t \in Writers, group_write_enter(t) \/ WriteStep(t)
  PROVE  /\ ~corrupted
         /\ \/ SameWorks /\ pc[t] # "l_add" /\ pc'[t] # "l_add"
            \/ /\ pc[t] = "q_work" /\ pc'[t] = "l_add" /\ msg' = msg
               /\ \/ Due(msg[t])
                  \/ /\ work' = [work EXCEPT ![msg[t]] = "timer"]
                     /\ UNCHANGED <<queue, running, delay_list>>
            \/ /\ pc[t] = "l_add" /\ pc'[t] = "w_info"
               /\ delay_list' = list_add(msg[t], delay_list)
               /\ UNCHANGED <<work, queue, running>>
<1>0. t \in DOMAIN pc
  BY DEF BaseInv, MsgTypeOK, Procs, Callers
<1> USE <1>0 DEF SameWorks, Goto, Down, workVars
<1>1. CASE \/ group_write_enter(t) \/ group_write_down(t)
           \/ group_write_fail(t) \/ group_write_accept(t)
           \/ group_write_publish(t) \/ group_write_defer(t)
  BY <1>1 DEF group_write_enter, group_write_down, group_write_fail,
       group_write_accept, group_write_publish, group_write_defer
<1>2. CASE \/ group_write_pend_down(t) \/ group_write_pend(t)
           \/ add_delayed_work_fail(t) \/ add_delayed_work_alloc(t)
           \/ add_delayed_work_down(t) \/ group_write_return(t)
  BY <1>2 DEF group_write_pend_down, group_write_pend,
       add_delayed_work_fail, add_delayed_work_alloc,
       add_delayed_work_down, group_write_return
<1>3. CASE add_delayed_work_queue(t)
  BY <1>3 DEF add_delayed_work_queue, Due
<1>4. CASE add_delayed_work_list(t)
  BY <1>4 DEF add_delayed_work_list
<1> QED
  BY <1>1, <1>2, <1>3, <1>4 DEF WriteStep

(* flush_delayed_work makes the work of an armed timer due; the loop       *)
(* unlinks one work at a time.                                             *)
LEMMA FlushWork ==
  ASSUME BaseInv, NEW t \in Revokers, fflush_enter(t) \/ FlushStep(t)
  PROVE  /\ ~corrupted
         /\ \/ SameWorks
            \/ pc[t] = "f_flush" /\ work[pos] = "timer" /\ Due(pos)
            \/ /\ pc[t] = "f_unlink"
               /\ delay_list' = list_del(pos, delay_list)
               /\ UNCHANGED <<work, queue, running>>
<1> USE DEF SameWorks, Goto, Down, workVars
<1>1. CASE fflush_flush(t)
  BY <1>1 DEF fflush_flush, Due
<1>2. CASE fflush_unlink(t)
  BY <1>2 DEF fflush_unlink
<1>3. CASE \/ fflush_enter(t) \/ _fflush_pend_down(t)
           \/ _fflush_msg_down(t) \/ _fflush_splice(t) \/ fflush_no_wq(t)
           \/ fflush_down(t) \/ set_flushing_load(t)
  BY <1>3 DEF fflush_enter, _fflush_pend_down, _fflush_msg_down,
       _fflush_splice, fflush_no_wq, fflush_down, set_flushing_load
<1>4. CASE \/ set_flushing_store(t) \/ fflush_first(t) \/ fflush_next(t)
           \/ fflush_drain(t) \/ clear_flushing_load(t)
           \/ clear_flushing_store(t)
  BY <1>4 DEF set_flushing_store, fflush_first, fflush_next, fflush_drain,
       clear_flushing_load, clear_flushing_store
<1> QED
  BY <1>1, <1>2, <1>3, <1>4 DEF FlushStep

(* The workqueue thread starts the oldest due work, and frees it at the    *)
(* end; in between it may unlink it.                                       *)
LEMMA WorkerWork ==
  ASSUME BaseInv, WorkerStep
  PROVE  /\ ~corrupted
         /\ \/ SameWorks /\ pc[Worker] # "idle" /\ pc'[Worker] # "idle"
            \/ /\ pc[Worker] = "idle" /\ pc'[Worker] # "idle"
               /\ queue # <<>> /\ queue' = Tail(queue)
               /\ running' = Head(queue) /\ delay_list' = delay_list
               /\ work' = [work EXCEPT ![Head(queue)] = "running"]
            \/ /\ pc[Worker] # "idle" /\ pc'[Worker] # "idle"
               /\ delay_list' = list_del(running, delay_list)
               /\ UNCHANGED <<work, queue, running>>
            \/ /\ pc[Worker] # "idle" /\ pc'[Worker] = "idle"
               /\ work' = [work EXCEPT ![running] = "freed"]
               /\ UNCHANGED <<queue, delay_list>>
<1>0. Worker \in DOMAIN pc
  BY DEF BaseInv, MsgTypeOK, Procs
<1> USE <1>0 DEF SameWorks, Goto, Down, workVars
<1>1. CASE worker_start
  BY <1>1 DEF worker_start
<1>2. CASE delayed_work_unlink
  BY <1>2 DEF delayed_work_unlink
<1>3. CASE delayed_work_free
  BY <1>3 DEF delayed_work_free
<1>4. CASE \/ delayed_work_pend_down \/ delayed_work_empty
           \/ delayed_work_look \/ delayed_work_take
           \/ delayed_work_msg_down \/ delayed_work_publish
           \/ delayed_work_exit
  BY <1>4 DEF delayed_work_pend_down, delayed_work_empty,
       delayed_work_look, delayed_work_take, delayed_work_msg_down,
       delayed_work_publish, delayed_work_exit
<1> QED
  BY <1>1, <1>2, <1>3, <1>4 DEF WorkerStep

(* A timer that expires makes its work due. *)
LEMMA OtherWork ==
  ASSUME OtherStep
  PROVE  SameWorks \/ \E w \in Msgs : work[w] = "timer" /\ Due(w)
  BY DEF OtherStep, timer_expire, _set_delay, set_max_storage_size, Due,
       SameWorks, msgVars, msgPriv, workVars

-----------------------------------------------------------------------------
(* The queue                                                               *)

(* A due work is queued once: it was neither queued nor being executed.    *)
LEMMA DueStep ==
  ASSUME BaseInv, QueueInv, NEW w \in Msgs, Due(w),
         work[w] \in {"none", "timer"}, pc'[Worker] = pc[Worker]
  PROVE  QueueInv'
<1>1. w \notin Range(queue)
  BY DEF QueueInv
<1>2. /\ Range(queue') = Range(queue) \cup {w}
      /\ IsInjective(queue')
  BY <1>1, AddEntry DEF BaseInv, MsgTypeOK, QueueInv, Due
<1>3. \A v \in Msgs : work'[v] = IF v = w THEN "queued" ELSE work[v]
  BY DEF Due, BaseInv, MsgTypeOK
<1> QED
  BY <1>2, <1>3 DEF QueueInv, Due

(* Every step preserves QueueInv: a work is queued by its write, by its    *)
(* timer or by the revocation, and by only one of them.                    *)
LEMMA QueueStep ==
  ASSUME BaseInv, WriterInv, QueueInv, [MsgNext]_msgVars
  PROVE  QueueInv'
<1> USE ThreadAssumption
<1>1. CASE \E t \in Writers : group_write_enter(t) \/ WriteStep(t)
  <2>1. PICK t \in Writers : group_write_enter(t) \/ WriteStep(t)
    BY <1>1
  <2>2. pc'[Worker] = pc[Worker]
    BY <2>1, WriteAlone DEF Alone, Procs, Callers
  <2>3. pc[t] = "q_work" => msg[t] \in Msgs /\ work[msg[t]] = "none"
    BY DEF WriterInv, BeforeWork, BaseInv, HoldInv, WritePcs, Procs, Callers
  <2>4. CASE pc[t] = "q_work" /\ Due(msg[t])
    BY <2>2, <2>3, <2>4, DueStep
  <2>5. CASE /\ pc[t] = "q_work"
             /\ work' = [work EXCEPT ![msg[t]] = "timer"]
             /\ UNCHANGED <<queue, running, delay_list>>
    <3>1. \A w \in Msgs :
            work'[w] = IF w = msg[t] THEN "timer" ELSE work[w]
      BY <2>5 DEF BaseInv, MsgTypeOK
    <3> QED
      BY <2>2, <2>3, <2>5, <3>1 DEF QueueInv
  <2>6. CASE UNCHANGED <<work, queue, running>>
    BY <2>2, <2>6 DEF QueueInv
  <2> QED
    BY <2>1, <2>4, <2>5, <2>6, WriteWork DEF SameWorks
<1>2. CASE \E t \in Readers : group_read_enter(t) \/ ReadStep(t)
  <2>1. pc'[Worker] = pc[Worker] /\ UNCHANGED <<work, queue, running>>
    BY <1>2, ReadAlone DEF Alone, Procs, Callers
  <2> QED
    BY <2>1 DEF QueueInv
<1>3. CASE \E t \in Revokers : fflush_enter(t) \/ FlushStep(t)
  <2>1. PICK t \in Revokers : fflush_enter(t) \/ FlushStep(t)
    BY <1>3
  <2>2. pc'[Worker] = pc[Worker]
    BY <2>1, FlushAlone DEF Alone, Procs, Callers
  <2>3. CASE pc[t] = "f_flush" /\ work[pos] = "timer" /\ Due(pos)
    <3>1. pos \in Msgs
      BY <2>3 DEF BaseInv, HoldInv
    <3> QED
      BY <2>2, <2>3, <3>1, DueStep
  <2>4. CASE UNCHANGED <<work, queue, running>>
    BY <2>2, <2>4 DEF QueueInv
  <2> QED
    BY <2>1, <2>3, <2>4, FlushWork DEF SameWorks
<1>4. CASE WorkerStep
  <2>1. CASE /\ pc[Worker] = "idle" /\ pc'[Worker] # "idle"
             /\ queue # <<>> /\ queue' = Tail(queue)
             /\ running' = Head(queue) /\ delay_list' = delay_list
             /\ work' = [work EXCEPT ![Head(queue)] = "running"]
    <3>1. queue \in Seq(Msgs) /\ Head(queue) \in Range(queue)
          /\ Head(queue) \in Msgs
      BY <2>1, HeadInRange DEF BaseInv, MsgTypeOK
    <3>2. /\ Range(Tail(queue)) = Range(queue) \ {Head(queue)}
          /\ IsInjective(Tail(queue))
      BY <2>1, <3>1, DelOldest DEF QueueInv
    <3>3. \A w \in Msgs :
            work'[w] = IF w = Head(queue) THEN "running" ELSE work[w]
      BY <2>1 DEF BaseInv, MsgTypeOK
    <3> QED
      BY <2>1, <3>1, <3>2, <3>3 DEF QueueInv
  <2>2. CASE /\ pc[Worker] # "idle" /\ pc'[Worker] = "idle"
             /\ work' = [work EXCEPT ![running] = "freed"]
             /\ UNCHANGED <<queue, delay_list>>
    <3>1. \A w \in Msgs :
            work'[w] = IF w = running THEN "freed" ELSE work[w]
      BY <2>2 DEF BaseInv, MsgTypeOK
    <3>2. running \in Msgs
      BY <2>2 DEF BaseInv, HoldInv
    <3> QED
      BY <2>2, <3>1, <3>2 DEF QueueInv
  <2>3. CASE /\ pc[Worker] # "idle" /\ pc'[Worker] # "idle"
             /\ UNCHANGED <<work, queue, running>>
    BY <2>3 DEF QueueInv
  <2> QED
    BY <1>4, <2>1, <2>2, <2>3, WorkerWork DEF SameWorks
<1>5. CASE OtherStep
  <2>1. pc'[Worker] = pc[Worker]
    BY <1>5, NobodyMoves
  <2>2. CASE \E w \in Msgs : work[w] = "timer" /\ Due(w)
    BY <2>1, <2>2, DueStep
  <2>3. CASE SameWorks
    BY <2>1, <2>3 DEF SameWorks, QueueInv
  <2> QED
    BY <1>5, <2>2, <2>3, OtherWork
<1> QED
  BY <1>1, <1>2, <1>3, <1>4, <1>5, StepKinds

-----------------------------------------------------------------------------
(* The writers and their works                                             *)

(* Nobody but the writer of a message touches the work it has not queued.  *)
LEMMA NoneStays ==
  ASSUME BaseInv, QueueInv, NEW w \in Msgs, work[w] = "none",
         \/ \E t \in Readers : group_read_enter(t) \/ ReadStep(t)
         \/ \E t \in Revokers : fflush_enter(t) \/ FlushStep(t)
         \/ WorkerStep
         \/ OtherStep
  PROVE  work'[w] = "none"
<1>0. \A v : work[v] # "none" => v # w
  OBVIOUS
<1>1. CASE \E t \in Readers : group_read_enter(t) \/ ReadStep(t)
  BY <1>1, ReadAlone
<1>2. CASE \E t \in Revokers : fflush_enter(t) \/ FlushStep(t)
  BY <1>0, <1>2, FlushWork DEF SameWorks, Due, BaseInv, MsgTypeOK
<1>3. CASE WorkerStep
  <2>1. queue # <<>> => Head(queue) # w
    <3>1. queue # <<>> => Head(queue) \in Range(queue) /\ Head(queue) \in Msgs
      BY HeadInRange DEF BaseInv, MsgTypeOK
    <3> QED
      BY <3>1 DEF QueueInv
  <2>2. pc[Worker] # "idle" => running # w
    BY DEF QueueInv
  <2> QED
    BY <1>3, <2>1, <2>2, WorkerWork DEF SameWorks, BaseInv, MsgTypeOK
<1>4. CASE OtherStep
  BY <1>0, <1>4, OtherWork DEF SameWorks, Due, BaseInv, MsgTypeOK
<1> QED
  BY <1>1, <1>2, <1>3, <1>4

(* A read gives no message back to the unborn, and creates none.           *)
LEMMA ReadFate ==
  ASSUME BaseInv, NEW t \in Readers, group_read_enter(t) \/ ReadStep(t)
  PROVE  \/ fate' = fate
         \/ \E o \in {"delivered", "lost"} :
              /\ fate' = [fate EXCEPT ![msg[t]] = o]
              /\ pc[t] = "r_copy"
  BY DEF ReadStep, group_read_enter, group_read_down, group_read_empty,
       group_read_look, group_read_take, group_read_copy, Down, Goto

(* A write keeps its message, and a new one takes one that is unborn.      *)
LEMMA WriteKeeps ==
  ASSUME BaseInv, NEW t \in Writers, group_write_enter(t) \/ WriteStep(t)
  PROVE  /\ pc'[t] # "idle" =>
              \/ pc[t] # "idle" /\ msg'[t] = msg[t]
              \/ /\ pc'[t] = "w_down" /\ msg'[t] \in Msgs
                 /\ fate[msg'[t]] = "unborn"
                 /\ fate'[msg'[t]] # "unborn"
         /\ \A m \in Msgs : fate[m] # "unborn" => fate'[m] # "unborn"
         /\ pc'[t] \in BeforeWork =>
              pc[t] \in (BeforeWork \ {"q_work"}) \cup {"idle"}
<1>0. t \in DOMAIN pc /\ t \in DOMAIN msg /\ DOMAIN fate = Msgs
  BY DEF BaseInv, MsgTypeOK, Procs, Callers
<1> USE <1>0 DEF BeforeWork, BeforePending, Goto, Down
<1>1. CASE group_write_enter(t)
  BY <1>1 DEF group_write_enter
<1>2. CASE group_write_fail(t)
  BY <1>2 DEF group_write_fail
<1>3. CASE \/ group_write_down(t) \/ group_write_accept(t)
           \/ group_write_publish(t) \/ group_write_defer(t)
           \/ group_write_pend_down(t) \/ group_write_pend(t)
  BY <1>3 DEF group_write_down, group_write_accept, group_write_publish,
       group_write_defer, group_write_pend_down, group_write_pend
<1>4. CASE \/ add_delayed_work_fail(t) \/ add_delayed_work_alloc(t)
           \/ add_delayed_work_down(t) \/ add_delayed_work_queue(t)
           \/ add_delayed_work_list(t) \/ group_write_return(t)
  BY <1>4 DEF add_delayed_work_fail, add_delayed_work_alloc,
       add_delayed_work_down, add_delayed_work_queue,
       add_delayed_work_list, group_write_return
<1> QED
  BY <1>1, <1>2, <1>3, <1>4 DEF WriteStep

(* Every step preserves WriterInv. *)
LEMMA WriterStep ==
  ASSUME BaseInv, OnePlace, WriterInv, QueueInv, [MsgNext]_msgVars
  PROVE  WriterInv'
<1> USE ThreadAssumption
<1>1. CASE \E t \in Writers : group_write_enter(t) \/ WriteStep(t)
  <2>1. PICK t \in Writers : group_write_enter(t) \/ WriteStep(t)
    BY <1>1
  <2>2. \A u \in Writers \ {t} : pc'[u] = pc[u] /\ msg'[u] = msg[u]
    BY <2>1, WriteAlone DEF Alone, Procs, Callers
  <2>3. \A u \in Writers : pc[u] # "idle" => msg[u] \in Msgs
    BY DEF BaseInv, MsgTypeOK, HoldInv, Procs, Callers
  <2>4. /\ pc'[t] # "idle" =>
             \/ pc[t] # "idle" /\ msg'[t] = msg[t]
             \/ /\ pc'[t] = "w_down" /\ msg'[t] \in Msgs
                /\ fate[msg'[t]] = "unborn"
                /\ fate'[msg'[t]] # "unborn"
        /\ \A m \in Msgs : fate[m] # "unborn" => fate'[m] # "unborn"
        /\ pc'[t] \in BeforeWork =>
             pc[t] \in (BeforeWork \ {"q_work"}) \cup {"idle"}
    BY <2>1, WriteKeeps
  <2>5. \A w \in Msgs : work[w] = "none" =>
          work'[w] = "none" \/ (pc[t] = "q_work" /\ w = msg[t])
    <3>1. \/ work' = work
          \/ /\ pc[t] = "q_work"
             /\ \E o \in {"queued", "timer"} :
                  work' = [work EXCEPT ![msg[t]] = o]
      BY <2>1, WriteWork DEF SameWorks, Due
    <3> QED
      BY <3>1 DEF BaseInv, MsgTypeOK
  <2>6. \A u \in Writers : pc'[u] # "idle" => fate'[msg'[u]] # "unborn"
    BY <2>2, <2>3, <2>4 DEF WriterInv
  <2>7. ASSUME NEW u \in Writers, NEW v \in Writers, pc'[u] # "idle",
               pc'[v] # "idle", msg'[u] = msg'[v]
        PROVE  u = v
    BY <2>2, <2>4, <2>7 DEF WriterInv
  <2>8. \A m \in Msgs : fate'[m] = "unborn" => work'[m] = "none"
    BY <2>3, <2>4, <2>5 DEF WriterInv
  <2>9. ASSUME NEW u \in Writers, pc'[u] \in BeforeWork
        PROVE  work'[msg'[u]] = "none"
    <3>0. "idle" \notin BeforeWork
      BY DEF BeforeWork, BeforePending
    <3>1. CASE u = t
      <4>1. work[msg'[t]] = "none" /\ msg'[t] \in Msgs
        BY <2>3, <2>4, <2>9, <3>0, <3>1 DEF WriterInv
      <4>2. pc[t] # "q_work"
        BY <2>4, <2>9, <3>1
      <4> QED
        BY <2>5, <3>1, <4>1, <4>2
    <3>2. CASE u # t
      <4>1. pc[u] \in BeforeWork /\ pc[u] # "idle" /\ msg'[u] = msg[u]
        BY <2>2, <2>9, <3>0, <3>2
      <4>2. work[msg[u]] = "none" /\ msg[u] \in Msgs
        BY <2>3, <4>1 DEF WriterInv
      <4>3. pc[t] = "q_work" => msg[u] # msg[t]
        BY <3>2, <4>1 DEF WriterInv
      <4> QED
        BY <2>5, <4>1, <4>2, <4>3
    <3> QED
      BY <3>1, <3>2
  <2> QED
    BY <2>6, <2>7, <2>8, <2>9 DEF WriterInv
<1>2. CASE \/ \E t \in Readers : group_read_enter(t) \/ ReadStep(t)
           \/ \E t \in Revokers : fflush_enter(t) \/ FlushStep(t)
           \/ WorkerStep
           \/ OtherStep
  <2>1. \A t \in Writers : pc'[t] = pc[t] /\ msg'[t] = msg[t]
    BY <1>2, ReadAlone, FlushAlone, WorkerAlone, NobodyMoves
       DEF Alone, Procs, Callers
  <2>2. \A m \in Msgs : fate'[m] = "unborn" <=> fate[m] = "unborn"
    <3>1. CASE \E t \in Readers : group_read_enter(t) \/ ReadStep(t)
      <4>1. \A t \in Readers : pc[t] = "r_copy" => fate[msg[t]] # "unborn"
        BY DEF OnePlace, Carries, Procs, Callers
      <4> QED
        BY <3>1, <4>1, ReadFate DEF BaseInv, MsgTypeOK
    <3> QED
      BY <1>2, <3>1, FlushAlone, WorkerAlone, NobodyMoves
  <2>3. \A m \in Msgs : work[m] = "none" => work'[m] = "none"
    BY <1>2, NoneStays
  <2>4. \A t \in Writers : pc[t] # "idle" => msg[t] \in Msgs
    BY DEF BaseInv, MsgTypeOK, HoldInv, Procs, Callers
  <2>5. "idle" \notin BeforeWork
    BY DEF BeforeWork, BeforePending
  <2> QED
    BY <2>1, <2>2, <2>3, <2>4, <2>5 DEF WriterInv
<1> QED
  BY <1>1, <1>2, StepKinds

-----------------------------------------------------------------------------
(* delay_list                                                              *)

(* How a step of fflush_workqueue moves through its loop.                  *)
LEMMA FlushMoves ==
  ASSUME BaseInv, NEW t \in Revokers, fflush_enter(t) \/ FlushStep(t),
         ~corrupted'
  PROVE  \/ /\ SameWorks /\ UNCHANGED <<pos, q>>
            /\ pc'[t] \notin {"f_unlink", "f_flush", "f_wait", "f_drain"}
            /\ pc[t] # "f_flush"
            /\ pc'[t] \in {"f_cload", "f_clear"} =>
                 pc[t] \in {"f_drain", "f_cload"}
         \/ /\ SameWorks /\ pc[t] = "f_first" /\ delay_list = <<>>
            /\ pc'[t] = "f_drain"
         \/ /\ SameWorks /\ pc[t] = "f_first" /\ delay_list # <<>>
            /\ pc'[t] = "f_unlink" /\ pos' = Head(delay_list)
            /\ q' = PrevEntry(delay_list, Head(delay_list))
         \/ /\ pc[t] = "f_unlink" /\ pc'[t] = "f_flush"
            /\ pos \in Range(delay_list)
            /\ delay_list' = list_del(pos, delay_list)
            /\ UNCHANGED <<work, queue, running, pos, q>>
         \/ /\ pc[t] = "f_flush" /\ pc'[t] = "f_wait"
            /\ \/ SameWorks /\ work[pos] # "timer"
               \/ work[pos] = "timer" /\ Due(pos)
            /\ UNCHANGED <<pos, q>>
         \/ /\ SameWorks /\ pc[t] = "f_wait" /\ q = NULL
            /\ pc'[t] = "f_drain"
         \/ /\ SameWorks /\ pc[t] = "f_wait" /\ q \in Range(delay_list)
            /\ pc'[t] = "f_unlink" /\ pos' = q
            /\ q' = PrevEntry(delay_list, q)
<1>0. t \in DOMAIN pc
  BY DEF BaseInv, MsgTypeOK, Procs, Callers
<1> USE <1>0 DEF SameWorks, Goto, Down, workVars, flushVars
<1>1. CASE fflush_first(t)
  BY <1>1 DEF fflush_first
<1>2. CASE fflush_unlink(t)
  BY <1>2 DEF fflush_unlink
<1>3. CASE fflush_flush(t)
  BY <1>3 DEF fflush_flush, Due
<1>4. CASE fflush_next(t)
  BY <1>4 DEF fflush_next
<1>5. CASE \/ fflush_enter(t) \/ _fflush_pend_down(t)
           \/ _fflush_msg_down(t) \/ _fflush_splice(t) \/ fflush_no_wq(t)
           \/ fflush_down(t)
  BY <1>5 DEF fflush_enter, _fflush_pend_down, _fflush_msg_down,
       _fflush_splice, fflush_no_wq, fflush_down
<1>6. CASE \/ set_flushing_load(t) \/ set_flushing_store(t)
           \/ fflush_drain(t) \/ clear_flushing_load(t)
           \/ clear_flushing_store(t)
  BY <1>6 DEF set_flushing_load, set_flushing_store, fflush_drain,
       clear_flushing_load, clear_flushing_store
<1> QED
  BY <1>1, <1>2, <1>3, <1>4, <1>5, <1>6 DEF FlushStep

(* wq_sem: while one process works on delay_list, no other does, except    *)
(* the workqueue thread.                                                   *)
LEMMA OneInWqCS ==
  ASSUME BaseInv, NEW t \in Writers \cup Revokers, pc[t] \in WqCS,
         NEW u \in Writers \cup Revokers, pc[u] \in WqCS
  PROVE  t = u
  BY DEF BaseInv, LockInv, Procs, Callers

(* A write links its work under wq_sem. *)
LEMMA LinkWrite ==
  ASSUME BaseInv, WriterInv, LinkInv, NEW t \in Writers,
         group_write_enter(t) \/ WriteStep(t)
  PROVE  LinkInv'
<1> USE ThreadAssumption
<1>1. /\ \A u \in Writers \ {t} : pc'[u] = pc[u] /\ msg'[u] = msg[u]
      /\ \A u \in Revokers : pc'[u] = pc[u]
      /\ pos' = pos
  BY WriteAlone DEF Alone, Procs, Callers
<1>2. \A u \in Writers : pc[u] # "idle" => msg[u] \in Msgs
  BY DEF BaseInv, MsgTypeOK, HoldInv, Procs, Callers
<1>3. CASE SameWorks /\ pc[t] # "l_add" /\ pc'[t] # "l_add"
  BY <1>1, <1>3 DEF SameWorks, LinkInv
<1>4. CASE /\ pc[t] = "q_work" /\ pc'[t] = "l_add" /\ msg' = msg
           /\ delay_list' = delay_list
           /\ \E o \in {"queued", "timer"} :
                work' = [work EXCEPT ![msg[t]] = o]
  <2>1. msg[t] \in Msgs /\ work[msg[t]] = "none"
    BY <1>2, <1>4 DEF WriterInv, BeforeWork
  <2>2. /\ \A w \in Msgs \ {msg[t]} : work'[w] = work[w]
        /\ work'[msg[t]] # "none"
    BY <1>4, <2>1 DEF BaseInv, MsgTypeOK
  <2>3. msg[t] \notin Range(delay_list)
    BY <2>1 DEF LinkInv
  <2>4. Range(delay_list) \subseteq Msgs
    BY RangeDef DEF BaseInv, MsgTypeOK
  <2>5. \A u \in Writers : pc'[u] = "l_add" => u = t
    BY <1>1, <1>4, OneInWqCS DEF WqCS
  <2>6. \A w \in Range(delay_list) : work'[w] # "none"
    BY <2>2, <2>3, <2>4 DEF LinkInv
  <2>7. ASSUME NEW w \in Msgs, work'[w] = "timer"
        PROVE  \/ w \in Range(delay_list)
               \/ \E u \in Writers : pc'[u] = "l_add" /\ msg'[u] = w
               \/ \E u \in Revokers : pc'[u] = "f_flush" /\ pos' = w
    <3>1. CASE w = msg[t]
      BY <1>4, <3>1
    <3>2. CASE w # msg[t]
      <4>1. \A u \in Writers : pc[u] = "l_add" => pc'[u] = "l_add"
        BY <1>1, <1>4
      <4> QED
        BY <1>1, <1>4, <2>2, <2>7, <3>2, <4>1 DEF LinkInv
    <3> QED
      BY <3>1, <3>2
  <2> QED
    BY <1>4, <2>2, <2>3, <2>5, <2>6, <2>7 DEF LinkInv
<1>5. CASE /\ pc[t] = "l_add" /\ pc'[t] = "w_info"
           /\ delay_list' = list_add(msg[t], delay_list)
           /\ work' = work
  <2>1. msg[t] \in Msgs \ Range(delay_list) /\ work[msg[t]] # "none"
    BY <1>2, <1>5 DEF LinkInv
  <2>2. /\ Range(delay_list') = Range(delay_list) \cup {msg[t]}
        /\ IsInjective(delay_list')
    BY <1>5, <2>1, AddEntry DEF LinkInv, list_add, BaseInv, MsgTypeOK
  <2>3. \A u \in Writers : pc[u] = "l_add" => u = t
    BY <1>5, OneInWqCS DEF WqCS
  <2>4. \A u \in Writers : pc'[u] # "l_add"
    BY <1>1, <1>5, <2>3
  <2> QED
    BY <1>1, <1>5, <2>1, <2>2, <2>3, <2>4 DEF LinkInv
<1> QED
  BY <1>3, <1>4, <1>5, WriteWork DEF Due

(* The revocation unlinks a work just before it executes it. *)
LEMMA LinkFlush ==
  ASSUME BaseInv, LinkInv, NEW t \in Revokers,
         fflush_enter(t) \/ FlushStep(t), ~corrupted'
  PROVE  LinkInv'
<1> USE ThreadAssumption
<1>1. /\ \A u \in Writers : pc'[u] = pc[u] /\ msg'[u] = msg[u]
      /\ \A u \in Revokers \ {t} : pc'[u] = pc[u]
  BY FlushAlone DEF Alone, Procs, Callers
<1>2. pc[t] \in WqCS => \A u \in Revokers \ {t} : pc[u] \notin WqCS
  BY OneInWqCS
<1>3. CASE SameWorks /\ pos' = pos /\ pc[t] # "f_flush"
  <2>1. \A u \in Revokers : pc[u] = "f_flush" => pc'[u] = "f_flush"
    BY <1>1, <1>3
  <2> QED
    BY <1>1, <1>3, <2>1 DEF SameWorks, LinkInv
<1>4. CASE SameWorks /\ pc[t] \in {"f_first", "f_wait"}
  <2>1. \A u \in Revokers : pc[u] # "f_flush"
    BY <1>2, <1>4 DEF WqCS
  <2> QED
    BY <1>1, <1>4, <2>1 DEF SameWorks, LinkInv
<1>5. CASE /\ pc[t] = "f_unlink" /\ pc'[t] = "f_flush"
           /\ delay_list' = list_del(pos, delay_list)
           /\ UNCHANGED <<work, queue, running, pos, q>>
  <2>1. /\ Range(delay_list') = Range(delay_list) \ {pos}
        /\ IsInjective(delay_list')
    BY <1>5, DelAny DEF LinkInv, BaseInv, MsgTypeOK
  <2>2. \A u \in Revokers \ {t} : pc'[u] = pc[u]
    BY <1>1
  <2>3. \A u \in Revokers : pc[u] # "f_flush"
    BY <1>2, <1>5 DEF WqCS
  <2> QED
    BY <1>1, <1>5, <2>1, <2>3 DEF LinkInv
<1>6. CASE pc[t] = "f_flush" /\ pos' = pos /\ SameWorks /\ work[pos] # "timer"
  <2>1. \A u \in Revokers : pc[u] = "f_flush" => u = t
    BY <1>2, <1>6 DEF WqCS
  <2> QED
    BY <1>1, <1>6, <2>1 DEF SameWorks, LinkInv
<1>7. CASE pc[t] = "f_flush" /\ pos' = pos /\ Due(pos)
  <2>1. \A u \in Revokers : pc[u] = "f_flush" => u = t
    BY <1>2, <1>7 DEF WqCS
  <2>2. pos \in Msgs /\ Range(delay_list) \subseteq Msgs
        /\ \A u \in Writers : pc[u] = "l_add" => msg[u] \in Msgs
    BY <1>7, RangeDef DEF BaseInv, HoldInv, MsgTypeOK, WritePcs, Procs,
                           Callers
  <2>3. \A w \in Msgs : work'[w] = IF w = pos THEN "queued" ELSE work[w]
    BY <1>7 DEF Due, BaseInv, MsgTypeOK
  <2> QED
    BY <1>1, <1>7, <2>1, <2>2, <2>3 DEF Due, LinkInv
<1> QED
  BY <1>3, <1>4, <1>5, <1>6, <1>7, FlushMoves

(* The workqueue thread unlinks and frees only the work it executes, whose *)
(* timer is not armed.                                                     *)
LEMMA LinkWorker ==
  ASSUME BaseInv, QueueInv, LinkInv, WorkerStep
  PROVE  LinkInv'
<1> USE ThreadAssumption
<1>1. /\ \A u \in Writers : pc'[u] = pc[u] /\ msg'[u] = msg[u]
      /\ \A u \in Revokers : pc'[u] = pc[u]
      /\ pos' = pos
  BY WorkerAlone DEF Alone, Procs, Callers
<1>2. /\ delay_list \in Seq(Msgs) /\ Range(delay_list) \subseteq Msgs
      /\ \A u \in Writers : pc[u] = "l_add" => msg[u] \in Msgs
  BY RangeDef DEF BaseInv, HoldInv, MsgTypeOK, WritePcs, Procs, Callers
<1>3. CASE /\ delay_list' = delay_list
           /\ \A w \in Msgs : /\ work'[w] = "none" => work[w] = "none"
                              /\ work'[w] = "timer" => work[w] = "timer"
  BY <1>1, <1>2, <1>3 DEF LinkInv
<1>4. CASE /\ pc[Worker] # "idle" /\ work' = work
           /\ delay_list' = list_del(running, delay_list)
  <2>1. /\ Range(delay_list') = Range(delay_list) \ {running}
        /\ IsInjective(delay_list')
    BY <1>2, <1>4, DelAny DEF LinkInv
  <2>2. running \in Msgs /\ work[running] = "running"
    BY <1>4 DEF BaseInv, HoldInv, QueueInv
  <2> QED
    BY <1>1, <1>4, <2>1, <2>2 DEF LinkInv
<1>5. \A v, w \in Msgs, o \in {"running", "freed"} :
        work' = [work EXCEPT ![v] = o] =>
          /\ work'[w] = "none" => work[w] = "none"
          /\ work'[w] = "timer" => work[w] = "timer"
  BY DEF BaseInv, MsgTypeOK
<1>6. queue # <<>> => Head(queue) \in Msgs
  BY HeadInRange DEF BaseInv, MsgTypeOK
<1>7. pc[Worker] # "idle" => running \in Msgs
  BY DEF BaseInv, HoldInv
<1> QED
  BY <1>3, <1>4, <1>5, <1>6, <1>7, WorkerWork DEF SameWorks

(* Every step without a fault preserves LinkInv. *)
LEMMA LinkStep ==
  ASSUME BaseInv, WriterInv, QueueInv, LinkInv, [MsgNext]_msgVars,
         ~corrupted'
  PROVE  LinkInv'
<1> USE ThreadAssumption
<1>1. CASE \E t \in Readers : group_read_enter(t) \/ ReadStep(t)
  <2>1. /\ \A u \in Writers : pc'[u] = pc[u] /\ msg'[u] = msg[u]
        /\ \A u \in Revokers : pc'[u] = pc[u]
        /\ UNCHANGED <<pos, work, delay_list>>
    BY <1>1, ReadAlone DEF Alone, Procs, Callers
  <2> QED
    BY <2>1 DEF LinkInv
<1>2. CASE OtherStep
  <2>1. UNCHANGED <<pc, msg, pos, delay_list>>
    BY <1>2, NobodyMoves
  <2>2. \A w \in Msgs : /\ work'[w] = "none" => work[w] = "none"
                        /\ work'[w] = "timer" => work[w] = "timer"
    BY <1>2, OtherWork DEF SameWorks, Due, BaseInv, MsgTypeOK
  <2>3. /\ Range(delay_list) \subseteq Msgs
        /\ \A u \in Writers : pc[u] = "l_add" => msg[u] \in Msgs
    BY RangeDef DEF BaseInv, HoldInv, MsgTypeOK, WritePcs, Procs, Callers
  <2> QED
    BY <2>1, <2>2, <2>3 DEF LinkInv
<1> QED
  BY <1>1, <1>2, LinkWrite, LinkFlush, LinkWorker, StepKinds

(* A list with entries, and not just one, has a second one.                *)
LEMMA SecondEntry ==
  ASSUME NEW S, NEW s \in Seq(S), s # <<>>, Len(s) # 1
  PROVE  Len(s) > 1 /\ s[2] \in S
<1>1. Len(s) \in Nat /\ Len(s) # 0
  OBVIOUS
<1>2. \A n \in Nat : n # 0 /\ n # 1 => n > 1 /\ 2 \in 1 .. n
  OBVIOUS
<1>3. Len(s) > 1 /\ 2 \in 1 .. Len(s)
  BY <1>1, <1>2
<1> QED
  BY <1>3

(* pos at the oldest entry and q at the one after it. *)
LEMMA FrontOfList ==
  ASSUME NEW s \in Seq(Msgs), IsInjective(s), s # <<>>
  PROVE  LET n == PrevEntry(s, Head(s))
         IN  /\ n = NULL => Len(s) = 1
             /\ n \in Range(s) => Len(s) > 1 /\ s[2] = n
<1>1. PrevEntry(s, Head(s)) = IF Len(s) = 1 THEN NULL ELSE s[2]
  BY PrevOfHead
<1>2. NULL \notin Msgs /\ Range(s) \subseteq Msgs
  <2>1. NULL \notin Msgs
    BY DEF NULL, Msgs
  <2> QED
    BY <2>1, RangeDef
<1>3. Len(s) # 1 => Len(s) > 1 /\ s[2] \in Msgs
  BY SecondEntry
<1> QED
  BY <1>1, <1>2, <1>3

(* A step of the loop takes the oldest entry and keeps the next in q. *)
LEMMA LoopFlush ==
  ASSUME BaseInv, LinkInv, LoopInv, NEW t \in Revokers,
         fflush_enter(t) \/ FlushStep(t), ~corrupted'
  PROVE  LoopInv'
<1> USE ThreadAssumption
<1> DEFINE L == {"f_unlink", "f_flush", "f_wait", "f_drain", "f_cload",
                 "f_clear"}
<1>1. \A u \in Revokers \ {t} : pc'[u] = pc[u]
  BY FlushAlone DEF Alone, Procs, Callers
<1>2. pc[t] \in WqCS => \A u \in Revokers \ {t} : pc[u] \notin L
  BY OneInWqCS DEF WqCS
<1>3. delay_list \in Seq(Msgs) /\ IsInjective(delay_list)
  BY DEF BaseInv, MsgTypeOK, LinkInv
<1>4. CASE /\ SameWorks /\ UNCHANGED <<pos, q>>
           /\ pc'[t] \notin {"f_unlink", "f_flush", "f_wait", "f_drain"}
           /\ pc'[t] \in {"f_cload", "f_clear"} =>
                pc[t] \in {"f_drain", "f_cload"}
  BY <1>1, <1>4 DEF SameWorks, LoopInv
<1>5. CASE /\ SameWorks /\ pc[t] \in {"f_first", "f_wait"}
           /\ pc'[t] = "f_drain" /\ delay_list = <<>>
  BY <1>1, <1>2, <1>5 DEF SameWorks, LoopInv, WqCS
<1>6. CASE /\ SameWorks /\ pc[t] \in {"f_first", "f_wait"}
           /\ pc'[t] = "f_unlink" /\ delay_list # <<>>
           /\ pos' = Head(delay_list)
           /\ q' = PrevEntry(delay_list, Head(delay_list))
  <2>1. /\ q' = NULL => Len(delay_list) = 1
        /\ q' \in Range(delay_list) =>
             Len(delay_list) > 1 /\ delay_list[2] = q'
    BY <1>3, <1>6, FrontOfList
  <2>2. delay_list' = delay_list /\ \A u \in Revokers \ {t} : pc'[u] \notin L
    BY <1>1, <1>2, <1>6 DEF SameWorks, WqCS
  <2> QED
    BY <1>6, <2>1, <2>2 DEF LoopInv
<1>7. CASE /\ pc[t] = "f_unlink" /\ pc'[t] = "f_flush"
           /\ pos \in Range(delay_list)
           /\ delay_list' = list_del(pos, delay_list)
           /\ UNCHANGED <<work, queue, running, pos, q>>
  <2>1. /\ Head(delay_list) = pos
        /\ q = NULL => Len(delay_list) = 1
        /\ q \in Range(delay_list) =>
             Len(delay_list) > 1 /\ delay_list[2] = q
    BY <1>7 DEF LoopInv
  <2>2. delay_list # <<>>
    BY <1>7 DEF Range
  <2>3. /\ delay_list' = Tail(delay_list)
        /\ Range(delay_list') = Range(delay_list) \ {pos}
    BY <1>3, <1>7, <2>1, <2>2, DelOldest
  <2>4. q = NULL => delay_list' = <<>>
    BY <1>3, <2>1, <2>3
  <2>5. q \in Range(delay_list') => Head(delay_list') = q
    BY <1>3, <2>1, <2>3
  <2>6. \A u \in Revokers \ {t} : pc'[u] \notin L
    BY <1>1, <1>2, <1>7 DEF WqCS
  <2> QED
    BY <1>7, <2>4, <2>5, <2>6 DEF LoopInv
<1>8. CASE /\ pc[t] = "f_flush" /\ pc'[t] = "f_wait"
           /\ UNCHANGED <<pos, q, delay_list>>
  BY <1>1, <1>8 DEF LoopInv
<1>9. CASE /\ SameWorks /\ pc[t] = "f_wait" /\ q = NULL
           /\ pc'[t] = "f_drain"
  <2>1. delay_list = <<>>
    BY <1>9 DEF LoopInv
  <2> QED
    BY <1>5, <1>9, <2>1
<1>10. CASE /\ SameWorks /\ pc[t] = "f_wait" /\ q \in Range(delay_list)
            /\ pc'[t] = "f_unlink" /\ pos' = q
            /\ q' = PrevEntry(delay_list, q)
  <2>1. delay_list # <<>> /\ Head(delay_list) = q
    BY <1>10 DEF LoopInv, Range
  <2> QED
    BY <1>6, <1>10, <2>1
<1> QED
  BY <1>4, <1>5, <1>6, <1>7, <1>8, <1>9, <1>10, FlushMoves DEF SameWorks, Due

(* The workqueue thread may unlink the work it executes from under the     *)
(* loop; what the loop still finds in the list is where it left it.        *)
LEMMA LoopWorker ==
  ASSUME BaseInv, LinkInv, LoopInv, WorkerStep
  PROVE  LoopInv'
<1> USE ThreadAssumption
<1>1. (\A u \in Revokers : pc'[u] = pc[u]) /\ UNCHANGED <<pos, q>>
  BY WorkerAlone DEF Alone, Procs, Callers
<1>2. CASE delay_list' = delay_list
  BY <1>1, <1>2 DEF LoopInv
<1>3. CASE delay_list' = list_del(running, delay_list)
  <2>1. delay_list \in Seq(Msgs) /\ IsInjective(delay_list)
    BY DEF BaseInv, MsgTypeOK, LinkInv
  <2>2. Range(delay_list') = Range(delay_list) \ {running}
    BY <1>3, <2>1, DelAny
  <2>3. delay_list = <<>> => delay_list' = <<>>
    BY <1>3 DEF list_del, Range
  <2>4. delay_list # <<>> /\ Head(delay_list) # running =>
          /\ Head(delay_list') = Head(delay_list)
          /\ Len(delay_list) = 1 => Len(delay_list') = 1
          /\ Len(delay_list) > 1 /\ delay_list[2] # running =>
               Len(delay_list') > 1 /\ delay_list'[2] = delay_list[2]
    BY <1>3, <2>1, DelKeepsFront
  <2>5. \A e \in Range(delay_list) : delay_list # <<>>
    BY DEF Range
  <2>6. ASSUME NEW u \in Revokers, pc[u] = "f_unlink",
               pos \in Range(delay_list')
        PROVE  /\ Head(delay_list') = pos
               /\ q = NULL => Len(delay_list') = 1
               /\ q \in Range(delay_list') =>
                    Len(delay_list') > 1 /\ delay_list'[2] = q
    BY <2>2, <2>4, <2>5, <2>6 DEF LoopInv
  <2>7. ASSUME NEW u \in Revokers, pc[u] \in {"f_flush", "f_wait"}
        PROVE  /\ q = NULL => delay_list' = <<>>
               /\ q \in Range(delay_list') => Head(delay_list') = q
    BY <2>2, <2>3, <2>4, <2>5, <2>7 DEF LoopInv
  <2>8. \A u \in Revokers : pc[u] \in {"f_drain", "f_cload", "f_clear"} =>
          delay_list' = <<>>
    BY <2>3 DEF LoopInv
  <2> QED
    BY <1>1, <2>6, <2>7, <2>8 DEF LoopInv
<1> QED
  BY <1>2, <1>3, WorkerWork DEF SameWorks

(* Every step without a fault preserves LoopInv. *)
LEMMA LoopStep ==
  ASSUME BaseInv, LinkInv, LoopInv, [MsgNext]_msgVars, ~corrupted'
  PROVE  LoopInv'
<1> USE ThreadAssumption
<1>1. CASE \E t \in Writers : group_write_enter(t) \/ WriteStep(t)
  <2>1. PICK t \in Writers : group_write_enter(t) \/ WriteStep(t)
    BY <1>1
  <2>2. (\A u \in Revokers : pc'[u] = pc[u]) /\ UNCHANGED <<pos, q>>
    BY <2>1, WriteAlone DEF Alone, Procs, Callers
  <2>3. CASE delay_list' = delay_list
    BY <2>2, <2>3 DEF LoopInv
  <2>4. CASE pc[t] = "l_add"
    <3>1. \A u \in Revokers : pc[u] \notin WqCS
      BY <2>4, OneInWqCS DEF WqCS
    <3> QED
      BY <2>2, <3>1 DEF LoopInv, WqCS
  <2> QED
    BY <2>1, <2>3, <2>4, WriteWork DEF SameWorks, Due
<1>2. CASE (\E t \in Readers : group_read_enter(t) \/ ReadStep(t)) \/ OtherStep
  <2>1. /\ \A u \in Revokers : pc'[u] = pc[u]
        /\ UNCHANGED <<pos, q, delay_list>>
    BY <1>2, ReadAlone, NobodyMoves DEF Alone, Procs, Callers
  <2> QED
    BY <2>1 DEF LoopInv
<1> QED
  BY <1>1, <1>2, LoopFlush, LoopWorker, StepKinds

(* Every step preserves WorkInv: a step starts without a fault, and only   *)
(* one that does not end in a fault has to leave delay_list intact.        *)
LEMMA WorkStep ==
  ASSUME BaseInv, OnePlace, WorkInv, [MsgNext]_msgVars
  PROVE  WorkInv'
<1>1. WriterInv' /\ QueueInv'
  BY WriterStep, QueueStep DEF WorkInv
<1>2. ~corrupted' => ~corrupted
  <2>1. CASE UNCHANGED msgVars
    BY <2>1 DEF msgVars, msgPriv
  <2>2. CASE OtherStep
    BY <2>1, <2>2 DEF OtherStep, timer_expire, _set_delay,
                      set_max_storage_size
  <2>3. CASE \E t \in Readers : group_read_enter(t) \/ ReadStep(t)
    BY <2>3 DEF ReadStep, group_read_enter, group_read_down,
         group_read_empty, group_read_look, group_read_take,
         group_read_copy, Down, Goto
  <2> QED
    BY <2>2, <2>3, WriteWork, FlushWork, WorkerWork, StepKinds
<1>3. ~corrupted' => LinkInv' /\ LoopInv'
  BY <1>2, LinkStep, LoopStep DEF WorkInv
<1> QED
  BY <1>1, <1>3 DEF WorkInv

(* A new device has no work. *)
LEMMA WorkInvInit == MsgInit /\ FlagsInit => WorkInv
<1> SUFFICES ASSUME MsgInit PROVE WorkInv
  OBVIOUS
<1>1. \A t \in Procs : pc[t] = "idle"
  BY DEF MsgInit
<1>2. \A w \in Msgs : work[w] = "none"
  BY DEF MsgInit
<1>3. Range(<<>>) = {} /\ IsInjective(<<>>)
  BY DEF Range, IsInjective
<1>4. WriterInv
  BY <1>1, <1>2 DEF WriterInv, BeforeWork, BeforePending, Procs, Callers
<1>5. QueueInv
  BY <1>1, <1>2, <1>3 DEF QueueInv, MsgInit, Procs
<1>6. LinkInv /\ LoopInv
  BY <1>1, <1>2, <1>3 DEF LinkInv, LoopInv, MsgInit, Procs, Callers
<1> QED
  BY <1>4, <1>5, <1>6 DEF WorkInv

(* WorkInv is an invariant of the device. *)
LEMMA WorkInvCorrect == MsgSpec => []WorkInv
<1>1. BaseInv /\ OnePlace /\ WorkInv /\ [MsgNext]_msgVars => WorkInv'
  BY WorkStep
<1> QED
  BY WorkInvInit, <1>1, BaseCorrect, ExactlyOnce, PTL
     DEF MsgSpec, MessagingInit

(* drain_workqueue is never called with a timer armed, for any number of   *)
(* writers, revocations and delays, although the workqueue thread unlinks  *)
(* entries from delay_list without wq_sem while the loop runs over it: as  *)
(* long as no fault occurred, the loop ends with an empty list, every      *)
(* armed timer belongs to a linked work, and no writer can link one while  *)
(* the revocation holds wq_sem.                                            *)
THEOREM DrainMeetsNoTimer == MsgSpec => []NoTimerAtDrain
<1>1. BaseInv /\ WorkInv => NoTimerAtDrain
  <2> SUFFICES ASSUME BaseInv, WorkInv, NEW t \in Revokers, ~corrupted,
                      pc[t] \in {"f_drain", "f_cload"}, NEW w \in Msgs
               PROVE  work[w] # "timer"
    BY DEF NoTimerAtDrain
  <2>1. Range(delay_list) = {}
    BY DEF WorkInv, LoopInv, Range
  <2>2. \A u \in Writers : pc[u] # "l_add"
    <3>1. \A u \in Writers : u # t
      BY ThreadAssumption
    <3> QED
      BY <3>1, OneInWqCS DEF WqCS
  <2>3. \A u \in Revokers : pc[u] # "f_flush"
    BY OneInWqCS DEF WqCS
  <2> QED
    BY <2>1, <2>2, <2>3 DEF WorkInv, LinkInv
<1> QED
  BY <1>1, BaseCorrect, WorkInvCorrect, PTL

-----------------------------------------------------------------------------
(* Works enough for the pending messages                                   *)

(* kmalloc and create_singlethread_workqueue do not fail, so that every    *)
(* delayed write queues a work.                                            *)
WorksAllocated == Faults \cap {"kmalloc", "create_workqueue"} = {}

QueueingPcs == {"k_alloc", "wq_down", "q_work"}
TakingPcs   == {"d_down", "d_look", "d_take"}

(* The works that will still take a message from pending_list: not yet    *)
(* started, about to be queued by their writer, or run by the worker.      *)
Unstarted == {w \in Msgs : work[w] \in {"timer", "queued"}}
Queueing  == {msg[t] : t \in {u \in Writers : pc[u] \in QueueingPcs}}
Taking    == IF pc[Worker] \in TakingPcs THEN {running} ELSE {}
Takers    == Unstarted \cup Queueing \cup Taking

(* No more messages are pending than works will take. *)
Balance == delay_wq /\ Len(pending_list) <= Cardinality(Takers)

(* Takers are finitely many works. *)
LEMMA TakersFinite ==
  ASSUME BaseInv
  PROVE  /\ IsFiniteSet(Takers) /\ Cardinality(Takers) \in Nat
         /\ IsFiniteSet(Unstarted) /\ IsFiniteSet(Queueing)
         /\ Queueing \subseteq Msgs /\ Taking \subseteq Msgs
<1>1. Unstarted \subseteq Msgs
  BY DEF Unstarted
<1>2. Queueing \subseteq Msgs
  BY DEF BaseInv, HoldInv, Queueing, QueueingPcs, WritePcs, Procs, Callers
<1>3. Taking \subseteq Msgs
  BY DEF BaseInv, HoldInv, Taking, TakingPcs
<1>4. IsFiniteSet(Msgs)
  BY FS_Interval, ParamAssumption DEF Msgs
<1>5. Takers \subseteq Msgs
  BY <1>1, <1>2, <1>3 DEF Takers
<1>6. IsFiniteSet(Takers) /\ IsFiniteSet(Unstarted) /\ IsFiniteSet(Queueing)
  BY <1>1, <1>2, <1>4, <1>5, FS_Subset
<1> QED
  BY <1>2, <1>3, <1>6, FS_CardinalityType

(* A step that keeps pending_list, or empties it, and the takers.          *)
LEMMA BalanceKept ==
  ASSUME Balance, BaseInv, delay_wq' = delay_wq,
         \/ pending_list' = <<>> /\ IsFiniteSet(Takers')
         \/ pending_list' = pending_list /\ Takers' = Takers
  PROVE  Balance'
<1>1. CASE pending_list' = <<>> /\ IsFiniteSet(Takers')
  <2>1. Len(pending_list') = 0 /\ Cardinality(Takers') \in Nat
    BY <1>1, FS_CardinalityType
  <2> QED
    BY <2>1 DEF Balance
<1>2. CASE pending_list' = pending_list /\ Takers' = Takers
  BY <1>2 DEF Balance
<1> QED
  BY <1>1, <1>2

(* A process that is not a writer leaves the queueing writers alone.       *)
LEMMA QueueingOther ==
  ASSUME NEW p \in Procs \ Writers, Alone(p)
  PROVE  Queueing' = Queueing
<1>1. \A u \in Writers : pc'[u] = pc[u] /\ msg'[u] = msg[u]
  BY DEF Alone, Procs, Callers
<1> QED
  BY <1>1 DEF Queueing

(* A write without failing allocations pends one message and becomes one   *)
(* taker, and hands its place over to the work it queues.                  *)
LEMMA BalanceWrite ==
  ASSUME WorksAllocated, BaseInv, OnePlace, WriterInv, QueueInv, Balance,
         NEW t \in Writers, group_write_enter(t) \/ WriteStep(t)
  PROVE  Balance'
<1>0. /\ t \in Procs /\ t # Worker /\ t \in DOMAIN pc
      /\ pending_list \in Seq(Msgs) /\ DOMAIN work = Msgs
  BY ThreadAssumption DEF BaseInv, MsgTypeOK, Procs, Callers
<1>1. Alone(t) /\ delay_wq' = delay_wq
  BY WriteAlone
<1>2. \A u \in Writers \ {t} : pc'[u] = pc[u] /\ msg'[u] = msg[u]
  BY <1>1 DEF Alone, Procs, Callers
<1>3. pc'[Worker] = pc[Worker]
  BY <1>0, <1>1 DEF Alone, Procs
<1>4. CASE group_write_pend(t)
  <2>1. /\ pc[t] = "p_add" /\ pc'[t] = "k_alloc" /\ msg' = msg
        /\ UNCHANGED <<work, running>>
        /\ pending_list' = Append(pending_list, msg[t])
    BY <1>0, <1>4 DEF group_write_pend, Goto, list_add, workVars
  <2>2. msg[t] \in Msgs /\ work[msg[t]] = "none"
    BY <2>1 DEF BaseInv, HoldInv, WriterInv, BeforeWork, BeforePending,
                WritePcs, Procs, Callers
  <2>3. Unstarted' = Unstarted /\ Taking' = Taking
    BY <1>3, <2>1 DEF Unstarted, Taking
  <2>4. Queueing' = Queueing \cup {msg[t]}
    BY <1>2, <2>1 DEF Queueing, QueueingPcs
  <2>5. msg[t] \notin Takers
    <3>1. msg[t] \notin Unstarted
      BY <2>2 DEF Unstarted
    <3>2. msg[t] \notin Queueing
      BY <2>1 DEF Queueing, QueueingPcs, WriterInv
    <3>3. msg[t] \notin Taking
      BY <2>2 DEF Taking, TakingPcs, QueueInv
    <3> QED
      BY <3>1, <3>2, <3>3 DEF Takers
  <2>6. Takers' = Takers \cup {msg[t]}
    BY <2>3, <2>4 DEF Takers
  <2>7. Cardinality(Takers') = Cardinality(Takers) + 1
    BY <2>5, <2>6, TakersFinite, FS_AddElement
  <2>8. Len(pending_list') = Len(pending_list) + 1
        /\ Len(pending_list) \in Nat
    BY <1>0, <2>1, <2>2
  <2> QED
    BY <1>1, <2>7, <2>8, TakersFinite DEF Balance
<1>5. CASE add_delayed_work_queue(t)
  <2>1. /\ pc[t] = "q_work" /\ pc'[t] = "l_add" /\ msg' = msg
        /\ running' = running /\ pending_list' = pending_list
    BY <1>0, <1>5 DEF add_delayed_work_queue, Goto, listVars
  <2>2. msg[t] \in Msgs
    BY <2>1 DEF BaseInv, HoldInv, WritePcs, Procs, Callers
  <2>3. \E o \in {"timer", "queued"} : work' = [work EXCEPT ![msg[t]] = o]
    BY <1>5 DEF add_delayed_work_queue
  <2>4. Unstarted' = Unstarted \cup {msg[t]}
    BY <1>0, <2>2, <2>3 DEF Unstarted
  <2>5. Queueing = Queueing' \cup {msg[t]}
    BY <1>2, <2>1 DEF Queueing, QueueingPcs
  <2>6. Taking' = Taking
    BY <1>3, <2>1 DEF Taking
  <2>7. Takers' = Takers
    BY <2>4, <2>5, <2>6 DEF Takers
  <2> QED
    BY <1>1, <2>1, <2>7, BalanceKept
<1>6. CASE /\ UNCHANGED <<work, running, pending_list>>
           /\ pc[t] \in QueueingPcs <=> pc'[t] \in QueueingPcs
           /\ pc[t] \in QueueingPcs => msg'[t] = msg[t]
  <2>1. \A u \in Writers : /\ pc[u] \in QueueingPcs <=> pc'[u] \in QueueingPcs
                           /\ pc[u] \in QueueingPcs => msg'[u] = msg[u]
    BY <1>2, <1>6
  <2>2. Queueing' = Queueing
    BY <2>1 DEF Queueing
  <2>3. Takers' = Takers
    BY <1>3, <1>6, <2>2 DEF Takers, Unstarted, Taking
  <2> QED
    BY <1>1, <1>6, <2>3, BalanceKept
<1> USE <1>0 DEF Goto, Down, workVars, listVars, QueueingPcs
<1>7. CASE \/ group_write_enter(t) \/ group_write_down(t)
           \/ group_write_fail(t) \/ group_write_accept(t)
           \/ group_write_publish(t) \/ group_write_defer(t)
           \/ group_write_pend_down(t)
  BY <1>6, <1>7 DEF group_write_enter, group_write_down, group_write_fail,
       group_write_accept, group_write_publish, group_write_defer,
       group_write_pend_down
<1>8. CASE \/ add_delayed_work_alloc(t) \/ add_delayed_work_down(t)
           \/ add_delayed_work_list(t) \/ group_write_return(t)
  BY <1>6, <1>8 DEF add_delayed_work_alloc, add_delayed_work_down,
       add_delayed_work_list, group_write_return
<1>9. ~add_delayed_work_fail(t)
  BY DEF add_delayed_work_fail, WorksAllocated, Balance
<1> QED
  BY <1>4, <1>5, <1>7, <1>8, <1>9 DEF WriteStep

(* The revocation empties pending_list, or makes works due early.          *)
LEMMA BalanceFlush ==
  ASSUME BaseInv, Balance, NEW t \in Revokers,
         fflush_enter(t) \/ FlushStep(t)
  PROVE  Balance'
<1>0. t \in Procs \ Writers /\ t # Worker /\ DOMAIN work = Msgs
  BY ThreadAssumption DEF Procs, Callers, BaseInv, MsgTypeOK
<1>1. Alone(t) /\ delay_wq' = delay_wq
  BY FlushAlone
<1>2. Queueing' = Queueing /\ pc'[Worker] = pc[Worker]
  BY <1>0, <1>1, QueueingOther DEF Alone, Procs
<1>3. Unstarted' = Unstarted /\ running' = running
  BY <1>0, FlushWork DEF Unstarted, SameWorks, Due
<1>4. pending_list' = <<>> \/ pending_list' = pending_list
  BY DEF FlushStep, fflush_enter, _fflush_pend_down, _fflush_msg_down,
       _fflush_splice, fflush_no_wq, fflush_down, set_flushing_load,
       set_flushing_store, fflush_first, fflush_unlink, fflush_flush,
       fflush_next, fflush_drain, clear_flushing_load,
       clear_flushing_store, Down, listVars
<1>5. Takers' = Takers
  BY <1>2, <1>3 DEF Takers, Taking
<1> QED
  BY <1>1, <1>4, <1>5, TakersFinite, BalanceKept

(* A work that runs takes the oldest pending message, and only then stops  *)
(* being a taker; it finds none only when nothing is pending.              *)
LEMMA BalanceWorker ==
  ASSUME BaseInv, OnePlace, QueueInv, Balance, WorkerStep
  PROVE  Balance'
<1>0. /\ Worker \in Procs \ Writers /\ Worker \in DOMAIN pc
      /\ DOMAIN work = Msgs /\ pending_list \in Seq(Msgs)
  BY ThreadAssumption DEF Procs, Callers, BaseInv, MsgTypeOK
<1>1. Alone(Worker) /\ delay_wq' = delay_wq
  BY WorkerAlone
<1>2. Queueing' = Queueing
  BY <1>0, <1>1, QueueingOther
<1>3. CASE worker_start
  <2>1. /\ pc[Worker] = "idle" /\ pc'[Worker] = "d_down" /\ queue # <<>>
        /\ running' = Head(queue) /\ pending_list' = pending_list
        /\ work' = [work EXCEPT ![Head(queue)] = "running"]
    BY <1>0, <1>3 DEF worker_start, Goto, listVars
  <2>2. Head(queue) \in Msgs /\ work[Head(queue)] = "queued"
    <3>1. Head(queue) \in Range(queue) /\ Head(queue) \in Msgs
      BY <2>1, HeadInRange DEF BaseInv, MsgTypeOK
    <3> QED
      BY <3>1 DEF QueueInv
  <2>3. Unstarted = Unstarted' \cup {Head(queue)}
    BY <1>0, <2>1, <2>2 DEF Unstarted
  <2>4. Taking = {} /\ Taking' = {Head(queue)}
    BY <2>1 DEF Taking, TakingPcs
  <2>5. Takers' = Takers
    BY <1>2, <2>3, <2>4 DEF Takers
  <2> QED
    BY <1>1, <2>1, <2>5, BalanceKept
<1>4. CASE delayed_work_empty
  <2>1. pending_list' = <<>> /\ UNCHANGED <<work, running>>
        /\ pc'[Worker] = "d_exit"
    BY <1>0, <1>4 DEF delayed_work_empty, Goto, listVars, workVars
  <2>2. Unstarted' = Unstarted /\ Taking' = {}
    BY <2>1 DEF Unstarted, Taking, TakingPcs
  <2>3. Takers' \subseteq Takers
    BY <1>2, <2>2 DEF Takers
  <2>4. IsFiniteSet(Takers')
    BY <2>3, TakersFinite, FS_Subset
  <2> QED
    BY <1>1, <2>1, <2>4, BalanceKept
<1>5. CASE delayed_work_take
  <2>1. /\ pc[Worker] = "d_take" /\ pc'[Worker] = "d_mdown"
        /\ UNCHANGED <<work, running>>
        /\ pending_list' = list_del(msg[Worker], pending_list)
    BY <1>0, <1>5 DEF delayed_work_take, Goto, workVars
  <2>2. pending_list # <<>> /\ msg[Worker] = Head(pending_list)
    BY <2>1 DEF BaseInv, HoldInv
  <2>3. pending_list' = Tail(pending_list)
    BY <1>0, <2>1, <2>2, DelOldest DEF OnePlace
  <2>4. Len(pending_list') = Len(pending_list) - 1 /\ Len(pending_list) \in Nat
    BY <1>0, <2>2, <2>3
  <2>5. Taking = {running} /\ Taking' = {} /\ Unstarted' = Unstarted
    BY <2>1 DEF Taking, TakingPcs, Unstarted
  <2>6. Takers = Takers' \cup {running}
    BY <1>2, <2>5 DEF Takers
  <2>7. IsFiniteSet(Takers') /\ Cardinality(Takers') \in Nat
    BY <2>6, TakersFinite, FS_Subset, FS_CardinalityType
  <2>8. Cardinality(Takers) <= Cardinality(Takers') + 1
    BY <2>6, <2>7, FS_AddElement
  <2>9. Cardinality(Takers) \in Nat
    BY TakersFinite
  <2> QED
    BY <1>1, <2>4, <2>7, <2>8, <2>9 DEF Balance
<1>6. CASE delayed_work_free
  <2>1. /\ pc[Worker] = "k_free" /\ pc'[Worker] = "idle"
        /\ work' = [work EXCEPT ![running] = "freed"]
        /\ pending_list' = pending_list
    BY <1>0, <1>6 DEF delayed_work_free, Goto, listVars
  <2>2. running \in Msgs /\ work[running] = "running"
    BY <2>1 DEF BaseInv, HoldInv, QueueInv
  <2>3. Unstarted' = Unstarted
    BY <1>0, <2>1, <2>2 DEF Unstarted
  <2>4. Taking' = Taking
    BY <2>1 DEF Taking, TakingPcs
  <2> QED
    BY <1>1, <1>2, <2>1, <2>3, <2>4, BalanceKept DEF Takers
<1>7. CASE /\ UNCHANGED <<work, running, pending_list>>
           /\ pc[Worker] \in TakingPcs <=> pc'[Worker] \in TakingPcs
  <2>1. Unstarted' = Unstarted /\ Taking' = Taking
    BY <1>7 DEF Unstarted, Taking
  <2> QED
    BY <1>1, <1>2, <1>7, <2>1, BalanceKept DEF Takers
<1>8. CASE \/ delayed_work_pend_down \/ delayed_work_look
           \/ delayed_work_msg_down \/ delayed_work_publish
           \/ delayed_work_exit \/ delayed_work_unlink
  BY <1>0, <1>7, <1>8 DEF delayed_work_pend_down, delayed_work_look,
       delayed_work_msg_down, delayed_work_publish, delayed_work_exit,
       delayed_work_unlink, Goto, Down, workVars, listVars, TakingPcs
<1> QED
  BY <1>3, <1>4, <1>5, <1>6, <1>8 DEF WorkerStep

(* Every step keeps the balance when allocations succeed.                  *)
LEMMA BalanceStep ==
  ASSUME WorksAllocated, BaseInv, OnePlace, WorkInv, Balance,
         [MsgNext]_msgVars
  PROVE  Balance'
<1>1. CASE \E t \in Readers : group_read_enter(t) \/ ReadStep(t)
  <2>1. PICK t \in Readers : group_read_enter(t) \/ ReadStep(t)
    BY <1>1
  <2>2. /\ Alone(t) /\ t \in Procs \ Writers /\ t # Worker
        /\ UNCHANGED <<delay_wq, pending_list, work, running>>
    BY <2>1, ReadAlone, ThreadAssumption DEF Procs, Callers
  <2>3. Queueing' = Queueing /\ pc'[Worker] = pc[Worker]
    BY <2>2, QueueingOther DEF Alone, Procs
  <2>4. Takers' = Takers
    BY <2>2, <2>3 DEF Takers, Unstarted, Taking
  <2> QED
    BY <2>2, <2>4, BalanceKept
<1>2. CASE OtherStep
  <2>1. UNCHANGED <<pc, msg, delay_wq, pending_list, running>>
    BY <1>2, NobodyMoves
  <2>2. Unstarted' = Unstarted
    BY <1>2, OtherWork DEF SameWorks, Due, Unstarted, BaseInv, MsgTypeOK
  <2>3. Takers' = Takers
    BY <2>1, <2>2 DEF Takers, Queueing, Taking
  <2> QED
    BY <2>1, <2>3, BalanceKept
<1> QED
  BY <1>1, <1>2, BalanceWrite, BalanceFlush, BalanceWorker, StepKinds
     DEF WorkInv

(* A new device has a workqueue and nothing pending. *)
LEMMA BalanceInit ==
  ASSUME WorksAllocated, MsgInit, FlagsInit
  PROVE  Balance
<1>1. pending_list = <<>> /\ delay_wq
  BY DEF MsgInit, WorksAllocated
<1>2. Cardinality(Takers) \in Nat
  BY BaseInit, TakersFinite
<1> QED
  BY <1>1, <1>2 DEF Balance

(* The balance counts each queueing writer at most once.                   *)
LEMMA BalanceSuffices ==
  ASSUME BaseInv, WriterInv, Balance
  PROVE  EnoughWorks
<1> DEFINE Q == {u \in Writers : pc[u] \in QueueingPcs}
           f == [u \in Q |-> msg[u]]
<1>1. f \in Injection(Q, Queueing) /\ f \in Surjection(Q, Queueing)
  <2>1. f \in [Q -> Queueing]
    BY DEF Queueing
  <2>2. \A u, v \in Q : f[u] = f[v] => u = v
    BY DEF WriterInv, QueueingPcs
  <2>3. \A m \in Queueing : \E u \in Q : f[u] = m
    BY DEF Queueing
  <2> QED
    BY <2>1, <2>2, <2>3 DEF Injection, Surjection, IsInjective
<1>2. IsFiniteSet(Q) /\ Cardinality(Q) = Cardinality(Queueing)
  BY <1>1, TakersFinite, FS_Injection
<1>3. /\ Cardinality(Unstarted) \in Nat /\ Cardinality(Queueing) \in Nat
      /\ Cardinality(Takers) \in Nat /\ Len(pending_list) \in Nat
  BY TakersFinite, FS_CardinalityType DEF BaseInv, MsgTypeOK
<1>4. /\ IsFiniteSet(Unstarted \cup Queueing)
      /\ Cardinality(Unstarted \cup Queueing)
           <= Cardinality(Unstarted) + Cardinality(Queueing)
      /\ Cardinality(Unstarted \cup Queueing) \in Nat
  <2>1. IsFiniteSet(Unstarted \cap Queueing)
    BY TakersFinite, FS_Intersection
  <2>2. Cardinality(Unstarted \cap Queueing) \in Nat
    BY <2>1, FS_CardinalityType
  <2>3. /\ IsFiniteSet(Unstarted \cup Queueing)
        /\ Cardinality(Unstarted \cup Queueing) = Cardinality(Unstarted)
             + Cardinality(Queueing) - Cardinality(Unstarted \cap Queueing)
    BY TakersFinite, FS_Union
  <2>4. Cardinality(Unstarted \cup Queueing) \in Nat
    BY <2>3, FS_CardinalityType
  <2> QED
    BY <1>3, <2>2, <2>3, <2>4
<1>5. Cardinality(Takers) <= Cardinality(Unstarted \cup Queueing)
        + (IF pc[Worker] \in TakingPcs THEN 1 ELSE 0)
  <2>1. CASE pc[Worker] \in TakingPcs
    <3>1. Takers = (Unstarted \cup Queueing) \cup {running}
      BY <2>1 DEF Takers, Taking
    <3> QED
      BY <1>4, <2>1, <3>1, FS_AddElement
  <2>2. CASE pc[Worker] \notin TakingPcs
    <3>1. Takers = Unstarted \cup Queueing
      BY <2>2 DEF Takers, Taking
    <3> QED
      BY <1>4, <2>2, <3>1
  <2> QED
    BY <2>1, <2>2
<1>6. Len(pending_list) <= Cardinality(Unstarted) + Cardinality(Q)
        + (IF pc[Worker] \in TakingPcs THEN 1 ELSE 0)
  <2> HIDE DEF Q
  <2> QED
    BY <1>2, <1>3, <1>4, <1>5 DEF Balance
<1> QED
  BY <1>6 DEF EnoughWorks, Unstarted, QueueingPcs, TakingPcs

(* Without failing allocations every pending message has a work that will  *)
(* take one, for any number of writers, revocations and delays: a          *)
(* revocation may leave works without a message, never a message without a *)
(* work, and works may run in another order than the messages were         *)
(* written in.                                                             *)
THEOREM WorksSuffice ==
  ASSUME WorksAllocated
  PROVE  MsgSpec => []EnoughWorks
<1>1. MsgInit /\ FlagsInit => Balance
  BY BalanceInit
<1>2. BaseInv /\ OnePlace /\ WorkInv /\ Balance /\ [MsgNext]_msgVars
        => Balance'
  BY BalanceStep
<1>3. BaseInv /\ WorkInv /\ Balance => EnoughWorks
  BY BalanceSuffices DEF WorkInv
<1> QED
  BY <1>1, <1>2, <1>3, BaseCorrect, ExactlyOnce, WorkInvCorrect, PTL
     DEF MsgSpec, MessagingInit
=============================================================================
