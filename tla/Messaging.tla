----------------------------- MODULE Messaging -----------------------------
(***************************************************************************)
(* Messages of one group device (kmodule/group_dev.c): group_read,         *)
(* group_write with its delayed path add_delayed_work / delayed_work_fun,  *)
(* and the ioctls IOCTL_SET_SEND_DELAY and IOCTL_REVOKE_DELAYED_MESSAGES   *)
(* (fflush_workqueue).                                                     *)
(*                                                                         *)
(* Processes: the user threads inside a system call, and Worker, the one   *)
(* thread of the device's workqueue.  pc[p] names the statement p executes *)
(* next.  A critical section takes the step that acquires the semaphore,   *)
(* then at least one step inside it, so what the semaphores protect is     *)
(* visible in the model.                                                   *)
(*                                                                         *)
(* A struct list_head is a sequence with its OLDEST entry first: list_add  *)
(* (insert after the head) appends, list_last_entry (the tail) is the      *)
(* first element, list_splice_tail puts the spliced list in front, and     *)
(* list_for_each_prev runs from the first element to the last.             *)
(*                                                                         *)
(* Messages are numbered; the number stands for struct message and its     *)
(* data.  A write that is delayed allocates one struct work, which is      *)
(* known by the number of the message whose write allocated it.            *)
(***************************************************************************)
EXTENDS DeviceFlags, Integers, Sequences, FiniteSets, SequencesExt

CONSTANTS
  Writers, Readers, Revokers,  \* threads, by the system call they make
  Worker,                      \* the thread of dev->delay_wq
  NoProc,                      \* the value of a semaphore nobody holds
  MaxMsgs,                     \* bound: write() calls over the whole run
  DelayArgs,                   \* arguments of IOCTL_SET_SEND_DELAY (ms)
  UINT_RANGE, MS_PER_JIFFY,    \* 2^32 and 1000/HZ in the kernel
  StorageSizes,                \* values /sys gives max_storage_size
  Faults                       \* what the kernel may refuse, see Refusals

Callers == Writers \cup Readers \cup Revokers
Procs   == Callers \cup {Worker}
Msgs    == 1..MaxMsgs
NULL    == 0
Refusals == {"kmalloc", "copy", "create_workqueue"}

ASSUME ThreadAssumption ==
  /\ Writers \cap Readers = {} /\ Writers \cap Revokers = {}
  /\ Readers \cap Revokers = {}
  /\ Worker \notin Callers /\ NoProc \notin Procs

ASSUME ParamAssumption ==
  /\ MaxMsgs \in Nat /\ DelayArgs \subseteq Int
  /\ StorageSizes \subseteq 0 .. UINT_RANGE - 1
  /\ UINT_RANGE \in Nat \ {0} /\ MS_PER_JIFFY \in Nat \ {0}
  /\ Faults \subseteq Refusals

VARIABLES
  message_list, pending_list,  \* Seq(Msgs), oldest first
  messages_number,             \* messages the device accounts for
  delay, max_storage_size,     \* jiffies; the module parameter
  sem,                         \* holder of message_sem, pending_sem, wq_sem
  delay_wq,                    \* did create_singlethread_workqueue succeed
  work,                        \* life of each struct work
  delay_list,                  \* works linked in dev->delay_list
  poisoned,                    \* works list_del left with poisoned links
  queue,                       \* works whose execution is due, in order
  running,                     \* the work Worker executes
  pc, msg,                     \* per process: next statement, its message
  pos, q, reg,                 \* locals of fflush_workqueue (wq_sem holder)
  fate,                        \* history: what became of each message
  stored,                      \* history: order of entry in message_list
  owed,                        \* history: messages a revocation must publish
  corrupted                    \* a freed or unlinked work was touched

listVars  == <<message_list, pending_list, messages_number, stored>>
paramVars == <<delay, max_storage_size, delay_wq>>
workVars  == <<work, delay_list, poisoned, queue, running>>
flushVars == <<pos, q, reg, owed>>
msgPriv   == <<listVars, paramVars, workVars, flushVars, sem, pc, msg, fate,
               corrupted>>
msgVars   == <<msgPriv, flags>>

MsgInit ==
  /\ message_list = <<>> /\ pending_list = <<>> /\ stored = <<>>
  /\ messages_number = 0
  /\ delay = 0 /\ max_storage_size \in StorageSizes
  /\ delay_wq \in IF "create_workqueue" \in Faults THEN BOOLEAN ELSE {TRUE}
  /\ sem = [s \in {"message_sem", "pending_sem", "wq_sem"} |-> NoProc]
  /\ work = [w \in Msgs |-> "none"]
  /\ delay_list = <<>> /\ poisoned = {} /\ queue = <<>> /\ running = NULL
  /\ pc = [p \in Procs |-> "idle"] /\ msg = [p \in Procs |-> NULL]
  /\ pos = NULL /\ q = NULL /\ reg = {}
  /\ fate = [m \in Msgs |-> "unborn"]
  /\ owed = [t \in Revokers |-> {}]
  /\ corrupted = FALSE

-----------------------------------------------------------------------------
(* Kernel services, as this code uses them.                                *)

list_add(new, list)           == Append(list, new)

(* Mutant: the newest entry instead of the oldest. *)
list_first_entry(list)        == Last(list)

list_last_entry(list)         == Head(list)
list_splice_tail(list, head)  == list \o head
list_del(entry, list) ==
  IF entry \in Range(list)
    THEN RemoveAt(list, CHOOSE i \in DOMAIN list : list[i] = entry)
    ELSE list

(* pos->prev of list_for_each_prev_safe; NULL when it is the head. *)
PrevEntry(list, entry) ==
  LET I == {i \in DOMAIN list : i > 1 /\ list[i - 1] = entry}
  IN  IF I = {} THEN NULL ELSE list[CHOOSE i \in I : TRUE]

(* Conversion to unsigned int. *)
uint(n) == n % UINT_RANGE

(* The parameter is an unsigned int and the result is rounded up. *)
msecs_to_jiffies(ms) == (uint(ms) + MS_PER_JIFFY - 1) \div MS_PER_JIFFY

(* Process p executes one statement.  Once memory is corrupted C promises  *)
(* nothing: nobody takes a step any more.                                  *)
Goto(p, from, to) ==
  ~corrupted /\ pc[p] = from /\ pc' = [pc EXCEPT ![p] = to]

(* down() blocks until the semaphore is free; up() frees it. *)
Down(p, s, from, to) ==
  /\ Goto(p, from, to)
  /\ sem[s] = NoProc /\ sem' = [sem EXCEPT ![s] = p]
  /\ UNCHANGED <<listVars, paramVars, workVars, flushVars, msg, fate,
                 corrupted, flags>>

Up(s) == sem' = [sem EXCEPT ![s] = NoProc]

-----------------------------------------------------------------------------
(* group_write                                                             *)

(* Arguments valid, data and message allocated.  The failures up to here   *)
(* return -1 and leave the device alone: they are no step of the model.    *)
group_write_enter(t) ==
  \E m \in Msgs :
    /\ Goto(t, "idle", "w_down")
    /\ fate[m] = "unborn" /\ \A k \in Msgs : k < m => fate[k] # "unborn"
    /\ fate' = [fate EXCEPT ![m] = "live"]
    /\ msg' = [msg EXCEPT ![t] = m]
    /\ UNCHANGED <<listVars, paramVars, workVars, flushVars, sem, corrupted,
                   flags>>

group_write_down(t) == Down(t, "message_sem", "w_down", "w_check")

(* No space: return 0.  copy_from_user fails: return -1.  Both free.       *)
group_write_fail(t) ==
  /\ Goto(t, "w_check", "idle")
  /\ messages_number >= max_storage_size \/ "copy" \in Faults
  /\ Up("message_sem")
  /\ fate' = [fate EXCEPT ![msg[t]] = "rejected"]
  /\ msg' = [msg EXCEPT ![t] = NULL]
  /\ UNCHANGED <<listVars, paramVars, workVars, flushVars, corrupted, flags>>

group_write_accept(t) ==
  /\ Goto(t, "w_check", "w_store")
  /\ messages_number < max_storage_size
  /\ UNCHANGED <<listVars, paramVars, workVars, flushVars, sem, msg, fate,
                 corrupted, flags>>

(* No delay: publish at once. *)
group_write_publish(t) ==
  /\ Goto(t, "w_store", "w_info")
  /\ delay = 0
  /\ messages_number' = uint(messages_number + 1)
  /\ message_list' = list_add(msg[t], message_list)
  /\ stored' = Append(stored, msg[t])
  /\ Up("message_sem")
  /\ UNCHANGED <<pending_list, paramVars, workVars, flushVars, msg, fate,
                 corrupted, flags>>

(* Mutant: only published messages are counted. *)
group_write_defer_uncounted(t) ==
  /\ Goto(t, "w_store", "p_down")
  /\ delay # 0
  /\ Up("message_sem")
  /\ UNCHANGED <<listVars, paramVars, workVars, flushVars, msg, fate,
                 corrupted, flags>>

(* Mutant: message_sem is kept while waiting for pending_sem. *)
group_write_defer_nested(t) ==
  /\ Goto(t, "w_store", "p_down")
  /\ delay # 0
  /\ messages_number' = uint(messages_number + 1)
  /\ UNCHANGED <<message_list, pending_list, stored, paramVars, workVars,
                 flushVars, sem, msg, fate, corrupted, flags>>

(* A delay is set: count the message and leave for the pending list. *)
group_write_defer(t) ==
  /\ Goto(t, "w_store", "p_down")
  /\ delay # 0
  /\ messages_number' = uint(messages_number + 1)
  /\ Up("message_sem")
  /\ UNCHANGED <<message_list, pending_list, stored, paramVars, workVars,
                 flushVars, msg, fate, corrupted, flags>>

group_write_pend_down(t) == Down(t, "pending_sem", "p_down", "p_add")

(* Mutant: the delayed work is forgotten. *)
group_write_pend_only(t) ==
  /\ Goto(t, "p_add", "w_info")
  /\ pending_list' = list_add(msg[t], pending_list)
  /\ Up("pending_sem")
  /\ UNCHANGED <<message_list, messages_number, stored, paramVars, workVars,
                 flushVars, msg, fate, corrupted, flags>>

group_write_pend(t) ==
  /\ Goto(t, "p_add", "k_alloc")
  /\ pending_list' = list_add(msg[t], pending_list)
  /\ Up("pending_sem")
  /\ UNCHANGED <<message_list, messages_number, stored, paramVars, workVars,
                 flushVars, msg, fate, corrupted, flags>>

(* The final info() prints data, then the call returns. *)
group_write_return(t) ==
  /\ Goto(t, "w_info", "idle")
  /\ msg' = [msg EXCEPT ![t] = NULL]
  /\ UNCHANGED <<listVars, paramVars, workVars, flushVars, sem, fate,
                 corrupted, flags>>

(* add_delayed_work                                                        *)

(* No workqueue, or no memory for the work: give up silently. *)
add_delayed_work_fail(t) ==
  /\ Goto(t, "k_alloc", "w_info")
  /\ ~delay_wq \/ "kmalloc" \in Faults
  /\ UNCHANGED <<listVars, paramVars, workVars, flushVars, sem, msg, fate,
                 corrupted, flags>>

add_delayed_work_alloc(t) ==
  /\ Goto(t, "k_alloc", "wq_down")
  /\ delay_wq
  /\ UNCHANGED <<listVars, paramVars, workVars, flushVars, sem, msg, fate,
                 corrupted, flags>>

add_delayed_work_down(t) == Down(t, "wq_sem", "wq_down", "q_work")

(* queue_delayed_work arms a timer, or queues the work when dev->delay,    *)
(* read again here, has become 0.                                          *)
add_delayed_work_queue(t) ==
  /\ Goto(t, "q_work", "l_add")
  /\ work' = [work EXCEPT ![msg[t]] = IF delay = 0 THEN "queued" ELSE "timer"]
  /\ queue' = IF delay = 0 THEN Append(queue, msg[t]) ELSE queue
  /\ UNCHANGED <<listVars, paramVars, delay_list, poisoned, running,
                 flushVars, sem, msg, fate, corrupted, flags>>

(* The worker unlinks works without wq_sem: an unlink of a neighbouring    *)
(* entry that is in progress may leave either list intact or broken.       *)
UnlinkRace(entries) ==
  pc[Worker] = "k_unlink" /\ running \in entries

(* The work may have run and been freed since it was queued. *)
add_delayed_work_list(t) ==
  /\ Goto(t, "l_add", "w_info")
  /\ delay_list' = list_add(msg[t], delay_list)
  /\ poisoned' = poisoned \ {msg[t]}
  /\ corrupted' \in
       IF work[msg[t]] = "freed" THEN {TRUE}
       ELSE IF delay_list # <<>> /\ UnlinkRace({Last(delay_list)})
              THEN BOOLEAN ELSE {FALSE}
  /\ Up("wq_sem")
  /\ UNCHANGED <<listVars, paramVars, work, queue, running, flushVars, msg,
                 fate, flags>>

-----------------------------------------------------------------------------
(* group_read                                                              *)

group_read_enter(t) ==
  /\ Goto(t, "idle", "r_down")
  /\ UNCHANGED <<listVars, paramVars, workVars, flushVars, sem, msg, fate,
                 corrupted, flags>>

group_read_down(t) == Down(t, "message_sem", "r_down", "r_look")

group_read_empty(t) ==
  /\ Goto(t, "r_look", "idle")
  /\ message_list = <<>>
  /\ Up("message_sem")
  /\ UNCHANGED <<listVars, paramVars, workVars, flushVars, msg, fate,
                 corrupted, flags>>

(* Mutant: no list_empty test, the head of the list is taken for a message. *)
group_read_look_unchecked(t) ==
  /\ Goto(t, "r_look", "r_take")
  /\ msg' = [msg EXCEPT ![t] = IF message_list = <<>> THEN -1
                               ELSE list_last_entry(message_list)]
  /\ UNCHANGED <<listVars, paramVars, workVars, flushVars, sem, fate,
                 corrupted, flags>>

group_read_look(t) ==
  /\ Goto(t, "r_look", "r_take")
  /\ message_list # <<>>
  /\ msg' = [msg EXCEPT ![t] = list_last_entry(message_list)]
  /\ UNCHANGED <<listVars, paramVars, workVars, flushVars, sem, fate,
                 corrupted, flags>>

group_read_take(t) ==
  /\ Goto(t, "r_take", "r_copy")
  /\ message_list' = list_del(msg[t], message_list)
  /\ messages_number' = uint(messages_number - 1)
  /\ Up("message_sem")
  /\ UNCHANGED <<pending_list, stored, paramVars, workVars, flushVars, msg,
                 fate, corrupted, flags>>

(* copy_to_user: on success the message is freed; on failure the call      *)
(* returns -1 and the message, already unlinked, is neither kept nor freed. *)
group_read_copy(t) ==
  /\ Goto(t, "r_copy", "idle")
  /\ \E outcome \in {"delivered"} \cup
                    (IF "copy" \in Faults THEN {"lost"} ELSE {}) :
       fate' = [fate EXCEPT ![msg[t]] = outcome]
  /\ msg' = [msg EXCEPT ![t] = NULL]
  /\ UNCHANGED <<listVars, paramVars, workVars, flushVars, sem, corrupted,
                 flags>>

-----------------------------------------------------------------------------
(* The workqueue and delayed_work_fun                                      *)

timer_expire(w) ==
  /\ ~corrupted
  /\ work[w] = "timer"
  /\ work' = [work EXCEPT ![w] = "queued"]
  /\ queue' = Append(queue, w)
  /\ UNCHANGED <<listVars, paramVars, delay_list, poisoned, running,
                 flushVars, sem, pc, msg, fate, corrupted, flags>>

worker_start ==
  /\ Goto(Worker, "idle", "d_down")
  /\ queue # <<>>
  /\ running' = Head(queue) /\ queue' = Tail(queue)
  /\ work' = [work EXCEPT ![Head(queue)] = "running"]
  /\ UNCHANGED <<listVars, paramVars, delay_list, poisoned, flushVars, sem,
                 msg, fate, corrupted, flags>>

(* Mutant: the pending list is read without its semaphore. *)
delayed_work_unlocked ==
  /\ Goto(Worker, "d_down", "d_look")
  /\ UNCHANGED <<listVars, paramVars, workVars, flushVars, sem, msg, fate,
                 corrupted, flags>>

delayed_work_pend_down == Down(Worker, "pending_sem", "d_down", "d_look")

(* Mutant: while flushing, everything is left to fflush_workqueue. *)
delayed_work_skip ==
  /\ Goto(Worker, "d_look", "d_exit")
  /\ pending_list = <<>> \/ is_flushing
  /\ Up("pending_sem")
  /\ UNCHANGED <<listVars, paramVars, workVars, flushVars, msg, fate,
                 corrupted, flags>>

delayed_work_empty ==
  /\ Goto(Worker, "d_look", "d_exit")
  /\ pending_list = <<>>
  /\ Up("pending_sem")
  /\ UNCHANGED <<listVars, paramVars, workVars, flushVars, msg, fate,
                 corrupted, flags>>

delayed_work_look ==
  /\ Goto(Worker, "d_look", "d_take")
  /\ pending_list # <<>>
  /\ msg' = [msg EXCEPT ![Worker] = list_last_entry(pending_list)]
  /\ UNCHANGED <<listVars, paramVars, workVars, flushVars, sem, fate,
                 corrupted, flags>>

delayed_work_take ==
  /\ Goto(Worker, "d_take", "d_mdown")
  /\ pending_list' = list_del(msg[Worker], pending_list)
  /\ Up("pending_sem")
  /\ UNCHANGED <<message_list, messages_number, stored, paramVars, workVars,
                 flushVars, msg, fate, corrupted, flags>>

delayed_work_msg_down == Down(Worker, "message_sem", "d_mdown", "d_add")

delayed_work_publish ==
  /\ Goto(Worker, "d_add", "d_exit")
  /\ message_list' = list_add(msg[Worker], message_list)
  /\ stored' = Append(stored, msg[Worker])
  /\ Up("message_sem")
  /\ UNCHANGED <<pending_list, messages_number, paramVars, workVars,
                 flushVars, msg, fate, corrupted, flags>>

(* info() prints the message that was moved, then the exit label tests     *)
(* FLUSHING_BIT: unlink the work only when it is not set.                  *)
delayed_work_exit ==
  /\ Goto(Worker, "d_exit", IF is_flushing THEN "k_free" ELSE "k_unlink")
  /\ msg' = [msg EXCEPT ![Worker] = NULL]
  /\ UNCHANGED <<listVars, paramVars, workVars, flushVars, sem, fate,
                 corrupted, flags>>

(* list_del without wq_sem: following poisoned links is a fault. *)
delayed_work_unlink ==
  /\ Goto(Worker, "k_unlink", "k_free")
  /\ delay_list' = list_del(running, delay_list)
  /\ poisoned' = poisoned \cup {running}
  /\ corrupted' = (running \in poisoned)
  /\ UNCHANGED <<listVars, paramVars, work, queue, running, flushVars, sem,
                 msg, fate, flags>>

(* kfree: a work that is still linked leaves delay_list dangling. *)
delayed_work_free ==
  /\ Goto(Worker, "k_free", "idle")
  /\ work' = [work EXCEPT ![running] = "freed"]
  /\ running' = NULL
  /\ corrupted' = (running \in Range(delay_list))
  /\ UNCHANGED <<listVars, paramVars, delay_list, poisoned, queue, flushVars,
                 sem, msg, fate, flags>>

-----------------------------------------------------------------------------
(* IOCTL_SET_SEND_DELAY, the /sys parameter, IOCTL_REVOKE_DELAYED_MESSAGES *)

(* A negative argument is refused.  Neither store takes a semaphore.       *)
_set_delay(arg) ==
  /\ ~corrupted
  /\ arg >= 0
  /\ delay' = msecs_to_jiffies(arg)
  /\ UNCHANGED <<listVars, max_storage_size, delay_wq, workVars, flushVars,
                 sem, pc, msg, fate, corrupted, flags>>

set_max_storage_size(n) ==
  /\ ~corrupted
  /\ max_storage_size' = n
  /\ UNCHANGED <<listVars, delay, delay_wq, workVars, flushVars, sem, pc, msg,
                 fate, corrupted, flags>>

(* The message delayed_work_fun has taken from pending_list, in neither    *)
(* list until it is published.                                             *)
WorkerHand == IF pc[Worker] \in {"d_mdown", "d_add"} THEN {msg[Worker]} ELSE {}

fflush_enter(t) ==
  /\ Goto(t, "idle", "f_pdown")
  /\ owed' = [owed EXCEPT ![t] = Range(pending_list) \cup WorkerHand]
  /\ UNCHANGED <<listVars, paramVars, workVars, pos, q, reg, sem, msg, fate,
                 corrupted, flags>>

_fflush_pend_down(t) == Down(t, "pending_sem", "f_pdown", "f_mdown")
_fflush_msg_down(t)  == Down(t, "message_sem", "f_mdown", "f_splice")

(* list_splice_tail_init, then both semaphores are released. *)
_fflush_splice(t) ==
  /\ Goto(t, "f_splice", "f_check")
  /\ message_list' = list_splice_tail(pending_list, message_list)
  /\ pending_list' = <<>>
  /\ stored' = stored \o pending_list
  /\ sem' = [sem EXCEPT !["pending_sem"] = NoProc, !["message_sem"] = NoProc]
  /\ UNCHANGED <<messages_number, paramVars, workVars, flushVars, msg, fate,
                 corrupted, flags>>

(* Mutant: the works are not flushed, only the pending list is spliced. *)
fflush_splice_only(t) ==
  /\ Goto(t, "f_check", "idle")
  /\ owed' = [owed EXCEPT ![t] = {}]
  /\ UNCHANGED <<listVars, paramVars, workVars, pos, q, reg, sem, msg, fate,
                 corrupted, flags>>

(* No workqueue: done. *)
fflush_no_wq(t) ==
  /\ Goto(t, "f_check", "idle")
  /\ ~delay_wq
  /\ owed' = [owed EXCEPT ![t] = {}]
  /\ UNCHANGED <<listVars, paramVars, workVars, pos, q, reg, sem, msg, fate,
                 corrupted, flags>>

(* Mutant: the works are flushed without wq_sem. *)
fflush_unlocked(t) ==
  /\ Goto(t, "f_check", "f_load")
  /\ delay_wq
  /\ UNCHANGED <<listVars, paramVars, workVars, flushVars, sem, msg, fate,
                 corrupted, flags>>

fflush_down(t) == delay_wq /\ Down(t, "wq_sem", "f_check", "f_load")

set_flushing_load(t) ==
  /\ Goto(t, "f_load", "f_set")
  /\ reg' = flags
  /\ UNCHANGED <<listVars, paramVars, workVars, pos, q, owed, sem, msg, fate,
                 corrupted, flags>>

set_flushing_store(t) ==
  /\ Goto(t, "f_set", "f_first")
  /\ flags' = set_bit(reg, FLUSHING_BIT)
  /\ reg' = {}
  /\ UNCHANGED <<listVars, paramVars, workVars, pos, q, owed, sem, msg, fate,
                 corrupted>>

(* Mutant: only the oldest work is flushed. *)
fflush_first_only(t) ==
  /\ Goto(t, "f_first", IF delay_list = <<>> THEN "f_drain" ELSE "f_unlink")
  /\ pos' = IF delay_list = <<>> THEN NULL ELSE Head(delay_list)
  /\ q' = NULL
  /\ UNCHANGED <<listVars, paramVars, workVars, reg, owed, sem, msg, fate,
                 corrupted, flags>>

(* Empty list: nothing to flush.  Otherwise pos and q of the safe loop.    *)
fflush_first(t) ==
  /\ Goto(t, "f_first", IF delay_list = <<>> THEN "f_drain" ELSE "f_unlink")
  /\ pos' = IF delay_list = <<>> THEN NULL ELSE Head(delay_list)
  /\ q' = IF delay_list = <<>> THEN NULL
          ELSE PrevEntry(delay_list, Head(delay_list))
  /\ UNCHANGED <<listVars, paramVars, workVars, reg, owed, sem, msg, fate,
                 corrupted, flags>>

(* list_del: a fault if the worker unlinked pos in the meantime. *)
fflush_unlink(t) ==
  /\ Goto(t, "f_unlink", "f_flush")
  /\ delay_list' = list_del(pos, delay_list)
  /\ poisoned' = poisoned \cup {pos}
  /\ corrupted' \in
       IF pos \notin Range(delay_list) THEN {TRUE}
       ELSE IF UnlinkRace({pos, PrevEntry(delay_list, pos)})
              THEN BOOLEAN ELSE {FALSE}
  /\ UNCHANGED <<listVars, paramVars, work, queue, running, flushVars, sem,
                 msg, fate, flags>>

(* flush_delayed_work: a pending timer is cancelled and the work queued at *)
(* once; touching a work that was freed is a fault.                        *)
fflush_flush(t) ==
  /\ Goto(t, "f_flush", "f_wait")
  /\ corrupted' = (work[pos] = "freed")
  /\ work' = IF work[pos] = "timer" THEN [work EXCEPT ![pos] = "queued"]
             ELSE work
  /\ queue' = IF work[pos] = "timer" THEN Append(queue, pos) ELSE queue
  /\ UNCHANGED <<listVars, paramVars, delay_list, poisoned, running,
                 flushVars, sem, msg, fate, flags>>

(* ... and it returns when the work has been executed.  The loop moves on  *)
(* to the entry saved in q: a fault if the worker unlinked it meanwhile.   *)
fflush_next(t) ==
  /\ Goto(t, "f_wait", IF q = NULL THEN "f_drain" ELSE "f_unlink")
  /\ work[pos] = "freed"
  /\ pos' = q
  /\ q' = PrevEntry(delay_list, q)
  /\ corrupted' = (q # NULL /\ q \notin Range(delay_list))
  /\ UNCHANGED <<listVars, paramVars, workVars, reg, owed, sem, msg, fate,
                 flags>>

(* drain_workqueue *)
fflush_drain(t) ==
  /\ Goto(t, "f_drain", "f_cload")
  /\ queue = <<>> /\ pc[Worker] = "idle"
  /\ UNCHANGED <<listVars, paramVars, workVars, flushVars, sem, msg, fate,
                 corrupted, flags>>

clear_flushing_load(t) ==
  /\ Goto(t, "f_cload", "f_clear")
  /\ reg' = flags
  /\ UNCHANGED <<listVars, paramVars, workVars, pos, q, owed, sem, msg, fate,
                 corrupted, flags>>

(* Mutant: the whole byte is cleared. *)
clear_flags_store(t) ==
  /\ Goto(t, "f_clear", "idle")
  /\ flags' = {} /\ reg' = {}
  /\ owed' = [owed EXCEPT ![t] = {}]
  /\ Up("wq_sem")
  /\ UNCHANGED <<listVars, paramVars, workVars, pos, q, msg, fate, corrupted>>

(* clear_flushing, up(wq_sem), return. *)
clear_flushing_store(t) ==
  /\ Goto(t, "f_clear", "idle")
  /\ flags' = clear_bit(reg, FLUSHING_BIT)
  /\ reg' = {}
  /\ owed' = [owed EXCEPT ![t] = {}]
  /\ Up("wq_sem")
  /\ UNCHANGED <<listVars, paramVars, workVars, pos, q, msg, fate, corrupted>>

-----------------------------------------------------------------------------
(* The specification                                                       *)

EnterCall ==
  \/ \E t \in Writers : group_write_enter(t)
  \/ \E t \in Readers : group_read_enter(t)
  \/ \E t \in Revokers : fflush_enter(t)

WriteStep(t) ==
  \/ group_write_down(t) \/ group_write_fail(t) \/ group_write_accept(t)
  \/ group_write_publish(t) \/ group_write_defer(t)
  \/ group_write_pend_down(t) \/ group_write_pend(t)
  \/ add_delayed_work_fail(t) \/ add_delayed_work_alloc(t)
  \/ add_delayed_work_down(t) \/ add_delayed_work_queue(t)
  \/ add_delayed_work_list(t) \/ group_write_return(t)

ReadStep(t) ==
  \/ group_read_down(t) \/ group_read_empty(t) \/ group_read_look(t)
  \/ group_read_take(t) \/ group_read_copy(t)

FlushStep(t) ==
  \/ _fflush_pend_down(t) \/ _fflush_msg_down(t) \/ _fflush_splice(t)
  \/ fflush_no_wq(t) \/ fflush_down(t)
  \/ set_flushing_load(t) \/ set_flushing_store(t)
  \/ fflush_first(t) \/ fflush_unlink(t) \/ fflush_flush(t)
  \/ fflush_next(t) \/ fflush_drain(t)
  \/ clear_flushing_load(t) \/ clear_flushing_store(t)

WorkerStep ==
  \/ worker_start
  \/ delayed_work_pend_down \/ delayed_work_empty \/ delayed_work_look
  \/ delayed_work_take \/ delayed_work_msg_down \/ delayed_work_publish
  \/ delayed_work_exit \/ delayed_work_unlink \/ delayed_work_free

MsgNext ==
  \/ EnterCall
  \/ \E t \in Writers : WriteStep(t)
  \/ \E t \in Readers : ReadStep(t)
  \/ \E t \in Revokers : FlushStep(t)
  \/ WorkerStep
  \/ \E w \in Msgs : timer_expire(w)
  \/ \E arg \in DelayArgs : _set_delay(arg)
  \/ \E n \in StorageSizes : set_max_storage_size(n)

MessagingInit == MsgInit /\ FlagsInit

MsgSpec == MessagingInit /\ [][MsgNext]_msgVars

(* A thread inside a call keeps running and a timer expires.  Acquisition  *)
(* is strongly fair: a kernel semaphore queues its waiters and up() hands  *)
(* it to the first.  Nothing makes a thread call, or set a delay.          *)
MsgFairness ==
  /\ \A t \in Writers : SF_msgVars(WriteStep(t))
  /\ \A t \in Readers : SF_msgVars(ReadStep(t))
  /\ \A t \in Revokers : SF_msgVars(FlushStep(t))
  /\ SF_msgVars(WorkerStep)
  /\ \A w \in Msgs : WF_msgVars(timer_expire(w))

FairMsgSpec == MsgSpec /\ MsgFairness

-----------------------------------------------------------------------------
(* Properties                                                              *)

WritePcs  == {"w_down", "w_check", "w_store", "p_down", "p_add", "k_alloc",
              "wq_down", "q_work", "l_add", "w_info"}
ReadPcs   == {"r_down", "r_look", "r_take", "r_copy"}
FlushPcs  == {"f_pdown", "f_mdown", "f_splice", "f_check", "f_load", "f_set",
              "f_first", "f_unlink", "f_flush", "f_wait", "f_drain",
              "f_cload", "f_clear"}
WorkerPcs == {"d_down", "d_look", "d_take", "d_mdown", "d_add", "d_exit",
              "k_unlink", "k_free"}

(* Every variable of the device has the type struct group_dev gives it,    *)
(* and a process only reaches the statements of the function it runs.      *)
MsgTypeOK ==
  /\ flags \subseteq Bits /\ reg \subseteq Bits
  /\ message_list \in Seq(Msgs) /\ pending_list \in Seq(Msgs)
  /\ stored \in Seq(Msgs) /\ delay_list \in Seq(Msgs) /\ queue \in Seq(Msgs)
  /\ messages_number \in 0 .. UINT_RANGE - 1 /\ delay \in Nat
  /\ max_storage_size \in StorageSizes /\ delay_wq \in BOOLEAN
  /\ sem \in [{"message_sem", "pending_sem", "wq_sem"} -> Procs \cup {NoProc}]
  /\ work \in [Msgs -> {"none", "timer", "queued", "running", "freed"}]
  /\ poisoned \subseteq Msgs
  /\ running \in Msgs \cup {NULL}
  /\ pos \in Msgs \cup {NULL} /\ q \in Msgs \cup {NULL}
  /\ pc \in [Procs -> {"idle"} \cup WritePcs \cup ReadPcs \cup FlushPcs
                        \cup WorkerPcs]
  /\ \A t \in Writers : pc[t] \in {"idle"} \cup WritePcs
  /\ \A t \in Readers : pc[t] \in {"idle"} \cup ReadPcs
  /\ \A t \in Revokers : pc[t] \in {"idle"} \cup FlushPcs
  /\ pc[Worker] \in {"idle"} \cup WorkerPcs
  /\ msg \in [Procs -> Msgs \cup {NULL}]
  /\ fate \in [Msgs -> {"unborn", "live", "rejected", "delivered", "lost"}]
  /\ owed \in [Revokers -> SUBSET Msgs]
  /\ corrupted \in BOOLEAN

(* The process that carries a live message outside both lists.             *)
Carries(p) ==
  pc[p] \in {"w_down", "w_check", "w_store", "p_down", "p_add", "r_copy",
             "d_mdown", "d_add"}

(* Exactly-once: a message whose write was neither refused nor answered    *)
(* by a completed read is in exactly one place (pending_list once,         *)
(* message_list once, or the hands of one process), and a finished one is  *)
(* nowhere.  So no read delivers a message twice and no interleaving of    *)
(* readers, delayed works and revocations drops or duplicates one.         *)
OnePlace ==
  /\ IsInjective(message_list) /\ IsInjective(pending_list)
  /\ Range(message_list) \cap Range(pending_list) = {}
  /\ \A p \in Procs : Carries(p) =>
       /\ msg[p] \in Msgs
       /\ msg[p] \notin Range(message_list) \cup Range(pending_list)
       /\ \A r \in Procs : Carries(r) /\ msg[r] = msg[p] => r = p
  /\ \A m \in Msgs : fate[m] = "live" <=>
       \/ m \in Range(message_list) \cup Range(pending_list)
       \/ \E p \in Procs : Carries(p) /\ msg[p] = m

(* The messages the device accounts for: written and not yet taken.        *)
Counted ==
  Range(message_list) \cup Range(pending_list) \cup WorkerHand
    \cup {msg[t] : t \in {u \in Writers : pc[u] \in {"p_down", "p_add"}}}

(* messages_number, incremented by writers and decremented by readers,     *)
(* is the number of stored, pending and moving messages, and never exceeds *)
(* the largest max_storage_size that was configured.                       *)
CountMatches ==
  /\ messages_number = Cardinality(Counted)
  /\ \E n \in StorageSizes : messages_number <= n

(* When revoke_delayed_messages() returns, every message that was pending, *)
(* or that the worker was moving, when it was called has been published.   *)
RevokeComplete ==
  [][\A t \in Revokers : pc[t] # "idle" /\ pc'[t] = "idle" =>
       owed[t] \cap (Range(pending_list') \cup WorkerHand') = {}]_msgVars

(* drain_workqueue is called with no timer armed: a timer that expired     *)
(* during the drain would find the queue closed and its work be dropped.   *)
NoTimerAtDrain ==
  \A t \in Revokers : pc[t] \in {"f_drain", "f_cload"} /\ ~corrupted =>
    \A w \in Msgs : work[w] # "timer"

(* FLUSHING_BIT is set exactly while fflush_workqueue executes the works:  *)
(* what delayed_work_fun relies on when it leaves the unlinking to it.     *)
FlushingBitMeansFlushing ==
  is_flushing <=>
    \E t \in Revokers : pc[t] \in {"f_first", "f_unlink", "f_flush", "f_wait",
                                   "f_drain", "f_cload", "f_clear"}

(* FIFO: the messages still stored are the last ones that were stored, in  *)
(* the order they were stored in; a read takes the oldest.                 *)
StoreOrder == IsSuffix(message_list, stored)

(* Every pending message has a work that will still move one, or a writer  *)
(* that is about to queue one.                                             *)
EnoughWorks ==
  Len(pending_list) <=
    Cardinality({w \in Msgs : work[w] \in {"timer", "queued"}})
    + Cardinality({t \in Writers : pc[t] \in {"k_alloc", "wq_down", "q_work"}})
    + (IF pc[Worker] \in {"d_down", "d_look", "d_take"} THEN 1 ELSE 0)

(* The comment in delayed_work_fun: list management "without crashes".  No *)
(* work is unlinked twice, or touched after it was freed.                  *)
NoCorruption == ~corrupted

(* A delayed message is published: the work queued by its own write, or by *)
(* another one, moves it.                                                  *)
DelayedIsPublished ==
  \A m \in Msgs : m \in Range(pending_list) ~>
                    (corrupted \/ m \notin Range(pending_list))

(* Nobody waits for ever: a thread that entered a call returns, whatever   *)
(* the other threads and the worker do.  The run has a writer and a        *)
(* revocation; group_read takes message_sem alone and waits for nothing    *)
(* while it holds it.                                                      *)
CallsReturn ==
  \A t \in Callers : pc[t] # "idle" ~> (corrupted \/ pc[t] = "idle")

-----------------------------------------------------------------------------
(* The mail slot a group device implements                                 *)

(* Accepted by group_write and not yet in a list. *)
Reserved ==
  {msg[t] : t \in {u \in Writers : pc[u] \in {"w_store", "p_down", "p_add"}}}

(* The worker's message comes first: it was the oldest when it was taken.  *)
Delayed ==
  (IF WorkerHand = {} THEN <<>> ELSE <<msg[Worker]>>) \o pending_list

(* Out of the store: in a reader's hand, copied, or lost in the copy. *)
Taken ==
  {m \in Msgs : fate[m] \in {"delivered", "lost"}}
    \cup {msg[t] : t \in {r \in Readers : pc[r] = "r_copy"}}

Slot == INSTANCE MailSlot WITH
  Limits   <- StorageSizes,
  MayFail  <- "copy" \in Faults,
  limit    <- max_storage_size,
  reserved <- Reserved,
  delayed  <- Delayed,
  queue    <- message_list,
  taken    <- Taken,
  refused  <- {m \in Msgs : fate[m] = "rejected"}

(* read, write, the delayed works and the revocation together are atomic   *)
(* operations on a bounded mail slot: whatever they interleave, a write is *)
(* accepted exactly when fewer messages than the limit are held, delayed   *)
(* messages are stored oldest first, a revocation misses at most the one   *)
(* message the worker is moving, and a read takes the oldest stored one.   *)
ImplementsMailSlot == Slot!SlotSpec
=============================================================================
