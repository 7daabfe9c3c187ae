------------------------------ MODULE Ordinary ------------------------------
(***************************************************************************)
(* A program that uses one group: lib/mt_ordinary.c and its variant        *)
(* without the semaphore, lib/mt_ordinary_chaotic.c, through send_message, *)
(* retrieve_message, sleep_on_barrier and awake_barrier of lib/tsm_lib.c.  *)
(*                                                                         *)
(* Every system call is one operation of the device as MailSlot and        *)
(* SleepBarrier specify it (a write that succeeds is two, Accept and       *)
(* Store).  The program is alone on its group and sets no delay.           *)
(*                                                                         *)
(* SleepBarrier does not promise that an awake reaches every sleeper, and  *)
(* group_unlocked_ioctl does not guarantee it (see the run stranded): which *)
(* sleepers an awake misses is a choice of the awake here.                 *)
(***************************************************************************)
EXTENDS MailSlot, SleepBarrier

CONSTANTS
  Programs,            \* which of the two programs, see Variants
  MaxWrites, MaxReads, \* bounds of to_write and to_read (6 in the code)
  Nobody               \* the value of a semaphore nobody holds

Variants == {"ordinary", "chaotic"}

ASSUME ProgramAssumption ==
  /\ Programs \subseteq Variants /\ Nobody \notin Threads
  /\ MaxWrites \in Nat /\ MaxReads \in Nat /\ Msgs \subseteq Nat

VARIABLES
  program,
  sem,                 \* the thread between sem_wait and sem_post
  remaining_messages,
  tpc,                 \* per thread: next statement
  to_write, to_read,   \* per thread: iterations left
  hand,                \* per thread: what it has loaded, or is writing
  mpc, i,              \* main: next statement, loop counter
  late,                \* history: threads that sleep after main's awake
  stranded             \* sleepers the last awake did not wake

barrierVars == <<gateVars, stranded>>
threadVars  == <<to_write, to_read, hand>>
progVars    == <<program, sem, remaining_messages, tpc, threadVars, mpc, i,
                 late>>
ordVars     == <<slotVars, barrierVars, progVars>>

(* main has opened the group and initialised the semaphore.  When the open *)
(* fails the program ends at once: no step.                                *)
OrdinaryInit ==
  /\ SlotInit /\ GateInit
  /\ program \in Programs /\ sem = Nobody /\ remaining_messages = 0
  /\ tpc = [t \in Threads |-> "none"]
  /\ to_write = [t \in Threads |-> 0] /\ to_read = [t \in Threads |-> 0]
  /\ hand = [t \in Threads |-> 0]
  /\ mpc = "create" /\ i = 0 /\ late = {} /\ stranded = {}

Go(t, from, to) ==
  /\ mpc # "exited"
  /\ tpc[t] = from /\ tpc' = [tpc EXCEPT ![t] = to]
  /\ UNCHANGED <<program, mpc, i>>

-----------------------------------------------------------------------------
(* thread_fun                                                              *)

(* Mutant: the semaphore is initialised to more than one. *)
sem_wait_open(t) ==
  /\ Go(t, "wait", "load")
  /\ sem' = t
  /\ UNCHANGED <<slotVars, barrierVars, remaining_messages, threadVars, late>>

sem_wait(t) ==
  /\ Go(t, "wait", "load")
  /\ sem = Nobody /\ sem' = t
  /\ UNCHANGED <<slotVars, barrierVars, remaining_messages, threadVars, late>>

(* The random plan of the thread, and its sum into remaining_messages:     *)
(* load and store, protected by the semaphore in the one program only.     *)
plan_load(t) ==
  /\ Go(t, "load", "plan")
  /\ \E w \in 0 .. MaxWrites : to_write' = [to_write EXCEPT ![t] = w]
  /\ \E r \in 0 .. MaxReads : to_read' = [to_read EXCEPT ![t] = r]
  /\ hand' = [hand EXCEPT ![t] = remaining_messages]
  /\ UNCHANGED <<slotVars, barrierVars, sem, remaining_messages, late>>

plan_store(t) ==
  /\ Go(t, "plan", "write")
  /\ remaining_messages' = hand[t] + to_write[t] - to_read[t]
  /\ hand' = [hand EXCEPT ![t] = 0]
  /\ UNCHANGED <<slotVars, barrierVars, sem, to_write, to_read, late>>

(* The next message to be written. *)
NextMsg(m) == Fresh(m) /\ \A k \in Msgs : k < m => ~Fresh(k)

(* send_message: write() accepts the message and stores it ... *)
send_message(t) ==
  /\ Go(t, "write", "store") /\ to_write[t] > 0
  /\ \E m \in Msgs :
       NextMsg(m) /\ Accept(m) /\ hand' = [hand EXCEPT ![t] = m]
  /\ UNCHANGED <<barrierVars, sem, remaining_messages, to_write, to_read, late>>

send_message_stored(t) ==
  /\ Go(t, "store", "write")
  /\ Store(hand[t]) /\ hand' = [hand EXCEPT ![t] = 0]
  /\ to_write' = [to_write EXCEPT ![t] = @ - 1]
  /\ UNCHANGED <<barrierVars, sem, remaining_messages, to_read, late>>

(* ... or returns 0 because there is no space, which the loop does not     *)
(* take for an error ...                                                   *)
send_message_full(t) ==
  /\ Go(t, "write", "write") /\ to_write[t] > 0
  /\ Full /\ \E m \in Msgs : NextMsg(m) /\ Refuse(m)
  /\ to_write' = [to_write EXCEPT ![t] = @ - 1]
  /\ UNCHANGED <<barrierVars, sem, remaining_messages, to_read, hand, late>>

(* ... or fails: the thread ends where it is, without sem_post.            *)
send_message_error(t) ==
  /\ Go(t, "write", "end") /\ to_write[t] > 0
  /\ MayFail /\ \E m \in Msgs : NextMsg(m) /\ Refuse(m)
  /\ UNCHANGED <<barrierVars, sem, remaining_messages, threadVars, late>>

written(t) ==
  /\ Go(t, "write", "read") /\ to_write[t] = 0
  /\ UNCHANGED <<slotVars, barrierVars, sem, remaining_messages, threadVars,
                 late>>

retrieve_message(t) ==
  /\ Go(t, "read", "read") /\ to_read[t] > 0
  /\ Receive
  /\ to_read' = [to_read EXCEPT ![t] = @ - 1]
  /\ UNCHANGED <<barrierVars, sem, remaining_messages, to_write, hand, late>>

(* copy_to_user fails: the message is lost and the thread ends as above. *)
retrieve_message_error(t) ==
  /\ Go(t, "read", "end") /\ to_read[t] > 0
  /\ MayFail /\ Receive
  /\ UNCHANGED <<barrierVars, sem, remaining_messages, threadVars, late>>

(* As many as planned were read, or there is no more. *)
read_enough(t) ==
  /\ Go(t, "read", "awake")
  /\ to_read[t] = 0 \/ queue = <<>>
  /\ to_read' = [to_read EXCEPT ![t] = 0]
  /\ UNCHANGED <<slotVars, barrierVars, sem, remaining_messages, to_write, hand,
                 late>>

(* IOCTL_AWAKE_BARRIER takes the barrier down; waitqueue_active may be read *)
(* before the store is visible, so that a thread that has just seen the    *)
(* barrier up and gone to sleep is not in the queue that is woken.  When a *)
(* thread went to sleep is no state here: any sleeper may be missed.       *)
AwakeSome == Awake /\ stranded' \in SUBSET waiting

Rested(t) == Go(t, "awake", IF program = "ordinary" THEN "post" ELSE "bed")

awake_barrier(t) ==
  /\ Rested(t) /\ AwakeSome
  /\ UNCHANGED <<slotVars, sem, remaining_messages, threadVars, late>>

leave_barrier_up(t) ==
  /\ Rested(t)
  /\ UNCHANGED <<slotVars, barrierVars, sem, remaining_messages, threadVars,
                 late>>

sem_post(t) ==
  /\ Go(t, "post", "bed")
  /\ sem' = Nobody
  /\ UNCHANGED <<slotVars, barrierVars, remaining_messages, threadVars, late>>

sleep_on_barrier(t) ==
  /\ Go(t, "bed", "asleep") /\ Sleep(t)
  /\ late' = IF mpc \in {"create", "nap"} THEN late ELSE late \cup {t}
  /\ UNCHANGED <<slotVars, stranded, sem, remaining_messages, threadVars>>

stay_up(t) ==
  /\ Go(t, "bed", "end")
  /\ UNCHANGED <<slotVars, barrierVars, sem, remaining_messages, threadVars,
                 late>>

(* A thread that was woken finds the barrier down. *)
wake_up(t) ==
  /\ Go(t, "asleep", "end") /\ t \notin stranded /\ Leave(t)
  /\ UNCHANGED <<slotVars, stranded, sem, remaining_messages, threadVars, late>>

-----------------------------------------------------------------------------
(* main                                                                    *)

Main(from, to) ==
  /\ mpc = from /\ mpc' = to
  /\ UNCHANGED <<program, sem, remaining_messages, threadVars, late>>

main_create(t) ==
  /\ tpc[t] = "none"
  /\ tpc' = [tpc EXCEPT ![t] = IF program = "ordinary" THEN "wait" ELSE "load"]
  /\ Main("create", IF \A u \in Threads \ {t} : tpc[u] # "none" THEN "nap"
                    ELSE "create")
  /\ UNCHANGED <<slotVars, barrierVars, i>>

(* pthread_create fails: main returns, and the process ends with it. *)
main_create_error ==
  /\ Main("create", "exited") /\ MayFail
  /\ UNCHANGED <<slotVars, barrierVars, tpc, i>>

(* Mutant: main waits for the threads without awaking them. *)
main_join_asleep ==
  /\ Main("nap", "join")
  /\ UNCHANGED <<slotVars, barrierVars, tpc, i>>

(* sleep(8) is over, whatever the threads have done by then. *)
main_awake ==
  /\ Main("nap", "join") /\ AwakeSome
  /\ UNCHANGED <<slotVars, tpc, i>>

main_join ==
  /\ Main("join", "drain") /\ \A t \in Threads : tpc[t] = "end"
  /\ UNCHANGED <<slotVars, barrierVars, tpc, i>>

(* The messages main believes to be left. *)
main_drain ==
  /\ Main("drain", "drain") /\ i < remaining_messages
  /\ Receive /\ i' = i + 1
  /\ UNCHANGED <<barrierVars, tpc>>

main_drain_error ==
  /\ Main("drain", "exited") /\ i < remaining_messages
  /\ MayFail /\ Receive
  /\ UNCHANGED <<barrierVars, tpc, i>>

main_end ==
  /\ Main("drain", "exited")
  /\ i >= remaining_messages \/ queue = <<>>
  /\ UNCHANGED <<slotVars, barrierVars, tpc, i>>

-----------------------------------------------------------------------------
(* The specification                                                       *)

ThreadStep(t) ==
  \/ sem_wait(t) \/ plan_load(t) \/ plan_store(t)
  \/ send_message(t) \/ send_message_stored(t) \/ send_message_full(t)
  \/ send_message_error(t) \/ written(t)
  \/ retrieve_message(t) \/ retrieve_message_error(t) \/ read_enough(t)
  \/ awake_barrier(t) \/ leave_barrier_up(t) \/ sem_post(t)
  \/ sleep_on_barrier(t) \/ stay_up(t) \/ wake_up(t)

MainStep ==
  \/ \E t \in Threads : main_create(t)
  \/ main_create_error \/ main_awake \/ main_join
  \/ main_drain \/ main_drain_error \/ main_end

OrdinaryNext ==
  \/ \E t \in Threads : ThreadStep(t)
  \/ MainStep
  \/ \E n \in Limits : Reconfigure(n) /\ mpc # "exited"
                        /\ UNCHANGED <<barrierVars, progVars>>

(* Threads that can run do run, and sleep() ends.  A sleeper can run when  *)
(* an awake has reached it; no fairness makes an awake reach it.           *)
OrdinarySpec ==
  /\ OrdinaryInit /\ [][OrdinaryNext]_ordVars
  /\ \A t \in Threads : WF_ordVars(ThreadStep(t))
  /\ WF_ordVars(MainStep)

-----------------------------------------------------------------------------
(* Properties                                                              *)

(* remaining_messages never promises too much: as long as no write was     *)
(* refused, every message main goes on to read after the join is there,    *)
(* although threads plan more reads than they can make.  This rests on the *)
(* semaphore; the chaotic program loses updates of the counter.            *)
DrainFindsMessages ==
  program = "ordinary" /\ refused = {} /\ mpc = "drain"
    /\ i < remaining_messages => queue # <<>>

(* A thread left through the exit label while it held the semaphore. *)
SemLeaked == sem # Nobody /\ tpc[sem] = "end"

(* The program ends, unless a thread went to bed after the one awake main  *)
(* sends (sleep(8) was too short), a failed call made a thread end with    *)
(* the semaphore, or an awake of group_unlocked_ioctl missed a thread that *)
(* no later awake wakes: main and the threads do not wait for each other   *)
(* for ever in any other way, whoever awakes and sleeps in between.        *)
ProgramEnds ==
  \/ <>(mpc = "exited" \/ late # {} \/ SemLeaked)
  \/ \E t \in Threads : <>[](t \in stranded)
=============================================================================
