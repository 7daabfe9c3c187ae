--------------------------- MODULE OrdinaryProofs ---------------------------
(***************************************************************************)
(* The program mt_ordinary: main finds the messages it goes on to read     *)
(* after the join.                                                         *)
(***************************************************************************)
EXTENDS Ordinary, TLAPS

(* The statements of thread_fun between sem_wait and sem_post. *)
CriticalPcs == {"load", "plan", "write", "store", "read", "awake", "post"}

(* Where a thread has announced writes and reads it has not made yet. *)
ActivePcs == {"write", "store", "read"}

OrdTypeOK ==
  /\ tpc \in [Threads -> CriticalPcs \cup {"none", "wait", "bed", "asleep",
                                           "end"}]
  /\ to_write \in [Threads -> Nat] /\ to_read \in [Threads -> Nat]
  /\ hand \in [Threads -> Int]
  /\ remaining_messages \in Int /\ i \in Nat
  /\ reserved \subseteq Msgs /\ queue \in Seq(Msgs)
  /\ \A t \in Threads : tpc[t] = "store" => to_write[t] > 0

(* The semaphore lets one thread at a time between wait and post. *)
SemInv == \A t \in Threads : tpc[t] \in CriticalPcs => sem = t

(* main counts the messages it reads when the threads have ended. *)
PhaseInv ==
  /\ mpc \in {"create", "nap", "join", "drain"}
  /\ mpc # "drain" => i = 0
  /\ mpc = "drain" => \A t \in Threads : tpc[t] = "end"

(* What the counter promises is stored, or main has read it, or the thread *)
(* in the critical section will write it; and that thread may still read   *)
(* as many as it has announced.                                            *)
PromiseInv ==
  /\ (\A t \in Threads : tpc[t] \notin ActivePcs) =>
       remaining_messages <= Len(queue) + i
  /\ \A t \in Threads :
       /\ tpc[t] = "plan" => hand[t] = remaining_messages
       /\ tpc[t] \in {"write", "store"} =>
            remaining_messages + to_read[t] <= Len(queue) + to_write[t]
       /\ tpc[t] = "read" => remaining_messages + to_read[t] <= Len(queue)

(* Of the program without the semaphore nothing is claimed. *)
OrdInv ==
  /\ OrdTypeOK
  /\ program = "ordinary" /\ mpc # "exited" =>
       /\ SemInv /\ PhaseInv
       /\ refused = {} => PromiseInv

-----------------------------------------------------------------------------
(* What the operations of the device do to the stored messages             *)

(* A receive takes one of the stored messages. *)
LEMMA ReceiveOne ==
  ASSUME queue \in Seq(Msgs), Receive
  PROVE  /\ queue' \in Seq(Msgs) /\ Len(queue') = Len(queue) - 1
         /\ reserved' = reserved /\ refused' = refused
  BY DEF Receive

(* A store adds the accepted message. *)
LEMMA StoreOne ==
  ASSUME queue \in Seq(Msgs), reserved \subseteq Msgs, NEW m, Store(m)
  PROVE  /\ queue' \in Seq(Msgs) /\ Len(queue') = Len(queue) + 1
         /\ reserved' \subseteq Msgs /\ refused' = refused
  BY DEF Store

(* The other operations store and take nothing, and a refusal is recorded. *)
LEMMA NothingStored ==
  ASSUME reserved \subseteq Msgs
  PROVE  /\ UNCHANGED slotVars =>
              UNCHANGED <<queue, refused>> /\ reserved' \subseteq Msgs
         /\ \A m \in Msgs :
              /\ Accept(m) =>
                   UNCHANGED <<queue, refused>> /\ reserved' \subseteq Msgs
              /\ Refuse(m) => /\ queue' = queue /\ refused' # {}
                              /\ reserved' \subseteq Msgs
         /\ \A n \in Limits : Reconfigure(n) =>
              UNCHANGED <<queue, refused>> /\ reserved' \subseteq Msgs
  BY DEF slotVars, Accept, Refuse, Reconfigure

-----------------------------------------------------------------------------
(* The inductive invariant                                                 *)

(* A thread moves alone, and main and the program stay where they are.     *)
LEMMA ThreadMoves ==
  ASSUME OrdTypeOK, NEW t \in Threads, ThreadStep(t)
  PROVE  /\ mpc # "exited" /\ UNCHANGED <<program, mpc, i>>
         /\ \A u \in Threads \ {t} :
              /\ tpc'[u] = tpc[u] /\ to_write'[u] = to_write[u]
              /\ to_read'[u] = to_read[u] /\ hand'[u] = hand[u]
         /\ tpc[t] \notin {"none", "end"} /\ tpc'[t] \notin {"none", "wait"}
<1> USE DEF OrdTypeOK, Go, threadVars
<1>1. CASE \/ sem_wait(t) \/ plan_load(t) \/ plan_store(t)
           \/ send_message(t) \/ send_message_stored(t)
           \/ send_message_full(t)
  BY <1>1 DEF sem_wait, plan_load, plan_store, send_message,
       send_message_stored, send_message_full
<1>2. CASE \/ send_message_error(t) \/ written(t)
           \/ retrieve_message(t) \/ retrieve_message_error(t)
           \/ read_enough(t)
  BY <1>2 DEF send_message_error, written, retrieve_message,
       retrieve_message_error, read_enough
<1>3. CASE \/ awake_barrier(t) \/ leave_barrier_up(t) \/ sem_post(t)
           \/ sleep_on_barrier(t) \/ stay_up(t) \/ wake_up(t)
  BY <1>3 DEF awake_barrier, leave_barrier_up, Rested, sem_post,
       sleep_on_barrier, stay_up, wake_up
<1> QED
  BY <1>1, <1>2, <1>3 DEF ThreadStep

(* Only the thread that waits for the semaphore enters, and it leaves it   *)
(* alone until it posts it, or for ever.                                   *)
LEMMA SemThread ==
  ASSUME OrdTypeOK, program = "ordinary", SemInv, NEW t \in Threads,
         ThreadStep(t)
  PROVE  SemInv'
<1>0. /\ t \in DOMAIN tpc
      /\ \A u \in Threads \ {t} : tpc'[u] = tpc[u]
  BY ThreadMoves DEF OrdTypeOK
<1> USE <1>0, ProgramAssumption DEF Go, SemInv, CriticalPcs
<1>1. CASE sem_wait(t)
  BY <1>1 DEF sem_wait
<1>2. CASE sem_post(t)
  BY <1>2 DEF sem_post
<1>3. CASE sem' = sem /\ (tpc'[t] \in CriticalPcs => tpc[t] \in CriticalPcs)
  BY <1>3
<1>4. CASE \/ plan_load(t) \/ plan_store(t) \/ send_message(t)
           \/ send_message_stored(t) \/ send_message_full(t)
           \/ send_message_error(t) \/ written(t) \/ retrieve_message(t)
  BY <1>3, <1>4 DEF plan_load, plan_store, send_message,
       send_message_stored, send_message_full, send_message_error, written,
       retrieve_message
<1>5. CASE \/ retrieve_message_error(t) \/ read_enough(t)
           \/ awake_barrier(t) \/ leave_barrier_up(t)
           \/ sleep_on_barrier(t) \/ stay_up(t) \/ wake_up(t)
  BY <1>3, <1>5 DEF retrieve_message_error, read_enough, awake_barrier,
       leave_barrier_up, Rested, sleep_on_barrier, stay_up, wake_up
<1> QED
  BY <1>1, <1>2, <1>4, <1>5 DEF ThreadStep

(* A step of a thread that neither stores nor takes a message and does not *)
(* touch the counter keeps the promise, if the thread promises nothing     *)
(* more after it.                                                          *)
LEMMA PromiseKept ==
  ASSUME OrdTypeOK, PromiseInv, NEW t \in Threads, ThreadStep(t),
         UNCHANGED <<queue, remaining_messages>>,
         tpc'[t] # "plan",
         \/ tpc[t] \notin ActivePcs /\ tpc'[t] \notin ActivePcs
         \/ /\ tpc[t] = "write" /\ tpc'[t] = "store"
            /\ to_write'[t] = to_write[t] /\ to_read'[t] = to_read[t]
         \/ /\ tpc[t] = "write" /\ tpc'[t] = "read" /\ to_write[t] = 0
            /\ to_read'[t] = to_read[t]
  PROVE  PromiseInv'
<1>1. /\ \A u \in Threads \ {t} :
           /\ tpc'[u] = tpc[u] /\ to_write'[u] = to_write[u]
           /\ to_read'[u] = to_read[u] /\ hand'[u] = hand[u]
      /\ i' = i
  BY ThreadMoves
<1>2. /\ to_write[t] \in Nat /\ to_read[t] \in Nat /\ Len(queue) \in Nat
      /\ remaining_messages \in Int
  BY DEF OrdTypeOK
<1> QED
  BY <1>1, <1>2 DEF PromiseInv, ActivePcs

(* A step of a thread keeps the types. *)
LEMMA OrdTypeThread ==
  ASSUME OrdTypeOK, NEW t \in Threads, ThreadStep(t)
  PROVE  OrdTypeOK'
<1> USE ProgramAssumption
<1>1. queue \in Seq(Msgs) /\ reserved \subseteq Msgs
  BY DEF OrdTypeOK
<1>2. \A n \in Nat : n > 0 => n - 1 \in Nat
  OBVIOUS
<1>3. CASE plan_load(t)
  BY <1>3 DEF plan_load, Go, OrdTypeOK, CriticalPcs, slotVars
<1>4. CASE plan_store(t)
  <2>1. remaining_messages' \in Int
    BY <1>4 DEF plan_store, OrdTypeOK
  <2> QED
    BY <1>4, <2>1 DEF plan_store, Go, OrdTypeOK, CriticalPcs, slotVars
<1>5. CASE send_message(t)
  <2>1. PICK m \in Msgs : Accept(m) /\ hand' = [hand EXCEPT ![t] = m]
    BY <1>5 DEF send_message
  <2>2. queue' = queue /\ reserved' \subseteq Msgs
    BY <1>1, <2>1, NothingStored
  <2>3. hand' \in [Threads -> Int]
    BY <2>1 DEF OrdTypeOK
  <2> QED
    BY <1>5, <2>2, <2>3 DEF send_message, Go, OrdTypeOK, CriticalPcs
<1>6. CASE send_message_stored(t)
  <2>1. queue' \in Seq(Msgs) /\ reserved' \subseteq Msgs
    BY <1>1, <1>6, StoreOne DEF send_message_stored
  <2>2. to_write' \in [Threads -> Nat]
    BY <1>2, <1>6 DEF send_message_stored, Go, OrdTypeOK
  <2> QED
    BY <1>6, <2>1, <2>2 DEF send_message_stored, Go, OrdTypeOK, CriticalPcs
<1>7. CASE send_message_full(t) \/ send_message_error(t)
  <2>1. queue' = queue /\ reserved' \subseteq Msgs
    BY <1>1, <1>7, NothingStored DEF send_message_full, send_message_error
  <2>2. to_write' \in [Threads -> Nat]
    BY <1>2, <1>7 DEF send_message_full, send_message_error, OrdTypeOK,
                      threadVars
  <2> QED
    BY <1>7, <2>1, <2>2 DEF send_message_full, send_message_error, Go,
                            OrdTypeOK, CriticalPcs, threadVars
<1>8. CASE retrieve_message(t) \/ retrieve_message_error(t)
  <2>1. queue' \in Seq(Msgs) /\ reserved' = reserved
    BY <1>1, <1>8, ReceiveOne DEF retrieve_message, retrieve_message_error
  <2>2. to_read' \in [Threads -> Nat]
    BY <1>2, <1>8 DEF retrieve_message, retrieve_message_error, OrdTypeOK,
                      threadVars
  <2> QED
    BY <1>8, <2>1, <2>2 DEF retrieve_message, retrieve_message_error, Go,
                            OrdTypeOK, CriticalPcs, threadVars
<1>9. CASE sem_wait(t) \/ written(t) \/ sem_post(t)
  BY <1>9 DEF sem_wait, written, sem_post, Go, OrdTypeOK, CriticalPcs,
              threadVars, slotVars
<1>10. CASE read_enough(t)
  BY <1>10 DEF read_enough, Go, OrdTypeOK, CriticalPcs, slotVars
<1>11. CASE \/ awake_barrier(t) \/ leave_barrier_up(t)
            \/ sleep_on_barrier(t) \/ stay_up(t) \/ wake_up(t)
  BY <1>11 DEF awake_barrier, leave_barrier_up, Rested, sleep_on_barrier,
               stay_up, wake_up, Go, OrdTypeOK, CriticalPcs, threadVars,
               slotVars
<1> QED
  BY <1>3, <1>4, <1>5, <1>6, <1>7, <1>8, <1>9, <1>10, <1>11 DEF ThreadStep

(* A step of main, or a new limit, keeps the types. *)
LEMMA OrdTypeMain ==
  ASSUME OrdTypeOK,
         \/ MainStep
         \/ \E n \in Limits : Reconfigure(n) /\ UNCHANGED progVars
         \/ UNCHANGED ordVars
  PROVE  OrdTypeOK'
<1>1. queue \in Seq(Msgs) /\ reserved \subseteq Msgs
  BY DEF OrdTypeOK
<1>2. CASE \E t \in Threads : main_create(t)
  BY <1>2 DEF main_create, Main, OrdTypeOK, CriticalPcs, threadVars, slotVars
<1>3. CASE main_create_error \/ main_awake \/ main_join \/ main_end
  BY <1>3 DEF main_create_error, main_awake, main_join, main_end, Main,
              OrdTypeOK, threadVars, slotVars
<1>4. CASE main_drain \/ main_drain_error
  <2>1. queue' \in Seq(Msgs) /\ reserved' = reserved
    BY <1>1, <1>4, ReceiveOne DEF main_drain, main_drain_error
  <2> QED
    BY <1>4, <2>1 DEF main_drain, main_drain_error, Main, OrdTypeOK,
                      threadVars
<1>5. CASE \E n \in Limits : Reconfigure(n) /\ UNCHANGED progVars
  BY <1>5 DEF Reconfigure, OrdTypeOK, progVars, threadVars
<1>6. CASE UNCHANGED ordVars
  BY <1>6 DEF ordVars, slotVars, progVars, threadVars, OrdTypeOK
<1> QED
  BY <1>2, <1>3, <1>4, <1>5, <1>6 DEF MainStep

(* A step of a thread in the program with the semaphore keeps the promise. *)
LEMMA PromiseThread ==
  ASSUME OrdTypeOK, SemInv, PhaseInv, PromiseInv, NEW t \in Threads,
         ThreadStep(t), refused' = {}
  PROVE  PromiseInv'
<1>1. /\ \A u \in Threads \ {t} :
           /\ tpc'[u] = tpc[u] /\ to_write'[u] = to_write[u]
           /\ to_read'[u] = to_read[u] /\ hand'[u] = hand[u]
      /\ i' = i /\ tpc[t] \notin {"none", "end"}
  BY ThreadMoves
<1>2. i = 0
  BY <1>1 DEF PhaseInv
<1>3. tpc[t] \in CriticalPcs => \A u \in Threads \ {t} :
        tpc[u] \notin CriticalPcs /\ tpc'[u] \notin CriticalPcs
  BY <1>1 DEF SemInv
<1>4. /\ t \in DOMAIN tpc /\ t \in DOMAIN to_write /\ t \in DOMAIN to_read
      /\ t \in DOMAIN hand
      /\ to_write[t] \in Nat /\ to_read[t] \in Nat
      /\ Len(queue) \in Nat /\ remaining_messages \in Int
      /\ queue \in Seq(Msgs) /\ reserved \subseteq Msgs
  BY DEF OrdTypeOK
<1>5. CASE plan_load(t)
  <2>1. /\ tpc[t] = "load" /\ tpc'[t] = "plan"
        /\ hand'[t] = remaining_messages
        /\ UNCHANGED <<queue, remaining_messages>>
    BY <1>4, <1>5 DEF plan_load, Go, slotVars
  <2> QED
    BY <1>1, <1>3, <2>1 DEF PromiseInv, ActivePcs, CriticalPcs
<1>6. CASE plan_store(t)
  <2>1. /\ tpc[t] = "plan" /\ tpc'[t] = "write"
        /\ remaining_messages' = hand[t] + to_write[t] - to_read[t]
        /\ UNCHANGED <<queue, to_write, to_read>>
    BY <1>4, <1>6 DEF plan_store, Go, slotVars
  <2>2. hand[t] = remaining_messages /\ remaining_messages <= Len(queue)
    <3>1. \A u \in Threads : tpc[u] \notin ActivePcs
      BY <1>3, <2>1 DEF ActivePcs, CriticalPcs
    <3> QED
      BY <1>2, <1>4, <2>1, <3>1 DEF PromiseInv
  <2>3. remaining_messages' + to_read'[t] <= Len(queue') + to_write'[t]
    BY <1>4, <2>1, <2>2
  <2> QED
    BY <1>3, <2>1, <2>3 DEF PromiseInv, ActivePcs, CriticalPcs
<1>7. CASE send_message_stored(t)
  <2>1. /\ tpc[t] = "store" /\ tpc'[t] = "write"
        /\ to_write'[t] = to_write[t] - 1
        /\ UNCHANGED <<remaining_messages, to_read>>
    BY <1>4, <1>7 DEF send_message_stored, Go
  <2>2. Len(queue') = Len(queue) + 1
    BY <1>4, <1>7, StoreOne DEF send_message_stored
  <2>3. remaining_messages' + to_read'[t] <= Len(queue') + to_write'[t]
    BY <1>4, <2>1, <2>2 DEF PromiseInv
  <2> QED
    BY <1>3, <2>1, <2>3 DEF PromiseInv, ActivePcs, CriticalPcs
<1>8. ~send_message_full(t) /\ ~send_message_error(t)
  BY <1>4, NothingStored DEF send_message_full, send_message_error
<1>9. CASE retrieve_message(t)
  <2>1. /\ tpc[t] = "read" /\ tpc'[t] = "read" /\ to_read'[t] = to_read[t] - 1
        /\ UNCHANGED remaining_messages
    BY <1>4, <1>9 DEF retrieve_message, Go
  <2>2. Len(queue') = Len(queue) - 1
    BY <1>4, <1>9, ReceiveOne DEF retrieve_message
  <2>3. remaining_messages' + to_read'[t] <= Len(queue')
    BY <1>4, <2>1, <2>2 DEF PromiseInv
  <2> QED
    BY <1>3, <2>1, <2>3 DEF PromiseInv, ActivePcs, CriticalPcs
<1>10. CASE retrieve_message_error(t)
  <2>1. /\ tpc[t] = "read" /\ tpc'[t] = "end" /\ to_read[t] > 0
        /\ UNCHANGED remaining_messages
    BY <1>4, <1>10 DEF retrieve_message_error, Go
  <2>2. Len(queue') = Len(queue) - 1
    BY <1>4, <1>10, ReceiveOne DEF retrieve_message_error
  <2>3. remaining_messages' <= Len(queue') + i'
    BY <1>1, <1>2, <1>4, <2>1, <2>2 DEF PromiseInv
  <2> QED
    BY <1>3, <2>1, <2>3 DEF PromiseInv, ActivePcs, CriticalPcs
<1>11. CASE read_enough(t)
  <2>1. /\ tpc[t] = "read" /\ tpc'[t] = "awake"
        /\ UNCHANGED <<queue, remaining_messages>>
    BY <1>4, <1>11 DEF read_enough, Go, slotVars
  <2>2. remaining_messages' <= Len(queue') + i'
    BY <1>1, <1>2, <1>4, <2>1 DEF PromiseInv
  <2> QED
    BY <1>3, <2>1, <2>2 DEF PromiseInv, ActivePcs, CriticalPcs
<1>12. CASE send_message(t)
  <2>1. UNCHANGED <<queue, remaining_messages>>
    BY <1>4, <1>12, NothingStored DEF send_message
  <2>2. /\ tpc[t] = "write" /\ tpc'[t] = "store"
        /\ to_write' = to_write /\ to_read' = to_read
    BY <1>4, <1>12 DEF send_message, Go
  <2> QED
    BY <2>1, <2>2, PromiseKept
<1>13. CASE written(t)
  <2>1. /\ tpc[t] = "write" /\ tpc'[t] = "read" /\ to_write[t] = 0
        /\ to_read' = to_read
        /\ UNCHANGED <<queue, remaining_messages>>
    BY <1>4, <1>13 DEF written, Go, threadVars, slotVars
  <2> QED
    BY <2>1, PromiseKept
<1>14. CASE \/ sem_wait(t) \/ awake_barrier(t) \/ leave_barrier_up(t)
            \/ sem_post(t) \/ sleep_on_barrier(t) \/ stay_up(t)
            \/ wake_up(t)
  <2>1. /\ tpc[t] \notin ActivePcs /\ tpc'[t] \notin ActivePcs
        /\ tpc'[t] # "plan" /\ UNCHANGED <<queue, remaining_messages>>
    BY <1>4, <1>14 DEF sem_wait, awake_barrier, leave_barrier_up, Rested,
         sem_post, sleep_on_barrier, stay_up, wake_up, Go, slotVars,
         ActivePcs
  <2> QED
    BY <2>1, PromiseKept
<1> QED
  BY <1>5, <1>6, <1>7, <1>8, <1>9, <1>10, <1>11, <1>12, <1>13, <1>14
     DEF ThreadStep

(* A step of main keeps what is known of the program with the semaphore.   *)
LEMMA OrdMain ==
  ASSUME OrdTypeOK, program = "ordinary", SemInv, PhaseInv, MainStep,
         mpc' # "exited"
  PROVE  SemInv' /\ PhaseInv' /\ refused' = refused
         /\ (PromiseInv => PromiseInv')
<1>1. CASE \E t \in Threads : main_create(t)
  <2>1. PICK t \in Threads : main_create(t)
    BY <1>1
  <2>2. /\ tpc[t] = "none" /\ tpc'[t] = "wait" /\ mpc = "create"
        /\ mpc' \in {"create", "nap"}
        /\ \A u \in Threads \ {t} : tpc'[u] = tpc[u]
        /\ UNCHANGED <<queue, refused, i, sem, remaining_messages, to_read,
                       to_write, hand>>
    BY <2>1 DEF main_create, Main, OrdTypeOK, threadVars, slotVars
  <2>3. SemInv' /\ PhaseInv'
    BY <2>2 DEF SemInv, PhaseInv, CriticalPcs
  <2>4. PromiseInv => PromiseInv'
    BY <2>2 DEF PromiseInv, ActivePcs
  <2> QED
    BY <2>2, <2>3, <2>4
<1>2. CASE main_awake \/ main_join
  BY <1>2 DEF main_awake, main_join, Main, threadVars, slotVars, SemInv,
              PhaseInv, PromiseInv
<1>3. CASE main_drain
  <2>1. /\ mpc = "drain" /\ mpc' = "drain" /\ i' = i + 1
        /\ UNCHANGED <<tpc, sem, remaining_messages>>
    BY <1>3 DEF main_drain, Main
  <2>2. Len(queue') = Len(queue) - 1 /\ refused' = refused
    BY <1>3, ReceiveOne DEF main_drain, OrdTypeOK
  <2>3. \A t \in Threads : tpc[t] = "end"
    BY <2>1 DEF PhaseInv
  <2>4. SemInv' /\ PhaseInv'
    BY <2>1, <2>3 DEF SemInv, PhaseInv
  <2>5. ASSUME PromiseInv PROVE PromiseInv'
    <3>1. remaining_messages <= Len(queue) + i
      BY <2>3, <2>5 DEF PromiseInv, ActivePcs
    <3>2. remaining_messages' <= Len(queue') + i'
      BY <2>1, <2>2, <3>1 DEF OrdTypeOK
    <3> QED
      BY <2>1, <2>3, <3>2 DEF PromiseInv
  <2> QED
    BY <2>2, <2>4, <2>5
<1>4. ~(main_create_error \/ main_drain_error \/ main_end)
  BY DEF main_create_error, main_drain_error, main_end, Main
<1> QED
  BY <1>1, <1>2, <1>3, <1>4 DEF MainStep

(* A refusal is remembered. *)
LEMMA RefusedStays ==
  ASSUME OrdTypeOK, NEW t \in Threads, ThreadStep(t), refused' = {}
  PROVE  refused = {}
<1>1. reserved \subseteq Msgs /\ queue \in Seq(Msgs)
  BY DEF OrdTypeOK
<1>2. CASE send_message(t) \/ send_message_full(t) \/ send_message_error(t)
  BY <1>1, <1>2, NothingStored DEF send_message, send_message_full,
       send_message_error
<1>3. CASE \/ send_message_stored(t) \/ retrieve_message(t)
           \/ retrieve_message_error(t)
  BY <1>1, <1>3, StoreOne, ReceiveOne DEF send_message_stored,
       retrieve_message, retrieve_message_error
<1>4. CASE UNCHANGED slotVars
  BY <1>4 DEF slotVars
<1> QED
  BY <1>2, <1>3, <1>4 DEF ThreadStep, sem_wait, plan_load, plan_store,
       written, read_enough, awake_barrier, leave_barrier_up, sem_post,
       sleep_on_barrier, stay_up, wake_up

(* Every step preserves OrdInv. *)
LEMMA OrdInvStep ==
  ASSUME OrdInv, [OrdinaryNext]_ordVars
  PROVE  OrdInv'
<1>1. CASE \E t \in Threads : ThreadStep(t)
  <2>1. PICK t \in Threads : ThreadStep(t)
    BY <1>1
  <2>2. OrdTypeOK'
    BY <2>1, OrdTypeThread DEF OrdInv
  <2>3. /\ mpc # "exited" /\ UNCHANGED <<program, mpc, i>>
        /\ tpc[t] # "end"
    BY <2>1, ThreadMoves DEF OrdInv
  <2>4. ASSUME program = "ordinary" PROVE SemInv' /\ PhaseInv'
    <3>1. SemInv'
      BY <2>1, <2>3, <2>4, SemThread DEF OrdInv
    <3>2. PhaseInv'
      BY <2>3, <2>4 DEF OrdInv, PhaseInv
    <3> QED
      BY <3>1, <3>2
  <2>5. ASSUME program = "ordinary", refused' = {} PROVE PromiseInv'
    <3>1. refused = {}
      BY <2>1, <2>5, RefusedStays DEF OrdInv
    <3> QED
      BY <2>1, <2>3, <2>5, <3>1, PromiseThread DEF OrdInv
  <2> QED
    BY <2>2, <2>3, <2>4, <2>5 DEF OrdInv
<1>2. CASE MainStep
  <2>1. OrdTypeOK'
    BY <1>2, OrdTypeMain DEF OrdInv
  <2>2. program' = program /\ mpc # "exited"
    BY <1>2 DEF MainStep, main_create, main_create_error, main_awake,
         main_join, main_drain, main_drain_error, main_end, Main
  <2>3. ASSUME program = "ordinary", mpc' # "exited"
        PROVE  /\ SemInv' /\ PhaseInv' /\ refused' = refused
               /\ PromiseInv => PromiseInv'
    BY <1>2, <2>2, <2>3, OrdMain DEF OrdInv
  <2> QED
    BY <2>1, <2>2, <2>3 DEF OrdInv
<1>3. CASE \/ \E n \in Limits : Reconfigure(n) /\ UNCHANGED progVars
           \/ UNCHANGED ordVars
  <2>1. OrdTypeOK'
    BY <1>3, OrdTypeMain DEF OrdInv
  <2>2. UNCHANGED <<queue, refused, program, sem, remaining_messages, tpc,
                    to_write, to_read, hand, mpc, i>>
    BY <1>3 DEF Reconfigure, ordVars, slotVars, progVars, threadVars
  <2> QED
    BY <2>1, <2>2 DEF OrdInv, SemInv, PhaseInv, PromiseInv
<1> QED
  BY <1>1, <1>2, <1>3 DEF OrdinaryNext

(* It holds when main has opened the group. *)
LEMMA OrdInvInit == OrdinaryInit => OrdInv
<1> SUFFICES ASSUME OrdinaryInit PROVE OrdInv
  OBVIOUS
<1>1. /\ queue = <<>> /\ reserved = {} /\ i = 0 /\ mpc = "create"
      /\ remaining_messages = 0
      /\ tpc = [t \in Threads |-> "none"]
      /\ to_write = [t \in Threads |-> 0] /\ to_read = [t \in Threads |-> 0]
      /\ hand = [t \in Threads |-> 0]
  BY DEF OrdinaryInit, SlotInit
<1>2. Len(queue) = 0 /\ queue \in Seq(Msgs)
  BY <1>1
<1> QED
  BY <1>1, <1>2 DEF OrdInv, OrdTypeOK, SemInv, PhaseInv, PromiseInv,
       CriticalPcs, ActivePcs

(* For any number of threads, any plans and any storage limit, changing    *)
(* while the program runs: as long as no write was refused, main of        *)
(* mt_ordinary finds a message at each read it makes after the join.  The  *)
(* threads may read less than they planned, and one may fail in a read and *)
(* end with the semaphore; the counter then promises less than there is.   *)
(* The semaphore is what the proof needs: at most one thread has announced *)
(* more than it has done.                                                  *)
THEOREM MainFindsMessages == OrdinarySpec => []DrainFindsMessages
<1>1. OrdInv => DrainFindsMessages
  <2> SUFFICES ASSUME OrdInv, program = "ordinary", refused = {},
                      mpc = "drain", i < remaining_messages
               PROVE  queue # <<>>
    BY DEF DrainFindsMessages
  <2>1. \A t \in Threads : tpc[t] \notin ActivePcs
    BY DEF OrdInv, PhaseInv, ActivePcs
  <2>2. remaining_messages <= Len(queue) + i
    BY <2>1 DEF OrdInv, PromiseInv
  <2>3. Len(queue) \in Nat /\ i \in Nat /\ remaining_messages \in Int
    BY DEF OrdInv, OrdTypeOK
  <2>4. Len(queue) # 0
    BY <2>2, <2>3
  <2> QED
    BY <2>4
<1>2. OrdInv /\ [OrdinaryNext]_ordVars => OrdInv'
  BY OrdInvStep
<1> QED
  BY <1>1, <1>2, OrdInvInit, PTL DEF OrdinarySpec
=============================================================================
