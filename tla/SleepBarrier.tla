---------------------------- MODULE SleepBarrier ----------------------------
(***************************************************************************)
(* What the sleep barrier promises: a thread that sleeps raises the        *)
(* barrier and leaves only when it finds it down, and only an awake takes  *)
(* it down.  Barrier implements this specification on either memory order, *)
(* and Ordinary, a program that uses the device, is built on it.           *)
(***************************************************************************)

CONSTANT Threads

VARIABLES
  raised,      \* BARRIER_BIT
  waiting      \* threads between set_barrier and the return of the command

gateVars == <<raised, waiting>>

GateInit == raised = FALSE /\ waiting = {}

Sleep(t) ==
  /\ t \notin waiting
  /\ raised' = TRUE /\ waiting' = waiting \cup {t}

Awake == raised' = FALSE /\ UNCHANGED waiting

(* A thread that is raising the barrier again, before all have left, keeps *)
(* the others.                                                             *)
Leave(t) ==
  /\ t \in waiting /\ ~raised
  /\ waiting' = waiting \ {t} /\ UNCHANGED raised

GateNext == Awake \/ \E t \in Threads : Sleep(t) \/ Leave(t)

GateSpec == GateInit /\ [][GateNext]_gateVars
=============================================================================
