------------------------------ MODULE MCTsmLib ------------------------------
(***************************************************************************)
(* An instance of TsmLib for TLC with two kinds of behaviours: one thread  *)
(* that meets every refusal of the kernel, or two threads, whose calls may *)
(* overlap, that meet none.                                                *)
(***************************************************************************)
EXTENDS TsmLib

Calm == INSTANCE TsmLib WITH InstallFaults <- {}

VARIABLE active        \* the threads that take part

MCInit ==
  /\ TsmInit
  /\ active \in {S \in SUBSET Installers : Cardinality(S) \in {1, 2}}

Alone ==
  /\ Cardinality(active) = 1
  /\ TsmNext
  /\ \A t \in Installers \ active : cpc'[t] = "idle"

Together == Cardinality(active) = 2 /\ Calm!TsmNext

MCNext == (Alone \/ Together) /\ UNCHANGED active

MCSpec == MCInit /\ [][MCNext]_<<tsmVars, active>>

(* No definition orders the threads or chooses one.                        *)
Swaps == Permutations(Installers)

Busy(t) == cpc[t] \in {"installing", "size", "udev"} \/ fd[t] # NULL

Returned(t) == cpc[t] = "installing" /\ ipc[t] = "idle"

(* The state without what no step reads any more: the locals of a thread   *)
(* outside open_group, the numbers of a structure that does not exist, and *)
(* max_message_size.  Of the properties only TsmTypeOK mentions them, for  *)
(* their types, which are checked on one state of each class.              *)
WithoutDeadLocals ==
  <<active, module_state, loads, IF module_state = "in" THEN 0 ELSE to_free,
    group_devs, table, kernelVars, held, ignored,
    [d \in Devs |-> IF Unused(d) THEN <<>> ELSE <<minor[d], major[d]>>],
    [t \in Installers |-> IF Busy(t) THEN desc[t] ELSE 0],
    [t \in Installers |-> IF Returned(t) THEN ret[t] ELSE 0],
    [t \in Installers |-> IF cpc[t] = "udev" THEN i[t] ELSE 0],
    ipc, gd, reg, crashed, cpc, fd, synch, overlap>>
=============================================================================
