---------------------------- MODULE GroupDevice ----------------------------
(***************************************************************************)
(* One group device (struct group_dev, kmodule/group_dev.h) with all that  *)
(* group_dev_fops offers: messages, delays and revocation (Messaging) and  *)
(* the sleep barrier (Barrier).  The two share nothing but the flags byte, *)
(* which each changes by an unprotected load and store.                    *)
(***************************************************************************)
EXTENDS Messaging, Barrier

VARIABLE overlapped    \* history: two such changes have overlapped

devVars == <<msgPriv, barPriv, flags, overlapped>>

(* Between the load and the store of set_flushing or clear_flushing, and   *)
(* of set_barrier or clear_barrier.                                        *)
FlushingRMW == \E t \in Revokers : pc[t] \in {"f_set", "f_clear"}
BarrierRMW ==
  \E t \in BarThreads : bpc[t] \in {"s_store", "a_store", "a_late"}

DevInit == MsgInit /\ BarInit /\ FlagsInit /\ overlapped = FALSE

DevNext ==
  /\ \/ MsgNext /\ UNCHANGED barPriv
     \/ ~corrupted /\ BarNext /\ UNCHANGED msgPriv
  /\ overlapped' = (overlapped \/ (FlushingRMW' /\ BarrierRMW'))

DevSpec == DevInit /\ [][DevNext]_devVars

(* The two features that share the byte disturb each other only when a     *)
(* revocation and a barrier command are between load and store at the same *)
(* time: otherwise FLUSHING_BIT is set exactly while works are flushed and *)
(* no sleeper returns without an awake.                                    *)
NoInterference ==
  ~overlapped => FlushingBitMeansFlushing /\ SleepUntilAwoken
=============================================================================
