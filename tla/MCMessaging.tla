---------------------------- MODULE MCMessaging ----------------------------
(* Instances of Messaging for TLC.                                         *)
EXTENDS Messaging, TLC

(* Threads that make the same call are interchangeable: no definition of   *)
(* Messaging orders them or chooses one.                                   *)
WriterSymmetry  == Permutations(Writers)
RevokerSymmetry == Permutations(Revokers)

(* Milliseconds given to IOCTL_SET_SEND_DELAY: refused, none, rounded up   *)
(* to one jiffy, and a value that wraps to none in an unsigned int.        *)
AllDelays == {-1, 0, 1, UINT_RANGE}

(* The state without the history of the order of storing and of what each  *)
(* revocation owes.  No guard and no other variable depends on them, and   *)
(* of the properties of the messaging run only MsgTypeOK mentions them,    *)
(* for their type, so states that differ only there need not be told       *)
(* apart; their type is checked on one state of each class.                *)
WithoutHistory ==
  <<message_list, pending_list, messages_number, paramVars, workVars, pos, q,
    reg, sem, pc, msg, fate, corrupted, flags>>
=============================================================================
