------------------------------ MODULE MailSlot ------------------------------
(***************************************************************************)
(* What a group device promises about messages, without its semaphores,    *)
(* works and threads: a bounded mail slot.  A message is accepted or       *)
(* refused, stored at once or delayed, published, and received at most     *)
(* once, oldest first.  Messaging implements this specification, and       *)
(* Ordinary, a program that uses the device, is built on it.               *)
(***************************************************************************)
EXTENDS Integers, Sequences, FiniteSets, SequencesExt

CONSTANTS
  Msgs,        \* the messages that may be written
  Limits,      \* values of max_storage_size
  MayFail      \* may copies between user and kernel space fail

VARIABLES
  limit,       \* max_storage_size
  reserved,    \* accepted, on the way to queue or delayed
  delayed,     \* waiting for the delay to expire, oldest first
  queue,       \* stored, oldest first
  taken,       \* received
  refused      \* the write stored nothing

slotVars == <<limit, reserved, delayed, queue, taken, refused>>

SlotInit ==
  /\ limit \in Limits
  /\ reserved = {} /\ delayed = <<>> /\ queue = <<>>
  /\ taken = {} /\ refused = {}

Held == reserved \cup Range(delayed) \cup Range(queue)
Fresh(m) ==
  /\ m \notin reserved /\ m \notin taken /\ m \notin refused
  /\ m \notin Range(delayed) /\ m \notin Range(queue)
Full == Cardinality(Held) >= limit

(* /sys may change the limit under the messages that are held already. *)
Reconfigure(n) ==
  /\ n # limit /\ limit' = n
  /\ UNCHANGED <<reserved, delayed, queue, taken, refused>>

Accept(m) ==
  /\ Fresh(m) /\ ~Full
  /\ reserved' = reserved \cup {m}
  /\ UNCHANGED <<limit, delayed, queue, taken, refused>>

Refuse(m) ==
  /\ Fresh(m) /\ (Full \/ MayFail)
  /\ refused' = refused \cup {m}
  /\ UNCHANGED <<limit, reserved, delayed, queue, taken>>

Store(m) ==
  /\ m \in reserved
  /\ reserved' = reserved \ {m} /\ queue' = Append(queue, m)
  /\ UNCHANGED <<limit, delayed, taken, refused>>

Delay(m) ==
  /\ m \in reserved
  /\ reserved' = reserved \ {m} /\ delayed' = Append(delayed, m)
  /\ UNCHANGED <<limit, queue, taken, refused>>

(* A delay expires: the oldest delayed message is stored, last. *)
Publish ==
  /\ delayed # <<>>
  /\ queue' = Append(queue, Head(delayed)) /\ delayed' = Tail(delayed)
  /\ UNCHANGED <<limit, reserved, taken, refused>>

(* The delayed messages, but for one that is just being published, are put *)
(* before the stored ones.                                                 *)
Revoke(moving) ==
  /\ moving <= Len(delayed)
  /\ queue' = SubSeq(delayed, moving + 1, Len(delayed)) \o queue
  /\ delayed' = SubSeq(delayed, 1, moving)
  /\ UNCHANGED <<limit, reserved, taken, refused>>

Receive ==
  /\ queue # <<>>
  /\ queue' = Tail(queue) /\ taken' = taken \cup {Head(queue)}
  /\ UNCHANGED <<limit, reserved, delayed, refused>>

SlotNext ==
  \/ \E n \in Limits : Reconfigure(n)
  \/ \E m \in Msgs : Accept(m) \/ Refuse(m) \/ Store(m) \/ Delay(m)
  \/ Publish \/ Receive
  \/ \E moving \in 0..1 : Revoke(moving)

SlotSpec == SlotInit /\ [][SlotNext]_slotVars
=============================================================================
