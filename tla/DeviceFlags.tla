---------------------------- MODULE DeviceFlags ----------------------------
(***************************************************************************)
(* The `char flags` field of struct group_dev (kmodule/group_dev.h).  Two  *)
(* independent features share the byte: the sleep barrier (BARRIER_BIT)    *)
(* and the revocation of delayed messages (FLUSHING_BIT).                  *)
(*                                                                         *)
(* The macros set_bit and clear_bit are plain C read-modify-write          *)
(* statements (`var |= ...`, `var &= ...`), not the kernel's atomic        *)
(* functions of the same names, and no lock protects the byte.  The        *)
(* modules that use them therefore take two steps: load the byte into a    *)
(* register, then store the register with the bit changed.                 *)
(***************************************************************************)

VARIABLE flags          \* the byte, as the set of bits that are 1

BARRIER_BIT  == "BARRIER_BIT"
FLUSHING_BIT == "FLUSHING_BIT"
Bits         == {BARRIER_BIT, FLUSHING_BIT}

set_bit(var, n)   == var \cup {n}
clear_bit(var, n) == var \ {n}
check_bit(var, n) == n \in var

is_flushing   == check_bit(flags, FLUSHING_BIT)
is_barrier_up == check_bit(flags, BARRIER_BIT)

(* kzalloc zeroes a new group device. *)
FlagsInit == flags = {}
=============================================================================
