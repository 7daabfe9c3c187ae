------------------------------- MODULE TsmLib -------------------------------
(***************************************************************************)
(* open_group() and close_group() of the userspace library (lib/tsm_lib.c) *)
(* on top of the manager: the thread opens /dev/tsm, installs the group,   *)
(* closes /dev/tsm and then tries to open the device file, which udev      *)
(* creates some time after the installation (99-tsm.rules).                *)
(*                                                                         *)
(* An open file keeps the module in.  Between the close of /dev/tsm and    *)
(* the open of the device file the thread holds none.                      *)
(***************************************************************************)
EXTENDS GroupDevManager

CONSTANT ATTEMPTS      \* 10000 in lib/tsm_lib.h

ASSUME AttemptsAssumption == ATTEMPTS \in Nat \ {0}

VARIABLES
  cpc,                 \* per thread: next statement of open_group
  i,                   \* per thread: attempts made
  fd,                  \* per thread: the group device it has open, or NULL
  max_message_size,    \* per thread: has the library learnt the parameter
  synch,               \* descriptors with a link in /dev/synch
  overlap              \* history: two calls of install_group overlapped

libVars == <<cpc, i, fd, max_message_size, synch, overlap>>
tsmVars == <<mgrVars, libVars>>

TsmInit ==
  /\ MgrInit
  /\ cpc = [t \in Installers |-> "idle"] /\ i = [t \in Installers |-> 0]
  /\ fd = [t \in Installers |-> NULL]
  /\ max_message_size = [t \in Installers |-> FALSE]
  /\ synch = {} /\ overlap = FALSE

Call(t, from, to) ==
  ~crashed /\ cpc[t] = from /\ cpc' = [cpc EXCEPT ![t] = to]

(* A thread inside open_group with /dev/tsm open, or with a group open.    *)
Pinned ==
  \E t \in Installers :
    cpc[t] \in {"ioctl", "installing", "size"} \/ fd[t] # NULL

-----------------------------------------------------------------------------
(* open_group                                                              *)

(* Without the module there is no /dev/tsm and the call returns -1. *)
open_group_enter(t) ==
  /\ Call(t, "idle", "ioctl")
  /\ module_state = "in" /\ fd[t] = NULL
  /\ UNCHANGED <<mgrVars, i, fd, max_message_size, synch, overlap>>

(* ioctl(IOCTL_INSTALL_GROUP): the steps of install_group follow. *)
open_group_install(t) ==
  /\ Call(t, "ioctl", "installing") /\ install_group_enter(t)
  /\ overlap' = (overlap \/ ~Idle)
  /\ UNCHANGED <<i, fd, max_message_size, synch>>

(* Its result: on -1 /dev/tsm is closed and the call returns -1. *)
open_group_result(t) ==
  /\ ipc[t] = "idle"
  /\ Call(t, "installing", IF ret[t] = 0 THEN "size" ELSE "idle")
  /\ UNCHANGED <<mgrVars, i, fd, max_message_size, synch, overlap>>

(* IOCTL_MAX_MESSAGE_SIZE unless it is known, close(/dev/tsm), and the     *)
(* name of the device file; without memory for it return -1.               *)
open_group_size(t) ==
  /\ \E to \in {"udev", "idle"} : Call(t, "size", to)
  /\ max_message_size' = [max_message_size EXCEPT ![t] = TRUE]
  /\ i' = [i EXCEPT ![t] = 0]
  /\ UNCHANGED <<mgrVars, fd, synch, overlap>>

(* open() of the link finds a device file, and a cdev with the number of   *)
(* that file, while the module is not on its way out.  After overlapping   *)
(* installations file and cdev may be of different structures.             *)
Openable(g, d) ==
  /\ module_state = "in" /\ g \in synch
  /\ "cdev" \in held[d] /\ minor[d] = g
  /\ \E e \in Devs : /\ "device" \in held[e] /\ minor[e] = g
                     /\ major[e] = major[d]

(* group_open: the file refers to the structure the cdev is part of. *)
group_open(t, d) == fd' = [fd EXCEPT ![t] = d]

open_group_open(t) ==
  /\ Call(t, "udev", "idle")
  /\ \E d \in Devs : Openable(desc[t], d) /\ group_open(t, d)
  /\ UNCHANGED <<mgrVars, i, max_message_size, synch, overlap>>

(* sleep(SLEEP_TIME) does not wait; after the last attempt return -1. *)
open_group_retry(t) ==
  /\ Call(t, "udev", IF i[t] + 1 < ATTEMPTS THEN "udev" ELSE "idle")
  /\ \A d \in Devs : ~Openable(desc[t], d)
  /\ i' = [i EXCEPT ![t] = @ + 1]
  /\ UNCHANGED <<mgrVars, fd, max_message_size, synch, overlap>>

close_group(t) ==
  /\ ~crashed /\ cpc[t] = "idle"
  /\ fd[t] # NULL /\ fd' = [fd EXCEPT ![t] = NULL]
  /\ UNCHANGED <<mgrVars, cpc, i, max_message_size, synch, overlap>>

(* udev acts on device_create and device_destroy, in its own time. *)
HasDevice(g) == \E d \in Devs : "device" \in held[d] /\ minor[d] = g

udev_add(g) ==
  /\ ~crashed /\ HasDevice(g)
  /\ g \notin synch /\ synch' = synch \cup {g}
  /\ UNCHANGED <<mgrVars, cpc, i, fd, max_message_size, overlap>>

udev_remove(g) ==
  /\ ~crashed /\ ~HasDevice(g)
  /\ g \in synch /\ synch' = synch \ {g}
  /\ UNCHANGED <<mgrVars, cpc, i, fd, max_message_size, overlap>>

-----------------------------------------------------------------------------
(* The specification                                                       *)

(* Mutant: file_operations without .owner, an open file pins nothing. *)
unload_unpinned == tsm_exit

(* rmmod succeeds only when no file of the module is open. *)
unload == ~Pinned /\ tsm_exit

OpenStep(t) ==
  \/ open_group_enter(t) \/ open_group_install(t) \/ open_group_result(t)
  \/ open_group_size(t) \/ open_group_open(t) \/ open_group_retry(t)
  \/ close_group(t)

TsmNext ==
  \/ (tsm_init \/ unload) /\ UNCHANGED libVars
  \/ \E t \in Installers : InstallStep(t) /\ UNCHANGED libVars
  \/ \E t \in Installers : OpenStep(t)
  \/ \E g \in Descs : udev_add(g) \/ udev_remove(g)

TsmSpec == TsmInit /\ [][TsmNext]_tsmVars

-----------------------------------------------------------------------------
(* Properties                                                              *)
(*                                                                         *)
(* install_group takes no lock.  What is said of the registry is said for  *)
(* behaviours in which no two calls of it have overlapped.                 *)

(* The state of manager and library has the types of its C declarations,   *)
(* and the counter of group_free_all, which ends as the number of devices  *)
(* that survived, stays a number of devices.                               *)
TsmTypeOK ==
  /\ cpc \in [Installers -> {"idle", "ioctl", "installing", "size", "udev"}]
  /\ i \in [Installers -> 0 .. ATTEMPTS]
  /\ fd \in [Installers -> Devs \cup {NULL}]
  /\ max_message_size \in [Installers -> BOOLEAN]
  /\ synch \subseteq Descs /\ overlap \in BOOLEAN
  /\ ~overlap => MgrTypeOK

(* Between calls the registry tells the truth: used is the length of the   *)
(* list, no two entries have the same minor, every entry is complete but   *)
(* for what the kernel refused while that entry was made (or, without a    *)
(* class, the device file), the class is missing only if it was refused to *)
(* an entry that is still there, and of an installation that failed or was *)
(* undone nothing exists but, after dev_reg_fail, the workqueue, which no  *)
(* label destroys.                                                         *)
RegistryExact ==
  module_state = "in" /\ Idle /\ ~crashed /\ ~overlap =>
    /\ Valid => devices.used = Len(devices.devs)
    /\ \A d, e \in Listed : minor[d] = minor[e] => d = e
    /\ \A d \in Listed : Complete(d)
    /\ group_dev_class = "error" =>
         \E d \in Listed : "class_create" \in ignored[d]
    /\ \A d \in Devs \ Listed : held[d] \subseteq {"delay_wq"}

(* IOCTL_INSTALL_GROUP returns 0 only when the group the caller named has  *)
(* a device in the list that lacks nothing but what the kernel refused     *)
(* unnoticed while it was installed.                                       *)
InstalledOnSuccess ==
  [][\A t \in Installers :
       ~overlap /\ ipc[t] # "idle" /\ ipc'[t] = "idle" /\ ret'[t] = 0 =>
         \E d \in Listed' : minor'[d] = desc[t] /\ Complete(d)']_tsmVars

(* "The cleanup should free n = used group devices": once the module is    *)
(* out no group device has survived and the class name, the regions and    *)
(* every object but a leaked workqueue are gone, so that the module can be *)
(* inserted again.                                                         *)
UnloadComplete ==
  module_state = "out" /\ ~crashed /\ ~overlap =>
    /\ to_free = 0 /\ regions = {} /\ ~class_registered
    /\ \A d \in Devs : held[d] \subseteq {"delay_wq"}

(* The two ignored results are the only ways to an invalid pointer: a call *)
(* that fails in the middle, a removal and a re-insertion, or a list that  *)
(* is read while it is set up lead to none.                                *)
OnlyTwoWaysToCrash == crashed /\ ~overlap => InitFailed \/ ClassFailed

(* The devices whose numbers are live and which their call will list next. *)
Entering ==
  {gd[t] : t \in {u \in Installers :
                     ipc[u] \in {"device", "add_load", "add_store"}}}

(* The descriptor open_group returns belongs to the group that was asked   *)
(* for, and until close_group its structures stay allocated and its cdev   *)
(* registered: no removal and re-insertion of the module, and no thread    *)
(* that installs while another is between its installation and its open,   *)
(* leaves a thread with the device of another group or with freed memory.  *)
(* As long as no two calls of install_group overlapped the device is also  *)
(* one the registry knows, or is about to.                                 *)
OpenedStaysValid ==
  ~crashed => \A t \in Installers : fd[t] # NULL =>
    /\ module_state = "in" /\ minor[fd[t]] = desc[t]
    /\ (Range(Structures) \ {"device_name"}) \cup {"cdev"} \subseteq held[fd[t]]
    /\ ~overlap => fd[t] \in Listed \cup Entering
=============================================================================
