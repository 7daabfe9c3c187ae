-------------------------- MODULE GroupDevManager --------------------------
(***************************************************************************)
(* Installation and removal of group devices                               *)
(* (kmodule/group_dev_manager.c) and the life of the module                *)
(* (kmodule/tsm.c): IOCTL_INSTALL_GROUP runs install_group in the calling  *)
(* thread, tsm_exit runs group_free_all.                                   *)
(*                                                                         *)
(* install_group takes no lock, so every statement that touches group_devs *)
(* or group_dev_class is a step of its own, and list_add and used++ are a  *)
(* load and a store.  ipc[t] names the statement thread t executes next.   *)
(* The list of a struct group_devices is a sequence, oldest entry first;   *)
(* list_add is seen from the head, along the next links.                   *)
(***************************************************************************)
EXTENDS Integers, Sequences, FiniteSets, SequencesExt

CONSTANTS
  Installers,          \* threads that send IOCTL_INSTALL_GROUP
  Descs,               \* group descriptors they ask for (unsigned char)
  GROUP_DEV_COUNT,
  MaxDevs,             \* bound: struct group_dev that exist at a time
  MaxTables,           \* bound: struct group_devices that exist at a time
  MaxLoads,            \* bound: insertions of the module
  InstallFaults        \* what the kernel may refuse, see InstallRefusals

InstallRefusals ==
  {"group_devs", "group_devs_list", "group_dev", "create_workqueue",
   "alloc_chrdev_region", "class_create", "cdev_add", "device_create"}

ASSUME InstallAssumption ==
  /\ Descs \subseteq Nat /\ GROUP_DEV_COUNT \in Nat
  /\ MaxDevs \in Nat /\ MaxTables \in Nat /\ MaxLoads \in Nat
  /\ InstallFaults \subseteq InstallRefusals

NULL   == 0
Devs   == 1 .. MaxDevs
Tables == 1 .. MaxTables

(* Of these, the ones whose error _install_group does not look at. *)
Unchecked == {"class_create", "cdev_add", "device_create"}

(* Majors the kernel hands out, and what MAJOR(dev) yields when            *)
(* alloc_chrdev_region has failed and left dev uninitialised.              *)
Majors  == 1 .. MaxTables * MaxLoads
Garbage == -1

(* What _install_group allocates, in order; device_name is freed again on  *)
(* success.  After them come delay_wq, the cdev and the device file.       *)
Structures ==
  <<"device_name", "new_group_dev", "message_list", "message_sem",
    "pending_list", "pending_sem", "wq_sem", "delay_list">>
Objects == Range(Structures) \cup {"delay_wq", "cdev", "device"}

VARIABLES
  module_state,        \* "out", "in", "leaving"
  loads,
  group_devs,          \* the global pointer: NULL or a table
  table,               \* the structs group_devices
  group_dev_class,     \* the global pointer: NULL, a class, ERR_PTR
  class_registered,    \* the kernel knows a class of that name
  regions,             \* majors allocated to this driver
  held,                \* per struct group_dev: the objects that exist
  minor, major,        \* per struct group_dev: its device number
  ignored,             \* per struct group_dev, history: what the kernel
                       \* refused, unnoticed, while it was installed
  ipc, desc, gd,       \* per thread: next statement, argument, device
  reg,                 \* per thread: the list or number it has loaded
  ret,                 \* per thread: what its last call returned
  to_free,             \* local of group_free_all
  crashed              \* an invalid pointer was followed

kernelVars == <<group_dev_class, class_registered, regions>>
devVars    == <<held, minor, major, ignored>>
callVars   == <<desc, gd, reg, ret>>
loadVars   == <<module_state, loads, to_free>>
mgrVars    == <<loadVars, group_devs, table, kernelVars, devVars, ipc,
                callVars, crashed>>

FreeTable == [life |-> "free", list |-> "null", devs |-> <<>>, used |-> 0,
              major |-> 0]

MgrInit ==
  /\ module_state = "out" /\ loads = 0 /\ to_free = 0
  /\ group_devs = NULL /\ table = [i \in Tables |-> FreeTable]
  /\ group_dev_class = "null" /\ class_registered = FALSE /\ regions = {}
  /\ held = [d \in Devs |-> {}]
  /\ minor = [d \in Devs |-> 0] /\ major = [d \in Devs |-> 0]
  /\ ignored = [d \in Devs |-> {}]
  /\ ipc = [t \in Installers |-> "idle"] /\ desc = [t \in Installers |-> 0]
  /\ gd = [t \in Installers |-> NULL] /\ reg = [t \in Installers |-> <<>>]
  /\ ret = [t \in Installers |-> 0]
  /\ crashed = FALSE

Run(t, from, to) ==
  ~crashed /\ ipc[t] = from /\ ipc' = [ipc EXCEPT ![t] = to]

Return(t, from, v) == Run(t, from, "idle") /\ ret' = [ret EXCEPT ![t] = v]

(* group_devs points to a structure, and that to an initialised list.      *)
Valid     == group_devs # NULL /\ table[group_devs].life = "live"
ListValid == Valid /\ table[group_devs].list = "ready"

(* The structure group_devs points to. *)
devices == table[group_devs]

-----------------------------------------------------------------------------
(* tsm_init.  When it fails it leaves nothing behind: no step.             *)

tsm_init ==
  /\ ~crashed /\ module_state = "out" /\ loads < MaxLoads
  /\ module_state' = "in" /\ loads' = loads + 1
  /\ group_devs' = NULL /\ group_dev_class' = "null"
  /\ UNCHANGED <<to_free, table, class_registered, regions, devVars, ipc,
                 callVars, crashed>>

-----------------------------------------------------------------------------
(* install_group                                                           *)

(* A descriptor of GROUP_DEV_COUNT or more is refused: no step.  The call  *)
(* comes through an open file, which keeps the module in.                  *)
install_group_enter(t) ==
  \E g \in Descs :
    /\ Run(t, "idle", "check") /\ module_state = "in"
    /\ g < GROUP_DEV_COUNT
    /\ desc' = [desc EXCEPT ![t] = g]
    /\ UNCHANGED <<loadVars, group_devs, table, kernelVars, devVars, gd, reg,
                   ret, crashed>>

install_group_check(t) ==
  /\ Run(t, "check", IF group_devs = NULL THEN "init" ELSE "seek")
  /\ UNCHANGED <<loadVars, group_devs, table, kernelVars, devVars, callVars,
                 crashed>>

(* init_group_devs, whose result install_group does not look at.           *)

init_group_devs_alloc(t) ==
  /\ Run(t, "init", "init_list")
  /\ \E i \in Tables :
       /\ table[i].life = "free"
       /\ \A k \in Tables : k < i => table[k].life # "free"
       /\ group_devs' = i
       /\ table' = [table EXCEPT ![i] = [FreeTable EXCEPT !.life = "live"]]
  /\ UNCHANGED <<loadVars, kernelVars, devVars, callVars, crashed>>

init_group_devs_fail(t) ==
  /\ Run(t, "init", "seek")
  /\ "group_devs" \in InstallFaults \/ \A i \in Tables : table[i].life # "free"
  /\ group_devs' = NULL
  /\ UNCHANGED <<loadVars, table, kernelVars, devVars, callVars, crashed>>

init_group_devs_list(t) ==
  /\ Run(t, "init_list", "init_head") /\ Valid
  /\ table' = [table EXCEPT ![group_devs].list = "raw",
                            ![group_devs].devs = <<>>]
  /\ UNCHANGED <<loadVars, group_devs, kernelVars, devVars, callVars, crashed>>

(* kfree(group_devs): the pointer keeps its value.                         *)
init_group_devs_list_fail(t) ==
  /\ Run(t, "init_list", "seek") /\ Valid
  /\ "group_devs_list" \in InstallFaults
  /\ table' = [table EXCEPT ![group_devs] = FreeTable]
  /\ UNCHANGED <<loadVars, group_devs, kernelVars, devVars, callVars, crashed>>

(* Mutant: INIT_LIST_HEAD is forgotten. *)
init_group_devs_raw(t) ==
  /\ Run(t, "init_head", "seek") /\ Valid /\ devices.list # "null"
  /\ UNCHANGED <<loadVars, group_devs, table, kernelVars, devVars, callVars,
                 crashed>>

init_group_devs_head(t) ==
  /\ Run(t, "init_head", "seek") /\ Valid /\ devices.list # "null"
  /\ table' = [table EXCEPT ![group_devs].list = "ready",
                            ![group_devs].devs = <<>>]
  /\ UNCHANGED <<loadVars, group_devs, kernelVars, devVars, callVars, crashed>>

(* get_group and _get_group.                                               *)

_get_group(g) == \E d \in Range(devices.devs) : minor[d] = g

get_group_found(t) ==
  /\ Return(t, "seek", 0) /\ ListValid /\ _get_group(desc[t])
  /\ UNCHANGED <<loadVars, group_devs, table, kernelVars, devVars, desc, gd,
                 reg, crashed>>

(* Mutant: the loop's cursor is returned when no entry matches. *)
get_group_cursor(t) ==
  /\ Valid /\ Run(t, "seek", IF devices.devs = <<>> THEN "space" ELSE "idle")
  /\ ret' = [ret EXCEPT ![t] = 0]
  /\ UNCHANGED <<loadVars, group_devs, table, kernelVars, devVars, desc, gd,
                 reg, crashed>>

(* No list, or nothing in it that matches.  An uninitialised list may read *)
(* as an empty one, or lead anywhere.                                      *)
get_group_missing(t) ==
  /\ Run(t, "seek", "space") /\ Valid
  /\ devices.list = "ready" => ~_get_group(desc[t])
  /\ crashed' \in IF devices.list = "raw" THEN BOOLEAN ELSE {FALSE}
  /\ UNCHANGED <<loadVars, group_devs, table, kernelVars, devVars, callVars>>

(* No space for another device: return -1. *)
install_group_space(t) ==
  /\ Valid
  /\ LET full == GROUP_DEV_COUNT < devices.used + 1
     IN  /\ Run(t, "space", IF full THEN "idle" ELSE "alloc")
         /\ ret' = IF full THEN [ret EXCEPT ![t] = -1] ELSE ret
  /\ UNCHANGED <<loadVars, group_devs, table, kernelVars, devVars, desc, gd,
                 reg, crashed>>

-----------------------------------------------------------------------------
(* _install_group                                                          *)

(* What exists when the k-th allocation is attempted. *)
Allocated(k) == {Structures[i] : i \in 1 .. k - 1}

(* Mutant: the label jumped to is the one after. *)
UnwindSkipping(k) == {Structures[i] : i \in 1 .. k - 2}

(* The labels at its end: a failure to allocate the k-th structure frees   *)
(* the ones before it; dev_reg_fail frees all of them, and nothing else.   *)
UnwindFrom(k) == {Structures[i] : i \in 1 .. k - 1}

Unused(d) == held[d] = {}

(* Reads group_devs->major, allocates every structure, and starts the      *)
(* workqueue without looking at the result of init_workqueue.  The minor   *)
(* is recorded here; nobody reads the field before list_add.               *)
_install_group_alloc(t) ==
  /\ Run(t, "alloc", "region") /\ Valid
  /\ \E d \in Devs, wq \in SUBSET {"delay_wq"} :
       /\ Unused(d) /\ \A e \in Devs : e < d => ~Unused(e)
       /\ wq = {} => "create_workqueue" \in InstallFaults
       /\ held' = [held EXCEPT ![d] = Range(Structures) \cup wq]
       /\ gd' = [gd EXCEPT ![t] = d]
       /\ major' = [major EXCEPT ![d] = devices.major]
       /\ minor' = [minor EXCEPT ![d] = desc[t]]
  /\ UNCHANGED <<loadVars, group_devs, table, kernelVars, ignored, desc, reg,
                 ret, crashed>>

(* The k-th allocation fails: jump to its label, return -1. *)
_install_group_nomem(t) ==
  /\ Return(t, "alloc", -1) /\ Valid
  /\ IF \E d \in Devs : Unused(d)
       THEN /\ "group_dev" \in InstallFaults
            /\ \E d \in Devs, k \in DOMAIN Structures :
                 /\ Unused(d) /\ \A e \in Devs : e < d => ~Unused(e)
                 /\ held' = [held EXCEPT ![d] = Allocated(k) \ UnwindFrom(k)]
       ELSE UNCHANGED held
  /\ UNCHANGED <<loadVars, group_devs, table, kernelVars, minor, major,
                 ignored, desc, gd, reg, crashed>>

(* The first device: a region and its major.                               *)
_install_group_region(t) ==
  /\ Run(t, "region", "class") /\ Valid
  /\ major[gd[t]] = 0
  /\ \E m \in Majors \ regions :
       /\ \A k \in Majors \ regions : m <= k
       /\ regions' = regions \cup {m}
       /\ major' = [major EXCEPT ![gd[t]] = m]
       /\ table' = [table EXCEPT ![group_devs].major = m]
  /\ UNCHANGED <<loadVars, group_devs, group_dev_class, class_registered,
                 held, minor, ignored, callVars, crashed>>

(* Later ones: err is tested without having been assigned, and this is the *)
(* outcome in which it is not negative.                                    *)
_install_group_reuse(t) ==
  /\ Run(t, "region", "class")
  /\ major[gd[t]] # 0
  /\ UNCHANGED <<loadVars, group_devs, table, kernelVars, devVars, callVars,
                 crashed>>

(* dev_reg_fail: alloc_chrdev_region has failed, and MAJOR(dev) of an      *)
(* uninitialised dev is stored; or the unassigned err is negative.         *)
_install_group_reg_fail(t) ==
  /\ Return(t, "region", -1)
  /\ \/ /\ major[gd[t]] = 0 /\ "alloc_chrdev_region" \in InstallFaults /\ Valid
        /\ \E m \in {0, Garbage} :
             table' = [table EXCEPT ![group_devs].major = m]
     \/ major[gd[t]] # 0 /\ UNCHANGED table
  /\ held' = [held EXCEPT ![gd[t]] = @ \ UnwindFrom(Len(Structures) + 1)]
  /\ gd' = [gd EXCEPT ![t] = NULL]
  /\ UNCHANGED <<loadVars, group_devs, kernelVars, minor, major, ignored, desc,
                 reg, crashed>>

_install_group_class(t) ==
  /\ Run(t, "class", IF group_dev_class = "null" THEN "mkclass" ELSE "cdev")
  /\ UNCHANGED <<loadVars, group_devs, table, kernelVars, devVars, callVars,
                 crashed>>

(* What class_create, cdev_add and device_create return is not looked at.  *)
(* Refused(t, what): an error for lack of memory or the like, recorded.    *)
Refused(t, what) ==
  what \in InstallFaults /\ ignored' = [ignored EXCEPT ![gd[t]] = @ \cup {what}]

class_create(t) ==
  /\ Run(t, "mkclass", "cdev")
  /\ ~class_registered /\ class_registered' = TRUE
  /\ group_dev_class' = "class"
  /\ UNCHANGED <<loadVars, group_devs, table, regions, devVars, callVars,
                 crashed>>

(* A name that is registered is refused as well.  group_dev_class becomes  *)
(* an ERR_PTR, so that no later call creates the class.                    *)
class_create_fail(t) ==
  /\ Run(t, "mkclass", "cdev")
  /\ \/ class_registered /\ UNCHANGED ignored
     \/ Refused(t, "class_create")
  /\ group_dev_class' = "error"
  /\ UNCHANGED <<loadVars, group_devs, table, class_registered, regions, held,
                 minor, major, callVars, crashed>>

cdev_add(t) ==
  /\ Run(t, "cdev", "device")
  /\ held' = [held EXCEPT ![gd[t]] = @ \cup {"cdev"}]
  /\ UNCHANGED <<loadVars, group_devs, table, kernelVars, minor, major,
                 ignored, callVars, crashed>>

cdev_add_fail(t) ==
  /\ Run(t, "cdev", "device")
  /\ Refused(t, "cdev_add")
  /\ UNCHANGED <<loadVars, group_devs, table, kernelVars, held, minor, major,
                 callVars, crashed>>

(* device_create fails for a bad class or a name that exists, too.         *)
NameTaken(t) ==
  \E e \in Devs : "device" \in held[e] /\ minor[e] = minor[gd[t]]

(* Then device_name is freed and the device returned, in either case.      *)
device_create(t) ==
  /\ Run(t, "device", "add_load")
  /\ group_dev_class = "class" /\ ~NameTaken(t)
  /\ held' = [held EXCEPT ![gd[t]] = (@ \ {"device_name"}) \cup {"device"}]
  /\ UNCHANGED <<loadVars, group_devs, table, kernelVars, minor, major,
                 ignored, callVars, crashed>>

device_create_fail(t) ==
  /\ Run(t, "device", "add_load")
  /\ \/ (group_dev_class # "class" \/ NameTaken(t)) /\ UNCHANGED ignored
     \/ Refused(t, "device_create")
  /\ held' = [held EXCEPT ![gd[t]] = @ \ {"device_name"}]
  /\ UNCHANGED <<loadVars, group_devs, table, kernelVars, minor, major,
                 callVars, crashed>>

-----------------------------------------------------------------------------
(* install_group: the new device enters the list                           *)

list_add_load(t) ==
  /\ Run(t, "add_load", "add_store") /\ ListValid
  /\ reg' = [reg EXCEPT ![t] = devices.devs]
  /\ UNCHANGED <<loadVars, group_devs, table, kernelVars, devVars, desc, gd,
                 ret, crashed>>

list_add_store(t) ==
  /\ Run(t, "add_store", "used_load") /\ ListValid
  /\ table' = [table EXCEPT ![group_devs].devs = Append(reg[t], gd[t])]
  /\ reg' = [reg EXCEPT ![t] = <<>>]
  /\ UNCHANGED <<loadVars, group_devs, kernelVars, devVars, desc, gd, ret,
                 crashed>>

used_load(t) ==
  /\ Run(t, "used_load", "used_store") /\ Valid
  /\ reg' = [reg EXCEPT ![t] = <<devices.used>>]
  /\ UNCHANGED <<loadVars, group_devs, table, kernelVars, devVars, desc, gd,
                 ret, crashed>>

used_store(t) ==
  /\ Return(t, "used_store", 0) /\ Valid
  /\ table' = [table EXCEPT ![group_devs].used = Head(reg[t]) + 1]
  /\ reg' = [reg EXCEPT ![t] = <<>>] /\ gd' = [gd EXCEPT ![t] = NULL]
  /\ UNCHANGED <<loadVars, group_devs, kernelVars, devVars, desc, crashed>>

(* The statements above that follow group_devs, and those that follow its  *)
(* list, when there is nothing valid to follow.                            *)
NeedsTable == {"init_list", "init_head", "seek", "space", "alloc",
               "used_load", "used_store"}
NeedsList  == {"add_load", "add_store"}

Misguided(t) ==
  \/ ipc[t] \in NeedsTable /\ ~Valid
  \/ ipc[t] = "region" /\ major[gd[t]] = 0 /\ ~Valid
  \/ ipc[t] = "init_head" /\ Valid /\ devices.list = "null"
  \/ ipc[t] \in NeedsList /\ ~ListValid

invalid_pointer(t) ==
  /\ ~crashed /\ Misguided(t)
  /\ crashed' = TRUE
  /\ UNCHANGED <<loadVars, group_devs, table, kernelVars, devVars, ipc,
                 callVars>>

-----------------------------------------------------------------------------
(* tsm_exit: group_free_all.  No file of the module is open, so no call is *)
(* under way and none can start.                                           *)

Idle == \A t \in Installers : ipc[t] = "idle"

(* No group was ever installed. *)
group_free_all_none ==
  /\ ~crashed /\ module_state = "in" /\ Idle
  /\ group_devs = NULL
  /\ to_free' = 0 /\ module_state' = "out"
  /\ UNCHANGED <<loads, group_devs, table, kernelVars, devVars, ipc, callVars,
                 crashed>>

(* Mutant: to_free is not taken from used. *)
group_free_all_uncounted ==
  /\ ~crashed /\ module_state = "in" /\ Idle
  /\ Valid
  /\ module_state' = "leaving"
  /\ UNCHANGED <<loads, to_free, group_devs, table, kernelVars, devVars, ipc,
                 callVars, crashed>>

group_free_all ==
  /\ ~crashed /\ module_state = "in" /\ Idle
  /\ Valid
  /\ to_free' = devices.used /\ module_state' = "leaving"
  /\ UNCHANGED <<loads, group_devs, table, kernelVars, devVars, ipc, callVars,
                 crashed>>

(* One turn of the loop: list_del, device_destroy by the number built from *)
(* group_devs->major, cdev_del, and the kfree calls of group_free with its *)
(* destroy_workqueue.  Messages are no state of this module.               *)
group_free_all_next ==
  /\ ~crashed /\ module_state = "leaving" /\ devices.devs # <<>>
  /\ group_dev_class # "error"
  /\ LET d == Head(devices.devs)
     IN  /\ held' = [held EXCEPT ![d] =
                IF major[d] = devices.major THEN {} ELSE @ \cap {"device"}]
         /\ ignored' = [ignored EXCEPT ![d] = {}]
  /\ table' = [table EXCEPT ![group_devs].devs = Tail(@)]
  /\ to_free' = to_free - 1
  /\ UNCHANGED <<module_state, loads, group_devs, kernelVars, minor, major,
                 ipc, callVars, crashed>>

(* device_destroy follows the class, also when it is an ERR_PTR. *)
group_free_all_bad_class ==
  /\ ~crashed /\ module_state = "leaving" /\ devices.devs # <<>>
  /\ group_dev_class = "error"
  /\ table' = [table EXCEPT ![group_devs].devs = Tail(@)]
  /\ crashed' = TRUE
  /\ UNCHANGED <<loadVars, group_devs, kernelVars, devVars, ipc, callVars>>

(* Mutant: the region is left registered. *)
group_free_all_region ==
  /\ ~crashed /\ module_state = "leaving" /\ devices.devs = <<>>
  /\ class_registered' = (class_registered /\ group_dev_class # "class")
  /\ table' = [table EXCEPT ![group_devs] = FreeTable]
  /\ module_state' = "out"
  /\ UNCHANGED <<loads, to_free, group_devs, group_dev_class, regions,
                 devVars, ipc, callVars, crashed>>

(* unregister_chrdev_region, class_destroy (which ignores a bad class),    *)
(* both frees, and the rest of tsm_exit.                                   *)
group_free_all_end ==
  /\ ~crashed /\ module_state = "leaving" /\ devices.devs = <<>>
  /\ regions' = regions \ {devices.major}
  /\ class_registered' = (class_registered /\ group_dev_class # "class")
  /\ table' = [table EXCEPT ![group_devs] = FreeTable]
  /\ module_state' = "out"
  /\ UNCHANGED <<loads, to_free, group_devs, group_dev_class, devVars, ipc,
                 callVars, crashed>>

-----------------------------------------------------------------------------
(* The specification                                                       *)

InstallStep(t) ==
  \/ install_group_check(t)
  \/ init_group_devs_alloc(t) \/ init_group_devs_fail(t)
  \/ init_group_devs_list(t) \/ init_group_devs_list_fail(t)
  \/ init_group_devs_head(t)
  \/ get_group_found(t) \/ get_group_missing(t)
  \/ install_group_space(t)
  \/ _install_group_alloc(t) \/ _install_group_nomem(t)
  \/ _install_group_region(t) \/ _install_group_reuse(t)
  \/ _install_group_reg_fail(t) \/ _install_group_class(t)
  \/ class_create(t) \/ class_create_fail(t)
  \/ cdev_add(t) \/ cdev_add_fail(t)
  \/ device_create(t) \/ device_create_fail(t)
  \/ list_add_load(t) \/ list_add_store(t) \/ used_load(t) \/ used_store(t)
  \/ invalid_pointer(t)

tsm_exit ==
  \/ group_free_all_none \/ group_free_all
  \/ group_free_all_next \/ group_free_all_bad_class \/ group_free_all_end

MgrNext ==
  \/ tsm_init
  \/ \E t \in Installers : install_group_enter(t) \/ InstallStep(t)
  \/ tsm_exit

MgrSpec == MgrInit /\ [][MgrNext]_mgrVars
-----------------------------------------------------------------------------
(* Properties                                                              *)

InstallPcs ==
  {"check", "init", "init_list", "init_head", "seek", "space", "alloc",
   "region", "class", "mkclass", "cdev", "device", "add_load", "add_store",
   "used_load", "used_store"}

(* The pointers, counters and objects of the manager have the types of     *)
(* their C declarations, and the counter of group_free_all, which ends as  *)
(* the number of devices that survived, stays a number of devices.         *)
MgrTypeOK ==
  /\ module_state \in {"out", "in", "leaving"} /\ loads \in 0 .. MaxLoads
  /\ group_devs \in Tables \cup {NULL}
  /\ table \in [Tables ->
       [life : {"free", "live"}, list : {"null", "raw", "ready"},
        devs : Seq(Devs), used : Nat, major : Majors \cup {0, Garbage}]]
  /\ group_dev_class \in {"null", "class", "error"}
  /\ class_registered \in BOOLEAN /\ regions \subseteq Majors
  /\ held \in [Devs -> SUBSET Objects]
  /\ minor \in [Devs -> Descs \cup {0}]
  /\ major \in [Devs -> Majors \cup {0, Garbage}]
  /\ ignored \in [Devs -> SUBSET Unchecked]
  /\ ipc \in [Installers -> {"idle"} \cup InstallPcs]
  /\ desc \in [Installers -> Descs \cup {0}]
  /\ gd \in [Installers -> Devs \cup {NULL}]
  /\ ret \in [Installers -> {0, -1}]
  /\ to_free \in 0 .. MaxDevs /\ crashed \in BOOLEAN

(* The devices install_group can find. *)
Listed == IF Valid THEN Range(devices.devs) ELSE {}

(* A device with all its structures, its cdev and its device file, except  *)
(* for a result that was an error and was not looked at.                   *)
Complete(d) ==
  /\ Range(Structures) \ {"device_name"} \subseteq held[d]
  /\ "cdev" \in held[d] \/ "cdev_add" \in ignored[d]
  /\ \/ "device" \in held[d] \/ "device_create" \in ignored[d]
     \/ group_dev_class = "error"

(* install_group ignores that init_group_devs failed and follows a NULL or *)
(* freed group_devs, before the first group of an insertion exists.        *)
InitFailed ==
  /\ ~Valid /\ regions = {} /\ ~class_registered
  /\ \A d \in Devs : held[d] \subseteq {"delay_wq"}

(* _install_group ignores that class_create failed, and group_free_all     *)
(* follows the ERR_PTR at the first device, of which it frees nothing.     *)
ClassFailed ==
  /\ module_state = "leaving" /\ group_dev_class = "error"
  /\ \E d \in Devs : /\ "class_create" \in ignored[d]
                     /\ Range(Structures) \ {"device_name"} \subseteq held[d]

(* "A new device file is installed only if a corresponding device is not   *)
(* existing": no two live group devices have the same minor.               *)
OneDevicePerGroup ==
  \A d, e \in Devs :
    "cdev" \in held[d] \cap held[e] /\ minor[d] = minor[e] => d = e
=============================================================================
