--------------------------- MODULE ManagerProofs ---------------------------
(***************************************************************************)
(* install_group takes no lock, and two calls that overlap install the     *)
(* same group twice.  What is proved here is how far that goes.  As long   *)
(* as no two calls overlap, however many threads make them and whatever    *)
(* the kernel refuses, the registry and its removal are right but for the  *)
(* results _install_group ignores.  And however calls overlap, a file that *)
(* open_group returned keeps its device.                                   *)
(***************************************************************************)
EXTENDS TsmLib, FiniteSetTheorems, TLAPS

(* No two calls of install_group overlap, as under a mutex around the      *)
(* body of IOCTL_INSTALL_GROUP.                                            *)
OneCall ==
  \A t, u \in Installers : ipc[t] # "idle" /\ ipc[u] # "idle" => t = u

-----------------------------------------------------------------------------
(* The inductive invariant                                                 *)

Opening == {"init_list", "init_head"}
Raw     == {"region", "class", "mkclass", "cdev"}
Owns    == Raw \cup {"device", "add_load", "add_store"}
Claimed == {"space", "alloc"} \cup Owns
Counts  == {"used_load", "used_store"}

Needed      == Range(Structures) \ {"device_name"}
Empty(d)    == held[d] \subseteq {"delay_wq"} /\ ignored[d] = {}
Classless(d) == "class_create" \in ignored[d] /\ Needed \subseteq held[d]

MgrBase ==
  /\ MgrTypeOK
  /\ reg \in [Installers -> Seq(Nat)]
  /\ \A t \in Installers : ipc[t] # "idle" => module_state = "in"

(* One structure lives, the one group_devs points to.                      *)
TableInv ==
  /\ \A k \in Tables :
       table[k].life = "live" => k = group_devs /\ module_state # "out"
  /\ module_state = "leaving" => ListValid
  /\ module_state = "in" /\ group_devs # NULL =>
       Valid \/ \E t \in Installers : ipc[t] = "seek"
  /\ Valid => ListValid \/ \E t \in Installers : ipc[t] \in Opening

(* Class and region exist only beside that structure, which knows them,    *)
(* and an ERR_PTR only beside the device for which it was returned.        *)
KernelInv ==
  /\ class_registered => Valid
  /\ module_state # "out" =>
       /\ class_registered <=> group_dev_class = "class"
       /\ group_dev_class = "error" => \E d \in Devs : Classless(d)
  /\ regions \subseteq IF Valid THEN {devices.major} ELSE {}

(* What is in the list is complete and was made with the present major.    *)
ListInv ==
  Valid =>
    /\ \A d \in Listed : Complete(d) /\ major[d] = devices.major
    /\ \A d, e \in Listed : minor[d] = minor[e] => d = e
    /\ \A j, k \in DOMAIN devices.devs :
         devices.devs[j] = devices.devs[k] => j = k
    /\ devices.major = 0 => devices.devs = <<>>
    /\ module_state = "in" => Len(devices.devs) = devices.used
         + IF \E t \in Installers : ipc[t] \in Counts THEN 1 ELSE 0

(* What is not in the list is under construction, or gone.                 *)
HeldInv ==
  \A d \in Devs \ Listed :
    Empty(d) \/ \E t \in Installers : ipc[t] \in Owns /\ gd[t] = d

FreeInv ==
  to_free = IF module_state = "leaving" THEN Len(devices.devs) ELSE 0

(* What a call has established when it reaches each of its statements.     *)
SearchInv(t) ==
  /\ ipc[t] = "init" => group_devs = NULL
  /\ ipc[t] \in Opening =>
       Valid /\ devices.devs = <<>> /\ regions = {} /\ ~class_registered
  /\ ipc[t] = "init_head" => devices.list # "null"
  /\ ipc[t] = "seek" /\ Valid => ListValid
  /\ ipc[t] \in Claimed => ListValid /\ \A d \in Listed : minor[d] # desc[t]

BuildInv(t) ==
  /\ ipc[t] \in Owns =>
       /\ gd[t] \in Devs \ Listed
       /\ minor[gd[t]] = desc[t] /\ major[gd[t]] = devices.major
       /\ ipc[t] # "region" => major[gd[t]] # 0
  /\ ipc[t] \in Raw => held[gd[t]] \ {"delay_wq"} = Range(Structures)
  /\ ipc[t] \in Raw \ {"cdev"} => ignored[gd[t]] = {}
  /\ ipc[t] = "mkclass" => group_dev_class = "null"
  /\ ipc[t] \in {"cdev", "device"} => group_dev_class # "null"
  /\ ipc[t] = "device" =>
       /\ Needed \subseteq held[gd[t]] /\ "device" \notin held[gd[t]]
       /\ "cdev" \in held[gd[t]] \/ "cdev_add" \in ignored[gd[t]]
  /\ ipc[t] \in {"add_load", "add_store"} => Complete(gd[t])

EntryInv(t) ==
  /\ ipc[t] = "add_store" => reg[t] = devices.devs
  /\ ipc[t] \in Counts =>
       ListValid /\ gd[t] \in Listed /\ minor[gd[t]] = desc[t]
  /\ ipc[t] = "used_store" => reg[t] = <<devices.used>>

CallInv ==
  \A t \in Installers : SearchInv(t) /\ BuildInv(t) /\ EntryInv(t)

LiveInv == TableInv /\ KernelInv /\ ListInv /\ HeldInv /\ FreeInv /\ CallInv

(* An invalid pointer was followed: which one, and what is left then.      *)
FaultInv == crashed => InitFailed \/ ClassFailed

MgrInv ==
  /\ MgrBase
  /\ IF crashed THEN FaultInv ELSE LiveInv

(* A thread that holds a file or sends IOCTL_INSTALL_GROUP keeps the       *)
(* module in.                                                              *)
PinInv ==
  /\ \A t \in Installers : ipc[t] # "idle" => cpc[t] = "installing"
  /\ \A t \in Installers : fd[t] # NULL => cpc[t] = "idle"
  /\ ~crashed /\ Pinned => module_state = "in"

(* However calls overlap, each builds a device of its own, a cdev is added *)
(* to a device that is whole, and no device with a cdev is undone.         *)
OwnInv ==
  /\ \A t \in Installers : ipc[t] \in Owns =>
       gd[t] \in Devs /\ Needed \subseteq held[gd[t]]
  /\ \A t, u \in Installers :
       ipc[t] \in Owns /\ ipc[u] \in Owns /\ gd[t] = gd[u] => t = u
  /\ \A t \in Installers : ipc[t] \in Raw => "cdev" \notin held[gd[t]]
  /\ \A d \in Devs : "cdev" \in held[d] => Needed \subseteq held[d]

FileBase ==
  /\ held \in [Devs -> SUBSET Objects]
  /\ minor \in [Devs -> Descs \cup {0}]
  /\ ipc \in [Installers -> {"idle"} \cup InstallPcs]
  /\ desc \in [Installers -> Descs \cup {0}]
  /\ gd \in [Installers -> Devs \cup {NULL}]
  /\ cpc \in [Installers -> {"idle", "ioctl", "installing", "size", "udev"}]
  /\ fd \in [Installers -> Devs \cup {NULL}]

FileInv ==
  /\ FileBase /\ PinInv /\ OwnInv
  /\ \A t \in Installers : fd[t] # NULL =>
       minor[fd[t]] = desc[t] /\ "cdev" \in held[fd[t]]

(* Without overlap the registry knows the device of an open file.          *)
KnownInv ==
  ~overlap =>
    /\ OneCall /\ MgrInv
    /\ ~crashed => \A t \in Installers :
         fd[t] # NULL => fd[t] \in Listed \cup Entering

-----------------------------------------------------------------------------
(* Lists and calls                                                         *)

(* What Range means for a list. *)
LEMMA RangeOfList ==
  ASSUME NEW s, NEW x
  PROVE  x \in Range(s) <=> \E k \in DOMAIN s : s[k] = x
BY DEF Range

(* A list without repetitions of at most MaxDevs devices is no longer.     *)
LEMMA ShortList ==
  ASSUME NEW s \in Seq(Devs),
         \A j, k \in DOMAIN s : s[j] = s[k] => j = k
  PROVE  Len(s) \in 0 .. MaxDevs
<1>1. IsFiniteSet(Devs) /\ Cardinality(Devs) = MaxDevs
  BY FS_Interval, InstallAssumption DEF Devs
<1>2. /\ IsFiniteSet(1 .. Len(s)) /\ Cardinality(1 .. Len(s)) = Len(s)
      /\ Len(s) \in Nat /\ s \in [1 .. Len(s) -> Devs]
      /\ DOMAIN s = 1 .. Len(s)
  BY FS_Interval
<1>3. ASSUME Cardinality(Devs) < Cardinality(1 .. Len(s))
      PROVE  \E x, y \in 1 .. Len(s) : x # y /\ s[x] = s[y]
  <2> HIDE DEF Devs
  <2> QED
    BY <1>1, <1>2, <1>3, FS_PigeonHole
<1> QED
  BY <1>1, <1>2, <1>3, InstallAssumption

(* What is listed are devices. *)
LEMMA ListedDevs ==
  ASSUME MgrTypeOK
  PROVE  Listed \subseteq Devs
BY RangeOfList DEF MgrTypeOK, Listed, Valid, devices, NULL

(* While one call is under way every other thread is idle. *)
LEMMA OthersIdle ==
  ASSUME OneCall, NEW t \in Installers, ipc[t] # "idle"
  PROVE  \A u \in Installers : ipc[u] # "idle" => u = t
BY DEF OneCall

-----------------------------------------------------------------------------
(* Types                                                                   *)

(* The structures named in the list of allocations are objects. *)
LEMMA StructuresAreObjects ==
  /\ Range(Structures) \subseteq Objects
  /\ Range(Structures) = {"device_name", "new_group_dev", "message_list",
       "message_sem", "pending_list", "pending_sem", "wq_sem", "delay_list"}
  /\ UnwindFrom(Len(Structures) + 1) = Range(Structures)
  /\ "new_group_dev" \in Needed /\ Needed \subseteq Range(Structures)
  /\ \A x \in {"device_name", "delay_wq", "cdev", "device"} : x \notin Needed
<1>1. Range(Structures) = {Structures[k] : k \in 1 .. 8} /\ Len(Structures) = 8
  BY DEF Range, Structures
<1>2. {Structures[k] : k \in 1 .. 8} =
        {"device_name", "new_group_dev", "message_list",
         "message_sem", "pending_list", "pending_sem", "wq_sem", "delay_list"}
  BY DEF Structures
<1> QED
  BY <1>1, <1>2 DEF Objects, UnwindFrom, Needed

(* The type of struct group_devices, and of the table of all of them. *)
TableType ==
  [life : {"free", "live"}, list : {"null", "raw", "ready"},
   devs : Seq(Devs), used : Nat, major : Majors \cup {0, Garbage}]

(* A new structure is well typed, and assigning to a field keeps the type. *)
LEMMA NewTable ==
  FreeTable \in TableType /\ [FreeTable EXCEPT !.life = "live"] \in TableType
<1>1. FreeTable \in TableType
  BY DEF FreeTable, TableType
<1>2. \A r \in TableType : [r EXCEPT !.life = "live"] \in TableType
  BY DEF TableType
<1> QED
  BY <1>1, <1>2

LEMMA ListField ==
  ASSUME NEW tab \in [Tables -> TableType], NEW g \in Tables,
         NEW l \in {"null", "raw", "ready"}
  PROVE  [tab EXCEPT ![g].list = l, ![g].devs = <<>>]
           \in [Tables -> TableType]
<1>1. \A s \in Seq(Devs) : [tab EXCEPT ![g].list = l, ![g].devs = s]
                             \in [Tables -> TableType]
  BY DEF TableType
<1>2. <<>> \in Seq(Devs)
  OBVIOUS
<1> QED
  BY <1>1, <1>2, Zenon

LEMMA MajorField ==
  ASSUME NEW tab \in [Tables -> TableType], NEW g \in Tables,
         NEW m \in Majors \cup {0, Garbage}
  PROVE  [tab EXCEPT ![g].major = m] \in [Tables -> TableType]
BY DEF TableType

(* A list of devices is a list of numbers. *)
LEMMA DevsAreNumbers ==
  ASSUME NEW s \in Seq(Devs)
  PROVE  s \in Seq(Nat)
<1>1. Len(s) \in Nat /\ s \in [1 .. Len(s) -> Nat]
  BY InstallAssumption DEF Devs
<1> QED
  BY <1>1

(* A statement of install_group keeps the types. *)
LEMMA InstallBase ==
  ASSUME MgrInv, OneCall, NEW t \in Installers,
         install_group_enter(t) \/ InstallStep(t)
  PROVE  MgrBase'
<1> USE DEF MgrBase, MgrTypeOK, InstallPcs, Run, Return, loadVars, kernelVars,
            devVars, callVars
<1>0. /\ MgrBase /\ (~crashed => LiveInv)
      /\ table \in [Tables -> TableType]
  BY DEF MgrInv, TableType
<1>b. ASSUME ~crashed, ipc[t] \in Owns
      PROVE  gd[t] \in Devs
  BY <1>0, <1>b DEF LiveInv, CallInv, BuildInv
<1>c. ASSUME table' \in [Tables -> TableType]
      PROVE  table' \in [Tables -> [life : {"free", "live"},
               list : {"null", "raw", "ready"}, devs : Seq(Devs), used : Nat,
               major : Majors \cup {0, Garbage}]]
  BY <1>c DEF TableType
<1>d. Valid => group_devs \in Tables /\ devices \in TableType
  BY <1>0 DEF Valid, devices, NULL
<1>1. CASE install_group_enter(t)
  BY <1>0, <1>1, InstallAssumption DEF install_group_enter
<1>2. CASE install_group_check(t)
  BY <1>0, <1>2, InstallAssumption DEF install_group_check
<1>3. CASE init_group_devs_alloc(t)
  <2>1. table' \in [Tables -> TableType]
    BY <1>0, <1>3, NewTable DEF init_group_devs_alloc
  <2> QED
    BY <1>0, <1>c, <1>3, <2>1, InstallAssumption DEF init_group_devs_alloc
<1>4. CASE init_group_devs_fail(t)
  BY <1>0, <1>4, InstallAssumption DEF init_group_devs_fail
<1>5. CASE init_group_devs_list(t)
  <2>1. table' \in [Tables -> TableType]
    BY <1>0, <1>d, <1>5, ListField DEF init_group_devs_list
  <2> QED
    BY <1>0, <1>c, <1>5, <2>1, InstallAssumption DEF init_group_devs_list
<1>6. CASE init_group_devs_list_fail(t)
  <2>1. table' \in [Tables -> TableType]
    BY <1>0, <1>d, <1>6, NewTable DEF init_group_devs_list_fail
  <2> QED
    BY <1>0, <1>c, <1>6, <2>1, InstallAssumption DEF init_group_devs_list_fail
<1>7. CASE init_group_devs_head(t)
  <2>1. table' \in [Tables -> TableType]
    BY <1>0, <1>d, <1>7, ListField DEF init_group_devs_head
  <2> QED
    BY <1>0, <1>c, <1>7, <2>1, InstallAssumption DEF init_group_devs_head
<1>8. CASE get_group_found(t)
  BY <1>0, <1>8, InstallAssumption DEF get_group_found
<1>9. CASE get_group_missing(t)
  BY <1>0, <1>9, InstallAssumption DEF get_group_missing
<1>10. CASE install_group_space(t)
  BY <1>0, <1>10, InstallAssumption DEF install_group_space
<1>11. CASE _install_group_alloc(t)
  <2>1. held' \in [Devs -> SUBSET Objects]
    BY <1>0, <1>11, StructuresAreObjects DEF _install_group_alloc, Objects
  <2>2. major' \in [Devs -> Majors \cup {0, Garbage}]
    BY <1>0, <1>d, <1>11 DEF _install_group_alloc, TableType
  <2> QED
    BY <1>0, <1>11, <2>1, <2>2 DEF _install_group_alloc
<1>12. CASE _install_group_nomem(t)
  <2>1. held' \in [Devs -> SUBSET Objects]
    <3>1. \A k : Allocated(k) \ UnwindFrom(k) = {}
      BY DEF Allocated, UnwindFrom
    <3>2. UNCHANGED held \/ \E d \in Devs : held' = [held EXCEPT ![d] = {}]
      BY <1>12, <3>1 DEF _install_group_nomem
    <3> QED
      BY <1>0, <3>2
  <2> QED
    BY <1>0, <1>12, <2>1 DEF _install_group_nomem
<1>13. CASE _install_group_region(t)
  <2>1. table' \in [Tables -> TableType]
    <3>1. PICK m \in Majors :
            table' = [table EXCEPT ![group_devs].major = m]
      BY <1>13 DEF _install_group_region
    <3> QED
      BY <1>0, <1>d, <1>13, <3>1, MajorField DEF _install_group_region
  <2>2. gd[t] \in Devs
    BY <1>b, <1>13 DEF _install_group_region, Owns, Raw
  <2>3. major' \in [Devs -> Majors \cup {0, Garbage}] /\ regions' \subseteq Majors
    BY <1>0, <1>13, <2>2 DEF _install_group_region
  <2> QED
    BY <1>0, <1>c, <1>13, <2>1, <2>3 DEF _install_group_region
<1>14. CASE _install_group_reuse(t)
  BY <1>0, <1>14, InstallAssumption DEF _install_group_reuse
<1>15. CASE _install_group_reg_fail(t)
  <2>1. table' \in [Tables -> TableType]
    <3>1. \/ UNCHANGED table
          \/ Valid /\ \E m \in Majors \cup {0, Garbage} :
               table' = [table EXCEPT ![group_devs].major = m]
      BY <1>15 DEF _install_group_reg_fail
    <3>2. CASE UNCHANGED table
      BY <1>0, <3>2
    <3>3. ASSUME Valid, NEW m \in Majors \cup {0, Garbage},
                 table' = [table EXCEPT ![group_devs].major = m]
          PROVE  table' \in [Tables -> TableType]
      BY <1>0, <1>d, <3>3, MajorField
    <3> QED
      BY <3>1, <3>2, <3>3
  <2>2. gd[t] \in Devs
    BY <1>b, <1>15 DEF _install_group_reg_fail, Owns, Raw
  <2> QED
    BY <1>0, <1>c, <2>2, <1>15, <2>1, InstallAssumption
       DEF _install_group_reg_fail
<1>16. CASE _install_group_class(t)
  BY <1>0, <1>16, InstallAssumption DEF _install_group_class
<1>e. ASSUME NEW what \in Unchecked, gd[t] \in Devs, Refused(t, what)
      PROVE  ignored' \in [Devs -> SUBSET Unchecked]
  BY <1>0, <1>e DEF Refused
<1>17. CASE class_create(t)
  BY <1>0, <1>17, InstallAssumption DEF class_create
<1>25. CASE class_create_fail(t)
  <2>1. gd[t] \in Devs
    BY <1>b, <1>25 DEF class_create_fail, Owns, Raw
  <2>2. ignored' \in [Devs -> SUBSET Unchecked]
    BY <1>0, <1>e, <1>25, <2>1 DEF class_create_fail, Unchecked
  <2> QED
    BY <1>0, <1>25, <2>2, InstallAssumption DEF class_create_fail
<1>26. CASE cdev_add_fail(t)
  <2>1. gd[t] \in Devs
    BY <1>b, <1>26 DEF cdev_add_fail, Owns, Raw
  <2>2. ignored' \in [Devs -> SUBSET Unchecked]
    BY <1>e, <1>26, <2>1 DEF cdev_add_fail, Unchecked
  <2> QED
    BY <1>0, <1>26, <2>2, InstallAssumption DEF cdev_add_fail
<1>27. CASE device_create_fail(t)
  <2>1. gd[t] \in Devs
    BY <1>b, <1>27 DEF device_create_fail, Owns
  <2>2. ignored' \in [Devs -> SUBSET Unchecked]
    BY <1>0, <1>e, <1>27, <2>1 DEF device_create_fail, Unchecked
  <2> QED
    BY <1>0, <1>27, <2>1, <2>2, InstallAssumption DEF device_create_fail
<1>18. CASE cdev_add(t)
  <2>1. gd[t] \in Devs
    BY <1>b, <1>18 DEF cdev_add, Owns, Raw
  <2> QED
    BY <1>0, <1>18, <2>1, InstallAssumption DEF cdev_add, Objects
<1>19. CASE device_create(t)
  <2>1. gd[t] \in Devs
    BY <1>b, <1>19 DEF device_create, Owns, Raw
  <2> QED
    BY <1>0, <1>c, <1>19, <2>1, InstallAssumption DEF device_create, Objects
<1>20. CASE list_add_load(t)
  <2>1. devices.devs \in Seq(Nat)
    BY <1>d, <1>20, DevsAreNumbers DEF list_add_load, TableType, ListValid
  <2> QED
    BY <1>0, <1>20, <2>1, InstallAssumption DEF list_add_load
<1>21. CASE list_add_store(t)
  <2>2. gd[t] \in Devs /\ reg[t] = devices.devs
    BY <1>0, <1>b, <1>21 DEF list_add_store, Owns, LiveInv, CallInv, EntryInv
  <2>3. Append(reg[t], gd[t]) \in Seq(Devs)
    BY <2>2, <1>d, <1>21 DEF list_add_store, ListValid, TableType
  <2>1. table' \in [Tables -> TableType]
    BY <1>0, <1>d, <1>21, <2>3 DEF list_add_store, ListValid, TableType
  <2> QED
    BY <1>0, <1>c, <1>21, <2>1, InstallAssumption DEF list_add_store
<1>22. CASE used_load(t)
  <2>1. <<devices.used>> \in Seq(Nat)
    BY <1>d, <1>22 DEF used_load, TableType
  <2> QED
    BY <1>0, <1>22, <2>1, InstallAssumption DEF used_load
<1>23. CASE used_store(t)
  <2>2. reg[t] = <<devices.used>>
    BY <1>0, <1>23 DEF used_store, LiveInv, CallInv, EntryInv
  <2>3. Head(reg[t]) + 1 \in Nat
    BY <2>2, <1>d, <1>23 DEF used_store, TableType
  <2>1. table' \in [Tables -> TableType]
    BY <1>0, <1>d, <1>23, <2>3 DEF used_store, TableType
  <2> QED
    BY <1>0, <1>c, <1>23, <2>1, InstallAssumption DEF used_store
<1>24. CASE invalid_pointer(t)
  BY <1>0, <1>24, InstallAssumption DEF invalid_pointer
<1> QED
  BY <1>1, <1>2, <1>3, <1>4, <1>5, <1>6, <1>7, <1>8, <1>9, <1>10, <1>11, <1>12,
     <1>13, <1>14, <1>15, <1>16, <1>17, <1>18, <1>19, <1>20, <1>21, <1>22,
     <1>23, <1>24, <1>25, <1>26, <1>27
  DEF InstallStep

(* Insertion and removal of the module keep the types. *)
LEMMA ModuleBase ==
  ASSUME MgrInv, tsm_init \/ tsm_exit
  PROVE  MgrBase'
<1> USE DEF MgrBase, MgrTypeOK, loadVars, kernelVars, devVars, callVars
<1>0. /\ MgrBase /\ (~crashed => LiveInv)
      /\ table \in [Tables -> TableType]
  BY DEF MgrInv, TableType
<1>c. ASSUME table' \in [Tables -> TableType]
      PROVE  table' \in [Tables -> [life : {"free", "live"},
               list : {"null", "raw", "ready"}, devs : Seq(Devs), used : Nat,
               major : Majors \cup {0, Garbage}]]
  BY <1>c DEF TableType
<1>d. Valid => group_devs \in Tables /\ devices \in TableType
  BY <1>0 DEF Valid, devices, NULL
<1>e. Idle \/ module_state = "leaving" => \A t \in Installers : ipc[t] = "idle"
  BY <1>0 DEF Idle
<1>1. CASE tsm_init
  BY <1>0, <1>1, InstallAssumption DEF tsm_init, NULL
<1>2. CASE group_free_all_none
  BY <1>0, <1>2, <1>e, InstallAssumption DEF group_free_all_none
<1>3. CASE group_free_all
  <2>1. devices.used = Len(devices.devs)
    BY <1>0, <1>3, <1>d
       DEF group_free_all, LiveInv, ListInv, Idle, Counts, TableType
  <2>2. Len(devices.devs) \in 0 .. MaxDevs
    BY <1>0, <1>3, <1>d, ShortList
       DEF group_free_all, LiveInv, ListInv, TableType
  <2> QED
    BY <1>0, <1>3, <1>e, <2>1, <2>2 DEF group_free_all
<1>4. CASE group_free_all_next
  <2>1. Valid /\ to_free = Len(devices.devs)
    BY <1>0, <1>4
       DEF group_free_all_next, LiveInv, TableInv, FreeInv, ListValid
  <2>2. devices.devs \in Seq(Devs) /\ devices.devs # <<>>
    BY <1>4, <1>d, <2>1 DEF group_free_all_next, TableType
  <2>3. to_free - 1 \in 0 .. MaxDevs
    BY <1>0, <2>1, <2>2, InstallAssumption
  <2>4. Head(devices.devs) \in Devs /\ Tail(devices.devs) \in Seq(Devs)
    BY <2>2
  <2>5. table' \in [Tables -> TableType]
    BY <1>0, <1>4, <1>d, <2>1, <2>4 DEF group_free_all_next, TableType, devices
  <2>6. /\ held' \in [Devs -> SUBSET Objects]
        /\ ignored' \in [Devs -> SUBSET Unchecked]
    BY <1>0, <1>4, <2>4 DEF group_free_all_next
  <2> QED
    BY <1>0, <1>4, <1>c, <2>3, <2>5, <2>6 DEF group_free_all_next
<1>5. CASE group_free_all_end
  <2>1. Valid
    BY <1>0, <1>5 DEF group_free_all_end, LiveInv, TableInv, ListValid
  <2>2. table' \in [Tables -> TableType]
    BY <1>0, <1>5, <1>d, <2>1, NewTable DEF group_free_all_end
  <2> QED
    BY <1>0, <1>5, <1>c, <1>e, <2>2 DEF group_free_all_end
<1>6. CASE group_free_all_bad_class
  <2>1. Valid
    BY <1>0, <1>6 DEF group_free_all_bad_class, LiveInv, TableInv, ListValid
  <2>2. devices.devs \in Seq(Devs) /\ devices.devs # <<>>
    BY <1>6, <1>d, <2>1 DEF group_free_all_bad_class, TableType
  <2>3. Tail(devices.devs) \in Seq(Devs)
    BY <2>2
  <2>4. table' \in [Tables -> TableType]
    BY <1>0, <1>6, <1>d, <2>1, <2>3
       DEF group_free_all_bad_class, TableType, devices
  <2> QED
    BY <1>0, <1>6, <1>c, <2>4 DEF group_free_all_bad_class
<1> QED
  BY <1>1, <1>2, <1>3, <1>4, <1>5, <1>6 DEF tsm_exit

-----------------------------------------------------------------------------
(* Calls                                                                   *)

(* An idle thread has established nothing. *)
LEMMA IdleCall ==
  ASSUME NEW u \in Installers, ipc'[u] = "idle"
  PROVE  (SearchInv(u) /\ BuildInv(u) /\ EntryInv(u))'
BY DEF SearchInv, BuildInv, EntryInv, Opening, Claimed, Owns, Raw, Counts

(* So a step of the one call under way is about that call alone. *)
LEMMA OneCallMoves ==
  ASSUME MgrBase, OneCall, NEW t \in Installers, NEW to,
         ipc[t] # "idle", ipc' = [ipc EXCEPT ![t] = to],
         (SearchInv(t) /\ BuildInv(t) /\ EntryInv(t))'
  PROVE  CallInv'
<1> SUFFICES ASSUME NEW u \in Installers
             PROVE  (SearchInv(u) /\ BuildInv(u) /\ EntryInv(u))'
  BY DEF CallInv
<1>1. u # t => ipc'[u] = "idle"
  BY OthersIdle DEF MgrBase, MgrTypeOK
<1> QED
  BY <1>1, IdleCall

(* The sets of statements the invariant speaks of, as the call moves. *)
LEMMA OneCallSets ==
  ASSUME MgrBase, OneCall, NEW t \in Installers, NEW to,
         ipc[t] # "idle", ipc' = [ipc EXCEPT ![t] = to]
  PROVE  /\ ipc'[t] = to /\ \A u \in Installers : u # t => ipc'[u] = "idle"
         /\ \A u \in Installers : u # t => ipc[u] = "idle"
         /\ (\E u \in Installers : ipc[u] = "seek") <=> ipc[t] = "seek"
         /\ (\E u \in Installers : ipc[u] = "seek")' <=> to = "seek"
         /\ (\E u \in Installers : ipc[u] \in Opening) <=> ipc[t] \in Opening
         /\ (\E u \in Installers : ipc[u] \in Opening)' <=> to \in Opening
         /\ (\E u \in Installers : ipc[u] \in Counts) <=> ipc[t] \in Counts
         /\ (\E u \in Installers : ipc[u] \in Counts)' <=> to \in Counts
<1>1. /\ ipc'[t] = to /\ \A u \in Installers : u # t => ipc'[u] = "idle"
      /\ \A u \in Installers : u # t => ipc[u] = "idle"
  BY OthersIdle DEF MgrBase, MgrTypeOK
<1>2. "idle" \notin Opening \cup Counts \cup {"seek"}
  BY DEF Opening, Counts
<1> QED
  BY <1>1, <1>2

(* What is neither listed nor gone belongs to the one call under way. *)
LEMMA OwnerIs ==
  ASSUME HeldInv, OneCall, NEW t \in Installers, ipc[t] # "idle",
         NEW d \in Devs \ Listed
  PROVE  Empty(d) \/ (ipc[t] \in Owns /\ gd[t] = d)
<1>1. \A u \in Installers : ipc[u] \in Owns => u = t
  BY OthersIdle DEF Owns, Raw
<1> QED
  BY <1>1 DEF HeldInv

(* A list is ready for every call that is past its initialisation. *)
LEMMA ReadyList ==
  ASSUME TableInv, OneCall, NEW t \in Installers,
         ipc[t] \notin Opening \cup {"idle"}, Valid
  PROVE  ListValid /\ devices.list = "ready"
<1>1. \A u \in Installers : ipc[u] \notin Opening
  BY OthersIdle DEF Opening
<1> QED
  BY <1>1 DEF TableInv, ListValid, devices

(* A step that leaves the structures alone. *)
LEMMA SameTable ==
  ASSUME UNCHANGED <<group_devs, table>>
  PROVE  /\ Valid' = Valid /\ ListValid' = ListValid
         /\ devices' = devices /\ Listed' = Listed
BY DEF Valid, ListValid, devices, Listed

(* A statement that only reads, or moves what belongs to its thread. *)
Looks(t) ==
  \/ install_group_check(t) \/ get_group_found(t) \/ get_group_missing(t)
  \/ install_group_space(t) \/ _install_group_reuse(t)
  \/ _install_group_class(t) \/ list_add_load(t) \/ used_load(t)

LEMMA LookingLive ==
  ASSUME MgrInv, OneCall, NEW t \in Installers, Looks(t), ~crashed, ~crashed'
  PROVE  LiveInv'
<1>0. MgrBase /\ LiveInv
  BY DEF MgrInv
<1>1. UNCHANGED <<group_devs, table, kernelVars, devVars, module_state, to_free>>
  BY DEF Looks, install_group_check, get_group_found, get_group_missing,
         install_group_space, _install_group_reuse, _install_group_class,
         list_add_load, used_load, Run, Return, loadVars, callVars
<1>2. Valid' = Valid /\ ListValid' = ListValid /\ devices' = devices
      /\ Listed' = Listed
  BY <1>1, SameTable
<1>3. PICK to : ipc' = [ipc EXCEPT ![t] = to]
  BY DEF Looks, install_group_check, get_group_found, get_group_missing,
         install_group_space, _install_group_reuse, _install_group_class,
         list_add_load, used_load, Run, Return
<1>4. ipc[t] # "idle" /\ ipc'[t] = to
  BY <1>0, <1>3
     DEF Looks, install_group_check, get_group_found, get_group_missing,
         install_group_space, _install_group_reuse, _install_group_class,
         list_add_load, used_load, Run, Return, MgrBase, MgrTypeOK
<1>5. /\ ipc[t] = "seek" => Valid /\ to # "seek"
      /\ ipc[t] \notin Opening /\ to \notin Opening
      /\ ipc[t] \in Counts <=> to \in Counts
      /\ ipc[t] \in Owns <=> to \in Owns
      /\ ipc[t] \in Owns => gd'[t] = gd[t]
  BY <1>0, <1>3, <1>4
     DEF Looks, install_group_check, get_group_found, get_group_missing,
         install_group_space, _install_group_reuse, _install_group_class,
         list_add_load, used_load, Run, Return, MgrBase, MgrTypeOK,
         Opening, Counts, Owns, Raw, ListValid, callVars
<1>6. TableInv'
  BY <1>0, <1>1, <1>2, <1>3, <1>4, <1>5, OneCallSets DEF LiveInv, TableInv
<1>7. KernelInv' /\ FreeInv'
  BY <1>0, <1>1, <1>2
     DEF LiveInv, KernelInv, FreeInv, kernelVars, devVars, Classless
<1>8. ListInv'
  BY <1>0, <1>1, <1>2, <1>3, <1>4, <1>5, OneCallSets
     DEF LiveInv, ListInv, devVars, kernelVars, Complete
<1>9. HeldInv'
  <2> SUFFICES ASSUME NEW d \in Devs \ Listed
               PROVE  Empty(d)' \/ (\E u \in Installers :
                                     ipc[u] \in Owns /\ gd[u] = d)'
    BY <1>2 DEF HeldInv
  <2>1. Empty(d) \/ (ipc[t] \in Owns /\ gd[t] = d)
    BY <1>0, <1>4, OwnerIs DEF LiveInv
  <2> QED
    BY <1>1, <1>4, <1>5, <2>1 DEF devVars, Empty
<1>10. (SearchInv(t) /\ BuildInv(t) /\ EntryInv(t))'
  <2> USE DEF Run, Return, kernelVars, devVars, callVars, MgrBase, MgrTypeOK,
              SearchInv, BuildInv, EntryInv, Opening, Claimed, Owns, Raw,
              Counts, Complete
  <2>0. SearchInv(t) /\ BuildInv(t) /\ EntryInv(t)
    BY <1>0 DEF LiveInv, CallInv
  <2>1. CASE install_group_check(t)
    <3>1. Valid => ListValid
      BY <1>0, <2>1, ReadyList DEF install_group_check, LiveInv
    <3> QED
      BY <1>0, <1>1, <1>2, <2>0, <2>1, <3>1 DEF install_group_check
  <2>2. CASE get_group_found(t)
    BY <1>0, <1>1, <1>2, <2>0, <2>2 DEF get_group_found
  <2>3. CASE get_group_missing(t)
    <3>1. ListValid /\ devices.list = "ready"
      BY <1>0, <2>3, ReadyList DEF get_group_missing, LiveInv
    <3>2. \A d \in Listed : minor[d] # desc[t]
      BY <2>3, <3>1 DEF get_group_missing, _get_group, Listed
    <3> QED
      BY <1>0, <1>1, <1>2, <2>0, <2>3, <3>1, <3>2 DEF get_group_missing
  <2>4. CASE install_group_space(t)
    BY <1>0, <1>1, <1>2, <2>0, <2>4 DEF install_group_space
  <2>5. CASE _install_group_reuse(t)
    BY <1>0, <1>1, <1>2, <2>0, <2>5 DEF _install_group_reuse
  <2>6. CASE _install_group_class(t)
    BY <1>0, <1>1, <1>2, <2>0, <2>6 DEF _install_group_class
  <2>7. CASE list_add_load(t)
    BY <1>0, <1>1, <1>2, <2>0, <2>7 DEF list_add_load
  <2>8. CASE used_load(t)
    BY <1>0, <1>1, <1>2, <2>0, <2>8 DEF used_load
  <2> QED
    BY <2>1, <2>2, <2>3, <2>4, <2>5, <2>6, <2>7, <2>8 DEF Looks
<1>11. CallInv'
  BY <1>0, <1>3, <1>4, <1>10, OneCallMoves
<1> QED
  BY <1>6, <1>7, <1>8, <1>9, <1>11 DEF LiveInv

(* A call that begins has established nothing. *)
LEMMA EnterLive ==
  ASSUME MgrInv, NEW t \in Installers, install_group_enter(t)
  PROVE  LiveInv'
<1>0. MgrBase /\ LiveInv
  BY DEF MgrInv, install_group_enter, Run
<1>1. /\ UNCHANGED <<group_devs, table, kernelVars, devVars, module_state, to_free,
                     gd, reg>>
      /\ ipc[t] = "idle" /\ ipc' = [ipc EXCEPT ![t] = "check"]
      /\ \A u \in Installers : u # t => ipc'[u] = ipc[u] /\ desc'[u] = desc[u]
      /\ ipc'[t] = "check"
  BY <1>0 DEF install_group_enter, Run, loadVars, MgrBase, MgrTypeOK
<1>2. Valid' = Valid /\ ListValid' = ListValid /\ devices' = devices
      /\ Listed' = Listed
  BY <1>1, SameTable
<1>3. \A u \in Installers :
        /\ ipc'[u] \in Owns <=> ipc[u] \in Owns
        /\ ipc'[u] \in Counts <=> ipc[u] \in Counts
        /\ ipc'[u] \in Opening <=> ipc[u] \in Opening
        /\ ipc'[u] = "seek" <=> ipc[u] = "seek"
  BY <1>1 DEF Owns, Raw, Counts, Opening
<1>4. TableInv'
  BY <1>0, <1>1, <1>2, <1>3 DEF LiveInv, TableInv
<1>5. KernelInv' /\ FreeInv'
  BY <1>0, <1>1, <1>2
     DEF LiveInv, KernelInv, FreeInv, kernelVars, devVars, Classless
<1>6. ListInv'
  BY <1>0, <1>1, <1>2, <1>3
     DEF LiveInv, ListInv, devVars, kernelVars, Complete
<1>7. HeldInv'
  BY <1>0, <1>1, <1>2, <1>3 DEF LiveInv, HeldInv, devVars, Empty
<1>8. CallInv'
  <2> SUFFICES ASSUME NEW u \in Installers
               PROVE  (SearchInv(u) /\ BuildInv(u) /\ EntryInv(u))'
    BY DEF CallInv
  <2>1. CASE u = t
    BY <1>1, <2>1 DEF SearchInv, BuildInv, EntryInv, Opening, Claimed, Owns,
                      Raw, Counts
  <2>2. CASE u # t
    BY <1>0, <1>1, <1>2, <2>2
       DEF LiveInv, CallInv, SearchInv, BuildInv, EntryInv, Complete, devVars,
           kernelVars
  <2> QED
    BY <2>1, <2>2
<1> QED
  BY <1>4, <1>5, <1>6, <1>7, <1>8 DEF LiveInv

-----------------------------------------------------------------------------
(* init_group_devs                                                         *)

Inits(t) ==
  \/ init_group_devs_alloc(t) \/ init_group_devs_fail(t)
  \/ init_group_devs_list(t) \/ init_group_devs_list_fail(t)
  \/ init_group_devs_head(t)

(* Before the first device nothing exists that the list would have to know. *)
LEMMA BeforeFirst ==
  ASSUME MgrBase, LiveInv, NEW t \in Installers,
         ipc[t] \in {"init"} \cup Opening
  PROVE  /\ Listed = {} /\ regions = {} /\ ~class_registered
         /\ module_state = "in"
         /\ ipc[t] = "init" => ~Valid /\ \A k \in Tables : table[k].life = "free"
         /\ ipc[t] \in Opening => Valid /\ devices.devs = <<>>
<1>1. SearchInv(t)
  BY DEF LiveInv, CallInv
<1>2. module_state = "in"
  BY DEF MgrBase, Opening
<1>3. CASE ipc[t] = "init"
  <2>1. group_devs = NULL /\ ~Valid
    BY <1>1, <1>3 DEF SearchInv, Valid
  <2>2. \A k \in Tables : table[k].life = "free"
    BY <2>1, InstallAssumption
       DEF LiveInv, TableInv, MgrBase, MgrTypeOK, Tables, NULL
  <2> QED
    BY <1>2, <1>3, <2>1, <2>2 DEF LiveInv, KernelInv, Listed, Opening
<1>4. CASE ipc[t] \in Opening
  <2>1. Valid /\ devices.devs = <<>> /\ regions = {} /\ ~class_registered
    BY <1>1, <1>4 DEF SearchInv
  <2>2. Listed = {}
    BY <2>1, RangeOfList DEF Listed
  <2> QED
    BY <1>2, <1>4, <2>1, <2>2 DEF Opening
<1> QED
  BY <1>3, <1>4

(* Nor does a statement of init_group_devs make anything else. *)
LEMMA InitsLive ==
  ASSUME MgrInv, OneCall, NEW t \in Installers, Inits(t), ~crashed
  PROVE  LiveInv'
<1>0. MgrBase /\ LiveInv /\ table \in [Tables -> TableType]
  BY DEF MgrInv, MgrBase, MgrTypeOK, TableType
<1>1. UNCHANGED <<kernelVars, devVars, loadVars, callVars>>
  BY DEF Inits, init_group_devs_alloc, init_group_devs_fail,
         init_group_devs_list, init_group_devs_list_fail, init_group_devs_head
<1>2. PICK to \in Opening \cup {"seek"} : ipc' = [ipc EXCEPT ![t] = to]
  BY DEF Inits, init_group_devs_alloc, init_group_devs_fail,
         init_group_devs_list, init_group_devs_list_fail, init_group_devs_head,
         Run, Opening
<1>3. ipc[t] \in {"init"} \cup Opening /\ ipc'[t] = to /\ ipc[t] # "idle"
  BY <1>0, <1>2
     DEF Inits, init_group_devs_alloc, init_group_devs_fail,
         init_group_devs_list, init_group_devs_list_fail, init_group_devs_head,
         Run, Opening, MgrBase, MgrTypeOK
<1>4. /\ Listed = {} /\ regions = {} /\ ~class_registered
      /\ module_state = "in"
      /\ ipc[t] = "init" => ~Valid /\ \A k \in Tables : table[k].life = "free"
      /\ ipc[t] \in Opening => Valid /\ devices.devs = <<>>
  BY <1>0, <1>3, BeforeFirst
<1>5. /\ Valid' => devices'.devs = <<>> /\ devices'.used = 0
      /\ Valid' /\ to = "seek" => ListValid'
      /\ to \in Opening => Valid'
      /\ to = "init_head" => devices'.list # "null"
      /\ \A k \in Tables : table'[k].life = "live" => k = group_devs'
  <2> USE DEF Run, MgrBase, MgrTypeOK, Valid, ListValid, devices, Opening, NULL
  <2>1. CASE init_group_devs_alloc(t)
    BY <1>0, <1>2, <1>4, <2>1, InstallAssumption
       DEF init_group_devs_alloc, FreeTable, Tables
  <2>2. CASE init_group_devs_fail(t)
    BY <1>0, <1>2, <1>4, <2>2 DEF init_group_devs_fail
  <2>3. ASSUME ipc[t] \in Opening
        PROVE  /\ table[group_devs].used = 0 /\ group_devs \in Tables
               /\ \A k \in Tables : table[k].life = "live" => k = group_devs
    <3>1. ~\E u \in Installers : ipc[u] \in Counts
      BY <1>0, <1>2, <1>3, <2>3, OneCallSets DEF Counts
    <3>2. Len(devices.devs) = 0
      BY <1>4, <2>3
    <3> QED
      BY <1>0, <1>4, <2>3, <3>1, <3>2 DEF LiveInv, ListInv, TableInv, TableType
  <2>4. CASE init_group_devs_list(t)
    BY <1>0, <1>2, <2>3, <2>4 DEF init_group_devs_list, TableType
  <2>5. CASE init_group_devs_list_fail(t)
    BY <1>0, <1>2, <2>3, <2>5 DEF init_group_devs_list_fail, FreeTable
  <2>6. CASE init_group_devs_head(t)
    BY <1>0, <1>2, <2>3, <2>6 DEF init_group_devs_head, TableType
  <2> QED
    BY <2>1, <2>2, <2>4, <2>5, <2>6 DEF Inits
<1>6. Listed' = {}
  BY <1>5, RangeOfList DEF Listed
<1>7. TableInv'
  BY <1>1, <1>2, <1>3, <1>4, <1>5 DEF TableInv, loadVars, Opening
<1>8. KernelInv' /\ FreeInv'
  BY <1>0, <1>1, <1>4
     DEF LiveInv, KernelInv, FreeInv, kernelVars, loadVars, devVars, Classless
<1>9. ListInv'
  <2>1. ~\E u \in Installers : ipc'[u] \in Counts
    BY <1>0, <1>2, <1>3, OneCallSets DEF Opening, Counts
  <2> QED
    BY <1>5, <1>6, <2>1 DEF ListInv
<1>10. HeldInv'
  <2>1. \A d \in Devs : Empty(d)
    BY <1>0, <1>3, <1>4, OwnerIs DEF LiveInv, Opening, Owns, Raw
  <2> QED
    BY <1>1, <2>1 DEF HeldInv, Empty, devVars
<1>11. (SearchInv(t) /\ BuildInv(t) /\ EntryInv(t))'
  BY <1>1, <1>3, <1>4, <1>5
     DEF SearchInv, BuildInv, EntryInv, Opening, Claimed, Owns, Raw, Counts,
         kernelVars
<1>12. CallInv'
  BY <1>0, <1>2, <1>3, <1>11, OneCallMoves
<1> QED
  BY <1>7, <1>8, <1>9, <1>10, <1>12 DEF LiveInv

-----------------------------------------------------------------------------
(* _install_group                                                          *)

Builds(t) ==
  \/ _install_group_alloc(t) \/ _install_group_nomem(t)
  \/ _install_group_region(t) \/ _install_group_reg_fail(t)
  \/ class_create(t) \/ class_create_fail(t)
  \/ cdev_add(t) \/ cdev_add_fail(t)
  \/ device_create(t) \/ device_create_fail(t)

(* The device a statement of _install_group works on. *)
WorksOn(t, d) ==
  /\ d \in Devs \ Listed
  /\ \A e \in Devs : e # d =>
       /\ held'[e] = held[e] /\ ignored'[e] = ignored[e]
       /\ minor'[e] = minor[e] /\ major'[e] = major[e]
  /\ ipc[t] \in Owns => d = gd[t]

(* A device that does not exist is not in the list. *)
LEMMA UnusedUnlisted ==
  ASSUME ListInv, NEW d, Unused(d)
  PROVE  d \notin Listed
<1>1. Complete(d) => "new_group_dev" \in held[d]
  BY StructuresAreObjects DEF Complete, Needed
<1> QED
  BY <1>1 DEF ListInv, Listed, Unused

(* A statement of _install_group works on one that is not in the list. *)
LEMMA WorksUnlisted ==
  ASSUME MgrInv, NEW t \in Installers, Builds(t), ~crashed
  PROVE  UNCHANGED devVars \/ \E d \in Devs : WorksOn(t, d)
<1>0. MgrBase /\ LiveInv /\ SearchInv(t) /\ BuildInv(t)
  BY DEF MgrInv, LiveInv, CallInv
<1>1. \A d \in Devs : Unused(d) => d \notin Listed
  BY <1>0, UnusedUnlisted DEF LiveInv
<1> USE DEF Run, Return, WorksOn, MgrBase, MgrTypeOK, devVars
<1>2. CASE _install_group_alloc(t)
  <2>1. ipc[t] \notin Owns
    BY <1>2 DEF _install_group_alloc, Owns, Raw
  <2>2. PICK d \in Devs :
          /\ Unused(d) /\ \E h : held' = [held EXCEPT ![d] = h]
          /\ major' = [major EXCEPT ![d] = devices.major]
          /\ minor' = [minor EXCEPT ![d] = desc[t]] /\ UNCHANGED ignored
    BY <1>2 DEF _install_group_alloc
  <2>3. WorksOn(t, d)
    BY <1>0, <1>1, <2>1, <2>2
  <2> QED
    BY <2>3
<1>3. CASE _install_group_nomem(t)
  <2>1. ipc[t] \notin Owns
    BY <1>3 DEF _install_group_nomem, Owns, Raw
  <2>2. CASE UNCHANGED held
    BY <1>3, <2>2 DEF _install_group_nomem
  <2>3. CASE ~UNCHANGED held
    <3>1. PICK d \in Devs : Unused(d) /\ \E h : held' = [held EXCEPT ![d] = h]
      BY <1>3, <2>3 DEF _install_group_nomem
    <3>2. WorksOn(t, d)
      BY <1>0, <1>1, <1>3, <2>1, <3>1 DEF _install_group_nomem
    <3> QED
      BY <3>2
  <2> QED
    BY <2>2, <2>3
<1>4. ASSUME ipc[t] \in Owns
      PROVE  gd[t] \in Devs \ Listed
  BY <1>0, <1>4 DEF BuildInv
<1>5. CASE _install_group_region(t)
  BY <1>0, <1>4, <1>5 DEF _install_group_region, Owns, Raw
<1>6. CASE _install_group_reg_fail(t)
  BY <1>0, <1>4, <1>6 DEF _install_group_reg_fail, Owns, Raw
<1>7. CASE class_create(t)
  BY <1>7 DEF class_create
<1>8. CASE cdev_add(t)
  BY <1>0, <1>4, <1>8 DEF cdev_add, Owns, Raw
<1>9. CASE device_create(t)
  BY <1>0, <1>4, <1>9 DEF device_create, Owns
<1>10. CASE class_create_fail(t)
  BY <1>0, <1>4, <1>10 DEF class_create_fail, Refused, Owns, Raw
<1>11. CASE cdev_add_fail(t)
  BY <1>0, <1>4, <1>11 DEF cdev_add_fail, Refused, Owns, Raw
<1>12. CASE device_create_fail(t)
  BY <1>0, <1>4, <1>12 DEF device_create_fail, Refused, Owns
<1> QED
  BY <1>2, <1>3, <1>5, <1>6, <1>7, <1>8, <1>9, <1>10, <1>11, <1>12 DEF Builds

(* A statement of _install_group leaves the list alone, and changes its    *)
(* major only while there is none.                                         *)
LEMMA BuildsTable ==
  ASSUME MgrInv, NEW t \in Installers, Builds(t), ~crashed
  PROVE  /\ UNCHANGED <<group_devs, loadVars, desc, reg>>
         /\ ListValid /\ ListValid' /\ Valid /\ Valid'
         /\ \A k \in Tables : table'[k].life = table[k].life
         /\ devices'.devs = devices.devs /\ devices'.used = devices.used
         /\ Listed' = Listed
         /\ devices'.major # devices.major => devices.major = 0
         /\ module_state = "in"
<1>0. /\ MgrBase /\ LiveInv /\ SearchInv(t) /\ BuildInv(t)
      /\ table \in [Tables -> TableType]
  BY DEF MgrInv, LiveInv, CallInv, MgrBase, MgrTypeOK, TableType
<1> USE DEF Builds, _install_group_alloc, _install_group_nomem,
            _install_group_region, _install_group_reg_fail, class_create,
            class_create_fail, cdev_add, cdev_add_fail, device_create,
            device_create_fail, Run, Return
<1>1. UNCHANGED <<group_devs, loadVars, desc, reg>>
  BY DEF callVars
<1>2. ipc[t] \in Claimed /\ module_state = "in"
  BY <1>0 DEF Claimed, Owns, Raw, MgrBase
<1>3. ListValid /\ Valid /\ group_devs \in Tables
  BY <1>0, <1>2 DEF SearchInv, ListValid, Valid, MgrBase, MgrTypeOK, NULL
<1>4. \/ UNCHANGED table
      \/ devices.major = 0 /\ \E m : table' = [table EXCEPT ![group_devs].major = m]
  <2>1. ipc[t] = "region" => major[gd[t]] = devices.major
    BY <1>0 DEF BuildInv, Owns, Raw
  <2> QED
    BY <2>1
<1> HIDE DEF Builds
<1>5. /\ \A k \in Tables : table'[k].life = table[k].life
      /\ devices'.devs = devices.devs /\ devices'.used = devices.used
      /\ devices'.list = devices.list
      /\ devices'.major # devices.major => devices.major = 0
  <2>1. CASE UNCHANGED table
    BY <1>1, <2>1 DEF devices
  <2>2. ASSUME devices.major = 0, NEW m,
               table' = [table EXCEPT ![group_devs].major = m]
        PROVE  /\ \A k \in Tables : table'[k].life = table[k].life
               /\ table'[group_devs].devs = table[group_devs].devs
               /\ table'[group_devs].used = table[group_devs].used
               /\ table'[group_devs].list = table[group_devs].list
    BY <1>0, <1>3, <2>2 DEF TableType
  <2> QED
    BY <1>1, <1>4, <2>1, <2>2 DEF devices
<1>6. Valid' /\ ListValid' /\ Listed' = Listed
  BY <1>1, <1>3, <1>5 DEF Valid, ListValid, Listed, devices
<1> QED
  BY <1>1, <1>2, <1>3, <1>5, <1>6

(* A statement of _install_group builds its device, or undoes it, and      *)
(* nothing else; with the class and region there is one of each.           *)
LEMMA BuildsLive ==
  ASSUME MgrInv, OneCall, NEW t \in Installers, Builds(t), ~crashed
  PROVE  LiveInv'
<1>0. /\ MgrBase /\ LiveInv /\ SearchInv(t) /\ BuildInv(t)
      /\ table \in [Tables -> TableType]
  BY DEF MgrInv, LiveInv, CallInv, MgrBase, MgrTypeOK, TableType
<1>1. /\ UNCHANGED <<group_devs, loadVars, desc, reg>>
      /\ ListValid /\ ListValid' /\ Valid /\ Valid'
      /\ \A k \in Tables : table'[k].life = table[k].life
      /\ devices'.devs = devices.devs /\ devices'.used = devices.used
      /\ Listed' = Listed
      /\ devices'.major # devices.major => devices.major = 0
      /\ module_state = "in"
  BY BuildsTable
<1>2. PICK to : ipc' = [ipc EXCEPT ![t] = to]
  BY DEF Builds, _install_group_alloc, _install_group_nomem,
         _install_group_region, _install_group_reg_fail, class_create,
         class_create_fail, cdev_add, cdev_add_fail, device_create,
         device_create_fail, Run, Return
<1>3. /\ ipc[t] \in {"alloc"} \cup Owns /\ ipc'[t] = to
      /\ to \in {"idle"} \cup (Owns \ {"mkclass", "add_store"})
  BY <1>0, <1>2
     DEF Builds, _install_group_alloc, _install_group_nomem,
         _install_group_region, _install_group_reg_fail, class_create,
         class_create_fail, cdev_add, cdev_add_fail, device_create,
         device_create_fail, Run, Return, MgrBase, MgrTypeOK, Owns, Raw
<1>4. /\ ipc[t] # "idle"
      /\ ~\E u \in Installers : ipc[u] \in Counts
      /\ ~\E u \in Installers : ipc'[u] \in Counts
  BY <1>0, <1>2, <1>3, OneCallSets DEF Owns, Raw, Counts
<1>5. \A d \in Listed :
        /\ held'[d] = held[d] /\ ignored'[d] = ignored[d]
        /\ minor'[d] = minor[d] /\ major'[d] = major[d]
  BY <1>0, WorksUnlisted, ListedDevs DEF WorksOn, devVars, MgrBase
<1>c. group_dev_class = "error" => group_dev_class' = "error"
  BY <1>0 DEF Builds, _install_group_alloc, _install_group_nomem,
         _install_group_region, _install_group_reg_fail, class_create,
         class_create_fail, cdev_add, cdev_add_fail, device_create,
         device_create_fail, Run, BuildInv, kernelVars
<1>6. TableInv' /\ FreeInv'
  BY <1>0, <1>1 DEF LiveInv, TableInv, FreeInv, loadVars
<1>7. ListInv'
  <2>1. devices.major = 0 => Listed = {} /\ devices.devs = <<>>
    BY <1>0, <1>1, RangeOfList DEF LiveInv, ListInv, Listed
  <2>2. devices.devs \in Seq(Devs) /\ Len(devices.devs) = devices.used
    BY <1>0, <1>1, <1>4
       DEF LiveInv, ListInv, TableType, devices, Valid, MgrBase, MgrTypeOK, NULL
  <2> QED
    BY <1>0, <1>1, <1>c, <1>4, <1>5, <2>1, <2>2 DEF LiveInv, ListInv, Complete
<1>w. ASSUME NEW d \in Devs, Classless(d)
      PROVE  Classless(d)'
  <2>0. "new_group_dev" \in held[d] /\ ~Unused(d) /\ held[d] # {}
    BY <1>w, StructuresAreObjects DEF Classless, Unused
  <2> USE DEF Run, Return, MgrBase, MgrTypeOK, Owns, Raw, Classless
  <2>1. CASE _install_group_alloc(t)
    BY <1>0, <1>w, <2>0, <2>1 DEF _install_group_alloc
  <2>2. CASE _install_group_nomem(t)
    BY <1>0, <1>w, <2>0, <2>2 DEF _install_group_nomem
  <2>3. CASE _install_group_region(t)
    BY <1>w, <2>3 DEF _install_group_region
  <2>4. CASE _install_group_reg_fail(t)
    <3>1. gd[t] # d
      BY <1>0, <1>w, <2>4 DEF _install_group_reg_fail, BuildInv
    <3> QED
      BY <1>0, <1>w, <2>4, <3>1 DEF _install_group_reg_fail
  <2>a. ASSUME NEW what, Refused(t, what) \/ UNCHANGED ignored
        PROVE  "class_create" \in ignored'[d]
    <3>1. \/ ignored'[d] = ignored[d]
          \/ ignored'[d] = ignored[d] \cup {what}
      <4>1. CASE UNCHANGED ignored
        BY <4>1
      <4>2. CASE Refused(t, what)
        BY <1>0, <4>2 DEF Refused
      <4> QED
        BY <2>a, <4>1, <4>2
    <3> QED
      BY <1>w, <3>1
  <2>b. ASSUME held[d] \ {"device_name"} \subseteq held'[d]
        PROVE  Needed \subseteq held'[d]
    BY <1>w, <2>b, StructuresAreObjects
  <2>5. CASE class_create(t) \/ class_create_fail(t)
    <3>1. UNCHANGED held
      BY <2>5 DEF class_create, class_create_fail, devVars
    <3>2. "class_create" \in ignored'[d]
      BY <2>a, <2>5 DEF class_create, class_create_fail, devVars
    <3> QED
      BY <2>b, <3>1, <3>2
  <2>6. CASE cdev_add(t) \/ cdev_add_fail(t)
    <3>1. held[d] \subseteq held'[d]
      BY <1>0, <2>6 DEF cdev_add, cdev_add_fail
    <3>2. "class_create" \in ignored'[d]
      BY <2>a, <2>6 DEF cdev_add, cdev_add_fail
    <3> QED
      BY <2>b, <3>1, <3>2
  <2>7. CASE device_create(t) \/ device_create_fail(t)
    <3>1. held[d] \ {"device_name"} \subseteq held'[d]
      <4>1. CASE device_create(t)
        BY <1>0, <4>1 DEF device_create
      <4>2. CASE device_create_fail(t)
        BY <1>0, <4>2 DEF device_create_fail
      <4> QED
        BY <2>7, <4>1, <4>2
    <3>2. "class_create" \in ignored'[d]
      BY <2>a, <2>7 DEF device_create, device_create_fail
    <3> QED
      BY <2>b, <3>1, <3>2
  <2> QED
    BY <2>1, <2>2, <2>3, <2>4, <2>5, <2>6, <2>7 DEF Builds
<1>8. KernelInv'
  <2>0. /\ group_devs \in Tables /\ 0 \notin regions
        /\ regions \subseteq {devices.major}
    BY <1>0, <1>1, InstallAssumption
       DEF MgrBase, MgrTypeOK, Valid, NULL, Majors, LiveInv, KernelInv
  <2>1. CASE _install_group_region(t)
    <3>1. devices.major = 0
      BY <1>0, <2>1 DEF _install_group_region, Run, BuildInv, Owns, Raw
    <3>2. PICK m \in Majors : /\ regions' = regions \cup {m}
                              /\ table' = [table EXCEPT ![group_devs].major = m]
      BY <2>1 DEF _install_group_region
    <3>3. devices'.major = m
      BY <1>0, <1>1, <2>0, <3>2 DEF devices, TableType
    <3>4. regions' \subseteq {devices'.major}
      BY <2>0, <3>1, <3>2, <3>3
    <3> QED
      BY <1>0, <1>1, <2>1, <3>4
         DEF _install_group_region, LiveInv, KernelInv, loadVars, Classless
  <2>2. CASE class_create(t)
    <3>1. ~class_registered /\ devices' = devices
      BY <1>0, <1>1, <2>2
         DEF class_create, Run, BuildInv, LiveInv, KernelInv, devices
    <3> QED
      BY <1>1, <2>0, <2>2, <3>1 DEF class_create, KernelInv
  <2>3. CASE class_create_fail(t)
    <3>1. ~class_registered /\ devices' = devices /\ gd[t] \in Devs
      BY <1>0, <1>1, <2>3
         DEF class_create_fail, Run, BuildInv, LiveInv, KernelInv, devices,
             Owns, Raw
    <3>2. Needed \subseteq held[gd[t]]
      BY <1>0, <2>3, StructuresAreObjects
         DEF class_create_fail, Run, BuildInv, Raw
    <3>3. "class_create" \in ignored'[gd[t]] /\ UNCHANGED held
      BY <1>0, <2>3, <3>1
         DEF class_create_fail, Refused, MgrBase, MgrTypeOK
    <3>4. \E d \in Devs : Classless(d)'
      BY <3>1, <3>2, <3>3 DEF Classless
    <3> QED
      BY <1>1, <2>0, <2>3, <3>1, <3>4 DEF class_create_fail, KernelInv
  <2>4. CASE ~_install_group_region(t) /\ ~class_create(t)
             /\ ~class_create_fail(t)
    <3>1. UNCHANGED kernelVars
      BY <2>4 DEF Builds, _install_group_alloc, _install_group_nomem,
                  _install_group_reg_fail, cdev_add, cdev_add_fail,
                  device_create, device_create_fail
    <3>2. regions' \subseteq {devices'.major}
      BY <1>1, <2>0, <3>1 DEF kernelVars
    <3> QED
      BY <1>0, <1>1, <1>w, <3>1, <3>2
         DEF LiveInv, KernelInv, kernelVars, loadVars
  <2> QED
    BY <2>1, <2>2, <2>3, <2>4
<1>9. HeldInv'
  <2> SUFFICES ASSUME NEW d \in Devs \ Listed
               PROVE  Empty(d)' \/ (to \in Owns /\ gd'[t] = d)
    BY <1>1, <1>3 DEF HeldInv
  <2>0. Empty(d) \/ (ipc[t] \in Owns /\ gd[t] = d)
    BY <1>0, <1>4, OwnerIs DEF LiveInv
  <2> USE DEF Run, Return, MgrBase, MgrTypeOK, Empty, Owns, Raw, callVars
  <2>1. CASE _install_group_alloc(t)
    BY <1>0, <1>3, <2>0, <2>1 DEF _install_group_alloc
  <2>2. CASE _install_group_nomem(t)
    <3>1. \A k : Allocated(k) \ UnwindFrom(k) = {}
      BY DEF Allocated, UnwindFrom
    <3>2. UNCHANGED held \/ \E e \in Devs : held' = [held EXCEPT ![e] = {}]
      BY <2>2, <3>1 DEF _install_group_nomem
    <3> QED
      BY <1>0, <2>0, <2>2, <3>2 DEF _install_group_nomem
  <2>3. CASE _install_group_region(t)
    BY <1>0, <1>3, <2>0, <2>3 DEF _install_group_region
  <2>4. CASE _install_group_reg_fail(t)
    <3>1. held[gd[t]] \ Range(Structures) \subseteq {"delay_wq"}
          /\ ignored[gd[t]] = {}
      BY <1>0, <2>4 DEF _install_group_reg_fail, BuildInv
    <3> QED
      BY <1>0, <2>0, <2>4, <3>1, StructuresAreObjects
         DEF _install_group_reg_fail
  <2>5. CASE class_create(t)
    BY <1>0, <1>3, <2>0, <2>5 DEF class_create, devVars
  <2>6. CASE cdev_add(t)
    BY <1>0, <1>3, <2>0, <2>6 DEF cdev_add
  <2>7. CASE device_create(t)
    BY <1>0, <1>3, <2>0, <2>7 DEF device_create
  <2>8. CASE class_create_fail(t)
    BY <1>0, <1>3, <2>0, <2>8 DEF class_create_fail, Refused
  <2>9. CASE cdev_add_fail(t)
    BY <1>0, <1>3, <2>0, <2>9 DEF cdev_add_fail, Refused
  <2>10. CASE device_create_fail(t)
    BY <1>0, <1>3, <2>0, <2>10 DEF device_create_fail, Refused
  <2> QED
    BY <2>1, <2>2, <2>3, <2>4, <2>5, <2>6, <2>7, <2>8, <2>9, <2>10 DEF Builds
<1>10. (SearchInv(t) /\ BuildInv(t) /\ EntryInv(t))'
  <2>0. SearchInv(t)' /\ EntryInv(t)'
    BY <1>0, <1>1, <1>3, <1>5
       DEF SearchInv, EntryInv, Opening, Claimed, Owns, Raw, Counts,
           Builds, _install_group_alloc
  <2> SUFFICES BuildInv(t)'
    BY <2>0
  <2>a. to = "idle" => BuildInv(t)'
    BY <1>3, IdleCall
  <2>b. ipc[t] \in Owns => gd[t] \in Devs \ Listed
    BY <1>0 DEF BuildInv
  <2>c. ipc[t] \in Raw =>
          Needed \subseteq held[gd[t]] /\ "device" \notin held[gd[t]]
    <3>1. ASSUME NEW h, h \ {"delay_wq"} = Range(Structures)
          PROVE  Needed \subseteq h /\ "device" \notin h
      BY <3>1, StructuresAreObjects
    <3> QED
      BY <1>0, <3>1 DEF BuildInv
  <2> USE DEF Run, Return, MgrBase, MgrTypeOK, BuildInv, Owns, Raw, callVars,
              kernelVars, devVars
  <2>1. CASE _install_group_alloc(t)
    <3>1. PICK d \in Devs, wq \in SUBSET {"delay_wq"} :
            /\ Unused(d) /\ held' = [held EXCEPT ![d] = Range(Structures) \cup wq]
            /\ gd' = [gd EXCEPT ![t] = d]
            /\ major' = [major EXCEPT ![d] = devices.major]
            /\ minor' = [minor EXCEPT ![d] = desc[t]]
      BY <2>1 DEF _install_group_alloc
    <3>2. gd'[t] \in Devs \ Listed
      BY <1>0, <3>1, UnusedUnlisted DEF LiveInv
    <3>3. minor'[d] = desc[t] /\ major'[d] = devices'.major /\ gd'[t] = d
      BY <1>0, <1>1, <2>1, <3>1 DEF _install_group_alloc, devices
    <3>4. held'[d] \ {"delay_wq"} = Range(Structures)
      BY <1>0, <3>1, StructuresAreObjects
    <3>5. ignored'[d] = {}
      BY <1>0, <1>4, <2>1, <3>1, <3>2, <3>3, OwnerIs
         DEF _install_group_alloc, LiveInv, Empty
    <3> QED
      BY <1>1, <1>3, <2>1, <3>2, <3>3, <3>4, <3>5 DEF _install_group_alloc
  <2>2. CASE _install_group_nomem(t)
    BY <1>0, <1>3, <2>a, <2>2 DEF _install_group_nomem
  <2>3. CASE _install_group_region(t)
    <3>1. PICK m \in Majors :
            /\ major' = [major EXCEPT ![gd[t]] = m]
            /\ table' = [table EXCEPT ![group_devs].major = m]
      BY <2>3 DEF _install_group_region
    <3>2. group_devs \in Tables /\ m # 0
      BY <1>0, <1>1, InstallAssumption DEF Valid, NULL, Majors
    <3>3. devices'.major = m
      BY <1>0, <1>1, <3>1, <3>2 DEF devices, TableType
    <3>4. major'[gd[t]] = m
      BY <1>0, <2>b, <2>3, <3>1 DEF _install_group_region
    <3> QED
      BY <1>0, <1>1, <1>3, <2>b, <2>3, <3>2, <3>3, <3>4
         DEF _install_group_region
  <2>4. CASE _install_group_reg_fail(t)
    BY <1>0, <1>3, <2>a, <2>4 DEF _install_group_reg_fail
  <2>5. CASE class_create(t)
    <3>1. ~class_registered /\ devices' = devices
      BY <1>0, <1>1, <2>5 DEF class_create, LiveInv, KernelInv, devices
    <3> QED
      BY <1>0, <1>1, <1>3, <2>5, <3>1 DEF class_create
  <2>6. CASE class_create_fail(t)
    <3>1. devices' = devices
      BY <1>1, <2>6 DEF class_create_fail, devices
    <3> QED
      BY <1>0, <1>1, <1>3, <2>6, <3>1 DEF class_create_fail
  <2>7. CASE cdev_add(t)
    <3>1. devices' = devices /\ gd[t] \in Devs
      BY <1>1, <2>b, <2>7 DEF cdev_add, devices
    <3>2. /\ held'[gd[t]] = held[gd[t]] \cup {"cdev"}
          /\ Needed \subseteq held[gd[t]] /\ "device" \notin held[gd[t]]
      BY <1>0, <2>c, <2>7, <3>1 DEF cdev_add
    <3> QED
      BY <1>0, <1>1, <1>3, <2>7, <3>1, <3>2 DEF cdev_add
  <2>8. CASE cdev_add_fail(t)
    <3>1. devices' = devices /\ gd[t] \in Devs
      BY <1>1, <2>b, <2>8 DEF cdev_add_fail, devices
    <3>2. /\ "cdev_add" \in ignored'[gd[t]]
          /\ Needed \subseteq held[gd[t]] /\ "device" \notin held[gd[t]]
      BY <1>0, <2>c, <2>8, <3>1 DEF cdev_add_fail, Refused
    <3> QED
      BY <1>0, <1>1, <1>3, <2>8, <3>1, <3>2 DEF cdev_add_fail
  <2>9. ASSUME device_create(t) \/ device_create_fail(t)
        PROVE  BuildInv(t)'
    <3>0. ipc[t] = "device" /\ to = "add_load" /\ gd' = gd
      BY <1>0, <1>3, <2>9 DEF device_create, device_create_fail
    <3>1. devices' = devices /\ gd[t] \in Devs /\ group_dev_class # "null"
      BY <1>0, <1>1, <2>b, <2>9, <3>0
         DEF device_create, device_create_fail, devices
    <3>2. ~NameTaken(t)
      <4> SUFFICES ASSUME NEW e \in Devs, "device" \in held[e],
                          minor[e] = minor[gd[t]]
                   PROVE  FALSE
        BY DEF NameTaken
      <4>1. e # gd[t]
        BY <1>0, <3>0
      <4>2. e \in Listed
        BY <1>0, <1>4, <4>1, OwnerIs DEF LiveInv, Empty
      <4> QED
        BY <1>0, <3>0, <4>2 DEF SearchInv, Claimed
    <3>3. /\ Needed \subseteq held'[gd[t]]
          /\ "cdev" \in held[gd[t]] => "cdev" \in held'[gd[t]]
          /\ ignored[gd[t]] \subseteq ignored'[gd[t]]
      BY <1>0, <2>9, <3>0, <3>1, StructuresAreObjects
         DEF device_create, device_create_fail, Refused
    <3>4. \/ "device" \in held'[gd[t]] \/ "device_create" \in ignored'[gd[t]]
          \/ group_dev_class' = "error"
      BY <1>0, <2>9, <3>1, <3>2
         DEF device_create, device_create_fail, Refused
    <3>5. Complete(gd[t])'
      BY <1>0, <3>0, <3>3, <3>4 DEF Complete, Needed
    <3>6. UNCHANGED <<minor, major>>
      BY <2>9 DEF device_create, device_create_fail
    <3> QED
      BY <1>0, <1>1, <1>3, <3>0, <3>1, <3>5, <3>6
  <2> QED
    BY <2>1, <2>2, <2>3, <2>4, <2>5, <2>6, <2>7, <2>8, <2>9 DEF Builds
<1>11. CallInv'
  BY <1>0, <1>2, <1>4, <1>10, OneCallMoves
<1> QED
  BY <1>6, <1>7, <1>8, <1>9, <1>11 DEF LiveInv

-----------------------------------------------------------------------------
(* The new device enters the list                                          *)

(* list_add. *)
LEMMA StoreLive ==
  ASSUME MgrInv, OneCall, NEW t \in Installers, list_add_store(t)
  PROVE  LiveInv'
<1>0. /\ MgrBase /\ LiveInv /\ SearchInv(t) /\ BuildInv(t) /\ EntryInv(t)
      /\ table \in [Tables -> TableType]
  BY DEF MgrInv, LiveInv, CallInv, MgrBase, MgrTypeOK, TableType,
         list_add_store, Run
<1>1. /\ ipc[t] = "add_store" /\ ipc' = [ipc EXCEPT ![t] = "used_load"]
      /\ ipc'[t] = "used_load" /\ Valid /\ ListValid
      /\ UNCHANGED <<loadVars, group_devs, kernelVars, devVars, desc, gd>>
  BY <1>0 DEF list_add_store, Run, ListValid, MgrBase, MgrTypeOK
<1>2. /\ reg[t] = devices.devs /\ gd[t] \in Devs \ Listed /\ Complete(gd[t])
      /\ minor[gd[t]] = desc[t] /\ major[gd[t]] = devices.major
      /\ devices.major # 0 /\ \A d \in Listed : minor[d] # desc[t]
  BY <1>0, <1>1 DEF SearchInv, BuildInv, EntryInv, Claimed, Owns, Raw
<1>3. group_devs \in Tables /\ module_state = "in" /\ devices.devs \in Seq(Devs)
  BY <1>0, <1>1 DEF MgrBase, MgrTypeOK, Valid, NULL, devices
<1>4. /\ \A k \in Tables : table'[k].life = table[k].life
      /\ devices'.devs = Append(devices.devs, gd[t])
      /\ devices'.list = devices.list /\ devices'.used = devices.used
      /\ devices'.major = devices.major
  BY <1>0, <1>1, <1>2, <1>3 DEF list_add_store, devices, TableType
<1>5. Valid' /\ ListValid'
  BY <1>1, <1>3, <1>4 DEF Valid, ListValid, devices
<1>6. Listed' = Listed \cup {gd[t]}
  <2>1. Listed = Range(devices.devs) /\ Listed' = Range(Append(devices.devs, gd[t]))
    BY <1>1, <1>4, <1>5 DEF Listed
  <2>2. \A x : x \in Listed' <=> \E k \in 1 .. Len(devices.devs) + 1 :
                                  Append(devices.devs, gd[t])[k] = x
    <3>1. DOMAIN Append(devices.devs, gd[t]) = 1 .. Len(devices.devs) + 1
      BY <1>2, <1>3
    <3> QED
      BY <2>1, <3>1, RangeOfList
  <2>3. \A x : x \in Listed <=> \E k \in 1 .. Len(devices.devs) :
                                  devices.devs[k] = x
    BY <1>3, <2>1, RangeOfList
  <2>4. /\ Append(devices.devs, gd[t])[Len(devices.devs) + 1] = gd[t]
        /\ \A k \in 1 .. Len(devices.devs) :
             Append(devices.devs, gd[t])[k] = devices.devs[k]
        /\ Len(devices.devs) \in Nat
    BY <1>2, <1>3
  <2> QED
    BY <2>2, <2>3, <2>4
<1>7. TableInv' /\ KernelInv' /\ FreeInv'
  BY <1>0, <1>1, <1>3, <1>4, <1>5
     DEF LiveInv, TableInv, KernelInv, FreeInv, loadVars, kernelVars, devVars,
         Classless
<1>8. ListInv'
  <2>1. Len(devices.devs) = devices.used /\ (\E u \in Installers : ipc[u] \in Counts)'
    <3>1. /\ ~\E u \in Installers : ipc[u] \in Counts
          /\ (\E u \in Installers : ipc[u] \in Counts)'
      BY <1>0, <1>1, OneCallSets DEF Counts
    <3>2. devices.used \in Nat
      BY <1>0, <1>3 DEF TableType, devices
    <3> QED
      BY <1>0, <1>1, <1>3, <3>1, <3>2 DEF LiveInv, ListInv
  <2>2. Len(devices'.devs) = devices'.used + 1
    BY <1>2, <1>3, <1>4, <2>1
  <2>3. \A d \in Listed' : (Complete(d) /\ major[d] = devices.major)'
    BY <1>0, <1>1, <1>2, <1>4, <1>6
       DEF LiveInv, ListInv, Complete, devVars, kernelVars
  <2>4. \A d, e \in Listed' : minor'[d] = minor'[e] => d = e
    BY <1>0, <1>1, <1>2, <1>6 DEF LiveInv, ListInv, devVars
  <2>5. \A j, k \in DOMAIN devices'.devs :
          devices'.devs[j] = devices'.devs[k] => j = k
    <3>1. \A k \in DOMAIN devices.devs : devices.devs[k] \in Listed
      BY <1>1, RangeOfList DEF Listed
    <3>2. DOMAIN devices'.devs = 1 .. Len(devices.devs) + 1
      BY <1>2, <1>3, <1>4
    <3>3. /\ devices'.devs[Len(devices.devs) + 1] = gd[t]
          /\ \A k \in 1 .. Len(devices.devs) :
               devices'.devs[k] = devices.devs[k]
          /\ Len(devices.devs) \in Nat /\ DOMAIN devices.devs = 1 .. Len(devices.devs)
      BY <1>2, <1>3, <1>4
    <3>4. \A j, k \in DOMAIN devices.devs :
            devices.devs[j] = devices.devs[k] => j = k
      BY <1>0, <1>1 DEF LiveInv, ListInv
    <3> QED
      BY <1>2, <3>1, <3>2, <3>3, <3>4
  <2> QED
    BY <1>2, <1>4, <2>1, <2>2, <2>3, <2>4, <2>5 DEF ListInv
<1>9. HeldInv'
  <2>1. \A d \in Devs \ Listed : Empty(d) \/ gd[t] = d
    BY <1>0, <1>1, OwnerIs DEF LiveInv
  <2> QED
    BY <1>1, <1>6, <2>1 DEF HeldInv, Empty, devVars
<1>10. (SearchInv(t) /\ BuildInv(t) /\ EntryInv(t))'
  BY <1>1, <1>2, <1>5, <1>6
     DEF SearchInv, BuildInv, EntryInv, Opening, Claimed, Owns, Raw, Counts,
         devVars
<1>11. CallInv'
  BY <1>0, <1>1, <1>10, OneCallMoves
<1> QED
  BY <1>7, <1>8, <1>9, <1>11 DEF LiveInv

(* used++. *)
LEMMA UsedLive ==
  ASSUME MgrInv, OneCall, NEW t \in Installers, used_store(t)
  PROVE  LiveInv'
<1>0. /\ MgrBase /\ LiveInv /\ EntryInv(t) /\ table \in [Tables -> TableType]
  BY DEF MgrInv, LiveInv, CallInv, MgrBase, MgrTypeOK, TableType,
         used_store, Run, Return
<1>1. /\ ipc[t] = "used_store" /\ ipc' = [ipc EXCEPT ![t] = "idle"]
      /\ ipc'[t] = "idle" /\ Valid /\ ListValid
      /\ UNCHANGED <<loadVars, group_devs, kernelVars, devVars, desc>>
      /\ reg[t] = <<devices.used>>
  BY <1>0 DEF used_store, Run, Return, ListValid, MgrBase, MgrTypeOK, EntryInv,
              Counts
<1>2. group_devs \in Tables /\ module_state = "in" /\ devices.devs \in Seq(Devs)
      /\ devices.used \in Nat
  BY <1>0, <1>1 DEF MgrBase, MgrTypeOK, Valid, NULL, devices
<1>3. /\ \A k \in Tables : table'[k].life = table[k].life
      /\ devices'.devs = devices.devs /\ devices'.list = devices.list
      /\ devices'.used = devices.used + 1 /\ devices'.major = devices.major
  BY <1>0, <1>1, <1>2 DEF used_store, devices, TableType
<1>4. Valid' /\ ListValid' /\ Listed' = Listed
  BY <1>1, <1>2, <1>3 DEF Valid, ListValid, devices, Listed
<1>5. TableInv' /\ KernelInv' /\ FreeInv'
  BY <1>0, <1>1, <1>2, <1>3, <1>4
     DEF LiveInv, TableInv, KernelInv, FreeInv, loadVars, kernelVars, devVars,
         Classless
<1>6. ListInv'
  <2>1. /\ \E u \in Installers : ipc[u] \in Counts
        /\ ~(\E u \in Installers : ipc[u] \in Counts)'
    BY <1>0, <1>1, OneCallSets DEF Counts
  <2> QED
    BY <1>0, <1>1, <1>2, <1>3, <1>4, <2>1
       DEF LiveInv, ListInv, Complete, devVars, kernelVars
<1>7. HeldInv'
  <2>1. \A d \in Devs \ Listed : Empty(d)
    BY <1>0, <1>1, OwnerIs DEF LiveInv, Owns, Raw
  <2> QED
    BY <1>1, <1>4, <2>1 DEF HeldInv, Empty, devVars
<1>8. CallInv'
  BY <1>0, <1>1, IdleCall, OneCallMoves
<1> QED
  BY <1>5, <1>6, <1>7, <1>8 DEF LiveInv

-----------------------------------------------------------------------------
(* An invalid pointer                                                      *)

(* The two statements of install_group that may follow one. *)
LEMMA CrashesAt ==
  ASSUME NEW t \in Installers, install_group_enter(t) \/ InstallStep(t), crashed'
  PROVE  get_group_missing(t) \/ invalid_pointer(t)
BY DEF InstallStep, install_group_enter, install_group_check,
       init_group_devs_alloc, init_group_devs_fail, init_group_devs_list,
       init_group_devs_list_fail, init_group_devs_head, get_group_found,
       install_group_space, _install_group_alloc, _install_group_nomem,
       _install_group_region, _install_group_reuse, _install_group_reg_fail,
       _install_group_class, class_create, class_create_fail, cdev_add,
       cdev_add_fail, device_create, device_create_fail, list_add_load,
       list_add_store, used_load, used_store, Run, Return

(* The only call that follows one is the call whose init_group_devs failed, *)
(* before the first device.                                                 *)
LEMMA CrashStep ==
  ASSUME MgrInv, OneCall, NEW t \in Installers, InstallStep(t),
         ~crashed, crashed'
  PROVE  InitFailed'
<1>0. MgrBase /\ LiveInv /\ SearchInv(t) /\ BuildInv(t) /\ EntryInv(t)
  BY DEF MgrInv, LiveInv, CallInv
<1>1. get_group_missing(t) \/ invalid_pointer(t)
  BY CrashesAt
<1>2. ~get_group_missing(t)
  BY <1>0, ReadyList DEF get_group_missing, Run, LiveInv, Opening
<1>3. invalid_pointer(t)
  BY <1>1, <1>2
<1>4. ipc[t] = "seek" /\ ~Valid
  <2>1. Misguided(t)
    BY <1>3 DEF invalid_pointer
  <2>2. /\ ipc[t] \in {"init_list", "init_head"} => Valid
        /\ ipc[t] = "init_head" => devices.list # "null"
        /\ ipc[t] \in {"space", "alloc", "region", "used_load", "used_store",
                        "add_load", "add_store"} => ListValid
    BY <1>0 DEF SearchInv, EntryInv, Opening, Claimed, Owns, Raw, Counts
  <2> QED
    BY <2>1, <2>2 DEF Misguided, NeedsTable, NeedsList, ListValid
<1>5. Listed = {} /\ regions = {} /\ ~class_registered
  BY <1>0, <1>4 DEF LiveInv, KernelInv, Listed
<1>6. \A d \in Devs : Empty(d)
  BY <1>0, <1>4, <1>5, OwnerIs DEF LiveInv, Owns, Raw
<1> QED
  BY <1>3, <1>4, <1>5, <1>6, SameTable
     DEF invalid_pointer, InitFailed, Empty, kernelVars, devVars

-----------------------------------------------------------------------------
(* Insertion and removal                                                   *)

(* Without a call under way nothing is half built. *)
LEMMA IdleFacts ==
  ASSUME HeldInv, \A t \in Installers : ipc[t] = "idle"
  PROVE  /\ \A d \in Devs \ Listed : Empty(d)
         /\ ~\E t \in Installers : ipc[t] \in Counts
         /\ ~\E t \in Installers : ipc[t] \in Opening
         /\ ~\E t \in Installers : ipc[t] = "seek"
BY DEF HeldInv, Owns, Raw, Counts, Opening

(* group_free_all follows an ERR_PTR only if class_create failed for a     *)
(* device that is still there.                                             *)
LEMMA BadClassStep ==
  ASSUME MgrInv, group_free_all_bad_class
  PROVE  ClassFailed'
<1>1. LiveInv /\ group_dev_class = "error" /\ module_state = "leaving"
  BY DEF MgrInv, group_free_all_bad_class
<1>2. PICK d \in Devs : Classless(d)
  BY <1>1 DEF LiveInv, KernelInv
<1> QED
  BY <1>1, <1>2 DEF group_free_all_bad_class, ClassFailed, Classless, Needed,
                    loadVars, kernelVars, devVars

LEMMA ModuleLive ==
  ASSUME MgrInv, tsm_init \/ tsm_exit, ~group_free_all_bad_class
  PROVE  LiveInv'
<1>0. MgrBase /\ LiveInv /\ table \in [Tables -> TableType]
  BY DEF MgrInv, MgrBase, MgrTypeOK, TableType, tsm_init, tsm_exit,
         group_free_all_none, group_free_all, group_free_all_next,
         group_free_all_end
<1>1. UNCHANGED <<ipc, callVars>>
  BY DEF tsm_init, tsm_exit, group_free_all_none, group_free_all,
         group_free_all_next, group_free_all_end
<1>2. \A t \in Installers : ipc[t] = "idle" /\ ipc'[t] = "idle"
  BY <1>0, <1>1
     DEF MgrBase, tsm_init, tsm_exit, group_free_all_none, group_free_all,
         group_free_all_next, group_free_all_end, Idle
<1>3. CallInv'
  BY <1>2, IdleCall DEF CallInv
<1>4. /\ \A d \in Devs \ Listed : Empty(d)
      /\ ~\E t \in Installers : ipc[t] \in Counts
      /\ ~\E t \in Installers : ipc[t] \in Opening
      /\ ~\E t \in Installers : ipc[t] = "seek"
  BY <1>0, <1>2, IdleFacts DEF LiveInv
<1>5. ASSUME ~Valid, ~Valid', UNCHANGED devVars
      PROVE  ListInv' /\ HeldInv'
  BY <1>4, <1>5 DEF ListInv, HeldInv, Listed, Empty, devVars
<1>6. CASE tsm_init
  <2>1. ~Valid /\ \A k \in Tables : table[k].life # "live"
    BY <1>0, <1>6
       DEF tsm_init, LiveInv, TableInv, Valid, MgrBase, MgrTypeOK, NULL
  <2>2. ~Valid'
    BY <1>6 DEF tsm_init, Valid
  <2>3. TableInv' /\ KernelInv' /\ FreeInv'
    BY <1>0, <1>6, <2>1, <2>2
       DEF tsm_init, LiveInv, TableInv, KernelInv, FreeInv
  <2> QED
    BY <1>3, <1>5, <1>6, <2>1, <2>2, <2>3 DEF LiveInv, tsm_init
<1>7. CASE group_free_all_none
  <2>1. ~Valid /\ ~Valid' /\ \A k \in Tables : table[k].life # "live"
    BY <1>0, <1>7, InstallAssumption
       DEF group_free_all_none, LiveInv, TableInv, Valid, NULL, Tables
  <2>2. TableInv' /\ KernelInv' /\ FreeInv'
    BY <1>0, <1>7, <2>1
       DEF group_free_all_none, LiveInv, TableInv, KernelInv, FreeInv,
           kernelVars
  <2> QED
    BY <1>3, <1>5, <1>7, <2>1, <2>2 DEF LiveInv, group_free_all_none
<1>8. CASE group_free_all
  <2>1. Valid' = Valid /\ ListValid' = ListValid /\ devices' = devices
        /\ Listed' = Listed
    BY <1>8, SameTable DEF group_free_all
  <2>2. devices.used = Len(devices.devs)
    BY <1>0, <1>4, <1>8 DEF group_free_all, LiveInv, ListInv, Valid, devices,
       TableType, MgrBase, MgrTypeOK, NULL
  <2>3. TableInv' /\ KernelInv' /\ FreeInv'
    BY <1>0, <1>4, <1>8, <2>1, <2>2
       DEF group_free_all, LiveInv, TableInv, KernelInv, FreeInv, kernelVars,
           devVars, Classless
  <2>4. ListInv' /\ HeldInv'
    BY <1>0, <1>4, <1>8, <2>1
       DEF group_free_all, LiveInv, ListInv, HeldInv, Complete, Empty, devVars,
           kernelVars
  <2> QED
    BY <1>3, <2>3, <2>4 DEF LiveInv
<1>9. CASE group_free_all_next
  <2> DEFINE d0 == Head(devices.devs)
  <2>1. /\ module_state = "leaving" /\ ListValid /\ Valid
        /\ group_devs \in Tables /\ devices.devs \in Seq(Devs)
        /\ devices.devs # <<>> /\ to_free = Len(devices.devs)
    BY <1>0, <1>9
       DEF group_free_all_next, LiveInv, TableInv, FreeInv, ListValid, Valid,
           MgrBase, MgrTypeOK, NULL, devices
  <2>2. /\ \A k \in Tables : table'[k].life = table[k].life
        /\ devices'.devs = Tail(devices.devs) /\ devices'.list = devices.list
        /\ devices'.major = devices.major
    BY <1>0, <1>9, <2>1 DEF group_free_all_next, devices, TableType
  <2>3. Valid' /\ ListValid'
    BY <1>9, <2>1, <2>2 DEF group_free_all_next, Valid, ListValid, devices
  <2>4. /\ DOMAIN devices.devs = 1 .. Len(devices.devs)
        /\ Len(devices.devs) \in Nat \ {0} /\ d0 = devices.devs[1]
        /\ DOMAIN devices'.devs = 1 .. Len(devices.devs) - 1
        /\ Len(devices'.devs) = Len(devices.devs) - 1
        /\ \A k \in 1 .. Len(devices.devs) - 1 :
             devices'.devs[k] = devices.devs[k + 1]
    BY <2>1, <2>2
  <2>5. \A j, k \in DOMAIN devices.devs :
          devices.devs[j] = devices.devs[k] => j = k
    BY <1>0, <2>1 DEF LiveInv, ListInv
  <2>6. Listed' = Listed \ {d0} /\ d0 \in Listed
    <3>1. \A x : x \in Listed <=> \E k \in DOMAIN devices.devs : devices.devs[k] = x
      BY <2>1, RangeOfList DEF Listed
    <3>2. \A x : x \in Listed' <=>
                   \E k \in DOMAIN devices'.devs : devices'.devs[k] = x
      BY <2>3, RangeOfList DEF Listed
    <3>3. \A k \in DOMAIN devices.devs : k # 1 =>
            k - 1 \in DOMAIN devices'.devs /\ devices'.devs[k - 1] = devices.devs[k]
      BY <2>4
    <3>4. \A k \in DOMAIN devices'.devs :
            k + 1 \in DOMAIN devices.devs /\ devices'.devs[k] = devices.devs[k + 1]
            /\ k + 1 # 1
      BY <2>4
    <3>5. 1 \in DOMAIN devices.devs
      BY <2>4
    <3> HIDE DEF d0
    <3>6. d0 \in Listed
      BY <2>4, <3>1, <3>5
    <3>7. ASSUME NEW x \in Listed'
          PROVE  x \in Listed \ {d0}
      <4>1. PICK k \in DOMAIN devices'.devs : devices'.devs[k] = x
        BY <3>2
      <4>2. k + 1 \in DOMAIN devices.devs /\ devices.devs[k + 1] = x /\ k + 1 # 1
        BY <3>4, <4>1
      <4> QED
        BY <2>4, <2>5, <3>1, <3>5, <4>2
    <3>8. ASSUME NEW x \in Listed \ {d0}
          PROVE  x \in Listed'
      <4>1. PICK k \in DOMAIN devices.devs : devices.devs[k] = x
        BY <3>1
      <4> QED
        BY <2>4, <3>2, <3>3, <4>1
    <3> QED
      BY <3>6, <3>7, <3>8
  <2>7. major[d0] = devices.major /\ devices.major # 0
    BY <1>0, <2>1, <2>6 DEF LiveInv, ListInv
  <2>8. /\ held'[d0] = {} /\ ignored'[d0] = {}
        /\ \A d \in Devs : d # d0 =>
             held'[d] = held[d] /\ ignored'[d] = ignored[d]
    <3>1. /\ held' = [held EXCEPT ![d0] = {}]
          /\ ignored' = [ignored EXCEPT ![d0] = {}]
      BY <1>0, <1>9, <2>7 DEF group_free_all_next, MgrBase, MgrTypeOK
    <3>2. d0 \in Devs
      BY <2>1
    <3> QED
      BY <1>0, <3>1, <3>2 DEF MgrBase, MgrTypeOK
  <2>9. UNCHANGED <<module_state, group_devs, kernelVars, minor, major>>
        /\ to_free' = to_free - 1 /\ group_dev_class # "error"
    BY <1>9 DEF group_free_all_next
  <2> HIDE DEF d0
  <2>10. TableInv' /\ KernelInv' /\ FreeInv'
    BY <1>0, <2>1, <2>2, <2>3, <2>4, <2>9
       DEF LiveInv, TableInv, KernelInv, FreeInv, kernelVars
  <2>11. HeldInv'
    BY <1>4, <2>6, <2>8 DEF HeldInv, Empty
  <2>12. ListInv'
    <3>1. \A d \in Listed' : (Complete(d) /\ major[d] = devices.major)'
      BY <1>0, <2>1, <2>2, <2>6, <2>8, <2>9, ListedDevs
         DEF LiveInv, ListInv, Complete, MgrBase, kernelVars
    <3>2. \A d, e \in Listed' : minor'[d] = minor'[e] => d = e
      BY <1>0, <2>1, <2>6, <2>9 DEF LiveInv, ListInv
    <3>3. \A j, k \in DOMAIN devices'.devs :
            devices'.devs[j] = devices'.devs[k] => j = k
      <4> SUFFICES ASSUME NEW j \in DOMAIN devices'.devs,
                          NEW k \in DOMAIN devices'.devs,
                          devices'.devs[j] = devices'.devs[k]
                   PROVE  j = k
        OBVIOUS
      <4>1. /\ j \in Nat /\ k \in Nat
            /\ j + 1 \in DOMAIN devices.devs /\ k + 1 \in DOMAIN devices.devs
        BY <2>4
      <4>2. devices.devs[j + 1] = devices.devs[k + 1]
        BY <2>4
      <4>3. j + 1 = k + 1
        BY <2>5, <4>1, <4>2
      <4> QED
        BY <4>1, <4>3
    <3> QED
      BY <2>1, <2>2, <2>7, <2>9, <3>1, <3>2, <3>3 DEF ListInv
  <2> QED
    BY <1>3, <2>10, <2>11, <2>12 DEF LiveInv
<1>10. CASE group_free_all_end
  <2>1. Valid /\ group_devs \in Tables /\ Listed = {}
    BY <1>0, <1>10, RangeOfList
       DEF group_free_all_end, LiveInv, TableInv, ListValid, Valid, MgrBase,
           MgrTypeOK, NULL, Listed
  <2>2. ~Valid' /\ \A k \in Tables : table'[k].life # "live"
    BY <1>0, <1>10, <2>1
       DEF group_free_all_end, LiveInv, TableInv, Valid, FreeTable
  <2>3. TableInv' /\ FreeInv'
    <3>1. to_free = 0
      BY <1>0, <1>10 DEF group_free_all_end, LiveInv, FreeInv
    <3> QED
      BY <1>10, <2>2, <3>1 DEF group_free_all_end, TableInv, FreeInv
  <2>4. KernelInv'
    BY <1>0, <1>10, <2>1, <2>2 DEF group_free_all_end, LiveInv, KernelInv
  <2>5. ListInv' /\ HeldInv'
    BY <1>4, <1>10, <2>1, <2>2
       DEF group_free_all_end, ListInv, HeldInv, Empty, devVars
  <2> QED
    BY <1>3, <2>3, <2>4, <2>5 DEF LiveInv
<1> QED
  BY <1>6, <1>7, <1>8, <1>9, <1>10 DEF tsm_exit

-----------------------------------------------------------------------------
(* The invariant holds                                                     *)

(* Every step of the manager, as long as no two calls overlap. *)
LEMMA MgrInvStep ==
  ASSUME MgrInv, OneCall, MgrNext \/ UNCHANGED mgrVars
  PROVE  MgrInv'
<1>1. CASE UNCHANGED mgrVars
  <2>1. /\ Valid' = Valid /\ ListValid' = ListValid
        /\ devices' = devices /\ Listed' = Listed
    BY <1>1, SameTable DEF mgrVars
  <2>2. MgrBase'
    BY <1>1 DEF MgrInv, MgrBase, MgrTypeOK, mgrVars, loadVars, kernelVars,
                devVars, callVars
  <2>3. crashed => FaultInv'
    BY <1>1, <2>1
       DEF MgrInv, FaultInv, InitFailed, ClassFailed, mgrVars,
           loadVars, kernelVars, devVars
  <2>4. ~crashed => LiveInv'
    <3> SUFFICES ASSUME LiveInv
                 PROVE  LiveInv'
      BY DEF MgrInv
    <3>1. TableInv' /\ KernelInv' /\ FreeInv'
      BY <1>1, <2>1 DEF LiveInv, TableInv, KernelInv, FreeInv, mgrVars,
                        loadVars, kernelVars, devVars, Classless
    <3>2. ListInv' /\ HeldInv'
      BY <1>1, <2>1 DEF LiveInv, ListInv, HeldInv, Complete, Empty, mgrVars,
                        loadVars, devVars, callVars, kernelVars
    <3>3. CallInv'
      BY <1>1, <2>1 DEF LiveInv, CallInv, SearchInv, BuildInv, EntryInv,
                        Complete, mgrVars, devVars, callVars, kernelVars
    <3> QED
      BY <3>1, <3>2, <3>3 DEF LiveInv
  <2> QED
    BY <1>1, <2>2, <2>3, <2>4 DEF MgrInv, mgrVars
<1>2. CASE tsm_init \/ tsm_exit
  <2>1. CASE group_free_all_bad_class
    BY <1>2, <2>1, ModuleBase, BadClassStep
       DEF MgrInv, FaultInv, group_free_all_bad_class
  <2>2. CASE ~group_free_all_bad_class
    <3>1. ~crashed'
      BY <1>2, <2>2
         DEF tsm_init, tsm_exit, group_free_all_none, group_free_all,
             group_free_all_next, group_free_all_end
    <3> QED
      BY <1>2, <2>2, <3>1, ModuleBase, ModuleLive DEF MgrInv
  <2> QED
    BY <2>1, <2>2
<1>3. ASSUME NEW t \in Installers, install_group_enter(t)
      PROVE  MgrInv'
  <2>1. ~crashed'
    BY <1>3 DEF install_group_enter, Run
  <2>2. MgrBase'
    BY <1>3, InstallBase
  <2>3. LiveInv'
    BY <1>3, EnterLive
  <2> QED
    BY <2>1, <2>2, <2>3 DEF MgrInv
<1>4. ASSUME NEW t \in Installers, InstallStep(t)
      PROVE  MgrInv'
  <2>1. ~crashed
    BY <1>4
       DEF InstallStep, install_group_check, init_group_devs_alloc,
           init_group_devs_fail, init_group_devs_list,
           init_group_devs_list_fail, init_group_devs_head, get_group_found,
           get_group_missing, install_group_space, _install_group_alloc,
           _install_group_nomem, _install_group_region, _install_group_reuse,
           _install_group_reg_fail, _install_group_class, class_create,
           class_create_fail, cdev_add, cdev_add_fail, device_create,
           device_create_fail, list_add_load, list_add_store, used_load,
           used_store, invalid_pointer, Run, Return
  <2>2. CASE crashed'
    BY <1>4, <2>1, <2>2, InstallBase, CrashStep DEF MgrInv, FaultInv
  <2>3. CASE ~crashed'
    <3>1. Looks(t) \/ Inits(t) \/ Builds(t) \/ list_add_store(t) \/ used_store(t)
      BY <1>4, <2>3 DEF InstallStep, Looks, Inits, Builds, invalid_pointer
    <3>2. LiveInv'
      BY <2>1, <2>3, <3>1, LookingLive, InitsLive, BuildsLive, StoreLive,
         UsedLive
    <3> QED
      BY <1>4, <2>3, <3>2, InstallBase DEF MgrInv
  <2> QED
    BY <2>2, <2>3
<1> QED
  BY <1>1, <1>2, <1>3, <1>4 DEF MgrNext

(* It holds before the first insertion. *)
LEMMA MgrInvInit ==
  ASSUME MgrInit
  PROVE  MgrInv
<1>1. ~Valid /\ Listed = {} /\ ~crashed
  BY DEF MgrInit, Valid, Listed
<1>2. MgrTypeOK
  <2>1. table \in [Tables -> TableType]
    BY NewTable DEF MgrInit
  <2>2. /\ loads \in 0 .. MaxLoads /\ to_free \in 0 .. MaxDevs
        /\ held \in [Devs -> SUBSET Objects]
        /\ minor \in [Devs -> Descs \cup {0}]
        /\ major \in [Devs -> Majors \cup {0, Garbage}]
        /\ ignored \in [Devs -> SUBSET Unchecked]
    BY InstallAssumption DEF MgrInit
  <2> QED
    BY <2>1, <2>2 DEF MgrInit, MgrTypeOK, TableType, NULL
<1>3. MgrBase
  BY <1>2 DEF MgrInit, MgrBase
<1>4. TableInv /\ KernelInv /\ ListInv /\ HeldInv /\ FreeInv
  BY <1>1 DEF MgrInit, TableInv, KernelInv, ListInv, HeldInv, FreeInv, Empty,
              FreeTable, ListValid
<1>5. CallInv
  BY DEF MgrInit, CallInv, SearchInv, BuildInv, EntryInv, Opening, Claimed,
         Owns, Raw, Counts
<1> QED
  BY <1>1, <1>3, <1>4, <1>5 DEF MgrInv, LiveInv

(* Every step of the library is one of the manager or none of it. *)
LEMMA TsmStepIsMgrStep ==
  ASSUME TsmNext \/ UNCHANGED tsmVars
  PROVE  MgrNext \/ UNCHANGED mgrVars
BY DEF TsmNext, tsmVars, MgrNext, unload, OpenStep, open_group_enter,
       open_group_install, open_group_result, open_group_size,
       open_group_open, open_group_retry, close_group, udev_add, udev_remove

-----------------------------------------------------------------------------
(* Open files                                                              *)

(* A call of install_group drops nothing from the list and renumbers       *)
(* nothing in it.                                                          *)
LEMMA ListedKept ==
  ASSUME MgrInv, OneCall, NEW t \in Installers, InstallStep(t),
         ~crashed, ~crashed', NEW d \in Listed
  PROVE  d \in Listed' /\ minor'[d] = minor[d]
<1>0. MgrBase /\ LiveInv /\ table \in [Tables -> TableType]
  BY DEF MgrInv, MgrBase, MgrTypeOK, TableType
<1>1. CASE Looks(t)
  BY <1>1, SameTable
     DEF Looks, install_group_check, get_group_found, get_group_missing,
         install_group_space, _install_group_reuse, _install_group_class,
         list_add_load, used_load, devVars
<1>2. CASE Inits(t)
  BY <1>0, <1>2, BeforeFirst
     DEF Inits, init_group_devs_alloc, init_group_devs_fail,
         init_group_devs_list, init_group_devs_list_fail, init_group_devs_head,
         Run, Opening
<1>3. CASE Builds(t)
  BY <1>0, <1>3, BuildsTable, WorksUnlisted, ListedDevs
     DEF WorksOn, devVars, MgrBase
<1>4. CASE list_add_store(t) \/ used_store(t)
  <2>1. /\ Valid /\ group_devs \in Tables /\ UNCHANGED <<group_devs, minor>>
        /\ devices.devs \in Seq(Devs)
    BY <1>0, <1>4 DEF list_add_store, used_store, ListValid, Valid, MgrBase,
                      MgrTypeOK, NULL, devVars, devices
  <2>2. PICK k \in DOMAIN devices.devs : devices.devs[k] = d
    BY <2>1, RangeOfList DEF Listed
  <2>3. table'[group_devs].life = table[group_devs].life
    BY <1>0, <1>4, <2>1 DEF list_add_store, used_store, TableType
  <2>4. \/ table'[group_devs].devs = devices.devs
        \/ \E e \in Devs : table'[group_devs].devs = Append(devices.devs, e)
    <3>1. CASE used_store(t)
      BY <1>0, <2>1, <3>1 DEF used_store, TableType, devices
    <3>2. CASE list_add_store(t)
      <4>1. reg[t] = devices.devs /\ gd[t] \in Devs
        BY <1>0, <3>2 DEF list_add_store, Run, LiveInv, CallInv, BuildInv,
                          EntryInv, Owns
      <4> QED
        BY <1>0, <2>1, <3>2, <4>1 DEF list_add_store, TableType
    <3> QED
      BY <1>4, <3>1, <3>2
  <2>5. k \in DOMAIN devices'.devs /\ devices'.devs[k] = d
    BY <2>1, <2>2, <2>4 DEF devices
  <2>6. Valid'
    BY <2>1, <2>3 DEF Valid
  <2> QED
    BY <2>1, <2>5, <2>6, RangeOfList DEF Listed
<1> QED
  BY <1>1, <1>2, <1>3, <1>4
     DEF InstallStep, Looks, Inits, Builds, invalid_pointer

-----------------------------------------------------------------------------
(* Open files, however calls overlap                                       *)

(* The statements of install_group that make, undo or number no device. *)
Keeps(t) ==
  \/ Looks(t) \/ Inits(t) \/ _install_group_region(t)
  \/ class_create(t) \/ class_create_fail(t) \/ cdev_add_fail(t)
  \/ list_add_store(t) \/ used_store(t) \/ invalid_pointer(t)

LEMMA KeepsFacts ==
  ASSUME FileBase, NEW t \in Installers, Keeps(t)
  PROVE  /\ UNCHANGED <<held, minor>>
         /\ ipc' \in [Installers -> {"idle"} \cup InstallPcs]
         /\ gd' \in [Installers -> Devs \cup {NULL}]
         /\ \A u \in Installers :
              /\ ipc'[u] \in Owns => ipc[u] \in Owns /\ gd'[u] = gd[u]
              /\ ipc'[u] \in Raw => ipc[u] \in Raw
<1> USE DEF FileBase, InstallPcs, Run, Return, Owns, Raw, devVars, callVars
<1>1. CASE Looks(t)
  BY <1>1 DEF Looks, install_group_check, get_group_found, get_group_missing,
              install_group_space, _install_group_reuse, _install_group_class,
              list_add_load, used_load
<1>2. CASE Inits(t)
  BY <1>2 DEF Inits, init_group_devs_alloc, init_group_devs_fail,
              init_group_devs_list, init_group_devs_list_fail,
              init_group_devs_head
<1>3. CASE \/ _install_group_region(t) \/ class_create(t)
           \/ class_create_fail(t) \/ cdev_add_fail(t)
  BY <1>3 DEF _install_group_region, class_create, class_create_fail,
              cdev_add_fail
<1>4. CASE list_add_store(t) \/ used_store(t)
  BY <1>4 DEF list_add_store, used_store
<1>5. CASE invalid_pointer(t)
  BY <1>5 DEF invalid_pointer
<1> QED
  BY <1>1, <1>2, <1>3, <1>4, <1>5 DEF Keeps

(* What every statement of install_group leaves alone. *)
LEMMA InstallFrame ==
  ASSUME FileBase, NEW t \in Installers, InstallStep(t)
  PROVE  /\ ~crashed /\ UNCHANGED <<module_state, desc>>
         /\ \A u \in Installers : ipc'[u] # "idle" => ipc[u] # "idle"
<1> USE DEF InstallStep, install_group_check, init_group_devs_alloc,
      init_group_devs_fail, init_group_devs_list, init_group_devs_list_fail,
      init_group_devs_head, get_group_found, get_group_missing,
      install_group_space, _install_group_alloc, _install_group_nomem,
      _install_group_region, _install_group_reuse, _install_group_reg_fail,
      _install_group_class, class_create, class_create_fail, cdev_add,
      cdev_add_fail, device_create, device_create_fail, list_add_load,
      list_add_store, used_load, used_store, invalid_pointer, Run, Return
<1>1. ~crashed /\ UNCHANGED <<module_state, desc>>
  BY DEF loadVars, callVars
<1>2. \A u \in Installers : ipc'[u] # "idle" => ipc[u] # "idle"
  BY DEF FileBase
<1> QED
  BY <1>1, <1>2

(* A statement of install_group takes from a device with a cdev at most    *)
(* the name, and gives a device that exists no other number.               *)
Spares(d) ==
  "cdev" \in held[d] =>
    held[d] \ {"device_name"} \subseteq held'[d] /\ minor'[d] = minor[d]

LEMMA InstallOwns ==
  ASSUME FileInv, NEW t \in Installers, InstallStep(t)
  PROVE  /\ OwnInv' /\ \A d \in Devs : Spares(d)
         /\ held' \in [Devs -> SUBSET Objects]
         /\ minor' \in [Devs -> Descs \cup {0}]
         /\ ipc' \in [Installers -> {"idle"} \cup InstallPcs]
         /\ gd' \in [Installers -> Devs \cup {NULL}]
<1>0. FileBase /\ OwnInv
  BY DEF FileInv
<1>a. /\ "new_group_dev" \in Needed /\ Needed \subseteq Range(Structures)
      /\ "device_name" \notin Needed /\ "cdev" \notin Range(Structures)
      /\ Range(Structures) \subseteq Objects
  BY StructuresAreObjects
<1>b. ASSUME NEW d \in Devs, Unused(d)
      PROVE  /\ "cdev" \notin held[d]
             /\ \A u \in Installers : ipc[u] \in Owns => gd[u] # d
  BY <1>0, <1>a, <1>b DEF OwnInv, Unused
<1>c. ipc[t] \in Owns => gd[t] \in Devs
  BY <1>0 DEF OwnInv
<1> USE DEF FileBase, InstallPcs, Run, Return, callVars, Spares
<1>1. CASE Keeps(t)
  <2>1. /\ UNCHANGED <<held, minor>>
        /\ ipc' \in [Installers -> {"idle"} \cup InstallPcs]
        /\ gd' \in [Installers -> Devs \cup {NULL}]
        /\ \A u \in Installers :
             /\ ipc'[u] \in Owns => ipc[u] \in Owns /\ gd'[u] = gd[u]
             /\ ipc'[u] \in Raw => ipc[u] \in Raw
    BY <1>0, <1>1, KeepsFacts
  <2>2. Raw \subseteq Owns
    BY DEF Owns
  <2>3. OwnInv'
    BY <1>0, <2>1, <2>2 DEF OwnInv
  <2> QED
    BY <1>0, <2>1, <2>3
<1>2. CASE _install_group_alloc(t)
  <2>1. PICK d \in Devs, wq \in SUBSET {"delay_wq"} :
          /\ Unused(d) /\ held' = [held EXCEPT ![d] = Range(Structures) \cup wq]
          /\ gd' = [gd EXCEPT ![t] = d]
          /\ minor' = [minor EXCEPT ![d] = desc[t]]
    BY <1>2 DEF _install_group_alloc
  <2>2. ipc' = [ipc EXCEPT ![t] = "region"]
    BY <1>2 DEF _install_group_alloc
  <2>3. /\ held'[d] = Range(Structures) \cup wq
        /\ \A e \in Devs : e # d => held'[e] = held[e]
        /\ gd'[t] = d /\ ipc'[t] = "region"
        /\ \A u \in Installers : u # t => gd'[u] = gd[u] /\ ipc'[u] = ipc[u]
    BY <1>0, <2>1, <2>2
  <2>4. Needed \subseteq held'[d] /\ "cdev" \notin held'[d]
    BY <1>a, <2>3
  <2>5. OwnInv'
    BY <1>0, <1>b, <2>1, <2>3, <2>4 DEF OwnInv, Owns, Raw
  <2>6. held' \in [Devs -> SUBSET Objects]
    BY <1>0, <1>a, <2>1 DEF Objects
  <2> QED
    BY <1>0, <1>b, <2>1, <2>2, <2>3, <2>5, <2>6
<1>3. CASE _install_group_nomem(t)
  <2>1. ipc' = [ipc EXCEPT ![t] = "idle"] /\ UNCHANGED <<gd, minor>>
    BY <1>3 DEF _install_group_nomem
  <2>2. UNCHANGED held
    <3>1. \A k : Allocated(k) \ UnwindFrom(k) = {}
      BY DEF Allocated, UnwindFrom
    <3>2. \/ UNCHANGED held
          \/ \E d \in Devs : Unused(d) /\ held' = [held EXCEPT ![d] = {}]
      BY <1>3, <3>1 DEF _install_group_nomem
    <3> QED
      BY <1>0, <3>2 DEF Unused
  <2>3. OwnInv'
    BY <1>0, <2>1, <2>2 DEF OwnInv, Owns, Raw
  <2> QED
    BY <1>0, <2>1, <2>2, <2>3
<1>4. CASE _install_group_reg_fail(t)
  <2>1. /\ ipc[t] = "region" /\ ipc' = [ipc EXCEPT ![t] = "idle"]
        /\ held' = [held EXCEPT ![gd[t]] = @ \ Range(Structures)]
        /\ gd' = [gd EXCEPT ![t] = NULL] /\ UNCHANGED minor
    BY <1>4, StructuresAreObjects DEF _install_group_reg_fail
  <2>2. gd[t] \in Devs /\ "cdev" \notin held[gd[t]]
    BY <1>0, <2>1 DEF OwnInv, Owns, Raw
  <2>3. /\ \A e \in Devs : e # gd[t] => held'[e] = held[e]
        /\ "cdev" \notin held'[gd[t]] /\ ipc'[t] = "idle"
        /\ \A u \in Installers : u # t => gd'[u] = gd[u] /\ ipc'[u] = ipc[u]
    BY <1>0, <2>1, <2>2
  <2>4. OwnInv'
    BY <1>0, <2>1, <2>2, <2>3 DEF OwnInv, Owns, Raw
  <2> QED
    BY <1>0, <2>1, <2>2, <2>3, <2>4
<1>5. CASE cdev_add(t)
  <2>1. /\ ipc[t] = "cdev" /\ ipc' = [ipc EXCEPT ![t] = "device"]
        /\ held' = [held EXCEPT ![gd[t]] = @ \cup {"cdev"}]
        /\ UNCHANGED <<gd, minor>>
    BY <1>5 DEF cdev_add
  <2>2. gd[t] \in Devs /\ Needed \subseteq held[gd[t]]
    BY <1>0, <2>1 DEF OwnInv, Owns, Raw
  <2>3. /\ \A e \in Devs : e # gd[t] => held'[e] = held[e]
        /\ held'[gd[t]] = held[gd[t]] \cup {"cdev"} /\ ipc'[t] = "device"
        /\ \A u \in Installers : u # t => ipc'[u] = ipc[u]
    BY <1>0, <2>1, <2>2
  <2>4. OwnInv'
    BY <1>0, <2>1, <2>2, <2>3 DEF OwnInv, Owns, Raw
  <2>5. held' \in [Devs -> SUBSET Objects]
    BY <1>0, <2>1 DEF Objects
  <2> QED
    BY <1>0, <2>1, <2>3, <2>4, <2>5
<1>6. CASE device_create(t) \/ device_create_fail(t)
  <2>1. /\ ipc[t] = "device" /\ ipc' = [ipc EXCEPT ![t] = "add_load"]
        /\ UNCHANGED <<gd, minor>>
        /\ \E x \in SUBSET {"device"} :
             held' = [held EXCEPT ![gd[t]] = (@ \ {"device_name"}) \cup x]
    <3>1. CASE device_create(t)
      BY <3>1 DEF device_create
    <3>2. CASE device_create_fail(t)
      <4>1. held[gd[t]] \ {"device_name"} =
              (held[gd[t]] \ {"device_name"}) \cup {}
        OBVIOUS
      <4> QED
        BY <3>2, <4>1 DEF device_create_fail
    <3> QED
      BY <1>6, <3>1, <3>2
  <2>2. gd[t] \in Devs /\ Needed \subseteq held[gd[t]]
    BY <1>0, <2>1 DEF OwnInv, Owns, Raw
  <2>3. PICK x \in SUBSET {"device"} :
          held' = [held EXCEPT ![gd[t]] = (@ \ {"device_name"}) \cup x]
    BY <2>1
  <2>4. /\ \A e \in Devs : e # gd[t] => held'[e] = held[e]
        /\ held'[gd[t]] = (held[gd[t]] \ {"device_name"}) \cup x
        /\ ipc'[t] = "add_load"
        /\ \A u \in Installers : u # t => ipc'[u] = ipc[u]
    BY <1>0, <2>1, <2>2, <2>3
  <2>5. /\ Needed \subseteq held'[gd[t]]
        /\ held[gd[t]] \ {"device_name"} \subseteq held'[gd[t]]
        /\ "cdev" \in held'[gd[t]] <=> "cdev" \in held[gd[t]]
    BY <1>a, <2>2, <2>4
  <2>6. OwnInv'
    BY <1>0, <2>1, <2>2, <2>4, <2>5 DEF OwnInv, Owns, Raw
  <2>7. held' \in [Devs -> SUBSET Objects]
    BY <1>0, <2>3 DEF Objects
  <2> QED
    BY <1>0, <2>1, <2>4, <2>5, <2>6, <2>7
<1> QED
  BY <1>1, <1>2, <1>3, <1>4, <1>5, <1>6 DEF InstallStep, Keeps, Looks, Inits

(* Without a file open nothing is under way. *)
LEMMA UnpinnedIdle ==
  ASSUME FileInv, ~Pinned
  PROVE  \A t \in Installers : ipc[t] = "idle" /\ fd[t] = NULL
BY DEF FileInv, PinInv, Pinned

(* open_group, close_group, the manager and udev keep the invariant. *)
LEMMA FileInvStep ==
  ASSUME FileInv, TsmNext \/ UNCHANGED tsmVars
  PROVE  FileInv'
<1>0. FileBase /\ PinInv /\ OwnInv
  BY DEF FileInv
<1>a. ASSUME UNCHANGED mgrVars
      PROVE  /\ UNCHANGED <<held, minor, ipc, desc, gd, module_state, crashed>>
             /\ OwnInv'
  <2>1. UNCHANGED <<held, minor, ipc, desc, gd, module_state, crashed>>
    BY <1>a DEF mgrVars, devVars, callVars, loadVars
  <2> QED
    BY <1>0, <2>1 DEF OwnInv
<1>1. CASE UNCHANGED tsmVars
  BY <1>0, <1>a, <1>1
     DEF FileInv, FileBase, PinInv, Pinned, tsmVars, libVars
<1>2. CASE (tsm_init \/ unload) /\ UNCHANGED libVars
  <2>1. ~Pinned /\ ~Pinned' /\ UNCHANGED <<ipc, desc, gd, minor>>
    BY <1>0, <1>2
       DEF unload, tsm_init, tsm_exit, group_free_all_none, group_free_all,
           group_free_all_next, group_free_all_bad_class, group_free_all_end,
           PinInv, Pinned, libVars, devVars, callVars
  <2>2. \A t \in Installers : ipc[t] = "idle" /\ fd[t] = NULL
    BY <2>1, UnpinnedIdle
  <2>3. /\ held' \in [Devs -> SUBSET Objects]
        /\ \A d \in Devs : held'[d] = held[d] \/ "cdev" \notin held'[d]
    <3>1. \/ UNCHANGED held
          \/ \E d, x : held' = [held EXCEPT ![d] = x]
                       /\ x \in {{}, held[d] \cap {"device"}}
      BY <1>2
         DEF unload, tsm_init, tsm_exit, group_free_all_none, group_free_all,
             group_free_all_next, group_free_all_bad_class,
             group_free_all_end, devVars
    <3>2. ASSUME NEW d, NEW x, held' = [held EXCEPT ![d] = x],
                 x \in {{}, held[d] \cap {"device"}}
          PROVE  /\ held' \in [Devs -> SUBSET Objects]
                 /\ \A e \in Devs : held'[e] = held[e] \/ "cdev" \notin held'[e]
      <4>1. x \subseteq {"device"} /\ {"device"} \subseteq Objects
        BY <3>2 DEF Objects
      <4> QED
        BY <1>0, <3>2, <4>1 DEF FileBase
    <3> QED
      BY <1>0, <3>1, <3>2 DEF FileBase
  <2>4. OwnInv'
    BY <1>0, <2>1, <2>2, <2>3 DEF OwnInv, Owns, Raw
  <2>5. FileBase' /\ PinInv'
    BY <1>0, <1>2, <2>1, <2>3 DEF FileBase, PinInv, libVars
  <2> QED
    BY <1>2, <2>2, <2>4, <2>5 DEF FileInv, libVars
<1>3. ASSUME NEW t \in Installers, InstallStep(t), UNCHANGED libVars
      PROVE  FileInv'
  <2>1. /\ ~crashed /\ UNCHANGED <<module_state, desc>>
        /\ \A u \in Installers : ipc'[u] # "idle" => ipc[u] # "idle"
    BY <1>0, <1>3, InstallFrame
  <2>2. /\ OwnInv' /\ \A d \in Devs : Spares(d)
        /\ held' \in [Devs -> SUBSET Objects]
        /\ minor' \in [Devs -> Descs \cup {0}]
        /\ ipc' \in [Installers -> {"idle"} \cup InstallPcs]
        /\ gd' \in [Installers -> Devs \cup {NULL}]
    BY <1>3, InstallOwns
  <2>3. FileBase' /\ PinInv'
    BY <1>0, <1>3, <2>1, <2>2 DEF FileBase, PinInv, Pinned, libVars
  <2>4. ASSUME NEW u \in Installers, fd'[u] # NULL
        PROVE  minor'[fd'[u]] = desc'[u] /\ "cdev" \in held'[fd'[u]]
    <3>1. /\ fd'[u] = fd[u] /\ fd[u] \in Devs
          /\ minor[fd[u]] = desc[u] /\ "cdev" \in held[fd[u]]
      BY <1>0, <1>3, <2>4 DEF FileInv, FileBase, libVars
    <3>2. "cdev" \in held'[fd[u]] /\ minor'[fd[u]] = minor[fd[u]]
      BY <2>2, <3>1 DEF Spares
    <3> QED
      BY <2>1, <3>1, <3>2
  <2> QED
    BY <2>2, <2>3, <2>4 DEF FileInv
<1>4. ASSUME NEW t \in Installers, OpenStep(t)
      PROVE  FileInv'
  <2>0. ~crashed /\ (cpc[t] # "idle" => fd[t] = NULL)
    BY <1>0, <1>4
       DEF PinInv, OpenStep, open_group_enter, open_group_install,
           open_group_result, open_group_size, open_group_open,
           open_group_retry, close_group, Call
  <2>1. CASE open_group_install(t)
    <3>1. PICK g \in Descs : desc' = [desc EXCEPT ![t] = g]
      BY <2>1 DEF open_group_install, install_group_enter
    <3>2. /\ ipc[t] = "idle" /\ ipc' = [ipc EXCEPT ![t] = "check"]
          /\ cpc[t] = "ioctl" /\ cpc' = [cpc EXCEPT ![t] = "installing"]
          /\ UNCHANGED <<held, minor, gd, fd, module_state, crashed>>
      BY <2>1 DEF open_group_install, install_group_enter, Call, Run, loadVars,
                  devVars
    <3>3. fd[t] = NULL /\ module_state = "in"
      BY <1>0, <2>0, <3>2 DEF PinInv, Pinned
    <3>4. OwnInv'
      BY <1>0, <3>2 DEF OwnInv, Owns, Raw, FileBase
    <3>5. FileBase'
      BY <1>0, <3>1, <3>2 DEF FileBase, InstallPcs
    <3>6. PinInv'
      BY <1>0, <3>2, <3>3 DEF PinInv, FileBase
    <3> QED
      BY <1>0, <3>1, <3>2, <3>3, <3>4, <3>5, <3>6 DEF FileInv, FileBase
  <2>2. CASE open_group_open(t)
    <3>1. PICK d \in Devs : Openable(desc[t], d) /\ fd' = [fd EXCEPT ![t] = d]
      BY <2>2 DEF open_group_open, group_open
    <3>2. /\ cpc[t] = "udev" /\ cpc' = [cpc EXCEPT ![t] = "idle"]
          /\ UNCHANGED mgrVars
      BY <2>2 DEF open_group_open, Call
    <3>3. /\ module_state = "in" /\ minor[d] = desc[t] /\ "cdev" \in held[d]
      BY <3>1 DEF Openable
    <3>4. FileBase' /\ PinInv'
      BY <1>0, <1>a, <3>1, <3>2, <3>3 DEF FileBase, PinInv
    <3> QED
      BY <1>0, <1>a, <3>1, <3>2, <3>3, <3>4 DEF FileInv, FileBase
  <2>3. CASE close_group(t)
    <3>1. /\ fd' = [fd EXCEPT ![t] = NULL] /\ UNCHANGED <<mgrVars, cpc>>
      BY <2>3 DEF close_group
    <3>2. FileBase' /\ PinInv'
      BY <1>0, <1>a, <3>1 DEF FileBase, PinInv, Pinned
    <3> QED
      BY <1>0, <1>a, <3>1, <3>2 DEF FileInv, FileBase
  <2>4. CASE open_group_enter(t) \/ open_group_result(t) \/ open_group_size(t)
             \/ open_group_retry(t)
    <3>1. /\ UNCHANGED <<mgrVars, fd>> /\ fd[t] = NULL /\ ipc[t] = "idle"
          /\ \E to \in {"idle", "ioctl", "size", "udev"} :
               /\ cpc' = [cpc EXCEPT ![t] = to]
               /\ to \in {"ioctl", "size"} => module_state = "in"
      BY <1>0, <2>0, <2>4
         DEF open_group_enter, open_group_result, open_group_size,
             open_group_retry, Call, PinInv, Pinned
    <3>2. PICK to \in {"idle", "ioctl", "size", "udev"} :
            /\ cpc' = [cpc EXCEPT ![t] = to]
            /\ to \in {"ioctl", "size"} => module_state = "in"
      BY <3>1
    <3>3. FileBase' /\ PinInv'
      BY <1>0, <1>a, <3>1, <3>2 DEF FileBase, PinInv, Pinned
    <3> QED
      BY <1>a, <3>1, <3>3 DEF FileInv
  <2> QED
    BY <1>4, <2>1, <2>2, <2>3, <2>4 DEF OpenStep
<1>5. ASSUME NEW g \in Descs, udev_add(g) \/ udev_remove(g)
      PROVE  FileInv'
  <2>1. UNCHANGED <<mgrVars, cpc, fd>>
    BY <1>5 DEF udev_add, udev_remove
  <2> QED
    BY <1>0, <1>a, <2>1 DEF FileInv, FileBase, PinInv, Pinned
<1> QED
  BY <1>1, <1>2, <1>3, <1>4, <1>5 DEF TsmNext

(* Without overlap a device with a cdev is listed, or its call is about to *)
(* list it.                                                                *)
LEMMA AddedKnown ==
  ASSUME MgrInv, ~crashed, NEW d \in Devs, "cdev" \in held[d]
  PROVE  d \in Listed \cup Entering
<1>1. ~Empty(d) /\ LiveInv
  BY DEF Empty, MgrInv
<1>2. CASE d \in Listed
  BY <1>2
<1>3. CASE d \notin Listed
  <2>1. PICK t \in Installers : ipc[t] \in Owns /\ gd[t] = d
    BY <1>1, <1>3 DEF LiveInv, HeldInv
  <2>2. ipc[t] \notin Raw
    <3>1. "cdev" \notin Range(Structures)
      BY StructuresAreObjects
    <3>2. ipc[t] \in Raw => held[d] \ {"delay_wq"} = Range(Structures)
      BY <1>1, <2>1 DEF LiveInv, CallInv, BuildInv
    <3> QED
      BY <3>1, <3>2
  <2> QED
    BY <2>1, <2>2 DEF Entering, Owns
<1> QED
  BY <1>2, <1>3

(* A device that is about to be listed is listed next. *)
LEMMA EnteringKept ==
  ASSUME MgrInv, OneCall, NEW t \in Installers, InstallStep(t),
         ~crashed, ~crashed', NEW d \in Entering
  PROVE  d \in Listed' \cup Entering'
<1>0. MgrBase /\ LiveInv /\ table \in [Tables -> TableType]
  BY DEF MgrInv, MgrBase, MgrTypeOK, TableType
<1>1. PICK u \in Installers :
        ipc[u] \in {"device", "add_load", "add_store"} /\ gd[u] = d
  BY DEF Entering
<1>2. ipc[t] # "idle"
  BY DEF InstallStep, install_group_check, init_group_devs_alloc,
      init_group_devs_fail, init_group_devs_list, init_group_devs_list_fail,
      init_group_devs_head, get_group_found, get_group_missing,
      install_group_space, _install_group_alloc, _install_group_nomem,
      _install_group_region, _install_group_reuse, _install_group_reg_fail,
      _install_group_class, class_create, class_create_fail, cdev_add,
      cdev_add_fail, device_create, device_create_fail, list_add_load,
      list_add_store, used_load, used_store, invalid_pointer, Run, Return
<1>3. u = t
  BY <1>1, <1>2, OthersIdle
<1>4. \/ device_create(t) \/ device_create_fail(t) \/ list_add_load(t)
      \/ list_add_store(t)
  BY <1>1, <1>3
     DEF InstallStep, install_group_check, init_group_devs_alloc,
      init_group_devs_fail, init_group_devs_list, init_group_devs_list_fail,
      init_group_devs_head, get_group_found, get_group_missing,
      install_group_space, _install_group_alloc, _install_group_nomem,
      _install_group_region, _install_group_reuse, _install_group_reg_fail,
      _install_group_class, class_create, class_create_fail, cdev_add,
      cdev_add_fail, used_load, used_store, invalid_pointer, Run, Return
<1>5. CASE device_create(t) \/ device_create_fail(t) \/ list_add_load(t)
  <2>1. ipc'[t] \in {"add_load", "add_store"} /\ gd'[t] = gd[t]
    BY <1>0, <1>5
       DEF device_create, device_create_fail, list_add_load, Run, callVars,
           MgrBase, MgrTypeOK
  <2> QED
    BY <1>1, <1>3, <2>1 DEF Entering
<1>6. CASE list_add_store(t)
  <2>1. /\ Valid /\ group_devs \in Tables /\ UNCHANGED group_devs
        /\ devices.devs \in Seq(Devs)
    BY <1>0, <1>6 DEF list_add_store, ListValid, Valid, MgrBase, MgrTypeOK,
                      NULL, devices
  <2>2. reg[t] = devices.devs /\ gd[t] \in Devs
    BY <1>0, <1>6 DEF list_add_store, Run, LiveInv, CallInv, BuildInv,
                      EntryInv, Owns
  <2>3. /\ devices'.devs = Append(devices.devs, d)
        /\ table'[group_devs].life = table[group_devs].life
    BY <1>0, <1>1, <1>3, <1>6, <2>1, <2>2
       DEF list_add_store, TableType, devices
  <2>4. /\ Len(devices.devs) + 1 \in DOMAIN devices'.devs
        /\ devices'.devs[Len(devices.devs) + 1] = d
    BY <1>1, <1>3, <2>1, <2>2, <2>3
  <2>5. Valid'
    BY <2>1, <2>3 DEF Valid
  <2>6. d \in Range(devices'.devs)
    BY <2>4, RangeOfList
  <2> QED
    BY <2>5, <2>6 DEF Listed
<1> QED
  BY <1>4, <1>5, <1>6

(* The history of overlapping calls is never forgotten. *)
LEMMA OverlapKept ==
  ASSUME TsmNext \/ UNCHANGED tsmVars, ~overlap'
  PROVE  ~overlap
BY DEF TsmNext, OpenStep, open_group_enter, open_group_install,
       open_group_result, open_group_size, open_group_open,
       open_group_retry, close_group, udev_add, udev_remove, tsmVars, libVars

(* As long as no two calls overlap the registry knows every open file. *)
LEMMA KnownInvStep ==
  ASSUME FileInv, KnownInv, TsmNext \/ UNCHANGED tsmVars
  PROVE  KnownInv'
<1> SUFFICES ASSUME ~overlap'
             PROVE  /\ OneCall' /\ MgrInv'
                    /\ ~crashed' => \A t \in Installers :
                         fd'[t] # NULL => fd'[t] \in (Listed \cup Entering)'
  BY DEF KnownInv
<1>0. FileBase /\ PinInv
  BY DEF FileInv
<1>1. ~overlap
  BY OverlapKept
<1>2. OneCall /\ MgrInv /\ MgrInv' /\ MgrBase
  BY <1>1, MgrInvStep, TsmStepIsMgrStep DEF KnownInv, MgrInv
<1>3. ~crashed => \A t \in Installers :
        fd[t] # NULL => fd[t] \in Listed \cup Entering
  BY <1>1 DEF KnownInv
<1>a. ASSUME UNCHANGED <<mgrVars, fd>>
      PROVE  /\ OneCall' /\ Listed' = Listed /\ Entering' = Entering
             /\ UNCHANGED crashed
  BY <1>2, <1>a, SameTable DEF mgrVars, callVars, OneCall, Entering
<1>4. CASE UNCHANGED tsmVars
  BY <1>a, <1>2, <1>3, <1>4 DEF tsmVars, libVars
<1>5. CASE (tsm_init \/ unload) /\ UNCHANGED libVars
  <2>1. ~Pinned /\ UNCHANGED <<ipc, fd>>
    BY <1>0, <1>5
       DEF unload, tsm_init, tsm_exit, group_free_all_none, group_free_all,
           group_free_all_next, group_free_all_bad_class, group_free_all_end,
           PinInv, libVars
  <2> QED
    BY <1>2, <2>1, UnpinnedIdle DEF OneCall
<1>6. ASSUME NEW t \in Installers, InstallStep(t), UNCHANGED libVars
      PROVE  /\ OneCall'
             /\ ~crashed' => \A u \in Installers :
                  fd'[u] # NULL => fd'[u] \in (Listed \cup Entering)'
  <2>1. /\ ~crashed
        /\ \A u \in Installers : ipc'[u] # "idle" => ipc[u] # "idle"
    BY <1>0, <1>6, InstallFrame
  <2>2. ~crashed' => \A d \in Listed \cup Entering : d \in (Listed \cup Entering)'
    BY <1>2, <1>6, <2>1, ListedKept, EnteringKept
  <2> QED
    BY <1>2, <1>3, <1>6, <2>1, <2>2 DEF OneCall, libVars
<1>7. ASSUME NEW t \in Installers, OpenStep(t)
      PROVE  /\ OneCall'
             /\ ~crashed' => \A u \in Installers :
                  fd'[u] # NULL => fd'[u] \in (Listed \cup Entering)'
  <2>1. CASE open_group_install(t)
    <3>1. /\ Idle /\ ipc' = [ipc EXCEPT ![t] = "check"]
          /\ UNCHANGED <<group_devs, table, gd, fd, crashed>>
      BY <2>1 DEF open_group_install, install_group_enter, Run
    <3>2. OneCall'
      BY <1>0, <3>1 DEF Idle, OneCall, FileBase
    <3>3. Listed' = Listed /\ Entering = {}
      BY <3>1, SameTable DEF Entering, Idle
    <3> QED
      BY <1>3, <3>1, <3>2, <3>3
  <2>2. CASE open_group_open(t)
    <3>1. PICK d \in Devs : Openable(desc[t], d) /\ fd' = [fd EXCEPT ![t] = d]
      BY <2>2 DEF open_group_open, group_open
    <3>2. ~crashed /\ UNCHANGED mgrVars
      BY <2>2 DEF open_group_open, Call
    <3>3. d \in Listed \cup Entering
      BY <1>2, <3>1, <3>2, AddedKnown DEF Openable
    <3>4. OneCall' /\ Listed' = Listed /\ Entering' = Entering
      BY <1>2, <3>2, SameTable DEF mgrVars, callVars, OneCall, Entering
    <3> QED
      BY <1>0, <1>3, <3>1, <3>2, <3>3, <3>4 DEF FileBase
  <2>3. CASE close_group(t)
    <3>1. ~crashed /\ UNCHANGED mgrVars /\ fd' = [fd EXCEPT ![t] = NULL]
      BY <2>3 DEF close_group
    <3>2. OneCall' /\ Listed' = Listed /\ Entering' = Entering
      BY <1>2, <3>1, SameTable DEF mgrVars, callVars, OneCall, Entering
    <3> QED
      BY <1>0, <1>3, <3>1, <3>2 DEF FileBase
  <2>4. CASE open_group_enter(t) \/ open_group_result(t) \/ open_group_size(t)
             \/ open_group_retry(t)
    <3>1. UNCHANGED <<mgrVars, fd>>
      BY <2>4 DEF open_group_enter, open_group_result, open_group_size,
                  open_group_retry
    <3> QED
      BY <1>a, <1>3, <3>1
  <2> QED
    BY <1>7, <2>1, <2>2, <2>3, <2>4 DEF OpenStep
<1>8. ASSUME NEW g \in Descs, udev_add(g) \/ udev_remove(g)
      PROVE  UNCHANGED <<mgrVars, fd>>
  BY <1>8 DEF udev_add, udev_remove
<1> QED
  BY <1>a, <1>2, <1>3, <1>4, <1>5, <1>6, <1>7, <1>8 DEF TsmNext

(* What is known of open files, and of the registry without overlap.       *)
THEOREM FileInvCorrect == TsmSpec => [](FileInv /\ KnownInv)
<1>1. TsmInit => FileInv /\ KnownInv
  <2> SUFFICES ASSUME TsmInit
               PROVE  FileInv /\ KnownInv
    OBVIOUS
  <2>1. MgrInv /\ MgrInit
    BY MgrInvInit DEF TsmInit
  <2>2. FileBase
    BY <2>1 DEF TsmInit, MgrInit, FileBase, MgrInv, MgrBase, MgrTypeOK, NULL
  <2>3. PinInv /\ \A t \in Installers : fd[t] = NULL
    BY <2>1 DEF TsmInit, MgrInit, PinInv, Pinned
  <2>4. OwnInv
    BY <2>1 DEF MgrInit, OwnInv, Owns, Raw
  <2>5. OneCall
    BY <2>1 DEF MgrInit, OneCall
  <2> QED
    BY <2>1, <2>2, <2>3, <2>4, <2>5 DEF FileInv, KnownInv
<1>2. (FileInv /\ KnownInv) /\ [TsmNext]_tsmVars => (FileInv /\ KnownInv)'
  BY FileInvStep, KnownInvStep
<1> QED
  BY <1>1, <1>2, PTL DEF TsmSpec

-----------------------------------------------------------------------------
(* What it gives                                                           *)

(* What else has a type in the library. *)
LibInv ==
  /\ i \in [Installers -> 0 .. ATTEMPTS]
  /\ \A t \in Installers : cpc[t] = "udev" => i[t] < ATTEMPTS
  /\ max_message_size \in [Installers -> BOOLEAN]
  /\ synch \subseteq Descs /\ overlap \in BOOLEAN

LEMMA LibInvStep ==
  ASSUME FileInv, LibInv, TsmNext \/ UNCHANGED tsmVars
  PROVE  LibInv'
<1> USE AttemptsAssumption DEF LibInv
<1>0. /\ cpc \in [Installers -> {"idle", "ioctl", "installing", "size", "udev"}]
      /\ i \in [Installers -> 0 .. ATTEMPTS]
  BY DEF FileInv, FileBase
<1>1. CASE UNCHANGED libVars
  BY <1>1 DEF libVars
<1>2. ASSUME NEW t \in Installers, OpenStep(t)
      PROVE  LibInv'
  <2>1. CASE open_group_enter(t) \/ open_group_result(t)
    BY <1>0, <2>1 DEF open_group_enter, open_group_result, Call
  <2>2. CASE open_group_install(t)
    BY <1>0, <2>2 DEF open_group_install, Call
  <2>3. CASE open_group_size(t)
    BY <1>0, <2>3 DEF open_group_size, Call
  <2>4. CASE open_group_open(t)
    BY <1>0, <2>4 DEF open_group_open, Call
  <2>5. CASE open_group_retry(t)
    BY <1>0, <2>5 DEF open_group_retry, Call
  <2>6. CASE close_group(t)
    BY <1>0, <2>6 DEF close_group
  <2> QED
    BY <1>2, <2>1, <2>2, <2>3, <2>4, <2>5, <2>6 DEF OpenStep
<1>3. ASSUME NEW g \in Descs, udev_add(g) \/ udev_remove(g)
      PROVE  LibInv'
  BY <1>3 DEF udev_add, udev_remove
<1> QED
  BY <1>1, <1>2, <1>3 DEF TsmNext, tsmVars

(* Pointers, counters and objects of manager and library have the types of *)
(* their declarations, open_group makes at most ATTEMPTS attempts, and     *)
(* what group_free_all counts is a number of devices unless two calls of   *)
(* install_group overlapped.                                               *)
THEOREM TsmTypeCorrect == TsmSpec => []TsmTypeOK
<1>1. TsmInit => LibInv
  <2> SUFFICES ASSUME TsmInit
               PROVE  LibInv
    OBVIOUS
  <2>1. /\ i \in [Installers -> 0 .. ATTEMPTS]
        /\ \A t \in Installers : cpc[t] # "udev"
    BY AttemptsAssumption DEF TsmInit
  <2>2. max_message_size \in [Installers -> BOOLEAN] /\ overlap \in BOOLEAN
    BY Zenon DEF TsmInit
  <2>3. synch \subseteq Descs
    BY DEF TsmInit
  <2> QED
    BY <2>1, <2>2, <2>3, Zenon DEF LibInv
<1>2. FileInv /\ LibInv /\ [TsmNext]_tsmVars => LibInv'
  BY LibInvStep
<1>3. FileInv /\ KnownInv /\ LibInv => TsmTypeOK
  BY DEF TsmTypeOK, FileInv, FileBase, KnownInv, LibInv, MgrInv, MgrBase
<1> QED
  BY <1>1, <1>2, <1>3, FileInvCorrect, PTL DEF TsmSpec

(* If no two calls of install_group overlapped, then between calls the     *)
(* registry tells the truth: used is the length of the list, its minors    *)
(* are distinct, an entry lacks its cdev or device file only if cdev_add,  *)
(* device_create or class_create was refused and the error ignored, and of *)
(* an installation that failed at any of its allocations nothing exists    *)
(* but a workqueue.                                                        *)
THEOREM RegistryTellsTruth == TsmSpec => []RegistryExact
<1>1. KnownInv => RegistryExact
  <2> SUFFICES ASSUME MgrBase, LiveInv, module_state = "in", Idle
               PROVE  /\ Valid => devices.used = Len(devices.devs)
                      /\ \A d, e \in Listed : minor[d] = minor[e] => d = e
                      /\ \A d \in Listed : Complete(d)
                      /\ group_dev_class = "error" =>
                           \E d \in Listed : "class_create" \in ignored[d]
                      /\ \A d \in Devs \ Listed : Empty(d)
    BY DEF RegistryExact, KnownInv, MgrInv, Empty
  <2>1. /\ \A d \in Devs \ Listed : Empty(d)
        /\ ~\E t \in Installers : ipc[t] \in Counts
    BY IdleFacts DEF Idle, LiveInv
  <2>2. ASSUME group_dev_class = "error"
        PROVE  \E d \in Listed : "class_create" \in ignored[d]
    <3>1. PICK d \in Devs : "class_create" \in ignored[d]
      BY <2>2 DEF LiveInv, KernelInv, Classless
    <3> QED
      BY <2>1, <3>1 DEF Empty
  <2>3. CASE Valid
    <3>1. devices.used \in Nat
      BY <2>3 DEF Valid, devices, MgrBase, MgrTypeOK, NULL
    <3> QED
      BY <2>1, <2>2, <2>3, <3>1 DEF LiveInv, ListInv
  <2>4. CASE ~Valid
    BY <2>1, <2>2, <2>4 DEF Listed
  <2> QED
    BY <2>3, <2>4
<1> QED
  BY <1>1, FileInvCorrect, PTL

(* If no two calls of install_group overlapped, then group_free_all frees  *)
(* as many devices as used says, and once the module is out the class, the *)
(* regions and every object of a device but a leaked workqueue are gone.   *)
THEOREM RemovalIsComplete == TsmSpec => []UnloadComplete
<1>1. KnownInv => UnloadComplete
  <2> SUFFICES ASSUME MgrBase, LiveInv, module_state = "out"
               PROVE  /\ to_free = 0 /\ regions = {} /\ ~class_registered
                      /\ \A d \in Devs : Empty(d)
    BY DEF UnloadComplete, KnownInv, MgrInv, Empty
  <2>1. ~Valid
    BY DEF LiveInv, TableInv, Valid, MgrBase, MgrTypeOK, NULL
  <2>2. \A d \in Devs : Empty(d)
    BY <2>1, IdleFacts DEF LiveInv, MgrBase, Listed
  <2> QED
    BY <2>1, <2>2 DEF LiveInv, KernelInv, FreeInv
<1> QED
  BY <1>1, FileInvCorrect, PTL

(* If no two calls of install_group overlapped, an invalid pointer is only *)
(* followed when the result of init_group_devs was ignored, before the     *)
(* first device exists, or that of class_create, by group_free_all, whose  *)
(* device is then still there.                                             *)
THEOREM OnlyTwoFaults == TsmSpec => []OnlyTwoWaysToCrash
<1>1. KnownInv => OnlyTwoWaysToCrash
  BY DEF KnownInv, MgrInv, FaultInv, OnlyTwoWaysToCrash
<1> QED
  BY <1>1, FileInvCorrect, PTL

(* "A new device file is installed only if a corresponding device is not   *)
(* existing": what two overlapping calls of install_group break holds for  *)
(* every number of threads whose calls have not overlapped.                *)
THEOREM OneDeviceWithoutOverlap == TsmSpec => [](~overlap => OneDevicePerGroup)
<1>1. KnownInv /\ ~overlap /\ ~crashed => OneDevicePerGroup
  <2> SUFFICES ASSUME MgrInv, OneCall, ~crashed, NEW d \in Devs, NEW e \in Devs,
                      "cdev" \in held[d], "cdev" \in held[e],
                      minor[d] = minor[e]
               PROVE  d = e
    BY DEF OneDevicePerGroup, KnownInv
  <2>1. ~Empty(d) /\ ~Empty(e)
    BY DEF Empty
  <2>2. LiveInv
    BY DEF MgrInv
  <2>3. CASE d \in Listed /\ e \in Listed
    BY <2>2, <2>3 DEF LiveInv, ListInv, Listed
  <2>4. ASSUME NEW x \in Devs \ Listed, ~Empty(x), NEW y \in Devs,
               ~Empty(y), minor[x] = minor[y]
        PROVE  x = y
    <3>1. PICK t \in Installers : ipc[t] \in Owns /\ gd[t] = x
      BY <2>2, <2>4 DEF LiveInv, HeldInv
    <3>2. minor[x] = desc[t] /\ \A z \in Listed : minor[z] # desc[t]
      BY <2>2, <3>1 DEF LiveInv, CallInv, SearchInv, BuildInv, Claimed
    <3>3. ipc[t] # "idle" /\ y \notin Listed
      BY <2>4, <3>1, <3>2 DEF Owns, Raw
    <3> QED
      BY <2>2, <2>4, <3>1, <3>3, OwnerIs DEF LiveInv
  <2> QED
    BY <2>1, <2>3, <2>4
<1>2. TsmInit => ~crashed
  BY DEF TsmInit, MgrInit
<1>3. OneDevicePerGroup /\ [TsmNext]_tsmVars /\ crashed' => OneDevicePerGroup'
  <2> SUFFICES ASSUME MgrNext \/ UNCHANGED mgrVars, crashed'
               PROVE  UNCHANGED <<held, minor>>
    BY TsmStepIsMgrStep DEF OneDevicePerGroup
  <2>1. CASE UNCHANGED mgrVars
    BY <2>1 DEF mgrVars, devVars
  <2>2. CASE tsm_init \/ tsm_exit
    BY <2>2 DEF tsm_init, tsm_exit, group_free_all_none, group_free_all,
                group_free_all_next, group_free_all_bad_class,
                group_free_all_end, devVars
  <2>3. ASSUME NEW t \in Installers, install_group_enter(t) \/ InstallStep(t)
        PROVE  UNCHANGED <<held, minor>>
    <3>1. get_group_missing(t) \/ invalid_pointer(t)
      BY <2>3, CrashesAt
    <3> QED
      BY <3>1 DEF get_group_missing, invalid_pointer, devVars
  <2> QED
    BY <2>1, <2>2, <2>3 DEF MgrNext
<1>4. [TsmNext]_tsmVars /\ ~overlap' => ~overlap
  BY OverlapKept
<1> QED
  BY <1>1, <1>2, <1>3, <1>4, FileInvCorrect, PTL DEF TsmSpec

(* If no two calls of install_group overlapped, one that returns 0 leaves  *)
(* its group with a device in the list that lacks nothing but what the kernel  *)
(* refused without _install_group looking.                                 *)
THEOREM SuccessMeansInstalled == TsmSpec => InstalledOnSuccess
<1>1. KnownInv /\ [TsmNext]_tsmVars =>
        [\A t \in Installers :
           ~overlap /\ ipc[t] # "idle" /\ ipc'[t] = "idle" /\ ret'[t] = 0 =>
             \E d \in Listed' : minor'[d] = desc[t] /\ Complete(d)']_tsmVars
  <2>0. ASSUME KnownInv, ~overlap, TsmNext
        PROVE  MgrInv /\ MgrInv' /\ OneCall
    BY <2>0, MgrInvStep, TsmStepIsMgrStep DEF KnownInv
  <2>a. ASSUME UNCHANGED mgrVars, NEW t \in Installers
        PROVE  ipc'[t] = ipc[t]
    BY <2>a DEF mgrVars
  <2> SUFFICES ASSUME MgrInv, MgrInv', OneCall, MgrNext, NEW t \in Installers,
                      ipc[t] # "idle", ipc'[t] = "idle", ret'[t] = 0
               PROVE  \E d \in Listed' : minor'[d] = desc[t] /\ Complete(d)'
    BY <2>0, <2>a, TsmStepIsMgrStep
  <2>1. MgrBase
    BY DEF MgrInv
  <2>2. get_group_found(t) \/ used_store(t)
    <3>1. ASSUME tsm_init \/ tsm_exit
          PROVE  UNCHANGED ipc
      BY <3>1 DEF tsm_init, tsm_exit, group_free_all_none, group_free_all,
                  group_free_all_next, group_free_all_bad_class,
                  group_free_all_end
    <3>2. PICK u \in Installers : install_group_enter(u) \/ InstallStep(u)
      BY <3>1 DEF MgrNext
    <3>3. \E to : ipc' = [ipc EXCEPT ![u] = to]
      BY <2>1, <3>2
         DEF InstallStep, install_group_enter, install_group_check,
             init_group_devs_alloc, init_group_devs_fail, init_group_devs_list,
             init_group_devs_list_fail, init_group_devs_head, get_group_found,
             get_group_missing, install_group_space, _install_group_alloc,
             _install_group_nomem, _install_group_region, _install_group_reuse,
             _install_group_reg_fail, _install_group_class, class_create,
             class_create_fail, cdev_add, cdev_add_fail, device_create,
             device_create_fail, list_add_load, list_add_store, used_load,
             used_store, invalid_pointer, Run, Return, MgrBase, MgrTypeOK
    <3>4. u = t
      BY <2>1, <3>3 DEF MgrBase, MgrTypeOK
    <3>5. \/ get_group_found(t) \/ used_store(t) \/ install_group_space(t)
          \/ _install_group_nomem(t) \/ _install_group_reg_fail(t)
      BY <2>1, <3>2, <3>4
         DEF InstallStep, install_group_enter, install_group_check,
             init_group_devs_alloc, init_group_devs_fail, init_group_devs_list,
             init_group_devs_list_fail, init_group_devs_head,
             get_group_missing, _install_group_alloc,
             _install_group_region, _install_group_reuse,
             _install_group_class, class_create,
             class_create_fail, cdev_add, cdev_add_fail, device_create,
             device_create_fail, list_add_load, list_add_store, used_load,
             invalid_pointer, Run, MgrBase, MgrTypeOK
    <3>6. ~install_group_space(t)
      BY <2>1 DEF install_group_space, Run, MgrBase, MgrTypeOK
    <3>7. ~_install_group_nomem(t) /\ ~_install_group_reg_fail(t)
      BY <2>1 DEF _install_group_nomem, _install_group_reg_fail, Return,
                  MgrBase, MgrTypeOK
    <3> QED
      BY <3>5, <3>6, <3>7
  <2>3. LiveInv'
    BY <2>2 DEF MgrInv, get_group_found, used_store, Return, Run
  <2>4. \E d \in Listed' : minor'[d] = desc[t]
    <3>1. CASE get_group_found(t)
      BY <3>1, SameTable
         DEF get_group_found, _get_group, Listed, ListValid, devVars
    <3>2. CASE used_store(t)
      <4>1. gd[t] \in Listed /\ minor[gd[t]] = desc[t] /\ Valid
        BY <3>2
           DEF used_store, Return, Run, MgrInv, LiveInv, CallInv, EntryInv,
                    Counts
      <4>2. group_devs \in Tables /\ UNCHANGED <<group_devs, minor>>
        BY <2>1, <3>2, <4>1
           DEF used_store, Valid, MgrBase, MgrTypeOK, NULL, devVars
      <4>3. table'[group_devs].devs = table[group_devs].devs
        BY <2>1, <3>2, <4>2 DEF used_store, MgrBase, MgrTypeOK
      <4>4. Valid'
        BY <2>1, <3>2, <4>1, <4>2 DEF used_store, Valid, MgrBase, MgrTypeOK
      <4> QED
        BY <4>1, <4>2, <4>3, <4>4 DEF Listed, devices
    <3> QED
      BY <2>2, <3>1, <3>2
  <2>5. \A d \in Listed' : Complete(d)'
    BY <2>3 DEF LiveInv, ListInv, Listed
  <2> QED
    BY <2>4, <2>5
<1> QED
  BY <1>1, FileInvCorrect, PTL DEF TsmSpec, InstalledOnSuccess

(* The descriptor open_group returns is of the group that was asked for,   *)
(* and until close_group the module stays in, the structures of that       *)
(* device stay allocated and its cdev stays registered: whatever the       *)
(* kernel refuses, whatever is removed and inserted between installation   *)
(* and open, and however the calls of other threads overlap with it.  And  *)
(* the registry knows the device unless two installations overlapped.      *)
THEOREM OpenedFilesStayValid == TsmSpec => []OpenedStaysValid
<1>1. FileInv /\ KnownInv => OpenedStaysValid
  <2> SUFFICES ASSUME FileInv, KnownInv, ~crashed, NEW t \in Installers,
                      fd[t] # NULL
               PROVE  /\ module_state = "in" /\ minor[fd[t]] = desc[t]
                      /\ Needed \cup {"cdev"} \subseteq held[fd[t]]
                      /\ ~overlap => fd[t] \in Listed \cup Entering
    BY DEF OpenedStaysValid, Needed
  <2>1. module_state = "in"
    BY DEF FileInv, PinInv, Pinned
  <2>2. /\ fd[t] \in Devs /\ minor[fd[t]] = desc[t]
        /\ "cdev" \in held[fd[t]] /\ Needed \subseteq held[fd[t]]
    BY DEF FileInv, FileBase, OwnInv
  <2> QED
    BY <2>1, <2>2 DEF KnownInv
<1> QED
  BY <1>1, FileInvCorrect, PTL
=============================================================================
