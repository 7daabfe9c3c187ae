# A TLA+ model of the thread synchronization and messaging subsystem

The system is a Linux kernel module (`kmodule/`) with a small userspace library
(`lib/tsm_lib.c`). Threads open a *group*, which is a character device, and use
it to exchange messages with `read()` and `write()`, to delay messages, and to
sleep on a barrier. This directory holds TLA+ modules for it, TLC
configurations that check them on small instances, and proofs that TLAPS checks
for every instance.

## 1. Inventory

| Part | State | Operations | Shares with |
|---|---|---|---|
| Message store, `group_dev.c` | `message_list`, `messages_number`, `message_sem` | `group_read`, `group_write` | worker, revocation |
| Delayed messages | `pending_list`/`pending_sem`, `delay_list`/`wq_sem`, `delay_wq`, `delay`, one `struct work` per delayed write | `add_delayed_work`, `delayed_work_fun` (in the workqueue's thread), `_set_delay`, `fflush_workqueue` | message store, flags byte |
| Sleep barrier | `BARRIER_BIT`, `wait_queue` | `IOCTL_SLEEP_ON_BARRIER`, `IOCTL_AWAKE_BARRIER` | flags byte |
| Flags byte, `group_dev.h` | `flags`: `BARRIER_BIT` and `FLUSHING_BIT` | `set_bit`, `clear_bit`, `check_bit` (plain C, not the kernel's atomic functions) | barrier, revocation |
| Manager, `group_dev_manager.c` | `group_devs` (`used`, `major`, the list), `group_dev_class` | `install_group`, `_install_group`, `get_group`, `init_group_devs`, `group_free_all`, `group_free` | every thread that opens a group |
| Module and tsm device, `tsm.c` | loaded or not, module parameters | `tsm_init`, `tsm_exit`, `IOCTL_INSTALL_GROUP`, `IOCTL_MAX_MESSAGE_SIZE` | manager |
| Library, `lib/tsm_lib.c`, with `99-tsm.rules` | file descriptor, `max_message_size`, links in `/dev/synch` | `open_group`, `close_group`, one wrapper per system call | module, udev |
| Programs `mt_ordinary.c`, `mt_ordinary_chaotic.c` | `remaining_messages`, `sem` | `main`, `thread_fun` | one group, through the library |

What is hard about it, part by part, and what makes it correct:

* **Messages.** A message travels `write()` -> `pending_list` -> the worker's
  local variable -> `message_list` -> `read()`, under two semaphores that are
  never held together on that way. Correct means: exactly one place at a time,
  counted exactly, delivered once, first stored first read.
* **Works.** A work publishes the *oldest* pending message, not its own. A
  revocation empties `pending_list` under armed timers. Correct means: enough
  works for the pending messages, no timer armed when the queue is drained, no
  struct work touched after it was freed, every call returns.
* **Barrier.** `set_barrier`, the wait queue and `awake` interleave freely.
  Correct means: nobody returns before an awake, and an awake loses nobody.
* **Flags.** Two features change the same byte without a lock.
* **Manager.** `install_group` takes no lock, `_install_group` has nine failure
  labels, and five results are not looked at (`init_group_devs`,
  `init_workqueue`, `class_create`, `cdev_add`, `device_create`). Correct means:
  one device per group, a registry that agrees with what exists, nothing left
  after removal.
* **Opening.** `open_group` closes `/dev/tsm` before it opens the device file.
  Correct means: whatever happens in between, a file that was opened belongs to
  its group and keeps its device.
* **Removal.** `group_free` meets a device with armed timers, a running worker
  and messages in both lists. Correct means: nothing that is left would touch
  the freed device, and no message leaks.
* **Programs.** They sleep on the barrier, join each other and count messages.
  Correct means: they end, and find the messages they count on.

The list of hazards with their lines, and the property that watches each, is in
`PROJECT.json`.

## 2. Modules

| Module | Models | Form |
|---|---|---|
| `MailSlot` | what a device promises about messages | abstract, `SlotSpec` |
| `SleepBarrier` | what the barrier promises | abstract, `GateSpec` |
| `DeviceFlags` | the flags byte | the set of bits that are 1 |
| `Messaging` | message store, delays, revocation | `MsgSpec`, `FairMsgSpec` |
| `Barrier` | the barrier with `wait_event` and `wake_up_all` | `BarSpec`, `FairBarSpec` |
| `GroupDevice` | one whole device: `Messaging` and `Barrier` on one flags byte | `DevSpec` |
| `Teardown` | the end of that device: `group_free` | `TearSpec`, extends `GroupDevice` |
| `GroupDevManager` | installation and removal of devices, life of the module | `MgrSpec` |
| `TsmLib` | `open_group`/`close_group` and udev on top of the manager | `TsmSpec` |
| `Ordinary` | the programs `mt_ordinary` and `mt_ordinary_chaotic` | `OrdinarySpec`, extends `MailSlot` and `SleepBarrier` |
| `MCMessaging`, `MCTsmLib` | symmetry sets and views for TLC; the two kinds of behaviours of the `manager` run | |
| `MessagingProofs` | proofs: types and exactly-once | extends `Messaging` |
| `RevokeProofs` | proofs: flushing bit, complete revocation | extends `MessagingProofs` |
| `SlotProofs` | proofs: the message counter; `Messaging` implements `MailSlot` | extends `RevokeProofs` |
| `WorkProofs` | proofs: works, timers and the drain, works enough for the pending messages | extends `RevokeProofs` |
| `BarrierProofs` | proofs: the barrier | extends `Barrier` |
| `DeviceProofs` | proofs: one flags byte, a device implements both abstract specifications, removal of a device | extends `Teardown`, `WorkProofs`, `SlotProofs`, `BarrierProofs` |
| `ManagerProofs` | proofs: the manager and open files | extends `TsmLib` |
| `OrdinaryProofs` | proofs: `mt_ordinary` finds its messages | extends `Ordinary` |

**Reading a model.** Each thread has a program counter (`pc`, `bpc`, `ipc`,
`cpc`) whose values name the next statement; an action is one statement, or a
run of statements nobody else can observe, and carries the name of the C
function it belongs to. A critical section takes one step for `down()` and at
least one inside it, so removing a semaphore from the model changes what can
happen. Unprotected read-modify-write statements (`flags |= ...`, `used++`,
`list_add` on the list of devices) are a load and a store.

**Refinement.** `MailSlot` is a bounded slot with atomic operations: a message
is accepted or refused, stored or delayed, published oldest first, put in front
of the stored ones by a revocation, received. `Messaging` implements it under
the mapping at the end of that module: a writer between the test of the limit
and its `list_add` has *reserved* a place, the message in the worker's hand is
still the first *delayed* one, and the message in a reader's hand is *taken*.
The abstract revocation may miss one message, the one the worker is moving:
`_fflush_workqueue` splices before it waits for the worker. `RevokeComplete`
says that it is published too before the call returns. `SleepBarrier` is a flag
and a set of waiting threads. `Barrier` implements it on both memory orders: a
lost wake-up makes a thread late, which an abstract barrier without fairness
allows, and never lets one through. Programs that use a device can then be
modelled on the two small specifications, as `Ordinary` is.

**Removal.** `Teardown` lets a device live as `GroupDevice` says until nobody
is inside a call, then runs `group_free` while works, timers and the worker go
on. The flush is `fflush_workqueue` of `Messaging`, executed by the thread that
removes the module. A device without a workqueue skips it; if messages are
pending then, the loop at `group_dev_manager.c:426` frees the list head, and
`corrupted` becomes true.

**Installation.** `InstallFaults` says what the kernel may refuse: each
allocation, the workqueue, the region, the class, the cdev, the device file. A
failure the code tests jumps to its label. A failure it does not test goes on
with the next statement, and the history variable `ignored` records for which
device it was. A refused class leaves an `ERR_PTR` in `group_dev_class`:
`device_create` answers it with an error, `device_destroy` follows it when the
module is removed. `err` is unassigned when the region exists already; both
signs are possible. The test of `group_devs_list` at
`group_dev_manager.c:531` is no step: removal starts when no call is under way,
and then `group_devs` is `NULL` or has its list, because the call that failed to
allocate the list has itself followed the freed structure.

**Lists.** A `list_head` is a sequence with its oldest entry first. `list_add`
inserts behind the head, which is the *newest* end, so it appends;
`list_last_entry` is the first element; `list_splice_tail` puts the spliced
list in front of the sequence.

**Memory faults.** `corrupted` (`Messaging`) and `crashed` (`GroupDevManager`)
become true when the code unlinks an entry twice, touches freed memory or
follows an invalid pointer. After that C promises nothing: no further step is
taken, and the properties say where they assume that it has not happened. Where
two unprotected list updates race, both outcomes are possible.

**What is abstracted.** Contents and lengths of messages (a message is a
number), logging, the choice of error codes. Arguments that a function refuses
before it touches anything are no step.

**Modelled from use (external).** The kernel's lists, semaphores, timers,
single-threaded workqueue (`flush_delayed_work` queues the work at once and
waits for it; `drain_workqueue` waits until the queue is empty and the worker
idle), `wait_event`, character device and class registration. udev executes the
rules of `99-tsm.rules` some time after the event they name.

## 3. Runs

| Run | Instance | Checks |
|---|---|---|
| `messaging` | 2 writers, 1 reader, 1 revocation, 2 messages, storage limit 1 or 2 changing at run time, failing copies | `MsgTypeOK`, `OnePlace`, `CountMatches`, `EnoughWorks`, `ImplementsMailSlot` |
| `revoke` | 1 writer, 2 revocations, delays -1, 0, 1 and 2^32, failing copies, `kmalloc` and `create_workqueue` | `RevokeComplete`, `NoTimerAtDrain`, `FlushingBitMeansFlushing` |
| `live` | 1 writer, 1 revocation, delays 0 and 1, fairness | `DelayedIsPublished`, `CallsReturn` |
| `barrier` | 2 sleepers, 2 awakers, both memory orders, fairness | `BarTypeOK`, `SleepUntilAwoken`, `StrandedNeedsReordering`, `AwakesSuffice`, `ImplementsSleepBarrier` |
| `device` | 1 writer, 1 revocation, 1 sleeper, 1 awaker, removal at any quiet moment, with or without a workqueue | `NoInterference`, `RevokeComplete`, `NothingLeftBehind`, `EveryMessageFreed`, `BarrierDownAtRemoval` |
| `manager` | 1 thread and every refusal, or 2 threads that may overlap and no refusal; 2 groups and a descriptor out of range, 2 insertions of the module, udev at its own pace | `TsmTypeOK`, `RegistryExact`, `UnloadComplete`, `OnlyTwoWaysToCrash`, `InstalledOnSuccess`, `OpenedStaysValid` |
| `ordinary` | both programs with 2 threads, failing calls, storage limit 1 or 2 changing at run time, fairness | `DrainFindsMessages`, `ProgramEnds` |

What the less obvious ones say. The properties of the registry are about
behaviours in which no two calls of `install_group` have overlapped (`overlap`
records it). `OnlyTwoWaysToCrash`: an invalid pointer is followed only after the
ignored failure of `init_group_devs`, before any device of that insertion
exists, or after the ignored failure of `class_create`, by `group_free_all` at
its first device. `RegistryExact` and `InstalledOnSuccess`: what is listed, and
what a returned 0 stands for, is a device that lacks only what was refused
unnoticed while it was made. `OpenedStaysValid`: the thread that has closed `/dev/tsm` and not yet opened
its device file holds nothing, so the module may be removed and inserted again
and the other thread may install either group first; the number the file is
found by still leads to a device of the group that was asked for.
`BarrierDownAtRemoval`: the branch of `group_free` that clears a raised barrier
is reached only with a bit left over by a lost update of the flags byte, since
a sleeper keeps its file open. `ProgramEnds`: the programs can wait for ever in
three ways and no other, a thread that goes to bed after the one awake of
`main` (`sleep(8)` was too short), a thread that an awake misses and no later
awake finds (the lost wake-up of the run `stranded`), and a thread that leaves
through `exit` with the semaphore after a failed call. `DrainFindsMessages`: the
counter of `mt_ordinary` never promises more messages than are stored, as long
as no write was refused; a full store returns 0, which the loop takes for a
success.

Five runs show the code doing something other than what a document or a comment
says (`findings` in `PROJECT.json` quotes both):

| Run | What happens |
|---|---|
| `revoke_order` | a revocation links delayed messages at the end reads take from, so they overtake messages stored before |
| `work_list` | a timer expires between `queue_delayed_work` and `list_add`; the worker unlinks the work, the writer links it, the worker frees it |
| `stranded` | with a store buffer, `waitqueue_active` is answered before the cleared bit is visible; a thread sleeps on with the barrier down |
| `flags` | `set_flushing` stores a byte it loaded before `set_barrier`; a sleeper returns though nobody awoke it |
| `install_race` | two threads open the same new group; both install a device |

Seven more divergences are visible in the source and have no run of their own.
`README.md:20` describes `REVOKE_DELAYED_MESSAGES` as *retracting* messages;
the code publishes them, as the comment at `group_dev.c:730` says.
`README.md:22` asks `flush()` to publish delayed messages; `group_flush` does
nothing. A thread that raises the barrier again before woken threads have run
sends them back to sleep, although the comment at `group_dev.c:750` says every
thread awakes. And the comment at `group_dev_manager.c:257` says each failure
label aborts what was done before, but `dev_reg_fail` leaves the workqueue.
`README.md:38` measures `max_storage_size` in bytes; the code counts messages.
`group_dev_manager.h:100` says of a returned 0 that the device was found or
installed; `device_create` and `cdev_add` may have failed unnoticed, and
`Complete` in the properties says for which devices. The comment at
`group_dev_manager.c:422` says that pending messages are freed; the loop under
it frees the list head, which happens when a device has no workqueue.

**Bounds.** `MaxMsgs` bounds `write()` calls, `MaxNaps` the sleep commands of a
thread, `MaxDevs`, `MaxTables` and `MaxLoads` the structures and insertions,
`ATTEMPTS` the tries of `open_group` (10000 in the library). Two messages are
enough for one to be in each list, or one in the worker's hand while another is
spliced. Two revocations
contend for `wq_sem` and overlap their flag updates. `UINT_RANGE = 8` stands for
2^32 and `MS_PER_JIFFY = 4` for the tick, so that rounding and wrap-around both
occur among the arguments. `MaxWrites` and `MaxReads` bound the plans of a
thread in `Ordinary` (6 in the code); a thread that plans more reads than it
can make, a full store and an empty one all occur. The `device` run has one
message, which passes through every place a message can be in when the device
is removed, and two sleep commands, so that a bit left over by one is met by
the next. Two insertions show what the first leaves to the
second. Delays 0 and 1 in the `live` run let a writer choose `pending_list` and
queue its work after the delay was reset. The two threads of `manager` are
one in the window between installation and open and one that installs there;
refusals and overlap are kept apart (`MCTsmLib`) because together they are too
many states, and the theorems have both. Symmetry is used over writers,
revocations or the threads of `manager`, and never in a run with a liveness
property. Two runs have a view. The one of
`messaging` drops the history variables `stored` and `owed`, which no action
reads and of its properties only `MsgTypeOK`, for their types. The one of
`manager` drops locals of threads outside `open_group` and the numbers of
structures that do not exist.

Deadlock is not checked: a run ends when its bounded calls have been made, and
a faulted behaviour stops. That nobody waits for ever is `CallsReturn` instead.

**Fairness.** `MsgFairness` says that a thread inside a call keeps running,
that the workqueue's thread runs, and that a timer expires. Steps are strongly
fair because a kernel semaphore queues its waiters and hands itself to the
first on `up()`: a waiter cannot be overtaken for ever. `BarFairness` is weak
fairness of threads inside a command. Nothing makes a thread start a call;
`AwakesSuffice` therefore assumes that awakes are sent again and again.
`CallsReturn` is checked with a writer and a revocation, the two that hold one
semaphore while they wait for another; `group_read` takes one only.
`OrdinarySpec` has weak fairness of each thread and of `main`: the scheduler
runs them and `sleep()` ends. A thread that waits for the semaphore is not made
to get it, and a sleeper leaves only if the awake reached it: each awake chooses
a set of sleepers it misses (`stranded`), as the device may, and no fairness
takes a thread out of that set; only another awake does.

## 4. Proofs

The theorems hold for any sets of threads, any number of messages, any delay
arguments, storage sizes and faults that satisfy `ThreadAssumption`,
`ParamAssumption` and `BarrierAssumption`, and for the programs
`ProgramAssumption`.

* `MsgTypeCorrect`: `MsgSpec => []MsgTypeOK`. `MsgTypeOK` is not inductive: the
  message a reader or the worker is about to unlink has a type only because
  nobody else changed the list since it was looked up. The invariant is
  `BaseInv == MsgTypeOK /\ LockInv /\ HoldInv`: `LockInv` says who holds each
  semaphore at each statement, `HoldInv` that a process between look-up and
  unlink holds the oldest entry of a list, and that a process that has a
  message or a work to act on really has one. One lemma per process, one step
  per action.
* `ExactlyOnce`: `MsgSpec => []OnePlace`, from `BaseInv`. Every action either
  moves no message, or moves one between a process and a list, or splices the
  lists. A lemma for each kind of movement (`NoMove`, `PutMessage`,
  `TakeMessage`, `NewMessage`, `EndMessage`, `SpliceMessages`) carries the
  argument, and each action is an instance of one.
* `BarTypeCorrect`: `BarSpec => []BarTypeOK`, inductive as it stands.
* `SleepersWait`: `BarSpec => []SleepUntilAwoken`. Only `clear_barrier` stores
  the bit clear, and it releases every waiting thread. This is about the
  barrier alone; the `flags` run shows what another writer of the byte does.
* `NoLostWakeupOnSC`: `BarSpec => []StrandedNeedsReordering`. On a machine
  without a store buffer no awake is ever in the state "wait queue read, bit
  not yet cleared"; that is the strengthening.
* `BarrierRefines`: `BarSpec => ImplementsSleepBarrier`. Under `BarTypeOK` every
  step of a sleep command is `Sleep`, `Leave` or a stutter of the abstract
  barrier, and every step of an awake command `Awake` or a stutter.

* `FlushingBitCorrect`: `MsgSpec => []FlushingBitMeansFlushing`, and
  `RevocationPublishes`: `MsgSpec => RevokeComplete`. Both rest on `RevokeInv`:
  only the holder of `wq_sem` touches the bit, and it leaves it as it found it;
  a message owed to a revocation is pending or in the worker's hand only before
  the splice and the drain that publish it. The step that matters is the drain:
  the worker is idle then, and what it had in hand was published.
* `CountCorrect`: `MsgSpec => []CountMatches`. Besides the equation the
  invariant says that a writer that passed the test still has room
  (`SpaceLeft`). Each action keeps the set `Counted`, or adds or removes one
  member of it together with the counter; the cardinalities are those of
  `FiniteSetTheorems`.
* `MessagingImplementsMailSlot`: `MsgSpec => ImplementsMailSlot`. One lemma per
  operation of the slot; every statement of the code is one of them or a
  stutter under the mapping. `CountCorrect` gives the slot's test of the limit.
* `DrainMeetsNoTimer`: `MsgSpec => []NoTimerAtDrain`. The loop of
  `fflush_workqueue` walks `delay_list` until it is empty, so the argument is
  that an armed timer is always linked, or about to be linked by a writer that
  holds `wq_sem`. `WorkInv` says so: `WriterInv` (a work between allocation and
  linking), `QueueInv` (the queue and the worker hold distinct queued works),
  `LinkInv` (what is linked exists, what is armed is linked) and `LoopInv` (what
  the flush has in hand).
* `WorksSuffice`: `MsgSpec => []EnoughWorks`, assuming `WorksAllocated`
  (`kmalloc` and `create_singlethread_workqueue` do not fail: `add_delayed_work`
  gives up silently when they do, and the message stays pending without a
  work). `EnoughWorks` is not inductive as it stands: it adds up works, writers
  and the worker, and nothing in it says that two of them are not the same
  work. `Balance` compares `pending_list` with the cardinality of one set of
  works, `Takers`; `WriterInv` and `QueueInv` give that a write adds a new
  member together with its message, that queueing, expiring, flushing and
  starting a work keep it a member, and that a work leaves the set only when it
  takes a message or finds none pending. TLC checked `Balance` on the instance
  of the `messaging` run first.
* `FlagsDoNotInterfere`: `DevSpec => []NoInterference`. As long as the
  read-modify-write statements of the two features have not overlapped, the
  value each has loaded agrees with the byte on the other's bit; under that
  invariant (`FlagsInv`) a step of one feature is a stutter of the other, and
  the theorems of both apply.
* `DeviceImplementsMailSlot`: `DevSpec => ImplementsMailSlot`, and
  `DeviceImplementsBarrier`: `DevSpec /\ []~overlapped =>
  ImplementsSleepBarrier`. The two refinements survive the composition, but not
  alike. The message part needs nothing of the byte: its invariants (`BaseInv`
  and `MailInv`) ask only that `flags` is a set of bits, so a step of the
  barrier is a stutter of the slot, and a `FLUSHING_BIT` that a lost update left
  set or clear changes when a message is published, never what the slot
  allows. The barrier does need that no two changes of the byte have
  overlapped: then `FlagsInv` gives that a revocation stores `BARRIER_BIT` as it
  stands. Without the hypothesis TLC finds a revocation that raises the barrier
  again after an awake, and the `flags` run one that lets a sleeper through.
* `RemovalLeavesNothing`, `RemovalFreesMessages`, `RemovalFindsBarrierDown`,
  `RevocationPublishesOnDevice`: `TearSpec` satisfies `NothingLeftBehind`,
  `EveryMessageFreed`, `BarrierDownAtRemoval` and `RevokeComplete`. `TearInv`
  adds to the invariants above that no call is under way once `group_free` has
  begun (`NoCallers`), what its flush has achieved at each statement
  (`FlushInv`), and that the lists only shrink after it (`Clean`, `Done`).
  Attempting the proof for an empty set of messages is what showed that the
  barrier part must not depend on there being one.
* `ManagerProofs`: `TsmSpec => []P` for `P` each of `TsmTypeOK`,
  `RegistryExact`, `UnloadComplete`, `OnlyTwoWaysToCrash` and
  `~overlap => OneDevicePerGroup`, and `TsmSpec => InstalledOnSuccess`. What
  these say of the registry they say for behaviours in which no two calls of
  `install_group` have overlapped. The code does not ensure that; `install_race`
  shows that otherwise the registry breaks. The theorems say what a mutex around
  `IOCTL_INSTALL_GROUP` would give, for every number of threads, groups,
  insertions and refusals, the ignored ones included.
  The invariant `MgrInv` says that at most one structure lives, the
  one `group_devs` points to (`TableInv`); class and region exist only beside
  it, and an `ERR_PTR` class only beside a device that was refused its class
  (`KernelInv`); what is listed lacks only what was ignored and was made with
  the present major (`ListInv`, which is why `device_destroy` finds it); what is
  not listed is gone or belongs to the call under way (`HeldInv`); and what that
  call has established at each statement (`CallInv`). After a fault it says
  which of the two it was.
* `OpenedFilesStayValid`: `TsmSpec => []OpenedStaysValid`, without any
  hypothesis on overlap. `FileInv` is an invariant of the racing code: an open
  file pins the module, so nothing is freed while there is one (`PinInv`); each
  call of `install_group` builds a structure nobody else has, and a structure
  with a cdev is whole and will not be undone, since the last label is behind
  (`OwnInv`); and the file refers to a structure with a cdev and the minor that
  was asked for. Overlapping calls may lose that structure from the list; that
  it is in the list, or about to be, as long as no two calls have overlapped
  (`overlap` records it), is `KnownInv`, which carries `MgrInv` along. TLC
  checked `FileInv` and `KnownInv` on two overlapping threads, and `MgrInv` with
  every refusal on one, first.

* `MainFindsMessages`: `OrdinarySpec => []DrainFindsMessages`, for the program
  with the semaphore, and as the property says for behaviours in which the
  device refused nothing. The counter of `mt_ordinary` is set *before* the
  writes and reads it announces, so it may promise more than is stored while a
  thread is in its section. `OrdInv` needs no sum over the threads: `SemInv`
  says that one thread at a time is inside, so at most one has announced more
  than it has done. `PromiseInv` says that, when nobody is inside, the counter
  is at most what is stored or main has read, and that inside the difference is
  what this thread still owes; `PhaseInv` that main reads only when all threads
  have ended. Reads that fail, and threads that end early because of it, can
  only leave more messages than promised. TLC checked `OrdInv` first, on the
  instance of the `ordinary` run with three messages and two writes. Nothing is
  claimed of `mt_ordinary_chaotic`, which has no semaphore.

Only model-checked: liveness under fairness (`DelayedIsPublished`,
`CallsReturn`, `AwakesSuffice`, `ProgramEnds`), which is outside the prover's
reach. Every safety property of a passing run, every action property and both
refinements are theorems. The properties of the runs that expect a violation
are false as stated; where a theorem says what remains true of them it is
listed above (`NoLostWakeupOnSC` for `NoneStranded`, `FlagsDoNotInterfere` for
`SleepUntilAwoken` on a device, `OneDeviceWithoutOverlap` for
`OneDevicePerGroup`).

## 5. Not modelled

* `IOCTL_MAX_MESSAGE_SIZE`, `group_release` and `group_flush`, and the argument
  checks of `set_send_delay` and `revoke_delayed_messages` in the library: they
  change no state.
* The C buffers of messages (`data[length] = 0` at `group_dev.c:656` writes one
  byte behind the allocation; `send_message` patches the caller's buffer at a
  `max_message_size` it has cached).
* Printing, which reads lists without locks and messages that may be freed.
* Non-atomic visibility inside one `list_add` or `list_del` of the device list:
  the list is taken as seen along the `next` links.
* The other test programs in `lib/`: straight sequences of calls, or the loops
  of `mt_ordinary` without its semaphore, counter and barrier.
* Several programs on one group. `Ordinary` is alone on its group and sets no
  delay; what several callers do to a device is the subject of `Messaging`.

## 6. Plan

The plan of this project is carried out: every component that keeps state is
modelled, and every safety property that a passing run checks is proved. What
would extend it:

1. `Ordinary` on a device with a send delay and several programs on one group,
   which needs a `DrainFindsMessages` that counts delayed messages.
2. The liveness properties, once they can be proved outside TLC: the ranking
   they need is the number of works ahead of a message (`Balance`) and the
   statements left in each critical section (`LockInv`).
