# A TLA+ verification project for learnK

learnK is a collection of Linux kernel modules (C, for a 5.15 kernel on x86-64,
see `src/src/hook/README.md`): character and block devices, probes and hooks,
work queues, tasklets, timers, a string type and some containers. The modules
are independent of each other. What they have in common is that each one is
entered by several kernel actors at once: system calls of several tasks,
interrupts, workers, probe handlers, and the `rmmod` that takes everything away.
That is where this project puts its weight.

Every module here is translated from the source. The kernel itself is not in the
repository: mutexes, wait queues, kretprobes, ftrace, blk-mq and work queues are
modelled from how the code uses them, and each module's header says how.

## Inventory

| part | state | operations | who interferes | must be correct | module |
|---|---|---|---|---|---|
| `globalfifo/main.c` | `mem`, `current_len`, a mutex, wait queues `r_wait`, `w_wait` | read, write, ioctl, poll, llseek | tasks, wake-ups, signals, O_NONBLOCK, faulting user buffers | FIFO order, no overrun, mutex released on every path, no lost wake-up, entries linked exactly as long as their call needs them | `GlobalFifo` (llseek: `HelloCdev`) |
| `cdev/main.c` | `mem`, a mutex, `f_pos` of each open file | read, write, ioctl, llseek | tasks that share an open file | no access outside `mem`, whole copies, positions that advance | `HelloCdev` |
| init, exit, open, release of both devices | region, memory, `cdev`, locks | `hello_init`, `hello_exit` | users that open while the module loads or goes | the device outlives its files, locks exist before use | `Lifecycle` |
| `second/main.c`, `second/hrtimer.c` | a timer that starts itself again | start, callback, removal | the callback, against the removal | nothing fires after the unload, which ends | `Lifecycle` |
| `thread/main.c` | a kernel thread, a work queue, a work | start, thread, work, stop | thread and worker, against the unload | the same | `Lifecycle` |
| `hook/khook.c` | the pool of saved arguments, keyed by probe instance | entry handler, return handler, load, unload | mounts on all CPUs, unload | a return finds the arguments of its own call; no use after free | `KHook` |
| `hook/main.c` | three kprobes | pre and post handlers, load, unload | calls on all CPUs, unload | observing changes nothing | `Kprobes` |
| `ftrace/main.c` | the hook, its filter, the original's address | register, callback, hook function, unregister | mounts, unload | each mount carried out once, no endless recursion | `FtraceHook` |
| `bdev/main.c` | `ramblock_data`, tag set, disk, queues | `queue_rq`, init, exit | several requests in flight, tag reuse | own sectors only, each request ended, what is leaked | `RamBlock` |
| `bio/main.c` | a device, two buffers, bios | write and read back a sector at load | the disk and its other users | what was written is read back | `BioClient` |
| `netlink/` | a kernel socket; a C and a Go client | request, answer, bind, load, unload | clients with one port, clients that are killed | an answer reaches its asker, requests are given back | `Netlink` |
| `thread/fifo.c` | a ring of items, a work queue | enqueue, work handler, exit | the worker | order, no use after free, single free | `WorkFifo` |
| `tasklet/main.c` | tasklet, interrupt line, a counter that is only logged | irq handler, tasklet, exit | interrupts during unload | nothing runs when the module is gone | `Tasklet` |
| `string/main.c` | `str`, `len`, `cap` | new, join, grow, searches, substring, free | (sequential) | no write outside the buffer, growth ends | `StringView` |
| `list/` | rings of `list_head`, counts | list, queue, stack operations | (sequential) | links and count agree; a sequence of values | `Containers` |
| `map/`, `rbtree/`, `rhashtable/` | tables of the kernel | insert, find, remove, clear | (sequential) | order, nothing leaked | `Tables` |
| `dump/`, `vfs/`, `hello/`, `bio/hello.c`, Go tests | none that outlives a call | | | | none |

How they interact: `bio` is a client of a block device, and `BioClient` puts it on the
RAM disk of `bdev`; the netlink clients talk to the netlink module; `cdev`, `globalfifo`,
`second` and `thread/main.c` come and go alike (`Lifecycle`); `hook/khook.c`,
`hook/main.c` and `ftrace/main.c` are three ways to observe kernel functions. Otherwise
modules do not call each other. The hazards of each part, at their lines, are in
`PROJECT.json`.

## Modules

| module | models | state and actions |
|---|---|---|
| `BoundedFifo` | the promise of globalfifo | a sequence of bytes; offer, put, get, clear, each at one instant |
| `GlobalFifo` | `globalfifo/main.c` | one label (`pc`) per call that can block or be interleaved; the actions are named after the function and the call: `read_add_wait_queue`, `read_test`, `read_schedule`, `read_copy_to_user`, ... |
| `GlobalFifoProofs` | | theorems about `GlobalFifo`, among them the refinement of `BoundedFifo` |
| `HelloCdev` | `cdev/main.c`, and `hello_llseek` of globalfifo | the unlocked reads and writes of `f_pos` are steps of their own; the kernel's store of the position after a call (`store_pos`) is external; `stream` is a read or write of globalfifo as far as the position goes |
| `Lifecycle` | init and exit of `cdev`, `globalfifo`, `second`, `thread/main.c`, with open files, timer callbacks, thread and work | init and exit functions as sequences of resources, `held` for what exists; `returns` says when the call that gives a resource back returns |
| `KHook` | `hook/khook.c` | the pool as a function from instances to parameters; each critical section is a step |
| `Kprobes` | `hook/main.c` | a call goes through pre handler, post handler and body |
| `FtraceHook` | `ftrace/main.c` | a path_mount call goes through callback, hook function and original |
| `RamBlock` | `bdev/main.c` | requests in tags; one step per segment; init with the failure of each step |
| `BioClient` | `bio/main.c` on top of `RamBlock` | EXTENDS `RamBlock`; its bios are requests of the disk, and the disk's steps are joint steps (`Disk`) that fill `read_buffer` |
| `Netlink` | `netlink/` | clients from `socket` to `close`; `recv_cb` runs inside `sendto`; references to the request are counted |
| `WorkFifo` | `thread/fifo.c` | ring, work queue, worker, exit |
| `Tasklet` | `tasklet/main.c` | interrupt, tasklet and exit interleaved |
| `StringView` | `string/main.c` | the string's length, capacity and real buffer size; `string_growup` one round of its loop at a time; searches as recursive functions |
| `HelloCdevProofs`, `KHookProofs`, `NetlinkProofs`, `BioClientProofs` | | theorems about the module of that name; the last one also about `RamBlock` |
| `ProbesProofs` | | theorems about `FtraceHook`, and about `Kprobes` as `MCProbes` instantiates it |
| `UnloadProofs` | | theorems about `WorkFifo`, and about `Lifecycle` as `MCUnload` instantiates it |
| `StructuresProofs` | | theorems about `StringView`, and about `Containers` and `Tables` as `MCStructures` instantiates them |
| `Sequential` | the promise of the containers | a sequence of values; a list may break |
| `Containers` | `list/container.c`, `list/main.c` | `next` and `prev` pointers of nodes and head, poisoned after `list_del`; one action per function; `list_init` as a program of calls |
| `Tables` | `map/`, `rbtree/`, `rhashtable/` | a table is the sequence of its entries in the order the kernel walks them; a descent in a tree considers every shape; the demonstrations are programs of calls |
| `MCGlobalFifo`, `MCHelloCdev` | | a symmetry set, sets of offsets and of file descriptors for TLC |
| `MCStructures`, `MCProbes`, `MCUnload` | | several sequential structures, both kinds of hook, or the work queue FIFO and the modules of `Lifecycle` in one run: a variable says which one a behaviour is about |

Points of faithfulness worth knowing:

- **globalfifo leaves the wrong queue.** `hello_read` links its entry in `r_wait`
  and unlinks it with `remove_wait_queue(&dev->w_wait, ...)` (line 109). `list_del`
  does not look at the head, so the entry leaves `r_wait`, but under the spinlock
  of `w_wait`. `SpinOf` and `ListOf` say which lock each call takes and which list
  it touches. A removal may therefore overlap an addition to `r_wait`, or a walk along it.
  The four stores of `__list_add` and the two of `__list_del`, interleaved in every way, leave one of three
  results: both take effect; the new entry is lost and its `next` names the entry that was removed; or the removal
  is lost and the new entry leads to the removed one, on the stack of a call that returns. In the last two
  cases some link names a dead entry: `stale` has it, and the list is `Torn`. Nothing repairs that, and the
  damage spreads later, without any race: the removal of an entry with stale neighbours writes to the dead one and links it
  into the list, dropping whoever was there. So every later access to a torn list leaves *any* of the live entries
  reachable, may make another entry stale, may wake the task of a dead entry, and may end in `oops`: memory that now belongs to
  somebody else was followed or written to some effect, and nothing more is specified. Abstracted are the order of the entries (the race
  needs the removed entry to be the first, the model lets it happen at any place) and the
  single stores: whichever of two overlapping calls ends first decides the outcome.
  `EntriesTracked` is about both lists: `w_wait`, always changed under its own
  lock, holds exactly the entries of the calls between their `add_wait_queue` and their `remove_wait_queue`;
  `r_wait` does so until it is torn, whatever way out a call takes. A *reader* of a torn
  queue is exempt from `NoLostWakeup` and `SleepsOnlyWhileBlocked`: the code gives it no guarantee.
- **`hello_poll` locks twice** (line 185). This is modelled as it is: the task that
  polls never returns and keeps the mutex. `PollWedges` states it, and
  `SignalledReturns` exempts a wedged device.
- **`memcpy` over overlapping areas** (line 97) is undefined. `OverlapMoves` chooses
  between a build whose `memcpy` moves, for which the FIFO refinement is checked and proved,
  and any result in the area that is written.
- **A failing `copy_from_user`** leaves zeros behind the live bytes; MEM_CLEAR
  zeroes the bytes and keeps `current_len`. Both are in the refinement.
- **`do_div` in `string_growup`** stores the quotient and returns the remainder; the
  model does the same. Where the loop ends is what `ShortJoinReturns` (TLC) and `GrowthCorrect` (proved) say.
- **A string made with as many characters as its capacity** has its NUL behind the buffer (`overrun`); a later
  `strncat` starts at the NUL it finds, which may be anywhere (`oops`).
- **The string's structure is allocated with the size of a pointer.** `Clobbered`
  is the moment another user of the memory overwrites `len` and `cap`; from there
  on nothing is said.
- **`ramblock_process_request` ends a request it refuses and returns an error**, and the
  block layer ends the request again. If the tag has been given away in between,
  another request is ended while it is being served; `EarlyEndsBounded` bounds how often.
- **Positions of a list are off by one.** `link_list_insert` and `link_list_remove` use the
  successor of the node at the index, which for the last node is the head itself.
  `Containers` keeps the pointers: removing at the last index unlinks the head, after which
  the list is `Detached` and the next access faults. `ImplementsSequence` maps this to
  `broken`.
- **Allocations of the containers ask for the size of a pointer.** Each is either large
  enough by luck or fatal (`Fault`).
- **A failing `unregister_ftrace_function`** is logged and the module goes all the same (`ftrace/main.c` lines 145
  to 148): `ops` is `"stuck"`, the filter may or may not be removed, and a mount that then gets to the callback faults.
- **A pre handler that returns -EFAULT** tells kprobes that it has changed where the task
  goes on. It has not: the task is `astray`, and the model stops there.
- **`PTR_ERR_OR_ZERO(NULL)` is 0** (`hook/main.c` line 72): memory that could not be had is written to.
- **`search` of the interval tree** returns an uninitialised pointer if nothing
  overlaps: nothing happens (it is NULL) or the model stops.
- **`del_timer_sync` and `hrtimer_cancel`** try again while the callback runs and then take
  the timer that the callback has made pending; `returns_del_timer`, the mutant, is
  what `del_timer` would do.

## Runs

Eleven runs; every property of a passing run has a mutant in `PROJECT.json`, a
plausible bug in a mapped definition under which TLC finds it violated.

| run | what it asks | bounds and why they are enough |
|---|---|---|
| `fifo` | mutex discipline, lost wake-ups, entries of wait queues; sleeping only while blocked, signals, poll | 2 tasks: a sleeper and one that wakes it, or that races with it on a list; a device of 1 byte is full after one write and empty after one read. The theorems show the safety part for any number of tasks |
| `fifo_refines` | bounds of counts; `BoundedFifo` is implemented | 2 tasks, 3 bytes, writes of 2, reads of 1: writes are cut, the remaining bytes overlap when they move down; 2 byte values tell order and zeros. More tasks are out of TLC's reach; `FifoRefinement` proves the refinement for any number |
| `cdev` | bounds of each access, whole copies, positions, termination | 2 tasks on one file or on two, 2 bytes, an unsigned int of 4 values so that 5 is cut to 1; `MaxSeekCur` bounds the number of SEEK_CUR calls, which can take a raced `f_pos` any distance |
| `khook` | arguments do not get mixed up, memory, the unload | 3 tasks for 2 instances, so that instances are missed; 3 mounts in all, so that one is reused for another mount while a third is under way. The theorems are for any number of each |
| `khook_flags` | *violation*: the saved flags are not the flags of the mount | 1 task, 2 flag values |
| `probes` | ftrace: each mount once, recursion, unload; kprobes: handlers and unload, what observing costs | 2 tasks, 2 calls each; texts that end before, at and after the count, and one longer than `PATH_MAX` (3) |
| `ramblock` | client: reads back what it wrote; disk: ends of requests, leaks | 2 tags, 2 requests of the client and 1 of somebody else (a refused tag can be reused); starts inside, at the end and at the wrap of the byte offset; a client sector that exists or not |
| `netlink` | answers, references, waiting | 2 C clients with one port, 1 Go client, each started twice and killed at any time; `requests` counts what was sent, which bounds what `recv_cb` leaks |
| `unload` | work queue FIFO: worker against exit, the ring at its limit, double free; `Lifecycle`: nothing outlives what it uses; unloads end | a ring of 5 and 7 items; the source has 10 and 3, so the full ring is reached here and would not be there. All five modules of `Lifecycle`, 3 users of a device, no bound on time |
| `tasklet` | *violation*: the tasklet is released before the module is gone | 3 interrupts |
| `structures` | string: joins at the boundaries, searches against a reference; containers: the ring, the refinement of `Sequential`; tables: descents, entries | GROW 4 and HALF 8 for 4096 and 8192, capacities on both sides, strings up to 12; 4 nodes, indexes from -1, two values, a text buffer the fourth value does not fit in; 3 keys and 4 entries, 3 entries for the 1000 of the rhashtable demonstration |

`MCStructures`, `MCProbes` and `MCUnload` run unrelated models next to each other only to share a run; each
property names the one it is about, or holds of the others because they do not move.

Deadlock checking is off where the system may really stop: a module that is gone, a
fault that is final, user space that never calls, a device wedged by poll.

### What the two violation runs show

- `tasklet_demo_exit` kills the tasklet while the interrupt handler is still
  registered. An interrupt before `free_irq` schedules it again, and it is still
  scheduled, or running, when the module's memory is gone. The comment
  on the call says "禁用并释放 tasklet" (disable and release the tasklet). The other order,
  `free_irq` first, does not have this window.
- `pt_regs_params(regs, 3)` reads `r10`, where a *system call* has its fourth argument;
  `path_mount` is called as a function and has it in `cx`. The logged flags are what
  happened to be in `r10`.

### What passing properties say about known weak spots

Some passing properties describe what the code does where it falls short, exactly
and with its limits. They do not forbid the defect, which the code has; they forbid that it gets larger, or is met
anywhere else. The notes of the hazards in `PROJECT.json` say the same for each of them.

- `PollWedges`: a task that polls wedges the device, for good.
- `EntriesTracked`, `NoLostWakeup`: `r_wait` can be torn, by an addition that overlaps a removal and by nothing else; `w_wait` never.
- `ImplementsFifo`: claimed for a `memcpy` that moves overlapping bytes.
- `NothingOutlives`: only globalfifo can be used before its locks are initialised.
- `ItemLifetime`: every item is freed by its work and again at exit.
- `MemoryAccounted`: arguments lost by an unload, a path buffer per mount.
- `FaultOnlyInHook`: a task inside the hook function, or in the callback of a hook that ftrace has refused to unregister, gets to code that is gone; with a hook that is unregistered nobody is in the callback.
- `ProbesHarmless`: only writes to test.txt are wrecked by being observed, two kinds of call leak a path.
- `EarlyEndsBounded`: no more requests are ended by others than were refused.
- `Leaks`: what a failed `ramblock_init`, `ramblock_exit` and the bios of `bio` leave behind.
- `ReadsBack`: success is reported for a sector that does not exist.
- `JoinStaysInside`: the only string with a NUL outside is one made with as many characters as its capacity.
- `RingIntact`, `ImplementsSequence`: a list can lose its head, by `link_list_remove` only.
- `EntriesAccounted`: one entry of the rhashtable demonstration is lost.
- `AnsweredUnlessNoMemory`: a client that gets no answer waits for good.

That a growth to 8192 characters or more never ends is a theorem (`GrowthCorrect`) and not a
property of a run: no plausible further bug would make it end.

## Fairness

- `GlobalFifo`: weak fairness of each task's steps inside a call (the scheduler runs every runnable
  task); strong fairness of taking the mutex and the spinlocks (the kernel's mutex
  hands off to a waiter that keeps failing, its spinlocks are queued). Nothing makes
  user space call, and nothing makes a signal come.
- `HelloCdev`: the same, without spinlocks.
- `KHook`, `WorkFifo`: tasks and the worker are scheduled, and an `rmmod` that has begun
  goes on; nothing makes it begin.
- `FtraceHook`, `Kprobes`: a task inside a call goes on, and an `rmmod` that has begun goes on.
- `Lifecycle`: callbacks, thread and work are scheduled and end; a failing init goes on. Strong
  fairness of the unload: `del_timer_sync` polls all the time, and the callback of a
  periodic timer is not running for 0.5 or 2 seconds between two runs, so the poll
  meets it idle although "not running" is not stable.
- `BioClient`: insmod is scheduled, and the block layer runs each tag until the request is ended.
- `Netlink`: a client that has been started is scheduled. Nobody needs to be killed,
  and allocations need not succeed.
- `StringView`: a call that has begun goes on.

`Tasklet`, `Containers` and `Tables` have no liveness properties and no fairness.

## Proofs

Eight modules hold theorems. Each is proved for every value of the constants that satisfies the
module's assumptions, so the bounds of the runs do not limit it: the bounds on the
number of calls are constants of the models, and the proofs hold for all of them. Every proof has the same shape: an
inductive invariant that is true initially and kept by each action, one step (or lemma) per
action, and the property as a consequence. The safety theorems are about `Spec`; `FairSpec`
implies it.

### globalfifo (`GlobalFifoProofs`)

For every set of tasks, size of the buffer, set of bytes and counts that
satisfy `GlobalFifoAssumption`; all but the last for both kinds of `memcpy`:

| theorem | says |
|---|---|
| `TypeCorrect` | `TypeOK`, in particular `current_len` in `0 .. HELLODEV_SIZE` |
| `MutexCorrect` | the mutex is held exactly between lock and unlock on each path |
| `CountCorrect` | the clipped counts are still right when used |
| `EntriesCorrect` | `EntriesTracked`: `w_wait` always, and `r_wait` until it is torn, holds exactly the entries of the calls that have added theirs and not yet removed it |
| `WakeupsCorrect` | no wake-up of a writer is lost, and none of a reader as long as `r_wait` is not torn |
| `PollCorrect` | the action property `PollWedges`: a task at the second lock of `hello_poll` never moves and never lets the mutex go |
| `FifoRefinement` | if `memcpy` moves overlapping bytes (`OverlapMoves`), the device implements `BoundedFifo` |

The inductive invariant is `IInv`, the conjunction of `TypeOK`, `MutexDiscipline`,
`CountFits`, `EntriesTracked` and `NoLostWakeup`. None but the second
stands alone: `TypeOK` needs `CountFits`, since `current_len - count` is a
natural number only if the count was clipped; `CountFits` needs `MutexDiscipline`, since only the
owner of the mutex changes `current_len` between the clipping and the use;
`NoLostWakeup` needs `EntriesTracked`, since a task that is not linked is not woken, and
needs to know that a task that changes `current_len` goes on to its `wake_up`.
`EntriesTracked` needs that `w_wait`'s list is only touched under `w_wait`'s lock, so that
nothing overlaps on it (lemma `NoRaceOnW`).

The refinement maps `fifo` to the live bytes of `mem` (without those that the owner of the mutex has
copied out but not yet removed), `src` to the buffer of a
writer that has not committed and `dst` to what a reader has received. It is a step simulation: a successful `copy_to_user`
is the abstract `Get`, the increase of `current_len` is `Put`, and
everything else, the moving down of the remaining bytes included, is `Offer`, `Withdraw`, `Return`, `Clear` or a stutter. It needs `RInv`, which adds to `IInv`
for each task (`Copied`) that the test of its `while` loop
still holds when it is acted upon (so `Get` and `Put` are enabled), that the bytes
behind the live ones are what the writer offered when it commits them, and that a read has
nothing to show before it has copied. That is where the mutex matters again: a lemma
(`CopiedFrame`) shows that no other task gets in between. The `View` lemmas
say what becomes of the live bytes under each kind of change to `mem`; `StepKinds`
splits the steps into those that the abstract device does not see (`Moves`) and those that it does, for each of which
there is one lemma (`...Refines`).

### cdev (`HelloCdevProofs`)

For any tasks, open files and sharing of them, any size, counts, offsets and width of an unsigned
int that is larger than the device:

| theorem | says |
|---|---|
| `AccessInBoundsTheorem` | no copy leaves `mem`, whatever a race has left in `f_pos` |
| `CopiesAreWholeTheorem` | no other write and no MEM_CLEAR gets in between the bytes of a copy |
| `SolePositionTheorem` | an action property: the position of a file with a single user stays in the device and moves on by what was copied |

The invariant says of each task that its position and count fit (`InBounds`), that it copies only with the mutex
held (`Locked`), that what it has copied agrees with `mem` (`Agrees`), and, if nobody shares its file, how
its copy of the position relates to `f_pos` at each label (`Position`). The last part is what
`SolePosition` lacks: the three unlocked looks at `f_pos` in `hello_llseek` see the same value only
because nobody else stores one.

### khook (`KHookProofs`)

For any tasks, any finite set of instances (`maxactive` is a number) and any number of mounts:

| theorem | says |
|---|---|
| `OwnArgumentsTheorem` | a return handler gets the arguments of its own mount, and the `-EEXIST` that `insert_params` ignores does not happen |
| `MemoryAccountedTheorem` | no handler is inside when the pool is freed; what is lost is bounded by the instances, the path buffers by the mounts |

`OwnArguments` looks only at the moment after the lookup. The invariant says where it comes from: no two calls have the
same instance (`InstancesExclusive`); the entry under a call's instance is that call's, and is
there only between its two handlers (`EntriesOwned`); and while the probe is armed there is no
entry without a call (`NoOrphan`), so that an instance that is handed out again has no old entry. This last part fails during an
unload, when calls lose their instances but not their entries; then no instance is handed out.
`UnloadOrdered` has the order of the unload, and `PathsCounted` counts with sets of instances (`Keeping`, `Starting`), since saved arguments and
path buffers do not come into being in one step.

### ftrace and kprobes (`ProbesProofs`)

For any tasks and number of calls, any texts, counts and `PATH_MAX`:

| theorem | says |
|---|---|
| `MountedOnceTheorem` | each mount is carried out once, or not at all and reported as `-ENOMEM`, also when the hook comes or goes in the middle |
| `FaultOnlyInHookTheorem` | unless ftrace refuses to unregister the hook, nobody is in the callback or can get there when the module is gone; nobody enters the hook before the original's address is known, and nothing faults while the module is there |
| `ProbesDrainedTheorem` | no kprobe handler is running when the module is gone |
| `ProbesHarmlessTheorem` | only writes to test.txt go astray; only two kinds of call keep a path buffer, and one each |

For ftrace the invariant relates each task's place to how often the body has run and whether the hook has been passed (`Progress`), and the
registration to the address and the running callbacks (`HookOrdered`). For the kprobes,
`PassedInOrder` says that the probes that `hook_exit` has passed are disarmed and drained and stay
so, `Observed` which call can be at which handler and what it holds.

### Unloads (`UnloadProofs`)

For a ring of any size, any number of items, and any number of users of the devices:

| theorem | says |
|---|---|
| `RingHoldsItemsTheorem` | thread/fifo: the ring holds the items in order, and all of them as long as the module is loaded |
| `ItemLifetimeTheorem` | thread/fifo: no work touches a freed item; every item has been freed exactly twice when the module is gone |
| `NothingOutlivesTheorem` | the modules of `Lifecycle`: a file finds its device, a work its queue; nothing runs, is pending or is held when the module is gone; only globalfifo can be used before its locks are initialised |

In thread/fifo the key is that nothing but the end of `workfifo_exit` moves `fifo_head`: the ring never wraps
(`RingFilled`), so slot `i` holds item `i + 1` for good, the freed ones included. `WorkInOrder` says
that the works that are left are those of the last items, and `FreedTwice` counts the frees of each item exactly.

`NothingOutlives` does not say why, and is not inductive. `HeldBySteps` says what each of
the init and exit functions holds at each of its steps, the failing ones included, and `RunningIsHeld` that what
runs or is pending has not been waited for yet. A timer that its callback has started again is the
interesting case: `del_timer_sync` gives the timer back only when it is neither running nor pending.

### bdev and bio (`BioClientProofs`)

For any capacity of the disk, any number of tags, requests and sectors of the client:

| theorem | says |
|---|---|
| `EarlyEndsTheorem` | no more requests are ended by somebody else than the code that serves them than were refused |
| `DiskAloneTheorem` | the same of the disk without its client, with the invariant it rests on |
| `ReadsBackTheorem` | a client that succeeds has read what it wrote, unless somebody else wrote to its sector; on a disk without that sector, a buffer nobody filled |
| `LeaksTheorem` | what the disk and its client leave allocated on each way out; the disk does not go away while it is open |

For the disk, `TagsOwned` says that no two tags serve the same request, `Served` that a request is
copied only if it lies on the disk (so its offset does not wrap) and fails only if it does not, and `HeldBySteps` what
`ramblock_init` holds after each step. `EarlyEndsBounded` counts two finite sets, the tags whose request
can still be ended a second time and the requests that were; each second end moves one from the first to the second.

For the client, `HelloThere` says where the bytes are: on the sector once the write has been carried out, in
the buffer once the read has. Its difficulty is that the request of the client can be ended early, by the second
end of a refused request of somebody else, and the client goes on: what it relies on is that a request
of one sector has been moved, or has lost its tag, by the time its end is seen (`Waits`, `Carried`).

### netlink (`NetlinkProofs`)

For any finite sets of C and Go clients, started and killed any number of times:

| theorem | says |
|---|---|
| `AnswerReachesAskerTheorem` | the queue of a socket never holds anything but one answer to the request made over it |
| `RequestsGivenBackTheorem` | no client is back in user mode with a reference to its request; nothing is under way when the module is unloaded; the leaked parameters are at most one per request |

The invariant adds who owns a port (`PortsOwned`: the answer goes to a port, and it reaches the asker because the asker is still
bound to it, as `recv_cb` runs inside its `sendto`), how many references there are at each
label (`References`), when the queue is empty (`Queue`), that a socket holds the module
(`Holds`), and for the leak that requests that have not got to the allocation yet are counted already.

### string, containers and tables (`StructuresProofs`)

For every `GROW`, set of texts and capacities; any number of nodes, any values, indexes and text buffer;
any integer keys and any number of entries of the tables (`StringViewAssumption`, `StructuresAssumption`):

| theorem | says |
|---|---|
| `TypeCorrect` | types of the string's fields |
| `JoinCorrect` | `string_join` writes inside its buffer, unless the string was already overrun when it was made |
| `GrowthCorrect` | a join that must grow to HALF characters or more never leaves `string_growup` |
| `SearchesTheorem` | index, last index, has-substring, prefix, suffix and substring agree with the set of occurrences, for strings of any length |
| `RingTheorem` | head and nodes form one ring in both directions and the count is right, unless `link_list_remove` has unlinked the head; `list_init` never does and leaks one node |
| `SequenceTheorem` | the containers implement `Sequential`, step by step |
| `TreeFindsTheorem` | insert and search come to the same place in a tree of whatever shape, which stays sorted |
| `EntriesAccountedTheorem` | what is allocated is in its table, but for one entry of the rhashtable demonstration and what the interval tree demonstration leaves |

These models walk along strings, rings and trees with recursive functions. The induction theorems
of the library cannot be instantiated, but one fact that takes no operator can be proved from the
well-foundedness of the order of the natural numbers (lemma `Least`): every nonempty set of naturals has a least
element. So what a recursive function computes is proved by taking the least
argument (the distance that is left to scan, the hop along the ring, the size of the subtree) at
which it would be wrong, and unfolding it once there. A recursive function is a `CHOOSE`,
so its existence must be shown too, by exhibiting one: the
sets `Ends` for a descent, a function put together from the occurrences for a scan, one more hop on top of a
shorter walk.

*Containers.* The invariant names the ring by a witness: `Ring(q, n)` says that `q` lists the
`n` different live nodes in their order, with the head at both ends, and that `next` and `prev` agree with it.
`RingGrows` and `RingShrinks` say what `list_add` and `list_del` at place `j` make of `q`; every
function of the containers is one of them, a look, a fault or a refusal (`Grown`, `Shrunk`, `Declined`, `Faulted`).
`ContainersInv` has that the container is `Whole` (nothing, a ring, or a list that has lost its head), and, for the claim about
`list_init`, a table of the kind, size, count and number of allocated nodes at each of its 38 calls
(`KindAt`, `SizeAt`, `CountAt`, `LiveAt`), unless a fault has stopped it. `CountAt` differs from `SizeAt` at one place: the
insert of `list_init` adds a node and does not count it.
For the refinement, `SeenAlways` shows that what `list_for_each` visits is
`Listed(q, n)`, so an insertion into `q` is an insertion into the abstract sequence.

*Tables.* `Ends(key, lo, hi)` is where a descent between two places may end: at the key, or where it
belongs. `StepDown` shows that a step below any root stays inside of it, and
`DescendEnds` by the size of the subtree that each descent ends there. `TInv` adds that ids differ, that the
tree is `Sorted`, what is allocated at each point of a demonstration (`Lives`), and that all but the
interval demonstration end with an empty table (`Over`).

Three places of the models were changed on the way. `Length` of `Containers` chose any number of hops
that leads back to the head, where the first is meant; TLC had happened to choose that one. The descent of
`Tables` is now a function of a pair of places rather than of two arguments, and `MCStructures` states what
the instantiated models take for granted of their constants (`StructuresAssumption`).

### Only model-checked

- All liveness properties, since fairness and ENABLED are out of the prover's reach: `SleepsOnlyWhileBlocked`,
  `SignalledReturns`, `CallsReturn`, `UnloadEnds`, `ModulesUnload`, `HooksReturn`, `RequestsEnd`,
  `AnsweredUnlessNoMemory`, `ShortJoinReturns`. Every other property of a passing run is stated by a theorem.
- `SavedFlags` and `TaskletReleased`, which are violated.

## Not modelled

- The text of log messages and paths; the contents of strings passed to the probes.
- What the allocator does after a double free, what a task does after it has returned to code
  that is gone, what foreign memory that a broken wait list leads to contains: the model stops in `oops`, `fault`, `astray` or counts
  the event.
- Sleeping allocations under a spinlock or in a probe handler (`khook.c` line 102, `hook/main.c` line 31),
  and `vmalloc` and `kmap` in the `queue_rq` of the RAM disk, which is registered without `BLK_MQ_F_BLOCKING`:
  that they may sleep in atomic context is not a state of the models.
- Weak memory: each step is sequentially consistent. The code's shared state is
  under a lock, except `f_pos` and the list of `r_wait`, whose single loads and
  stores are steps of their own or a nondeterministic race.
- The calls that the module body of `string/main.c` makes: with the real 4096 and 8192 they stay far
  below the boundaries, with the small ones of the model they would not. Any joins of the
  model's texts are made instead.
- `build_string` of `list/container.c`, which nobody calls and whose recursion has no end;
  `nl_bind` of the netlink module, which logs and is called for multicast groups only.
- The balancing of trees, hashing, and the resizing of the rhashtable: they belong to the kernel.
- `dump/`, `vfs/`, `hello/`, `bio/hello.c` and the Go test programs: straight-line code that logs or does I/O.

## Plan

1. Done: models of all parts of the inventory but the last row.
2. Done: every safety property of the passing runs, the action properties, and the step simulations of `BoundedFifo` and
   `Sequential` as theorems.
3. Open: the hazards without a property (`PROJECT.json`), which need a model of allocation contexts and of
   uninitialised memory.
