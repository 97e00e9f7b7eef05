----------------------------- MODULE GlobalFifo -----------------------------
(***************************************************************************)
(* The blocking FIFO character device of src/src/globalfifo/main.c: one    *)
(* hello_dev shared by every open file, its mutex, its two wait queues and *)
(* the tasks inside hello_read, hello_write, hello_ioctl and hello_poll.   *)
(*                                                                         *)
(* A task is at a label (pc) named after its function (r, w, c, p) and the *)
(* call it is about to make.  The kernel's services are modelled from how  *)
(* the code uses them: a mutex is not recursive; a wait queue is a list    *)
(* of entries with a spinlock of its own; add_wait_queue,                  *)
(* remove_wait_queue and wake_up take that spinlock, change or walk the    *)
(* list, and release it; a signal makes an interruptible sleeper runnable. *)
(*                                                                         *)
(* hello_read leaves through remove_wait_queue(&dev->w_wait, &wait) with   *)
(* an entry that is linked in r_wait: list_del unlinks it from r_wait, but *)
(* under the spinlock of w_wait.  Two tasks inside the same list at once   *)
(* is a data race: an addition that overlaps a removal can be lost, or     *)
(* leave the removed entry linked, on the stack of a call that returns.    *)
(* Such an entry is recorded in stale; from then on r_wait is torn, and    *)
(* whoever follows its links touches memory of a call that is over.        *)
(***************************************************************************)
EXTENDS Integers, Sequences

CONSTANTS
  Tasks,          \* tasks that use the device
  NoTask,         \* the owner of a free lock
  HELLODEV_SIZE,  \* capacity in bytes (0x1000 in the source)
  Bytes,          \* byte values, 0 among them
  ReadCounts,     \* bound: the byte counts user space asks to read
  WriteCounts,    \* bound: the byte counts user space asks to write
  Ops,            \* the system calls user space makes
  OverlapMoves    \* the build's memcpy copies overlapping areas like memmove

ASSUME GlobalFifoAssumption ==
  /\ NoTask \notin Tasks
  /\ HELLODEV_SIZE \in Nat \ {0}
  /\ 0 \in Bytes
  /\ ReadCounts \subseteq Nat
  /\ WriteCounts \subseteq Nat
  /\ Ops \subseteq {"read", "write", "ioctl", "poll"}
  /\ OverlapMoves \in BOOLEAN

EAGAIN == -11
EFAULT == -14
ERESTARTSYS == -512

VARIABLES
  mem,          \* dev->mem
  current_len,  \* dev->current_len
  mutex,        \* owner of dev->mutex
  wq,           \* wq["r"], wq["w"]: entries linked in dev->r_wait, dev->w_wait
  spin,         \* spin[q]: owner of the spinlock of wait queue q
  stale,        \* removed entries that a link of r_wait, or of an entry, still names
  oops,         \* memory of a dead entry was followed or written to some effect
                \* (fault, endless walk, foreign data): nothing more is specified
  state,        \* state[t]: the scheduler state of t
  sig,          \* sig[t]: t has a signal pending
  pc,           \* pc[t]: the call t is about to make
  count,        \* count[t]: the local count
  nonblock,     \* nonblock[t]: O_NONBLOCK is set in filp->f_flags
  ret,          \* ret[t]: the local ret
  rbuf,         \* rbuf[t]: what copy_to_user gave to t
  wbuf          \* wbuf[t]: the user buffer of t's write

device == <<mem, current_len>>
queues == <<wq, spin, stale, oops>>
locals == <<count, nonblock, ret, rbuf, wbuf>>
vars == <<device, mutex, queues, state, sig, pc, locals>>

(* Where a task can be: outside, or in one of the four calls.              *)
ReadLabels == {"r_lock", "r_add", "r_test", "r_sched", "r_relock", "r_copy",
               "r_shift", "r_wake", "r_out", "r_out2"}
WriteLabels == {"w_lock", "w_add", "w_test", "w_sched", "w_relock", "w_copy",
                "w_commit", "w_wake", "w_out", "w_out2"}
PollLabels == {"p_lock", "p_add_r", "p_add_w", "p_relock"}
Labels == {"idle", "c_lock", "c_clear"} \cup ReadLabels \cup WriteLabels \cup PollLabels

Queues == {"r", "w"}
Index == 0 .. HELLODEV_SIZE - 1

Lesser(m, n) == IF m < n THEN m ELSE n

Step(t, from, to) == pc[t] = from /\ pc' = [pc EXCEPT ![t] = to]

-----------------------------------------------------------------------------
(* Kernel services.                                                        *)

(* Labels at which a task is about to call mutex_lock, and where it goes   *)
(* once it owns the mutex.  p_relock is the second mutex_lock of           *)
(* hello_poll, after which it returns.                                     *)
MutexPoints == {"r_lock", "r_relock", "w_lock", "w_relock", "c_lock",
                "p_lock", "p_relock"}
AfterLock(l) ==
  CASE l = "r_lock" -> "r_add"   [] l = "r_relock" -> "r_test"
    [] l = "w_lock" -> "w_add"   [] l = "w_relock" -> "w_test"
    [] l = "c_lock" -> "c_clear"
    [] l = "p_lock" -> "p_add_r" [] l = "p_relock" -> "idle"

mutex_lock(t) ==
  /\ pc[t] \in MutexPoints
  /\ mutex = NoTask
  /\ mutex' = t
  /\ pc' = [pc EXCEPT ![t] = AfterLock(pc[t])]
  /\ UNCHANGED <<device, queues, state, sig, locals>>

mutex_unlock(t) == mutex' = NoTask

(* Labels at which a task is about to work on a wait queue, the queue      *)
(* whose spinlock the call takes, and the queue whose list it touches.     *)
WaitPoints == {"r_add", "r_wake", "r_out2", "w_add", "w_wake", "w_out2",
               "p_add_r", "p_add_w"}
SpinOf(l) == IF l \in {"r_add", "w_wake", "p_add_r"} THEN "r" ELSE "w"
ListOf(l) == IF l \in {"r_add", "w_wake", "p_add_r", "r_out2"} THEN "r" ELSE "w"

spin_lock(t) ==
  /\ pc[t] \in WaitPoints
  /\ spin[SpinOf(pc[t])] = NoTask
  /\ spin' = [spin EXCEPT ![SpinOf(pc[t])] = t]
  /\ UNCHANGED <<device, mutex, wq, stale, oops, state, sig, pc, locals>>

HoldsSpin(t) == pc[t] \in WaitPoints /\ spin[SpinOf(pc[t])] = t

spin_unlock(t) == spin' = [spin EXCEPT ![SpinOf(pc[t])] = NoTask]

(* The tasks that are inside the list of queue q at this moment.           *)
Inside(q) == {t \in Tasks : HoldsSpin(t) /\ ListOf(pc[t]) = q}

(* Where the other tasks inside t's list are.  On r_wait one removal may   *)
(* overlap one addition or one walk, whose spinlock is the other one.      *)
Overlaps(t) == {pc[u] : u \in Inside(ListOf(pc[t])) \ {t}}

(* The calls that have linked their entry in q and not yet removed it.     *)
Enlisted(q) ==
  {t \in Tasks : pc[t] \in IF q = "r"
                           THEN (ReadLabels \ {"r_lock", "r_add"}) \cup {"p_add_w", "p_relock"}
                           ELSE (WriteLabels \ {"w_lock", "w_add"}) \cup {"p_relock"}}

(* Some link leads from r_wait, or from an entry that was to be in it, to  *)
(* an entry that is gone.  Nothing repairs that.                           *)
Torn(q) == q = "r" /\ stale # {}

MayFault(c) == IF c THEN oops' \in BOOLEAN ELSE UNCHANGED oops

(* What an access to a torn list leaves: any of the live entries may still *)
(* be found from the head, and those in gone may be named by some link.    *)
TearList(q, live, gone) ==
  /\ \E found \in SUBSET live : wq' = [wq EXCEPT ![q] = found]
  /\ stale' = stale \cup gone
  /\ oops' \in BOOLEAN

(* add_wait_queue.  Overlapping a list_del of the first entry, either the  *)
(* new entry is lost, its next naming the entry removed, or it is linked   *)
(* in front of that entry.                                                 *)
list_add(t) ==
  LET q == ListOf(pc[t]) IN
  \/ /\ ~Torn(q)
     /\ wq' = [wq EXCEPT ![q] = @ \cup {t}]
     /\ UNCHANGED <<stale, oops>>
  \/ /\ Torn(q) \/ Overlaps(t) # {}
     /\ TearList(q, Enlisted(q) \cup {t}, Inside(q) \ {t})

(* remove_wait_queue.  The entry may stay linked when an addition overlaps *)
(* it, and an overlapping walk may already stand on it.  Removing an entry *)
(* whose own links are stale links what they name into the list.           *)
list_del(t) ==
  LET q == ListOf(pc[t]) IN
  \/ /\ ~Torn(q)
     /\ wq' = [wq EXCEPT ![q] = @ \ {t}]
     /\ MayFault("w_wake" \in Overlaps(t))
     /\ UNCHANGED stale
  \/ /\ Torn(q) \/ Overlaps(t) \ {"w_wake"} # {}
     /\ TearList(q, Enlisted(q) \ {t}, {t})

(* wake_up_interruptible: entries are not exclusive, all of them are woken *)
(* and none is unlinked.  A walk of a torn list may find dead entries and  *)
(* wake the tasks they were for.                                           *)
wake_up_none(t) == UNCHANGED <<state, stale>> /\ MayFault(Overlaps(t) # {})
wake_up(t) ==
  LET q == ListOf(pc[t]) IN
  /\ \E dead \in SUBSET {u \in stale : Torn(q)} :
       state' = [u \in Tasks |-> IF u \in wq[q] \cup dead THEN "RUNNING" ELSE state[u]]
  /\ MayFault(Torn(q) \/ Overlaps(t) # {})
  /\ UNCHANGED stale

(* A signal is sent to t while it is in a system call.                     *)
Signal(t) ==
  /\ pc[t] # "idle"
  /\ ~sig[t]
  /\ sig' = [sig EXCEPT ![t] = TRUE]
  /\ state' = [state EXCEPT ![t] = "RUNNING"]
  /\ UNCHANGED <<device, mutex, queues, pc, locals>>

(* memcpy(mem, mem + c, n): the possible contents of mem afterwards.  The  *)
(* areas overlap when 0 < c < n, and memcpy promises nothing then unless   *)
(* the build's implementation happens to move the bytes.                   *)
memcpy_down_skipped(c, n) == {mem}
memcpy_down(c, n) ==
  IF c = 0 \/ c >= n \/ OverlapMoves
  THEN {[i \in Index |-> IF i < n THEN mem[i + c] ELSE mem[i]]}
  ELSE {m \in [Index -> Bytes] : \A i \in n .. HELLODEV_SIZE - 1 : m[i] = mem[i]}

(* The system call of t returns to user mode; a pending signal is          *)
(* delivered there.  The locals die with the stack frame.                  *)
ReturnToUser(t) ==
  /\ pc' = [pc EXCEPT ![t] = "idle"]
  /\ sig' = [sig EXCEPT ![t] = FALSE]
  /\ count' = [count EXCEPT ![t] = 0]
  /\ nonblock' = [nonblock EXCEPT ![t] = FALSE]
  /\ ret' = [ret EXCEPT ![t] = 0]
  /\ rbuf' = [rbuf EXCEPT ![t] = << >>]
  /\ wbuf' = [wbuf EXCEPT ![t] = << >>]

-----------------------------------------------------------------------------
(* hello_read.                                                             *)

hello_read(t) ==
  /\ "read" \in Ops
  /\ Step(t, "idle", "r_lock")
  /\ \E c \in ReadCounts : count' = [count EXCEPT ![t] = c]
  /\ \E nb \in BOOLEAN : nonblock' = [nonblock EXCEPT ![t] = nb]
  /\ UNCHANGED <<device, mutex, queues, state, sig, ret, rbuf, wbuf>>

read_add_wait_queue(t) ==
  /\ Step(t, "r_add", "r_test")
  /\ HoldsSpin(t)
  /\ list_add(t)
  /\ spin_unlock(t)
  /\ UNCHANGED <<device, mutex, state, sig, locals>>

(* The test of the while loop, and its body up to schedule().              *)
read_test(t) ==
  \/ /\ current_len # 0
     /\ Step(t, "r_test", "r_copy")
     /\ UNCHANGED <<device, mutex, queues, state, sig, locals>>
  \/ /\ current_len = 0
     /\ nonblock[t]
     /\ Step(t, "r_test", "r_out")
     /\ ret' = [ret EXCEPT ![t] = EAGAIN]
     /\ UNCHANGED <<device, mutex, queues, state, sig, count, nonblock, rbuf, wbuf>>
  \/ /\ current_len = 0
     /\ ~nonblock[t]
     /\ Step(t, "r_test", "r_sched")
     /\ state' = [state EXCEPT ![t] = "INTERRUPTIBLE"]
     /\ mutex_unlock(t)
     /\ UNCHANGED <<device, queues, sig, locals>>

(* schedule() returns when t is runnable; a pending signal ends the call   *)
(* without taking the mutex again.                                         *)
read_schedule_wrong_goto(t) ==
  /\ state[t] = "RUNNING" \/ sig[t]
  /\ state' = [state EXCEPT ![t] = "RUNNING"]
  /\ Step(t, "r_sched", IF sig[t] THEN "r_out" ELSE "r_relock")
  /\ ret' = [ret EXCEPT ![t] = IF sig[t] THEN ERESTARTSYS ELSE @]
  /\ UNCHANGED <<device, mutex, queues, sig, count, nonblock, rbuf, wbuf>>
read_schedule_returns(t) ==
  /\ pc[t] = "r_sched"
  /\ state[t] = "RUNNING" \/ sig[t]
  /\ state' = [state EXCEPT ![t] = "RUNNING"]
  /\ \/ sig[t] /\ ReturnToUser(t)
     \/ ~sig[t] /\ Step(t, "r_sched", "r_relock") /\ UNCHANGED <<sig, locals>>
  /\ UNCHANGED <<device, mutex, queues>>
read_schedule(t) ==
  /\ state[t] = "RUNNING" \/ sig[t]
  /\ state' = [state EXCEPT ![t] = "RUNNING"]
  /\ \/ /\ sig[t]
        /\ Step(t, "r_sched", "r_out2")
        /\ ret' = [ret EXCEPT ![t] = ERESTARTSYS]
     \/ /\ ~sig[t]
        /\ Step(t, "r_sched", "r_relock")
        /\ UNCHANGED ret
  /\ UNCHANGED <<device, mutex, queues, sig, count, nonblock, rbuf, wbuf>>

(* count is cut down to what there is; copy_to_user may fault (unless      *)
(* there is nothing to copy) and then the device is left as it is.         *)
read_count(t) == Lesser(count[t], current_len)
read_copy_to_user(t) ==
  LET c == read_count(t) IN
  /\ count' = [count EXCEPT ![t] = c]
  /\ \/ /\ Step(t, "r_copy", "r_out")
        /\ c # 0
        /\ ret' = [ret EXCEPT ![t] = EFAULT]
        /\ UNCHANGED rbuf
     \/ /\ Step(t, "r_copy", "r_shift")
        /\ rbuf' = [rbuf EXCEPT ![t] = [i \in 1 .. c |-> mem[i - 1]]]
        /\ UNCHANGED ret
  /\ UNCHANGED <<device, mutex, queues, state, sig, nonblock, wbuf>>

read_consume(t) ==
  /\ Step(t, "r_shift", "r_wake")
  /\ mem' \in memcpy_down(count[t], current_len - count[t])
  /\ current_len' = current_len - count[t]
  /\ UNCHANGED <<mutex, queues, state, sig, locals>>

read_wake_up(t) ==
  /\ Step(t, "r_wake", "r_out")
  /\ HoldsSpin(t)
  /\ wake_up(t)
  /\ spin_unlock(t)
  /\ ret' = [ret EXCEPT ![t] = count[t]]
  /\ UNCHANGED <<device, mutex, wq, sig, count, nonblock, rbuf, wbuf>>

read_out(t) ==
  /\ Step(t, "r_out", "r_out2")
  /\ mutex_unlock(t)
  /\ UNCHANGED <<device, queues, state, sig, locals>>

(* remove_wait_queue(&dev->w_wait, &wait), then back to user mode.         *)
read_out2(t) ==
  /\ pc[t] = "r_out2"
  /\ HoldsSpin(t)
  /\ list_del(t)
  /\ spin_unlock(t)
  /\ state' = [state EXCEPT ![t] = "RUNNING"]
  /\ ReturnToUser(t)
  /\ UNCHANGED <<device, mutex>>

-----------------------------------------------------------------------------
(* hello_write.                                                            *)

hello_write(t) ==
  /\ "write" \in Ops
  /\ Step(t, "idle", "w_lock")
  /\ \E c \in WriteCounts : \E b \in [1 .. c -> Bytes] :
       /\ count' = [count EXCEPT ![t] = c]
       /\ wbuf' = [wbuf EXCEPT ![t] = b]
  /\ \E nb \in BOOLEAN : nonblock' = [nonblock EXCEPT ![t] = nb]
  /\ UNCHANGED <<device, mutex, queues, state, sig, ret, rbuf>>

write_add_wait_queue(t) ==
  /\ Step(t, "w_add", "w_test")
  /\ HoldsSpin(t)
  /\ list_add(t)
  /\ spin_unlock(t)
  /\ UNCHANGED <<device, mutex, state, sig, locals>>

write_test(t) ==
  \/ /\ current_len # HELLODEV_SIZE
     /\ Step(t, "w_test", "w_copy")
     /\ UNCHANGED <<device, mutex, queues, state, sig, locals>>
  \/ /\ current_len = HELLODEV_SIZE
     /\ nonblock[t]
     /\ Step(t, "w_test", "w_out")
     /\ ret' = [ret EXCEPT ![t] = EAGAIN]
     /\ UNCHANGED <<device, mutex, queues, state, sig, count, nonblock, rbuf, wbuf>>
  \/ /\ current_len = HELLODEV_SIZE
     /\ ~nonblock[t]
     /\ Step(t, "w_test", "w_sched")
     /\ state' = [state EXCEPT ![t] = "INTERRUPTIBLE"]
     /\ mutex_unlock(t)
     /\ UNCHANGED <<device, queues, sig, locals>>

write_schedule_ignores_signal(t) ==
  /\ state[t] = "RUNNING" \/ sig[t]
  /\ state' = [state EXCEPT ![t] = "RUNNING"]
  /\ Step(t, "w_sched", "w_relock")
  /\ UNCHANGED <<device, mutex, queues, sig, locals>>
write_schedule(t) ==
  /\ state[t] = "RUNNING" \/ sig[t]
  /\ state' = [state EXCEPT ![t] = "RUNNING"]
  /\ \/ /\ sig[t]
        /\ Step(t, "w_sched", "w_out2")
        /\ ret' = [ret EXCEPT ![t] = ERESTARTSYS]
     \/ /\ ~sig[t]
        /\ Step(t, "w_sched", "w_relock")
        /\ UNCHANGED ret
  /\ UNCHANGED <<device, mutex, queues, sig, count, nonblock, rbuf, wbuf>>

(* copy_from_user writes behind the live bytes.  When it faults after k    *)
(* bytes it fills the rest of the area with zeros.                         *)
write_count_of_empty(t) == Lesser(count[t], HELLODEV_SIZE)
write_count(t) == Lesser(count[t], HELLODEV_SIZE - current_len)
write_copy_from_user(t) ==
  LET c == write_count(t)
      Filled(k) == [i \in Index |->
                      IF i \in current_len .. current_len + c - 1
                      THEN IF i < current_len + k THEN wbuf[t][i - current_len + 1] ELSE 0
                      ELSE mem[i]]
  IN
  /\ count' = [count EXCEPT ![t] = c]
  /\ \/ /\ Step(t, "w_copy", "w_out")
        /\ \E k \in 0 .. c - 1 : mem' = Filled(k)
        /\ ret' = [ret EXCEPT ![t] = EFAULT]
     \/ /\ Step(t, "w_copy", "w_commit")
        /\ mem' = Filled(c)
        /\ UNCHANGED ret
  /\ UNCHANGED <<current_len, mutex, queues, state, sig, nonblock, rbuf, wbuf>>

write_commit(t) ==
  /\ Step(t, "w_commit", "w_wake")
  /\ current_len' = current_len + count[t]
  /\ UNCHANGED <<mem, mutex, queues, state, sig, locals>>

write_wake_up(t) ==
  /\ Step(t, "w_wake", "w_out")
  /\ HoldsSpin(t)
  /\ wake_up(t)
  /\ spin_unlock(t)
  /\ ret' = [ret EXCEPT ![t] = count[t]]
  /\ UNCHANGED <<device, mutex, wq, sig, count, nonblock, rbuf, wbuf>>

write_out(t) ==
  /\ Step(t, "w_out", "w_out2")
  /\ mutex_unlock(t)
  /\ UNCHANGED <<device, queues, state, sig, locals>>

write_out2(t) ==
  /\ pc[t] = "w_out2"
  /\ HoldsSpin(t)
  /\ list_del(t)
  /\ spin_unlock(t)
  /\ state' = [state EXCEPT ![t] = "RUNNING"]
  /\ ReturnToUser(t)
  /\ UNCHANGED <<device, mutex>>

-----------------------------------------------------------------------------
(* hello_ioctl with MEM_CLEAR (another command returns EINVAL and changes  *)
(* nothing) and hello_poll, which calls mutex_lock where it should unlock. *)

hello_ioctl(t) ==
  /\ "ioctl" \in Ops
  /\ Step(t, "idle", "c_lock")
  /\ UNCHANGED <<device, mutex, queues, state, sig, locals>>

ioctl_mem_clear(t) ==
  /\ pc[t] = "c_clear"
  /\ mem' = [i \in Index |-> 0]
  /\ mutex_unlock(t)
  /\ ReturnToUser(t)
  /\ UNCHANGED <<current_len, queues, state>>

hello_poll(t) ==
  /\ "poll" \in Ops
  /\ Step(t, "idle", "p_lock")
  /\ UNCHANGED <<device, mutex, queues, state, sig, locals>>

poll_wait(t) ==
  /\ HoldsSpin(t)
  /\ \/ Step(t, "p_add_r", "p_add_w")
     \/ Step(t, "p_add_w", "p_relock")
  /\ list_add(t)
  /\ spin_unlock(t)
  /\ UNCHANGED <<device, mutex, state, sig, locals>>

-----------------------------------------------------------------------------
Init ==
  /\ mem = [i \in Index |-> 0]
  /\ current_len = 0
  /\ mutex = NoTask
  /\ wq = [q \in Queues |-> {}]
  /\ spin = [q \in Queues |-> NoTask]
  /\ stale = {}
  /\ oops = FALSE
  /\ state = [t \in Tasks |-> "RUNNING"]
  /\ sig = [t \in Tasks |-> FALSE]
  /\ pc = [t \in Tasks |-> "idle"]
  /\ count = [t \in Tasks |-> 0]
  /\ nonblock = [t \in Tasks |-> FALSE]
  /\ ret = [t \in Tasks |-> 0]
  /\ rbuf = [t \in Tasks |-> << >>]
  /\ wbuf = [t \in Tasks |-> << >>]

ReadStep(t) ==
  \/ read_add_wait_queue(t) \/ read_test(t) \/ read_schedule(t)
  \/ read_copy_to_user(t) \/ read_consume(t) \/ read_wake_up(t)
  \/ read_out(t) \/ read_out2(t)

WriteStep(t) ==
  \/ write_add_wait_queue(t) \/ write_test(t) \/ write_schedule(t)
  \/ write_copy_from_user(t) \/ write_commit(t) \/ write_wake_up(t)
  \/ write_out(t) \/ write_out2(t)

(* What t does inside a system call.                                       *)
TaskStep(t) ==
  \/ mutex_lock(t) \/ spin_lock(t)
  \/ ReadStep(t) \/ WriteStep(t) \/ ioctl_mem_clear(t) \/ poll_wait(t)

(* What user space does.                                                   *)
Call(t) == hello_read(t) \/ hello_write(t) \/ hello_ioctl(t) \/ hello_poll(t)

Next == ~oops /\ \E t \in Tasks : TaskStep(t) \/ Call(t) \/ Signal(t)

Spec == Init /\ [][Next]_vars

(* The scheduler runs every runnable task; the mutex (hand-off to the      *)
(* first waiter) and the queued spinlocks are given to every task that     *)
(* keeps asking.  User space need not call anything, no signal need come.  *)
Fairness ==
  \A t \in Tasks :
    /\ WF_vars(~oops /\ TaskStep(t))
    /\ SF_vars(~oops /\ mutex_lock(t))
    /\ SF_vars(~oops /\ spin_lock(t))

FairSpec == Spec /\ Fairness

-----------------------------------------------------------------------------
(* Properties.                                                             *)

(* Every variable stays in its domain; in particular current_len never     *)
(* leaves 0 .. HELLODEV_SIZE, so mem is never accessed out of bounds.      *)
TypeOK ==
  /\ mem \in [Index -> Bytes]
  /\ current_len \in 0 .. HELLODEV_SIZE
  /\ mutex \in Tasks \cup {NoTask}
  /\ wq \in [Queues -> SUBSET Tasks]
  /\ spin \in [Queues -> Tasks \cup {NoTask}]
  /\ stale \subseteq Tasks
  /\ oops \in BOOLEAN
  /\ state \in [Tasks -> {"RUNNING", "INTERRUPTIBLE"}]
  /\ sig \in [Tasks -> BOOLEAN]
  /\ pc \in [Tasks -> Labels]
  /\ count \in [Tasks -> Nat]
  /\ nonblock \in [Tasks -> BOOLEAN]
  /\ ret \in [Tasks -> {EAGAIN, EFAULT, ERESTARTSYS} \cup Nat]
  /\ rbuf \in [Tasks -> Seq(Bytes)]
  /\ wbuf \in [Tasks -> Seq(Bytes)]

(* The mutex is held exactly by the task between its mutex_lock and its    *)
(* mutex_unlock: no path through the gotos of hello_read and hello_write   *)
(* unlocks a mutex it does not hold, touches the device without it, or     *)
(* leaves the function with it.                                            *)
Critical == {"r_add", "r_test", "r_copy", "r_shift", "r_wake", "r_out",
             "w_add", "w_test", "w_copy", "w_commit", "w_wake", "w_out",
             "c_clear", "p_add_r", "p_add_w", "p_relock"}
MutexDiscipline == \A t \in Tasks : mutex = t <=> pc[t] \in Critical

Asleep(t, l) == pc[t] = l /\ state[t] = "INTERRUPTIBLE"

(* No wake-up is lost.  A writer sleeping in schedule() is linked in       *)
(* w_wait, and unless the buffer is full a reader is about to wake it.  As *)
(* long as r_wait is not torn, a sleeping reader is linked in it, and      *)
(* unless the buffer is empty a writer is about to wake it.                *)
WriterWoken(t) ==
  Asleep(t, "w_sched") =>
    /\ t \in wq["w"]
    /\ current_len = HELLODEV_SIZE \/ \E u \in Tasks : pc[u] = "r_wake"
ReaderWoken(t) ==
  Asleep(t, "r_sched") /\ stale = {} =>
    /\ t \in wq["r"]
    /\ current_len = 0 \/ \E u \in Tasks : pc[u] = "w_wake"
NoLostWakeup == \A t \in Tasks : WriterWoken(t) /\ ReaderWoken(t)

(* A wait queue holds exactly the entries of the calls between their       *)
(* add_wait_queue and their remove_wait_queue: none on the stack of a call *)
(* that has returned, none missing, on every way out, the signal and       *)
(* O_NONBLOCK ones too.  w_wait keeps this whatever the readers that take  *)
(* its spinlock do; r_wait, although hello_read names the other queue,     *)
(* keeps it until an addition and a removal have overlapped and torn it.   *)
EntriesTracked == \A q \in Queues : Torn(q) \/ wq[q] = Enlisted(q)

(* What keeps current_len in its range: the count about to be taken out is *)
(* there, the count about to be committed fits, and copy_from_user reads   *)
(* no more than the user buffer holds.  Only the owner of the mutex        *)
(* changes current_len, so the clipped count is never stale when used.     *)
Clipped(t) ==
  /\ pc[t] = "r_shift" => count[t] =< current_len
  /\ pc[t] = "w_commit" => count[t] =< HELLODEV_SIZE - current_len
  /\ pc[t] \in {"w_lock", "w_add", "w_test", "w_sched", "w_relock", "w_copy"} =>
       Len(wbuf[t]) = count[t]
CountFits == \A t \in Tasks : Clipped(t)

(* hello_poll locks the mutex twice: a task that reaches its second        *)
(* mutex_lock never gets any further and no task ever gets the mutex again.*)
PollWedges ==
  [][\A t \in Tasks : pc[t] = "p_relock" =>
        mutex = t /\ mutex' = t /\ pc'[t] = "p_relock"]_vars

(* Under FairSpec: a writer stays asleep for good only if the buffer stays *)
(* full for good, and a reader only if it stays empty for good or r_wait   *)
(* is torn.                                                                *)
SleepsOnlyWhileBlocked ==
  \A t \in Tasks :
    /\ <>[]Asleep(t, "w_sched") => <>[](current_len = HELLODEV_SIZE) \/ <>oops
    /\ <>[]Asleep(t, "r_sched") => <>[](current_len = 0) \/ <>(stale # {}) \/ <>oops

(* Under FairSpec: a task with a signal pending gets out of its call,      *)
(* wherever the signal finds it, unless a poller has wedged the device.    *)
Wedged == \E t \in Tasks : pc[t] = "p_relock"
SignalledReturns == \A t \in Tasks : sig[t] ~> pc[t] = "idle" \/ oops \/ Wedged

-----------------------------------------------------------------------------
(* The refinement mapping.  A read takes effect when copy_to_user has      *)
(* succeeded, before the remaining bytes are moved to the front; a write   *)
(* when current_len is increased.                                          *)
Taken == IF mutex \in Tasks /\ pc[mutex] = "r_shift" THEN count[mutex] ELSE 0
Contents == [i \in 1 .. current_len - Taken |-> mem[i - 1 + Taken]]
Offered == [t \in Tasks |-> IF pc[t] \in {"w_lock", "w_add", "w_test", "w_sched",
                                          "w_relock", "w_copy", "w_commit"}
                            THEN wbuf[t] ELSE << >>]

Fifo == INSTANCE BoundedFifo WITH
          Users <- Tasks, Size <- HELLODEV_SIZE, Data <- Bytes,
          fifo <- Contents, src <- Offered, dst <- rbuf

(* With a memcpy that moves overlapping bytes the device is a bounded      *)
(* FIFO: every byte is accepted once, delivered once and in order, whoever *)
(* interleaves with whom and whichever calls fail.                         *)
ImplementsFifo == Fifo!Spec
=============================================================================
