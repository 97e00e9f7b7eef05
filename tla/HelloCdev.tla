----------------------------- MODULE HelloCdev -----------------------------
(***************************************************************************)
(* The memory character device of src/src/cdev/main.c: mem and its mutex,  *)
(* and for every open file a position f_pos.                               *)
(*                                                                         *)
(* read(2) and write(2) hand the handler a copy of f_pos and store it back *)
(* when the handler did not fail; for a character device nothing locks     *)
(* f_pos meanwhile, so tasks that share an open file race on it, and with  *)
(* hello_llseek, which works on filp->f_pos itself.  The copies between    *)
(* mem and user space proceed byte by byte with the mutex held.            *)
(*                                                                         *)
(* The device of src/src/globalfifo/main.c has the same hello_llseek over  *)
(* read and write handlers that never look at their position.  Its files   *)
(* are modelled here as far as f_pos goes; GlobalFifo models the rest.     *)
(***************************************************************************)
EXTENDS Integers, Sequences

CONSTANTS
  Tasks,          \* tasks that use the device
  NoTask,         \* the owner of the free mutex
  Files,          \* open files of the device
  Fds,            \* which open file each task may have, alone or with others
  HELLODEV_SIZE,  \* bytes of mem (0x1000 in the source)
  UINT_RANGE,     \* number of values of an unsigned int (2^32)
  Bytes,          \* byte values, 0 among them
  Counts,         \* bound: the sizes that user space asks for
  Offsets,        \* bound: the offsets that user space seeks to
  MaxSeekCur      \* bound: how often SEEK_CUR is called; races of it make f_pos drift

ASSUME HelloCdevAssumption ==
  /\ NoTask \notin Tasks
  /\ Fds \subseteq [Tasks -> Files]
  /\ HELLODEV_SIZE \in Nat \ {0}
  /\ UINT_RANGE \in Nat /\ UINT_RANGE > HELLODEV_SIZE
  /\ 0 \in Bytes
  /\ Counts \subseteq Nat
  /\ Offsets \subseteq Int
  /\ MaxSeekCur \in Nat

VARIABLES
  driver,  \* "cdev" or "globalfifo"
  fd,      \* fd[t]: the open file that t uses, shared after a fork or not
  mem,     \* dev->mem
  mutex,   \* owner of dev->mutex
  seeks,   \* SEEK_CUR calls made so far
  f_pos,   \* f_pos[f]: filp->f_pos
  pc,      \* pc[t]: what t does next
  pos,     \* pos[t]: *ppos, or the value of f_pos that t has loaded
  count,   \* count[t]: the local count; the offset of a seek
  done,    \* done[t]: bytes copied so far
  buf      \* buf[t]: the user buffer

vars == <<driver, fd, seeks, mem, mutex, f_pos, pc, pos, count, done, buf>>
frame == <<pos, count, done, buf>>

Index == 0 .. HELLODEV_SIZE - 1

Goto(t, from, to) == pc[t] = from /\ pc' = [pc EXCEPT ![t] = to]

Return(t) ==
  /\ pc' = [pc EXCEPT ![t] = "idle"]
  /\ pos' = [pos EXCEPT ![t] = 0]
  /\ count' = [count EXCEPT ![t] = 0]
  /\ done' = [done EXCEPT ![t] = 0]
  /\ buf' = [buf EXCEPT ![t] = << >>]

-----------------------------------------------------------------------------
(* hello_read and hello_write up to mutex_lock: count is cut down to what  *)
(* lies between p and the end, and at the end the call returns 0.  The     *)
(* kernel refuses a negative position before it calls the handler.         *)
clip_missing(p, c) == c
clip(p, c) == IF c > HELLODEV_SIZE - p THEN HELLODEV_SIZE - p ELSE c

Enter(t, c, b, label) ==
  LET p == f_pos[fd[t]] IN
  /\ p >= 0
  /\ Goto(t, "idle", IF p >= HELLODEV_SIZE THEN "ret" ELSE label)
  /\ pos' = [pos EXCEPT ![t] = p]
  /\ count' = [count EXCEPT ![t] = IF p >= HELLODEV_SIZE THEN 0 ELSE clip(p, c)]
  /\ buf' = [buf EXCEPT ![t] = b]
  /\ UNCHANGED <<mem, mutex, f_pos, done>>

hello_read(t) == \E c \in Counts : Enter(t, c, << >>, "r_lock")
hello_write(t) == \E c \in Counts : \E b \in [1 .. c -> Bytes] : Enter(t, c, b, "w_lock")

Inner(l) == CASE l = "r_lock" -> "r_copy" [] l = "w_lock" -> "w_copy" [] l = "c_lock" -> "c_clear"

mutex_lock_missing(t) ==
  /\ pc[t] \in {"r_lock", "w_lock", "c_lock"}
  /\ pc' = [pc EXCEPT ![t] = Inner(pc[t])]
  /\ UNCHANGED <<mem, mutex, f_pos, frame>>
mutex_lock(t) ==
  /\ pc[t] \in {"r_lock", "w_lock", "c_lock"}
  /\ mutex = NoTask
  /\ mutex' = t
  /\ pc' = [pc EXCEPT ![t] = Inner(pc[t])]
  /\ UNCHANGED <<mem, f_pos, frame>>

(* copy_to_user: a byte at a time; it may fault, and the call fails.       *)
copy_to_user_keeps_mutex(t) ==
  /\ pc[t] = "r_copy"
  /\ done[t] < count[t]
  /\ Return(t)
  /\ UNCHANGED <<mem, mutex, f_pos>>
copy_to_user(t) ==
  /\ pc[t] = "r_copy"
  /\ done[t] < count[t]
  /\ \/ /\ buf' = [buf EXCEPT ![t] = Append(@, mem[pos[t] + done[t]])]
        /\ done' = [done EXCEPT ![t] = @ + 1]
        /\ UNCHANGED <<mutex, pc, pos, count>>
     \/ mutex' = NoTask /\ Return(t)
  /\ UNCHANGED <<mem, f_pos>>

(* copy_from_user: on a fault the rest of the area is filled with zeros.   *)
copy_from_user(t) ==
  /\ pc[t] = "w_copy"
  /\ done[t] < count[t]
  /\ \/ /\ mem' = [mem EXCEPT ![pos[t] + done[t]] = buf[t][done[t] + 1]]
        /\ done' = [done EXCEPT ![t] = @ + 1]
        /\ UNCHANGED <<mutex, pc, pos, count, buf>>
     \/ /\ mem' = [i \in Index |-> IF i \in pos[t] + done[t] .. pos[t] + count[t] - 1
                                   THEN 0 ELSE mem[i]]
        /\ mutex' = NoTask
        /\ Return(t)
  /\ UNCHANGED f_pos

(* Everything is copied: *ppos += count, ret = count, mutex_unlock.        *)
copied(t) ==
  /\ pc[t] \in {"r_copy", "w_copy"}
  /\ done[t] = count[t]
  /\ pc' = [pc EXCEPT ![t] = "ret"]
  /\ pos' = [pos EXCEPT ![t] = @ + count[t]]
  /\ mutex' = NoTask
  /\ UNCHANGED <<mem, f_pos, count, done, buf>>

(* The kernel stores the position back into the file.                      *)
store_pos(t) ==
  /\ pc[t] = "ret"
  /\ f_pos' = [f_pos EXCEPT ![fd[t]] = pos[t]]
  /\ Return(t)
  /\ UNCHANGED <<mem, mutex>>

-----------------------------------------------------------------------------
(* hello_ioctl with MEM_CLEAR.                                             *)
hello_ioctl(t) ==
  /\ Goto(t, "idle", "c_lock")
  /\ UNCHANGED <<mem, mutex, f_pos, frame>>

mem_clear(t) ==
  /\ pc[t] = "c_clear"
  /\ mem' = [i \in Index |-> 0]
  /\ mutex' = NoTask
  /\ Return(t)
  /\ UNCHANGED f_pos

-----------------------------------------------------------------------------
(* hello_llseek.  SEEK_SET tests and stores the offset cut to an unsigned  *)
(* int; the calls that return EINVAL change nothing.                       *)
seek_set_unchecked(t) ==
  /\ pc[t] = "idle"
  /\ \E o \in Offsets : o >= 0 /\ f_pos' = [f_pos EXCEPT ![fd[t]] = o]
  /\ UNCHANGED <<mem, mutex, pc, frame>>

seek_set(t) ==
  /\ pc[t] = "idle"
  /\ \E o \in Offsets :
       /\ o >= 0
       /\ o % UINT_RANGE =< HELLODEV_SIZE
       /\ f_pos' = [f_pos EXCEPT ![fd[t]] = o % UINT_RANGE]
  /\ UNCHANGED <<mem, mutex, pc, frame>>

(* SEEK_CUR reads f_pos for each of its two tests and again to add the     *)
(* offset to it; the addition is a load and a store.                       *)
seek_cur(t) ==
  /\ \E o \in Offsets :
       /\ f_pos[fd[t]] + o =< HELLODEV_SIZE
       /\ count' = [count EXCEPT ![t] = o]
  /\ Goto(t, "idle", "s_low")
  /\ seeks < MaxSeekCur
  /\ seeks' = seeks + 1
  /\ UNCHANGED <<mem, mutex, f_pos, pos, done, buf>>

seek_cur_low(t) ==
  /\ pc[t] = "s_low"
  /\ \/ /\ f_pos[fd[t]] + count[t] < 0
        /\ Return(t)
     \/ /\ f_pos[fd[t]] + count[t] >= 0
        /\ pc' = [pc EXCEPT ![t] = "s_load"]
        /\ UNCHANGED frame
  /\ UNCHANGED <<mem, mutex, f_pos>>

seek_cur_load(t) ==
  /\ Goto(t, "s_load", "s_store")
  /\ pos' = [pos EXCEPT ![t] = f_pos[fd[t]]]
  /\ UNCHANGED <<mem, mutex, f_pos, count, done, buf>>

seek_cur_store(t) ==
  /\ pc[t] = "s_store"
  /\ f_pos' = [f_pos EXCEPT ![fd[t]] = pos[t] + count[t]]
  /\ Return(t)
  /\ UNCHANGED <<mem, mutex>>

-----------------------------------------------------------------------------
Init ==
  /\ driver \in {"cdev", "globalfifo"}
  /\ fd \in Fds
  /\ seeks = 0
  /\ mem = [i \in Index |-> 0]
  /\ mutex = NoTask
  /\ f_pos = [f \in Files |-> 0]
  /\ pc = [t \in Tasks |-> "idle"]
  /\ pos = [t \in Tasks |-> 0]
  /\ count = [t \in Tasks |-> 0]
  /\ done = [t \in Tasks |-> 0]
  /\ buf = [t \in Tasks |-> << >>]

(* What t does inside a call, and the calls it may make.                   *)
Inside(t) ==
  \/ mutex_lock(t) \/ copy_to_user(t) \/ copy_from_user(t) \/ copied(t)
  \/ store_pos(t) \/ mem_clear(t)
  \/ seek_cur_low(t) \/ seek_cur_load(t) \/ seek_cur_store(t)
Call(t) == hello_read(t) \/ hello_write(t) \/ hello_ioctl(t) \/ seek_set(t)

(* The calls of globalfifo: a read or write, however long it takes and     *)
(* whatever it does to the FIFO, stores back the position it was given.    *)
stream(t) ==
  /\ Goto(t, "idle", "ret")
  /\ pos' = [pos EXCEPT ![t] = f_pos[fd[t]]]
  /\ f_pos[fd[t]] >= 0
  /\ UNCHANGED <<mem, mutex, f_pos, count, done, buf>>
globalfifo_call(t) == stream(t) \/ seek_set(t)

Step(t) ==
  /\ UNCHANGED <<driver, fd>>
  /\ \/ Inside(t) /\ UNCHANGED seeks
     \/ driver = "cdev" /\ Call(t) /\ UNCHANGED seeks
     \/ driver = "globalfifo" /\ globalfifo_call(t) /\ UNCHANGED seeks
     \/ seek_cur(t)

Next == \E t \in Tasks : Step(t)

Spec == Init /\ [][Next]_vars

(* The scheduler runs every task, and the mutex is handed to every task    *)
(* that keeps waiting for it; user space need not call.                    *)
FairSpec ==
  Spec /\ \A t \in Tasks : /\ WF_vars(Step(t) /\ pc[t] # "idle")
                           /\ SF_vars(Step(t) /\ mutex_lock(t))

-----------------------------------------------------------------------------
(* Whatever the races on f_pos leave in it, hello_read and hello_write     *)
(* never copy outside of mem: they test the copy of the position that they *)
(* use.                                                                    *)
AccessInBounds ==
  \A t \in Tasks :
    pc[t] \in {"r_lock", "r_copy", "w_lock", "w_copy"} =>
      /\ pos[t] >= 0
      /\ count[t] >= 0 /\ pos[t] + count[t] =< HELLODEV_SIZE
      /\ done[t] =< count[t]

(* Reads and writes are whole: while a reader is copying, what it has      *)
(* received so far is what mem holds there now, and while a writer is      *)
(* copying mem holds what it has written so far, so that no other write    *)
(* and no MEM_CLEAR gets in between the bytes of one call.                 *)
CopiesAreWhole ==
  \A t \in Tasks : pc[t] \in {"r_copy", "w_copy"} =>
    /\ pc[t] = "r_copy" => Len(buf[t]) = done[t]
    /\ \A i \in 1 .. done[t] : buf[t][i] = mem[pos[t] + i - 1]

(* The position of a file that one task alone uses never leaves            *)
(* 0 .. HELLODEV_SIZE, through all the reads, writes and seeks, also those *)
(* whose offset does not fit in an unsigned int; and the task never reads  *)
(* or writes the same bytes twice, since a call that returns moves the     *)
(* position on by what it copied.                                          *)
SoleUser(t) == \A u \in Tasks : fd[u] = fd[t] => u = t
SolePosition ==
  [][\A t \in Tasks : SoleUser(t) =>
        /\ f_pos'[fd[t]] \in 0 .. HELLODEV_SIZE
        /\ pc[t] = "ret" /\ pc'[t] # "ret" => f_pos'[fd[t]] = f_pos[fd[t]] + done[t]]_vars

(* Under FairSpec: every call returns.                                     *)
CallsReturn == \A t \in Tasks : pc[t] # "idle" ~> pc[t] = "idle"
=============================================================================
