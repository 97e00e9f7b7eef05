---------------------------- MODULE BoundedFifo ----------------------------
(***************************************************************************)
(* What the globalfifo device promises to user space: a first-in first-out *)
(* buffer of at most Size bytes on which a write, a read and a MEM_CLEAR   *)
(* each take effect at one instant.  A caller offers a buffer (src) that   *)
(* is accepted at most once, and the bytes of a read (dst) are the oldest  *)
(* ones, taken out exactly once.  There are no locks, no wait queues and   *)
(* no scheduling here; GlobalFifo is shown to implement this module.       *)
(***************************************************************************)
EXTENDS Integers, Sequences

CONSTANTS Users,   \* the tasks that call the device
          Size,    \* HELLODEV_SIZE
          Data     \* the values a byte can have, 0 among them

VARIABLES fifo,    \* the bytes in the device, oldest first
          src,     \* src[t]: what t is trying to write, << >> if nothing
          dst      \* dst[t]: what t's current read has received

abstractVars == <<fifo, src, dst>>

Lesser(m, n) == IF m < n THEN m ELSE n

Init ==
  /\ fifo = << >>
  /\ src = [t \in Users |-> << >>]
  /\ dst = [t \in Users |-> << >>]

(* t enters write() with some buffer.                                      *)
Offer(t) ==
  /\ src[t] = << >>
  /\ src'[t] \in Seq(Data)
  /\ src' = [src EXCEPT ![t] = src'[t]]
  /\ UNCHANGED <<fifo, dst>>

(* t's write fails (EAGAIN, ERESTARTSYS, EFAULT): nothing was accepted.    *)
Withdraw(t) ==
  /\ src' = [src EXCEPT ![t] = << >>]
  /\ UNCHANGED <<fifo, dst>>

(* t's write succeeds: as much of its buffer as fits, and at least a byte  *)
(* if it offered one, is accepted at the young end.                        *)
Put(t) ==
  /\ Len(fifo) < Size
  /\ fifo' = fifo \o SubSeq(src[t], 1, Lesser(Len(src[t]), Size - Len(fifo)))
  /\ src' = [src EXCEPT ![t] = << >>]
  /\ UNCHANGED dst

(* t's read takes the n oldest bytes.                                      *)
Get(t) ==
  /\ fifo # << >>
  /\ \E n \in 0 .. Len(fifo) :
       /\ dst' = [dst EXCEPT ![t] = SubSeq(fifo, 1, n)]
       /\ fifo' = SubSeq(fifo, n + 1, Len(fifo))
  /\ UNCHANGED src

(* t's read returns to user space.                                         *)
Return(t) ==
  /\ dst' = [dst EXCEPT ![t] = << >>]
  /\ UNCHANGED <<fifo, src>>

(* MEM_CLEAR: the bytes become zero, their number stays the same.          *)
Clear ==
  /\ fifo' = [i \in DOMAIN fifo |-> 0]
  /\ UNCHANGED <<src, dst>>

Next ==
  \/ \E t \in Users : Offer(t) \/ Withdraw(t) \/ Put(t) \/ Get(t) \/ Return(t)
  \/ Clear

Spec == Init /\ [][Next]_abstractVars
=============================================================================
