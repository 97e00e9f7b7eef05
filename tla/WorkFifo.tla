------------------------------ MODULE WorkFifo ------------------------------
(***************************************************************************)
(* The work queue FIFO of src/src/thread/fifo.c: workfifo_init enqueues    *)
(* items, each with a work that frees it; workfifo_exit flushes and        *)
(* destroys the work queue and then frees what is between fifo_head and    *)
(* fifo_tail.                                                              *)
(*                                                                         *)
(* The ring keeps its pointer to an item after work_handler has freed it,  *)
(* and nothing but workfifo_exit moves fifo_head.  What the allocator does *)
(* with memory that is freed twice is not modelled: freed counts how often *)
(* an item has been passed to kfree.                                       *)
(***************************************************************************)
EXTENDS Integers, Sequences

CONSTANTS
  FIFO_SIZE,   \* slots of the ring (10 in the source)
  Enqueues     \* how many items workfifo_init enqueues (3 in the source)

ASSUME WorkFifoAssumption ==
  /\ FIFO_SIZE \in Nat \ {0}
  /\ Enqueues \in Nat

VARIABLES
  fifo,       \* fifo[i]: the item that slot i points to, 0 for none
  fifo_head, fifo_tail,
  workqueue,  \* items whose work is queued, in order; the worker takes them
  worker,     \* the item that work_handler is processing, 0 for none
  made,       \* items allocated so far; an item is known by its number
  freed,      \* freed[k]: how often item k was passed to kfree
  done,       \* calls of enqueue that workfifo_init has made
  module      \* "init", "loaded", "flush", "free", "gone"

ring == <<fifo, fifo_head, fifo_tail>>
vars == <<ring, workqueue, worker, made, freed, done, module>>

Slots == 0 .. FIFO_SIZE - 1
Items == 1 .. Enqueues

Init ==
  /\ fifo = [i \in Slots |-> 0]
  /\ fifo_head = 0 /\ fifo_tail = 0
  /\ workqueue = << >>
  /\ worker = 0
  /\ made = 0
  /\ freed = [k \in Items |-> 0]
  /\ done = 0
  /\ module = "init"

(* create_singlethread_workqueue fails and the module is not loaded.       *)
init_fails ==
  /\ module = "init" /\ done = 0
  /\ module' = "gone"
  /\ UNCHANGED <<ring, workqueue, worker, made, freed, done>>

succ(i) == (i + 1) % FIFO_SIZE
full_never(h, t) == FALSE
full(h, t) == succ(t) = h

(* enqueue, under fifo_lock: refused when the ring is full, or when the    *)
(* item cannot be allocated; workfifo_init ignores the result.             *)
enqueue ==
  /\ module = "init" /\ done < Enqueues
  /\ done' = done + 1
  /\ \/ /\ ~full(fifo_head, fifo_tail)
        /\ made' = made + 1
        /\ fifo' = [fifo EXCEPT ![fifo_tail] = made + 1]
        /\ fifo_tail' = succ(fifo_tail)
        /\ workqueue' = Append(workqueue, made + 1)
     \/ UNCHANGED <<fifo, fifo_tail, workqueue, made>>
  /\ UNCHANGED <<fifo_head, worker, freed, module>>

workfifo_init ==
  /\ module = "init" /\ done = Enqueues
  /\ module' = "loaded"
  /\ UNCHANGED <<ring, workqueue, worker, made, freed, done>>

(* The worker takes the next work and calls work_handler, which logs the   *)
(* item's data and frees the item.                                         *)
take_work ==
  /\ worker = 0 /\ workqueue # << >>
  /\ worker' = Head(workqueue)
  /\ workqueue' = Tail(workqueue)
  /\ UNCHANGED <<ring, made, freed, done, module>>

work_handler ==
  /\ worker # 0
  /\ freed' = [freed EXCEPT ![worker] = @ + 1]
  /\ worker' = 0
  /\ UNCHANGED <<ring, workqueue, made, done, module>>

(* workfifo_exit.                                                          *)
rmmod ==
  /\ module = "loaded"
  /\ module' = "flush"
  /\ UNCHANGED <<ring, workqueue, worker, made, freed, done>>

flush_missing ==
  /\ module = "flush"
  /\ module' = "free"
  /\ UNCHANGED <<ring, workqueue, worker, made, freed, done>>
flush_waits_for_ring ==
  /\ module = "flush"
  /\ fifo_head = fifo_tail
  /\ module' = "free"
  /\ UNCHANGED <<ring, workqueue, worker, made, freed, done>>
flush_workqueue ==
  /\ module = "flush"
  /\ workqueue = << >> /\ worker = 0
  /\ module' = "free"
  /\ UNCHANGED <<ring, workqueue, worker, made, freed, done>>

free_items ==
  /\ module = "free" /\ fifo_head # fifo_tail
  /\ freed' = [freed EXCEPT ![fifo[fifo_head]] = @ + 1]
  /\ fifo_head' = succ(fifo_head)
  /\ UNCHANGED <<fifo, fifo_tail, workqueue, worker, made, done, module>>

workfifo_exit ==
  /\ module = "free" /\ fifo_head = fifo_tail
  /\ module' = "gone"
  /\ UNCHANGED <<ring, workqueue, worker, made, freed, done>>

Worker == take_work \/ work_handler
Exit == flush_workqueue \/ free_items \/ workfifo_exit

Next == init_fails \/ enqueue \/ workfifo_init \/ Worker \/ rmmod \/ Exit

Spec == Init /\ [][Next]_vars

(* The worker thread is scheduled, and rmmod runs to its end.              *)
Fairness == WF_vars(Worker) /\ WF_vars(Exit)

-----------------------------------------------------------------------------
(* fifo_head and fifo_tail stay inside the ring; the slots between them    *)
(* hold distinct items, the oldest first, and as long as the module is     *)
(* loaded all the items ever made.                                         *)
Held == (fifo_tail - fifo_head) % FIFO_SIZE
RingHoldsItems ==
  /\ fifo_head \in Slots /\ fifo_tail \in Slots
  /\ module \in {"init", "loaded", "flush"} => Held = made
  /\ \A j \in 0 .. Held - 1 : fifo[(fifo_head + j) % FIFO_SIZE] = made - Held + 1 + j

(* work_handler never touches an item that has been freed: each work runs  *)
(* once, and workfifo_exit frees only after the flush.  But the ring       *)
(* pointers outlive the items: workfifo_exit finds each item that          *)
(* work_handler has freed in the ring and frees it again.                  *)
ItemLifetime ==
  /\ worker # 0 => freed[worker] = 0
  /\ \A j \in DOMAIN workqueue : freed[workqueue[j]] = 0
  /\ \A k \in Items : freed[k] =< 2
  /\ module = "gone" => \A k \in Items : freed[k] = IF k =< made THEN 2 ELSE 0

(* Under Fairness: rmmod waits for all the queued work and ends.           *)
UnloadEnds == module = "flush" ~> module = "gone"
=============================================================================
