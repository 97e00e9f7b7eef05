---------------------------- MODULE UnloadProofs ----------------------------
(***************************************************************************)
(* Proofs about loading and unloading: the work queue FIFO of              *)
(* src/src/thread/fifo.c, for a ring of any size and any number of items,  *)
(* and the modules of Lifecycle, for any number of tasks that open a       *)
(* device.                                                                 *)
(***************************************************************************)
EXTENDS MCUnload, TLAPS

(* The work queue FIFO.                                                    *)
USE WorkFifoAssumption

WType ==
  /\ fifo \in [Slots -> Nat]
  /\ fifo_head \in Nat /\ fifo_tail \in Nat
  /\ workqueue \in Seq(Items)
  /\ worker \in Items \cup {0}
  /\ made \in Nat /\ done \in Nat
  /\ freed \in [Items -> Nat]
  /\ module \in {"init", "loaded", "flush", "free", "gone"}

(* Since nothing but the end of workfifo_exit moves fifo_head, the ring    *)
(* never wraps: slot i holds item i + 1, and the tail counts the items.    *)
RingFilled ==
  /\ fifo_head =< fifo_tail /\ fifo_tail = made /\ made < FIFO_SIZE
  /\ made =< done /\ done =< Enqueues
  /\ \A i \in 0 .. made - 1 : fifo[i] = i + 1
  /\ module \in {"init", "loaded", "flush"} => fifo_head = 0
  /\ module = "gone" => fifo_head = fifo_tail

(* The items whose work has run are the first ones.                        *)
Ran == made - Len(workqueue) - (IF worker = 0 THEN 0 ELSE 1)

(* The works that are left are those of the last items, in order.          *)
WorkInOrder ==
  /\ Ran >= 0
  /\ \A j \in 1 .. Len(workqueue) : workqueue[j] = made - Len(workqueue) + j
  /\ worker # 0 => worker = made - Len(workqueue)
  /\ module \in {"free", "gone"} => workqueue = << >> /\ worker = 0

(* Work frees an item once, and the loop in workfifo_exit once more.       *)
FreedTwice ==
  \A k \in Items :
    freed[k] = (IF k =< Ran THEN 1 ELSE 0) + (IF k =< fifo_head THEN 1 ELSE 0)

WInv == WType /\ RingFilled /\ WorkInOrder /\ FreedTwice

-----------------------------------------------------------------------------
(* Within the ring the remainder is the number itself.                     *)
LEMMA ModSmall ==
  ASSUME NEW n \in Nat, NEW a \in Nat, a < n
  PROVE  a % n = a
OBVIOUS

(* Initially there is no item.                                             *)
LEMMA WorkFifoInit ==
  ASSUME Init
  PROVE  WInv
<1>1. << >> \in Seq(Items) /\ Len(<< >>) = 0
  OBVIOUS
<1>2. WType
  BY <1>1 DEF Init, WType, Slots
<1>3. RingFilled
  BY DEF Init, RingFilled
<1>4. Ran = 0
  <2>1. made = 0 /\ worker = 0 /\ Len(workqueue) = 0
    BY <1>1 DEF Init
  <2> QED
    BY <2>1 DEF Ran
<1>5. WorkInOrder /\ FreedTwice
  BY <1>1, <1>4 DEF Init, WorkInOrder, FreedTwice, Items
<1> QED
  BY <1>2, <1>3, <1>5 DEF WInv

(* enqueue is refused when the ring is full, so that it never overwrites   *)
(* an item, and the new item is the last in the ring and in the queue.     *)
LEMMA EnqueueKeeps ==
  ASSUME WInv, enqueue
  PROVE  WInv'
<1>0. WType /\ RingFilled /\ WorkInOrder /\ FreedTwice
  BY DEF WInv
<1>1. /\ module = "init" /\ done < Enqueues /\ done' = done + 1
      /\ UNCHANGED <<fifo_head, worker, freed, module>>
  BY DEF enqueue
<1>2. CASE UNCHANGED <<fifo, fifo_tail, workqueue, made>>
  <2>1. WType' /\ RingFilled'
    BY <1>0, <1>1, <1>2 DEF WType, RingFilled
  <2>2. Ran' = Ran
    BY <1>1, <1>2 DEF Ran
  <2>3. WorkInOrder' /\ FreedTwice'
    BY <1>0, <1>1, <1>2, <2>2 DEF WorkInOrder, FreedTwice
  <2> QED
    BY <2>1, <2>3 DEF WInv
<1>3. CASE /\ ~full(fifo_head, fifo_tail)
           /\ made' = made + 1
           /\ fifo' = [fifo EXCEPT ![fifo_tail] = made + 1]
           /\ fifo_tail' = succ(fifo_tail)
           /\ workqueue' = Append(workqueue, made + 1)
  <2>1. fifo_head = 0 /\ fifo_tail = made /\ made \in Nat /\ made < FIFO_SIZE
    BY <1>0, <1>1 DEF RingFilled, WType
  <2>2. made + 1 # FIFO_SIZE
    <3>1. FIFO_SIZE % FIFO_SIZE = 0
      OBVIOUS
    <3> QED
      BY <1>3, <2>1, <3>1 DEF full, succ
  <2>3. fifo_tail' = made + 1 /\ made + 1 < FIFO_SIZE
    <3>1. made + 1 \in Nat /\ made + 1 < FIFO_SIZE
      BY <2>1, <2>2
    <3>2. (made + 1) % FIFO_SIZE = made + 1
      BY <3>1, ModSmall
    <3> QED
      BY <1>3, <2>1, <3>1, <3>2 DEF succ
  <2>4. made + 1 \in Items
    BY <1>0, <1>1, <2>1 DEF RingFilled, WType, Items
  <2>5. /\ Append(workqueue, made + 1) \in Seq(Items)
        /\ Len(workqueue') = Len(workqueue) + 1 /\ Len(workqueue) \in Nat
        /\ workqueue'[Len(workqueue) + 1] = made + 1
        /\ \A j \in 1 .. Len(workqueue) : workqueue'[j] = workqueue[j]
    BY <1>0, <1>3, <2>4 DEF WType
  <2>6. WType'
    <3>1. fifo' \in [Slots -> Nat]
      <4>1. made + 1 \in Nat /\ fifo' = [fifo EXCEPT ![fifo_tail] = made + 1]
        BY <1>3, <2>1
      <4> QED
        BY <1>0, <4>1 DEF WType
    <3>2. workqueue' \in Seq(Items) /\ made' \in Nat /\ done' \in Nat /\ fifo_tail' \in Nat
      BY <1>0, <1>1, <1>3, <2>1, <2>3, <2>5 DEF WType
    <3> QED
      BY <1>0, <1>1, <3>1, <3>2 DEF WType
  <2>7. \A i \in 0 .. made : fifo'[i] = i + 1
    BY <1>0, <1>3, <2>1 DEF WType, RingFilled, Slots
  <2>8. RingFilled'
    BY <1>0, <1>1, <1>3, <2>1, <2>3, <2>7 DEF RingFilled, WType
  <2>9. Ran' = Ran
    BY <1>1, <1>3, <2>1, <2>5 DEF Ran
  <2>10. \A j \in 1 .. Len(workqueue') : workqueue'[j] = made' - Len(workqueue') + j
    <3> SUFFICES ASSUME NEW j \in 1 .. Len(workqueue')
                 PROVE  workqueue'[j] = made' - Len(workqueue') + j
      OBVIOUS
    <3>1. CASE j = Len(workqueue) + 1
      BY <1>3, <2>1, <2>5, <3>1
    <3>2. CASE j \in 1 .. Len(workqueue)
      BY <1>0, <1>3, <2>1, <2>5, <3>2 DEF WorkInOrder
    <3> QED
      BY <2>5, <3>1, <3>2
  <2>11. WorkInOrder'
    BY <1>0, <1>1, <1>3, <2>1, <2>5, <2>9, <2>10 DEF WorkInOrder
  <2>12. FreedTwice'
    BY <1>0, <1>1, <2>9 DEF FreedTwice
  <2> QED
    BY <2>6, <2>8, <2>11, <2>12 DEF WInv
<1> QED
  BY <1>2, <1>3 DEF enqueue

(* A step that leaves ring and items alone and only moves the module on.   *)
LEMMA ModuleMoves ==
  ASSUME WInv, UNCHANGED <<ring, workqueue, worker, made, freed, done>>,
         \/ module = "init" /\ module' = "loaded"
         \/ module = "init" /\ done = 0 /\ module' = "gone"
         \/ module = "loaded" /\ module' = "flush"
         \/ module = "flush" /\ workqueue = << >> /\ worker = 0 /\ module' = "free"
         \/ module = "free" /\ fifo_head = fifo_tail /\ module' = "gone"
         \/ module' = module
  PROVE  WInv'
<1>0. WType /\ RingFilled /\ WorkInOrder /\ FreedTwice
  BY DEF WInv
<1>1. WType'
  BY <1>0 DEF WType, ring
<1>2. RingFilled'
  BY <1>0 DEF WType, RingFilled, ring
<1>3. Ran' = Ran
  BY DEF Ran
<1>4. module = "init" /\ done = 0 => workqueue = << >> /\ worker = 0
  <2>1. Len(workqueue) \in Nat
    BY <1>0 DEF WType
  <2>2. module = "init" /\ done = 0 => made = 0
    BY <1>0 DEF RingFilled, WType
  <2>3. made = 0 => Len(workqueue) = 0 /\ worker = 0
    BY <1>0, <2>1 DEF WorkInOrder, Ran
  <2>4. Len(workqueue) = 0 => workqueue = << >>
    BY <1>0 DEF WType
  <2> QED
    BY <2>2, <2>3, <2>4
<1>5. WorkInOrder'
  BY <1>0, <1>3, <1>4 DEF WorkInOrder
<1>6. FreedTwice'
  BY <1>0, <1>3 DEF FreedTwice, ring
<1> QED
  BY <1>1, <1>2, <1>5, <1>6 DEF WInv

(* The worker takes the first work that is left.                           *)
LEMMA TakeKeeps ==
  ASSUME WInv, take_work
  PROVE  WInv'
<1>0. WType /\ RingFilled /\ WorkInOrder /\ FreedTwice
  BY DEF WInv
<1>1. /\ worker = 0 /\ workqueue # << >> /\ worker' = Head(workqueue)
      /\ workqueue' = Tail(workqueue) /\ UNCHANGED <<ring, made, freed, done, module>>
  BY DEF take_work
<1>2. workqueue \in Seq(Items) /\ Len(workqueue) \in Nat /\ Len(workqueue) > 0 /\ made \in Nat
  BY <1>0, <1>1 DEF WType
<1>3. /\ worker' = workqueue[1] /\ worker' \in Items /\ workqueue' \in Seq(Items)
      /\ Len(workqueue') = Len(workqueue) - 1
      /\ \A j \in 1 .. Len(workqueue) - 1 : workqueue'[j] = workqueue[j + 1]
  BY <1>1, <1>2
<1>4. worker' = made' - Len(workqueue') /\ worker' # 0
  BY <1>0, <1>1, <1>2, <1>3 DEF WorkInOrder, Items
<1>5. Ran' = Ran
  BY <1>1, <1>2, <1>3, <1>4 DEF Ran
<1>6. WType' /\ RingFilled'
  BY <1>0, <1>1, <1>3 DEF WType, RingFilled, ring
<1>7. \A j \in 1 .. Len(workqueue') : workqueue'[j] = made' - Len(workqueue') + j
  BY <1>0, <1>1, <1>2, <1>3 DEF WorkInOrder
<1>8. WorkInOrder'
  BY <1>0, <1>1, <1>4, <1>5, <1>7 DEF WorkInOrder
<1>9. FreedTwice'
  BY <1>0, <1>1, <1>5 DEF FreedTwice, ring
<1> QED
  BY <1>6, <1>8, <1>9 DEF WInv

(* work_handler frees the item that is next.                               *)
LEMMA WorkKeeps ==
  ASSUME WInv, work_handler
  PROVE  WInv'
<1>0. WType /\ RingFilled /\ WorkInOrder /\ FreedTwice
  BY DEF WInv
<1>1. /\ worker # 0 /\ freed' = [freed EXCEPT ![worker] = @ + 1] /\ worker' = 0
      /\ UNCHANGED <<ring, workqueue, made, done, module>>
  BY DEF work_handler
<1>2. Len(workqueue) \in Nat /\ made \in Nat /\ worker \in Items
  BY <1>0, <1>1 DEF WType
<1>3. worker = Ran + 1 /\ Ran' = Ran + 1 /\ Ran \in Nat
  BY <1>0, <1>1, <1>2 DEF WorkInOrder, Ran, Items
<1>4. WType' /\ RingFilled'
  BY <1>0, <1>1, <1>2 DEF WType, RingFilled, ring
<1>5. WorkInOrder'
  BY <1>0, <1>1, <1>3 DEF WorkInOrder
<1>6. FreedTwice'
  <2> SUFFICES ASSUME NEW k \in Items
               PROVE  freed'[k] = (IF k =< Ran' THEN 1 ELSE 0) + (IF k =< fifo_head' THEN 1 ELSE 0)
    BY DEF FreedTwice
  <2>1. freed'[k] = (IF k = worker THEN freed[k] + 1 ELSE freed[k]) /\ freed[k] \in Nat
    BY <1>0, <1>1 DEF WType
  <2>2. freed[k] = (IF k =< Ran THEN 1 ELSE 0) + (IF k =< fifo_head THEN 1 ELSE 0)
    BY <1>0 DEF FreedTwice
  <2>3. fifo_head' = fifo_head /\ fifo_head \in Nat /\ k \in Nat
    BY <1>0, <1>1 DEF ring, WType, Items
  <2> QED
    BY <1>3, <2>1, <2>2, <2>3
<1> QED
  BY <1>4, <1>5, <1>6 DEF WInv

(* The loop of workfifo_exit frees the oldest item in the ring.            *)
LEMMA FreeKeeps ==
  ASSUME WInv, free_items
  PROVE  WInv'
<1>0. WType /\ RingFilled /\ WorkInOrder /\ FreedTwice
  BY DEF WInv
<1>1. /\ module = "free" /\ fifo_head # fifo_tail
      /\ freed' = [freed EXCEPT ![fifo[fifo_head]] = @ + 1] /\ fifo_head' = succ(fifo_head)
      /\ UNCHANGED <<fifo, fifo_tail, workqueue, worker, made, done, module>>
  BY DEF free_items
<1>2. fifo_head \in Nat /\ fifo_head < made /\ made \in Nat /\ made < FIFO_SIZE
  BY <1>0, <1>1 DEF WType, RingFilled
<1>3. fifo[fifo_head] = fifo_head + 1 /\ fifo_head + 1 \in Items
  BY <1>0, <1>2 DEF RingFilled, Items, WType
<1>4. fifo_head' = fifo_head + 1
  <2>1. fifo_head + 1 \in Nat /\ fifo_head + 1 < FIFO_SIZE
    BY <1>2
  <2> QED
    BY <1>1, <2>1, ModSmall DEF succ
<1>5. WType'
  <2>1. freed' = [freed EXCEPT ![fifo_head + 1] = freed[fifo_head + 1] + 1]
    BY <1>1, <1>3
  <2>2. freed[fifo_head + 1] + 1 \in Nat /\ freed \in [Items -> Nat]
    BY <1>0, <1>3 DEF WType
  <2>3. freed' \in [Items -> Nat]
    BY <2>1, <2>2
  <2> QED
    BY <1>0, <1>1, <1>2, <1>4, <2>3 DEF WType
<1>6. RingFilled'
  BY <1>0, <1>1, <1>2, <1>4 DEF RingFilled
<1>7. Ran' = Ran
  BY <1>1 DEF Ran
<1>8. WorkInOrder'
  BY <1>0, <1>1, <1>7 DEF WorkInOrder
<1>9. FreedTwice'
  <2> SUFFICES ASSUME NEW k \in Items
               PROVE  freed'[k] = (IF k =< Ran' THEN 1 ELSE 0) + (IF k =< fifo_head' THEN 1 ELSE 0)
    BY DEF FreedTwice
  <2>1. freed'[k] = (IF k = fifo_head + 1 THEN freed[k] + 1 ELSE freed[k]) /\ freed[k] \in Nat
    BY <1>0, <1>1, <1>3 DEF WType
  <2>2. freed[k] = (IF k =< Ran THEN 1 ELSE 0) + (IF k =< fifo_head THEN 1 ELSE 0)
    BY <1>0 DEF FreedTwice
  <2>3. k \in Nat
    BY DEF Items
  <2> QED
    BY <1>2, <1>4, <1>7, <2>1, <2>2, <2>3
<1> QED
  BY <1>5, <1>6, <1>8, <1>9 DEF WInv

-----------------------------------------------------------------------------
(* The inductive invariant holds in every run.                             *)
THEOREM WorkFifoIInv == Spec => []WInv
<1>1. ASSUME WInv, [Next]_vars PROVE WInv'
  <2>1. CASE UNCHANGED vars
    BY <1>1, <2>1, ModuleMoves DEF vars
  <2>2. CASE init_fails
    BY <1>1, <2>2, ModuleMoves DEF init_fails
  <2>3. CASE enqueue
    BY <1>1, <2>3, EnqueueKeeps
  <2>4. CASE workfifo_init
    BY <1>1, <2>4, ModuleMoves DEF workfifo_init
  <2>5. CASE take_work
    BY <1>1, <2>5, TakeKeeps
  <2>6. CASE work_handler
    BY <1>1, <2>6, WorkKeeps
  <2>7. CASE rmmod
    BY <1>1, <2>7, ModuleMoves DEF rmmod
  <2>8. CASE flush_workqueue
    BY <1>1, <2>8, ModuleMoves DEF flush_workqueue
  <2>9. CASE free_items
    BY <1>1, <2>9, FreeKeeps
  <2>10. CASE workfifo_exit
    BY <1>1, <2>10, ModuleMoves DEF workfifo_exit
  <2> QED
    BY <1>1, <2>1, <2>2, <2>3, <2>4, <2>5, <2>6, <2>7, <2>8, <2>9, <2>10 DEF Next, Worker, Exit
<1> QED
  BY <1>1, WorkFifoInit, PTL DEF Spec

(* fifo_head and fifo_tail stay in the ring, and between them are the      *)
(* newest items, the oldest of them first.                                 *)
THEOREM RingHoldsItemsTheorem == Spec => []RingHoldsItems
<1>1. ASSUME WInv PROVE RingHoldsItems
  <2>0. WType /\ RingFilled
    BY <1>1 DEF WInv
  <2>1. /\ fifo_head \in Nat /\ fifo_tail \in Nat /\ made \in Nat /\ fifo_tail = made
        /\ fifo_head =< made /\ made < FIFO_SIZE
    BY <2>0 DEF WType, RingFilled
  <2>2. Held = made - fifo_head
    <3>1. made - fifo_head \in Nat /\ made - fifo_head < FIFO_SIZE
      BY <2>1
    <3> QED
      BY <2>1, <3>1, ModSmall DEF Held
  <2>3. fifo_head \in Slots /\ fifo_tail \in Slots
    BY <2>1 DEF Slots
  <2>4. module \in {"init", "loaded", "flush"} => Held = made
    BY <2>0, <2>1, <2>2 DEF RingFilled
  <2>5. ASSUME NEW j \in 0 .. Held - 1
        PROVE  fifo[(fifo_head + j) % FIFO_SIZE] = made - Held + 1 + j
    <3>1. fifo_head + j \in 0 .. made - 1 /\ fifo_head + j \in Nat /\ fifo_head + j < FIFO_SIZE
      BY <2>1, <2>2
    <3>2. (fifo_head + j) % FIFO_SIZE = fifo_head + j
      BY <3>1, ModSmall
    <3>3. fifo[fifo_head + j] = fifo_head + j + 1
      BY <2>0, <3>1 DEF RingFilled
    <3> QED
      BY <2>1, <2>2, <3>2, <3>3
  <2> QED
    BY <2>3, <2>4, <2>5 DEF RingHoldsItems
<1> QED
  BY <1>1, WorkFifoIInv, PTL

(* work_handler never uses an item after it was freed, and when the module *)
(* is gone every item has been freed exactly twice: by its work and by     *)
(* workfifo_exit, which still finds it in the ring.                        *)
THEOREM ItemLifetimeTheorem == Spec => []ItemLifetime
<1>1. ASSUME WInv PROVE ItemLifetime
  <2>0. WType /\ RingFilled /\ WorkInOrder /\ FreedTwice
    BY <1>1 DEF WInv
  <2>1. /\ Len(workqueue) \in Nat /\ made \in Nat /\ Ran \in Nat /\ fifo_head \in Nat
        /\ Ran =< made - Len(workqueue) /\ fifo_head =< made
    BY <2>0 DEF WType, WorkInOrder, Ran, RingFilled
  <2>2. ASSUME NEW k \in Items, k > Ran, fifo_head = 0 PROVE freed[k] = 0
    BY <2>0, <2>1, <2>2 DEF FreedTwice, Items
  <2>3. ASSUME worker # 0 PROVE freed[worker] = 0
    <3>1. worker \in Items /\ worker > Ran
      BY <2>0, <2>1, <2>3 DEF WType, WorkInOrder, Ran
    <3>2. fifo_head = 0
      BY <2>0, <2>3 DEF WType, WorkInOrder, RingFilled
    <3> QED
      BY <2>2, <3>1, <3>2
  <2>4. ASSUME NEW j \in DOMAIN workqueue PROVE freed[workqueue[j]] = 0
    <3>1. j \in 1 .. Len(workqueue) /\ workqueue[j] \in Items
      BY <2>0 DEF WType
    <3>2. workqueue[j] > Ran
      BY <2>0, <2>1, <3>1 DEF WorkInOrder
    <3>3. workqueue # << >>
      BY <3>1
    <3>4. fifo_head = 0
      BY <2>0, <3>3 DEF WType, WorkInOrder, RingFilled
    <3> QED
      BY <2>2, <3>1, <3>2, <3>4
  <2>5. \A k \in Items : freed[k] =< 2
    BY <2>0 DEF FreedTwice
  <2>6. ASSUME module = "gone", NEW k \in Items PROVE freed[k] = IF k =< made THEN 2 ELSE 0
    <3>1. fifo_head = made /\ workqueue = << >> /\ worker = 0
      BY <2>0, <2>6 DEF RingFilled, WorkInOrder
    <3>2. Ran = made
      BY <2>1, <3>1 DEF Ran
    <3> QED
      BY <2>0, <2>1, <3>1, <3>2 DEF FreedTwice, Items
  <2> QED
    BY <2>3, <2>4, <2>5, <2>6 DEF ItemLifetime
<1> QED
  BY <1>1, WorkFifoIInv, PTL

-----------------------------------------------------------------------------
(* The modules of Lifecycle.                                               *)
Resources == {"region", "mem", "locks", "cdev", "timer", "workqueue", "work", "kthread"}

LType ==
  /\ driver \in L!Drivers
  /\ stage \in {"loading", "failing", "loaded", "going", "gone"}
  /\ ip \in Nat \ {0}
  /\ held \in SUBSET Resources
  /\ file \in [Users -> {"closed", "open", "busy"}]
  /\ early \in BOOLEAN
  /\ timer \in {"idle", "pending", "running", "rearmed"}
  /\ work \in {"idle", "queued", "running"}
  /\ kthread \in {"none", "awake", "asleep", "done"}

(* While the init function runs, and until rmmod, the module holds what    *)
(* the steps before ip have taken; cdev_add may have failed.               *)
Loading ==
  /\ driver = "cdev" =>
       /\ ip =< 5 /\ held \subseteq {"region", "mem", "locks", "cdev"}
       /\ ("region" \in held <=> ip > 1) /\ ("mem" \in held <=> ip > 2)
       /\ ("locks" \in held <=> ip > 3) /\ ("cdev" \in held => ip > 4)
  /\ driver = "globalfifo" =>
       /\ ip =< 5 /\ held \subseteq {"region", "mem", "locks", "cdev"}
       /\ ("region" \in held <=> ip > 1) /\ ("mem" \in held <=> ip > 2)
       /\ ("cdev" \in held => ip > 3) /\ ("locks" \in held <=> ip > 4)
  /\ driver \in {"timer", "hrtimer"} =>
       ip =< 2 /\ held \subseteq {"timer"} /\ ("timer" \in held <=> ip > 1)
  /\ driver = "thread" =>
       /\ ip =< 4 /\ held \subseteq {"workqueue", "work", "kthread"}
       /\ ("workqueue" \in held <=> ip > 1) /\ ("work" \in held <=> ip > 2)
       /\ ("kthread" \in held <=> ip > 3)
  /\ stage = "loaded" => ip = Len(L!InitProgram) + 1

(* While the exit function runs it holds what its steps from ip on will    *)
(* give back, and the locks, which are part of the memory of the module.   *)
Unloading ==
  /\ driver \in {"cdev", "globalfifo"} =>
       /\ ip =< 4 /\ held \subseteq {"region", "mem", "locks", "cdev"}
       /\ ("cdev" \in held => ip =< 1) /\ ("mem" \in held => ip =< 2)
       /\ ("region" \in held => ip =< 3)
  /\ driver \in {"timer", "hrtimer"} =>
       ip =< 2 /\ held \subseteq {"timer"} /\ ("timer" \in held => ip =< 1)
  /\ driver = "thread" =>
       /\ ip =< 4 /\ held \subseteq {"workqueue", "work", "kthread"}
       /\ ("kthread" \in held <=> ip =< 1) /\ ("work" \in held <=> ip =< 2)
       /\ ("workqueue" \in held <=> ip =< 3)

HeldBySteps ==
  /\ stage \in {"loading", "loaded"} => Loading
  /\ stage = "failing" => driver = "thread" /\ held = {"workqueue", "work"}
  /\ stage = "going" => Unloading
  /\ stage = "gone" => held = {}

(* What runs, or is about to, is still to be waited for.                   *)
RunningIsHeld ==
  /\ timer # "idle" => "timer" \in held
  /\ work # "idle" => "work" \in held
  /\ kthread \in {"awake", "asleep"} => "kthread" \in held
  /\ \A u \in Users : file[u] # "closed" => "cdev" \in held /\ stage \in {"loading", "loaded"}
  /\ early => driver = "globalfifo"

LInv == LType /\ HeldBySteps /\ RunningIsHeld

-----------------------------------------------------------------------------
(* The steps of the init functions.                                        *)
LEMMA InitPrograms ==
  /\ driver = "cdev" =>
       Len(L!InitProgram) = 4 /\ L!InitProgram[1] = "region" /\ L!InitProgram[2] = "mem"
       /\ L!InitProgram[3] = "locks" /\ L!InitProgram[4] = "cdev"
  /\ driver = "globalfifo" =>
       Len(L!InitProgram) = 4 /\ L!InitProgram[1] = "region" /\ L!InitProgram[2] = "mem"
       /\ L!InitProgram[3] = "cdev" /\ L!InitProgram[4] = "locks"
  /\ driver \in {"timer", "hrtimer"} => Len(L!InitProgram) = 1 /\ L!InitProgram[1] = "timer"
  /\ driver = "thread" =>
       Len(L!InitProgram) = 3 /\ L!InitProgram[1] = "workqueue" /\ L!InitProgram[2] = "work"
       /\ L!InitProgram[3] = "kthread"
BY DEF L!InitProgram, L!hello_init_cdev, L!hello_init_globalfifo, L!timer_init, L!__hrtimer_init,
       L!thread_demo_init

(* The steps of the exit functions.                                        *)
LEMMA ExitPrograms ==
  /\ driver \in {"cdev", "globalfifo"} =>
       Len(L!ExitProgram) = 3 /\ L!ExitProgram[1] = "cdev" /\ L!ExitProgram[2] = "mem"
       /\ L!ExitProgram[3] = "region"
  /\ driver \in {"timer", "hrtimer"} => Len(L!ExitProgram) = 1 /\ L!ExitProgram[1] = "timer"
  /\ driver = "thread" =>
       Len(L!ExitProgram) = 3 /\ L!ExitProgram[1] = "kthread" /\ L!ExitProgram[2] = "work"
       /\ L!ExitProgram[3] = "workqueue"
BY DEF L!ExitProgram, L!hello_exit, L!timer_exit, L!__hrtimer_exit, L!thread_demo_exit

(* The programs are the same after every step.                             *)
LEMMA ProgramsKept ==
  ASSUME UNCHANGED driver
  PROVE  L!InitProgram' = L!InitProgram /\ L!ExitProgram' = L!ExitProgram
BY DEF L!InitProgram, L!ExitProgram

(* At which step each resource is taken.                                   *)
LEMMA AtInitStep ==
  ASSUME LType, NEW r, L!AtInit(r)
  PROVE  /\ stage = "loading" /\ r \in Resources
         /\ driver = "cdev" =>
              \/ ip = 1 /\ r = "region"
              \/ ip = 2 /\ r = "mem"
              \/ ip = 3 /\ r = "locks"
              \/ ip = 4 /\ r = "cdev"
         /\ driver = "globalfifo" =>
              \/ ip = 1 /\ r = "region"
              \/ ip = 2 /\ r = "mem"
              \/ ip = 3 /\ r = "cdev"
              \/ ip = 4 /\ r = "locks"
         /\ driver \in {"timer", "hrtimer"} => ip = 1 /\ r = "timer"
         /\ driver = "thread" =>
              \/ ip = 1 /\ r = "workqueue"
              \/ ip = 2 /\ r = "work"
              \/ ip = 3 /\ r = "kthread"
<1>0. stage = "loading" /\ ip \in Nat \ {0} /\ ip =< Len(L!InitProgram) /\ r = L!InitProgram[ip]
  BY DEF L!AtInit, LType
<1>1. CASE driver = "cdev"
  <2>1. /\ Len(L!InitProgram) = 4 /\ L!InitProgram[1] = "region" /\ L!InitProgram[2] = "mem"
        /\ L!InitProgram[3] = "locks" /\ L!InitProgram[4] = "cdev"
    BY <1>1, InitPrograms
  <2>2. ip = 1 \/ ip = 2 \/ ip = 3 \/ ip = 4
    BY <1>0, <2>1
  <2>3. \/ ip = 1 /\ r = "region"
        \/ ip = 2 /\ r = "mem"
        \/ ip = 3 /\ r = "locks"
        \/ ip = 4 /\ r = "cdev"
    BY <1>0, <2>1, <2>2, Zenon
  <2> QED
    BY <1>0, <1>1, <2>3 DEF Resources
<1>2. CASE driver = "globalfifo"
  <2>1. /\ Len(L!InitProgram) = 4 /\ L!InitProgram[1] = "region" /\ L!InitProgram[2] = "mem"
        /\ L!InitProgram[3] = "cdev" /\ L!InitProgram[4] = "locks"
    BY <1>2, InitPrograms
  <2>2. ip = 1 \/ ip = 2 \/ ip = 3 \/ ip = 4
    BY <1>0, <2>1
  <2>3. \/ ip = 1 /\ r = "region"
        \/ ip = 2 /\ r = "mem"
        \/ ip = 3 /\ r = "cdev"
        \/ ip = 4 /\ r = "locks"
    BY <1>0, <2>1, <2>2, Zenon
  <2> QED
    BY <1>0, <1>2, <2>3 DEF Resources
<1>3. CASE driver \in {"timer", "hrtimer"}
  <2>1. ip = 1
    BY <1>0, <1>3, InitPrograms
  <2> QED
    BY <1>0, <1>3, <2>1, InitPrograms DEF Resources
<1>4. CASE driver = "thread"
  <2>1. /\ Len(L!InitProgram) = 3 /\ L!InitProgram[1] = "workqueue" /\ L!InitProgram[2] = "work"
        /\ L!InitProgram[3] = "kthread"
    BY <1>4, InitPrograms
  <2>2. ip = 1 \/ ip = 2 \/ ip = 3
    BY <1>0, <2>1
  <2>3. \/ ip = 1 /\ r = "workqueue"
        \/ ip = 2 /\ r = "work"
        \/ ip = 3 /\ r = "kthread"
    BY <1>0, <2>1, <2>2, Zenon
  <2> QED
    BY <1>0, <1>4, <2>3 DEF Resources
<1> QED
  BY <1>1, <1>2, <1>3, <1>4 DEF LType, L!Drivers

(* At which step each resource is given back.                              *)
LEMMA AtExitStep ==
  ASSUME LType, NEW r, L!AtExit(r)
  PROVE  /\ stage = "going"
         /\ driver \in {"cdev", "globalfifo"} =>
              \/ ip = 1 /\ r = "cdev"
              \/ ip = 2 /\ r = "mem"
              \/ ip = 3 /\ r = "region"
         /\ driver \in {"timer", "hrtimer"} => ip = 1 /\ r = "timer"
         /\ driver = "thread" =>
              \/ ip = 1 /\ r = "kthread"
              \/ ip = 2 /\ r = "work"
              \/ ip = 3 /\ r = "workqueue"
<1>0. stage = "going" /\ ip \in Nat \ {0} /\ ip =< Len(L!ExitProgram) /\ r = L!ExitProgram[ip]
  BY DEF L!AtExit, LType
<1>1. CASE driver \in {"cdev", "globalfifo"}
  <2>1. /\ Len(L!ExitProgram) = 3 /\ L!ExitProgram[1] = "cdev" /\ L!ExitProgram[2] = "mem"
        /\ L!ExitProgram[3] = "region"
    BY <1>1, ExitPrograms
  <2>2. ip = 1 \/ ip = 2 \/ ip = 3
    BY <1>0, <2>1
  <2>3. \/ ip = 1 /\ r = "cdev"
        \/ ip = 2 /\ r = "mem"
        \/ ip = 3 /\ r = "region"
    BY <1>0, <2>1, <2>2, Zenon
  <2> QED
    BY <1>0, <1>1, <2>3
<1>2. CASE driver \in {"timer", "hrtimer"}
  <2>1. ip = 1
    BY <1>0, <1>2, ExitPrograms
  <2> QED
    BY <1>0, <1>2, <2>1, ExitPrograms
<1>3. CASE driver = "thread"
  <2>1. /\ Len(L!ExitProgram) = 3 /\ L!ExitProgram[1] = "kthread" /\ L!ExitProgram[2] = "work"
        /\ L!ExitProgram[3] = "workqueue"
    BY <1>3, ExitPrograms
  <2>2. ip = 1 \/ ip = 2 \/ ip = 3
    BY <1>0, <2>1
  <2>3. \/ ip = 1 /\ r = "kthread"
        \/ ip = 2 /\ r = "work"
        \/ ip = 3 /\ r = "workqueue"
    BY <1>0, <2>1, <2>2, Zenon
  <2> QED
    BY <1>0, <1>3, <2>3
<1> QED
  BY <1>1, <1>2, <1>3 DEF LType, L!Drivers

(* What the order of the steps implies of what is held.                    *)
LEMMA HeldOrder ==
  ASSUME LType, HeldBySteps
  PROVE  /\ "cdev" \in held /\ stage \in {"loading", "loaded"} =>
              /\ driver \in {"cdev", "globalfifo"} /\ {"mem", "region"} \subseteq held
              /\ driver = "cdev" => "locks" \in held
         /\ "work" \in held => driver = "thread" /\ "workqueue" \in held
         /\ "kthread" \in held => driver = "thread" /\ stage # "failing"
         /\ "timer" \in held => driver \in {"timer", "hrtimer"}
<1> USE DEF LType, HeldBySteps, L!Drivers
<1>1. CASE stage \in {"loading", "loaded"}
  BY <1>1 DEF Loading
<1>2. CASE stage = "going"
  BY <1>2 DEF Unloading
<1>3. CASE stage = "failing" \/ stage = "gone"
  BY <1>3
<1> QED
  BY <1>1, <1>2, <1>3

-----------------------------------------------------------------------------
(* Every step keeps the types.                                             *)
LEMMA TypeInductive ==
  ASSUME LType, [L!Next]_(L!vars)
  PROVE  LType'
<1> USE DEF LType
<1>u. CASE UNCHANGED L!vars
  BY <1>u DEF L!vars, L!activity
<1>1. CASE L!init_step
  <2>1. PICK r \in Resources :
          /\ held' = held \cup {r} /\ ip' = ip + 1
          /\ timer' = IF r = "timer" THEN "pending" ELSE timer
          /\ work' = IF r = "work" THEN "queued" ELSE work
          /\ kthread' = IF r = "kthread" THEN "awake" ELSE kthread
          /\ UNCHANGED <<driver, stage, file, early>>
    BY <1>1 DEF L!init_step, Resources
  <2> QED
    BY <2>1
<1>2. CASE L!fail_malloc \/ L!hello_setup_cdev_fails \/ L!kthread_run_fails \/ L!init_failed
           \/ L!init_done
  BY <1>2 DEF L!fail_malloc, L!hello_setup_cdev_fails, L!kthread_run_fails, L!init_failed, L!init_done, L!activity
<1>3. CASE L!rmmod \/ L!exit_done
  BY <1>3 DEF L!rmmod, L!exit_done, L!activity
<1>4. CASE L!exit_step
  BY <1>4 DEF L!exit_step
<1>5. CASE L!timer_expires \/ L!timer_callback \/ L!hrtimer_callback
  BY <1>5 DEF L!timer_expires, L!timer_callback, L!hrtimer_callback, L!Timer
<1>6. CASE L!workqueue_function \/ L!thread_function
  BY <1>6 DEF L!workqueue_function, L!thread_function
<1>7. ASSUME NEW u \in Users, L!hello_open(u) \/ L!operation(u) \/ L!hello_release(u) PROVE LType'
  <2>1. \E f \in {"closed", "open", "busy"} : file' = [file EXCEPT ![u] = f]
    BY <1>7 DEF L!hello_open, L!operation, L!hello_release, L!File
  <2>2. file' \in [Users -> {"closed", "open", "busy"}]
    BY <2>1
  <2>3. early' \in BOOLEAN
    BY <1>7 DEF L!hello_open, L!operation, L!hello_release
  <2>4. UNCHANGED <<driver, stage, ip, held, timer, work, kthread>>
    BY <1>7 DEF L!hello_open, L!operation, L!hello_release
  <2> QED
    BY <2>2, <2>3, <2>4
<1> QED
  BY <1>u, <1>1, <1>2, <1>3, <1>4, <1>5, <1>6, <1>7 DEF L!Next, L!Load, L!Unload, L!Callback

(* Steps of files and callbacks change nothing that is held.               *)
LEMMA HeldKept ==
  ASSUME LType, HeldBySteps, UNCHANGED <<driver, stage, ip, held>>
  PROVE  HeldBySteps'
<1>1. L!InitProgram' = L!InitProgram
  BY ProgramsKept
<1> QED
  BY <1>1 DEF HeldBySteps, Loading, Unloading

(* Every step of an init or exit function keeps what is held in order.     *)
LEMMA HeldInductive ==
  ASSUME LType, HeldBySteps, [L!Next]_(L!vars)
  PROVE  HeldBySteps'
<1>0. UNCHANGED driver
  BY DEF L!Next, L!vars, L!Load, L!Unload, L!Callback, L!init_step, L!fail_malloc, L!hello_setup_cdev_fails,
     L!kthread_run_fails, L!init_failed, L!init_done, L!rmmod, L!exit_step, L!exit_done, L!timer_expires,
     L!timer_callback, L!hrtimer_callback, L!Timer, L!workqueue_function, L!thread_function, L!hello_open,
     L!operation, L!hello_release
<1>p. L!InitProgram' = L!InitProgram
  BY <1>0, ProgramsKept
<1>d. driver \in {"cdev", "globalfifo", "timer", "hrtimer", "thread"}
  BY DEF LType, L!Drivers
<1>t. ip \in Nat \ {0} /\ stage \in {"loading", "failing", "loaded", "going", "gone"}
  BY DEF LType
<1>u. CASE UNCHANGED L!vars
  BY <1>u, HeldKept DEF L!vars
<1>1. CASE L!init_step
  <2>1. PICK r \in Resources :
          L!AtInit(r) /\ held' = held \cup {r} /\ ip' = ip + 1 /\ UNCHANGED stage
    BY <1>1 DEF L!init_step, Resources
  <2>2. stage = "loading" /\ Loading
    BY <2>1 DEF L!AtInit, HeldBySteps
  <2>3. Loading'
    <3>1. CASE driver = "cdev"
      BY <1>0, <1>t, <2>1, <2>2, <3>1, AtInitStep DEF Loading
    <3>2. CASE driver = "globalfifo"
      BY <1>0, <1>t, <2>1, <2>2, <3>2, AtInitStep DEF Loading
    <3>3. CASE driver \in {"timer", "hrtimer"}
      BY <1>0, <1>t, <2>1, <2>2, <3>3, AtInitStep DEF Loading
    <3>4. CASE driver = "thread"
      BY <1>0, <1>t, <2>1, <2>2, <3>4, AtInitStep DEF Loading
    <3> QED
      BY <1>d, <3>1, <3>2, <3>3, <3>4
  <2> QED
    BY <2>1, <2>2, <2>3 DEF HeldBySteps
<1>2. CASE L!fail_malloc
  <2>1. PICK r \in {"region", "mem", "workqueue"} : L!AtInit(r)
    BY <1>2 DEF L!fail_malloc
  <2>2. stage = "loading" /\ Loading /\ stage' = "gone" /\ held' = held \ {"region"}
    BY <1>2, <2>1 DEF L!fail_malloc, L!AtInit, HeldBySteps
  <2>3. held' = {}
    BY <1>d, <1>t, <2>1, <2>2, AtInitStep DEF Loading
  <2> QED
    BY <2>2, <2>3 DEF HeldBySteps
<1>3. CASE L!hello_setup_cdev_fails
  <2>1. L!AtInit("cdev") /\ ip' = ip + 1 /\ UNCHANGED <<stage, held>>
    BY <1>3 DEF L!hello_setup_cdev_fails
  <2>2. stage = "loading" /\ Loading
    BY <2>1 DEF L!AtInit, HeldBySteps
  <2>3. Loading'
    BY <1>0, <1>d, <1>t, <2>1, <2>2, AtInitStep DEF Loading
  <2> QED
    BY <2>1, <2>2, <2>3 DEF HeldBySteps
<1>4. CASE L!kthread_run_fails
  <2>1. L!AtInit("kthread") /\ stage' = "failing" /\ UNCHANGED held
    BY <1>4 DEF L!kthread_run_fails
  <2>2. Loading /\ driver = "thread" /\ ip = 3
    BY <1>d, <2>1, AtInitStep DEF HeldBySteps
  <2>3. held = {"workqueue", "work"}
    BY <2>2 DEF Loading
  <2> QED
    BY <1>0, <2>1, <2>2, <2>3 DEF HeldBySteps
<1>5. CASE L!init_failed
  BY <1>5 DEF L!init_failed, HeldBySteps
<1>6. CASE L!init_done
  <2>1. /\ stage = "loading" /\ ip > Len(L!InitProgram) /\ stage' = "loaded"
        /\ UNCHANGED <<ip, held>> /\ Loading
    BY <1>6 DEF L!init_done, HeldBySteps
  <2>2. ip = Len(L!InitProgram) + 1
    BY <1>d, <1>t, <2>1, InitPrograms DEF Loading
  <2>3. Loading'
    BY <1>0, <1>p, <2>1, <2>2 DEF Loading
  <2> QED
    BY <2>1, <2>3 DEF HeldBySteps
<1>7. CASE L!rmmod
  <2>1. stage = "loaded" /\ stage' = "going" /\ ip' = 1 /\ UNCHANGED held /\ Loading
    BY <1>7 DEF L!rmmod, HeldBySteps
  <2>2. ip = Len(L!InitProgram) + 1
    BY <2>1 DEF Loading
  <2>3. Unloading'
    BY <1>0, <1>d, <2>1, <2>2, InitPrograms DEF Loading, Unloading
  <2> QED
    BY <2>1, <2>3 DEF HeldBySteps
<1>8. CASE L!exit_step
  <2>1. PICK r \in held \cup {"cdev"} :
          L!AtExit(r) /\ held' = held \ {r} /\ ip' = ip + 1 /\ UNCHANGED stage
    BY <1>8 DEF L!exit_step
  <2>2. stage = "going" /\ Unloading
    BY <2>1 DEF L!AtExit, HeldBySteps
  <2>3. Unloading'
    <3>1. CASE driver \in {"cdev", "globalfifo"}
      BY <1>0, <1>t, <2>1, <2>2, <3>1, AtExitStep DEF Unloading
    <3>2. CASE driver \in {"timer", "hrtimer"}
      BY <1>0, <1>t, <2>1, <2>2, <3>2, AtExitStep DEF Unloading
    <3>3. CASE driver = "thread"
      BY <1>0, <1>t, <2>1, <2>2, <3>3, AtExitStep DEF Unloading
    <3> QED
      BY <1>d, <3>1, <3>2, <3>3
  <2> QED
    BY <2>1, <2>2, <2>3 DEF HeldBySteps
<1>9. CASE L!exit_done
  <2>1. stage = "going" /\ Unloading /\ ip > Len(L!ExitProgram)
        /\ stage' = "gone" /\ held' = held \ {"locks"}
    BY <1>9 DEF L!exit_done, HeldBySteps
  <2>2. held' = {}
    BY <1>d, <1>t, <2>1, ExitPrograms DEF Unloading
  <2> QED
    BY <2>1, <2>2 DEF HeldBySteps
<1>10. CASE L!timer_expires \/ L!timer_callback \/ L!hrtimer_callback
  BY <1>10, HeldKept DEF L!timer_expires, L!timer_callback, L!hrtimer_callback, L!Timer
<1>11. CASE L!workqueue_function \/ L!thread_function
  BY <1>11, HeldKept DEF L!workqueue_function, L!thread_function
<1>12. ASSUME NEW u \in Users, L!hello_open(u) \/ L!operation(u) \/ L!hello_release(u)
       PROVE  HeldBySteps'
  BY <1>12, HeldKept DEF L!hello_open, L!operation, L!hello_release
<1> QED
  BY <1>u, <1>1, <1>2, <1>3, <1>4, <1>5, <1>6, <1>7, <1>8, <1>9, <1>10, <1>11, <1>12
     DEF L!Next, L!Load, L!Unload, L!Callback

(* Every step keeps what runs among what is held: a step that starts       *)
(* something takes it, and a step that gives it back has waited for it.    *)
LEMMA RunningInductive ==
  ASSUME LType, HeldBySteps, RunningIsHeld, [L!Next]_(L!vars)
  PROVE  RunningIsHeld'
<1> USE DEF RunningIsHeld
<1>o. /\ "cdev" \in held /\ stage \in {"loading", "loaded"} =>
           /\ driver \in {"cdev", "globalfifo"} /\ {"mem", "region"} \subseteq held
           /\ driver = "cdev" => "locks" \in held
      /\ "work" \in held => driver = "thread" /\ "workqueue" \in held
      /\ "kthread" \in held => driver = "thread" /\ stage # "failing"
      /\ "timer" \in held => driver \in {"timer", "hrtimer"}
  BY HeldOrder
<1>u. CASE UNCHANGED L!vars
  BY <1>u DEF L!vars, L!activity
<1>1. CASE L!init_step
  <2>1. PICK r \in Resources :
          /\ L!AtInit(r) /\ held' = held \cup {r}
          /\ timer' = IF r = "timer" THEN "pending" ELSE timer
          /\ work' = IF r = "work" THEN "queued" ELSE work
          /\ kthread' = IF r = "kthread" THEN "awake" ELSE kthread
          /\ UNCHANGED <<driver, stage, file, early>>
    BY <1>1 DEF L!init_step, Resources
  <2> QED
    BY <2>1
<1>2. CASE L!fail_malloc
  <2>1. PICK r \in {"region", "mem", "workqueue"} : L!AtInit(r)
    BY <1>2 DEF L!fail_malloc
  <2>2. stage = "loading" /\ Loading
    BY <2>1 DEF L!AtInit, HeldBySteps
  <2>3. held \subseteq {"region"}
    BY <2>1, <2>2, AtInitStep DEF Loading, LType, L!Drivers
  <2> QED
    BY <1>2, <2>3 DEF L!fail_malloc, L!activity
<1>3. CASE L!hello_setup_cdev_fails \/ L!init_done
  BY <1>3 DEF L!hello_setup_cdev_fails, L!init_done, L!activity
<1>4. CASE L!kthread_run_fails
  <2>1. L!AtInit("kthread")
    BY <1>4 DEF L!kthread_run_fails
  <2>2. driver = "thread"
    BY <2>1, AtInitStep DEF LType, L!Drivers
  <2>3. \A u \in Users : file[u] = "closed"
    BY <1>o, <2>2
  <2> QED
    BY <1>4, <2>3 DEF L!kthread_run_fails, L!activity
<1>5. CASE L!init_failed
  <2>1. held = {"workqueue", "work"} /\ work = "idle" /\ stage = "failing"
    BY <1>5 DEF L!init_failed, HeldBySteps
  <2> QED
    BY <1>5, <2>1 DEF L!init_failed, L!activity
<1>6. CASE L!rmmod
  BY <1>6 DEF L!rmmod, L!activity
<1>7. CASE L!exit_step
  <2>1. PICK r \in held \cup {"cdev"} :
          /\ L!AtExit(r) /\ L!returns(r) /\ held' = held \ {r}
          /\ timer' = IF r # "timer" THEN timer ELSE IF timer = "pending" THEN "idle" ELSE timer
          /\ UNCHANGED <<driver, stage, file, early, work, kthread>>
    BY <1>7 DEF L!exit_step
  <2>2. stage = "going"
    BY <2>1 DEF L!AtExit
  <2>3. /\ r = "timer" => timer \in {"idle", "pending"}
        /\ r = "kthread" => kthread = "done"
        /\ r = "work" => work = "idle"
    BY <2>1 DEF L!returns
  <2> QED
    BY <2>1, <2>2, <2>3
<1>8. CASE L!exit_done
  BY <1>8 DEF L!exit_done, L!activity
<1>9. CASE L!timer_expires \/ L!timer_callback \/ L!hrtimer_callback
  BY <1>9 DEF L!timer_expires, L!timer_callback, L!hrtimer_callback, L!Timer
<1>10. CASE L!workqueue_function \/ L!thread_function
  BY <1>10 DEF L!workqueue_function, L!thread_function
<1>11. ASSUME NEW u \in Users, L!hello_open(u) PROVE RunningIsHeld'
  BY <1>11 DEF L!hello_open, L!File, LType
<1>12. ASSUME NEW u \in Users, L!operation(u) PROVE RunningIsHeld'
  <2>1. "cdev" \in held /\ stage \in {"loading", "loaded"}
    BY <1>12 DEF L!operation, L!File
  <2>2. early' => driver = "globalfifo"
    BY <1>12, <1>o, <2>1 DEF L!operation, LType
  <2> QED
    BY <1>12, <2>1, <2>2 DEF L!operation, L!File, LType
<1>13. ASSUME NEW u \in Users, L!hello_release(u) PROVE RunningIsHeld'
  BY <1>13 DEF L!hello_release, L!File, LType
<1> QED
  BY <1>u, <1>1, <1>2, <1>3, <1>4, <1>5, <1>6, <1>7, <1>8, <1>9, <1>10, <1>11, <1>12, <1>13
     DEF L!Next, L!Load, L!Unload, L!Callback

(* The inductive invariant holds in every run, whichever module it is.     *)
THEOREM LifecycleIInv == L!Spec => []LInv
<1>1. ASSUME L!Init PROVE LInv
  <2>1. LType
    <3>1. early \in BOOLEAN /\ held \in SUBSET Resources
      BY <1>1, Zenon DEF L!Init
    <3>2. file \in [Users -> {"closed", "open", "busy"}] /\ ip \in Nat \ {0}
      BY <1>1 DEF L!Init
    <3> QED
      BY <1>1, <3>1, <3>2 DEF L!Init, LType
  <2>2. Loading
    BY <1>1 DEF L!Init, Loading
  <2> QED
    BY <1>1, <2>1, <2>2 DEF L!Init, LInv, HeldBySteps, RunningIsHeld
<1>2. ASSUME LInv, [L!Next]_(L!vars) PROVE LInv'
  BY <1>2, TypeInductive, HeldInductive, RunningInductive DEF LInv
<1> QED
  BY <1>1, <1>2, PTL DEF L!Spec

(* For any number of users, whichever step of an init function fails and   *)
(* whenever rmmod comes: no file without its device, no work without its   *)
(* queue, nothing left or running when the module is gone.                 *)
THEOREM NothingOutlivesTheorem == L!Spec => []NothingOutlives
<1>1. ASSUME LInv PROVE NothingOutlives
  <2>1. LType /\ HeldBySteps /\ RunningIsHeld
    BY <1>1 DEF LInv
  <2>2. /\ "cdev" \in held /\ stage \in {"loading", "loaded"} => {"mem", "region"} \subseteq held
        /\ "work" \in held => "workqueue" \in held
    BY <2>1, HeldOrder
  <2>3. stage = "gone" => held = {}
    BY <2>1 DEF HeldBySteps
  <2> QED
    BY <2>1, <2>2, <2>3 DEF RunningIsHeld, NothingOutlives, L!NothingOutlives, LType
<1> QED
  BY <1>1, LifecycleIInv, PTL
=============================================================================
