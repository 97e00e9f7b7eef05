-------------------------- MODULE GlobalFifoProofs --------------------------
(***************************************************************************)
(* Proofs about GlobalFifo for any set of tasks, any capacity, any         *)
(* requests and whichever memcpy the build has.                            *)
(***************************************************************************)
EXTENDS GlobalFifo, SequenceTheorems, TLAPS

(* A finite function on 1 .. n is a sequence.                              *)
LEMMA FunctionIsSeq ==
  ASSUME NEW S, NEW n \in Nat, NEW f \in [1 .. n -> S]
  PROVE  f \in Seq(S) /\ Len(f) = n
OBVIOUS

(* The least of two naturals is a natural bounded by both.                 *)
LEMMA LesserBound ==
  ASSUME NEW m \in Nat, NEW n \in Nat
  PROVE  Lesser(m, n) \in Nat /\ Lesser(m, n) =< m /\ Lesser(m, n) =< n
BY DEF Lesser

(* The empty buffer is a sequence of bytes.                                *)
LEMMA EmptyBuffer == << >> \in Seq(Bytes)
OBVIOUS

(* TypeOK bounds current_len by the capacity.                              *)
LEMMA LenBound ==
  ASSUME TypeOK
  PROVE  /\ current_len \in Nat /\ HELLODEV_SIZE \in Nat \ {0}
         /\ current_len =< HELLODEV_SIZE /\ HELLODEV_SIZE - current_len \in Nat
BY GlobalFifoAssumption DEF TypeOK

(* What copy_to_user takes from the front of mem is a sequence of bytes.   *)
LEMMA FrontOfMem ==
  ASSUME NEW m \in [Index -> Bytes], NEW c \in Nat, c =< HELLODEV_SIZE
  PROVE  [i \in 1 .. c |-> m[i - 1]] \in Seq(Bytes)
<1>1. \A i \in 1 .. c : i - 1 \in Index
  BY GlobalFifoAssumption DEF Index
<1>2. [i \in 1 .. c |-> m[i - 1]] \in [1 .. c -> Bytes]
  BY <1>1
<1> QED
  BY <1>2, FunctionIsSeq

(* memcpy within the buffer leaves bytes in it, whether or not the areas   *)
(* overlap.                                                                *)
LEMMA ShiftKeepsBytes ==
  ASSUME mem \in [Index -> Bytes], NEW c \in Nat, NEW n \in Nat,
         c + n =< HELLODEV_SIZE, NEW m \in memcpy_down(c, n)
  PROVE  m \in [Index -> Bytes]
<1>1. \A i \in Index : i < n => i + c \in Index
  BY GlobalFifoAssumption DEF Index
<1>2. CASE c = 0 \/ c >= n \/ OverlapMoves
  <2>1. m = [i \in Index |-> IF i < n THEN mem[i + c] ELSE mem[i]]
    BY <1>2 DEF memcpy_down
  <2> QED
    BY <1>1, <2>1
<1>3. CASE ~(c = 0 \/ c >= n \/ OverlapMoves)
  BY <1>3 DEF memcpy_down
<1> QED
  BY <1>2, <1>3

(* Linking or unlinking an entry leaves both lists and the stale entries   *)
(* sets of tasks, also when the access tears the list.                     *)
LEMMA ListType ==
  ASSUME NEW t \in Tasks, wq \in [Queues -> SUBSET Tasks], stale \subseteq Tasks,
         oops \in BOOLEAN, list_add(t) \/ list_del(t)
  PROVE  wq' \in [Queues -> SUBSET Tasks] /\ stale' \subseteq Tasks /\ oops' \in BOOLEAN
<1> DEFINE q == ListOf(pc[t])
<1>1. q \in Queues
  BY DEF ListOf, Queues
<1>2. Inside(q) \subseteq Tasks /\ Enlisted(q) \subseteq Tasks
  BY DEF Inside, Enlisted
<1> HIDE DEF q
<1>3. ASSUME NEW live \in SUBSET Tasks, NEW gone \in SUBSET Tasks, TearList(q, live, gone)
      PROVE  wq' \in [Queues -> SUBSET Tasks] /\ stale' \subseteq Tasks /\ oops' \in BOOLEAN
  BY <1>1, <1>3 DEF TearList
<1>4. CASE list_add(t)
  <2>1. CASE wq' = [wq EXCEPT ![q] = @ \cup {t}] /\ UNCHANGED <<stale, oops>>
    BY <1>1, <2>1
  <2>2. CASE TearList(q, Enlisted(q) \cup {t}, Inside(q) \ {t})
    BY <1>2, <1>3, <2>2
  <2> QED
    BY <1>4, <2>1, <2>2 DEF list_add, q
<1>5. CASE list_del(t)
  <2>1. CASE /\ wq' = [wq EXCEPT ![q] = @ \ {t}] /\ UNCHANGED stale
             /\ MayFault("w_wake" \in Overlaps(t))
    BY <1>1, <2>1 DEF MayFault
  <2>2. CASE TearList(q, Enlisted(q) \ {t}, {t})
    BY <1>2, <1>3, <2>2
  <2> QED
    BY <1>5, <2>1, <2>2 DEF list_del, q
<1> QED
  BY <1>4, <1>5

(* Waking makes tasks runnable, those linked at least.                     *)
LEMMA WakeType ==
  ASSUME NEW t \in Tasks, state \in [Tasks -> {"RUNNING", "INTERRUPTIBLE"}],
         oops \in BOOLEAN, wake_up(t)
  PROVE  /\ state' \in [Tasks -> {"RUNNING", "INTERRUPTIBLE"}]
         /\ stale' = stale /\ oops' \in BOOLEAN
         /\ \A u \in Tasks : state'[u] = state[u] \/ state'[u] = "RUNNING"
         /\ \A u \in Tasks : u \in wq[ListOf(pc[t])] => state'[u] = "RUNNING"
<1>1. stale' = stale /\ oops' \in BOOLEAN
  BY DEF wake_up, MayFault
<1>2. PICK dead : state' = [u \in Tasks |-> IF u \in wq[ListOf(pc[t])] \cup dead
                                            THEN "RUNNING" ELSE state[u]]
  BY DEF wake_up
<1> QED
  BY <1>1, <1>2

-----------------------------------------------------------------------------
(* A step of t that only moves t on, releases the mutex, and sets t's      *)
(* scheduler state or its ret.                                             *)
LEMMA TypeMove ==
  ASSUME TypeOK, NEW t \in Tasks, NEW l \in Labels, pc' = [pc EXCEPT ![t] = l],
         mutex' \in {mutex, NoTask},
         \E s \in {"RUNNING", "INTERRUPTIBLE", state[t]} : state' = [state EXCEPT ![t] = s],
         \E r \in {EAGAIN, ERESTARTSYS, ret[t]} : ret' = [ret EXCEPT ![t] = r],
         UNCHANGED <<mem, current_len, wq, spin, stale, oops, sig, count, nonblock, rbuf, wbuf>>
  PROVE  TypeOK'
<1>1. pc' \in [Tasks -> Labels]
  BY DEF TypeOK
<1>2. state' \in [Tasks -> {"RUNNING", "INTERRUPTIBLE"}]
  BY DEF TypeOK
<1>3. ret' \in [Tasks -> {EAGAIN, EFAULT, ERESTARTSYS} \cup Nat]
  BY DEF TypeOK
<1>4. mutex' \in Tasks \cup {NoTask}
  BY DEF TypeOK
<1> QED
  BY <1>1, <1>2, <1>3, <1>4 DEF TypeOK

(* Every step keeps the types.                                             *)
LEMMA TypeInductive ==
  ASSUME TypeOK, CountFits, [Next]_vars
  PROVE  TypeOK'
<1> USE DEF TypeOK, device, queues, locals
<1>l. /\ \A l \in MutexPoints : AfterLock(l) \in Labels
      /\ {"r_lock", "r_test", "r_sched", "r_relock", "r_copy"} \subseteq Labels
      /\ {"r_shift", "r_wake", "r_out", "r_out2"} \subseteq Labels
      /\ {"w_lock", "w_test", "w_sched", "w_relock", "w_copy"} \subseteq Labels
      /\ {"w_commit", "w_wake", "w_out", "w_out2"} \subseteq Labels
      /\ {"idle", "c_lock", "p_lock", "p_add_w", "p_relock"} \subseteq Labels
  BY DEF MutexPoints, AfterLock, Labels, ReadLabels, WriteLabels, PollLabels
<1>q. ASSUME NEW l PROVE SpinOf(l) \in Queues /\ ListOf(l) \in Queues
  BY DEF SpinOf, ListOf, Queues
<1>u. CASE UNCHANGED vars
  BY <1>u DEF vars
<1>1. ASSUME NEW t \in Tasks, mutex_lock(t) PROVE TypeOK'
  BY <1>1, <1>l DEF mutex_lock
<1>2. ASSUME NEW t \in Tasks, spin_lock(t) PROVE TypeOK'
  BY <1>2, <1>q DEF spin_lock
<1>3. ASSUME NEW t \in Tasks, read_add_wait_queue(t) PROVE TypeOK'
  <2>1. wq' \in [Queues -> SUBSET Tasks] /\ stale' \subseteq Tasks /\ oops' \in BOOLEAN
    BY <1>3, ListType DEF read_add_wait_queue
  <2> QED
    BY <1>3, <1>l, <1>q, <2>1 DEF read_add_wait_queue, Step, spin_unlock
<1>4. ASSUME NEW t \in Tasks, read_test(t) PROVE TypeOK'
  <2>1. /\ \E l \in {"r_copy", "r_out", "r_sched"} : pc' = [pc EXCEPT ![t] = l]
        /\ mutex' \in {mutex, NoTask}
    BY <1>4 DEF read_test, Step, mutex_unlock
  <2>2. \E s \in {"INTERRUPTIBLE", state[t]} : state' = [state EXCEPT ![t] = s]
    BY <1>4 DEF read_test
  <2>3. \E r \in {EAGAIN, ret[t]} : ret' = [ret EXCEPT ![t] = r]
    BY <1>4 DEF read_test
  <2>4. UNCHANGED <<mem, current_len, wq, spin, stale, oops, sig, count, nonblock, rbuf, wbuf>>
    BY <1>4 DEF read_test
  <2> HIDE DEF TypeOK
  <2> QED
    BY <1>l, <2>1, <2>2, <2>3, <2>4, TypeMove
<1>5. ASSUME NEW t \in Tasks, read_schedule(t) PROVE TypeOK'
  <2>1. /\ \E l \in {"r_out2", "r_relock"} : pc' = [pc EXCEPT ![t] = l]
        /\ mutex' = mutex
    BY <1>5 DEF read_schedule, Step
  <2>2. \E s \in {"RUNNING", state[t]} : state' = [state EXCEPT ![t] = s]
    BY <1>5 DEF read_schedule
  <2>3. \E r \in {ERESTARTSYS, ret[t]} : ret' = [ret EXCEPT ![t] = r]
    BY <1>5 DEF read_schedule
  <2>4. UNCHANGED <<mem, current_len, wq, spin, stale, oops, sig, count, nonblock, rbuf, wbuf>>
    BY <1>5 DEF read_schedule
  <2> HIDE DEF TypeOK
  <2> QED
    BY <1>l, <2>1, <2>2, <2>3, <2>4, TypeMove
<1>6. ASSUME NEW t \in Tasks, read_copy_to_user(t) PROVE TypeOK'
  <2> DEFINE c == read_count(t)
  <2>1. c \in Nat /\ c =< current_len
    BY LesserBound, LenBound DEF read_count
  <2>2. [i \in 1 .. c |-> mem[i - 1]] \in Seq(Bytes)
    <3> HIDE DEF c
    <3>1. mem \in [Index -> Bytes]
      OBVIOUS
    <3>2. current_len \in Nat /\ current_len =< HELLODEV_SIZE
      BY LenBound
    <3>3. c =< HELLODEV_SIZE
      BY <2>1, <3>2, GlobalFifoAssumption
    <3> QED
      BY <2>1, <3>1, <3>3, FrontOfMem
  <2>3. count' = [count EXCEPT ![t] = c]
    BY <1>6 DEF read_copy_to_user
  <2>4. \/ rbuf' = rbuf
        \/ rbuf' = [rbuf EXCEPT ![t] = [i \in 1 .. c |-> mem[i - 1]]]
    BY <1>6 DEF read_copy_to_user
  <2> HIDE DEF c
  <2>5. rbuf' \in [Tasks -> Seq(Bytes)]
    BY <2>2, <2>4
  <2>6. count' \in [Tasks -> Nat]
    BY <2>1, <2>3
  <2>7. pc' \in [Tasks -> Labels]
    BY <1>6, <1>l DEF read_copy_to_user, Step
  <2>8. ret' = ret \/ ret' = [ret EXCEPT ![t] = EFAULT]
    BY <1>6 DEF read_copy_to_user
  <2>9. ret' \in [Tasks -> {EAGAIN, EFAULT, ERESTARTSYS} \cup Nat]
    BY <2>8
  <2> QED
    BY <1>6, <2>5, <2>6, <2>7, <2>9 DEF read_copy_to_user
<1>7. ASSUME NEW t \in Tasks, read_consume(t) PROVE TypeOK'
  <2>1. count[t] \in Nat /\ count[t] =< current_len
    BY <1>7 DEF read_consume, Step, CountFits, Clipped
  <2>2. current_len' \in 0 .. HELLODEV_SIZE
    BY <1>7, <2>1, LenBound DEF read_consume
  <2>3. mem' \in [Index -> Bytes]
    <3>1. /\ current_len - count[t] \in Nat
          /\ count[t] + (current_len - count[t]) =< HELLODEV_SIZE
      BY <2>1, LenBound
    <3>2. mem' \in memcpy_down(count[t], current_len - count[t])
      BY <1>7 DEF read_consume
    <3> QED
      BY <2>1, <3>1, <3>2, ShiftKeepsBytes
  <2> QED
    BY <1>7, <1>l, <2>2, <2>3 DEF read_consume, Step
<1>8. ASSUME NEW t \in Tasks, read_wake_up(t) PROVE TypeOK'
  <2>1. /\ state' \in [Tasks -> {"RUNNING", "INTERRUPTIBLE"}]
        /\ stale' = stale /\ oops' \in BOOLEAN
    BY <1>8, WakeType DEF read_wake_up
  <2> QED
    BY <1>8, <1>l, <1>q, <2>1 DEF read_wake_up, Step, spin_unlock
<1>9. ASSUME NEW t \in Tasks, read_out(t) PROVE TypeOK'
  BY <1>9, <1>l DEF read_out, Step, mutex_unlock
<1>10. ASSUME NEW t \in Tasks, read_out2(t) PROVE TypeOK'
  <2>1. wq' \in [Queues -> SUBSET Tasks] /\ stale' \subseteq Tasks /\ oops' \in BOOLEAN
    BY <1>10, ListType DEF read_out2
  <2> QED
    BY <1>10, <1>l, <1>q, <2>1, EmptyBuffer DEF read_out2, ReturnToUser, spin_unlock
<1>11. ASSUME NEW t \in Tasks, write_add_wait_queue(t) PROVE TypeOK'
  <2>1. wq' \in [Queues -> SUBSET Tasks] /\ stale' \subseteq Tasks /\ oops' \in BOOLEAN
    BY <1>11, ListType DEF write_add_wait_queue
  <2> QED
    BY <1>11, <1>l, <1>q, <2>1 DEF write_add_wait_queue, Step, spin_unlock
<1>12. ASSUME NEW t \in Tasks, write_test(t) PROVE TypeOK'
  <2>1. /\ \E l \in {"w_copy", "w_out", "w_sched"} : pc' = [pc EXCEPT ![t] = l]
        /\ mutex' \in {mutex, NoTask}
    BY <1>12 DEF write_test, Step, mutex_unlock
  <2>2. \E s \in {"INTERRUPTIBLE", state[t]} : state' = [state EXCEPT ![t] = s]
    BY <1>12 DEF write_test
  <2>3. \E r \in {EAGAIN, ret[t]} : ret' = [ret EXCEPT ![t] = r]
    BY <1>12 DEF write_test
  <2>4. UNCHANGED <<mem, current_len, wq, spin, stale, oops, sig, count, nonblock, rbuf, wbuf>>
    BY <1>12 DEF write_test
  <2> HIDE DEF TypeOK
  <2> QED
    BY <1>l, <2>1, <2>2, <2>3, <2>4, TypeMove
<1>13. ASSUME NEW t \in Tasks, write_schedule(t) PROVE TypeOK'
  <2>1. /\ \E l \in {"w_out2", "w_relock"} : pc' = [pc EXCEPT ![t] = l]
        /\ mutex' = mutex
    BY <1>13 DEF write_schedule, Step
  <2>2. \E s \in {"RUNNING", state[t]} : state' = [state EXCEPT ![t] = s]
    BY <1>13 DEF write_schedule
  <2>3. \E r \in {ERESTARTSYS, ret[t]} : ret' = [ret EXCEPT ![t] = r]
    BY <1>13 DEF write_schedule
  <2>4. UNCHANGED <<mem, current_len, wq, spin, stale, oops, sig, count, nonblock, rbuf, wbuf>>
    BY <1>13 DEF write_schedule
  <2> HIDE DEF TypeOK
  <2> QED
    BY <1>l, <2>1, <2>2, <2>3, <2>4, TypeMove
<1>14. ASSUME NEW t \in Tasks, write_copy_from_user(t) PROVE TypeOK'
  <2> DEFINE c == write_count(t)
             Filled(k) == [i \in Index |->
                             IF i \in current_len .. current_len + c - 1
                             THEN IF i < current_len + k
                                  THEN wbuf[t][i - current_len + 1] ELSE 0
                             ELSE mem[i]]
  <2>1. c \in Nat /\ c =< count[t] /\ count[t] \in Nat
    BY LesserBound, LenBound DEF write_count
  <2>2. wbuf[t] \in Seq(Bytes) /\ Len(wbuf[t]) = count[t]
    BY <1>14 DEF write_copy_from_user, Step, CountFits, Clipped
  <2>3. count' = [count EXCEPT ![t] = c] /\ \E k \in 0 .. c : mem' = Filled(k)
    <3>1. count' = [count EXCEPT ![t] = c]
      BY <1>14 DEF write_copy_from_user
    <3>2. \/ \E k \in 0 .. c - 1 : mem' = Filled(k)
          \/ mem' = Filled(c)
      BY <1>14 DEF write_copy_from_user
    <3> HIDE DEF c, Filled
    <3> QED
      BY <2>1, <3>1, <3>2
  <2> HIDE DEF c
  <2>4. ASSUME NEW k \in 0 .. c PROVE Filled(k) \in [Index -> Bytes]
    <3>1. \A i \in current_len .. current_len + c - 1 :
            wbuf[t][i - current_len + 1] \in Bytes
      BY <2>1, <2>2, LenBound
    <3>2. 0 \in Bytes
      BY GlobalFifoAssumption
    <3> QED
      BY <3>1, <3>2
  <2>5. mem' \in [Index -> Bytes] /\ count' \in [Tasks -> Nat]
    <3> HIDE DEF Filled
    <3> QED
      BY <2>1, <2>3, <2>4
  <2>6. pc' \in [Tasks -> Labels]
    BY <1>14, <1>l DEF write_copy_from_user, Step
  <2>7. ret' \in [Tasks -> {EAGAIN, EFAULT, ERESTARTSYS} \cup Nat]
    BY <1>14 DEF write_copy_from_user
  <2> QED
    BY <1>14, <2>5, <2>6, <2>7 DEF write_copy_from_user
<1>15. ASSUME NEW t \in Tasks, write_commit(t) PROVE TypeOK'
  <2>1. count[t] \in Nat /\ count[t] =< HELLODEV_SIZE - current_len
    BY <1>15 DEF write_commit, Step, CountFits, Clipped
  <2>2. current_len' \in 0 .. HELLODEV_SIZE
    BY <1>15, <2>1, LenBound DEF write_commit
  <2> QED
    BY <1>15, <1>l, <2>2 DEF write_commit, Step
<1>16. ASSUME NEW t \in Tasks, write_wake_up(t) PROVE TypeOK'
  <2>1. /\ state' \in [Tasks -> {"RUNNING", "INTERRUPTIBLE"}]
        /\ stale' = stale /\ oops' \in BOOLEAN
    BY <1>16, WakeType DEF write_wake_up
  <2> QED
    BY <1>16, <1>l, <1>q, <2>1 DEF write_wake_up, Step, spin_unlock
<1>17. ASSUME NEW t \in Tasks, write_out(t) PROVE TypeOK'
  BY <1>17, <1>l DEF write_out, Step, mutex_unlock
<1>18. ASSUME NEW t \in Tasks, write_out2(t) PROVE TypeOK'
  <2>1. wq' \in [Queues -> SUBSET Tasks] /\ stale' \subseteq Tasks /\ oops' \in BOOLEAN
    BY <1>18, ListType DEF write_out2
  <2> QED
    BY <1>18, <1>l, <1>q, <2>1, EmptyBuffer DEF write_out2, ReturnToUser, spin_unlock
<1>19. ASSUME NEW t \in Tasks, ioctl_mem_clear(t) PROVE TypeOK'
  BY <1>19, <1>l, EmptyBuffer, GlobalFifoAssumption DEF ioctl_mem_clear, mutex_unlock, ReturnToUser
<1>20. ASSUME NEW t \in Tasks, poll_wait(t) PROVE TypeOK'
  <2>1. wq' \in [Queues -> SUBSET Tasks] /\ stale' \subseteq Tasks /\ oops' \in BOOLEAN
    BY <1>20, ListType DEF poll_wait
  <2> QED
    BY <1>20, <1>l, <1>q, <2>1 DEF poll_wait, Step, spin_unlock
<1>21. ASSUME NEW t \in Tasks, hello_read(t) PROVE TypeOK'
  BY <1>21, <1>l, GlobalFifoAssumption DEF hello_read, Step
<1>22. ASSUME NEW t \in Tasks, hello_write(t) PROVE TypeOK'
  <2>0. PICK c \in WriteCounts : \E b \in [1 .. c -> Bytes] :
          count' = [count EXCEPT ![t] = c] /\ wbuf' = [wbuf EXCEPT ![t] = b]
    BY <1>22 DEF hello_write
  <2>1. PICK b \in [1 .. c -> Bytes] :
          count' = [count EXCEPT ![t] = c] /\ wbuf' = [wbuf EXCEPT ![t] = b]
    BY <2>0
  <2>2. c \in Nat /\ b \in Seq(Bytes)
    BY GlobalFifoAssumption, FunctionIsSeq
  <2> QED
    BY <1>22, <1>l, <2>1, <2>2 DEF hello_write, Step
<1>23. ASSUME NEW t \in Tasks, hello_ioctl(t) PROVE TypeOK'
  BY <1>23, <1>l DEF hello_ioctl, Step
<1>24. ASSUME NEW t \in Tasks, hello_poll(t) PROVE TypeOK'
  BY <1>24, <1>l DEF hello_poll, Step
<1>25. ASSUME NEW t \in Tasks, Signal(t) PROVE TypeOK'
  BY <1>25, <1>l DEF Signal
<1> QED
  BY <1>u, <1>1, <1>2, <1>3, <1>4, <1>5, <1>6, <1>7, <1>8, <1>9, <1>10,
     <1>11, <1>12, <1>13, <1>14, <1>15, <1>16, <1>17, <1>18, <1>19, <1>20,
     <1>21, <1>22, <1>23, <1>24, <1>25
  DEF Next, TaskStep, ReadStep, WriteStep, Call
-----------------------------------------------------------------------------
(* The three ways a step of t can respect the mutex discipline: it stays   *)
(* on its side of the critical section, it enters, it leaves.              *)
LEMMA StayAround ==
  ASSUME TypeOK, MutexDiscipline, NEW t \in Tasks, NEW l,
         pc' = [pc EXCEPT ![t] = l], mutex' = mutex,
         pc[t] \in Critical <=> l \in Critical
  PROVE  MutexDiscipline'
BY DEF TypeOK, MutexDiscipline

(* A step of t that takes the free mutex.                                  *)
LEMMA Enter ==
  ASSUME TypeOK, MutexDiscipline, NEW t \in Tasks, NEW l \in Critical,
         pc' = [pc EXCEPT ![t] = l], mutex = NoTask, mutex' = t
  PROVE  MutexDiscipline'
BY GlobalFifoAssumption DEF TypeOK, MutexDiscipline

(* A step of t that releases the mutex.                                    *)
LEMMA Leave ==
  ASSUME TypeOK, MutexDiscipline, NEW t \in Tasks, NEW l,
         pc' = [pc EXCEPT ![t] = l], pc[t] \in Critical, l \notin Critical,
         mutex' = NoTask
  PROVE  MutexDiscipline'
BY GlobalFifoAssumption DEF TypeOK, MutexDiscipline

(* Every step keeps the mutex discipline.                                  *)
LEMMA MutexInductive ==
  ASSUME TypeOK, MutexDiscipline, [Next]_vars
  PROVE  MutexDiscipline'
<1>u. CASE UNCHANGED vars
  BY <1>u DEF vars, MutexDiscipline
<1>1. ASSUME NEW t \in Tasks, mutex_lock(t) PROVE MutexDiscipline'
  <2>1. pc[t] # "p_relock"
    BY <1>1, GlobalFifoAssumption DEF mutex_lock, MutexDiscipline, Critical
  <2>2. AfterLock(pc[t]) \in Critical
    BY <1>1, <2>1 DEF mutex_lock, MutexPoints, AfterLock, Critical
  <2> QED
    BY <1>1, <2>2, Enter DEF mutex_lock
<1>2. ASSUME NEW t \in Tasks, spin_lock(t) PROVE MutexDiscipline'
  BY <1>2 DEF spin_lock, MutexDiscipline
<1>3. ASSUME NEW t \in Tasks, read_add_wait_queue(t) PROVE MutexDiscipline'
  BY <1>3, StayAround DEF read_add_wait_queue, Step, Critical
<1>4. ASSUME NEW t \in Tasks, read_test(t) PROVE MutexDiscipline'
  <2>1. CASE current_len = 0 /\ ~nonblock[t]
    <3>1. pc[t] = "r_test" /\ pc' = [pc EXCEPT ![t] = "r_sched"] /\ mutex' = NoTask
      BY <1>4, <2>1 DEF read_test, Step, mutex_unlock
    <3> QED
      BY <3>1, Leave DEF Critical
  <2>2. CASE ~(current_len = 0 /\ ~nonblock[t])
    <3>1. /\ pc[t] = "r_test" /\ mutex' = mutex
          /\ \E l \in {"r_copy", "r_out"} : pc' = [pc EXCEPT ![t] = l]
      BY <1>4, <2>2 DEF read_test, Step
    <3> QED
      BY <3>1, StayAround DEF Critical
  <2> QED
    BY <2>1, <2>2
<1>5. ASSUME NEW t \in Tasks, read_schedule(t) PROVE MutexDiscipline'
  <2>1. /\ pc[t] \in {"r_sched"} /\ mutex' = mutex
        /\ \E l \in {"r_out2", "r_relock"} : pc' = [pc EXCEPT ![t] = l]
    BY <1>5 DEF read_schedule, Step
  <2> QED
    BY <2>1, StayAround DEF Critical
<1>6. ASSUME NEW t \in Tasks, read_copy_to_user(t) PROVE MutexDiscipline'
  <2>1. /\ pc[t] \in {"r_copy"} /\ mutex' = mutex
        /\ \E l \in {"r_out", "r_shift"} : pc' = [pc EXCEPT ![t] = l]
    BY <1>6 DEF read_copy_to_user, Step
  <2> QED
    BY <2>1, StayAround DEF Critical
<1>7. ASSUME NEW t \in Tasks, read_consume(t) PROVE MutexDiscipline'
  BY <1>7, StayAround DEF read_consume, Step, Critical
<1>8. ASSUME NEW t \in Tasks, read_wake_up(t) PROVE MutexDiscipline'
  BY <1>8, StayAround DEF read_wake_up, Step, Critical
<1>9. ASSUME NEW t \in Tasks, read_out(t) PROVE MutexDiscipline'
  BY <1>9, Leave DEF read_out, Step, mutex_unlock, Critical
<1>10. ASSUME NEW t \in Tasks, read_out2(t) PROVE MutexDiscipline'
  BY <1>10, StayAround DEF read_out2, ReturnToUser, Critical
<1>11. ASSUME NEW t \in Tasks, write_add_wait_queue(t) PROVE MutexDiscipline'
  BY <1>11, StayAround DEF write_add_wait_queue, Step, Critical
<1>12. ASSUME NEW t \in Tasks, write_test(t) PROVE MutexDiscipline'
  <2>1. CASE current_len = HELLODEV_SIZE /\ ~nonblock[t]
    <3>1. pc[t] = "w_test" /\ pc' = [pc EXCEPT ![t] = "w_sched"] /\ mutex' = NoTask
      BY <1>12, <2>1 DEF write_test, Step, mutex_unlock
    <3> QED
      BY <3>1, Leave DEF Critical
  <2>2. CASE ~(current_len = HELLODEV_SIZE /\ ~nonblock[t])
    <3>1. /\ pc[t] = "w_test" /\ mutex' = mutex
          /\ \E l \in {"w_copy", "w_out"} : pc' = [pc EXCEPT ![t] = l]
      BY <1>12, <2>2 DEF write_test, Step
    <3> QED
      BY <3>1, StayAround DEF Critical
  <2> QED
    BY <2>1, <2>2
<1>13. ASSUME NEW t \in Tasks, write_schedule(t) PROVE MutexDiscipline'
  <2>1. /\ pc[t] \in {"w_sched"} /\ mutex' = mutex
        /\ \E l \in {"w_out2", "w_relock"} : pc' = [pc EXCEPT ![t] = l]
    BY <1>13 DEF write_schedule, Step
  <2> QED
    BY <2>1, StayAround DEF Critical
<1>14. ASSUME NEW t \in Tasks, write_copy_from_user(t) PROVE MutexDiscipline'
  <2>1. /\ pc[t] \in {"w_copy"} /\ mutex' = mutex
        /\ \E l \in {"w_out", "w_commit"} : pc' = [pc EXCEPT ![t] = l]
    BY <1>14 DEF write_copy_from_user, Step
  <2> QED
    BY <2>1, StayAround DEF Critical
<1>15. ASSUME NEW t \in Tasks, write_commit(t) PROVE MutexDiscipline'
  BY <1>15, StayAround DEF write_commit, Step, Critical
<1>16. ASSUME NEW t \in Tasks, write_wake_up(t) PROVE MutexDiscipline'
  BY <1>16, StayAround DEF write_wake_up, Step, Critical
<1>17. ASSUME NEW t \in Tasks, write_out(t) PROVE MutexDiscipline'
  BY <1>17, Leave DEF write_out, Step, mutex_unlock, Critical
<1>18. ASSUME NEW t \in Tasks, write_out2(t) PROVE MutexDiscipline'
  BY <1>18, StayAround DEF write_out2, ReturnToUser, Critical
<1>19. ASSUME NEW t \in Tasks, ioctl_mem_clear(t) PROVE MutexDiscipline'
  BY <1>19, Leave DEF ioctl_mem_clear, ReturnToUser, mutex_unlock, Critical
<1>20. ASSUME NEW t \in Tasks, poll_wait(t) PROVE MutexDiscipline'
  <2>1. /\ pc[t] \in {"p_add_r", "p_add_w"} /\ mutex' = mutex
        /\ \E l \in {"p_add_w", "p_relock"} : pc' = [pc EXCEPT ![t] = l]
    BY <1>20 DEF poll_wait, Step
  <2> QED
    BY <2>1, StayAround DEF Critical
<1>21. ASSUME NEW t \in Tasks, hello_read(t) PROVE MutexDiscipline'
  BY <1>21, StayAround DEF hello_read, Step, Critical
<1>22. ASSUME NEW t \in Tasks, hello_write(t) PROVE MutexDiscipline'
  BY <1>22, StayAround DEF hello_write, Step, Critical
<1>23. ASSUME NEW t \in Tasks, hello_ioctl(t) PROVE MutexDiscipline'
  BY <1>23, StayAround DEF hello_ioctl, Step, Critical
<1>24. ASSUME NEW t \in Tasks, hello_poll(t) PROVE MutexDiscipline'
  BY <1>24, StayAround DEF hello_poll, Step, Critical
<1>25. ASSUME NEW t \in Tasks, Signal(t) PROVE MutexDiscipline'
  BY <1>25 DEF Signal, MutexDiscipline
<1> QED
  BY <1>u, <1>1, <1>2, <1>3, <1>4, <1>5, <1>6, <1>7, <1>8, <1>9, <1>10,
     <1>11, <1>12, <1>13, <1>14, <1>15, <1>16, <1>17, <1>18, <1>19, <1>20,
     <1>21, <1>22, <1>23, <1>24, <1>25
  DEF Next, TaskStep, ReadStep, WriteStep, Call

-----------------------------------------------------------------------------
(* A step of t that leaves current_len and the locals of the other tasks   *)
(* alone can only disturb what Clipped says of t.                          *)
LEMMA ClipFrame ==
  ASSUME CountFits, NEW t \in Tasks, current_len' = current_len, Clipped(t)',
         \A u \in Tasks \ {t} :
            pc'[u] = pc[u] /\ count'[u] = count[u] /\ wbuf'[u] = wbuf[u]
  PROVE  CountFits'
BY DEF CountFits, Clipped

(* A step of t outside of the labels that Clipped speaks of and that       *)
(* touches neither current_len nor the buffers keeps CountFits.            *)
LEMMA ClipMove ==
  ASSUME TypeOK, CountFits, NEW t \in Tasks, NEW l,
         pc' = [pc EXCEPT ![t] = l], UNCHANGED <<current_len, count, wbuf>>,
         l \notin {"r_shift", "w_commit"},
         l \in {"w_lock", "w_add", "w_test", "w_sched", "w_relock", "w_copy"} =>
           pc[t] \in {"w_lock", "w_add", "w_test", "w_sched", "w_relock", "w_copy"}
  PROVE  CountFits'
<1>1. Clipped(t)'
  BY DEF TypeOK, CountFits, Clipped
<1> QED
  BY <1>1, ClipFrame DEF TypeOK

(* Every step keeps CountFits: the owner of the mutex is the only one that *)
(* changes current_len, and the only one between its test and its use.     *)
LEMMA CountInductive ==
  ASSUME TypeOK, MutexDiscipline, CountFits, [Next]_vars
  PROVE  CountFits'
<1>o. ASSUME NEW t \in Tasks, NEW u \in Tasks, pc[t] \in Critical, pc[u] \in Critical
      PROVE  t = u
  BY <1>o DEF MutexDiscipline
<1>u. CASE UNCHANGED vars
  BY <1>u DEF vars, device, locals, CountFits, Clipped
<1>1. ASSUME NEW t \in Tasks, mutex_lock(t) PROVE CountFits'
  <2>1. /\ AfterLock(pc[t]) \notin {"r_shift", "w_commit"}
        /\ AfterLock(pc[t]) \in {"w_lock", "w_add", "w_test", "w_sched", "w_relock", "w_copy"} =>
             pc[t] \in {"w_lock", "w_add", "w_test", "w_sched", "w_relock", "w_copy"}
    BY <1>1 DEF mutex_lock, MutexPoints, AfterLock
  <2> QED
    BY <1>1, <2>1, ClipMove DEF mutex_lock, device, locals
<1>2. ASSUME NEW t \in Tasks, spin_lock(t) PROVE CountFits'
  BY <1>2 DEF spin_lock, device, locals, CountFits, Clipped
<1>3. ASSUME NEW t \in Tasks, read_add_wait_queue(t) PROVE CountFits'
  BY <1>3, ClipMove DEF read_add_wait_queue, Step, device, locals
<1>4. ASSUME NEW t \in Tasks, read_test(t) PROVE CountFits'
  <2>1. /\ pc[t] \in {"r_test"}
        /\ UNCHANGED <<current_len, count, wbuf>>
        /\ \E l \in {"r_copy", "r_out", "r_sched"} : pc' = [pc EXCEPT ![t] = l]
    BY <1>4 DEF read_test, Step, device, locals
  <2> QED
    BY <2>1, ClipMove
<1>5. ASSUME NEW t \in Tasks, read_schedule(t) PROVE CountFits'
  <2>1. /\ pc[t] \in {"r_sched"}
        /\ UNCHANGED <<current_len, count, wbuf>>
        /\ \E l \in {"r_out2", "r_relock"} : pc' = [pc EXCEPT ![t] = l]
    BY <1>5 DEF read_schedule, Step, device, locals
  <2> QED
    BY <2>1, ClipMove
<1>6. ASSUME NEW t \in Tasks, read_copy_to_user(t) PROVE CountFits'
  <2> DEFINE c == read_count(t)
  <2>1. c =< current_len
    BY LesserBound, LenBound DEF TypeOK, read_count
  <2>2. count' = [count EXCEPT ![t] = c] /\ UNCHANGED <<current_len, wbuf>>
    BY <1>6 DEF read_copy_to_user, device
  <2>3. \E l \in {"r_out", "r_shift"} : pc' = [pc EXCEPT ![t] = l]
    BY <1>6 DEF read_copy_to_user, Step
  <2> HIDE DEF c
  <2>4. Clipped(t)'
    BY <2>1, <2>2, <2>3 DEF TypeOK, Clipped
  <2> QED
    BY <2>2, <2>3, <2>4, ClipFrame DEF TypeOK
<1>7. ASSUME NEW t \in Tasks, read_consume(t) PROVE CountFits'
  <2>1. /\ pc[t] = "r_shift" /\ pc' = [pc EXCEPT ![t] = "r_wake"]
        /\ UNCHANGED <<count, wbuf>>
    BY <1>7 DEF read_consume, Step, locals
  <2>2. SUFFICES ASSUME NEW u \in Tasks PROVE Clipped(u)'
    BY DEF CountFits
  <2>3. CASE u = t
    BY <2>1, <2>3 DEF TypeOK, Clipped
  <2>4. CASE u # t
    <3>1. pc[u] \notin Critical
      BY <1>o, <2>1, <2>4 DEF Critical
    <3> QED
      BY <2>1, <2>4, <3>1 DEF TypeOK, CountFits, Clipped, Critical
  <2> QED
    BY <2>3, <2>4
<1>8. ASSUME NEW t \in Tasks, read_wake_up(t) PROVE CountFits'
  BY <1>8, ClipMove DEF read_wake_up, Step, device, locals
<1>9. ASSUME NEW t \in Tasks, read_out(t) PROVE CountFits'
  BY <1>9, ClipMove DEF read_out, Step, device, locals
<1>10. ASSUME NEW t \in Tasks, read_out2(t) PROVE CountFits'
  <2>1. /\ pc' = [pc EXCEPT ![t] = "idle"] /\ current_len' = current_len
        /\ count' = [count EXCEPT ![t] = 0] /\ wbuf' = [wbuf EXCEPT ![t] = << >>]
    BY <1>10 DEF read_out2, ReturnToUser, device
  <2>2. Clipped(t)'
    BY <2>1 DEF TypeOK, Clipped
  <2> QED
    BY <2>1, <2>2, ClipFrame DEF TypeOK
<1>11. ASSUME NEW t \in Tasks, write_add_wait_queue(t) PROVE CountFits'
  BY <1>11, ClipMove DEF write_add_wait_queue, Step, device, locals
<1>12. ASSUME NEW t \in Tasks, write_test(t) PROVE CountFits'
  <2>1. /\ pc[t] \in {"w_test"}
        /\ UNCHANGED <<current_len, count, wbuf>>
        /\ \E l \in {"w_copy", "w_out", "w_sched"} : pc' = [pc EXCEPT ![t] = l]
    BY <1>12 DEF write_test, Step, device, locals
  <2> QED
    BY <2>1, ClipMove
<1>13. ASSUME NEW t \in Tasks, write_schedule(t) PROVE CountFits'
  <2>1. /\ pc[t] \in {"w_sched"}
        /\ UNCHANGED <<current_len, count, wbuf>>
        /\ \E l \in {"w_out2", "w_relock"} : pc' = [pc EXCEPT ![t] = l]
    BY <1>13 DEF write_schedule, Step, device, locals
  <2> QED
    BY <2>1, ClipMove
<1>14. ASSUME NEW t \in Tasks, write_copy_from_user(t) PROVE CountFits'
  <2> DEFINE c == write_count(t)
  <2>1. c =< HELLODEV_SIZE - current_len
    BY LesserBound, LenBound DEF TypeOK, write_count
  <2>2. count' = [count EXCEPT ![t] = c] /\ UNCHANGED <<current_len, wbuf>>
    BY <1>14 DEF write_copy_from_user
  <2>3. \E l \in {"w_out", "w_commit"} : pc' = [pc EXCEPT ![t] = l]
    BY <1>14 DEF write_copy_from_user, Step
  <2> HIDE DEF c
  <2>4. Clipped(t)'
    BY <2>1, <2>2, <2>3 DEF TypeOK, Clipped
  <2> QED
    BY <2>2, <2>3, <2>4, ClipFrame DEF TypeOK
<1>15. ASSUME NEW t \in Tasks, write_commit(t) PROVE CountFits'
  <2>1. /\ pc[t] = "w_commit" /\ pc' = [pc EXCEPT ![t] = "w_wake"]
        /\ UNCHANGED <<count, wbuf>>
    BY <1>15 DEF write_commit, Step, locals
  <2>2. SUFFICES ASSUME NEW u \in Tasks PROVE Clipped(u)'
    BY DEF CountFits
  <2>3. CASE u = t
    BY <2>1, <2>3 DEF TypeOK, Clipped
  <2>4. CASE u # t
    <3>1. pc[u] \notin Critical
      BY <1>o, <2>1, <2>4 DEF Critical
    <3> QED
      BY <2>1, <2>4, <3>1 DEF TypeOK, CountFits, Clipped, Critical
  <2> QED
    BY <2>3, <2>4
<1>16. ASSUME NEW t \in Tasks, write_wake_up(t) PROVE CountFits'
  BY <1>16, ClipMove DEF write_wake_up, Step, device, locals
<1>17. ASSUME NEW t \in Tasks, write_out(t) PROVE CountFits'
  BY <1>17, ClipMove DEF write_out, Step, device, locals
<1>18. ASSUME NEW t \in Tasks, write_out2(t) PROVE CountFits'
  <2>1. /\ pc' = [pc EXCEPT ![t] = "idle"] /\ current_len' = current_len
        /\ count' = [count EXCEPT ![t] = 0] /\ wbuf' = [wbuf EXCEPT ![t] = << >>]
    BY <1>18 DEF write_out2, ReturnToUser, device
  <2>2. Clipped(t)'
    BY <2>1 DEF TypeOK, Clipped
  <2> QED
    BY <2>1, <2>2, ClipFrame DEF TypeOK
<1>19. ASSUME NEW t \in Tasks, ioctl_mem_clear(t) PROVE CountFits'
  <2>1. /\ pc' = [pc EXCEPT ![t] = "idle"] /\ current_len' = current_len
        /\ count' = [count EXCEPT ![t] = 0] /\ wbuf' = [wbuf EXCEPT ![t] = << >>]
    BY <1>19 DEF ioctl_mem_clear, ReturnToUser, device
  <2>2. Clipped(t)'
    BY <2>1 DEF TypeOK, Clipped
  <2> QED
    BY <2>1, <2>2, ClipFrame DEF TypeOK
<1>20. ASSUME NEW t \in Tasks, poll_wait(t) PROVE CountFits'
  <2>1. /\ pc[t] \in {"p_add_r", "p_add_w"}
        /\ UNCHANGED <<current_len, count, wbuf>>
        /\ \E l \in {"p_add_w", "p_relock"} : pc' = [pc EXCEPT ![t] = l]
    BY <1>20 DEF poll_wait, Step, device, locals
  <2> QED
    BY <2>1, ClipMove
<1>21. ASSUME NEW t \in Tasks, hello_read(t) PROVE CountFits'
  <2>1. /\ pc' = [pc EXCEPT ![t] = "r_lock"] /\ UNCHANGED <<current_len, wbuf>>
        /\ \E c \in ReadCounts : count' = [count EXCEPT ![t] = c]
    BY <1>21 DEF hello_read, Step, device
  <2>2. Clipped(t)'
    BY <2>1 DEF TypeOK, Clipped
  <2> QED
    BY <2>1, <2>2, ClipFrame DEF TypeOK
<1>22. ASSUME NEW t \in Tasks, hello_write(t) PROVE CountFits'
  <2>1. pc' = [pc EXCEPT ![t] = "w_lock"] /\ current_len' = current_len
    BY <1>22 DEF hello_write, Step, device
  <2>2. PICK c \in WriteCounts : \E b \in [1 .. c -> Bytes] :
          count' = [count EXCEPT ![t] = c] /\ wbuf' = [wbuf EXCEPT ![t] = b]
    BY <1>22 DEF hello_write
  <2>3. PICK b \in [1 .. c -> Bytes] :
          count' = [count EXCEPT ![t] = c] /\ wbuf' = [wbuf EXCEPT ![t] = b]
    BY <2>2
  <2>4. Len(b) = c
    BY GlobalFifoAssumption, FunctionIsSeq
  <2>5. Clipped(t)'
    BY <2>1, <2>3, <2>4 DEF TypeOK, Clipped
  <2> QED
    BY <2>1, <2>3, <2>5, ClipFrame DEF TypeOK
<1>23. ASSUME NEW t \in Tasks, hello_ioctl(t) PROVE CountFits'
  BY <1>23, ClipMove DEF hello_ioctl, Step, device, locals
<1>24. ASSUME NEW t \in Tasks, hello_poll(t) PROVE CountFits'
  BY <1>24, ClipMove DEF hello_poll, Step, device, locals
<1>25. ASSUME NEW t \in Tasks, Signal(t) PROVE CountFits'
  BY <1>25 DEF Signal, device, locals, CountFits, Clipped
<1> QED
  BY <1>u, <1>1, <1>2, <1>3, <1>4, <1>5, <1>6, <1>7, <1>8, <1>9, <1>10,
     <1>11, <1>12, <1>13, <1>14, <1>15, <1>16, <1>17, <1>18, <1>19, <1>20,
     <1>21, <1>22, <1>23, <1>24, <1>25
  DEF Next, TaskStep, ReadStep, WriteStep, Call

-----------------------------------------------------------------------------
(* The spinlock of w_wait protects the list of w_wait.                     *)
LEMMA NoRaceOnW ==
  ASSUME NEW t \in Tasks, HoldsSpin(t), ListOf(pc[t]) = "w"
  PROVE  Overlaps(t) = {}
BY DEF HoldsSpin, Overlaps, Inside, ListOf, SpinOf, WaitPoints

(* What add_wait_queue does to w_wait, and to r_wait unless it is torn.    *)
LEMMA AddEffect ==
  ASSUME TypeOK, NEW t \in Tasks, HoldsSpin(t), list_add(t)
  PROVE  /\ ListOf(pc[t]) = "w" => wq' = [wq EXCEPT !["w"] = @ \cup {t}] /\ stale' = stale
         /\ ListOf(pc[t]) = "r" => wq'["w"] = wq["w"]
         /\ ListOf(pc[t]) = "r" /\ stale' = {} =>
              stale = {} /\ wq' = [wq EXCEPT !["r"] = @ \cup {t}]
<1>1. ListOf(pc[t]) \in Queues
  BY DEF ListOf, Queues
<1>2. CASE ListOf(pc[t]) = "w"
  BY <1>2, NoRaceOnW DEF list_add, Torn
<1>3. CASE ListOf(pc[t]) = "r"
  <2>1. wq'["w"] = wq["w"]
    BY <1>3 DEF list_add, TearList, TypeOK, Queues
  <2>2. CASE wq' = [wq EXCEPT !["r"] = @ \cup {t}] /\ UNCHANGED <<stale, oops>>
    BY <1>3, <2>1, <2>2
  <2>3. CASE /\ stale # {} \/ Overlaps(t) # {}
             /\ stale' = stale \cup (Inside("r") \ {t})
    <3>1. Overlaps(t) # {} => Inside("r") \ {t} # {}
      BY <1>3 DEF Overlaps
    <3> QED
      BY <1>3, <2>1, <2>3, <3>1
  <2> QED
    BY <1>3, <2>2, <2>3 DEF list_add, TearList, Torn
<1> QED
  BY <1>1, <1>2, <1>3 DEF Queues

(* What remove_wait_queue does to them.                                    *)
LEMMA DelEffect ==
  ASSUME TypeOK, NEW t \in Tasks, HoldsSpin(t), list_del(t)
  PROVE  /\ ListOf(pc[t]) = "w" => wq' = [wq EXCEPT !["w"] = @ \ {t}] /\ stale' = stale
         /\ ListOf(pc[t]) = "r" => wq'["w"] = wq["w"]
         /\ ListOf(pc[t]) = "r" /\ stale' = {} =>
              stale = {} /\ wq' = [wq EXCEPT !["r"] = @ \ {t}]
<1>1. ListOf(pc[t]) \in Queues
  BY DEF ListOf, Queues
<1>2. CASE ListOf(pc[t]) = "w"
  BY <1>2, NoRaceOnW DEF list_del, Torn
<1>3. CASE ListOf(pc[t]) = "r"
  <2>1. wq'["w"] = wq["w"]
    BY <1>3 DEF list_del, TearList, TypeOK, Queues
  <2> QED
    BY <1>3, <2>1 DEF list_del, TearList
<1> QED
  BY <1>1, <1>2, <1>3 DEF Queues

(* A step leaves u's entry where it was, as far as that is certain.        *)
SameEntry(u) ==
  /\ u \in wq'["w"] <=> u \in wq["w"]
  /\ stale' = {} => stale = {} /\ (u \in wq'["r"] <=> u \in wq["r"])

(* list_add and list_del concern only the entry of the task that calls,    *)
(* unless they tear the list.                                              *)
LEMMA ListFrame ==
  ASSUME TypeOK, NEW t \in Tasks, HoldsSpin(t), list_add(t) \/ list_del(t),
         NEW u \in Tasks \ {t}
  PROVE  SameEntry(u)
<1>1. ListOf(pc[t]) \in {"r", "w"}
  BY DEF ListOf
<1>2. /\ ListOf(pc[t]) = "w" => stale' = stale /\ \E S \in {wq["w"] \cup {t}, wq["w"] \ {t}} :
                                                   wq' = [wq EXCEPT !["w"] = S]
      /\ ListOf(pc[t]) = "r" => wq'["w"] = wq["w"]
      /\ ListOf(pc[t]) = "r" /\ stale' = {} =>
           stale = {} /\ \E S \in {wq["r"] \cup {t}, wq["r"] \ {t}} : wq' = [wq EXCEPT !["r"] = S]
  <2>1. CASE list_add(t)
    BY <2>1, AddEffect
  <2>2. CASE list_del(t)
    BY <2>2, DelEffect
  <2> QED
    BY <2>1, <2>2
<1>3. CASE ListOf(pc[t]) = "w"
  BY <1>2, <1>3 DEF TypeOK, Queues, SameEntry
<1>4. CASE ListOf(pc[t]) = "r"
  BY <1>2, <1>4 DEF TypeOK, Queues, SameEntry
<1> QED
  BY <1>1, <1>3, <1>4

(* The labels at which a task has its entry linked in r_wait, in w_wait.   *)
Linking == (ReadLabels \ {"r_lock", "r_add"}) \cup {"p_add_w", "p_relock"}
Waiting == (WriteLabels \ {"w_lock", "w_add"}) \cup {"p_relock"}

(* What EntriesTracked says of one task.                                   *)
Entry(t) ==
  /\ t \in wq["w"] <=> pc[t] \in Waiting
  /\ stale = {} => (t \in wq["r"] <=> pc[t] \in Linking)

(* Entry is exactly what the property says.                                *)
LEMMA EntryDef ==
  ASSUME wq \in [Queues -> SUBSET Tasks]
  PROVE  EntriesTracked <=> \A t \in Tasks : Entry(t)
<1>1. /\ Enlisted("r") = {t \in Tasks : pc[t] \in Linking}
      /\ Enlisted("w") = {t \in Tasks : pc[t] \in Waiting}
  BY DEF Enlisted, Linking, Waiting
<1>2. EntriesTracked <=> /\ stale # {} \/ wq["r"] = Enlisted("r")
                         /\ wq["w"] = Enlisted("w")
  BY DEF EntriesTracked, Queues, Torn
<1>3. wq["r"] \subseteq Tasks /\ wq["w"] \subseteq Tasks
  BY DEF Queues
<1>4. wq["w"] = Enlisted("w") <=> \A t \in Tasks : t \in wq["w"] <=> pc[t] \in Waiting
  BY <1>1, <1>3
<1>5. wq["r"] = Enlisted("r") <=> \A t \in Tasks : t \in wq["r"] <=> pc[t] \in Linking
  BY <1>1, <1>3
<1> QED
  BY <1>2, <1>4, <1>5 DEF Entry

(* Only the task that takes the step can lose what Entry says of it.       *)
LEMMA EntryFrame ==
  ASSUME TypeOK, NEW t \in Tasks, NEW l, pc' = [pc EXCEPT ![t] = l],
         \A u \in Tasks \ {t} : SameEntry(u),
         \A u \in Tasks : Entry(u), Entry(t)'
  PROVE  \A u \in Tasks : Entry(u)'
<1> SUFFICES ASSUME NEW u \in Tasks PROVE Entry(u)'
  OBVIOUS
<1>1. CASE u = t
  BY <1>1
<1>2. CASE u # t
  <2>1. pc'[u] = pc[u]
    BY <1>2 DEF TypeOK
  <2> QED
    BY <1>2, <2>1 DEF Entry, SameEntry
<1> QED
  BY <1>1, <1>2

(* A move within the part of a function where the entry stays linked, or   *)
(* within the part where it is not.                                        *)
LEMMA EntryMove ==
  ASSUME TypeOK, NEW t \in Tasks, NEW l, pc' = [pc EXCEPT ![t] = l],
         wq' = wq, stale' = stale, \A u \in Tasks : Entry(u),
         pc[t] \in Linking <=> l \in Linking,
         pc[t] \in Waiting <=> l \in Waiting
  PROVE  \A u \in Tasks : Entry(u)'
<1>1. Entry(t)'
  BY DEF TypeOK, Entry
<1> QED
  BY <1>1, EntryFrame DEF SameEntry

(* Every step keeps each task's entry where its code believes it is.       *)
LEMMA EntryInductive ==
  ASSUME TypeOK, MutexDiscipline, \A u \in Tasks : Entry(u), [Next]_vars
  PROVE  \A u \in Tasks : Entry(u)'
<1>d. /\ {"r_test", "r_sched", "r_relock", "r_copy", "r_shift", "r_wake"} \subseteq Linking
      /\ {"r_out", "r_out2", "p_add_w", "p_relock"} \subseteq Linking
      /\ {"r_lock", "r_add", "w_lock", "w_add", "c_lock", "c_clear", "idle"} \cap Linking = {}
      /\ {"p_lock", "p_add_r"} \cap Linking = {}
      /\ {"w_test", "w_sched", "w_relock", "w_copy", "w_commit", "w_wake"} \cap Linking = {}
      /\ {"w_out", "w_out2"} \cap Linking = {}
  BY DEF Linking, ReadLabels
<1>e. /\ {"w_test", "w_sched", "w_relock", "w_copy", "w_commit", "w_wake"} \subseteq Waiting
      /\ {"w_out", "w_out2", "p_relock"} \subseteq Waiting
      /\ {"r_lock", "r_add", "w_lock", "w_add", "c_lock", "c_clear", "idle"} \cap Waiting = {}
      /\ {"p_lock", "p_add_r", "p_add_w"} \cap Waiting = {}
      /\ {"r_test", "r_sched", "r_relock", "r_copy", "r_shift", "r_wake"} \cap Waiting = {}
      /\ {"r_out", "r_out2"} \cap Waiting = {}
  BY DEF Waiting, WriteLabels
<1>u. CASE UNCHANGED vars
  BY <1>u DEF vars, queues, Entry
<1>1. ASSUME NEW t \in Tasks, mutex_lock(t) PROVE \A u \in Tasks : Entry(u)'
  <2>1. pc[t] # "p_relock"
    BY <1>1, GlobalFifoAssumption DEF mutex_lock, MutexDiscipline, Critical
  <2>2. /\ pc[t] \in Linking <=> AfterLock(pc[t]) \in Linking
        /\ pc[t] \in Waiting <=> AfterLock(pc[t]) \in Waiting
    BY <1>1, <2>1 DEF mutex_lock, MutexPoints, AfterLock, Linking, Waiting, ReadLabels, WriteLabels
  <2> QED
    BY <1>1, <2>1, <2>2, EntryMove DEF mutex_lock, queues
<1>2. ASSUME NEW t \in Tasks, spin_lock(t) PROVE \A u \in Tasks : Entry(u)'
  BY <1>2 DEF spin_lock, queues, Entry
<1>3. ASSUME NEW t \in Tasks, read_add_wait_queue(t) PROVE \A u \in Tasks : Entry(u)'
  <2>1. \A u \in Tasks \ {t} : SameEntry(u)
    BY <1>3, ListFrame DEF read_add_wait_queue
  <2>2. pc[t] = "r_add" /\ pc' = [pc EXCEPT ![t] = "r_test"]
    BY <1>3 DEF read_add_wait_queue, Step
  <2>3. Entry(t)'
    <3>1. /\ wq'["w"] = wq["w"]
          /\ stale' = {} => stale = {} /\ wq' = [wq EXCEPT !["r"] = @ \cup {t}]
      BY <1>3, <2>2, AddEffect DEF read_add_wait_queue, ListOf
    <3> QED
      BY <1>d, <1>e, <2>2, <3>1 DEF TypeOK, Queues, Entry
  <2> QED
    BY <2>1, <2>2, <2>3, EntryFrame
<1>4. ASSUME NEW t \in Tasks, read_test(t) PROVE \A u \in Tasks : Entry(u)'
  <2>1. /\ pc[t] = "r_test" /\ wq' = wq /\ stale' = stale
        /\ \E l \in {"r_copy", "r_out", "r_sched"} : pc' = [pc EXCEPT ![t] = l]
    BY <1>4 DEF read_test, Step, queues
  <2> QED
    BY <1>d, <1>e, <2>1, EntryMove
<1>5. ASSUME NEW t \in Tasks, read_schedule(t) PROVE \A u \in Tasks : Entry(u)'
  <2>1. /\ pc[t] = "r_sched" /\ wq' = wq /\ stale' = stale
        /\ \E l \in {"r_out2", "r_relock"} : pc' = [pc EXCEPT ![t] = l]
    BY <1>5 DEF read_schedule, Step, queues
  <2> QED
    BY <1>d, <1>e, <2>1, EntryMove
<1>6. ASSUME NEW t \in Tasks, read_copy_to_user(t) PROVE \A u \in Tasks : Entry(u)'
  <2>1. /\ pc[t] = "r_copy" /\ wq' = wq /\ stale' = stale
        /\ \E l \in {"r_out", "r_shift"} : pc' = [pc EXCEPT ![t] = l]
    BY <1>6 DEF read_copy_to_user, Step, queues
  <2> QED
    BY <1>d, <1>e, <2>1, EntryMove
<1>7. ASSUME NEW t \in Tasks, read_consume(t) PROVE \A u \in Tasks : Entry(u)'
  BY <1>7, <1>d, <1>e, EntryMove DEF read_consume, Step, queues
<1>8. ASSUME NEW t \in Tasks, read_wake_up(t) PROVE \A u \in Tasks : Entry(u)'
  BY <1>8, <1>d, <1>e, EntryMove DEF read_wake_up, wake_up, Step
<1>9. ASSUME NEW t \in Tasks, read_out(t) PROVE \A u \in Tasks : Entry(u)'
  BY <1>9, <1>d, <1>e, EntryMove DEF read_out, Step, queues
<1>10. ASSUME NEW t \in Tasks, read_out2(t) PROVE \A u \in Tasks : Entry(u)'
  <2>1. \A u \in Tasks \ {t} : SameEntry(u)
    BY <1>10, ListFrame DEF read_out2
  <2>2. pc[t] = "r_out2" /\ pc' = [pc EXCEPT ![t] = "idle"]
    BY <1>10 DEF read_out2, ReturnToUser
  <2>3. Entry(t)'
    <3>1. /\ wq'["w"] = wq["w"]
          /\ stale' = {} => stale = {} /\ wq' = [wq EXCEPT !["r"] = @ \ {t}]
      BY <1>10, <2>2, DelEffect DEF read_out2, ListOf
    <3> QED
      BY <1>d, <1>e, <2>2, <3>1 DEF TypeOK, Queues, Entry
  <2> QED
    BY <2>1, <2>2, <2>3, EntryFrame
<1>11. ASSUME NEW t \in Tasks, write_add_wait_queue(t) PROVE \A u \in Tasks : Entry(u)'
  <2>1. \A u \in Tasks \ {t} : SameEntry(u)
    BY <1>11, ListFrame DEF write_add_wait_queue
  <2>2. pc[t] = "w_add" /\ pc' = [pc EXCEPT ![t] = "w_test"]
    BY <1>11 DEF write_add_wait_queue, Step
  <2>3. Entry(t)'
    <3>1. wq' = [wq EXCEPT !["w"] = @ \cup {t}] /\ stale' = stale
      BY <1>11, <2>2, AddEffect DEF write_add_wait_queue, ListOf
    <3> QED
      BY <1>d, <1>e, <2>2, <3>1 DEF TypeOK, Queues, Entry
  <2> QED
    BY <2>1, <2>2, <2>3, EntryFrame
<1>12. ASSUME NEW t \in Tasks, write_test(t) PROVE \A u \in Tasks : Entry(u)'
  <2>1. /\ pc[t] = "w_test" /\ wq' = wq /\ stale' = stale
        /\ \E l \in {"w_copy", "w_out", "w_sched"} : pc' = [pc EXCEPT ![t] = l]
    BY <1>12 DEF write_test, Step, queues
  <2> QED
    BY <1>d, <1>e, <2>1, EntryMove
<1>13. ASSUME NEW t \in Tasks, write_schedule(t) PROVE \A u \in Tasks : Entry(u)'
  <2>1. /\ pc[t] = "w_sched" /\ wq' = wq /\ stale' = stale
        /\ \E l \in {"w_out2", "w_relock"} : pc' = [pc EXCEPT ![t] = l]
    BY <1>13 DEF write_schedule, Step, queues
  <2> QED
    BY <1>d, <1>e, <2>1, EntryMove
<1>14. ASSUME NEW t \in Tasks, write_copy_from_user(t) PROVE \A u \in Tasks : Entry(u)'
  <2>1. /\ pc[t] = "w_copy" /\ wq' = wq /\ stale' = stale
        /\ \E l \in {"w_out", "w_commit"} : pc' = [pc EXCEPT ![t] = l]
    BY <1>14 DEF write_copy_from_user, Step, queues
  <2> QED
    BY <1>d, <1>e, <2>1, EntryMove
<1>15. ASSUME NEW t \in Tasks, write_commit(t) PROVE \A u \in Tasks : Entry(u)'
  BY <1>15, <1>d, <1>e, EntryMove DEF write_commit, Step, queues
<1>16. ASSUME NEW t \in Tasks, write_wake_up(t) PROVE \A u \in Tasks : Entry(u)'
  BY <1>16, <1>d, <1>e, EntryMove DEF write_wake_up, wake_up, Step
<1>17. ASSUME NEW t \in Tasks, write_out(t) PROVE \A u \in Tasks : Entry(u)'
  BY <1>17, <1>d, <1>e, EntryMove DEF write_out, Step, queues
<1>18. ASSUME NEW t \in Tasks, write_out2(t) PROVE \A u \in Tasks : Entry(u)'
  <2>1. \A u \in Tasks \ {t} : SameEntry(u)
    BY <1>18, ListFrame DEF write_out2
  <2>2. pc[t] = "w_out2" /\ pc' = [pc EXCEPT ![t] = "idle"]
    BY <1>18 DEF write_out2, ReturnToUser
  <2>3. Entry(t)'
    <3>1. wq' = [wq EXCEPT !["w"] = @ \ {t}] /\ stale' = stale
      BY <1>18, <2>2, DelEffect DEF write_out2, ListOf
    <3> QED
      BY <1>d, <1>e, <2>2, <3>1 DEF TypeOK, Queues, Entry
  <2> QED
    BY <2>1, <2>2, <2>3, EntryFrame
<1>19. ASSUME NEW t \in Tasks, ioctl_mem_clear(t) PROVE \A u \in Tasks : Entry(u)'
  BY <1>19, <1>d, <1>e, EntryMove DEF ioctl_mem_clear, ReturnToUser, queues
<1>20. ASSUME NEW t \in Tasks, poll_wait(t) PROVE \A u \in Tasks : Entry(u)'
  <2>1. \A u \in Tasks \ {t} : SameEntry(u)
    BY <1>20, ListFrame DEF poll_wait
  <2>2. CASE pc[t] = "p_add_r"
    <3>1. pc' = [pc EXCEPT ![t] = "p_add_w"]
      BY <1>20, <2>2 DEF poll_wait, Step
    <3>2. /\ wq'["w"] = wq["w"]
          /\ stale' = {} => stale = {} /\ wq' = [wq EXCEPT !["r"] = @ \cup {t}]
      BY <1>20, <2>2, AddEffect DEF poll_wait, ListOf
    <3>3. Entry(t)'
      BY <1>d, <1>e, <2>2, <3>1, <3>2 DEF TypeOK, Queues, Entry
    <3> QED
      BY <2>1, <3>1, <3>3, EntryFrame
  <2>3. CASE pc[t] = "p_add_w"
    <3>1. pc' = [pc EXCEPT ![t] = "p_relock"]
      BY <1>20, <2>3 DEF poll_wait, Step
    <3>2. wq' = [wq EXCEPT !["w"] = @ \cup {t}] /\ stale' = stale
      BY <1>20, <2>3, AddEffect DEF poll_wait, ListOf
    <3>3. Entry(t)'
      BY <1>d, <1>e, <2>3, <3>1, <3>2 DEF TypeOK, Queues, Entry
    <3> QED
      BY <2>1, <3>1, <3>3, EntryFrame
  <2> QED
    BY <1>20, <2>2, <2>3 DEF poll_wait, Step
<1>21. ASSUME NEW t \in Tasks, hello_read(t) PROVE \A u \in Tasks : Entry(u)'
  BY <1>21, <1>d, <1>e, EntryMove DEF hello_read, Step, queues
<1>22. ASSUME NEW t \in Tasks, hello_write(t) PROVE \A u \in Tasks : Entry(u)'
  BY <1>22, <1>d, <1>e, EntryMove DEF hello_write, Step, queues
<1>23. ASSUME NEW t \in Tasks, hello_ioctl(t) PROVE \A u \in Tasks : Entry(u)'
  BY <1>23, <1>d, <1>e, EntryMove DEF hello_ioctl, Step, queues
<1>24. ASSUME NEW t \in Tasks, hello_poll(t) PROVE \A u \in Tasks : Entry(u)'
  BY <1>24, <1>d, <1>e, EntryMove DEF hello_poll, Step, queues
<1>25. ASSUME NEW t \in Tasks, Signal(t) PROVE \A u \in Tasks : Entry(u)'
  BY <1>25 DEF Signal, queues, Entry
<1> QED
  BY <1>u, <1>1, <1>2, <1>3, <1>4, <1>5, <1>6, <1>7, <1>8, <1>9, <1>10,
     <1>11, <1>12, <1>13, <1>14, <1>15, <1>16, <1>17, <1>18, <1>19, <1>20,
     <1>21, <1>22, <1>23, <1>24, <1>25
  DEF Next, TaskStep, ReadStep, WriteStep, Call

-----------------------------------------------------------------------------
(* A step that neither falls asleep, nor changes current_len, nor was the  *)
(* wake-up somebody relies on, keeps NoLostWakeup.                         *)
LEMMA WakeFrame ==
  ASSUME TypeOK, NoLostWakeup, NEW t \in Tasks, NEW l, pc' = [pc EXCEPT ![t] = l],
         l \notin {"r_sched", "w_sched"}, pc[t] \notin {"r_wake", "w_wake"},
         current_len' = current_len,
         \A u \in Tasks \ {t} : state'[u] = state[u] /\ SameEntry(u)
  PROVE  NoLostWakeup'
<1> SUFFICES ASSUME NEW u \in Tasks PROVE WriterWoken(u)' /\ ReaderWoken(u)'
  BY DEF NoLostWakeup
<1>1. WriterWoken(u) /\ ReaderWoken(u)
  BY DEF NoLostWakeup
<1>2. \A v \in Tasks : pc[v] \in {"r_wake", "w_wake"} => pc'[v] = pc[v]
  BY DEF TypeOK
<1>3. CASE u = t
  BY <1>3 DEF TypeOK, WriterWoken, ReaderWoken, Asleep
<1>4. CASE u # t
  <2>1. pc'[u] = pc[u] /\ state'[u] = state[u]
    BY <1>4 DEF TypeOK
  <2>2. SameEntry(u)
    BY <1>4
  <2> QED
    BY <1>1, <1>2, <2>1, <2>2 DEF SameEntry, WriterWoken, ReaderWoken, Asleep
<1> QED
  BY <1>3, <1>4

(* In particular one that leaves the lists alone.                          *)
LEMMA WakeStep ==
  ASSUME TypeOK, NoLostWakeup, NEW t \in Tasks, NEW l, pc' = [pc EXCEPT ![t] = l],
         l \notin {"r_sched", "w_sched"}, pc[t] \notin {"r_wake", "w_wake"},
         UNCHANGED <<current_len, wq, stale>>,
         \A u \in Tasks \ {t} : state'[u] = state[u]
  PROVE  NoLostWakeup'
BY WakeFrame DEF SameEntry

(* A step that only makes tasks runnable keeps NoLostWakeup.               *)
LEMMA WakeMore ==
  ASSUME NoLostWakeup, UNCHANGED <<current_len, wq, stale, pc>>,
         \A u \in Tasks : state'[u] = state[u] \/ state'[u] = "RUNNING"
  PROVE  NoLostWakeup'
BY DEF NoLostWakeup, WriterWoken, ReaderWoken, Asleep

(* Every step keeps NoLostWakeup.  A task falls asleep only after testing  *)
(* current_len with the mutex held, is linked before it tests, and whoever *)
(* changes current_len goes on to wake the other side before it unlocks.   *)
LEMMA WakeInductive ==
  ASSUME TypeOK, CountFits, \A u \in Tasks : Entry(u), NoLostWakeup, [Next]_vars
  PROVE  NoLostWakeup'
<1>u. CASE UNCHANGED vars
  BY <1>u DEF vars, device, queues, NoLostWakeup, WriterWoken, ReaderWoken, Asleep
<1>1. ASSUME NEW t \in Tasks, mutex_lock(t) PROVE NoLostWakeup'
  <2>1. AfterLock(pc[t]) \notin {"r_sched", "w_sched"} /\ pc[t] \notin {"r_wake", "w_wake"}
    BY <1>1 DEF mutex_lock, MutexPoints, AfterLock
  <2> QED
    BY <1>1, <2>1, WakeStep DEF mutex_lock, device, queues
<1>2. ASSUME NEW t \in Tasks, spin_lock(t) PROVE NoLostWakeup'
  BY <1>2, WakeMore DEF spin_lock, device
<1>3. ASSUME NEW t \in Tasks, read_add_wait_queue(t) PROVE NoLostWakeup'
  BY <1>3, ListFrame, WakeFrame DEF read_add_wait_queue, Step, device
<1>4. ASSUME NEW t \in Tasks, read_test(t) PROVE NoLostWakeup'
  <2>1. CASE current_len = 0 /\ ~nonblock[t]
    <3>1. /\ pc[t] = "r_test" /\ pc' = [pc EXCEPT ![t] = "r_sched"]
          /\ UNCHANGED <<current_len, wq, stale>>
          /\ state' = [state EXCEPT ![t] = "INTERRUPTIBLE"]
      BY <1>4, <2>1 DEF read_test, Step, device, queues
    <3>2. \A u \in Tasks : pc[u] \in {"r_wake", "w_wake"} => pc'[u] = pc[u]
      BY <3>1 DEF TypeOK
    <3>3. stale = {} => t \in wq["r"]
      BY <3>1 DEF Entry, Linking, ReadLabels
    <3> SUFFICES ASSUME NEW u \in Tasks PROVE WriterWoken(u)' /\ ReaderWoken(u)'
      BY DEF NoLostWakeup
    <3>4. CASE u = t
      BY <2>1, <3>1, <3>3, <3>4 DEF TypeOK, WriterWoken, ReaderWoken, Asleep
    <3>5. CASE u # t
      <4>1. pc'[u] = pc[u] /\ state'[u] = state[u]
        BY <3>1, <3>5 DEF TypeOK
      <4> QED
        BY <3>1, <3>2, <4>1 DEF NoLostWakeup, WriterWoken, ReaderWoken, Asleep
    <3> QED
      BY <3>4, <3>5
  <2>2. CASE ~(current_len = 0 /\ ~nonblock[t])
    <3>1. /\ pc[t] = "r_test" /\ UNCHANGED <<current_len, wq, stale, state>>
          /\ \E l \in {"r_copy", "r_out"} : pc' = [pc EXCEPT ![t] = l]
      BY <1>4, <2>2 DEF read_test, Step, device, queues
    <3> QED
      BY <3>1, WakeStep
  <2> QED
    BY <2>1, <2>2
<1>5. ASSUME NEW t \in Tasks, read_schedule(t) PROVE NoLostWakeup'
  <2>1. /\ pc[t] = "r_sched" /\ UNCHANGED <<current_len, wq, stale>>
        /\ \A u \in Tasks \ {t} : state'[u] = state[u]
        /\ \E l \in {"r_out2", "r_relock"} : pc' = [pc EXCEPT ![t] = l]
    BY <1>5 DEF read_schedule, Step, device, queues, TypeOK
  <2> QED
    BY <2>1, WakeStep
<1>6. ASSUME NEW t \in Tasks, read_copy_to_user(t) PROVE NoLostWakeup'
  <2>1. /\ pc[t] = "r_copy" /\ UNCHANGED <<current_len, wq, stale>>
        /\ \A u \in Tasks \ {t} : state'[u] = state[u]
        /\ \E l \in {"r_out", "r_shift"} : pc' = [pc EXCEPT ![t] = l]
    BY <1>6 DEF read_copy_to_user, Step, device, queues
  <2> QED
    BY <2>1, WakeStep
<1>7. ASSUME NEW t \in Tasks, read_consume(t) PROVE NoLostWakeup'
  <2>1. /\ pc[t] = "r_shift" /\ pc' = [pc EXCEPT ![t] = "r_wake"]
        /\ UNCHANGED <<wq, stale, state>>
        /\ current_len' = current_len - count[t]
    BY <1>7 DEF read_consume, Step, queues
  <2>2. count[t] \in Nat /\ count[t] =< current_len
    BY <2>1 DEF TypeOK, CountFits, Clipped
  <2>3. current_len = 0 => current_len' = 0
    BY <2>1, <2>2, LenBound
  <2>4. pc'[t] = "r_wake" /\ \A u \in Tasks \ {t} : pc'[u] = pc[u]
    BY <2>1 DEF TypeOK
  <2>5. \A u \in Tasks : pc[u] \in {"r_wake", "w_wake"} => pc'[u] = pc[u]
    BY <2>1, <2>4
  <2> QED
    BY <2>1, <2>3, <2>4, <2>5 DEF NoLostWakeup, WriterWoken, ReaderWoken, Asleep
<1>8. ASSUME NEW t \in Tasks, read_wake_up(t) PROVE NoLostWakeup'
  <2>1. /\ pc[t] = "r_wake" /\ pc' = [pc EXCEPT ![t] = "r_out"]
        /\ UNCHANGED <<wq, current_len>>
    BY <1>8 DEF read_wake_up, Step, device
  <2>2. /\ stale' = stale
        /\ \A v \in Tasks : state'[v] = state[v] \/ state'[v] = "RUNNING"
        /\ \A v \in Tasks : v \in wq["w"] => state'[v] = "RUNNING"
    BY <1>8, <2>1, WakeType DEF read_wake_up, ListOf, TypeOK
  <2> SUFFICES ASSUME NEW u \in Tasks PROVE WriterWoken(u)' /\ ReaderWoken(u)'
    BY DEF NoLostWakeup
  <2>3. /\ pc[u] = "w_sched" => u \in wq["w"]
        /\ pc[u] = "r_sched" /\ stale = {} => u \in wq["r"]
    BY DEF Entry, Linking, Waiting, ReadLabels, WriteLabels
  <2>4. \A v \in Tasks : pc[v] = "w_wake" => pc'[v] = pc[v]
    BY <2>1 DEF TypeOK
  <2>5. pc'[u] \in {"r_sched", "w_sched"} => pc'[u] = pc[u]
    BY <2>1 DEF TypeOK
  <2>6. WriterWoken(u) /\ ReaderWoken(u)
    BY DEF NoLostWakeup
  <2> QED
    BY <2>1, <2>2, <2>3, <2>4, <2>5, <2>6 DEF WriterWoken, ReaderWoken, Asleep
<1>9. ASSUME NEW t \in Tasks, read_out(t) PROVE NoLostWakeup'
  BY <1>9, WakeStep DEF read_out, Step, device, queues
<1>10. ASSUME NEW t \in Tasks, read_out2(t) PROVE NoLostWakeup'
  <2>1. \A u \in Tasks \ {t} : state'[u] = state[u]
    BY <1>10 DEF read_out2, TypeOK
  <2>2. \A u \in Tasks \ {t} : SameEntry(u)
    BY <1>10, ListFrame DEF read_out2
  <2>3. /\ pc[t] = "r_out2" /\ pc' = [pc EXCEPT ![t] = "idle"]
        /\ current_len' = current_len
    BY <1>10 DEF read_out2, ReturnToUser, device
  <2> QED
    BY <2>1, <2>2, <2>3, WakeFrame
<1>11. ASSUME NEW t \in Tasks, write_add_wait_queue(t) PROVE NoLostWakeup'
  BY <1>11, ListFrame, WakeFrame DEF write_add_wait_queue, Step, device
<1>12. ASSUME NEW t \in Tasks, write_test(t) PROVE NoLostWakeup'
  <2>1. CASE current_len = HELLODEV_SIZE /\ ~nonblock[t]
    <3>1. /\ pc[t] = "w_test" /\ pc' = [pc EXCEPT ![t] = "w_sched"]
          /\ UNCHANGED <<current_len, wq, stale>>
          /\ state' = [state EXCEPT ![t] = "INTERRUPTIBLE"]
      BY <1>12, <2>1 DEF write_test, Step, device, queues
    <3>2. \A u \in Tasks : pc[u] \in {"r_wake", "w_wake"} => pc'[u] = pc[u]
      BY <3>1 DEF TypeOK
    <3>3. t \in wq["w"]
      BY <3>1 DEF Entry, Waiting, WriteLabels
    <3> SUFFICES ASSUME NEW u \in Tasks PROVE WriterWoken(u)' /\ ReaderWoken(u)'
      BY DEF NoLostWakeup
    <3>4. CASE u = t
      BY <2>1, <3>1, <3>3, <3>4 DEF TypeOK, WriterWoken, ReaderWoken, Asleep
    <3>5. CASE u # t
      <4>1. pc'[u] = pc[u] /\ state'[u] = state[u]
        BY <3>1, <3>5 DEF TypeOK
      <4> QED
        BY <3>1, <3>2, <4>1 DEF NoLostWakeup, WriterWoken, ReaderWoken, Asleep
    <3> QED
      BY <3>4, <3>5
  <2>2. CASE ~(current_len = HELLODEV_SIZE /\ ~nonblock[t])
    <3>1. /\ pc[t] = "w_test" /\ UNCHANGED <<current_len, wq, stale, state>>
          /\ \E l \in {"w_copy", "w_out"} : pc' = [pc EXCEPT ![t] = l]
      BY <1>12, <2>2 DEF write_test, Step, device, queues
    <3> QED
      BY <3>1, WakeStep
  <2> QED
    BY <2>1, <2>2
<1>13. ASSUME NEW t \in Tasks, write_schedule(t) PROVE NoLostWakeup'
  <2>1. /\ pc[t] = "w_sched" /\ UNCHANGED <<current_len, wq, stale>>
        /\ \A u \in Tasks \ {t} : state'[u] = state[u]
        /\ \E l \in {"w_out2", "w_relock"} : pc' = [pc EXCEPT ![t] = l]
    BY <1>13 DEF write_schedule, Step, device, queues, TypeOK
  <2> QED
    BY <2>1, WakeStep
<1>14. ASSUME NEW t \in Tasks, write_copy_from_user(t) PROVE NoLostWakeup'
  <2>1. /\ pc[t] = "w_copy" /\ UNCHANGED <<current_len, wq, stale>>
        /\ \A u \in Tasks \ {t} : state'[u] = state[u]
        /\ \E l \in {"w_out", "w_commit"} : pc' = [pc EXCEPT ![t] = l]
    BY <1>14 DEF write_copy_from_user, Step, queues
  <2> QED
    BY <2>1, WakeStep
<1>15. ASSUME NEW t \in Tasks, write_commit(t) PROVE NoLostWakeup'
  <2>1. /\ pc[t] = "w_commit" /\ pc' = [pc EXCEPT ![t] = "w_wake"]
        /\ UNCHANGED <<wq, stale, state>>
        /\ current_len' = current_len + count[t]
    BY <1>15 DEF write_commit, Step, queues
  <2>2. count[t] \in Nat /\ count[t] =< HELLODEV_SIZE - current_len
    BY <2>1 DEF TypeOK, CountFits, Clipped
  <2>3. current_len = HELLODEV_SIZE => current_len' = HELLODEV_SIZE
    BY <2>1, <2>2, LenBound
  <2>4. pc'[t] = "w_wake" /\ \A u \in Tasks \ {t} : pc'[u] = pc[u]
    BY <2>1 DEF TypeOK
  <2>5. \A u \in Tasks : pc[u] \in {"r_wake", "w_wake"} => pc'[u] = pc[u]
    BY <2>1, <2>4
  <2> QED
    BY <2>1, <2>3, <2>4, <2>5 DEF NoLostWakeup, WriterWoken, ReaderWoken, Asleep
<1>16. ASSUME NEW t \in Tasks, write_wake_up(t) PROVE NoLostWakeup'
  <2>1. /\ pc[t] = "w_wake" /\ pc' = [pc EXCEPT ![t] = "w_out"]
        /\ UNCHANGED <<wq, current_len>>
    BY <1>16 DEF write_wake_up, Step, device
  <2>2. /\ stale' = stale
        /\ \A v \in Tasks : state'[v] = state[v] \/ state'[v] = "RUNNING"
        /\ \A v \in Tasks : v \in wq["r"] => state'[v] = "RUNNING"
    BY <1>16, <2>1, WakeType DEF write_wake_up, ListOf, TypeOK
  <2> SUFFICES ASSUME NEW u \in Tasks PROVE WriterWoken(u)' /\ ReaderWoken(u)'
    BY DEF NoLostWakeup
  <2>3. /\ pc[u] = "w_sched" => u \in wq["w"]
        /\ pc[u] = "r_sched" /\ stale = {} => u \in wq["r"]
    BY DEF Entry, Linking, Waiting, ReadLabels, WriteLabels
  <2>4. \A v \in Tasks : pc[v] = "r_wake" => pc'[v] = pc[v]
    BY <2>1 DEF TypeOK
  <2>5. pc'[u] \in {"r_sched", "w_sched"} => pc'[u] = pc[u]
    BY <2>1 DEF TypeOK
  <2>6. WriterWoken(u) /\ ReaderWoken(u)
    BY DEF NoLostWakeup
  <2> QED
    BY <2>1, <2>2, <2>3, <2>4, <2>5, <2>6 DEF WriterWoken, ReaderWoken, Asleep
<1>17. ASSUME NEW t \in Tasks, write_out(t) PROVE NoLostWakeup'
  BY <1>17, WakeStep DEF write_out, Step, device, queues
<1>18. ASSUME NEW t \in Tasks, write_out2(t) PROVE NoLostWakeup'
  <2>1. \A u \in Tasks \ {t} : state'[u] = state[u]
    BY <1>18 DEF write_out2, TypeOK
  <2>2. \A u \in Tasks \ {t} : SameEntry(u)
    BY <1>18, ListFrame DEF write_out2
  <2>3. /\ pc[t] = "w_out2" /\ pc' = [pc EXCEPT ![t] = "idle"]
        /\ current_len' = current_len
    BY <1>18 DEF write_out2, ReturnToUser, device
  <2> QED
    BY <2>1, <2>2, <2>3, WakeFrame
<1>19. ASSUME NEW t \in Tasks, ioctl_mem_clear(t) PROVE NoLostWakeup'
  BY <1>19, WakeStep DEF ioctl_mem_clear, ReturnToUser, queues
<1>20. ASSUME NEW t \in Tasks, poll_wait(t) PROVE NoLostWakeup'
  <2>1. /\ pc[t] \in {"p_add_r", "p_add_w"}
        /\ \E l \in {"p_add_w", "p_relock"} : pc' = [pc EXCEPT ![t] = l]
    BY <1>20 DEF poll_wait, Step
  <2> QED
    BY <1>20, <2>1, ListFrame, WakeFrame DEF poll_wait, device
<1>21. ASSUME NEW t \in Tasks, hello_read(t) PROVE NoLostWakeup'
  <2>1. /\ pc[t] = "idle" /\ pc' = [pc EXCEPT ![t] = "r_lock"]
        /\ UNCHANGED <<current_len, wq, stale, state>>
    BY <1>21 DEF hello_read, Step, device, queues
  <2> QED
    BY <2>1, WakeStep
<1>22. ASSUME NEW t \in Tasks, hello_write(t) PROVE NoLostWakeup'
  <2>1. /\ pc[t] = "idle" /\ pc' = [pc EXCEPT ![t] = "w_lock"]
        /\ UNCHANGED <<current_len, wq, stale, state>>
    BY <1>22 DEF hello_write, Step, device, queues
  <2> QED
    BY <2>1, WakeStep
<1>23. ASSUME NEW t \in Tasks, hello_ioctl(t) PROVE NoLostWakeup'
  BY <1>23, WakeStep DEF hello_ioctl, Step, device, queues
<1>24. ASSUME NEW t \in Tasks, hello_poll(t) PROVE NoLostWakeup'
  BY <1>24, WakeStep DEF hello_poll, Step, device, queues
<1>25. ASSUME NEW t \in Tasks, Signal(t) PROVE NoLostWakeup'
  BY <1>25, WakeMore DEF Signal, device, queues, TypeOK
<1> QED
  BY <1>u, <1>1, <1>2, <1>3, <1>4, <1>5, <1>6, <1>7, <1>8, <1>9, <1>10,
     <1>11, <1>12, <1>13, <1>14, <1>15, <1>16, <1>17, <1>18, <1>19, <1>20,
     <1>21, <1>22, <1>23, <1>24, <1>25
  DEF Next, TaskStep, ReadStep, WriteStep, Call

-----------------------------------------------------------------------------
(* The inductive invariant.  No conjunct of it but TypeOK's bounds is      *)
(* inductive alone: TypeOK needs CountFits, CountFits needs the mutex      *)
(* discipline, NoLostWakeup needs CountFits and the linked entries.        *)
IInv ==
  /\ TypeOK
  /\ MutexDiscipline
  /\ CountFits
  /\ EntriesTracked
  /\ NoLostWakeup

(* It holds when the module has been loaded.                               *)
LEMMA InitIInv == Init => IInv
<1> SUFFICES ASSUME Init PROVE IInv
  OBVIOUS
<1> USE DEF Init
<1>1. TypeOK
  <2>1. "idle" \in Labels
    BY DEF Labels
  <2>2. mem \in [Index -> Bytes] /\ current_len \in 0 .. HELLODEV_SIZE
    BY GlobalFifoAssumption
  <2>3. wq \in [Queues -> SUBSET Tasks] /\ spin \in [Queues -> Tasks \cup {NoTask}]
    OBVIOUS
  <2>4. count \in [Tasks -> Nat] /\ ret \in [Tasks -> {EAGAIN, EFAULT, ERESTARTSYS} \cup Nat]
    OBVIOUS
  <2>5. rbuf \in [Tasks -> Seq(Bytes)] /\ wbuf \in [Tasks -> Seq(Bytes)]
    BY EmptyBuffer
  <2>6. /\ sig \in [Tasks -> BOOLEAN] /\ nonblock \in [Tasks -> BOOLEAN]
        /\ stale \subseteq Tasks /\ oops \in BOOLEAN
    OBVIOUS
  <2> QED
    BY <2>1, <2>2, <2>3, <2>4, <2>5, <2>6 DEF TypeOK
<1>2. MutexDiscipline
  BY GlobalFifoAssumption DEF MutexDiscipline, Critical
<1>3. CountFits
  BY DEF CountFits, Clipped
<1>4. EntriesTracked
  BY DEF EntriesTracked, Enlisted, ReadLabels, WriteLabels, Queues
<1>5. NoLostWakeup
  BY DEF NoLostWakeup, WriterWoken, ReaderWoken, Asleep
<1> QED
  BY <1>1, <1>2, <1>3, <1>4, <1>5 DEF IInv

(* Every step preserves it.                                                *)
LEMMA NextIInv == IInv /\ [Next]_vars => IInv'
<1> SUFFICES ASSUME IInv, [Next]_vars PROVE IInv'
  OBVIOUS
<1> USE DEF IInv
<1>1. \A u \in Tasks : Entry(u)
  BY EntryDef DEF TypeOK
<1>2. TypeOK'
  BY TypeInductive
<1>3. MutexDiscipline'
  BY MutexInductive
<1>4. CountFits'
  BY CountInductive
<1>5. \A u \in Tasks : Entry(u)'
  BY <1>1, EntryInductive
<1>6. EntriesTracked'
  <2>1. (wq \in [Queues -> SUBSET Tasks])'
    BY <1>2 DEF TypeOK
  <2>2. wq'["r"] \subseteq Tasks /\ wq'["w"] \subseteq Tasks
    BY <2>1 DEF Queues
  <2>3. /\ Enlisted("r")' = {t \in Tasks : pc'[t] \in Linking}
        /\ Enlisted("w")' = {t \in Tasks : pc'[t] \in Waiting}
    BY DEF Enlisted, Linking, Waiting
  <2>4. wq'["w"] = Enlisted("w")' /\ (stale' = {} => wq'["r"] = Enlisted("r")')
    BY <1>5, <2>2, <2>3 DEF Entry
  <2> QED
    BY <2>4 DEF EntriesTracked, Queues, Torn
<1>7. NoLostWakeup'
  BY <1>1, WakeInductive
<1> QED
  BY <1>2, <1>3, <1>4, <1>6, <1>7

(* So it holds throughout.                                                 *)
LEMMA Invariance == Spec => []IInv
BY InitIInv, NextIInv, PTL DEF Spec

(* Every variable keeps its domain; current_len stays within the buffer,   *)
(* for every capacity and every request.                                   *)
THEOREM TypeCorrect == Spec => []TypeOK
<1>1. IInv => TypeOK
  BY DEF IInv
<1> QED
  BY <1>1, Invariance, PTL

(* No path through hello_read, hello_write, hello_ioctl and hello_poll     *)
(* touches the device without the mutex, unlocks it without holding it or  *)
(* returns with it, for any number of tasks.                               *)
THEOREM MutexCorrect == Spec => []MutexDiscipline
<1>1. IInv => MutexDiscipline
  BY DEF IInv
<1> QED
  BY <1>1, Invariance, PTL

(* The clipped counts are still right when they are used.                  *)
THEOREM CountCorrect == Spec => []CountFits
<1>1. IInv => CountFits
  BY DEF IInv
<1> QED
  BY <1>1, Invariance, PTL

(* No wake-up is lost, however many readers and writers there are: writers *)
(* whatever happens to r_wait, readers as long as r_wait is not torn.      *)
THEOREM WakeupsCorrect == Spec => []NoLostWakeup
<1>1. IInv => NoLostWakeup
  BY DEF IInv
<1> QED
  BY <1>1, Invariance, PTL

(* w_wait always, and r_wait until an addition overlaps a removal, hold    *)
(* the entries of the calls in progress that are enlisted, no more and no  *)
(* fewer, for any number of readers, writers and pollers.                  *)
THEOREM EntriesCorrect == Spec => []EntriesTracked
<1>1. IInv => EntriesTracked
  BY DEF IInv
<1> QED
  BY <1>1, Invariance, PTL

(* Once a task is at the second mutex_lock of hello_poll, no step of any   *)
(* task, in whatever number, gives it or anybody else the mutex.           *)
THEOREM PollCorrect == Spec => PollWedges
<1> DEFINE Stuck(t) == pc[t] = "p_relock" =>
                         mutex = t /\ mutex' = t /\ pc'[t] = "p_relock"
<1>1. ASSUME TypeOK, MutexDiscipline, [Next]_vars, NEW t \in Tasks
      PROVE  Stuck(t)
  <2> SUFFICES ASSUME pc[t] = "p_relock"
               PROVE  mutex = t /\ mutex' = t /\ pc'[t] = "p_relock"
    OBVIOUS
  <2>1. mutex = t /\ t # NoTask
    BY <1>1, GlobalFifoAssumption DEF MutexDiscipline, Critical
  <2>2. \A u \in Tasks : u # t => pc[u] \notin Critical
    BY <1>1, <2>1 DEF MutexDiscipline
  <2>u. CASE UNCHANGED vars
    BY <2>1, <2>u DEF vars
  <2>3. CASE Next
    <3>1. PICK u \in Tasks : TaskStep(u) \/ Call(u) \/ Signal(u)
      BY <2>3 DEF Next
    <3>2. CASE Call(u) \/ Signal(u)
      BY <1>1, <2>1, <3>2 DEF Call, hello_read, hello_write, hello_ioctl, hello_poll,
           Signal, Step, TypeOK
    <3>3. CASE mutex_lock(u) \/ spin_lock(u) \/ poll_wait(u) \/ ioctl_mem_clear(u)
      BY <1>1, <2>1, <2>2, <3>3 DEF mutex_lock, spin_lock, poll_wait, ioctl_mem_clear,
           ReturnToUser, Step, TypeOK, Critical
    <3>4. CASE ReadStep(u)
      BY <1>1, <2>1, <2>2, <3>4 DEF ReadStep, read_add_wait_queue, read_test,
           read_schedule, read_copy_to_user, read_consume, read_wake_up, read_out,
           read_out2, mutex_unlock, ReturnToUser, Step, TypeOK, Critical
    <3>5. CASE WriteStep(u)
      BY <1>1, <2>1, <2>2, <3>5 DEF WriteStep, write_add_wait_queue, write_test,
           write_schedule, write_copy_from_user, write_commit, write_wake_up, write_out,
           write_out2, mutex_unlock, ReturnToUser, Step, TypeOK, Critical
    <3> QED
      BY <3>1, <3>2, <3>3, <3>4, <3>5 DEF TaskStep
  <2> QED
    BY <1>1, <2>u, <2>3
<1>2. IInv /\ [Next]_vars => [\A t \in Tasks : Stuck(t)]_vars
  BY <1>1 DEF IInv
<1> QED
  BY <1>2, Invariance, PTL DEF Spec, PollWedges

-----------------------------------------------------------------------------
(* The refinement of BoundedFifo.  The labels at which a write is on offer *)
(* and at which a read may have received something.                        *)
Offering == {"w_lock", "w_add", "w_test", "w_sched", "w_relock", "w_copy", "w_commit"}
Receiving == {"r_shift", "r_wake", "r_out", "r_out2"}

(* What the mapping needs to know of t beyond IInv: the test of the while  *)
(* loop still holds when it is acted upon, and what current_len is about   *)
(* to be increased by is what t offered.                                   *)
Copied(t) ==
  /\ pc[t] = "r_copy" => current_len # 0
  /\ pc[t] \in {"w_copy", "w_commit"} => current_len # HELLODEV_SIZE
  /\ pc[t] = "w_commit" =>
       /\ count[t] = Lesser(Len(wbuf[t]), HELLODEV_SIZE - current_len)
       /\ \A i \in 1 .. count[t] : mem[current_len + i - 1] = wbuf[t][i]
  /\ pc[t] \notin Receiving => rbuf[t] = << >>

RInv == IInv /\ \A t \in Tasks : Copied(t)

(* The steps that the abstract device does not see, or sees only as the    *)
(* withdrawal of what t offered: t goes to l and leaves the buffers alone. *)
Steady == UNCHANGED <<mem, current_len, mutex, pc, count, rbuf, wbuf>>
Moves(t, l) ==
  /\ pc' = [pc EXCEPT ![t] = l]
  /\ pc[t] \notin {"r_shift", "w_commit"} /\ l \notin {"r_shift", "w_commit"}
  /\ l = "r_copy" => current_len # 0
  /\ l = "w_copy" => current_len # HELLODEV_SIZE
  /\ l \in Offering => pc[t] \in Offering
  /\ pc[t] \in Receiving => l \in Receiving
  /\ UNCHANGED <<mem, current_len, rbuf, wbuf>>
  /\ \A u \in Tasks \ {t} : count'[u] = count[u]

(* The halves of the two steps that copy between user space and mem.       *)
read_copied(t) == Step(t, "r_copy", "r_shift") /\ read_copy_to_user(t)

(* The steps of t that do more than that.                                  *)
Acts(t) ==
  \/ read_copied(t) \/ read_consume(t) \/ read_out2(t)
  \/ hello_write(t) \/ write_copy_from_user(t) \/ write_commit(t) \/ write_out2(t)
  \/ ioctl_mem_clear(t)

(* There are no other steps.                                               *)
LEMMA StepKinds ==
  ASSUME TypeOK, Next
  PROVE  Steady \/ \E t \in Tasks : (\E l \in Labels : Moves(t, l)) \/ Acts(t)
<1>1. PICK t \in Tasks : TaskStep(t) \/ Call(t) \/ Signal(t)
  BY DEF Next
<1> DEFINE G == Steady \/ (\E l \in Labels : Moves(t, l)) \/ Acts(t)
<1> SUFFICES G
  OBVIOUS
<1> HIDE DEF G
<1>m. ASSUME NEW l \in Labels, Moves(t, l) PROVE G
  BY <1>m DEF G
<1>l. /\ \A l \in MutexPoints : AfterLock(l) \in Labels
      /\ {"r_lock", "r_test", "r_sched", "r_relock", "r_copy"} \subseteq Labels
      /\ {"r_shift", "r_wake", "r_out", "r_out2"} \subseteq Labels
      /\ {"w_lock", "w_test", "w_sched", "w_relock", "w_copy"} \subseteq Labels
      /\ {"w_commit", "w_wake", "w_out", "w_out2"} \subseteq Labels
      /\ {"idle", "c_lock", "p_lock", "p_add_w", "p_relock"} \subseteq Labels
  BY DEF Labels, ReadLabels, WriteLabels, PollLabels, MutexPoints, AfterLock
<1> USE DEF device, queues, locals, Step, Offering, Receiving
<1>2. CASE spin_lock(t) \/ Signal(t)
  BY <1>2 DEF spin_lock, Signal, G, Steady
<1>3. CASE mutex_lock(t)
  <2>1. /\ AfterLock(pc[t]) \notin {"r_shift", "w_commit", "r_copy", "w_copy"}
        /\ AfterLock(pc[t]) \in Offering => pc[t] \in Offering
        /\ pc[t] \notin {"r_shift", "w_commit"} /\ pc[t] \notin Receiving
        /\ AfterLock(pc[t]) \in Labels
    BY <1>3, <1>l DEF mutex_lock, MutexPoints, AfterLock
  <2>2. Moves(t, AfterLock(pc[t]))
    BY <1>3, <2>1 DEF mutex_lock, Moves
  <2> QED
    BY <1>m, <2>1, <2>2
<1>4. CASE read_add_wait_queue(t)
  <2>1. Moves(t, "r_test")
    BY <1>4 DEF read_add_wait_queue, Moves
  <2> QED
    BY <1>m, <1>l, <2>1
<1>5. CASE read_test(t)
  <2>1. Moves(t, "r_copy") \/ Moves(t, "r_out") \/ Moves(t, "r_sched")
    BY <1>5 DEF read_test, Moves
  <2> QED
    BY <1>m, <1>l, <2>1
<1>6. CASE read_schedule(t)
  <2>1. Moves(t, "r_out2") \/ Moves(t, "r_relock")
    BY <1>6 DEF read_schedule, Moves
  <2> QED
    BY <1>m, <1>l, <2>1
<1>7. CASE read_copy_to_user(t)
  <2>1. CASE Step(t, "r_copy", "r_out") /\ UNCHANGED rbuf
    <3>1. Moves(t, "r_out")
      BY <1>7, <2>1 DEF read_copy_to_user, Moves, TypeOK
    <3> QED
      BY <1>m, <1>l, <3>1
  <2>2. CASE Step(t, "r_copy", "r_shift")
    BY <1>7, <2>2 DEF read_copied, Acts, G
  <2> QED
    BY <1>7, <2>1, <2>2 DEF read_copy_to_user
<1>8. CASE read_wake_up(t)
  <2>1. Moves(t, "r_out")
    BY <1>8 DEF read_wake_up, Moves
  <2> QED
    BY <1>m, <1>l, <2>1
<1>9. CASE read_out(t)
  <2>1. Moves(t, "r_out2")
    BY <1>9 DEF read_out, Moves
  <2> QED
    BY <1>m, <1>l, <2>1
<1>10. CASE write_add_wait_queue(t)
  <2>1. Moves(t, "w_test")
    BY <1>10 DEF write_add_wait_queue, Moves
  <2> QED
    BY <1>m, <1>l, <2>1
<1>11. CASE write_test(t)
  <2>1. Moves(t, "w_copy") \/ Moves(t, "w_out") \/ Moves(t, "w_sched")
    BY <1>11 DEF write_test, Moves
  <2> QED
    BY <1>m, <1>l, <2>1
<1>12. CASE write_schedule(t)
  <2>1. Moves(t, "w_out2") \/ Moves(t, "w_relock")
    BY <1>12 DEF write_schedule, Moves
  <2> QED
    BY <1>m, <1>l, <2>1
<1>13. CASE write_wake_up(t)
  <2>1. Moves(t, "w_out")
    BY <1>13 DEF write_wake_up, Moves
  <2> QED
    BY <1>m, <1>l, <2>1
<1>14. CASE write_out(t)
  <2>1. Moves(t, "w_out2")
    BY <1>14 DEF write_out, Moves
  <2> QED
    BY <1>m, <1>l, <2>1
<1>15. CASE hello_read(t) \/ hello_ioctl(t) \/ hello_poll(t)
  <2>1. Moves(t, "r_lock") \/ Moves(t, "c_lock") \/ Moves(t, "p_lock")
    BY <1>15 DEF hello_read, hello_ioctl, hello_poll, Moves, TypeOK
  <2> QED
    BY <1>m, <1>l, <2>1
<1>16. CASE poll_wait(t)
  <2>1. Moves(t, "p_add_w") \/ Moves(t, "p_relock")
    BY <1>16 DEF poll_wait, Moves
  <2> QED
    BY <1>m, <1>l, <2>1
<1>17. CASE \/ read_consume(t) \/ read_out2(t) \/ hello_write(t) \/ write_copy_from_user(t)
            \/ write_commit(t) \/ write_out2(t) \/ ioctl_mem_clear(t)
  BY <1>17 DEF Acts, G
<1>18. CASE ReadStep(t)
  BY <1>4, <1>5, <1>6, <1>7, <1>8, <1>9, <1>17, <1>18 DEF ReadStep
<1>19. CASE WriteStep(t)
  BY <1>10, <1>11, <1>12, <1>13, <1>14, <1>17, <1>19 DEF WriteStep
<1>20. CASE Call(t)
  BY <1>15, <1>17, <1>20 DEF Call
<1> QED
  BY <1>1, <1>2, <1>3, <1>16, <1>17, <1>18, <1>19, <1>20 DEF TaskStep

(* What t does to the buffers, it does with the mutex: nobody else is in   *)
(* the middle of anything.                                                 *)
LEMMA CopiedFrame ==
  ASSUME RInv, NEW t \in Tasks, NEW u \in Tasks, u # t,
         pc'[u] = pc[u], count'[u] = count[u], rbuf'[u] = rbuf[u], wbuf'[u] = wbuf[u],
         UNCHANGED <<mem, current_len>> \/ pc[t] \in Critical
  PROVE  Copied(u)'
<1>1. Copied(u)
  BY DEF RInv
<1>2. CASE UNCHANGED <<mem, current_len>>
  BY <1>1, <1>2 DEF Copied
<1>3. CASE pc[t] \in Critical
  <2>1. pc[u] \notin Critical
    BY <1>3 DEF RInv, IInv, MutexDiscipline
  <2>2. pc[u] \notin {"r_copy", "w_copy", "w_commit"}
    BY <2>1 DEF Critical
  <2> QED
    BY <1>1, <2>2 DEF Copied
<1> QED
  BY <1>2, <1>3

(* Every step keeps it.                                                    *)
LEMMA CopiedInductive ==
  ASSUME RInv, [Next]_vars
  PROVE  \A u \in Tasks : Copied(u)'
<1>0. TypeOK /\ CountFits /\ \A u \in Tasks : Copied(u)
  BY DEF RInv, IInv
<1>s. CASE Steady
  BY <1>0, <1>s DEF Steady, Copied
<1>u. CASE UNCHANGED vars
  BY <1>s, <1>u DEF vars, device, locals, Steady
<1> USE DEF device, queues, locals, Step
<1>f. ASSUME NEW t \in Tasks, Copied(t)', UNCHANGED <<mem, current_len>> \/ pc[t] \in Critical,
             \A u \in Tasks \ {t} : /\ pc'[u] = pc[u] /\ count'[u] = count[u]
                                    /\ rbuf'[u] = rbuf[u] /\ wbuf'[u] = wbuf[u]
      PROVE  \A u \in Tasks : Copied(u)'
  BY <1>f, CopiedFrame
<1>1. ASSUME NEW t \in Tasks, NEW l \in Labels, Moves(t, l) PROVE \A u \in Tasks : Copied(u)'
  <2>1. \A u \in Tasks \ {t} : /\ pc'[u] = pc[u] /\ count'[u] = count[u]
                               /\ rbuf'[u] = rbuf[u] /\ wbuf'[u] = wbuf[u]
    BY <1>0, <1>1 DEF Moves, TypeOK
  <2>2. pc'[t] = l /\ UNCHANGED <<mem, current_len, rbuf>>
    BY <1>0, <1>1 DEF Moves, TypeOK
  <2>3. Copied(t)
    BY <1>0
  <2>4. Copied(t)'
    BY <1>1, <2>2, <2>3 DEF Moves, Copied
  <2> QED
    BY <1>1, <1>f, <2>1, <2>2, <2>4
<1>2. ASSUME NEW t \in Tasks, read_copied(t) PROVE \A u \in Tasks : Copied(u)'
  <2>1. /\ pc' = [pc EXCEPT ![t] = "r_shift"]
        /\ \A u \in Tasks \ {t} : count'[u] = count[u] /\ rbuf'[u] = rbuf[u]
        /\ UNCHANGED <<mem, current_len, wbuf>>
    BY <1>0, <1>2 DEF read_copied, read_copy_to_user, TypeOK
  <2>2. pc'[t] = "r_shift" /\ \A u \in Tasks \ {t} : pc'[u] = pc[u]
    BY <1>0, <2>1 DEF TypeOK
  <2>3. Copied(t)'
    BY <2>2 DEF Copied, Receiving
  <2> QED
    BY <1>f, <2>1, <2>2, <2>3
<1>3. ASSUME NEW t \in Tasks, read_consume(t) PROVE \A u \in Tasks : Copied(u)'
  <2>1. pc[t] \in Critical /\ pc' = [pc EXCEPT ![t] = "r_wake"] /\ UNCHANGED <<count, rbuf, wbuf>>
    BY <1>3 DEF read_consume, Critical
  <2>2. pc'[t] = "r_wake" /\ \A u \in Tasks \ {t} : pc'[u] = pc[u]
    BY <1>0, <2>1 DEF TypeOK
  <2>3. Copied(t)'
    BY <2>2 DEF Copied, Receiving
  <2> QED
    BY <1>f, <2>1, <2>2, <2>3
<1>4. ASSUME NEW t \in Tasks, ReturnToUser(t), UNCHANGED <<mem, current_len>> \/ pc[t] \in Critical
      PROVE  \A u \in Tasks : Copied(u)'
  <2>1. /\ \A u \in Tasks \ {t} : pc'[u] = pc[u] /\ count'[u] = count[u]
        /\ \A u \in Tasks \ {t} : rbuf'[u] = rbuf[u] /\ wbuf'[u] = wbuf[u]
        /\ pc'[t] = "idle" /\ rbuf'[t] = << >>
    BY <1>0, <1>4 DEF ReturnToUser, TypeOK
  <2>2. Copied(t)'
    BY <2>1 DEF Copied
  <2> QED
    BY <1>4, <1>f, <2>1, <2>2
<1>5. ASSUME NEW t \in Tasks, hello_write(t) PROVE \A u \in Tasks : Copied(u)'
  <2>1. /\ \A u \in Tasks \ {t} : pc'[u] = pc[u] /\ count'[u] = count[u] /\ wbuf'[u] = wbuf[u]
        /\ pc[t] = "idle" /\ pc'[t] = "w_lock" /\ UNCHANGED <<mem, current_len, rbuf>>
    BY <1>0, <1>5 DEF hello_write, TypeOK
  <2>2. rbuf'[t] = << >>
    BY <1>0, <2>1 DEF Copied, Receiving
  <2>3. Copied(t)'
    BY <2>1, <2>2 DEF Copied
  <2> QED
    BY <1>f, <2>1, <2>3
<1>6. ASSUME NEW t \in Tasks, write_copy_from_user(t) PROVE \A u \in Tasks : Copied(u)'
  <2> DEFINE c == write_count(t)
             Filled(k) == [i \in Index |->
                             IF i \in current_len .. current_len + c - 1
                             THEN IF i < current_len + k THEN wbuf[t][i - current_len + 1] ELSE 0
                             ELSE mem[i]]
  <2>1. /\ pc[t] = "w_copy" /\ UNCHANGED <<current_len, rbuf, wbuf>>
        /\ count' = [count EXCEPT ![t] = c]
        /\ \/ pc' = [pc EXCEPT ![t] = "w_out"]
           \/ pc' = [pc EXCEPT ![t] = "w_commit"] /\ mem' = Filled(c)
    BY <1>6 DEF write_copy_from_user
  <2>2. /\ \A u \in Tasks \ {t} : pc'[u] = pc[u] /\ count'[u] = count[u]
        /\ count'[t] = c /\ pc[t] \in Critical
    BY <1>0, <2>1 DEF TypeOK, Critical
  <2>3. rbuf[t] = << >> /\ current_len # HELLODEV_SIZE /\ Len(wbuf[t]) = count[t]
    BY <1>0, <2>1 DEF Copied, Receiving, CountFits, Clipped
  <2>4. CASE pc' = [pc EXCEPT ![t] = "w_out"]
    <3>1. pc'[t] = "w_out" /\ rbuf'[t] = << >>
      BY <1>0, <2>1, <2>3, <2>4 DEF TypeOK
    <3>2. Copied(t)'
      BY <3>1 DEF Copied
    <3> QED
      BY <1>f, <2>1, <2>2, <3>2
  <2>5. CASE pc' = [pc EXCEPT ![t] = "w_commit"] /\ mem' = Filled(c)
    <3>1. pc'[t] = "w_commit" /\ rbuf'[t] = << >> /\ current_len' # HELLODEV_SIZE'
      BY <1>0, <2>1, <2>3, <2>5 DEF TypeOK
    <3>2. count'[t] = Lesser(Len(wbuf'[t]), HELLODEV_SIZE - current_len')
      BY <2>1, <2>2, <2>3 DEF write_count
    <3>3. c \in Nat /\ current_len \in Nat /\ current_len + c =< HELLODEV_SIZE
      <4>1. count[t] \in Nat /\ current_len \in Nat /\ HELLODEV_SIZE - current_len \in Nat
        BY <1>0, LenBound DEF TypeOK
      <4>2. c \in Nat /\ c =< HELLODEV_SIZE - current_len
        BY <4>1, LesserBound DEF write_count
      <4> QED
        BY <4>1, <4>2, GlobalFifoAssumption
    <3>4. ASSUME NEW i \in 1 .. c PROVE mem'[current_len + i - 1] = wbuf[t][i]
      <4>1. /\ current_len + i - 1 \in Index
            /\ current_len + i - 1 \in current_len .. current_len + c - 1
            /\ current_len + i - 1 < current_len + c
            /\ (current_len + i - 1) - current_len + 1 = i
        BY <3>3, GlobalFifoAssumption DEF Index
      <4> QED
        BY <2>5, <4>1
    <3>5. Copied(t)'
      BY <2>1, <2>2, <3>1, <3>2, <3>4 DEF Copied
    <3> QED
      BY <1>f, <2>1, <2>2, <3>5
  <2> QED
    BY <2>1, <2>4, <2>5
<1>7. ASSUME NEW t \in Tasks, write_commit(t) PROVE \A u \in Tasks : Copied(u)'
  <2>1. pc[t] = "w_commit" /\ pc' = [pc EXCEPT ![t] = "w_wake"] /\ UNCHANGED <<count, rbuf, wbuf>>
    BY <1>7 DEF write_commit
  <2>2. pc'[t] = "w_wake" /\ pc[t] \in Critical /\ \A u \in Tasks \ {t} : pc'[u] = pc[u]
    BY <1>0, <2>1 DEF TypeOK, Critical
  <2>3. rbuf'[t] = << >>
    BY <1>0, <2>1 DEF Copied, Receiving
  <2>4. Copied(t)'
    BY <2>2, <2>3 DEF Copied
  <2> QED
    BY <1>f, <2>1, <2>2, <2>4
<1>8. ASSUME NEW t \in Tasks, Acts(t) PROVE \A u \in Tasks : Copied(u)'
  <2>1. CASE read_out2(t) \/ write_out2(t)
    BY <1>4, <2>1 DEF read_out2, write_out2
  <2>2. CASE ioctl_mem_clear(t)
    BY <1>4, <2>2 DEF ioctl_mem_clear, Critical
  <2> QED
    BY <1>2, <1>3, <1>5, <1>6, <1>7, <1>8, <2>1, <2>2 DEF Acts
<1> QED
  BY <1>0, <1>u, <1>s, <1>1, <1>8, StepKinds

-----------------------------------------------------------------------------
(* The bytes of m from position k up to n, as a sequence.                  *)
View(m, n, k) == [i \in 1 .. n - k |-> m[i - 1 + k]]

(* A view is a sequence of bytes.                                          *)
LEMMA ViewSeq ==
  ASSUME NEW m \in [Index -> Bytes], NEW n \in 0 .. HELLODEV_SIZE, NEW k \in 0 .. n
  PROVE  /\ View(m, n, k) \in Seq(Bytes) /\ Len(View(m, n, k)) = n - k
         /\ \A i \in 1 .. n - k : View(m, n, k)[i] = m[i - 1 + k]
<1>1. n - k \in Nat /\ HELLODEV_SIZE \in Nat
  BY GlobalFifoAssumption
<1>2. ASSUME NEW i \in 1 .. n - k PROVE m[i - 1 + k] \in Bytes
  <2>1. i - 1 + k \in Index
    BY <1>1 DEF Index
  <2> QED
    BY <2>1
<1>3. View(m, n, k) \in [1 .. n - k -> Bytes]
  BY <1>2 DEF View
<1> QED
  BY <1>1, <1>3, FunctionIsSeq DEF View

(* The view from the start.                                                *)
LEMMA ViewAll ==
  ASSUME NEW m \in [Index -> Bytes], NEW n \in 0 .. HELLODEV_SIZE
  PROVE  /\ View(m, n, 0) \in Seq(Bytes) /\ Len(View(m, n, 0)) = n
         /\ \A i \in 1 .. n : View(m, n, 0)[i] = m[i - 1] /\ m[i - 1] \in Bytes
<1>1. HELLODEV_SIZE \in Nat /\ n \in Nat /\ 0 \in 0 .. n /\ n - 0 = n
  BY GlobalFifoAssumption
<1>2. /\ View(m, n, 0) \in Seq(Bytes) /\ Len(View(m, n, 0)) = n
      /\ \A i \in 1 .. n : View(m, n, 0)[i] = m[i - 1 + 0]
  BY <1>1, ViewSeq
<1>3. ASSUME NEW i \in 1 .. n PROVE i - 1 + 0 = i - 1 /\ i - 1 \in Index
  BY <1>1 DEF Index
<1> QED
  BY <1>2, <1>3

(* Taking c bytes off the front splits a view.                             *)
LEMMA ViewGet ==
  ASSUME NEW m \in [Index -> Bytes], NEW n \in 0 .. HELLODEV_SIZE, NEW c \in 0 .. n
  PROVE  /\ SubSeq(View(m, n, 0), 1, c) = [i \in 1 .. c |-> m[i - 1]]
         /\ SubSeq(View(m, n, 0), c + 1, n) = View(m, n, c)
<1> DEFINE v == View(m, n, 0)
           a == SubSeq(v, 1, c)
           b == SubSeq(v, c + 1, n)
<1>0. HELLODEV_SIZE \in Nat /\ n \in Nat /\ c \in Nat /\ c =< n
  BY GlobalFifoAssumption
<1>1. /\ v \in Seq(Bytes) /\ Len(v) = n
      /\ \A i \in 1 .. n : v[i] = m[i - 1] /\ m[i - 1] \in Bytes
  BY ViewAll
<1>2. \A i \in 1 .. n : v[i] \in Bytes
  BY <1>1
<1>3. /\ a \in Seq(Bytes) /\ Len(a) = c
      /\ \A i \in 1 .. c : a[i] = v[i]
  BY <1>0, <1>2, SubSeqProperties
<1>4. /\ b \in Seq(Bytes) /\ Len(b) = n - c
      /\ \A i \in 1 .. n - c : b[i] = v[c + i]
  <2>1. \A i \in c + 1 .. n : v[i] \in Bytes
    BY <1>0, <1>2
  <2>2. /\ b \in Seq(Bytes) /\ Len(b) = IF c + 1 =< n THEN n - (c + 1) + 1 ELSE 0
        /\ \A i \in 1 .. n - (c + 1) + 1 : b[i] = v[c + 1 + i - 1]
    BY <1>0, <2>1, SubSeqProperties
  <2> QED
    BY <1>0, <2>2
<1>5. a = [i \in 1 .. c |-> m[i - 1]]
  <2> DEFINE f == [i \in 1 .. c |-> m[i - 1]]
  <2>1. f \in [1 .. c -> Bytes]
    <3>1. \A i \in 1 .. c : i \in 1 .. n
      BY <1>0
    <3>2. \A i \in 1 .. c : m[i - 1] \in Bytes
      BY <1>1, <3>1
    <3> QED
      BY <3>2
  <2>2. f \in Seq(Bytes) /\ Len(f) = c
    BY <1>0, <2>1, FunctionIsSeq
  <2>3. \A i \in 1 .. c : a[i] = f[i]
    BY <1>0, <1>1, <1>3
  <2> HIDE DEF a, f
  <2>4. a = f
    BY <1>3, <2>2, <2>3, SeqEqual
  <2> QED
    BY <2>4 DEF f
<1>6. b = View(m, n, c)
  <2> DEFINE w == View(m, n, c)
  <2>1. w \in Seq(Bytes) /\ Len(w) = n - c /\ \A i \in 1 .. n - c : w[i] = m[i - 1 + c]
    BY <1>0, ViewSeq
  <2>2. ASSUME NEW i \in 1 .. n - c PROVE b[i] = w[i]
    <3>1. c + i \in 1 .. n /\ (c + i) - 1 = i - 1 + c
      BY <1>0
    <3> QED
      BY <1>1, <1>4, <2>1, <3>1
  <2> HIDE DEF b, w
  <2>3. b = w
    BY <1>4, <2>1, <2>2, SeqEqual
  <2> QED
    BY <2>3 DEF w
<1> QED
  BY <1>5, <1>6

(* What has been copied behind a view extends it.                          *)
LEMMA ViewPut ==
  ASSUME NEW m \in [Index -> Bytes], NEW n \in Nat, NEW c \in Nat, n + c =< HELLODEV_SIZE,
         NEW b \in Seq(Bytes), c =< Len(b), \A i \in 1 .. c : m[n + i - 1] = b[i]
  PROVE  View(m, n + c, 0) = View(m, n, 0) \o SubSeq(b, 1, c)
<1> DEFINE u == View(m, n, 0)
           x == SubSeq(b, 1, c)
           w == View(m, n + c, 0)
<1>0. HELLODEV_SIZE \in Nat /\ Len(b) \in Nat /\ \A i \in 1 .. Len(b) : b[i] \in Bytes
  BY GlobalFifoAssumption, LenProperties
<1>1. u \in Seq(Bytes) /\ Len(u) = n /\ \A i \in 1 .. n : u[i] = m[i - 1]
  <2>1. n \in 0 .. HELLODEV_SIZE
    BY <1>0
  <2> QED
    BY <2>1, ViewAll
<1>2. w \in Seq(Bytes) /\ Len(w) = n + c /\ \A i \in 1 .. n + c : w[i] = m[i - 1]
  <2>1. n + c \in 0 .. HELLODEV_SIZE
    BY <1>0
  <2> QED
    BY <2>1, ViewAll
<1>3. x \in Seq(Bytes) /\ Len(x) = c /\ \A i \in 1 .. c : x[i] = b[i]
  <2>1. \A i \in 1 .. c : b[i] \in Bytes
    BY <1>0
  <2> QED
    BY <2>1, SubSeqProperties
<1>4. /\ u \o x \in Seq(Bytes) /\ Len(u \o x) = n + c
      /\ \A i \in 1 .. n + c : (u \o x)[i] = IF i =< n THEN u[i] ELSE x[i - n]
  <2> HIDE DEF u, x
  <2>1. /\ u \o x \in Seq(Bytes) /\ Len(u \o x) = Len(u) + Len(x)
        /\ \A i \in 1 .. Len(u) + Len(x) :
             (u \o x)[i] = IF i =< Len(u) THEN u[i] ELSE x[i - Len(u)]
    <3>1. u \in Seq(Bytes) /\ x \in Seq(Bytes)
      BY <1>1, <1>3
    <3> QED
      BY <3>1, ConcatProperties, Zenon
  <2>2. Len(u) = n /\ Len(x) = c
    BY <1>1, <1>3
  <2> QED
    BY <2>1, <2>2, Zenon
<1>5. ASSUME NEW i \in 1 .. n + c PROVE w[i] = (u \o x)[i]
  <2> HIDE DEF u, x, w
  <2>1. CASE i =< n
    <3>1. i \in 1 .. n
      BY <2>1
    <3> QED
      BY <1>1, <1>2, <1>4, <2>1, <3>1
  <2>2. CASE ~(i =< n)
    <3>1. i - n \in 1 .. c /\ n + (i - n) - 1 = i - 1
      BY <2>2
    <3>2. b[i - n] = m[i - 1]
      BY <3>1
    <3> QED
      BY <1>2, <1>3, <1>4, <2>2, <3>1, <3>2
  <2> QED
    BY <2>1, <2>2
<1> HIDE DEF u, x, w
<1>6. w = u \o x
  BY <1>2, <1>4, <1>5, SeqEqual
<1> QED
  BY <1>6 DEF u, x, w

(* Moving the bytes behind the first c to the front leaves the view of     *)
(* them the same.                                                          *)
LEMMA ViewShift ==
  ASSUME NEW m \in [Index -> Bytes], NEW n \in 0 .. HELLODEV_SIZE, NEW c \in 0 .. n,
         NEW q, q = [i \in Index |-> IF i < n - c THEN m[i + c] ELSE m[i]]
  PROVE  View(q, n - c, 0) = View(m, n, c)
<1>1. (n - c) - 0 = n - c
  OBVIOUS
<1>2. ASSUME NEW i \in 1 .. n - c PROVE q[i - 1 + 0] = m[i - 1 + c]
  <2>1. HELLODEV_SIZE \in Nat
    BY GlobalFifoAssumption
  <2>2. i - 1 + 0 \in Index /\ i - 1 + 0 < n - c /\ (i - 1 + 0) + c = i - 1 + c
    BY <2>1 DEF Index
  <2> QED
    BY <2>2
<1> QED
  BY <1>1, <1>2 DEF View

-----------------------------------------------------------------------------
(* The owner of the mutex is the only task that can be taking bytes out.   *)
LEMMA TakenIs ==
  ASSUME RInv
  PROVE  /\ \A t \in Tasks : pc[t] = "r_shift" => Taken = count[t]
         /\ \A t \in Tasks : pc[t] \in Critical \ {"r_shift"} => Taken = 0
         /\ Taken \in 0 .. current_len
<1>0. TypeOK /\ MutexDiscipline /\ CountFits
  BY DEF RInv, IInv
<1>1. ASSUME NEW t \in Tasks, pc[t] \in Critical PROVE mutex = t
  BY <1>0, <1>1 DEF MutexDiscipline
<1>2. ASSUME NEW t \in Tasks, pc[t] = "r_shift" PROVE Taken = count[t] /\ count[t] =< current_len
  <2>1. mutex = t
    BY <1>1, <1>2 DEF Critical
  <2> QED
    BY <1>0, <1>2, <2>1 DEF Taken, CountFits, Clipped
<1>3. ASSUME NEW t \in Tasks, pc[t] \in Critical \ {"r_shift"} PROVE Taken = 0
  BY <1>1, <1>3 DEF Taken
<1>4. CASE Taken = 0
  BY <1>0, <1>2, <1>3, <1>4, LenBound
<1>5. CASE mutex \in Tasks /\ pc[mutex] = "r_shift"
  BY <1>0, <1>2, <1>3, <1>5, LenBound DEF TypeOK
<1> QED
  BY <1>4, <1>5 DEF Taken

(* A step after and before which the same task, with the same count, is    *)
(* taking bytes out, or none.                                              *)
LEMMA TakenFrame ==
  ASSUME RInv, RInv',
         \A u \in Tasks : /\ pc'[u] = "r_shift" <=> pc[u] = "r_shift"
                          /\ pc[u] = "r_shift" => count'[u] = count[u]
  PROVE  Taken' = Taken
<1>0. /\ \A u \in Tasks : pc[u] = "r_shift" => mutex = u
      /\ \A u \in Tasks : pc'[u] = "r_shift" => mutex' = u
  BY DEF RInv, IInv, MutexDiscipline, Critical
<1>1. CASE \E u \in Tasks : pc[u] = "r_shift"
  <2>1. PICK u \in Tasks : pc[u] = "r_shift"
    BY <1>1
  <2>2. mutex = u /\ mutex' = u /\ pc'[u] = "r_shift"
    BY <1>0, <2>1
  <2> QED
    BY <2>1, <2>2 DEF Taken
<1>2. CASE ~ \E u \in Tasks : pc[u] = "r_shift"
  BY <1>2 DEF Taken
<1> QED
  BY <1>1, <1>2

(* The abstract buffer depends on the live bytes only.                     *)
LEMMA ContentsFrame ==
  ASSUME RInv, Taken' = Taken, current_len' = current_len,
         \A i \in Index : i < current_len => mem'[i] = mem[i]
  PROVE  Contents' = Contents
<1>1. ASSUME NEW i \in 1 .. current_len - Taken PROVE mem'[i - 1 + Taken] = mem[i - 1 + Taken]
  <2>1. Taken \in 0 .. current_len /\ current_len \in Nat /\ current_len =< HELLODEV_SIZE
        /\ HELLODEV_SIZE \in Nat
    BY TakenIs, LenBound DEF RInv, IInv
  <2>2. i - 1 + Taken \in Index /\ i - 1 + Taken < current_len
    BY <2>1 DEF Index
  <2> QED
    BY <2>2
<1> QED
  BY <1>1 DEF Contents

(* What is on offer depends on the offering tasks only.                    *)
LEMMA OfferedFrame ==
  ASSUME NEW t \in Tasks,
         \A u \in Tasks \ {t} : pc'[u] = pc[u] /\ wbuf'[u] = wbuf[u]
  PROVE  /\ pc'[t] \notin Offering => Offered' = [Offered EXCEPT ![t] = << >>]
         /\ pc'[t] \in Offering => Offered' = [Offered EXCEPT ![t] = wbuf'[t]]
         /\ pc'[t] \notin Offering /\ pc[t] \notin Offering => Offered' = Offered
         /\ pc'[t] \in Offering /\ pc[t] \in Offering /\ wbuf'[t] = wbuf[t] => Offered' = Offered
<1>1. /\ Offered = [u \in Tasks |-> IF pc[u] \in Offering THEN wbuf[u] ELSE << >>]
      /\ Offered' = [u \in Tasks |-> IF pc'[u] \in Offering THEN wbuf'[u] ELSE << >>]
  BY DEF Offered, Offering
<1> QED
  BY <1>1

(* The step of the abstract device, or the stuttering, that each step is.  *)
Abstract == Fifo!Next \/ UNCHANGED Fifo!abstractVars

(* A step that touches no buffer.                                          *)
LEMMA MovesRefine ==
  ASSUME RInv, RInv', NEW t \in Tasks, NEW l \in Labels, Moves(t, l)
  PROVE  Abstract
<1>0. TypeOK
  BY DEF RInv, IInv
<1>1. /\ pc'[t] = l /\ \A u \in Tasks \ {t} : pc'[u] = pc[u] /\ count'[u] = count[u]
      /\ UNCHANGED <<mem, current_len, rbuf, wbuf>>
    BY <1>0 DEF Moves, TypeOK
<1>2. \A u \in Tasks : /\ pc'[u] = "r_shift" <=> pc[u] = "r_shift"
                       /\ pc[u] = "r_shift" => count'[u] = count[u]
  BY <1>1 DEF Moves
<1>3. Taken' = Taken
  BY <1>2, TakenFrame
<1>4. Contents' = Contents
  BY <1>1, <1>3, ContentsFrame
<1>5. CASE l \in Offering
  <2>1. Offered' = Offered
    BY <1>1, <1>5, OfferedFrame DEF Moves
  <2> QED
    BY <1>1, <1>4, <2>1 DEF Abstract, Fifo!abstractVars
<1>6. CASE l \notin Offering
  <2>1. Offered' = [Offered EXCEPT ![t] = << >>]
    BY <1>1, <1>6, OfferedFrame
  <2>2. Fifo!Withdraw(t)
    BY <1>1, <1>4, <2>1 DEF Fifo!Withdraw
  <2> QED
    BY <2>2 DEF Abstract, Fifo!Next
<1> QED
  BY <1>5, <1>6

(* copy_to_user has succeeded: the read takes effect.                      *)
LEMMA ReadRefines ==
  ASSUME RInv, RInv', NEW t \in Tasks, read_copied(t)
  PROVE  Abstract
<1>0. TypeOK /\ TypeOK'
  BY DEF RInv, IInv
<1> DEFINE c == read_count(t)
<1>1. /\ pc[t] = "r_copy" /\ pc' = [pc EXCEPT ![t] = "r_shift"] /\ count' = [count EXCEPT ![t] = c]
      /\ rbuf' = [rbuf EXCEPT ![t] = [i \in 1 .. c |-> mem[i - 1]]]
      /\ UNCHANGED <<mem, current_len, wbuf>>
  <2>1. pc[t] = "r_copy" /\ pc' = [pc EXCEPT ![t] = "r_shift"]
    BY DEF read_copied, Step
  <2>2. pc'[t] = "r_shift"
    BY <1>0, <2>1 DEF TypeOK
  <2> QED
    BY <1>0, <2>1, <2>2 DEF read_copied, read_copy_to_user, Step, device, TypeOK
<1>2. pc'[t] = "r_shift" /\ count'[t] = c /\ \A u \in Tasks \ {t} : pc'[u] = pc[u]
  BY <1>0, <1>1 DEF TypeOK
<1>3. Taken = 0 /\ Taken' = c
  <2>1. Taken = 0
    BY <1>1, TakenIs DEF Critical
  <2>2. mutex' = t
    BY <1>2 DEF RInv, IInv, MutexDiscipline, Critical
  <2> QED
    BY <1>2, <2>1, <2>2 DEF Taken
<1>4. c \in 0 .. current_len /\ current_len \in 0 .. HELLODEV_SIZE /\ current_len # 0
  <2>1. count[t] \in Nat /\ current_len \in Nat
    BY <1>0, LenBound DEF TypeOK
  <2> QED
    BY <1>0, <1>1, <2>1, LesserBound DEF read_count, TypeOK, RInv, Copied
<1>5. Contents = View(mem, current_len, 0) /\ Contents' = View(mem, current_len, c)
  BY <1>1, <1>3 DEF Contents, View
<1>6. Contents \in Seq(Bytes) /\ Len(Contents) = current_len /\ Contents # << >>
  <2>1. Contents \in Seq(Bytes) /\ Len(Contents) = current_len
    BY <1>0, <1>4, <1>5, ViewAll DEF TypeOK
  <2> QED
    BY <1>4, <2>1
<1>7. /\ SubSeq(Contents, 1, c) = [i \in 1 .. c |-> mem[i - 1]]
      /\ SubSeq(Contents, c + 1, Len(Contents)) = Contents'
  <2>1. mem \in [Index -> Bytes] /\ c \in 0 .. current_len /\ current_len \in 0 .. HELLODEV_SIZE
    BY <1>0, <1>4 DEF TypeOK
  <2>2. /\ SubSeq(View(mem, current_len, 0), 1, c) = [i \in 1 .. c |-> mem[i - 1]]
        /\ SubSeq(View(mem, current_len, 0), c + 1, current_len) = View(mem, current_len, c)
    <3> HIDE DEF c
    <3> QED
      BY <2>1, ViewGet, Zenon
  <2> QED
    BY <1>5, <1>6, <2>2
<1>8. Offered' = Offered
  BY <1>1, <1>2, OfferedFrame DEF Offering
<1>9. /\ c \in 0 .. Len(Contents)
      /\ rbuf' = [rbuf EXCEPT ![t] = SubSeq(Contents, 1, c)]
      /\ Contents' = SubSeq(Contents, c + 1, Len(Contents))
  BY <1>1, <1>4, <1>6, <1>7
<1>10. Fifo!Get(t)
  BY <1>6, <1>8, <1>9 DEF Fifo!Get
<1> QED
  BY <1>10 DEF Abstract, Fifo!Next

(* The bytes that are left are moved to the front by a memcpy that can     *)
(* move: nobody sees it.                                                   *)
LEMMA ConsumeRefines ==
  ASSUME OverlapMoves, RInv, RInv', NEW t \in Tasks, read_consume(t)
  PROVE  Abstract
<1>0. TypeOK
  BY DEF RInv, IInv
<1> DEFINE c == count[t]
<1>1. /\ pc[t] = "r_shift" /\ pc' = [pc EXCEPT ![t] = "r_wake"] /\ current_len' = current_len - c
      /\ mem' = [i \in Index |-> IF i < current_len - c THEN mem[i + c] ELSE mem[i]]
      /\ UNCHANGED <<mutex, count, rbuf, wbuf>>
  BY DEF read_consume, Step, memcpy_down, locals
<1>2. pc'[t] = "r_wake" /\ \A u \in Tasks \ {t} : pc'[u] = pc[u]
  BY <1>0, <1>1 DEF TypeOK
<1>3. mutex = t /\ c =< current_len /\ c \in Nat
  BY <1>0, <1>1 DEF RInv, IInv, MutexDiscipline, Critical, CountFits, Clipped, TypeOK
<1>4. Taken = c /\ Taken' = 0
  BY <1>1, <1>2, <1>3 DEF Taken
<1>5. current_len \in 0 .. HELLODEV_SIZE /\ c \in 0 .. current_len
  BY <1>0, <1>3, LenBound
<1>6. Contents = View(mem, current_len, c) /\ Contents' = View(mem', current_len - c, 0)
  BY <1>1, <1>4 DEF Contents, View
<1>7. Contents' = Contents
  BY <1>0, <1>1, <1>5, <1>6, ViewShift DEF TypeOK
<1>8. Offered' = Offered
  BY <1>1, <1>2, OfferedFrame DEF Offering
<1> QED
  BY <1>1, <1>7, <1>8 DEF Abstract, Fifo!abstractVars

(* A call returns to user space: what a read has received is the caller's. *)
LEMMA ReturnRefines ==
  ASSUME RInv, RInv', NEW t \in Tasks, read_out2(t) \/ write_out2(t)
  PROVE  Abstract
<1>0. TypeOK
  BY DEF RInv, IInv
<1>1. /\ pc[t] \in {"r_out2", "w_out2"} /\ UNCHANGED <<mem, current_len>>
      /\ pc' = [pc EXCEPT ![t] = "idle"]
      /\ rbuf' = [rbuf EXCEPT ![t] = << >>] /\ wbuf' = [wbuf EXCEPT ![t] = << >>]
      /\ count' = [count EXCEPT ![t] = 0]
  BY DEF read_out2, write_out2, ReturnToUser, device
<1>2. /\ pc'[t] = "idle"
      /\ \A u \in Tasks \ {t} : pc'[u] = pc[u] /\ wbuf'[u] = wbuf[u] /\ count'[u] = count[u]
  BY <1>0, <1>1 DEF TypeOK
<1>3. Taken' = Taken
  BY <1>1, <1>2, TakenFrame
<1>4. Contents' = Contents
  BY <1>1, <1>3, ContentsFrame
<1>5. Offered' = Offered
  BY <1>1, <1>2, OfferedFrame DEF Offering
<1>6. Fifo!Return(t)
  BY <1>1, <1>4, <1>5 DEF Fifo!Return
<1> QED
  BY <1>6 DEF Abstract, Fifo!Next

(* A write is on offer from its call on.                                   *)
LEMMA OfferRefines ==
  ASSUME RInv, RInv', NEW t \in Tasks, hello_write(t)
  PROVE  Abstract
<1>0. TypeOK /\ TypeOK'
  BY DEF RInv, IInv
<1>1. /\ pc[t] = "idle" /\ pc' = [pc EXCEPT ![t] = "w_lock"] /\ UNCHANGED <<mem, current_len, rbuf>>
  BY DEF hello_write, Step, device
<1>2. /\ pc'[t] = "w_lock"
      /\ \A u \in Tasks \ {t} : pc'[u] = pc[u] /\ wbuf'[u] = wbuf[u] /\ count'[u] = count[u]
  BY <1>0, <1>1 DEF TypeOK, hello_write
<1>3. Taken' = Taken
  BY <1>1, <1>2, TakenFrame
<1>4. Contents' = Contents
  BY <1>1, <1>3, ContentsFrame
<1>5. Offered' = [Offered EXCEPT ![t] = wbuf'[t]] /\ wbuf'[t] \in Seq(Bytes)
  BY <1>0, <1>2, OfferedFrame DEF Offering, TypeOK
<1>6. Offered[t] = << >> /\ Offered'[t] = wbuf'[t]
  BY <1>1, <1>5 DEF Offered
<1>7. Fifo!Offer(t)
  BY <1>1, <1>4, <1>5, <1>6 DEF Fifo!Offer
<1> QED
  BY <1>7 DEF Abstract, Fifo!Next

(* copy_from_user writes behind the live bytes: if it faults the offer is  *)
(* withdrawn, and nothing else has happened.                               *)
LEMMA CopyRefines ==
  ASSUME RInv, RInv', NEW t \in Tasks, write_copy_from_user(t)
  PROVE  Abstract
<1>0. TypeOK
  BY DEF RInv, IInv
<1> DEFINE c == write_count(t)
<1>1. /\ pc[t] = "w_copy" /\ UNCHANGED <<current_len, rbuf, wbuf>>
      /\ pc' = [pc EXCEPT ![t] = "w_out"] \/ pc' = [pc EXCEPT ![t] = "w_commit"]
      /\ count' = [count EXCEPT ![t] = c]
  BY DEF write_copy_from_user, Step
<1>2. /\ pc'[t] \in {"w_out", "w_commit"}
      /\ \A u \in Tasks \ {t} : pc'[u] = pc[u] /\ count'[u] = count[u]
  BY <1>0, <1>1 DEF TypeOK
<1>3. ASSUME NEW i \in Index, i < current_len PROVE mem'[i] = mem[i]
  <2>1. i \notin current_len .. current_len + c - 1
    BY <1>0, <1>3, LenBound DEF Index
  <2> QED
    BY <2>1 DEF write_copy_from_user
<1>4. Taken' = Taken
  BY <1>1, <1>2, TakenFrame
<1>5. Contents' = Contents
  BY <1>1, <1>3, <1>4, ContentsFrame
<1>6. CASE pc'[t] = "w_out"
  <2>1. Offered' = [Offered EXCEPT ![t] = << >>]
    BY <1>1, <1>2, <1>6, OfferedFrame DEF Offering
  <2>2. Fifo!Withdraw(t)
    BY <1>1, <1>5, <2>1 DEF Fifo!Withdraw
  <2> QED
    BY <2>2 DEF Abstract, Fifo!Next
<1>7. CASE pc'[t] = "w_commit"
  <2>1. Offered' = Offered
    BY <1>1, <1>2, <1>7, OfferedFrame DEF Offering
  <2> QED
    BY <1>1, <1>5, <2>1 DEF Abstract, Fifo!abstractVars
<1> QED
  BY <1>2, <1>6, <1>7

(* current_len is increased: the write takes effect.                       *)
LEMMA CommitRefines ==
  ASSUME RInv, RInv', NEW t \in Tasks, write_commit(t)
  PROVE  Abstract
<1>0. TypeOK /\ Copied(t)
  BY DEF RInv, IInv
<1> DEFINE c == count[t]
<1>1. /\ pc[t] = "w_commit" /\ pc' = [pc EXCEPT ![t] = "w_wake"] /\ current_len' = current_len + c
      /\ UNCHANGED <<mem, mutex, count, rbuf, wbuf>>
  BY DEF write_commit, Step, locals
<1>2. pc'[t] = "w_wake" /\ \A u \in Tasks \ {t} : pc'[u] = pc[u]
  BY <1>0, <1>1 DEF TypeOK
<1>3. Taken = 0 /\ Taken' = 0
  <2>1. Taken = 0
    BY <1>1, TakenIs DEF Critical
  <2>2. Taken' = Taken
    BY <1>1, <1>2, TakenFrame
  <2> QED
    BY <2>1, <2>2
<1>4. /\ c = Lesser(Len(wbuf[t]), HELLODEV_SIZE - current_len) /\ current_len # HELLODEV_SIZE
      /\ \A i \in 1 .. c : mem[current_len + i - 1] = wbuf[t][i]
  BY <1>0, <1>1 DEF Copied
<1>5. /\ wbuf[t] \in Seq(Bytes) /\ Len(wbuf[t]) \in Nat /\ mem \in [Index -> Bytes]
      /\ current_len \in Nat /\ HELLODEV_SIZE \in Nat /\ HELLODEV_SIZE - current_len \in Nat
  BY <1>0, LenBound, LenProperties DEF TypeOK
<1>6. c \in Nat /\ c =< Len(wbuf[t]) /\ c =< HELLODEV_SIZE - current_len
  BY <1>4, <1>5, LesserBound
<1>7. Contents = View(mem, current_len, 0) /\ Contents' = View(mem, current_len + c, 0)
  BY <1>1, <1>3 DEF Contents, View
<1>8. Contents' = Contents \o SubSeq(wbuf[t], 1, c)
  <2>1. current_len + c =< HELLODEV_SIZE
    BY <1>5, <1>6
  <2>2. View(mem, current_len + c, 0) = View(mem, current_len, 0) \o SubSeq(wbuf[t], 1, c)
    <3> HIDE DEF c
    <3> QED
      <4>1. /\ wbuf[t] \in Seq(Bytes) /\ mem \in [Index -> Bytes] /\ current_len \in Nat
            /\ c \in Nat /\ c =< Len(wbuf[t])
            /\ \A i \in 1 .. c : mem[current_len + i - 1] = wbuf[t][i]
        BY <1>4, <1>5, <1>6, Zenon
      <4> QED
        BY <2>1, <4>1, ViewPut, Zenon
  <2> QED
    BY <1>7, <2>2
<1>9. Len(Contents) = current_len /\ current_len < HELLODEV_SIZE
  <2>1. current_len \in 0 .. HELLODEV_SIZE
    BY <1>0 DEF TypeOK
  <2>2. Len(View(mem, current_len, 0)) = current_len
    BY <1>5, <2>1, ViewAll, Zenon
  <2>3. Len(Contents) = current_len
    BY <1>7, <2>2
  <2> QED
    BY <1>4, <2>1, <2>3, GlobalFifoAssumption
<1>10. Offered[t] = wbuf[t] /\ Offered' = [Offered EXCEPT ![t] = << >>]
  <2>1. Offered[t] = wbuf[t]
    BY <1>1 DEF Offered
  <2> QED
    BY <1>1, <1>2, <2>1, OfferedFrame DEF Offering
<1>11. c = Fifo!Lesser(Len(Offered[t]), HELLODEV_SIZE - Len(Contents))
  BY <1>4, <1>9, <1>10 DEF Lesser, Fifo!Lesser
<1>12. Fifo!Put(t)
  <2>1. Contents' = Contents \o SubSeq(Offered[t], 1,
                       Fifo!Lesser(Len(Offered[t]), HELLODEV_SIZE - Len(Contents)))
    BY <1>8, <1>10, <1>11
  <2> QED
    BY <1>1, <1>9, <1>10, <2>1 DEF Fifo!Put
<1> QED
  BY <1>12 DEF Abstract, Fifo!Next

(* MEM_CLEAR: the live bytes are cleared, and stay live.                   *)
LEMMA ClearRefines ==
  ASSUME RInv, RInv', NEW t \in Tasks, ioctl_mem_clear(t)
  PROVE  Abstract
<1>0. TypeOK /\ Copied(t)
  BY DEF RInv, IInv
<1>1. /\ pc[t] = "c_clear" /\ UNCHANGED current_len /\ mem' = [i \in Index |-> 0]
      /\ pc' = [pc EXCEPT ![t] = "idle"]
      /\ rbuf' = [rbuf EXCEPT ![t] = << >>] /\ wbuf' = [wbuf EXCEPT ![t] = << >>]
      /\ count' = [count EXCEPT ![t] = 0]
  BY DEF ioctl_mem_clear, ReturnToUser
<1>2. /\ pc'[t] = "idle"
      /\ \A u \in Tasks \ {t} : pc'[u] = pc[u] /\ wbuf'[u] = wbuf[u] /\ count'[u] = count[u]
  BY <1>0, <1>1 DEF TypeOK
<1>3. Taken = 0 /\ Taken' = 0
  <2>1. Taken = 0
    BY <1>1, TakenIs DEF Critical
  <2>2. Taken' = Taken
    BY <1>1, <1>2, TakenFrame
  <2> QED
    BY <2>1, <2>2
<1>4. rbuf' = rbuf
  <2>1. rbuf[t] = << >>
    BY <1>0, <1>1 DEF Copied, Receiving
  <2> QED
    BY <1>0, <1>1, <2>1 DEF TypeOK
<1>5. Offered' = Offered
  BY <1>1, <1>2, OfferedFrame DEF Offering
<1>6. Contents' = [i \in DOMAIN Contents |-> 0]
  <2>1. ASSUME NEW i \in 1 .. current_len - 0 PROVE i - 1 + 0 \in Index
    BY <1>0, LenBound DEF Index
  <2>2. DOMAIN Contents = 1 .. current_len - 0
    BY <1>3 DEF Contents
  <2>3. Contents' = [i \in 1 .. current_len - 0 |-> mem'[i - 1 + 0]]
    BY <1>1, <1>3 DEF Contents
  <2> QED
    BY <1>1, <2>1, <2>2, <2>3
<1>7. Fifo!Clear
  BY <1>4, <1>5, <1>6 DEF Fifo!Clear
<1> QED
  BY <1>7 DEF Abstract, Fifo!Next

(* Every step of GlobalFifo is one of BoundedFifo or leaves it alone.      *)
LEMMA StepRefines ==
  ASSUME OverlapMoves, RInv, RInv', [Next]_vars
  PROVE  [Fifo!Next]_(Fifo!abstractVars)
<1>s. CASE Steady
  <2>1. Taken' = Taken
    BY <1>s, TakenFrame DEF Steady
  <2>2. Contents' = Contents
    BY <1>s, <2>1, ContentsFrame DEF Steady
  <2>3. Offered' = Offered
    BY <1>s DEF Steady, Offered
  <2> QED
    BY <1>s, <2>2, <2>3 DEF Steady, Fifo!abstractVars
<1>u. CASE UNCHANGED vars
  BY <1>s, <1>u DEF vars, device, locals, Steady
<1>1. ASSUME NEW t \in Tasks, NEW l \in Labels, Moves(t, l) PROVE Abstract
  BY <1>1, MovesRefine
<1>2. ASSUME NEW t \in Tasks, Acts(t) PROVE Abstract
  BY <1>2, ReadRefines, ConsumeRefines, ReturnRefines, OfferRefines, CopyRefines,
     CommitRefines, ClearRefines DEF Acts
<1>3. CASE Next
  <2>1. Steady \/ \E t \in Tasks : (\E l \in Labels : Moves(t, l)) \/ Acts(t)
    BY <1>3, StepKinds DEF RInv, IInv
  <2> QED
    BY <1>s, <1>1, <1>2, <2>1 DEF Abstract
<1> QED
  BY <1>u, <1>3

(* The device is empty, with nothing on offer, when it is created.         *)
LEMMA InitRefines ==
  ASSUME Init
  PROVE  RInv /\ Fifo!Init
<1>1. RInv
  BY InitIInv DEF Init, RInv, Copied
<1>2. Taken = 0 /\ current_len = 0
  BY GlobalFifoAssumption DEF Init, Taken
<1>3. Contents = << >>
  <2>1. Contents \in Seq(Bytes) /\ Len(Contents) = 0
    <3>1. Contents = View(mem, 0, 0)
      BY <1>2 DEF Contents, View
    <3>2. mem \in [Index -> Bytes] /\ 0 \in 0 .. HELLODEV_SIZE
      BY GlobalFifoAssumption DEF Init
    <3> QED
      BY <3>1, <3>2, ViewAll
  <2> QED
    BY <2>1
<1>4. Offered = [t \in Tasks |-> << >>] /\ rbuf = [t \in Tasks |-> << >>]
  BY DEF Init, Offered
<1> QED
  BY <1>1, <1>3, <1>4 DEF Fifo!Init

(* If the build's memcpy moves overlapping bytes, the device is a bounded  *)
(* FIFO: whichever tasks interleave, in whatever number, with whatever     *)
(* requests, signals and faults, each byte that write accepts is kept in   *)
(* order and read takes it out once; MEM_CLEAR zeroes it where it is.      *)
THEOREM FifoRefinement == OverlapMoves => (Spec => ImplementsFifo)
<1> SUFFICES ASSUME OverlapMoves PROVE Spec => ImplementsFifo
  OBVIOUS
<1>1. Init => RInv /\ Fifo!Init
  BY InitRefines
<1>2. RInv /\ [Next]_vars => RInv'
  <2> SUFFICES ASSUME RInv, [Next]_vars PROVE RInv'
    OBVIOUS
  <2>1. IInv' /\ \A t \in Tasks : Copied(t)'
    BY NextIInv, CopiedInductive DEF RInv
  <2> QED
    BY <2>1 DEF RInv
<1>3. RInv /\ RInv' /\ [Next]_vars => [Fifo!Next]_(Fifo!abstractVars)
  BY StepRefines
<1> QED
  BY <1>1, <1>2, <1>3, PTL DEF Spec, ImplementsFifo, Fifo!Spec
=============================================================================
