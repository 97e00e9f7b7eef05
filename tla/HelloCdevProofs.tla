-------------------------- MODULE HelloCdevProofs --------------------------
(***************************************************************************)
(* Proofs about the memory character device of src/src/cdev/main.c, for    *)
(* any number of tasks and open files, however they are shared, any size   *)
(* of the device and any requests.                                         *)
(***************************************************************************)
EXTENDS HelloCdev, TLAPS

USE HelloCdevAssumption

Labels == {"idle", "ret", "r_lock", "r_copy", "w_lock", "w_copy", "c_lock", "c_clear",
           "s_low", "s_load", "s_store"}

TypeOK ==
  /\ driver \in {"cdev", "globalfifo"}
  /\ fd \in [Tasks -> Files]
  /\ mem \in [Index -> Bytes]
  /\ mutex \in Tasks \cup {NoTask}
  /\ f_pos \in [Files -> Int]
  /\ pc \in [Tasks -> Labels]
  /\ pos \in [Tasks -> Int]
  /\ count \in [Tasks -> Int]
  /\ done \in [Tasks -> Nat]
  /\ buf \in [Tasks -> Seq(Bytes)]

(* The position and the count that t uses keep it inside mem.              *)
InBounds(t) ==
  pc[t] \in {"r_lock", "r_copy", "w_lock", "w_copy"} =>
    pos[t] >= 0 /\ count[t] >= 0 /\ pos[t] + count[t] =< HELLODEV_SIZE /\ done[t] =< count[t]

(* Nothing is copied before the copying begins, and not without the mutex. *)
Locked(t) ==
  /\ pc[t] \notin {"ret", "r_copy", "w_copy"} => done[t] = 0
  /\ pc[t] \in {"r_copy", "w_copy", "c_clear"} => mutex = t

(* What t has copied so far agrees with mem, and a writer has enough.      *)
Agrees(t) ==
  /\ pc[t] = "r_lock" => buf[t] = << >>
  /\ pc[t] = "r_copy" => Len(buf[t]) = done[t]
  /\ pc[t] \in {"w_lock", "w_copy"} => count[t] =< Len(buf[t])
  /\ pc[t] \in {"r_copy", "w_copy"} => \A i \in 1 .. done[t] : buf[t][i] = mem[pos[t] + i - 1]

(* A task that shares its file with nobody finds f_pos as it left it.      *)
Position(t) ==
  SoleUser(t) =>
    /\ f_pos[fd[t]] \in 0 .. HELLODEV_SIZE
    /\ pc[t] \in {"r_lock", "r_copy", "w_lock", "w_copy"} => pos[t] = f_pos[fd[t]]
    /\ pc[t] = "ret" => pos[t] \in 0 .. HELLODEV_SIZE /\ pos[t] = f_pos[fd[t]] + done[t]
    /\ pc[t] \in {"s_low", "s_load"} => f_pos[fd[t]] + count[t] =< HELLODEV_SIZE
    /\ pc[t] = "s_load" => f_pos[fd[t]] + count[t] >= 0
    /\ pc[t] = "s_store" => pos[t] = f_pos[fd[t]] /\ pos[t] + count[t] \in 0 .. HELLODEV_SIZE

TaskOK(t) == InBounds(t) /\ Locked(t) /\ Agrees(t) /\ Position(t)

IInv == TypeOK /\ \A t \in Tasks : TaskOK(t)

-----------------------------------------------------------------------------
(* Initially every task is outside of every call.                          *)
LEMMA InitIInv ==
  ASSUME Init
  PROVE  IInv
<1>1. TypeOK
  BY DEF Init, TypeOK, Labels, Index
<1>2. ASSUME NEW t \in Tasks PROVE TaskOK(t)
  BY DEF Init, TaskOK, InBounds, Locked, Agrees, Position
<1> QED
  BY <1>1, <1>2 DEF IInv

(* Clipping leaves a request that ends inside the device.                  *)
LEMMA ClipBounds ==
  ASSUME NEW p \in Int, p >= 0, p < HELLODEV_SIZE, NEW c \in Nat
  PROVE  clip(p, c) \in Nat /\ clip(p, c) =< c /\ p + clip(p, c) =< HELLODEV_SIZE
BY DEF clip

(* What lies before the end of a clipped request is in mem.                *)
LEMMA InIndex ==
  ASSUME NEW p \in Int, NEW n \in Int, NEW c \in Int, p >= 0, n >= 0, n < c,
         p + c =< HELLODEV_SIZE
  PROVE  p + n \in Index
BY DEF Index

(* A seek that is not refused leaves a natural number.                     *)
LEMMA SeekNat ==
  ASSUME NEW o \in Int, o >= 0
  PROVE  o % UINT_RANGE \in Nat
OBVIOUS

(* Every step keeps the types.                                             *)
LEMMA TypeInductive ==
  ASSUME IInv, [Next]_vars
  PROVE  TypeOK'
<1> USE DEF TypeOK
<1>0. TypeOK
  BY DEF IInv
<1>l. Labels = {"idle", "ret", "r_lock", "r_copy", "w_lock", "w_copy", "c_lock", "c_clear",
                "s_low", "s_load", "s_store"}
  BY DEF Labels
<1>e. << >> \in Seq(Bytes)
  OBVIOUS
<1>r. ASSUME NEW t \in Tasks, Return(t)
      PROVE  /\ pc' \in [Tasks -> Labels] /\ pos' \in [Tasks -> Int] /\ count' \in [Tasks -> Int]
             /\ done' \in [Tasks -> Nat] /\ buf' \in [Tasks -> Seq(Bytes)]
  BY <1>0, <1>l, <1>e, <1>r DEF Return
<1>u. CASE UNCHANGED vars
  BY <1>0, <1>u DEF vars
<1>1. ASSUME NEW t \in Tasks, Step(t) PROVE TypeOK'
  <2>0. UNCHANGED <<driver, fd>> /\ fd[t] \in Files
    BY <1>0, <1>1 DEF Step
  <2>1. CASE mutex_lock(t)
    BY <1>0, <1>l, <2>0, <2>1 DEF mutex_lock, Inner, frame
  <2>2. CASE copy_to_user(t)
    <3>1. pc[t] = "r_copy" /\ done[t] < count[t] /\ UNCHANGED <<mem, f_pos>>
      BY <2>2 DEF copy_to_user
    <3>2. pos[t] + done[t] \in Index
      <4>1. InBounds(t) /\ pos[t] \in Int /\ count[t] \in Int /\ done[t] \in Nat
        BY <1>0 DEF IInv, TaskOK
      <4> QED
        BY <3>1, <4>1, InIndex DEF InBounds
    <3>3. Append(buf[t], mem[pos[t] + done[t]]) \in Seq(Bytes) /\ done[t] + 1 \in Nat
      BY <1>0, <3>2
    <3>4. CASE mutex' = NoTask /\ Return(t)
      BY <1>0, <1>r, <2>0, <3>1, <3>4
    <3>5. CASE /\ buf' = [buf EXCEPT ![t] = Append(@, mem[pos[t] + done[t]])]
               /\ done' = [done EXCEPT ![t] = @ + 1]
               /\ UNCHANGED <<mutex, pc, pos, count>>
      BY <1>0, <2>0, <3>1, <3>3, <3>5
    <3> QED
      BY <2>2, <3>4, <3>5 DEF copy_to_user
  <2>3. CASE copy_from_user(t)
    <3>1. pc[t] = "w_copy" /\ done[t] < count[t] /\ UNCHANGED f_pos
      BY <2>3 DEF copy_from_user
    <3>2. done[t] + 1 \in 1 .. Len(buf[t]) /\ done[t] + 1 \in Nat
      BY <1>0, <3>1 DEF IInv, TaskOK, Agrees
    <3>3. buf[t][done[t] + 1] \in Bytes
      BY <1>0, <3>2
    <3>4. mem' \in [Index -> Bytes]
      BY <1>0, <2>3, <3>3 DEF copy_from_user
    <3>5. CASE mutex' = NoTask /\ Return(t)
      BY <1>0, <1>r, <2>0, <3>1, <3>4, <3>5
    <3>6. CASE done' = [done EXCEPT ![t] = @ + 1] /\ UNCHANGED <<mutex, pc, pos, count, buf>>
      BY <1>0, <2>0, <3>1, <3>2, <3>4, <3>6
    <3> QED
      BY <2>3, <3>5, <3>6 DEF copy_from_user
  <2>4. CASE copied(t)
    BY <1>0, <1>l, <2>0, <2>4 DEF copied
  <2>5. CASE store_pos(t)
    BY <1>0, <1>r, <2>0, <2>5 DEF store_pos
  <2>6. CASE mem_clear(t)
    BY <1>0, <1>r, <2>0, <2>6 DEF mem_clear
  <2>7. CASE seek_cur_low(t)
    BY <1>0, <1>l, <1>r, <2>0, <2>7 DEF seek_cur_low, frame
  <2>8. CASE seek_cur_load(t)
    BY <1>0, <1>l, <2>0, <2>8 DEF seek_cur_load, Goto
  <2>9. CASE seek_cur_store(t)
    <3>1. pos[t] + count[t] \in Int
      BY <1>0
    <3> QED
      BY <1>0, <1>r, <2>0, <2>9, <3>1 DEF seek_cur_store
  <2>10. ASSUME NEW c \in Counts, NEW b \in Seq(Bytes), NEW l \in Labels, Enter(t, c, b, l)
         PROVE  TypeOK'
    <3>1. f_pos[fd[t]] \in Int /\ (f_pos[fd[t]] < HELLODEV_SIZE => clip(f_pos[fd[t]], c) \in Int)
      BY <1>0, <2>0, <2>10, ClipBounds DEF Enter
    <3>2. pc' \in [Tasks -> Labels]
      BY <1>0, <1>l, <2>10 DEF Enter, Goto
    <3>3. pos' \in [Tasks -> Int] /\ count' \in [Tasks -> Int]
      BY <1>0, <2>10, <3>1 DEF Enter
    <3> QED
      BY <1>0, <2>0, <2>10, <3>2, <3>3 DEF Enter
  <2>11. CASE hello_read(t)
    BY <1>e, <1>l, <2>10, <2>11 DEF hello_read
  <2>12. CASE hello_write(t)
    <3>1. \A c \in Counts : [1 .. c -> Bytes] \subseteq Seq(Bytes)
      OBVIOUS
    <3> QED
      BY <1>l, <2>10, <2>12, <3>1 DEF hello_write
  <2>13. CASE hello_ioctl(t)
    BY <1>0, <1>l, <2>0, <2>13 DEF hello_ioctl, Goto, frame
  <2>14. CASE seek_set(t)
    <3>1. PICK o \in Offsets : o >= 0 /\ f_pos' = [f_pos EXCEPT ![fd[t]] = o % UINT_RANGE]
      BY <2>14 DEF seek_set
    <3>2. o % UINT_RANGE \in Int
      BY <3>1, SeekNat
    <3>3. f_pos' \in [Files -> Int]
      BY <1>0, <3>1, <3>2
    <3> QED
      BY <1>0, <2>0, <2>14, <3>3 DEF seek_set, frame
  <2>15. CASE stream(t)
    BY <1>0, <1>l, <2>0, <2>15 DEF stream, Goto
  <2>16. CASE seek_cur(t)
    BY <1>0, <1>l, <2>0, <2>16 DEF seek_cur, Goto
  <2> QED
    BY <1>1, <2>1, <2>2, <2>3, <2>4, <2>5, <2>6, <2>7, <2>8, <2>9, <2>11, <2>12, <2>13, <2>14,
       <2>15, <2>16 DEF Step, Inside, Call, globalfifo_call
<1> QED
  BY <1>u, <1>1 DEF Next

(* A step of t leaves the frames of the other tasks alone; it takes the    *)
(* mutex when that is free and gives back its own; it touches mem only     *)
(* while it holds the mutex, and the position of its own file only.        *)
LEMMA OnlyOwn ==
  ASSUME IInv, NEW t \in Tasks, Step(t)
  PROVE  /\ UNCHANGED fd
         /\ \A u \in Tasks \ {t} :
              /\ pc'[u] = pc[u] /\ pos'[u] = pos[u] /\ count'[u] = count[u]
              /\ done'[u] = done[u] /\ buf'[u] = buf[u]
         /\ mutex' = mutex \/ (mutex = NoTask /\ mutex' = t) \/ (mutex = t /\ mutex' = NoTask)
         /\ mem' = mem \/ mutex = t
         /\ \A f \in Files \ {fd[t]} : f_pos'[f] = f_pos[f]
<1>0. TypeOK /\ TaskOK(t)
  BY DEF IInv
<1> USE <1>0 DEF TypeOK, TaskOK, Locked
<1> DEFINE Frames == \A u \in Tasks \ {t} :
              /\ pc'[u] = pc[u] /\ pos'[u] = pos[u] /\ count'[u] = count[u]
              /\ done'[u] = done[u] /\ buf'[u] = buf[u]
<1>r. Return(t) => Frames
  BY DEF Return
<1>1. UNCHANGED fd
  BY DEF Step
<1>2. CASE mutex_lock(t)
  BY <1>1, <1>2 DEF mutex_lock, frame
<1>3. CASE copy_to_user(t)
  BY <1>1, <1>3, <1>r DEF copy_to_user
<1>4. CASE copy_from_user(t)
  BY <1>1, <1>4, <1>r DEF copy_from_user
<1>5. CASE copied(t)
  BY <1>1, <1>5 DEF copied
<1>6. CASE store_pos(t)
  BY <1>1, <1>6, <1>r DEF store_pos
<1>7. CASE mem_clear(t)
  BY <1>1, <1>7, <1>r DEF mem_clear
<1>8. CASE seek_cur_low(t)
  BY <1>1, <1>8, <1>r DEF seek_cur_low, frame
<1>9. CASE seek_cur_load(t)
  BY <1>1, <1>9 DEF seek_cur_load, Goto
<1>10. CASE seek_cur_store(t)
  BY <1>1, <1>10, <1>r DEF seek_cur_store
<1>11. CASE \E c \in Counts : Enter(t, c, << >>, "r_lock")
  BY <1>1, <1>11 DEF Enter, Goto
<1>12. CASE \E c \in Counts : \E b \in [1 .. c -> Bytes] : Enter(t, c, b, "w_lock")
  BY <1>1, <1>12 DEF Enter, Goto
<1>13. CASE hello_ioctl(t)
  BY <1>1, <1>13 DEF hello_ioctl, Goto, frame
<1>14. CASE seek_set(t)
  BY <1>1, <1>14 DEF seek_set, frame
<1>15. CASE stream(t)
  BY <1>1, <1>15 DEF stream, Goto
<1>16. CASE seek_cur(t)
  BY <1>1, <1>16 DEF seek_cur, Goto
<1> QED
  BY <1>2, <1>3, <1>4, <1>5, <1>6, <1>7, <1>8, <1>9, <1>10, <1>11, <1>12, <1>13, <1>14, <1>15,
     <1>16 DEF Step, Inside, Call, globalfifo_call, hello_read, hello_write

(* So a step of t keeps what is known of another task.                     *)
LEMMA OthersKept ==
  ASSUME IInv, NEW t \in Tasks, Step(t), NEW u \in Tasks, u # t
  PROVE  TaskOK(u)'
<1>0. TypeOK /\ TaskOK(u)
  BY DEF IInv
<1>1. /\ pc'[u] = pc[u] /\ pos'[u] = pos[u] /\ count'[u] = count[u]
      /\ done'[u] = done[u] /\ buf'[u] = buf[u]
  BY OnlyOwn
<1>2. pc[u] \in {"r_copy", "w_copy", "c_clear"} => mutex' = u /\ mem' = mem
  BY <1>0, OnlyOwn DEF TaskOK, Locked
<1>3. InBounds(u)' /\ Locked(u)'
  BY <1>0, <1>1, <1>2 DEF TaskOK, InBounds, Locked
<1>4. Agrees(u)'
  BY <1>0, <1>1, <1>2 DEF TaskOK, Agrees
<1>5. Position(u)'
  <2>1. fd' = fd
    BY OnlyOwn
  <2>2. SoleUser(u)' <=> SoleUser(u)
    BY <2>1 DEF SoleUser
  <2>3. SoleUser(u) => f_pos'[fd[u]] = f_pos[fd[u]]
    BY <1>0, OnlyOwn DEF SoleUser, TypeOK
  <2> QED
    BY <1>0, <1>1, <2>1, <2>2, <2>3 DEF TaskOK, Position
<1> QED
  BY <1>3, <1>4, <1>5 DEF TaskOK

(* A call that returns needs only its file's position to be right.         *)
LEMMA ReturnKept ==
  ASSUME TypeOK, NEW t \in Tasks, Return(t), UNCHANGED fd,
         SoleUser(t) => f_pos'[fd[t]] \in 0 .. HELLODEV_SIZE
  PROVE  TaskOK(t)'
<1>1. pc'[t] = "idle" /\ done'[t] = 0
  BY DEF Return, TypeOK
<1>2. SoleUser(t)' <=> SoleUser(t)
  BY DEF SoleUser
<1> QED
  BY <1>1, <1>2 DEF TaskOK, InBounds, Locked, Agrees, Position

(* A step of t keeps what is known of t.                                   *)
LEMMA OwnKept ==
  ASSUME IInv, NEW t \in Tasks, Step(t)
  PROVE  TaskOK(t)'
<1>0. TypeOK /\ TaskOK(t) /\ UNCHANGED fd
  BY DEF IInv, Step
<1>1. SoleUser(t)' <=> SoleUser(t)
  BY <1>0 DEF SoleUser
<1>2. /\ fd[t] \in Files /\ fd'[t] = fd[t] /\ pos[t] \in Int /\ count[t] \in Int
      /\ done[t] \in Nat /\ f_pos[fd[t]] \in Int /\ buf[t] \in Seq(Bytes)
  BY <1>0 DEF TypeOK
<1>3. CASE mutex_lock(t)
  <2>1. pc[t] \in {"r_lock", "w_lock", "c_lock"} /\ pc'[t] = Inner(pc[t]) /\ mutex' = t
    BY <1>0, <1>3 DEF mutex_lock, TypeOK
  <2>2. UNCHANGED <<f_pos, pos, count, done, buf>>
    BY <1>3 DEF mutex_lock, frame
  <2> QED
    BY <1>0, <1>1, <1>2, <2>1, <2>2
       DEF Inner, TaskOK, InBounds, Locked, Agrees, Position
<1>4. CASE copy_to_user(t)
  <2>1. pc[t] = "r_copy" /\ done[t] < count[t] /\ UNCHANGED <<mem, f_pos>>
    BY <1>4 DEF copy_to_user
  <2>2. CASE Return(t)
    BY <1>0, <2>1, <2>2, ReturnKept DEF TaskOK, Position
  <2>3. CASE /\ buf' = [buf EXCEPT ![t] = Append(@, mem[pos[t] + done[t]])]
             /\ done' = [done EXCEPT ![t] = @ + 1]
             /\ UNCHANGED <<mutex, pc, pos, count>>
    <3>1. buf'[t] = Append(buf[t], mem[pos[t] + done[t]]) /\ done'[t] = done[t] + 1
      BY <1>0, <2>3 DEF TypeOK
    <3>2. InBounds(t)' /\ Locked(t)' /\ Position(t)'
      BY <1>0, <1>1, <1>2, <2>1, <2>3, <3>1 DEF TaskOK, InBounds, Locked, Position
    <3>3. Len(buf[t]) = done[t] /\ \A i \in 1 .. done[t] : buf[t][i] = mem[pos[t] + i - 1]
      BY <1>0, <2>1 DEF TaskOK, Agrees
    <3>4. Len(buf'[t]) = done'[t]
      BY <1>2, <3>1, <3>3
    <3>5. ASSUME NEW i \in 1 .. done'[t] PROVE buf'[t][i] = mem[pos[t] + i - 1]
      <4>0. i \in 1 .. done[t] \/ i = done[t] + 1
        BY <1>2, <3>1
      <4>1. CASE i \in 1 .. done[t]
        BY <1>2, <3>1, <3>3, <4>1
      <4>2. CASE i = done[t] + 1
        <5>1. pos[t] + i - 1 = pos[t] + done[t] /\ i = Len(buf[t]) + 1
          BY <1>2, <3>3, <4>2
        <5>2. buf'[t][i] = mem[pos[t] + done[t]]
          BY <1>2, <3>1, <5>1
        <5> QED
          BY <5>1, <5>2
      <4> QED
        BY <4>0, <4>1, <4>2
    <3>6. Agrees(t)'
      BY <2>1, <2>3, <3>4, <3>5 DEF Agrees
    <3> QED
      BY <3>2, <3>6 DEF TaskOK
  <2> QED
    BY <1>4, <2>2, <2>3 DEF copy_to_user
<1>5. CASE copy_from_user(t)
  <2>1. pc[t] = "w_copy" /\ done[t] < count[t] /\ UNCHANGED f_pos
    BY <1>5 DEF copy_from_user
  <2>2. CASE Return(t)
    BY <1>0, <2>1, <2>2, ReturnKept DEF TaskOK, Position
  <2>3. CASE /\ mem' = [mem EXCEPT ![pos[t] + done[t]] = buf[t][done[t] + 1]]
             /\ done' = [done EXCEPT ![t] = @ + 1]
             /\ UNCHANGED <<mutex, pc, pos, count, buf>>
    <3>1. done'[t] = done[t] + 1
      BY <1>0, <2>3 DEF TypeOK
    <3>2. InBounds(t)' /\ Locked(t)' /\ Position(t)'
      BY <1>0, <1>1, <1>2, <2>1, <2>3, <3>1 DEF TaskOK, InBounds, Locked, Position
    <3>3. /\ \A i \in 1 .. done[t] : buf[t][i] = mem[pos[t] + i - 1]
          /\ pos[t] >= 0 /\ pos[t] + count[t] =< HELLODEV_SIZE
      BY <1>0, <2>1 DEF TaskOK, Agrees, InBounds
    <3>4. ASSUME NEW i \in 1 .. done'[t] PROVE buf[t][i] = mem'[pos[t] + i - 1]
      <4>0. \A k \in Index : mem'[k] = IF k = pos[t] + done[t] THEN buf[t][done[t] + 1] ELSE mem[k]
        BY <1>0, <2>3 DEF TypeOK
      <4>1. CASE i \in 1 .. done[t]
        <5>1. pos[t] + i - 1 = pos[t] + (i - 1) /\ pos[t] + i - 1 # pos[t] + done[t]
          BY <1>2, <4>1
        <5>2. pos[t] + (i - 1) \in Index
          <6>1. i - 1 \in Int /\ i - 1 >= 0 /\ i - 1 < count[t]
            BY <1>2, <2>1, <4>1
          <6> QED
            BY <1>2, <3>3, <6>1, InIndex
        <5>3. mem'[pos[t] + i - 1] = mem[pos[t] + i - 1]
          BY <4>0, <5>1, <5>2
        <5> QED
          BY <3>3, <4>1, <5>3
      <4>2. CASE i = done[t] + 1
        <5>1. pos[t] + i - 1 = pos[t] + done[t]
          BY <1>2, <4>2
        <5>2. pos[t] + done[t] \in Index
          <6>1. done[t] \in Int /\ done[t] >= 0 /\ pos[t] \in Int /\ count[t] \in Int
            BY <1>2
          <6> QED
            BY <2>1, <3>3, <6>1, InIndex
        <5>3. mem'[pos[t] + done[t]] = buf[t][done[t] + 1]
          BY <4>0, <5>2
        <5> QED
          BY <4>2, <5>1, <5>3
      <4> QED
        BY <1>2, <3>1, <4>1, <4>2
    <3>5. Agrees(t)'
      BY <1>0, <2>1, <2>3, <3>4 DEF TaskOK, Agrees
    <3> QED
      BY <3>2, <3>5 DEF TaskOK
  <2> QED
    BY <1>5, <2>2, <2>3 DEF copy_from_user
<1>6. CASE copied(t)
  <2>1. /\ pc[t] \in {"r_copy", "w_copy"} /\ done[t] = count[t] /\ UNCHANGED <<f_pos, done>>
        /\ pc'[t] = "ret" /\ pos'[t] = pos[t] + count[t]
    BY <1>0, <1>6 DEF copied, TypeOK
  <2> QED
    BY <1>0, <1>1, <1>2, <2>1 DEF TaskOK, InBounds, Locked, Agrees, Position
<1>7. CASE store_pos(t)
  BY <1>0, <1>2, <1>7, ReturnKept DEF store_pos, TaskOK, Position, TypeOK
<1>8. CASE mem_clear(t)
  BY <1>0, <1>8, ReturnKept DEF mem_clear, TaskOK, Position
<1>9. CASE seek_cur_low(t)
  <2>1. CASE Return(t)
    BY <1>0, <1>9, <2>1, ReturnKept DEF seek_cur_low, TaskOK, Position
  <2>2. CASE f_pos[fd[t]] + count[t] >= 0 /\ pc' = [pc EXCEPT ![t] = "s_load"] /\ UNCHANGED frame
    BY <1>0, <1>1, <1>2, <1>9, <2>2
       DEF seek_cur_low, frame, TypeOK, TaskOK, InBounds, Locked, Agrees, Position
  <2> QED
    BY <1>9, <2>1, <2>2 DEF seek_cur_low
<1>10. CASE seek_cur_load(t)
  BY <1>0, <1>1, <1>2, <1>10
     DEF seek_cur_load, Goto, TypeOK, TaskOK, InBounds, Locked, Agrees, Position
<1>11. CASE seek_cur_store(t)
  BY <1>0, <1>2, <1>11, ReturnKept DEF seek_cur_store, TaskOK, Position, TypeOK
<1>12. ASSUME NEW c \in Counts, NEW b \in Seq(Bytes), NEW l \in {"r_lock", "w_lock"},
              l = "r_lock" => b = << >>, l = "w_lock" => Len(b) = c, Enter(t, c, b, l)
       PROVE  TaskOK(t)'
  <2> DEFINE p == f_pos[fd[t]]
  <2>1. /\ p \in Int /\ p >= 0 /\ pc[t] = "idle" /\ pos'[t] = p /\ buf'[t] = b
        /\ done[t] = 0 /\ UNCHANGED <<f_pos, done>>
    BY <1>0, <1>2, <1>12 DEF Enter, Goto, TypeOK, TaskOK, Locked
  <2>2. CASE p >= HELLODEV_SIZE
    <3>1. pc'[t] = "ret"
      BY <1>0, <1>12, <2>2 DEF Enter, Goto, TypeOK
    <3> QED
      BY <1>0, <1>1, <1>2, <2>1, <2>2, <3>1 DEF TaskOK, InBounds, Locked, Agrees, Position
  <2>3. CASE p < HELLODEV_SIZE
    <3>1. pc'[t] = l /\ count'[t] = clip(p, c)
      BY <1>0, <1>12, <2>1, <2>3 DEF Enter, Goto, TypeOK
    <3>2. count'[t] \in Nat /\ count'[t] =< c /\ p + count'[t] =< HELLODEV_SIZE
      BY <2>1, <2>3, <3>1, ClipBounds
    <3> QED
      BY <1>0, <1>1, <1>2, <1>12, <2>1, <3>1, <3>2
         DEF TaskOK, InBounds, Locked, Agrees, Position
  <2> QED
    BY <2>1, <2>2, <2>3
<1>13. CASE hello_read(t)
  <2>1. PICK c \in Counts : Enter(t, c, << >>, "r_lock")
    BY <1>13 DEF hello_read
  <2>2. << >> \in Seq(Bytes)
    OBVIOUS
  <2> QED
    BY <1>12, <2>1, <2>2
<1>14. CASE hello_write(t)
  <2>1. PICK c \in Counts : \E b \in [1 .. c -> Bytes] : Enter(t, c, b, "w_lock")
    BY <1>14 DEF hello_write
  <2>2. PICK b \in [1 .. c -> Bytes] : Enter(t, c, b, "w_lock")
    BY <2>1
  <2>3. b \in Seq(Bytes) /\ Len(b) = c
    BY <2>2
  <2> QED
    BY <1>12, <2>2, <2>3
<1>15. CASE hello_ioctl(t)
  BY <1>0, <1>1, <1>2, <1>15
     DEF hello_ioctl, Goto, frame, TypeOK, TaskOK, InBounds, Locked, Agrees, Position
<1>16. CASE seek_set(t)
  <2>1. PICK o \in Offsets : /\ o >= 0 /\ o % UINT_RANGE =< HELLODEV_SIZE
                             /\ f_pos' = [f_pos EXCEPT ![fd[t]] = o % UINT_RANGE]
    BY <1>16 DEF seek_set
  <2>2. f_pos'[fd[t]] \in 0 .. HELLODEV_SIZE
    BY <1>0, <1>2, <2>1, SeekNat DEF TypeOK
  <2> QED
    BY <1>0, <1>1, <1>2, <1>16, <2>2
       DEF seek_set, frame, TaskOK, InBounds, Locked, Agrees, Position
<1>17. CASE stream(t)
  <2>1. /\ pc[t] = "idle" /\ pc'[t] = "ret" /\ pos'[t] = f_pos[fd[t]]
        /\ UNCHANGED <<f_pos, done>>
    BY <1>0, <1>17 DEF stream, Goto, TypeOK
  <2> QED
    BY <1>0, <1>1, <1>2, <2>1 DEF TaskOK, InBounds, Locked, Agrees, Position
<1>18. CASE seek_cur(t)
  <2>1. /\ pc[t] = "idle" /\ pc'[t] = "s_low" /\ f_pos[fd[t]] + count'[t] =< HELLODEV_SIZE
        /\ UNCHANGED <<f_pos, done>>
    BY <1>0, <1>18 DEF seek_cur, Goto, TypeOK
  <2> QED
    BY <1>0, <1>1, <1>2, <2>1 DEF TaskOK, InBounds, Locked, Agrees, Position
<1> QED
  BY <1>3, <1>4, <1>5, <1>6, <1>7, <1>8, <1>9, <1>10, <1>11, <1>13, <1>14, <1>15, <1>16, <1>17,
     <1>18 DEF Step, Inside, Call, globalfifo_call

-----------------------------------------------------------------------------
(* The inductive invariant is kept by every step.                          *)
LEMMA NextIInv ==
  ASSUME IInv, [Next]_vars
  PROVE  IInv'
<1>1. TypeOK'
  BY TypeInductive
<1>2. CASE UNCHANGED vars
  <2>1. ASSUME NEW t \in Tasks PROVE TaskOK(t)'
    BY <1>2 DEF vars, IInv, TaskOK, InBounds, Locked, Agrees, Position, SoleUser
  <2> QED
    BY <1>1, <2>1 DEF IInv
<1>3. ASSUME NEW t \in Tasks, Step(t) PROVE IInv'
  <2>1. ASSUME NEW u \in Tasks PROVE TaskOK(u)'
    BY <1>3, OwnKept, OthersKept
  <2> QED
    BY <1>1, <2>1 DEF IInv
<1> QED
  BY <1>2, <1>3 DEF Next

(* The inductive invariant holds in every run of the device.               *)
THEOREM HelloCdevIInv == Spec => []IInv
BY InitIInv, NextIInv, PTL DEF Spec

(* Races of reads, writes and seeks on the f_pos of a shared file never    *)
(* make hello_read or hello_write copy outside of mem.                     *)
THEOREM AccessInBoundsTheorem == Spec => []AccessInBounds
<1>1. IInv => AccessInBounds
  BY DEF IInv, TaskOK, InBounds, AccessInBounds
<1> QED
  BY <1>1, HelloCdevIInv, PTL

(* No write and no MEM_CLEAR gets in between the bytes of one call: what a *)
(* call has copied so far is in mem as long as the call copies.            *)
THEOREM CopiesAreWholeTheorem == Spec => []CopiesAreWhole
<1>1. IInv => CopiesAreWhole
  BY DEF IInv, TaskOK, Agrees, CopiesAreWhole
<1> QED
  BY <1>1, HelloCdevIInv, PTL

(* The file that one task alone uses stays in its bounds, and moves on by  *)
(* what each call copied, whatever the other tasks do to their files.      *)
THEOREM SolePositionTheorem == Spec => SolePosition
<1> DEFINE Moves == \A t \in Tasks : SoleUser(t) =>
        /\ f_pos'[fd[t]] \in 0 .. HELLODEV_SIZE
        /\ pc[t] = "ret" /\ pc'[t] # "ret" => f_pos'[fd[t]] = f_pos[fd[t]] + done[t]
<1>1. ASSUME IInv, [Next]_vars PROVE [Moves]_vars
  <2> SUFFICES ASSUME NEW s \in Tasks, Step(s), NEW t \in Tasks, SoleUser(t)
               PROVE  /\ f_pos'[fd[t]] \in 0 .. HELLODEV_SIZE
                      /\ pc[t] = "ret" /\ pc'[t] # "ret" =>
                           f_pos'[fd[t]] = f_pos[fd[t]] + done[t]
    BY <1>1 DEF Next
  <2>1. IInv' /\ UNCHANGED fd
    BY <1>1, NextIInv DEF Step
  <2>2. f_pos'[fd[t]] \in 0 .. HELLODEV_SIZE
    BY <2>1 DEF IInv, TaskOK, Position, SoleUser
  <2>3. CASE s # t
    BY <1>1, <2>2, <2>3, OnlyOwn
  <2>4. ASSUME s = t, pc[t] = "ret" PROVE f_pos'[fd[t]] = f_pos[fd[t]] + done[t]
    <3>1. store_pos(t)
      BY <2>4 DEF Step, Inside, Call, globalfifo_call, mutex_lock, copy_to_user, copy_from_user,
         copied, mem_clear, seek_cur_low, seek_cur_load, seek_cur_store, hello_read, hello_write,
         Enter, hello_ioctl, seek_set, stream, seek_cur, Goto
    <3>2. f_pos'[fd[t]] = pos[t]
      BY <1>1, <3>1 DEF store_pos, IInv, TypeOK
    <3> QED
      BY <1>1, <2>4, <3>2 DEF IInv, TaskOK, Position
  <2> QED
    BY <2>2, <2>3, <2>4
<1> QED
  BY <1>1, HelloCdevIInv, PTL DEF Spec, SolePosition
=============================================================================
