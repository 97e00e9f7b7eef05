---------------------------- MODULE ProbesProofs ----------------------------
(***************************************************************************)
(* Proofs about the ftrace hook of src/src/ftrace/main.c and the kprobes   *)
(* of src/src/hook/main.c, for any number of tasks and calls, and for any  *)
(* buffers, counts and PATH_MAX.                                           *)
(***************************************************************************)
EXTENDS MCProbes, TLAPS

(* The ftrace hook.                                                        *)
Labels == {"out", "path_mount", "callback", "enter", "body", "leave"}

TypeOK ==
  /\ module \in {"none", "resolved", "filtered", "loaded", "unregistering", "unregistered", "gone"}
  /\ original \in BOOLEAN /\ filter \in BOOLEAN /\ fault \in BOOLEAN
  /\ ops \in {"off", "on", "stuck"}
  /\ pc \in [Tasks -> Labels]
  /\ nested \in [Tasks -> BOOLEAN]
  /\ bodies \in [Tasks -> Nat] /\ mounts \in [Tasks -> Nat]
  /\ ret \in [Tasks -> {"0", "error", "ENOMEM"}]

(* Nobody is sent to the hook before the address of the original is known, *)
(* and a callback keeps the unload waiting, if the unregistration waits.   *)
HookOrdered ==
  /\ module \in {"resolved", "filtered", "loaded", "unregistering", "unregistered"} => original
  /\ ops = "on" => module = "loaded"
  /\ ops = "stuck" => module \in {"unregistered", "gone"} /\ original
  /\ \A t \in Tasks : pc[t] \in {"callback", "enter"} => original
  /\ \A t \in Tasks : pc[t] = "callback" => module \in {"loaded", "unregistering"} \/ ops = "stuck"
  /\ fault => module = "gone"

(* How far t's mount has got: the body is carried out on the way out only. *)
Progress(t) ==
  /\ pc[t] \in {"path_mount", "callback", "enter", "body"} => bodies[t] = 0
  /\ pc[t] = "leave" => bodies[t] = 1 /\ nested[t] /\ ret[t] # "ENOMEM"
  /\ pc[t] \in {"out", "enter"} => ~nested[t]
  /\ pc[t] # "out" => mounts[t] > 0
  /\ pc[t] = "out" => bodies[t] = IF ret[t] = "ENOMEM" \/ mounts[t] = 0 THEN 0 ELSE 1

FInv == TypeOK /\ HookOrdered /\ \A t \in Tasks : Progress(t)

-----------------------------------------------------------------------------
(* Every step of the hook and of the tasks keeps the types.                *)
LEMMA FtraceType ==
  ASSUME TypeOK, [Next]_vars
  PROVE  TypeOK'
<1> USE DEF TypeOK, hook, call
<1>l. Labels = {"out", "path_mount", "callback", "enter", "body", "leave"}
  BY DEF Labels
<1>u. CASE UNCHANGED vars
  BY <1>u DEF vars
<1>1. CASE Load
  BY <1>1 DEF Load, resolve_hook_address, set_filter, register_hook
<1>2. CASE Unload
  BY <1>2 DEF Unload, unregister_ftrace_function, callbacks_done, unregister_hook
<1>3. ASSUME NEW t \in Tasks, mount(t) PROVE TypeOK'
  BY <1>3, <1>l DEF mount, Goto
<1>4. ASSUME NEW t \in Tasks, path_mount(t) PROVE TypeOK'
  BY <1>4, <1>l DEF path_mount, Goto
<1>5. ASSUME NEW t \in Tasks, ftrace_callback_handler(t) PROVE TypeOK'
  BY <1>5, <1>l DEF ftrace_callback_handler, Goto
<1>6. ASSUME NEW t \in Tasks, ftrace_path_mount(t) PROVE TypeOK'
  BY <1>6, <1>l DEF ftrace_path_mount, Goto
<1>7. ASSUME NEW t \in Tasks, path_mount_body(t) PROVE TypeOK'
  BY <1>7, <1>l DEF path_mount_body, Goto
<1>8. ASSUME NEW t \in Tasks, ftrace_path_mount_returns(t) PROVE TypeOK'
  BY <1>8, <1>l DEF ftrace_path_mount_returns, Goto
<1> QED
  BY <1>u, <1>1, <1>2, <1>3, <1>4, <1>5, <1>6, <1>7, <1>8 DEF Next, Inside

(* Every step keeps the order of loading, calling and unloading.           *)
LEMMA FtraceOrder ==
  ASSUME TypeOK, HookOrdered, [Next]_vars
  PROVE  HookOrdered'
<1> USE DEF TypeOK, HookOrdered, hook, call
<1>u. CASE UNCHANGED vars
  BY <1>u DEF vars
<1>1. CASE Load
  BY <1>1 DEF Load, resolve_hook_address, set_filter, register_hook
<1>2. CASE Unload
  <2>1. CASE unregister_ftrace_function
    BY <2>1 DEF unregister_ftrace_function
  <2>2. CASE callbacks_done
    BY <2>2 DEF callbacks_done
  <2>3. CASE unregister_hook
    BY <2>3 DEF unregister_hook
  <2> QED
    BY <1>2, <2>1, <2>2, <2>3 DEF Unload
<1>3. ASSUME NEW t \in Tasks, mount(t) PROVE HookOrdered'
  BY <1>3 DEF mount, Goto
<1>4. ASSUME NEW t \in Tasks, path_mount(t) PROVE HookOrdered'
  BY <1>4 DEF path_mount, Goto
<1>5. ASSUME NEW t \in Tasks, ftrace_callback_handler(t) PROVE HookOrdered'
  BY <1>5 DEF ftrace_callback_handler, Goto
<1>6. ASSUME NEW t \in Tasks, ftrace_path_mount(t) PROVE HookOrdered'
  BY <1>6 DEF ftrace_path_mount, Goto
<1>7. ASSUME NEW t \in Tasks, path_mount_body(t) PROVE HookOrdered'
  BY <1>7 DEF path_mount_body, Goto
<1>8. ASSUME NEW t \in Tasks, ftrace_path_mount_returns(t) PROVE HookOrdered'
  BY <1>8 DEF ftrace_path_mount_returns, Goto
<1> QED
  BY <1>u, <1>1, <1>2, <1>3, <1>4, <1>5, <1>6, <1>7, <1>8 DEF Next, Inside

(* Every step keeps count of the bodies: a step of t touches t's mount     *)
(* only.                                                                   *)
LEMMA FtraceProgress ==
  ASSUME FInv, [Next]_vars
  PROVE  \A t \in Tasks : Progress(t)'
<1>0. TypeOK /\ \A t \in Tasks : Progress(t)
  BY DEF FInv
<1> USE DEF TypeOK, hook, call
<1>k. ASSUME UNCHANGED call PROVE \A t \in Tasks : Progress(t)'
  BY <1>0, <1>k DEF Progress
<1>1. CASE UNCHANGED vars \/ Load \/ Unload
  BY <1>1, <1>k DEF vars, Load, resolve_hook_address, set_filter, register_hook,
     Unload, unregister_ftrace_function, callbacks_done, unregister_hook
<1>2. ASSUME NEW t \in Tasks, mount(t) PROVE \A u \in Tasks : Progress(u)'
  BY <1>0, <1>2 DEF mount, Goto, Progress
<1>3. ASSUME NEW t \in Tasks, path_mount(t) PROVE \A u \in Tasks : Progress(u)'
  BY <1>0, <1>3 DEF path_mount, Goto, Progress
<1>4. ASSUME NEW t \in Tasks, ftrace_callback_handler(t) PROVE \A u \in Tasks : Progress(u)'
  BY <1>0, <1>4 DEF ftrace_callback_handler, within_module, Goto, Progress
<1>5. ASSUME NEW t \in Tasks, ftrace_path_mount(t) PROVE \A u \in Tasks : Progress(u)'
  BY <1>0, <1>5 DEF ftrace_path_mount, Goto, Progress
<1>6. ASSUME NEW t \in Tasks, path_mount_body(t), NEW u \in Tasks PROVE Progress(u)'
  <2>1. PICK r \in {"0", "error"} : ret' = [ret EXCEPT ![t] = r]
    BY <1>6 DEF path_mount_body
  <2>2. CASE u # t
    BY <1>0, <1>6, <2>1, <2>2 DEF path_mount_body, Goto, Progress
  <2>3. CASE u = t
    <3>1. pc[t] = "body" /\ bodies[t] = 0 /\ mounts[t] > 0
      BY <1>0, <1>6 DEF path_mount_body, Goto, Progress
    <3>2. bodies'[t] = 1 /\ ret'[t] = r /\ nested'[t] = nested[t] /\ mounts'[t] = mounts[t]
      BY <1>0, <1>6, <2>1, <3>1 DEF path_mount_body
    <3>3. CASE nested[t]
      <4>1. pc'[t] = "leave"
        BY <1>0, <1>6, <3>3 DEF path_mount_body, Goto
      <4> QED
        BY <2>3, <3>1, <3>2, <3>3, <4>1 DEF Progress
    <3>4. CASE ~nested[t]
      <4>1. pc'[t] = "out"
        BY <1>0, <1>6, <3>4 DEF path_mount_body, Goto
      <4> QED
        BY <1>0, <2>3, <3>1, <3>2, <3>4, <4>1 DEF Progress
    <3> QED
      BY <3>3, <3>4
  <2> QED
    BY <2>2, <2>3
<1>7. ASSUME NEW t \in Tasks, ftrace_path_mount_returns(t), NEW u \in Tasks PROVE Progress(u)'
  <2>1. CASE u # t
    BY <1>0, <1>7, <2>1 DEF ftrace_path_mount_returns, Goto, Progress
  <2>2. CASE u = t /\ module = "gone"
    <3>1. UNCHANGED call
      BY <1>7, <2>2 DEF ftrace_path_mount_returns
    <3> QED
      BY <1>k, <3>1
  <2>3. CASE u = t /\ module # "gone"
    <3>1. bodies[t] = 1 /\ ret[t] # "ENOMEM" /\ mounts[t] > 0
      BY <1>0, <1>7 DEF ftrace_path_mount_returns, Goto, Progress
    <3>2. /\ pc'[t] = "out" /\ nested'[t] = FALSE
          /\ bodies'[t] = bodies[t] /\ ret'[t] = ret[t] /\ mounts'[t] = mounts[t]
      BY <1>0, <1>7, <2>3 DEF ftrace_path_mount_returns, Goto
    <3> QED
      BY <1>0, <2>3, <3>1, <3>2 DEF Progress
  <2> QED
    BY <2>1, <2>2, <2>3
<1> QED
  BY <1>1, <1>2, <1>3, <1>4, <1>5, <1>6, <1>7 DEF Next, Inside

(* The inductive invariant of the ftrace hook.                             *)
THEOREM FtraceInv == Spec => []FInv
<1>1. ASSUME Init PROVE FInv
  <2>1. TypeOK
    BY <1>1 DEF Init, TypeOK, Labels
  <2> QED
    BY <1>1, <2>1 DEF Init, FInv, HookOrdered, Progress
<1>2. ASSUME FInv, [Next]_vars PROVE FInv'
  BY <1>2, FtraceType, FtraceOrder, FtraceProgress DEF FInv
<1> QED
  BY <1>1, <1>2, PTL DEF Spec

(* Whenever the hook comes or goes, before, between or after the two       *)
(* entries of path_mount, a mount is carried out exactly once, or refused  *)
(* for want of memory.                                                     *)
THEOREM MountedOnceTheorem == Spec => []MountedOnce
<1>1. ASSUME FInv, NEW t \in Tasks
      PROVE  /\ bodies[t] =< 1
             /\ pc[t] = "out" /\ mounts[t] > 0 => bodies[t] = IF ret[t] = "ENOMEM" THEN 0 ELSE 1
  <2>1. /\ Progress(t) /\ pc[t] \in {"out", "path_mount", "callback", "enter", "body", "leave"}
        /\ mounts[t] \in Nat
    BY <1>1 DEF FInv, TypeOK, Labels
  <2> QED
    BY <2>1 DEF Progress
<1>2. FInv => MountedOnce
  BY <1>1 DEF MountedOnce
<1> QED
  BY <1>2, FtraceInv, PTL

(* Unless ftrace refuses to unregister ops, nobody is in the callback, or  *)
(* can get there, when the module is gone; nobody is in the hook without   *)
(* the address of the original; nothing goes wrong before the module is    *)
(* gone.                                                                   *)
THEOREM FaultOnlyInHookTheorem == Spec => []FaultOnlyInHook
<1>1. FInv => FaultOnlyInHook
  BY DEF FInv, TypeOK, HookOrdered, FaultOnlyInHook
<1> QED
  BY <1>1, FtraceInv, PTL

-----------------------------------------------------------------------------
(* The kprobes.                                                            *)
KType ==
  /\ module \in {"none", "loaded", "going", "gone"}
  /\ ip \in 1 .. 3
  /\ armed \subseteq K!Functions
  /\ pc \in [Tasks -> {"out", "pre", "post", "body"}]
  /\ probed \in [Tasks -> K!Call \cup {K!NoCall}]
  /\ held \in [Tasks -> Nat]

(* What hook_exit has passed is disarmed and nobody is in its handlers,    *)
(* and nobody can get there any more.                                      *)
Passed(f) == f \notin armed /\ K!drained(f)
PassedInOrder ==
  /\ module = "loaded" => ip = 1
  /\ module = "going" => \A j \in 1 .. 3 : j < ip => Passed(K!kps[j])
  /\ module = "gone" => \A j \in 1 .. 3 : Passed(K!kps[j])

(* Where a task can be with which call, and what its handlers have kept.   *)
Observed(t) ==
  /\ pc[t] \in {"pre", "post"} => probed[t].fn \in K!Functions
  /\ pc[t] = "post" => probed[t].fn = "vfs_write"
  /\ pc[t] # "body" => held[t] = 0
  /\ held[t] > 0 =>
       /\ held[t] = 1
       /\ probed[t].fn = IF probed[t].test_txt THEN "vfs_unlink" ELSE "vfs_write"

Strays == \A t \in astray : probed[t].fn = "vfs_write" /\ probed[t].test_txt

KInv == KType /\ PassedInOrder /\ (\A t \in Tasks : Observed(t)) /\ Strays

-----------------------------------------------------------------------------
(* The three probes, and what a call is.                                   *)
LEMMA KprobesCalls ==
  /\ K!kps[1] = "vfs_write" /\ K!kps[2] = "vfs_rename" /\ K!kps[3] = "vfs_unlink"
  /\ K!Functions = {"vfs_write", "vfs_rename", "vfs_unlink"}
  /\ \A c \in K!Call : c.fn \in K!Functions
  /\ K!NoCall.fn = "none"
<1>1. K!kps[1] = "vfs_write" /\ K!kps[2] = "vfs_rename" /\ K!kps[3] = "vfs_unlink"
  BY DEF K!kps
<1>2. K!Functions = {"vfs_write", "vfs_rename", "vfs_unlink"}
  <2>1. \A i \in 1 .. 3 : i = 1 \/ i = 2 \/ i = 3
    OBVIOUS
  <2> QED
    BY <1>1, <2>1 DEF K!Functions
<1>3. K!NoCall.fn = "none"
  BY DEF K!NoCall
<1>4. ASSUME NEW c \in K!Call PROVE c.fn \in K!Functions
  BY <1>2, <1>4 DEF K!Call
<1> QED
  BY <1>1, <1>2, <1>3, <1>4

(* Every step of the probes and of the tasks keeps the types.              *)
LEMMA KprobesType ==
  ASSUME KType, [K!Next]_(K!vars)
  PROVE  KType'
<1> USE DEF KType, K!hook
<1>u. CASE UNCHANGED K!vars
  BY <1>u DEF K!vars
<1>1. CASE K!register_kprobe
  BY <1>1 DEF K!register_kprobe, K!Functions
<1>2. CASE K!hook_exit
  BY <1>2 DEF K!hook_exit
<1>3. CASE K!unregister_kprobe
  BY <1>3 DEF K!unregister_kprobe
<1>4. ASSUME NEW t \in Tasks, K!vfs_call(t) PROVE KType'
  BY <1>4 DEF K!vfs_call, K!Goto
<1>5. ASSUME NEW t \in Tasks, K!Handler(t) PROVE KType'
  BY <1>5 DEF K!Handler, K!vfs_write_pre, K!vfs_write_post, K!vfs_rename_pre, K!vfs_unlink_pre,
     K!Return, K!Wrong, K!Goto
<1>6. ASSUME NEW t \in Tasks, K!body_returns(t) PROVE KType'
  BY <1>6 DEF K!body_returns, K!Goto
<1> QED
  BY <1>u, <1>1, <1>2, <1>3, <1>4, <1>5, <1>6 DEF K!Next

(* Every step keeps what hook_exit has passed disarmed and drained.        *)
LEMMA KprobesPassed ==
  ASSUME KInv, [K!Next]_(K!vars)
  PROVE  PassedInOrder'
<1>0. KType /\ PassedInOrder /\ \A t \in Tasks : Observed(t)
  BY DEF KInv
<1>u. CASE UNCHANGED K!vars
  BY <1>0, <1>u DEF K!vars, K!drained, PassedInOrder, Passed
<1>1. CASE K!register_kprobe
  BY <1>0, <1>1 DEF K!register_kprobe, KType, PassedInOrder, Passed
<1>2. CASE K!hook_exit
  BY <1>0, <1>2 DEF K!hook_exit, PassedInOrder, Passed
<1>3. CASE K!unregister_kprobe
  <2>1. UNCHANGED <<pc, probed>> /\ armed' \subseteq armed
    BY <1>3 DEF K!unregister_kprobe
  <2>2. ASSUME NEW f, Passed(f) PROVE Passed(f)'
    BY <2>1, <2>2 DEF K!drained, Passed
  <2>3. CASE UNCHANGED <<ip, module>>
    BY <1>0, <1>3, <2>2, <2>3 DEF K!unregister_kprobe, PassedInOrder
  <2>4. CASE Passed(K!kps[ip]) /\ ip < 3 /\ ip' = ip + 1 /\ UNCHANGED module
    <3>1. \A j \in 1 .. 3 : j < ip' => j < ip \/ j = ip
      BY <1>0, <2>4 DEF KType
    <3> QED
      BY <1>0, <1>3, <2>2, <2>4, <3>1 DEF K!unregister_kprobe, PassedInOrder
  <2>5. CASE Passed(K!kps[ip]) /\ ip = 3 /\ module' = "gone"
    <3>1. \A j \in 1 .. 3 : j < ip \/ j = ip
      BY <2>5
    <3> QED
      BY <1>0, <1>3, <2>2, <2>5, <3>1 DEF K!unregister_kprobe, PassedInOrder
  <2> QED
    BY <1>0, <1>3, <2>3, <2>4, <2>5 DEF K!unregister_kprobe, KType, Passed
<1>t. ASSUME NEW t \in Tasks, UNCHANGED K!hook,
             \A u \in Tasks \ {t} : pc'[u] = pc[u] /\ probed'[u] = probed[u],
             pc'[t] \in {"pre", "post"} =>
               \/ probed'[t].fn \in armed
               \/ pc[t] \in {"pre", "post"} /\ probed'[t] = probed[t]
      PROVE  PassedInOrder'
  <2>1. ASSUME NEW f, Passed(f) PROVE Passed(f)'
    BY <1>t, <2>1 DEF K!drained, K!hook, Passed
  <2> QED
    BY <1>0, <1>t, <2>1 DEF K!hook, PassedInOrder
<1>4. ASSUME NEW t \in Tasks, K!vfs_call(t) PROVE PassedInOrder'
  <2>1. PICK c \in K!Call : /\ probed' = [probed EXCEPT ![t] = c]
                            /\ K!Goto(t, "out", IF c.fn \in armed THEN "pre" ELSE "body")
    BY <1>4 DEF K!vfs_call
  <2>2. UNCHANGED K!hook
    BY <1>4 DEF K!vfs_call
  <2>3. \A u \in Tasks \ {t} : pc'[u] = pc[u] /\ probed'[u] = probed[u]
    BY <1>0, <2>1 DEF K!Goto, KType
  <2>4. pc'[t] \in {"pre", "post"} => probed'[t].fn \in armed
    BY <1>0, <2>1 DEF K!Goto, KType
  <2> QED
    BY <1>t, <2>2, <2>3, <2>4
<1>5. ASSUME NEW t \in Tasks, K!Handler(t) PROVE PassedInOrder'
  BY <1>0, <1>5, <1>t DEF K!Handler, K!vfs_write_pre, K!vfs_write_post, K!vfs_rename_pre,
     K!vfs_unlink_pre, K!Return, K!Wrong, K!Goto, KType
<1>6. ASSUME NEW t \in Tasks, K!body_returns(t) PROVE PassedInOrder'
  BY <1>0, <1>6, <1>t DEF K!body_returns, K!Goto, KType
<1> QED
  BY <1>u, <1>1, <1>2, <1>3, <1>4, <1>5, <1>6 DEF K!Next

(* Every step keeps what is known of the calls under way.                  *)
LEMMA KprobesObserved ==
  ASSUME KInv, [K!Next]_(K!vars)
  PROVE  (\A t \in Tasks : Observed(t)') /\ Strays'
<1>0. KType /\ (\A t \in Tasks : Observed(t)) /\ Strays
  BY DEF KInv
<1> USE DEF KType, K!hook
<1>k. ASSUME UNCHANGED <<pc, probed, held, astray>>
      PROVE  (\A t \in Tasks : Observed(t)') /\ Strays'
  BY <1>0, <1>k DEF Observed, Strays
<1>1. CASE UNCHANGED K!vars \/ K!register_kprobe \/ K!hook_exit \/ K!unregister_kprobe
  BY <1>1, <1>k DEF K!vars, K!register_kprobe, K!hook_exit, K!unregister_kprobe
<1>t. ASSUME NEW t \in Tasks, Observed(t)',
             \A u \in Tasks \ {t} : pc'[u] = pc[u] /\ probed'[u] = probed[u] /\ held'[u] = held[u]
      PROVE  \A u \in Tasks : Observed(u)'
  BY <1>0, <1>t DEF Observed
<1>4. ASSUME astray = {}, NEW t \in Tasks, K!vfs_call(t)
      PROVE  (\A u \in Tasks : Observed(u)') /\ Strays'
  BY <1>0, <1>4, <1>t, KprobesCalls DEF K!vfs_call, K!Goto, Observed, Strays
<1>5. ASSUME astray = {}, NEW t \in Tasks, K!Handler(t)
      PROVE  (\A u \in Tasks : Observed(u)') /\ Strays'
  <2>1. UNCHANGED probed
    BY <1>5 DEF K!Handler
  <2>2. ASSUME NEW n \in {0, 1}, K!Return(t, "pre", n), probed[t].fn \in K!Functions,
               n = 1 => probed[t].fn = "vfs_unlink" /\ probed[t].test_txt
        PROVE  (\A u \in Tasks : Observed(u)') /\ Strays'
    BY <1>0, <1>5, <1>t, <2>1, <2>2 DEF K!Return, K!Goto, Observed, Strays
  <2>3. ASSUME NEW n \in {0, 1}, K!Return(t, "post", n), probed[t].fn = "vfs_write",
               n = 1 => ~probed[t].test_txt
        PROVE  (\A u \in Tasks : Observed(u)') /\ Strays'
    BY <1>0, <1>5, <1>t, <2>1, <2>3 DEF K!Return, K!Goto, Observed, Strays
  <2>4. ASSUME K!Wrong(t), probed[t].fn = "vfs_write", probed[t].test_txt
        PROVE  (\A u \in Tasks : Observed(u)') /\ Strays'
    BY <1>0, <2>1, <2>4 DEF K!Wrong, Observed, Strays
  <2>5. CASE K!vfs_write_pre(t)
    BY <2>2, <2>4, <2>5, KprobesCalls DEF K!vfs_write_pre
  <2>6. CASE K!vfs_write_post(t)
    BY <2>3, <2>6 DEF K!vfs_write_post
  <2>7. CASE K!vfs_rename_pre(t)
    BY <2>2, <2>7, KprobesCalls DEF K!vfs_rename_pre
  <2>8. CASE K!vfs_unlink_pre(t)
    BY <2>2, <2>8, KprobesCalls DEF K!vfs_unlink_pre
  <2> QED
    BY <1>5, <2>5, <2>6, <2>7, <2>8 DEF K!Handler
<1>6. ASSUME astray = {}, NEW t \in Tasks, K!body_returns(t)
      PROVE  (\A u \in Tasks : Observed(u)') /\ Strays'
  BY <1>0, <1>6, <1>t, KprobesCalls DEF K!body_returns, K!Goto, Observed, Strays
<1> QED
  BY <1>1, <1>4, <1>5, <1>6 DEF K!Next

(* The inductive invariant of the kprobes.                                 *)
THEOREM KprobesInv == K!Spec => []KInv
<1>1. ASSUME K!Init PROVE KInv
  BY <1>1, KprobesCalls DEF K!Init, KInv, KType, PassedInOrder, Observed, Strays
<1>2. ASSUME KInv, [K!Next]_(K!vars) PROVE KInv'
  <2>1. KType' /\ PassedInOrder' /\ (\A t \in Tasks : Observed(t)') /\ Strays'
    BY <1>2, KprobesType, KprobesPassed, KprobesObserved DEF KInv
  <2> QED
    BY <2>1 DEF KInv
<1> QED
  BY <1>1, <1>2, PTL DEF K!Spec

(* When hook_exit has passed all the probes, nobody is inside one of their *)
(* handlers, whatever register_kprobe had returned for each of them.       *)
THEOREM ProbesDrainedTheorem == K!Spec => []ProbesDrained
<1>1. KInv => ProbesDrained
  <2> SUFFICES ASSUME KInv, module = "gone", NEW t \in Tasks
               PROVE  pc[t] \notin {"pre", "post"}
    BY DEF ProbesDrained, K!HandlersInModule
  <2>1. K!drained("vfs_write") /\ K!drained("vfs_rename") /\ K!drained("vfs_unlink")
    BY KprobesCalls DEF KInv, PassedInOrder, Passed
  <2>2. pc[t] \in {"pre", "post"} => probed[t].fn \in {"vfs_write", "vfs_rename", "vfs_unlink"}
    BY KprobesCalls DEF KInv, Observed
  <2> QED
    BY <2>1, <2>2 DEF K!drained
<1> QED
  BY <1>1, KprobesInv, PTL

(* Only a write to test.txt is ever sent astray, and a call never costs    *)
(* more than the one path buffer of an unlink of test.txt or of a write to *)
(* another file.                                                           *)
THEOREM ProbesHarmlessTheorem == K!Spec => []ProbesHarmless
<1>1. KInv => ProbesHarmless
  BY DEF KInv, Observed, Strays, ProbesHarmless, K!HarmlessElsewhere
<1> QED
  BY <1>1, KprobesInv, PTL
=============================================================================
