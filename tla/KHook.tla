------------------------------- MODULE KHook -------------------------------
(***************************************************************************)
(* The kretprobe on path_mount of src/src/hook/khook.c.  The entry handler *)
(* saves the arguments of the mount in a pool (a red-black tree keyed by   *)
(* the address of the kretprobe instance, used only under its spinlock);   *)
(* the return handler takes them out again and frees them.                 *)
(*                                                                         *)
(* kretprobes are modelled from how the code uses them: a call of          *)
(* path_mount gets a free instance, or no handler runs for it;             *)
(* unregister_kretprobe disarms the probe, waits for the handlers that are *)
(* running, and lets the calls that are still inside path_mount return     *)
(* without their return handler.                                           *)
(*                                                                         *)
(* Left out: the texts, and that insert_node may sleep under the spinlock. *)
(***************************************************************************)
EXTENDS Integers, FiniteSets

CONSTANTS
  Tasks,       \* tasks that mount
  Instances,   \* the maxactive kretprobe instances
  None,        \* no instance, no saved arguments
  Flags,       \* values of the flags argument, and of registers
  Calls        \* bound: mounts that the tasks make in all

(* What entry_handler saves of a mount: whose it is, which one, its flags.  *)
Params == [task : Tasks, call : Nat, flags : Flags]

ASSUME KHookAssumption ==
  /\ None \notin Tasks \cup Instances \cup Params
  /\ IsFiniteSet(Instances)
  /\ Calls \in Nat
  /\ Flags # {}

VARIABLES
  module,   \* "none", "loaded", "disarmed", "drained", "cleared", "gone"
  pool,     \* pool[i]: the params stored under instance i, or None
  freed,    \* kfree(probe_pool) has happened
  ri,       \* ri[t]: the instance of t's call
  pc,       \* pc[t]: where t's call of path_mount is
  params,   \* params[t]: the params that the handler running in t holds
  mounts,   \* mounts made so far
  calls,    \* calls[t]: the number of t's mount among them, 0 outside of one
  flags,    \* flags[t]: the flags argument of t's call
  lost,     \* number of params that nobody points to any more
  paths,    \* path buffers that get_absolute_path has allocated: nobody
            \* keeps a pointer to one
  oops      \* a handler has used a NULL pointer

vars == <<module, pool, freed, ri, pc, params, mounts, calls, flags, lost, paths, oops>>
call == <<ri, pc, params, mounts, calls, flags>>

(* pt_regs_params on x86-64: the fourth argument of a function is in cx,   *)
(* and r10 holds whatever the code before the call has left in it.         *)
pt_regs_params(regs, idx) ==
  CASE idx = 0 -> regs.di [] idx = 1 -> regs.si [] idx = 2 -> regs.dx
    [] idx = 3 -> regs.r10 [] idx = 4 -> regs.r8 [] OTHER -> 0

pt_regs(t) ==
  {[di |-> "dev_name", si |-> "path", dx |-> "type_page", cx |-> flags[t],
    r8 |-> "data_page", r10 |-> left] : left \in Flags}

(* The params that entry_handler stores: whose mount, which one, and its   *)
(* flags.  The strings stand for themselves and are left out.              *)
Args(t, regs) == [task |-> t, call |-> calls[t], flags |-> pt_regs_params(regs, 3)]

Free == Instances \ {ri[t] : t \in Tasks}
Saved == {i \in Instances : pool[i] # None}
InHandler(t) == pc[t] \in {"e_alloc", "e_insert", "r_pop", "r_free"}

-----------------------------------------------------------------------------
(* probe_pool_init, whose kmalloc is not checked, and register_kretprobe;  *)
(* when that fails the pool stays allocated and the module is not loaded.  *)
hook_init ==
  /\ module = "none"
  /\ module' \in {"loaded", "gone"}
  /\ pool' = [i \in Instances |-> None]
  /\ oops' \in BOOLEAN
  /\ UNCHANGED <<freed, lost, paths, call>>

(* t calls path_mount: with an instance, or unprobed.                      *)
path_mount(t) ==
  /\ pc[t] = "out"
  /\ mounts < Calls
  /\ mounts' = mounts + 1
  /\ calls' = [calls EXCEPT ![t] = mounts + 1]
  /\ \E f \in Flags : flags' = [flags EXCEPT ![t] = f]
  /\ \/ /\ module = "loaded"
        /\ \E i \in Free : ri' = [ri EXCEPT ![t] = i]
        /\ pc' = [pc EXCEPT ![t] = "e_alloc"]
     \/ /\ module # "loaded" \/ Free = {}
        /\ pc' = [pc EXCEPT ![t] = "inside"]
        /\ UNCHANGED ri
  /\ UNCHANGED <<module, pool, freed, params, lost, paths, oops>>

(* entry_handler allocates params, and get_absolute_path a buffer whose    *)
(* pointer is dropped.  When params are NULL nothing is stored; a          *)
(* path buffer that cannot be allocated, and a device or type that is NULL *)
(* (a remount has none), are copied from all the same, which is fatal.     *)
entry_handler(t) ==
  /\ pc[t] = "e_alloc"
  /\ \/ /\ \E regs \in pt_regs(t) : params' = [params EXCEPT ![t] = Args(t, regs)]
        /\ pc' = [pc EXCEPT ![t] = "e_insert"]
        /\ paths' = paths + 1
        /\ oops' \in BOOLEAN
     \/ /\ pc' = [pc EXCEPT ![t] = "inside"]
        /\ UNCHANGED <<params, paths, oops>>
  /\ UNCHANGED <<module, pool, freed, ri, mounts, calls, flags, lost>>

(* insert_params: insert_node refuses a key that is in the tree, and       *)
(* nobody looks at its result; the node it allocates is not checked.       *)
insert_node(i, p) == IF pool[i] = None THEN [pool EXCEPT ![i] = p] ELSE pool

insert_params(t) ==
  /\ pc[t] = "e_insert"
  /\ pool' = insert_node(ri[t], params[t])
  /\ lost' = IF pool[ri[t]] = None THEN lost ELSE lost + 1
  /\ oops' \in IF pool[ri[t]] = None THEN BOOLEAN ELSE {oops}
  /\ params' = [params EXCEPT ![t] = None]
  /\ pc' = [pc EXCEPT ![t] = "inside"]
  /\ UNCHANGED <<module, freed, ri, mounts, calls, flags, paths>>

(* path_mount returns; the return handler runs if the call was probed and  *)
(* the probe is still armed.                                               *)
mount_returns(t) ==
  /\ pc[t] = "inside"
  /\ \/ /\ ri[t] # None /\ module = "loaded"
        /\ pc' = [pc EXCEPT ![t] = "r_pop"]
        /\ UNCHANGED <<ri, calls>>
     \/ /\ ri[t] = None \/ module # "loaded"
        /\ pc' = [pc EXCEPT ![t] = "out"]
        /\ ri' = [ri EXCEPT ![t] = None]
        /\ calls' = [calls EXCEPT ![t] = 0]
  /\ UNCHANGED <<module, pool, freed, params, mounts, flags, lost, paths, oops>>

(* ret_handler: pop_params searches the key and erases its node.           *)
pop_without_erase(t) ==
  /\ pc[t] = "r_pop"
  /\ params' = [params EXCEPT ![t] = pool[ri[t]]]
  /\ pc' = [pc EXCEPT ![t] = "r_free"]
  /\ UNCHANGED <<module, pool, freed, ri, mounts, calls, flags, lost, paths, oops>>

pop_params(t) ==
  /\ pc[t] = "r_pop"
  /\ params' = [params EXCEPT ![t] = pool[ri[t]]]
  /\ pool' = [pool EXCEPT ![ri[t]] = None]
  /\ pc' = [pc EXCEPT ![t] = "r_free"]
  /\ UNCHANGED <<module, freed, ri, mounts, calls, flags, lost, paths, oops>>

(* The saved arguments are logged and freed; the instance is recycled.     *)
ret_handler(t) ==
  /\ pc[t] = "r_free"
  /\ params' = [params EXCEPT ![t] = None]
  /\ ri' = [ri EXCEPT ![t] = None]
  /\ calls' = [calls EXCEPT ![t] = 0]
  /\ pc' = [pc EXCEPT ![t] = "out"]
  /\ UNCHANGED <<module, pool, freed, mounts, flags, lost, paths, oops>>

(* hook_exit: unregister_kretprobe (disarm, then wait for the handlers),   *)
(* probe_pool_clear, kfree(probe_pool).                                    *)
unregister_without_wait ==
  /\ module = "loaded"
  /\ module' = "drained"
  /\ UNCHANGED <<pool, freed, lost, paths, oops, call>>
unregister_kretprobe ==
  /\ module = "loaded"
  /\ module' = "disarmed"
  /\ UNCHANGED <<pool, freed, lost, paths, oops, call>>

handlers_drained ==
  /\ module = "disarmed"
  /\ \A t \in Tasks : ~InHandler(t)
  /\ module' = "drained"
  /\ UNCHANGED <<pool, freed, lost, paths, oops, call>>

(* The nodes are freed, the params they point to are not.                  *)
clear_without_erase ==
  /\ module = "drained"
  /\ \A i \in Instances : pool[i] = None
  /\ module' = "cleared"
  /\ UNCHANGED <<pool, freed, lost, paths, oops, call>>
probe_pool_clear ==
  /\ module = "drained"
  /\ module' = "cleared"
  /\ lost' = lost + Cardinality(Saved)
  /\ pool' = [i \in Instances |-> None]
  /\ UNCHANGED <<freed, paths, oops, call>>

hook_exit ==
  /\ module = "cleared"
  /\ module' = "gone"
  /\ freed' = TRUE
  /\ UNCHANGED <<pool, lost, paths, oops, call>>

-----------------------------------------------------------------------------
Init ==
  /\ module = "none"
  /\ pool = [i \in Instances |-> None]
  /\ freed = FALSE
  /\ ri = [t \in Tasks |-> None]
  /\ pc = [t \in Tasks |-> "out"]
  /\ params = [t \in Tasks |-> None]
  /\ mounts = 0
  /\ calls = [t \in Tasks |-> 0]
  /\ flags \in [Tasks -> Flags]
  /\ lost = 0
  /\ paths = 0
  /\ oops = FALSE

Exit == unregister_kretprobe \/ handlers_drained \/ probe_pool_clear \/ hook_exit

TaskStep(t) ==
  entry_handler(t) \/ insert_params(t) \/ mount_returns(t) \/ pop_params(t) \/ ret_handler(t)

Next ==
  /\ ~oops
  /\ \/ hook_init \/ Exit
     \/ \E t \in Tasks : path_mount(t) \/ TaskStep(t)

Spec == Init /\ [][Next]_vars

(* The probed tasks are scheduled, and rmmod runs to its end once begun.   *)
FairSpec ==
  /\ Spec
  /\ \A t \in Tasks : WF_vars(~oops /\ TaskStep(t))
  /\ WF_vars(~oops /\ module # "loaded" /\ Exit)

-----------------------------------------------------------------------------
(* The return handler logs the arguments of its own call, never those of   *)
(* another task or of an earlier mount that had the same instance; and the *)
(* -EEXIST that insert_params ignores never happens, since an instance is  *)
(* recycled only after its entry has been taken out.                       *)
OwnArguments ==
  \A t \in Tasks :
    /\ pc[t] = "r_free" /\ params[t] # None =>
         params[t].task = t /\ params[t].call = calls[t]
    /\ pc[t] = "e_insert" => pool[ri[t]] = None

(* "Extract the parameters from the registers and save them", says the     *)
(* comment in entry_handler of the four that it fetches, whose fourth the  *)
(* prototype above it calls flags: what is logged when the mount returns   *)
(* are the flags of the mount.                                             *)
SavedFlags ==
  \A t \in Tasks : pc[t] = "r_free" /\ params[t] # None => params[t].flags = flags[t]

(* No handler uses the pool once hook_exit has freed it.  Saved arguments  *)
(* are lost only by an unload while mounts are under way, and no more of   *)
(* them than there are instances.  Every mount whose arguments were saved  *)
(* has cost a path buffer, and no mount costs more than one.               *)
MemoryAccounted ==
  /\ freed => \A t \in Tasks : ~InHandler(t)
  /\ lost > 0 => module \in {"cleared", "gone"}
  /\ lost =< Cardinality(Instances)
  /\ lost + Cardinality(Saved) =< paths
  /\ paths =< mounts

(* Under FairSpec: rmmod ends, however long the mounts that are under way  *)
(* take.                                                                   *)
UnloadEnds == module = "disarmed" ~> (module = "gone" \/ oops)
=============================================================================
