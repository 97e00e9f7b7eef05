----------------------------- MODULE FtraceHook -----------------------------
(***************************************************************************)
(* The ftrace hook on path_mount of src/src/ftrace/main.c.  While the hook *)
(* is registered a call of path_mount enters ftrace_callback_handler,      *)
(* which sends it to ftrace_path_mount unless the caller is this module;   *)
(* ftrace_path_mount calls path_mount in turn.                             *)
(*                                                                         *)
(* ftrace is modelled from how the code uses it: the callback runs at the  *)
(* entry of a function whose address is in the filter of registered ops;   *)
(* unregister_ftrace_function waits for the callbacks that are running,    *)
(* and for nothing else; when it fails, ftrace goes on using ops.  Nothing *)
(* keeps the module loaded while a task is inside ftrace_path_mount, and   *)
(* what such a task, or a callback, does when it gets to code that is gone *)
(* is not specified (fault).                                               *)
(***************************************************************************)
EXTENDS Integers

CONSTANTS
  Tasks,   \* tasks that mount
  Mounts   \* bound: mounts that a task makes

ASSUME FtraceHookAssumption == Mounts \in Nat

VARIABLES
  module,    \* "none", "resolved", "filtered", "loaded", "unregistering",
             \* "unregistered", "gone"
  original,  \* orig_path_mount points to path_mount
  filter,    \* the address is in the filter of hook->ops
  ops,       \* hook->ops: "off", "on" (registered) or "stuck" (and not to be
             \* unregistered)
  pc,        \* pc[t]: where t is
  nested,    \* nested[t]: path_mount has been called by ftrace_path_mount
  bodies,    \* bodies[t]: how often the current mount of t has been carried out
  ret,       \* ret[t]: what the call returns
  mounts,    \* mounts[t]: mounts that t has made
  fault      \* a task has got to code that is gone

hook == <<module, original, filter, ops>>
call == <<pc, nested, bodies, ret, mounts>>
vars == <<hook, call, fault>>

Goto(t, from, to) == pc[t] = from /\ pc' = [pc EXCEPT ![t] = to]

-----------------------------------------------------------------------------
(* register_hook, in its order: resolve_hook_address stores the original   *)
(* address before anything can be redirected.  A step that fails undoes    *)
(* the filter, and the module is not loaded.                               *)
resolve_hook_address ==
  /\ module = "none"
  /\ \/ module' = "resolved" /\ original' = TRUE
     \/ module' = "gone" /\ UNCHANGED original
  /\ UNCHANGED <<filter, ops, call, fault>>

set_filter ==
  /\ module = "resolved"
  /\ \/ module' = "filtered" /\ filter' = TRUE
     \/ module' = "gone" /\ UNCHANGED filter
  /\ UNCHANGED <<original, ops, call, fault>>

register_hook ==
  /\ module = "filtered"
  /\ \/ module' = "loaded" /\ ops' = "on" /\ UNCHANGED filter
     \/ module' = "gone" /\ filter' = FALSE /\ UNCHANGED ops
  /\ UNCHANGED <<original, call, fault>>

(* unregister_hook.  When ops cannot be unregistered, or the filter not be *)
(* changed, that is logged and the module goes all the same.               *)
unregister_ftrace_function_forgotten ==
  /\ module = "loaded"
  /\ module' = "unregistered"
  /\ UNCHANGED <<original, filter, ops, call, fault>>
unregister_ftrace_function ==
  /\ module = "loaded"
  /\ \/ ops' = "off" /\ module' = "unregistering"
     \/ ops' = "stuck" /\ module' = "unregistered"
  /\ UNCHANGED <<original, filter, call, fault>>

callbacks_done ==
  /\ module = "unregistering"
  /\ \A t \in Tasks : pc[t] # "callback"
  /\ module' = "unregistered"
  /\ UNCHANGED <<original, filter, ops, call, fault>>

unregister_hook ==
  /\ module = "unregistered"
  /\ filter' \in {FALSE, filter}
  /\ module' = "gone"
  /\ UNCHANGED <<original, ops, call, fault>>

-----------------------------------------------------------------------------
(* A task mounts.                                                          *)
mount(t) ==
  /\ mounts[t] < Mounts
  /\ Goto(t, "out", "path_mount")
  /\ mounts' = [mounts EXCEPT ![t] = @ + 1]
  /\ bodies' = [bodies EXCEPT ![t] = 0]
  /\ UNCHANGED <<hook, nested, ret, fault>>

(* The entry of path_mount, whoever has called it.                         *)
path_mount(t) ==
  /\ Goto(t, "path_mount", IF ops # "off" /\ filter THEN "callback" ELSE "body")
  /\ UNCHANGED <<hook, nested, bodies, ret, mounts, fault>>

(* The caller is in this module.                                           *)
within_module_never(t) == FALSE
within_module(t) == nested[t]

ftrace_callback_handler(t) ==
  /\ \/ /\ module # "gone"
        /\ Goto(t, "callback", IF within_module(t) THEN "body" ELSE "enter")
        /\ UNCHANGED fault
     \/ /\ module = "gone"
        /\ pc[t] = "callback"
        /\ fault' = TRUE
        /\ UNCHANGED pc
  /\ UNCHANGED <<hook, nested, bodies, ret, mounts>>

(* ftrace_path_mount up to its call of the original; without memory for    *)
(* the path the mount is refused.                                          *)
ftrace_path_mount(t) ==
  /\ \/ /\ module # "gone"
        /\ \/ /\ Goto(t, "enter", "path_mount")
              /\ original
              /\ nested' = [nested EXCEPT ![t] = TRUE]
              /\ UNCHANGED <<ret, fault>>
           \/ /\ Goto(t, "enter", "out")
              /\ ret' = [ret EXCEPT ![t] = "ENOMEM"]
              /\ UNCHANGED <<nested, fault>>
     \/ /\ module = "gone" \/ ~original
        /\ pc[t] = "enter"
        /\ fault' = TRUE
        /\ UNCHANGED <<pc, nested, ret>>
  /\ UNCHANGED <<hook, bodies, mounts>>

(* What path_mount itself does, with a result of its own; it returns to    *)
(* its caller.                                                             *)
path_mount_body(t) ==
  /\ Goto(t, "body", IF nested[t] THEN "leave" ELSE "out")
  /\ bodies' = [bodies EXCEPT ![t] = @ + 1]
  /\ \E r \in {"0", "error"} : ret' = [ret EXCEPT ![t] = r]
  /\ UNCHANGED <<hook, nested, mounts, fault>>

(* The rest of ftrace_path_mount: sys_ret goes back to the caller.         *)
ftrace_path_mount_retries(t) ==
  /\ module # "gone"
  /\ Goto(t, "leave", IF ret[t] = "error" THEN "path_mount" ELSE "out")
  /\ nested' = [nested EXCEPT ![t] = ret[t] = "error"]
  /\ UNCHANGED <<hook, bodies, ret, mounts, fault>>
ftrace_path_mount_returns(t) ==
  /\ \/ /\ module # "gone"
        /\ Goto(t, "leave", "out")
        /\ nested' = [nested EXCEPT ![t] = FALSE]
        /\ UNCHANGED fault
     \/ /\ module = "gone"
        /\ pc[t] = "leave"
        /\ fault' = TRUE
        /\ UNCHANGED <<pc, nested>>
  /\ UNCHANGED <<hook, bodies, ret, mounts>>

-----------------------------------------------------------------------------
Init ==
  /\ module = "none"
  /\ original = FALSE
  /\ filter = FALSE
  /\ ops = "off"
  /\ pc = [t \in Tasks |-> "out"]
  /\ nested = [t \in Tasks |-> FALSE]
  /\ bodies = [t \in Tasks |-> 0]
  /\ ret = [t \in Tasks |-> "0"]
  /\ mounts = [t \in Tasks |-> 0]
  /\ fault = FALSE

Load == resolve_hook_address \/ set_filter \/ register_hook
Unload == unregister_ftrace_function \/ callbacks_done \/ unregister_hook

Inside(t) ==
  \/ path_mount(t) \/ ftrace_callback_handler(t) \/ ftrace_path_mount(t)
  \/ path_mount_body(t) \/ ftrace_path_mount_returns(t)

Next ==
  /\ ~fault
  /\ Load \/ Unload \/ \E t \in Tasks : mount(t) \/ Inside(t)

Spec == Init /\ [][Next]_vars

(* A task that mounts is scheduled, and rmmod runs to its end once begun.  *)
Fairness ==
  /\ \A t \in Tasks : WF_vars(~fault /\ Inside(t))
  /\ WF_vars(~fault /\ module # "loaded" /\ Unload)

-----------------------------------------------------------------------------
(* A mount is carried out exactly once, whether the hook is registered or  *)
(* unregistered before it, between the two entries of path_mount or after  *)
(* them; only a mount that the hook refused for want of memory is not      *)
(* carried out at all.                                                     *)
MountedOnce ==
  \A t \in Tasks :
    /\ bodies[t] =< 1
    /\ pc[t] = "out" /\ mounts[t] > 0 => bodies[t] = IF ret[t] = "ENOMEM" THEN 0 ELSE 1

(* Unregistering is complete, unless ftrace refuses it: once the module is *)
(* gone nobody is in the callback or can get there, except with ops that   *)
(* could not be unregistered.  Nobody is ever sent to the hook without the *)
(* address of the original, so nothing goes wrong while the module is      *)
(* there.                                                                  *)
FaultOnlyInHook ==
  /\ module = "gone" /\ ops # "stuck" => ops = "off" /\ \A t \in Tasks : pc[t] # "callback"
  /\ \A t \in Tasks : pc[t] = "enter" => original
  /\ fault => module = "gone"
=============================================================================
