------------------------------ MODULE Kprobes ------------------------------
(***************************************************************************)
(* The kprobes of src/src/hook/main.c on vfs_write, vfs_rename and         *)
(* vfs_unlink: handlers that run before (and for vfs_write also after) the *)
(* first instruction of the probed function, in every task that calls it.  *)
(*                                                                         *)
(* kprobes are modelled from how the code uses them: a registered probe    *)
(* runs its pre handler; if that returns 0 the instruction is executed,    *)
(* the post handler runs and the function goes on.  A pre handler that     *)
(* returns anything else says that it has chosen where to go on: the post  *)
(* handler is skipped and the task continues at an address that this code  *)
(* never sets (astray).  unregister_kprobe waits for running handlers.     *)
(***************************************************************************)
EXTENDS Integers

CONSTANTS Tasks,      \* tasks that write, rename and unlink files
          Calls,      \* bound: calls that a task makes
          NulAt,      \* bound: characters of a user buffer before its first NUL
          Counts,     \* bound: the counts passed to write()
          PATH_MAX

VARIABLES module,   \* "none", "loaded", "going" or "gone"
          ip,       \* the probe that hook_init or hook_exit is at
          armed,    \* the probes that are registered
          pc,       \* pc[t]: "out", "pre", "post", "body"
          call,     \* call[t]: the function, the file, and the user's buffer
          calls,    \* calls[t]: calls that t has made
          held,     \* held[t]: buffers that the handlers of t's call have not freed
          astray    \* tasks that a handler has sent astray: nothing more is specified

vars == <<module, ip, armed, pc, call, calls, held, astray>>
hook == <<module, ip, armed>>

kps == <<"vfs_write", "vfs_rename", "vfs_unlink">>
Functions == {kps[i] : i \in 1 .. 3}
NoCall == [fn |-> "none", test_txt |-> FALSE, nul |-> 0, count |-> 0]
Call == [fn : {"vfs_write"}, test_txt : {TRUE}, nul : NulAt, count : Counts]
          \cup [fn : Functions, test_txt : BOOLEAN, nul : {0}, count : {0}]

Goto(t, from, to) == pc[t] = from /\ pc' = [pc EXCEPT ![t] = to]

-----------------------------------------------------------------------------
(* hook_init registers the probes one after the other and does not look at *)
(* what register_kprobe returns; hook_exit unregisters all of them.        *)
register_kprobe ==
  /\ module = "none"
  /\ armed' \in {armed, armed \cup {kps[ip]}}
  /\ IF ip < 3 THEN ip' = ip + 1 /\ UNCHANGED module ELSE ip' = 1 /\ module' = "loaded"
  /\ UNCHANGED <<pc, call, calls, held, astray>>

hook_exit ==
  /\ module = "loaded"
  /\ module' = "going"
  /\ UNCHANGED <<ip, armed, pc, call, calls, held, astray>>

drained(f) == \A t \in Tasks : call[t].fn = f => pc[t] \notin {"pre", "post"}
unregister_kprobe_but_last ==
  /\ module = "going"
  /\ \/ armed' = armed \ {kps[ip]} /\ kps[ip] \in armed /\ UNCHANGED <<ip, module>>
     \/ /\ kps[ip] \notin armed /\ drained(kps[ip])
        /\ IF ip < 2 THEN ip' = ip + 1 /\ UNCHANGED module ELSE ip' = 1 /\ module' = "gone"
        /\ UNCHANGED armed
  /\ UNCHANGED <<pc, call, calls, held, astray>>
unregister_kprobe ==
  /\ module = "going"
  /\ \/ armed' = armed \ {kps[ip]} /\ kps[ip] \in armed /\ UNCHANGED <<ip, module>>
     \/ /\ kps[ip] \notin armed /\ drained(kps[ip])
        /\ IF ip < 3 THEN ip' = ip + 1 /\ UNCHANGED module ELSE ip' = 1 /\ module' = "gone"
        /\ UNCHANGED armed
  /\ UNCHANGED <<pc, call, calls, held, astray>>

-----------------------------------------------------------------------------
(* A task calls one of the functions.                                      *)
vfs_call(t) ==
  /\ calls[t] < Calls
  /\ \E c \in Call :
       /\ call' = [call EXCEPT ![t] = c]
       /\ Goto(t, "out", IF c.fn \in armed THEN "pre" ELSE "body")
  /\ calls' = [calls EXCEPT ![t] = @ + 1]
  /\ UNCHANGED <<hook, held, astray>>

(* The handler is done, with n buffers that it has not freed.              *)
Return(t, from, n) ==
  /\ Goto(t, from, IF from = "pre" /\ call[t].fn = "vfs_write" THEN "post" ELSE "body")
  /\ held' = [held EXCEPT ![t] = @ + n]
  /\ UNCHANGED astray
Wrong(t) == pc[t] = "pre" /\ astray' = {t} /\ UNCHANGED <<pc, held>>

(* vfs_write_pre: of test.txt, the buffer is measured to its first NUL     *)
(* (which counts too), copied by the count of the call, logged with the    *)
(* path and freed.  A buffer that is NULL or not in memory (which the copy *)
(* may find out at any time), or too long, makes it return -EFAULT; memory *)
(* that could not be had is written to, and the copy is longer than data   *)
(* if the text ends before the count.                                      *)
strnlen_user(c) == c.nul + 1
vfs_write_pre_all_files(t) ==
  LET c == call[t] IN
  /\ c.fn = "vfs_write"
  /\ \/ Return(t, "pre", 0)
     \/ Wrong(t)
vfs_write_pre(t) ==
  LET c == call[t] IN
  /\ c.fn = "vfs_write"
  /\ \/ ~c.test_txt /\ Return(t, "pre", 0)
     \/ /\ c.test_txt /\ strnlen_user(c) =< PATH_MAX /\ c.count =< strnlen_user(c) + 1
        /\ Return(t, "pre", 0)
     \/ c.test_txt /\ Wrong(t)

(* vfs_write_post gets the path before it looks at the name, and frees it  *)
(* only for test.txt; for want of memory there is none.                    *)
vfs_write_post(t) ==
  /\ call[t].fn = "vfs_write"
  /\ \E n \in IF call[t].test_txt THEN {0} ELSE {0, 1} : Return(t, "post", n)

vfs_rename_pre(t) == call[t].fn = "vfs_rename" /\ Return(t, "pre", 0)

vfs_unlink_pre(t) ==
  /\ call[t].fn = "vfs_unlink"
  /\ \E n \in IF call[t].test_txt THEN {0, 1} ELSE {0} : Return(t, "pre", n)

Handler(t) ==
  /\ vfs_write_pre(t) \/ vfs_write_post(t) \/ vfs_rename_pre(t) \/ vfs_unlink_pre(t)
  /\ UNCHANGED <<hook, call, calls>>

(* The function returns; what is held by nobody then is lost.              *)
body_returns(t) ==
  /\ Goto(t, "body", "out")
  /\ call' = [call EXCEPT ![t] = NoCall] /\ held' = [held EXCEPT ![t] = 0]
  /\ UNCHANGED <<hook, calls, astray>>

-----------------------------------------------------------------------------
Init ==
  /\ module = "none" /\ ip = 1 /\ armed = {} /\ astray = {}
  /\ pc = [t \in Tasks |-> "out"]
  /\ call = [t \in Tasks |-> NoCall]
  /\ calls = [t \in Tasks |-> 0]
  /\ held = [t \in Tasks |-> 0]

Next ==
  /\ astray = {}
  /\ \/ register_kprobe \/ hook_exit \/ unregister_kprobe
     \/ \E t \in Tasks : vfs_call(t) \/ Handler(t) \/ body_returns(t)

Spec == Init /\ [][Next]_vars

(* The tasks are scheduled, and rmmod runs to its end once begun.          *)
Fairness ==
  /\ \A t \in Tasks : WF_vars(astray = {} /\ (Handler(t) \/ body_returns(t)))
  /\ WF_vars(astray = {} /\ unregister_kprobe)

-----------------------------------------------------------------------------
(* However the probes are registered and unregistered, no task is inside a *)
(* handler when the module is gone.                                        *)
HandlersInModule == module = "gone" => \A t \in Tasks : pc[t] \notin {"pre", "post"}

(* Observing is harmless but for one file: only a write to test.txt can be *)
(* sent astray by the probes.  Only an unlink of test.txt or a write to    *)
(* another file costs memory, and no more than one path buffer.            *)
HarmlessElsewhere ==
  /\ \A t \in astray : call[t].fn = "vfs_write" /\ call[t].test_txt
  /\ \A t \in Tasks : held[t] > 0 =>
       /\ held[t] = 1
       /\ call[t].fn = IF call[t].test_txt THEN "vfs_unlink" ELSE "vfs_write"
=============================================================================
