------------------------------ MODULE MCProbes ------------------------------
(***************************************************************************)
(* The two ways of the repository to hook a function of the kernel without *)
(* saving anything per call, side by side for TLC: the ftrace hook and the *)
(* kprobes.  A behaviour is one of FtraceHook or one of Kprobes.           *)
(***************************************************************************)
EXTENDS FtraceHook

CONSTANTS NulAt, Counts, PATH_MAX

VARIABLES tool, ip, armed, probed, calls, held, astray

K == INSTANCE Kprobes WITH Calls <- Mounts, call <- probed

kprobes == <<ip, armed, probed, calls, held, astray>>

MCInit == Init /\ K!Init /\ tool \in {"ftrace", "kprobes"}

ftrace == tool = "ftrace" /\ Next /\ UNCHANGED <<tool, kprobes>>
kprobe == /\ tool = "kprobes" /\ K!Next
          /\ UNCHANGED <<tool, original, filter, ops, nested, bodies, ret, mounts, fault>>
MCNext == ftrace \/ kprobe

MCFairSpec ==
  /\ MCInit /\ [][MCNext]_<<vars, tool, kprobes>>
  /\ (tool = "ftrace" => Fairness)
  /\ (tool = "kprobes" => K!Fairness)

-----------------------------------------------------------------------------
(* Under the fairness of both modules: every call that a hook or a probe   *)
(* has met returns to its caller (ftrace_path_mount does not call itself   *)
(* for ever), and an rmmod that has begun ends, whatever calls are under   *)
(* way and go on being made, unless something goes wrong first.            *)
Wrong == fault \/ astray # {}
HooksReturn ==
  /\ \A t \in Tasks : pc[t] # "out" ~> (pc[t] = "out" \/ Wrong)
  /\ module \in {"unregistering", "unregistered", "going"} ~> (module = "gone" \/ Wrong)

(* However the kprobes are registered and unregistered, no task is inside  *)
(* one of their handlers when the module is gone; only a write to test.txt *)
(* can be sent astray by them; and only an unlink of test.txt or a write   *)
(* to another file costs memory, no more than one path buffer.             *)
ProbesDrained == tool = "kprobes" => K!HandlersInModule
ProbesHarmless == K!HarmlessElsewhere
=============================================================================
