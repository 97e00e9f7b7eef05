----------------------------- MODULE Lifecycle -----------------------------
(***************************************************************************)
(* How modules come and go while something of theirs is running: the       *)
(* character devices of src/src/cdev/main.c and src/src/globalfifo/main.c  *)
(* with their open files, the timers of src/src/second/main.c and          *)
(* src/src/second/hrtimer.c with their callbacks, and the kernel thread    *)
(* and the work item of src/src/thread/main.c.                             *)
(*                                                                         *)
(* The init and exit functions are programs, sequences of steps that take  *)
(* or give back one resource each.  The kernel is modelled from how the    *)
(* code uses it: a device that has been added can be opened, also while    *)
(* the init function is still running; an open file holds the module named *)
(* by cdev.owner, and a module that is held, or still loading, cannot be   *)
(* removed; del_timer_sync and hrtimer_cancel try again while the callback *)
(* runs, kthread_stop waits for the thread to end, and flush_workqueue and *)
(* destroy_workqueue wait for the work.                                    *)
(***************************************************************************)
EXTENDS Integers, Sequences

CONSTANT Users   \* tasks that open a device

VARIABLES
  driver,   \* which module it is
  module,   \* "loading", "failing", "loaded", "going" or "gone"
  ip,       \* the next step of the init or exit function
  held,     \* what the module has taken and not given back
  file,     \* file[u]: "closed", "open", or "busy" in a file operation
  early,    \* a file operation has used a lock that was not initialised
  timer,    \* "idle", "pending", "running", or "rearmed": running and pending
  work,     \* demo_work: "idle", "queued" or "running"
  kthread   \* demo_task: "none", "awake", "asleep" or "done"

activity == <<file, early, timer, work, kthread>>
vars == <<driver, module, ip, held, activity>>

Drivers == {"cdev", "globalfifo", "timer", "hrtimer", "thread"}

hello_init_cdev == <<"region", "mem", "locks", "cdev">>
hello_init_globalfifo == <<"region", "mem", "cdev", "locks">>
hello_exit == <<"cdev", "mem", "region">>

timer_init == <<"timer">>
timer_exit == <<"timer">>
__hrtimer_init == <<"timer">>
__hrtimer_exit == <<"timer">>

thread_demo_init == <<"workqueue", "work", "kthread">>
thread_demo_exit == <<"kthread", "work", "workqueue">>

InitProgram ==
  CASE driver = "cdev" -> hello_init_cdev [] driver = "globalfifo" -> hello_init_globalfifo
    [] driver = "timer" -> timer_init [] driver = "hrtimer" -> __hrtimer_init
    [] driver = "thread" -> thread_demo_init
ExitProgram ==
  CASE driver \in {"cdev", "globalfifo"} -> hello_exit
    [] driver = "timer" -> timer_exit [] driver = "hrtimer" -> __hrtimer_exit
    [] driver = "thread" -> thread_demo_exit

-----------------------------------------------------------------------------
AtInit(r) == module = "loading" /\ ip =< Len(InitProgram) /\ InitProgram[ip] = r
AtExit(r) == module = "going" /\ ip =< Len(ExitProgram) /\ ExitProgram[ip] = r

(* A step of the init function: mod_timer and hrtimer_start make the timer *)
(* pending, queue_work queues the work, kthread_run starts the thread.     *)
init_step ==
  \E r \in {"region", "mem", "locks", "cdev", "timer", "workqueue", "work", "kthread"} :
    /\ AtInit(r)
    /\ held' = held \cup {r}
    /\ ip' = ip + 1
    /\ timer' = IF r = "timer" THEN "pending" ELSE timer
    /\ work' = IF r = "work" THEN "queued" ELSE work
    /\ kthread' = IF r = "kthread" THEN "awake" ELSE kthread
    /\ UNCHANGED <<driver, module, file, early>>

(* A region or memory that cannot be had, or a work queue: the init        *)
(* function gives back what it has and fails.                              *)
fail_malloc ==
  /\ AtInit("region") \/ AtInit("mem") \/ AtInit("workqueue")
  /\ module' = "gone"
  /\ held' = held \ {"region"}
  /\ UNCHANGED <<driver, ip, activity>>

(* cdev_add fails, which is only logged.                                   *)
hello_setup_cdev_fails ==
  /\ AtInit("cdev")
  /\ ip' = ip + 1
  /\ UNCHANGED <<driver, module, held, activity>>

(* kthread_run fails: destroy_workqueue, which waits for the work.         *)
kthread_run_fails ==
  /\ AtInit("kthread")
  /\ module' = "failing"
  /\ UNCHANGED <<driver, ip, held, activity>>
init_failed ==
  /\ module = "failing" /\ work = "idle"
  /\ module' = "gone" /\ held' = {}
  /\ UNCHANGED <<driver, ip, activity>>

init_done ==
  /\ module = "loading" /\ ip > Len(InitProgram)
  /\ module' = "loaded"
  /\ UNCHANGED <<driver, ip, held, activity>>

rmmod ==
  /\ module = "loaded"
  /\ \A u \in Users : file[u] = "closed"
  /\ module' = "going"
  /\ ip' = 1
  /\ UNCHANGED <<driver, held, activity>>

(* When the call that gives a resource back returns.                       *)
returns_del_timer(r) ==
  CASE r = "kthread" -> kthread = "done"
    [] r \in {"work", "workqueue"} -> work = "idle"
    [] OTHER -> TRUE
returns(r) ==
  CASE r = "timer" -> timer \in {"idle", "pending"}
    [] r = "kthread" -> kthread = "done"
    [] r \in {"work", "workqueue"} -> work = "idle"
    [] OTHER -> TRUE

exit_step ==
  \E r \in held \cup {"cdev"} :
    /\ AtExit(r)
    /\ returns(r)
    /\ held' = held \ {r}
    /\ ip' = ip + 1
    /\ timer' = IF r # "timer" THEN timer ELSE IF timer = "pending" THEN "idle" ELSE timer
    /\ UNCHANGED <<driver, module, file, early, work, kthread>>

exit_done ==
  /\ module = "going" /\ ip > Len(ExitProgram)
  /\ module' = "gone"
  /\ held' = held \ {"locks"}
  /\ UNCHANGED <<driver, ip, activity>>

-----------------------------------------------------------------------------
(* Open files.                                                             *)
File(u, from, to) == file[u] = from /\ file' = [file EXCEPT ![u] = to]

hello_open(u) ==
  /\ "cdev" \in held /\ module \in {"loading", "loaded"}
  /\ File(u, "closed", "open")
  /\ UNCHANGED <<driver, module, ip, held, early, timer, work, kthread>>

(* read, write or ioctl, all of which take the locks of the device.        *)
operation(u) ==
  /\ \/ File(u, "open", "busy") /\ early' = (early \/ "locks" \notin held)
     \/ File(u, "busy", "open") /\ UNCHANGED early
  /\ UNCHANGED <<driver, module, ip, held, timer, work, kthread>>

hello_release(u) ==
  /\ File(u, "open", "closed")
  /\ UNCHANGED <<driver, module, ip, held, early, timer, work, kthread>>

(* The callbacks: timer_callback makes its timer pending again while it    *)
(* runs, hrtimer_callback when it returns HRTIMER_RESTART.                 *)
Timer(from, to) == timer = from /\ timer' = to /\ UNCHANGED <<driver, module, ip, held, file, early, work, kthread>>

timer_expires == Timer("pending", "running")
timer_callback ==
  /\ driver = "timer"
  /\ Timer("running", "rearmed") \/ Timer("rearmed", "pending")
hrtimer_callback == driver = "hrtimer" /\ Timer("running", "pending")

workqueue_function ==
  /\ work # "idle"
  /\ work' = IF work = "queued" THEN "running" ELSE "idle"
  /\ UNCHANGED <<driver, module, ip, held, file, early, timer, kthread>>

(* thread_function: kthread_should_stop is asked only between two sleeps.  *)
kthread_should_stop_never == FALSE
kthread_should_stop == AtExit("kthread")
thread_function ==
  /\ \/ kthread = "awake" /\ kthread' = IF kthread_should_stop THEN "done" ELSE "asleep"
     \/ kthread = "asleep" /\ kthread' = "awake"
  /\ UNCHANGED <<driver, module, ip, held, file, early, timer, work>>

-----------------------------------------------------------------------------
Init ==
  /\ driver \in Drivers
  /\ module = "loading" /\ ip = 1 /\ held = {}
  /\ file = [u \in Users |-> "closed"] /\ early = FALSE
  /\ timer = "idle" /\ work = "idle" /\ kthread = "none"

Load == init_step \/ fail_malloc \/ hello_setup_cdev_fails \/ kthread_run_fails \/ init_failed \/ init_done
Unload == exit_step \/ exit_done
Callback == timer_callback \/ hrtimer_callback \/ workqueue_function \/ thread_function

Next ==
  \/ Load \/ rmmod \/ Unload \/ timer_expires \/ Callback
  \/ \E u \in Users : hello_open(u) \/ operation(u) \/ hello_release(u)

Spec == Init /\ [][Next]_vars

(* Callbacks, work and threads run and come to their end; rmmod goes on.   *)
(* del_timer_sync tries again all the time, and a periodic timer lets 0.5  *)
(* or 2 seconds pass between two callbacks: it is found not running.       *)
Fairness == WF_vars(Callback) /\ SF_vars(Unload) /\ WF_vars(init_failed)

-----------------------------------------------------------------------------
(* Whenever rmmod begins and whichever step of an init function fails,     *)
(* nothing outlives what it uses: a file finds its device, a queued work   *)
(* its work queue, and when the module is gone no callback is running or   *)
(* pending, no work queued, no thread alive, nothing allocated.  A device  *)
(* is used before its locks are initialised only in globalfifo, which adds *)
(* the device first.                                                       *)
NothingOutlives ==
  /\ \A u \in Users : file[u] # "closed" => {"cdev", "mem", "region"} \subseteq held
  /\ work # "idle" => "workqueue" \in held
  /\ module = "gone" => held = {} /\ timer = "idle" /\ work = "idle" /\ kthread \in {"none", "done"}
  /\ early => driver = "globalfifo"

(* Under Fairness: rmmod and a failing init end: a timer that rearms       *)
(* itself is caught, the thread sees that it should stop, the work is      *)
(* flushed.                                                                *)
UnloadEnds == module \in {"going", "failing"} ~> module = "gone"
=============================================================================
