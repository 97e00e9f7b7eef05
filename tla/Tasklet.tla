------------------------------ MODULE Tasklet ------------------------------
(***************************************************************************)
(* The tasklet demonstration of src/src/tasklet/main.c: irq_handler on a   *)
(* shared interrupt line schedules my_tasklet, whose handler runs in       *)
(* softirq context; rmmod kills the tasklet and then frees the interrupt.  *)
(*                                                                         *)
(* The kernel's services are modelled from how the code uses them:         *)
(* tasklet_schedule does nothing for a tasklet that is scheduled already;  *)
(* a scheduled tasklet runs once, on a CPU that may be another than the    *)
(* one that handles interrupts or unloads the module; tasklet_kill waits   *)
(* until the tasklet is neither scheduled nor running; free_irq waits for  *)
(* a handler that is running.  After tasklet_demo_exit the module's code   *)
(* and my_tasklet are gone.  irq_counter, which is only logged, is left    *)
(* out.                                                                    *)
(***************************************************************************)
EXTENDS Integers

CONSTANT MaxIrqs   \* bound: interrupts that arrive

VARIABLES
  exit,        \* where the module is: "absent", "loaded", "kill", "free_irq", "gone"
  registered,  \* irq_handler is on the interrupt line
  handling,    \* irq_handler is running
  sched,       \* TASKLET_STATE_SCHED of my_tasklet
  running,     \* my_tasklet_handler is running
  arrived      \* interrupts that have arrived

vars == <<exit, registered, handling, sched, running, arrived>>

Init ==
  /\ exit = "absent"
  /\ registered = FALSE
  /\ handling = FALSE
  /\ sched = FALSE
  /\ running = FALSE
  /\ arrived = 0

(* tasklet_init, then request_irq, which may refuse.                       *)
tasklet_demo_init ==
  /\ exit = "absent"
  /\ \/ exit' = "loaded" /\ registered' = TRUE
     \/ exit' = "gone" /\ UNCHANGED registered
  /\ UNCHANGED <<handling, sched, running, arrived>>

(* An interrupt arrives and irq_handler is called.                         *)
interrupt ==
  /\ registered
  /\ ~handling
  /\ arrived < MaxIrqs
  /\ arrived' = arrived + 1
  /\ handling' = TRUE
  /\ UNCHANGED <<exit, registered, sched, running>>

(* irq_handler calls tasklet_schedule and returns.                         *)
irq_handler ==
  /\ handling
  /\ sched' = TRUE
  /\ handling' = FALSE
  /\ UNCHANGED <<exit, registered, running, arrived>>

(* The softirq takes the tasklet and runs my_tasklet_handler.              *)
my_tasklet_handler ==
  /\ sched /\ ~running
  /\ sched' = FALSE
  /\ running' = TRUE
  /\ UNCHANGED <<exit, registered, handling, arrived>>

handler_returns ==
  /\ running
  /\ running' = FALSE
  /\ UNCHANGED <<exit, registered, handling, sched, arrived>>

(* rmmod: tasklet_demo_exit is called.                                     *)
rmmod ==
  /\ exit = "loaded"
  /\ exit' = "kill"
  /\ UNCHANGED <<registered, handling, sched, running, arrived>>

tasklet_kill ==
  /\ exit = "kill"
  /\ ~sched /\ ~running
  /\ exit' = "free_irq"
  /\ UNCHANGED <<registered, handling, sched, running, arrived>>

free_irq ==
  /\ exit = "free_irq"
  /\ ~handling
  /\ registered' = FALSE
  /\ exit' = "gone"
  /\ UNCHANGED <<handling, sched, running, arrived>>

Next ==
  \/ tasklet_demo_init \/ rmmod \/ tasklet_kill \/ free_irq
  \/ interrupt \/ irq_handler
  \/ my_tasklet_handler \/ handler_returns

Spec == Init /\ [][Next]_vars

-----------------------------------------------------------------------------
(* "Disable and release the tasklet", says the comment on tasklet_kill in  *)
(* tasklet_demo_exit: when the module is gone its tasklet is neither       *)
(* scheduled nor running.                                                  *)
TaskletReleased == exit = "gone" => ~sched /\ ~running
=============================================================================
