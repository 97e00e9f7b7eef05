------------------------------ MODULE MCUnload ------------------------------
(***************************************************************************)
(* What has to come to its end before a module is gone, side by side for   *)
(* TLC: the works of the work queue FIFO, and the files, timers, work and  *)
(* thread of the modules of Lifecycle.  A behaviour is one of WorkFifo or  *)
(* one of Lifecycle.                                                       *)
(***************************************************************************)
EXTENDS WorkFifo

CONSTANT Users

VARIABLES subject, driver, stage, ip, held, file, early, timer, work, kthread

L == INSTANCE Lifecycle WITH module <- stage

lifecycle == <<driver, stage, ip, held, file, early, timer, work, kthread>>

MCInit ==
  /\ Init /\ L!Init
  /\ \/ subject = "workfifo" /\ driver = "thread"
     \/ subject = "lifecycle"

MCNext ==
  /\ UNCHANGED subject
  /\ \/ subject = "workfifo" /\ Next /\ UNCHANGED lifecycle
     \/ subject = "lifecycle" /\ L!Next /\ UNCHANGED vars

MCFairSpec ==
  /\ MCInit /\ [][MCNext]_<<vars, subject, lifecycle>>
  /\ (subject = "workfifo" => Fairness)
  /\ (subject = "lifecycle" => L!Fairness)

-----------------------------------------------------------------------------
(* Whichever step of an init function fails and whenever rmmod begins, a   *)
(* file finds its device and a work its queue, and nothing runs, is        *)
(* pending or is allocated when the module is gone; a device is used       *)
(* before its locks are initialised only in globalfifo.                    *)
NothingOutlives == L!NothingOutlives

(* An rmmod or a failing init of a module of Lifecycle comes to its end,   *)
(* although timers start themselves again and a thread sleeps.             *)
ModulesUnload == L!UnloadEnds
=============================================================================
