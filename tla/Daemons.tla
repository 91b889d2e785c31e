------------------------------ MODULE Daemons ------------------------------
(***************************************************************************)
(* The threads of a geoscope process: the main thread that starts the      *)
(* daemons (src/setup/daemons.py), the worker and the shutdown monitor of  *)
(* each (src/classes/daemon.py), and the thread pools a trigger waits for  *)
(* (src/utils/thread.py), of which one may be nested in another.  What the *)
(* slot trigger does to the tables is module Indexer.                      *)
(***************************************************************************)
EXTENDS Integers, Sequences

CONSTANTS
  Daemon,    \* the daemons in the order they are started
  Delayed,   \* those with an initial delay
  Pooled,    \* those whose trigger uses multithread
  Sections   \* bound on the calls of multithread in a trigger

Name == {Daemon[i] : i \in 1 .. Len(Daemon)}

ASSUME DaemonAssumption ==
  /\ Len(Daemon) \in Nat \ {0} /\ Sections \in Nat
  /\ Delayed \subseteq Name /\ Pooled \subseteq Name

VARIABLES
  main,       \* how many daemons are started, and how it went on
  shutdown,   \* shutdown_event
  stopFlag,   \* stop_flag of each daemon
  worker,     \* the thread of __loop
  monitor,    \* the thread of __check_shutdown
  left,       \* calls of multithread left in the trigger
  nested,     \* a thread of the pool that waits for a pool of its own
  mailing     \* the configuration names the sender and the receivers

events == <<shutdown, stopFlag>>
trigger == <<left, nested>>
vars == <<main, events, worker, monitor, trigger, mailing>>

(* "handled": the signal handlers are registered, run_daemons has returned *)
(* and the interpreter waits for the other threads.  "failed": run logs    *)
(* the exception and that it exits; "aborted": an interrupt came first.    *)
MainLabels == {"starting", "handled", "failed", "aborted"}
WorkerLabels == {"unborn", "delay", "wait", "task", "trigger", "pool", "failing", "done"}

TypeOK ==
  /\ main \in [at : 1 .. Len(Daemon) + 1, label : MainLabels]
  /\ shutdown \in BOOLEAN /\ stopFlag \in [Name -> BOOLEAN]
  /\ worker \in [Name -> WorkerLabels]
  /\ monitor \in [Name -> {"unborn", "watch", "done"}]
  /\ left \in [Name -> 0 .. Sections]
  /\ nested \in [Name -> {"no", "runs", "lost"}]
  /\ mailing \in BOOLEAN
-----------------------------------------------------------------------------
Init ==
  /\ main = [at |-> 1, label |-> "starting"]
  /\ shutdown = FALSE /\ stopFlag = [d \in Name |-> FALSE]
  /\ worker = [d \in Name |-> "unborn"] /\ monitor = [d \in Name |-> "unborn"]
  /\ left = [d \in Name |-> 0] /\ nested = [d \in Name |-> "no"]
  /\ mailing \in BOOLEAN

Turn(d) == Daemon[main.at] = d
Starting == main.label = "starting" /\ main.at <= Len(Daemon)

(* Daemon.run: two threads, one after the other.                           *)
StartWorker(d) ==
  /\ Starting /\ Turn(d) /\ worker[d] = "unborn"
  /\ worker' = [worker EXCEPT ![d] = "delay"]
  /\ UNCHANGED <<main, events, monitor, trigger, mailing>>

StartMonitor(d) ==
  /\ Starting /\ Turn(d) /\ worker[d] # "unborn"
  /\ monitor' = [monitor EXCEPT ![d] = "watch"]
  /\ main' = [main EXCEPT !.at = @ + 1]
  /\ UNCHANGED <<events, worker, trigger, mailing>>

(* The trigger or the daemon cannot be initialised.                        *)
StartFails(d) ==
  /\ Starting /\ Turn(d) /\ worker[d] = "unborn"
  /\ main' = [main EXCEPT !.label = "failed"]
  /\ UNCHANGED <<events, worker, monitor, trigger, mailing>>

RegisterHandlers ==
  /\ main = [at |-> Len(Daemon) + 1, label |-> "starting"]
  /\ main' = [main EXCEPT !.label = "handled"]
  /\ UNCHANGED <<events, worker, monitor, trigger, mailing>>

(* SIGTERM or SIGINT; before the handlers are there, SIGINT is raised in   *)
(* the main thread and SIGTERM ends everything, which is not modelled.     *)
Signal ==
  \/ /\ main.label = "handled"
     /\ shutdown' = TRUE
     /\ UNCHANGED <<main, stopFlag, worker, monitor, trigger, mailing>>
  \/ /\ main.label = "starting"
     /\ main' = [main EXCEPT !.label = "aborted"]
     /\ UNCHANGED <<events, worker, monitor, trigger, mailing>>
-----------------------------------------------------------------------------
Goto(d, l) == worker' = [worker EXCEPT ![d] = l]

(* __graceful_delay looks at stop_flag every second.                       *)
DelayStopsNever(d) == FALSE                                         \* mutant
DelayStops(d) == stopFlag[d]

LeaveDelay(d) ==
  /\ worker[d] = "delay" /\ (d \notin Delayed \/ DelayStops(d))
  /\ Goto(d, "wait")
  /\ UNCHANGED <<main, events, monitor, trigger, mailing>>

(* It ends; it may also ask for a negative sleep, which raises outside of  *)
(* the loop's try: the thread is gone.                                     *)
EndDelay(d) ==
  /\ worker[d] = "delay" /\ d \in Delayed
  /\ Goto(d, "wait") \/ Goto(d, "done")
  /\ UNCHANGED <<main, events, monitor, trigger, mailing>>

(* stop_flag.wait(interval): set, or the interval is over.                 *)
StopLoop(d) ==
  /\ worker[d] = "wait" /\ stopFlag[d]
  /\ Goto(d, "done")
  /\ UNCHANGED <<main, events, monitor, trigger, mailing>>

EndWait(d) ==
  /\ worker[d] = "wait" /\ ~ stopFlag[d]
  /\ Goto(d, "task")
  /\ UNCHANGED <<main, events, monitor, trigger, mailing>>

(* The task has a result, and the trigger starts, or it has none.          *)
Task(d) ==
  /\ worker[d] = "task"
  /\ \/ /\ Goto(d, "trigger")
        /\ \E n \in IF d \in Pooled THEN 0 .. Sections ELSE {0} :
             left' = [left EXCEPT ![d] = n]
     \/ Goto(d, "wait") /\ UNCHANGED left
  /\ UNCHANGED <<main, events, monitor, nested, mailing>>

(* send_email raises an EmailError, which is logged, for what it cannot    *)
(* send.  What it looks up in the configuration is read outside of its     *)
(* try, has no default and is not checked at the start: without it a       *)
(* KeyError leaves the handler and the loop, and the thread is gone.       *)
AfterMail == IF mailing THEN "wait" ELSE "done"

(* TimeExhausted, CallFailedError and HighGasError are mailed and the loop *)
(* goes on.                                                                *)
AfterWarningStops(d) == [stopFlag EXCEPT ![d] = TRUE]               \* mutant
AfterWarning(d) == stopFlag

Trigger(d) ==
  /\ worker[d] = "trigger"
  /\ \/ /\ left[d] > 0 /\ Goto(d, "pool")
        /\ \E n \in {"no", "runs"} : nested' = [nested EXCEPT ![d] = n]
        /\ UNCHANGED <<left, stopFlag>>
     \/ /\ left[d] = 0 /\ Goto(d, "wait")
        /\ UNCHANGED <<trigger, stopFlag>>
     \/ /\ Goto(d, AfterMail)
        /\ left' = [left EXCEPT ![d] = 0] /\ stopFlag' = AfterWarning(d)
        /\ UNCHANGED nested
     \/ /\ Goto(d, "failing")
        /\ left' = [left EXCEPT ![d] = 0]
        /\ UNCHANGED <<nested, stopFlag>>
  /\ UNCHANGED <<main, shutdown, monitor, mailing>>

(* A call in the pool waits for a pool of its own and sees the shutdown:   *)
(* KeyboardInterrupt is not an Exception, the thread dies and nobody ever  *)
(* gets its result.                                                        *)
NestedInterrupt(d) ==
  /\ nested[d] = "runs" /\ shutdown
  /\ nested' = [nested EXCEPT ![d] = "lost"]
  /\ UNCHANGED <<main, events, worker, monitor, left, mailing>>

LeavePool(d, l) ==
  /\ Goto(d, l)
  /\ nested' = [nested EXCEPT ![d] = "no"]

LeftCountsUp(d) == left[d] + 1                                      \* mutant
LeftThen(d) == left[d] - 1

(* multithread: all results, an exception or a result that does not come   *)
(* for a minute, or the shutdown is seen before one of the results; then   *)
(* KeyboardInterrupt ends this thread too.                                 *)
Pool(d) ==
  /\ worker[d] = "pool"
  /\ \/ /\ nested[d] # "lost"
        /\ LeavePool(d, "trigger")
        /\ left' = [left EXCEPT ![d] = LeftThen(d)]
     \/ LeavePool(d, "failing") /\ left' = [left EXCEPT ![d] = 0]
     \/ shutdown /\ LeavePool(d, "done") /\ left' = [left EXCEPT ![d] = 0]
  /\ UNCHANGED <<main, events, monitor, mailing>>

(* Any other exception: a mail, and after it shutdown_event; the loop goes *)
(* on until the monitor sets stop_flag.                                    *)
AfterFailureGoesOn == shutdown                                      \* mutant
AfterFailure == TRUE

Fail(d) ==
  /\ worker[d] = "failing"
  /\ shutdown' = IF mailing THEN AfterFailure ELSE shutdown
  /\ Goto(d, AfterMail)
  /\ UNCHANGED <<main, stopFlag, monitor, trigger, mailing>>

(* __check_shutdown.                                                       *)
Monitor(d) ==
  /\ monitor[d] = "watch" /\ (stopFlag[d] \/ shutdown)
  /\ stopFlag' = [stopFlag EXCEPT ![d] = TRUE]
  /\ monitor' = [monitor EXCEPT ![d] = "done"]
  /\ UNCHANGED <<main, shutdown, worker, trigger, mailing>>
-----------------------------------------------------------------------------
Start(d) == StartWorker(d) \/ StartMonitor(d)
Run(d) ==
  LeaveDelay(d) \/ StopLoop(d) \/ Task(d) \/ Trigger(d) \/ Pool(d) \/ Fail(d)
Timer(d) == EndDelay(d) \/ EndWait(d)

Next ==
  \/ RegisterHandlers \/ Signal
  \/ \E d \in Name :
       \/ Start(d) \/ StartFails(d) \/ Run(d) \/ Timer(d)
       \/ NestedInterrupt(d) \/ Monitor(d)

Spec == Init /\ [][Next]_vars

(* Every thread that can run does; nothing is assumed of the timers.       *)
FairSpec ==
  /\ Spec /\ WF_vars(RegisterHandlers)
  /\ \A d \in Name : WF_vars(Start(d)) /\ WF_vars(Run(d)) /\ WF_vars(Monitor(d))
-----------------------------------------------------------------------------
(* An interrupt between the two starts of Daemon.run leaves a worker that  *)
(* nobody ever stops; the properties are about the other cases.            *)
Unwatched(d) == main.label = "aborted" /\ monitor[d] = "unborn"
Ended ==
  /\ main.label # "starting"
  /\ \A d \in Name : worker[d] \in {"unborn", "done"} \/ Unwatched(d)

(* A shutdown ends every worker, be it in its initial delay, between two   *)
(* iterations, in a trigger, or waiting for a pool that lost a thread to   *)
(* the shutdown.                                                           *)
ShutdownEnds == shutdown ~> Ended

(* An unhandled exception in one daemon stops all of them ("Geoscope       *)
(* Stopped: all daemons have stopped"), if it can be mailed: if not, that  *)
(* daemon alone is gone.                                                   *)
FailureStopsAll == \A d \in Name : worker[d] = "failing" /\ mailing ~> Ended

(* A daemon without an initial delay never dies alone, unless the          *)
(* configuration cannot be mailed from: whenever its worker is gone the    *)
(* whole process is shutting down.                                         *)
NoLoneDeath == mailing => \A d \in Name \ Delayed : worker[d] = "done" => shutdown
=============================================================================
