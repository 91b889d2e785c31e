--------------------------- MODULE DaemonsProofs ---------------------------
(***************************************************************************)
(* For any number of daemons, with or without pools and delays: the types  *)
(* of the threads' state, and that no daemon without an initial delay dies *)
(* while the process goes on, if its alerts can be mailed.                 *)
(***************************************************************************)
EXTENDS Daemons, TLAPS

(* Only a shutdown sets a stop flag.                                       *)
FlagsFollowShutdown == \A d \in Name : stopFlag[d] => shutdown

(* A worker waits for a pool that is still to be counted.                  *)
PoolsCounted == \A d \in Name : worker[d] = "pool" => left[d] > 0

IInv == TypeOK /\ FlagsFollowShutdown /\ PoolsCounted /\ NoLoneDeath

LEMMA InitIInv == Init => IInv
<1> SUFFICES ASSUME Init PROVE IInv
  OBVIOUS
<1>1. main \in [at : 1 .. Len(Daemon) + 1, label : MainLabels]
  BY DaemonAssumption DEF Init, MainLabels
<1>2. left \in [Name -> 0 .. Sections]
  BY DaemonAssumption DEF Init
<1>3. worker \in [Name -> WorkerLabels]
  BY DEF Init, WorkerLabels
<1>4. QED
  BY <1>1, <1>2, <1>3 DEF Init, IInv, TypeOK, FlagsFollowShutdown, PoolsCounted, NoLoneDeath

(* Starting a daemon.                                                      *)
LEMMA StartIInv ==
  ASSUME IInv, NEW d \in Name, Start(d) \/ StartFails(d)
  PROVE  IInv'
<1> USE DEF IInv, TypeOK, FlagsFollowShutdown, PoolsCounted, NoLoneDeath, events, trigger
<1>1. CASE StartWorker(d)
  BY <1>1 DEF StartWorker, WorkerLabels
<1>2. CASE StartMonitor(d)
  <2>1. main' \in [at : 1 .. Len(Daemon) + 1, label : MainLabels]
    <3>1. main.at \in 1 .. Len(Daemon) /\ Len(Daemon) \in Nat /\ main.label \in MainLabels
      BY <1>2, DaemonAssumption DEF StartMonitor, Starting
    <3>2. main' = [at |-> main.at + 1, label |-> main.label]
      BY <1>2 DEF StartMonitor
    <3>3. main.at + 1 \in 1 .. Len(Daemon) + 1
      BY ONLY <3>1
    <3>4. QED
      BY <3>1, <3>2, <3>3
  <2>2. monitor' \in [Name -> {"unborn", "watch", "done"}]
    BY <1>2 DEF StartMonitor
  <2>3. QED
    BY <1>2, <2>1, <2>2 DEF StartMonitor
<1>3. CASE StartFails(d)
  BY <1>3 DEF StartFails, MainLabels
<1>4. QED
  BY <1>1, <1>2, <1>3 DEF Start

(* The main thread, after them.                                            *)
LEMMA MainIInv ==
  ASSUME IInv, RegisterHandlers \/ Signal
  PROVE  IInv'
<1> USE DEF IInv, TypeOK, FlagsFollowShutdown, PoolsCounted, NoLoneDeath, events, trigger
<1>1. main' \in [at : 1 .. Len(Daemon) + 1, label : MainLabels]
  <2>1. CASE RegisterHandlers
    BY <2>1 DEF RegisterHandlers, MainLabels
  <2>2. CASE Signal
    BY <2>2 DEF Signal, MainLabels
  <2>3. QED
    BY <2>1, <2>2
<1>2. UNCHANGED <<stopFlag, worker, monitor, trigger, mailing>>
  BY DEF RegisterHandlers, Signal
<1>3. (shutdown => shutdown') /\ shutdown' \in BOOLEAN
  BY DEF RegisterHandlers, Signal
<1>4. QED
  BY <1>1, <1>2, <1>3

(* What the steps of one worker have in common: it moves, it may raise the *)
(* shutdown, and where it ends the process is shutting down, it had an     *)
(* initial delay, or there was no mailing.                                 *)
Moves(d) ==
  /\ \E l \in WorkerLabels, n \in 0 .. Sections :
       /\ Goto(d, l) /\ left' = [left EXCEPT ![d] = n]
       /\ l = "done" => shutdown \/ d \in Delayed \/ ~ mailing
       /\ l = "pool" => n > 0
  /\ UNCHANGED shutdown \/ shutdown' = TRUE
  /\ \E c \in {"no", "runs", "lost"} : nested' = [nested EXCEPT ![d] = c]
  /\ UNCHANGED <<main, stopFlag, monitor, mailing>>

LEMMA MovesIInv ==
  ASSUME IInv, NEW d \in Name, Moves(d)
  PROVE  IInv'
<1>1. PICK l \in WorkerLabels, n \in 0 .. Sections :
         /\ Goto(d, l) /\ left' = [left EXCEPT ![d] = n]
         /\ l = "done" => shutdown \/ d \in Delayed \/ ~ mailing
         /\ l = "pool" => n > 0
  BY DEF Moves
<1>2. shutdown' \in BOOLEAN /\ (shutdown => shutdown')
  <2>1. shutdown \in BOOLEAN
    BY DEF IInv, TypeOK
  <2>2. UNCHANGED shutdown \/ shutdown' = TRUE
    BY DEF Moves
  <2>3. QED
    BY <2>1, <2>2
<1>3. TypeOK'
  <2>1. worker' \in [Name -> WorkerLabels]
    BY <1>1 DEF IInv, TypeOK, Goto
  <2>2. left' \in [Name -> 0 .. Sections]
    BY <1>1 DEF IInv, TypeOK
  <2>3. nested' \in [Name -> {"no", "runs", "lost"}]
    BY DEF Moves, IInv, TypeOK
  <2>4. QED
    BY <1>2, <2>1, <2>2, <2>3 DEF Moves, IInv, TypeOK
<1>4. FlagsFollowShutdown'
  BY <1>2 DEF Moves, IInv, FlagsFollowShutdown
<1>5. PoolsCounted'
  BY <1>1 DEF IInv, TypeOK, PoolsCounted, Goto
<1>6. NoLoneDeath'
  BY <1>1, <1>2 DEF Moves, IInv, TypeOK, NoLoneDeath, Goto
<1>7. QED
  BY <1>3, <1>4, <1>5, <1>6 DEF IInv

(* A variable that a step leaves alone is also one that it sets to what it *)
(* is.                                                                     *)
LEMMA Keeps ==
  ASSUME IInv, NEW d \in Name
  PROVE  /\ left = [left EXCEPT ![d] = left[d]] /\ left[d] \in 0 .. Sections
         /\ nested = [nested EXCEPT ![d] = nested[d]]
         /\ nested[d] \in {"no", "runs", "lost"}
BY DEF IInv, TypeOK

(* A worker between two triggers.                                          *)
LEMMA LoopMoves ==
  ASSUME IInv, NEW d \in Name, LeaveDelay(d) \/ StopLoop(d) \/ Task(d) \/ Timer(d)
  PROVE  Moves(d)
<1> USE Keeps DEF Moves, events, trigger, WorkerLabels
<1>1. CASE LeaveDelay(d)
  BY <1>1 DEF LeaveDelay
<1>2. CASE StopLoop(d)
  BY <1>2 DEF StopLoop, IInv, FlagsFollowShutdown
<1>3. CASE Task(d)
  BY <1>3, DaemonAssumption DEF Task
<1>4. CASE EndDelay(d)
  BY <1>4 DEF EndDelay
<1>5. CASE EndWait(d)
  BY <1>5 DEF EndWait
<1>6. QED
  BY <1>1, <1>2, <1>3, <1>4, <1>5 DEF Timer

(* A worker in its trigger: it leaves a pool for good only on a shutdown.  *)
LEMMA TriggerMoves ==
  ASSUME IInv, NEW d \in Name, Trigger(d) \/ Pool(d) \/ Fail(d)
  PROVE  Moves(d)
<1> USE Keeps DEF Moves, events, trigger, WorkerLabels
<1>1. CASE Trigger(d)
  BY <1>1, DaemonAssumption DEF Trigger, AfterWarning, AfterMail
<1>2. CASE Pool(d)
  <2>1. left[d] > 0 /\ left[d] - 1 \in 0 .. Sections
    BY <1>2, DaemonAssumption DEF Pool, IInv, TypeOK, PoolsCounted
  <2>2. QED
    BY <1>2, <2>1, DaemonAssumption DEF Pool, LeavePool, LeftThen
<1>3. CASE Fail(d)
  BY <1>3 DEF Fail, AfterFailure, AfterMail
<1>4. QED
  BY <1>1, <1>2, <1>3

(* The threads beside a worker: one of its pool, and its monitor.          *)
LEMMA BesideIInv ==
  ASSUME IInv, NEW d \in Name, NestedInterrupt(d) \/ Monitor(d)
  PROVE  IInv'
<1> USE DEF IInv, TypeOK, FlagsFollowShutdown, PoolsCounted, NoLoneDeath, events, trigger
<1>1. CASE NestedInterrupt(d)
  BY <1>1 DEF NestedInterrupt
<1>2. CASE Monitor(d)
  <2>1. shutdown
    BY <1>2 DEF Monitor
  <2>2. stopFlag' \in [Name -> BOOLEAN]
    BY <1>2 DEF Monitor
  <2>3. QED
    BY <1>2, <2>1, <2>2 DEF Monitor
<1>3. QED
  BY <1>1, <1>2

LEMMA NextIInv == IInv /\ [Next]_vars => IInv'
<1> SUFFICES ASSUME IInv, [Next]_vars PROVE IInv'
  OBVIOUS
<1>1. CASE RegisterHandlers \/ Signal
  BY <1>1, MainIInv
<1>2. ASSUME NEW d \in Name, Start(d) \/ StartFails(d) PROVE IInv'
  BY <1>2, StartIInv
<1>3. ASSUME NEW d \in Name, Run(d) \/ Timer(d) PROVE IInv'
  <2>1. Moves(d)
    BY <1>3, LoopMoves, TriggerMoves DEF Run
  <2>2. QED
    BY <2>1, MovesIInv
<1>4. ASSUME NEW d \in Name, NestedInterrupt(d) \/ Monitor(d) PROVE IInv'
  BY <1>4, BesideIInv
<1>5. CASE UNCHANGED vars
  BY <1>5 DEF vars, events, trigger, IInv, TypeOK, FlagsFollowShutdown, PoolsCounted, NoLoneDeath
<1>6. QED
  BY <1>1, <1>2, <1>3, <1>4, <1>5 DEF Next

LEMMA SpecIInv == Spec => []IInv
BY InitIInv, NextIInv, PTL DEF Spec

(* The state of the threads has its type, and a trigger never leaves more  *)
(* pools than it called: src/classes/daemon.py, src/utils/thread.py.       *)
THEOREM ThreadsTyped == Spec => []TypeOK
<1>1. IInv => TypeOK
  BY DEF IInv
<1>2. QED
  BY SpecIInv, <1>1, PTL

(* A worker that has no initial delay ends only when the whole process is  *)
(* shutting down, provided that there is somebody to mail to:              *)
(* Daemon.__loop, send_email and multithread.                              *)
THEOREM NeverAlone == Spec => []NoLoneDeath
<1>1. IInv => NoLoneDeath
  BY DEF IInv
<1>2. QED
  BY SpecIInv, <1>1, PTL
=============================================================================
