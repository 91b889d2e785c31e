--------------------------- MODULE BackupsProofs ---------------------------
(***************************************************************************)
(* For any number of commands beside the daemon, any keep and any size of  *)
(* the database: what a finished backup holds, which files a cleanup may   *)
(* delete, and that there is a backup to restore.                          *)
(*                                                                         *)
(* A process deletes from a list that may be old.  The argument is that    *)
(* each list has MinKeep keepers, files newer than all it names, at any    *)
(* time: when another process deletes one of them, the keepers of that     *)
(* process are newer still and take over.                                  *)
(***************************************************************************)
EXTENDS Backups, TLAPS, FiniteSetTheorems

Keepers(a) == {u \in Present : \A t \in todo[a] : t < u}
KeepersStay ==
  kept => \A a \in Actor : keep[a] # 0 /\ todo[a] # {} => Cardinality(Keepers(a)) >= MinKeep

(* A process has a list only while it deletes, and copies only what is     *)
(* current.                                                                *)
ListsAreUsed == \A a \in Actor : pc[a] # "remove" => todo[a] = {}
IdleKeepsNothing == \A a \in Actor : pc[a] \in {"idle", "stopped"} => keep[a] = 0
CopiedIsCurrent == \A a \in Actor : seen[a] = IF copied[a] = 0 THEN {} ELSE {db}

(* Nobody else is at work while a backup is restored.                      *)
RestoreIsAlone == restoring # None => \A a \in Actor : pc[a] \in {"idle", "stopped"}
CopiesAreAtWork == \A a \in Actor : copied[a] # 0 => pc[a] = "copy"

IInv ==
  /\ TypeOK /\ ListsAreUsed /\ IdleKeepsNothing /\ CopiedIsCurrent
  /\ RestoreIsAlone /\ CopiesAreAtWork /\ KeepersStay /\ Recoverable

LEMMA StampsAreFinite ==
  /\ IsFiniteSet(Stamp) /\ \A S \in SUBSET Stamp : IsFiniteSet(S) /\ Cardinality(S) \in Nat
  /\ \A S \in SUBSET Stamp : \A T \in SUBSET S : Cardinality(T) <= Cardinality(S)
<1>1. IsFiniteSet(Stamp)
  BY SizeAssumption, FS_Interval DEF Stamp
<1>2. \A S \in SUBSET Stamp : IsFiniteSet(S)
  BY <1>1, FS_Subset
<1>3. QED
  BY <1>1, <1>2, FS_Subset, FS_CardinalityType

LEMMA InitIInv == Init => IInv
<1> SUFFICES ASSUME Init PROVE IInv
  OBVIOUS
<1>1. TypeOK
  <2>1. /\ 1 \in Stamp /\ 0 \in Version /\ 0 \in 0 .. Pages
        /\ 0 \in 0 .. MaxCommits /\ 0 \in 0 .. MaxFaults /\ 0 \in 0 .. MaxSetBacks
        /\ 0 \in 0 .. MaxRestores
    BY SizeAssumption DEF Stamp, Version
  <2>2. QED
    BY <2>1 DEF Init, TypeOK, Labels, Content
<1>2. ListsAreUsed /\ IdleKeepsNothing /\ CopiedIsCurrent /\ CopiesAreAtWork
  BY DEF Init, ListsAreUsed, IdleKeepsNothing, CopiedIsCurrent, CopiesAreAtWork
<1>3. RestoreIsAlone /\ KeepersStay /\ Recoverable
  BY DEF Init, RestoreIsAlone, KeepersStay, Recoverable
<1>4. QED
  BY <1>1, <1>2, <1>3 DEF IInv
-----------------------------------------------------------------------------
(* The types.                                                              *)
LEMMA LeaveTyped ==
  ASSUME TypeOK, NEW a \in Actor, NEW l \in Labels, Leave(a, l)
  PROVE  /\ pc' \in [Actor -> Labels] /\ keep' \in [Actor -> KeepOptions \cup {0, DaemonKeep}]
         /\ target' \in [Actor -> Stamp \cup {None}]
         /\ copied' \in [Actor -> 0 .. Pages] /\ seen' \in [Actor -> SUBSET Content]
         /\ todo' \in [Actor -> SUBSET Stamp]
BY SizeAssumption DEF TypeOK, Leave, EndCopy, Goto

LEMMA FailTyped ==
  ASSUME TypeOK, NEW a \in Actor, Fail(a) \/ End(a)
  PROVE  /\ pc' \in [Actor -> Labels] /\ keep' \in [Actor -> KeepOptions \cup {0, DaemonKeep}]
         /\ target' \in [Actor -> Stamp \cup {None}]
         /\ copied' \in [Actor -> 0 .. Pages] /\ seen' \in [Actor -> SUBSET Content]
         /\ todo' \in [Actor -> SUBSET Stamp]
<1>1. PICK l \in Labels : Leave(a, l)
  BY DEF Fail, End, Labels
<1>2. QED
  BY <1>1, LeaveTyped

LEMMA WorldTyped ==
  ASSUME TypeOK, Tick \/ SetBack \/ Commit \/ Restart \/ StopDaemon
                 \/ Restore \/ RestoreEnds \/ RestoreDies
  PROVE  TypeOK'
<1> USE SizeAssumption DEF TypeOK, copy, bounds
<1>1. CASE Tick
  BY <1>1 DEF Tick, Stamp
<1>2. CASE SetBack
  BY <1>2 DEF SetBack
<1>3. CASE Commit
  BY <1>3 DEF Commit, CopiedAfterCommit, SeenAfterCommit, Content, Version
<1>4. CASE Restart \/ StopDaemon
  BY <1>4 DEF Restart, StopDaemon, Goto, Labels
<1>5. CASE Restore
  BY <1>5 DEF Restore, Latest, Content
<1>6. CASE RestoreEnds \/ RestoreDies
  BY <1>6 DEF RestoreEnds, RestoreDies
<1>7. QED
  BY <1>1, <1>2, <1>3, <1>4, <1>5, <1>6

LEMMA ProcessTyped ==
  ASSUME TypeOK, NEW a \in Actor,
         Begin(a) \/ Backup(a) \/ Wipe(a) \/ Cleanup(a) \/ Crash(a)
  PROVE  TypeOK'
<1> USE SizeAssumption DEF copy, bounds
<1>1. CASE Begin(a)
  BY <1>1 DEF TypeOK, Begin, Goto, Labels
<1>2. CASE Open(a)
  BY <1>2 DEF TypeOK, Open, Goto, Labels, Content
<1>3. CASE CopyPage(a)
  BY <1>3 DEF TypeOK, CopyPage
<1>4. CASE Finish(a)
  <2>1. /\ pc' \in [Actor -> Labels] /\ keep' \in [Actor -> KeepOptions \cup {0, DaemonKeep}]
        /\ target' \in [Actor -> Stamp \cup {None}]
        /\ copied' \in [Actor -> 0 .. Pages] /\ seen' \in [Actor -> SUBSET Content]
        /\ todo' \in [Actor -> SUBSET Stamp]
    <3>1. CASE End(a)
      BY <3>1, FailTyped
    <3>2. CASE Goto(a, "list") /\ EndCopy(a) /\ UNCHANGED <<keep, todo>>
      BY <3>2 DEF TypeOK, Goto, EndCopy, Labels
    <3>3. QED
      BY <1>4, <3>1, <3>2 DEF Finish
  <2>2. Joined(seen[a]) \in Content
    BY DEF Joined, Content
  <2>3. file' \in [Stamp -> Content \cup {None}] /\ kept' \in BOOLEAN
    BY <1>4, <2>2 DEF TypeOK, Finish, KeptWith
  <2>4. QED
    BY <1>4, <2>1, <2>3 DEF Finish, TypeOK
<1>5. CASE FinishNowhere(a) \/ RemoveFails(a) \/ CleanedUp(a)
  BY <1>5, FailTyped DEF TypeOK, FinishNowhere, RemoveFails, CleanedUp
<1>6. CASE Wipe(a)
  BY <1>6 DEF TypeOK, Wipe, Goto, Labels
<1>7. CASE List(a)
  <2>1. CASE End(a)
    BY <1>7, <2>1, FailTyped DEF TypeOK, List
  <2>2. CASE \E K : todo' = [todo EXCEPT ![a] = Present \ K] /\ Goto(a, "remove") /\ UNCHANGED copy
    BY <1>7, <2>2 DEF TypeOK, List, Goto, Labels, Present
  <2>3. QED
    BY <1>7, <2>1, <2>2 DEF List
<1>8. CASE Remove(a)
  BY <1>8 DEF TypeOK, Remove, Unlink
<1>9. CASE Crash(a)
  <2>1. file' \in [Stamp -> Content \cup {None}] /\ kept' \in BOOLEAN
    BY <1>9 DEF TypeOK, Crash, KeptWith, Content
  <2>2. QED
    BY <1>9, <2>1, FailTyped DEF TypeOK, Crash, Fault
<1>10. QED
  BY <1>1, <1>2, <1>3, <1>4, <1>5, <1>6, <1>7, <1>8, <1>9 DEF Backup, Cleanup
-----------------------------------------------------------------------------
(* The order of a process's steps.                                         *)
Order == ListsAreUsed /\ IdleKeepsNothing /\ CopiedIsCurrent /\ RestoreIsAlone /\ CopiesAreAtWork

LEMMA LeaveOrder ==
  ASSUME TypeOK, Order, restoring = None, NEW a \in Actor, Fail(a) \/ End(a),
         UNCHANGED <<db, restoring>>
  PROVE  Order'
<1> USE DEF TypeOK, Fail, End, Leave, EndCopy, Goto
<1>1. ListsAreUsed' /\ IdleKeepsNothing' /\ RestoreIsAlone' /\ CopiesAreAtWork'
  BY DEF Order, ListsAreUsed, IdleKeepsNothing, RestoreIsAlone, CopiesAreAtWork
<1>2. CopiedIsCurrent'
  BY DEF Order, CopiedIsCurrent
<1>3. QED
  BY <1>1, <1>2 DEF Order

LEMMA WorldOrder ==
  ASSUME TypeOK, Order, Tick \/ SetBack \/ Commit \/ Restart \/ StopDaemon
                        \/ Restore \/ RestoreEnds \/ RestoreDies
  PROVE  Order'
<1> USE DEF Order, copy
<1>1. CASE Tick \/ SetBack
  BY <1>1 DEF Tick, SetBack, ListsAreUsed, IdleKeepsNothing, CopiedIsCurrent, RestoreIsAlone,
              CopiesAreAtWork
<1>2. CASE Commit
  <2>1. \A a \in Actor : copied'[a] = 0 /\ seen'[a] = {}
    BY <1>2 DEF Commit, CopiedAfterCommit, SeenAfterCommit
  <2>2. QED
    BY <1>2, <2>1 DEF Commit, ListsAreUsed, IdleKeepsNothing, CopiedIsCurrent, RestoreIsAlone,
                      CopiesAreAtWork
<1>3. CASE Restart
  <2>1. Daemon \in Actor
    BY DEF Actor
  <2>2. ListsAreUsed' /\ CopiesAreAtWork'
    BY <1>3, <2>1 DEF Restart, Goto, TypeOK, Running, ListsAreUsed, CopiesAreAtWork
  <2>3. IdleKeepsNothing'
    BY <1>3, <2>1 DEF Restart, Goto, TypeOK, Running, IdleKeepsNothing
  <2>4. QED
    BY <1>3, <2>2, <2>3 DEF Restart, CopiedIsCurrent, RestoreIsAlone
<1>4. CASE StopDaemon
  <2>1. ListsAreUsed' /\ CopiesAreAtWork' /\ IdleKeepsNothing' /\ RestoreIsAlone'
    BY <1>4 DEF StopDaemon, Goto, TypeOK, ListsAreUsed, CopiesAreAtWork, IdleKeepsNothing,
                RestoreIsAlone
  <2>2. QED
    BY <1>4, <2>1 DEF StopDaemon, CopiedIsCurrent
<1>5. CASE Restore
  <2>1. \A a \in Actor : pc[a] \in {"idle", "stopped"}
    BY <1>5 DEF Restore, Running, Actor
  <2>2. \A a \in Actor : copied[a] = 0 /\ seen[a] = {}
    BY <2>1 DEF CopiesAreAtWork, CopiedIsCurrent
  <2>3. QED
    BY <1>5, <2>1, <2>2 DEF Restore, ListsAreUsed, IdleKeepsNothing, CopiedIsCurrent,
                            RestoreIsAlone, CopiesAreAtWork
<1>6. CASE RestoreEnds \/ RestoreDies
  <2>1. \A a \in Actor : copied[a] = 0 /\ seen[a] = {}
    BY <1>6 DEF RestoreEnds, RestoreDies, RestoreIsAlone, CopiesAreAtWork, CopiedIsCurrent
  <2>2. QED
    BY <1>6, <2>1 DEF RestoreEnds, RestoreDies, ListsAreUsed, IdleKeepsNothing, CopiedIsCurrent,
                      RestoreIsAlone, CopiesAreAtWork
<1>7. QED
  BY <1>1, <1>2, <1>3, <1>4, <1>5, <1>6

LEMMA ProcessOrder ==
  ASSUME TypeOK, Order, NEW a \in Actor,
         Begin(a) \/ Backup(a) \/ Wipe(a) \/ Cleanup(a) \/ Crash(a)
  PROVE  Order'
<1> USE DEF copy
<1>1. restoring = None /\ UNCHANGED <<db, restoring>>
  BY DEF Order, RestoreIsAlone, Begin, Backup, Wipe, Cleanup, Crash, Open, CopyPage, Finish,
         FinishNowhere, List, Remove, RemoveFails, CleanedUp
<1>2. CASE Fail(a) \/ End(a)
  BY <1>1, <1>2, LeaveOrder
<1>3. CASE Begin(a) \/ Open(a) \/ Wipe(a)
  <2>1. ListsAreUsed' /\ IdleKeepsNothing' /\ CopiesAreAtWork'
    BY <1>3 DEF Order, TypeOK, Begin, Open, Wipe, Goto, ListsAreUsed, IdleKeepsNothing,
                CopiesAreAtWork
  <2>2. QED
    BY <1>1, <1>3, <2>1 DEF Begin, Open, Wipe, Order, CopiedIsCurrent, RestoreIsAlone
<1>4. CASE CopyPage(a)
  <2>1. ListsAreUsed' /\ IdleKeepsNothing' /\ CopiesAreAtWork'
    BY <1>4 DEF Order, TypeOK, CopyPage, ListsAreUsed, IdleKeepsNothing, CopiesAreAtWork
  <2>2. CopiedIsCurrent'
    <3>1. copied'[a] = copied[a] + 1 /\ copied[a] \in 0 .. Pages /\ seen'[a] = seen[a] \cup {db}
      BY <1>4 DEF TypeOK, CopyPage
    <3>2. seen[a] = IF copied[a] = 0 THEN {} ELSE {db}
      BY DEF Order, CopiedIsCurrent
    <3>3. copied'[a] # 0 /\ seen'[a] = {db}
      BY <3>1, <3>2, SizeAssumption
    <3>4. QED
      BY <1>4, <3>3 DEF Order, TypeOK, CopyPage, CopiedIsCurrent
  <2>3. QED
    BY <1>1, <2>1, <2>2 DEF Order, RestoreIsAlone
<1>5. CASE Finish(a) /\ Goto(a, "list") /\ EndCopy(a) /\ UNCHANGED <<keep, todo>>
  <2>1. ListsAreUsed' /\ IdleKeepsNothing' /\ CopiesAreAtWork'
    BY <1>5 DEF Order, TypeOK, Finish, Goto, EndCopy, ListsAreUsed, IdleKeepsNothing,
                CopiesAreAtWork
  <2>2. CopiedIsCurrent'
    BY <1>1, <1>5 DEF Order, TypeOK, EndCopy, CopiedIsCurrent
  <2>3. QED
    BY <1>1, <2>1, <2>2 DEF Order, RestoreIsAlone
<1>6. CASE List(a) /\ Goto(a, "remove") /\ UNCHANGED copy
  <2>1. \A b \in Actor : b # a => UNCHANGED <<pc[b], todo[b]>>
    BY <1>6 DEF TypeOK, List, Goto, End, Leave
  <2>2. pc'[a] = "remove"
    BY <1>6 DEF TypeOK, Goto
  <2>3. ListsAreUsed' /\ IdleKeepsNothing' /\ CopiesAreAtWork'
    BY <1>6, <2>1, <2>2 DEF Order, ListsAreUsed, IdleKeepsNothing, CopiesAreAtWork, List
  <2>4. QED
    BY <1>1, <1>6, <2>3 DEF Order, CopiedIsCurrent, RestoreIsAlone
<1>7. CASE Remove(a)
  <2>1. ListsAreUsed'
    BY <1>7 DEF Order, TypeOK, Remove, ListsAreUsed
  <2>2. QED
    BY <1>1, <1>7, <2>1 DEF Order, Remove, IdleKeepsNothing, CopiedIsCurrent, RestoreIsAlone,
                            CopiesAreAtWork
<1>8. QED
  BY <1>2, <1>3, <1>4, <1>5, <1>6, <1>7
     DEF Backup, Cleanup, Finish, FinishNowhere, List, RemoveFails, CleanedUp, Crash
-----------------------------------------------------------------------------
(* Files that stay or come, and lists that stay or are dropped, disturb no *)
(* keeper.                                                                 *)
Undisturbed ==
  /\ Present \subseteq Present'
  /\ \A a \in Actor : todo'[a] = {} \/ UNCHANGED <<todo[a], keep[a]>>
  /\ kept' => kept \/ \A a \in Actor : todo[a] = {}
  /\ (\A a \in Actor : todo[a] = {}) => \A a \in Actor : todo'[a] = {}

LEMMA UndisturbedKeepers ==
  ASSUME TypeOK, TypeOK', KeepersStay, Undisturbed
  PROVE  KeepersStay'
<1> SUFFICES ASSUME kept', NEW a \in Actor, keep'[a] # 0, todo'[a] # {}
             PROVE  Cardinality(Keepers(a)') >= MinKeep
  BY DEF KeepersStay
<1>1. UNCHANGED <<todo[a], keep[a]>> /\ kept
  BY DEF Undisturbed
<1>2. Cardinality(Keepers(a)) >= MinKeep
  BY <1>1 DEF KeepersStay
<1>3. Keepers(a) \subseteq Keepers(a)' /\ Keepers(a)' \subseteq Stamp
  BY <1>1 DEF Keepers, Undisturbed, Present
<1>4. QED
  BY <1>2, <1>3, StampsAreFinite, KeepAssumption

(* Two lists that meet: the keepers of the one that is worked off serve    *)
(* the other.                                                              *)
LEMMA RemoveKeepers ==
  ASSUME TypeOK, TypeOK', KeepersStay, NEW b \in Actor, Remove(b)
  PROVE  KeepersStay'
<1> SUFFICES ASSUME kept', NEW a \in Actor, keep'[a] # 0, todo'[a] # {}
             PROVE  Cardinality(Keepers(a)') >= MinKeep
  BY DEF KeepersStay
<1>1. kept /\ keep[b] # 0 /\ keep[a] # 0
  BY DEF Remove
<1>2. PICK t \in todo[b] : /\ file' = [file EXCEPT ![t] = None]
                           /\ todo' = [todo EXCEPT ![b] = @ \ {t}]
  BY DEF Remove
<1>3. /\ todo'[a] \subseteq todo[a] /\ t \in Stamp
      /\ \A x \in todo[a] \cup todo[b] : x \in Stamp /\ x \in Int
  <2>1. todo \in [Actor -> SUBSET Stamp]
    BY DEF TypeOK
  <2>2. todo'[a] \subseteq todo[a]
    BY <1>2, <2>1
  <2>3. todo[a] \subseteq Stamp /\ todo[b] \subseteq Stamp
    BY <2>1
  <2>4. Stamp \subseteq Int
    BY DEF Stamp
  <2>5. QED
    BY <1>2, <2>2, <2>3, <2>4
<1>4. Present' = Present \ {t}
  BY <1>2, <1>3 DEF TypeOK, Present
<1>5. Cardinality(Keepers(a)) >= MinKeep /\ Cardinality(Keepers(b)) >= MinKeep
  BY <1>1, <1>2, <1>3 DEF KeepersStay
<1>6. Keepers(a)' \subseteq Stamp
  BY DEF Keepers, Present
<1>7. CASE t \notin Keepers(a)
  <2>1. Keepers(a) \subseteq Keepers(a)'
    BY <1>3, <1>4, <1>7 DEF Keepers
  <2>2. QED
    BY <1>5, <1>6, <2>1, StampsAreFinite, KeepAssumption
<1>8. CASE t \in Keepers(a)
  <2>1. ASSUME NEW u \in Keepers(b) PROVE u \in Keepers(a)'
    <3>1. t < u /\ u \in Present /\ u \in Stamp /\ u \in Int /\ t \in Int
      BY <1>2, <1>3 DEF Keepers, Present, Stamp
    <3>2. \A x \in todo'[a] : x < u
      BY <1>3, <1>8, <3>1 DEF Keepers
    <3>3. QED
      BY <1>4, <3>1, <3>2 DEF Keepers
  <2>2. QED
    BY <1>5, <1>6, <2>1, StampsAreFinite, KeepAssumption
<1>9. QED
  BY <1>7, <1>8

LEMMA ListKeepers ==
  ASSUME TypeOK, TypeOK', KeepersStay, NEW b \in Actor, List(b)
  PROVE  KeepersStay'
<1> SUFFICES ASSUME kept', NEW a \in Actor, keep'[a] # 0, todo'[a] # {}
             PROVE  Cardinality(Keepers(a)') >= MinKeep
  BY DEF KeepersStay
<1>1. kept /\ Present' = Present
  BY DEF List, Present
<1>2. CASE UNCHANGED <<todo[a], keep[a]>>
  BY <1>1, <1>2 DEF KeepersStay, Keepers
<1>3. CASE ~ UNCHANGED <<todo[a], keep[a]>>
  <2>1. a = b /\ UNCHANGED keep
    BY <1>3 DEF TypeOK, List, End, Leave, copy
  <2>2. PICK K \in SUBSET Present : /\ Cardinality(K) = keep[b] /\ Newest(K)
                                    /\ todo' = [todo EXCEPT ![b] = Present \ K]
    BY <2>1, <1>3 DEF TypeOK, List, End, Leave, copy
  <2>3. keep[a] >= MinKeep
    BY <2>1, KeepAssumption DEF TypeOK
  <2>4. K \subseteq Keepers(a)' /\ Keepers(a)' \subseteq Stamp
    BY <1>1, <2>1, <2>2 DEF TypeOK, Keepers, Newest, Present
  <2>5. QED
    BY <2>1, <2>2, <2>3, <2>4, StampsAreFinite, KeepAssumption DEF TypeOK
<1>4. QED
  BY <1>2, <1>3
-----------------------------------------------------------------------------
(* What is whole and what is broken of the files that are there.           *)
LEMMA WholeOrBroken == TypeOK => Present = Whole \cup Broken
BY ContentAssumption DEF TypeOK, Present, Whole, Broken, Content

Covered ==
  kept' => \/ Whole' # {}
           \/ kept /\ Whole \subseteq Whole' /\ Broken \subseteq Broken'

LEMMA CoveredRecoverable ==
  ASSUME TypeOK, TypeOK', Recoverable, Covered
  PROVE  Recoverable'
<1>1. Broken' \subseteq Stamp
  BY DEF Broken
<1>2. QED
  BY <1>1, StampsAreFinite, KeepAssumption DEF Covered, Recoverable

LEMMA RemoveRecoverable ==
  ASSUME TypeOK, TypeOK', KeepersStay, Recoverable, NEW b \in Actor, Remove(b)
  PROVE  Recoverable'
<1> SUFFICES ASSUME kept', Whole' = {} PROVE Cardinality(Broken') >= MinKeep
  BY DEF Recoverable
<1>1. kept /\ keep[b] # 0 /\ todo[b] # {}
  BY DEF Remove
<1>2. PICK t \in todo[b] : file' = [file EXCEPT ![t] = None]
  BY DEF Remove
<1>3. Cardinality(Keepers(b)) >= MinKeep
  BY <1>1 DEF KeepersStay
<1>4. t \in Stamp /\ t \in Int /\ Present' = Present \ {t}
  BY <1>2 DEF TypeOK, Present, Stamp
<1>5. Keepers(b) \subseteq Present'
  BY <1>2, <1>4 DEF Keepers
<1>6. Present' = Broken'
  BY WholeOrBroken, ContentAssumption DEF TypeOK, Present, Whole, Broken, Content
<1>7. Broken' \subseteq Stamp
  BY DEF Broken
<1>8. QED
  BY <1>3, <1>5, <1>6, <1>7, StampsAreFinite, KeepAssumption
-----------------------------------------------------------------------------
(* The steps in turn.                                                      *)
LEMMA WorldFiles ==
  ASSUME IInv, TypeOK', Tick \/ SetBack \/ Commit \/ Restart \/ StopDaemon
                        \/ Restore \/ RestoreEnds \/ RestoreDies
  PROVE  KeepersStay' /\ Recoverable'
<1>1. UNCHANGED <<file, todo, keep, kept>>
  BY DEF Tick, SetBack, Commit, Restart, StopDaemon, Restore, RestoreEnds, RestoreDies, copy
<1>2. QED
  BY <1>1 DEF IInv, KeepersStay, Keepers, Present, Recoverable, Whole, Broken

(* A process that leaves drops its list.                                   *)
LEMMA LeaveLists ==
  ASSUME TypeOK, NEW a \in Actor, Fail(a) \/ End(a)
  PROVE  \A b \in Actor : todo'[b] = {} \/ UNCHANGED <<todo[b], keep[b]>>
BY DEF TypeOK, Fail, End, Leave

LEMMA FinishFiles ==
  ASSUME IInv, TypeOK', NEW a \in Actor, Finish(a)
  PROVE  KeepersStay' /\ Recoverable'
<1>1. \A b \in Actor : todo'[b] = {} \/ UNCHANGED <<todo[b], keep[b]>>
  BY LeaveLists DEF IInv, Finish
<1>2. (\A b \in Actor : todo[b] = {}) => \A b \in Actor : todo'[b] = {}
  BY DEF IInv, TypeOK, Finish, End, Leave
<1>3. CASE target[a] = None
  <2>1. UNCHANGED <<file, kept>>
    BY <1>3 DEF Finish
  <2>2. Undisturbed /\ Covered
    BY <1>1, <1>2, <2>1 DEF Undisturbed, Covered, Present, Whole, Broken
  <2>3. QED
    BY <2>2, UndisturbedKeepers, CoveredRecoverable DEF IInv
<1>4. CASE target[a] # None
  <2> DEFINE t == target[a]
             c == Joined(seen[a])
  <2>1. t \in Stamp /\ file' = [file EXCEPT ![t] = c] /\ kept' = KeptWith(t, c)
    BY <1>4 DEF IInv, TypeOK, Finish
  <2>2. c \in Content
    BY DEF Joined, Content
  <2>3. Undisturbed
    BY <1>1, <1>2, <2>1, <2>2, ContentAssumption
       DEF IInv, TypeOK, Undisturbed, KeptWith, Present, Content
  <2>4. Covered
    <3> HIDE DEF t, c
    <3>1. /\ file'[t] = c /\ \A u \in Stamp \ {t} : file'[u] = file[u]
      BY <2>1 DEF IInv, TypeOK
    <3>2. CASE c \in Version
      BY <2>1, <3>1, <3>2 DEF Covered, Whole
    <3>3. CASE c \notin Version
      <4>1. c = Torn /\ (kept' => kept /\ file[t] \notin Version)
        BY <2>1, <2>2, <3>3 DEF KeptWith, Content
      <4>2. QED
        BY <2>1, <3>1, <4>1 DEF Covered, Whole, Broken
    <3>4. QED
      BY <3>2, <3>3
  <2>5. QED
    BY <2>3, <2>4, UndisturbedKeepers, CoveredRecoverable DEF IInv
<1>5. QED
  BY <1>3, <1>4

LEMMA CrashFiles ==
  ASSUME IInv, TypeOK', NEW a \in Actor, Crash(a)
  PROVE  KeepersStay' /\ Recoverable'
<1>1. \A b \in Actor : todo'[b] = {} \/ UNCHANGED <<todo[b], keep[b]>>
  BY LeaveLists DEF IInv, Crash
<1>2. (\A b \in Actor : todo[b] = {}) => \A b \in Actor : todo'[b] = {}
  BY DEF IInv, TypeOK, Crash, Fail, Leave
<1>3. /\ kept' => kept /\ Whole \subseteq Whole' /\ Broken \subseteq Broken'
      /\ Present \subseteq Present'
  <2>1. CASE UNCHANGED <<file, kept>>
    BY <2>1 DEF Whole, Broken, Present
  <2>2. CASE ~ UNCHANGED <<file, kept>>
    BY <2>2, ContentAssumption
       DEF IInv, TypeOK, Crash, KeptWith, Whole, Broken, Present, Content
  <2>3. QED
    BY <2>1, <2>2
<1>4. Undisturbed /\ Covered
  BY <1>1, <1>2, <1>3 DEF Undisturbed, Covered
<1>5. QED
  BY <1>4, UndisturbedKeepers, CoveredRecoverable DEF IInv

LEMMA ProcessFiles ==
  ASSUME IInv, TypeOK', NEW a \in Actor,
         Begin(a) \/ Backup(a) \/ Wipe(a) \/ Cleanup(a) \/ Crash(a)
  PROVE  KeepersStay' /\ Recoverable'
<1>1. CASE Begin(a)
  <2>1. todo[a] = {} /\ UNCHANGED <<file, todo, kept>>
    BY <1>1 DEF Begin, IInv, ListsAreUsed
  <2>2. \A b \in Actor : todo'[b] = {} \/ UNCHANGED <<todo[b], keep[b]>>
    BY <1>1, <2>1 DEF Begin, IInv, TypeOK
  <2>3. Undisturbed /\ Covered
    BY <2>1, <2>2 DEF Undisturbed, Covered, Present, Whole, Broken
  <2>4. QED
    BY <2>3, UndisturbedKeepers, CoveredRecoverable DEF IInv
<1>2. CASE Open(a)
  <2>1. UNCHANGED <<todo, keep, kept>>
    BY <1>2 DEF Open, copy
  <2>2. Present \subseteq Present' /\ Whole \subseteq Whole' /\ Broken \subseteq Broken'
    BY <1>2, ContentAssumption DEF Open, IInv, TypeOK, Present, Whole, Broken, Content
  <2>3. Undisturbed /\ Covered
    BY <2>1, <2>2 DEF Undisturbed, Covered
  <2>4. QED
    BY <2>3, UndisturbedKeepers, CoveredRecoverable DEF IInv
<1>3. CASE CopyPage(a) \/ Wipe(a)
  <2>1. UNCHANGED <<file, todo, keep, kept>>
    BY <1>3 DEF CopyPage, Wipe, copy
  <2>2. QED
    BY <2>1 DEF IInv, KeepersStay, Keepers, Present, Recoverable, Whole, Broken
<1>4. CASE Finish(a)
  BY <1>4, FinishFiles
<1>5. CASE FinishNowhere(a) \/ RemoveFails(a) \/ CleanedUp(a)
  <2>1. UNCHANGED <<file, kept>> /\ (Fail(a) \/ End(a))
    BY <1>5 DEF FinishNowhere, RemoveFails, CleanedUp
  <2>2. (\A b \in Actor : todo[b] = {}) => \A b \in Actor : todo'[b] = {}
    BY <2>1 DEF IInv, TypeOK, Fail, End, Leave
  <2>3. Undisturbed /\ Covered
    BY <2>1, <2>2, LeaveLists DEF IInv, Undisturbed, Covered, Present, Whole, Broken
  <2>4. QED
    BY <2>3, UndisturbedKeepers, CoveredRecoverable DEF IInv
<1>6. CASE List(a)
  <2>1. UNCHANGED <<file, kept>>
    BY <1>6 DEF List
  <2>2. QED
    BY <1>6, <2>1, ListKeepers DEF IInv, Recoverable, Whole, Broken
<1>7. CASE Remove(a)
  BY <1>7, RemoveKeepers, RemoveRecoverable DEF IInv
<1>8. CASE Crash(a)
  BY <1>8, CrashFiles
<1>9. QED
  BY <1>1, <1>2, <1>3, <1>4, <1>5, <1>6, <1>7, <1>8 DEF Backup, Cleanup

LEMMA NextIInv == IInv /\ [Next]_vars => IInv'
<1> SUFFICES ASSUME IInv, [Next]_vars PROVE IInv'
  OBVIOUS
<1>1. CASE Tick \/ SetBack \/ Commit \/ Restart \/ StopDaemon
           \/ Restore \/ RestoreEnds \/ RestoreDies
  BY <1>1, WorldTyped, WorldOrder, WorldFiles DEF IInv, Order
<1>2. ASSUME NEW a \in Actor, Begin(a) \/ Backup(a) \/ Wipe(a) \/ Cleanup(a) \/ Crash(a)
      PROVE  IInv'
  BY <1>2, ProcessTyped, ProcessOrder, ProcessFiles DEF IInv, Order
<1>3. CASE UNCHANGED vars
  BY <1>3 DEF IInv, TypeOK, ListsAreUsed, IdleKeepsNothing, CopiedIsCurrent, RestoreIsAlone,
              CopiesAreAtWork, KeepersStay, Keepers, Recoverable, Present, Whole, Broken,
              vars, copy, bounds
<1>4. QED
  BY <1>1, <1>2, <1>3 DEF Next, Actor

LEMMA Invariance == Spec => []IInv
BY InitIInv, NextIInv, PTL DEF Spec
-----------------------------------------------------------------------------
(* The types of the files and of the processes' state.                     *)
THEOREM TypeCorrect == Spec => []TypeOK
<1>1. IInv => TypeOK
  BY DEF IInv
<1>2. QED
  BY Invariance, <1>1, PTL

(* There is a backup to restore, however many cleanups work at a time.     *)
THEOREM RecoverableAlways == Spec => []Recoverable
<1>1. IInv => Recoverable
  BY DEF IInv
<1>2. QED
  BY Invariance, <1>1, PTL

(* A cleanup, however old its list is, leaves MinKeep newer files.         *)
THEOREM NewestStayAlways == Spec => NewestStay
<1> DEFINE Stay ==
      \A a \in Actor : Remove(a) /\ keep[a] # 0 =>
        \A t \in Stamp :
          kept /\ file[t] # None /\ file'[t] = None => Cardinality(Newer(t)) >= MinKeep
<1>1. IInv /\ [Next]_vars => [Stay]_vars
  <2> SUFFICES ASSUME IInv, NEW a \in Actor, Remove(a), keep[a] # 0,
                      NEW t \in Stamp, kept, file[t] # None, file'[t] = None
               PROVE  Cardinality(Newer(t)) >= MinKeep
    OBVIOUS
  <2>1. t \in todo[a]
    BY DEF Remove, IInv, TypeOK
  <2>2. Cardinality(Keepers(a)) >= MinKeep
    BY <2>1 DEF IInv, KeepersStay
  <2>3. Keepers(a) \subseteq Newer(t) /\ Newer(t) \subseteq Stamp
    BY <2>1 DEF Keepers, Newer, Present, Stamp
  <2>4. QED
    BY <2>2, <2>3, StampsAreFinite, KeepAssumption
<1>2. QED
  BY <1>1, Invariance, PTL DEF Spec, NewestStay

(* A finished backup holds the database as it is when it finishes.         *)
THEOREM FinishedIsCurrentAlways == Spec => FinishedIsCurrent
<1> DEFINE Current == \A t \in Stamp : file'[t] # file[t] => file'[t] \in {db, Torn, None}
<1>1. IInv /\ [Next]_vars => [Current]_vars
  <2> SUFFICES ASSUME IInv, Next, NEW t \in Stamp, file'[t] # file[t]
               PROVE  file'[t] \in {db, Torn, None}
    OBVIOUS
  <2>1. PICK a \in Actor : Open(a) \/ Finish(a) \/ Remove(a) \/ Crash(a)
    BY DEF Next, Tick, SetBack, Commit, Restart, StopDaemon, Restore, RestoreEnds, RestoreDies,
           Wipe, Begin, Backup, Cleanup, CopyPage, FinishNowhere, List, RemoveFails, CleanedUp
  <2>2. CASE Open(a) \/ Remove(a) \/ Crash(a)
    BY <2>2 DEF IInv, TypeOK, Open, Remove, Crash
  <2>3. CASE Finish(a)
    <3>1. seen[a] = {db}
      BY <2>3, SizeAssumption DEF Finish, IInv, CopiedIsCurrent
    <3>2. Joined({db}) \in {db, Torn}
      BY DEF Joined
    <3>3. QED
      BY <2>3, <3>1, <3>2 DEF IInv, TypeOK, Finish
  <2>4. QED
    BY <2>1, <2>2, <2>3
<1>2. QED
  BY <1>1, Invariance, PTL DEF Spec, FinishedIsCurrent
=============================================================================
