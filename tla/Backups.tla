------------------------------ MODULE Backups ------------------------------
(***************************************************************************)
(* The backups of the database: the files in the backup directory, the     *)
(* processes that write, delete and restore them, and the database that    *)
(* the slot daemon goes on writing meanwhile.  They are made by            *)
(* DatabaseTrigger (src/triggers/time/database_trigger.py) and by runs of  *)
(* geoscope backup (src/commands/backup.py), deleted by the cleanup of     *)
(* both and by geoscope reset --backups, and read by geoscope restore      *)
(* (src/commands/restore.py); the work is done in src/classes/database.py. *)
(*                                                                         *)
(* The processes know nothing of each other.  The content of a database is *)
(* the number of the commit that made it.                                  *)
(***************************************************************************)
EXTENDS Integers, FiniteSets

CONSTANTS
  Daemon,       \* the database daemon
  Command,      \* runs of geoscope backup and of geoscope reset --backups
  DaemonKeep,   \* how many files the daemon keeps
  KeepOptions,  \* ... and geoscope backup --keep, 0: it cleans nothing up
  MinKeep,      \* none that cleans up keeps less
  Pages,        \* pages of the database
  None, Torn,   \* no file, and a content that no commit has made
  MaxTime,      \* bound on the clock, in seconds
  MaxSetBacks,  \* bound on how often the local time is set back
  MaxCommits, MaxFaults, MaxRestores

Actor == {Daemon} \cup Command
Stamp == 1 .. MaxTime
Version == 0 .. MaxCommits

ASSUME ActorAssumption == Daemon \notin Command
ASSUME KeepAssumption ==
  /\ MinKeep \in Nat \ {0}
  /\ DaemonKeep \in Nat /\ DaemonKeep >= MinKeep
  /\ KeepOptions \subseteq Nat /\ \A k \in KeepOptions : k = 0 \/ k >= MinKeep
ASSUME SizeAssumption ==
  /\ Pages \in Nat \ {0} /\ MaxTime \in Nat \ {0}
  /\ MaxSetBacks \in Nat /\ MaxCommits \in Nat /\ MaxFaults \in Nat /\ MaxRestores \in Nat
ASSUME ContentAssumption ==
  /\ None # Torn /\ None \notin Version /\ Torn \notin Version /\ None \notin Stamp

VARIABLES
  clock,      \* datetime.now()
  db,         \* the database in use
  file,       \* the backup directory
  \* each process
  pc,
  keep,       \* how many files its cleanup will keep
  target,     \* the file being written; None when somebody has unlinked it
  copied,     \* pages copied so far
  seen,       \* ... and the commits they come from
  todo,       \* the files still to be deleted
  restoring,  \* the content geoscope restore is copying
  \* history and bounds
  kept,       \* a backup has been finished, and not been wiped or spoilt since
  commits, faults, setBacks, restores

copy == <<keep, target, copied, seen>>
bounds == <<commits, faults, setBacks, restores>>
vars == <<clock, db, file, pc, copy, todo, restoring, kept, bounds>>

Labels == {"idle", "open", "copy", "list", "remove", "stopped"}
Content == Version \cup {Torn}

TypeOK ==
  /\ clock \in Stamp /\ db \in Content
  /\ file \in [Stamp -> Content \cup {None}]
  /\ pc \in [Actor -> Labels]
  /\ keep \in [Actor -> KeepOptions \cup {0, DaemonKeep}]
  /\ target \in [Actor -> Stamp \cup {None}]
  /\ copied \in [Actor -> 0 .. Pages] /\ seen \in [Actor -> SUBSET Content]
  /\ todo \in [Actor -> SUBSET Stamp]
  /\ restoring \in Content \cup {None} /\ kept \in BOOLEAN
  /\ commits \in 0 .. MaxCommits /\ faults \in 0 .. MaxFaults
  /\ setBacks \in 0 .. MaxSetBacks /\ restores \in 0 .. MaxRestores
-----------------------------------------------------------------------------
Init ==
  /\ clock = 1 /\ db = 0
  /\ file = [t \in Stamp |-> None]
  /\ pc = [a \in Actor |-> "idle"]
  /\ keep = [a \in Actor |-> 0]
  /\ target = [a \in Actor |-> None]
  /\ copied = [a \in Actor |-> 0] /\ seen = [a \in Actor |-> {}]
  /\ todo = [a \in Actor |-> {}]
  /\ restoring = None /\ kept = FALSE
  /\ commits = 0 /\ faults = 0 /\ setBacks = 0 /\ restores = 0

(* The *.db files whose name is a timestamp, complete or not.              *)
Present == {t \in Stamp : file[t] # None}

Goto(a, l) == pc' = [pc EXCEPT ![a] = l]
Running == pc[Daemon] # "stopped"

(* What a process knew is gone when it returns, raises or dies.            *)
EndCopy(a) ==
  /\ target' = [target EXCEPT ![a] = None]
  /\ copied' = [copied EXCEPT ![a] = 0] /\ seen' = [seen EXCEPT ![a] = {}]

Leave(a, l) ==
  /\ Goto(a, l) /\ EndCopy(a)
  /\ keep' = [keep EXCEPT ![a] = 0]
  /\ todo' = [todo EXCEPT ![a] = {}]

(* An exception in the trigger reaches Daemon.__loop, which stops          *)
(* geoscope; the commands log it and end.                                  *)
End(a) == Leave(a, "idle")
Fail(a) == Leave(a, IF a = Daemon THEN "stopped" ELSE "idle")

Fault == faults < MaxFaults /\ faults' = faults + 1
-----------------------------------------------------------------------------
Tick ==
  /\ clock < MaxTime
  /\ clock' = clock + 1
  /\ UNCHANGED <<db, file, pc, copy, todo, restoring, kept, bounds>>

(* The local time is set back, as at the end of summer time.               *)
SetBack ==
  /\ clock > 1 /\ setBacks < MaxSetBacks
  /\ \E t \in Stamp : t < clock /\ clock' = t
  /\ setBacks' = setBacks + 1
  /\ UNCHANGED <<db, file, pc, copy, todo, restoring, kept, commits, faults, restores>>

(* The slot daemon commits.  SQLite starts a copy anew when another        *)
(* connection has changed the database between two of its steps.           *)
CopiedOn == copied                                                  \* mutant
CopiedAfterCommit == [a \in Actor |-> 0]
SeenAfterCommit == [a \in Actor |-> IF CopiedAfterCommit[a] = 0 THEN {} ELSE seen[a]]

Commit ==
  /\ Running /\ db # Torn /\ commits < MaxCommits
  /\ commits' = commits + 1 /\ db' = commits + 1
  /\ copied' = CopiedAfterCommit /\ seen' = SeenAfterCommit
  /\ UNCHANGED <<clock, file, pc, keep, target, todo, restoring, kept, faults, setBacks, restores>>
-----------------------------------------------------------------------------
(* The trigger fires, or the command is given: the name of the file.       *)
Begin(a) ==
  /\ pc[a] = "idle" /\ restoring = None
  /\ Goto(a, "open")
  /\ \E k \in IF a = Daemon THEN {DaemonKeep} ELSE KeepOptions : keep' = [keep EXCEPT ![a] = k]
  /\ target' = [target EXCEPT ![a] = clock]
  /\ UNCHANGED <<clock, db, file, copied, seen, todo, restoring, kept, bounds>>

(* The first step of the copy creates the file, empty, and takes its lock; *)
(* a file that is being written is waited for.  One that is there already  *)
(* keeps its content until the copy is complete.                           *)
Locked(a) == \E b \in Actor : pc[b] = "copy" /\ target[b] = target[a]

Open(a) ==
  /\ pc[a] = "open" /\ ~ Locked(a)
  /\ Goto(a, "copy")
  /\ file' = [file EXCEPT ![target[a]] = IF @ = None THEN Torn ELSE @]
  /\ UNCHANGED <<clock, db, copy, todo, restoring, kept, bounds>>

(* connection.backup with pages = 1.                                       *)
CopyPast(a) ==                                                      \* mutant
  /\ pc[a] = "copy" /\ copied[a] <= Pages
  /\ copied' = [copied EXCEPT ![a] = @ + 1]
  /\ seen' = [seen EXCEPT ![a] = @ \cup {db}]
  /\ UNCHANGED <<clock, db, file, pc, keep, target, todo, restoring, kept, bounds>>
CopyPage(a) ==
  /\ pc[a] = "copy" /\ copied[a] < Pages
  /\ copied' = [copied EXCEPT ![a] = @ + 1]
  /\ seen' = [seen EXCEPT ![a] = @ \cup {db}]
  /\ UNCHANGED <<clock, db, file, pc, keep, target, todo, restoring, kept, bounds>>

(* Pages of one commit make a database.                                    *)
Joined(S) == IF \E v \in Version : S = {v} THEN CHOOSE v \in Version : S = {v} ELSE Torn

(* kept, once c is in the file t.  A list of files to be deleted that was  *)
(* made before the directory was wiped may name what comes after it.       *)
KeptWith(t, c) ==
  IF c \in Version THEN kept \/ \A a \in Actor : todo[a] = {}
  ELSE kept /\ file[t] \notin Version

(* backup returns; what follows is a cleanup, unless the command has no    *)
(* --keep (None or 0).  A file that was unlinked meanwhile is gone, and    *)
(* SQLite may have noticed.                                                *)
Finish(a) ==
  /\ pc[a] = "copy" /\ copied[a] = Pages
  /\ \/ /\ target[a] # None
        /\ file' = [file EXCEPT ![target[a]] = Joined(seen[a])]
        /\ kept' = KeptWith(target[a], Joined(seen[a]))
     \/ target[a] = None /\ UNCHANGED <<file, kept>>
  /\ \/ keep[a] # 0 /\ Goto(a, "list") /\ EndCopy(a) /\ UNCHANGED <<keep, todo>>
     \/ keep[a] = 0 /\ End(a)
  /\ UNCHANGED <<clock, db, restoring, bounds>>

FinishNowhere(a) ==
  /\ pc[a] = "copy" /\ copied[a] = Pages /\ target[a] = None
  /\ Fail(a)
  /\ UNCHANGED <<clock, db, file, restoring, kept, bounds>>
-----------------------------------------------------------------------------
(* geoscope reset --backups: cleanup with keep = 0.                        *)
Wipe(a) ==
  /\ pc[a] = "idle" /\ restoring = None
  /\ Goto(a, "list")
  /\ UNCHANGED <<clock, db, file, copy, todo, restoring, kept, bounds>>

(* cleanup: K is what it keeps of the files it finds, sorted by name.      *)
NewestUnsorted(K) == TRUE                                           \* mutant
Newest(K) == \A t \in K, u \in Present \ K : u < t

List(a) ==
  /\ pc[a] = "list"
  /\ \/ Cardinality(Present) <= keep[a] /\ End(a)
     \/ /\ Cardinality(Present) > keep[a]
        /\ \E K \in SUBSET Present :
             /\ Cardinality(K) = keep[a] /\ Newest(K)
             /\ todo' = [todo EXCEPT ![a] = Present \ K]
        /\ Goto(a, "remove")
        /\ UNCHANGED copy
  /\ UNCHANGED <<clock, db, file, restoring, kept, bounds>>

Oldest(a, t) == \A u \in todo[a] : t <= u

(* os.remove, oldest first; a process that still writes the file loses it. *)
Unlink(t) == [a \in Actor |-> IF pc[a] = "copy" /\ target[a] = t THEN None ELSE target[a]]
Remove(a) ==
  /\ pc[a] = "remove" /\ todo[a] # {}
  /\ \E t \in todo[a] :
       /\ Oldest(a, t)
       /\ file[t] # None
       /\ file' = [file EXCEPT ![t] = None]
       /\ target' = Unlink(t)
       /\ todo' = [todo EXCEPT ![a] = @ \ {t}]
  /\ kept' = (kept /\ keep[a] # 0)
  /\ UNCHANGED <<clock, db, pc, keep, copied, seen, restoring, bounds>>

(* Somebody else has deleted it: FileNotFoundError, a CleanupError.        *)
RemoveFails(a) ==
  /\ pc[a] = "remove"
  /\ \E t \in todo[a] : Oldest(a, t) /\ file[t] = None
  /\ Fail(a)
  /\ UNCHANGED <<clock, db, file, restoring, kept, bounds>>

CleanedUp(a) ==
  /\ pc[a] = "remove" /\ todo[a] = {}
  /\ End(a)
  /\ UNCHANGED <<clock, db, file, restoring, kept, bounds>>
-----------------------------------------------------------------------------
(* An error of SQLite or of the file system, or the end of the process.    *)
(* The file it was writing is incomplete, or has its old content if there  *)
(* was one and no page has reached it yet.                                 *)
Crash(a) ==
  /\ pc[a] \notin {"idle", "stopped"} /\ Fault
  /\ \/ UNCHANGED <<file, kept>>
     \/ /\ pc[a] = "copy" /\ target[a] # None
        /\ file' = [file EXCEPT ![target[a]] = Torn]
        /\ kept' = KeptWith(target[a], Torn)
  /\ Fail(a)
  /\ UNCHANGED <<clock, db, restoring, commits, setBacks, restores>>

Restart ==
  /\ ~ Running /\ restoring = None
  /\ Goto(Daemon, "idle")
  /\ UNCHANGED <<clock, db, file, copy, todo, restoring, kept, bounds>>

StopDaemon ==
  /\ pc[Daemon] = "idle"
  /\ Goto(Daemon, "stopped")
  /\ UNCHANGED <<clock, db, file, copy, todo, restoring, kept, bounds>>

(* geoscope restore, while geoscope is not running and no other command    *)
(* is: locate_backup, without a timestamp, then copyfile.                  *)
Latest(t) == t \in Present /\ \A u \in Present : u <= t

Restore ==
  /\ ~ Running /\ \A a \in Command : pc[a] = "idle"
  /\ restoring = None /\ restores < MaxRestores
  /\ \E t \in Stamp : Latest(t) /\ restoring' = file[t]
  /\ db' = Torn /\ restores' = restores + 1
  /\ UNCHANGED <<clock, file, pc, copy, todo, kept, commits, faults, setBacks>>

RestoreEnds ==
  /\ restoring # None
  /\ db' = restoring /\ restoring' = None
  /\ UNCHANGED <<clock, file, pc, copy, todo, kept, bounds>>

RestoreDies ==
  /\ restoring # None
  /\ restoring' = None
  /\ UNCHANGED <<clock, db, file, pc, copy, todo, kept, bounds>>
-----------------------------------------------------------------------------
Backup(a) == Open(a) \/ CopyPage(a) \/ Finish(a) \/ FinishNowhere(a)
Cleanup(a) == List(a) \/ Remove(a) \/ RemoveFails(a) \/ CleanedUp(a)

Next ==
  \/ Tick \/ SetBack \/ Commit \/ Restart \/ StopDaemon
  \/ Restore \/ RestoreEnds \/ RestoreDies
  \/ \E a \in Command : Wipe(a)
  \/ \E a \in Actor : Begin(a) \/ Backup(a) \/ Cleanup(a) \/ Crash(a)

Spec == Init /\ [][Next]_vars
-----------------------------------------------------------------------------
(* What a finished backup holds is the database as it is when it finishes, *)
(* not a mixture of the commits made while it was copied page by page.     *)
FinishedIsCurrent ==
  [][\A t \in Stamp : file'[t] # file[t] => file'[t] \in {db, Torn, None}]_vars

(* cleanup "keeping only the latest backups": whoever deletes a file, and  *)
(* however old its list of files is, leaves MinKeep newer ones.            *)
Newer(t) == {u \in Present : u > t}
NewestStay ==
  [][\A a \in Actor : Remove(a) /\ keep[a] # 0 =>
       \A t \in Stamp :
         kept /\ file[t] # None /\ file'[t] = None => Cardinality(Newer(t)) >= MinKeep]_vars

(* Backups are for recovery: once one is finished there is one to restore, *)
(* until somebody wipes them, unless MinKeep interrupted ones have taken   *)
(* the places of all that are kept.                                        *)
Whole == {t \in Stamp : file[t] \in Version}
Broken == {t \in Stamp : file[t] = Torn}
Recoverable == kept => Whole # {} \/ Cardinality(Broken) >= MinKeep
=============================================================================
