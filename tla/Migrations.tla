----------------------------- MODULE Migrations -----------------------------
(***************************************************************************)
(* The migration runner (db/migrate.ts): several processes, started by     *)
(* deployments of different images, bring one database up or roll it back. *)
(* A file is numbered by its place in compareMigrations' order; 1 is       *)
(* the file that creates the table the runner keeps its books in. An image *)
(* gives the version of each file it ships, or None; a file and its        *)
(* down file are shipped together.                                         *)
(***************************************************************************)
EXTENDS Naturals, SequencesExt

CONSTANTS
  Runners,    \* processes
  Highest,       \* the highest numbered file
  Images,     \* what deployments ship: functions from Files to versions or None
  Legacy,     \* the checksum NULL of a row older than the column
  None

Files == 1 .. Highest
Bootstrap == 1
Versions == (UNION {{image[f] : f \in Files} : image \in Images}) \ {None}
Commands == {"up", "look", "rollback"}

VARIABLES
  schema,    \* the version of each file whose statements are in effect
  table,     \* the checksum recorded for each file
  lock,      \* the session that holds the advisory lock
  runs       \* what each process is doing

vars == <<schema, table, lock, runs>>

Run == [stage   : {"idle", "waiting", "locked", "reading", "working"},
        command : Commands, steps : 0 .. Highest, image : Images,
        todo    : BoundedSeq(Files, Highest)]

TypeOK ==
  /\ schema \in [Files -> Versions \cup {None}]
  /\ table \in [Files -> Versions \cup {Legacy, None}]
  /\ lock \in Runners \cup {None}
  /\ runs \in [Runners -> Run]

NotStarted == [stage |-> "idle", command |-> "up", steps |-> 0,
               image |-> CHOOSE i \in Images : TRUE, todo |-> <<>>]

(* A new database, or one migrated to some point before checksums were     *)
(* recorded.                                                               *)
Init ==
  \E image \in Images, n \in 0 .. Highest :
    /\ schema = [f \in Files |-> IF f <= n THEN image[f] ELSE None]
    /\ table = [f \in Files |-> IF f <= n /\ image[f] # None THEN Legacy ELSE None]
    /\ lock = None
    /\ runs = [r \in Runners |-> NotStarted]

(* Files in the order of their numbers, and from the newest to the oldest. *)
InOrder(list) == \A i, j \in DOMAIN list : i < j => list[i] < list[j]

Upward(files) ==
  CHOOSE list \in [1 .. Cardinality(files) -> files] :
    InOrder(list) /\ {list[i] : i \in DOMAIN list} = files

Downward(files) == Reverse(Upward(files))

Recorded == {f \in Files : table[f] # None}

(* The connection returns to the pool and the process ends; unlocking is   *)
(* in the finally clause, and the end of a session frees its lock.         *)
Released(r) == IF lock = r THEN None ELSE lock
End(r) == lock' = Released(r) /\ runs' = [runs EXCEPT ![r] = NotStarted]

GoTo(r, stage) == runs' = [runs EXCEPT ![r].stage = stage]

Start(r) ==
  /\ runs[r].stage = "idle"
  /\ \E command \in Commands, image \in Images, steps \in 0 .. Highest :
       /\ steps = 0 <=> command # "rollback"
       /\ runs' = [runs EXCEPT ![r] = [stage |-> "waiting", command |-> command,
                                       steps |-> steps, image |-> image, todo |-> <<>>]]
  /\ UNCHANGED <<schema, table, lock>>

(* Faulty: two runners at once. *)
StartAtOnce(r) ==
  /\ runs[r].stage = "waiting"
  /\ lock' = r
  /\ GoTo(r, "locked")
  /\ UNCHANGED <<schema, table>>

AcquireLock(r) ==
  /\ runs[r].stage = "waiting"
  /\ lock = None
  /\ lock' = r
  /\ GoTo(r, "locked")
  /\ UNCHANGED <<schema, table>>

(* One transaction creates the table if it is missing and records the      *)
(* bootstrap file, with its checksum unless one is there already.          *)
EnsureTable(r) ==
  /\ runs[r].stage = "locked"
  /\ LET shipped == runs[r].image[Bootstrap]
     IN /\ schema' = [schema EXCEPT ![Bootstrap] = IF @ = None THEN shipped ELSE @]
        /\ table' = [table EXCEPT ![Bootstrap] = IF @ \in {None, Legacy} THEN shipped ELSE @]
  /\ GoTo(r, "reading")
  /\ UNCHANGED lock

(* Recorded files that the image ships in another version.                 *)
Drifted(image) ==
  {f \in Recorded : table[f] # Legacy /\ image[f] \notin {None, table[f]}}

Pending(image) == Upward({f \in Files : image[f] # None} \ Recorded)

Newest(steps) ==
  LET files == Downward(Recorded)
  IN IF steps < Len(files) THEN SubSeq(files, 1, steps) ELSE files

(* A status report or a dry run prints what it read and stops.             *)
Read(r) ==
  /\ runs[r].stage = "reading"
  /\ LET run == runs[r]
         todo == CASE run.command = "rollback" -> Newest(run.steps)
                   [] run.command = "up"       -> Pending(run.image)
                   [] OTHER                    -> <<>>
         refused == run.command = "up" /\ Drifted(run.image) # {}
     IN IF refused \/ todo = <<>>
          THEN End(r)
          ELSE /\ runs' = [runs EXCEPT ![r].stage = "working", ![r].todo = todo]
               /\ UNCHANGED lock
  /\ UNCHANGED <<schema, table>>

Working(r, command) ==
  runs[r].stage = "working" /\ runs[r].command = command

(* The rest of the list, or the end of the run.                            *)
Continue(r) ==
  IF Len(runs[r].todo) = 1
    THEN End(r)
    ELSE runs' = [runs EXCEPT ![r].todo = Tail(@)] /\ UNCHANGED lock

(* The statements and the row of one file, in one transaction. The row is  *)
(* inserted under the table's primary key.                                 *)
ApplyMigration(r) ==
  /\ Working(r, "up")
  /\ LET file == Head(runs[r].todo)
     IN /\ table[Bootstrap] # None
        /\ table[file] = None
        /\ schema' = [schema EXCEPT ![file] = runs[r].image[file]]
        /\ table' = [table EXCEPT ![file] = runs[r].image[file]]
  /\ Continue(r)

(* The row goes first and the down file second, in one transaction; the    *)
(* bootstrap's down file drops the table with every row in it.             *)
RollbackMigration(r) ==
  /\ Working(r, "rollback")
  /\ LET file == Head(runs[r].todo)
     IN /\ runs[r].image[file] # None
        /\ table[Bootstrap] # None
        /\ schema' = [schema EXCEPT ![file] = None]
        /\ table' = [f \in Files |-> IF file \in {f, Bootstrap} THEN None ELSE table[f]]
  /\ Continue(r)

(* The image has no down file for what a later image applied.              *)
SkipRollback(r) ==
  /\ Working(r, "rollback")
  /\ runs[r].image[Head(runs[r].todo)] = None
  /\ Continue(r)
  /\ UNCHANGED <<schema, table>>

(* A transaction fails and the run with it, or the process is killed:      *)
(* either way the open transaction is rolled back.                         *)
Fail(r) ==
  /\ runs[r].stage # "idle"
  /\ End(r)
  /\ UNCHANGED <<schema, table>>

Next ==
  \E r \in Runners :
    \/ Start(r) \/ AcquireLock(r) \/ EnsureTable(r) \/ Read(r)
    \/ ApplyMigration(r) \/ RollbackMigration(r) \/ SkipRollback(r) \/ Fail(r)

Spec == Init /\ [][Next]_vars

-----------------------------------------------------------------------------
(* A migration runs only when every earlier file of the runner's image is  *)
(* recorded and no file recorded is another version than the image's,      *)
(* whatever other processes apply or roll back meanwhile (runPending under *)
(* withAdvisoryLock).                                                      *)
AppliedInOrder ==
  \A f \in Files \ {Bootstrap} :
    table[f] = None /\ table'[f] # None =>
      \E r \in Runners :
        /\ runs'[r] # runs[r]
        /\ \A g \in 1 .. f - 1 : runs[r].image[g] # None => table[g] # None
        /\ Drifted(runs[r].image) = {}

(* A recorded migration is in effect, in the recorded version: rows and    *)
(* statements come and go together, through failures, kills and the        *)
(* dropping of the table (applyMigration, rollback).                       *)
RecordedIsInEffect ==
  \A f \in Recorded : schema[f] # None /\ table[f] \in {Legacy, schema[f]}
=============================================================================
