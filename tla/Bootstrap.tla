----------------------------- MODULE Bootstrap -----------------------------
(***************************************************************************)
(* postgres.rs, bootstrap: every test makes sure that the bookkeeping      *)
(* tables are there before it registers.  It looks without a lock first;   *)
(* only when a table is missing does it open a transaction, take the       *)
(* bootstrap lock, look again, and create what is missing.  The lock is    *)
(* the transaction's and goes with it, and the DDL shows when it commits.  *)
(*                                                                         *)
(* Labels: look -> [begin -> lock -> look_again -> [create] -> commit] ->  *)
(* ready                                                                   *)
(***************************************************************************)
EXTENDS FiniteSets

CONSTANTS
  Tasks,    \* the tests that start
  Tables,   \* runs, databases, templates
  None,     \* nobody
  Mortal,   \* the tasks whose process may be killed
  Faulty    \* the tasks whose statements may fail

ASSUME BootstrapAssumption ==
  /\ None \notin Tasks
  /\ Mortal \subseteq Tasks
  /\ Faulty \subseteq Tasks

VARIABLES
  tables,    \* the tables everybody sees
  created,   \* created[t]: what t's open transaction has created
  holder,    \* whose transaction has the bootstrap lock
  pc

vars == <<tables, created, holder, pc>>

Ended  == {"ready", "failed", "crashed"}
InTx   == {"lock", "look_again", "create", "commit"}
Labels == {"look", "begin"} \cup InTx \cup Ended

TypeOK ==
  /\ tables \subseteq Tables
  /\ created \in [Tasks -> SUBSET Tables]
  /\ holder \in Tasks \cup {None}
  /\ pc \in [Tasks -> Labels]

(* Whatever tables an earlier version or somebody's DROP left.              *)
Init ==
  /\ tables \in SUBSET Tables
  /\ created = [t \in Tasks |-> {}]
  /\ holder = None
  /\ pc = [t \in Tasks |-> "look"]

Goto(t, from, to) == pc[t] = from /\ pc' = [pc EXCEPT ![t] = to]

BookkeepingExists == tables = Tables

Look(t) ==
  /\ Goto(t, "look", IF BookkeepingExists THEN "ready" ELSE "begin")
  /\ UNCHANGED <<tables, created, holder>>

Begin(t) ==
  /\ Goto(t, "begin", "lock")
  /\ UNCHANGED <<tables, created, holder>>

(* Mutant: everybody gets the lock.                                         *)
LockNothing(t) ==
  /\ Goto(t, "lock", "look_again")
  /\ UNCHANGED <<tables, created, holder>>

LockBootstrap(t) ==
  /\ Goto(t, "lock", "look_again")
  /\ holder = None
  /\ holder' = t
  /\ UNCHANGED <<tables, created>>

LookAgain(t) ==
  /\ Goto(t, "look_again", IF BookkeepingExists THEN "commit" ELSE "create")
  /\ UNCHANGED <<tables, created, holder>>

(* Mutant: a table at a time, each seen at once.                            *)
CreateOneByOne(t) ==
  /\ pc[t] = "create"
  /\ \E table \in Tables \ tables : tables' = tables \cup {table}
  /\ pc' = [pc EXCEPT ![t] = IF tables' = Tables THEN "commit" ELSE "create"]
  /\ UNCHANGED <<created, holder>>

CreateTables(t) ==
  /\ Goto(t, "create", "commit")
  /\ created' = [created EXCEPT ![t] = Tables \ tables]
  /\ UNCHANGED <<tables, holder>>

(* Mutant: the transaction is dropped, not committed.                       *)
CommitNothing(t) ==
  /\ Goto(t, "commit", "ready")
  /\ created' = [created EXCEPT ![t] = {}]
  /\ holder' = IF holder = t THEN None ELSE holder
  /\ UNCHANGED tables

(* Mutant: a lock of the session, not of the transaction.                   *)
CommitKeepsLock(t) ==
  /\ Goto(t, "commit", "ready")
  /\ tables' = tables \cup created[t]
  /\ created' = [created EXCEPT ![t] = {}]
  /\ UNCHANGED holder

Commit(t) ==
  /\ Goto(t, "commit", "ready")
  /\ tables' = tables \cup created[t]
  /\ created' = [created EXCEPT ![t] = {}]
  /\ holder' = IF holder = t THEN None ELSE holder

(* An error leaves by `?`.  The transaction dropped there only queues its   *)
(* ROLLBACK, which nobody sends: the connection is dropped next.            *)
Fail(t) ==
  /\ t \in Faulty
  /\ pc[t] \notin Ended
  /\ pc' = [pc EXCEPT ![t] = "failed"]
  /\ UNCHANGED <<tables, created, holder>>

Crash(t) ==
  /\ t \in Mortal
  /\ pc[t] \notin Ended
  /\ pc' = [pc EXCEPT ![t] = "crashed"]
  /\ UNCHANGED <<tables, created, holder>>

(* The server notices on its own time that a session has ended: what it did *)
(* not commit is undone, and the lock is free.                              *)
Reap(t) ==
  /\ pc[t] \in {"failed", "crashed"}
  /\ created[t] # {} \/ holder = t
  /\ created' = [created EXCEPT ![t] = {}]
  /\ holder' = IF holder = t THEN None ELSE holder
  /\ UNCHANGED <<tables, pc>>

TaskStep(t) ==
  \/ Look(t) \/ Begin(t) \/ LockBootstrap(t) \/ LookAgain(t)
  \/ CreateTables(t) \/ Commit(t)

Terminating == (\A t \in Tasks : pc[t] \in Ended) /\ UNCHANGED vars

Next ==
  \/ \E t \in Tasks : TaskStep(t) \/ Fail(t) \/ Crash(t) \/ Reap(t)
  \/ Terminating

Spec == Init /\ [][Next]_vars

(* Statements are answered and ended sessions noticed.                      *)
Fairness == \A t \in Tasks : WF_vars(TaskStep(t)) /\ WF_vars(Reap(t))

FairSpec == Spec /\ Fairness

-----------------------------------------------------------------------------
(* Who goes on to register finds all the tables.                            *)
ReadyHasTables == \A t \in Tasks : pc[t] = "ready" => tables = Tables

(* No two transactions create the tables at once: CREATE TABLE IF NOT       *)
(* EXISTS of a table that another transaction is creating is an error, and  *)
(* a test that had nothing to do with it would fail.                        *)
OneCreator ==
  \A t, u \in Tasks :
    /\ pc[t] \in {"create", "commit"} /\ pc[u] \in {"create", "commit"} => t = u
    /\ pc[t] = "create" => created[u] = {} /\ tables # Tables

(* Nobody sees some of the missing tables and not the others.               *)
TablesAppearTogether == [][tables' = Tables]_tables

(* Every test gets past bootstrap, also when the one that holds the lock is *)
(* killed or fails.                                                         *)
EveryBootstrapEnds == \A t \in Tasks : <>(pc[t] \in Ended)
=============================================================================
