-------------------------- MODULE BootstrapProofs --------------------------
(***************************************************************************)
(* bootstrap's promises, for any number of tests and any tables.  The      *)
(* argument: past the lock a task is alone with it, so that between its    *)
(* second look and its commit nobody else changes the tables.              *)
(***************************************************************************)
EXTENDS Bootstrap, TLAPS

(* Who is past the lock holds it; what a transaction has created is what    *)
(* was missing; who is about to commit completes the tables.                *)
Locked(t) ==
  /\ pc[t] \in {"look_again", "create", "commit"} => holder = t
  /\ created[t] # {} => holder = t /\ pc[t] \in {"commit", "failed", "crashed"}

Progress(t) ==
  /\ pc[t] = "create" => tables # Tables
  /\ pc[t] = "commit" => tables \cup created[t] = Tables
  /\ pc[t] = "ready" => tables = Tables

BootstrapInv == TypeOK /\ \A t \in Tasks : Locked(t) /\ Progress(t)

(* The initial states satisfy the invariant.                                *)
LEMMA InitInv == Init => BootstrapInv
  BY DEF Init, BootstrapInv, TypeOK, Locked, Progress, Labels, InTx, Ended

(* A step of the code, and the failures and the server's cleaning up, keep  *)
(* the invariant.                                                           *)
LEMMA StepInv == BootstrapInv /\ [Next]_vars => BootstrapInv'
<1> SUFFICES ASSUME BootstrapInv, [Next]_vars
             PROVE  BootstrapInv'
  OBVIOUS
<1> USE DEF Goto
<1>1. ASSUME NEW t \in Tasks, Look(t) PROVE BootstrapInv'
  BY <1>1 DEF Look, BootstrapInv, TypeOK, Locked, Progress, Labels, InTx, Ended,
     BookkeepingExists
<1>2. ASSUME NEW t \in Tasks, Begin(t) PROVE BootstrapInv'
  BY <1>2 DEF Begin, BootstrapInv, TypeOK, Locked, Progress, Labels, InTx, Ended
<1>3. ASSUME NEW t \in Tasks, LockBootstrap(t) PROVE BootstrapInv'
  BY <1>3, BootstrapAssumption
  DEF LockBootstrap, BootstrapInv, TypeOK, Locked, Progress, Labels, InTx, Ended
<1>4. ASSUME NEW t \in Tasks, LookAgain(t) PROVE BootstrapInv'
  BY <1>4 DEF LookAgain, BootstrapInv, TypeOK, Locked, Progress, Labels, InTx,
     Ended, BookkeepingExists
<1>5. ASSUME NEW t \in Tasks, CreateTables(t) PROVE BootstrapInv'
  BY <1>5 DEF CreateTables, BootstrapInv, TypeOK, Locked, Progress, Labels, InTx,
     Ended
<1>6. ASSUME NEW t \in Tasks, Commit(t) PROVE BootstrapInv'
  <2>1. tables' = Tables /\ holder = t /\ holder' = None
    BY <1>6 DEF Commit, BootstrapInv, Locked, Progress
  <2>2. TypeOK'
    BY <1>6, <2>1 DEF Commit, BootstrapInv, TypeOK, Labels, InTx, Ended
  <2>3. ASSUME NEW u \in Tasks PROVE Locked(u)' /\ Progress(u)'
    <3>1. CASE u = t
      BY <1>6, <2>1, <3>1 DEF Commit, BootstrapInv, TypeOK, Locked, Progress
    <3>2. CASE u # t
      BY <1>6, <2>1, <3>2 DEF Commit, BootstrapInv, TypeOK, Locked, Progress
    <3> QED
      BY <3>1, <3>2
  <2> QED
    BY <2>2, <2>3 DEF BootstrapInv
<1>7. ASSUME NEW t \in Tasks, Fail(t) PROVE BootstrapInv'
  BY <1>7, BootstrapAssumption
  DEF Fail, BootstrapInv, TypeOK, Locked, Progress, Labels, InTx, Ended
<1>8. ASSUME NEW t \in Tasks, Crash(t) PROVE BootstrapInv'
  BY <1>8 DEF Crash, BootstrapInv, TypeOK, Locked, Progress, Labels, InTx, Ended
<1>9. ASSUME NEW t \in Tasks, Reap(t) PROVE BootstrapInv'
  BY <1>9, BootstrapAssumption
  DEF Reap, BootstrapInv, TypeOK, Locked, Progress, Labels, InTx, Ended
<1>10. CASE UNCHANGED vars
  BY <1>10 DEF vars, BootstrapInv, TypeOK, Locked, Progress
<1> QED
  BY <1>1, <1>2, <1>3, <1>4, <1>5, <1>6, <1>7, <1>8, <1>9, <1>10
  DEF Next, TaskStep, Terminating

LEMMA InvariantHolds == Spec => []BootstrapInv
  BY InitInv, StepInv, PTL DEF Spec

(* Who goes on to register finds all the tables, whoever else was creating  *)
(* them, failed at it or was killed.                                        *)
THEOREM ReadyCorrect == Spec => []ReadyHasTables
<1>1. BootstrapInv => ReadyHasTables
  BY DEF BootstrapInv, Progress, ReadyHasTables
<1> QED
  BY <1>1, InvariantHolds, PTL

(* At most one transaction creates tables at a time.                        *)
THEOREM CreatorsExclusive == Spec => []OneCreator
<1>1. BootstrapInv => OneCreator
  BY DEF BootstrapInv, Locked, Progress, OneCreator
<1> QED
  BY <1>1, InvariantHolds, PTL

(* The missing tables become visible together.                              *)
THEOREM AppearTogether == Spec => TablesAppearTogether
<1>1. BootstrapInv /\ [Next]_vars => [tables' = Tables]_tables
  <2> SUFFICES ASSUME BootstrapInv, [Next]_vars, tables' # tables
               PROVE  tables' = Tables
    OBVIOUS
  <2>1. PICK t \in Tasks : Commit(t)
    BY DEF Next, vars, TaskStep, Terminating, Look, Begin, LockBootstrap,
       LookAgain, CreateTables, Fail, Crash, Reap
  <2> QED
    BY <2>1 DEF Commit, Goto, BootstrapInv, Progress
<1> QED
  BY <1>1, InvariantHolds, PTL DEF Spec, TablesAppearTogether
=============================================================================
