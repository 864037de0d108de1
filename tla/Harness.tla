------------------------------ MODULE Harness ------------------------------
(***************************************************************************)
(* harness.rs: run_with takes a test from its registration to its verdict. *)
(* Tasks run at once, as threads of a process or in processes of their     *)
(* own, and meet only on the server.                                       *)
(*                                                                         *)
(*   start -> [first of its run: Sweep.tla -> touch_existing] -> clone ->  *)
(*   [Template.tla] -> fixtures -> args -> running -> drop -> forget -> done *)
(* A failed test with `keep_failed` goes from running to mark and kept; an *)
(* error before the test starts discards the database and panics.          *)
(***************************************************************************)
EXTENDS Sweep

CONSTANTS
  KeepFailed,     \* Config::keep_failed, per task
  Inspected,      \* the databases somebody may look into with psql
  OldRuns,        \* runs seen last at time 0, by tests that have ended
  OldTemplates,   \* templates used last at time 0, by tests that have ended
  MaxTime,        \* bound on the clock
  SetupLimit,     \* longest time from registration to the end of the clone
  TestLimit       \* longest time from registration to the verdict

ASSUME HarnessAssumption ==
  /\ KeepFailed \in [Tasks -> BOOLEAN]
  /\ Inspected \subseteq TestDbs \cup Templates
  /\ OldRuns \subseteq Homes \X Runs
  /\ OldTemplates \subseteq Homes \X Templates
  /\ MaxTime \in Nat
  /\ SetupLimit \in Nat
  /\ TestLimit \in Nat

HarnessLabels ==
  {"start", "unregister", "fixtures", "applying", "args", "running", "drop",
   "forget", "mark"}

Labels   == HarnessLabels \cup TemplateLabels \cup SweepLabels \cup Ended
Verdicts == {"none", "discarded", "passed", "failed"}

(* The database of a task is there for its test from the clone on.          *)
CloneLabels == {"fixtures", "applying", "args", "running"}

TypeOK ==
  /\ ServerTypeOK
  /\ pc \in [Tasks -> Labels]
  /\ todo \in [Tasks -> SUBSET Names]
  /\ victim \in [Tasks -> Names \cup {None}]
  /\ born \in [Tasks -> Nat \cup {Never}]
  /\ verdict \in [Tasks -> Verdicts]
  /\ lost \subseteq Tasks

Init ==
  /\ now = 0
  /\ frozen = {r[2] : r \in OldTemplates}
  /\ content = [n \in Names |-> IF n \in frozen THEN n[3] ELSE Absent]
  /\ connected = {}
  /\ locks = [k \in LockKeys |-> None]
  /\ lastSeen = [r \in Homes \X Runs |-> IF r \in OldRuns THEN 0 ELSE Never]
  /\ rows = {}
  /\ failedAt = [t \in Tasks |-> Never]
  /\ lastUsed = [r \in Homes \X Templates |->
                   IF r \in OldTemplates THEN 0 ELSE Never]
  /\ pc = [t \in Tasks |-> "start"]
  /\ todo = [t \in Tasks |-> {}]
  /\ victim = [t \in Tasks |-> None]
  /\ born = [t \in Tasks |-> Never]
  /\ verdict = [t \in Tasks |-> "none"]
  /\ lost = {}

-----------------------------------------------------------------------------
(* TestDb::create.                                                          *)

Register(t) ==
  /\ pc[t] = "start"
  /\ Goto(t, IF FirstOfRun(t) THEN "sweep" ELSE "clone")
  /\ born' = [born EXCEPT ![t] = now]
  /\ UNCHANGED <<loop, verdict, lost>>
  /\ RegisterTest(t)

(* clone_into failed: the row goes, and the error is the test's.            *)
Unregister(t) ==
  /\ Step(t, "unregister", "panicked")
  /\ ForgetDatabase(t)

(* Mutant: the error is returned without finish.                            *)
DiscardNothing(t, from) ==
  /\ pc[t] = from
  /\ Goto(t, "panicked")
  /\ verdict' = [verdict EXCEPT ![t] = "discarded"]
  /\ UNCHANGED <<loop, born, lost>>

(* The test cannot start: finish(Verdict::Discard).                         *)
Discard(t, from) ==
  /\ pc[t] = from
  /\ Goto(t, "drop")
  /\ verdict' = [verdict EXCEPT ![t] = "discarded"]
  /\ UNCHANGED <<loop, born, lost>>

(* With no fixture there is nothing to connect for.                         *)
ApplyFixtures(t) ==
  \/ Step(t, "fixtures", "args") /\ UNCHANGED server
  \/ Step(t, "fixtures", "applying") /\ Connect(TestDb(t))
  \/ /\ ~Exists(TestDb(t)) \/ t \in Faulty
     /\ Discard(t, "fixtures")
     /\ UNCHANGED server

FixturesApplied(t) ==
  \/ /\ TestDb(t) \in connected
     /\ Step(t, "applying", "args")
     /\ Disconnect(TestDb(t))
  \/ /\ TestDb(t) \notin connected \/ t \in Faulty
     /\ Discard(t, "applying")
     /\ Disconnect(TestDb(t))

-----------------------------------------------------------------------------
(* run_with.  A pool or a set of options makes no connection; a connection  *)
(* as the argument does.                                                    *)

MakeArgs(t) ==
  \/ Step(t, "args", "running") /\ UNCHANGED server
  \/ Step(t, "args", "running") /\ Connect(TestDb(t))
  \/ /\ ~Exists(TestDb(t)) \/ t \in Faulty
     /\ Discard(t, "args")
     /\ UNCHANGED server

(* The test's connections come and go: the pool is lazy and closes what is  *)
(* idle, whatever the test is busy with.                                    *)
UseDatabase(t) ==
  /\ pc[t] = "running"
  /\ \/ TestDb(t) \notin connected /\ Connect(TestDb(t))
     \/ TestDb(t) \in connected /\ Disconnect(TestDb(t))
  /\ UNCHANGED locals

(* The verdict, and pool.close().await; a connection that is no pool's may  *)
(* still be open on the server.                                             *)
EndTest(t) ==
  /\ pc[t] = "running"
  /\ \/ /\ verdict' = [verdict EXCEPT ![t] = "passed"]
        /\ Goto(t, "drop")
     \/ /\ verdict' = [verdict EXCEPT ![t] = "failed"]
        /\ Goto(t, IF KeepFailed[t] THEN "mark" ELSE "drop")
  /\ UNCHANGED <<loop, born, lost>>
  /\ Disconnect(TestDb(t)) \/ UNCHANGED server

DropDatabase(t) ==
  /\ Step(t, "drop", "forget")
  /\ DropForce(TestDb(t))

Forget(t) ==
  /\ Step(t, "forget", IF verdict[t] = "passed" THEN "done" ELSE "panicked")
  /\ ForgetDatabase(t)

Mark(t) ==
  /\ Step(t, "mark", "kept")
  /\ MarkFailed(t)

(* The `?` edges, and the errors finish only prints.  An error before the   *)
(* registration (settings, probe, schema, bootstrap) ends the task at       *)
(* "start".  After a drop that failed nothing is forgotten.                 *)
HarnessFails(t) ==
  \/ pc[t] \in {"start", "unregister", "forget", "mark"} /\ Refused(t, "panicked")
  \/ pc[t] = "drop" /\ Refused(t, "undropped")

HarnessStep(t) ==
  \/ Register(t) \/ Unregister(t) \/ ApplyFixtures(t) \/ FixturesApplied(t)
  \/ MakeArgs(t) \/ EndTest(t) \/ DropDatabase(t) \/ Forget(t) \/ Mark(t)

-----------------------------------------------------------------------------
(* Somebody looks into a kept database, or a template that is not frozen.   *)

Inspect ==
  /\ \E n \in Inspected \ connected :
       /\ \A t \in Tasks : n = TestDb(t) => pc[t] = "kept"
       /\ Connect(n)
  /\ UNCHANGED locals

StopInspecting ==
  /\ \E n \in Inspected \cap connected :
       /\ \A t \in Tasks : n = TestDb(t) => pc[t] = "kept"
       /\ Disconnect(n)
  /\ UNCHANGED locals

(* Time passes unless a task would overrun a limit it is assumed to keep.   *)
InTest(t)  == born[t] # Never /\ pc[t] \notin Ended
InSetup(t) == InTest(t) /\ pc[t] \notin CloneLabels \cup {"drop", "forget", "mark"}

Tick ==
  /\ now < MaxTime
  /\ \A t \in Tasks : /\ InSetup(t) => now < born[t] + SetupLimit
                      /\ InTest(t) => now < born[t] + TestLimit
  /\ now' = now + 1
  /\ UNCHANGED <<catalog, locks, books, locals>>

-----------------------------------------------------------------------------
Works(t) == HarnessStep(t) \/ TemplateStep(t) \/ SweepStep(t)
Fails(t) == HarnessFails(t) \/ TemplateFails(t) \/ SweepFails(t)
Reap(t)  == ReapMaster(t) \/ ReapClient(t)

(* What a task awaits there is not asked of its master session.             *)
Elsewhere == {"connect", "apply", "fixtures", "applying", "args", "running"}

(* Without its master session every statement of a task on it fails.        *)
TaskStep(t) ==
  \/ (t \in lost => pc[t] \in Elsewhere) /\ Works(t)
  \/ t \in lost /\ Fails(t)

Terminating == (\A t \in Tasks : pc[t] \in Ended) /\ UNCHANGED vars

Next ==
  \/ \E t \in Tasks :
       \/ TaskStep(t) \/ UseDatabase(t) \/ (t \in Faulty /\ Fails(t))
       \/ Crash(t) \/ LoseMaster(t) \/ Reap(t)
  \/ Inspect \/ StopInspecting \/ Tick \/ Terminating

Spec == Init /\ [][Next]_vars

(* Every statement is answered and every test ends, the server notices the  *)
(* connections that are gone; nothing says that time passes, that anything  *)
(* fails, or that a lock is granted in any order.                           *)
Fairness == \A t \in Tasks : WF_vars(TaskStep(t)) /\ WF_vars(Reap(t))

FairSpec == Spec /\ Fairness
=============================================================================
