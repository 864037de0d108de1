--------------------------- MODULE HarnessProofs ---------------------------
(***************************************************************************)
(* Theorems of Harness.tla, for every set of tasks, homes, prefixes, runs  *)
(* and schemas, any settings, and any bounds on the clock.                 *)
(***************************************************************************)
EXTENDS Correctness, TLAPS

(* The names of one kind are never those of another, and a template's name  *)
(* determines its prefix and its schema.                                    *)
LEMMA NamesDiffer ==
  \A t, u \in Tasks :
    /\ TestDb(t) # Building(u)
    /\ TestDb(t) # Template(u)
    /\ Building(t) # Template(u)
    /\ TestDb(t) = TestDb(u) => t = u
    /\ Building(t) = Building(u) => t = u
    /\ Template(t) = Template(u) =>
         PrefixOf[t] = PrefixOf[u] /\ SchemaOf[t] = SchemaOf[u]
  BY DEF TestDb, Building, Template

(* The sweep lock and the template lock are different, whoever takes them.  *)
LEMMA KeysDiffer == \A t, u \in Tasks : SweepKey(t) # TemplateKey(u)
  BY DEF SweepKey, TemplateKey

LEMMA TaskNames ==
  \A t \in Tasks :
    /\ TestDb(t) \in Names /\ Building(t) \in Names /\ Template(t) \in Names
    /\ Template(t) \in Templates
    /\ SweepKey(t) \in LockKeys /\ TemplateKey(t) \in LockKeys
    /\ RunRow(t) \in Homes \X Runs /\ TemplateRow(t) \in Homes \X Templates
    /\ SchemaOf[t] \in Schemas /\ HomeOf[t] \in Homes
  BY SettingsAssumption DEF Names, TestDbs, Buildings,
     Templates, LockKeys, RunRow, TemplateRow

-----------------------------------------------------------------------------
(* Type correctness.  A statement keeps the types of the server's state,    *)
(* whatever name it is given; a step of the code keeps those of the rest.   *)

LEMMA CatalogStatementsTyped ==
  ASSUME ServerTypeOK, NEW n, NEW m \in Templates,
         \/ CreateDatabase(n)
         \/ CloneDatabase(n, m)
         \/ DropForce(n)
         \/ DropIfIdle(n)
         \/ n \in Names /\ PublishTemplate(n, m)
         \/ RetireTemplate(n)
         \/ n \in Names /\ Connect(n)
         \/ Disconnect(n)
  PROVE  ServerTypeOK'
<1>0. m \in Names /\ Absent \in Schemas \cup {Absent, Partial}
                  /\ Partial \in Schemas \cup {Absent, Partial}
  BY DEF Names
<1>1. CASE CreateDatabase(n)
  BY <1>0, <1>1 DEF ServerTypeOK, CreateDatabase, books
<1>2. CASE CloneDatabase(n, m)
  BY <1>0, <1>2 DEF ServerTypeOK, CloneDatabase, books
<1>3. CASE DropForce(n)
  BY <1>0, <1>3 DEF ServerTypeOK, DropForce, books
<1>4. CASE DropIfIdle(n)
  BY <1>0, <1>4 DEF ServerTypeOK, DropIfIdle, books
<1>5. CASE n \in Names /\ PublishTemplate(n, m)
  BY <1>0, <1>5 DEF ServerTypeOK, PublishTemplate, books
<1>6. CASE RetireTemplate(n)
  BY <1>6 DEF ServerTypeOK, RetireTemplate, books
<1>7. CASE n \in Names /\ Connect(n)
  BY <1>7 DEF ServerTypeOK, Connect, books
<1>8. CASE Disconnect(n)
  BY <1>8 DEF ServerTypeOK, Disconnect, books
<1> QED
  BY <1>1, <1>2, <1>3, <1>4, <1>5, <1>6, <1>7, <1>8

LEMMA LockStatementsTyped ==
  ASSUME ServerTypeOK, NEW t \in Tasks, NEW k,
         Lock(t, k) \/ Unlock(t, k) \/ EndMaster(t)
  PROVE  ServerTypeOK'
<1>1. CASE Lock(t, k)
  BY <1>1 DEF ServerTypeOK, Lock, catalog, books
<1>2. CASE Unlock(t, k)
  BY <1>2 DEF ServerTypeOK, Unlock, catalog, books
<1>3. CASE EndMaster(t)
  BY <1>3 DEF ServerTypeOK, EndMaster, catalog, books
<1> QED
  BY <1>1, <1>2, <1>3

LEMMA BookStatementsTyped ==
  ASSUME ServerTypeOK, NEW t \in Tasks, NEW n,
         \/ RegisterTest(t) \/ MarkFailed(t) \/ ForgetDatabase(t)
         \/ TouchTemplate(t) \/ ForgetTemplate(t, n) \/ ForgetStaleRuns(t)
  PROVE  ServerTypeOK'
<1>1. CASE RegisterTest(t)
  BY <1>1, TaskNames DEF ServerTypeOK, RegisterTest, catalog
<1>2. CASE MarkFailed(t)
  BY <1>2 DEF ServerTypeOK, MarkFailed, catalog
<1>3. CASE ForgetDatabase(t)
  BY <1>3 DEF ServerTypeOK, ForgetDatabase, catalog
<1>4. CASE TouchTemplate(t)
  BY <1>4, TaskNames DEF ServerTypeOK, TouchTemplate, catalog
<1>5. CASE ForgetTemplate(t, n)
  BY <1>5 DEF ServerTypeOK, ForgetTemplate, catalog
<1>6. CASE ForgetStaleRuns(t)
  BY <1>6 DEF ServerTypeOK, ForgetStaleRuns, catalog
<1> QED
  BY <1>1, <1>2, <1>3, <1>4, <1>5, <1>6

LEMMA ServerUnchangedTyped ==
  ServerTypeOK /\ UNCHANGED server => ServerTypeOK'
  BY DEF ServerTypeOK, server

(* What the task's own variables may hold.                                  *)
LocalTypeOK ==
  /\ pc \in [Tasks -> Labels]
  /\ todo \in [Tasks -> SUBSET Names]
  /\ victim \in [Tasks -> Names \cup {None}]
  /\ born \in [Tasks -> Nat \cup {Never}]
  /\ verdict \in [Tasks -> Verdicts]
  /\ lost \subseteq Tasks

LEMMA StepTyped ==
  ASSUME LocalTypeOK, NEW t \in Tasks, NEW from, NEW to \in Labels,
         Step(t, from, to)
  PROVE  LocalTypeOK'
  BY DEF LocalTypeOK, Step, Goto, loop, history

LEMMA RefusedTyped ==
  ASSUME TypeOK, NEW t \in Tasks, NEW to \in Labels, Refused(t, to)
  PROVE  TypeOK'
<1>1. LocalTypeOK'
  BY DEF LocalTypeOK, TypeOK, Refused, Goto, history
<1>2. ServerTypeOK'
  BY ServerUnchangedTyped DEF TypeOK, Refused
<1> QED
  BY <1>1, <1>2 DEF TypeOK, LocalTypeOK

LEMMA ListNamesTyped ==
  ASSUME TypeOK, NEW t \in Tasks, NEW from, NEW names \in SUBSET Names,
         NEW dropping \in Labels, NEW done \in Labels,
         ListNames(t, from, names, dropping, done)
  PROVE  TypeOK'
<1>1. LocalTypeOK'
  BY DEF LocalTypeOK, TypeOK, ListNames, Goto, history
<1>2. ServerTypeOK'
  BY ServerUnchangedTyped DEF TypeOK, ListNames
<1> QED
  BY <1>1, <1>2 DEF TypeOK, LocalTypeOK

LEMMA SkipTyped ==
  ASSUME LocalTypeOK, NEW t \in Tasks, NEW n, NEW more \in Labels,
         NEW done \in Labels, Skip(t, n, more, done)
  PROVE  LocalTypeOK'
  BY DEF LocalTypeOK, Skip, Rest, Goto, history

LEMMA ForgottenTyped ==
  ASSUME LocalTypeOK, NEW t \in Tasks, NEW from, NEW more \in Labels,
         NEW done \in Labels, Forgotten(t, from, more, done)
  PROVE  LocalTypeOK'
  BY DEF LocalTypeOK, Forgotten, Goto, history

LEMMA ListsTyped ==
  ASSUME ServerTypeOK, NEW t \in Tasks
  PROVE  /\ BuildingDatabases(t) \in SUBSET Names
         /\ LeftoverDatabases(t) \in SUBSET Names
         /\ IdleTemplates(t) \in SUBSET Names
  BY DEF BuildingDatabases, LeftoverDatabases, IdleTemplates, Names, Buildings,
     TestDbs, ServerTypeOK

LEMMA LabelsTyped ==
  /\ HarnessLabels \subseteq Labels /\ TemplateLabels \subseteq Labels
  /\ SweepLabels \subseteq Labels /\ Ended \subseteq Labels
  BY DEF Labels

LEMMA TypesSplit == /\ TypeOK <=> ServerTypeOK /\ LocalTypeOK
                    /\ TypeOK' <=> ServerTypeOK' /\ LocalTypeOK'
  BY DEF TypeOK, LocalTypeOK

LEMMA TemplateStepTyped ==
  ASSUME TypeOK, NEW t \in Tasks, TemplateStep(t)
  PROVE  TypeOK'
<1> USE LabelsTyped DEF HarnessLabels, TemplateLabels
<1>0. ServerTypeOK /\ LocalTypeOK
  BY TypesSplit
<1>1. CASE TouchExisting(t)
  BY <1>0, <1>1, StepTyped, ServerUnchangedTyped, TypesSplit DEF TouchExisting
<1>2. CASE TouchFirst(t)
  BY <1>0, <1>2, StepTyped, BookStatementsTyped, TypesSplit DEF TouchFirst
<1>3. CASE Clone(t)
  BY <1>0, <1>3, StepTyped, CatalogStatementsTyped, TaskNames, RefusedTyped,
     ServerUnchangedTyped, TypesSplit DEF Clone
<1>4. CASE LockTemplate(t)
  BY <1>0, <1>4, StepTyped, LockStatementsTyped, TypesSplit DEF LockTemplate
<1>5. CASE TemplateExists(t)
  BY <1>0, <1>5, StepTyped, ServerUnchangedTyped, TypesSplit DEF TemplateExists
<1>6. CASE ListOrphans(t)
  BY <1>0, <1>6, ListNamesTyped, ListsTyped DEF ListOrphans
<1>7. CASE DropOrphan(t)
  BY <1>0, <1>7, SkipTyped, CatalogStatementsTyped, TaskNames, TypesSplit
  DEF DropOrphan
<1>8. CASE CreateBuilding(t)
  BY <1>0, <1>8, StepTyped, CatalogStatementsTyped, TaskNames, TypesSplit
  DEF CreateBuilding
<1>9. CASE ConnectBuilding(t)
  BY <1>0, <1>9, StepTyped, CatalogStatementsTyped, RefusedTyped, TaskNames,
     TypesSplit DEF ConnectBuilding
<1>10. CASE ApplySchema(t)
  BY <1>0, <1>10, StepTyped, CatalogStatementsTyped, TaskNames, TypesSplit
  DEF ApplySchema, ServerTypeOK, books
<1>11. CASE DiscardBuilding(t)
  BY <1>0, <1>11, StepTyped, CatalogStatementsTyped, TaskNames, TypesSplit
  DEF DiscardBuilding
<1>12. CASE Publish(t)
  BY <1>0, <1>12, StepTyped, CatalogStatementsTyped, RefusedTyped, TaskNames,
     TypesSplit DEF Publish
<1>13. CASE Touch(t)
  BY <1>0, <1>13, StepTyped, BookStatementsTyped, TypesSplit DEF Touch
<1>14. CASE UnlockTemplate(t)
  BY <1>0, <1>14, StepTyped, LockStatementsTyped, TypesSplit
  DEF UnlockTemplate
<1>15. CASE CloneAgain(t)
  BY <1>0, <1>15, StepTyped, CatalogStatementsTyped, TaskNames, RefusedTyped,
     TypesSplit DEF CloneAgain
<1> QED
  BY <1>1, <1>2, <1>3, <1>4, <1>5, <1>6, <1>7, <1>8, <1>9, <1>10, <1>11,
     <1>12, <1>13, <1>14, <1>15 DEF TemplateStep

LEMMA SweepStepTyped ==
  ASSUME TypeOK, NEW t \in Tasks, SweepStep(t)
  PROVE  TypeOK'
<1> USE LabelsTyped DEF TemplateLabels, SweepLabels
<1>0. ServerTypeOK /\ LocalTypeOK
  BY TypesSplit
<1>1. CASE TrySweepLock(t) \/ TryTemplateLock(t)
  BY <1>0, <1>1, StepTyped, LockStatementsTyped, ServerUnchangedTyped,
     TypesSplit DEF TrySweepLock, TryTemplateLock, TryLock
<1>2. CASE ListLeftovers(t) \/ ListSweepOrphans(t) \/ ListIdle(t)
  BY <1>0, <1>2, ListNamesTyped, ListsTyped
  DEF ListLeftovers, ListSweepOrphans, ListIdle
<1>3. CASE SweepDrop(t)
  <2>1. PICK n \in todo[t] :
          \/ /\ DropIfIdle(n)
             /\ Goto(t, "sweep_forget")
             /\ todo' = [todo EXCEPT ![t] = @ \ {n}]
             /\ victim' = [victim EXCEPT ![t] = n]
             /\ UNCHANGED history
          \/ /\ n \in connected
             /\ Skip(t, n, "sweep_drop", "sweep_runs")
             /\ UNCHANGED server
    BY <1>3 DEF SweepDrop
  <2>2. LocalTypeOK'
    BY <1>0, <2>1, SkipTyped DEF LocalTypeOK, Goto, history
  <2>3. ServerTypeOK'
    BY <1>0, <2>1, CatalogStatementsTyped, ServerUnchangedTyped, TaskNames
  <2> QED
    BY <2>2, <2>3, TypesSplit
<1>4. CASE SweepForget(t)
  BY <1>0, <1>4, ForgottenTyped, BookStatementsTyped, TypesSplit
  DEF SweepForget
<1>5. CASE SweepRuns(t)
  BY <1>0, <1>5, StepTyped, BookStatementsTyped, TypesSplit DEF SweepRuns
<1>6. CASE SweepUnlock(t) \/ RetireUnlock(t)
  <2>1. LocalTypeOK'
    BY <1>0, <1>6, StepTyped DEF SweepUnlock, RetireUnlock, Ended
  <2>2. ServerTypeOK'
    BY <1>0, <1>6, LockStatementsTyped DEF SweepUnlock, RetireUnlock
  <2> QED
    BY <2>1, <2>2, TypesSplit
<1>7. CASE DropSweepOrphan(t)
  BY <1>0, <1>7, SkipTyped, CatalogStatementsTyped, TaskNames, TypesSplit
  DEF DropSweepOrphan
<1>8. CASE Retire(t)
  <2>1. PICK n \in todo[t] :
          \/ /\ RetireTemplate(n)
             /\ Goto(t, "retire_drop")
             /\ todo' = [todo EXCEPT ![t] = @ \ {n}]
             /\ victim' = [victim EXCEPT ![t] = n]
             /\ UNCHANGED history
          \/ Refused(t, "retire_unlock_err")
    BY <1>8 DEF Retire
  <2>2. CASE Refused(t, "retire_unlock_err")
    BY <2>2, RefusedTyped
  <2>3. CASE RetireTemplate(n) /\ ~Refused(t, "retire_unlock_err")
    <3>1. LocalTypeOK'
      BY <1>0, <2>1, <2>3 DEF LocalTypeOK, Goto, history
    <3>2. ServerTypeOK'
      BY <1>0, <2>3, CatalogStatementsTyped, TaskNames
    <3> QED
      BY <3>1, <3>2, TypesSplit
  <2> QED
    BY <2>1, <2>2, <2>3
<1>9. CASE RetireDrop(t)
  BY <1>0, <1>9, StepTyped, ForgottenTyped, RefusedTyped, TaskNames,
     CatalogStatementsTyped, ServerUnchangedTyped, TypesSplit DEF RetireDrop
<1>10. CASE RetireForget(t)
  BY <1>0, <1>10, ForgottenTyped, BookStatementsTyped, TypesSplit
  DEF RetireForget
<1> QED
  BY <1>1, <1>2, <1>3, <1>4, <1>5, <1>6, <1>7, <1>8, <1>9, <1>10 DEF SweepStep

LEMMA HarnessStepTyped ==
  ASSUME TypeOK, NEW t \in Tasks, HarnessStep(t)
  PROVE  TypeOK'
<1> USE LabelsTyped DEF HarnessLabels, TemplateLabels, SweepLabels, Ended
<1>0. ServerTypeOK /\ LocalTypeOK
  BY TypesSplit
<1>1. CASE Register(t)
  <2>1. LocalTypeOK'
    BY <1>0, <1>1 DEF Register, LocalTypeOK, ServerTypeOK, Goto, loop
  <2>2. ServerTypeOK'
    BY <1>0, <1>1, BookStatementsTyped DEF Register
  <2> QED
    BY <2>1, <2>2, TypesSplit
<1>2. CASE Unregister(t)
  BY <1>0, <1>2, StepTyped, BookStatementsTyped, TypesSplit DEF Unregister
<1>3. ASSUME NEW from, Discard(t, from) PROVE LocalTypeOK'
  BY <1>0, <1>3 DEF Discard, LocalTypeOK, Verdicts, Goto, loop
<1>4. CASE ApplyFixtures(t)
  BY <1>0, <1>3, <1>4, StepTyped, CatalogStatementsTyped, TaskNames,
     ServerUnchangedTyped, TypesSplit DEF ApplyFixtures
<1>5. CASE FixturesApplied(t)
  BY <1>0, <1>3, <1>5, StepTyped, CatalogStatementsTyped, TaskNames, TypesSplit
  DEF FixturesApplied
<1>6. CASE MakeArgs(t)
  BY <1>0, <1>3, <1>6, StepTyped, CatalogStatementsTyped, TaskNames,
     ServerUnchangedTyped, TypesSplit DEF MakeArgs
<1>7. CASE EndTest(t)
  <2>1. LocalTypeOK'
    BY <1>0, <1>7 DEF EndTest, LocalTypeOK, Verdicts, Goto, loop
  <2>2. ServerTypeOK'
    BY <1>0, <1>7, CatalogStatementsTyped, ServerUnchangedTyped, TaskNames
    DEF EndTest
  <2> QED
    BY <2>1, <2>2, TypesSplit
<1>8. CASE DropDatabase(t)
  BY <1>0, <1>8, StepTyped, CatalogStatementsTyped, TaskNames, TypesSplit
  DEF DropDatabase
<1>9. CASE Forget(t)
  BY <1>0, <1>9, StepTyped, BookStatementsTyped, TypesSplit DEF Forget
<1>10. CASE Mark(t)
  BY <1>0, <1>10, StepTyped, BookStatementsTyped, TypesSplit DEF Mark
<1> QED
  BY <1>1, <1>2, <1>4, <1>5, <1>6, <1>7, <1>8, <1>9, <1>10 DEF HarnessStep

(* What the tasks do not do themselves: a test's own connections, errors,   *)
(* deaths, the server noticing them, somebody looking in, the clock.        *)
LEMMA EnvironmentTyped ==
  ASSUME TypeOK,
         \/ \E t \in Tasks :
              UseDatabase(t) \/ Fails(t) \/ Crash(t) \/ LoseMaster(t) \/ Reap(t)
         \/ Inspect \/ StopInspecting \/ Tick
  PROVE  TypeOK'
<1>0. ServerTypeOK /\ LocalTypeOK
  BY TypesSplit
<1>1. ASSUME UNCHANGED locals PROVE LocalTypeOK'
  BY <1>0, <1>1 DEF LocalTypeOK, locals
<1>2. Inspected \subseteq Names
  BY HarnessAssumption DEF Names, Templates
<1>3. ASSUME NEW t \in Tasks, UseDatabase(t) PROVE TypeOK'
  BY <1>0, <1>1, <1>3, CatalogStatementsTyped, TaskNames, TypesSplit
  DEF UseDatabase
<1>4. ASSUME NEW t \in Tasks, Fails(t) PROVE TypeOK'
  BY <1>4, RefusedTyped, LabelsTyped
  DEF Fails, HarnessFails, TemplateFails, SweepFails, HarnessLabels,
      TemplateLabels, SweepLabels, Ended
<1>5. ASSUME NEW t \in Tasks, Crash(t) PROVE TypeOK'
  <2>1. Refused(t, "crashed")
    BY <1>5 DEF Crash, Refused
  <2> QED
    BY <2>1, RefusedTyped, LabelsTyped DEF Ended
<1>6. ASSUME NEW t \in Tasks, Reap(t) PROVE TypeOK'
  BY <1>0, <1>1, <1>6, LockStatementsTyped, CatalogStatementsTyped, TaskNames,
     TypesSplit DEF Reap, ReapMaster, ReapClient
<1>7. ASSUME NEW n, n \in Inspected, Connect(n) \/ Disconnect(n)
      PROVE  ServerTypeOK'
  <2>1. n \in Names
    BY <1>2, <1>7
  <2> QED
    BY <1>0, <1>7, <2>1 DEF ServerTypeOK, Connect, Disconnect, books
<1>8. CASE Inspect \/ StopInspecting
  BY <1>1, <1>7, <1>8, TypesSplit DEF Inspect, StopInspecting
<1>9. CASE Tick
  <2>1. ServerTypeOK'
    BY <1>0, <1>9 DEF Tick, ServerTypeOK, catalog, books
  <2> QED
    BY <1>1, <1>9, <2>1, TypesSplit DEF Tick
<1>10. ASSUME NEW t \in Tasks, LoseMaster(t) PROVE TypeOK'
  <2>1. LocalTypeOK'
    BY <1>0, <1>10 DEF LoseMaster, LocalTypeOK, loop
  <2> QED
    BY <1>0, <1>10, <2>1, LockStatementsTyped, TypesSplit DEF LoseMaster
<1> QED
  BY <1>3, <1>4, <1>5, <1>6, <1>8, <1>9, <1>10

LEMMA InitTyped == Init => TypeOK
<1> SUFFICES ASSUME Init PROVE TypeOK
  OBVIOUS
<1>1. frozen \subseteq Templates /\ Templates \subseteq Names
  BY HarnessAssumption DEF Init, Names
<1>2. \A n \in Templates : n[3] \in Schemas
  BY TaskNames DEF Templates, Template
<1>3. content \in [Names -> Schemas \cup {Absent, Partial}]
  BY <1>1, <1>2 DEF Init
<1> QED
  BY <1>1, <1>3 DEF Init, TypeOK, ServerTypeOK, Labels, HarnessLabels, Verdicts

LEMMA NextTyped == TypeOK /\ [Next]_vars => TypeOK'
<1> SUFFICES ASSUME TypeOK, [Next]_vars PROVE TypeOK'
  OBVIOUS
<1>1. ASSUME NEW t \in Tasks, TaskStep(t) PROVE TypeOK'
  BY <1>1, HarnessStepTyped, TemplateStepTyped, SweepStepTyped,
     EnvironmentTyped DEF TaskStep, Works
<1>2. CASE UNCHANGED vars
  BY <1>2 DEF vars, TypeOK, ServerTypeOK
<1> QED
  BY <1>1, <1>2, EnvironmentTyped DEF Next, Terminating

(* Only LoseMaster ends the session of a task that lives.                   *)
LEMMA WorkKeepsSessions ==
  ASSUME NEW t \in Tasks, Works(t) \/ Fails(t)
  PROVE  lost' = lost
<1> USE DEF Step, Refused, ListNames, Skip, Forgotten, Discard, history
<1>1. CASE HarnessStep(t)
  BY <1>1
  DEF HarnessStep, Register, Unregister, ApplyFixtures, FixturesApplied,
      MakeArgs, EndTest, DropDatabase, Forget, Mark
<1>2. CASE TemplateStep(t)
  BY <1>2
  DEF TemplateStep, TouchExisting, TouchFirst, Clone, LockTemplate,
      TemplateExists, ListOrphans, DropOrphan, CreateBuilding,
      ConnectBuilding, ApplySchema, DiscardBuilding, Publish, Touch,
      UnlockTemplate, CloneAgain
<1>3. CASE SweepStep(t)
  BY <1>3
  DEF SweepStep, TrySweepLock, TryTemplateLock, TryLock, ListLeftovers,
      SweepDrop, SweepForget, SweepRuns, SweepUnlock, ListSweepOrphans,
      DropSweepOrphan, ListIdle, Retire, RetireDrop, RetireForget, RetireUnlock
<1>4. CASE Fails(t)
  BY <1>4 DEF Fails, HarnessFails, TemplateFails, SweepFails
<1> QED
  BY <1>1, <1>2, <1>3, <1>4 DEF Works

(* A step of a test's code, or its end.                                     *)
StepOf(v) == Works(v) \/ Fails(v) \/ Crash(v)

(* A task moves itself, and no other.                                       *)
LEMMA OthersStay ==
  ASSUME TypeOK, NEW t \in Tasks, Works(t), NEW u \in Tasks, u # t
  PROVE  pc'[u] = pc[u] /\ todo'[u] = todo[u] /\ victim'[u] = victim[u]
<1> USE DEF Step, Refused, ListNames, Skip, Forgotten, Discard, Goto, loop, TypeOK
<1>1. CASE HarnessStep(t)
  BY <1>1
  DEF HarnessStep, Register, Unregister, ApplyFixtures, FixturesApplied,
      MakeArgs, EndTest, DropDatabase, Forget, Mark
<1>2. CASE TemplateStep(t)
  BY <1>2
  DEF TemplateStep, TouchExisting, TouchFirst, Clone, LockTemplate,
      TemplateExists, ListOrphans, DropOrphan, CreateBuilding,
      ConnectBuilding, ApplySchema, DiscardBuilding, Publish, Touch,
      UnlockTemplate, CloneAgain
<1>3. CASE SweepStep(t)
  BY <1>3
  DEF SweepStep, TrySweepLock, TryTemplateLock, TryLock, ListLeftovers,
      SweepDrop, SweepForget, SweepRuns, SweepUnlock, ListSweepOrphans,
      DropSweepOrphan, ListIdle, Retire, RetireDrop, RetireForget, RetireUnlock
<1> QED
  BY <1>1, <1>2, <1>3 DEF Works

(* Every variable keeps its type: each path of every handler leaves a task  *)
(* at a label the code has a next statement for, and the books and the      *)
(* catalog within their tables.                                             *)
THEOREM TypeCorrect == Spec => []TypeOK
  BY InitTyped, NextTyped, PTL DEF Spec

-----------------------------------------------------------------------------
(* The way of a test through its labels, and the clock.                     *)

(* Registered, and still on the way to a database of its own.               *)
Early == SweepLabels \cup TemplateLabels

(* From the clone on.                                                       *)
Late == CloneLabels \cup {"drop", "forget", "mark"}

(* A task never comes back: neither to its registration, nor from its clone *)
(* to its setup, nor from its end.                                          *)
Onward(t) ==
  /\ pc[t] \notin Ended /\ pc'[t] # "start"
  /\ pc[t] = "start" => Register(t) \/ pc'[t] \in Ended
  /\ pc[t] \in Late => pc'[t] \in Late \cup Ended
  /\ pc'[t] \in Early => pc[t] \in Early \cup {"start"}
  /\ pc'[t] = "unregister" => pc[t] \in Early
  /\ pc'[t] \in CloneLabels => pc[t] \in CloneLabels \cup {"clone", "clone_again"}
  /\ pc'[t] = "mark" => pc[t] = "running"
  /\ pc'[t] = "kept" => pc[t] = "mark"

LEMMA GotoOnward ==
  ASSUME TypeOK, NEW t \in Tasks, NEW to, Goto(t, to),
         \/ /\ pc[t] \in Early
            /\ to \in Early \cup {"unregister", "panicked", "crashed"}
         \/ pc[t] \in {"clone", "clone_again"} /\ to = "fixtures"
         \/ /\ pc[t] \in CloneLabels
            /\ to \in CloneLabels \cup {"drop"}
         \/ pc[t] = "running" /\ to = "mark"
         \/ Register(t) /\ to \in Early
         \/ pc[t] = "mark" /\ to = "kept"
         \/ pc[t] = "drop" /\ to = "forget"
         \/ /\ pc[t] \notin Ended
            /\ to \in {"done", "panicked", "undropped", "crashed"}
  PROVE  Onward(t)
  BY DEF Onward, Register, Goto, TypeOK, Early, Late, SweepLabels,
     TemplateLabels, CloneLabels, Ended

LEMMA WorkOnward ==
  ASSUME TypeOK, NEW t \in Tasks, Works(t)
  PROVE  Onward(t)
<1> USE GotoOnward DEF Step, Refused, ListNames, Skip, Rest, Forgotten, Discard,
        Early
<1>0. CASE Register(t)
  <2>1. \E to \in Early : Goto(t, to)
    BY <1>0 DEF Register, SweepLabels, TemplateLabels
  <2> QED
    BY <1>0, <2>1
<1>1. CASE Unregister(t) \/ DropDatabase(t) \/ Forget(t) \/ Mark(t)
  BY <1>1 DEF Unregister, DropDatabase, Forget, Mark, Ended
<1>2. CASE ApplyFixtures(t) \/ FixturesApplied(t) \/ MakeArgs(t) \/ EndTest(t)
  BY <1>2 DEF ApplyFixtures, FixturesApplied, MakeArgs, EndTest, CloneLabels
<1>3. CASE TemplateStep(t)
  BY <1>3
  DEF TemplateStep, TouchExisting, TouchFirst, Clone, LockTemplate,
      TemplateExists, ListOrphans, DropOrphan, CreateBuilding,
      ConnectBuilding, ApplySchema, DiscardBuilding, Publish, Touch,
      UnlockTemplate, CloneAgain, TemplateLabels
<1>4. CASE SweepStep(t)
  BY <1>4
  DEF SweepStep, TrySweepLock, TryTemplateLock, TryLock, ListLeftovers,
      SweepDrop, SweepForget, SweepRuns, SweepUnlock, ListSweepOrphans,
      DropSweepOrphan, ListIdle, Retire, RetireDrop, RetireForget,
      RetireUnlock, SweepLabels, TemplateLabels
<1> QED
  BY <1>0, <1>1, <1>2, <1>3, <1>4 DEF Works, HarnessStep

LEMMA FailureOnward ==
  ASSUME TypeOK, NEW t \in Tasks, Fails(t) \/ Crash(t)
  PROVE  Onward(t)
<1>1. CASE Fails(t)
  BY <1>1, GotoOnward
  DEF Fails, HarnessFails, TemplateFails, SweepFails, Refused, SweepHeld,
      RetireHeld, Early, SweepLabels, TemplateLabels, Ended
<1>2. CASE Crash(t)
  BY <1>2, GotoOnward DEF Crash
<1> QED
  BY <1>1, <1>2

(* No statement moves the clock.                                            *)
LEMMA StatementsTakeNoTime ==
  ASSUME NEW t, NEW n, NEW m, NEW k,
         \/ CreateDatabase(n) \/ CloneDatabase(n, m) \/ DropForce(n)
         \/ DropIfIdle(n) \/ PublishTemplate(n, m) \/ RetireTemplate(n)
         \/ Connect(n) \/ Disconnect(n) \/ Lock(t, k) \/ Unlock(t, k)
         \/ EndMaster(t) \/ RegisterTest(t) \/ MarkFailed(t)
         \/ ForgetDatabase(t) \/ TouchTemplate(t) \/ ForgetTemplate(t, n)
         \/ ForgetStaleRuns(t) \/ UNCHANGED server
  PROVE  now' = now
  BY DEF CreateDatabase, CloneDatabase, DropForce, DropIfIdle, PublishTemplate,
     RetireTemplate, Connect, Disconnect, Lock, Unlock, EndMaster, RegisterTest,
     MarkFailed, ForgetDatabase, TouchTemplate, ForgetTemplate,
     ForgetStaleRuns, server

(* Only a registration sets a task's time, and only Tick the clock.         *)
LEMMA WorkTakesNoTime ==
  ASSUME NEW t \in Tasks, Works(t) \/ Fails(t) \/ Crash(t)
  PROVE  now' = now /\ (Register(t) \/ born' = born)
<1> USE StatementsTakeNoTime
    DEF Step, Refused, ListNames, Skip, Forgotten, Discard, history
<1>1. CASE HarnessStep(t)
  BY <1>1
  DEF HarnessStep, Register, Unregister, ApplyFixtures, FixturesApplied,
      MakeArgs, EndTest, DropDatabase, Forget, Mark
<1>2. CASE TemplateStep(t)
  BY <1>2
  DEF TemplateStep, TouchExisting, TouchFirst, Clone, LockTemplate,
      TemplateExists, ListOrphans, DropOrphan, CreateBuilding,
      ConnectBuilding, ApplySchema, DiscardBuilding, Publish, Touch,
      UnlockTemplate, CloneAgain
<1>3. CASE SweepStep(t)
  BY <1>3
  DEF SweepStep, TrySweepLock, TryTemplateLock, TryLock, ListLeftovers,
      SweepDrop, SweepForget, SweepRuns, SweepUnlock, ListSweepOrphans,
      DropSweepOrphan, ListIdle, Retire, RetireDrop, RetireForget, RetireUnlock
<1>4. CASE Fails(t) \/ Crash(t)
  BY <1>4 DEF Fails, HarnessFails, TemplateFails, SweepFails, Crash
<1> QED
  BY <1>1, <1>2, <1>3, <1>4 DEF Works

(* What else happens concerns connections and sessions, and the clock.      *)
LEMMA SurroundingsKeep ==
  ASSUME \/ \E t \in Tasks : UseDatabase(t) \/ LoseMaster(t) \/ Reap(t)
         \/ Inspect \/ StopInspecting \/ Tick \/ UNCHANGED vars
  PROVE  /\ UNCHANGED <<content, books, pc, loop, born, verdict>>
         /\ lost \subseteq lost'
         /\ Tick \/ now' = now
  BY DEF UseDatabase, LoseMaster, Reap, ReapMaster, ReapClient, EndMaster,
     Connect, Disconnect, Inspect, StopInspecting, Tick, locals, catalog, vars,
     loop, books

(* A task is dated when it registers, and what Tick waits for it to have    *)
(* done by then, it has.                                                    *)
Timely(t) ==
  /\ pc[t] = "start" => born[t] = Never
  /\ pc[t] \notin Ended \cup {"start"} => born[t] # Never
  /\ born[t] <= now
  /\ InSetup(t) => now <= born[t] + SetupLimit
  /\ InTest(t) => now <= born[t] + TestLimit

AllTimely == \A t \in Tasks : Timely(t)

LEMMA TaskTimely ==
  ASSUME TypeOK, AllTimely, NEW t \in Tasks,
         Works(t) \/ Fails(t) \/ Crash(t)
  PROVE  AllTimely'
<1>1. Onward(t) /\ now' = now /\ (Register(t) \/ born' = born)
  BY WorkOnward, FailureOnward, WorkTakesNoTime
<1>2. \A u \in Tasks \ {t} : pc'[u] = pc[u]
  <2>1. CASE Fails(t) \/ Crash(t)
    BY <2>1 DEF Fails, HarnessFails, TemplateFails, SweepFails, Crash, Refused,
       Goto, TypeOK
  <2> QED
    BY <2>1, OthersStay
<1>3. CASE Register(t)
  BY <1>1, <1>2, <1>3, HarnessAssumption
  DEF Register, Goto, AllTimely, Timely, InSetup, InTest, TypeOK, ServerTypeOK,
      Never
<1>4. CASE born' = born /\ ~Register(t)
  <2>1. \A u \in Tasks \ {t} : Timely(u)'
    BY <1>1, <1>2, <1>4 DEF AllTimely, Timely, InSetup, InTest
  <2>2. Timely(t)'
    BY <1>1, <1>4
    DEF AllTimely, Timely, InSetup, InTest, TypeOK, Onward, Late
  <2> QED
    BY <2>1, <2>2 DEF AllTimely
<1> QED
  BY <1>1, <1>3, <1>4

LEMMA TimelyInvariant == Spec => []AllTimely
<1>1. Init => AllTimely
  BY DEF Init, AllTimely, Timely, InSetup, InTest, Never
<1>2. ASSUME TypeOK, AllTimely, [Next]_vars PROVE AllTimely'
  <2>1. CASE Tick
    BY <1>2, <2>1, HarnessAssumption
    DEF Tick, AllTimely, Timely, InSetup, InTest, locals, TypeOK, ServerTypeOK,
        Never
  <2>2. ASSUME UNCHANGED <<now, pc, born>> PROVE AllTimely'
    BY <1>2, <2>2 DEF AllTimely, Timely, InSetup, InTest
  <2> QED
    BY <1>2, <2>1, <2>2, TaskTimely, SurroundingsKeep
    DEF Next, TaskStep, Terminating
<1> QED
  BY <1>1, <1>2, TypeCorrect, PTL DEF Spec

-----------------------------------------------------------------------------
(* What a sweep has in hand: the names on its list, and the one it has just *)
(* taken from it.                                                           *)

InHand(t) ==
  todo[t] \cup
    (IF pc[t] \in {"sweep_forget", "retire_drop", "retire_forget"}
       THEN {victim[t]} ELSE {})

(* Only reading a list fills a task's hands.                                *)
LEMMA HandsEmpty ==
  ASSUME TypeOK, NEW t \in Tasks, Works(t) \/ Fails(t) \/ Crash(t)
  PROVE  \/ InHand(t)' \subseteq InHand(t)
         \/ ListLeftovers(t) /\ InHand(t)' = LeftoverDatabases(t)
         \/ ListIdle(t) /\ InHand(t)' = IdleTemplates(t)
         \/ InHand(t)' = BuildingDatabases(t)
<1> USE DEF Step, Refused, ListNames, Skip, Rest, Forgotten, Discard, Goto,
        loop, InHand, TypeOK
<1>1. CASE HarnessStep(t)
  BY <1>1
  DEF HarnessStep, Register, Unregister, ApplyFixtures, FixturesApplied,
      MakeArgs, EndTest, DropDatabase, Forget, Mark
<1>2. CASE TemplateStep(t)
  BY <1>2
  DEF TemplateStep, TouchExisting, TouchFirst, Clone, LockTemplate,
      TemplateExists, ListOrphans, DropOrphan, CreateBuilding,
      ConnectBuilding, ApplySchema, DiscardBuilding, Publish, Touch,
      UnlockTemplate, CloneAgain
<1>3. CASE ListLeftovers(t) \/ ListSweepOrphans(t) \/ ListIdle(t)
  BY <1>3 DEF ListLeftovers, ListSweepOrphans, ListIdle
<1>4. CASE SweepDrop(t) \/ SweepForget(t) \/ DropSweepOrphan(t)
  BY <1>4 DEF SweepDrop, SweepForget, DropSweepOrphan
<1>5. CASE Retire(t) \/ RetireDrop(t) \/ RetireForget(t)
  BY <1>5 DEF Retire, RetireDrop, RetireForget
<1>6. CASE TrySweepLock(t) \/ TryTemplateLock(t) \/ SweepRuns(t)
             \/ SweepUnlock(t) \/ RetireUnlock(t)
  BY <1>6
  DEF TrySweepLock, TryTemplateLock, TryLock, SweepRuns, SweepUnlock,
      RetireUnlock
<1>7. CASE Fails(t) \/ Crash(t)
  BY <1>7 DEF Fails, HarnessFails, TemplateFails, SweepFails, Crash
<1> QED
  BY <1>1, <1>2, <1>3, <1>4, <1>5, <1>6, <1>7 DEF Works, SweepStep

(* A step of one task leaves the others, and what they have in hand.        *)
LEMMA OthersSteady ==
  ASSUME TypeOK, NEW v \in Tasks, StepOf(v), NEW u \in Tasks \ {v}
  PROVE  /\ pc'[u] = pc[u] /\ victim'[u] = victim[u]
         /\ InHand(u)' = InHand(u)
<1>1. CASE Fails(v) \/ Crash(v)
  BY <1>1 DEF Fails, HarnessFails, TemplateFails, SweepFails, Crash, Refused,
     Goto, InHand, TypeOK
<1> QED
  BY <1>1, OthersStay DEF StepOf, InHand
=============================================================================
