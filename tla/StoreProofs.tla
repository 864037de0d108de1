---------------------------- MODULE StoreProofs ----------------------------
(***************************************************************************)
(* Templates and test databases of Harness.tla are complete, and the       *)
(* harness implements Store.tla.                                           *)
(***************************************************************************)
EXTENDS HarnessProofs

-----------------------------------------------------------------------------
(* Completeness.  The invariant needs to say why a template is complete:    *)
(* what a builder is about to publish holds its whole schema, unless        *)
(* somebody dropped it.                                                     *)

BuildingsComplete ==
  \A t \in Tasks :
    pc[t] = "publish" => content[Building(t)] \in {Absent, SchemaOf[t]}

ContentInv == DatabasesComplete /\ BuildingsComplete

(* Nothing appears: every database is as it was, or gone.                   *)
Shrinks == \A n \in Names : content'[n] \in {Absent, content[n]}

NobodyReachesPublish ==
  \A u \in Tasks : pc'[u] = "publish" => pc[u] = "publish"

LEMMA ShrinkingKeeps ==
  ASSUME ContentInv, Shrinks, NobodyReachesPublish
  PROVE  ContentInv'
  BY TaskNames DEF ContentInv, DatabasesComplete, BuildingsComplete, Shrinks,
     NobodyReachesPublish

(* All statements but CREATE DATABASE, publish and the schema's own only    *)
(* shrink the catalog.                                                      *)
LEMMA OtherStatementsShrink ==
  ASSUME TypeOK, NEW t, NEW n, NEW k,
         \/ DropForce(n) \/ DropIfIdle(n) \/ RetireTemplate(n)
         \/ Connect(n) \/ Disconnect(n)
         \/ Lock(t, k) \/ Unlock(t, k) \/ EndMaster(t)
         \/ RegisterTest(t) \/ MarkFailed(t) \/ ForgetDatabase(t)
         \/ TouchTemplate(t) \/ ForgetTemplate(t, n) \/ ForgetStaleRuns(t)
         \/ UNCHANGED server
  PROVE  Shrinks
  BY DEF Shrinks, DropForce, DropIfIdle, RetireTemplate, Connect, Disconnect,
     Lock, Unlock, EndMaster, RegisterTest, MarkFailed, ForgetDatabase,
     TouchTemplate, ForgetTemplate, ForgetStaleRuns, server, catalog, TypeOK,
     ServerTypeOK

LEMMA GotoElsewhere ==
  ASSUME TypeOK, NEW t \in Tasks, NEW to, to # "publish", Goto(t, to)
  PROVE  NobodyReachesPublish
  BY DEF NobodyReachesPublish, Goto, TypeOK

(* A database drawn from a template has what the template has.              *)
LEMMA CloningKeeps ==
  ASSUME TypeOK, ContentInv, NEW t \in Tasks, NobodyReachesPublish,
         CloneDatabase(TestDb(t), Template(t))
  PROVE  ContentInv'
<1>1. \A n \in Names : content'[n] = IF n = TestDb(t) THEN content[Template(t)]
                                                     ELSE content[n]
  BY TaskNames DEF CloneDatabase, TypeOK, ServerTypeOK
<1> QED
  BY <1>1, NamesDiffer, TaskNames
  DEF ContentInv, DatabasesComplete, BuildingsComplete, NobodyReachesPublish

LEMMA CreatingKeeps ==
  ASSUME TypeOK, ContentInv, NEW t \in Tasks, CreateBuilding(t)
  PROVE  ContentInv'
<1>1. \A n \in Names : content'[n] = IF n = Building(t) THEN Partial
                                                       ELSE content[n]
  BY TaskNames DEF CreateBuilding, CreateDatabase, TypeOK, ServerTypeOK
<1>2. pc[t] = "create" /\ NobodyReachesPublish /\ pc'[t] # "publish"
  BY GotoElsewhere DEF CreateBuilding, Step, Goto, TypeOK
<1> QED
  BY <1>1, <1>2, NamesDiffer, TaskNames
  DEF ContentInv, DatabasesComplete, BuildingsComplete, NobodyReachesPublish

LEMMA ApplyingKeeps ==
  ASSUME TypeOK, ContentInv, NEW t \in Tasks, ApplySchema(t)
  PROVE  ContentInv'
<1>1. CASE Disconnect(Building(t)) /\ Step(t, "apply", "discard")
  BY <1>1, ShrinkingKeeps, OtherStatementsShrink, GotoElsewhere DEF Step
<1>2. CASE /\ content' = [content EXCEPT ![Building(t)] = SchemaOf[t]]
           /\ Step(t, "apply", "publish")
  <2>1. \A n \in Names : content'[n] = IF n = Building(t) THEN SchemaOf[t]
                                                         ELSE content[n]
    BY <1>2, TaskNames DEF TypeOK, ServerTypeOK
  <2>2. \A u \in Tasks \ {t} : pc'[u] = pc[u]
    BY <1>2 DEF Step, Goto, TypeOK
  <2> QED
    BY <2>1, <2>2, NamesDiffer, TaskNames
    DEF ContentInv, DatabasesComplete, BuildingsComplete
<1> QED
  BY <1>1, <1>2 DEF ApplySchema

LEMMA PublishingKeeps ==
  ASSUME TypeOK, ContentInv, NEW t \in Tasks, Publish(t)
  PROVE  ContentInv'
<1>1. CASE Refused(t, "unlock_err")
  BY <1>1, ShrinkingKeeps, OtherStatementsShrink, GotoElsewhere DEF Refused
<1>2. CASE /\ Step(t, "publish", "touch")
           /\ PublishTemplate(Building(t), Template(t))
  <2>1. content[Building(t)] = SchemaOf[t]
    BY <1>2 DEF Step, PublishTemplate, CanPublish, Exists, ContentInv,
       BuildingsComplete
  <2>2. \A n \in Names : content'[n] = CASE n = Building(t) -> Absent
                                         [] n = Template(t) -> SchemaOf[t]
                                         [] OTHER -> content[n]
    BY <1>2, <2>1, NamesDiffer, TaskNames
    DEF PublishTemplate, TypeOK, ServerTypeOK
  <2>3. NobodyReachesPublish
    BY <1>2, GotoElsewhere DEF Step
  <2> QED
    BY <2>2, <2>3, NamesDiffer, TaskNames
    DEF ContentInv, DatabasesComplete, BuildingsComplete, NobodyReachesPublish
<1> QED
  BY <1>1, <1>2 DEF Publish

-----------------------------------------------------------------------------
LEMMA TemplateStepKeepsContent ==
  ASSUME TypeOK, ContentInv, NEW t \in Tasks, TemplateStep(t)
  PROVE  ContentInv'
<1>1. CASE TouchExisting(t) \/ TemplateExists(t) \/ TouchFirst(t) \/ Touch(t)
  BY <1>1, ShrinkingKeeps, OtherStatementsShrink, GotoElsewhere
  DEF TouchExisting, TemplateExists, TouchFirst, Touch, Step
<1>2. CASE LockTemplate(t) \/ UnlockTemplate(t)
  BY <1>2, ShrinkingKeeps, OtherStatementsShrink, GotoElsewhere
  DEF LockTemplate, UnlockTemplate, Step
<1>3. CASE Clone(t) \/ CloneAgain(t)
  BY <1>3, CloningKeeps, ShrinkingKeeps, OtherStatementsShrink, GotoElsewhere
  DEF Clone, CloneAgain, Step, Refused
<1>4. CASE ListOrphans(t) \/ DropOrphan(t)
  BY <1>4, ShrinkingKeeps, OtherStatementsShrink, GotoElsewhere
  DEF ListOrphans, ListNames, DropOrphan, Skip, Rest
<1>5. CASE ConnectBuilding(t) \/ DiscardBuilding(t)
  BY <1>5, ShrinkingKeeps, OtherStatementsShrink, GotoElsewhere
  DEF ConnectBuilding, DiscardBuilding, Step, Refused
<1> QED
  BY <1>1, <1>2, <1>3, <1>4, <1>5, CreatingKeeps, ApplyingKeeps,
     PublishingKeeps DEF TemplateStep

LEMMA SweepStepKeepsContent ==
  ASSUME TypeOK, ContentInv, NEW t \in Tasks, SweepStep(t)
  PROVE  ContentInv'
<1>1. CASE TrySweepLock(t) \/ TryTemplateLock(t) \/ SweepUnlock(t) \/ RetireUnlock(t)
  BY <1>1, ShrinkingKeeps, OtherStatementsShrink, GotoElsewhere
  DEF TrySweepLock, TryTemplateLock, SweepUnlock, RetireUnlock, TryLock, Step
<1>2. CASE ListLeftovers(t) \/ ListSweepOrphans(t) \/ ListIdle(t)
  BY <1>2, ShrinkingKeeps, OtherStatementsShrink, GotoElsewhere
  DEF ListLeftovers, ListSweepOrphans, ListIdle, ListNames
<1>3. CASE SweepDrop(t) \/ DropSweepOrphan(t)
  BY <1>3, ShrinkingKeeps, OtherStatementsShrink, GotoElsewhere
  DEF SweepDrop, DropSweepOrphan, Skip, Rest
<1>4. CASE SweepForget(t) \/ RetireForget(t) \/ SweepRuns(t)
  BY <1>4, ShrinkingKeeps, OtherStatementsShrink, GotoElsewhere
  DEF SweepForget, RetireForget, SweepRuns, Forgotten, Step
<1>5. CASE Retire(t) \/ RetireDrop(t)
  BY <1>5, ShrinkingKeeps, OtherStatementsShrink, GotoElsewhere
  DEF Retire, RetireDrop, Refused, Forgotten, Step
<1> QED
  BY <1>1, <1>2, <1>3, <1>4, <1>5 DEF SweepStep

LEMMA HarnessStepKeepsContent ==
  ASSUME TypeOK, ContentInv, NEW t \in Tasks, HarnessStep(t)
  PROVE  ContentInv'
<1>1. CASE Register(t) \/ Unregister(t) \/ Forget(t) \/ Mark(t)
  BY <1>1, ShrinkingKeeps, OtherStatementsShrink, GotoElsewhere
  DEF Register, Unregister, Forget, Mark, Step
<1>2. CASE ApplyFixtures(t) \/ FixturesApplied(t) \/ MakeArgs(t)
  BY <1>2, ShrinkingKeeps, OtherStatementsShrink, GotoElsewhere
  DEF ApplyFixtures, FixturesApplied, MakeArgs, Discard, Step
<1>3. CASE EndTest(t) \/ DropDatabase(t)
  BY <1>3, ShrinkingKeeps, OtherStatementsShrink, GotoElsewhere
  DEF EndTest, DropDatabase, Step
<1> QED
  BY <1>1, <1>2, <1>3 DEF HarnessStep

LEMMA EnvironmentKeepsContent ==
  ASSUME TypeOK, ContentInv,
         \/ \E t \in Tasks :
              UseDatabase(t) \/ Fails(t) \/ Crash(t) \/ LoseMaster(t) \/ Reap(t)
         \/ Inspect \/ StopInspecting \/ Tick \/ UNCHANGED vars
  PROVE  ContentInv'
<1>1. ASSUME UNCHANGED locals PROVE NobodyReachesPublish
  BY <1>1 DEF NobodyReachesPublish, locals
<1>2. ASSUME NEW t \in Tasks, UseDatabase(t) \/ Reap(t) PROVE ContentInv'
  BY <1>1, <1>2, ShrinkingKeeps, OtherStatementsShrink
  DEF UseDatabase, Reap, ReapMaster, ReapClient
<1>3. ASSUME NEW t \in Tasks, Fails(t) \/ Crash(t) PROVE ContentInv'
  BY <1>3, ShrinkingKeeps, OtherStatementsShrink, GotoElsewhere
  DEF Fails, HarnessFails, TemplateFails, SweepFails, Crash, Refused
<1>4. CASE Inspect \/ StopInspecting
  BY <1>1, <1>4, ShrinkingKeeps, OtherStatementsShrink
  DEF Inspect, StopInspecting
<1>5. CASE Tick \/ UNCHANGED vars
  BY <1>5, ShrinkingKeeps
  DEF Tick, vars, locals, catalog, Shrinks, NobodyReachesPublish
<1>6. ASSUME NEW t \in Tasks, LoseMaster(t) PROVE ContentInv'
  BY <1>6, ShrinkingKeeps, OtherStatementsShrink
  DEF LoseMaster, NobodyReachesPublish
<1> QED
  BY <1>2, <1>3, <1>4, <1>5, <1>6

LEMMA InitContent == Init => ContentInv
<1> SUFFICES ASSUME Init PROVE ContentInv
  OBVIOUS
<1>1. frozen \subseteq Templates
  BY HarnessAssumption DEF Init
<1>2. \A t \in Tasks : content[TestDb(t)] = Absent
  BY <1>1, NamesDiffer, TaskNames DEF Init, Templates
<1>3. \A t \in Tasks : content[Template(t)] \in {Absent, SchemaOf[t]}
  BY TaskNames DEF Init, Template
<1> QED
  BY <1>2, <1>3 DEF Init, ContentInv, DatabasesComplete, BuildingsComplete

LEMMA ContentInvariant == Spec => []ContentInv
<1>1. TypeOK /\ ContentInv /\ [Next]_vars => ContentInv'
  BY TemplateStepKeepsContent, SweepStepKeepsContent, HarnessStepKeepsContent,
     EnvironmentKeepsContent DEF Next, TaskStep, Works, Terminating
<1> QED
  BY <1>1, InitContent, TypeCorrect, PTL DEF Spec

(* Every template and every test database has its schema in full, whoever   *)
(* built it, under any interleaving, failure, death and cleaning, even      *)
(* when homes share a prefix: only publish_template gives a template its    *)
(* name, and only clone_database a test its database.                       *)
THEOREM ContentCorrect == Spec => []DatabasesComplete
<1>1. ContentInv => DatabasesComplete
  BY DEF ContentInv
<1> QED
  BY <1>1, ContentInvariant, PTL

-----------------------------------------------------------------------------
(* Refinement.  What a step does to the store is read off its effect on the *)
(* catalog: nothing, one database fewer, one building written, a building   *)
(* published, or one clone.  The one fact needed beyond complete contents   *)
(* is that a task which has not cloned yet has no database, so that no      *)
(* sweep can take one from it.                                              *)


NotYet == \A t \in Tasks : pc[t] \in BeforeClone => ~Exists(TestDb(t))

StoreInv == TypeOK /\ ContentInv /\ NotYet

(* Nobody but t moves; t stays before its clone, or after it, or leaves.    *)
Alone(t)  == \A u \in Tasks \ {t} : pc'[u] = pc[u]
Stays(t)  == Alone(t) /\ (pc'[t] \in BeforeClone <=> pc[t] \in BeforeClone)
Moves(t)  == Alone(t) /\ (pc'[t] \in BeforeClone => pc[t] \in BeforeClone)

OnlyAt(n) == \A x \in Names : x # n => content'[x] = content[x]
Drops(n)  == OnlyAt(n) /\ (n \in Names => content'[n] \in {Absent, content[n]})

(* What a step of t, or of its surroundings, may do.                        *)
Effect(t) ==
  \/ content' = content /\ Moves(t)
  \/ (\E n : Drops(n)) /\ Stays(t)
  \/ OnlyAt(Building(t)) /\ Stays(t)
  \/ PublishTemplate(Building(t), Template(t)) /\ Stays(t)
  \/ /\ CloneDatabase(TestDb(t), Template(t))
     /\ Alone(t) /\ pc[t] \in BeforeClone /\ pc'[t] \notin BeforeClone

StoreStep == S!Next \/ UNCHANGED S!vars

-----------------------------------------------------------------------------
(* Each effect is a step of the store or none.                              *)

LEMMA TemplateSchema == \A t \in Tasks : Template(t)[3] = SchemaOf[t]
  BY DEF Template

LEMMA Unseen ==
  ASSUME \A n \in Templates : content'[n] = content[n],
         \A t \in Tasks : DatabaseOf(t)' = DatabaseOf(t)
  PROVE  StoreStep
<1>1. CompleteTemplates' = CompleteTemplates
  BY DEF CompleteTemplates
<1> QED
  BY <1>1 DEF StoreStep, S!vars

LEMMA OneLost ==
  ASSUME \A n \in Templates : content'[n] = content[n], NEW t \in Tasks,
         DatabaseOf(t) # "gone", DatabaseOf(t)' = "gone",
         \A u \in Tasks \ {t} : DatabaseOf(u)' = DatabaseOf(u)
  PROVE  StoreStep
<1>1. CompleteTemplates' = CompleteTemplates
  BY DEF CompleteTemplates
<1>2. S!Lose(t)
  BY <1>1 DEF S!Lose
<1> QED
  BY <1>2 DEF StoreStep, S!Next

LEMMA QuietEffect ==
  ASSUME StoreInv, NEW t \in Tasks, content' = content, Moves(t)
  PROVE  NotYet' /\ StoreStep
<1>1. NotYet'
  BY DEF StoreInv, NotYet, Moves, Alone, Exists
<1>2. \A u \in Tasks \ {t} : DatabaseOf(u)' = DatabaseOf(u)
  BY DEF DatabaseOf, Moves, Alone, Exists
<1>3. \/ DatabaseOf(t)' = DatabaseOf(t)
      \/ DatabaseOf(t) # "gone" /\ DatabaseOf(t)' = "gone"
  BY DEF DatabaseOf, Moves, Exists
<1>4. CASE DatabaseOf(t)' = DatabaseOf(t)
  <2>1. \A u \in Tasks : DatabaseOf(u)' = DatabaseOf(u)
    BY <1>2, <1>4
  <2> QED
    BY <1>1, <2>1, Unseen
<1>5. CASE DatabaseOf(t) # "gone" /\ DatabaseOf(t)' = "gone"
  BY <1>1, <1>2, <1>5, OneLost
<1> QED
  BY <1>3, <1>4, <1>5

LEMMA DropEffect ==
  ASSUME StoreInv, NEW t \in Tasks, NEW n, Drops(n), Stays(t)
  PROVE  NotYet' /\ StoreStep
<1>0. \A x \in Names : content'[x] \in {Absent, content[x]}
  BY DEF Drops, OnlyAt
<1>1. NotYet'
  BY <1>0, TaskNames DEF StoreInv, NotYet, Stays, Alone, Exists
<1>2. \A u \in Tasks : pc'[u] \in BeforeClone <=> pc[u] \in BeforeClone
  BY DEF Stays, Alone
<1>3. \A u \in Tasks : n # TestDb(u) => DatabaseOf(u)' = DatabaseOf(u)
  BY <1>2, TaskNames DEF DatabaseOf, Exists, Drops, OnlyAt
<1>4. CASE \E u \in Tasks : n = TestDb(u)
  <2>1. PICK u \in Tasks : n = TestDb(u)
    BY <1>4
  <2>2. \A x \in Templates : content'[x] = content[x]
    <3>1. \A v \in Tasks : content'[Template(v)] = content[Template(v)]
      BY <2>1, NamesDiffer, TaskNames DEF Drops, OnlyAt
    <3> QED
      BY <3>1 DEF Templates
  <2>3. \A v \in Tasks \ {u} : DatabaseOf(v)' = DatabaseOf(v)
    BY <1>3, <2>1, NamesDiffer
  <2>4. content'[TestDb(u)] \in {Absent, content[TestDb(u)]}
    BY <1>0, TaskNames
  <2>5. \/ DatabaseOf(u)' = DatabaseOf(u)
        \/ DatabaseOf(u) # "gone" /\ DatabaseOf(u)' = "gone"
    BY <1>2, <2>4 DEF DatabaseOf, Exists, StoreInv, NotYet
  <2> QED
    BY <1>1, <2>2, <2>3, <2>5, Unseen, OneLost
<1>5. CASE \A u \in Tasks : n # TestDb(u)
  <2>1. [u \in Tasks |-> DatabaseOf(u)]' = [u \in Tasks |-> DatabaseOf(u)]
    BY <1>3, <1>5
  <2>2. CASE content'[n] # content[n] /\ n \in CompleteTemplates
    <3>1. n \in Names /\ content'[n] = Absent
      BY <2>2 DEF CompleteTemplates, Names, Drops
    <3>2. n[3] # Absent
      BY <2>2, TaskNames, SettingsAssumption
      DEF CompleteTemplates, Templates, Template
    <3>3. CompleteTemplates' = CompleteTemplates \ {n}
      BY <3>1, <3>2 DEF CompleteTemplates, Drops, OnlyAt, Names
    <3>4. S!Retire(n)
      BY <2>1, <2>2, <3>3 DEF S!Retire
    <3> QED
      BY <1>1, <2>2, <3>4 DEF StoreStep, S!Next, CompleteTemplates
  <2>3. CASE ~(content'[n] # content[n] /\ n \in CompleteTemplates)
    <3>1. CompleteTemplates' = CompleteTemplates
      <4>1. \A x \in Templates : x # n => content'[x] = content[x]
        BY DEF Drops, OnlyAt, Names
      <4>2. n \in Templates /\ content'[n] # content[n] =>
              content'[n] # n[3] /\ content[n] # n[3]
        BY <2>3, <1>0, SettingsAssumption, TaskNames
        DEF CompleteTemplates, Templates, Template, Names
      <4> QED
        BY <4>1, <4>2 DEF CompleteTemplates
    <3> QED
      BY <1>1, <2>1, <3>1 DEF StoreStep, S!vars
  <2> QED
    BY <2>2, <2>3
<1> QED
  BY <1>4, <1>5

LEMMA BuildingEffect ==
  ASSUME StoreInv, NEW t \in Tasks, OnlyAt(Building(t)), Stays(t)
  PROVE  NotYet' /\ StoreStep
<1>1. \A u \in Tasks : content'[TestDb(u)] = content[TestDb(u)]
  BY NamesDiffer, TaskNames DEF OnlyAt
<1>2. \A x \in Templates : content'[x] = content[x]
  <2>1. \A u \in Tasks : content'[Template(u)] = content[Template(u)]
    BY NamesDiffer, TaskNames DEF OnlyAt
  <2> QED
    BY <2>1 DEF Templates
<1>3. \A u \in Tasks : pc'[u] \in BeforeClone <=> pc[u] \in BeforeClone
  BY DEF Stays, Alone
<1> QED
  BY <1>1, <1>2, <1>3, Unseen DEF StoreInv, NotYet, DatabaseOf, Exists

LEMMA PublishEffect ==
  ASSUME StoreInv, DatabasesComplete', NEW t \in Tasks,
         PublishTemplate(Building(t), Template(t)), Stays(t)
  PROVE  NotYet' /\ StoreStep
<1>1. /\ \A x \in Names \ {Building(t), Template(t)} : content'[x] = content[x]
      /\ content'[Template(t)] = content[Building(t)]
      /\ content[Building(t)] # Absent /\ content[Template(t)] = Absent
  BY NamesDiffer, TaskNames
  DEF PublishTemplate, CanPublish, Exists, StoreInv, TypeOK, ServerTypeOK
<1>2. content'[Template(t)] = Template(t)[3]
  BY <1>1, TemplateSchema DEF DatabasesComplete
<1>3. \A u \in Tasks : content'[TestDb(u)] = content[TestDb(u)]
  BY <1>1, NamesDiffer, TaskNames
<1>4. \A u \in Tasks : pc'[u] \in BeforeClone <=> pc[u] \in BeforeClone
  BY DEF Stays, Alone
<1>5. NotYet' /\ \A u \in Tasks : DatabaseOf(u)' = DatabaseOf(u)
  BY <1>3, <1>4 DEF StoreInv, NotYet, DatabaseOf, Exists
<1>6. Template(t) \notin CompleteTemplates
  BY <1>1, TemplateSchema, TaskNames, SettingsAssumption DEF CompleteTemplates
<1>7. CompleteTemplates' = CompleteTemplates \cup {Template(t)}
  <2>1. \A x \in Templates : x # Template(t) => content'[x] = content[x]
    BY <1>1, NamesDiffer DEF Templates, Names
  <2> QED
    BY <1>2, <2>1, TaskNames DEF CompleteTemplates
<1>8. S!Build(Template(t))
  BY <1>5, <1>6, <1>7 DEF S!Build
<1> QED
  BY <1>5, <1>8, TaskNames DEF StoreStep, S!Next

LEMMA CloneEffect ==
  ASSUME StoreInv, NEW t \in Tasks, CloneDatabase(TestDb(t), Template(t)),
         Alone(t), pc[t] \in BeforeClone, pc'[t] \notin BeforeClone
  PROVE  NotYet' /\ StoreStep
<1>1. /\ \A x \in Names : x # TestDb(t) => content'[x] = content[x]
      /\ content'[TestDb(t)] = content[Template(t)]
      /\ content[TestDb(t)] = Absent /\ content[Template(t)] # Absent
  BY TaskNames DEF CloneDatabase, Exists, StoreInv, TypeOK, ServerTypeOK
<1>2. \A u \in Tasks \ {t} : /\ content'[TestDb(u)] = content[TestDb(u)]
                             /\ pc'[u] = pc[u]
  BY <1>1, NamesDiffer, TaskNames DEF Alone
<1>3. /\ \A u \in Tasks \ {t} : DatabaseOf(u)' = DatabaseOf(u)
      /\ DatabaseOf(t) = "none" /\ DatabaseOf(t)' = "there"
  BY <1>1, <1>2 DEF DatabaseOf, Exists
<1>4. NotYet'
  BY <1>2 DEF StoreInv, NotYet, Exists
<1>5. CompleteTemplates' = CompleteTemplates
  BY <1>1, NamesDiffer DEF CompleteTemplates, Templates, Names
<1>6. Template(t) \in CompleteTemplates
  BY <1>1, TemplateSchema, TaskNames
  DEF CompleteTemplates, StoreInv, ContentInv, DatabasesComplete
<1>7. S!Clone(t)
  BY <1>3, <1>5, <1>6 DEF S!Clone
<1> QED
  BY <1>4, <1>7 DEF StoreStep, S!Next

LEMMA EffectIsStoreStep ==
  ASSUME StoreInv, DatabasesComplete', NEW t \in Tasks, Effect(t)
  PROVE  NotYet' /\ StoreStep
  BY QuietEffect, DropEffect, BuildingEffect, PublishEffect, CloneEffect
  DEF Effect

-----------------------------------------------------------------------------
(* Every step has one of these effects.                                     *)

LEMMA WholeCatalogStatements ==
  ASSUME NEW t, NEW n, NEW k,
         \/ Lock(t, k) \/ Unlock(t, k) \/ EndMaster(t)
         \/ RegisterTest(t) \/ MarkFailed(t) \/ ForgetDatabase(t)
         \/ TouchTemplate(t) \/ ForgetTemplate(t, n) \/ ForgetStaleRuns(t)
         \/ RetireTemplate(n) \/ Connect(n) \/ Disconnect(n) \/ UNCHANGED server
  PROVE  content' = content
  BY DEF Lock, Unlock, EndMaster, RegisterTest, MarkFailed, ForgetDatabase,
     TouchTemplate, ForgetTemplate, ForgetStaleRuns, RetireTemplate, Connect,
     Disconnect, server, catalog

LEMMA DroppingStatements ==
  ASSUME TypeOK, NEW n, DropForce(n) \/ DropIfIdle(n)
  PROVE  Drops(n)
  BY DEF Drops, OnlyAt, DropForce, DropIfIdle, TypeOK, ServerTypeOK

LEMMA GotoMoves ==
  ASSUME TypeOK, NEW t \in Tasks, NEW to, Goto(t, to)
  PROVE  /\ Alone(t) /\ pc'[t] = to
         /\ (to \in BeforeClone => pc[t] \in BeforeClone) => Moves(t)
         /\ (to \in BeforeClone <=> pc[t] \in BeforeClone) => Stays(t)
  BY DEF Alone, Moves, Stays, Goto, TypeOK

LEMMA TemplateStepEffect ==
  ASSUME TypeOK, NEW t \in Tasks, TemplateStep(t)
  PROVE  Effect(t)
<1> USE GotoMoves DEF BeforeClone, TemplateLabels, SweepLabels, Step, Refused
<1>1. CASE TouchExisting(t) \/ TemplateExists(t) \/ TouchFirst(t) \/ Touch(t)
             \/ LockTemplate(t) \/ UnlockTemplate(t)
  BY <1>1, WholeCatalogStatements
  DEF TouchExisting, TemplateExists, TouchFirst, Touch, LockTemplate,
      UnlockTemplate, Effect
<1>2. CASE Clone(t) \/ CloneAgain(t)
  BY <1>2, WholeCatalogStatements DEF Clone, CloneAgain, Effect
<1>3. CASE ListOrphans(t)
  BY <1>3, WholeCatalogStatements DEF ListOrphans, ListNames, Effect
<1>4. CASE DropOrphan(t) \/ DiscardBuilding(t)
  BY <1>4, DroppingStatements
  DEF DropOrphan, DiscardBuilding, Skip, Rest, Effect
<1>5. CASE CreateBuilding(t) \/ ApplySchema(t)
  <2>1. OnlyAt(Building(t)) \/ content' = content
    BY <1>5, WholeCatalogStatements
    DEF CreateBuilding, CreateDatabase, ApplySchema, OnlyAt, TypeOK, ServerTypeOK
  <2> QED
    BY <1>5, <2>1 DEF CreateBuilding, ApplySchema, Effect
<1>6. CASE ConnectBuilding(t)
  BY <1>6, WholeCatalogStatements DEF ConnectBuilding, Effect
<1>7. CASE Publish(t)
  BY <1>7, WholeCatalogStatements DEF Publish, Effect
<1> QED
  BY <1>1, <1>2, <1>3, <1>4, <1>5, <1>6, <1>7 DEF TemplateStep

LEMMA SweepStepEffect ==
  ASSUME TypeOK, NEW t \in Tasks, SweepStep(t)
  PROVE  Effect(t)
<1> USE GotoMoves DEF BeforeClone, TemplateLabels, SweepLabels, Step, Refused
<1>1. CASE TrySweepLock(t) \/ TryTemplateLock(t) \/ SweepUnlock(t) \/ RetireUnlock(t)
  BY <1>1, WholeCatalogStatements
  DEF TrySweepLock, TryTemplateLock, SweepUnlock, RetireUnlock, TryLock, Effect
<1>2. CASE ListLeftovers(t) \/ ListSweepOrphans(t) \/ ListIdle(t)
  BY <1>2, WholeCatalogStatements
  DEF ListLeftovers, ListSweepOrphans, ListIdle, ListNames, Effect
<1>3. CASE SweepForget(t) \/ RetireForget(t) \/ SweepRuns(t)
  BY <1>3, WholeCatalogStatements
  DEF SweepForget, RetireForget, SweepRuns, Forgotten, Effect
<1>4. CASE SweepDrop(t) \/ DropSweepOrphan(t)
  BY <1>4, DroppingStatements, WholeCatalogStatements
  DEF SweepDrop, DropSweepOrphan, Skip, Rest, Effect
<1>5. CASE Retire(t)
  BY <1>5, WholeCatalogStatements DEF Retire, Effect
<1>6. CASE RetireDrop(t)
  BY <1>6, DroppingStatements, WholeCatalogStatements
  DEF RetireDrop, Forgotten, Effect
<1> QED
  BY <1>1, <1>2, <1>3, <1>4, <1>5, <1>6 DEF SweepStep

LEMMA HarnessStepEffect ==
  ASSUME TypeOK, NEW t \in Tasks, HarnessStep(t)
  PROVE  Effect(t)
<1> USE GotoMoves DEF BeforeClone, TemplateLabels, SweepLabels, Step
<1>1. CASE Register(t) \/ Unregister(t) \/ Forget(t) \/ Mark(t)
  BY <1>1, WholeCatalogStatements DEF Register, Unregister, Forget, Mark, Effect
<1>2. CASE ApplyFixtures(t) \/ FixturesApplied(t) \/ MakeArgs(t)
  BY <1>2, WholeCatalogStatements
  DEF ApplyFixtures, FixturesApplied, MakeArgs, Discard, Effect
<1>3. CASE EndTest(t)
  BY <1>3, WholeCatalogStatements DEF EndTest, Effect
<1>4. CASE DropDatabase(t)
  BY <1>4, DroppingStatements DEF DropDatabase, Effect
<1> QED
  BY <1>1, <1>2, <1>3, <1>4 DEF HarnessStep

LEMMA EnvironmentEffect ==
  ASSUME TypeOK,
         \/ \E t \in Tasks :
              UseDatabase(t) \/ Fails(t) \/ Crash(t) \/ LoseMaster(t) \/ Reap(t)
         \/ Inspect \/ StopInspecting \/ Tick \/ UNCHANGED vars
  PROVE  \/ content' = content /\ pc' = pc
         \/ \E t \in Tasks : Effect(t)
<1>1. ASSUME NEW t \in Tasks, Fails(t) \/ Crash(t) PROVE Effect(t)
  BY <1>1, GotoMoves, WholeCatalogStatements
  DEF Fails, HarnessFails, TemplateFails, SweepFails, Crash, Refused, Effect,
      BeforeClone, TemplateLabels, SweepLabels, SweepHeld, RetireHeld, Ended
<1>2. ASSUME NEW t \in Tasks, UseDatabase(t) \/ Reap(t) \/ LoseMaster(t)
      PROVE  content' = content /\ pc' = pc
  BY <1>2, WholeCatalogStatements
  DEF UseDatabase, Reap, ReapMaster, ReapClient, LoseMaster, locals
<1>3. CASE Inspect \/ StopInspecting \/ Tick \/ UNCHANGED vars
  BY <1>3, WholeCatalogStatements
  DEF Inspect, StopInspecting, Tick, vars, locals, catalog
<1> QED
  BY <1>1, <1>2, <1>3

LEMMA NextStore == StoreInv /\ DatabasesComplete' /\ [Next]_vars => NotYet' /\ StoreStep
<1> SUFFICES ASSUME StoreInv, DatabasesComplete', [Next]_vars
             PROVE  NotYet' /\ StoreStep
  OBVIOUS
<1>0. TypeOK
  BY DEF StoreInv
<1>1. (\E t \in Tasks : Effect(t)) \/ (content' = content /\ pc' = pc)
  BY <1>0, TemplateStepEffect, SweepStepEffect, HarnessStepEffect,
     EnvironmentEffect DEF Next, TaskStep, Works, Terminating
<1>2. CASE content' = content /\ pc' = pc
  <2>1. \A u \in Tasks : DatabaseOf(u)' = DatabaseOf(u)
    BY <1>2 DEF DatabaseOf, Exists
  <2> QED
    BY <1>2, <2>1, Unseen DEF StoreInv, NotYet, Exists
<1> QED
  BY <1>1, <1>2, EffectIsStoreStep

LEMMA InitStore == Init => NotYet /\ S!Init
<1> SUFFICES ASSUME Init PROVE NotYet /\ S!Init
  OBVIOUS
<1>1. frozen \subseteq Templates
  BY HarnessAssumption DEF Init
<1>2. \A t \in Tasks : content[TestDb(t)] = Absent
  BY <1>1, NamesDiffer, TaskNames DEF Init, Templates
<1>3. \A t \in Tasks : DatabaseOf(t) = "none"
  BY <1>2 DEF Init, DatabaseOf, BeforeClone, Exists
<1> QED
  BY <1>2, <1>3 DEF NotYet, S!Init, CompleteTemplates, Exists

LEMMA StoreInvariant == Spec => [](StoreInv /\ DatabasesComplete)
<1>1. StoreInv /\ DatabasesComplete' /\ [Next]_vars => NotYet'
  BY NextStore
<1>2. TypeOK /\ ContentInv /\ NotYet <=> StoreInv
  BY DEF StoreInv
<1>3. ContentInv => DatabasesComplete
  BY DEF ContentInv
<1>4. Init => NotYet
  BY InitStore
<1> QED
  BY <1>1, <1>2, <1>3, <1>4, TypeCorrect, ContentInvariant, PTL DEF Spec

(* The harness implements the store, for any tasks, homes and settings, and *)
(* whatever dies, fails or loses its session on the way.                    *)
THEOREM StoreImplemented == Spec => ImplementsStore
<1>1. StoreInv /\ DatabasesComplete' /\ [Next]_vars => [S!Next]_S!vars
  BY NextStore DEF StoreStep
<1>2. Init => S!Init
  BY InitStore
<1> QED
  BY <1>1, <1>2, StoreInvariant, PTL DEF Spec, ImplementsStore, S!Spec
=============================================================================
