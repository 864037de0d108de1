---------------------------- MODULE BuildProofs ----------------------------
(***************************************************************************)
(* A template is built once (template.rs): under one home per prefix, a    *)
(* builder that reaches publish_template finds its building complete and   *)
(* idle and the template's name free, and nobody drops the connection of a *)
(* live task.  The argument is mutual exclusion (LockProofs) plus what     *)
(* each list of names can hold: a cleaner that could touch a building of   *)
(* this prefix would hold the lock the builder holds.                      *)
(***************************************************************************)
EXTENDS LockProofs

(* From the check that the template is missing to its publication.          *)
Absentees == {"orphans", "orphans_drop", "create", "connect", "apply", "publish"}

BuildingsOf(p) == {Building(u) : u \in {v \in Tasks : PrefixOf[v] = p}}
TemplatesOf(p) == {Template(u) : u \in {v \in Tasks : PrefixOf[v] = p}}

(* What the lists of the cleaners hold.                                     *)
ListKind(u) ==
  /\ pc[u] \in {"orphans_drop", "sweep_orphans_drop"} =>
       todo[u] \subseteq BuildingsOf(PrefixOf[u])
  /\ pc[u] \in {"sweep_drop", "sweep_forget"} => todo[u] \subseteq TestDbs
  /\ pc[u] \in {"retire", "retire_drop", "retire_forget"} =>
       InHand(u) \subseteq TemplatesOf(PrefixOf[u])

(* How far a builder has come, as long as it has its lock.                  *)
Progress(u) ==
  /\ u \notin lost =>
       /\ pc[u] \in Absentees => ~Exists(Template(u))
       /\ pc[u] \in {"connect", "apply", "publish"} => Exists(Building(u))
       /\ pc[u] = "publish" => content[Building(u)] = SchemaOf[u]
  /\ Building(u) \in connected => pc[u] \in {"apply", "crashed"}

BuildInv == \A u \in Tasks : ListKind(u) /\ Progress(u)

BuildersAlone == TypeOK /\ LocksMatchRegions /\ OneHomePerPrefix

(* No two tasks of a prefix are between lock and unlock at once.            *)
LEMMA OneBuilderPerPrefix ==
  ASSUME BuildersAlone, NEW t \in Tasks, NEW u \in Tasks,
         HoldsTemplate(t), HoldsTemplate(u), PrefixOf[t] = PrefixOf[u]
  PROVE  t = u
<1>1. TemplateKey(t) = TemplateKey(u)
  BY DEF BuildersAlone, OneHomePerPrefix, TemplateKey
<1> QED
  BY <1>1 DEF BuildersAlone, LocksMatchRegions

(* What a step of one task must leave alone for another's progress.         *)
Undisturbed(u) ==
  /\ pc'[u] = pc[u] /\ (u \in lost => u \in lost')
  /\ u \notin lost =>
       /\ content'[Building(u)] # content[Building(u)] =>
            pc[u] \notin {"connect", "apply", "publish"}
       /\ \/ content'[Template(u)] \in {Absent, content[Template(u)]}
          \/ pc[u] \notin Absentees
  /\ Building(u) \in connected' => Building(u) \in connected

LEMMA UndisturbedProgress ==
  ASSUME NEW u \in Tasks, Progress(u), Undisturbed(u)
  PROVE  Progress(u)'
  BY DEF Progress, Undisturbed, Exists, Absentees

(* Statements that leave the catalog alone, or change it at one name.       *)
LEMMA QuietStatements ==
  ASSUME NEW t, NEW n, NEW k,
         \/ Lock(t, k) \/ Unlock(t, k) \/ EndMaster(t)
         \/ RegisterTest(t) \/ MarkFailed(t) \/ ForgetDatabase(t)
         \/ TouchTemplate(t) \/ ForgetTemplate(t, n) \/ ForgetStaleRuns(t)
         \/ RetireTemplate(n) \/ UNCHANGED server
  PROVE  content' = content /\ connected' = connected
  BY DEF Lock, Unlock, EndMaster, RegisterTest, MarkFailed, ForgetDatabase,
     TouchTemplate, ForgetTemplate, ForgetStaleRuns, RetireTemplate, server,
     catalog

(* A statement that changes the catalog at n only, and connects nobody else. *)
Touches(n) ==
  /\ \A x \in Names : x # n => content'[x] = content[x]
  /\ connected' \subseteq connected \cup {n}

LEMMA OneNameStatements ==
  ASSUME TypeOK, NEW n, NEW m,
         \/ DropForce(n) \/ DropIfIdle(n) \/ CreateDatabase(n)
         \/ CloneDatabase(n, m) \/ Connect(n) \/ Disconnect(n)
  PROVE  Touches(n)
  BY DEF Touches, DropForce, DropIfIdle, CreateDatabase, CloneDatabase,
     Connect, Disconnect, TypeOK, ServerTypeOK

LEMMA DropStatements ==
  ASSUME TypeOK, NEW n, DropForce(n) \/ DropIfIdle(n)
  PROVE  /\ \A x \in Names : content'[x] \in {Absent, content[x]}
         /\ connected' \subseteq connected
  BY DEF DropForce, DropIfIdle, TypeOK, ServerTypeOK

(* Whatever t does at its own names disturbs nobody.                        *)
LEMMA OwnNamesUndisturbing ==
  ASSUME NEW t \in Tasks, Touches(TestDb(t)) \/ Touches(Building(t)),
         NEW u \in Tasks, u # t, pc'[u] = pc[u], lost' = lost
  PROVE  Undisturbed(u)
  BY NamesDiffer, TaskNames DEF Undisturbed, Touches

LEMMA QuietUndisturbing ==
  ASSUME content' = content, connected' = connected,
         NEW u \in Tasks, pc'[u] = pc[u], lost \subseteq lost'
  PROVE  Undisturbed(u)
  BY DEF Undisturbed

-----------------------------------------------------------------------------
(* The lists keep to their kinds.                                           *)

Looping == {"orphans_drop", "sweep_orphans_drop", "sweep_drop", "sweep_forget",
            "retire", "retire_drop", "retire_forget"}

LEMMA OtherListsKept ==
  ASSUME NEW u \in Tasks, ListKind(u), pc'[u] = pc[u], todo'[u] = todo[u],
         victim'[u] = victim[u]
  PROVE  ListKind(u)'
  BY DEF ListKind, InHand

LEMMA OutsideLoops ==
  ASSUME TypeOK, NEW u \in Tasks, NEW to, to \notin Looping, Goto(u, to)
  PROVE  ListKind(u)'
  BY DEF ListKind, Goto, Looping, TypeOK

LEMMA ListsKinds ==
  ASSUME TypeOK, NEW t \in Tasks
  PROVE  /\ BuildingDatabases(t) \subseteq BuildingsOf(PrefixOf[t])
         /\ LeftoverDatabases(t) \subseteq TestDbs
         /\ IdleTemplates(t) \subseteq TemplatesOf(PrefixOf[t])
  BY DEF TemplatesOf, Templates, Template, BuildingDatabases, BuildingsOf, LeftoverDatabases, TestDbs,
     IdleTemplates, TypeOK, ServerTypeOK

LEMMA OwnListKept ==
  ASSUME TypeOK, NEW t \in Tasks, ListKind(t), Works(t)
  PROVE  ListKind(t)'
<1> USE DEF Looping
<1>1. CASE HarnessStep(t)
  BY <1>1, OutsideLoops
  DEF HarnessStep, Register, Unregister, ApplyFixtures, FixturesApplied,
      MakeArgs, EndTest, DropDatabase, Forget, Mark, Step, Discard
<1>2. CASE ListOrphans(t) \/ ListLeftovers(t) \/ ListSweepOrphans(t) \/ ListIdle(t)
  BY <1>2, ListsKinds
  DEF ListOrphans, ListLeftovers, ListSweepOrphans, ListIdle, ListNames,
      ListKind, InHand, Goto, TypeOK
<1>3. CASE DropOrphan(t) \/ DropSweepOrphan(t)
  BY <1>3 DEF DropOrphan, DropSweepOrphan, Skip, Rest, ListKind, Goto, TypeOK
<1>4. CASE TemplateStep(t) /\ ~ListOrphans(t) /\ ~DropOrphan(t)
  BY <1>4, OutsideLoops
  DEF TemplateStep, TouchExisting, TouchFirst, Clone, LockTemplate,
      TemplateExists, CreateBuilding, ConnectBuilding, ApplySchema,
      DiscardBuilding, Publish, Touch, UnlockTemplate, CloneAgain, Step, Refused
<1>5. CASE SweepDrop(t)
  BY <1>5 DEF SweepDrop, Skip, Rest, ListKind, Goto, TypeOK
<1>6. CASE SweepForget(t) \/ RetireForget(t)
  BY <1>6 DEF SweepForget, RetireForget, Forgotten, ListKind, InHand,
     Goto, TypeOK
<1>7. CASE Retire(t)
  <2>1. CASE Refused(t, "retire_unlock_err")
    BY <2>1, OutsideLoops DEF Refused
  <2>2. CASE ~Refused(t, "retire_unlock_err")
    BY <1>7, <2>2 DEF Retire, ListKind, InHand, Goto, TypeOK
  <2> QED
    BY <2>1, <2>2
<1>8. CASE RetireDrop(t)
  BY <1>8 DEF RetireDrop, Step, Refused, Forgotten, loop, ListKind, InHand,
     Goto, TypeOK
<1>9. CASE TrySweepLock(t) \/ TryTemplateLock(t) \/ SweepRuns(t)
             \/ SweepUnlock(t) \/ RetireUnlock(t)
  BY <1>9, OutsideLoops
  DEF TrySweepLock, TryTemplateLock, TryLock, SweepRuns, SweepUnlock,
      RetireUnlock, Step
<1> QED
  BY <1>1, <1>2, <1>3, <1>4, <1>5, <1>6, <1>7, <1>8, <1>9
  DEF Works, TemplateStep, SweepStep

-----------------------------------------------------------------------------
(* A step of t does not disturb another task u.                             *)

(* Dropping orphans spares the buildings of live builders: their prefix's   *)
(* lock is not the cleaner's to hold.                                       *)
LEMMA OrphanDropsUndisturbing ==
  ASSUME BuildersAlone, BuildInv, NEW t \in Tasks,
         t \notin lost, pc[t] \in {"orphans_drop", "sweep_orphans_drop"},
         NEW n \in todo[t], DropForce(n),
         NEW u \in Tasks, u # t, pc'[u] = pc[u], lost' = lost
  PROVE  Undisturbed(u)
<1>1. PICK v \in Tasks : n = Building(v) /\ PrefixOf[v] = PrefixOf[t]
  BY DEF BuildInv, ListKind, BuildingsOf
<1>2. u \notin lost /\ pc[u] \in {"connect", "apply", "publish"} => u # v
  BY <1>1, OneBuilderPerPrefix DEF HoldsTemplate, BuildLabels, RetireHeld
<1>3. Touches(n) /\ connected' \subseteq connected
  BY OneNameStatements, DropStatements DEF BuildersAlone
<1> QED
  BY <1>1, <1>2, <1>3, NamesDiffer, TaskNames DEF Undisturbed, Touches

LEMMA PublishUndisturbing ==
  ASSUME BuildersAlone, BuildInv, NEW t \in Tasks, t \notin lost, pc[t] = "publish",
         PublishTemplate(Building(t), Template(t)),
         NEW u \in Tasks, u # t, pc'[u] = pc[u], lost' = lost
  PROVE  Undisturbed(u)
<1>1. u \notin lost /\ pc[u] \in Absentees => Template(u) # Template(t)
  BY OneBuilderPerPrefix, NamesDiffer
  DEF HoldsTemplate, BuildLabels, RetireHeld, Absentees
<1>2. /\ \A x \in Names \ {Building(t), Template(t)} : content'[x] = content[x]
      /\ connected' = connected
  BY DEF PublishTemplate, BuildersAlone, TypeOK, ServerTypeOK
<1> QED
  BY <1>1, <1>2, NamesDiffer, TaskNames DEF Undisturbed

LEMMA TemplateStepUndisturbing ==
  ASSUME BuildersAlone, BuildInv, NEW t \in Tasks, TemplateStep(t),
         t \in lost => pc[t] \in Elsewhere, NEW u \in Tasks, u # t
  PROVE  Undisturbed(u)
<1>0. pc'[u] = pc[u] /\ lost' = lost /\ TypeOK
  BY OthersStay, WorkKeepsSessions DEF Works, BuildersAlone
<1>1. CASE TouchExisting(t) \/ TemplateExists(t) \/ TouchFirst(t) \/ Touch(t)
             \/ LockTemplate(t) \/ UnlockTemplate(t) \/ ListOrphans(t)
  BY <1>0, <1>1, QuietStatements, QuietUndisturbing
  DEF TouchExisting, TemplateExists, TouchFirst, Touch, LockTemplate,
      UnlockTemplate, ListOrphans, ListNames
<1>2. CASE Clone(t) \/ CloneAgain(t)
  BY <1>0, <1>2, OneNameStatements, OwnNamesUndisturbing, QuietStatements,
     QuietUndisturbing DEF Clone, CloneAgain, Refused
<1>3. CASE DropOrphan(t)
  BY <1>0, <1>3, OrphanDropsUndisturbing DEF DropOrphan, Elsewhere
<1>4. CASE CreateBuilding(t) \/ DiscardBuilding(t)
  BY <1>0, <1>4, OneNameStatements, OwnNamesUndisturbing
  DEF CreateBuilding, DiscardBuilding
<1>5. CASE ConnectBuilding(t)
  BY <1>0, <1>5, OneNameStatements, OwnNamesUndisturbing, QuietStatements,
     QuietUndisturbing DEF ConnectBuilding, Refused
<1>6. CASE ApplySchema(t)
  <2>1. Touches(Building(t))
    BY <1>0, <1>6, OneNameStatements
    DEF ApplySchema, Touches, TypeOK, ServerTypeOK
  <2> QED
    BY <1>0, <2>1, OwnNamesUndisturbing
<1>7. CASE Publish(t)
  BY <1>0, <1>7, PublishUndisturbing, QuietStatements, QuietUndisturbing
  DEF Publish, Step, Refused, Elsewhere
<1> QED
  BY <1>1, <1>2, <1>3, <1>4, <1>5, <1>6, <1>7 DEF TemplateStep

LEMMA SweepStepUndisturbing ==
  ASSUME BuildersAlone, BuildInv, NEW t \in Tasks, SweepStep(t),
         t \in lost => pc[t] \in Elsewhere, NEW u \in Tasks, u # t
  PROVE  Undisturbed(u)
<1>0. pc'[u] = pc[u] /\ lost' = lost /\ TypeOK
  BY OthersStay, WorkKeepsSessions DEF Works, BuildersAlone
<1>1. CASE TrySweepLock(t) \/ TryTemplateLock(t) \/ SweepUnlock(t) \/ RetireUnlock(t)
  BY <1>0, <1>1, QuietStatements, QuietUndisturbing
  DEF TrySweepLock, TryTemplateLock, SweepUnlock, RetireUnlock, TryLock
<1>2. CASE ListLeftovers(t) \/ ListSweepOrphans(t) \/ ListIdle(t)
  BY <1>0, <1>2, QuietStatements, QuietUndisturbing
  DEF ListLeftovers, ListSweepOrphans, ListIdle, ListNames
<1>3. CASE SweepForget(t) \/ RetireForget(t) \/ SweepRuns(t)
  BY <1>0, <1>3, QuietStatements, QuietUndisturbing
  DEF SweepForget, RetireForget, SweepRuns
<1>4. CASE SweepDrop(t)
  <2>1. PICK n \in todo[t] : DropIfIdle(n) \/ UNCHANGED server
    BY <1>4 DEF SweepDrop
  <2>2. PICK v \in Tasks : n = TestDb(v)
    BY <1>4, <2>1 DEF SweepDrop, BuildInv, ListKind, TestDbs
  <2>3. CASE DropIfIdle(n)
    <3>1. Touches(n) /\ connected' \subseteq connected
      BY <1>0, <2>3, OneNameStatements, DropStatements
    <3> QED
      BY <1>0, <2>2, <3>1, NamesDiffer, TaskNames DEF Undisturbed, Touches
  <2> QED
    BY <1>0, <2>1, <2>3, QuietStatements, QuietUndisturbing
<1>5. CASE DropSweepOrphan(t)
  BY <1>0, <1>5, OrphanDropsUndisturbing DEF DropSweepOrphan, Elsewhere
<1>6. CASE Retire(t)
  BY <1>0, <1>6, QuietStatements, QuietUndisturbing DEF Retire, Refused
<1>7. CASE RetireDrop(t)
  <2>1. CASE pc[t] = "retire_drop" /\ DropIfIdle(victim[t])
    <3>1. PICK v \in Tasks : victim[t] = Template(v)
      BY <2>1 DEF BuildInv, ListKind, InHand, TemplatesOf
    <3>2. /\ Touches(victim[t]) /\ connected' \subseteq connected
          /\ \A x \in Names : content'[x] \in {Absent, content[x]}
      BY <1>0, <2>1, OneNameStatements, DropStatements
    <3> QED
      BY <1>0, <3>1, <3>2, NamesDiffer, TaskNames DEF Undisturbed, Touches
  <2> QED
    BY <1>0, <1>7, <2>1, QuietStatements, QuietUndisturbing
    DEF RetireDrop, Step, Refused
<1> QED
  BY <1>1, <1>2, <1>3, <1>4, <1>5, <1>6, <1>7 DEF SweepStep

LEMMA HarnessStepUndisturbing ==
  ASSUME BuildersAlone, NEW t \in Tasks, HarnessStep(t),
         NEW u \in Tasks, u # t
  PROVE  Undisturbed(u)
<1>0. pc'[u] = pc[u] /\ lost' = lost /\ TypeOK
  BY OthersStay, WorkKeepsSessions DEF Works, BuildersAlone
<1>1. CASE Register(t) \/ Unregister(t) \/ Forget(t) \/ Mark(t)
  BY <1>0, <1>1, QuietStatements, QuietUndisturbing
  DEF Register, Unregister, Forget, Mark
<1>2. CASE ApplyFixtures(t) \/ FixturesApplied(t) \/ MakeArgs(t)
  BY <1>0, <1>2, OneNameStatements, OwnNamesUndisturbing, QuietStatements,
     QuietUndisturbing DEF ApplyFixtures, FixturesApplied, MakeArgs
<1>3. CASE EndTest(t) \/ DropDatabase(t)
  BY <1>0, <1>3, OneNameStatements, OwnNamesUndisturbing, QuietStatements,
     QuietUndisturbing DEF EndTest, DropDatabase
<1> QED
  BY <1>1, <1>2, <1>3 DEF HarnessStep

-----------------------------------------------------------------------------
(* A step of t keeps its own progress.                                      *)

LEMMA OutsideBuild ==
  ASSUME TypeOK, NEW t \in Tasks, Progress(t),
         NEW to, to \notin Absentees, Goto(t, to),
         pc[t] \notin {"apply", "crashed"} \/ to = "crashed",
         Building(t) \in connected' => Building(t) \in connected
  PROVE  Progress(t)'
  BY DEF Progress, Goto, Absentees, TypeOK

LEMMA TemplateStepProgress ==
  ASSUME BuildersAlone, BuildInv, NEW t \in Tasks, TemplateStep(t)
  PROVE  Progress(t)'
<1>0. TypeOK /\ Progress(t) /\ lost' = lost
  BY WorkKeepsSessions DEF BuildersAlone, BuildInv, Works
<1> USE NamesDiffer, TaskNames DEF Absentees
<1>1. CASE TouchExisting(t) \/ TouchFirst(t) \/ Touch(t) \/ LockTemplate(t)
             \/ UnlockTemplate(t)
  BY <1>0, <1>1, OutsideBuild, QuietStatements
  DEF TouchExisting, TouchFirst, Touch, LockTemplate, UnlockTemplate, Step
<1>2. CASE Clone(t) \/ CloneAgain(t)
  BY <1>0, <1>2, OutsideBuild, QuietStatements
  DEF Clone, CloneAgain, Step, Refused, CloneDatabase
<1>3. CASE TemplateExists(t)
  BY <1>0, <1>3, QuietStatements
  DEF TemplateExists, Step, Goto, Progress, Exists, TypeOK
<1>4. CASE ListOrphans(t)
  BY <1>0, <1>4, QuietStatements
  DEF ListOrphans, ListNames, Goto, Progress, Exists, TypeOK
<1>5. CASE DropOrphan(t)
  <2>1. PICK n \in todo[t] :
          DropForce(n) /\ Skip(t, n, "orphans_drop", "create")
    BY <1>5 DEF DropOrphan
  <2>2. /\ content'[Template(t)] \in {Absent, content[Template(t)]}
        /\ connected' \subseteq connected
    BY <1>0, <2>1, DropStatements
  <2>3. pc[t] = "orphans_drop" /\ pc'[t] \in {"orphans_drop", "create"}
    BY <1>0, <1>5, <2>1 DEF DropOrphan, Skip, Rest, Goto, TypeOK
  <2> QED
    BY <1>0, <2>2, <2>3 DEF Progress, Exists
<1>6. CASE CreateBuilding(t)
  <2>1. /\ content'[Building(t)] = Partial
        /\ content'[Template(t)] = content[Template(t)]
        /\ connected' = connected
    BY <1>0, <1>6 DEF CreateBuilding, CreateDatabase, TypeOK, ServerTypeOK
  <2>2. pc[t] = "create" /\ pc'[t] = "connect"
    BY <1>0, <1>6 DEF CreateBuilding, Step, Goto, TypeOK
  <2> QED
    BY <1>0, <2>1, <2>2 DEF Progress, Exists, Partial, Absent
<1>7. CASE ConnectBuilding(t)
  <2>1. CASE Step(t, "connect", "apply") /\ Connect(Building(t))
    BY <1>0, <2>1 DEF Step, Connect, Goto, Progress, Exists, TypeOK
  <2>2. CASE Refused(t, "discard") /\ pc[t] = "connect"
    BY <1>0, <2>2, OutsideBuild, QuietStatements DEF Refused
  <2> QED
    BY <1>7, <2>1, <2>2 DEF ConnectBuilding
<1>8. CASE ApplySchema(t)
  <2>1. CASE /\ content' = [content EXCEPT ![Building(t)] = SchemaOf[t]]
             /\ connected' = connected \ {Building(t)}
             /\ Step(t, "apply", "publish")
    <3>1. /\ content'[Building(t)] = SchemaOf[t]
          /\ content'[Template(t)] = content[Template(t)]
          /\ SchemaOf[t] # Absent
      BY <1>0, <2>1, SettingsAssumption DEF TypeOK, ServerTypeOK
    <3> QED
      BY <1>0, <2>1, <3>1 DEF Step, Goto, Progress, Exists, TypeOK
  <2>2. CASE Step(t, "apply", "discard") /\ Disconnect(Building(t))
    BY <1>0, <2>2 DEF Step, Goto, Disconnect, Progress, TypeOK
  <2> QED
    BY <1>8, <2>1, <2>2 DEF ApplySchema
<1>9. CASE DiscardBuilding(t)
  BY <1>0, <1>9, OutsideBuild, DropStatements DEF DiscardBuilding, Step
<1>10. CASE Publish(t)
  BY <1>0, <1>10, OutsideBuild, QuietStatements
  DEF Publish, Step, Refused, PublishTemplate
<1> QED
  BY <1>1, <1>2, <1>3, <1>4, <1>5, <1>6, <1>7, <1>8, <1>9, <1>10
  DEF TemplateStep

LEMMA SweepStepProgress ==
  ASSUME BuildersAlone, BuildInv, NEW t \in Tasks, SweepStep(t)
  PROVE  Progress(t)'
<1>0. TypeOK /\ Progress(t) /\ lost' = lost
  BY WorkKeepsSessions DEF BuildersAlone, BuildInv, Works
<1> USE DEF Absentees
<1>1. CASE TrySweepLock(t) \/ TryTemplateLock(t) \/ SweepUnlock(t) \/ RetireUnlock(t)
  BY <1>0, <1>1, OutsideBuild, QuietStatements
  DEF TrySweepLock, TryTemplateLock, SweepUnlock, RetireUnlock, TryLock, Step
<1>2. CASE ListLeftovers(t) \/ ListSweepOrphans(t) \/ ListIdle(t)
  BY <1>0, <1>2, OutsideBuild, QuietStatements
  DEF ListLeftovers, ListSweepOrphans, ListIdle, ListNames
<1>3. CASE SweepForget(t) \/ RetireForget(t) \/ SweepRuns(t)
  BY <1>0, <1>3, OutsideBuild, QuietStatements
  DEF SweepForget, RetireForget, SweepRuns, Forgotten, Step
<1>4. CASE SweepDrop(t) \/ DropSweepOrphan(t)
  BY <1>0, <1>4, OutsideBuild, QuietStatements, DropStatements
  DEF SweepDrop, DropSweepOrphan, Skip, Rest
<1>5. CASE Retire(t)
  BY <1>0, <1>5, OutsideBuild, QuietStatements DEF Retire, Refused
<1>6. CASE RetireDrop(t)
  BY <1>0, <1>6, OutsideBuild, QuietStatements, DropStatements
  DEF RetireDrop, Step, Forgotten, Refused
<1> QED
  BY <1>1, <1>2, <1>3, <1>4, <1>5, <1>6 DEF SweepStep

LEMMA HarnessStepProgress ==
  ASSUME BuildersAlone, BuildInv, NEW t \in Tasks, HarnessStep(t)
  PROVE  Progress(t)'
<1>0. TypeOK /\ Progress(t) /\ lost' = lost
  BY WorkKeepsSessions DEF BuildersAlone, BuildInv, Works
<1>1. TestDb(t) # Building(t)
  BY NamesDiffer
<1> USE DEF Absentees
<1>2. CASE Register(t) \/ Unregister(t) \/ Forget(t) \/ Mark(t)
  BY <1>0, <1>2, OutsideBuild, QuietStatements
  DEF Register, Unregister, Forget, Mark, Step
<1>3. CASE ApplyFixtures(t) \/ FixturesApplied(t) \/ MakeArgs(t)
  BY <1>0, <1>1, <1>3, OutsideBuild, QuietStatements
  DEF ApplyFixtures, FixturesApplied, MakeArgs, Step, Discard, Connect,
      Disconnect
<1>4. CASE EndTest(t) \/ DropDatabase(t)
  BY <1>0, <1>4, OutsideBuild, DropStatements, QuietStatements
  DEF EndTest, DropDatabase, Step, Disconnect
<1> QED
  BY <1>2, <1>3, <1>4 DEF HarnessStep

LEMMA TaskStepBuild ==
  ASSUME BuildersAlone, BuildInv, NEW t \in Tasks, Works(t),
         t \in lost => pc[t] \in Elsewhere
  PROVE  BuildInv'
<1>1. ListKind(t)' /\ Progress(t)'
  BY OwnListKept, TemplateStepProgress, SweepStepProgress, HarnessStepProgress
  DEF BuildersAlone, BuildInv, Works
<1>2. ASSUME NEW u \in Tasks, u # t PROVE ListKind(u)' /\ Progress(u)'
  <2>1. ListKind(u)'
    BY <1>2, OthersStay, OtherListsKept DEF BuildersAlone, BuildInv
  <2>2. Undisturbed(u)
    BY <1>2, TemplateStepUndisturbing, SweepStepUndisturbing,
       HarnessStepUndisturbing DEF Works
  <2> QED
    BY <2>1, <2>2, UndisturbedProgress DEF BuildInv
<1> QED
  BY <1>1, <1>2 DEF BuildInv

-----------------------------------------------------------------------------
(* What tasks do not do themselves connects nobody to a building, and drops *)
(* nothing.                                                                 *)

LEMMA EnvironmentBuild ==
  ASSUME TypeOK, BuildInv,
         \/ \E t \in Tasks :
              UseDatabase(t) \/ Fails(t) \/ Crash(t) \/ LoseMaster(t) \/ Reap(t)
         \/ Inspect \/ StopInspecting \/ Tick \/ UNCHANGED vars
  PROVE  BuildInv'
<1>1. ASSUME pc' = pc, UNCHANGED loop, lost \subseteq lost', content' = content,
             \A u \in Tasks : Building(u) \in connected' => Building(u) \in connected
      PROVE  BuildInv'
  <2>1. ASSUME NEW u \in Tasks PROVE ListKind(u)' /\ Progress(u)'
    BY <1>1, OtherListsKept, UndisturbedProgress
    DEF loop, BuildInv, Undisturbed
  <2> QED
    BY <2>1 DEF BuildInv
<1>2. ASSUME NEW t \in Tasks, UseDatabase(t) PROVE BuildInv'
  BY <1>1, <1>2, NamesDiffer DEF UseDatabase, Connect, Disconnect, locals, loop
<1>3. ASSUME NEW t \in Tasks, NEW to, Refused(t, to), to \notin Absentees \cup Looping,
             (pc[t] # "apply" /\ pc[t] # "crashed") \/ to = "crashed"
      PROVE  BuildInv'
  <2>1. content' = content /\ connected' = connected
    BY <1>3, QuietStatements DEF Refused
  <2>2. ListKind(t)' /\ Progress(t)'
    BY <1>3, <2>1, OutsideLoops, OutsideBuild DEF Refused, BuildInv
  <2>3. ASSUME NEW u \in Tasks, u # t PROVE ListKind(u)' /\ Progress(u)'
    BY <1>3, <2>1, <2>3, OtherListsKept, QuietUndisturbing, UndisturbedProgress
    DEF Refused, Goto, TypeOK, BuildInv, history
  <2> QED
    BY <2>2, <2>3 DEF BuildInv
<1>4. ASSUME NEW t \in Tasks, Fails(t) PROVE BuildInv'
  BY <1>3, <1>4
  DEF Fails, HarnessFails, TemplateFails, SweepFails, Absentees, Looping,
      SweepHeld, RetireHeld
<1>5. ASSUME NEW t \in Tasks, Crash(t) PROVE BuildInv'
  BY <1>3, <1>5 DEF Crash, Refused, Absentees, Looping
<1>6. ASSUME NEW t \in Tasks, Reap(t) PROVE BuildInv'
  BY <1>1, <1>6, QuietStatements
  DEF Reap, ReapMaster, ReapClient, Disconnect, locals, loop
<1>7. CASE Inspect \/ StopInspecting
  <2>1. \A u \in Tasks : Building(u) \notin Inspected
    BY HarnessAssumption, NamesDiffer DEF TestDbs, Templates
  <2> QED
    BY <1>1, <1>7, <2>1
    DEF Inspect, StopInspecting, Connect, Disconnect, locals, loop
<1>8. CASE Tick \/ UNCHANGED vars
  BY <1>1, <1>8 DEF Tick, vars, locals, loop, catalog
<1>9. ASSUME NEW t \in Tasks, LoseMaster(t) PROVE BuildInv'
  BY <1>1, <1>9, QuietStatements DEF LoseMaster
<1> QED
  BY <1>2, <1>4, <1>5, <1>6, <1>7, <1>8, <1>9

LEMMA InitBuild == Init => BuildInv
  BY DEF Init, BuildInv, ListKind, Progress, Absentees

LEMMA BuildInvariant ==
  ASSUME OneHomePerPrefix
  PROVE  Spec => [](BuildersAlone /\ BuildInv)
<1>1. BuildersAlone /\ BuildInv /\ [Next]_vars => BuildInv'
  BY TaskStepBuild, EnvironmentBuild
  DEF Next, TaskStep, Terminating, BuildersAlone
<1>2. TypeOK /\ LocksMatchRegions => BuildersAlone
  BY DEF BuildersAlone
<1> QED
  BY <1>1, <1>2, InitBuild, TypeCorrect, LocksCorrect, PTL DEF Spec

(* build_locked: whoever reaches publish_template has a complete and idle   *)
(* building and a free name, so that publishing cannot fail for a reason    *)
(* the harness is to blame for, and a template is built once.               *)
THEOREM BuiltOnce ==
  ASSUME OneHomePerPrefix
  PROVE  Spec => []PublishFindsRoom
<1>1. BuildersAlone /\ BuildInv => PublishFindsRoom
  BY SettingsAssumption, TaskNames
  DEF BuildInv, Progress, PublishFindsRoom, CanPublish, Absentees
<1> QED
  BY <1>1, BuildInvariant, PTL

(* drop_orphaned_builds, from build_locked or from the sweep, never has a   *)
(* live builder's database on its list.                                     *)
THEOREM OrphansAreOrphans ==
  ASSUME OneHomePerPrefix
  PROVE  Spec => []OrphansHaveNoBuilder
<1>1. ASSUME BuildersAlone, BuildInv PROVE OrphansHaveNoBuilder
  <2>1. ASSUME NEW t \in Tasks, NEW u \in Tasks, Building(t) \in todo[u],
               pc[u] \in {"orphans_drop", "sweep_orphans_drop"},
               pc[t] \in BuildLabels, t \notin lost, u \notin lost
        PROVE  t = u
    <3>1. PrefixOf[t] = PrefixOf[u]
      BY <1>1, <2>1, NamesDiffer DEF BuildInv, ListKind, BuildingsOf
    <3> QED
      BY <1>1, <2>1, <3>1, OneBuilderPerPrefix
      DEF HoldsTemplate, BuildLabels, RetireHeld
  <2> QED
    BY <2>1 DEF OrphansHaveNoBuilder
<1> QED
  BY <1>1, BuildInvariant, PTL

-----------------------------------------------------------------------------
(* A test database somebody is connected to goes by its own test's step     *)
(* only: orphans are buildings, and every other drop of another's database  *)
(* is a plain one.                                                          *)
LEMMA ConnectedTestDbsStay ==
  ASSUME TypeOK, BuildInv, NEW u \in Tasks, Works(u),
         NEW t \in Tasks, TestDb(t) \in connected, pc'[t] = pc[t]
  PROVE  Exists(TestDb(t)) => content'[TestDb(t)] = content[TestDb(t)]
<1> USE NamesDiffer, TaskNames
<1>1. CASE content' = content
  BY <1>1
<1>2. CASE Clone(u) \/ CloneAgain(u)
  BY <1>2, QuietStatements
  DEF Clone, CloneAgain, CloneDatabase, Refused, Exists, TypeOK, ServerTypeOK
<1>3. CASE CreateBuilding(u) \/ DiscardBuilding(u)
  BY <1>3, OneNameStatements DEF CreateBuilding, DiscardBuilding, Touches
<1>4. CASE ApplySchema(u) \/ Publish(u)
  BY <1>4, QuietStatements
  DEF ApplySchema, Publish, PublishTemplate, Disconnect, Refused, TypeOK, ServerTypeOK
<1>5. CASE DropOrphan(u) \/ DropSweepOrphan(u)
  <2>1. PICK n \in todo[u] : DropForce(n)
    BY <1>5 DEF DropOrphan, DropSweepOrphan
  <2>2. n # TestDb(t)
    BY <1>5 DEF DropOrphan, DropSweepOrphan, BuildInv, ListKind, BuildingsOf
  <2> QED
    BY <2>1, <2>2, OneNameStatements DEF Touches
<1>6. CASE SweepDrop(u) \/ RetireDrop(u)
  BY <1>6, QuietStatements
  DEF SweepDrop, RetireDrop, DropIfIdle, Refused, TypeOK, ServerTypeOK
<1>7. CASE DropDatabase(u)
  <2>1. u # t
    BY <1>7 DEF DropDatabase, Step, Goto, TypeOK
  <2> QED
    BY <1>7, <2>1, OneNameStatements DEF DropDatabase, Touches
<1>8. CASE TouchExisting(u) \/ TouchFirst(u) \/ Touch(u) \/ LockTemplate(u)
             \/ UnlockTemplate(u) \/ TemplateExists(u) \/ ListOrphans(u)
             \/ ConnectBuilding(u)
  BY <1>1, <1>8, QuietStatements
  DEF TouchExisting, TouchFirst, Touch, LockTemplate, UnlockTemplate,
      TemplateExists, ListOrphans, ListNames, ConnectBuilding, Connect, Refused
<1>9. CASE SweepStep(u) /\ ~SweepDrop(u) /\ ~RetireDrop(u) /\ ~DropSweepOrphan(u)
  BY <1>1, <1>9, QuietStatements
  DEF SweepStep, TrySweepLock, TryTemplateLock, TryLock, ListLeftovers,
      SweepForget, SweepRuns, SweepUnlock, ListSweepOrphans, ListIdle,
      ListNames, Retire, RetireForget, RetireUnlock, Refused
<1>10. CASE HarnessStep(u) /\ ~DropDatabase(u)
  BY <1>1, <1>10, QuietStatements
  DEF HarnessStep, Register, Unregister, ApplyFixtures, FixturesApplied,
      MakeArgs, EndTest, Forget, Mark, Connect, Disconnect
<1> QED
  BY <1>2, <1>3, <1>4, <1>5, <1>6, <1>7, <1>8, <1>9, <1>10
  DEF Works, TemplateStep

(* What is not a step of the test's code drops nothing.                     *)
LEMMA OtherStepsDropNothing ==
  ASSUME NEW t,
         \/ UseDatabase(t) \/ Fails(t) \/ Crash(t) \/ LoseMaster(t) \/ Reap(t)
         \/ Inspect \/ StopInspecting \/ Tick \/ UNCHANGED vars
  PROVE  content' = content
<1>1. CASE UseDatabase(t) \/ Crash(t) \/ LoseMaster(t) \/ Reap(t)
  BY <1>1, QuietStatements
  DEF UseDatabase, Crash, LoseMaster, Reap, ReapMaster, ReapClient, Connect,
      Disconnect
<1>2. CASE Fails(t)
  BY <1>2, QuietStatements
  DEF Fails, HarnessFails, TemplateFails, SweepFails, Refused
<1>3. CASE Inspect \/ StopInspecting \/ Tick \/ UNCHANGED vars
  BY <1>3
  DEF Inspect, StopInspecting, Connect, Disconnect, Tick, catalog, vars, server
<1> QED
  BY <1>1, <1>2, <1>3

(* A building somebody is connected to is being applied by its owner, and   *)
(* while the owner has its session and does not move, it stays.             *)
LEMMA ConnectedBuildingsStay ==
  ASSUME BuildersAlone, BuildInv, NEW u \in Tasks, Works(u),
         u \in lost => pc[u] \in Elsewhere,
         NEW t \in Tasks, t \notin lost, pc[t] \notin Ended,
         Building(t) \in connected, pc'[t] = pc[t]
  PROVE  content'[Building(t)] = content[Building(t)]
<1>1. pc[t] = "apply"
  BY DEF BuildInv, Progress, Ended
<1>2. u # t
  <2>1. ASSUME u = t PROVE FALSE
    <3>1. ApplySchema(t)
      BY <1>1, <2>1 DEF Works, HarnessStep, TemplateStep, SweepStep, Step,
         Register, Unregister, ApplyFixtures, FixturesApplied, MakeArgs,
         EndTest, DropDatabase, Forget, Mark, TouchExisting, TouchFirst, Clone,
         LockTemplate, TemplateExists, ListOrphans, DropOrphan, CreateBuilding,
         ConnectBuilding, DiscardBuilding, Publish, Touch, UnlockTemplate,
         CloneAgain, TrySweepLock, TryTemplateLock, TryLock, ListLeftovers,
         ListNames, Forgotten, SweepDrop, SweepForget, SweepRuns, SweepUnlock,
         ListSweepOrphans, DropSweepOrphan, ListIdle, Retire, RetireDrop,
         RetireForget, RetireUnlock, Discard
    <3> QED
      BY <1>1, <3>1 DEF ApplySchema, Step, Goto, BuildersAlone, TypeOK
  <2> QED
    BY <2>1
<1>3. Undisturbed(t)
  BY <1>2, TemplateStepUndisturbing, SweepStepUndisturbing,
     HarnessStepUndisturbing DEF Works
<1> QED
  BY <1>1, <1>3 DEF Undisturbed

(* "A database in use is never forced" (tests/lifecycle.rs): a live task's  *)
(* database is not dropped under its connections by another task.           *)
THEOREM InUseIsNeverForced ==
  ASSUME OneHomePerPrefix
  PROVE  Spec => InUseNeverForced
<1>1. ASSUME BuildersAlone, BuildInv, [Next]_vars,
             NEW t \in Tasks, NEW n \in {Building(t), TestDb(t)},
             pc[t] \notin Ended, n = TestDb(t) \/ t \notin lost,
             n \in connected, Exists(n), ~Exists(n)', pc'[t] = pc[t]
      PROVE  FALSE
  <2>1. content'[n] # content[n]
    BY <1>1 DEF Exists
  <2>2. ASSUME NEW u \in Tasks, Works(u), u \in lost => pc[u] \in Elsewhere
        PROVE  FALSE
    BY <1>1, <2>1, <2>2, ConnectedTestDbsStay, ConnectedBuildingsStay, NamesDiffer
    DEF BuildersAlone
  <2> QED
    BY <1>1, <2>1, <2>2, OtherStepsDropNothing DEF Next, TaskStep, Terminating
<1>2. BuildersAlone /\ BuildInv /\ [Next]_vars =>
        [\A t \in Tasks : \A n \in {Building(t), TestDb(t)} :
           /\ pc[t] \notin Ended
           /\ n = TestDb(t) \/ t \notin lost
           /\ n \in connected /\ Exists(n) /\ ~Exists(n)'
           => pc'[t] # pc[t]]_vars
  BY <1>1
<1> QED
  BY <1>2, BuildInvariant, PTL DEF Spec, InUseNeverForced

-----------------------------------------------------------------------------
(* The second clone.  A task gives the lock back before it clones again: in *)
(* between, only the template's date protects it.  While a task holds the   *)
(* lock nobody can have the template in hand; after, nobody can list it     *)
(* until it has been idle for longer than a setup takes.                    *)

RetireLoop == {"retire", "retire_drop", "retire_forget"}

Claims(u, n) == u \notin lost /\ pc[u] \in RetireLoop /\ n \in InHand(u)

Unclaimed(t) == \A u \in Tasks : ~Claims(u, Template(t))

(* The template's date is at most a quarter of its age behind the test.     *)
Dated(t) ==
  /\ lastUsed[TemplateRow(t)] # Never
  /\ born[t] - lastUsed[TemplateRow(t)] <= Quarter(IdleTemplateAfter[t])

Ready(t) ==
  /\ t \notin lost /\ pc[t] \in {"touch", "unlock"} => Exists(Template(t))
  /\ t \notin lost /\ pc[t] = "unlock" => Dated(t)
  /\ pc[t] = "clone_again" => Exists(Template(t)) /\ Dated(t) /\ Unclaimed(t)

ReadyInv == \A t \in Tasks : Ready(t)

BuildBase == BuildersAlone /\ BuildInv /\ AllTimely

(* A step the task takes itself, with its session where it needs one.       *)
Active(v) == Works(v) /\ (v \in lost => pc[v] \in Elsewhere)

LEMMA HeldIsUnclaimed ==
  ASSUME BuildBase, NEW t \in Tasks, t \notin lost, pc[t] \in {"touch", "unlock"}
  PROVE  Unclaimed(t)
<1>1. SUFFICES ASSUME NEW u \in Tasks, Claims(u, Template(t)) PROVE FALSE
  BY DEF Unclaimed
<1>2. PrefixOf[u] = PrefixOf[t]
  <2>1. Template(t) \in TemplatesOf(PrefixOf[u])
    BY <1>1 DEF Claims, RetireLoop, BuildBase, BuildInv, ListKind
  <2> QED
    BY <2>1, NamesDiffer DEF TemplatesOf
<1>3. HoldsTemplate(t) /\ HoldsTemplate(u)
  BY <1>1 DEF HoldsTemplate, Claims, RetireLoop, BuildLabels, RetireHeld
<1>4. t = u
  BY <1>2, <1>3, OneBuilderPerPrefix DEF BuildBase
<1> QED
  BY <1>1, <1>4 DEF Claims, RetireLoop

(* A template goes by the hand of a task that claims it.                    *)
LEMMA UnclaimedTemplateStays ==
  ASSUME BuildBase, NEW v \in Tasks, Active(v), NEW t \in Tasks,
         Exists(Template(t)), Unclaimed(t)
  PROVE  Exists(Template(t))'
<1> USE NamesDiffer, TaskNames
<1>0. TypeOK
  BY DEF BuildBase, BuildersAlone
<1>1. CASE content' = content
  BY <1>1 DEF Exists
<1>2. CASE Clone(v) \/ CloneAgain(v) \/ CreateBuilding(v) \/ DiscardBuilding(v)
             \/ DropDatabase(v)
  <2>1. Template(t) \in Names /\ Template(t) \notin {TestDb(v), Building(v)}
    OBVIOUS
  <2>2. CASE Touches(TestDb(v)) \/ Touches(Building(v))
    BY <2>1, <2>2 DEF Touches, Exists
  <2>3. CASE Clone(v)
    BY <1>0, <1>1, <2>2, <2>3, OneNameStatements, QuietStatements
    DEF Clone, Refused, server, catalog
  <2>4. CASE CloneAgain(v)
    BY <1>0, <1>1, <2>2, <2>4, OneNameStatements DEF CloneAgain, Refused, server, catalog
  <2>5. CASE CreateBuilding(v) \/ DiscardBuilding(v) \/ DropDatabase(v)
    BY <1>0, <2>2, <2>5, OneNameStatements
    DEF CreateBuilding, DiscardBuilding, DropDatabase
  <2> QED
    BY <1>2, <2>3, <2>4, <2>5
<1>3. CASE ApplySchema(v)
  BY <1>0, <1>3
  DEF ApplySchema, Disconnect, Exists, TypeOK, ServerTypeOK
<1>4. CASE Publish(v)
  BY <1>0, <1>1, <1>4, QuietStatements
  DEF Publish, PublishTemplate, CanPublish, Refused, Exists, TypeOK, ServerTypeOK
<1>5. CASE DropOrphan(v) \/ DropSweepOrphan(v)
  <2>1. PICK n \in todo[v] : DropForce(n)
    BY <1>5 DEF DropOrphan, DropSweepOrphan
  <2>2. n # Template(t)
    BY <1>5
    DEF DropOrphan, DropSweepOrphan, BuildBase, BuildInv, ListKind, BuildingsOf
  <2> QED
    BY <1>0, <2>1, <2>2, OneNameStatements DEF Touches, Exists
<1>6. CASE SweepDrop(v)
  <2>1. PICK n \in todo[v] : DropIfIdle(n) \/ UNCHANGED server
    BY <1>6 DEF SweepDrop
  <2>2. n # Template(t)
    BY <1>6 DEF SweepDrop, BuildBase, BuildInv, ListKind, TestDbs
  <2> QED
    BY <1>0, <1>1, <2>1, <2>2, OneNameStatements, QuietStatements
    DEF Touches, Exists
<1>7. CASE RetireDrop(v)
  <2>1. pc[v] = "retire_drop" /\ v \notin lost
    BY <1>7 DEF RetireDrop, Step, Forgotten, Active, Elsewhere
  <2>2. victim[v] # Template(t)
    BY <2>1 DEF Unclaimed, Claims, RetireLoop, InHand
  <2> QED
    BY <1>0, <1>1, <1>7, <2>2, OneNameStatements, QuietStatements
    DEF RetireDrop, Refused, Touches, Exists
<1>8. CASE HarnessStep(v) /\ ~DropDatabase(v)
  BY <1>1, <1>8, QuietStatements
  DEF HarnessStep, Register, Unregister, ApplyFixtures, FixturesApplied,
      MakeArgs, EndTest, Forget, Mark, Connect, Disconnect
<1>9. CASE TouchExisting(v) \/ TouchFirst(v) \/ Touch(v) \/ LockTemplate(v)
             \/ UnlockTemplate(v) \/ TemplateExists(v) \/ ListOrphans(v)
             \/ ConnectBuilding(v)
  BY <1>1, <1>9, QuietStatements
  DEF TouchExisting, TouchFirst, Touch, LockTemplate, UnlockTemplate,
      TemplateExists, ListOrphans, ListNames, ConnectBuilding, Connect, Refused
<1>10. CASE SweepStep(v) /\ ~SweepDrop(v) /\ ~RetireDrop(v) /\ ~DropSweepOrphan(v)
  BY <1>1, <1>10, QuietStatements
  DEF SweepStep, TrySweepLock, TryTemplateLock, TryLock, ListLeftovers,
      SweepForget, SweepRuns, SweepUnlock, ListSweepOrphans, ListIdle,
      ListNames, Retire, RetireForget, RetireUnlock, Refused
<1> QED
  BY <1>2, <1>3, <1>4, <1>5, <1>6, <1>7, <1>8, <1>9, <1>10
  DEF Active, Works, TemplateStep

(* Only the touches and retire_forget write the dates of templates.         *)
LEMMA TouchSteps ==
  ASSUME NEW v \in Tasks, Works(v)
  PROVE  TouchFirst(v) \/ Touch(v) \/ RetireForget(v) \/ lastUsed' = lastUsed
<1>0. ASSUME NEW t, NEW n, NEW m, NEW k,
             \/ CreateDatabase(n) \/ CloneDatabase(n, m) \/ DropForce(n)
             \/ DropIfIdle(n) \/ PublishTemplate(n, m) \/ RetireTemplate(n)
             \/ Connect(n) \/ Disconnect(n) \/ Lock(t, k) \/ Unlock(t, k)
             \/ RegisterTest(t) \/ MarkFailed(t) \/ ForgetDatabase(t)
             \/ ForgetStaleRuns(t) \/ UNCHANGED server
      PROVE  lastUsed' = lastUsed
  BY <1>0 DEF CreateDatabase, CloneDatabase, DropForce, DropIfIdle,
     PublishTemplate, RetireTemplate, Connect, Disconnect, Lock, Unlock,
     RegisterTest, MarkFailed, ForgetDatabase, ForgetStaleRuns, server, books
<1>1. CASE HarnessStep(v)
  BY <1>0, <1>1
  DEF HarnessStep, Register, Unregister, ApplyFixtures, FixturesApplied,
      MakeArgs, EndTest, DropDatabase, Forget, Mark
<1>2. CASE ApplySchema(v)
  BY <1>0, <1>2 DEF ApplySchema, books
<1>3. CASE TemplateStep(v) /\ ~ApplySchema(v)
  BY <1>0, <1>3
  DEF TemplateStep, TouchExisting, Clone, LockTemplate, TemplateExists,
      ListOrphans, ListNames, DropOrphan, CreateBuilding, ConnectBuilding,
      DiscardBuilding, Publish, UnlockTemplate, CloneAgain, Refused
<1>4. CASE SweepStep(v)
  BY <1>0, <1>4
  DEF SweepStep, TrySweepLock, TryTemplateLock, TryLock, ListLeftovers,
      ListNames, SweepDrop, SweepForget, SweepRuns, SweepUnlock,
      ListSweepOrphans, DropSweepOrphan, ListIdle, Retire, RetireDrop,
      RetireUnlock, Refused
<1> QED
  BY <1>1, <1>2, <1>3, <1>4 DEF Works, TemplateStep

LEMMA UnclaimedStaysDated ==
  ASSUME BuildBase, NEW v \in Tasks, Active(v), NEW t \in Tasks,
         pc[t] # "start", Dated(t), Unclaimed(t)
  PROVE  Dated(t)'
<1>0. /\ TypeOK /\ born'[t] = born[t]
      /\ TemplateRow(t) \in Homes \X Templates
      /\ \A u \in Tasks : TemplateRow(u) \in Homes \X Templates
  BY WorkTakesNoTime, TaskNames
  DEF BuildBase, BuildersAlone, Active, Register, TypeOK
<1>1. /\ born[t] \in Int /\ now \in Nat /\ born[t] <= now
      /\ Quarter(IdleTemplateAfter[t]) \in Nat
  BY <1>0, SettingsAssumption
  DEF TypeOK, ServerTypeOK, BuildBase, AllTimely, Timely, Never, Quarter
<1>2. lastUsed'[TemplateRow(t)] \in {lastUsed[TemplateRow(t)], now}
  <2>1. CASE TouchFirst(v) \/ Touch(v)
    BY <1>0, <2>1 DEF TouchFirst, Touch, TouchTemplate, TypeOK, ServerTypeOK
  <2>2. CASE RetireForget(v)
    <3>1. victim[v] # Template(t)
      BY <2>2
      DEF RetireForget, Forgotten, Active, Elsewhere, Unclaimed, Claims,
          RetireLoop, InHand
    <3>2. <<HomeOf[v], victim[v]>> # TemplateRow(t)
      BY <3>1 DEF TemplateRow
    <3> QED
      BY <1>0, <2>2, <3>2 DEF RetireForget, ForgetTemplate, TypeOK, ServerTypeOK
  <2> QED
    BY <2>1, <2>2, TouchSteps DEF Active
<1> QED
  BY <1>0, <1>1, <1>2 DEF Dated, Never

(* What a task claims, it claimed, or has just found idle.                  *)
LEMMA NewClaims ==
  ASSUME TypeOK, NEW v \in Tasks, Works(v) \/ Fails(v) \/ Crash(v),
         pc'[v] \in RetireLoop
  PROVE  \/ pc[v] \in RetireLoop /\ InHand(v)' \subseteq InHand(v)
         \/ ListIdle(v) /\ InHand(v)' \subseteq IdleTemplates(v)
<1> USE DEF Step, Refused, ListNames, Skip, Rest, Forgotten, Discard, Goto,
        loop, RetireLoop, TypeOK
<1>1. CASE HarnessStep(v)
  BY <1>1
  DEF HarnessStep, Register, Unregister, ApplyFixtures, FixturesApplied,
      MakeArgs, EndTest, DropDatabase, Forget, Mark
<1>2. CASE TemplateStep(v)
  BY <1>2
  DEF TemplateStep, TouchExisting, TouchFirst, Clone, LockTemplate,
      TemplateExists, ListOrphans, DropOrphan, CreateBuilding,
      ConnectBuilding, ApplySchema, DiscardBuilding, Publish, Touch,
      UnlockTemplate, CloneAgain
<1>3. CASE ListIdle(v)
  BY <1>3 DEF ListIdle, InHand
<1>4. CASE Retire(v) \/ RetireDrop(v) \/ RetireForget(v)
  BY <1>4 DEF Retire, RetireDrop, RetireForget, InHand
<1>5. CASE TrySweepLock(v) \/ ListLeftovers(v) \/ SweepDrop(v) \/ SweepForget(v)
             \/ SweepRuns(v) \/ SweepUnlock(v) \/ TryTemplateLock(v)
             \/ ListSweepOrphans(v) \/ DropSweepOrphan(v) \/ RetireUnlock(v)
  BY <1>5
  DEF TrySweepLock, TryTemplateLock, TryLock, ListLeftovers, SweepDrop,
      SweepForget, SweepRuns, SweepUnlock, ListSweepOrphans, DropSweepOrphan,
      RetireUnlock
<1>6. CASE Fails(v) \/ Crash(v)
  BY <1>6 DEF Fails, HarnessFails, TemplateFails, SweepFails, Crash
<1> QED
  BY <1>1, <1>2, <1>3, <1>4, <1>5, <1>6 DEF Works, SweepStep

(* idle_templates does not list what a setup under way has just touched.    *)
LEMMA DatedIsNotIdle ==
  ASSUME OneHomePerPrefix, QuickBuilds, BuildBase, NEW u \in Tasks,
         NEW t \in Tasks, Dated(t), InSetup(t)
  PROVE  Template(t) \notin IdleTemplates(u)
<1>1. SUFFICES ASSUME Template(t) \in IdleTemplates(u) PROVE FALSE
  OBVIOUS
<1>2. HomeOf[t] = HomeOf[u]
  BY <1>1 DEF IdleTemplates, Template, OneHomePerPrefix
<1>3. OlderThan(lastUsed[TemplateRow(t)], IdleTemplateAfter[u])
  BY <1>1, <1>2 DEF IdleTemplates, TemplateRow, Dated
<1>4. now <= born[t] + SetupLimit
  BY DEF BuildBase, AllTimely, Timely
<1>5. Quarter(IdleTemplateAfter[t]) + SetupLimit <= IdleTemplateAfter[u]
  BY <1>2 DEF QuickBuilds
<1>6. /\ now \in Int /\ born[t] \in Int /\ lastUsed[TemplateRow(t)] \in Int
      /\ IdleTemplateAfter[u] \in Int /\ SetupLimit \in Int
      /\ Quarter(IdleTemplateAfter[t]) \in Int
  BY TaskNames, SettingsAssumption, HarnessAssumption
  DEF BuildBase, BuildersAlone, TypeOK, ServerTypeOK, Never, Quarter
<1> QED
  BY <1>3, <1>4, <1>5, <1>6 DEF OlderThan, Dated

LEMMA SecondCloneIsSetup ==
  ASSUME BuildBase, NEW t \in Tasks, pc[t] = "clone_again"
  PROVE  InSetup(t)
  BY DEF BuildBase, AllTimely, Timely, InSetup, InTest, Ended, CloneLabels

LEMMA UnclaimedStays ==
  ASSUME OneHomePerPrefix, QuickBuilds, BuildBase, NEW v \in Tasks,
         Works(v) \/ Fails(v) \/ Crash(v), NEW t \in Tasks,
         pc[t] = "clone_again", Dated(t), Unclaimed(t)
  PROVE  Unclaimed(t)'
<1>0. TypeOK /\ lost' = lost
  BY WorkKeepsSessions DEF BuildBase, BuildersAlone, Crash, history
<1>1. SUFFICES ASSUME NEW u \in Tasks, Claims(u, Template(t))' PROVE FALSE
  BY DEF Unclaimed
<1>2. CASE u # v
  BY <1>0, <1>1, <1>2, OthersSteady DEF StepOf, Unclaimed, Claims
<1>3. CASE u = v
  <2>1. Template(t) \notin IdleTemplates(u)
    BY DatedIsNotIdle, SecondCloneIsSetup
  <2> QED
    BY <1>0, <1>1, <1>3, <2>1, NewClaims DEF Unclaimed, Claims
<1> QED
  BY <1>2, <1>3

(* The four steps that bring a task to where it counts on the template.     *)
LEMMA Arrivals ==
  ASSUME TypeOK, NEW t \in Tasks, Works(t) \/ Fails(t) \/ Crash(t),
         pc'[t] \in {"touch", "unlock", "clone_again"}
  PROVE  TemplateExists(t) \/ Publish(t) \/ Touch(t) \/ UnlockTemplate(t)
<1> USE DEF Step, Refused, ListNames, Skip, Rest, Forgotten, Discard, Goto, TypeOK
<1>1. CASE HarnessStep(t)
  BY <1>1
  DEF HarnessStep, Register, Unregister, ApplyFixtures, FixturesApplied,
      MakeArgs, EndTest, DropDatabase, Forget, Mark
<1>2. CASE TemplateStep(t)
  BY <1>2
  DEF TemplateStep, TouchExisting, TouchFirst, Clone, LockTemplate,
      ListOrphans, DropOrphan, CreateBuilding, ConnectBuilding, ApplySchema,
      DiscardBuilding, CloneAgain
<1>3. CASE SweepStep(t)
  BY <1>3
  DEF SweepStep, TrySweepLock, TryTemplateLock, TryLock, ListLeftovers,
      SweepDrop, SweepForget, SweepRuns, SweepUnlock, ListSweepOrphans,
      DropSweepOrphan, ListIdle, Retire, RetireDrop, RetireForget, RetireUnlock
<1>4. CASE Fails(t) \/ Crash(t)
  BY <1>4 DEF Fails, HarnessFails, TemplateFails, SweepFails, Crash
<1> QED
  BY <1>1, <1>2, <1>3, <1>4 DEF Works

LEMMA TouchDates ==
  ASSUME BuildBase, NEW t \in Tasks, Touch(t)
  PROVE  Dated(t)'
<1>1. /\ TypeOK /\ born' = born
      /\ TemplateRow(t) \in Homes \X Templates
  BY TaskNames DEF BuildBase, BuildersAlone, Touch, Step, history
<1>2. /\ born[t] \in Int /\ now \in Nat /\ born[t] <= now
      /\ IdleTemplateAfter[t] \in Nat
      /\ lastUsed[TemplateRow(t)] \in Nat \cup {Never}
  BY <1>1, SettingsAssumption
  DEF TypeOK, ServerTypeOK, BuildBase, AllTimely, Timely, Never
<1>3. lastUsed'[TemplateRow(t)] =
        IF \/ lastUsed[TemplateRow(t)] = Never
           \/ RefreshDue(lastUsed[TemplateRow(t)], IdleTemplateAfter[t])
          THEN now ELSE lastUsed[TemplateRow(t)]
  BY <1>1 DEF Touch, TouchTemplate, TypeOK, ServerTypeOK
<1> QED
  BY <1>1, <1>2, <1>3 DEF Dated, RefreshDue, Never, Quarter

LEMMA OwnStepReady ==
  ASSUME BuildBase, ReadyInv, NEW t \in Tasks, Active(t)
  PROVE  Ready(t)'
<1>0. TypeOK /\ lost' = lost /\ Ready(t)
  BY WorkKeepsSessions DEF BuildBase, BuildersAlone, Active, ReadyInv
<1>1. CASE TemplateExists(t)
  BY <1>0, <1>1, QuietStatements
  DEF TemplateExists, Step, Goto, Ready, Exists, TypeOK
<1>2. CASE Publish(t)
  <2>1. CASE Step(t, "publish", "touch") /\ PublishTemplate(Building(t), Template(t))
    <3>1. content'[Template(t)] # Absent
      BY <1>0, <2>1, NamesDiffer, TaskNames
      DEF PublishTemplate, CanPublish, Exists, TypeOK, ServerTypeOK
    <3> QED
      BY <1>0, <2>1, <3>1 DEF Step, Goto, Ready, Exists, TypeOK
  <2>2. CASE Refused(t, "unlock_err")
    BY <1>0, <2>2 DEF Refused, Goto, Ready, TypeOK
  <2> QED
    BY <1>2, <2>1, <2>2 DEF Publish
<1>3. CASE Touch(t)
  <2>1. pc[t] = "touch" /\ pc'[t] = "unlock" /\ content' = content
    BY <1>0, <1>3, QuietStatements DEF Touch, Step, Goto, TypeOK
  <2> QED
    BY <1>0, <1>3, <2>1, TouchDates DEF Ready, Exists
<1>4. CASE UnlockTemplate(t)
  <2>1. CASE Step(t, "unlock", "clone_again")
    <3>1. t \notin lost /\ pc[t] = "unlock" /\ pc'[t] = "clone_again"
      BY <1>0, <2>1 DEF Active, Elsewhere, Step, Goto, TypeOK
    <3>2. Exists(Template(t)) /\ Dated(t) /\ Unclaimed(t)
      BY <1>0, <3>1, HeldIsUnclaimed DEF Ready
    <3>3. content' = content /\ lastUsed' = lastUsed /\ born' = born
      BY <1>4, <2>1 DEF UnlockTemplate, Unlock, catalog, books, Step, history
    <3>4. Unclaimed(t)'
      <4>1. \A u \in Tasks \ {t} : Claims(u, Template(t))' => Claims(u, Template(t))
        BY <1>0, OthersSteady DEF Active, StepOf, Claims
      <4> QED
        BY <3>1, <3>2, <4>1 DEF Unclaimed, Claims, RetireLoop
    <3> QED
      BY <3>1, <3>2, <3>3, <3>4 DEF Ready, Exists, Dated
  <2>2. CASE Step(t, "unlock_err", "unregister")
    BY <1>0, <2>2 DEF Step, Goto, Ready, TypeOK
  <2> QED
    BY <1>4, <2>1, <2>2 DEF UnlockTemplate
<1>5. CASE pc'[t] \notin {"touch", "unlock", "clone_again"}
  BY <1>5 DEF Ready
<1> QED
  BY <1>0, <1>1, <1>2, <1>3, <1>4, <1>5, Arrivals DEF Active

LEMMA OthersStepReady ==
  ASSUME OneHomePerPrefix, QuickBuilds, BuildBase, ReadyInv,
         NEW v \in Tasks, Active(v), NEW t \in Tasks, t # v
  PROVE  Ready(t)'
<1>0. TypeOK /\ lost' = lost /\ Ready(t) /\ pc'[t] = pc[t]
  BY WorkKeepsSessions, OthersSteady
  DEF BuildBase, BuildersAlone, Active, StepOf, ReadyInv
<1>1. CASE t \notin lost /\ pc[t] \in {"touch", "unlock"}
  <2>1. Unclaimed(t) /\ Exists(Template(t)) /\ (pc[t] = "unlock" => Dated(t))
    BY <1>0, <1>1, HeldIsUnclaimed DEF Ready
  <2> QED
    BY <1>0, <1>1, <2>1, UnclaimedTemplateStays, UnclaimedStaysDated DEF Ready
<1>2. CASE pc[t] = "clone_again"
  <2>1. Unclaimed(t) /\ Exists(Template(t)) /\ Dated(t)
    BY <1>0, <1>2 DEF Ready
  <2> QED
    BY <1>0, <1>2, <2>1, UnclaimedTemplateStays, UnclaimedStaysDated,
       UnclaimedStays DEF Ready, Active
<1> QED
  BY <1>0, <1>1, <1>2 DEF Ready

(* An error, or a death, changes nothing on the server and claims nothing.  *)
LEMMA FailureReady ==
  ASSUME OneHomePerPrefix, QuickBuilds, BuildBase, ReadyInv,
         NEW v \in Tasks, Fails(v) \/ Crash(v)
  PROVE  ReadyInv'
<1>0. TypeOK /\ UNCHANGED server /\ UNCHANGED history
  BY DEF BuildBase, BuildersAlone, Fails, HarnessFails, TemplateFails,
     SweepFails, Crash, Refused
<1>1. SUFFICES ASSUME NEW t \in Tasks PROVE Ready(t)'
  BY DEF ReadyInv
<1>2. CASE t = v
  <2>1. pc'[t] \notin {"touch", "unlock", "clone_again"}
    BY <1>0, <1>2 DEF Fails, HarnessFails, TemplateFails, SweepFails, Crash,
       Refused, Goto, TypeOK
  <2> QED
    BY <2>1 DEF Ready
<1>3. CASE t # v
  <2>1. pc'[t] = pc[t]
    BY <1>0, <1>3, OthersSteady DEF StepOf
  <2>2. Dated(t) => Dated(t)'
    BY <1>0 DEF Dated, server, books, history
  <2> QED
    BY <1>0, <2>1, <2>2, UnclaimedStays
    DEF ReadyInv, Ready, Exists, server, catalog, history
<1> QED
  BY <1>2, <1>3

LEMMA SurroundingsReady ==
  ASSUME ReadyInv, UNCHANGED <<content, books, pc, loop, born, verdict>>,
         lost \subseteq lost'
  PROVE  ReadyInv'
  BY DEF ReadyInv, Ready, Unclaimed, Claims, Dated, InHand, Exists, books, loop

LEMMA NextReady ==
  OneHomePerPrefix /\ QuickBuilds /\ BuildBase /\ ReadyInv /\ [Next]_vars => ReadyInv'
<1> SUFFICES ASSUME OneHomePerPrefix, QuickBuilds, BuildBase, ReadyInv, [Next]_vars
             PROVE  ReadyInv'
  OBVIOUS
<1>1. ASSUME NEW v \in Tasks, Active(v) PROVE ReadyInv'
  BY <1>1, OwnStepReady, OthersStepReady DEF ReadyInv
<1>2. ASSUME NEW v \in Tasks, UseDatabase(v) \/ LoseMaster(v) \/ Reap(v)
      PROVE  ReadyInv'
  BY <1>2, SurroundingsKeep, SurroundingsReady
<1>3. CASE Inspect \/ StopInspecting \/ Tick \/ UNCHANGED vars
  BY <1>3, SurroundingsKeep, SurroundingsReady
<1> QED
  BY <1>1, <1>2, <1>3, FailureReady DEF Next, TaskStep, Active, Terminating

(* build and clone_into: the template a task has just built, or found under *)
(* the lock, is there for its second clone, though the lock is given back   *)
(* in between, as long as no setup takes so long that its template looks    *)
(* idle.                                                                    *)
THEOREM SecondCloneHasTemplate ==
  ASSUME OneHomePerPrefix, QuickBuilds
  PROVE  Spec => []SecondCloneFindsTemplate
<1>1. Init => ReadyInv
  BY DEF Init, ReadyInv, Ready
<1>2. ReadyInv => SecondCloneFindsTemplate
  BY DEF ReadyInv, Ready, SecondCloneFindsTemplate
<1>3. BuildersAlone /\ BuildInv /\ AllTimely => BuildBase
  BY DEF BuildBase
<1> QED
  BY <1>1, <1>2, <1>3, NextReady, BuildInvariant, TimelyInvariant, PTL DEF Spec
=============================================================================
