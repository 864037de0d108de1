---------------------------- MODULE BooksProofs ----------------------------
(***************************************************************************)
(* What the bookkeeping tables of Harness.tla are for: which databases may *)
(* be there after their test, and that the sweep finds those, and only     *)
(* those.                                                                  *)
(***************************************************************************)
EXTENDS StoreProofs

-----------------------------------------------------------------------------
(* What outlives its test.  `Account` says for each stage after the clone   *)
(* why the database is there, or that it is not.                            *)

Reason(t) == verdict[t] = "failed" /\ KeepFailed[t]

Account(t) ==
  /\ pc[t] = "forget" => ~Exists(TestDb(t))
  /\ pc[t] = "done" => ~Exists(TestDb(t)) /\ t \notin rows
  /\ pc[t] \in {"mark", "kept"} => Reason(t)
  /\ pc[t] = "panicked" /\ Exists(TestDb(t)) => Reason(t)

Accounts == \A t \in Tasks : Account(t)

(* Nothing u's account rests on has changed for the worse.                  *)
Untouched(u) ==
  /\ pc'[u] = pc[u] /\ verdict'[u] = verdict[u]
  /\ content'[TestDb(u)] \in {Absent, content[TestDb(u)]}
  /\ u \in rows' => u \in rows

LEMMA UntouchedKeeps ==
  ASSUME NEW u \in Tasks, Account(u), Untouched(u)
  PROVE  Account(u)'
  BY DEF Account, Untouched, Reason, Exists

(* A step of one task leaves the database and the program counter of every  *)
(* other: a database may only go.                                           *)
LEMMA EffectOnOthers ==
  ASSUME StoreInv, NEW t \in Tasks, Effect(t), NEW u \in Tasks \ {t}
  PROVE  /\ pc'[u] = pc[u]
         /\ content'[TestDb(u)] \in {Absent, content[TestDb(u)]}
<1>1. pc'[u] = pc[u]
  BY DEF Effect, Moves, Stays, Alone
<1>2. CASE content' = content
  BY <1>1, <1>2
<1>3. CASE \E n : Drops(n)
  BY <1>1, <1>3, TaskNames DEF Drops, OnlyAt
<1>4. CASE OnlyAt(Building(t))
  BY <1>1, <1>4, TaskNames, NamesDiffer DEF OnlyAt
<1>5. CASE PublishTemplate(Building(t), Template(t))
  BY <1>1, <1>5, TaskNames, NamesDiffer
  DEF PublishTemplate, StoreInv, TypeOK, ServerTypeOK
<1>6. CASE CloneDatabase(TestDb(t), Template(t))
  BY <1>1, <1>6, TaskNames, NamesDiffer
  DEF CloneDatabase, StoreInv, TypeOK, ServerTypeOK
<1> QED
  BY <1>2, <1>3, <1>4, <1>5, <1>6 DEF Effect

(* What a task may do to the verdicts, the sessions and the rows.           *)
Books(t) ==
  /\ \A u \in Tasks \ {t} : verdict'[u] = verdict[u]
  /\ rows' \subseteq rows \cup {t}

LEMMA RowStatements ==
  ASSUME NEW t, NEW u, NEW n, NEW m, NEW k,
         \/ CreateDatabase(n) \/ CloneDatabase(n, m) \/ DropForce(n)
         \/ DropIfIdle(n) \/ PublishTemplate(n, m) \/ RetireTemplate(n)
         \/ Connect(n) \/ Disconnect(n) \/ Lock(t, k) \/ Unlock(t, k)
         \/ EndMaster(t) \/ MarkFailed(t) \/ ForgetDatabase(u)
         \/ TouchTemplate(t) \/ ForgetTemplate(t, n) \/ ForgetStaleRuns(t)
         \/ RegisterTest(t) \/ UNCHANGED server
  PROVE  rows' \subseteq rows \cup {t}
  BY DEF CreateDatabase, CloneDatabase, DropForce, DropIfIdle, PublishTemplate,
     RetireTemplate, Connect, Disconnect, Lock, Unlock, EndMaster, MarkFailed,
     ForgetDatabase, TouchTemplate, ForgetTemplate, ForgetStaleRuns,
     RegisterTest, server, books

LEMMA WorksBooks ==
  ASSUME TypeOK, NEW t \in Tasks, Works(t)
  PROVE  Books(t)
<1>1. CASE HarnessStep(t)
  BY <1>1, RowStatements
  DEF HarnessStep, Register, Unregister, ApplyFixtures, FixturesApplied,
      MakeArgs, Discard, EndTest, DropDatabase, Forget, Mark, Step, Books,
      history, TypeOK
<1>2. CASE TemplateStep(t)
  <2>1. rows' \subseteq rows \cup {t}
    <3>1. CASE ApplySchema(t)
      BY <3>1, RowStatements DEF ApplySchema, books
    <3> QED
      BY <1>2, <3>1, RowStatements
      DEF TemplateStep, TouchExisting, TouchFirst, Clone, LockTemplate,
          TemplateExists, ListOrphans, ListNames, DropOrphan, CreateBuilding,
          ConnectBuilding, DiscardBuilding, Publish, Touch, UnlockTemplate,
          CloneAgain, Refused
  <2>2. UNCHANGED history
    BY <1>2
    DEF TemplateStep, TouchExisting, TouchFirst, Clone, LockTemplate,
        TemplateExists, ListOrphans, ListNames, DropOrphan, CreateBuilding,
        ConnectBuilding, ApplySchema, DiscardBuilding, Publish, Touch,
        UnlockTemplate, CloneAgain, Refused, Step, Skip
  <2> QED
    BY <2>1, <2>2 DEF Books, history
<1>3. CASE SweepStep(t)
  <2>1. rows' \subseteq rows \cup {t}
    BY <1>3, RowStatements
    DEF SweepStep, TrySweepLock, TryTemplateLock, TryLock, ListLeftovers,
        ListNames, SweepDrop, SweepForget, SweepRuns, SweepUnlock,
        ListSweepOrphans, DropSweepOrphan, ListIdle, Retire, RetireDrop,
        RetireForget, RetireUnlock, Refused, Forgotten
  <2>2. UNCHANGED history
    BY <1>3
    DEF SweepStep, TrySweepLock, TryTemplateLock, TryLock, ListLeftovers,
        ListNames, SweepDrop, SweepForget, SweepRuns, SweepUnlock,
        ListSweepOrphans, DropSweepOrphan, ListIdle, Retire, RetireDrop,
        RetireForget, RetireUnlock, Refused, Forgotten, Step, Skip
  <2> QED
    BY <2>1, <2>2 DEF Books, history
<1> QED
  BY <1>1, <1>2, <1>3 DEF Works

(* A task's own step accounts for its database.                             *)
LEMMA HarnessAccount ==
  ASSUME StoreInv, Accounts, NotYet', NEW t \in Tasks, HarnessStep(t)
  PROVE  Account(t)'
<1> USE DEF StoreInv, TypeOK, Step, Goto
<1>1. CASE Register(t) \/ ApplyFixtures(t) \/ FixturesApplied(t) \/ MakeArgs(t)
  BY <1>1 DEF Register, ApplyFixtures, FixturesApplied, MakeArgs, Discard,
     Account
<1>2. CASE Unregister(t)
  BY <1>2 DEF Unregister, ForgetDatabase, catalog, Account, NotYet,
     BeforeClone, Exists
<1>3. CASE EndTest(t)
  BY <1>3 DEF EndTest, Account, Reason
<1>4. CASE DropDatabase(t)
  BY <1>4, TaskNames
  DEF DropDatabase, DropForce, Account, Exists, ServerTypeOK
<1>5. CASE Forget(t)
  BY <1>5 DEF Forget, ForgetDatabase, catalog, Account, Accounts, Exists
<1>6. CASE Mark(t)
  BY <1>6 DEF Mark, Account, Accounts, Reason, history
<1> QED
  BY <1>1, <1>2, <1>3, <1>4, <1>5, <1>6 DEF HarnessStep

LEMMA EarlyAccount ==
  ASSUME StoreInv, NEW t \in Tasks, pc[t] \in BeforeClone,
         pc'[t] \notin {"forget", "done", "mark", "kept"},
         content' = content
  PROVE  Account(t)'
  BY DEF StoreInv, NotYet, Account, Exists

LEMMA TemplateAccount ==
  ASSUME StoreInv, NEW t \in Tasks, TemplateStep(t)
  PROVE  Account(t)'
<1>1. pc'[t] \in TemplateLabels \cup {"unregister", "fixtures"}
  BY DEF TemplateStep, TouchExisting, TouchFirst, Clone, LockTemplate,
     TemplateExists, ListOrphans, ListNames, DropOrphan, CreateBuilding,
     ConnectBuilding, ApplySchema, DiscardBuilding, Publish, Touch,
     UnlockTemplate, CloneAgain, Refused, Step, Skip, Rest, Goto,
     TemplateLabels, StoreInv, TypeOK
<1> QED
  BY <1>1 DEF Account, TemplateLabels

LEMMA SweepAccount ==
  ASSUME StoreInv, NEW t \in Tasks, SweepStep(t)
  PROVE  Account(t)'
<1>1. CASE SweepUnlock(t) \/ RetireUnlock(t)
  <2>1. /\ pc[t] \in SweepLabels /\ content' = content
        /\ pc'[t] \in {"retire_lock", "touch_existing", "panicked"}
    BY <1>1 DEF SweepUnlock, RetireUnlock, Unlock, catalog, Step, Goto,
       SweepLabels, StoreInv, TypeOK
  <2> QED
    BY <2>1, EarlyAccount DEF BeforeClone
<1>2. CASE ~(SweepUnlock(t) \/ RetireUnlock(t))
  <2>1. pc'[t] \in SweepLabels \cup {"touch_existing"}
    BY <1>2
    DEF SweepStep, TrySweepLock, TryTemplateLock, TryLock, ListLeftovers,
        ListNames, SweepDrop, SweepForget, SweepRuns, ListSweepOrphans,
        DropSweepOrphan, ListIdle, Retire, RetireDrop, RetireForget, Refused,
        Forgotten, Step, Skip, Rest, Goto, SweepLabels, StoreInv, TypeOK
  <2> QED
    BY <2>1 DEF Account, SweepLabels
<1> QED
  BY <1>1, <1>2

(* An error ends a test before there is a database, with the drop of it     *)
(* that failed, or when it is gone or kept.                                 *)
LEMMA FailsAccount ==
  ASSUME StoreInv, Accounts, NEW t \in Tasks, Fails(t)
  PROVE  Account(t)'
<1>1. /\ content' = content /\ UNCHANGED history
      /\ pc'[t] \notin {"forget", "done", "mark", "kept"}
  BY DEF Fails, HarnessFails, TemplateFails, SweepFails, Refused, Goto,
     StoreInv, TypeOK, server, catalog
<1>2. CASE HarnessFails(t)
  <2>1. CASE pc'[t] = "undropped"
    BY <1>1, <2>1 DEF Account
  <2>2. CASE pc'[t] # "undropped"
    <3>1. pc[t] \in {"start", "unregister", "forget", "mark"}
      BY <1>2, <2>2 DEF HarnessFails, Refused, Goto, StoreInv, TypeOK
    <3>2. CASE pc[t] \in {"start", "unregister"}
      BY <1>1, <3>2, EarlyAccount DEF BeforeClone
    <3>3. CASE pc[t] \in {"forget", "mark"}
      BY <1>1, <3>3 DEF Accounts, Account, Reason, Exists, history
    <3> QED
      BY <3>1, <3>2, <3>3
  <2> QED
    BY <2>1, <2>2
<1>3. CASE TemplateFails(t) \/ SweepFails(t)
  <2>1. pc[t] \in BeforeClone
    BY <1>3 DEF TemplateFails, SweepFails, BeforeClone, SweepHeld, RetireHeld,
       SweepLabels, TemplateLabels
  <2> QED
    BY <1>1, <2>1, EarlyAccount
<1> QED
  BY <1>2, <1>3 DEF Fails

(* The steps of the code, and the failures of its statements, account for   *)
(* every task.                                                              *)
LEMMA TaskAccounts ==
  ASSUME StoreInv, Accounts, NotYet', NEW t \in Tasks,
         TaskStep(t) \/ (t \in Faulty /\ Fails(t))
  PROVE  Accounts'
<1>1. Account(t)'
  BY HarnessAccount, TemplateAccount, SweepAccount, FailsAccount
  DEF TaskStep, Works
<1>2. Effect(t) /\ Books(t)
  <2>1. CASE Works(t)
    BY <2>1, WorksBooks, HarnessStepEffect, TemplateStepEffect, SweepStepEffect
    DEF Works, StoreInv
  <2>2. CASE Fails(t)
    <3>1. UNCHANGED server /\ UNCHANGED history /\ \E to : Goto(t, to)
      BY <2>2 DEF Fails, HarnessFails, TemplateFails, SweepFails, Refused
    <3>2. Books(t)
      BY <3>1 DEF Books, server, history
    <3>3. (content' = content /\ pc'[t] \notin BeforeClone) \/ Effect(t)
      BY <2>2, GotoMoves, WholeCatalogStatements
      DEF Fails, HarnessFails, TemplateFails, SweepFails, Refused, Effect,
          StoreInv, BeforeClone, TemplateLabels, SweepLabels, SweepHeld,
          RetireHeld
    <3>4. Effect(t)
      BY <3>1, <3>3, GotoMoves DEF Effect, StoreInv, server
    <3> QED
      BY <3>2, <3>4
  <2> QED
    BY <2>1, <2>2 DEF TaskStep
<1>3. ASSUME NEW u \in Tasks \ {t} PROVE Account(u)'
  <2>1. Untouched(u)
    BY <1>2, EffectOnOthers DEF Books, Untouched
  <2> QED
    BY <2>1, UntouchedKeeps DEF Accounts
<1> QED
  BY <1>1, <1>3 DEF Accounts

LEMMA OthersAccounts ==
  ASSUME StoreInv, Accounts,
         \/ \E t \in Tasks : UseDatabase(t) \/ LoseMaster(t) \/ Reap(t)
         \/ Inspect \/ StopInspecting \/ Tick \/ UNCHANGED vars
  PROVE  Accounts'
<1>1. /\ content' = content /\ pc' = pc /\ rows' = rows
      /\ verdict' = verdict
  BY DEF UseDatabase, LoseMaster, Reap, ReapMaster, ReapClient, EndMaster,
     Connect, Disconnect, Inspect, StopInspecting, Tick, locals, catalog, books,
     vars
<1> QED
  BY <1>1, UntouchedKeeps DEF Accounts, Untouched

LEMMA CrashAccounts ==
  ASSUME StoreInv, Accounts, NEW t \in Tasks, Crash(t)
  PROVE  Accounts'
<1>1. /\ content' = content /\ rows' = rows /\ UNCHANGED history
      /\ \A u \in Tasks \ {t} : pc'[u] = pc[u]
      /\ pc'[t] = "crashed"
  BY DEF Crash, server, Goto, StoreInv, TypeOK
<1>2. Account(t)'
  BY <1>1 DEF Account
<1>3. \A u \in Tasks \ {t} : Untouched(u)
  BY <1>1 DEF Untouched, history
<1> QED
  BY <1>2, <1>3, UntouchedKeeps DEF Accounts

LEMMA NextAccounts ==
  StoreInv /\ DatabasesComplete' /\ Accounts /\ [Next]_vars => Accounts'
<1> SUFFICES ASSUME StoreInv, DatabasesComplete', Accounts, [Next]_vars
             PROVE  Accounts'
  OBVIOUS
<1>1. NotYet'
  BY NextStore
<1> QED
  BY <1>1, TaskAccounts, OthersAccounts, CrashAccounts DEF Next, Terminating

LEMMA AccountsSuffice == StoreInv /\ Accounts => OnlyFailuresOutlive
  BY DEF Accounts, Account, Reason, OnlyFailuresOutlive, Ended

LEMMA AccountsInvariant == Spec => []Accounts
<1>1. Init => Accounts
  BY DEF Init, Accounts, Account
<1> QED
  BY <1>1, NextAccounts, StoreInvariant, PTL DEF Spec

(* A database outlives its test only for one of the promised reasons, and a *)
(* test that passed and said so leaves neither database nor row behind.     *)
THEOREM OnlyFailuresStay == Spec => []OnlyFailuresOutlive
  BY AccountsInvariant, AccountsSuffice, StoreInvariant, PTL

-----------------------------------------------------------------------------
(* What a step does to the rows and to a test's database.                   *)

LEMMA BooksLeftAlone ==
  ASSUME NEW t, NEW n, NEW m, NEW k,
         \/ CreateDatabase(n) \/ CloneDatabase(n, m) \/ DropForce(n)
         \/ DropIfIdle(n) \/ PublishTemplate(n, m) \/ RetireTemplate(n)
         \/ Connect(n) \/ Disconnect(n) \/ Lock(t, k) \/ Unlock(t, k)
         \/ EndMaster(t) \/ TouchTemplate(t) \/ ForgetTemplate(t, n)
         \/ UNCHANGED server
  PROVE  UNCHANGED <<lastSeen, rows, failedAt>>
  BY DEF CreateDatabase, CloneDatabase, DropForce, DropIfIdle, PublishTemplate,
     RetireTemplate, Connect, Disconnect, Lock, Unlock, EndMaster,
     TouchTemplate, ForgetTemplate, server, books

(* Six steps of the code write the rows of runs and databases.              *)
LEMMA BookSteps ==
  ASSUME NEW v \in Tasks, StepOf(v)
  PROVE  \/ Register(v) \/ Unregister(v) \/ Forget(v) \/ Mark(v)
         \/ SweepForget(v) \/ SweepRuns(v)
         \/ UNCHANGED <<lastSeen, rows, failedAt>>
<1> USE BooksLeftAlone DEF ListNames, Refused
<1>1. CASE HarnessStep(v)
  BY <1>1
  DEF HarnessStep, ApplyFixtures, FixturesApplied, MakeArgs, EndTest,
      DropDatabase
<1>2. CASE TemplateStep(v)
  <2>1. CASE ApplySchema(v)
    BY <2>1 DEF ApplySchema, books
  <2> QED
    BY <1>2, <2>1
    DEF TemplateStep, TouchExisting, TouchFirst, Clone, LockTemplate,
        TemplateExists, ListOrphans, DropOrphan, CreateBuilding,
        ConnectBuilding, DiscardBuilding, Publish, Touch, UnlockTemplate,
        CloneAgain
<1>3. CASE SweepStep(v)
  BY <1>3
  DEF SweepStep, TrySweepLock, TryTemplateLock, TryLock, ListLeftovers,
      SweepDrop, SweepUnlock, ListSweepOrphans, DropSweepOrphan, ListIdle,
      Retire, RetireDrop, RetireForget, RetireUnlock
<1>4. CASE Fails(v) \/ Crash(v)
  BY <1>4 DEF Fails, HarnessFails, TemplateFails, SweepFails, Crash
<1> QED
  BY <1>1, <1>2, <1>3, <1>4 DEF StepOf, Works

(* A test's database comes with its own clone and goes with its own drop,   *)
(* or by the hand of a sweep that has it on its list.                       *)
LEMMA TestDbSteps ==
  ASSUME TypeOK, NEW v \in Tasks, StepOf(v), NEW t \in Tasks
  PROVE  \/ content'[TestDb(t)] = content[TestDb(t)]
         \/ /\ v = t /\ pc[t] \in {"clone", "clone_again"}
            /\ pc'[t] = "fixtures" /\ Exists(TestDb(t))'
         \/ /\ content'[TestDb(t)] = Absent
            /\ \/ v = t /\ pc[t] = "drop" /\ pc'[t] = "forget"
               \/ TestDb(t) \in InHand(v)
<1> USE NamesDiffer, TaskNames
<1>1. CASE content' = content
  BY <1>1
<1>2. CASE Clone(v) \/ CloneAgain(v)
  <2>1. CASE CloneDatabase(TestDb(v), Template(v)) /\ pc'[v] = "fixtures"
    BY <1>2, <2>1
    DEF Clone, CloneAgain, CloneDatabase, Step, Refused, Exists, TypeOK,
        ServerTypeOK
  <2> QED
    BY <1>1, <1>2, <2>1, WholeCatalogStatements
    DEF Clone, CloneAgain, Step, Goto, Refused, TypeOK
<1>3. CASE CreateBuilding(v) \/ DiscardBuilding(v) \/ ApplySchema(v) \/ Publish(v)
  BY <1>3, WholeCatalogStatements
  DEF CreateBuilding, CreateDatabase, DiscardBuilding, DropForce, ApplySchema,
      Publish, PublishTemplate, Refused, TypeOK, ServerTypeOK
<1>4. CASE DropOrphan(v) \/ DropSweepOrphan(v)
  BY <1>4
  DEF DropOrphan, DropSweepOrphan, DropForce, InHand, TypeOK, ServerTypeOK
<1>5. CASE SweepDrop(v)
  BY <1>1, <1>5, WholeCatalogStatements
  DEF SweepDrop, DropIfIdle, InHand, TypeOK, ServerTypeOK
<1>6. CASE RetireDrop(v)
  BY <1>1, <1>6, WholeCatalogStatements
  DEF RetireDrop, DropIfIdle, Step, Refused, InHand, TypeOK, ServerTypeOK
<1>7. CASE DropDatabase(v)
  BY <1>7 DEF DropDatabase, DropForce, Step, Goto, TypeOK, ServerTypeOK
<1>8. CASE HarnessStep(v) /\ ~DropDatabase(v)
  BY <1>1, <1>8, WholeCatalogStatements
  DEF HarnessStep, Register, Unregister, ApplyFixtures, FixturesApplied,
      MakeArgs, EndTest, Forget, Mark
<1>9. CASE TouchExisting(v) \/ TouchFirst(v) \/ Touch(v) \/ LockTemplate(v)
             \/ UnlockTemplate(v) \/ TemplateExists(v) \/ ListOrphans(v)
             \/ ConnectBuilding(v)
  BY <1>1, <1>9, WholeCatalogStatements
  DEF TouchExisting, TouchFirst, Touch, LockTemplate, UnlockTemplate,
      TemplateExists, ListOrphans, ListNames, ConnectBuilding, Refused
<1>10. CASE SweepStep(v) /\ ~SweepDrop(v) /\ ~RetireDrop(v) /\ ~DropSweepOrphan(v)
  BY <1>1, <1>10, WholeCatalogStatements
  DEF SweepStep, TrySweepLock, TryTemplateLock, TryLock, ListLeftovers,
      SweepForget, SweepRuns, SweepUnlock, ListSweepOrphans, ListIdle,
      ListNames, Retire, RetireForget, RetireUnlock, Refused
<1>11. CASE Fails(v) \/ Crash(v)
  BY <1>1, <1>11, WholeCatalogStatements
  DEF Fails, HarnessFails, TemplateFails, SweepFails, Crash, Refused
<1> QED
  BY <1>2, <1>3, <1>4, <1>5, <1>6, <1>7, <1>8, <1>9, <1>10, <1>11
  DEF StepOf, Works, TemplateStep

LEMMA Appears ==
  ASSUME TypeOK, NEW v \in Tasks, StepOf(v), NEW t \in Tasks,
         ~Exists(TestDb(t)), Exists(TestDb(t))'
  PROVE  v = t /\ pc[t] \in {"clone", "clone_again"} /\ pc'[t] = "fixtures"
<1>1. content[TestDb(t)] = Absent /\ content'[TestDb(t)] # Absent
  BY DEF Exists
<1> QED
  BY <1>1, TestDbSteps

LEMMA Vanishes ==
  ASSUME TypeOK, NEW v \in Tasks, StepOf(v), NEW t \in Tasks,
         Exists(TestDb(t)), ~Exists(TestDb(t))'
  PROVE  \/ v = t /\ pc[t] = "drop" /\ pc'[t] = "forget"
         \/ TestDb(t) \in InHand(v)
<1>1. content[TestDb(t)] # Absent /\ content'[TestDb(t)] = Absent
  BY DEF Exists
<1> QED
  BY <1>1, TestDbSteps DEF Exists

-----------------------------------------------------------------------------
(* The clock.  A sweep takes a test's run for abandoned by the age of its   *)
(* row, which is at most a quarter of stale_run_after older than the test.  *)
(* `Old` is what follows for the test itself; everything a sweep does to a  *)
(* test that runs, it does to one that is old for it.                       *)

Running == Early \cup CloneLabels \cup {"mark"}

Old(t, u) == /\ HomeOf[t] = HomeOf[u]
             /\ StaleRunAfter[u] < now - born[t] + Quarter(StaleRunAfter[t])

RowFresh(t) ==
  t \in rows => /\ born[t] # Never /\ lastSeen[RunRow(t)] # Never
                /\ born[t] - lastSeen[RunRow(t)] <= Quarter(StaleRunAfter[t])

Unfailed(t) == pc[t] \in Running \cup {"start"} => failedAt[t] = Never

Listed(t) ==
  \A u \in Tasks : TestDb(t) \in InHand(u) =>
    pc[t] # "start" /\ (pc[t] \in Running => Old(t, u))

Unrecorded(t) == pc[t] \in Running /\ t \notin rows => \E u \in Tasks : Old(t, u)

Dropped(t) ==
  pc[t] \in CloneLabels \cup {"mark"} /\ ~Exists(TestDb(t)) =>
    \E u \in Tasks : Old(t, u)

Aging(t) == /\ RowFresh(t) /\ Unfailed(t) /\ Listed(t)
            /\ Unrecorded(t) /\ Dropped(t)

ClockInv == \A t \in Tasks : Aging(t)

LEMMA QuarterIsNat == \A age \in Nat : Quarter(age) \in Nat /\ 4 * Quarter(age) <= age
  BY DEF Quarter

LEMMA RefreshedInTime ==
  \A age \in Nat, stamp \in Int, time \in Int :
    ~(4 * (time - stamp) > age) => time - stamp <= Quarter(age)
  BY DEF Quarter

(* A step of the code keeps the date and the age of who is on the way.      *)
LEMMA SteadyAge ==
  ASSUME TypeOK, NEW v \in Tasks, StepOf(v), NEW t \in Tasks,
         pc[t] # "start", pc'[t] \in Running
  PROVE  /\ pc[t] \in Running
         /\ \A u \in Tasks : Old(t, u) => Old(t, u)'
<1>1. Onward(v) /\ now' = now /\ (Register(v) \/ born' = born)
  BY WorkOnward, FailureOnward, WorkTakesNoTime DEF StepOf
<1>2. v # t => pc'[t] = pc[t]
  BY OthersSteady
<1>3. pc[t] \in Running
  BY <1>1, <1>2 DEF Onward, Running, Early, TemplateLabels, CloneLabels
<1>4. born'[t] = born[t]
  BY <1>1 DEF Register, TypeOK
<1> QED
  BY <1>1, <1>3, <1>4 DEF Old

LEMMA RowsStayFresh ==
  ASSUME TypeOK, AllTimely, NEW v \in Tasks, StepOf(v), NEW t \in Tasks,
         RowFresh(t)
  PROVE  RowFresh(t)'
<1>1. now' = now /\ (Register(v) \/ born' = born)
  BY WorkTakesNoTime DEF StepOf
<1>2. CASE Register(v)
  <2>1. /\ born'[v] = now /\ \A u \in Tasks \ {v} : born'[u] = born[u]
        /\ rows' = rows \cup {v}
        /\ lastSeen'[RunRow(v)] =
             IF \/ lastSeen[RunRow(v)] = Never
                \/ RefreshDue(lastSeen[RunRow(v)], StaleRunAfter[v])
               THEN now ELSE lastSeen[RunRow(v)]
        /\ RunRow(t) # RunRow(v) => lastSeen'[RunRow(t)] = lastSeen[RunRow(t)]
    BY <1>2, TaskNames DEF Register, RegisterTest, TypeOK, ServerTypeOK
  <2>2. /\ now \in Nat /\ StaleRunAfter[v] \in Nat /\ StaleRunAfter[t] \in Nat
        /\ lastSeen[RunRow(v)] \in Nat \cup {Never}
        /\ born[t] <= now /\ born[t] \in Nat \cup {Never}
    BY TaskNames, SettingsAssumption DEF TypeOK, ServerTypeOK, AllTimely, Timely
  <2>3. CASE t = v
    BY <2>1, <2>2, <2>3, RefreshedInTime, QuarterIsNat
    DEF RowFresh, RefreshDue, Never
  <2>4. CASE t # v
    BY <2>1, <2>2, <2>4, QuarterIsNat DEF RowFresh, Never
  <2> QED
    BY <2>3, <2>4
<1>3. CASE SweepRuns(v)
  BY <1>1, <1>3, TaskNames
  DEF SweepRuns, ForgetStaleRuns, Step, history, RowFresh
<1>4. CASE born' = born /\ ~SweepRuns(v) /\ ~Register(v)
  <2>1. lastSeen' = lastSeen /\ rows' \subseteq rows
    BY <1>4, BookSteps
    DEF Unregister, Forget, Mark, SweepForget, ForgetDatabase, MarkFailed
  <2> QED
    BY <1>4, <2>1 DEF RowFresh
<1> QED
  BY <1>1, <1>2, <1>3, <1>4

LEMMA RunningUnfailed ==
  ASSUME TypeOK, NEW v \in Tasks, StepOf(v), NEW t \in Tasks, Unfailed(t)
  PROVE  Unfailed(t)'
<1>1. SUFFICES ASSUME pc'[t] \in Running \cup {"start"}
               PROVE  failedAt'[t] = Never
  BY DEF Unfailed
<1>2. Onward(v) /\ (v # t => pc'[t] = pc[t])
  BY WorkOnward, FailureOnward, OthersSteady DEF StepOf
<1>3. failedAt[t] = Never
  BY <1>1, <1>2 DEF Unfailed, Onward, Running, Early, TemplateLabels, CloneLabels
<1>4. CASE Mark(v)
  BY <1>1, <1>3, <1>4
  DEF Mark, Step, Goto, MarkFailed, Running, Early, SweepLabels,
      TemplateLabels, CloneLabels, TypeOK, ServerTypeOK
<1>5. CASE ~Mark(v)
  BY <1>3, <1>5, BookSteps
  DEF Register, RegisterTest, Unregister, Forget, SweepForget, SweepRuns,
      ForgetDatabase, ForgetStaleRuns, TypeOK, ServerTypeOK
<1> QED
  BY <1>4, <1>5

(* What sweep_databases lists of a test that runs is old.                   *)
LEMMA LeftoversAreOld ==
  ASSUME TypeOK, AllTimely, NEW u \in Tasks, NEW t \in Tasks,
         RowFresh(t), Unfailed(t), TestDb(t) \in LeftoverDatabases(u)
  PROVE  t \in rows /\ pc[t] # "start" /\ (pc[t] \in Running => Old(t, u))
<1>1. t \in rows /\ HomeOf[t] = HomeOf[u] /\ IsLeftover(u, t)
  BY NamesDiffer DEF LeftoverDatabases, TypeOK, ServerTypeOK
<1>2. pc[t] # "start"
  BY <1>1 DEF RowFresh, AllTimely, Timely
<1>3. ASSUME pc[t] \in Running PROVE Old(t, u)
  <2>1. OlderThan(lastSeen[RunRow(t)], StaleRunAfter[u])
    BY <1>1, <1>3 DEF IsLeftover, Unfailed, RowFresh
  <2>2. /\ now \in Nat /\ born[t] \in Int /\ lastSeen[RunRow(t)] \in Int
        /\ StaleRunAfter[u] \in Nat /\ Quarter(StaleRunAfter[t]) \in Nat
    BY TaskNames, QuarterIsNat, SettingsAssumption
    DEF TypeOK, ServerTypeOK, Never
  <2> QED
    BY <1>1, <2>1, <2>2 DEF OlderThan, RowFresh, Old
<1> QED
  BY <1>1, <1>2, <1>3

(* The hand that holds a test's database has held it, or has just read it.  *)
LEMMA HandsHold ==
  ASSUME TypeOK, NEW v \in Tasks, StepOf(v), NEW u \in Tasks, NEW t \in Tasks,
         TestDb(t) \in InHand(u)'
  PROVE  \/ TestDb(t) \in InHand(u)
         \/ u = v /\ ListLeftovers(v) /\ TestDb(t) \in LeftoverDatabases(u)
<1>1. TestDb(t) \notin IdleTemplates(u) /\ TestDb(t) \notin BuildingDatabases(u)
  BY NamesDiffer DEF IdleTemplates, Templates, BuildingDatabases
<1> QED
  BY <1>1, HandsEmpty, OthersSteady DEF StepOf

LEMMA ListedStayOld ==
  ASSUME TypeOK, AllTimely, NEW v \in Tasks, StepOf(v), NEW t \in Tasks,
         Aging(t)
  PROVE  Listed(t)'
<1>1. SUFFICES ASSUME NEW u \in Tasks, TestDb(t) \in InHand(u)'
               PROVE  pc'[t] # "start" /\ (pc'[t] \in Running => Old(t, u)')
  BY DEF Listed
<1>2. pc[t] # "start" /\ (pc[t] \in Running => Old(t, u))
  BY <1>1, HandsHold, LeftoversAreOld DEF Aging, Listed
<1>3. pc'[t] # "start"
  BY <1>2, WorkOnward, FailureOnward, OthersSteady DEF StepOf, Onward
<1> QED
  BY <1>2, <1>3, SteadyAge

(* Rows go with their task, or by the hand of a sweep.                      *)
LEMMA RowsGo ==
  ASSUME TypeOK, NEW v \in Tasks, StepOf(v), NEW t \in Tasks,
         t \in rows, t \notin rows'
  PROVE  \/ v = t /\ (Forget(t) \/ Unregister(t))
         \/ pc[v] = "sweep_forget" /\ victim[v] = TestDb(t)
  BY BookSteps, NamesDiffer
  DEF Register, RegisterTest, Unregister, Forget, Mark, MarkFailed,
      SweepForget, Forgotten, SweepRuns, ForgetDatabase, ForgetStaleRuns

LEMMA RecordsKept ==
  ASSUME TypeOK, NEW v \in Tasks, StepOf(v), NEW t \in Tasks, Aging(t)
  PROVE  Unrecorded(t)'
<1>1. SUFFICES ASSUME pc'[t] \in Running, t \notin rows'
               PROVE  \E u \in Tasks : Old(t, u)'
  BY DEF Unrecorded
<1>2. pc[t] # "start"
  <2>1. ASSUME pc[t] = "start" PROVE FALSE
    <3>1. Register(t)
      BY <1>1, <2>1, WorkOnward, FailureOnward, OthersSteady
      DEF StepOf, Onward, Running, Early, SweepLabels, TemplateLabels,
          CloneLabels, Ended
    <3> QED
      BY <1>1, <3>1 DEF Register, RegisterTest
  <2> QED
    BY <2>1
<1>3. pc[t] \in Running
  BY <1>1, <1>2, SteadyAge
<1>4. CASE t \notin rows
  BY <1>1, <1>2, <1>3, <1>4, SteadyAge DEF Aging, Unrecorded
<1>5. CASE t \in rows
  <2>1. ~Forget(t) /\ ~Unregister(t)
    BY <1>1 DEF Forget, Unregister, Step, Goto, Running, Early, SweepLabels,
       TemplateLabels, CloneLabels, TypeOK
  <2>2. TestDb(t) \in InHand(v)
    BY <1>1, <1>5, <2>1, RowsGo DEF InHand
  <2> QED
    BY <1>1, <1>2, <1>3, <2>2, SteadyAge DEF Aging, Listed
<1> QED
  BY <1>4, <1>5

LEMMA DropsAreOld ==
  ASSUME TypeOK, NEW v \in Tasks, StepOf(v), NEW t \in Tasks, Aging(t)
  PROVE  Dropped(t)'
<1>1. SUFFICES ASSUME pc'[t] \in CloneLabels \cup {"mark"}, ~Exists(TestDb(t))'
               PROVE  \E u \in Tasks : Old(t, u)'
  BY DEF Dropped
<1>2. pc[t] # "start" /\ pc'[t] \in Running
  BY <1>1, WorkOnward, FailureOnward, OthersSteady
  DEF StepOf, Onward, Running, CloneLabels
<1>3. CASE Exists(TestDb(t))
  <2>1. TestDb(t) \in InHand(v)
    BY <1>1, <1>3, Vanishes DEF CloneLabels
  <2> QED
    BY <1>2, <2>1, SteadyAge DEF Aging, Listed
<1>4. CASE ~Exists(TestDb(t)) /\ pc[t] \in CloneLabels \cup {"mark"}
  BY <1>2, <1>4, SteadyAge DEF Aging, Dropped
<1>5. CASE ~Exists(TestDb(t)) /\ pc[t] \notin CloneLabels \cup {"mark"}
  <2>1. v = t /\ pc[t] \in {"clone", "clone_again"} /\ pc'[t] \in CloneLabels
    BY <1>1, <1>5, WorkOnward, FailureOnward, OthersSteady
    DEF StepOf, Onward, CloneLabels
  <2>2. Clone(t) \/ CloneAgain(t)
    BY <2>1 DEF StepOf, Works, HarnessStep, TemplateStep, SweepStep, Step,
       Register, Unregister, ApplyFixtures, FixturesApplied, MakeArgs,
       EndTest, DropDatabase, Forget, Mark, TouchExisting, TouchFirst,
       LockTemplate, TemplateExists, ListOrphans, DropOrphan, CreateBuilding,
       ConnectBuilding, ApplySchema, DiscardBuilding, Publish, Touch,
       UnlockTemplate, TrySweepLock, TryTemplateLock, TryLock, ListLeftovers,
       ListNames, Forgotten, SweepDrop, SweepForget, SweepRuns, SweepUnlock,
       ListSweepOrphans, DropSweepOrphan, ListIdle, Retire, RetireDrop,
       RetireForget, RetireUnlock, Discard, Fails, HarnessFails, TemplateFails,
       SweepFails, SweepHeld, RetireHeld, Crash, Refused, Goto, TypeOK,
       CloneLabels
  <2>3. CloneDatabase(TestDb(t), Template(t))
    BY <2>1, <2>2 DEF Clone, CloneAgain, Step, Refused, Goto, TypeOK, CloneLabels
  <2> QED
    BY <1>1, <2>3, TaskNames DEF CloneDatabase, Exists, TypeOK, ServerTypeOK
<1> QED
  BY <1>3, <1>4, <1>5

LEMMA StepAges ==
  ASSUME TypeOK, AllTimely, ClockInv, NEW v \in Tasks, StepOf(v)
  PROVE  ClockInv'
<1>1. ASSUME NEW t \in Tasks PROVE Aging(t)'
  BY RowsStayFresh, RunningUnfailed, ListedStayOld, RecordsKept, DropsAreOld
  DEF ClockInv, Aging
<1> QED
  BY <1>1 DEF ClockInv

(* Time makes old; nothing else around the tasks has to do with ages.       *)
LEMMA SurroundingsAge ==
  ASSUME TypeOK, ClockInv,
         UNCHANGED <<content, books, pc, loop, born, verdict>>,
         Tick \/ now' = now
  PROVE  ClockInv'
<1>1. now \in Nat /\ now' \in Nat /\ now <= now'
  BY DEF Tick, TypeOK, ServerTypeOK
<1>2. ASSUME NEW t \in Tasks, NEW u \in Tasks, Old(t, u) PROVE Old(t, u)'
  <2>1. /\ born[t] \in Int /\ StaleRunAfter[u] \in Int
        /\ Quarter(StaleRunAfter[t]) \in Int
    BY QuarterIsNat, SettingsAssumption DEF TypeOK, Never
  <2> QED
    BY <1>1, <1>2, <2>1 DEF Old
<1>3. ASSUME NEW t \in Tasks PROVE Aging(t)'
  BY <1>2, <1>3
  DEF ClockInv, Aging, RowFresh, Unfailed, Listed, Unrecorded, Dropped, InHand,
      Exists, books, loop
<1> QED
  BY <1>3 DEF ClockInv

LEMMA NextAges == TypeOK /\ AllTimely /\ ClockInv /\ [Next]_vars => ClockInv'
<1> SUFFICES ASSUME TypeOK, AllTimely, ClockInv, [Next]_vars PROVE ClockInv'
  OBVIOUS
<1>1. ASSUME NEW t \in Tasks, UseDatabase(t) \/ LoseMaster(t) \/ Reap(t)
      PROVE  ClockInv'
  BY <1>1, SurroundingsKeep, SurroundingsAge
<1>2. CASE Inspect \/ StopInspecting \/ Tick \/ UNCHANGED vars
  BY <1>2, SurroundingsKeep, SurroundingsAge
<1> QED
  BY <1>1, <1>2, StepAges DEF Next, TaskStep, StepOf, Terminating

LEMMA InitAges == Init => ClockInv
  BY DEF Init, ClockInv, Aging, RowFresh, Unfailed, Listed, Unrecorded, Dropped,
     InHand, Running, Early, SweepLabels, TemplateLabels, CloneLabels

LEMMA ClockInvariant == Spec => [](TypeOK /\ AllTimely /\ ClockInv)
  BY NextAges, InitAges, TypeCorrect, TimelyInvariant, PTL DEF Spec

(* sweep_databases spares the young: while a test has not run for longer    *)
(* than every patience in its home allows, less the quarter its run's row   *)
(* may lag behind, nobody has dropped its database.                         *)
THEOREM YoungKeepDatabases == Spec => []YoungTestHasDatabase
<1>1. ASSUME TypeOK, ClockInv PROVE YoungTestHasDatabase
  <2>1. ASSUME NEW t \in Tasks, NEW u \in Tasks, Old(t, u)
        PROVE  ~(4 * (now - born[t]) + StaleRunAfter[t] <= 4 * StaleRunAfter[u])
    <3>1. /\ now \in Int /\ born[t] \in Int
          /\ StaleRunAfter[t] \in Nat /\ StaleRunAfter[u] \in Nat
      BY <1>1, SettingsAssumption DEF TypeOK, ServerTypeOK, Never
    <3> QED
      BY <2>1, <3>1, QuarterIsNat DEF Old
  <2>2. ASSUME NEW t \in Tasks, pc[t] \in CloneLabels, ~Exists(TestDb(t))
        PROVE  \E u \in Tasks : Old(t, u)
    BY <1>1, <2>2 DEF ClockInv, Aging, Dropped
  <2> QED
    BY <2>1, <2>2 DEF YoungTestHasDatabase, Old
<1> QED
  BY <1>1, ClockInvariant, PTL

-----------------------------------------------------------------------------
(* Every database has its row.  The row is written before the clone, and a  *)
(* sweep that has taken a name for abandoned might forget it after the      *)
(* clone: only that a setup is over before it looks abandoned excludes it.  *)

SetupsAreYoung == \A t, u \in Tasks : pc[t] \in Early => ~Old(t, u)
TestsAreYoung  == \A t, u \in Tasks : pc[t] \in Running => ~Old(t, u)

(* What a sweep is about to forget is not there.                            *)
Gone(t) ==
  \A u \in Tasks :
    pc[u] = "sweep_forget" /\ victim[u] = TestDb(t) => ~Exists(TestDb(t))

LEMMA LabelsApart ==
  /\ Early \cap (Ended \cup CloneLabels \cup {"start", "drop", "forget", "mark"}) = {}
  /\ Running \cap (Ended \cup {"start"}) = {}
  BY DEF Early, Running, SweepLabels, TemplateLabels, CloneLabels, Ended

LEMMA QuickSetupsYoung ==
  TypeOK /\ AllTimely /\ QuickSetup => SetupsAreYoung
<1> SUFFICES ASSUME TypeOK, AllTimely, QuickSetup,
                    NEW t \in Tasks, NEW u \in Tasks, pc[t] \in Early
             PROVE  ~Old(t, u)
  BY DEF SetupsAreYoung
<1>1. now <= born[t] + SetupLimit
  BY LabelsApart DEF AllTimely, Timely, InSetup, InTest
<1>2. /\ now \in Int /\ born[t] \in Int /\ StaleRunAfter[u] \in Int
      /\ Quarter(StaleRunAfter[t]) \in Int /\ SetupLimit \in Int
  BY QuarterIsNat, SettingsAssumption, HarnessAssumption
  DEF TypeOK, ServerTypeOK, Never
<1> QED
  BY <1>1, <1>2 DEF Old, QuickSetup

LEMMA QuickTestsYoung ==
  TypeOK /\ AllTimely /\ QuickTests => SetupsAreYoung /\ TestsAreYoung
<1> SUFFICES ASSUME TypeOK, AllTimely, QuickTests,
                    NEW t \in Tasks, NEW u \in Tasks, pc[t] \in Running
             PROVE  ~Old(t, u)
  BY DEF SetupsAreYoung, TestsAreYoung, Running
<1>1. now <= born[t] + TestLimit
  BY LabelsApart DEF AllTimely, Timely, InTest
<1>2. /\ now \in Int /\ born[t] \in Int /\ StaleRunAfter[u] \in Int
      /\ Quarter(StaleRunAfter[t]) \in Int /\ TestLimit \in Int
  BY QuarterIsNat, SettingsAssumption, HarnessAssumption
  DEF TypeOK, ServerTypeOK, Never
<1> QED
  BY <1>1, <1>2 DEF Old, QuickTests

BooksInv == /\ StoreInv /\ Accounts /\ AllTimely /\ ClockInv
            /\ SetupsAreYoung /\ \A t \in Tasks : Gone(t)

(* A task that is about to clone is on no list and has its row.             *)
LEMMA ClonerOnNoList ==
  ASSUME BooksInv, NEW t \in Tasks, pc[t] \in {"clone", "clone_again"}
  PROVE  t \in rows /\ \A u \in Tasks : TestDb(t) \notin InHand(u)
<1>1. pc[t] \in Early /\ pc[t] \in Running
  BY DEF Early, Running, TemplateLabels
<1> QED
  BY <1>1 DEF BooksInv, SetupsAreYoung, ClockInv, Aging, Unrecorded, Listed

LEMMA StepGone ==
  ASSUME BooksInv, NEW v \in Tasks, StepOf(v), NEW t \in Tasks
  PROVE  Gone(t)'
<1>0. TypeOK
  BY DEF BooksInv, StoreInv
<1>1. SUFFICES ASSUME NEW u \in Tasks, pc'[u] = "sweep_forget",
                      victim'[u] = TestDb(t)
               PROVE  ~Exists(TestDb(t))'
  BY DEF Gone
<1>2. CASE u # v
  <2>1. ~Exists(TestDb(t)) /\ TestDb(t) \in InHand(u)
    BY <1>0, <1>1, <1>2, OthersSteady DEF BooksInv, Gone, InHand
  <2>2. pc[t] \notin {"clone", "clone_again"}
    BY <2>1, ClonerOnNoList
  <2> QED
    BY <1>0, <2>1, <2>2, Appears
<1>3. CASE u = v
  <2>1. SweepDrop(v)
    <3>1. ~HarnessStep(v) /\ ~TemplateStep(v)
      BY <1>0, <1>1, <1>3
      DEF HarnessStep, Register, Unregister, ApplyFixtures, FixturesApplied,
          MakeArgs, Discard, EndTest, DropDatabase, Forget, Mark, TemplateStep,
          TouchExisting, TouchFirst, Clone, LockTemplate, TemplateExists,
          ListOrphans, DropOrphan, CreateBuilding, ConnectBuilding,
          ApplySchema, DiscardBuilding, Publish, Touch, UnlockTemplate,
          CloneAgain, ListNames, Skip, Rest, Refused, Step, Goto, TypeOK
    <3>2. ~Fails(v) /\ ~Crash(v)
      BY <1>0, <1>1, <1>3
      DEF Fails, HarnessFails, TemplateFails, SweepFails, Crash, Refused, Goto,
          TypeOK
    <3> QED
      BY <1>0, <1>1, <1>3, <3>1, <3>2
      DEF StepOf, Works, SweepStep, TrySweepLock, TryTemplateLock, TryLock,
          ListLeftovers, SweepForget, SweepRuns, SweepUnlock, ListSweepOrphans,
          DropSweepOrphan, ListIdle, Retire, RetireDrop, RetireForget,
          RetireUnlock, ListNames, Skip, Rest, Forgotten, Refused, Step, Goto,
          TypeOK
  <2> QED
    BY <1>0, <1>1, <1>3, <2>1, TaskNames
    DEF SweepDrop, Skip, Rest, Goto, DropIfIdle, Exists, TypeOK, ServerTypeOK
<1> QED
  BY <1>2, <1>3

(* While its database is there, a task's row stays, but for its own steps.  *)
LEMMA RowOfExisting ==
  ASSUME BooksInv, NEW v \in Tasks, StepOf(v), NEW t \in Tasks,
         t \in rows, Exists(TestDb(t)) \/ pc[t] \in {"clone", "clone_again"}
  PROVE  t \in rows'
<1>1. ~Exists(TestDb(t)) => TestDb(t) \notin InHand(v)
  BY ClonerOnNoList
<1>2. ~(pc[v] = "sweep_forget" /\ victim[v] = TestDb(t))
  BY <1>1 DEF BooksInv, Gone, InHand
<1>3. ~Forget(t) /\ ~Unregister(t)
  BY DEF Forget, Unregister, Step, BooksInv, StoreInv, NotYet, Accounts,
     Account, BeforeClone
<1> QED
  BY <1>2, <1>3, RowsGo DEF BooksInv, StoreInv

LEMMA StepTracks ==
  ASSUME BooksInv, Tracked, NEW v \in Tasks, StepOf(v)
  PROVE  Tracked'
<1>1. SUFFICES ASSUME NEW t \in Tasks, Exists(TestDb(t))' PROVE t \in rows'
  BY DEF Tracked
<1>2. Exists(TestDb(t)) \/ pc[t] \in {"clone", "clone_again"}
  BY <1>1, Appears DEF BooksInv, StoreInv
<1>3. t \in rows
  BY <1>2, ClonerOnNoList DEF Tracked
<1> QED
  BY <1>2, <1>3, RowOfExisting

(* The invariants behind the two theorems that follow, without the young.   *)
BaseInv == TypeOK /\ ContentInv /\ NotYet /\ Accounts /\ AllTimely /\ ClockInv

LEMMA BaseInvariant == Spec => []BaseInv
  BY StoreInvariant, AccountsInvariant, ClockInvariant, PTL DEF BaseInv, StoreInv

GoneInv == \A t \in Tasks : Gone(t)

LEMMA BaseIsBooks == BaseInv /\ SetupsAreYoung /\ GoneInv => BooksInv
  BY DEF BaseInv, BooksInv, StoreInv, GoneInv

LEMMA NextGone == BaseInv /\ SetupsAreYoung /\ GoneInv /\ [Next]_vars => GoneInv'
<1> SUFFICES ASSUME BaseInv, SetupsAreYoung, GoneInv, [Next]_vars PROVE GoneInv'
  OBVIOUS
<1>1. ASSUME UNCHANGED <<content, books, pc, loop, born, verdict>> PROVE GoneInv'
  BY <1>1 DEF GoneInv, Gone, Exists, loop
<1> QED
  BY <1>1, SurroundingsKeep, StepGone, BaseIsBooks
  DEF Next, TaskStep, StepOf, Terminating, GoneInv

LEMMA NextTracks ==
  BaseInv /\ SetupsAreYoung /\ GoneInv /\ Tracked /\ [Next]_vars => Tracked'
<1> SUFFICES ASSUME BaseInv, SetupsAreYoung, GoneInv, Tracked, [Next]_vars
             PROVE  Tracked'
  OBVIOUS
<1>1. ASSUME UNCHANGED <<content, books, pc, loop, born, verdict>> PROVE Tracked'
  BY <1>1 DEF Tracked, Exists, books
<1> QED
  BY <1>1, SurroundingsKeep, StepTracks, BaseIsBooks
  DEF Next, TaskStep, StepOf, Terminating

(* TestDb::create and the sweep: no test database is ever without the row   *)
(* by which a later sweep finds it, whoever dies and whatever fails, as     *)
(* long as no setup takes so long that its run looks abandoned.             *)
THEOREM AllTracked ==
  ASSUME QuickSetup
  PROVE  Spec => []Tracked
<1>1. BaseInv => SetupsAreYoung
  BY QuickSetupsYoung DEF BaseInv
<1>2. Init => GoneInv
  BY DEF Init, GoneInv, Gone
<1>3. Init => Tracked
  BY InitStore DEF Init, NotYet, Tracked, BeforeClone
<1> QED
  BY <1>1, <1>2, <1>3, NextGone, NextTracks, BaseInvariant, PTL DEF Spec

-----------------------------------------------------------------------------
(* A database that was kept.  Its row, with the time of the failure, stays  *)
(* as long as it does, and a sweep has it in hand only if it read that time *)
(* and found it old.                                                        *)

KeptRow(t) ==
  pc[t] = "kept" /\ Exists(TestDb(t)) => t \in rows /\ failedAt[t] # Never

KeptListed(t) ==
  pc[t] = "kept" /\ Exists(TestDb(t)) =>
    \A u \in Tasks : TestDb(t) \in InHand(u) =>
      OlderThan(failedAt[t], KeptFailedFor[u])

KeptInv == \A t \in Tasks : KeptRow(t) /\ KeptListed(t)

(* A test that failed still has its database and its row, and is on no list. *)
LEMMA MarkedIsThere ==
  ASSUME ClockInv, TestsAreYoung, NEW t \in Tasks, pc[t] = "mark"
  PROVE  /\ Exists(TestDb(t)) /\ t \in rows
         /\ \A u \in Tasks : TestDb(t) \notin InHand(u)
  BY DEF ClockInv, Aging, Dropped, Unrecorded, Listed, TestsAreYoung, Running

LEMMA StepKeeps ==
  ASSUME BooksInv, TestsAreYoung, KeptInv, NEW v \in Tasks, StepOf(v)
  PROVE  KeptInv'
<1>0. TypeOK /\ ClockInv /\ AllTimely
  BY DEF BooksInv, StoreInv
<1>1. SUFFICES ASSUME NEW t \in Tasks, pc'[t] = "kept", Exists(TestDb(t))'
               PROVE  /\ t \in rows' /\ failedAt'[t] # Never
                      /\ \A u \in Tasks : TestDb(t) \in InHand(u)' =>
                           OlderThan(failedAt[t], KeptFailedFor[u])'
  BY DEF KeptInv, KeptRow, KeptListed
<1>2. now' = now /\ Onward(v)
  BY <1>0, WorkOnward, FailureOnward, WorkTakesNoTime DEF StepOf
<1>3. CASE v = t
  <2>1. pc[t] = "mark"
    BY <1>1, <1>2, <1>3 DEF Onward
  <2>2. Mark(t)
    BY <1>0, <1>1, <1>3, <2>1
    DEF StepOf, Works, HarnessStep, TemplateStep, SweepStep, Step,
        Register, Unregister, ApplyFixtures, FixturesApplied, MakeArgs,
        EndTest, DropDatabase, Forget, TouchExisting, TouchFirst, Clone,
        CloneAgain, LockTemplate, TemplateExists, ListOrphans, DropOrphan,
        CreateBuilding, ConnectBuilding, ApplySchema, DiscardBuilding, Publish,
        Touch, UnlockTemplate, TrySweepLock, TryTemplateLock, TryLock,
        ListLeftovers, ListNames, Forgotten, SweepDrop, SweepForget, SweepRuns,
        SweepUnlock, ListSweepOrphans, DropSweepOrphan, ListIdle, Retire,
        RetireDrop, RetireForget, RetireUnlock, Discard, Fails, HarnessFails,
        TemplateFails, SweepFails, SweepHeld, RetireHeld, Crash, Refused, Goto,
        TypeOK
  <2>3. t \in rows' /\ failedAt'[t] # Never
    BY <1>0, <2>1, <2>2, MarkedIsThere
    DEF Mark, MarkFailed, Never, TypeOK, ServerTypeOK
  <2>4. \A u \in Tasks : TestDb(t) \notin InHand(u)'
    BY <1>0, <1>3, <2>1, MarkedIsThere, HandsHold DEF ListLeftovers, ListNames
  <2> QED
    BY <2>3, <2>4
<1>4. CASE v # t
  <2>1. pc[t] = "kept"
    BY <1>0, <1>1, <1>4, OthersSteady
  <2>2. Exists(TestDb(t))
    BY <1>0, <1>1, <1>4, Appears
  <2>3. t \in rows /\ failedAt[t] # Never
    BY <2>1, <2>2 DEF KeptInv, KeptRow
  <2>4. t \in rows'
    BY <2>2, <2>3, RowOfExisting
  <2>5. failedAt'[t] = failedAt[t]
    BY <1>0, <1>4, <2>3, <2>4, BookSteps
    DEF Register, RegisterTest, Unregister, Forget, Mark, MarkFailed,
        SweepForget, SweepRuns, ForgetDatabase, ForgetStaleRuns, TypeOK,
        ServerTypeOK
  <2>6. ASSUME NEW u \in Tasks, TestDb(t) \in InHand(u)'
        PROVE  OlderThan(failedAt[t], KeptFailedFor[u])
    <3>1. CASE TestDb(t) \in InHand(u)
      BY <2>1, <2>2, <3>1 DEF KeptInv, KeptListed
    <3>2. CASE TestDb(t) \in LeftoverDatabases(u)
      <4>1. IsLeftover(u, t)
        BY <1>0, <3>2, NamesDiffer DEF LeftoverDatabases, TypeOK, ServerTypeOK
      <4> QED
        BY <2>3, <4>1 DEF IsLeftover
    <3> QED
      BY <1>0, <2>6, <3>1, <3>2, HandsHold
  <2> QED
    BY <1>2, <2>3, <2>4, <2>5, <2>6 DEF OlderThan
<1> QED
  BY <1>3, <1>4

LEMMA SurroundingsKeepKept ==
  ASSUME TypeOK, KeptInv, UNCHANGED <<content, books, pc, loop, born, verdict>>,
         Tick \/ now' = now
  PROVE  KeptInv'
<1>1. now \in Nat /\ now' \in Nat /\ now <= now'
  BY DEF Tick, TypeOK, ServerTypeOK
<1>2. ASSUME NEW t \in Tasks, NEW u \in Tasks,
             OlderThan(failedAt[t], KeptFailedFor[u])
      PROVE  OlderThan(failedAt[t], KeptFailedFor[u])'
  <2>1. failedAt[t] \in Int /\ KeptFailedFor[u] \in Int
    BY SettingsAssumption DEF TypeOK, ServerTypeOK, Never
  <2> QED
    BY <1>1, <1>2, <2>1 DEF OlderThan, books
<1> QED
  BY <1>2 DEF KeptInv, KeptRow, KeptListed, InHand, Exists, books, loop

LEMMA NextKeeps ==
  /\ BaseInv /\ SetupsAreYoung /\ TestsAreYoung /\ GoneInv /\ KeptInv
  /\ [Next]_vars
  => KeptInv'
<1> SUFFICES ASSUME BaseInv, SetupsAreYoung, TestsAreYoung, GoneInv, KeptInv,
                    [Next]_vars
             PROVE  KeptInv'
  OBVIOUS
<1>0. TypeOK
  BY DEF BaseInv
<1>1. ASSUME NEW t \in Tasks, UseDatabase(t) \/ LoseMaster(t) \/ Reap(t)
      PROVE  KeptInv'
  BY <1>0, <1>1, SurroundingsKeep, SurroundingsKeepKept
<1>2. CASE Inspect \/ StopInspecting \/ Tick \/ UNCHANGED vars
  BY <1>0, <1>2, SurroundingsKeep, SurroundingsKeepKept
<1> QED
  BY <1>1, <1>2, StepKeeps, BaseIsBooks DEF Next, TaskStep, StepOf, Terminating

(* keep_failed: a database reported as kept is there with its row, and no   *)
(* sweep takes it before its failure is older than that sweep's             *)
(* kept_failed_for, as long as no test runs so long that its run looks      *)
(* abandoned.                                                               *)
THEOREM KeptStay ==
  ASSUME QuickTests
  PROVE  Spec => KeptUntilOld
<1>1. BaseInv => SetupsAreYoung /\ TestsAreYoung
  BY QuickTestsYoung DEF BaseInv
<1>2. Init => GoneInv /\ KeptInv
  BY DEF Init, GoneInv, Gone, KeptInv, KeptRow, KeptListed
<1>3. ASSUME BaseInv, TestsAreYoung, KeptInv, [Next]_vars, NEW t \in Tasks
      PROVE  /\ pc[t] = "mark" /\ pc'[t] = "kept" => Exists(TestDb(t)) /\ t \in rows
             /\ pc[t] = "kept" /\ Exists(TestDb(t)) /\ ~Exists(TestDb(t))' =>
                  /\ failedAt[t] # Never
                  /\ \E u \in Tasks : OlderThan(failedAt[t], KeptFailedFor[u])
  <2>1. pc[t] = "mark" => Exists(TestDb(t)) /\ t \in rows
    BY <1>3, MarkedIsThere DEF BaseInv
  <2>2. ASSUME pc[t] = "kept", Exists(TestDb(t)), ~Exists(TestDb(t))'
        PROVE  /\ failedAt[t] # Never
               /\ \E u \in Tasks : OlderThan(failedAt[t], KeptFailedFor[u])
    <3>1. PICK v \in Tasks : StepOf(v)
      BY <1>3, <2>2, SurroundingsKeep
      DEF Next, TaskStep, StepOf, Terminating, Exists
    <3>2. TestDb(t) \in InHand(v)
      BY <1>3, <2>2, <3>1, Vanishes DEF BaseInv
    <3> QED
      BY <1>3, <2>2, <3>2 DEF KeptInv, KeptRow, KeptListed
  <2> QED
    BY <2>1, <2>2
<1>4. BaseInv /\ TestsAreYoung /\ KeptInv /\ [Next]_vars =>
        [\A t \in Tasks :
           /\ pc[t] = "mark" /\ pc'[t] = "kept" => Exists(TestDb(t)) /\ t \in rows
           /\ pc[t] = "kept" /\ Exists(TestDb(t)) /\ ~Exists(TestDb(t))' =>
                /\ failedAt[t] # Never
                /\ \E u \in Tasks : OlderThan(failedAt[t], KeptFailedFor[u])]_vars
  BY <1>3
<1> QED
  BY <1>1, <1>2, <1>4, NextGone, NextKeeps, BaseInvariant, PTL
  DEF Spec, KeptUntilOld
=============================================================================
