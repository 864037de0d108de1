----------------------------- MODULE LockProofs -----------------------------
(***************************************************************************)
(* The advisory locks of Harness.tla do what the code takes them for: no   *)
(* two tasks build, or retire, under one prefix of one home at a time, and *)
(* no two sweep one home.                                                  *)
(***************************************************************************)
EXTENDS HarnessProofs

(* A task here has no lock to give back any more but those that end with    *)
(* its session.                                                             *)
Leaving == {"unregister", "panicked", "crashed"}

(* Only the three lock statements touch the lock table.                     *)
LEMMA OtherStatementsKeepLocks ==
  ASSUME NEW t, NEW n, NEW m,
         \/ CreateDatabase(n) \/ CloneDatabase(n, m) \/ DropForce(n)
         \/ DropIfIdle(n) \/ PublishTemplate(n, m) \/ RetireTemplate(n)
         \/ Connect(n) \/ Disconnect(n)
         \/ RegisterTest(t) \/ MarkFailed(t) \/ ForgetDatabase(t)
         \/ TouchTemplate(t) \/ ForgetTemplate(t, n) \/ ForgetStaleRuns(t)
         \/ UNCHANGED server
  PROVE  locks' = locks
  BY DEF CreateDatabase, CloneDatabase, DropForce, DropIfIdle,
     PublishTemplate, RetireTemplate, Connect, Disconnect, RegisterTest,
     MarkFailed, ForgetDatabase, TouchTemplate, ForgetTemplate,
     ForgetStaleRuns, server

(* A step that moves a task within its region, or lets it leave with what   *)
(* it holds, keeps the correspondence.                                      *)
Within(from, to) ==
  \/ to \in Leaving
  \/ /\ from \notin Leaving
     /\ from \in BuildLabels \cup RetireHeld <=> to \in BuildLabels \cup RetireHeld
     /\ from \in SweepHeld <=> to \in SweepHeld

LEMMA WithinRegion ==
  ASSUME TypeOK, LocksMatchRegions, NEW t \in Tasks, NEW to,
         Goto(t, to), Within(pc[t], to), locks' = locks, lost' = lost
  PROVE  LocksMatchRegions'
  BY DEF LocksMatchRegions, HoldsTemplate, HoldsSweep, Within, Leaving, Goto,
     TypeOK, BuildLabels, RetireHeld, SweepHeld

(* Taking a region's lock on the way into it.                               *)
LEMMA TakesTemplateLock ==
  ASSUME TypeOK, LocksMatchRegions, NEW t \in Tasks,
         NEW to \in BuildLabels \cup RetireHeld,
         pc[t] \notin BuildLabels \cup RetireHeld \cup SweepHeld \cup Leaving,
         Goto(t, to), Lock(t, TemplateKey(t)), lost' = lost, t \notin lost
  PROVE  LocksMatchRegions'
<1>1. to \notin SweepHeld
  BY DEF SweepHeld, BuildLabels, RetireHeld
<1>2. \A u \in Tasks : locks[TemplateKey(t)] # u
  BY SettingsAssumption DEF Lock
<1> QED
  BY <1>1, <1>2, KeysDiffer, TaskNames
  DEF LocksMatchRegions, HoldsTemplate, HoldsSweep, Leaving, Goto, Lock,
      TypeOK, ServerTypeOK

LEMMA TakesSweepLock ==
  ASSUME TypeOK, LocksMatchRegions, NEW t \in Tasks,
         NEW to \in SweepHeld,
         pc[t] \notin BuildLabels \cup RetireHeld \cup SweepHeld \cup Leaving,
         Goto(t, to), Lock(t, SweepKey(t)), lost' = lost, t \notin lost
  PROVE  LocksMatchRegions'
<1>1. to \notin BuildLabels \cup RetireHeld
  BY DEF SweepHeld, BuildLabels, RetireHeld
<1>2. \A u \in Tasks : locks[SweepKey(t)] # u
  BY SettingsAssumption DEF Lock
<1> QED
  BY <1>1, <1>2, KeysDiffer, TaskNames
  DEF LocksMatchRegions, HoldsTemplate, HoldsSweep, Leaving, Goto, Lock,
      TypeOK, ServerTypeOK

(* Giving it back on the way out.                                           *)
LEMMA GivesTemplateLock ==
  ASSUME TypeOK, LocksMatchRegions, NEW t \in Tasks, NEW to,
         pc[t] \in BuildLabels \cup RetireHeld,
         to \notin BuildLabels \cup RetireHeld \cup SweepHeld,
         Goto(t, to), Unlock(t, TemplateKey(t)), lost' = lost, t \notin lost
  PROVE  LocksMatchRegions'
<1>1. pc[t] \notin SweepHeld \cup Leaving
  BY DEF SweepHeld, BuildLabels, RetireHeld, Leaving
<1>2. \A k \in LockKeys : locks'[k] # t
  BY <1>1, TaskNames, SettingsAssumption
  DEF LocksMatchRegions, HoldsTemplate, HoldsSweep, Leaving, Unlock, TypeOK,
      ServerTypeOK
<1>3. \A u \in Tasks : pc'[u] = IF u = t THEN to ELSE pc[u]
  BY DEF Goto, TypeOK
<1>4. \A u \in Tasks \ {t}, k \in LockKeys : locks'[k] = u <=> locks[k] = u
  BY SettingsAssumption DEF Unlock, TypeOK, ServerTypeOK
<1> QED
  BY <1>2, <1>3, <1>4, TaskNames
  DEF LocksMatchRegions, HoldsTemplate, HoldsSweep

LEMMA GivesSweepLock ==
  ASSUME TypeOK, LocksMatchRegions, NEW t \in Tasks, NEW to,
         pc[t] \in SweepHeld,
         to \notin BuildLabels \cup RetireHeld \cup SweepHeld,
         Goto(t, to), Unlock(t, SweepKey(t)), lost' = lost, t \notin lost
  PROVE  LocksMatchRegions'
<1>1. pc[t] \notin BuildLabels \cup RetireHeld \cup Leaving
  BY DEF SweepHeld, BuildLabels, RetireHeld, Leaving
<1>2. \A k \in LockKeys : locks'[k] # t
  BY <1>1, TaskNames, SettingsAssumption
  DEF LocksMatchRegions, HoldsTemplate, HoldsSweep, Leaving, Unlock, TypeOK,
      ServerTypeOK
<1>3. \A u \in Tasks : pc'[u] = IF u = t THEN to ELSE pc[u]
  BY DEF Goto, TypeOK
<1>4. \A u \in Tasks \ {t}, k \in LockKeys : locks'[k] = u <=> locks[k] = u
  BY SettingsAssumption DEF Unlock, TypeOK, ServerTypeOK
<1> QED
  BY <1>2, <1>3, <1>4, TaskNames
  DEF LocksMatchRegions, HoldsTemplate, HoldsSweep

(* A session that ends takes its locks with it; its task has left.          *)
LEMMA EndsSession ==
  ASSUME TypeOK, LocksMatchRegions, NEW t \in Tasks, pc[t] \in Ended,
         EndMaster(t), pc' = pc, lost' = lost
  PROVE  LocksMatchRegions'
<1>1. pc[t] \notin BuildLabels \cup RetireHeld \cup SweepHeld
  BY DEF Ended, BuildLabels, RetireHeld, SweepHeld
<1>2. \A u \in Tasks, k \in LockKeys :
        locks'[k] = u <=> u # t /\ locks[k] = u
  BY SettingsAssumption DEF EndMaster, TypeOK, ServerTypeOK
<1> QED
  BY <1>1, <1>2, TaskNames DEF LocksMatchRegions, HoldsTemplate, HoldsSweep

(* It also leaves when its session does.                                    *)
LEMMA LosesSession ==
  ASSUME TypeOK, LocksMatchRegions, NEW t \in Tasks,
         EndMaster(t), pc' = pc, lost' = lost \cup {t}
  PROVE  LocksMatchRegions'
<1>1. \A u \in Tasks, k \in LockKeys :
        locks'[k] = u <=> u # t /\ locks[k] = u
  BY SettingsAssumption DEF EndMaster, TypeOK, ServerTypeOK
<1> QED
  BY <1>1, TaskNames DEF LocksMatchRegions, HoldsTemplate, HoldsSweep

-----------------------------------------------------------------------------
(* One step per action.                                                     *)

LEMMA TemplateStepKeepsLocks ==
  ASSUME TypeOK, LocksMatchRegions, NEW t \in Tasks, TemplateStep(t),
         t \in lost => pc[t] \in Elsewhere
  PROVE  LocksMatchRegions'
<1> USE DEF BuildLabels, RetireHeld, SweepHeld, Leaving, Elsewhere
<1>0. lost' = lost
  BY WorkKeepsSessions DEF Works
<1>1. CASE LockTemplate(t)
  BY <1>0, <1>1, TakesTemplateLock DEF LockTemplate, Step
<1>2. CASE UnlockTemplate(t)
  BY <1>0, <1>2, GivesTemplateLock DEF UnlockTemplate, Step
<1>3. CASE TouchExisting(t) \/ TemplateExists(t)
  BY <1>0, <1>3, WithinRegion, OtherStatementsKeepLocks
  DEF TouchExisting, TemplateExists, Step, Within
<1>4. CASE TouchFirst(t) \/ Touch(t)
  BY <1>0, <1>4, WithinRegion, OtherStatementsKeepLocks
  DEF TouchFirst, Touch, Step, Within
<1>5. CASE Clone(t) \/ CloneAgain(t)
  BY <1>0, <1>5, WithinRegion, OtherStatementsKeepLocks
  DEF Clone, CloneAgain, Step, Refused, Within
<1>6. CASE ListOrphans(t) \/ DropOrphan(t)
  BY <1>0, <1>6, WithinRegion, OtherStatementsKeepLocks
  DEF ListOrphans, ListNames, DropOrphan, Skip, Rest, Within
<1>7. CASE CreateBuilding(t) \/ ConnectBuilding(t)
  BY <1>0, <1>7, WithinRegion, OtherStatementsKeepLocks
  DEF CreateBuilding, ConnectBuilding, Step, Refused, Within
<1>8. CASE ApplySchema(t)
  BY <1>0, <1>8, WithinRegion, OtherStatementsKeepLocks
  DEF ApplySchema, Step, Within
<1>9. CASE DiscardBuilding(t) \/ Publish(t)
  BY <1>0, <1>9, WithinRegion, OtherStatementsKeepLocks
  DEF DiscardBuilding, Publish, Step, Refused, Within
<1> QED
  BY <1>1, <1>2, <1>3, <1>4, <1>5, <1>6, <1>7, <1>8, <1>9 DEF TemplateStep

LEMMA SweepStepKeepsLocks ==
  ASSUME TypeOK, LocksMatchRegions, NEW t \in Tasks, SweepStep(t),
         t \in lost => pc[t] \in Elsewhere
  PROVE  LocksMatchRegions'
<1> USE DEF BuildLabels, RetireHeld, SweepHeld, Leaving, Elsewhere
<1>0. lost' = lost
  BY WorkKeepsSessions DEF Works
<1>1. CASE TrySweepLock(t)
  BY <1>0, <1>1, TakesSweepLock, WithinRegion, OtherStatementsKeepLocks
  DEF TrySweepLock, TryLock, Step, Within
<1>2. CASE TryTemplateLock(t)
  BY <1>0, <1>2, TakesTemplateLock, WithinRegion, OtherStatementsKeepLocks
  DEF TryTemplateLock, TryLock, Step, Within
<1>3. CASE SweepUnlock(t)
  BY <1>0, <1>3, GivesSweepLock DEF SweepUnlock, Step
<1>4. CASE RetireUnlock(t)
  BY <1>0, <1>4, GivesTemplateLock DEF RetireUnlock, Step
<1>5. CASE ListLeftovers(t) \/ ListSweepOrphans(t) \/ ListIdle(t)
  BY <1>0, <1>5, WithinRegion, OtherStatementsKeepLocks
  DEF ListLeftovers, ListSweepOrphans, ListIdle, ListNames, Within
<1>6. CASE SweepDrop(t) \/ DropSweepOrphan(t)
  BY <1>0, <1>6, WithinRegion, OtherStatementsKeepLocks
  DEF SweepDrop, DropSweepOrphan, Skip, Rest, Within
<1>7. CASE SweepForget(t) \/ RetireForget(t)
  BY <1>0, <1>7, WithinRegion, OtherStatementsKeepLocks
  DEF SweepForget, RetireForget, Forgotten, Within
<1>8. CASE SweepRuns(t)
  BY <1>0, <1>8, WithinRegion, OtherStatementsKeepLocks DEF SweepRuns, Step, Within
<1>9. CASE Retire(t)
  BY <1>0, <1>9, WithinRegion, OtherStatementsKeepLocks DEF Retire, Refused, Within
<1>10. CASE RetireDrop(t)
  BY <1>0, <1>10, WithinRegion, OtherStatementsKeepLocks
  DEF RetireDrop, Step, Forgotten, Refused, Within
<1> QED
  BY <1>1, <1>2, <1>3, <1>4, <1>5, <1>6, <1>7, <1>8, <1>9, <1>10 DEF SweepStep

LEMMA HarnessStepKeepsLocks ==
  ASSUME TypeOK, LocksMatchRegions, NEW t \in Tasks, HarnessStep(t),
         t \in lost => pc[t] \in Elsewhere
  PROVE  LocksMatchRegions'
<1> USE DEF BuildLabels, RetireHeld, SweepHeld, Leaving, Elsewhere
<1>0. lost' = lost
  BY WorkKeepsSessions DEF Works
<1>1. CASE Register(t) \/ Unregister(t)
  BY <1>0, <1>1, WithinRegion, OtherStatementsKeepLocks
  DEF Register, Unregister, Step, Within
<1>2. CASE ApplyFixtures(t) \/ FixturesApplied(t) \/ MakeArgs(t)
  BY <1>0, <1>2, WithinRegion, OtherStatementsKeepLocks
  DEF ApplyFixtures, FixturesApplied, MakeArgs, Discard, Step, Within
<1>3. CASE EndTest(t)
  BY <1>0, <1>3, WithinRegion, OtherStatementsKeepLocks DEF EndTest, Within
<1>4. CASE DropDatabase(t) \/ Forget(t) \/ Mark(t)
  BY <1>0, <1>4, WithinRegion, OtherStatementsKeepLocks
  DEF DropDatabase, Forget, Mark, Step, Within
<1> QED
  BY <1>1, <1>2, <1>3, <1>4 DEF HarnessStep

LEMMA EnvironmentKeepsLocks ==
  ASSUME TypeOK, LocksMatchRegions,
         \/ \E t \in Tasks :
              UseDatabase(t) \/ Fails(t) \/ Crash(t) \/ LoseMaster(t) \/ Reap(t)
         \/ Inspect \/ StopInspecting \/ Tick \/ UNCHANGED vars
  PROVE  LocksMatchRegions'
<1>1. ASSUME pc' = pc, locks' = locks, lost' = lost PROVE LocksMatchRegions'
  BY <1>1 DEF LocksMatchRegions, HoldsTemplate, HoldsSweep
<1>2. ASSUME NEW t \in Tasks, UseDatabase(t) \/ ReapClient(t)
      PROVE  LocksMatchRegions'
  BY <1>1, <1>2, OtherStatementsKeepLocks DEF UseDatabase, ReapClient, locals
<1>3. ASSUME NEW t \in Tasks, NEW to, Refused(t, to), Within(pc[t], to)
      PROVE  LocksMatchRegions'
  BY <1>3, WithinRegion, OtherStatementsKeepLocks DEF Refused, history
<1>4. ASSUME NEW t \in Tasks, Fails(t) PROVE LocksMatchRegions'
  BY <1>3, <1>4
  DEF Fails, HarnessFails, TemplateFails, SweepFails, Within, Leaving,
      BuildLabels, RetireHeld, SweepHeld
<1>5. ASSUME NEW t \in Tasks, Crash(t) PROVE LocksMatchRegions'
  BY <1>3, <1>5 DEF Crash, Refused, Within, Leaving
<1>6. ASSUME NEW t \in Tasks, ReapMaster(t) PROVE LocksMatchRegions'
  BY <1>6, EndsSession DEF ReapMaster, locals
<1>7. CASE Inspect \/ StopInspecting
  BY <1>1, <1>7, OtherStatementsKeepLocks DEF Inspect, StopInspecting, locals
<1>8. CASE Tick \/ UNCHANGED vars
  BY <1>1, <1>8 DEF Tick, vars, locals
<1>9. ASSUME NEW t \in Tasks, LoseMaster(t) PROVE LocksMatchRegions'
  BY <1>9, LosesSession DEF LoseMaster
<1> QED
  BY <1>2, <1>4, <1>5, <1>6, <1>7, <1>8, <1>9 DEF Reap

(* Locks match regions, for any number of tasks that build, sweep, fail and *)
(* die at once: LockTemplate to UnlockTemplate in template.rs, the two      *)
(* try_locks to their unlocks in sweep.rs.                                  *)
THEOREM LocksCorrect == Spec => []LocksMatchRegions
<1>1. Init => LocksMatchRegions
  BY SettingsAssumption
  DEF Init, LocksMatchRegions, HoldsTemplate, HoldsSweep, BuildLabels,
      RetireHeld, SweepHeld
<1>2. TypeOK /\ LocksMatchRegions /\ [Next]_vars => LocksMatchRegions'
  BY TemplateStepKeepsLocks, SweepStepKeepsLocks, HarnessStepKeepsLocks,
     EnvironmentKeepsLocks DEF Next, TaskStep, Works, Terminating
<1> QED
  BY <1>1, <1>2, TypeCorrect, PTL DEF Spec

(* Hence mutual exclusion: at most one task at a time is between lock and   *)
(* unlock of a template key, and at most one of a sweep key.                *)
MutualExclusion ==
  \A t, u \in Tasks :
    /\ HoldsTemplate(t) /\ HoldsTemplate(u) /\ TemplateKey(t) = TemplateKey(u) => t = u
    /\ HoldsSweep(t) /\ HoldsSweep(u) /\ SweepKey(t) = SweepKey(u) => t = u

THEOREM RegionsExclusive == Spec => []MutualExclusion
<1>1. LocksMatchRegions => MutualExclusion
  BY DEF LocksMatchRegions, MutualExclusion
<1> QED
  BY <1>1, LocksCorrect, PTL
=============================================================================
