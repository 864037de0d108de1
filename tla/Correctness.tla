---------------------------- MODULE Correctness ----------------------------
(***************************************************************************)
(* What the tests, comments and messages of sqlx-testdb promise of the     *)
(* harness, stated over Harness.tla.                                       *)
(***************************************************************************)
EXTENDS Harness

(* One home per prefix: tasks that draw names from the same prefix keep     *)
(* their books, and their locks, in the same place.                         *)
OneHomePerPrefix ==
  \A t, u \in Tasks : PrefixOf[t] = PrefixOf[u] => HomeOf[t] = HomeOf[u]

(* The ages leave room for a test: however little a run or a template is    *)
(* refreshed, a test that registers now is over, or has its database,       *)
(* before another's sweep in its home can take its run, or the template it  *)
(* builds, for abandoned.  The default ages, 15 minutes of 60 and 6 hours   *)
(* of 24, leave tests 45 minutes and builds 18 hours.                       *)
Quarter(age) == age \div 4

QuickSetup ==
  \A t, u \in Tasks : HomeOf[t] = HomeOf[u] =>
    Quarter(StaleRunAfter[t]) + SetupLimit <= StaleRunAfter[u]

QuickTests ==
  \A t, u \in Tasks : HomeOf[t] = HomeOf[u] =>
    Quarter(StaleRunAfter[t]) + TestLimit <= StaleRunAfter[u]

QuickBuilds ==
  \A t, u \in Tasks : HomeOf[t] = HomeOf[u] =>
    Quarter(IdleTemplateAfter[t]) + SetupLimit <= IdleTemplateAfter[u]

HoldsTemplate(t) == t \notin lost /\ pc[t] \in BuildLabels \cup RetireHeld
HoldsSweep(t)    == t \notin lost /\ pc[t] \in SweepHeld

-----------------------------------------------------------------------------
(* A task inside a critical region holds the region's lock, so that no two  *)
(* tasks build or retire under one prefix, or sweep one home, at once; and  *)
(* a task holds a lock only there, or on the way out after an error: no     *)
(* path leads with a lock into a test that runs.  A task that has lost its  *)
(* session is in no region, wherever it believes to be.                     *)
LocksMatchRegions ==
  \A t \in Tasks :
    /\ HoldsTemplate(t) => locks[TemplateKey(t)] = t
    /\ HoldsSweep(t) => locks[SweepKey(t)] = t
    /\ \A k \in LockKeys :
         locks[k] = t =>
           /\ t \notin lost
           /\ \/ k = TemplateKey(t) /\ HoldsTemplate(t)
              \/ k = SweepKey(t) /\ HoldsSweep(t)
              \/ pc[t] \in {"unregister", "panicked", "crashed"}

(* Every template, and every database cloned from one, has its schema       *)
(* applied to the end, whoever built it and whatever died on the way.       *)
DatabasesComplete ==
  \A t \in Tasks :
    /\ content[Template(t)] \in {Absent, SchemaOf[t]}
    /\ content[TestDb(t)] \in {Absent, SchemaOf[t]}

(* A builder that found no template is the only one to make it, and nobody  *)
(* takes its building away while its session, and so its lock, lasts: when  *)
(* it publishes, the building is complete and idle and the name is free.    *)
PublishFindsRoom ==
  \A t \in Tasks \ lost :
    pc[t] = "publish" => /\ CanPublish(Building(t), Template(t))
                         /\ content[Building(t)] = SchemaOf[t]

(* drop_orphaned_builds forces what it lists: none of it may belong to a    *)
(* builder still at work, unless its session, and so its lock, is gone.     *)
OrphansHaveNoBuilder ==
  \A t, u \in Tasks \ lost :
    pc[u] \in {"orphans_drop", "sweep_orphans_drop"} /\ Building(t) \in todo[u]
      => pc[t] \notin BuildLabels \/ t = u

(* A live task's database is never dropped under its connections by         *)
(* another task ("a database in use is never forced"); a building is safe   *)
(* as long as its builder's master session.                                 *)
InUseNeverForced ==
  [][\A t \in Tasks : \A n \in {Building(t), TestDb(t)} :
       /\ pc[t] \notin Ended
       /\ n = TestDb(t) \/ t \notin lost
       /\ n \in connected /\ Exists(n) /\ ~Exists(n)'
       => pc'[t] # pc[t]]_vars

(* No test database exists without the row by which a later sweep finds it. *)
Tracked == \A t \in Tasks : Exists(TestDb(t)) => t \in rows

(* The template a task has just built or found under the lock is there for  *)
(* its second clone.                                                        *)
SecondCloneFindsTemplate ==
  \A t \in Tasks : pc[t] = "clone_again" => Exists(Template(t))

(* A test that has not run for longer than the sweep's patience still has   *)
(* its database: a run's row is at most a quarter of stale_run_after old    *)
(* when a test registers.                                                   *)
YoungTestHasDatabase ==
  \A t \in Tasks :
    /\ pc[t] \in CloneLabels
    /\ \A u \in Tasks : HomeOf[u] = HomeOf[t] =>
         4 * (now - born[t]) + StaleRunAfter[t] <= 4 * StaleRunAfter[u]
    => Exists(TestDb(t))

(* What idle_templates lists is unused: no test that still runs was cloned  *)
(* from it, or registered, less than idle_template_after ago.               *)
IdleAreUnused ==
  [][\A t, u \in Tasks :
       /\ pc[t] = "sweep_idle" /\ Template(u) \in todo'[t]
       /\ HomeOf[u] = HomeOf[t] /\ pc[u] \in CloneLabels
       => OlderThan(born[u], IdleTemplateAfter[t])]_vars

(* A database reported as kept is there, and goes only when its failure is  *)
(* older than some sweep's kept_failed_for.                                 *)
KeptUntilOld ==
  [][\A t \in Tasks :
       /\ pc[t] = "mark" /\ pc'[t] = "kept" => Exists(TestDb(t)) /\ t \in rows
       /\ pc[t] = "kept" /\ Exists(TestDb(t)) /\ ~Exists(TestDb(t))' =>
            /\ failedAt[t] # Never
            /\ \E u \in Tasks : OlderThan(failedAt[t], KeptFailedFor[u])]_vars

(* A database outlives its test only when the test itself failed and        *)
(* keep_failed is on, when the process was killed, or when the statement    *)
(* that drops it failed: every other error, of the fixtures, the argument   *)
(* or the session, takes it away.  A test that passed leaves no row either. *)
OnlyFailuresOutlive ==
  \A t \in Tasks :
    /\ pc[t] \in Ended /\ Exists(TestDb(t)) =>
         \/ verdict[t] = "failed" /\ KeepFailed[t]
         \/ pc[t] \in {"crashed", "undropped"}
    /\ pc[t] = "done" => ~Exists(TestDb(t)) /\ t \notin rows

(* A task's database is still to come, is there, or is gone for good; a     *)
(* template counts once it is complete.                                     *)
BeforeClone ==
  {"start", "unregister"} \cup SweepLabels \cup TemplateLabels

CompleteTemplates == {n \in Templates : content[n] = n[3]}

DatabaseOf(t) == CASE Exists(TestDb(t))       -> "there"
                   [] ~Exists(TestDb(t)) /\ pc[t] \in BeforeClone -> "none"
                   [] OTHER -> "gone"

S == INSTANCE Store WITH
       Tests <- Tasks, TemplateNames <- Templates, TemplateFor <- Template,
       store <- CompleteTemplates, db <- [t \in Tasks |-> DatabaseOf(t)]

(* The harness implements the store: under every interleaving, death, loss  *)
(* and failure a step of it adds or takes one complete template, copies     *)
(* one for one test that has no database yet, ends one test's database, or  *)
(* changes nothing of this (clone_into, publish_template, drop_database).   *)
ImplementsStore == S!Spec

(* Every test comes to an end, whoever dies holding a lock.                 *)
EveryTestEnds == \A t \in Tasks : <>(pc[t] \in Ended)
=============================================================================
