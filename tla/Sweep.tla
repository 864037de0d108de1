------------------------------- MODULE Sweep -------------------------------
(***************************************************************************)
(* sweep.rs: the first test of a run removes what earlier runs left.  Both *)
(* halves take their lock with try_lock and give up when another task is   *)
(* at it; both work from a list read once, and drop without FORCE.         *)
(*                                                                         *)
(*   sweep -> sweep_list -> (sweep_drop -> sweep_forget)* -> sweep_runs -> *)
(*   sweep_unlock -> retire_lock -> sweep_orphans -> sweep_orphans_drop*   *)
(*   -> sweep_idle -> (retire -> retire_drop -> retire_forget)* ->         *)
(*   retire_unlock -> touch_existing (harness.rs)                          *)
(***************************************************************************)
EXTENDS Template

SweepLabels ==
  {"sweep", "sweep_list", "sweep_drop", "sweep_forget", "sweep_runs",
   "sweep_unlock", "sweep_unlock_err", "retire_lock", "sweep_orphans",
   "sweep_orphans_drop", "sweep_idle", "retire", "retire_drop",
   "retire_forget", "retire_unlock", "retire_unlock_err"}

SweepHeld ==
  {"sweep_list", "sweep_drop", "sweep_forget", "sweep_runs", "sweep_unlock",
   "sweep_unlock_err"}

RetireHeld ==
  {"sweep_orphans", "sweep_orphans_drop", "sweep_idle", "retire",
   "retire_drop", "retire_forget", "retire_unlock", "retire_unlock_err"}

(* try_lock: when the key is taken the whole sweep, or its second half, is  *)
(* over, and nothing says so.                                               *)
TryLock(t, from, key, held) ==
  \/ Step(t, from, held) /\ Lock(t, key)
  \/ locks[key] # None /\ Step(t, from, "touch_existing") /\ UNCHANGED server

TrySweepLock(t)    == TryLock(t, "sweep", SweepKey(t), "sweep_list")
TryTemplateLock(t) == TryLock(t, "retire_lock", TemplateKey(t), "sweep_orphans")

-----------------------------------------------------------------------------
(* sweep_databases.  Between the list and a drop the run may have been      *)
(* refreshed or the test marked failed: the drop looks at neither.          *)

ListLeftovers(t) ==
  ListNames(t, "sweep_list", LeftoverDatabases(t), "sweep_drop", "sweep_runs")

SweepDrop(t) ==
  /\ pc[t] = "sweep_drop"
  /\ \E n \in todo[t] :
       \/ /\ DropIfIdle(n)
          /\ Goto(t, "sweep_forget")
          /\ todo' = [todo EXCEPT ![t] = @ \ {n}]
          /\ victim' = [victim EXCEPT ![t] = n]
          /\ UNCHANGED history
       \/ /\ n \in connected
          /\ Skip(t, n, "sweep_drop", "sweep_runs")
          /\ UNCHANGED server

(* The name dropped is forgotten, and the loop goes on.                     *)
Forgotten(t, from, more, done) ==
  /\ pc[t] = from
  /\ Goto(t, IF todo[t] = {} THEN done ELSE more)
  /\ victim' = [victim EXCEPT ![t] = None]
  /\ UNCHANGED <<todo, history>>

SweepForget(t) ==
  /\ Forgotten(t, "sweep_forget", "sweep_drop", "sweep_runs")
  /\ \E u \in Tasks : victim[t] = TestDb(u) /\ ForgetDatabase(u)

SweepRuns(t) ==
  /\ Step(t, "sweep_runs", "sweep_unlock")
  /\ ForgetStaleRuns(t)

(* Mutant: the lock is kept for the rest of the session.                    *)
SweepUnlockNothing(t) ==
  /\ \/ Step(t, "sweep_unlock", "retire_lock")
     \/ Step(t, "sweep_unlock_err", "panicked")
  /\ UNCHANGED server

SweepUnlock(t) ==
  /\ \/ Step(t, "sweep_unlock", "retire_lock")
     \/ Step(t, "sweep_unlock_err", "panicked")
  /\ Unlock(t, SweepKey(t))

-----------------------------------------------------------------------------
(* sweep_templates.                                                         *)

ListSweepOrphans(t) ==
  ListNames(t, "sweep_orphans", BuildingDatabases(t), "sweep_orphans_drop",
            "sweep_idle")

DropSweepOrphan(t) ==
  /\ pc[t] = "sweep_orphans_drop"
  /\ \E n \in todo[t] :
       DropForce(n) /\ Skip(t, n, "sweep_orphans_drop", "sweep_idle")

ListIdle(t) ==
  ListNames(t, "sweep_idle", IdleTemplates(t), "retire", "retire_unlock")

(* ALTER DATABASE of a name that is gone is an error.                       *)
Retire(t) ==
  /\ pc[t] = "retire"
  /\ \E n \in todo[t] :
       \/ /\ RetireTemplate(n)
          /\ Goto(t, "retire_drop")
          /\ todo' = [todo EXCEPT ![t] = @ \ {n}]
          /\ victim' = [victim EXCEPT ![t] = n]
          /\ UNCHANGED history
       \/ /\ ~Exists(n)
          /\ Refused(t, "retire_unlock_err")

(* In use, the template stays, no longer frozen; frozen again by another    *)
(* home's build, the drop is an error.                                      *)
RetireDrop(t) ==
  \/ /\ Step(t, "retire_drop", "retire_forget")
     /\ DropIfIdle(victim[t])
  \/ /\ victim[t] \in connected
     /\ Forgotten(t, "retire_drop", "retire", "retire_unlock")
     /\ UNCHANGED server
  \/ /\ pc[t] = "retire_drop"
     /\ victim[t] \in frozen
     /\ Refused(t, "retire_unlock_err")

RetireForget(t) ==
  /\ Forgotten(t, "retire_forget", "retire", "retire_unlock")
  /\ ForgetTemplate(t, victim[t])

RetireUnlock(t) ==
  /\ \/ Step(t, "retire_unlock", "touch_existing")
     \/ Step(t, "retire_unlock_err", "panicked")
  /\ Unlock(t, TemplateKey(t))

(* The `?` edges: one statement that fails ends the sweep and the test.     *)
SweepFails(t) ==
  \/ /\ pc[t] \in SweepHeld \ {"sweep_unlock", "sweep_unlock_err"}
     /\ Refused(t, "sweep_unlock_err")
  \/ /\ pc[t] \in RetireHeld \ {"retire_unlock", "retire_unlock_err"}
     /\ Refused(t, "retire_unlock_err")
  \/ /\ pc[t] \in {"sweep", "retire_lock", "sweep_unlock", "sweep_unlock_err",
                   "retire_unlock", "retire_unlock_err"}
     /\ Refused(t, "panicked")

SweepStep(t) ==
  \/ TrySweepLock(t) \/ ListLeftovers(t) \/ SweepDrop(t) \/ SweepForget(t)
  \/ SweepRuns(t) \/ SweepUnlock(t)
  \/ TryTemplateLock(t) \/ ListSweepOrphans(t) \/ DropSweepOrphan(t)
  \/ ListIdle(t) \/ Retire(t) \/ RetireDrop(t) \/ RetireForget(t)
  \/ RetireUnlock(t)
=============================================================================
