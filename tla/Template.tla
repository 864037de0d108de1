------------------------------ MODULE Template ------------------------------
(***************************************************************************)
(* template.rs: a test database is a clone of the template of its schema.  *)
(* The first task to find the template missing builds it, under the        *)
(* template lock of its home and prefix: it makes a database with a        *)
(* building name, applies the schema over a connection of its own, and     *)
(* renames the result into place.                                          *)
(*                                                                         *)
(* The labels, in the code's order:                                        *)
(*   clone -> [lock -> exists -> (touch | orphans -> orphans_drop* ->      *)
(*   create -> connect -> apply -> publish -> touch) -> unlock ->          *)
(*   clone_again] -> fixtures                                              *)
(* Errors leave by discard, unlock_err and unregister (harness.rs).        *)
(***************************************************************************)
EXTENDS Session

CONSTANT Faulty   \* the tasks whose statements may fail for no modelled reason

ASSUME TemplateAssumption == Faulty \subseteq Tasks

TemplateLabels ==
  {"clone", "lock", "exists", "orphans", "orphans_drop", "create", "connect",
   "apply", "discard", "publish", "touch", "unlock", "unlock_err",
   "clone_again", "touch_existing", "touch_first"}

(* The labels between a successful lock of the template key and its unlock. *)
BuildLabels ==
  {"exists", "orphans", "orphans_drop", "create", "connect", "apply",
   "discard", "publish", "touch", "unlock", "unlock_err"}

-----------------------------------------------------------------------------
(* touch_existing: the first test of a run keeps the template it is about   *)
(* to use from looking idle.                                                *)

TouchExisting(t) ==
  /\ Step(t, "touch_existing",
          IF Exists(Template(t)) THEN "touch_first" ELSE "clone")
  /\ UNCHANGED server

TouchFirst(t) ==
  /\ Step(t, "touch_first", "clone")
  /\ TouchTemplate(t)

-----------------------------------------------------------------------------
(* clone_into: only a missing template leads to a build; any other refusal, *)
(* such as a connection open on the template, is the test's error.          *)

CloneRefused(t) == ~Exists(Template(t)) \/ Template(t) \in connected

Clone(t) ==
  \/ /\ Step(t, "clone", "fixtures")
     /\ CloneDatabase(TestDb(t), Template(t))
  \/ /\ ~Exists(Template(t))
     /\ Step(t, "clone", "lock")
     /\ UNCHANGED server
  \/ /\ pc[t] = "clone"
     /\ Exists(Template(t)) /\ Template(t) \in connected
     /\ Refused(t, "unregister")

CloneAgain(t) ==
  \/ /\ Step(t, "clone_again", "fixtures")
     /\ CloneDatabase(TestDb(t), Template(t))
  \/ /\ pc[t] = "clone_again"
     /\ CloneRefused(t)
     /\ Refused(t, "unregister")

-----------------------------------------------------------------------------
(* build and build_locked.                                                  *)

(* Mutant: the build goes ahead without the lock.                           *)
LockNothing(t) == Step(t, "lock", "exists") /\ UNCHANGED server

LockTemplate(t) ==
  /\ Step(t, "lock", "exists")
  /\ Lock(t, TemplateKey(t))

(* Mutant: no second look once the lock is held.                            *)
NoSecondLook(t) == Step(t, "exists", "orphans") /\ UNCHANGED server

TemplateExists(t) ==
  /\ Step(t, "exists", IF Exists(Template(t)) THEN "touch" ELSE "orphans")
  /\ UNCHANGED server

ListOrphans(t) ==
  ListNames(t, "orphans", BuildingDatabases(t), "orphans_drop", "create")

(* Only templates are ever frozen, so FORCE on a building always succeeds.  *)
DropOrphan(t) ==
  /\ pc[t] = "orphans_drop"
  /\ \E n \in todo[t] : DropForce(n) /\ Skip(t, n, "orphans_drop", "create")

CreateBuilding(t) ==
  /\ Step(t, "create", "connect")
  /\ CreateDatabase(Building(t))

ConnectBuilding(t) ==
  \/ /\ Step(t, "connect", "apply")
     /\ Connect(Building(t))
  \/ /\ pc[t] = "connect"
     /\ ~Exists(Building(t)) \/ t \in Faulty
     /\ Refused(t, "discard")

(* Mutant: the schema's error is lost, and what there is gets published.    *)
ApplySchemaUnchecked(t) ==
  /\ Step(t, "apply", "publish")
  /\ content' = [content EXCEPT ![Building(t)] =
                   IF t \in Faulty THEN @ ELSE SchemaOf[t]]
  /\ connected' = connected \ {Building(t)}
  /\ UNCHANGED <<now, frozen, locks, books>>

(* schema.apply and target.close: the statements run on a connection of     *)
(* their own and fail when the schema has an error in it, or when the       *)
(* building was dropped under them.                                         *)
ApplySchema(t) ==
  \/ /\ Building(t) \in connected
     /\ Step(t, "apply", "publish")
     /\ content' = [content EXCEPT ![Building(t)] = SchemaOf[t]]
     /\ connected' = connected \ {Building(t)}
     /\ UNCHANGED <<now, frozen, locks, books>>
  \/ /\ t \in Faulty \/ Building(t) \notin connected
     /\ Step(t, "apply", "discard")
     /\ Disconnect(Building(t))

(* Mutant: after a failed build, another one.                               *)
DiscardAndRetry(t) ==
  /\ Step(t, "discard", "create")
  /\ DropForce(Building(t))

DiscardBuilding(t) ==
  /\ Step(t, "discard", "unlock_err")
  /\ DropForce(Building(t))

Publish(t) ==
  \/ /\ Step(t, "publish", "touch")
     /\ PublishTemplate(Building(t), Template(t))
  \/ /\ pc[t] = "publish"
     /\ ~CanPublish(Building(t), Template(t))
     /\ Refused(t, "unlock_err")

(* Mutant: nothing is recorded for the template.                            *)
TouchNothing(t) == Step(t, "touch", "unlock") /\ UNCHANGED server

Touch(t) ==
  /\ Step(t, "touch", "unlock")
  /\ TouchTemplate(t)

(* unlock runs whether the build went well or not; the error, if any, is    *)
(* returned after it.                                                       *)
UnlockTemplate(t) ==
  /\ \/ Step(t, "unlock", "clone_again")
     \/ Step(t, "unlock_err", "unregister")
  /\ Unlock(t, TemplateKey(t))

(* The `?` edges of the statements on the master connection.                *)
TemplateFails(t) ==
  \/ /\ pc[t] \in {"clone", "lock", "unlock", "unlock_err", "clone_again"}
     /\ Refused(t, "unregister")
  \/ /\ pc[t] \in {"exists", "orphans", "orphans_drop", "create", "discard",
                   "publish", "touch"}
     /\ Refused(t, "unlock_err")
  \/ /\ pc[t] \in {"touch_existing", "touch_first"}
     /\ Refused(t, "panicked")

TemplateStep(t) ==
  \/ TouchExisting(t) \/ TouchFirst(t)
  \/ Clone(t) \/ LockTemplate(t) \/ TemplateExists(t)
  \/ ListOrphans(t) \/ DropOrphan(t) \/ CreateBuilding(t)
  \/ ConnectBuilding(t) \/ ApplySchema(t) \/ DiscardBuilding(t)
  \/ Publish(t) \/ Touch(t) \/ UnlockTemplate(t) \/ CloneAgain(t)
=============================================================================
