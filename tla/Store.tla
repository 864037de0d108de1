------------------------------- MODULE Store -------------------------------
(***************************************************************************)
(* What the harness promises a test, without locks, sessions, buildings,   *)
(* books or clocks: there is a store of templates, each complete and each  *)
(* added and taken away as a whole; a test gets a database of its own by   *)
(* one copy of the template of its schema, or gets none; and a database    *)
(* that is gone does not come back.  Correctness.tla shows Harness.tla to  *)
(* implement this.                                                         *)
(***************************************************************************)
CONSTANTS Tests, TemplateNames, TemplateFor(_)

VARIABLES
  store,   \* the templates there are
  db       \* db[t]: whether test t has no database yet, has it, or had it

vars == <<store, db>>

Init ==
  /\ store \subseteq TemplateNames
  /\ db = [t \in Tests |-> "none"]

Build(n) ==
  /\ n \notin store
  /\ store' = store \cup {n}
  /\ UNCHANGED db

Retire(n) ==
  /\ n \in store
  /\ store' = store \ {n}
  /\ UNCHANGED db

Clone(t) ==
  /\ db[t] = "none"
  /\ TemplateFor(t) \in store
  /\ db' = [db EXCEPT ![t] = "there"]
  /\ UNCHANGED store

(* The test could not get a database, or had it dropped.                    *)
Lose(t) ==
  /\ db[t] # "gone"
  /\ db' = [db EXCEPT ![t] = "gone"]
  /\ UNCHANGED store

Next ==
  \/ \E n \in TemplateNames : Build(n) \/ Retire(n)
  \/ \E t \in Tests : Clone(t) \/ Lose(t)

Spec == Init /\ [][Next]_vars
=============================================================================
