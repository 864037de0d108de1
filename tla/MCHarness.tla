----------------------------- MODULE MCHarness -----------------------------
(***************************************************************************)
(* Values for the constants of Harness.tla, shared by the configurations.  *)
(***************************************************************************)
EXTENDS Correctness, TLC

CONSTANTS a, b, c

ForAll(x)    == [t \in Tasks |-> x]
ByTask(x, y, z) == [t \in Tasks |-> CASE t = a -> x [] t = b -> y [] OTHER -> z]

(* Homes and prefixes.                                                      *)
OneHome   == ForAll("h")
HomesHKK  == ByTask("h", "k", "k")
OnePrefix == ForAll("p")

(* Runs: one for all, one each, and one that was seen before at time 0.     *)
OneRun  == ForAll("r")
OwnRun  == [t \in Tasks |-> t]
OldRunR == {<<"h", "r">>}
OldRunS == {<<"h", "s">>}
RunsRS  == ByTask("r", "s", "s")

(* Schemas, and the templates that are there from the start.                *)
SchemasUUP == ByTask("users", "users", "posts")
SchemasUP  == ByTask("users", "posts", "posts")
SchemasPPU == ByTask("posts", "posts", "users")
OneSchema  == ForAll("users")
OldOfB     == {<<"h", Template(b)>>}
OldOfZ     == {<<"z", Template(c)>>}
TemplateOfB == {Template(b)}
TestDbOfA   == {TestDb(a)}

(* Ages, in ticks of the clock.                                             *)
Age0 == ForAll(0)
Age2 == ForAll(2)
Age4 == ForAll(4)
Age43 == ByTask(4, 3, 3)

KeepA    == [t \in Tasks |-> t = a]
KeepAll  == ForAll(TRUE)
KeepNone == ForAll(FALSE)
=============================================================================
