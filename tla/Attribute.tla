------------------------------ MODULE Attribute ------------------------------
(***************************************************************************)
(* #[sqlx_testdb::test(...)]: the arguments of the attribute, in order,    *)
(* each [key, value].  The macro folds them into a TestSpec, or reports an *)
(* error and the test does not compile.                                    *)
(***************************************************************************)
EXTENDS SequencesExt

CONSTANT NotGiven

Empty == [config |-> NotGiven, schema |-> NotGiven, fixtures |-> <<>>, error |-> FALSE]

Schemaless == [kind |-> "none", from |-> NotGiven]

(* `migrations = false` gives no directory.                                 *)
Source(arg) ==
  IF arg.value = NotGiven THEN Schemaless
  ELSE [kind |-> arg.key, from |-> arg.value]

SetSchema(args, schema) ==
  [args EXCEPT !.schema = schema, !.error = @ \/ args.schema # NotGiven]

(* A script with an extension is a path of its own, any other is a file of  *)
(* the directory.                                                           *)
Script(dir, name) == IF name.extension THEN <<name.path>> ELSE <<dir, name.path>>

(* Names, or a directory and its scripts: fixtures/ when none is given.     *)
Fixtures(arg) ==
  LET dir == IF arg.dir = NotGiven THEN "fixtures" ELSE arg.dir
  IN [i \in DOMAIN arg.scripts |-> Script(dir, arg.scripts[i])]

(* fixtures(...) may come more than once; so may `config`, and the last is  *)
(* taken.                                                                   *)
Argument(args, arg) ==
  CASE arg.key = "fixtures" -> [args EXCEPT !.fixtures = @ \o Fixtures(arg)]
    [] arg.key = "config" -> [args EXCEPT !.config = arg.value]
    [] arg.key \in {"migrator", "migrations"} -> SetSchema(args, Source(arg))
    [] OTHER -> [args EXCEPT !.error = TRUE]

Parse(list) ==
  LET args == FoldLeft(Argument, Empty, list)
  IN [args EXCEPT !.error = @ \/ (args.config # NotGiven /\ args.schema # NotGiven)]

(* expand: an async function of one or two arguments.                       *)
Compiles(function) ==
  /\ function.async
  /\ function.inputs \in {1, 2}
  /\ ~Parse(function.attribute).error
=============================================================================
