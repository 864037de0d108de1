------------------------------- MODULE MCSetup -------------------------------
(***************************************************************************)
(* Values for the constants of Setup.tla.                                  *)
(***************************************************************************)
EXTENDS Setup

CONSTANTS a, b

(* Segments, by their bytes; a digest's are hexadecimal.                    *)
HexSegments == {"0f", "0f0f0f", "0f0f0f0f", "0f0f0f0f0f", "0f0f0f0f0f0f0f0f"}
SegmentsUsed == {"p", "zzzzzz", "longer_than", Building, Template} \cup HexSegments
InitialsUsed == SegmentsUsed \ HexSegments
LengthOf == [s \in SegmentsUsed |->
  CASE s = "p" -> 1
    [] s = "0f" -> 2
    [] s \in {"zzzzzz", "0f0f0f"} -> 6
    [] s = "0f0f0f0f" -> 8
    [] s = "0f0f0f0f0f" -> 10
    [] s = "longer_than" -> 11
    [] s = "0f0f0f0f0f0f0f0f" -> 16
    [] OTHER -> 8]

Defaults ==
  [schema |-> Schemaless, project_root |-> Unset, source |-> Unset, database_url |-> Unset,
   prefix |-> <<"p">>, bookkeeping_schema |-> <<"p", "zzzzzz">>, keep_failed |-> TRUE,
   acquire_timeout |-> 3, connect_timeout |-> 2, stale_run_after |-> 6]

(* A file with a schema of SQL, and what others change in it.               *)
OneFile ==
  [prefix |-> Unset, bookkeeping_schema |-> Unset, sql |-> <<<<"one">>, <<"two">>>>, migrations |-> Unset,
   database_url |-> "file", keep_failed |-> FALSE, stale_run_mins |-> 3,
   acquire_timeout_secs |-> Unset, connect_timeout_secs |-> 1]

FilesUsed ==
  {OneFile,
   [OneFile EXCEPT !.sql = <<<<"all">>>>, !.stale_run_mins = 4],
   [OneFile EXCEPT !.sql = <<>>, !.migrations = <<"migrations">>,
                   !.prefix = <<"p", Building>>, !.database_url = Unset],
   [OneFile EXCEPT !.prefix = <<"p", "0f0f0f0f0f">>, !.stale_run_mins = 0],
   [OneFile EXCEPT !.prefix = <<"p", "longer_than">>, !.stale_run_mins = Unset],
   [OneFile EXCEPT !.bookkeeping_schema =
      <<"p", "0f0f0f0f0f0f0f0f", "0f0f0f0f0f0f0f0f", "0f0f0f">>],
   [OneFile EXCEPT !.migrations = <<"migrations">>],
   [OneFile EXCEPT !.prefix = <<"0f", "p">>],
   [OneFile EXCEPT !.connect_timeout_secs = 0]}

PathsOfTwo == <<<<"pkg", "root">>, <<"root">>>>

Up   == Migration(1, FALSE, <<"x">>)
Down == Migration(1, TRUE, <<"y">>)

ContentsUsed ==
  [path \in {<<"one">>, <<"two">>, <<"all">>, <<"migrations">>,
            <<"fixtures", "rows">>, <<"more">>} |->
     CASE path = <<"one">> -> {<<"x">>, Unset}
       [] path = <<"two">> -> {<<"y", "z">>, <<"z">>}
       [] path = <<"all">> -> {<<"x", "y", "z">>}
       [] path = <<"migrations">> -> {<<Up, Down>>, <<Up>>}
       [] OTHER -> {<<"row">>, Unset}]

DirectoriesUsed == {<<"migrations">>}

MigratorsUsed == [m \in {"MIGRATOR"} |-> <<Up>>]
OwnConfigs == [f \in {"config"} |->
  [Defaults EXCEPT !.schema = [kind |-> "sql", from |-> <<<<"two">>>>],
                   !.database_url = "own"]]

Test(list)  == [async |-> TRUE, inputs |-> 1, attribute |-> list]
Arg(key, value) == [key |-> key, value |-> value]
RowsOf(dir) == [key |-> "fixtures", dir |-> dir,
                scripts |-> <<[path |-> "rows", extension |-> FALSE],
                            [path |-> "more", extension |-> TRUE]>>]

FunctionsUsed ==
  [t \in Tests |->
     IF t = a
     THEN {Test(<<>>), Test(<<RowsOf(Unset), Arg("migrations", Unset)>>),
           Test(<<Arg("config", "config")>>)}
     ELSE {Test(<<>>), Test(<<Arg("migrator", "MIGRATOR")>>),
           Test(<<Arg("migrations", <<"one">>)>>),
           Test(<<Arg("migrations", <<"migrations">>), Arg("migrator", "MIGRATOR")>>)}]

Together == [t \in Tests |-> 1]
Apart    == [t \in Tests |-> IF t = a THEN 1 ELSE 2]
Placed   == {Together, Apart}

FirstFiles == {[dir \in Dirs |-> IF dir = "pkg" THEN x ELSE y] :
                x \in FilesUsed \cup {Unset}, y \in {OneFile, Unset}}
=============================================================================
