------------------------------ MODULE Settings ------------------------------
(***************************************************************************)
(* config.rs: the settings of a run, from sqlx-testdb.toml and the         *)
(* environment.  A file is a record of what it sets, Unset where a key is  *)
(* left out; `sql` is a list, empty when left out.                         *)
(***************************************************************************)
EXTENDS Integers, Sequences, FiniteSets

CONSTANTS
  Unset,
  Garbled,       \* an environment variable that is not Unicode
  MaxSecs,       \* u64::MAX
  SecsPerMin,    \* the unit of stale_run_mins
  Default        \* Config::default()

ASSUME DurationAssumption == MaxSecs \in Nat /\ SecsPerMin \in Nat \ {0}

Or(setting, default) == IF setting = Unset THEN default ELSE setting

(* Mutant: the product wraps.                                               *)
DurationWraps(amount, unit, default) ==
  IF amount = Unset THEN default ELSE (amount * unit) % (MaxSecs + 1)

Duration(amount, unit, default) ==
  IF amount = Unset THEN default
  ELSE IF amount * unit > MaxSecs THEN MaxSecs ELSE amount * unit

Conflicts(file) == file.migrations # Unset /\ file.sql # <<>>

SchemaSource(file) ==
  CASE file.migrations # Unset -> [kind |-> "migrations", from |-> file.migrations]
    [] file.sql # <<>>         -> [kind |-> "sql", from |-> file.sql]
    [] OTHER                   -> Default.schema

(* from_file, in the directory `root`: Unset stands for an error; `source`  *)
(* is what the file says, for its path.                                     *)
FromFile(root, file) ==
  IF Conflicts(file) \/ 0 \in {file.acquire_timeout_secs, file.connect_timeout_secs}
  THEN Unset
  ELSE [schema          |-> SchemaSource(file),
        project_root    |-> root,
        source          |-> file,
        database_url    |-> file.database_url,
        prefix          |-> Or(file.prefix, Default.prefix),
        bookkeeping_schema |-> Or(file.bookkeeping_schema, Default.bookkeeping_schema),
        keep_failed     |-> Or(file.keep_failed, Default.keep_failed),
        acquire_timeout |-> Duration(file.acquire_timeout_secs, 1, Default.acquire_timeout),
        connect_timeout |-> Duration(file.connect_timeout_secs, 1, Default.connect_timeout),
        stale_run_after |-> Duration(file.stale_run_mins, SecsPerMin, Default.stale_run_after)]

(* discover: the file the environment names, else the nearest of the        *)
(* ancestors of the manifest's directory, else the defaults.  `disk` has    *)
(* the file of each directory, Unset where there is none.                   *)
Nearest(ancestors, disk) ==
  LET with == {i \in DOMAIN ancestors : disk[ancestors[i]] # Unset}
  IN IF with = {} THEN Unset
     ELSE ancestors[CHOOSE i \in with : \A j \in with : i <= j]

Discovered(explicit, ancestors, disk) ==
  LET root == Or(explicit, Nearest(ancestors, disk))
  IN IF root = Unset THEN [Default EXCEPT !.project_root = ancestors[1]]
     ELSE IF root \in DOMAIN disk /\ disk[root] # Unset
       THEN FromFile(root, disk[root])
       ELSE Unset

(* database_url: the environment wins, also with what cannot be read; Unset *)
(* stands for an error, as without either there is no server.               *)
DatabaseUrl(config, env) ==
  IF env = Garbled THEN Unset ELSE Or(env, config.database_url)
=============================================================================
