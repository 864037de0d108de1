-------------------------------- MODULE Setup --------------------------------
(***************************************************************************)
(* What a test does before the server sees it: harness::run and the start  *)
(* of TestDb::create, over the macro's TestSpec, the settings, the names   *)
(* and the schema's files.  Tests run as threads of one process or in      *)
(* processes of their own, and the files may be edited under them.  The    *)
(* clone is one step here; Template.tla has it statement by statement,     *)
(* for schemas that are told apart by their digest.                        *)
(*                                                                         *)
(*   config -> url -> load* -> fixtures* -> clone -> cloned                *)
(***************************************************************************)
EXTENDS Names, SchemaDigest, Settings, Attribute

CONSTANTS
  Tests, Processes,
  Placements,      \* which tests may share a process
  Functions,       \* the functions each test may be: asyncness, inputs, attribute
  Files,           \* what sqlx-testdb.toml may say
  FirstDisks,      \* the settings files there may be at the start
  Dirs,            \* the directories it may be in
  Ancestors,       \* per process, those at or above its manifest, nearest first
  Explicits, Urls, \* what the environment may set, Unset included
  OwnConfig,       \* the settings each `config = "PATH"` function makes
  Contents,        \* what the schema's and the fixtures' files may hold, per path
  Directories,     \* the paths that are directories of migrations
  Migrators,       \* the embedded migrators
  MaxEdits         \* bound on the edits

ASSUME SetupAssumption ==
  /\ Placements \subseteq [Tests -> Processes]
  /\ FirstDisks \subseteq [Dirs -> Files \cup {Unset}]
  /\ Ancestors \in [Processes -> Seq(Dirs) \ {<<>>}]
  /\ \A file \in Files : file # Unset /\ file.stale_run_mins \in Nat \cup {Unset}
  /\ Default.source = Unset
  /\ NotGiven = Unset
  /\ MaxEdits \in Nat

(* A file has a text, or is not there; a directory has migrations.          *)
ASSUME SourceAssumption ==
  /\ Directories \subseteq DOMAIN Contents
  /\ \A path \in DOMAIN Contents :
       /\ Contents[path] \ {Unset} # {}
       /\ Contents[path] \ {Unset} \subseteq
            IF path \in Directories THEN Seq(Migrations) ELSE Texts
  /\ \A m \in DOMAIN Migrators : Migrators[m] \in Seq(Migrations)

(* What an attribute or a configuration names in the program is there: it   *)
(* would not compile otherwise.                                             *)
Embedded(schema) == schema.kind = "migrator" => schema.from \in DOMAIN Migrators

ASSUME AttributeAssumption ==
  /\ "schema" \in DOMAIN Default /\ Embedded(Default.schema)
  /\ \A path \in DOMAIN OwnConfig : Embedded(OwnConfig[path].schema)
  /\ \A t \in Tests : \A f \in Functions[t] :
       /\ f.attribute \in Seq(ToSet(f.attribute))
       /\ \A arg \in ToSet(f.attribute) :
            /\ arg.key = "config" => arg.value \in DOMAIN OwnConfig \ {NotGiven}
            /\ arg.key \in {"migrator", "migrations"} =>
                 Source(arg) # NotGiven /\ Embedded(Source(arg))

VARIABLES
  process,     \* the process of each test
  function,    \* its function
  env,         \* the environment: SQLX_TESTDB_CONFIG and the URL's variable
  disk,        \* the settings files
  source,      \* the schema's and the fixtures' files
  memo,        \* Config::discover's OnceLock, per process
  pc, config, loaded, fixtures,
  templates,   \* the templates on the server, by digest: the calls that made them
  cloned,      \* the template each test's database is a clone of
  edits

world == <<process, function, env, disk, source, edits>>
vars  == <<world, memo, pc, config, loaded, fixtures, templates, cloned>>

Args(t) == Parse(function[t].attribute)
Empties == [read |-> FALSE, is |-> Unset]

Init ==
  /\ process \in Placements
  /\ function \in {f \in [Tests -> UNION {Functions[t] : t \in Tests}] :
                    \A t \in Tests : f[t] \in Functions[t]}
  /\ env \in [explicit : Explicits, url : Urls]
  /\ disk \in FirstDisks
  /\ source = [path \in DOMAIN Contents |-> CHOOSE x \in Contents[path] : x # Unset]
  /\ memo = [p \in Processes |-> Empties]
  /\ pc = [t \in Tests |-> IF Compiles(function[t]) THEN "config" ELSE "rejected"]
  /\ config = [t \in Tests |-> Unset]
  /\ loaded = [t \in Tests |-> NoSchema]
  /\ fixtures = [t \in Tests |-> <<>>]
  /\ templates = <<>>
  /\ cloned = [t \in Tests |-> Unset]
  /\ edits = 0

Goto(t, label) == pc' = [pc EXCEPT ![t] = label]

Panic(t) ==
  /\ Goto(t, "panicked")
  /\ UNCHANGED <<world, loaded, fixtures, templates, cloned>>

-----------------------------------------------------------------------------
(* harness::run.                                                            *)

(* Mutant: the settings' schema, whatever the attribute says.               *)
OverriddenNot(t, settings) == settings

Overridden(t, settings) ==
  IF Args(t).schema = NotGiven THEN settings
  ELSE [settings EXCEPT !.schema = Args(t).schema]

(* Mutant: the file is read again for each test.                            *)
RecallNothing(t) ==
  [read |-> TRUE, is |-> Discovered(env.explicit, Ancestors[process[t]], disk)]

(* get_or_init: the first test of a process reads for all of them, and an   *)
(* error is remembered like anything else.                                  *)
Recall(t) ==
  IF memo[process[t]].read THEN memo[process[t]]
  ELSE [read |-> TRUE, is |-> Discovered(env.explicit, Ancestors[process[t]], disk)]

Run(t) ==
  /\ pc[t] = "config"
  /\ \/ /\ Args(t).config # NotGiven
        /\ config' = [config EXCEPT ![t] = OwnConfig[Args(t).config]]
        /\ Goto(t, "url")
        /\ UNCHANGED <<world, memo, loaded, fixtures, templates, cloned>>
     \/ /\ Args(t).config = NotGiven
        /\ memo' = [memo EXCEPT ![process[t]] = Recall(t)]
        /\ \/ /\ Recall(t).is # Unset
              /\ config' = [config EXCEPT ![t] = Overridden(t, Recall(t).is)]
              /\ Goto(t, "url")
              /\ UNCHANGED <<world, loaded, fixtures, templates, cloned>>
           \/ Recall(t).is = Unset /\ Panic(t) /\ UNCHANGED config

-----------------------------------------------------------------------------
(* TestDb::create, to the registration.                                     *)

Valid(t) == Validate(config[t].prefix, config[t].bookkeeping_schema)

Server(t) ==
  /\ pc[t] = "url"
  /\ \/ /\ Valid(t)
        /\ DatabaseUrl(config[t], env.url) # Unset
        /\ Goto(t, "load")
        /\ UNCHANGED <<world, loaded, fixtures, templates, cloned>>
     \/ /\ \/ ~Valid(t)
           \/ DatabaseUrl(config[t], env.url) = Unset
        /\ Panic(t)
  /\ UNCHANGED <<memo, config>>

(* LoadedSchema::load reads the files one after another; a directory of     *)
(* migrations is read by sqlx, an embedded migrator is there.  A directory  *)
(* is no script, and a script no directory.                                 *)
Scripts == DOMAIN Contents \ Directories

Readable(path, among) == path \in among /\ source[path] # Unset

Read(t, path, among, is) ==
  \/ /\ Readable(path, among)
     /\ loaded' = [loaded EXCEPT ![t] = is]
     /\ UNCHANGED <<world, pc, fixtures, templates, cloned>>
  \/ ~Readable(path, among) /\ Panic(t)

HasLoaded(t) ==
  LET schema == config[t].schema
  IN CASE schema.kind = "none" -> loaded[t] = NoSchema
       [] schema.kind = "sql"  -> /\ loaded[t].kind = "sql"
                                  /\ Len(loaded[t].parts) = Len(schema.from)
       [] OTHER                -> loaded[t].kind = "migrations"

Load(t) ==
  LET schema == config[t].schema
      texts  == loaded[t].parts
      next   == schema.from[Len(texts) + 1]
  IN /\ pc[t] = "load" /\ ~HasLoaded(t)
     /\ \/ /\ schema.kind = "sql"
           /\ Read(t, next, Scripts, SqlTexts(Append(texts, source[next])))
        \/ /\ schema.kind = "migrations"
           /\ Read(t, schema.from, Directories, Migrator(source[schema.from]))
        \/ /\ schema.kind = "migrator"
           /\ loaded' = [loaded EXCEPT ![t] = Migrator(Migrators[schema.from])]
           /\ UNCHANGED <<world, pc, fixtures, templates, cloned>>
     /\ UNCHANGED <<memo, config>>

ReadFixture(t) ==
  /\ pc[t] = "load" /\ HasLoaded(t)
  /\ LET next == Len(fixtures[t]) + 1
         path == Args(t).fixtures[next]
     IN /\ next \in DOMAIN Args(t).fixtures
        /\ \/ /\ Readable(path, Scripts)
              /\ fixtures' = [fixtures EXCEPT ![t] = Append(@, source[path])]
              /\ UNCHANGED <<world, pc, loaded, templates, cloned>>
           \/ ~Readable(path, Scripts) /\ Panic(t)
  /\ UNCHANGED <<memo, config>>

(* The template's name is its prefix and its digest: whoever asks for it    *)
(* first makes it.                                                          *)
TemplateOf(t) == <<config[t].prefix, HashInput(loaded[t])>>

Clone(t) ==
  /\ pc[t] = "load" /\ HasLoaded(t)
  /\ Len(fixtures[t]) = Len(Args(t).fixtures)
  /\ templates' = [name \in DOMAIN templates \cup {TemplateOf(t)} |->
                     IF name \in DOMAIN templates THEN templates[name]
                     ELSE Applied(loaded[t])]
  /\ cloned' = [cloned EXCEPT ![t] = templates'[TemplateOf(t)]]
  /\ Goto(t, "cloned")
  /\ UNCHANGED <<world, memo, config, loaded, fixtures>>

-----------------------------------------------------------------------------
(* Somebody edits a file while the tests run, or takes it away.             *)
EditSource ==
  /\ edits < MaxEdits
  /\ \E path \in DOMAIN Contents : \E x \in Contents[path] \ {source[path]} :
       source' = [source EXCEPT ![path] = x]
  /\ edits' = edits + 1
  /\ UNCHANGED <<process, function, env, disk, memo, pc, config, loaded,
                 fixtures, templates, cloned>>

EditSettings ==
  /\ edits < MaxEdits
  /\ \E dir \in Dirs : \E x \in (Files \cup {Unset}) \ {disk[dir]} :
       disk' = [disk EXCEPT ![dir] = x]
  /\ edits' = edits + 1
  /\ UNCHANGED <<process, function, env, source, memo, pc, config, loaded,
                 fixtures, templates, cloned>>

Terminating ==
  /\ \A t \in Tests : pc[t] \in {"rejected", "panicked", "cloned"}
  /\ UNCHANGED vars

Next ==
  \/ \E t \in Tests :
       Run(t) \/ Server(t) \/ Load(t) \/ ReadFixture(t) \/ Clone(t)
  \/ EditSource \/ EditSettings \/ Terminating

Spec == Init /\ [][Next]_vars

-----------------------------------------------------------------------------
(* Properties.                                                              *)

FromDiscovery(t) == config[t] # Unset /\ Args(t).config = NotGiven
Named(t) == pc[t] \in {"load", "cloned"}

(* A test's database holds what the test itself read, to the letter and in  *)
(* order, whoever built its template and whatever was edited since          *)
(* (LoadedSchema::digest, apply).                                           *)
ClonesMatchSource ==
  \A t \in Tests : pc[t] = "cloned" => cloned[t] = Applied(loaded[t])

(* The tests of a process go by the same settings, the attribute's schema   *)
(* aside, though the file changes between them (Config::discover).          *)
OneConfigPerProcess ==
  \A t, u \in Tests :
    process[t] = process[u] /\ FromDiscovery(t) /\ FromDiscovery(u)
      => [config[t] EXCEPT !.schema = Unset] = [config[u] EXCEPT !.schema = Unset]

(* Whatever schema an attribute names, itself or through its config, is the *)
(* one the test runs with: none is silently passed over.                    *)
AttributeDecides ==
  \A t \in Tests : config[t] # Unset =>
    \A i \in DOMAIN function[t].attribute :
      LET arg == function[t].attribute[i]
      IN /\ arg.key \in {"migrator", "migrations"} => config[t].schema = Source(arg)
         /\ arg.key = "config" => config[t].schema = OwnConfig[Args(t).config].schema

AsksFor(t) ==
  IF config[t].source = Unset THEN Unset ELSE config[t].source.stale_run_mins

(* Of two tests the one whose file asks for the longer age never gets the   *)
(* shorter one: what is too long to hold saturates (duration).              *)
LongerSettingLongerAge ==
  \A t, u \in Tests :
    /\ FromDiscovery(t) /\ FromDiscovery(u)
    /\ AsksFor(t) # Unset /\ AsksFor(u) # Unset
    /\ AsksFor(t) <= AsksFor(u)
    => config[t].stale_run_after <= config[u].stale_run_after

(* The server cuts a name that is too long, and two might become one: none  *)
(* that validated settings lead to is (Names::validate).                    *)
NamesFit ==
  \A t \in Tests : Named(t) =>
    \A n \in AllNames(config[t].prefix) \cup {config[t].bookkeeping_schema} :
      Bytes(n) <= MaxIdentifier

(* On one server no name is drawn as a test database, as a template and as  *)
(* a building, or from two prefixes.                                        *)
NamesTellKinds ==
  \A t, u \in Tests : Named(t) /\ Named(u) =>
    LET p == config[t].prefix
        q == config[u].prefix
    IN /\ DatabaseNames(p) \cap (TemplateNames(q) \cup BuildingNames(q)) = {}
       /\ TemplateNames(p) \cap BuildingNames(q) = {}
       /\ p # q => AllNames(p) \cap AllNames(q) = {}

(* What a prefix's orphans and idle templates are listed by catches its own *)
(* buildings and templates only, and another prefix's names only where that *)
(* prefix begins with the listed one (databases_with_prefix).               *)
ListsCatchTheirOwn ==
  \A t, u \in Tests : Named(t) /\ Named(u) =>
    LET p == config[t].prefix
        q == config[u].prefix
    IN \A by \in {BuildingPrefix(p), TemplatePrefix(p)} :
         \/ IsPrefix(by, q)
         \/ Listed(by, AllNames(q)) \subseteq
              IF p # q THEN {}
              ELSE IF by = BuildingPrefix(p) THEN BuildingNames(q) ELSE TemplateNames(q)
=============================================================================
