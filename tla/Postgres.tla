------------------------------ MODULE Postgres ------------------------------
(***************************************************************************)
(* The Postgres server as sqlx-testdb sees it: the statements of           *)
(* postgres.rs, each of which is atomic on the server.  The state is the   *)
(* catalog of databases, the advisory locks, and the bookkeeping tables    *)
(* (runs, databases, templates).  The engine's rules (which statement the  *)
(* server refuses, what DROP does to open connections) are external and    *)
(* modelled from how the code matches on the error codes.                  *)
(*                                                                         *)
(* pg_database is one per server, so database names are shared by every    *)
(* task; a session's advisory locks and bookkeeping tables belong to one   *)
(* "home": the database the URL names together with `bookkeeping_schema`.  *)
(***************************************************************************)
EXTENDS Integers, FiniteSets

CONSTANTS
  Tasks,              \* one per run of a test: a call of harness::run_with
  Homes,              \* bookkeeping domains
  Prefixes,           \* Config::prefix values
  Runs,               \* run keys (name::current_run_key)
  Schemas,            \* what a schema's statements produce, one per digest
  None,               \* nobody, or no database
  HomeOf, PrefixOf, RunOf, SchemaOf,                    \* per task
  StaleRunAfter, KeptFailedFor, IdleTemplateAfter       \* Config::sweep, per task

Absent  == "absent"    \* no database of that name
Partial == "partial"   \* created, its schema not applied to the end
Never   == -1          \* a missing row, or NULL

(* The settings of the tasks.  A sweep age may be 0: Config::from_file only *)
(* rejects zeros for the pool's settings.                                   *)
ASSUME SettingsAssumption ==
  /\ None \notin Tasks
  /\ HomeOf \in [Tasks -> Homes]
  /\ PrefixOf \in [Tasks -> Prefixes]
  /\ RunOf \in [Tasks -> Runs]
  /\ SchemaOf \in [Tasks -> Schemas]
  /\ {Absent, Partial} \cap Schemas = {}
  /\ StaleRunAfter \in [Tasks -> Nat]
  /\ KeptFailedFor \in [Tasks -> Nat]
  /\ IdleTemplateAfter \in [Tasks -> Nat]

(* Mutant: a building name without its run and random part.                 *)
BuildingOfPrefix(t) == <<"building", PrefixOf[t]>>

TestDb(t)   == <<"test", t>>                 \* names.database(test_path, run)
Building(t) == <<"building", t>>             \* names.building()
Template(t) == <<"template", PrefixOf[t], SchemaOf[t]>>  \* names.template(digest)

TestDbs   == {TestDb(t) : t \in Tasks}
Buildings == {Building(t) : t \in Tasks}
Templates == {Template(t) : t \in Tasks}
Names     == TestDbs \cup Buildings \cup Templates

(* Mutant: a lock for each schema.                                          *)
TemplateKeyBySchema(t) == <<"template", HomeOf[t], SchemaOf[t]>>

SweepKey(t)    == <<"sweep", HomeOf[t]>>
TemplateKey(t) == <<"template", HomeOf[t], PrefixOf[t]>>
LockKeys == {SweepKey(t) : t \in Tasks} \cup {TemplateKey(t) : t \in Tasks}

RunRow(t)      == <<HomeOf[t], RunOf[t]>>
TemplateRow(t) == <<HomeOf[t], Template(t)>>

VARIABLES
  now,          \* the server's clock
  content,      \* content[n]: what database n holds, Absent when there is none
  frozen,       \* the databases with IS_TEMPLATE true, ALLOW_CONNECTIONS false
  connected,    \* the databases some client other than a master is connected to
  locks,        \* the session that holds each advisory lock
  lastSeen,     \* runs.last_seen_at
  rows,         \* the tasks whose test database has a row in `databases`
  failedAt,     \* databases.failed_at
  lastUsed      \* templates.last_used_at

catalog == <<content, frozen, connected>>
books   == <<lastSeen, rows, failedAt, lastUsed>>
server  == <<now, content, frozen, connected, locks, lastSeen, rows, failedAt,
             lastUsed>>

ServerTypeOK ==
  /\ now \in Nat
  /\ content \in [Names -> Schemas \cup {Absent, Partial}]
  /\ frozen \subseteq Names
  /\ connected \subseteq Names
  /\ locks \in [LockKeys -> Tasks \cup {None}]
  /\ lastSeen \in [Homes \X Runs -> Nat \cup {Never}]
  /\ rows \subseteq Tasks
  /\ failedAt \in [Tasks -> Nat \cup {Never}]
  /\ lastUsed \in [Homes \X Templates -> Nat \cup {Never}]

Exists(n) == content[n] # Absent

-----------------------------------------------------------------------------
(* Ages.  A refresh is due after a quarter of the age it protects           *)
(* (REFRESH_DIVISOR), so the comparison is scaled by four instead.          *)

OlderThan(stamp, age)  == stamp < now - age
(* Mutant: a refresh only when the age itself has passed.                   *)
RefreshDueLate(stamp, age) == now - stamp > age

RefreshDue(stamp, age) == 4 * (now - stamp) > age

-----------------------------------------------------------------------------
(* The catalog.  IF EXISTS makes DROP of a missing database a success; a    *)
(* frozen database cannot be dropped; FORCE ends the connections it meets.  *)

CreateDatabase(n) ==
  /\ ~Exists(n)
  /\ content' = [content EXCEPT ![n] = Partial]
  /\ UNCHANGED <<now, frozen, connected, locks, books>>

CloneDatabase(n, template) ==
  /\ ~Exists(n)
  /\ Exists(template)
  /\ template \notin connected
  /\ content' = [content EXCEPT ![n] = content[template]]
  /\ UNCHANGED <<now, frozen, connected, locks, books>>

DropForce(n) ==
  /\ n \notin frozen
  /\ content' = [content EXCEPT ![n] = Absent]
  /\ connected' = connected \ {n}
  /\ UNCHANGED <<now, frozen, locks, books>>

(* Mutant: the plain drop with FORCE after all.                             *)
DropIfIdleForced(n) == DropForce(n)

DropIfIdle(n) ==
  /\ n \notin frozen
  /\ n \notin connected
  /\ content' = [content EXCEPT ![n] = Absent]
  /\ UNCHANGED <<now, frozen, connected, locks, books>>

(* Both ALTERs travel in one simple query, hence in one transaction: the    *)
(* freeze and the rename take effect together or not at all.                *)
CanPublish(building, template) ==
  /\ Exists(building)
  /\ building \notin connected
  /\ ~Exists(template)

PublishTemplate(building, template) ==
  /\ CanPublish(building, template)
  /\ content' = [content EXCEPT ![building] = Absent,
                                ![template] = content[building]]
  /\ frozen' = frozen \cup {template}
  /\ UNCHANGED <<now, connected, locks, books>>

RetireTemplate(n) ==
  /\ Exists(n)
  /\ frozen' = frozen \ {n}
  /\ UNCHANGED <<now, content, connected, locks, books>>

Connect(n) ==
  /\ Exists(n)
  /\ n \notin frozen
  /\ connected' = connected \cup {n}
  /\ UNCHANGED <<now, content, frozen, locks, books>>

Disconnect(n) ==
  /\ connected' = connected \ {n}
  /\ UNCHANGED <<now, content, frozen, locks, books>>

-----------------------------------------------------------------------------
(* Advisory locks of a session.  pg_advisory_unlock of a lock that is not   *)
(* held is a warning, not an error.                                         *)

Lock(t, key) ==
  /\ locks[key] = None
  /\ locks' = [locks EXCEPT ![key] = t]
  /\ UNCHANGED <<now, catalog, books>>

Unlock(t, key) ==
  /\ locks' = [locks EXCEPT ![key] = IF @ = t THEN None ELSE @]
  /\ UNCHANGED <<now, catalog, books>>

EndMaster(t) ==
  /\ locks' = [k \in LockKeys |-> IF locks[k] = t THEN None ELSE locks[k]]
  /\ UNCHANGED <<now, catalog, books>>

-----------------------------------------------------------------------------
(* The bookkeeping tables.                                                  *)

FirstOfRun(t) == lastSeen[RunRow(t)] = Never

(* Mutant: ON CONFLICT DO NOTHING for the run's row.                        *)
RegisterTestOnce(t) ==
  /\ lastSeen' = [lastSeen EXCEPT ![RunRow(t)] = IF @ = Never THEN now ELSE @]
  /\ rows' = rows \cup {t}
  /\ UNCHANGED <<now, catalog, locks, failedAt, lastUsed>>

RegisterTest(t) ==
  /\ lastSeen' = [lastSeen EXCEPT ![RunRow(t)] =
                    IF @ = Never \/ RefreshDue(@, StaleRunAfter[t])
                      THEN now ELSE @]
  /\ rows' = rows \cup {t}
  /\ UNCHANGED <<now, catalog, locks, failedAt, lastUsed>>

MarkFailed(t) ==
  /\ failedAt' = [failedAt EXCEPT ![t] = IF t \in rows THEN now ELSE @]
  /\ UNCHANGED <<now, catalog, locks, lastSeen, rows, lastUsed>>

(* The row of u's database, failed_at included, goes.                       *)
ForgetDatabase(u) ==
  /\ rows' = rows \ {u}
  /\ failedAt' = [failedAt EXCEPT ![u] = Never]
  /\ UNCHANGED <<now, catalog, locks, lastSeen, lastUsed>>

(* Mutant: the age taken from the stamp that is written.                    *)
TouchTemplateAged(t) ==
  /\ lastUsed' = [lastUsed EXCEPT ![TemplateRow(t)] = now - IdleTemplateAfter[t]]
  /\ UNCHANGED <<now, catalog, locks, lastSeen, rows, failedAt>>

TouchTemplate(t) ==
  /\ lastUsed' = [lastUsed EXCEPT ![TemplateRow(t)] =
                    IF @ = Never \/ RefreshDue(@, IdleTemplateAfter[t])
                      THEN now ELSE @]
  /\ UNCHANGED <<now, catalog, locks, lastSeen, rows, failedAt>>

ForgetTemplate(t, n) ==
  /\ lastUsed' = [lastUsed EXCEPT ![<<HomeOf[t], n>>] = Never]
  /\ UNCHANGED <<now, catalog, locks, lastSeen, rows, failedAt>>

ForgetStaleRuns(t) ==
  /\ lastSeen' = [r \in Homes \X Runs |->
       IF /\ r[1] = HomeOf[t]
          /\ OlderThan(lastSeen[r], StaleRunAfter[t])
          /\ \A u \in rows : RunRow(u) # r
         THEN Never ELSE lastSeen[r]]
  /\ UNCHANGED <<now, catalog, locks, rows, failedAt, lastUsed>>

(* Mutant: the age of the run alone, whatever failed_at says.               *)
IsLeftoverOfRun(t, u) ==
  \/ lastSeen[RunRow(u)] = Never
  \/ OlderThan(lastSeen[RunRow(u)], StaleRunAfter[t])

(* What the sweep of t's home asks for.  A row whose run has no row is a    *)
(* leftover whatever its age: Never is older than every stamp.              *)
IsLeftover(t, u) ==
  \/ /\ failedAt[u] = Never
     /\ \/ lastSeen[RunRow(u)] = Never
        \/ OlderThan(lastSeen[RunRow(u)], StaleRunAfter[t])
  \/ /\ failedAt[u] # Never
     /\ OlderThan(failedAt[u], KeptFailedFor[t])

LeftoverDatabases(t) ==
  {TestDb(u) : u \in {v \in rows : HomeOf[v] = HomeOf[t] /\ IsLeftover(t, v)}}

BuildingDatabases(t) ==
  {n \in {Building(u) : u \in {v \in Tasks : PrefixOf[v] = PrefixOf[t]}} : Exists(n)}

IdleTemplates(t) ==
  {n \in Templates \ {Template(t)} :
     /\ n[2] = PrefixOf[t]
     /\ Exists(n)
     /\ \/ lastUsed[<<HomeOf[t], n>>] = Never
        \/ OlderThan(lastUsed[<<HomeOf[t], n>>], IdleTemplateAfter[t])}

=============================================================================
