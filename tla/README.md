# sqlx-testdb in TLA+

A specification of sqlx-testdb's core: how a test gets its throwaway database,
how templates are built, cloned and retired, how later runs sweep what earlier
runs left, and what all of that does when tests of several processes interleave
on one Postgres server, fail half way or are killed. The modules are translated
from `crates/sqlx-testdb/src`; TLC checks them on small instances, and TLAPS
proves the safety properties for every instance, with the refinement of an
abstract store of templates by the harness; some of them under assumptions on
time and on who shares a server (section 6). Three smaller specifications beside it cover what
a test does before that: its attribute, settings, names and files; the
connection probe; and the creation of the bookkeeping tables.

## 1. The system

| Part | State it keeps | Operations | Modelled in |
|---|---|---|---|
| `harness.rs` | one `TestDb` per running test: its name, its master connection, a lazy pool | `run`, `run_with`, `create`, `apply_fixtures`, `drop_database`, `finish` | `run` and the start of `create` in `Setup`; `Harness`, `Session` |
| `template.rs` | none: the catalog is the state | `touch_existing`, `clone_into`, `build`, `build_locked`, `apply_schema`, `drop_orphaned_builds` | `Template` |
| `sweep.rs` | none | `sweep`, `sweep_databases`, `sweep_templates` | `Sweep` |
| `postgres.rs`, `backend.rs` | on the server: databases, advisory locks, tables `runs`, `databases`, `templates` | one statement each | `Postgres`; `bootstrap` in `Bootstrap`; the classes of connect errors are the answers of `Probe` |
| `name.rs` | the run id of the process | names, prefixes, run keys | `Names`; as tuples in `Postgres` |
| `config.rs` | settings, read once per process | ages, refresh periods, validation | `Settings`, `Setup`; refresh periods in `Postgres` |
| `probe.rs` | the process-wide map of failed probes | `connect`, `attempt` | `Probe` |
| `schema.rs` | the loaded schema | `load`, `digest`, `apply` | `SchemaDigest`, `Setup`; `apply` in `Template` |
| `args.rs` | none | `make`, `into_result` | `MakeArgs`, `EndTest` |
| macros crate | none (compile time) | parse, expand | `Attribute` (what compiles, and to which `TestSpec`) |
| `error.rs`, `lib.rs` | none | declarations | no |

The tests of one process share the settings (`Config::discover`) and the memory
of failed probes and nothing else worth speaking of: each `run_with` has its own current-thread runtime and its
own master connection, and from then on tests of one process or of several meet
only on the server. So the unit of interleaving is the
**statement**: between two awaited statements of one test any other test may
run, and within one statement nothing may. Locks are Postgres advisory locks of
the master session; they are the only mutual exclusion there is, and they end
with the session.

What is hard here: two tests that find one template missing; orphans of killed
builders, which are recognised by their name's prefix alone and dropped with
FORCE; a sweep that reads a list and works through it while the tests on it
live on; rows refreshed lazily, at a quarter of the age they protect; the gap
between a row and its database at both ends of a test; the error edges (`?`)
under a held lock; killed processes; a lock's session that is lost while its
owner works on; files that are edited while tests read them. `PROJECT.json`
lists these as hazards, each with its line and the properties that would catch
it going wrong.

## 2. The modules

    Postgres <- Session <- Template <- Sweep <- Harness <- Correctness <- MCHarness
                                                               ^
                  TLAPS:  HarnessProofs <- LockProofs <- BuildProofs
                                        <- StoreProofs <- BooksProofs

    Correctness instantiates Store (the abstract specification)

    Names, SchemaDigest, Settings, Attribute <- Setup <- MCSetup
                                                      <- SetupProofs

    Bootstrap <- BootstrapProofs          Probe <- MCProbe
                                                <- ProbeProofs

Each module extends the one to its left. A test goes through `Setup` (to its
settings and its server), `Probe`, `Setup` again (its files), `Bootstrap`, then
`Harness`. `Probe`, `Bootstrap` and `Harness` share no state but the connection,
so they are checked apart, and in `Harness` whatever fails before the
registration is an error at `start`. What `Harness` takes for granted of the
parts before it is theirs to show: that it starts with all tables is
`ReadyHasTables`; that one value per schema names one template, and one template
holds one schema, is `ClonesMatchSource`; that names are tuples, different when
their kinds or prefixes are, is `NamesTellKinds`, `NamesFit` and
`ListsCatchTheirOwn`.

* **Postgres** - the server. `content[n]` says what database `n` holds:
  `Absent`, `Partial` (created, its schema not applied to the end) or the schema
  whose statements went through. `frozen` are the databases with IS_TEMPLATE and
  without ALLOW_CONNECTIONS, `connected` those with a client other than a
  master. `locks` is pg_locks for the two keys of `Ctx`. The tables are
  `lastSeen` (runs), `rows` and `failedAt` (databases), `lastUsed` (templates);
  `Never` is a missing row or a NULL. One operator per function of `postgres.rs`.
  A *home* is what advisory locks and tables belong to, the database of the URL
  with its bookkeeping schema; pg_database is one for all homes.
* **Session** - one run of a test as a program counter over awaited statements,
  the list a loop works through (`todo`), the name dropped and not yet forgotten
  (`victim`), and what a kill, a panic or a closed connection does. `born` and
  `verdict` are history: no action reads them but the clock's assumption and the
  `drop` that decides between returning and panicking. `lost` are the live tasks
  whose master session the server has ended (`LoseMaster`, for tasks in
  `Severed`): their locks are free at once, every further statement on it fails
  (`Harness!TaskStep`), and what they do on other connections, such as applying
  a schema to a building, goes on. A connection argument that the test dropped
  and nobody closed stays `connected` until the server notices (`ReapClient`).
* **Template**, **Sweep**, **Harness** - the three files, one action per
  statement; the head of each module gives the labels in the code's order. Every
  `?` has its edge: in `...Fails`, where a statement fails for no modelled reason
  (tasks in `Faulty`), or in the action itself, where the server refuses.
* **Correctness** - the properties.
* **Store** - the abstract specification: a set of templates, each added and
  taken as a whole, and for each test no database yet, one, or one that is gone.
  No locks, sessions, buildings, books or clock. The refinement mapping in
  `Correctness` reads both from the catalog: a template is in the store when its
  database is complete, a test's database is still to come while its program
  counter is before the clone.
* **MCHarness** - values for the constants. The `.cfg` files differ only in these.

* **Names** - `name.rs`. A name is the sequence of its segments between
  underscores; of a segment the code asks for its length and its alphabet. The
  names a prefix may lead to are sets, since digests and random characters are
  arbitrary. `Validate` is `Names::validate`, `Listed` the comparison of
  `databases_with_prefix` and `idle_templates`.
* **SchemaDigest** - `schema.rs`: what a loaded schema is, the calls `apply`
  makes for it, and the input of its digest. SHA-256 is one-to-one.
* **Settings** - `config.rs`: a file to a configuration, the discovery of the
  file, the URL. Of settings treated alike one stands for the rest.
* **Attribute** - the macros crate: the fold over the attribute's arguments, and
  which functions compile.
* **Setup** - composes the four: `harness::run` and `TestDb::create` up to the
  registration, a test per thread or process, with the `OnceLock` of each
  process (`memo`), files read one after another, and somebody editing the files
  in between. Its clone is one step, building the template where there is none;
  `Template` has it statement by statement.

* **Bootstrap** - `Postgres::bootstrap`: the look without a lock, and the
  transaction with its lock, second look, DDL and commit. `tables` is what
  everybody sees, `created[t]` what t's open transaction has created, `holder`
  the holder of the lock, which is the transaction's and ends with it. An error
  or a kill leaves the transaction open until the server notices that the
  connection is gone (`Reap`): a dropped transaction only queues its ROLLBACK. The
  tables at the start are any subset. Somebody dropping the tables later is not
  modelled.
* **Probe** - `probe.rs` for the tests of one process with one URL. `probed` is
  the entry of `PROBED`; a caller reads it, makes attempts under a deadline, and
  writes it, and other callers run in between. What the server answers is
  arbitrary, each time: connected, full (`Busy`), `Rejected`, `Refused`,
  `Unreachable`, or nothing. Time is a clock; a sleep or a deadline is acted on
  in the tick it is set for. `ended`, `answers` (what the server
  has answered a caller so far) and `beaten` are history.

How statements are abstracted: names are tuples of what they are made of, so
that they are equal exactly when the code means them to be; a schema is a value,
one per digest; the clock ticks, and ages are counted in ticks. A refresh after
`age / 4` is compared as `4 * (now - stamp) > age`, which is exact. DROP,
CREATE and ALTER DATABASE are atomic; the two ALTERs of `publish_template` are
one simple query and therefore one transaction. `DROP ... WITH (FORCE)` ends the
connections it meets.

## 3. The properties

| Property | Says | Run |
|---|---|---|
| `TypeOK` | the type invariant | build |
| `LocksMatchRegions` | in a critical region exactly with its lock; no path carries a lock into a running test, nor out of a sweep that failed | build, sweep_short |
| `DatabasesComplete` | no template and no test database holds a half-applied schema | build, shared |
| `PublishFindsRoom` | who is about to publish has a complete, idle building and a free name: a template is built once | build |
| `OrphansHaveNoBuilder` | no building on a list of orphans belongs to another task at work | build |
| `InUseNeverForced` | a live task's database is not dropped under its connections by another; a building as long as its builder's session lasts | build, sweep_long, sweep_ends |
| `SecondCloneFindsTemplate` | what a build returned for is there when it is cloned | retire |
| `Tracked` | no test database without a row in `databases` | sweep_short |
| `OnlyFailuresOutlive` | what outlives its test failed with `keep_failed`, was killed, or the drop of the database itself failed: an error in a fixture or an argument, a failing test without `keep_failed`, a lost session leave nothing else behind; a test that passed leaves nothing | sweep_short |
| `KeptUntilOld` | what is reported as kept is there and recorded, and goes only when its failure is old | sweep_short |
| `YoungTestHasDatabase` | a test keeps its database for at least three quarters of `stale_run_after` | sweep_long |
| `ImplementsStore` | refinement: every step is one step of `Store` or none | build |
| `IdleAreUnused` | what is listed as idle has not been cloned, within the idle age, by a test still running | used_retired (violated) |
| `EveryTestEnds` | liveness: every test ends, whoever dies, or loses its session, holding a lock | sweep_ends |
| `ClonesMatchSource` | a test's database holds what the test itself read, whoever built its template from whichever files | setup |
| `OneConfigPerProcess` | the tests of a process run with one configuration though its file is edited between them | setup |
| `AttributeDecides` | a schema an attribute names is the one used; none is silently passed over | setup |
| `LongerSettingLongerAge` | who asks for a longer age never gets a shorter one | setup |
| `NamesFit` | no name that validated settings lead to, the bookkeeping schema included, is longer than the server takes | setup |
| `NamesTellKinds` | test databases, templates and buildings, of all prefixes, have different names | setup |
| `ListsCatchTheirOwn` | lists of orphans and idle templates hold the prefix's own, unless another prefix itself begins like the list | setup |
| `ReadyHasTables` | who goes on to register finds all tables | bootstrap |
| `OneCreator` | no two transactions create the tables at once | bootstrap |
| `TablesAppearTogether` | action property: missing tables become visible in one step | bootstrap |
| `EveryBootstrapEnds` | liveness: also when the holder of the lock is killed | bootstrap |
| `WaitIsBounded` | nobody waits longer than the longer of the two timeouts, whatever the server answers in whatever order | probe |
| `FullIsWaitedFor` | a server that was once full is not given up before the acquire timeout, less a sleep, though it then refuses or is silent | probe |
| `RestartIsWaitedFor` | a server that only refuses or is silent is not given up before the connect timeout, less a sleep | probe |
| `ProbedTogether` | action property: nobody begins to probe once a test of the process has reported the server dead | probe |
| `EveryProbeEnds` | liveness: who began to probe gets an answer, also from a silent server | probe |

Each property of each passing run has a mutant in `PROJECT.json`: a plausible bug
of the code, written next to the definition it replaces (the comments that begin
with *Mutant*), under which TLC finds the property violated.

## 4. The runs

The harness runs extend `MCHarness`. Deadlock is checked everywhere; tasks that all ended
stutter by `Terminating`.

| Run | Instance | Bounds and why they suffice |
|---|---|---|
| build | 3 tasks of one run, 2 schemas, one prefix; two may be killed, two may fail anywhere, one may lose its session | the clock stands still: nothing here reads an age. Three tasks give a builder, one waiting, and one that sweeps or clears orphans; two schemas give one lock with two templates; a builder that lost its lock meets one that has it |
| sweep_short | a test of an old run (row from time 0), one of a new run; stale 4, kept 2; a kept database may be inspected; the second may be killed and fail, the first lose its session. So there are errors of every kind after the clone, and a sweep whose drop of a leftover fails | tests last at most 3 < 4 ticks and the clock goes to 6, past every age |
| sweep_long | two tests of ages 4 and 3 on one set of books, nobody killed, tests last up to 6 ticks, clock to 8 | long enough to be stale from the sweep's view while running |
| retire | two runs, two schemas, one old template; idle age 2, setup at most 2 ticks | the clock passes the age twice; somebody may hold a connection on the template |
| shared | three homes on one prefix, two schemas, an old template of a home nobody is in any more | two homes never exclude each other; every catalog collision happens |
| sweep_ends | two runs, all ages 0 (which `config.rs` accepts), setup and test at most 1 tick, clock to 1, one that may be killed or lose its session, one failing, fairness | with ages of 0 one tick makes everything of the other run stale, whatever it is doing, so that sweeps, retirements and builds meet in one liveness check |
| bootstrap | 3 tasks, the 3 tables, two may be killed, two may fail, fairness | all 8 sets of tables to start with; three tasks give one that holds the lock, one waiting, and one that looks in between |
| probe | 2 callers with timeouts 2 and 4, acquire timeouts 4 and 2, sleep 1, starts up to 1, clock to 5, fairness | a caller more patient with a full server than with a dead one, and one less; the clock ends after the last start plus the longest timeout, so no wait is cut off |
| setup | 2 tests, together or apart; three and four attributes; 9 files for two directories, one of them the other's parent, or none; the environment with or without a file, and with a URL, none, or what is no Unicode; any one edit; identifiers of 39 bytes, ages of at most 15 | a prefix that is the other one's with its building segment, its digest segment, one that fits only without a test database's suffix, one that begins with a digit; a bookkeeping schema that is too long; a file whose age overflows (4 times 4); a conflict; a zero timeout; a text split in two or not; a directory of migrations that is a file; up migrations with and without a down one. With one edit each test can read before or after it, and one between two reads of the other |
| kept_swept | sweep_long's instance | violation, see 5 |
| shared_forced | shared's instance | violation, see 5 |
| used_retired | two runs, idle age 2, one template of a schema that is never the first of its run | violation, see 5 |

The bounds are constants of `Harness`: `MaxTime` caps the clock. `SetupLimit` and
`TestLimit` are assumptions about how long a task takes from its registration to
the end of its clone, and to its verdict; the clock does not tick when a task
would overrun them. They matter: with `SetupLimit = 4` and `stale_run_after = 4`
`Tracked` fails, because a sweep may drop (IF EXISTS) and forget a name whose
clone is still pending, and with `SetupLimit = 3` and an idle age of 2
`SecondCloneFindsTemplate` fails, because a template can grow idle between its
touch and the clone. With the defaults (an hour, a day) neither happens unless a
schema takes three quarters of an hour to apply.

**Fairness.** `FairSpec` has weak fairness of every task's next statement
(tokio polls it, the server answers) and of the server noticing connections that
are gone. Not of the clock, of failures, of kills, of a test's own traffic
(`UseDatabase`), and weak fairness of `LockTemplate` is enough because each
task takes the lock once. A task that lost its session moves too: its next
statement fails. A test that never returns is excluded: `EndTest` is
fair, as the harness has no timeout of its own.

In `Bootstrap` fairness is the same: statements are answered and dead sessions
noticed. Weak fairness of `LockBootstrap` suffices, since each task takes the
lock once. In `Probe` only the clock and the timers (`TimedOut`, `Wake`, the
write of the memory that follows) are fair; the server need never answer.

## 5. What the runs found

* **kept_swept.** A test that outlasts `stale_run_after` and then fails prints
  `kept its test database` (harness.rs:272), but another run's sweep, which listed
  it as stale, drops it as soon as the pool is closed, between the list
  (sweep.rs:31) and the drop (sweep.rs:36), before or after `mark_failed`. The
  drop looks neither at `failed_at` nor at `last_seen_at` again.
* **shared_forced.** "a database in use is never forced" (tests/lifecycle.rs:221).
  Two projects on one server with the same prefix (the default) but different
  databases in their URLs, or different bookkeeping schemas, share building names
  and do not share a lock: one's `drop_orphaned_builds` forces the other's live
  building. `shared` shows that no incomplete database results from it.
* **used_retired.** `idle_templates` is documented as templates "unused for
  `idle_after`" (backend.rs:215), but a clone (template.rs:47) is no use in its
  sense: `used_at` is written by builds and by the first test of a run, for its
  own schema. A template that is cloned all the time by tests that come second
  is retired and built again, once per idle age. The harm is a rebuild:
  `SecondCloneFindsTemplate` holds, and databases already cloned do not depend
  on their template. A test of the repository (tests/lifecycle.rs:285-312) pins
  that later tests of a run do not touch: what disagrees with the code is the
  word "unused".

## 6. The proofs

For every number of tasks, homes, prefixes, runs and schemas, every setting and
every bound, assuming only `SettingsAssumption`, `SessionAssumption`,
`TemplateAssumption` and `HarnessAssumption` (the constants' types; `None` is no
task; `Absent` and `Partial` are no schemas), with killed tasks, lost sessions
and failing statements:

| Theorem | Statement |
|---|---|
| `HarnessProofs!TypeCorrect` | `Spec => []TypeOK` |
| `LockProofs!LocksCorrect` | `Spec => []LocksMatchRegions` |
| `LockProofs!RegionsExclusive` | no two tasks in the regions of one key |
| `StoreProofs!ContentCorrect` | `Spec => []DatabasesComplete` |
| `BuildProofs!BuiltOnce` | `OneHomePerPrefix` implies `Spec => []PublishFindsRoom` |
| `BuildProofs!OrphansAreOrphans` | `OneHomePerPrefix` implies `Spec => []OrphansHaveNoBuilder` |
| `BuildProofs!InUseIsNeverForced` | `OneHomePerPrefix` implies `Spec => InUseNeverForced` |
| `StoreProofs!StoreImplemented` | `Spec => ImplementsStore` |
| `BuildProofs!SecondCloneHasTemplate` | `OneHomePerPrefix` and `QuickBuilds` imply `Spec => []SecondCloneFindsTemplate` |
| `BooksProofs!OnlyFailuresStay` | `Spec => []OnlyFailuresOutlive` |
| `BooksProofs!YoungKeepDatabases` | `Spec => []YoungTestHasDatabase` |
| `BooksProofs!AllTracked` | `QuickSetup` implies `Spec => []Tracked` |
| `BooksProofs!KeptStay` | `QuickTests` implies `Spec => KeptUntilOld` |
| `SetupProofs!OneConfig` | `Spec => []OneConfigPerProcess` |
| `SetupProofs!LongerAge` | `Spec => []LongerSettingLongerAge` |
| `SetupProofs!KindsAreTold` | `Spec => []NamesTellKinds` |
| `SetupProofs!ListsAreOwn` | `Spec => []ListsCatchTheirOwn` |
| `SetupProofs!AllNamesFit` | `Spec => []NamesFit` |
| `SetupProofs!AttributeWins` | `Spec => []AttributeDecides` |
| `SetupProofs!ClonesMatch` | `Spec => []ClonesMatchSource` |
| `BootstrapProofs!ReadyCorrect` | `Spec => []ReadyHasTables` |
| `BootstrapProofs!CreatorsExclusive` | `Spec => []OneCreator` |
| `BootstrapProofs!AppearTogether` | `Spec => TablesAppearTogether` |
| `ProbeProofs!WaitBounded` | `Spec => []WaitIsBounded` |
| `ProbeProofs!FullWaitedFor` | `Spec => []FullIsWaitedFor` |
| `ProbeProofs!RestartWaitedFor` | `Spec => []RestartIsWaitedFor` |
| `ProbeProofs!DeadIsNotProbed` | `Spec => ProbedTogether` |

`SetupProofs` assumes `NamesAssumption`, `DurationAssumption`,
`SetupAssumption`, `SourceAssumption` (a script holds text and a directory
migrations, if they are there at all) and `AttributeAssumption` (a migrator or a
configuration that the attribute or the settings name in the program exists, or
it would not compile); the last two groups only `BootstrapAssumption`,
`ProbeAssumption` and `NoneAssumption`.

A task that has lost its session is in no region, so the statements about
builders speak of tasks outside `lost`; `DatabasesComplete` and the refinement
speak of all.

`LocksMatchRegions` is inductive with `TypeOK`: steps are sorted into those that
move a task within a region, take or give a region's lock, or end a session.
Mutual exclusion follows, as a key has one holder. `DatabasesComplete` is not
inductive: it needs that what a builder is about to publish is complete or was
dropped (`ContentInv`); then every statement but four only shrinks the catalog.
Both hold with any number of homes on a prefix. `PublishFindsRoom` needs more:
that a builder past its second look still has no template, that its building
exists, and that lists of orphans hold buildings of the lister's own prefix only
(`BuildInv`, one conjunct per stage). The proof splits a step into what it does
to its own task and that it does not disturb another's stage; here mutual
exclusion is used, hence the assumption of one home per prefix, without which
`shared_forced` shows the statement false. `InUseNeverForced` follows: a
building somebody is connected to is in its `apply` stage, which others leave
alone; a test database can be in use only after its clone, lists of orphans hold
buildings only, the sweep's drop refuses what is connected, and so only the
test's own `DropDatabase` takes it.

The refinement adds one invariant to `ContentInv`: a test that has not come to
its clone has no database (`NotYet`). Then every action has one effect on the
catalog - nothing a store can see, one template published, one dropped, one
clone of a test's own, one database dropped - and each effect is a step of
`Store` or a stutter; that what is published, and what a clone copies, is
complete is `DatabasesComplete` after the step. `OnlyFailuresOutlive` uses the
same effects: every task's stage after the clone accounts for its database
(`Accounts`: none at `forget` and `done`, a kept failure at `mark` and `kept`,
none or a kept failure at `panicked`), and another task's step can only drop it.
A failing drop has an end label of its own, `undropped`, so that the property
excuses that statement and no other error.

**The clock and the books.** Four theorems are about time. `Timely` (in
`HarnessProofs`) turns the guard of `Tick` into a fact about states: a task in
its setup was born at most `SetupLimit` ago, one that is not over at most
`TestLimit`. On it rest two invariants of one shape.

`ClockInv` (`BooksProofs`) follows a test's database through another run's sweep.
From a test's registration on its run's row is at most a quarter of
`stale_run_after` older than the test (`RowFresh`), so that a sweep which finds
the row stale is looking at a test that is at least three quarters of an age old
(`Old`). A name can therefore be on a sweep's list only when its test is over, or
old, or of a row that has its failure on record; and what holds of a listed name
still holds when the sweep gets to it, since being old, over and recorded last.
`InHand(u)` is what the loop of u has taken or is about to take (`todo` and
`victim`): the two steps of a removal, drop and forget, are the gap in which the
row or the database is missing. `YoungTestHasDatabase` needs no assumption, as
its own premiss is the age. `Tracked` does: a sweep that listed a test before its
clone drops nothing (IF EXISTS), and forgets the row after the clone. It holds
when no test is old before it has cloned, `QuickSetup`. `KeptUntilOld` says more,
to the end of the test, and needs `QuickTests`.

`SecondCloneFindsTemplate` has two halves. While a task builds, the lock keeps
others from its template: whoever *claims* a template, in the loop that retires,
holds the key (`UnclaimedTemplateStays`). From the touch on, which is before the
unlock, it is the date: `lastUsed` is at most a quarter of the idle age older
than the task's registration (`Dated`), so no `idle_templates` lists it before
the clone if builds are quick (`DatedIsNotIdle`). The proof joins the halves at
the unlock: a template that is dated and unclaimed while the lock is held stays
both afterwards.

The assumptions are named in `Correctness`. For any two tasks of a home a quarter
of one's age (the period in which its row is not written again), plus what a
setup or a test takes at most, is no more than the other's age. The code does
not enforce them: they are about how long schemas and tests run and how far apart the
projects on one server set their ages, and with one file for all and the default
ages they leave tests 45 minutes and builds 18 hours. `sweep_short` satisfies
`QuickSetup` and `QuickTests`, and `retire` `QuickBuilds`; `sweep_long` satisfies
none, so there `YoungTestHasDatabase` says something; `kept_swept` shows that
`KeptUntilOld` is false without `QuickTests`, and section 4 how the other two
fail.

In `Setup` the invariant is that a process's memo is written once and holds what
some file says, and that each test's settings are the memo's with the schema
overridden (`SetupInv`). Monotone ages follow from the one formula all
remembered settings come from. For names the proof counts segments from the
end: a template ends in `template` and sixteen hexadecimal digits, a building in
`building` and six characters, a test database in eight hexadecimal digits and
six characters; two names of one kind give back one prefix.

Three properties of `Setup` rest on what a fold over a sequence of any length
comes to: the bytes of a name, the arguments of an attribute, the input of a
digest. The provers cannot use the library's induction theorems, but that a
nonempty set of numbers has a least one they can (`Least`), and from it follows
that a set with 0 and with the successor of each of its numbers holds all
(`Climb`). `FoldRuns` uses it to take the community modules' `FoldLeft` apart
into one step per element, and `JoinedExists` does so for `FlattenSeq`.

* `AllNamesFit`: a segment more is an underscore and its bytes more
  (`BytesAppend`), and the three kinds of names are the prefix and two segments
  more, of known lengths (`LongestIsLongest`).
* `AttributeWins`: after i arguments without an error, whatever schema one of
  them named is the one the fold has (`ArgsSoFar`), because a second one is an
  error; and the settings of a test have the schema of its arguments
  (`AttributeInv`).
* `ClonesMatch`: what the digest is given for one text or migration begins with
  its length, so that none begins another (`BlocksTell`), and what is joined from
  such pieces comes apart in one way (`TakenApart`); so equal digests mean equal
  schemas (`DigestTells`). The invariant `DigestInv` says that
  each template was built from a schema with its digest, and that what a test
  has read is a schema of the kind it was told to read. SHA-256 is taken to be
  one-to-one in the model.

In `Bootstrap` the invariant says what each stage of the transaction knows: from
its lock on it is the holder, at `create` a table is missing, at `commit` what
is there and what it created make up all tables. In `Probe`, a caller's deadline
lies within its start plus the longer timeout, its sleep ends before the
deadline, the clock passes neither while it waits, and a failure once reported
is remembered (by this or another test's entry), so `Start` is not enabled. Of
patience it says that there is no result before the attempts end, and that the
deadline is the first one until the server was full and the acquire timeout's
from then on, whatever it answers afterwards (`Patient`).

Model-checked only: `EveryTestEnds`, `EveryBootstrapEnds` and `EveryProbeEnds`,
since TLAPS does not do liveness, and the three violations of section 5. Every
other property of section 3 is proved; `IdleAreUnused` is false.

## 7. Plan

In order of what is left:

1. The assumptions `OneHomePerPrefix`, `QuickSetup`, `QuickTests` and
   `QuickBuilds` weakened to the pairs of tasks each proof uses them for.
2. A larger `sweep_short` with a killed process whose second run sweeps twice.

## 8. Not modelled

* Tokens, spans and syntax errors of the macros crate; messages; the redaction
  of URLs; quoting of identifiers (plain identifiers need none): no property is
  about them. Nor which of two errors a test reports when the clean-up after the
  first one fails too; in `finish` and in `build_locked` it is not the same one.
* What SQL does: a schema applies to the end or it does not. What sqlx writes
  for a migration beyond its statements, such as its description, is not in the
  digest and not in the model.
* TOML: a file that cannot be read or parsed is one that is not there when it is
  named, and an error is an error whichever line it comes from.
* Tests that never give a pool connection back: `pool.close()` would wait for
  ever; fairness excludes them. Timeouts beyond what an `Instant` can hold.
* Collisions of six random characters: `database` is documented never to collide
  (name.rs:100); each task has a name of its own.
* TLS, timeouts and limits inside sqlx and Postgres (external).
* `error.rs`, `lib.rs`: declarations.
