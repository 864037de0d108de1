----------------------------- MODULE SetupProofs -----------------------------
(***************************************************************************)
(* The settings and the names of any number of tests, processes, files and *)
(* edits.                                                                  *)
(***************************************************************************)
EXTENDS Setup, SequenceTheorems, WellFoundedInduction, TLAPS

(* What a settings file says of an age is what the settings have.           *)
FromItsFile(settings) ==
  settings.source # Unset =>
    /\ settings.source.stale_run_mins \in Nat \cup {Unset}
    /\ settings.stale_run_after =
         Duration(settings.source.stale_run_mins, SecsPerMin, Default.stale_run_after)

GoodMemo(p) ==
  memo[p].read /\ memo[p].is # Unset => FromItsFile(memo[p].is)

(* A test that goes by the settings of its process has them from the memo,  *)
(* and a test that got as far as the server has valid names.                *)
Settled(t) ==
  /\ FromDiscovery(t) =>
       /\ memo[process[t]].read /\ memo[process[t]].is # Unset
       /\ config[t] = Overridden(t, memo[process[t]].is)
  /\ Named(t) => Valid(t)

Shapes ==
  /\ process \in [Tests -> Processes]
  /\ disk \in [Dirs -> Files \cup {Unset}]
  /\ DOMAIN memo = Processes /\ memo = [p \in Processes |-> memo[p]]
  /\ DOMAIN config = Tests /\ config = [t \in Tests |-> config[t]]
  /\ DOMAIN pc = Tests /\ pc = [t \in Tests |-> pc[t]]

SetupInv ==
  /\ Shapes
  /\ \A p \in Processes : GoodMemo(p)
  /\ \A t \in Tests : Settled(t)

-----------------------------------------------------------------------------
LEMMA InitInv == Init => SetupInv
<1> SUFFICES ASSUME Init PROVE SetupInv
  OBVIOUS
<1>1. Shapes
  BY SetupAssumption DEF Init, Shapes
<1>2. \A p \in Processes : GoodMemo(p)
  BY DEF Init, GoodMemo, Empties
<1>3. \A t \in Tests : Settled(t)
  BY DEF Init, Settled, FromDiscovery, Named
<1> QED
  BY <1>1, <1>2, <1>3 DEF SetupInv

(* Whatever discover returns, it has from a file of the disk or from the    *)
(* defaults.                                                                *)
LEMMA FileRead ==
  ASSUME NEW root, NEW file \in Files, FromFile(root, file) # Unset
  PROVE  FromItsFile(FromFile(root, file))
  BY SetupAssumption DEF FromFile, FromItsFile

LEMMA DiscoveredGood ==
  ASSUME NEW explicit, NEW ancestors, disk \in [Dirs -> Files \cup {Unset}],
         Discovered(explicit, ancestors, disk) # Unset
  PROVE  FromItsFile(Discovered(explicit, ancestors, disk))
<1> DEFINE root == Or(explicit, Nearest(ancestors, disk))
<1>1. CASE root = Unset
  <2>1. Discovered(explicit, ancestors, disk) =
          [Default EXCEPT !.project_root = ancestors[1]]
    BY <1>1 DEF Discovered
  <2>2. [Default EXCEPT !.project_root = ancestors[1]].source = Unset
    BY SetupAssumption
  <2> QED
    BY <2>1, <2>2 DEF FromItsFile
<1>2. CASE root # Unset /\ root \in DOMAIN disk /\ disk[root] # Unset
  <2>1. Discovered(explicit, ancestors, disk) = FromFile(root, disk[root])
    BY <1>2 DEF Discovered
  <2>2. disk[root] \in Files
    BY <1>2
  <2> QED
    BY <2>1, <2>2, FileRead
<1>3. CASE root # Unset /\ ~(root \in DOMAIN disk /\ disk[root] # Unset)
  BY <1>3 DEF Discovered
<1> QED
  BY <1>1, <1>2, <1>3

-----------------------------------------------------------------------------
(* What discover has left in the memo stays, and what it leaves is good.    *)
LEMMA RecallGood ==
  ASSUME SetupInv, NEW t \in Tests
  PROVE  /\ Recall(t).read
         /\ Recall(t).is # Unset => FromItsFile(Recall(t).is)
         /\ memo[process[t]].read => Recall(t) = memo[process[t]]
<1>1. process[t] \in Processes
  BY DEF SetupInv, Shapes
<1>2. CASE memo[process[t]].read
  BY <1>1, <1>2 DEF Recall, SetupInv, GoodMemo
<1>3. CASE ~memo[process[t]].read
  <2> DEFINE found == Discovered(env.explicit, Ancestors[process[t]], disk)
  <2>1. found # Unset => FromItsFile(found)
    BY DiscoveredGood DEF SetupInv, Shapes
  <2>2. Recall(t) = [read |-> TRUE, is |-> found]
    BY <1>3 DEF Recall
  <2> HIDE DEF found
  <2> QED
    BY <1>3, <2>1, <2>2
<1> QED
  BY <1>2, <1>3

(* A step that leaves the settings alone keeps the invariant, so long as    *)
(* nobody is let through to the server by it.                               *)
LEMMA OthersKeep ==
  ASSUME SetupInv, UNCHANGED <<process, function, memo, config>>,
         disk' \in [Dirs -> Files \cup {Unset}],
         DOMAIN pc' = Tests /\ pc' = [t \in Tests |-> pc'[t]],
         \A t \in Tests : Named(t)' => Valid(t)
  PROVE  SetupInv'
<1>1. Shapes'
  BY DEF SetupInv, Shapes
<1>2. ASSUME NEW p \in Processes PROVE GoodMemo(p)'
  BY DEF SetupInv, GoodMemo, FromItsFile
<1>3. ASSUME NEW t \in Tests PROVE Settled(t)'
  <2>1. Settled(t)
    BY DEF SetupInv
  <2>2. Args(t)' = Args(t)
    BY DEF Args
  <2>3. FromDiscovery(t)' <=> FromDiscovery(t)
    BY <2>2 DEF FromDiscovery
  <2>5. config'[t] = config[t] /\ memo' = memo /\ process' = process
    OBVIOUS
  <2>6. Named(t)' => Valid(t)'
    BY <2>5 DEF Valid
  <2>7. Overridden(t, memo[process[t]].is)' = Overridden(t, memo[process[t]].is)
    BY <2>2 DEF Overridden
  <2> QED
    BY <2>1, <2>3, <2>5, <2>6, <2>7 DEF Settled
<1> QED
  BY <1>1, <1>2, <1>3 DEF SetupInv

(* A memo that was read is never written again, and a new one is good.      *)
LEMMA MemoKeeps ==
  ASSUME SetupInv, NEW t \in Tests,
         memo' = [memo EXCEPT ![process[t]] = Recall(t)]
  PROVE  /\ DOMAIN memo' = Processes /\ memo' = [p \in Processes |-> memo'[p]]
         /\ \A p \in Processes : GoodMemo(p)'
         /\ \A p \in Processes : memo[p].read => memo'[p] = memo[p]
         /\ memo'[process[t]] = Recall(t)
<1>1. process[t] \in Processes /\ DOMAIN memo = Processes
  BY DEF SetupInv, Shapes
<1>2. memo' = [p \in Processes |-> IF p = process[t] THEN Recall(t) ELSE memo[p]]
  BY <1>1
<1>3. \A p \in Processes : memo'[p] = IF p = process[t] THEN Recall(t) ELSE memo[p]
  BY <1>2
<1>4. ASSUME NEW p \in Processes PROVE GoodMemo(p)'
  <2>1. GoodMemo(p)
    BY DEF SetupInv
  <2> QED
    BY <1>3, <2>1, RecallGood DEF GoodMemo, FromItsFile
<1> QED
  BY <1>1, <1>2, <1>3, <1>4, RecallGood

(* run: the test takes the settings of its function or of its process; what *)
(* the others have taken stays.                                             *)
LEMMA RunKeeps ==
  ASSUME SetupInv, NEW t \in Tests, Run(t)
  PROVE  SetupInv'
<1> DEFINE Own == /\ Args(t).config # NotGiven /\ UNCHANGED memo
                  /\ config' = [config EXCEPT ![t] = OwnConfig[Args(t).config]]
           Shared == /\ Args(t).config = NotGiven
                     /\ memo' = [memo EXCEPT ![process[t]] = Recall(t)]
                     /\ Recall(t).is # Unset
                     /\ config' = [config EXCEPT ![t] = Overridden(t, Recall(t).is)]
           Broken == /\ memo' = [memo EXCEPT ![process[t]] = Recall(t)]
                     /\ UNCHANGED config
<1>1. /\ UNCHANGED <<process, function, env, disk>>
      /\ Own \/ Shared \/ Broken
      /\ Goto(t, "url") \/ Goto(t, "panicked")
  BY DEF Run, Panic, world
<1>2. /\ DOMAIN memo' = Processes /\ memo' = [p \in Processes |-> memo'[p]]
      /\ \A p \in Processes : GoodMemo(p)'
      /\ \A p \in Processes : memo[p].read => memo'[p] = memo[p]
  <2>1. CASE UNCHANGED memo
    BY <2>1 DEF SetupInv, Shapes, GoodMemo, FromItsFile
  <2> QED
    BY <1>1, <2>1, MemoKeeps
<1>3. Shapes'
  BY <1>1, <1>2 DEF SetupInv, Shapes, Goto
<1>4. \A u \in Tests \ {t} : config'[u] = config[u] /\ pc'[u] = pc[u]
  BY <1>1 DEF SetupInv, Shapes, Goto
<1>5. \A u \in Tests : Args(u)' = Args(u)
  BY <1>1 DEF Args
<1>7. pc'[t] \in {"url", "panicked"}
  BY <1>1 DEF SetupInv, Shapes, Goto
<1>8. ASSUME NEW u \in Tests \ {t} PROVE Settled(u)'
  <2>1. Settled(u) /\ process[u] \in Processes
    BY DEF SetupInv, Shapes
  <2>2. FromDiscovery(u)' <=> FromDiscovery(u)
    BY <1>4, <1>5 DEF FromDiscovery
  <2>3. Named(u)' => Valid(u)'
    BY <1>4, <2>1 DEF Settled, Named, Valid
  <2>4. ASSUME FromDiscovery(u)
        PROVE  /\ memo'[process[u]] = memo[process[u]]
               /\ Overridden(u, memo[process[u]].is)' = Overridden(u, memo[process[u]].is)
    <3>1. memo'[process[u]] = memo[process[u]]
      BY <1>2, <2>1, <2>4 DEF Settled
    <3> QED
      BY <1>1, <1>5, <3>1 DEF Overridden
  <2> QED
    BY <1>1, <1>4, <2>1, <2>2, <2>3, <2>4 DEF Settled
<1>9. Settled(t)'
  <2>1. ~Named(t)'
    BY <1>7 DEF Named
  <2>2. Settled(t) /\ process[t] \in Processes /\ t \in DOMAIN config
    BY DEF SetupInv, Shapes
  <2>3. CASE Own
    BY <1>5, <2>1, <2>3 DEF Settled, FromDiscovery
  <2>4. CASE Shared
    <3>1. memo'[process[t]] = Recall(t) /\ Recall(t).read /\ process' = process
      BY <1>1, <2>4, MemoKeeps, RecallGood
    <3>2. config'[t] = Overridden(t, Recall(t).is)
      BY <2>2, <2>4
    <3>3. Overridden(t, memo[process[t]].is)' = Overridden(t, Recall(t).is)
      BY <1>5, <3>1 DEF Overridden
    <3> QED
      BY <2>1, <2>4, <3>1, <3>2, <3>3 DEF Settled
  <2>5. CASE Broken
    <3>1. FromDiscovery(t)' => memo'[process[t]] = memo[process[t]]
      BY <1>2, <1>5, <2>2, <2>5 DEF Settled, FromDiscovery
    <3> QED
      BY <1>1, <1>5, <2>1, <2>2, <2>5, <3>1 DEF Settled, FromDiscovery, Overridden
  <2> QED
    BY <1>1, <2>3, <2>4, <2>5
<1> QED
  BY <1>2, <1>3, <1>8, <1>9 DEF SetupInv

-----------------------------------------------------------------------------
(* From there on the settings stay, and only a valid prefix passes.         *)
LEMMA TestKeeps ==
  ASSUME SetupInv, NEW t \in Tests,
         Server(t) \/ Load(t) \/ ReadFixture(t) \/ Clone(t)
  PROVE  SetupInv'
<1>1. UNCHANGED <<process, function, memo, config, disk>>
  BY DEF Server, Load, Read, ReadFixture, Clone, Panic, world
<1>2. \/ UNCHANGED pc
      \/ pc' = [pc EXCEPT ![t] = "panicked"]
      \/ pc' = [pc EXCEPT ![t] = "load"] /\ Valid(t)
      \/ pc' = [pc EXCEPT ![t] = "cloned"] /\ pc[t] = "load"
  <2>1. CASE Server(t)
    BY <2>1 DEF Server, Panic, Goto
  <2>2. CASE Load(t)
    BY <2>2 DEF Load, Read, Panic, Goto
  <2>3. CASE ReadFixture(t)
    BY <2>3 DEF ReadFixture, Panic, Goto
  <2>4. CASE Clone(t)
    BY <2>4 DEF Clone, Goto
  <2> QED
    BY <2>1, <2>2, <2>3, <2>4
<1>3. DOMAIN pc' = Tests /\ pc' = [u \in Tests |-> pc'[u]]
  BY <1>2 DEF SetupInv, Shapes
<1>4. ASSUME NEW u \in Tests PROVE Named(u)' => Valid(u)
  <2>1. Settled(u) /\ DOMAIN pc = Tests
    BY DEF SetupInv, Shapes
  <2> QED
    BY <1>2, <2>1 DEF Settled, Named
<1>5. disk' \in [Dirs -> Files \cup {Unset}]
  BY <1>1 DEF SetupInv, Shapes
<1> QED
  BY <1>1, <1>3, <1>4, <1>5, OthersKeep

LEMMA EditKeeps ==
  ASSUME SetupInv, EditSource \/ EditSettings \/ UNCHANGED vars
  PROVE  SetupInv'
<1>1. UNCHANGED <<process, function, memo, config, pc>>
  BY DEF EditSource, EditSettings, vars, world
<1>2. disk' \in [Dirs -> Files \cup {Unset}]
  BY DEF EditSource, EditSettings, vars, world, SetupInv, Shapes
<1>3. DOMAIN pc' = Tests /\ pc' = [t \in Tests |-> pc'[t]]
  BY <1>1 DEF SetupInv, Shapes
<1>4. \A t \in Tests : Named(t)' => Valid(t)
  BY <1>1 DEF Named, SetupInv, Settled
<1> QED
  BY <1>1, <1>2, <1>3, <1>4, OthersKeep

LEMMA SetupInvariant == Spec => []SetupInv
<1>1. SetupInv /\ [Next]_vars => SetupInv'
  BY RunKeeps, TestKeeps, EditKeeps DEF Next, Terminating
<1> QED
  BY InitInv, <1>1, PTL DEF Spec

-----------------------------------------------------------------------------
(* Tests of one process go by the same settings, for any number of tests,   *)
(* processes and edits (Config::discover).                                  *)
THEOREM OneConfig == Spec => []OneConfigPerProcess
<1>1. SetupInv => OneConfigPerProcess
  <2> SUFFICES ASSUME SetupInv, NEW t \in Tests, NEW u \in Tests,
                      process[t] = process[u], FromDiscovery(t), FromDiscovery(u)
               PROVE  [config[t] EXCEPT !.schema = Unset] =
                      [config[u] EXCEPT !.schema = Unset]
    BY DEF OneConfigPerProcess
  <2> DEFINE m == memo[process[t]].is
  <2>1. config[t] = Overridden(t, m) /\ config[u] = Overridden(u, m)
    BY DEF SetupInv, Settled
  <2>2. \A x : [[m EXCEPT !.schema = x] EXCEPT !.schema = Unset] =
                [m EXCEPT !.schema = Unset]
    OBVIOUS
  <2>3. \/ config[t] = m \/ config[t] = [m EXCEPT !.schema = Args(t).schema]
    BY <2>1 DEF Overridden
  <2>4. \/ config[u] = m \/ config[u] = [m EXCEPT !.schema = Args(u).schema]
    BY <2>1 DEF Overridden
  <2> HIDE DEF m
  <2> QED
    BY <2>2, <2>3, <2>4
<1> QED
  BY SetupInvariant, <1>1, PTL

(* A longer amount never makes a shorter time, whatever the unit.           *)
LEMMA LongerTimes ==
  ASSUME NEW x \in Nat, NEW y \in Nat, x <= y, NEW unit \in Nat
  PROVE  x * unit <= y * unit
<1>1. PICK d \in Nat : y = x + d
  <2>1. y - x \in Nat /\ y = x + (y - x)
    OBVIOUS
  <2> QED
    BY <2>1
<1>2. y * unit = x * unit + d * unit
  BY <1>1
<1>3. d * unit \in Nat /\ x * unit \in Nat
  OBVIOUS
<1> QED
  BY <1>2, <1>3

(* duration saturates: for every pair of settings, every unit and every     *)
(* width of the seconds, the longer setting makes the longer age.           *)
THEOREM LongerAge == Spec => []LongerSettingLongerAge
<1>1. SetupInv => LongerSettingLongerAge
  <2> SUFFICES ASSUME SetupInv, NEW t \in Tests, NEW u \in Tests,
                      FromDiscovery(t), FromDiscovery(u),
                      AsksFor(t) # Unset, AsksFor(u) # Unset,
                      AsksFor(t) <= AsksFor(u)
               PROVE  config[t].stale_run_after <= config[u].stale_run_after
    BY DEF LongerSettingLongerAge
  <2>1. ASSUME NEW v \in Tests, FromDiscovery(v), AsksFor(v) # Unset
        PROVE  /\ AsksFor(v) \in Nat
               /\ config[v].stale_run_after =
                    Duration(AsksFor(v), SecsPerMin, Default.stale_run_after)
    <3> DEFINE m == memo[process[v]].is
    <3>1. FromItsFile(m) /\ config[v] = Overridden(v, m)
      BY <2>1 DEF SetupInv, Shapes, GoodMemo, Settled
    <3>2. config[v].source = m.source /\ config[v].stale_run_after = m.stale_run_after
      BY <3>1 DEF Overridden
    <3> HIDE DEF m
    <3> QED
      BY <2>1, <3>1, <3>2 DEF FromItsFile, AsksFor
  <2>2. AsksFor(t) * SecsPerMin <= AsksFor(u) * SecsPerMin
    BY <2>1, LongerTimes, DurationAssumption
  <2>3. AsksFor(t) * SecsPerMin \in Nat /\ AsksFor(u) * SecsPerMin \in Nat
    BY <2>1, DurationAssumption
  <2> DEFINE x == AsksFor(t) * SecsPerMin
             y == AsksFor(u) * SecsPerMin
  <2>4. /\ config[t].stale_run_after = IF x > MaxSecs THEN MaxSecs ELSE x
        /\ config[u].stale_run_after = IF y > MaxSecs THEN MaxSecs ELSE y
    BY <2>1 DEF Duration
  <2> HIDE DEF x, y
  <2> QED
    BY <2>2, <2>3, <2>4, DurationAssumption DEF x, y
<1> QED
  BY SetupInvariant, <1>1, PTL

-----------------------------------------------------------------------------
(* Names, segment by segment.                                               *)

Begins(n, p) == \A i \in 1 .. Len(p) : n[i] = p[i]

LEMMA DatabaseShape ==
  ASSUME NEW p \in Seq(Segments), NEW n \in DatabaseNames(p)
  PROVE  /\ n \in Seq(Segments) /\ Len(n) = Len(p) + 3 /\ Begins(n, p)
         /\ n[Len(p) + 1] \in Digests(10)
         /\ n[Len(p) + 2] \in Digests(8)
         /\ n[Len(p) + 3] \in Randoms
<1>1. PICK test \in Digests(10), run \in Digests(8), random \in Randoms :
        n = p \o <<test, run, random>>
  <2>1. PICK parts \in Digests(10) \X Digests(8) \X Randoms : n = p \o parts
    BY DEF DatabaseNames, RunKeys
  <2>2. parts = <<parts[1], parts[2], parts[3]>>
    BY <2>1
  <2> QED
    BY <2>1, <2>2
<1>2. <<test, run, random>> \in Seq(Segments)
  BY NamesAssumption DEF Digests, Randoms
<1> QED
  BY <1>1, <1>2 DEF Begins

LEMMA TemplateShape ==
  ASSUME NEW p \in Seq(Segments), NEW n \in TemplateNames(p)
  PROVE  /\ n \in Seq(Segments) /\ Len(n) = Len(p) + 2 /\ Begins(n, p)
         /\ n[Len(p) + 1] = Template
         /\ n[Len(p) + 2] \in Digests(16)
<1>1. PICK d \in Digests(16) : n = p \o <<Template, d>>
  BY DEF TemplateNames
<1>2. <<Template, d>> \in Seq(Segments)
  BY NamesAssumption DEF Digests
<1> QED
  BY <1>1, <1>2 DEF Begins

LEMMA BuildingShape ==
  ASSUME NEW p \in Seq(Segments), NEW n \in BuildingNames(p)
  PROVE  /\ n \in Seq(Segments) /\ Len(n) = Len(p) + 2 /\ Begins(n, p)
         /\ n[Len(p) + 1] = Building
         /\ n[Len(p) + 2] \in Randoms
<1>1. PICK random \in Randoms : n = p \o <<Building, random>>
  BY DEF BuildingNames
<1>2. <<Building, random>> \in Seq(Segments)
  BY NamesAssumption DEF Randoms
<1> QED
  BY <1>1, <1>2 DEF Begins

(* No segment has two lengths, and no infix is a digest.                    *)
LEMMA SegmentsApart ==
  /\ Digests(16) \cap Randoms = {} /\ Digests(10) \cap Randoms = {}
  /\ \A chars \in Nat : Building \notin Digests(chars) /\ Template \notin Digests(chars)
  /\ Building \notin Randoms /\ Template \notin Randoms
  /\ Building # Template
  BY NamesAssumption DEF Digests, Randoms, Building, Template

LEMMA SamePrefix ==
  ASSUME NEW p \in Seq(Segments), NEW q \in Seq(Segments), NEW n,
         Begins(n, p), Begins(n, q), Len(p) = Len(q)
  PROVE  p = q
  BY DEF Begins

(* A name tells which kind of database it is, and of which prefix.          *)
LEMMA KindsApart ==
  ASSUME NEW p \in Seq(Segments), NEW q \in Seq(Segments)
  PROVE  /\ DatabaseNames(p) \cap TemplateNames(q) = {}
         /\ DatabaseNames(p) \cap BuildingNames(q) = {}
         /\ TemplateNames(p) \cap BuildingNames(q) = {}
<1>1. ASSUME NEW n \in DatabaseNames(p), n \in TemplateNames(q) PROVE FALSE
  <2>1. Len(p) + 3 = Len(q) + 2
    BY <1>1, DatabaseShape, TemplateShape
  <2>2. n[Len(p) + 3] \in Randoms /\ n[Len(q) + 2] \in Digests(16)
    BY <1>1, DatabaseShape, TemplateShape
  <2> QED
    BY <2>1, <2>2, SegmentsApart
<1>2. ASSUME NEW n \in DatabaseNames(p), n \in BuildingNames(q) PROVE FALSE
  <2>1. Len(p) + 3 = Len(q) + 2
    BY <1>2, DatabaseShape, BuildingShape
  <2>2. Len(p) + 2 = Len(q) + 1
    BY <2>1
  <2>3. n[Len(p) + 2] \in Digests(8) /\ n[Len(q) + 1] = Building
    BY <1>2, DatabaseShape, BuildingShape
  <2> QED
    BY <2>2, <2>3, SegmentsApart
<1>3. ASSUME NEW n \in TemplateNames(p), n \in BuildingNames(q) PROVE FALSE
  <2>1. Len(p) + 2 = Len(q) + 2
    BY <1>3, TemplateShape, BuildingShape
  <2>2. n[Len(p) + 2] \in Digests(16) /\ n[Len(q) + 2] \in Randoms
    BY <1>3, TemplateShape, BuildingShape
  <2> QED
    BY <2>1, <2>2, SegmentsApart
<1> QED
  BY <1>1, <1>2, <1>3

LEMMA PrefixesApart ==
  ASSUME NEW p \in Seq(Segments), NEW q \in Seq(Segments), p # q
  PROVE  AllNames(p) \cap AllNames(q) = {}
<1>1. DatabaseNames(p) \cap DatabaseNames(q) = {}
  <2> SUFFICES ASSUME NEW n \in DatabaseNames(p), n \in DatabaseNames(q) PROVE FALSE
    OBVIOUS
  <2>1. Len(p) = Len(q) /\ Begins(n, p) /\ Begins(n, q)
    BY DatabaseShape
  <2> QED
    BY <2>1, SamePrefix
<1>2. TemplateNames(p) \cap TemplateNames(q) = {}
  <2> SUFFICES ASSUME NEW n \in TemplateNames(p), n \in TemplateNames(q) PROVE FALSE
    OBVIOUS
  <2>1. Len(p) = Len(q) /\ Begins(n, p) /\ Begins(n, q)
    BY TemplateShape
  <2> QED
    BY <2>1, SamePrefix
<1>3. BuildingNames(p) \cap BuildingNames(q) = {}
  <2> SUFFICES ASSUME NEW n \in BuildingNames(p), n \in BuildingNames(q) PROVE FALSE
    OBVIOUS
  <2>1. Len(p) = Len(q) /\ Begins(n, p) /\ Begins(n, q)
    BY BuildingShape
  <2> QED
    BY <2>1, SamePrefix
<1>4. /\ DatabaseNames(p) \cap (TemplateNames(q) \cup BuildingNames(q)) = {}
      /\ DatabaseNames(q) \cap (TemplateNames(p) \cup BuildingNames(p)) = {}
      /\ TemplateNames(p) \cap BuildingNames(q) = {}
      /\ TemplateNames(q) \cap BuildingNames(p) = {}
  BY KindsApart
<1> QED
  BY <1>1, <1>2, <1>3, <1>4 DEF AllNames

(* For every prefix and all digests and random parts, a name is of one kind *)
(* and of one prefix (Names::database, template, building).                 *)
THEOREM KindsAreTold == Spec => []NamesTellKinds
<1>1. SetupInv => NamesTellKinds
  <2>1. ASSUME SetupInv, NEW t \in Tests, Named(t)
        PROVE  config[t].prefix \in Seq(Segments)
    BY <2>1 DEF SetupInv, Settled, Valid, Validate, Plain
  <2> QED
    BY <2>1, KindsApart, PrefixesApart DEF NamesTellKinds
<1> QED
  BY SetupInvariant, <1>1, PTL

-----------------------------------------------------------------------------
(* One sequence begins another where their segments agree.                  *)
LEMMA PrefixBySegments ==
  ASSUME NEW s \in Seq(Segments), NEW n \in Seq(Segments)
  PROVE  /\ IsPrefix(s, n) <=> Len(s) <= Len(n) /\ Begins(n, s)
         /\ IsStrictPrefix(s, n) => Len(s) < Len(n)
<1>1. SubSeq(s, 1, Len(s)) = s
  OBVIOUS
<1>2. ASSUME Len(s) <= Len(n)
      PROVE  /\ SubSeq(n, 1, Len(s)) \in Seq(Segments)
             /\ Len(SubSeq(n, 1, Len(s))) = Len(s)
             /\ \A i \in 1 .. Len(s) : SubSeq(n, 1, Len(s))[i] = n[i]
  BY <1>2
<1>3. ASSUME Len(s) <= Len(n), SubSeq(n, 1, Len(s)) = s PROVE Begins(n, s)
  BY <1>2, <1>3 DEF Begins
<1>4. ASSUME Len(s) <= Len(n), Begins(n, s) PROVE SubSeq(n, 1, Len(s)) = s
  BY <1>2, <1>4 DEF Begins
<1>5. IsPrefix(s, n) <=> Len(s) <= Len(n) /\ Begins(n, s)
  BY <1>1, <1>3, <1>4 DEF IsPrefix
<1>6. ASSUME IsPrefix(s, n), Len(s) = Len(n) PROVE s = n
  BY <1>5, <1>6 DEF Begins
<1> QED
  BY <1>5, <1>6 DEF IsStrictPrefix

(* What p's infix lists of q's names is p's own, unless q begins with it.   *)
LEMMA ListedOwn ==
  ASSUME NEW p \in Seq(Segments), NEW q \in Seq(Segments),
         NEW infix \in {Building, Template}, NEW n \in AllNames(q),
         IsStrictPrefix(p \o <<infix>>, n), ~IsPrefix(p \o <<infix>>, q)
  PROVE  /\ p = q
         /\ infix = Building => n \in BuildingNames(q)
         /\ infix = Template => n \in TemplateNames(q)
<1> DEFINE by == p \o <<infix>>
<1>1. by \in Seq(Segments) /\ Len(by) = Len(p) + 1 /\ by[Len(p) + 1] = infix
  BY NamesAssumption
<1>2. \A i \in 1 .. Len(p) : by[i] = p[i]
  OBVIOUS
<1>3. n \in Seq(Segments) /\ Begins(n, q) /\ Len(n) \in {Len(q) + 2, Len(q) + 3}
  BY DatabaseShape, TemplateShape, BuildingShape DEF AllNames
<1>4. Len(by) < Len(n) /\ Begins(n, by)
  BY <1>1, <1>3, PrefixBySegments DEF IsStrictPrefix
<1>5. n[Len(p) + 1] = infix /\ Begins(n, p)
  BY <1>1, <1>2, <1>4 DEF Begins
<1>6. Len(q) <= Len(p)
  <2> SUFFICES ASSUME Len(p) < Len(q) PROVE FALSE
    OBVIOUS
  <2>1. Begins(q, by)
    BY <1>1, <1>3, <1>4 DEF Begins
  <2>2. Len(by) <= Len(q)
    BY <1>1
  <2> HIDE DEF by
  <2>3. IsPrefix(by, q)
    BY <1>1, <2>1, <2>2, PrefixBySegments
  <2> QED
    BY <2>3 DEF by
<1> HIDE DEF by
<1>7. CASE n \in DatabaseNames(q)
  <2>1. /\ n[Len(q) + 1] \in Digests(10) /\ n[Len(q) + 2] \in Digests(8)
        /\ Len(n) = Len(q) + 3
    BY <1>7, DatabaseShape
  <2>2. Len(p) + 1 \in {Len(q) + 1, Len(q) + 2}
    BY <1>1, <1>4, <1>6, <2>1
  <2> QED
    BY <1>5, <2>1, <2>2, SegmentsApart
<1>8. CASE n \in TemplateNames(q)
  <2>1. n[Len(q) + 1] = Template /\ Len(n) = Len(q) + 2
    BY <1>8, TemplateShape
  <2>2. Len(p) = Len(q)
    BY <1>1, <1>4, <1>6, <2>1
  <2> QED
    BY <1>3, <1>5, <1>8, <2>1, <2>2, SamePrefix, SegmentsApart
<1>9. CASE n \in BuildingNames(q)
  <2>1. n[Len(q) + 1] = Building /\ Len(n) = Len(q) + 2
    BY <1>9, BuildingShape
  <2>2. Len(p) = Len(q)
    BY <1>1, <1>4, <1>6, <2>1
  <2> QED
    BY <1>3, <1>5, <1>9, <2>1, <2>2, SamePrefix, SegmentsApart
<1> QED
  BY <1>7, <1>8, <1>9 DEF AllNames

(* For all prefixes: the orphans and the idle templates that one lists are  *)
(* its own, or belong to a prefix that begins with the listed one           *)
(* (databases_with_prefix, idle_templates).                                 *)
THEOREM ListsAreOwn == Spec => []ListsCatchTheirOwn
<1>1. SetupInv => ListsCatchTheirOwn
  <2> SUFFICES ASSUME SetupInv, NEW t \in Tests, NEW u \in Tests, Named(t), Named(u),
                      NEW by \in {BuildingPrefix(config[t].prefix),
                                  TemplatePrefix(config[t].prefix)},
                      ~IsPrefix(by, config[u].prefix),
                      NEW n \in Listed(by, AllNames(config[u].prefix))
               PROVE  n \in IF config[t].prefix # config[u].prefix THEN {}
                            ELSE IF by = BuildingPrefix(config[t].prefix)
                            THEN BuildingNames(config[u].prefix)
                            ELSE TemplateNames(config[u].prefix)
    BY Zenon DEF ListsCatchTheirOwn
  <2> DEFINE p == config[t].prefix
             q == config[u].prefix
  <2>1. p \in Seq(Segments) /\ q \in Seq(Segments)
    BY DEF SetupInv, Settled, Valid, Validate, Plain
  <2>2. n \in AllNames(q) /\ IsStrictPrefix(by, n)
    BY DEF Listed
  <2> HIDE DEF p, q
  <2>3. CASE by = BuildingPrefix(p)
    <3>1. p = q /\ n \in BuildingNames(q)
      BY <2>1, <2>2, <2>3, ListedOwn DEF BuildingPrefix, p, q
    <3> QED
      BY <2>3, <3>1 DEF p, q
  <2>4. CASE by = TemplatePrefix(p) /\ by # BuildingPrefix(p)
    <3>1. p = q /\ n \in TemplateNames(q)
      BY <2>1, <2>2, <2>4, ListedOwn DEF TemplatePrefix, p, q
    <3> QED
      BY <2>4, <3>1 DEF p, q
  <2> QED
    BY <2>3, <2>4 DEF p
<1> QED
  BY SetupInvariant, <1>1, PTL

-----------------------------------------------------------------------------
(* Induction over data.  A set of numbers has a least one, so what holds    *)
(* of 0 and goes from each number to the next holds of all: enough to       *)
(* follow the folds that Bytes, Parse and HashInput are computed with.      *)
Below == OpToRel(<, Nat)

LEMMA Least ==
  ASSUME NEW T \in SUBSET Nat, T # {}
  PROVE  \E n \in T : \A m \in T : n <= m
<1>1. IsWellFoundedOn(Below, Nat)
  BY NatLessThanWellFounded DEF Below
<1>2. \A x, y \in Nat : x < y => <<x, y>> \in Below
  BY DEF OpToRel, Below
<1>3. PICK n \in T : \A m \in T : <<m, n>> \notin Below
  BY <1>1, WFMin
<1>4. ASSUME NEW m \in T PROVE n <= m
  <2>1. n \in Nat /\ m \in Nat
    OBVIOUS
  <2>2. ~(m < n)
    BY <1>2, <1>3, <2>1
  <2> QED
    BY <2>1, <2>2
<1> QED
  BY <1>4

(* A set with 0 and with each number's successor holds all numbers to n. *)
LEMMA Climb ==
  ASSUME NEW n \in Nat, NEW T, 0 \in T,
         \A i \in 0 .. n - 1 : i \in T => i + 1 \in T
  PROVE  \A i \in 0 .. n : i \in T
<1> SUFFICES ASSUME NEW j \in 0 .. n, j \notin T PROVE FALSE
  OBVIOUS
<1> DEFINE Missing == {i \in 0 .. n : i \notin T}
<1>1. PICK k \in Missing : \A m \in Missing : k <= m
  <2>1. Missing \in SUBSET Nat /\ j \in Missing
    OBVIOUS
  <2> HIDE DEF Missing
  <2> QED
    BY <2>1, Least
<1>2. k \in 1 .. n
  BY DEF Missing
<1>3. k - 1 \in 0 .. n - 1 /\ k - 1 \notin Missing
  BY <1>1, <1>2
<1> QED
  BY <1>2, <1>3

(* FoldLeft's own recursion, over the sets of places, for the two folds of  *)
(* this specification: Bytes, which adds lengths, and Parse.                *)
FoldStep(fold, value, x) ==
  IF fold = "bytes" THEN value + Length[x] ELSE Argument(value, x)

Folding(fold, base, seq, n, iter) ==
  iter = [s \in SUBSET (1 .. n) |->
            IF s = {} THEN base
            ELSE FoldStep(fold, iter[s \ {Max(s)}], seq[Max(s)])]

LEMMA LastPlace ==
  ASSUME NEW n \in Nat \ {0}, NEW s \in SUBSET (1 .. n), n \in s
  PROVE  Max(s) = n
<1>1. \A y \in s : n >= y
  OBVIOUS
<1>2. \A x \in s : (\A y \in s : x >= y) => x = n
  OBVIOUS
<1> QED
  BY <1>1, <1>2 DEF Max

LEMMA FoldExists ==
  ASSUME NEW fold, NEW base, NEW seq, NEW n \in Nat
  PROVE  \E iter : Folding(fold, base, seq, n, iter)
<1> DEFINE T == {i \in 0 .. n : \E iter : Folding(fold, base, seq, i, iter)}
<1>1. 0 \in T
  <2> DEFINE first == [s \in SUBSET (1 .. 0) |-> base]
  <2>1. \A s \in SUBSET (1 .. 0) : s = {}
    OBVIOUS
  <2>2. Folding(fold, base, seq, 0, first)
    BY <2>1 DEF Folding
  <2> QED
    BY <2>2
<1>2. ASSUME NEW i \in 0 .. n - 1, i \in T PROVE i + 1 \in T
  <2>1. PICK iter : Folding(fold, base, seq, i, iter)
    BY <1>2
  <2> DEFINE next == [s \in SUBSET (1 .. i + 1) |->
                        IF i + 1 \in s THEN FoldStep(fold, iter[s \ {i + 1}], seq[i + 1])
                        ELSE iter[s]]
             rest(s) == s \ {Max(s)}
  <2>2. ASSUME NEW s \in SUBSET (1 .. i + 1)
        PROVE  next[s] = IF s = {} THEN base
                         ELSE FoldStep(fold, next[rest(s)], seq[Max(s)])
    <3>1. CASE i + 1 \in s
      <4>1. Max(s) = i + 1
        BY <3>1, LastPlace
      <4>2. rest(s) \in SUBSET (1 .. i) /\ i + 1 \notin rest(s)
        BY <4>1
      <4>3. rest(s) \in SUBSET (1 .. i + 1)
        BY <4>2
      <4>4. next[rest(s)] = iter[rest(s)]
        BY <4>2, <4>3
      <4> QED
        BY <3>1, <4>1, <4>4
    <3>2. CASE i + 1 \notin s
      <4>1. s \in SUBSET (1 .. i)
        BY <3>2
      <4>5. rest(s) \in SUBSET (1 .. i + 1) /\ i + 1 \notin rest(s)
        BY <3>2
      <4>2. next[s] = iter[s] /\ next[rest(s)] = iter[rest(s)]
        BY <3>2, <4>5
      <4>3. iter[s] = IF s = {} THEN base ELSE FoldStep(fold, iter[rest(s)], seq[Max(s)])
        BY <2>1, <4>1 DEF Folding
      <4> QED
        BY <4>2, <4>3
    <3> QED
      BY <3>1, <3>2
  <2>3. Folding(fold, base, seq, i + 1, next)
    <3> DEFINE val(s) == IF s = {} THEN base
                         ELSE FoldStep(fold, next[s \ {Max(s)}], seq[Max(s)])
    <3>1. \A s \in SUBSET (1 .. i + 1) : next[s] = val(s)
      BY <2>2
    <3>2. next = [s \in SUBSET (1 .. i + 1) |-> next[s]]
      OBVIOUS
    <3> HIDE DEF next
    <3>3. next = [s \in SUBSET (1 .. i + 1) |-> val(s)]
      BY <3>1, <3>2
    <3> QED
      BY <3>3 DEF Folding
  <2> QED
    BY <1>2, <2>3
<1> HIDE DEF T
<1>3. n \in T
  BY <1>1, <1>2, Climb
<1> QED
  BY <1>3 DEF T

(* What such a fold has come to after i of the sequence. *)
Progress(fold, base, seq, n, value) ==
  /\ value = [i \in 0 .. n |-> value[i]]
  /\ value[0] = base
  /\ \A i \in 1 .. n : value[i] = FoldStep(fold, value[i - 1], seq[i])

LEMMA FoldRuns ==
  ASSUME NEW fold, NEW base, NEW seq, NEW n \in Nat, NEW iter,
         Folding(fold, base, seq, n, iter)
  PROVE  Progress(fold, base, seq, n, [i \in 0 .. n |-> iter[1 .. i]])
<1>1. 1 .. 0 \in SUBSET (1 .. n) /\ 1 .. 0 = {}
  OBVIOUS
<1>2. iter[1 .. 0] = base
  BY <1>1 DEF Folding
<1>3. ASSUME NEW i \in 1 .. n
      PROVE  iter[1 .. i] = FoldStep(fold, iter[1 .. i - 1], seq[i])
  <2>1. 1 .. i \in SUBSET (1 .. n) /\ i \in 1 .. i
    OBVIOUS
  <2>2. Max(1 .. i) = i
    BY LastPlace
  <2>3. (1 .. i) \ {i} = 1 .. i - 1
    OBVIOUS
  <2> QED
    BY <2>1, <2>2, <2>3 DEF Folding
<1> QED
  BY <1>2, <1>3 DEF Progress

LEMMA BytesIsFold ==
  ASSUME NEW name \in Seq(Segments)
  PROVE  \E total : /\ Progress("bytes", Len(name) - 1, name, Len(name), total)
                    /\ Bytes(name) = total[Len(name)]
<1> DEFINE n == Len(name)
           iter == CHOOSE iter : Folding("bytes", n - 1, name, n, iter)
<1>1. n \in Nat /\ DOMAIN name = 1 .. n
  OBVIOUS
<1>2. Bytes(name) = iter[1 .. n]
  BY <1>1 DEF Bytes, FoldLeft, MapThenFoldSet, Folding, FoldStep
<1>3. Folding("bytes", n - 1, name, n, iter)
  BY <1>1, FoldExists
<1> HIDE DEF iter
<1> DEFINE run == [i \in 0 .. n |-> iter[1 .. i]]
<1>4. Progress("bytes", n - 1, name, n, run)
  BY <1>1, <1>3, FoldRuns
<1>5. run[n] = iter[1 .. n]
  BY <1>1
<1> HIDE DEF run
<1> QED
  BY <1>2, <1>4, <1>5

LEMMA ParseIsFold ==
  ASSUME NEW S, NEW list \in Seq(S)
  PROVE  \E args : /\ Progress("parse", Empty, list, Len(list), args)
                   /\ FoldLeft(Argument, Empty, list) = args[Len(list)]
<1> DEFINE n == Len(list)
           iter == CHOOSE iter : Folding("parse", Empty, list, n, iter)
<1>1. n \in Nat /\ DOMAIN list = 1 .. n
  OBVIOUS
<1>2. FoldLeft(Argument, Empty, list) = iter[1 .. n]
  BY <1>1 DEF FoldLeft, MapThenFoldSet, Folding, FoldStep
<1>3. Folding("parse", Empty, list, n, iter)
  BY <1>1, FoldExists
<1> HIDE DEF iter
<1> DEFINE run == [i \in 0 .. n |-> iter[1 .. i]]
<1>4. Progress("parse", Empty, list, n, run)
  BY <1>1, <1>3, FoldRuns
<1>5. run[n] = iter[1 .. n]
  BY <1>1
<1> HIDE DEF run
<1> QED
  BY <1>2, <1>4, <1>5

(* A segment more is an underscore and its bytes more. *)
LEMMA BytesAppend ==
  ASSUME NEW name \in Seq(Segments), NEW x \in Segments
  PROVE  /\ Append(name, x) \in Seq(Segments) /\ Bytes(name) \in Int
         /\ Bytes(Append(name, x)) = Bytes(name) + 1 + Length[x]
<1> DEFINE n == Len(name)
           longer == Append(name, x)
<1>1. /\ n \in Nat /\ longer \in Seq(Segments) /\ Len(longer) = n + 1
      /\ longer[n + 1] = x
      /\ \A i \in 1 .. n : longer[i] = name[i] /\ name[i] \in Segments
  OBVIOUS
<1>2. \A s \in Segments : Length[s] \in Nat
  BY NamesAssumption
<1>3. PICK total : /\ Progress("bytes", n - 1, name, n, total)
                   /\ Bytes(name) = total[n]
  BY BytesIsFold
<1>4. PICK more : /\ Progress("bytes", n, longer, n + 1, more)
                  /\ Bytes(longer) = more[n + 1]
  <2>1. Len(longer) - 1 = n
    BY <1>1
  <2> HIDE DEF longer
  <2> QED
    BY <1>1, <2>1, BytesIsFold
<1> HIDE DEF longer, n
<1> DEFINE T == {i \in 0 .. n : total[i] \in Int /\ more[i] = total[i] + 1}
<1>5. \A i \in 0 .. n : i \in T
  <2>1. 0 \in T
    BY <1>1, <1>3, <1>4 DEF Progress
  <2>2. ASSUME NEW i \in 0 .. n - 1, i \in T PROVE i + 1 \in T
    <3>1. i + 1 \in 1 .. n /\ i + 1 \in 1 .. n + 1 /\ (i + 1) - 1 = i
      BY <1>1
    <3>2. /\ total[i + 1] = total[i] + Length[name[i + 1]]
          /\ more[i + 1] = more[i] + Length[name[i + 1]]
      BY <1>1, <1>3, <1>4, <3>1 DEF Progress, FoldStep
    <3>3. Length[name[i + 1]] \in Nat
      BY <1>1, <1>2, <3>1
    <3> QED
      BY <1>1, <2>2, <3>1, <3>2, <3>3
  <2> HIDE DEF T
  <2> QED
    BY <1>1, <2>1, <2>2, Climb
<1>6. more[n + 1] = more[n] + Length[x]
  <2>1. n + 1 \in 1 .. n + 1 /\ (n + 1) - 1 = n
    BY <1>1
  <2> QED
    BY <1>1, <1>4, <2>1 DEF Progress, FoldStep
<1>7. total[n] \in Int /\ more[n] = total[n] + 1
  BY <1>1, <1>5
<1> QED
  BY <1>1, <1>2, <1>3, <1>4, <1>6, <1>7 DEF longer

LEMMA MaxOfThree ==
  ASSUME NEW a \in Int, NEW b \in Int, NEW c \in Int
  PROVE  /\ Max({a, b, c}) \in Int
         /\ Max({a, b, c}) >= a /\ Max({a, b, c}) >= b /\ Max({a, b, c}) >= c
<1>1. \E x \in {a, b, c} : \A y \in {a, b, c} : x >= y
  OBVIOUS
<1> QED
  BY <1>1 DEF Max

(* No name a prefix leads to is longer than the longest. *)
LEMMA LongestIsLongest ==
  ASSUME NEW p \in Seq(Segments), NEW name \in AllNames(p)
  PROVE  Bytes(name) \in Int /\ Longest(p) \in Int /\ Bytes(name) <= Longest(p)
<1> DEFINE most == Max({DatabaseSuffix, TemplateSuffix, BuildingSuffix})
<1>1. /\ DatabaseSuffix = 27 /\ TemplateSuffix = 26 /\ BuildingSuffix = 16
      /\ Building \in Segments /\ Template \in Segments
      /\ Length[Building] = 8 /\ Length[Template] = 8
  BY NamesAssumption DEF DatabaseSuffix, TemplateSuffix, BuildingSuffix
<1>2. most \in Int /\ most >= 27 /\ most >= 26 /\ most >= 16
  <2>1. /\ DatabaseSuffix \in Int /\ TemplateSuffix \in Int
        /\ BuildingSuffix \in Int
    BY <1>1
  <2>2. /\ most \in Int /\ most >= DatabaseSuffix /\ most >= TemplateSuffix
        /\ most >= BuildingSuffix
    BY ONLY <2>1, MaxOfThree
  <2> QED
    BY <1>1, <2>2
<1>3. Bytes(p) \in Int
  <2>1. Building \in Segments
    BY <1>1
  <2> QED
    BY <2>1, BytesAppend
<1>4. Longest(p) = Bytes(p) + most
  BY DEF Longest
<1> HIDE DEF most
<1>5. CASE name \in DatabaseNames(p)
  <2>1. PICK test \in Digests(10), run \in Digests(8), random \in Randoms :
          name = p \o <<test, run, random>>
    <3>1. PICK parts \in Digests(10) \X Digests(8) \X Randoms : name = p \o parts
      BY <1>5 DEF DatabaseNames, RunKeys
    <3>2. parts = <<parts[1], parts[2], parts[3]>>
      BY <3>1
    <3> QED
      BY <3>1, <3>2
  <2>2. /\ test \in Segments /\ run \in Segments /\ random \in Segments
        /\ Length[test] = 10 /\ Length[run] = 8 /\ Length[random] = 6
    BY NamesAssumption DEF Digests, Randoms
  <2>3. name = Append(Append(Append(p, test), run), random)
    BY <2>1, <2>2
  <2>4. /\ Append(p, test) \in Seq(Segments)
        /\ Append(Append(p, test), run) \in Seq(Segments)
    BY <2>2
  <2>5. /\ Bytes(Append(p, test)) = Bytes(p) + 1 + Length[test]
        /\ Bytes(Append(Append(p, test), run)) = Bytes(Append(p, test)) + 1 + Length[run]
        /\ Bytes(name) = Bytes(Append(Append(p, test), run)) + 1 + Length[random]
    BY <2>2, <2>3, <2>4, BytesAppend
  <2>6. Bytes(name) = Bytes(p) + 27
    BY <1>3, <2>2, <2>5
  <2> QED
    BY <1>2, <1>3, <1>4, <2>6
<1>6. CASE name \in TemplateNames(p) \cup BuildingNames(p)
  <2>1. PICK infix \in {Building, Template}, part \in Digests(16) \cup Randoms :
          name = p \o <<infix, part>>
    BY <1>6 DEF TemplateNames, BuildingNames
  <2>2. /\ infix \in Segments /\ part \in Segments
        /\ Length[infix] = 8 /\ Length[part] \in {6, 16}
    BY <1>1, NamesAssumption DEF Digests, Randoms
  <2>3. name = Append(Append(p, infix), part)
    BY <2>1, <2>2
  <2>4. Append(p, infix) \in Seq(Segments)
    BY <2>2
  <2>5. /\ Bytes(Append(p, infix)) = Bytes(p) + 1 + Length[infix]
        /\ Bytes(name) = Bytes(Append(p, infix)) + 1 + Length[part]
    BY <2>2, <2>3, <2>4, BytesAppend
  <2>6. Bytes(name) = Bytes(p) + 10 + Length[part]
    BY <1>3, <2>2, <2>5
  <2> QED
    BY <1>2, <1>3, <1>4, <2>2, <2>6
<1> QED
  BY <1>5, <1>6 DEF AllNames

(* No name of a test that got as far as the server is longer than the       *)
(* server keeps, for any prefix and any lengths of its segments             *)
(* (Names::validate, longest).                                              *)
THEOREM AllNamesFit == Spec => []NamesFit
<1>1. SetupInv => NamesFit
  <2> SUFFICES ASSUME SetupInv, NEW t \in Tests, Named(t),
                      NEW name \in AllNames(config[t].prefix)
               PROVE  Bytes(name) <= MaxIdentifier
    BY DEF NamesFit, SetupInv, Settled, Valid, Validate
  <2> DEFINE p == config[t].prefix
  <2>1. p \in Seq(Segments) /\ Longest(p) <= MaxIdentifier
    BY DEF SetupInv, Settled, Valid, Validate, Plain
  <2> HIDE DEF p
  <2>2. Bytes(name) \in Int /\ Longest(p) \in Int /\ Bytes(name) <= Longest(p)
    BY <2>1, LongestIsLongest DEF p
  <2> QED
    BY <2>1, <2>2, NamesAssumption
<1> QED
  BY SetupInvariant, <1>1, PTL

-----------------------------------------------------------------------------
NamesSchema(arg) == arg.key \in {"migrator", "migrations"}

(* What the fold has made of the first i arguments. *)
ArgsSoFar(list, i, args) ==
  /\ args = [config |-> args.config, schema |-> args.schema,
             fixtures |-> args.fixtures, error |-> args.error]
  /\ args.error \in BOOLEAN
  /\ args.config # NotGiven =>
       \E j \in 1 .. i : list[j].key = "config" /\ args.config = list[j].value
  /\ args.schema # NotGiven =>
       \E j \in 1 .. i : NamesSchema(list[j]) /\ args.schema = Source(list[j])
  /\ ~args.error => \A j \in 1 .. i :
       /\ list[j].key = "config" => args.config # NotGiven
       /\ NamesSchema(list[j]) => args.schema = Source(list[j])

Meant(arg) == /\ arg.key = "config" => arg.value # NotGiven
              /\ NamesSchema(arg) => Source(arg) # NotGiven

LEMMA ArgumentStep ==
  ASSUME NEW list, NEW i \in Nat, NEW args, ArgsSoFar(list, i, args),
         \A j \in 1 .. i + 1 : Meant(list[j])
  PROVE  ArgsSoFar(list, i + 1, Argument(args, list[i + 1]))
<1> DEFINE arg == list[i + 1]
           next == Argument(args, arg)
<1>0. /\ i + 1 \in 1 .. i + 1 /\ Meant(arg)
      /\ \A j \in 1 .. i + 1 : j \in 1 .. i \/ j = i + 1
      /\ \A j \in 1 .. i : j \in 1 .. i + 1
  OBVIOUS
<1>1. CASE arg.key = "fixtures"
  <2>1. next = [args EXCEPT !.fixtures = args.fixtures \o Fixtures(arg)]
    BY <1>1 DEF Argument
  <2> HIDE DEF next
  <2>2. /\ next = [config |-> args.config, schema |-> args.schema,
                   fixtures |-> args.fixtures \o Fixtures(arg), error |-> args.error]
    BY <2>1 DEF ArgsSoFar
  <2>3. arg.key # "config" /\ ~NamesSchema(arg)
    BY <1>1 DEF NamesSchema
  <2>4. ArgsSoFar(list, i + 1, next)
    BY <1>0, <2>2, <2>3 DEF ArgsSoFar
  <2> QED
    BY <2>4 DEF next
<1>2. CASE arg.key = "config"
  <2>1. next = [args EXCEPT !.config = arg.value]
    BY <1>2 DEF Argument
  <2> HIDE DEF next
  <2>2. /\ next = [config |-> arg.value, schema |-> args.schema,
                   fixtures |-> args.fixtures, error |-> args.error]
    BY <2>1 DEF ArgsSoFar
  <2>3. ~NamesSchema(arg) /\ arg.value # NotGiven
    BY <1>0, <1>2 DEF NamesSchema, Meant
  <2>5. \E j \in 1 .. i + 1 : list[j].key = "config" /\ arg.value = list[j].value
    BY <1>0, <1>2
  <2>6. next.schema = args.schema /\ next.error = args.error /\ next.config = arg.value
    BY <2>2
  <2>4. ArgsSoFar(list, i + 1, next)
    BY <1>0, <2>2, <2>3, <2>5, <2>6 DEF ArgsSoFar
  <2> QED
    BY <2>4 DEF next
<1>3. CASE NamesSchema(arg)
  <2>1. next = [args EXCEPT !.schema = Source(arg),
                            !.error = args.error \/ args.schema # NotGiven]
    BY <1>3 DEF Argument, NamesSchema, SetSchema
  <2> HIDE DEF next
  <2>2. /\ next = [config |-> args.config, schema |-> Source(arg),
                   fixtures |-> args.fixtures,
                   error |-> args.error \/ args.schema # NotGiven]
    BY <2>1 DEF ArgsSoFar
  <2>3. arg.key # "config"
    BY <1>3 DEF NamesSchema
  <2>4. ~next.error => ~args.error /\ args.schema = NotGiven
    BY <2>2 DEF ArgsSoFar
  <2>5. ASSUME ~args.error, args.schema = NotGiven, NEW j \in 1 .. i
        PROVE  ~NamesSchema(list[j])
    BY <1>0, <2>5 DEF ArgsSoFar, Meant
  <2>6. next.error \in BOOLEAN
    BY <2>2
  <2>7. ArgsSoFar(list, i + 1, next)
    BY <1>0, <1>3, <2>2, <2>3, <2>4, <2>5, <2>6 DEF ArgsSoFar
  <2> QED
    BY <2>7 DEF next
<1>4. CASE arg.key # "fixtures" /\ arg.key # "config" /\ ~NamesSchema(arg)
  <2>1. next = [args EXCEPT !.error = TRUE]
    BY <1>4 DEF Argument, NamesSchema
  <2> HIDE DEF next
  <2>2. /\ next = [config |-> args.config, schema |-> args.schema,
                   fixtures |-> args.fixtures, error |-> TRUE]
    BY <2>1 DEF ArgsSoFar
  <2>3. ArgsSoFar(list, i + 1, next)
    BY <1>0, <2>2 DEF ArgsSoFar
  <2> QED
    BY <2>3 DEF next
<1> QED
  BY <1>1, <1>2, <1>3, <1>4

LEMMA ParseSays ==
  ASSUME NEW list, list \in Seq(ToSet(list)),
         \A arg \in ToSet(list) : Meant(arg),
         ~Parse(list).error
  PROVE  /\ Parse(list).config = NotGiven \/ Parse(list).schema = NotGiven
         /\ Parse(list).config # NotGiven =>
              \E j \in DOMAIN list :
                list[j].key = "config" /\ Parse(list).config = list[j].value
         /\ Parse(list).schema # NotGiven =>
              \E j \in DOMAIN list :
                NamesSchema(list[j]) /\ Parse(list).schema = Source(list[j])
         /\ \A j \in DOMAIN list :
              /\ list[j].key = "config" => Parse(list).config # NotGiven
              /\ NamesSchema(list[j]) => Parse(list).schema = Source(list[j])
<1> DEFINE n == Len(list)
           last == FoldLeft(Argument, Empty, list)
<1>1. /\ n \in Nat /\ DOMAIN list = 1 .. n
      /\ \A j \in 1 .. n : list[j] \in ToSet(list)
  BY DEF ToSet
<1>2. PICK args : Progress("parse", Empty, list, n, args) /\ last = args[n]
  BY ParseIsFold
<1>3. Parse(list) = [last EXCEPT !.error = last.error \/ (last.config # NotGiven /\ last.schema # NotGiven)]
  BY DEF Parse
<1> HIDE DEF n, last
<1> DEFINE T == {i \in 0 .. n : ArgsSoFar(list, i, args[i])}
<1>4. n \in T
  <2>1. 0 \in T
    <3>1. ArgsSoFar(list, 0, Empty)
      BY DEF ArgsSoFar, Empty
    <3> QED
      BY <1>1, <1>2, <3>1 DEF Progress
  <2>2. ASSUME NEW i \in 0 .. n - 1, i \in T PROVE i + 1 \in T
    <3>1. i + 1 \in 1 .. n /\ i \in Nat /\ (i + 1) - 1 = i /\ i + 1 \in 0 .. n
      BY <1>1
    <3>2. args[i + 1] = Argument(args[i], list[i + 1])
      BY <1>2, <3>1 DEF Progress, FoldStep
    <3>3. \A j \in 1 .. i + 1 : Meant(list[j])
      BY <1>1, <3>1
    <3>4. ArgsSoFar(list, i + 1, args[i + 1])
      BY <2>2, <3>1, <3>2, <3>3, ArgumentStep
    <3> QED
      BY <3>1, <3>4
  <2> HIDE DEF T
  <2> QED
    BY <1>1, <2>1, <2>2, Climb
<1>5. ArgsSoFar(list, n, last)
  BY <1>2, <1>4
<1>6. /\ Parse(list).config = last.config /\ Parse(list).schema = last.schema
      /\ ~last.error /\ (last.config = NotGiven \/ last.schema = NotGiven)
  BY <1>3, <1>5 DEF ArgsSoFar
<1> QED
  BY <1>1, <1>5, <1>6 DEF ArgsSoFar

-----------------------------------------------------------------------------
(* Every schema a test may run with is there, and the attribute's is the    *)
(* test's.                                                                  *)
Usable(settings) == "schema" \in DOMAIN settings /\ Embedded(settings.schema)

Declared(t) ==
  /\ function[t] \in Functions[t]
  /\ pc[t] # "rejected" \/ config[t] # Unset => Compiles(function[t])
  /\ config[t] # Unset =>
       /\ Embedded(config[t].schema)
       /\ IF Args(t).config # NotGiven THEN config[t] = OwnConfig[Args(t).config]
          ELSE Args(t).schema # NotGiven => config[t].schema = Args(t).schema

AttributeInv ==
  /\ \A p \in Processes : memo[p].read /\ memo[p].is # Unset => Usable(memo[p].is)
  /\ \A t \in Tests : Declared(t)

(* The arguments of a function that compiles. *)
LEMMA ArgsMean ==
  ASSUME NEW t \in Tests, function[t] \in Functions[t], Compiles(function[t])
  PROVE  /\ Args(t).config = NotGiven \/ Args(t).schema = NotGiven
         /\ Args(t).config # NotGiven => Embedded(OwnConfig[Args(t).config].schema)
         /\ Args(t).schema # NotGiven => Embedded(Args(t).schema)
         /\ \A i \in DOMAIN function[t].attribute :
              LET arg == function[t].attribute[i]
              IN /\ NamesSchema(arg) => Args(t).schema = Source(arg)
                 /\ NamesSchema(arg) => Args(t).schema # NotGiven
                 /\ arg.key = "config" => Args(t).config # NotGiven
<1> DEFINE list == function[t].attribute
<1>1. list \in Seq(ToSet(list)) /\ ~Parse(list).error /\ Args(t) = Parse(list)
  BY AttributeAssumption DEF Compiles, Args
<1>2. \A arg \in ToSet(list) :
        /\ Meant(arg)
        /\ arg.key = "config" => Embedded(OwnConfig[arg.value].schema)
        /\ NamesSchema(arg) => Embedded(Source(arg))
  BY AttributeAssumption DEF Meant, NamesSchema
<1>3. \A j \in DOMAIN list : list[j] \in ToSet(list)
  BY DEF ToSet
<1> HIDE DEF list
<1>4. /\ Args(t).config = NotGiven \/ Args(t).schema = NotGiven
      /\ Args(t).config # NotGiven =>
           \E j \in DOMAIN list : list[j].key = "config" /\ Args(t).config = list[j].value
      /\ Args(t).schema # NotGiven =>
           \E j \in DOMAIN list : NamesSchema(list[j]) /\ Args(t).schema = Source(list[j])
      /\ \A j \in DOMAIN list :
           /\ list[j].key = "config" => Args(t).config # NotGiven
           /\ NamesSchema(list[j]) => Args(t).schema = Source(list[j])
  BY <1>1, <1>2, ParseSays
<1> QED
  BY <1>2, <1>3, <1>4 DEF list, Meant

LEMMA DiscoveredUsable ==
  ASSUME NEW explicit, NEW ancestors,
         Discovered(explicit, ancestors, disk) # Unset
  PROVE  Usable(Discovered(explicit, ancestors, disk))
<1>1. \A file : Embedded(SchemaSource(file))
  BY AttributeAssumption DEF SchemaSource, Embedded
<1>2. ASSUME NEW root, NEW file, FromFile(root, file) # Unset
      PROVE  Usable(FromFile(root, file))
  BY <1>1, <1>2 DEF FromFile, Usable
<1>3. Usable([Default EXCEPT !.project_root = ancestors[1]])
  BY AttributeAssumption DEF Usable
<1> QED
  BY <1>2, <1>3 DEF Discovered

LEMMA AttributeInit == Init => AttributeInv
<1> SUFFICES ASSUME Init PROVE AttributeInv
  OBVIOUS
<1>1. \A p \in Processes : ~memo[p].read
  BY DEF Init, Empties
<1>2. ASSUME NEW t \in Tests PROVE Declared(t)
  BY DEF Init, Declared
<1> QED
  BY <1>1, <1>2 DEF AttributeInv

LEMMA AttributeStays ==
  ASSUME AttributeInv, UNCHANGED <<function, memo, config>>,
         \A t \in Tests : pc[t] = "rejected" => pc'[t] = "rejected"
  PROVE  AttributeInv'
<1>1. ASSUME NEW t \in Tests PROVE Declared(t)'
  <2>1. Declared(t) /\ Args(t)' = Args(t)
    BY DEF AttributeInv, Args
  <2> QED
    BY <2>1 DEF Declared
<1> QED
  BY <1>1 DEF AttributeInv

LEMMA RecallUsable ==
  ASSUME SetupInv, AttributeInv, NEW t \in Tests, Recall(t).is # Unset
  PROVE  Usable(Recall(t).is)
<1>1. CASE memo[process[t]].read
  BY <1>1 DEF Recall, AttributeInv, SetupInv, Shapes
<1>2. CASE ~memo[process[t]].read
  BY <1>2, DiscoveredUsable DEF Recall
<1> QED
  BY <1>1, <1>2

LEMMA RunDeclares ==
  ASSUME SetupInv, AttributeInv, NEW t \in Tests, Run(t)
  PROVE  AttributeInv'
<1>1. /\ function' = function /\ pc[t] = "config" /\ t \in DOMAIN config
      /\ Goto(t, "url") \/ Goto(t, "panicked")
      /\ \/ /\ Args(t).config # NotGiven /\ UNCHANGED memo
            /\ config' = [config EXCEPT ![t] = OwnConfig[Args(t).config]]
         \/ /\ Args(t).config = NotGiven
            /\ memo' = [memo EXCEPT ![process[t]] = Recall(t)]
            /\ \/ UNCHANGED config
               \/ /\ Recall(t).is # Unset
                  /\ config' = [config EXCEPT ![t] = Overridden(t, Recall(t).is)]
  BY DEF Run, Panic, world, SetupInv, Shapes
<1>2. Declared(t) /\ Compiles(function[t])
  BY <1>1 DEF AttributeInv, Declared
<1>3. Recall(t).is # Unset => Usable(Recall(t).is)
  BY RecallUsable
<1>4. ASSUME NEW p \in Processes, memo'[p].read, memo'[p].is # Unset
      PROVE  Usable(memo'[p].is)
  <2>1. memo'[p] = memo[p] \/ memo'[p] = Recall(t)
    BY <1>1 DEF SetupInv, Shapes
  <2> QED
    BY <1>3, <1>4, <2>1 DEF AttributeInv
<1>5. ASSUME NEW u \in Tests PROVE Declared(u)'
  <2>1. Args(u)' = Args(u) /\ Declared(u)
    BY <1>1 DEF Args, AttributeInv
  <2>2. u # t => pc'[u] = pc[u] /\ config'[u] = config[u]
    BY <1>1 DEF Goto, SetupInv, Shapes
  <2>3. CASE config'[u] = config[u]
    BY <1>1, <1>2, <2>1, <2>2, <2>3 DEF Declared
  <2>4. CASE u = t /\ Args(t).config # NotGiven /\ config'[t] = OwnConfig[Args(t).config]
    BY <1>1, <1>2, <2>1, <2>4, ArgsMean DEF Declared
  <2>5. CASE /\ u = t /\ Args(t).config = NotGiven
             /\ Recall(t).is # Unset /\ config'[t] = Overridden(t, Recall(t).is)
    <3>1. /\ Embedded(config'[t].schema)
          /\ Args(t).schema # NotGiven => config'[t].schema = Args(t).schema
      BY <1>2, <1>3, <2>5, ArgsMean DEF Declared, Overridden, Usable
    <3> QED
      BY <1>1, <1>2, <2>1, <2>5, <3>1 DEF Declared
  <2> QED
    BY <1>1, <2>2, <2>3, <2>4, <2>5
<1> QED
  BY <1>4, <1>5 DEF AttributeInv

LEMMA AttributeInvariant == Spec => []AttributeInv
<1>1. ASSUME SetupInv, AttributeInv, [Next]_vars PROVE AttributeInv'
  <2>1. CASE \E t \in Tests : Run(t)
    BY <1>1, <2>1, RunDeclares
  <2>2. ASSUME NEW t \in Tests,
               Server(t) \/ Load(t) \/ ReadFixture(t) \/ Clone(t)
        PROVE  AttributeInv'
    <3>1. UNCHANGED <<function, memo, config>> /\ pc[t] \in {"url", "load"}
      BY <2>2 DEF Server, Load, Read, ReadFixture, Clone, Panic, world
    <3>2. UNCHANGED pc \/ \E label : Goto(t, label)
      BY <2>2 DEF Server, Load, Read, ReadFixture, Clone, Panic
    <3>3. \A u \in Tests : pc[u] = "rejected" => pc'[u] = "rejected"
      BY <1>1, <3>1, <3>2 DEF Goto, SetupInv, Shapes
    <3> QED
      BY <1>1, <3>1, <3>3, AttributeStays
  <2>3. CASE EditSource \/ EditSettings \/ UNCHANGED vars
    <3>1. UNCHANGED <<function, memo, config, pc>>
      BY <2>3 DEF EditSource, EditSettings, vars, world
    <3> QED
      BY <1>1, <3>1, AttributeStays
  <2> QED
    BY <1>1, <2>1, <2>2, <2>3 DEF Next, Terminating
<1> QED
  BY SetupInvariant, AttributeInit, <1>1, PTL DEF Spec

(* A test runs with the schema its attribute names, whatever the settings   *)
(* say and however many arguments there are (TestArgs::parse, run).         *)
THEOREM AttributeWins == Spec => []AttributeDecides
<1>1. AttributeInv => AttributeDecides
  <2> SUFFICES ASSUME AttributeInv, NEW t \in Tests, config[t] # Unset,
                      NEW i \in DOMAIN function[t].attribute
               PROVE  LET arg == function[t].attribute[i]
                      IN /\ arg.key \in {"migrator", "migrations"} =>
                              config[t].schema = Source(arg)
                         /\ arg.key = "config" =>
                              config[t].schema = OwnConfig[Args(t).config].schema
    BY DEF AttributeDecides
  <2>1. Declared(t) /\ function[t] \in Functions[t] /\ Compiles(function[t])
    BY DEF AttributeInv, Declared
  <2> QED
    BY <2>1, ArgsMean DEF Declared, NamesSchema
<1> QED
  BY AttributeInvariant, <1>1, PTL

-----------------------------------------------------------------------------
(* FlattenSeq's own recursion. *)
Joined(seqs, n, flat) ==
  flat = [i \in 1 .. n |-> IF i = 1 THEN seqs[i] ELSE flat[i - 1] \o seqs[i]]

LEMMA JoinedExists ==
  ASSUME NEW seqs, NEW n \in Nat
  PROVE  \E flat : Joined(seqs, n, flat)
<1> DEFINE T == {k \in 0 .. n : \E flat : Joined(seqs, k, flat)}
<1>1. 0 \in T
  <2>1. 1 .. 0 = {}
    OBVIOUS
  <2>2. Joined(seqs, 0, [i \in 1 .. 0 |-> 0])
    BY <2>1 DEF Joined
  <2> QED
    BY <2>2
<1>2. ASSUME NEW k \in 0 .. n - 1, k \in T PROVE k + 1 \in T
  <2>1. PICK flat : Joined(seqs, k, flat)
    BY <1>2
  <2> DEFINE last == IF k + 1 = 1 THEN seqs[k + 1] ELSE flat[k] \o seqs[k + 1]
             next == [i \in 1 .. k + 1 |-> IF i = k + 1 THEN last ELSE flat[i]]
             val(i) == IF i = 1 THEN seqs[i] ELSE next[i - 1] \o seqs[i]
  <2>2. ASSUME NEW i \in 1 .. k + 1 PROVE next[i] = val(i)
    <3>1. CASE i = k + 1
      <4>1. k + 1 # 1 => k \in 1 .. k + 1 /\ k # k + 1 /\ (k + 1) - 1 = k
        OBVIOUS
      <4>2. k + 1 # 1 => next[k] = flat[k]
        BY <4>1
      <4> HIDE DEF next
      <4>3. next[i] = last
        BY <3>1 DEF next
      <4> QED
        BY <3>1, <4>1, <4>2, <4>3
    <3>2. CASE i # k + 1
      <4>1. i \in 1 .. k
        BY <3>2
      <4>2. next[i] = flat[i] /\ (i # 1 => next[i - 1] = flat[i - 1])
        BY <4>1
      <4>3. flat[i] = IF i = 1 THEN seqs[i] ELSE flat[i - 1] \o seqs[i]
        BY <2>1, <4>1 DEF Joined
      <4> HIDE DEF next
      <4> QED
        BY <4>2, <4>3
    <3> QED
      BY <3>1, <3>2
  <2>3. next = [i \in 1 .. k + 1 |-> next[i]]
    OBVIOUS
  <2> HIDE DEF next
  <2>4. Joined(seqs, k + 1, next)
    BY <2>2, <2>3 DEF Joined
  <2> QED
    BY <1>2, <2>4
<1> HIDE DEF T
<1>3. n \in T
  BY <1>1, <1>2, Climb
<1> QED
  BY <1>3 DEF T

(* What has been joined after i of the sequences. *)
Joins(U, seqs, n, part) ==
  /\ part \in [0 .. n -> Seq(U)]
  /\ part[0] = <<>>
  /\ \A i \in 1 .. n : part[i] = part[i - 1] \o seqs[i]

LEMMA JoinedJoins ==
  ASSUME NEW U, NEW seqs, NEW n \in Nat, NEW flat, Joined(seqs, n, flat),
         \A i \in 1 .. n : seqs[i] \in Seq(U)
  PROVE  Joins(U, seqs, n, [i \in 0 .. n |-> IF i = 0 THEN <<>> ELSE flat[i]])
<1> DEFINE part == [i \in 0 .. n |-> IF i = 0 THEN <<>> ELSE flat[i]]
<1>1. part[0] = <<>>
  OBVIOUS
<1>2. \A i \in 1 .. n : part[i] = flat[i]
  OBVIOUS
<1>3. part = [i \in 0 .. n |-> part[i]]
  OBVIOUS
<1> HIDE DEF part
<1>4. ASSUME NEW i \in 0 .. n - 1, part[i] \in Seq(U)
      PROVE  part[i + 1] = part[i] \o seqs[i + 1]
  <2>1. i + 1 \in 1 .. n /\ (i + 1) - 1 = i /\ (i = 0 \/ i \in 1 .. n)
    OBVIOUS
  <2>2. part[i + 1] = IF i + 1 = 1 THEN seqs[i + 1] ELSE flat[i] \o seqs[i + 1]
    BY <1>2, <2>1 DEF Joined
  <2>3. CASE i = 0
    <3>1. seqs[i + 1] \in Seq(U)
      BY <2>1
    <3>2. <<>> \o seqs[i + 1] = seqs[i + 1]
      BY <3>1
    <3>3. part[i] = <<>> /\ i + 1 = 1
      BY <1>1, <2>3
    <3> QED
      BY <2>2, <3>2, <3>3
  <2>4. CASE i # 0
    <3>1. i + 1 # 1 /\ part[i] = flat[i]
      BY <1>2, <2>1, <2>4
    <3> QED
      BY <2>2, <3>1
  <2> QED
    BY <2>3, <2>4
<1> DEFINE T == {i \in 0 .. n : part[i] \in Seq(U)}
<1>5. \A i \in 0 .. n : i \in T
  <2>1. 0 \in T
    <3>1. part[0] \in Seq(U)
      BY <1>1
    <3> QED
      BY <3>1
  <2>2. ASSUME NEW i \in 0 .. n - 1, i \in T PROVE i + 1 \in T
    <3>1. part[i + 1] = part[i] \o seqs[i + 1]
      BY <1>4, <2>2
    <3>2. part[i] \in Seq(U) /\ seqs[i + 1] \in Seq(U)
      BY <2>2
    <3>3. part[i + 1] \in Seq(U)
      BY <3>1, <3>2
    <3> QED
      BY <3>3
  <2> HIDE DEF T
  <2> QED
    BY <2>1, <2>2, Climb
<1>6. \A i \in 0 .. n : part[i] \in Seq(U)
  BY <1>5
<1>7. part \in [0 .. n -> Seq(U)]
  BY <1>3, <1>6
<1>8. ASSUME NEW i \in 1 .. n PROVE part[i] = part[i - 1] \o seqs[i]
  <2>1. i - 1 \in 0 .. n - 1 /\ i - 1 \in 0 .. n /\ (i - 1) + 1 = i
    OBVIOUS
  <2> QED
    BY <1>4, <1>6, <2>1
<1>9. Joins(U, seqs, n, part)
  BY <1>1, <1>7, <1>8 DEF Joins
<1> QED
  BY <1>9 DEF part

LEMMA FlattenJoins ==
  ASSUME NEW U, NEW seqs \in Seq(Seq(U)), NEW n, n = Len(seqs)
  PROVE  \E part : Joins(U, seqs, n, part) /\ FlattenSeq(seqs) = part[n]
<1> DEFINE flat == CHOOSE flat : Joined(seqs, n, flat)
           part == [i \in 0 .. n |-> IF i = 0 THEN <<>> ELSE flat[i]]
<1>1. n \in Nat
  OBVIOUS
<1>0. \A i \in 1 .. n : seqs[i] \in Seq(U)
  OBVIOUS
<1>2. Joined(seqs, n, flat)
  BY <1>1, JoinedExists
<1>3. n # 0 => FlattenSeq(seqs) = flat[n]
  BY DEF FlattenSeq, Joined
<1>4. n = 0 => FlattenSeq(seqs) = <<>>
  <2>1. n = 0 => FlattenSeq(seqs) = seqs
    BY DEF FlattenSeq
  <2>2. n = 0 => seqs = <<>>
    BY EmptySeq
  <2> QED
    BY <2>1, <2>2
<1> HIDE DEF flat
<1>5. Joins(U, seqs, n, part)
  BY <1>0, <1>1, <1>2, JoinedJoins
<1>6. FlattenSeq(seqs) = part[n]
  BY <1>1, <1>3, <1>4
<1> QED
  BY <1>5, <1>6

(* What has been joined stays at the front. *)
InFront(s, whole) ==
  /\ Len(s) <= Len(whole)
  /\ \A m \in 1 .. Len(s) : whole[m] = s[m]

LEMMA FirstInFront ==
  ASSUME NEW U, NEW s \in Seq(U), NEW t \in Seq(U)
  PROVE  /\ InFront(s, s \o t)
         /\ Len(s \o t) = Len(s) + Len(t)
         /\ \A m \in 1 .. Len(t) : (s \o t)[Len(s) + m] = t[m]
<1>1. \A m \in 1 .. Len(s) : (s \o t)[m] = s[m]
  OBVIOUS
<1>2. Len(s \o t) = Len(s) + Len(t) /\ Len(t) \in Nat /\ Len(s) \in Nat
  OBVIOUS
<1>3. \A m \in 1 .. Len(t) : (s \o t)[Len(s) + m] = t[m]
  OBVIOUS
<1> QED
  BY <1>1, <1>2, <1>3 DEF InFront

LEMMA JoinedInFront ==
  ASSUME NEW U, NEW n \in Nat, NEW seqs, \A i \in 1 .. n : seqs[i] \in Seq(U),
         NEW part, Joins(U, seqs, n, part)
  PROVE  \A i \in 0 .. n : InFront(part[i], part[n])
<1> DEFINE T == {j \in 0 .. n : InFront(part[n - j], part[n])}
<1>1. \A i \in 0 .. n : part[i] \in Seq(U)
  BY DEF Joins
<1>2. \A i \in 1 .. n : part[i] = part[i - 1] \o seqs[i]
  BY DEF Joins
<1>3. 0 \in T
  <2>1. part[n] \in Seq(U) /\ n - 0 = n
    BY <1>1
  <2>2. InFront(part[n], part[n])
    BY <2>1 DEF InFront
  <2> QED
    BY <2>1, <2>2
<1>4. ASSUME NEW j \in 0 .. n - 1, j \in T PROVE j + 1 \in T
  <2>1. PICK i \in 1 .. n : i = n - j
    OBVIOUS
  <2>2. /\ i - 1 \in 0 .. n /\ i \in 0 .. n /\ n \in 0 .. n
        /\ n - (j + 1) = i - 1 /\ j + 1 \in 0 .. n
    BY <2>1
  <2>3. /\ part[i - 1] \in Seq(U) /\ part[i] \in Seq(U) /\ part[n] \in Seq(U)
    BY <1>1, <2>2
  <2>4. seqs[i] \in Seq(U) /\ part[i] = part[i - 1] \o seqs[i]
    BY <1>2
  <2>5. InFront(part[i - 1], part[i])
    BY <2>3, <2>4, FirstInFront
  <2>6. InFront(part[i], part[n])
    BY <1>4, <2>1
  <2>7. /\ Len(part[i - 1]) \in Nat /\ Len(part[i]) \in Nat /\ Len(part[n]) \in Nat
    BY <2>3
  <2>8. InFront(part[i - 1], part[n])
    BY <2>5, <2>6, <2>7 DEF InFront
  <2> QED
    BY <2>2, <2>8
<1> HIDE DEF T
<1>5. \A j \in 0 .. n : j \in T
  BY <1>3, <1>4, Climb
<1>6. ASSUME NEW i \in 0 .. n PROVE InFront(part[i], part[n])
  <2>1. n - i \in 0 .. n /\ n - (n - i) = i
    OBVIOUS
  <2> QED
    BY <1>5, <2>1 DEF T
<1> QED
  BY <1>6

(* Codes of which none begins another: what is joined from them can be      *)
(* taken apart in one way.                                                  *)
Agree(x, y) == \A m \in 1 .. Len(x) : m <= Len(y) => x[m] = y[m]

PrefixFree(Codes) ==
  /\ \A x \in Codes : Len(x) > 0
  /\ \A x, y \in Codes : Agree(x, y) => x = y

LEMMA PiecesAgree ==
  ASSUME NEW U, NEW front \in Seq(U), NEW x \in Seq(U), NEW y \in Seq(U), NEW whole,
         InFront(front \o x, whole), InFront(front \o y, whole)
  PROVE  Agree(x, y)
<1> SUFFICES ASSUME NEW m \in 1 .. Len(x), m <= Len(y) PROVE x[m] = y[m]
  BY DEF Agree
<1>1. ASSUME NEW z \in Seq(U), m \in 1 .. Len(z), InFront(front \o z, whole)
      PROVE  whole[Len(front) + m] = z[m]
  <2>1. Len(front \o z) = Len(front) + Len(z) /\ (front \o z)[Len(front) + m] = z[m]
    BY <1>1, FirstInFront
  <2>2. Len(front) \in Nat /\ Len(z) \in Nat
    OBVIOUS
  <2>3. Len(front) + m \in 1 .. Len(front \o z)
    BY <1>1, <2>1, <2>2
  <2> QED
    BY <1>1, <2>1, <2>3 DEF InFront
<1>2. m \in 1 .. Len(y)
  OBVIOUS
<1> QED
  BY <1>1, <1>2

StartsAlike(a, n, b, k) == n <= k /\ \A i \in 1 .. n : a[i] = b[i]

LEMMA TakenApart ==
  ASSUME NEW U, NEW Codes, Codes \subseteq Seq(U), PrefixFree(Codes),
         NEW a, NEW n \in Nat, \A i \in 1 .. n : a[i] \in Codes,
         NEW b, NEW k \in Nat, \A i \in 1 .. k : b[i] \in Codes,
         NEW p, Joins(U, a, n, p), NEW q, Joins(U, b, k, q), p[n] = q[k]
  PROVE  StartsAlike(a, n, b, k)
<1> DEFINE T == {i \in 0 .. n : i <= k /\ p[i] = q[i] /\ (i # 0 => a[i] = b[i])}
<1>1. /\ \A i \in 0 .. n : p[i] \in Seq(U)
      /\ p[0] = <<>> /\ \A i \in 1 .. n : p[i] = p[i - 1] \o a[i]
  BY DEF Joins
<1>2. /\ \A i \in 0 .. k : q[i] \in Seq(U)
      /\ q[0] = <<>> /\ \A i \in 1 .. k : q[i] = q[i - 1] \o b[i]
  BY DEF Joins
<1>3. (\A i \in 0 .. n : InFront(p[i], p[n])) /\ (\A i \in 0 .. k : InFront(q[i], p[n]))
  <2>1. (\A i \in 1 .. n : a[i] \in Seq(U)) /\ (\A i \in 1 .. k : b[i] \in Seq(U))
    OBVIOUS
  <2> QED
    BY <2>1, JoinedInFront
<1>4. 0 \in T
  BY <1>1, <1>2
<1>5. ASSUME NEW i \in 0 .. n - 1, i \in T PROVE i + 1 \in T
  <2>1. i + 1 \in 1 .. n /\ i + 1 \in 0 .. n /\ (i + 1) - 1 = i /\ i \in 0 .. n /\ n \in 0 .. n
    OBVIOUS
  <2>2. /\ p[i] \in Seq(U) /\ p[i] = q[i] /\ i <= k
        /\ a[i + 1] \in Codes /\ a[i + 1] \in Seq(U)
        /\ p[i + 1] = p[i] \o a[i + 1] /\ InFront(p[i + 1], p[n])
    BY <1>1, <1>3, <1>5, <2>1
  <2>3. i # k
    <3> SUFFICES ASSUME i = k PROVE FALSE
      OBVIOUS
    <3> DEFINE short == Len(p[i])
               more  == Len(a[i + 1])
    <3>1. p[n] = p[i]
      BY <2>2
    <3>2. Len(p[i + 1]) = short + more
      BY <2>2, FirstInFront
    <3>3. Len(p[i + 1]) <= short
      BY <2>2, <3>1 DEF InFront
    <3>4. short \in Nat /\ more \in Nat
      BY <2>2
    <3>5. more > 0
      BY <2>2 DEF PrefixFree
    <3> HIDE DEF short, more
    <3> QED
      BY <3>2, <3>3, <3>4, <3>5
  <2>4. i + 1 \in 1 .. k /\ i + 1 \in 0 .. k
    BY <2>2, <2>3
  <2>5. /\ b[i + 1] \in Codes /\ b[i + 1] \in Seq(U)
        /\ q[i + 1] = p[i] \o b[i + 1] /\ InFront(q[i + 1], p[n])
    BY <1>2, <1>3, <2>1, <2>2, <2>4
  <2>6. a[i + 1] = b[i + 1]
    <3>1. Agree(a[i + 1], b[i + 1])
      BY <2>2, <2>5, PiecesAgree
    <3> QED
      BY <2>2, <2>5, <3>1 DEF PrefixFree
  <2>7. p[i + 1] = q[i + 1] /\ i + 1 <= k
    BY <2>2, <2>4, <2>5, <2>6
  <2> QED
    BY <2>1, <2>6, <2>7
<1> HIDE DEF T
<1>6. \A i \in 0 .. n : i \in T
  BY <1>4, <1>5, Climb
<1>7. n <= k
  <2>1. n \in T
    BY <1>6
  <2> QED
    BY <2>1 DEF T
<1>8. ASSUME NEW i \in 1 .. n PROVE a[i] = b[i]
  <2>1. i \in T /\ i # 0
    BY <1>6
  <2> QED
    BY <2>1 DEF T
<1> QED
  BY <1>7, <1>8 DEF StartsAlike

LEMMA FlattenApart ==
  ASSUME NEW U, NEW Codes, Codes \subseteq Seq(U), PrefixFree(Codes),
         NEW a \in Seq(Codes), NEW b \in Seq(Codes)
  PROVE  /\ FlattenSeq(a) \in Seq(U)
         /\ FlattenSeq(a) = FlattenSeq(b) => a = b
<1>1. PICK n \in Nat, k \in Nat : n = Len(a) /\ k = Len(b)
  OBVIOUS
<1>2. /\ \A i \in 1 .. n : a[i] \in Codes
      /\ \A i \in 1 .. k : b[i] \in Codes
  BY <1>1
<1>3. a \in Seq(Seq(U)) /\ b \in Seq(Seq(U))
  OBVIOUS
<1>4. PICK p : Joins(U, a, n, p) /\ FlattenSeq(a) = p[n]
  BY <1>1, <1>3, FlattenJoins
<1>5. PICK q : Joins(U, b, k, q) /\ FlattenSeq(b) = q[k]
  BY <1>1, <1>3, FlattenJoins
<1>6. FlattenSeq(a) \in Seq(U)
  <2>1. n \in 0 .. n
    OBVIOUS
  <2> QED
    BY <1>4, <2>1 DEF Joins
<1>7. ASSUME FlattenSeq(a) = FlattenSeq(b) PROVE a = b
  <2>1. p[n] = q[k]
    BY <1>4, <1>5, <1>7
  <2>2. StartsAlike(a, n, b, k)
    BY <1>2, <1>4, <1>5, <2>1, TakenApart
  <2>3. StartsAlike(b, k, a, n)
    BY <1>2, <1>4, <1>5, <2>1, TakenApart
  <2>5. Len(a) = Len(b) /\ \A i \in 1 .. Len(a) : a[i] = b[i]
    BY <1>1, <2>2, <2>3 DEF StartsAlike
  <2> QED
    BY <2>5, SeqEqual
<1> QED
  BY <1>6, <1>7

(* What the digest is given for one part of a schema. *)
Symbols == Int \cup BOOLEAN \cup Chars \cup {"none", "sql", "migrations"}

Part(kind) == IF kind = "sql" THEN Texts ELSE Migrations

Block(kind, part) ==
  IF kind = "sql" THEN Framed(part)
  ELSE <<part.version, part.down>> \o Framed(part.sql)

LEMMA FramedText ==
  ASSUME NEW x \in Texts
  PROVE  /\ Framed(x) \in Seq(Symbols) /\ Len(Framed(x)) = Len(x) + 1
         /\ Framed(x)[1] = Len(x) /\ \A m \in 1 .. Len(x) : Framed(x)[m + 1] = x[m]
<1>1. x \in Seq(Symbols) /\ <<Len(x)>> \in Seq(Symbols)
  BY DEF Texts, Symbols
<1>2. Framed(x) = <<Len(x)>> \o x
  BY DEF Framed
<1> QED
  BY <1>1, <1>2

LEMMA MigrationBlock ==
  ASSUME NEW m \in Migrations
  PROVE  LET block == <<m.version, m.down>> \o Framed(m.sql)
         IN /\ block \in Seq(Symbols) /\ Len(block) = Len(m.sql) + 3
            /\ block[1] = m.version /\ block[2] = m.down /\ block[3] = Len(m.sql)
            /\ \A i \in 1 .. Len(m.sql) : block[i + 3] = m.sql[i]
<1> DEFINE head  == <<m.version, m.down>>
           frame == Framed(m.sql)
           n     == Len(m.sql)
<1>1. m.sql \in Texts /\ m.version \in Int /\ m.down \in BOOLEAN
  BY DEF Migrations
<1>2. head \in Seq(Symbols) /\ Len(head) = 2 /\ head[1] = m.version /\ head[2] = m.down
  BY <1>1 DEF Symbols
<1>3. frame \in Seq(Symbols) /\ Len(frame) = n + 1 /\ n \in Nat
  BY <1>1, FramedText DEF Texts
<1>4. frame[1] = n /\ \A i \in 1 .. n : frame[i + 1] = m.sql[i]
  BY <1>1, FramedText
<1> HIDE DEF head, frame, n
<1>5. /\ head \o frame \in Seq(Symbols) /\ Len(head \o frame) = n + 3
      /\ (head \o frame)[1] = m.version /\ (head \o frame)[2] = m.down
      /\ \A i \in 1 .. n + 1 : (head \o frame)[i + 2] = frame[i]
  <2>1. /\ InFront(head, head \o frame)
        /\ Len(head \o frame) = Len(head) + Len(frame)
        /\ \A i \in 1 .. Len(frame) : (head \o frame)[Len(head) + i] = frame[i]
    <3>1. PICK a \in Seq(Symbols), b \in Seq(Symbols) : a = head /\ b = frame
      BY <1>2, <1>3
    <3>2. /\ InFront(a, a \o b) /\ Len(a \o b) = Len(a) + Len(b)
          /\ \A i \in 1 .. Len(b) : (a \o b)[Len(a) + i] = b[i]
      BY FirstInFront
    <3> QED
      BY <3>1, <3>2
  <2>2. (head \o frame)[1] = head[1] /\ (head \o frame)[2] = head[2]
    BY <1>2, <2>1 DEF InFront
  <2>3. \A i \in 1 .. n + 1 : (head \o frame)[i + 2] = frame[i]
    <3>1. \A i \in 1 .. n + 1 : 2 + i = i + 2
      BY <1>3
    <3> QED
      BY <1>2, <1>3, <2>1, <3>1
  <2>4. Len(head \o frame) = n + 3 /\ head \o frame \in Seq(Symbols)
    BY <1>2, <1>3, <2>1
  <2> QED
    BY <1>2, <2>2, <2>3, <2>4
<1>6. (head \o frame)[3] = n
  <2>1. 1 \in 1 .. n + 1 /\ 1 + 2 = 3
    BY <1>3
  <2> QED
    BY <1>4, <1>5, <2>1
<1>7. ASSUME NEW i \in 1 .. n PROVE (head \o frame)[i + 3] = m.sql[i]
  <2>1. i + 1 \in 1 .. n + 1 /\ (i + 1) + 2 = i + 3
    BY <1>3
  <2> QED
    BY <1>4, <1>5, <2>1
<1> QED
  BY <1>5, <1>6, <1>7 DEF head, frame, n

LEMMA BlocksTell ==
  ASSUME NEW kind, NEW x \in Part(kind), NEW y \in Part(kind)
  PROVE  /\ Block(kind, x) \in Seq(Symbols) /\ Len(Block(kind, x)) > 0
         /\ Agree(Block(kind, x), Block(kind, y)) => x = y
<1>1. CASE kind = "sql"
  <2>1. x \in Texts /\ y \in Texts /\ Len(x) \in Nat /\ Len(y) \in Nat
    BY <1>1 DEF Part, Texts
  <2>2. Block(kind, x) = Framed(x) /\ Block(kind, y) = Framed(y)
    BY <1>1 DEF Block
  <2>3. ASSUME Agree(Framed(x), Framed(y)) PROVE x = y
    <3>1. 1 \in 1 .. Len(Framed(x)) /\ 1 <= Len(Framed(y))
      BY <2>1, FramedText
    <3>2. Len(x) = Len(y)
      BY <2>1, <2>3, <3>1, FramedText DEF Agree
    <3>3. ASSUME NEW m \in 1 .. Len(x) PROVE x[m] = y[m]
      <4>1. m + 1 \in 1 .. Len(Framed(x)) /\ m + 1 <= Len(Framed(y)) /\ m \in 1 .. Len(y)
        BY <2>1, <3>2, FramedText
      <4>2. Framed(x)[m + 1] = Framed(y)[m + 1]
        BY <2>3, <4>1 DEF Agree
      <4> QED
        BY <2>1, <4>1, <4>2, FramedText
    <3> QED
      BY <2>1, <3>2, <3>3 DEF Texts
  <2> QED
    BY <2>1, <2>2, <2>3, FramedText
<1>2. CASE kind # "sql"
  <2> DEFINE b == <<x.version, x.down>> \o Framed(x.sql)
             c == <<y.version, y.down>> \o Framed(y.sql)
  <2>1. x \in Migrations /\ y \in Migrations
    BY <1>2 DEF Part
  <2>2. /\ x.sql \in Texts /\ y.sql \in Texts
        /\ Len(x.sql) \in Nat /\ Len(y.sql) \in Nat
    BY <2>1 DEF Migrations, Texts
  <2>3. Block(kind, x) = b /\ Block(kind, y) = c
    BY <1>2 DEF Block
  <2>4. /\ b \in Seq(Symbols) /\ Len(b) = Len(x.sql) + 3
        /\ b[1] = x.version /\ b[2] = x.down /\ b[3] = Len(x.sql)
        /\ \A i \in 1 .. Len(x.sql) : b[i + 3] = x.sql[i]
    BY <2>1, MigrationBlock
  <2>5. /\ Len(c) = Len(y.sql) + 3
        /\ c[1] = y.version /\ c[2] = y.down /\ c[3] = Len(y.sql)
        /\ \A i \in 1 .. Len(y.sql) : c[i + 3] = y.sql[i]
    BY <2>1, MigrationBlock
  <2> HIDE DEF b, c
  <2>6. ASSUME Agree(b, c) PROVE x = y
    <3>1. \A m \in {1, 2, 3} : m \in 1 .. Len(b) /\ m <= Len(c)
      BY <2>2, <2>4, <2>5
    <3>2. b[1] = c[1] /\ b[2] = c[2] /\ b[3] = c[3]
      BY <2>6, <3>1 DEF Agree
    <3>3. Len(x.sql) = Len(y.sql)
      BY <2>4, <2>5, <3>2
    <3>4. ASSUME NEW m \in 1 .. Len(x.sql) PROVE x.sql[m] = y.sql[m]
      <4>1. m + 3 \in 1 .. Len(b) /\ m + 3 <= Len(c) /\ m \in 1 .. Len(y.sql)
        BY <2>2, <2>4, <2>5, <3>3
      <4>2. b[m + 3] = c[m + 3]
        BY <2>6, <4>1 DEF Agree
      <4> QED
        BY <2>4, <2>5, <4>1, <4>2
    <3>5. x.sql = y.sql
      BY <2>2, <3>3, <3>4 DEF Texts
    <3>6. /\ x = [version |-> x.version, down |-> x.down, sql |-> x.sql]
          /\ y = [version |-> y.version, down |-> y.down, sql |-> y.sql]
      BY <2>1 DEF Migrations
    <3> QED
      BY <2>4, <2>5, <3>2, <3>5, <3>6
  <2> QED
    BY <2>2, <2>3, <2>4, <2>6
<1> QED
  BY <1>1, <1>2

(* A loaded schema, and what its digest is computed from.                   *)
LoadedSchemas ==
  {NoSchema} \cup {SqlTexts(texts) : texts \in Seq(Texts)}
             \cup {Migrator(steps) : steps \in Seq(Migrations)}

Blocks(schema) == [i \in DOMAIN schema.parts |-> Block(schema.kind, schema.parts[i])]

LEMMA LoadedShape ==
  ASSUME NEW l \in LoadedSchemas
  PROVE  /\ l = [kind |-> l.kind, parts |-> l.parts]
         /\ l.kind \in {"none", "sql", "migrations"}
         /\ l.parts \in Seq(Part(l.kind))
         /\ HashInput(l) = <<l.kind>> \o FlattenSeq(Blocks(l))
<1> DEFINE Shaped(x) == /\ x = [kind |-> x.kind, parts |-> x.parts]
                        /\ x.kind \in {"none", "sql", "migrations"}
                        /\ x.parts \in Seq(Part(x.kind))
<1>1. Shaped(l)
  <2>1. Shaped(NoSchema)
    BY DEF NoSchema, Part
  <2>2. \A texts \in Seq(Texts) : Shaped(SqlTexts(texts))
    BY DEF SqlTexts, Part
  <2>3. \A steps \in Seq(Migrations) : Shaped(Migrator(steps))
    BY DEF Migrator, Part
  <2> HIDE DEF Shaped
  <2> QED
    BY <2>1, <2>2, <2>3 DEF LoadedSchemas
<1>2. HashInput(l) = <<l.kind>> \o FlattenSeq(Blocks(l))
  BY DEF HashInput, Blocks, Block
<1> QED
  BY <1>1, <1>2

-----------------------------------------------------------------------------
CodesOf(kind) == {Block(kind, x) : x \in Part(kind)}

LEMMA CodesApart ==
  ASSUME NEW kind
  PROVE  CodesOf(kind) \subseteq Seq(Symbols) /\ PrefixFree(CodesOf(kind))
<1>1. \A x \in CodesOf(kind) : x \in Seq(Symbols) /\ Len(x) > 0
  BY BlocksTell DEF CodesOf
<1>2. ASSUME NEW x \in CodesOf(kind), NEW y \in CodesOf(kind), Agree(x, y) PROVE x = y
  <2>1. PICK p \in Part(kind), q \in Part(kind) : x = Block(kind, p) /\ y = Block(kind, q)
    BY DEF CodesOf
  <2>2. p = q
    BY <1>2, <2>1, BlocksTell
  <2> QED
    BY <2>1, <2>2
<1> QED
  BY <1>1, <1>2 DEF PrefixFree

LEMMA BlocksCoded ==
  ASSUME NEW l \in LoadedSchemas
  PROVE  Blocks(l) \in Seq(CodesOf(l.kind))
<1>1. PICK n \in Nat : l.parts \in [1 .. n -> Part(l.kind)]
  BY LoadedShape, LenProperties
<1>2. Blocks(l) = [i \in 1 .. n |-> Block(l.kind, l.parts[i])]
  BY <1>1 DEF Blocks
<1>3. \A i \in 1 .. n : Block(l.kind, l.parts[i]) \in CodesOf(l.kind)
  BY <1>1 DEF CodesOf
<1> QED
  BY <1>2, <1>3, IsASeq

LEMMA HeadTells ==
  ASSUME NEW U, NEW f \in Seq(U), NEW g \in Seq(U), NEW k \in U, NEW m \in U,
         <<k>> \o f = <<m>> \o g
  PROVE  k = m /\ f = g
<1>1. \A h \in Seq(U), x \in U :
        /\ (<<x>> \o h)[1] = x /\ Len(<<x>> \o h) = Len(h) + 1
        /\ \A i \in 1 .. Len(h) : (<<x>> \o h)[i + 1] = h[i]
  OBVIOUS
<1>2. k = m /\ Len(f) + 1 = Len(g) + 1
  BY <1>1
<1>3. Len(f) = Len(g)
  BY <1>2
<1>4. \A i \in 1 .. Len(f) : f[i] = g[i]
  BY <1>1, <1>3
<1> QED
  BY <1>2, <1>3, <1>4, SeqEqual

(* The digest tells two schemas apart.                                      *)
LEMMA DigestTells ==
  ASSUME NEW a \in LoadedSchemas, NEW b \in LoadedSchemas,
         HashInput(a) = HashInput(b)
  PROVE  a = b
<1>1. /\ FlattenSeq(Blocks(a)) \in Seq(Symbols)
      /\ FlattenSeq(Blocks(b)) \in Seq(Symbols)
  BY CodesApart, BlocksCoded, FlattenApart
<1>2. a.kind \in Symbols /\ b.kind \in Symbols
  BY LoadedShape DEF Symbols
<1>3. <<a.kind>> \o FlattenSeq(Blocks(a)) = <<b.kind>> \o FlattenSeq(Blocks(b))
  BY LoadedShape
<1>4. a.kind = b.kind /\ FlattenSeq(Blocks(a)) = FlattenSeq(Blocks(b))
  BY <1>1, <1>2, <1>3, HeadTells
<1>5. PICK kind : kind = a.kind /\ kind = b.kind
  BY <1>4
<1>6. Blocks(a) \in Seq(CodesOf(kind)) /\ Blocks(b) \in Seq(CodesOf(kind))
  BY <1>5, BlocksCoded
<1>7. Blocks(a) = Blocks(b)
  BY <1>4, <1>6, CodesApart, FlattenApart
<1>8. a.parts \in Seq(Part(kind)) /\ b.parts \in Seq(Part(kind))
  BY <1>5, LoadedShape
<1>9. PICK n \in Nat : /\ Len(a.parts) = n /\ DOMAIN a.parts = 1 .. n
                       /\ \A i \in 1 .. n : a.parts[i] \in Part(kind)
  BY <1>8, LenProperties
<1>10. PICK k \in Nat : /\ Len(b.parts) = k /\ DOMAIN b.parts = 1 .. k
                        /\ \A i \in 1 .. k : b.parts[i] \in Part(kind)
  BY <1>8, LenProperties
<1>11. 1 .. n = 1 .. k
  <2>1. DOMAIN Blocks(a) = 1 .. n /\ DOMAIN Blocks(b) = 1 .. k
    BY <1>9, <1>10 DEF Blocks
  <2> QED
    BY <1>7, <2>1
<1>12. n = k
  <2>1. \A i \in Nat : i \in 1 .. n <=> i \in 1 .. k
    BY <1>11
  <2>2. n \in 1 .. n => n <= k
    BY <2>1
  <2>3. k \in 1 .. k => k <= n
    BY <2>1
  <2> QED
    BY <2>2, <2>3
<1>13. ASSUME NEW i \in 1 .. n PROVE a.parts[i] = b.parts[i]
  <2>1. Block(kind, a.parts[i]) = Block(kind, b.parts[i])
    <3>1. /\ Blocks(a)[i] = Block(kind, a.parts[i])
          /\ Blocks(b)[i] = Block(kind, b.parts[i])
      BY <1>5, <1>9, <1>10, <1>12 DEF Blocks
    <3> QED
      BY <1>7, <3>1
  <2>2. a.parts[i] \in Part(kind) /\ b.parts[i] \in Part(kind)
    BY <1>9, <1>10, <1>12
  <2>3. Agree(Block(kind, a.parts[i]), Block(kind, b.parts[i]))
    BY <2>1 DEF Agree
  <2> QED
    BY <2>2, <2>3, BlocksTell
<1>14. a.parts = b.parts
  BY <1>8, <1>9, <1>10, <1>12, <1>13, SeqEqual
<1> QED
  BY <1>4, <1>14, LoadedShape

-----------------------------------------------------------------------------
(* What a test has read is a schema, and every template on the server was   *)
(* built from one that has its digest.                                      *)
ReadRight(t) ==
  /\ loaded[t] \in LoadedSchemas
  /\ pc[t] = "config" => loaded[t] = NoSchema
  /\ pc[t] \in {"url", "load"} =>
       /\ Embedded(config[t].schema)
       /\ config[t].schema.kind = "sql" => loaded[t].kind # "migrations"
  /\ pc[t] = "cloned" => cloned[t] = Applied(loaded[t])

Built(name, content) ==
  \E l \in LoadedSchemas : name[2] = HashInput(l) /\ content = Applied(l)

SourceShape ==
  /\ DOMAIN source = DOMAIN Contents
  /\ source = [path \in DOMAIN Contents |-> source[path]]
  /\ \A path \in DOMAIN Contents : source[path] \in Contents[path]

DigestInv ==
  /\ SourceShape
  /\ DOMAIN loaded = Tests /\ loaded = [t \in Tests |-> loaded[t]]
  /\ DOMAIN cloned = Tests /\ cloned = [t \in Tests |-> cloned[t]]
  /\ \A t \in Tests : ReadRight(t)
  /\ \A name \in DOMAIN templates : Built(name, templates[name])

LEMMA DigestInit == Init => DigestInv
<1> SUFFICES ASSUME Init PROVE DigestInv
  OBVIOUS
<1>1. SourceShape
  <2>1. \A path \in DOMAIN Contents :
          (CHOOSE x \in Contents[path] : x # Unset) \in Contents[path]
    BY SourceAssumption
  <2> QED
    BY <2>1 DEF Init, SourceShape
<1>2. ASSUME NEW t \in Tests PROVE ReadRight(t)
  <2>1. pc[t] \in {"config", "rejected"} /\ loaded[t] = NoSchema
    BY DEF Init
  <2> QED
    BY <2>1 DEF ReadRight, LoadedSchemas
<1>3. DOMAIN templates = {}
  BY DEF Init
<1>4. /\ DOMAIN loaded = Tests /\ loaded = [t \in Tests |-> loaded[t]]
      /\ DOMAIN cloned = Tests /\ cloned = [t \in Tests |-> cloned[t]]
  BY DEF Init
<1> QED
  BY <1>1, <1>2, <1>3, <1>4 DEF DigestInv

(* What can be read is of the kind that was asked for.                      *)
LEMMA ReadableKind ==
  ASSUME DigestInv, NEW path
  PROVE  /\ Readable(path, Scripts) => source[path] \in Texts
         /\ Readable(path, Directories) => source[path] \in Seq(Migrations)
<1>1. \A p \in DOMAIN Contents :
        source[p] # Unset => source[p] \in Contents[p] \ {Unset}
  BY DEF DigestInv, SourceShape
<1> QED
  BY <1>1, SourceAssumption DEF Readable, Scripts

(* A step of one test that neither loads nor clones.                        *)
LEMMA NothingRead ==
  ASSUME SetupInv, DigestInv, NEW t \in Tests, UNCHANGED <<source, loaded, cloned, templates>>,
         \A u \in Tests \ {t} : pc'[u] = pc[u] /\ config'[u] = config[u],
         \/ pc[t] = "config" /\ pc'[t] = "url" /\ Embedded(config'[t].schema)
         \/ pc[t] = "url" /\ pc'[t] = "load" /\ config'[t] = config[t]
         \/ pc'[t] = pc[t] /\ config'[t] = config[t]
         \/ pc'[t] = "panicked"
  PROVE  DigestInv'
<1>1. ASSUME NEW u \in Tests PROVE ReadRight(u)'
  <2>1. ReadRight(u) /\ loaded'[u] = loaded[u] /\ cloned'[u] = cloned[u]
    BY DEF DigestInv
  <2>2. CASE u = t
    <3>1. NoSchema.kind # "migrations"
      BY DEF NoSchema
    <3> QED
      BY <2>1, <2>2, <3>1 DEF ReadRight
  <2>3. CASE u # t
    BY <2>1, <2>3 DEF ReadRight
  <2> QED
    BY <2>2, <2>3
<1> QED
  BY <1>1 DEF DigestInv, SourceShape

LEMMA LoadReads ==
  ASSUME SetupInv, AttributeInv, DigestInv, NEW t \in Tests, Load(t)
  PROVE  DigestInv'
<1> DEFINE schema == config[t].schema
           next   == schema.from[Len(loaded[t].parts) + 1]
<1>1. /\ pc[t] = "load" /\ UNCHANGED config
      /\ \/ Panic(t)
         \/ /\ UNCHANGED <<world, pc, fixtures, templates, cloned>>
            /\ \/ /\ schema.kind = "sql" /\ Readable(next, Scripts)
                  /\ loaded' = [loaded EXCEPT ![t] =
                                  SqlTexts(Append(loaded[t].parts, source[next]))]
               \/ /\ schema.kind = "migrations" /\ Readable(schema.from, Directories)
                  /\ loaded' = [loaded EXCEPT ![t] = Migrator(source[schema.from])]
               \/ /\ schema.kind = "migrator"
                  /\ loaded' = [loaded EXCEPT ![t] = Migrator(Migrators[schema.from])]
  BY DEF Load, Read
<1>2. CASE Panic(t)
  <2>1. /\ pc'[t] = "panicked"
        /\ \A u \in Tests \ {t} : pc'[u] = pc[u] /\ config'[u] = config[u]
    BY <1>1, <1>2 DEF Panic, Goto, SetupInv, Shapes
  <2>2. UNCHANGED <<source, loaded, cloned, templates>>
    BY <1>2 DEF Panic, world
  <2> QED
    BY <2>1, <2>2, NothingRead
<1>3. ASSUME NEW l \in LoadedSchemas, schema.kind = "sql" => l.kind # "migrations",
             UNCHANGED <<world, pc, fixtures, templates, cloned>>,
             loaded' = [loaded EXCEPT ![t] = l]
      PROVE  DigestInv'
  <2>1. UNCHANGED <<source, pc, templates, cloned, config>>
    BY <1>1, <1>3 DEF world
  <2>2. ASSUME NEW u \in Tests PROVE ReadRight(u)'
    <3>1. ReadRight(u) /\ loaded'[u] = IF u = t THEN l ELSE loaded[u]
      BY <1>3 DEF DigestInv
    <3>2. CASE u = t
      BY <1>1, <1>3, <2>1, <3>1, <3>2 DEF ReadRight
    <3>3. CASE u # t
      BY <2>1, <3>1, <3>3 DEF ReadRight
    <3> QED
      BY <3>2, <3>3
  <2>3. DOMAIN loaded' = Tests /\ loaded' = [u \in Tests |-> loaded'[u]]
    BY <1>3 DEF DigestInv
  <2> QED
    BY <2>1, <2>2, <2>3 DEF DigestInv, SourceShape
<1>4. ReadRight(t)
  BY DEF DigestInv
<1>5. CASE schema.kind = "sql" /\ Readable(next, Scripts)
  <2> DEFINE texts == loaded[t].parts
             l     == SqlTexts(Append(texts, source[next]))
  <2>1. loaded[t].kind \in {"none", "sql"}
    BY <1>1, <1>4, <1>5, LoadedShape DEF ReadRight
  <2>2. texts \in Seq(Texts)
    <3>1. loaded[t] \in LoadedSchemas
      BY <1>4 DEF ReadRight
    <3>2. CASE loaded[t] = NoSchema
      BY <3>2 DEF NoSchema
    <3>3. CASE loaded[t] # NoSchema
      <4>1. \A s : Migrator(s).kind = "migrations" /\ SqlTexts(s).parts = s
        BY DEF Migrator, SqlTexts
      <4>2. \E s \in Seq(Texts) : loaded[t] = SqlTexts(s)
        BY <2>1, <3>1, <3>3, <4>1 DEF LoadedSchemas
      <4> QED
        BY <4>1, <4>2
    <3> QED
      BY <3>2, <3>3
  <2>3. l \in LoadedSchemas /\ l.kind # "migrations"
    <3>1. source[next] \in Texts
      BY <1>5, ReadableKind
    <3>2. Append(texts, source[next]) \in Seq(Texts)
      BY <2>2, <3>1
    <3> HIDE DEF texts, next
    <3>3. l.kind = "sql"
      BY DEF SqlTexts
    <3> QED
      BY <3>2, <3>3 DEF LoadedSchemas
  <2>4. schema.kind # "migrations" /\ schema.kind # "migrator"
    BY <1>5
  <2> HIDE DEF schema, next
  <2> QED
    BY <1>1, <1>2, <1>3, <2>3, <2>4
<1>6. CASE schema.kind = "migrations" /\ Readable(schema.from, Directories)
  <2>1. Migrator(source[schema.from]) \in LoadedSchemas
    BY <1>6, ReadableKind DEF LoadedSchemas
  <2> HIDE DEF schema, next
  <2> QED
    BY <1>1, <1>2, <1>3, <1>6, <2>1
<1>7. CASE schema.kind = "migrator"
  <2>1. Embedded(schema)
    BY <1>1, <1>4 DEF ReadRight
  <2>2. Migrator(Migrators[schema.from]) \in LoadedSchemas
    BY <1>7, <2>1, SourceAssumption DEF LoadedSchemas, Embedded
  <2> HIDE DEF schema, next
  <2> QED
    BY <1>1, <1>2, <1>3, <1>7, <2>2
<1> HIDE DEF schema, next
<1> QED
  BY <1>1, <1>2, <1>5, <1>6, <1>7

LEMMA CloneMatches ==
  ASSUME SetupInv, DigestInv, NEW t \in Tests, Clone(t)
  PROVE  DigestInv'
<1> DEFINE mine == TemplateOf(t)
           content == Applied(loaded[t])
<1>1. /\ templates' = [name \in DOMAIN templates \cup {mine} |->
                         IF name \in DOMAIN templates THEN templates[name] ELSE content]
      /\ cloned' = [cloned EXCEPT ![t] = templates'[mine]]
      /\ Goto(t, "cloned") /\ UNCHANGED <<source, config, loaded>>
  BY DEF Clone, world
<1>2. loaded[t] \in LoadedSchemas /\ mine[2] = HashInput(loaded[t])
  BY DEF DigestInv, ReadRight, TemplateOf
<1>3. Built(mine, content)
  BY <1>2 DEF Built
<1> HIDE DEF mine
<1>4. ASSUME NEW name \in DOMAIN templates' PROVE Built(name, templates'[name])
  <2>1. CASE name \in DOMAIN templates
    BY <1>1, <2>1 DEF DigestInv
  <2>2. CASE name \notin DOMAIN templates
    <3>1. name = mine /\ templates'[name] = content
      BY <1>1, <2>2
    <3> QED
      BY <1>3, <3>1
  <2> QED
    BY <2>1, <2>2
<1>5. templates'[mine] = content
  <2>1. PICK l \in LoadedSchemas : mine[2] = HashInput(l) /\ templates'[mine] = Applied(l)
    <3>1. mine \in DOMAIN templates'
      BY <1>1
    <3> QED
      BY <1>4, <3>1 DEF Built
  <2>2. l = loaded[t]
    BY <1>2, <2>1, DigestTells
  <2> QED
    BY <2>1, <2>2
<1>6. ASSUME NEW u \in Tests PROVE ReadRight(u)'
  <2>1. ReadRight(u) /\ loaded'[u] = loaded[u]
    BY <1>1 DEF DigestInv
  <2>2. CASE u = t
    <3>1. cloned'[u] = content /\ pc'[u] = "cloned"
      BY <1>1, <1>5, <2>2 DEF DigestInv, Goto, SetupInv, Shapes
    <3> QED
      BY <2>1, <2>2, <3>1 DEF ReadRight
  <2>3. CASE u # t
    <3>1. cloned'[u] = cloned[u] /\ pc'[u] = pc[u] /\ config'[u] = config[u]
      BY <1>1, <2>3 DEF DigestInv, Goto, SetupInv, Shapes
    <3> QED
      BY <2>1, <3>1 DEF ReadRight
  <2> QED
    BY <2>2, <2>3
<1>7. DOMAIN cloned' = Tests /\ cloned' = [u \in Tests |-> cloned'[u]]
  BY <1>1 DEF DigestInv
<1> QED
  BY <1>1, <1>4, <1>6, <1>7 DEF DigestInv, SourceShape

LEMMA OtherStepsRead ==
  ASSUME SetupInv, AttributeInv, DigestInv, NEW t \in Tests,
         Run(t) \/ Server(t) \/ ReadFixture(t)
  PROVE  DigestInv'
<1>1. UNCHANGED <<source, loaded, cloned, templates>>
  BY DEF Run, Server, ReadFixture, Panic, world
<1>2. \A u \in Tests \ {t} : pc'[u] = pc[u] /\ config'[u] = config[u]
  BY DEF Run, Server, ReadFixture, Panic, Goto, SetupInv, Shapes
<1>3. CASE Run(t)
  <2>1. pc'[t] = "panicked" \/ (pc'[t] = "url" /\ Embedded(config'[t].schema))
    <3>1. /\ function[t] \in Functions[t] /\ Compiles(function[t])
          /\ t \in DOMAIN config /\ t \in DOMAIN pc
      BY <1>3 DEF Run, AttributeInv, Declared, SetupInv, Shapes
    <3>2. CASE /\ Args(t).config # NotGiven /\ Goto(t, "url")
               /\ config' = [config EXCEPT ![t] = OwnConfig[Args(t).config]]
      BY <3>1, <3>2, ArgsMean DEF Goto
    <3>3. CASE /\ Recall(t).is # Unset /\ Goto(t, "url")
               /\ config' = [config EXCEPT ![t] = Overridden(t, Recall(t).is)]
      <4>1. Embedded(Overridden(t, Recall(t).is).schema)
        BY <3>1, <3>3, RecallUsable, ArgsMean DEF Overridden, Usable
      <4> QED
        BY <3>1, <3>3, <4>1 DEF Goto
    <3> QED
      BY <1>3, <3>1, <3>2, <3>3 DEF Run, Panic, Goto
  <2> QED
    BY <1>1, <1>2, <1>3, <2>1, NothingRead DEF Run
<1>4. CASE Server(t) \/ ReadFixture(t)
  <2>1. \/ pc'[t] = "panicked"
        \/ pc[t] = "url" /\ pc'[t] = "load" /\ config'[t] = config[t]
        \/ pc'[t] = pc[t] /\ config'[t] = config[t]
    BY <1>4 DEF Server, ReadFixture, Panic, Goto, SetupInv, Shapes
  <2> QED
    BY <1>1, <1>2, <2>1, NothingRead
<1> QED
  BY <1>3, <1>4

LEMMA EditsRead ==
  ASSUME DigestInv, EditSource \/ EditSettings \/ UNCHANGED vars
  PROVE  DigestInv'
<1>1. UNCHANGED <<pc, config, loaded, cloned, templates>>
  BY DEF EditSource, EditSettings, vars, world
<1>2. SourceShape'
  <2>1. CASE EditSource
    BY <2>1 DEF EditSource, DigestInv, SourceShape
  <2>2. CASE UNCHANGED source
    BY <2>2 DEF DigestInv, SourceShape
  <2> QED
    BY <2>1, <2>2 DEF EditSettings, vars, world
<1>3. ASSUME NEW u \in Tests PROVE ReadRight(u)'
  BY <1>1 DEF DigestInv, ReadRight
<1> QED
  BY <1>1, <1>2, <1>3 DEF DigestInv

(* A clone is what its test read, for any texts and migrations, any number  *)
(* of tests and any edits (LoadedSchema::digest, apply).                    *)
THEOREM ClonesMatch == Spec => []ClonesMatchSource
<1>1. ASSUME SetupInv, AttributeInv, DigestInv, [Next]_vars PROVE DigestInv'
  <2>1. ASSUME NEW t \in Tests,
               Run(t) \/ Server(t) \/ Load(t) \/ ReadFixture(t) \/ Clone(t)
        PROVE  DigestInv'
    BY <1>1, <2>1, OtherStepsRead, LoadReads, CloneMatches
  <2>2. CASE EditSource \/ EditSettings \/ UNCHANGED vars
    BY <1>1, <2>2, EditsRead
  <2> QED
    BY <1>1, <2>1, <2>2 DEF Next, Terminating
<1>2. DigestInv => ClonesMatchSource
  BY DEF DigestInv, ReadRight, ClonesMatchSource
<1> QED
  BY SetupInvariant, AttributeInvariant, DigestInit, <1>1, <1>2, PTL DEF Spec
=============================================================================
