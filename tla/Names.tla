-------------------------------- MODULE Names --------------------------------
(***************************************************************************)
(* name.rs: what the databases are called, on a server that is shared.     *)
(* A name is the sequence of the segments between its underscores, so      *)
(* "p_building_x9" is <<"p", "building", "x9">>.  Of a segment the code    *)
(* asks for its length and for its alphabet, no more.                      *)
(***************************************************************************)
EXTENDS Integers, FiniteSets, SequencesExt

CONSTANTS
  Segments,         \* letters in lower case and digits, between two underscores
  Initials,         \* the segments that begin with a letter
  Length,           \* the bytes of each segment
  Hex,              \* the segments that hold hexadecimal digits only
  MaxIdentifier     \* Backend::MAX_IDENTIFIER_BYTES

Building == "building"
Template == "template"

ASSUME NamesAssumption ==
  /\ {Building, Template} \subseteq Initials /\ Initials \subseteq Segments
  /\ Length \in [Segments -> Nat]
  /\ Length[Building] = 8 /\ Length[Template] = 8
  /\ Hex \subseteq Segments \ {Building, Template}
  /\ MaxIdentifier \in Nat

(* The bytes of a name, an underscore between any two segments.             *)
Bytes(name) == FoldLeft(LAMBDA n, s : n + Length[s], Len(name) - 1, name)

-----------------------------------------------------------------------------
(* The parts of a name: prefixes of digests, and random characters of all   *)
(* thirty-six.                                                              *)

Digests(chars) == {s \in Hex : Length[s] = chars}
Randoms        == {s \in Segments : Length[s] = 6}

(* Mutant: a run key in the larger alphabet.                                *)
RunKeysAnyChar == {s \in Segments : Length[s] = 8}

RunKeys == Digests(8)

DatabaseNames(prefix) ==
  {prefix \o parts : parts \in Digests(10) \X RunKeys \X Randoms}

TemplateNames(prefix) == {prefix \o <<Template, d>> : d \in Digests(16)}

BuildingNames(prefix) == {prefix \o <<Building, random>> : random \in Randoms}

AllNames(prefix) ==
  DatabaseNames(prefix) \cup TemplateNames(prefix) \cup BuildingNames(prefix)

-----------------------------------------------------------------------------
(* databases_with_prefix and idle_templates compare the first characters of *)
(* a name with `<prefix>_building_` and `<prefix>_template_`.               *)

(* Mutant: the prefix alone.                                                *)
BuildingPrefixBare(prefix) == prefix

BuildingPrefix(prefix) == prefix \o <<Building>>
TemplatePrefix(prefix) == prefix \o <<Template>>

Listed(by, names) == {n \in names : IsStrictPrefix(by, n)}

-----------------------------------------------------------------------------
(* validate: the longest name a prefix leads to, from the constants of the  *)
(* module.                                                                  *)

DatabaseSuffix == 1 + 10 + 1 + 8 + 1 + 6
TemplateSuffix == Length[Template] + 2 + 16
BuildingSuffix == Length[Building] + 2 + 6

(* Mutant: the suffix of a test database is forgotten.                      *)
LongestOfTemplates(prefix) == Bytes(prefix) + Max({TemplateSuffix, BuildingSuffix})

Longest(prefix) ==
  Bytes(prefix) + Max({DatabaseSuffix, TemplateSuffix, BuildingSuffix})

(* is_plain_identifier: what needs no quotes.                               *)
Plain(name) == name \in Seq(Segments) \ {<<>>} /\ Head(name) \in Initials

(* A prefix is measured with its longest suffix, the bookkeeping schema is  *)
(* a name as it stands.                                                     *)
Validate(prefix, bookkeeping_schema) ==
  /\ Plain(prefix) /\ Longest(prefix) <= MaxIdentifier
  /\ Plain(bookkeeping_schema) /\ Bytes(bookkeeping_schema) <= MaxIdentifier
=============================================================================
