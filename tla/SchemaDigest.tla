---------------------------- MODULE SchemaDigest ----------------------------
(***************************************************************************)
(* schema.rs: what a schema is once it is loaded, what apply sends to the  *)
(* server for it, and what its digest, and so the name of its template, is *)
(* computed from.  A text is a sequence of characters; SHA-256 is taken to *)
(* be one-to-one, so that a digest is its input.                           *)
(***************************************************************************)
EXTENDS Integers, SequencesExt

CONSTANT Chars

NoSchema        == [kind |-> "none", parts |-> <<>>]
SqlTexts(texts) == [kind |-> "sql", parts |-> texts]
Migrator(steps) == [kind |-> "migrations", parts |-> steps]

(* One file of migrations; several may have one version, down and up.       *)
Migration(version, down, sql) == [version |-> version, down |-> down, sql |-> sql]

Texts      == Seq(Chars)
Migrations == [version : Int, down : BOOLEAN, sql : Texts]

(* The calls of apply: a text at a time, or the migrations that lead up.    *)
(* A migrator keeps its table whether or not there is anything to apply.    *)
Applied(schema) ==
  CASE schema.kind = "none" -> <<>>
    [] schema.kind = "sql" -> schema.parts
    [] schema.kind = "migrations" ->
         <<"table">> \o SelectSeq(schema.parts, LAMBDA m : ~m.down)

(* Mutant: one text after another, nothing between them.                    *)
FramedNot(text) == text

Framed(text) == <<Len(text)>> \o text

HashInput(schema) ==
  <<schema.kind>> \o
  FlattenSeq([i \in DOMAIN schema.parts |->
    IF schema.kind = "sql" THEN Framed(schema.parts[i])
    ELSE LET m == schema.parts[i] IN <<m.version, m.down>> \o Framed(m.sql)])
=============================================================================
