------------------------------ MODULE MCProbe ------------------------------
(***************************************************************************)
(* Values for the constants of Probe.tla: a caller more patient with a     *)
(* full server than with a dead one, as the defaults are, and others that  *)
(* are not.                                                                *)
(***************************************************************************)
EXTENDS Probe

CONSTANTS a, b, c

ShortLongEqual == [x \in Callers |-> CASE x = a -> 2 [] x = b -> 4 [] OTHER -> 3]
LongShortEqual == [x \in Callers |-> CASE x = a -> 4 [] x = b -> 2 [] OTHER -> 3]
=============================================================================
