---------------------------- MODULE MCEvaluators ----------------------------
(***************************************************************************)
(* An instance of Evaluators for TLC: two clients of one call, one of them *)
(* with two peer connections over a relay, one pad of each direction, and  *)
(* one track for the six kinds of objects that are only counted.           *)
(***************************************************************************)
EXTENDS Evaluators, TLC

CONSTANTS a, b, x, p1, p2, in1, out1, t

MCCallOf == [c \in Client |-> x]
MCOthers == <<{t}, {}, {}, {}, {}, {}>>
MCClientOf == [p \in Connection |-> a]

\* The two connections are alike.
Alike == Permutations({p1, p2})
=============================================================================
