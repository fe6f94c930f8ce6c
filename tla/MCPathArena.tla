----------------------------- MODULE MCPathArena -----------------------------
(***************************************************************************)
(* The instance of PathArena that TLC checks.  What the members of a set   *)
(* of constants are called makes no difference, and neither does what is   *)
(* left in an array that nobody refers to.                                 *)
(***************************************************************************)
EXTENDS PathArena, TLC

Symmetry == UNION {Permutations(S) : S \in {Workers, Arenas, Arrays, Segments}}

View == <<[b \in Used \ {Nil} |-> mem[b]], buf, running, arena, stack, kept>>
=============================================================================
