-------------------------- MODULE MCLocalExecution --------------------------
(***************************************************************************)
(* Nodes that show when they are not asked: every account with code has a  *)
(* slot that is not zero.                                                  *)
(***************************************************************************)
EXTENDS LocalExecution, TLC

SomeNodes == {[code |-> c, slot |-> [a \in Accounts |-> IF c[a] THEN 1 ELSE 0]] :
                c \in [Accounts -> BOOLEAN]}

Symmetry == Permutations(Accounts)
=============================================================================
