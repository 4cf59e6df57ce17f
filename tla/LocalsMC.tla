------------------------------ MODULE LocalsMC ------------------------------
(* Instance of Locals with the real hash.  The variables 1 of the three    *)
(* call sites show its three cases: at 0x4171 the variable starts one byte *)
(* before the last of the area and runs over its end, at 0x2918 it overlaps*)
(* that one, at 0x1234 it is alone.                                        *)
EXTENDS Locals, Fnv, TLC

CONSTANTS t1, t2, m1, m2

\* Return addresses are numbers.
ASSUME SitesAssumption == Sites \subseteq Nat

\* The program's identifiers are 0 to 7.
Table == [k \in Keys |-> [i \in 0 .. 7 |-> fnv1a_hash(k, i)]]

MCHash == [p \in Keys \X Ids |-> Table[p[1]][p[2]]]

Symmetry == Permutations(Threads) \union Permutations(Marks)

\* The variables of an activation, all eight of them, do not overlap one another
\* (fnv1a_hash).
VariablesApart ==
  \A t \in live : \A i, j \in 0 .. 7 :
    LET a == Table[Key(t)][i]
        b == Table[Key(t)][j]
    IN i # j => a + 4 <= b \/ b + 4 <= a
=============================================================================
