-------------------------------- MODULE Sums --------------------------------
(***************************************************************************)
(* The sum f[1] + ... + f[n], the total a custody contract owes over its   *)
(* records 1..n.  It is a recursive function, not a RECURSIVE operator, so *)
(* that SumsProofs can prove what it does.                                 *)
(***************************************************************************)
EXTENDS Integers

SumTo(f, n) == LET upTo[i \in 0..n] == IF i = 0 THEN 0 ELSE upTo[i-1] + f[i]
               IN  upTo[n]
=============================================================================
