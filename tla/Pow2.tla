-------------------------------- MODULE Pow2 --------------------------------
(***************************************************************************)
(* CEIL_POW2 of src/src/colib.h, which hash tables and maps size by.       *)
(***************************************************************************)
EXTENDS Integers

\* The least power of two that is at least n.
CeilPow2(n) ==
  LET doubled[i \in 0..n] == IF i = 0 THEN 1 ELSE 2 * doubled[i - 1]
  IN  doubled[CHOOSE i \in 0..n : doubled[i] >= n /\ \A j \in 0..i-1 : doubled[j] < n]
=============================================================================
