----------------------------- MODULE MCVersion -----------------------------
(***************************************************************************)
(* Instances of Version for TLC.                                           *)
(***************************************************************************)
EXTENDS Version

\* Every string of at most two of 0, 1, a, A and a separator, and longer ones
\* that differ in zeros, case, separators, length or the kind of a token.
Short == UNION {[1..n -> {0, 1, 10, 36, 62}] : n \in 0..2}
Long == {<<1, 62, 0>>, <<1, 62, 62, 0>>, <<1, 62, 1>>, <<1, 62, 27, 12, 1>>, <<1, 62, 0, 27, 12>>,
         <<0, 1, 62, 0, 0>>, <<1, 62, 53, 38, 1>>, <<1, 62, 0, 62, 27>>, <<9, 62, 9>>, <<1, 0, 62, 0>>,
         <<9, 9>>, <<1, 0, 0>>, <<0, 0, 9>>, <<0, 1, 0, 0>>}
ShortAndLong == Short \cup Long
=============================================================================
