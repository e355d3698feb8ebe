------------------------------- MODULE Version -------------------------------
(***************************************************************************)
(* How version strings compare (internal/manager/version.go).  The         *)
(* resolver sorts by this order and constraints are tested with it, so it  *)
(* has to be a total preorder on every string a repository may contain.    *)
(*                                                                         *)
(* A character is a number: 0..9 the digits, 10..35 the lower-case and     *)
(* 36..61 the upper-case letters, 62 any separator, in the order of their  *)
(* bytes within a token.  Letters and digits outside ASCII are left out.   *)
(***************************************************************************)
EXTENDS Integers, Sequences, SequencesExt

CONSTANT Versions    \* version strings compared

Digit == 0..9
Lower == 10..35
Upper == 36..61
Separator == 62

ASSUME VersionAssumption == Versions \subseteq Seq(Digit \cup Lower \cup Upper \cup {Separator})

VARIABLES left, middle, right    \* three versions
versions == <<left, middle, right>>

-----------------------------------------------------------------------------
ToLower(c) == IF c \in Upper THEN c - 26 ELSE c

\* flush: the word that ends here joins the tokens, unless it is empty.
Flush(scan) == IF scan.cur = <<>> THEN scan.out ELSE Append(scan.out, scan.cur)

\* The tokens and the unfinished word after each prefix of v.
Scan(v) ==
    LET scan[n \in 0..Len(v)] ==
            CASE n = 0             -> [out |-> <<>>, cur |-> <<>>]
              [] n > 0 /\ v[n] = Separator
                                   -> [out |-> Flush(scan[n - 1]), cur |-> <<>>]
              [] OTHER             -> [scan[n - 1] EXCEPT !.cur = Append(@, ToLower(v[n]))]
    IN  scan

\* The words and numbers of v between separators, in lower case.
tokenizeVersion(v) == Flush(Scan(v)[Len(v)])

numericToken(s) == s # <<>> /\ ToSet(s) \subseteq Digit

\* a < b on strings: b goes on after a, or has the larger byte where they part.
Before(a, b) ==
    \E k \in DOMAIN b :
        /\ Len(a) >= k - 1 /\ \A j \in 1..(k - 1) : a[j] = b[j]
        /\ Len(a) = k - 1 \/ a[k] < b[k]

\* a < b, a > b or neither.
compareText(a, b) == IF Before(a, b) THEN -1 ELSE IF a = b THEN 0 ELSE 1

BugTrimNothing(s) == s

\* strings.TrimLeft(s, "0"), with "0" for what becomes empty.
Trim(s) ==
    LET kept == {k \in DOMAIN s : s[k] # 0}
    IN  IF kept = {} THEN <<0>> ELSE SubSeq(s, Min(kept), Len(s))

\* The shorter number is the smaller one, numbers of one length compare as text.
compareNumericToken(a, b) ==
    CASE Len(Trim(a)) < Len(Trim(b)) -> -1
      [] Len(Trim(a)) > Len(Trim(b)) -> 1
      [] OTHER -> compareText(Trim(a), Trim(b))

BugNumberFirst(a, b) ==
    CASE numericToken(a) /\ numericToken(b)  -> compareNumericToken(a, b)
      [] numericToken(a) # numericToken(b)   -> 1
      [] OTHER                               -> compareText(a, b)

\* One turn of the loop: numbers by value, a number after a word, words as text.
compareToken(a, b) ==
    CASE numericToken(a) /\ numericToken(b)  -> compareNumericToken(a, b)
      [] numericToken(a) /\ ~numericToken(b) -> 1
      [] ~numericToken(a) /\ numericToken(b) -> -1
      [] OTHER                               -> compareText(a, b)

\* The positions at which the loop would return.
Decided(as, bs) ==
    {i \in 1..(IF Len(as) > Len(bs) THEN Len(as) ELSE Len(bs)) :
        i > Len(as) \/ i > Len(bs) \/ compareToken(as[i], bs[i]) # 0}

\* It returns at the first of them; a version that runs out of tokens is less.
compareVersion(a, b) ==
    LET as == tokenizeVersion(a)
        bs == tokenizeVersion(b)
        decided == Decided(as, bs)
    IN  IF a = b \/ decided = {} THEN 0
        ELSE CASE Min(decided) > Len(as) -> -1
               [] Min(decided) > Len(bs) -> 1
               [] OTHER -> compareToken(as[Min(decided)], bs[Min(decided)])

-----------------------------------------------------------------------------
VersionInit == left \in Versions /\ middle \in Versions /\ right \in Versions
VersionNext == UNCHANGED versions
VersionSpec == VersionInit /\ [][VersionNext]_versions

-----------------------------------------------------------------------------
(* Properties.                                                             *)

\* Any two versions compare the same from either side, and the order is
\* transitive, versions that compare as equal included: which candidate a sort
\* puts first does not depend on the order of the index.
TotalPreorder ==
    /\ compareVersion(left, middle) = -compareVersion(middle, left)
    /\ compareVersion(left, middle) <= 0 /\ compareVersion(middle, right) <= 0 =>
          /\ compareVersion(left, right) <= 0
          /\ compareVersion(left, right) = 0 =>
               compareVersion(left, middle) = 0 /\ compareVersion(middle, right) = 0

\* The number a string of digits denotes.
Value(s) ==
    LET value[n \in 0..Len(s)] == IF n = 0 THEN 0 ELSE 10 * value[n - 1] + s[n]
    IN  value[Len(s)]

\* "arbitrarily large version components remain ordered": strings of digits
\* compare as the numbers they denote, whatever their length and zeros.
NumericByValue ==
    LET sign(n) == IF n < 0 THEN -1 ELSE IF n > 0 THEN 1 ELSE 0
    IN  numericToken(left) /\ numericToken(middle)
            => compareVersion(left, middle) = sign(Value(left) - Value(middle))
=============================================================================
