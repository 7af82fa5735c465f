---------------------------- MODULE JenkinsVersions ----------------------------
(***************************************************************************)
(* How versions of Jenkins and of its plugins compare, and which versions  *)
(* a warning is about.  A version is the sequence of its tokens, numbers,  *)
(* qualifiers and other words, without the zeros at its end; the value of  *)
(* a word is its place in the alphabet.  The empty sequence is a version   *)
(* nobody gave.                                                            *)
(***************************************************************************)
EXTENDS Integers, Sequences

CONSTANT Versions

Qualifier == 0   \* its value is negative before a release, positive after
Word      == 1
Number    == 2

Token == [kind : {Qualifier, Word, Number}, value : Int]

\* A token against none.
compare_missing(token) ==
    IF token.kind = Word \/ token.value > 0 THEN -1
    ELSE IF token.kind = Qualifier /\ token.value < 0 THEN 1 ELSE 0

Sign(n) == IF n > 0 THEN 1 ELSE IF n < 0 THEN -1 ELSE 0

CompareAt(left, right, i) ==
    IF i > Len(left) THEN compare_missing(right[i])
    ELSE IF i > Len(right) THEN -compare_missing(left[i])
    ELSE IF left[i].kind # right[i].kind THEN Sign(left[i].kind - right[i].kind)
    ELSE Sign(left[i].value - right[i].value)

\* The first place where they differ decides.
compare_versions(left, right) ==
    LET Differ(i) == CompareAt(left, right, i) # 0
        Places == (1..Len(left)) \cup (1..Len(right))
    IN  IF \E i \in Places : Differ(i)
        THEN CompareAt(left, right,
                       CHOOSE i \in Places :
                           Differ(i) /\ \A j \in Places : Differ(j) => i <= j)
        ELSE 0

version_at_least(actual, required) == compare_versions(actual, required) >= 0

\* A range is the set of versions its pattern fits; one without a pattern, or
\* with a pattern that is none, fits all.
warning_matches(warning, version) ==
    warning.ranges = {} \/ \E range \in warning.ranges : version \in range

-----------------------------------------------------------------------------
(* Where the comparison is no order: a zero is newer than a word that      *)
(* announces no release, the word newer than the end of a version, and the *)
(* end as new as the zero.  So 1.0.alpha is newer than 1-sp and 1-sp newer *)
(* than 1, and yet 1 is newer than 1.0.alpha.                              *)

\* The digits of a version are no negative number.
Counted(u) == \A i \in 1..Len(u) : u[i].kind = Number => u[i].value >= 0

\* What stands at a place, if anything does.
KindAt(u, i) == IF i <= Len(u) THEN u[i].kind ELSE Qualifier
ValueAt(u, i) == IF i <= Len(u) THEN u[i].value ELSE 0

Ended(u, i) == i > Len(u)
Zero(u, i) == ~Ended(u, i) /\ KindAt(u, i) = Number /\ ValueAt(u, i) = 0
Late(u, i) == /\ ~Ended(u, i)
              /\ \/ KindAt(u, i) = Word
                 \/ KindAt(u, i) = Qualifier /\ ValueAt(u, i) >= 0

\* Of three versions one has a zero, one has ended and one has such a word, all
\* at one place.
Confused(u, v, w) ==
    \E i \in (1..Len(u)) \cup (1..Len(v)) \cup (1..Len(w)) :
        \E x, y, z \in {u, v, w} : Zero(x, i) /\ Ended(y, i) /\ Late(z, i)

ASSUME VersionsAssumption ==
    \A v \in Versions : v \in Seq(Token) /\ Counted(v)
=============================================================================
