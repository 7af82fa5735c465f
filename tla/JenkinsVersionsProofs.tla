------------------------ MODULE JenkinsVersionsProofs ------------------------
(***************************************************************************)
(* Proofs about the comparison of versions, for versions of every length:  *)
(* it is antisymmetric, and transitive but for versions that are Confused. *)
(***************************************************************************)
EXTENDS JenkinsVersions, WellFoundedInduction, TLAPS

Version == Seq(Token)
Position == Nat \ {0}

\* What one place says, also beyond both ends.
At(u, v, i) ==
    IF i \in (1..Len(u)) \cup (1..Len(v)) THEN CompareAt(u, v, i) ELSE 0

LEMMA Least ==
    ASSUME NEW S \in SUBSET Nat, S # {}
    PROVE  \E n \in S : \A m \in S : n <= m
  <1>1. IsWellFoundedOn(OpToRel(<, Nat), Nat)
    BY NatLessThanWellFounded
  <1>2. PICK n \in S : \A m \in S : <<m, n>> \notin OpToRel(<, Nat)
    BY <1>1, WFMin
  <1>3. \A m \in S : ~(m < n)
    BY <1>2 DEF OpToRel
  <1>. QED
    BY <1>3

LEMMA SignType ==
    \A n \in Int : /\ Sign(n) \in {-1, 0, 1}
                   /\ Sign(n) > 0 <=> n > 0
                   /\ Sign(n) < 0 <=> n < 0
                   /\ Sign(-n) = -Sign(n)
  BY DEF Sign

LEMMA TokenAt ==
    ASSUME NEW u \in Version, NEW i \in 1..Len(u)
    PROVE  /\ u[i].kind \in {Qualifier, Word, Number} /\ u[i].value \in Int
           /\ Len(u) \in Nat
  <1>1. Len(u) \in Nat /\ u[i] \in Token
    BY DEF Version
  <1>2. \A t \in Token : t.kind \in {Qualifier, Word, Number} /\ t.value \in Int
    BY Zenon DEF Token
  <1>. QED
    BY <1>1, <1>2

LEMMA AtType ==
    ASSUME NEW u, NEW v, NEW i
    PROVE  At(u, v, i) \in {-1, 0, 1}
  <1>1. \A t : compare_missing(t) \in {-1, 0, 1}
    BY DEF compare_missing
  <1>2. \A n : Sign(n) \in {-1, 0, 1}
    BY DEF Sign
  <1>. QED
    BY <1>1, <1>2 DEF At, CompareAt

(* The comparison is what the first place says that says anything.         *)
LEMMA FirstPlace ==
    ASSUME NEW u \in Version, NEW v \in Version
    PROVE  \/ /\ compare_versions(u, v) = 0
              /\ \A i \in Position : At(u, v, i) = 0
           \/ \E i \in Position :
                 /\ compare_versions(u, v) = At(u, v, i) /\ At(u, v, i) # 0
                 /\ \A j \in Position : j < i => At(u, v, j) = 0
  <1>. DEFINE Places == (1..Len(u)) \cup (1..Len(v))
              Differ(i) == CompareAt(u, v, i) # 0
              First(i) == Differ(i) /\ \A j \in Places : Differ(j) => i <= j
  <1>0. Len(u) \in Nat /\ Len(v) \in Nat
    BY DEF Version
  <1>1. Places \subseteq Position
    BY <1>0 DEF Position
  <1>2. CASE ~\E i \in Places : Differ(i)
    BY <1>2 DEF compare_versions, At
  <1>3. CASE \E i \in Places : Differ(i)
    <2>1. {i \in Places : Differ(i)} \in SUBSET Nat
      BY <1>1 DEF Position
    <2>2. \E i \in Places : First(i)
      BY <1>3, <2>1, Least
    <2>3. PICK i : i = CHOOSE k \in Places : First(k)
      OBVIOUS
    <2>4. i \in Places /\ First(i)
      BY <2>2, <2>3
    <2>5. compare_versions(u, v) = CompareAt(u, v, i)
      BY <1>3, <2>3 DEF compare_versions
    <2>6. \A j \in Position : j < i => At(u, v, j) = 0
      <3>. SUFFICES ASSUME NEW j \in Position, j < i PROVE At(u, v, j) = 0
        OBVIOUS
      <3>1. i \in Nat /\ j \in Nat
        BY <1>1, <2>4 DEF Position
      <3>2. j \in Places => ~Differ(j)
        BY <2>4, <3>1
      <3>. QED
        BY <3>2 DEF At
    <2>. QED
      BY <1>1, <2>4, <2>5, <2>6 DEF At
  <1>. QED
    BY <1>2, <1>3

LEMMA FirstDecides ==
    ASSUME NEW u \in Version, NEW v \in Version, NEW i \in Position,
           At(u, v, i) # 0, \A j \in Position : j < i => At(u, v, j) = 0
    PROVE  compare_versions(u, v) = At(u, v, i)
  <1>1. PICK k \in Position : /\ compare_versions(u, v) = At(u, v, k) /\ At(u, v, k) # 0
                           /\ \A j \in Position : j < k => At(u, v, j) = 0
    BY FirstPlace
  <1>2. ~(k < i) /\ ~(i < k)
    BY <1>1
  <1>. QED
    BY <1>1, <1>2 DEF Position

LEMMA AtAntisymmetric ==
    ASSUME NEW u \in Version, NEW v \in Version, NEW i \in Position
    PROVE  At(v, u, i) = -At(u, v, i)
  <1>. USE DEF Position
  <1>0. Len(u) \in Nat /\ Len(v) \in Nat
    BY DEF Version
  <1>1. \A t : compare_missing(t) \in {-1, 0, 1}
    BY DEF compare_missing
  <1>2. CASE i > Len(u) \/ i > Len(v)
    BY <1>0, <1>1, <1>2 DEF At, CompareAt
  <1>3. CASE ~(i > Len(u) \/ i > Len(v))
    <2>1. i \in 1..Len(u) /\ i \in 1..Len(v)
      BY <1>0, <1>3
    <2>2. u[i].kind \in Int /\ v[i].kind \in Int /\ u[i].value \in Int /\ v[i].value \in Int
      BY <2>1, TokenAt DEF Qualifier, Word, Number
    <2>3. \A a, b \in Int : Sign(b - a) = -Sign(a - b)
      BY DEF Sign
    <2>. QED
      BY <1>3, <2>1, <2>2, <2>3 DEF At, CompareAt
  <1>. QED
    BY <1>2, <1>3

(* Whichever of two versions is asked about first, the answer is the same. *)
THEOREM ComparisonIsAntisymmetric ==
    ASSUME NEW u \in Version, NEW v \in Version
    PROVE  compare_versions(v, u) = -compare_versions(u, v)
  <1>1. CASE \A i \in Position : At(u, v, i) = 0
    <2>1. compare_versions(u, v) = 0
      BY <1>1, FirstPlace
    <2>2. \A i \in Position : At(v, u, i) = 0
      BY <1>1, AtAntisymmetric
    <2>3. compare_versions(v, u) = 0
      BY <2>2, FirstPlace
    <2>4. compare_versions(u, v) \in Int
      BY <2>1
    <2>5. -compare_versions(u, v) = 0 - compare_versions(u, v)
      BY <2>4
    <2>. QED
      BY <2>1, <2>3, <2>5
  <1>2. ASSUME NEW i \in Position, At(u, v, i) # 0,
               \A j \in Position : j < i => At(u, v, j) = 0
        PROVE  compare_versions(v, u) = -compare_versions(u, v)
    <2>1. At(v, u, i) = -At(u, v, i) /\ At(v, u, i) # 0
      BY <1>2, AtAntisymmetric, AtType
    <2>2. \A j \in Position : j < i => At(v, u, j) = 0
      BY <1>2, AtAntisymmetric
    <2>. QED
      BY <1>2, <2>1, <2>2, FirstDecides
  <1>. QED
    BY <1>1, <1>2, FirstPlace

-----------------------------------------------------------------------------
(* Transitivity.                                                           *)

\* The places of three versions compare as a total preorder would.
Orderly(u, v, w) ==
    \A i \in Position :
        (At(u, v, i) >= 0 /\ At(v, w, i) >= 0) =>
            /\ At(u, w, i) >= 0
            /\ At(u, w, i) = 0 <=> At(u, v, i) = 0 /\ At(v, w, i) = 0

LEMMA OrderlyTransitive ==
    ASSUME NEW u \in Version, NEW v \in Version, NEW w \in Version, Orderly(u, v, w),
           version_at_least(u, v), version_at_least(v, w)
    PROVE  version_at_least(u, w)
  <1>. USE DEF version_at_least
  \* Somewhere u is newer than w and not older before.
  <1>1. ASSUME NEW i \in Position, At(u, v, i) >= 0, At(v, w, i) >= 0,
               At(u, v, i) # 0 \/ At(v, w, i) # 0,
               \A j \in Position : j < i => At(u, v, j) = 0 /\ At(v, w, j) = 0
        PROVE  version_at_least(u, w)
    <2>1. At(u, w, i) >= 0 /\ At(u, w, i) # 0
      BY <1>1 DEF Orderly
    <2>2. \A j \in Position : j < i => At(u, w, j) = 0
      BY <1>1 DEF Orderly
    <2>. QED
      BY <2>1, <2>2, FirstDecides
  <1>2. CASE \A i \in Position : At(u, v, i) = 0 /\ At(v, w, i) = 0
    <2>1. \A i \in Position : At(u, w, i) = 0
      BY <1>2 DEF Orderly
    <2>. QED
      BY <2>1, FirstPlace
  <1>3. ASSUME \E i \in Position : At(u, v, i) # 0 \/ At(v, w, i) # 0
        PROVE  version_at_least(u, w)
    <2>. DEFINE S == {i \in Position : At(u, v, i) # 0 \/ At(v, w, i) # 0}
    <2>1. PICK i \in S : \A j \in S : i <= j
      <3>1. S \in SUBSET Nat /\ S # {}
        BY <1>3 DEF Position
      <3>. QED
        BY <3>1, Least
    <2>2. \A j \in Position : j < i => At(u, v, j) = 0 /\ At(v, w, j) = 0
      BY <2>1 DEF Position
    <2>3. At(u, v, i) >= 0
      BY <2>1, <2>2, FirstDecides
    <2>4. At(v, w, i) >= 0
      BY <2>1, <2>2, FirstDecides
    <2>. QED
      BY <1>1, <2>1, <2>2, <2>3, <2>4
  <1>. QED
    BY <1>2, <1>3

LEMMA StandsAt ==
    ASSUME NEW u \in Version, NEW i \in Position, Counted(u)
    PROVE  /\ KindAt(u, i) \in {Qualifier, Word, Number} /\ ValueAt(u, i) \in Int
           /\ ~Ended(u, i) /\ KindAt(u, i) = Number => ValueAt(u, i) >= 0
           /\ Ended(u, i) => KindAt(u, i) = Qualifier /\ ValueAt(u, i) = 0
  <1>1. Len(u) \in Nat /\ i \in Nat /\ i >= 1
    BY DEF Version, Position
  <1>2. CASE i <= Len(u)
    <2>1. i \in 1..Len(u)
      BY <1>1, <1>2
    <2>. QED
      BY <1>1, <1>2, <2>1, TokenAt DEF KindAt, ValueAt, Counted, Ended
  <1>3. CASE ~(i <= Len(u))
    BY <1>1, <1>3 DEF KindAt, ValueAt, Ended
  <1>. QED
    BY <1>2, <1>3

\* A token against none, the token given by its parts.
MissingBy(kind, value) ==
    IF kind = Word \/ value > 0 THEN -1
    ELSE IF kind = Qualifier /\ value < 0 THEN 1 ELSE 0

(* The two versions are read at a place through what stands there.         *)
LEMMA ReadAt ==
    ASSUME NEW u \in Version, NEW v \in Version, NEW i \in Position
    PROVE  At(u, v, i) =
             IF Ended(u, i) /\ Ended(v, i) THEN 0
             ELSE IF Ended(u, i) THEN MissingBy(KindAt(v, i), ValueAt(v, i))
             ELSE IF Ended(v, i) THEN -MissingBy(KindAt(u, i), ValueAt(u, i))
             ELSE IF KindAt(u, i) # KindAt(v, i) THEN Sign(KindAt(u, i) - KindAt(v, i))
             ELSE Sign(ValueAt(u, i) - ValueAt(v, i))
  <1>1. Len(u) \in Nat /\ Len(v) \in Nat /\ i \in Nat /\ i >= 1
    BY DEF Version, Position
  <1>. QED
    BY <1>1 DEF At, CompareAt, compare_missing, MissingBy, KindAt, ValueAt, Ended

LEMMA PlacesAreOrderly ==
    ASSUME NEW u \in Version, NEW v \in Version, NEW w \in Version,
           Counted(u), Counted(v), Counted(w), ~Confused(u, v, w)
    PROVE  Orderly(u, v, w)
  <1>1. ASSUME NEW i \in Position
        PROVE  (At(u, v, i) >= 0 /\ At(v, w, i) >= 0) =>
                  /\ At(u, w, i) >= 0
                  /\ At(u, w, i) = 0 <=> At(u, v, i) = 0 /\ At(v, w, i) = 0
    <2>1. \A x, y, z \in {u, v, w} : ~(Zero(x, i) /\ Ended(y, i) /\ Late(z, i))
      <3>. SUFFICES ASSUME NEW x \in {u, v, w}, NEW y \in {u, v, w}, NEW z \in {u, v, w},
                           Zero(x, i), Ended(y, i), Late(z, i)
                    PROVE  FALSE
        OBVIOUS
      <3>1. Len(x) \in Nat /\ i \in 1..Len(x)
        BY DEF Zero, Ended, Version, Position
      <3>2. i \in (1..Len(u)) \cup (1..Len(v)) \cup (1..Len(w))
        BY <3>1
      <3>. QED
        BY <3>2, Zenon DEF Confused
    <2>. USE <2>1, StandsAt, ReadAt DEF MissingBy, Sign, Zero, Late, Qualifier, Word, Number
    <2>2. CASE Ended(u, i) /\ Ended(v, i)
      BY <2>2
    <2>3. CASE Ended(v, i) /\ Ended(w, i)
      BY <2>3
    <2>4. CASE Ended(u, i) /\ Ended(w, i)
      BY <2>4
    <2>5. CASE Ended(u, i) /\ ~Ended(v, i) /\ ~Ended(w, i)
      BY <2>5
    <2>6. CASE ~Ended(u, i) /\ Ended(v, i) /\ ~Ended(w, i)
      BY <2>6
    <2>7. CASE ~Ended(u, i) /\ ~Ended(v, i) /\ Ended(w, i)
      BY <2>7
    <2>8. CASE ~Ended(u, i) /\ ~Ended(v, i) /\ ~Ended(w, i)
      BY <2>8
    <2>. QED
      BY <2>2, <2>3, <2>4, <2>5, <2>6, <2>7, <2>8, Zenon
  <1>. QED
    BY <1>1 DEF Orderly
(* Unless three versions are confused they never come full circle: a plugin*)
(* at least as new as the fix of a warning, which is at least as new as    *)
(* the release the warning is about, is at least as new as that release.   *)
THEOREM ComparisonIsTransitive ==
    ASSUME NEW u \in Version, NEW v \in Version, NEW w \in Version,
           Counted(u), Counted(v), Counted(w), ~Confused(u, v, w),
           version_at_least(u, v), version_at_least(v, w)
    PROVE  version_at_least(u, w)
  BY PlacesAreOrderly, OrderlyTransitive

\* Numbers and announcements of a release to come: 2.440, 1.0-rc.2, 3.1-beta.
Ordinary(u) ==
    \A i \in 1..Len(u) : \/ u[i].kind = Number /\ u[i].value >= 0
                         \/ u[i].kind = Qualifier /\ u[i].value < 0

(* Where all versions in use are of numbers and announced releases,        *)
(* comparing them never comes full circle.                                 *)
THEOREM OrdinaryVersionsAreOrdered ==
    ASSUME Versions \subseteq {u \in Version : Ordinary(u)}
    PROVE  \A u, v, w \in Versions :
              version_at_least(u, v) /\ version_at_least(v, w) => version_at_least(u, w)
  <1>. SUFFICES ASSUME NEW u \in Versions, NEW v \in Versions, NEW w \in Versions,
                       version_at_least(u, v), version_at_least(v, w)
                PROVE  version_at_least(u, w)
    OBVIOUS
  <1>1. \A x \in {u, v, w} : x \in Version /\ Ordinary(x)
    OBVIOUS
  <1>2. ASSUME NEW x \in Version, Ordinary(x)
        PROVE  Counted(x) /\ \A i \in Position : ~Late(x, i)
    <2>1. Counted(x)
      BY <1>2 DEF Counted, Ordinary, Number, Qualifier
    <2>2. ASSUME NEW i \in Position, i <= Len(x)
          PROVE  ~Late(x, i)
      <3>1. Len(x) \in Nat /\ i \in 1..Len(x)
        BY <2>2 DEF Version, Position
      <3>2. x[i].value \in Int
        BY <3>1, TokenAt
      <3>. QED
        BY <1>2, <2>2, <3>1, <3>2
        DEF Late, Ordinary, KindAt, ValueAt, Number, Qualifier, Word
    <2>3. \A i \in Position : Ended(x, i) \/ i <= Len(x)
      BY DEF Ended, Version, Position
    <2>. QED
      BY <2>1, <2>2, <2>3 DEF Late
  <1>3. ~Confused(u, v, w)
    <2>1. (1..Len(u)) \cup (1..Len(v)) \cup (1..Len(w)) \subseteq Position
      BY <1>1 DEF Version, Position
    <2>2. \A i \in Position, z \in {u, v, w} : ~Late(z, i)
      BY <1>1, <1>2
    <2>. QED
      BY <2>1, <2>2 DEF Confused
  <1>. QED
    BY <1>1, <1>2, <1>3, ComparisonIsTransitive

(* Nor does it among versions with as many tokens as each other, whatever  *)
(* the tokens: only where a version ends can the order be lost.            *)
THEOREM EquallyLongVersionsAreOrdered ==
    ASSUME NEW u \in Version, NEW v \in Version, NEW w \in Version,
           Counted(u), Counted(v), Counted(w), Len(u) = Len(v), Len(v) = Len(w),
           version_at_least(u, v), version_at_least(v, w)
    PROVE  version_at_least(u, w)
  <1>1. ~Confused(u, v, w)
    BY DEF Confused, Zero, Late, Ended
  <1>. QED
    BY <1>1, ComparisonIsTransitive

(* Confused versions may come full circle: 1.0.alpha, 1-sp and 1, each at  *)
(* least as new as the next, and yet 1 newer than 1.0.alpha.               *)
One == [kind |-> Number, value |-> 1]
Alpha == <<One, [kind |-> Number, value |-> 0], [kind |-> Qualifier, value |-> -4]>>
ServicePack == <<One, [kind |-> Qualifier, value |-> 1]>>
Release == <<One>>

(* compare_versions is no order of all versions: where three of them are   *)
(* confused, being at least as new may not carry over.                     *)
THEOREM ComparisonComesFullCircle ==
    /\ Alpha \in Version /\ ServicePack \in Version /\ Release \in Version
    /\ version_at_least(Alpha, ServicePack)
    /\ version_at_least(ServicePack, Release)
    /\ ~version_at_least(Alpha, Release)
  <1>. USE DEF Number, Qualifier, Word
  <1>1. One \in Token /\ \A t \in {Alpha[2], Alpha[3], ServicePack[2]} : t \in Token
    BY DEF One, Alpha, ServicePack, Token
  <1>2. Alpha \in Version /\ ServicePack \in Version /\ Release \in Version
    BY <1>1 DEF Version, Alpha, ServicePack, Release
  <1>3. /\ At(Alpha, ServicePack, 1) = 0
        /\ At(Alpha, ServicePack, 2) = 1
    BY DEF At, CompareAt, Sign, Alpha, ServicePack, One
  <1>4. /\ At(ServicePack, Release, 1) = 0
        /\ At(ServicePack, Release, 2) = 1
    <2>1. compare_missing(ServicePack[2]) = -1
      BY DEF compare_missing, ServicePack
    <2>2. At(ServicePack, Release, 2) = -compare_missing(ServicePack[2])
      BY DEF At, CompareAt, ServicePack, Release
    <2>3. At(ServicePack, Release, 1) = 0
      BY DEF At, CompareAt, Sign, ServicePack, Release, One
    <2>. QED
      BY <2>1, <2>2, <2>3
  <1>5. /\ At(Alpha, Release, 1) = 0 /\ At(Alpha, Release, 2) = 0
        /\ At(Alpha, Release, 3) = -1
    <2>1. compare_missing(Alpha[2]) = 0 /\ compare_missing(Alpha[3]) = 1
      BY DEF compare_missing, Alpha
    <2>2. /\ At(Alpha, Release, 2) = -compare_missing(Alpha[2])
          /\ At(Alpha, Release, 3) = -compare_missing(Alpha[3])
      BY DEF At, CompareAt, Alpha, Release
    <2>3. At(Alpha, Release, 1) = 0
      BY DEF At, CompareAt, Sign, Alpha, Release, One
    <2>. QED
      BY <2>1, <2>2, <2>3
  <1>6. /\ 1 \in Position /\ 2 \in Position /\ 3 \in Position
        /\ \A j \in Position : j < 2 => j = 1
        /\ \A j \in Position : j < 3 => j = 1 \/ j = 2
    BY DEF Position
  <1>7. compare_versions(Alpha, ServicePack) = 1
    BY <1>2, <1>3, <1>6, FirstDecides
  <1>8. compare_versions(ServicePack, Release) = 1
    BY <1>2, <1>4, <1>6, FirstDecides
  <1>9. compare_versions(Alpha, Release) = -1
    BY <1>2, <1>5, <1>6, FirstDecides
  <1>. QED
    BY <1>2, <1>7, <1>8, <1>9 DEF version_at_least
=============================================================================
