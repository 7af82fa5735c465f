--------------------------- MODULE MCJenkinsOperator ---------------------------
(***************************************************************************)
(* One controller with two root folders, one of them two levels deep, a    *)
(* walk of one level, two plugins, two vulnerabilities and two advisory    *)
(* pages.                                                                  *)
(***************************************************************************)
EXTENDS JenkinsOperator

\* 1 a/, 2 a/j, 3 a/b/, 4 a/b/k, 5 d/, 6 d/m, 7 z, 8 "q a"/ with a blank; 0 is the root.
MCItems == 1..8
MCParent == <<0, 1, 1, 3, 0, 5, 0, 0>>
MCAbove == [i \in 0..8 |-> CASE i = 0 -> {} [] i \in {1, 5, 7, 8} -> {0} [] i \in {2, 3} -> {0, 1}
                             [] i = 4 -> {0, 1, 3} [] i = 6 -> {0, 5}]
MCDepth == [i \in 0..8 |-> CASE i = 0 -> 0 [] i \in {1, 5, 7, 8} -> 1 [] i \in {2, 3, 6} -> 2
                             [] i = 4 -> 3]
MCAlphabet == <<1, 4, 2, 3, 5, 6, 8, 7>>

Tree(jobs, folders) == [jobs |-> jobs, folders |-> folders]

\* Everything; the deep folder gone; the other folder gone, or become a job; a
\* folder with an odd name.
MCTrees == {Tree({2, 4, 6, 7}, {1, 3, 5}), Tree({2, 6, 7}, {1, 5}),
            Tree({2, 4}, {1, 3}), Tree({4, 5}, {1, 3}), Tree({2}, {1, 8})}

V1  == <<[kind |-> Number, value |-> 1]>>
V2  == <<[kind |-> Number, value |-> 2]>>
RC2 == <<[kind |-> Number, value |-> 2], [kind |-> Qualifier, value |-> -1]>>
\* 1-sp is newer than 1; 1.0.alpha is newer than 1-sp, but not than 1.
SP1 == <<[kind |-> Number, value |-> 1], [kind |-> Qualifier, value |-> 1]>>
A1  == <<[kind |-> Number, value |-> 1], [kind |-> Number, value |-> 0],
         [kind |-> Qualifier, value |-> -4]>>
MCVersions == {<<>>, V1, V2, RC2, SP1, A1}

Warn(p, u, r, c, m) == [plugin |-> p, url |-> u, ranges |-> r, cves |-> c, marked |-> m]
Cand(v, c, n) == [version |-> v, core |-> c, needs |-> n]
Needs(p, v) == [name |-> p, version |-> v]

MCInstalls == {<<V1, V1>>, <<V1>>, <<V1, RC2>>, <<V1, SP1>>}

\* Both can be upgraded, and each is fit for the other's old version; one has
\* no version without a warning and a warning without a page, the other needs
\* more than is there; one needs a version that the other's upgrade is confused
\* with.
MCCentres ==
    {[warnings   |-> {Warn(1, 1, {{V1}}, {1}, TRUE), Warn(2, 1, {{V1}, {RC2}}, {2}, FALSE)},
      candidates |-> <<Cand(V2, V1, {Needs(2, V1)}), Cand(V2, V2, {Needs(1, <<>>)})>>],
     [warnings   |-> {Warn(1, 0, {}, {}, TRUE), Warn(1, 2, {{V1, RC2}}, {1, 2}, TRUE),
                      Warn(2, 2, {{V1}}, {2}, TRUE)},
      candidates |-> <<Cand(V2, <<>>, {}), Cand(RC2, <<>>, {Needs(1, V2)})>>],
     [warnings   |-> {Warn(1, 1, {{V1}}, {1}, TRUE), Warn(2, 1, {{SP1}}, {2}, TRUE)},
      candidates |-> <<Cand(V2, <<>>, {Needs(2, V1)}), Cand(A1, <<>>, {})>>]}

Plain(op) == [NoCall EXCEPT !.op = op]

MCCalls ==
    {Plain(op) : op \in Inline \cup Shared \cup {"controllers", "syntax-check"}}
      \cup {[Plain(op) EXCEPT !.bad = b] : op \in CheckedFirst \cup CheckedLate,
                                           b \in {"argument", "controller"}}
      \cup {[Plain("jobs") EXCEPT !.folder = f, !.query = q, !.limit = n] :
               f \in {0, 1}, q \in {MCItems, {2, 4, 6}}, n \in {1, 3}}
      \cup {[Plain("vulnerabilities") EXCEPT !.wanted = w, !.enrich = e] :
               w \in {{}, {2}}, e \in {{}, {"advisory"}, {"nvd"}}}
=============================================================================
