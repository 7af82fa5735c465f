------------------------------ MODULE JenkinsJobs ------------------------------
(***************************************************************************)
(* `jenkins jobs': the folder it starts from is asked for once to see that *)
(* it is there, and again by the walk through it and the folders below,    *)
(* one request each.  A folder the walk cannot read is passed over, one    *)
(* with a name the tool takes for no name ends it.  While it goes on jobs  *)
(* and folders come and go.                                                *)
(*                                                                         *)
(* An item stands for a full path.  For the properties, steady keeps the   *)
(* jobs that have been there all the time, ever those that have been there *)
(* at some time, and unread the folders passed over.                       *)
(***************************************************************************)
EXTENDS JenkinsRequests, FiniteSets

CONSTANTS
    Items, Root,
    Parent, Above, Depth,   \* of each path: its folder, all folders, how many
    Alphabet,               \* Alphabet[i]: the place of i among all paths
    Odd,                    \* paths Jenkins allows, but not _validate_job_name
    Trees,                  \* what a controller may hold
    MaxDepth                \* how far below its start the walk goes

VARIABLES tree, todo, collected, items, steady, ever, unread

jobVars == <<tree, todo, collected, items, steady, ever, unread>>

\* A path has its folder's folders above it; a folder above it is its own or
\* has another one of them in it.
ASSUME JobsAssumption ==
    /\ IsFiniteSet(Items)
    /\ Root \notin Items
    /\ Parent \in [Items -> Items \cup {Root}]
    /\ Above \in [Items \cup {Root} -> SUBSET (Items \cup {Root})]
    /\ Depth \in [Items \cup {Root} -> Nat]
    /\ Above[Root] = {}
    /\ \A i \in Items :
          /\ Depth[i] = Depth[Parent[i]] + 1
          /\ Above[i] = Above[Parent[i]] \cup {Parent[i]}
          /\ \A f \in Above[i] :
                /\ Depth[f] < Depth[i]
                /\ f = Parent[i] \/ \E g \in Above[i] \cap Items : Parent[g] = f
    /\ Alphabet \in [Items -> Nat]
    /\ \A i, j \in Items : Alphabet[i] = Alphabet[j] => i = j
    /\ MaxDepth \in Nat
    /\ Odd \subseteq Items
    /\ \A t \in Trees :
          /\ t.jobs \subseteq Items /\ t.folders \subseteq Items
          /\ t.jobs \cap t.folders = {}
          /\ \A i \in t.jobs \cup t.folders : Above[i] \subseteq t.folders \cup {Root}

JobsInit ==
    /\ tree \in Trees
    /\ todo = {} /\ collected = {} /\ items = {}
    /\ steady = tree.jobs /\ ever = tree.jobs /\ unread = {}

Exists(i) == i \in {Root} \cup tree.folders \cup tree.jobs

\* The first request: is the folder there, may it be read?
CheckFolder(reply) ==
    /\ phase = "asking" /\ call.op = "jobs"
    /\ ~reply.trouble
    /\ Receive(reply, Exists(call.folder))
    /\ IF Good(reply)
       THEN /\ phase' = "walking"
            /\ todo' = {[folder |-> call.folder, depth |-> 0]}
            /\ UNCHANGED outcome
       ELSE /\ End(operator_http_error(reply, call.folder # Root))
            /\ UNCHANGED todo
    /\ UNCHANGED <<creds, call, changes, tree, collected, items, steady, ever, unread>>

Within(f, S) == {i \in S : Parent[i] = f}

\* Mutant: the folders of the last level are entered, those above are not.
FoldersAtEnd(t) ==
    IF t.depth = MaxDepth
    THEN {[folder |-> g, depth |-> t.depth + 1] : g \in Within(t.folder, tree.folders)}
    ELSE {}

FoldersBelow(t) ==
    IF t.depth < MaxDepth
    THEN {[folder |-> g, depth |-> t.depth + 1] : g \in Within(t.folder, tree.folders)}
    ELSE {}

\* The walk goes down before it goes on, in the order Jenkins lists folders.
Upcoming(t) == t \in todo /\ \A u \in todo : u.depth <= t.depth

Visit(t, reply) ==
    /\ phase = "walking"
    /\ Upcoming(t) /\ t.folder \notin Odd
    /\ ~reply.trouble
    /\ Receive(reply, Exists(t.folder))
    /\ IF Good(reply)
       THEN /\ collected' = collected \cup Within(t.folder, tree.jobs)
            /\ todo' = (todo \ {t}) \cup FoldersBelow(t)
            /\ UNCHANGED unread
       ELSE /\ unread' = unread \cup {t.folder}
            /\ todo' = todo \ {t}
            /\ UNCHANGED collected
    /\ UNCHANGED <<creds, phase, call, outcome, changes, tree, items, steady, ever>>

\* encode_job_path raises ValueError: the jobs collected so far are lost.
Stumble(t) ==
    /\ phase = "walking"
    /\ Upcoming(t) /\ t.folder \in Odd
    /\ End(Invalid)
    /\ met' = met \cup {"odd name"}
    /\ UNCHANGED <<creds, call, faults, changes, tree, todo, collected, items,
                   steady, ever, unread>>

Matching == collected \cap call.query

\* Sorted, and cut to the limit.
ListJobs ==
    /\ phase = "walking" /\ todo = {}
    /\ items' = {i \in Matching :
                    Cardinality({j \in Matching : Alphabet[j] < Alphabet[i]}) < call.limit}
    /\ End(Verdict(IF Cardinality(Matching) > call.limit THEN "DEGRADED" ELSE "READY",
                   "fetched"))
    /\ UNCHANGED <<creds, call, met, faults, changes, tree, todo, collected,
                   steady, ever, unread>>

ChangeTree ==
    /\ Change
    /\ tree' \in Trees
    /\ steady' = steady \cap tree'.jobs
    /\ ever' = ever \cup tree'.jobs
    /\ UNCHANGED <<creds, todo, collected, items, unread>>

-----------------------------------------------------------------------------
Listed == phase = "done" /\ call.op = "jobs" /\ outcome.message = "fetched"

\* The jobs a listing owes: there all the time, within reach, as asked for,
\* and in folders that could be read.
Owed ==
    {j \in steady \cap call.query :
        /\ call.folder \in Above[j]
        /\ Depth[j] - Depth[call.folder] <= MaxDepth + 1
        /\ Above[j] \cap unread = {}}

\* What a listing names has been there, below the folder and as asked for; and
\* what it owes it names, all of it if it is READY, and if it is DEGRADED
\* everything that comes before something it names (_collect_jobs visits each
\* folder at a time of its own, operator_jobs sorts and cuts).
ListingFaithful ==
    Listed =>
        /\ items \subseteq ever \cap call.query
        /\ \A i \in items : call.folder \in Above[i]
        /\ outcome.status = "READY" => Owed \subseteq items
        /\ \A i \in items, j \in Owed : Alphabet[j] < Alphabet[i] => j \in items
=============================================================================
