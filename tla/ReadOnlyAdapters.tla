--------------------------- MODULE ReadOnlyAdapters ---------------------------
(***************************************************************************)
(* What `reconcile status' asks of other systems and what it makes of      *)
(* their answers.  A target is one thing asked about: the Jira issue, a    *)
(* clone, a GitHub repository, a Jenkins job, an Argo CD application, the  *)
(* Tempo worklogs.  An observation has a status and, possibly, details;    *)
(* details may hold the facts asked for or only a note (an error text, the *)
(* name of the job), and the comparators tell the two apart only by which  *)
(* fields they find.                                                       *)
(*                                                                         *)
(* Names are positive numbers in the order the code sorts them; 0 stands   *)
(* for a field that is empty or absent.  Only for the controller of a      *)
(* build the code tells the two apart: there 0 is an absent field, Blank   *)
(* an empty one.                                                           *)
(***************************************************************************)
EXTENDS Integers, FiniteSets

CONSTANTS
    Repos, Controllers, Jobs, Apps,
    Unsafe,      \* names no repository or application may have
    Services,
    Catalog,     \* what the catalog lists for each service
    MaxBuilds    \* how many recent builds of a job are looked at

Named == Nat \ {0}
Blank == -1

Listing == [dirs : SUBSET Repos, urls : SUBSET Repos, apps : SUBSET Apps,
            jobs : SUBSET (Controllers \X Jobs)]

ASSUME AdapterAssumption ==
    /\ Repos \subseteq Named /\ Controllers \subseteq Named
    /\ Jobs \subseteq Named /\ Apps \subseteq Named
    /\ Unsafe \subseteq Named
    /\ MaxBuilds \in Nat
    /\ Catalog \in [Services -> Listing]

Target(system, controller, name) ==
    [system |-> system, controller |-> controller, name |-> name]

Systems == {"argocd", "git", "github", "jenkins", "jira", "tempo"}

\* The issue, the worklogs, and what a system says that is asked nothing.
Whole(system)  == Target(system, 0, 0)
Jira           == Whole("jira")
Tempo          == Whole("tempo")
Git(r)         == Target("git", 0, r)
Github(r)      == Target("github", 0, r)
Job(c, j)      == Target("jenkins", c, j)
App(a)         == Target("argocd", 0, a)

Targets ==
    {Whole(s) : s \in Systems} \cup {Git(r) : r \in Repos}
        \cup {Github(r) : r \in Repos} \cup {App(a) : a \in Apps}
        \cup {Job(c, j) : c \in Controllers, j \in Jobs}

-----------------------------------------------------------------------------
(* Which targets a ticket has, its own and those of its services.          *)

OfServices(ticket, key) == UNION {Catalog[s][key] : s \in ticket.services}

resolve_repositories(ticket) ==
    {Git(r) : r \in ticket.dirs \cup OfServices(ticket, "dirs")}

repo_slugs(ticket) ==
    {Github(r) : r \in ticket.urls \cup OfServices(ticket, "urls")}

application_names(ticket) ==
    {App(a) : a \in ({ticket.argocd_app} \ {0}) \cup OfServices(ticket, "apps")}

\* A build recorded without its controller belongs to the only one there is;
\* one whose controller is recorded as empty belongs to none.
HomeController(build, configured) ==
    IF build.controller = Blank THEN 0
    ELSE IF build.controller = 0 /\ Cardinality(configured) = 1
    THEN CHOOSE c \in configured : TRUE
    ELSE build.controller

\* Mutant: a build of an unknown controller is asked about all the same.
JobTargetsAnywhere(ticket, configured) ==
    {Job(HomeController(b, configured), b.job) : b \in ticket.builds}
      \cup {Job(p[1], p[2]) : p \in OfServices(ticket, "jobs")}

job_targets(ticket, configured) ==
    {t \in {Job(HomeController(b, configured), b.job) : b \in ticket.builds} :
        t.controller # 0}
      \cup {Job(p[1], p[2]) : p \in OfServices(ticket, "jobs")}

TargetsOf(system, ticket, configured) ==
    IF system = "git" THEN resolve_repositories(ticket)
    ELSE IF system = "github" THEN repo_slugs(ticket)
    ELSE IF system = "argocd" THEN application_names(ticket)
    ELSE IF system = "jenkins" THEN job_targets(ticket, configured)
    ELSE {Whole(system)}

\* The status a system gets without being asked, or "ask".  `usable': its
\* program is installed or its credentials are complete (for tempo: and Jira
\* knows the user); for git, the repositories root is in the workspace.
Opening(system, targets, usable) ==
    IF system # "git" /\ ~usable THEN "UNKNOWN"
    ELSE IF system \in {"git", "argocd"} /\ \E t \in targets : t.name \in Unsafe
         THEN "ERROR"
    ELSE IF targets = {} THEN "UNKNOWN"
    ELSE IF ~usable THEN "ERROR"
    ELSE "ask"

-----------------------------------------------------------------------------
(* Observations.                                                           *)

Observation(status, kind, facts) ==
    [status |-> status, kind |-> kind, facts |-> facts]
Unasked          == Observation("unasked", "none", {})
Without(status)  == Observation(status, "none", {})
WithNote(status) == Observation(status, "note", {})
Ready(facts)     == Observation("READY", "facts", facts)

\* What may come back from a request or a process.
HttpFailures == {"failed", "malformed", "refused"}
Failures(system) ==
    IF system \in {"jira", "tempo", "jenkins"} THEN HttpFailures
    ELSE IF system = "git" THEN {"failed"} ELSE {"failed", "malformed"}

observe_jira(answer, issue) ==
    IF answer = "answered" THEN Ready(issue)
    ELSE Without(IF answer = "malformed" THEN "ERROR" ELSE "DEGRADED")

\* `lost': what is not known because `git status', or the count of commits,
\* failed; it is reported as a clean tree, or as nothing to push.
observe_git(answer, lost, clone) ==
    IF ~clone.present THEN Observation("DEGRADED", "absent", {})
    ELSE IF answer = "failed" THEN WithNote("ERROR")
    ELSE Ready([dirty |-> "dirty" \notin lost /\ clone.dirty,
                ahead |-> IF "ahead" \in lost THEN 0 ELSE clone.ahead])

\* The search finds the pull requests that mention the ticket's key.
Found(pulls) == {p \in pulls : p.mentions}

observe_github(answer, target, pulls) ==
    IF target.name \in Unsafe \/ answer = "malformed" THEN Without("ERROR")
    ELSE IF answer = "failed" THEN WithNote("DEGRADED")
    ELSE Ready(Found(pulls))

Newer(builds, b) == {d \in builds : d.number > b.number}

recent_builds(builds) ==
    IF MaxBuilds = 0 THEN {b \in builds : Newer(builds, b) = {}}
    ELSE {b \in builds : Cardinality(Newer(builds, b)) < MaxBuilds}

observe_jenkins(answer, target, configured, builds) ==
    IF target.controller \notin configured \/ answer \in {"failed", "refused"}
    THEN WithNote("DEGRADED")
    ELSE IF answer = "malformed" THEN WithNote("ERROR")
    ELSE Ready(recent_builds(builds))

observe_argocd(answer, application) ==
    IF answer = "failed" THEN WithNote("DEGRADED")
    ELSE IF answer = "malformed" THEN Without("ERROR")
    ELSE Ready(application)

\* The worklogs are asked for from day `since'; logged[d] is what the user
\* logged on the ticket from day d on.
observe_tempo(answer, since, logged) ==
    IF answer = "answered" THEN Ready(logged[since])
    ELSE Without(IF answer = "malformed" THEN "ERROR" ELSE "DEGRADED")
=============================================================================
