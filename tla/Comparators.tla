------------------------------ MODULE Comparators ------------------------------
(***************************************************************************)
(* compare_state: what a ticket's file records against what the systems    *)
(* were observed to say.  o maps every target to its observation, Unasked  *)
(* when there is none.  Each definition named after a code of              *)
(* reconciliation-rules.json is the set of things that code is raised      *)
(* about.  (pr_url_mismatch is not here: a pull request with another URL   *)
(* never matches, so the code cannot raise it.)                            *)
(***************************************************************************)
EXTENDS ReadOnlyAdapters

CONSTANT Within   \* Within[r]: the repositories whose URL contains r's name

ASSUME WithinAssumption ==
    /\ Within \in [Repos -> SUBSET Repos]
    /\ \A r \in Repos : r \in Within[r]

Told(o, t) == o[t].status = "READY" /\ o[t].kind = "facts"
First(S)   == {x \in S : \A y \in S : x <= y}

\* Of some applications one comes first (the names of a file can be sorted).
ASSUME FirstAssumption == \A S \in SUBSET Apps : S # {} => First(S) # {}

jira_summary_mismatch(ticket, o) ==
    {t \in {Jira} : /\ Told(o, t)
                    /\ ticket.summary # 0 /\ o[t].facts.summary # 0
                    /\ ticket.summary # o[t].facts.summary}

jira_complete_impl_incomplete(ticket, o) ==
    {t \in {Jira} : Told(o, t) /\ o[t].facts.category = "done" /\ ~ticket.complete}

closeout_complete_jira_active(ticket, o) ==
    {t \in {Jira} : /\ Told(o, t) /\ ticket.implementation_complete
                    /\ o[t].facts.category \in {"indeterminate", "new"}}

-----------------------------------------------------------------------------
Clones(o) == {t \in {Git(r) : r \in Repos} : o[t].kind # "none"}

repo_missing(o) == {t \in Clones(o) : o[t].kind = "absent"}

uncommitted_mismatch(ticket, o) ==
    {t \in Clones(o) : /\ o[t].kind # "absent"
                       /\ (o[t].kind = "facts" /\ o[t].facts.dirty)
                             # ticket.uncommitted}

unpushed_commits(o) == {t \in Clones(o) : o[t].kind = "facts" /\ o[t].facts.ahead > 0}

-----------------------------------------------------------------------------
Listed(o, r) == IF o[Github(r)].kind = "facts" THEN o[Github(r)].facts ELSE {}

\* Where a recorded pull request is found: by number and URL or, without a
\* URL, by number and a URL that contains the repository's name, if recorded.
Matches(o, p) ==
    {r \in Repos : /\ \E e \in Listed(o, r) : e.number = p.number
                   /\ \/ p.url = r
                      \/ p.url = 0 /\ (p.repo = 0 \/ r \in Within[p.repo])}

pr_missing_external(ticket, o) ==
    {p \in ticket.pull_requests : p.number # 0 /\ Matches(o, p) = {}}

pr_state_mismatch(ticket, o) ==
    {p \in ticket.pull_requests :
        \E r \in First(Matches(o, p)) : \E e \in Listed(o, r) :
            LET observed == IF e.draft /\ p.state # "draft" THEN "draft" ELSE e.state
            IN  e.number = p.number /\ p.state # "" /\ p.state # observed}

pr_discovered_not_recorded(ticket, o) ==
    {x \in UNION {{[repo |-> r, number |-> e.number] : e \in Listed(o, r)} : r \in Repos} :
        \A p \in ticket.pull_requests :
            p.number = x.number => p.url \notin {0, x.repo}}

-----------------------------------------------------------------------------
\* Only the job's name is compared: of controllers with such a job, the first.
Observed(o, job) == First({c \in Controllers : o[Job(c, job)].status # "unasked"})

Recent(o, c, job) ==
    IF o[Job(c, job)].kind = "facts" THEN o[Job(c, job)].facts ELSE {}

build_missing(ticket, o) ==
    {b \in ticket.builds :
        /\ b.number # 0
        /\ \E c \in Observed(o, b.job) :
              \A e \in Recent(o, c, b.job) : e.number # b.number}

build_result_mismatch(ticket, o) ==
    {b \in ticket.builds :
        \E c \in Observed(o, b.job) : \E e \in Recent(o, c, b.job) :
            /\ e.number = b.number
            /\ b.result # "" /\ e.result # "" /\ b.result # e.result}

merged_pr_no_build(ticket) ==
    {t \in {Whole("jenkins")} :
        /\ \E p \in ticket.pull_requests : p.state = "merged"
        /\ ticket.builds = {}}

-----------------------------------------------------------------------------
Applications(o) == {a \in Apps : o[App(a)].kind = "facts"}

\* Mutant: only an application that fell out of synchronization is noticed.
SyncStateLost(ticket, o) ==
    {App(a) : a \in {a \in Applications(o) :
        ticket.sync = "synced" /\ o[App(a)].facts.sync = "OutOfSync"}}

sync_state_mismatch(ticket, o) ==
    {App(a) : a \in {a \in Applications(o) :
        \/ ticket.sync = "synced" /\ o[App(a)].facts.sync = "OutOfSync"
        \/ ticket.sync = "out_of_sync" /\ o[App(a)].facts.sync = "Synced"}}

\* Mutant: an application that tells no revision has the wrong one.
RevisionUntold(ticket, o) ==
    {App(a) : a \in {a \in Applications(o) :
        /\ ticket.expected_revision # 0
        /\ ticket.expected_revision # o[App(a)].facts.revision}}

revision_mismatch(ticket, o) ==
    {App(a) : a \in {a \in Applications(o) :
        /\ ticket.expected_revision # 0 /\ o[App(a)].facts.revision # 0
        /\ ticket.expected_revision # o[App(a)].facts.revision}}

\* Raised once, about the first application.
deployment_complete_not_synced(ticket, o) ==
    {App(a) : a \in First({a \in Applications(o) :
        /\ ticket.deployment_complete
        /\ o[App(a)].facts.sync \notin {"", "Synced"}})}

-----------------------------------------------------------------------------
tempo_logged_zero(ticket, o) ==
    {t \in {Tempo} : Told(o, t) /\ ticket.tempo_logged /\ o[t].facts = 0}

tempo_seconds_mismatch(ticket, o) ==
    {t \in {Tempo} : /\ Told(o, t) /\ ticket.tempo_logged /\ o[t].facts # 0
                     /\ o[t].facts # ticket.tempo_seconds}

tempo_unlogged_has_time(ticket, o) ==
    {t \in {Tempo} : Told(o, t) /\ ~ticket.tempo_logged /\ o[t].facts > 0}

-----------------------------------------------------------------------------
Blocking ==
    {"jira_complete_impl_incomplete", "closeout_complete_jira_active",
     "repo_missing", "pr_missing_external", "build_missing",
     "build_result_mismatch", "sync_state_mismatch", "revision_mismatch",
     "deployment_complete_not_synced", "tempo_logged_zero"}

Severity(code) == IF code \in Blocking THEN "BLOCKED" ELSE "DEGRADED"

Contradiction(code, S) == {[code |-> code, about |-> x] : x \in S}

compare_state(ticket, o) ==
    Contradiction("jira_summary_mismatch", jira_summary_mismatch(ticket, o))
    \cup Contradiction("jira_complete_impl_incomplete", jira_complete_impl_incomplete(ticket, o))
    \cup Contradiction("closeout_complete_jira_active", closeout_complete_jira_active(ticket, o))
    \cup Contradiction("repo_missing", repo_missing(o))
    \cup Contradiction("uncommitted_mismatch", uncommitted_mismatch(ticket, o))
    \cup Contradiction("unpushed_commits", unpushed_commits(o))
    \cup Contradiction("pr_missing_external", pr_missing_external(ticket, o))
    \cup Contradiction("pr_state_mismatch", pr_state_mismatch(ticket, o))
    \cup Contradiction("pr_discovered_not_recorded", pr_discovered_not_recorded(ticket, o))
    \cup Contradiction("build_missing", build_missing(ticket, o))
    \cup Contradiction("build_result_mismatch", build_result_mismatch(ticket, o))
    \cup Contradiction("merged_pr_no_build", merged_pr_no_build(ticket))
    \cup Contradiction("sync_state_mismatch", sync_state_mismatch(ticket, o))
    \cup Contradiction("revision_mismatch", revision_mismatch(ticket, o))
    \cup Contradiction("deployment_complete_not_synced", deployment_complete_not_synced(ticket, o))
    \cup Contradiction("tempo_logged_zero", tempo_logged_zero(ticket, o))
    \cup Contradiction("tempo_seconds_mismatch", tempo_seconds_mismatch(ticket, o))
    \cup Contradiction("tempo_unlogged_has_time", tempo_unlogged_has_time(ticket, o))
=============================================================================
