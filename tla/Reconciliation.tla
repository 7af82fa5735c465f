---------------------------- MODULE Reconciliation ----------------------------
(***************************************************************************)
(* `reconcile status KEY': the ticket's file is read once, the selected    *)
(* systems are asked one target after the other, and the file is compared  *)
(* with the answers.  While this goes on people work: the file and every   *)
(* system may change, and any request may fail.                            *)
(*                                                                         *)
(* record is the true content of the file and damaged says that the file   *)
(* does not parse.  For the properties, recorded and truth keep what the   *)
(* file and each target were when they were looked at, and blurred the     *)
(* targets of which less was learnt than their observation tells.          *)
(***************************************************************************)
EXTENDS Comparators

CONSTANTS
    Tickets,         \* contents of the ticket's file
    Worlds,          \* states of the systems outside
    ControllerSets,  \* sets of controllers with credentials
    Selections,      \* the systems a command may name, or rules enable
    Days,            \* days worklogs can be asked from
    Created,         \* the day the issue was created in Jira
    Today,           \* the day of the command
    MaxChanges,      \* bound: changes of the file and of the systems
    MaxFaults        \* bound: requests that fail

VARIABLES
    file,        \* "present", "damaged" or "missing"
    record,      \* what the ticket's file records
    world,       \* the systems outside, target by target
    phase,       \* of the command
    ticket,      \* the state it loaded
    left,        \* the systems it has still to turn to
    asking,      \* the targets it has still to ask, of the current system
    since,       \* the day it will ask worklogs from; 0: not known yet
    configured,  \* the Jenkins controllers it found credentials for
    obs,         \* its observations
    selected, recorded, wrecked, truth, blurred,
    report,
    changes, faults

outside == <<file, record, world, changes>>
command == <<ticket, left, asking, since, configured, obs, selected, report>>
seen    == <<recorded, wrecked, truth, blurred>>
vars    == <<file, record, world, phase, ticket, left, asking, since, configured,
             obs, selected, recorded, wrecked, truth, blurred, report, changes, faults>>

Order == [argocd |-> 1, git |-> 2, github |-> 3, jenkins |-> 4, jira |-> 5, tempo |-> 6]

TicketType ==
    [summary : Nat, complete : BOOLEAN, uncommitted : BOOLEAN,
     services : SUBSET Services, dirs : SUBSET Repos, urls : SUBSET Repos,
     argocd_app : Apps \cup {0},
     pull_requests : SUBSET [number : Nat, repo : Repos \cup {0}, url : Repos \cup {0},
                             state : {"", "open", "draft", "closed", "merged"}],
     builds : SUBSET [controller : Controllers \cup {0, Blank}, job : Jobs, number : Nat,
                      result : {"", "SUCCESS", "FAILURE"}],
     sync : {"unknown", "synced", "out_of_sync"}, expected_revision : Nat,
     implementation_complete : BOOLEAN, deployment_complete : BOOLEAN,
     tempo_logged : BOOLEAN, tempo_seconds : Nat, created_at : Days]

\* The state `load_state' makes up for a file it cannot parse; its day of
\* creation is the day of the command.
DefaultTicket ==
    [summary |-> 0, complete |-> FALSE, uncommitted |-> FALSE, services |-> {},
     dirs |-> {}, urls |-> {}, argocd_app |-> 0, pull_requests |-> {}, builds |-> {},
     sync |-> "unknown", expected_revision |-> 0, implementation_complete |-> FALSE,
     deployment_complete |-> FALSE, tempo_logged |-> FALSE, tempo_seconds |-> 0,
     created_at |-> Today]

Pull == [number : Named, state : {"open", "closed", "merged"},
         draft : BOOLEAN, mentions : BOOLEAN]
Build == [number : Named, result : {"", "SUCCESS", "FAILURE"}]

\* What can be true of a target.
Fact(t, x) ==
    /\ t = Jira => x \in [summary : Nat, category : {"new", "indeterminate", "done"}]
    /\ t = Tempo => x \in [Days -> Nat]
    /\ \A r \in Repos :
          /\ t = Git(r) => x \in [present : BOOLEAN, dirty : BOOLEAN, ahead : Nat]
          /\ t = Github(r) => x \in SUBSET Pull
    /\ \A c \in Controllers, j \in Jobs : t = Job(c, j) => x \in SUBSET Build
    /\ \A a \in Apps : t = App(a) =>
          x \in [sync : {"", "Synced", "OutOfSync", "Unknown"}, revision : Nat]

ASSUME ReconciliationAssumption ==
    /\ Days \subseteq Named /\ Created \in Days /\ Today \in Days
    /\ \A S \in ControllerSets : S \subseteq Controllers
    /\ \A t \in Tickets : t \in TicketType
    /\ \A w \in Worlds : DOMAIN w = Targets /\ \A t \in Targets : Fact(t, w[t])
    /\ MaxChanges \in Nat /\ MaxFaults \in Nat

-----------------------------------------------------------------------------
NoReport == [overall |-> "", contradictions |-> {}, exit |-> -1]

Init ==
    /\ file \in {"present", "damaged", "missing"}
    /\ record \in Tickets
    /\ world \in Worlds
    /\ phase = "idle"
    /\ ticket = DefaultTicket
    /\ left = {} /\ asking = {} /\ since = 0 /\ configured = {}
    /\ obs = [t \in Targets |-> Unasked]
    /\ selected = {}
    /\ recorded = record /\ wrecked = FALSE /\ truth = world /\ blurred = {}
    /\ report = NoReport
    /\ changes = 0 /\ faults = 0

\* The command ends without a report.
GiveUp(code) ==
    /\ phase' = "failed"
    /\ report' = [NoReport EXCEPT !.exit = code]

Refuse(S) ==
    /\ phase = "idle"
    /\ S \in Selections
    /\ ~(S \subseteq Systems) \/ file = "missing"
    /\ GiveUp(1)
    /\ UNCHANGED <<outside, ticket, left, asking, since, configured, obs, selected,
                   seen, faults>>

Begin(S) ==
    /\ phase = "idle"
    /\ S \in Selections /\ S \subseteq Systems
    /\ file # "missing"
    /\ phase' = "observing"
    /\ ticket' = IF file = "damaged" THEN DefaultTicket ELSE record
    /\ selected' = S /\ left' = S
    /\ recorded' = record /\ wrecked' = (file = "damaged")
    /\ UNCHANGED <<outside, asking, since, configured, obs, truth, blurred, report, faults>>

\* The command turns to the next system: it looks for the program or the
\* credentials and lists the targets of the ticket.
Open(s, usable, conf) ==
    /\ phase = "observing" /\ asking = {}
    /\ s \in left /\ \A u \in left : Order[s] <= Order[u]
    /\ IF s = "jenkins" THEN usable = (conf # {}) ELSE conf = configured
    /\ LET targets == TargetsOf(s, ticket, conf)
           opening == Opening(s, targets, usable)
       IN  IF opening = "ask"
           THEN asking' = targets /\ UNCHANGED obs
           ELSE obs' = [obs EXCEPT ![Whole(s)] = Without(opening)] /\ UNCHANGED asking
    /\ left' = left \ {s}
    /\ configured' = conf
    /\ UNCHANGED <<outside, phase, ticket, since, selected, seen, report, faults>>

\* Mutant: the order of the names is taken to have no equal ones.
DueStrictly(t) ==
    /\ phase = "observing"
    /\ t \in asking
    /\ \A u \in asking : \/ t.controller < u.controller
                         \/ t.controller = u.controller /\ t.name < u.name

\* Targets are asked in the order of their names, controllers first.
Due(t) ==
    /\ phase = "observing"
    /\ t \in asking
    /\ \A u \in asking : \/ t.controller < u.controller
                         \/ t.controller = u.controller /\ t.name <= u.name

Take(t, observation, blur) ==
    /\ obs' = [obs EXCEPT ![t] = observation]
    /\ asking' = asking \ {t}
    /\ truth' = [truth EXCEPT ![t] = world[t]]
    /\ blurred' = blurred \cup blur
    /\ UNCHANGED <<outside, phase, ticket, left, since, configured, selected,
                   recorded, wrecked, report>>

Fault(failed) ==
    /\ failed => faults < MaxFaults
    /\ faults' = IF failed THEN faults + 1 ELSE faults

Observe(t, answer) ==
    /\ Due(t)
    /\ answer \in {"answered"} \cup Failures(t.system)
    /\ Fault(answer # "answered")
    /\ \/ t.system = "jira"    /\ Take(t, observe_jira(answer, world[t]), {})
       \/ t.system = "github"  /\ Take(t, observe_github(answer, t, world[t]), {})
       \/ t.system = "jenkins" /\ Take(t, observe_jenkins(answer, t, configured, world[t]), {})
       \/ t.system = "argocd"  /\ Take(t, observe_argocd(answer, world[t]), {})

\* The queries of one clone; git answers none, all, or not all of them.
ObserveGit(t, answer, lost) ==
    /\ Due(t)
    /\ t.system = "git"
    /\ Fault(answer # "answered" \/ lost # {})
    /\ Take(t, observe_git(answer, lost, world[t]), IF lost = {} THEN {} ELSE {t})

\* Tempo first asks Jira for the issue again, to know its day of creation;
\* without an answer it takes the day the ticket's file was created.
AskCreated(answer) ==
    /\ Due(Tempo)
    /\ since = 0
    /\ Fault(answer # "answered")
    /\ since' = IF answer = "answered" THEN Created ELSE ticket.created_at
    /\ blurred' = IF answer = "answered" THEN blurred ELSE blurred \cup {Tempo}
    /\ UNCHANGED <<outside, phase, ticket, left, asking, configured, obs, selected,
                   recorded, wrecked, truth, report>>

ObserveTempo(answer) ==
    /\ Due(Tempo)
    /\ since # 0
    /\ Fault(answer # "answered")
    /\ Take(Tempo, observe_tempo(answer, since, world[Tempo]), {})

\* A server that takes the request and then says nothing: http_request_details
\* catches no timeout of a response, and the whole command ends.
Hang(t) ==
    /\ Due(t)
    /\ t.system \in {"jira", "tempo", "jenkins"}
    /\ t.system = "jenkins" => t.controller \in configured
    /\ Fault(TRUE)
    /\ GiveUp(2)
    /\ UNCHANGED <<outside, ticket, left, asking, since, configured, obs, selected, seen>>

Statuses(contradictions) ==
    {obs[t].status : t \in {t \in Targets : obs[t].status # "unasked"}}
        \cup {Severity(c.code) : c \in contradictions}

\* Mutant: one system that is READY outweighs those nothing is known about.
OverallHopeful(statuses) ==
    IF "ERROR" \in statuses THEN "ERROR"
    ELSE IF "BLOCKED" \in statuses THEN "BLOCKED"
    ELSE IF "DEGRADED" \in statuses THEN "DEGRADED"
    ELSE IF "READY" \in statuses THEN "READY" ELSE "UNKNOWN"

overall_status(statuses) ==
    IF "ERROR" \in statuses THEN "ERROR"
    ELSE IF "BLOCKED" \in statuses THEN "BLOCKED"
    ELSE IF "DEGRADED" \in statuses THEN "DEGRADED"
    ELSE IF "UNKNOWN" \in statuses \/ statuses = {} THEN "UNKNOWN" ELSE "READY"

exit_code(contradictions) ==
    IF \E t \in Targets : obs[t].status = "ERROR" THEN 2
    ELSE IF \E c \in contradictions : Severity(c.code) = "BLOCKED" THEN 3 ELSE 0

Compare ==
    /\ phase = "observing" /\ left = {} /\ asking = {}
    /\ phase' = "done"
    /\ LET found == compare_state(ticket, obs)
       IN  report' = [overall |-> overall_status(Statuses(found)),
                      contradictions |-> found, exit |-> exit_code(found)]
    /\ UNCHANGED <<outside, ticket, left, asking, since, configured, obs, selected,
                   seen, faults>>

-----------------------------------------------------------------------------
(* Other people and programs.                                              *)

Change ==
    /\ changes < MaxChanges /\ changes' = changes + 1
    /\ phase = "observing"
    /\ UNCHANGED <<phase, command, seen, faults>>

EditFile ==
    /\ Change
    /\ record' \in Tickets /\ file' = "present"
    /\ UNCHANGED world

ChangeWorld(t) ==
    /\ Change
    /\ \E w \in Worlds : world' = [world EXCEPT ![t] = w[t]]
    /\ UNCHANGED <<file, record>>

-----------------------------------------------------------------------------
Step ==
    \/ \E S \in Selections : Refuse(S) \/ Begin(S)
    \/ \E s \in Systems, usable \in BOOLEAN, conf \in ControllerSets \cup {configured} :
          Open(s, usable, conf)
    \/ \E t \in Targets : Hang(t)
    \/ \E t \in Targets, answer \in {"answered"} \cup HttpFailures : Observe(t, answer)
    \/ \E t \in Targets, answer \in {"answered", "failed"},
          lost \in SUBSET {"dirty", "ahead"} : ObserveGit(t, answer, lost)
    \/ \E answer \in {"answered"} \cup HttpFailures : AskCreated(answer) \/ ObserveTempo(answer)
    \/ Compare

Next == Step \/ EditFile \/ \E t \in Targets : ChangeWorld(t)

\* Every request has a timeout, and the command does nothing else.
Spec == Init /\ [][Next]_vars /\ WF_vars(Step)
-----------------------------------------------------------------------------
(* What really disagrees: what was recorded against what was true when it  *)
(* was looked at.                                                          *)

JiraDiverges(c) ==
    /\ c.about = Jira
    /\ LET issue == truth[Jira] IN
       \/ /\ c.code = "jira_summary_mismatch"
          /\ recorded.summary # 0 /\ issue.summary \notin {0, recorded.summary}
       \/ /\ c.code = "jira_complete_impl_incomplete"
          /\ issue.category = "done" /\ ~recorded.complete
       \/ /\ c.code = "closeout_complete_jira_active"
          /\ issue.category # "done" /\ recorded.implementation_complete

GitDiverges(c) ==
    \E r \in Repos :
        LET clone == truth[Git(r)] IN
        /\ c.about = Git(r)
        /\ \/ c.code = "repo_missing" /\ ~clone.present
           \/ /\ c.code = "uncommitted_mismatch"
              /\ clone.present /\ clone.dirty # recorded.uncommitted
           \/ c.code = "unpushed_commits" /\ clone.present /\ clone.ahead > 0

\* Where a recorded pull request lives: at its URL, or in the repository
\* named beside it, or nobody knows where.
Homes(p) == IF p.url # 0 THEN {p.url} ELSE IF p.repo # 0 THEN {p.repo} ELSE Repos

StateOf(pull) == IF pull.draft THEN "draft" ELSE pull.state
Namesakes(p, r) == {e \in truth[Github(r)] : e.number = p.number}

GithubDiverges(c) ==
    \/ /\ c.about \in recorded.pull_requests
       /\ \/ /\ c.code = "pr_missing_external" /\ c.about.number # 0
             /\ \A r \in Homes(c.about) : Namesakes(c.about, r) = {}
          \/ /\ c.code = "pr_state_mismatch" /\ c.about.state # ""
             /\ \E r \in Homes(c.about) : \E e \in Namesakes(c.about, r) :
                   StateOf(e) # c.about.state
    \/ /\ c.code = "pr_discovered_not_recorded"
       /\ \E r \in Repos : \E e \in Found(truth[Github(r)]) :
             /\ c.about = [repo |-> r, number |-> e.number]
             /\ \A p \in recorded.pull_requests :
                   p.number = e.number => r \notin Homes(p)

HomeOf(b) == HomeController(b, configured)

JenkinsDiverges(c) ==
    \/ /\ c.about \in recorded.builds
       /\ HomeOf(c.about) \in Controllers
       /\ LET namesakes == {e \in truth[Job(HomeOf(c.about), c.about.job)] :
                               e.number = c.about.number}
          IN  \/ c.code = "build_missing" /\ c.about.number # 0 /\ namesakes = {}
              \/ /\ c.code = "build_result_mismatch" /\ c.about.result # ""
                 /\ \E e \in namesakes : e.result \notin {"", c.about.result}
    \/ /\ c.code = "merged_pr_no_build" /\ c.about = Whole("jenkins")
       /\ \E p \in recorded.pull_requests : p.state = "merged"
       /\ recorded.builds = {}

ArgocdDiverges(c) ==
    \E a \in Apps :
        LET live == truth[App(a)] IN
        /\ c.about = App(a)
        /\ \/ /\ c.code = "sync_state_mismatch"
              /\ <<recorded.sync, live.sync>>
                    \in {<<"synced", "OutOfSync">>, <<"out_of_sync", "Synced">>}
           \/ /\ c.code = "revision_mismatch"
              /\ recorded.expected_revision # 0
              /\ live.revision \notin {0, recorded.expected_revision}
           \/ /\ c.code = "deployment_complete_not_synced"
              /\ recorded.deployment_complete /\ live.sync \notin {"", "Synced"}

TempoDiverges(c) ==
    /\ c.about = Tempo
    /\ LET seconds == truth[Tempo][Created] IN
       \/ c.code = "tempo_logged_zero" /\ recorded.tempo_logged /\ seconds = 0
       \/ /\ c.code = "tempo_seconds_mismatch" /\ recorded.tempo_logged
          /\ seconds \notin {0, recorded.tempo_seconds}
       \/ c.code = "tempo_unlogged_has_time" /\ ~recorded.tempo_logged /\ seconds > 0

Diverges(c) == \/ JiraDiverges(c) \/ GitDiverges(c) \/ GithubDiverges(c)
               \/ JenkinsDiverges(c) \/ ArgocdDiverges(c) \/ TempoDiverges(c)

-----------------------------------------------------------------------------
(* Where the command errs.                                                 *)

Answered(t) == obs[t].status = "READY" \/ obs[t].kind = "absent"

PullCodes  == {"pr_missing_external", "pr_state_mismatch", "pr_discovered_not_recorded"}
BuildCodes == {"build_missing", "build_result_mismatch"}

\* A job of that name was asked about on another controller.
Elsewhere(b) ==
    \E d \in Controllers : d # HomeOf(b) /\ obs[Job(d, b.job)].status # "unasked"

OlderThanRecent(b) ==
    HomeOf(b) \in Controllers =>
        \E e \in truth[Job(HomeOf(b), b.job)] :
            /\ e.number = b.number
            /\ e \notin recent_builds(truth[Job(HomeOf(b), b.job)])

\* The reasons a contradiction may be raised that is none.
FalseAlarm(c) ==
    \/ wrecked
    \/ c.code = "uncommitted_mismatch" /\ (c.about \in blurred \/ ~Answered(c.about))
    \/ /\ c.code = "pr_missing_external"
       /\ \E r \in Homes(c.about) :
             \/ ~Answered(Github(r))
             \/ \E e \in Namesakes(c.about, r) : ~e.mentions
    \/ c.code = "pr_state_mismatch" /\ (c.about.state = "draft" \/ c.about.url = 0)
    \/ c.code \in BuildCodes /\ Elsewhere(c.about)
    \/ /\ c.code = "build_missing"
       /\ \/ OlderThanRecent(c.about)
          \/ ~Answered(Job(HomeOf(c.about), c.about.job))
    \/ c.about = Tempo /\ Tempo \in blurred

\* What has to be known to see a divergence.
Needs(c, t) ==
    \/ /\ c.code \in {"pr_missing_external", "pr_state_mismatch"}
       /\ \E r \in Homes(c.about) : t = Github(r)
    \/ c.code = "pr_discovered_not_recorded" /\ t = Github(c.about.repo)
    \/ c.code \in BuildCodes /\ t = Job(HomeOf(c.about), c.about.job)
    \/ c.code \notin PullCodes \cup BuildCodes \cup {"merged_pr_no_build"} /\ t = c.about

Known(c) == \A t \in Targets : Needs(c, t) => Answered(t)

\* The reasons a divergence may be missed although all that was answered.
Blind(c) ==
    \/ wrecked
    \/ \E t \in blurred : Needs(c, t)
    \/ c.code \in {"pr_missing_external", "pr_state_mismatch"} /\ c.about.url = 0
    \/ /\ c.code = "pr_state_mismatch"
       /\ \E r \in Homes(c.about) : \E e \in Namesakes(c.about, r) : ~e.mentions
    \/ /\ c.code = "pr_discovered_not_recorded"
       /\ \E p \in recorded.pull_requests : p.number = c.about.number /\ p.url = 0
    \/ c.code \in BuildCodes /\ Elsewhere(c.about)
    \/ c.code = "build_result_mismatch" /\ OlderThanRecent(c.about)

Candidates ==
    [code : {"jira_summary_mismatch", "jira_complete_impl_incomplete",
             "closeout_complete_jira_active"}, about : {Jira}]
    \cup [code : {"repo_missing", "uncommitted_mismatch", "unpushed_commits"},
          about : {Git(r) : r \in Repos}]
    \cup [code : {"pr_missing_external", "pr_state_mismatch"},
          about : recorded.pull_requests]
    \cup [code : {"pr_discovered_not_recorded"},
          about : UNION {{[repo |-> r, number |-> e.number] : e \in truth[Github(r)]} :
                            r \in Repos}]
    \cup [code : BuildCodes, about : recorded.builds]
    \cup [code : {"merged_pr_no_build"}, about : {Whole("jenkins")}]
    \cup [code : {"sync_state_mismatch", "revision_mismatch",
                  "deployment_complete_not_synced"}, about : {App(a) : a \in Apps}]
    \cup [code : {"tempo_logged_zero", "tempo_seconds_mismatch",
                  "tempo_unlogged_has_time"}, about : {Tempo}]

Reported(c) ==
    \E d \in report.contradictions :
        d.code = c.code /\ (d.about = c.about \/ c.code = "deployment_complete_not_synced")

-----------------------------------------------------------------------------
(* Properties.                                                             *)

\* An observation has facts if and only if it is READY, and facts of its target.
IsObservation(t, o) ==
    /\ o = Observation(o.status, o.kind, o.facts)
    /\ \/ /\ o.status \in {"unasked", "ERROR", "DEGRADED", "UNKNOWN"}
          /\ o.kind \in {"none", "note", "absent"}
       \/ /\ o.status = "READY" /\ o.kind = "facts"
          /\ IF t = Tempo THEN o.facts \in Nat
             ELSE IF t.system = "git" THEN o.facts \in [dirty : BOOLEAN, ahead : Nat]
             ELSE Fact(t, o.facts)

\* Every variable has its type (engine.py, models.py).
TypeOK ==
    /\ file \in {"present", "damaged", "missing"}
    /\ record \in TicketType /\ recorded \in TicketType /\ ticket \in TicketType
    /\ DOMAIN world = Targets /\ DOMAIN truth = Targets /\ DOMAIN obs = Targets
    /\ \A t \in Targets : /\ Fact(t, world[t]) /\ Fact(t, truth[t])
                          /\ IsObservation(t, obs[t])
    /\ phase \in {"idle", "observing", "done", "failed"}
    /\ left \subseteq selected /\ selected \subseteq Systems
    /\ asking \subseteq Targets /\ blurred \subseteq Targets
    /\ since \in Days \cup {0} /\ configured \subseteq Controllers
    /\ wrecked \in BOOLEAN
    /\ report.overall \in {"", "ERROR", "BLOCKED", "DEGRADED", "UNKNOWN", "READY"}
    /\ report.exit \in {-1, 0, 1, 2, 3}
    /\ changes \in 0..MaxChanges /\ faults \in 0..MaxFaults

\* A contradiction that is reported is one: the file disagreed with the system
\* when it was asked.  The exceptions are the causes FalseAlarm names, all of
\* them in compare_state: details of a failed query are taken for an answer,
\* the recent builds for all builds, a job's name for the job, a search for
\* the repository, and the default of an unreadable file for the file.
AlarmsAreReal ==
    phase = "done" => \A c \in report.contradictions : Diverges(c) \/ FalseAlarm(c)

\* Whatever disagreed, in what was asked and answered, is in the report; the
\* exceptions are those Blind names.
NothingOverlooked ==
    phase = "done" =>
        \A c \in Candidates :
            Diverges(c) /\ Known(c) => Reported(c) \/ Blind(c)

\* The targets the command was to ask.
Owed == UNION {TargetsOf(s, recorded, configured) : s \in selected}

\* The two verdicts can be relied on.  READY: the ticket agrees with every
\* target of every system selected.  Exit 0: of what was answered, nothing
\* disagrees that blocks (_overall_status and the end of commands.run).
VerdictsMeanAgreement ==
    phase = "done" =>
        \A c \in Candidates :
            /\ Diverges(c)
            /\ \/ /\ report.overall = "READY"
                  /\ \A t \in Targets : Needs(c, t) => t \in Owed
               \/ report.exit = 0 /\ c.code \in Blocking /\ Known(c)
            => Blind(c)

\* A command that has begun ends, whatever fails and whoever works meanwhile.
ReconcileEnds == phase = "observing" ~> phase \in {"done", "failed"}

\* Why it ends, part one: while it is at work it is never at a loss.  Of the
\* targets to ask one comes first, and with none to ask a system comes first,
\* or none is left and it compares (the sorted lists of engine.py).
WorkIsDue ==
    phase = "observing" =>
        \/ \E t \in asking : Due(t)
        \/ asking = {} /\ \E s \in left : \A u \in left : Order[s] <= Order[u]
        \/ asking = {} /\ left = {}

\* Part two: no step is taken twice.  A step of the command ends it, or strikes
\* a system or a target off for good, or finds out the day the worklogs are
\* asked from, once; and an observation, once made, is never made again.
Forward ==
    \/ phase = "idle" /\ phase' \in {"observing", "failed"}
    \/ phase = "observing" /\ phase' \in {"done", "failed"}
    \/ /\ phase = "observing" /\ phase' = "observing"
       /\ since # 0 => since' = since
       /\ \/ \E s \in left : left' = left \ {s}
          \/ left' = left /\ \E t \in asking : asking' = asking \ {t}
          \/ left' = left /\ asking' = asking /\ since = 0 /\ since' # 0

ReconcileAdvances ==
    [][/\ \A t \in Targets : obs[t].status # "unasked" => obs'[t] = obs[t]
       /\ UNCHANGED <<phase, command>> \/ Forward]_vars
=============================================================================
