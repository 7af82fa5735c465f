------------------------- MODULE ReconciliationProofs -------------------------
(***************************************************************************)
(* Proofs about Reconciliation: its type invariant, and that its alarms    *)
(* are real, that nothing is overlooked and that its verdicts mean         *)
(* agreement, but for the causes named.                                    *)
(***************************************************************************)
EXTENDS Reconciliation, FiniteSetTheorems, WellFoundedInduction, TLAPS

-----------------------------------------------------------------------------
(* The assumptions, in the parts the proofs need.                          *)

LEMMA Numbers == /\ MaxChanges \in Nat /\ MaxFaults \in Nat
                 /\ Days \subseteq Named /\ Created \in Days /\ Today \in Days
BY ReconciliationAssumption

LEMMA Inputs == /\ \A S \in ControllerSets : S \subseteq Controllers
                /\ \A tk \in Tickets : tk \in TicketType
                /\ \A w \in Worlds : DOMAIN w = Targets
                /\ \A w \in Worlds : \A t \in Targets : Fact(t, w[t])
BY ReconciliationAssumption

LEMMA NamesNotZero == 0 \notin Repos \cup Apps \cup Jobs \cup Controllers
BY AdapterAssumption DEF Named

-----------------------------------------------------------------------------
(* Targets.                                                                *)

LEMMA DefaultTicketType == DefaultTicket \in TicketType
BY Numbers DEF DefaultTicket, TicketType

\* A build's controller is one that exists, or is not known.
LEMMA HomeControllerType ==
    ASSUME NEW tk \in TicketType, NEW conf \in SUBSET Controllers, NEW b \in tk.builds
    PROVE  HomeController(b, conf) \in Controllers \cup {0}
<1>1. b.controller \in Controllers \cup {0, Blank}
  BY DEF TicketType
<1>2. ASSUME Cardinality(conf) = 1 PROVE conf # {}
  BY <1>2, FS_EmptySet
<1>3. ASSUME Cardinality(conf) = 1 PROVE (CHOOSE c \in conf : TRUE) \in Controllers
  BY <1>2, <1>3
<1> QED BY <1>1, <1>3 DEF HomeController

LEMMA ServiceListings ==
    ASSUME NEW tk \in TicketType
    PROVE  /\ OfServices(tk, "dirs") \subseteq Repos
           /\ OfServices(tk, "urls") \subseteq Repos
           /\ OfServices(tk, "apps") \subseteq Apps
           /\ OfServices(tk, "jobs") \subseteq Controllers \X Jobs
<1>1. \A s \in tk.services : Catalog[s] \in Listing
  BY AdapterAssumption DEF TicketType
<1> QED BY <1>1 DEF OfServices, Listing

\* Only targets are asked, and each of the system it belongs to.
LEMMA TargetsOfType ==
    ASSUME NEW tk \in TicketType, NEW conf \in SUBSET Controllers, NEW s \in Systems
    PROVE  \A t \in TargetsOf(s, tk, conf) :
              t \in Targets /\ t.system = s /\ (t.name = 0 => s \in {"jira", "tempo"})
<1> USE NamesNotZero
<1>1. CASE s = "git"
  <2>1. tk.dirs \subseteq Repos BY DEF TicketType
  <2> QED BY <1>1, <2>1, ServiceListings
          DEF TargetsOf, resolve_repositories, Targets, Git, Target
<1>2. CASE s = "github"
  <2>1. tk.urls \subseteq Repos BY DEF TicketType
  <2> QED BY <1>2, <2>1, ServiceListings
          DEF TargetsOf, repo_slugs, Targets, Github, Target
<1>3. CASE s = "argocd"
  <2>1. tk.argocd_app \in Apps \cup {0} BY DEF TicketType
  <2> QED BY <1>3, <2>1, ServiceListings
          DEF TargetsOf, application_names, Targets, App, Target
<1>4. CASE s = "jenkins"
  <2>1. \A b \in tk.builds : b.job \in Jobs BY DEF TicketType
  <2>2. \A b \in tk.builds : HomeController(b, conf) \in Controllers \cup {0}
    BY HomeControllerType
  <2>3. \A p \in OfServices(tk, "jobs") : p[1] \in Controllers /\ p[2] \in Jobs
    BY ServiceListings
  <2> QED BY <1>4, <2>1, <2>2, <2>3 DEF TargetsOf, job_targets, Targets, Job, Target
<1>5. CASE s \in {"jira", "tempo"}
  BY <1>5 DEF TargetsOf, Targets, Whole, Target
<1> QED BY <1>1, <1>2, <1>3, <1>4, <1>5 DEF Systems

-----------------------------------------------------------------------------
(* Observations.                                                           *)

LEMMA WithoutType ==
    ASSUME NEW t, NEW status \in {"ERROR", "DEGRADED", "UNKNOWN"}
    PROVE  IsObservation(t, Without(status)) /\ IsObservation(t, WithNote(status))
BY DEF IsObservation, Without, WithNote, Observation

LEMMA JiraObservation ==
    ASSUME NEW answer, NEW x, Fact(Jira, x)
    PROVE  IsObservation(Jira, observe_jira(answer, x))
<1>1. CASE answer = "answered"
  BY <1>1 DEF observe_jira, Ready, Observation, IsObservation, Jira, Tempo, Whole, Target
<1>2. CASE answer # "answered"
  BY <1>2, WithoutType DEF observe_jira
<1> QED BY <1>1, <1>2

LEMMA GitObservation ==
    ASSUME NEW answer, NEW lost, NEW r \in Repos, NEW x, Fact(Git(r), x)
    PROVE  IsObservation(Git(r), observe_git(answer, lost, x))
<1>1. x \in [present : BOOLEAN, dirty : BOOLEAN, ahead : Nat]
  BY DEF Fact
<1>2. CASE ~x.present
  BY <1>2 DEF observe_git, Observation, IsObservation
<1>3. CASE x.present /\ answer = "failed"
  BY <1>3, WithoutType DEF observe_git
<1>4. CASE x.present /\ answer # "failed"
  <2> DEFINE f == [dirty |-> "dirty" \notin lost /\ x.dirty,
                   ahead |-> IF "ahead" \in lost THEN 0 ELSE x.ahead]
  <2>1. f \in [dirty : BOOLEAN, ahead : Nat] BY <1>1
  <2>2. observe_git(answer, lost, x) = Ready(f) BY <1>4 DEF observe_git
  <2> HIDE DEF f
  <2> QED BY <2>1, <2>2 DEF Ready, Observation, IsObservation, Git, Tempo, Whole, Target
<1> QED BY <1>2, <1>3, <1>4

LEMMA GithubObservation ==
    ASSUME NEW answer, NEW r \in Repos, NEW x, Fact(Github(r), x)
    PROVE  IsObservation(Github(r), observe_github(answer, Github(r), x))
<1>1. Fact(Github(r), Found(x))
  BY DEF Fact, Found, Jira, Tempo, Whole, Git, Github, Job, App, Target
<1>2. CASE observe_github(answer, Github(r), x) = Ready(Found(x))
  BY <1>1, <1>2 DEF Ready, Observation, IsObservation, Github, Tempo, Whole, Target
<1> QED BY <1>2, WithoutType DEF observe_github

LEMMA JenkinsObservation ==
    ASSUME NEW answer, NEW conf, NEW c \in Controllers, NEW j \in Jobs,
           NEW x, Fact(Job(c, j), x)
    PROVE  IsObservation(Job(c, j), observe_jenkins(answer, Job(c, j), conf, x))
<1>1. Fact(Job(c, j), recent_builds(x))
  BY DEF Fact, recent_builds, Jira, Tempo, Whole, Git, Github, Job, App, Target
<1>2. CASE observe_jenkins(answer, Job(c, j), conf, x) = Ready(recent_builds(x))
  BY <1>1, <1>2 DEF Ready, Observation, IsObservation, Job, Tempo, Whole, Target
<1> QED BY <1>2, WithoutType DEF observe_jenkins

LEMMA ArgocdObservation ==
    ASSUME NEW answer, NEW a \in Apps, NEW x, Fact(App(a), x)
    PROVE  IsObservation(App(a), observe_argocd(answer, x))
<1>2. CASE observe_argocd(answer, x) = Ready(x)
  BY <1>2 DEF Ready, Observation, IsObservation, App, Tempo, Whole, Target
<1> QED BY <1>2, WithoutType DEF observe_argocd

LEMMA TempoObservation ==
    ASSUME NEW answer, NEW d \in Days, NEW x, Fact(Tempo, x)
    PROVE  IsObservation(Tempo, observe_tempo(answer, d, x))
<1>1. x[d] \in Nat BY DEF Fact
<1>2. CASE observe_tempo(answer, d, x) = Ready(x[d])
  BY <1>1, <1>2 DEF Ready, Observation, IsObservation
<1> QED BY <1>2, WithoutType DEF observe_tempo

\* A target that is due belongs to the system its name says.
LEMMA TargetCases ==
    ASSUME NEW t \in Targets
    PROVE  \/ t.name = 0 /\ t.controller = 0 /\ t = Whole(t.system)
           \/ \E r \in Repos : t = Git(r)
           \/ \E r \in Repos : t = Github(r)
           \/ \E a \in Apps : t = App(a)
           \/ \E c \in Controllers, j \in Jobs : t = Job(c, j)
BY DEF Targets, Whole, Git, Github, App, Job, Target

-----------------------------------------------------------------------------
(* Types.                                                                  *)

\* A system of many targets is asked about each of them, never as a whole.
AskingProper == \A t \in asking : t.name = 0 => t.system \in {"jira", "tempo"}

TypeInv == TypeOK /\ AskingProper

\* Taking an observation of the target that is due keeps the types.
LEMMA TakeType ==
    ASSUME TypeInv, NEW t, Due(t), NEW o, IsObservation(t, o),
           NEW blur, blur \subseteq {t}, Take(t, o, blur), NEW failed \in BOOLEAN, Fault(failed),
           UNCHANGED since
    PROVE  TypeInv'
<1>1. t \in Targets BY DEF TypeInv, TypeOK, Due
<1>2. /\ DOMAIN obs' = Targets /\ DOMAIN truth' = Targets
      /\ \A u \in Targets : IsObservation(u, obs'[u]) /\ Fact(u, truth'[u])
  BY <1>1 DEF TypeInv, TypeOK, Take
<1>3. faults' \in 0..MaxFaults
  <2>1. faults \in 0..MaxFaults BY DEF TypeInv, TypeOK
  <2> QED BY <2>1, Numbers DEF Fault
<1> QED BY <1>1, <1>2, <1>3 DEF TypeInv, TypeOK, AskingProper, Take, outside

LEMMA TypeInit == Init => TypeInv
<1> SUFFICES ASSUME Init PROVE TypeInv OBVIOUS
<1>1. record \in TicketType /\ ticket \in TicketType
  BY Inputs, DefaultTicketType DEF Init
<1>2. DOMAIN world = Targets /\ \A t \in Targets : Fact(t, world[t])
  BY Inputs DEF Init
<1>3. \A t \in Targets : IsObservation(t, Unasked)
  BY DEF IsObservation, Unasked, Observation
<1>4. report.overall = "" /\ report.exit = -1
  BY DEF Init, NoReport
<1>5. changes \in 0..MaxChanges /\ faults \in 0..MaxFaults
  BY Numbers DEF Init
<1> QED BY <1>1, <1>2, <1>3, <1>4, <1>5 DEF Init, TypeInv, TypeOK, AskingProper

LEMMA TypeNext == TypeInv /\ [Next]_vars => TypeInv'
<1> SUFFICES ASSUME TypeInv, [Next]_vars PROVE TypeInv' OBVIOUS
<1> USE DEF TypeInv
<1>1. ASSUME NEW S \in Selections, Refuse(S) PROVE TypeInv'
  BY <1>1 DEF Refuse, GiveUp, TypeOK, AskingProper, NoReport, outside, seen
<1>2. ASSUME NEW S \in Selections, Begin(S) PROVE TypeInv'
  <2>1. ticket' \in TicketType
    BY <1>2, DefaultTicketType DEF Begin, TypeOK
  <2> QED BY <1>2, <2>1 DEF Begin, TypeOK, AskingProper, outside
<1>3. ASSUME NEW s \in Systems, NEW usable \in BOOLEAN,
             NEW conf \in ControllerSets \cup {configured}, Open(s, usable, conf)
      PROVE  TypeInv'
  <2>1. conf \in SUBSET Controllers
    BY Inputs DEF TypeOK
  <2> DEFINE targets == TargetsOf(s, ticket, conf)
             opening == Opening(s, targets, usable)
  <2>2. \A t \in targets : t \in Targets /\ (t.name = 0 => t.system \in {"jira", "tempo"})
    <3>1. ticket \in TicketType BY DEF TypeOK
    <3> QED BY <2>1, <3>1, TargetsOfType
  <2>3. opening \in {"ask", "UNKNOWN", "ERROR"}
    BY DEF Opening
  <2>4. Whole(s) \in Targets /\ (opening # "ask" => IsObservation(Whole(s), Without(opening)))
    BY <2>3, WithoutType DEF Targets
  <2> HIDE DEF targets, opening
  <2>5. /\ \/ opening = "ask" /\ asking' = targets /\ obs' = obs
           \/ /\ opening # "ask" /\ asking' = asking
              /\ obs' = [obs EXCEPT ![Whole(s)] = Without(opening)]
    BY <1>3 DEF Open, targets, opening
  <2>6. /\ DOMAIN obs' = Targets
        /\ \A t \in Targets : IsObservation(t, obs'[t])
        /\ asking' \subseteq Targets /\ AskingProper'
    BY <2>2, <2>4, <2>5 DEF TypeOK, AskingProper
  <2> QED BY <1>3, <2>1, <2>6 DEF Open, TypeOK, outside, seen
<1>4. ASSUME NEW t \in Targets, Hang(t) PROVE TypeInv'
  <2>1. faults' \in 0..MaxFaults
    <3>1. faults \in 0..MaxFaults BY DEF TypeOK
    <3> QED BY <1>4, <3>1, Numbers DEF Hang, Fault
  <2> QED BY <1>4, <2>1 DEF Hang, GiveUp, TypeOK, AskingProper, NoReport, outside, seen
<1>5. ASSUME NEW t \in Targets, NEW answer \in {"answered"} \cup HttpFailures,
             Observe(t, answer)
      PROVE  TypeInv'
  <2>1. PICK o : /\ Take(t, o, {})
                 /\ \/ t.system = "jira" /\ o = observe_jira(answer, world[t])
                    \/ t.system = "github" /\ o = observe_github(answer, t, world[t])
                    \/ t.system = "jenkins" /\ o = observe_jenkins(answer, t, configured, world[t])
                    \/ t.system = "argocd" /\ o = observe_argocd(answer, world[t])
    BY <1>5 DEF Observe
  <2>2. Due(t) /\ Fault(answer # "answered") /\ UNCHANGED since
    BY <1>5 DEF Observe, Take
  <2>3. Fact(t, world[t]) /\ (t.name = 0 => t.system \in {"jira", "tempo"})
    BY <2>2 DEF TypeOK, AskingProper, Due
  <2>4. IsObservation(t, o)
    <3>1. CASE t = Whole(t.system) /\ t.name = 0
      BY <2>1, <2>3, <3>1, JiraObservation DEF Jira
    <3>2. CASE \E r \in Repos : t = Git(r)
      BY <2>1, <3>2 DEF Git, Target
    <3>3. CASE \E r \in Repos : t = Github(r)
      BY <2>1, <2>3, <3>3, GithubObservation DEF Github, Target
    <3>4. CASE \E a \in Apps : t = App(a)
      BY <2>1, <2>3, <3>4, ArgocdObservation DEF App, Target
    <3>5. CASE \E c \in Controllers, j \in Jobs : t = Job(c, j)
      BY <2>1, <2>3, <3>5, JenkinsObservation DEF Job, Target
    <3> QED BY <3>1, <3>2, <3>3, <3>4, <3>5, TargetCases
  <2> QED BY <2>1, <2>2, <2>4, TakeType
<1>6. ASSUME NEW t \in Targets, NEW answer \in {"answered", "failed"},
             NEW lost \in SUBSET {"dirty", "ahead"}, ObserveGit(t, answer, lost)
      PROVE  TypeInv'
  <2>1. /\ Due(t) /\ t.system = "git" /\ Fault(answer # "answered" \/ lost # {})
        /\ Take(t, observe_git(answer, lost, world[t]), IF lost = {} THEN {} ELSE {t})
        /\ UNCHANGED since
    BY <1>6 DEF ObserveGit, Take
  <2>2. \E r \in Repos : t = Git(r)
    BY <2>1, TargetCases DEF Due, AskingProper, Github, App, Job, Target
  <2>3. IsObservation(t, observe_git(answer, lost, world[t]))
    <3>1. PICK r \in Repos : t = Git(r) BY <2>2
    <3>2. Fact(t, world[t]) BY DEF TypeOK
    <3> QED BY <3>1, <3>2, GitObservation
  <2> QED BY <2>1, <2>3, TakeType
<1>7. ASSUME NEW answer \in {"answered"} \cup HttpFailures, AskCreated(answer)
      PROVE  TypeInv'
  <2>1. faults' \in 0..MaxFaults
    <3>1. faults \in 0..MaxFaults BY DEF TypeOK
    <3> QED BY <1>7, <3>1, Numbers DEF AskCreated, Fault
  <2>2. Tempo \in Targets /\ ticket.created_at \in Days
    BY <1>7 DEF TypeOK, TicketType, AskCreated, Due
  <2> QED BY <1>7, <2>1, <2>2, Numbers
          DEF AskCreated, TypeOK, AskingProper, outside
<1>8. ASSUME NEW answer \in {"answered"} \cup HttpFailures, ObserveTempo(answer)
      PROVE  TypeInv'
  <2>1. /\ Due(Tempo) /\ Fault(answer # "answered") /\ UNCHANGED since
        /\ Take(Tempo, observe_tempo(answer, since, world[Tempo]), {})
    BY <1>8 DEF ObserveTempo, Take
  <2>2. IsObservation(Tempo, observe_tempo(answer, since, world[Tempo]))
    <3>1. since \in Days BY <1>8 DEF ObserveTempo, TypeOK
    <3>2. Fact(Tempo, world[Tempo]) BY <2>1 DEF Due, TypeOK
    <3> QED BY <3>1, <3>2, TempoObservation
  <2> DEFINE o == observe_tempo(answer, since, world[Tempo])
             failed == answer # "answered"
  <2>3. /\ failed \in BOOLEAN /\ Fault(failed)
        /\ Take(Tempo, o, {}) /\ IsObservation(Tempo, o)
    BY <2>1, <2>2
  <2> HIDE DEF o, failed
  <2> QED BY <2>1, <2>3, TakeType
<1>9. ASSUME Compare PROVE TypeInv'
  <2>1. /\ report'.overall \in {"ERROR", "BLOCKED", "DEGRADED", "UNKNOWN", "READY"}
        /\ report'.exit \in {0, 2, 3}
    BY <1>9 DEF Compare, overall_status, exit_code
  <2> QED BY <1>9, <2>1 DEF Compare, TypeOK, AskingProper, outside, seen
<1>10. ASSUME EditFile PROVE TypeInv'
  <2>1. record' \in TicketType BY <1>10, Inputs DEF EditFile
  <2>2. changes' \in 0..MaxChanges
    <3>1. changes \in 0..MaxChanges BY DEF TypeOK
    <3> QED BY <1>10, <3>1, Numbers DEF EditFile, Change
  <2> QED BY <1>10, <2>1, <2>2
     DEF EditFile, Change, TypeOK, AskingProper, command, seen
<1>11. ASSUME NEW t \in Targets, ChangeWorld(t) PROVE TypeInv'
  <2>1. DOMAIN world' = Targets /\ \A u \in Targets : Fact(u, world'[u])
    BY <1>11, Inputs DEF ChangeWorld, TypeOK
  <2>2. changes' \in 0..MaxChanges
    <3>1. changes \in 0..MaxChanges BY DEF TypeOK
    <3> QED BY <1>11, <3>1, Numbers DEF ChangeWorld, Change
  <2> QED BY <1>11, <2>1, <2>2
          DEF ChangeWorld, Change, TypeOK, AskingProper, command, seen
<1>12. CASE UNCHANGED vars
  BY <1>12 DEF vars, TypeOK, AskingProper
<1> QED BY <1>1, <1>2, <1>3, <1>4, <1>5, <1>6, <1>7, <1>8, <1>9, <1>10, <1>11, <1>12
        DEF Next, Step

\* Types hold throughout.
THEOREM TypeCorrect == Spec => []TypeOK
<1>1. TypeInv => TypeOK BY DEF TypeInv
<1> QED BY <1>1, TypeInit, TypeNext, PTL DEF Spec

-----------------------------------------------------------------------------
(* What an observation has to do with what was true.                       *)

Agrees(t, o, x, B) ==
    /\ o.status # "unasked"
    /\ o.kind = "absent" => \E r \in Repos : t = Git(r) /\ ~x.present
    /\ o.status = "READY" =>
          /\ t = Jira => o.facts = x
          /\ t = Tempo /\ Tempo \notin B => o.facts = x[Created]
          /\ \A r \in Repos :
                /\ t = Github(r) => o.facts = Found(x)
                /\ t = Git(r) =>
                     /\ x.present /\ o.facts.ahead \in {0, x.ahead}
                     /\ t \notin B => o.facts.dirty = x.dirty /\ o.facts.ahead = x.ahead
          /\ \A c \in Controllers, j \in Jobs : t = Job(c, j) => o.facts = recent_builds(x)
          /\ \A a \in Apps : t = App(a) => o.facts = x

LEMMA WithoutAgrees ==
    ASSUME NEW t, NEW x, NEW B, NEW status \in {"ERROR", "DEGRADED", "UNKNOWN"}
    PROVE  Agrees(t, Without(status), x, B) /\ Agrees(t, WithNote(status), x, B)
BY DEF Agrees, Without, WithNote, Observation

LEMMA JiraAgrees ==
    ASSUME NEW answer, NEW x, NEW B
    PROVE  Agrees(Jira, observe_jira(answer, x), x, B)
<1>1. CASE observe_jira(answer, x) = Ready(x)
  BY <1>1 DEF Agrees, Ready, Observation, Jira, Tempo, Whole, Git, Github, Job, App, Target
<1> QED BY <1>1, WithoutAgrees DEF observe_jira

LEMMA GitAgrees ==
    ASSUME NEW answer, NEW lost, NEW r \in Repos, NEW x, Fact(Git(r), x), NEW B,
           lost # {} => Git(r) \in B
    PROVE  Agrees(Git(r), observe_git(answer, lost, x), x, B)
<1>1. x \in [present : BOOLEAN, dirty : BOOLEAN, ahead : Nat]
  BY DEF Fact
<1>2. CASE ~x.present
  BY <1>2 DEF observe_git, Observation, Agrees
<1>3. CASE x.present /\ answer = "failed"
  BY <1>3, WithoutAgrees DEF observe_git
<1>4. CASE x.present /\ answer # "failed"
  <2> DEFINE f == [dirty |-> "dirty" \notin lost /\ x.dirty,
                   ahead |-> IF "ahead" \in lost THEN 0 ELSE x.ahead]
  <2>1. /\ lost = {} => f.dirty = x.dirty /\ f.ahead = x.ahead
        /\ f.ahead \in {0, x.ahead}
    BY <1>1
  <2>2. observe_git(answer, lost, x) = Ready(f) BY <1>4 DEF observe_git
  <2> HIDE DEF f
  <2> QED BY <2>1, <2>2, <1>4
          DEF Ready, Observation, Agrees, Jira, Tempo, Whole, Git, Github, Job, App, Target
<1> QED BY <1>2, <1>3, <1>4

LEMMA GithubAgrees ==
    ASSUME NEW answer, NEW r \in Repos, NEW x, NEW B
    PROVE  Agrees(Github(r), observe_github(answer, Github(r), x), x, B)
<1>1. CASE observe_github(answer, Github(r), x) = Ready(Found(x))
  BY <1>1 DEF Agrees, Ready, Observation, Jira, Tempo, Whole, Git, Github, Job, App, Target
<1> QED BY <1>1, WithoutAgrees DEF observe_github

LEMMA JenkinsAgrees ==
    ASSUME NEW answer, NEW conf, NEW c \in Controllers, NEW j \in Jobs, NEW x, NEW B
    PROVE  Agrees(Job(c, j), observe_jenkins(answer, Job(c, j), conf, x), x, B)
<1>1. CASE observe_jenkins(answer, Job(c, j), conf, x) = Ready(recent_builds(x))
  BY <1>1 DEF Agrees, Ready, Observation, Jira, Tempo, Whole, Git, Github, Job, App, Target
<1> QED BY <1>1, WithoutAgrees DEF observe_jenkins

LEMMA ArgocdAgrees ==
    ASSUME NEW answer, NEW a \in Apps, NEW x, NEW B
    PROVE  Agrees(App(a), observe_argocd(answer, x), x, B)
<1>1. CASE observe_argocd(answer, x) = Ready(x)
  BY <1>1 DEF Agrees, Ready, Observation, Jira, Tempo, Whole, Git, Github, Job, App, Target
<1> QED BY <1>1, WithoutAgrees DEF observe_argocd

LEMMA TempoAgrees ==
    ASSUME NEW answer, NEW d, NEW x, NEW B, d = Created \/ Tempo \in B
    PROVE  Agrees(Tempo, observe_tempo(answer, d, x), x, B)
<1>1. CASE observe_tempo(answer, d, x) = Ready(x[d])
  BY <1>1 DEF Agrees, Ready, Observation, Jira, Tempo, Whole, Git, Github, Job, App, Target
<1> QED BY <1>1, WithoutAgrees DEF observe_tempo

-----------------------------------------------------------------------------
(* The inductive invariant.                                                *)

Seen == \A t \in Targets :
            obs[t].status # "unasked" \/ obs[t].kind = "absent" =>
                Agrees(t, obs[t], truth[t], blurred)

Loaded == phase \in {"observing", "done"} => ticket = IF wrecked THEN DefaultTicket ELSE recorded

SinceRight == since # 0 => since = Created \/ Tempo \in blurred

\* Every target of a system turned to is asked about, unless the system was
\* given up as a whole.
Asked == \A s \in selected \ left : \A t \in TargetsOf(s, ticket, configured) :
             \/ t \in asking
             \/ obs[t].status # "unasked"
             \/ obs[Whole(s)].status \in {"UNKNOWN", "ERROR"}

Judged == phase = "done" =>
    /\ left = {} /\ asking = {}
    /\ report.contradictions = compare_state(ticket, obs)
    /\ report.overall = overall_status(Statuses(report.contradictions))
    /\ report.exit = exit_code(report.contradictions)

Idle == phase = "idle" => selected = {} /\ left = {}

Inv == TypeInv /\ Seen /\ Loaded /\ SinceRight /\ Asked /\ Judged /\ Idle

LEMMA InvInit == Init => Inv
<1> SUFFICES ASSUME Init PROVE Inv OBVIOUS
<1>1. \A t \in Targets : obs[t].status = "unasked" /\ obs[t].kind = "none"
  BY DEF Init, Unasked, Observation
<1> QED BY <1>1, TypeInit
        DEF Init, Inv, Seen, Loaded, SinceRight, Asked, Judged, Idle

LEMMA AgreesMonotone ==
    ASSUME NEW t, NEW o, NEW x, NEW B, NEW D, B \subseteq D, Agrees(t, o, x, B)
    PROVE  Agrees(t, o, x, D)
BY DEF Agrees

\* Only `jenkins' depends on the controllers configured.
LEMMA TargetsSame ==
    ASSUME NEW s, s # "jenkins", NEW tk, NEW conf, NEW other
    PROVE  TargetsOf(s, tk, conf) = TargetsOf(s, tk, other)
BY DEF TargetsOf

LEMMA TakeInv ==
    ASSUME Inv, TypeInv', NEW t, Due(t), NEW o, NEW blur, Take(t, o, blur),
           Agrees(t, o, world[t], blurred \cup blur),
           since' = since
    PROVE  Inv'
<1>1. t \in Targets /\ phase = "observing" /\ phase' = "observing"
  BY DEF Inv, TypeInv, TypeOK, Due, Take
<1>2. Seen'
  <2> SUFFICES ASSUME NEW u \in Targets, obs'[u].status # "unasked" \/ obs'[u].kind = "absent"
               PROVE  Agrees(u, obs'[u], truth'[u], blurred')
    BY DEF Seen
  <2>1. CASE u = t
    BY <2>1, <1>1 DEF Take, Inv, TypeInv, TypeOK
  <2>2. CASE u # t
    <3>1. obs'[u] = obs[u] /\ truth'[u] = truth[u] /\ blurred \subseteq blurred'
      BY <2>2, <1>1 DEF Take, Inv, TypeInv, TypeOK
    <3>2. Agrees(u, obs[u], truth[u], blurred)
      BY <3>1 DEF Inv, Seen
    <3> QED BY <3>1, <3>2, AgreesMonotone
  <2> QED BY <2>1, <2>2
<1>3. Asked'
  <2> SUFFICES ASSUME NEW s \in selected \ left, NEW u \in TargetsOf(s, ticket, configured)
               PROVE  \/ u \in asking' \/ obs'[u].status # "unasked"
                      \/ obs'[Whole(s)].status \in {"UNKNOWN", "ERROR"}
    BY DEF Asked, Take
  <2>0. s \in Systems /\ ticket \in TicketType /\ configured \in SUBSET Controllers
    BY DEF Inv, TypeInv, TypeOK
  <2>1. u \in Targets /\ u.system = s
    BY <2>0, TargetsOfType
  <2>2. CASE u = t
    BY <2>2, <1>1 DEF Take, Agrees, Inv, TypeInv, TypeOK
  <2>3. CASE u # t
    <3>1. obs'[u] = obs[u] /\ (u \in asking => u \in asking')
      BY <2>1, <2>3 DEF Take, Inv, TypeInv, TypeOK
    <3>2. CASE Whole(s) # t
      <4>1. obs'[Whole(s)] = obs[Whole(s)]
        <5>1. Whole(s) \in Targets BY <2>0 DEF Targets
        <5> QED BY <3>2, <5>1 DEF Take, Inv, TypeInv, TypeOK
      <4> QED BY <3>1, <4>1 DEF Inv, Asked
    <3>3. CASE Whole(s) = t
      <4>1. t.name = 0 /\ t.system = s BY <3>3 DEF Whole, Target
      <4>2. s \in {"jira", "tempo"}
        BY <4>1 DEF Inv, TypeInv, AskingProper, Due
      <4>3. u = Whole(s) BY <4>2 DEF TargetsOf
      <4> QED BY <4>3, <3>3, <2>3
    <3> QED BY <3>2, <3>3
  <2> QED BY <2>2, <2>3
<1>4. Loaded' /\ SinceRight'
  BY <1>1 DEF Inv, Loaded, SinceRight, Take
<1> QED BY <1>1, <1>2, <1>3, <1>4 DEF Inv, Judged, Idle

LEMMA InvNext == Inv /\ [Next]_vars => Inv'
<1> SUFFICES ASSUME Inv, [Next]_vars PROVE Inv' OBVIOUS
<1>0. TypeInv' BY TypeNext DEF Inv
<1>1. ASSUME NEW S \in Selections, Refuse(S) PROVE Inv'
  BY <1>1, <1>0 DEF Refuse, GiveUp, seen, Inv, Seen, Loaded, SinceRight, Asked, Judged, Idle
<1>2. ASSUME NEW S \in Selections, Begin(S) PROVE Inv'
  <2>1. UNCHANGED <<obs, truth, blurred, since>> /\ selected' = left' /\ phase' = "observing"
    BY <1>2 DEF Begin
  <2>2. Seen' /\ SinceRight' /\ Asked' /\ Judged' /\ Idle'
    BY <2>1 DEF Inv, Seen, SinceRight, Asked, Judged, Idle
  <2>3. Loaded'
    BY <1>2 DEF Begin, Loaded
  <2> QED BY <1>0, <2>2, <2>3 DEF Inv
<1>3. ASSUME NEW s \in Systems, NEW usable \in BOOLEAN,
             NEW conf \in ControllerSets \cup {configured}, Open(s, usable, conf)
      PROVE  Inv'
  <2> DEFINE targets == TargetsOf(s, ticket, conf)
             opening == Opening(s, targets, usable)
  <2>1. opening \in {"ask", "UNKNOWN", "ERROR"} BY DEF Opening
  <2>2. /\ phase = "observing" /\ asking = {} /\ s \in left
        /\ left' = left \ {s} /\ configured' = conf
        /\ s # "jenkins" => conf = configured
        /\ \/ opening = "ask" /\ asking' = targets /\ obs' = obs
           \/ /\ opening # "ask" /\ asking' = asking
              /\ obs' = [obs EXCEPT ![Whole(s)] = Without(opening)]
        /\ UNCHANGED <<phase, ticket, since, selected, wrecked, recorded, truth, blurred, report>>
    BY <1>3 DEF Open, seen
  <2>3. Whole(s) \in Targets BY DEF Targets
  <2> HIDE DEF targets, opening
  <2>6. \A x : Without(x).status = x BY DEF Without, Observation
  <2>7. \/ opening = "ask" /\ obs' = obs
        \/ opening \in {"UNKNOWN", "ERROR"} /\ obs'[Whole(s)] = Without(opening)
    BY <2>1, <2>2, <2>3 DEF Inv, TypeInv, TypeOK
  <2>4. Seen'
    <3> SUFFICES ASSUME NEW u \in Targets, obs'[u].status # "unasked" \/ obs'[u].kind = "absent"
                 PROVE  Agrees(u, obs'[u], truth[u], blurred)
      BY <2>2 DEF Seen
    <3>1. CASE obs'[u] = obs[u] BY <3>1 DEF Inv, Seen
    <3>2. CASE obs'[u] # obs[u]
      <4>1. obs'[u] = Without(opening) /\ opening \in {"UNKNOWN", "ERROR"}
        BY <3>2, <2>1, <2>2 DEF Inv, TypeInv, TypeOK
      <4> QED BY <4>1, WithoutAgrees
    <3> QED BY <3>1, <3>2
  <2>5. Asked'
    <3> SUFFICES ASSUME NEW u \in selected \ left', NEW t \in TargetsOf(u, ticket, conf)
                 PROVE  \/ t \in asking' \/ obs'[t].status # "unasked"
                        \/ obs'[Whole(u)].status \in {"UNKNOWN", "ERROR"}
      BY <2>2 DEF Asked
    <3>1. CASE u = s
      <4>1. opening # "ask" => obs'[Whole(s)].status \in {"UNKNOWN", "ERROR"}
        BY <2>6, <2>7
      <4> QED BY <3>1, <4>1, <2>2 DEF targets
    <3>2. CASE u # s
      <4>1. u \in selected \ left BY <3>2, <2>2
      <4>2. t \in TargetsOf(u, ticket, configured)
        <5>1. CASE conf = configured BY <5>1
        <5>2. CASE conf # configured
          BY <5>2, <3>2, <2>2, TargetsSame
        <5> QED BY <5>1, <5>2
      <4>3. u \in Systems /\ ticket \in TicketType /\ configured \in SUBSET Controllers
        BY <4>1 DEF Inv, TypeInv, TypeOK
      <4>4. t \in Targets BY <4>2, <4>3, TargetsOfType
      <4>5. \/ obs[t].status # "unasked" \/ obs[Whole(u)].status \in {"UNKNOWN", "ERROR"}
        BY <4>1, <4>2, <2>2 DEF Inv, Asked
      <4>6. Whole(u) # Whole(s) /\ Whole(u) \in Targets
        BY <3>2, <4>3 DEF Whole, Target, Targets
      <4>7. \A v \in Targets : v # Whole(s) => obs'[v] = obs[v]
        BY <2>2 DEF Inv, TypeInv, TypeOK
      <4>8. obs'[Whole(s)] = obs[Whole(s)] \/ obs'[Whole(s)].status # "unasked"
        BY <2>6, <2>7
      <4> QED BY <4>4, <4>5, <4>6, <4>7, <4>8
    <3> QED BY <3>1, <3>2
  <2> QED BY <1>0, <2>2, <2>4, <2>5 DEF Inv, Loaded, SinceRight, Judged, Idle
<1>4. ASSUME NEW t \in Targets, Hang(t) PROVE Inv'
  BY <1>4, <1>0 DEF Hang, GiveUp, Due, seen, Inv, Seen, Loaded, SinceRight, Asked, Judged, Idle
<1>5. ASSUME NEW t \in Targets, NEW answer \in {"answered"} \cup HttpFailures,
             Observe(t, answer)
      PROVE  Inv'
  <2>1. PICK o : /\ Take(t, o, {})
                 /\ \/ t.system = "jira" /\ o = observe_jira(answer, world[t])
                    \/ t.system = "github" /\ o = observe_github(answer, t, world[t])
                    \/ t.system = "jenkins" /\ o = observe_jenkins(answer, t, configured, world[t])
                    \/ t.system = "argocd" /\ o = observe_argocd(answer, world[t])
    BY <1>5 DEF Observe
  <2>2. Due(t) /\ since' = since
    BY <1>5 DEF Observe, Take
  <2>3. t.name = 0 => t.system \in {"jira", "tempo"}
    BY <2>2 DEF Inv, TypeInv, AskingProper, Due
  <2>4. Agrees(t, o, world[t], blurred \cup {})
    <3>1. CASE t = Whole(t.system) /\ t.name = 0
      BY <2>1, <2>3, <3>1, JiraAgrees DEF Jira
    <3>2. CASE \E r \in Repos : t = Git(r)
      BY <2>1, <3>2 DEF Git, Target
    <3>3. CASE \E r \in Repos : t = Github(r)
      BY <2>1, <3>3, GithubAgrees DEF Github, Target
    <3>4. CASE \E a \in Apps : t = App(a)
      BY <2>1, <3>4, ArgocdAgrees DEF App, Target
    <3>5. CASE \E c \in Controllers, j \in Jobs : t = Job(c, j)
      BY <2>1, <3>5, JenkinsAgrees DEF Job, Target
    <3> QED BY <3>1, <3>2, <3>3, <3>4, <3>5, TargetCases
  <2> QED BY <1>0, <2>1, <2>2, <2>4, TakeInv
<1>6. ASSUME NEW t \in Targets, NEW answer \in {"answered", "failed"},
             NEW lost \in SUBSET {"dirty", "ahead"}, ObserveGit(t, answer, lost)
      PROVE  Inv'
  <2> DEFINE blur == IF lost = {} THEN {} ELSE {t}
             o == observe_git(answer, lost, world[t])
  <2>1. Due(t) /\ t.system = "git" /\ Take(t, o, blur) /\ since' = since
    BY <1>6 DEF ObserveGit, Take
  <2>2. PICK r \in Repos : t = Git(r)
    BY <2>1, TargetCases DEF Due, Inv, TypeInv, AskingProper, Github, App, Job, Target
  <2>3. Fact(t, world[t]) BY DEF Inv, TypeInv, TypeOK
  <2>4. Agrees(t, o, world[t], blurred \cup blur)
    BY <2>2, <2>3, GitAgrees
  <2> HIDE DEF blur, o
  <2> QED BY <1>0, <2>1, <2>4, TakeInv
<1>7. ASSUME NEW answer \in {"answered"} \cup HttpFailures, AskCreated(answer)
      PROVE  Inv'
  <2>1. /\ phase = "observing" /\ blurred \subseteq blurred'
        /\ since' = Created \/ Tempo \in blurred'
        /\ UNCHANGED <<phase, ticket, left, asking, configured, obs, selected, recorded,
                       wrecked, truth, report>>
    BY <1>7 DEF AskCreated, Due
  <2>2. Seen' BY <2>1, AgreesMonotone DEF Inv, Seen
  <2>3. Asked' BY <2>1 DEF Inv, Asked
  <2> QED BY <1>0, <2>1, <2>2, <2>3 DEF Inv, Loaded, SinceRight, Judged, Idle
<1>8. ASSUME NEW answer \in {"answered"} \cup HttpFailures, ObserveTempo(answer)
      PROVE  Inv'
  <2> DEFINE o == observe_tempo(answer, since, world[Tempo])
  <2>1. Due(Tempo) /\ Take(Tempo, o, {}) /\ since' = since /\ since # 0
    BY <1>8 DEF ObserveTempo, Take
  <2>2. Agrees(Tempo, o, world[Tempo], blurred \cup {})
    BY <2>1, TempoAgrees DEF Inv, SinceRight
  <2> HIDE DEF o
  <2> QED BY <1>0, <2>1, <2>2, TakeInv
<1>9. ASSUME Compare PROVE Inv'
  <2>1. /\ phase' = "done" /\ left' = {} /\ asking' = {}
        /\ report'.contradictions = compare_state(ticket', obs')
        /\ report'.overall = overall_status(Statuses(report.contradictions)')
        /\ report'.exit = exit_code(report.contradictions)'
    BY <1>9 DEF Compare, Statuses, exit_code
  <2>2. Judged' BY <2>1 DEF Judged
  <2>3. Seen' /\ Asked' BY <1>9 DEF Compare, Inv, Seen, Asked, seen
  <2> QED BY <1>9, <1>0, <2>2, <2>3 DEF Compare, Inv, Loaded, SinceRight, Idle, seen
<1>10. ASSUME EditFile \/ \E t \in Targets : ChangeWorld(t) PROVE Inv'
  <2>1. phase = "observing" /\ UNCHANGED <<phase, command, seen>>
    BY <1>10 DEF EditFile, ChangeWorld, Change
  <2> QED BY <2>1, <1>0
      DEF command, seen, Inv, Seen, Loaded, SinceRight, Asked, Judged, Idle
<1>12. CASE UNCHANGED vars
  <2>1. /\ UNCHANGED <<phase, ticket, left, asking, since, configured, obs, selected,
                       recorded, wrecked, truth, blurred, report>>
    BY <1>12 DEF vars
  <2>2. Judged' BY <2>1 DEF Inv, Judged, Statuses, exit_code
  <2> QED BY <2>1, <2>2, <1>0 DEF Inv, Seen, Loaded, SinceRight, Asked, Idle
<1> QED BY <1>1, <1>2, <1>3, <1>4, <1>5, <1>6, <1>7, <1>8, <1>9, <1>10, <1>12
        DEF Next, Step

LEMMA InvAlways == Spec => []Inv
BY InvInit, InvNext, PTL DEF Spec

-----------------------------------------------------------------------------
(* Alarms.                                                                 *)

LEMMA ContradictionCases ==
    ASSUME NEW tk, NEW o, NEW c
    PROVE  c \in compare_state(tk, o) <=>
      \/ c \in Contradiction("jira_summary_mismatch", jira_summary_mismatch(tk, o))
      \/ c \in Contradiction("jira_complete_impl_incomplete", jira_complete_impl_incomplete(tk, o))
      \/ c \in Contradiction("closeout_complete_jira_active", closeout_complete_jira_active(tk, o))
      \/ c \in Contradiction("repo_missing", repo_missing(o))
      \/ c \in Contradiction("uncommitted_mismatch", uncommitted_mismatch(tk, o))
      \/ c \in Contradiction("unpushed_commits", unpushed_commits(o))
      \/ c \in Contradiction("pr_missing_external", pr_missing_external(tk, o))
      \/ c \in Contradiction("pr_state_mismatch", pr_state_mismatch(tk, o))
      \/ c \in Contradiction("pr_discovered_not_recorded", pr_discovered_not_recorded(tk, o))
      \/ c \in Contradiction("build_missing", build_missing(tk, o))
      \/ c \in Contradiction("build_result_mismatch", build_result_mismatch(tk, o))
      \/ c \in Contradiction("merged_pr_no_build", merged_pr_no_build(tk))
      \/ c \in Contradiction("sync_state_mismatch", sync_state_mismatch(tk, o))
      \/ c \in Contradiction("revision_mismatch", revision_mismatch(tk, o))
      \/ c \in Contradiction("deployment_complete_not_synced", deployment_complete_not_synced(tk, o))
      \/ c \in Contradiction("tempo_logged_zero", tempo_logged_zero(tk, o))
      \/ c \in Contradiction("tempo_seconds_mismatch", tempo_seconds_mismatch(tk, o))
      \/ c \in Contradiction("tempo_unlogged_has_time", tempo_unlogged_has_time(tk, o))
BY Zenon DEF compare_state

LEMMA InContradiction ==
    ASSUME NEW code, NEW S, NEW c
    PROVE  c \in Contradiction(code, S) =>
              c.code = code /\ c.about \in S
BY DEF Contradiction

\* Facts that were told are the facts that were true.
LEMMA ToldIsTrue ==
    ASSUME Inv
    PROVE  /\ Told(obs, Jira) => obs[Jira].facts = truth[Jira] /\ Fact(Jira, truth[Jira])
           /\ Told(obs, Tempo) => Tempo \in blurred \/ obs[Tempo].facts = truth[Tempo][Created]
           /\ \A r \in Repos : Listed(obs, r) \subseteq Found(truth[Github(r)])
           /\ \A r \in Repos : Answered(Github(r)) => Listed(obs, r) = Found(truth[Github(r)])
           /\ \A a \in Applications(obs) : obs[App(a)].facts = truth[App(a)]
           /\ \A c \in Controllers, j \in Jobs :
                 /\ Recent(obs, c, j) \subseteq recent_builds(truth[Job(c, j)])
                 /\ Answered(Job(c, j)) =>
                       Recent(obs, c, j) = recent_builds(truth[Job(c, j)])
<1>0. /\ Jira \in Targets /\ Tempo \in Targets
      /\ \A r \in Repos : Github(r) \in Targets /\ Git(r) \in Targets
      /\ \A a \in Apps : App(a) \in Targets
      /\ \A c \in Controllers, j \in Jobs : Job(c, j) \in Targets
  BY DEF Targets, Jira, Tempo, Systems
<1>1. \A t \in Targets :
         /\ obs[t].kind = "facts" \/ obs[t].status = "READY" =>
               obs[t].kind = "facts" /\ obs[t].status = "READY"
         /\ obs[t].status = "READY" \/ obs[t].kind = "absent" =>
               Agrees(t, obs[t], truth[t], blurred)
  BY DEF Inv, Seen, TypeInv, TypeOK, IsObservation
<1>2. Told(obs, Jira) => obs[Jira].facts = truth[Jira] /\ Fact(Jira, truth[Jira])
  BY <1>0, <1>1 DEF Told, Agrees, Inv, TypeInv, TypeOK
<1>3. Told(obs, Tempo) => Tempo \in blurred \/ obs[Tempo].facts = truth[Tempo][Created]
  BY <1>0, <1>1 DEF Told, Agrees
<1>4. ASSUME NEW r \in Repos
      PROVE  /\ Listed(obs, r) \subseteq Found(truth[Github(r)])
             /\ Answered(Github(r)) => Listed(obs, r) = Found(truth[Github(r)])
  <2>1. obs[Github(r)].kind # "absent"
    BY <1>0, <1>1 DEF Agrees, Github, Git, Target
  <2> QED BY <1>0, <1>1, <2>1 DEF Listed, Agrees, Answered
<1>5. \A a \in Applications(obs) : obs[App(a)].facts = truth[App(a)]
  BY <1>0, <1>1 DEF Applications, Agrees
<1>6. ASSUME NEW c \in Controllers, NEW j \in Jobs
      PROVE  /\ Recent(obs, c, j) \subseteq recent_builds(truth[Job(c, j)])
             /\ Answered(Job(c, j)) =>
                   Recent(obs, c, j) = recent_builds(truth[Job(c, j)])
  <2>1. obs[Job(c, j)].kind # "absent"
    BY <1>0, <1>1 DEF Agrees, Job, Git, Target
  <2> QED BY <1>0, <1>1, <2>1 DEF Recent, Agrees, Answered
<1> QED BY <1>2, <1>3, <1>4, <1>5, <1>6

\* In each of the lemmas below c is a contradiction of the report.
LEMMA JiraAlarms ==
    ASSUME Inv, ticket = recorded, NEW c, c.about \in {Jira},
           \/ /\ c.code = "jira_summary_mismatch"
              /\ c.about \in jira_summary_mismatch(ticket, obs)
           \/ /\ c.code = "jira_complete_impl_incomplete"
              /\ c.about \in jira_complete_impl_incomplete(ticket, obs)
           \/ /\ c.code = "closeout_complete_jira_active"
              /\ c.about \in closeout_complete_jira_active(ticket, obs)
    PROVE  Diverges(c)
<1>1. Told(obs, Jira) /\ c.about = Jira
  BY DEF jira_summary_mismatch, jira_complete_impl_incomplete, closeout_complete_jira_active
<1>2. obs[Jira].facts = truth[Jira] BY <1>1, ToldIsTrue
<1> QED BY <1>1, <1>2
        DEF jira_summary_mismatch, jira_complete_impl_incomplete,
            closeout_complete_jira_active, Diverges, JiraDiverges

LEMMA GitAlarms ==
    ASSUME Inv, ticket = recorded, NEW c,
           \/ c.code = "repo_missing" /\ c.about \in repo_missing(obs)
           \/ c.code = "uncommitted_mismatch" /\ c.about \in uncommitted_mismatch(ticket, obs)
           \/ c.code = "unpushed_commits" /\ c.about \in unpushed_commits(obs)
    PROVE  Diverges(c) \/ FalseAlarm(c)
<1>1. PICK r \in Repos : c.about = Git(r)
  BY DEF repo_missing, uncommitted_mismatch, unpushed_commits, Clones
<1>2. Git(r) \in Targets BY DEF Targets
<1>3. /\ Fact(Git(r), truth[Git(r)]) /\ IsObservation(Git(r), obs[Git(r)])
      /\ Answered(Git(r)) => Agrees(Git(r), obs[Git(r)], truth[Git(r)], blurred)
  BY <1>2 DEF Inv, TypeInv, TypeOK, Seen, Answered
<1>4. truth[Git(r)] \in [present : BOOLEAN, dirty : BOOLEAN, ahead : Nat]
  BY <1>3 DEF Fact
<1>5. obs[Git(r)].kind = "facts" <=> obs[Git(r)].status = "READY"
  BY <1>3 DEF IsObservation
<1>6. obs[Git(r)].kind = "facts" => obs[Git(r)].facts \in [dirty : BOOLEAN, ahead : Nat]
  BY <1>3, <1>5 DEF IsObservation, Git, Tempo, Whole, Target
<1>7. ticket.uncommitted \in BOOLEAN BY DEF Inv, TypeInv, TypeOK, TicketType
<1>8. obs[Git(r)].kind = "absent" => ~truth[Git(r)].present
  BY <1>3 DEF Answered, Agrees
<1>9. obs[Git(r)].kind = "facts" =>
         /\ truth[Git(r)].present
         /\ Git(r) \notin blurred => /\ obs[Git(r)].facts.dirty = truth[Git(r)].dirty
                                     /\ obs[Git(r)].facts.ahead = truth[Git(r)].ahead
         /\ obs[Git(r)].facts.ahead > 0 => obs[Git(r)].facts.ahead = truth[Git(r)].ahead
  BY <1>3, <1>5 DEF Answered, Agrees
<1>10. CASE c.code = "repo_missing"
  <2>1. ~truth[Git(r)].present BY <1>1, <1>8, <1>10 DEF repo_missing
  <2> QED BY <2>1, <1>1, <1>10 DEF Diverges, GitDiverges
<1>11. CASE c.code = "uncommitted_mismatch"
  <2>1. /\ obs[Git(r)].kind # "absent"
        /\ (obs[Git(r)].kind = "facts" /\ obs[Git(r)].facts.dirty) # ticket.uncommitted
    BY <1>1, <1>11 DEF uncommitted_mismatch
  <2>2. CASE obs[Git(r)].kind # "facts" \/ Git(r) \in blurred
    BY <2>1, <2>2, <1>1, <1>5, <1>11 DEF FalseAlarm, Answered
  <2>3. CASE obs[Git(r)].kind = "facts" /\ Git(r) \notin blurred
    <3>1. truth[Git(r)].present /\ truth[Git(r)].dirty # recorded.uncommitted
      BY <2>1, <2>3, <1>4, <1>6, <1>7, <1>9
    <3> QED BY <3>1, <1>1, <1>11 DEF Diverges, GitDiverges
  <2> QED BY <2>2, <2>3
<1>12. CASE c.code = "unpushed_commits"
  <2>1. obs[Git(r)].kind = "facts" /\ obs[Git(r)].facts.ahead > 0
    BY <1>1, <1>12 DEF unpushed_commits
  <2>2. truth[Git(r)].present /\ truth[Git(r)].ahead > 0
    BY <2>1, <1>9
  <2> QED BY <2>2, <1>1, <1>12 DEF Diverges, GitDiverges
<1> QED BY <1>10, <1>11, <1>12

LEMMA GithubAlarms ==
    ASSUME Inv, ticket = recorded, NEW c,
           \/ c.code = "pr_missing_external" /\ c.about \in pr_missing_external(ticket, obs)
           \/ c.code = "pr_state_mismatch" /\ c.about \in pr_state_mismatch(ticket, obs)
           \/ /\ c.code = "pr_discovered_not_recorded"
              /\ c.about \in pr_discovered_not_recorded(ticket, obs)
    PROVE  Diverges(c) \/ FalseAlarm(c)
<1>0. \A p \in recorded.pull_requests :
         p.repo \in Repos \cup {0} /\ p.url \in Repos \cup {0} /\ Homes(p) \subseteq Repos
  BY DEF Inv, TypeInv, TypeOK, TicketType, Homes
<1>1. CASE c.code = "pr_missing_external"
  <2>1. c.about \in recorded.pull_requests /\ c.about.number # 0 /\ Matches(obs, c.about) = {}
    BY <1>1 DEF pr_missing_external
  <2>2. CASE \E r \in Homes(c.about) : ~Answered(Github(r))
    BY <2>2, <1>1 DEF FalseAlarm
  <2>3. CASE \A r \in Homes(c.about) : Answered(Github(r))
    <3>1. ASSUME NEW r \in Homes(c.about), NEW e \in Namesakes(c.about, r), e.mentions
          PROVE  FALSE
      <4>1. r \in Repos BY <1>0, <2>1
      <4>2. e \in Listed(obs, r)
        BY <2>3, <3>1, <4>1, ToldIsTrue DEF Found, Namesakes
      <4>3. e.number = c.about.number BY DEF Namesakes
      <4>4. \/ c.about.url = r
            \/ c.about.url = 0 /\ (c.about.repo = 0 \/ r \in Within[c.about.repo])
        BY <4>1, <1>0, <2>1, WithinAssumption DEF Homes
      <4> QED BY <4>1, <4>2, <4>3, <4>4, <2>1 DEF Matches
    <3>2. CASE \E r \in Homes(c.about) : \E e \in Namesakes(c.about, r) : ~e.mentions
      BY <3>2, <1>1 DEF FalseAlarm
    <3>3. CASE \A r \in Homes(c.about) : Namesakes(c.about, r) = {}
      BY <3>3, <2>1, <1>1 DEF Diverges, GithubDiverges
    <3> QED BY <3>1, <3>2, <3>3
  <2> QED BY <2>2, <2>3
<1>2. CASE c.code = "pr_state_mismatch"
  <2>1. c.about \in recorded.pull_requests
    BY <1>2 DEF pr_state_mismatch
  <2>2. PICK r \in First(Matches(obs, c.about)) : \E e \in Listed(obs, r) :
            LET observed == IF e.draft /\ c.about.state # "draft" THEN "draft" ELSE e.state
            IN  e.number = c.about.number /\ c.about.state # "" /\ c.about.state # observed
    BY <1>2 DEF pr_state_mismatch
  <2>3. PICK e \in Listed(obs, r) :
            /\ e.number = c.about.number /\ c.about.state # ""
            /\ c.about.state # IF e.draft /\ c.about.state # "draft" THEN "draft" ELSE e.state
    BY <2>2
  <2>4. CASE c.about.state = "draft" \/ c.about.url = 0
    BY <2>4, <1>2 DEF FalseAlarm
  <2>5. CASE c.about.state # "draft" /\ c.about.url # 0
    <3>1. r \in Repos /\ c.about.url = r
      BY <2>5, <2>2 DEF First, Matches
    <3>2. e \in truth[Github(r)] BY <3>1, ToldIsTrue DEF Found
    <3>3. e \in Namesakes(c.about, r) /\ StateOf(e) # c.about.state
      BY <3>2, <2>3, <2>5 DEF Namesakes, StateOf
    <3>4. r \in Homes(c.about) BY <3>1, <2>5 DEF Homes
    <3> QED BY <3>3, <3>4, <2>1, <2>3, <1>2 DEF Diverges, GithubDiverges
  <2> QED BY <2>4, <2>5
<1>3. CASE c.code = "pr_discovered_not_recorded"
  <2>1. c.about \in pr_discovered_not_recorded(ticket, obs) BY <1>3
  <2>2. PICK r \in Repos : \E e \in Listed(obs, r) : c.about = [repo |-> r, number |-> e.number]
    BY <2>1 DEF pr_discovered_not_recorded
  <2>3. PICK e \in Listed(obs, r) : c.about = [repo |-> r, number |-> e.number]
    BY <2>2
  <2>4. \A p \in recorded.pull_requests : p.number = e.number => p.url \notin {0, r}
    BY <2>1, <2>3 DEF pr_discovered_not_recorded
  <2>5. \A p \in recorded.pull_requests : p.number = e.number => r \notin Homes(p)
    BY <2>4 DEF Homes
  <2>6. e \in Found(truth[Github(r)]) BY ToldIsTrue
  <2> QED BY <2>3, <2>5, <2>6, <1>3 DEF Diverges, GithubDiverges
<1> QED BY <1>1, <1>2, <1>3

LEMMA JenkinsAlarms ==
    ASSUME Inv, ticket = recorded, NEW c,
           \/ c.code = "build_missing" /\ c.about \in build_missing(ticket, obs)
           \/ c.code = "build_result_mismatch" /\ c.about \in build_result_mismatch(ticket, obs)
           \/ c.code = "merged_pr_no_build" /\ c.about \in merged_pr_no_build(ticket)
    PROVE  Diverges(c) \/ FalseAlarm(c)
<1>1. CASE c.code = "merged_pr_no_build"
  BY <1>1 DEF merged_pr_no_build, Diverges, JenkinsDiverges
<1>2. CASE c.code \in BuildCodes
  <2> DEFINE b == c.about
             h == HomeOf(b)
  <2>1. b \in recorded.builds /\ b.job \in Jobs
    BY <1>2 DEF BuildCodes, build_missing, build_result_mismatch, Inv, TypeInv, TypeOK,
                TicketType
  <2>2. PICK d \in Observed(obs, b.job) :
            \/ /\ c.code = "build_missing" /\ b.number # 0
               /\ \A e \in Recent(obs, d, b.job) : e.number # b.number
            \/ /\ c.code = "build_result_mismatch"
               /\ \E e \in Recent(obs, d, b.job) :
                     /\ e.number = b.number
                     /\ b.result # "" /\ e.result # "" /\ b.result # e.result
    BY <1>2 DEF BuildCodes, build_missing, build_result_mismatch
  <2>3. d \in Controllers /\ obs[Job(d, b.job)].status # "unasked"
    BY DEF Observed, First
  <2>4. CASE d # h
    BY <2>3, <2>4, <1>2 DEF FalseAlarm, Elsewhere
  <2>5. CASE d = h
    <3>0. h \in Controllers BY <2>3, <2>5
    <3>1. CASE c.code = "build_missing" /\ ~Answered(Job(h, b.job))
      BY <3>1 DEF FalseAlarm
    <3>2. CASE c.code = "build_missing" /\ Answered(Job(h, b.job))
      <4>1. Recent(obs, h, b.job) = recent_builds(truth[Job(h, b.job)])
        BY <3>0, <3>2, <2>1, ToldIsTrue
      <4>2. b.number # 0 /\ \A e \in recent_builds(truth[Job(h, b.job)]) : e.number # b.number
        BY <4>1, <2>2, <2>5, <3>2
      <4>3. CASE \E e \in truth[Job(h, b.job)] : e.number = b.number
        <5>1. OlderThanRecent(b) BY <4>2, <4>3 DEF OlderThanRecent
        <5> QED BY <5>1, <3>2 DEF FalseAlarm
      <4>4. CASE \A e \in truth[Job(h, b.job)] : e.number # b.number
        <5>1. {e \in truth[Job(h, b.job)] : e.number = b.number} = {} BY <4>4
        <5> QED BY <5>1, <4>2, <3>0, <3>2, <2>1 DEF Diverges, JenkinsDiverges
      <4> QED BY <4>3, <4>4
    <3>3. CASE c.code = "build_result_mismatch"
      <4>1. PICK e \in Recent(obs, h, b.job) :
                e.number = b.number /\ b.result # "" /\ e.result # "" /\ b.result # e.result
        BY <2>2, <2>5, <3>3
      <4>2. e \in truth[Job(h, b.job)]
        <5>1. e \in recent_builds(truth[Job(h, b.job)]) BY <3>0, <2>1, ToldIsTrue
        <5> QED BY <5>1 DEF recent_builds
      <4> QED BY <4>1, <4>2, <3>0, <3>3, <2>1 DEF Diverges, JenkinsDiverges
    <3> QED BY <3>1, <3>2, <3>3, <1>2 DEF BuildCodes
  <2> QED BY <2>4, <2>5
<1> QED BY <1>1, <1>2 DEF BuildCodes

LEMMA ArgocdAlarms ==
    ASSUME Inv, ticket = recorded, NEW c,
           \/ c.code = "sync_state_mismatch" /\ c.about \in sync_state_mismatch(ticket, obs)
           \/ c.code = "revision_mismatch" /\ c.about \in revision_mismatch(ticket, obs)
           \/ /\ c.code = "deployment_complete_not_synced"
              /\ c.about \in deployment_complete_not_synced(ticket, obs)
    PROVE  Diverges(c)
<1>1. PICK a \in Applications(obs) :
        /\ c.about = App(a)
        /\ \/ /\ c.code = "sync_state_mismatch"
              /\ \/ ticket.sync = "synced" /\ obs[App(a)].facts.sync = "OutOfSync"
                 \/ ticket.sync = "out_of_sync" /\ obs[App(a)].facts.sync = "Synced"
           \/ /\ c.code = "revision_mismatch"
              /\ ticket.expected_revision # 0 /\ obs[App(a)].facts.revision # 0
              /\ ticket.expected_revision # obs[App(a)].facts.revision
           \/ /\ c.code = "deployment_complete_not_synced"
              /\ ticket.deployment_complete
              /\ obs[App(a)].facts.sync \notin {"", "Synced"}
  BY DEF sync_state_mismatch, revision_mismatch, deployment_complete_not_synced, First
<1>2. obs[App(a)].facts = truth[App(a)] BY ToldIsTrue
<1>3. a \in Apps BY DEF Applications
<1> QED BY <1>1, <1>2, <1>3 DEF Diverges, ArgocdDiverges

LEMMA TempoAlarms ==
    ASSUME Inv, ticket = recorded, NEW c,
           \/ c.code = "tempo_logged_zero" /\ c.about \in tempo_logged_zero(ticket, obs)
           \/ c.code = "tempo_seconds_mismatch" /\ c.about \in tempo_seconds_mismatch(ticket, obs)
           \/ c.code = "tempo_unlogged_has_time" /\ c.about \in tempo_unlogged_has_time(ticket, obs)
    PROVE  Diverges(c) \/ FalseAlarm(c)
<1>1. Told(obs, Tempo) /\ c.about = Tempo
  BY DEF tempo_logged_zero, tempo_seconds_mismatch, tempo_unlogged_has_time
<1>2. CASE Tempo \in blurred
  BY <1>1, <1>2 DEF FalseAlarm
<1>3. CASE obs[Tempo].facts = truth[Tempo][Created]
  BY <1>1, <1>3 DEF tempo_logged_zero, tempo_seconds_mismatch, tempo_unlogged_has_time,
                    Diverges, TempoDiverges
<1> QED BY <1>1, <1>2, <1>3, ToldIsTrue

LEMMA AlarmsFromInv == Inv => AlarmsAreReal
<1> SUFFICES ASSUME Inv, phase = "done", NEW c \in compare_state(ticket, obs)
             PROVE  Diverges(c) \/ FalseAlarm(c)
  BY DEF AlarmsAreReal, Inv, Judged
<1>1. CASE wrecked BY <1>1 DEF FalseAlarm
<1>2. CASE ~wrecked
  <2>1. ticket = recorded BY <1>2 DEF Inv, Loaded
  <2>2. \/ /\ c.code = "jira_summary_mismatch"
           /\ c.about \in jira_summary_mismatch(ticket, obs)
        \/ /\ c.code = "jira_complete_impl_incomplete"
           /\ c.about \in jira_complete_impl_incomplete(ticket, obs)
        \/ /\ c.code = "closeout_complete_jira_active"
           /\ c.about \in closeout_complete_jira_active(ticket, obs)
        \/ c.code = "repo_missing" /\ c.about \in repo_missing(obs)
        \/ c.code = "uncommitted_mismatch" /\ c.about \in uncommitted_mismatch(ticket, obs)
        \/ c.code = "unpushed_commits" /\ c.about \in unpushed_commits(obs)
        \/ c.code = "pr_missing_external" /\ c.about \in pr_missing_external(ticket, obs)
        \/ c.code = "pr_state_mismatch" /\ c.about \in pr_state_mismatch(ticket, obs)
        \/ /\ c.code = "pr_discovered_not_recorded"
           /\ c.about \in pr_discovered_not_recorded(ticket, obs)
        \/ c.code = "build_missing" /\ c.about \in build_missing(ticket, obs)
        \/ c.code = "build_result_mismatch" /\ c.about \in build_result_mismatch(ticket, obs)
        \/ c.code = "merged_pr_no_build" /\ c.about \in merged_pr_no_build(ticket)
        \/ c.code = "sync_state_mismatch" /\ c.about \in sync_state_mismatch(ticket, obs)
        \/ c.code = "revision_mismatch" /\ c.about \in revision_mismatch(ticket, obs)
        \/ /\ c.code = "deployment_complete_not_synced"
           /\ c.about \in deployment_complete_not_synced(ticket, obs)
        \/ c.code = "tempo_logged_zero" /\ c.about \in tempo_logged_zero(ticket, obs)
        \/ c.code = "tempo_seconds_mismatch" /\ c.about \in tempo_seconds_mismatch(ticket, obs)
        \/ c.code = "tempo_unlogged_has_time" /\ c.about \in tempo_unlogged_has_time(ticket, obs)
    BY Zenon, ContradictionCases, InContradiction
  <2>3. CASE c.code \in {"jira_summary_mismatch", "jira_complete_impl_incomplete",
                         "closeout_complete_jira_active"}
    <3>1. c.about \in {Jira}
      BY <2>2, <2>3 DEF jira_summary_mismatch, jira_complete_impl_incomplete,
                        closeout_complete_jira_active
    <3> QED BY <2>1, <2>2, <2>3, <3>1, JiraAlarms
  <2>4. CASE c.code \in {"repo_missing", "uncommitted_mismatch", "unpushed_commits"}
    BY <2>1, <2>2, <2>4, GitAlarms
  <2>5. CASE c.code \in PullCodes
    BY <2>1, <2>2, <2>5, GithubAlarms DEF PullCodes
  <2>6. CASE c.code \in BuildCodes \cup {"merged_pr_no_build"}
    BY <2>1, <2>2, <2>6, JenkinsAlarms DEF BuildCodes
  <2>7. CASE c.code \in {"sync_state_mismatch", "revision_mismatch",
                         "deployment_complete_not_synced"}
    BY <2>1, <2>2, <2>7, ArgocdAlarms
  <2>8. CASE c.code \in {"tempo_logged_zero", "tempo_seconds_mismatch",
                         "tempo_unlogged_has_time"}
    BY <2>1, <2>2, <2>8, TempoAlarms
  <2> QED BY <2>2, <2>3, <2>4, <2>5, <2>6, <2>7, <2>8 DEF PullCodes, BuildCodes
<1> QED BY <1>1, <1>2

\* Every contradiction reported is one, but for the causes FalseAlarm names.
THEOREM AlarmsReal == Spec => []AlarmsAreReal
BY InvAlways, AlarmsFromInv, PTL

-----------------------------------------------------------------------------
(* Completeness.                                                           *)

LEMMA ReportedIf ==
    ASSUME Inv, phase = "done", NEW c, NEW S, c.about \in S,
           \A d : d \in Contradiction(c.code, S) => d \in compare_state(ticket, obs)
    PROVE  Reported(c)
<1>1. [code |-> c.code, about |-> c.about] \in Contradiction(c.code, S)
  BY DEF Contradiction
<1>2. [code |-> c.code, about |-> c.about] \in report.contradictions
  BY <1>1 DEF Inv, Judged
<1> QED BY <1>2 DEF Reported

\* What is needed and a target was answered.
LEMMA KnownTargets ==
    ASSUME NEW c, Known(c), ~Blind(c), NEW t \in Targets, Needs(c, t)
    PROVE  Answered(t) /\ t \notin blurred
BY DEF Known, Blind

LEMMA JiraComplete ==
    ASSUME Inv, phase = "done", ticket = recorded, NEW c, JiraDiverges(c), Known(c)
    PROVE  Reported(c)
<1>0. Jira \in Targets BY DEF Targets, Jira, Systems
<1>1. Needs(c, Jira)
  BY DEF JiraDiverges, Needs, PullCodes, BuildCodes
<1>2. Answered(Jira) BY <1>0, <1>1 DEF Known
<1>3. Told(obs, Jira)
  <2>1. obs[Jira].kind # "absent"
    BY <1>0 DEF Inv, Seen, Agrees, Jira, Git, Whole, Target
  <2>2. IsObservation(Jira, obs[Jira]) BY <1>0 DEF Inv, TypeInv, TypeOK
  <2> QED BY <1>2, <2>1, <2>2 DEF Answered, Told, IsObservation
<1>4. obs[Jira].facts = truth[Jira] /\ Fact(Jira, truth[Jira]) BY <1>3, ToldIsTrue
<1>5. truth[Jira].category \in {"new", "indeterminate", "done"} BY <1>4 DEF Fact
<1>6. c.about = Jira BY DEF JiraDiverges
<1>7. CASE c.code = "jira_summary_mismatch"
  <2>1. c.about \in jira_summary_mismatch(ticket, obs)
    BY <1>3, <1>4, <1>6, <1>7 DEF JiraDiverges, jira_summary_mismatch
  <2> QED BY <2>1, <1>7, ReportedIf, ContradictionCases
<1>8. CASE c.code = "jira_complete_impl_incomplete"
  <2>1. c.about \in jira_complete_impl_incomplete(ticket, obs)
    BY <1>3, <1>4, <1>6, <1>8 DEF JiraDiverges, jira_complete_impl_incomplete
  <2> QED BY <2>1, <1>8, ReportedIf, ContradictionCases
<1>9. CASE c.code = "closeout_complete_jira_active"
  <2>1. c.about \in closeout_complete_jira_active(ticket, obs)
    BY <1>3, <1>4, <1>5, <1>6, <1>9 DEF JiraDiverges, closeout_complete_jira_active
  <2> QED BY <2>1, <1>9, ReportedIf, ContradictionCases
<1> QED BY <1>7, <1>8, <1>9 DEF JiraDiverges

LEMMA GitComplete ==
    ASSUME Inv, phase = "done", ticket = recorded, NEW c, GitDiverges(c), Known(c), ~Blind(c)
    PROVE  Reported(c)
<1>1. PICK r \in Repos :
        LET clone == truth[Git(r)] IN
        /\ c.about = Git(r)
        /\ \/ c.code = "repo_missing" /\ ~clone.present
           \/ /\ c.code = "uncommitted_mismatch"
              /\ clone.present /\ clone.dirty # recorded.uncommitted
           \/ c.code = "unpushed_commits" /\ clone.present /\ clone.ahead > 0
  BY DEF GitDiverges
<1>2. Git(r) \in Targets BY DEF Targets
<1>3. Needs(c, Git(r)) BY <1>1 DEF Needs, PullCodes, BuildCodes
<1>4. Answered(Git(r)) /\ Git(r) \notin blurred BY <1>2, <1>3, KnownTargets
<1>5. /\ Agrees(Git(r), obs[Git(r)], truth[Git(r)], blurred)
      /\ IsObservation(Git(r), obs[Git(r)]) /\ Fact(Git(r), truth[Git(r)])
  BY <1>2, <1>4 DEF Inv, Seen, TypeInv, TypeOK, Answered
<1>6. truth[Git(r)] \in [present : BOOLEAN, dirty : BOOLEAN, ahead : Nat]
  BY <1>5 DEF Fact
<1>7. \/ obs[Git(r)].kind = "absent" /\ ~truth[Git(r)].present
      \/ /\ obs[Git(r)].kind = "facts" /\ truth[Git(r)].present
         /\ obs[Git(r)].facts.dirty = truth[Git(r)].dirty
         /\ obs[Git(r)].facts.ahead = truth[Git(r)].ahead
  BY <1>4, <1>5 DEF Answered, Agrees, IsObservation
<1>8. Git(r) \in Clones(obs) BY <1>7 DEF Clones
<1>9. CASE c.code = "repo_missing"
  <2>1. c.about \in repo_missing(obs)
    BY <1>1, <1>7, <1>8, <1>9 DEF repo_missing
  <2> QED BY <2>1, <1>9, ReportedIf, ContradictionCases
<1>10. CASE c.code = "uncommitted_mismatch"
  <2>1. /\ obs[Git(r)].kind = "facts" /\ obs[Git(r)].facts.dirty = truth[Git(r)].dirty
        /\ truth[Git(r)].dirty # ticket.uncommitted
    BY <1>1, <1>7, <1>10
  <2>2. ticket.uncommitted \in BOOLEAN BY DEF Inv, TypeInv, TypeOK, TicketType
  <2>3. (obs[Git(r)].kind = "facts" /\ obs[Git(r)].facts.dirty) # ticket.uncommitted
    BY <2>1, <2>2, <1>6
  <2>4. c.about \in uncommitted_mismatch(ticket, obs)
    BY <1>1, <1>8, <2>1, <2>3 DEF uncommitted_mismatch
  <2> QED BY <2>4, <1>10, ReportedIf, ContradictionCases
<1>11. CASE c.code = "unpushed_commits"
  <2>1. c.about \in unpushed_commits(obs)
    BY <1>1, <1>7, <1>8, <1>11 DEF unpushed_commits
  <2> QED BY <2>1, <1>11, ReportedIf, ContradictionCases
<1> QED BY <1>1, <1>9, <1>10, <1>11

LEMMA GithubComplete ==
    ASSUME Inv, phase = "done", ticket = recorded, NEW c, GithubDiverges(c), Known(c), ~Blind(c)
    PROVE  Reported(c)
<1>0. /\ \A p \in recorded.pull_requests :
           p.repo \in Repos \cup {0} /\ p.url \in Repos \cup {0}
      /\ \A r \in Repos : Github(r) \in Targets
  <2>1. \A r \in Repos : Github(r) \in Targets BY DEF Targets
  <2>2. \A p \in recorded.pull_requests : p.repo \in Repos \cup {0} /\ p.url \in Repos \cup {0}
    BY DEF Inv, TypeInv, TypeOK, TicketType
  <2> QED BY <2>1, <2>2
<1>1. ASSUME c.code \in {"pr_missing_external", "pr_state_mismatch"}
      PROVE  /\ c.about.url # 0 /\ Homes(c.about) = {c.about.url}
             /\ c.about \in recorded.pull_requests /\ c.about.url \in Repos
             /\ Listed(obs, c.about.url) = Found(truth[Github(c.about.url)])
  <2>1. c.about.url # 0 BY <1>1 DEF Blind
  <2>2. Homes(c.about) = {c.about.url} BY <2>1 DEF Homes
  <2>3. c.about \in recorded.pull_requests BY <1>1 DEF GithubDiverges
  <2>4. c.about.url \in Repos BY <1>0, <2>1, <2>3
  <2>5. Needs(c, Github(c.about.url)) BY <1>1, <2>2 DEF Needs
  <2>6. Answered(Github(c.about.url)) BY <1>0, <2>4, <2>5, KnownTargets
  <2> QED BY <2>1, <2>2, <2>3, <2>4, <2>6, ToldIsTrue
<1>2. CASE c.code = "pr_missing_external"
  <2>1. c.about.number # 0 /\ Namesakes(c.about, c.about.url) = {}
    BY <1>1, <1>2 DEF GithubDiverges
  <2>2. Matches(obs, c.about) = {}
    BY <1>1, <1>2, <2>1 DEF Matches, Namesakes, Found
  <2>3. c.about \in pr_missing_external(ticket, obs)
    BY <1>1, <1>2, <2>1, <2>2 DEF pr_missing_external
  <2> QED BY <2>3, <1>2, ReportedIf, ContradictionCases
<1>3. CASE c.code = "pr_state_mismatch"
  <2> DEFINE u == c.about.url
  <2>1. c.about.state # "" /\ \E e \in Namesakes(c.about, u) : StateOf(e) # c.about.state
    BY <1>1, <1>3 DEF GithubDiverges
  <2>2. PICK e \in Namesakes(c.about, u) : StateOf(e) # c.about.state BY <2>1
  <2>3. e.mentions /\ e \in truth[Github(u)] /\ e.number = c.about.number
    BY <1>1, <1>3, <2>2 DEF Blind, Namesakes
  <2>4. e \in Listed(obs, u) BY <1>1, <1>3, <2>3 DEF Found
  <2>5. Matches(obs, c.about) = {u}
    BY <1>1, <1>3, <2>3, <2>4 DEF Matches
  <2>6. u \in First(Matches(obs, c.about))
    <3>1. u \in Nat BY <1>1, <1>3, AdapterAssumption DEF Named
    <3> QED BY <2>5, <3>1 DEF First
  <2>7. c.about.state # IF e.draft /\ c.about.state # "draft" THEN "draft" ELSE e.state
    BY <2>2 DEF StateOf
  <2>8. c.about \in pr_state_mismatch(ticket, obs)
    BY <1>1, <1>3, <2>1, <2>3, <2>4, <2>6, <2>7 DEF pr_state_mismatch
  <2> QED BY <2>8, <1>3, ReportedIf, ContradictionCases
<1>4. CASE c.code = "pr_discovered_not_recorded"
  <2>1. PICK r \in Repos : \E e \in Found(truth[Github(r)]) :
             /\ c.about = [repo |-> r, number |-> e.number]
             /\ \A p \in recorded.pull_requests : p.number = e.number => r \notin Homes(p)
    BY <1>4 DEF GithubDiverges
  <2>2. PICK e \in Found(truth[Github(r)]) :
             /\ c.about = [repo |-> r, number |-> e.number]
             /\ \A p \in recorded.pull_requests : p.number = e.number => r \notin Homes(p)
    BY <2>1
  <2>3. Needs(c, Github(r)) BY <1>4, <2>2 DEF Needs
  <2>4. Answered(Github(r)) BY <1>0, <2>3, KnownTargets
  <2>5. e \in Listed(obs, r) BY <2>4, ToldIsTrue
  <2>6. \A p \in recorded.pull_requests : p.number = e.number => p.url \notin {0, r}
    BY <1>4, <2>2 DEF Blind, Homes
  <2>7. c.about \in pr_discovered_not_recorded(ticket, obs)
    BY <2>2, <2>5, <2>6 DEF pr_discovered_not_recorded
  <2> QED BY <2>7, <1>4, ReportedIf, ContradictionCases
<1> QED BY <1>2, <1>3, <1>4 DEF GithubDiverges

LEMMA JenkinsComplete ==
    ASSUME Inv, phase = "done", ticket = recorded, NEW c, JenkinsDiverges(c), Known(c), ~Blind(c)
    PROVE  Reported(c)
<1>1. CASE c.code = "merged_pr_no_build"
  <2>1. c.about \in merged_pr_no_build(ticket)
    BY <1>1 DEF JenkinsDiverges, merged_pr_no_build
  <2> QED BY <2>1, <1>1, ReportedIf, ContradictionCases
<1>2. CASE c.code \in BuildCodes
  <2> DEFINE b == c.about
             h == HomeOf(b)
  <2>1. b \in recorded.builds /\ h \in Controllers
    BY <1>2 DEF JenkinsDiverges, BuildCodes
  <2>2. b.job \in Jobs BY <2>1 DEF Inv, TypeInv, TypeOK, TicketType
  <2>3. Job(h, b.job) \in Targets /\ Needs(c, Job(h, b.job))
    BY <1>2, <2>1, <2>2 DEF Targets, Needs
  <2>4. Answered(Job(h, b.job)) BY <2>3, KnownTargets
  <2>5. Recent(obs, h, b.job) = recent_builds(truth[Job(h, b.job)])
    BY <2>1, <2>2, <2>4, ToldIsTrue
  <2>6. obs[Job(h, b.job)].status # "unasked"
    BY <2>3, <2>4 DEF Answered, Inv, Seen, Agrees
  <2>7. \A d \in Controllers : obs[Job(d, b.job)].status # "unasked" => d = h
    BY <1>2 DEF Blind, Elsewhere
  <2>8. h \in Observed(obs, b.job)
    <3>1. h \in Nat BY <2>1, AdapterAssumption DEF Named
    <3> QED BY <2>1, <2>6, <2>7, <3>1 DEF Observed, First
  <2>9. CASE c.code = "build_missing"
    <3>1. b.number # 0 /\ {e \in truth[Job(h, b.job)] : e.number = b.number} = {}
      BY <2>9 DEF JenkinsDiverges, BuildCodes
    <3>2. \A e \in Recent(obs, h, b.job) : e.number # b.number
      BY <3>1, <2>5 DEF recent_builds
    <3>3. b \in build_missing(ticket, obs)
      BY <2>1, <2>8, <3>1, <3>2 DEF build_missing
    <3> QED BY <3>3, <2>9, ReportedIf, ContradictionCases
  <2>10. CASE c.code = "build_result_mismatch"
    <3>1. b.result # "" /\ \E e \in truth[Job(h, b.job)] :
             e.number = b.number /\ e.result \notin {"", b.result}
      BY <2>10 DEF JenkinsDiverges, BuildCodes
    <3>2. PICK e \in truth[Job(h, b.job)] : e.number = b.number /\ e.result \notin {"", b.result}
      BY <3>1
    <3>3. e \in Recent(obs, h, b.job)
      BY <2>1, <2>5, <2>10, <3>2 DEF Blind, OlderThanRecent
    <3>4. b \in build_result_mismatch(ticket, obs)
      BY <2>1, <2>8, <3>1, <3>2, <3>3 DEF build_result_mismatch
    <3> QED BY <3>4, <2>10, ReportedIf, ContradictionCases
  <2> QED BY <2>9, <2>10, <1>2 DEF BuildCodes
<1> QED BY <1>1, <1>2 DEF JenkinsDiverges, BuildCodes

LEMMA ArgocdComplete ==
    ASSUME Inv, phase = "done", ticket = recorded, NEW c, ArgocdDiverges(c), Known(c)
    PROVE  Reported(c)
<1>1. PICK a \in Apps :
        LET live == truth[App(a)] IN
        /\ c.about = App(a)
        /\ \/ /\ c.code = "sync_state_mismatch"
              /\ <<recorded.sync, live.sync>>
                    \in {<<"synced", "OutOfSync">>, <<"out_of_sync", "Synced">>}
           \/ /\ c.code = "revision_mismatch"
              /\ recorded.expected_revision # 0
              /\ live.revision \notin {0, recorded.expected_revision}
           \/ /\ c.code = "deployment_complete_not_synced"
              /\ recorded.deployment_complete /\ live.sync \notin {"", "Synced"}
  BY DEF ArgocdDiverges
<1>2. App(a) \in Targets /\ Needs(c, App(a))
  <2>1. App(a) \in Targets BY DEF Targets
  <2>2. c.about = App(a)
    BY <1>1
  <2>3. c.code \in {"sync_state_mismatch", "revision_mismatch", "deployment_complete_not_synced"}
    BY <1>1
  <2> QED BY <2>1, <2>2, <2>3 DEF Needs, PullCodes, BuildCodes
<1>3. a \in Applications(obs)
  <2>1. Answered(App(a)) BY <1>2 DEF Known
  <2>2. obs[App(a)].kind # "absent"
    BY <1>2 DEF Inv, Seen, Agrees, App, Git, Target
  <2>3. IsObservation(App(a), obs[App(a)]) BY <1>2 DEF Inv, TypeInv, TypeOK
  <2> QED BY <2>1, <2>2, <2>3 DEF Answered, Applications, IsObservation
<1>4. obs[App(a)].facts = truth[App(a)] BY <1>3, ToldIsTrue
<1>5. CASE c.code = "sync_state_mismatch"
  <2>1. c.about \in sync_state_mismatch(ticket, obs)
    BY <1>1, <1>3, <1>4, <1>5 DEF sync_state_mismatch
  <2> QED BY <2>1, <1>5, ReportedIf, ContradictionCases
<1>6. CASE c.code = "revision_mismatch"
  <2>1. c.about \in revision_mismatch(ticket, obs)
    BY <1>1, <1>3, <1>4, <1>6 DEF revision_mismatch
  <2> QED BY <2>1, <1>6, ReportedIf, ContradictionCases
<1>7. CASE c.code = "deployment_complete_not_synced"
  <2> DEFINE S == {x \in Applications(obs) :
                      /\ ticket.deployment_complete
                      /\ obs[App(x)].facts.sync \notin {"", "Synced"}}
  <2>1. a \in S BY <1>1, <1>3, <1>4, <1>7
  <2>2. S \in SUBSET Apps BY DEF Applications
  <2>3. PICK x \in First(S) : TRUE BY <2>1, <2>2, FirstAssumption
  <2>4. App(x) \in deployment_complete_not_synced(ticket, obs)
    BY <2>3 DEF deployment_complete_not_synced
  <2>5. [code |-> c.code, about |-> App(x)]
           \in Contradiction(c.code, deployment_complete_not_synced(ticket, obs))
    BY <2>4 DEF Contradiction
  <2>6. [code |-> c.code, about |-> App(x)] \in report.contradictions
    BY <2>5, <1>7, ContradictionCases DEF Inv, Judged
  <2> QED BY <2>6, <1>7 DEF Reported
<1> QED BY <1>1, <1>5, <1>6, <1>7

LEMMA TempoComplete ==
    ASSUME Inv, phase = "done", ticket = recorded, NEW c, TempoDiverges(c), Known(c), ~Blind(c)
    PROVE  Reported(c)
<1>0. Tempo \in Targets BY DEF Targets, Tempo, Systems
<1>1. Needs(c, Tempo) BY DEF TempoDiverges, Needs, PullCodes, BuildCodes
<1>2. Answered(Tempo) /\ Tempo \notin blurred BY <1>0, <1>1, KnownTargets
<1>3. Told(obs, Tempo)
  <2>1. obs[Tempo].kind # "absent"
    BY <1>0 DEF Inv, Seen, Agrees, Tempo, Git, Whole, Target
  <2>2. IsObservation(Tempo, obs[Tempo]) BY <1>0 DEF Inv, TypeInv, TypeOK
  <2> QED BY <1>2, <2>1, <2>2 DEF Answered, Told, IsObservation
<1>4. obs[Tempo].facts = truth[Tempo][Created] BY <1>2, <1>3, ToldIsTrue
<1>6. c.about = Tempo BY DEF TempoDiverges
<1>7. CASE c.code = "tempo_logged_zero"
  <2>1. c.about \in tempo_logged_zero(ticket, obs)
    BY <1>3, <1>4, <1>6, <1>7 DEF TempoDiverges, tempo_logged_zero
  <2> QED BY <2>1, <1>7, ReportedIf, ContradictionCases
<1>8. CASE c.code = "tempo_seconds_mismatch"
  <2>1. c.about \in tempo_seconds_mismatch(ticket, obs)
    BY <1>3, <1>4, <1>6, <1>8 DEF TempoDiverges, tempo_seconds_mismatch
  <2> QED BY <2>1, <1>8, ReportedIf, ContradictionCases
<1>9. CASE c.code = "tempo_unlogged_has_time"
  <2>1. c.about \in tempo_unlogged_has_time(ticket, obs)
    BY <1>3, <1>4, <1>6, <1>9 DEF TempoDiverges, tempo_unlogged_has_time
  <2> QED BY <2>1, <1>9, ReportedIf, ContradictionCases
<1> QED BY <1>7, <1>8, <1>9 DEF TempoDiverges

LEMMA Complete ==
    ASSUME Inv, phase = "done", NEW c, Diverges(c), Known(c), ~Blind(c)
    PROVE  Reported(c)
<1>1. ticket = recorded BY DEF Blind, Inv, Loaded
<1> QED BY <1>1, JiraComplete, GitComplete, GithubComplete, JenkinsComplete,
           ArgocdComplete, TempoComplete DEF Diverges

LEMMA OverlookedFromInv == Inv => NothingOverlooked
BY Complete DEF NothingOverlooked

\* What disagrees and was answered is in the report, but for what Blind names.
THEOREM NothingIsOverlooked == Spec => []NothingOverlooked
BY InvAlways, OverlookedFromInv, PTL

-----------------------------------------------------------------------------
(* Verdicts.                                                               *)

LEMMA VerdictsFromInv == Inv => VerdictsMeanAgreement
<1> SUFFICES ASSUME Inv, phase = "done", NEW c \in Candidates, Diverges(c), ~Blind(c),
                    \/ /\ report.overall = "READY"
                       /\ \A t \in Targets : Needs(c, t) => t \in Owed
                    \/ report.exit = 0 /\ c.code \in Blocking /\ Known(c)
             PROVE  FALSE
  BY DEF VerdictsMeanAgreement
<1>1. ticket = recorded BY DEF Blind, Inv, Loaded
<1>2. ASSUME Reported(c)
      PROVE  Severity(c.code) \in Statuses(report.contradictions)
  BY <1>2 DEF Reported, Statuses
<1>3. CASE report.exit = 0 /\ c.code \in Blocking /\ Known(c)
  <2>1. Reported(c) BY <1>3, Complete
  <2>2. \E d \in report.contradictions : Severity(d.code) = "BLOCKED"
    BY <2>1, <1>3 DEF Reported, Severity
  <2> QED BY <2>2, <1>3 DEF Inv, Judged, exit_code
<1>4. CASE /\ report.overall = "READY"
           /\ \A t \in Targets : Needs(c, t) => t \in Owed
  <2>1. \A x \in Statuses(report.contradictions) :
           x \notin {"ERROR", "BLOCKED", "DEGRADED", "UNKNOWN"}
    BY <1>4 DEF Inv, Judged, overall_status
  <2>2. \A t \in Targets : obs[t].status \in {"unasked", "READY"}
    <3>1. \A t \in Targets : obs[t].status \in {"unasked", "ERROR", "DEGRADED", "UNKNOWN", "READY"}
      BY DEF Inv, TypeInv, TypeOK, IsObservation
    <3>2. \A t \in Targets : obs[t].status # "unasked" =>
             obs[t].status \in Statuses(report.contradictions)
      BY DEF Statuses
    <3> QED BY <2>1, <3>1, <3>2
  <2>3. \A t \in Targets : t \in Owed => obs[t].status = "READY"
    <3> SUFFICES ASSUME NEW t \in Targets, t \in Owed PROVE obs[t].status = "READY"
      OBVIOUS
    <3>1. PICK s \in selected : t \in TargetsOf(s, ticket, configured)
      BY <1>1 DEF Owed
    <3>2. Whole(s) \in Targets
      <4>1. s \in Systems BY DEF Inv, TypeInv, TypeOK
      <4> QED BY <4>1 DEF Targets
    <3>3. obs[Whole(s)].status \notin {"UNKNOWN", "ERROR"} BY <2>2, <3>2
    <3>4. s \notin left /\ t \notin asking BY DEF Inv, Judged
    <3>5. obs[t].status # "unasked" BY <3>1, <3>3, <3>4 DEF Inv, Asked
    <3> QED BY <3>5, <2>2
  <2>4. Known(c) BY <1>4, <2>3 DEF Known, Answered
  <2>5. Reported(c) BY <2>4, Complete
  <2> QED BY <2>5, <1>2, <2>1 DEF Severity
<1> QED BY <1>3, <1>4

\* READY, and exit code 0, mean what VerdictsMeanAgreement says.
THEOREM VerdictsReliable == Spec => []VerdictsMeanAgreement
BY InvAlways, VerdictsFromInv, PTL
-----------------------------------------------------------------------------
(* The order of the work.                                                  *)

LEMMA Least ==
    ASSUME NEW S \in SUBSET Nat, S # {}
    PROVE  \E n \in S : \A m \in S : n <= m
<1>1. IsWellFoundedOn(OpToRel(<, Nat), Nat)
  BY NatLessThanWellFounded
<1>2. PICK n \in S : \A m \in S : <<m, n>> \notin OpToRel(<, Nat)
  BY <1>1, WFMin
<1>3. \A m \in S : ~(m < n)
  BY <1>2 DEF OpToRel
<1> QED BY <1>3

\* Of targets to ask one comes first: controllers and names are numbers.
LEMMA SomeTargetDue ==
    ASSUME phase = "observing", asking \subseteq Targets, asking # {}
    PROVE  \E t \in asking : Due(t)
<1>1. \A t \in Targets : t.controller \in Nat /\ t.name \in Nat
  BY AdapterAssumption DEF Targets, Named, Whole, Git, Github, App, Job, Target
<1> DEFINE Cs == {t.controller : t \in asking}
<1>2. PICK c \in Cs : \A d \in Cs : c <= d
  <2>1. Cs \in SUBSET Nat /\ Cs # {} BY <1>1
  <2> QED BY <2>1, Least
<1> DEFINE Leading == {t \in asking : t.controller = c}
           Names == {t.name : t \in Leading}
<1>3. PICK n \in Names : \A m \in Names : n <= m
  <2>1. Names \in SUBSET Nat /\ Names # {} BY <1>1, <1>2
  <2> QED BY <2>1, Least
<1>4. PICK t \in Leading : t.name = n
  BY <1>3
<1>5. ASSUME NEW u \in asking
      PROVE  \/ t.controller < u.controller
             \/ t.controller = u.controller /\ t.name <= u.name
  <2>1. t.controller = c /\ c <= u.controller
    BY <1>2, <1>4
  <2>2. CASE u.controller = c
    BY <2>1, <2>2, <1>3, <1>4
  <2>3. CASE u.controller # c
    <3>1. c \in Nat /\ u.controller \in Nat BY <1>1, <1>2
    <3> QED BY <2>1, <2>3, <3>1
  <2> QED BY <2>2, <2>3
<1> QED BY <1>4, <1>5 DEF Due

LEMMA SomeSystemNext ==
    ASSUME NEW S \in SUBSET Systems, S # {}
    PROVE  \E s \in S : \A u \in S : Order[s] <= Order[u]
<1>1. \A s \in Systems : Order[s] \in Nat
  BY DEF Systems, Order
<1> DEFINE Ranks == {Order[s] : s \in S}
<1>2. Ranks \in SUBSET Nat /\ Ranks # {}
  BY <1>1
<1>3. PICK n \in Ranks : \A m \in Ranks : n <= m
  BY <1>2, Least
<1> QED BY <1>3

\* The command always has work it can do.
THEOREM WorkAlwaysDue == Spec => []WorkIsDue
<1>1. TypeOK => WorkIsDue
  <2> SUFFICES ASSUME TypeOK, phase = "observing" PROVE WorkIsDue
    BY DEF WorkIsDue
  <2>1. asking \subseteq Targets /\ left \in SUBSET Systems
    BY DEF TypeOK
  <2>2. CASE asking # {}
    BY <2>1, <2>2, SomeTargetDue DEF WorkIsDue
  <2>3. CASE asking = {}
    BY <2>1, <2>3, SomeSystemNext DEF WorkIsDue
  <2> QED BY <2>2, <2>3
<1> QED BY <1>1, TypeCorrect, PTL

\* What the steps do to the work, the answers left aside.
LEMMA StepForms ==
    ASSUME [Next]_vars
    PROVE  \/ UNCHANGED <<phase, command>>
           \/ \E S \in Selections : Refuse(S) \/ Begin(S)
           \/ \E s \in Systems, usable \in BOOLEAN,
                 conf \in ControllerSets \cup {configured} : Open(s, usable, conf)
           \/ \E t : phase = "observing" /\ phase' = "failed"
                     /\ UNCHANGED <<left, asking, obs>>
           \/ \E t, o, blur : Due(t) /\ Take(t, o, blur) /\ since' = since
           \/ \E answer \in {"answered"} \cup HttpFailures : AskCreated(answer)
           \/ Compare
<1>1. ASSUME NEW t \in Targets, Hang(t)
      PROVE  phase = "observing" /\ phase' = "failed" /\ UNCHANGED <<left, asking, obs>>
  BY <1>1 DEF Hang, Due, GiveUp
<1>2. ASSUME NEW t \in Targets, NEW answer \in {"answered"} \cup HttpFailures,
             Observe(t, answer)
      PROVE  \E o, blur : Due(t) /\ Take(t, o, blur) /\ since' = since
  <2>1. \E o, blur : Due(t) /\ Take(t, o, blur) BY <1>2, Zenon DEF Observe
  <2> QED BY <2>1, Zenon DEF Take
<1>3. ASSUME NEW t \in Targets, NEW answer \in {"answered", "failed"},
             NEW lost \in SUBSET {"dirty", "ahead"}, ObserveGit(t, answer, lost)
      PROVE  \E o, blur : Due(t) /\ Take(t, o, blur) /\ since' = since
  <2> DEFINE b == IF lost = {} THEN {} ELSE {t}
             g == observe_git(answer, lost, world[t])
  <2>1. Due(t) /\ Take(t, g, b) BY <1>3 DEF ObserveGit
  <2> QED BY <2>1, Zenon DEF Take
<1>4. ASSUME NEW answer \in {"answered"} \cup HttpFailures, ObserveTempo(answer)
      PROVE  \E o, blur : Due(Tempo) /\ Take(Tempo, o, blur) /\ since' = since
  <2>1. \E o, blur : Due(Tempo) /\ Take(Tempo, o, blur) BY <1>4, Zenon DEF ObserveTempo
  <2> QED BY <2>1, Zenon DEF Take
<1>5. ASSUME EditFile \/ \E t \in Targets : ChangeWorld(t) PROVE UNCHANGED <<phase, command>>
  BY <1>5 DEF EditFile, ChangeWorld, Change
<1>6. CASE UNCHANGED vars
  BY <1>6 DEF vars, command
<1> QED BY <1>1, <1>2, <1>3, <1>4, <1>5, <1>6, Zenon DEF Next, Step

\* What is still to be asked was not asked yet, and of no system that is
\* still to be turned to.
Unseen ==
    /\ \A t \in Targets :
          phase = "idle" \/ t \in asking \/ t.system \in left => obs[t].status = "unasked"
    /\ \A t \in asking : t.system \notin left
    /\ phase = "idle" => asking = {}

LEMMA UnseenNext == TypeInv /\ Unseen /\ [Next]_vars => Unseen'
<1> SUFFICES ASSUME TypeInv, Unseen, [Next]_vars PROVE Unseen' OBVIOUS
<1>1. ASSUME UNCHANGED <<phase, command>> PROVE Unseen'
  BY <1>1 DEF command, Unseen
<1>2. ASSUME NEW S \in Selections, Refuse(S) \/ Begin(S) PROVE Unseen'
  BY <1>2 DEF Refuse, Begin, GiveUp, Unseen
<1>3. ASSUME NEW s \in Systems, NEW usable \in BOOLEAN,
             NEW conf \in ControllerSets \cup {configured}, Open(s, usable, conf)
      PROVE  Unseen'
  <2> DEFINE targets == TargetsOf(s, ticket, conf)
             opening == Opening(s, targets, usable)
  <2>1. /\ phase = "observing" /\ phase' = phase /\ asking = {} /\ s \in left
        /\ left' = left \ {s}
        /\ \/ asking' = targets /\ obs' = obs
           \/ asking' = asking /\ obs' = [obs EXCEPT ![Whole(s)] = Without(opening)]
    BY <1>3 DEF Open
  <2>2. \A t \in targets : t \in Targets /\ t.system = s
    <3>1. conf \in SUBSET Controllers /\ ticket \in TicketType
      BY Inputs DEF TypeInv, TypeOK
    <3> QED BY <3>1, TargetsOfType
  <2>3. Whole(s).system = s
    BY DEF Whole, Target
  <2> HIDE DEF targets, opening
  <2>4. CASE asking' = targets /\ obs' = obs
    BY <2>1, <2>2, <2>4 DEF Unseen
  <2>5. CASE asking' = asking /\ obs' = [obs EXCEPT ![Whole(s)] = Without(opening)]
    <3>1. \A t \in Targets : t.system # s => obs'[t] = obs[t]
      BY <2>3, <2>5 DEF TypeInv, TypeOK
    <3> QED BY <2>1, <2>5, <3>1 DEF Unseen
  <2> QED BY <2>1, <2>4, <2>5
<1>4. ASSUME phase = "observing", phase' = "failed", UNCHANGED <<left, asking, obs>>
      PROVE  Unseen'
  BY <1>4 DEF Unseen
<1>5. ASSUME NEW t, NEW o, NEW blur, Due(t), Take(t, o, blur) PROVE Unseen'
  <2>1. \A u \in Targets : u # t => obs'[u] = obs[u]
    BY <1>5 DEF Take, TypeInv, TypeOK
  <2> QED BY <1>5, <2>1 DEF Due, Take, Unseen
<1>6. ASSUME NEW answer \in {"answered"} \cup HttpFailures, AskCreated(answer) PROVE Unseen'
  BY <1>6 DEF AskCreated, Due, Unseen
<1>7. ASSUME Compare PROVE Unseen'
  BY <1>7 DEF Compare, Unseen
<1> QED BY <1>1, <1>2, <1>3, <1>4, <1>5, <1>6, <1>7, StepForms

\* No step of the command is taken twice, and nothing is observed twice.
THEOREM CommandAdvances == Spec => ReconcileAdvances
<1> DEFINE Kept == \A t \in Targets : obs[t].status # "unasked" => obs'[t] = obs[t]
<1>1. TypeInv /\ Unseen /\ [Next]_vars => Kept /\ (UNCHANGED <<phase, command>> \/ Forward)
  <2> SUFFICES ASSUME TypeInv, Unseen, [Next]_vars
               PROVE  Kept /\ (UNCHANGED <<phase, command>> \/ Forward)
    OBVIOUS
  <2>1. ASSUME UNCHANGED <<phase, command>> PROVE Kept
    BY <2>1 DEF command
  <2>2. ASSUME NEW S \in Selections, Refuse(S) \/ Begin(S) PROVE Kept /\ Forward
    BY <2>2 DEF Refuse, Begin, GiveUp, Forward
  <2>3. ASSUME NEW s \in Systems, NEW usable \in BOOLEAN,
               NEW conf \in ControllerSets \cup {configured}, Open(s, usable, conf)
        PROVE  Kept /\ Forward
    <3>1. Forward
      BY <2>3 DEF Open, Forward
    <3>2. obs[Whole(s)].status = "unasked"
      BY <2>3 DEF Open, Unseen, Targets, Whole, Target
    <3>3. Kept
      BY <2>3, <3>2 DEF Open, TypeInv, TypeOK
    <3> QED BY <3>1, <3>3
  <2>4. ASSUME phase = "observing", phase' = "failed", UNCHANGED <<left, asking, obs>>
        PROVE  Kept /\ Forward
    BY <2>4 DEF Forward
  <2>5. ASSUME NEW t, NEW o, NEW blur, Due(t), Take(t, o, blur), since' = since
        PROVE  Kept /\ Forward
    <3>1. Forward
      BY <2>5 DEF Due, Take, Forward
    <3>2. t \in Targets /\ obs[t].status = "unasked"
      BY <2>5 DEF Due, Unseen, TypeInv, TypeOK
    <3>3. Kept
      BY <2>5, <3>2 DEF Take, TypeInv, TypeOK
    <3> QED BY <3>1, <3>3
  <2>6. ASSUME NEW answer \in {"answered"} \cup HttpFailures, AskCreated(answer)
        PROVE  Kept /\ Forward
    <3>1. Created # 0 /\ ticket.created_at # 0
      BY Numbers DEF TypeInv, TypeOK, TicketType, Named
    <3> QED BY <2>6, <3>1 DEF AskCreated, Due, Forward
  <2>7. ASSUME Compare PROVE Kept /\ Forward
    BY <2>7 DEF Compare, Forward
  <2> QED BY <2>1, <2>2, <2>3, <2>4, <2>5, <2>6, <2>7, StepForms
<1>2. Init => Unseen
  BY DEF Init, Unseen, Unasked, Observation
<1> QED BY <1>1, <1>2, TypeInit, TypeNext, UnseenNext, PTL DEF Spec, ReconcileAdvances
=============================================================================
