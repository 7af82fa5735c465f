----------------------------- MODULE JenkinsProofs -----------------------------
(***************************************************************************)
(* Proofs about JenkinsOperator: its type invariant, what its exit codes   *)
(* tell, that a listing of jobs is faithful, that a scan of plugins is     *)
(* complete, that the upgrades it recommends hold together, and that every *)
(* command gets on with its work.                                          *)
(***************************************************************************)
EXTENDS JenkinsOperator, JenkinsVersionsProofs, FiniteSetTheorems, TLAPS

-----------------------------------------------------------------------------
(* The assumptions, in the parts the proofs need.                          *)

LEMMA Bounds == MaxFaults \in Nat /\ MaxChanges \in Nat /\ MaxDepth \in Nat /\ Retries \in Nat
BY OperatorAssumption, JobsAssumption, ScanAssumption

LEMMA CallType ==
    \A c \in Calls \cup {NoCall} :
        /\ c.folder \in Items \cup {Root} /\ c.query \subseteq Items
        /\ c.limit \in Nat /\ c.wanted \subseteq Plugins
BY OperatorAssumption DEF NoCall

LEMMA TreeType ==
    \A t \in Trees : /\ t.jobs \subseteq Items /\ t.folders \subseteq Items
                     /\ \A i \in t.jobs \cup t.folders : Above[i] \subseteq t.folders \cup {Root}
BY JobsAssumption

LEMMA InstallType ==
    \A f \in Installs : DOMAIN f \subseteq Plugins /\ \A p \in DOMAIN f : f[p] \in Versions
BY ScanAssumption DEF IsPartialMap

LEMMA CentreType ==
    \A c \in Centres :
        /\ c.warnings \subseteq Warning
        /\ DOMAIN c.candidates \subseteq Plugins
        /\ \A p \in DOMAIN c.candidates : c.candidates[p] \in Candidate
BY ScanAssumption DEF IsPartialMap

LEMMA Nobody == <<>> \in Versions /\ 0 \notin Plugins /\ 0 \notin Urls
BY ScanAssumption

LEMMA NoFunction == /\ DOMAIN <<>> = {}
                    /\ IsPartialMap(<<>>, Plugins, Statuses)
BY DEF IsPartialMap

-----------------------------------------------------------------------------
(* Requests: their replies, and the verdicts on them.                      *)

LEMMA ReplyKinds ==
    \A reply \in Replies :
        /\ reply.status \in {"ok", "unreachable", "denied", "absent", "refused"}
        /\ reply.body \in {"dict", "other", "none"}
        /\ reply.trouble => Good(reply)
        /\ reply.status = "unreachable" => reply.body = "none"
BY DEF Replies, Reply, Unreachable, Good

Outcomes == {"none", "READY", "DEGRADED", "BLOCKED", "ERROR"}

LEMMA VerdictFields ==
    \A s, m : Verdict(s, m).status = s /\ Verdict(s, m).message = m
BY DEF Verdict

LEMMA ErrorStatus ==
    ASSUME NEW reply, NEW named \in BOOLEAN
    PROVE  /\ operator_http_error(reply, named).status \in {"ERROR", "BLOCKED", "DEGRADED"}
           /\ inline_error(reply, named).status \in {"ERROR", "BLOCKED", "DEGRADED"}
<1>1. /\ NotFound.status = "ERROR" /\ Failed.status = "ERROR" /\ Malformed.status = "ERROR"
      /\ Denied.status = "BLOCKED" /\ Verdict("DEGRADED", "HTTP").status = "DEGRADED"
  BY VerdictFields DEF NotFound, Failed, Malformed, Denied
<1>2. CASE named
  BY <1>1, <1>2 DEF operator_http_error, inline_error
<1>3. CASE ~named
  BY <1>1, <1>3 DEF operator_http_error, inline_error
<1> QED BY <1>2, <1>3

LEMMA VerdictStatus ==
    ASSUME NEW reply \in Replies, NEW op \in (Inline \cup Shared) \ {"jobs", "vulnerabilities"}
    PROVE  verdict(op, reply).status \in Outcomes
<1>1. Ready.status \in Outcomes /\ Warned.status \in Outcomes
      /\ Verdict("BLOCKED", "plugins missing").status \in Outcomes
  BY VerdictFields DEF Ready, Warned, Outcomes
<1>2. /\ operator_http_error(reply, TRUE).status \in Outcomes
      /\ operator_http_error(reply, FALSE).status \in Outcomes
      /\ inline_error(reply, TRUE).status \in Outcomes
      /\ inline_error(reply, FALSE).status \in Outcomes
  BY ErrorStatus DEF Outcomes
<1>3. (op = "view") \in BOOLEAN
  OBVIOUS
<1> QED
  BY <1>1, <1>2, <1>3
  DEF verdict, Inline, Shared, operator_health, operator_job, operator_seed,
      operator_plugins, operator_credentials, operator_nodes, operator_whoami,
      operator_credential_domains, operator_queue, operator_artifacts, operator_views

-----------------------------------------------------------------------------
(* Types.                                                                  *)

RequestTypes ==
    /\ creds \in {"none", "partial", "complete"}
    /\ phase \in {"idle", "asking", "walking", "updating", "scanning", "done"}
    /\ call \in Calls \cup {NoCall}
    /\ outcome.status \in Outcomes
    /\ faults \in 0..MaxFaults /\ changes \in 0..MaxChanges
    /\ phase = "asking" => call.op \in Inline \cup Shared

JobTypes ==
    /\ tree \in Trees
    /\ todo \subseteq [folder : Items \cup {Root}, depth : 0..MaxDepth]
    /\ collected \subseteq Items /\ items \subseteq Items
    /\ steady \subseteq tree.jobs /\ ever \subseteq Items
    /\ unread \subseteq Items \cup {Root}

ScanTypes ==
    /\ plugins \in Installs /\ installed \in Installs /\ centre \in Centres
    /\ core \in Versions /\ fallback \in BOOLEAN
    /\ left \subseteq Plugins /\ current \in Plugins \cup {0}
    /\ warnings \subseteq centre.warnings /\ cves \subseteq Cves
    /\ pages \in [Urls -> {"unasked", "ok", "none"}]
    /\ nvd \in [Cves -> {"unasked", "ok", "none"}]
    /\ tries \in 0..Retries /\ flawed \in BOOLEAN
    /\ IsPartialMap(statuses, Plugins, Statuses)
    /\ advised \subseteq centre.warnings
    /\ rated \subseteq [plugin : Plugins, cve : Cves]
    /\ current = 0 => warnings = {} /\ cves = {}

LEMMA TypeParts == RequestTypes /\ JobTypes /\ ScanTypes => TypeOK
BY DEF RequestTypes, JobTypes, ScanTypes, TypeOK, Outcomes

LEMMA InitTypes == Init => RequestTypes /\ JobTypes /\ ScanTypes
<1> SUFFICES ASSUME Init PROVE RequestTypes /\ JobTypes /\ ScanTypes
  OBVIOUS
<1>1. RequestTypes
  BY Bounds, VerdictFields DEF Init, RequestTypes, Outcomes
<1>2. JobTypes
  BY TreeType DEF Init, JobsInit, JobTypes
<1>3. ScanTypes
  <2>1. tries \in 0..Retries
    BY Bounds DEF Init, ScanInit
  <2>2. /\ pages \in [Urls -> {"unasked", "ok", "none"}]
        /\ nvd \in [Cves -> {"unasked", "ok", "none"}]
    BY DEF Init, ScanInit
  <2>3. IsPartialMap(statuses, Plugins, Statuses) /\ core \in Versions
    BY NoFunction, Nobody DEF Init, ScanInit
  <2> QED BY <2>1, <2>2, <2>3 DEF Init, ScanInit, ScanTypes
<1> QED BY <1>1, <1>2, <1>3

LEMMA FaultType == \A b \in BOOLEAN : RequestTypes /\ Fault(b) => faults' \in 0..MaxFaults
BY Bounds DEF RequestTypes, Fault

LEMMA ReceiveType ==
    ASSUME RequestTypes, NEW reply, NEW exists \in BOOLEAN, Receive(reply, exists)
    PROVE  faults' \in 0..MaxFaults /\ reply \in Replies
<1>1. (~Good(reply) /\ reply.status # "absent") \in BOOLEAN
  BY DEF Good
<1> QED BY <1>1, FaultType DEF Receive, RequestTypes

LEMMA EndType ==
    ASSUME RequestTypes, NEW v, End(v), v.status \in Outcomes, creds' = creds,
           faults' \in 0..MaxFaults, changes' = changes, call' \in Calls \cup {NoCall}
    PROVE  RequestTypes'
BY DEF RequestTypes, End

LEMMA ChangeType == RequestTypes /\ Change => changes' \in 0..MaxChanges
BY Bounds DEF RequestTypes, Change

LEMMA RequestTypesStep ==
    ASSUME RequestTypes, Request
    PROVE  RequestTypes'
<1>1. CASE \E c \in Calls : Begin(c)
  <2>1. PICK c \in Calls : Begin(c) BY <1>1
  <2>2. /\ Invalid.status \in Outcomes /\ NotFound.status \in Outcomes
        /\ Verdict("BLOCKED", "credentials").status \in Outcomes
    BY VerdictFields DEF Invalid, NotFound, Outcomes
  <2> QED BY <2>1, <2>2 DEF Begin, End, RequestTypes
<1>2. CASE \E c \in Calls : Controllers(c)
  <2>1. PICK c \in Calls : Controllers(c) BY <1>2
  <2>2. /\ Verdict("BLOCKED", "no controllers").status \in Outcomes
        /\ Verdict("READY", "fetched").status \in Outcomes
    BY VerdictFields DEF Outcomes
  <2> QED BY <2>1, <2>2 DEF Controllers, End, RequestTypes
<1>3. CASE \E c \in Calls, seen \in {"no files", "no script", "not found", "timed out",
                                     "not started", "failure", "success"} :
               SyntaxCheck(c, seen)
  <2>1. PICK c \in Calls, seen \in {"no files", "no script", "not found", "timed out",
                                    "not started", "failure", "success"} :
               SyntaxCheck(c, seen)
    BY <1>3
  <2>2. ScriptVerdict(seen).status \in Outcomes
    BY VerdictFields DEF ScriptVerdict, Outcomes
  <2> QED BY <2>1, <2>2, EndType DEF SyntaxCheck, RequestTypes
<1>4. CASE \E reply \in Replies, exists \in BOOLEAN : Query(reply, exists)
  <2>1. PICK reply \in Replies, exists \in BOOLEAN : Query(reply, exists) BY <1>4
  <2>2. call.op \in (Inline \cup Shared) \ {"jobs", "vulnerabilities"} =>
            verdict(call.op, reply).status \in Outcomes
    BY VerdictStatus
  <2> QED BY <2>1, <2>2, EndType, ReceiveType DEF Query, RequestTypes
<1>5. CASE RequestOut /\ Hang
  BY <1>5, EndType, VerdictFields, FaultType DEF Hang, RequestTypes, Outcomes
<1>6. CASE EditCredentials
  BY <1>6, ChangeType DEF EditCredentials, Change, RequestTypes
<1> QED BY <1>1, <1>2, <1>3, <1>4, <1>5, <1>6 DEF Request

LEMMA BelowType ==
    ASSUME JobTypes, NEW t \in todo
    PROVE  FoldersBelow(t) \subseteq [folder : Items \cup {Root}, depth : 0..MaxDepth]
<1>1. t.depth \in 0..MaxDepth
  BY DEF JobTypes
<1>2. Within(t.folder, tree.folders) \subseteq Items
  BY TreeType DEF Within, JobTypes
<1>3. ASSUME t.depth < MaxDepth PROVE t.depth + 1 \in 0..MaxDepth
  BY <1>1, <1>3, Bounds
<1> QED BY <1>2, <1>3 DEF FoldersBelow

LEMMA ReceiveOnly ==
    ASSUME RequestTypes, NEW reply, NEW exists \in BOOLEAN, Receive(reply, exists),
           UNCHANGED <<creds, phase, call, outcome, changes>>
    PROVE  RequestTypes'
BY ReceiveType DEF RequestTypes

LEMMA JobTypesStep ==
    ASSUME RequestTypes, JobTypes, JobStep
    PROVE  RequestTypes' /\ JobTypes'
<1>0. call.folder \in Items \cup {Root}
  BY CallType DEF RequestTypes
<1>a. \A f : Exists(f) \in BOOLEAN
  BY DEF Exists
<1>1. CASE \E reply \in Replies : CheckFolder(reply)
  <2>1. PICK reply \in Replies : CheckFolder(reply) BY <1>1
  <2>2. (call.folder # Root) \in BOOLEAN
    OBVIOUS
  <2>3. operator_http_error(reply, call.folder # Root).status \in Outcomes
    BY <2>2, ErrorStatus DEF Outcomes
  <2>4. faults' \in 0..MaxFaults
    BY <2>1, <1>a, ReceiveType DEF CheckFolder
  <2>5. RequestTypes'
    BY <2>1, <2>3, <2>4 DEF CheckFolder, End, RequestTypes
  <2>6. {[folder |-> call.folder, depth |-> 0]}
            \subseteq [folder : Items \cup {Root}, depth : 0..MaxDepth]
    BY <1>0, Bounds
  <2>7. JobTypes'
    BY <2>1, <2>6 DEF CheckFolder, JobTypes
  <2> QED BY <2>5, <2>7
<1>2. CASE \E reply \in Replies : \E t \in todo : Visit(t, reply)
  <2>1. PICK reply \in Replies, t \in todo : Visit(t, reply) BY <1>2
  <2>2. RequestTypes'
    BY <2>1, <1>a, ReceiveOnly DEF Visit
  <2>3. Within(t.folder, tree.jobs) \subseteq Items
    BY TreeType DEF Within, JobTypes
  <2>4. t.folder \in Items \cup {Root}
    BY DEF JobTypes
  <2>5. FoldersBelow(t) \subseteq [folder : Items \cup {Root}, depth : 0..MaxDepth]
    BY BelowType
  <2>6. JobTypes'
    BY <2>1, <2>3, <2>4, <2>5 DEF Visit, JobTypes
  <2> QED BY <2>2, <2>6
<1>3. CASE \E t \in todo : Stumble(t)
  <2>1. PICK t \in todo : Stumble(t) BY <1>3
  <2>2. Invalid.status \in Outcomes
    BY VerdictFields DEF Invalid, Outcomes
  <2>3. RequestTypes'
    BY <2>1, <2>2 DEF Stumble, End, RequestTypes
  <2> QED BY <2>1, <2>3 DEF Stumble, JobTypes
<1>4. CASE ListJobs
  <2>1. /\ Verdict("READY", "fetched").status \in Outcomes
        /\ Verdict("DEGRADED", "fetched").status \in Outcomes
    BY VerdictFields DEF Outcomes
  <2>2. RequestTypes'
    BY <1>4, <2>1 DEF ListJobs, End, RequestTypes
  <2>3. items' \subseteq Items
    BY <1>4 DEF ListJobs, Matching, JobTypes
  <2> QED BY <1>4, <2>2, <2>3 DEF ListJobs, JobTypes
<1>5. CASE ChangeTree
  <2>1. RequestTypes'
    BY <1>5, ChangeType DEF ChangeTree, Change, RequestTypes
  <2> QED BY <1>5, <2>1, TreeType DEF ChangeTree, JobTypes
<1> QED BY <1>1, <1>2, <1>3, <1>4, <1>5 DEF JobStep

LEMMA MapExtended ==
    ASSUME NEW f, NEW p \in Plugins, NEW v \in Statuses, IsPartialMap(f, Plugins, Statuses)
    PROVE  IsPartialMap([q \in DOMAIN f \cup {p} |-> IF q = p THEN v ELSE f[q]],
                        Plugins, Statuses)
<1>1. \A q \in DOMAIN f : f[q] \in Statuses
  BY DEF IsPartialMap
<1>2. [q \in DOMAIN f \cup {p} |-> IF q = p THEN v ELSE f[q]]
          \in [DOMAIN f \cup {p} -> Statuses]
  BY <1>1
<1> QED BY <1>2 DEF IsPartialMap

LEMMA CvesType ==
    ASSUME ScanTypes, NEW w \in centre.warnings
    PROVE  CvesOf(w) \subseteq Cves
<1>1. \A v \in centre.warnings : v.cves \subseteq Cves
  BY CentreType DEF ScanTypes, Warning
<1> QED BY <1>1 DEF CvesOf

LEMMA ScanTypesStep ==
    ASSUME RequestTypes, ScanTypes, ScanStep
    PROVE  RequestTypes' /\ ScanTypes'
<1>1. CASE \E reply \in Replies, header \in Versions : ReadPlugins(reply, header)
  <2>1. PICK reply \in Replies, header \in Versions : ReadPlugins(reply, header) BY <1>1
  <2>2. /\ operator_http_error(reply, FALSE).status \in Outcomes
        /\ Verdict("ERROR", "header missing").status \in Outcomes
    BY ErrorStatus, VerdictFields DEF Outcomes
  <2>3. faults' \in 0..MaxFaults
    BY <2>1, ReceiveType DEF ReadPlugins
  <2>4. RequestTypes'
    BY <2>1, <2>2, <2>3 DEF ReadPlugins, End, RequestTypes
  <2>5. DOMAIN plugins \subseteq Plugins
    BY InstallType DEF ScanTypes
  <2>6. ScanTypes'
    BY <2>1, <2>5 DEF ReadPlugins, ScanTypes
  <2> QED BY <2>4, <2>6
<1>2. CASE \E answer \in {"ok", "absent", "failed"} : ReadCentre(answer)
  <2>1. PICK answer \in {"ok", "absent", "failed"} : ReadCentre(answer) BY <1>2
  <2>2. Failed.status \in Outcomes
    BY VerdictFields DEF Failed, Outcomes
  <2>3. faults' \in 0..MaxFaults
    BY <2>1, FaultType DEF ReadCentre
  <2>4. RequestTypes'
    BY <2>1, <2>2, <2>3 DEF ReadCentre, End, RequestTypes
  <2>5. ScanTypes'
    BY <2>1 DEF ReadCentre, ScanTypes
  <2> QED BY <2>4, <2>5
<1>3. CASE \E p \in left : Inspect(p)
  <2>1. PICK p \in left : Inspect(p) BY <1>3
  <2>2. RequestTypes'
    BY <2>1 DEF Inspect, requestVars, RequestTypes
  <2>3. p \in Plugins /\ Applicable(p) \subseteq centre.warnings
    BY DEF ScanTypes, Applicable, WarningsOf
  <2>4. remediation_status(p) \in Statuses
    BY DEF remediation_status, Statuses
  <2>5. IsPartialMap(statuses, Plugins, Statuses)'
    BY <2>1, <2>3, <2>4, MapExtended DEF Inspect, ScanTypes
  <2>6. ScanTypes'
    BY <2>1, <2>3, <2>5, Nobody DEF Inspect, ScanTypes
  <2> QED BY <2>2, <2>6
<1>4. CASE \E w \in warnings, answer \in {"ok", "none"} : ReadAdvisory(w, answer)
  <2>1. PICK w \in warnings, answer \in {"ok", "none"} : ReadAdvisory(w, answer) BY <1>4
  <2>2. w \in centre.warnings /\ CvesOf(w) \subseteq Cves
    BY CvesType DEF ScanTypes
  <2>3. RequestTypes'
    BY <2>1, FaultType DEF ReadAdvisory, RequestTypes
  <2>4. pages' \in [Urls -> {"unasked", "ok", "none"}]
    BY <2>1 DEF ReadAdvisory, ScanTypes
  <2>5. flawed' \in BOOLEAN /\ current # 0
    BY <2>1 DEF ReadAdvisory, ScanTypes
  <2>6. ScanTypes'
    BY <2>1, <2>2, <2>4, <2>5 DEF ReadAdvisory, ScanTypes
  <2> QED BY <2>3, <2>6
<1>5. CASE \E c \in cves : RecallEntry(c)
  <2>1. PICK c \in cves : RecallEntry(c) BY <1>5
  <2>2. RequestTypes'
    BY <2>1 DEF RecallEntry, requestVars, RequestTypes
  <2>3. current \in Plugins /\ c \in Cves
    BY DEF ScanTypes
  <2>4. ScanTypes'
    BY <2>1, <2>3 DEF RecallEntry, ScanTypes
  <2> QED BY <2>2, <2>4
<1>6. CASE \E c \in cves : Misunderstand(c)
  <2>1. PICK c \in cves : Misunderstand(c) BY <1>6
  <2>2. Invalid.status \in Outcomes
    BY VerdictFields DEF Invalid, Outcomes
  <2>3. RequestTypes'
    BY <2>1, <2>2, FaultType DEF Misunderstand, End, RequestTypes
  <2>4. ScanTypes'
    BY <2>1 DEF Misunderstand, scanVars, ScanTypes
  <2> QED BY <2>3, <2>4
<1>7. CASE \E c \in cves, answer \in {"ok", "none", "busy"} : AskEntry(c, answer)
  <2>1. PICK c \in cves, answer \in {"ok", "none", "busy"} : AskEntry(c, answer) BY <1>7
  <2>2. RequestTypes'
    BY <2>1, FaultType DEF AskEntry, RequestTypes
  <2>3. tries' \in 0..Retries
    BY <2>1, Bounds DEF AskEntry, ScanTypes
  <2>4. nvd' \in [Cves -> {"unasked", "ok", "none"}] /\ flawed' \in BOOLEAN
    BY <2>1 DEF AskEntry, ScanTypes
  <2>5. ScanTypes'
    BY <2>1, <2>3, <2>4 DEF AskEntry, ScanTypes
  <2> QED BY <2>2, <2>5
<1>8. CASE Leave
  <2>1. RequestTypes'
    BY <1>8 DEF Leave, requestVars, RequestTypes
  <2>2. ScanTypes'
    BY <1>8 DEF Leave, NothingPending, ScanTypes
  <2> QED BY <2>1, <2>2
<1>9. CASE Conclude
  <2>1. /\ Verdict("READY", "scan completed").status \in Outcomes
        /\ Verdict("DEGRADED", "scan completed").status \in Outcomes
    BY VerdictFields DEF Outcomes
  <2>2. RequestTypes'
    BY <1>9, <2>1 DEF Conclude, End, RequestTypes
  <2>3. ScanTypes'
    BY <1>9 DEF Conclude, scanVars, ScanTypes
  <2> QED BY <2>2, <2>3
<1>10. CASE ChangePlugins
  <2>1. RequestTypes'
    BY <1>10, ChangeType DEF ChangePlugins, Change, RequestTypes
  <2>2. ScanTypes'
    BY <1>10 DEF ChangePlugins, scanState, ScanTypes
  <2> QED BY <2>1, <2>2
<1> QED
  BY <1>1, <1>2, <1>3, <1>4, <1>5, <1>6, <1>7, <1>8, <1>9, <1>10 DEF ScanStep

Types == RequestTypes /\ JobTypes /\ ScanTypes

LEMMA TypesStep == Types /\ [Next]_vars => Types'
<1> SUFFICES ASSUME Types, [Next]_vars PROVE Types'
  OBVIOUS
<1>1. CASE Request /\ UNCHANGED <<jobVars, scanVars>>
  <2>1. RequestTypes'
    BY <1>1, RequestTypesStep DEF Types
  <2>2. JobTypes'
    BY <1>1 DEF Types, JobTypes, jobVars
  <2>3. ScanTypes'
    BY <1>1 DEF Types, ScanTypes, scanVars
  <2> QED BY <2>1, <2>2, <2>3 DEF Types
<1>2. CASE JobStep /\ UNCHANGED scanVars
  <2>1. ScanTypes'
    BY <1>2 DEF Types, ScanTypes, scanVars
  <2> QED BY <1>2, <2>1, JobTypesStep DEF Types
<1>3. CASE ScanStep /\ UNCHANGED jobVars
  <2>1. JobTypes'
    BY <1>3 DEF Types, JobTypes, jobVars
  <2> QED BY <1>3, <2>1, ScanTypesStep DEF Types
<1>4. CASE UNCHANGED vars
  BY <1>4 DEF vars, requestVars, jobVars, scanVars, Types, RequestTypes, JobTypes, ScanTypes
<1> QED BY <1>1, <1>2, <1>3, <1>4 DEF Next

LEMMA TypesAlways == Spec => []Types
<1>1. Init => Types
  BY InitTypes DEF Types
<1> QED BY <1>1, TypesStep, PTL DEF Spec

\* Every variable of a command keeps its type; an entry is asked for at most
\* Retries times again (JenkinsOperator).
THEOREM TypeCorrect == Spec => []TypeOK
<1>1. Types => TypeOK
  BY TypeParts DEF Types
<1> QED BY <1>1, TypesAlways, PTL

-----------------------------------------------------------------------------
(* Exit codes.                                                             *)

LEMMA Codes ==
    /\ \A m : exit_code(Verdict("BLOCKED", m)) = 3
    /\ \A m : exit_code(Verdict("READY", m)) = 0
    /\ \A m : exit_code(Verdict("DEGRADED", m)) = 0
    /\ \A m : exit_code(Verdict("none", m)) = 1
    /\ exit_code(NotFound) = 1 /\ exit_code(Invalid) = 1
    /\ exit_code(Failed) = 2 /\ exit_code(Malformed) = 2 /\ exit_code(Denied) = 3
    /\ exit_code(Verdict("ERROR", "header missing")) = 1
    /\ exit_code(Verdict("ERROR", "no files")) = 1
    /\ exit_code(Verdict("ERROR", "check failed")) = 2
<1>1. /\ \A m : exit_code(Verdict("BLOCKED", m)) = 3
      /\ \A m : exit_code(Verdict("READY", m)) = 0
      /\ \A m : exit_code(Verdict("DEGRADED", m)) = 0
      /\ \A m : exit_code(Verdict("none", m)) = 1
  BY DEF exit_code, Verdict
<1>2. \A m : exit_code(Verdict("ERROR", m)) =
                 IF m \in {"not found", "invalid", "no files", "header missing"} THEN 1 ELSE 2
  BY DEF exit_code, Verdict
<1> QED BY <1>1, <1>2 DEF NotFound, Invalid, Failed, Malformed, Denied

Broken(reply) == reply.status = "unreachable" \/ (reply.status = "ok" /\ reply.body # "dict")

\* What an error says of the reply it is about.
ErrorTells(v, reply, named) ==
    /\ (exit_code(v) = 1) <=> reply.status = "absent" /\ named
    /\ (exit_code(v) = 3) <=> reply.status = "denied"
    /\ Broken(reply) => exit_code(v) = 2
    /\ v.status # "READY"

LEMMA HttpErrorTells ==
    ASSUME NEW reply \in Replies, ~Good(reply), NEW named \in BOOLEAN
    PROVE  /\ ErrorTells(operator_http_error(reply, named), reply, named)
           /\ exit_code(operator_http_error(reply, named)) = 2 => Broken(reply)
<1> DEFINE v == operator_http_error(reply, named)
<1>1. v.status # "READY"
  BY ErrorStatus
<1>2. /\ reply.status \in {"ok", "unreachable", "denied", "absent", "refused"}
      /\ reply.status = "ok" => reply.body # "dict"
  BY ReplyKinds DEF Good
<1>3. CASE reply.status = "denied"
  <2>1. v = Denied BY <1>3 DEF operator_http_error
  <2>2. exit_code(v) = 3 BY <2>1, Codes
  <2> QED BY <1>1, <1>3, <2>2 DEF ErrorTells, Broken
<1>4. CASE reply.status = "absent" /\ named
  <2>1. v = NotFound BY <1>4 DEF operator_http_error
  <2>2. exit_code(v) = 1 BY <2>1, Codes
  <2>3. exit_code(v) # 3 /\ exit_code(v) # 2 BY <2>2
  <2>4. reply.status # "denied" /\ ~Broken(reply) BY <1>4 DEF Broken
  <2> HIDE DEF v
  <2>5. ErrorTells(v, reply, named) BY <1>1, <1>4, <2>2, <2>3, <2>4, Zenon DEF ErrorTells
  <2> QED BY <2>3, <2>5 DEF v
<1>5. CASE reply.status = "unreachable"
  <2>1. v = Failed BY <1>5 DEF operator_http_error
  <2>2. exit_code(v) = 2 BY <2>1, Codes
  <2> QED BY <1>1, <1>5, <2>2 DEF ErrorTells, Broken
<1>6. CASE reply.status = "refused" \/ (reply.status = "absent" /\ ~named)
  <2>1. v = Verdict("DEGRADED", "HTTP") BY <1>6 DEF operator_http_error
  <2>2. exit_code(v) = 0 BY <2>1, Codes
  <2> QED BY <1>1, <1>6, <2>2 DEF ErrorTells, Broken
<1>7. CASE reply.status = "ok"
  <2>1. v = Malformed BY <1>7 DEF operator_http_error
  <2>2. exit_code(v) = 2 BY <2>1, Codes
  <2> QED BY <1>1, <1>2, <1>7, <2>2 DEF ErrorTells, Broken
<1> QED BY <1>2, <1>3, <1>4, <1>5, <1>6, <1>7

LEMMA InlineErrorTells ==
    ASSUME NEW reply \in Replies, ~Good(reply), NEW named \in BOOLEAN
    PROVE  /\ ErrorTells(inline_error(reply, named), reply, named)
           /\ exit_code(inline_error(reply, named)) = 2 =>
                 Broken(reply) \/ reply.status \in {"refused", "absent"}
<1> DEFINE v == inline_error(reply, named)
<1>1. v.status # "READY"
  BY ErrorStatus
<1>2. /\ reply.status \in {"ok", "unreachable", "denied", "absent", "refused"}
      /\ reply.body \in {"dict", "other", "none"}
      /\ reply.status = "ok" => reply.body # "dict"
      /\ reply.status = "unreachable" => reply.body = "none"
  BY ReplyKinds DEF Good
<1>3. CASE reply.status = "denied"
  <2>1. v = Denied BY <1>3 DEF inline_error
  <2>2. exit_code(v) = 3 BY <2>1, Codes
  <2> QED BY <1>1, <1>3, <2>2 DEF ErrorTells, Broken
<1>4. CASE reply.status = "absent" /\ named
  <2>1. v = NotFound BY <1>4 DEF inline_error
  <2>2. exit_code(v) = 1 BY <2>1, Codes
  <2>3. exit_code(v) # 3 /\ exit_code(v) # 2 BY <2>2
  <2>4. reply.status # "denied" /\ ~Broken(reply) BY <1>4 DEF Broken
  <2> HIDE DEF v
  <2>5. ErrorTells(v, reply, named) BY <1>1, <1>4, <2>2, <2>3, <2>4, Zenon DEF ErrorTells
  <2> QED BY <2>3, <2>5 DEF v
<1>5. ASSUME reply.status # "denied", ~(reply.status = "absent" /\ named), reply.body # "dict"
      PROVE  v \in {Failed, Malformed}
  BY <1>2, <1>5 DEF inline_error
<1>6. CASE reply.status \in {"ok", "unreachable"}
  <2>1. exit_code(v) = 2 BY <1>2, <1>5, <1>6, Codes
  <2> QED BY <1>1, <1>2, <1>6, <2>1 DEF ErrorTells, Broken
<1>7. CASE reply.status = "refused" \/ (reply.status = "absent" /\ ~named)
  <2>1. CASE reply.body = "dict"
    <3>1. v = Verdict("DEGRADED", "HTTP") BY <1>7, <2>1 DEF inline_error
    <3>2. exit_code(v) = 0 BY <3>1, Codes
    <3> QED BY <1>1, <1>7, <3>2 DEF ErrorTells, Broken
  <2>2. CASE reply.body # "dict"
    <3>1. exit_code(v) = 2 BY <1>5, <1>7, <2>2, Codes
    <3> QED BY <1>1, <1>7, <3>1 DEF ErrorTells, Broken
  <2> QED BY <2>1, <2>2
<1> QED BY <1>2, <1>3, <1>4, <1>6, <1>7

\* The verdict on the reply of a command of one request.
LEMMA QueryTells ==
    ASSUME NEW reply \in Replies, NEW op \in (Inline \cup Shared) \ {"jobs", "vulnerabilities"},
           reply.trouble => op \in Troubled
    PROVE  LET v == verdict(op, reply) IN
           /\ (exit_code(v) = 1) <=> reply.status = "absent" /\ op \in Named
           /\ (exit_code(v) = 3) <=> reply.status = "denied" \/ (reply.trouble /\ op = "plugins")
           /\ Broken(reply) => exit_code(v) = 2
           /\ exit_code(v) = 2 =>
                 Broken(reply) \/ (reply.status \in {"refused", "absent"} /\ op \in Inline)
           /\ v.status = "READY" => Good(reply) /\ ~reply.trouble
<1> DEFINE v == verdict(op, reply)
<1>1. CASE Good(reply)
  <2>1. ~Broken(reply) /\ reply.status = "ok"
    BY <1>1 DEF Good, Broken
  <2>2. CASE reply.trouble /\ op = "plugins"
    <3>1. v = Verdict("BLOCKED", "plugins missing")
      BY <1>1, <2>2 DEF verdict, operator_plugins
    <3>2. exit_code(v) = 3 /\ v.status = "BLOCKED"
      BY <3>1, Codes, VerdictFields
    <3> QED BY <2>1, <2>2, <3>2
  <2>3. CASE reply.trouble /\ op # "plugins"
    <3>1. v = Warned
      BY <1>1, <2>3 DEF verdict, Troubled, operator_health, operator_seed, operator_queue,
                        operator_artifacts
    <3>2. exit_code(v) = 0 /\ v.status = "DEGRADED"
      BY <3>1, Codes, VerdictFields DEF Warned
    <3> QED BY <2>1, <2>3, <3>2
  <2>4. CASE ~reply.trouble
    <3>1. v = Ready
      BY <1>1, <2>4 DEF verdict, Inline, Shared, operator_health, operator_job,
         operator_seed, operator_plugins, operator_credentials, operator_nodes,
         operator_whoami, operator_credential_domains, operator_queue, operator_artifacts,
         operator_views
    <3>2. exit_code(v) = 0
      BY <3>1, Codes DEF Ready
    <3> QED BY <1>1, <2>1, <2>4, <3>2
  <2> QED BY <2>2, <2>3, <2>4
<1>2. CASE ~Good(reply)
  <2>1. ~reply.trouble
    BY <1>2, ReplyKinds
  <2>2. CASE op \in Inline /\ op \in Named
    <3>1. v = inline_error(reply, TRUE)
      BY <1>2, <2>2 DEF verdict, Inline, Named, operator_job, operator_seed,
                        operator_credentials
    <3>2. ErrorTells(v, reply, TRUE) /\ (exit_code(v) = 2 =>
              Broken(reply) \/ reply.status \in {"refused", "absent"})
      BY <1>2, <3>1, InlineErrorTells
    <3> QED BY <2>1, <2>2, <3>2 DEF ErrorTells
  <2>3. CASE op \in Inline /\ op \notin Named
    <3>1. v = inline_error(reply, FALSE)
      BY <1>2, <2>3 DEF verdict, Inline, Named, operator_health, operator_plugins
    <3>2. ErrorTells(v, reply, FALSE) /\ (exit_code(v) = 2 =>
              Broken(reply) \/ reply.status \in {"refused", "absent"})
      BY <1>2, <3>1, InlineErrorTells
    <3> QED BY <2>1, <2>3, <3>2 DEF ErrorTells
  <2>4. CASE op \notin Inline /\ op \in Named
    <3>1. v = operator_http_error(reply, TRUE)
      BY <1>2, <2>4 DEF verdict, Inline, Named, operator_artifacts, operator_views
    <3>2. ErrorTells(v, reply, TRUE) /\ (exit_code(v) = 2 => Broken(reply))
      BY <1>2, <3>1, HttpErrorTells
    <3> QED BY <2>1, <2>4, <3>2 DEF ErrorTells
  <2>5. CASE op \notin Inline /\ op \notin Named
    <3>1. v = operator_http_error(reply, FALSE)
      <4>1. op \in {"nodes", "queue", "views", "whoami", "credential-domains"}
        BY <2>5 DEF Inline, Shared, Named
      <4> QED BY <1>2, <4>1 DEF verdict, operator_nodes, operator_queue, operator_views,
                 operator_whoami, operator_credential_domains
    <3>2. ErrorTells(v, reply, FALSE) /\ (exit_code(v) = 2 => Broken(reply))
      BY <1>2, <3>1, HttpErrorTells
    <3> QED BY <2>1, <2>5, <3>2 DEF ErrorTells
  <2> QED BY <2>2, <2>3, <2>4, <2>5
<1> QED BY <1>1, <1>2

-----------------------------------------------------------------------------
(* The course of a command.                                                *)

Failures == {"unreachable", "denied", "absent", "refused", "malformed"}

\* Before its end nothing has happened to it but folders passed over.
Course ==
    /\ phase \in {"idle", "asking", "updating", "scanning"} => met = {} /\ unread = {}
    /\ phase = "walking" => /\ call.op = "jobs"
                            /\ met \subseteq Failures /\ (met = {} \/ unread # {})
    /\ phase \in {"updating", "scanning"} => call.op = "vulnerabilities" /\ core # <<>>
    /\ phase \in {"idle", "asking"} => core = <<>>

LEMMA SeenKinds ==
    ASSUME NEW reply \in Replies
    PROVE  /\ Good(reply) /\ ~reply.trouble => Seen(reply) = {}
           /\ reply.trouble => Seen(reply) = {"trouble"}
           /\ reply.status # "ok" => Seen(reply) = {reply.status}
           /\ reply.status = "ok" /\ reply.body # "dict" => Seen(reply) = {"malformed"}
           /\ ~Good(reply) => Seen(reply) \subseteq Failures
BY ReplyKinds DEF Seen, Good, Failures

LEMMA DoneStays == phase = "done" /\ Next => FALSE
<1> SUFFICES ASSUME phase = "done", Next PROVE FALSE
  OBVIOUS
<1>1. ~Request
  BY DEF Request, Begin, Controllers, SyntaxCheck, Query, RequestOut, Due, EditCredentials, Change
<1>2. ~JobStep
  BY DEF JobStep, CheckFolder, Visit, Stumble, ListJobs, ChangeTree, Change
<1>3. ~ScanStep
  BY DEF ScanStep, ReadPlugins, ReadCentre, Inspect, ReadAdvisory, RecallEntry, Misunderstand,
         AskEntry, Due, Leave, Conclude, ChangePlugins, Change
<1> QED BY <1>1, <1>2, <1>3 DEF Next

LEMMA RequestCourse ==
    ASSUME Types, Course, Request, UNCHANGED <<jobVars, scanVars>>
    PROVE  Course'
<1>0. unread' = unread /\ core' = core
  BY DEF jobVars, scanVars
<1>1. CASE \E c \in Calls : Begin(c)
  BY <1>0, <1>1 DEF Begin, End, Course
<1>2. CASE \E c \in Calls : Controllers(c)
  BY <1>0, <1>2 DEF Controllers, End, Course
<1>3. CASE \E c \in Calls, seen \in {"no files", "no script", "not found", "timed out",
                                     "not started", "failure", "success"} :
               SyntaxCheck(c, seen)
  BY <1>0, <1>3 DEF SyntaxCheck, End, Course
<1>4. CASE \E reply \in Replies, exists \in BOOLEAN : Query(reply, exists)
  BY <1>0, <1>4 DEF Query, End, Course
<1>5. CASE RequestOut /\ Hang
  BY <1>0, <1>5 DEF Hang, End, Course
<1>6. CASE EditCredentials
  BY <1>0, <1>6 DEF EditCredentials, Change, Course
<1> QED BY <1>1, <1>2, <1>3, <1>4, <1>5, <1>6 DEF Request

LEMMA JobCourse ==
    ASSUME Types, Course, JobStep, UNCHANGED scanVars
    PROVE  Course'
<1>0. core' = core
  BY DEF scanVars
<1>1. CASE \E reply \in Replies : CheckFolder(reply)
  <2>1. PICK reply \in Replies : CheckFolder(reply) BY <1>1
  <2>2. CASE Good(reply)
    <3>1. met' = {}
      BY <2>1, <2>2, SeenKinds DEF CheckFolder, Receive, Course
    <3> QED BY <1>0, <2>1, <2>2, <3>1 DEF CheckFolder, Course
  <2>3. CASE ~Good(reply)
    BY <1>0, <2>1, <2>3 DEF CheckFolder, End, Course
  <2> QED BY <2>2, <2>3
<1>2. CASE \E reply \in Replies : \E t \in todo : Visit(t, reply)
  <2>1. PICK reply \in Replies, t \in todo : Visit(t, reply) BY <1>2
  <2>2. met' = met \cup Seen(reply)
    BY <2>1 DEF Visit, Receive
  <2>3. CASE Good(reply)
    <3>1. met' = met
      BY <2>1, <2>2, <2>3, SeenKinds DEF Visit
    <3> QED BY <1>0, <2>1, <2>3, <3>1 DEF Visit, Course
  <2>4. CASE ~Good(reply)
    <3>1. met' \subseteq Failures
      BY <2>1, <2>2, <2>4, SeenKinds DEF Visit, Course
    <3> QED BY <1>0, <2>1, <2>4, <3>1 DEF Visit, Course
  <2> QED BY <2>3, <2>4
<1>3. CASE \E t \in todo : Stumble(t)
  BY <1>0, <1>3 DEF Stumble, End, Course
<1>4. CASE ListJobs
  BY <1>0, <1>4 DEF ListJobs, End, Course
<1>5. CASE ChangeTree
  BY <1>0, <1>5 DEF ChangeTree, Change, Course
<1> QED BY <1>1, <1>2, <1>3, <1>4, <1>5 DEF JobStep

LEMMA ScanCourse ==
    ASSUME Types, Course, ScanStep, UNCHANGED jobVars
    PROVE  Course'
<1>0. unread' = unread
  BY DEF jobVars
<1>1. CASE \E reply \in Replies, header \in Versions : ReadPlugins(reply, header)
  <2>1. PICK reply \in Replies, header \in Versions : ReadPlugins(reply, header) BY <1>1
  <2>2. CASE Good(reply) /\ header # <<>>
    <3>1. met' = {}
      BY <2>1, <2>2, SeenKinds DEF ReadPlugins, Receive, Course
    <3> QED BY <1>0, <2>1, <2>2, <3>1 DEF ReadPlugins, Course
  <2>3. CASE ~(Good(reply) /\ header # <<>>)
    BY <1>0, <2>1, <2>3 DEF ReadPlugins, End, Course
  <2> QED BY <2>2, <2>3
<1>2. CASE \E answer \in {"ok", "absent", "failed"} : ReadCentre(answer)
  BY <1>0, <1>2 DEF ReadCentre, End, Course
<1>3. CASE \E p \in left : Inspect(p)
  BY <1>0, <1>3 DEF Inspect, requestVars, Course
<1>4. CASE \E w \in warnings, answer \in {"ok", "none"} : ReadAdvisory(w, answer)
  BY <1>0, <1>4 DEF ReadAdvisory, Course
<1>5. CASE \E c \in cves : RecallEntry(c)
  BY <1>0, <1>5 DEF RecallEntry, requestVars, Course
<1>6. CASE \E c \in cves : Misunderstand(c)
  BY <1>0, <1>6 DEF Misunderstand, End, Course
<1>7. CASE \E c \in cves, answer \in {"ok", "none", "busy"} : AskEntry(c, answer)
  BY <1>0, <1>7 DEF AskEntry, Course
<1>8. CASE Leave
  BY <1>0, <1>8 DEF Leave, requestVars, Course
<1>9. CASE Conclude
  BY <1>0, <1>9 DEF Conclude, End, Course
<1>10. CASE ChangePlugins
  BY <1>0, <1>10 DEF ChangePlugins, Change, Course
<1> QED
  BY <1>1, <1>2, <1>3, <1>4, <1>5, <1>6, <1>7, <1>8, <1>9, <1>10 DEF ScanStep

-----------------------------------------------------------------------------
(* The end of a command, action by action.                                 *)

LEMMA CodeStatus ==
    ASSUME NEW m
    PROVE  /\ Verdict("BLOCKED", m).status # "READY" /\ Verdict("none", m).status # "READY"
           /\ Verdict("ERROR", m).status # "READY"
           /\ NotFound.status # "READY" /\ Invalid.status # "READY" /\ Failed.status # "READY"
BY DEF Verdict, NotFound, Invalid, Failed

\* One thing, or nothing, happened to the command.
LEMMA MetOne == ASSUME NEW k, met' = {k} PROVE \A S : (met' \cap S # {}) <=> k \in S
OBVIOUS

LEMMA MetNothing == ASSUME met' = {} PROVE \A S : met' \cap S = {}
OBVIOUS

Crashed == Met({"hang", "retry", "odd name"}) \/ HeaderMissing

\* The exit code and its cause make up what is claimed.
LEMMA ExitOne ==
    ASSUME exit_code(outcome') = 1, outcome'.status # "READY",
           UsersMistake', ~MustBeAllowed', ~SystemFailed'
    PROVE  ExitTellsCause'
<1>1. exit_code(outcome') # 2 /\ exit_code(outcome') # 3
  OBVIOUS
<1> QED BY <1>1, Zenon DEF ExitTellsCause, Crashed

LEMMA ExitCrashed ==
    ASSUME exit_code(outcome') = 1, outcome'.status # "READY", Crashed'
    PROVE  ExitTellsCause'
<1>1. exit_code(outcome') # 2 /\ exit_code(outcome') # 3
  OBVIOUS
<1> QED BY <1>1, Zenon DEF ExitTellsCause, Crashed

LEMMA ExitTwo ==
    ASSUME exit_code(outcome') = 2, outcome'.status # "READY",
           SystemFailed', ~UsersMistake', ~MustBeAllowed', ~Crashed'
    PROVE  ExitTellsCause'
<1>1. exit_code(outcome') # 1 /\ exit_code(outcome') # 3
  OBVIOUS
<1> QED BY <1>1, Zenon DEF ExitTellsCause, Crashed

LEMMA ExitThree ==
    ASSUME exit_code(outcome') = 3, outcome'.status # "READY",
           MustBeAllowed', ~UsersMistake', ~SystemFailed', ~Crashed'
    PROVE  ExitTellsCause'
<1>1. exit_code(outcome') # 1 /\ exit_code(outcome') # 2
  OBVIOUS
<1> QED BY <1>1, Zenon DEF ExitTellsCause, Crashed

LEMMA ExitZero ==
    ASSUME exit_code(outcome') = 0, outcome'.status = "READY" => met' = {} \/ unread' # {},
           ~UsersMistake', ~MustBeAllowed', ~SystemFailed', ~Crashed'
    PROVE  ExitTellsCause'
<1>1. exit_code(outcome') # 1 /\ exit_code(outcome') # 2 /\ exit_code(outcome') # 3
  OBVIOUS
<1> QED BY <1>1, Zenon DEF ExitTellsCause, Crashed

LEMMA RequestExit ==
    ASSUME Types, Course, Request, UNCHANGED <<jobVars, scanVars>>, phase' = "done"
    PROVE  ExitTellsCause'
<1>0. unread' = unread /\ core' = core
  BY DEF jobVars, scanVars
<1>1. CASE \E c \in Calls : Begin(c)
  <2>1. PICK c \in Calls : Begin(c) BY <1>1
  <2>2. c.op # "controllers"
    BY <2>1 DEF Begin, Inline, Shared
  <2>3. \/ outcome' = Invalid /\ met' = {"invalid"}
        \/ outcome' = NotFound /\ met' = {"unlisted"}
        \/ outcome' = Verdict("BLOCKED", "credentials") /\ met' = {"partial"}
    BY <2>1 DEF Begin, End
  <2>4. call' = c
    BY <2>1 DEF Begin
  <2>5. CASE outcome' = Invalid /\ met' = {"invalid"}
    <3>1. exit_code(outcome') = 1 /\ outcome'.status # "READY"
      BY <2>5, Codes, CodeStatus
    <3>9. \A S : (met' \cap S # {}) <=> "invalid" \in S
      BY <2>5, MetOne
    <3> QED BY <3>9, <2>5, <3>1 DEF ExitTellsCause, UsersMistake, MustBeAllowed, SystemFailed,
        HeaderMissing, Met
  <2>6. CASE outcome' = NotFound /\ met' = {"unlisted"}
    <3>1. exit_code(outcome') = 1 /\ outcome'.status # "READY"
      BY <2>6, Codes, CodeStatus
    <3>9. \A S : (met' \cap S # {}) <=> "unlisted" \in S
      BY <2>6, MetOne
    <3> QED BY <3>9, <2>2, <2>4, <2>6, <3>1 DEF ExitTellsCause, UsersMistake, MustBeAllowed, SystemFailed,
        HeaderMissing, Met
  <2>7. CASE outcome' = Verdict("BLOCKED", "credentials") /\ met' = {"partial"}
    <3>1. exit_code(outcome') = 3 /\ outcome'.status # "READY"
      BY <2>7, Codes, CodeStatus
    <3>9. \A S : (met' \cap S # {}) <=> "partial" \in S
      BY <2>7, MetOne
    <3> QED BY <3>9, <2>7, <3>1 DEF ExitTellsCause, UsersMistake, MustBeAllowed, SystemFailed,
        HeaderMissing, Met
  <2> QED BY <2>3, <2>5, <2>6, <2>7
<1>2. CASE \E c \in Calls : Controllers(c)
  <2>1. PICK c \in Calls : Controllers(c) BY <1>2
  <2>2. call'.op = "controllers"
    BY <2>1 DEF Controllers
  <2>3. CASE creds = "none"
    <3>1. outcome' = Verdict("BLOCKED", "no controllers") /\ met' = {"unlisted"}
      BY <2>1, <2>3 DEF Controllers, End
    <3>2. exit_code(outcome') = 3 /\ outcome'.status # "READY"
      BY <3>1, Codes, CodeStatus
    <3>9. \A S : (met' \cap S # {}) <=> "unlisted" \in S
      BY <3>1, MetOne
    <3>10. ~UsersMistake' /\ MustBeAllowed'
      BY <3>9, <2>2, <3>1, <3>2 DEF UsersMistake, MustBeAllowed, Met
    <3>11. ~SystemFailed'
      BY <3>9, <2>2, <3>1, <3>2 DEF SystemFailed, Met
    <3>12. ~Crashed'
      BY <3>9, <2>2, <3>1, <3>2 DEF Crashed, HeaderMissing, Met
    <3> QED BY <3>10, <3>11, <3>12, <3>1, <3>2, ExitOne, ExitTwo, ExitThree, ExitZero
  <2>4. CASE creds # "none"
    <3>1. outcome' = Verdict("READY", "fetched") /\ met' = {}
      BY <2>1, <2>4 DEF Controllers, End, Course
    <3>2. exit_code(outcome') = 0
      BY <3>1, Codes
    <3>9. \A S : met' \cap S = {}
      BY <3>1, MetNothing
    <3> QED BY <3>9, <2>2, <3>1, <3>2 DEF ExitTellsCause, UsersMistake, MustBeAllowed, SystemFailed,
        HeaderMissing, Met
  <2> QED BY <2>3, <2>4
<1>3. CASE \E c \in Calls, seen \in {"no files", "no script", "not found", "timed out",
                                     "not started", "failure", "success"} :
               SyntaxCheck(c, seen)
  <2>1. PICK c \in Calls, seen \in {"no files", "no script", "not found", "timed out",
                                    "not started", "failure", "success"} :
               SyntaxCheck(c, seen)
    BY <1>3
  <2>2. /\ call'.op = "syntax-check" /\ met' = {seen} \ {"success"}
        /\ outcome' = ScriptVerdict(seen)
    BY <2>1 DEF SyntaxCheck, End
  <2>3. CASE seen \in {"no files", "not found"}
    <3>1. outcome' \in {Verdict("ERROR", "no files"), NotFound} /\ met' = {seen}
      BY <2>2, <2>3 DEF ScriptVerdict, NotFound
    <3>2. exit_code(outcome') = 1 /\ outcome'.status # "READY"
      BY <3>1, Codes, CodeStatus
    <3>9. \A S : (met' \cap S # {}) <=> seen \in S
      BY <3>1, MetOne
    <3>10. UsersMistake' /\ ~MustBeAllowed'
      BY <3>9, <2>2, <2>3, <3>1, <3>2 DEF UsersMistake, MustBeAllowed, Met
    <3>11. ~SystemFailed'
      BY <3>9, <2>2, <2>3, <3>1, <3>2 DEF SystemFailed, Met
    <3>12. ~Crashed'
      BY <3>9, <2>2, <2>3, <3>1, <3>2 DEF Crashed, HeaderMissing, Met
    <3> QED BY <3>10, <3>11, <3>12, <3>1, <3>2, ExitOne, ExitTwo, ExitThree, ExitZero
  <2>4. CASE seen = "failure"
    <3>1. outcome' = Verdict("ERROR", "check failed") /\ met' = {"failure"}
      BY <2>2, <2>4 DEF ScriptVerdict
    <3>2. exit_code(outcome') = 2 /\ outcome'.status # "READY"
      BY <3>1, Codes, CodeStatus
    <3>9. \A S : (met' \cap S # {}) <=> "failure" \in S
      BY <3>1, MetOne
    <3>10. ~UsersMistake' /\ ~MustBeAllowed'
      BY <3>9, <2>2, <3>1, <3>2 DEF UsersMistake, MustBeAllowed, Met
    <3>11. SystemFailed'
      BY <3>9, <2>2, <3>1, <3>2 DEF SystemFailed, Met
    <3>12. ~Crashed'
      BY <3>9, <2>2, <3>1, <3>2 DEF Crashed, HeaderMissing, Met
    <3> QED BY <3>10, <3>11, <3>12, <3>1, <3>2, ExitOne, ExitTwo, ExitThree, ExitZero
  <2>5. CASE seen = "success"
    <3>1. outcome' = Verdict("READY", "passed") /\ met' = {}
      BY <2>2, <2>5 DEF ScriptVerdict
    <3>2. exit_code(outcome') = 0
      BY <3>1, Codes
    <3>9. \A S : met' \cap S = {}
      BY <3>1, MetNothing
    <3>10. ~UsersMistake' /\ ~MustBeAllowed'
      BY <3>9, <2>2, <3>1, <3>2 DEF UsersMistake, MustBeAllowed, Met
    <3>11. ~SystemFailed'
      BY <3>9, <2>2, <3>1, <3>2 DEF SystemFailed, Met
    <3>12. ~Crashed'
      BY <3>9, <2>2, <3>1, <3>2 DEF Crashed, HeaderMissing, Met
    <3> QED BY <3>10, <3>11, <3>12, <3>1, <3>2, ExitOne, ExitTwo, ExitThree, ExitZero
  <2>6. CASE seen \in {"no script", "timed out", "not started"}
    <3>1. outcome' = Verdict("BLOCKED", seen) /\ met' = {seen}
      BY <2>2, <2>6 DEF ScriptVerdict
    <3>2. exit_code(outcome') = 3 /\ outcome'.status # "READY"
      BY <3>1, Codes, CodeStatus
    <3>9. \A S : (met' \cap S # {}) <=> seen \in S
      BY <3>1, MetOne
    <3>10. ~UsersMistake' /\ MustBeAllowed'
      BY <3>9, <2>2, <2>6, <3>1, <3>2 DEF UsersMistake, MustBeAllowed, Met
    <3>11. ~SystemFailed'
      BY <3>9, <2>2, <2>6, <3>1, <3>2 DEF SystemFailed, Met
    <3>12. ~Crashed'
      BY <3>9, <2>2, <2>6, <3>1, <3>2 DEF Crashed, HeaderMissing, Met
    <3> QED BY <3>10, <3>11, <3>12, <3>1, <3>2, ExitOne, ExitTwo, ExitThree, ExitZero
  <2> QED BY <2>3, <2>4, <2>5, <2>6
<1>4. CASE \E reply \in Replies, exists \in BOOLEAN : Query(reply, exists)
  <2>1. PICK reply \in Replies, exists \in BOOLEAN : Query(reply, exists) BY <1>4
  <2>2. /\ met' = Seen(reply) /\ unread' = {} /\ call' = call
        /\ outcome' = verdict(call.op, reply)
    BY <1>0, <2>1 DEF Query, Receive, End, Course
  <2>3. call.op \in (Inline \cup Shared) \ {"jobs", "vulnerabilities"}
    BY <2>1 DEF Query, Types, RequestTypes
  <2>4. reply.trouble => call.op \in Troubled
    BY <2>1 DEF Query
  <2>5. /\ (exit_code(outcome') = 1) <=> reply.status = "absent" /\ call.op \in Named
        /\ (exit_code(outcome') = 3) <=>
              reply.status = "denied" \/ (reply.trouble /\ call.op = "plugins")
        /\ Broken(reply) => exit_code(outcome') = 2
        /\ exit_code(outcome') = 2 =>
              Broken(reply) \/ (reply.status \in {"refused", "absent"} /\ call.op \in Inline)
        /\ outcome'.status = "READY" => Good(reply) /\ ~reply.trouble
    BY <2>2, <2>3, <2>4, QueryTells
  <2>6. /\ "absent" \in met' <=> reply.status = "absent"
        /\ "denied" \in met' <=> reply.status = "denied"
        /\ "refused" \in met' <=> reply.status = "refused"
        /\ "trouble" \in met' <=> reply.trouble
        /\ ("unreachable" \in met' \/ "malformed" \in met') <=> Broken(reply)
        /\ met' \subseteq Failures \cup {"trouble"}
        /\ Good(reply) /\ ~reply.trouble => met' = {}
    BY <2>2, SeenKinds, ReplyKinds DEF Broken, Failures, Good
  <2>7. call.op \notin {"controllers", "jobs", "vulnerabilities"}
    BY <2>3 DEF Inline, Shared
  <2> QED BY <2>2, <2>5, <2>6, <2>7 DEF Failures, ExitTellsCause, UsersMistake, MustBeAllowed,
        SystemFailed, HeaderMissing, Met
<1>5. CASE RequestOut /\ Hang
  <2>1. outcome' = Verdict("none", "traceback") /\ met' = met \cup {"hang"} /\ call' = call
    BY <1>5 DEF Hang, End
  <2>2. exit_code(outcome') = 1 /\ outcome'.status # "READY"
    BY <2>1, Codes, CodeStatus
  <2>3. met' \cap {"hang", "retry", "odd name"} # {}
    BY <2>1
  <2>4. Crashed'
    BY <2>3 DEF Crashed, Met
  <2> QED BY <2>2, <2>4, ExitCrashed
<1>6. CASE EditCredentials
  BY <1>6 DEF EditCredentials, Change
<1> QED BY <1>1, <1>2, <1>3, <1>4, <1>5, <1>6 DEF Request

\* An error that ends a command of several requests at its first.
LEMMA FirstRequestExit ==
    ASSUME NEW reply \in Replies, ~Good(reply), NEW named \in BOOLEAN,
           met' = Seen(reply), unread' = {}, ~HeaderMissing',
           outcome' = operator_http_error(reply, named),
           named <=> (call'.op \in Named \/ (call'.op = "jobs" /\ call'.folder # Root))
    PROVE  ExitTellsCause'
<1> DEFINE v == operator_http_error(reply, named)
<1>1. /\ (exit_code(v) = 1) <=> reply.status = "absent" /\ named
      /\ (exit_code(v) = 3) <=> reply.status = "denied"
      /\ Broken(reply) => exit_code(v) = 2
      /\ exit_code(v) = 2 => Broken(reply)
      /\ v.status # "READY"
  BY HttpErrorTells, Zenon DEF ErrorTells
<1>2. /\ reply.status \in {"ok", "unreachable", "denied", "absent", "refused"}
      /\ reply.status = "ok" => reply.body # "dict"
  BY ReplyKinds DEF Good
<1>3. PICK k \in Failures : met' = {k} /\ (reply.status = "ok" => k = "malformed")
                            /\ (reply.status # "ok" => k = reply.status)
  BY <1>2, SeenKinds DEF Failures
<1>4. \A S : (met' \cap S # {}) <=> k \in S
  BY <1>3, MetOne
<1>5. /\ ~Crashed'
      /\ UsersMistake' <=> k = "absent" /\ named
      /\ MustBeAllowed' <=> k = "denied"
      /\ SystemFailed' <=> k \in {"unreachable", "malformed"}
  <2>1. ~Met({"hang", "retry", "odd name"})'
    BY <1>3, <1>4 DEF Met, Failures
  <2>2. ~Crashed'
    BY <2>1 DEF Crashed
  <2>3. /\ ~Met({"invalid", "no files", "not found"})' /\ ~Met({"unlisted"})'
        /\ (Met({"absent"})' <=> k = "absent")
    BY <1>3, <1>4 DEF Met, Failures
  <2>4. UsersMistake' <=> k = "absent" /\ named
    BY <2>3, Zenon DEF UsersMistake
  <2>5. MustBeAllowed' <=> k = "denied"
    BY <1>3, <1>4 DEF MustBeAllowed, Met, Failures
  <2>6. SystemFailed' <=> k \in {"unreachable", "malformed"}
    BY <1>3, <1>4 DEF SystemFailed, Met, Failures
  <2> QED BY <2>2, <2>4, <2>5, <2>6
<1>6. (k \in {"unreachable", "malformed"}) <=> Broken(reply)
  BY <1>2, <1>3 DEF Broken, Failures
<1>7. (k = "absent" <=> reply.status = "absent") /\ (k = "denied" <=> reply.status = "denied")
  BY <1>2, <1>3 DEF Failures
<1>8. outcome' = v
  OBVIOUS
<1> HIDE DEF v
<1> QED BY <1>1, <1>5, <1>6, <1>7, <1>8, Zenon DEF ExitTellsCause, Crashed

LEMMA JobExit ==
    ASSUME Types, Course, JobStep, UNCHANGED scanVars, phase' = "done"
    PROVE  ExitTellsCause'
<1>1. CASE \E reply \in Replies : CheckFolder(reply)
  <2>1. PICK reply \in Replies : CheckFolder(reply) BY <1>1
  <2>2. ~Good(reply) /\ call.op = "jobs" /\ call' = call
    BY <2>1 DEF CheckFolder
  <2>3. met' = Seen(reply) /\ unread' = {}
    BY <2>1 DEF CheckFolder, Receive, Course
  <2>4. outcome' = operator_http_error(reply, call.folder # Root)
    BY <2>1, <2>2 DEF CheckFolder, End
  <2>5. ~HeaderMissing'
    BY <2>2 DEF HeaderMissing
  <2>6. (call.folder # Root) \in BOOLEAN
    OBVIOUS
  <2>7. (call.folder # Root) <=>
            (call'.op \in Named \/ (call'.op = "jobs" /\ call'.folder # Root))
    BY <2>2 DEF Named
  <2> QED BY <2>2, <2>3, <2>4, <2>5, <2>6, <2>7, FirstRequestExit
<1>2. CASE \E reply \in Replies : \E t \in todo : Visit(t, reply)
  BY <1>2 DEF Visit
<1>3. CASE \E t \in todo : Stumble(t)
  <2>1. outcome' = Invalid /\ met' = met \cup {"odd name"}
    BY <1>3 DEF Stumble, End
  <2>2. exit_code(outcome') = 1 /\ outcome'.status # "READY"
    BY <2>1, Codes, CodeStatus
  <2>3. met' \cap {"hang", "retry", "odd name"} # {}
    BY <2>1
  <2>4. Crashed'
    BY <2>3 DEF Crashed, Met
  <2> QED BY <2>2, <2>4, ExitCrashed
<1>4. CASE ListJobs
  <2>1. /\ outcome' \in {Verdict("DEGRADED", "fetched"), Verdict("READY", "fetched")}
        /\ met' = met /\ unread' = unread /\ call' = call /\ phase = "walking"
    BY <1>4 DEF ListJobs, End
  <2>2. exit_code(outcome') = 0
    BY <2>1, Codes
  <2>3. /\ call.op = "jobs" /\ met \subseteq Failures /\ (met = {} \/ unread # {})
    BY <2>1 DEF Course
  <2>4. ~UsersMistake' /\ ~MustBeAllowed'
    BY <2>1, <2>3 DEF UsersMistake, MustBeAllowed, Met, Failures
  <2>5. ~SystemFailed' /\ ~Crashed'
    BY <2>1, <2>3 DEF SystemFailed, Crashed, HeaderMissing, Met, Failures
  <2> QED BY <2>1, <2>2, <2>3, <2>4, <2>5, ExitZero
<1>5. CASE ChangeTree
  BY <1>5 DEF ChangeTree, Change
<1> QED BY <1>1, <1>2, <1>3, <1>4, <1>5 DEF JobStep

LEMMA ScanExit ==
    ASSUME Types, Course, ScanStep, UNCHANGED jobVars, phase' = "done"
    PROVE  ExitTellsCause'
<1>0. unread' = unread
  BY DEF jobVars
<1>1. CASE \E reply \in Replies, header \in Versions : ReadPlugins(reply, header)
  <2>1. PICK reply \in Replies, header \in Versions : ReadPlugins(reply, header) BY <1>1
  <2>2. /\ phase = "asking" /\ call.op = "vulnerabilities" /\ call' = call
        /\ met' = Seen(reply) /\ unread' = {} /\ ~reply.trouble
        /\ ~(Good(reply) /\ header # <<>>) /\ core' = core /\ core = <<>>
    BY <1>0, <2>1 DEF ReadPlugins, Receive, Course
  <2>3. CASE Good(reply)
    <3>1. outcome' = Verdict("ERROR", "header missing") /\ met' = {}
      BY <2>1, <2>2, <2>3, SeenKinds DEF ReadPlugins, End
    <3>2. exit_code(outcome') = 1 /\ outcome'.status # "READY"
      BY <3>1, Codes, CodeStatus
    <3>3. HeaderMissing'
      BY <2>2, <3>1 DEF HeaderMissing
    <3> QED BY <3>2, <3>3, ExitCrashed DEF Crashed
  <2>4. CASE ~Good(reply)
    <3>1. outcome' = operator_http_error(reply, FALSE)
      BY <2>1, <2>2, <2>4 DEF ReadPlugins, End
    <3>2. met' # {}
      BY <2>2, <2>4, SeenKinds, ReplyKinds DEF Good
    <3>3. ~HeaderMissing'
      BY <3>2 DEF HeaderMissing
    <3>4. FALSE <=> (call'.op \in Named \/ (call'.op = "jobs" /\ call'.folder # Root))
      BY <2>2 DEF Named
    <3> QED BY <2>2, <2>4, <3>1, <3>3, <3>4, FirstRequestExit
  <2> QED BY <2>3, <2>4
<1>2. CASE \E answer \in {"ok", "absent", "failed"} : ReadCentre(answer)
  <2>1. /\ phase = "updating" /\ outcome' = Failed /\ met' = met \cup {"centre"}
        /\ call' = call
    BY <1>2 DEF ReadCentre, End
  <2>2. exit_code(outcome') = 2 /\ outcome'.status # "READY"
    BY <2>1, Codes, CodeStatus
  <2>3. met' = {"centre"}
    BY <2>1 DEF Course
  <2>4. \A S : (met' \cap S # {}) <=> "centre" \in S
    BY <2>3, MetOne
  <2>5. SystemFailed' /\ ~UsersMistake'
    <3>1. met' \cap {"centre", "failure"} # {}
      BY <2>3
    <3>2. SystemFailed'
      BY <3>1, Zenon DEF SystemFailed, Met
    <3>3. /\ ~Met({"invalid", "no files", "not found"})' /\ ~Met({"unlisted"})'
          /\ ~Met({"absent"})'
      BY <2>3 DEF Met
    <3>4. ~UsersMistake'
      BY <3>3, Zenon DEF UsersMistake
    <3> QED BY <3>2, <3>4
  <2>6. ~MustBeAllowed' /\ ~Crashed'
    BY <2>3, <2>4 DEF MustBeAllowed, Crashed, HeaderMissing, Met
  <2> QED BY <2>2, <2>5, <2>6, ExitTwo
<1>3. CASE \E p \in left : Inspect(p)
  BY <1>3 DEF Inspect, requestVars
<1>4. CASE \E w \in warnings, answer \in {"ok", "none"} : ReadAdvisory(w, answer)
  BY <1>4 DEF ReadAdvisory
<1>5. CASE \E c \in cves : RecallEntry(c)
  BY <1>5 DEF RecallEntry, Due, requestVars
<1>6. CASE \E c \in cves : Misunderstand(c)
  <2>1. outcome' = Invalid /\ met' = met \cup {"retry"}
    BY <1>6 DEF Misunderstand, End
  <2>2. exit_code(outcome') = 1 /\ outcome'.status # "READY"
    BY <2>1, Codes, CodeStatus
  <2>3. met' \cap {"hang", "retry", "odd name"} # {}
    BY <2>1
  <2>4. Crashed'
    BY <2>3 DEF Crashed, Met
  <2> QED BY <2>2, <2>4, ExitCrashed
<1>7. CASE \E c \in cves, answer \in {"ok", "none", "busy"} : AskEntry(c, answer)
  BY <1>7 DEF AskEntry, Due
<1>8. CASE Leave
  BY <1>8 DEF Leave, requestVars
<1>9. CASE Conclude
  <2>1. /\ outcome' \in {Verdict("DEGRADED", "scan completed"), Verdict("READY", "scan completed")}
        /\ met' = met /\ call' = call /\ phase = "scanning" /\ core' = core
    BY <1>9 DEF Conclude, End, scanVars
  <2>2. exit_code(outcome') = 0
    BY <2>1, Codes
  <2>3. met' = {} /\ core' # <<>>
    BY <2>1 DEF Course
  <2>4. \A S : met' \cap S = {}
    BY <2>3, MetNothing
  <2>5. ~UsersMistake' /\ ~MustBeAllowed'
    BY <2>4 DEF UsersMistake, MustBeAllowed, Met
  <2>6. ~SystemFailed' /\ ~Crashed'
    BY <2>3, <2>4 DEF SystemFailed, Crashed, HeaderMissing, Met
  <2> QED BY <2>2, <2>3, <2>5, <2>6, ExitZero
<1>10. CASE ChangePlugins
  BY <1>10 DEF ChangePlugins, Change
<1> QED
  BY <1>1, <1>2, <1>3, <1>4, <1>5, <1>6, <1>7, <1>8, <1>9, <1>10 DEF ScanStep

LEMMA CourseStep == Types /\ Course /\ [Next]_vars => Course'
<1> SUFFICES ASSUME Types, Course, [Next]_vars PROVE Course'
  OBVIOUS
<1>1. CASE UNCHANGED vars
  BY <1>1 DEF vars, requestVars, jobVars, scanVars, Course
<1> QED BY <1>1, RequestCourse, JobCourse, ScanCourse DEF Next

LEMMA ExitStep == Types /\ Course /\ ExitTellsCause /\ [Next]_vars => ExitTellsCause'
<1> SUFFICES ASSUME Types, Course, ExitTellsCause, [Next]_vars PROVE ExitTellsCause'
  OBVIOUS
<1>1. CASE UNCHANGED vars
  BY <1>1, Zenon DEF vars, requestVars, jobVars, scanVars, ExitTellsCause, UsersMistake,
     MustBeAllowed, SystemFailed, HeaderMissing, Met
<1>2. CASE phase' # "done"
  BY <1>2 DEF ExitTellsCause
<1> QED BY <1>1, <1>2, RequestExit, JobExit, ScanExit DEF Next

\* The exit code tells what stood in the way, whatever way the command came to
\* its end (_exit_code).
THEOREM ExitTells == Spec => []ExitTellsCause
<1>1. Init => Course /\ ExitTellsCause
  BY DEF Init, JobsInit, ScanInit, Course, ExitTellsCause
<1> QED BY <1>1, TypesAlways, CourseStep, ExitStep, PTL DEF Spec

-----------------------------------------------------------------------------
(* The walk through the folders.                                           *)

\* A folder still to visit lies at or below the one the walk started from, as
\* deep as the walk takes it for.
OnTheWay(t) ==
    /\ t.folder = call.folder \/ call.folder \in Above[t.folder]
    /\ Depth[t.folder] = Depth[call.folder] + t.depth

\* A job a listing will owe is collected, or in a folder still to visit or in
\* one below it.
Walk ==
    /\ tree.jobs \subseteq ever
    /\ phase \in {"idle", "asking"} => collected = {}
    /\ phase = "walking" =>
          /\ collected \subseteq ever
          /\ \A i \in collected : call.folder \in Above[i]
          /\ \A t \in todo : OnTheWay(t)
          /\ \A j \in Owed : j \in collected \/ \E t \in todo : t.folder \in Above[j]

LEMMA Paths ==
    /\ \A i \in Items \cup {Root} : Depth[i] \in Nat
    /\ \A i \in Items : /\ Parent[i] \in Items \cup {Root}
                        /\ Depth[i] = Depth[Parent[i]] + 1
                        /\ Above[i] = Above[Parent[i]] \cup {Parent[i]}
                        /\ \A f \in Above[i] : Depth[f] < Depth[i]
    /\ \A i \in Items : \A f \in Above[i] :
          f = Parent[i] \/ \E g \in Above[i] \cap Items : Parent[g] = f
BY JobsAssumption

\* The folder through which the walk goes on to a job it owes.
LEMMA WayDown ==
    ASSUME Types, NEW t \in todo, OnTheWay(t), NEW j \in Owed, t.folder \in Above[j],
           j \notin Within(t.folder, tree.jobs)
    PROVE  \E u \in FoldersBelow(t) : u.folder \in Above[j]
<1>1. /\ j \in Items /\ j \in tree.jobs
      /\ Depth[j] - Depth[call.folder] <= MaxDepth + 1
      /\ call.folder \in Items \cup {Root} /\ t.folder \in Items \cup {Root}
      /\ t.depth \in 0..MaxDepth
  BY CallType, TreeType DEF Owed, Types, JobTypes, RequestTypes
<1>2. Parent[j] # t.folder
  BY <1>1 DEF Within
<1>3. PICK g \in Above[j] \cap Items : Parent[g] = t.folder
  BY <1>1, <1>2, Paths
<1>4. g \in tree.folders
  <2>1. Above[j] \subseteq tree.folders \cup {Root}
    BY <1>1, TreeType DEF Types, JobTypes
  <2>2. g # Root
    BY JobsAssumption
  <2> QED BY <2>1, <2>2
<1>5. t.depth < MaxDepth
  <2>1. Depth[g] = Depth[t.folder] + 1 /\ Depth[g] < Depth[j]
    BY <1>1, <1>3, Paths
  <2>2. Depth[t.folder] = Depth[call.folder] + t.depth
    BY DEF OnTheWay
  <2>3. Depth[g] \in Nat /\ Depth[j] \in Nat /\ Depth[t.folder] \in Nat
        /\ Depth[call.folder] \in Nat
    BY <1>1, Paths
  <2> QED BY <1>1, <2>1, <2>2, <2>3, Bounds
<1>6. [folder |-> g, depth |-> t.depth + 1] \in FoldersBelow(t)
  BY <1>3, <1>4, <1>5 DEF FoldersBelow, Within
<1>7. [folder |-> g, depth |-> t.depth + 1].folder \in Above[j]
  OBVIOUS
<1> QED BY <1>6, <1>7

LEMMA BelowOnTheWay ==
    ASSUME Types, NEW t \in todo, OnTheWay(t), NEW u \in FoldersBelow(t)
    PROVE  OnTheWay(u)
<1>1. PICK g \in Within(t.folder, tree.folders) :
          t.depth < MaxDepth /\ u = [folder |-> g, depth |-> t.depth + 1]
  BY DEF FoldersBelow
<1>2. g \in Items /\ Parent[g] = t.folder /\ u.folder = g /\ u.depth = t.depth + 1
  BY <1>1, TreeType DEF Within, Types, JobTypes
<1>3. /\ Depth[g] = Depth[t.folder] + 1 /\ Above[g] = Above[t.folder] \cup {t.folder}
  BY <1>2, Paths
<1>4. /\ t.depth \in Nat /\ call.folder \in Items \cup {Root}
      /\ Depth[call.folder] \in Nat
  BY CallType, Paths DEF Types, JobTypes, RequestTypes
<1> QED BY <1>2, <1>3, <1>4 DEF OnTheWay

LEMMA VisitWalk ==
    ASSUME Types, Walk, NEW reply \in Replies, NEW t \in todo, Visit(t, reply)
    PROVE  Walk'
<1>1. /\ phase = "walking" /\ phase' = phase /\ call' = call /\ tree' = tree
      /\ steady' = steady /\ ever' = ever
  BY DEF Visit
<1>2. CASE Good(reply)
  <2>1. /\ collected' = collected \cup Within(t.folder, tree.jobs)
        /\ todo' = (todo \ {t}) \cup FoldersBelow(t) /\ unread' = unread
    BY <1>2 DEF Visit
  <2>2. \A i \in Within(t.folder, tree.jobs) :
            i \in ever /\ call.folder \in Above[i]
    <3> TAKE i \in Within(t.folder, tree.jobs)
    <3>1. i \in Items /\ i \in tree.jobs /\ Parent[i] = t.folder
      BY TreeType DEF Within, Types, JobTypes
    <3>2. Above[i] = Above[t.folder] \cup {t.folder}
      BY <3>1, Paths
    <3>3. t.folder = call.folder \/ call.folder \in Above[t.folder]
      BY <1>1 DEF Walk, OnTheWay
    <3> QED BY <3>1, <3>2, <3>3 DEF Walk
  <2>3. \A u \in todo' : OnTheWay(u)
    BY <1>1, <2>1, BelowOnTheWay DEF Walk
  <2>4. \A u : OnTheWay(u)' <=> OnTheWay(u)
    BY <1>1 DEF OnTheWay
  <2>5. Owed' = Owed
    BY <1>1, <2>1 DEF Owed
  <2>6. ASSUME NEW j \in Owed PROVE j \in collected' \/ \E u \in todo' : u.folder \in Above[j]
    <3>1. j \in collected \/ \E u \in todo : u.folder \in Above[j]
      BY <1>1 DEF Walk
    <3>2. CASE j \in collected \cup Within(t.folder, tree.jobs)
      BY <2>1, <3>2
    <3>3. CASE j \notin Within(t.folder, tree.jobs) /\ t.folder \in Above[j]
      <4>1. OnTheWay(t)
        BY <1>1 DEF Walk
      <4> QED BY <2>1, <3>3, <4>1, WayDown
    <3>4. CASE \E u \in todo : u # t /\ u.folder \in Above[j]
      BY <2>1, <3>4
    <3> QED BY <3>1, <3>2, <3>3, <3>4
  <2> QED BY <1>1, <2>1, <2>2, <2>3, <2>4, <2>5, <2>6 DEF Walk
<1>3. CASE ~Good(reply)
  <2>1. /\ collected' = collected /\ todo' = todo \ {t}
        /\ unread' = unread \cup {t.folder}
    BY <1>3 DEF Visit
  <2>2. \A u : OnTheWay(u)' <=> OnTheWay(u)
    BY <1>1 DEF OnTheWay
  <2>3. \A j \in Owed' : j \in Owed /\ t.folder \notin Above[j]
    BY <1>1, <2>1 DEF Owed
  <2> QED BY <1>1, <2>1, <2>2, <2>3 DEF Walk
<1> QED BY <1>2, <1>3

\* What happens away from the walk leaves it alone.
LEMMA WalkAside ==
    ASSUME Walk, UNCHANGED jobVars,
           phase' = "walking" => phase = "walking" /\ call' = call,
           phase' \in {"idle", "asking"} => phase \in {"idle", "asking"}
    PROVE  Walk'
<1>1. /\ tree' = tree /\ todo' = todo /\ collected' = collected /\ steady' = steady
      /\ ever' = ever /\ unread' = unread
  BY DEF jobVars
<1>2. CASE phase' = "walking"
  BY <1>1, <1>2 DEF Walk, OnTheWay, Owed
<1>3. CASE phase' # "walking"
  BY <1>1, <1>3 DEF Walk
<1> QED BY <1>2, <1>3

LEMMA RequestWalk == Walk /\ Request /\ UNCHANGED jobVars => Walk'
<1> SUFFICES ASSUME Walk, Request, UNCHANGED jobVars PROVE Walk'
  OBVIOUS
<1>1. /\ phase' = "walking" => phase = "walking" /\ call' = call
      /\ phase' \in {"idle", "asking"} => phase \in {"idle", "asking"}
  BY DEF Request, Begin, Controllers, SyntaxCheck, Query, Hang, EditCredentials, Change, End
<1> QED BY <1>1, WalkAside

LEMMA ScanWalk == Walk /\ ScanStep /\ UNCHANGED jobVars => Walk'
<1> SUFFICES ASSUME Walk, ScanStep, UNCHANGED jobVars PROVE Walk'
  OBVIOUS
<1>1. /\ phase' = "walking" => phase = "walking" /\ call' = call
      /\ phase' \in {"idle", "asking"} => phase \in {"idle", "asking"}
  BY DEF ScanStep, ReadPlugins, ReadCentre, Inspect, ReadAdvisory, RecallEntry, Misunderstand,
         AskEntry, Leave, Conclude, ChangePlugins, Change, End, requestVars
<1> QED BY <1>1, WalkAside

LEMMA CheckWalk ==
    ASSUME Types, Walk, NEW reply \in Replies, CheckFolder(reply)
    PROVE  Walk'
<1>1. /\ phase = "asking" /\ collected = {} /\ collected' = {} /\ call' = call /\ tree' = tree
      /\ steady' = steady /\ ever' = ever /\ unread' = unread
  BY DEF CheckFolder, Walk
<1>2. CASE Good(reply)
  <2>1. phase' = "walking" /\ todo' = {[folder |-> call.folder, depth |-> 0]}
    BY <1>2 DEF CheckFolder
  <2>2. Depth[call.folder] \in Nat
    BY CallType, Paths DEF Types, RequestTypes
  <2>3. \A t \in todo' : OnTheWay(t)'
    BY <1>1, <2>1, <2>2 DEF OnTheWay
  <2>4. \A j \in Owed' : \E t \in todo' : t.folder \in Above[j]
    BY <1>1, <2>1 DEF Owed
  <2> QED BY <1>1, <2>1, <2>3, <2>4 DEF Walk
<1>3. CASE ~Good(reply)
  <2>1. phase' = "done"
    BY <1>3 DEF CheckFolder, End
  <2> QED BY <1>1, <2>1 DEF Walk
<1> QED BY <1>2, <1>3

LEMMA ChangeWalk == Types /\ Walk /\ ChangeTree => Walk'
<1> SUFFICES ASSUME Types, Walk, ChangeTree PROVE Walk'
  OBVIOUS
<1>1. /\ phase' = phase /\ call' = call /\ todo' = todo /\ collected' = collected
      /\ unread' = unread /\ steady' \subseteq steady
      /\ ever \subseteq ever' /\ tree'.jobs \subseteq ever'
  BY DEF ChangeTree, Change
<1>2. Owed' \subseteq Owed
  BY <1>1 DEF Owed
<1>3. \A u : OnTheWay(u)' <=> OnTheWay(u)
  BY <1>1 DEF OnTheWay
<1> QED BY <1>1, <1>2, <1>3 DEF Walk

LEMMA WalkStep == Types /\ Walk /\ [Next]_vars => Walk'
<1> SUFFICES ASSUME Types, Walk, [Next]_vars PROVE Walk'
  OBVIOUS
<1>1. CASE UNCHANGED vars
  BY <1>1, WalkAside DEF vars, requestVars
<1>2. CASE Request /\ UNCHANGED <<jobVars, scanVars>>
  BY <1>2, RequestWalk
<1>3. CASE ScanStep /\ UNCHANGED jobVars
  BY <1>3, ScanWalk
<1>4. CASE JobStep
  <2>1. CASE \E t \in todo : Stumble(t)
    BY <2>1 DEF Stumble, End, Walk
  <2>2. CASE ListJobs
    BY <2>2 DEF ListJobs, End, Walk
  <2> QED BY <1>4, <2>1, <2>2, CheckWalk, VisitWalk, ChangeWalk DEF JobStep
<1> QED BY <1>1, <1>2, <1>3, <1>4 DEF Next

-----------------------------------------------------------------------------
(* The listing at the end of the walk.                                     *)

\* Of two jobs that match, the one before a listed one is listed too; if there
\* are no more than the limit, all are.
LEMMA Cut ==
    ASSUME Types, NEW L \in Nat, NEW M \in SUBSET Items, NEW listed,
           listed = {i \in M : Cardinality({k \in M : Alphabet[k] < Alphabet[i]}) < L}
    PROVE  /\ \A i \in listed, j \in M : Alphabet[j] < Alphabet[i] => j \in listed
           /\ ~(Cardinality(M) > L) => M \subseteq listed
<1> DEFINE Before(i) == {k \in M : Alphabet[k] < Alphabet[i]}
<1>1. IsFiniteSet(M)
  BY JobsAssumption, FS_Subset
<1>2. \A i \in M : Before(i) \subseteq M /\ Alphabet[i] \in Nat
  BY JobsAssumption
<1>3. \A i \in M : IsFiniteSet(Before(i)) /\ Cardinality(Before(i)) \in Nat
  BY <1>1, <1>2, FS_Subset, FS_CardinalityType
<1>4. Cardinality(M) \in Nat
  BY <1>1, FS_CardinalityType
<1>5. ASSUME NEW i \in listed, NEW j \in M, Alphabet[j] < Alphabet[i]
      PROVE  j \in listed
  <2>1. i \in M /\ Cardinality(Before(i)) < L
    OBVIOUS
  <2>2. Before(j) \subseteq Before(i)
    BY <1>2, <1>5, <2>1
  <2>3. Cardinality(Before(j)) <= Cardinality(Before(i))
    BY <1>3, <2>1, <2>2, FS_Subset
  <2>4. \A a, b, c \in Nat : a <= b /\ b < c => a < c
    OBVIOUS
  <2>5. Cardinality(Before(j)) < L
    <3>1. Cardinality(Before(j)) \in Nat /\ Cardinality(Before(i)) \in Nat
      BY <1>3, <2>1
    <3> HIDE DEF Before
    <3> QED BY <2>1, <2>3, <2>4, <3>1
  <2> QED BY <2>5
<1>6. ASSUME ~(Cardinality(M) > L), NEW i \in M PROVE i \in listed
  <2>1. Before(i) \subseteq M /\ i \in M /\ i \notin Before(i)
    BY <1>2
  <2>2. Cardinality(Before(i)) <= Cardinality(M)
    BY <1>1, <2>1, FS_Subset
  <2>3. Before(i) # M
    BY <2>1
  <2>4. Cardinality(Before(i)) # Cardinality(M)
    BY <1>1, <2>1, <2>3, FS_Subset
  <2>5. Cardinality(Before(i)) < L
    BY <1>3, <1>4, <1>6, <2>2, <2>4
  <2> QED BY <2>5
<1> QED BY <1>5, <1>6

LEMMA ErrorWords ==
    ASSUME NEW reply, NEW named \in BOOLEAN
    PROVE  operator_http_error(reply, named).message # "fetched"
BY VerdictFields DEF operator_http_error, Denied, NotFound, Failed, Malformed

\* Only the walk ends with a listing.
LEMMA ListedHow ==
    ASSUME Next, Listed'
    PROVE  ListJobs
<1>0. phase' = "done" /\ call'.op = "jobs" /\ outcome'.message = "fetched"
  BY DEF Listed
<1>1. ~Request
  <2>1. /\ Invalid.message # "fetched" /\ NotFound.message # "fetched"
        /\ Verdict("BLOCKED", "credentials").message # "fetched"
        /\ Verdict("none", "traceback").message # "fetched"
    BY DEF Invalid, NotFound, Verdict
  <2>2. ~(\E c \in Calls : Begin(c))
    BY <1>0, <2>1 DEF Begin, End
  <2>3. ~(\E c \in Calls : Controllers(c))
    BY <1>0 DEF Controllers
  <2>4. ~(\E c \in Calls, seen \in {"no files", "no script", "not found", "timed out",
                                    "not started", "failure", "success"} :
               SyntaxCheck(c, seen))
    BY <1>0 DEF SyntaxCheck
  <2>5. ~(\E reply \in Replies, exists \in BOOLEAN : Query(reply, exists))
    BY <1>0 DEF Query
  <2>6. ~Hang
    BY <1>0, <2>1 DEF Hang, End
  <2>7. ~EditCredentials
    BY <1>0 DEF EditCredentials, Change
  <2> QED BY <2>2, <2>3, <2>4, <2>5, <2>6, <2>7 DEF Request
<1>2. ~ScanStep
  <2>1. /\ Invalid.message # "fetched" /\ Failed.message # "fetched"
        /\ \A s : Verdict(s, "scan completed").message # "fetched"
    BY DEF Invalid, Failed, Verdict
  <2>2. ~(\E reply \in Replies, header \in Versions : ReadPlugins(reply, header))
    BY <1>0 DEF ReadPlugins
  <2>3. ~(\E answer \in {"ok", "absent", "failed"} : ReadCentre(answer))
    BY <1>0, <2>1 DEF ReadCentre, End
  <2>4. /\ ~(\E p \in left : Inspect(p)) /\ ~(\E c \in cves : RecallEntry(c)) /\ ~Leave
        /\ ~(\E w \in warnings, answer \in {"ok", "none"} : ReadAdvisory(w, answer))
        /\ ~(\E c \in cves, answer \in {"ok", "none", "busy"} : AskEntry(c, answer))
    BY <1>0 DEF Inspect, RecallEntry, Leave, ReadAdvisory, AskEntry, Due, requestVars
  <2>5. ~(\E c \in cves : Misunderstand(c)) /\ ~Conclude
    BY <1>0, <2>1 DEF Misunderstand, Conclude, End
  <2>6. ~ChangePlugins
    BY <1>0 DEF ChangePlugins, Change
  <2> QED BY <2>2, <2>3, <2>4, <2>5, <2>6 DEF ScanStep
<1>3. JobStep => ListJobs
  <2>1. ~(\E reply \in Replies : CheckFolder(reply))
    <3> SUFFICES ASSUME NEW reply \in Replies, CheckFolder(reply) PROVE FALSE
      OBVIOUS
    <3>1. (call.folder # Root) \in BOOLEAN
      OBVIOUS
    <3>2. operator_http_error(reply, call.folder # Root).message # "fetched"
      BY <3>1, ErrorWords
    <3> QED BY <1>0, <3>2 DEF CheckFolder, End
  <2>2. ~(\E reply \in Replies : \E t \in todo : Visit(t, reply))
    BY <1>0 DEF Visit
  <2>3. Invalid.message # "fetched"
    BY VerdictFields DEF Invalid
  <2>4. ~(\E t \in todo : Stumble(t))
    BY <1>0, <2>3 DEF Stumble, End
  <2>5. ~ChangeTree
    BY <1>0 DEF ChangeTree, Change
  <2> QED BY <2>1, <2>2, <2>4, <2>5 DEF JobStep
<1> QED BY <1>1, <1>2, <1>3 DEF Next

LEMMA ListingMade ==
    ASSUME Types, Walk, ListJobs
    PROVE  ListingFaithful'
<1>1. /\ phase = "walking" /\ todo = {} /\ call' = call /\ ever' = ever /\ steady' = steady
      /\ unread' = unread
      /\ items' = {i \in Matching :
                      Cardinality({k \in Matching : Alphabet[k] < Alphabet[i]}) < call.limit}
      /\ outcome'.status = IF Cardinality(Matching) > call.limit THEN "DEGRADED" ELSE "READY"
  BY VerdictFields DEF ListJobs, End
<1>2. call.limit \in Nat /\ Matching \subseteq Items /\ items' \subseteq Matching
  BY <1>1, CallType DEF Types, RequestTypes, JobTypes, Matching
<1>3. /\ \A i \in items', j \in Matching : Alphabet[j] < Alphabet[i] => j \in items'
      /\ ~(Cardinality(Matching) > call.limit) => Matching \subseteq items'
  BY <1>1, <1>2, Cut
<1>4. Owed' = Owed
  BY <1>1 DEF Owed
<1>5. Owed \subseteq Matching
  BY <1>1 DEF Walk, Owed, Matching
<1>6. items' \subseteq ever' \cap call'.query /\ \A i \in items' : call'.folder \in Above[i]
  BY <1>1, <1>2 DEF Walk, Matching
<1>7. outcome'.status = "READY" => ~(Cardinality(Matching) > call.limit)
  BY <1>1
<1>8. outcome'.status = "READY" => Owed' \subseteq items'
  BY <1>3, <1>4, <1>5, <1>7
<1>9. \A i \in items', j \in Owed' : Alphabet[j] < Alphabet[i] => j \in items'
  BY <1>3, <1>4, <1>5
<1> QED BY <1>6, <1>8, <1>9 DEF ListingFaithful

LEMMA ListingStep == Types /\ Walk /\ ListingFaithful /\ [Next]_vars => ListingFaithful'
<1> SUFFICES ASSUME Types, Walk, ListingFaithful, [Next]_vars PROVE ListingFaithful'
  OBVIOUS
<1>1. CASE UNCHANGED vars
  BY <1>1 DEF vars, requestVars, jobVars, scanVars, ListingFaithful, Listed, Owed
<1>2. CASE Next /\ Listed'
  BY <1>2, ListedHow, ListingMade
<1>3. CASE ~Listed'
  BY <1>3 DEF ListingFaithful
<1> QED BY <1>1, <1>2, <1>3

\* A listing of jobs is faithful, however folders and jobs come and go while
\* the walk is under way (_collect_jobs, operator_jobs).
THEOREM ListingsFaithful == Spec => []ListingFaithful
<1>1. Init => Walk /\ ListingFaithful
  BY DEF Init, JobsInit, Walk, ListingFaithful, Listed
<1> QED BY <1>1, TypesAlways, WalkStep, ListingStep, PTL DEF Spec

-----------------------------------------------------------------------------
(* The scan of the plugins.                                                *)

\* Nothing has been asked yet.
Fresh ==
    /\ current = 0 /\ warnings = {} /\ cves = {}
    /\ statuses = <<>> /\ advised = {} /\ rated = {} /\ ~flawed
    /\ \A u \in Urls : pages[u] = "unasked"
    /\ \A c \in Cves : nvd[c] = "unasked"

\* Where the scan stands: what it has judged, and what it has still to ask for.
Place ==
    /\ left \subseteq Selected
    /\ DOMAIN statuses = {p \in Selected \ left : Applicable(p) # {}}
    /\ \A p \in DOMAIN statuses : statuses[p] = remediation_status(p)
    /\ current # 0 => current \in DOMAIN statuses
    /\ warnings \subseteq Applicable(current)
    /\ warnings # {} => "advisory" \in Asked
    /\ \A c \in cves : "nvd" \in Asked /\ \E w \in Applicable(current) : c \in CvesOf(w)

\* A record comes from a page or an entry that could be had.
Records ==
    /\ \A w \in advised : w.url # 0 /\ pages[w.url] = "ok"
    /\ \A r \in rated : nvd[r.cve] = "ok"

\* Told, or among what is still to be asked for.
Foreseen(p, w) ==
    /\ "advisory" \in Asked => w \in advised \/ (p = current /\ w \in warnings)
    /\ "nvd" \in Asked =>
          \A c \in CvesOf(w) : \/ [plugin |-> p, cve |-> c] \in rated
                               \/ p = current /\ (w \in warnings \/ c \in cves)

Flawless ==
    ~flawed =>
        /\ \A u \in Urls : pages[u] # "none"
        /\ \A c \in Cves : nvd[c] # "none"
        /\ \A p \in DOMAIN statuses : \A w \in Applicable(p) : Foreseen(p, w)

\* Something of w could not be had, and will not be asked for again.
Missing(w) ==
    \/ "advisory" \in Asked /\ (w.url = 0 \/ pages[w.url] = "none")
    \/ "nvd" \in Asked /\ \E c \in CvesOf(w) : nvd[c] = "none"

Blemished == flawed => \E p \in DOMAIN statuses : \E w \in Applicable(p) : Missing(w)

Standing == Place /\ Records /\ Flawless /\ Blemished

Scan ==
    /\ phase \in {"idle", "asking", "updating"} => Fresh
    /\ phase = "updating" => left = Selected
    /\ phase = "scanning" => Standing

LEMMA Unmoved ==
    ASSUME UNCHANGED <<call, centre, installed>>
    PROVE  /\ Asked' = Asked /\ Selected' = Selected
           /\ \A p : Applicable(p)' = Applicable(p)
           /\ \A w : CvesOf(w)' = CvesOf(w)
BY DEF Asked, Selected, Applicable, WarningsOf, CvesOf

LEMMA JudgedAlike ==
    ASSUME UNCHANGED <<centre, installed, core>>
    PROVE  \A p : remediation_status(p)' = remediation_status(p)
BY DEF remediation_status, candidate_vulnerable, CandidateOf, Compatible, WarningsOf

\* Whoever asks the database asks the advisory pages first.
LEMMA AskedFirst == "nvd" \in Asked => "advisory" \in Asked
BY DEF Asked

\* What happens away from the scan leaves it alone.
LEMMA ScanAside ==
    ASSUME Scan, UNCHANGED <<centre, installed, core, scanState>>,
           phase' = "scanning" => phase = "scanning" /\ call' = call,
           phase' = "updating" => phase = "updating" /\ call' = call,
           phase' \in {"idle", "asking"} => phase \in {"idle", "asking"}
    PROVE  Scan'
<1>1. /\ left' = left /\ current' = current /\ warnings' = warnings /\ cves' = cves
      /\ pages' = pages /\ nvd' = nvd /\ flawed' = flawed /\ statuses' = statuses
      /\ advised' = advised /\ rated' = rated
      /\ centre' = centre /\ installed' = installed /\ core' = core
  BY DEF scanState
<1>2. Fresh' = Fresh
  BY <1>1 DEF Fresh
<1>3. CASE phase' = "scanning"
  <2>1. /\ Asked' = Asked /\ Selected' = Selected
        /\ \A p : Applicable(p)' = Applicable(p)
        /\ \A w : CvesOf(w)' = CvesOf(w)
    BY <1>1, <1>3, Unmoved
  <2>2. \A p : remediation_status(p)' = remediation_status(p)
    BY <1>1, JudgedAlike
  <2>3. Standing
    BY <1>3 DEF Scan
  <2>4. Place'
    BY <1>1, <2>1, <2>2, <2>3 DEF Place, Standing
  <2>5. Records'
    BY <1>1, <2>3 DEF Records, Standing
  <2>6. Flawless'
    BY <1>1, <2>1, <2>3 DEF Flawless, Foreseen, Standing
  <2>7. Blemished'
    BY <1>1, <2>1, <2>3 DEF Blemished, Missing, Standing
  <2> QED BY <1>3, <2>4, <2>5, <2>6, <2>7 DEF Scan, Standing
<1>4. CASE phase' = "updating"
  <2>1. Selected' = Selected
    BY <1>1, <1>4, Unmoved
  <2> QED BY <1>1, <1>2, <1>4, <2>1 DEF Scan
<1>5. CASE phase' \notin {"scanning", "updating"}
  BY <1>2, <1>5 DEF Scan
<1> QED BY <1>3, <1>4, <1>5

LEMMA RequestScan == Scan /\ Request /\ UNCHANGED scanVars => Scan'
<1> SUFFICES ASSUME Scan, Request, UNCHANGED scanVars PROVE Scan'
  OBVIOUS
<1>1. /\ phase' = "scanning" => phase = "scanning" /\ call' = call
      /\ phase' = "updating" => phase = "updating" /\ call' = call
      /\ phase' \in {"idle", "asking"} => phase \in {"idle", "asking"}
  BY DEF Request, Begin, Controllers, SyntaxCheck, Query, Hang, EditCredentials, Change, End
<1>2. UNCHANGED <<centre, installed, core, scanState>>
  BY DEF scanVars, scanState
<1> QED BY <1>1, <1>2, ScanAside

LEMMA JobScan == Scan /\ JobStep /\ UNCHANGED scanVars => Scan'
<1> SUFFICES ASSUME Scan, JobStep, UNCHANGED scanVars PROVE Scan'
  OBVIOUS
<1>1. /\ phase' = "scanning" => phase = "scanning" /\ call' = call
      /\ phase' = "updating" => phase = "updating" /\ call' = call
      /\ phase' \in {"idle", "asking"} => phase \in {"idle", "asking"}
  BY DEF JobStep, CheckFolder, Visit, Stumble, ListJobs, ChangeTree, Change, End
<1>2. UNCHANGED <<centre, installed, core, scanState>>
  BY DEF scanVars, scanState
<1> QED BY <1>1, <1>2, ScanAside

\* The scan begins: nothing is judged, everything is left.
LEMMA ReadScan ==
    ASSUME Scan, NEW reply, NEW header, ReadPlugins(reply, header)
    PROVE  Scan'
<1>1. Fresh
  BY DEF ReadPlugins, Scan
<1>2. Fresh'
  BY <1>1 DEF ReadPlugins, Fresh
<1>3. phase' \in {"updating", "done"}
  BY DEF ReadPlugins, End
<1>4. phase' = "updating" => left' = Selected'
  BY DEF ReadPlugins, Selected, End
<1> QED BY <1>2, <1>3, <1>4 DEF Scan

LEMMA CentreScan ==
    ASSUME Scan, NEW answer, ReadCentre(answer)
    PROVE  Scan'
<1>1. Fresh /\ left = Selected
  BY DEF ReadCentre, Scan
<1>2. /\ Fresh' /\ left' = left
      /\ UNCHANGED <<call, centre, installed>>
  BY <1>1 DEF ReadCentre, Fresh
<1>3. Selected' = Selected
  BY <1>2, Unmoved
<1>4. DOMAIN statuses' = {} /\ left' = Selected' /\ ~flawed' /\ advised' = {} /\ rated' = {}
      /\ current' = 0 /\ warnings' = {} /\ cves' = {}
      /\ (\A u \in Urls : pages'[u] # "none") /\ (\A c \in Cves : nvd'[c] # "none")
  BY <1>1, <1>2, <1>3, NoFunction DEF Fresh
<1>5. Standing'
  BY <1>4, Zenon DEF Standing, Place, Records, Flawless, Blemished
<1> QED BY <1>1, <1>2, <1>3, <1>5 DEF Scan

LEMMA InspectScan ==
    ASSUME Types, Scan, NEW p \in left, Inspect(p)
    PROVE  Scan'
<1>1. /\ phase = "scanning" /\ phase' = phase /\ Standing
      /\ left' = left \ {p} /\ current = 0 /\ warnings = {} /\ cves = {} /\ cves' = cves
      /\ pages' = pages /\ nvd' = nvd /\ flawed' = flawed
      /\ advised' = advised /\ rated' = rated
      /\ UNCHANGED <<call, centre, installed, core>>
  BY DEF Inspect, requestVars, Scan, Types, ScanTypes
<1>2. /\ Asked' = Asked /\ Selected' = Selected
      /\ \A q : Applicable(q)' = Applicable(q)
      /\ \A w : CvesOf(w)' = CvesOf(w)
      /\ \A q : remediation_status(q)' = remediation_status(q)
  BY <1>1, Unmoved, JudgedAlike
<1>3. p \in Selected /\ p # 0
  BY <1>1, Nobody DEF Standing, Place, Types, ScanTypes
<1>4. Records'
  BY <1>1 DEF Standing, Records
<1>5. CASE Applicable(p) = {}
  <2>1. current' = current /\ warnings' = warnings /\ statuses' = statuses
    BY <1>5 DEF Inspect
  <2>2. Place'
    BY <1>1, <1>2, <1>5, <2>1 DEF Standing, Place
  <2>3. Flawless' /\ Blemished'
    BY <1>1, <1>2, <2>1 DEF Standing, Flawless, Foreseen, Blemished, Missing
  <2> QED BY <1>1, <1>4, <2>2, <2>3 DEF Scan, Standing
<1>6. CASE Applicable(p) # {}
  <2>1. /\ current' = p
        /\ warnings' = IF "advisory" \in Asked THEN Applicable(p) ELSE {}
        /\ statuses' = [q \in DOMAIN statuses \cup {p} |->
                           IF q = p THEN remediation_status(p) ELSE statuses[q]]
    BY <1>6 DEF Inspect
  <2>2. DOMAIN statuses' = DOMAIN statuses \cup {p}
    BY <2>1
  <2>3. DOMAIN statuses' = {q \in Selected' \ left' : Applicable(q)' # {}}
    BY <1>1, <1>2, <1>3, <1>6, <2>2 DEF Standing, Place
  <2>4. \A q \in DOMAIN statuses' : statuses'[q] = remediation_status(q)'
    BY <1>1, <1>2, <2>1, <2>2 DEF Standing, Place
  <2>5. Place'
    BY <1>1, <1>2, <2>1, <2>2, <2>3, <2>4 DEF Standing, Place
  <2>6. Flawless'
    <3> SUFFICES ASSUME ~flawed', NEW q \in DOMAIN statuses', NEW w \in Applicable(q)'
                 PROVE  Foreseen(q, w)'
      BY <1>1 DEF Standing, Flawless
    <3>1. CASE q = p
      BY <1>2, <2>1, <3>1, AskedFirst DEF Foreseen
    <3>2. CASE q # p
      <4>1. q \in DOMAIN statuses /\ Foreseen(q, w)
        BY <1>1, <1>2, <2>2, <3>2 DEF Standing, Flawless
      <4> QED BY <1>1, <1>2, <4>1 DEF Foreseen
    <3> QED BY <3>1, <3>2
  <2>7. Blemished'
    BY <1>1, <1>2, <2>2 DEF Standing, Blemished, Missing
  <2> QED BY <1>1, <1>4, <2>5, <2>6, <2>7 DEF Scan, Standing
<1> QED BY <1>5, <1>6

LEMMA AdvisoryScan ==
    ASSUME Types, Scan, NEW w \in warnings, NEW answer \in {"ok", "none"},
           ReadAdvisory(w, answer)
    PROVE  Scan'
<1>1. /\ phase = "scanning" /\ phase' = phase /\ Standing
      /\ warnings' = warnings \ {w} /\ left' = left /\ current' = current
      /\ nvd' = nvd /\ statuses' = statuses /\ rated' = rated
      /\ UNCHANGED <<call, centre, installed, core>>
  BY DEF ReadAdvisory, Scan
<1>2. /\ Asked' = Asked /\ Selected' = Selected
      /\ \A q : Applicable(q)' = Applicable(q)
      /\ \A v : CvesOf(v)' = CvesOf(v)
      /\ \A q : remediation_status(q)' = remediation_status(q)
  BY <1>1, Unmoved, JudgedAlike
<1>3. /\ "advisory" \in Asked /\ w \in Applicable(current) /\ current \in DOMAIN statuses
  BY <1>1 DEF Standing, Place, Types, ScanTypes
<1>4. w.url \in Urls \cup {0} /\ 0 \notin Urls
  BY CentreType, Nobody DEF Types, ScanTypes, Warning
<1>5. /\ \A u \in Urls : pages'[u] # pages[u] => u = w.url /\ pages[u] = "unasked"
      /\ w.url # 0 => pages'[w.url] = answer
      /\ w.url = 0 => answer = "none"
  <2>1. CASE w.url = 0
    BY <1>4, <2>1 DEF ReadAdvisory
  <2>2. CASE w.url # 0 /\ pages[w.url] # "unasked"
    BY <2>2 DEF ReadAdvisory
  <2>3. CASE w.url # 0 /\ pages[w.url] = "unasked"
    <3>1. pages' = [pages EXCEPT ![w.url] = answer] /\ w.url \in Urls
      BY <1>4, <2>3 DEF ReadAdvisory
    <3> QED BY <2>3, <3>1 DEF Types, ScanTypes
  <2> QED BY <2>1, <2>2, <2>3
<1>6. \A v \in centre.warnings : v.url \in Urls \cup {0}
  BY CentreType DEF Types, ScanTypes, Warning
<1>7. \A v \in advised : v.url \in Urls /\ pages'[v.url] = "ok"
  BY <1>1, <1>5, <1>6 DEF Standing, Records, Types, ScanTypes
<1>8. CASE answer = "ok"
  <2>1. /\ advised' = advised \cup {w} /\ flawed' = flawed
        /\ cves' = IF "nvd" \in Asked THEN cves \cup CvesOf(w) ELSE cves
    BY <1>8 DEF ReadAdvisory
  <2>2. Place'
    <3>1. \A c \in cves' : "nvd" \in Asked' /\ \E v \in Applicable(current)' : c \in CvesOf(v)'
      BY <1>1, <1>2, <1>3, <2>1 DEF Standing, Place
    <3> QED BY <1>1, <1>2, <3>1 DEF Standing, Place
  <2>3. Records'
    BY <1>1, <1>4, <1>5, <1>7, <1>8, <2>1 DEF Standing, Records
  <2>4. Flawless'
    <3>1. ~flawed => \A u \in Urls : pages'[u] # "none"
      BY <1>1, <1>5, <1>8 DEF Standing, Flawless
    <3>2. ASSUME ~flawed, NEW q \in DOMAIN statuses, NEW v \in Applicable(q)
          PROVE  Foreseen(q, v)'
      <4>1. Foreseen(q, v)
        BY <1>1, <3>2 DEF Standing, Flawless
      <4>2. CASE v = w
        BY <1>1, <1>2, <2>1, <4>1, <4>2 DEF Foreseen
      <4>3. CASE v # w
        BY <1>1, <1>2, <2>1, <4>1, <4>3 DEF Foreseen
      <4> QED BY <4>2, <4>3
    <3> QED BY <1>1, <1>2, <2>1, <3>1, <3>2 DEF Standing, Flawless
  <2>5. Blemished'
    <3> SUFFICES ASSUME flawed PROVE \E q \in DOMAIN statuses : \E v \in Applicable(q) : Missing(v)'
      BY <1>1, <1>2, <2>1 DEF Blemished
    <3>1. PICK q \in DOMAIN statuses : \E v \in Applicable(q) : Missing(v)
      BY <1>1 DEF Standing, Blemished
    <3>2. PICK v \in Applicable(q) : Missing(v)
      BY <3>1
    <3>3. v.url \in Urls \cup {0}
      BY <1>6 DEF Applicable, WarningsOf
    <3>4. Missing(v)'
      BY <1>1, <1>2, <1>5, <3>2, <3>3 DEF Missing
    <3> QED BY <3>4
  <2> QED BY <1>1, <2>2, <2>3, <2>4, <2>5 DEF Scan, Standing
<1>9. CASE answer = "none"
  <2>1. /\ advised' = advised /\ flawed' = TRUE /\ cves' = cves
    BY <1>9 DEF ReadAdvisory
  <2>2. Place'
    BY <1>1, <1>2, <2>1 DEF Standing, Place
  <2>3. Records'
    BY <1>1, <1>4, <1>7, <2>1 DEF Standing, Records
  <2>4. Missing(w)'
    BY <1>2, <1>3, <1>5, <1>9 DEF Missing
  <2>5. Blemished'
    BY <1>1, <1>2, <1>3, <2>4 DEF Blemished
  <2>6. Flawless'
    BY <2>1 DEF Flawless
  <2> QED BY <1>1, <2>2, <2>3, <2>5, <2>6 DEF Scan, Standing
<1> QED BY <1>8, <1>9

LEMMA RecallScan ==
    ASSUME Types, Scan, NEW c \in cves, RecallEntry(c)
    PROVE  Scan'
<1>1. /\ phase = "scanning" /\ phase' = phase /\ Standing
      /\ cves' = cves \ {c} /\ warnings' = warnings /\ left' = left /\ current' = current
      /\ pages' = pages /\ nvd' = nvd /\ flawed' = flawed
      /\ statuses' = statuses /\ advised' = advised
      /\ rated' = IF nvd[c] = "ok" THEN rated \cup {[plugin |-> current, cve |-> c]} ELSE rated
      /\ UNCHANGED <<call, centre, installed, core>>
  BY DEF RecallEntry, Due, requestVars, Scan
<1>2. /\ Asked' = Asked /\ Selected' = Selected
      /\ \A q : Applicable(q)' = Applicable(q)
      /\ \A v : CvesOf(v)' = CvesOf(v)
      /\ \A q : remediation_status(q)' = remediation_status(q)
  BY <1>1, Unmoved, JudgedAlike
<1>3. nvd[c] \in {"ok", "none"} /\ c \in Cves
  BY DEF RecallEntry, Types, ScanTypes
<1>4. Place' /\ Records'
  BY <1>1, <1>2 DEF Standing, Place, Records
<1>5. Flawless'
  <2> SUFFICES ASSUME ~flawed PROVE \A q \in DOMAIN statuses : \A v \in Applicable(q) : Foreseen(q, v)'
    BY <1>1, <1>2 DEF Standing, Flawless
  <2>1. nvd[c] = "ok"
    BY <1>1, <1>3 DEF Standing, Flawless
  <2>2. rated' = rated \cup {[plugin |-> current, cve |-> c]}
    BY <1>1, <2>1
  <2>3. \A q \in DOMAIN statuses : \A v \in Applicable(q) : Foreseen(q, v)
    BY <1>1 DEF Standing, Flawless
  <2> QED BY <1>1, <1>2, <2>2, <2>3 DEF Foreseen
<1>6. Blemished'
  BY <1>1, <1>2 DEF Standing, Blemished, Missing
<1> QED BY <1>1, <1>4, <1>5, <1>6 DEF Scan, Standing

LEMMA AskScan ==
    ASSUME Types, Scan, NEW c \in cves, NEW answer, AskEntry(c, answer)
    PROVE  Scan'
<1>1. /\ phase = "scanning" /\ phase' = phase /\ Standing
      /\ cves' = cves /\ warnings' = warnings /\ left' = left /\ current' = current
      /\ pages' = pages /\ statuses' = statuses /\ advised' = advised /\ rated' = rated
      /\ UNCHANGED <<call, centre, installed, core>>
  BY DEF AskEntry, Due, Scan
<1>2. /\ Asked' = Asked /\ Selected' = Selected
      /\ \A q : Applicable(q)' = Applicable(q)
      /\ \A v : CvesOf(v)' = CvesOf(v)
      /\ \A q : remediation_status(q)' = remediation_status(q)
  BY <1>1, Unmoved, JudgedAlike
<1>3. nvd[c] = "unasked" /\ c \in Cves /\ nvd \in [Cves -> {"unasked", "ok", "none"}]
  BY DEF AskEntry, Types, ScanTypes
<1>4. \A d \in Cves : nvd[d] # "unasked" => nvd'[d] = nvd[d]
  BY <1>3 DEF AskEntry
<1>5. Place'
  BY <1>1, <1>2 DEF Standing, Place
<1>6. Records'
  <2>1. \A r \in rated : r.cve \in Cves /\ nvd[r.cve] = "ok"
    BY <1>1 DEF Standing, Records, Types, ScanTypes
  <2> QED BY <1>1, <1>4, <2>1 DEF Standing, Records
<1>7. \/ flawed' = flawed /\ \A d \in Cves : nvd[d] # "none" => nvd'[d] # "none"
      \/ flawed' = TRUE /\ nvd'[c] = "none"
  BY <1>3 DEF AskEntry, Types, ScanTypes
<1>8. \A q, v : Foreseen(q, v)' <=> Foreseen(q, v)
  BY <1>1, <1>2 DEF Foreseen
<1>9. Flawless'
  BY <1>1, <1>2, <1>7, <1>8 DEF Standing, Flawless
<1>10. \A v \in centre.warnings : Missing(v) => Missing(v)'
  <2>1. \A v \in centre.warnings : CvesOf(v) \subseteq Cves
    BY CvesType DEF Types
  <2> QED BY <1>1, <1>2, <1>4, <2>1 DEF Missing
<1>11. Blemished'
  <2>1. CASE flawed' = flawed
    BY <1>1, <1>2, <1>10, <2>1 DEF Standing, Blemished, Applicable, WarningsOf
  <2>2. CASE nvd'[c] = "none"
    <3>1. PICK w \in Applicable(current) : c \in CvesOf(w) /\ "nvd" \in Asked
      BY <1>1 DEF Standing, Place
    <3>2. Missing(w)'
      BY <1>2, <2>2, <3>1 DEF Missing
    <3>3. current # 0
      BY DEF Types, ScanTypes
    <3>4. current \in DOMAIN statuses
      BY <1>1, <3>3 DEF Standing, Place
    <3> QED BY <1>1, <1>2, <3>1, <3>2, <3>4 DEF Blemished
  <2> QED BY <1>7, <2>1, <2>2
<1> QED BY <1>1, <1>5, <1>6, <1>9, <1>11 DEF Scan, Standing

LEMMA LeaveScan == Types /\ Scan /\ Leave => Scan'
<1> SUFFICES ASSUME Types, Scan, Leave PROVE Scan'
  OBVIOUS
<1>1. /\ phase = "scanning" /\ phase' = phase /\ Standing
      /\ warnings = {} /\ cves = {} /\ warnings' = {} /\ cves' = {} /\ current' = 0
      /\ left' = left /\ pages' = pages /\ nvd' = nvd /\ flawed' = flawed
      /\ statuses' = statuses /\ advised' = advised /\ rated' = rated
      /\ UNCHANGED <<call, centre, installed, core>>
  BY DEF Leave, NothingPending, requestVars, Scan
<1>2. /\ Asked' = Asked /\ Selected' = Selected
      /\ \A q : Applicable(q)' = Applicable(q)
      /\ \A v : CvesOf(v)' = CvesOf(v)
      /\ \A q : remediation_status(q)' = remediation_status(q)
  BY <1>1, Unmoved, JudgedAlike
<1>3. Place' /\ Records'
  BY <1>1, <1>2 DEF Standing, Place, Records
<1>4. \A q, v : Foreseen(q, v) => Foreseen(q, v)'
  BY <1>1, <1>2 DEF Foreseen
<1>5. Flawless' /\ Blemished'
  BY <1>1, <1>2, <1>4 DEF Standing, Flawless, Blemished, Missing
<1> QED BY <1>1, <1>3, <1>5 DEF Scan, Standing

LEMMA ScanStepScan == Types /\ Scan /\ ScanStep => Scan'
<1> SUFFICES ASSUME Types, Scan, ScanStep PROVE Scan'
  OBVIOUS
<1>1. CASE \E c \in cves : Misunderstand(c)
  BY <1>1 DEF Misunderstand, End, Scan
<1>2. CASE Conclude
  BY <1>2 DEF Conclude, End, Scan
<1>3. CASE ChangePlugins
  BY <1>3, ScanAside DEF ChangePlugins, Change
<1> QED
  BY <1>1, <1>2, <1>3, ReadScan, CentreScan, InspectScan, AdvisoryScan, RecallScan, AskScan,
     LeaveScan DEF ScanStep

LEMMA ScanInvariant == Types /\ Scan /\ [Next]_vars => Scan'
<1> SUFFICES ASSUME Types, Scan, [Next]_vars PROVE Scan'
  OBVIOUS
<1>1. CASE UNCHANGED vars
  BY <1>1, ScanAside DEF vars, requestVars, scanVars, scanState
<1> QED BY <1>1, RequestScan, JobScan, ScanStepScan DEF Next

-----------------------------------------------------------------------------
(* The end of the scan.                                                    *)

\* Only Conclude completes a scan.
LEMMA ScannedHow ==
    ASSUME Types, Next, Scanned'
    PROVE  Conclude /\ UNCHANGED jobVars
<1>0. phase' = "done" /\ outcome'.message = "scan completed"
  BY DEF Scanned
<1>1. ASSUME NEW reply, NEW named \in BOOLEAN
      PROVE  operator_http_error(reply, named).message # "scan completed"
  BY DEF operator_http_error, Denied, NotFound, Failed, Malformed, Verdict
<1>2. /\ Invalid.message # "scan completed" /\ NotFound.message # "scan completed"
      /\ Failed.message # "scan completed" /\ Ready.message # "scan completed"
      /\ Warned.message # "scan completed"
      /\ \A s, m : m # "scan completed" => Verdict(s, m).message # "scan completed"
  BY DEF Invalid, NotFound, Failed, Ready, Warned, Verdict
<1>3. ~Request
  <2>1. ~(\E c \in Calls : Begin(c))
    BY <1>0, <1>2 DEF Begin, End
  <2>2. ~(\E c \in Calls : Controllers(c))
    BY <1>0, <1>2 DEF Controllers, End
  <2>3. ~(\E c \in Calls, seen \in {"no files", "no script", "not found", "timed out",
                                    "not started", "failure", "success"} :
               SyntaxCheck(c, seen))
    BY <1>0, <1>2 DEF SyntaxCheck, ScriptVerdict, End
  <2>4. ASSUME NEW reply \in Replies, NEW op \in Inline \cup Shared,
               op \notin {"jobs", "vulnerabilities"}
        PROVE  verdict(op, reply).message # "scan completed"
    <3>1. /\ operator_http_error(reply, TRUE).message # "scan completed"
          /\ operator_http_error(reply, FALSE).message # "scan completed"
      BY <1>1
    <3>2. /\ inline_error(reply, TRUE).message # "scan completed"
          /\ inline_error(reply, FALSE).message # "scan completed"
      BY DEF inline_error, Denied, NotFound, Failed, Malformed, Verdict
    <3>3. (op = "view") \in BOOLEAN
      OBVIOUS
    <3> QED
      BY <1>2, <2>4, <3>1, <3>2, <3>3
      DEF verdict, Inline, Shared, operator_health, operator_job, operator_seed,
          operator_plugins, operator_credentials, operator_nodes, operator_whoami,
          operator_credential_domains, operator_queue, operator_artifacts, operator_views
  <2>5. ~(\E reply \in Replies, exists \in BOOLEAN : Query(reply, exists))
    BY <1>0, <2>4 DEF Query, End, Types, RequestTypes
  <2>6. ~Hang /\ ~EditCredentials
    BY <1>0, <1>2 DEF Hang, EditCredentials, Change, End
  <2> QED BY <2>1, <2>2, <2>3, <2>5, <2>6 DEF Request
<1>4. ~JobStep
  <2>1. ~(\E reply \in Replies : CheckFolder(reply))
    <3> SUFFICES ASSUME NEW reply \in Replies, CheckFolder(reply) PROVE FALSE
      OBVIOUS
    <3>1. (call.folder # Root) \in BOOLEAN
      OBVIOUS
    <3>2. operator_http_error(reply, call.folder # Root).message # "scan completed"
      BY <1>1, <3>1
    <3> QED BY <1>0, <3>2 DEF CheckFolder, End
  <2>2. ~(\E reply \in Replies : \E t \in todo : Visit(t, reply))
    BY <1>0 DEF Visit
  <2>3. ~(\E t \in todo : Stumble(t)) /\ ~ListJobs /\ ~ChangeTree
    BY <1>0, <1>2 DEF Stumble, ListJobs, ChangeTree, Change, End
  <2> QED BY <2>1, <2>2, <2>3 DEF JobStep
<1>5. ScanStep => Conclude
  <2>1. ~(\E reply \in Replies, header \in Versions : ReadPlugins(reply, header))
    BY <1>0, <1>1, <1>2 DEF ReadPlugins, End
  <2>2. ~(\E answer \in {"ok", "absent", "failed"} : ReadCentre(answer))
    BY <1>0, <1>2 DEF ReadCentre, End
  <2>3. /\ ~(\E p \in left : Inspect(p)) /\ ~(\E c \in cves : RecallEntry(c)) /\ ~Leave
        /\ ~(\E w \in warnings, answer \in {"ok", "none"} : ReadAdvisory(w, answer))
        /\ ~(\E c \in cves, answer \in {"ok", "none", "busy"} : AskEntry(c, answer))
    BY <1>0 DEF Inspect, RecallEntry, Leave, ReadAdvisory, AskEntry, Due, requestVars
  <2>4. ~(\E c \in cves : Misunderstand(c)) /\ ~ChangePlugins
    BY <1>0, <1>2 DEF Misunderstand, ChangePlugins, Change, End
  <2> QED BY <2>1, <2>2, <2>3, <2>4 DEF ScanStep
<1> QED BY <1>3, <1>4, <1>5 DEF Next

\* Told what there is to tell, except for what could not be had.
LEMMA Completed ==
    ASSUME Types, Scan, Conclude
    PROVE  ScanComplete'
<1>1. /\ Standing /\ left = {} /\ current = 0 /\ warnings = {} /\ cves = {}
      /\ UNCHANGED <<call, centre, installed, statuses, advised, rated>>
      /\ outcome'.status = IF flawed THEN "DEGRADED" ELSE "READY"
  BY VerdictFields DEF Conclude, scanVars, End, Scan, Types, ScanTypes
<1>2. /\ Asked' = Asked /\ Selected' = Selected
      /\ \A q : Applicable(q)' = Applicable(q)
      /\ \A v : CvesOf(v)' = CvesOf(v)
  BY <1>1, Unmoved
<1>3. \A q, v : Told(q, v)' <=> Told(q, v)
  BY <1>1, <1>2 DEF Told
<1>4. DOMAIN statuses = {p \in Selected : Applicable(p) # {}}
  BY <1>1 DEF Standing, Place
<1>5. ~flawed => \A p \in DOMAIN statuses : \A w \in Applicable(p) : Told(p, w)
  BY <1>1 DEF Standing, Flawless, Foreseen, Told
<1>6. ASSUME flawed PROVE \E p \in DOMAIN statuses : \E w \in Applicable(p) : ~Told(p, w)
  <2>1. PICK p \in DOMAIN statuses : \E w \in Applicable(p) : Missing(w)
    BY <1>1, <1>6 DEF Standing, Blemished
  <2>2. PICK w \in Applicable(p) : Missing(w)
    BY <2>1
  <2>3. CASE "advisory" \in Asked /\ (w.url = 0 \/ pages[w.url] = "none")
    <3>1. w \notin advised
      BY <1>1, <2>3 DEF Standing, Records
    <3> QED BY <2>3, <3>1 DEF Told
  <2>4. CASE "nvd" \in Asked /\ \E c \in CvesOf(w) : nvd[c] = "none"
    <3>1. PICK c \in CvesOf(w) : nvd[c] = "none"
      BY <2>4
    <3>2. [plugin |-> p, cve |-> c] \notin rated
      BY <1>1, <3>1 DEF Standing, Records
    <3> QED BY <2>4, <3>2 DEF Told
  <2> QED BY <2>2, <2>3, <2>4 DEF Missing
<1>7. (outcome'.status = "READY") <=> ~flawed
  BY <1>1
<1>8. DOMAIN statuses' = {p \in Selected' : Applicable(p)' # {}}
  BY <1>1, <1>2, <1>4
<1>9. (outcome'.status = "READY") <=>
          \A p \in DOMAIN statuses' : \A w \in Applicable(p)' : Told(p, w)'
  BY <1>1, <1>2, <1>3, <1>5, <1>6, <1>7
<1> QED BY <1>8, <1>9 DEF ScanComplete

LEMMA CompareType == \A u, v : compare_versions(u, v) \in {-1, 0, 1}
<1>1. \A t : compare_missing(t) \in {-1, 0, 1}
  BY DEF compare_missing
<1>2. \A n : Sign(n) \in {-1, 0, 1}
  BY DEF Sign
<1>3. \A u, v, i : CompareAt(u, v, i) \in {-1, 0, 1}
  BY <1>1, <1>2 DEF CompareAt
<1> QED BY <1>3 DEF compare_versions

\* What is newer than something that is new enough is new enough, unless the
\* three are confused.
LEMMA NewerStill ==
    ASSUME NEW u \in Versions, NEW v \in Versions, NEW w \in Versions,
           compare_versions(u, v) > 0, version_at_least(v, w), ~Confused(u, v, w)
    PROVE  version_at_least(u, w)
<1>1. version_at_least(u, v)
  BY CompareType DEF version_at_least
<1>2. \A x \in {u, v, w} : x \in Version /\ Counted(x)
  BY VersionsAssumption DEF Version
<1> QED BY <1>1, <1>2, ComparisonIsTransitive

LEMMA CandidateType ==
    ASSUME Types, NEW p \in DOMAIN centre.candidates
    PROVE  /\ CandidateOf(p).version \in Versions
           /\ \A need \in CandidateOf(p).needs : need.version \in Versions
<1>1. centre.candidates[p] \in Candidate
  BY CentreType DEF Types, ScanTypes
<1> QED BY <1>1 DEF CandidateOf, Candidate

LEMMA Holding ==
    ASSUME Types, Scan, Conclude
    PROVE  UpgradesHoldTogether'
<1>1. /\ Standing
      /\ UNCHANGED <<centre, installed, core, statuses>>
  BY DEF Conclude, scanVars, Scan
<1>2. /\ Remediable' = Remediable
      /\ \A p : WarningsOf(p)' = WarningsOf(p) /\ Upgraded(p)' = Upgraded(p)
                /\ CandidateOf(p)' = CandidateOf(p)
  BY <1>1 DEF Remediable, WarningsOf, Upgraded, CandidateOf
<1>3. ASSUME NEW p \in Remediable
      PROVE  /\ remediation_status(p) = "REMEDIABLE"
             /\ Upgraded(p) = CandidateOf(p).version
  BY <1>1, <1>3 DEF Remediable, Standing, Place, Upgraded
<1>4. ASSUME NEW p \in Remediable
      PROVE  /\ ~candidate_vulnerable(p)
             /\ CandidateOf(p).core # <<>> => version_at_least(core, CandidateOf(p).core)
             /\ \A need \in CandidateOf(p).needs : Compatible(need)
  BY <1>3, <1>4 DEF remediation_status
<1>5. ASSUME NEW p \in Remediable
      PROVE  /\ p \in DOMAIN centre.candidates
             /\ compare_versions(CandidateOf(p).version, installed[p]) > 0
             /\ \A w \in WarningsOf(p) : ~warning_matches(w, CandidateOf(p).version)
  BY <1>4, <1>5 DEF candidate_vulnerable
<1>6. ASSUME NEW p \in Remediable, NEW need \in CandidateOf(p).needs,
             need.version # <<>>,
             ~Confused(Upgraded(need.name), installed[need.name], need.version)
      PROVE  version_at_least(Upgraded(need.name), need.version)
  <2>1. need.name \in DOMAIN installed
        /\ version_at_least(installed[need.name], need.version)
    BY <1>4, <1>6 DEF Compatible
  <2>2. need.version \in Versions /\ installed[need.name] \in Versions
    BY <1>5, <2>1, CandidateType, InstallType DEF Types, ScanTypes
  <2>3. CASE need.name \in Remediable
    <3>1. CandidateOf(need.name).version \in Versions
      BY <1>5, <2>3, CandidateType
    <3> QED BY <1>3, <1>5, <1>6, <2>1, <2>2, <2>3, <3>1, NewerStill
  <2>4. CASE need.name \notin Remediable
    BY <2>1, <2>4 DEF Upgraded
  <2> QED BY <2>3, <2>4
<1>7. ASSUME NEW p \in Remediable
      PROVE  /\ \A w \in WarningsOf(p) : ~warning_matches(w, Upgraded(p))
             /\ CandidateOf(p).core # <<>> => version_at_least(core, CandidateOf(p).core)
             /\ \A need \in CandidateOf(p).needs :
                   /\ need.name \in DOMAIN installed
                   /\ need.version # <<>> =>
                         \/ version_at_least(Upgraded(need.name), need.version)
                         \/ Confused(Upgraded(need.name), installed[need.name], need.version)
  BY <1>3, <1>4, <1>5, <1>6 DEF Compatible
<1> QED BY <1>1, <1>2, <1>7 DEF UpgradesHoldTogether

LEMMA EndOfScan ==
    Types /\ Scan /\ ScanComplete /\ UpgradesHoldTogether /\ [Next]_vars
        => ScanComplete' /\ UpgradesHoldTogether'
<1> SUFFICES ASSUME Types, Scan, ScanComplete, UpgradesHoldTogether, [Next]_vars
             PROVE  ScanComplete' /\ UpgradesHoldTogether'
  OBVIOUS
<1>1. CASE UNCHANGED vars
  <2>1. /\ Scanned' = Scanned
        /\ UNCHANGED <<call, centre, installed, core, statuses, advised, rated, outcome>>
    BY <1>1 DEF vars, requestVars, scanVars, Scanned
  <2>2. /\ Asked' = Asked /\ Selected' = Selected
        /\ \A q : Applicable(q)' = Applicable(q)
        /\ \A v : CvesOf(v)' = CvesOf(v)
    BY <2>1, Unmoved
  <2>3. ScanComplete'
    BY <2>1, <2>2 DEF ScanComplete, Told
  <2>4. UpgradesHoldTogether'
    BY <2>1 DEF UpgradesHoldTogether, Remediable, WarningsOf, Upgraded, CandidateOf
  <2> QED BY <2>3, <2>4
<1>2. CASE Next /\ Scanned'
  BY <1>2, ScannedHow, Completed, Holding
<1>3. CASE ~Scanned'
  BY <1>3 DEF ScanComplete, UpgradesHoldTogether
<1> QED BY <1>1, <1>2, <1>3

\* A scan is complete, or says that it is not
\* (_collect_plugin_vulnerabilities with its caches).
THEOREM ScansComplete == Spec => []ScanComplete
<1>1. Init => Scan /\ ScanComplete /\ UpgradesHoldTogether
  BY DEF Init, ScanInit, Scan, Fresh, ScanComplete, UpgradesHoldTogether, Scanned, Verdict
<1> QED BY <1>1, TypesAlways, ScanInvariant, EndOfScan, PTL DEF Spec

\* The upgrades a scan recommends hold together, if versions do not compare
\* in a circle (_remediation_status).
THEOREM UpgradesHold == Spec => []UpgradesHoldTogether
<1>1. Init => Scan /\ ScanComplete /\ UpgradesHoldTogether
  BY DEF Init, ScanInit, Scan, Fresh, ScanComplete, UpgradesHoldTogether, Scanned, Verdict
<1> QED BY <1>1, TypesAlways, ScanInvariant, EndOfScan, PTL DEF Spec
-----------------------------------------------------------------------------
(* The order of the work.                                                  *)

\* Of the folders to visit one is the deepest: depths are bounded.
LEMMA SomeFolderUpcoming ==
    ASSUME JobTypes, todo # {}
    PROVE  \E t \in todo : Upcoming(t)
<1> DEFINE Heights == {MaxDepth - t.depth : t \in todo}
<1>1. \A t \in todo : t.depth \in 0..MaxDepth
  BY DEF JobTypes
<1>2. Heights \in SUBSET Nat /\ Heights # {}
  BY <1>1, Bounds
<1>3. PICK n \in Heights : \A m \in Heights : n <= m
  BY <1>2, Least
<1>4. PICK t \in todo : n = MaxDepth - t.depth
  BY <1>3
<1>5. ASSUME NEW u \in todo PROVE u.depth <= t.depth
  <2>1. n <= MaxDepth - u.depth
    BY <1>3
  <2> QED BY <2>1, <1>1, <1>4, Bounds
<1> QED BY <1>4, <1>5 DEF Upcoming

\* Every command at work has something it can do.
THEOREM WorkAlwaysDue == Spec => []WorkIsDue
<1>1. Types => WorkIsDue
  <2> SUFFICES ASSUME Types PROVE WorkIsDue
    OBVIOUS
  <2>1. left \in SUBSET Nat /\ cves \in SUBSET Nat
    BY ScanAssumption DEF Types, ScanTypes
  <2>2. left # {} => \E p \in left : \A q \in left : p <= q
    BY <2>1, Least
  <2>3. phase = "scanning" /\ warnings = {} /\ cves # {} => \E c \in cves : Due(c)
    BY <2>1, Least DEF Due
  <2>4. phase = "walking" => todo = {} \/ \E t \in todo : Upcoming(t)
    BY SomeFolderUpcoming DEF Types
  <2> QED BY <2>2, <2>3, <2>4 DEF WorkIsDue, NothingPending
<1> QED BY <1>1, TypesAlways, PTL

\* What a step of a command does to its phase and to what is to be done.
Kept == /\ \A u \in Urls : pages[u] # "unasked" => pages'[u] = pages[u]
        /\ \A c \in Cves : nvd[c] # "unasked" => nvd'[c] = nvd[c]
GoesOn == /\ phase' = phase
          /\ \/ phase = "walking" /\ WalkGoesOn
             \/ phase = "updating" /\ ~fallback /\ fallback'
             \/ phase = "scanning" /\ ScanGoesOn
Advance == Kept /\ (UNCHANGED <<phase, todo, scanState>> \/ phase' \in Later[phase] \/ GoesOn)

LEMMA LaterPhases ==
    /\ Later["idle"] = {"asking", "done"}
    /\ Later["asking"] = {"walking", "updating", "done"}
    /\ Later["walking"] = {"done"}
    /\ Later["updating"] = {"scanning", "done"}
    /\ Later["scanning"] = {"done"}
BY DEF Later

LEMMA RequestAdvances == Request /\ UNCHANGED <<jobVars, scanVars>> => Advance
<1> SUFFICES ASSUME Request, UNCHANGED <<jobVars, scanVars>> PROVE Advance
  OBVIOUS
<1>1. Kept
  BY DEF Kept, scanVars
<1>2. ASSUME NEW c \in Calls, Begin(c) \/ Controllers(c)
      PROVE  phase' \in Later[phase]
  BY <1>2, LaterPhases DEF Begin, Controllers, End
<1>3. ASSUME NEW c \in Calls, NEW seen, SyntaxCheck(c, seen)
      PROVE  phase' \in Later[phase]
  BY <1>3, LaterPhases DEF SyntaxCheck, End
<1>4. ASSUME NEW reply \in Replies, NEW exists \in BOOLEAN, Query(reply, exists)
      PROVE  phase' \in Later[phase]
  BY <1>4, LaterPhases DEF Query, End
<1>5. ASSUME RequestOut, Hang
      PROVE  phase' \in Later[phase]
  BY <1>5, LaterPhases DEF RequestOut, Due, Hang, End
<1>6. ASSUME EditCredentials
      PROVE  UNCHANGED <<phase, todo, scanState>>
  BY <1>6 DEF EditCredentials, Change, jobVars, scanVars, scanState
<1> QED BY <1>1, <1>2, <1>3, <1>4, <1>5, <1>6 DEF Request, Advance

LEMMA JobAdvances == Types /\ JobStep /\ UNCHANGED scanVars => Advance
<1> SUFFICES ASSUME Types, JobStep, UNCHANGED scanVars PROVE Advance
  OBVIOUS
<1>1. Kept
  BY DEF Kept, scanVars
<1>2. ASSUME NEW reply \in Replies, CheckFolder(reply)
      PROVE  phase' \in Later[phase]
  BY <1>2, LaterPhases DEF CheckFolder, End
<1>3. ASSUME NEW t \in todo, NEW reply \in Replies, Visit(t, reply)
      PROVE  GoesOn
  <2>1. t.depth \in Nat
    BY DEF Types, JobTypes
  <2>2. \A u \in FoldersBelow(t) : u.depth > t.depth
    BY <2>1 DEF FoldersBelow
  <2>3. t \notin FoldersBelow(t)
    BY <2>1, <2>2
  <2>4. \/ todo' = (todo \ {t}) \cup FoldersBelow(t)
        \/ todo' = todo \ {t}
    BY <1>3 DEF Visit
  <2>5. WalkGoesOn
    BY <2>2, <2>3, <2>4 DEF WalkGoesOn
  <2> QED BY <1>3, <2>5 DEF Visit, GoesOn
<1>4. ASSUME NEW t \in todo, Stumble(t)
      PROVE  phase' \in Later[phase]
  BY <1>4, LaterPhases DEF Stumble, End
<1>5. ASSUME ListJobs
      PROVE  phase' \in Later[phase]
  BY <1>5, LaterPhases DEF ListJobs, End
<1>6. ASSUME ChangeTree
      PROVE  UNCHANGED <<phase, todo, scanState>>
  BY <1>6 DEF ChangeTree, Change, scanVars, scanState
<1> QED BY <1>1, <1>2, <1>3, <1>4, <1>5, <1>6 DEF JobStep, Advance

LEMMA ScanAdvances == Types /\ ScanStep /\ UNCHANGED jobVars => Advance
<1> SUFFICES ASSUME Types, ScanStep, UNCHANGED jobVars PROVE Advance
  OBVIOUS
<1> DEFINE Still == UNCHANGED <<pages, nvd>>
<1>0. Still => Kept
  BY DEF Kept
<1>a. /\ pages \in [Urls -> {"unasked", "ok", "none"}]
      /\ nvd \in [Cves -> {"unasked", "ok", "none"}]
  BY DEF Types, ScanTypes
<1>1. ASSUME NEW reply \in Replies, NEW header \in Versions, ReadPlugins(reply, header)
      PROVE  Still /\ phase' \in Later[phase]
  BY <1>1, LaterPhases DEF ReadPlugins, End
<1>2. ASSUME NEW answer \in {"ok", "absent", "failed"}, ReadCentre(answer)
      PROVE  Still /\ (phase' \in Later[phase] \/ GoesOn)
  BY <1>2, LaterPhases DEF ReadCentre, End, GoesOn
<1>3. ASSUME NEW p \in left, Inspect(p)
      PROVE  Still /\ GoesOn
  BY <1>3 DEF Inspect, requestVars, GoesOn, ScanGoesOn
<1>4. ASSUME NEW w \in warnings, NEW answer \in {"ok", "none"}, ReadAdvisory(w, answer)
      PROVE  Kept /\ GoesOn
  <2>1. GoesOn
    BY <1>4 DEF ReadAdvisory, GoesOn, ScanGoesOn
  <2>2. nvd' = nvd /\ (pages' = pages \/ (/\ pages[w.url] = "unasked"
                                         /\ pages' = [pages EXCEPT ![w.url] = answer]))
    BY <1>4 DEF ReadAdvisory
  <2> QED BY <2>1, <2>2, <1>a DEF Kept
<1>5. ASSUME NEW c \in cves, RecallEntry(c)
      PROVE  Still /\ GoesOn
  BY <1>5 DEF RecallEntry, requestVars, Due, GoesOn, ScanGoesOn
<1>6. ASSUME NEW c \in cves, Misunderstand(c)
      PROVE  Still /\ phase' \in Later[phase]
  BY <1>6, LaterPhases DEF Misunderstand, Due, End, scanVars
<1>7. ASSUME NEW c \in cves, NEW answer \in {"ok", "none", "busy"}, AskEntry(c, answer)
      PROVE  Kept /\ GoesOn
  <2>1. /\ phase = "scanning" /\ UNCHANGED <<phase, pages, left, warnings, cves>>
        /\ nvd[c] = "unasked"
        /\ \/ tries' = tries + 1 /\ nvd' = nvd
           \/ nvd' = [nvd EXCEPT ![c] = IF answer = "ok" THEN "ok" ELSE "none"]
    BY <1>7 DEF AskEntry, Due
  <2>2. c \in Cves
    BY DEF Types, ScanTypes
  <2>3. nvd'[c] # "unasked" \/ tries' = tries + 1
    BY <2>1, <2>2, <1>a
  <2>4. Kept
    BY <2>1, <1>a DEF Kept
  <2> QED BY <2>1, <2>3, <2>4 DEF GoesOn, ScanGoesOn
<1>8. ASSUME Leave
      PROVE  Still /\ GoesOn
  BY <1>8 DEF Leave, requestVars, GoesOn, ScanGoesOn
<1>9. ASSUME Conclude
      PROVE  Still /\ phase' \in Later[phase]
  BY <1>9, LaterPhases DEF Conclude, End, scanVars
<1>10. ASSUME ChangePlugins
       PROVE  Still /\ UNCHANGED <<phase, todo, scanState>>
  BY <1>10 DEF ChangePlugins, Change, jobVars, scanState
<1> HIDE DEF Still
<1> QED BY <1>0, <1>1, <1>2, <1>3, <1>4, <1>5, <1>6, <1>7, <1>8, <1>9, <1>10
        DEF ScanStep, Advance

\* Every step of a command brings it nearer to its end, and no page or entry
\* is asked for again.
THEOREM CommandAdvances == Spec => OperatorAdvances
<1>1. Types /\ [Next]_vars => Advance
  <2> SUFFICES ASSUME Types, [Next]_vars PROVE Advance
    OBVIOUS
  <2>1. CASE UNCHANGED vars
    BY <2>1 DEF vars, requestVars, jobVars, scanVars, scanState, Advance, Kept
  <2> QED BY <2>1, RequestAdvances, JobAdvances, ScanAdvances DEF Next
<1>2. [][Advance]_vars => OperatorAdvances
  <2>1. Advance <=>
          /\ \A u \in Urls : pages[u] # "unasked" => pages'[u] = pages[u]
          /\ \A c \in Cves : nvd[c] # "unasked" => nvd'[c] = nvd[c]
          /\ \/ UNCHANGED <<phase, todo, scanState>>
             \/ phase' \in Later[phase]
             \/ /\ phase' = phase
                /\ \/ phase = "walking" /\ WalkGoesOn
                   \/ phase = "updating" /\ ~fallback /\ fallback'
                   \/ phase = "scanning" /\ ScanGoesOn
    BY DEF Advance, Kept, GoesOn
  <2> QED BY <2>1, PTL DEF OperatorAdvances
<1> QED BY <1>1, <1>2, TypesAlways, PTL DEF Spec
=============================================================================
