---------------------------- MODULE JenkinsOperator ----------------------------
(***************************************************************************)
(* One read-only `jenkins' command, of any operation, on one controller,   *)
(* while jenkins.properties is edited, jobs and folders come and go and    *)
(* plugins are upgraded.                                                   *)
(***************************************************************************)
EXTENDS JenkinsJobs, PluginScan

CONSTANT Calls    \* the commands somebody may give

vars == <<requestVars, jobVars, scanVars>>

NoCall == [op |-> "none", bad |-> "no", folder |-> Root, query |-> Items,
           limit |-> 1, wanted |-> {}, enrich |-> {}]

ASSUME OperatorAssumption ==
    /\ MaxFaults \in Nat /\ MaxChanges \in Nat
    /\ \A c \in Calls :
          /\ c.op \in Inline \cup Shared \cup {"controllers", "syntax-check"}
          /\ c.bad \in {"no", "controller", "argument"}
          /\ c.folder \in (Items \cup {Root}) \ Odd /\ c.query \subseteq Items
          /\ c.limit \in Nat \ {0}
          /\ c.wanted \subseteq Plugins /\ c.enrich \subseteq {"advisory", "nvd"}

Init ==
    /\ creds \in {"none", "partial", "complete"}
    /\ phase = "idle" /\ call = NoCall
    /\ outcome = Verdict("none", "none")
    /\ met = {} /\ faults = 0 /\ changes = 0
    /\ JobsInit /\ ScanInit

\* Somebody waits for an answer.
RequestOut ==
    \/ phase = "asking" /\ creds = "complete"
    \/ /\ phase = "walking" /\ creds = "complete"
       /\ \E t \in todo : Upcoming(t) /\ t.folder \notin Odd
    \/ phase = "updating"
    \/ phase = "scanning" /\ \E w \in warnings : w.url # 0 /\ pages[w.url] = "unasked"
    \/ \E c \in cves : Due(c) /\ nvd[c] = "unasked"

Request ==
    \/ \E c \in Calls : Begin(c) \/ Controllers(c)
    \/ \E c \in Calls, seen \in {"no files", "no script", "not found", "timed out",
                                 "not started", "failure", "success"} : SyntaxCheck(c, seen)
    \/ \E reply \in Replies, exists \in BOOLEAN : Query(reply, exists)
    \/ RequestOut /\ Hang
    \/ EditCredentials

JobStep ==
    \/ \E reply \in Replies : CheckFolder(reply) \/ \E t \in todo : Visit(t, reply)
    \/ \E t \in todo : Stumble(t)
    \/ ListJobs
    \/ ChangeTree

ScanStep ==
    \/ \E reply \in Replies, header \in Versions : ReadPlugins(reply, header)
    \/ \E answer \in {"ok", "absent", "failed"} : ReadCentre(answer)
    \/ \E p \in left : Inspect(p)
    \/ \E w \in warnings, answer \in {"ok", "none"} : ReadAdvisory(w, answer)
    \/ \E c \in cves : RecallEntry(c) \/ Misunderstand(c)
    \/ \E c \in cves, answer \in {"ok", "none", "busy"} : AskEntry(c, answer)
    \/ Leave
    \/ Conclude
    \/ ChangePlugins

Next ==
    \/ Request /\ UNCHANGED <<jobVars, scanVars>>
    \/ JobStep /\ UNCHANGED scanVars
    \/ ScanStep /\ UNCHANGED jobVars

Spec == Init /\ [][Next]_vars

-----------------------------------------------------------------------------
Statuses == {"REMEDIABLE", "BLOCKED", "UNFIXABLE"}

TypeOK ==
    /\ creds \in {"none", "partial", "complete"}
    /\ phase \in {"idle", "asking", "walking", "updating", "scanning", "done"}
    /\ call \in Calls \cup {NoCall}
    /\ outcome.status \in {"none", "READY", "DEGRADED", "BLOCKED", "ERROR"}
    /\ faults \in 0..MaxFaults /\ changes \in 0..MaxChanges
    /\ tree \in Trees
    /\ todo \subseteq [folder : Items \cup {Root}, depth : 0..MaxDepth]
    /\ collected \subseteq Items /\ items \subseteq Items
    /\ steady \subseteq tree.jobs /\ ever \subseteq Items
    /\ unread \subseteq Items \cup {Root}
    /\ plugins \in Installs /\ installed \in Installs /\ centre \in Centres
    /\ core \in Versions /\ fallback \in BOOLEAN
    /\ left \subseteq Plugins /\ current \in Plugins \cup {0}
    /\ warnings \subseteq centre.warnings /\ cves \subseteq Cves
    /\ pages \in [Urls -> {"unasked", "ok", "none"}]
    /\ nvd \in [Cves -> {"unasked", "ok", "none"}]
    /\ tries \in 0..Retries /\ flawed \in BOOLEAN
    /\ IsPartialMap(statuses, Plugins, Statuses)
    /\ advised \subseteq centre.warnings
    /\ rated \subseteq [plugin : Plugins, cve : Cves]

-----------------------------------------------------------------------------
Met(causes) == met \cap causes # {}

\* The header of Jenkins' version leaves no trace but the version.
HeaderMissing == call.op = "vulnerabilities" /\ met = {} /\ core = <<>>

UsersMistake ==
    \/ Met({"invalid", "no files", "not found"})
    \/ Met({"unlisted"}) /\ call.op # "controllers"
    \/ /\ Met({"absent"}) /\ unread = {}
       /\ call.op \in Named \/ (call.op = "jobs" /\ call.folder # Root)

MustBeAllowed ==
    \/ Met({"partial", "no script", "timed out", "not started"})
    \/ Met({"denied"}) /\ unread = {}
    \/ Met({"trouble"}) /\ call.op = "plugins"
    \/ Met({"unlisted"}) /\ call.op = "controllers"

SystemFailed ==
    \/ Met({"centre", "failure"})
    \/ Met({"unreachable", "malformed"}) /\ unread = {}

\* The exit code tells what stood in the way, whatever way the command came to
\* its end: 1 for the user's mistakes (and for what the code takes for one or
\* does not catch: an answer that hangs, a date to come back at, no header, a
\* folder somebody gave an odd name), 3 for what has to be allowed or provided
\* first, 2 for a system that failed, and READY only for a command nothing
\* happened to but folders passed over.
ExitTellsCause ==
    LET crashed == Met({"hang", "retry", "odd name"}) \/ HeaderMissing
    IN  phase = "done" =>
            /\ (exit_code(outcome) = 1) <=> UsersMistake \/ crashed
            /\ (exit_code(outcome) = 3) <=> MustBeAllowed /\ ~crashed
            /\ SystemFailed /\ ~crashed => exit_code(outcome) = 2
            /\ exit_code(outcome) = 2 =>
                  SystemFailed \/ (Met({"refused", "absent"}) /\ call.op \in Inline)
            /\ outcome.status = "READY" => met = {} \/ unread # {}

\* A command at work is never at a loss: of the folders to visit one is the
\* deepest, of plugins or entries one comes first, or it can conclude.
WorkIsDue ==
    /\ phase = "walking" => todo = {} \/ \E t \in todo : Upcoming(t)
    /\ phase = "scanning" =>
          \/ current = 0 /\ left = {}
          \/ current = 0 /\ \E p \in left : \A q \in left : p <= q
          \/ current # 0 /\ NothingPending
          \/ warnings # {}
          \/ \E c \in cves : Due(c)

Later ==
    [idle |-> {"asking", "done"}, asking |-> {"walking", "updating", "done"},
     walking |-> {"done"}, updating |-> {"scanning", "done"}, scanning |-> {"done"},
     done |-> {}]

\* A folder is visited once; those below it are deeper, and as deep as MaxDepth.
WalkGoesOn ==
    \E t \in todo : t \notin todo' /\ \A u \in todo' \ todo : u.depth > t.depth

\* A plugin, a warning or an entry is struck off; or an entry that is due gets
\* its answer, or counts one more try; or the scan leaves a plugin.
ScanGoesOn ==
    \/ \E p \in left : left' = left \ {p}
    \/ left' = left /\ \E w \in warnings : warnings' = warnings \ {w}
    \/ /\ UNCHANGED <<left, warnings>>
       /\ \E c \in cves :
             \/ cves' = cves \ {c}
             \/ /\ cves' = cves
                /\ nvd[c] = "unasked" /\ (nvd'[c] # "unasked" \/ tries' = tries + 1)
    \/ UNCHANGED <<left, warnings, cves, nvd, tries>> /\ current # 0 /\ current' = 0

\* No step is taken twice, whatever is edited meanwhile: a command passes
\* through its phases in order, and within one each step uses up some of what
\* is to be done.  A page or an entry that was asked for is never asked for
\* again, also when it could not be had (advisory_cache, nvd_cache).
OperatorAdvances ==
    [][/\ \A u \in Urls : pages[u] # "unasked" => pages'[u] = pages[u]
       /\ \A c \in Cves : nvd[c] # "unasked" => nvd'[c] = nvd[c]
       /\ \/ UNCHANGED <<phase, todo, scanState>>
          \/ phase' \in Later[phase]
          \/ /\ phase' = phase
             /\ \/ phase = "walking" /\ WalkGoesOn
                \/ phase = "updating" /\ ~fallback /\ fallback'
                \/ phase = "scanning" /\ ScanGoesOn]_vars
=============================================================================
