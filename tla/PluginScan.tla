------------------------------- MODULE PluginScan -------------------------------
(***************************************************************************)
(* `jenkins plugins vulnerabilities': the installed plugins, the warnings  *)
(* of the update center about them, and for each warning, as asked for,    *)
(* its advisory page and the entries of the vulnerability database (NVD).  *)
(* Pages and entries are asked for once, also when they could not be had.  *)
(***************************************************************************)
EXTENDS JenkinsRequests, JenkinsVersions

CONSTANTS
    Plugins, Cves, Urls,  \* positive numbers, in the order the code sorts them
    Installs,    \* what a controller may have installed: functions to Versions
    Centres,     \* what the update center may publish
    Retries      \* how often an entry is asked for again when NVD is busy

Warning == [plugin : Plugins, url : Urls \cup {0}, ranges : SUBSET (SUBSET Versions),
            cves : SUBSET Cves, marked : BOOLEAN]
Candidate == [version : Versions, core : Versions,
              needs : SUBSET [name : Plugins, version : Versions]]

\* A function of some of S.
IsPartialMap(f, S, T) == DOMAIN f \subseteq S /\ f \in [DOMAIN f -> T]

ASSUME ScanAssumption ==
    /\ Plugins \subseteq Nat \ {0} /\ Cves \subseteq Nat \ {0} /\ Urls \subseteq Nat \ {0}
    /\ <<>> \in Versions
    /\ Retries \in Nat
    /\ \A f \in Installs : IsPartialMap(f, Plugins, Versions)
    /\ \A c \in Centres : /\ c.warnings \subseteq Warning
                          /\ IsPartialMap(c.candidates, Plugins, Candidate)

VARIABLES
    plugins,     \* what the controller has installed
    centre,      \* what the update center publishes
    installed, core,   \* as the command has read them
    fallback,    \* it asks the update center at its other address
    left,        \* plugins it has still to look at
    current,     \* the one it looks at; 0: none
    warnings, cves,    \* what it has still to ask for, for this one
    pages, nvd,  \* what it was told: "unasked", "ok", "none"
    tries,       \* of the entry it asks for, those NVD was too busy for
    flawed,      \* something could not be had
    statuses,    \* of the plugins it reports: remediation_status
    advised,     \* warnings with an advisory record
    rated        \* plugins with a record of an entry

scanState == <<fallback, left, current, warnings, cves, pages, nvd, tries, flawed,
               statuses, advised, rated>>
scanVars == <<plugins, centre, installed, core, fallback, left, current, warnings, cves,
              pages, nvd, tries, flawed, statuses, advised, rated>>

ScanInit ==
    /\ plugins \in Installs
    /\ centre \in Centres
    /\ installed = plugins /\ core = <<>>
    /\ fallback = FALSE
    /\ left = {} /\ current = 0
    /\ warnings = {} /\ cves = {}
    /\ pages = [u \in Urls |-> "unasked"] /\ nvd = [c \in Cves |-> "unasked"]
    /\ tries = 0 /\ flawed = FALSE
    /\ statuses = <<>> /\ advised = {} /\ rated = {}

\* The plugins of the controller; its own version comes in a header.
ReadPlugins(reply, header) ==
    /\ phase = "asking" /\ call.op = "vulnerabilities"
    /\ ~reply.trouble
    /\ header \in Versions
    /\ ~Good(reply) => header = <<>>
    /\ Receive(reply, TRUE)
    /\ IF Good(reply) /\ header # <<>>
       THEN /\ phase' = "updating"
            /\ installed' = plugins
            /\ core' = header
            /\ left' = IF call.wanted = {} THEN DOMAIN plugins
                       ELSE call.wanted \cap DOMAIN plugins
            /\ UNCHANGED outcome
       ELSE /\ End(IF Good(reply) THEN Verdict("ERROR", "header missing")
                   ELSE operator_http_error(reply, FALSE))
            /\ UNCHANGED <<installed, core, left>>
    /\ UNCHANGED <<creds, call, changes, plugins, centre, fallback, current, warnings,
                   cves, pages, nvd, tries, flawed, statuses, advised, rated>>

\* The update center has no page for every version of Jenkins.
ReadCentre(answer) ==
    /\ phase = "updating"
    /\ Fault(answer = "failed")
    /\ \/ /\ answer = "ok"
          /\ phase' = "scanning"
          /\ UNCHANGED <<outcome, met, fallback>>
       \/ /\ answer = "absent" /\ ~fallback
          /\ fallback' = TRUE
          /\ UNCHANGED <<phase, outcome, met>>
       \/ /\ answer = "failed" \/ (answer = "absent" /\ fallback)
          /\ End(Failed)
          /\ met' = met \cup {"centre"}
          /\ UNCHANGED fallback
    /\ UNCHANGED <<creds, call, changes, plugins, centre, installed, core, left, current,
                   warnings, cves, pages, nvd, tries, flawed, statuses, advised, rated>>

-----------------------------------------------------------------------------
(* One plugin after the other.                                             *)

WarningsOf(p) == {w \in centre.warnings : w.plugin = p}
Applicable(p) == {w \in WarningsOf(p) : warning_matches(w, installed[p])}
Asked == IF "nvd" \in call.enrich THEN call.enrich \cup {"advisory"} ELSE call.enrich

CandidateOf(p) == centre.candidates[p]

\* Mutant: the candidate's version is looked at only where it is published.
CandidateOld(p) ==
    \/ p \notin DOMAIN centre.candidates
    \/ CandidateOf(p).version = <<>>
    \/ ~(compare_versions(CandidateOf(p).version, installed[p]) > 0)

candidate_vulnerable(p) ==
    \/ p \notin DOMAIN centre.candidates
    \/ CandidateOf(p).version = <<>>
    \/ ~(compare_versions(CandidateOf(p).version, installed[p]) > 0)
    \/ \E w \in WarningsOf(p) : warning_matches(w, CandidateOf(p).version)

\* A dependency is satisfied by what is installed now.
Compatible(need) ==
    /\ need.name \in DOMAIN installed
    /\ need.version # <<>> => version_at_least(installed[need.name], need.version)

remediation_status(p) ==
    IF candidate_vulnerable(p) THEN "UNFIXABLE"
    ELSE IF /\ CandidateOf(p).core # <<>> => version_at_least(core, CandidateOf(p).core)
            /\ \A need \in CandidateOf(p).needs : Compatible(need)
         THEN "REMEDIABLE"
    ELSE "BLOCKED"

NothingPending == warnings = {} /\ cves = {}

Inspect(p) ==
    /\ phase = "scanning" /\ current = 0
    /\ p \in left /\ \A q \in left : p <= q
    /\ left' = left \ {p}
    /\ IF Applicable(p) = {} THEN UNCHANGED <<current, warnings, statuses>>
       ELSE /\ current' = p
            /\ warnings' = IF "advisory" \in Asked THEN Applicable(p) ELSE {}
            /\ statuses' = [q \in DOMAIN statuses \cup {p} |->
                               IF q = p THEN remediation_status(p) ELSE statuses[q]]
    /\ UNCHANGED <<requestVars, plugins, centre, installed, core, fallback, cves, pages,
                   nvd, tries, flawed, advised, rated>>

\* The CVEs named beside the warning; of the whole page if its place there is
\* not marked.
CvesOf(w) ==
    IF w.marked THEN w.cves
    ELSE UNION {v.cves : v \in {v \in centre.warnings : v.url = w.url}}

ReadAdvisory(w, answer) ==
    /\ phase = "scanning" /\ w \in warnings
    /\ warnings' = warnings \ {w}
    /\ IF w.url = 0 THEN answer = "none" /\ UNCHANGED <<pages, faults>>
       ELSE IF pages[w.url] # "unasked"
            THEN answer = pages[w.url] /\ UNCHANGED <<pages, faults>>
       ELSE /\ answer \in {"ok", "none"}
            /\ Fault(answer = "none")
            /\ pages' = [pages EXCEPT ![w.url] = answer]
    /\ IF answer = "ok"
       THEN /\ advised' = advised \cup {w}
            /\ cves' = IF "nvd" \in Asked THEN cves \cup CvesOf(w) ELSE cves
            /\ UNCHANGED flawed
       ELSE flawed' = TRUE /\ UNCHANGED <<advised, cves>>
    /\ UNCHANGED <<creds, phase, call, outcome, met, changes, plugins, centre, installed,
                   core, fallback, left, current, nvd, tries, statuses, rated>>

Due(c) ==
    /\ phase = "scanning" /\ warnings = {}
    /\ c \in cves /\ \A d \in cves : c <= d

\* An entry that was asked for before, for another plugin; or for nothing.
RecallEntry(c) ==
    /\ Due(c)
    /\ nvd[c] # "unasked"
    /\ cves' = cves \ {c}
    /\ rated' = IF nvd[c] = "ok" THEN rated \cup {[plugin |-> current, cve |-> c]} ELSE rated
    /\ UNCHANGED <<requestVars, plugins, centre, installed, core, fallback, left, current,
                   warnings, pages, nvd, tries, flawed, statuses, advised>>

\* Mutant: an entry that could not be had is not an error.
AskEntryQuietly(c, answer) ==
    /\ Due(c)
    /\ nvd[c] = "unasked"
    /\ answer \in {"ok", "none"}
    /\ Fault(answer = "none")
    /\ tries' = 0
    /\ nvd' = [nvd EXCEPT ![c] = answer]
    /\ UNCHANGED <<creds, phase, call, outcome, met, changes, plugins, centre, installed,
                   core, fallback, left, current, warnings, cves, pages, statuses, advised,
                   rated, flawed>>

\* Mutant: asked for once more than it should be.
AskEntryOnceMore(c, answer) ==
    /\ Due(c)
    /\ nvd[c] = "unasked"
    /\ answer \in {"ok", "none", "busy"}
    /\ Fault(answer # "ok")
    /\ IF answer = "busy" /\ tries <= Retries
       THEN tries' = tries + 1 /\ UNCHANGED <<nvd, flawed>>
       ELSE /\ tries' = 0
            /\ nvd' = [nvd EXCEPT ![c] = IF answer = "ok" THEN "ok" ELSE "none"]
            /\ flawed' = (flawed \/ answer # "ok")
    /\ UNCHANGED <<creds, phase, call, outcome, met, changes, plugins, centre, installed,
                   core, fallback, left, current, warnings, cves, pages, statuses, advised,
                   rated>>

\* busy: HTTP 429.  The last answer counts, whatever it is.
AskEntry(c, answer) ==
    /\ Due(c)
    /\ nvd[c] = "unasked"
    /\ answer \in {"ok", "none", "busy"}
    /\ Fault(answer # "ok")
    /\ IF answer = "busy" /\ tries < Retries
       THEN tries' = tries + 1 /\ UNCHANGED <<nvd, flawed>>
       ELSE /\ tries' = 0
            /\ nvd' = [nvd EXCEPT ![c] = IF answer = "ok" THEN "ok" ELSE "none"]
            /\ flawed' = (flawed \/ answer # "ok")
    /\ UNCHANGED <<creds, phase, call, outcome, met, changes, plugins, centre, installed,
                   core, fallback, left, current, warnings, cves, pages, statuses, advised,
                   rated>>

\* NVD is busy and names a date, not seconds, to come back at: int() raises
\* ValueError and the scan is lost.
Misunderstand(c) ==
    /\ Due(c)
    /\ nvd[c] = "unasked" /\ tries < Retries
    /\ Fault(TRUE)
    /\ End(Invalid)
    /\ met' = met \cup {"retry"}
    /\ UNCHANGED <<creds, call, changes, scanVars>>

Leave ==
    /\ phase = "scanning" /\ current # 0 /\ NothingPending
    /\ current' = 0
    /\ UNCHANGED <<requestVars, plugins, centre, installed, core, fallback, left, warnings,
                   cves, pages, nvd, tries, flawed, statuses, advised, rated>>

Conclude ==
    /\ phase = "scanning" /\ current = 0 /\ left = {}
    /\ End(Verdict(IF flawed THEN "DEGRADED" ELSE "READY", "scan completed"))
    /\ UNCHANGED <<creds, call, met, faults, changes, scanVars>>

\* Somebody installs, upgrades or removes plugins.
ChangePlugins ==
    /\ Change
    /\ plugins' \in Installs
    /\ UNCHANGED <<creds, centre, installed, core, scanState>>

-----------------------------------------------------------------------------
Scanned == phase = "done" /\ outcome.message = "scan completed"

Selected == IF call.wanted = {} THEN DOMAIN installed ELSE call.wanted \cap DOMAIN installed

\* Told(p, w): the scan knows of w all it was asked for.
Told(p, w) ==
    /\ "advisory" \in Asked => w \in advised
    /\ "nvd" \in Asked => \A c \in CvesOf(w) : [plugin |-> p, cve |-> c] \in rated

\* A scan reports exactly the selected plugins a warning is about, and is READY
\* if and only if it knows of each of these warnings all it was asked for; an
\* entry or a page that could not be had for one plugin is missing for the
\* next one too, without being asked for again (advisory_cache, nvd_cache).
ScanComplete ==
    Scanned =>
        /\ DOMAIN statuses = {p \in Selected : Applicable(p) # {}}
        /\ (outcome.status = "READY") <=>
              \A p \in DOMAIN statuses : \A w \in Applicable(p) : Told(p, w)

Remediable == {p \in DOMAIN statuses : statuses[p] = "REMEDIABLE"}
Upgraded(p) == IF p \in Remediable THEN CandidateOf(p).version ELSE installed[p]

\* The plugins reported REMEDIABLE can be upgraded all together: then no
\* warning is about them and what they need is there, although each was
\* compared with what is installed before any of the others is upgraded
\* (_dependency_compatibility); but for an upgrade that is newer than what is
\* installed, which is new enough, and yet not new enough itself, as
\* compare_versions is no order where three versions are Confused.
UpgradesHoldTogether ==
    Scanned =>
        \A p \in Remediable :
            /\ \A w \in WarningsOf(p) : ~warning_matches(w, Upgraded(p))
            /\ CandidateOf(p).core # <<>> => version_at_least(core, CandidateOf(p).core)
            /\ \A need \in CandidateOf(p).needs :
                  /\ need.name \in DOMAIN installed
                  /\ need.version # <<>> =>
                        \/ version_at_least(Upgraded(need.name), need.version)
                        \/ Confused(Upgraded(need.name), installed[need.name], need.version)
=============================================================================
