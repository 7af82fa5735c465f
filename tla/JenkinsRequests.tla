---------------------------- MODULE JenkinsRequests ----------------------------
(***************************************************************************)
(* What the commands of `jenkins' have in common: the credentials of the   *)
(* controller, which are read again for every request, the reply, and the  *)
(* verdict that becomes the status of the report and the exit code.  The   *)
(* commands of one request are here whole; `jobs' and `plugins             *)
(* vulnerabilities' have modules of their own.                             *)
(***************************************************************************)
EXTENDS Integers

CONSTANTS
    MaxFaults,    \* bound: requests that fail
    MaxChanges    \* bound: changes other people make

VARIABLES
    creds,     \* of the controller: "none", "partial" or "complete"
    phase,     \* of the command
    call,      \* its arguments
    outcome,   \* its verdict
    met,       \* for the properties: what it came across
    faults, changes

requestVars == <<creds, phase, call, outcome, met, faults, changes>>

\* Operations whose request is followed by a ladder written out for it, and
\* those that leave the errors to _operator_http_error.
Inline == {"health", "job", "seed", "plugins", "credentials"}
Shared == {"nodes", "queue", "artifacts", "views", "view", "whoami",
           "credential-domains", "jobs", "vulnerabilities"}

\* Operations that ask for something by its name; to these 404 says that there
\* is no such thing.
Named == {"job", "seed", "credentials", "artifacts", "view"}

\* Operations that check their arguments before they look for the controller.
CheckedFirst == {"job", "seed", "credentials"}
CheckedLate  == {"queue", "artifacts", "view", "jobs"}

-----------------------------------------------------------------------------
(* Replies and verdicts.                                                   *)

\* trouble: the data shows what the operation warns about.
Reply(status, body, trouble) == [status |-> status, body |-> body, trouble |-> trouble]

Unreachable == Reply("unreachable", "none", FALSE)
Replies ==
    {Unreachable, Reply("ok", "dict", TRUE), Reply("ok", "dict", FALSE)}
      \cup {Reply(s, b, FALSE) : s \in {"denied", "absent", "refused"},
                                 b \in {"dict", "other", "none"}}
      \cup {Reply("ok", "other", FALSE), Reply("ok", "none", FALSE)}

Good(reply) == reply.status = "ok" /\ reply.body = "dict"

Verdict(status, message) == [status |-> status, message |-> message]

NotFound  == Verdict("ERROR", "not found")
Invalid   == Verdict("ERROR", "invalid")
Failed    == Verdict("ERROR", "query failed")
Malformed == Verdict("ERROR", "malformed")
Denied    == Verdict("BLOCKED", "HTTP")

operator_http_error(reply, named) ==
    IF reply.status = "denied" THEN Denied
    ELSE IF reply.status = "absent" /\ named THEN NotFound
    ELSE IF reply.status = "unreachable" THEN Failed
    ELSE IF reply.status # "ok" THEN Verdict("DEGRADED", "HTTP")
    ELSE Malformed

inline_error(reply, named) ==
    IF reply.status = "denied" THEN Denied
    ELSE IF reply.status = "absent" /\ named THEN NotFound
    ELSE IF reply.body = "none" THEN Failed
    ELSE IF reply.body = "other" THEN Malformed
    ELSE Verdict("DEGRADED", "HTTP")

Ready  == Verdict("READY", "fetched")
Warned == Verdict("DEGRADED", "warning")

\* One operator per command: what it makes of the reply.
operator_health(reply) ==
    IF ~Good(reply) THEN inline_error(reply, FALSE)
    ELSE IF reply.trouble THEN Warned   \* quieting down
    ELSE Ready

operator_job(reply) == IF Good(reply) THEN Ready ELSE inline_error(reply, TRUE)

\* The seed job is a job; recent builds that failed are its trouble.
operator_seed(reply) ==
    IF Good(reply) /\ reply.trouble THEN Warned ELSE operator_job(reply)

operator_plugins(reply) ==
    IF ~Good(reply) THEN inline_error(reply, FALSE)
    ELSE IF reply.trouble THEN Verdict("BLOCKED", "plugins missing")
    ELSE Ready

operator_credentials(reply) == IF Good(reply) THEN Ready ELSE inline_error(reply, TRUE)
operator_nodes(reply)       == IF Good(reply) THEN Ready ELSE operator_http_error(reply, FALSE)
operator_whoami(reply)      == IF Good(reply) THEN Ready ELSE operator_http_error(reply, FALSE)
operator_credential_domains(reply) ==
    IF Good(reply) THEN Ready ELSE operator_http_error(reply, FALSE)

\* More entries than the limit allows are cut, and warned about.
operator_queue(reply) ==
    IF ~Good(reply) THEN operator_http_error(reply, FALSE)
    ELSE IF reply.trouble THEN Warned ELSE Ready

operator_artifacts(reply) ==
    IF ~Good(reply) THEN operator_http_error(reply, TRUE)
    ELSE IF reply.trouble THEN Warned ELSE Ready

\* All views, or one of them by its name.
operator_views(reply, named) ==
    IF Good(reply) THEN Ready ELSE operator_http_error(reply, named)

verdict(op, reply) ==
    CASE op = "health" -> operator_health(reply)
      [] op = "job" -> operator_job(reply)
      [] op = "seed" -> operator_seed(reply)
      [] op = "plugins" -> operator_plugins(reply)
      [] op = "credentials" -> operator_credentials(reply)
      [] op = "nodes" -> operator_nodes(reply)
      [] op = "whoami" -> operator_whoami(reply)
      [] op = "credential-domains" -> operator_credential_domains(reply)
      [] op = "queue" -> operator_queue(reply)
      [] op = "artifacts" -> operator_artifacts(reply)
      [] op \in {"views", "view"} -> operator_views(reply, op = "view")

\* Operations whose data may show trouble.
Troubled == {"health", "seed", "plugins", "queue", "artifacts"}

\* Mutant: a required plugin that is missing is the user's mistake.
ExitByWords(v) ==
    IF v.message \in {"not found", "invalid", "no files", "header missing", "plugins missing"}
    THEN 1
    ELSE IF v.status = "BLOCKED" THEN 3
    ELSE IF v.status = "ERROR" THEN 2 ELSE 0

\* The words of the message tell the user's errors from the system's.  A
\* traceback ends Python with 1.
exit_code(v) ==
    IF v.status = "BLOCKED" THEN 3
    ELSE IF v.status = "none" THEN 1
    ELSE IF v.status = "ERROR"
         THEN IF v.message \in {"not found", "invalid", "no files", "header missing"}
              THEN 1 ELSE 2
    ELSE 0

-----------------------------------------------------------------------------
(* Steps.                                                                  *)

End(v) == phase' = "done" /\ outcome' = v

\* The name of the controller is checked and looked up (_operator_base); the
\* other arguments are checked before that or after.
Begin(c) ==
    /\ phase = "idle"
    /\ c.op \in Inline \cup Shared
    /\ c.bad = "argument" => c.op \in CheckedFirst \cup CheckedLate
    /\ call' = c
    /\ LET first == c.bad = "controller" \/ (c.bad = "argument" /\ c.op \in CheckedFirst)
       IN  \/ /\ first \/ (c.bad # "no" /\ creds = "complete")
              /\ End(Invalid) /\ met' = {"invalid"}
           \/ /\ ~first /\ creds = "none"
              /\ End(NotFound) /\ met' = {"unlisted"}
           \/ /\ ~first /\ creds = "partial"
              /\ End(Verdict("BLOCKED", "credentials")) /\ met' = {"partial"}
           \/ /\ c.bad = "no" /\ creds = "complete"
              /\ phase' = "asking" /\ UNCHANGED <<outcome, met>>
    /\ UNCHANGED <<creds, faults, changes>>

\* `controllers' asks nobody.
Controllers(c) ==
    /\ phase = "idle"
    /\ c.op = "controllers"
    /\ call' = c
    /\ IF creds = "none"
       THEN End(Verdict("BLOCKED", "no controllers")) /\ met' = {"unlisted"}
       ELSE End(Verdict("READY", "fetched")) /\ UNCHANGED met
    /\ UNCHANGED <<creds, faults, changes>>

\* `syntax-check' runs a script of the vault on files; seen is what became of it.
ScriptVerdict(seen) ==
    IF seen \in {"no files", "not found"} THEN Verdict("ERROR", seen)
    ELSE IF seen = "failure" THEN Verdict("ERROR", "check failed")
    ELSE IF seen = "success" THEN Verdict("READY", "passed")
    ELSE Verdict("BLOCKED", seen)

SyntaxCheck(c, seen) ==
    /\ phase = "idle"
    /\ c.op = "syntax-check"
    /\ seen \in {"no files", "no script", "not found", "timed out", "not started",
                 "failure", "success"}
    /\ call' = c
    /\ End(ScriptVerdict(seen))
    /\ met' = {seen} \ {"success"}
    /\ UNCHANGED <<creds, faults, changes>>

Fault(failed) ==
    /\ failed => faults < MaxFaults
    /\ faults' = IF failed THEN faults + 1 ELSE faults

Seen(reply) ==
    IF reply.status # "ok" THEN {reply.status}
    ELSE IF reply.body # "dict" THEN {"malformed"}
    ELSE IF reply.trouble THEN {"trouble"} ELSE {}

\* One request to the controller.  The credentials are read for it anew, and
\* without them there is no request.  exists: what is asked for is there.
Receive(reply, exists) ==
    /\ reply \in Replies
    /\ IF creds # "complete" THEN reply = Unreachable /\ UNCHANGED faults
       ELSE /\ exists => reply.status # "absent"
            /\ ~exists => ~Good(reply)
            /\ Fault(~Good(reply) /\ reply.status # "absent")
    /\ met' = met \cup Seen(reply)

Query(reply, exists) ==
    /\ phase = "asking"
    /\ call.op \notin {"jobs", "vulnerabilities"}
    /\ reply.trouble => call.op \in Troubled
    /\ ~exists => call.op \in Named
    /\ Receive(reply, exists)
    /\ End(verdict(call.op, reply))
    /\ UNCHANGED <<creds, call, changes>>

\* No answer within the timeout: nothing catches this one.
Hang ==
    /\ Fault(TRUE)
    /\ End(Verdict("none", "traceback"))
    /\ met' = met \cup {"hang"}
    /\ UNCHANGED <<creds, call, changes>>

Change ==
    /\ changes < MaxChanges /\ changes' = changes + 1
    /\ phase \notin {"idle", "done"}
    /\ UNCHANGED <<phase, call, outcome, met, faults>>

\* Somebody edits jenkins.properties.
EditCredentials ==
    /\ Change
    /\ creds' \in {"none", "partial", "complete"} \ {creds}
=============================================================================
