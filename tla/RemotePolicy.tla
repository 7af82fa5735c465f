---------------------------- MODULE RemotePolicy ----------------------------
(***************************************************************************)
(* The Automox commands that change one patch policy.  A command reads the *)
(* policy, decides on what it has read, and writes back the whole object:  *)
(* Automox replaces every field by the one in the request.  To add a group *)
(* it takes two requests, the first of which renames the policy and the    *)
(* second restores its name.  To remove or set groups it takes one, and    *)
(* reads the policy again to see that nothing else has changed.            *)
(*                                                                         *)
(* Nothing is locked: other operators run commands, and people edit the    *)
(* policy in the console.  A request may fail before it is carried out or  *)
(* its reply may be lost afterwards; to the command both look alike.       *)
(*                                                                         *)
(* A name is the number of "-TMP" suffixes it has.  Dry runs stop before   *)
(* the first write and are left out, as nothing they do can be seen.       *)
(***************************************************************************)
EXTENDS Naturals

CONSTANTS
    Procs,     \* the operators
    Groups,    \* server groups
    None,
    Gone,      \* the policy has been deleted
    MaxCalls,  \* bound: commands of one operator
    MaxEdits   \* bound: edits in the console

Policy == [suffix : Nat, groups : SUBSET Groups, rest : 0..MaxEdits]

Command ==
    [op : {"add"}, group : Groups]
        \cup [op : {"remove"}, group : Groups, allowEmpty : BOOLEAN]
        \cup [op : {"set"}, groups : (SUBSET Groups) \ {{}}]
        \cup [op : {"delete"}, confirm : {0, 1}]

ASSUME PolicyAssumption ==
    /\ MaxCalls \in Nat /\ MaxEdits \in Nat
    /\ Gone \notin Policy /\ None \notin Policy \cup Command

VARIABLES
    policy,   \* the policy as Automox has it
    pc,       \* where each command is
    cmd,
    copy,     \* the policy as the command has read it
    answer,   \* what the last command of each operator reported
    calls, edits,
    \* observed, not implemented
    ledger,   \* the groups, and the rest, that all changes add up to
    stale,    \* commands whose copy somebody else has outdated
    excused,  \* such a copy was written back
    told,     \* a command has reported that it left the policy renamed
    mute,     \* a command that renamed the policy died or lost the reply
    done      \* operators whose last command has taken effect

remote == <<policy, ledger>>
seen == <<stale, excused, told, mute, done>>
vars == <<remote, pc, cmd, copy, answer, calls, edits, seen>>

Writing == {"renaming", "restoring", "replacing", "deleting", "confirming"}

TypeOK ==
    /\ policy \in Policy \cup {Gone}
    /\ pc \in [Procs -> {"idle", "reading"} \cup Writing]
    /\ cmd \in [Procs -> Command \cup {None}]
    /\ copy \in [Procs -> Policy \cup {None}]
    /\ answer \in [Procs -> {"none", "ready", "refused", "error", "renamed"}]
    /\ calls \in [Procs -> 0..MaxCalls]
    /\ edits \in 0..MaxEdits
    /\ ledger \in [groups : SUBSET Groups, rest : 0..MaxEdits]
    /\ stale \subseteq Procs /\ done \subseteq Procs
    /\ {excused, told, mute} \subseteq BOOLEAN

Init ==
    /\ policy \in [suffix : {0}, groups : SUBSET Groups, rest : {0}]
    /\ ledger = [groups |-> policy.groups, rest |-> 0]
    /\ pc = [p \in Procs |-> "idle"]
    /\ cmd = [p \in Procs |-> None]
    /\ copy = [p \in Procs |-> None]
    /\ answer = [p \in Procs |-> "none"]
    /\ calls = [p \in Procs |-> 0]
    /\ edits = 0
    /\ stale = {} /\ done = {}
    /\ excused = FALSE /\ told = FALSE /\ mute = FALSE
-----------------------------------------------------------------------------
Call(p, c) ==
    /\ pc[p] = "idle"
    /\ calls[p] < MaxCalls
    /\ calls' = [calls EXCEPT ![p] = @ + 1]
    /\ pc' = [pc EXCEPT ![p] = "reading"]
    /\ cmd' = [cmd EXCEPT ![p] = c]
    /\ answer' = [answer EXCEPT ![p] = "none"]
    /\ done' = done \ {p}
    /\ UNCHANGED <<remote, copy, edits, stale, excused, told, mute>>

\* The command ends with this report.
Report(p, what) ==
    /\ pc' = [pc EXCEPT ![p] = "idle"]
    /\ cmd' = [cmd EXCEPT ![p] = None]
    /\ copy' = [copy EXCEPT ![p] = None]
    /\ answer' = [answer EXCEPT ![p] = what]
    /\ UNCHANGED <<calls, edits>>

\* The groups the policy is to have, seen from the copy.
Target(c, groups) ==
    CASE c.op = "add"    -> groups \cup {c.group}
      [] c.op = "remove" -> groups \ {c.group}
      [] c.op = "set"    -> c.groups
      [] c.op = "delete" -> groups

\* Mutant: --allow-empty is not asked for.
RefusedButEmpty(c, read) ==
    \/ c.op = "remove" /\ c.group \notin read.groups
    \/ c.op = "delete" /\ c.confirm # read.suffix

Refused(c, read) ==
    \/ c.op = "remove" /\ c.group \notin read.groups
    \/ c.op = "remove" /\ read.groups = {c.group} /\ ~c.allowEmpty
    \/ c.op = "delete" /\ c.confirm # read.suffix

\* add and set have nothing to do on a policy that is as they want it.
Satisfied(c, read) ==
    c.op \in {"add", "set"} /\ Target(c, read.groups) = read.groups

FirstRequest(c) ==
    CASE c.op = "add"                -> "renaming"
      [] c.op \in {"remove", "set"} -> "replacing"
      [] c.op = "delete"             -> "deleting"

\* The policy is read afresh, and all checks are made on what was read.
Read(p) ==
    /\ pc[p] = "reading" /\ policy # Gone
    /\ IF Refused(cmd[p], policy)
       THEN Report(p, "refused") /\ UNCHANGED done
       ELSE IF Satisfied(cmd[p], policy)
       THEN Report(p, "ready") /\ done' = done \cup {p}
       ELSE /\ pc' = [pc EXCEPT ![p] = FirstRequest(cmd[p])]
            /\ copy' = [copy EXCEPT ![p] = policy]
            /\ UNCHANGED <<cmd, answer, calls, edits, done>>
    /\ stale' = stale \ {p}
    /\ UNCHANGED <<remote, excused, told, mute>>

\* There is no such policy, or the request fails.
ReadFails(p) ==
    /\ pc[p] \in {"reading", "confirming"}
    /\ Report(p, "error")
    /\ UNCHANGED <<remote, seen>>

Busy == {p \in Procs : pc[p] \in Writing}

\* Automox carries out a request of p's, whose reply may not arrive.
Carry(p, new) ==
    /\ policy # Gone
    /\ policy' = new
    /\ stale' = stale \cup (Busy \ {p})
    /\ excused' = (excused \/ p \in stale)

\* What is lost between p and Automox: nothing was done, and p cannot tell.
NotCarried == UNCHANGED <<policy, stale, excused>>

Recorded(p) ==
    ledger' = [ledger EXCEPT !.groups = Target(cmd[p], @)]

Renamed(p) == [copy[p] EXCEPT !.suffix = @ + 1]

\* Mutant: the name is restored by taking the suffix off the one it had.
ChangedStripped(p) ==
    [copy[p] EXCEPT !.suffix = @ - 1, !.groups = Target(cmd[p], @)]

Changed(p) == [copy[p] EXCEPT !.groups = Target(cmd[p], @)]

\* Mutant: the first request of add carries the group already.
RenameWithGroup(p) ==
    /\ pc[p] = "renaming"
    /\ Carry(p, [Changed(p) EXCEPT !.suffix = @ + 1])
    /\ pc' = [pc EXCEPT ![p] = "restoring"]
    /\ UNCHANGED <<ledger, cmd, copy, answer, calls, edits, told, mute, done>>

\* The first request of add, and its reply.
Rename(p) ==
    /\ pc[p] = "renaming"
    /\ Carry(p, Renamed(p))
    /\ pc' = [pc EXCEPT ![p] = "restoring"]
    /\ UNCHANGED <<ledger, cmd, copy, answer, calls, edits, told, mute, done>>

\* An error is reported, whether or not the policy has been renamed.
RenameFails(p) ==
    /\ pc[p] = "renaming"
    /\ \/ NotCarried /\ UNCHANGED mute
       \/ Carry(p, Renamed(p)) /\ mute' = TRUE
    /\ Report(p, "error")
    /\ UNCHANGED <<ledger, told, done>>

\* Mutant: the second request keeps the name that the policy now has.
RestoreGroupsOnly(p) ==
    /\ pc[p] = "restoring"
    /\ Carry(p, [Changed(p) EXCEPT !.suffix = policy.suffix])
    /\ Recorded(p)
    /\ Report(p, "ready")
    /\ done' = done \cup {p}
    /\ UNCHANGED <<told, mute>>

\* Mutant: the second request is built from the groups as they were.
RestoreNameOnly(p) ==
    /\ pc[p] = "restoring"
    /\ Carry(p, copy[p])
    /\ Recorded(p)
    /\ Report(p, "ready")
    /\ done' = done \cup {p}
    /\ UNCHANGED <<told, mute>>

\* The second request: the old name, and the group.
Restore(p) ==
    /\ pc[p] = "restoring"
    /\ Carry(p, Changed(p))
    /\ Recorded(p)
    /\ Report(p, "ready")
    /\ done' = done \cup {p}
    /\ UNCHANGED <<told, mute>>

\* Mutant: the second reply is not looked at.
RestoreFailsUnseen(p) ==
    /\ pc[p] = "restoring"
    /\ NotCarried
    /\ Report(p, "ready")
    /\ UNCHANGED <<ledger, told, mute, done>>

\* Without a good reply the policy is reported as left under its other name.
RestoreFails(p) ==
    /\ pc[p] = "restoring"
    /\ \/ NotCarried /\ UNCHANGED ledger
       \/ Carry(p, Changed(p)) /\ Recorded(p)
    /\ Report(p, "renamed")
    /\ told' = TRUE
    /\ UNCHANGED <<mute, done>>

\* remove and set: one request that replaces the policy.
Replace(p) ==
    /\ pc[p] = "replacing"
    /\ Carry(p, Changed(p))
    /\ Recorded(p)
    /\ pc' = [pc EXCEPT ![p] = "confirming"]
    /\ done' = done \cup {p}
    /\ UNCHANGED <<cmd, copy, answer, calls, edits, told, mute>>

ReplaceFails(p) ==
    /\ pc[p] = "replacing"
    /\ \/ NotCarried /\ UNCHANGED ledger
       \/ Carry(p, Changed(p)) /\ Recorded(p)
    /\ Report(p, "error")
    /\ UNCHANGED <<told, mute, done>>

\* The policy is read again: it must be the copy with its groups replaced.
Confirm(p) ==
    /\ pc[p] = "confirming"
    /\ Report(p, IF policy = Changed(p) THEN "ready" ELSE "error")
    /\ UNCHANGED <<remote, seen>>

Delete(p) ==
    /\ pc[p] = "deleting"
    /\ Carry(p, Gone)
    /\ Report(p, "ready")
    /\ done' = done \cup {p}
    /\ UNCHANGED <<ledger, told, mute>>

DeleteFails(p) ==
    /\ pc[p] = "deleting"
    /\ NotCarried \/ Carry(p, Gone)
    /\ Report(p, "error")
    /\ UNCHANGED <<ledger, told, mute, done>>

\* The process is killed between two requests; a kill during one is the
\* failure of that request.
Crash(p) ==
    /\ pc[p] # "idle"
    /\ mute' = (mute \/ pc[p] = "restoring")
    /\ Report(p, "none")
    /\ UNCHANGED <<remote, stale, excused, told, done>>

\* Environment.  Somebody edits the policy in the console.
Edit ==
    /\ policy # Gone
    /\ edits < MaxEdits
    /\ edits' = edits + 1
    /\ \/ \E groups \in SUBSET Groups :
              /\ policy' = [policy EXCEPT !.groups = groups]
              /\ ledger' = [ledger EXCEPT !.groups = groups]
       \/ /\ policy' = [policy EXCEPT !.rest = edits']
          /\ ledger' = [ledger EXCEPT !.rest = edits']
    /\ stale' = stale \cup Busy
    /\ UNCHANGED <<pc, cmd, copy, answer, calls, excused, told, mute, done>>

Work(p) ==
    \/ Read(p) \/ ReadFails(p)
    \/ Rename(p) \/ RenameFails(p) \/ Restore(p) \/ RestoreFails(p)
    \/ Replace(p) \/ ReplaceFails(p) \/ Confirm(p)
    \/ Delete(p) \/ DeleteFails(p)

Next ==
    \/ \E p \in Procs :
           Work(p) \/ Crash(p) \/ \E c \in Command : Call(p, c)
    \/ Edit

Spec == Init /\ [][Next]_vars
-----------------------------------------------------------------------------
(* A change of the policy, whoever made it, is lost only by a command that *)
(* wrote back a copy which the change had outdated: never by a command     *)
(* that failed half way, was retried, or overlapped with mere readers.     *)
LostOnlyByOverlap ==
    (~excused /\ policy # Gone) =>
        policy.groups = ledger.groups /\ policy.rest = ledger.rest

(* The round trip of the name: unless an outdated copy was written back, a *)
(* policy that has kept the temporary name is still being worked on, or a  *)
(* report has said so, or who renamed it died or never got the reply.      *)
RestoredOrReported ==
    (~excused /\ ~told /\ ~mute /\ policy # Gone /\ policy.suffix > 0) =>
        \E p \in Procs : pc[p] = "restoring"

(* A policy loses its last group only where --allow-empty was given, or by *)
(* an add that writes back the groups of a policy that had none.           *)
EmptiedOnRequest ==
    [][(edits' = edits /\ policy \in Policy /\ policy' \in Policy
            /\ policy.groups # {} /\ policy'.groups = {}) =>
        \E p \in Procs :
            /\ pc'[p] # pc[p]
            /\ \/ cmd[p].op = "remove" /\ cmd[p].allowEmpty
               \/ cmd[p].op = "add" /\ p \in stale]_vars

(* A command that reports success has taken effect, or found everything as *)
(* it was to be; lost replies and failed requests never look like success. *)
ReadyMeansDone == \A p \in Procs : answer[p] = "ready" => p \in done

(* The parts of the inductive invariant behind the theorems.               *)

\* A command at work has what it needs.
WorkInv ==
    \A p \in Procs :
        /\ pc[p] # "idle" => cmd[p] \in Command /\ answer[p] = "none"
        /\ pc[p] \in Writing => copy[p] \in Policy
        /\ pc[p] \in {"renaming", "restoring"} => cmd[p].op = "add"
        /\ pc[p] \in {"replacing", "confirming"} => cmd[p].op \in {"remove", "set"}
        /\ pc[p] = "deleting" => cmd[p].op = "delete"
        /\ (pc[p] = "replacing" /\ cmd[p].op = "remove") =>
               /\ cmd[p].group \in copy[p].groups
               /\ cmd[p].allowEmpty \/ copy[p].groups # {cmd[p].group}
        /\ pc[p] = "confirming" => p \in done

\* A command nobody has outdated knows what the policy is.
FreshInv ==
    \A p \in Procs \ stale :
        /\ pc[p] \in {"renaming", "replacing", "deleting"} => policy = copy[p]
        /\ pc[p] = "restoring" => policy = Renamed(p)
        /\ pc[p] = "confirming" => policy = Changed(p)

\* Who has read a temporary name has read it from somebody still at work.
BorrowedInv ==
    \A p \in Procs \ stale :
        (/\ ~excused /\ ~told /\ ~mute
         /\ pc[p] \in Writing /\ copy[p].suffix > 0) =>
            \E q \in Procs \ {p} : pc[q] = "restoring"

IndInv ==
    /\ TypeOK /\ WorkInv /\ FreshInv /\ BorrowedInv
    /\ LostOnlyByOverlap /\ RestoredOrReported

(* Refinement: all these commands together promise what a shared object    *)
(* without a lock can.  The object is the policy, whatever it is called    *)
(* meanwhile.                                                              *)
Unnamed(read) == IF read = Gone THEN Gone ELSE [read EXCEPT !.suffix = 0]

Untouched(object) == object \in [suffix : {0}, groups : SUBSET Groups, rest : {0}]

\* What a command is to do to a policy, and when it may.
Carries(p, c, object, next) ==
    /\ object # Gone
    /\ \E name \in {0, 1} : ~Refused(c, [object EXCEPT !.suffix = name])
    /\ next = IF c.op = "delete" THEN Gone
              ELSE [object EXCEPT !.groups = Target(c, @)]

StageOf(place) ==
    CASE place = "idle"       -> "idle"
      [] place = "reading"    -> "asked"
      [] place = "confirming" -> "done"
      [] OTHER                -> "looked"

Shared == INSTANCE SharedObject WITH
    Requests  <- Command,
    Objects   <- Policy \cup {Gone},
    Initially <- Untouched,
    Effects   <- Carries,
    object    <- Unnamed(policy),
    stage     <- [p \in Procs |-> StageOf(pc[p])],
    request   <- cmd,
    overtaken <- {p \in stale : StageOf(pc[p]) = "looked"}

(* No command does anything but what it was asked to, at one instant and   *)
(* on the policy as it is then, renamed or not, answered or not, unless    *)
(* somebody wrote after it had read the policy.                            *)
ImplementsSharedObject == Shared!ASpec
=============================================================================
