----------------------------- MODULE TicketState -----------------------------
(***************************************************************************)
(* The state file of one ticket, .ai-worklog/state/<KEY>.json, and the     *)
(* `state' commands that change it.  A command checks that the file is     *)
(* there, loads it, changes it in memory, validates the whole of it and,   *)
(* with --apply, renames a new file over the old one.  There is no lock:   *)
(* commands of several agents, and edits by hand, may come in between.     *)
(*                                                                         *)
(* The runtimes differ on a file that does not parse: to Groovy it is an   *)
(* object without any field, which nothing can be done to; to Python it is *)
(* a ticket that was just initialised.                                     *)
(***************************************************************************)
EXTENDS Naturals, Sequences

CONSTANTS
    Procs,       \* the agents and people that run commands
    Python,      \* those of them that run the Python runtime
    Fields,      \* paths that `state set' may change
    Legal,       \* the values such a path may have
    Illegal,     \* a value the validator refuses
    Initial,     \* the value of every path in a new state
    DecisionIds,
    NoFile,      \* there is no file
    Damaged,     \* the file does not parse
    None,
    MaxCalls,    \* bound: commands of one process
    MaxEdits     \* bound: edits by hand

ASSUME TicketAssumption ==
    /\ Python \subseteq Procs
    /\ Initial \in Legal /\ Illegal \notin Legal
    /\ NoFile # Damaged
    /\ MaxCalls \in Nat /\ MaxEdits \in Nat

Value == Legal \cup {Illegal}
Status == {"active", "resolved"}

State ==
    [field     : [Fields -> Value],
     blockers  : Seq(Status),
     decisions : [DecisionIds -> {"absent", "open", "resolved"}]]

ASSUME StateAssumption ==
    NoFile \notin State /\ Damaged \notin State /\ None \notin State

Default ==
    [field     |-> [f \in Fields |-> Initial],
     blockers  |-> <<>>,
     decisions |-> [d \in DecisionIds |-> "absent"]]

\* TicketStateValidator.validate, of a state that has all its fields.
Valid(s) == \A f \in Fields : s.field[f] \in Legal

\* `state set' may also replace a whole list: "clear" stands for that.
Command ==
    [op : {"init", "add blocker"}, apply : BOOLEAN]
        \cup [op : {"set"}, field : Fields, value : Value, apply : BOOLEAN]
        \cup [op : {"clear"}, list : {"blockers", "decisions"}, apply : BOOLEAN]
        \cup [op : {"resolve blocker"}, index : 1..MaxCalls, apply : BOOLEAN]
        \cup [op : {"add decision", "resolve decision"}, id : DecisionIds,
              apply : BOOLEAN]

ASSUME CommandAssumption == None \notin Command

\* Mutant: adding a decision that exists already asks it anew.
AllowedAgain(s, c) ==
    \/ c.op \in {"init", "clear", "add blocker", "add decision"}
    \/ c.op = "set" /\ c.value \in Legal
    \/ c.op = "resolve blocker" /\ c.index <= Len(s.blockers)
    \/ c.op = "resolve decision" /\ s.decisions[c.id] # "absent"

\* What a command demands of the state it has loaded.
Allowed(s, c) ==
    \/ c.op \in {"init", "clear", "add blocker"}
    \/ c.op = "set" /\ c.value \in Legal
    \/ c.op = "resolve blocker" /\ c.index <= Len(s.blockers)
    \/ c.op = "add decision" /\ s.decisions[c.id] = "absent"
    \/ c.op = "resolve decision" /\ s.decisions[c.id] # "absent"

Cleared(s, list) ==
    IF list = "blockers" THEN [s EXCEPT !.blockers = Default.blockers]
    ELSE [s EXCEPT !.decisions = Default.decisions]

\* Mutant: a blocker is added with the status of a decision.
EffectOpen(s, c) ==
    CASE c.op = "init"             -> Default
      [] c.op = "set"              -> [s EXCEPT !.field[c.field] = c.value]
      [] c.op = "clear"            -> Cleared(s, c.list)
      [] c.op = "add blocker"      -> [s EXCEPT !.blockers = Append(@, "open")]
      [] c.op = "resolve blocker"  -> [s EXCEPT !.blockers[c.index] = "resolved"]
      [] c.op = "add decision"     -> [s EXCEPT !.decisions[c.id] = "open"]
      [] c.op = "resolve decision" -> [s EXCEPT !.decisions[c.id] = "resolved"]

\* What it makes of it.
Effect(s, c) ==
    CASE c.op = "init"             -> Default
      [] c.op = "set"              -> [s EXCEPT !.field[c.field] = c.value]
      [] c.op = "clear"            -> Cleared(s, c.list)
      [] c.op = "add blocker"      -> [s EXCEPT !.blockers = Append(@, "active")]
      [] c.op = "resolve blocker"  -> [s EXCEPT !.blockers[c.index] = "resolved"]
      [] c.op = "add decision"     -> [s EXCEPT !.decisions[c.id] = "open"]
      [] c.op = "resolve decision" -> [s EXCEPT !.decisions[c.id] = "resolved"]

VARIABLES
    file,     \* the contents of the state file
    pc,       \* where each process is
    cmd,      \* the command it runs
    draft,    \* the state it has in memory
    calls, edits,
    \* observed, not implemented
    ledger,   \* the state that all saved commands and edits add up to
    stale,    \* processes whose draft is older than the file
    guessed,  \* processes whose draft replaces what they could not read
    excused   \* a draft was saved that was stale or guessed

vars == <<file, pc, cmd, draft, calls, edits, ledger, stale, guessed, excused>>

TypeOK ==
    /\ file \in State \cup {NoFile, Damaged}
    /\ pc \in [Procs -> {"idle", "checked", "loaded", "validated"}]
    /\ cmd \in [Procs -> Command \cup {None}]
    /\ draft \in [Procs -> State \cup {None}]
    /\ calls \in [Procs -> 0..MaxCalls]
    /\ edits \in 0..MaxEdits
    /\ ledger \in State \cup {NoFile}
    /\ stale \subseteq Procs /\ guessed \subseteq Procs
    /\ excused \in BOOLEAN

Init ==
    /\ file \in {NoFile, Default}
    /\ ledger = file
    /\ pc = [p \in Procs |-> "idle"]
    /\ cmd = [p \in Procs |-> None]
    /\ draft = [p \in Procs |-> None]
    /\ calls = [p \in Procs |-> 0]
    /\ edits = 0
    /\ stale = {} /\ guessed = {}
    /\ excused = FALSE
-----------------------------------------------------------------------------
Finish(p) ==
    /\ pc' = [pc EXCEPT ![p] = "idle"]
    /\ cmd' = [cmd EXCEPT ![p] = None]
    /\ draft' = [draft EXCEPT ![p] = None]
    /\ guessed' = guessed \ {p}

\* Mutant: init does not care whether there is a file.
CallCareless(p, c) ==
    /\ pc[p] = "idle"
    /\ calls[p] < MaxCalls
    /\ calls' = [calls EXCEPT ![p] = @ + 1]
    /\ IF c.op = "init" \/ file # NoFile
       THEN /\ pc' = [pc EXCEPT ![p] = "checked"]
            /\ cmd' = [cmd EXCEPT ![p] = c]
            /\ stale' = stale \ {p}
       ELSE UNCHANGED <<pc, cmd, stale>>
    /\ UNCHANGED <<file, draft, edits, ledger, guessed, excused>>

\* init wants no file, every other command wants one.
Call(p, c) ==
    /\ pc[p] = "idle"
    /\ calls[p] < MaxCalls
    /\ calls' = [calls EXCEPT ![p] = @ + 1]
    /\ IF (c.op = "init") = (file = NoFile)
       THEN /\ pc' = [pc EXCEPT ![p] = "checked"]
            /\ cmd' = [cmd EXCEPT ![p] = c]
            /\ stale' = stale \ {p}
       ELSE UNCHANGED <<pc, cmd, stale>>
    /\ UNCHANGED <<file, draft, edits, ledger, guessed, excused>>

\* Mutant: a file that does not parse is a new state to everybody.
LoadedAnyhow(p, c, contents) ==
    IF c.op = "init" \/ contents = Damaged THEN Default ELSE contents

\* What is in memory after load(): nothing that a command could start from
\* where Groovy cannot parse the file.  init does not read a file at all.
Loaded(p, c, contents) ==
    IF c.op = "init" THEN Default
    ELSE IF contents # Damaged THEN contents
    ELSE IF p \in Python THEN Default
    ELSE None

Load(p) ==
    LET s == Loaded(p, cmd[p], file) IN
    /\ pc[p] = "checked"
    /\ IF s # None /\ Allowed(s, cmd[p])
       THEN /\ pc' = [pc EXCEPT ![p] = "loaded"]
            /\ draft' = [draft EXCEPT ![p] = Effect(s, cmd[p])]
            /\ guessed' = IF cmd[p].op # "init" /\ file = Damaged
                          THEN guessed \cup {p} ELSE guessed
            /\ UNCHANGED cmd
       ELSE Finish(p)
    /\ stale' = IF cmd[p].op = "init" THEN stale ELSE stale \ {p}
    /\ UNCHANGED <<file, calls, edits, ledger, excused>>

\* Mutant: only the change was validated, when it was made.
ValidateNothing(p) ==
    /\ pc[p] = "loaded"
    /\ IF cmd[p].apply
       THEN /\ pc' = [pc EXCEPT ![p] = "validated"]
            /\ UNCHANGED <<cmd, draft, guessed>>
       ELSE Finish(p)
    /\ UNCHANGED <<file, calls, edits, ledger, stale, excused>>

\* Mutant: a dry run goes on as --apply does.
ValidateDry(p) ==
    /\ pc[p] = "loaded"
    /\ IF Valid(draft[p])
       THEN /\ pc' = [pc EXCEPT ![p] = "validated"]
            /\ UNCHANGED <<cmd, draft, guessed>>
       ELSE Finish(p)
    /\ UNCHANGED <<file, calls, edits, ledger, stale, excused>>

\* persist: the whole state is validated, and only --apply goes on.
Validate(p) ==
    /\ pc[p] = "loaded"
    /\ IF Valid(draft[p]) /\ cmd[p].apply
       THEN /\ pc' = [pc EXCEPT ![p] = "validated"]
            /\ UNCHANGED <<cmd, draft, guessed>>
       ELSE Finish(p)
    /\ UNCHANGED <<file, calls, edits, ledger, stale, excused>>

Busy == {p \in Procs : pc[p] # "idle"}

\* What the saved commands amount to, had they come one after another.
Account(c) ==
    IF c.op = "init"
    THEN IF ledger = NoFile THEN Default ELSE ledger
    ELSE IF Allowed(ledger, c) THEN Effect(ledger, c) ELSE ledger

\* StateManager.save: a temporary file, renamed over the old one.
Save(p) ==
    /\ pc[p] = "validated"
    /\ file' = draft[p]
    /\ ledger' = Account(cmd[p])
    /\ stale' = Busy \ {p}
    /\ excused' = (excused \/ p \in stale \cup guessed)
    /\ Finish(p)
    /\ UNCHANGED <<calls, edits>>

\* Environment.  The process dies, or cannot write the temporary file.
Crash(p) ==
    /\ pc[p] # "idle"
    /\ Finish(p)
    /\ UNCHANGED <<file, calls, edits, ledger, stale, excused>>

Edit ==
    /\ edits < MaxEdits
    /\ file \in State
    /\ edits' = edits + 1
    /\ stale' = Busy
    /\ UNCHANGED <<pc, cmd, draft, calls, guessed, excused>>

\* Environment.  Somebody gives a field a value the validator refuses, ...
Misspell(f) ==
    /\ Edit
    /\ file' = [file EXCEPT !.field[f] = Illegal]
    /\ ledger' = IF ledger = file THEN file' ELSE ledger

\* ... or leaves the file so that it does not parse.
Damage == Edit /\ file' = Damaged /\ UNCHANGED ledger

Next ==
    \/ \E p \in Procs :
           \/ Load(p) \/ Validate(p) \/ Save(p) \/ Crash(p)
           \/ \E c \in Command : Call(p, c)
    \/ Damage
    \/ \E f \in Fields : Misspell(f)

Spec == Init /\ [][Next]_vars
-----------------------------------------------------------------------------
(* Whatever was saved is in the file, as long as it can be read: the       *)
(* promise of state/manager.py that updates never discard prior values.    *)
UpdatesKept == file # Damaged => file = ledger

(* An update is lost in two ways only: by a command that overlapped        *)
(* another one or an edit, and by a Python command on a damaged file.      *)
LostOnlyByOverlap == ~excused => UpdatesKept

(* Nothing the validator refuses is ever saved, even when it was somebody  *)
(* else who put it into the file (StateCommands.persist validates the      *)
(* whole state, not the change).                                           *)
SavedStatesValid ==
    [][(edits' = edits /\ file' # file) => file' \in State /\ Valid(file')]_vars

(* A damaged file is replaced only by a draft that is older, or by the     *)
(* Python runtime.                                                         *)
DamagedStateKept ==
    [][(file = Damaged /\ file' # Damaged) =>
            \E p \in Procs : /\ pc[p] = "validated" /\ pc'[p] = "idle"
                             /\ p \in stale \/ p \in guessed \cap Python]_vars

(* Once a decision is resolved it is not open again, and a blocker that is *)
(* there is not gone again, unless an update was lost as above or somebody *)
(* replaced the whole list with `state set'.                               *)
Clears(list) ==
    \E p \in Procs : /\ pc[p] = "validated" /\ pc'[p] = "idle"
                     /\ cmd[p].op = "clear" /\ cmd[p].list = list

SettledStaysSettled ==
    [][(file \in State /\ file' \in State /\ ~excused') =>
            /\ \/ Clears("decisions")
               \/ \A d \in DecisionIds :
                      file.decisions[d] = "resolved" => file'.decisions[d] = "resolved"
            /\ Clears("blockers") \/ Len(file.blockers) <= Len(file'.blockers)]_vars

(* The parts of the inductive invariant behind the theorems.               *)

\* A process at work has a command; only init runs where there is no file.
CommandInv ==
    \A p \in Procs : pc[p] # "idle" =>
        cmd[p] \in Command /\ (cmd[p].op # "init" => file # NoFile)

\* A draft is a state, and a valid one to be saved once it was validated.
DraftInv ==
    \A p \in Procs :
        /\ pc[p] \in {"loaded", "validated"} => draft[p] \in State
        /\ pc[p] = "validated" => Valid(draft[p]) /\ cmd[p].apply

\* Only Python guesses.
GuessedInv == guessed \subseteq Python

\* A process that nobody has overtaken works on the file as it is.
FreshInv ==
    \A p \in Procs \ stale :
        /\ (pc[p] # "idle" /\ cmd[p].op = "init") => file = NoFile
        /\ pc[p] \in {"loaded", "validated"} =>
               LET s == Loaded(p, cmd[p], file) IN
               /\ s # None /\ Allowed(s, cmd[p])
               /\ draft[p] = Effect(s, cmd[p])
               /\ (cmd[p].op # "init" /\ file = Damaged) => p \in guessed

\* The first save founds the ledger.
LedgerInv == (ledger = NoFile) = (file = NoFile)

IndInv ==
    /\ TypeOK /\ CommandInv /\ DraftInv /\ GuessedInv
    /\ FreshInv /\ LedgerInv /\ LostOnlyByOverlap

(* Refinement: all these commands together promise what a shared object    *)
(* without a lock can.  The object is the file.                            *)
Unmade(object) == object \in {NoFile, Default}

\* What a command is to do to the file, and when it may.
Saves(p, c, object, next) ==
    LET s == Loaded(p, c, object) IN
    /\ c.apply
    /\ (c.op = "init") = (object = NoFile)
    /\ s # None /\ Allowed(s, c)
    /\ next = Effect(s, c) /\ Valid(next)

\* init looks at the file only to see that there is none.
StageOf(place, c) ==
    CASE place = "idle"                     -> "idle"
      [] place = "checked" /\ c.op # "init" -> "asked"
      [] OTHER                              -> "looked"

Shared == INSTANCE SharedObject WITH
    Requests  <- Command,
    Objects   <- State \cup {NoFile, Damaged},
    Initially <- Unmade,
    Effects   <- Saves,
    object    <- file,
    stage     <- [p \in Procs |-> StageOf(pc[p], cmd[p])],
    request   <- cmd,
    overtaken <- {p \in stale : StageOf(pc[p], cmd[p]) = "looked"}

(* No command does anything but what it was asked to, with --apply, at one *)
(* instant and to the whole file as it is then, unless somebody wrote      *)
(* after it had looked; Python takes a damaged file for a new ticket.      *)
ImplementsSharedObject == Shared!ASpec
=============================================================================
