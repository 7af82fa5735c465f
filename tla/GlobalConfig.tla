---------------------------- MODULE GlobalConfig ----------------------------
(***************************************************************************)
(* The writers of ~/.ai-worklog/config.json.  Every process runs one       *)
(* command at a time: it opens and locks .config.lock, loads the file,     *)
(* applies the command in memory, saves, and releases the lock.  save()    *)
(* reads the existing file once more and refuses to replace a damaged one, *)
(* then writes a temporary file and renames it over the configuration.     *)
(* A process may crash between any two of these steps; the kernel then     *)
(* drops its lock.                                                         *)
(*                                                                         *)
(* The Groovy runtime takes a POSIX record lock (FileChannel.lock) and the *)
(* Python runtime a BSD lock (fcntl.flock).  LockSpace says which of them  *)
(* exclude each other, which is the operating system's choice.             *)
(***************************************************************************)
EXTENDS ConfigCommands

CONSTANTS
    Procs,       \* processes of the program
    RuntimeOf,   \* the runtime each process is an instance of
    LockSpace,   \* the lock table the kernel keeps for each runtime's lock
    NoFile,      \* config.json does not exist
    Damaged,     \* config.json does not parse or does not validate
    MaxCalls,    \* bound: commands one process issues
    MaxDamage    \* bound: times somebody damages the file by hand

ASSUME ProcessAssumption ==
    /\ RuntimeOf \in [Procs -> Runtimes]
    /\ DOMAIN LockSpace = Runtimes
    /\ None \notin Procs
    /\ NoFile # Damaged
    /\ {NoFile, Damaged, None} \cap Config = {}
    /\ None \notin Command
    /\ MaxCalls \in Nat /\ MaxDamage \in Nat

Spaces == {LockSpace[r] : r \in Runtimes}
SpaceOf(p) == LockSpace[RuntimeOf[p]]

\* Every process contends for the same lock: one runtime only, or a kernel
\* on which the two kinds of lock exclude each other.
OneLockSpace == \A p, q \in Procs : SpaceOf(p) = SpaceOf(q)

VARIABLES
    file,     \* the contents of config.json
    holder,   \* the process that holds each lock
    pc,       \* where each process is
    cmd,      \* the command it runs
    draft,    \* the configuration it has in memory
    answer,   \* what it is about to tell its user
    calls,    \* commands issued so far
    damages,  \* times the file was damaged by hand
    \* observed, not implemented
    ledger,   \* the configuration all committed commands add up to
    overtaken \* processes that had re-read the file before it was damaged

vars == <<file, holder, pc, cmd, draft, answer, calls, damages,
          ledger, overtaken>>

procVars == <<pc, cmd, draft, answer>>

Stage == {"idle", "locking", "loading", "saving", "moving", "unlocking",
          "replying"}
Critical == {"loading", "saving", "moving", "unlocking"}
Answer == {"none", "ok", "refused", "failed"}

Content(f) == IF f = NoFile THEN Defaults ELSE f

TypeOK ==
    /\ file \in Config \cup {NoFile, Damaged}
    /\ holder \in [Spaces -> Procs \cup {None}]
    /\ pc \in [Procs -> Stage]
    /\ cmd \in [Procs -> Command \cup {None}]
    /\ draft \in [Procs -> Config \cup {None}]
    /\ answer \in [Procs -> Answer]
    /\ calls \in [Procs -> 0..MaxCalls]
    /\ damages \in 0..MaxDamage
    /\ ledger \in Config
    /\ overtaken \subseteq Procs

Init ==
    /\ file \in {c \in Config : Valid(c)} \cup {NoFile, Damaged}
    /\ ledger = IF file = Damaged THEN Defaults ELSE Content(file)
    /\ holder = [s \in Spaces |-> None]
    /\ pc = [p \in Procs |-> "idle"]
    /\ cmd = [p \in Procs |-> None]
    /\ draft = [p \in Procs |-> None]
    /\ answer = [p \in Procs |-> "none"]
    /\ calls = [p \in Procs |-> 0]
    /\ damages = 0
    /\ overtaken = {}
-----------------------------------------------------------------------------
(* A command is checked against its arguments before anything is opened.   *)
Call(p, c) ==
    /\ pc[p] = "idle"
    /\ calls[p] < MaxCalls
    /\ calls' = [calls EXCEPT ![p] = @ + 1]
    /\ cmd' = [cmd EXCEPT ![p] = c]
    /\ IF RefusedAtOnce(c)
       THEN /\ pc' = [pc EXCEPT ![p] = "replying"]
            /\ answer' = [answer EXCEPT ![p] = "refused"]
       ELSE /\ pc' = [pc EXCEPT ![p] = "locking"]
            /\ UNCHANGED answer
    /\ UNCHANGED <<file, holder, draft, damages, ledger, overtaken>>

\* Mutant: whoever holds the lock, another process gets it too.
LockAnyway(p) ==
    /\ pc[p] = "locking"
    /\ holder' = [holder EXCEPT ![SpaceOf(p)] = p]
    /\ pc' = [pc EXCEPT ![p] = "loading"]
    /\ UNCHANGED <<file, cmd, draft, answer, calls, damages, ledger, overtaken>>

Lock(p) ==
    /\ pc[p] = "locking"
    /\ holder[SpaceOf(p)] = None
    /\ holder' = [holder EXCEPT ![SpaceOf(p)] = p]
    /\ pc' = [pc EXCEPT ![p] = "loading"]
    /\ UNCHANGED <<file, cmd, draft, answer, calls, damages, ledger, overtaken>>

\* The process leaves the work undone and goes to release the lock.
GiveUp(p, why) ==
    /\ pc' = [pc EXCEPT ![p] = "unlocking"]
    /\ answer' = [answer EXCEPT ![p] = why]
    /\ draft' = [draft EXCEPT ![p] = None]
    /\ UNCHANGED <<file, holder, cmd, calls, damages, ledger>>

\* load() throws on a damaged file, and the command checks what it returns.
Acceptable(p) == file # Damaged /\ Allowed(Content(file), cmd[p])

\* load(), and the body of the command on what it returned.
Load(p) ==
    /\ pc[p] = "loading"
    /\ Acceptable(p)
    /\ draft' = [draft EXCEPT ![p] = Effect(Content(file), cmd[p])]
    /\ pc' = [pc EXCEPT ![p] = "saving"]
    /\ UNCHANGED <<file, holder, cmd, answer, calls, damages, ledger, overtaken>>

LoadRefused(p) ==
    /\ pc[p] = "loading"
    /\ ~Acceptable(p)
    /\ GiveUp(p, "refused")
    /\ UNCHANGED overtaken

\* Mutant: save() does not look at the existing file.
RecheckNot(p) ==
    /\ pc[p] = "saving"
    /\ IF Valid(draft[p])
       THEN /\ pc' = [pc EXCEPT ![p] = "moving"]
            /\ UNCHANGED <<file, holder, cmd, draft, answer, calls, damages,
                           ledger>>
       ELSE GiveUp(p, "refused")
    /\ UNCHANGED overtaken

\* save() validates what it is given and reads the existing file again.
Recheck(p) ==
    /\ pc[p] = "saving"
    /\ IF Valid(draft[p]) /\ file # Damaged
       THEN /\ pc' = [pc EXCEPT ![p] = "moving"]
            /\ UNCHANGED <<file, holder, cmd, draft, answer, calls, damages,
                           ledger>>
       ELSE GiveUp(p, "refused")
    /\ UNCHANGED overtaken

\* Mutant: what is saved is merged into the file, which keeps its default.
CommitMerged(p) ==
    /\ pc[p] = "moving"
    /\ file' = IF file \in Config /\ draft[p].dflt = None
               THEN [draft[p] EXCEPT !.dflt = file.dflt]
               ELSE draft[p]
    /\ ledger' = Effect(ledger, cmd[p])
    /\ pc' = [pc EXCEPT ![p] = "unlocking"]
    /\ answer' = [answer EXCEPT ![p] = "ok"]
    /\ draft' = [draft EXCEPT ![p] = None]
    /\ overtaken' = overtaken \ {p}
    /\ UNCHANGED <<holder, cmd, calls, damages>>

\* JsonFiles.write: the rename is the commit point.
Commit(p) ==
    /\ pc[p] = "moving"
    /\ file' = draft[p]
    /\ ledger' = Effect(ledger, cmd[p])
    /\ pc' = [pc EXCEPT ![p] = "unlocking"]
    /\ answer' = [answer EXCEPT ![p] = "ok"]
    /\ draft' = [draft EXCEPT ![p] = None]
    /\ overtaken' = overtaken \ {p}
    /\ UNCHANGED <<holder, cmd, calls, damages>>

\* Mutant: a failed write is reported as done.
WriteFailsSilently(p) ==
    /\ pc[p] = "moving"
    /\ GiveUp(p, "ok")
    /\ overtaken' = overtaken \ {p}

\* The temporary file could not be written or renamed.
WriteFails(p) ==
    /\ pc[p] = "moving"
    /\ GiveUp(p, "failed")
    /\ overtaken' = overtaken \ {p}

Unlock(p) ==
    /\ pc[p] = "unlocking"
    /\ holder' = [holder EXCEPT ![SpaceOf(p)] = None]
    /\ pc' = [pc EXCEPT ![p] = "replying"]
    /\ UNCHANGED <<file, cmd, draft, answer, calls, damages, ledger, overtaken>>

Reply(p) ==
    /\ pc[p] = "replying"
    /\ pc' = [pc EXCEPT ![p] = "idle"]
    /\ cmd' = [cmd EXCEPT ![p] = None]
    /\ answer' = [answer EXCEPT ![p] = "none"]
    /\ UNCHANGED <<file, holder, draft, calls, damages, ledger, overtaken>>

\* Mutant: the lock of a dead process stays taken.
CrashHolding(p) ==
    /\ pc[p] # "idle"
    /\ pc' = [pc EXCEPT ![p] = "idle"]
    /\ cmd' = [cmd EXCEPT ![p] = None]
    /\ draft' = [draft EXCEPT ![p] = None]
    /\ answer' = [answer EXCEPT ![p] = "none"]
    /\ overtaken' = overtaken \ {p}
    /\ UNCHANGED <<file, holder, calls, damages, ledger>>

\* Environment.  The kernel drops the lock of a process that dies.
Crash(p) ==
    /\ pc[p] # "idle"
    /\ pc' = [pc EXCEPT ![p] = "idle"]
    /\ cmd' = [cmd EXCEPT ![p] = None]
    /\ draft' = [draft EXCEPT ![p] = None]
    /\ answer' = [answer EXCEPT ![p] = "none"]
    /\ holder' = [s \in Spaces |-> IF holder[s] = p THEN None ELSE holder[s]]
    /\ overtaken' = overtaken \ {p}
    /\ UNCHANGED <<file, calls, damages, ledger>>

\* Environment.  Somebody edits the file into something unreadable.
Damage ==
    /\ damages < MaxDamage
    /\ file # Damaged
    /\ file' = Damaged
    /\ damages' = damages + 1
    /\ overtaken' = {p \in Procs : pc[p] = "moving"}
    /\ UNCHANGED <<holder, procVars, calls, ledger>>

Work(p) ==
    \/ Lock(p) \/ Load(p) \/ LoadRefused(p) \/ Recheck(p)
    \/ Commit(p) \/ WriteFails(p) \/ Unlock(p) \/ Reply(p)

Next ==
    \/ \E p \in Procs : Work(p) \/ Crash(p) \/ \E c \in Command : Call(p, c)
    \/ Damage

Spec == Init /\ [][Next]_vars

\* A running process is eventually scheduled, and a lock that stays free is
\* eventually granted to a process that waits for it.
FairSpec == Spec /\ \A p \in Procs : WF_vars(Work(p))
-----------------------------------------------------------------------------
(* Safety                                                                  *)

(* Two processes that take the same kind of lock are never both between    *)
(* acquiring and releasing it (withConfigLock), whatever crashes.          *)
MutualExclusion ==
    \A p, q \in Procs :
        (p # q /\ SpaceOf(p) = SpaceOf(q)) => ~(pc[p] \in Critical /\ pc[q] \in Critical)

(* No acknowledged command is lost: whenever config.json can be read, it   *)
(* holds the effect of every command committed so far, one after another.  *)
CommittedChangesKept == file # Damaged => Content(file) = ledger

(* What save() wrote, load() accepts: in particular the default workspace  *)
(* is registered, whichever commands were interleaved.                     *)
SavedFileLoads == file \notin {NoFile, Damaged} => Valid(file)

Shared(c) == {n \in Registered(c) : PathOwners(c, c.path[n]) # {n}}

(* No command makes two names share a path, although a configuration from  *)
(* an older version may already have such names.                           *)
NoNewSharedPaths ==
    [][{file, file'} \cap {Damaged} = {} =>
            Shared(Content(file')) \subseteq Shared(Content(file))]_vars

(* A committed command changes no other workspace: path and IDEs of every  *)
(* name it was not given stay what they were in the file it replaces, and  *)
(* only `ides' and `remove' touch the IDEs of the name it was given.       *)
OthersUntouched ==
    [][\A p \in Procs :
        (pc[p] = "moving" /\ answer'[p] = "ok" /\ file # Damaged) =>
            \A n \in Names :
                LET old == Content(file)
                    new == Content(file')
                IN  /\ n \notin NamedBy(cmd[p]) => new.path[n] = old.path[n]
                    /\ \/ n \in NamedBy(cmd[p]) /\ cmd[p].op \in {"ides", "remove"}
                       \/ new.ides[n] = old.ides[n]]_vars

(* A damaged file is never replaced, except by a process that had already  *)
(* read it again when it was damaged.                                      *)
DamagedFileKept ==
    [][(file = Damaged /\ file' # Damaged) =>
            \E p \in overtaken : pc[p] = "moving" /\ pc'[p] # "moving"]_vars

(* Liveness                                                                *)

(* Every command that is waiting, working or replying comes to an end.     *)
CommandsEnd == \A p \in Procs : (pc[p] # "idle") ~> (pc[p] = "idle")

(* What liveness rests on, and can be proved.  A command only ever goes    *)
(* forward: each of its steps takes it nearer to its end, and nobody else  *)
(* moves it.                                                               *)
StepsLeft(place) ==
    CASE place = "locking"   -> 6
      [] place = "loading"   -> 5
      [] place = "saving"    -> 4
      [] place = "moving"    -> 3
      [] place = "unlocking" -> 2
      [] place = "replying"  -> 1
      [] place = "idle"      -> 0

CommandsAdvance ==
    [][\A p \in Procs :
        /\ (pc[p] # "idle" /\ (Work(p) \/ pc'[p] # pc[p])) =>
               StepsLeft(pc'[p]) < StepsLeft(pc[p])
        /\ Work(p) => \A q \in Procs \ {p} : pc'[q] = pc[q]]_vars

(* Nobody waits for a lock in vain: it is free, or its holder is a process *)
(* of the same lock table that is at work between locking and unlocking.   *)
HolderAtWork ==
    \A s \in Spaces : holder[s] # None =>
        SpaceOf(holder[s]) = s /\ pc[holder[s]] \in Critical

(* The parts of the inductive invariant behind the theorems.               *)

\* A process at work has a command, and a configuration once it has loaded.
LocalInv ==
    \A p \in Procs :
        /\ pc[p] # "idle" => cmd[p] \in Command
        /\ pc[p] \in {"saving", "moving"} => draft[p] \in Config /\ Valid(draft[p])

\* A process in the critical section holds its lock.
LockInv == \A p \in Procs : pc[p] \in Critical => holder[SpaceOf(p)] = p

\* Whoever is about to rename over a damaged file had re-read it before.
OvertakenInv ==
    file = Damaged => \A p \in Procs : pc[p] = "moving" => p \in overtaken

\* What is about to be saved is an allowed change of everything committed.
DraftInv ==
    \A p \in Procs :
        pc[p] \in {"saving", "moving"} =>
            Allowed(ledger, cmd[p]) /\ draft[p] = Effect(ledger, cmd[p])

IndInv == TypeOK /\ LocalInv /\ LockInv /\ SavedFileLoads /\ OvertakenInv

KeptInv == CommittedChangesKept /\ DraftInv

\* There is no answer before the work is done.
AnswerInv == \A p \in Procs : pc[p] \notin {"unlocking", "replying"} => answer[p] = "none"

\* Where nobody edits by hand, work goes on only while the file is sound.
SoundInv ==
    /\ damages = 0
    /\ \A p \in Procs : pc[p] \in {"saving", "moving"} => file # Damaged

(* Refinement: with one lock, the processes and the file implement the     *)
(* atomic registry.  The command takes effect at the rename.               *)
Registry == INSTANCE AtomicRegistry WITH
    Unreadable <- Damaged,
    AskLimit   <- MaxCalls,
    registry   <- Content(file),
    stage      <- [p \in Procs |->
                      IF pc[p] = "idle" THEN "idle"
                      ELSE IF pc[p] \in {"unlocking", "replying"} THEN "decided"
                      ELSE "asked"],
    request    <- cmd,
    reply      <- answer,
    asked      <- calls

ImplementsAtomicRegistry == Registry!ASpec
=============================================================================
