-------------------------- MODULE WorkspaceLifecycle --------------------------
(***************************************************************************)
(* `workspace apply' and `workspace revert' on one workspace directory.    *)
(* apply inspects the directory, the manifest and the vault, and plans;    *)
(* then it makes the missing service directories, records them as its own, *)
(* links the vault's skills into the IDE profiles, saves the manifest of   *)
(* those links, and registers the workspace.  revert plans from the record *)
(* and the manifest and undoes in the same order.  The plan is computed    *)
(* once; while it is carried out its owner may change the directory, and   *)
(* the process may die after any step.                                     *)
(*                                                                         *)
(* Whether a directory is somebody's data is all that matters of it; a     *)
(* "link" may point to a directory of any kind, and "file" is whatever is  *)
(* neither.  "data" at a destination is a file or a directory.  Every IDE  *)
(* profile links its skills.                                               *)
(***************************************************************************)
EXTENDS Naturals, FiniteSets

CONSTANTS
    Services,    \* the service directories under integrations/
    Ides,        \* the supported IDEs
    Skills,      \* skill names
    Vaults,      \* AI Vault directories; each of them stays where it is
    Offers,      \* the skills a vault's manifest offers each IDE
    None,
    AdoptFlags,  \* the values of --adopt in use
    CrashIn,     \* the commands that may die half way
    Resolves,    \* whether revert may find the vault, and may fail to
    Interleaved, \* the owner works in the directory while a command runs
    Remakes,     \* the owner makes service directories the framework once made
    Narrows,     \* the owner drops IDEs (`workspace ides', `unregister')
    MaxCommands, \* bound: commands issued
    MaxEdits     \* bound: changes by the owner

ASSUME LifecycleAssumption ==
    /\ Offers \in [Vaults -> [Ides -> SUBSET Skills]]
    /\ AdoptFlags \subseteq BOOLEAN /\ Resolves \subseteq BOOLEAN
    /\ CrashIn \subseteq {"apply", "revert"}
    /\ {Interleaved, Remakes, Narrows} \subseteq BOOLEAN
    /\ {None, "absent", "data", "foreign"} \cap Vaults = {}
    /\ MaxCommands \in Nat /\ MaxEdits \in Nat

VARIABLES
    dir,        \* what each service directory is
    created,    \* .ai-worklog/created.json: directories recorded as made
    dest,       \* what stands where a skill is linked
    records,    \* the setup manifest
    registered, \* the global configuration knows the workspace ...
    ides,       \* ... with these IDEs
    job,        \* the command that is running, and its plan
    commands, edits,
    \* observed, not implemented
    dirMaker, destMaker,  \* who made what stands there
    last,       \* the command that succeeded, if nothing happened since
    cut,        \* an apply was once cut short
    touched     \* destinations the owner has changed since the running
                \* command last looked at them

disk == <<dir, created, dest, records, dirMaker, destMaker>>
config == <<registered, ides>>
seen == <<last, cut, touched>>
vars == <<disk, config, job, commands, edits, seen>>

Slot == Ides \X Skills
Link == Vaults \cup {"foreign"}
Record == [source : Vaults, here : BOOLEAN]
Maker == {"owner", "framework"}

ASSUME RecordAssumption == None \notin Record

DirState == {"absent", "empty", "filled", "link", "file"}

\* `cleared' is the slot on which the next step acts: apply has made room there
\* for its link, or revert has found it fit for removal.
Job ==
    [op : {"apply", "revert"}, step : {"dirs", "skills", "manifest", "register", "ides"},
     ides : SUBSET Ides, only : SUBSET Ides, vault : Vaults \cup {None},
     adopt : BOOLEAN, planned : SUBSET Services, dirs : SUBSET Services,
     slots : SUBSET Slot, cleared : SUBSET Slot, records : [Slot -> Record \cup {None}]]

ASSUME JobAssumption == None \notin Job

TypeOK ==
    /\ dir \in [Services -> DirState]
    /\ created \subseteq Services
    /\ dest \in [Slot -> {"absent", "data"} \cup Link]
    /\ records \in [Slot -> Record \cup {None}]
    /\ registered \in BOOLEAN
    /\ ides \subseteq Ides
    /\ job \in Job \cup {None}
    /\ commands \in 0..MaxCommands
    /\ edits \in 0..MaxEdits
    /\ dirMaker \in [Services -> Maker]
    /\ destMaker \in [Slot -> Maker]
    /\ last \in Job \cup {None}
    /\ cut \in BOOLEAN
    /\ touched \subseteq Slot

Init ==
    /\ dir = [s \in Services |-> "absent"]
    /\ created = {}
    /\ dest = [x \in Slot |-> "absent"]
    /\ records = [x \in Slot |-> None]
    /\ registered = FALSE
    /\ ides = {}
    /\ job = None
    /\ commands = 0
    /\ edits = 0
    /\ dirMaker = [s \in Services |-> "owner"]
    /\ destMaker = [x \in Slot |-> "owner"]
    /\ last = None
    /\ cut = FALSE
    /\ touched = {}
-----------------------------------------------------------------------------
(* Planning                                                                *)

\* Mutant: only links in the manifest are known.
DispositionByRecord(x, vault, adopt) ==
    CASE dest[x] = "absent" -> "create"
      [] dest[x] = vault /\ records[x] # None -> "skip"
      [] OTHER -> IF adopt THEN "update" ELSE "conflict"

\* Mutant: whatever is no link of the vault is brought up to date.
DispositionBold(x, vault, adopt) ==
    CASE dest[x] = "absent" -> "create"
      [] dest[x] = vault /\ records[x] # None -> "skip"
      [] dest[x] = vault /\ records[x] = None -> "adopt"
      [] OTHER -> "update"

\* inspectDestination: what apply decides about a destination.
Disposition(x, vault, adopt) ==
    CASE dest[x] = "absent" -> "create"
      [] dest[x] = vault /\ records[x] # None -> "skip"
      [] dest[x] = vault /\ records[x] = None -> "adopt"
      [] /\ dest[x] \in Vaults \ {vault}
         /\ records[x] # None /\ records[x].source = dest[x] -> "update"
      [] OTHER -> IF adopt THEN "update" ELSE "conflict"

\* Mutant: the record of a link that is up to date is built again.
NewRecordAfresh(x, vault, adopt) == [source |-> vault, here |-> dest[x] \notin Link]

\* Mutant: the source recorded is what the destination held before.
NewRecordOfBefore(x, vault, adopt) ==
    [source |-> dest[x], here |-> dest[x] \notin Link]

\* buildSkillRecord canonicalises the destination, so that a link that is
\* already there is recorded under the path it points to.
NewRecord(x, vault, adopt) ==
    IF Disposition(x, vault, adopt) = "skip"
    THEN records[x]
    ELSE [source |-> vault, here |-> dest[x] \notin Link]

Wanted(chosen, vault) == {x \in Slot : x[1] \in chosen /\ x[2] \in Offers[vault][x[1]]}

Blocked(chosen, vault, adopt) ==
    \/ \E s \in Services : dir[s] = "file"
    \/ \E x \in Wanted(chosen, vault) : Disposition(x, vault, adopt) = "conflict"

ApplyPlan(chosen, vault, adopt) ==
    LET missing == {s \in Services : dir[s] = "absent"} IN
    [op      |-> "apply",
     step    |-> "dirs",
     ides    |-> chosen,
     only    |-> {},
     vault   |-> vault,
     adopt   |-> adopt,
     planned |-> missing,
     dirs    |-> missing,
     slots   |-> {x \in Wanted(chosen, vault) :
                      Disposition(x, vault, adopt) \in {"create", "update"}},
     cleared |-> {},
     records |-> [x \in Slot |-> IF x \in Wanted(chosen, vault)
                                 THEN NewRecord(x, vault, adopt)
                                 ELSE None]]

\* canRemoveSkillArtifact: the link that is recorded, or nothing at all.
Removable(x) == records[x].here /\ dest[x] \in {"absent", records[x].source}

Recorded(rs) == {x \in Slot : rs[x] # None}

\* Mutant: every empty service directory goes, recorded or not.
RemovableDirsAll == {s \in Services : dir[s] = "empty"}

\* retainReason: what is recorded as made, and still a directory and empty.
RemovableDirs == {s \in created : dir[s] = "empty"}

\* Mutant: --ide is ignored.
RevertedAll(only) == Recorded(records)

Reverted(only) == {x \in Recorded(records) : only = {} \/ x[1] \in only}

\* Without a vault to name in it no manifest is kept, whatever remains.
RevertPlan(only, found) ==
    LET kept == Recorded(records) \ Reverted(only) IN
    [op      |-> "revert",
     step    |-> "dirs",
     ides    |-> {x[1] : x \in kept},
     only    |-> only,
     vault   |-> None,
     adopt   |-> FALSE,
     planned |-> RemovableDirs,
     dirs    |-> RemovableDirs,
     slots   |-> {x \in Reverted(only) : Removable(x)},
     cleared |-> {},
     records |-> [x \in Slot |-> IF x \in kept /\ found THEN records[x] ELSE None]]
-----------------------------------------------------------------------------
(* Commands                                                                *)

Begin(plan) ==
    /\ job = None
    /\ commands < MaxCommands
    /\ commands' = commands + 1
    /\ last' = None
    /\ job' = plan
    /\ touched' = {}
    /\ UNCHANGED <<disk, edits, cut>>

\* Requested IDEs are added to the registered ones; conflicts stop it all.
Apply(requested, vault, adopt) ==
    LET chosen == ides \cup requested IN
    /\ Begin(IF Blocked(chosen, vault, adopt) THEN None ELSE ApplyPlan(chosen, vault, adopt))
    /\ UNCHANGED config

Revert(only, found) ==
    /\ registered
    /\ Begin(RevertPlan(only, found))
    /\ UNCHANGED config

\* `workspace ides' replaces the registered IDEs and touches nothing else.
ChooseIdes(chosen) ==
    /\ registered
    /\ Narrows \/ ides \subseteq chosen
    /\ Begin(None)
    /\ ides' = chosen
    /\ UNCHANGED registered

\* `workspace unregister' leaves the directory and the manifest as they are.
Unregister ==
    /\ registered /\ Narrows
    /\ Begin(None)
    /\ registered' = FALSE
    /\ ides' = {}

At(op, step) == job # None /\ job.op = op /\ job.step = step

Advance(step) == job' = [job EXCEPT !.step = step]

\* createDirectories: a directory that has appeared since will do as well, and
\* so may a link to one.
MakeDir(s) ==
    /\ At("apply", "dirs") /\ s \in job.dirs
    /\ dir[s] # "file"
    /\ dir' = [dir EXCEPT ![s] = IF @ = "absent" THEN "empty" ELSE @]
    /\ dirMaker' = [dirMaker EXCEPT ![s] = IF dir[s] = "absent" THEN "framework" ELSE @]
    /\ job' = [job EXCEPT !.dirs = @ \ {s}]
    /\ UNCHANGED <<created, dest, records, destMaker, config, commands, edits, seen>>

\* Once all are made, every directory that was planned is recorded.
RecordCreated ==
    /\ At("apply", "dirs") /\ job.dirs = {}
    /\ created' = created \cup job.planned
    /\ Advance("skills")
    /\ UNCHANGED <<dir, dest, records, dirMaker, destMaker, config, commands, edits, seen>>

\* Whatever stands there by now makes way for the link.
ClearDest(x) ==
    /\ At("apply", "skills") /\ x \in job.slots /\ job.cleared = {}
    /\ dest' = [dest EXCEPT ![x] = "absent"]
    /\ job' = [job EXCEPT !.cleared = {x}]
    /\ UNCHANGED <<dir, created, records, dirMaker, destMaker, config, commands, edits, seen>>

LinkSkill(x) ==
    /\ At("apply", "skills") /\ x \in job.cleared
    /\ dest[x] = "absent"
    /\ dest' = [dest EXCEPT ![x] = job.vault]
    /\ destMaker' = [destMaker EXCEPT ![x] = "framework"]
    /\ job' = [job EXCEPT !.slots = @ \ {x}, !.cleared = {}]
    /\ UNCHANGED <<dir, created, records, dirMaker, config, commands, edits, seen>>

\* Mutant: the plan is not checked against what is there by now.
RemoveDirAsPlanned(s) ==
    /\ At("revert", "dirs") /\ s \in job.dirs
    /\ dir' = [dir EXCEPT ![s] = "absent"]
    /\ job' = [job EXCEPT !.dirs = @ \ {s}]
    /\ UNCHANGED <<created, dest, records, dirMaker, destMaker, config, commands, edits, seen>>

\* Only what is still an empty directory is removed.  A link that has taken
\* its place is followed by that test: Groovy deletes one to an empty directory.
RemoveDir(s) ==
    /\ At("revert", "dirs") /\ s \in job.dirs
    /\ \E after \in IF dir[s] = "empty" THEN {"absent"}
                    ELSE IF dir[s] = "link" THEN {"absent", "link"} ELSE {dir[s]} :
           dir' = [dir EXCEPT ![s] = after]
    /\ job' = [job EXCEPT !.dirs = @ \ {s}]
    /\ UNCHANGED <<created, dest, records, dirMaker, destMaker, config, commands, edits, seen>>

DirsRemoved ==
    /\ At("revert", "dirs") /\ job.dirs = {}
    /\ Advance("skills")
    /\ UNCHANGED <<disk, config, commands, edits, seen>>

\* Mutant: the destination is not inspected again.
CheckSkillAsPlanned(x) ==
    /\ At("revert", "skills") /\ x \in job.slots /\ job.cleared = {}
    /\ touched' = touched \ {x}
    /\ job' = [job EXCEPT !.cleared = {x}]
    /\ UNCHANGED <<disk, config, commands, edits, last, cut>>

\* removeSkillArtifact asks canRemoveSkillArtifact again, ...
CheckSkill(x) ==
    /\ At("revert", "skills") /\ x \in job.slots /\ job.cleared = {}
    /\ touched' = touched \ {x}
    /\ job' = IF Removable(x) THEN [job EXCEPT !.cleared = {x}]
              ELSE [job EXCEPT !.slots = @ \ {x}]
    /\ UNCHANGED <<disk, config, commands, edits, last, cut>>

\* ... and then deletes what it finds: a link wherever it points, a directory
\* with all that is in it; a file only if it has just replaced a link.
RemoveSkill(x) ==
    /\ At("revert", "skills") /\ x \in job.cleared
    /\ \E after \in IF dest[x] = "data" THEN {"absent", "data"} ELSE {"absent"} :
           dest' = [dest EXCEPT ![x] = after]
    /\ job' = [job EXCEPT !.slots = @ \ {x}, !.cleared = {}]
    /\ UNCHANGED <<dir, created, records, dirMaker, destMaker, config, commands, edits, seen>>

SkillsDone ==
    /\ job # None /\ job.step = "skills" /\ job.slots = {}
    /\ Advance("manifest")
    /\ UNCHANGED <<disk, config, commands, edits, seen>>

\* The manifest is written after all the links, and deleted when empty.
SaveManifest ==
    /\ job # None /\ job.step = "manifest"
    /\ records' = job.records
    /\ Advance(IF job.op = "apply" THEN "register" ELSE "ides")
    /\ UNCHANGED <<dir, created, dest, dirMaker, destMaker, config, commands, edits, seen>>

Succeed == job' = None /\ last' = job

AddWorkspace ==
    /\ At("apply", "register")
    /\ registered' = TRUE
    /\ Advance("ides")
    /\ UNCHANGED <<disk, ides, commands, edits, seen>>

\* apply, and a revert of some IDEs, end with the IDEs of their plan.
SetIdes ==
    /\ job # None /\ job.step = "ides"
    /\ ides' = job.ides
    /\ IF job.op = "revert" /\ job.only = {}
       THEN Advance("register") /\ UNCHANGED last
       ELSE Succeed
    /\ UNCHANGED <<disk, registered, commands, edits, cut, touched>>

RemoveWorkspace ==
    /\ At("revert", "register")
    /\ registered' = FALSE
    /\ ides' = {}
    /\ Succeed
    /\ UNCHANGED <<disk, commands, edits, cut, touched>>

\* The process dies, or a step throws: what was done stays done.
Stop ==
    /\ job # None
    /\ \/ job.op \in CrashIn
       \/ At("apply", "dirs") /\ \E s \in job.dirs : dir[s] \in {"link", "file"}
       \/ At("revert", "dirs") /\ \E s \in job.dirs : dir[s] = "link"
       \/ At("apply", "skills") /\ \E x \in job.cleared : dest[x] # "absent"
       \/ At("revert", "skills") /\ \E x \in job.cleared : ~Removable(x)
    /\ job' = None
    /\ cut' = (cut \/ job.op = "apply")
    /\ UNCHANGED <<disk, config, commands, edits, last, touched>>
-----------------------------------------------------------------------------
(* The owner of the workspace                                              *)

Edit ==
    /\ edits < MaxEdits
    /\ Interleaved \/ job = None
    /\ edits' = edits + 1
    /\ last' = None
    /\ UNCHANGED <<created, records, config, job, commands, cut>>

Held(state) == state \in {"empty", "filled"}

EditDir(s, state) ==
    /\ Edit
    /\ dir[s] # state
    /\ (s \in created /\ ~Held(dir[s]) /\ Held(state)) => Remakes
    /\ dir' = [dir EXCEPT ![s] = state]
    /\ dirMaker' = [dirMaker EXCEPT
           ![s] = IF Held(dir[s]) /\ Held(state) THEN @ ELSE "owner"]
    /\ UNCHANGED <<dest, destMaker, touched>>

EditDest(x, state) ==
    /\ Edit
    /\ dest[x] # state
    /\ dest' = [dest EXCEPT ![x] = state]
    /\ destMaker' = [destMaker EXCEPT ![x] = "owner"]
    /\ touched' = IF job = None THEN touched ELSE touched \cup {x}
    /\ UNCHANGED <<dir, dirMaker>>

Command ==
    \/ \E requested \in (SUBSET Ides) \ {{}}, vault \in Vaults, adopt \in AdoptFlags :
           Apply(requested, vault, adopt)
    \/ \E only \in SUBSET Ides, found \in Resolves : Revert(only, found)
    \/ \E chosen \in (SUBSET Ides) \ {{}} : ChooseIdes(chosen)
    \/ Unregister

Work ==
    \/ \E s \in Services : MakeDir(s) \/ RemoveDir(s)
    \/ \E x \in Slot : ClearDest(x) \/ LinkSkill(x) \/ CheckSkill(x) \/ RemoveSkill(x)
    \/ RecordCreated \/ DirsRemoved \/ SkillsDone \/ SaveManifest
    \/ AddWorkspace \/ SetIdes \/ RemoveWorkspace

Owner ==
    \/ \E s \in Services, state \in DirState : EditDir(s, state)
    \/ \E x \in Slot, state \in {"absent", "data"} \cup Link : EditDest(x, state)

Next == Command \/ Work \/ Stop \/ Owner

Spec == Init /\ [][Next]_vars
-----------------------------------------------------------------------------
(* Safety                                                                  *)

\* A step of the framework and not of the owner.
ByFramework == edits' = edits

(* A service directory that holds something is never removed, however the  *)
(* owner's work is interleaved with revert's plan and its execution        *)
(* (WorkspacePlanner.apply tests again before it deletes).                 *)
FilledDirsKept ==
    [][\A s \in Services :
        (ByFramework /\ dir[s] = "filled") => dir'[s] = "filled"]_vars

(* revert takes away only what the framework made and left empty: never a  *)
(* directory its owner made (WorkspacePlanner.planRevert, retainReason).   *)
OwnDirsOnly ==
    [][\A s \in Services :
        (ByFramework /\ dir[s] # "absent" /\ dir'[s] = "absent")
            => dirMaker[s] = "framework"]_vars

(* Without --adopt, apply replaces no file, directory or link of the       *)
(* owner's, but what has been put there since it planned: it decides by    *)
(* inspectDestination before it writes anything, and then applySkillAction *)
(* deletes what it meets.                                                  *)
OwnersDataKept ==
    [][\A x \in Slot :
        (/\ ByFramework /\ job # None /\ job.op = "apply"
         /\ dest[x] \in {"data", "foreign"} /\ dest'[x] # dest[x])
            => job.adopt \/ x \in touched]_vars

(* revert deletes nothing but the link the manifest names, whatever took   *)
(* its place since it planned; only what takes its place in the moment     *)
(* between the last look at it and the deletion goes instead               *)
(* (removeSkillArtifact).                                                  *)
RevertRemovesLinksOnly ==
    [][\A x \in Slot :
        (ByFramework /\ job # None /\ job.op = "revert" /\ dest'[x] # dest[x])
            => \/ records[x] # None /\ records[x].here /\ dest[x] = records[x].source
               \/ x \in job.cleared \cap touched]_vars

(* Once apply has succeeded, and until something else happens, the same    *)
(* apply finds nothing to do: no directory, no link, no change of the      *)
(* manifest or of the registered IDEs.                                     *)
Converged ==
    (last # None /\ last.op = "apply") =>
        LET again == ApplyPlan(ides, last.vault, FALSE) IN
        /\ registered
        /\ ~Blocked(ides, last.vault, FALSE)
        /\ again.dirs = {} /\ again.slots = {}
        /\ again.records = records

(* What blocks an apply is always the owner's doing: the framework never   *)
(* trips over a link of its own, not even after it was cut short           *)
(* (inspectDestination tells `stale' and `matching' from `foreign').       *)
ConflictsAreTheOwners ==
    \A x \in Slot, v \in Vaults :
        Disposition(x, v, FALSE) = "conflict" => destMaker[x] = "owner"

(* Once the whole workspace is reverted no link remains that the framework *)
(* has made, if no apply was cut short; reverts may have been.             *)
RevertLeavesNoLink ==
    (~cut /\ last # None /\ last.op = "revert" /\ last.only = {}) =>
        \A x \in Slot : destMaker[x] = "framework" => dest[x] \notin Vaults

(* A revert of some IDEs leaves links and manifest entries of the others   *)
(* alone (planSetupRevert, applyRevertPlan).                               *)
RevertKeepsOtherIdes ==
    [][(ByFramework /\ job # None /\ job.op = "revert" /\ job.only # {}) =>
        \A x \in Slot : x[1] \notin job.only =>
            dest'[x] = dest[x] /\ records'[x] = records[x]]_vars

(* The parts of the inductive invariants behind the theorems.              *)

\* apply always has a vault, revert undoes what is recorded, and only a link
\* that is planned is ever half done.
JobInv ==
    job # None =>
        /\ job.cleared \subseteq job.slots
        /\ job.step # "skills" => job.cleared = {}
        /\ job.op = "apply" => job.vault \in Vaults
        /\ job.op = "revert" =>
               /\ job.dirs \subseteq created
               /\ job.step \in {"dirs", "skills"} => job.slots \subseteq Recorded(records)

\* What the framework put at a destination is a link into a vault.
LinkInv == \A x \in Slot : destMaker[x] = "framework" => dest[x] \in Vaults \cup {"absent"}

\* Without --adopt no plan to link names the owner's data as it was then, ...
PlanInv ==
    (job # None /\ job.op = "apply" /\ ~job.adopt) =>
        \A x \in job.slots : x \in touched \/ dest[x] \in Vaults \cup {"absent"}

\* ... what a revert is about to remove was fit for it when last looked at, ...
CheckedInv ==
    (job # None /\ job.op = "revert") =>
        \A x \in job.cleared : x \in touched \/ (records[x] # None /\ Removable(x))

\* ... what a revert will remove while its owner keeps away is empty, ...
EmptyInv == At("revert", "dirs") => \A s \in job.dirs : dir[s] = "empty"

\* ... and the directories of a plan are absent until the framework makes them.
PlannedInv ==
    At("apply", "dirs") =>
        /\ \A s \in job.dirs : dir[s] = "absent"
        /\ \A s \in job.planned \ job.dirs : dirMaker[s] = "framework"

\* What is recorded and there was made by the framework.
RecordedInv == \A s \in created : Held(dir[s]) => dirMaker[s] = "framework"

\* A revert of some IDEs plans to leave the others alone.
OnlyInv ==
    (job # None /\ job.op = "revert" /\ job.only # {}) =>
        \A x \in Slot : x[1] \notin job.only =>
            x \notin job.slots /\ job.records[x] = records[x]

\* What is left of a plan to apply: the rest is there already.
Rest(plan) ==
    /\ \A x \in Slot : (plan.records[x] # None) = (x \in Wanted(plan.ides, plan.vault))
    /\ \A x \in Wanted(plan.ides, plan.vault) : x \in plan.slots \/ dest[x] = plan.vault
    /\ \A s \in Services : s \in plan.dirs \/ dir[s] \notin {"absent", "file"}

\* An apply goes through its steps in order, ...
ApplyInv ==
    (job # None /\ job.op = "apply") =>
        /\ Rest(job)
        /\ job.step # "dirs" => job.dirs = {}
        /\ job.step \in {"manifest", "register", "ides"} => job.slots = {}
        /\ job.step \in {"register", "ides"} => records = job.records
        /\ job.step = "ides" => registered

\* ... and has left nothing undone when it succeeds.
LastInv ==
    /\ job # None => last = None
    /\ (last # None /\ last.op = "apply") =>
           /\ Rest(last)
           /\ last.dirs = {} /\ last.slots = {}
           /\ records = last.records /\ ides = last.ides /\ registered
           /\ last.vault \in Vaults

IndInv == TypeOK /\ JobInv /\ LinkInv
=============================================================================
