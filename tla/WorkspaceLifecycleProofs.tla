----------------------- MODULE WorkspaceLifecycleProofs -----------------------
(***************************************************************************)
(* Proofs about WorkspaceLifecycle for every number of service             *)
(* directories, IDEs, skills and vaults.                                   *)
(***************************************************************************)
EXTENDS WorkspaceLifecycle, TLAPS

LEMMA InitIndInv == Init => IndInv
  <1>. SUFFICES ASSUME Init PROVE IndInv
    OBVIOUS
  <1>1. TypeOK
    <2>1. commands \in 0..MaxCommands /\ edits \in 0..MaxEdits
      BY LifecycleAssumption DEF Init
    <2>2. registered \in BOOLEAN /\ cut \in BOOLEAN
      BY DEF Init
    <2>3. job \in Job \cup {None} /\ last \in Job \cup {None}
      BY DEF Init
    <2>. QED
      BY <2>1, <2>2, <2>3 DEF Init, TypeOK, DirState, Maker
  <1>2. JobInv /\ LinkInv
    BY DEF Init, JobInv, LinkInv
  <1>. QED
    BY <1>1, <1>2 DEF IndInv

(* What the planners return is a plan.                                     *)
LEMMA ApplyPlanType ==
    ASSUME TypeOK, NEW chosen \in SUBSET Ides, NEW vault \in Vaults, NEW adopt \in BOOLEAN
    PROVE  ApplyPlan(chosen, vault, adopt) \in Job
  <1>1. \A x \in Slot : NewRecord(x, vault, adopt) \in Record
    <2>1. SUFFICES ASSUME NEW x \in Slot PROVE NewRecord(x, vault, adopt) \in Record
      OBVIOUS
    <2>2. CASE Disposition(x, vault, adopt) = "skip"
      <3>1. records[x] # None
        BY <2>2 DEF Disposition
      <3>. QED
        BY <2>2, <3>1 DEF NewRecord, TypeOK
    <2>3. CASE Disposition(x, vault, adopt) # "skip"
      BY <2>3 DEF NewRecord, Record
    <2>. QED
      BY <2>2, <2>3
  <1>2. [x \in Slot |-> IF x \in Wanted(chosen, vault) THEN NewRecord(x, vault, adopt) ELSE None]
            \in [Slot -> Record \cup {None}]
    BY <1>1
  <1>3. {x \in Wanted(chosen, vault) : Disposition(x, vault, adopt) \in {"create", "update"}}
            \in SUBSET Slot
    BY DEF Wanted
  <1>. QED
    BY <1>2, <1>3 DEF ApplyPlan, Job

LEMMA RevertPlanType ==
    ASSUME TypeOK, NEW only \in SUBSET Ides, NEW found \in BOOLEAN
    PROVE  RevertPlan(only, found) \in Job
  <1>. DEFINE kept == Recorded(records) \ Reverted(only)
  <1>1. kept \subseteq Slot
    BY DEF Recorded
  <1>2. {x[1] : x \in kept} \in SUBSET Ides
    BY <1>1 DEF Slot
  <1>3. RemovableDirs \in SUBSET Services
    BY DEF RemovableDirs, TypeOK
  <1>4. {x \in Reverted(only) : Removable(x)} \in SUBSET Slot
    BY DEF Reverted, Recorded
  <1>5. [x \in Slot |-> IF x \in kept /\ found THEN records[x] ELSE None]
            \in [Slot -> Record \cup {None}]
    BY DEF TypeOK
  <1>. QED
    BY <1>2, <1>3, <1>4, <1>5 DEF RevertPlan, Job

LEMMA CommandType == TypeOK /\ Command => TypeOK'
  <1>. SUFFICES ASSUME TypeOK, Command PROVE TypeOK'
    OBVIOUS
  <1>1. ASSUME NEW plan, Begin(plan), plan \in Job \cup {None},
               registered' \in BOOLEAN, ides' \subseteq Ides
        PROVE  TypeOK'
    <2>1. commands' \in 0..MaxCommands
      BY <1>1, LifecycleAssumption DEF TypeOK, Begin
    <2>. QED
      BY <1>1, <2>1 DEF TypeOK, Begin, disk
  <1>2. ASSUME NEW requested \in SUBSET Ides, NEW vault \in Vaults, NEW adopt \in AdoptFlags,
               Apply(requested, vault, adopt)
        PROVE  TypeOK'
    <2>1. ides \cup requested \in SUBSET Ides /\ adopt \in BOOLEAN
      BY LifecycleAssumption DEF TypeOK
    <2>2. ApplyPlan(ides \cup requested, vault, adopt) \in Job
      BY <2>1, ApplyPlanType
    <2>3. UNCHANGED config
      BY <1>2 DEF Apply
    <2>. QED
      BY <1>1, <1>2, <2>2, <2>3 DEF Apply, config, TypeOK
  <1>3. ASSUME NEW only \in SUBSET Ides, NEW found \in Resolves, Revert(only, found)
        PROVE  TypeOK'
    <2>1. RevertPlan(only, found) \in Job
      BY RevertPlanType, LifecycleAssumption
    <2>. QED
      BY <1>1, <1>3, <2>1 DEF Revert, config, TypeOK
  <1>4. ASSUME NEW chosen \in SUBSET Ides, ChooseIdes(chosen)
        PROVE  TypeOK'
    BY <1>1, <1>4 DEF ChooseIdes, TypeOK
  <1>5. CASE Unregister
    BY <1>1, <1>5 DEF Unregister
  <1>. QED
    BY <1>2, <1>3, <1>4, <1>5 DEF Command

LEMMA AdvanceType ==
    ASSUME TypeOK, job # None,
           NEW step \in {"dirs", "skills", "manifest", "register", "ides"}, Advance(step)
    PROVE  job' \in Job
  BY DEF TypeOK, Job, Advance

LEMMA WorkType == TypeOK /\ JobInv /\ Work => TypeOK'
  <1>. SUFFICES ASSUME TypeOK, JobInv, Work PROVE TypeOK'
    OBVIOUS
  <1>1. ASSUME NEW s \in Services, MakeDir(s)
        PROVE  TypeOK'
    <2>1. job' \in Job
      BY <1>1 DEF MakeDir, At, TypeOK, Job
    <2>2. dir' \in [Services -> DirState]
      BY <1>1 DEF MakeDir, TypeOK, DirState
    <2>3. dirMaker' \in [Services -> Maker]
      BY <1>1 DEF MakeDir, TypeOK, Maker
    <2>. QED
      BY <1>1, <2>1, <2>2, <2>3 DEF MakeDir, TypeOK, config, seen
  <1>2. ASSUME NEW s \in Services, RemoveDir(s)
        PROVE  TypeOK'
    <2>1. job' \in Job
      BY <1>2 DEF RemoveDir, At, TypeOK, Job
    <2>2. dir' \in [Services -> DirState]
      <3>1. PICK after \in DirState : dir' = [dir EXCEPT ![s] = after]
        BY <1>2 DEF RemoveDir, TypeOK, DirState
      <3>. QED
        BY <3>1 DEF TypeOK
    <2>. QED
      BY <1>2, <2>1, <2>2 DEF RemoveDir, TypeOK, config, seen
  <1>3. ASSUME NEW x \in Slot, ClearDest(x)
        PROVE  TypeOK'
    <2>1. job' \in Job
      BY <1>3 DEF ClearDest, At, TypeOK, Job
    <2>. QED
      BY <1>3, <2>1 DEF ClearDest, TypeOK, config, seen
  <1>4. ASSUME NEW x \in Slot, LinkSkill(x)
        PROVE  TypeOK'
    <2>1. job' \in Job
      BY <1>4 DEF LinkSkill, At, TypeOK, Job
    <2>2. job.vault \in Link
      BY <1>4 DEF LinkSkill, At, JobInv, Link
    <2>. QED
      BY <1>4, <2>1, <2>2 DEF LinkSkill, TypeOK, config, seen, Maker
  <1>5. ASSUME NEW x \in Slot, RemoveSkill(x)
        PROVE  TypeOK'
    <2>1. job' \in Job
      BY <1>5 DEF RemoveSkill, At, TypeOK, Job
    <2>2. dest' \in [Slot -> {"absent", "data"} \cup Link]
      BY <1>5 DEF RemoveSkill, TypeOK
    <2>. QED
      BY <1>5, <2>1, <2>2 DEF RemoveSkill, TypeOK, config, seen
  <1>13. ASSUME NEW x \in Slot, CheckSkill(x)
        PROVE  TypeOK'
    <2>1. job' \in Job
      BY <1>13 DEF CheckSkill, At, TypeOK, Job
    <2>2. touched' \in SUBSET Slot
      BY <1>13 DEF CheckSkill, TypeOK
    <2>. QED
      BY <1>13, <2>1, <2>2 DEF CheckSkill, TypeOK, disk, config
  <1>6. CASE RecordCreated
    <2>1. job' \in Job /\ job.planned \subseteq Services
      BY <1>6, AdvanceType DEF RecordCreated, At, TypeOK, Job
    <2>. QED
      BY <1>6, <2>1 DEF RecordCreated, TypeOK, config, seen
  <1>7. CASE DirsRemoved
    <2>1. job' \in Job
      BY <1>7, AdvanceType DEF DirsRemoved, At
    <2>. QED
      BY <1>7, <2>1 DEF DirsRemoved, TypeOK, disk, config, seen
  <1>8. CASE SkillsDone
    <2>1. job' \in Job
      BY <1>8, AdvanceType DEF SkillsDone
    <2>. QED
      BY <1>8, <2>1 DEF SkillsDone, TypeOK, disk, config, seen
  <1>9. CASE SaveManifest
    <2>1. job' \in Job
      BY <1>9, AdvanceType DEF SaveManifest
    <2>2. records' \in [Slot -> Record \cup {None}]
      BY <1>9 DEF SaveManifest, TypeOK, Job
    <2>. QED
      BY <1>9, <2>1, <2>2 DEF SaveManifest, TypeOK, config, seen
  <1>10. CASE AddWorkspace
    <2>1. job' \in Job
      BY <1>10, AdvanceType DEF AddWorkspace, At
    <2>. QED
      BY <1>10, <2>1 DEF AddWorkspace, TypeOK, disk, seen
  <1>11. CASE SetIdes
    <2>1. ides' \in SUBSET Ides
      BY <1>11 DEF SetIdes, TypeOK, Job
    <2>2. job' \in Job \cup {None} /\ last' \in Job \cup {None}
      BY <1>11, AdvanceType DEF SetIdes, Succeed, TypeOK
    <2>. QED
      BY <1>11, <2>1, <2>2 DEF SetIdes, TypeOK, disk
  <1>12. CASE RemoveWorkspace
    BY <1>12 DEF RemoveWorkspace, Succeed, TypeOK, disk
  <1>. QED
    BY <1>1, <1>2, <1>3, <1>4, <1>5, <1>6, <1>7, <1>8, <1>9, <1>10, <1>11, <1>12,
       <1>13 DEF Work

LEMMA OwnerType == TypeOK /\ Owner => TypeOK'
  <1>. SUFFICES ASSUME TypeOK, Owner PROVE TypeOK'
    OBVIOUS
  <1>1. ASSUME Edit PROVE edits' \in 0..MaxEdits
    BY <1>1, LifecycleAssumption DEF Edit, TypeOK
  <1>2. ASSUME NEW s \in Services, NEW state \in DirState, EditDir(s, state)
        PROVE  TypeOK'
    <2>1. dirMaker' \in [Services -> Maker]
      BY <1>2 DEF EditDir, TypeOK, Maker
    <2>. QED
      BY <1>1, <1>2, <2>1 DEF EditDir, Edit, TypeOK, config
  <1>3. ASSUME NEW x \in Slot, NEW state \in {"absent", "data"} \cup Link, EditDest(x, state)
        PROVE  TypeOK'
    BY <1>1, <1>3 DEF EditDest, Edit, TypeOK, config, Maker
  <1>. QED
    BY <1>2, <1>3 DEF Owner

LEMMA NextTypeOK == TypeOK /\ JobInv /\ [Next]_vars => TypeOK'
  <1>. SUFFICES ASSUME TypeOK, JobInv, [Next]_vars PROVE TypeOK'
    OBVIOUS
  <1>1. CASE Stop
    BY <1>1 DEF Stop, TypeOK, disk, config
  <1>2. CASE UNCHANGED vars
    BY <1>2 DEF TypeOK, vars, disk, config, seen
  <1>. QED
    BY <1>1, <1>2, CommandType, WorkType, OwnerType DEF Next

LEMMA NextJobInv == TypeOK /\ JobInv /\ [Next]_vars => JobInv'
  <1>. SUFFICES ASSUME TypeOK, JobInv, [Next]_vars PROVE JobInv'
    OBVIOUS
  <1>1. ASSUME Command PROVE JobInv'
    <2>1. ASSUME NEW requested, NEW vault \in Vaults, NEW adopt,
                 Apply(requested, vault, adopt)
          PROVE  JobInv'
      BY <2>1 DEF Apply, Begin, ApplyPlan, JobInv
    <2>2. ASSUME NEW only, NEW found, Revert(only, found)
          PROVE  JobInv'
      <3>1. job' = RevertPlan(only, found) /\ UNCHANGED disk
        BY <2>2 DEF Revert, Begin
      <3>2. RevertPlan(only, found).op = "revert"
        BY DEF RevertPlan
      <3>3. RevertPlan(only, found).dirs \subseteq created
        BY DEF RevertPlan, RemovableDirs
      <3>4. RevertPlan(only, found).slots \subseteq Recorded(records)
        BY DEF RevertPlan, Reverted
      <3>5. RevertPlan(only, found).cleared = {}
        BY DEF RevertPlan
      <3>. QED
        BY <3>1, <3>2, <3>3, <3>4, <3>5 DEF JobInv, disk, Recorded
    <2>3. ASSUME Begin(None) PROVE JobInv'
      BY <2>3 DEF Begin, JobInv
    <2>. QED
      BY <1>1, <2>1, <2>2, <2>3 DEF Command, ChooseIdes, Unregister
  <1>2. ASSUME NEW s \in Services, MakeDir(s) \/ RemoveDir(s)
        PROVE  JobInv'
    <2>1. CASE MakeDir(s)
      BY <2>1 DEF MakeDir, At, JobInv, TypeOK, Job
    <2>2. CASE RemoveDir(s)
      <3>1. job' = [job EXCEPT !.dirs = job.dirs \ {s}] /\ job \in Job
        BY <2>2 DEF RemoveDir, At, TypeOK
      <3>2. job'.op = job.op /\ job'.step = job.step /\ job'.slots = job.slots
            /\ job'.dirs = job.dirs \ {s}
        BY <3>1 DEF Job
      <3>. QED
        BY <2>2, <3>2 DEF RemoveDir, At, JobInv, Recorded
    <2>. QED
      BY <1>2, <2>1, <2>2
  <1>3. ASSUME NEW x \in Slot, ClearDest(x) \/ LinkSkill(x) \/ CheckSkill(x) \/ RemoveSkill(x)
        PROVE  JobInv'
    <2>1. CASE ClearDest(x) \/ LinkSkill(x)
      <3>1. /\ job \in Job /\ job # None /\ job.op = "apply" /\ job.step = "skills"
            /\ x \in job.slots
        BY <2>1 DEF ClearDest, LinkSkill, At, TypeOK, JobInv
      <3>2. job'.op = job.op /\ job'.step = job.step /\ job'.vault = job.vault
            /\ (job'.cleared = {} \/ (job'.cleared = {x} /\ job'.slots = job.slots))
        BY <2>1, <3>1 DEF ClearDest, LinkSkill, Job
      <3>. QED
        BY <3>1, <3>2 DEF JobInv
    <2>2. CASE CheckSkill(x) \/ RemoveSkill(x)
      <3>1. /\ job \in Job /\ job # None /\ job.step = "skills" /\ UNCHANGED <<created, records>>
            /\ x \in job.slots
        BY <2>2 DEF CheckSkill, RemoveSkill, At, TypeOK, disk, JobInv
      <3>2. job'.op = job.op /\ job'.step = job.step /\ job'.dirs = job.dirs
            /\ job'.vault = job.vault
            /\ job'.slots \in {job.slots, job.slots \ {x}}
            /\ (job'.cleared = {} \/ (job'.cleared = {x} /\ job'.slots = job.slots))
        BY <2>2, <3>1 DEF CheckSkill, RemoveSkill, Job
      <3>. QED
        BY <3>1, <3>2 DEF JobInv, Recorded
    <2>. QED
      BY <1>3, <2>1, <2>2
  <1>4. CASE RecordCreated
    BY <1>4 DEF RecordCreated, At, Advance, JobInv, TypeOK, Job
  <1>5. CASE DirsRemoved
    BY <1>5 DEF DirsRemoved, At, Advance, JobInv, TypeOK, Job, disk, Recorded
  <1>6. CASE SkillsDone
    BY <1>6 DEF SkillsDone, Advance, JobInv, TypeOK, Job, disk
  <1>7. CASE SaveManifest
    BY <1>7 DEF SaveManifest, Advance, JobInv, TypeOK, Job
  <1>8. CASE AddWorkspace
    BY <1>8 DEF AddWorkspace, At, Advance, JobInv, TypeOK, Job, disk
  <1>9. CASE SetIdes
    BY <1>9 DEF SetIdes, Succeed, Advance, JobInv, TypeOK, Job, disk
  <1>10. CASE RemoveWorkspace \/ Stop
    BY <1>10 DEF RemoveWorkspace, Stop, Succeed, JobInv
  <1>11. CASE Owner \/ UNCHANGED vars
    BY <1>11 DEF Owner, EditDir, EditDest, Edit, JobInv, vars, disk, Recorded
  <1>. QED
    BY <1>1, <1>2, <1>3, <1>4, <1>5, <1>6, <1>7, <1>8, <1>9, <1>10, <1>11 DEF Next, Work

LEMMA NextLinkInv == IndInv /\ [Next]_vars => LinkInv'
  <1>. SUFFICES ASSUME IndInv, [Next]_vars PROVE LinkInv'
    OBVIOUS
  <1>0. TypeOK /\ JobInv /\ LinkInv
    BY DEF IndInv
  <1>1. CASE UNCHANGED <<dest, destMaker>>
    BY <1>0, <1>1 DEF LinkInv
  <1>2. ASSUME NEW x \in Slot, ClearDest(x) \/ RemoveSkill(x)
        PROVE  LinkInv'
    <2>1. /\ destMaker' = destMaker
          /\ dest'[x] \in {"absent", dest[x]} /\ \A y \in Slot \ {x} : dest'[y] = dest[y]
      BY <1>0, <1>2 DEF ClearDest, RemoveSkill, TypeOK
    <2>. QED
      BY <1>0, <2>1 DEF LinkInv
  <1>3. ASSUME NEW x \in Slot, LinkSkill(x)
        PROVE  LinkInv'
    BY <1>0, <1>3 DEF LinkSkill, At, LinkInv, JobInv, TypeOK
  <1>4. ASSUME NEW x \in Slot, NEW state, EditDest(x, state)
        PROVE  LinkInv'
    BY <1>0, <1>4 DEF EditDest, LinkInv, TypeOK
  <1>5. ASSUME NEW s \in Services, NEW state, EditDir(s, state)
        PROVE  UNCHANGED <<dest, destMaker>>
    BY <1>5 DEF EditDir
  <1>8. ASSUME NEW x \in Slot, CheckSkill(x)
        PROVE  UNCHANGED <<dest, destMaker>>
    BY <1>8 DEF CheckSkill, disk
  <1>6. ASSUME Command PROVE UNCHANGED <<dest, destMaker>>
    BY <1>6 DEF Command, Apply, Revert, ChooseIdes, Unregister, Begin, disk
  <1>7. ASSUME \/ \E s \in Services : MakeDir(s) \/ RemoveDir(s)
               \/ RecordCreated \/ DirsRemoved \/ SkillsDone \/ SaveManifest
               \/ AddWorkspace \/ SetIdes \/ RemoveWorkspace \/ Stop
        PROVE  UNCHANGED <<dest, destMaker>>
    BY <1>7 DEF MakeDir, RemoveDir, RecordCreated, DirsRemoved, SkillsDone,
                SaveManifest, AddWorkspace, SetIdes, RemoveWorkspace, Stop, disk
  <1>. QED
    BY <1>1, <1>2, <1>3, <1>4, <1>5, <1>6, <1>7, <1>8 DEF Next, Work, Owner, vars, disk

(* The inductive invariant.                                                *)
THEOREM InvariantHolds == Spec => []IndInv
  <1>1. IndInv /\ [Next]_vars => IndInv'
    BY NextTypeOK, NextJobInv, NextLinkInv DEF IndInv
  <1>. QED
    BY <1>1, InitIndInv, PTL DEF Spec

(* Every variable has its type; in particular every plan is one.           *)
THEOREM TypeCorrect == Spec => []TypeOK
  <1>1. IndInv => TypeOK
    BY DEF IndInv
  <1>. QED
    BY <1>1, InvariantHolds, PTL

(* With one vault, what blocks an apply is always the owner's doing.       *)
THEOREM ConflictsByOwner ==
    (\A v, w \in Vaults : v = w) => (Spec => []ConflictsAreTheOwners)
  <1>. SUFFICES ASSUME \A v, w \in Vaults : v = w
                PROVE  Spec => []ConflictsAreTheOwners
    OBVIOUS
  <1>1. IndInv => ConflictsAreTheOwners
    <2>. SUFFICES ASSUME IndInv, NEW x \in Slot, NEW v \in Vaults,
                         Disposition(x, v, FALSE) = "conflict", destMaker[x] # "owner"
                  PROVE  FALSE
      BY DEF ConflictsAreTheOwners
    <2>1. destMaker[x] = "framework"
      BY DEF IndInv, TypeOK, Maker
    <2>2. dest[x] = v \/ dest[x] = "absent"
      BY <2>1 DEF IndInv, LinkInv
    <2>3. Disposition(x, v, FALSE) \in {"create", "skip", "adopt"}
      BY <2>2 DEF Disposition
    <2>. QED
      BY <2>3
  <1>. QED
    BY <1>1, InvariantHolds, PTL

(* Only two steps of the framework change a directory.                     *)
LEMMA DirSteps ==
    ASSUME TypeOK, [Next]_vars, ByFramework, NEW s \in Services, dir'[s] # dir[s]
    PROVE  \/ MakeDir(s) /\ dir[s] = "absent"
           \/ RemoveDir(s) /\ dir[s] \in {"empty", "link"}
  <1>1. CASE UNCHANGED dir
    BY <1>1
  <1>2. ASSUME NEW t \in Services, MakeDir(t)
        PROVE  MakeDir(s) /\ dir[s] = "absent"
    BY <1>2 DEF MakeDir, TypeOK
  <1>3. ASSUME NEW t \in Services, RemoveDir(t)
        PROVE  RemoveDir(s) /\ dir[s] \in {"empty", "link"}
    <2>1. PICK after : /\ after \in IF dir[t] = "empty" THEN {"absent"}
                                    ELSE IF dir[t] = "link" THEN {"absent", "link"} ELSE {dir[t]}
                       /\ dir' = [dir EXCEPT ![t] = after]
      BY <1>3 DEF RemoveDir
    <2>2. s = t /\ after # dir[t]
      BY <2>1 DEF TypeOK
    <2>. QED
      BY <1>3, <2>1, <2>2
  <1>4. ASSUME Edit PROVE FALSE
    BY <1>4, LifecycleAssumption DEF Edit, ByFramework, TypeOK
  <1>5. ASSUME Command PROVE UNCHANGED dir
    BY <1>5 DEF Command, Apply, Revert, ChooseIdes, Unregister, Begin, disk
  <1>6. ASSUME \/ \E x \in Slot : ClearDest(x) \/ LinkSkill(x) \/ CheckSkill(x) \/ RemoveSkill(x)
               \/ RecordCreated \/ DirsRemoved \/ SkillsDone \/ SaveManifest
               \/ AddWorkspace \/ SetIdes \/ RemoveWorkspace \/ Stop
        PROVE  UNCHANGED dir
    BY <1>6 DEF ClearDest, LinkSkill, CheckSkill, RemoveSkill, RecordCreated, DirsRemoved,
                SkillsDone, SaveManifest, AddWorkspace, SetIdes, RemoveWorkspace, Stop, disk
  <1>. QED
    BY <1>1, <1>2, <1>3, <1>4, <1>5, <1>6 DEF Next, Work, Owner, EditDir, EditDest, vars, disk

(* A directory that holds something is never removed, whatever its owner   *)
(* does while a revert runs.                                               *)
THEOREM FilledDirsAreKept == Spec => FilledDirsKept
  <1>1. IndInv /\ [Next]_vars =>
            [\A s \in Services :
                (ByFramework /\ dir[s] = "filled") => dir'[s] = "filled"]_vars
    <2>. SUFFICES ASSUME IndInv, [Next]_vars, NEW s \in Services,
                         ByFramework, dir[s] = "filled", dir'[s] # "filled"
                  PROVE  FALSE
      OBVIOUS
    <2>. QED
      BY DirSteps DEF IndInv
  <1>. QED
    BY <1>1, InvariantHolds, PTL DEF Spec, FilledDirsKept

(* Three steps of the framework change a destination.                      *)
LEMMA DestSteps ==
    ASSUME TypeOK, [Next]_vars, ByFramework, NEW x \in Slot, dest'[x] # dest[x]
    PROVE  ClearDest(x) \/ LinkSkill(x) \/ RemoveSkill(x)
  <1>1. CASE UNCHANGED dest
    BY <1>1
  <1>2. ASSUME NEW y \in Slot, ClearDest(y)
        PROVE  ClearDest(x)
    BY <1>2 DEF ClearDest, TypeOK
  <1>3. ASSUME NEW y \in Slot, LinkSkill(y)
        PROVE  LinkSkill(x)
    BY <1>3 DEF LinkSkill, TypeOK
  <1>4. ASSUME NEW y \in Slot, RemoveSkill(y)
        PROVE  RemoveSkill(x)
    <2>1. x = y
      BY <1>4 DEF RemoveSkill, TypeOK
    <2>. QED
      BY <1>4, <2>1
  <1>5. ASSUME Edit PROVE FALSE
    BY <1>5, LifecycleAssumption DEF Edit, ByFramework, TypeOK
  <1>6. ASSUME Command PROVE UNCHANGED dest
    BY <1>6 DEF Command, Apply, Revert, ChooseIdes, Unregister, Begin, disk
  <1>7. ASSUME \/ \E s \in Services : MakeDir(s) \/ RemoveDir(s)
               \/ \E y \in Slot : CheckSkill(y)
               \/ RecordCreated \/ DirsRemoved \/ SkillsDone \/ SaveManifest
               \/ AddWorkspace \/ SetIdes \/ RemoveWorkspace \/ Stop
        PROVE  UNCHANGED dest
    BY <1>7 DEF MakeDir, RemoveDir, CheckSkill, RecordCreated, DirsRemoved, SkillsDone,
                SaveManifest, AddWorkspace, SetIdes, RemoveWorkspace, Stop, disk
  <1>. QED
    BY <1>1, <1>2, <1>3, <1>4, <1>5, <1>6, <1>7
    DEF Next, Work, Owner, EditDir, EditDest, vars, disk

(* What a revert is about to delete is the link the manifest names, or has *)
(* been changed by its owner since it was last looked at.                  *)
LEMMA NextCheckedInv ==
    ASSUME IndInv, CheckedInv, [Next]_vars
    PROVE  CheckedInv'
  <1>0. TypeOK /\ JobInv
    BY DEF IndInv
  <1>1. ASSUME job' = None \/ job'.op = "apply" \/ job'.cleared = {}
        PROVE  CheckedInv'
    BY <1>1 DEF CheckedInv
  <1>2. ASSUME job # None, job'.op = job.op, job'.cleared = job.cleared,
               UNCHANGED <<dest, records, touched>>
        PROVE  CheckedInv'
    BY <1>2 DEF CheckedInv, Removable
  <1>3. ASSUME NEW step \in {"dirs", "skills", "manifest", "register", "ides"},
               job # None, Advance(step)
        PROVE  job'.op = job.op /\ job'.cleared = job.cleared
    BY <1>0, <1>3 DEF Advance, TypeOK, Job
  <1>4. ASSUME Command PROVE CheckedInv'
    <2>1. ASSUME NEW plan, Begin(plan), plan = None \/ plan.cleared = {}
          PROVE  CheckedInv'
      BY <1>1, <2>1 DEF Begin
    <2>2. ASSUME NEW requested, NEW vault, NEW adopt, Apply(requested, vault, adopt)
          PROVE  CheckedInv'
      BY <2>1, <2>2 DEF Apply, ApplyPlan
    <2>3. ASSUME NEW only, NEW found, Revert(only, found)
          PROVE  CheckedInv'
      BY <2>1, <2>3 DEF Revert, RevertPlan
    <2>. QED
      BY <1>4, <2>1, <2>2, <2>3 DEF Command, ChooseIdes, Unregister
  <1>5. ASSUME NEW s \in Services, MakeDir(s) \/ RemoveDir(s)
        PROVE  CheckedInv'
    <2>1. /\ job # None /\ job'.op = job.op /\ job'.cleared = job.cleared
          /\ UNCHANGED <<dest, records, touched>>
      BY <1>0, <1>5 DEF MakeDir, RemoveDir, At, TypeOK, Job, seen
    <2>. QED
      BY <1>2, <2>1
  <1>6. ASSUME NEW x \in Slot, ClearDest(x) \/ LinkSkill(x) \/ RemoveSkill(x)
        PROVE  CheckedInv'
    <2>1. job'.op = "apply" \/ job'.cleared = {}
      BY <1>0, <1>6 DEF ClearDest, LinkSkill, RemoveSkill, At, TypeOK, Job
    <2>. QED
      BY <1>1, <2>1
  <1>7. ASSUME NEW x \in Slot, CheckSkill(x)
        PROVE  CheckedInv'
    <2>1. /\ job \in Job /\ x \in job.slots /\ job.cleared = {} /\ UNCHANGED <<dest, records>>
          /\ records[x] # None
      BY <1>0, <1>7 DEF CheckSkill, At, TypeOK, JobInv, Recorded, disk
    <2>2. CASE Removable(x)
      <3>1. job'.cleared = {x}
        BY <1>7, <2>1, <2>2 DEF CheckSkill, Job
      <3>. QED
        BY <2>1, <2>2, <3>1 DEF CheckedInv, Removable
    <2>3. CASE ~Removable(x)
      <3>1. job'.cleared = {}
        BY <1>7, <2>1, <2>3 DEF CheckSkill, Job
      <3>. QED
        BY <1>1, <3>1
    <2>. QED
      BY <2>2, <2>3
  <1>8. CASE RecordCreated \/ DirsRemoved \/ SkillsDone \/ AddWorkspace
    <2>1. /\ job # None /\ UNCHANGED <<dest, records, touched>>
          /\ Advance("skills") \/ Advance("manifest") \/ Advance("ides")
      BY <1>8 DEF RecordCreated, DirsRemoved, SkillsDone, AddWorkspace, At, disk, seen
    <2>. QED
      BY <1>2, <1>3, <2>1
  <1>9. CASE SaveManifest
    <2>1. job # None /\ job.cleared = {} /\ (Advance("register") \/ Advance("ides"))
      BY <1>0, <1>9 DEF SaveManifest, JobInv
    <2>. QED
      BY <1>1, <1>3, <2>1
  <1>10. CASE SetIdes
    <2>1. job # None /\ job.cleared = {}
      BY <1>0, <1>10 DEF SetIdes, JobInv
    <2>. QED
      BY <1>1, <1>3, <1>10, <2>1 DEF SetIdes, Succeed
  <1>11. CASE RemoveWorkspace \/ Stop
    BY <1>1, <1>11 DEF RemoveWorkspace, Succeed, Stop
  <1>12. ASSUME NEW s, NEW state, EditDir(s, state)
        PROVE  CheckedInv'
    BY <1>12 DEF EditDir, Edit, CheckedInv, Removable
  <1>13. ASSUME NEW x \in Slot, NEW state, EditDest(x, state)
        PROVE  CheckedInv'
    <2>1. /\ job' = job /\ records' = records
          /\ \A y \in Slot \ {x} : dest'[y] = dest[y]
          /\ job # None => touched' = touched \cup {x}
      BY <1>0, <1>13 DEF EditDest, Edit, TypeOK
    <2>2. job # None => job.cleared \subseteq Slot
      BY <1>0 DEF TypeOK, Job
    <2>. QED
      BY <2>1, <2>2 DEF CheckedInv, Removable
  <1>14. CASE UNCHANGED vars
    BY <1>14 DEF CheckedInv, Removable, vars, disk, seen
  <1>. QED
    BY <1>4, <1>5, <1>6, <1>7, <1>8, <1>9, <1>10, <1>11, <1>12, <1>13, <1>14
    DEF Next, Work, Owner

(* revert deletes the link the manifest names and nothing else, whatever   *)
(* its owner does meanwhile and wherever earlier commands died, unless     *)
(* that link is replaced between the last look at it and its deletion.     *)
THEOREM RevertRemovesOnlyLinks == Spec => RevertRemovesLinksOnly
  <1>1. Init => CheckedInv
    BY DEF Init, CheckedInv
  <1>2. IndInv /\ CheckedInv /\ [Next]_vars => CheckedInv'
    BY NextCheckedInv
  <1>3. IndInv /\ CheckedInv /\ [Next]_vars =>
            [\A x \in Slot :
                (ByFramework /\ job # None /\ job.op = "revert" /\ dest'[x] # dest[x])
                    => \/ records[x] # None /\ records[x].here /\ dest[x] = records[x].source
                       \/ x \in job.cleared \cap touched]_vars
    <2>. SUFFICES ASSUME IndInv, CheckedInv, [Next]_vars, NEW x \in Slot,
                         ByFramework, job # None, job.op = "revert", dest'[x] # dest[x]
                  PROVE  \/ records[x] # None /\ records[x].here /\ dest[x] = records[x].source
                         \/ x \in job.cleared \cap touched
      OBVIOUS
    <2>1. RemoveSkill(x)
      BY DestSteps DEF IndInv, ClearDest, LinkSkill, At
    <2>2. x \in job.cleared /\ dest[x] # "absent"
      BY <2>1 DEF RemoveSkill, IndInv, TypeOK
    <2>3. x \in touched \/ (records[x] # None /\ Removable(x))
      BY <2>2 DEF CheckedInv
    <2>. QED
      BY <2>2, <2>3 DEF Removable
  <1>. QED
    BY <1>1, <1>2, <1>3, InvariantHolds, PTL DEF Spec, RevertRemovesLinksOnly

(* What a plan to apply without --adopt links over is absent or a link     *)
(* into a vault when it is made, and stays so unless the owner changes it. *)
LEMMA NextPlanInv ==
    ASSUME IndInv, PlanInv, [Next]_vars
    PROVE  PlanInv'
  <1>0. TypeOK /\ JobInv
    BY DEF IndInv
  <1>1. ASSUME NEW requested, NEW vault \in Vaults, NEW adopt, Apply(requested, vault, adopt)
        PROVE  PlanInv'
    <2>. SUFFICES ASSUME job' # None, ~job'.adopt, NEW x \in job'.slots
                  PROVE  dest'[x] \in Vaults \cup {"absent"}
      BY DEF PlanInv
    <2>1. job' = ApplyPlan(ides \cup requested, vault, adopt) /\ UNCHANGED dest
      BY <1>1 DEF Apply, Begin, disk
    <2>2. Disposition(x, vault, adopt) \in {"create", "update"} /\ ~adopt
      BY <2>1 DEF ApplyPlan
    <2>. QED
      BY <2>1, <2>2 DEF Disposition
  <1>2. ASSUME NEW only, NEW found, Revert(only, found)
        PROVE  PlanInv'
    BY <1>2 DEF Revert, Begin, RevertPlan, PlanInv
  <1>3. ASSUME Begin(None) \/ Stop
        PROVE  PlanInv'
    BY <1>3 DEF Begin, Stop, PlanInv
  <1>4. ASSUME NEW x \in Slot, ClearDest(x)
        PROVE  PlanInv'
    BY <1>0, <1>4 DEF ClearDest, At, PlanInv, TypeOK, Job, seen
  <1>5. ASSUME NEW x \in Slot, LinkSkill(x)
        PROVE  PlanInv'
    BY <1>0, <1>5 DEF LinkSkill, At, PlanInv, JobInv, TypeOK, Job, seen
  <1>6. ASSUME NEW x \in Slot, CheckSkill(x) \/ RemoveSkill(x)
        PROVE  PlanInv'
    BY <1>0, <1>6 DEF CheckSkill, RemoveSkill, At, PlanInv, TypeOK, Job
  <1>7. ASSUME NEW s \in Services, MakeDir(s) \/ RemoveDir(s)
        PROVE  PlanInv'
    BY <1>0, <1>7 DEF MakeDir, RemoveDir, At, PlanInv, TypeOK, Job, seen
  <1>8. CASE RecordCreated \/ DirsRemoved \/ SkillsDone \/ SaveManifest \/ AddWorkspace
    BY <1>0, <1>8 DEF RecordCreated, DirsRemoved, SkillsDone, SaveManifest, AddWorkspace,
                      At, Advance, PlanInv, TypeOK, Job, disk, seen
  <1>9. CASE SetIdes \/ RemoveWorkspace
    BY <1>0, <1>9 DEF SetIdes, RemoveWorkspace, Succeed, Advance, PlanInv, TypeOK, Job, disk
  <1>10. ASSUME NEW s, NEW state, EditDir(s, state)
        PROVE  PlanInv'
    BY <1>10 DEF EditDir, Edit, PlanInv
  <1>11. ASSUME NEW x \in Slot, NEW state, EditDest(x, state)
        PROVE  PlanInv'
    <2>1. /\ job' = job /\ \A y \in Slot \ {x} : dest'[y] = dest[y]
          /\ job # None => touched' = touched \cup {x}
      BY <1>0, <1>11 DEF EditDest, Edit, TypeOK
    <2>2. job # None => job.slots \subseteq Slot
      BY <1>0 DEF TypeOK, Job
    <2>. QED
      BY <2>1, <2>2 DEF PlanInv
  <1>12. CASE UNCHANGED vars
    BY <1>12 DEF PlanInv, vars, disk, seen
  <1>. QED
    BY <1>1, <1>2, <1>3, <1>4, <1>5, <1>6, <1>7, <1>8, <1>9, <1>10, <1>11, <1>12
    DEF Next, Command, ChooseIdes, Unregister, Work, Owner

(* apply without --adopt replaces nothing of the owner's, whatever         *)
(* commands came before and wherever they died, unless the owner put it    *)
(* there after the plan was made.                                          *)
THEOREM OwnersDataIsKept == Spec => OwnersDataKept
  <1>1. Init => PlanInv
    BY DEF Init, PlanInv
  <1>2. IndInv /\ PlanInv /\ [Next]_vars => PlanInv'
    BY NextPlanInv
  <1>3. IndInv /\ PlanInv /\ [Next]_vars =>
            [\A x \in Slot :
                (/\ ByFramework /\ job # None /\ job.op = "apply"
                 /\ dest[x] \in {"data", "foreign"} /\ dest'[x] # dest[x])
                    => job.adopt \/ x \in touched]_vars
    <2>. SUFFICES ASSUME IndInv, PlanInv, [Next]_vars, NEW x \in Slot, ByFramework,
                         job # None, job.op = "apply",
                         dest[x] \in {"data", "foreign"}, dest'[x] # dest[x]
                  PROVE  job.adopt \/ x \in touched
      OBVIOUS
    <2>0. dest[x] \notin Vaults \cup {"absent"}
      BY LifecycleAssumption
    <2>1. CASE ClearDest(x)
      BY <2>0, <2>1 DEF ClearDest, At, PlanInv
    <2>2. CASE LinkSkill(x)
      BY <2>0, <2>2 DEF LinkSkill
    <2>. QED
      BY <2>1, <2>2, DestSteps DEF IndInv, RemoveSkill, At
  <1>. QED
    BY <1>1, <1>2, <1>3, InvariantHolds, PTL DEF Spec, OwnersDataKept

(* While the owner keeps away, a planned directory is absent until the     *)
(* framework makes it.                                                     *)
LEMMA NextPlannedInv ==
    ASSUME ~Interleaved, TypeOK, PlannedInv, [Next]_vars
    PROVE  PlannedInv'
  <1>1. ASSUME NEW requested, NEW vault, NEW adopt, Apply(requested, vault, adopt)
        PROVE  PlannedInv'
    BY <1>1 DEF Apply, Begin, ApplyPlan, PlannedInv, At, disk
  <1>2. ASSUME NEW only, NEW found, Revert(only, found)
        PROVE  PlannedInv'
    BY <1>2 DEF Revert, Begin, RevertPlan, PlannedInv, At
  <1>3. ASSUME Begin(None) \/ Stop
        PROVE  PlannedInv'
    BY <1>3 DEF Begin, Stop, PlannedInv, At
  <1>4. ASSUME NEW s \in Services, MakeDir(s)
        PROVE  PlannedInv'
    <2>1. job' = [job EXCEPT !.dirs = job.dirs \ {s}] /\ job \in Job /\ At("apply", "dirs")
      BY <1>4 DEF MakeDir, At, TypeOK
    <2>2. job'.planned = job.planned /\ job'.dirs = job.dirs \ {s}
      BY <2>1 DEF Job
    <2>3. dir[s] = "absent" /\ dirMaker'[s] = "framework"
      BY <1>4, <2>1 DEF MakeDir, PlannedInv, TypeOK
    <2>4. \A t \in Services \ {s} : dir'[t] = dir[t] /\ dirMaker'[t] = dirMaker[t]
      BY <1>4 DEF MakeDir, TypeOK
    <2>5. job.dirs \subseteq Services /\ job.planned \subseteq Services
      BY <2>1 DEF Job
    <2>. QED
      BY <2>1, <2>2, <2>3, <2>4, <2>5 DEF PlannedInv
  <1>5. ASSUME NEW s \in Services, RemoveDir(s)
        PROVE  PlannedInv'
    BY <1>5 DEF RemoveDir, At, PlannedInv, TypeOK, Job
  <1>6. ASSUME NEW x \in Slot, ClearDest(x) \/ LinkSkill(x) \/ CheckSkill(x) \/ RemoveSkill(x)
        PROVE  PlannedInv'
    BY <1>6 DEF ClearDest, LinkSkill, CheckSkill, RemoveSkill, At, PlannedInv, TypeOK, Job
  <1>7. CASE RecordCreated \/ DirsRemoved \/ SkillsDone \/ SaveManifest \/ AddWorkspace
    BY <1>7 DEF RecordCreated, DirsRemoved, SkillsDone, SaveManifest, AddWorkspace,
                At, Advance, PlannedInv, TypeOK, Job
  <1>8. CASE SetIdes \/ RemoveWorkspace
    BY <1>8 DEF SetIdes, RemoveWorkspace, Succeed, Advance, PlannedInv, At, TypeOK, Job
  <1>9. ASSUME Edit PROVE PlannedInv'
    BY <1>9 DEF Edit, PlannedInv, At
  <1>10. CASE UNCHANGED vars
    BY <1>10 DEF PlannedInv, At, vars, disk
  <1>. QED
    BY <1>1, <1>2, <1>3, <1>4, <1>5, <1>6, <1>7, <1>8, <1>9, <1>10
    DEF Next, Command, ChooseIdes, Unregister, Work, Owner, EditDir, EditDest

(* While the owner keeps away, what a revert will remove stays empty.      *)
LEMMA NextEmptyInv ==
    ASSUME ~Interleaved, TypeOK, EmptyInv, [Next]_vars
    PROVE  EmptyInv'
  <1>1. ASSUME ~At("revert", "dirs")' PROVE EmptyInv'
    BY <1>1 DEF EmptyInv
  <1>2. ASSUME NEW requested, NEW vault, NEW adopt, Apply(requested, vault, adopt)
        PROVE  EmptyInv'
    BY <1>1, <1>2 DEF Apply, Begin, ApplyPlan, At
  <1>3. ASSUME NEW only, NEW found, Revert(only, found)
        PROVE  EmptyInv'
    BY <1>3 DEF Revert, Begin, RevertPlan, RemovableDirs, EmptyInv, disk
  <1>4. ASSUME Begin(None) \/ Stop
        PROVE  EmptyInv'
    BY <1>1, <1>4 DEF Begin, Stop, At
  <1>5. ASSUME NEW s \in Services, MakeDir(s)
        PROVE  EmptyInv'
    BY <1>1, <1>5 DEF MakeDir, At, TypeOK, Job
  <1>6. ASSUME NEW s \in Services, RemoveDir(s)
        PROVE  EmptyInv'
    <2>1. /\ At("revert", "dirs") /\ job'.dirs = job.dirs \ {s} /\ job.dirs \subseteq Services
          /\ \A t \in Services \ {s} : dir'[t] = dir[t]
      BY <1>6 DEF RemoveDir, At, TypeOK, Job
    <2>. QED
      BY <2>1 DEF EmptyInv
  <1>7. ASSUME NEW x \in Slot, ClearDest(x) \/ LinkSkill(x) \/ CheckSkill(x) \/ RemoveSkill(x)
        PROVE  EmptyInv'
    BY <1>1, <1>7 DEF ClearDest, LinkSkill, CheckSkill, RemoveSkill, At, TypeOK, Job
  <1>8. CASE RecordCreated \/ DirsRemoved \/ SkillsDone \/ SaveManifest \/ AddWorkspace
    BY <1>1, <1>8 DEF RecordCreated, DirsRemoved, SkillsDone, SaveManifest, AddWorkspace,
                      At, Advance, TypeOK, Job
  <1>9. CASE SetIdes \/ RemoveWorkspace
    BY <1>1, <1>9 DEF SetIdes, RemoveWorkspace, Succeed, Advance, At, TypeOK, Job
  <1>10. ASSUME Edit PROVE EmptyInv'
    BY <1>10 DEF Edit, EmptyInv, At
  <1>11. CASE UNCHANGED vars
    BY <1>11 DEF EmptyInv, At, vars, disk
  <1>. QED
    BY <1>2, <1>3, <1>4, <1>5, <1>6, <1>7, <1>8, <1>9, <1>10, <1>11
    DEF Next, Command, ChooseIdes, Unregister, Work, Owner, EditDir, EditDest

(* Where the owner does not make again what the framework once made, what  *)
(* is recorded and there was made by the framework.                        *)
LEMMA NextRecordedInv ==
    ASSUME ~Remakes, TypeOK, PlannedInv, RecordedInv, [Next]_vars
    PROVE  RecordedInv'
  <1>1. CASE UNCHANGED <<dir, created, dirMaker>>
    BY <1>1 DEF RecordedInv, Held
  <1>2. ASSUME NEW s \in Services, MakeDir(s) \/ RemoveDir(s)
        PROVE  RecordedInv'
    <2>1. CASE MakeDir(s)
      BY <2>1 DEF MakeDir, RecordedInv, Held, TypeOK
    <2>2. CASE RemoveDir(s)
      <3>1. PICK after : /\ after \in IF dir[s] = "empty" THEN {"absent"}
                                      ELSE IF dir[s] = "link" THEN {"absent", "link"} ELSE {dir[s]}
                         /\ dir' = [dir EXCEPT ![s] = after]
        BY <2>2 DEF RemoveDir
      <3>2. Held(after) => Held(dir[s])
        BY <3>1 DEF Held
      <3>3. /\ \A t \in Services : Held(dir'[t]) => Held(dir[t])
            /\ UNCHANGED <<created, dirMaker>>
        BY <2>2, <3>1, <3>2 DEF RemoveDir, TypeOK
      <3>4. created \subseteq Services
        BY DEF TypeOK
      <3>. QED
        BY <3>3, <3>4 DEF RecordedInv
    <2>. QED
      BY <1>2, <2>1, <2>2
  <1>3. CASE RecordCreated
    BY <1>3 DEF RecordCreated, PlannedInv, RecordedInv, Held
  <1>4. ASSUME NEW s \in Services, NEW state, EditDir(s, state)
        PROVE  RecordedInv'
    BY <1>4 DEF EditDir, Edit, RecordedInv, Held, TypeOK
  <1>5. ASSUME Command PROVE UNCHANGED <<dir, created, dirMaker>>
    BY <1>5 DEF Command, Apply, Revert, ChooseIdes, Unregister, Begin, disk
  <1>6. ASSUME \/ \E x \in Slot : ClearDest(x) \/ LinkSkill(x) \/ CheckSkill(x) \/ RemoveSkill(x)
               \/ DirsRemoved \/ SkillsDone \/ SaveManifest
               \/ AddWorkspace \/ SetIdes \/ RemoveWorkspace \/ Stop
        PROVE  UNCHANGED <<dir, created, dirMaker>>
    BY <1>6 DEF ClearDest, LinkSkill, CheckSkill, RemoveSkill, DirsRemoved, SkillsDone,
                SaveManifest, AddWorkspace, SetIdes, RemoveWorkspace, Stop, disk
  <1>7. ASSUME NEW x \in Slot, NEW state, EditDest(x, state)
        PROVE  UNCHANGED <<dir, created, dirMaker>>
    BY <1>7 DEF EditDest, Edit
  <1>. QED
    BY <1>1, <1>2, <1>3, <1>4, <1>5, <1>6, <1>7 DEF Next, Work, Owner, vars, disk

(* revert removes only directories the framework made, if the owner keeps  *)
(* away while a command runs and makes none of them again.                 *)
THEOREM OnlyOwnDirsGo == (~Interleaved /\ ~Remakes) => (Spec => OwnDirsOnly)
  <1>. SUFFICES ASSUME ~Interleaved, ~Remakes PROVE Spec => OwnDirsOnly
    OBVIOUS
  <1>. DEFINE Inv == PlannedInv /\ EmptyInv /\ RecordedInv
  <1>1. Init => Inv
    BY DEF Init, PlannedInv, EmptyInv, RecordedInv, At
  <1>2. IndInv /\ Inv /\ [Next]_vars => Inv'
    BY NextPlannedInv, NextEmptyInv, NextRecordedInv DEF IndInv
  <1>3. IndInv /\ Inv /\ [Next]_vars =>
            [\A s \in Services :
                (ByFramework /\ dir[s] # "absent" /\ dir'[s] = "absent")
                    => dirMaker[s] = "framework"]_vars
    <2>. SUFFICES ASSUME IndInv, Inv, [Next]_vars, NEW s \in Services, ByFramework,
                         dir[s] # "absent", dir'[s] = "absent"
                  PROVE  dirMaker[s] = "framework"
      OBVIOUS
    <2>1. RemoveDir(s)
      BY DirSteps DEF IndInv, MakeDir
    <2>2. s \in created /\ dir[s] = "empty"
      BY <2>1 DEF RemoveDir, At, IndInv, JobInv, EmptyInv
    <2>. QED
      BY <2>1, <2>2 DEF RecordedInv, Held
  <1>. QED
    BY <1>1, <1>2, <1>3, InvariantHolds, PTL DEF Spec, OwnDirsOnly

(* Where revert finds the vault, the plan of a revert of some IDEs leaves  *)
(* the entries of the others as they are, until it is carried out.         *)
LEMMA NextOnlyInv ==
    ASSUME FALSE \notin Resolves, TypeOK, OnlyInv, [Next]_vars
    PROVE  OnlyInv'
  <1>1. ASSUME NEW requested, NEW vault, NEW adopt, Apply(requested, vault, adopt)
        PROVE  OnlyInv'
    BY <1>1 DEF Apply, Begin, ApplyPlan, OnlyInv
  <1>2. ASSUME NEW only \in SUBSET Ides, NEW found \in Resolves, Revert(only, found)
        PROVE  OnlyInv'
    <2>. SUFFICES ASSUME only # {}, NEW x \in Slot, x[1] \notin only
                  PROVE  /\ x \notin RevertPlan(only, found).slots
                         /\ RevertPlan(only, found).records[x] = records[x]
      BY <1>2 DEF Revert, Begin, disk, OnlyInv, RevertPlan
    <2>1. found = TRUE
      BY LifecycleAssumption
    <2>2. x \notin Reverted(only)
      BY DEF Reverted
    <2>3. records[x] # None => x \in Recorded(records) \ Reverted(only)
      BY <2>2 DEF Recorded
    <2>. QED
      BY <2>1, <2>2, <2>3 DEF RevertPlan
  <1>3. ASSUME Begin(None) \/ Stop
        PROVE  OnlyInv'
    BY <1>3 DEF Begin, Stop, OnlyInv
  <1>4. ASSUME NEW s \in Services, MakeDir(s) \/ RemoveDir(s)
        PROVE  OnlyInv'
    BY <1>4 DEF MakeDir, RemoveDir, At, OnlyInv, TypeOK, Job
  <1>5. ASSUME NEW x \in Slot, ClearDest(x) \/ LinkSkill(x)
        PROVE  OnlyInv'
    <2>1. job'.op = "apply"
      BY <1>5 DEF ClearDest, LinkSkill, At, TypeOK, Job
    <2>. QED
      BY <2>1 DEF OnlyInv
  <1>6. ASSUME NEW x \in Slot, CheckSkill(x) \/ RemoveSkill(x)
        PROVE  OnlyInv'
    <2>1. job \in Job /\ job # None /\ records' = records
      BY <1>6 DEF CheckSkill, RemoveSkill, At, TypeOK, disk
    <2>2. /\ job'.op = job.op /\ job'.only = job.only /\ job'.records = job.records
          /\ job'.slots \subseteq job.slots
      BY <1>6, <2>1 DEF CheckSkill, RemoveSkill, Job
    <2>. QED
      BY <2>1, <2>2 DEF OnlyInv
  <1>7. CASE RecordCreated \/ DirsRemoved \/ SkillsDone \/ AddWorkspace
    BY <1>7 DEF RecordCreated, DirsRemoved, SkillsDone, AddWorkspace,
                At, Advance, OnlyInv, TypeOK, Job, disk
  <1>8. CASE SaveManifest
    BY <1>8 DEF SaveManifest, Advance, OnlyInv, TypeOK, Job
  <1>9. CASE SetIdes \/ RemoveWorkspace
    BY <1>9 DEF SetIdes, RemoveWorkspace, Succeed, Advance, OnlyInv, TypeOK, Job, disk
  <1>10. ASSUME Edit PROVE OnlyInv'
    BY <1>10 DEF Edit, OnlyInv
  <1>11. CASE UNCHANGED vars
    BY <1>11 DEF OnlyInv, vars, disk
  <1>. QED
    BY <1>1, <1>2, <1>3, <1>4, <1>5, <1>6, <1>7, <1>8, <1>9, <1>10, <1>11
    DEF Next, Command, ChooseIdes, Unregister, Work, Owner, EditDir, EditDest

(* A revert of some IDEs leaves the others alone, if it finds the vault.   *)
THEOREM OtherIdesAreKept == FALSE \notin Resolves => (Spec => RevertKeepsOtherIdes)
  <1>. SUFFICES ASSUME FALSE \notin Resolves PROVE Spec => RevertKeepsOtherIdes
    OBVIOUS
  <1>1. Init => OnlyInv
    BY DEF Init, OnlyInv
  <1>2. IndInv /\ OnlyInv /\ [Next]_vars => OnlyInv'
    BY NextOnlyInv DEF IndInv
  <1>3. IndInv /\ OnlyInv /\ [Next]_vars =>
            [(ByFramework /\ job # None /\ job.op = "revert" /\ job.only # {}) =>
                \A x \in Slot : x[1] \notin job.only =>
                    dest'[x] = dest[x] /\ records'[x] = records[x]]_vars
    <2>. SUFFICES ASSUME IndInv, OnlyInv, [Next]_vars, ByFramework,
                         job # None, job.op = "revert", job.only # {},
                         NEW x \in Slot, x[1] \notin job.only
                  PROVE  dest'[x] = dest[x] /\ records'[x] = records[x]
      OBVIOUS
    <2>1. x \notin job.slots /\ job.records[x] = records[x]
      BY DEF OnlyInv
    <2>2. dest'[x] = dest[x]
      BY <2>1, DestSteps DEF IndInv, JobInv, ClearDest, LinkSkill, RemoveSkill, At
    <2>3. records' = records \/ records' = job.records
      <3>1. ~Command
        BY DEF Command, Apply, Revert, ChooseIdes, Unregister, Begin
      <3>. QED
        BY <3>1 DEF Next, Work, MakeDir, RemoveDir, ClearDest, LinkSkill, CheckSkill,
                    RemoveSkill, RecordCreated, DirsRemoved, SkillsDone, SaveManifest, AddWorkspace,
                    SetIdes, RemoveWorkspace, Stop, Owner, EditDir, EditDest, Edit, disk, vars
    <2>. QED
      BY <2>1, <2>2, <2>3
  <1>. QED
    BY <1>1, <1>2, <1>3, InvariantHolds, PTL DEF Spec, RevertKeepsOtherIdes

-----------------------------------------------------------------------------
(* Convergence.                                                            *)

\* A plan that is not blocked leaves out only what is there already.
LEMMA PlanIsComplete ==
    ASSUME TypeOK, NEW chosen \in SUBSET Ides, NEW vault \in Vaults, NEW adopt \in BOOLEAN,
           ~Blocked(chosen, vault, adopt)
    PROVE  Rest(ApplyPlan(chosen, vault, adopt))
  <1>. DEFINE plan == ApplyPlan(chosen, vault, adopt)
  <1>0. /\ plan.ides = chosen /\ plan.vault = vault
        /\ plan.slots = {x \in Wanted(chosen, vault) :
                             Disposition(x, vault, adopt) \in {"create", "update"}}
        /\ plan.dirs = {s \in Services : dir[s] = "absent"}
        /\ plan.records = [x \in Slot |-> IF x \in Wanted(chosen, vault)
                                          THEN NewRecord(x, vault, adopt) ELSE None]
    BY DEF ApplyPlan
  <1>1. ASSUME NEW x \in Slot PROVE (plan.records[x] # None) = (x \in Wanted(chosen, vault))
    <2>1. NewRecord(x, vault, adopt) # None
      <3>1. CASE Disposition(x, vault, adopt) = "skip"
        BY <3>1 DEF NewRecord, Disposition
      <3>2. CASE Disposition(x, vault, adopt) # "skip"
        <4>1. NewRecord(x, vault, adopt) \in Record
          BY <3>2 DEF NewRecord, Record
        <4>. QED
          BY <4>1, RecordAssumption
      <3>. QED
        BY <3>1, <3>2
    <2>. QED
      BY <1>0, <2>1
  <1>2. ASSUME NEW x \in Wanted(chosen, vault), x \notin plan.slots PROVE dest[x] = vault
    <2>1. Disposition(x, vault, adopt) \notin {"conflict", "create", "update"}
      BY <1>0, <1>2 DEF Blocked
    <2>. QED
      BY <2>1 DEF Disposition
  <1>3. ASSUME NEW s \in Services, s \notin plan.dirs PROVE dir[s] \notin {"absent", "file"}
    BY <1>0, <1>3 DEF Blocked, TypeOK
  <1>. QED
    BY <1>0, <1>1, <1>2, <1>3 DEF Rest

\* As long as the owner keeps away, a plan shrinks as it is carried out.
LEMMA NextApplyInv ==
    ASSUME ~Interleaved, IndInv, ApplyInv, [Next]_vars
    PROVE  ApplyInv'
  <1>0. TypeOK /\ JobInv
    BY DEF IndInv
  <1>1. ASSUME NEW requested \in SUBSET Ides, NEW vault \in Vaults, NEW adopt \in AdoptFlags,
               Apply(requested, vault, adopt)
        PROVE  ApplyInv'
    <2>. DEFINE chosen == ides \cup requested
    <2>1. CASE Blocked(chosen, vault, adopt)
      BY <1>1, <2>1 DEF Apply, Begin, ApplyInv
    <2>2. CASE ~Blocked(chosen, vault, adopt)
      <3>1. job' = ApplyPlan(chosen, vault, adopt) /\ UNCHANGED disk
        BY <1>1, <2>2 DEF Apply, Begin
      <3>2. chosen \in SUBSET Ides /\ adopt \in BOOLEAN
        BY <1>0, LifecycleAssumption DEF TypeOK
      <3>3. Rest(ApplyPlan(chosen, vault, adopt))
        BY <1>0, <2>2, <3>2, PlanIsComplete
      <3>4. ApplyPlan(chosen, vault, adopt).step = "dirs"
        BY DEF ApplyPlan
      <3>5. Rest(job)'
        BY <3>1, <3>3 DEF Rest, disk, Wanted
      <3>. QED
        BY <3>1, <3>4, <3>5 DEF ApplyInv
    <2>. QED
      BY <2>1, <2>2
  <1>2. ASSUME NEW only, NEW found, Revert(only, found)
        PROVE  ApplyInv'
    BY <1>2 DEF Revert, Begin, RevertPlan, ApplyInv
  <1>3. ASSUME Begin(None) \/ Stop
        PROVE  ApplyInv'
    BY <1>3 DEF Begin, Stop, ApplyInv
  <1>4. ASSUME NEW s \in Services, MakeDir(s)
        PROVE  ApplyInv'
    <2>1. job' = [job EXCEPT !.dirs = job.dirs \ {s}] /\ job \in Job /\ At("apply", "dirs")
      BY <1>0, <1>4 DEF MakeDir, At, TypeOK
    <2>2. /\ job'.op = job.op /\ job'.step = job.step /\ job'.slots = job.slots
          /\ job'.ides = job.ides /\ job'.vault = job.vault /\ job'.records = job.records
          /\ job'.dirs = job.dirs \ {s}
      BY <2>1 DEF Job
    <2>3. \A t \in Services : dir[t] \notin {"absent", "file"} => dir'[t] \notin {"absent", "file"}
      BY <1>0, <1>4 DEF MakeDir, TypeOK
    <2>4. dir'[s] \notin {"absent", "file"}
      BY <1>0, <1>4 DEF MakeDir, TypeOK
    <2>5. dest' = dest
      BY <1>4 DEF MakeDir
    <2>6. Rest(job)
      BY <2>1 DEF ApplyInv, At
    <2>7. \A t \in Services : t \in job'.dirs \/ dir'[t] \notin {"absent", "file"}
      BY <2>2, <2>3, <2>4, <2>6 DEF Rest
    <2>8. Rest(job)'
      BY <2>2, <2>5, <2>6, <2>7 DEF Rest, Wanted
    <2>. QED
      BY <2>1, <2>2, <2>8 DEF ApplyInv, At
  <1>5. ASSUME NEW x \in Slot, ClearDest(x) \/ LinkSkill(x)
        PROVE  ApplyInv'
    <2>1. job \in Job /\ At("apply", "skills") /\ dir' = dir /\ records' = records
      BY <1>0, <1>5 DEF ClearDest, LinkSkill, At, TypeOK
    <2>2. /\ job'.op = job.op /\ job'.step = job.step /\ job'.dirs = job.dirs
          /\ job'.ides = job.ides /\ job'.vault = job.vault /\ job'.records = job.records
      BY <1>5, <2>1 DEF ClearDest, LinkSkill, Job
    <2>3. \A y \in Slot : (y \in job.slots \/ dest[y] = job.vault)
                              => (y \in job'.slots \/ dest'[y] = job.vault)
      <3>1. CASE ClearDest(x)
        <4>1. x \in job.slots /\ job'.slots = job.slots
          BY <2>1, <3>1 DEF ClearDest, Job
        <4>. QED
          BY <1>0, <3>1, <4>1 DEF ClearDest, TypeOK
      <3>2. CASE LinkSkill(x)
        <4>1. job'.slots = job.slots \ {x} /\ dest'[x] = job.vault
          BY <1>0, <2>1, <3>2 DEF LinkSkill, Job, TypeOK
        <4>. QED
          BY <1>0, <3>2, <4>1 DEF LinkSkill, TypeOK
      <3>. QED
        BY <1>5, <3>1, <3>2
    <2>4. Rest(job)
      BY <2>1 DEF ApplyInv, At
    <2>5. Rest(job)'
      BY <2>1, <2>2, <2>3, <2>4 DEF Rest, Wanted
    <2>. QED
      BY <2>1, <2>2, <2>5 DEF ApplyInv, At
  <1>6. ASSUME NEW s \in Services, RemoveDir(s)
        PROVE  ApplyInv'
    BY <1>0, <1>6 DEF RemoveDir, At, ApplyInv, TypeOK, Job
  <1>7. ASSUME NEW x \in Slot, CheckSkill(x) \/ RemoveSkill(x)
        PROVE  ApplyInv'
    BY <1>0, <1>7 DEF CheckSkill, RemoveSkill, At, ApplyInv, TypeOK, Job
  <1>8. ASSUME NEW step \in {"dirs", "skills", "manifest", "register", "ides"}, job # None,
               Advance(step), UNCHANGED <<dir, dest>>
        PROVE  /\ job'.op = job.op /\ job'.step = step /\ job'.dirs = job.dirs
               /\ job'.slots = job.slots /\ job'.records = job.records
               /\ Rest(job) => Rest(job)'
    <2>1. /\ job'.op = job.op /\ job'.step = step /\ job'.dirs = job.dirs
          /\ job'.slots = job.slots /\ job'.records = job.records
          /\ job'.ides = job.ides /\ job'.vault = job.vault
      BY <1>0, <1>8 DEF Advance, TypeOK, Job
    <2>. QED
      BY <1>8, <2>1 DEF Rest, Wanted
  <1>9. CASE RecordCreated
    BY <1>8, <1>9 DEF RecordCreated, At, ApplyInv
  <1>10. CASE DirsRemoved
    BY <1>8, <1>10 DEF DirsRemoved, At, ApplyInv, disk
  <1>11. CASE SkillsDone
    BY <1>8, <1>11 DEF SkillsDone, ApplyInv, disk
  <1>12. CASE SaveManifest
    BY <1>8, <1>12 DEF SaveManifest, ApplyInv
  <1>13. CASE AddWorkspace
    BY <1>8, <1>13 DEF AddWorkspace, At, ApplyInv, disk
  <1>14. CASE SetIdes
    BY <1>8, <1>14 DEF SetIdes, Succeed, ApplyInv, disk
  <1>15. CASE RemoveWorkspace
    BY <1>15 DEF RemoveWorkspace, Succeed, ApplyInv
  <1>16. ASSUME Edit PROVE ApplyInv'
    BY <1>16 DEF Edit, ApplyInv
  <1>17. CASE UNCHANGED vars
    BY <1>17 DEF ApplyInv, Rest, Wanted, vars, disk, config
  <1>. QED
    BY <1>1, <1>2, <1>3, <1>4, <1>5, <1>6, <1>7, <1>9, <1>10, <1>11, <1>12, <1>13, <1>14,
       <1>15, <1>16, <1>17
    DEF Next, Command, ChooseIdes, Unregister, Work, Owner, EditDir, EditDest

\* Whatever happens next makes it forget the command that succeeded.
LEMMA NextLastInv ==
    ASSUME IndInv, ApplyInv, LastInv, [Next]_vars
    PROVE  LastInv'
  <1>1. ASSUME Command PROVE LastInv'
    BY <1>1 DEF Command, Apply, Revert, ChooseIdes, Unregister, Begin, LastInv
  <1>2. ASSUME Edit PROVE LastInv'
    BY <1>2 DEF Edit, LastInv
  <1>3. CASE SetIdes
    <2>1. CASE job.op = "revert" /\ job.only = {}
      BY <1>3, <2>1 DEF SetIdes, LastInv
    <2>2. CASE ~(job.op = "revert" /\ job.only = {})
      <3>1. /\ job' = None /\ last' = job /\ ides' = job.ides /\ job # None /\ job.step = "ides"
            /\ UNCHANGED disk /\ registered' = registered
        BY <1>3, <2>2 DEF SetIdes, Succeed
      <3>2. job.op = "apply" => Rest(job) /\ job.dirs = {} /\ job.slots = {}
                                /\ records = job.records /\ registered /\ job.vault \in Vaults
        BY <3>1 DEF ApplyInv, IndInv, JobInv
      <3>3. Rest(job) => Rest(last)'
        BY <3>1 DEF Rest, Wanted, disk
      <3>. QED
        BY <3>1, <3>2, <3>3 DEF LastInv, disk
    <2>. QED
      BY <2>1, <2>2
  <1>4. CASE RemoveWorkspace
    BY <1>4 DEF RemoveWorkspace, Succeed, At, LastInv
  <1>5. ASSUME \/ \E s \in Services : MakeDir(s) \/ RemoveDir(s)
               \/ \E x \in Slot : ClearDest(x) \/ LinkSkill(x) \/ CheckSkill(x) \/ RemoveSkill(x)
               \/ RecordCreated \/ DirsRemoved \/ SkillsDone \/ SaveManifest
               \/ AddWorkspace \/ Stop
        PROVE  job # None /\ last' = last
    BY <1>5 DEF MakeDir, RemoveDir, ClearDest, LinkSkill, CheckSkill, RemoveSkill,
                RecordCreated, DirsRemoved, SkillsDone, SaveManifest, AddWorkspace, Stop, At, seen
  <1>6. ASSUME job # None, last' = last PROVE LastInv'
    BY <1>6 DEF LastInv
  <1>7. CASE UNCHANGED vars
    BY <1>7 DEF LastInv, Rest, Wanted, vars, disk, config, seen
  <1>. QED
    BY <1>1, <1>2, <1>3, <1>4, <1>5, <1>6, <1>7 DEF Next, Work, Owner, EditDir, EditDest

(* An apply that succeeded leaves nothing to do for the next one, while    *)
(* its owner keeps away from the directory it is working in.               *)
THEOREM ApplyConverges == ~Interleaved => (Spec => []Converged)
  <1>. SUFFICES ASSUME ~Interleaved PROVE Spec => []Converged
    OBVIOUS
  <1>. DEFINE Inv == ApplyInv /\ LastInv
  <1>1. Init => Inv
    BY DEF Init, ApplyInv, LastInv
  <1>2. IndInv /\ Inv /\ [Next]_vars => Inv'
    BY NextApplyInv, NextLastInv
  <1>3. IndInv /\ Inv => Converged
    <2>. SUFFICES ASSUME IndInv, Inv, last # None, last.op = "apply"
                  PROVE  LET again == ApplyPlan(ides, last.vault, FALSE) IN
                         /\ registered
                         /\ ~Blocked(ides, last.vault, FALSE)
                         /\ again.dirs = {} /\ again.slots = {}
                         /\ again.records = records
      BY DEF Converged
    <2>. DEFINE v == last.vault
    <2>1. /\ Rest(last) /\ last.dirs = {} /\ last.slots = {} /\ registered
          /\ records = last.records /\ ides = last.ides /\ v \in Vaults
      BY DEF LastInv
    <2>2. \A s \in Services : dir[s] \notin {"absent", "file"}
      BY <2>1 DEF Rest
    <2>3. \A x \in Wanted(ides, v) : Disposition(x, v, FALSE) = "skip"
      <3>1. \A x \in Wanted(ides, v) : dest[x] = v /\ records[x] # None /\ x \in Slot
        BY <2>1 DEF Rest, Wanted
      <3>2. v # "absent"
        BY <2>1, LifecycleAssumption
      <3>. QED
        BY <3>1, <3>2 DEF Disposition
    <2>4. ~Blocked(ides, v, FALSE)
      BY <2>2, <2>3 DEF Blocked
    <2>5. ApplyPlan(ides, v, FALSE).dirs = {}
      BY <2>2 DEF ApplyPlan
    <2>6. ApplyPlan(ides, v, FALSE).slots = {}
      BY <2>3 DEF ApplyPlan
    <2>7. ApplyPlan(ides, v, FALSE).records = records
      <3>1. ApplyPlan(ides, v, FALSE).records =
                [x \in Slot |-> IF x \in Wanted(ides, v) THEN NewRecord(x, v, FALSE) ELSE None]
        BY DEF ApplyPlan
      <3>2. \A x \in Slot :
                (IF x \in Wanted(ides, v) THEN NewRecord(x, v, FALSE) ELSE None) = records[x]
        BY <2>1, <2>3 DEF Rest, NewRecord
      <3>3. records \in [Slot -> Record \cup {None}]
        BY DEF IndInv, TypeOK
      <3>. QED
        BY <3>1, <3>2, <3>3
    <2>. QED
      BY <2>1, <2>4, <2>5, <2>6, <2>7
  <1>. QED
    BY <1>1, <1>2, <1>3, InvariantHolds, PTL DEF Spec

-----------------------------------------------------------------------------
(* What revert has to find, as long as no apply was cut short.             *)

\* A link the framework has made.
Made(x) == destMaker[x] = "framework" /\ dest[x] \in Vaults

\* A record by which revert removes what stands at x.
Names(r, x) == r # None /\ r.here /\ r.source = dest[x]

Offered(x) == \A v \in Vaults : x[2] \in Offers[v][x[1]]

\* Every link the framework has made is in the manifest, or will be once the
\* running apply has saved it; and the IDEs in the manifest are registered, or
\* will be once that apply is done.
ApplyKnows ==
    (job # None /\ job.op = "apply") =>
        /\ \A x \in Slot : Made(x) => Names(job.records[x], x)
        /\ job.cleared \subseteq job.slots
        /\ \A x \in job.slots :
               /\ dest[x] = "absent"
               /\ job.records[x] = [source |-> job.vault, here |-> TRUE]
        /\ \A x \in Slot : job.records[x] # None => x[1] \in job.ides /\ Offered(x)
        /\ job.step \in {"register", "ides"} => records = job.records

RevertKnows ==
    (job # None /\ job.op = "revert") =>
        /\ \A x \in Slot : Made(x) =>
               job.records[x] = records[x] \/ (x \in job.slots /\ job.step \in {"dirs", "skills"})
        /\ \A x \in Slot : job.records[x] # None =>
               x[1] \in job.ides /\ job.records[x] = records[x]
        /\ job.step \in {"ides", "register"} => records = job.records
        /\ job.only = {} => Recorded(job.records) = {}
        /\ job.step = "register" => job.only = {}

ManifestKnows ==
    /\ (job = None \/ job.op = "revert") => \A x \in Slot : Made(x) => Names(records[x], x)
    /\ \/ At("apply", "register") \/ At("apply", "ides")
       \/ \A x \in Recorded(records) : x[1] \in ides /\ Offered(x)
    /\ (last # None /\ last.op = "revert" /\ last.only = {}) => Recorded(records) = {}

Known == ApplyKnows /\ RevertKnows /\ ManifestKnows

KnownInv == ~cut => Known

\* There is one vault, nobody replaces what is the owner's, the owner keeps
\* away while a command runs and drops no IDEs, and revert finds the vault.
Wary ==
    /\ \A v, w \in Vaults : v = w
    /\ TRUE \notin AdoptFlags
    /\ ~Interleaved /\ ~Narrows
    /\ FALSE \notin Resolves

LEMMA ApplyKnown ==
    ASSUME Wary, IndInv, ManifestKnows, job = None, NEW chosen \in SUBSET Ides,
           ides \subseteq chosen, NEW v \in Vaults, ~Blocked(chosen, v, FALSE),
           Begin(ApplyPlan(chosen, v, FALSE)), UNCHANGED config
    PROVE  Known'
  <1>. DEFINE plan == ApplyPlan(chosen, v, FALSE)
  <1>0. /\ plan.op = "apply" /\ plan.step = "dirs" /\ plan.ides = chosen /\ plan.vault = v
        /\ plan.cleared = {}
        /\ plan.slots = {x \in Wanted(chosen, v) :
                             Disposition(x, v, FALSE) \in {"create", "update"}}
        /\ plan.records = [x \in Slot |-> IF x \in Wanted(chosen, v)
                                          THEN NewRecord(x, v, FALSE) ELSE None]
    BY DEF ApplyPlan
  <1>1. /\ job' = plan /\ last' = None
        /\ dest' = dest /\ destMaker' = destMaker /\ records' = records /\ ides' = ides
    BY DEF Begin, disk, config
  <1>3. ASSUME NEW x \in Slot, Made(x) PROVE Names(plan.records[x], x)
    <2>1. Names(records[x], x) /\ dest[x] = v
      BY <1>3 DEF ManifestKnows, Wary, Made
    <2>2. x \in Recorded(records)
      BY <2>1 DEF Names, Recorded
    <2>3. x \in Wanted(chosen, v)
      BY <2>2 DEF ManifestKnows, At, Offered, Wanted
    <2>4. Disposition(x, v, FALSE) = "skip"
      BY <2>1, LifecycleAssumption DEF Disposition, Names
    <2>. QED
      BY <1>0, <2>1, <2>3, <2>4 DEF NewRecord
  <1>4. ASSUME NEW x \in plan.slots
        PROVE  dest[x] = "absent" /\ plan.records[x] = [source |-> v, here |-> TRUE]
    <2>1. x \in Wanted(chosen, v) /\ x \in Slot
          /\ Disposition(x, v, FALSE) \in {"create", "update"}
      BY <1>0, <1>4 DEF Wanted
    <2>2. dest[x] = "absent"
      <3>1. \A w \in Vaults : w = v
        BY DEF Wary
      <3>. QED
        BY <2>1, <3>1 DEF Disposition
    <2>3. dest[x] \notin Link
      BY <2>2, LifecycleAssumption DEF Link
    <2>4. NewRecord(x, v, FALSE) = [source |-> v, here |-> TRUE]
      BY <2>1, <2>3 DEF NewRecord
    <2>. QED
      BY <1>0, <2>1, <2>2, <2>4
  <1>5. ASSUME NEW x \in Slot, plan.records[x] # None PROVE x[1] \in chosen /\ Offered(x)
    <2>1. x \in Wanted(chosen, v)
      BY <1>0, <1>5
    <2>. QED
      BY <2>1 DEF Wanted, Offered, Wary
  <1>. HIDE DEF plan
  <1>6. \A x : (Made(x)' <=> Made(x)) /\ \A r : Names(r, x)' <=> Names(r, x)
    BY <1>1 DEF Made, Names
  <1>7. ApplyKnows'
    BY <1>0, <1>1, <1>3, <1>4, <1>5, <1>6 DEF ApplyKnows
  <1>8. RevertKnows'
    BY <1>0, <1>1 DEF RevertKnows
  <1>9. ManifestKnows'
    <2>1. /\ \A x \in Slot : Made(x) => Names(records[x], x)
          /\ \A x \in Recorded(records) : x[1] \in ides /\ Offered(x)
      BY DEF ManifestKnows, At
    <2>. QED
      BY <1>1, <1>6, <2>1 DEF ManifestKnows, Recorded
  <1>. QED
    BY <1>7, <1>8, <1>9 DEF Known

LEMMA RevertKnown ==
    ASSUME ManifestKnows, job = None, NEW only, Begin(RevertPlan(only, TRUE)), UNCHANGED config
    PROVE  Known'
  <1>. DEFINE plan == RevertPlan(only, TRUE)
              kept == Recorded(records) \ Reverted(only)
  <1>0. /\ plan.op = "revert" /\ plan.step = "dirs" /\ plan.ides = {x[1] : x \in kept}
        /\ plan.only = only
        /\ plan.slots = {x \in Reverted(only) : Removable(x)}
        /\ plan.records = [x \in Slot |-> IF x \in kept THEN records[x] ELSE None]
    BY DEF RevertPlan
  <1>1. /\ job' = plan /\ last' = None
        /\ dest' = dest /\ destMaker' = destMaker /\ records' = records /\ ides' = ides
    BY DEF Begin, disk, config
  <1>2. ASSUME NEW x \in Slot, Made(x)
        PROVE  plan.records[x] = records[x] \/ x \in plan.slots
    <2>1. Names(records[x], x)
      BY <1>2 DEF ManifestKnows
    <2>2. x \in Recorded(records) /\ Removable(x)
      BY <2>1 DEF Names, Recorded, Removable
    <2>. QED
      BY <1>0, <2>2
  <1>3. ASSUME NEW x \in Slot, plan.records[x] # None
        PROVE  x[1] \in plan.ides /\ plan.records[x] = records[x]
    BY <1>0, <1>3
  <1>4. only = {} => Recorded(plan.records) = {}
    BY <1>0 DEF Recorded, Reverted
  <1>5. \A x \in Recorded(records) : x[1] \in ides /\ Offered(x)
    BY DEF ManifestKnows, At
  <1>6. \A x \in Slot : Made(x) => Names(records[x], x)
    BY DEF ManifestKnows
  <1>. HIDE DEF plan, kept
  <1>7. \A x : (Made(x)' <=> Made(x)) /\ \A r : Names(r, x)' <=> Names(r, x)
    BY <1>1 DEF Made, Names
  <1>8. ApplyKnows'
    BY <1>0, <1>1 DEF ApplyKnows
  <1>9. RevertKnows'
    BY <1>0, <1>1, <1>2, <1>3, <1>4, <1>7 DEF RevertKnows
  <1>10. ManifestKnows'
    BY <1>1, <1>5, <1>6, <1>7 DEF ManifestKnows, Recorded
  <1>. QED
    BY <1>8, <1>9, <1>10 DEF Known

\* Where a step leaves the links, the manifest and the registry alone.
LEMMA LinksAlike ==
    ASSUME UNCHANGED <<dest, destMaker>>
    PROVE  \A x : (Made(x)' <=> Made(x)) /\ \A r : Names(r, x)' <=> Names(r, x)
  BY DEF Made, Names

LEMMA CommandKnown ==
    ASSUME Wary, IndInv, Known, Command
    PROVE  Known'
  <1>0. job = None /\ ManifestKnows
    BY DEF Command, Apply, Revert, ChooseIdes, Unregister, Begin, Known
  <1>1. ASSUME Begin(None), ides \subseteq ides' PROVE Known'
    <2>1. /\ job' = None /\ last' = None /\ UNCHANGED <<dest, destMaker>> /\ records' = records
      BY <1>1 DEF Begin, disk
    <2>2. \A x : (Made(x)' <=> Made(x)) /\ \A r : Names(r, x)' <=> Names(r, x)
      BY <2>1, LinksAlike
    <2>3. /\ \A x \in Slot : Made(x) => Names(records[x], x)
          /\ \A x \in Recorded(records) : x[1] \in ides /\ Offered(x)
      BY <1>0 DEF ManifestKnows, At
    <2>4. ManifestKnows'
      BY <1>1, <2>1, <2>2, <2>3 DEF ManifestKnows, Recorded
    <2>. QED
      BY <2>1, <2>4 DEF Known, ApplyKnows, RevertKnows
  <1>2. ASSUME NEW requested \in (SUBSET Ides) \ {{}}, NEW vault \in Vaults,
               NEW adopt \in AdoptFlags, Apply(requested, vault, adopt)
        PROVE  Known'
    <2>1. adopt = FALSE
      BY LifecycleAssumption DEF Wary
    <2>2. ides \cup requested \in SUBSET Ides
      BY DEF IndInv, TypeOK
    <2>3. CASE Blocked(ides \cup requested, vault, adopt)
      BY <1>1, <1>2, <2>3 DEF Apply, config
    <2>4. CASE ~Blocked(ides \cup requested, vault, FALSE)
      BY <1>0, <1>2, <2>1, <2>2, <2>4, ApplyKnown DEF Apply
    <2>. QED
      BY <2>1, <2>3, <2>4
  <1>3. ASSUME NEW only \in SUBSET Ides, NEW found \in Resolves, Revert(only, found)
        PROVE  Known'
    <2>1. found = TRUE
      BY LifecycleAssumption DEF Wary
    <2>. QED
      BY <1>0, <1>3, <2>1, RevertKnown DEF Revert
  <1>4. ASSUME NEW chosen, ChooseIdes(chosen) PROVE Known'
    BY <1>1, <1>4 DEF ChooseIdes, Wary
  <1>5. ~Unregister
    BY DEF Unregister, Wary
  <1>. QED
    BY <1>2, <1>3, <1>4, <1>5 DEF Command

\* A step that changes of the plan only what is left of its directories, or
\* goes from them to the links.
LEMMA PlanAlike ==
    ASSUME Known, job # None, UNCHANGED <<dest, destMaker, records, ides, last>>,
           job' # None, job'.op = job.op, job'.ides = job.ides, job'.only = job.only,
           job'.vault = job.vault, job'.records = job.records,
           job'.slots = job.slots, job'.cleared = job.cleared,
           job'.step = job.step \/ (job.step = "dirs" /\ job'.step = "skills")
    PROVE  Known'
  <1>1. \A x : (Made(x)' <=> Made(x)) /\ \A r : Names(r, x)' <=> Names(r, x)
    BY LinksAlike
  <1>2. ApplyKnows'
    BY <1>1 DEF Known, ApplyKnows
  <1>3. RevertKnows'
    BY <1>1 DEF Known, RevertKnows, Recorded
  <1>4. ManifestKnows'
    <2>1. At("apply", "register")' \/ At("apply", "ides")' \/
              ~(At("apply", "register") \/ At("apply", "ides"))
      BY DEF At
    <2>2. Recorded(records') = Recorded(records)
      BY DEF Recorded
    <2>. QED
      BY <1>1, <2>1, <2>2 DEF Known, ManifestKnows
  <1>. QED
    BY <1>2, <1>3, <1>4 DEF Known

LEMMA DirsKnown ==
    ASSUME IndInv, Known,
           (\E s \in Services : MakeDir(s) \/ RemoveDir(s)) \/ RecordCreated \/ DirsRemoved
    PROVE  Known'
  <1>1. job \in Job /\ job # None
    BY DEF IndInv, TypeOK, MakeDir, RemoveDir, RecordCreated, DirsRemoved, At
  <1>2. /\ UNCHANGED <<dest, destMaker, records, ides, last>>
        /\ \/ \E S : job' = [job EXCEPT !.dirs = S]
           \/ job.step = "dirs" /\ job' = [job EXCEPT !.step = "skills"]
    BY DEF MakeDir, RemoveDir, RecordCreated, DirsRemoved, At, Advance, disk, config, seen
  <1>3. /\ job' # None /\ job'.op = job.op /\ job'.ides = job.ides /\ job'.only = job.only
        /\ job'.vault = job.vault /\ job'.records = job.records
        /\ job'.slots = job.slots /\ job'.cleared = job.cleared
        /\ job'.step = job.step \/ (job.step = "dirs" /\ job'.step = "skills")
    <2>1. job' \in Job
      BY <1>1 DEF MakeDir, RemoveDir, RecordCreated, DirsRemoved, At, Advance, Job
    <2>2. CASE \E S : job' = [job EXCEPT !.dirs = S]
      BY <1>1, <2>1, <2>2, JobAssumption DEF Job
    <2>3. CASE job.step = "dirs" /\ job' = [job EXCEPT !.step = "skills"]
      BY <1>1, <2>1, <2>3, JobAssumption DEF Job
    <2>. QED
      BY <1>2, <2>2, <2>3
  <1>. QED
    BY <1>1, <1>2, <1>3, PlanAlike

LEMMA ClearKnown ==
    ASSUME IndInv, Known, NEW x \in Slot, ClearDest(x)
    PROVE  Known'
  <1>1. /\ job \in Job /\ job # None /\ job.op = "apply" /\ job.step = "skills" /\ x \in job.slots
        /\ dest' = [dest EXCEPT ![x] = "absent"] /\ destMaker' = destMaker
        /\ job' = [job EXCEPT !.cleared = {x}]
        /\ records' = records /\ ides' = ides /\ last' = last
    BY DEF ClearDest, At, IndInv, TypeOK, config, seen
  <1>2. dest[x] = "absent"
    BY <1>1 DEF Known, ApplyKnows
  <1>3. dest' = dest
    BY <1>1, <1>2 DEF IndInv, TypeOK
  <1>4. \A y : (Made(y)' <=> Made(y)) /\ \A r : Names(r, y)' <=> Names(r, y)
    BY <1>1, <1>3, LinksAlike
  <1>5. /\ job'.op = "apply" /\ job'.step = "skills" /\ job'.slots = job.slots
        /\ job'.cleared = {x} /\ job'.records = job.records /\ job'.ides = job.ides
        /\ job'.vault = job.vault
    BY <1>1 DEF Job
  <1>9. job' \in Job
    BY <1>1 DEF Job
  <1>6. ApplyKnows'
    BY <1>1, <1>3, <1>4, <1>5 DEF Known, ApplyKnows
  <1>7. RevertKnows'
    BY <1>5 DEF RevertKnows
  <1>8. ManifestKnows'
    <2>1. \A y \in Recorded(records) : y[1] \in ides /\ Offered(y)
      BY <1>1 DEF Known, ManifestKnows, At
    <2>. QED
      BY <1>1, <1>4, <1>5, <1>9, <2>1, JobAssumption DEF Known, ManifestKnows, Recorded
  <1>. QED
    BY <1>6, <1>7, <1>8 DEF Known

LEMMA LinkKnown ==
    ASSUME IndInv, Known, NEW x \in Slot, LinkSkill(x)
    PROVE  Known'
  <1>1. /\ job \in Job /\ job # None /\ job.op = "apply" /\ job.step = "skills"
        /\ x \in job.cleared
        /\ dest' = [dest EXCEPT ![x] = job.vault]
        /\ destMaker' = [destMaker EXCEPT ![x] = "framework"]
        /\ job' = [job EXCEPT !.slots = @ \ {x}, !.cleared = {}]
        /\ records' = records /\ ides' = ides /\ last' = last
    BY DEF LinkSkill, At, IndInv, TypeOK, config, seen
  <1>2. /\ job'.op = "apply" /\ job'.step = "skills" /\ job'.slots = job.slots \ {x}
        /\ job'.cleared = {} /\ job'.records = job.records /\ job'.ides = job.ides
        /\ job'.vault = job.vault
    BY <1>1 DEF Job
  <1>9. job' \in Job
    <2>1. job.slots \ {x} \in SUBSET Slot /\ {} \in SUBSET Slot
      BY <1>1 DEF Job
    <2>. QED
      BY <1>1, <2>1 DEF Job
  <1>3. x \in job.slots /\ job.records[x] = [source |-> job.vault, here |-> TRUE]
    BY <1>1 DEF Known, ApplyKnows
  <1>4. dest'[x] = job.vault /\ \A y \in Slot \ {x} : dest'[y] = dest[y]
                                                     /\ destMaker'[y] = destMaker[y]
    BY <1>1 DEF IndInv, TypeOK
  <1>5. ASSUME NEW y \in Slot, Made(y)' PROVE Names(job.records[y], y)'
    <2>1. CASE y = x
      <3>1. job.records[x] # None
        <4>1. job.records[x] \in Record
          BY <1>1, <1>3 DEF IndInv, JobInv, Record
        <4>. QED
          BY <4>1, RecordAssumption
      <3>. QED
        BY <1>2, <1>3, <1>4, <2>1, <3>1 DEF Names
    <2>2. CASE y # x
      <3>1. Made(y)
        BY <1>4, <1>5, <2>2 DEF Made
      <3>2. Names(job.records[y], y)
        BY <1>1, <3>1 DEF Known, ApplyKnows
      <3>. QED
        BY <1>2, <1>4, <2>2, <3>2 DEF Names
    <2>. QED
      BY <2>1, <2>2
  <1>6. ApplyKnows'
    <2>1. ASSUME NEW y \in job'.slots
          PROVE  dest'[y] = "absent"
                 /\ job'.records[y] = [source |-> job'.vault, here |-> TRUE]
      <3>1. y \in job.slots /\ y \in Slot \ {x}
        BY <1>1, <1>2 DEF Job
      <3>. QED
        BY <1>1, <1>2, <1>4, <3>1 DEF Known, ApplyKnows
    <2>2. \A y \in Slot : job'.records[y] # None => y[1] \in job'.ides /\ Offered(y)
      BY <1>1, <1>2 DEF Known, ApplyKnows
    <2>3. \A y \in Slot : Made(y)' => Names(job.records[y], y)'
      BY <1>5
    <2>. QED
      BY <1>2, <2>1, <2>2, <2>3 DEF ApplyKnows
  <1>7. RevertKnows'
    BY <1>2 DEF RevertKnows
  <1>8. ManifestKnows'
    <2>1. \A y \in Recorded(records) : y[1] \in ides /\ Offered(y)
      BY <1>1 DEF Known, ManifestKnows, At
    <2>2. job' # None
      BY <1>9, JobAssumption
    <2>. QED
      BY <1>1, <1>2, <2>1, <2>2 DEF Known, ManifestKnows, Recorded
  <1>. QED
    BY <1>6, <1>7, <1>8 DEF Known

\* What a revert finds unfit for removal is no link the framework has made.
LEMMA CheckKnown ==
    ASSUME IndInv, Known, NEW x \in Slot, CheckSkill(x)
    PROVE  Known'
  <1>1. /\ job \in Job /\ job # None /\ job.op = "revert" /\ job.step = "skills"
        /\ UNCHANGED <<dest, destMaker, records, ides, last>>
        /\ job' = IF Removable(x) THEN [job EXCEPT !.cleared = {x}]
                  ELSE [job EXCEPT !.slots = @ \ {x}]
    BY DEF CheckSkill, At, IndInv, TypeOK, disk, config
  <1>2. /\ job'.op = "revert" /\ job'.step = "skills"
        /\ job'.slots = (IF Removable(x) THEN job.slots ELSE job.slots \ {x})
        /\ job'.only = job.only /\ job'.records = job.records /\ job'.ides = job.ides
    BY <1>1 DEF Job
  <1>3. \A y : (Made(y)' <=> Made(y)) /\ \A r : Names(r, y)' <=> Names(r, y)
    BY <1>1, LinksAlike
  <1>4. Made(x) => Removable(x)
    BY <1>1 DEF Known, ManifestKnows, Names, Removable
  <1>5. \A y \in Slot : Made(y) => job.records[y] = records[y] \/ y \in job'.slots
    BY <1>1, <1>2, <1>4 DEF Known, RevertKnows
  <1>6. RevertKnows'
    BY <1>1, <1>2, <1>3, <1>5 DEF Known, RevertKnows, Recorded
  <1>7. ApplyKnows'
    BY <1>2 DEF ApplyKnows
  <1>8. ManifestKnows'
    <2>1. /\ \A y \in Slot : Made(y) => Names(records[y], y)
          /\ \A y \in Recorded(records) : y[1] \in ides /\ Offered(y)
      BY <1>1 DEF Known, ManifestKnows, At
    <2>2. (last # None /\ last.op = "revert" /\ last.only = {}) => Recorded(records) = {}
      BY DEF Known, ManifestKnows
    <2>. QED
      BY <1>1, <1>3, <2>1, <2>2 DEF ManifestKnows, Recorded
  <1>. QED
    BY <1>6, <1>7, <1>8 DEF Known

LEMMA RemoveKnown ==
    ASSUME IndInv, Known, NEW x \in Slot, RemoveSkill(x)
    PROVE  Known'
  <1>1. /\ job \in Job /\ job # None /\ job.op = "revert" /\ job.step = "skills"
        /\ destMaker' = destMaker
        /\ job' = [job EXCEPT !.slots = @ \ {x}, !.cleared = {}]
        /\ records' = records /\ ides' = ides /\ last' = last
    BY DEF RemoveSkill, At, IndInv, TypeOK, config, seen
  <1>2. /\ job'.op = "revert" /\ job'.step = "skills" /\ job'.slots = job.slots \ {x}
        /\ job'.only = job.only /\ job'.records = job.records /\ job'.ides = job.ides
    BY <1>1 DEF Job
  <1>3. \A y \in Slot : Made(y) => Names(records[y], y)
    BY <1>1 DEF Known, ManifestKnows
  <1>4. ASSUME NEW y \in Slot, Made(y)'
        PROVE  y # x /\ Made(y) /\ dest'[y] = dest[y]
    <2>1. y # x
      <3>1. dest'[x] \in {"absent", "data"}
        BY DEF RemoveSkill, IndInv, TypeOK
      <3>2. dest'[y] \in Vaults
        BY <1>4 DEF Made
      <3>. QED
        BY <3>1, <3>2, LifecycleAssumption
    <2>2. dest'[y] = dest[y]
      BY <2>1 DEF RemoveSkill, IndInv, TypeOK
    <2>. QED
      BY <1>1, <1>4, <2>1, <2>2 DEF Made
  <1>5. RevertKnows'
    <2>1. \A y \in Slot : Made(y)' =>
              job'.records[y] = records'[y]
              \/ (y \in job'.slots /\ job'.step \in {"dirs", "skills"})
      BY <1>1, <1>2, <1>4 DEF Known, RevertKnows
    <2>2. job'.only = {} => Recorded(job'.records) = {}
      BY <1>1, <1>2 DEF Known, RevertKnows
    <2>3. \A y \in Slot : job'.records[y] # None =>
               y[1] \in job'.ides /\ job'.records[y] = records'[y]
      BY <1>1, <1>2 DEF Known, RevertKnows
    <2>. QED
      BY <1>2, <2>1, <2>2, <2>3 DEF RevertKnows, Recorded
  <1>6. ApplyKnows'
    BY <1>2 DEF ApplyKnows
  <1>7. ManifestKnows'
    <2>1. \A y \in Slot : Made(y)' => Names(records[y], y)'
      BY <1>1, <1>3, <1>4 DEF Names
    <2>2. \A y \in Recorded(records) : y[1] \in ides /\ Offered(y)
      BY <1>1 DEF Known, ManifestKnows, At
    <2>3. (last # None /\ last.op = "revert" /\ last.only = {}) => Recorded(records) = {}
      BY DEF Known, ManifestKnows
    <2>. QED
      BY <1>1, <2>1, <2>2, <2>3 DEF ManifestKnows, Recorded
  <1>. QED
    BY <1>5, <1>6, <1>7 DEF Known

\* The next step of a command is that command with nothing else changed.
LEMMA Advanced ==
    ASSUME job \in Job, NEW step \in {"dirs", "skills", "manifest", "register", "ides"},
           Advance(step)
    PROVE  /\ job' # None /\ job'.op = job.op /\ job'.ides = job.ides /\ job'.only = job.only
           /\ job'.vault = job.vault /\ job'.records = job.records
           /\ job'.slots = job.slots /\ job'.cleared = job.cleared
           /\ job'.step = step
  <1>1. job' \in Job
    BY DEF Advance, Job
  <1>. QED
    BY <1>1, JobAssumption DEF Advance, Job

LEMMA SkillsDoneKnown ==
    ASSUME IndInv, Known, SkillsDone
    PROVE  Known'
  <1>1. /\ job \in Job /\ job # None /\ job.step = "skills" /\ job.slots = {}
        /\ UNCHANGED <<dest, destMaker, records, ides, last>>
    BY DEF SkillsDone, IndInv, TypeOK, disk, config, seen
  <1>2. /\ job' # None /\ job'.op = job.op /\ job'.ides = job.ides /\ job'.only = job.only
        /\ job'.vault = job.vault /\ job'.records = job.records
        /\ job'.slots = job.slots /\ job'.cleared = job.cleared
        /\ job'.step = "manifest"
    BY <1>1, Advanced DEF SkillsDone
  <1>3. \A x : (Made(x)' <=> Made(x)) /\ \A r : Names(r, x)' <=> Names(r, x)
    BY <1>1, LinksAlike
  <1>4. ApplyKnows'
    BY <1>1, <1>2, <1>3 DEF Known, ApplyKnows
  <1>5. RevertKnows'
    BY <1>1, <1>2, <1>3 DEF Known, RevertKnows, Recorded
  <1>6. ManifestKnows'
    BY <1>1, <1>2, <1>3 DEF Known, ManifestKnows, Recorded, At
  <1>. QED
    BY <1>4, <1>5, <1>6 DEF Known

LEMMA SaveKnown ==
    ASSUME IndInv, LastInv, Known, SaveManifest
    PROVE  Known'
  <1>1. /\ job \in Job /\ job # None /\ job.step = "manifest"
        /\ records' = job.records
        /\ UNCHANGED <<dest, destMaker, ides, last>> /\ last = None
    BY DEF SaveManifest, IndInv, TypeOK, LastInv, config, seen
  <1>2. /\ job' # None /\ job'.op = job.op /\ job'.ides = job.ides /\ job'.only = job.only
        /\ job'.vault = job.vault /\ job'.records = job.records
        /\ job'.slots = job.slots /\ job'.cleared = job.cleared
        /\ job'.step = IF job.op = "apply" THEN "register" ELSE "ides"
    BY <1>1, Advanced DEF SaveManifest
  <1>3. \A x : (Made(x)' <=> Made(x)) /\ \A r : Names(r, x)' <=> Names(r, x)
    BY <1>1, LinksAlike
  <1>4. job.op \in {"apply", "revert"}
    BY <1>1 DEF Job
  <1>5. CASE job.op = "apply"
    <2>1. ApplyKnows'
      BY <1>1, <1>2, <1>3, <1>5 DEF Known, ApplyKnows
    <2>2. RevertKnows'
      BY <1>2, <1>5 DEF RevertKnows
    <2>3. ManifestKnows'
      BY <1>1, <1>2, <1>5 DEF ManifestKnows, At
    <2>. QED
      BY <2>1, <2>2, <2>3 DEF Known
  <1>6. CASE job.op = "revert"
    <2>1. ApplyKnows'
      BY <1>2, <1>6 DEF ApplyKnows
    <2>2. RevertKnows'
      BY <1>1, <1>2, <1>3, <1>6 DEF Known, RevertKnows, Recorded
    <2>3. \A x \in Slot : Made(x) => Names(job.records[x], x)
      BY <1>1, <1>6 DEF Known, RevertKnows, ManifestKnows
    <2>4. \A x \in Recorded(job.records) : x[1] \in ides /\ Offered(x)
      <3>1. \A x \in Recorded(job.records) : x \in Recorded(records)
        BY <1>1, <1>6 DEF Known, RevertKnows, Recorded
      <3>. QED
        BY <1>1, <1>6, <3>1 DEF Known, ManifestKnows, At
    <2>5. ManifestKnows'
      BY <1>1, <1>2, <1>3, <1>6, <2>3, <2>4 DEF ManifestKnows, Recorded
    <2>. QED
      BY <2>1, <2>2, <2>5 DEF Known
  <1>. QED
    BY <1>4, <1>5, <1>6

LEMMA AddKnown ==
    ASSUME IndInv, Known, AddWorkspace
    PROVE  Known'
  <1>1. /\ job \in Job /\ job # None /\ job.op = "apply" /\ job.step = "register"
        /\ UNCHANGED <<dest, destMaker, records, ides, last>>
    BY DEF AddWorkspace, At, IndInv, TypeOK, disk, seen
  <1>2. /\ job' # None /\ job'.op = job.op /\ job'.ides = job.ides /\ job'.only = job.only
        /\ job'.vault = job.vault /\ job'.records = job.records
        /\ job'.slots = job.slots /\ job'.cleared = job.cleared
        /\ job'.step = "ides"
    BY <1>1, Advanced DEF AddWorkspace
  <1>3. \A x : (Made(x)' <=> Made(x)) /\ \A r : Names(r, x)' <=> Names(r, x)
    BY <1>1, LinksAlike
  <1>4. ApplyKnows'
    BY <1>1, <1>2, <1>3 DEF Known, ApplyKnows
  <1>5. RevertKnows'
    BY <1>1, <1>2 DEF RevertKnows
  <1>6. ManifestKnows'
    BY <1>1, <1>2 DEF Known, ManifestKnows, Recorded, At
  <1>. QED
    BY <1>4, <1>5, <1>6 DEF Known

\* Where the registered IDEs become those of the plan, the manifest does not
\* name others, whichever command it was.
LEMMA SetKnown ==
    ASSUME IndInv, LastInv, Known, SetIdes
    PROVE  Known'
  <1>1. /\ job \in Job /\ job # None /\ job.step = "ides" /\ job.op \in {"apply", "revert"}
        /\ UNCHANGED <<dest, destMaker, records>> /\ ides' = job.ides /\ last = None
    BY DEF SetIdes, IndInv, TypeOK, LastInv, disk, Job
  <1>2. records = job.records
    BY <1>1 DEF Known, ApplyKnows, RevertKnows
  <1>3. \A x : (Made(x)' <=> Made(x)) /\ \A r : Names(r, x)' <=> Names(r, x)
    BY <1>1, LinksAlike
  <1>4. \A x \in Slot : Made(x) => Names(records[x], x)
    BY <1>1, <1>2 DEF Known, ApplyKnows, ManifestKnows
  <1>5. \A x \in Recorded(records) : x[1] \in ides' /\ Offered(x)
    <2>1. CASE job.op = "apply"
      BY <1>1, <1>2, <2>1 DEF Known, ApplyKnows, Recorded
    <2>2. CASE job.op = "revert"
      BY <1>1, <1>2, <2>2 DEF Known, RevertKnows, ManifestKnows, Recorded, At
    <2>. QED
      BY <1>1, <2>1, <2>2
  <1>6. CASE job.op = "revert" /\ job.only = {}
    <2>1. Advance("register") /\ last' = last
      BY <1>6 DEF SetIdes
    <2>2. /\ job' # None /\ job'.op = job.op /\ job'.ides = job.ides /\ job'.only = job.only
          /\ job'.records = job.records /\ job'.slots = job.slots /\ job'.step = "register"
      BY <1>1, <2>1, Advanced
    <2>3. RevertKnows'
      BY <1>1, <1>2, <1>3, <1>6, <2>2 DEF Known, RevertKnows, Recorded
    <2>4. ApplyKnows'
      BY <1>6, <2>2 DEF ApplyKnows
    <2>5. ManifestKnows'
      BY <1>1, <1>3, <1>4, <1>5, <2>1 DEF ManifestKnows, Recorded
    <2>. QED
      BY <2>3, <2>4, <2>5 DEF Known
  <1>7. CASE ~(job.op = "revert" /\ job.only = {})
    <2>1. job' = None /\ last' = job
      BY <1>7 DEF SetIdes, Succeed
    <2>2. ManifestKnows'
      BY <1>1, <1>3, <1>4, <1>5, <1>7, <2>1 DEF ManifestKnows, Recorded
    <2>. QED
      BY <2>1, <2>2 DEF Known, ApplyKnows, RevertKnows
  <1>. QED
    BY <1>6, <1>7

LEMMA RemoveWorkspaceKnown ==
    ASSUME IndInv, Known, RemoveWorkspace
    PROVE  Known'
  <1>1. /\ job # None /\ job.op = "revert" /\ job.step = "register"
        /\ UNCHANGED <<dest, destMaker, records>> /\ job' = None /\ last' = job
    BY DEF RemoveWorkspace, Succeed, At, disk
  <1>2. Recorded(records) = {}
    BY <1>1 DEF Known, RevertKnows
  <1>3. \A x : (Made(x)' <=> Made(x)) /\ \A r : Names(r, x)' <=> Names(r, x)
    BY <1>1, LinksAlike
  <1>4. \A x \in Slot : Made(x) => Names(records[x], x)
    BY <1>1 DEF Known, ManifestKnows
  <1>5. ManifestKnows'
    BY <1>1, <1>2, <1>3, <1>4 DEF ManifestKnows, Recorded
  <1>. QED
    BY <1>1, <1>5 DEF Known, ApplyKnows, RevertKnows

LEMMA StopKnown ==
    ASSUME IndInv, LastInv, Known, Stop, ~cut'
    PROVE  Known'
  <1>1. /\ job # None /\ job.op = "revert" /\ job' = None
        /\ UNCHANGED <<dest, destMaker, records, ides, last>> /\ last = None
    BY DEF Stop, IndInv, TypeOK, Job, LastInv, disk, config
  <1>2. \A x : (Made(x)' <=> Made(x)) /\ \A r : Names(r, x)' <=> Names(r, x)
    BY <1>1, LinksAlike
  <1>3. /\ \A x \in Slot : Made(x) => Names(records[x], x)
        /\ \A x \in Recorded(records) : x[1] \in ides /\ Offered(x)
    BY <1>1 DEF Known, ManifestKnows, At
  <1>4. ManifestKnows'
    BY <1>1, <1>2, <1>3 DEF ManifestKnows, Recorded
  <1>. QED
    BY <1>1, <1>4 DEF Known, ApplyKnows, RevertKnows

LEMMA OwnerKnown ==
    ASSUME Wary, IndInv, Known, Owner
    PROVE  Known'
  <1>1. /\ job = None /\ job' = None /\ last' = None /\ records' = records /\ ides' = ides
    BY DEF Owner, EditDir, EditDest, Edit, Wary, config
  <1>2. \A x \in Slot : Made(x)' => Made(x) /\ dest'[x] = dest[x]
    BY DEF Owner, EditDir, EditDest, Made, IndInv, TypeOK
  <1>3. /\ \A x \in Slot : Made(x) => Names(records[x], x)
        /\ \A x \in Recorded(records) : x[1] \in ides /\ Offered(x)
    BY <1>1 DEF Known, ManifestKnows, At
  <1>4. \A x \in Slot : Made(x)' => Names(records[x], x)'
    BY <1>1, <1>2, <1>3 DEF Names
  <1>5. ManifestKnows'
    BY <1>1, <1>3, <1>4 DEF ManifestKnows, Recorded
  <1>. QED
    BY <1>1, <1>5 DEF Known, ApplyKnows, RevertKnows

LEMMA NextKnown ==
    ASSUME Wary, IndInv, LastInv, KnownInv, [Next]_vars
    PROVE  KnownInv'
  <1>. SUFFICES ASSUME ~cut' PROVE Known'
    BY DEF KnownInv
  <1>1. ~cut
    <2>1. CASE Stop
      BY <2>1 DEF Stop
    <2>2. CASE UNCHANGED vars
      BY <2>2 DEF vars, seen
    <2>3. CASE Command
      BY <2>3 DEF Command, Apply, Revert, ChooseIdes, Unregister, Begin
    <2>4. CASE Work
      BY <2>4 DEF Work, MakeDir, RemoveDir, ClearDest, LinkSkill, CheckSkill, RemoveSkill,
                  RecordCreated, DirsRemoved, SkillsDone, SaveManifest, AddWorkspace, SetIdes,
                  RemoveWorkspace, seen
    <2>5. CASE Owner
      BY <2>5 DEF Owner, EditDir, EditDest, Edit
    <2>. QED
      BY <2>1, <2>2, <2>3, <2>4, <2>5 DEF Next
  <1>2. Known
    BY <1>1 DEF KnownInv
  <1>3. CASE Work
    BY <1>2, <1>3, DirsKnown, ClearKnown, LinkKnown, CheckKnown, RemoveKnown, SkillsDoneKnown,
       SaveKnown, AddKnown, SetKnown, RemoveWorkspaceKnown DEF Work
  <1>4. CASE UNCHANGED vars
    BY <1>2, <1>4 DEF vars, disk, config, seen, Known, ApplyKnows, RevertKnows, ManifestKnows,
                      Made, Names, Recorded, At
  <1>. QED
    BY <1>2, <1>3, <1>4, CommandKnown, StopKnown, OwnerKnown DEF Next

(* Once a whole workspace is reverted none of the framework's links is     *)
(* left, however many reverts were cut short before: as long as no apply   *)
(* was, the manifest names every link that was made.                       *)
THEOREM RevertsLeaveNoLink == Wary => (Spec => []RevertLeavesNoLink)
  <1>. SUFFICES ASSUME Wary PROVE Spec => []RevertLeavesNoLink
    OBVIOUS
  <1>. DEFINE Inv == ApplyInv /\ LastInv /\ KnownInv
  <1>1. Init => Inv
    <2>. SUFFICES ASSUME Init PROVE Inv
      OBVIOUS
    <2>1. ApplyInv /\ LastInv
      BY DEF Init, ApplyInv, LastInv
    <2>2. \A x \in Slot : ~Made(x) /\ records[x] = None
      BY LifecycleAssumption DEF Init, Made
    <2>. QED
      BY <2>1, <2>2 DEF Init, KnownInv, Known, ApplyKnows, RevertKnows, ManifestKnows, Recorded
  <1>2. IndInv /\ Inv /\ [Next]_vars => Inv'
    BY NextApplyInv, NextLastInv, NextKnown DEF Wary
  <1>3. IndInv /\ Inv => RevertLeavesNoLink
    <2>. SUFFICES ASSUME IndInv, Inv, ~cut, last # None, last.op = "revert", last.only = {},
                         NEW x \in Slot, destMaker[x] = "framework", dest[x] \in Vaults
                  PROVE  FALSE
      BY DEF RevertLeavesNoLink
    <2>1. job = None /\ Recorded(records) = {}
      BY DEF LastInv, KnownInv, Known, ManifestKnows
    <2>2. Names(records[x], x)
      BY <2>1 DEF KnownInv, Known, ManifestKnows, Made
    <2>. QED
      BY <2>1, <2>2 DEF Recorded, Names
  <1>. QED
    BY <1>1, <1>2, <1>3, InvariantHolds, PTL DEF Spec
=============================================================================
