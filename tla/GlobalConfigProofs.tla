------------------------ MODULE GlobalConfigProofs ------------------------
(***************************************************************************)
(* Proofs about GlobalConfig for every number of processes, names, paths   *)
(* and commands.                                                           *)
(***************************************************************************)
EXTENDS GlobalConfig, TLAPS

LEMMA NoneIsNoName == None \notin Names /\ None \notin Paths
  BY ConfigAssumption

LEMMA DefaultsAreValid == Defaults \in Config /\ Valid(Defaults)
  BY ConfigAssumption DEF Defaults, Config, Valid, Registered

(* Every command turns a configuration into a configuration.               *)
LEMMA EffectType ==
    ASSUME NEW c \in Config, NEW k \in Command
    PROVE  Effect(c, k) \in Config
  <1>1. CASE k.op = "add"
    <2>1. k \in [op : {"add"}, name : Names, path : Paths, dflt : BOOLEAN]
      BY <1>1 DEF Command
    <2>. QED
      BY <1>1, <2>1 DEF Effect, Added, Config
  <1>2. CASE k.op = "remove"
    <2>1. k.name \in Names
      BY <1>2 DEF Command
    <2>. QED
      BY <1>2, <2>1 DEF Effect, Removed, Config
  <1>3. CASE k.op = "default"
    <2>1. k.name \in Names
      BY <1>3 DEF Command
    <2>. QED
      BY <1>3, <2>1 DEF Effect, DefaultSet, Config
  <1>4. CASE k.op = "vault"
    <2>1. k.path \in Paths \cup {None}
      BY <1>4 DEF Command
    <2>. QED
      BY <1>4, <2>1 DEF Effect, VaultSet, Config
  <1>5. CASE k.op = "ides"
    <2>1. k.name \in Names /\ k.ides \in SUBSET Ides
      BY <1>5 DEF Command
    <2>. QED
      BY <1>5, <2>1 DEF Effect, IdesSet, Config
  <1>6. CASE k.op = "runtime"
    <2>1. k.runtime \in Runtimes
      BY <1>6 DEF Command
    <2>. QED
      BY <1>6, <2>1 DEF Effect, RuntimeSet, Config
  <1>. QED
    BY <1>1, <1>2, <1>3, <1>4, <1>5, <1>6 DEF Command

(* A command that passed its checks keeps a valid configuration valid, so  *)
(* save() has nothing to refuse.                                           *)
LEMMA EffectValid ==
    ASSUME NEW c \in Config, NEW k \in Command, Valid(c), Allowed(c, k)
    PROVE  Valid(Effect(c, k))
  <1>1. CASE k.op = "add"
    <2>1. k \in [op : {"add"}, name : Names, path : Paths, dflt : BOOLEAN]
      BY <1>1 DEF Command
    <2>2. k.path # None
      BY <2>1, NoneIsNoName
    <2>3. Effect(c, k).path = [c.path EXCEPT ![k.name] = k.path]
      BY <1>1 DEF Effect, Added, Config
    <2>4. Registered(Effect(c, k)) = Registered(c) \cup {k.name}
      BY <2>1, <2>2, <2>3 DEF Registered, Config
    <2>5. Effect(c, k).dflt \in {c.dflt, k.name}
      BY <1>1 DEF Effect, Added, Config
    <2>6. Effect(c, k).ides = c.ides
      BY <1>1 DEF Effect, Added, Config
    <2>. QED
      BY <2>4, <2>5, <2>6 DEF Valid
  <1>2. CASE k.op = "remove"
    <2>1. k.name \in Names
      BY <1>2 DEF Command
    <2>2. Effect(c, k) = Removed(c, k)
      BY <1>2 DEF Effect
    <2>3. Removed(c, k).path = [c.path EXCEPT ![k.name] = None]
      BY DEF Removed, Config
    <2>4. Registered(Removed(c, k)) = Registered(c) \ {k.name}
      BY <2>1, <2>3 DEF Registered, Config
    <2>5. Removed(c, k).dflt = (IF c.dflt = k.name THEN None ELSE c.dflt)
      BY DEF Removed, Config
    <2>6. \A n \in Names :
              Removed(c, k).ides[n] = (IF n = k.name THEN {} ELSE c.ides[n])
      BY <2>1 DEF Removed, Config
    <2>. QED
      BY <2>2, <2>4, <2>5, <2>6 DEF Valid
  <1>3. CASE k.op = "default"
    <2>1. k.name \in Registered(c)
      BY <1>3 DEF Allowed
    <2>2. Effect(c, k).path = c.path /\ Effect(c, k).ides = c.ides
          /\ Effect(c, k).dflt = k.name
      BY <1>3 DEF Effect, DefaultSet, Config
    <2>. QED
      BY <2>1, <2>2 DEF Valid, Registered
  <1>4. CASE k.op = "vault"
    <2>1. Effect(c, k).path = c.path /\ Effect(c, k).ides = c.ides
          /\ Effect(c, k).dflt = c.dflt
      BY <1>4 DEF Effect, VaultSet, Config
    <2>. QED
      BY <2>1 DEF Valid, Registered
  <1>5. CASE k.op = "ides"
    <2>1. k.name \in Registered(c)
      BY <1>5 DEF Allowed
    <2>2. Effect(c, k).path = c.path /\ Effect(c, k).dflt = c.dflt
      BY <1>5 DEF Effect, IdesSet, Config
    <2>3. \A n \in Names \ {k.name} : Effect(c, k).ides[n] = c.ides[n]
      BY <1>5, <2>1 DEF Effect, IdesSet, Config, Registered
    <2>. QED
      BY <2>1, <2>2, <2>3 DEF Valid, Registered
  <1>6. CASE k.op = "runtime"
    <2>1. Effect(c, k).path = c.path /\ Effect(c, k).ides = c.ides
          /\ Effect(c, k).dflt = c.dflt
      BY <1>6 DEF Effect, RuntimeSet, Config
    <2>. QED
      BY <2>1 DEF Valid, Registered
  <1>. QED
    BY <1>1, <1>2, <1>3, <1>4, <1>5, <1>6 DEF Command

LEMMA ContentType ==
    ASSUME NEW f \in Config \cup {NoFile, Damaged}, f # Damaged
    PROVE  Content(f) \in Config
  BY DefaultsAreValid DEF Content
-----------------------------------------------------------------------------
(* Type correctness.                                                       *)

LEMMA InitTypeOK == Init => TypeOK
  BY ProcessAssumption, DefaultsAreValid
  DEF Init, TypeOK, Content, Stage, Answer

LEMMA GiveUpType ==
    ASSUME TypeOK, NEW p \in Procs, NEW why \in Answer, GiveUp(p, why),
           overtaken' \subseteq Procs
    PROVE  TypeOK'
  BY DEF GiveUp, TypeOK, Stage

LEMMA NextTypeOK == TypeOK /\ LocalInv /\ [Next]_vars => TypeOK'
  <1>. SUFFICES ASSUME TypeOK, LocalInv, [Next]_vars
                PROVE  TypeOK'
    OBVIOUS
  <1>1. ASSUME NEW p \in Procs, NEW c \in Command, Call(p, c)
        PROVE  TypeOK'
    <2>1. calls'[p] \in 0..MaxCalls
      BY <1>1, ProcessAssumption DEF Call, TypeOK
    <2>2. calls' \in [Procs -> 0..MaxCalls]
      BY <1>1, <2>1 DEF Call, TypeOK
    <2>. QED
      BY <1>1, <2>2 DEF Call, TypeOK, Stage, Answer
  <1>2. ASSUME NEW p \in Procs, Lock(p)
        PROVE  TypeOK'
    <2>1. SpaceOf(p) \in Spaces
      BY ProcessAssumption DEF SpaceOf, Spaces
    <2>. QED
      BY <1>2, <2>1 DEF Lock, TypeOK, Stage
  <1>3. ASSUME NEW p \in Procs, Load(p)
        PROVE  TypeOK'
    <2>1. Content(file) \in Config
      BY <1>3, ContentType DEF Load, Acceptable, TypeOK
    <2>2. cmd[p] \in Command
      BY <1>3 DEF Load, LocalInv
    <2>3. Effect(Content(file), cmd[p]) \in Config
      BY <2>1, <2>2, EffectType
    <2>. QED
      BY <1>3, <2>3 DEF Load, TypeOK, Stage
  <1>4. ASSUME NEW p \in Procs, LoadRefused(p)
        PROVE  TypeOK'
    BY <1>4, GiveUpType DEF LoadRefused, TypeOK, Answer
  <1>5. ASSUME NEW p \in Procs, Recheck(p)
        PROVE  TypeOK'
    <2>1. CASE Valid(draft[p]) /\ file # Damaged
      BY <1>5, <2>1 DEF Recheck, TypeOK, Stage
    <2>2. CASE ~(Valid(draft[p]) /\ file # Damaged)
      BY <1>5, <2>2, GiveUpType DEF Recheck, TypeOK, Answer
    <2>. QED
      BY <2>1, <2>2
  <1>6. ASSUME NEW p \in Procs, Commit(p)
        PROVE  TypeOK'
    <2>1. draft[p] \in Config /\ cmd[p] \in Command
      BY <1>6 DEF Commit, LocalInv
    <2>2. Effect(ledger, cmd[p]) \in Config
      BY <2>1, EffectType DEF TypeOK
    <2>. QED
      BY <1>6, <2>1, <2>2 DEF Commit, TypeOK, Stage, Answer
  <1>7. ASSUME NEW p \in Procs, WriteFails(p)
        PROVE  TypeOK'
    BY <1>7, GiveUpType DEF WriteFails, TypeOK, Answer
  <1>8. ASSUME NEW p \in Procs, Unlock(p)
        PROVE  TypeOK'
    BY <1>8 DEF Unlock, TypeOK, Stage
  <1>9. ASSUME NEW p \in Procs, Reply(p)
        PROVE  TypeOK'
    BY <1>9 DEF Reply, TypeOK, Stage, Answer
  <1>10. ASSUME NEW p \in Procs, Crash(p)
         PROVE  TypeOK'
    BY <1>10 DEF Crash, TypeOK, Stage, Answer
  <1>11. ASSUME Damage
         PROVE  TypeOK'
    BY <1>11, ProcessAssumption DEF Damage, TypeOK, procVars
  <1>12. CASE UNCHANGED vars
    BY <1>12 DEF vars, TypeOK
  <1>. QED
    BY <1>1, <1>2, <1>3, <1>4, <1>5, <1>6, <1>7, <1>8, <1>9, <1>10, <1>11, <1>12
    DEF Next, Work
-----------------------------------------------------------------------------
(* The inductive invariant, whatever excludes what.                        *)

LEMMA InitIndInv == Init => IndInv
  BY InitTypeOK DEF Init, IndInv, LocalInv, LockInv, SavedFileLoads,
                    OvertakenInv, Critical, Content

LEMMA NextLocalInv == IndInv /\ [Next]_vars => LocalInv'
  <1>. SUFFICES ASSUME IndInv, [Next]_vars
                PROVE  LocalInv'
    OBVIOUS
  <1>. USE DEF IndInv
  <1>1. ASSUME NEW p \in Procs, NEW c \in Command, Call(p, c)
        PROVE  LocalInv'
    BY <1>1 DEF Call, LocalInv, TypeOK
  <1>2. ASSUME NEW p \in Procs, Lock(p)
        PROVE  LocalInv'
    BY <1>2 DEF Lock, LocalInv, TypeOK
  <1>3. ASSUME NEW p \in Procs, Load(p)
        PROVE  LocalInv'
    <2>1. Content(file) \in Config /\ cmd[p] \in Command
      BY <1>3, ContentType DEF Load, Acceptable, TypeOK, LocalInv
    <2>2. Valid(Content(file))
      BY <1>3, DefaultsAreValid DEF Load, Acceptable, SavedFileLoads, Content
    <2>3. Effect(Content(file), cmd[p]) \in Config
          /\ Valid(Effect(Content(file), cmd[p]))
      BY <1>3, <2>1, <2>2, EffectType, EffectValid DEF Load, Acceptable
    <2>. QED
      BY <1>3, <2>3 DEF Load, LocalInv, TypeOK
  <1>4. ASSUME NEW p \in Procs, LoadRefused(p)
        PROVE  LocalInv'
    BY <1>4 DEF LoadRefused, GiveUp, LocalInv, TypeOK
  <1>5. ASSUME NEW p \in Procs, Recheck(p)
        PROVE  LocalInv'
    BY <1>5 DEF Recheck, GiveUp, LocalInv, TypeOK
  <1>6. ASSUME NEW p \in Procs, Commit(p)
        PROVE  LocalInv'
    BY <1>6 DEF Commit, LocalInv, TypeOK
  <1>7. ASSUME NEW p \in Procs, WriteFails(p)
        PROVE  LocalInv'
    BY <1>7 DEF WriteFails, GiveUp, LocalInv, TypeOK
  <1>8. ASSUME NEW p \in Procs, Unlock(p) \/ Reply(p) \/ Crash(p)
        PROVE  LocalInv'
    BY <1>8 DEF Unlock, Reply, Crash, LocalInv, TypeOK
  <1>9. CASE Damage \/ UNCHANGED vars
    BY <1>9 DEF Damage, procVars, vars, LocalInv
  <1>. QED
    BY <1>1, <1>2, <1>3, <1>4, <1>5, <1>6, <1>7, <1>8, <1>9 DEF Next, Work

LEMMA NextLockInv == TypeOK /\ LockInv /\ [Next]_vars => LockInv'
  <1>. SUFFICES ASSUME TypeOK, LockInv, [Next]_vars
                PROVE  LockInv'
    OBVIOUS
  <1>. USE DEF LockInv, Critical, TypeOK
  <1>s. \A p \in Procs : SpaceOf(p) \in Spaces
    BY ProcessAssumption DEF SpaceOf, Spaces
  <1>1. ASSUME NEW p \in Procs, NEW c \in Command, Call(p, c)
        PROVE  LockInv'
    BY <1>1 DEF Call
  <1>2. ASSUME NEW p \in Procs, Lock(p)
        PROVE  LockInv'
    <2>1. \A q \in Procs \ {p} : pc[q] \in Critical => SpaceOf(q) # SpaceOf(p)
      BY <1>2, ProcessAssumption DEF Lock
    <2>. QED
      BY <1>2, <2>1, <1>s DEF Lock
  <1>3. ASSUME NEW p \in Procs, Load(p) \/ LoadRefused(p) \/ Recheck(p)
        PROVE  LockInv'
    BY <1>3 DEF Load, LoadRefused, Recheck, GiveUp
  <1>4. ASSUME NEW p \in Procs, Commit(p) \/ WriteFails(p)
        PROVE  LockInv'
    BY <1>4 DEF Commit, WriteFails, GiveUp
  <1>5. ASSUME NEW p \in Procs, Unlock(p)
        PROVE  LockInv'
    <2>1. \A q \in Procs \ {p} : pc[q] \in Critical => SpaceOf(q) # SpaceOf(p)
      BY <1>5 DEF Unlock
    <2>. QED
      BY <1>5, <2>1, <1>s DEF Unlock
  <1>6. ASSUME NEW p \in Procs, Reply(p)
        PROVE  LockInv'
    BY <1>6 DEF Reply
  <1>7. ASSUME NEW p \in Procs, Crash(p)
        PROVE  LockInv'
    BY <1>7, <1>s DEF Crash
  <1>8. CASE Damage \/ UNCHANGED vars
    BY <1>8 DEF Damage, procVars, vars
  <1>. QED
    BY <1>1, <1>2, <1>3, <1>4, <1>5, <1>6, <1>7, <1>8 DEF Next, Work

LEMMA NextSavedFileLoads ==
    LocalInv /\ SavedFileLoads /\ [Next]_vars => SavedFileLoads'
  <1>. SUFFICES ASSUME LocalInv, SavedFileLoads, [Next]_vars
                PROVE  SavedFileLoads'
    OBVIOUS
  <1>1. ASSUME NEW p \in Procs, Commit(p)
        PROVE  SavedFileLoads'
    BY <1>1 DEF Commit, LocalInv, SavedFileLoads
  <1>2. CASE Damage
    BY <1>2 DEF Damage, SavedFileLoads
  <1>3. CASE file' = file
    BY <1>3 DEF SavedFileLoads
  <1>. QED
    BY <1>1, <1>2, <1>3 DEF Next, Work, Call, Lock, Load, LoadRefused, Recheck,
       GiveUp, WriteFails, Unlock, Reply, Crash, vars

LEMMA NextOvertakenInv == IndInv /\ [Next]_vars => OvertakenInv'
  <1>. SUFFICES ASSUME IndInv, [Next]_vars
                PROVE  OvertakenInv'
    OBVIOUS
  <1>. USE DEF IndInv, OvertakenInv, TypeOK
  <1>1. ASSUME NEW p \in Procs, NEW c \in Command, Call(p, c)
        PROVE  OvertakenInv'
    BY <1>1 DEF Call
  <1>2. ASSUME NEW p \in Procs, Lock(p) \/ Load(p) \/ LoadRefused(p)
        PROVE  OvertakenInv'
    BY <1>2 DEF Lock, Load, LoadRefused, GiveUp
  <1>3. ASSUME NEW p \in Procs, Recheck(p)
        PROVE  OvertakenInv'
    BY <1>3 DEF Recheck, GiveUp
  <1>4. ASSUME NEW p \in Procs, Commit(p)
        PROVE  OvertakenInv'
    <2>1. file' # Damaged
      BY <1>4, ProcessAssumption DEF Commit, LocalInv
    <2>. QED
      BY <2>1
  <1>5. ASSUME NEW p \in Procs, WriteFails(p) \/ Crash(p)
        PROVE  OvertakenInv'
    BY <1>5 DEF WriteFails, GiveUp, Crash
  <1>6. ASSUME NEW p \in Procs, Unlock(p) \/ Reply(p)
        PROVE  OvertakenInv'
    BY <1>6 DEF Unlock, Reply
  <1>7. CASE Damage \/ UNCHANGED vars
    BY <1>7 DEF Damage, procVars, vars
  <1>. QED
    BY <1>1, <1>2, <1>3, <1>4, <1>5, <1>6, <1>7 DEF Next, Work

THEOREM InvariantHolds == Spec => []IndInv
  <1>1. IndInv /\ [Next]_vars => IndInv'
    BY NextTypeOK, NextLocalInv, NextLockInv, NextSavedFileLoads,
       NextOvertakenInv DEF IndInv
  <1>. QED
    BY InitIndInv, <1>1, PTL DEF Spec

(* The model's variables keep their types: file is a configuration, absent *)
(* or damaged, and every lock is free or held by a process.                *)
THEOREM TypeCorrect == Spec => []TypeOK
  BY InvariantHolds, PTL DEF IndInv

(* Processes whose locks exclude each other are never in the critical      *)
(* section of withConfigLock together, whatever crashes.                   *)
THEOREM LocksExclude == Spec => []MutualExclusion
  <1>1. LockInv => MutualExclusion
    BY ProcessAssumption DEF LockInv, MutualExclusion
  <1>. QED
    BY <1>1, InvariantHolds, PTL DEF IndInv

(* A file the program saved is one the program loads, even when the two    *)
(* runtimes' locks do not exclude each other.                              *)
THEOREM SavedFilesLoad == Spec => []SavedFileLoads
  BY InvariantHolds, PTL DEF IndInv

(* Only a process that had read the file again before it was damaged can   *)
(* replace a damaged file.                                                 *)
THEOREM DamagedFilesKept == Spec => DamagedFileKept
  <1>1. IndInv /\ [Next]_vars =>
          [(file = Damaged /\ file' # Damaged) =>
              \E p \in overtaken : pc[p] = "moving" /\ pc'[p] # "moving"]_vars
    <2>. SUFFICES ASSUME IndInv, Next, file = Damaged, file' # Damaged
                  PROVE  \E p \in overtaken : pc[p] = "moving" /\ pc'[p] # "moving"
      OBVIOUS
    <2>1. PICK p \in Procs : Commit(p)
      BY DEF Next, Work, Call, Lock, Load, LoadRefused, Recheck, GiveUp,
             WriteFails, Unlock, Reply, Crash, Damage
    <2>2. p \in overtaken /\ pc[p] = "moving"
      BY <2>1 DEF Commit, IndInv, OvertakenInv
    <2>3. pc'[p] = "unlocking"
      BY <2>1 DEF Commit, IndInv, TypeOK
    <2>. QED
      BY <2>2, <2>3
  <1>. QED
    BY <1>1, InvariantHolds, PTL DEF Spec, DamagedFileKept

-----------------------------------------------------------------------------
(* What liveness rests on.                                                 *)

(* A lock that is held is held by a process at work, so that one who waits *)
(* for it waits for somebody who advances.                                 *)
THEOREM HoldersWork == Spec => []HolderAtWork
  <1>1. Init => HolderAtWork
    BY DEF Init, HolderAtWork
  <1>2. IndInv /\ HolderAtWork /\ [Next]_vars => HolderAtWork'
    <2>. SUFFICES ASSUME IndInv, HolderAtWork, [Next]_vars PROVE HolderAtWork'
      OBVIOUS
    <2>0. TypeOK /\ LockInv
      BY DEF IndInv
    <2>1. \A p \in Procs : SpaceOf(p) \in Spaces
      BY ProcessAssumption DEF Spaces, SpaceOf
    <2>2. \A s \in Spaces : holder[s] # None => holder[s] \in Procs
      BY <2>0 DEF TypeOK
    <2>. USE DEF HolderAtWork
    <2>3. ASSUME NEW p \in Procs, UNCHANGED holder,
                 \A q \in Procs \ {p} : pc'[q] = pc[q],
                 pc[p] \notin Critical \/ pc'[p] \in Critical
          PROVE  HolderAtWork'
      BY <2>2, <2>3
    <2>4. ASSUME NEW p \in Procs, NEW c \in Command, Call(p, c)
          PROVE  HolderAtWork'
      <3>1. pc[p] \notin Critical /\ \A q \in Procs \ {p} : pc'[q] = pc[q]
        BY <2>0, <2>4 DEF Call, TypeOK, Critical
      <3>. QED
        BY <2>3, <2>4, <3>1 DEF Call
    <2>5. ASSUME NEW p \in Procs, Lock(p)
          PROVE  HolderAtWork'
      <3>1. /\ pc'[p] \in Critical /\ pc[p] \notin Critical
            /\ \A q \in Procs \ {p} : pc'[q] = pc[q]
        BY <2>0, <2>5 DEF Lock, TypeOK, Critical
      <3>2. \A s \in Spaces :
                holder'[s] = IF s = SpaceOf(p) THEN p ELSE holder[s]
        BY <2>0, <2>1, <2>5 DEF Lock, TypeOK
      <3>. QED
        BY <2>2, <3>1, <3>2
    <2>6. ASSUME NEW p \in Procs,
                 Load(p) \/ LoadRefused(p) \/ Recheck(p) \/ Commit(p) \/ WriteFails(p)
          PROVE  HolderAtWork'
      <3>1. UNCHANGED holder /\ pc'[p] \in Critical /\ \A q \in Procs \ {p} : pc'[q] = pc[q]
        BY <2>0, <2>6 DEF Load, LoadRefused, Recheck, Commit, WriteFails, GiveUp,
                          TypeOK, Critical
      <3>. QED
        BY <2>3, <3>1
    <2>7. ASSUME NEW p \in Procs, Unlock(p)
          PROVE  HolderAtWork'
      <3>1. /\ pc[p] \in Critical /\ holder[SpaceOf(p)] = p
            /\ \A q \in Procs \ {p} : pc'[q] = pc[q]
        BY <2>0, <2>7 DEF Unlock, TypeOK, Critical, LockInv
      <3>2. \A s \in Spaces :
                holder'[s] = IF s = SpaceOf(p) THEN None ELSE holder[s]
        BY <2>0, <2>1, <2>7 DEF Unlock, TypeOK
      <3>3. \A s \in Spaces : holder'[s] # None => holder'[s] = holder[s] /\ holder[s] # p
        BY <3>1, <3>2
      <3>. QED
        BY <2>2, <3>1, <3>3
    <2>8. ASSUME NEW p \in Procs, Reply(p)
          PROVE  HolderAtWork'
      <3>1. pc[p] \notin Critical /\ \A q \in Procs \ {p} : pc'[q] = pc[q]
        BY <2>0, <2>8 DEF Reply, TypeOK, Critical
      <3>. QED
        BY <2>3, <2>8, <3>1 DEF Reply
    <2>9. ASSUME NEW p \in Procs, Crash(p)
          PROVE  HolderAtWork'
      <3>1. \A q \in Procs \ {p} : pc'[q] = pc[q]
        BY <2>0, <2>9 DEF Crash, TypeOK
      <3>2. \A s \in Spaces : holder'[s] # None => holder'[s] = holder[s] /\ holder[s] # p
        BY <2>9 DEF Crash
      <3>. QED
        BY <2>2, <3>1, <3>2
    <2>10. CASE Damage \/ UNCHANGED vars
      BY <2>10 DEF Damage, procVars, vars
    <2>. QED
      BY <2>4, <2>5, <2>6, <2>7, <2>8, <2>9, <2>10 DEF Next, Work
  <1>. QED
    BY <1>1, <1>2, InvariantHolds, PTL DEF Spec

(* Each step of a command, a failing one too, takes it nearer to its end,  *)
(* and no other process moves it.                                          *)
THEOREM CommandsGoForward == Spec => CommandsAdvance
  <1>. DEFINE Ahead(p) ==
           /\ (pc[p] # "idle" /\ (Work(p) \/ pc'[p] # pc[p])) =>
                  StepsLeft(pc'[p]) < StepsLeft(pc[p])
           /\ Work(p) => \A q \in Procs \ {p} : pc'[q] = pc[q]
  <1>1. ASSUME TypeOK, NEW p \in Procs, Work(p)
        PROVE  /\ StepsLeft(pc'[p]) < StepsLeft(pc[p])
               /\ \A q \in Procs \ {p} : pc'[q] = pc[q]
    <2>1. CASE Lock(p) \/ Load(p) \/ Commit(p)
      BY <1>1, <2>1 DEF Lock, Load, Commit, TypeOK, StepsLeft
    <2>2. CASE LoadRefused(p) \/ Recheck(p) \/ WriteFails(p)
      BY <1>1, <2>2 DEF LoadRefused, Recheck, WriteFails, GiveUp, TypeOK, StepsLeft
    <2>3. CASE Unlock(p) \/ Reply(p)
      BY <1>1, <2>3 DEF Unlock, Reply, TypeOK, StepsLeft
    <2>. QED
      BY <1>1, <2>1, <2>2, <2>3 DEF Work
  <1>2. ASSUME TypeOK, NEW p \in Procs, Crash(p)
        PROVE  /\ StepsLeft(pc'[p]) < StepsLeft(pc[p])
               /\ \A q \in Procs \ {p} : pc'[q] = pc[q]
    BY <1>2 DEF Crash, TypeOK, Stage, StepsLeft
  <1>3. ASSUME TypeOK, NEW p \in Procs, NEW c \in Command, Call(p, c)
        PROVE  pc[p] = "idle" /\ \A q \in Procs \ {p} : pc'[q] = pc[q]
    BY <1>3 DEF Call, TypeOK
  <1>4. ASSUME Damage
        PROVE  UNCHANGED pc
    BY <1>4 DEF Damage, procVars
  <1>5. TypeOK /\ [Next]_vars => [\A p \in Procs : Ahead(p)]_vars
    <2>. SUFFICES ASSUME TypeOK, Next, NEW p \in Procs PROVE Ahead(p)
      OBVIOUS
    <2>. QED
      BY <1>1, <1>2, <1>3, <1>4 DEF Next
  <1>. QED
    BY <1>5, TypeCorrect, PTL DEF Spec, CommandsAdvance
-----------------------------------------------------------------------------
(* With one lock, nothing that was acknowledged is lost.                   *)

LEMMA InitKeptInv == Init => KeptInv
  BY DEF Init, KeptInv, CommittedChangesKept, DraftInv

\* While a process is in the critical section, no other is.
LEMMA CriticalAlone ==
    ASSUME OneLockSpace, IndInv,
           NEW p \in Procs, NEW q \in Procs, p # q, pc[p] \in Critical
    PROVE  pc[q] \notin Critical
  BY DEF OneLockSpace, IndInv, LockInv

LEMMA NextKeptInv ==
    ASSUME OneLockSpace
    PROVE  IndInv /\ KeptInv /\ [Next]_vars => KeptInv'
  <1>. SUFFICES ASSUME IndInv, KeptInv, [Next]_vars
                PROVE  KeptInv'
    OBVIOUS
  <1>. USE DEF KeptInv, CommittedChangesKept, DraftInv
  <1>. TypeOK
    BY DEF IndInv
  <1>1. ASSUME NEW p \in Procs, NEW c \in Command, Call(p, c)
        PROVE  KeptInv'
    BY <1>1 DEF Call, TypeOK
  <1>2. ASSUME NEW p \in Procs, Lock(p)
        PROVE  KeptInv'
    BY <1>2 DEF Lock, TypeOK
  <1>3. ASSUME NEW p \in Procs, Load(p)
        PROVE  KeptInv'
    BY <1>3 DEF Load, Acceptable, TypeOK
  <1>4. ASSUME NEW p \in Procs, LoadRefused(p) \/ WriteFails(p)
        PROVE  KeptInv'
    BY <1>4 DEF LoadRefused, WriteFails, GiveUp, TypeOK
  <1>5. ASSUME NEW p \in Procs, Recheck(p)
        PROVE  KeptInv'
    BY <1>5 DEF Recheck, GiveUp, TypeOK
  <1>6. ASSUME NEW p \in Procs, Commit(p)
        PROVE  KeptInv'
    <2>1. \A q \in Procs \ {p} : pc[q] \notin {"saving", "moving"}
      BY <1>6, CriticalAlone DEF Commit, Critical
    <2>2. draft[p] = Effect(ledger, cmd[p]) /\ draft[p] \in Config
      BY <1>6 DEF Commit, IndInv, LocalInv
    <2>3. Content(file') = ledger'
      BY <1>6, <2>2, ProcessAssumption DEF Commit, Content
    <2>. QED
      BY <1>6, <2>1, <2>3 DEF Commit, TypeOK
  <1>7. ASSUME NEW p \in Procs, Unlock(p) \/ Reply(p) \/ Crash(p)
        PROVE  KeptInv'
    BY <1>7 DEF Unlock, Reply, Crash, TypeOK
  <1>8. CASE Damage \/ UNCHANGED vars
    BY <1>8 DEF Damage, procVars, vars
  <1>. QED
    BY <1>1, <1>2, <1>3, <1>4, <1>5, <1>6, <1>7, <1>8 DEF Next, Work

(* When all processes contend for one lock, the file holds the effect of   *)
(* every command committed so far, one after another: no update is lost.   *)
THEOREM NoUpdateIsLost ==
    ASSUME OneLockSpace
    PROVE  Spec => []CommittedChangesKept
  <1>1. IndInv /\ KeptInv /\ [Next]_vars => KeptInv'
    BY NextKeptInv
  <1>2. KeptInv => CommittedChangesKept
    BY DEF KeptInv
  <1>. QED
    BY InitKeptInv, InvariantHolds, <1>1, <1>2, PTL DEF Spec

(* An allowed command makes no two names share a path that did not.        *)
LEMMA EffectShared ==
    ASSUME NEW c \in Config, NEW k \in Command, Allowed(c, k)
    PROVE  Shared(Effect(c, k)) \subseteq Shared(c)
  <1>1. CASE k.op = "add"
    <2>1. k \in [op : {"add"}, name : Names, path : Paths, dflt : BOOLEAN]
      BY <1>1 DEF Command
    <2>2. AddAllowed(c, k)
      BY <1>1 DEF Allowed
    <2>3. Effect(c, k).path = [c.path EXCEPT ![k.name] = k.path]
      BY <1>1 DEF Effect, Added, Config
    <2>4. \A n \in Names :
             Effect(c, k).path[n] = (IF n = k.name THEN k.path ELSE c.path[n])
      BY <2>1, <2>3 DEF Config
    <2>5. \A m \in Names : c.path[m] = k.path => m = k.name
      BY <2>1, <2>2, NoneIsNoName DEF AddAllowed, PathOwners, Registered
    <2>. QED
      BY <2>1, <2>4, <2>5, NoneIsNoName DEF Shared, PathOwners, Registered
  <1>2. CASE k.op = "remove"
    <2>1. k.name \in Names
      BY <1>2 DEF Command
    <2>2. \A n \in Names :
             Effect(c, k).path[n] = (IF n = k.name THEN None ELSE c.path[n])
      BY <1>2, <2>1 DEF Effect, Removed, Config
    <2>. QED
      BY <2>2 DEF Shared, PathOwners, Registered
  <1>3. CASE k.op \notin {"add", "remove"}
    <2>1. Effect(c, k).path = c.path
      <3>1. CASE k.op = "default"
        BY <3>1 DEF Effect, DefaultSet, Config
      <3>2. CASE k.op = "vault"
        BY <3>2 DEF Effect, VaultSet, Config
      <3>3. CASE k.op = "ides"
        BY <3>3 DEF Effect, IdesSet, Config
      <3>4. CASE k.op = "runtime"
        BY <3>4 DEF Effect, RuntimeSet, Config
      <3>. QED
        BY <1>3, <3>1, <3>2, <3>3, <3>4 DEF Command
    <2>. QED
      BY <2>1 DEF Shared, PathOwners, Registered
  <1>. QED
    BY <1>1, <1>2, <1>3

\* What a commit writes, in terms of what it replaces.
LEMMA CommitReplaces ==
    ASSUME IndInv, KeptInv, file # Damaged, NEW p \in Procs, Commit(p)
    PROVE  /\ Content(file) \in Config /\ cmd[p] \in Command
           /\ Allowed(Content(file), cmd[p])
           /\ Content(file') = Effect(Content(file), cmd[p])
  <1>1. Content(file) \in Config
    BY ContentType DEF IndInv, TypeOK
  <1>2. cmd[p] \in Command /\ draft[p] \in Config
    BY DEF Commit, IndInv, LocalInv
  <1>3. Content(file') = draft[p]
    BY <1>2, ProcessAssumption DEF Commit, Content
  <1>. QED
    BY <1>1, <1>2, <1>3 DEF KeptInv, CommittedChangesKept, DraftInv, Commit

\* Only a commit or a hand edit changes the file.
LEMMA FileChanges ==
    ASSUME [Next]_vars, file' # file
    PROVE  Damage \/ \E p \in Procs : Commit(p)
  BY DEF Next, Work, Call, Lock, Load, LoadRefused, Recheck, GiveUp,
         WriteFails, Unlock, Reply, Crash, vars

(* With one lock, no interleaving of commands makes two names share a path *)
(* that did not share it before.                                           *)
THEOREM PathsStayApart ==
    ASSUME OneLockSpace
    PROVE  Spec => NoNewSharedPaths
  <1>1. IndInv /\ KeptInv /\ [Next]_vars =>
          [{file, file'} \cap {Damaged} = {} =>
              Shared(Content(file')) \subseteq Shared(Content(file))]_vars
    <2>. SUFFICES ASSUME IndInv, KeptInv, Next, file # Damaged, file' # Damaged,
                         file' # file
                  PROVE  Shared(Content(file')) \subseteq Shared(Content(file))
      OBVIOUS
    <2>1. PICK p \in Procs : Commit(p)
      BY FileChanges DEF Damage
    <2>. QED
      BY <2>1, CommitReplaces, EffectShared
  <1>2. IndInv /\ KeptInv /\ [Next]_vars => KeptInv'
    BY NextKeptInv
  <1>. QED
    BY <1>1, <1>2, InitKeptInv, InvariantHolds, PTL DEF Spec, NoNewSharedPaths

(* A command leaves the entries of other workspaces alone, and only `ides' *)
(* and `remove' touch the IDEs of the one it names.                        *)
LEMMA EffectOthers ==
    ASSUME NEW c \in Config, NEW k \in Command, NEW n \in Names
    PROVE  /\ n \notin NamedBy(k) => Effect(c, k).path[n] = c.path[n]
           /\ \/ n \in NamedBy(k) /\ k.op \in {"ides", "remove"}
              \/ Effect(c, k).ides[n] = c.ides[n]
  <1>1. CASE k.op = "add"
    <2>1. NamedBy(k) = {k.name} /\ k.name \in Names
      BY <1>1 DEF Command, NamedBy
    <2>. QED
      BY <1>1, <2>1 DEF Effect, Added, Config
  <1>2. CASE k.op = "remove"
    <2>1. NamedBy(k) = {k.name} /\ k.name \in Names
      BY <1>2 DEF Command, NamedBy
    <2>. QED
      BY <1>2, <2>1 DEF Effect, Removed, Config
  <1>3. CASE k.op = "ides"
    <2>1. NamedBy(k) = {k.name} /\ k.name \in Names
      BY <1>3 DEF Command, NamedBy
    <2>. QED
      BY <1>3, <2>1 DEF Effect, IdesSet, Config
  <1>4. CASE k.op = "default"
    BY <1>4 DEF Effect, DefaultSet, Config
  <1>5. CASE k.op = "vault"
    BY <1>5 DEF Effect, VaultSet, Config
  <1>6. CASE k.op = "runtime"
    BY <1>6 DEF Effect, RuntimeSet, Config
  <1>. QED
    BY <1>1, <1>2, <1>3, <1>4, <1>5, <1>6 DEF Command

LEMMA NextAnswerInv == TypeOK /\ AnswerInv /\ [Next]_vars => AnswerInv'
  <1>. SUFFICES ASSUME TypeOK, AnswerInv, [Next]_vars PROVE AnswerInv'
    OBVIOUS
  <1>. USE DEF TypeOK, AnswerInv
  <1>1. ASSUME NEW p \in Procs, NEW c \in Command, Call(p, c)
        PROVE  AnswerInv'
    BY <1>1 DEF Call
  <1>2. ASSUME NEW p \in Procs, Lock(p) \/ Load(p) \/ Commit(p) \/ Unlock(p)
        PROVE  AnswerInv'
    BY <1>2 DEF Lock, Load, Commit, Unlock
  <1>3. ASSUME NEW p \in Procs, LoadRefused(p) \/ Recheck(p) \/ WriteFails(p)
        PROVE  AnswerInv'
    BY <1>3 DEF LoadRefused, Recheck, WriteFails, GiveUp
  <1>4. ASSUME NEW p \in Procs, Reply(p) \/ Crash(p)
        PROVE  AnswerInv'
    BY <1>4 DEF Reply, Crash
  <1>5. CASE Damage \/ UNCHANGED vars
    BY <1>5 DEF Damage, procVars, vars
  <1>. QED
    BY <1>1, <1>2, <1>3, <1>4, <1>5 DEF Next, Work

\* A process that goes from renaming to success has committed.
LEMMA OkIsCommit ==
    ASSUME TypeOK, AnswerInv, Next, NEW p \in Procs, pc[p] = "moving", answer'[p] = "ok"
    PROVE  Commit(p)
  <1>0. answer[p] # "ok"
    BY DEF AnswerInv
  <1>1. ASSUME NEW q \in Procs, Lock(q) \/ Load(q) \/ Unlock(q) \/ Reply(q) \/ Crash(q)
        PROVE  FALSE
    BY <1>0, <1>1 DEF Lock, Load, Unlock, Reply, Crash, TypeOK
  <1>2. ASSUME NEW q \in Procs, LoadRefused(q) \/ Recheck(q) \/ WriteFails(q)
        PROVE  FALSE
    BY <1>0, <1>2 DEF LoadRefused, Recheck, WriteFails, GiveUp, TypeOK
  <1>3. ASSUME NEW q \in Procs, Commit(q)
        PROVE  q = p
    BY <1>0, <1>3 DEF Commit, TypeOK
  <1>4. ASSUME NEW q \in Procs, NEW c \in Command, Call(q, c)
        PROVE  FALSE
    BY <1>0, <1>4 DEF Call, TypeOK
  <1>5. ~Damage
    BY <1>0 DEF Damage, procVars
  <1>. QED
    BY <1>1, <1>2, <1>3, <1>4, <1>5 DEF Next, Work

(* With one lock, a committed command changes no workspace it was not      *)
(* given, compared with the very file it replaces.                         *)
THEOREM OthersStayUntouched ==
    ASSUME OneLockSpace
    PROVE  Spec => OthersUntouched
  <1>. DEFINE Inv == KeptInv /\ AnswerInv
  <1>1. Init => Inv
    BY InitKeptInv DEF Init, AnswerInv
  <1>2. IndInv /\ Inv /\ [Next]_vars => Inv'
    BY NextKeptInv, NextAnswerInv DEF IndInv
  <1>3. IndInv /\ Inv /\ [Next]_vars =>
          [\A p \in Procs :
            (pc[p] = "moving" /\ answer'[p] = "ok" /\ file # Damaged) =>
                \A n \in Names :
                    LET old == Content(file)
                        new == Content(file')
                    IN  /\ n \notin NamedBy(cmd[p]) => new.path[n] = old.path[n]
                        /\ \/ n \in NamedBy(cmd[p]) /\ cmd[p].op \in {"ides", "remove"}
                           \/ new.ides[n] = old.ides[n]]_vars
    <2>. SUFFICES ASSUME IndInv, Inv, Next, NEW p \in Procs, pc[p] = "moving",
                         answer'[p] = "ok", file # Damaged, NEW n \in Names
                  PROVE  /\ n \notin NamedBy(cmd[p]) =>
                                Content(file').path[n] = Content(file).path[n]
                         /\ \/ n \in NamedBy(cmd[p]) /\ cmd[p].op \in {"ides", "remove"}
                            \/ Content(file').ides[n] = Content(file).ides[n]
      OBVIOUS
    <2>1. Commit(p)
      BY OkIsCommit DEF IndInv
    <2>. QED
      BY <2>1, CommitReplaces, EffectOthers
  <1>. QED
    BY <1>1, <1>2, <1>3, InvariantHolds, PTL DEF Spec, OthersUntouched

-----------------------------------------------------------------------------
(* Refinement.                                                             *)

\* The abstract specification's copy of the commands is the same one.
LEMMA SameCommands ==
    /\ Registry!Config = Config
    /\ Registry!Command = Command
    /\ \A c : Registry!Valid(c) <=> Valid(c)
    /\ \A k : Registry!RefusedAtOnce(k) <=> RefusedAtOnce(k)
    /\ \A c, k : Registry!Allowed(c, k) <=> Allowed(c, k)
    /\ \A c, k : Registry!Effect(c, k) = Effect(c, k)
  <1>1. Registry!Config = Config /\ Registry!Command = Command
    BY DEF Config, Registry!Config, Command, Registry!Command
  <1>2. \A c : Registry!Valid(c) <=> Valid(c)
    BY DEF Valid, Registry!Valid, Registered, Registry!Registered
  <1>3. \A k : Registry!RefusedAtOnce(k) <=> RefusedAtOnce(k)
    BY DEF RefusedAtOnce, Registry!RefusedAtOnce
  <1>4. \A c, k : Registry!Allowed(c, k) <=> Allowed(c, k)
    BY DEF Allowed, Registry!Allowed, AddAllowed, Registry!AddAllowed,
           PathOwners, Registry!PathOwners, Registered, Registry!Registered,
           VaultAllowed, Registry!VaultAllowed
  <1>5. \A c, k : Registry!Effect(c, k) = Effect(c, k)
    BY Zenon DEF Effect, Registry!Effect, Added, Registry!Added, Removed,
       Registry!Removed, DefaultSet, Registry!DefaultSet, VaultSet,
       Registry!VaultSet, IdesSet, Registry!IdesSet, RuntimeSet,
       Registry!RuntimeSet
  <1>. QED
    BY <1>1, <1>2, <1>3, <1>4, <1>5

LEMMA InitRefines == Init => Registry!AInit
  BY DefaultsAreValid, ProcessAssumption, SameCommands
  DEF Init, Registry!AInit, Content

LEMMA NextSoundInv ==
    ASSUME MaxDamage = 0
    PROVE  IndInv /\ SoundInv /\ [Next]_vars => SoundInv'
  <1>. SUFFICES ASSUME IndInv, SoundInv, [Next]_vars
                PROVE  SoundInv'
    OBVIOUS
  <1>. USE DEF SoundInv
  <1>. TypeOK
    BY DEF IndInv
  <1>1. ASSUME NEW p \in Procs, NEW c \in Command, Call(p, c)
        PROVE  SoundInv'
    BY <1>1 DEF Call, TypeOK
  <1>2. ASSUME NEW p \in Procs, Lock(p) \/ Load(p) \/ LoadRefused(p)
        PROVE  SoundInv'
    BY <1>2 DEF Lock, Load, Acceptable, LoadRefused, GiveUp, TypeOK
  <1>3. ASSUME NEW p \in Procs, Recheck(p) \/ WriteFails(p)
        PROVE  SoundInv'
    BY <1>3 DEF Recheck, WriteFails, GiveUp, TypeOK
  <1>4. ASSUME NEW p \in Procs, Commit(p)
        PROVE  SoundInv'
    BY <1>4, ProcessAssumption DEF Commit, IndInv, LocalInv, TypeOK
  <1>5. ASSUME NEW p \in Procs, Unlock(p) \/ Reply(p) \/ Crash(p)
        PROVE  SoundInv'
    BY <1>5 DEF Unlock, Reply, Crash, TypeOK
  <1>6. CASE Damage \/ UNCHANGED vars
    BY <1>6 DEF Damage, vars
  <1>. QED
    BY <1>1, <1>2, <1>3, <1>4, <1>5, <1>6 DEF Next, Work

LEMMA StepRefines ==
    ASSUME OneLockSpace, MaxDamage = 0
    PROVE  IndInv /\ KeptInv /\ SoundInv /\ [Next]_vars
               => [Registry!ANext]_(Registry!avars)
  <1>. SUFFICES ASSUME IndInv, KeptInv, SoundInv, [Next]_vars
                PROVE  [Registry!ANext]_(Registry!avars)
    OBVIOUS
  <1>. TypeOK
    BY DEF IndInv
  <1>. USE DEF Registry!avars
  <1>1. ASSUME NEW p \in Procs, NEW c \in Command, Call(p, c)
        PROVE  Registry!Ask(p, c) \/ Registry!AskInVain(p, c)
    <2>1. CASE RefusedAtOnce(c)
      BY <1>1, <2>1, SameCommands DEF Call, Registry!AskInVain, TypeOK
    <2>2. CASE ~RefusedAtOnce(c)
      BY <1>1, <2>2 DEF Call, Registry!Ask, TypeOK
    <2>. QED
      BY <2>1, <2>2
  <1>2. ASSUME NEW p \in Procs, Lock(p) \/ Load(p)
        PROVE  UNCHANGED Registry!avars
    BY <1>2 DEF Lock, Load, TypeOK
  <1>3. ASSUME NEW p \in Procs, LoadRefused(p)
        PROVE  Registry!Refuse(p)
    <2>1. ~Registry!Acceptable(p)
      BY <1>3, ProcessAssumption, SameCommands
      DEF LoadRefused, Acceptable, Content, Registry!Acceptable
    <2>. QED
      BY <1>3, <2>1 DEF LoadRefused, GiveUp, Registry!Refuse, Registry!Decide, TypeOK
  <1>4. ASSUME NEW p \in Procs, Recheck(p)
        PROVE  UNCHANGED Registry!avars
    <2>1. Valid(draft[p]) /\ file # Damaged
      BY <1>4 DEF Recheck, SoundInv, IndInv, LocalInv
    <2>. QED
      BY <1>4, <2>1 DEF Recheck, TypeOK
  <1>5. ASSUME NEW p \in Procs, Commit(p)
        PROVE  Registry!Accept(p)
    <2>1. file # Damaged
      BY <1>5 DEF Commit, SoundInv
    <2>2. Content(file) = ledger
      BY <2>1 DEF KeptInv, CommittedChangesKept
    <2>3. Allowed(Content(file), cmd[p]) /\ draft[p] = Effect(Content(file), cmd[p])
      BY <1>5, <2>2 DEF Commit, KeptInv, DraftInv
    <2>4. Content(file) # Damaged
      BY <2>1, ContentType, ProcessAssumption DEF TypeOK
    <2>5. Content(file') = draft[p]
      BY <1>5, ProcessAssumption DEF Commit, Content, IndInv, LocalInv
    <2>. QED
      BY <1>5, <2>3, <2>4, <2>5, SameCommands
      DEF Commit, Registry!Accept, Registry!Acceptable, Registry!Decide, TypeOK
  <1>6. ASSUME NEW p \in Procs, WriteFails(p)
        PROVE  Registry!Fail(p)
    BY <1>6 DEF WriteFails, GiveUp, Registry!Fail, Registry!Decide, TypeOK
  <1>7. ASSUME NEW p \in Procs, Unlock(p)
        PROVE  UNCHANGED Registry!avars
    BY <1>7 DEF Unlock, TypeOK
  <1>8. ASSUME NEW p \in Procs, Reply(p)
        PROVE  Registry!Tell(p)
    BY <1>8 DEF Reply, Registry!Tell, Registry!Forget, TypeOK
  <1>9. ASSUME NEW p \in Procs, Crash(p)
        PROVE  Registry!Die(p)
    BY <1>9 DEF Crash, Registry!Die, Registry!Forget, TypeOK
  <1>10. CASE Damage
    BY <1>10 DEF Damage, SoundInv
  <1>11. CASE UNCHANGED vars
    BY <1>11 DEF vars
  <1>. QED
    BY <1>1, <1>2, <1>3, <1>4, <1>5, <1>6, <1>7, <1>8, <1>9, <1>10, <1>11,
       SameCommands
    DEF Next, Work, Registry!ANext

(* With one lock, and as long as nobody damages the file by hand, the      *)
(* processes and the file implement the atomic registry: every command     *)
(* takes effect at one instant, at its rename, or not at all.              *)
THEOREM RegistryIsAtomic ==
    ASSUME OneLockSpace, MaxDamage = 0
    PROVE  Spec => ImplementsAtomicRegistry
  <1>1. IndInv /\ KeptInv /\ [Next]_vars => KeptInv'
    BY NextKeptInv
  <1>2. IndInv /\ SoundInv /\ [Next]_vars => SoundInv'
    BY NextSoundInv
  <1>3. Init => SoundInv
    BY DEF Init, SoundInv
  <1>4. IndInv /\ KeptInv /\ SoundInv /\ [Next]_vars
            => [Registry!ANext]_(Registry!avars)
    BY StepRefines
  <1>. QED
    BY InitRefines, InitKeptInv, InvariantHolds, <1>1, <1>2, <1>3, <1>4, PTL
    DEF Spec, ImplementsAtomicRegistry, Registry!ASpec
=============================================================================
