-------------------------- MODULE TicketStateProofs --------------------------
(***************************************************************************)
(* Proofs about TicketState for every number of processes, fields,         *)
(* decisions and blockers.                                                 *)
(***************************************************************************)
EXTENDS TicketState, SequenceTheorems, TLAPS

LEMMA DefaultIsValid == Default \in State /\ Valid(Default)
  <1>1. <<>> \in Seq(Status)
    OBVIOUS
  <1>. QED
    BY <1>1, TicketAssumption DEF Default, State, Value, Valid

(* A command that is allowed turns a state into a state.                   *)
LEMMA EffectType ==
    ASSUME NEW s \in State, NEW c \in Command, Allowed(s, c)
    PROVE  Effect(s, c) \in State
  <1>1. CASE c.op = "init"
    BY <1>1, DefaultIsValid DEF Effect
  <1>2. CASE c.op = "set"
    <2>1. c.field \in Fields /\ c.value \in Value
      BY <1>2 DEF Command
    <2>. QED
      BY <1>2, <2>1 DEF Effect, State
  <1>3. CASE c.op = "add blocker"
    <2>1. Append(s.blockers, "active") \in Seq(Status)
      BY AppendProperties DEF State, Status
    <2>2. Effect(s, c) = [s EXCEPT !.blockers = Append(s.blockers, "active")]
      BY <1>3 DEF Effect
    <2>. QED
      BY <2>1, <2>2 DEF State
  <1>4. CASE c.op = "resolve blocker"
    <2>1. c.index \in 1 .. Len(s.blockers)
      <3>1. c.index \in 1 .. MaxCalls /\ c.index <= Len(s.blockers)
        BY <1>4 DEF Command, Allowed
      <3>2. Len(s.blockers) \in Nat
        BY LenProperties DEF State
      <3>. QED
        BY <3>1, <3>2, TicketAssumption
    <2>2. [s.blockers EXCEPT ![c.index] = "resolved"] \in Seq(Status)
      <3>1. s.blockers \in Seq(Status) /\ "resolved" \in Status
        BY DEF State, Status
      <3>. QED
        BY <2>1, <3>1, ExceptSeq
    <2>3. Effect(s, c) = [s EXCEPT !.blockers = [s.blockers EXCEPT ![c.index] = "resolved"]]
      BY <1>4 DEF Effect, State
    <2>. QED
      BY <2>2, <2>3 DEF State
  <1>5. CASE c.op \in {"add decision", "resolve decision"}
    <2>1. c.id \in DecisionIds
      BY <1>5 DEF Command
    <2>. QED
      BY <1>5, <2>1 DEF Effect, State
  <1>6. CASE c.op = "clear"
    <2>1. Default.blockers \in Seq(Status)
          /\ Default.decisions \in [DecisionIds -> {"absent", "open", "resolved"}]
      BY DefaultIsValid DEF State
    <2>. QED
      BY <1>6, <2>1 DEF Effect, Cleared, State
  <1>. QED
    BY <1>1, <1>2, <1>3, <1>4, <1>5, <1>6 DEF Command

(* An allowed command other than init unresolves nothing and drops no      *)
(* blocker.                                                                *)
LEMMA EffectSettles ==
    ASSUME NEW s \in State, NEW c \in Command, Allowed(s, c), c.op # "init"
    PROVE  /\ \/ c.op = "clear" /\ c.list = "decisions"
              \/ \A d \in DecisionIds :
                     s.decisions[d] = "resolved" => Effect(s, c).decisions[d] = "resolved"
           /\ \/ c.op = "clear" /\ c.list = "blockers"
              \/ Len(s.blockers) <= Len(Effect(s, c).blockers)
  <1>0. Len(s.blockers) \in Nat
    BY LenProperties DEF State
  <1>1. CASE c.op = "set"
    BY <1>0, <1>1 DEF Effect, State
  <1>2. CASE c.op = "add blocker"
    <2>1. Len(Append(s.blockers, "active")) = Len(s.blockers) + 1
      BY AppendProperties DEF State, Status
    <2>2. Effect(s, c) = [s EXCEPT !.blockers = Append(s.blockers, "active")]
      BY <1>2 DEF Effect
    <2>. QED
      BY <1>0, <2>1, <2>2 DEF State
  <1>3. CASE c.op = "resolve blocker"
    <2>1. c.index \in 1 .. Len(s.blockers)
      <3>1. c.index \in 1 .. MaxCalls /\ c.index <= Len(s.blockers)
        BY <1>3 DEF Command, Allowed
      <3>. QED
        BY <1>0, <3>1, TicketAssumption
    <2>2. Len([s.blockers EXCEPT ![c.index] = "resolved"]) = Len(s.blockers)
      <3>1. s.blockers \in Seq(Status) /\ "resolved" \in Status
        BY DEF State, Status
      <3>. QED
        BY <2>1, <3>1, ExceptSeq
    <2>3. Effect(s, c) = [s EXCEPT !.blockers = [s.blockers EXCEPT ![c.index] = "resolved"]]
      BY <1>3 DEF Effect, State
    <2>. QED
      BY <1>0, <2>2, <2>3 DEF State
  <1>4. CASE c.op = "add decision"
    <2>1. c.id \in DecisionIds /\ s.decisions[c.id] = "absent"
      BY <1>4 DEF Command, Allowed
    <2>2. Effect(s, c) = [s EXCEPT !.decisions[c.id] = "open"]
      BY <1>4 DEF Effect
    <2>. QED
      BY <1>0, <2>1, <2>2 DEF State
  <1>5. CASE c.op = "resolve decision"
    <2>1. c.id \in DecisionIds
      BY <1>5 DEF Command
    <2>2. Effect(s, c) = [s EXCEPT !.decisions[c.id] = "resolved"]
      BY <1>5 DEF Effect
    <2>. QED
      BY <1>0, <2>1, <2>2 DEF State
  <1>6. CASE c.op = "clear"
    <2>1. c.list \in {"blockers", "decisions"}
      BY <1>6 DEF Command
    <2>2. Effect(s, c) = Cleared(s, c.list)
      BY <1>6 DEF Effect
    <2>3. CASE c.list = "blockers"
      BY <1>6, <2>2, <2>3 DEF Cleared, State
    <2>4. CASE c.list = "decisions"
      BY <1>0, <1>6, <2>2, <2>4 DEF Cleared, State
    <2>. QED
      BY <2>1, <2>3, <2>4
  <1>. QED
    BY <1>1, <1>2, <1>3, <1>4, <1>5, <1>6 DEF Command

LEMMA InitIndInv == Init => IndInv
  <1>. SUFFICES ASSUME Init PROVE IndInv
    OBVIOUS
  <1>1. TypeOK
    <2>1. file \in State \cup {NoFile} /\ ledger \in State \cup {NoFile}
      BY DefaultIsValid DEF Init
    <2>2. calls \in [Procs -> 0..MaxCalls] /\ edits \in 0..MaxEdits
      BY TicketAssumption DEF Init
    <2>. QED
      BY <2>1, <2>2 DEF Init, TypeOK
  <1>2. CommandInv /\ DraftInv /\ GuessedInv /\ FreshInv
    BY DEF Init, CommandInv, DraftInv, GuessedInv, FreshInv
  <1>3. LedgerInv /\ LostOnlyByOverlap
    BY DEF Init, LedgerInv, LostOnlyByOverlap, UpdatesKept
  <1>. QED
    BY <1>1, <1>2, <1>3 DEF IndInv

(* What a process loads is a state, and the file where that can be read.   *)
LEMMA LoadedType ==
    ASSUME NEW p \in Procs, IndInv, pc[p] = "checked", Loaded(p, cmd[p], file) # None,
           Allowed(Loaded(p, cmd[p], file), cmd[p])
    PROVE  /\ Loaded(p, cmd[p], file) \in State
           /\ Effect(Loaded(p, cmd[p], file), cmd[p]) \in State
  <1>1. cmd[p] \in Command /\ (cmd[p].op # "init" => file # NoFile)
    BY DEF IndInv, CommandInv
  <1>2. Loaded(p, cmd[p], file) \in State
    BY <1>1, DefaultIsValid DEF Loaded, IndInv, TypeOK
  <1>. QED
    BY <1>1, <1>2, EffectType

(* What the saved commands add up to is a state once there is a file.      *)
LEMMA AccountType ==
    ASSUME NEW p \in Procs, IndInv, pc[p] = "validated"
    PROVE  Account(cmd[p]) \in State
  <1>1. cmd[p] \in Command /\ (cmd[p].op # "init" => file # NoFile)
    BY DEF IndInv, CommandInv
  <1>2. ledger \in State \/ ledger = NoFile
    BY DEF IndInv, TypeOK
  <1>3. cmd[p].op # "init" => ledger \in State
    BY <1>1, <1>2 DEF IndInv, LedgerInv
  <1>. QED
    BY <1>1, <1>2, <1>3, EffectType, DefaultIsValid DEF Account

LEMMA FinishType ==
    ASSUME NEW p \in Procs, TypeOK, Finish(p)
    PROVE  /\ pc' \in [Procs -> {"idle", "checked", "loaded", "validated"}]
           /\ cmd' \in [Procs -> Command \cup {None}]
           /\ draft' \in [Procs -> State \cup {None}]
           /\ guessed' \subseteq Procs
  BY DEF TypeOK, Finish

LEMMA NextTypeOK == IndInv /\ [Next]_vars => TypeOK'
  <1>. SUFFICES ASSUME IndInv, [Next]_vars PROVE TypeOK'
    OBVIOUS
  <1>0. TypeOK
    BY DEF IndInv
  <1>1. ASSUME NEW p \in Procs, NEW c \in Command, Call(p, c)
        PROVE  TypeOK'
    BY <1>0, <1>1, TicketAssumption DEF TypeOK, Call
  <1>2. ASSUME NEW p \in Procs, Load(p)
        PROVE  TypeOK'
    <2>1. CASE Loaded(p, cmd[p], file) # None /\ Allowed(Loaded(p, cmd[p], file), cmd[p])
      <3>1. Effect(Loaded(p, cmd[p], file), cmd[p]) \in State
        BY <1>2, <2>1, LoadedType DEF Load
      <3>. QED
        BY <1>0, <1>2, <2>1, <3>1 DEF TypeOK, Load
    <2>2. CASE ~(Loaded(p, cmd[p], file) # None /\ Allowed(Loaded(p, cmd[p], file), cmd[p]))
      <3>1. Finish(p)
        BY <1>2, <2>2 DEF Load
      <3>. QED
        BY <1>0, <1>2, <3>1, FinishType DEF TypeOK, Load
    <2>. QED
      BY <2>1, <2>2
  <1>3. ASSUME NEW p \in Procs, Validate(p)
        PROVE  TypeOK'
    <2>1. CASE Valid(draft[p]) /\ cmd[p].apply
      BY <1>0, <1>3, <2>1 DEF TypeOK, Validate
    <2>2. CASE ~(Valid(draft[p]) /\ cmd[p].apply)
      <3>1. Finish(p)
        BY <1>3, <2>2 DEF Validate
      <3>. QED
        BY <1>0, <1>3, <3>1, FinishType DEF TypeOK, Validate
    <2>. QED
      BY <2>1, <2>2
  <1>4. ASSUME NEW p \in Procs, Save(p)
        PROVE  TypeOK'
    <2>1. draft[p] \in State /\ Account(cmd[p]) \in State
      BY <1>4, AccountType DEF Save, IndInv, DraftInv
    <2>2. Finish(p)
      BY <1>4 DEF Save
    <2>. QED
      BY <1>0, <1>4, <2>1, <2>2, FinishType DEF TypeOK, Save, Busy
  <1>5. ASSUME NEW p \in Procs, Crash(p)
        PROVE  TypeOK'
    BY <1>0, <1>5, FinishType DEF TypeOK, Crash
  <1>6. ASSUME NEW f \in Fields, Misspell(f)
        PROVE  TypeOK'
    <2>1. file' \in State
      BY <1>6 DEF Misspell, Edit, State, Value
    <2>. QED
      BY <1>0, <1>6, <2>1, TicketAssumption DEF TypeOK, Misspell, Edit, Busy
  <1>7. CASE Damage
    BY <1>0, <1>7, TicketAssumption DEF TypeOK, Damage, Edit, Busy
  <1>8. CASE UNCHANGED vars
    BY <1>0, <1>8 DEF TypeOK, vars
  <1>. QED
    BY <1>1, <1>2, <1>3, <1>4, <1>5, <1>6, <1>7, <1>8 DEF Next

LEMMA NextCommandInv == IndInv /\ [Next]_vars => CommandInv' /\ DraftInv' /\ GuessedInv'
  <1>. SUFFICES ASSUME IndInv, [Next]_vars
                PROVE  CommandInv' /\ DraftInv' /\ GuessedInv'
    OBVIOUS
  <1>0. TypeOK /\ CommandInv /\ DraftInv /\ GuessedInv
    BY DEF IndInv
  <1>. USE <1>0 DEF TypeOK, CommandInv, DraftInv, GuessedInv
  <1>1. ASSUME NEW p \in Procs, NEW c \in Command, Call(p, c)
        PROVE  CommandInv' /\ DraftInv' /\ GuessedInv'
    BY <1>1 DEF Call
  <1>2. ASSUME NEW p \in Procs, Load(p)
        PROVE  CommandInv' /\ DraftInv' /\ GuessedInv'
    <2>1. CASE Loaded(p, cmd[p], file) # None /\ Allowed(Loaded(p, cmd[p], file), cmd[p])
      <3>1. Effect(Loaded(p, cmd[p], file), cmd[p]) \in State
        BY <1>2, <2>1, LoadedType DEF Load
      <3>2. (cmd[p].op # "init" /\ file = Damaged) => p \in Python
        BY <2>1 DEF Loaded
      <3>. QED
        BY <1>2, <2>1, <3>1, <3>2 DEF Load
    <2>2. CASE ~(Loaded(p, cmd[p], file) # None /\ Allowed(Loaded(p, cmd[p], file), cmd[p]))
      BY <1>2, <2>2 DEF Load, Finish
    <2>. QED
      BY <2>1, <2>2
  <1>3. ASSUME NEW p \in Procs, Validate(p)
        PROVE  CommandInv' /\ DraftInv' /\ GuessedInv'
    BY <1>3 DEF Validate, Finish
  <1>4. ASSUME NEW p \in Procs, Save(p)
        PROVE  CommandInv' /\ DraftInv' /\ GuessedInv'
    <2>1. file' # NoFile
      BY <1>4, StateAssumption DEF Save
    <2>. QED
      BY <1>4, <2>1 DEF Save, Finish
  <1>5. ASSUME NEW p \in Procs, Crash(p)
        PROVE  CommandInv' /\ DraftInv' /\ GuessedInv'
    BY <1>5 DEF Crash, Finish
  <1>6. ASSUME NEW f \in Fields, Misspell(f)
        PROVE  CommandInv' /\ DraftInv' /\ GuessedInv'
    <2>1. file' \in State
      BY <1>6 DEF Misspell, Edit, State, Value
    <2>. QED
      BY <1>6, <2>1, StateAssumption DEF Misspell, Edit
  <1>7. CASE Damage
    BY <1>7, TicketAssumption DEF Damage, Edit
  <1>8. CASE UNCHANGED vars
    BY <1>8 DEF vars
  <1>. QED
    BY <1>1, <1>2, <1>3, <1>4, <1>5, <1>6, <1>7, <1>8 DEF Next

(* A step that changes the file overtakes every process at work.           *)
LEMMA NextFreshInv == IndInv /\ [Next]_vars => FreshInv'
  <1>. SUFFICES ASSUME IndInv, [Next]_vars PROVE FreshInv'
    OBVIOUS
  <1>0. TypeOK /\ CommandInv /\ FreshInv
    BY DEF IndInv
  <1>. USE <1>0 DEF TypeOK, CommandInv, FreshInv
  <1>1. ASSUME NEW p \in Procs, NEW c \in Command, Call(p, c)
        PROVE  FreshInv'
    BY <1>1 DEF Call
  <1>2. ASSUME NEW p \in Procs, Load(p)
        PROVE  FreshInv'
    <2>1. CASE Loaded(p, cmd[p], file) # None /\ Allowed(Loaded(p, cmd[p], file), cmd[p])
      <3>1. CASE cmd[p].op = "init"
        <4>1. Effect(Loaded(p, cmd[p], file), cmd[p]) = Default
          BY <3>1 DEF Effect
        <4>. QED
          BY <1>2, <2>1, <3>1, <4>1 DEF Load
      <3>2. CASE cmd[p].op # "init" /\ file = Damaged
        BY <1>2, <2>1, <3>2 DEF Load
      <3>3. CASE cmd[p].op # "init" /\ file # Damaged
        <4>1. Loaded(p, cmd[p], file) = file /\ file \in State
          BY <1>2, <3>3 DEF Loaded, Load
        <4>. QED
          BY <1>2, <2>1, <3>3, <4>1 DEF Load
      <3>. QED
        BY <3>1, <3>2, <3>3
    <2>2. CASE ~(Loaded(p, cmd[p], file) # None /\ Allowed(Loaded(p, cmd[p], file), cmd[p]))
      BY <1>2, <2>2 DEF Load, Finish
    <2>. QED
      BY <2>1, <2>2
  <1>3. ASSUME NEW p \in Procs, Validate(p)
        PROVE  FreshInv'
    BY <1>3 DEF Validate, Finish
  <1>4. ASSUME NEW p \in Procs, Save(p)
        PROVE  FreshInv'
    BY <1>4 DEF Save, Finish, Busy
  <1>5. ASSUME NEW p \in Procs, Crash(p)
        PROVE  FreshInv'
    BY <1>5 DEF Crash, Finish
  <1>6. ASSUME NEW f \in Fields, Misspell(f)
        PROVE  FreshInv'
    BY <1>6 DEF Misspell, Edit, Busy
  <1>7. CASE Damage
    BY <1>7 DEF Damage, Edit, Busy
  <1>8. CASE UNCHANGED vars
    BY <1>8 DEF vars
  <1>. QED
    BY <1>1, <1>2, <1>3, <1>4, <1>5, <1>6, <1>7, <1>8 DEF Next

(* The draft of a process that is neither stale nor guessing is what the   *)
(* ledger becomes.                                                         *)
LEMMA FreshSave ==
    ASSUME NEW p \in Procs, IndInv, Save(p), ~excused'
    PROVE  /\ file # Damaged
           /\ file' = ledger'
           /\ cmd[p].op # "init" => file \in State /\ Allowed(file, cmd[p])
                                    /\ file' = Effect(file, cmd[p])
           /\ cmd[p].op = "init" => file = NoFile
  <1>1. p \notin stale /\ p \notin guessed /\ ~excused /\ pc[p] = "validated"
    BY DEF Save
  <1>2. FreshInv /\ LedgerInv /\ TypeOK /\ LostOnlyByOverlap
    BY DEF IndInv
  <1>3. CASE cmd[p].op = "init"
    <2>1. file = NoFile /\ draft[p] = Default
      BY <1>1, <1>2, <1>3 DEF FreshInv, Effect
    <2>2. ledger = NoFile
      BY <1>2, <2>1 DEF LedgerInv
    <2>. QED
      BY <1>3, <2>1, <2>2, TicketAssumption DEF Save, Account
  <1>4. CASE cmd[p].op # "init"
    <2>1. file \in State /\ Allowed(file, cmd[p]) /\ draft[p] = Effect(file, cmd[p])
      <3>1. file # NoFile
        BY <1>1, <1>4 DEF IndInv, CommandInv
      <3>2. file # Damaged
        BY <1>1, <1>2, <1>4 DEF FreshInv
      <3>3. Loaded(p, cmd[p], file) = file
        BY <1>4, <3>2 DEF Loaded
      <3>. QED
        BY <1>1, <1>2, <3>1, <3>2, <3>3 DEF FreshInv, TypeOK
    <2>2. file # Damaged
      BY <2>1, StateAssumption
    <2>3. file = ledger
      BY <1>1, <1>2, <2>2 DEF LostOnlyByOverlap, UpdatesKept
    <2>. QED
      BY <1>4, <2>1, <2>2, <2>3 DEF Save, Account
  <1>. QED
    BY <1>3, <1>4

LEMMA NextLedgerInv == IndInv /\ [Next]_vars => LedgerInv' /\ LostOnlyByOverlap'
  <1>. SUFFICES ASSUME IndInv, [Next]_vars
                PROVE  LedgerInv' /\ LostOnlyByOverlap'
    OBVIOUS
  <1>0. LedgerInv /\ LostOnlyByOverlap /\ TypeOK
    BY DEF IndInv
  <1>. USE <1>0 DEF LedgerInv, LostOnlyByOverlap, UpdatesKept
  <1>1. ASSUME NEW p \in Procs, Save(p)
        PROVE  LedgerInv' /\ LostOnlyByOverlap'
    <2>1. file' # NoFile
      BY <1>1, StateAssumption DEF Save, IndInv, DraftInv
    <2>2. ledger' # NoFile
      BY <1>1, AccountType, StateAssumption DEF Save
    <2>3. ~excused' => file' = ledger'
      BY <1>1, FreshSave
    <2>. QED
      BY <2>1, <2>2, <2>3
  <1>2. ASSUME NEW f \in Fields, Misspell(f)
        PROVE  LedgerInv' /\ LostOnlyByOverlap'
    <2>1. file \in State /\ file' \in State
      BY <1>2 DEF Misspell, Edit, State, Value
    <2>2. file # NoFile /\ file # Damaged /\ file' # NoFile
      BY <2>1, StateAssumption
    <2>. QED
      BY <1>2, <2>2 DEF Misspell, Edit
  <1>3. CASE Damage
    <2>1. file # NoFile
      BY <1>3, StateAssumption DEF Damage, Edit
    <2>. QED
      BY <1>3, <2>1, TicketAssumption DEF Damage, Edit
  <1>4. CASE UNCHANGED <<file, ledger, excused>>
    BY <1>4
  <1>5. ASSUME NEW p \in Procs,
               \/ \E c \in Command : Call(p, c)
               \/ Load(p) \/ Validate(p) \/ Crash(p)
        PROVE  UNCHANGED <<file, ledger, excused>>
    BY <1>5 DEF Call, Load, Validate, Crash
  <1>. QED
    BY <1>1, <1>2, <1>3, <1>4, <1>5 DEF Next, vars

(* The inductive invariant.                                                *)
THEOREM InvariantHolds == Spec => []IndInv
  <1>1. Init => IndInv
    BY InitIndInv
  <1>2. IndInv /\ [Next]_vars => IndInv'
    BY NextTypeOK, NextCommandInv, NextFreshInv, NextLedgerInv DEF IndInv
  <1>. QED
    BY <1>1, <1>2, PTL DEF Spec

(* Every variable has its type.                                            *)
THEOREM TypeCorrect == Spec => []TypeOK
  <1>1. IndInv => TypeOK
    BY DEF IndInv
  <1>. QED
    BY <1>1, InvariantHolds, PTL

(* An update is lost only by overlap, or by Python on a damaged file: of   *)
(* commands that come one after another on a sound file each takes effect. *)
THEOREM LossesAreOverlaps == Spec => []LostOnlyByOverlap
  <1>1. IndInv => LostOnlyByOverlap
    BY DEF IndInv
  <1>. QED
    BY <1>1, InvariantHolds, PTL

(* What a step that edits nothing does to the file is a save.              *)
LEMMA OnlySaveWrites ==
    ASSUME [Next]_vars, file' # file, edits' = edits \/ file = Damaged, TypeOK
    PROVE  \E p \in Procs : Save(p)
  <1>1. ASSUME NEW p \in Procs,
               \/ \E c \in Command : Call(p, c)
               \/ Load(p) \/ Validate(p) \/ Crash(p)
        PROVE  FALSE
    BY <1>1 DEF Call, Load, Validate, Crash
  <1>2. ~Edit
    BY TicketAssumption, StateAssumption DEF Edit, TypeOK
  <1>. QED
    BY <1>1, <1>2 DEF Next, Damage, Misspell, vars

(* Nothing the validator refuses is ever saved.                            *)
THEOREM SavedAreValid == Spec => SavedStatesValid
  <1>1. IndInv /\ [Next]_vars =>
            [(edits' = edits /\ file' # file) => file' \in State /\ Valid(file')]_vars
    <2>. SUFFICES ASSUME IndInv, [Next]_vars, edits' = edits, file' # file
                  PROVE  file' \in State /\ Valid(file')
      OBVIOUS
    <2>1. PICK p \in Procs : Save(p)
      BY OnlySaveWrites DEF IndInv
    <2>. QED
      BY <2>1 DEF Save, IndInv, DraftInv, Valid
  <1>. QED
    BY <1>1, InvariantHolds, PTL DEF Spec, SavedStatesValid

(* A damaged file is replaced only by an overtaken process or by Python.   *)
THEOREM DamagedStatesKept == Spec => DamagedStateKept
  <1>1. IndInv /\ [Next]_vars =>
            [(file = Damaged /\ file' # Damaged) =>
                \E p \in Procs : /\ pc[p] = "validated" /\ pc'[p] = "idle"
                                 /\ p \in stale \/ p \in guessed \cap Python]_vars
    <2>. SUFFICES ASSUME IndInv, [Next]_vars, file = Damaged, file' # Damaged
                  PROVE  \E p \in Procs : /\ pc[p] = "validated" /\ pc'[p] = "idle"
                                          /\ p \in stale \/ p \in guessed \cap Python
      OBVIOUS
    <2>1. PICK p \in Procs : Save(p)
      BY OnlySaveWrites DEF IndInv
    <2>2. pc[p] = "validated" /\ pc'[p] = "idle"
      BY <2>1 DEF Save, Finish, IndInv, TypeOK
    <2>3. p \notin stale => p \in guessed
      BY <2>2, StateAssumption, TicketAssumption DEF IndInv, FreshInv
    <2>4. guessed \subseteq Python
      BY DEF IndInv, GuessedInv
    <2>. QED
      BY <2>2, <2>3, <2>4
  <1>. QED
    BY <1>1, InvariantHolds, PTL DEF Spec, DamagedStateKept

(* What is settled stays settled, until an update is lost.                 *)
THEOREM SettledForGood == Spec => SettledStaysSettled
  <1>1. IndInv /\ [Next]_vars =>
            [(file \in State /\ file' \in State /\ ~excused') =>
                /\ \/ Clears("decisions")
                   \/ \A d \in DecisionIds :
                          file.decisions[d] = "resolved" => file'.decisions[d] = "resolved"
                /\ Clears("blockers") \/ Len(file.blockers) <= Len(file'.blockers)]_vars
    <2>. SUFFICES ASSUME IndInv, [Next]_vars, file \in State, file' \in State, ~excused'
                  PROVE  /\ \/ Clears("decisions")
                            \/ \A d \in DecisionIds :
                                   file.decisions[d] = "resolved" => file'.decisions[d] = "resolved"
                         /\ Clears("blockers") \/ Len(file.blockers) <= Len(file'.blockers)
      OBVIOUS
    <2>0. Len(file.blockers) \in Nat
      BY LenProperties DEF State
    <2>1. CASE file' = file
      BY <2>0, <2>1
    <2>2. CASE file' # file /\ edits' = edits
      <3>1. PICK p \in Procs : Save(p)
        BY <2>2, OnlySaveWrites DEF IndInv
      <3>2. cmd[p].op # "init" /\ Allowed(file, cmd[p]) /\ file' = Effect(file, cmd[p])
        BY <3>1, FreshSave, StateAssumption
      <3>3. cmd[p] \in Command
        BY <3>1 DEF Save, IndInv, CommandInv
      <3>4. pc[p] = "validated" /\ pc'[p] = "idle"
        BY <3>1 DEF Save, Finish, IndInv, TypeOK
      <3>. QED
        BY <3>2, <3>3, <3>4, EffectSettles DEF Clears
    <2>3. CASE edits' # edits
      <3>1. ASSUME NEW p \in Procs,
                   \/ \E c \in Command : Call(p, c)
                   \/ Load(p) \/ Validate(p) \/ Crash(p) \/ Save(p)
            PROVE  FALSE
        BY <2>3, <3>1 DEF Call, Load, Validate, Crash, Save
      <3>2. ~Damage
        BY StateAssumption DEF Damage
      <3>3. PICK f \in Fields : Misspell(f)
        BY <2>3, <3>1, <3>2 DEF Next, vars
      <3>4. file'.decisions = file.decisions /\ file'.blockers = file.blockers
        BY <3>3 DEF Misspell, State
      <3>. QED
        BY <2>0, <3>4
    <2>. QED
      BY <2>1, <2>2, <2>3
  <1>. QED
    BY <1>1, InvariantHolds, PTL DEF Spec, SettledStaysSettled
-----------------------------------------------------------------------------
(* Refinement.                                                             *)

LEMMA InitRefines == Init => Shared!AInit
  <1>. SUFFICES ASSUME Init PROVE Shared!AInit
    OBVIOUS
  <1>1. [p \in Procs |-> StageOf(pc[p], cmd[p])] = [p \in Procs |-> "idle"]
    BY DEF Init, StageOf
  <1>2. {p \in stale : StageOf(pc[p], cmd[p]) = "looked"} = {}
    BY DEF Init
  <1>. QED
    BY <1>1, <1>2 DEF Init, Unmade, Shared!AInit

LEMMA FinishGoes ==
    ASSUME NEW p \in Procs, TypeOK, Finish(p), NEW stages, "idle" \in stages
    PROVE  /\ Shared!Goes(p, stages)
           /\ StageOf(pc[p], cmd[p])' = "idle"
           /\ \A q \in Procs \ {p} :
                  StageOf(pc[q], cmd[q])' = StageOf(pc[q], cmd[q])
  <1>1. StageOf("idle", None) = "idle"
    BY DEF StageOf
  <1>2. /\ pc'[p] = "idle" /\ cmd'[p] = None
        /\ \A q \in Procs \ {p} : pc'[q] = pc[q] /\ cmd'[q] = cmd[q]
    BY DEF Finish, TypeOK
  <1>3. [q \in Procs |-> StageOf(pc[q], cmd[q])]'
            = [[q \in Procs |-> StageOf(pc[q], cmd[q])] EXCEPT ![p] = "idle"]
    BY <1>1, <1>2
  <1>4. cmd' = [cmd EXCEPT ![p] = IF "idle" = "idle" THEN None ELSE @]
    BY DEF Finish
  <1>. QED
    BY <1>1, <1>2, <1>3, <1>4 DEF Shared!Goes

(* A command that ends and writes nothing.                                 *)
LEMMA FinishRefines ==
    ASSUME NEW p \in Procs, TypeOK, Finish(p), pc[p] # "idle",
           UNCHANGED file, stale' \in {stale, stale \ {p}}
    PROVE  Shared!End(p)
  <1>1. /\ Shared!Goes(p, {"idle"})
        /\ StageOf(pc[p], cmd[p])' = "idle"
        /\ \A q \in Procs \ {p} :
               StageOf(pc[q], cmd[q])' = StageOf(pc[q], cmd[q])
    BY FinishGoes
  <1>2. {q \in stale : StageOf(pc[q], cmd[q]) = "looked"}'
            = {q \in stale : StageOf(pc[q], cmd[q]) = "looked"} \ {p}
    BY <1>1 DEF TypeOK
  <1>3. [q \in Procs |-> StageOf(pc[q], cmd[q])][p] # "idle"
    BY DEF StageOf
  <1>. QED
    BY <1>1, <1>2, <1>3 DEF Shared!End

LEMMA CallRefines ==
    ASSUME NEW p \in Procs, NEW c \in Command, TypeOK, Call(p, c)
    PROVE  Shared!Ask(p, c) \/ UNCHANGED Shared!avars
  <1>1. CASE UNCHANGED <<pc, cmd, stale>>
    BY <1>1 DEF Call, Shared!avars
  <1>2. CASE /\ pc' = [pc EXCEPT ![p] = "checked"] /\ cmd' = [cmd EXCEPT ![p] = c]
             /\ stale' = stale \ {p}
    <2>1. /\ pc'[p] = "checked" /\ cmd'[p] = c
          /\ \A q \in Procs \ {p} : pc'[q] = pc[q] /\ cmd'[q] = cmd[q]
      BY <1>2 DEF TypeOK
    <2>2. StageOf("checked", c) \in {"asked", "looked"} /\ StageOf(pc[p], cmd[p]) = "idle"
      BY DEF StageOf, Call
    <2>3. [q \in Procs |-> StageOf(pc[q], cmd[q])]'
              = [[q \in Procs |-> StageOf(pc[q], cmd[q])] EXCEPT ![p] = StageOf("checked", c)]
      BY <2>1
    <2>4. {q \in stale : StageOf(pc[q], cmd[q]) = "looked"}'
              = {q \in stale : StageOf(pc[q], cmd[q]) = "looked"}
      BY <1>2, <2>1, <2>2 DEF TypeOK
    <2>. QED
      BY <1>2, <2>2, <2>3, <2>4 DEF Call, Shared!Ask
  <1>. QED
    BY <1>1, <1>2 DEF Call

(* Loading is a look at the file, except for init, which had its look.     *)
LEMMA LoadRefines ==
    ASSUME NEW p \in Procs, IndInv, Load(p)
    PROVE  Shared!Look(p) \/ Shared!End(p) \/ UNCHANGED Shared!avars
  <1>. DEFINE s == Loaded(p, cmd[p], file)
  <1>. TypeOK
    BY DEF IndInv
  <1>1. CASE ~(s # None /\ Allowed(s, cmd[p]))
    BY <1>1, FinishRefines DEF Load
  <1>2. CASE s # None /\ Allowed(s, cmd[p])
    <2>1. /\ pc[p] = "checked" /\ pc'[p] = "loaded" /\ UNCHANGED cmd
          /\ \A q \in Procs \ {p} : pc'[q] = pc[q]
      BY <1>2 DEF Load, TypeOK
    <2>2. StageOf(pc'[p], cmd[p]) = "looked"
      BY <2>1 DEF StageOf
    <2>3. CASE cmd[p].op = "init"
      <3>1. \A q \in Procs : StageOf(pc'[q], cmd[q]) = StageOf(pc[q], cmd[q])
        BY <2>1, <2>2, <2>3 DEF StageOf
      <3>. QED
        BY <2>1, <2>3, <3>1 DEF Load, TypeOK, Shared!avars
    <2>4. CASE cmd[p].op # "init"
      <3>1. StageOf(pc[p], cmd[p]) = "asked"
        BY <2>1, <2>4 DEF StageOf
      <3>2. [q \in Procs |-> StageOf(pc[q], cmd[q])]'
                = [[q \in Procs |-> StageOf(pc[q], cmd[q])] EXCEPT ![p] = "looked"]
        BY <2>1, <2>2
      <3>3. cmd' = [cmd EXCEPT ![p] = IF "looked" = "idle" THEN None ELSE @]
        BY <2>1 DEF TypeOK
      <3>4. {q \in stale : StageOf(pc[q], cmd[q]) = "looked"}'
                = {q \in stale : StageOf(pc[q], cmd[q]) = "looked"}
        BY <2>1, <2>4, <3>1 DEF Load, TypeOK
      <3>. QED
        BY <3>1, <3>2, <3>3, <3>4 DEF Load, Shared!Look, Shared!Goes
    <2>. QED
      BY <2>3, <2>4
  <1>. QED
    BY <1>1, <1>2

LEMMA ValidateRefines ==
    ASSUME NEW p \in Procs, IndInv, Validate(p)
    PROVE  Shared!End(p) \/ UNCHANGED Shared!avars
  <1>. TypeOK
    BY DEF IndInv
  <1>1. CASE Finish(p)
    BY <1>1, FinishRefines DEF Validate
  <1>2. CASE pc' = [pc EXCEPT ![p] = "validated"] /\ UNCHANGED cmd
    <2>1. \A q \in Procs : StageOf(pc'[q], cmd[q]) = StageOf(pc[q], cmd[q])
      BY <1>2 DEF Validate, StageOf, TypeOK
    <2>. QED
      BY <1>2, <2>1 DEF Validate, TypeOK, Shared!avars
  <1>. QED
    BY <1>1, <1>2 DEF Validate

(* The rename is the instant at which a command takes effect.              *)
LEMMA SaveRefines ==
    ASSUME NEW p \in Procs, IndInv, Save(p)
    PROVE  Shared!TakeEffect(p) \/ Shared!Spoil(p)
  <1>0. TypeOK /\ CommandInv /\ DraftInv /\ FreshInv
    BY DEF IndInv
  <1>1. /\ pc[p] = "validated" /\ file' = draft[p] /\ Finish(p)
        /\ draft[p] \in State /\ Valid(draft[p]) /\ cmd[p].apply
        /\ cmd[p].op # "init" => file # NoFile
    BY <1>0 DEF Save, DraftInv, CommandInv
  <1>2. /\ Shared!Goes(p, {"done", "idle"})
        /\ Shared!Goes(p, {"looked", "done", "idle"})
        /\ StageOf(pc[p], cmd[p])' = "idle"
        /\ \A q \in Procs \ {p} :
               StageOf(pc[q], cmd[q])' = StageOf(pc[q], cmd[q])
    BY <1>0, <1>1, FinishGoes
  <1>3. StageOf(pc[p], cmd[p]) = "looked"
    BY <1>1 DEF StageOf
  <1>4. Shared!Overtakes(p)
    <2>1. \A q \in Procs : StageOf(pc[q], cmd[q]) = "looked" => q \in Busy
      BY DEF StageOf, Busy
    <2>2. stale' = Busy \ {p} /\ Busy \subseteq Procs
      BY DEF Save, Busy
    <2>3. Shared!Looked' = {q \in Procs : StageOf(pc[q], cmd[q])' = "looked"}
      BY DEF Shared!Looked
    <2>4. {q \in stale' : StageOf(pc[q], cmd[q])' = "looked"}
              = {q \in Shared!Looked' :
                     q # p \/ p \in {r \in stale : StageOf(pc[r], cmd[r]) = "looked"}}
      BY <1>2, <2>1, <2>2, <2>3
    <2>5. {q \in stale : StageOf(pc[q], cmd[q]) = "looked"}'
              = {q \in stale' : StageOf(pc[q], cmd[q])' = "looked"}
      OBVIOUS
    <2>. QED
      BY <2>4, <2>5 DEF Shared!Overtakes
  <1>5. p \in Shared!Looked
    BY <1>3 DEF Shared!Looked
  <1>6. CASE p \in stale
    BY <1>1, <1>2, <1>3, <1>4, <1>5, <1>6 DEF Shared!Spoil
  <1>7. CASE p \notin stale
    <2>1. /\ Loaded(p, cmd[p], file) # None /\ Allowed(Loaded(p, cmd[p], file), cmd[p])
          /\ draft[p] = Effect(Loaded(p, cmd[p], file), cmd[p])
          /\ cmd[p].op = "init" => file = NoFile
      BY <1>0, <1>1, <1>7 DEF FreshInv
    <2>2. Saves(p, cmd[p], file, file')
      BY <1>1, <2>1 DEF Saves
    <2>. QED
      BY <1>2, <1>4, <1>5, <1>7, <2>2 DEF Shared!TakeEffect
  <1>. QED
    BY <1>6, <1>7

LEMMA EditRefines ==
    ASSUME TypeOK, Edit, file' \in State \cup {Damaged}
    PROVE  Shared!Interfere
  <1>1. \A q \in Procs : StageOf(pc[q], cmd[q]) = "looked" => q \in Busy
    BY DEF StageOf, Busy
  <1>2. stale' = Busy /\ Busy \subseteq Procs /\ UNCHANGED <<pc, cmd>>
    BY DEF Edit, Busy
  <1>3. {q \in stale : StageOf(pc[q], cmd[q]) = "looked"}' = Shared!Looked
    BY <1>1, <1>2 DEF Shared!Looked
  <1>. QED
    BY <1>2, <1>3 DEF Shared!Interfere

(* The commands of all agents together, in both runtimes, with crashes and *)
(* edits by hand, implement the shared object: each does what it was asked *)
(* to at one instant, to the file as it is then, or nothing, unless        *)
(* somebody wrote after it had looked.                                     *)
THEOREM CommandsShareObject == Spec => ImplementsSharedObject
  <1>1. IndInv /\ [Next]_vars => [Shared!ANext]_(Shared!avars)
    <2>. SUFFICES ASSUME IndInv, [Next]_vars PROVE [Shared!ANext]_(Shared!avars)
      OBVIOUS
    <2>0. TypeOK
      BY DEF IndInv
    <2>1. ASSUME NEW p \in Procs, NEW c \in Command, Call(p, c)
          PROVE  [Shared!ANext]_(Shared!avars)
      BY <2>0, <2>1, CallRefines DEF Shared!ANext
    <2>2. ASSUME NEW p \in Procs, Load(p) \/ Validate(p) \/ Save(p)
          PROVE  [Shared!ANext]_(Shared!avars)
      BY <2>2, LoadRefines, ValidateRefines, SaveRefines DEF Shared!ANext
    <2>3. ASSUME NEW p \in Procs, Crash(p)
          PROVE  Shared!ANext
      BY <2>0, <2>3, FinishRefines DEF Crash, Shared!ANext
    <2>4. CASE Damage
      BY <2>0, <2>4, EditRefines DEF Damage, Shared!ANext
    <2>5. ASSUME NEW f \in Fields, Misspell(f)
          PROVE  Shared!ANext
      <3>1. file' \in State
        BY <2>5 DEF Misspell, Edit, State, Value
      <3>. QED
        BY <2>0, <2>5, <3>1, EditRefines DEF Misspell, Shared!ANext
    <2>6. CASE UNCHANGED vars
      BY <2>6 DEF vars, Shared!avars
    <2>. QED
      BY <2>1, <2>2, <2>3, <2>4, <2>5, <2>6 DEF Next
  <1>. QED
    BY <1>1, InitRefines, InvariantHolds, PTL
    DEF Spec, ImplementsSharedObject, Shared!ASpec
=============================================================================
