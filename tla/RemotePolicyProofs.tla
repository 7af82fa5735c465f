------------------------- MODULE RemotePolicyProofs -------------------------
(***************************************************************************)
(* Proofs about RemotePolicy for every number of operators, groups,        *)
(* commands and edits.                                                     *)
(***************************************************************************)
EXTENDS RemotePolicy, TLAPS

LEMMA TargetType ==
    ASSUME NEW c \in Command, NEW groups \in SUBSET Groups
    PROVE  Target(c, groups) \in SUBSET Groups
  BY DEF Target, Command

(* What a command sends is a policy.                                       *)
LEMMA SentType ==
    ASSUME NEW p \in Procs, TypeOK, WorkInv, pc[p] \in Writing
    PROVE  /\ Renamed(p) \in Policy
           /\ Renamed(p).suffix = copy[p].suffix + 1
           /\ Renamed(p).groups = copy[p].groups
           /\ Renamed(p).rest = copy[p].rest
           /\ Changed(p) \in Policy
           /\ Changed(p).suffix = copy[p].suffix
           /\ Changed(p).groups = Target(cmd[p], copy[p].groups)
           /\ Changed(p).rest = copy[p].rest
  <1>1. copy[p] \in Policy /\ cmd[p] \in Command
    BY DEF TypeOK, WorkInv, Writing
  <1>2. Target(cmd[p], copy[p].groups) \in SUBSET Groups
    BY <1>1, TargetType DEF Policy
  <1>. QED
    BY <1>1, <1>2 DEF Policy, Renamed, Changed

LEMMA RecordedType ==
    ASSUME NEW p \in Procs, TypeOK, cmd[p] \in Command, Recorded(p)
    PROVE  /\ ledger' \in [groups : SUBSET Groups, rest : 0..MaxEdits]
           /\ ledger'.groups = Target(cmd[p], ledger.groups)
           /\ ledger'.rest = ledger.rest
  <1>1. Target(cmd[p], ledger.groups) \in SUBSET Groups
    BY TargetType DEF TypeOK
  <1>. QED
    BY <1>1 DEF TypeOK, Recorded

Answers == {"none", "ready", "refused", "error", "renamed"}

LEMMA InitIndInv == Init => IndInv
  <1>. SUFFICES ASSUME Init PROVE IndInv
    OBVIOUS
  <1>1. policy \in Policy /\ policy.suffix = 0 /\ policy.rest = 0
    BY PolicyAssumption DEF Init, Policy
  <1>2. TypeOK
    <2>1. ledger \in [groups : SUBSET Groups, rest : 0..MaxEdits]
      BY <1>1, PolicyAssumption DEF Init, Policy
    <2>2. calls \in [Procs -> 0..MaxCalls] /\ edits \in 0..MaxEdits
      BY PolicyAssumption DEF Init
    <2>3. {excused, told, mute} \subseteq BOOLEAN
      BY DEF Init
    <2>. QED
      BY <1>1, <2>1, <2>2, <2>3 DEF Init, TypeOK
  <1>3. WorkInv /\ FreshInv /\ BorrowedInv
    BY DEF Init, WorkInv, FreshInv, BorrowedInv, Writing
  <1>4. LostOnlyByOverlap /\ RestoredOrReported
    BY <1>1 DEF Init, LostOnlyByOverlap, RestoredOrReported
  <1>. QED
    BY <1>2, <1>3, <1>4 DEF IndInv

(* A command that ends without having changed the policy leaves all as it  *)
(* was, provided that one which had renamed it is accounted for.           *)
LEMMA EndsQuietly ==
    ASSUME NEW p \in Procs, NEW what \in Answers, IndInv, Report(p, what),
           UNCHANGED <<policy, ledger, excused>>,
           stale' \in {stale, stale \ {p}},
           done' \in {done, done \cup {p}},
           told' \in BOOLEAN, mute' \in BOOLEAN, told => told', mute => mute',
           pc[p] = "restoring" => told' \/ mute'
    PROVE  IndInv'
  <1>. USE DEF IndInv
  <1>1. TypeOK'
    BY DEF TypeOK, Report, Answers
  <1>2. /\ pc'[p] = "idle"
        /\ \A q \in Procs \ {p} :
               /\ pc'[q] = pc[q] /\ cmd'[q] = cmd[q]
               /\ copy'[q] = copy[q] /\ answer'[q] = answer[q]
               /\ q \in stale' <=> q \in stale
               /\ q \in done' <=> q \in done
    BY DEF TypeOK, Report
  <1>3. WorkInv'
    BY <1>2 DEF WorkInv, Writing
  <1>4. FreshInv'
    BY <1>2 DEF FreshInv, Renamed, Changed
  <1>5. BorrowedInv'
    BY <1>2 DEF BorrowedInv, Writing
  <1>6. LostOnlyByOverlap' /\ RestoredOrReported'
    BY <1>2 DEF LostOnlyByOverlap, RestoredOrReported
  <1>. QED
    BY <1>1, <1>3, <1>4, <1>5, <1>6

(* A request that is carried out outdates everybody else's copy.           *)
LEMMA OthersOutdated ==
    ASSUME NEW p \in Procs, NEW new, Carry(p, new), NEW q \in Procs \ {p},
           pc'[q] = pc[q], q \notin stale'
    PROVE  pc'[q] \notin Writing
  BY DEF Carry, Busy

(* A command that ends with a request which was carried out keeps the part *)
(* of the invariant that is about commands.                                *)
LEMMA EndsCarried ==
    ASSUME NEW p \in Procs, NEW what \in Answers,
           NEW new \in Policy \cup {Gone}, IndInv,
           Carry(p, new), Report(p, what),
           ledger' \in [groups : SUBSET Groups, rest : 0..MaxEdits],
           done' \in {done, done \cup {p}},
           told' \in BOOLEAN, mute' \in BOOLEAN
    PROVE  TypeOK' /\ WorkInv' /\ FreshInv' /\ BorrowedInv'
  <1>. USE DEF IndInv
  <1>1. TypeOK'
    BY DEF TypeOK, Report, Answers, Carry, Busy
  <1>2. /\ pc'[p] = "idle"
        /\ \A q \in Procs \ {p} :
               /\ pc'[q] = pc[q] /\ cmd'[q] = cmd[q]
               /\ copy'[q] = copy[q] /\ answer'[q] = answer[q]
               /\ q \in done' <=> q \in done
    BY DEF TypeOK, Report
  <1>3. \A q \in Procs : q \notin stale' => pc'[q] \notin Writing
    BY <1>2, OthersOutdated DEF Writing
  <1>4. WorkInv'
    BY <1>2 DEF WorkInv, Writing
  <1>5. FreshInv'
    BY <1>3 DEF FreshInv, Writing
  <1>6. BorrowedInv'
    BY <1>3 DEF BorrowedInv
  <1>. QED
    BY <1>1, <1>4, <1>5, <1>6

(* Writing the group change loses nothing and leaves no strange name.      *)
LEMMA ChangeCarried ==
    ASSUME NEW p \in Procs, IndInv, pc[p] \in {"restoring", "replacing"},
           Carry(p, Changed(p)), Recorded(p), told => told', mute => mute',
           \A q \in Procs \ {p} : pc'[q] = pc[q]
    PROVE  LostOnlyByOverlap' /\ RestoredOrReported'
  <1>. USE DEF IndInv
  <1>1. pc[p] \in Writing /\ cmd[p] \in Command /\ policy' = Changed(p)
    BY DEF Writing, WorkInv, Carry
  <1>2. ledger'.groups = Target(cmd[p], ledger.groups) /\ ledger'.rest = ledger.rest
    BY <1>1, RecordedType
  <1>3. ASSUME ~excused' PROVE p \notin stale /\ ~excused
    BY <1>3 DEF Carry
  <1>4. ASSUME ~excused'
        PROVE  policy.groups = copy[p].groups /\ policy.rest = copy[p].rest
    BY <1>1, <1>3, <1>4, SentType DEF FreshInv
  <1>5. LostOnlyByOverlap'
    BY <1>1, <1>2, <1>3, <1>4, SentType DEF LostOnlyByOverlap, Carry
  <1>6. ASSUME ~excused', ~told', ~mute', policy'.suffix > 0
        PROVE  \E q \in Procs : pc'[q] = "restoring"
    BY <1>1, <1>3, <1>6, SentType DEF BorrowedInv
  <1>. QED
    BY <1>5, <1>6 DEF RestoredOrReported

LEMMA CallKeeps ==
    ASSUME IndInv, NEW p \in Procs, NEW c \in Command, Call(p, c)
    PROVE  IndInv'
  <1>. USE DEF IndInv
  <1>1. TypeOK'
    BY PolicyAssumption DEF TypeOK, Call, remote
  <1>2. /\ pc[p] = "idle" /\ pc'[p] = "reading" /\ cmd'[p] = c /\ answer'[p] = "none"
        /\ \A q \in Procs \ {p} :
               /\ pc'[q] = pc[q] /\ cmd'[q] = cmd[q] /\ answer'[q] = answer[q]
               /\ q \in done' <=> q \in done
        /\ UNCHANGED <<policy, ledger, copy, stale, excused, told, mute>>
    BY DEF TypeOK, Call, remote
  <1>3. WorkInv'
    BY <1>2 DEF WorkInv, Writing
  <1>4. FreshInv'
    BY <1>2 DEF FreshInv, Renamed, Changed
  <1>5. BorrowedInv'
    BY <1>2 DEF BorrowedInv, Writing
  <1>6. LostOnlyByOverlap' /\ RestoredOrReported'
    BY <1>2 DEF LostOnlyByOverlap, RestoredOrReported
  <1>. QED
    BY <1>1, <1>3, <1>4, <1>5, <1>6

LEMMA ReadKeeps ==
    ASSUME IndInv, NEW p \in Procs, Read(p)
    PROVE  IndInv'
  <1>. USE DEF IndInv
  <1>1. /\ pc[p] = "reading" /\ cmd[p] \in Command /\ policy \in Policy
        /\ UNCHANGED <<policy, ledger, excused, told, mute>>
        /\ stale' = stale \ {p} /\ told \in BOOLEAN /\ mute \in BOOLEAN
    BY DEF Read, WorkInv, TypeOK, remote
  <1>2. CASE Refused(cmd[p], policy)
    BY <1>1, <1>2, EndsQuietly DEF Read, Answers
  <1>3. CASE ~Refused(cmd[p], policy) /\ Satisfied(cmd[p], policy)
    BY <1>1, <1>3, EndsQuietly DEF Read, Answers
  <1>4. CASE ~Refused(cmd[p], policy) /\ ~Satisfied(cmd[p], policy)
    <2>1. FirstRequest(cmd[p]) \in {"renaming", "replacing", "deleting"}
      BY <1>1 DEF FirstRequest, Command
    <2>2. /\ pc'[p] = FirstRequest(cmd[p]) /\ copy'[p] = policy
          /\ \A q \in Procs \ {p} :
                 /\ pc'[q] = pc[q] /\ copy'[q] = copy[q]
                 /\ q \in stale' <=> q \in stale
          /\ UNCHANGED <<cmd, answer, done>>
      BY <1>1, <1>4 DEF TypeOK, Read
    <2>3. TypeOK'
      BY <1>1, <1>4, <2>1 DEF TypeOK, Read, Writing
    <2>4. WorkInv'
      <3>1. /\ pc'[p] = "renaming" => cmd[p].op = "add"
            /\ pc'[p] = "replacing" => cmd[p].op \in {"remove", "set"}
            /\ pc'[p] = "deleting" => cmd[p].op = "delete"
        BY <1>1, <2>2 DEF FirstRequest, Command
      <3>2. cmd[p].op = "remove" =>
                /\ cmd[p].group \in policy.groups
                /\ cmd[p].allowEmpty \/ policy.groups # {cmd[p].group}
        BY <1>4 DEF Refused
      <3>3. answer[p] = "none"
        BY <1>1 DEF WorkInv
      <3>. QED
        BY <1>1, <2>1, <2>2, <3>1, <3>2, <3>3 DEF WorkInv, Writing
    <2>5. FreshInv'
      BY <1>1, <2>1, <2>2 DEF FreshInv, Renamed, Changed
    <2>6. BorrowedInv'
      <3>1. ASSUME NEW q \in Procs, pc[q] = "restoring"
            PROVE  q # p /\ pc'[q] = "restoring"
        BY <1>1, <2>2, <3>1
      <3>2. (~excused /\ ~told /\ ~mute /\ policy.suffix > 0) =>
                \E q \in Procs : pc[q] = "restoring"
        BY <1>1, PolicyAssumption DEF RestoredOrReported
      <3>. QED
        BY <1>1, <2>2, <3>1, <3>2 DEF BorrowedInv
    <2>7. LostOnlyByOverlap' /\ RestoredOrReported'
      BY <1>1, <2>2 DEF LostOnlyByOverlap, RestoredOrReported
    <2>. QED
      BY <2>3, <2>4, <2>5, <2>6, <2>7
  <1>. QED
    BY <1>2, <1>3, <1>4

LEMMA RenameKeeps ==
    ASSUME IndInv, NEW p \in Procs, Rename(p)
    PROVE  IndInv'
  <1>. USE DEF IndInv
  <1>1. /\ pc[p] = "renaming" /\ pc[p] \in Writing /\ Carry(p, Renamed(p))
        /\ policy' = Renamed(p) /\ policy # Gone
        /\ UNCHANGED <<ledger, cmd, copy, answer, calls, edits, told, mute, done>>
    BY DEF Rename, Writing, Carry
  <1>2. /\ pc'[p] = "restoring"
        /\ \A q \in Procs \ {p} : pc'[q] = pc[q]
    BY DEF Rename, TypeOK
  <1>3. Renamed(p) \in Policy /\ Renamed(p).groups = copy[p].groups
        /\ Renamed(p).rest = copy[p].rest
    BY <1>1, SentType
  <1>4. TypeOK'
    <2>1. pc' \in [Procs -> {"idle", "reading"} \cup Writing]
      BY DEF Rename, TypeOK, Writing
    <2>2. stale' \subseteq Procs /\ excused' \in BOOLEAN
      BY <1>1 DEF TypeOK, Carry, Busy
    <2>. QED
      BY <1>1, <1>3, <2>1, <2>2 DEF TypeOK
  <1>5. \A q \in Procs \ {p} : q \notin stale' => pc'[q] \notin Writing
    BY <1>1, <1>2, OthersOutdated
  <1>6. WorkInv'
    BY <1>1, <1>2 DEF WorkInv, Writing
  <1>7. FreshInv'
    BY <1>1, <1>2, <1>5 DEF FreshInv, Writing, Renamed
  <1>8. ASSUME ~excused' PROVE p \notin stale /\ ~excused
    BY <1>1, <1>8 DEF Carry
  <1>9. BorrowedInv'
    BY <1>1, <1>2, <1>5, <1>8 DEF BorrowedInv
  <1>10. LostOnlyByOverlap'
    <2>1. ASSUME ~excused' PROVE policy = copy[p]
      BY <1>1, <1>8, <2>1 DEF FreshInv
    <2>. QED
      BY <1>1, <1>3, <1>8, <2>1 DEF LostOnlyByOverlap
  <1>11. RestoredOrReported'
    BY <1>2 DEF RestoredOrReported
  <1>. QED
    BY <1>4, <1>6, <1>7, <1>9, <1>10, <1>11

LEMMA ReplaceKeeps ==
    ASSUME IndInv, NEW p \in Procs, Replace(p)
    PROVE  IndInv'
  <1>. USE DEF IndInv
  <1>1. /\ pc[p] = "replacing" /\ pc[p] \in Writing /\ Carry(p, Changed(p))
        /\ policy' = Changed(p) /\ Recorded(p) /\ done' = done \cup {p}
        /\ UNCHANGED <<cmd, copy, answer, calls, edits, told, mute>>
    BY DEF Replace, Writing, Carry
  <1>2. /\ pc'[p] = "confirming"
        /\ \A q \in Procs \ {p} : pc'[q] = pc[q]
    BY DEF Replace, TypeOK
  <1>3. TypeOK'
    <2>1. pc' \in [Procs -> {"idle", "reading"} \cup Writing]
      BY DEF Replace, TypeOK, Writing
    <2>2. stale' \subseteq Procs /\ excused' \in BOOLEAN
      BY <1>1 DEF TypeOK, Carry, Busy
    <2>3. cmd[p] \in Command
      BY <1>1 DEF WorkInv
    <2>. QED
      BY <1>1, <2>1, <2>2, <2>3, SentType, RecordedType DEF TypeOK
  <1>4. \A q \in Procs \ {p} : q \notin stale' => pc'[q] \notin Writing
    BY <1>1, <1>2, OthersOutdated
  <1>5. WorkInv'
    BY <1>1, <1>2 DEF WorkInv, Writing
  <1>6. FreshInv'
    BY <1>1, <1>2, <1>4 DEF FreshInv, Writing, Changed
  <1>7. ASSUME ~excused' PROVE p \notin stale /\ ~excused
    BY <1>1, <1>7 DEF Carry
  <1>8. BorrowedInv'
    BY <1>1, <1>2, <1>4, <1>7 DEF BorrowedInv
  <1>9. LostOnlyByOverlap' /\ RestoredOrReported'
    BY <1>1, <1>2, ChangeCarried
  <1>. QED
    BY <1>3, <1>5, <1>6, <1>8, <1>9

(* The four ways in which a request and the command end together.          *)
LEMMA RenameFailsKeeps ==
    ASSUME IndInv, NEW p \in Procs, RenameFails(p)
    PROVE  IndInv'
  <1>. USE DEF IndInv
  <1>1. /\ pc[p] = "renaming" /\ pc[p] \in Writing /\ Report(p, "error")
        /\ UNCHANGED <<ledger, told, done>> /\ "error" \in Answers
        /\ told \in BOOLEAN /\ mute \in BOOLEAN
    BY DEF RenameFails, Writing, Answers, TypeOK
  <1>2. CASE NotCarried /\ UNCHANGED mute
    BY <1>1, <1>2, EndsQuietly DEF NotCarried
  <1>3. CASE Carry(p, Renamed(p)) /\ mute' = TRUE
    <2>1. TypeOK' /\ WorkInv' /\ FreshInv' /\ BorrowedInv'
      <3>1. Renamed(p) \in Policy \cup {Gone}
        BY <1>1, SentType
      <3>2. ledger' \in [groups : SUBSET Groups, rest : 0..MaxEdits]
        BY <1>1 DEF TypeOK
      <3>. QED
        BY <1>1, <1>3, <3>1, <3>2, EndsCarried
    <2>2. LostOnlyByOverlap'
      <3>1. ASSUME ~excused' PROVE ~excused /\ policy = copy[p] /\ policy # Gone
        BY <1>1, <1>3, <3>1 DEF Carry, FreshInv
      <3>. QED
        BY <1>1, <1>3, <3>1, SentType DEF LostOnlyByOverlap, Carry
    <2>3. RestoredOrReported'
      BY <1>3 DEF RestoredOrReported
    <2>. QED
      BY <2>1, <2>2, <2>3
  <1>. QED
    BY <1>2, <1>3 DEF RenameFails

LEMMA ChangeEnds ==
    ASSUME IndInv, NEW p \in Procs, pc[p] \in {"restoring", "replacing"},
           Carry(p, Changed(p)), Recorded(p), NEW what \in Answers, Report(p, what),
           done' \in {done, done \cup {p}},
           told' \in BOOLEAN, mute' \in BOOLEAN, told => told', mute => mute'
    PROVE  IndInv'
  <1>. USE DEF IndInv
  <1>1. pc[p] \in Writing /\ cmd[p] \in Command
    BY DEF Writing, WorkInv
  <1>2. TypeOK' /\ WorkInv' /\ FreshInv' /\ BorrowedInv'
    BY <1>1, SentType, RecordedType, EndsCarried
  <1>3. \A q \in Procs \ {p} : pc'[q] = pc[q]
    BY DEF Report, TypeOK
  <1>. QED
    BY <1>2, <1>3, ChangeCarried

LEMMA DeleteEnds ==
    ASSUME IndInv, NEW p \in Procs, pc[p] = "deleting", Carry(p, Gone),
           NEW what \in Answers, Report(p, what),
           done' \in {done, done \cup {p}}, UNCHANGED <<ledger, told, mute>>
    PROVE  IndInv'
  <1>. USE DEF IndInv
  <1>1. TypeOK' /\ WorkInv' /\ FreshInv' /\ BorrowedInv'
    <2>1. /\ ledger' \in [groups : SUBSET Groups, rest : 0..MaxEdits]
          /\ told' \in BOOLEAN /\ mute' \in BOOLEAN
      BY DEF TypeOK
    <2>. QED
      BY <2>1, EndsCarried
  <1>2. policy' = Gone
    BY DEF Carry
  <1>. QED
    BY <1>1, <1>2 DEF LostOnlyByOverlap, RestoredOrReported

(* The other endings.                                                      *)
LEMMA EndingKeeps ==
    ASSUME IndInv, NEW p \in Procs,
           \/ ReadFails(p) \/ Restore(p) \/ RestoreFails(p) \/ ReplaceFails(p)
           \/ Confirm(p) \/ Delete(p) \/ DeleteFails(p) \/ Crash(p)
    PROVE  IndInv'
  <1>. USE DEF IndInv
  <1>0. told \in BOOLEAN /\ mute \in BOOLEAN
    BY DEF TypeOK
  <1>1. CASE ReadFails(p)
    BY <1>0, <1>1, EndsQuietly DEF ReadFails, Answers, remote, seen
  <1>2. CASE Restore(p)
    BY <1>0, <1>2, ChangeEnds DEF Restore, Answers
  <1>3. CASE RestoreFails(p)
    <2>1. CASE NotCarried /\ UNCHANGED ledger
      BY <1>0, <1>3, <2>1, EndsQuietly DEF RestoreFails, NotCarried, Answers
    <2>2. CASE Carry(p, Changed(p)) /\ Recorded(p)
      BY <1>0, <1>3, <2>2, ChangeEnds DEF RestoreFails, Answers
    <2>. QED
      BY <1>3, <2>1, <2>2 DEF RestoreFails
  <1>4. CASE ReplaceFails(p)
    <2>1. CASE NotCarried /\ UNCHANGED ledger
      BY <1>0, <1>4, <2>1, EndsQuietly DEF ReplaceFails, NotCarried, Answers
    <2>2. CASE Carry(p, Changed(p)) /\ Recorded(p)
      BY <1>0, <1>4, <2>2, ChangeEnds DEF ReplaceFails, Answers
    <2>. QED
      BY <1>4, <2>1, <2>2 DEF ReplaceFails
  <1>5. CASE Confirm(p)
    <2>1. PICK what \in Answers : Report(p, what)
      BY <1>5 DEF Confirm, Answers
    <2>. QED
      BY <1>0, <1>5, <2>1, EndsQuietly DEF Confirm, remote, seen
  <1>6. CASE Delete(p)
    BY <1>6, DeleteEnds DEF Delete, Answers
  <1>7. CASE DeleteFails(p)
    <2>1. CASE NotCarried
      BY <1>0, <1>7, <2>1, EndsQuietly DEF DeleteFails, NotCarried, Answers
    <2>2. CASE Carry(p, Gone)
      BY <1>7, <2>2, DeleteEnds DEF DeleteFails, Answers
    <2>. QED
      BY <1>7, <2>1, <2>2 DEF DeleteFails
  <1>8. CASE Crash(p)
    <2>1. mute' \in BOOLEAN /\ (mute => mute') /\ (pc[p] = "restoring" => mute')
      BY <1>0, <1>8 DEF Crash
    <2>. QED
      BY <1>0, <1>8, <2>1, EndsQuietly DEF Crash, Answers, remote
  <1>. QED
    BY <1>1, <1>2, <1>3, <1>4, <1>5, <1>6, <1>7, <1>8

LEMMA EditKeeps ==
    ASSUME IndInv, Edit
    PROVE  IndInv'
  <1>. USE DEF IndInv
  <1>1. /\ policy \in Policy /\ policy # Gone
        /\ edits' = edits + 1 /\ edits' \in 0..MaxEdits
        /\ stale' = stale \cup Busy
        /\ UNCHANGED <<pc, cmd, copy, answer, calls, excused, told, mute, done>>
    BY PolicyAssumption DEF Edit, TypeOK
  <1>2. /\ policy' \in Policy /\ policy'.suffix = policy.suffix
        /\ ledger' \in [groups : SUBSET Groups, rest : 0..MaxEdits]
        /\ (policy.groups = ledger.groups /\ policy.rest = ledger.rest) =>
               (policy'.groups = ledger'.groups /\ policy'.rest = ledger'.rest)
    <2>1. ASSUME NEW groups \in SUBSET Groups,
                 policy' = [policy EXCEPT !.groups = groups],
                 ledger' = [ledger EXCEPT !.groups = groups]
          PROVE  <1>2!1
      BY <1>1, <2>1 DEF Policy, TypeOK
    <2>. QED
      BY <1>1, <2>1 DEF Edit, Policy, TypeOK
  <1>3. TypeOK'
    BY <1>1, <1>2 DEF TypeOK, Busy
  <1>4. \A p \in Procs : p \notin stale' => pc'[p] \notin Writing
    BY <1>1 DEF Busy
  <1>5. WorkInv'
    BY <1>1 DEF WorkInv
  <1>6. FreshInv' /\ BorrowedInv'
    BY <1>4 DEF FreshInv, BorrowedInv, Writing
  <1>7. LostOnlyByOverlap' /\ RestoredOrReported'
    BY <1>1, <1>2 DEF LostOnlyByOverlap, RestoredOrReported
  <1>. QED
    BY <1>3, <1>5, <1>6, <1>7

LEMMA StutterKeeps == ASSUME IndInv, UNCHANGED vars PROVE IndInv'
  BY DEF IndInv, vars, remote, seen, TypeOK, WorkInv, FreshInv, BorrowedInv,
         LostOnlyByOverlap, RestoredOrReported, Renamed, Changed

(* What the changes of the policy add up to, who has an outdated copy and  *)
(* where a temporary name comes from: the invariant all else follows from. *)
THEOREM InvariantHolds == Spec => []IndInv
  <1>1. IndInv /\ [Next]_vars => IndInv'
    <2>. SUFFICES ASSUME IndInv, [Next]_vars PROVE IndInv'
      OBVIOUS
    <2>1. CASE UNCHANGED vars
      BY <2>1, StutterKeeps
    <2>2. CASE Edit
      BY <2>2, EditKeeps
    <2>3. ASSUME NEW p \in Procs, NEW c \in Command, Call(p, c) PROVE IndInv'
      BY <2>3, CallKeeps
    <2>4. ASSUME NEW p \in Procs, Crash(p) PROVE IndInv'
      BY <2>4, EndingKeeps
    <2>5. ASSUME NEW p \in Procs, Work(p) PROVE IndInv'
      BY <2>5, ReadKeeps, RenameKeeps, RenameFailsKeeps, ReplaceKeeps, EndingKeeps
         DEF Work
    <2>. QED
      BY <2>1, <2>2, <2>3, <2>4, <2>5 DEF Next
  <1>. QED
    BY <1>1, InitIndInv, PTL DEF Spec

(* Every variable keeps its type.                                          *)
THEOREM TypeCorrect == Spec => []TypeOK
  <1>1. IndInv => TypeOK
    BY DEF IndInv
  <1>. QED
    BY <1>1, InvariantHolds, PTL

(* A change of the policy is lost only where an outdated copy was written  *)
(* back (AutomoxAdapter.buildPolicyUpdatePayload, buildPolicyReplacePayload). *)
THEOREM LossesAreOverlaps == Spec => []LostOnlyByOverlap
  <1>1. IndInv => LostOnlyByOverlap
    BY DEF IndInv
  <1>. QED
    BY <1>1, InvariantHolds, PTL

(* The temporary name of operatorPolicyAddGroup is taken back, or its user *)
(* is told, unless the command died or an outdated copy was written back.  *)
THEOREM NamesAreRestored == Spec => []RestoredOrReported
  <1>1. IndInv => RestoredOrReported
    BY DEF IndInv
  <1>. QED
    BY <1>1, InvariantHolds, PTL

(* A command that reports READY has taken effect.                          *)
THEOREM ReadyIsDone == Spec => []ReadyMeansDone
  <1>1. Init => ReadyMeansDone
    BY DEF Init, ReadyMeansDone
  <1>2. IndInv /\ ReadyMeansDone /\ [Next]_vars => ReadyMeansDone'
    <2>. SUFFICES ASSUME IndInv, ReadyMeansDone, [Next]_vars PROVE ReadyMeansDone'
      OBVIOUS
    <2>. USE DEF ReadyMeansDone
    <2>0. answer \in [Procs -> Answers]
      BY DEF IndInv, TypeOK, Answers
    <2>1. CASE UNCHANGED vars \/ Edit
      BY <2>1 DEF vars, seen, Edit
    <2>2. ASSUME NEW p \in Procs, NEW c \in Command, Call(p, c)
          PROVE  ReadyMeansDone'
      BY <2>0, <2>2 DEF Call
    <2>3. ASSUME NEW p \in Procs, NEW what, Report(p, what), done' = done,
                 what # "ready" \/ p \in done
          PROVE  ReadyMeansDone'
      BY <2>0, <2>3 DEF Report
    <2>4. ASSUME NEW p \in Procs, Report(p, "ready"), done' = done \cup {p}
          PROVE  ReadyMeansDone'
      BY <2>0, <2>4 DEF Report
    <2>5. ASSUME NEW p \in Procs, Crash(p) PROVE ReadyMeansDone'
      BY <2>3, <2>5 DEF Crash
    <2>6. ASSUME NEW p \in Procs, Work(p) PROVE ReadyMeansDone'
      <3>1. CASE Read(p)
        BY <2>3, <2>4, <3>1 DEF Read
      <3>2. CASE ReadFails(p)
        BY <2>3, <3>2 DEF ReadFails, seen
      <3>3. CASE Rename(p) \/ Replace(p)
        BY <3>3 DEF Rename, Replace
      <3>4. CASE RenameFails(p) \/ RestoreFails(p) \/ ReplaceFails(p) \/ DeleteFails(p)
        BY <2>3, <3>4 DEF RenameFails, RestoreFails, ReplaceFails, DeleteFails
      <3>5. CASE Restore(p) \/ Delete(p)
        BY <2>4, <3>5 DEF Restore, Delete
      <3>6. CASE Confirm(p)
        BY <2>3, <3>6 DEF Confirm, seen, IndInv, WorkInv
      <3>. QED
        BY <2>6, <3>1, <3>2, <3>3, <3>4, <3>5, <3>6 DEF Work
    <2>. QED
      BY <2>1, <2>2, <2>5, <2>6 DEF Next
  <1>. QED
    BY <1>1, <1>2, InvariantHolds, PTL DEF Spec

(* A policy loses its last group only on request, or by an add that writes *)
(* back an outdated empty list.                                            *)
THEOREM EmptiesAreRequested == Spec => EmptiedOnRequest
  <1>. DEFINE Emptied ==
           /\ edits' = edits /\ policy \in Policy /\ policy' \in Policy
           /\ policy.groups # {} /\ policy'.groups = {}
       Asked == \E p \in Procs :
           /\ pc'[p] # pc[p]
           /\ \/ cmd[p].op = "remove" /\ cmd[p].allowEmpty
              \/ cmd[p].op = "add" /\ p \in stale
  <1>1. ASSUME IndInv, Next, Emptied PROVE Asked
    <2>. USE <1>1 DEF IndInv
    <2>1. ~Edit
      BY DEF Edit, TypeOK
    <2>2. policy' # policy /\ policy' # Gone
      BY PolicyAssumption
    <2>3. PICK p \in Procs :
              \/ Rename(p) \/ RenameFails(p) \/ Restore(p) \/ RestoreFails(p)
              \/ Replace(p) \/ ReplaceFails(p) \/ Delete(p) \/ DeleteFails(p)
      BY <2>1, <2>2
         DEF Next, Work, Call, Crash, Read, ReadFails, Confirm, remote
    <2>4. pc'[p] # pc[p] /\ pc[p] \in Writing /\ pc[p] # "confirming"
      BY <2>3 DEF Rename, RenameFails, Restore, RestoreFails, Replace, ReplaceFails,
                  Delete, DeleteFails, Report, TypeOK, Writing
    <2>5. cmd[p] \in Command /\ copy[p] \in Policy
      BY <2>4 DEF WorkInv, Writing
    <2>6. CASE Rename(p) \/ RenameFails(p)
      <3>1. pc[p] = "renaming" /\ policy' = Renamed(p)
        BY <2>2, <2>6 DEF Rename, RenameFails, Carry, NotCarried
      <3>2. copy[p].groups = {}
        BY <2>4, <3>1, SentType
      <3>3. p \in stale
        BY <3>1, <3>2 DEF FreshInv
      <3>. QED
        BY <2>4, <3>1, <3>3 DEF WorkInv
    <2>7. CASE \/ Restore(p) \/ RestoreFails(p) \/ Replace(p) \/ ReplaceFails(p)
      <3>1. pc[p] \in {"restoring", "replacing"} /\ policy' = Changed(p)
        BY <2>2, <2>7 DEF Restore, RestoreFails, Replace, ReplaceFails, Carry, NotCarried
      <3>2. Target(cmd[p], copy[p].groups) = {}
        BY <2>4, <3>1, SentType
      <3>3. cmd[p].op = "remove" /\ copy[p].groups \ {cmd[p].group} = {}
        <4>1. cmd[p].op \in {"add", "remove", "set"}
          BY <3>1 DEF WorkInv
        <4>2. cmd[p].op # "add"
          BY <3>2 DEF Target
        <4>3. cmd[p].op # "set"
          <5>1. cmd[p].op = "set" => cmd[p].groups # {}
            BY <2>5 DEF Command
          <5>. QED
            BY <3>2, <5>1 DEF Target
        <4>. QED
          BY <3>2, <4>1, <4>2, <4>3 DEF Target
      <3>4. pc[p] = "replacing"
        BY <3>1, <3>3 DEF WorkInv
      <3>. QED
        BY <2>4, <3>3, <3>4 DEF WorkInv
    <2>8. CASE Delete(p) \/ DeleteFails(p)
      BY <2>2, <2>8 DEF Delete, DeleteFails, Carry, NotCarried
    <2>. QED
      BY <2>3, <2>6, <2>7, <2>8
  <1>2. IndInv /\ [Next]_vars => [Emptied => Asked]_vars
    BY <1>1
  <1>. QED
    BY <1>2, InvariantHolds, PTL DEF Spec, EmptiedOnRequest
-----------------------------------------------------------------------------
(* Refinement.                                                             *)

LEMMA UnnamedType ==
    /\ Unnamed(Gone) = Gone
    /\ \A read \in Policy :
           /\ Unnamed(read) \in Policy /\ read # Gone
           /\ Unnamed(read)
                  = [suffix |-> 0, groups |-> read.groups, rest |-> read.rest]
  BY PolicyAssumption DEF Unnamed, Policy

LEMMA InitRefines == Init => Shared!AInit
  <1>. SUFFICES ASSUME Init PROVE Shared!AInit
    OBVIOUS
  <1>1. policy \in Policy
    BY PolicyAssumption DEF Init, Policy
  <1>2. Untouched(Unnamed(policy))
    BY <1>1, UnnamedType DEF Init, Untouched
  <1>3. [p \in Procs |-> StageOf(pc[p])] = [p \in Procs |-> "idle"]
    BY DEF Init, StageOf
  <1>4. cmd = [p \in Procs |-> None] /\ {p \in stale : StageOf(pc[p]) = "looked"} = {}
    BY DEF Init
  <1>. QED
    BY <1>2, <1>3, <1>4 DEF Shared!AInit

(* Where a command goes, the stage it is seen at goes too.                 *)
LEMMA StageGoes ==
    ASSUME NEW p \in Procs, TypeOK, NEW place, pc' = [pc EXCEPT ![p] = place]
    PROVE  /\ [q \in Procs |-> StageOf(pc[q])]'
                  = [[q \in Procs |-> StageOf(pc[q])] EXCEPT ![p] = StageOf(place)]
           /\ StageOf(pc[p])' = StageOf(place)
           /\ \A q \in Procs \ {p} : StageOf(pc[q])' = StageOf(pc[q])
  BY DEF TypeOK

LEMMA ReportGoes ==
    ASSUME NEW p \in Procs, TypeOK, NEW what, Report(p, what), NEW stages, "idle" \in stages
    PROVE  /\ Shared!Goes(p, stages)
           /\ StageOf(pc[p])' = "idle"
           /\ \A q \in Procs \ {p} : StageOf(pc[q])' = StageOf(pc[q])
  <1>1. StageOf("idle") = "idle"
    BY DEF StageOf
  <1>2. cmd' = [cmd EXCEPT ![p] = IF "idle" = "idle" THEN None ELSE @]
    BY DEF Report
  <1>. QED
    BY <1>1, <1>2, StageGoes DEF Report, Shared!Goes

LEMMA KeepsGoes ==
    ASSUME NEW p \in Procs, TypeOK, NEW place, pc' = [pc EXCEPT ![p] = place],
           place # "idle", UNCHANGED cmd, NEW stages, StageOf(place) \in stages
    PROVE  /\ Shared!Goes(p, stages)
           /\ StageOf(pc[p])' = StageOf(place)
           /\ \A q \in Procs \ {p} : StageOf(pc[q])' = StageOf(pc[q])
  <1>1. StageOf(place) # "idle"
    BY DEF StageOf
  <1>2. cmd' = [cmd EXCEPT ![p] = IF StageOf(place) = "idle" THEN None ELSE @]
    BY <1>1 DEF TypeOK
  <1>. QED
    BY <1>2, StageGoes DEF Shared!Goes

(* A command that ends and writes nothing.                                 *)
LEMMA EndsRefine ==
    ASSUME NEW p \in Procs, TypeOK, NEW what, Report(p, what), pc[p] # "idle",
           UNCHANGED policy, stale' \in {stale, stale \ {p}}
    PROVE  Shared!End(p)
  <1>1. /\ Shared!Goes(p, {"idle"})
        /\ StageOf(pc[p])' = "idle"
        /\ \A q \in Procs \ {p} : StageOf(pc[q])' = StageOf(pc[q])
    BY ReportGoes
  <1>2. {q \in stale : StageOf(pc[q]) = "looked"}'
            = {q \in stale : StageOf(pc[q]) = "looked"} \ {p}
    BY <1>1 DEF TypeOK
  <1>3. [q \in Procs |-> StageOf(pc[q])][p] # "idle"
    BY DEF StageOf
  <1>. QED
    BY <1>1, <1>2, <1>3 DEF Shared!End

(* Whom a request overtakes.                                               *)
LEMMA CarryOvertakes ==
    ASSUME NEW p \in Procs, TypeOK, NEW new, Carry(p, new), StageOf(pc[p]) = "looked",
           \A q \in Procs \ {p} : StageOf(pc[q])' = StageOf(pc[q])
    PROVE  Shared!Overtakes(p)
  <1>1. \A q \in Procs : StageOf(pc[q]) = "looked" => q \in Busy
    BY DEF StageOf, Busy, Writing, TypeOK
  <1>2. stale' = stale \cup (Busy \ {p}) /\ stale \subseteq Procs
    BY DEF Carry, TypeOK
  <1>3. stale' \subseteq Procs
    BY <1>2 DEF Busy
  <1>4. ASSUME NEW q \in Procs \ {p}, StageOf(pc[q])' = "looked"
        PROVE  q \in stale'
    BY <1>1, <1>2, <1>4
  <1>5. p \in stale' <=> p \in stale
    BY <1>2
  <1>6. Shared!Looked' = {q \in Procs : StageOf(pc[q])' = "looked"}
    BY DEF Shared!Looked
  <1>7. {q \in stale : StageOf(pc[q]) = "looked"}' = {q \in stale' : StageOf(pc[q])' = "looked"}
    OBVIOUS
  <1>8. {q \in stale' : StageOf(pc[q])' = "looked"}
            = {q \in Shared!Looked' :
                   q # p \/ p \in {r \in stale : StageOf(pc[r]) = "looked"}}
    BY <1>3, <1>4, <1>5, <1>6
  <1>. QED
    BY <1>7, <1>8 DEF Shared!Overtakes

(* A request that prepares the change, or makes it, or comes too late.     *)
LEMMA RenameRefines ==
    ASSUME NEW p \in Procs, IndInv, pc[p] = "renaming", Carry(p, Renamed(p)),
           Shared!Goes(p, {"looked", "idle"}),
           \A q \in Procs \ {p} : StageOf(pc[q])' = StageOf(pc[q])
    PROVE  Shared!Prepare(p) \/ Shared!Spoil(p)
  <1>. USE DEF IndInv
  <1>1. StageOf(pc[p]) = "looked" /\ pc[p] \in Writing
    BY DEF StageOf, Writing
  <1>2. Shared!Overtakes(p)
    BY <1>1, CarryOvertakes
  <1>3. policy' = Renamed(p) /\ policy # Gone
    BY DEF Carry
  <1>4. p \in Shared!Looked
    BY <1>1 DEF Shared!Looked
  <1>5. CASE p \in stale
    <2>1. Unnamed(policy)' \in Policy \cup {Gone}
      BY <1>1, <1>3, SentType, UnnamedType
    <2>2. Shared!Goes(p, {"looked", "done", "idle"})
      BY DEF Shared!Goes
    <2>. QED
      BY <1>1, <1>2, <1>4, <1>5, <2>1, <2>2 DEF Shared!Spoil
  <1>6. CASE p \notin stale
    <2>1. policy = copy[p]
      BY <1>6 DEF FreshInv
    <2>2. Unnamed(policy)' = Unnamed(policy)
      BY <1>1, <1>3, <2>1, SentType, UnnamedType DEF WorkInv
    <2>. QED
      BY <1>2, <1>4, <1>6, <2>2 DEF Shared!Prepare
  <1>. QED
    BY <1>5, <1>6

LEMMA ChangeRefines ==
    ASSUME NEW p \in Procs, IndInv, pc[p] \in {"restoring", "replacing"},
           Carry(p, Changed(p)), Shared!Goes(p, {"done", "idle"}),
           \A q \in Procs \ {p} : StageOf(pc[q])' = StageOf(pc[q])
    PROVE  Shared!TakeEffect(p) \/ Shared!Spoil(p)
  <1>. USE DEF IndInv
  <1>1. StageOf(pc[p]) = "looked" /\ pc[p] \in Writing
    BY DEF StageOf, Writing
  <1>2. Shared!Overtakes(p)
    BY <1>1, CarryOvertakes
  <1>3. policy' = Changed(p) /\ policy # Gone
    BY DEF Carry
  <1>4. p \in Shared!Looked
    BY <1>1 DEF Shared!Looked
  <1>5. CASE p \in stale
    <2>1. Unnamed(policy)' \in Policy \cup {Gone}
      BY <1>1, <1>3, SentType, UnnamedType
    <2>2. Shared!Goes(p, {"looked", "done", "idle"})
      BY DEF Shared!Goes
    <2>. QED
      BY <1>1, <1>2, <1>4, <1>5, <2>1, <2>2 DEF Shared!Spoil
  <1>6. CASE p \notin stale
    <2>1. copy[p] \in Policy /\ cmd[p] \in Command
      BY <1>1 DEF WorkInv, Writing
    <2>2. policy \in Policy /\ policy.groups = copy[p].groups /\ policy.rest = copy[p].rest
      <3>1. policy \in {copy[p], Renamed(p)}
        BY <1>6 DEF FreshInv
      <3>. QED
        BY <1>1, <2>1, <3>1, SentType
    <2>3. Unnamed(policy) = [suffix |-> 0, groups |-> copy[p].groups, rest |-> copy[p].rest]
      BY <2>2, UnnamedType
    <2>4. Unnamed(policy)' = [suffix |-> 0, groups |-> Target(cmd[p], copy[p].groups),
                              rest |-> copy[p].rest]
      BY <1>1, <1>3, SentType, UnnamedType
    <2>5. Unnamed(policy) # Gone
      BY <2>2, UnnamedType
    <2>6. cmd[p].op \in {"add", "remove", "set"}
      BY DEF WorkInv
    <2>7. ~Refused(cmd[p], Unnamed(policy))
      BY <2>3, <2>6 DEF WorkInv, Refused
    <2>8. [Unnamed(policy) EXCEPT !.suffix = 0] = Unnamed(policy)
      BY <2>3
    <2>9. Carries(p, cmd[p], Unnamed(policy), Unnamed(policy)')
      BY <2>3, <2>4, <2>5, <2>6, <2>7, <2>8 DEF Carries
    <2>. QED
      BY <1>2, <1>4, <1>6, <2>9 DEF Shared!TakeEffect
  <1>. QED
    BY <1>5, <1>6

LEMMA DeletionRefines ==
    ASSUME NEW p \in Procs, IndInv, pc[p] = "deleting", cmd[p].op = "delete",
           Carry(p, Gone), Shared!Goes(p, {"done", "idle"}),
           \A q \in Procs \ {p} : StageOf(pc[q])' = StageOf(pc[q])
    PROVE  Shared!TakeEffect(p) \/ Shared!Spoil(p)
  <1>. USE DEF IndInv
  <1>1. StageOf(pc[p]) = "looked" /\ pc[p] \in Writing
    BY DEF StageOf, Writing
  <1>2. Shared!Overtakes(p)
    BY <1>1, CarryOvertakes
  <1>3. Unnamed(policy)' = Gone /\ policy \in Policy
    BY UnnamedType DEF Carry, TypeOK
  <1>4. p \in Shared!Looked
    BY <1>1 DEF Shared!Looked
  <1>5. CASE p \in stale
    <2>1. Shared!Goes(p, {"looked", "done", "idle"})
      BY DEF Shared!Goes
    <2>. QED
      BY <1>1, <1>2, <1>3, <1>4, <1>5, <2>1 DEF Shared!Spoil
  <1>6. CASE p \notin stale
    <2>1. cmd[p] \in Command /\ cmd[p].confirm \in {0, 1}
      BY <1>1 DEF WorkInv, Writing, Command
    <2>2. ~Refused(cmd[p], [Unnamed(policy) EXCEPT !.suffix = cmd[p].confirm])
      BY <1>3, UnnamedType DEF Refused
    <2>3. Carries(p, cmd[p], Unnamed(policy), Unnamed(policy)')
      BY <1>3, <2>1, <2>2, UnnamedType DEF Carries
    <2>. QED
      BY <1>2, <1>4, <1>6, <2>3 DEF Shared!TakeEffect
  <1>. QED
    BY <1>5, <1>6

LEMMA CallRefines ==
    ASSUME NEW p \in Procs, NEW c \in Command, TypeOK, Call(p, c)
    PROVE  Shared!Ask(p, c)
  <1>0. StageOf("reading") = "asked" /\ pc' = [pc EXCEPT ![p] = "reading"]
    BY DEF Call, StageOf
  <1>1. /\ [q \in Procs |-> StageOf(pc[q])]'
               = [[q \in Procs |-> StageOf(pc[q])] EXCEPT ![p] = "asked"]
        /\ StageOf(pc[p])' = "asked"
        /\ \A q \in Procs \ {p} : StageOf(pc[q])' = StageOf(pc[q])
    BY <1>0, StageGoes
  <1>2. StageOf(pc[p]) = "idle"
    BY DEF Call, StageOf
  <1>3. {q \in stale : StageOf(pc[q]) = "looked"}'
            = {q \in stale : StageOf(pc[q]) = "looked"}
    BY <1>1, <1>2 DEF Call, TypeOK
  <1>. QED
    BY <1>1, <1>2, <1>3 DEF Call, remote, Shared!Ask

LEMMA ReadRefines ==
    ASSUME NEW p \in Procs, IndInv, Read(p)
    PROVE  Shared!Look(p) \/ Shared!End(p)
  <1>. USE DEF IndInv
  <1>1. CASE \E what : Report(p, what)
    BY <1>1, EndsRefine DEF Read, remote
  <1>2. CASE /\ pc' = [pc EXCEPT ![p] = FirstRequest(cmd[p])]
             /\ UNCHANGED cmd
    <2>1. /\ StageOf(pc[p]) = "asked" /\ StageOf(FirstRequest(cmd[p])) = "looked"
          /\ FirstRequest(cmd[p]) # "idle"
      BY DEF Read, StageOf, FirstRequest, WorkInv, Command
    <2>2. /\ Shared!Goes(p, {"looked"})
          /\ \A q \in Procs \ {p} : StageOf(pc[q])' = StageOf(pc[q])
      BY <1>2, <2>1, KeepsGoes
    <2>3. {q \in stale : StageOf(pc[q]) = "looked"}'
              = {q \in stale : StageOf(pc[q]) = "looked"}
      BY <2>1, <2>2 DEF Read, TypeOK
    <2>. QED
      BY <2>1, <2>2, <2>3 DEF Read, remote, Shared!Look
  <1>. QED
    BY <1>1, <1>2 DEF Read

LEMMA EditRefines == TypeOK /\ Edit => Shared!Interfere
  <1>. SUFFICES ASSUME TypeOK, Edit PROVE Shared!Interfere
    OBVIOUS
  <1>1. policy' \in Policy
    <2>1. policy \in Policy /\ edits' \in 0..MaxEdits
      BY PolicyAssumption DEF Edit, TypeOK
    <2>. QED
      BY <2>1 DEF Edit, Policy
  <1>2. \A q \in Procs : StageOf(pc[q]) = "looked" => q \in Busy
    BY DEF StageOf, Busy, Writing, TypeOK
  <1>3. stale' \subseteq Procs /\ Busy \subseteq stale' /\ UNCHANGED pc
    BY DEF Edit, TypeOK, Busy
  <1>4. {q \in stale : StageOf(pc[q]) = "looked"}' = Shared!Looked
    BY <1>2, <1>3 DEF Shared!Looked
  <1>. QED
    BY <1>1, <1>3, <1>4, UnnamedType DEF Edit, Shared!Interfere

(* Each way a request can go.                                              *)
LEMMA RequestRefines ==
    ASSUME NEW p \in Procs, IndInv, Work(p)
    PROVE  [Shared!ANext]_(Shared!avars)
  <1>. USE DEF IndInv
  <1>1. ASSUME \/ Shared!Look(p) \/ Shared!TakeEffect(p) \/ Shared!Prepare(p)
               \/ Shared!Spoil(p) \/ Shared!End(p)
        PROVE  Shared!ANext
    BY <1>1 DEF Shared!ANext
  <1>2. ASSUME NEW what, Report(p, what), pc[p] # "idle", UNCHANGED policy,
               stale' \in {stale, stale \ {p}}
        PROVE  Shared!ANext
    BY <1>1, <1>2, EndsRefine
  <1>3. CASE Read(p)
    BY <1>1, <1>3, ReadRefines
  <1>4. CASE ReadFails(p) \/ Confirm(p)
    BY <1>2, <1>4 DEF ReadFails, Confirm, remote, seen
  <1>5. CASE Rename(p)
    <2>1. StageOf("restoring") = "looked"
      BY DEF StageOf
    <2>2. /\ Shared!Goes(p, {"looked", "idle"})
          /\ \A q \in Procs \ {p} : StageOf(pc[q])' = StageOf(pc[q])
      BY <1>5, <2>1, KeepsGoes DEF Rename
    <2>. QED
      BY <1>1, <1>5, <2>2, RenameRefines DEF Rename
  <1>6. CASE RenameFails(p)
    <2>1. CASE NotCarried
      BY <1>2, <1>6, <2>1 DEF RenameFails, NotCarried
    <2>2. CASE Carry(p, Renamed(p))
      <3>1. /\ Shared!Goes(p, {"looked", "idle"})
            /\ \A q \in Procs \ {p} : StageOf(pc[q])' = StageOf(pc[q])
        BY <1>6, ReportGoes DEF RenameFails
      <3>. QED
        BY <1>1, <1>6, <2>2, <3>1, RenameRefines DEF RenameFails
    <2>. QED
      BY <1>6, <2>1, <2>2 DEF RenameFails
  <1>7. ASSUME NEW what, Report(p, what), pc[p] \in {"restoring", "replacing"},
               Carry(p, Changed(p))
        PROVE  Shared!ANext
    BY <1>1, <1>7, ReportGoes, ChangeRefines
  <1>8. CASE Restore(p)
    BY <1>7, <1>8 DEF Restore
  <1>9. CASE RestoreFails(p) \/ ReplaceFails(p)
    <2>1. CASE NotCarried
      BY <1>2, <1>9, <2>1 DEF RestoreFails, ReplaceFails, NotCarried
    <2>2. CASE Carry(p, Changed(p))
      BY <1>7, <1>9, <2>2 DEF RestoreFails, ReplaceFails
    <2>. QED
      BY <1>9, <2>1, <2>2 DEF RestoreFails, ReplaceFails
  <1>10. CASE Replace(p)
    <2>1. StageOf("confirming") = "done"
      BY DEF StageOf
    <2>2. /\ Shared!Goes(p, {"done", "idle"})
          /\ \A q \in Procs \ {p} : StageOf(pc[q])' = StageOf(pc[q])
      BY <1>10, <2>1, KeepsGoes DEF Replace
    <2>. QED
      BY <1>1, <1>10, <2>2, ChangeRefines DEF Replace
  <1>11. CASE Delete(p) \/ DeleteFails(p)
    <2>1. PICK what : Report(p, what) /\ pc[p] = "deleting" /\ (NotCarried \/ Carry(p, Gone))
      BY <1>11 DEF Delete, DeleteFails
    <2>2. CASE NotCarried
      BY <1>2, <2>1, <2>2 DEF NotCarried
    <2>3. CASE Carry(p, Gone)
      BY <1>1, <2>1, <2>3, ReportGoes, DeletionRefines DEF WorkInv
    <2>. QED
      BY <2>1, <2>2, <2>3
  <1>. QED
    BY <1>3, <1>4, <1>5, <1>6, <1>8, <1>9, <1>10, <1>11 DEF Work

(* All commands together, with failing requests, lost replies, crashes and *)
(* edits in the console, implement the shared object: whatever happens to  *)
(* the requests of a command, it does what it was asked to at one instant  *)
(* and at most once, or nothing, unless somebody wrote after it had read.  *)
THEOREM CommandsShareObject == Spec => ImplementsSharedObject
  <1>1. IndInv /\ [Next]_vars => [Shared!ANext]_(Shared!avars)
    <2>. SUFFICES ASSUME IndInv, [Next]_vars PROVE [Shared!ANext]_(Shared!avars)
      OBVIOUS
    <2>1. ASSUME NEW p \in Procs, NEW c \in Command, Call(p, c)
          PROVE  Shared!ANext
      BY <2>1, CallRefines DEF IndInv, Shared!ANext
    <2>2. ASSUME NEW p \in Procs, Crash(p)
          PROVE  Shared!ANext
      BY <2>2, EndsRefine DEF IndInv, Crash, remote, Shared!ANext
    <2>3. CASE Edit
      BY <2>3, EditRefines DEF IndInv, Shared!ANext
    <2>4. CASE UNCHANGED vars
      BY <2>4 DEF vars, remote, seen, Shared!avars
    <2>. QED
      BY <2>1, <2>2, <2>3, <2>4, RequestRefines DEF Next
  <1>. QED
    BY <1>1, InitRefines, InvariantHolds, PTL
    DEF Spec, ImplementsSharedObject, Shared!ASpec
=============================================================================
