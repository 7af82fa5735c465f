----------------------------- MODULE SharedObject -----------------------------
(***************************************************************************)
(* What commands can promise that read a shared object, decide on what     *)
(* they have read and write the whole of it back, without a lock.  A       *)
(* command takes effect at one instant and at most once, on the object as  *)
(* it is at that instant, unless somebody else has written since it        *)
(* looked.  Only a command that was overtaken in this way may leave the    *)
(* object as nobody has asked for.                                         *)
(***************************************************************************)
CONSTANTS
    Procs,
    Requests,
    Objects,
    None,
    Initially(_),      \* whether the object may be so at first
    Effects(_, _, _, _) \* whether p's request turns one object into another

VARIABLES object, stage, request, overtaken

avars == <<object, stage, request, overtaken>>

AInit ==
    /\ Initially(object)
    /\ stage = [p \in Procs |-> "idle"]
    /\ request = [p \in Procs |-> None]
    /\ overtaken = {}

Looked == {p \in Procs : stage[p] = "looked"}

\* The process goes on to one of these stages, and forgets what it did when
\* it is through.
Goes(p, stages) ==
    \E s \in stages :
        /\ stage' = [stage EXCEPT ![p] = s]
        /\ request' = [request EXCEPT ![p] = IF s = "idle" THEN None ELSE @]

\* Some commands look at the object as they are called.
Ask(p, c) ==
    /\ stage[p] = "idle"
    /\ \E s \in {"asked", "looked"} : stage' = [stage EXCEPT ![p] = s]
    /\ request' = [request EXCEPT ![p] = c]
    /\ UNCHANGED <<object, overtaken>>

Look(p) ==
    /\ stage[p] = "asked"
    /\ Goes(p, {"looked"})
    /\ UNCHANGED <<object, overtaken>>

\* A write overtakes everybody else who has looked.
Overtakes(p) == overtaken' = {q \in Looked' : q # p \/ p \in overtaken}

\* The one instant.  The command may have to wait for an answer, or be
\* through with this write.
TakeEffect(p) ==
    /\ p \in Looked \ overtaken
    /\ Effects(p, request[p], object, object')
    /\ Goes(p, {"done", "idle"})
    /\ Overtakes(p)

\* The object is written as it is, in preparation of the change.
Prepare(p) ==
    /\ p \in Looked \ overtaken
    /\ UNCHANGED object
    /\ Goes(p, {"looked", "idle"})
    /\ Overtakes(p)

\* A process that was overtaken undoes what others did.
Spoil(p) ==
    /\ p \in Looked \cap overtaken
    /\ object' \in Objects
    /\ Goes(p, {"looked", "done", "idle"})
    /\ Overtakes(p)

\* A command ends: with its answer, without having done anything, or killed.
End(p) ==
    /\ stage[p] # "idle"
    /\ Goes(p, {"idle"})
    /\ overtaken' = overtaken \ {p}
    /\ UNCHANGED object

\* Somebody who is not one of the processes changes the object.
Interfere ==
    /\ object' \in Objects
    /\ overtaken' = Looked
    /\ UNCHANGED <<stage, request>>

ANext ==
    \/ \E p \in Procs :
           \/ \E c \in Requests : Ask(p, c)
           \/ Look(p) \/ TakeEffect(p) \/ Prepare(p) \/ Spoil(p) \/ End(p)
    \/ Interfere

ASpec == AInit /\ [][ANext]_avars
=============================================================================
