--------------------------- MODULE AtomicRegistry ---------------------------
(***************************************************************************)
(* What the registry promises its callers: a configuration that commands   *)
(* change one after another.  Each command takes effect at one instant     *)
(* between being asked and being answered, on the configuration as it is   *)
(* at that instant, or has no effect.  A caller that dies before its       *)
(* answer does not know which.                                             *)
(***************************************************************************)
EXTENDS ConfigCommands

CONSTANTS Procs, Unreadable, AskLimit

VARIABLES registry, stage, request, reply, asked

avars == <<registry, stage, request, reply, asked>>

AInit ==
    /\ registry \in {c \in Config : Valid(c)} \cup {Unreadable}
    /\ stage = [p \in Procs |-> "idle"]
    /\ request = [p \in Procs |-> None]
    /\ reply = [p \in Procs |-> "none"]
    /\ asked = [p \in Procs |-> 0]

Ask(p, c) ==
    /\ stage[p] = "idle"
    /\ asked[p] < AskLimit
    /\ asked' = [asked EXCEPT ![p] = @ + 1]
    /\ stage' = [stage EXCEPT ![p] = "asked"]
    /\ request' = [request EXCEPT ![p] = c]
    /\ UNCHANGED <<registry, reply>>

\* A command whose arguments are wrong is answered as soon as it is asked.
AskInVain(p, c) ==
    /\ stage[p] = "idle"
    /\ asked[p] < AskLimit
    /\ RefusedAtOnce(c)
    /\ asked' = [asked EXCEPT ![p] = @ + 1]
    /\ stage' = [stage EXCEPT ![p] = "decided"]
    /\ request' = [request EXCEPT ![p] = c]
    /\ reply' = [reply EXCEPT ![p] = "refused"]
    /\ UNCHANGED registry

Decide(p, answer) ==
    /\ stage[p] = "asked"
    /\ stage' = [stage EXCEPT ![p] = "decided"]
    /\ reply' = [reply EXCEPT ![p] = answer]
    /\ UNCHANGED <<request, asked>>

Acceptable(p) == registry # Unreadable /\ Allowed(registry, request[p])

Accept(p) ==
    /\ Decide(p, "ok")
    /\ Acceptable(p)
    /\ registry' = Effect(registry, request[p])

Refuse(p) ==
    /\ Decide(p, "refused")
    /\ ~Acceptable(p)
    /\ UNCHANGED registry

\* The disk refuses the write.
Fail(p) == Decide(p, "failed") /\ UNCHANGED registry

Forget(p) ==
    /\ stage' = [stage EXCEPT ![p] = "idle"]
    /\ request' = [request EXCEPT ![p] = None]
    /\ reply' = [reply EXCEPT ![p] = "none"]
    /\ UNCHANGED <<registry, asked>>

Tell(p) == stage[p] = "decided" /\ Forget(p)

Die(p) == stage[p] # "idle" /\ Forget(p)

ANext ==
    \E p \in Procs :
        \/ \E c \in Command : Ask(p, c) \/ AskInVain(p, c)
        \/ Accept(p) \/ Refuse(p) \/ Fail(p) \/ Tell(p) \/ Die(p)

ASpec == AInit /\ [][ANext]_avars
=============================================================================
