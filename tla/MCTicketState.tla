----------------------------- MODULE MCTicketState -----------------------------
(* Instances of TicketState for TLC: a Groovy and a Python agent, or more. *)
EXTENDS TicketState, TLC

CONSTANTS groovy1, python1, low, high, wrong
=============================================================================
