---------------------------- MODULE MCSchedules ----------------------------
(* Schedules on small instances: an hourly task, which an operator may      *)
(* replace by a one-time task, of a channel in which a message is posted.   *)
EXTENDS Schedules, TLC

Hourly == [every |-> 1, start |-> 1, latest |-> FALSE, expires |-> 3]
Later == [every |-> 0, start |-> 2, latest |-> FALSE, expires |-> 3]

MCDefinition == [t \in Tasks |-> Hourly]
MCReplacement == [t \in Tasks |-> Later]
OneMessage == {<<"message", 1, 0>>}
MCSynthetic == Tasks \X (1..Horizon) \X (0..MaxOrders)
=============================================================================
