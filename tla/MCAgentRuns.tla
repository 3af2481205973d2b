---------------------------- MODULE MCAgentRuns ----------------------------
(* Instances of AgentRuns for TLC. *)
EXTENDS AgentRuns

TwoCards == 1 :> "card" @@ 2 :> "card"
TwoMessages == 1 :> "message" @@ 2 :> "message"
TwoTurns == 1 :> "incident" @@ 2 :> "incident"
=============================================================================
