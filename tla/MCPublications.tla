---------------------------- MODULE MCPublications ----------------------------
(* Instances of Publications for TLC. *)
EXTENDS Publications, TLC

(* Two requests: handoffs of two turns, a handoff and a press, or a press   *)
(* and the console.                                                         *)
Requests == {1 :> "handoff" @@ 2 :> "handoff",
             1 :> "handoff" @@ 2 :> "press",
             1 :> "press" @@ 2 :> "console"}
=============================================================================
