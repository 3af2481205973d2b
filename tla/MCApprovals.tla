------------------------------ MODULE MCApprovals ------------------------------
(* Approvals with one request in a thread and one in an incident's room. *)
EXTENDS Approvals, TLC

CONSTANTS thread, room

MCApprovals == {thread, room}
MCRooms == {room}
Plan(t, r, presses, troubles) ==
    [stages |-> thread :> t @@ room :> r, presses |-> presses, troubles |-> troubles]
MCPlans == {Plan("asked", "settled", 0, 1),
            Plan("settled", "asked", 1, 1),
            Plan("waiting", "waiting", 2, 0)}
=============================================================================
