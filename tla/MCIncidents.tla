---------------------------- MODULE MCIncidents ----------------------------
(* Incidents on a small instance: the first delivery reports two signals,  *)
(* the later one calms one of them.                                        *)
EXTENDS Incidents

Alert(s, status) == [signal |-> s, status |-> status]
MCAlerts ==
    [first |-> <<Alert("disk", "firing"), Alert("load", "firing")>>,
     later |-> <<Alert("disk", "resolved")>>]
MCKey == [disk |-> "disk", load |-> "load"]

\* Both deliveries where one incident may be open, the first where two may.
MCPlans == {[open |-> 1, sent |-> {"first", "later"}, troubles |-> 2],
            [open |-> 2, sent |-> {"first"}, troubles |-> 1]}
=============================================================================
