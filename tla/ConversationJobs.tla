--------------------------- MODULE ConversationJobs ---------------------------
(***************************************************************************)
(* What the durable scheduler promises its callers, without rows, leases,  *)
(* tokens or clocks: jobs of one conversation run one at a time, and a     *)
(* request stays owed until a job that began after it ends well, except    *)
(* that an item with a deadline may be given up while nothing runs it.     *)
(***************************************************************************)
CONSTANTS Items, Key, NoKey, Deadlined

VARIABLES active,   \* the items whose job is running
          owed      \* Items -> there is a request no job has answered

vars == <<active, owed>>

SameConversation(i, j) == i = j \/ (Key[i] = Key[j] /\ Key[i] # NoKey)

Init == active = {} /\ owed \in [Items -> BOOLEAN]

Request(i) == owed' = [owed EXCEPT ![i] = TRUE] /\ UNCHANGED active

Begin(i) ==
    /\ \A j \in active : ~SameConversation(i, j)
    /\ active' = active \cup {i}
    /\ owed' = [owed EXCEPT ![i] = FALSE]

(* A job that ends badly leaves its item owed. *)
End(i, well) ==
    /\ i \in active
    /\ active' = active \ {i}
    /\ owed' = [owed EXCEPT ![i] = @ \/ ~well]

GiveUp(i) ==
    /\ i \in Deadlined \ active
    /\ owed' = [owed EXCEPT ![i] = FALSE]
    /\ UNCHANGED active

(* The process dies: every running job is owed again, and the next start    *)
(* may ask for more.                                                        *)
Halt ==
    /\ active' = {}
    /\ owed' \in [Items -> BOOLEAN]
    /\ \A i \in Items : owed[i] \/ i \in active => owed'[i]

Next ==
    \/ \E i \in Items : Request(i) \/ Begin(i) \/ GiveUp(i)
    \/ \E i \in Items, well \in BOOLEAN : End(i, well)
    \/ Halt

Spec == Init /\ [][Next]_vars
=============================================================================
