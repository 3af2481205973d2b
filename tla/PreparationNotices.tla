--------------------------- MODULE PreparationNotices --------------------------
(***************************************************************************)
(* The notice that says why a triage run's workspace is not ready, and its *)
(* removal once the run recovers: internal/preparationnotice, internal/    *)
(* store/preparationstore and internal/slackdismiss, on top of the         *)
(* delivery ledger.  One episode is modelled: all its rows share one       *)
(* coalesce key, and rowid is the position in the ledger.                  *)
(*                                                                         *)
(* A blocker is written in two steps: Notify reads the ledger and plans a  *)
(* post or an update, and a second transaction enqueues it.  A retirement  *)
(* is a delete row; it is written with the accepted model turn or by a     *)
(* person who dismisses the notice.  The sender and the finder carry the   *)
(* rows out as in SlackOutbox.                                             *)
(***************************************************************************)
EXTENDS Integers, Sequences, FiniteSets, FiniteSetsExt

CONSTANTS
    Runs,         \* the episode's triage runs
    Blockers,     \* what may keep a workspace from being ready
    None,
    MaxAttempts,  \* limits.max_delivery_attempts
    MaxRows,      \* bound on the ledger
    MaxCrashes    \* bound on restarts

ASSUME ConfigAssumption ==
    /\ None \notin Runs \cup Blockers
    /\ MaxAttempts \in Nat
    /\ MaxRows \in Nat
    /\ MaxCrashes \in Nat

VARIABLES
    ledger,     \* the rows of the episode's coalesce key
    planned,    \* the row Notify is about to enqueue
    sender,     \* the slack_delivery drain
    finder,     \* the slack_reconcile drain
    shown,      \* Slack: the notices to be seen, each with the row it shows
    overtaken,  \* runs whose input a newer human turn has overtaken
    crashes     \* restarts so far

vars == <<ledger, planned, sender, finder, shown, overtaken, crashes>>
-----------------------------------------------------------------------------
State == {"pending", "sending", "retry", "uncertain", "sent", "failed", "superseded"}

(* target is the message the row wrote to: the row of the post that created *)
(* it, or 0.                                                                *)
Row == [op : {"post", "update", "delete"}, run : Runs, blocker : Blockers \cup {None},
        epoch : 1..MaxRows, state : State, failures : 0..MaxAttempts, target : 0..MaxRows]

Idle == [phase |-> "idle", row |-> 0]

Rows == DOMAIN ledger
In(i, states) == ledger[i].state \in states
Queued(i) == In(i, {"pending", "retry"})
Live(i) == In(i, {"pending", "retry", "sending", "uncertain", "sent"})
IsDelete(i) == ledger[i].op = "delete"
Notices == {i \in Rows : ~IsDelete(i)}
Deletes == {i \in Rows : IsDelete(i)}
Retiring == {i \in Deletes : In(i, {"pending", "retry", "sending"})}
Latest(S) == Max(S \cup {0})
Sent(i) == In(i, {"sent"}) /\ ledger[i].target # 0
-----------------------------------------------------------------------------
(* Delivery: the active retirement starts a new epoch unless it was never   *)
(* attempted, comes right after a sent notice, and has nothing behind it.   *)
Cancellable(active, epochStart) ==
    /\ In(active, {"pending"}) /\ ledger[active].failures = 0
    /\ LET before == Latest({i \in Notices : i > epochStart /\ i < active})
       IN before # 0 /\ Sent(before)
    /\ \A i \in Notices : i > active => ~Live(i)

EpochStart ==
    LET active == Latest(Retiring)
        closed == Latest({i \in Deletes : In(i, {"sent"})})
    IN IF active # 0 /\ ~Cancellable(active, closed) THEN active ELSE closed

Delivery(r, b) ==
    LET latestSent == Latest({i \in Notices : i > EpochStart /\ Sent(i)})
    IN [op |-> IF latestSent # 0 THEN "update" ELSE "post", run |-> r, blocker |-> b,
        epoch |-> Cardinality(Deletes) + 1, state |-> "pending", failures |-> 0,
        target |-> IF latestSent # 0 THEN ledger[latestSent].target ELSE 0]

AlreadyTold(r, b) ==
    /\ Retiring = {}
    /\ \E i \in Notices : /\ i > EpochStart /\ Live(i)
                          /\ ledger[i].run = r /\ ledger[i].blocker = b

(* Notify, up to the enqueue: run r is not ready because of b.              *)
Plan(r, b) ==
    /\ planned = None /\ Len(ledger) < MaxRows
    /\ ~AlreadyTold(r, b)
    /\ planned' = Delivery(r, b)
    /\ UNCHANGED <<ledger, sender, finder, shown, overtaken, crashes>>

(* A retirement that ordinary coalescing leaves alone when row i is new.    *)
Preserved(i) ==
    IsDelete(i) /\
    \/ ledger[i].failures > 0
    \/ \E j \in Notices : j < i /\ In(j, {"sending", "uncertain"})
    \/ \E j \in Notices : j > i /\ Live(j)

(* EnqueueSlackDelivery, of an id made from run, blocker and epoch.         *)
Admit ==
    /\ planned # None /\ Len(ledger) < MaxRows
    /\ planned' = None
    /\ ledger' = IF \E i \in Notices : /\ ledger[i].run = planned.run
                                       /\ ledger[i].blocker = planned.blocker
                                       /\ ledger[i].epoch = planned.epoch
                 THEN ledger
                 ELSE Append([i \in Rows |->
                                IF Queued(i) /\ ~Preserved(i)
                                THEN [ledger[i] EXCEPT !.state = "superseded"]
                                ELSE ledger[i]], planned)
    /\ UNCHANGED <<sender, finder, shown, overtaken, crashes>>

(* RetireTx: nothing to remove, already being removed, or a delete row.     *)
Retire ==
    LET blocker == Latest({i \in Notices :
                     Live(i) /\ i > Latest({j \in Deletes : In(j, {"sent"})})})
    IN IF blocker = 0 \/ \E i \in Retiring : i > blocker THEN UNCHANGED ledger
       ELSE /\ Len(ledger) < MaxRows
            /\ ledger' = Append([i \in Rows |->
                            IF Queued(i) /\ ~IsDelete(i)
                            THEN [ledger[i] EXCEPT !.state = "superseded"] ELSE ledger[i]],
                   [op |-> "delete", run |-> ledger[blocker].run, blocker |-> None,
                    epoch |-> Cardinality(Deletes) + 1, state |-> "pending",
                    failures |-> 0, target |-> 0])

(* A model turn is accepted.  The worker is done with the notice by then.   *)
Accept ==
    /\ planned = None
    /\ Retire
    /\ UNCHANGED <<planned, sender, finder, shown, overtaken, crashes>>

(* A person dismisses notice m.  One the ledger knows as sent is retired;   *)
(* any other is deleted from Slack on the spot.                             *)
Dismiss(m) ==
    /\ m \in DOMAIN shown
    /\ IF \E i \in Notices : Sent(i) /\ ledger[i].target = m
       THEN Retire /\ UNCHANGED shown
       ELSE /\ shown' = [n \in DOMAIN shown \ {m} |-> shown[n]]
            /\ UNCHANGED ledger
    /\ UNCHANGED <<planned, sender, finder, overtaken, crashes>>

(* A person writes again in the conversation of run r's input.              *)
Overtake(r) ==
    /\ overtaken' = overtaken \cup {r}
    /\ UNCHANGED <<ledger, planned, sender, finder, shown, crashes>>
-----------------------------------------------------------------------------
(* LeaseSlackDelivery.  A delete waits for every older notice and delete, a *)
(* notice for every older delete.                                           *)
Fenced == [i \in Rows |-> IF Queued(i) /\ ledger[i].run \in overtaken
                          THEN [ledger[i] EXCEPT !.state = "superseded"] ELSE ledger[i]]

(* Mutated: a delete does not wait for a notice whose outcome is unknown. *)
BlockedByQueued(i, j) ==
    j < i /\ IF IsDelete(i) /\ ~IsDelete(j)
             THEN Fenced[j].state \in {"pending", "retry"}
             ELSE IsDelete(j) /\ Fenced[j].state \in {"pending", "retry", "sending"}

(* Mutated: a notice does not wait for older deletes. *)
BlockedDeletesOnly(i, j) ==
    j < i /\ IsDelete(i) /\ IF IsDelete(j)
                            THEN Fenced[j].state \in {"pending", "retry", "sending"}
                            ELSE Fenced[j].state \in {"pending", "retry", "sending", "uncertain"}

(* Mutated: a delete waits for notices that were given up, too. *)
BlockedByFailed(i, j) ==
    j < i /\ IF IsDelete(i) /\ ~IsDelete(j)
             THEN Fenced[j].state \in {"pending", "retry", "sending", "uncertain", "failed"}
             ELSE IsDelete(j) /\ Fenced[j].state \in {"pending", "retry", "sending"}

Blocked(i, j) ==
    j < i /\ IF IsDelete(i) /\ ~IsDelete(j)
             THEN Fenced[j].state \in {"pending", "retry", "sending", "uncertain"}
             ELSE IsDelete(j) /\ Fenced[j].state \in {"pending", "retry", "sending"}

Urgency(i) == CASE ledger[i].op = "delete" -> 1 [] ledger[i].op = "update" -> 3 [] OTHER -> 4

(* backingOff are the rows whose next attempt is not due yet.               *)
Lease(backingOff) ==
    /\ sender = Idle
    /\ LET leasable == {i \in Rows \ backingOff :
                          /\ Fenced[i].state \in {"pending", "retry"}
                          /\ \A j \in Rows : ~Blocked(i, j)}
           first == {i \in leasable : \A j \in leasable \ {i} :
                       Urgency(i) < Urgency(j) \/ (Urgency(i) = Urgency(j) /\ i < j)}
       IN \/ /\ first = {}
             /\ ledger' = Fenced
             /\ UNCHANGED sender
          \/ \E i \in first :
               /\ ledger' = [Fenced EXCEPT ![i].state = "sending"]
               /\ sender' = [phase |-> IF IsDelete(i) THEN "leased" ELSE "calling", row |-> i]
    /\ UNCHANGED <<planned, finder, shown, overtaken, crashes>>

(* FinishSlackDelivery.  A delete closes its epoch: the notices before it   *)
(* are history.                                                             *)
Finished(i, from) ==
    IF ledger[i].state # from THEN ledger
    ELSE [j \in Rows |->
            CASE j = i -> [ledger[i] EXCEPT !.state = "sent",
                                            !.target = IF ledger[i].op = "post" THEN i ELSE @]
              [] IsDelete(i) /\ j < i /\ ~IsDelete(j) /\ In(j, {"sent", "failed"}) ->
                   [ledger[j] EXCEPT !.state = "superseded"]
              [] OTHER -> ledger[j]]

(* ResolveDelete: the latest notice before the delete that reached Slack.   *)
Resolve ==
    /\ sender.phase = "leased"
    /\ LET i == sender.row
           known == Latest({j \in Notices : j < i /\ Sent(j)})
       IN IF known = 0
          THEN /\ ledger' = Finished(i, "sending")
               /\ sender' = Idle
          ELSE /\ ledger' = [ledger EXCEPT ![i].target = ledger[known].target]
               /\ sender' = [sender EXCEPT !.phase = "calling"]
    /\ UNCHANGED <<planned, finder, shown, overtaken, crashes>>

(* The Slack call.  Deleting what is gone succeeds, updating it does not.   *)
Call(accepted, answer) ==
    /\ sender.phase = "calling"
    /\ answer = "ok" => accepted
    /\ LET i == sender.row
           m == IF ledger[i].op = "post" THEN i ELSE ledger[i].target
       IN /\ accepted /\ ledger[i].op = "update" => m \in DOMAIN shown
          /\ shown' = IF ~accepted THEN shown
                      ELSE IF IsDelete(i) THEN [n \in DOMAIN shown \ {m} |-> shown[n]]
                      ELSE [n \in DOMAIN shown \cup {m} |-> IF n = m THEN i ELSE shown[n]]
          /\ sender' = [phase |-> answer, row |-> i]
    /\ UNCHANGED <<ledger, planned, finder, overtaken, crashes>>

NewerRetirement(i) ==
    \E j \in Deletes : j > i /\ In(j, {"pending", "retry", "sending", "sent"})

Put(i, state) == [ledger EXCEPT ![i].state = state,
                                ![i].failures = IF @ < MaxAttempts THEN @ + 1 ELSE @]

(* Mutated: every failed write may have been carried out. *)
RetriedUncertain(i) ==
    Put(i, IF ~IsDelete(i) /\ NewerRetirement(i) /\ ledger[i].op # "post" THEN "superseded"
           ELSE "uncertain")

(* RetrySlackDelivery after a failed call.                                  *)
Retried(i) ==
    Put(i, IF ledger[i].op = "post" THEN "uncertain"
           ELSE IF ~IsDelete(i) /\ NewerRetirement(i) THEN "superseded"
           ELSE IF ledger[i].failures >= MaxAttempts THEN "failed" ELSE "retry")

Record ==
    /\ sender.phase \in {"ok", "error"}
    /\ ledger' = IF sender.phase = "ok" THEN Finished(sender.row, "sending")
                 ELSE Retried(sender.row)
    /\ sender' = Idle
    /\ UNCHANGED <<planned, finder, shown, overtaken, crashes>>
-----------------------------------------------------------------------------
(* reconcileSlackDelivery: an uncertain post is looked up, and sent again   *)
(* only if it is not there and nothing has retired it.                      *)
Search(outcome) ==
    /\ finder = Idle
    /\ \E i \in {j \in Rows : In(j, {"uncertain"})} :
         /\ outcome = "found" => i \in DOMAIN shown
         /\ outcome = "absent" => i \notin DOMAIN shown
         /\ finder' = [phase |-> outcome, row |-> i]
    /\ UNCHANGED <<ledger, planned, sender, shown, overtaken, crashes>>

(* Mutated: a post that is not there is sent again, retired or not. *)
ReconciledRegardless(i, outcome) ==
    IF outcome = "found" THEN Finished(i, "uncertain")
    ELSE IF outcome = "unknown" THEN Put(i, "uncertain")
    ELSE IF ledger[i].failures >= MaxAttempts THEN Put(i, "failed") ELSE Put(i, "retry")

Reconciled(i, outcome) ==
    IF outcome = "found" THEN Finished(i, "uncertain")
    ELSE IF outcome = "unknown" THEN Put(i, "uncertain")
    ELSE IF NewerRetirement(i) THEN Put(i, "superseded")
    ELSE IF ledger[i].failures >= MaxAttempts THEN Put(i, "failed") ELSE Put(i, "retry")

Settle ==
    /\ finder # Idle
    /\ ledger' = Reconciled(finder.row, finder.phase)
    /\ finder' = Idle
    /\ UNCHANGED <<planned, sender, shown, overtaken, crashes>>

(* RecoverInterrupted.                                                      *)
Restart ==
    /\ crashes < MaxCrashes
    /\ crashes' = crashes + 1
    /\ ledger' = [i \in Rows |->
          IF In(i, {"sending"})
          THEN [ledger[i] EXCEPT !.state = IF ledger[i].op = "post" THEN "uncertain" ELSE "retry"]
          ELSE ledger[i]]
    /\ planned' = None
    /\ sender' = Idle
    /\ finder' = Idle
    /\ UNCHANGED <<shown, overtaken>>
-----------------------------------------------------------------------------
Init ==
    /\ ledger = <<>>
    /\ planned = None
    /\ sender = Idle
    /\ finder = Idle
    /\ shown = << >>
    /\ overtaken = {}
    /\ crashes = 0

Send == \/ \E backingOff \in SUBSET {i \in Rows : In(i, {"retry"})} : Lease(backingOff)
        \/ Resolve
        \/ \E accepted \in BOOLEAN, answer \in {"ok", "error"} : Call(accepted, answer)
        \/ Record

Reconcile == (\E outcome \in {"found", "absent", "unknown"} : Search(outcome)) \/ Settle

Next ==
    \/ \E r \in Runs : Overtake(r) \/ \E b \in Blockers : Plan(r, b)
    \/ Admit
    \/ Accept
    \/ \E m \in DOMAIN shown : Dismiss(m)
    \/ Send
    \/ Reconcile
    \/ Restart

Spec == Init /\ [][Next]_vars
-----------------------------------------------------------------------------
TypeOK ==
    /\ ledger \in Seq(Row) /\ Len(ledger) <= MaxRows
    /\ \A i \in Rows : In(i, {"uncertain"}) => ledger[i].op = "post"
    /\ planned \in Row \cup {None}
    /\ sender \in [phase : {"idle", "leased", "calling", "ok", "error"}, row : Rows \cup {0}]
    /\ finder \in [phase : {"idle", "found", "absent", "unknown"}, row : Rows \cup {0}]
    /\ \A m \in DOMAIN shown : {m, shown[m]} \subseteq Notices
    /\ overtaken \subseteq Runs
    /\ crashes \in 0..MaxCrashes

(* A retirement that finds nothing to remove leaves nothing behind: it is   *)
(* carried out without a Slack call only if no notice of its epoch ever     *)
(* reached Slack, whatever was in flight, uncertain or interrupted.         *)
NothingLeftBehind ==
    [][\A i \in Deletes :
         ~In(i, {"sent"}) /\ ledger'[i].state = "sent" /\ ledger'[i].target = 0 =>
            \A m \in DOMAIN shown :
               m > i \/ \E k \in Deletes : k > m /\ k < i /\ In(k, {"sent"})]_vars

(* A blocker that recurs is not posted while an older retirement is still   *)
(* to be carried out, so the retirement cannot take it away.                *)
RecurrenceWaits ==
    [][\A m \in DOMAIN shown' \ DOMAIN shown : \A i \in Retiring : i > m]_vars

(* A post that a later retirement covers is not sent again, once its        *)
(* outcome turns out to be that it never arrived.                           *)
RetiredNotReposted ==
    [][\A i \in Notices :
         ledger[i].op = "post" /\ ledger'[i].state = "sending" =>
            In(i, {"sending"}) \/ ~NewerRetirement(i)]_vars
-----------------------------------------------------------------------------
Fairness ==
    /\ SF_vars(Lease({}))
    /\ WF_vars(Resolve)
    /\ WF_vars(\E accepted \in BOOLEAN, answer \in {"ok", "error"} : Call(accepted, answer))
    /\ WF_vars(Record)
    /\ SF_vars(Search("found") \/ Search("absent"))
    /\ WF_vars(Settle)

FairSpec == Spec /\ Fairness

(* The ledger runs out of retirements to carry out: no notice and no other  *)
(* retirement blocks one for ever.                                          *)
RetirementsSettle == Retiring # {} ~> Retiring = {}
=============================================================================
