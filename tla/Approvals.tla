------------------------------- MODULE Approvals -------------------------------
(* Emisar approvals and remediation grants: internal/service/emisar_approval.go, *)
(* remediation_grant.go, internal/store/approvalstore, grantstore and            *)
(* internal/remediation.  The finalizer of a run that asked for a governed       *)
(* action records the approval, posts its card and binds the two; a monitor      *)
(* follows the action's run in Emisar, then resolves the waiting episode, queues *)
(* the turn that verifies the effect, updates the card, and lets the grant for   *)
(* the action fall or be offered a rung.  An operator's press climbs it.         *)
(* One worker monitors an approval, several work on different approvals.         *)
EXTENDS Naturals, FiniteSets

CONSTANTS
    Approvals,   \* requests for the same action
    Rooms,       \* those made in an incident's room; the others in a thread
    Required,    \* Policy.RequiredSuccesses
    None,
    Plans        \* bound: how far each request is at first, and how many presses
                 \* on cards that offer a rung, and restarts and put-offs, follow

ASSUME ApprovalAssumption ==
    /\ IsFiniteSet(Approvals) /\ None \notin Approvals /\ Rooms \subseteq Approvals
    /\ Required \in Nat \ {0}
    /\ Plans \subseteq [stages : [Approvals -> {"asked", "waiting", "settled"}],
                       presses : Nat, troubles : Nat]

VARIABLES
    emisar,   \* the action's run in Emisar
    row,      \* emisar_approvals: [status, bound, ts, queued], bound for delivery_id
    run,      \* the run that asks: [state, at], at being how far its finalizer is
    episode,  \* its episode: [state, waited], waited: it took the waiting phase
    card,     \* the card: [state, tells], the status it was last written to show
    grace,    \* emisarApprovalCardGrace is over
    work,     \* the approval has a work item
    monitor,  \* its handler: [at, ts, rung], what it has read of the row and the grant
    checking, \* the run that verifies the effect
    grant,    \* the rung of the action's grant in the rooms' trigger class
    earlier,  \* successes that were verified before
    offers,   \* the rungs that cards in Slack offer
    press,    \* the confirmation being handled: [rung, was], or None
    stale,    \* who has read a grant that another wrote since: demotions, and None for the press
    left      \* bound: presses, and troubles, to come

asker == <<run, episode>>
authority == <<grant, earlier, offers, press, stale>>
vars == <<emisar, row, asker, card, grace, work, monitor, checking, authority, left>>
-----------------------------------------------------------------------------
\* The ladder: observe, propose and one_click, which is its Ceiling.
Rung == 0..2
Ceiling == 2

Terminal == {"success", "failed", "denied"}
Status == {"pending_approval", "running"} \cup Terminal
Step == {"record", "post", "bind", "schedule", "phase", "finish"}

Spend(what) == left[what] > 0 /\ left' = [left EXCEPT ![what] = @ - 1]

Idle == [at |-> "idle", ts |-> FALSE, rung |-> 0]

\* A request is new, or its card and its run wait for Emisar, or it was denied
\* and is over.  Earlier work may have earned a rung, and left a card for it.
Asked ==
    [emisar |-> "pending_approval",
     row |-> [status |-> "none", bound |-> FALSE, ts |-> FALSE, queued |-> FALSE],
     run |-> [state |-> "applying", at |-> "record"],
     episode |-> [state |-> "active", waited |-> FALSE],
     card |-> [state |-> "none", tells |-> "none"], work |-> FALSE, checking |-> "none"]

Waiting(status, state, over) ==
    [emisar |-> status, row |-> [status |-> status, bound |-> TRUE, ts |-> TRUE, queued |-> over],
     run |-> [state |-> "completed", at |-> "finish"], episode |-> [state |-> state, waited |-> TRUE],
     card |-> [state |-> "sent", tells |-> status], work |-> TRUE,
     checking |-> IF over THEN "unverified" ELSE "none"]

Begun(stage) ==
    CASE stage = "asked" -> Asked
      [] stage = "waiting" -> Waiting("pending_approval", "waiting_approval", FALSE)
      [] stage = "settled" -> Waiting("denied", "completed", TRUE)

Init ==
    /\ \E plan \in Plans : LET begun == [a \in Approvals |-> Begun(plan.stages[a])] IN
          /\ emisar = [a \in Approvals |-> begun[a].emisar]
          /\ row = [a \in Approvals |-> begun[a].row]
          /\ run = [a \in Approvals |-> begun[a].run]
          /\ episode = [a \in Approvals |-> begun[a].episode]
          /\ card = [a \in Approvals |-> begun[a].card]
          /\ work = [a \in Approvals |-> begun[a].work]
          /\ checking = [a \in Approvals |-> begun[a].checking]
          /\ left = [presses |-> plan.presses, troubles |-> plan.troubles]
    /\ grace = [a \in Approvals |-> FALSE]
    /\ monitor = [a \in Approvals |-> Idle]
    /\ \/ earlier = Required - 1 /\ grant = 0 /\ offers = {}
       \/ earlier = Required /\ grant \in Rung /\ offers \in SUBSET {grant + 1} /\ offers \subseteq Rung
    /\ press = None /\ stale = {}
-----------------------------------------------------------------------------
(* The finalizer of the run that asks.  Each step is done again when the        *)
(* finalization is; the row, the card and the phase keep what they have.        *)
At(a, step) == run[a] = [state |-> "finalizing", at |-> step]
Goes(a, step) == run' = [run EXCEPT ![a].at = step]

Lease(a) ==
    /\ run[a].state = "applying"
    /\ run' = [run EXCEPT ![a] = [state |-> "finalizing", at |-> "record"]]
    /\ UNCHANGED <<emisar, row, episode, card, grace, work, monitor, checking, authority, left>>

Record(a) ==
    /\ At(a, "record") /\ Goes(a, "post")
    /\ row' = [row EXCEPT ![a].status = IF @ = "none" THEN "pending_approval" ELSE @]
    /\ UNCHANGED <<emisar, episode, card, grace, work, monitor, checking, authority, left>>

Post(a) ==
    /\ At(a, "post") /\ Goes(a, "bind")
    /\ card' = [card EXCEPT ![a] = IF @.state = "none"
                                   THEN [state |-> "pending", tells |-> row[a].status] ELSE @]
    /\ UNCHANGED <<emisar, row, episode, grace, work, monitor, checking, authority, left>>

\* Mutated: binding leaves it to the delivery to say where the card is.
BoundOnly(a) == [row[a] EXCEPT !.bound = TRUE]

\* BindDelivery also takes the place of a card that was posted already.
Bound(a) == [row[a] EXCEPT !.bound = TRUE, !.ts = @ \/ card[a].state = "sent"]

BindDelivery(a) ==
    /\ At(a, "bind") /\ Goes(a, "schedule")
    /\ row' = [row EXCEPT ![a] = Bound(a)]
    /\ UNCHANGED <<emisar, episode, card, grace, work, monitor, checking, authority, left>>

Schedule(a) ==
    /\ At(a, "schedule") /\ Goes(a, "phase")
    /\ work' = [work EXCEPT ![a] = TRUE]
    /\ UNCHANGED <<emisar, row, episode, card, grace, monitor, checking, authority, left>>

\* SetWorkEpisodePhase: the event is keyed by the run, so it reduces once.
Phase(a) ==
    /\ At(a, "phase") /\ Goes(a, "finish")
    /\ episode' = [episode EXCEPT ![a] = IF @.waited THEN @
                                         ELSE [state |-> "waiting_approval", waited |-> TRUE]]
    /\ UNCHANGED <<emisar, row, card, grace, work, monitor, checking, authority, left>>

\* FinishAgentRun closes an episode that is at work and has no newer attempt.
Newest(a) == a \in Rooms \/ checking[a] = "none"
Finish(a) ==
    /\ At(a, "finish")
    /\ run' = [run EXCEPT ![a].state = "completed"]
    /\ episode' = [episode EXCEPT ![a].state =
                      IF @ \in {"active", "verifying"} /\ Newest(a) THEN "completed" ELSE @]
    /\ UNCHANGED <<emisar, row, card, grace, work, monitor, checking, authority, left>>

\* A step fails, and the finalization is put off.
PutOff(a) ==
    /\ run[a].state = "finalizing"
    /\ run' = [run EXCEPT ![a].state = "applying"] /\ Spend("troubles")
    /\ UNCHANGED <<emisar, row, episode, card, grace, work, monitor, checking, authority>>
-----------------------------------------------------------------------------
(* Slack takes the card, or never does; Emisar decides and runs the action.     *)
Send(a) ==
    /\ card[a].state = "pending"
    /\ card' = [card EXCEPT ![a].state = "sent"]
    /\ row' = [row EXCEPT ![a].ts = row[a].bound]
    /\ UNCHANGED <<emisar, asker, grace, work, monitor, checking, authority, left>>

Lose(a) ==
    /\ card[a].state = "pending"
    /\ card' = [card EXCEPT ![a].state = "lost"]
    /\ UNCHANGED <<emisar, row, asker, grace, work, monitor, checking, authority, left>>

Decide(a) ==
    /\ emisar[a] \notin Terminal
    /\ \E status \in IF emisar[a] = "running" THEN {"success", "failed"} ELSE {"running", "denied"} :
          emisar' = [emisar EXCEPT ![a] = status]
    /\ UNCHANGED <<row, asker, card, grace, work, monitor, checking, authority, left>>
-----------------------------------------------------------------------------
(* The monitor: processEmisarApproval and finishTerminalEmisarApproval.  A      *)
(* status check that fails is made again later and changes nothing else.        *)
Turn(a, step) == monitor[a].at = step
Moves(a, step) == monitor' = [monitor EXCEPT ![a].at = step]

\* WaitForRun and Advance, which keeps a terminal status.
Seen(a) == IF row[a].status \in Terminal THEN row[a].status ELSE emisar[a]
Then(a) == IF Seen(a) \in Terminal THEN "end"
           ELSE IF Seen(a) # row[a].status /\ row[a].ts THEN "tell" ELSE "idle"
Poll(a) ==
    /\ work[a] /\ Turn(a, "idle") /\ ~row[a].queued
    /\ row' = [row EXCEPT ![a].status = Seen(a)]
    /\ monitor' = [monitor EXCEPT ![a] = [at |-> Then(a), ts |-> row[a].ts, rung |-> 0]]
    /\ UNCHANGED <<emisar, asker, card, grace, work, checking, authority, left>>

TellProgress(a) ==
    /\ Turn(a, "tell") /\ Moves(a, "idle")
    /\ card' = [card EXCEPT ![a].tells = row[a].status]
    /\ UNCHANGED <<emisar, row, asker, grace, work, checking, authority, left>>

\* Mutated: the outcome waits for its card however long that takes.
ReadyWithCard(a) == monitor[a].ts

Ready(a) == monitor[a].ts \/ grace[a]

AwaitCard(a) ==
    /\ Turn(a, "end") /\ ~Ready(a) /\ Moves(a, "idle")
    /\ UNCHANGED <<emisar, row, asker, card, grace, work, checking, authority, left>>

GraceEnds(a) ==
    /\ row[a].status \in Terminal /\ ~grace[a]
    /\ grace' = [grace EXCEPT ![a] = TRUE]
    /\ UNCHANGED <<emisar, row, asker, card, work, monitor, checking, authority, left>>

\* ResolveWaitingApprovalEpisodes.
Resolve(a) ==
    /\ Turn(a, "end") /\ Ready(a) /\ Moves(a, "queue")
    /\ episode' = [episode EXCEPT ![a].state = IF @ = "waiting_approval" THEN "verifying" ELSE @]
    /\ UNCHANGED <<emisar, row, run, card, grace, work, checking, authority, left>>

\* QueueEpisodeAttempt for a thread, QueueAgentRun for a room: the work item
\* is retried while the result that asked is finalizing, and whenever the
\* thread's episode is closed.
Conflicts(a) ==
    \/ run[a].state = "finalizing"
    \/ a \notin Rooms /\ episode[a].state = "completed"

Refused(a) ==
    /\ Turn(a, "queue") /\ Conflicts(a) /\ Moves(a, "idle")
    /\ UNCHANGED <<emisar, row, asker, card, grace, work, checking, authority, left>>

QueueContinuation(a) ==
    /\ Turn(a, "queue") /\ ~Conflicts(a) /\ Moves(a, "update")
    /\ checking' = [checking EXCEPT ![a] = IF @ = "none" THEN "queued" ELSE @]
    /\ episode' = [episode EXCEPT ![a].state =
                      IF a \notin Rooms /\ checking[a] = "none" THEN "active" ELSE @]
    /\ UNCHANGED <<emisar, row, run, card, grace, work, authority, left>>

UpdateCard(a) ==
    /\ Turn(a, "update") /\ Moves(a, "mark")
    /\ card' = [card EXCEPT ![a].tells = IF monitor[a].ts THEN row[a].status ELSE @]
    /\ UNCHANGED <<emisar, row, asker, grace, work, checking, authority, left>>

MarkContinuationQueued(a) ==
    /\ Turn(a, "mark") /\ Moves(a, "judge")
    /\ row' = [row EXCEPT ![a].queued = TRUE]
    /\ UNCHANGED <<emisar, asker, card, grace, work, checking, authority, left>>
-----------------------------------------------------------------------------
(* The ladder.  DemotionForRunStatus: a refusal is no evidence of anything.     *)
\* Mutated: whatever is not a success takes a rung.
FailsUnlessSuccess(status) == status # "success"

Fails(status) == status = "failed"

\* Grants.VerifiedSuccesses: episodes that verified a run which succeeded.
Count == earlier + Cardinality({a \in Rooms : checking[a] = "verified" /\ row[a].status = "success"})

\* Mutated: any higher rung will do.
EarnedAny(rung) == rung > grant /\ rung \in Rung /\ Count >= Required

\* EvaluateOffer: exactly one rung above the grant, never above the ceiling.
Earned(rung) == rung = grant + 1 /\ rung \in Rung /\ Count >= Required

\* offerGrantPromotion: a card when the next rung is earned, nothing otherwise.
Offered(a) == IF a \in Rooms THEN {rung \in {grant + 1} : Earned(rung)} ELSE {}

\* demoteGrantsForRun reads the grants of the action, and writes them after.
DemoteRead(a) ==
    /\ Turn(a, "judge") /\ Fails(row[a].status)
    /\ monitor' = [monitor EXCEPT ![a] =
                      IF grant = 0 THEN Idle ELSE [at |-> "demote", ts |-> FALSE, rung |-> grant]]
    /\ UNCHANGED <<emisar, row, asker, card, grace, work, checking, authority, left>>

\* A demotion and a press read the grant and write it in two transactions, with
\* nothing that notices a write between them.
Readers == {b \in Approvals : Turn(b, "demote")} \cup IF press = None THEN {} ELSE {None}
Overtaken(writer) == stale' = (stale \cup Readers) \ {writer}

DemoteWrite(a) ==
    /\ Turn(a, "demote") /\ Overtaken(a)
    /\ grant' = monitor[a].rung - 1
    /\ monitor' = [monitor EXCEPT ![a] = Idle]
    /\ UNCHANGED <<emisar, row, asker, card, grace, work, checking, earlier, offers, press, left>>

Offer(a) ==
    /\ Turn(a, "judge") /\ ~Fails(row[a].status)
    /\ offers' = IF row[a].status = "success" THEN offers \cup Offered(a) ELSE offers
    /\ monitor' = [monitor EXCEPT ![a] = Idle]
    /\ UNCHANGED <<emisar, row, asker, card, grace, work, checking, grant, earlier, press, stale, left>>

(* The turn that verifies the effect.  It may propose the rung itself, and ends *)
(* with an outcome; a thread's closes the episode, unless it waits again.       *)
Checks(a) == checking[a] = "queued" /\ run[a].state = "completed"

Propose(a) ==
    /\ Checks(a) /\ ~Offered(a) \subseteq offers
    /\ offers' = offers \cup Offered(a)
    /\ UNCHANGED <<emisar, row, asker, card, grace, work, monitor, checking, grant, earlier, press, stale, left>>

Verify(a) ==
    /\ Checks(a)
    /\ \E outcome \in {"verified", "unverified"} : checking' = [checking EXCEPT ![a] = outcome]
    /\ episode' = [episode EXCEPT ![a].state =
                      IF a \notin Rooms /\ @ \in {"active", "verifying"} THEN "completed" ELSE @]
    /\ UNCHANGED <<emisar, row, run, card, grace, work, monitor, authority, left>>

\* handleConfirmGrantPromotion grades the rung again when it is pressed, and
\* Grants.Confirm writes it.
Press(rung) ==
    /\ rung \in offers /\ press = None /\ Earned(rung)
    /\ press' = [rung |-> rung, was |-> grant] /\ Spend("presses")
    /\ UNCHANGED <<emisar, row, asker, card, grace, work, monitor, checking, grant, earlier, offers, stale>>

Confirm ==
    /\ press # None /\ Overtaken(None)
    /\ grant' = press.rung /\ press' = None
    /\ UNCHANGED <<emisar, row, asker, card, grace, work, monitor, checking, earlier, offers, left>>

\* RecoverInterrupted and seedEmisarApprovalWork.
Restart ==
    /\ Spend("troubles")
    /\ run' = [a \in Approvals |-> IF run[a].state = "finalizing"
                                   THEN [run[a] EXCEPT !.state = "applying"] ELSE run[a]]
    /\ work' = [a \in Approvals |-> work[a] \/ (row[a].status # "none" /\ ~row[a].queued)]
    /\ monitor' = [a \in Approvals |-> Idle]
    /\ press' = None /\ stale' = {}
    /\ UNCHANGED <<emisar, row, episode, card, grace, checking, grant, earlier, offers>>
-----------------------------------------------------------------------------
Finalize(a) ==
    \/ Lease(a) \/ Record(a) \/ Post(a) \/ BindDelivery(a)
    \/ Schedule(a) \/ Phase(a) \/ Finish(a)

Conclude(a) ==
    \/ AwaitCard(a) \/ Resolve(a) \/ Refused(a) \/ QueueContinuation(a)
    \/ UpdateCard(a) \/ MarkContinuationQueued(a)

Monitor(a) ==
    \/ Poll(a) \/ TellProgress(a) \/ Conclude(a)
    \/ DemoteRead(a) \/ DemoteWrite(a) \/ Offer(a)

Next ==
    \/ \E a \in Approvals :
          \/ Finalize(a) \/ PutOff(a) \/ Send(a) \/ Lose(a) \/ Decide(a)
          \/ Monitor(a) \/ GraceEnds(a) \/ Propose(a) \/ Verify(a)
    \/ \E rung \in Rung : Press(rung)
    \/ Confirm
    \/ Restart

\* Workers take what is due, the finalizer goes on, and two minutes pass; Slack,
\* Emisar, operators and the agent promise nothing.
Fairness ==
    \A a \in Approvals : WF_vars(Finalize(a)) /\ WF_vars(Monitor(a)) /\ WF_vars(GraceEnds(a))

Spec == Init /\ [][Next]_vars /\ Fairness
-----------------------------------------------------------------------------
Row == [status : Status \cup {"none"}, bound : BOOLEAN, ts : BOOLEAN, queued : BOOLEAN]
Asking == [state : {"applying", "finalizing", "completed"}, at : Step]
Episode == [state : {"active", "waiting_approval", "verifying", "completed"}, waited : BOOLEAN]
Card == [state : {"none", "pending", "sent", "lost"}, tells : Status \cup {"none"}]
Handler == [at : {"idle", "tell", "end", "queue", "update", "mark", "judge", "demote"},
            ts : BOOLEAN, rung : Rung]

TypeOK ==
    /\ emisar \in [Approvals -> Status]
    /\ row \in [Approvals -> Row]
    /\ run \in [Approvals -> Asking] /\ episode \in [Approvals -> Episode]
    /\ card \in [Approvals -> Card]
    /\ grace \in [Approvals -> BOOLEAN] /\ work \in [Approvals -> BOOLEAN]
    /\ monitor \in [Approvals -> Handler]
    /\ checking \in [Approvals -> {"none", "queued", "verified", "unverified"}]
    /\ grant \in Rung /\ earlier \in {Required - 1, Required} /\ offers \subseteq Rung
    /\ press = None \/ press \in [rung : Rung, was : Rung]
    /\ stale \subseteq Approvals \cup {None}
    /\ left \in [presses : Nat, troubles : Nat]

\* A card that reached Slack can be found however its post and its binding fell
\* (approvalstore.go:154, delivery.go:834), and when the outcome is handed over
\* it says how the action ended, unless it came after the grace (emisar_approval.go:155).
CardTold ==
    /\ TypeOK
    /\ \A a \in Approvals :
          /\ row[a].bound /\ card[a].state = "sent" => row[a].ts
          /\ row[a].queued /\ row[a].ts => (card[a].tells = row[a].status \/ grace[a])

\* Runs that failed, and whose outcome was handed over: each takes one rung.
Failed == {a \in Approvals : row[a].queued /\ emisar[a] = "failed"}
Takes(a) == Turn(a, "demote") /\ grant' = monitor[a].rung - 1

\* An operator's press gives one rung more than the grant held when it was
\* graded, and it still holds that unless another wrote in between.
Climbs ==
    /\ press # None /\ press' = None
    /\ grant' = press.rung /\ press.rung = press.was + 1 /\ Count >= Required
    /\ None \in stale \/ grant = press.was

\* Authority rises by an operator's press, one rung at a time and on verified
\* successes (remediation_grant.go:227), and falls by runs of the action that failed,
\* one rung each; a refusal takes nothing away (runstatus.go:3).  Only a writer
\* whose reading was overtaken does otherwise: a press graded before a demotion
\* was written climbs as if there had been none, and a demotion read before
\* others gives back what they took (grantstore.go:179).  The successes are all
\* that ever were: a rung that was lost is earned again by those it was earned
\* with, from the same card.
RungsEarned ==
    [][ /\ grant' > grant => Climbs \/ \E a \in Failed \cap stale : Takes(a)
        /\ grant' < grant => \E a \in Failed : Takes(a) /\ (a \in stale \/ grant = monitor[a].rung) ]_vars

\* Whoever approved an action hears how it ended: once it has ended and its card
\* is bound, the turn that verifies it is queued, with the card or without it
\* (emisar_approval.go:155), unless the thread's work was closed meanwhile.
Heard ==
    \A a \in Approvals :
        emisar[a] \in Terminal /\ row[a].bound ~>
            row[a].queued \/ (a \notin Rooms /\ episode[a].state = "completed")
=============================================================================
