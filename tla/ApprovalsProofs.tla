--------------------------- MODULE ApprovalsProofs ---------------------------
(***************************************************************************)
(* Proofs about Approvals for any requests, rooms, plans and number of     *)
(* required successes: cards can be found and tell how the action ended,   *)
(* and authority rises one rung at a time, on evidence and by a press, and *)
(* falls only by failed runs.                                              *)
(***************************************************************************)
EXTENDS Approvals, FiniteSetTheorems, TLAPS

(* The card's place, the status that Emisar gave for good, and what the     *)
(* outcome's handing over found.                                            *)
Shown(a) == row[a].ts /\ card[a].tells = row[a].status

RowRight(a) ==
    /\ row[a].ts => card[a].state = "sent"
    /\ row[a].bound /\ card[a].state = "sent" => row[a].ts
    /\ row[a].status \in Terminal => emisar[a] = row[a].status
    /\ row[a].queued => row[a].status \in Terminal /\ (Shown(a) \/ grace[a])

(* What the monitor has read of the row holds of it still, ...              *)
MonitorRight(a) ==
    /\ monitor[a].ts => row[a].ts
    /\ monitor[a].at \in {"end", "queue", "update", "mark"} => row[a].status \in Terminal
    /\ monitor[a].at \in {"queue", "update", "mark"} => monitor[a].ts \/ grace[a]
    /\ monitor[a].at = "mark" => Shown(a) \/ grace[a]
    /\ monitor[a].at \in {"judge", "demote"} => row[a].queued
    /\ monitor[a].at = "demote" => row[a].status = "failed"

(* ... and the grant, unless another has written it since.                  *)
DemotionRight(a) ==
    monitor[a].at = "demote" =>
        /\ monitor[a].rung # 0
        /\ a \in stale \/ grant = monitor[a].rung

(* So it is with the grant that a press was graded on.                      *)
PressRight ==
    press # None =>
        /\ press \in [rung : Rung, was : Rung]
        /\ press.rung = press.was + 1 /\ Count >= Required
        /\ grant <= press.rung
        /\ None \in stale \/ grant = press.was

IInv ==
    /\ TypeOK
    /\ \A a \in Approvals : RowRight(a) /\ MonitorRight(a) /\ DemotionRight(a)
    /\ PressRight
-----------------------------------------------------------------------------
(* What no step takes back: outcomes, their handing over, verified effects. *)
Kept(a) ==
    /\ row[a].queued => row'[a].queued
    /\ row[a].status \in Terminal => row'[a].status = row[a].status
    /\ emisar[a] \in Terminal => emisar'[a] = emisar[a]
    /\ checking[a] = "verified" => checking'[a] = "verified"

(* What the other requests are, a step of one request leaves as it was.     *)
Rights(a) == RowRight(a) /\ MonitorRight(a)
Same(a) == /\ row'[a] = row[a] /\ card'[a] = card[a] /\ emisar'[a] = emisar[a]
           /\ grace'[a] = grace[a] /\ monitor'[a] = monitor[a] /\ checking'[a] = checking[a]

LEMMA SameRights ==
    ASSUME NEW a \in Approvals, Same(a), RowRight(a), MonitorRight(a)
    PROVE  Rights(a)' /\ Kept(a)
BY DEF Same, RowRight, MonitorRight, Shown, Rights, Kept

(* The finalizer.                                                           *)
LEMMA FinalizeStep ==
    ASSUME TypeOK, NEW a \in Approvals, Finalize(a) \/ PutOff(a),
           \A b \in Approvals : Rights(b)
    PROVE  TypeOK' /\ \A b \in Approvals : Rights(b)' /\ Kept(b)
<1>0. /\ run \in [Approvals -> Asking] /\ row \in [Approvals -> Row]
      /\ card \in [Approvals -> Card] /\ episode \in [Approvals -> Episode]
  BY DEF TypeOK
<1>1. CASE Lease(a) \/ Schedule(a) \/ Phase(a) \/ Finish(a) \/ PutOff(a)
  <2>1. run' \in [Approvals -> Asking]
    BY <1>0, <1>1 DEF Lease, Schedule, Phase, Finish, PutOff, Goes, Asking, Step
  <2>2. episode' \in [Approvals -> Episode]
    <3>1. CASE Phase(a)  BY <1>0, <3>1 DEF Phase, Episode
    <3>2. CASE Finish(a)  BY <1>0, <3>2 DEF Finish, Episode
    <3>3. CASE Lease(a) \/ Schedule(a) \/ PutOff(a)
      BY <1>0, <3>3 DEF Lease, Schedule, PutOff, asker
    <3> QED  BY <1>1, <3>1, <3>2, <3>3
  <2>3. work' \in [Approvals -> BOOLEAN] /\ left' \in [presses : Nat, troubles : Nat]
    <3>1. work \in [Approvals -> BOOLEAN] /\ left \in [presses : Nat, troubles : Nat]
      BY DEF TypeOK
    <3>2. Spend("troubles") => left' \in [presses : Nat, troubles : Nat]
      BY <3>1 DEF Spend
    <3>3. work' \in [Approvals -> BOOLEAN] /\ (Spend("troubles") \/ left' = left)
      BY <1>1, <3>1 DEF Lease, Schedule, Phase, Finish, PutOff
    <3> QED  BY <3>1, <3>2, <3>3
  <2>4. UNCHANGED <<emisar, row, card, grace, monitor, checking, grant, earlier, offers, press,
                    stale>>
    BY <1>1 DEF Lease, Schedule, Phase, Finish, PutOff, asker, authority
  <2>5. TypeOK'  BY <2>1, <2>2, <2>3, <2>4 DEF TypeOK
  <2>6. \A b \in Approvals : Same(b)  BY <2>4 DEF Same
  <2> QED  BY <2>5, <2>6, SameRights DEF Rights
<1>2. CASE Record(a)
  <2>1. /\ row' \in [Approvals -> Row]
        /\ row'[a].status = IF row[a].status = "none" THEN "pending_approval" ELSE row[a].status
        /\ row'[a].bound = row[a].bound /\ row'[a].ts = row[a].ts
        /\ row'[a].queued = row[a].queued
        /\ \A b \in Approvals \ {a} : row'[b] = row[b]
    BY <1>0, <1>2 DEF Record, Row, Status
  <2>2. run' \in [Approvals -> Asking]  BY <1>0, <1>2 DEF Record, Goes, Asking, Step
  <2>3. UNCHANGED <<emisar, episode, card, grace, work, monitor, checking,
                    grant, earlier, offers, press, stale, left>>
    BY <1>2 DEF Record, authority
  <2>4. TypeOK'  BY <2>1, <2>2, <2>3 DEF TypeOK
  <2>5. \A b \in Approvals \ {a} : Same(b)  BY <2>1, <2>3 DEF Same
  <2>6. Rights(a)' /\ Kept(a)
    BY <2>1, <2>3 DEF Rights, RowRight, MonitorRight, Shown, Kept, Terminal
  <2> QED  BY <2>4, <2>5, <2>6, SameRights DEF Rights
<1>3. CASE Post(a)
  <2>1. /\ card' \in [Approvals -> Card]
        /\ IF card[a].state = "none" THEN card'[a] = [state |-> "pending", tells |-> row[a].status]
                                     ELSE card'[a] = card[a]
        /\ \A b \in Approvals \ {a} : card'[b] = card[b]
    BY <1>0, <1>3 DEF Post, Card, Row
  <2>2. run' \in [Approvals -> Asking]  BY <1>0, <1>3 DEF Post, Goes, Asking, Step
  <2>3. UNCHANGED <<emisar, row, episode, grace, work, monitor, checking,
                    grant, earlier, offers, press, stale, left>>
    BY <1>3 DEF Post, authority
  <2>4. TypeOK'  BY <2>1, <2>2, <2>3 DEF TypeOK
  <2>5. \A b \in Approvals \ {a} : Same(b)  BY <2>1, <2>3 DEF Same
  <2>6. Rights(a)' /\ Kept(a)
    BY <2>1, <2>3 DEF Rights, RowRight, MonitorRight, Shown, Kept
  <2> QED  BY <2>4, <2>5, <2>6, SameRights DEF Rights
<1>4. CASE BindDelivery(a)
  <2>1. /\ row' \in [Approvals -> Row]
        /\ row'[a].bound /\ row'[a].ts = (row[a].ts \/ card[a].state = "sent")
        /\ row'[a].status = row[a].status /\ row'[a].queued = row[a].queued
        /\ \A b \in Approvals \ {a} : row'[b] = row[b]
    BY <1>0, <1>4 DEF BindDelivery, Bound, Row
  <2>2. run' \in [Approvals -> Asking]  BY <1>0, <1>4 DEF BindDelivery, Goes, Asking, Step
  <2>3. UNCHANGED <<emisar, episode, card, grace, work, monitor, checking,
                    grant, earlier, offers, press, stale, left>>
    BY <1>4 DEF BindDelivery, authority
  <2>4. TypeOK'  BY <2>1, <2>2, <2>3 DEF TypeOK
  <2>5. \A b \in Approvals \ {a} : Same(b)  BY <2>1, <2>3 DEF Same
  <2>6. Rights(a)' /\ Kept(a)
    BY <2>1, <2>3 DEF Rights, RowRight, MonitorRight, Shown, Kept
  <2> QED  BY <2>4, <2>5, <2>6, SameRights DEF Rights
<1> QED  BY <1>1, <1>2, <1>3, <1>4 DEF Finalize

(* Slack, Emisar and the clock.                                             *)
LEMMA OutsideStep ==
    ASSUME TypeOK, NEW a \in Approvals, Send(a) \/ Lose(a) \/ Decide(a) \/ GraceEnds(a),
           \A b \in Approvals : Rights(b)
    PROVE  TypeOK' /\ \A b \in Approvals : Rights(b)' /\ Kept(b)
<1>0. /\ emisar \in [Approvals -> Status] /\ row \in [Approvals -> Row]
      /\ card \in [Approvals -> Card] /\ grace \in [Approvals -> BOOLEAN]
  BY DEF TypeOK
<1>1. CASE Send(a)
  <2>1. /\ card' \in [Approvals -> Card]
        /\ card[a].state = "pending" /\ card'[a].state = "sent" /\ card'[a].tells = card[a].tells
        /\ \A b \in Approvals \ {a} : card'[b] = card[b]
    BY <1>0, <1>1 DEF Send, Card
  <2>2. /\ row' \in [Approvals -> Row]
        /\ row'[a].ts = row[a].bound /\ row'[a].bound = row[a].bound
        /\ row'[a].status = row[a].status /\ row'[a].queued = row[a].queued
        /\ \A b \in Approvals \ {a} : row'[b] = row[b]
    BY <1>0, <1>1 DEF Send, Row
  <2>3. UNCHANGED <<emisar, run, episode, grace, work, monitor, checking,
                    grant, earlier, offers, press, stale, left>>
    BY <1>1 DEF Send, asker, authority
  <2>4. TypeOK'  BY <2>1, <2>2, <2>3 DEF TypeOK
  <2>5. \A b \in Approvals \ {a} : Same(b)  BY <2>1, <2>2, <2>3 DEF Same
  <2>6. Rights(a)' /\ Kept(a)
    BY <2>1, <2>2, <2>3 DEF Rights, RowRight, MonitorRight, Shown, Kept
  <2> QED  BY <2>4, <2>5, <2>6, SameRights DEF Rights
<1>2. CASE Lose(a)
  <2>1. /\ card' \in [Approvals -> Card]
        /\ card[a].state = "pending" /\ card'[a].state = "lost" /\ card'[a].tells = card[a].tells
        /\ \A b \in Approvals \ {a} : card'[b] = card[b]
    BY <1>0, <1>2 DEF Lose, Card
  <2>2. UNCHANGED <<emisar, row, run, episode, grace, work, monitor, checking,
                    grant, earlier, offers, press, stale, left>>
    BY <1>2 DEF Lose, asker, authority
  <2>3. TypeOK'  BY <2>1, <2>2 DEF TypeOK
  <2>4. \A b \in Approvals \ {a} : Same(b)  BY <2>1, <2>2 DEF Same
  <2>5. Rights(a)' /\ Kept(a)
    BY <2>1, <2>2 DEF Rights, RowRight, MonitorRight, Shown, Kept
  <2> QED  BY <2>3, <2>4, <2>5, SameRights DEF Rights
<1>3. CASE Decide(a)
  <2>1. /\ emisar' \in [Approvals -> Status] /\ emisar[a] \notin Terminal
        /\ \A b \in Approvals \ {a} : emisar'[b] = emisar[b]
    BY <1>0, <1>3 DEF Decide, Status, Terminal
  <2>2. UNCHANGED <<row, run, episode, card, grace, work, monitor, checking,
                    grant, earlier, offers, press, stale, left>>
    BY <1>3 DEF Decide, asker, authority
  <2>3. TypeOK'  BY <2>1, <2>2 DEF TypeOK
  <2>4. \A b \in Approvals \ {a} : Same(b)  BY <2>1, <2>2 DEF Same
  <2>5. Rights(a)' /\ Kept(a)
    BY <2>1, <2>2 DEF Rights, RowRight, MonitorRight, Shown, Kept
  <2> QED  BY <2>3, <2>4, <2>5, SameRights DEF Rights
<1>4. CASE GraceEnds(a)
  <2>1. /\ grace' \in [Approvals -> BOOLEAN] /\ grace'[a]
        /\ \A b \in Approvals \ {a} : grace'[b] = grace[b]
    BY <1>0, <1>4 DEF GraceEnds
  <2>2. UNCHANGED <<emisar, row, run, episode, card, work, monitor, checking,
                    grant, earlier, offers, press, stale, left>>
    BY <1>4 DEF GraceEnds, asker, authority
  <2>3. TypeOK'  BY <2>1, <2>2 DEF TypeOK
  <2>4. \A b \in Approvals \ {a} : Same(b)  BY <2>1, <2>2 DEF Same
  <2>5. Rights(a)' /\ Kept(a)
    BY <2>1, <2>2 DEF Rights, RowRight, MonitorRight, Shown, Kept
  <2> QED  BY <2>3, <2>4, <2>5, SameRights DEF Rights
<1> QED  BY <1>1, <1>2, <1>3, <1>4

(* The monitor, until it has judged what the outcome means for the grant.   *)
LEMMA MonitorStep ==
    ASSUME TypeOK, NEW a \in Approvals, Poll(a) \/ TellProgress(a) \/ Conclude(a),
           \A b \in Approvals : Rights(b)
    PROVE  /\ TypeOK' /\ \A b \in Approvals : Rights(b)' /\ Kept(b)
           /\ monitor'[a].at # "demote"
           /\ \A b \in Approvals \ {a} : monitor'[b] = monitor[b]
<1>0. /\ emisar \in [Approvals -> Status] /\ row \in [Approvals -> Row]
      /\ card \in [Approvals -> Card] /\ monitor \in [Approvals -> Handler]
      /\ episode \in [Approvals -> Episode]
  BY DEF TypeOK
<1>m. ASSUME NEW step \in {"idle", "queue", "update", "mark", "judge"}, Moves(a, step)
      PROVE  /\ monitor' \in [Approvals -> Handler]
             /\ monitor'[a].at = step /\ monitor'[a].ts = monitor[a].ts
             /\ \A b \in Approvals \ {a} : monitor'[b] = monitor[b]
  BY <1>0, <1>m DEF Moves, Handler
<1>1. CASE Poll(a)
  <2>1. Seen(a) \in Status /\ (Seen(a) \in Terminal => row[a].status \in Terminal \/ Seen(a) = emisar[a])
    BY <1>0 DEF Seen, Terminal, Status
  <2>2. /\ row' \in [Approvals -> Row] /\ row'[a].status = Seen(a)
        /\ row'[a].bound = row[a].bound /\ row'[a].ts = row[a].ts
        /\ ~row[a].queued /\ ~row'[a].queued
        /\ \A b \in Approvals \ {a} : row'[b] = row[b]
    BY <1>0, <1>1, <2>1 DEF Poll, Row
  <2>3. /\ monitor' \in [Approvals -> Handler]
        /\ monitor'[a].at = Then(a) /\ monitor'[a].ts = row[a].ts
        /\ \A b \in Approvals \ {a} : monitor'[b] = monitor[b]
    <3>1. Then(a) \in {"idle", "tell", "end"}  BY DEF Then
    <3>2. row[a].ts \in BOOLEAN  BY <1>0 DEF Row
    <3>3. monitor' = [monitor EXCEPT ![a] = [at |-> Then(a), ts |-> row[a].ts, rung |-> 0]]
      BY <1>1 DEF Poll
    <3> QED  BY <1>0, <3>1, <3>2, <3>3 DEF Handler, Rung
  <2>4. UNCHANGED <<emisar, run, episode, card, grace, work, checking,
                    grant, earlier, offers, press, stale, left>>
    BY <1>1 DEF Poll, asker, authority
  <2>5. TypeOK'  BY <2>2, <2>3, <2>4 DEF TypeOK
  <2>6. \A b \in Approvals \ {a} : Same(b)  BY <2>2, <2>3, <2>4 DEF Same
  <2>7. row[a].status \in Terminal => Seen(a) = row[a].status  BY DEF Seen
  <2>8. Then(a) \in {"idle", "tell", "end"} /\ (Then(a) = "end" => Seen(a) \in Terminal)
    BY DEF Then
  <2>9. Rights(a)' /\ Kept(a)
    BY <2>1, <2>2, <2>3, <2>4, <2>7, <2>8 DEF Rights, RowRight, MonitorRight, Kept
  <2> QED  BY <2>3, <2>5, <2>6, <2>8, <2>9, SameRights DEF Rights
<1>2. CASE TellProgress(a) \/ UpdateCard(a)
  <2>1. /\ card' \in [Approvals -> Card] /\ card'[a].state = card[a].state
        /\ \/ card'[a].tells = row[a].status
           \/ UpdateCard(a) /\ ~monitor[a].ts /\ card'[a].tells = card[a].tells
        /\ \A b \in Approvals \ {a} : card'[b] = card[b]
    <3>1. CASE TellProgress(a)  BY <1>0, <3>1 DEF TellProgress, Card, Row
    <3>2. CASE UpdateCard(a)  BY <1>0, <3>2 DEF UpdateCard, Card, Row
    <3> QED  BY <1>2, <3>1, <3>2
  <2>2. /\ monitor' \in [Approvals -> Handler]
        /\ \/ TellProgress(a) /\ monitor'[a].at = "idle"
           \/ UpdateCard(a) /\ monitor[a].at = "update" /\ monitor'[a].at = "mark"
        /\ monitor'[a].ts = monitor[a].ts
        /\ \A b \in Approvals \ {a} : monitor'[b] = monitor[b]
    BY <1>2, <1>m DEF TellProgress, UpdateCard, Turn
  <2>3. UNCHANGED <<emisar, row, run, episode, grace, work, checking,
                    grant, earlier, offers, press, stale, left>>
    BY <1>2 DEF TellProgress, UpdateCard, asker, authority
  <2>4. TypeOK'  BY <2>1, <2>2, <2>3 DEF TypeOK
  <2>5. \A b \in Approvals \ {a} : Same(b)  BY <2>1, <2>2, <2>3 DEF Same
  <2>6. MonitorRight(a) /\ RowRight(a)  BY DEF Rights
  <2>7. TellProgress(a) => monitor[a].at = "tell"  BY DEF TellProgress, Turn
  <2>8. RowRight(a)' /\ MonitorRight(a)' /\ Kept(a)
    BY <2>1, <2>2, <2>3, <2>6 DEF RowRight, MonitorRight, Shown, Kept
  <2> QED  BY <2>2, <2>4, <2>5, <2>8, SameRights DEF Rights
<1>3. CASE AwaitCard(a) \/ Resolve(a) \/ Refused(a) \/ QueueContinuation(a)
  <2>1. /\ monitor' \in [Approvals -> Handler] /\ monitor'[a].ts = monitor[a].ts
        /\ \/ monitor'[a].at = "idle"
           \/ monitor[a].at = "end" /\ Ready(a) /\ monitor'[a].at = "queue"
           \/ monitor[a].at = "queue" /\ monitor'[a].at = "update"
        /\ \A b \in Approvals \ {a} : monitor'[b] = monitor[b]
    BY <1>3, <1>m DEF AwaitCard, Resolve, Refused, QueueContinuation, Turn
  <2>2. episode' \in [Approvals -> Episode]
    <3>1. CASE Resolve(a)  BY <1>0, <3>1 DEF Resolve, Episode
    <3>2. CASE QueueContinuation(a)  BY <1>0, <3>2 DEF QueueContinuation, Episode
    <3>3. CASE AwaitCard(a) \/ Refused(a)  BY <1>0, <3>3 DEF AwaitCard, Refused, asker
    <3> QED  BY <1>3, <3>1, <3>2, <3>3
  <2>3. /\ checking' \in [Approvals -> {"none", "queued", "verified", "unverified"}]
        /\ \A b \in Approvals : checking[b] = "verified" => checking'[b] = "verified"
    <3>1. checking \in [Approvals -> {"none", "queued", "verified", "unverified"}]
      BY DEF TypeOK
    <3> QED  BY <1>3, <3>1 DEF AwaitCard, Resolve, Refused, QueueContinuation
  <2>4. UNCHANGED <<emisar, row, run, card, grace, work, grant, earlier, offers, press, stale, left>>
    BY <1>3 DEF AwaitCard, Resolve, Refused, QueueContinuation, asker, authority
  <2>5. TypeOK'  BY <2>1, <2>2, <2>3, <2>4 DEF TypeOK
  <2>6. \A b \in Approvals \ {a} : Rights(b)' /\ Kept(b)
    BY <2>1, <2>3, <2>4 DEF Rights, RowRight, MonitorRight, Shown, Kept
  <2>7. Rights(a)' /\ Kept(a)
    BY <2>1, <2>3, <2>4 DEF Rights, RowRight, MonitorRight, Shown, Kept, Ready
  <2> QED  BY <2>1, <2>5, <2>6, <2>7
<1>4. CASE MarkContinuationQueued(a)
  <2>1. /\ row' \in [Approvals -> Row] /\ row'[a].queued
        /\ row'[a].bound = row[a].bound /\ row'[a].ts = row[a].ts
        /\ row'[a].status = row[a].status
        /\ \A b \in Approvals \ {a} : row'[b] = row[b]
    BY <1>0, <1>4 DEF MarkContinuationQueued, Row
  <2>2. /\ monitor' \in [Approvals -> Handler]
        /\ monitor[a].at = "mark" /\ monitor'[a].at = "judge" /\ monitor'[a].ts = monitor[a].ts
        /\ \A b \in Approvals \ {a} : monitor'[b] = monitor[b]
    BY <1>4, <1>m DEF MarkContinuationQueued, Turn
  <2>3. UNCHANGED <<emisar, run, episode, card, grace, work, checking,
                    grant, earlier, offers, press, stale, left>>
    BY <1>4 DEF MarkContinuationQueued, asker, authority
  <2>4. TypeOK'  BY <2>1, <2>2, <2>3 DEF TypeOK
  <2>5. \A b \in Approvals \ {a} : Same(b)  BY <2>1, <2>2, <2>3 DEF Same
  <2>6. Rights(a)' /\ Kept(a)
    BY <2>1, <2>2, <2>3 DEF Rights, RowRight, MonitorRight, Shown, Kept
  <2> QED  BY <2>2, <2>4, <2>5, <2>6, SameRights DEF Rights
<1> QED  BY <1>1, <1>2, <1>3, <1>4 DEF Conclude

(* Judging the outcome, and the turn that verifies it.                      *)
LEMMA LadderStep ==
    ASSUME TypeOK, NEW a \in Approvals,
           DemoteRead(a) \/ DemoteWrite(a) \/ Offer(a) \/ Propose(a) \/ Verify(a),
           DemotionRight(a), \A b \in Approvals : Rights(b)
    PROVE  /\ TypeOK' /\ \A b \in Approvals : Rights(b)' /\ Kept(b)
           /\ monitor'[a] = Idle \/ DemoteRead(a) \/ monitor' = monitor
           /\ \A b \in Approvals \ {a} : monitor'[b] = monitor[b]
<1>0. /\ monitor \in [Approvals -> Handler] /\ episode \in [Approvals -> Episode]
      /\ checking \in [Approvals -> {"none", "queued", "verified", "unverified"}]
      /\ offers \subseteq Rung /\ grant \in 0..2
  BY DEF TypeOK, Rung
<1>1. Offered(a) \subseteq Rung  BY DEF Offered, Earned
<1>2. /\ monitor' \in [Approvals -> Handler]
      /\ \/ monitor'[a] = Idle \/ monitor' = monitor
         \/ /\ DemoteRead(a) /\ monitor[a].at = "judge" /\ row[a].status = "failed"
            /\ monitor'[a] = [at |-> "demote", ts |-> FALSE, rung |-> grant]
      /\ \A b \in Approvals \ {a} : monitor'[b] = monitor[b]
  <2>1. Idle \in Handler /\ [at |-> "demote", ts |-> FALSE, rung |-> grant] \in Handler
    BY <1>0 DEF Handler, Idle, Rung
  <2>2. CASE DemoteRead(a)  BY <1>0, <2>1, <2>2 DEF DemoteRead, Turn, Fails
  <2>3. CASE DemoteWrite(a) \/ Offer(a)  BY <1>0, <2>1, <2>3 DEF DemoteWrite, Offer
  <2>4. CASE Propose(a) \/ Verify(a)  BY <1>0, <2>4 DEF Propose, Verify
  <2> QED  BY <2>2, <2>3, <2>4
<1>3. grant' \in Rung
  <2>1. CASE DemoteWrite(a)
    <3>1. monitor[a].rung \in 0..2 /\ monitor[a].rung # 0
      BY <1>0, <2>1 DEF Handler, Rung, DemoteWrite, Turn, DemotionRight
    <3>2. grant' = monitor[a].rung - 1  BY <2>1 DEF DemoteWrite
    <3> QED  BY <3>1, <3>2 DEF Rung
  <2>2. CASE ~DemoteWrite(a)
    BY <1>0, <2>2 DEF DemoteRead, Offer, Propose, Verify, authority, Rung
  <2> QED  BY <2>1, <2>2
<1>4. offers' \subseteq Rung
  BY <1>0, <1>1 DEF DemoteRead, DemoteWrite, Offer, Propose, Verify, authority
<1>5. /\ checking' \in [Approvals -> {"none", "queued", "verified", "unverified"}]
      /\ \A b \in Approvals : checking[b] = "verified" => checking'[b] = "verified"
  BY <1>0 DEF DemoteRead, DemoteWrite, Offer, Propose, Verify, Checks
<1>6. episode' \in [Approvals -> Episode]
  <2>1. CASE Verify(a)  BY <1>0, <2>1 DEF Verify, Episode
  <2>2. CASE ~Verify(a)  BY <1>0, <2>2 DEF DemoteRead, DemoteWrite, Offer, Propose, asker
  <2> QED  BY <2>1, <2>2
<1>7. UNCHANGED <<emisar, row, run, card, grace, work, earlier, press, left>>
  BY DEF DemoteRead, DemoteWrite, Offer, Propose, Verify, asker, authority
<1>s. stale' \subseteq Approvals \cup {None}
  BY DEF DemoteRead, DemoteWrite, Offer, Propose, Verify, authority, Overtaken, Readers, TypeOK
<1>8. TypeOK'  BY <1>2, <1>3, <1>4, <1>5, <1>6, <1>7, <1>s DEF TypeOK
<1>9. \A b \in Approvals \ {a} : Rights(b)' /\ Kept(b)
  BY <1>2, <1>5, <1>7 DEF Rights, RowRight, MonitorRight, Shown, Kept
<1>10. Rights(a)' /\ Kept(a)
  BY <1>2, <1>5, <1>7 DEF Rights, RowRight, MonitorRight, Shown, Kept, Idle
<1> QED  BY <1>2, <1>8, <1>9, <1>10

(* Operators and a restart.                                                 *)
LEMMA OperatorStep ==
    ASSUME TypeOK, Confirm \/ Restart \/ \E rung \in Rung : Press(rung), PressRight,
           \A b \in Approvals : Rights(b)
    PROVE  /\ TypeOK' /\ \A b \in Approvals : Rights(b)' /\ Kept(b)
           /\ \A b \in Approvals : monitor'[b] \in {monitor[b], Idle}
<1>0. /\ monitor \in [Approvals -> Handler] /\ run \in [Approvals -> Asking]
      /\ left \in [presses : Nat, troubles : Nat] /\ work \in [Approvals -> BOOLEAN]
      /\ row \in [Approvals -> Row]
  BY DEF TypeOK
<1>1. Idle \in Handler  BY DEF Handler, Idle, Rung
<1>2. /\ monitor' \in [Approvals -> Handler]
      /\ \A b \in Approvals : monitor'[b] \in {monitor[b], Idle}
  BY <1>0, <1>1 DEF Confirm, Restart, Press
<1>3. run' \in [Approvals -> Asking]
  <2>1. CASE Restart
    <3>1. \A b \in Approvals : [run[b] EXCEPT !.state = "applying"] \in Asking
      BY <1>0 DEF Asking
    <3> QED  BY <1>0, <2>1, <3>1 DEF Restart
  <2>2. CASE ~Restart  BY <1>0, <2>2 DEF Confirm, Press, asker
  <2> QED  BY <2>1, <2>2
<1>4. left' \in [presses : Nat, troubles : Nat]
  <2>1. \A what \in {"presses", "troubles"} : Spend(what) => left' \in [presses : Nat, troubles : Nat]
    <3>1. Spend("presses") => left' \in [presses : Nat, troubles : Nat]  BY <1>0 DEF Spend
    <3>2. Spend("troubles") => left' \in [presses : Nat, troubles : Nat]  BY <1>0 DEF Spend
    <3> QED  BY <3>1, <3>2
  <2> QED  BY <1>0, <2>1 DEF Confirm, Restart, Press
<1>5. work' \in [Approvals -> BOOLEAN]  BY <1>0 DEF Confirm, Restart, Press
<1>6. grant' \in Rung /\ (press' = None \/ press' \in [rung : Rung, was : Rung])
  BY DEF Confirm, Restart, Press, PressRight, TypeOK
<1>7. UNCHANGED <<emisar, row, episode, card, grace, checking, earlier, offers>>
  BY DEF Confirm, Restart, Press, asker
<1>s. stale' \subseteq Approvals \cup {None}
  BY DEF Confirm, Restart, Press, Overtaken, Readers, TypeOK
<1>8. TypeOK'  BY <1>2, <1>3, <1>4, <1>5, <1>6, <1>7, <1>s DEF TypeOK
<1>9. \A b \in Approvals : Rights(b)' /\ Kept(b)
  BY <1>2, <1>7 DEF Rights, RowRight, MonitorRight, Shown, Kept, Idle
<1> QED  BY <1>2, <1>8, <1>9
-----------------------------------------------------------------------------
(* Verified successes stay verified.                                         *)
LEMMA EvidenceKept ==
    ASSUME TypeOK, TypeOK', \A b \in Approvals : Kept(b), earlier' = earlier
    PROVE  Count >= Required => Count' >= Required
<1> DEFINE S == {a \in Rooms : checking[a] = "verified" /\ row[a].status = "success"}
<1>2. S \subseteq S' /\ S' \subseteq Approvals
  BY ApprovalAssumption DEF Kept, Terminal
<1>3. IsFiniteSet(S') /\ Cardinality(S) <= Cardinality(S') /\ IsFiniteSet(S)
  BY <1>2, ApprovalAssumption, FS_Subset
<1>4. Cardinality(S) \in Nat /\ Cardinality(S') \in Nat  BY <1>3, FS_CardinalityType
<1>5. Count = earlier + Cardinality(S) /\ Count' = earlier + Cardinality(S')  BY DEF Count
<1>6. earlier \in Int /\ Required \in Nat  BY ApprovalAssumption DEF TypeOK
<1> HIDE DEF S
<1> QED  BY <1>3, <1>4, <1>5, <1>6

(* What the handlers and the press have read stays within reach of the      *)
(* grant while it is not written.                                           *)
LEMMA SteadyStep ==
    ASSUME IInv, TypeOK', \A b \in Approvals : Kept(b),
           UNCHANGED <<grant, earlier, stale>>, press' \in {press, None},
           \A b \in Approvals : monitor'[b].at = "demote" => monitor'[b] = monitor[b]
    PROVE  (\A b \in Approvals : DemotionRight(b)') /\ PressRight'
<1>1. Count >= Required => Count' >= Required
  BY EvidenceKept DEF IInv
<1>2. \A b \in Approvals : DemotionRight(b)'
  BY <1>1 DEF IInv, DemotionRight
<1>3. PressRight'
  BY <1>1 DEF IInv, PressRight
<1> QED  BY <1>2, <1>3

LEMMA InitInv == Init => IInv
<1> SUFFICES ASSUME Init PROVE IInv  OBVIOUS
<1>1. PICK plan \in Plans :
        /\ emisar = [a \in Approvals |-> Begun(plan.stages[a]).emisar]
        /\ row = [a \in Approvals |-> Begun(plan.stages[a]).row]
        /\ run = [a \in Approvals |-> Begun(plan.stages[a]).run]
        /\ episode = [a \in Approvals |-> Begun(plan.stages[a]).episode]
        /\ card = [a \in Approvals |-> Begun(plan.stages[a]).card]
        /\ work = [a \in Approvals |-> Begun(plan.stages[a]).work]
        /\ checking = [a \in Approvals |-> Begun(plan.stages[a]).checking]
        /\ left = [presses |-> plan.presses, troubles |-> plan.troubles]
  BY DEF Init
<1>2. /\ plan.presses \in Nat /\ plan.troubles \in Nat
      /\ \A a \in Approvals : plan.stages[a] \in {"asked", "waiting", "settled"}
  BY ApprovalAssumption
<1> DEFINE Fine(b) ==
        /\ b.emisar \in Status /\ b.row \in Row /\ b.run \in Asking /\ b.episode \in Episode
        /\ b.card \in Card /\ b.work \in BOOLEAN
        /\ b.checking \in {"none", "queued", "verified", "unverified"}
        /\ b.row.ts => b.card.state = "sent"
        /\ b.row.bound => b.row.ts
        /\ b.row.status \in Terminal => b.emisar = b.row.status
        /\ b.row.queued => b.row.status \in Terminal /\ b.row.ts /\ b.card.tells = b.row.status
<1>3. \A stage \in {"asked", "waiting", "settled"} : Fine(Begun(stage))
  <2>1. Fine(Asked)  BY DEF Asked, Status, Terminal, Row, Asking, Episode, Card, Step
  <2>2. Fine(Waiting("pending_approval", "waiting_approval", FALSE))
    BY DEF Waiting, Status, Terminal, Row, Asking, Episode, Card, Step
  <2>3. Fine(Waiting("denied", "completed", TRUE))
    BY DEF Waiting, Status, Terminal, Row, Asking, Episode, Card, Step
  <2>4. /\ Begun("asked") = Asked
        /\ Begun("waiting") = Waiting("pending_approval", "waiting_approval", FALSE)
        /\ Begun("settled") = Waiting("denied", "completed", TRUE)
    BY DEF Begun
  <2> HIDE DEF Fine
  <2> QED  BY <2>1, <2>2, <2>3, <2>4
<1>4. Idle \in Handler /\ Idle.at = "idle" /\ ~Idle.ts  BY DEF Handler, Idle, Rung
<1>5. \A a \in Approvals : monitor[a] = Idle  BY DEF Init
<1>6. TypeOK
  <2>1. grant \in Rung /\ earlier \in {Required - 1, Required} /\ offers \subseteq Rung
    BY DEF Init, Rung
  <2>2. /\ monitor \in [Approvals -> Handler] /\ grace \in [Approvals -> BOOLEAN]
        /\ press = None /\ stale = {}
    BY <1>4 DEF Init
  <2>3. /\ emisar \in [Approvals -> Status] /\ row \in [Approvals -> Row]
        /\ run \in [Approvals -> Asking] /\ episode \in [Approvals -> Episode]
        /\ card \in [Approvals -> Card] /\ work \in [Approvals -> BOOLEAN]
        /\ checking \in [Approvals -> {"none", "queued", "verified", "unverified"}]
    BY <1>1, <1>2, <1>3
  <2>4. left \in [presses : Nat, troubles : Nat]  BY <1>1, <1>2
  <2> QED  BY <2>1, <2>2, <2>3, <2>4 DEF TypeOK
<1>7. \A a \in Approvals : RowRight(a) /\ MonitorRight(a) /\ DemotionRight(a)
  <2> SUFFICES ASSUME NEW a \in Approvals
               PROVE  RowRight(a) /\ MonitorRight(a) /\ DemotionRight(a)
    OBVIOUS
  <2>1. RowRight(a)  BY <1>1, <1>2, <1>3 DEF RowRight, Shown
  <2> QED  BY <2>1, <1>4, <1>5 DEF MonitorRight, DemotionRight
<1>8. PressRight  BY DEF Init, PressRight
<1> QED  BY <1>6, <1>7, <1>8 DEF IInv

LEMMA NextInv == IInv /\ [Next]_vars => IInv' /\ \A b \in Approvals : Kept(b)
<1> SUFFICES ASSUME IInv, [Next]_vars PROVE IInv' /\ \A b \in Approvals : Kept(b)  OBVIOUS
<1>0. TypeOK /\ PressRight /\ \A b \in Approvals : Rights(b) /\ DemotionRight(b)
  BY DEF IInv, Rights
<1>q. ASSUME TypeOK', \A b \in Approvals : Rights(b)' /\ Kept(b),
             \A b \in Approvals : DemotionRight(b)', PressRight'
      PROVE  IInv' /\ \A b \in Approvals : Kept(b)
  BY <1>q DEF IInv, Rights
<1>1. ASSUME NEW a \in Approvals,
             \/ Finalize(a) \/ PutOff(a) \/ Send(a) \/ Lose(a) \/ Decide(a) \/ GraceEnds(a)
      PROVE  IInv' /\ \A b \in Approvals : Kept(b)
  <2>1. TypeOK' /\ \A b \in Approvals : Rights(b)' /\ Kept(b)
    BY <1>0, <1>1, FinalizeStep, OutsideStep
  <2>2. UNCHANGED <<grant, earlier, press, stale, monitor>>
    BY <1>1 DEF Finalize, Lease, Record, Post, BindDelivery, Schedule, Phase, Finish,
                PutOff, Send, Lose, Decide, GraceEnds, authority
  <2>3. (\A b \in Approvals : DemotionRight(b)') /\ PressRight'
    BY <2>1, <2>2, SteadyStep
  <2> QED  BY <1>q, <2>1, <2>3
<1>2. ASSUME NEW a \in Approvals, Poll(a) \/ TellProgress(a) \/ Conclude(a)
      PROVE  IInv' /\ \A b \in Approvals : Kept(b)
  <2>1. /\ TypeOK' /\ \A b \in Approvals : Rights(b)' /\ Kept(b)
        /\ \A b \in Approvals : monitor'[b].at = "demote" => monitor'[b] = monitor[b]
    BY <1>0, <1>2, MonitorStep
  <2>2. UNCHANGED <<grant, earlier, press, stale>>
    BY <1>2 DEF Poll, TellProgress, Conclude, AwaitCard, Resolve, Refused, QueueContinuation,
                UpdateCard, MarkContinuationQueued, authority
  <2>3. (\A b \in Approvals : DemotionRight(b)') /\ PressRight'
    BY <2>1, <2>2, SteadyStep
  <2> QED  BY <1>q, <2>1, <2>3
<1>3. ASSUME NEW a \in Approvals, Offer(a) \/ Propose(a) \/ Verify(a)
      PROVE  IInv' /\ \A b \in Approvals : Kept(b)
  <2>1. TypeOK' /\ \A b \in Approvals : Rights(b)' /\ Kept(b)
    BY <1>0, <1>3, LadderStep
  <2>2. monitor \in [Approvals -> Handler]  BY <1>0 DEF TypeOK
  <2>3. /\ UNCHANGED <<grant, earlier, press, stale>>
        /\ \A b \in Approvals : monitor'[b].at = "demote" => monitor'[b] = monitor[b]
    BY <1>3, <2>2 DEF Offer, Propose, Verify, authority, Idle
  <2>4. (\A b \in Approvals : DemotionRight(b)') /\ PressRight'
    BY <2>1, <2>3, SteadyStep
  <2> QED  BY <1>q, <2>1, <2>4
<1>4. ASSUME NEW a \in Approvals, DemoteRead(a)
      PROVE  IInv' /\ \A b \in Approvals : Kept(b)
  <2>1. /\ TypeOK' /\ \A b \in Approvals : Rights(b)' /\ Kept(b)
        /\ \A b \in Approvals \ {a} : monitor'[b] = monitor[b]
    BY <1>0, <1>4, LadderStep
  <2>2. UNCHANGED <<grant, earlier, press, stale>>  BY <1>4 DEF DemoteRead, authority
  <2>3. Count >= Required => Count' >= Required
    BY <1>0, <2>1, <2>2, EvidenceKept
  <2>4. PressRight'  BY <1>0, <2>2, <2>3 DEF PressRight
  <2>5. monitor'[a] \in {Idle, [at |-> "demote", ts |-> FALSE, rung |-> grant]}
        /\ (monitor'[a] # Idle => grant # 0)
    BY <1>0, <1>4 DEF DemoteRead, TypeOK
  <2>6. DemotionRight(a)'
    BY <2>2, <2>5 DEF DemotionRight, Idle
  <2>7. \A b \in Approvals \ {a} : DemotionRight(b)'
    BY <1>0, <2>1, <2>2 DEF DemotionRight
  <2> QED  BY <1>q, <2>1, <2>4, <2>6, <2>7
<1>5. ASSUME NEW a \in Approvals, DemoteWrite(a)
      PROVE  IInv' /\ \A b \in Approvals : Kept(b)
  <2>1. /\ TypeOK' /\ \A b \in Approvals : Rights(b)' /\ Kept(b)
        /\ \A b \in Approvals \ {a} : monitor'[b] = monitor[b]
    BY <1>0, <1>5, LadderStep
  <2>2. UNCHANGED <<earlier, press>> /\ stale' = (stale \cup Readers) \ {a}
    BY <1>5 DEF DemoteWrite, Overtaken
  <2>3. Count >= Required => Count' >= Required
    BY <1>0, <2>1, <2>2, EvidenceKept
  <2>4. None \notin Approvals  BY ApprovalAssumption
  <2>5. monitor'[a].at # "demote"
    BY <1>0, <1>5 DEF DemoteWrite, Idle, TypeOK
  <2>6. \A b \in Approvals : DemotionRight(b)'
    BY <1>0, <2>1, <2>2, <2>5 DEF DemotionRight, Readers, Turn
  <2>7. grant' \in 0..1
    <3>1. monitor[a].rung \in 0..2 /\ monitor[a].rung # 0
      BY <1>0, <1>5 DEF TypeOK, Handler, Rung, DemotionRight, DemoteWrite, Turn
    <3> QED  BY <1>5, <3>1 DEF DemoteWrite
  <2>8. PressRight'
    BY <1>0, <2>2, <2>3, <2>4, <2>7 DEF PressRight, Rung, Readers
  <2> QED  BY <1>q, <2>1, <2>6, <2>8
<1>6. ASSUME Confirm \/ Restart \/ \E rung \in Rung : Press(rung)
      PROVE  IInv' /\ \A b \in Approvals : Kept(b)
  <2>1. /\ TypeOK' /\ \A b \in Approvals : Rights(b)' /\ Kept(b)
        /\ \A b \in Approvals : monitor'[b] \in {monitor[b], Idle}
    BY <1>0, <1>6, OperatorStep
  <2>2. earlier' = earlier  BY <1>6 DEF Confirm, Restart, Press
  <2>3. Count >= Required => Count' >= Required
    BY <1>0, <2>1, <2>2, EvidenceKept
  <2>4. grant' >= grant /\ grant \in 0..2 /\ grant' \in 0..2
    BY <1>0, <1>6, <2>1 DEF Confirm, Restart, Press, PressRight, TypeOK, Rung
  <2>5. \A b \in Approvals : DemotionRight(b)'
    <3> SUFFICES ASSUME NEW b \in Approvals, monitor'[b].at = "demote"
                 PROVE  DemotionRight(b)'
      BY DEF DemotionRight
    <3>1. monitor'[b] = monitor[b] /\ ~Restart  BY <2>1 DEF Idle, Restart
    <3>2. CASE Confirm
      <4>1. b \in stale'
        BY <3>1, <3>2, ApprovalAssumption DEF Confirm, Overtaken, Readers, Turn
      <4> QED  BY <1>0, <3>1, <4>1 DEF DemotionRight
    <3>3. ASSUME NEW rung \in Rung, Press(rung) PROVE DemotionRight(b)'
      BY <1>0, <3>1, <3>3 DEF Press, DemotionRight
    <3> QED  BY <1>6, <3>1, <3>2, <3>3
  <2>6. PressRight'
    <3>1. CASE Confirm \/ Restart  BY <3>1 DEF Confirm, Restart, PressRight
    <3>2. ASSUME NEW rung \in Rung, Press(rung) PROVE PressRight'
      BY <1>0, <2>3, <2>4, <3>2 DEF Press, Earned, PressRight, TypeOK, Rung
    <3> QED  BY <1>6, <3>1, <3>2
  <2> QED  BY <1>q, <2>1, <2>5, <2>6
<1>7. CASE UNCHANGED vars
  <2>1. UNCHANGED <<emisar, row, run, episode, card, grace, work, monitor, checking,
                    grant, earlier, offers, press, stale, left>>
    BY <1>7 DEF vars, asker, authority
  <2>2. TypeOK'  BY <1>0, <2>1 DEF TypeOK
  <2>3. \A b \in Approvals : Rights(b)' /\ Kept(b)
    BY <1>0, <2>1, SameRights DEF Same, Rights
  <2>4. (\A b \in Approvals : DemotionRight(b)') /\ PressRight'
    BY <2>1, <2>2, <2>3, SteadyStep
  <2> QED  BY <1>q, <2>2, <2>3, <2>4
<1> QED  BY <1>1, <1>2, <1>3, <1>4, <1>5, <1>6, <1>7 DEF Next, Monitor

LEMMA Invariance == Spec => []IInv
BY InitInv, NextInv, PTL DEF Spec
-----------------------------------------------------------------------------
(* A card that reached Slack can be found, and says how the action ended    *)
(* once the outcome is handed over, unless the grace ran out.               *)
THEOREM CardsTell == Spec => []CardTold
<1>1. IInv => CardTold
  <2> SUFFICES ASSUME IInv PROVE CardTold  OBVIOUS
  <2>1. TypeOK /\ \A a \in Approvals : RowRight(a)  BY DEF IInv
  <2> QED  BY <2>1 DEF CardTold, RowRight, Shown
<1> QED  BY <1>1, Invariance, PTL

(* Only a confirmed press and a demotion write the grant.                   *)
LEMMA RungStep ==
    ASSUME IInv, [Next]_vars
    PROVE  /\ grant' > grant => Climbs \/ \E a \in Failed \cap stale : Takes(a)
           /\ grant' < grant =>
                \E a \in Failed : Takes(a) /\ (a \in stale \/ grant = monitor[a].rung)
<1>0. grant \in 0..2  BY DEF IInv, TypeOK, Rung
<1>1. CASE Confirm
  <2>1. press # None /\ grant' = press.rung /\ press' = None  BY <1>1 DEF Confirm
  <2>2. /\ press \in [rung : Rung, was : Rung] /\ press.rung = press.was + 1
        /\ Count >= Required /\ grant <= press.rung /\ (None \in stale \/ grant = press.was)
    BY <2>1 DEF IInv, PressRight
  <2>3. press.rung \in 0..2  BY <2>2 DEF Rung
  <2>4. Climbs  BY <2>1, <2>2 DEF Climbs
  <2> QED  BY <1>0, <2>1, <2>2, <2>3, <2>4
<1>2. ASSUME NEW a \in Approvals, DemoteWrite(a)
      PROVE  /\ grant' > grant => \E b \in Failed \cap stale : Takes(b)
             /\ grant' < grant =>
                  \E b \in Failed : Takes(b) /\ (b \in stale \/ grant = monitor[b].rung)
  <2>1. a \in Failed /\ Takes(a)
    BY <1>2 DEF IInv, DemoteWrite, Takes, Turn, RowRight, MonitorRight, Failed, Terminal
  <2>2. /\ monitor[a].rung \in 0..2
        /\ a \in stale \/ grant = monitor[a].rung
    BY <1>2 DEF IInv, TypeOK, Handler, Rung, DemotionRight, DemoteWrite, Turn
  <2>3. grant' = monitor[a].rung - 1  BY <1>2 DEF DemoteWrite
  <2>4. grant' > grant => a \in stale  BY <1>0, <2>2, <2>3
  <2> QED  BY <2>1, <2>2, <2>4
<1>3. CASE ~Confirm /\ ~\E a \in Approvals : DemoteWrite(a)
  <2>1. grant' = grant
    BY <1>3 DEF Next, Finalize, Lease, Record, Post, BindDelivery, Schedule, Phase, Finish,
                PutOff, Send, Lose, Decide, GraceEnds, Monitor, Poll, TellProgress, Conclude,
                AwaitCard, Resolve, Refused, QueueContinuation, UpdateCard,
                MarkContinuationQueued, DemoteRead, Offer, Propose, Verify, Press, Restart,
                authority, vars
  <2> QED  BY <1>0, <2>1
<1> QED  BY <1>1, <1>2, <1>3

(* The grant rises only by a press that was graded on evidence, one rung    *)
(* above what it held then and still holds, and falls only by a failed run, *)
(* one rung below what it held when that was judged and still holds; a      *)
(* writer whose reading another overtook alone does otherwise.              *)
THEOREM RungByRung == Spec => RungsEarned
<1>1. IInv /\ [Next]_vars =>
        [ /\ grant' > grant => Climbs \/ \E a \in Failed \cap stale : Takes(a)
          /\ grant' < grant =>
               \E a \in Failed : Takes(a) /\ (a \in stale \/ grant = monitor[a].rung) ]_vars
  BY RungStep
<1> QED  BY <1>1, Invariance, PTL DEF Spec, RungsEarned
=============================================================================
