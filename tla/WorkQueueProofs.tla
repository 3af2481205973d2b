--------------------------- MODULE WorkQueueProofs ---------------------------
(***************************************************************************)
(* Proofs about WorkQueue for any items, workers, lanes, keys and times:   *)
(* its type invariant, its safety invariants and action property, and that *)
(* it implements ConversationJobs.                                         *)
(***************************************************************************)
EXTENDS WorkQueue, TLAPS

(* The inductive invariant.  A handler holds its row's lease, which outlives *)
(* it; a running row's token names the worker that has the row in hand; two  *)
(* running rows are never of one conversation, because a lease is taken only *)
(* after every expired one is reclaimed; only deadlined items have a         *)
(* deadline.                                                                 *)
LeaseOutlivesHandler ==
    \A w \in Workers : Executing(w) =>
        /\ Running(worker[w].item)
        /\ row[worker[w].item].token = w
        /\ worker[w].stall < row[worker[w].item].lease

TokenNamesHolder ==
    \A i \in Items : Running(i) =>
        /\ row[i].token \in Workers
        /\ worker[row[i].token].phase # "idle"
        /\ worker[row[i].token].item = i

OneRunningPerConversation ==
    \A i, j \in Items :
        Running(i) /\ Running(j) /\ i # j => ~SameConversation(i, j)

DeadlineOnlyWhereSet == \A i \in Items \ Deadlined : row[i].deadline = Never

IInv ==
    /\ TypeOK
    /\ LeaseOutlivesHandler
    /\ TokenNamesHolder
    /\ OneRunningPerConversation
    /\ DeadlineOnlyWhereSet
    /\ NoLostRequest
    /\ DrainsPersist
-----------------------------------------------------------------------------
(* Each row a store call computes is a row.                                 *)
LEMMA RowTypes ==
    ASSUME NEW r \in Row, NEW at \in Delay, NEW dl \in Deadline
    PROVE  /\ Absent \in Row
           /\ Enqueued(r, at, dl) \in Row
           /\ Released(r) \in Row
           /\ Deferred(r, at) \in Row
           /\ Retried(r, at) \in Row
           /\ Completed(r) \in Row
<1>0. /\ 0 \in Delay /\ 0 \in 0..WorkLease /\ Never \in Time /\ Never \in Deadline
      /\ Delay \subseteq Int
  BY ConfigAssumption DEF Delay, Time, Deadline, Never
<1>1. Absent \in Row  BY <1>0 DEF Absent, Row
<1>2. Enqueued(r, at, dl) \in Row
  <2>1. CASE r.state = "absent"  BY <2>1, <1>0 DEF Absent, Enqueued, Row
  <2>2. CASE r.state = "running"  BY <2>2, <1>0 DEF Enqueued, Earlier, Row, Time
  <2>3. CASE r.state \notin {"absent", "running"}  BY <2>3, <1>0 DEF Enqueued, Earlier, Row
  <2> QED  BY <2>1, <2>2, <2>3
<1>3. Released(r) \in Row  BY <1>0 DEF Released, Row
<1>4. Deferred(r, at) \in Row  BY <1>0 DEF Released, Deferred, Row
<1>5. Retried(r, at) \in Row
  <2>1. Deferred(r, at).state = "pending" /\ Deferred(r, at).token = NoWorker
    BY DEF Deferred, Released, Row
  <2> QED  BY <1>4, <2>1 DEF Retried, Row
<1>6. Completed(r) \in Row  BY <1>0, <1>1, <1>3 DEF Completed, Row, Time
<1> QED  BY <1>1, <1>2, <1>3, <1>4, <1>5, <1>6

(* One unit of time maps each countdown into its own range.                 *)
LEMMA ElapseTypes ==
    ASSUME NEW n \in Nat, NEW t
    PROVE  /\ t \in 0..n => Elapse(t) \in 0..n
           /\ t \in 0..n \cup {Never} => Elapse(t) \in 0..n \cup {Never}
           /\ t \in 0..n \cup {Never} => (Elapse(t) = Never <=> t = Never)
BY DEF Elapse, Never

(* What a request changes of a row: it is queued or still running, a running *)
(* row keeps its lease and gains a rerun, and only a new row gets a deadline. *)
LEMMA EnqueuedFacts ==
    ASSUME NEW r \in Row, NEW at \in Delay, NEW dl \in Deadline
    PROVE  LET e == Enqueued(r, at, dl) IN
           /\ e.state \in {"pending", "running"}
           /\ e.state = "running" <=> r.state = "running"
           /\ e.state = "running" =>
                e.lease = r.lease /\ e.token = r.token /\ e.rerun # Never
           /\ e.deadline \in {r.deadline, dl}
<1>0. \A t \in Delay : t # Never  BY ConfigAssumption DEF Delay, Never
<1>1. CASE r.state = "absent"  BY <1>1 DEF Enqueued, Absent, Row
<1>2. CASE r.state = "running"  BY <1>2, <1>0 DEF Enqueued, Earlier, Row, Time
<1>3. CASE r.state \notin {"absent", "running"}  BY <1>3 DEF Enqueued, Row
<1> QED  BY <1>1, <1>2, <1>3

(* What giving up a lease leaves of a row.                                  *)
LEMMA ReleasedFacts ==
    ASSUME NEW r \in Row, NEW at \in Delay
    PROVE  /\ Released(r).state = "pending" /\ Released(r).deadline = r.deadline
           /\ Deferred(r, at).state = "pending" /\ Deferred(r, at).deadline = r.deadline
           /\ Retried(r, at).deadline = r.deadline
           /\ \/ Retried(r, at).state = "pending"
              \/ Retried(r, at).state = "failed" /\ r.deadline # Never
           /\ r.rerun = Never => Completed(r) = Absent
           /\ r.rerun # Never => /\ Completed(r).state = "pending"
                                 /\ Completed(r).deadline = r.deadline
BY DEF Released, Deferred, Retried, Completed, Row
-----------------------------------------------------------------------------
LEMMA EnqueueStep ==
    ASSUME IInv, NEW i \in Items, NEW at \in Delay, NEW dl \in Deadline,
           Enqueue(i, at, dl)
    PROVE  IInv'
<1> DEFINE e == Enqueued(row[i], at, dl)
<1> USE DEF IInv
<1>1. /\ row[i] \in Row
      /\ row' = [row EXCEPT ![i] = e]
      /\ worker' = worker
      /\ owed' = [owed EXCEPT ![i] = TRUE]
      /\ i \notin Deadlined => dl = Never
  BY DEF TypeOK, Enqueue
<1>2. e \in Row  BY <1>1, RowTypes
<1>3. /\ e.state \in {"pending", "running"}
      /\ e.state = "running" <=> row[i].state = "running"
      /\ e.state = "running" =>
           e.lease = row[i].lease /\ e.token = row[i].token /\ e.rerun # Never
      /\ e.deadline \in {row[i].deadline, dl}
  BY <1>1, EnqueuedFacts
<1> HIDE DEF e
<1>4. TypeOK'  BY <1>1, <1>2 DEF TypeOK
<1>5. \A j \in Items : row'[j] = IF j = i THEN e ELSE row[j]  BY <1>1 DEF TypeOK
<1>6. LeaseOutlivesHandler'
  BY <1>1, <1>3, <1>5 DEF LeaseOutlivesHandler, Executing, Running, TypeOK, Busy, Idle
<1>7. TokenNamesHolder'  BY <1>1, <1>3, <1>5 DEF TokenNamesHolder, Running
<1>8. OneRunningPerConversation'
  BY <1>3, <1>5 DEF OneRunningPerConversation, Running, SameConversation
<1>9. DeadlineOnlyWhereSet'  BY <1>1, <1>3, <1>5 DEF DeadlineOnlyWhereSet
<1>10. NoLostRequest'  BY <1>1, <1>3, <1>5 DEF NoLostRequest, Running, TypeOK
<1>11. DrainsPersist'
  BY <1>3, <1>5, ConfigAssumption DEF DrainsPersist
<1> QED  BY <1>4, <1>6, <1>7, <1>8, <1>9, <1>10, <1>11

LEMMA ReturnStep ==
    ASSUME IInv, NEW w \in Workers, NEW result \in {"done", "empty", "again", "error"},
           Return(w, result)
    PROVE  IInv'
<1> DEFINE i == worker[w].item
<1> USE DEF IInv
<1>1. /\ Executing(w) /\ i \in Items
      /\ row' = row
      /\ worker' = [worker EXCEPT ![w] =
                      [phase |-> "finishing", item |-> i, result |-> result]]
      /\ owed' = [owed EXCEPT ![i] = @ \/ result \in {"again", "error"}]
  BY DEF Return, Executing, TypeOK, Busy, Idle
<1>2. Running(i) /\ row[i].token = w  BY <1>1 DEF LeaseOutlivesHandler
<1> HIDE DEF i
<1>3. TypeOK'  BY <1>1 DEF TypeOK, Busy
<1>4. \A v \in Workers :
        worker'[v] = IF v = w THEN [phase |-> "finishing", item |-> i, result |-> result]
                     ELSE worker[v]
  BY <1>1 DEF TypeOK
<1>5. LeaseOutlivesHandler'
  BY <1>1, <1>4 DEF LeaseOutlivesHandler, Executing, Running
<1>6. TokenNamesHolder'
  BY <1>1, <1>4 DEF TokenNamesHolder, Running, i
<1>7. OneRunningPerConversation'
  BY <1>1 DEF OneRunningPerConversation, Running, SameConversation
<1>8. DeadlineOnlyWhereSet'  BY <1>1 DEF DeadlineOnlyWhereSet
<1>9. NoLostRequest'
  <2> SUFFICES ASSUME NEW j \in Items, owed'[j]
               PROVE  \/ row[j].state = "pending"
                      \/ /\ Running(j)
                         /\ \/ row[j].rerun # Never
                            \/ /\ worker'[row[j].token].phase = "finishing"
                               /\ worker'[row[j].token].result \in {"again", "error"}
    BY <1>1 DEF NoLostRequest, Running
  <2>1. CASE j = i /\ result \in {"again", "error"}
    BY <2>1, <1>2, <1>4
  <2>2. CASE j = i /\ result \notin {"again", "error"}
    <3>1. owed[i]  BY <2>2, <1>1 DEF TypeOK
    <3>2. worker[w].phase # "finishing"  BY <1>1 DEF Executing
    <3> QED  BY <2>2, <3>1, <3>2, <1>2 DEF NoLostRequest, Running
  <2>3. CASE j # i
    <3>1. owed[j]  BY <2>3, <1>1 DEF TypeOK
    <3>2. Running(j) => row[j].token \in Workers \ {w}
      BY <2>3 DEF TokenNamesHolder, i
    <3> QED  BY <3>1, <3>2, <1>4 DEF NoLostRequest, Running
  <2> QED  BY <2>1, <2>2, <2>3
<1>10. DrainsPersist'  BY <1>1 DEF DrainsPersist
<1> QED  BY <1>3, <1>5, <1>6, <1>7, <1>8, <1>9, <1>10

(* The reclaim of expired leases on its own keeps the invariant's parts: a  *)
(* row whose handler still runs has not expired.                            *)
LEMMA ReclaimedFacts ==
    ASSUME IInv
    PROVE  \A j \in Items :
             /\ Reclaimed[j] \in Row
             /\ Reclaimed[j].state = "running" =>
                  Running(j) /\ row[j].lease > 0 /\ Reclaimed[j] = row[j]
             /\ Reclaimed[j].state # "running" =>
                  \/ Reclaimed[j] = row[j]
                  \/ Running(j) /\ row[j].lease = 0 /\ Reclaimed[j].state = "pending"
             /\ Reclaimed[j].deadline = row[j].deadline
<1> SUFFICES ASSUME NEW j \in Items
             PROVE  /\ Reclaimed[j] \in Row
                    /\ Reclaimed[j].state = "running" =>
                         Running(j) /\ row[j].lease > 0 /\ Reclaimed[j] = row[j]
                    /\ Reclaimed[j].state # "running" =>
                         \/ Reclaimed[j] = row[j]
                         \/ Running(j) /\ row[j].lease = 0 /\ Reclaimed[j].state = "pending"
                    /\ Reclaimed[j].deadline = row[j].deadline
  OBVIOUS
<1>1. row[j] \in Row  BY DEF IInv, TypeOK
<1>2. row[j].lease \in 0..WorkLease  BY <1>1 DEF Row
<1>3. CASE Running(j) /\ row[j].lease = 0
  <2>1. Reclaimed[j] = Released(row[j])  BY <1>3 DEF Reclaimed
  <2>2. 0 \in Delay  BY ConfigAssumption DEF Delay
  <2> QED  BY <2>1, <2>2, <1>1, <1>3, RowTypes, ReleasedFacts DEF Deadline
<1>4. CASE ~(Running(j) /\ row[j].lease = 0)
  BY <1>1, <1>2, <1>4, ConfigAssumption DEF Reclaimed, Running
<1> QED  BY <1>3, <1>4

LEMMA StartStep ==
    ASSUME IInv, NEW w \in Workers, NEW i \in Items, Start(w, i)
    PROVE  IInv'
<1> USE DEF IInv
<1> DEFINE started == [Reclaimed[i] EXCEPT !.state = "running",
                                           !.lease = WorkLease, !.token = w]
<1>1. /\ worker[w] = Idle
      /\ i \in Leasable(Reclaimed, Lane[w])
      /\ row' = [Reclaimed EXCEPT ![i] = started]
      /\ worker' = [worker EXCEPT ![w] =
                      [phase |-> "executing", item |-> i, stall |-> StallAfter]]
      /\ owed' = [owed EXCEPT ![i] = FALSE]
  BY DEF Start, First, Reclaimed
<1>2. /\ Reclaimed[i].state = "pending"
      /\ \A j \in Items : Reclaimed[j].state = "running" =>
            j # i /\ ~SameConversation(i, j)
  <2>1. Reclaimed[i].state = "pending"  BY <1>1 DEF Leasable
  <2>2. ASSUME NEW j \in Items, Reclaimed[j].state = "running", SameConversation(i, j)
        PROVE  FALSE
    <3>1. Reclaimed[j].lease > 0  BY <2>2, ReclaimedFacts
    <3>2. j # i  BY <2>1, <2>2
    <3> QED  BY <1>1, <2>2, <3>1, <3>2 DEF Leasable, SameConversation
  <2> QED  BY <2>1, <2>2
<1>3. started \in Row
  <2>1. Reclaimed[i] \in Row  BY ReclaimedFacts
  <2>2. WorkLease \in 0..WorkLease  BY ConfigAssumption
  <2>3. w # NoWorker  BY ConfigAssumption
  <2> QED  BY <2>1, <2>2, <2>3 DEF Row
<1>4. /\ started.state = "running" /\ started.lease = WorkLease /\ started.token = w
      /\ started.deadline = row[i].deadline
  BY ReclaimedFacts DEF Row
<1> HIDE DEF started
<1>5. \A j \in Items : row'[j] = IF j = i THEN started ELSE Reclaimed[j]
  BY <1>1 DEF Reclaimed
<1>6. /\ \A v \in Workers \ {w} : worker'[v] = worker[v]
      /\ worker'[w] = [phase |-> "executing", item |-> i, stall |-> StallAfter]
  BY <1>1 DEF TypeOK
<1>7. ~Executing(w)  BY <1>1 DEF Executing, Idle
<1>8. \A j \in Items : Running(j) => row[j].token \in Workers \ {w}
  BY <1>1 DEF TokenNamesHolder, Idle
<1>9. TypeOK'
  <2>1. row' \in [Items -> Row]  BY <1>1, <1>3, ReclaimedFacts DEF Reclaimed
  <2>2. StallAfter \in 0..StallAfter  BY ConfigAssumption
  <2> QED  BY <2>1, <2>2, <1>1 DEF TypeOK, Busy
<1>10. LeaseOutlivesHandler'
  <2> SUFFICES ASSUME NEW v \in Workers, worker'[v].phase = "executing"
               PROVE  /\ row'[worker'[v].item].state = "running"
                      /\ row'[worker'[v].item].token = v
                      /\ worker'[v].stall < row'[worker'[v].item].lease
    BY DEF LeaseOutlivesHandler, Executing, Running
  <2>1. CASE v = w  BY <2>1, <1>4, <1>5, <1>6, ConfigAssumption
  <2>2. CASE v # w
    <3> DEFINE j == worker[v].item
    <3>1. /\ Executing(v) /\ worker'[v] = worker[v]
          /\ j \in Items /\ worker[v].stall \in 0..StallAfter
      BY <2>2, <1>6 DEF Executing, TypeOK, Busy, Idle
    <3>2. Running(j) /\ row[j].token = v /\ worker[v].stall < row[j].lease
      BY <3>1 DEF LeaseOutlivesHandler
    <3>3. row[j].lease \in 0..WorkLease  BY <3>1 DEF TypeOK, Row
    <3>4. row[j].lease # 0  BY <3>1, <3>2, <3>3, ConfigAssumption
    <3>5. Reclaimed[j] = row[j]  BY <3>1, <3>4 DEF Reclaimed
    <3>6. j # i  BY <3>2, <3>5, <1>2 DEF Running
    <3> QED  BY <3>1, <3>2, <3>5, <3>6, <1>5 DEF Running
  <2> QED  BY <2>1, <2>2
<1>11. TokenNamesHolder'
  <2> SUFFICES ASSUME NEW j \in Items, row'[j].state = "running"
               PROVE  /\ row'[j].token \in Workers
                      /\ worker'[row'[j].token].phase # "idle"
                      /\ worker'[row'[j].token].item = j
    BY DEF TokenNamesHolder, Running
  <2>1. CASE j = i  BY <2>1, <1>4, <1>5, <1>6
  <2>2. CASE j # i
    <3>1. Running(j) /\ row'[j] = row[j]  BY <2>2, <1>5, ReclaimedFacts
    <3> QED  BY <3>1, <1>6, <1>8 DEF TokenNamesHolder
  <2> QED  BY <2>1, <2>2
<1>12. OneRunningPerConversation'
  <2> SUFFICES ASSUME NEW j \in Items, NEW k \in Items, j # k,
                      row'[j].state = "running", row'[k].state = "running"
               PROVE  ~SameConversation(j, k)
    BY DEF OneRunningPerConversation, Running, SameConversation
  <2>1. CASE j = i  BY <2>1, <1>2, <1>5
  <2>2. CASE k = i  BY <2>2, <1>2, <1>5 DEF SameConversation
  <2>3. CASE j # i /\ k # i
    BY <2>3, <1>5, ReclaimedFacts DEF OneRunningPerConversation
  <2> QED  BY <2>1, <2>2, <2>3
<1>13. DeadlineOnlyWhereSet'
  BY <1>4, <1>5, ReclaimedFacts DEF DeadlineOnlyWhereSet
<1>14. NoLostRequest'
  <2> SUFFICES ASSUME NEW j \in Items, owed'[j]
               PROVE  \/ row'[j].state = "pending"
                      \/ /\ row'[j].state = "running"
                         /\ \/ row'[j].rerun # Never
                            \/ /\ worker'[row'[j].token].phase = "finishing"
                               /\ worker'[row'[j].token].result \in {"again", "error"}
    BY DEF NoLostRequest, Running
  <2>1. j # i /\ owed[j]  BY <1>1 DEF TypeOK
  <2>2. CASE Reclaimed[j] = row[j]
    BY <2>1, <2>2, <1>5, <1>6, <1>8 DEF NoLostRequest, Running
  <2>3. CASE Reclaimed[j] # row[j]  BY <2>1, <2>3, <1>5, ReclaimedFacts
  <2> QED  BY <2>2, <2>3
<1>15. DrainsPersist'
  <2> SUFFICES ASSUME NEW j \in Recurring
               PROVE  row'[j].state \in {"pending", "running"}
    BY DEF DrainsPersist
  <2>1. j \in Items /\ row[j].state \in {"pending", "running"}
    BY ConfigAssumption DEF DrainsPersist
  <2> QED  BY <2>1, <1>4, <1>5, ReclaimedFacts
<1> QED  BY <1>9, <1>10, <1>11, <1>12, <1>13, <1>14, <1>15

(* What the holder's store call writes: the row is no longer running, and it *)
(* disappears only if its job is not a drain's, ended well and was not asked *)
(* for again; it fails only at a deadline.                                   *)
LEMMA OutcomeFacts ==
    ASSUME IInv, NEW i \in Items, NEW next \in Delay,
           NEW result \in {"done", "empty", "again", "error"}
    PROVE  LET n == Outcome(i, result, next) IN
           /\ n \in Row
           /\ n.state \in {"absent", "pending", "failed"}
           /\ n.state = "absent" => /\ i \notin Recurring
                                    /\ result \in {"done", "empty"}
                                     /\ row[i].rerun = Never
           /\ n.state = "failed" => row[i].deadline # Never
           /\ n.deadline \in {row[i].deadline, Never}
<1>0. 0 \in Delay /\ Never \in Deadline
  BY ConfigAssumption DEF Delay, Deadline
<1>1. row[i] \in Row  BY DEF IInv, TypeOK
<1>2. /\ Completed(row[i]) \in Row /\ Retried(row[i], next) \in Row
      /\ Deferred(row[i], next) \in Row /\ Deferred(row[i], 0) \in Row
  BY <1>0, <1>1, RowTypes
<1>3. CASE result \in {"done", "empty"} /\ i \notin Recurring
  BY <1>1, <1>2, <1>3, ReleasedFacts DEF Outcome, Absent
<1>4. CASE result = "error"
  BY <1>1, <1>2, <1>4, ReleasedFacts DEF Outcome
<1>5. CASE result = "done" /\ i \in Recurring
  BY <1>0, <1>1, <1>2, <1>5, ReleasedFacts DEF Outcome
<1>6. CASE result = "again" \/ (result = "empty" /\ i \in Recurring)
  BY <1>1, <1>2, <1>6, ReleasedFacts DEF Outcome
<1> QED  BY <1>3, <1>4, <1>5, <1>6

LEMMA FinishStep ==
    ASSUME IInv, NEW w \in Workers, NEW next \in Delay, Finish(w, next)
    PROVE  IInv'
<1> USE DEF IInv
<1> DEFINE i == worker[w].item
           result == worker[w].result
           new == Outcome(i, result, next)
           held == Running(i) /\ row[i].token = w
<1>1. /\ Finishing(w) /\ i \in Items /\ result \in {"done", "empty", "again", "error"}
      /\ row' = IF held THEN [row EXCEPT ![i] = new] ELSE row
      /\ owed' = [owed EXCEPT ![i] = @ /\ ~(held /\ new.state = "failed")]
      /\ worker' = [worker EXCEPT ![w] = Idle]
  BY DEF Finish, Finishing, TypeOK, Busy, Idle
<1>2. /\ new \in Row
      /\ new.state \in {"absent", "pending", "failed"}
      /\ new.state = "absent" => /\ i \notin Recurring
                                 /\ result \in {"done", "empty"}
                                 /\ row[i].rerun = Never
      /\ new.state = "failed" => row[i].deadline # Never
      /\ new.deadline \in {row[i].deadline, Never}
  BY <1>1, OutcomeFacts
<1>3. ~Executing(w)  BY <1>1 DEF Executing, Finishing
<1> HIDE DEF new
<1>4. \A j \in Items : row'[j] = IF held /\ j = i THEN new ELSE row[j]
  BY <1>1 DEF TypeOK
<1>5. worker'[w] = Idle /\ \A v \in Workers \ {w} : worker'[v] = worker[v]
  BY <1>1 DEF TypeOK
<1>6. \A j \in Items : row'[j].state = "running" =>
        Running(j) /\ row'[j] = row[j] /\ row[j].token \in Workers \ {w}
  BY <1>2, <1>4 DEF TokenNamesHolder, Running
<1>7. TypeOK'
  <2>1. row' \in [Items -> Row]  BY <1>1, <1>2 DEF TypeOK
  <2>2. owed' \in [Items -> BOOLEAN]  BY <1>1 DEF TypeOK
  <2> QED  BY <2>1, <2>2, <1>1 DEF TypeOK
<1>8. LeaseOutlivesHandler'
  <2> SUFFICES ASSUME NEW v \in Workers, worker'[v].phase = "executing"
               PROVE  /\ row'[worker'[v].item].state = "running"
                      /\ row'[worker'[v].item].token = v
                      /\ worker'[v].stall < row'[worker'[v].item].lease
    BY DEF LeaseOutlivesHandler, Executing, Running
  <2>1. v # w /\ worker'[v] = worker[v] /\ Executing(v)
    BY <1>5 DEF Idle, Executing
  <2>2. worker[v].item \in Items  BY <2>1 DEF TypeOK, Busy, Idle, Executing
  <2> QED  BY <2>1, <2>2, <1>4 DEF LeaseOutlivesHandler, Running
<1>9. TokenNamesHolder'
  BY <1>5, <1>6 DEF TokenNamesHolder, Running
<1>10. OneRunningPerConversation'
  BY <1>6 DEF OneRunningPerConversation, Running, SameConversation
<1>11. DeadlineOnlyWhereSet'  BY <1>2, <1>4 DEF DeadlineOnlyWhereSet
<1>12. NoLostRequest'
  <2> SUFFICES ASSUME NEW j \in Items, owed'[j]
               PROVE  \/ row'[j].state = "pending"
                      \/ /\ row'[j].state = "running"
                         /\ \/ row'[j].rerun # Never
                            \/ /\ worker'[row'[j].token].phase = "finishing"
                               /\ worker'[row'[j].token].result \in {"again", "error"}
    BY DEF NoLostRequest, Running
  <2>1. owed[j]  BY <1>1 DEF TypeOK
  <2>2. CASE held /\ j = i
    <3>1. new.state # "failed"  BY <2>2, <1>1 DEF TypeOK
    <3>2. row[i].rerun # Never \/ result \in {"again", "error"}
      BY <2>1, <2>2 DEF NoLostRequest, Running
    <3>3. new.state # "absent"  BY <3>2, <1>2
    <3> QED  BY <2>2, <3>1, <3>3, <1>2, <1>4
  <2>3. CASE ~(held /\ j = i)
    <3>1. row'[j] = row[j]  BY <2>3, <1>4
    <3> QED  BY <2>1, <3>1, <1>5, <1>6 DEF NoLostRequest, Running
  <2> QED  BY <2>2, <2>3
<1>13. DrainsPersist'
  <2> SUFFICES ASSUME NEW j \in Recurring
               PROVE  row'[j].state \in {"pending", "running"}
    BY DEF DrainsPersist
  <2>1. j \in Items /\ row[j].state \in {"pending", "running"}
    BY ConfigAssumption DEF DrainsPersist
  <2>2. row[j].deadline = Never  BY <2>1, ConfigAssumption DEF DeadlineOnlyWhereSet
  <2> QED  BY <2>1, <2>2, <1>2, <1>4
<1> QED  BY <1>7, <1>8, <1>9, <1>10, <1>11, <1>12, <1>13

LEMMA RestartStep ==
    ASSUME IInv, Restart
    PROVE  IInv'
<1> USE DEF IInv
<1> DEFINE recovered == [j \in Items |-> IF Running(j) THEN Released(row[j]) ELSE row[j]]
<1>0. 0 \in Delay /\ Never \in Deadline  BY ConfigAssumption DEF Delay, Deadline
<1>1. \A j \in Items :
        /\ recovered[j] \in Row
        /\ recovered[j].state # "running"
        /\ Running(j) \/ row[j].state = "pending" => recovered[j].state = "pending"
        /\ recovered[j].deadline = row[j].deadline
  <2> SUFFICES ASSUME NEW j \in Items
               PROVE  LET r == IF Running(j) THEN Released(row[j]) ELSE row[j] IN
                      /\ r \in Row
                      /\ r.state # "running"
                      /\ Running(j) \/ row[j].state = "pending" => r.state = "pending"
                      /\ r.deadline = row[j].deadline
    OBVIOUS
  <2>1. row[j] \in Row  BY DEF TypeOK
  <2> QED  BY <2>1, <1>0, RowTypes, ReleasedFacts DEF Running
<1>2. /\ row' = [j \in Items |-> IF j \in Recurring
                                 THEN Enqueued(recovered[j], 0, Never) ELSE recovered[j]]
      /\ worker' = [v \in Workers |-> Idle]
      /\ owed' = [j \in Items |->
                    \/ owed[j]
                    \/ j \in Recurring
                    \/ \E v \in Workers : Executing(v) /\ worker[v].item = j]
  BY DEF Restart
<1> HIDE DEF recovered
<1>3. \A j \in Items :
        /\ row'[j] \in Row
        /\ row'[j].state # "running"
        /\ Running(j) \/ row[j].state = "pending" => row'[j].state = "pending"
        /\ j \in Recurring => row'[j].state = "pending"
        /\ row'[j].deadline \in {row[j].deadline, Never}
  <2> SUFFICES ASSUME NEW j \in Items
               PROVE  /\ row'[j] \in Row
                      /\ row'[j].state # "running"
                      /\ Running(j) \/ row[j].state = "pending" => row'[j].state = "pending"
                      /\ j \in Recurring => row'[j].state = "pending"
                      /\ row'[j].deadline \in {row[j].deadline, Never}
    OBVIOUS
  <2>1. CASE j \in Recurring
    <3> DEFINE e == Enqueued(recovered[j], 0, Never)
    <3>1. row'[j] = e  BY <2>1, <1>2
    <3>2. /\ e \in Row
          /\ e.state \in {"pending", "running"}
          /\ e.state = "running" <=> recovered[j].state = "running"
          /\ e.deadline \in {recovered[j].deadline, Never}
      BY <1>0, <1>1, RowTypes, EnqueuedFacts
    <3> QED  BY <3>1, <3>2, <1>1
  <2>2. CASE j \notin Recurring  BY <2>2, <1>1, <1>2
  <2> QED  BY <2>1, <2>2
<1>4. TypeOK'
  <2>1. row' \in [Items -> Row]  BY <1>2, <1>3
  <2>2. owed' \in [Items -> BOOLEAN]  BY <1>2 DEF TypeOK
  <2> QED  BY <2>1, <2>2, <1>2 DEF TypeOK
<1>5. LeaseOutlivesHandler'  BY <1>2 DEF LeaseOutlivesHandler, Executing, Idle
<1>6. TokenNamesHolder' /\ OneRunningPerConversation'
  BY <1>3 DEF TokenNamesHolder, OneRunningPerConversation, Running
<1>7. DeadlineOnlyWhereSet'  BY <1>3 DEF DeadlineOnlyWhereSet
<1>8. NoLostRequest'
  <2> SUFFICES ASSUME NEW j \in Items, owed'[j]
               PROVE  row'[j].state = "pending"
    BY DEF NoLostRequest
  <2>1. CASE owed[j]  BY <2>1, <1>3 DEF NoLostRequest
  <2>2. CASE \E v \in Workers : Executing(v) /\ worker[v].item = j
    BY <2>2, <1>3 DEF LeaseOutlivesHandler
  <2> QED  BY <2>1, <2>2, <1>2, <1>3
<1>9. DrainsPersist'  BY <1>3, ConfigAssumption DEF DrainsPersist
<1> QED  BY <1>4, <1>5, <1>6, <1>7, <1>8, <1>9

LEMMA TickStep ==
    ASSUME IInv, Tick
    PROVE  IInv'
<1> USE DEF IInv
<1>1. /\ \A w \in Workers : Executing(w) => worker[w].stall > 0
      /\ row' = [j \in Items |->
                   [row[j] EXCEPT !.available = Elapse(@), !.lease = Elapse(@),
                                  !.rerun = Elapse(@), !.deadline = Elapse(@)]]
      /\ worker' = [w \in Workers |->
                      IF Executing(w) THEN [worker[w] EXCEPT !.stall = @ - 1]
                      ELSE worker[w]]
      /\ owed' = owed
  BY DEF Tick
<1>2. \A j \in Items :
        /\ row'[j] \in Row
        /\ row'[j].state = row[j].state /\ row'[j].token = row[j].token
        /\ row'[j].lease = Elapse(row[j].lease)
        /\ row'[j].rerun = Never <=> row[j].rerun = Never
        /\ row'[j].deadline = Never <=> row[j].deadline = Never
  <2> SUFFICES ASSUME NEW j \in Items
               PROVE  /\ row'[j] \in Row
                      /\ row'[j].state = row[j].state /\ row'[j].token = row[j].token
                      /\ row'[j].lease = Elapse(row[j].lease)
                      /\ row'[j].rerun = Never <=> row[j].rerun = Never
                      /\ row'[j].deadline = Never <=> row[j].deadline = Never
    OBVIOUS
  <2>1. row[j] \in Row  BY DEF TypeOK
  <2>2. /\ Elapse(row[j].available) \in Delay
        /\ Elapse(row[j].lease) \in 0..WorkLease
        /\ Elapse(row[j].rerun) \in Time
        /\ Elapse(row[j].rerun) = Never <=> row[j].rerun = Never
        /\ Elapse(row[j].deadline) \in Deadline
        /\ Elapse(row[j].deadline) = Never <=> row[j].deadline = Never
    BY <2>1, ElapseTypes, ConfigAssumption DEF Row, Delay, Time, Deadline
  <2>3. row'[j] = [row[j] EXCEPT !.available = Elapse(@), !.lease = Elapse(@),
                                 !.rerun = Elapse(@), !.deadline = Elapse(@)]
    BY <1>1
  <2> QED  BY <2>1, <2>2, <2>3 DEF Row
<1>3. \A w \in Workers :
        /\ worker'[w] \in Busy \cup {Idle}
        /\ worker'[w].phase = worker[w].phase
        /\ worker[w].phase # "idle" => worker'[w].item = worker[w].item
        /\ Finishing(w) => worker'[w] = worker[w]
        /\ Executing(w) => worker'[w].stall = worker[w].stall - 1
  <2> SUFFICES ASSUME NEW w \in Workers
               PROVE  /\ worker'[w] \in Busy \cup {Idle}
                      /\ worker'[w].phase = worker[w].phase
                      /\ worker[w].phase # "idle" => worker'[w].item = worker[w].item
                      /\ Finishing(w) => worker'[w] = worker[w]
                      /\ Executing(w) => worker'[w].stall = worker[w].stall - 1
    OBVIOUS
  <2>1. CASE Executing(w)
    <3>1. worker[w] \in [phase : {"executing"}, item : Items, stall : 0..StallAfter]
      BY <2>1 DEF TypeOK, Busy, Idle, Executing
    <3>2. worker[w].stall \in 0..StallAfter /\ worker[w].stall > 0
      BY <3>1, <2>1, <1>1
    <3>4. worker[w].stall - 1 \in 0..StallAfter  BY <3>2, ConfigAssumption
    <3>3. worker'[w] = [worker[w] EXCEPT !.stall = @ - 1]  BY <2>1, <1>1
    <3> QED  BY <3>1, <3>3, <3>4 DEF Busy, Finishing
  <2>2. CASE ~Executing(w)  BY <2>2, <1>1 DEF TypeOK
  <2> QED  BY <2>1, <2>2
<1>4. TypeOK'
  <2>1. row' \in [Items -> Row]  BY <1>1, <1>2
  <2>2. worker' \in [Workers -> Busy \cup {Idle}]  BY <1>1, <1>3
  <2> QED  BY <2>1, <2>2, <1>1 DEF TypeOK
<1>5. LeaseOutlivesHandler'
  <2> SUFFICES ASSUME NEW w \in Workers, worker'[w].phase = "executing"
               PROVE  /\ row'[worker'[w].item].state = "running"
                      /\ row'[worker'[w].item].token = w
                      /\ worker'[w].stall < row'[worker'[w].item].lease
    BY DEF LeaseOutlivesHandler, Executing, Running
  <2> DEFINE j == worker[w].item
  <2>1. /\ Executing(w) /\ j \in Items /\ worker'[w].item = j
        /\ worker[w].stall \in 0..StallAfter /\ worker'[w].stall = worker[w].stall - 1
    BY <1>3 DEF Executing, TypeOK, Busy, Idle
  <2>2. Running(j) /\ row[j].token = w /\ worker[w].stall < row[j].lease
    BY <2>1 DEF LeaseOutlivesHandler
  <2>3. row[j].lease \in 0..WorkLease  BY <2>1 DEF TypeOK, Row
  <2>4. row'[j].lease = row[j].lease - 1
    BY <1>2, <2>1, <2>2, <2>3, ConfigAssumption DEF Elapse
  <2> QED  BY <1>2, <2>1, <2>2, <2>3, <2>4, ConfigAssumption DEF Running
<1>6. TokenNamesHolder'  BY <1>2, <1>3 DEF TokenNamesHolder, Running
<1>7. OneRunningPerConversation'
  BY <1>2 DEF OneRunningPerConversation, Running, SameConversation
<1>8. DeadlineOnlyWhereSet'  BY <1>2 DEF DeadlineOnlyWhereSet
<1>9. NoLostRequest'
  <2> SUFFICES ASSUME NEW j \in Items, owed'[j]
               PROVE  \/ row'[j].state = "pending"
                      \/ /\ row'[j].state = "running"
                         /\ \/ row'[j].rerun # Never
                            \/ /\ worker'[row'[j].token].phase = "finishing"
                               /\ worker'[row'[j].token].result \in {"again", "error"}
    BY DEF NoLostRequest, Running
  <2>1. owed[j]  BY <1>1
  <2>2. CASE row[j].state = "pending"  BY <2>2, <1>2
  <2>3. CASE Running(j)
    <3>1. row[j].token \in Workers  BY <2>3 DEF TokenNamesHolder
    <3>2. CASE row[j].rerun # Never  BY <3>2, <2>3, <1>2 DEF Running
    <3>3. CASE /\ worker[row[j].token].phase = "finishing"
               /\ worker[row[j].token].result \in {"again", "error"}
      <4>1. worker'[row[j].token] = worker[row[j].token]
        BY <3>1, <3>3, <1>3 DEF Finishing
      <4> QED  BY <4>1, <3>3, <2>3, <1>2 DEF Running
    <3> QED  BY <2>1, <2>3, <3>2, <3>3 DEF NoLostRequest, Running
  <2> QED  BY <2>1, <2>2, <2>3 DEF NoLostRequest
<1>10. DrainsPersist'  BY <1>2, ConfigAssumption DEF DrainsPersist
<1> QED  BY <1>4, <1>5, <1>6, <1>7, <1>8, <1>9, <1>10
-----------------------------------------------------------------------------
LEMMA InitIInv == Init => IInv
<1> SUFFICES ASSUME Init PROVE IInv
  OBVIOUS
<1> USE DEF Init
<1>0. 0 \in Delay /\ Never \in Deadline  BY ConfigAssumption DEF Delay, Deadline
<1>1. Absent \in Row /\ Absent.state = "absent" /\ Absent.deadline = Never
  BY ConfigAssumption DEF Absent, Row, Delay, Time, Deadline, Never
<1> DEFINE e == Enqueued(Absent, 0, Never)
<1>2. e \in Row /\ e.state = "pending" /\ e.deadline = Never
  BY <1>0, <1>1, RowTypes, EnqueuedFacts
<1> HIDE DEF e
<1>3. \A i \in Items : row[i] = IF i \in Recurring THEN e ELSE Absent  BY DEF e
<1>4. TypeOK
  <2>1. row \in [Items -> Row]  BY <1>1, <1>2 DEF e
  <2>2. owed \in [Items -> BOOLEAN]  OBVIOUS
  <2> QED  BY <2>1, <2>2 DEF TypeOK
<1>5. LeaseOutlivesHandler  BY DEF LeaseOutlivesHandler, Executing, Idle
<1>6. TokenNamesHolder /\ OneRunningPerConversation
  BY <1>1, <1>2, <1>3 DEF TokenNamesHolder, OneRunningPerConversation, Running
<1>7. DeadlineOnlyWhereSet  BY <1>1, <1>2, <1>3 DEF DeadlineOnlyWhereSet
<1>8. NoLostRequest  BY <1>2, <1>3 DEF NoLostRequest
<1>9. DrainsPersist  BY <1>2, <1>3, ConfigAssumption DEF DrainsPersist
<1> QED  BY <1>4, <1>5, <1>6, <1>7, <1>8, <1>9 DEF IInv

LEMMA StepIInv == IInv /\ [Next]_vars => IInv'
<1> SUFFICES ASSUME IInv, [Next]_vars PROVE IInv'
  OBVIOUS
<1>1. ASSUME NEW i \in Items, NEW at \in Delay, NEW dl \in Deadline,
             Enqueue(i, at, dl) \/ Ensure(i, at, dl)
      PROVE  IInv'
  BY <1>1, EnqueueStep DEF Ensure
<1>2. ASSUME NEW w \in Workers, NEW i \in Items, Start(w, i) PROVE IInv'
  BY <1>2, StartStep
<1>3. ASSUME NEW w \in Workers, NEW result \in {"done", "empty", "again", "error"},
             Return(w, result)
      PROVE  IInv'
  BY <1>3, ReturnStep
<1>4. ASSUME NEW w \in Workers, NEW next \in Delay, Finish(w, next) PROVE IInv'
  BY <1>4, FinishStep
<1>5. CASE Restart  BY <1>5, RestartStep
<1>6. CASE Tick  BY <1>6, TickStep
<1>7. CASE UNCHANGED vars
  BY <1>7 DEF vars, IInv, TypeOK, LeaseOutlivesHandler, TokenNamesHolder,
       OneRunningPerConversation, DeadlineOnlyWhereSet, NoLostRequest, DrainsPersist,
       Executing, Running, SameConversation
<1> QED  BY <1>1, <1>2, <1>3, <1>4, <1>5, <1>6, <1>7 DEF Next

(* IInv holds in every reachable state.                                     *)
THEOREM Invariance == Spec => []IInv
BY InitIInv, StepIInv, PTL DEF Spec

(* Rows, workers and the history variable stay in their ranges.             *)
THEOREM TypeCorrect == Spec => []TypeOK
<1>1. IInv => TypeOK  BY DEF IInv
<1> QED  BY <1>1, Invariance, PTL

(* Two handlers never run at once for one item or one conversation: both    *)
(* would hold running rows, and no two running rows share a conversation.   *)
THEOREM Exclusion == Spec => []ExclusiveConversation
<1>1. IInv => ExclusiveConversation
  BY DEF IInv, ExclusiveConversation, LeaseOutlivesHandler, OneRunningPerConversation,
         TypeOK, Busy, Idle, Executing
<1> QED  BY <1>1, Invariance, PTL

(* No request is lost to a lease, a late store call or a restart.           *)
THEOREM RequestsKept == Spec => []NoLostRequest
<1>1. IInv => NoLostRequest  BY DEF IInv
<1> QED  BY <1>1, Invariance, PTL

(* A seeded drain always has its row queued or leased.                      *)
THEOREM DrainsKept == Spec => []DrainsPersist
<1>1. IInv => DrainsPersist  BY DEF IInv
<1> QED  BY <1>1, Invariance, PTL
-----------------------------------------------------------------------------
(* A lease ends only by expiry, by a restart, or by its holder's own store  *)
(* call.                                                                    *)
LEMMA StaleStep ==
    ASSUME IInv, [Next]_vars, ~Restart, NEW i \in Items, Running(i),
           ~(row'[i].state = "running" /\ row'[i].token = row[i].token)
    PROVE  \/ row[i].lease = 0
           \/ /\ Finishing(row[i].token) /\ worker[row[i].token].item = i
              /\ worker'[row[i].token] = Idle
<1> USE DEF IInv
<1>1. ASSUME NEW j \in Items, NEW at \in Delay, NEW dl \in Deadline,
             Enqueue(j, at, dl) \/ Ensure(j, at, dl)
      PROVE  FALSE
  <2>1. row' = [row EXCEPT ![j] = Enqueued(row[j], at, dl)] /\ row[j] \in Row
    BY <1>1 DEF Ensure, Enqueue, TypeOK
  <2>2. row'[i].state = "running" /\ row'[i].token = row[i].token
    BY <2>1, EnqueuedFacts DEF TypeOK, Running
  <2> QED  BY <2>2
<1>2. ASSUME NEW w \in Workers, NEW j \in Items, Start(w, j)
      PROVE  row[i].lease = 0
  <2>1. Reclaimed[j].state = "pending"  BY <1>2 DEF Start, First, Leasable
  <2>2. i # j => row'[i] = Reclaimed[i]  BY <1>2 DEF Start, Reclaimed
  <2>3. CASE i = j  BY <2>1, <2>3 DEF Reclaimed, Running
  <2>4. CASE i # j  BY <2>2, <2>4 DEF Reclaimed, Running
  <2> QED  BY <2>3, <2>4
<1>3. ASSUME NEW w \in Workers, NEW result \in {"done", "empty", "again", "error"},
             Return(w, result)
      PROVE  FALSE
  BY <1>3 DEF Return, Running
<1>4. ASSUME NEW w \in Workers, NEW next \in Delay, Finish(w, next)
      PROVE  /\ Finishing(row[i].token) /\ worker[row[i].token].item = i
             /\ worker'[row[i].token] = Idle
  <2>1. worker[w].item = i /\ row[i].token = w
    BY <1>4 DEF Finish, TypeOK, Running
  <2> QED  BY <2>1, <1>4 DEF Finish, TypeOK
<1>5. CASE Tick
  <2>1. row'[i] = [row[i] EXCEPT !.available = Elapse(@), !.lease = Elapse(@),
                                 !.rerun = Elapse(@), !.deadline = Elapse(@)]
    BY <1>5 DEF Tick
  <2> QED  BY <2>1 DEF TypeOK, Row, Running
<1>6. CASE UNCHANGED vars  BY <1>6 DEF vars, Running
<1> QED  BY <1>1, <1>2, <1>3, <1>4, <1>5, <1>6 DEF Next

(* A worker that lost its lease never ends its successor's.                 *)
THEOREM StaleRejection == Spec => StaleWorkerRejected
<1>1. IInv /\ [Next]_vars =>
        [~Restart => \A i \in Items :
           Running(i) /\ ~(row'[i].state = "running" /\ row'[i].token = row[i].token)
             => \/ row[i].lease = 0
                \/ LET w == row[i].token
                   IN Finishing(w) /\ worker[w].item = i /\ worker'[w] = Idle]_vars
  BY StaleStep
<1> QED  BY <1>1, Invariance, PTL DEF Spec, StaleWorkerRejected
-----------------------------------------------------------------------------
(* An active item's row is running, with time left on its lease.            *)
LEMMA ActiveFacts ==
    ASSUME IInv, NEW i \in ActiveItems
    PROVE  i \in Items /\ Running(i) /\ row[i].lease > 0
<1>1. PICK w \in Workers : Executing(w) /\ worker[w].item = i  BY DEF ActiveItems
<1>2. /\ i \in Items /\ worker[w].stall \in 0..StallAfter
  BY <1>1 DEF IInv, TypeOK, Busy, Idle, Executing
<1>3. Running(i) /\ worker[w].stall < row[i].lease
  BY <1>1 DEF IInv, LeaseOutlivesHandler
<1>4. row[i].lease \in 0..WorkLease  BY <1>2 DEF IInv, TypeOK, Row
<1> QED  BY <1>2, <1>3, <1>4, ConfigAssumption

(* When an item is active, before and after a step.                         *)
LEMMA ActiveMember ==
    /\ \A x : x \in ActiveItems <=> \E v \in Workers : Executing(v) /\ worker[v].item = x
    /\ \A x : x \in ActiveItems' <=>
              \E v \in Workers : Executing(v)' /\ worker'[v].item = x
BY Zenon DEF ActiveItems

(* A step that leaves every executing worker as it is leaves the active      *)
(* items as they are.                                                       *)
LEMMA SameActive ==
    ASSUME \A v \in Workers : /\ Executing(v)' <=> Executing(v)
                              /\ Executing(v) => worker'[v].item = worker[v].item
    PROVE  ActiveItems' = ActiveItems
<1>1. ASSUME NEW x PROVE x \in ActiveItems' <=> x \in ActiveItems
  <2>1. (\E v \in Workers : Executing(v)' /\ worker'[v].item = x)
          <=> \E v \in Workers : Executing(v) /\ worker[v].item = x
    BY DEF Executing
  <2> QED  BY <2>1, ActiveMember, Zenon
<1> QED  BY <1>1, Zenon

(* The active items after worker w takes up, or drops, item i.              *)
LEMMA StartActive ==
    ASSUME IInv, NEW w \in Workers, NEW i \in Items, Start(w, i)
    PROVE  ActiveItems' = ActiveItems \cup {i}
<1>1. /\ worker[w] = Idle
      /\ worker' = [worker EXCEPT ![w] =
                      [phase |-> "executing", item |-> i, stall |-> StallAfter]]
  BY DEF Start
<1>2. worker \in [Workers -> Busy \cup {Idle}]  BY DEF IInv, TypeOK
<1> QED  BY <1>1, <1>2 DEF ActiveItems, Executing, Idle

LEMMA ReturnActive ==
    ASSUME IInv, NEW w \in Workers, NEW result \in {"done", "empty", "again", "error"},
           Return(w, result)
    PROVE  worker[w].item \in ActiveItems /\ ActiveItems' = ActiveItems \ {worker[w].item}
<1>1. /\ Executing(w)
      /\ worker' = [worker EXCEPT ![w] = [phase |-> "finishing", item |-> worker[w].item,
                                          result |-> result]]
  BY DEF Return
<1>2. worker \in [Workers -> Busy \cup {Idle}]  BY DEF IInv, TypeOK
<1>3. \A v \in Workers : Executing(v) /\ worker[v].item = worker[w].item => v = w
  BY <1>1 DEF IInv, LeaseOutlivesHandler
<1>4. worker[w].item \in ActiveItems  BY <1>1, Zenon DEF ActiveItems
<1>5. \A v \in Workers : /\ Executing(v)' <=> Executing(v) /\ v # w
                         /\ v # w => worker'[v] = worker[v]
  BY <1>1, <1>2 DEF Executing
<1> QED  BY <1>3, <1>4, <1>5, ActiveMember

LEMMA JobsInit == Init => Jobs!Init
BY DEF Init, Jobs!Init, ActiveItems, Executing, Idle

LEMMA JobsStep == IInv /\ [Next]_vars => [Jobs!Next]_(Jobs!vars)
<1> SUFFICES ASSUME IInv, [Next]_vars PROVE Jobs!Next \/ UNCHANGED <<ActiveItems, owed>>
  BY DEF Jobs!vars
<1> USE DEF IInv
<1>1. ASSUME NEW i \in Items, NEW at \in Delay, NEW dl \in Deadline,
             Enqueue(i, at, dl) \/ Ensure(i, at, dl)
      PROVE  Jobs!Next
  <2>1. Jobs!Request(i)  BY <1>1 DEF Enqueue, Ensure, Jobs!Request, ActiveItems, Executing
  <2> QED  BY <2>1 DEF Jobs!Next
<1>2. ASSUME NEW w \in Workers, NEW i \in Items, Start(w, i)
      PROVE  Jobs!Next
  <2>1. ASSUME NEW j \in ActiveItems PROVE ~Jobs!SameConversation(i, j)
    <3>1. j \in Items /\ Running(j) /\ row[j].lease > 0  BY ActiveFacts
    <3>2. row[j].lease # 0  BY <3>1 DEF TypeOK, Row
    <3>3. Reclaimed[j] = row[j]  BY <3>1, <3>2 DEF Reclaimed
    <3>4. i \in Leasable(Reclaimed, Lane[w])  BY <1>2 DEF Start, First
    <3> QED  BY <3>1, <3>3, <3>4 DEF Leasable, Jobs!SameConversation, Running
  <2>2. owed' = [owed EXCEPT ![i] = FALSE]  BY <1>2 DEF Start
  <2>3. Jobs!Begin(i)  BY <1>2, <2>1, <2>2, StartActive DEF Jobs!Begin
  <2> QED  BY <2>3 DEF Jobs!Next
<1>3. ASSUME NEW w \in Workers, NEW result \in {"done", "empty", "again", "error"},
             Return(w, result)
      PROVE  Jobs!Next
  <2> DEFINE i == worker[w].item
             well == result \notin {"again", "error"}
  <2>1. i \in ActiveItems /\ ActiveItems' = ActiveItems \ {i}  BY <1>3, ReturnActive
  <2>2. i \in Items  BY <2>1, ActiveFacts
  <2>3. owed' = [owed EXCEPT ![i] = @ \/ ~well]  BY <1>3 DEF Return
  <2>4. Jobs!End(i, well)  BY <2>1, <2>3 DEF Jobs!End
  <2>5. well \in BOOLEAN  OBVIOUS
  <2> QED  BY <2>2, <2>4, <2>5 DEF Jobs!Next
<1>4. ASSUME NEW w \in Workers, NEW next \in Delay, Finish(w, next)
      PROVE  Jobs!Next \/ UNCHANGED <<ActiveItems, owed>>
  <2> DEFINE i == worker[w].item
             new == Outcome(i, worker[w].result, next)
             held == Running(i) /\ row[i].token = w
  <2>1. /\ Finishing(w) /\ i \in Items
        /\ worker[w].result \in {"done", "empty", "again", "error"}
        /\ owed' = [owed EXCEPT ![i] = @ /\ ~(held /\ new.state = "failed")]
        /\ worker' = [worker EXCEPT ![w] = Idle]
    BY <1>4 DEF Finish, Finishing, TypeOK, Busy, Idle
  <2>2. ActiveItems' = ActiveItems
    <3>1. \A v \in Workers : /\ Executing(v)' <=> Executing(v)
                             /\ Executing(v) => worker'[v].item = worker[v].item
      BY <2>1 DEF Executing, Finishing, Idle, TypeOK
    <3> QED  BY <3>1, SameActive
  <2>3. CASE held /\ new.state = "failed"
    <3>1. i \in Deadlined  BY <2>1, <2>3, OutcomeFacts DEF DeadlineOnlyWhereSet
    <3>2. i \notin ActiveItems
      BY <2>1, <2>3 DEF ActiveItems, LeaseOutlivesHandler, Executing, Finishing
    <3>3. owed' = [owed EXCEPT ![i] = FALSE]  BY <2>1, <2>3
    <3>4. Jobs!GiveUp(i)  BY <3>1, <3>2, <3>3, <2>2 DEF Jobs!GiveUp
    <3> QED  BY <2>1, <3>4 DEF Jobs!Next
  <2>4. CASE ~(held /\ new.state = "failed")
    <3>1. owed' = owed  BY <2>1, <2>4 DEF TypeOK
    <3> QED  BY <2>2, <3>1
  <2> QED  BY <2>3, <2>4
<1>5. CASE Restart
  <2>1. ActiveItems' = {}  BY <1>5 DEF Restart, ActiveItems, Executing, Idle
  <2>2. owed' \in [Items -> BOOLEAN]  BY <1>5 DEF Restart, TypeOK
  <2>3. \A i \in Items : owed[i] \/ i \in ActiveItems => owed'[i]
    BY <1>5 DEF Restart, ActiveItems
  <2>4. Jobs!Halt  BY <2>1, <2>2, <2>3 DEF Jobs!Halt
  <2> QED  BY <2>4 DEF Jobs!Next
<1>6. CASE Tick
  <2>1. \A v \in Workers : /\ Executing(v)' <=> Executing(v)
                           /\ Executing(v) => worker'[v].item = worker[v].item
    BY <1>6 DEF Tick, Executing, TypeOK, Busy, Idle
  <2>2. ActiveItems' = ActiveItems  BY <2>1, SameActive
  <2> QED  BY <2>2, <1>6 DEF Tick
<1>7. CASE UNCHANGED vars  BY <1>7 DEF vars, ActiveItems, Executing
<1> QED  BY <1>1, <1>2, <1>3, <1>4, <1>5, <1>6, <1>7 DEF Next

(* The durable scheduler, rows, leases, tokens and clocks included,         *)
(* implements one-at-a-time conversation jobs that lose no request.         *)
THEOREM Refinement == Spec => ImplementsJobs
BY JobsInit, JobsStep, Invariance, PTL DEF Spec, ImplementsJobs, Jobs!Spec
=============================================================================
