------------------------------ MODULE WorkQueue ------------------------------
(***************************************************************************)
(* The durable scheduler: the work_items table of internal/store/work.go   *)
(* and the worker goroutines of internal/service/scheduler.go.             *)
(*                                                                         *)
(* A row is keyed by (kind, subject) -- an item here -- and carries its    *)
(* state, the time it is available from, and, while a worker holds it, a   *)
(* lease and the lease token.  Each store call is one SQLite transaction   *)
(* and so one action; between a handler's return and the store call that   *)
(* records it the worker may be delayed for any length of time.            *)
(*                                                                         *)
(* Times are countdowns from now: 0 is "due" or "expired", and Tick lets   *)
(* one unit pass.  Equal-priority due rows are leased oldest first by the  *)
(* code; a countdown forgets how overdue a row is, so here any of them may *)
(* be leased.                                                              *)
(***************************************************************************)
EXTENDS Integers

CONSTANTS
    Items,       \* (kind, subject) pairs
    Workers,     \* scheduler goroutines
    Lane,        \* the lane an item is queued on or a worker serves
    Key,         \* the conversation key an item carries
    NoKey,       \* the empty conversation key
    Priority,    \* the lease order: lower first
    Recurring,   \* the drains: items deferred again after every run
    Deadlined,   \* items enqueued with a deadline
    WorkLease,   \* limits.work_lease
    StallAfter,  \* limits.worker_stall_after: the handler's context timeout
    MaxDelay,    \* bound on how far ahead an item is scheduled
    MaxWindow,   \* bound on how far ahead a deadline is
    NoWorker     \* the empty lease token

ASSUME ConfigAssumption ==
    /\ \A i \in Items : Priority[i] \in Nat
    /\ Recurring \subseteq Items
    /\ Deadlined \subseteq Items \ Recurring
    /\ WorkLease \in Nat
    /\ StallAfter \in Nat
    /\ StallAfter < WorkLease    \* config.go rejects a lease within the stall
    /\ MaxDelay \in Nat
    /\ MaxWindow \in Nat
    /\ NoWorker \notin Workers

VARIABLES
    row,      \* Items -> the work_items row
    worker,   \* Workers -> what the goroutine is doing
    owed      \* Items -> a request no handler has yet answered (history only)

vars == <<row, worker, owed>>
-----------------------------------------------------------------------------
Never == -1                            \* a NULL time
Delay == 0..MaxDelay
Time == Delay \cup {Never}
Deadline == 0..MaxWindow \cup {Never}

(* A lease token is random, 128 bits, and drawn for one lease; a worker has *)
(* at most one lease at a time, so the token is named by the worker.        *)
(* A row has a token exactly while it is running.                            *)
Row == {r \in [state : {"absent", "pending", "running", "failed"},
               available : Delay, lease : 0..WorkLease,
               token : Workers \cup {NoWorker}, rerun : Time, deadline : Deadline] :
          r.state = "running" <=> r.token # NoWorker}

Absent == [state |-> "absent", available |-> 0, lease |-> 0,
           token |-> NoWorker, rerun |-> Never, deadline |-> Never]

Idle == [phase |-> "idle"]

Busy == [phase : {"executing"}, item : Items, stall : 0..StallAfter]
          \cup [phase : {"finishing"}, item : Items,
                result : {"done", "empty", "again", "error"}]

Executing(w) == worker[w].phase = "executing"
Finishing(w) == worker[w].phase = "finishing"
Running(i) == row[i].state = "running"

SameConversation(i, j) == i = j \/ (Key[i] = Key[j] /\ Key[i] # NoKey)

Earlier(s, t) == IF s <= t THEN s ELSE t
Elapse(t) == IF t > 0 THEN t - 1 ELSE t
-----------------------------------------------------------------------------
(* enqueueWorkTx: INSERT ... ON CONFLICT DO UPDATE.  A running row keeps its *)
(* lease and remembers the earliest request in rerun_at; any other row --    *)
(* failed ones too -- becomes pending no later than it was.  Lane, key and   *)
(* deadline are the same at every call for one item.                         *)
Enqueued(r, at, dl) ==
    CASE r.state = "absent" ->
           [Absent EXCEPT !.state = "pending", !.available = at, !.deadline = dl]
      [] r.state = "running" ->
           [r EXCEPT !.rerun = IF r.rerun = Never THEN at ELSE Earlier(r.rerun, at)]
      [] OTHER ->
           [r EXCEPT !.state = "pending", !.available = Earlier(r.available, at)]

(* A lease given up by expiry or restart.  available_at becomes the earlier *)
(* of rerun_at and updated_at, and updated_at is never in the future.       *)
Released(r) == [r EXCEPT !.state = "pending", !.available = 0, !.lease = 0,
                         !.token = NoWorker, !.rerun = Never]

(* Mutated: a lease is reclaimed one unit before it expires. *)
ReclaimedEarly == [i \in Items |->
                     IF Running(i) /\ row[i].lease <= 1 THEN Released(row[i]) ELSE row[i]]

Reclaimed == [i \in Items |->
                IF Running(i) /\ row[i].lease = 0 THEN Released(row[i]) ELSE row[i]]

(* Mutated: the conversation key is not consulted. *)
LeasableUnkeyed(rows, lane) ==
    {i \in Items : Lane[i] = lane /\ rows[i].state = "pending" /\ rows[i].available = 0}

(* Mutated: a queued row of the conversation blocks as a running one does. *)
LeasableBehindPending(rows, lane) ==
    {i \in LeasableUnkeyed(rows, lane) :
        Key[i] = NoKey \/ ~ \E j \in Items \ {i} : Key[j] = Key[i] /\ rows[j].state # "absent"}

(* The rows LeaseWork's SELECT would return for a lane, after the reclaim.  *)
Leasable(rows, lane) ==
    {i \in Items :
        /\ Lane[i] = lane
        /\ rows[i].state = "pending"
        /\ rows[i].available = 0
        /\ \/ Key[i] = NoKey
           \/ ~ \E j \in Items : /\ Key[j] = Key[i]
                                 /\ rows[j].state = "running"
                                 /\ rows[j].lease > 0}

First(S) == {i \in S : \A j \in S : Priority[i] <= Priority[j]}
-----------------------------------------------------------------------------
(* Startup: every drain has been seeded, due now, and no worker has run.    *)
Init ==
    /\ row = [i \in Items |->
                IF i \in Recurring THEN Enqueued(Absent, 0, Never) ELSE Absent]
    /\ worker = [w \in Workers |-> Idle]
    /\ owed = [i \in Items |-> i \in Recurring]

(* Any caller of EnqueueWork: Slack input, a result operation, an approval, *)
(* the handler of the item itself.                                          *)
Enqueue(i, at, dl) ==
    /\ dl \in (IF i \in Deadlined THEN 0..MaxWindow ELSE {Never})
    /\ row' = [row EXCEPT ![i] = Enqueued(row[i], at, dl)]
    /\ owed' = [owed EXCEPT ![i] = TRUE]
    /\ UNCHANGED worker

(* EnsureWork: ON CONFLICT DO NOTHING, so it asks for nothing of a live row. *)
Ensure(i, at, dl) ==
    /\ row[i].state = "absent"
    /\ Enqueue(i, at, dl)

(* LeaseWork, and the handler it starts.  The reclaim of expired leases and *)
(* the lease are one transaction: when no row can be leased both roll back. *)
Start(w, i) ==
    /\ worker[w] = Idle
    /\ i \in First(Leasable(Reclaimed, Lane[w]))
    /\ row' = [Reclaimed EXCEPT ![i].state = "running",
                                ![i].lease = WorkLease, ![i].token = w]
    /\ worker' = [worker EXCEPT ![w] =
                    [phase |-> "executing", item |-> i, stall |-> StallAfter]]
    /\ owed' = [owed EXCEPT ![i] = FALSE]

(* The handler returns: nil, ErrNotFound, a scheduledWorkDeferral, or any   *)
(* other error, its own context's expiry included.  After the last two the  *)
(* work is still owed.                                                      *)
Return(w, result) ==
    /\ Executing(w)
    /\ LET i == worker[w].item IN
         /\ worker' = [worker EXCEPT ![w] =
                         [phase |-> "finishing", item |-> i, result |-> result]]
         /\ owed' = [owed EXCEPT ![i] = @ \/ result \in {"again", "error"}]
    /\ UNCHANGED row

(* Mutated: completion forgets the rerun asked for meanwhile. *)
CompletedAlways(r) == Absent

(* What handleScheduledWork writes for each result.  CompleteWork deletes   *)
(* the row, or queues the rerun a request asked for meanwhile.  DeferWork   *)
(* and RetryWork leave rerun_at as it is.                                   *)
Completed(r) ==
    IF r.rerun = Never THEN Absent
    ELSE [Released(r) EXCEPT !.available = r.rerun]

(* Mutated: a deferred row keeps its lease token. *)
DeferredLeased(r, next) == [r EXCEPT !.state = "pending", !.available = next, !.lease = 0]

Deferred(r, next) == [Released(r) EXCEPT !.available = next, !.rerun = r.rerun]

Retried(r, next) ==
    [Deferred(r, next) EXCEPT !.state =
        IF r.deadline # Never /\ next >= r.deadline THEN "failed" ELSE "pending"]

(* Mutated: a drain that ends well is completed like any other item. *)
OutcomeCompletesDrains(i, result, next) ==
    CASE result \in {"done", "empty"} -> Completed(row[i])
      [] result = "error" -> Retried(row[i], next)
      [] OTHER -> Deferred(row[i], next)

Outcome(i, result, next) ==
    CASE result \in {"done", "empty"} /\ i \notin Recurring -> Completed(row[i])
      [] result = "done" /\ i \in Recurring -> Deferred(row[i], 0)
      [] result = "error" -> Retried(row[i], next)
      [] OTHER -> Deferred(row[i], next)

(* Mutated: the store call checks the state but not the lease token. *)
FinishUntokened(w, next) ==
    /\ Finishing(w)
    /\ LET i == worker[w].item
           new == Outcome(i, worker[w].result, next)
       IN /\ row' = IF Running(i) THEN [row EXCEPT ![i] = new] ELSE row
          /\ owed' = [owed EXCEPT ![i] = @ /\ ~(Running(i) /\ new.state = "failed")]
    /\ worker' = [worker EXCEPT ![w] = Idle]

(* CompleteWork, DeferWork or RetryWork.  Each names the lease token: when  *)
(* the row has been leased again since, it changes nothing (ErrConflict).   *)
Finish(w, next) ==
    /\ Finishing(w)
    /\ LET i == worker[w].item
           held == Running(i) /\ row[i].token = w
           new == Outcome(i, worker[w].result, next)
       IN /\ row' = IF held THEN [row EXCEPT ![i] = new] ELSE row
          /\ owed' = [owed EXCEPT ![i] = @ /\ ~(held /\ new.state = "failed")]
    /\ worker' = [worker EXCEPT ![w] = Idle]

(* The process stops -- crash, or shutdown, where handleScheduledWork       *)
(* returns without a store call -- and starts again: RecoverWorkLeases      *)
(* releases every running row and seedScheduledWork enqueues the drains     *)
(* before any worker is started.                                            *)
Restart ==
    /\ LET recovered == [i \in Items |->
             IF Running(i) THEN Released(row[i]) ELSE row[i]]
       IN row' = [i \in Items |->
             IF i \in Recurring THEN Enqueued(recovered[i], 0, Never) ELSE recovered[i]]
    /\ worker' = [w \in Workers |-> Idle]
    /\ owed' = [i \in Items |->
                  \/ owed[i]
                  \/ i \in Recurring
                  \/ \E w \in Workers : Executing(w) /\ worker[w].item = i]

(* Time passes, but no handler outlives its context's deadline.             *)
Tick ==
    /\ \A w \in Workers : Executing(w) => worker[w].stall > 0
    /\ row' = [i \in Items |->
                 [row[i] EXCEPT !.available = Elapse(@), !.lease = Elapse(@),
                                !.rerun = Elapse(@), !.deadline = Elapse(@)]]
    /\ worker' = [w \in Workers |->
                    IF Executing(w) THEN [worker[w] EXCEPT !.stall = @ - 1]
                    ELSE worker[w]]
    /\ UNCHANGED owed

Next ==
    \/ \E i \in Items, at \in Delay, dl \in Deadline :
         Enqueue(i, at, dl) \/ Ensure(i, at, dl)
    \/ \E w \in Workers :
         \/ \E i \in Items : Start(w, i)
         \/ \E result \in {"done", "empty", "again", "error"} : Return(w, result)
         \/ \E next \in Delay : Finish(w, next)
    \/ Restart
    \/ Tick

Spec == Init /\ [][Next]_vars

(* Timers fire and goroutines run, so time, returns and store calls are     *)
(* weakly fair.  Starting an item is strongly fair: a lane polls again and  *)
(* again, and an item that is first in the lease order again and again is   *)
(* met by some poll.  The lease order has no aging, so nothing is assumed   *)
(* of an item that is never first.                                          *)
Fairness ==
    /\ WF_vars(Tick)
    /\ \A w \in Workers :
         /\ WF_vars(\E result \in {"done", "empty", "again", "error"} : Return(w, result))
         /\ WF_vars(\E next \in Delay : Finish(w, next))
    /\ \A i \in Items : SF_vars(\E w \in Workers : Start(w, i))

FairSpec == Spec /\ Fairness
-----------------------------------------------------------------------------
TypeOK ==
    /\ row \in [Items -> Row]
    /\ worker \in [Workers -> Busy \cup {Idle}]
    /\ owed \in [Items -> BOOLEAN]

(* No two handlers run at once for one item or for one conversation, however *)
(* leases expire, store calls are delayed and the process restarts.          *)
ExclusiveConversation ==
    \A v, w \in Workers :
        Executing(v) /\ Executing(w) /\ v # w
            => ~SameConversation(worker[v].item, worker[w].item)

(* A request is never lost: until a handler that began after it has returned *)
(* without asking to run again, its row is queued, or is leased by a worker  *)
(* whose store call will queue it (rerun_at is set, or the result is a       *)
(* deferral or an error).                                                    *)
NoLostRequest ==
    \A i \in Items : owed[i] =>
        \/ row[i].state = "pending"
        \/ /\ Running(i)
           /\ \/ row[i].rerun # Never
              \/ LET b == worker[row[i].token]
                 IN b.phase = "finishing" /\ b.result \in {"again", "error"}

(* A drain is one row polled for the life of the process: no completion,    *)
(* retry or stale store call may delete it or fail it.                      *)
DrainsPersist == \A i \in Recurring : row[i].state \in {"pending", "running"}

(* A lease ends only by its own holder's store call, by expiry, or by a     *)
(* restart; a worker that lost its lease never ends its successor's.        *)
StaleWorkerRejected ==
    [][~Restart => \A i \in Items :
         Running(i) /\ ~(row'[i].state = "running" /\ row'[i].token = row[i].token)
            => \/ row[i].lease = 0
               \/ LET w == row[i].token
                  IN Finishing(w) /\ worker[w].item = i /\ worker'[w] = Idle]_vars

(* After a request for an item no other of its lane or conversation         *)
(* outranks, a handler starts for the item, or the row gives up at its      *)
(* deadline, though its conversation may be held by another item, its own   *)
(* earlier handler may still be running, and the process may restart.  The  *)
(* handler may fail: that the request ends well is BacklogDrains' matter.   *)
(* An outranked item has no such promise: the lease order always prefers    *)
(* the other one.                                                           *)
Unrivalled ==
    {i \in Items : \A j \in Items :
        Lane[i] = Lane[j] \/ SameConversation(i, j) => Priority[i] <= Priority[j]}

UrgentRequestsServed == \A i \in Unrivalled : owed[i] ~> ~owed[i]

(* Once requests, failures, restarts and store calls that come after their  *)
(* lease stop, every item is served: nothing stays leased, blocked by its   *)
(* conversation, or owed.                                                   *)
Holds(w) == Running(worker[w].item) /\ row[worker[w].item].token = w

Disturbance ==
    \/ Restart
    \/ \E w \in Workers : Finishing(w) /\ ~Holds(w) /\ worker'[w] = Idle
    \/ \E i \in Items, at \in Delay, dl \in Deadline : Enqueue(i, at, dl)
    \/ \E w \in Workers, result \in {"again", "error"} : Return(w, result)

BacklogDrains == <>[][~Disturbance]_vars => \A i \in Items : <>[]~owed[i]
-----------------------------------------------------------------------------
(* The scheduler implements ConversationJobs, an item being active while a  *)
(* handler executes it.                                                     *)
ActiveItems == {worker[w].item : w \in {v \in Workers : Executing(v)}}

Jobs == INSTANCE ConversationJobs WITH active <- ActiveItems

ImplementsJobs == Jobs!Spec
=============================================================================
