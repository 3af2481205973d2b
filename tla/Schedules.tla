------------------------------ MODULE Schedules ------------------------------
(* Scheduled tasks (internal/service/schedule.go, internal/store/schedulestore) *)
(* beside the inputs of their channel.  The scheduled_task drain records each   *)
(* due occurrence, posts an anchor for it when native status needs a thread,    *)
(* admits a synthetic input, queues its run and links the two; an operator      *)
(* pauses, resumes, deletes and replaces tasks and runs them at once.           *)
(*                                                                              *)
(* The occurrence <<task, scheduled_for, n>> was ordered by the operators' n-th *)
(* order, to run now, or fell due (n = 0); it is also the id of its input.      *)
EXTENDS SlackInputs

CONSTANTS
    Tasks,
    Definition,    \* what the operator confirmed first, by task
    Replacement,   \* what the operator confirms in its place
    Anchored,      \* tasks whose occurrences are announced in the channel
    Grace,         \* limits.schedule_misfire_grace
    Horizon,       \* bound: the clock stops here; every task expires before
    MaxOrders      \* bound: what operators order: run, pause, resume, delete, replace

\* Schedules recur every so often from a start; every = 0 is a one-time task.
Schedule == [every : Nat, start : Nat \ {0}, latest : BOOLEAN, expires : Nat]

\* What was confirmed begins before it expires: acceptOne refuses the rest.
ASSUME ScheduleAssumption ==
    /\ {Definition, Replacement} \subseteq [Tasks -> Schedule]
    /\ \A t \in Tasks : Definition[t].start < Definition[t].expires
    /\ {Grace, Horizon, MaxOrders} \subseteq Nat
    /\ Synthetic = Tasks \X (1..Horizon) \X (0..MaxOrders)
    /\ Messages \cap Synthetic = {}

VARIABLES
    task,          \* scheduled_tasks: [state, def, next]
    occ,           \* scheduled_task_runs: the outcome
    anchor,        \* slack_deliveries: the announcement of an occurrence
    job,           \* the drain's and the pressed button's ensureScheduledTaskExecution
    pass,          \* what the drain has read: [at, todo, bound, listed, due]
    orders         \* what operators have ordered so far

scheduleVars == <<task, occ, anchor, job, pass, orders>>
vars == <<now, inputVars, troubles, scheduleVars>>

Never == 0
Active == {"queued", "running"}
Occurrence(t) == {o \in Synthetic : o[1] = t}
Overlaps(t) == \E o \in Occurrence(t) : occ[o] \in Active
-----------------------------------------------------------------------------
\* NextScheduledOccurrence: the first occurrence strictly after a time.
NextOccurrence(d, after) ==
    CASE d.every = 0 -> Never
      [] d.every > 0 /\ d.start > after -> d.start
      [] OTHER -> d.start + ((after - d.start) \div d.every + 1) * d.every

\* ListDueScheduledTasks.
Due(t, at) ==
    /\ task[t].state = "on" /\ task[t].next # Never
    /\ task[t].next <= at /\ at < task[t].def.expires

Snapshot(t) == [task |-> t, def |-> task[t].def, next |-> task[t].next]
Exists(t) == task[t].state # "deleted"

Idle == [phase |-> "idle", occ |-> none]
NoPass == [at |-> 0, todo |-> {}, bound |-> {}, due |-> {}, listed |-> FALSE]
At(p, phase) == job[p].phase = phase
To(p, phase) == [job EXCEPT ![p].phase = phase]

\* A job that fails is over; the drain reads everything again next time.
Ends(p) ==
    /\ job' = [job EXCEPT ![p] = Idle]
    /\ pass' = IF p = "drain" THEN NoPass ELSE pass

\* The drain goes on with its pass, the button is done.
Goes(p) == IF p = "button" THEN Idle
           ELSE [phase |-> IF pass.listed THEN "due" ELSE "reconcile", occ |-> none]
-----------------------------------------------------------------------------
\* ensureScheduledTaskExecution, first step: an occurrence that has no input
\* yet waits for its anchor, which ensureScheduledRunAnchor enqueues once.
Ensure(p) ==
    LET o == job[p].occ IN
    /\ At(p, "ensure")
    /\ \/ /\ Is(o, {"absent"}) => o[1] \notin Anchored \/ anchor[o] = "sent"
          /\ job' = To(p, IF Is(o, {"absent"}) THEN "admit" ELSE "queue")
          /\ UNCHANGED <<anchor, pass>>
       \/ /\ Is(o, {"absent"}) /\ o[1] \in Anchored /\ anchor[o] # "sent"
          /\ anchor' = [anchor EXCEPT ![o] = IF @ = "none" THEN "queued" ELSE @]
          /\ Ends(p)
    /\ UNCHANGED <<now, inputVars, troubles, task, occ, orders>>

\* AdmitSyntheticSlackInput: nobody else takes the row.
AdmitOccurrence(p) ==
    /\ At(p, "admit")
    /\ row' = Admitted(job[p].occ, "processing")
    /\ job' = To(p, "queue")
    /\ UNCHANGED <<now, run, acked, worker, troubles, task, occ, anchor, pass, orders>>

\* Mutated: a run that is queued already is left alone.
QueueOccurrenceOnce(p) ==
    /\ At(p, "queue")
    /\ run' = Queued(job[p].occ)
    /\ \/ run[job[p].occ] = "none" /\ job' = To(p, "finish") /\ UNCHANGED pass
       \/ run[job[p].occ] # "none" /\ Ends(p)
    /\ UNCHANGED <<now, row, acked, worker, troubles, task, occ, anchor, orders>>

\* queueWatchedInput, unless the input has its run.
QueueOccurrence(p) ==
    /\ At(p, "queue")
    /\ run' = Queued(job[p].occ)
    /\ job' = To(p, IF run[job[p].occ] = "none" THEN "finish" ELSE "link")
    /\ UNCHANGED <<now, row, acked, worker, troubles, task, occ, anchor, pass, orders>>

\* ... which finishes the input; one that was put back in the queue is left.
FinishOccurrence(p) ==
    /\ At(p, "finish")
    /\ \/ Finishable(job[p].occ) /\ row' = Put(job[p].occ, "done", FALSE)
          /\ job' = To(p, "link") /\ UNCHANGED pass
       \/ ~Finishable(job[p].occ) /\ Ends(p) /\ UNCHANGED row
    /\ UNCHANGED <<now, run, acked, worker, troubles, task, occ, anchor, orders>>

\* LinkScheduledTaskRun: only a queued occurrence starts to run.
Link(p) ==
    /\ At(p, "link")
    /\ \/ occ[job[p].occ] = "queued" /\ occ' = [occ EXCEPT ![job[p].occ] = "running"]
          /\ job' = [job EXCEPT ![p] = Goes(p)] /\ UNCHANGED pass
       \/ occ[job[p].occ] # "queued" /\ Ends(p) /\ UNCHANGED occ
    /\ UNCHANGED <<now, inputVars, troubles, task, anchor, orders>>
-----------------------------------------------------------------------------
\* processScheduledTasks: first every occurrence under way, as it was read.
BeginPass ==
    /\ At("drain", "idle")
    /\ pass' = [at |-> now, todo |-> {o \in Synthetic : occ[o] \in Active},
                bound |-> {o \in Synthetic : occ[o] = "running"}, due |-> {}, listed |-> FALSE]
    /\ job' = To("drain", "reconcile")
    /\ UNCHANGED <<now, inputVars, troubles, task, occ, anchor, orders>>

\* reconcileScheduledTaskRuns: an occurrence ends with its run.
Completed(o) == run[o] = "ended"

Reconcile(o) ==
    /\ At("drain", "reconcile") /\ o \in pass.todo
    /\ pass' = [pass EXCEPT !.todo = @ \ {o}, !.bound = @ \ {o}]
    /\ \/ /\ Exists(o[1]) /\ o \notin pass.bound
          /\ job' = [job EXCEPT !["drain"] = [phase |-> "ensure", occ |-> o]]
          /\ UNCHANGED occ
       \/ /\ Exists(o[1]) /\ o \in pass.bound /\ Completed(o) /\ occ[o] \in Active
          /\ occ' = [occ EXCEPT ![o] = "ended"] /\ UNCHANGED job
       \/ /\ Exists(o[1]) => o \in pass.bound /\ ~Completed(o)
          /\ UNCHANGED <<occ, job>>
    /\ UNCHANGED <<now, inputVars, troubles, task, anchor, orders>>

\* ... then the tasks that were due when the pass began.
ListDue ==
    /\ At("drain", "reconcile") /\ pass.todo = {}
    /\ LET due == {t \in Tasks : Due(t, pass.at)} IN
         IF due = {} THEN Ends("drain")
         ELSE /\ pass' = [pass EXCEPT !.listed = TRUE, !.due = {Snapshot(t) : t \in due}]
              /\ job' = To("drain", "due")
    /\ UNCHANGED <<now, inputVars, troubles, task, occ, anchor, orders>>

\* Mutated: only an occurrence that runs is in the way of the next.
OutcomeBesideQueued(t, execute) ==
    CASE ~execute -> "skipped"
      [] execute /\ (\E o \in Occurrence(t) : occ[o] = "running") -> "skipped"
      [] OTHER -> "queued"

\* ClaimScheduledTaskRun: skipped_missed, skipped_unauthorized and
\* skipped_overlap, or queued.
Outcome(t, execute) ==
    CASE ~execute -> "skipped"
      [] execute /\ Overlaps(t) -> "skipped"
      [] OTHER -> "queued"

\* Mutated: the occurrence that fell due stays the next one.
AdvancedTo(s, allowed) == s.next

\* Mutated: the task outlives its expiry.
FollowingEver(s, allowed) == IF allowed THEN NextOccurrence(s.def, pass.at) ELSE Never

Following(s, allowed) ==
    IF allowed /\ NextOccurrence(s.def, pass.at) < s.def.expires
    THEN NextOccurrence(s.def, pass.at) ELSE Never

\* The occurrence is recorded and its task advanced as it was read: what an
\* operator changed since is overwritten.  An occurrence that is known already
\* advances nothing, and one of a deleted task is refused.
Claim(s, allowed) ==
    LET o == <<s.task, s.next, 0>>
        outcome == Outcome(s.task, allowed /\ (s.def.latest \/ pass.at <= s.next + Grace))
    IN
    /\ At("drain", "due") /\ s \in pass.due /\ \A r \in pass.due : s.next <= r.next
    /\ \/ ~Exists(s.task) /\ Ends("drain") /\ UNCHANGED <<task, occ>>
       \/ /\ Exists(s.task)
          /\ pass' = [pass EXCEPT !.due = @ \ {s}]
          /\ IF occ[o] # "none"
             THEN UNCHANGED <<task, occ, job>>
             ELSE /\ occ' = [occ EXCEPT ![o] = outcome]
                  /\ task' = [task EXCEPT ![s.task].next = Following(s, allowed),
                                ![s.task].state = IF Following(s, allowed) # Never THEN "on" ELSE "off"]
                  /\ job' = IF outcome = "queued"
                            THEN [job EXCEPT !["drain"] = [phase |-> "ensure", occ |-> o]]
                            ELSE job
    /\ UNCHANGED <<now, inputVars, troubles, anchor, orders>>

EndPass ==
    /\ At("drain", "due") /\ pass.due = {}
    /\ Ends("drain")
    /\ UNCHANGED <<now, inputVars, troubles, task, occ, anchor, orders>>
-----------------------------------------------------------------------------
Ordered == orders < MaxOrders /\ orders' = orders + 1

\* handleRunScheduleNow claims an occurrence of this moment and advances
\* nothing; a press that failed is processed again, as an order of its own.
RunNow(t) ==
    LET o == <<t, now, orders + 1>> IN
    /\ At("button", "idle") /\ now > 0 /\ Exists(t)
    /\ Ordered
    /\ occ' = [occ EXCEPT ![o] = Outcome(t, TRUE)]
    /\ job' = IF Outcome(t, TRUE) = "queued"
              THEN [job EXCEPT !["button"] = [phase |-> "ensure", occ |-> o]] ELSE job
    /\ UNCHANGED <<now, inputVars, troubles, task, anchor, pass>>

\* SetScheduledTaskEnabled: a task is resumed only if it has a next occurrence.
Toggle(t) ==
    /\ now < task[t].def.expires /\ Ordered
    /\ \/ task[t].state = "on" /\ task' = [task EXCEPT ![t].state = "off"]
       \/ /\ task[t].state = "off" /\ task[t].next # Never
          /\ task' = [task EXCEPT ![t].state = "on"]
    /\ UNCHANGED <<now, inputVars, troubles, occ, anchor, job, pass>>

\* DeleteScheduledTask; scheduled_task_runs go with their task.
Delete(t) ==
    /\ Exists(t) /\ Ordered
    /\ task' = [task EXCEPT ![t].state = "deleted"]
    /\ occ' = [o \in Synthetic |-> IF o[1] = t THEN "none" ELSE occ[o]]
    /\ UNCHANGED <<now, inputVars, troubles, anchor, job, pass>>

\* acceptOne with a task to replace: the row is updated in place and keeps its
\* occurrences.  (Its next run is not past; the second of grace is below the
\* clock's resolution.)
Accept(t) ==
    /\ Exists(t) /\ Ordered
    /\ Replacement[t].start > now /\ Replacement[t].start < Replacement[t].expires
    /\ task' = [task EXCEPT ![t] =
                  [state |-> "on", def |-> Replacement[t], next |-> Replacement[t].start]]
    /\ UNCHANGED <<now, inputVars, troubles, occ, anchor, job, pass>>

\* The outbox posts the anchor, or gives it up.
PostAnchor(o) ==
    /\ anchor[o] = "queued"
    /\ anchor' \in {[anchor EXCEPT ![o] = s] : s \in {"sent", "failed"}}
    /\ UNCHANGED <<now, inputVars, troubles, task, occ, job, pass, orders>>

\* The run of an occurrence completes or fails (AgentRuns).
EndRun(o) ==
    /\ run[o] = "live"
    /\ run' = [run EXCEPT ![o] = "ended"]
    /\ UNCHANGED <<now, row, acked, worker, troubles, scheduleVars>>

\* A call of a job fails, or its time is up.
Trouble(p) ==
    /\ ~At(p, "idle") /\ troubles < MaxTroubles
    /\ troubles' = troubles + 1
    /\ Ends(p)
    /\ UNCHANGED <<now, inputVars, task, occ, anchor, orders>>

Restart ==
    /\ troubles < MaxTroubles
    /\ troubles' = troubles + 1
    /\ row' = Recovered /\ worker' = Rest
    /\ job' = [p \in DOMAIN job |-> Idle] /\ pass' = NoPass
    /\ UNCHANGED <<now, run, acked, task, occ, anchor, orders>>

StaleInput(i) == Stale(i) /\ \A p \in DOMAIN job : job[p].occ # i

Tick ==
    /\ now < Horizon
    /\ now' = now + 1
    /\ UNCHANGED <<inputVars, troubles, scheduleVars>>
-----------------------------------------------------------------------------
Init ==
    /\ InputInit
    /\ task = [t \in Tasks |->
                 [state |-> "on", def |-> Definition[t], next |-> Definition[t].start]]
    /\ occ = [o \in Synthetic |-> "none"]
    /\ anchor = [o \in Synthetic |-> "none"]
    /\ job = [p \in {"drain", "button"} |-> Idle]
    /\ pass = NoPass
    /\ orders = 0

Drain == \/ BeginPass \/ ListDue \/ EndPass
         \/ \E o \in Synthetic : Reconcile(o)
         \/ \E s \in pass.due : Claim(s, TRUE)

Carry(p) == Ensure(p) \/ AdmitOccurrence(p) \/ QueueOccurrence(p) \/ FinishOccurrence(p) \/ Link(p)

\* What an operator, or the loss of his permission, does to a task.
Operated == \/ \E s \in pass.due : Claim(s, FALSE)
            \/ \E t \in Tasks : RunNow(t) \/ Toggle(t) \/ Delete(t) \/ Accept(t)

\* The channel's inputs take no notice of schedules.
Apart(step) == step /\ UNCHANGED <<now, scheduleVars>>

Next ==
    \/ Tick \/ Restart \/ Drain \/ Operated
    \/ \E p \in DOMAIN job : Carry(p) \/ Trouble(p)
    \/ \E o \in Synthetic : PostAnchor(o) \/ EndRun(o)
    \/ Apart(InputNext)
    \/ \E i \in Inputs : Apart(StaleInput(i))

Spec == Init /\ [][Next]_vars

\* The drains poll and their calls come back, timers fire, the outbox answers,
\* runs end, and Slack delivers what is not acknowledged.
FairSpec ==
    /\ Spec
    /\ WF_vars(Drain \/ Carry("drain"))
    /\ WF_vars(Carry("button"))
    /\ WF_vars(\E o \in Synthetic : PostAnchor(o))
    /\ WF_vars(\E o \in Synthetic : EndRun(o))
    /\ WF_vars(Apart(Served))
    /\ WF_vars(\E i \in Inputs : Apart(Elapse(i) \/ StaleInput(i)))
    /\ \A m \in Messages : WF_vars(Apart(Receive(m)))
-----------------------------------------------------------------------------
Definitions(t) == {Definition[t], Replacement[t]}
Scheduled == [state : {"on", "off", "deleted"}, def : Schedule, next : Nat]
Reading == [task : Tasks, def : Schedule, next : Nat]
Pass == [at : Nat, todo : SUBSET Synthetic, bound : SUBSET Synthetic, due : SUBSET Reading,
         listed : BOOLEAN]
Progress ==
    [phase : {"idle", "reconcile", "due", "ensure", "admit", "queue", "finish", "link"},
     occ : Synthetic \cup {none}]

\* The type invariant, of the tasks and of the inputs.  A task's next
\* occurrence is before the end of the definition it was computed from, which
\* a pass that began before a replacement takes from the one replaced.
TypeOK ==
    /\ InputTypeOK
    /\ now \in 0..Horizon
    /\ task \in [Tasks -> Scheduled]
    /\ \A t \in Tasks :
          /\ task[t].def \in Definitions(t)
          /\ task[t].next = Never \/ \E d \in Definitions(t) : task[t].next < d.expires
    /\ occ \in [Synthetic -> {"none", "queued", "running", "ended", "skipped"}]
    /\ anchor \in [Synthetic -> {"none", "queued", "sent", "failed"}]
    /\ job \in [{"drain", "button"} -> Progress]
    /\ pass \in Pass
    /\ orders \in 0..MaxOrders

Live(o) == run[o] = "live"

\* The scheduler never overlaps two copies of a task: no two runs of a task are
\* alive together, and a skipped occurrence has none, over presses of "run
\* now", restarts, replacements and the restored inputs of the channel.
NeverOverlaps ==
    /\ TypeOK
    /\ \A o, q \in Synthetic : o # q /\ o[1] = q[1] => ~(Live(o) /\ Live(q))
    /\ \A o \in Synthetic : occ[o] = "skipped" => run[o] = "none"

\* What the code does not prevent: an announcement that Slack refused for good
\* ends every pass of the drain before it reads due tasks (schedule.go:712),
\* until the task is deleted.
Held == \E o \in Synthetic : anchor[o] = "failed" /\ occ[o] = "queued"

\* Nothing that was accepted is left waiting for ever, over restarts, failures
\* and inputs that are taken out of turn: every input is handled or given up,
\* and every occurrence that was recorded gets its run and ends with it.
WorkSettles ==
    []<>(InputsSettled /\ (Held \/ \A o \in Synthetic : occ[o] \notin Active))

\* An occurrence that falls due is recorded, though another one of the task or
\* of another waits for its anchor or its run.
DueRecorded == \A t \in Tasks : Due(t, now) ~> (Held \/ ~Due(t, now))
=============================================================================
