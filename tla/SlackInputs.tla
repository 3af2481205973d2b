----------------------------- MODULE SlackInputs -----------------------------
(* The inputs of one Slack channel (internal/store/store.go, service/input.go, *)
(* service/socket.go): an event is stored before it is acknowledged, one       *)
(* worker takes the rows of slack_inputs in the order of their messages, and   *)
(* what becomes of a row depends on its handler, on retries and on restarts.   *)
(* Synthetic inputs are admitted by others, as being processed already.        *)
(*                                                                             *)
(* An input is <<source, received_at, n>>: its place in the channel is its     *)
(* second component.                                                           *)
EXTENDS Naturals

CONSTANTS
    Messages,      \* what people and apps post in the channel
    Synthetic,     \* inputs that Responder generates for itself
    MaxFailures,   \* limits.max_slack_input_attempts
    MaxTroubles    \* bound: restarts, jobs that end unrecorded, calls and answers that fail

ASSUME InputAssumption == MaxFailures \in Nat \ {0} /\ MaxTroubles \in Nat

Inputs == Messages \cup Synthetic
none == <<>>

VARIABLES
    now,           \* the clock
    row,           \* slack_inputs: [state, due, failures]
    run,           \* agent_runs by source_id: the runs of the synthetic inputs
    acked,         \* messages Slack will not deliver again
    worker,        \* the slack_input drain: [phase, input]
    troubles

inputVars == <<row, run, acked, worker>>

Earlier(i, j) == i[2] < j[2]
Is(i, states) == row[i].state \in states
Open == {"pending", "processing", "retry"}
-----------------------------------------------------------------------------
\* slackinputstore.Admit: an id that is known already is ignored.
Admitted(i, state) ==
    IF Is(i, {"absent"})
    THEN [row EXCEPT ![i] = [state |-> state, due |-> TRUE, failures |-> 0]]
    ELSE row

\* The retry delay runs from the failure; recovered inputs are due at once.
Put(i, state, due) == [row EXCEPT ![i].state = state, ![i].due = due]

\* FinishSlackInput answers a conflict for a row that was put back in the queue.
Finishable(i) == Is(i, {"processing", "done"})

\* LeaseSlackInput: an earlier input of the channel that is being processed
\* holds this one back; one that waits for its retry does not.
Leasable(i) ==
    /\ Is(i, {"pending", "retry"}) /\ row[i].due
    /\ \A j \in Inputs : Earlier(j, i) => ~Is(j, {"processing"})
-----------------------------------------------------------------------------
InputInit ==
    /\ now = 0
    /\ row = [i \in Inputs |-> [state |-> "absent", due |-> FALSE, failures |-> 0]]
    /\ run = [i \in Synthetic |-> "none"]
    /\ acked = {}
    /\ worker = [phase |-> "idle", input |-> none]
    /\ troubles = 0

\* Mutated: an event that could not be stored is acknowledged.
ReceiveUnstored(m) ==
    /\ m[2] <= now /\ m \notin acked
    /\ acked' = acked \cup {m}
    /\ \/ row' = Admitted(m, "pending") /\ UNCHANGED troubles
       \/ troubles < MaxTroubles /\ troubles' = troubles + 1 /\ UNCHANGED row
    /\ UNCHANGED <<run, worker>>

\* admitEventsAPI: an event is stored, then acknowledged; Slack delivers it
\* again until it is.
Receive(m) ==
    /\ m[2] <= now /\ m \notin acked
    /\ row' = Admitted(m, "pending")
    /\ \/ acked' = acked \cup {m} /\ UNCHANGED troubles
       \/ troubles < MaxTroubles /\ troubles' = troubles + 1 /\ UNCHANGED acked
    /\ UNCHANGED <<run, worker>>

\* processSlackInput takes the first of those it may take.
Lease(i) ==
    /\ worker.phase = "idle" /\ Leasable(i)
    /\ \A j \in Inputs : Leasable(j) => ~Earlier(j, i)
    /\ row' = Put(i, "processing", TRUE)
    /\ worker' = [phase |-> "handling", input |-> i]
    /\ UNCHANGED <<run, acked, troubles>>

Working(i, phases) == worker.phase \in phases /\ worker.input = i
Rest == [phase |-> "idle", input |-> none]

\* QueueAgentRun is idempotent by its source.
Queued(i) == IF run[i] = "none" THEN [run EXCEPT ![i] = "live"] ELSE run

\* The handler decides that nothing is to be done, or queues a run.  (What
\* becomes of a message's run is a matter of AgentRuns.)  The channel is no
\* incident's room: there the run of a synthetic input that is handled has
\* another source (input.go:659) than the one its schedule looks for
\* (schedule.go:664), and the schedule queues a second one.
Handle(i) ==
    /\ Working(i, {"handling"})
    /\ run' = run \/ (i \in Synthetic /\ run' = Queued(i))
    /\ worker' = [worker EXCEPT !.phase = "handled"]
    /\ UNCHANGED <<row, acked, troubles>>

\* finishSlackInput.
Finish(i) ==
    /\ Working(i, {"handled"})
    /\ row' = IF Finishable(i) THEN Put(i, "done", FALSE) ELSE row
    /\ worker' = Rest
    /\ UNCHANGED <<run, acked, troubles>>

\* retrySlackInput: what cannot succeed, and the last attempt, gives up.
Fail(i) ==
    /\ Working(i, {"handling", "handled"}) /\ Is(i, {"processing"})
    /\ troubles < MaxTroubles
    /\ \E state \in {"retry", "failed"} :
          /\ row[i].failures + 1 >= MaxFailures => state = "failed"
          /\ row' = [row EXCEPT ![i] =
                       [state |-> state, due |-> FALSE, failures |-> @.failures + 1]]
    /\ worker' = Rest
    /\ troubles' = troubles + 1
    /\ UNCHANGED <<run, acked>>

\* The job ends and nothing is recorded: its time is up, or the store fails.
Abandon ==
    /\ worker.phase # "idle" /\ troubles < MaxTroubles
    /\ worker' = Rest
    /\ troubles' = troubles + 1
    /\ UNCHANGED <<row, run, acked>>

\* RecoverStaleSlackInputs, once no job can still be at work on the input.
Stale(i) ==
    /\ worker.phase = "idle" /\ Is(i, {"processing"})
    /\ row' = Put(i, "retry", TRUE)
    /\ UNCHANGED <<run, acked, worker, troubles>>

\* next_attempt_at passes.
Elapse(i) ==
    /\ Is(i, {"retry"}) /\ ~row[i].due
    /\ row' = Put(i, "retry", TRUE)
    /\ UNCHANGED <<run, acked, worker, troubles>>

\* RecoverInterrupted, at start-up.
Recovered == [i \in Inputs |->
    IF Is(i, {"processing"}) THEN [row[i] EXCEPT !.state = "retry", !.due = TRUE] ELSE row[i]]

\* What the channel's inputs do by themselves.
Served == \E i \in Inputs : Lease(i) \/ Handle(i) \/ Finish(i)
InputNext ==
    \/ Served \/ Abandon
    \/ \E m \in Messages : Receive(m)
    \/ \E i \in Inputs : Fail(i) \/ Elapse(i)
-----------------------------------------------------------------------------
SlackInput ==
    [state : Open \cup {"absent", "done", "failed"}, due : BOOLEAN, failures : 0..MaxFailures]
Handling == [phase : {"idle", "handling", "handled"}, input : Inputs \cup {none}]

InputTypeOK ==
    /\ row \in [Inputs -> SlackInput]
    /\ run \in [Synthetic -> {"none", "live", "ended"}]
    /\ acked \subseteq Messages
    /\ worker \in Handling
    /\ troubles \in 0..MaxTroubles

\* What Slack will not deliver again is stored, and all that is stored is handled
\* or given up.
InputsSettled ==
    /\ \A m \in acked : ~Is(m, {"absent"})
    /\ \A i \in Inputs : ~Is(i, Open)
=============================================================================
