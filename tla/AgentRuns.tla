------------------------------- MODULE AgentRuns -------------------------------
(***************************************************************************)
(* Agent runs and the work episodes they carry: internal/store/agent_run.go, *)
(* work_episode.go and rate_limit.go, driven by internal/service/agent_run.go. *)
(*                                                                         *)
(* A request becomes a run of an episode.  A preparer leases the run and   *)
(* submits a turn to Coop under the run's idempotency key, the poller takes *)
(* the turn's end, and a finalizer applies the result, moves the episode   *)
(* and ends the run, each in a transaction of its own.  Several preparers  *)
(* and finalizers work at once; there is one poller.                       *)
(*                                                                         *)
(* A store method is an operator from database to database, the identity   *)
(* when its transaction is refused.  Runs are numbered in the order they   *)
(* are created, an episode bears the number of its first run, and a key is *)
(* the number of the execution it stands for.                              *)
(***************************************************************************)
EXTENDS Naturals, Sequences, FiniteSets, TLC

CONSTANTS
    Runs,            \* the requests, as numbers
    Kind,            \* what asked: a card of an alert stream, a message, or an incident
    Replays,         \* the requests that are replays, which an operator may cancel
    Workers,         \* agent_run drains, and agent_finalize drains: limits.background_workers
    MaxAttempts,     \* limits.max_agent_run_attempts
    MaxCorrections,  \* how often a result may be sent back to the model
    Answers,         \* what an answer may leave its episode to: done, or waiting
    CyclingAt,       \* failures or corrections after which an old run is passed
    None,
    Unready,         \* bound: the runs whose preparation may fail
    MaxRefusals,     \* bound on waits the code does not count
    MaxStalls,       \* bound on abandoned preparations
    MaxRevivals,     \* bound on retries by hand
    MaxCrashes       \* bound on restarts

Kinds == {"card", "message", "incident"}

ASSUME ConfigAssumption ==
    /\ Runs \subseteq Nat \ {0}
    /\ IsFiniteSet(Runs)
    /\ Kind \in [Runs -> Kinds]
    /\ Replays \subseteq Runs /\ Unready \subseteq Runs
    /\ Answers \subseteq {"completed", "waiting"}
    /\ MaxAttempts \in Nat \ {0}
    /\ {Workers, MaxCorrections, CyclingAt} \subseteq Nat
    /\ {MaxRefusals, MaxStalls, MaxRevivals, MaxCrashes} \subseteq Nat
    /\ None \notin [run : Runs, episode : Runs \cup {0}]

VARIABLES
    db,        \* agent_runs, work_episodes, and of the incident its active turn and
               \* whether it is shut: without a session, closed or blocked
    turns,     \* Coop: the turns it accepted, until their end is taken
    admitted,  \* the request being queued, and the episode it was correlated with, or 0
    prep,      \* how far the preparer of each run has come
    fin,       \* how far the finalizer of each run has come
    polled,    \* the session's active turn as pollIncident has read it, or None
    aged,      \* runs created more than an hour ago
    spent      \* how often each bounded disturbance has happened

vars == <<db, turns, admitted, prep, fin, polled, aged, spent>>
-----------------------------------------------------------------------------
Active == {"preparing", "running", "applying", "finalizing"}
Final == {"completed", "failed", "cancelled", "superseded"}
State == {"absent", "pending"} \cup Active \cup Final

(* active stands for accepted to verifying, which FinishAgentRun may close; *)
(* waiting for blocked and the waiting states, which it must leave.         *)
EpisodeState == {"none", "active", "waiting"} \cup Final

none == <<>>     \* no turn
NoRun == [state |-> "absent", episode |-> 0, key |-> 1, failures |-> 0, corrections |-> 0,
          bound |-> FALSE, staged |-> "none", started |-> FALSE, told |-> 0]
NoEpisode == [state |-> "none", latest |-> 0, events |-> {}]

run == db.run
episode == db.episode
EpisodeOf(d, r) == d.episode[d.run[r].episode]
Latest(d, r) == EpisodeOf(d, r).latest = r
Is(d, r, states) == d.run[r].state \in states
Incident(r) == Kind[r] = "incident"
Rivals(r) == {q \in Runs \ {r} : Kind[q] = Kind[r]}     \* the runs of r's conversation
Attempted(d, r) ==
    \/ d.run[r].failures > 0
    \/ d.run[r].corrections > 0
    \/ Kind[r] = "card" /\ d.run[r].started
Exhausted(failures) == failures >= MaxAttempts

\* A request of the conversation that came after r, queued or not yet.
Came(q) == ~Is(db, q, {"absent"}) \/ (admitted # None /\ admitted.run = q)
Later(r) == \E q \in Rivals(r) : q > r /\ Came(q)
Awaited(d, r, states) == \E q \in Rivals(r) : q > r /\ Is(d, q, states)
-----------------------------------------------------------------------------
(* The episode's reducer.  An event whose key the episode holds is not      *)
(* appended again, so its transition never happens.  A fresh key belongs to *)
(* one call and is not kept.                                                *)
fresh == <<>>
Holds(e, key) == key \in e.events
Keep(e, key) == IF key = fresh THEN e.events ELSE e.events \cup {key}

\* An attempt that is no longer the newest does not close its episode.
Dropped(d, r, state) == state \in Final /\ ~Latest(d, r)

\* A closed episode takes no other state ...
Closed(d, r, state, key) ==
    LET e == EpisodeOf(d, r) IN e.state \in Final /\ state # e.state /\ ~Holds(e, key)

\* ... but setWorkEpisodePhaseTx reopens it for its newest attempt first.
Refused(d, r, state, key) ==
    IF state \notin Final /\ EpisodeOf(d, r).state \in Final
    THEN ~Latest(d, r) \/ Holds(EpisodeOf(d, r), key)
    ELSE ~Dropped(d, r, state) /\ Closed(d, r, state, key)

Phased(d, r, state, key) ==
    LET e == EpisodeOf(d, r)
    IN IF Dropped(d, r, state) \/ Holds(e, key) THEN d
       ELSE [d EXCEPT !.episode[d.run[r].episode] =
                [e EXCEPT !.state = state, !.events = Keep(e, key)]]

\* A transaction that writes the run's row and moves its episode.
Commit(d, r, row, state, key) ==
    IF Refused(d, r, state, key) THEN d
    ELSE Phased([d EXCEPT !.run[r] = row], r, state, key)

Write(d, r, row) == [d EXCEPT !.run[r] = row]
-----------------------------------------------------------------------------
(* The store's methods. *)

\* ensureWorkEpisodeTx: a run joins episode e or opens one of its own.
Queued(d, r, e) ==
    [d EXCEPT !.run[r] = [NoRun EXCEPT !.state = "pending", !.episode = e],
              !.episode[e] = IF e = r THEN [NoEpisode EXCEPT !.state = "active", !.latest = r]
                             ELSE [@ EXCEPT !.latest = r]]

\* QueueAgentRun, refused while a result of the incident is finalizing.
QueueAgentRun(d, r, e) ==
    IF Incident(r) /\ \E q \in Rivals(r) : Is(d, q, {"finalizing"}) THEN d ELSE Queued(d, r, e)

\* QueueEpisodeAttempt: only into an open episode whose newest attempt is
\* not finalizing.
QueueEpisodeAttempt(d, r, e) ==
    IF d.episode[e].state \in Final \/ Is(d, d.episode[e].latest, {"finalizing"}) THEN d
    ELSE Phased(Queued(d, r, e), r, "active", <<"resumed">>)

\* CancelQueuedUnderTerminalEpisodes.
Swept(d) ==
    [d EXCEPT !.run = [r \in Runs |->
        IF Is(d, r, {"pending", "preparing"}) /\ EpisodeOf(d, r).state \in Final
        THEN [d.run[r] EXCEPT !.state = "cancelled"] ELSE d.run[r]]]

\* A run that is old and keeps failing no longer holds its conversation.
Cycling(d, q) == q \in aged
    /\ (d.run[q].failures >= CyclingAt \/ d.run[q].corrections >= CyclingAt)

\* Mutated: a run that is being prepared does not hold its conversation.
LeasableBesidePreparing(d, r) ==
    /\ Is(d, r, {"pending"})
    /\ Incident(r) => d.active = none /\ ~d.shut
    /\ \A q \in Rivals(r) : Is(d, q, Active \ {"preparing"}) => Cycling(d, q)

Leasable(d, r) ==
    /\ Is(d, r, {"pending"})
    /\ Incident(r) => d.active = none /\ ~d.shut
    /\ \A q \in Rivals(r) : Is(d, q, Active) => Cycling(d, q)

LeaseAgentRun(d, r) ==
    Commit(d, r, [d.run[r] EXCEPT !.state = "preparing"], "active", <<"lease", r, d.run[r].key>>)

\* A new execution of the run: a key no turn of Coop is bound to.
Renewed(row) == [row EXCEPT !.state = "pending", !.key = @ + 1, !.bound = FALSE]
Failing(row) == [row EXCEPT !.failures = @ + 1]
Restaged(row) == [Renewed(row) EXCEPT !.staged = "none"]

DeferAgentRun(d, r) ==
    IF ~Is(d, r, {"preparing"}) THEN d
    ELSE Commit(d, r, [d.run[r] EXCEPT !.state = "pending"], "active", <<"deferred", r>>)

\* ReleaseAgentRunRevision gives the run a new key before it is deferred.
ReleaseAgentRunRevision(d, r) ==
    IF ~Is(d, r, {"preparing"}) THEN d
    ELSE Write(d, r, [Renewed(d.run[r]) EXCEPT !.state = "preparing"])

RetryAgentRun(d, r, terminal) ==
    IF ~Is(d, r, {"preparing", "finalizing"}) THEN d
    ELSE IF terminal
         THEN Commit(d, r, [Failing(Renewed(d.run[r])) EXCEPT !.state = "failed"], "failed", fresh)
         ELSE Commit(d, r, Failing(Renewed(d.run[r])), "active", fresh)

RequeueRateLimited(d, r) ==
    IF ~Is(d, r, {"preparing", "running", "finalizing"}) THEN d
    ELSE Commit(d, r, Renewed(d.run[r]), "active", fresh)

Turn(d, r) == IF d.run[r].bound THEN <<r, d.run[r].key>> ELSE none
MarkAgentRunSubmitted(d, r) ==
    IF ~Is(d, r, {"preparing"}) THEN d
    ELSE LET marked == Commit(d, r, [d.run[r] EXCEPT !.state = "running", !.bound = TRUE,
                                                     !.started = TRUE], "active", fresh)
         IN IF Incident(r) /\ marked # d
            THEN [marked EXCEPT !.active = Turn(marked, r), !.shut = FALSE] ELSE marked

\* SupersedeAgentRun.
SupersedeAgentRun(d, r) ==
    IF ~Is(d, r, {"preparing", "finalizing"}) THEN d
    ELSE Commit(d, r, [d.run[r] EXCEPT !.state = "superseded"], "superseded", <<"superseded", r>>)

\* An incident gives up exactly the turn its run prep, or the requeue fails.
Releasable(d, r) == Incident(r) => d.active = Turn(d, r)
Released(d, r) == IF Incident(r) THEN [d EXCEPT !.active = none, !.shut = FALSE] ELSE d

\* RequeueAgentRun: a correction, or a failure that spends an attempt.  When
\* a newer attempt ended the episode the run is history.
RequeueAgentRun(d, r, spends) ==
    LET row == Restaged(d.run[r])
        next == IF spends THEN Failing(row) ELSE [row EXCEPT !.corrections = @ + 1]
        refused == Refused(d, r, "active", fresh)
    IN IF ~Is(d, r, {"running", "finalizing"}) \/ ~Releasable(d, r) THEN d
       ELSE IF refused THEN Write(Released(d, r), r, [next EXCEPT !.state = "superseded"])
       ELSE Commit(Released(d, r), r, next, "active", fresh)

DeferRunningAgentRun(d, r) ==
    IF ~Is(d, r, {"running"}) \/ ~Releasable(d, r) \/ Refused(d, r, "active", fresh) THEN d
    ELSE Commit(Released(d, r), r, Restaged(d.run[r]), "active", fresh)

StageAgentRunResult(d, r, result) ==
    IF ~Is(d, r, {"running"}) THEN d
    ELSE Commit(d, r, [d.run[r] EXCEPT !.state = "applying", !.staged = result], "active", fresh)

\* Mutated: even an answer makes way for a newer attempt.
LeaseOnlyNewest(d, r) ==
    Write(d, r, [d.run[r] EXCEPT !.state = IF ~Latest(d, r) THEN "superseded" ELSE "finalizing"])

\* LeaseAgentRunFinalization: an attempt without an answer makes way for a
\* newer one.
Answered(d, r) == d.run[r].staged \in Answers
LeaseAgentRunFinalization(d, r) ==
    Write(d, r, [d.run[r] EXCEPT !.state =
        IF ~Answered(d, r) /\ ~Latest(d, r) THEN "superseded" ELSE "finalizing"])

\* SetWorkEpisodePhase, keyed by the run and the state it asks for.
SetPhase(d, r, state) == Phased(d, r, state, <<"phase", r, state>>)
SetPhaseFails(d, r, state) ==
    ~Dropped(d, r, state) /\ Closed(d, r, state, <<"phase", r, state>>)

\* A run that ends gives up its turn; one without a turn, if it is the last.
Freed(d, r) ==
    IF /\ Incident(r) /\ d.active = Turn(d, r)
       /\ d.run[r].bound \/ \A q \in Rivals(r) : q > r => Is(d, q, {"absent"})
    THEN [d EXCEPT !.active = none, !.shut = FALSE] ELSE d

\* Mutated: an execution of a run has one event key.
FinishedUnderOneKey(d, r, outcome) ==
    LET row == [d.run[r] EXCEPT !.state = outcome,
                                !.failures = IF outcome = "failed" THEN @ + 1 ELSE @]
    IN IF EpisodeOf(d, r).state = "active"
       THEN Commit(Freed(d, r), r, row, outcome, <<"lease", r, d.run[r].key>>)
       ELSE Write(Freed(d, r), r, row)

\* finishAgentRunTx.
Finished(d, r, outcome) ==
    LET row == [d.run[r] EXCEPT !.state = outcome,
                                !.failures = IF outcome = "failed" THEN @ + 1 ELSE @]
    IN IF EpisodeOf(d, r).state = "active"
       THEN Commit(Freed(d, r), r, row, outcome, <<"finished", r, outcome>>)
       ELSE Write(Freed(d, r), r, row)

\* Mutated: the result's own state becomes the run's.
FinishAgentRunAsStaged(d, r) ==
    IF ~Is(d, r, {"finalizing"}) THEN d ELSE Finished(d, r, d.run[r].staged)

FinishAgentRun(d, r) ==
    IF ~Is(d, r, {"finalizing"}) THEN d
    ELSE Finished(d, r, IF Answered(d, r) THEN "completed" ELSE d.run[r].staged)

\* Mutated: a failure is a failure, whatever was said.
FinishAgentRunFailureAlways(d, r) ==
    IF ~Is(d, r, {"preparing", "finalizing"}) THEN d
    ELSE IF ~Latest(d, r) THEN SupersedeAgentRun(d, r) ELSE Finished(d, r, "failed")

\* FinishAgentRunFailure: an answer that was already queued stands.
FinishAgentRunFailure(d, r) ==
    IF ~Is(d, r, {"preparing", "finalizing"}) THEN d
    ELSE IF ~Latest(d, r) THEN SupersedeAgentRun(d, r)
    ELSE LET responseStaged == d.run[r].told = d.run[r].key
         IN Finished(d, r, IF Is(d, r, {"finalizing"}) /\ Answered(d, r) /\ responseStaged
                           THEN "completed" ELSE "failed")

RetryAgentRunFinalization(d, r) ==
    IF ~Is(d, r, {"finalizing"}) THEN d
    ELSE Write(d, r, Failing([d.run[r] EXCEPT !.state = "applying"]))

\* RequeueRateLimitedFinalization.
ReturnToApplying(d, r) ==
    IF ~Is(d, r, {"finalizing"}) THEN d ELSE Write(d, r, [d.run[r] EXCEPT !.state = "applying"])

\* RequeueFailedAgentRun.
RequeueFailed(d, r) ==
    IF ~Is(d, r, {"failed"}) \/ ~Latest(d, r) \/ EpisodeOf(d, r).state = "completed" THEN d
    ELSE Commit(d, r, Restaged(d.run[r]), "active", fresh)

\* CancelSlackReplay.
CancelSlackReplay(d, r) ==
    IF ~Is(d, r, {"pending"} \cup Active) THEN d
    ELSE IF ~Latest(d, r) THEN Write(d, r, [d.run[r] EXCEPT !.state = "cancelled"])
    ELSE Finished(d, r, "cancelled")

\* Mutated: only preparation is recovered.
RecoverPreparing(d) ==
    [d EXCEPT !.run = [r \in Runs |-> [d.run[r] EXCEPT !.state =
        IF @ = "preparing" THEN "pending" ELSE @]]]

\* RecoverInterrupted: interrupted work goes back a step.
RecoverInterrupted(d) ==
    [d EXCEPT !.run = [r \in Runs |-> [d.run[r] EXCEPT !.state =
        CASE @ = "preparing" -> "pending"
          [] @ = "finalizing" -> "applying"
          [] OTHER -> @]]]
-----------------------------------------------------------------------------
(* What waits outside the database. *)
Open(t) == t.state = "open"
Bound(r) == {t \in turns : t.run = r /\ t.key = db.run[r].key}
Busy(r) == \E t \in turns \ Bound(r) : Open(t) /\ Kind[t.run] = Kind[r]

Gets(r, from, to) == prep[r] \in from /\ prep' = [prep EXCEPT ![r] = to]
Moves(r, from, to) == fin[r] \in from /\ fin' = [fin EXCEPT ![r] = to]
AtWork(jobs) == Cardinality({r \in Runs : jobs[r] # "none"})

Spend(what, max) == spent[what] < max /\ spent' = [spent EXCEPT ![what] = @ + 1]
Free == UNCHANGED spent
Store == UNCHANGED <<turns, admitted, prep, fin, polled, aged, spent>>

Init ==
    /\ db = [run |-> [r \in Runs |-> NoRun], episode |-> [r \in Runs |-> NoEpisode],
             active |-> none, shut |-> \E r \in Runs : Incident(r)]
    /\ turns = {}
    /\ admitted = None
    /\ prep = [r \in Runs |-> "none"]
    /\ fin = [r \in Runs |-> "none"]
    /\ polled = None
    /\ aged = {}
    /\ spent = [refusals |-> 0, stalls |-> 0, revivals |-> 0, crashes |-> 0]
-----------------------------------------------------------------------------
(* Requests. *)
Absent == {r \in Runs : Is(db, r, {"absent"})}
Previous(r) == {q \in Rivals(r) : q < r /\ ~Is(db, q, {"absent"})}

\* correlateWatchEpisode: a card joins the open episode of its stream, a
\* message the one that waits for an answer.  The run is queued later.
Joins(r, q) ==
    /\ q \in Previous(r) /\ \A p \in Previous(r) : p <= q
    /\ \/ Kind[r] = "card" /\ EpisodeOf(db, q).state \notin Final
       \/ Kind[r] = "message" /\ EpisodeOf(db, q).state = "waiting"
Correlate(r) ==
    /\ IF admitted = None THEN r \in Absent /\ \A q \in Absent : r <= q
       ELSE admitted = [run |-> r, episode |-> 0]
    /\ admitted' = [run |-> r,
                    episode |-> IF \E q \in Runs : Joins(r, q)
                                THEN db.run[CHOOSE q \in Runs : Joins(r, q)].episode ELSE r]
    /\ UNCHANGED <<db, turns, prep, fin, polled, aged, spent>>

\* queueWatchedInput: an answer to waiting work resumes its episode, all
\* other requests are queued.  A request that is refused is correlated again.
Correlated == admitted # None /\ admitted.episode # 0
Queue ==
    /\ Correlated
    /\ db' = IF Kind[admitted.run] = "message" /\ admitted.episode # admitted.run
             THEN QueueEpisodeAttempt(db, admitted.run, admitted.episode)
             ELSE QueueAgentRun(db, admitted.run, admitted.episode)
    /\ admitted' = IF db' = db THEN [admitted EXCEPT !.episode = 0] ELSE None
    /\ UNCHANGED <<turns, prep, fin, polled, aged, spent>>
-----------------------------------------------------------------------------
(* Preparation: processAgentRun. *)

\* The sweep commits even when no run can be leased.
Sweep ==
    /\ Swept(db) # db
    /\ db' = Swept(db)
    /\ Store

\* Runs are leased in the order they came, but one that was put off is due later.
PutOff(q) == db.run[q].key > 1 \/ db.run[q].failures > 0 \/ Holds(EpisodeOf(db, q), <<"deferred", q>>)
Lease(r) ==
    /\ AtWork(prep) < Workers
    /\ \A q \in Rivals(r) : q < r /\ Leasable(Swept(db), q) => PutOff(q)
    /\ Leasable(Swept(db), r)
    /\ Gets(r, {"none"}, "leased")
    /\ db' = LeaseAgentRun(Swept(db), r)
    /\ UNCHANGED <<turns, admitted, fin, polled, aged, spent>>

\* The job's deadline falls on a write of the store: nothing is recorded.
Expire(r) ==
    /\ Gets(r, {"leased", "admitted", "submitted"}, "none")
    /\ Spend("stalls", MaxStalls)
    /\ UNCHANGED <<db, turns, admitted, fin, polled, aged>>

\* RecoverStaleAgentRunPreparations, once the lease is as old as a job may
\* become: its preparer is gone.
Recover(r) ==
    /\ prep[r] = "none"
    /\ Is(db, r, {"preparing"}) /\ ~db.run[r].bound
    /\ db' = Write(db, r, [db.run[r] EXCEPT !.state = "pending"])
    /\ Store

\* Mutated: any other request of the conversation carries this one.
CarriedByAny(r) ==
    /\ ~Incident(r)
    /\ ~Attempted(db, r)
    /\ \E q \in Rivals(r) : Is(db, q, {"pending", "preparing"}) \/ db.run[q].staged # "none"

\* admitTriageRun: a newer request of the conversation carries an untouched
\* one.  A card may be folded into an answer its episode was given: whether the
\* answer shows the card's counts, and was posted after it came, is left open.
Carried(r) ==
    /\ ~Incident(r)
    /\ ~Attempted(db, r)
    /\ \/ Awaited(db, r, {"pending", "preparing"})
       \/ Kind[r] = "message" /\ \E q \in Rivals(r) : q > r /\ db.run[q].staged # "none"
Foldable(r) == Kind[r] = "card"
    /\ \E q \in Rivals(r) : db.run[q].episode = db.run[r].episode /\ db.run[q].told # 0

Coalesce(r) ==
    /\ Gets(r, {"leased"}, "none")
    /\ Carried(r) \/ Foldable(r)
    /\ db' = SupersedeAgentRun(db, r)
    /\ UNCHANGED <<turns, admitted, fin, polled, aged, spent>>

\* The run goes on to bind its session, which takes a run that is preparing.
Admit(r) ==
    /\ Gets(r, {"leased"}, "admitted")
    /\ ~Carried(r) /\ Is(db, r, {"preparing"})
    /\ UNCHANGED <<db, turns, admitted, fin, polled, aged, spent>>

\* Coop accepts one turn per key, and a session runs one at a time.
Submit(r) ==
    /\ Gets(r, {"admitted"}, "submitted")
    /\ ~Busy(r)
    /\ turns' = IF Bound(r) # {} THEN turns
                ELSE turns \cup {[run |-> r, key |-> db.run[r].key, state |-> "open"]}
    /\ UNCHANGED <<db, admitted, fin, polled, aged, spent>>

\* Another turn holds the session: the run waits, under a new key when the
\* submission itself met it.
Wait(r) ==
    /\ Gets(r, {"admitted"}, "none")
    /\ Busy(r)
    /\ \/ db' = DeferAgentRun(db, r) /\ Free
       \/ db' = DeferAgentRun(ReleaseAgentRunRevision(db, r), r) /\ Spend("refusals", MaxRefusals)
    /\ UNCHANGED <<turns, admitted, fin, polled, aged>>

Mark(r) ==
    /\ Gets(r, {"submitted"}, "none")
    /\ LET marked == MarkAgentRunSubmitted(db, r)
       IN db' = IF marked = db /\ Incident(r) THEN DeferAgentRun(db, r) ELSE marked
    /\ UNCHANGED <<turns, admitted, fin, polled, aged, spent>>

\* retryAgentRun and retryIncidentAgentRun: the preparation is put off, or it
\* spends an attempt, and the last one ends the run.
PrepareWaits(r) ==
    /\ Gets(r, {"leased", "admitted", "submitted"}, "none")
    /\ Spend("refusals", MaxRefusals)
    /\ db' \in {DeferAgentRun(db, r), RequeueRateLimited(db, r)}
    /\ UNCHANGED <<turns, admitted, fin, polled, aged>>

PrepareFails(r) ==
    /\ r \in Unready
    /\ Gets(r, {"leased", "admitted", "submitted"}, "none")
    /\ \/ ~Exhausted(db.run[r].failures + 1) /\ db' = RetryAgentRun(db, r, FALSE)
       \/ db' = IF Incident(r) THEN RetryAgentRun(db, r, TRUE) ELSE FinishAgentRunFailure(db, r)
    /\ UNCHANGED <<turns, admitted, fin, polled, aged, spent>>
-----------------------------------------------------------------------------
(* Coop, and its poller. *)
\* Nobody asks for the end of a turn whose run has ended or goes by another key.
TurnEnds(t, outcome) ==
    /\ Open(t)
    /\ LET asked == t \in Bound(t.run) /\ ~Is(db, t.run, Final)
       IN turns' = (turns \ {t}) \cup (IF asked THEN {[t EXCEPT !.state = outcome]} ELSE {})
    /\ IF outcome = "refused" THEN Spend("refusals", MaxRefusals) ELSE Free
    /\ UNCHANGED <<db, admitted, prep, fin, polled, aged>>

\* The one poller takes the end of a running turn, unless the store refuses.
Polls(r, outcome) ==
    /\ polled = None
    /\ Is(db, r, {"running"})
    /\ \E t \in Bound(r) :
          /\ t.state = outcome
          /\ turns' = IF db' = db THEN turns ELSE turns \ {t}
    /\ UNCHANGED <<admitted, prep, fin, polled, aged, spent>>

PollCompleted(r) ==
    /\ \/ \E result \in Answers : db' = StageAgentRunResult(db, r, result)
       \/ db.run[r].corrections < MaxCorrections /\ db' = RequeueAgentRun(db, r, FALSE)
    /\ Polls(r, "completed")

PollFailed(r) ==
    /\ db' = StageAgentRunResult(db, r, "failed")
    /\ Polls(r, "failed")

\* runreplay.Decide: an interrupted turn is replayed while attempts are left.
PollInterrupted(r) ==
    /\ db' = IF Exhausted(db.run[r].failures + 1) THEN StageAgentRunResult(db, r, "failed")
             ELSE RequeueAgentRun(db, r, TRUE)
    /\ Polls(r, "interrupted")

\* The provider refused, or the runtime is missing: not the run's failure.
PollRefused(r) ==
    /\ db' \in {DeferRunningAgentRun(db, r), RequeueRateLimited(db, r)}
    /\ Polls(r, "refused")

\* pollIncident copies the session's active turn in two steps.
ActiveTurn ==
    LET open == {t \in turns : Incident(t.run) /\ Open(t)}
    IN IF open = {} THEN none ELSE LET t == CHOOSE t \in open : TRUE IN <<t.run, t.key>>
ReadSession ==
    /\ polled = None
    /\ \E r \in Runs : Incident(r)
    /\ polled' = ActiveTurn
    /\ UNCHANGED <<db, turns, admitted, prep, fin, aged, spent>>
\* Mutated: only a turn that runs is copied.
UpdateCoopStateOfTurns ==
    /\ polled # None
    /\ \E shut \in BOOLEAN :
          db' = IF polled = none THEN db ELSE [db EXCEPT !.active = polled, !.shut = shut]
    /\ polled' = None
    /\ UNCHANGED <<turns, admitted, prep, fin, aged, spent>>
UpdateCoopState ==
    /\ polled # None
    /\ \E shut \in BOOLEAN : db' = [db EXCEPT !.active = polled, !.shut = shut]
    /\ polled' = None
    /\ UNCHANGED <<turns, admitted, prep, fin, aged, spent>>

\* The rest of the incident's life: it is bound to a session, its channel blocks
\* or frees it, and it is closed, which takes its turn from it.
SetWorkflow ==
    /\ \E r \in Runs : Incident(r)
    /\ \/ \E shut \in BOOLEAN : db' = [db EXCEPT !.shut = shut]
       \/ db' = [db EXCEPT !.shut = TRUE, !.active = none]
    /\ Store
-----------------------------------------------------------------------------
(* Finalization: processAgentRunFinalization. *)
LeaseFinalization(r) ==
    /\ AtWork(fin) < Workers
    /\ Is(db, r, {"applying"})
    /\ db' = LeaseAgentRunFinalization(db, r)
    /\ fin' = [fin EXCEPT ![r] = IF Is(db', r, {"finalizing"}) THEN "leased" ELSE "none"]
    /\ UNCHANGED <<turns, admitted, prep, polled, aged, spent>>

\* A result without an answer ends the run.
FinalizeFailure(r) ==
    /\ Moves(r, {"leased"}, "none")
    /\ ~Answered(db, r)
    /\ db' = IF Incident(r) THEN FinishAgentRun(db, r) ELSE FinishAgentRunFailure(db, r)
    /\ UNCHANGED <<turns, admitted, prep, polled, aged, spent>>

\* A card's result that is no reply makes way for a newer card.
FinalizeStaleCard(r) ==
    /\ Moves(r, {"leased"}, "none")
    /\ Answered(db, r) /\ Kind[r] = "card" /\ Later(r)
    /\ db' = SupersedeAgentRun(db, r)
    /\ UNCHANGED <<turns, admitted, prep, polled, aged, spent>>

\* supersedeStaleHumanTriageResult: a newer human turn silences an answer.
FinalizeStaleMessage(r) ==
    /\ Moves(r, {"leased"}, "phased")
    /\ Answered(db, r) /\ Kind[r] = "message" /\ Later(r)
    /\ ~SetPhaseFails(db, r, "superseded")
    /\ db' = SetPhase(db, r, "superseded")
    /\ UNCHANGED <<turns, admitted, prep, polled, aged, spent>>

\* The answer is queued for Slack, unless it is silence.
Tell(r) ==
    /\ Moves(r, {"leased"}, "told")
    /\ Answered(db, r) /\ (Kind[r] = "message" => ~Later(r))
    /\ \E says \in BOOLEAN :
          db' = IF says THEN Write(db, r, [db.run[r] EXCEPT !.told = db.run[r].key]) ELSE db
    /\ UNCHANGED <<turns, admitted, prep, polled, aged, spent>>

\* The answer's completion decides where the episode goes.
SettleEpisode(r) ==
    /\ Moves(r, {"told"}, "phased")
    /\ Answered(db, r) /\ ~SetPhaseFails(db, r, db.run[r].staged)
    /\ db' = SetPhase(db, r, db.run[r].staged)
    /\ UNCHANGED <<turns, admitted, prep, polled, aged, spent>>

Close(r) ==
    /\ Moves(r, {"phased"}, "none")
    /\ db' = FinishAgentRun(db, r)
    /\ UNCHANGED <<turns, admitted, prep, polled, aged, spent>>

\* The job's deadline falls on the finalizer: it writes nothing, and nothing
\* but a restart takes the run up again.
FinalizeExpires(r) ==
    /\ Moves(r, {"leased", "told", "phased"}, "none")
    /\ Spend("stalls", MaxStalls)
    /\ UNCHANGED <<db, turns, admitted, prep, polled, aged>>

\* retryAgentRunFinalization.
FinalizeFails(r) ==
    /\ Moves(r, {"leased", "told", "phased"}, "none")
    /\ LET ended == FinishAgentRunFailure(db, r)
       IN db' = IF Exhausted(db.run[r].failures + 1) /\ ended # db THEN ended
                ELSE RetryAgentRunFinalization(db, r)
    /\ UNCHANGED <<turns, admitted, prep, polled, aged, spent>>

FinalizeRefused(r) ==
    /\ Moves(r, {"leased", "told"}, "none")
    /\ Spend("refusals", MaxRefusals)
    /\ db' = ReturnToApplying(db, r)
    /\ UNCHANGED <<turns, admitted, prep, polled, aged>>

\* The kernel refuses a completion over an open goal, after the answer was
\* queued; an incident's report may be unreadable, before it is.
FinalizeCorrects(r) ==
    /\ IF Incident(r) THEN Moves(r, {"leased"}, "none") /\ db.run[r].corrections < MaxCorrections /\ Free
       ELSE Moves(r, {"told"}, "none") /\ Spend("refusals", MaxRefusals)
    /\ Answered(db, r) /\ Releasable(db, r)
    /\ db' = RequeueAgentRun(db, r, FALSE)
    /\ UNCHANGED <<turns, admitted, prep, polled, aged>>
-----------------------------------------------------------------------------
(* Operators, time and the process. *)
RetryFailed(r) ==
    /\ Is(db, r, {"failed"})
    /\ Spend("revivals", MaxRevivals)
    /\ db' = RequeueFailed(db, r)
    /\ UNCHANGED <<turns, admitted, prep, fin, polled, aged>>

CancelReplay(r) ==
    /\ r \in Replays
    /\ CancelSlackReplay(db, r) # db
    /\ db' = CancelSlackReplay(db, r)
    /\ Store

\* An hour has passed.  It matters once the run has failed often enough.
Age(r) ==
    /\ r \notin aged
    /\ CyclingAt <= db.run[r].failures \/ CyclingAt <= db.run[r].corrections
    /\ aged' = aged \cup {r}
    /\ UNCHANGED <<db, turns, admitted, prep, fin, polled, spent>>

Restart ==
    /\ Spend("crashes", MaxCrashes)
    /\ db' = RecoverInterrupted(db)
    /\ admitted' = IF admitted = None THEN None ELSE [admitted EXCEPT !.episode = 0]
    /\ prep' = [r \in Runs |-> "none"]
    /\ fin' = [r \in Runs |-> "none"]
    /\ polled' = None
    /\ UNCHANGED <<turns, aged>>

Outcomes == {"completed", "failed", "interrupted", "refused"}
Prepares(r) ==
    \/ Lease(r) \/ Recover(r) \/ Coalesce(r) \/ Admit(r) \/ Submit(r) \/ Wait(r)
    \/ Mark(r) \/ PrepareWaits(r) \/ PrepareFails(r) \/ Expire(r)
Polling(r) == PollCompleted(r) \/ PollFailed(r) \/ PollInterrupted(r) \/ PollRefused(r)
Finalizes(r) ==
    \/ LeaseFinalization(r) \/ FinalizeFailure(r) \/ FinalizeStaleCard(r)
    \/ FinalizeStaleMessage(r) \/ Tell(r) \/ SettleEpisode(r) \/ Close(r)
    \/ FinalizeFails(r) \/ FinalizeExpires(r) \/ FinalizeRefused(r) \/ FinalizeCorrects(r)

Next ==
    \/ \E r \in Runs : Correlate(r) \/ Prepares(r)
                       \/ Polling(r) \/ Finalizes(r)
                       \/ RetryFailed(r) \/ CancelReplay(r) \/ Age(r)
    \/ Queue \/ Sweep \/ ReadSession \/ UpdateCoopState \/ SetWorkflow \/ Restart
    \/ \E t \in turns, outcome \in Outcomes : TurnEnds(t, outcome)

Spec == Init /\ [][Next]_vars

\* Background drains run again and again, and lease the oldest work first: a
\* run is served though others take its place for a while.  Nobody owes a
\* failure, a refusal or a crash.  Coop ends a turn within its turn limit.
FairSpec ==
    /\ Spec
    /\ WF_vars(Queue) /\ WF_vars(ReadSession) /\ WF_vars(UpdateCoopState) /\ WF_vars(Sweep)
    /\ \A r \in Runs :
          /\ WF_vars(Correlate(r)) /\ SF_vars(Lease(r)) /\ WF_vars(Recover(r))
          /\ WF_vars(Coalesce(r) \/ Admit(r) \/ Submit(r) \/ Wait(r) \/ Mark(r))
          /\ SF_vars(Polling(r)) /\ SF_vars(LeaseFinalization(r))
          /\ WF_vars(FinalizeFailure(r) \/ FinalizeStaleCard(r) \/ FinalizeStaleMessage(r))
          /\ WF_vars(Tell(r) \/ SettleEpisode(r) \/ Close(r) \/ FinalizeFails(r))
          /\ WF_vars(\E t \in turns, outcome \in Outcomes : t.run = r /\ TurnEnds(t, outcome))
-----------------------------------------------------------------------------
Row == [state : State, episode : Runs \cup {0}, key : Nat, failures : Nat, corrections : Nat,
        bound : BOOLEAN, staged : {"none", "completed", "waiting", "failed"}, started : BOOLEAN,
        told : Nat]

\* The keys of an episode's events.
Event == ({"lease"} \X Runs \X Nat)
         \cup ({"finished", "phase"} \X Runs \X EpisodeState)
         \cup ({"deferred", "superseded"} \X Runs)
         \cup {<<"resumed">>}
Episode == [state : EpisodeState, latest : Runs \cup {0}, events : SUBSET Event]
TurnOf == {none} \cup (Runs \X Nat)
Database == [run : [Runs -> Row], episode : [Runs -> Episode], active : TurnOf, shut : BOOLEAN]

\* The type invariant.
TypeOK ==
    /\ db \in Database
    /\ turns \subseteq [run : Runs, key : Nat, state : {"open"} \cup Outcomes]
    /\ admitted = None \/ admitted \in [run : Runs, episode : Runs \cup {0}]
    /\ prep \in [Runs -> {"none", "leased", "admitted", "submitted"}]
    /\ fin \in [Runs -> {"none", "leased", "told", "phased"}]
    /\ polled = None \/ polled \in TurnOf
    /\ aged \subseteq Runs

\* Two runs of a conversation are at work together only when one of them is
\* old and keeps failing: answers land in the order they were asked for.
OneAtATime ==
    \A q, r \in Runs : q # r /\ Kind[q] = Kind[r] /\ Is(db, q, Active) /\ Is(db, r, Active)
        => Cycling(db, q) \/ Cycling(db, r)

\* The newest attempt of a closed episode is not at work, whatever closed it
\* (RunningUnderFinished), ...
NotWorkedWhenClosed ==
    \A r \in Runs : Is(db, r, {"preparing", "running"}) /\ EpisodeOf(db, r).state \in Final
        => ~Latest(db, r)

\* ... and when the newest attempt of an episode ends, the episode is no longer
\* being worked (ExecutingWithoutRun), unless the attempt is a revived run that
\* fails again: the episode holds that failure already and does not take it twice.
FailedBefore(e, r) == Holds(e, <<"finished", r, "failed">>)
NewestEnds ==
    \A r \in Runs : Is(db, r, Final)' /\ ~Is(db, r, Final) /\ Latest(db, r) =>
        \/ EpisodeOf(db, r)'.state # "active"
        \/ Is(db, r, {"failed"})' /\ FailedBefore(EpisodeOf(db, r), r)

\* An episode and its newest attempt keep in step, over replays,
\* cancellations, takeovers, revivals and late results.
EpisodeInStep == []NotWorkedWhenClosed /\ [][NewestEnds]_vars

\* A request whose answer was queued is not then reported as failed, ...
AnswerNotContradicted ==
    \A r \in Runs : Is(db, r, {"failed"}) => db.run[r].told # db.run[r].key

\* ... and one is given up for an answer, which its episode or a newer request of
\* its conversation was given, or for a newer one that is not given up in turn.
Newer(q, r) == q \in Rivals(r) /\ q > r
Excused(r) ==
    \E q \in Runs :
        \/ db.run[q].told # 0 /\ (db.run[q].episode = db.run[r].episode \/ Newer(q, r))
        \/ Newer(q, r) /\ Came(q) /\ ~Is(db, q, {"superseded"})
NotGivenUpForNothing == \A r \in Runs : Is(db, r, {"superseded"}) => Excused(r)

\* What a request ends as is what its person was told: failure and giving up
\* neither follow an answer nor leave nothing in its place.
OutcomeRight == TypeOK /\ AnswerNotContradicted /\ NotGivenUpForNothing

\* A finished answer is not given up unread: it waits to be applied.
KeepsResults ==
    \A r \in Runs \ Replays : Is(db, r, {"applying"}) /\ Answered(db, r)
        => Answered(db, r)' /\ ~Is(db, r, Final)'
ResultKept == [][KeepsResults]_vars

\* A turn that was interrupted or refused goes back to the queue only while the
\* incident names it: once a poll, late or early, has named another or none, its
\* run stays as it is, and so does all that waits behind it.
Stranded(r) ==
    /\ Incident(r) /\ Is(db, r, {"running"}) /\ ~Releasable(db, r)
    /\ \E t \in Bound(r) :
          \/ t.state = "interrupted" /\ ~Exhausted(db.run[r].failures + 1)
          \/ t.state = "refused"
Behind(r) == \E q \in Runs : Kind[q] = Kind[r] /\ Stranded(q)
Barred(r) == Incident(r) /\ Is(db, r, {"pending"}) /\ db.shut

\* Every run that is queued ends, through requeues, corrections, a poller that
\* copies the session late, and a restart, but for what waits on a shut
\* incident or behind a stranded turn.
RunsEnd ==
    \A r \in Runs : <>[](Is(db, r, {"absent"} \cup Final) \/ Behind(r) \/ Barred(r))

\* An incident is not held for ever by a turn that is over.
IncidentFreed == db.active # none ~> db.active = none
=============================================================================
