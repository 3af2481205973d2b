------------------------------ MODULE Incidents ------------------------------
(* Webhooks and incidents (internal/store/store.go, internal/service/workers.go, *)
(* internal/service/input.go): a delivery is stored before it is acknowledged,   *)
(* one worker applies its alerts in a transaction, incidents get a room and a    *)
(* session each, are polled, archived with their room, resolved and closed.      *)
(* Incidents are provisioned side by side; each by one job at a time.            *)
EXTENDS Naturals, Sequences, FiniteSets, SequencesExt

CONSTANTS
    Alerts,        \* the alerts of each delivery: event -> sequence of [signal, status]
    Key,           \* signal -> correlation key
    ResolveAfter,  \* the route's resolve_after: 0 resolves at once
    Plans,         \* what one behaviour is about: [open, sent, troubles], that is
                   \* limits.max_open_incidents, the deliveries that come, and a
                   \* bound: restarts, lost answers, refusals, rooms archived or
                   \* brought back
    MaxActive,     \* limits.max_active_incidents
    MaxAttempts,   \* limits.max_webhook_attempts
    MaxIncidents,  \* bound: the highest of these limits and MaxCloses
    MaxCloses      \* bound: orders to close, and sessions Coop ends by itself

Events == DOMAIN Alerts
Signals == DOMAIN Key
Incident == 1..MaxIncidents

ASSUME IncidentAssumption ==
    /\ \A e \in Events : Alerts[e] \in Seq([signal : Signals, status : {"firing", "resolved"}])
    /\ ResolveAfter \in Nat
    /\ {MaxActive, MaxAttempts} \subseteq Nat \ {0}
    /\ {MaxIncidents, MaxCloses} \subseteq Nat
    /\ \A p \in Plans : /\ p.open \in 1..(MaxIncidents - MaxCloses)
                        /\ p.sent \subseteq Events /\ p.troubles \in Nat

VARIABLES
    plan,      \* of Plans, once for all
    arrived,   \* webhook_events by received_at
    event,     \* webhook_events: [state, due, attempts, applied], and, as
               \* history, which of its alerts were recorded: kept
    sig,       \* signals: the incident (0: none) and the status
    inc,       \* incidents: [status, workflow, key, room, writable, session]
    recent,    \* incidents updated inside the correlation window, oldest first
    coop,      \* Coop's session of an incident
    worker,    \* the webhook drain: [phase, event]
    job,       \* the provisioning job of an incident
    poll,      \* what the poller has read: [incident, writable, ended]
    closer,    \* the order to close: [phase, incident, session, previous]
    spent      \* closes and troubles so far

vars == <<plan, arrived, event, sig, inc, recent, coop, worker, job, poll, closer, spent>>
provision == <<coop, job>>
webhook == <<plan, arrived, event, worker>>

Open(i) == inc[i].status \notin {"none", "closed"}
Counted == {i \in Incident : inc[i].session /\ inc[i].workflow # "closed"}
Spend(what) == spent' = [spent EXCEPT ![what] = @ + 1]
Bump(order, i) == Append(RemoveFirst(order, i), i)

\* Every write to an incident moves its updated_at.
Write(i, row) ==
    /\ inc' = [inc EXCEPT ![i] = row]
    /\ recent' = Bump(recent, i)
InWorkflow(i, workflow) == [inc[i] EXCEPT !.workflow = workflow]
-----------------------------------------------------------------------------
Fresh == [state |-> "absent", due |-> FALSE, attempts |-> 0, applied |-> FALSE, kept |-> {}]
NoIncident == [status |-> "none", workflow |-> "none", key |-> "none", room |-> "none",
               writable |-> FALSE, session |-> FALSE]
Rest == [phase |-> "idle", event |-> "none"]
NoOrder == [phase |-> "idle", incident |-> 0, session |-> FALSE, previous |-> "none"]
NoPoll == [incident |-> 0, writable |-> FALSE, ended |-> FALSE]

Init ==
    /\ plan \in Plans
    /\ arrived = <<>>
    /\ event = [e \in Events |-> Fresh]
    /\ sig = [s \in Signals |-> [incident |-> 0, status |-> "none"]]
    /\ inc = [i \in Incident |-> NoIncident]
    /\ recent = <<>>
    /\ coop = [i \in Incident |-> "none"]
    /\ worker = Rest
    /\ job = [i \in Incident |-> "idle"]
    /\ poll = NoPoll
    /\ closer = NoOrder
    /\ spent = [closes |-> 0, troubles |-> 0]
-----------------------------------------------------------------------------
\* The handler stores a delivery once; sending it again changes nothing.
Deliver(e) ==
    /\ e \in plan.sent /\ event[e].state = "absent"
    /\ event' = [event EXCEPT ![e].state = "pending", ![e].due = TRUE]
    /\ arrived' = Append(arrived, e)
    /\ UNCHANGED <<plan, sig, inc, recent, provision, worker, poll, closer, spent>>

\* Mutated: a delivery is never retried.
LeasableOnce(e) == event[e].state = "pending"

\* LeaseWebhook: of the deliveries that are due the one received first.
Leasable(e) == event[e].state \in {"pending", "retry"} /\ event[e].due

Lease ==
    /\ worker.phase = "idle"
    /\ \E n \in DOMAIN arrived :
          /\ Leasable(arrived[n])
          /\ \A k \in 1..(n - 1) : ~Leasable(arrived[k])
          /\ event' = [event EXCEPT ![arrived[n]].state = "processing",
                                    ![arrived[n]].attempts = @ + 1]
          /\ worker' = [phase |-> "apply", event |-> arrived[n]]
    /\ UNCHANGED <<plan, arrived, sig, inc, recent, provision, poll, closer, spent>>

\* A closed incident, and a resolved one that is old, take no further alerts.
Ended(db, i) ==
    \/ db.inc[i].status = "closed"
    \/ db.inc[i].status = "resolved" /\ ~Contains(db.recent, i)

\* Where the open incidents of a key are among those inside the window.
Reusable(db, key) ==
    {n \in DOMAIN db.recent : LET i == db.recent[n] IN
                                 db.inc[i].key = key /\ db.inc[i].status # "closed"}

\* The incident of an alert: the signal's own, else the newest of its key, else
\* a new one; a resolution without an incident starts none.
Known(db) == {i \in Incident : db.inc[i].status # "none"}
New(db) == Cardinality(Known(db)) + 1

Target(db, a) ==
    LET own == db.sig[a.signal].incident
        places == Reusable(db, Key[a.signal])
    IN IF own # 0 /\ (a.status = "resolved" \/ ~Ended(db, own)) THEN own
       ELSE IF a.status = "resolved" THEN 0
       ELSE IF places = {} THEN New(db) ELSE db.recent[Max(places)]

Opened(db) == {i \in Known(db) : db.inc[i].status # "closed"}

\* Mutated: one incident too many.
NoSlotBeyond(db, i) == i \notin Known(db) \cup {0} /\ Cardinality(Opened(db)) > plan.open

\* requireOpenIncidentSlot: every incident that is not closed takes a slot.
NoSlot(db, i) == i \notin Known(db) \cup {0} /\ Cardinality(Opened(db)) >= plan.open

\* refreshIncident: the status follows the signals of the incident.
Calm == IF ResolveAfter = 0 THEN "resolved" ELSE "monitoring"
Status(signals, i) ==
    IF \E s \in Signals : signals[s] = [incident |-> i, status |-> "firing"]
    THEN "active" ELSE Calm

\* Mutated: only an alert that changes its incident counts as news.
RefreshesMoved(db, a, i) == i # 0 /\ ~Ended(db, i) /\ db.sig[a.signal].incident # i

\* A resolution of an ended occurrence and an alert that is known already
\* leave the incident alone.
Refreshes(db, a, i) ==
    /\ i # 0
    /\ ~Ended(db, i)
    /\ db.sig[a.signal] # [incident |-> i, status |-> a.status]

Started(a) == [NoIncident EXCEPT !.status = "active", !.workflow = "provisioning_channel",
                                 !.key = Key[a.signal]]
Refreshed(db, signals, i, a) ==
    IF db.inc[i].status = "none" THEN Started(a)
    ELSE [db.inc[i] EXCEPT !.status = Status(signals, i)]

\* applySignal: without a slot the alert is skipped, and the others go on.
ApplySignal(db, n, a) ==
    LET i == Target(db, a)
        signals == [db.sig EXCEPT ![a.signal] = [incident |-> i, status |-> a.status]]
    IN IF NoSlot(db, i) THEN [db EXCEPT !.full = TRUE]
       ELSE [db EXCEPT
               !.sig = signals,
               !.kept = @ \cup {n},
               !.inc = IF Refreshes(db, a, i)
                       THEN [@ EXCEPT ![i] = Refreshed(db, signals, i, a)]
                       ELSE @,
               !.recent = IF Refreshes(db, a, i) THEN Bump(@, i) ELSE @]

\* ApplySignals: all alerts of a delivery in one transaction, even if it is a
\* repetition of one in which some were applied.
Stored(e) == [sig |-> sig, inc |-> inc, recent |-> recent, kept |-> event[e].kept, full |-> FALSE]
Applied(e) ==
    LET db[n \in 0..Len(Alerts[e])] ==
          IF n = 0 THEN Stored(e) ELSE ApplySignal(db[n - 1], n, Alerts[e][n])
    IN db[Len(Alerts[e])]

GoOn ==
    /\ worker.phase = "apply"
    /\ worker' = [worker EXCEPT !.phase = "settle"]

Apply ==
    LET e == worker.event
        db == Applied(e)
    IN /\ GoOn
       /\ IF event[e].applied
          THEN UNCHANGED <<sig, inc, recent, event>>
          ELSE /\ sig' = db.sig /\ inc' = db.inc /\ recent' = db.recent
               /\ event' = [event EXCEPT ![e].applied = ~db.full, ![e].kept = db.kept]
       /\ UNCHANGED <<plan, arrived, provision, poll, closer, spent>>

\* Mutated: the limit on open incidents is forgotten.
VerdictAnyway(e) == "done"

\* The delivery is finished; without a slot it is retried, a limited number of
\* times; an investigation that could not be queued is retried without limit.
Put(e, state) == [event EXCEPT ![e].state = state, ![e].due = FALSE]
Verdict(e) == IF event[e].applied THEN "done"
              ELSE IF event[e].attempts >= MaxAttempts THEN "failed" ELSE "retry"

Settle ==
    LET e == worker.event IN
    /\ worker.phase = "settle"
    /\ \/ event' = Put(e, Verdict(e)) /\ UNCHANGED spent
       \/ /\ spent.troubles < plan.troubles
          /\ Spend("troubles")
          /\ event' = Put(e, "retry")
    /\ worker' = Rest
    /\ UNCHANGED <<plan, arrived, sig, inc, recent, provision, poll, closer>>

Elapse(e) ==
    /\ event[e].state = "retry" /\ ~event[e].due
    /\ event' = [event EXCEPT ![e].due = TRUE]
    /\ UNCHANGED <<plan, arrived, sig, inc, recent, provision, worker, poll, closer, spent>>
-----------------------------------------------------------------------------
\* processChannelIncident: Slack makes the room, or adopts one made before, and
\* SetChannel binds it.  Neither looks at whether the incident was closed.
StartRoom(i) ==
    /\ job[i] = "idle"
    /\ inc[i].workflow = "provisioning_channel" /\ inc[i].room = "none"
    /\ job' = [job EXCEPT ![i] = "making"]
    /\ UNCHANGED <<webhook, sig, inc, recent, coop, poll, closer, spent>>

EndRoom(i) ==
    /\ job[i] = "making"
    /\ job' = [job EXCEPT ![i] = "idle"]
    /\ \/ /\ Write(i, [inc[i] EXCEPT !.room = "bound", !.writable = TRUE,
                                      !.workflow = "provisioning_channel"])
          /\ UNCHANGED spent
       \/ /\ spent.troubles < plan.troubles
          /\ Spend("troubles")
          /\ \E w \in {"provisioning_channel", "blocked"} : Write(i, InWorkflow(i, w))
    /\ UNCHANGED <<webhook, sig, coop, poll, closer>>

\* The outbox posts the card, and recordSlackDelivery binds it as the room's root.
PostRoot(i) ==
    /\ inc[i].room = "bound" /\ inc[i].writable
    /\ Write(i, [inc[i] EXCEPT !.room = "rooted",
                               !.workflow = IF inc[i].session THEN @ ELSE "provisioning_session"])
    /\ UNCHANGED <<webhook, sig, provision, poll, closer, spent>>

\* Mutated: incidents on hold are not seeded again.
WaitingNew(i) ==
    /\ inc[i].room = "rooted" /\ inc[i].writable /\ ~inc[i].session
    /\ inc[i].workflow = "provisioning_session"

\* ListSessionWork.
Waiting(i) ==
    /\ inc[i].room = "rooted" /\ inc[i].writable /\ ~inc[i].session
    /\ inc[i].workflow \in {"provisioning_session", "holding"}

StartSession(i) ==
    /\ job[i] = "idle" /\ Waiting(i)
    /\ job' = [job EXCEPT ![i] = "checking"]
    /\ UNCHANGED <<webhook, sig, inc, recent, coop, poll, closer, spent>>

\* processSessionIncident: the room is prepared and the open sessions counted.
Full == Cardinality(Counted) >= MaxActive

Check(i) ==
    /\ job[i] = "checking"
    /\ \/ /\ ~Full
          /\ job' = [job EXCEPT ![i] = "creating"]
          /\ UNCHANGED <<inc, recent, spent>>
       \/ /\ IF Full THEN UNCHANGED spent
             ELSE spent.troubles < plan.troubles /\ Spend("troubles")
          /\ Write(i, InWorkflow(i, "holding"))
          /\ job' = [job EXCEPT ![i] = "idle"]
    /\ UNCHANGED <<webhook, sig, coop, poll, closer>>

\* Coop makes one session for the incident's key, whoever asks how often.  Its
\* answer may be lost, or a refusal that holds the incident or blocks it.
CreateSession(i) ==
    /\ job[i] = "creating"
    /\ \/ /\ coop' = [coop EXCEPT ![i] = "open"]
          /\ job' = [job EXCEPT ![i] = "binding"]
          /\ UNCHANGED <<inc, recent, spent>>
       \/ /\ spent.troubles < plan.troubles
          /\ Spend("troubles")
          /\ \/ coop' = [coop EXCEPT ![i] = "open"] /\ Write(i, InWorkflow(i, "holding"))
             \/ /\ UNCHANGED coop
                /\ \E w \in {"holding", "blocked"} : Write(i, InWorkflow(i, w))
          /\ job' = [job EXCEPT ![i] = "idle"]
    /\ UNCHANGED <<webhook, sig, poll, closer>>

\* SetCoopSession.
BindSession(i) ==
    /\ job[i] = "binding"
    /\ Write(i, [inc[i] EXCEPT !.session = TRUE, !.workflow = "investigating"])
    /\ job' = [job EXCEPT ![i] = "idle"]
    /\ UNCHANGED <<webhook, sig, coop, poll, closer, spent>>
-----------------------------------------------------------------------------
\* Coop ends a session by itself.
EndSession(i) ==
    /\ coop[i] = "open" /\ spent.closes < MaxCloses
    /\ coop' = [coop EXCEPT ![i] = "ended"]
    /\ Spend("closes")
    /\ UNCHANGED <<webhook, sig, inc, recent, job, poll, closer>>

\* CloseIncident, of an incident that is not closed.
Closed(i) == [inc[i] EXCEPT !.status = "closed", !.workflow = "closed"]

\* pollCoop reads bound incidents and their sessions, and writes what it saw.
ReadSession(i) ==
    /\ poll.incident = 0 /\ inc[i].session /\ Open(i)
    /\ poll' = [incident |-> i, writable |-> inc[i].writable, ended |-> coop[i] = "ended"]
    /\ UNCHANGED <<webhook, sig, inc, recent, provision, closer, spent>>

WriteState ==
    LET i == poll.incident IN
    /\ i # 0
    /\ IF poll.ended /\ poll.writable
       THEN IF Open(i) THEN Write(i, Closed(i)) ELSE UNCHANGED <<inc, recent>>
       ELSE Write(i, InWorkflow(i, IF poll.writable THEN "parked" ELSE "blocked"))
    /\ poll' = NoPoll
    /\ UNCHANGED <<webhook, sig, provision, closer, spent>>

\* An operator orders the close of an incident; closeIncident has read it.
OrderClose(i) ==
    /\ closer.phase = "idle" /\ Open(i) /\ inc[i].room # "none" /\ spent.closes < MaxCloses
    /\ closer' = [phase |-> "ordered", incident |-> i, session |-> inc[i].session,
                  previous |-> "none"]
    /\ Spend("closes")
    /\ UNCHANGED <<webhook, sig, inc, recent, provision, poll>>

\* BeginClose.
BeginClose ==
    LET i == closer.incident IN
    /\ closer.phase = "ordered"
    /\ IF Open(i) /\ inc[i].workflow # "closing"
       THEN /\ Write(i, InWorkflow(i, "closing"))
            /\ closer' = [closer EXCEPT !.phase = "closing", !.previous = inc[i].workflow]
       ELSE closer' = NoOrder /\ UNCHANGED <<inc, recent>>
    /\ UNCHANGED <<webhook, sig, provision, poll, spent>>

\* Coop closes the session that was read, then CloseIncident; or Coop fails,
\* having closed it or not, and RestoreClose puts the workflow back.
RestoreClose(i) ==
    IF Open(i) /\ inc[i].workflow = "closing"
    THEN Write(i, InWorkflow(i, closer.previous)) ELSE UNCHANGED <<inc, recent>>

EndClose ==
    LET i == closer.incident
        closed == [coop EXCEPT ![i] = IF closer.session THEN "ended" ELSE @]
    IN /\ closer.phase = "closing"
       /\ \/ /\ coop' = closed
             /\ IF Open(i) THEN Write(i, Closed(i)) ELSE UNCHANGED <<inc, recent>>
             /\ UNCHANGED spent
          \/ /\ closer.session /\ spent.troubles < plan.troubles
             /\ coop' \in {coop, closed}
             /\ RestoreClose(i)
             /\ Spend("troubles")
       /\ closer' = NoOrder
       /\ UNCHANGED <<webhook, sig, job, poll>>

\* SetIncidentChannelState: the room is archived, or comes back.
Move(i) ==
    LET back == IF inc[i].session THEN "parked"
                ELSE IF inc[i].room = "rooted" THEN "provisioning_session"
                ELSE "provisioning_channel"
    IN /\ inc[i].room # "none" /\ spent.troubles < plan.troubles
       /\ Write(i, [inc[i] EXCEPT !.writable = ~@,
                                  !.workflow = IF ~Open(i) THEN @
                                               ELSE IF inc[i].writable THEN "blocked" ELSE back])
       /\ Spend("troubles")
       /\ UNCHANGED <<webhook, sig, provision, poll, closer>>

\* ResolveDueIncidents: a monitored incident whose time has come.
ResolveDue(i) ==
    /\ inc[i].status = "monitoring"
    /\ Write(i, [inc[i] EXCEPT !.status = "resolved"])
    /\ UNCHANGED <<webhook, sig, provision, poll, closer, spent>>

\* The correlation window passes over the incident that was updated first.
Age ==
    /\ recent # <<>>
    /\ recent' = Tail(recent)
    /\ UNCHANGED <<webhook, sig, inc, provision, poll, closer, spent>>

\* RecoverInterrupted, after the process stopped anywhere.  There is one closer,
\* so that at most one incident was being closed.
Restart ==
    LET closing == {i \in Incident : Open(i) /\ inc[i].workflow = "closing"} IN
    /\ spent.troubles < plan.troubles
    /\ Spend("troubles")
    /\ event' = [e \in Events |-> IF event[e].state = "processing"
                                  THEN [event[e] EXCEPT !.state = "retry", !.due = TRUE]
                                  ELSE event[e]]
    /\ inc' = [i \in Incident |-> IF i \in closing THEN [inc[i] EXCEPT !.workflow = "parked"]
                                  ELSE inc[i]]
    /\ IF closing = {} THEN UNCHANGED recent ELSE \E i \in closing : recent' = Bump(recent, i)
    /\ job' = [i \in Incident |-> "idle"]
    /\ worker' = Rest /\ poll' = NoPoll /\ closer' = NoOrder
    /\ UNCHANGED <<plan, arrived, sig, coop>>
-----------------------------------------------------------------------------
Provision(i) ==
    \/ StartRoom(i) \/ EndRoom(i) \/ PostRoot(i)
    \/ StartSession(i) \/ Check(i) \/ CreateSession(i) \/ BindSession(i)

Next ==
    \/ Lease \/ Apply \/ Settle \/ WriteState \/ BeginClose \/ EndClose \/ Age \/ Restart
    \/ \E e \in Events : Deliver(e) \/ Elapse(e)
    \/ \E i \in Incident :
          Provision(i) \/ EndSession(i) \/ ReadSession(i) \/ OrderClose(i) \/ Move(i)
            \/ ResolveDue(i)

Spec == Init /\ [][Next]_vars

\* The drain polls, retries fall due, jobs of waiting incidents are seeded
\* again and their calls return, and the outbox posts cards.  Apply is the only
\* step that lets the worker GoOn.
FairSpec ==
    /\ Spec
    /\ WF_worker(Lease \/ GoOn \/ Settle)
    /\ WF_vars(\E e \in Events : Elapse(e))
    /\ \A i \in Incident : WF_vars(Provision(i))
-----------------------------------------------------------------------------
\* A delivery is done only when each of its alerts was recorded, though the
\* limit on open incidents may be met between two of them, the delivery be
\* repeated, and the process stop in between.
AlertsKept ==
    \A e \in Events : event[e].state = "done" => event[e].kept = 1..Len(Alerts[e])

\* An open incident is active exactly while one of its signals fires, over
\* repeated, late and regrouped deliveries and the resolution timer.
StatusTruthful ==
    \A i \in Incident : Open(i) =>
        (inc[i].status = "active") = (Status(sig, i) = "active")

\* "max_open_incidents separately bounds all incidents that are not closed."
OpenLimited == Cardinality({i \in Incident : Open(i)}) <= plan.open

IncidentsSound == StatusTruthful /\ OpenLimited

\* Every delivery is finished or given up, and every open incident gets its
\* room and, as soon as a slot is free, its session, unless it was blocked,
\* archived or its close was interrupted.
Provisioned(i) ==
    Open(i) /\ (inc[i].room # "none" => inc[i].writable) =>
        /\ inc[i].workflow # "provisioning_channel"
        /\ inc[i].workflow \in {"provisioning_session", "holding"} => Full

Settles ==
    []<>(/\ \A e \in Events : event[e].state \in {"absent", "done", "failed"}
         /\ \A i \in Incident : Provisioned(i))
=============================================================================
