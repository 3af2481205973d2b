----------------------------- MODULE SlackOutbox ------------------------------
(***************************************************************************)
(* The Slack outbox: the slack_deliveries ledger of internal/store/        *)
(* delivery.go and deliveryretrystore, and the two scheduler drains of     *)
(* internal/service/workers.go that empty it.  slack_delivery -- the       *)
(* sender -- leases one row, calls Slack and records the answer;           *)
(* slack_reconcile -- the finder -- looks in Slack's history for a write   *)
(* whose answer was lost.  The scheduler runs each drain on at most one    *)
(* worker at a time, and the two side by side.                             *)
(*                                                                         *)
(* A store call is one SQLite transaction and one action; the Slack call   *)
(* is an action of its own, outside any transaction.  What Slack holds is  *)
(* the variable slack: how many messages each post or file produced, and   *)
(* which delivery each card, status line or reaction shows.                *)
(*                                                                         *)
(* Preparation notices and their retirement are PreparationNotices; the    *)
(* episode destination fence is not modelled here.                         *)
(***************************************************************************)
EXTENDS Integers, FiniteSets

CONSTANTS
    Deliveries,   \* every delivery id callers may enqueue
    Drafts,       \* what callers may fill in for them, in one behaviour or another
    Sources,      \* the Slack inputs answers come from
    Replays,      \* those of them that are replays and may be cancelled
    None,         \* an empty column
    MaxAttempts,  \* limits.max_delivery_attempts
    Revivable,    \* operations an operator may retry by hand once they failed
    RecordFails,  \* operations whose answers a drain may fail to record
    MaxCrashes    \* bound on restarts

Operations == {"status", "delete", "reaction", "update", "post", "file"}

ASSUME ConfigAssumption ==
    /\ Drafts \subseteq [Deliveries ->
         [op : Operations \ {"delete"},
          channel : STRING,
          key : STRING \cup {None},        \* coalesce_key
          version : Nat,                   \* card_version
          clear : BOOLEAN,                 \* a status with no text
          sequence : STRING \cup {None},   \* sequence_key
          index : Nat,                     \* sequence_index
          source : Sources \cup {None},    \* source_input_id
          thread : STRING \cup {None},     \* of an alert's response root
          incident : BOOLEAN,              \* in an incident's conversation
          legible : BOOLEAN,               \* its body can be decoded
          notice : Deliveries \cup {None}]]  \* a file's upload failure notice
    /\ \A row \in Drafts, d \in Deliveries : row[d].op = "file" =>
         /\ row[d].notice # None
         /\ LET n == row[row[d].notice]
            IN /\ n.op = "post" /\ n.version = 0 /\ n.legible
               /\ n.sequence = row[d].sequence /\ n.index = row[d].index
    /\ IsFiniteSet(Deliveries)
    /\ Replays \subseteq Sources
    /\ None \notin Sources \cup Deliveries
    /\ MaxAttempts \in Nat
    /\ Revivable \cup RecordFails \subseteq Operations
    /\ MaxCrashes \in Nat

(* The text of an answer before its last part or its charts is not its      *)
(* response root, carries no key, and is bound to the input of what follows *)
(* it or to none: a chart is bound to the turn's input, the parts that the  *)
(* incident's turn enqueues are not.                                        *)
ASSUME PartsAssumption ==
    \A row \in Drafts, d, e \in Deliveries :
        /\ row[d].sequence = row[e].sequence /\ row[d].sequence # None
        /\ row[d].index < row[e].index
        /\ row[d].op = "post" /\ d \notin {row[f].notice : f \in Deliveries}
        => row[d].key = None /\ row[d].thread = None /\ row[d].source \in {None, row[e].source}

(* Incident cards and reactions have keys of their own; cards are numbered  *)
(* and reactions are not.                                                   *)
ASSUME KeysAssumption ==
    \A row \in Drafts, d, e \in Deliveries :
        LET ordered(x) == x.op = "reaction" \/ (x.op = "update" /\ x.version > 0)
        IN /\ row[d].op = "reaction" => row[d].version = 0
           /\ row[d].key = row[e].key /\ row[d].key # None /\ ordered(row[d])
                => ordered(row[e]) /\ row[e].op = row[d].op

VARIABLES
    draft,      \* what the caller fills in for each delivery
    ledger,     \* Deliveries -> the slack_deliveries row
    sender,     \* the slack_delivery drain
    finder,     \* the slack_reconcile drain
    overtaken,  \* inputs a newer authorized human turn has overtaken
    slack,      \* what Slack holds
    cancelled,  \* deliveries of cancelled replays (history only)
    blind,      \* charts in Slack that were given up or put back by a write
                \* that had not looked for them there (history only)
    hushed,     \* charts last given up by a write that announces nothing, or
                \* whose announcement was lost (history only)
    crashes     \* restarts so far

history == <<cancelled, blind, hushed>>
vars == <<draft, ledger, sender, finder, overtaken, slack, cancelled, blind, hushed, crashes>>
-----------------------------------------------------------------------------
(* "replaced" is the superseded state whose last_error says that an upload  *)
(* failure notice took the file's place.                                    *)
State == {"absent", "pending", "sending", "retry", "uncertain", "sent",
          "failed", "superseded", "replaced"}

(* A row is barred while its last_error is a refusal that no retry changes  *)
(* (a missing scope, a revoked token), which a search for its file met.     *)
Row == [state : State, failures : 0..MaxAttempts, due : BOOLEAN, barred : BOOLEAN,
        rowid : 0..Cardinality(Deliveries)]

Fresh(rowid) == [state |-> "pending", failures |-> 0, due |-> TRUE, barred |-> FALSE,
                 rowid |-> rowid]

Absent == [state |-> "absent", failures |-> 0, due |-> FALSE, barred |-> FALSE, rowid |-> 0]

Idle == [phase |-> "idle"]

(* A file that failed for good is announced by a second store call.         *)
Sending == [phase : {"leased", "calling", "notify"}, item : Deliveries]
             \cup [phase : {"answered"}, item : Deliveries,
                   answer : {"ok", "error", "refused"}]

(* What the finder concludes: Slack shows the write or not, the search      *)
(* failed, met a refusal, or was not made at all -- the conversation is     *)
(* unwritable, the file is illegible, the refusal was met before.           *)
Outcomes == {"found", "absent", "unknown", "barred", "unwritable", "illegible", "forgone"}

Finding == [phase : Outcomes \cup {"notify"}, item : Deliveries]

Keys == {draft[d].key : d \in Deliveries} \ {None}

In(rows, d, states) == rows[d].state \in states
Queued(rows, d) == In(rows, d, {"pending", "retry"})
SearchedFor(d) == draft[d].op \in {"post", "file"}
SameKey(d, e) == draft[d].key = draft[e].key /\ draft[d].key # None

Before(d, e) ==
    /\ draft[d].sequence = draft[e].sequence /\ draft[d].sequence # None
    /\ draft[d].index < draft[e].index

Later(rows, d, e) == rows[e].rowid > rows[d].rowid

(* Mutated: a reaction does not look for newer ones. *)
NoNewerIntent(rows, d) == FALSE

NewerIntent(rows, d) ==
    draft[d].op = "reaction" /\
    \E e \in Deliveries : SameKey(d, e) /\ draft[e].op = "reaction" /\ Later(rows, d, e)

Failures(n) == IF n < MaxAttempts THEN n + 1 ELSE n   \* only compared with the limit
Exhausted(n) == n >= MaxAttempts

(* A row changes its state, is tried again, falls due or starts over.       *)
To(r, state) == [r EXCEPT !.state = state]
Again(r, state, due) ==
    [r EXCEPT !.state = state, !.failures = Failures(@), !.due = due, !.barred = FALSE]
DueAs(r, state) == [r EXCEPT !.state = state, !.due = TRUE]
Afresh(r, state) == [r EXCEPT !.state = state, !.failures = 0, !.due = TRUE]
-----------------------------------------------------------------------------
(* EnqueueSlackDelivery.  INSERT OR IGNORE by id; a card or status that is   *)
(* not newer than one already known is dropped; otherwise the queued rows of *)
(* its key are superseded, except that a clear lets a queued status go out   *)
(* first.                                                                    *)
Dropped(rows, d) ==
    draft[d].version > 0 /\
    \E e \in Deliveries :
        /\ SameKey(d, e) /\ draft[e].version >= draft[d].version
        /\ In(rows, e, {"pending", "sending", "retry", "uncertain", "sent"})

Coalesced(rows, d, e) ==
    /\ e # d /\ SameKey(d, e) /\ Queued(rows, e)
    /\ draft[d].version = 0 \/ draft[e].version <= draft[d].version
    /\ ~(/\ draft[d].op = "status" /\ draft[d].clear
         /\ draft[e].op = "status" /\ ~draft[e].clear)

(* Mutated: an id that is enqueued again starts over. *)
InsertedAgain(rows, d) ==
    IF Dropped(rows, d) THEN rows
    ELSE [rows EXCEPT ![d] =
            Fresh(1 + Cardinality({f \in Deliveries : rows[f].state # "absent"}))]

Inserted(rows, d) ==
    IF In(rows, d, State \ {"absent"}) \/ Dropped(rows, d) THEN rows
    ELSE [e \in Deliveries |->
            CASE e = d -> Fresh(1 + Cardinality({f \in Deliveries : rows[f].state # "absent"}))
              [] Coalesced(rows, d, e) -> To(rows[e], "superseded")
              [] OTHER -> rows[e]]

FailureNotices == {draft[d].notice : d \in Deliveries} \ {None}

(* The parts of an answer are enqueued in order, its charts too.  Incident   *)
(* cards are enqueued by the sender's own drain, before it leases.          *)
Enqueue(d) ==
    /\ d \notin FailureNotices
    /\ \A e \in Deliveries \ FailureNotices : Before(e, d) => ledger[e].state # "absent"
    /\ draft[d].op = "update" /\ draft[d].version > 0 => sender = Idle
    /\ ledger' = Inserted(ledger, d)
    /\ UNCHANGED <<sender, finder, overtaken, slack, history, crashes, draft>>

(* A configured or active person writes again in the input's conversation.  *)
Overtake(s) ==
    /\ overtaken' = overtaken \cup {s}
    /\ UNCHANGED <<ledger, sender, finder, slack, history, crashes, draft>>
-----------------------------------------------------------------------------
(* LeaseSlackDelivery: withdraw what a human turn or a newer reaction has   *)
(* made obsolete, then take the first row that may go out.                  *)
Fenced(rows) ==
    [d \in Deliveries |->
        IF Queued(rows, d) /\ (draft[d].source \in overtaken \/ NewerIntent(rows, d))
        THEN To(rows[d], "superseded") ELSE rows[d]]

(* Mutated: a part waits only for parts that are still queued. *)
LeasableAroundUncertain(rows, cooling) ==
    {d \in Deliveries :
        /\ Queued(rows, d) /\ rows[d].due
        /\ draft[d].op = "reaction" \/ draft[d].channel \notin cooling
        /\ \A e \in Deliveries : Before(e, d) => ~Queued(rows, e)}

Leasable(rows, cooling) ==
    {d \in Deliveries :
        /\ Queued(rows, d) /\ rows[d].due
        /\ draft[d].op = "reaction" \/ draft[d].channel \notin cooling
        /\ draft[d].op = "reaction" =>
             \A e \in Deliveries \ {d} : SameKey(d, e) => rows[e].state # "sending"
        /\ \A e \in Deliveries :
             Before(e, d) => In(rows, e, {"absent", "sent", "superseded", "replaced"})}

Urgency(op) == CASE op = "status" -> 0 [] op = "delete" -> 1 [] op = "reaction" -> 2
                 [] op = "update" -> 3 [] OTHER -> 4

First(rows, S) ==
    {d \in S : \A e \in S \ {d} :
        LET u == Urgency(draft[d].op)
            v == Urgency(draft[e].op)
        IN u < v \/ (u = v /\ Later(rows, d, e))}

Lease(cooling) ==
    /\ sender = Idle
    /\ LET rows == Fenced(ledger)
           next == First(rows, Leasable(rows, cooling))
       IN \/ /\ next = {}
             /\ ledger' = rows
             /\ UNCHANGED sender
          \/ \E d \in next :
               /\ ledger' = [rows EXCEPT ![d] = To(rows[d], "sending")]
               /\ sender' = [phase |-> "leased", item |-> d]
    /\ UNCHANGED <<finder, overtaken, slack, history, crashes, draft>>
-----------------------------------------------------------------------------
(* Mutated: a write that may have been carried out is retried like any other. *)
RetriedPlainly(rows, d, uncertain, terminal, due) ==
    IF rows[d].state # "sending" THEN rows
    ELSE [rows EXCEPT ![d] =
            Again(rows[d], IF NewerIntent(rows, d) THEN "superseded"
                           ELSE IF terminal THEN "failed" ELSE "retry", due)]

(* RetrySlackDelivery, for a row that is still sending.                     *)
Retried(rows, d, uncertain, terminal, due) ==
    IF rows[d].state # "sending" THEN rows
    ELSE [rows EXCEPT ![d] =
            Again(rows[d], IF NewerIntent(rows, d) THEN "superseded"
                           ELSE IF uncertain THEN "uncertain"
                           ELSE IF terminal THEN "failed" ELSE "retry", due)]

(* FinishSlackDelivery, from the state the caller saw.  The upload failure  *)
(* notice takes the place of the files of its sequence that failed.         *)
Finished(rows, d, from) ==
    IF rows[d].state # from THEN rows
    ELSE [e \in Deliveries |->
            IF e = d THEN To(rows[d], "sent")
            ELSE IF /\ d \in FailureNotices /\ draft[e].op = "file"
                    /\ draft[e].sequence = draft[d].sequence /\ draft[d].sequence # None
                    /\ rows[e].state = "failed"
            THEN To(rows[e], "replaced") ELSE rows[e]]

(* HasNewerSentReplyInThread. *)
NewerAnswerSent(d) ==
    draft[d].thread # None /\
    \E e \in Deliveries :
        /\ draft[e].thread = draft[d].thread
        /\ draft[e].source # draft[d].source
        /\ ledger[e].state = "sent" /\ Later(ledger, d, e)

(* What processSlackDelivery decides before it calls Slack: to withdraw an  *)
(* alert's answer, to come back to it when the store would not say, to give *)
(* up a row whose incident has lost its conversation or a message it cannot *)
(* decode, or to go on.  Neither way of giving up announces a chart.        *)
Verdicts == {"newer", "unread", "unwritable", "illegible", "call"}

Decodes(d) == draft[d].legible \/ draft[d].op \notin {"post", "update"}

Hush(d, from) == hushed' = hushed \cup {e \in {d} : draft[e].op = "file" /\ ledger[e].state = from}

Check(verdict) ==
    /\ sender.phase = "leased"
    /\ LET d == sender.item
       IN \/ /\ verdict = "newer" /\ NewerAnswerSent(d)
             /\ ledger' = IF ledger[d].state = "sending"
                          THEN [ledger EXCEPT ![d] = To(ledger[d], "superseded")] ELSE ledger
             /\ sender' = Idle
             /\ UNCHANGED hushed
          \/ /\ verdict = "unread" /\ draft[d].thread # None /\ draft[d].op \in RecordFails
             /\ ledger' = Retried(ledger, d, FALSE, FALSE, TRUE)
             /\ sender' = Idle
             /\ UNCHANGED hushed
          \/ /\ \/ verdict = "unwritable" /\ draft[d].incident
                \/ verdict = "illegible" /\ ~Decodes(d)
             /\ ~NewerAnswerSent(d)
             /\ ledger' = Retried(ledger, d, FALSE, TRUE, TRUE)
             /\ sender' = Idle
             /\ Hush(d, "sending")
          \/ /\ verdict = "call" /\ Decodes(d) /\ ~NewerAnswerSent(d)
             /\ sender' = [sender EXCEPT !.phase = "calling"]
             /\ UNCHANGED <<ledger, hushed>>
    /\ UNCHANGED <<finder, overtaken, slack, cancelled, blind, crashes, draft>>

(* The Slack call.  A request that fails may or may not have been carried   *)
(* out, and so may an upload that is refused: UploadFile asks for the file  *)
(* it has just shared, and that second request may be refused.  An          *)
(* illegible file is not uploaded at all.                                   *)
Call(accepted, answer) ==
    /\ sender.phase = "calling"
    /\ LET d == sender.item
       IN /\ answer = "ok" => accepted
          /\ answer = "refused" => draft[d].op = "file"
          /\ draft[d].op = "file" /\ ~draft[d].legible => ~accepted /\ answer = "error"
          /\ sender' = [phase |-> "answered", item |-> d, answer |-> answer]
          /\ slack' = IF ~accepted THEN slack
                      ELSE IF SearchedFor(d)
                           THEN [slack EXCEPT !.copies[d] = IF @ < 2 THEN @ + 1 ELSE @]
                           ELSE [slack EXCEPT !.shows[draft[d].key] = d]
    /\ UNCHANGED <<ledger, finder, overtaken, history, crashes, draft>>

(* Mutated: only a chart that ran out of attempts is announced. *)
GivenUpAfterAttempts(d, terminal, state) ==
    Exhausted(ledger[d].failures) /\ draft[d].op = "file" /\ ledger[d].state = state

(* A legible chart whose last store call went through is announced.         *)
GivenUp(d, terminal, state) ==
    terminal /\ draft[d].op = "file" /\ draft[d].legible /\ ledger[d].state = state

(* A chart that Slack holds is given up or put back without a look.         *)
Unlooked(S) == blind' = blind \cup {d \in S : draft[d].op = "file" /\ slack.copies[d] > 0}

(* The answer is recorded.  When confirming an accepted write fails, the    *)
(* row is put back as one that may have been carried out; when even that    *)
(* fails it stays "sending" until the process restarts.                     *)
Record(stored) ==
    /\ sender.phase = "answered"
    /\ LET d == sender.item
           refused == sender.answer = "refused"
           terminal == refused \/ Exhausted(ledger[d].failures)
           uncertain == SearchedFor(d) /\ ~refused
       IN /\ \/ /\ stored = "done" /\ sender.answer = "ok"
                /\ ledger' = Finished(ledger, d, "sending")
                /\ sender' = Idle
             \/ /\ stored = "unconfirmed" /\ sender.answer = "ok"
                /\ ledger' = Retried(ledger, d, SearchedFor(d), FALSE, FALSE)
                /\ sender' = Idle
             \/ /\ stored = "done" /\ sender.answer # "ok"
                /\ ledger' = Retried(ledger, d, uncertain, terminal, FALSE)
                /\ sender' = IF GivenUp(d, terminal, "sending")
                             THEN [phase |-> "notify", item |-> d] ELSE Idle
             \/ /\ stored = "lost" /\ draft[d].op \in RecordFails
                /\ sender' = Idle
                /\ UNCHANGED ledger
          /\ Unlooked(IF refused /\ stored = "done" THEN {d} ELSE {})
    /\ UNCHANGED <<finder, overtaken, slack, cancelled, hushed, crashes, draft>>

(* enqueueGeneratedVisualFailure, by either drain.  The notice has an id of  *)
(* its chart's, so a chart that is given up again is not announced again;   *)
(* and nothing comes back to a notice that could not be stored.             *)
Announced(d, stored) ==
    \/ /\ stored
       /\ ledger' = Inserted(ledger, draft[d].notice)
       /\ UNCHANGED hushed
    \/ /\ ~stored
       /\ Hush(d, "failed")
       /\ UNCHANGED ledger

Announce(stored) ==
    /\ \/ /\ sender.phase = "notify"
          /\ Announced(sender.item, stored)
          /\ sender' = Idle
          /\ UNCHANGED finder
       \/ /\ finder.phase = "notify"
          /\ Announced(finder.item, stored)
          /\ finder' = Idle
          /\ UNCHANGED sender
    /\ UNCHANGED <<overtaken, slack, cancelled, blind, crashes, draft>>
-----------------------------------------------------------------------------
(* reconcileSlackDelivery.  The oldest uncertain post or file that is due   *)
(* is looked up in Slack's history, by delivery id or by file name.  The    *)
(* search may fail, or give up after five pages.  A file is not looked for  *)
(* once a search has met a refusal that no retry changes.                   *)
Uncertain(rows) ==
    {d \in Deliveries : SearchedFor(d) /\ rows[d].state = "uncertain" /\ rows[d].due}

Oldest(S) == {d \in S : \A e \in S \ {d} : Later(ledger, d, e)}

Searchable(d) == draft[d].op = "file" => draft[d].legible /\ ~ledger[d].barred

(* Mutated: a search that ends early says that the write is not there. *)
ConcludesEarly(d, outcome) ==
    CASE outcome = "found" -> Searchable(d) /\ slack.copies[d] > 0
      [] outcome = "absent" -> Searchable(d)
      [] OTHER -> FALSE

Concludes(d, outcome) ==
    CASE outcome = "found" -> Searchable(d) /\ slack.copies[d] > 0
      [] outcome = "absent" -> Searchable(d) /\ slack.copies[d] = 0
      [] outcome = "unknown" -> Searchable(d)
      [] outcome = "barred" -> Searchable(d) /\ draft[d].op = "file"
      [] outcome = "unwritable" -> draft[d].incident
      [] outcome = "illegible" -> draft[d].op = "file" /\ ~draft[d].legible
      [] outcome = "forgone" -> draft[d].op = "file" /\ draft[d].legible /\ ledger[d].barred

Search(outcome) ==
    /\ finder = Idle
    /\ \E d \in Oldest(Uncertain(ledger)) :
         Concludes(d, outcome) /\ finder' = [phase |-> outcome, item |-> d]
    /\ UNCHANGED <<ledger, sender, overtaken, slack, history, crashes, draft>>

(* FinishSlackDelivery or RetryUncertainSlackDelivery: nothing unless the   *)
(* row is still uncertain.                                                  *)
Settled(d, outcome, terminal) ==
    LET put(state, due) == [ledger EXCEPT ![d] = Again(ledger[d], state, due)]
    IN IF ledger[d].state # "uncertain" THEN ledger
       ELSE CASE outcome = "found" -> Finished(ledger, d, "uncertain")
              [] outcome \in {"unwritable", "illegible"} \/ terminal -> put("failed", TRUE)
              [] outcome = "absent" /\ ~terminal -> put("retry", FALSE)
              [] outcome = "unknown" -> put("uncertain", FALSE)
              [] outcome = "barred" ->
                   [ledger EXCEPT ![d] = [Again(@, "uncertain", FALSE) EXCEPT !.barred = TRUE]]

Settle(stored) ==
    /\ finder.phase \in Outcomes
    /\ LET d == finder.item
           unseen == ledger[d].state = "uncertain" /\ finder.phase \in {"unwritable", "forgone"}
           terminal == \/ finder.phase = "absent" /\ Exhausted(ledger[d].failures)
                       \/ finder.phase = "forgone"
       IN \/ /\ stored
             /\ ledger' = Settled(d, finder.phase, terminal)
             /\ finder' = IF GivenUp(d, terminal, "uncertain")
                          THEN [phase |-> "notify", item |-> d] ELSE Idle
             /\ Unlooked(IF unseen THEN {d} ELSE {})
             /\ IF finder.phase \in {"unwritable", "illegible"} THEN Hush(d, "uncertain")
                ELSE UNCHANGED hushed
          \/ /\ ~stored /\ draft[d].op \in RecordFails
             /\ finder' = Idle
             /\ UNCHANGED <<ledger, blind, hushed>>
    /\ UNCHANGED <<sender, overtaken, slack, cancelled, crashes, draft>>

(* next_attempt_at is reached. *)
Elapse(d) ==
    /\ ~ledger[d].due /\ In(ledger, d, {"retry", "uncertain"})
    /\ ledger' = [ledger EXCEPT ![d] = DueAs(ledger[d], ledger[d].state)]
    /\ UNCHANGED <<sender, finder, overtaken, slack, history, crashes, draft>>

(* CancelSlackReplay, as far as it touches the ledger.  It may come at any  *)
(* moment, and again.                                                       *)
CancelReplay(s) ==
    /\ s \in Replays
    /\ ledger' = [d \in Deliveries |->
          CASE draft[d].source = s /\ Queued(ledger, d) ->
                 To(ledger[d], "superseded")
            [] draft[d].source = s /\ ledger[d].state = "sending" ->
                 To(ledger[d], "uncertain")
            [] OTHER -> ledger[d]]
    /\ cancelled' = cancelled \cup {d \in Deliveries : draft[d].source = s
                                                      /\ ledger[d].state # "absent"}
    /\ UNCHANGED <<sender, finder, overtaken, slack, blind, hushed, crashes, draft>>

(* RetryLatestGeneratedVisual: someone asks for the chart again.  Of the    *)
(* latest bundle the first file that failed is sent again.                  *)
RetryVisual ==
    /\ LET visuals == {d \in Deliveries : draft[d].op = "file"}
           latest == {d \in visuals :
             /\ In(ledger, d, {"pending", "retry", "failed", "replaced"})
             /\ \A e \in visuals : In(ledger, e, {"pending", "retry", "failed", "replaced"})
                                      => ~Later(ledger, d, e)}
           failed(d) == {e \in visuals : /\ draft[e].sequence = draft[d].sequence
                                         /\ draft[d].sequence # None
                                         /\ In(ledger, e, {"failed", "replaced"})}
       IN \E d \in latest :
            \E e \in IF failed(d) = {} THEN {d} ELSE failed(d) :
              /\ \A f \in failed(d) : ~Before(f, e)
              /\ ledger' = [ledger EXCEPT ![e] = Afresh(ledger[e], "retry")]
              /\ hushed' = hushed \ {e}
    /\ UNCHANGED <<sender, finder, overtaken, slack, cancelled, blind, crashes, draft>>

(* Mutated: only interrupted posts are recovered. *)
RecoveredPosts(rows) ==
    [d \in Deliveries |->
        IF rows[d].state = "sending" /\ draft[d].op = "post"
        THEN DueAs(rows[d], "uncertain") ELSE rows[d]]

(* RecoverInterrupted: an interrupted post may have been carried out.       *)
Recovered(rows) ==
    [d \in Deliveries |->
        IF rows[d].state = "sending"
        THEN DueAs(rows[d], IF draft[d].op = "post" THEN "uncertain" ELSE "retry")
        ELSE rows[d]]

(* RetryFailedWork, which runs only while the service does not: a failed    *)
(* post is searched for before it is sent again.                            *)
Revived(rows, D) ==
    [d \in Deliveries |->
        IF d \in D
        THEN Afresh(rows[d], IF draft[d].op = "post" THEN "uncertain" ELSE "retry")
        ELSE rows[d]]

(* The charts whose notice a drain is about to enqueue: it is lost with the *)
(* process.                                                                 *)
Unannounced ==
    {d \in Deliveries : /\ [phase |-> "notify", item |-> d] \in {sender, finder}
                        /\ ledger[d].state = "failed"}

Restart ==
    /\ crashes < MaxCrashes
    /\ crashes' = crashes + 1
    /\ \E D \in SUBSET {d \in Deliveries : draft[d].op \in Revivable /\ ledger[d].state = "failed"} :
         /\ ledger' = Recovered(Revived(ledger, D))
         /\ hushed' = (hushed \cup Unannounced) \ D
    /\ Unlooked({d \in Deliveries : ledger[d].state = "sending"})
    /\ sender' = Idle
    /\ finder' = Idle
    /\ UNCHANGED <<overtaken, slack, cancelled, draft>>
-----------------------------------------------------------------------------
Init ==
    /\ draft \in Drafts
    /\ ledger = [d \in Deliveries |-> Absent]
    /\ sender = Idle
    /\ finder = Idle
    /\ overtaken = {}
    /\ slack = [copies |-> [d \in Deliveries |-> 0], shows |-> [k \in Keys |-> None]]
    /\ cancelled = {}
    /\ blind = {}
    /\ hushed = {}
    /\ crashes = 0

Channels == {draft[d].channel : d \in Deliveries}

Send ==
    \/ \E cooling \in SUBSET Channels : Lease(cooling)
    \/ \E verdict \in Verdicts : Check(verdict)
    \/ \E accepted \in BOOLEAN, answer \in {"ok", "error", "refused"} : Call(accepted, answer)
    \/ \E stored \in {"done", "unconfirmed", "lost"} : Record(stored)

Reconcile ==
    \/ \E outcome \in Outcomes : Search(outcome)
    \/ \E stored \in BOOLEAN : Settle(stored)

Next ==
    \/ \E d \in Deliveries : Enqueue(d) \/ Elapse(d)
    \/ \E s \in Sources : Overtake(s) \/ CancelReplay(s)
    \/ Send
    \/ Reconcile
    \/ \E stored \in BOOLEAN : Announce(stored)
    \/ RetryVisual
    \/ Restart

Spec == Init /\ [][Next]_vars
-----------------------------------------------------------------------------
TypeOK ==
    /\ ledger \in [Deliveries -> Row]
    /\ sender \in Sending \cup {Idle}
    /\ finder \in Finding \cup {Idle}
    /\ overtaken \subseteq Sources
    /\ slack \in [copies : [Deliveries -> 0..2], shows : [Keys -> Deliveries \cup {None}]]
    /\ cancelled \cup blind \cup hushed \subseteq Deliveries
    /\ crashes \in 0..MaxCrashes

Posts == {d \in Deliveries : draft[d].op = "post"}
Files == {d \in Deliveries : draft[d].op = "file"}

(* A post appears in Slack at most once, though requests time out after     *)
(* Slack accepted them, confirmations fail, and the process restarts in the *)
(* middle: it is sent again only when Slack's history has shown that it is  *)
(* not there.  So does a chart, through uncertain uploads, incomplete and   *)
(* refused searches and the retry a person asks for, unless Slack had it    *)
(* already when it was put back or given up by a write that did not look:   *)
(* the recovery of an interrupted upload, a refused upload, a refused       *)
(* search (reconcileSlackDelivery does not search again) and an unwritable  *)
(* conversation.  Those four are blind, and of no other write is a chart    *)
(* excused.  (Cancelling a replay hands its posts to the finder while the   *)
(* sender may still be calling.)                                            *)
PostedOnce ==
    /\ \A d \in Posts \ cancelled : slack.copies[d] <= 1
    /\ \A d \in Files \ (cancelled \cup blind) : slack.copies[d] <= 1

(* The ledger tells the truth about posts: a sent one is in Slack, and one  *)
(* that is queued, withdrawn or, outside an incident's conversation, failed *)
(* is not, so that nothing is withdrawn or retried after it was seen.       *)
Withheld(d) ==
    \/ Queued(ledger, d)
    \/ In(ledger, d, {"absent", "superseded"})
    \/ ledger[d].state = "failed" /\ ~draft[d].incident

LedgerTruthful ==
    \A d \in Posts \ cancelled :
        /\ ledger[d].state = "sent" => slack.copies[d] > 0
        /\ Withheld(d) => slack.copies[d] = 0

(* The parts of an answer appear in their order: by the time Slack accepts  *)
(* a part or a chart, it has accepted every part of the text before it,     *)
(* though parts are retried, searched for, interrupted and withdrawn.       *)
Accepted(d) == slack'.copies[d] > slack.copies[d]

PartsInOrder ==
    [][\A d \in Deliveries, e \in Posts \ (FailureNotices \cup cancelled) :
         Accepted(d) /\ Before(e, d) => slack.copies[e] > 0]_vars

(* The newest intent for a surface is what it ends up showing: once the     *)
(* newest incident card or reaction of a key is recorded as sent, Slack     *)
(* shows that one, and no older write that failed, was interrupted or came  *)
(* late takes its place.                                                    *)
Ordered(d) ==
    /\ draft[d].key # None
    /\ draft[d].op = "reaction" \/ (draft[d].op = "update" /\ draft[d].version > 0)

Newest(d) ==
    \A e \in Deliveries \ {d} : SameKey(d, e) /\ ledger[e].state # "absent" =>
        IF draft[d].version = 0 THEN Later(ledger, e, d)
        ELSE draft[e].version < draft[d].version

NewestShown ==
    \A d \in Deliveries :
        Ordered(d) /\ ledger[d].state = "sent" /\ Newest(d) => slack.shows[draft[d].key] = d

(* A chart that is given up for a refusal, or because its retries ran out,  *)
(* is announced: its upload failure notice is in the ledger or about to be, *)
(* through restarts too.  The writes that give a chart up in silence are    *)
(* named in hushed: the sender's and the finder's for an unwritable         *)
(* conversation, the finder's for an illegible file, and the notice that is *)
(* lost with the process or not stored; asking for the chart again ends it. *)
ChartFailureAnnounced ==
    \A d \in Files \ hushed : ledger[d].state = "failed" =>
        \/ ledger[draft[d].notice].state # "absent"
        \/ [phase |-> "notify", item |-> d] \in {sender, finder}
-----------------------------------------------------------------------------
(* The drains poll and their timers fire.  A search that is tried again and *)
(* again sometimes answers, an accepted write that is confirmed again and   *)
(* again is sometimes recorded, and a channel does not cool for ever.       *)
Fairness ==
    /\ \A d \in Deliveries : WF_vars(Elapse(d))
    /\ SF_vars(Lease({}))
    /\ WF_vars(\E verdict \in Verdicts : Check(verdict))
    /\ WF_vars(\E accepted \in BOOLEAN, answer \in {"ok", "error", "refused"} :
                  Call(accepted, answer))
    /\ WF_vars(\E stored \in {"done", "unconfirmed"} : Record(stored))
    /\ SF_vars(Record("done"))
    /\ SF_vars(\E outcome \in Outcomes \ {"unknown", "barred"} : Search(outcome))
    /\ WF_vars(Search("unknown") \/ Search("barred"))
    /\ WF_vars(\E stored \in BOOLEAN : Settle(stored))
    /\ WF_vars(\E stored \in BOOLEAN : Announce(stored))

FairSpec == Spec /\ Fairness

AtRest(d) == In(ledger, d, {"sent", "failed", "superseded", "replaced"})

Stuck(d) == \E e \in Deliveries : Before(e, d) /\ ledger[e].state = "failed"

(* Once people stop asking for charts again, every delivery is sent, given  *)
(* up or withdrawn in the end, unless a part before it was given up: retries *)
(* run out, uncertain posts are searched for, interrupted ones recovered,   *)
(* and cooling channels, more urgent rows and earlier parts only delay it.  *)
DeliveriesSettle ==
    <>[][~RetryVisual]_vars =>
        <>[](\A d \in Deliveries : ledger[d].state = "absent" \/ AtRest(d) \/ Stuck(d))
=============================================================================
