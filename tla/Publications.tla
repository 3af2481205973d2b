------------------------------ MODULE Publications ------------------------------
(***************************************************************************)
(* Draft pull requests of one engineering task: internal/service/publication.go, *)
(* store/publicationstore, publicationrecoverystore, publicationfollowupstore, *)
(* publisher/github.go, publication/follower.go and taskpublication.       *)
(*                                                                         *)
(* A press of the card's button, the console, or the handoff of a finished *)
(* turn starts an attempt: it claims the task's publication row, has Coop  *)
(* review the fork, pushes the reviewed commit over the recorded one, opens *)
(* the draft pull request if there is none, and records the receipt.  The  *)
(* follower watches the pull request on GitHub, a finished turn makes the  *)
(* receipt stale, and closing the task and publishing it exclude each other *)
(* as long as the task's row says so: a close marks it before it waits for *)
(* Coop, and the poller of Coop's sessions overwrites that mark.           *)
(*                                                                         *)
(* A press and a handoff are Slack inputs and are retried; the console's   *)
(* attempt has no row and dies with the process.  One drain carries out    *)
(* the inputs one at a time, beside the console and the follower.          *)
(***************************************************************************)
EXTENDS Naturals, FiniteSets

CONSTANTS
    Attempts,      \* the requests to publish, as numbers; turn n's handoff is number n
    Kinds,         \* who may ask: a press, the console, or a finished turn
    MaxAttempts,   \* limits.max_slack_input_attempts
    MaxTroubles,   \* bound on errors, restarts and pushes of other people, together
    Loses          \* GitHub's answers may be lost

ASSUME ConfigAssumption ==
    /\ Attempts \subseteq Nat \ {0} /\ IsFiniteSet(Attempts)
    /\ Kinds \subseteq [Attempts -> {"press", "console", "handoff"}]
    /\ {MaxAttempts, MaxTroubles} \subseteq Nat
    /\ Loses \in BOOLEAN

VARIABLES
    db,        \* the publication, its follow-up, the task, the turn that works on
               \* it and the worker that closes it
    input,     \* the requests: the Slack inputs of presses and handoffs
    job,       \* how far the worker of each attempt has come
    reviewed,  \* Coop: the fork as reviewed under each attempt's key, or 0
    follower,  \* how far the follower has come, and what it has read
    github,    \* the branch's head, the pull request, and how many were opened
    troubles   \* how many errors, restarts and pushes of other people there were

vars == <<db, input, job, reviewed, follower, github, troubles>>
-----------------------------------------------------------------------------
Working == {"reviewing", "reviewed", "publishing", "inspected", "pushed", "lost",
            "opened", "unopened"}
PublicationState ==
    {"none", "reviewing", "publishing", "retrying", "published", "failed", "stale"}

none == <<>>          \* no commit
Foreign == <<0, 0>>   \* a commit of somebody else
pub == db.pub
InProgress(p) == p.state \in {"reviewing", "publishing", "retrying"}
Ended(d) == d.followup = "ended"     \* merged or closed

\* The task is closed, or its row says that it is being closed.
Unavailable(d) == d.closed \/ d.workflow = "closing"
Has(a, kind) == input[a].kind = kind
Presses == {a \in Attempts : Has(a, "press")}
Queues(a) == ~Has(a, "console")

\* The publisher's commit: its dates are the task's, its message names the
\* review, so one attempt makes the same commit of the same tree.
Commit(a) == <<a, reviewed[a]>>

\* Rows are compared with the time a request came: a write sees the presses
\* that came before it.
Put(d, row) ==
    [d EXCEPT !.pub = [row EXCEPT !.seen = {a \in Presses : input[a].state # "absent"}]]

Quit(phase, terminal) ==
    [phase |-> phase, hasPR |-> FALSE, remote |-> none, terminal |-> terminal]
NoJob(phase) == Quit(phase, FALSE)

Away == [phase |-> "idle", remote |-> none, state |-> "none", current |-> FALSE]

Init ==
    /\ db = [pub |-> [state |-> "none", attempt |-> 0, generation |-> 0, hasPR |-> FALSE,
                      remote |-> none, seen |-> {}],
             followup |-> "none", workflow |-> "open", closed |-> FALSE, closer |-> "idle",
             active |-> FALSE, turn |-> "none", tree |-> 0, latest |-> 0]
    /\ \E kind \in Kinds :
          input = [a \in Attempts |-> [kind |-> kind[a], state |-> "absent", generation |-> 0,
                                       bound |-> FALSE, failures |-> 0]]
    /\ job = [a \in Attempts |-> NoJob("idle")]
    /\ reviewed = [a \in Attempts |-> 0]
    /\ follower = Away
    /\ github = [branch |-> none, pr |-> "none", opened |-> 0]
    /\ troubles = 0

Trouble == troubles < MaxTroubles /\ troubles' = troubles + 1
At(a, phases) == job[a].phase \in phases
Goes(a, from, to) == At(a, from) /\ job' = [job EXCEPT ![a].phase = to]
Alive(a) == ~At(a, {"idle", "over"})

\* What a worker does next, once its attempt has come to an end: an operator
\* is told and the input is done, but a handoff's refusal is its failure.
After(a) == IF Has(a, "press") THEN "ended" ELSE IF Has(a, "handoff") THEN "failing" ELSE "over"
Told(a, from) ==
    /\ At(a, from)
    /\ job' = [job EXCEPT ![a] = NoJob(After(a))]
-----------------------------------------------------------------------------
(* The store's methods: identity when their WHERE clause refuses. *)

\* publicationstore.Save.
Saves(d, a, state) ==
    /\ d.pub.attempt = a
    /\ ~Ended(d)
    /\ \/ d.pub.state = state
       \/ d.pub.state = "reviewing" /\ state \in {"publishing", "retrying", "failed"}
       \/ d.pub.state = "publishing" /\ state \in {"retrying", "failed", "published"}
       \/ d.pub.state = "retrying" /\ state \in {"reviewing", "failed"}
Save(d, a, row) == IF Saves(d, a, row.state) THEN Put(d, row) ELSE d

\* RecordFailure.
RecordFailure(d, a, state) ==
    IF InProgress(d.pub) THEN Save(d, a, [d.pub EXCEPT !.state = state]) ELSE d

MarkStale(d) ==
    IF d.pub.state \in {"published", "failed"} /\ d.pub.hasPR /\ ~Ended(d)
    THEN Put(d, [d.pub EXCEPT !.state = "stale"]) ELSE d

\* Mutated: an attempt claims the publication from another.
ClaimableFromOthers(a) == ~Unavailable(db) /\ ~Ended(db)

\* BeginReview's conditions.
Claimable(a) ==
    /\ ~Unavailable(db) /\ ~Ended(db)
    /\ InProgress(pub) => pub.state = "retrying" /\ pub.attempt = a
    /\ Has(a, "press") /\ pub.attempt # a => a \notin pub.seen
    /\ Has(a, "press") /\ ~input[a].bound /\ pub.state # "none"
         => pub.generation = input[a].generation

\* Mutated: closing does not look at the publication.
ClosableAnyway == ~Unavailable(db) /\ ~db.active

\* BeginClose's condition.
Closable == ~Unavailable(db) /\ ~db.active /\ ~InProgress(pub)
-----------------------------------------------------------------------------
(* Requests. *)
Press(a) ==
    /\ Has(a, "press") /\ input[a].state = "absent"
    /\ input' = [input EXCEPT ![a].state = "pending", ![a].generation = pub.generation]
    /\ UNCHANGED <<db, job, reviewed, follower, github, troubles>>

\* ControlPlaneAct.
Invoke(a) ==
    /\ Has(a, "console")
    /\ ~db.closed
    /\ Goes(a, {"idle"}, "leased")
    /\ UNCHANGED <<db, input, reviewed, follower, github, troubles>>

\* LeaseSlackInput, by the one drain: what an operator pressed goes first.
LeaseInput(a) ==
    /\ input[a].state \in {"pending", "retry"}
    /\ \A b \in Attempts : Queues(b) => ~Alive(b)
    /\ Has(a, "handoff") => \A b \in Presses : input[b].state # "pending"
    /\ input' = [input EXCEPT ![a].state = "processing"]
    /\ Goes(a, {"idle"}, "leased")
    /\ UNCHANGED <<db, reviewed, follower, github, troubles>>

\* publicationControlGenerationMatches, and taskpublication.Process: the
\* button is no longer current, or a later turn has its own handoff.
Current(a) ==
    IF Has(a, "handoff") THEN db.latest = a
    ELSE /\ ~db.closed
         /\ IF input[a].bound THEN pub.attempt = a /\ InProgress(pub)
            ELSE pub.generation = input[a].generation
Outdated(a) ==
    /\ Queues(a) /\ ~Current(a)
    /\ Goes(a, {"leased"}, "ended")
    /\ UNCHANGED <<db, input, reviewed, follower, github, troubles>>

\* A handoff waits for the turn that works on the fork; waiting is no failure.
WaitForTurn(a) ==
    /\ Has(a, "handoff") /\ Current(a) /\ db.active
    /\ Goes(a, {"leased"}, "idle")
    /\ input' = [input EXCEPT ![a].state = "retry"]
    /\ UNCHANGED <<db, reviewed, follower, github, troubles>>

\* publishDraftPR's refusals before BeginReview, and BeginReview's own.
Refuse(a) ==
    /\ Queues(a) => Current(a)
    /\ Told(a, {"leased"})
    /\ \/ Ended(db) /\ UNCHANGED db
       \/ db.active /\ ~Has(a, "handoff")
          /\ db' = IF pub.state = "retrying" THEN Save(db, a, [pub EXCEPT !.state = "failed"]) ELSE db
       \/ ~Claimable(a) /\ UNCHANGED db
    /\ UNCHANGED <<input, reviewed, follower, github, troubles>>

\* Mutated: the claim closes its own request too.
CoalescedAll(a) ==
    [b \in Attempts |->
        IF input[b].state # "absent" /\ (b = a \/ input[b].bound \/ Has(b, "handoff"))
        THEN [input[b] EXCEPT !.state = "done"] ELSE input[b]]

\* The other requests that name the task are done with this one.
Coalesced(a) ==
    [b \in Attempts |->
        IF b # a /\ input[b].state \in {"pending", "retry"} /\ (input[b].bound \/ Has(b, "handoff"))
        THEN [input[b] EXCEPT !.state = "done"] ELSE input[b]]

\* BeginReview.
BeginReview(a) ==
    /\ Queues(a) => Current(a)
    /\ ~db.active
    /\ Claimable(a)
    /\ At(a, {"leased"})
    /\ db' = Put(db, [pub EXCEPT !.state = "reviewing", !.attempt = a, !.generation = @ + 1])
    /\ input' = IF Has(a, "press") THEN [Coalesced(a) EXCEPT ![a].bound = TRUE] ELSE input
    /\ job' = [job EXCEPT ![a] = [phase |-> "reviewing", hasPR |-> pub.hasPR,
                                  remote |-> pub.remote, terminal |-> FALSE]]
    /\ UNCHANGED <<reviewed, follower, github, troubles>>
-----------------------------------------------------------------------------
(* The attempt: review, push, pull request, receipt. *)

\* coop.Review answers a repeated key with the review it made.
Review(a) ==
    /\ Goes(a, {"reviewing"}, "reviewed")
    /\ reviewed[a] = 0 => db.turn # "running"
    /\ reviewed' = [reviewed EXCEPT ![a] = IF @ = 0 THEN db.tree ELSE @]
    /\ UNCHANGED <<db, input, follower, github, troubles>>

\* Nothing to publish, or the review found blockers.
Unpublishable(a) ==
    /\ Told(a, {"reviewing", "reviewed"})
    /\ db' = Save(db, a, [pub EXCEPT !.state = "failed"])
    /\ db' # db
    /\ UNCHANGED <<input, reviewed, follower, github, troubles>>

\* Mutated: an ended pull request does not stop the push.
BeginPublishingAnyway(a) ==
    /\ At(a, {"reviewed"})
    /\ job' = [job EXCEPT ![a].phase = "publishing"]
    /\ db' = Put(db, [pub EXCEPT !.state = "publishing"])
    /\ UNCHANGED <<input, reviewed, follower, github, troubles>>

\* BeginPublishing: a pull request that ended meanwhile keeps its receipt.
BeginPublishing(a) ==
    /\ At(a, {"reviewed"})
    /\ IF pub.attempt = a /\ pub.state = "reviewing" /\ ~Ended(db)
       THEN /\ Goes(a, {"reviewed"}, "publishing")
            /\ db' = Put(db, [pub EXCEPT !.state = "publishing"])
       ELSE /\ Told(a, {"reviewed"})
            /\ db' = IF Ended(db) /\ pub.attempt = a /\ pub.state # "published"
                     THEN Put(db, [pub EXCEPT !.state = "published"]) ELSE db
    /\ UNCHANGED <<input, reviewed, follower, github, troubles>>

\* The recorded pull request is still open at a head of ours, and the branch
\* is where the record or an earlier try of this attempt left it.
Inspect(a) ==
    /\ job[a].hasPR => github.pr = "open" /\ github.branch \in {job[a].remote, Commit(a)}
    /\ github.branch \in {job[a].remote, Commit(a)}
    /\ Goes(a, {"publishing"}, IF github.branch = Commit(a) THEN "pushed" ELSE "inspected")
    /\ UNCHANGED <<db, input, reviewed, follower, github, troubles>>

\* git push --force-with-lease; its answer may be lost.
Push(a) ==
    /\ github.branch = job[a].remote
    /\ \/ Goes(a, {"inspected"}, "pushed")
       \/ Loses /\ Goes(a, {"inspected"}, "lost")
    /\ github' = [github EXCEPT !.branch = Commit(a)]
    /\ UNCHANGED <<db, input, reviewed, follower, troubles>>

\* Mutated: a pull request is opened without looking for one.
OpenAnother(a) ==
    /\ \/ Goes(a, {"pushed"}, "opened")
       \/ Loses /\ Goes(a, {"pushed"}, "unopened")
    /\ github' = IF job[a].hasPR THEN github
                 ELSE [github EXCEPT !.pr = "open", !.opened = @ + 1]
    /\ UNCHANGED <<db, input, reviewed, follower, troubles>>

\* ensureDraftPR: the recorded one if it is open, the branch's own, or a new
\* one; the answer may be lost.
EnsureDraftPR(a) ==
    /\ job[a].hasPR => github.pr = "open" /\ github.branch \in {job[a].remote, Commit(a)}
    /\ \/ Goes(a, {"pushed"}, "opened")
       \/ Loses /\ ~job[a].hasPR /\ Goes(a, {"pushed"}, "unopened")
    /\ github' = IF github.pr = "open" THEN github
                 ELSE [github EXCEPT !.pr = "open", !.opened = @ + 1]
    /\ UNCHANGED <<db, input, reviewed, follower, troubles>>

\* Publish returned an error: its result is recorded as far as it is known,
\* and the attempt is over.  A row that is no longer its own fails the worker.
Remote(a) == IF At(a, {"pushed", "unopened"}) THEN Commit(a) ELSE pub.remote
PublishFails(a) ==
    /\ LET row == [pub EXCEPT !.state = "failed", !.remote = Remote(a)]
       IN IF Saves(db, a, "failed")
          THEN Told(a, {"publishing", "inspected", "pushed", "lost", "unopened"}) /\ db' = Put(db, row)
          ELSE Goes(a, {"publishing", "inspected", "pushed", "lost", "unopened"}, "lapsed") /\ UNCHANGED db
    /\ UNCHANGED <<input, reviewed, follower, github, troubles>>

\* The receipt: SavePublication.
Record(a) ==
    /\ LET row == [pub EXCEPT !.state = "published", !.hasPR = TRUE, !.remote = Commit(a)]
       IN IF Saves(db, a, "published")
          THEN Goes(a, {"opened"}, "published") /\ db' = Put(db, row)
          ELSE Goes(a, {"opened"}, "lapsed") /\ UNCHANGED db
    /\ UNCHANGED <<input, reviewed, follower, github, troubles>>

\* PublicationFollowups.Reset; the card's summary then belongs to no turn.
Reset(a) ==
    /\ At(a, {"published"})
    /\ job' = [job EXCEPT ![a] = NoJob(IF Queues(a) THEN "ended" ELSE "over")]
    /\ db' = [db EXCEPT !.latest = 0, !.followup = IF Ended(db) THEN @ ELSE "open"]
    /\ follower' = [follower EXCEPT !.current = FALSE]
    /\ UNCHANGED <<input, reviewed, github, troubles>>

\* retrySlackInput, and the console's deferred failure: an error is recorded
\* on the publication first.  A handoff's is recorded once it has claimed it.
Exhausted(failures) == failures >= MaxAttempts
Fails(a) ==
    /\ At(a, {"leased", "reviewing", "reviewed", "lapsed"})
    /\ IF At(a, {"lapsed"}) THEN UNCHANGED troubles ELSE Trouble
    /\ \E terminal \in {TRUE, Exhausted(input[a].failures + 1)} :
          LET state == IF Has(a, "press") /\ ~terminal THEN "retrying" ELSE "failed"
          IN /\ job' = [job EXCEPT ![a] = IF Queues(a) THEN Quit("failing", terminal)
                                          ELSE NoJob("over")]
             /\ db' = IF ~Has(a, "press") /\ At(a, {"leased"}) THEN db
                      ELSE IF pub.attempt # a THEN db
                      ELSE RecordFailure(db, a, state)
    /\ UNCHANGED <<input, reviewed, follower, github>>

\* RetrySlackInputFailure.
FailInput(a) ==
    /\ At(a, {"failing"}) /\ job' = [job EXCEPT ![a] = NoJob("idle")]
    /\ LET terminal == job[a].terminal \/ Exhausted(input[a].failures + 1)
       IN input' = [input EXCEPT ![a].state = IF terminal THEN "failed" ELSE "retry",
                                 ![a].failures = @ + 1]
    /\ UNCHANGED <<db, reviewed, follower, github, troubles>>

FinishInput(a) ==
    /\ Goes(a, {"ended"}, "idle")
    /\ input' = [input EXCEPT ![a].state = "done"]
    /\ UNCHANGED <<db, reviewed, follower, github, troubles>>
-----------------------------------------------------------------------------
(* The agent's turns.  Bound: after the first, only those whose handoffs are *)
(* among the requests.                                                       *)
StartTurn ==
    /\ db.turn = "none" /\ ~db.active /\ ~db.closed
    /\ db.tree = 0 \/ \E a \in Attempts : a = db.tree + 1 /\ Has(a, "handoff")
    /\ db' = [db EXCEPT !.turn = "running", !.active = TRUE]
    /\ UNCHANGED <<input, job, reviewed, follower, github, troubles>>

TurnEnds ==
    /\ db.turn = "running"
    /\ db' = [db EXCEPT !.turn = "over", !.tree = @ + 1]
    /\ UNCHANGED <<input, job, reviewed, follower, github, troubles>>

\* withEngineeringTaskChanges and CreationDue.
Decide ==
    /\ db.turn = "over"
    /\ LET marked == MarkStale(db)
           due == ~InProgress(marked.pub) /\ (marked.pub.state = "stale" \/ ~marked.pub.hasPR)
       IN db' = [marked EXCEPT !.turn = IF due THEN "due" ELSE "settled"]
    /\ UNCHANGED <<input, job, reviewed, follower, github, troubles>>

\* The card's summary, and FinishAgentRun with the handoff.
FinishTurn ==
    /\ db.turn \in {"due", "settled"}
    /\ LET handoffs == {a \in Attempts : Has(a, "handoff") /\ a = db.tree}
       IN input' = [a \in Attempts |-> IF db.turn = "due" /\ a \in handoffs /\ input[a].state = "absent"
                                       THEN [input[a] EXCEPT !.state = "pending"] ELSE input[a]]
    /\ db' = [db EXCEPT !.turn = "none", !.active = FALSE, !.latest = db.tree]
    /\ UNCHANGED <<job, reviewed, follower, github, troubles>>
-----------------------------------------------------------------------------
(* Closing the task: BeginClose, Coop's close, and CloseIncident or          *)
(* RestoreClose.  Bound: one close at a time.                                *)
BeginClose ==
    /\ db.closer = "idle" /\ Closable
    /\ db' = [db EXCEPT !.workflow = "closing", !.closer = "waiting"]
    /\ UNCHANGED <<input, job, reviewed, follower, github, troubles>>

\* Mutated: the mark is taken for the exclusion it was to bring.
ClosedAnyway ==
    /\ db.closer = "waiting"
    /\ db' = [db EXCEPT !.workflow = "closed", !.closed = TRUE, !.closer = "idle", !.active = FALSE]
    /\ UNCHANGED <<input, job, reviewed, follower, github, troubles>>

\* It looks at the publication again, and not at the mark.
CloseIncident ==
    /\ db.closer = "waiting" /\ ~InProgress(pub)
    /\ db' = [db EXCEPT !.workflow = "closed", !.closed = TRUE, !.closer = "idle", !.active = FALSE]
    /\ UNCHANGED <<input, job, reviewed, follower, github, troubles>>

\* Coop refused, or the publication did.
RestoreClose ==
    /\ db.closer = "waiting"
    /\ db' = [db EXCEPT !.closer = "idle", !.workflow = IF @ = "closing" THEN "open" ELSE @]
    /\ UNCHANGED <<input, job, reviewed, follower, github, troubles>>

\* UpdateCoopState, by the poller, with what Coop said of the session's turn
\* some time before: it looks at neither the mark nor the status.
PollIncident(active) ==
    /\ active => db.turn # "none" \/ db.tree > 0
    /\ db' = [db EXCEPT !.workflow = "open", !.active = active]
    /\ UNCHANGED <<input, job, reviewed, follower, github, troubles>>
-----------------------------------------------------------------------------
(* The follower: it reads the rows, asks GitHub, and writes what it saw. *)
FollowerReads ==
    /\ follower = Away
    /\ pub.state \in {"published", "stale"} /\ db.followup = "open"
    /\ follower' = [phase |-> "read", remote |-> pub.remote, state |-> pub.state, current |-> TRUE]
    /\ UNCHANGED <<db, input, job, reviewed, github, troubles>>

\* PublicationStatus.  A pull request that is open at the recorded head only
\* has its checks recorded, which are left out.
FollowerAsks ==
    /\ follower.phase = "read"
    /\ LET moved == follower.state = "published" /\ github.branch # follower.remote
       IN follower' = IF github.pr # "open" THEN [follower EXCEPT !.phase = "ended"]
                      ELSE IF moved THEN [Away EXCEPT !.phase = "moved"] ELSE Away
    /\ UNCHANGED <<db, input, job, reviewed, github, troubles>>

\* refresh: a head that moved makes the receipt stale; the pull request's end
\* restores it, unless the follow-up's row was reset meanwhile.
FollowerWrites ==
    /\ \/ follower.phase = "moved" /\ db' = MarkStale(db)
       \/ follower.phase = "ended"
          /\ db' = IF pub.remote # follower.remote \/ ~follower.current THEN db
                   ELSE Put([db EXCEPT !.followup = "ended"], [pub EXCEPT !.state = "published"])
    /\ follower' = Away
    /\ UNCHANGED <<input, job, reviewed, github, troubles>>
-----------------------------------------------------------------------------
(* GitHub's people, and the process. *)
PersonPushes ==
    /\ github.branch \notin {none, Foreign}
    /\ Trouble
    /\ github' = [github EXCEPT !.branch = Foreign]
    /\ UNCHANGED <<db, input, job, reviewed, follower>>

PersonEnds ==     \* merges or closes it
    /\ github.pr = "open"
    /\ github' = [github EXCEPT !.pr = "ended"]
    /\ UNCHANGED <<db, input, job, reviewed, follower, troubles>>

\* publicationrecoverystore.RecoverInterrupted, then the Slack inputs' own.
Claims(a) == input[a].state = "processing" /\ pub.attempt = a /\ (input[a].bound \/ Has(a, "handoff"))

\* Mutated: what a restart interrupts goes back to the start.
RecoveredAsPending == IF InProgress(pub) THEN "pending" ELSE pub.state

\* Mutated: a recorded pull request makes an interrupted attempt published.
RecoveredByReceipt ==
    IF pub.hasPR THEN "published"
    ELSE IF pub.state \in {"reviewing", "publishing"}
    THEN IF \E a \in Attempts : Claims(a) THEN "retrying" ELSE "failed"
    ELSE pub.state

Recovered ==
    IF pub.hasPR /\ Ended(db) THEN "published"
    ELSE IF pub.state \in {"reviewing", "publishing"}
    THEN IF \E a \in Attempts : Claims(a) THEN "retrying" ELSE "failed"
    ELSE pub.state

\* Mutated: the recovery leaves the follow-up to the attempt.
FollowedLater(state) == FALSE

\* The crash came between the receipt and the follow-up's Reset.
Unfollowed(state) ==
    /\ db.followup = "none" /\ state \in {"published", "stale"}
    /\ \E a \in Attempts : Claims(a)

RecoverPublication ==
    LET state == Recovered
        finished == {a \in Attempts : Claims(a) /\ state \in {"failed", "published", "stale"}}
        written == IF state = pub.state THEN db ELSE Put(db, [pub EXCEPT !.state = state])
    IN /\ db' = [written EXCEPT
                   !.followup = IF Unfollowed(state) THEN "open" ELSE @,
                   !.workflow = IF @ = "closing" THEN "open" ELSE @,
                   !.closer = "idle",
                   !.turn = IF @ \in {"due", "settled"} THEN "over" ELSE @]
       /\ input' = [a \in Attempts |->
                        IF input[a].state # "processing" THEN input[a]
                        ELSE [input[a] EXCEPT !.state = IF a \in finished THEN "done" ELSE "retry"]]

Restart ==
    /\ Trouble
    /\ RecoverPublication
    /\ job' = [a \in Attempts |-> NoJob(IF Queues(a) \/ At(a, {"idle"}) THEN "idle" ELSE "over")]
    /\ follower' = Away
    /\ UNCHANGED <<reviewed, github>>

Carries(a) ==
    \/ Outdated(a) \/ WaitForTurn(a) \/ Refuse(a) \/ BeginReview(a) \/ Review(a)
    \/ Unpublishable(a) \/ BeginPublishing(a) \/ Inspect(a) \/ Push(a) \/ EnsureDraftPR(a)
    \/ PublishFails(a) \/ Record(a) \/ Reset(a) \/ Fails(a) \/ FailInput(a) \/ FinishInput(a)
Turns == StartTurn \/ TurnEnds \/ Decide \/ FinishTurn
Follows == FollowerReads \/ FollowerAsks \/ FollowerWrites

Next ==
    \/ \E a \in Attempts : Press(a) \/ Invoke(a) \/ LeaseInput(a) \/ Carries(a)
    \/ Turns \/ Follows \/ BeginClose \/ CloseIncident \/ RestoreClose
    \/ \E active \in BOOLEAN : PollIncident(active)
    \/ PersonPushes \/ PersonEnds \/ Restart

Spec == Init /\ [][Next]_vars
-----------------------------------------------------------------------------
Commits == {none} \cup (Nat \X Nat)

Publication ==
    [state : PublicationState, attempt : Attempts \cup {0}, generation : Nat, hasPR : BOOLEAN,
     remote : Commits, seen : SUBSET Attempts]

Database ==
    [pub : Publication, followup : {"none", "open", "ended"},
     workflow : {"open", "closing", "closed"}, closed : BOOLEAN, closer : {"idle", "waiting"},
     active : BOOLEAN,
     turn : {"none", "running", "over", "due", "settled"}, tree : Nat, latest : Nat]

Request ==
    [kind : {"press", "console", "handoff"},
     state : {"absent", "pending", "processing", "retry", "done", "failed"},
     generation : Nat, bound : BOOLEAN, failures : Nat]

Job ==
    [phase : Working \cup {"idle", "leased", "published", "lapsed", "failing", "ended", "over"},
     hasPR : BOOLEAN, remote : Commits, terminal : BOOLEAN]

Following ==
    [phase : {"idle", "read", "moved", "ended"}, remote : Commits,
     state : {"none", "published", "stale"}, current : BOOLEAN]

\* The type invariant.
TypeOK ==
    /\ db \in Database
    /\ input \in [Attempts -> Request]
    /\ job \in [Attempts -> Job]
    /\ reviewed \in [Attempts -> Nat]
    /\ follower \in Following
    /\ github \in [branch : Commits, pr : {"none", "open", "ended"}, opened : Nat]
    /\ troubles \in 0..MaxTroubles

\* Two attempts never work on the branch at the same time, ...
OneAttempt ==
    \A a, b \in Attempts : At(a, Working) /\ At(b, Working) => a = b

\* ... nobody works on it or has a claim to it once the task is closed, nor
\* while the row says that it is being closed, unless the pull request ended.
CloseExcludes ==
    Unavailable(db) => ~InProgress(pub) /\ \A a \in Attempts : At(a, Working) => Ended(db)

\* Whoever works on the branch of a task has it for himself.  A close that
\* lost its mark to the poller does not keep attempts out while it waits for
\* Coop; it then fails, or they have come to an end before it is recorded.
BranchExclusive == OneAttempt /\ CloseExcludes

\* Work in progress has a worker, or an input that is still to be carried
\* out: the retry that the card announces belongs to somebody.
Owned ==
    \/ At(pub.attempt, Working \cup {"lapsed"})
    \/ pub.state = "retrying" /\ input[pub.attempt].state \in {"retry", "processing"}

\* An operator's press is carried out or given up, and never forgotten.
PressOwned == InProgress(pub) /\ Has(pub.attempt, "press") => Owned

\* The end of a pull request is final: the receipt it leaves is restored and
\* nothing that was under way overwrites it.
TerminalKept == Ended(db) => pub.state = "published"

\* A receipt names what is on GitHub, until somebody else pushes there, ...
ReceiptTruthful ==
    pub.state = "published" /\ ~Ended(db) => github.branch \in {pub.remote, Foreign}

\* ... and the pull request it names is watched, whatever stopped its attempt.
PublishedFollowed ==
    pub.state = "published" /\ Queues(pub.attempt) /\ ~At(pub.attempt, {"published"})
        => db.followup # "none"

\* What Responder says of a published pull request is so and is kept so.
ReceiptKept == TypeOK /\ ReceiptTruthful /\ PublishedFollowed

\* A lost answer or a crash does not open a second pull request: one is opened
\* when none is open, and never again once one was recorded.
NoSecondPullRequest ==
    [][github'.opened # github.opened => github.pr # "open" /\ ~pub.hasPR]_vars
=============================================================================
