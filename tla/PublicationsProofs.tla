-------------------------- MODULE PublicationsProofs --------------------------
(***************************************************************************)
(* Proofs about Publications for any requests, kinds of them and limits:   *)
(* the branch is worked on exclusively, a press is never forgotten, the    *)
(* end of a pull request is final, the receipt is kept true and watched,   *)
(* and no second pull request is opened.                                   *)
(***************************************************************************)
EXTENDS Publications, TLAPS

Examining == {"reviewing", "reviewed"}
Publishing == {"publishing", "inspected", "pushed", "lost", "opened", "unopened"}
Delivering == {"pushed", "lost", "opened", "unopened"}

(* The worker of an attempt holds the publication from its review to its    *)
(* receipt, unless the pull request ended meanwhile, and knows whether one  *)
(* was recorded; what it has pushed is its own commit.                      *)
Holds(a, state) == pub.attempt = a /\ pub.state = state

JobRight(a) ==
    /\ At(a, Examining) => Ended(db) \/ Holds(a, "reviewing")
    /\ At(a, Publishing) => Ended(db) \/ Holds(a, "publishing")
    /\ At(a, {"lapsed"}) => Ended(db)
    /\ At(a, Working) => job[a].hasPR = pub.hasPR
    /\ At(a, Delivering) => github.branch \in {Commit(a), Foreign}

(* A request is being carried out while its worker is alive; a press that   *)
(* claimed the publication names it, and does not leave it in progress when *)
(* it is done, nor when it has failed for good.                             *)
InputRight(a) ==
    /\ Queues(a) /\ Alive(a) => input[a].state = "processing"
    /\ Has(a, "press") /\ pub.attempt = a =>
         /\ input[a].bound
         /\ At(a, {"published", "ended"}) => ~InProgress(pub)
         /\ At(a, {"failing"}) /\ InProgress(pub) =>
              ~job[a].terminal /\ ~Exhausted(input[a].failures + 1)

(* Work in progress that a press asked for has its worker or its retry.     *)
PressHeld ==
    InProgress(pub) /\ Has(pub.attempt, "press") =>
        \/ At(pub.attempt, Working)
        \/ pub.state = "retrying" /\ input[pub.attempt].state \in {"retry", "processing"}

RowRight ==
    /\ pub.state # "none" => pub.attempt \in Attempts
    /\ follower.phase # "idle" => pub.state # "none"
    /\ Unavailable(db) => ~InProgress(pub)
    /\ TerminalKept
    /\ OneAttempt
    /\ PressHeld
    /\ ReceiptTruthful
    /\ PublishedFollowed

IInv ==
    /\ TypeOK
    /\ \A a \in Attempts : JobRight(a) /\ InputRight(a)
    /\ RowRight
-----------------------------------------------------------------------------
(* Rows as they are written.                                                *)
Kept(p, q) == p.attempt = q.attempt /\ p.hasPR = q.hasPR /\ p.remote = q.remote

SameTask(d, e) ==
    /\ d.followup = e.followup /\ d.workflow = e.workflow /\ d.closed = e.closed
    /\ d.turn = e.turn /\ d.tree = e.tree /\ d.latest = e.latest

LEMMA RowWrite ==
    ASSUME NEW row \in Publication, NEW state \in PublicationState
    PROVE  LET new == [row EXCEPT !.state = state]
           IN new \in Publication /\ new.state = state /\ Kept(new, row)
BY DEF Publication, Kept

LEMMA PutFacts ==
    ASSUME NEW d \in Database, NEW row \in Publication
    PROVE  /\ Put(d, row) \in Database
           /\ Put(d, row).pub.state = row.state /\ Kept(Put(d, row).pub, row)
           /\ SameTask(Put(d, row), d)
<1> DEFINE S == {a \in Presses : input[a].state # "absent"}
           new == [row EXCEPT !.seen = S]
<1>1. S \subseteq Attempts  BY DEF Presses
<1> HIDE DEF S
<1>2. new \in Publication /\ new.state = row.state /\ Kept(new, row)
  BY <1>1 DEF Publication, Kept
<1>3. Put(d, row) = [d EXCEPT !.pub = new]  BY DEF Put, new, S
<1> HIDE DEF new
<1>4. /\ Put(d, row) \in Database /\ Put(d, row).pub = new
      /\ SameTask(Put(d, row), d)
  BY <1>2, <1>3 DEF Database, SameTask
<1> QED  BY <1>2, <1>4

LEMMA StatePut ==
    ASSUME NEW d \in Database, NEW row \in Publication, NEW state \in PublicationState
    PROVE  LET new == Put(d, [row EXCEPT !.state = state])
           IN /\ new \in Database /\ new.pub.state = state /\ Kept(new.pub, row)
              /\ SameTask(new, d)
<1> DEFINE written == [row EXCEPT !.state = state]
<1>1. written \in Publication /\ written.state = state /\ Kept(written, row)  BY RowWrite
<1> HIDE DEF written
<1>2. /\ Put(d, written) \in Database
      /\ Put(d, written).pub.state = written.state /\ Kept(Put(d, written).pub, written)
      /\ SameTask(Put(d, written), d)
  BY <1>1, PutFacts
<1>3. Kept(Put(d, written).pub, row)  BY <1>1, <1>2 DEF Kept
<1> QED  BY <1>1, <1>2, <1>3 DEF written

(* Save writes the state of the attempt's own row, or nothing.              *)
LEMMA SaveFacts ==
    ASSUME NEW d \in Database, NEW a \in Attempts, NEW state \in PublicationState
    PROVE  LET new == Save(d, a, [d.pub EXCEPT !.state = state])
           IN /\ new \in Database /\ Kept(new.pub, d.pub) /\ SameTask(new, d)
              /\ Saves(d, a, state) => new.pub.state = state
              /\ ~Saves(d, a, state) => new = d
<1>0. d.pub \in Publication  BY DEF Database
<1> DEFINE row == [d.pub EXCEPT !.state = state]
<1>1. row.state = state  BY <1>0, RowWrite
<1>2. /\ Put(d, row) \in Database /\ Put(d, row).pub.state = state
      /\ Kept(Put(d, row).pub, d.pub) /\ SameTask(Put(d, row), d)
  BY <1>0, StatePut
<1> HIDE DEF row
<1>3. Save(d, a, row) = IF Saves(d, a, state) THEN Put(d, row) ELSE d  BY <1>1 DEF Save
<1> QED  BY <1>2, <1>3 DEF row, Kept, SameTask

LEMMA MarkStaleFacts ==
    ASSUME NEW d \in Database
    PROVE  LET new == MarkStale(d)
           IN /\ new \in Database /\ Kept(new.pub, d.pub) /\ SameTask(new, d)
              /\ \/ new.pub = d.pub
                 \/ /\ d.pub.state \in {"published", "failed"} /\ ~Ended(d)
                    /\ new.pub.state = "stale"
<1>0. d.pub \in Publication  BY DEF Database
<1> DEFINE new == Put(d, [d.pub EXCEPT !.state = "stale"])
<1>1. "stale" \in PublicationState  BY DEF PublicationState
<1>2. new \in Database /\ new.pub.state = "stale" /\ Kept(new.pub, d.pub) /\ SameTask(new, d)
  BY <1>0, <1>1, StatePut
<1> HIDE DEF new
<1> QED  BY <1>2 DEF MarkStale, new, Kept, SameTask

(* Workers that go on, or come to an end.                                   *)
Phases == Working \cup {"idle", "leased", "published", "lapsed", "failing", "ended", "over"}

LEMMA GoesFacts ==
    ASSUME job \in [Attempts -> Job], NEW a \in Attempts, NEW from, NEW to \in Phases,
           Goes(a, from, to)
    PROVE  /\ job' \in [Attempts -> Job] /\ job[a].phase \in from
           /\ job'[a].phase = to /\ job'[a].hasPR = job[a].hasPR
           /\ job'[a].remote = job[a].remote /\ job'[a].terminal = job[a].terminal
           /\ \A b \in Attempts \ {a} : job'[b] = job[b]
BY DEF Goes, At, Job, Phases

LEMMA QuitType ==
    ASSUME NEW phase \in Phases, NEW terminal \in BOOLEAN
    PROVE  /\ Quit(phase, terminal) \in Job
           /\ Quit(phase, terminal).phase = phase
           /\ Quit(phase, terminal).terminal = terminal
BY DEF Quit, Job, Phases, Commits

LEMMA ToldFacts ==
    ASSUME job \in [Attempts -> Job], NEW a \in Attempts, NEW from, Told(a, from)
    PROVE  /\ job' \in [Attempts -> Job] /\ job[a].phase \in from
           /\ job'[a].phase = After(a) /\ After(a) \in {"ended", "failing", "over"}
           /\ Has(a, "press") => After(a) = "ended"
           /\ ~Queues(a) => After(a) = "over"
           /\ \A b \in Attempts \ {a} : job'[b] = job[b]
<1>1. After(a) \in Phases \cap {"ended", "failing", "over"}  BY DEF After, Phases
<1>2. NoJob(After(a)) \in Job /\ NoJob(After(a)).phase = After(a)
  BY <1>1, QuitType DEF NoJob
<1> QED  BY <1>1, <1>2 DEF Told, At, After, Has, Queues

LEMMA InputWrites ==
    ASSUME NEW r \in Request, NEW state \in {"absent", "pending", "processing", "retry", "done", "failed"}
    PROVE  LET new == [r EXCEPT !.state = state]
           IN /\ new \in Request /\ new.state = state /\ new.kind = r.kind
              /\ new.bound = r.bound /\ new.failures = r.failures
BY DEF Request
-----------------------------------------------------------------------------
LEMMA Types ==
    ASSUME TypeOK
    PROVE  /\ db \in Database /\ pub \in Publication
           /\ input \in [Attempts -> Request] /\ job \in [Attempts -> Job]
           /\ reviewed \in [Attempts -> Nat] /\ follower \in Following
           /\ github \in [branch : Commits, pr : {"none", "open", "ended"}, opened : Nat]
BY DEF TypeOK, Database, pub

(* Work in progress has not ended, and whoever works on it holds it.        *)
LEMMA WorkerAlone ==
    ASSUME IInv, NEW a \in Attempts, At(a, Working)
    PROVE  /\ \A b \in Attempts \ {a} : ~At(b, Working)
           /\ ~Ended(db) => pub.attempt = a /\ pub.state \in {"reviewing", "publishing"}
           /\ pub.state = "published" => Ended(db)
<1>1. At(a, Examining) \/ At(a, Publishing)  BY DEF At, Working, Examining, Publishing
<1>2. ~Ended(db) => pub.attempt = a /\ pub.state \in {"reviewing", "publishing"}
  BY <1>1 DEF IInv, JobRight, Holds
<1>3. \A b \in Attempts \ {a} : ~At(b, Working)  BY DEF IInv, RowRight, OneAttempt
<1> QED  BY <1>2, <1>3

(* A step that leaves the publication's row alone.                          *)
LEMMA FrameStep ==
    ASSUME IInv, TypeOK', db'.pub = db.pub, db'.followup = db.followup,
           Unavailable(db)' => ~InProgress(pub),
           follower'.phase # "idle" => pub.state # "none",
           \A b \in Attempts : input'[b].kind = input[b].kind,
           \A b \in Attempts : At(b, Working)' => At(b, Working),
           \A b \in Attempts : At(b, {"published"}) => At(b, {"published"})',
           \A b \in Attempts : JobRight(b)' /\ InputRight(b)', PressHeld',
           github'.branch \in {github.branch, Foreign} \/ \E b \in Attempts : At(b, Working)
    PROVE  IInv'
<1> USE DEF pub, Unavailable
<1>1. OneAttempt'  BY DEF IInv, RowRight, OneAttempt
<1>2. TerminalKept'  BY DEF IInv, RowRight, TerminalKept, Ended
<1>3. ReceiptTruthful'
  BY WorkerAlone DEF IInv, RowRight, ReceiptTruthful, Ended
<1>4. PublishedFollowed'
  BY DEF IInv, RowRight, PublishedFollowed, Queues, Has, InProgress
<1> QED  BY <1>1, <1>2, <1>3, <1>4 DEF IInv, RowRight, InProgress

(* ... and the workers, too.                                                *)
LEMMA QuietStep ==
    ASSUME IInv, TypeOK', db'.pub = db.pub, db'.followup = db.followup,
           Unavailable(db)' => ~InProgress(pub),
           follower'.phase # "idle" => pub.state # "none",
           UNCHANGED <<input, job, reviewed>>,
           github'.branch \in {github.branch, Foreign}
    PROVE  IInv'
<1> USE DEF pub, Unavailable
<1>1. \A b \in Attempts : JobRight(b)'
  BY DEF IInv, JobRight, Holds, At, Commit, Ended
<1>2. \A b \in Attempts : InputRight(b)'
  BY DEF IInv, InputRight, Queues, Alive, Has, At, InProgress
<1>3. PressHeld'  BY DEF IInv, RowRight, PressHeld, At, InProgress, Has
<1>4. \A b \in Attempts : /\ At(b, Working)' => At(b, Working)
                          /\ At(b, {"published"}) => At(b, {"published"})'
  BY DEF At
<1> QED  BY <1>1, <1>2, <1>3, <1>4, FrameStep

(* The agent's turns, closing and reopening the task.                       *)
LEMMA TaskStep ==
    ASSUME IInv,
           \/ StartTurn \/ TurnEnds \/ BeginClose \/ CloseIncident \/ RestoreClose
           \/ \E active \in BOOLEAN : PollIncident(active)
    PROVE  IInv'
<1> USE DEF pub, Unavailable
<1>1. db \in Database /\ TypeOK /\ (Unavailable(db) => ~InProgress(pub))
  BY Types DEF IInv, RowRight
<1>2. UNCHANGED <<input, job, reviewed, follower, github, troubles>>
  BY DEF StartTurn, TurnEnds, BeginClose, CloseIncident, RestoreClose, PollIncident
<1>3. /\ db' \in Database /\ db'.pub = db.pub /\ db'.followup = db.followup
      /\ Unavailable(db)' => ~InProgress(pub)
  <2>1. CASE StartTurn  BY <1>1, <2>1 DEF StartTurn, Database
  <2>2. CASE TurnEnds
    <3>1. db.tree + 1 \in Nat  BY <1>1 DEF Database
    <3>2. db' = [db EXCEPT !.turn = "over", !.tree = db.tree + 1]  BY <2>2 DEF TurnEnds
    <3> QED  BY <1>1, <3>1, <3>2 DEF Database
  <2>3. CASE BeginClose  BY <1>1, <2>3 DEF BeginClose, Closable, Database
  <2>4. CASE CloseIncident  BY <1>1, <2>4 DEF CloseIncident, Database
  <2>5. CASE RestoreClose  BY <1>1, <2>5 DEF RestoreClose, Database
  <2>6. CASE \E active \in BOOLEAN : PollIncident(active)
    BY <1>1, <2>6 DEF PollIncident, Database
  <2> QED  BY <2>1, <2>2, <2>3, <2>4, <2>5, <2>6
<1>4. TypeOK'  BY <1>1, <1>2, <1>3 DEF TypeOK
<1>5. follower.phase # "idle" => pub.state # "none"  BY DEF IInv, RowRight
<1> QED  BY <1>2, <1>3, <1>4, <1>5, QuietStep

(* The follower's reading and asking, and GitHub's people.                  *)
LEMMA WatchStep ==
    ASSUME IInv, FollowerReads \/ FollowerAsks \/ PersonPushes \/ PersonEnds
    PROVE  IInv'
<1> USE DEF pub, Unavailable
<1>1. /\ TypeOK /\ pub \in Publication /\ follower \in Following
      /\ github \in [branch : Commits, pr : {"none", "open", "ended"}, opened : Nat]
      /\ follower.phase # "idle" => pub.state # "none"
      /\ Unavailable(db) => ~InProgress(pub)
  BY Types DEF IInv, RowRight
<1>2. UNCHANGED <<db, input, job, reviewed>>
  BY DEF FollowerReads, FollowerAsks, PersonPushes, PersonEnds
<1>3. /\ follower' \in Following
      /\ follower'.phase # "idle" => pub.state # "none"
  <2>1. CASE FollowerReads  BY <1>1, <2>1 DEF FollowerReads, Following, Publication
  <2>2. CASE FollowerAsks
    <3>1. Away \in Following /\ Away.phase = "idle"
      BY DEF Away, Following, Commits
    <3>2. [Away EXCEPT !.phase = "moved"] \in Following /\ [follower EXCEPT !.phase = "ended"] \in Following
      BY <1>1, <3>1 DEF Following
    <3>3. \/ follower' = [Away EXCEPT !.phase = "moved"] \/ follower' = Away
          \/ follower' = [follower EXCEPT !.phase = "ended"]
      BY <2>2 DEF FollowerAsks
    <3>4. pub.state # "none"  BY <1>1, <2>2 DEF FollowerAsks
    <3> QED  BY <3>1, <3>2, <3>3, <3>4
  <2>3. CASE PersonPushes \/ PersonEnds  BY <1>1, <2>3 DEF PersonPushes, PersonEnds
  <2> QED  BY <2>1, <2>2, <2>3
<1>4. /\ github' \in [branch : Commits, pr : {"none", "open", "ended"}, opened : Nat]
      /\ github'.branch \in {github.branch, Foreign}
  <2>1. Foreign \in Commits  BY DEF Foreign, Commits
  <2>2. CASE PersonPushes  BY <1>1, <2>1, <2>2 DEF PersonPushes
  <2>3. CASE PersonEnds  BY <1>1, <2>3 DEF PersonEnds
  <2>4. CASE FollowerReads \/ FollowerAsks  BY <1>1, <2>4 DEF FollowerReads, FollowerAsks
  <2> QED  BY <2>2, <2>3, <2>4
<1>5. troubles' \in 0..MaxTroubles
  BY <1>1, ConfigAssumption
  DEF TypeOK, FollowerReads, FollowerAsks, PersonPushes, PersonEnds, Trouble
<1>6. TypeOK'  BY <1>1, <1>2, <1>3, <1>4, <1>5 DEF TypeOK
<1> QED  BY <1>1, <1>2, <1>3, <1>4, <1>6, QuietStep
-----------------------------------------------------------------------------
(* Requests come, are taken up and are done, while no worker of theirs has  *)
(* the branch.                                                              *)
LEMMA RequestFrame ==
    ASSUME IInv, TypeOK', db'.pub = db.pub, db'.followup = db.followup, db'.workflow = db.workflow /\ db'.closed = db.closed,
           UNCHANGED <<reviewed, follower, github>>,
           \A b \in Attempts : input'[b].kind = input[b].kind,
           \A b \in Attempts : \/ job'[b] = job[b]
                               \/ /\ ~At(b, Working)' /\ ~At(b, Working) /\ ~At(b, {"lapsed"})'
                                  /\ ~At(b, {"published"}),
           \A b \in Attempts : InputRight(b)', PressHeld'
    PROVE  IInv'
<1> USE DEF pub, Unavailable
<1>1. ASSUME NEW b \in Attempts PROVE JobRight(b)'
  <2>1. CASE job'[b] = job[b]  BY <2>1 DEF IInv, JobRight, Holds, At, Commit, Ended
  <2>2. CASE ~At(b, Working)' /\ ~At(b, {"lapsed"})'
    BY <2>2 DEF JobRight, At, Working, Examining, Publishing, Delivering
  <2> QED  BY <2>1, <2>2
<1>2. /\ Unavailable(db)' => ~InProgress(pub)
      /\ follower'.phase # "idle" => pub.state # "none"
  BY DEF IInv, RowRight
<1>3. \A b \in Attempts : /\ At(b, Working)' => At(b, Working)
                          /\ At(b, {"published"}) => At(b, {"published"})'
  BY DEF At
<1> QED  BY <1>1, <1>2, <1>3, FrameStep

LEMMA PressStep ==
    ASSUME IInv, NEW a \in Attempts, Press(a)
    PROVE  IInv'
<1> USE DEF pub, Unavailable
<1>1. TypeOK /\ pub \in Publication /\ input \in [Attempts -> Request]  BY Types DEF IInv
<1>2. UNCHANGED <<db, job, reviewed, follower, github, troubles>>  BY DEF Press
<1>3. /\ input' \in [Attempts -> Request]
      /\ input[a].state = "absent"
      /\ \A b \in Attempts : /\ input'[b].kind = input[b].kind /\ input'[b].bound = input[b].bound
                             /\ input'[b].failures = input[b].failures
                             /\ b # a => input'[b].state = input[b].state
  <2>1. pub.generation \in Nat  BY <1>1 DEF Publication
  <2>2. input' = [input EXCEPT ![a].state = "pending", ![a].generation = pub.generation]
    BY DEF Press
  <2>3. input[a].state = "absent"  BY DEF Press
  <2> HIDE DEF pub
  <2> QED  BY <1>1, <2>1, <2>2, <2>3 DEF Request
<1>4. TypeOK'  BY <1>1, <1>2, <1>3 DEF TypeOK
<1>5. \A b \in Attempts : InputRight(b)'
  BY <1>2, <1>3 DEF IInv, InputRight, Queues, Alive, Has, At, InProgress
<1>6. InProgress(pub) => pub.attempt \in Attempts
  BY DEF IInv, RowRight, InProgress
<1>7. PressHeld'
  BY <1>2, <1>3, <1>6 DEF IInv, RowRight, PressHeld, Has, At, InProgress
<1> QED  BY <1>2, <1>3, <1>4, <1>5, <1>7, RequestFrame

LEMMA TakenStep ==
    ASSUME IInv, NEW a \in Attempts, Invoke(a) \/ LeaseInput(a)
    PROVE  IInv'
<1> USE DEF pub, Unavailable
<1>1. TypeOK /\ input \in [Attempts -> Request] /\ job \in [Attempts -> Job]
  BY Types DEF IInv
<1>2. UNCHANGED <<db, reviewed, follower, github, troubles>>  BY DEF Invoke, LeaseInput
<1>3. /\ job' \in [Attempts -> Job] /\ job[a].phase = "idle" /\ job'[a].phase = "leased"
      /\ \A b \in Attempts \ {a} : job'[b] = job[b]
  <2>1. Goes(a, {"idle"}, "leased") /\ "leased" \in Phases
    BY DEF Invoke, LeaseInput, Phases
  <2> QED  BY <1>1, <2>1, GoesFacts
<1>4. /\ input' \in [Attempts -> Request]
      /\ \/ Has(a, "console") /\ input' = input
         \/ input'[a].state = "processing" /\ input[a].state \in {"pending", "retry"}
      /\ \A b \in Attempts : /\ input'[b].kind = input[b].kind /\ input'[b].bound = input[b].bound
                             /\ input'[b].failures = input[b].failures
                             /\ b # a => input'[b].state = input[b].state
  <2>1. CASE Invoke(a)  BY <1>1, <2>1 DEF Invoke
  <2>2. CASE LeaseInput(a)  BY <1>1, <2>2 DEF LeaseInput, Request
  <2> QED  BY <2>1, <2>2
<1>5. TypeOK'  BY <1>1, <1>2, <1>3, <1>4 DEF TypeOK
<1>6. \A b \in Attempts : InputRight(b)'
  BY <1>2, <1>3, <1>4 DEF IInv, InputRight, Queues, Alive, Has, At, InProgress
<1>7. InProgress(pub) => pub.attempt \in Attempts
  BY DEF IInv, RowRight, InProgress
<1>8. PressHeld'
  BY <1>2, <1>3, <1>4, <1>7 DEF IInv, RowRight, PressHeld, Has, At, InProgress, Working
<1>9. \A b \in Attempts : \/ job'[b] = job[b]
                          \/ /\ ~At(b, Working)' /\ ~At(b, Working) /\ ~At(b, {"lapsed"})'
                             /\ ~At(b, {"published"})
  BY <1>3 DEF At, Working
<1> QED  BY <1>2, <1>4, <1>5, <1>6, <1>8, <1>9, RequestFrame

LEMMA WaitStep ==
    ASSUME IInv, NEW a \in Attempts, WaitForTurn(a) \/ FailInput(a) \/ FinishInput(a)
    PROVE  IInv'
<1> USE DEF pub, Unavailable
<1>1. TypeOK /\ input \in [Attempts -> Request] /\ job \in [Attempts -> Job]
  BY Types DEF IInv
<1>2. UNCHANGED <<db, reviewed, follower, github, troubles>>
  BY DEF WaitForTurn, FailInput, FinishInput
<1>3. /\ job' \in [Attempts -> Job] /\ job[a].phase \in {"leased", "failing", "ended"}
      /\ job'[a].phase = "idle"
      /\ \A b \in Attempts \ {a} : job'[b] = job[b]
  <2>1. CASE WaitForTurn(a) \/ FinishInput(a)
    <3>1. (Goes(a, {"leased"}, "idle") \/ Goes(a, {"ended"}, "idle")) /\ "idle" \in Phases
      BY <2>1 DEF WaitForTurn, FinishInput, Phases
    <3> QED  BY <1>1, <3>1, GoesFacts
  <2>2. CASE FailInput(a)
    <3>1. NoJob("idle") \in Job /\ NoJob("idle").phase = "idle"
      BY QuitType DEF NoJob, Phases
    <3> QED  BY <1>1, <2>2, <3>1 DEF FailInput, At
  <2> QED  BY <2>1, <2>2
<1>4. /\ input' \in [Attempts -> Request]
      /\ \A b \in Attempts : /\ input'[b].kind = input[b].kind /\ input'[b].bound = input[b].bound
                             /\ b # a => input'[b] = input[b]
      /\ \/ Has(a, "handoff")
         \/ job[a].phase = "ended"
         \/ /\ job[a].phase = "failing"
            /\ ~job[a].terminal /\ ~Exhausted(input[a].failures + 1) => input'[a].state = "retry"
  <2>1. CASE WaitForTurn(a)  BY <1>1, <2>1 DEF WaitForTurn, Request
  <2>2. CASE FinishInput(a)  BY <1>1, <2>2 DEF FinishInput, Goes, At, Request
  <2>3. CASE FailInput(a)
    <3> DEFINE terminal == job[a].terminal \/ Exhausted(input[a].failures + 1)
               state == IF terminal THEN "failed" ELSE "retry"
    <3>1. input' = [input EXCEPT ![a].state = state, ![a].failures = input[a].failures + 1]
      BY <2>3 DEF FailInput
    <3>2. state \in {"failed", "retry"} /\ (~terminal => state = "retry")  OBVIOUS
    <3>3. input[a].failures + 1 \in Nat  BY <1>1 DEF Request
    <3>4. job[a].phase = "failing"  BY <2>3 DEF FailInput, At
    <3> HIDE DEF state
    <3>5. /\ input' \in [Attempts -> Request] /\ input'[a].state = state
          /\ \A b \in Attempts : /\ input'[b].kind = input[b].kind /\ input'[b].bound = input[b].bound
                                 /\ b # a => input'[b] = input[b]
      BY <1>1, <3>1, <3>2, <3>3 DEF Request
    <3> QED  BY <3>2, <3>4, <3>5
  <2> QED  BY <2>1, <2>2, <2>3
<1>5. TypeOK'  BY <1>1, <1>2, <1>3, <1>4 DEF TypeOK
<1>6. \A b \in Attempts : InputRight(b)'
  BY <1>2, <1>3, <1>4 DEF IInv, InputRight, Queues, Alive, Has, At, InProgress
<1>7. InProgress(pub) => pub.attempt \in Attempts
  BY DEF IInv, RowRight, InProgress
<1>8. PressHeld'
  <2> SUFFICES ASSUME InProgress(pub), Has(pub.attempt, "press")
               PROVE  \/ At(pub.attempt, Working)'
                      \/ pub.state = "retrying" /\ input'[pub.attempt].state \in {"retry", "processing"}
    BY <1>2, <1>4, <1>7 DEF PressHeld, Has, InProgress
  <2>1. CASE pub.attempt # a
    BY <1>2, <1>3, <1>4, <1>7, <2>1 DEF IInv, RowRight, PressHeld, At
  <2>2. CASE pub.attempt = a
    <3>1. pub.state = "retrying"
      BY <1>3, <2>2 DEF IInv, RowRight, PressHeld, At, Working
    <3>2. InputRight(a)  BY DEF IInv
    <3>3. input'[a].state = "retry"
      BY <1>3, <1>4, <2>2, <3>2 DEF InputRight, Has, At
    <3> QED  BY <2>2, <3>1, <3>3
  <2> QED  BY <2>1, <2>2
<1>9. \A b \in Attempts : \/ job'[b] = job[b]
                          \/ /\ ~At(b, Working)' /\ ~At(b, Working) /\ ~At(b, {"lapsed"})'
                             /\ ~At(b, {"published"})
  BY <1>3 DEF At, Working
<1> QED  BY <1>2, <1>4, <1>5, <1>6, <1>8, <1>9, RequestFrame

LEMMA FinishTurnStep ==
    ASSUME IInv, FinishTurn
    PROVE  IInv'
<1> USE DEF pub, Unavailable
<1>1. TypeOK /\ input \in [Attempts -> Request] /\ db \in Database  BY Types DEF IInv
<1>2. UNCHANGED <<job, reviewed, follower, github, troubles>>  BY DEF FinishTurn
<1>3. /\ db' \in Database /\ db'.pub = db.pub /\ db'.followup = db.followup
      /\ db'.workflow = db.workflow /\ db'.closed = db.closed
  <2>1. db' = [db EXCEPT !.turn = "none", !.active = FALSE, !.latest = db.tree]  BY DEF FinishTurn
  <2> QED  BY <1>1, <2>1 DEF Database
<1>4. /\ input' \in [Attempts -> Request]
      /\ \A b \in Attempts : /\ input'[b].kind = input[b].kind /\ input'[b].bound = input[b].bound
                             /\ input'[b].failures = input[b].failures
                             /\ \/ input'[b].state = input[b].state
                                \/ input[b].state = "absent"
  <2>1. \A b \in Attempts : [input[b] EXCEPT !.state = "pending"] \in Request
    BY <1>1, InputWrites
  <2>2. \A b \in Attempts :
          \/ input'[b] = input[b]
          \/ input[b].state = "absent" /\ input'[b] = [input[b] EXCEPT !.state = "pending"]
    BY <1>1 DEF FinishTurn
  <2>3. input' \in [Attempts -> Request]  BY <1>1, <2>1 DEF FinishTurn
  <2>4. \A b \in Attempts : LET new == [input[b] EXCEPT !.state = "pending"] IN
          new.kind = input[b].kind /\ new.bound = input[b].bound /\ new.failures = input[b].failures
    BY <1>1, InputWrites
  <2> QED  BY <2>2, <2>3, <2>4
<1>5. TypeOK'  BY <1>1, <1>2, <1>3, <1>4 DEF TypeOK
<1>6. \A b \in Attempts : InputRight(b)'
  BY <1>2, <1>3, <1>4 DEF IInv, InputRight, Queues, Alive, Has, At, InProgress
<1>7. InProgress(pub) => pub.attempt \in Attempts
  BY DEF IInv, RowRight, InProgress
<1>8. PressHeld'
  BY <1>2, <1>3, <1>4, <1>7 DEF IInv, RowRight, PressHeld, Has, At, InProgress
<1> QED  BY <1>2, <1>3, <1>4, <1>5, <1>6, <1>8, RequestFrame
-----------------------------------------------------------------------------
(* A worker that goes on, and leaves the rows alone.                        *)
LEMMA GoesOn ==
    ASSUME IInv, TypeOK', NEW a \in Attempts, At(a, Working), At(a, Working)',
           UNCHANGED <<db, input, follower>>,
           \A b \in Attempts \ {a} : job'[b] = job[b],
           JobRight(a)'
    PROVE  IInv'
<1> USE DEF pub, Unavailable
<1>1. ASSUME NEW b \in Attempts PROVE JobRight(b)'
  <2>1. CASE b = a  BY <2>1
  <2>2. CASE b # a
    <3>1. job'[b] = job[b] /\ ~At(b, Working)  BY <2>2, WorkerAlone
    <3> QED  BY <3>1 DEF IInv, JobRight, At, Working, Examining, Publishing, Delivering, Ended
  <2> QED  BY <2>1, <2>2
<1>2. ASSUME NEW b \in Attempts PROVE InputRight(b)'
  <2>1. InputRight(b)  BY DEF IInv
  <2>2. CASE b = a
    BY <2>1, <2>2 DEF InputRight, Queues, Alive, Has, At, Working
  <2>3. CASE b # a
    BY <2>1, <2>3 DEF InputRight, Queues, Alive, Has, At
  <2> QED  BY <2>2, <2>3
<1>3. InProgress(pub) => pub.attempt \in Attempts  BY DEF IInv, RowRight, InProgress
<1>4. PressHeld'
  <2>1. CASE pub.attempt = a  BY <2>1 DEF PressHeld, At
  <2>2. CASE pub.attempt # a
    BY <1>3, <2>2 DEF IInv, RowRight, PressHeld, At, Has, InProgress
  <2> QED  BY <2>1, <2>2
<1>5. /\ Unavailable(db)' => ~InProgress(pub)
      /\ follower'.phase # "idle" => pub.state # "none"
  BY DEF IInv, RowRight
<1>6. \A b \in Attempts : /\ At(b, Working)' => At(b, Working)
                          /\ At(b, {"published"}) => At(b, {"published"})'
  BY DEF At, Working
<1> QED  BY <1>1, <1>2, <1>4, <1>5, <1>6, FrameStep

LEMMA CommitType ==
    ASSUME TypeOK, NEW a \in Attempts
    PROVE  Commit(a) \in Commits
BY ConfigAssumption, Types DEF Commit, Commits

LEMMA ReviewStep ==
    ASSUME IInv, NEW a \in Attempts, Review(a)
    PROVE  IInv'
<1> USE DEF pub, Unavailable
<1>1. TypeOK /\ reviewed \in [Attempts -> Nat] /\ job \in [Attempts -> Job] /\ db.tree \in Nat
  BY Types DEF IInv, Database
<1>2. UNCHANGED <<db, input, follower, github, troubles>>  BY DEF Review
<1>3. reviewed' \in [Attempts -> Nat]  BY <1>1 DEF Review
<1>4. /\ job' \in [Attempts -> Job] /\ job[a].phase = "reviewing" /\ job'[a].phase = "reviewed"
      /\ job'[a].hasPR = job[a].hasPR
      /\ \A b \in Attempts \ {a} : job'[b] = job[b]
  <2>1. Goes(a, {"reviewing"}, "reviewed") /\ "reviewed" \in Phases  BY DEF Review, Phases, Working
  <2> QED  BY <1>1, <2>1, GoesFacts
<1>5. TypeOK'  BY <1>1, <1>2, <1>3, <1>4 DEF TypeOK
<1>6. At(a, Working) /\ At(a, Working)'  BY <1>4 DEF At, Working
<1>7. JobRight(a)'
  BY <1>2, <1>4 DEF IInv, JobRight, At, Working, Examining, Publishing, Delivering, Holds, Ended
<1> QED  BY <1>2, <1>4, <1>5, <1>6, <1>7, GoesOn

LEMMA InspectStep ==
    ASSUME IInv, NEW a \in Attempts, Inspect(a)
    PROVE  IInv'
<1> USE DEF pub, Unavailable
<1>1. TypeOK /\ job \in [Attempts -> Job]  BY Types DEF IInv
<1>2. UNCHANGED <<db, input, reviewed, follower, github, troubles>>  BY DEF Inspect
<1> DEFINE to == IF github.branch = Commit(a) THEN "pushed" ELSE "inspected"
<1>3. to \in {"pushed", "inspected"} /\ (to = "pushed" => github.branch = Commit(a))  OBVIOUS
<1>4. Goes(a, {"publishing"}, to)  BY DEF Inspect
<1> HIDE DEF to
<1>5. /\ job' \in [Attempts -> Job] /\ job[a].phase = "publishing" /\ job'[a].phase = to
      /\ job'[a].hasPR = job[a].hasPR
      /\ \A b \in Attempts \ {a} : job'[b] = job[b]
  <2>1. to \in Phases  BY <1>3 DEF Phases, Working
  <2> QED  BY <1>1, <1>4, <2>1, GoesFacts
<1>6. TypeOK'  BY <1>1, <1>2, <1>5 DEF TypeOK
<1>7. At(a, Working) /\ At(a, Working)'  BY <1>3, <1>5 DEF At, Working
<1>8. JobRight(a)'
  <2>1. JobRight(a)  BY DEF IInv
  <2> QED
    BY <1>2, <1>3, <1>5, <2>1
    DEF JobRight, At, Working, Examining, Publishing, Delivering, Holds, Ended, Commit
<1> QED  BY <1>2, <1>5, <1>6, <1>7, <1>8, GoesOn

LEMMA PushStep ==
    ASSUME IInv, NEW a \in Attempts, Push(a)
    PROVE  IInv'
<1> USE DEF pub, Unavailable
<1>1. /\ TypeOK /\ job \in [Attempts -> Job]
      /\ github \in [branch : Commits, pr : {"none", "open", "ended"}, opened : Nat]
  BY Types DEF IInv
<1>2. UNCHANGED <<db, input, reviewed, follower, troubles>>  BY DEF Push
<1>3. /\ github' \in [branch : Commits, pr : {"none", "open", "ended"}, opened : Nat]
      /\ github'.branch = Commit(a)
  <2>1. Commit(a) \in Commits  BY <1>1, CommitType
  <2>2. github' = [github EXCEPT !.branch = Commit(a)]  BY DEF Push
  <2> QED  BY <1>1, <2>1, <2>2
<1>4. /\ job' \in [Attempts -> Job] /\ job[a].phase = "inspected"
      /\ job'[a].phase \in {"pushed", "lost"} /\ job'[a].hasPR = job[a].hasPR
      /\ \A b \in Attempts \ {a} : job'[b] = job[b]
  <2>1. "pushed" \in Phases /\ "lost" \in Phases  BY DEF Phases, Working
  <2>2. Goes(a, {"inspected"}, "pushed") \/ Goes(a, {"inspected"}, "lost")  BY DEF Push
  <2> QED  BY <1>1, <2>1, <2>2, GoesFacts
<1>5. TypeOK'  BY <1>1, <1>2, <1>3, <1>4 DEF TypeOK
<1>6. At(a, Working) /\ At(a, Working)'  BY <1>4 DEF At, Working
<1>7. JobRight(a)'
  <2>1. JobRight(a)  BY DEF IInv
  <2> QED
    BY <1>2, <1>3, <1>4, <2>1
    DEF JobRight, At, Working, Examining, Publishing, Delivering, Holds, Ended, Commit
<1> QED  BY <1>2, <1>4, <1>5, <1>6, <1>7, GoesOn

LEMMA OpenStep ==
    ASSUME IInv, NEW a \in Attempts, EnsureDraftPR(a)
    PROVE  IInv'
<1> USE DEF pub, Unavailable
<1>1. /\ TypeOK /\ job \in [Attempts -> Job]
      /\ github \in [branch : Commits, pr : {"none", "open", "ended"}, opened : Nat]
  BY Types DEF IInv
<1>2. UNCHANGED <<db, input, reviewed, follower, troubles>>  BY DEF EnsureDraftPR
<1>3. /\ github' \in [branch : Commits, pr : {"none", "open", "ended"}, opened : Nat]
      /\ github'.branch = github.branch
  <2>1. github.opened + 1 \in Nat  BY <1>1
  <2>2. github' = github \/ github' = [github EXCEPT !.pr = "open", !.opened = github.opened + 1]
    BY DEF EnsureDraftPR
  <2> QED  BY <1>1, <2>1, <2>2
<1>4. /\ job' \in [Attempts -> Job] /\ job[a].phase = "pushed"
      /\ job'[a].phase \in {"opened", "unopened"} /\ job'[a].hasPR = job[a].hasPR
      /\ \A b \in Attempts \ {a} : job'[b] = job[b]
  <2>1. "opened" \in Phases /\ "unopened" \in Phases  BY DEF Phases, Working
  <2>2. Goes(a, {"pushed"}, "opened") \/ Goes(a, {"pushed"}, "unopened")  BY DEF EnsureDraftPR
  <2> QED  BY <1>1, <2>1, <2>2, GoesFacts
<1>5. TypeOK'  BY <1>1, <1>2, <1>3, <1>4 DEF TypeOK
<1>6. At(a, Working) /\ At(a, Working)'  BY <1>4 DEF At, Working
<1>7. JobRight(a)'
  <2>1. JobRight(a)  BY DEF IInv
  <2> QED
    BY <1>2, <1>3, <1>4, <2>1
    DEF JobRight, At, Working, Examining, Publishing, Delivering, Holds, Ended, Commit
<1> QED  BY <1>2, <1>4, <1>5, <1>6, <1>7, GoesOn
-----------------------------------------------------------------------------
(* A worker that comes to its end and leaves the rows alone: the work that   *)
(* is in progress, if any, is not its own, or no press asked for it.         *)
LEMMA LeavesRow ==
    ASSUME IInv, TypeOK', NEW a \in Attempts, Alive(a), ~At(a, {"published"}),
           UNCHANGED <<db, input, reviewed, follower, github>>,
           \A b \in Attempts \ {a} : job'[b] = job[b],
           At(a, {"ended", "failing", "over", "lapsed"})',
           At(a, {"lapsed"})' => Ended(db),
           ~InProgress(pub) \/ pub.attempt # a \/ ~Has(a, "press")
    PROVE  IInv'
<1> USE DEF pub, Unavailable
<1>1. ASSUME NEW b \in Attempts PROVE JobRight(b)'
  <2>1. CASE b = a
    BY <2>1 DEF JobRight, At, Working, Examining, Publishing, Delivering, Ended
  <2>2. CASE b # a
    <3>1. job'[b] = job[b] /\ JobRight(b)  BY <2>2 DEF IInv
    <3> QED  BY <3>1 DEF JobRight, Holds, At, Commit, Ended
  <2> QED  BY <2>1, <2>2
<1>2. ASSUME NEW b \in Attempts PROVE InputRight(b)'
  <2>1. InputRight(b)  BY DEF IInv
  <2>2. CASE b = a  BY <2>1, <2>2 DEF InputRight, Queues, Alive, Has, At, InProgress
  <2>3. CASE b # a  BY <2>1, <2>3 DEF InputRight, Queues, Alive, Has, At, InProgress
  <2> QED  BY <2>2, <2>3
<1>3. InProgress(pub) => pub.attempt \in Attempts  BY DEF IInv, RowRight, InProgress
<1>4. PressHeld'  BY <1>3 DEF IInv, RowRight, PressHeld, At, Has, InProgress
<1>5. /\ Unavailable(db)' => ~InProgress(pub)
      /\ follower'.phase # "idle" => pub.state # "none"
  BY DEF IInv, RowRight
<1>6. \A b \in Attempts : /\ At(b, Working)' => At(b, Working)
                          /\ At(b, {"published"}) => At(b, {"published"})'
  BY DEF At, Working
<1> QED  BY <1>1, <1>2, <1>4, <1>5, <1>6, FrameStep

(* A worker that comes to its end and records that on its own row; what it   *)
(* leaves to be retried is a press's, and is retried.                        *)
LEMMA GivesUp ==
    ASSUME IInv, TypeOK', NEW a \in Attempts, Alive(a),
           UNCHANGED <<input, reviewed, follower, github>>,
           \A b \in Attempts \ {a} : job'[b] = job[b],
           At(a, {"ended", "failing", "over"})',
           pub.attempt = a, ~Ended(db), pub.state # "none",
           SameTask(db', db), db'.pub.attempt = a, db'.pub.hasPR = pub.hasPR,
           \/ db'.pub.state = "failed"
           \/ /\ db'.pub.state = "retrying" /\ InProgress(pub)
              /\ Queues(a) /\ At(a, {"failing"})'
              /\ ~job'[a].terminal /\ ~Exhausted(input[a].failures + 1)
    PROVE  IInv'
<1> USE DEF pub, Unavailable
<1>1. ASSUME NEW b \in Attempts PROVE JobRight(b)'
  <2>1. CASE b = a
    BY <2>1 DEF JobRight, At, Working, Examining, Publishing, Delivering, Ended
  <2>2. CASE b # a
    <3>1. job'[b] = job[b] /\ JobRight(b)  BY <2>2 DEF IInv
    <3>2. ~At(b, Examining) /\ ~At(b, Publishing) /\ ~At(b, {"lapsed"})
      BY <2>2, <3>1 DEF JobRight, Holds
    <3> QED
      BY <3>1, <3>2 DEF JobRight, At, Working, Examining, Publishing, Delivering
  <2> QED  BY <2>1, <2>2
<1>2. ASSUME NEW b \in Attempts PROVE InputRight(b)'
  <2>1. InputRight(b)  BY DEF IInv
  <2>2. CASE b = a  BY <2>1, <2>2 DEF InputRight, Queues, Alive, Has, At, InProgress
  <2>3. CASE b # a  BY <2>1, <2>3 DEF InputRight, Queues, Alive, Has, At, InProgress
  <2> QED  BY <2>2, <2>3
<1>3. PressHeld'
  <2>1. CASE db'.pub.state = "failed"  BY <2>1 DEF PressHeld, InProgress
  <2>2. CASE db'.pub.state # "failed"
    <3>1. input[a].state = "processing"  BY <2>2 DEF IInv, InputRight
    <3> QED  BY <2>2, <3>1 DEF PressHeld
  <2> QED  BY <2>1, <2>2
<1>4. db'.followup = db.followup /\ db'.workflow = db.workflow /\ db'.closed = db.closed  BY DEF SameTask
<1>5. /\ TerminalKept' /\ ReceiptTruthful' /\ PublishedFollowed'
  BY <1>4 DEF TerminalKept, ReceiptTruthful, PublishedFollowed, Ended
<1>6. OneAttempt'  BY DEF IInv, RowRight, OneAttempt, At, Working
<1>7. Unavailable(db)' => ~InProgress(db'.pub)
  BY <1>4 DEF IInv, RowRight, InProgress
<1> QED
  BY <1>1, <1>2, <1>3, <1>5, <1>6, <1>7 DEF IInv, RowRight

(* A receipt made stale.                                                     *)
LEMMA StaleStep ==
    ASSUME IInv, TypeOK', UNCHANGED <<input, job, reviewed, github>>,
           db'.followup = db.followup, db'.workflow = db.workflow /\ db'.closed = db.closed,
           follower'.phase # "idle" => pub.state # "none",
           Kept(db'.pub, pub), pub.state \in {"published", "failed"}, ~Ended(db),
           db'.pub.state = "stale"
    PROVE  IInv'
<1> USE DEF pub, Unavailable
<1>1. \A b \in Attempts : JobRight(b)'
  BY DEF IInv, JobRight, Holds, At, Commit, Ended, Kept, Working, Examining, Publishing
<1>2. \A b \in Attempts : InputRight(b)'
  BY DEF IInv, InputRight, Queues, Alive, Has, At, InProgress, Kept
<1>3. /\ PressHeld' /\ TerminalKept' /\ ReceiptTruthful' /\ PublishedFollowed'
  BY DEF PressHeld, TerminalKept, ReceiptTruthful, PublishedFollowed, Ended, InProgress
<1>4. OneAttempt'  BY DEF IInv, RowRight, OneAttempt, At
<1> QED  BY <1>1, <1>2, <1>3, <1>4 DEF IInv, RowRight, InProgress, Kept
-----------------------------------------------------------------------------
LEMMA OutdatedStep ==
    ASSUME IInv, NEW a \in Attempts, Outdated(a)
    PROVE  IInv'
<1> USE DEF pub, Unavailable
<1>1. TypeOK /\ job \in [Attempts -> Job]  BY Types DEF IInv
<1>2. UNCHANGED <<db, input, reviewed, follower, github, troubles>>  BY DEF Outdated
<1>3. /\ job' \in [Attempts -> Job] /\ job[a].phase = "leased" /\ job'[a].phase = "ended"
      /\ \A b \in Attempts \ {a} : job'[b] = job[b]
  <2>1. Goes(a, {"leased"}, "ended") /\ "ended" \in Phases  BY DEF Outdated, Phases
  <2> QED  BY <1>1, <2>1, GoesFacts
<1>4. TypeOK'  BY <1>1, <1>2, <1>3 DEF TypeOK
<1>5. ~InProgress(pub) \/ pub.attempt # a \/ ~Has(a, "press")
  BY DEF Outdated, Current, Has, IInv, RowRight, InputRight
<1>6. /\ Alive(a) /\ ~At(a, {"published"})
      /\ At(a, {"ended", "failing", "over", "lapsed"})' /\ ~At(a, {"lapsed"})'
  BY <1>3 DEF Alive, At
<1> QED  BY <1>2, <1>3, <1>4, <1>5, <1>6, LeavesRow

LEMMA RefuseStep ==
    ASSUME IInv, NEW a \in Attempts, Refuse(a)
    PROVE  IInv'
<1> USE DEF pub, Unavailable
<1>1. TypeOK /\ job \in [Attempts -> Job] /\ db \in Database  BY Types DEF IInv
<1>2. UNCHANGED <<input, reviewed, follower, github, troubles>>  BY DEF Refuse
<1>3. /\ job' \in [Attempts -> Job] /\ job[a].phase = "leased"
      /\ job'[a].phase \in {"ended", "failing", "over"}
      /\ \A b \in Attempts \ {a} : job'[b] = job[b]
  <2>1. Told(a, {"leased"})  BY DEF Refuse
  <2> QED  BY <1>1, <2>1, ToldFacts
<1>4. /\ Alive(a) /\ ~At(a, {"published"}) /\ At(a, {"ended", "failing", "over"})'
      /\ At(a, {"ended", "failing", "over", "lapsed"})' /\ ~At(a, {"lapsed"})'
      /\ ~At(a, Working)
  BY <1>3 DEF Alive, At, Working
<1>5. ASSUME InProgress(pub), pub.attempt = a, Has(a, "press")
      PROVE  /\ pub.state = "retrying" /\ ~Ended(db) /\ ~Unavailable(db) /\ input[a].bound
             /\ Claimable(a) /\ Saves(db, a, "failed")
  <2>1. pub.state = "retrying" /\ ~Unavailable(db) /\ input[a].bound
    BY <1>4, <1>5 DEF IInv, RowRight, PressHeld, InputRight
  <2>2. ~Ended(db)  BY <2>1 DEF IInv, RowRight, TerminalKept
  <2> QED  BY <1>5, <2>1, <2>2 DEF Claimable, Saves
<1>6. CASE db' = db
  <2>1. TypeOK'  BY <1>1, <1>2, <1>3, <1>6 DEF TypeOK
  <2>2. ~InProgress(pub) \/ pub.attempt # a \/ ~Has(a, "press")
    <3> SUFFICES ASSUME InProgress(pub), pub.attempt = a, Has(a, "press") PROVE FALSE
      OBVIOUS
    <3>1. pub.state = "retrying" /\ ~Ended(db) /\ Claimable(a) /\ Saves(db, a, "failed")
      BY <1>5
    <3>2. db' = Save(db, a, [pub EXCEPT !.state = "failed"])  BY <3>1 DEF Refuse
    <3>3. db'.pub.state = "failed"
      BY <1>1, <3>1, <3>2, SaveFacts DEF PublicationState
    <3> QED  BY <1>6, <3>1, <3>3
  <2> QED  BY <1>2, <1>3, <1>4, <1>6, <2>1, <2>2, LeavesRow
<1>7. CASE db' # db
  <2>1. pub.state = "retrying" /\ db' = Save(db, a, [pub EXCEPT !.state = "failed"])
    BY <1>7 DEF Refuse
  <2>2. /\ db' \in Database /\ SameTask(db', db) /\ Kept(db'.pub, pub)
        /\ Saves(db, a, "failed") /\ db'.pub.state = "failed"
    BY <1>1, <1>7, <2>1, SaveFacts DEF PublicationState
  <2>3. TypeOK'  BY <1>1, <1>2, <1>3, <2>2 DEF TypeOK
  <2> QED  BY <1>2, <1>3, <1>4, <2>1, <2>2, <2>3, GivesUp DEF Saves, Kept
<1> QED  BY <1>6, <1>7
-----------------------------------------------------------------------------
(* The request claims the publication: nobody else has it, and the rows of   *)
(* the requests that are done with this one belong to no worker.            *)
LEMMA CoalescedFacts ==
    ASSUME input \in [Attempts -> Request], NEW a \in Attempts
    PROVE  /\ Coalesced(a) \in [Attempts -> Request]
           /\ \A b \in Attempts :
                /\ Coalesced(a)[b].kind = input[b].kind /\ Coalesced(a)[b].bound = input[b].bound
                /\ Coalesced(a)[b].failures = input[b].failures
                /\ input[b].state \notin {"pending", "retry"} => Coalesced(a)[b] = input[b]
           /\ Coalesced(a)[a] = input[a]
<1>1. \A b \in Attempts : LET new == [input[b] EXCEPT !.state = "done"]
        IN new \in Request /\ new.kind = input[b].kind /\ new.bound = input[b].bound
           /\ new.failures = input[b].failures
  BY InputWrites
<1>2. \A b \in Attempts : \/ Coalesced(a)[b] = input[b]
                          \/ /\ Coalesced(a)[b] = [input[b] EXCEPT !.state = "done"]
                             /\ input[b].state \in {"pending", "retry"} /\ b # a
  BY DEF Coalesced
<1>3. Coalesced(a) \in [Attempts -> Request]
  BY <1>1 DEF Coalesced
<1> QED  BY <1>1, <1>2, <1>3

LEMMA BindFacts ==
    ASSUME NEW c \in [Attempts -> Request], NEW a \in Attempts
    PROVE  LET new == [c EXCEPT ![a].bound = TRUE]
           IN /\ new \in [Attempts -> Request] /\ new[a].bound
              /\ new[a].kind = c[a].kind /\ new[a].state = c[a].state
              /\ \A b \in Attempts \ {a} : new[b] = c[b]
BY DEF Request

LEMMA ReviewBegins ==
    ASSUME IInv, NEW a \in Attempts, BeginReview(a)
    PROVE  IInv'
<1> USE DEF pub, Unavailable
<1>1. /\ TypeOK /\ job \in [Attempts -> Job] /\ db \in Database /\ pub \in Publication
      /\ input \in [Attempts -> Request]
  BY Types DEF IInv
<1>2. UNCHANGED <<reviewed, follower, github, troubles>>  BY DEF BeginReview
<1>3. Claimable(a) /\ ~Ended(db) /\ ~Unavailable(db) /\ job[a].phase = "leased"
  BY DEF BeginReview, Claimable, At
<1>4. /\ db' \in Database /\ db'.pub.state = "reviewing" /\ db'.pub.attempt = a
      /\ db'.pub.hasPR = pub.hasPR /\ SameTask(db', db)
  <2> DEFINE row == [pub EXCEPT !.state = "reviewing", !.attempt = a, !.generation = pub.generation + 1]
  <2>1. pub.generation + 1 \in Nat  BY <1>1 DEF Publication
  <2>2. row \in Publication /\ row.state = "reviewing" /\ row.attempt = a /\ row.hasPR = pub.hasPR
    <3> HIDE DEF pub
    <3> QED  BY <1>1, <2>1 DEF Publication, PublicationState
  <2>3. db' = Put(db, row)  BY DEF BeginReview
  <2> HIDE DEF row
  <2> QED  BY <1>1, <2>2, <2>3, PutFacts DEF Kept
<1>5. /\ input' \in [Attempts -> Request]
      /\ \A b \in Attempts :
           /\ input'[b].kind = input[b].kind
           /\ input[b].state = "processing" => input'[b].state = "processing"
      /\ Has(a, "press") => input'[a].bound
  <2>1. CASE Has(a, "press")
    <3> DEFINE c == Coalesced(a)
    <3>1. /\ c \in [Attempts -> Request] /\ c[a] = input[a]
          /\ \A b \in Attempts :
               /\ c[b].kind = input[b].kind
               /\ input[b].state \notin {"pending", "retry"} => c[b] = input[b]
      BY <1>1, CoalescedFacts
    <3>2. input' = [c EXCEPT ![a].bound = TRUE]  BY <2>1 DEF BeginReview
    <3> HIDE DEF c
    <3>3. /\ input' \in [Attempts -> Request] /\ input'[a].bound
          /\ input'[a].kind = c[a].kind /\ input'[a].state = c[a].state
          /\ \A b \in Attempts \ {a} : input'[b] = c[b]
      BY <3>1, <3>2, BindFacts
    <3> QED  BY <3>1, <3>3
  <2>2. CASE ~Has(a, "press")  BY <1>1, <2>2 DEF BeginReview
  <2> QED  BY <2>1, <2>2
<1>6. /\ job' \in [Attempts -> Job] /\ job'[a].phase = "reviewing" /\ job'[a].hasPR = pub.hasPR
      /\ \A b \in Attempts \ {a} : job'[b] = job[b]
  <2> DEFINE new == [phase |-> "reviewing", hasPR |-> pub.hasPR, remote |-> pub.remote,
                     terminal |-> FALSE]
  <2>1. new \in Job /\ new.phase = "reviewing" /\ new.hasPR = pub.hasPR
    BY <1>1 DEF Publication, Job, Working
  <2>2. job' = [job EXCEPT ![a] = new]  BY DEF BeginReview
  <2> HIDE DEF new
  <2> QED  BY <1>1, <2>1, <2>2
<1>7. TypeOK'  BY <1>1, <1>2, <1>4, <1>5, <1>6 DEF TypeOK
<1>8. \A b \in Attempts : ~At(b, Working)
  <2>1. ASSUME NEW b \in Attempts, At(b, Working) PROVE FALSE
    <3>1. pub.state \in {"reviewing", "publishing"}  BY <1>3, <2>1, WorkerAlone
    <3> QED  BY <1>3, <3>1 DEF Claimable, InProgress
  <2> QED  BY <2>1
<1>9. db'.followup = db.followup /\ ~Unavailable(db)' /\ ~Ended(db)'
  BY <1>3, <1>4 DEF SameTask, Ended
<1>10. ASSUME NEW b \in Attempts PROVE JobRight(b)'
  <2>1. CASE b = a
    BY <1>4, <1>6, <2>1 DEF JobRight, Holds, At, Working, Examining, Publishing, Delivering
  <2>2. CASE b # a
    <3>1. job'[b] = job[b] /\ ~At(b, Working) /\ ~At(b, {"lapsed"})
      BY <1>3, <1>6, <1>8, <2>2 DEF IInv, JobRight
    <3> QED  BY <3>1 DEF JobRight, At, Working, Examining, Publishing, Delivering
  <2> QED  BY <2>1, <2>2
<1>11. ASSUME NEW b \in Attempts PROVE InputRight(b)'
  <2>1. InputRight(b)  BY DEF IInv
  <2>2. CASE b = a
    BY <1>3, <1>5, <1>6, <2>1, <2>2 DEF InputRight, Queues, Alive, Has, At
  <2>3. CASE b # a
    BY <1>4, <1>5, <1>6, <2>1, <2>3 DEF InputRight, Queues, Alive, Has, At
  <2> QED  BY <2>2, <2>3
<1>12. PressHeld'  BY <1>4, <1>6 DEF PressHeld, At, Working
<1>13. /\ TerminalKept' /\ ReceiptTruthful' /\ PublishedFollowed'
  BY <1>4, <1>9 DEF TerminalKept, ReceiptTruthful, PublishedFollowed
<1>14. OneAttempt'  BY <1>6, <1>8 DEF OneAttempt, At
<1> QED
  BY <1>2, <1>4, <1>7, <1>9, <1>10, <1>11, <1>12, <1>13, <1>14 DEF IInv, RowRight

LEMMA UnpublishableStep ==
    ASSUME IInv, NEW a \in Attempts, Unpublishable(a)
    PROVE  IInv'
<1> USE DEF pub, Unavailable
<1>1. TypeOK /\ job \in [Attempts -> Job] /\ db \in Database  BY Types DEF IInv
<1>2. UNCHANGED <<input, reviewed, follower, github, troubles>>  BY DEF Unpublishable
<1>3. /\ job' \in [Attempts -> Job] /\ job[a].phase \in {"reviewing", "reviewed"}
      /\ job'[a].phase \in {"ended", "failing", "over"}
      /\ \A b \in Attempts \ {a} : job'[b] = job[b]
  <2>1. Told(a, {"reviewing", "reviewed"})  BY DEF Unpublishable
  <2> QED  BY <1>1, <2>1, ToldFacts
<1>4. /\ db' \in Database /\ SameTask(db', db) /\ Kept(db'.pub, pub)
      /\ Saves(db, a, "failed") /\ db'.pub.state = "failed"
  <2>1. db' = Save(db, a, [pub EXCEPT !.state = "failed"]) /\ db' # db  BY DEF Unpublishable
  <2> QED  BY <1>1, <2>1, SaveFacts DEF PublicationState
<1>5. TypeOK'  BY <1>1, <1>2, <1>3, <1>4 DEF TypeOK
<1>6. /\ Alive(a) /\ At(a, {"ended", "failing", "over"})'
      /\ pub.attempt = a /\ ~Ended(db) /\ pub.state # "none"
  BY <1>3, <1>4 DEF Alive, At, Saves
<1> QED  BY <1>2, <1>3, <1>4, <1>5, <1>6, GivesUp DEF Kept

LEMMA PublishingBegins ==
    ASSUME IInv, NEW a \in Attempts, BeginPublishing(a)
    PROVE  IInv'
<1> USE DEF pub, Unavailable
<1>1. TypeOK /\ job \in [Attempts -> Job] /\ db \in Database /\ pub \in Publication
  BY Types DEF IInv
<1>2. UNCHANGED <<input, reviewed, follower, github, troubles>>  BY DEF BeginPublishing
<1>3. At(a, Working) /\ At(a, Examining) /\ job[a].phase = "reviewed"
  BY DEF BeginPublishing, At, Working, Examining
<1>4. CASE pub.attempt = a /\ pub.state = "reviewing" /\ ~Ended(db)
  <2>1. /\ job' \in [Attempts -> Job] /\ job'[a].phase = "publishing"
        /\ job'[a].hasPR = job[a].hasPR
        /\ \A b \in Attempts \ {a} : job'[b] = job[b]
    <3>1. Goes(a, {"reviewed"}, "publishing") /\ "publishing" \in Phases
      BY <1>4 DEF BeginPublishing, Phases, Working
    <3> QED  BY <1>1, <3>1, GoesFacts
  <2>2. /\ db' \in Database /\ SameTask(db', db) /\ Kept(db'.pub, pub)
        /\ db'.pub.state = "publishing"
    <3>1. db' = Put(db, [pub EXCEPT !.state = "publishing"]) /\ "publishing" \in PublicationState
      BY <1>4 DEF BeginPublishing, PublicationState
    <3> QED  BY <1>1, <3>1, StatePut
  <2>3. TypeOK'  BY <1>1, <1>2, <2>1, <2>2 DEF TypeOK
  <2>4. /\ db'.followup = db.followup /\ db'.workflow = db.workflow /\ db'.closed = db.closed /\ ~Ended(db)'
        /\ db'.pub.attempt = a /\ db'.pub.hasPR = pub.hasPR
    BY <1>4, <2>2 DEF SameTask, Ended, Kept
  <2>5. \A b \in Attempts \ {a} : job'[b] = job[b] /\ ~At(b, Working)
    BY <1>3, <2>1, WorkerAlone
  <2>6. ASSUME NEW b \in Attempts PROVE JobRight(b)'
    <3>1. JobRight(b)  BY DEF IInv
    <3>2. CASE b = a
      BY <1>3, <2>1, <2>2, <2>4, <3>1, <3>2
      DEF JobRight, Holds, At, Working, Examining, Publishing, Delivering
    <3>3. CASE b # a
      BY <1>4, <2>5, <3>1, <3>3 DEF JobRight, At, Working, Examining, Publishing, Delivering
    <3> QED  BY <3>2, <3>3
  <2>7. ASSUME NEW b \in Attempts PROVE InputRight(b)'
    <3>1. InputRight(b)  BY DEF IInv
    <3>2. CASE b = a
      BY <1>2, <1>3, <1>4, <2>1, <3>1, <3>2 DEF InputRight, Queues, Alive, Has, At
    <3>3. CASE b # a
      BY <1>2, <1>4, <2>1, <2>4, <3>1, <3>3 DEF InputRight, Queues, Alive, Has, At
    <3> QED  BY <3>2, <3>3
  <2>8. PressHeld'  BY <2>1, <2>4 DEF PressHeld, At, Working
  <2>9. /\ TerminalKept' /\ ReceiptTruthful' /\ PublishedFollowed'
    BY <2>2, <2>4 DEF TerminalKept, ReceiptTruthful, PublishedFollowed
  <2>10. OneAttempt'  BY <2>1, <2>5 DEF OneAttempt, At
  <2>11. ~Unavailable(db)' /\ (follower'.phase # "idle" => db'.pub.state # "none")
    BY <1>4, <2>2, <2>4 DEF IInv, RowRight, InProgress
  <2> QED
    BY <2>3, <2>4, <2>6, <2>7, <2>8, <2>9, <2>10, <2>11 DEF IInv, RowRight
<1>5. CASE ~(pub.attempt = a /\ pub.state = "reviewing" /\ ~Ended(db))
  <2>1. /\ job' \in [Attempts -> Job] /\ job'[a].phase \in {"ended", "failing", "over"}
        /\ \A b \in Attempts \ {a} : job'[b] = job[b]
    <3>1. Told(a, {"reviewed"})  BY <1>5 DEF BeginPublishing
    <3> QED  BY <1>1, <3>1, ToldFacts
  <2>2. Ended(db) /\ pub.state = "published"
    BY <1>3, <1>5 DEF IInv, JobRight, Holds, RowRight, TerminalKept
  <2>3. UNCHANGED <<db, input, reviewed, follower, github>>
    BY <1>2, <1>5, <2>2 DEF BeginPublishing
  <2>4. TypeOK'  BY <1>1, <1>2, <2>1, <2>3 DEF TypeOK
  <2>5. /\ Alive(a) /\ ~At(a, {"published"}) /\ ~InProgress(pub)
        /\ At(a, {"ended", "failing", "over", "lapsed"})' /\ ~At(a, {"lapsed"})'
    BY <1>3, <2>1, <2>2 DEF Alive, At, InProgress
  <2> QED  BY <2>1, <2>3, <2>4, <2>5, LeavesRow
<1> QED  BY <1>4, <1>5

LEMMA PublishFailsStep ==
    ASSUME IInv, NEW a \in Attempts, PublishFails(a)
    PROVE  IInv'
<1> USE DEF pub, Unavailable
<1> DEFINE from == {"publishing", "inspected", "pushed", "lost", "unopened"}
<1>1. TypeOK /\ job \in [Attempts -> Job] /\ db \in Database /\ pub \in Publication
  BY Types DEF IInv
<1>2. UNCHANGED <<input, reviewed, follower, github, troubles>>  BY DEF PublishFails
<1>3. CASE Saves(db, a, "failed")
  <2>1. /\ job' \in [Attempts -> Job] /\ job[a].phase \in from
        /\ job'[a].phase \in {"ended", "failing", "over"}
        /\ \A b \in Attempts \ {a} : job'[b] = job[b]
    <3>1. Told(a, from)  BY <1>3 DEF PublishFails
    <3> QED  BY <1>1, <3>1, ToldFacts
  <2>2. /\ db' \in Database /\ SameTask(db', db)
        /\ db'.pub.attempt = pub.attempt /\ db'.pub.hasPR = pub.hasPR /\ db'.pub.state = "failed"
    <3> DEFINE row == [pub EXCEPT !.state = "failed", !.remote = Remote(a)]
    <3>1. Remote(a) \in Commits  BY <1>1, CommitType DEF Remote, Publication
    <3>2. row \in Publication /\ row.state = "failed" /\ row.attempt = pub.attempt /\ row.hasPR = pub.hasPR
      <4> HIDE DEF pub
      <4> QED  BY <1>1, <3>1 DEF Publication, PublicationState
    <3>3. db' = Put(db, row)  BY <1>3 DEF PublishFails
    <3> HIDE DEF row
    <3> QED  BY <1>1, <3>2, <3>3, PutFacts DEF Kept
  <2>3. TypeOK'  BY <1>1, <1>2, <2>1, <2>2 DEF TypeOK
  <2>4. /\ Alive(a) /\ At(a, {"ended", "failing", "over"})'
        /\ pub.attempt = a /\ ~Ended(db) /\ pub.state # "none"
    BY <1>3, <2>1 DEF Alive, At, Saves
  <2> QED  BY <1>2, <2>1, <2>2, <2>3, <2>4, GivesUp
<1>4. CASE ~Saves(db, a, "failed")
  <2>1. /\ job' \in [Attempts -> Job] /\ job[a].phase \in from /\ job'[a].phase = "lapsed"
        /\ \A b \in Attempts \ {a} : job'[b] = job[b]
    <3>1. Goes(a, from, "lapsed") /\ "lapsed" \in Phases  BY <1>4 DEF PublishFails, Phases
    <3> QED  BY <1>1, <3>1, GoesFacts
  <2>2. UNCHANGED <<db, input, reviewed, follower, github>>  BY <1>2, <1>4 DEF PublishFails
  <2>3. TypeOK'  BY <1>1, <1>2, <2>1, <2>2 DEF TypeOK
  <2>4. At(a, Publishing)  BY <2>1 DEF At, Publishing
  <2>5. Ended(db) /\ pub.state = "published"
    BY <1>4, <2>4 DEF IInv, JobRight, Holds, RowRight, TerminalKept, Saves
  <2>6. /\ Alive(a) /\ ~At(a, {"published"}) /\ ~InProgress(pub)
        /\ At(a, {"ended", "failing", "over", "lapsed"})'
    BY <2>1, <2>5 DEF Alive, At, InProgress
  <2> QED  BY <2>1, <2>2, <2>3, <2>5, <2>6, LeavesRow
<1> QED  BY <1>3, <1>4

LEMMA RecordStep ==
    ASSUME IInv, NEW a \in Attempts, Record(a)
    PROVE  IInv'
<1> USE DEF pub, Unavailable
<1>1. TypeOK /\ job \in [Attempts -> Job] /\ db \in Database /\ pub \in Publication
  BY Types DEF IInv
<1>2. UNCHANGED <<input, reviewed, follower, github, troubles>>  BY DEF Record
<1>3. At(a, Publishing) /\ At(a, Working) /\ At(a, Delivering) /\ job[a].phase = "opened"
  BY DEF Record, Goes, At, Publishing, Working, Delivering
<1>4. CASE Saves(db, a, "published")
  <2>1. /\ job' \in [Attempts -> Job] /\ job'[a].phase = "published"
        /\ \A b \in Attempts \ {a} : job'[b] = job[b]
    <3>1. Goes(a, {"opened"}, "published") /\ "published" \in Phases
      BY <1>4 DEF Record, Phases
    <3> QED  BY <1>1, <3>1, GoesFacts
  <2>2. /\ db' \in Database /\ SameTask(db', db)
        /\ db'.pub.attempt = pub.attempt /\ db'.pub.remote = Commit(a) /\ db'.pub.state = "published"
    <3> DEFINE row == [pub EXCEPT !.state = "published", !.hasPR = TRUE, !.remote = Commit(a)]
    <3>1. Commit(a) \in Commits  BY <1>1, CommitType
    <3>2. /\ row \in Publication /\ row.state = "published" /\ row.attempt = pub.attempt
          /\ row.remote = Commit(a)
      <4> HIDE DEF pub
      <4> QED  BY <1>1, <3>1 DEF Publication, PublicationState
    <3>3. db' = Put(db, row)  BY <1>4 DEF Record
    <3> HIDE DEF row
    <3> QED  BY <1>1, <3>2, <3>3, PutFacts DEF Kept
  <2>3. TypeOK'  BY <1>1, <1>2, <2>1, <2>2 DEF TypeOK
  <2>4. /\ pub.attempt = a /\ ~Ended(db) /\ db'.followup = db.followup
        /\ db'.workflow = db.workflow /\ db'.closed = db.closed /\ ~Ended(db)' /\ ~InProgress(pub)'
    BY <1>4, <2>2 DEF Saves, SameTask, Ended, InProgress
  <2>5. \A b \in Attempts \ {a} : job'[b] = job[b] /\ ~At(b, Working)
    BY <1>3, <2>1, WorkerAlone
  <2>6. ASSUME NEW b \in Attempts PROVE JobRight(b)'
    <3>1. CASE b = a
      BY <2>1, <3>1 DEF JobRight, At, Working, Examining, Publishing, Delivering
    <3>2. CASE b # a
      BY <2>4, <2>5, <3>2 DEF IInv, JobRight, At, Working, Examining, Publishing, Delivering
    <3> QED  BY <3>1, <3>2
  <2>7. ASSUME NEW b \in Attempts PROVE InputRight(b)'
    <3>1. InputRight(b)  BY DEF IInv
    <3>2. CASE b = a
      BY <1>2, <1>3, <2>1, <2>2, <2>4, <3>1, <3>2 DEF InputRight, Queues, Alive, Has, At
    <3>3. CASE b # a
      BY <1>2, <2>1, <2>2, <2>4, <3>1, <3>3 DEF InputRight, Queues, Alive, Has, At
    <3> QED  BY <3>2, <3>3
  <2>8. PressHeld' /\ TerminalKept'  BY <2>2, <2>4 DEF PressHeld, TerminalKept
  <2>9. ReceiptTruthful'
    BY <1>2, <1>3, <2>2 DEF IInv, JobRight, ReceiptTruthful, Commit
  <2>10. PublishedFollowed'  BY <2>1, <2>2, <2>4 DEF PublishedFollowed, At
  <2>11. OneAttempt'  BY <2>1, <2>5 DEF OneAttempt, At, Working
  <2> QED
    BY <2>2, <2>3, <2>4, <2>6, <2>7, <2>8, <2>9, <2>10, <2>11 DEF IInv, RowRight
<1>5. CASE ~Saves(db, a, "published")
  <2>1. /\ job' \in [Attempts -> Job] /\ job'[a].phase = "lapsed"
        /\ \A b \in Attempts \ {a} : job'[b] = job[b]
    <3>1. Goes(a, {"opened"}, "lapsed") /\ "lapsed" \in Phases  BY <1>5 DEF Record, Phases
    <3> QED  BY <1>1, <3>1, GoesFacts
  <2>2. UNCHANGED <<db, input, reviewed, follower, github>>  BY <1>2, <1>5 DEF Record
  <2>3. TypeOK'  BY <1>1, <1>2, <2>1, <2>2 DEF TypeOK
  <2>4. Ended(db) /\ pub.state = "published"
    BY <1>3, <1>5 DEF IInv, JobRight, Holds, RowRight, TerminalKept, Saves
  <2>5. /\ Alive(a) /\ ~At(a, {"published"}) /\ ~InProgress(pub)
        /\ At(a, {"ended", "failing", "over", "lapsed"})'
    BY <1>3, <2>1, <2>4 DEF Alive, At, InProgress
  <2> QED  BY <2>1, <2>2, <2>3, <2>4, <2>5, LeavesRow
<1> QED  BY <1>4, <1>5

LEMMA ResetStep ==
    ASSUME IInv, NEW a \in Attempts, Reset(a)
    PROVE  IInv'
<1> USE DEF pub, Unavailable
<1>1. /\ TypeOK /\ job \in [Attempts -> Job] /\ db \in Database /\ follower \in Following
  BY Types DEF IInv
<1>2. UNCHANGED <<input, reviewed, github, troubles>>  BY DEF Reset
<1>3. /\ job' \in [Attempts -> Job] /\ job[a].phase = "published"
      /\ job'[a].phase \in {"ended", "over"}
      /\ \A b \in Attempts \ {a} : job'[b] = job[b]
  <2> DEFINE phase == IF Queues(a) THEN "ended" ELSE "over"
  <2>1. phase \in {"ended", "over"} /\ phase \in Phases  BY DEF Phases
  <2>2. job' = [job EXCEPT ![a] = NoJob(phase)] /\ job[a].phase = "published"  BY DEF Reset, At
  <2> HIDE DEF phase
  <2>3. NoJob(phase) \in Job /\ NoJob(phase).phase = phase  BY <2>1, QuitType DEF NoJob
  <2> QED  BY <1>1, <2>1, <2>2, <2>3
<1>4. /\ db' \in Database /\ db'.pub = db.pub /\ db'.workflow = db.workflow /\ db'.closed = db.closed
      /\ db'.followup # "none" /\ (Ended(db)' <=> Ended(db))
  <2> DEFINE followup == IF Ended(db) THEN db.followup ELSE "open"
  <2>1. followup \in {"open", "ended"} /\ (followup = "ended" <=> Ended(db))  BY DEF Ended
  <2>2. db' = [db EXCEPT !.latest = 0, !.followup = followup]  BY DEF Reset
  <2> HIDE DEF followup
  <2>3. db' \in Database /\ db'.pub = db.pub /\ db'.workflow = db.workflow /\ db'.closed = db.closed /\ db'.followup = followup
    BY <1>1, <2>1, <2>2 DEF Database
  <2> QED  BY <2>1, <2>3 DEF Ended
<1>5. follower' \in Following /\ follower'.phase = follower.phase
  <2>1. follower' = [follower EXCEPT !.current = FALSE]  BY DEF Reset
  <2> QED  BY <1>1, <2>1 DEF Following
<1>6. TypeOK'  BY <1>1, <1>2, <1>3, <1>4, <1>5 DEF TypeOK
<1>7. ASSUME NEW b \in Attempts PROVE JobRight(b)'
  <2>1. JobRight(b)  BY DEF IInv
  <2>2. CASE b = a
    BY <1>3, <2>2 DEF JobRight, At, Working, Examining, Publishing, Delivering
  <2>3. CASE b # a
    BY <1>2, <1>3, <1>4, <2>1, <2>3 DEF JobRight, Holds, At, Commit
  <2> QED  BY <2>2, <2>3
<1>8. ASSUME NEW b \in Attempts PROVE InputRight(b)'
  <2>1. InputRight(b)  BY DEF IInv
  <2>2. CASE b = a
    BY <1>2, <1>3, <1>4, <2>1, <2>2 DEF InputRight, Queues, Alive, Has, At, InProgress
  <2>3. CASE b # a
    BY <1>2, <1>3, <1>4, <2>1, <2>3 DEF InputRight, Queues, Alive, Has, At, InProgress
  <2> QED  BY <2>2, <2>3
<1>9. InProgress(pub) => pub.attempt \in Attempts  BY DEF IInv, RowRight, InProgress
<1>10. PressHeld'
  BY <1>2, <1>3, <1>4, <1>9 DEF IInv, RowRight, PressHeld, At, Has, InProgress, Working
<1>11. TerminalKept' /\ ReceiptTruthful' /\ PublishedFollowed'
  BY <1>2, <1>4 DEF IInv, RowRight, TerminalKept, ReceiptTruthful, PublishedFollowed
<1>12. OneAttempt'  BY <1>3 DEF IInv, RowRight, OneAttempt, At, Working
<1> QED
  BY <1>4, <1>5, <1>6, <1>7, <1>8, <1>10, <1>11, <1>12 DEF IInv, RowRight, InProgress

(* An error is recorded on the worker's own row, if it is in progress.       *)
LEMMA FailsStep ==
    ASSUME IInv, NEW a \in Attempts, Fails(a)
    PROVE  IInv'
<1> USE DEF pub, Unavailable
<1>1. /\ TypeOK /\ job \in [Attempts -> Job] /\ db \in Database /\ pub \in Publication
      /\ input \in [Attempts -> Request]
  BY Types DEF IInv
<1>2. UNCHANGED <<input, reviewed, follower, github>>  BY DEF Fails
<1>3. troubles' \in 0..MaxTroubles
  BY <1>1, ConfigAssumption DEF TypeOK, Fails, Trouble
<1>4. PICK terminal \in {TRUE, Exhausted(input[a].failures + 1)} :
        /\ job' = [job EXCEPT ![a] = IF Queues(a) THEN Quit("failing", terminal) ELSE NoJob("over")]
        /\ db' = IF ~Has(a, "press") /\ At(a, {"leased"}) THEN db
                 ELSE IF pub.attempt # a THEN db
                 ELSE RecordFailure(db, a, IF Has(a, "press") /\ ~terminal THEN "retrying" ELSE "failed")
  BY DEF Fails
<1> DEFINE state == IF Has(a, "press") /\ ~terminal THEN "retrying" ELSE "failed"
<1>5. /\ job' \in [Attempts -> Job]
      /\ Queues(a) => job'[a].phase = "failing" /\ job'[a].terminal = terminal
      /\ ~Queues(a) => job'[a].phase = "over"
      /\ \A b \in Attempts \ {a} : job'[b] = job[b]
  <2> DEFINE new == IF Queues(a) THEN Quit("failing", terminal) ELSE NoJob("over")
  <2>1. terminal \in BOOLEAN
    <3>1. Exhausted(input[a].failures + 1) \in BOOLEAN  BY DEF Exhausted
    <3> QED  BY <3>1
  <2>2. /\ new \in Job
        /\ Queues(a) => new.phase = "failing" /\ new.terminal = terminal
        /\ ~Queues(a) => new.phase = "over"
    BY <2>1, QuitType DEF NoJob, Phases
  <2>3. job' = [job EXCEPT ![a] = new]  BY <1>4
  <2> HIDE DEF new
  <2> QED  BY <1>1, <2>2, <2>3
<1>6. /\ Alive(a) /\ ~At(a, {"published"}) /\ At(a, {"leased", "reviewing", "reviewed", "lapsed"})
      /\ At(a, {"ended", "failing", "over"})'
      /\ At(a, {"ended", "failing", "over", "lapsed"})' /\ ~At(a, {"lapsed"})'
  BY <1>5 DEF Fails, Alive, At
<1> DEFINE Records == pub.attempt = a /\ InProgress(pub) /\ (Has(a, "press") \/ ~At(a, {"leased"}))
<1>7. CASE ~Records
  <2>1. db' = db  BY <1>4, <1>7 DEF RecordFailure
  <2>2. ~InProgress(pub) \/ pub.attempt # a \/ ~Has(a, "press")  BY <1>7
  <2>3. TypeOK'  BY <1>1, <1>2, <1>3, <1>5, <2>1 DEF TypeOK
  <2> QED  BY <1>2, <1>5, <1>6, <2>1, <2>2, <2>3, LeavesRow
<1>8. CASE Records
  <2>1. /\ state \in {"retrying", "failed"} /\ state \in PublicationState
        /\ state = "retrying" => Has(a, "press") /\ ~terminal
    BY DEF PublicationState
  <2>2. db' = Save(db, a, [pub EXCEPT !.state = state])  BY <1>4, <1>8 DEF RecordFailure
  <2> HIDE DEF state
  <2>3. ~Ended(db)  BY <1>8 DEF IInv, RowRight, TerminalKept, InProgress
  <2>4. Saves(db, a, state)  BY <1>8, <2>1, <2>3 DEF Saves, InProgress
  <2>5. db' \in Database /\ SameTask(db', db) /\ Kept(db'.pub, pub) /\ db'.pub.state = state
    BY <1>1, <2>1, <2>2, <2>4, SaveFacts
  <2>6. TypeOK'  BY <1>1, <1>2, <1>3, <1>5, <2>5 DEF TypeOK
  <2>7. state = "retrying" =>
          /\ Queues(a) /\ At(a, {"failing"})' /\ ~job'[a].terminal
          /\ ~Exhausted(input[a].failures + 1)
    BY <1>4, <1>5, <2>1 DEF Queues, Has, At
  <2>8. pub.state # "none"  BY <1>8 DEF InProgress
  <2> QED  BY <1>2, <1>5, <1>6, <1>8, <2>1, <2>3, <2>5, <2>6, <2>7, <2>8, GivesUp DEF Kept
<1> QED  BY <1>7, <1>8

(* A finished turn, and the follower, make the receipt stale.                *)
LEMMA DecideStep ==
    ASSUME IInv, Decide
    PROVE  IInv'
<1> USE DEF pub, Unavailable
<1>1. TypeOK /\ db \in Database  BY Types DEF IInv
<1>2. UNCHANGED <<input, job, reviewed, follower, github, troubles>>  BY DEF Decide
<1> DEFINE marked == MarkStale(db)
<1>3. /\ marked \in Database /\ Kept(marked.pub, pub) /\ SameTask(marked, db)
      /\ \/ marked.pub = pub
         \/ pub.state \in {"published", "failed"} /\ ~Ended(db) /\ marked.pub.state = "stale"
  BY <1>1, MarkStaleFacts
<1>4. PICK turn \in {"due", "settled"} : db' = [marked EXCEPT !.turn = turn]
  BY DEF Decide
<1> HIDE DEF marked
<1>5. /\ db' \in Database /\ db'.pub = marked.pub /\ db'.followup = marked.followup
      /\ db'.workflow = marked.workflow /\ db'.closed = marked.closed
  BY <1>3, <1>4 DEF Database
<1>6. db'.followup = db.followup /\ db'.workflow = db.workflow /\ db'.closed = db.closed  BY <1>3, <1>5 DEF SameTask
<1>7. TypeOK'  BY <1>1, <1>2, <1>5 DEF TypeOK
<1>8. follower'.phase # "idle" => pub.state # "none"  BY <1>2 DEF IInv, RowRight
<1>9. CASE marked.pub = pub
  <2>1. Unavailable(db)' => ~InProgress(pub)  BY <1>6 DEF IInv, RowRight
  <2> QED  BY <1>2, <1>5, <1>6, <1>7, <1>8, <1>9, <2>1, QuietStep
<1>10. CASE pub.state \in {"published", "failed"} /\ ~Ended(db) /\ marked.pub.state = "stale"
  BY <1>2, <1>3, <1>5, <1>6, <1>7, <1>8, <1>10, StaleStep
<1> QED  BY <1>3, <1>9, <1>10

LEMMA FollowerStep ==
    ASSUME IInv, FollowerWrites
    PROVE  IInv'
<1> USE DEF pub, Unavailable
<1>1. TypeOK /\ db \in Database /\ pub \in Publication  BY Types DEF IInv
<1>2. UNCHANGED <<input, job, reviewed, github, troubles>>  BY DEF FollowerWrites
<1>3. follower' \in Following /\ follower'.phase = "idle"
  BY DEF FollowerWrites, Away, Following, Commits
<1>4. follower.phase # "idle"  BY DEF FollowerWrites
<1>5. pub.attempt \in Attempts  BY <1>4 DEF IInv, RowRight
<1>6. Unavailable(db) => ~InProgress(pub)  BY DEF IInv, RowRight
<1>7. CASE db' = db
  <2>1. TypeOK'  BY <1>1, <1>2, <1>3, <1>7 DEF TypeOK
  <2> QED  BY <1>2, <1>3, <1>6, <1>7, <2>1, QuietStep
<1>8. CASE db' = MarkStale(db)
  <2>1. /\ db' \in Database /\ Kept(db'.pub, pub) /\ SameTask(db', db)
        /\ \/ db'.pub = pub
           \/ pub.state \in {"published", "failed"} /\ ~Ended(db) /\ db'.pub.state = "stale"
    BY <1>1, <1>8, MarkStaleFacts
  <2>2. TypeOK'  BY <1>1, <1>2, <1>3, <2>1 DEF TypeOK
  <2>3. db'.followup = db.followup /\ db'.workflow = db.workflow /\ db'.closed = db.closed  BY <2>1 DEF SameTask
  <2>4. CASE db'.pub = pub  BY <1>2, <1>3, <1>6, <2>2, <2>3, <2>4, QuietStep
  <2>5. CASE db'.pub # pub  BY <1>2, <1>3, <2>1, <2>2, <2>3, <2>5, StaleStep
  <2> QED  BY <2>4, <2>5
<1>9. CASE db' = Put([db EXCEPT !.followup = "ended"], [pub EXCEPT !.state = "published"])
  <2>1. /\ db' \in Database /\ db'.pub.state = "published" /\ Kept(db'.pub, pub)
        /\ db'.followup = "ended" /\ db'.workflow = db.workflow /\ db'.closed = db.closed
    <3> DEFINE d == [db EXCEPT !.followup = "ended"]
    <3>1. d \in Database /\ d.followup = "ended" /\ d.workflow = db.workflow /\ d.closed = db.closed
      <4> HIDE DEF pub
      <4> QED  BY <1>1 DEF Database
    <3>2. db' = Put(d, [pub EXCEPT !.state = "published"])  BY <1>9
    <3> HIDE DEF d
    <3>3. "published" \in PublicationState  BY DEF PublicationState
    <3>4. db' \in Database /\ db'.pub.state = "published" /\ Kept(db'.pub, pub) /\ SameTask(db', d)
      BY <1>1, <3>1, <3>2, <3>3, StatePut
    <3> QED  BY <3>1, <3>4 DEF SameTask
  <2>2. TypeOK'  BY <1>1, <1>2, <1>3, <2>1 DEF TypeOK
  <2>3. Ended(db)' /\ ~InProgress(pub)'  BY <2>1 DEF Ended, InProgress
  <2>4. \A b \in Attempts : JobRight(b)'
    BY <1>2, <2>1, <2>3 DEF IInv, JobRight, Holds, At, Commit, Kept
  <2>5. \A b \in Attempts : InputRight(b)'
    BY <1>2, <2>1, <2>3 DEF IInv, InputRight, Queues, Alive, Has, At, Kept
  <2>6. PressHeld' /\ TerminalKept' /\ ReceiptTruthful' /\ PublishedFollowed'
    BY <2>1, <2>3 DEF PressHeld, TerminalKept, ReceiptTruthful, PublishedFollowed
  <2>7. OneAttempt'  BY <1>2 DEF IInv, RowRight, OneAttempt, At
  <2>8. db'.pub.attempt \in Attempts  BY <1>5, <2>1 DEF Kept
  <2> QED
    BY <1>3, <2>2, <2>3, <2>4, <2>5, <2>6, <2>7, <2>8 DEF IInv, RowRight
<1> QED  BY <1>7, <1>8, <1>9 DEF FollowerWrites

(* A restart ends every worker, and settles the row by what is still to be   *)
(* carried out.                                                              *)
LEMMA RecoveredFacts ==
    ASSUME IInv
    PROVE  /\ Recovered \in PublicationState \ {"reviewing", "publishing"}
           /\ Ended(db) => Recovered = "published"
           /\ Recovered = "published" => pub.state = "published"
           /\ Recovered # "none" => pub.state # "none"
           /\ InProgress(pub) \/ Recovered = pub.state
           /\ Recovered = "retrying" =>
                \/ \E a \in Attempts : Claims(a)
                \/ pub.state = "retrying"
<1>1. pub.state \in PublicationState  BY Types DEF IInv, Publication
<1>2. Ended(db) => pub.state = "published"  BY DEF IInv, RowRight, TerminalKept
<1> QED  BY <1>1, <1>2 DEF Recovered, PublicationState, InProgress

LEMMA RestartStep ==
    ASSUME IInv, Restart
    PROVE  IInv'
<1>1. /\ TypeOK /\ db \in Database /\ pub \in Publication /\ input \in [Attempts -> Request]
      /\ job \in [Attempts -> Job]
  BY Types DEF IInv
<1>2. UNCHANGED <<reviewed, github>>  BY DEF Restart
<1>3. follower' \in Following /\ follower'.phase = "idle"
  BY DEF Restart, Away, Following, Commits
<1>4. troubles' \in 0..MaxTroubles
  BY <1>1, ConfigAssumption DEF TypeOK, Restart, Trouble
<1>5. /\ job' \in [Attempts -> Job]
      /\ \A b \in Attempts : job'[b].phase \in {"idle", "over"}
      /\ \A b \in Attempts : Queues(b) => job'[b].phase = "idle"
  <2>1. /\ NoJob("idle") \in Job /\ NoJob("idle").phase = "idle"
        /\ NoJob("over") \in Job /\ NoJob("over").phase = "over"
    BY QuitType DEF NoJob, Phases
  <2> DEFINE Stop(b) == IF Queues(b) \/ At(b, {"idle"}) THEN "idle" ELSE "over"
  <2>2. job' = [b \in Attempts |-> NoJob(Stop(b))]  BY DEF Restart
  <2>3. \A b \in Attempts : Stop(b) \in {"idle", "over"} /\ (Queues(b) => Stop(b) = "idle")
    OBVIOUS
  <2> HIDE DEF Stop
  <2>4. \A b \in Attempts : NoJob(Stop(b)) \in Job /\ NoJob(Stop(b)).phase = Stop(b)
    BY <2>1, <2>3
  <2> QED  BY <2>2, <2>3, <2>4
<1> DEFINE state == Recovered
           written == IF state = pub.state THEN db ELSE Put(db, [pub EXCEPT !.state = state])
<1>6. /\ written \in Database /\ written.pub.state = state /\ Kept(written.pub, pub)
      /\ SameTask(written, db)
  <2>1. state \in PublicationState  BY RecoveredFacts
  <2> HIDE DEF state
  <2>2. CASE state = pub.state
    BY <1>1, <2>2 DEF Kept, SameTask, pub
  <2>3. CASE state # pub.state
    BY <1>1, <2>1, <2>3, StatePut
  <2> QED  BY <2>2, <2>3
<1>7. /\ db' \in Database /\ db'.pub.state = state /\ Kept(db'.pub, pub)
      /\ db'.followup = (IF Unfollowed(state) THEN "open" ELSE db.followup)
      /\ db'.closed = db.closed /\ db'.workflow \in {"open", db.workflow}
  <2> DEFINE followup == IF Unfollowed(state) THEN "open" ELSE db.followup
             workflow == IF db.workflow = "closing" THEN "open" ELSE db.workflow
             turn == IF db.turn \in {"due", "settled"} THEN "over" ELSE db.turn
  <2>1. /\ followup \in {"none", "open", "ended"} /\ workflow \in {"open", "closing", "closed"}
        /\ turn \in {"none", "running", "over", "due", "settled"}
        /\ workflow \in {"open", db.workflow}
    BY <1>1 DEF Database
  <2>2. /\ written.followup = db.followup /\ written.workflow = db.workflow /\ written.closed = db.closed
        /\ written.turn = db.turn
    BY <1>6 DEF SameTask
  <2>3. db' = [written EXCEPT !.followup = IF Unfollowed(state) THEN "open" ELSE written.followup,
                              !.workflow = IF written.workflow = "closing" THEN "open" ELSE written.workflow,
                              !.closer = "idle",
                              !.turn = IF written.turn \in {"due", "settled"} THEN "over" ELSE written.turn]
    BY DEF Restart, RecoverPublication
  <2> HIDE DEF written
  <2>4. db' = [written EXCEPT !.followup = followup, !.workflow = workflow, !.closer = "idle",
                              !.turn = turn]
    BY <2>2, <2>3
  <2> HIDE DEF followup, workflow, turn
  <2>5. /\ db' \in Database /\ db'.pub = written.pub /\ db'.followup = followup
        /\ db'.workflow = workflow /\ db'.closed = written.closed
    BY <1>6, <2>1, <2>4 DEF Database
  <2> QED  BY <1>6, <2>1, <2>2, <2>5 DEF followup
<1>8. /\ input' \in [Attempts -> Request]
      /\ \A b \in Attempts :
           /\ input'[b].kind = input[b].kind /\ input'[b].bound = input[b].bound
           /\ input'[b].failures = input[b].failures
           /\ input[b].state = "retry" => input'[b].state = "retry"
           /\ input[b].state = "processing" /\ state = "retrying" => input'[b].state = "retry"
  <2>1. ASSUME NEW b \in Attempts, NEW to \in {"done", "retry"}
        PROVE  LET new == [input[b] EXCEPT !.state = to]
               IN /\ new \in Request /\ new.state = to /\ new.kind = input[b].kind
                  /\ new.bound = input[b].bound /\ new.failures = input[b].failures
    <3>1. input[b] \in Request  BY <1>1
    <3>2. to \in {"absent", "pending", "processing", "retry", "done", "failed"}  OBVIOUS
    <3> HIDE DEF state
    <3> QED  BY <3>1, <3>2, InputWrites
  <2> DEFINE finished == {b \in Attempts : Claims(b) /\ state \in {"failed", "published", "stale"}}
             To(b) == IF b \in finished THEN "done" ELSE "retry"
  <2>2. input' = [b \in Attempts |-> IF input[b].state # "processing" THEN input[b]
                                     ELSE [input[b] EXCEPT !.state = To(b)]]
    BY DEF Restart, RecoverPublication
  <2>3. \A b \in Attempts : To(b) \in {"done", "retry"} /\ (state = "retrying" => To(b) = "retry")
    OBVIOUS
  <2> HIDE DEF To, state
  <2>4. \A b \in Attempts :
          \/ input[b].state # "processing" /\ input'[b] = input[b]
          \/ input[b].state = "processing" /\ input'[b] = [input[b] EXCEPT !.state = To(b)]
    BY <2>2
  <2>5. input' \in [Attempts -> Request]  BY <1>1, <2>1, <2>2, <2>3
  <2>6. ASSUME NEW b \in Attempts
        PROVE  /\ input'[b].kind = input[b].kind /\ input'[b].bound = input[b].bound
               /\ input'[b].failures = input[b].failures
               /\ input[b].state = "retry" => input'[b].state = "retry"
               /\ input[b].state = "processing" /\ state = "retrying" => input'[b].state = "retry"
    <3>1. CASE input'[b] = input[b] /\ input[b].state # "processing"  BY <3>1
    <3>2. CASE input[b].state = "processing" /\ input'[b] = [input[b] EXCEPT !.state = To(b)]
      <4> DEFINE new == [input[b] EXCEPT !.state = To(b)]
      <4>1. /\ new.state = To(b) /\ new.kind = input[b].kind
            /\ new.bound = input[b].bound /\ new.failures = input[b].failures
        BY <2>1, <2>3
      <4>2. input'[b] = new  BY <3>2
      <4> HIDE DEF new
      <4> QED  BY <2>3, <3>2, <4>1, <4>2
    <3> QED  BY <2>4, <3>1, <3>2
  <2> QED  BY <2>5, <2>6
<1>9. TypeOK'  BY <1>1, <1>2, <1>3, <1>4, <1>5, <1>7, <1>8 DEF TypeOK
<1>10. /\ state \notin {"reviewing", "publishing"}
       /\ Ended(db) => state = "published"
       /\ state = "published" => pub.state = "published"
       /\ state # "none" => pub.state # "none"
       /\ InProgress(pub) \/ state = pub.state
       /\ state = "retrying" => (\E a \in Attempts : Claims(a)) \/ pub.state = "retrying"
  BY RecoveredFacts
<1> HIDE DEF state, written
<1>11. \A b \in Attempts : JobRight(b)'
  BY <1>5 DEF JobRight, At, Working, Examining, Publishing, Delivering
<1>12. \A b \in Attempts : InputRight(b)'
  BY <1>5, <1>7, <1>8 DEF IInv, InputRight, Queues, Alive, Has, At, Kept, pub
<1>13. db'.pub.attempt = pub.attempt /\ db'.pub.remote = pub.remote  BY <1>7 DEF Kept
<1>14. PressHeld'
  <2> SUFFICES ASSUME state = "retrying", Has(pub.attempt, "press")
               PROVE  input'[pub.attempt].state = "retry"
    <3>1. InProgress(pub)' => state = "retrying"  BY <1>7, <1>10 DEF InProgress, pub
    <3>2. InProgress(pub) \/ pub.state = "retrying" => pub.attempt \in Attempts
      BY DEF IInv, RowRight, InProgress
    <3>3. state = "retrying" => pub.attempt \in Attempts  BY <1>10, <3>2 DEF InProgress
    <3> QED  BY <1>7, <1>8, <1>13, <3>1, <3>3 DEF PressHeld, Has, pub
  <2>1. InProgress(pub) /\ pub.attempt \in Attempts
    BY <1>10 DEF IInv, RowRight, InProgress
  <2>2. CASE \E a \in Attempts : Claims(a)
    BY <1>8, <2>1, <2>2 DEF Claims
  <2>3. CASE pub.state = "retrying"
    <3>1. ~At(pub.attempt, Working)
      BY <2>1, <2>3, WorkerAlone DEF IInv, RowRight, TerminalKept
    <3>2. input[pub.attempt].state \in {"retry", "processing"}
      BY <2>1, <3>1 DEF IInv, RowRight, PressHeld
    <3> QED  BY <1>8, <2>1, <3>2
  <2> QED  BY <1>10, <2>2, <2>3
<1>15. Ended(db)' <=> Ended(db)  BY <1>7 DEF Ended, Unfollowed
<1>16. TerminalKept'  BY <1>7, <1>10, <1>15 DEF TerminalKept, pub
<1>17. ReceiptTruthful'
  BY <1>2, <1>7, <1>10, <1>13, <1>15 DEF IInv, RowRight, ReceiptTruthful, pub
<1>18. PublishedFollowed'
  <2> SUFFICES ASSUME state = "published", Queues(pub.attempt), db.followup = "none"
               PROVE  Unfollowed(state)
    <3>1. pub.state # "none" => pub.attempt \in Attempts  BY DEF IInv, RowRight
    <3>2. state = "published" => pub.attempt \in Attempts  BY <1>10, <3>1
    <3> QED  BY <1>7, <1>8, <1>13, <3>2 DEF PublishedFollowed, Queues, Has, pub
  <2> DEFINE a == pub.attempt
  <2>1. pub.state = "published" /\ a \in Attempts  BY <1>10 DEF IInv, RowRight
  <2>2. At(a, {"published"})  BY <2>1 DEF IInv, RowRight, PublishedFollowed
  <2>3. InputRight(a) /\ input[a].kind \in {"press", "console", "handoff"}
    BY <1>1, <2>1 DEF IInv, Request
  <2>4. input[a].state = "processing"  BY <2>2, <2>3 DEF InputRight, Alive, At
  <2>5. input[a].bound \/ Has(a, "handoff")
    BY <2>3 DEF InputRight, Queues, Has
  <2>6. Claims(a)  BY <2>4, <2>5 DEF Claims
  <2> QED  BY <2>1, <2>6 DEF Unfollowed
<1>19. OneAttempt'  BY <1>5 DEF OneAttempt, At, Working
<1>20. Unavailable(db)' => ~InProgress(pub)'
  BY <1>7, <1>10 DEF IInv, RowRight, InProgress, pub, Unavailable
<1>21. pub'.state # "none" => pub'.attempt \in Attempts
  BY <1>7, <1>10, <1>13 DEF IInv, RowRight, pub
<1> QED
  BY <1>3, <1>9, <1>11, <1>12, <1>14, <1>16, <1>17, <1>18, <1>19, <1>20, <1>21
  DEF IInv, RowRight
-----------------------------------------------------------------------------
LEMMA InitInv == Init => IInv
<1> SUFFICES ASSUME Init PROVE IInv
  OBVIOUS
<1> USE DEF pub, Unavailable
<1>1. /\ db.pub.state = "none" /\ db.pub.attempt = 0 /\ db.followup = "none" /\ ~Unavailable(db)
      /\ follower.phase = "idle" /\ follower = Away
  BY DEF Init, Away
<1>2. PICK kind \in Kinds :
        input = [a \in Attempts |-> [kind |-> kind[a], state |-> "absent", generation |-> 0,
                                     bound |-> FALSE, failures |-> 0]]
  BY DEF Init
<1>3. input \in [Attempts -> Request]
  <2>1. kind \in [Attempts -> {"press", "console", "handoff"}]  BY ConfigAssumption
  <2>2. \A a \in Attempts : kind[a] \in {"press", "console", "handoff"}  BY <2>1
  <2> QED  BY <1>2, <2>2 DEF Request
<1>4. job \in [Attempts -> Job] /\ \A a \in Attempts : job[a].phase = "idle"
  <2>1. NoJob("idle") \in Job /\ NoJob("idle").phase = "idle"  BY QuitType DEF NoJob, Phases
  <2> QED  BY <2>1 DEF Init
<1>5. db \in Database
  BY DEF Init, Database, Publication, PublicationState, Commits
<1>6. /\ reviewed \in [Attempts -> Nat] /\ follower \in Following
      /\ github \in [branch : Commits, pr : {"none", "open", "ended"}, opened : Nat]
      /\ troubles \in 0..MaxTroubles
  BY ConfigAssumption DEF Init, Following, Away, Commits
<1>7. TypeOK  BY <1>3, <1>4, <1>5, <1>6 DEF TypeOK
<1>8. \A a \in Attempts : JobRight(a) /\ InputRight(a)
  <2>1. \A a \in Attempts : pub.attempt # a  BY <1>1, ConfigAssumption
  <2>2. \A a \in Attempts : JobRight(a)
    BY <1>4 DEF JobRight, At, Working, Examining, Publishing, Delivering
  <2> QED  BY <1>4, <2>1, <2>2 DEF InputRight, At, Alive
<1>9. RowRight
  BY <1>1, <1>4 DEF RowRight, PressHeld, TerminalKept, OneAttempt, ReceiptTruthful,
                    PublishedFollowed, InProgress, Ended, At, Working
<1> QED  BY <1>7, <1>8, <1>9 DEF IInv

LEMMA NextInv == IInv /\ [Next]_vars => IInv'
<1> SUFFICES ASSUME IInv, [Next]_vars PROVE IInv'
  OBVIOUS
<1>1. CASE UNCHANGED vars
  <2>1. UNCHANGED <<db, input, job, reviewed, follower, github, troubles>>  BY <1>1 DEF vars
  <2>2. TypeOK'  BY <2>1 DEF IInv, TypeOK
  <2> QED  BY <2>1, <2>2, QuietStep DEF IInv, RowRight, pub
<1>2. ASSUME NEW a \in Attempts, Press(a) \/ Invoke(a) \/ LeaseInput(a) PROVE IInv'
  BY <1>2, PressStep, TakenStep
<1>3. ASSUME NEW a \in Attempts, Carries(a) PROVE IInv'
  <2>1. CASE Outdated(a)  BY <2>1, OutdatedStep
  <2>2. CASE WaitForTurn(a) \/ FailInput(a) \/ FinishInput(a)  BY <2>2, WaitStep
  <2>3. CASE Refuse(a)  BY <2>3, RefuseStep
  <2>4. CASE BeginReview(a)  BY <2>4, ReviewBegins
  <2>5. CASE Review(a)  BY <2>5, ReviewStep
  <2>6. CASE Unpublishable(a)  BY <2>6, UnpublishableStep
  <2>7. CASE BeginPublishing(a)  BY <2>7, PublishingBegins
  <2>8. CASE Inspect(a)  BY <2>8, InspectStep
  <2>9. CASE Push(a)  BY <2>9, PushStep
  <2>10. CASE EnsureDraftPR(a)  BY <2>10, OpenStep
  <2>11. CASE PublishFails(a)  BY <2>11, PublishFailsStep
  <2>12. CASE Record(a)  BY <2>12, RecordStep
  <2>13. CASE Reset(a)  BY <2>13, ResetStep
  <2>14. CASE Fails(a)  BY <2>14, FailsStep
  <2> QED
    BY <1>3, <2>1, <2>2, <2>3, <2>4, <2>5, <2>6, <2>7, <2>8, <2>9, <2>10, <2>11, <2>12, <2>13, <2>14
    DEF Carries
<1>4. CASE \/ StartTurn \/ TurnEnds \/ BeginClose \/ CloseIncident \/ RestoreClose
           \/ \E active \in BOOLEAN : PollIncident(active)
  BY <1>4, TaskStep
<1>5. CASE Decide  BY <1>5, DecideStep
<1>6. CASE FinishTurn  BY <1>6, FinishTurnStep
<1>7. CASE FollowerReads \/ FollowerAsks \/ PersonPushes \/ PersonEnds  BY <1>7, WatchStep
<1>8. CASE FollowerWrites  BY <1>8, FollowerStep
<1>9. CASE Restart  BY <1>9, RestartStep
<1> QED
  BY <1>1, <1>2, <1>3, <1>4, <1>5, <1>6, <1>7, <1>8, <1>9 DEF Next, Turns, Follows

(* The invariant holds throughout.                                          *)
LEMMA Invariance == Spec => []IInv
BY InitInv, NextInv, PTL DEF Spec

(* Two attempts never work on the branch at the same time, whoever asked    *)
(* for them, and none works on it once the task is closed or while its row  *)
(* says that it is being closed.  CloseIncident reads the publication again, *)
(* so the poller's overwriting the mark of a close does not break this.     *)
THEOREM BranchIsExclusive == Spec => []BranchExclusive
<1>1. IInv => BranchExclusive
  <2> SUFFICES ASSUME IInv PROVE BranchExclusive
    OBVIOUS
  <2>1. OneAttempt  BY DEF IInv, RowRight
  <2>2. ASSUME Unavailable(db) PROVE ~InProgress(pub)  BY <2>2 DEF IInv, RowRight
  <2>3. ASSUME NEW a \in Attempts, At(a, Working), ~InProgress(pub) PROVE Ended(db)
    BY <2>3, WorkerAlone DEF InProgress
  <2> QED  BY <2>1, <2>2, <2>3 DEF BranchExclusive, CloseExcludes
<1> QED  BY <1>1, Invariance, PTL

(* What an operator's press left in progress has a live worker, or a row of *)
(* the inputs that is still to be carried out, across failures and restarts.*)
THEOREM PressesOwned == Spec => []PressOwned
<1>1. IInv => PressOwned
  <2> SUFFICES ASSUME IInv PROVE PressOwned
    OBVIOUS
  <2>1. \A a : At(a, Working) => At(a, Working \cup {"lapsed"})  BY DEF At
  <2> QED  BY <2>1 DEF IInv, RowRight, PressHeld, PressOwned, Owned
<1> QED  BY <1>1, Invariance, PTL

(* The end of a pull request is final: the receipt stays published, and no  *)
(* worker that was under way writes over it.                                *)
THEOREM EndIsFinal == Spec => []TerminalKept
<1>1. IInv => TerminalKept  BY DEF IInv, RowRight
<1> QED  BY <1>1, Invariance, PTL

(* A receipt names what this program pushed, unless somebody else pushed    *)
(* since, and its pull request is watched even when a crash came between    *)
(* the receipt and the follow-up.                                           *)
THEOREM ReceiptsKept == Spec => []ReceiptKept
<1>1. IInv => ReceiptKept  BY DEF IInv, RowRight, ReceiptKept
<1> QED  BY <1>1, Invariance, PTL

(* A pull request is opened only while none is open and none was recorded:  *)
(* what the attempt has read of the row when it began is still so when it   *)
(* opens one, whatever answers GitHub lost in between.                      *)
THEOREM OnePullRequest == Spec => NoSecondPullRequest
<1> DEFINE A == github'.opened # github.opened => github.pr # "open" /\ ~pub.hasPR
<1>1. IInv /\ [Next]_vars => [A]_vars
  <2> SUFFICES ASSUME IInv, Next, github'.opened # github.opened
               PROVE  github.pr # "open" /\ ~pub.hasPR
    BY DEF vars
  <2>1. github \in [branch : Commits, pr : {"none", "open", "ended"}, opened : Nat]
    BY Types DEF IInv
  <2>2. PICK a \in Attempts : EnsureDraftPR(a)
    <3>1. ASSUME NEW a \in Attempts, Push(a) PROVE FALSE  BY <2>1, <3>1 DEF Push
    <3>2. ~PersonPushes /\ ~PersonEnds  BY <2>1 DEF PersonPushes, PersonEnds
    <3>3. github' # github  OBVIOUS
    <3>4. ASSUME NEW a \in Attempts, Carries(a) PROVE EnsureDraftPR(a)
      BY <3>1, <3>3, <3>4
      DEF Carries, Outdated, WaitForTurn, Refuse, BeginReview, Review, Unpublishable,
          BeginPublishing, Inspect, PublishFails, Record, Reset, Fails, FailInput, FinishInput
    <3> QED
      BY <3>2, <3>3, <3>4
      DEF Next, Press, Invoke, LeaseInput, Turns, StartTurn, TurnEnds, Decide, FinishTurn, Follows,
          FollowerReads, FollowerAsks, FollowerWrites, BeginClose, CloseIncident, RestoreClose,
          PollIncident, Restart
  <2>3. github.pr # "open" /\ ~job[a].hasPR  BY <2>2 DEF EnsureDraftPR
  <2>4. At(a, Working)  BY <2>2 DEF EnsureDraftPR, Goes, At, Working
  <2> QED  BY <2>3, <2>4 DEF IInv, JobRight
<1> QED  BY <1>1, Invariance, PTL DEF Spec, NoSecondPullRequest
=============================================================================
