--------------------------- MODULE AgentRunsProofs ---------------------------
(***************************************************************************)
(* Proofs about AgentRuns for any requests, kinds of them, workers and     *)
(* limits: its type invariant, that one run of a conversation is at work   *)
(* at a time, that an episode and its newest attempt keep in step, that a  *)
(* finished answer is not given up unread, and that what a request ends as *)
(* is what its person was told.                                            *)
(***************************************************************************)
EXTENDS AgentRuns, TLAPS

Irrevocable == {"completed", "cancelled", "superseded"}

(* The event that tells an episode how run r ended. *)
EndKey(r, ended) ==
    IF ended = "superseded" THEN <<"superseded", r>> ELSE <<"finished", r, ended>>

(* What every transaction of the store leaves true of the database d: a     *)
(* request that was queued has an episode, a result that is applied is an   *)
(* answer or a failure, an episode holds the end of a run only if the run   *)
(* ended so, and the newest attempt of a closed episode is not at work.     *)
Result(row) == row.staged \in Answers \cup {"failed"}
RowsRight(d) ==
    \A r \in Runs :
        /\ ~Is(d, r, {"absent"}) => d.run[r].episode \in Runs
        /\ Is(d, r, {"applying", "finalizing"}) => Result(d.run[r])
EventsRight(d) ==
    \A e, r \in Runs, ended \in Irrevocable :
        EndKey(r, ended) \in d.episode[e].events => d.run[r].state = ended
Working == {"preparing", "running"}
ClosedIdle(d) ==
    \A r \in Runs : Is(d, r, Working) /\ EpisodeOf(d, r).state \in Final => ~Latest(d, r)

Sound(d) == d \in Database /\ RowsRight(d) /\ EventsRight(d) /\ ClosedIdle(d)

(* A job holds a run in the state it leased it in, unless an operator has   *)
(* cancelled the run, and a request that is being queued is not queued yet. *)
JobsHold ==
    \A r \in Runs :
        /\ prep[r] # "none" => Is(db, r, {"preparing", "cancelled"})
        /\ fin[r] # "none" => Is(db, r, {"finalizing", "cancelled"})
QueuedOnce == admitted # None => Is(db, admitted.run, {"absent"})

IInv == TypeOK /\ Sound(db) /\ JobsHold /\ QueuedOnce /\ OneAtATime
-----------------------------------------------------------------------------
(* What a transaction that carries run r on makes of database d.            *)
Follows(row, old) ==
    row.episode = old.episode /\ row.failures >= old.failures /\ row.corrections >= old.corrections

RowLegal(d, c, r) ==
    /\ \A q \in Runs \ {r} : c.run[q] = d.run[q]
    /\ Follows(c.run[r], d.run[r])
    /\ Is(d, r, Irrevocable) => c.run[r].state = d.run[r].state
    /\ Is(c, r, {"absent"}) <=> Is(d, r, {"absent"})
    /\ Is(c, r, {"applying", "finalizing"}) => Result(c.run[r])

EpisodeLegal(d, c, r) ==
    /\ \A e \in Runs : c.episode[e].latest = d.episode[e].latest
    /\ \A e \in Runs \ {d.run[r].episode} : c.episode[e] = d.episode[e]
    /\ Is(c, r, Working) /\ Latest(d, r) => EpisodeOf(c, r).state \notin Final
    /\ EpisodeOf(c, r).state \in Final =>
         EpisodeOf(d, r).state \in Final \/ (Latest(d, r) /\ ~Is(c, r, Working))
    /\ \A q \in Runs, ended \in Irrevocable : EndKey(q, ended) \in EpisodeOf(c, r).events =>
         EndKey(q, ended) \in EpisodeOf(d, r).events \/ (q = r /\ c.run[r].state = ended)

(* The newest attempt ends with its episode, or has failed before. *)
EndsRight(d, c, r) ==
    Is(c, r, Final) /\ ~Is(d, r, Final) /\ Latest(d, r) =>
        \/ EpisodeOf(c, r).state # "active"
        \/ Is(c, r, {"failed"}) /\ FailedBefore(EpisodeOf(d, r), r)

Legal(d, c, r) ==
    c \in Database /\ RowLegal(d, c, r) /\ EpisodeLegal(d, c, r) /\ EndsRight(d, c, r)

(* Only a lease sets an idle run to work. *)
StaysIdle(d, c, r) == Is(c, r, Active) => Is(d, r, Active)
-----------------------------------------------------------------------------
(* The keys of events. *)
LEMMA KeyFacts ==
    ASSUME NEW q \in Runs, NEW ended \in Irrevocable, NEW r \in Runs
    PROVE  /\ EndKey(q, ended) # fresh /\ EndKey(q, ended) # <<"resumed">>
           /\ EndKey(q, ended) # <<"deferred", r>>
           /\ \A k \in Nat : EndKey(q, ended) # <<"lease", r, k>>
           /\ \A s \in EpisodeState : EndKey(q, ended) # <<"phase", r, s>>
           /\ EndKey(q, ended) # <<"finished", r, "failed">>
           /\ \A o \in Irrevocable : EndKey(q, ended) = EndKey(r, o) => q = r /\ ended = o
BY DEF EndKey, Irrevocable, fresh, EpisodeState, Final

LEMMA KeyTypes ==
    ASSUME NEW r \in Runs
    PROVE  /\ fresh \notin Event /\ <<"resumed">> \in Event
           /\ <<"deferred", r>> \in Event /\ <<"superseded", r>> \in Event
           /\ \A k \in Nat : <<"lease", r, k>> \in Event
           /\ \A s \in EpisodeState : <<"phase", r, s>> \in Event /\ <<"finished", r, s>> \in Event
BY DEF Event, fresh

(* Rows as they are written. *)
LEMMA RowTypes ==
    ASSUME NEW row \in Row
    PROVE  /\ \A s \in State : [row EXCEPT !.state = s] \in Row
           /\ \A s \in State : Follows([row EXCEPT !.state = s], row)
           /\ \A s \in State : [row EXCEPT !.state = s].state = s
           /\ \A s \in State : [row EXCEPT !.state = s].staged = row.staged
BY DEF Row, Follows

LEMMA RenewedTypes ==
    ASSUME NEW row \in Row
    PROVE  /\ Renewed(row) \in Row /\ Follows(Renewed(row), row) /\ Renewed(row).state = "pending"
           /\ Failing(row) \in Row /\ Follows(Failing(row), row)
           /\ Failing(row).state = row.state /\ Failing(row).staged = row.staged
<1>1. row.key + 1 \in Nat /\ row.failures + 1 \in Nat /\ row.failures + 1 >= row.failures
  BY DEF Row
<1>2. Renewed(row) \in Row  BY <1>1 DEF Row, Renewed, State
<1>3. Follows(Renewed(row), row) /\ Renewed(row).state = "pending"
  BY DEF Row, Renewed, Follows
<1>4. Failing(row) \in Row  BY <1>1 DEF Row, Failing
<1>5. Follows(Failing(row), row) /\ Failing(row).state = row.state /\ Failing(row).staged = row.staged
  BY <1>1 DEF Row, Failing, Follows
<1> QED  BY <1>2, <1>3, <1>4, <1>5

LEMMA RestagedTypes ==
    ASSUME NEW row \in Row
    PROVE  /\ Restaged(row) \in Row /\ Follows(Restaged(row), row)
           /\ Restaged(row).state = "pending"
<1>1. PICK new \in Row : new = Renewed(row)  BY RenewedTypes
<1>2. Follows(new, row) /\ new.state = "pending"  BY <1>1, RenewedTypes
<1>3. Restaged(row) = [new EXCEPT !.staged = "none"]  BY <1>1 DEF Restaged
<1> QED  BY <1>2, <1>3 DEF Row, Follows

LEMMA CorrectedTypes ==
    ASSUME NEW row \in Row
    PROVE  LET new == [row EXCEPT !.corrections = @ + 1]
           IN new \in Row /\ Follows(new, row) /\ new.state = row.state
<1>1. row.corrections + 1 \in Nat /\ row.corrections + 1 >= row.corrections  BY DEF Row
<1> QED  BY <1>1 DEF Row, Follows

LEMMA FollowsTransitive ==
    ASSUME NEW row \in Row, NEW mid \in Row, NEW old \in Row, Follows(row, mid), Follows(mid, old)
    PROVE  Follows(row, old)
BY DEF Row, Follows

LEMMA FieldTypes ==
    ASSUME NEW row \in Row
    PROVE  /\ \A b \in BOOLEAN : LET new == [row EXCEPT !.bound = b]
                               IN new \in Row /\ Follows(new, row) /\ new.state = row.state
           /\ \A b \in BOOLEAN : LET new == [row EXCEPT !.started = b]
                               IN new \in Row /\ Follows(new, row) /\ new.state = row.state
           /\ \A v \in {"none", "completed", "waiting", "failed"} :
                 LET new == [row EXCEPT !.staged = v]
                 IN new \in Row /\ Follows(new, row) /\ new.state = row.state /\ new.staged = v
<1>1. ASSUME NEW b \in BOOLEAN
      PROVE  LET new == [row EXCEPT !.bound = b]
             IN new \in Row /\ Follows(new, row) /\ new.state = row.state
  BY DEF Row, Follows
<1>2. ASSUME NEW b \in BOOLEAN
      PROVE  LET new == [row EXCEPT !.started = b]
             IN new \in Row /\ Follows(new, row) /\ new.state = row.state
  BY DEF Row, Follows
<1>3. ASSUME NEW v \in {"none", "completed", "waiting", "failed"}
      PROVE  LET new == [row EXCEPT !.staged = v]
             IN new \in Row /\ Follows(new, row) /\ new.state = row.state /\ new.staged = v
  BY DEF Row, Follows
<1> QED  BY <1>1, <1>2, <1>3

LEMMA MarkedTypes ==
    ASSUME NEW row \in Row
    PROVE  LET new == [row EXCEPT !.state = "running", !.bound = TRUE, !.started = TRUE]
           IN new \in Row /\ Follows(new, row) /\ new.state = "running"
<1> DEFINE moved == [row EXCEPT !.state = "running"]
           submitted == [moved EXCEPT !.bound = TRUE]
           new == [submitted EXCEPT !.started = TRUE]
<1>1. moved \in Row /\ Follows(moved, row) /\ moved.state = "running"
  BY RowTypes DEF State, Active
<1>2. [row EXCEPT !.state = "running", !.bound = TRUE, !.started = TRUE] = new  OBVIOUS
<1> HIDE DEF moved
<1>3. submitted \in Row /\ Follows(submitted, moved) /\ submitted.state = moved.state
  BY <1>1, FieldTypes
<1> HIDE DEF submitted
<1>4. new \in Row /\ Follows(new, submitted) /\ new.state = submitted.state
  BY <1>3, FieldTypes
<1> HIDE DEF new
<1>5. Follows(new, row)  BY <1>1, <1>3, <1>4, FollowsTransitive
<1> QED  BY <1>1, <1>2, <1>3, <1>4, <1>5

LEMMA StagedTypes ==
    ASSUME NEW row \in Row, NEW result \in Answers \cup {"failed"}
    PROVE  LET new == [row EXCEPT !.state = "applying", !.staged = result]
           IN new \in Row /\ Follows(new, row) /\ new.state = "applying" /\ Result(new)
<1> DEFINE moved == [row EXCEPT !.state = "applying"]
           new == [moved EXCEPT !.staged = result]
<1>1. result \in {"none", "completed", "waiting", "failed"}  BY ConfigAssumption
<1>2. moved \in Row /\ Follows(moved, row) /\ moved.state = "applying"
  BY RowTypes DEF State, Active
<1>3. [row EXCEPT !.state = "applying", !.staged = result] = new  OBVIOUS
<1> HIDE DEF moved
<1>4. new \in Row /\ Follows(new, moved) /\ new.state = moved.state /\ new.staged = result
  BY <1>1, <1>2, FieldTypes
<1> HIDE DEF new
<1>5. Follows(new, row)  BY <1>2, <1>4, FollowsTransitive
<1> QED  BY <1>2, <1>3, <1>4, <1>5 DEF Result

LEMMA ToldTypes ==
    ASSUME NEW row \in Row
    PROVE  LET new == [row EXCEPT !.told = row.key]
           IN new \in Row /\ Follows(new, row) /\ new.state = row.state /\ new.staged = row.staged
BY DEF Row, Follows

LEMMA FinishedTypes ==
    ASSUME NEW row \in Row, NEW outcome \in State
    PROVE  LET new == [row EXCEPT !.state = outcome,
                                  !.failures = IF outcome = "failed" THEN @ + 1 ELSE @]
           IN new \in Row /\ Follows(new, row) /\ new.state = outcome
<1> DEFINE n == IF outcome = "failed" THEN row.failures + 1 ELSE row.failures
           moved == [row EXCEPT !.state = outcome]
           new == [row EXCEPT !.state = outcome,
                              !.failures = IF outcome = "failed" THEN @ + 1 ELSE @]
<1>1. n \in Nat /\ n >= row.failures  BY DEF Row
<1>2. moved \in Row /\ Follows(moved, row) /\ moved.state = outcome  BY RowTypes
<1>3. new = [moved EXCEPT !.failures = n]  OBVIOUS
<1> HIDE DEF moved, n
<1>4. new \in Row /\ new.failures = n /\ new.state = outcome
      /\ new.episode = moved.episode /\ new.corrections = moved.corrections
  <2> HIDE DEF new
  <2> QED  BY <1>1, <1>2, <1>3 DEF Row
<1> QED  BY <1>1, <1>2, <1>4 DEF Follows
-----------------------------------------------------------------------------
(* The reducer.                                                             *)
Unmoved(d, r, state, key) == Dropped(d, r, state) \/ Holds(EpisodeOf(d, r), key)

Moved(d, c, r, state, key) ==
    /\ \A e \in Runs : c.episode[e].latest = d.episode[e].latest
    /\ \A e \in Runs \ {d.run[r].episode} : c.episode[e] = d.episode[e]
    /\ IF Unmoved(d, r, state, key) THEN EpisodeOf(c, r) = EpisodeOf(d, r)
       ELSE /\ EpisodeOf(c, r).state = state
            /\ EpisodeOf(c, r).events \subseteq EpisodeOf(d, r).events \cup ({key} \ {fresh})

LEMMA PhasedFacts ==
    ASSUME NEW d \in Database, NEW r \in Runs, d.run[r].episode \in Runs,
           NEW state \in EpisodeState, NEW key \in Event \cup {fresh}
    PROVE  LET c == Phased(d, r, state, key)
           IN /\ c \in Database /\ c.run = d.run /\ c.active = d.active
              /\ Moved(d, c, r, state, key)
<1> DEFINE x == d.run[r].episode
           e == d.episode[x]
           new == [e EXCEPT !.state = state, !.events = Keep(e, key)]
           c == Phased(d, r, state, key)
<1>1. e \in Episode /\ x \in Runs  BY DEF Database
<1>2. Keep(e, key) \subseteq Event /\ Keep(e, key) \subseteq e.events \cup ({key} \ {fresh})
  BY <1>1 DEF Episode, Keep
<1>3. /\ new \in Episode /\ new.state = state /\ new.latest = e.latest
      /\ new.events = Keep(e, key)
  BY <1>1, <1>2 DEF Episode
<1>4. CASE Unmoved(d, r, state, key)
  <2>1. c = d  BY <1>4 DEF Unmoved, Phased, EpisodeOf
  <2> QED  BY <2>1, <1>4 DEF Moved, EpisodeOf
<1>5. CASE ~Unmoved(d, r, state, key)
  <2>1. c = [d EXCEPT !.episode[x] = new]  BY <1>5 DEF Unmoved, Phased, EpisodeOf
  <2> HIDE DEF new, c
  <2>2. /\ c \in Database /\ c.run = d.run /\ c.active = d.active
        /\ c.episode = [d.episode EXCEPT ![x] = new]
    BY <2>1, <1>1, <1>3 DEF Database
  <2>3. c.episode[x] = new /\ \A y \in Runs \ {x} : c.episode[y] = d.episode[y]
    BY <2>2, <1>1 DEF Database
  <2>4. EpisodeOf(c, r) = new  BY <2>2, <2>3 DEF EpisodeOf
  <2>5. \A y \in Runs : c.episode[y].latest = d.episode[y].latest  BY <2>3, <1>3
  <2>6. EpisodeOf(d, r) = e  BY DEF EpisodeOf
  <2>7. Moved(d, c, r, state, key)
    BY <1>5, <1>2, <1>3, <2>3, <2>4, <2>5, <2>6 DEF Moved
  <2> QED  BY <2>2, <2>7 DEF c
<1> QED  BY <1>4, <1>5

LEMMA WriteFacts ==
    ASSUME NEW d \in Database, NEW r \in Runs, NEW row \in Row
    PROVE  LET c == Write(d, r, row)
           IN /\ c \in Database
              /\ c.run[r] = row /\ \A q \in Runs \ {r} : c.run[q] = d.run[q]
              /\ c.episode = d.episode /\ c.active = d.active
<1> DEFINE c == Write(d, r, row)
<1>1. c = [d EXCEPT !.run[r] = row]  BY DEF Write
<1> HIDE DEF c
<1>2. c \in Database /\ c.run = [d.run EXCEPT ![r] = row] /\ c.episode = d.episode /\ c.active = d.active
  BY <1>1 DEF Database
<1> QED  BY <1>2 DEF c, Database

LEMMA CommitFacts ==
    ASSUME NEW d \in Database, NEW r \in Runs, d.run[r].episode \in Runs,
           NEW row \in Row, row.episode = d.run[r].episode,
           NEW state \in EpisodeState, NEW key \in Event \cup {fresh}
    PROVE  LET c == Commit(d, r, row, state, key)
           IN IF Refused(d, r, state, key) THEN c = d
              ELSE /\ c \in Database /\ c.active = d.active
                   /\ c.run[r] = row /\ \A q \in Runs \ {r} : c.run[q] = d.run[q]
                   /\ Moved(d, c, r, state, key)
<1> DEFINE m == Write(d, r, row)
           c == Phased(m, r, state, key)
<1>1. /\ m \in Database /\ m.run[r] = row /\ \A q \in Runs \ {r} : m.run[q] = d.run[q]
      /\ m.episode = d.episode /\ m.active = d.active
  BY WriteFacts
<1>2. Commit(d, r, row, state, key) = IF Refused(d, r, state, key) THEN d ELSE c
  BY DEF Commit, Write
<1> HIDE DEF m
<1>3. c \in Database /\ c.run = m.run /\ c.active = m.active /\ Moved(m, c, r, state, key)
  BY <1>1, PhasedFacts
<1> HIDE DEF c
<1>4. m.run[r].episode = d.run[r].episode /\ EpisodeOf(m, r) = EpisodeOf(d, r)
  BY <1>1 DEF EpisodeOf
<1>5. Unmoved(m, r, state, key) = Unmoved(d, r, state, key)
  BY <1>4 DEF Unmoved, Dropped, Latest
<1>6. Moved(d, c, r, state, key)  BY <1>1, <1>3, <1>4, <1>5 DEF Moved
<1> QED  BY <1>1, <1>2, <1>3, <1>6
-----------------------------------------------------------------------------
(* What the transactions of the store have in common.                       *)
Settled == Irrevocable \cup {"absent"}

LEMMA UnchangedLegal ==
    ASSUME NEW d, Sound(d), NEW r \in Runs
    PROVE  Legal(d, d, r) /\ StaysIdle(d, d, r)
<1>1. d \in Database /\ d.run[r] \in Row  BY DEF Sound, Database
<1>2. RowLegal(d, d, r)  BY <1>1 DEF RowLegal, Follows, Sound, RowsRight, Row
<1>3. EpisodeLegal(d, d, r)  BY DEF EpisodeLegal, Sound, ClosedIdle
<1> QED  BY <1>1, <1>2, <1>3 DEF Legal, EndsRight, StaysIdle

(* The incident's active turn is no part of it. *)
SameRows(d, e) == e \in Database /\ e.run = d.run /\ e.episode = d.episode

LEMMA SameRowsLegal ==
    ASSUME NEW d, NEW c, NEW r \in Runs
    PROVE  /\ \A e : SameRows(c, e) /\ Legal(d, c, r) => Legal(d, e, r)
           /\ \A e : SameRows(d, e) /\ Legal(e, c, r) => Legal(d, c, r)
           /\ \A e : SameRows(d, e) /\ Sound(d) => Sound(e)
<1>1. ASSUME NEW e, SameRows(c, e), Legal(d, c, r)
      PROVE  Legal(d, e, r)
  BY <1>1 DEF SameRows, Legal, RowLegal, EpisodeLegal, EndsRight, EpisodeOf, Is
<1>2. ASSUME NEW e, SameRows(d, e), Legal(e, c, r)
      PROVE  Legal(d, c, r)
  BY <1>2 DEF SameRows, Legal, RowLegal, EpisodeLegal, EndsRight, EpisodeOf, Is, Latest
<1>3. ASSUME NEW e, SameRows(d, e), Sound(d)
      PROVE  Sound(e)
  BY <1>3 DEF SameRows, Sound, RowsRight, EventsRight, ClosedIdle, EpisodeOf, Is, Latest
<1> QED  BY <1>1, <1>2, <1>3

(* The event of an attempt that goes on does not say that it ended. *)
WorkKey(key) == key \in Event \cup {fresh} /\ \A q \in Runs, o \in Irrevocable : EndKey(q, o) # key

LEMMA WorkKeys ==
    ASSUME NEW r \in Runs
    PROVE  /\ WorkKey(fresh) /\ WorkKey(<<"deferred", r>>) /\ WorkKey(<<"resumed">>)
           /\ \A k \in Nat : WorkKey(<<"lease", r, k>>)
           /\ \A s \in EpisodeState : WorkKey(<<"phase", r, s>>)
<1>1. WorkKey(fresh)
  <2>1. ASSUME NEW q \in Runs, NEW o \in Irrevocable PROVE EndKey(q, o) # fresh  BY KeyFacts
  <2> QED  BY <2>1 DEF WorkKey
<1>2. WorkKey(<<"deferred", r>>)
  <2>1. ASSUME NEW q \in Runs, NEW o \in Irrevocable PROVE EndKey(q, o) # <<"deferred", r>>
    BY KeyFacts
  <2>2. <<"deferred", r>> \in Event  BY KeyTypes
  <2> QED  BY <2>1, <2>2, Zenon DEF WorkKey
<1>3. WorkKey(<<"resumed">>)  BY KeyFacts, KeyTypes DEF WorkKey
<1>4. ASSUME NEW k \in Nat PROVE WorkKey(<<"lease", r, k>>)
  BY KeyFacts, KeyTypes DEF WorkKey
<1>5. ASSUME NEW s \in EpisodeState PROVE WorkKey(<<"phase", r, s>>)
  BY KeyFacts, KeyTypes DEF WorkKey
<1> QED  BY <1>1, <1>2, <1>3, <1>4, <1>5

(* A run goes on: its episode is being worked. *)
LEMMA WorkLegal ==
    ASSUME NEW d, Sound(d), NEW r \in Runs, ~Is(d, r, Settled),
           NEW row \in Row, Follows(row, d.run[r]), row.state \notin Final \cup {"absent"},
           row.state \in {"applying", "finalizing"} => Result(row),
           NEW key, WorkKey(key)
    PROVE  LET c == Commit(d, r, row, "active", key)
           IN /\ Legal(d, c, r)
              /\ ~Refused(d, r, "active", key) => c.run[r] = row
              /\ c = d \/ c.run[r] = row
<1> DEFINE c == Commit(d, r, row, "active", key)
<1>1. /\ d \in Database /\ d.run[r] \in Row /\ d.run[r].episode \in Runs
      /\ row.episode = d.run[r].episode /\ "active" \in EpisodeState
      /\ key \in Event \cup {fresh} /\ \A q \in Runs, o \in Irrevocable : EndKey(q, o) # key
  BY DEF Sound, Database, RowsRight, Follows, Settled, Is, EpisodeState, WorkKey
<1>2. CASE Refused(d, r, "active", key)
  <2>1. c = d  BY <1>1, <1>2, CommitFacts
  <2> QED  BY <1>2, <2>1, UnchangedLegal
<1>3. CASE ~Refused(d, r, "active", key)
  <2>1. /\ c \in Database /\ c.run[r] = row /\ \A q \in Runs \ {r} : c.run[q] = d.run[q]
        /\ Moved(d, c, r, "active", key)
    BY <1>1, <1>3, CommitFacts
  <2> HIDE DEF c
  <2>2. RowLegal(d, c, r)  BY <2>1 DEF RowLegal, Is, Settled
  <2>3. "active" \notin Final  BY DEF Final
  <2>4. Latest(d, r) => EpisodeOf(c, r).state \notin Final
    BY <1>3, <2>1, <2>3 DEF Moved, Unmoved, Dropped, Refused
  <2>5. EpisodeOf(c, r).state \in Final => EpisodeOf(d, r).state \in Final
    BY <2>1, <2>3 DEF Moved
  <2>6. \A q \in Runs, ended \in Irrevocable : EndKey(q, ended) \in EpisodeOf(c, r).events =>
            EndKey(q, ended) \in EpisodeOf(d, r).events
    BY <1>1, <2>1 DEF Moved
  <2>7. EpisodeLegal(d, c, r)  BY <2>1, <2>4, <2>5, <2>6 DEF EpisodeLegal, Moved
  <2>8. EndsRight(d, c, r)  BY <2>1 DEF EndsRight, Is
  <2> QED  BY <2>1, <2>2, <2>7, <2>8 DEF Legal, c
<1> QED  BY <1>2, <1>3

(* A run ends, and its episode with it when it is the newest attempt. *)
LEMMA EndLegal ==
    ASSUME NEW d, Sound(d), NEW r \in Runs, ~Is(d, r, Settled),
           NEW row \in Row, Follows(row, d.run[r]), row.state \in Final,
           NEW key \in Event \cup {fresh},
           \A q \in Runs, ended \in Irrevocable :
              EndKey(q, ended) = key => q = r /\ ended = row.state,
           Holds(EpisodeOf(d, r), key) =>
              row.state = "failed" /\ FailedBefore(EpisodeOf(d, r), r)
    PROVE  LET c == Commit(d, r, row, row.state, key)
           IN Legal(d, c, r) /\ (c = d \/ c.run[r] = row)
<1> DEFINE c == Commit(d, r, row, row.state, key)
<1>1. /\ d \in Database /\ d.run[r] \in Row /\ d.run[r].episode \in Runs
      /\ row.episode = d.run[r].episode /\ row.state \in EpisodeState
  BY DEF Sound, Database, RowsRight, Follows, Settled, Is, EpisodeState
<1>2. CASE Refused(d, r, row.state, key)
  <2>1. c = d  BY <1>1, <1>2, CommitFacts
  <2> QED  BY <1>2, <2>1, UnchangedLegal
<1>3. CASE ~Refused(d, r, row.state, key)
  <2>1. /\ c \in Database /\ c.run[r] = row /\ \A q \in Runs \ {r} : c.run[q] = d.run[q]
        /\ Moved(d, c, r, row.state, key)
    BY <1>1, <1>3, CommitFacts
  <2> HIDE DEF c
  <2>2. row.state \notin {"absent", "applying", "finalizing", "active"} /\ row.state \notin Working
    BY DEF Final, Working
  <2>3. RowLegal(d, c, r)  BY <2>1, <2>2 DEF RowLegal, Is, Settled
  <2>4. EpisodeOf(c, r).state \in Final => EpisodeOf(d, r).state \in Final \/ Latest(d, r)
    BY <2>1 DEF Moved, Unmoved, Dropped
  <2>5. \A q \in Runs, ended \in Irrevocable : EndKey(q, ended) \in EpisodeOf(c, r).events =>
            EndKey(q, ended) \in EpisodeOf(d, r).events \/ (q = r /\ row.state = ended)
    BY <2>1 DEF Moved
  <2>6. EpisodeLegal(d, c, r)
    BY <2>1, <2>2, <2>4, <2>5 DEF EpisodeLegal, Moved, Is
  <2>7. EndsRight(d, c, r)
    BY <2>1, <2>2 DEF EndsRight, Moved, Unmoved, Dropped, Is
  <2> QED  BY <2>1, <2>3, <2>6, <2>7 DEF Legal, c
<1> QED  BY <1>2, <1>3

(* A row is written, and the episode is left where it is. *)
LEMMA WriteLegal ==
    ASSUME NEW d, Sound(d), NEW r \in Runs, ~Is(d, r, {"absent"}),
           NEW row \in Row, Follows(row, d.run[r]), row.state # "absent",
           Is(d, r, Irrevocable) => row.state = d.run[r].state,
           row.state \in {"applying", "finalizing"} => Result(row),
           row.state \in Working => Is(d, r, Working),
           row.state \in Final /\ ~Is(d, r, Final) /\ Latest(d, r) =>
              EpisodeOf(d, r).state # "active"
    PROVE  Legal(d, Write(d, r, row), r) /\ Write(d, r, row).run[r] = row
<1> DEFINE c == Write(d, r, row)
<1>1. /\ d \in Database /\ d.run[r].episode \in Runs /\ row.episode = d.run[r].episode
  BY DEF Sound, RowsRight, Follows
<1>2. /\ c \in Database /\ c.run[r] = row /\ \A q \in Runs \ {r} : c.run[q] = d.run[q]
      /\ c.episode = d.episode
  BY <1>1, WriteFacts
<1> HIDE DEF c
<1>3. EpisodeOf(c, r) = EpisodeOf(d, r)  BY <1>1, <1>2 DEF EpisodeOf
<1>4. RowLegal(d, c, r)  BY <1>2 DEF RowLegal, Is
<1>5. EpisodeLegal(d, c, r)
  BY <1>2, <1>3 DEF EpisodeLegal, Sound, ClosedIdle, Is
<1>6. EndsRight(d, c, r)  BY <1>2, <1>3 DEF EndsRight, Is
<1> QED  BY <1>2, <1>4, <1>5, <1>6 DEF Legal, c
-----------------------------------------------------------------------------
(* The store's methods, one by one.                                         *)
LEMMA States ==
    ASSUME NEW d, Sound(d), NEW r \in Runs
    PROVE  /\ d.run[r] \in Row
           /\ Is(d, r, {"pending"} \cup Active \cup {"failed"}) => ~Is(d, r, Settled)
           /\ Is(d, r, Active \cup {"pending"}) => ~Is(d, r, Final)
           /\ Final \subseteq State /\ Active \subseteq State
           /\ {"pending", "preparing", "running", "applying", "finalizing"} \subseteq State
           /\ {"pending", "preparing", "running", "applying", "finalizing"}
                 \cap (Final \cup {"absent"}) = {}
           /\ {"completed", "failed", "cancelled", "superseded"} = Final
           /\ "pending" \notin Active
BY DEF Sound, Database, Is, Settled, Irrevocable, Active, Final, State

LEMMA PendingLegal ==
    ASSUME NEW d, Sound(d), NEW r \in Runs, ~Is(d, r, Settled),
           NEW row \in Row, Follows(row, d.run[r]), row.state = "pending",
           NEW key, WorkKey(key), NEW c, c = Commit(d, r, row, "active", key)
    PROVE  /\ Legal(d, c, r) /\ StaysIdle(d, c, r)
           /\ c = d \/ c.run[r].state = "pending"
<1>1. Legal(d, c, r) /\ (c = d \/ c.run[r] = row)
  BY WorkLegal DEF Final
<1> QED  BY <1>1 DEF StaysIdle, Is, Active

LEMMA DeferLegal ==
    ASSUME NEW d, Sound(d), NEW r \in Runs
    PROVE  LET c == DeferAgentRun(d, r)
           IN Legal(d, c, r) /\ StaysIdle(d, c, r) /\ (c = d \/ c.run[r].state = "pending")
<1> DEFINE row == [d.run[r] EXCEPT !.state = "pending"]
           c == DeferAgentRun(d, r)
<1>1. CASE ~Is(d, r, {"preparing"})
  <2>1. c = d  BY <1>1 DEF DeferAgentRun
  <2> QED  BY <2>1, UnchangedLegal
<1>2. CASE Is(d, r, {"preparing"})
  <2>1. row \in Row /\ Follows(row, d.run[r]) /\ row.state = "pending"  BY States, RowTypes
  <2>2. ~Is(d, r, Settled)  BY <1>2, States DEF Is, Active
  <2>3. c = Commit(d, r, row, "active", <<"deferred", r>>)  BY <1>2 DEF DeferAgentRun
  <2> HIDE DEF row, c
  <2>4. Legal(d, c, r) /\ StaysIdle(d, c, r) /\ (c = d \/ c.run[r].state = "pending")
    BY <2>1, <2>2, <2>3, WorkKeys, PendingLegal
  <2> QED  BY <2>4 DEF c
<1> QED  BY <1>1, <1>2

LEMMA ReleaseLegal ==
    ASSUME NEW d, Sound(d), NEW r \in Runs
    PROVE  LET c == ReleaseAgentRunRevision(d, r)
           IN /\ Legal(d, c, r) /\ StaysIdle(d, c, r) /\ c.run[r].state = d.run[r].state
<1> DEFINE renewed == Renewed(d.run[r])
           row == [renewed EXCEPT !.state = "preparing"]
           c == ReleaseAgentRunRevision(d, r)
<1>1. CASE ~Is(d, r, {"preparing"})
  <2>1. c = d  BY <1>1 DEF ReleaseAgentRunRevision
  <2> QED  BY <2>1, UnchangedLegal
<1>2. CASE Is(d, r, {"preparing"})
  <2>1. c = Write(d, r, row)  BY <1>2 DEF ReleaseAgentRunRevision
  <2>2. renewed \in Row /\ Follows(renewed, d.run[r]) /\ d.run[r] \in Row
    BY States, RenewedTypes
  <2> HIDE DEF renewed
  <2>3. row \in Row /\ Follows(row, renewed) /\ row.state = "preparing"
    BY <2>2, States, RowTypes
  <2> HIDE DEF row, c
  <2>4. Follows(row, d.run[r])  BY <2>2, <2>3, FollowsTransitive
  <2>5. ~Is(d, r, Irrevocable) /\ ~Is(d, r, {"absent"}) /\ Is(d, r, Working)
    BY <1>2 DEF Is, Irrevocable, Working
  <2>6. Legal(d, c, r) /\ c.run[r] = row
    BY <2>1, <2>3, <2>4, <2>5, WriteLegal DEF Final
  <2>7. StaysIdle(d, c, r) /\ c.run[r].state = d.run[r].state
    BY <1>2, <2>3, <2>6 DEF StaysIdle, Is, Active
  <2> QED  BY <2>6, <2>7 DEF c
<1> QED  BY <1>1, <1>2

LEMMA RateLimitedLegal ==
    ASSUME NEW d, Sound(d), NEW r \in Runs
    PROVE  LET c == RequeueRateLimited(d, r)
           IN Legal(d, c, r) /\ StaysIdle(d, c, r) /\ (c = d \/ c.run[r].state = "pending")
<1> DEFINE row == Renewed(d.run[r])
           c == RequeueRateLimited(d, r)
<1>1. CASE ~Is(d, r, {"preparing", "running", "finalizing"})
  <2>1. c = d  BY <1>1 DEF RequeueRateLimited
  <2> QED  BY <2>1, UnchangedLegal
<1>2. CASE Is(d, r, {"preparing", "running", "finalizing"})
  <2>1. row \in Row /\ Follows(row, d.run[r]) /\ row.state = "pending"
    BY States, RenewedTypes
  <2>2. ~Is(d, r, Settled)  BY <1>2, States DEF Is, Active
  <2>3. c = Commit(d, r, row, "active", fresh)  BY <1>2 DEF RequeueRateLimited
  <2> HIDE DEF row, c
  <2>4. Legal(d, c, r) /\ StaysIdle(d, c, r) /\ (c = d \/ c.run[r].state = "pending")
    BY <2>1, <2>2, <2>3, WorkKeys, PendingLegal
  <2> QED  BY <2>4 DEF c
<1> QED  BY <1>1, <1>2

LEMMA EndingLegal ==
    ASSUME NEW d, Sound(d), NEW r \in Runs, ~Is(d, r, Settled),
           NEW row \in Row, Follows(row, d.run[r]), row.state = "failed",
           NEW c, c = Commit(d, r, row, "failed", fresh)
    PROVE  Legal(d, c, r) /\ StaysIdle(d, c, r) /\ (c = d \/ c.run[r].state = "failed")
<1>1. fresh \notin EpisodeOf(d, r).events
  <2>1. d.run[r].episode \in Runs /\ d \in Database
    BY DEF Sound, RowsRight, Is, Settled
  <2> QED  BY <2>1, KeyTypes DEF Database, Episode, EpisodeOf
<1>2. \A q \in Runs, o \in Irrevocable : EndKey(q, o) # fresh
  <2> SUFFICES ASSUME NEW q \in Runs, NEW o \in Irrevocable PROVE EndKey(q, o) # fresh
    OBVIOUS
  <2> QED  BY KeyFacts
<1>3. row.state \in Final  BY DEF Final
<1>4. Legal(d, c, r) /\ (c = d \/ c.run[r] = row)
  BY <1>1, <1>2, <1>3, EndLegal DEF Holds
<1> QED  BY <1>4 DEF StaysIdle, Is, Active

LEMMA RetryLegal ==
    ASSUME NEW d, Sound(d), NEW r \in Runs, NEW terminal \in BOOLEAN
    PROVE  LET c == RetryAgentRun(d, r, terminal) IN Legal(d, c, r) /\ StaysIdle(d, c, r)
<1> DEFINE renewed == Renewed(d.run[r])
           failing == Failing(renewed)
           row == [failing EXCEPT !.state = "failed"]
           c == RetryAgentRun(d, r, terminal)
<1>1. CASE ~Is(d, r, {"preparing", "finalizing"})
  <2>1. c = d  BY <1>1 DEF RetryAgentRun
  <2> QED  BY <2>1, UnchangedLegal
<1>2. CASE Is(d, r, {"preparing", "finalizing"})
  <2>1. ~Is(d, r, Settled)  BY <1>2, States DEF Is, Active
  <2>2. c = IF terminal THEN Commit(d, r, row, "failed", fresh)
            ELSE Commit(d, r, failing, "active", fresh)
    BY <1>2 DEF RetryAgentRun
  <2>3. renewed \in Row /\ Follows(renewed, d.run[r]) /\ d.run[r] \in Row /\ renewed.state = "pending"
    BY States, RenewedTypes
  <2> HIDE DEF renewed
  <2>4. failing \in Row /\ Follows(failing, renewed) /\ failing.state = "pending"
    BY <2>3, RenewedTypes
  <2> HIDE DEF failing
  <2>5. row \in Row /\ Follows(row, failing) /\ row.state = "failed"
    BY <2>4, RowTypes DEF State, Final
  <2>6. Follows(failing, d.run[r]) /\ Follows(row, d.run[r])
    BY <2>3, <2>4, <2>5, FollowsTransitive
  <2> HIDE DEF row, c
  <2>7. CASE terminal
    <3>1. c = Commit(d, r, row, "failed", fresh)  BY <2>2, <2>7
    <3> QED  BY <3>1, <2>1, <2>5, <2>6, EndingLegal DEF c
  <2>8. CASE ~terminal
    <3>1. c = Commit(d, r, failing, "active", fresh)  BY <2>2, <2>8
    <3> QED  BY <3>1, <2>1, <2>4, <2>6, WorkKeys, PendingLegal DEF c
  <2> QED  BY <2>7, <2>8
<1> QED  BY <1>1, <1>2

LEMMA MarkLegal ==
    ASSUME NEW d, Sound(d), NEW r \in Runs
    PROVE  LET c == MarkAgentRunSubmitted(d, r) IN Legal(d, c, r) /\ StaysIdle(d, c, r)
<1> DEFINE row == [d.run[r] EXCEPT !.state = "running", !.bound = TRUE, !.started = TRUE]
           marked == Commit(d, r, row, "active", fresh)
           c == MarkAgentRunSubmitted(d, r)
<1>1. CASE ~Is(d, r, {"preparing"})
  <2>1. c = d  BY <1>1 DEF MarkAgentRunSubmitted
  <2> QED  BY <2>1, UnchangedLegal
<1>2. CASE Is(d, r, {"preparing"})
  <2>1. ~Is(d, r, Settled)  BY <1>2, States DEF Is, Active
  <2>2. c = IF Incident(r) /\ marked # d
            THEN [marked EXCEPT !.active = Turn(marked, r), !.shut = FALSE] ELSE marked
    BY <1>2 DEF MarkAgentRunSubmitted
  <2> d.run[r] \in Row  BY States
  <2>3. row \in Row /\ Follows(row, d.run[r]) /\ row.state = "running"
    BY MarkedTypes, Zenon
  <2> HIDE DEF row
  <2>4. Legal(d, marked, r)
    BY <2>1, <2>3, WorkKeys, WorkLegal DEF Final
  <2> HIDE DEF marked, c
  <2>5. Turn(marked, r) \in TurnOf
    BY <2>4 DEF Turn, TurnOf, Legal, Database, Row
  <2>6. c = marked \/ SameRows(marked, c)
    BY <2>2, <2>4, <2>5 DEF SameRows, Legal, Database
  <2>7. Legal(d, c, r)  BY <2>4, <2>6, SameRowsLegal
  <2>8. StaysIdle(d, c, r)  BY <1>2 DEF StaysIdle, Is, Active
  <2> QED  BY <2>7, <2>8 DEF c
<1> QED  BY <1>1, <1>2

LEMMA SupersedeLegal ==
    ASSUME NEW d, Sound(d), NEW r \in Runs
    PROVE  LET c == SupersedeAgentRun(d, r) IN Legal(d, c, r) /\ StaysIdle(d, c, r)
<1> DEFINE row == [d.run[r] EXCEPT !.state = "superseded"]
           key == <<"superseded", r>>
           c == SupersedeAgentRun(d, r)
<1>1. CASE ~Is(d, r, {"preparing", "finalizing"})
  <2>1. c = d  BY <1>1 DEF SupersedeAgentRun
  <2> QED  BY <2>1, UnchangedLegal
<1>2. CASE Is(d, r, {"preparing", "finalizing"})
  <2>1. ~Is(d, r, Settled) /\ d.run[r].state # "superseded"
    BY <1>2, States DEF Is, Active
  <2>2. c = Commit(d, r, row, "superseded", key)  BY <1>2 DEF SupersedeAgentRun
  <2>3. row \in Row /\ Follows(row, d.run[r]) /\ row.state = "superseded"
    BY States, RowTypes DEF State, Final
  <2>4. key = EndKey(r, "superseded") /\ key \in Event /\ "superseded" \in Irrevocable
    BY KeyTypes DEF EndKey, Irrevocable
  <2> HIDE DEF row, key, c
  <2>5. d.run[r].episode \in Runs  BY <2>1 DEF Sound, RowsRight, Is, Settled
  <2>6. ~Holds(EpisodeOf(d, r), key)
    BY <2>1, <2>4, <2>5 DEF Sound, EventsRight, EpisodeOf, Holds
  <2>7. \A q \in Runs, o \in Irrevocable : EndKey(q, o) = key => q = r /\ o = "superseded"
    BY <2>4, KeyFacts
  <2>8. Legal(d, c, r) /\ (c = d \/ c.run[r] = row)
    BY <2>1, <2>2, <2>3, <2>4, <2>6, <2>7, EndLegal DEF Final
  <2>9. StaysIdle(d, c, r)  BY <1>2, <2>3, <2>8 DEF StaysIdle, Is, Active
  <2> QED  BY <2>8, <2>9 DEF c
<1> QED  BY <1>1, <1>2

LEMMA ReleasedFacts ==
    ASSUME NEW d, Sound(d), NEW r \in Runs
    PROVE  /\ SameRows(d, Released(d, r)) /\ Sound(Released(d, r))
           /\ \A q \in Runs : Is(Released(d, r), q, Settled) <=> Is(d, q, Settled)
           /\ \A state, key : Refused(Released(d, r), r, state, key) <=> Refused(d, r, state, key)
<1>1. none \in TurnOf  BY DEF TurnOf
<1>2. SameRows(d, Released(d, r))
  BY <1>1 DEF SameRows, Released, Sound, Database
<1>3. Sound(Released(d, r))  BY <1>2, SameRowsLegal
<1>4. \A q \in Runs : Is(Released(d, r), q, Settled) <=> Is(d, q, Settled)
  BY <1>2 DEF SameRows, Is
<1>5. \A state, key : Refused(Released(d, r), r, state, key) <=> Refused(d, r, state, key)
  BY <1>2 DEF SameRows, Refused, Dropped, Closed, Latest, EpisodeOf
<1> QED  BY <1>2, <1>3, <1>4, <1>5

LEMMA RequeueLegal ==
    ASSUME NEW d, Sound(d), NEW r \in Runs, NEW spends \in BOOLEAN
    PROVE  LET c == RequeueAgentRun(d, r, spends) IN Legal(d, c, r) /\ StaysIdle(d, c, r)
<1> DEFINE row == Restaged(d.run[r])
           next == IF spends THEN Failing(row) ELSE [row EXCEPT !.corrections = @ + 1]
           given == [next EXCEPT !.state = "superseded"]
           m == Released(d, r)
           c == RequeueAgentRun(d, r, spends)
<1>1. CASE ~Is(d, r, {"running", "finalizing"}) \/ ~Releasable(d, r)
  <2>1. c = d  BY <1>1 DEF RequeueAgentRun
  <2> QED  BY <2>1, UnchangedLegal
<1>2. CASE Is(d, r, {"running", "finalizing"}) /\ Releasable(d, r)
  <2>1. ~Is(d, r, Settled)  BY <1>2, States DEF Is, Active
  <2>2. c = IF Refused(d, r, "active", fresh) THEN Write(m, r, given)
            ELSE Commit(m, r, next, "active", fresh)
    BY <1>2 DEF RequeueAgentRun
  <2>3. row \in Row /\ Follows(row, d.run[r]) /\ d.run[r] \in Row /\ row.state = "pending"
    BY States, RestagedTypes
  <2> HIDE DEF row
  <2>4. next \in Row /\ Follows(next, row) /\ next.state = "pending"
    BY <2>3, RenewedTypes, CorrectedTypes
  <2> HIDE DEF next
  <2>5. given \in Row /\ Follows(given, next) /\ given.state = "superseded"
    BY <2>4, RowTypes DEF State, Final
  <2>6. Follows(next, d.run[r]) /\ Follows(given, d.run[r])
    BY <2>3, <2>4, <2>5, FollowsTransitive
  <2>7. SameRows(d, m) /\ Sound(m) /\ ~Is(m, r, Settled) /\ m.run[r] = d.run[r]
    BY <2>1, ReleasedFacts DEF SameRows
  <2> HIDE DEF given, m, c
  <2>8. CASE Refused(d, r, "active", fresh)
    <3>1. ~Latest(d, r)
      <4>1. d.run[r].episode \in Runs /\ d \in Database
        BY <2>1 DEF Sound, RowsRight, Is, Settled
      <4>2. fresh \notin EpisodeOf(d, r).events
        BY <4>1, KeyTypes DEF Database, Episode, EpisodeOf
      <4>3. "active" \notin Final  BY DEF Final
      <4> QED  BY <2>8, <4>2, <4>3 DEF Refused, Closed, Holds
    <3>2. ~Latest(m, r)  BY <2>7, <3>1 DEF SameRows, Latest, EpisodeOf
    <3>3. ~Is(m, r, {"absent"}) /\ ~Is(m, r, Irrevocable)
      BY <2>7 DEF Is, Settled
    <3>4. Legal(m, c, r) /\ c.run[r] = given
      BY <2>2, <2>5, <2>6, <2>7, <2>8, <3>2, <3>3, WriteLegal DEF Working
    <3>5. Legal(d, c, r)  BY <2>7, <3>4, SameRowsLegal
    <3>6. StaysIdle(d, c, r)  BY <2>5, <3>4 DEF StaysIdle, Is, Active
    <3> QED  BY <3>5, <3>6 DEF c
  <2>9. CASE ~Refused(d, r, "active", fresh)
    <3>1. c = Commit(m, r, next, "active", fresh)  BY <2>2, <2>9
    <3>2. Legal(m, c, r) /\ StaysIdle(m, c, r)
      BY <2>4, <2>6, <2>7, <3>1, WorkKeys, PendingLegal
    <3>3. Legal(d, c, r)  BY <2>7, <3>2, SameRowsLegal
    <3>4. StaysIdle(d, c, r)  BY <2>7, <3>2 DEF StaysIdle, Is
    <3> QED  BY <3>3, <3>4 DEF c
  <2> QED  BY <2>8, <2>9
<1> QED  BY <1>1, <1>2

LEMMA DeferRunningLegal ==
    ASSUME NEW d, Sound(d), NEW r \in Runs
    PROVE  LET c == DeferRunningAgentRun(d, r) IN Legal(d, c, r) /\ StaysIdle(d, c, r)
<1> DEFINE row == Restaged(d.run[r])
           m == Released(d, r)
           c == DeferRunningAgentRun(d, r)
<1>1. CASE ~Is(d, r, {"running"}) \/ ~Releasable(d, r) \/ Refused(d, r, "active", fresh)
  <2>1. c = d  BY <1>1 DEF DeferRunningAgentRun
  <2> QED  BY <2>1, UnchangedLegal
<1>2. CASE ~(~Is(d, r, {"running"}) \/ ~Releasable(d, r) \/ Refused(d, r, "active", fresh))
  <2>1. ~Is(d, r, Settled)  BY <1>2, States DEF Is, Active
  <2>2. c = Commit(m, r, row, "active", fresh)  BY <1>2 DEF DeferRunningAgentRun
  <2>3. row \in Row /\ Follows(row, d.run[r]) /\ row.state = "pending"
    BY States, RestagedTypes
  <2>4. SameRows(d, m) /\ Sound(m) /\ ~Is(m, r, Settled) /\ m.run[r] = d.run[r]
    BY <2>1, ReleasedFacts DEF SameRows
  <2> HIDE DEF row, m, c
  <2>5. Legal(m, c, r) /\ StaysIdle(m, c, r)
    BY <2>2, <2>3, <2>4, WorkKeys, PendingLegal
  <2>6. Legal(d, c, r)  BY <2>4, <2>5, SameRowsLegal
  <2>7. StaysIdle(d, c, r)  BY <2>4, <2>5 DEF StaysIdle, Is
  <2> QED  BY <2>6, <2>7 DEF c
<1> QED  BY <1>1, <1>2

LEMMA StageLegal ==
    ASSUME NEW d, Sound(d), NEW r \in Runs, NEW result \in Answers \cup {"failed"}
    PROVE  LET c == StageAgentRunResult(d, r, result) IN Legal(d, c, r) /\ StaysIdle(d, c, r)
<1> DEFINE row == [d.run[r] EXCEPT !.state = "applying", !.staged = result]
           c == StageAgentRunResult(d, r, result)
<1>1. CASE ~Is(d, r, {"running"})
  <2>1. c = d  BY <1>1 DEF StageAgentRunResult
  <2> QED  BY <2>1, UnchangedLegal
<1>2. CASE Is(d, r, {"running"})
  <2>1. ~Is(d, r, Settled)  BY <1>2, States DEF Is, Active
  <2>2. c = Commit(d, r, row, "active", fresh)  BY <1>2 DEF StageAgentRunResult
  <2> d.run[r] \in Row  BY States
  <2>3. row \in Row /\ Follows(row, d.run[r]) /\ row.state = "applying" /\ Result(row)
    BY StagedTypes, Zenon
  <2> HIDE DEF row, c
  <2>4. Legal(d, c, r)  BY <2>1, <2>2, <2>3, WorkKeys, WorkLegal DEF Final
  <2>5. StaysIdle(d, c, r)  BY <1>2 DEF StaysIdle, Is, Active
  <2> QED  BY <2>4, <2>5 DEF c
<1> QED  BY <1>1, <1>2

LEMMA LeaseFinalizationLegal ==
    ASSUME NEW d, Sound(d), NEW r \in Runs, Is(d, r, {"applying"})
    PROVE  LET c == LeaseAgentRunFinalization(d, r)
           IN /\ Legal(d, c, r) /\ StaysIdle(d, c, r)
              /\ Is(c, r, {"finalizing", "superseded"})
              /\ c.run[r].staged = d.run[r].staged
              /\ Answered(d, r) => Is(c, r, {"finalizing"})
<1> DEFINE state == IF ~Answered(d, r) /\ ~Latest(d, r) THEN "superseded" ELSE "finalizing"
           row == [d.run[r] EXCEPT !.state = state]
           c == LeaseAgentRunFinalization(d, r)
<1>1. c = Write(d, r, row)  BY DEF LeaseAgentRunFinalization
<1>2. state \in {"finalizing", "superseded"} /\ state \in State
  BY DEF State, Active, Final
<1>3. Answered(d, r) \/ Latest(d, r) => state = "finalizing"  OBVIOUS
<1> HIDE DEF state
<1>4. /\ row \in Row /\ Follows(row, d.run[r]) /\ row.state = state
      /\ row.staged = d.run[r].staged
  BY <1>2, States, RowTypes
<1>5. Result(row)  BY <1>4 DEF Result, Sound, RowsRight, Is
<1>6. ~Is(d, r, Irrevocable) /\ ~Is(d, r, {"absent"})  BY DEF Is, Irrevocable
<1> HIDE DEF row, c
<1>7. Legal(d, c, r) /\ c.run[r] = row
  BY <1>1, <1>2, <1>3, <1>4, <1>5, <1>6, WriteLegal DEF Working, Final
<1>8. StaysIdle(d, c, r)  BY DEF StaysIdle, Is, Active
<1> QED  BY <1>2, <1>3, <1>4, <1>7, <1>8 DEF c, Is

LEMMA PhasedLegal ==
    ASSUME NEW d, Sound(d), NEW r \in Runs, ~Is(d, r, Working \cup {"absent"}),
           NEW state \in EpisodeState, NEW key, WorkKey(key)
    PROVE  LET c == Phased(d, r, state, key)
           IN Legal(d, c, r) /\ StaysIdle(d, c, r) /\ c.run = d.run
<1> DEFINE c == Phased(d, r, state, key)
<1>1. /\ d \in Database /\ d.run[r] \in Row /\ d.run[r].episode \in Runs
      /\ key \in Event \cup {fresh} /\ \A q \in Runs, o \in Irrevocable : EndKey(q, o) # key
  BY DEF Sound, Database, RowsRight, Is, WorkKey
<1>3. c \in Database /\ c.run = d.run /\ Moved(d, c, r, state, key)
  BY <1>1, PhasedFacts
<1> HIDE DEF c
<1>4. RowLegal(d, c, r)
  BY <1>1, <1>3 DEF RowLegal, Follows, Row, Sound, RowsRight, Is
<1>5. EpisodeOf(c, r).state \in Final => EpisodeOf(d, r).state \in Final \/ Latest(d, r)
  BY <1>3 DEF Moved, Unmoved, Dropped
<1>6. \A q \in Runs, ended \in Irrevocable : EndKey(q, ended) \in EpisodeOf(c, r).events =>
          EndKey(q, ended) \in EpisodeOf(d, r).events
  BY <1>1, <1>3 DEF Moved
<1>7. EpisodeLegal(d, c, r)
  BY <1>3, <1>5, <1>6 DEF EpisodeLegal, Moved, Is
<1>8. EndsRight(d, c, r) /\ StaysIdle(d, c, r)  BY <1>3 DEF EndsRight, StaysIdle, Is
<1> QED  BY <1>3, <1>4, <1>7, <1>8 DEF Legal, c

LEMMA PhaseLegal ==
    ASSUME NEW d, Sound(d), NEW r \in Runs, ~Is(d, r, Working \cup {"absent"}),
           NEW state \in EpisodeState
    PROVE  LET c == SetPhase(d, r, state)
           IN Legal(d, c, r) /\ StaysIdle(d, c, r) /\ c.run = d.run
BY WorkKeys, PhasedLegal DEF SetPhase

LEMMA FinishedLegal ==
    ASSUME NEW d, Sound(d), NEW r \in Runs, Is(d, r, {"pending"} \cup Active),
           NEW outcome \in {"completed", "failed", "cancelled"}
    PROVE  LET c == Finished(d, r, outcome)
           IN /\ Legal(d, c, r) /\ StaysIdle(d, c, r)
              /\ c = d \/ c.run[r].state = outcome
<1> DEFINE row == [d.run[r] EXCEPT !.state = outcome,
                                   !.failures = IF outcome = "failed" THEN @ + 1 ELSE @]
           freed == Freed(d, r)
           key == <<"finished", r, outcome>>
           c == Finished(d, r, outcome)
<1>1. ~Is(d, r, Settled) /\ ~Is(d, r, {"absent"}) /\ ~Is(d, r, Irrevocable) /\ d.run[r].state # outcome
  BY States DEF Is, Settled, Active, Irrevocable
<1>2. c = IF EpisodeOf(d, r).state = "active" THEN Commit(freed, r, row, outcome, key)
          ELSE Write(freed, r, row)
  BY DEF Finished
<1> d.run[r] \in Row /\ outcome \in State  BY States DEF State, Final
<1>3. row \in Row /\ Follows(row, d.run[r]) /\ row.state = outcome  BY FinishedTypes, Zenon
<1>4. outcome \in Final /\ outcome \in EpisodeState /\ outcome \notin Working \cup Active \cup {"absent"}
  BY DEF Final, EpisodeState, Working, Active
<1>5. SameRows(d, freed)
  BY DEF SameRows, Sound, Database, TurnOf, Freed
<1> HIDE DEF row, freed
<1>6. Sound(freed)  BY <1>5, SameRowsLegal
<1>7. /\ freed.run[r] = d.run[r] /\ EpisodeOf(freed, r) = EpisodeOf(d, r)
      /\ Latest(freed, r) <=> Latest(d, r)
  BY <1>5 DEF SameRows, EpisodeOf, Latest
<1>8. key \in Event  BY <1>4, KeyTypes
<1>9. d.run[r].episode \in Runs  BY <1>1 DEF Sound, RowsRight
<1>10. Holds(EpisodeOf(d, r), key) => outcome = "failed" /\ FailedBefore(EpisodeOf(d, r), r)
  <2>1. CASE outcome = "failed"  BY <2>1 DEF FailedBefore
  <2>2. CASE outcome # "failed"
    <3>1. outcome \in Irrevocable /\ key = EndKey(r, outcome)  BY <2>2 DEF Irrevocable, EndKey
    <3> QED  BY <3>1, <1>1, <1>9 DEF Sound, EventsRight, EpisodeOf, Holds
  <2> QED  BY <2>1, <2>2
<1>11. \A q \in Runs, o \in Irrevocable : EndKey(q, o) = key => q = r /\ o = outcome
  <2> SUFFICES ASSUME NEW q \in Runs, NEW o \in Irrevocable, EndKey(q, o) = key
               PROVE  q = r /\ o = outcome
    OBVIOUS
  <2>1. CASE outcome = "failed"  BY <2>1, KeyFacts
  <2>2. CASE outcome # "failed"
    <3>1. outcome \in Irrevocable /\ key = EndKey(r, outcome)  BY <2>2 DEF Irrevocable, EndKey
    <3> HIDE DEF key
    <3> QED  BY <3>1, KeyFacts
  <2> QED  BY <2>1, <2>2
<1> HIDE DEF key, c
<1>12. CASE EpisodeOf(d, r).state = "active"
  <2>1. c = Commit(freed, r, row, row.state, key)  BY <1>2, <1>3, <1>12
  <2>2. ~Is(freed, r, Settled) /\ Follows(row, freed.run[r])  BY <1>1, <1>3, <1>7 DEF Is
  <2>3. Holds(EpisodeOf(freed, r), key) => row.state = "failed" /\ FailedBefore(EpisodeOf(freed, r), r)
    BY <1>3, <1>7, <1>10
  <2>4. Legal(freed, c, r) /\ (c = freed \/ c.run[r] = row)
    BY <1>3, <1>4, <1>6, <1>8, <1>11, <2>1, <2>2, <2>3, EndLegal
  <2>5. ~Refused(freed, r, row.state, key)
    BY <1>3, <1>4, <1>7, <1>12 DEF Refused, Closed, Final
  <2>6. c.run[r] = row
    <3>1. freed \in Database /\ freed.run[r].episode \in Runs /\ row.episode = freed.run[r].episode
      BY <1>3, <1>5, <1>7, <1>9 DEF SameRows, Follows
    <3> QED  BY <1>3, <1>4, <1>8, <2>1, <2>5, <3>1, CommitFacts
  <2>7. Legal(d, c, r)  BY <1>5, <2>4, SameRowsLegal
  <2> QED  BY <1>3, <1>4, <2>6, <2>7 DEF StaysIdle, Is, c
<1>13. CASE EpisodeOf(d, r).state # "active"
  <2>1. c = Write(freed, r, row)  BY <1>2, <1>13
  <2>2. ~Is(freed, r, {"absent"}) /\ ~Is(freed, r, Irrevocable) /\ Follows(row, freed.run[r])
    BY <1>1, <1>3, <1>7 DEF Is
  <2>3. row.state # "absent" /\ row.state \notin Working /\ row.state \notin {"applying", "finalizing"}
    BY <1>3, <1>4 DEF Active
  <2>4. Legal(freed, c, r) /\ c.run[r] = row
    BY <1>3, <1>6, <1>7, <1>13, <2>1, <2>2, <2>3, WriteLegal
  <2>5. Legal(d, c, r)  BY <1>5, <2>4, SameRowsLegal
  <2> QED  BY <1>3, <1>4, <2>4, <2>5 DEF StaysIdle, Is, c
<1> QED  BY <1>12, <1>13

LEMMA FinishLegal ==
    ASSUME NEW d, Sound(d), NEW r \in Runs
    PROVE  LET c == FinishAgentRun(d, r) IN Legal(d, c, r) /\ StaysIdle(d, c, r)
<1> DEFINE outcome == IF Answered(d, r) THEN "completed" ELSE d.run[r].staged
           c == FinishAgentRun(d, r)
<1>1. CASE ~Is(d, r, {"finalizing"})
  <2>1. c = d  BY <1>1 DEF FinishAgentRun
  <2> QED  BY <2>1, UnchangedLegal
<1>2. CASE Is(d, r, {"finalizing"})
  <2>1. c = Finished(d, r, outcome)  BY <1>2 DEF FinishAgentRun
  <2>2. Result(d.run[r])  BY <1>2 DEF Sound, RowsRight, Is
  <2>3. outcome \in {"completed", "failed", "cancelled"}  BY <2>2 DEF Result, Answered
  <2>4. Is(d, r, {"pending"} \cup Active)  BY <1>2 DEF Is, Active
  <2> HIDE DEF outcome, c
  <2> QED  BY <2>1, <2>3, <2>4, FinishedLegal DEF c
<1> QED  BY <1>1, <1>2

LEMMA FinishFailureLegal ==
    ASSUME NEW d, Sound(d), NEW r \in Runs
    PROVE  LET c == FinishAgentRunFailure(d, r) IN Legal(d, c, r) /\ StaysIdle(d, c, r)
<1> DEFINE outcome == IF Is(d, r, {"finalizing"}) /\ Answered(d, r) /\ d.run[r].told = d.run[r].key
                      THEN "completed" ELSE "failed"
           c == FinishAgentRunFailure(d, r)
<1>1. CASE ~Is(d, r, {"preparing", "finalizing"})
  <2>1. c = d  BY <1>1 DEF FinishAgentRunFailure
  <2> QED  BY <2>1, UnchangedLegal
<1>2. CASE Is(d, r, {"preparing", "finalizing"})
  <2>1. c = IF ~Latest(d, r) THEN SupersedeAgentRun(d, r) ELSE Finished(d, r, outcome)
    BY <1>2 DEF FinishAgentRunFailure
  <2>2. outcome \in {"completed", "failed", "cancelled"}  OBVIOUS
  <2>3. Is(d, r, {"pending"} \cup Active)  BY <1>2 DEF Is, Active
  <2> HIDE DEF outcome, c
  <2> QED  BY <2>1, <2>2, <2>3, FinishedLegal, SupersedeLegal DEF c
<1> QED  BY <1>1, <1>2

LEMMA ReturnLegal ==
    ASSUME NEW d, Sound(d), NEW r \in Runs
    PROVE  /\ LET c == ReturnToApplying(d, r) IN Legal(d, c, r) /\ StaysIdle(d, c, r)
           /\ LET c == RetryAgentRunFinalization(d, r) IN Legal(d, c, r) /\ StaysIdle(d, c, r)
<1> DEFINE returned == [d.run[r] EXCEPT !.state = "applying"]
           failing == Failing(returned)
<1>1. CASE ~Is(d, r, {"finalizing"})
  <2>1. ReturnToApplying(d, r) = d /\ RetryAgentRunFinalization(d, r) = d
    BY <1>1 DEF ReturnToApplying, RetryAgentRunFinalization
  <2> QED  BY <2>1, UnchangedLegal
<1>2. CASE Is(d, r, {"finalizing"})
  <2>1. /\ ReturnToApplying(d, r) = Write(d, r, returned)
        /\ RetryAgentRunFinalization(d, r) = Write(d, r, failing)
    BY <1>2 DEF ReturnToApplying, RetryAgentRunFinalization
  <2>2. /\ returned \in Row /\ Follows(returned, d.run[r]) /\ returned.state = "applying"
        /\ returned.staged = d.run[r].staged /\ d.run[r] \in Row
    BY States, RowTypes
  <2> HIDE DEF returned
  <2>3. /\ failing \in Row /\ Follows(failing, returned) /\ failing.state = "applying"
        /\ failing.staged = d.run[r].staged
    BY <2>2, RenewedTypes
  <2> HIDE DEF failing
  <2>4. Follows(failing, d.run[r])  BY <2>2, <2>3, FollowsTransitive
  <2>5. Result(returned) /\ Result(failing)
    BY <1>2, <2>2, <2>3 DEF Result, Sound, RowsRight, Is
  <2>6. ~Is(d, r, {"absent"}) /\ ~Is(d, r, Irrevocable)  BY <1>2 DEF Is, Irrevocable
  <2>7. Legal(d, Write(d, r, returned), r) /\ Legal(d, Write(d, r, failing), r)
    BY <2>2, <2>3, <2>4, <2>5, <2>6, WriteLegal DEF Final, Working
  <2>8. \A c : StaysIdle(d, c, r)  BY <1>2 DEF StaysIdle, Is, Active
  <2> QED  BY <2>1, <2>7, <2>8
<1> QED  BY <1>1, <1>2

LEMMA RevivedLegal ==
    ASSUME NEW d, Sound(d), NEW r \in Runs
    PROVE  LET c == RequeueFailed(d, r) IN Legal(d, c, r) /\ StaysIdle(d, c, r)
<1> DEFINE row == Restaged(d.run[r])
           c == RequeueFailed(d, r)
<1>1. CASE ~Is(d, r, {"failed"}) \/ ~Latest(d, r) \/ EpisodeOf(d, r).state = "completed"
  <2>1. c = d  BY <1>1 DEF RequeueFailed
  <2> QED  BY <2>1, UnchangedLegal
<1>2. CASE ~(~Is(d, r, {"failed"}) \/ ~Latest(d, r) \/ EpisodeOf(d, r).state = "completed")
  <2>1. ~Is(d, r, Settled)  BY <1>2, States DEF Is
  <2>2. c = Commit(d, r, row, "active", fresh)  BY <1>2 DEF RequeueFailed
  <2>3. row \in Row /\ Follows(row, d.run[r]) /\ row.state = "pending"
    BY States, RestagedTypes
  <2> HIDE DEF row, c
  <2>4. Legal(d, c, r) /\ StaysIdle(d, c, r)
    BY <2>1, <2>2, <2>3, WorkKeys, PendingLegal
  <2> QED  BY <2>4 DEF c
<1> QED  BY <1>1, <1>2

LEMMA CancelLegal ==
    ASSUME NEW d, Sound(d), NEW r \in Runs
    PROVE  LET c == CancelSlackReplay(d, r)
           IN /\ Legal(d, c, r) /\ StaysIdle(d, c, r)
              /\ c = d \/ c.run[r].state = "cancelled"
<1> DEFINE row == [d.run[r] EXCEPT !.state = "cancelled"]
           c == CancelSlackReplay(d, r)
<1>1. CASE ~Is(d, r, {"pending"} \cup Active)
  <2>1. c = d  BY <1>1 DEF CancelSlackReplay
  <2> QED  BY <2>1, UnchangedLegal
<1>2. CASE Is(d, r, {"pending"} \cup Active) /\ ~Latest(d, r)
  <2>1. c = Write(d, r, row)  BY <1>2 DEF CancelSlackReplay
  <2>2. row \in Row /\ Follows(row, d.run[r]) /\ row.state = "cancelled"
    BY States, RowTypes DEF State, Final
  <2>3. ~Is(d, r, {"absent"}) /\ ~Is(d, r, Irrevocable)  BY <1>2 DEF Is, Irrevocable, Active
  <2> HIDE DEF row, c
  <2>4. Legal(d, c, r) /\ c.run[r] = row
    BY <1>2, <2>1, <2>2, <2>3, WriteLegal DEF Working
  <2> QED  BY <2>2, <2>4 DEF StaysIdle, Is, Active, c
<1>3. CASE Is(d, r, {"pending"} \cup Active) /\ Latest(d, r)
  <2>1. c = Finished(d, r, "cancelled")  BY <1>3 DEF CancelSlackReplay
  <2> HIDE DEF c
  <2> QED  BY <1>3, <2>1, FinishedLegal DEF c
<1> QED  BY <1>1, <1>2, <1>3

LEMMA RecoverLegal ==
    ASSUME NEW d, Sound(d), NEW r \in Runs, Is(d, r, {"preparing"})
    PROVE  LET c == Write(d, r, [d.run[r] EXCEPT !.state = "pending"])
           IN Legal(d, c, r) /\ StaysIdle(d, c, r)
<1> DEFINE row == [d.run[r] EXCEPT !.state = "pending"]
           c == Write(d, r, row)
<1>1. row \in Row /\ Follows(row, d.run[r]) /\ row.state = "pending"  BY States, RowTypes
<1>2. ~Is(d, r, {"absent"}) /\ ~Is(d, r, Irrevocable)  BY DEF Is, Irrevocable
<1> HIDE DEF row
<1>3. Legal(d, c, r)  BY <1>1, <1>2, WriteLegal DEF Working, Final
<1>4. StaysIdle(d, c, r)  BY DEF StaysIdle, Is, Active
<1> QED  BY <1>3, <1>4 DEF row

LEMMA TellLegal ==
    ASSUME NEW d, Sound(d), NEW r \in Runs, ~Is(d, r, {"absent"})
    PROVE  LET c == Write(d, r, [d.run[r] EXCEPT !.told = d.run[r].key])
           IN /\ Legal(d, c, r) /\ StaysIdle(d, c, r)
              /\ c.run[r].state = d.run[r].state /\ c.run[r].staged = d.run[r].staged
<1> DEFINE row == [d.run[r] EXCEPT !.told = d.run[r].key]
           c == Write(d, r, row)
<1> d.run[r] \in Row  BY States
<1>1. /\ row \in Row /\ Follows(row, d.run[r]) /\ row.state = d.run[r].state
      /\ row.staged = d.run[r].staged
  BY ToldTypes, Zenon
<1> HIDE DEF row
<1>2. row.state \in {"applying", "finalizing"} => Result(row)
  BY <1>1 DEF Result, Sound, RowsRight, Is
<1>3. Legal(d, c, r) /\ c.run[r] = row
  BY <1>1, <1>2, WriteLegal DEF Is
<1>4. StaysIdle(d, c, r)  BY <1>1, <1>3 DEF StaysIdle, Is
<1> QED  BY <1>1, <1>3, <1>4 DEF row
-----------------------------------------------------------------------------
(* The database stays sound.                                                *)
LEMMA SoundKept ==
    ASSUME NEW d, Sound(d), NEW r \in Runs, NEW c, Legal(d, c, r)
    PROVE  Sound(c)
<1>1. d \in Database /\ c \in Database  BY DEF Sound, Legal
<1>2. ASSUME NEW q \in Runs \ {r}
      PROVE  c.run[q] = d.run[q]
  BY DEF Legal, RowLegal
<1>3. RowsRight(c)
  <2> SUFFICES ASSUME NEW q \in Runs
               PROVE  /\ ~Is(c, q, {"absent"}) => c.run[q].episode \in Runs
                      /\ Is(c, q, {"applying", "finalizing"}) => Result(c.run[q])
    BY DEF RowsRight
  <2>1. CASE q = r
    BY <2>1 DEF Sound, RowsRight, Legal, RowLegal, Follows
  <2>2. CASE q # r
    BY <2>2, <1>2 DEF Sound, RowsRight, Is
  <2> QED  BY <2>1, <2>2
<1>4. EventsRight(c)
  <2> SUFFICES ASSUME NEW e \in Runs, NEW q \in Runs, NEW ended \in Irrevocable,
                      EndKey(q, ended) \in c.episode[e].events
               PROVE  c.run[q].state = ended
    BY DEF EventsRight
  <2>1. EndKey(q, ended) \in d.episode[e].events \/ (q = r /\ c.run[r].state = ended)
    <3>1. CASE e = d.run[r].episode
      <4>1. c.run[r].episode = e  BY <3>1 DEF Legal, RowLegal, Follows
      <4> QED  BY <3>1, <4>1 DEF Legal, EpisodeLegal, EpisodeOf
    <3>2. CASE e # d.run[r].episode
      BY <3>2 DEF Legal, EpisodeLegal
    <3> QED  BY <3>1, <3>2
  <2>2. EndKey(q, ended) \in d.episode[e].events => d.run[q].state = ended
    BY DEF Sound, EventsRight
  <2>3. d.run[q].state = ended => c.run[q].state = ended
    <3>1. CASE q = r  BY <3>1 DEF Legal, RowLegal, Is
    <3>2. CASE q # r  BY <3>2, <1>2
    <3> QED  BY <3>1, <3>2
  <2> QED  BY <2>1, <2>2, <2>3
<1>5. ClosedIdle(c)
  <2> SUFFICES ASSUME NEW q \in Runs, Is(c, q, Working), EpisodeOf(c, q).state \in Final
               PROVE  ~Latest(c, q)
    BY DEF ClosedIdle
  <2>1. c.run[q].episode \in Runs
    BY <1>3 DEF RowsRight, Is, Working
  <2>2. c.run[r].episode = d.run[r].episode  BY DEF Legal, RowLegal, Follows
  <2>3. \A e \in Runs : c.episode[e].latest = d.episode[e].latest  BY DEF Legal, EpisodeLegal
  <2>4. CASE q = r
    <3>1. ~Latest(d, r)  BY <2>4 DEF Legal, EpisodeLegal
    <3> QED  BY <2>1, <2>2, <2>3, <2>4, <3>1 DEF Latest, EpisodeOf
  <2>5. CASE q # r
    <3>1. c.run[q] = d.run[q]  BY <2>5, <1>2
    <3>2. Latest(c, q) <=> Latest(d, q)  BY <2>1, <2>3, <3>1 DEF Latest, EpisodeOf
    <3>3. EpisodeOf(d, q).state \in Final => ~Latest(d, q)
      BY <3>1 DEF Sound, ClosedIdle, Is
    <3>4. CASE c.run[q].episode # d.run[r].episode
      <4>1. EpisodeOf(c, q) = EpisodeOf(d, q)
        BY <2>1, <3>1, <3>4 DEF Legal, EpisodeLegal, EpisodeOf
      <4> QED  BY <3>2, <3>3, <4>1
    <3>5. CASE c.run[q].episode = d.run[r].episode
      <4>1. EpisodeOf(c, q) = EpisodeOf(c, r) /\ EpisodeOf(d, q) = EpisodeOf(d, r)
        BY <2>2, <3>1, <3>5 DEF EpisodeOf
      <4>2. EpisodeOf(d, r).state \in Final \/ Latest(d, r)
        BY <4>1 DEF Legal, EpisodeLegal
      <4>3. Latest(d, r) => ~Latest(d, q)  BY <2>5, <4>1 DEF Latest
      <4> QED  BY <3>2, <3>3, <4>1, <4>2, <4>3
    <3> QED  BY <3>4, <3>5
  <2> QED  BY <2>4, <2>5
<1> QED  BY <1>1, <1>3, <1>4, <1>5 DEF Sound

(* The sweep. *)
SweptRow(d, r) ==
    Is(d, r, {"pending", "preparing"}) /\ EpisodeOf(d, r).state \in Final

LEMMA SweptFacts ==
    ASSUME NEW d, Sound(d)
    PROVE  LET c == Swept(d)
           IN /\ Sound(c) /\ c.episode = d.episode
              /\ \A r \in Runs : ~SweptRow(d, r) => c.run[r] = d.run[r]
              /\ \A r \in Runs : SweptRow(d, r) => c.run[r].state = "cancelled"
              /\ \A r \in Runs : Follows(c.run[r], d.run[r])
              /\ \A r \in Runs : Latest(c, r) <=> Latest(d, r)
<1> DEFINE rows == [r \in Runs |->
                      IF Is(d, r, {"pending", "preparing"}) /\ EpisodeOf(d, r).state \in Final
                      THEN [d.run[r] EXCEPT !.state = "cancelled"] ELSE d.run[r]]
           row(r) == [d.run[r] EXCEPT !.state = "cancelled"]
           c == Swept(d)
<1>1. c = [d EXCEPT !.run = rows]  BY Zenon DEF Swept
<1>2. \A r \in Runs : rows[r] = IF SweptRow(d, r) THEN row(r) ELSE d.run[r]
  BY Zenon DEF SweptRow
<1>3. \A r \in Runs : row(r) \in Row /\ Follows(row(r), d.run[r]) /\ row(r).state = "cancelled"
  BY States, RowTypes DEF State, Final
<1> HIDE DEF row
<1>4. \A r \in Runs : rows[r] \in Row  BY <1>2, <1>3, States
<1>5. rows \in [Runs -> Row]
  <2>1. DOMAIN rows = Runs /\ rows = [r \in Runs |-> rows[r]]  OBVIOUS
  <2> HIDE DEF rows
  <2> QED  BY <1>4, <2>1
<1> HIDE DEF rows, c
<1>6. c \in Database /\ c.run = rows /\ c.episode = d.episode
  BY <1>1, <1>5 DEF Sound, Database
<1>7. /\ \A r \in Runs : ~SweptRow(d, r) => c.run[r] = d.run[r]
      /\ \A r \in Runs : SweptRow(d, r) => c.run[r].state = "cancelled"
  BY <1>2, <1>3, <1>6
<1>8. \A r \in Runs : Follows(c.run[r], d.run[r])
  <2>1. \A r \in Runs : Follows(d.run[r], d.run[r])  BY States DEF Follows, Row
  <2> QED  BY <1>2, <1>3, <1>6, <2>1
<1>9. \A r \in Runs : EpisodeOf(c, r) = EpisodeOf(d, r) /\ (Latest(c, r) <=> Latest(d, r))
  BY <1>6, <1>8 DEF Follows, EpisodeOf, Latest
<1>10. RowsRight(c)
  BY <1>7, <1>8 DEF Sound, RowsRight, Follows, Is, SweptRow
<1>11. EventsRight(c)
  BY <1>6, <1>7 DEF Sound, EventsRight, SweptRow, Is, Irrevocable
<1>12. ClosedIdle(c)
  BY <1>7, <1>9 DEF Sound, ClosedIdle, Is, Working
<1> QED  BY <1>6, <1>7, <1>8, <1>9, <1>10, <1>11, <1>12 DEF Sound, c

(* A restart. *)
LEMMA RecoveredFacts ==
    ASSUME NEW d, Sound(d)
    PROVE  LET c == RecoverInterrupted(d)
           IN /\ Sound(c) /\ c.episode = d.episode
              /\ \A r \in Runs : /\ Follows(c.run[r], d.run[r])
                                 /\ c.run[r].staged = d.run[r].staged
                                 /\ c.run[r].state = CASE d.run[r].state = "preparing" -> "pending"
                                                      [] d.run[r].state = "finalizing" -> "applying"
                                                      [] OTHER -> d.run[r].state
<1> DEFINE new(r) == CASE d.run[r].state = "preparing" -> "pending"
                       [] d.run[r].state = "finalizing" -> "applying"
                       [] OTHER -> d.run[r].state
           row(r) == [d.run[r] EXCEPT !.state = new(r)]
           rows == [r \in Runs |-> row(r)]
           c == RecoverInterrupted(d)
<1>1. c = [d EXCEPT !.run = rows]  BY Zenon DEF RecoverInterrupted
<1>2. \A r \in Runs : new(r) \in State
  BY States DEF Row, State, Active
<1>3. \A r \in Runs : /\ new(r) # d.run[r].state =>
                            \/ d.run[r].state = "preparing" /\ new(r) = "pending"
                            \/ d.run[r].state = "finalizing" /\ new(r) = "applying"
                      /\ new(r) \notin {"preparing", "finalizing"}
  OBVIOUS
<1> HIDE DEF new
<1>4. \A r \in Runs : /\ row(r) \in Row /\ Follows(row(r), d.run[r]) /\ row(r).state = new(r)
                      /\ row(r).staged = d.run[r].staged
  BY <1>2, States, RowTypes
<1> HIDE DEF row
<1>5. rows \in [Runs -> Row] /\ \A r \in Runs : rows[r] = row(r)
  BY <1>4
<1> HIDE DEF rows, c
<1>6. c \in Database /\ c.run = rows /\ c.episode = d.episode
  BY <1>1, <1>5 DEF Sound, Database
<1>7. \A r \in Runs : /\ Follows(c.run[r], d.run[r])
                      /\ c.run[r].staged = d.run[r].staged
                      /\ c.run[r].state = new(r)
  BY <1>4, <1>5, <1>6
<1>8. RowsRight(c)
  BY <1>3, <1>7 DEF Sound, RowsRight, Follows, Is, Result
<1>9. EventsRight(c)
  BY <1>3, <1>6, <1>7 DEF Sound, EventsRight, Irrevocable
<1>10. ClosedIdle(c)
  <2>1. \A r \in Runs : EpisodeOf(c, r) = EpisodeOf(d, r) /\ (Latest(c, r) <=> Latest(d, r))
    BY <1>6, <1>7 DEF Follows, EpisodeOf, Latest
  <2> QED  BY <1>3, <1>7, <2>1 DEF Sound, ClosedIdle, Is, Working
<1> QED  BY <1>6, <1>7, <1>8, <1>9, <1>10 DEF Sound, new, c

(* A new run. *)
LEMMA QueuedFacts ==
    ASSUME NEW d, Sound(d), NEW r \in Runs, Is(d, r, {"absent"}), NEW e \in Runs
    PROVE  LET c == Queued(d, r, e)
           IN /\ Sound(c) /\ c.run[r].state = "pending"
              /\ \A q \in Runs \ {r} : c.run[q] = d.run[q]
<1> DEFINE row == [NoRun EXCEPT !.state = "pending", !.episode = e]
           own == [NoEpisode EXCEPT !.state = "active", !.latest = r]
           joined == [d.episode[e] EXCEPT !.latest = r]
           new == IF e = r THEN own ELSE joined
           c == Queued(d, r, e)
<1>1. c = [[d EXCEPT !.run[r] = row] EXCEPT !.episode[e] = new]
  BY Zenon DEF Queued
<1>2. row \in Row /\ row.state = "pending" /\ row.episode = e
  BY DEF NoRun, Row, State
<1>3. own \in Episode /\ own.state = "active" /\ own.latest = r /\ own.events = {}
  BY DEF NoEpisode, Episode, EpisodeState
<1>4. d.episode[e] \in Episode /\ d \in Database  BY DEF Sound, Database
<1>5. /\ joined \in Episode /\ joined.latest = r /\ joined.state = d.episode[e].state
      /\ joined.events = d.episode[e].events
  BY <1>4 DEF Episode
<1> HIDE DEF row, own, joined
<1>6. new \in Episode /\ new.latest = r  BY <1>3, <1>5
<1>7. (new.state = "active" /\ new.events = {})
      \/ (new.state = d.episode[e].state /\ new.events = d.episode[e].events)
  BY <1>3, <1>5
<1> HIDE DEF new, c
<1>8. /\ c \in Database /\ c.run = [d.run EXCEPT ![r] = row]
      /\ c.episode = [d.episode EXCEPT ![e] = new]
  <2> DEFINE m == [d EXCEPT !.run[r] = row]
  <2>1. m \in Database /\ m.run = [d.run EXCEPT ![r] = row] /\ m.episode = d.episode
    BY <1>2, <1>4 DEF Database
  <2>2. c = [m EXCEPT !.episode[e] = new]  BY <1>1
  <2> HIDE DEF m
  <2>3. c \in Database /\ c.run = m.run /\ c.episode = [m.episode EXCEPT ![e] = new]
    BY <1>6, <2>1, <2>2 DEF Database
  <2> QED  BY <2>1, <2>3
<1>9. /\ c.run[r] = row /\ \A q \in Runs \ {r} : c.run[q] = d.run[q]
      /\ c.episode[e] = new /\ \A x \in Runs \ {e} : c.episode[x] = d.episode[x]
  BY <1>4, <1>8 DEF Database
<1>10. RowsRight(c)
  <2> SUFFICES ASSUME NEW q \in Runs
               PROVE  /\ ~Is(c, q, {"absent"}) => c.run[q].episode \in Runs
                      /\ Is(c, q, {"applying", "finalizing"}) => Result(c.run[q])
    BY DEF RowsRight
  <2>1. CASE q = r  BY <1>2, <1>9, <2>1 DEF Is
  <2>2. CASE q # r  BY <1>9, <2>2 DEF Sound, RowsRight, Is
  <2> QED  BY <2>1, <2>2
<1>11. EventsRight(c)
  <2> SUFFICES ASSUME NEW x \in Runs, NEW q \in Runs, NEW ended \in Irrevocable,
                      EndKey(q, ended) \in c.episode[x].events
               PROVE  c.run[q].state = ended
    BY DEF EventsRight
  <2>1. EndKey(q, ended) \in d.episode[x].events  BY <1>7, <1>9
  <2>2. d.run[q].state = ended  BY <2>1 DEF Sound, EventsRight
  <2>3. q # r  BY <2>2 DEF Is, Irrevocable
  <2> QED  BY <1>9, <2>2, <2>3
<1>12. ClosedIdle(c)
  <2> SUFFICES ASSUME NEW q \in Runs, Is(c, q, Working), EpisodeOf(c, q).state \in Final
               PROVE  ~Latest(c, q)
    BY DEF ClosedIdle
  <2>1. q # r  BY <1>2, <1>9 DEF Is, Working
  <2>2. c.run[q] = d.run[q] /\ c.run[q].episode \in Runs
    BY <1>9, <1>10, <2>1 DEF RowsRight, Is, Working
  <2>3. CASE c.run[q].episode = e
    BY <1>6, <1>9, <2>1, <2>3 DEF Latest, EpisodeOf
  <2>4. CASE c.run[q].episode # e
    BY <1>9, <2>2, <2>4 DEF Sound, ClosedIdle, Is, Latest, EpisodeOf
  <2> QED  BY <2>3, <2>4
<1> QED  BY <1>2, <1>8, <1>9, <1>10, <1>11, <1>12 DEF Sound, c

LEMMA QueueFacts ==
    ASSUME NEW d, Sound(d), NEW r \in Runs, Is(d, r, {"absent"}), NEW e \in Runs
    PROVE  \A c \in {QueueAgentRun(d, r, e), QueueEpisodeAttempt(d, r, e)} :
              /\ Sound(c) /\ \A q \in Runs \ {r} : c.run[q] = d.run[q]
              /\ c = d \/ c.run[r].state = "pending"
<1> DEFINE m == Queued(d, r, e)
           resumed == Phased(m, r, "active", <<"resumed">>)
<1>1. /\ Sound(m) /\ m.run[r].state = "pending" /\ \A q \in Runs \ {r} : m.run[q] = d.run[q]
  BY QueuedFacts
<1>2. QueueAgentRun(d, r, e) \in {d, m} /\ QueueEpisodeAttempt(d, r, e) \in {d, resumed}
  BY DEF QueueAgentRun, QueueEpisodeAttempt
<1> HIDE DEF m
<1>3. Legal(m, resumed, r) /\ resumed.run = m.run
  <2>1. "active" \in EpisodeState /\ ~Is(m, r, Working \cup {"absent"})
    BY <1>1 DEF EpisodeState, Is, Working
  <2>2. WorkKey(<<"resumed">>)  BY WorkKeys
  <2> QED  BY <1>1, <2>1, <2>2, PhasedLegal
<1> HIDE DEF resumed
<1>4. Sound(resumed)  BY <1>1, <1>3, SoundKept
<1> QED  BY <1>1, <1>2, <1>3, <1>4

(* The lease of a run. *)
LEMMA LeaseFacts ==
    ASSUME NEW r \in Runs, Sound(db), Leasable(Swept(db), r)
    PROVE  LET m == Swept(db)
               c == LeaseAgentRun(m, r)
           IN Legal(m, c, r) /\ Sound(c) /\ c.run[r].state = "preparing"
<1> DEFINE m == Swept(db)
           row == [m.run[r] EXCEPT !.state = "preparing"]
           key == <<"lease", r, m.run[r].key>>
           c == LeaseAgentRun(m, r)
<1>1. c = Commit(m, r, row, "active", key)  BY DEF LeaseAgentRun
<1>2. /\ Sound(m) /\ Is(m, r, {"pending"}) /\ m.episode = db.episode
      /\ ~SweptRow(db, r) /\ m.run[r] = db.run[r]
  BY SweptFacts DEF Leasable, Is
<1>3. EpisodeOf(m, r).state \notin Final  BY <1>2 DEF SweptRow, Is, EpisodeOf
<1> HIDE DEF m
<1>4. m.run[r] \in Row /\ ~Is(m, r, Settled)  BY <1>2, States DEF Is
<1>5. WorkKey(key)  BY <1>4, WorkKeys DEF Row
<1>6. row \in Row /\ Follows(row, m.run[r]) /\ row.state = "preparing"
  BY <1>2, States, RowTypes
<1>7. ~Refused(m, r, "active", key)
  BY <1>3 DEF Refused, Closed, Dropped
<1> HIDE DEF row, key, c
<1>8. Legal(m, c, r) /\ c.run[r] = row
  BY <1>1, <1>2, <1>4, <1>5, <1>6, <1>7, WorkLegal DEF Final
<1>9. Sound(c)  BY <1>2, <1>8, SoundKept
<1> QED  BY <1>6, <1>8, <1>9 DEF m, c
-----------------------------------------------------------------------------
(* What every step does: it keeps the invariant, an episode's newest attempt *)
(* ends with it, and a finished answer is kept.                             *)
Good == IInv' /\ NewestEnds /\ KeepsResults

Turns == [run : Runs, key : Nat, state : {"open"} \cup Outcomes]
Jobs(job, stages) == job \in [Runs -> {"none"} \cup stages]
Preparing == {"leased", "admitted", "submitted"}
Finalizing == {"leased", "told", "phased"}

LEMMA StageSets ==
    /\ {"none"} \cup Preparing = {"none", "leased", "admitted", "submitted"}
    /\ {"none"} \cup Finalizing = {"none", "leased", "told", "phased"}
BY DEF Preparing, Finalizing

LEMMA TypeParts ==
    TypeOK <=> /\ db \in Database
               /\ turns \subseteq Turns
               /\ admitted = None \/ admitted \in [run : Runs, episode : Runs \cup {0}]
               /\ Jobs(prep, Preparing) /\ Jobs(fin, Finalizing)
               /\ polled = None \/ polled \in TurnOf
               /\ aged \subseteq Runs
BY StageSets DEF TypeOK, Turns, Jobs

(* Cycling runs stay so, and no run but one that is leased sets to work.    *)
LEMMA OneAtATimeKept ==
    ASSUME OneAtATime, aged \subseteq aged',
           db \in Database, db' \in Database,
           \A q \in Runs : Is(db', q, Active) => Is(db, q, Active),
           \A q \in Runs : Is(db', q, Active) => Follows(db'.run[q], db.run[q])
    PROVE  OneAtATime'
<1> SUFFICES ASSUME NEW q \in Runs, NEW r \in Runs, q # r, Kind[q] = Kind[r],
                    Is(db', q, Active), Is(db', r, Active)
             PROVE  Cycling(db, q)' \/ Cycling(db, r)'
  BY DEF OneAtATime, Is
<1>1. Cycling(db, q) \/ Cycling(db, r)  BY DEF OneAtATime
<1>2. ASSUME NEW x \in Runs, Is(db', x, Active), Cycling(db, x)
      PROVE  Cycling(db, x)'
  <2>1. Follows(db'.run[x], db.run[x]) /\ db.run[x] \in Row /\ db'.run[x] \in Row
    BY <1>2 DEF Database
  <2>2. CyclingAt \in Nat  BY ConfigAssumption
  <2> QED  BY <1>2, <2>1, <2>2 DEF Cycling, Follows, Row
<1> QED  BY <1>1, <1>2

(* A step that carries run r. *)
JobsKept(r) ==
    /\ Jobs(prep', Preparing) /\ Jobs(fin', Finalizing)
    /\ \A q \in Runs \ {r} : prep'[q] = prep[q] /\ fin'[q] = fin[q]
    /\ prep'[r] # "none" => Is(db', r, {"preparing", "cancelled"})
    /\ fin'[r] # "none" => Is(db', r, {"finalizing", "cancelled"})
ResultSafe(r) ==
    \/ r \in Replays \/ ~Is(db, r, {"applying"})
    \/ db'.run[r].staged = db.run[r].staged /\ (Answered(db, r) => ~Is(db', r, Final))

LEMMA RunStep ==
    ASSUME IInv, NEW r \in Runs, Legal(db, db', r), StaysIdle(db, db', r),
           JobsKept(r), ResultSafe(r), turns' \subseteq Turns, aged \subseteq aged', aged' \subseteq Runs,
           UNCHANGED <<admitted, polled>>
    PROVE  Good
<1>1. Sound(db')  BY SoundKept DEF IInv
<1>2. db \in Database /\ db' \in Database  BY <1>1 DEF IInv, Sound
<1>3. \A q \in Runs \ {r} : db'.run[q] = db.run[q]  BY DEF Legal, RowLegal
<1>4. Follows(db'.run[r], db.run[r])  BY DEF Legal, RowLegal
<1>5. OneAtATime'
  <2>1. \A q \in Runs : Is(db', q, Active) => Is(db, q, Active)
    BY <1>3 DEF StaysIdle, Is
  <2>2. \A q \in Runs : Follows(db'.run[q], db.run[q])
    BY <1>2, <1>3, <1>4 DEF Follows, Database, Row
  <2> QED  BY <1>2, <2>1, <2>2, OneAtATimeKept DEF IInv
<1>6. TypeOK'
  <2>1. TypeOK  BY DEF IInv
  <2> QED  BY <1>2, <2>1, StageSets DEF TypeOK, JobsKept, Jobs, Turns
<1>7. JobsHold'  BY <1>3 DEF IInv, JobsHold, JobsKept, Is
<1>8. QueuedOnce'
  <2> SUFFICES ASSUME admitted # None  PROVE Is(db', admitted.run, {"absent"})
    BY DEF QueuedOnce, Is
  <2>1. admitted.run \in Runs /\ Is(db, admitted.run, {"absent"})  BY TypeParts DEF IInv, QueuedOnce
  <2> QED  BY <1>3, <2>1 DEF Legal, RowLegal, Is
<1>9. NewestEnds
  <2> SUFFICES ASSUME NEW q \in Runs, Is(db', q, Final), ~Is(db, q, Final), Latest(db, q)
               PROVE  \/ EpisodeOf(db', q).state # "active"
                      \/ Is(db', q, {"failed"}) /\ FailedBefore(EpisodeOf(db, q), q)
    BY DEF NewestEnds, Is, EpisodeOf
  <2>1. q = r  BY <1>3 DEF Is
  <2> QED  BY <2>1 DEF Legal, EndsRight
<1>10. KeepsResults
  <2> SUFFICES ASSUME NEW q \in Runs \ Replays, Is(db, q, {"applying"}), Answered(db, q)
               PROVE  Answered(db', q) /\ ~Is(db', q, Final)
    BY DEF KeepsResults, Is, Answered
  <2>1. CASE q # r  BY <1>3, <2>1 DEF Is, Answered, Final
  <2>2. CASE q = r  BY <2>2 DEF ResultSafe, Answered
  <2> QED  BY <2>1, <2>2
<1> QED  BY <1>1, <1>5, <1>6, <1>7, <1>8, <1>9, <1>10 DEF Good, IInv, Sound

(* A preparer lets go of its run, a finalizer goes on or lets go of its own, *)
(* and any other step that carries a run finds it without either.           *)
LEMMA PreparerStep ==
    ASSUME IInv, NEW r \in Runs, prep[r] # "none",
           Legal(db, db', r), StaysIdle(db, db', r),
           prep' = [prep EXCEPT ![r] = "none"],
           UNCHANGED <<turns, admitted, fin, polled, aged>>
    PROVE  Good
<1>1. TypeOK /\ JobsHold  BY DEF IInv
<1>2. Is(db, r, {"preparing", "cancelled"})  BY <1>1 DEF JobsHold
<1>3. JobsKept(r)
  <2>1. Jobs(prep, Preparing) /\ Jobs(fin, Finalizing)  BY <1>1, TypeParts
  <2>2. Jobs(prep', Preparing) /\ Jobs(fin', Finalizing) /\ prep'[r] = "none"
        /\ \A q \in Runs \ {r} : prep'[q] = prep[q] /\ fin'[q] = fin[q]
    BY <2>1 DEF Jobs
  <2>3. fin'[r] # "none" => Is(db', r, {"cancelled"})
    BY <1>1, <1>2 DEF JobsHold, Is, Legal, RowLegal, Irrevocable
  <2> QED  BY <2>2, <2>3 DEF JobsKept, Is
<1>4. ResultSafe(r)  BY <1>2 DEF ResultSafe, Is
<1>5. turns' \subseteq Turns /\ aged \subseteq aged' /\ aged' \subseteq Runs  BY <1>1, TypeParts
<1> QED  BY <1>3, <1>4, <1>5, RunStep

LEMMA FinalizerStep ==
    ASSUME IInv, NEW r \in Runs, fin[r] # "none", NEW to \in {"none"} \cup Finalizing,
           Legal(db, db', r), StaysIdle(db, db', r),
           to # "none" => Is(db', r, {"finalizing", "cancelled"}),
           fin' = [fin EXCEPT ![r] = to],
           UNCHANGED <<turns, admitted, prep, polled, aged>>
    PROVE  Good
<1>1. TypeOK /\ JobsHold  BY DEF IInv
<1>2. Is(db, r, {"finalizing", "cancelled"})  BY <1>1 DEF JobsHold
<1>3. JobsKept(r)
  <2>1. Jobs(prep, Preparing) /\ Jobs(fin, Finalizing)  BY <1>1, TypeParts
  <2>2. Jobs(prep', Preparing) /\ Jobs(fin', Finalizing) /\ fin'[r] = to
        /\ \A q \in Runs \ {r} : prep'[q] = prep[q] /\ fin'[q] = fin[q]
    BY <2>1 DEF Jobs
  <2>3. prep'[r] # "none" => Is(db', r, {"cancelled"})
    BY <1>1, <1>2 DEF JobsHold, Is, Legal, RowLegal, Irrevocable
  <2> QED  BY <2>2, <2>3 DEF JobsKept, Is
<1>4. ResultSafe(r)  BY <1>2 DEF ResultSafe, Is
<1>5. turns' \subseteq Turns /\ aged \subseteq aged' /\ aged' \subseteq Runs  BY <1>1, TypeParts
<1> QED  BY <1>3, <1>4, <1>5, RunStep

LEMMA FreeStep ==
    ASSUME IInv, NEW r \in Runs, Legal(db, db', r), StaysIdle(db, db', r), ResultSafe(r),
           \/ ~Is(db, r, {"preparing", "finalizing", "cancelled"})
           \/ Is(db, r, {"preparing"}) /\ prep[r] = "none"
           \/ Is(db', r, {"cancelled"}),
           turns' \subseteq Turns,
           UNCHANGED <<admitted, prep, fin, polled, aged>>
    PROVE  Good
<1>1. TypeOK /\ JobsHold  BY DEF IInv
<1>2. JobsKept(r)
  <2>1. Jobs(prep, Preparing) /\ Jobs(fin, Finalizing)  BY <1>1, TypeParts
  <2> QED  BY <1>1, <2>1 DEF JobsHold, JobsKept, Is
<1>3. aged \subseteq aged' /\ aged' \subseteq Runs  BY <1>1, TypeParts
<1> QED  BY <1>2, <1>3, RunStep

(* A step that leaves the rows alone.                                       *)
LEMMA StillStep ==
    ASSUME IInv, SameRows(db, db'), turns' \subseteq Turns,
           UNCHANGED admitted \/ (/\ admitted' \in [run : Runs, episode : Runs \cup {0}]
                                  /\ Is(db, admitted'.run, {"absent"})),
           Jobs(prep', Preparing), Jobs(fin', Finalizing),
           \A r \in Runs : /\ prep'[r] # "none" => prep[r] # "none"
                           /\ fin'[r] # "none" => fin[r] # "none",
           polled' = None \/ polled' \in TurnOf,
           aged \subseteq aged', aged' \subseteq Runs
    PROVE  Good
<1>1. /\ TypeOK /\ JobsHold /\ QueuedOnce /\ OneAtATime /\ Sound(db) /\ db \in Database
      /\ db' \in Database /\ db'.run = db.run /\ db'.episode = db.episode
  BY DEF IInv, Sound, SameRows
<1>2. Sound(db')
  BY <1>1 DEF Sound, RowsRight, EventsRight, ClosedIdle, EpisodeOf, Is, Latest
<1>3. TypeOK'  BY <1>1, StageSets DEF TypeOK, Jobs, Turns
<1>4. JobsHold'  BY <1>1 DEF JobsHold, Is
<1>5. QueuedOnce'  BY <1>1 DEF QueuedOnce, Is
<1>6. OneAtATime'
  <2>1. \A q \in Runs : Follows(db.run[q], db.run[q])  BY <1>1 DEF Follows, Database, Row
  <2> QED  BY <1>1, <2>1, OneAtATimeKept DEF Is
<1>7. NewestEnds /\ KeepsResults
  BY <1>1 DEF NewestEnds, KeepsResults, Is, Answered, Final
<1> QED  BY <1>2, <1>3, <1>4, <1>5, <1>6, <1>7 DEF Good, IInv

LEMMA LegalTransitive ==
    ASSUME NEW d, NEW m, NEW c, NEW r \in Runs, d \in Database, d.run[r].episode \in Runs,
           Legal(d, m, r), Legal(m, c, r), ~Is(c, r, Final)
    PROVE  Legal(d, c, r)
<1>1. m \in Database /\ c \in Database  BY DEF Legal
<1>2. RowLegal(d, c, r)
  <2>1. Follows(c.run[r], d.run[r])
    BY <1>1, FollowsTransitive DEF Legal, RowLegal, Database
  <2> QED  BY <2>1 DEF Legal, RowLegal, Is
<1>3. m.run[r].episode = d.run[r].episode /\ c.run[r].episode = d.run[r].episode
  BY DEF Legal, RowLegal, Follows
<1>4. Latest(m, r) <=> Latest(d, r)
  BY <1>3 DEF Legal, EpisodeLegal, Latest, EpisodeOf
<1>5. EpisodeLegal(d, c, r)
  <2>1. \A e \in Runs : c.episode[e].latest = d.episode[e].latest  BY DEF Legal, EpisodeLegal
  <2>2. \A e \in Runs \ {d.run[r].episode} : c.episode[e] = d.episode[e]
    BY <1>3 DEF Legal, EpisodeLegal
  <2>3. Is(c, r, Working) /\ Latest(d, r) => EpisodeOf(c, r).state \notin Final
    BY <1>4 DEF Legal, EpisodeLegal
  <2>4. EpisodeOf(c, r).state \in Final =>
          EpisodeOf(d, r).state \in Final \/ (Latest(d, r) /\ ~Is(c, r, Working))
    BY <1>4, <2>3 DEF Legal, EpisodeLegal
  <2>5. \A q \in Runs, ended \in Irrevocable : EndKey(q, ended) \in EpisodeOf(c, r).events =>
          EndKey(q, ended) \in EpisodeOf(d, r).events \/ (q = r /\ c.run[r].state = ended)
    BY DEF Legal, EpisodeLegal, RowLegal, Is
  <2> QED  BY <2>1, <2>2, <2>3, <2>4, <2>5 DEF EpisodeLegal
<1> QED  BY <1>1, <1>2, <1>5 DEF Legal, EndsRight
-----------------------------------------------------------------------------
(* The preparer's steps.                                                    *)
LEMMA StoreFacts ==
    ASSUME IInv
    PROVE  /\ Sound(db) /\ TypeOK /\ JobsHold
           /\ turns \subseteq Turns /\ aged \subseteq Runs
           /\ Jobs(prep, Preparing) /\ Jobs(fin, Finalizing)
           /\ \A r \in Runs : /\ prep[r] # "none" => Is(db, r, {"preparing", "cancelled"})
                              /\ fin[r] # "none" => Is(db, r, {"finalizing", "cancelled"})
BY TypeParts DEF IInv, JobsHold

LEMMA DeferredTwice ==
    ASSUME IInv, NEW r \in Runs, ~Is(db, r, Final \cup {"absent"})
    PROVE  LET c == DeferAgentRun(ReleaseAgentRunRevision(db, r), r)
           IN Legal(db, c, r) /\ StaysIdle(db, c, r)
<1> DEFINE m == ReleaseAgentRunRevision(db, r)
           c == DeferAgentRun(m, r)
<1>1. Sound(db)  BY StoreFacts
<1>2. Legal(db, m, r) /\ StaysIdle(db, m, r) /\ m.run[r].state = db.run[r].state
  BY <1>1, ReleaseLegal
<1> HIDE DEF m
<1>3. Sound(m)  BY <1>1, <1>2, SoundKept
<1>4. Legal(m, c, r) /\ StaysIdle(m, c, r) /\ (c = m \/ c.run[r].state = "pending")
  BY <1>3, DeferLegal
<1> HIDE DEF c
<1>5. ~Is(c, r, Final)  BY <1>2, <1>4 DEF Is, Final
<1>6. db \in Database /\ db.run[r].episode \in Runs  BY <1>1 DEF Sound, RowsRight, Is
<1>7. Legal(db, c, r)  BY <1>2, <1>4, <1>5, <1>6, LegalTransitive
<1> QED  BY <1>2, <1>4, <1>7 DEF StaysIdle, Is, c, m

LEMMA PreparerSteps ==
    ASSUME IInv, NEW r \in Runs, prep[r] # "none",
           prep' = [prep EXCEPT ![r] = "none"],
           UNCHANGED <<turns, admitted, fin, polled, aged>>,
           \/ db' = db \/ db' = DeferAgentRun(db, r) \/ db' = RequeueRateLimited(db, r)
           \/ db' = DeferAgentRun(ReleaseAgentRunRevision(db, r), r)
           \/ db' = MarkAgentRunSubmitted(db, r) \/ db' = SupersedeAgentRun(db, r)
           \/ db' = FinishAgentRunFailure(db, r)
           \/ \E terminal \in BOOLEAN : db' = RetryAgentRun(db, r, terminal)
    PROVE  Good
<1>1. Sound(db) /\ Is(db, r, {"preparing", "cancelled"})
  BY StoreFacts
<1> SUFFICES Legal(db, db', r) /\ StaysIdle(db, db', r)
  BY PreparerStep
<1>2. CASE db' = db  BY <1>1, <1>2, UnchangedLegal
<1>3. CASE db' = DeferAgentRun(db, r)  BY <1>1, <1>3, DeferLegal
<1>4. CASE db' = RequeueRateLimited(db, r)  BY <1>1, <1>4, RateLimitedLegal
<1>5. CASE db' = DeferAgentRun(ReleaseAgentRunRevision(db, r), r)
  <2>1. CASE Is(db, r, {"preparing"})
    <3>1. ~Is(db, r, Final \cup {"absent"})  BY <2>1 DEF Is, Final
    <3> QED  BY <3>1, <1>5, DeferredTwice
  <2>2. CASE ~Is(db, r, {"preparing"})
    <3>1. db' = db  BY <1>5, <2>2 DEF ReleaseAgentRunRevision, DeferAgentRun
    <3> QED  BY <1>1, <3>1, UnchangedLegal
  <2> QED  BY <2>1, <2>2
<1>6. CASE db' = MarkAgentRunSubmitted(db, r)  BY <1>1, <1>6, MarkLegal
<1>7. CASE db' = SupersedeAgentRun(db, r)  BY <1>1, <1>7, SupersedeLegal
<1>8. CASE db' = FinishAgentRunFailure(db, r)  BY <1>1, <1>8, FinishFailureLegal
<1>9. CASE \E terminal \in BOOLEAN : db' = RetryAgentRun(db, r, terminal)
  BY <1>1, <1>9, RetryLegal
<1> QED  BY <1>2, <1>3, <1>4, <1>5, <1>6, <1>7, <1>8, <1>9

LEMMA LeaseStep ==
    ASSUME IInv, NEW r \in Runs, Lease(r)
    PROVE  Good
<1> DEFINE m == Swept(db)
<1>1. /\ Sound(db) /\ TypeOK /\ JobsHold /\ QueuedOnce /\ OneAtATime
      /\ Jobs(prep, Preparing) /\ Jobs(fin, Finalizing)
  BY StoreFacts DEF IInv
<1>2. /\ Leasable(m, r) /\ db' = LeaseAgentRun(m, r) /\ prep[r] = "none"
      /\ prep' = [prep EXCEPT ![r] = "leased"]
      /\ UNCHANGED <<turns, admitted, fin, polled, aged>>
  BY DEF Lease, Gets
<1>3. Legal(m, db', r) /\ Sound(db') /\ db'.run[r].state = "preparing"
  BY <1>1, <1>2, LeaseFacts
<1>4. /\ Sound(m) /\ m.episode = db.episode
      /\ \A q \in Runs : ~SweptRow(db, q) => m.run[q] = db.run[q]
      /\ \A q \in Runs : SweptRow(db, q) => m.run[q].state = "cancelled"
      /\ \A q \in Runs : Follows(m.run[q], db.run[q])
      /\ \A q \in Runs : Latest(m, q) <=> Latest(db, q)
  BY <1>1, SweptFacts
<1>5. \A q \in Runs : Is(m, q, Active) => Cycling(m, q) \/ q = r \/ Kind[q] # Kind[r]
  BY <1>2 DEF Leasable, Rivals
<1>6. Is(m, r, {"pending"})  BY <1>2 DEF Leasable
<1> HIDE DEF m
<1>7. \A q \in Runs \ {r} : db'.run[q] = m.run[q]  BY <1>3 DEF Legal, RowLegal
<1>8. db \in Database /\ m \in Database /\ db' \in Database  BY <1>1, <1>3, <1>4 DEF Sound
<1>9. ~SweptRow(db, r) /\ m.run[r] = db.run[r] /\ Is(db, r, {"pending"})
  BY <1>4, <1>6 DEF Is
<1>10. JobsHold'
  <2>1. \A q \in Runs \ {r} : prep'[q] = prep[q] /\ fin'[q] = fin[q]
    BY <1>1, <1>2 DEF Jobs
  <2>2. ASSUME NEW q \in Runs \ {r}
        PROVE  Is(db, q, {"preparing", "cancelled"}) => Is(db', q, {"preparing", "cancelled"})
    BY <1>4, <1>7 DEF Is
  <2>3. ASSUME NEW q \in Runs \ {r}
        PROVE  Is(db, q, {"finalizing", "cancelled"}) => Is(db', q, {"finalizing", "cancelled"})
    BY <1>4, <1>7 DEF Is, SweptRow
  <2>4. fin[r] = "none"  BY <1>1, <1>9 DEF JobsHold, Is
  <2> QED  BY <1>1, <1>2, <1>3, <2>1, <2>2, <2>3, <2>4 DEF JobsHold, Is
<1>11. TypeOK'
  <2>1. Jobs(prep', Preparing)  BY <1>1, <1>2 DEF Jobs, Preparing
  <2> QED  BY <1>1, <1>2, <1>8, <2>1, StageSets DEF TypeOK, Jobs
<1>12. QueuedOnce'
  <2> SUFFICES ASSUME admitted # None  PROVE Is(db', admitted.run, {"absent"})
    BY <1>2 DEF QueuedOnce, Is
  <2>1. admitted.run \in Runs /\ Is(db, admitted.run, {"absent"})
    BY <1>1, TypeParts DEF QueuedOnce
  <2>2. admitted.run # r  BY <1>9, <2>1 DEF Is
  <2> QED  BY <1>4, <1>7, <2>1, <2>2 DEF Is, SweptRow
<1>13. OneAtATime'
  <2> SUFFICES ASSUME NEW p \in Runs, NEW q \in Runs, p # q, Kind[p] = Kind[q],
                      Is(db', p, Active), Is(db', q, Active)
               PROVE  Cycling(db, p)' \/ Cycling(db, q)'
    BY DEF OneAtATime, Is
  <2>1. ASSUME NEW x \in Runs \ {r}, Cycling(m, x)
        PROVE  Cycling(db, x)'
    BY <1>2, <1>7, <2>1 DEF Cycling
  <2>2. CASE p = r
    <3>1. Is(m, q, Active)  BY <1>7, <2>2 DEF Is
    <3> QED  BY <1>5, <2>1, <2>2, <3>1
  <2>3. CASE q = r
    <3>1. Is(m, p, Active)  BY <1>7, <2>3 DEF Is
    <3> QED  BY <1>5, <2>1, <2>3, <3>1
  <2>4. CASE p # r /\ q # r
    <3>1. ASSUME NEW x \in Runs \ {r}, Is(db', x, Active)
          PROVE  m.run[x] = db.run[x] /\ Is(db, x, Active)
      BY <1>4, <1>7, <3>1 DEF Is, Active
    <3>2. Cycling(db, p) \/ Cycling(db, q)  BY <1>1, <2>4, <3>1 DEF OneAtATime
    <3>3. Cycling(m, p) \/ Cycling(m, q)  BY <2>4, <3>1, <3>2 DEF Cycling
    <3> QED  BY <2>1, <2>4, <3>3
  <2> QED  BY <2>2, <2>3, <2>4
<1>14. NewestEnds
  <2> SUFFICES ASSUME NEW q \in Runs, Is(db', q, Final), ~Is(db, q, Final), Latest(db, q)
               PROVE  EpisodeOf(db', q).state # "active"
    BY DEF NewestEnds, Is, EpisodeOf
  <2>1. q # r  BY <1>3 DEF Is, Final
  <2>2. SweptRow(db, q)  BY <1>4, <1>7, <2>1 DEF Is
  <2>3. db'.run[q].episode = db.run[q].episode /\ db.run[q].episode \in Runs
    BY <1>1, <1>4, <1>7, <2>1, <2>2 DEF Follows, Sound, RowsRight, SweptRow, Is
  <2>4. db.run[q].episode # db.run[r].episode  BY <1>9, <2>2 DEF SweptRow, Is, EpisodeOf
  <2>5. EpisodeOf(db', q) = EpisodeOf(db, q)
    BY <1>3, <1>4, <1>9, <2>3, <2>4 DEF Legal, EpisodeLegal, EpisodeOf
  <2> QED  BY <2>2, <2>5 DEF SweptRow, Final
<1>15. KeepsResults
  <2> SUFFICES ASSUME NEW q \in Runs \ Replays, Is(db, q, {"applying"}), Answered(db, q)
               PROVE  Answered(db', q) /\ ~Is(db', q, Final)
    BY DEF KeepsResults, Is, Answered
  <2>1. q # r /\ ~SweptRow(db, q)  BY <1>9 DEF Is, SweptRow
  <2> QED  BY <1>4, <1>7, <2>1 DEF Is, Answered, Final
<1> QED  BY <1>3, <1>10, <1>11, <1>12, <1>13, <1>14, <1>15 DEF Good, IInv

LEMMA Prepared ==
    ASSUME IInv, NEW r \in Runs, Prepares(r)
    PROVE  Good
<1>1. CASE Lease(r)  BY <1>1, LeaseStep
<1>2. CASE Recover(r)
  <2>1. /\ prep[r] = "none" /\ Is(db, r, {"preparing"})
        /\ db' = Write(db, r, [db.run[r] EXCEPT !.state = "pending"])
        /\ UNCHANGED <<turns, admitted, prep, fin, polled, aged>>
    BY <1>2 DEF Recover, Store
  <2>2. Legal(db, db', r) /\ StaysIdle(db, db', r)  BY <2>1, StoreFacts, RecoverLegal
  <2>3. ResultSafe(r)  BY <2>1 DEF ResultSafe, Is
  <2> QED  BY <2>1, <2>2, <2>3, StoreFacts, FreeStep
<1>3. CASE Coalesce(r)  BY <1>3, PreparerSteps DEF Coalesce, Gets
<1>4. CASE Admit(r) \/ Submit(r)
  <2>1. /\ prep[r] # "none" /\ prep' \in {[prep EXCEPT ![r] = "admitted"], [prep EXCEPT ![r] = "submitted"]}
        /\ UNCHANGED <<db, admitted, fin, polled, aged>>
    BY <1>4 DEF Admit, Submit, Gets
  <2>2. turns' \subseteq Turns
    <3>1. Bound(r) \subseteq turns /\ db.run[r].key \in Nat /\ turns \subseteq Turns
      BY StoreFacts, States DEF Bound, Row
    <3> QED  BY <1>4, <3>1 DEF Admit, Submit, Turns
  <2>3. SameRows(db, db')  BY <2>1, StoreFacts DEF SameRows, Sound
  <2>4. /\ Jobs(prep', Preparing) /\ \A q \in Runs : prep'[q] # "none" => prep[q] # "none"
    BY <2>1, StoreFacts DEF Jobs, Preparing
  <2>5. polled' = None \/ polled' \in TurnOf  BY <2>1, TypeParts DEF IInv
  <2>6. Jobs(fin', Finalizing) /\ aged' \subseteq Runs /\ fin' = fin /\ aged' = aged
    BY <2>1, StoreFacts
  <2> QED  BY <2>1, <2>2, <2>3, <2>4, <2>5, <2>6, StillStep
<1>5. CASE Wait(r)  BY <1>5, PreparerSteps DEF Wait, Gets
<1>6. CASE Mark(r)
  <2>1. prep[r] # "none" /\ prep' = [prep EXCEPT ![r] = "none"]
        /\ UNCHANGED <<turns, admitted, fin, polled, aged>>
        /\ (db' = DeferAgentRun(db, r) \/ db' = MarkAgentRunSubmitted(db, r))
    BY <1>6 DEF Mark, Gets
  <2> QED  BY <2>1, PreparerSteps
<1>7. CASE PrepareWaits(r)  BY <1>7, PreparerSteps DEF PrepareWaits, Gets
<1>8. CASE PrepareFails(r)
  <2>1. prep[r] # "none" /\ prep' = [prep EXCEPT ![r] = "none"]
        /\ UNCHANGED <<turns, admitted, fin, polled, aged>>
        /\ \/ db' = FinishAgentRunFailure(db, r)
           \/ \E terminal \in BOOLEAN : db' = RetryAgentRun(db, r, terminal)
    BY <1>8 DEF PrepareFails, Gets
  <2> QED  BY <2>1, PreparerSteps
<1>9. CASE Expire(r)  BY <1>9, PreparerSteps DEF Expire, Gets
<1> QED  BY <1>1, <1>2, <1>3, <1>4, <1>5, <1>6, <1>7, <1>8, <1>9 DEF Prepares
-----------------------------------------------------------------------------
(* The poller's steps, and the finalizer's.                                 *)
LEMMA Polled ==
    ASSUME IInv, NEW r \in Runs, Polling(r)
    PROVE  Good
<1>1. Sound(db) /\ turns \subseteq Turns  BY StoreFacts
<1>2. /\ Is(db, r, {"running"}) /\ turns' \subseteq turns
      /\ UNCHANGED <<admitted, prep, fin, polled, aged>>
  BY DEF Polling, PollCompleted, PollFailed, PollInterrupted, PollRefused, Polls
<1>3. \/ \E result \in Answers \cup {"failed"} : db' = StageAgentRunResult(db, r, result)
      \/ \E spends \in BOOLEAN : db' = RequeueAgentRun(db, r, spends)
      \/ db' = DeferRunningAgentRun(db, r) \/ db' = RequeueRateLimited(db, r)
  BY DEF Polling, PollCompleted, PollFailed, PollInterrupted, PollRefused
<1>4. Legal(db, db', r) /\ StaysIdle(db, db', r)
  BY <1>1, <1>3, StageLegal, RequeueLegal, DeferRunningLegal, RateLimitedLegal
<1>5. ResultSafe(r) /\ ~Is(db, r, {"preparing", "finalizing", "cancelled"})
  BY <1>2 DEF ResultSafe, Is
<1> QED  BY <1>1, <1>2, <1>4, <1>5, FreeStep

LEMMA FinalizerSteps ==
    ASSUME IInv, NEW r \in Runs, fin[r] # "none",
           fin' = [fin EXCEPT ![r] = "none"],
           UNCHANGED <<turns, admitted, prep, polled, aged>>,
           \/ db' = db \/ db' = FinishAgentRun(db, r) \/ db' = FinishAgentRunFailure(db, r)
           \/ db' = SupersedeAgentRun(db, r) \/ db' = RetryAgentRunFinalization(db, r)
           \/ db' = ReturnToApplying(db, r) \/ db' = RequeueAgentRun(db, r, FALSE)
    PROVE  Good
<1>1. Sound(db)  BY StoreFacts
<1> SUFFICES Legal(db, db', r) /\ StaysIdle(db, db', r)
  BY FinalizerStep
<1>2. CASE db' = db  BY <1>1, <1>2, UnchangedLegal
<1>3. CASE db' = FinishAgentRun(db, r)  BY <1>1, <1>3, FinishLegal
<1>4. CASE db' = FinishAgentRunFailure(db, r)  BY <1>1, <1>4, FinishFailureLegal
<1>5. CASE db' = SupersedeAgentRun(db, r)  BY <1>1, <1>5, SupersedeLegal
<1>6. CASE db' = RetryAgentRunFinalization(db, r)  BY <1>1, <1>6, ReturnLegal
<1>7. CASE db' = ReturnToApplying(db, r)  BY <1>1, <1>7, ReturnLegal
<1>8. CASE db' = RequeueAgentRun(db, r, FALSE)  BY <1>1, <1>8, RequeueLegal
<1> QED  BY <1>2, <1>3, <1>4, <1>5, <1>6, <1>7, <1>8

(* The finalizer goes on: it tells the answer, or moves the episode.        *)
LEMMA FinalizerGoesOn ==
    ASSUME IInv, NEW r \in Runs, fin[r] # "none", NEW to \in {"told", "phased"},
           fin' = [fin EXCEPT ![r] = to],
           UNCHANGED <<turns, admitted, prep, polled, aged>>,
           \/ db' = db \/ db' = Write(db, r, [db.run[r] EXCEPT !.told = db.run[r].key])
           \/ \E state \in EpisodeState : db' = SetPhase(db, r, state)
    PROVE  Good
<1>1. Sound(db) /\ Is(db, r, {"finalizing", "cancelled"})  BY StoreFacts
<1>2. ~Is(db, r, Working \cup {"absent"})  BY <1>1 DEF Is, Working
<1>3. ~Is(db, r, {"absent"})  BY <1>1 DEF Is
<1> SUFFICES Legal(db, db', r) /\ StaysIdle(db, db', r) /\ db'.run[r].state = db.run[r].state
  BY <1>1, FinalizerStep DEF Is, Finalizing
<1>4. CASE db' = db  BY <1>1, <1>4, UnchangedLegal
<1>5. CASE db' = Write(db, r, [db.run[r] EXCEPT !.told = db.run[r].key])
  BY <1>1, <1>3, <1>5, TellLegal, Zenon
<1>6. CASE \E state \in EpisodeState : db' = SetPhase(db, r, state)
  BY <1>1, <1>2, <1>6, PhaseLegal
<1> QED  BY <1>4, <1>5, <1>6

LEMMA LeaseFinalizationStep ==
    ASSUME IInv, NEW r \in Runs, LeaseFinalization(r)
    PROVE  Good
<1>1. /\ Sound(db) /\ JobsHold /\ Jobs(prep, Preparing) /\ Jobs(fin, Finalizing)
      /\ turns \subseteq Turns /\ aged \subseteq Runs
  BY StoreFacts
<1>2. /\ Is(db, r, {"applying"}) /\ db' = LeaseAgentRunFinalization(db, r)
      /\ fin' = [fin EXCEPT ![r] = IF Is(db', r, {"finalizing"}) THEN "leased" ELSE "none"]
      /\ UNCHANGED <<turns, admitted, prep, polled, aged>>
  BY DEF LeaseFinalization
<1>3. /\ Legal(db, db', r) /\ StaysIdle(db, db', r)
      /\ db'.run[r].staged = db.run[r].staged
      /\ Answered(db, r) => Is(db', r, {"finalizing"})
  BY <1>1, <1>2, LeaseFinalizationLegal
<1>4. ResultSafe(r)  BY <1>3 DEF ResultSafe, Is, Final
<1>5. JobsKept(r)
  <2>1. prep[r] = "none"  BY <1>1, <1>2 DEF JobsHold, Is
  <2>2. /\ Jobs(fin', Finalizing) /\ \A q \in Runs \ {r} : fin'[q] = fin[q]
        /\ fin'[r] # "none" => Is(db', r, {"finalizing"})
    BY <1>1, <1>2 DEF Jobs, Finalizing
  <2> QED  BY <1>1, <1>2, <2>1, <2>2 DEF JobsKept, Is
<1> QED  BY <1>1, <1>2, <1>3, <1>4, <1>5, RunStep

LEMMA Finalized ==
    ASSUME IInv, NEW r \in Runs, Finalizes(r)
    PROVE  Good
<1>1. CASE LeaseFinalization(r)  BY <1>1, LeaseFinalizationStep
<1>2. CASE FinalizeFailure(r)  BY <1>2, FinalizerSteps DEF FinalizeFailure, Moves
<1>3. CASE FinalizeStaleCard(r)  BY <1>3, FinalizerSteps DEF FinalizeStaleCard, Moves
<1>4. CASE FinalizeStaleMessage(r)
  BY <1>4, FinalizerGoesOn DEF FinalizeStaleMessage, Moves, EpisodeState, Final
<1>5. CASE Tell(r)
  <2>1. /\ fin[r] # "none" /\ fin' = [fin EXCEPT ![r] = "told"]
        /\ UNCHANGED <<turns, admitted, prep, polled, aged>>
    BY <1>5 DEF Tell, Moves
  <2>2. db' = db \/ db' = Write(db, r, [db.run[r] EXCEPT !.told = db.run[r].key])
    BY <1>5, Zenon DEF Tell
  <2> QED  BY <2>1, <2>2, FinalizerGoesOn
<1>6. CASE SettleEpisode(r)
  <2>1. /\ fin[r] # "none" /\ fin' = [fin EXCEPT ![r] = "phased"]
        /\ UNCHANGED <<turns, admitted, prep, polled, aged>>
        /\ Answered(db, r) /\ db' = SetPhase(db, r, db.run[r].staged)
    BY <1>6 DEF SettleEpisode, Moves
  <2>2. db.run[r].staged \in EpisodeState
    BY <2>1, ConfigAssumption DEF Answered, EpisodeState, Final
  <2> QED  BY <2>1, <2>2, FinalizerGoesOn
<1>7. CASE Close(r)  BY <1>7, FinalizerSteps DEF Close, Moves
<1>8. CASE FinalizeExpires(r)  BY <1>8, FinalizerSteps DEF FinalizeExpires, Moves
<1>9. CASE FinalizeFails(r)  BY <1>9, FinalizerSteps DEF FinalizeFails, Moves
<1>10. CASE FinalizeRefused(r)  BY <1>10, FinalizerSteps DEF FinalizeRefused, Moves
<1>11. CASE FinalizeCorrects(r)  BY <1>11, FinalizerSteps DEF FinalizeCorrects, Moves
<1> QED
  BY <1>1, <1>2, <1>3, <1>4, <1>5, <1>6, <1>7, <1>8, <1>9, <1>10, <1>11 DEF Finalizes
-----------------------------------------------------------------------------
(* Requests, operators, time and the process.                               *)
LEMMA CorrelateStep ==
    ASSUME IInv, NEW r \in Runs, Correlate(r)
    PROVE  Good
<1>1. Sound(db) /\ TypeOK /\ db \in Database  BY StoreFacts DEF Sound
<1>2. UNCHANGED <<db, turns, prep, fin, polled, aged>>  BY DEF Correlate
<1>3. Is(db, r, {"absent"})
  <2>1. CASE admitted = None  BY <2>1 DEF Correlate, Absent
  <2>2. CASE admitted # None
    <3>1. admitted.run = r  BY <2>2 DEF Correlate
    <3> QED  BY <2>2, <3>1 DEF IInv, QueuedOnce
  <2> QED  BY <2>1, <2>2
<1>4. admitted' \in [run : Runs, episode : Runs \cup {0}] /\ admitted'.run = r
  <2>1. CASE \E q \in Runs : Joins(r, q)
    <3> DEFINE p == CHOOSE q \in Runs : Joins(r, q)
    <3>1. p \in Runs /\ Joins(r, p)  BY <2>1
    <3>2. admitted' = [run |-> r, episode |-> db.run[p].episode]  BY <2>1 DEF Correlate
    <3> HIDE DEF p
    <3>3. db.run[p].episode \in Runs
      BY <1>1, <3>1 DEF Joins, Previous, Sound, RowsRight
    <3> QED  BY <3>2, <3>3
  <2>2. CASE ~\E q \in Runs : Joins(r, q)
    <3>1. admitted' = [run |-> r, episode |-> r]  BY <2>2 DEF Correlate
    <3> QED  BY <3>1
  <2> QED  BY <2>1, <2>2
<1>5. SameRows(db, db')  BY <1>1, <1>2 DEF SameRows
<1>6. polled' = None \/ polled' \in TurnOf  BY <1>2, TypeParts DEF IInv
<1>7. /\ turns' \subseteq Turns /\ Jobs(prep', Preparing) /\ Jobs(fin', Finalizing)
      /\ prep' = prep /\ fin' = fin /\ aged' = aged /\ aged' \subseteq Runs
  BY <1>2, StoreFacts
<1> QED  BY <1>3, <1>4, <1>5, <1>6, <1>7, StillStep

LEMMA QueueStep ==
    ASSUME IInv, Queue
    PROVE  Good
<1> DEFINE r == admitted.run
           e == admitted.episode
<1>1. /\ Sound(db) /\ TypeOK /\ JobsHold /\ OneAtATime /\ db \in Database
      /\ Jobs(prep, Preparing) /\ Jobs(fin, Finalizing)
  BY StoreFacts DEF IInv, Sound
<1>2. /\ admitted # None /\ e # 0 /\ UNCHANGED <<turns, prep, fin, polled, aged>>
      /\ db' \in {QueueAgentRun(db, r, e), QueueEpisodeAttempt(db, r, e)}
      /\ admitted' = IF db' = db THEN [admitted EXCEPT !.episode = 0] ELSE None
  BY DEF Queue, Correlated
<1>3. admitted \in [run : Runs, episode : Runs \cup {0}] /\ r \in Runs /\ e \in Runs
  BY <1>1, <1>2 DEF TypeOK
<1>4. Is(db, r, {"absent"})  BY <1>2 DEF IInv, QueuedOnce
<1> HIDE DEF r, e
<1>5. /\ Sound(db') /\ \A q \in Runs \ {r} : db'.run[q] = db.run[q]
      /\ db' = db \/ db'.run[r].state = "pending"
  BY <1>1, <1>2, <1>3, <1>4, QueueFacts
<1>6. admitted' = None \/ (/\ admitted' \in [run : Runs, episode : Runs \cup {0}]
                            /\ admitted'.run = r /\ db' = db)
  BY <1>2, <1>3 DEF r
<1>7. db' \in Database  BY <1>5 DEF Sound
<1>8. TypeOK'  BY <1>1, <1>2, <1>6, <1>7 DEF TypeOK
<1>9. JobsHold'
  <2>1. prep[r] = "none" /\ fin[r] = "none"  BY <1>1, <1>3, <1>4 DEF JobsHold, Is
  <2> QED  BY <1>1, <1>2, <1>5, <2>1 DEF JobsHold, Is
<1>10. QueuedOnce'  BY <1>4, <1>6 DEF QueuedOnce, Is
<1>11. OneAtATime'
  <2>1. \A q \in Runs : Is(db', q, Active) => q # r
    BY <1>4, <1>5 DEF Is, Active
  <2>2. \A q \in Runs : Is(db', q, Active) => Is(db, q, Active) /\ Follows(db'.run[q], db.run[q])
    BY <1>1, <1>5, <2>1 DEF Is, Follows, Database, Row
  <2> QED  BY <1>1, <1>2, <1>7, <2>2, OneAtATimeKept
<1>12. NewestEnds
  <2>1. \A q \in Runs : Is(db', q, Final) => Is(db, q, Final)
    BY <1>5 DEF Is, Final
  <2> QED  BY <2>1 DEF NewestEnds, Is
<1>13. KeepsResults
  <2> SUFFICES ASSUME NEW q \in Runs \ Replays, Is(db, q, {"applying"}), Answered(db, q)
               PROVE  Answered(db', q) /\ ~Is(db', q, Final)
    BY DEF KeepsResults, Is, Answered
  <2>1. q # r  BY <1>4 DEF Is
  <2> QED  BY <1>5, <2>1 DEF Is, Answered, Final
<1> QED  BY <1>5, <1>8, <1>9, <1>10, <1>11, <1>12, <1>13 DEF Good, IInv

LEMMA SweepStep ==
    ASSUME IInv, Sweep
    PROVE  Good
<1>1. /\ Sound(db) /\ TypeOK /\ JobsHold /\ OneAtATime /\ db \in Database
      /\ UNCHANGED <<turns, admitted, prep, fin, polled, aged>>
  BY StoreFacts DEF IInv, Sound, Sweep, Store
<1>2. /\ Sound(db') /\ db'.episode = db.episode
      /\ \A r \in Runs : ~SweptRow(db, r) => db'.run[r] = db.run[r]
      /\ \A r \in Runs : SweptRow(db, r) => db'.run[r].state = "cancelled"
      /\ \A r \in Runs : Follows(db'.run[r], db.run[r])
  BY <1>1, SweptFacts DEF Sweep
<1>3. db' \in Database  BY <1>2 DEF Sound
<1>4. TypeOK'  BY <1>1, <1>3 DEF TypeOK
<1>5. JobsHold'  BY <1>1, <1>2 DEF JobsHold, Is, SweptRow
<1>6. QueuedOnce'
  <2> SUFFICES ASSUME admitted # None  PROVE Is(db', admitted.run, {"absent"})
    BY <1>1 DEF QueuedOnce, Is
  <2>1. admitted.run \in Runs /\ Is(db, admitted.run, {"absent"})
    BY <1>1, TypeParts DEF IInv, QueuedOnce
  <2> QED  BY <1>2, <2>1 DEF Is, SweptRow
<1>7. OneAtATime'
  <2>1. \A q \in Runs : Is(db', q, Active) => Is(db, q, Active)  BY <1>2 DEF Is, Active
  <2> QED  BY <1>1, <1>2, <1>3, <2>1, OneAtATimeKept
<1>8. NewestEnds
  <2> SUFFICES ASSUME NEW q \in Runs, Is(db', q, Final), ~Is(db, q, Final), Latest(db, q)
               PROVE  EpisodeOf(db', q).state # "active"
    BY DEF NewestEnds, Is, EpisodeOf
  <2>1. SweptRow(db, q)  BY <1>2 DEF Is
  <2> QED  BY <1>2, <2>1 DEF SweptRow, EpisodeOf, Follows, Final
<1>9. KeepsResults
  <2> SUFFICES ASSUME NEW q \in Runs \ Replays, Is(db, q, {"applying"}), Answered(db, q)
               PROVE  Answered(db', q) /\ ~Is(db', q, Final)
    BY DEF KeepsResults, Is, Answered
  <2> QED  BY <1>2 DEF Is, Answered, Final, SweptRow
<1> QED  BY <1>2, <1>4, <1>5, <1>6, <1>7, <1>8, <1>9 DEF Good, IInv

LEMMA RestartStep ==
    ASSUME IInv, Restart
    PROVE  Good
<1>1. /\ Sound(db) /\ TypeOK /\ JobsHold /\ OneAtATime /\ db \in Database /\ turns \subseteq Turns
      /\ db' = RecoverInterrupted(db) /\ UNCHANGED <<turns, aged>>
      /\ admitted' = IF admitted = None THEN None ELSE [admitted EXCEPT !.episode = 0]
      /\ prep' = [r \in Runs |-> "none"] /\ fin' = [r \in Runs |-> "none"] /\ polled' = None
  BY StoreFacts DEF IInv, Sound, Restart
<1>2. /\ Sound(db') /\ db'.episode = db.episode
      /\ \A r \in Runs : /\ Follows(db'.run[r], db.run[r])
                         /\ db'.run[r].staged = db.run[r].staged
                         /\ db'.run[r].state = CASE db.run[r].state = "preparing" -> "pending"
                                                [] db.run[r].state = "finalizing" -> "applying"
                                                [] OTHER -> db.run[r].state
  BY <1>1, RecoveredFacts
<1>3. \A r \in Runs : \/ db'.run[r].state = db.run[r].state
                      \/ db.run[r].state = "preparing" /\ db'.run[r].state = "pending"
                      \/ db.run[r].state = "finalizing" /\ db'.run[r].state = "applying"
  BY <1>2
<1>4. db' \in Database  BY <1>2 DEF Sound
<1>5. admitted' = None \/ (/\ admitted # None /\ admitted.run \in Runs
                            /\ admitted' \in [run : Runs, episode : Runs \cup {0}]
                            /\ admitted'.run = admitted.run)
  BY <1>1 DEF TypeOK
<1>6. TypeOK'  BY <1>1, <1>4, <1>5 DEF TypeOK
<1>7. JobsHold'  BY <1>1 DEF JobsHold
<1>8. QueuedOnce'  BY <1>3, <1>5 DEF IInv, QueuedOnce, Is
<1>9. OneAtATime'
  <2>1. \A q \in Runs : Is(db', q, Active) => Is(db, q, Active)  BY <1>3 DEF Is, Active
  <2> QED  BY <1>1, <1>2, <1>4, <2>1, OneAtATimeKept
<1>10. NewestEnds
  <2>1. \A q \in Runs : Is(db', q, Final) => Is(db, q, Final)  BY <1>3 DEF Is, Final
  <2> QED  BY <2>1 DEF NewestEnds, Is
<1>11. KeepsResults
  <2> SUFFICES ASSUME NEW q \in Runs \ Replays, Is(db, q, {"applying"}), Answered(db, q)
               PROVE  Answered(db', q) /\ ~Is(db', q, Final)
    BY DEF KeepsResults, Is, Answered
  <2> QED  BY <1>2, <1>3 DEF Is, Answered, Final
<1> QED  BY <1>2, <1>6, <1>7, <1>8, <1>9, <1>10, <1>11 DEF Good, IInv

LEMMA OperatorSteps ==
    ASSUME IInv, NEW r \in Runs, RetryFailed(r) \/ CancelReplay(r) \/ Age(r)
    PROVE  Good
<1>1. Sound(db) /\ turns \subseteq Turns /\ aged \subseteq Runs  BY StoreFacts
<1>2. CASE RetryFailed(r)
  <2>1. /\ Is(db, r, {"failed"}) /\ db' = RequeueFailed(db, r)
        /\ UNCHANGED <<turns, admitted, prep, fin, polled, aged>>
    BY <1>2 DEF RetryFailed
  <2>2. Legal(db, db', r) /\ StaysIdle(db, db', r)  BY <1>1, <2>1, RevivedLegal
  <2>3. ResultSafe(r) /\ ~Is(db, r, {"preparing", "finalizing", "cancelled"})
    BY <2>1 DEF ResultSafe, Is
  <2> QED  BY <1>1, <2>1, <2>2, <2>3, FreeStep
<1>3. CASE CancelReplay(r)
  <2>1. /\ r \in Replays /\ db' # db /\ db' = CancelSlackReplay(db, r)
        /\ UNCHANGED <<turns, admitted, prep, fin, polled, aged>>
    BY <1>3 DEF CancelReplay, Store
  <2>2. Legal(db, db', r) /\ StaysIdle(db, db', r) /\ Is(db', r, {"cancelled"})
    BY <1>1, <2>1, CancelLegal DEF Is
  <2>3. ResultSafe(r)  BY <2>1 DEF ResultSafe
  <2> QED  BY <1>1, <2>1, <2>2, <2>3, FreeStep
<1>4. CASE Age(r)
  <2>1. aged' = aged \cup {r} /\ UNCHANGED <<db, turns, admitted, prep, fin, polled>>
    BY <1>4 DEF Age
  <2>2. SameRows(db, db')  BY <1>1, <2>1 DEF SameRows, Sound
  <2>3. polled' = None \/ polled' \in TurnOf  BY <2>1, TypeParts DEF IInv
  <2>4. /\ Jobs(prep', Preparing) /\ Jobs(fin', Finalizing) /\ prep' = prep /\ fin' = fin
    BY <2>1, StoreFacts
  <2> QED  BY <1>1, <2>1, <2>2, <2>3, <2>4, StillStep
<1> QED  BY <1>2, <1>3, <1>4

(* Coop ends a turn, or the poller copies the session's.                    *)
LEMMA CoopSteps ==
    ASSUME IInv,
           \/ ReadSession \/ UpdateCoopState \/ SetWorkflow \/ UNCHANGED vars
           \/ \E t \in turns, outcome \in Outcomes : TurnEnds(t, outcome)
    PROVE  Good
<1>1. /\ Sound(db) /\ db \in Database /\ turns \subseteq Turns /\ aged \subseteq Runs
      /\ Jobs(prep, Preparing) /\ Jobs(fin, Finalizing)
      /\ polled = None \/ polled \in TurnOf
  BY StoreFacts, TypeParts DEF IInv, Sound
<1>2. UNCHANGED <<admitted, prep, fin, aged>>
  BY DEF ReadSession, UpdateCoopState, SetWorkflow, Store, vars, TurnEnds
<1>3. SameRows(db, db')
  <2>1. CASE UpdateCoopState
    <3>1. PICK shut \in BOOLEAN : db' = [db EXCEPT !.active = polled, !.shut = shut]
      BY <2>1 DEF UpdateCoopState
    <3>2. polled \in TurnOf  BY <1>1, <2>1 DEF UpdateCoopState
    <3> QED  BY <1>1, <3>1, <3>2 DEF SameRows, Database
  <2>2. CASE SetWorkflow
    <3>1. none \in TurnOf  BY DEF TurnOf
    <3> QED  BY <1>1, <2>2, <3>1 DEF SetWorkflow, SameRows, Database
  <2>3. CASE ~UpdateCoopState /\ ~SetWorkflow
    <3>1. db' = db  BY <2>3 DEF ReadSession, vars, TurnEnds
    <3> QED  BY <1>1, <3>1 DEF SameRows
  <2> QED  BY <2>1, <2>2, <2>3
<1>4. turns' \subseteq Turns
  <2>1. CASE \E t \in turns, outcome \in Outcomes : TurnEnds(t, outcome)
    <3>1. PICK t \in turns, outcome \in Outcomes : TurnEnds(t, outcome)  BY <2>1
    <3>2. [t EXCEPT !.state = outcome] \in Turns  BY <1>1 DEF Turns
    <3>3. turns' \subseteq turns \cup {[t EXCEPT !.state = outcome]}  BY <3>1 DEF TurnEnds
    <3> QED  BY <1>1, <3>2, <3>3
  <2>2. CASE ~\E t \in turns, outcome \in Outcomes : TurnEnds(t, outcome)
    BY <1>1, <2>2 DEF ReadSession, UpdateCoopState, SetWorkflow, Store, vars
  <2> QED  BY <2>1, <2>2
<1>5. polled' = None \/ polled' \in TurnOf
  <2>1. CASE ReadSession
    <3> DEFINE open == {t \in turns : Incident(t.run) /\ Open(t)}
    <3>1. polled' = IF open = {} THEN none
                    ELSE LET t == CHOOSE t \in open : TRUE IN <<t.run, t.key>>
      BY <2>1 DEF ReadSession, ActiveTurn
    <3>2. \A t \in open : <<t.run, t.key>> \in TurnOf  BY <1>1 DEF Turns, TurnOf
    <3>3. none \in TurnOf  BY DEF TurnOf
    <3> HIDE DEF open
    <3>4. open # {} => (CHOOSE t \in open : TRUE) \in open  OBVIOUS
    <3> QED  BY <3>1, <3>2, <3>3, <3>4
  <2>2. CASE ~ReadSession
    BY <1>1, <2>2 DEF UpdateCoopState, SetWorkflow, Store, vars, TurnEnds
  <2> QED  BY <2>1, <2>2
<1> QED  BY <1>1, <1>2, <1>3, <1>4, <1>5, StillStep
-----------------------------------------------------------------------------
(* The invariant holds initially, and every step keeps it.                  *)
LEMMA InitIInv == Init => IInv
<1> SUFFICES ASSUME Init PROVE IInv  OBVIOUS
<1>1. /\ db.run = [r \in Runs |-> NoRun] /\ db.episode = [r \in Runs |-> NoEpisode]
      /\ db.active = none /\ turns = {} /\ admitted = None /\ polled = None /\ aged = {}
      /\ prep = [r \in Runs |-> "none"] /\ fin = [r \in Runs |-> "none"]
      /\ db = [run |-> db.run, episode |-> db.episode, active |-> db.active, shut |-> db.shut]
      /\ db.shut \in BOOLEAN
  BY DEF Init
<1>2. NoRun \in Row /\ NoRun.state = "absent"  BY DEF NoRun, Row, State
<1>3. NoEpisode \in Episode /\ NoEpisode.events = {}  BY DEF NoEpisode, Episode, EpisodeState
<1>4. db \in Database
  <2>1. db.run \in [Runs -> Row] /\ db.episode \in [Runs -> Episode] /\ db.active \in TurnOf
    BY <1>1, <1>2, <1>3 DEF TurnOf
  <2> QED  BY <1>1, <2>1 DEF Database
<1>5. \A r \in Runs : db.run[r].state = "absent" /\ db.episode[r].events = {}
  BY <1>1, <1>2, <1>3
<1>6. Sound(db)
  BY <1>4, <1>5 DEF Sound, RowsRight, EventsRight, ClosedIdle, Is, Working
<1>7. TypeOK  BY <1>1, <1>4 DEF TypeOK
<1>8. JobsHold /\ QueuedOnce  BY <1>1 DEF JobsHold, QueuedOnce
<1>9. OneAtATime  BY <1>5 DEF OneAtATime, Is, Active
<1> QED  BY <1>6, <1>7, <1>8, <1>9 DEF IInv

LEMMA NextGood == IInv /\ [Next]_vars => Good
<1> SUFFICES ASSUME IInv, [Next]_vars PROVE Good  OBVIOUS
<1>1. CASE \E r \in Runs : Correlate(r)  BY <1>1, CorrelateStep
<1>2. CASE \E r \in Runs : Prepares(r)  BY <1>2, Prepared
<1>3. CASE \E r \in Runs : Polling(r)  BY <1>3, Polled
<1>4. CASE \E r \in Runs : Finalizes(r)  BY <1>4, Finalized
<1>5. CASE \E r \in Runs : RetryFailed(r) \/ CancelReplay(r) \/ Age(r)  BY <1>5, OperatorSteps
<1>6. CASE Queue  BY <1>6, QueueStep
<1>7. CASE Sweep  BY <1>7, SweepStep
<1>8. CASE Restart  BY <1>8, RestartStep
<1>9. CASE \/ ReadSession \/ UpdateCoopState \/ SetWorkflow \/ UNCHANGED vars
           \/ \E t \in turns, outcome \in Outcomes : TurnEnds(t, outcome)
  BY <1>9, CoopSteps
<1> QED  BY <1>1, <1>2, <1>3, <1>4, <1>5, <1>6, <1>7, <1>8, <1>9 DEF Next

LEMMA Invariance == Spec => []IInv
<1>1. IInv /\ [Next]_vars => IInv'  BY NextGood DEF Good
<1> QED  BY InitIInv, <1>1, PTL DEF Spec

(* Every state the store, the jobs and Coop reach has its types, whatever    *)
(* the requests, their kinds, the limits and the failures.                  *)
THEOREM Typing == Spec => []TypeOK
<1>1. IInv => TypeOK  BY DEF IInv
<1> QED  BY Invariance, <1>1, PTL

(* LeaseAgentRun keeps a conversation to one run at work, unless an old one *)
(* keeps failing: no lease, retry, restart or late finalizer lets a second  *)
(* run of the conversation be at work beside it.                            *)
THEOREM OneRunAtWork == Spec => []OneAtATime
<1>1. IInv => OneAtATime  BY DEF IInv
<1> QED  BY Invariance, <1>1, PTL

(* An episode and its newest attempt keep in step: the newest attempt of a  *)
(* closed episode is not at work, and when it ends its episode is no longer *)
(* being worked, unless a revived run fails as it has failed before.        *)
THEOREM InStep == Spec => EpisodeInStep
<1>1. IInv => NotWorkedWhenClosed
  BY DEF IInv, Sound, ClosedIdle, Working, NotWorkedWhenClosed
<1>2. IInv /\ [Next]_vars => NewestEnds  BY NextGood DEF Good
<1> QED  BY Invariance, <1>1, <1>2, PTL DEF Spec, EpisodeInStep

(* An answer that waits to be applied is neither dropped nor given up,      *)
(* except by the operator who cancels a replay.                             *)
THEOREM ResultsKept == Spec => ResultKept
<1>1. IInv /\ [Next]_vars => KeepsResults  BY NextGood DEF Good
<1> QED  BY Invariance, <1>1, PTL DEF Spec, ResultKept
-----------------------------------------------------------------------------
(* What was told.  A run that has told the answer of the execution it is in  *)
(* has that answer still, and it is being applied or the run is over and did *)
(* not fail; a request that was not queued yet has told nothing.             *)
Spoken == {"applying", "finalizing", "completed", "cancelled", "superseded"}
Spoke(row) == row.told = row.key /\ row.staged \in Answers /\ row.state \in Spoken
ToldRow(row) ==
    /\ 1 <= row.key /\ row.told <= row.key
    /\ row.told = row.key => Spoke(row)
    /\ row.state = "absent" => row.told = 0 /\ row.staged = "none"
ToldRight(d) == \A r \in Runs : ToldRow(d.run[r])

(* Requests come in the order of their numbers.  The newest attempt of an    *)
(* episode is the last that came, and between two requests of an episode     *)
(* there is none of the same conversation that is not of it.                 *)
There(d, r) == ~Is(d, r, {"absent"})
InOrder(d) == \A q, r \in Runs : There(d, r) /\ ~There(d, q) => r < q
LatestIsLast(d) ==
    \A r \in Runs : There(d, r) =>
        LET e == d.run[r].episode
            l == d.episode[e].latest
        IN /\ e \in Runs /\ Kind[e] = Kind[r] /\ e <= r
           /\ l \in Runs /\ There(d, l) /\ d.run[l].episode = e /\ r <= l
Together(d) ==
    \A p, q, r \in Runs :
        There(d, p) /\ There(d, q) /\ There(d, r) /\ p < q /\ q < r
        /\ Kind[p] = Kind[q] /\ d.run[p].episode = d.run[r].episode
            => d.run[q].episode = d.run[p].episode
Lineage(d) == InOrder(d) /\ LatestIsLast(d) /\ Together(d)

(* The request being queued is the next, and joins no episode but the last.  *)
NextAdmitted ==
    admitted # None =>
        /\ \A q \in Absent : admitted.run <= q
        /\ admitted.episode # 0 =>
             \/ admitted.episode = admitted.run
             \/ \E g \in Previous(admitted.run) :
                   /\ \A p \in Previous(admitted.run) : p <= g
                   /\ db.run[g].episode = admitted.episode

OInv == ToldRight(db) /\ Lineage(db) /\ NextAdmitted /\ NotGivenUpForNothing

(* What a transaction may make of a row: what was told stays told.           *)
KeepsWord(row, old) == ToldRow(old) => ToldRow(row) /\ (old.told # 0 => row.told # 0)

LEMMA WordKept ==
    ASSUME NEW old \in Row, NEW row \in Row, row.told = old.told, row.state # "absent",
           \/ row.key > old.key
           \/ row.key = old.key /\ ~Spoke(old)
           \/ row.key = old.key /\ row.staged = old.staged /\ row.state \in Spoken
    PROVE  KeepsWord(row, old)
<1>1. row.key \in Nat /\ old.key \in Nat /\ row.told \in Nat  BY DEF Row
<1>2. CASE row.key > old.key  BY <1>1, <1>2 DEF KeepsWord, ToldRow, Spoke
<1>3. CASE row.key = old.key /\ ~Spoke(old)  BY <1>1, <1>3 DEF KeepsWord, ToldRow
<1>4. CASE row.key = old.key /\ row.staged = old.staged /\ row.state \in Spoken
  BY <1>1, <1>4 DEF KeepsWord, ToldRow, Spoke
<1> QED  BY <1>2, <1>3, <1>4

LEMMA WordHeld ==
    ASSUME NEW row, NEW mid, NEW old
    PROVE  /\ KeepsWord(row, row)
           /\ KeepsWord(row, mid) /\ KeepsWord(mid, old) => KeepsWord(row, old)
BY DEF KeepsWord

(* The rows the store writes. *)
LEMMA RowWords ==
    ASSUME NEW row \in Row
    PROVE  /\ \A s \in State : LET new == [row EXCEPT !.state = s]
                               IN new \in Row /\ new.state = s /\ new.told = row.told
                                  /\ new.key = row.key /\ new.staged = row.staged
           /\ Renewed(row) \in Row /\ Renewed(row).told = row.told
           /\ Renewed(row).key > row.key /\ Renewed(row).state = "pending"
           /\ Failing(row) \in Row /\ Failing(row).told = row.told /\ Failing(row).key = row.key
           /\ Failing(row).state = row.state /\ Failing(row).staged = row.staged
<1>1. row.key + 1 \in Nat /\ row.failures + 1 \in Nat /\ row.key + 1 > row.key  BY DEF Row
<1>2. \A s \in State : LET new == [row EXCEPT !.state = s]
                       IN new \in Row /\ new.state = s /\ new.told = row.told
                          /\ new.key = row.key /\ new.staged = row.staged
  BY DEF Row
<1>3. /\ Renewed(row) \in Row /\ Renewed(row).told = row.told
      /\ Renewed(row).key > row.key /\ Renewed(row).state = "pending"
  BY <1>1, RenewedTypes DEF Row, Renewed
<1>4. /\ Failing(row) \in Row /\ Failing(row).told = row.told /\ Failing(row).key = row.key
      /\ Failing(row).state = row.state /\ Failing(row).staged = row.staged
  BY <1>1, RenewedTypes DEF Row, Failing
<1> QED  BY <1>2, <1>3, <1>4

LEMMA RestagedWords ==
    ASSUME NEW row \in Row
    PROVE  /\ Restaged(row) \in Row /\ Restaged(row).told = row.told
           /\ Restaged(row).key > row.key /\ Restaged(row).state = "pending"
<1>1. PICK new \in Row : new = Renewed(row)  BY RowWords
<1>2. new.told = row.told /\ new.key > row.key /\ new.state = "pending"  BY <1>1, RowWords
<1>3. Restaged(row) = [new EXCEPT !.staged = "none"]  BY <1>1 DEF Restaged
<1> QED  BY <1>2, <1>3 DEF Row

(* A transaction writes its row or is refused.                               *)
LEMMA CommitRow ==
    ASSUME NEW d \in Database, NEW r \in Runs, NEW row, NEW state, NEW key
    PROVE  /\ Commit(d, r, row, state, key).run[r] \in {d.run[r], row}
           /\ Write(d, r, row).run[r] = row
<1> DEFINE m == [d EXCEPT !.run[r] = row]
<1>1. /\ m = [run |-> [d.run EXCEPT ![r] = row], episode |-> d.episode, active |-> d.active,
            shut |-> d.shut]
      /\ [d.run EXCEPT ![r] = row][r] = row
  BY DEF Database
<1>2. m.run[r] = row  BY <1>1
<1>3. Phased(m, r, state, key).run = m.run
  <2>1. \A x : [m EXCEPT !.episode = x].run = m.run  BY <1>1
  <2>2. Phased(m, r, state, key) = m \/ \E x : Phased(m, r, state, key) = [m EXCEPT !.episode = x]
    <3> DEFINE e == EpisodeOf(m, r)
               new == [e EXCEPT !.state = state, !.events = Keep(e, key)]
               x == [m.episode EXCEPT ![m.run[r].episode] = new]
    <3>1. Phased(m, r, state, key) = m \/ Phased(m, r, state, key) = [m EXCEPT !.episode = x]
      BY DEF Phased
    <3> HIDE DEF m, x
    <3> QED  BY <3>1
  <2> HIDE DEF m
  <2> QED  BY <2>1, <2>2
<1>4. Commit(d, r, row, state, key) = d \/ Commit(d, r, row, state, key) = Phased(m, r, state, key)
  BY DEF Commit
<1>5. Write(d, r, row) = m  BY DEF Write
<1> HIDE DEF m
<1> QED  BY <1>2, <1>3, <1>4, <1>5
-----------------------------------------------------------------------------
(* Each method keeps its word, and gives up only an attempt that is not the  *)
(* newest, but for SupersedeAgentRun, whose callers say why.                 *)
GivesWay(d, c, r) == Is(c, r, {"superseded"}) => Is(d, r, {"superseded"}) \/ ~Latest(d, r)
Tells(d, c, r) == KeepsWord(c.run[r], d.run[r]) /\ GivesWay(d, c, r)

LEMMA UnchangedTells ==
    ASSUME NEW d, NEW r, NEW c, c.run[r] = d.run[r]
    PROVE  Tells(d, c, r)
BY WordHeld DEF Tells, GivesWay, Is

LEMMA RowTells ==
    ASSUME NEW d, NEW r \in Runs, d.run[r] \in Row, NEW row \in Row,
           row.told = d.run[r].told, row.state # "absent",
           \/ row.key > d.run[r].key
           \/ row.key = d.run[r].key /\ ~Spoke(d.run[r])
           \/ row.key = d.run[r].key /\ row.staged = d.run[r].staged /\ row.state \in Spoken,
           row.state # "superseded" \/ ~Latest(d, r),
           NEW c, c.run[r] \in {d.run[r], row}
    PROVE  Tells(d, c, r)
<1>1. CASE c.run[r] = d.run[r]  BY <1>1, UnchangedTells
<1>2. CASE c.run[r] = row
  <2>1. KeepsWord(row, d.run[r])  BY WordKept
  <2> QED  BY <1>2, <2>1 DEF Tells, GivesWay, Is
<1> QED  BY <1>1, <1>2

(* The preparer's methods. *)
LEMMA SilentStates ==
    ASSUME NEW d, NEW r
    PROVE  /\ Is(d, r, {"pending", "preparing", "running", "failed"}) => ~Spoke(d.run[r])
           /\ {"pending", "preparing", "running", "failed"} \cup Spoken \subseteq State
           /\ "absent" \notin Spoken \cup {"pending", "preparing", "running", "failed"}
           /\ "superseded" \notin {"pending", "preparing", "running", "failed"}
BY DEF Is, Spoke, Spoken, State, Active, Final

LEMMA DeferTells ==
    ASSUME NEW d, Sound(d), NEW r \in Runs
    PROVE  Tells(d, DeferAgentRun(d, r), r)
<1> DEFINE row == [d.run[r] EXCEPT !.state = "pending"]
<1>0. d \in Database /\ d.run[r] \in Row  BY States DEF Sound
<1>1. CASE ~Is(d, r, {"preparing"})
  <2>1. DeferAgentRun(d, r) = d  BY <1>1 DEF DeferAgentRun
  <2> QED  BY <2>1, UnchangedTells
<1>2. CASE Is(d, r, {"preparing"})
  <2>1. /\ row \in Row /\ row.state = "pending" /\ row.told = d.run[r].told
        /\ row.key = d.run[r].key
    BY <1>0, RowWords, SilentStates
  <2>2. ~Spoke(d.run[r])  BY <1>2, SilentStates DEF Is
  <2>3. DeferAgentRun(d, r) = Commit(d, r, row, "active", <<"deferred", r>>)
    BY <1>2 DEF DeferAgentRun
  <2> HIDE DEF row
  <2>4. DeferAgentRun(d, r).run[r] \in {d.run[r], row}  BY <1>0, <2>3, CommitRow
  <2> QED  BY <1>0, <2>1, <2>2, <2>4, RowTells
<1> QED  BY <1>1, <1>2

LEMMA ReleaseTells ==
    ASSUME NEW d, Sound(d), NEW r \in Runs
    PROVE  Tells(d, ReleaseAgentRunRevision(d, r), r)
<1> DEFINE renewed == Renewed(d.run[r])
           row == [renewed EXCEPT !.state = "preparing"]
<1>0. d \in Database /\ d.run[r] \in Row  BY States DEF Sound
<1>1. CASE ~Is(d, r, {"preparing"})
  <2>1. ReleaseAgentRunRevision(d, r) = d  BY <1>1 DEF ReleaseAgentRunRevision
  <2> QED  BY <2>1, UnchangedTells
<1>2. CASE Is(d, r, {"preparing"})
  <2>1. renewed \in Row /\ renewed.told = d.run[r].told /\ renewed.key > d.run[r].key
    BY <1>0, RowWords
  <2>2. ReleaseAgentRunRevision(d, r) = Write(d, r, row)
    BY <1>2 DEF ReleaseAgentRunRevision
  <2> HIDE DEF renewed
  <2>3. row \in Row /\ row.state = "preparing" /\ row.told = renewed.told /\ row.key = renewed.key
    BY <2>1, RowWords, SilentStates
  <2> HIDE DEF row
  <2>4. ReleaseAgentRunRevision(d, r).run[r] \in {d.run[r], row}  BY <1>0, <2>2, CommitRow
  <2> QED  BY <1>0, <2>1, <2>3, <2>4, RowTells
<1> QED  BY <1>1, <1>2

LEMMA RateLimitedTells ==
    ASSUME NEW d, Sound(d), NEW r \in Runs
    PROVE  Tells(d, RequeueRateLimited(d, r), r)
<1> DEFINE row == Renewed(d.run[r])
<1>0. d \in Database /\ d.run[r] \in Row  BY States DEF Sound
<1>1. row \in Row /\ row.told = d.run[r].told /\ row.key > d.run[r].key /\ row.state = "pending"
  BY <1>0, RowWords
<1>2. RequeueRateLimited(d, r) \in {d, Commit(d, r, row, "active", fresh)}
  BY DEF RequeueRateLimited
<1> HIDE DEF row
<1>3. RequeueRateLimited(d, r).run[r] \in {d.run[r], row}  BY <1>0, <1>2, CommitRow
<1> QED  BY <1>0, <1>1, <1>3, RowTells

LEMMA RetryTells ==
    ASSUME NEW d, Sound(d), NEW r \in Runs, NEW terminal \in BOOLEAN
    PROVE  Tells(d, RetryAgentRun(d, r, terminal), r)
<1> DEFINE renewed == Renewed(d.run[r])
           failing == Failing(renewed)
           row == [failing EXCEPT !.state = "failed"]
           c == RetryAgentRun(d, r, terminal)
<1>0. d \in Database /\ d.run[r] \in Row  BY States DEF Sound
<1>1. c \in {d, Commit(d, r, row, "failed", fresh), Commit(d, r, failing, "active", fresh)}
  BY DEF RetryAgentRun
<1>2. /\ renewed \in Row /\ renewed.told = d.run[r].told /\ renewed.key > d.run[r].key
      /\ renewed.state = "pending"
  BY <1>0, RowWords
<1> HIDE DEF renewed
<1>3. /\ failing \in Row /\ failing.told = renewed.told /\ failing.key = renewed.key
      /\ failing.state = renewed.state
  BY <1>2, RowWords
<1> HIDE DEF failing
<1>4. row \in Row /\ row.state = "failed" /\ row.told = failing.told /\ row.key = failing.key
  BY <1>3, RowWords, SilentStates
<1> HIDE DEF row, c
<1>5. c.run[r] \in {d.run[r], row} \/ c.run[r] \in {d.run[r], failing}
  BY <1>0, <1>1, CommitRow
<1>6. CASE c.run[r] \in {d.run[r], row}
  BY <1>0, <1>2, <1>3, <1>4, <1>6, RowTells DEF c
<1>7. CASE c.run[r] \in {d.run[r], failing}
  BY <1>0, <1>2, <1>3, <1>7, RowTells DEF c
<1> QED  BY <1>5, <1>6, <1>7

LEMMA MarkTells ==
    ASSUME NEW d, Sound(d), NEW r \in Runs
    PROVE  Tells(d, MarkAgentRunSubmitted(d, r), r)
<1> DEFINE row == [d.run[r] EXCEPT !.state = "running", !.bound = TRUE, !.started = TRUE]
           marked == Commit(d, r, row, "active", fresh)
           c == MarkAgentRunSubmitted(d, r)
<1>0. d \in Database /\ d.run[r] \in Row  BY States DEF Sound
<1>1. CASE ~Is(d, r, {"preparing"})
  <2>1. c = d  BY <1>1 DEF MarkAgentRunSubmitted
  <2> QED  BY <2>1, UnchangedTells
<1>2. CASE Is(d, r, {"preparing"})
  <2>1. /\ row \in Row /\ row.state = "running" /\ row.told = d.run[r].told
        /\ row.key = d.run[r].key
    <3>1. row \in Row /\ row.state = "running"  BY <1>0, MarkedTypes, Zenon
    <3>2. row.told = d.run[r].told /\ row.key = d.run[r].key  BY <1>0 DEF Row
    <3> QED  BY <3>1, <3>2
  <2>2. ~Spoke(d.run[r])  BY <1>2, SilentStates DEF Is
  <2>3. c = marked \/ c = [marked EXCEPT !.active = Turn(marked, r), !.shut = FALSE]
    BY <1>2 DEF MarkAgentRunSubmitted
  <2> HIDE DEF row
  <2>4. marked.run[r] \in {d.run[r], row}  BY <1>0, CommitRow
  <2>5. CASE marked = d
    BY <1>0, <2>3, <2>5, UnchangedTells DEF Database
  <2>6. CASE marked # d
    <3>1. marked = Phased([d EXCEPT !.run[r] = row], r, "active", fresh)
      BY <2>6 DEF Commit
    <3>2. "run" \in DOMAIN marked  BY <1>0, <3>1 DEF Phased, Database
    <3> HIDE DEF marked
    <3>3. c.run = marked.run  BY <2>3, <3>2
    <3> HIDE DEF c
    <3> QED  BY <1>0, <2>1, <2>2, <2>4, <3>3, RowTells DEF c
  <2> QED  BY <2>5, <2>6
<1> QED  BY <1>1, <1>2

LEMMA SupersedeTells ==
    ASSUME NEW d, Sound(d), NEW r \in Runs
    PROVE  /\ KeepsWord(SupersedeAgentRun(d, r).run[r], d.run[r])
           /\ ~Latest(d, r) => Tells(d, SupersedeAgentRun(d, r), r)
<1> DEFINE row == [d.run[r] EXCEPT !.state = "superseded"]
           c == SupersedeAgentRun(d, r)
<1>0. d \in Database /\ d.run[r] \in Row  BY States DEF Sound
<1>1. c \in {d, Commit(d, r, row, "superseded", <<"superseded", r>>)}
  BY DEF SupersedeAgentRun
<1>2. /\ row \in Row /\ row.state = "superseded" /\ row.told = d.run[r].told
      /\ row.key = d.run[r].key /\ row.staged = d.run[r].staged /\ row.state \in Spoken
      /\ row.state # "absent"
  BY <1>0, RowWords, SilentStates DEF Spoken
<1> HIDE DEF row, c
<1>3. c.run[r] \in {d.run[r], row}  BY <1>0, <1>1, CommitRow
<1>4. KeepsWord(c.run[r], d.run[r])  BY <1>0, <1>2, <1>3, WordKept, WordHeld
<1> QED  BY <1>4 DEF Tells, GivesWay, c

(* The poller's methods. *)
LEMMA ReleasedRow ==
    ASSUME NEW d \in Database, NEW r \in Runs
    PROVE  Released(d, r) \in Database /\ Released(d, r).run = d.run
BY DEF Released, Database, TurnOf

LEMMA RequeueTells ==
    ASSUME NEW d, Sound(d), NEW r \in Runs, NEW spends \in BOOLEAN
    PROVE  Tells(d, RequeueAgentRun(d, r, spends), r)
<1> DEFINE row == Restaged(d.run[r])
           next == IF spends THEN Failing(row) ELSE [row EXCEPT !.corrections = @ + 1]
           given == [next EXCEPT !.state = "superseded"]
           m == Released(d, r)
           c == RequeueAgentRun(d, r, spends)
<1>0. d \in Database /\ d.run[r] \in Row /\ m \in Database /\ m.run = d.run
  BY States, ReleasedRow DEF Sound
<1>1. \/ c = d \/ c = Commit(m, r, next, "active", fresh)
      \/ /\ Is(d, r, {"running", "finalizing"}) /\ Refused(d, r, "active", fresh)
         /\ c = Write(m, r, given)
  BY DEF RequeueAgentRun
<1>2. /\ row \in Row /\ row.told = d.run[r].told /\ row.key > d.run[r].key
      /\ row.state = "pending"
  BY <1>0, RestagedWords
<1> HIDE DEF row
<1>3. next \in Row /\ next.told = row.told /\ next.key = row.key /\ next.state = row.state
  <2>1. CASE spends  BY <1>2, <2>1, RowWords
  <2>2. CASE ~spends
    <3>1. next = [row EXCEPT !.corrections = @ + 1]  BY <2>2
    <3>2. next \in Row /\ next.state = row.state  BY <1>2, <3>1, CorrectedTypes, Zenon
    <3> HIDE DEF next
    <3>3. next.told = row.told /\ next.key = row.key  BY <1>2, <3>1 DEF Row
    <3> QED  BY <3>2, <3>3
  <2> QED  BY <2>1, <2>2
<1> HIDE DEF next
<1>4. /\ given \in Row /\ given.state = "superseded" /\ given.told = next.told
      /\ given.key = next.key /\ given.state # "absent"
  BY <1>3, RowWords, SilentStates DEF Spoken
<1> HIDE DEF given, m, c
<1>5. CASE c = d  BY <1>5, UnchangedTells DEF c
<1>6. CASE c = Commit(m, r, next, "active", fresh)
  <2>1. c.run[r] \in {d.run[r], next}  BY <1>0, <1>6, CommitRow
  <2> QED  BY <1>0, <1>2, <1>3, <2>1, RowTells DEF c
<1>7. CASE /\ Is(d, r, {"running", "finalizing"}) /\ Refused(d, r, "active", fresh)
            /\ c = Write(m, r, given)
  <2>1. c.run[r] \in {d.run[r], given}  BY <1>0, <1>7, CommitRow
  <2>2. ~Latest(d, r)
    <3>1. CASE EpisodeOf(d, r).state \in Final
      <4>1. d.run[r].episode \in Runs  BY <1>7 DEF Sound, RowsRight, Is
      <4>2. ~Holds(EpisodeOf(d, r), fresh)
        BY <1>0, <4>1, KeyTypes DEF Holds, EpisodeOf, Database, Episode
      <4> QED  BY <1>7, <3>1, <4>2 DEF Refused, Final
    <3>2. CASE EpisodeOf(d, r).state \notin Final
      BY <1>7, <3>2 DEF Refused, Closed, Dropped, Final
    <3> QED  BY <3>1, <3>2
  <2> QED  BY <1>0, <1>2, <1>3, <1>4, <2>1, <2>2, RowTells DEF c
<1> QED  BY <1>1, <1>5, <1>6, <1>7

LEMMA DeferRunningTells ==
    ASSUME NEW d, Sound(d), NEW r \in Runs
    PROVE  Tells(d, DeferRunningAgentRun(d, r), r)
<1> DEFINE row == Restaged(d.run[r])
           m == Released(d, r)
           c == DeferRunningAgentRun(d, r)
<1>0. d \in Database /\ d.run[r] \in Row /\ m \in Database /\ m.run = d.run
  BY States, ReleasedRow DEF Sound
<1>1. c = d \/ c = Commit(m, r, row, "active", fresh)  BY DEF DeferRunningAgentRun
<1>2. row \in Row /\ row.told = d.run[r].told /\ row.key > d.run[r].key /\ row.state = "pending"
  BY <1>0, RestagedWords
<1> HIDE DEF row, m, c
<1>3. c.run[r] \in {d.run[r], row}  BY <1>0, <1>1, CommitRow
<1> QED  BY <1>0, <1>2, <1>3, RowTells DEF c

LEMMA StageTells ==
    ASSUME NEW d, Sound(d), NEW r \in Runs, NEW result \in Answers \cup {"failed"}
    PROVE  Tells(d, StageAgentRunResult(d, r, result), r)
<1> DEFINE row == [d.run[r] EXCEPT !.state = "applying", !.staged = result]
           c == StageAgentRunResult(d, r, result)
<1>0. d \in Database /\ d.run[r] \in Row  BY States DEF Sound
<1>1. CASE ~Is(d, r, {"running"})
  <2>1. c = d  BY <1>1 DEF StageAgentRunResult
  <2> QED  BY <2>1, UnchangedTells
<1>2. CASE Is(d, r, {"running"})
  <2>1. row \in Row /\ row.state = "applying"  BY <1>0, StagedTypes, Zenon
  <2>2. row.told = d.run[r].told /\ row.key = d.run[r].key  BY <1>0 DEF Row
  <2>3. ~Spoke(d.run[r])  BY <1>2, SilentStates DEF Is
  <2>4. c = Commit(d, r, row, "active", fresh)  BY <1>2 DEF StageAgentRunResult
  <2> HIDE DEF row, c
  <2>5. c.run[r] \in {d.run[r], row}  BY <1>0, <2>4, CommitRow
  <2> QED  BY <1>0, <2>1, <2>2, <2>3, <2>5, RowTells DEF c
<1> QED  BY <1>1, <1>2

(* The finalizer's methods. *)
LEMMA LeaseFinalizationTells ==
    ASSUME NEW d, Sound(d), NEW r \in Runs
    PROVE  Tells(d, LeaseAgentRunFinalization(d, r), r)
<1> DEFINE state == IF ~Answered(d, r) /\ ~Latest(d, r) THEN "superseded" ELSE "finalizing"
           row == [d.run[r] EXCEPT !.state = state]
           c == LeaseAgentRunFinalization(d, r)
<1>0. d \in Database /\ d.run[r] \in Row  BY States DEF Sound
<1>1. state \in Spoken /\ (state = "superseded" => ~Latest(d, r))  BY DEF Spoken
<1>2. c = Write(d, r, row)  BY DEF LeaseAgentRunFinalization
<1> HIDE DEF state
<1>3. /\ row \in Row /\ row.state = state /\ row.told = d.run[r].told
      /\ row.key = d.run[r].key /\ row.staged = d.run[r].staged
  BY <1>0, <1>1, RowWords, SilentStates
<1> HIDE DEF row, c
<1>4. c.run[r] \in {d.run[r], row}  BY <1>0, <1>2, CommitRow
<1> QED  BY <1>0, <1>1, <1>3, <1>4, RowTells, SilentStates DEF c

LEMMA FinishedTells ==
    ASSUME NEW d, Sound(d), NEW r \in Runs, ToldRow(d.run[r]),
           NEW outcome \in {"completed", "failed", "cancelled"},
           outcome = "failed" => d.run[r].told # d.run[r].key
    PROVE  Tells(d, Finished(d, r, outcome), r)
<1> DEFINE row == [d.run[r] EXCEPT !.state = outcome,
                                   !.failures = IF outcome = "failed" THEN @ + 1 ELSE @]
           freed == Freed(d, r)
           c == Finished(d, r, outcome)
<1>0. d \in Database /\ d.run[r] \in Row  BY States DEF Sound
<1>1. freed \in Database /\ freed.run = d.run  BY <1>0 DEF Database, TurnOf, Freed
<1>2. c \in {Commit(freed, r, row, outcome, <<"finished", r, outcome>>), Write(freed, r, row)}
  BY DEF Finished
<1>3. outcome \in State /\ outcome # "absent" /\ outcome # "superseded"
      /\ (outcome = "failed" \/ outcome \in Spoken)
  BY DEF State, Final, Spoken
<1>4. row \in Row /\ row.state = outcome  BY <1>0, <1>3, FinishedTypes, Zenon
<1>5. row.told = d.run[r].told /\ row.key = d.run[r].key /\ row.staged = d.run[r].staged
  BY <1>0 DEF Row
<1> HIDE DEF row, freed, c
<1>6. c.run[r] \in {d.run[r], row}  BY <1>0, <1>1, <1>2, CommitRow
<1>7. outcome = "failed" => ~Spoke(d.run[r])  BY DEF Spoke
<1> QED  BY <1>0, <1>3, <1>4, <1>5, <1>6, <1>7, RowTells DEF c

LEMMA FinishTells ==
    ASSUME NEW d, Sound(d), NEW r \in Runs, ToldRow(d.run[r])
    PROVE  Tells(d, FinishAgentRun(d, r), r)
<1> DEFINE outcome == IF Answered(d, r) THEN "completed" ELSE d.run[r].staged
           c == FinishAgentRun(d, r)
<1>1. CASE ~Is(d, r, {"finalizing"})
  <2>1. c = d  BY <1>1 DEF FinishAgentRun
  <2> QED  BY <2>1, UnchangedTells
<1>2. CASE Is(d, r, {"finalizing"})
  <2>1. c = Finished(d, r, outcome)  BY <1>2 DEF FinishAgentRun
  <2>2. Result(d.run[r])  BY <1>2 DEF Sound, RowsRight, Is
  <2>3. outcome \in {"completed", "failed", "cancelled"}  BY <2>2 DEF Result, Answered
  <2>4. outcome = "failed" => d.run[r].told # d.run[r].key
    BY ConfigAssumption DEF Answered, ToldRow, Spoke
  <2> HIDE DEF outcome
  <2> QED  BY <2>1, <2>3, <2>4, FinishedTells
<1> QED  BY <1>1, <1>2

LEMMA FinishFailureTells ==
    ASSUME NEW d, Sound(d), NEW r \in Runs, ToldRow(d.run[r])
    PROVE  Tells(d, FinishAgentRunFailure(d, r), r)
<1> DEFINE outcome == IF Is(d, r, {"finalizing"}) /\ Answered(d, r) /\ d.run[r].told = d.run[r].key
                      THEN "completed" ELSE "failed"
           c == FinishAgentRunFailure(d, r)
<1>1. CASE ~Is(d, r, {"preparing", "finalizing"})
  <2>1. c = d  BY <1>1 DEF FinishAgentRunFailure
  <2> QED  BY <2>1, UnchangedTells
<1>2. CASE Is(d, r, {"preparing", "finalizing"}) /\ ~Latest(d, r)
  <2>1. c = SupersedeAgentRun(d, r)  BY <1>2 DEF FinishAgentRunFailure
  <2> QED  BY <1>2, <2>1, SupersedeTells
<1>3. CASE Is(d, r, {"preparing", "finalizing"}) /\ Latest(d, r)
  <2>1. c = Finished(d, r, outcome)  BY <1>3 DEF FinishAgentRunFailure
  <2>2. outcome \in {"completed", "failed", "cancelled"}  OBVIOUS
  <2>3. outcome = "failed" => d.run[r].told # d.run[r].key
    BY <1>3, SilentStates DEF Answered, ToldRow, Spoke, Is, Spoken
  <2> HIDE DEF outcome
  <2> QED  BY <2>1, <2>2, <2>3, FinishedTells
<1> QED  BY <1>1, <1>2, <1>3

LEMMA ReturnTells ==
    ASSUME NEW d, Sound(d), NEW r \in Runs
    PROVE  Tells(d, ReturnToApplying(d, r), r) /\ Tells(d, RetryAgentRunFinalization(d, r), r)
<1> DEFINE returned == [d.run[r] EXCEPT !.state = "applying"]
           failing == Failing(returned)
           a == ReturnToApplying(d, r)
           b == RetryAgentRunFinalization(d, r)
<1>0. d \in Database /\ d.run[r] \in Row  BY States DEF Sound
<1>1. a \in {d, Write(d, r, returned)} /\ b \in {d, Write(d, r, failing)}
  BY DEF ReturnToApplying, RetryAgentRunFinalization
<1>2. /\ returned \in Row /\ returned.state = "applying" /\ returned.told = d.run[r].told
      /\ returned.key = d.run[r].key /\ returned.staged = d.run[r].staged
  BY <1>0, RowWords, SilentStates DEF Spoken
<1> HIDE DEF returned
<1>3. /\ failing \in Row /\ failing.state = "applying" /\ failing.told = d.run[r].told
      /\ failing.key = d.run[r].key /\ failing.staged = d.run[r].staged
  BY <1>2, RowWords
<1>4. "applying" \in Spoken  BY DEF Spoken
<1> HIDE DEF failing, a, b
<1>5. a.run[r] \in {d.run[r], returned} /\ b.run[r] \in {d.run[r], failing}
  BY <1>0, <1>1, CommitRow
<1>6. Tells(d, a, r)  BY <1>0, <1>2, <1>4, <1>5, RowTells
<1>7. Tells(d, b, r)  BY <1>0, <1>3, <1>4, <1>5, RowTells
<1> QED  BY <1>6, <1>7 DEF a, b

(* The operator's methods. *)
LEMMA RevivedTells ==
    ASSUME NEW d, Sound(d), NEW r \in Runs
    PROVE  Tells(d, RequeueFailed(d, r), r)
<1> DEFINE row == Restaged(d.run[r])
           c == RequeueFailed(d, r)
<1>0. d \in Database /\ d.run[r] \in Row  BY States DEF Sound
<1>1. c = d \/ c = Commit(d, r, row, "active", fresh)  BY DEF RequeueFailed
<1>2. row \in Row /\ row.told = d.run[r].told /\ row.key > d.run[r].key /\ row.state = "pending"
  BY <1>0, RestagedWords
<1> HIDE DEF row, c
<1>3. c.run[r] \in {d.run[r], row}  BY <1>0, <1>1, CommitRow
<1> QED  BY <1>0, <1>2, <1>3, RowTells DEF c

LEMMA CancelTells ==
    ASSUME NEW d, Sound(d), NEW r \in Runs, ToldRow(d.run[r])
    PROVE  Tells(d, CancelSlackReplay(d, r), r)
<1> DEFINE row == [d.run[r] EXCEPT !.state = "cancelled"]
           c == CancelSlackReplay(d, r)
<1>0. d \in Database /\ d.run[r] \in Row  BY States DEF Sound
<1>1. c \in {d, Write(d, r, row), Finished(d, r, "cancelled")}  BY DEF CancelSlackReplay
<1>2. /\ row \in Row /\ row.state = "cancelled" /\ row.told = d.run[r].told
      /\ row.key = d.run[r].key /\ row.staged = d.run[r].staged /\ "cancelled" \in Spoken
  BY <1>0, RowWords, SilentStates DEF Spoken
<1> HIDE DEF row, c
<1>3. CASE c \in {d, Write(d, r, row)}
  <2>1. c.run[r] \in {d.run[r], row}  BY <1>0, <1>3, CommitRow
  <2> QED  BY <1>0, <1>2, <2>1, RowTells DEF c
<1>4. CASE c = Finished(d, r, "cancelled")  BY <1>4, FinishedTells DEF c
<1> QED  BY <1>1, <1>3, <1>4

LEMMA RecoverTells ==
    ASSUME NEW d, Sound(d), NEW r \in Runs, Is(d, r, {"preparing"})
    PROVE  Tells(d, Write(d, r, [d.run[r] EXCEPT !.state = "pending"]), r)
<1> DEFINE row == [d.run[r] EXCEPT !.state = "pending"]
           c == Write(d, r, row)
<1>0. d \in Database /\ d.run[r] \in Row  BY States DEF Sound
<1>1. /\ row \in Row /\ row.state = "pending" /\ row.told = d.run[r].told
      /\ row.key = d.run[r].key
  BY <1>0, RowWords, SilentStates
<1>2. ~Spoke(d.run[r])  BY SilentStates DEF Is
<1> HIDE DEF row
<1>3. c.run[r] \in {d.run[r], row}  BY <1>0, CommitRow
<1>4. Tells(d, c, r)  BY <1>0, <1>1, <1>2, <1>3, RowTells
<1> QED  BY <1>4 DEF row

LEMMA TellTells ==
    ASSUME NEW d, Sound(d), NEW r \in Runs, Answered(d, r), Is(d, r, {"finalizing", "cancelled"})
    PROVE  Tells(d, Write(d, r, [d.run[r] EXCEPT !.told = d.run[r].key]), r)
<1> DEFINE row == [d.run[r] EXCEPT !.told = d.run[r].key]
           c == Write(d, r, row)
<1>0. d \in Database /\ d.run[r] \in Row  BY States DEF Sound
<1>1. /\ row.told = d.run[r].key /\ row.key = d.run[r].key /\ row.key \in Nat
      /\ row.state = d.run[r].state /\ row.staged = d.run[r].staged
  BY <1>0 DEF Row
<1> HIDE DEF row
<1>2. c.run[r] = row  BY <1>0, CommitRow
<1>3. KeepsWord(row, d.run[r])
  <2>1. Spoke(row) /\ row.state # "absent"
    BY <1>1 DEF Spoke, Answered, Is, Spoken
  <2> SUFFICES ASSUME ToldRow(d.run[r])  PROVE ToldRow(row) /\ row.told # 0
    BY DEF KeepsWord
  <2> QED  BY <1>0, <1>1, <2>1 DEF ToldRow, Row
<1>4. GivesWay(d, c, r)  BY <1>1, <1>2 DEF GivesWay, Is
<1> QED  BY <1>2, <1>3, <1>4 DEF Tells, row
-----------------------------------------------------------------------------
(* Why a run is given up.                                                    *)
LEMMA NewerFacts ==
    ASSUME NEW q \in Runs, NEW r \in Runs
    PROVE  /\ Newer(q, r) <=> Kind[q] = Kind[r] /\ q > r
           /\ q \in Nat /\ r \in Nat
BY ConfigAssumption DEF Newer, Rivals

LEMMA LastFacts ==
    ASSUME NEW d, LatestIsLast(d), NEW r \in Runs, There(d, r)
    PROVE  LET e == d.run[r].episode
               l == d.episode[e].latest
           IN /\ e \in Runs /\ Kind[e] = Kind[r] /\ e <= r
              /\ l \in Runs /\ There(d, l) /\ d.run[l].episode = e /\ r <= l
BY DEF LatestIsLast

(* What excuses the newer run excuses the older one.                         *)
LEMMA PassedOn ==
    ASSUME IInv, OInv, NEW r \in Runs, NEW x \in Runs, There(db, r), There(db, x), Newer(x, r),
           NEW t \in Runs, db.run[t].told # 0,
           db.run[t].episode = db.run[x].episode \/ Newer(t, x)
    PROVE  db.run[t].episode = db.run[r].episode \/ Newer(t, r)
<1>1. /\ r \in Nat /\ x \in Nat /\ t \in Nat /\ Kind[x] = Kind[r] /\ x > r
  BY NewerFacts
<1>2. CASE Newer(t, x)
  <2>1. Kind[t] = Kind[x] /\ t > x  BY <1>2, NewerFacts
  <2> QED  BY <1>1, <2>1, NewerFacts
<1>3. CASE db.run[t].episode = db.run[x].episode
  <2>1. There(db, t)  BY DEF OInv, ToldRight, ToldRow, There, Is
  <2>2. Kind[t] = Kind[r]
    <3>1. Kind[db.run[t].episode] = Kind[t] /\ Kind[db.run[x].episode] = Kind[x]
      BY <2>1, LastFacts DEF OInv, Lineage
    <3> QED  BY <1>1, <1>3, <3>1
  <2>3. CASE t > r  BY <2>2, <2>3, NewerFacts
  <2>4. CASE t = r  BY <2>4
  <2>5. CASE t < r
    BY <1>1, <1>3, <2>1, <2>2, <2>5 DEF OInv, Lineage, Together
  <2> QED  BY <1>1, <2>3, <2>4, <2>5
<1> QED  BY <1>2, <1>3

LEMMA LaterExcuses ==
    ASSUME IInv, OInv, NEW r \in Runs, There(db, r), NEW x \in Runs, Newer(x, r), Came(x)
    PROVE  Excused(r)
<1>1. CASE ~Is(db, x, {"superseded"})  BY <1>1 DEF Excused
<1>2. CASE Is(db, x, {"superseded"})
  <2>1. There(db, x) /\ Excused(x)
    BY <1>2 DEF There, Is, OInv, NotGivenUpForNothing
  <2>2. PICK q \in Runs :
          \/ db.run[q].told # 0 /\ (db.run[q].episode = db.run[x].episode \/ Newer(q, x))
          \/ Newer(q, x) /\ Came(q) /\ ~Is(db, q, {"superseded"})
    BY <2>1 DEF Excused
  <2>3. CASE db.run[q].told # 0 /\ (db.run[q].episode = db.run[x].episode \/ Newer(q, x))
    BY <2>1, <2>3, PassedOn DEF Excused
  <2>4. CASE Newer(q, x) /\ Came(q) /\ ~Is(db, q, {"superseded"})
    <3>1. Newer(q, r)  BY <2>4, NewerFacts
    <3> QED  BY <2>4, <3>1 DEF Excused
  <2> QED  BY <2>2, <2>3, <2>4
<1> QED  BY <1>1, <1>2

LEMMA LatestExcuses ==
    ASSUME IInv, OInv, NEW r \in Runs, There(db, r), ~Latest(db, r)
    PROVE  Excused(r)
<1> DEFINE e == db.run[r].episode
           l == db.episode[e].latest
<1>1. /\ e \in Runs /\ Kind[e] = Kind[r] /\ l \in Runs /\ There(db, l)
      /\ db.run[l].episode = e /\ r <= l
  BY LastFacts DEF OInv, Lineage
<1>2. l # r  BY DEF Latest, EpisodeOf
<1>3. Kind[l] = Kind[r]
  <2>1. Kind[db.run[l].episode] = Kind[l]  BY <1>1, LastFacts DEF OInv, Lineage
  <2> QED  BY <1>1, <2>1
<1> HIDE DEF l, e
<1>4. Newer(l, r)  BY <1>1, <1>2, <1>3, NewerFacts
<1>5. Came(l)  BY <1>1 DEF There, Came
<1> QED  BY <1>1, <1>4, <1>5, LaterExcuses

(* A step that opens no request and moves none to another episode.           *)
SameRequests(d, c) ==
    /\ \A q \in Runs : c.run[q].episode = d.run[q].episode /\ (There(c, q) <=> There(d, q))
    /\ \A e \in Runs : c.episode[e].latest = d.episode[e].latest

LEMMA LineageKept ==
    ASSUME NEW d, NEW c, SameRequests(d, c), Lineage(d)
    PROVE  Lineage(c)
<1>1. InOrder(c)  BY DEF SameRequests, Lineage, InOrder
<1>2. LatestIsLast(c)
  <2> SUFFICES ASSUME NEW r \in Runs, There(c, r)
               PROVE  LET e == c.run[r].episode
                          l == c.episode[e].latest
                      IN /\ e \in Runs /\ Kind[e] = Kind[r] /\ e <= r
                         /\ l \in Runs /\ There(c, l) /\ c.run[l].episode = e /\ r <= l
    BY DEF LatestIsLast
  <2> DEFINE e == d.run[r].episode
             l == d.episode[e].latest
  <2>1. There(d, r) /\ LatestIsLast(d)  BY DEF SameRequests, Lineage
  <2>2. /\ e \in Runs /\ Kind[e] = Kind[r] /\ e <= r
        /\ l \in Runs /\ There(d, l) /\ d.run[l].episode = e /\ r <= l
    BY <2>1, LastFacts
  <2>3. c.run[r].episode = e /\ c.episode[e].latest = l /\ There(c, l) /\ c.run[l].episode = e
    BY <2>2 DEF SameRequests
  <2> HIDE DEF e, l
  <2> QED  BY <2>2, <2>3
<1>3. Together(c)
  <2> SUFFICES ASSUME NEW p \in Runs, NEW q \in Runs, NEW r \in Runs,
                      There(c, p), There(c, q), There(c, r), p < q, q < r,
                      Kind[p] = Kind[q], c.run[p].episode = c.run[r].episode
               PROVE  c.run[q].episode = c.run[p].episode
    BY DEF Together
  <2>1. There(d, p) /\ There(d, q) /\ There(d, r) /\ d.run[p].episode = d.run[r].episode
    BY DEF SameRequests
  <2>2. d.run[q].episode = d.run[p].episode  BY <2>1 DEF Lineage, Together
  <2> QED  BY <2>2 DEF SameRequests
<1> QED  BY <1>1, <1>2, <1>3 DEF Lineage

LEMMA OutcomeKept ==
    ASSUME IInv, OInv, SameRequests(db, db'), NextAdmitted',
           \A q \in Runs : KeepsWord(db'.run[q], db.run[q]),
           \A q \in Runs : Came(q) => Came(q)',
           NEW x \in Runs, There(db, x) \/ ~Is(db', x, {"superseded"}),
           \A q \in Runs : Is(db', q, {"superseded"}) =>
              Is(db, q, {"superseded"}) \/ (q = x /\ Excused(x))
    PROVE  OInv'
<1>1. ToldRight(db')  BY DEF OInv, ToldRight, KeepsWord
<1>2. Lineage(db')  BY LineageKept DEF OInv
<1>3. \A q \in Runs : /\ db.run[q].told # 0 => db'.run[q].told # 0
                      /\ db'.run[q].episode = db.run[q].episode
  BY DEF OInv, ToldRight, KeepsWord, SameRequests
<1>4. ASSUME NEW r \in Runs, Is(db', r, {"superseded"})
      PROVE  Excused(r)'
  <2>1. Excused(r) /\ There(db, r)
    <3>1. There(db', r)  BY <1>4 DEF There, Is
    <3> QED  BY <1>4, <3>1 DEF OInv, NotGivenUpForNothing, SameRequests
  <2>2. ASSUME NEW q \in Runs, db.run[q].told # 0,
               db.run[q].episode = db.run[r].episode \/ Newer(q, r)
        PROVE  Excused(r)'
    BY <1>3, <2>2 DEF Excused, Newer
  <2>3. ASSUME NEW q \in Runs, Newer(q, r), Came(q), ~Is(db, q, {"superseded"})
        PROVE  Excused(r)'
    <3>1. Came(q)'  BY <2>3
    <3>2. CASE ~Is(db', q, {"superseded"})
      BY <2>3, <3>1, <3>2 DEF Excused, Newer, Is
    <3>3. CASE Is(db', q, {"superseded"})
      <4>1. q = x /\ Excused(x) /\ There(db, x)  BY <2>3, <3>3
      <4>2. PICK p \in Runs :
              \/ db.run[p].told # 0 /\ (db.run[p].episode = db.run[x].episode \/ Newer(p, x))
              \/ Newer(p, x) /\ Came(p) /\ ~Is(db, p, {"superseded"})
        BY <4>1 DEF Excused
      <4>3. CASE db.run[p].told # 0 /\ (db.run[p].episode = db.run[x].episode \/ Newer(p, x))
        <5>1. db.run[p].episode = db.run[r].episode \/ Newer(p, r)
          BY <2>1, <2>3, <4>1, <4>3, PassedOn
        <5> QED  BY <2>2, <4>3, <5>1
      <4>4. CASE Newer(p, x) /\ Came(p) /\ ~Is(db, p, {"superseded"})
        <5>1. Newer(p, r) /\ p # x  BY <2>3, <4>1, <4>4, NewerFacts
        <5>2. Came(p)' /\ ~Is(db', p, {"superseded"})  BY <4>4, <5>1
        <5> QED  BY <5>1, <5>2 DEF Excused, Newer, Is
      <4> QED  BY <4>2, <4>3, <4>4
    <3> QED  BY <3>2, <3>3
  <2> QED  BY <2>1, <2>2, <2>3 DEF Excused
<1> QED  BY <1>1, <1>2, <1>4 DEF OInv, NotGivenUpForNothing, Is

(* The request being queued stays the next.                                  *)
AdmittedStays ==
    IF admitted = None THEN admitted' = None
    ELSE admitted' # None /\ admitted'.run = admitted.run
         /\ admitted'.episode \in {0, admitted.episode}

LEMMA NextAdmittedKept ==
    ASSUME OInv, SameRequests(db, db'), AdmittedStays
    PROVE  NextAdmitted' /\ \A q \in Runs : Came(q) => Came(q)'
<1>1. \A q \in Runs : Is(db', q, {"absent"}) <=> Is(db, q, {"absent"})
  BY DEF SameRequests, There
<1>2. Absent' = Absent  BY <1>1 DEF Absent, Is
<1>4. \A q \in Runs : Came(q) => Came(q)'
  BY <1>1 DEF Came, AdmittedStays, Is
<1>5. NextAdmitted'
  <2> SUFFICES ASSUME admitted' # None
               PROVE  /\ \A q \in Absent' : admitted'.run <= q
                      /\ admitted'.episode # 0 =>
                           \/ admitted'.episode = admitted'.run
                           \/ \E g \in Previous(admitted.run)' :
                                 /\ \A p \in Previous(admitted.run)' : p <= g
                                 /\ db'.run[g].episode = admitted'.episode
    BY DEF NextAdmitted
  <2>1. admitted # None /\ admitted'.run = admitted.run
        /\ admitted'.episode \in {0, admitted.episode}
    BY DEF AdmittedStays
  <2>2. \A q \in Absent : admitted.run <= q  BY <2>1 DEF OInv, NextAdmitted
  <2>3. ASSUME admitted'.episode # 0, admitted'.episode # admitted'.run
        PROVE  \E g \in Previous(admitted.run) :
                  /\ \A p \in Previous(admitted.run) : p <= g
                  /\ db'.run[g].episode = admitted'.episode
    <3>1. PICK g \in Previous(admitted.run) :
             /\ \A p \in Previous(admitted.run) : p <= g
             /\ db.run[g].episode = admitted.episode
      BY <2>1, <2>3 DEF OInv, NextAdmitted
    <3>2. db'.run[g].episode = db.run[g].episode
      BY <3>1 DEF SameRequests, Previous, Rivals
    <3> QED  BY <2>1, <2>3, <3>1, <3>2
  <2>4. Previous(admitted.run)' = Previous(admitted.run)
    BY <1>1, <2>1 DEF Previous, Rivals, Is
  <2> QED  BY <1>2, <2>1, <2>2, <2>3, <2>4
<1> QED  BY <1>4, <1>5

(* A step that carries run r.                                                *)
LEMMA RunOutcome ==
    ASSUME IInv, OInv, NEW r \in Runs, Legal(db, db', r), KeepsWord(db'.run[r], db.run[r]),
           Is(db', r, {"superseded"}) => Is(db, r, {"superseded"}) \/ Excused(r),
           UNCHANGED admitted
    PROVE  OInv'
<1>1. /\ \A q \in Runs \ {r} : db'.run[q] = db.run[q]
      /\ db'.run[r].episode = db.run[r].episode /\ (There(db', r) <=> There(db, r))
      /\ \A e \in Runs : db'.episode[e].latest = db.episode[e].latest
  BY DEF Legal, RowLegal, Follows, EpisodeLegal, There
<1>2. SameRequests(db, db')  BY <1>1 DEF SameRequests, There, Is
<1>3. AdmittedStays  BY DEF AdmittedStays
<1>4. \A q \in Runs : KeepsWord(db'.run[q], db.run[q])  BY <1>1, WordHeld
<1>5. There(db, r) \/ ~Is(db', r, {"superseded"})  BY <1>1 DEF There, Is
<1>6. \A q \in Runs : Is(db', q, {"superseded"}) =>
         Is(db, q, {"superseded"}) \/ (q = r /\ Excused(r))
  BY <1>1 DEF Is
<1> QED  BY <1>2, <1>3, <1>4, <1>5, <1>6, NextAdmittedKept, OutcomeKept

LEMMA TellsOutcome ==
    ASSUME IInv, OInv, NEW r \in Runs, Legal(db, db', r), Tells(db, db', r),
           UNCHANGED admitted
    PROVE  OInv'
<1>1. Is(db', r, {"superseded"}) => There(db, r)
  BY DEF Legal, RowLegal, There, Is
<1>2. Is(db', r, {"superseded"}) => Is(db, r, {"superseded"}) \/ Excused(r)
  BY <1>1, LatestExcuses DEF Tells, GivesWay
<1> QED  BY <1>2, RunOutcome DEF Tells
-----------------------------------------------------------------------------
(* The steps.  One that gives nobody up, and one that leaves the rows alone. *)
LEMMA NobodyGivenUp ==
    ASSUME IInv, OInv, SameRequests(db, db'), AdmittedStays,
           \A q \in Runs : KeepsWord(db'.run[q], db.run[q]),
           \A q \in Runs : Is(db', q, {"superseded"}) => Is(db, q, {"superseded"})
    PROVE  OInv'
<1>1. NextAdmitted' /\ \A q \in Runs : Came(q) => Came(q)'  BY NextAdmittedKept
<1>2. CASE Runs = {}
  BY <1>1, <1>2 DEF OInv, ToldRight, Lineage, InOrder, LatestIsLast, Together, NotGivenUpForNothing
<1>3. CASE Runs # {}
  <2>1. PICK x \in Runs : TRUE  BY <1>3
  <2>2. There(db, x) \/ ~Is(db', x, {"superseded"})  BY DEF There, Is
  <2> QED  BY <1>1, <2>2, OutcomeKept
<1> QED  BY <1>2, <1>3

LEMMA SilentOutcome ==
    ASSUME IInv, OInv, db'.run = db.run, db'.episode = db.episode, AdmittedStays
    PROVE  OInv'
<1>1. SameRequests(db, db')  BY DEF SameRequests, There, Is
<1>2. \A q \in Runs : KeepsWord(db'.run[q], db.run[q])  BY WordHeld
<1>3. \A q \in Runs : Is(db', q, {"superseded"}) => Is(db, q, {"superseded"})  BY DEF Is
<1> QED  BY <1>1, <1>2, <1>3, NobodyGivenUp

(* A sweep, alone or before a lease, and a restart. *)
LEMMA SweptWords ==
    ASSUME NEW d, Sound(d), NEW r \in Runs
    PROVE  KeepsWord(Swept(d).run[r], d.run[r])
<1> DEFINE row == [d.run[r] EXCEPT !.state = "cancelled"]
<1>1. d \in Database /\ d.run[r] \in Row  BY States DEF Sound
<1>2. Swept(d).run[r] = IF SweptRow(d, r) THEN row ELSE d.run[r]
  BY <1>1 DEF Swept, SweptRow, Database
<1>3. /\ row \in Row /\ row.state = "cancelled" /\ row.told = d.run[r].told
      /\ row.key = d.run[r].key
  BY <1>1, RowWords, SilentStates DEF Spoken
<1> HIDE DEF row
<1>4. CASE SweptRow(d, r)
  <2>1. ~Spoke(d.run[r])  BY <1>4, SilentStates DEF SweptRow, Is
  <2> QED  BY <1>1, <1>2, <1>3, <1>4, <2>1, WordKept
<1>5. CASE ~SweptRow(d, r)  BY <1>2, <1>5, WordHeld
<1> QED  BY <1>4, <1>5

LEMMA RecoveredWords ==
    ASSUME NEW d, Sound(d), NEW r \in Runs
    PROVE  KeepsWord(RecoverInterrupted(d).run[r], d.run[r])
<1> DEFINE new == CASE d.run[r].state = "preparing" -> "pending"
                    [] d.run[r].state = "finalizing" -> "applying"
                    [] OTHER -> d.run[r].state
           row == [d.run[r] EXCEPT !.state = new]
<1>1. d \in Database /\ d.run[r] \in Row  BY States DEF Sound
<1>2. RecoverInterrupted(d).run[r] = row
  BY <1>1 DEF RecoverInterrupted, Database
<1>3. CASE d.run[r].state \notin {"preparing", "finalizing"}
  <2>1. new = d.run[r].state  BY <1>3
  <2>2. row = d.run[r]  BY <1>1, <2>1 DEF Row
  <2> QED  BY <1>2, <2>2, WordHeld
<1>4. CASE d.run[r].state \in {"preparing", "finalizing"}
  <2>1. \/ d.run[r].state = "preparing" /\ new = "pending"
        \/ d.run[r].state = "finalizing" /\ new = "applying"
    BY <1>4
  <2>2. new \in State /\ new # "absent"  BY <2>1, SilentStates DEF Spoken
  <2> HIDE DEF new
  <2>3. /\ row \in Row /\ row.state = new /\ row.told = d.run[r].told
        /\ row.key = d.run[r].key /\ row.staged = d.run[r].staged
    BY <1>1, <2>2, RowWords
  <2> HIDE DEF row
  <2>4. ~Spoke(d.run[r]) \/ new \in Spoken  BY <2>1, SilentStates DEF Is, Spoke, Spoken
  <2> QED  BY <1>1, <1>2, <2>2, <2>3, <2>4, WordKept
<1> QED  BY <1>3, <1>4

LEMMA LeaseTells ==
    ASSUME NEW d, Sound(d), NEW r \in Runs, Is(d, r, {"pending"})
    PROVE  Tells(d, LeaseAgentRun(d, r), r)
<1> DEFINE row == [d.run[r] EXCEPT !.state = "preparing"]
           c == LeaseAgentRun(d, r)
<1>1. d \in Database /\ d.run[r] \in Row  BY States DEF Sound
<1>2. c = Commit(d, r, row, "active", <<"lease", r, d.run[r].key>>)  BY DEF LeaseAgentRun
<1>3. /\ row \in Row /\ row.state = "preparing" /\ row.told = d.run[r].told
      /\ row.key = d.run[r].key
  BY <1>1, RowWords, SilentStates
<1>4. ~Spoke(d.run[r])  BY SilentStates DEF Is
<1> HIDE DEF row, c
<1>5. c.run[r] \in {d.run[r], row}  BY <1>1, <1>2, CommitRow
<1> QED  BY <1>1, <1>3, <1>4, <1>5, RowTells DEF c

LEMMA SweepOutcome ==
    ASSUME IInv, OInv, Sweep
    PROVE  OInv'
<1>1. Sound(db) /\ db' = Swept(db) /\ UNCHANGED admitted  BY StoreFacts DEF Sweep, Store
<1>2. /\ db'.episode = db.episode
      /\ \A r \in Runs : ~SweptRow(db, r) => db'.run[r] = db.run[r]
      /\ \A r \in Runs : SweptRow(db, r) => db'.run[r].state = "cancelled"
      /\ \A r \in Runs : Follows(db'.run[r], db.run[r])
  BY <1>1, SweptFacts
<1>3. SameRequests(db, db')
  BY <1>2 DEF SameRequests, Follows, There, Is, SweptRow
<1>4. \A q \in Runs : KeepsWord(db'.run[q], db.run[q])  BY <1>1, SweptWords
<1>5. AdmittedStays  BY <1>1 DEF AdmittedStays
<1>6. \A q \in Runs : Is(db', q, {"superseded"}) => Is(db, q, {"superseded"})  BY <1>2 DEF Is
<1> QED  BY <1>3, <1>4, <1>5, <1>6, NobodyGivenUp

LEMMA LeaseOutcome ==
    ASSUME IInv, OInv, NEW r \in Runs, Lease(r)
    PROVE  OInv'
<1> DEFINE m == Swept(db)
<1>1. /\ Sound(db) /\ Leasable(m, r) /\ db' = LeaseAgentRun(m, r) /\ UNCHANGED admitted
  BY StoreFacts DEF Lease
<1>2. Legal(m, db', r) /\ db'.run[r].state = "preparing"  BY <1>1, LeaseFacts
<1>3. /\ Sound(m) /\ m.episode = db.episode
      /\ \A q \in Runs : ~SweptRow(db, q) => m.run[q] = db.run[q]
      /\ \A q \in Runs : SweptRow(db, q) => m.run[q].state = "cancelled"
      /\ \A q \in Runs : Follows(m.run[q], db.run[q])
  BY <1>1, SweptFacts
<1>4. \A q \in Runs : KeepsWord(m.run[q], db.run[q])  BY <1>1, SweptWords
<1>5. Is(m, r, {"pending"})  BY <1>1 DEF Leasable
<1> HIDE DEF m
<1>6. KeepsWord(db'.run[r], m.run[r])  BY <1>1, <1>3, <1>5, LeaseTells DEF Tells
<1>7. SameRequests(db, m)
  BY <1>3 DEF SameRequests, Follows, There, Is, SweptRow
<1>8. SameRequests(m, db')
  BY <1>2 DEF Legal, RowLegal, Follows, EpisodeLegal, SameRequests, There, Is
<1>9. SameRequests(db, db')  BY <1>7, <1>8 DEF SameRequests
<1>10. \A q \in Runs \ {r} : db'.run[q] = m.run[q]  BY <1>2 DEF Legal, RowLegal
<1>11. \A q \in Runs : KeepsWord(db'.run[q], db.run[q])
  BY <1>4, <1>6, <1>10, WordHeld
<1>12. \A q \in Runs : Is(db', q, {"superseded"}) => Is(db, q, {"superseded"})
  BY <1>2, <1>3, <1>10 DEF Is
<1>13. AdmittedStays  BY <1>1 DEF AdmittedStays
<1> QED  BY <1>9, <1>11, <1>12, <1>13, NobodyGivenUp

LEMMA RestartOutcome ==
    ASSUME IInv, OInv, Restart
    PROVE  OInv'
<1>1. /\ Sound(db) /\ TypeOK /\ db' = RecoverInterrupted(db)
      /\ admitted' = IF admitted = None THEN None ELSE [admitted EXCEPT !.episode = 0]
  BY StoreFacts DEF Restart
<1>2. /\ db'.episode = db.episode
      /\ \A r \in Runs : /\ Follows(db'.run[r], db.run[r])
                         /\ db'.run[r].state = CASE db.run[r].state = "preparing" -> "pending"
                                                [] db.run[r].state = "finalizing" -> "applying"
                                                [] OTHER -> db.run[r].state
  BY <1>1, RecoveredFacts
<1>3. \A r \in Runs : \/ db'.run[r].state = db.run[r].state
                      \/ db.run[r].state = "preparing" /\ db'.run[r].state = "pending"
                      \/ db.run[r].state = "finalizing" /\ db'.run[r].state = "applying"
  BY <1>2
<1>4. SameRequests(db, db')  BY <1>2, <1>3 DEF SameRequests, Follows, There, Is
<1>5. \A q \in Runs : KeepsWord(db'.run[q], db.run[q])  BY <1>1, RecoveredWords
<1>6. \A q \in Runs : Is(db', q, {"superseded"}) => Is(db, q, {"superseded"})  BY <1>3 DEF Is
<1>7. AdmittedStays
  <2>1. CASE admitted = None  BY <1>1, <2>1 DEF AdmittedStays
  <2>2. CASE admitted # None
    <3>1. /\ admitted' \in [run : Runs, episode : Runs \cup {0}]
          /\ admitted'.run = admitted.run /\ admitted'.episode = 0
      BY <1>1, <2>2 DEF TypeOK
    <3> QED  BY <2>2, <3>1, ConfigAssumption DEF AdmittedStays
  <2> QED  BY <2>1, <2>2
<1> QED  BY <1>4, <1>5, <1>6, <1>7, NobodyGivenUp

(* A request is correlated, and queued. *)
LEMMA CorrelateOutcome ==
    ASSUME IInv, OInv, NEW r \in Runs, Correlate(r)
    PROVE  OInv'
<1>1. /\ Sound(db) /\ UNCHANGED db
      /\ admitted' = [run |-> r, episode |-> IF \E q \in Runs : Joins(r, q)
                          THEN db.run[CHOOSE q \in Runs : Joins(r, q)].episode ELSE r]
  BY StoreFacts DEF Correlate
<1>2. /\ admitted # None => admitted.run = r
      /\ \A q \in Absent : r <= q
  <2>1. CASE admitted = None  BY <2>1 DEF Correlate
  <2>2. CASE admitted # None
    <3>1. admitted.run = r  BY <2>2 DEF Correlate
    <3> QED  BY <2>2, <3>1 DEF OInv, NextAdmitted
  <2> QED  BY <2>1, <2>2
<1>3. /\ admitted'.run = r /\ admitted' \in [run : Runs, episode : Runs \cup {0}]
      /\ \/ admitted'.episode = r
         \/ \E g \in Previous(r) : /\ \A p \in Previous(r) : p <= g
                                   /\ db.run[g].episode = admitted'.episode
  <2>1. CASE \E q \in Runs : Joins(r, q)
    <3> DEFINE g == CHOOSE q \in Runs : Joins(r, q)
    <3>1. g \in Runs /\ Joins(r, g)  BY <2>1
    <3>2. admitted' = [run |-> r, episode |-> db.run[g].episode]  BY <1>1, <2>1
    <3> HIDE DEF g
    <3>3. g \in Previous(r) /\ \A p \in Previous(r) : p <= g  BY <3>1 DEF Joins
    <3>4. db.run[g].episode \in Runs
      BY <1>1, <3>1, <3>3 DEF Previous, Sound, RowsRight
    <3> QED  BY <3>2, <3>3, <3>4
  <2>2. CASE ~\E q \in Runs : Joins(r, q)
    <3>1. admitted' = [run |-> r, episode |-> r]  BY <1>1, <2>2
    <3> QED  BY <3>1
  <2> QED  BY <2>1, <2>2
<1>4. admitted' # None  BY <1>3, ConfigAssumption
<1>5. NextAdmitted'
  <2>1. Absent' = Absent /\ Previous(r)' = Previous(r)  BY <1>1 DEF Absent, Previous
  <2> QED  BY <1>1, <1>2, <1>3, <2>1 DEF NextAdmitted
<1>6. \A q \in Runs : Came(q) => Came(q)'
  BY <1>1, <1>2, <1>3, <1>4 DEF Came
<1>7. ASSUME NEW q \in Runs, Is(db', q, {"superseded"})
      PROVE  Excused(q)'
  <2>1. Excused(q)  BY <1>1, <1>7 DEF OInv, NotGivenUpForNothing
  <2> QED  BY <1>1, <1>6, <2>1 DEF Excused
<1> QED  BY <1>1, <1>5, <1>7 DEF OInv, NotGivenUpForNothing

(* The preparer's steps. *)
LEMMA DeferredTwiceTells ==
    ASSUME NEW d, Sound(d), NEW r \in Runs, Is(d, r, {"preparing", "cancelled"})
    PROVE  Tells(d, DeferAgentRun(ReleaseAgentRunRevision(d, r), r), r)
<1> DEFINE m == ReleaseAgentRunRevision(d, r)
           c == DeferAgentRun(m, r)
<1>1. Legal(d, m, r) /\ m.run[r].state = d.run[r].state  BY ReleaseLegal
<1>2. KeepsWord(m.run[r], d.run[r])  BY ReleaseTells DEF Tells
<1>3. Sound(m)  BY <1>1, SoundKept
<1> HIDE DEF m
<1>4. KeepsWord(c.run[r], m.run[r])  BY <1>3, DeferTells DEF Tells
<1>5. c = m \/ c.run[r].state = "pending"  BY <1>3, DeferLegal
<1> HIDE DEF c
<1>6. ~Is(c, r, {"superseded"})  BY <1>1, <1>5 DEF Is
<1>7. KeepsWord(c.run[r], d.run[r])  BY <1>2, <1>4, WordHeld
<1> QED  BY <1>6, <1>7 DEF Tells, GivesWay, m, c

LEMMA PreparerOutcome ==
    ASSUME IInv, OInv, NEW r \in Runs, prep[r] # "none", UNCHANGED admitted,
           \/ db' = db \/ db' = DeferAgentRun(db, r) \/ db' = RequeueRateLimited(db, r)
           \/ db' = DeferAgentRun(ReleaseAgentRunRevision(db, r), r)
           \/ db' = MarkAgentRunSubmitted(db, r)
           \/ db' = FinishAgentRunFailure(db, r)
           \/ \E terminal \in BOOLEAN : db' = RetryAgentRun(db, r, terminal)
    PROVE  OInv'
<1>1. Sound(db) /\ Is(db, r, {"preparing", "cancelled"})  BY StoreFacts
<1>2. ToldRow(db.run[r])  BY DEF OInv, ToldRight
<1> SUFFICES Legal(db, db', r) /\ Tells(db, db', r)
  BY TellsOutcome
<1>3. CASE db' = db  BY <1>1, <1>3, UnchangedLegal, UnchangedTells
<1>4. CASE db' = DeferAgentRun(db, r)  BY <1>1, <1>4, DeferLegal, DeferTells
<1>5. CASE db' = RequeueRateLimited(db, r)  BY <1>1, <1>5, RateLimitedLegal, RateLimitedTells
<1>6. CASE db' = DeferAgentRun(ReleaseAgentRunRevision(db, r), r)
  <2>1. Legal(db, db', r)
    <3>1. CASE Is(db, r, {"preparing"})
      <4>1. ~Is(db, r, Final \cup {"absent"})  BY <3>1 DEF Is, Final
      <4> QED  BY <4>1, <1>6, DeferredTwice
    <3>2. CASE ~Is(db, r, {"preparing"})
      <4>1. db' = db  BY <1>6, <3>2 DEF ReleaseAgentRunRevision, DeferAgentRun
      <4> QED  BY <1>1, <4>1, UnchangedLegal
    <3> QED  BY <3>1, <3>2
  <2> QED  BY <1>1, <1>6, <2>1, DeferredTwiceTells
<1>7. CASE db' = MarkAgentRunSubmitted(db, r)  BY <1>1, <1>7, MarkLegal, MarkTells
<1>8. CASE db' = FinishAgentRunFailure(db, r)
  BY <1>1, <1>2, <1>8, FinishFailureLegal, FinishFailureTells
<1>9. CASE \E terminal \in BOOLEAN : db' = RetryAgentRun(db, r, terminal)
  BY <1>1, <1>9, RetryLegal, RetryTells
<1> QED  BY <1>3, <1>4, <1>5, <1>6, <1>7, <1>8, <1>9

(* A request that was carried or folded has what it was given up for.        *)
LEMMA CoalesceOutcome ==
    ASSUME IInv, OInv, NEW r \in Runs, Coalesce(r)
    PROVE  OInv'
<1>1. /\ Sound(db) /\ db' = SupersedeAgentRun(db, r) /\ UNCHANGED admitted
      /\ prep[r] # "none" /\ (Carried(r) \/ Foldable(r))
  BY StoreFacts DEF Coalesce, Gets
<1>2. There(db, r)  BY <1>1, StoreFacts DEF There, Is
<1>3. Excused(r)
  <2>1. ASSUME NEW q \in Rivals(r), q > r, There(db, q)
        PROVE  Excused(r)
    <3>1. q \in Runs /\ Newer(q, r) /\ Came(q)  BY <2>1 DEF Newer, Rivals, There, Came
    <3> QED  BY <1>2, <3>1, LaterExcuses
  <2>2. CASE Awaited(db, r, {"pending", "preparing"})
    BY <2>1, <2>2 DEF Awaited, There, Is
  <2>3. CASE \E q \in Rivals(r) : q > r /\ db.run[q].staged # "none"
    <3>1. PICK q \in Rivals(r) : q > r /\ db.run[q].staged # "none"  BY <2>3
    <3>2. There(db, q)  BY <3>1 DEF Rivals, OInv, ToldRight, ToldRow, There, Is
    <3> QED  BY <2>1, <3>1, <3>2
  <2>4. CASE Foldable(r)  BY <2>4 DEF Foldable, Rivals, Excused
  <2> QED  BY <1>1, <2>2, <2>3, <2>4 DEF Carried
<1>4. Legal(db, db', r) /\ KeepsWord(db'.run[r], db.run[r])
  BY <1>1, SupersedeLegal, SupersedeTells
<1> QED  BY <1>1, <1>3, <1>4, RunOutcome

LEMMA PreparedOutcome ==
    ASSUME IInv, OInv, NEW r \in Runs, Prepares(r)
    PROVE  OInv'
<1>1. CASE Lease(r)  BY <1>1, LeaseOutcome
<1>2. CASE Recover(r)
  <2>1. /\ Is(db, r, {"preparing"}) /\ UNCHANGED admitted
        /\ db' = Write(db, r, [db.run[r] EXCEPT !.state = "pending"])
    BY <1>2 DEF Recover, Store
  <2> QED  BY <2>1, StoreFacts, RecoverLegal, RecoverTells, TellsOutcome
<1>3. CASE Coalesce(r)  BY <1>3, CoalesceOutcome
<1>4. CASE Admit(r) \/ Submit(r)
  <2>1. UNCHANGED <<db, admitted>>  BY <1>4 DEF Admit, Submit
  <2> QED  BY <2>1, SilentOutcome DEF AdmittedStays
<1>5. CASE Wait(r)  BY <1>5, PreparerOutcome DEF Wait, Gets
<1>6. CASE Mark(r)
  <2>1. prep[r] # "none" /\ UNCHANGED admitted
        /\ (db' = DeferAgentRun(db, r) \/ db' = MarkAgentRunSubmitted(db, r))
    BY <1>6 DEF Mark, Gets
  <2> QED  BY <2>1, PreparerOutcome
<1>7. CASE PrepareWaits(r)  BY <1>7, PreparerOutcome DEF PrepareWaits, Gets
<1>8. CASE PrepareFails(r)
  <2>1. prep[r] # "none" /\ UNCHANGED admitted
        /\ \/ db' = FinishAgentRunFailure(db, r)
           \/ \E terminal \in BOOLEAN : db' = RetryAgentRun(db, r, terminal)
    BY <1>8 DEF PrepareFails, Gets
  <2> QED  BY <2>1, PreparerOutcome
<1>9. CASE Expire(r)  BY <1>9, PreparerOutcome DEF Expire, Gets
<1> QED  BY <1>1, <1>2, <1>3, <1>4, <1>5, <1>6, <1>7, <1>8, <1>9 DEF Prepares

(* The poller's steps, and the finalizer's. *)
LEMMA PolledOutcome ==
    ASSUME IInv, OInv, NEW r \in Runs, Polling(r)
    PROVE  OInv'
<1>1. Sound(db)  BY StoreFacts
<1>2. UNCHANGED admitted
  BY DEF Polling, PollCompleted, PollFailed, PollInterrupted, PollRefused, Polls
<1>3. \/ \E result \in Answers \cup {"failed"} : db' = StageAgentRunResult(db, r, result)
      \/ \E spends \in BOOLEAN : db' = RequeueAgentRun(db, r, spends)
      \/ db' = DeferRunningAgentRun(db, r) \/ db' = RequeueRateLimited(db, r)
  BY DEF Polling, PollCompleted, PollFailed, PollInterrupted, PollRefused
<1>4. Legal(db, db', r)
  BY <1>1, <1>3, StageLegal, RequeueLegal, DeferRunningLegal, RateLimitedLegal
<1>5. Tells(db, db', r)
  BY <1>1, <1>3, StageTells, RequeueTells, DeferRunningTells, RateLimitedTells
<1> QED  BY <1>2, <1>4, <1>5, TellsOutcome

LEMMA FinalizerOutcome ==
    ASSUME IInv, OInv, NEW r \in Runs, fin[r] # "none", UNCHANGED admitted,
           \/ db' = db \/ db' = FinishAgentRun(db, r) \/ db' = FinishAgentRunFailure(db, r)
           \/ db' = RetryAgentRunFinalization(db, r)
           \/ db' = ReturnToApplying(db, r) \/ db' = RequeueAgentRun(db, r, FALSE)
           \/ \E state \in EpisodeState : db' = SetPhase(db, r, state)
           \/ Answered(db, r) /\ db' = Write(db, r, [db.run[r] EXCEPT !.told = db.run[r].key])
    PROVE  OInv'
<1>1. /\ Sound(db) /\ Is(db, r, {"finalizing", "cancelled"})
      /\ ~Is(db, r, Working \cup {"absent"}) /\ ~Is(db, r, {"absent"})
  BY StoreFacts DEF Is, Working
<1>2. ToldRow(db.run[r])  BY DEF OInv, ToldRight
<1> SUFFICES Legal(db, db', r) /\ Tells(db, db', r)
  BY TellsOutcome
<1>3. CASE db' = db  BY <1>1, <1>3, UnchangedLegal, UnchangedTells
<1>4. CASE db' = FinishAgentRun(db, r)  BY <1>1, <1>2, <1>4, FinishLegal, FinishTells
<1>5. CASE db' = FinishAgentRunFailure(db, r)
  BY <1>1, <1>2, <1>5, FinishFailureLegal, FinishFailureTells
<1>6. CASE db' = RetryAgentRunFinalization(db, r)  BY <1>1, <1>6, ReturnLegal, ReturnTells
<1>7. CASE db' = ReturnToApplying(db, r)  BY <1>1, <1>7, ReturnLegal, ReturnTells
<1>8. CASE db' = RequeueAgentRun(db, r, FALSE)  BY <1>1, <1>8, RequeueLegal, RequeueTells
<1>9. CASE \E state \in EpisodeState : db' = SetPhase(db, r, state)
  <2>1. Legal(db, db', r) /\ db'.run = db.run  BY <1>1, <1>9, PhaseLegal
  <2> QED  BY <2>1, UnchangedTells
<1>10. CASE Answered(db, r) /\ db' = Write(db, r, [db.run[r] EXCEPT !.told = db.run[r].key])
  <2>1. Legal(db, db', r)  BY <1>1, <1>10, TellLegal, Zenon
  <2>2. Tells(db, db', r)  BY <1>1, <1>10, TellTells, Zenon
  <2> QED  BY <2>1, <2>2
<1> QED  BY <1>3, <1>4, <1>5, <1>6, <1>7, <1>8, <1>9, <1>10

LEMMA FinalizedOutcome ==
    ASSUME IInv, OInv, NEW r \in Runs, Finalizes(r)
    PROVE  OInv'
<1>1. CASE LeaseFinalization(r)
  <2>1. Sound(db) /\ Is(db, r, {"applying"}) /\ db' = LeaseAgentRunFinalization(db, r)
        /\ UNCHANGED admitted
    BY <1>1, StoreFacts DEF LeaseFinalization
  <2> QED  BY <2>1, LeaseFinalizationLegal, LeaseFinalizationTells, TellsOutcome
<1>2. CASE FinalizeFailure(r)  BY <1>2, FinalizerOutcome DEF FinalizeFailure, Moves
<1>3. CASE FinalizeStaleCard(r)
  <2>1. /\ Sound(db) /\ db' = SupersedeAgentRun(db, r) /\ UNCHANGED admitted
        /\ fin[r] # "none" /\ Later(r)
    BY <1>3, StoreFacts DEF FinalizeStaleCard, Moves
  <2>2. There(db, r)  BY <2>1, StoreFacts DEF There, Is
  <2>3. Excused(r)
    <3>1. PICK q \in Rivals(r) : q > r /\ Came(q)  BY <2>1 DEF Later
    <3>2. q \in Runs /\ Newer(q, r)  BY <3>1 DEF Newer, Rivals
    <3> QED  BY <2>2, <3>1, <3>2, LaterExcuses
  <2>4. Legal(db, db', r) /\ KeepsWord(db'.run[r], db.run[r])
    BY <2>1, SupersedeLegal, SupersedeTells
  <2> QED  BY <2>1, <2>3, <2>4, RunOutcome
<1>4. CASE FinalizeStaleMessage(r)
  BY <1>4, FinalizerOutcome DEF FinalizeStaleMessage, Moves, EpisodeState, Final
<1>5. CASE Tell(r)
  <2>1. fin[r] # "none" /\ UNCHANGED admitted /\ Answered(db, r)  BY <1>5 DEF Tell, Moves
  <2>2. db' = db \/ db' = Write(db, r, [db.run[r] EXCEPT !.told = db.run[r].key])
    BY <1>5, Zenon DEF Tell
  <2> QED  BY <2>1, <2>2, FinalizerOutcome
<1>6. CASE SettleEpisode(r)
  <2>1. /\ fin[r] # "none" /\ UNCHANGED admitted
        /\ Answered(db, r) /\ db' = SetPhase(db, r, db.run[r].staged)
    BY <1>6 DEF SettleEpisode, Moves
  <2>2. db.run[r].staged \in EpisodeState
    BY <2>1, ConfigAssumption DEF Answered, EpisodeState, Final
  <2> QED  BY <2>1, <2>2, FinalizerOutcome
<1>7. CASE Close(r)  BY <1>7, FinalizerOutcome DEF Close, Moves
<1>8. CASE FinalizeExpires(r)  BY <1>8, FinalizerOutcome DEF FinalizeExpires, Moves
<1>9. CASE FinalizeFails(r)  BY <1>9, FinalizerOutcome DEF FinalizeFails, Moves
<1>10. CASE FinalizeRefused(r)  BY <1>10, FinalizerOutcome DEF FinalizeRefused, Moves
<1>11. CASE FinalizeCorrects(r)  BY <1>11, FinalizerOutcome DEF FinalizeCorrects, Moves
<1> QED
  BY <1>1, <1>2, <1>3, <1>4, <1>5, <1>6, <1>7, <1>8, <1>9, <1>10, <1>11 DEF Finalizes

(* Operators, time and Coop. *)
LEMMA OperatorOutcome ==
    ASSUME IInv, OInv, NEW r \in Runs, RetryFailed(r) \/ CancelReplay(r) \/ Age(r)
    PROVE  OInv'
<1>1. Sound(db) /\ ToldRow(db.run[r])  BY StoreFacts DEF OInv, ToldRight
<1>2. CASE RetryFailed(r)
  BY <1>1, <1>2, RevivedLegal, RevivedTells, TellsOutcome DEF RetryFailed
<1>3. CASE CancelReplay(r)
  BY <1>1, <1>3, CancelLegal, CancelTells, TellsOutcome DEF CancelReplay, Store
<1>4. CASE Age(r)
  <2>1. UNCHANGED <<db, admitted>>  BY <1>4 DEF Age
  <2> QED  BY <2>1, SilentOutcome DEF AdmittedStays
<1> QED  BY <1>2, <1>3, <1>4

LEMMA CoopOutcome ==
    ASSUME IInv, OInv,
           \/ ReadSession \/ UpdateCoopState \/ SetWorkflow \/ UNCHANGED vars
           \/ \E t \in turns, outcome \in Outcomes : TurnEnds(t, outcome)
    PROVE  OInv'
<1>1. UNCHANGED admitted /\ db \in Database
  BY StoreFacts DEF ReadSession, UpdateCoopState, SetWorkflow, Store, vars, TurnEnds, Sound
<1>2. db'.run = db.run /\ db'.episode = db.episode
  <2>1. CASE UpdateCoopState
    BY <1>1, <2>1 DEF UpdateCoopState, Database
  <2>2. CASE SetWorkflow  BY <1>1, <2>2 DEF SetWorkflow, Database
  <2>3. CASE ~UpdateCoopState /\ ~SetWorkflow  BY <2>3 DEF ReadSession, vars, TurnEnds
  <2> QED  BY <2>1, <2>2, <2>3
<1> QED  BY <1>1, <1>2, SilentOutcome DEF AdmittedStays

(* A new run r, of episode e. *)
Opens(d, c, r, e) ==
    /\ ToldRow(c.run[r]) /\ c.run[r].state = "pending" /\ c.run[r].episode = e
    /\ \A q \in Runs \ {r} : c.run[q] = d.run[q]
    /\ c.episode[e].latest = r
    /\ \A x \in Runs \ {e} : c.episode[x].latest = d.episode[x].latest

LEMMA QueuedOpens ==
    ASSUME NEW d, Sound(d), NEW r \in Runs, Is(d, r, {"absent"}), NEW e \in Runs,
           NEW c \in {QueueAgentRun(d, r, e), QueueEpisodeAttempt(d, r, e)}, c # d
    PROVE  Opens(d, c, r, e)
<1> DEFINE row == [NoRun EXCEPT !.state = "pending", !.episode = e]
           new == IF e = r THEN [NoEpisode EXCEPT !.state = "active", !.latest = r]
                  ELSE [d.episode[e] EXCEPT !.latest = r]
           m == Queued(d, r, e)
           resumed == Phased(m, r, "active", <<"resumed">>)
<1>1. d \in Database /\ d.episode[e] \in Episode  BY DEF Sound, Database
<1>2. /\ Sound(m) /\ m.run[r].state = "pending" /\ \A q \in Runs \ {r} : m.run[q] = d.run[q]
  BY QueuedFacts
<1>3. m = [[d EXCEPT !.run[r] = row] EXCEPT !.episode[e] = new]
  BY Zenon DEF Queued
<1>4. ToldRow(row) /\ row.state = "pending" /\ row.episode = e
  BY DEF NoRun, ToldRow, Spoke
<1>5. new.latest = r  BY <1>1 DEF NoEpisode, Episode
<1>6. c \in {m, resumed}  BY DEF QueueAgentRun, QueueEpisodeAttempt
<1> HIDE DEF row, new
<1>7. /\ m.run[r] = row /\ m.episode[e] = new
      /\ \A x \in Runs \ {e} : m.episode[x] = d.episode[x]
  BY <1>1, <1>3 DEF Database
<1> HIDE DEF m
<1>8. Legal(m, resumed, r) /\ resumed.run = m.run
  <2>1. "active" \in EpisodeState /\ ~Is(m, r, Working \cup {"absent"})
    BY <1>2 DEF EpisodeState, Is, Working
  <2>2. WorkKey(<<"resumed">>)  BY WorkKeys
  <2> QED  BY <1>2, <2>1, <2>2, PhasedLegal
<1> HIDE DEF resumed
<1>9. c.run = m.run /\ \A x \in Runs : c.episode[x].latest = m.episode[x].latest
  BY <1>6, <1>8 DEF Legal, EpisodeLegal
<1> QED  BY <1>2, <1>4, <1>5, <1>7, <1>9 DEF Opens

LEMMA QueueOutcome ==
    ASSUME IInv, OInv, Queue
    PROVE  OInv'
<1> DEFINE r == admitted.run
           e == admitted.episode
<1>1. /\ Sound(db) /\ admitted # None /\ e # 0
      /\ db' \in {QueueAgentRun(db, r, e), QueueEpisodeAttempt(db, r, e)}
      /\ admitted' = IF db' = db THEN [admitted EXCEPT !.episode = 0] ELSE None
  BY StoreFacts DEF Queue, Correlated
<1>2. admitted \in [run : Runs, episode : Runs \cup {0}] /\ r \in Runs /\ e \in Runs
  BY <1>1, StoreFacts DEF TypeOK
<1>3. Is(db, r, {"absent"})  BY <1>1 DEF IInv, QueuedOnce
<1>4. \A q \in Runs : Is(db, q, {"absent"}) => r <= q
  BY <1>1 DEF OInv, NextAdmitted, Absent
<1>5. \/ e = r
      \/ \E g \in Previous(r) : (\A p \in Previous(r) : p <= g) /\ db.run[g].episode = e
  BY <1>1 DEF OInv, NextAdmitted
<1>6. CASE db' = db
  <2>1. /\ admitted' \in [run : Runs, episode : Runs \cup {0}]
        /\ admitted'.run = r /\ admitted'.episode = 0
    BY <1>1, <1>2, <1>6
  <2>2. AdmittedStays  BY <1>1, <2>1, ConfigAssumption DEF AdmittedStays
  <2> QED  BY <1>6, <2>2, SilentOutcome
<1>7. CASE db' # db
  <2>1. Opens(db, db', r, e) /\ admitted' = None  BY <1>1, <1>2, <1>3, <1>7, QueuedOpens
  <2>2. \A q \in Runs : Came(q) => q = r \/ There(db, q)  BY DEF Came, There
  <2> HIDE DEF r, e
  <2>3. /\ There(db', r) /\ \A q \in Runs \ {r} : There(db', q) <=> There(db, q)
        /\ ~There(db, r)
    BY <1>3, <2>1 DEF Opens, There, Is
  <2>4. \A q \in Runs : There(db, q) => q < r
    BY <1>2, <2>3 DEF OInv, Lineage, InOrder
  <2>5. r \in Nat /\ \A q \in Runs : q \in Nat  BY <1>2, ConfigAssumption
  <2>6. InOrder(db')
    <3> SUFFICES ASSUME NEW a \in Runs, NEW b \in Runs, There(db', a), ~There(db', b)
                 PROVE  a < b
      BY DEF InOrder
    <3>1. b # r /\ ~There(db, b) /\ r <= b  BY <1>4, <2>3 DEF There
    <3>2. CASE a = r  BY <2>5, <3>1, <3>2
    <3>3. CASE a # r  BY <2>3, <3>1, <3>3 DEF OInv, Lineage, InOrder
    <3> QED  BY <3>2, <3>3
  <2>7. e = r \/ \E g \in Runs :
           /\ There(db, g) /\ g < r /\ Kind[g] = Kind[r] /\ db.run[g].episode = e
           /\ \A p \in Runs : There(db, p) /\ p < r /\ Kind[p] = Kind[r] => p <= g
    BY <1>2, <1>5, <2>5 DEF Previous, Rivals, There
  <2>8. LatestIsLast(db')
    <3> SUFFICES ASSUME NEW s \in Runs, There(db', s)
                 PROVE  LET x == db'.run[s].episode
                            l == db'.episode[x].latest
                        IN /\ x \in Runs /\ Kind[x] = Kind[s] /\ x <= s
                           /\ l \in Runs /\ There(db', l) /\ db'.run[l].episode = x /\ s <= l
      BY DEF LatestIsLast
    <3> DEFINE x == db'.run[s].episode
               l == db'.episode[x].latest
    <3>1. CASE s = r
      <4>1. x = e /\ l = r  BY <2>1, <3>1 DEF Opens
      <4>2. Kind[e] = Kind[r] /\ e <= r
        <5>1. CASE e = r  BY <2>5, <5>1
        <5>2. CASE e # r
          <6>1. PICK g \in Runs : /\ There(db, g) /\ g < r /\ Kind[g] = Kind[r]
                                  /\ db.run[g].episode = e
            BY <2>7, <5>2
          <6>2. Kind[e] = Kind[g] /\ e <= g  BY <6>1, LastFacts DEF OInv, Lineage
          <6> QED  BY <1>2, <2>5, <6>1, <6>2
        <5> QED  BY <5>1, <5>2
      <4> HIDE DEF x, l
      <4>3. /\ x \in Runs /\ Kind[x] = Kind[s] /\ x <= s
            /\ l \in Runs /\ There(db', l) /\ db'.run[l].episode = x /\ s <= l
        BY <1>2, <2>1, <2>3, <2>5, <3>1, <4>1, <4>2 DEF Opens
      <4> QED  BY <4>3 DEF x, l
    <3>2. CASE s # r
      <4> DEFINE k == db.episode[x].latest
      <4>1. x = db.run[s].episode /\ There(db, s)  BY <2>1, <2>3, <3>2 DEF Opens
      <4>2. /\ x \in Runs /\ Kind[x] = Kind[s] /\ x <= s
            /\ k \in Runs /\ There(db, k) /\ db.run[k].episode = x /\ s <= k
        BY <4>1, LastFacts DEF OInv, Lineage
      <4>3. l = IF x = e THEN r ELSE k  BY <2>1, <4>2 DEF Opens
      <4> HIDE DEF x, l, k
      <4>4. CASE x = e
        <5>1. l = r /\ s < r  BY <2>4, <4>1, <4>3, <4>4
        <5>2. /\ l \in Runs /\ There(db', l) /\ db'.run[l].episode = x /\ s <= l
          BY <1>2, <2>1, <2>3, <2>5, <4>4, <5>1 DEF Opens
        <5> QED  BY <4>2, <5>2 DEF x, l
      <4>5. CASE x # e
        <5>1. l = k /\ k # r  BY <2>3, <4>2, <4>3, <4>5
        <5>2. There(db', k) /\ db'.run[k].episode = x  BY <2>1, <2>3, <4>2, <5>1 DEF Opens
        <5> QED  BY <4>2, <5>1, <5>2 DEF x, l
      <4> QED  BY <4>4, <4>5
    <3> QED  BY <3>1, <3>2
  <2>9. Together(db')
    <3> SUFFICES ASSUME NEW p \in Runs, NEW q \in Runs, NEW s \in Runs,
                        There(db', p), There(db', q), There(db', s), p < q, q < s,
                        Kind[p] = Kind[q], db'.run[p].episode = db'.run[s].episode
                 PROVE  db'.run[q].episode = db'.run[p].episode
      BY DEF Together
    <3>1. p # r /\ q # r
      <4>1. s <= r  BY <2>3, <2>4, <2>5
      <4> QED  BY <2>5, <4>1
    <3>2. /\ There(db, p) /\ There(db, q) /\ db'.run[p] = db.run[p] /\ db'.run[q] = db.run[q]
      BY <2>1, <2>3, <3>1 DEF Opens
    <3>3. CASE s # r
      <4>1. There(db, s) /\ db'.run[s] = db.run[s]  BY <2>1, <2>3, <3>3 DEF Opens
      <4>2. db.run[q].episode = db.run[p].episode
        BY <3>2, <4>1 DEF OInv, Lineage, Together
      <4> QED  BY <3>2, <4>2
    <3>4. CASE s = r
      <4>1. db.run[p].episode = e  BY <2>1, <3>2, <3>4 DEF Opens
      <4>2. Kind[e] = Kind[p] /\ e <= p  BY <3>2, <4>1, LastFacts DEF OInv, Lineage
      <4>3. e # r  BY <1>2, <2>4, <2>5, <3>2, <4>2
      <4>4. PICK g \in Runs :
               /\ There(db, g) /\ g < r /\ Kind[g] = Kind[r] /\ db.run[g].episode = e
               /\ \A t \in Runs : There(db, t) /\ t < r /\ Kind[t] = Kind[r] => t <= g
        BY <2>7, <4>3
      <4>5. Kind[e] = Kind[g]  BY <4>4, LastFacts DEF OInv, Lineage
      <4>6. q <= g  BY <2>4, <3>2, <4>2, <4>4, <4>5
      <4>7. CASE q = g  BY <3>2, <4>1, <4>4, <4>7
      <4>8. CASE q # g
        <5>1. q < g  BY <2>5, <4>6, <4>8
        <5>2. db.run[q].episode = db.run[p].episode
          BY <3>2, <4>1, <4>4, <5>1 DEF OInv, Lineage, Together
        <5> QED  BY <3>2, <5>2
      <4> QED  BY <4>7, <4>8
    <3> QED  BY <3>3, <3>4
  <2>10. ToldRight(db')  BY <2>1 DEF OInv, ToldRight, Opens
  <2>11. NextAdmitted'  BY <2>1 DEF NextAdmitted
  <2>12. ASSUME NEW x \in Runs, Is(db', x, {"superseded"})
         PROVE  Excused(x)'
    <3>1. x # r /\ db'.run[x] = db.run[x]  BY <2>1, <2>12 DEF Opens, Is
    <3>2. Excused(x)  BY <2>12, <3>1 DEF OInv, NotGivenUpForNothing, Is
    <3>3. PICK q \in Runs :
             \/ db.run[q].told # 0 /\ (db.run[q].episode = db.run[x].episode \/ Newer(q, x))
             \/ Newer(q, x) /\ Came(q) /\ ~Is(db, q, {"superseded"})
      BY <3>2 DEF Excused
    <3>4. CASE db.run[q].told # 0 /\ (db.run[q].episode = db.run[x].episode \/ Newer(q, x))
      <4>1. q # r  BY <1>3, <3>4 DEF OInv, ToldRight, ToldRow, Is
      <4>2. db'.run[q] = db.run[q]  BY <2>1, <4>1 DEF Opens
      <4> QED  BY <3>1, <3>4, <4>2 DEF Excused, Newer
    <3>5. CASE Newer(q, x) /\ Came(q) /\ ~Is(db, q, {"superseded"})
      <4>1. There(db', q) /\ ~Is(db', q, {"superseded"})
        BY <2>1, <2>2, <2>3, <3>5 DEF Opens, Is
      <4> QED  BY <3>5, <4>1 DEF Excused, Newer, Came, There
    <3> QED  BY <3>3, <3>4, <3>5
  <2>13. NotGivenUpForNothing'  BY <2>12 DEF NotGivenUpForNothing, Is
  <2> QED  BY <2>6, <2>8, <2>9, <2>10, <2>11, <2>13 DEF OInv, Lineage
<1> QED  BY <1>6, <1>7
-----------------------------------------------------------------------------
(* What was told holds initially, and every step keeps it.                   *)
LEMMA InitOInv == Init => OInv
<1> SUFFICES ASSUME Init PROVE OInv  OBVIOUS
<1>1. \A r \in Runs : db.run[r] = NoRun  BY DEF Init
<1>2. NoRun.state = "absent" /\ ToldRow(NoRun)  BY DEF NoRun, ToldRow, Spoke
<1>3. \A r \in Runs : ~There(db, r)  BY <1>1, <1>2 DEF There, Is
<1>4. ToldRight(db)  BY <1>1, <1>2 DEF ToldRight
<1>5. Lineage(db)  BY <1>3 DEF Lineage, InOrder, LatestIsLast, Together
<1>6. NextAdmitted  BY DEF Init, NextAdmitted
<1>7. NotGivenUpForNothing  BY <1>1, <1>2 DEF NotGivenUpForNothing, Is
<1> QED  BY <1>4, <1>5, <1>6, <1>7 DEF OInv

LEMMA NextOutcome == IInv /\ OInv /\ [Next]_vars => OInv'
<1> SUFFICES ASSUME IInv, OInv, [Next]_vars PROVE OInv'  OBVIOUS
<1>1. CASE \E r \in Runs : Correlate(r)  BY <1>1, CorrelateOutcome
<1>2. CASE \E r \in Runs : Prepares(r)  BY <1>2, PreparedOutcome
<1>3. CASE \E r \in Runs : Polling(r)  BY <1>3, PolledOutcome
<1>4. CASE \E r \in Runs : Finalizes(r)  BY <1>4, FinalizedOutcome
<1>5. CASE \E r \in Runs : RetryFailed(r) \/ CancelReplay(r) \/ Age(r)  BY <1>5, OperatorOutcome
<1>6. CASE Queue  BY <1>6, QueueOutcome
<1>7. CASE Sweep  BY <1>7, SweepOutcome
<1>8. CASE Restart  BY <1>8, RestartOutcome
<1>9. CASE \/ ReadSession \/ UpdateCoopState \/ SetWorkflow \/ UNCHANGED vars
           \/ \E t \in turns, outcome \in Outcomes : TurnEnds(t, outcome)
  BY <1>9, CoopOutcome
<1> QED  BY <1>1, <1>2, <1>3, <1>4, <1>5, <1>6, <1>7, <1>8, <1>9 DEF Next

(* What a request ends as is what its person was told: no request whose     *)
(* answer was queued is reported as failed, and one is given up only for an *)
(* answer, or for a newer request that is not given up in turn.             *)
THEOREM OutcomesRight == Spec => []OutcomeRight
<1>1. IInv /\ OInv => OutcomeRight
  <2> SUFFICES ASSUME IInv, OInv PROVE OutcomeRight  OBVIOUS
  <2>1. AnswerNotContradicted
    BY SilentStates DEF AnswerNotContradicted, OInv, ToldRight, ToldRow, Is
  <2> QED  BY <2>1 DEF OutcomeRight, IInv, OInv
<1> QED  BY InitOInv, NextOutcome, Invariance, <1>1, PTL DEF Spec
=============================================================================
