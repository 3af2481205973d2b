-------------------------- MODULE SlackOutboxProofs --------------------------
(***************************************************************************)
(* Proofs about SlackOutbox for any deliveries, drafts, limits and number  *)
(* of restarts: its type invariant, that nothing is posted twice, that the *)
(* ledger tells the truth about posts, that a chart which is given up is   *)
(* announced, that the parts of an answer appear in their order, and that  *)
(* the newest card or reaction is the one that is shown.                   *)
(***************************************************************************)
EXTENDS SlackOutbox, FiniteSetTheorems, TLAPS

(* A delivery whose copies in Slack are accounted for: a post, or a chart   *)
(* that no write gave up or put back blindly, of a replay that nobody       *)
(* cancelled.                                                               *)
Tracked(d) ==
    /\ d \notin cancelled
    /\ \/ draft[d].op = "post"
       \/ draft[d].op = "file" /\ d \notin blind

(* The states that say that Slack does not have it.                         *)
Shelved(d, state) ==
    \/ state \in {"absent", "pending", "retry", "superseded", "replaced"}
    \/ state = "failed" /\ (draft[d].op = "file" \/ ~draft[d].incident)

(* What the ledger's row says of the copies, ...                            *)
RowTells(d) ==
    /\ slack.copies[d] <= 1
    /\ Shelved(d, ledger[d].state) => slack.copies[d] = 0
    /\ ledger[d].state = "sent" => slack.copies[d] > 0

(* ... what the sender knows that has it in hand, ...                       *)
SenderTells(d) ==
    /\ sender.phase \in {"leased", "calling"} /\ sender.item = d =>
         ledger[d].state = "sending" /\ slack.copies[d] = 0
    /\ sender.phase = "answered" /\ sender.item = d =>
         /\ ledger[d].state = "sending"
         /\ sender.answer = "ok" => slack.copies[d] > 0

(* ... and what the finder has seen in Slack's history.                     *)
FinderTells(d) ==
    finder.phase \in Outcomes /\ finder.item = d =>
        /\ ledger[d].state = "uncertain"
        /\ finder.phase = "found" => slack.copies[d] > 0
        /\ finder.phase = "absent" => slack.copies[d] = 0

CopiesAccounted ==
    \A d \in Deliveries : Tracked(d) => RowTells(d) /\ SenderTells(d) /\ FinderTells(d)

(* Only an incident's conversation becomes unwritable, only charts are       *)
(* refused, announced or given up unsearched, and an illegible chart is     *)
(* never uploaded.                                                          *)
HandsRight ==
    /\ \A d \in Deliveries :
         draft[d].op = "file" /\ ~draft[d].legible => slack.copies[d] = 0
    /\ sender.phase = "answered" /\ sender.answer = "refused" =>
         draft[sender.item].op = "file" /\ draft[sender.item].legible
    /\ finder.phase = "absent" /\ draft[finder.item].op = "file" => draft[finder.item].legible
    /\ finder.phase = "unwritable" => draft[finder.item].incident
    /\ finder.phase = "illegible" =>
         draft[finder.item].op = "file" /\ ~draft[finder.item].legible
    /\ finder.phase = "forgone" => draft[finder.item].op = "file" /\ draft[finder.item].legible
    /\ sender.phase = "notify" => draft[sender.item].op = "file"
    /\ finder.phase = "notify" => draft[finder.item].op = "file"

IInv ==
    /\ draft \in Drafts
    /\ TypeOK
    /\ CopiesAccounted
    /\ HandsRight
    /\ ChartFailureAnnounced
-----------------------------------------------------------------------------
(* The columns that a caller fills in.                                      *)
LEMMA DraftType ==
    ASSUME draft \in Drafts, NEW d \in Deliveries
    PROVE  /\ draft[d].op \in Operations \ {"delete"}
           /\ draft[d].version \in Nat
           /\ draft[d].incident \in BOOLEAN /\ draft[d].legible \in BOOLEAN
           /\ draft[d].notice \in Deliveries \cup {None}
           /\ draft[d].op = "file" => /\ draft[d].notice \in Deliveries
                                      /\ draft[draft[d].notice].version = 0
BY ConfigAssumption

(* A row that is not in the ledger yet gets a number of its own.            *)
LEMMA RowidRange ==
    ASSUME NEW rows \in [Deliveries -> Row], NEW d \in Deliveries, rows[d].state = "absent"
    PROVE  1 + Cardinality({f \in Deliveries : rows[f].state # "absent"})
             \in 0..Cardinality(Deliveries)
<1> DEFINE known == {f \in Deliveries : rows[f].state # "absent"}
<1>1. IsFiniteSet(Deliveries)  BY ConfigAssumption
<1>2. known \subseteq Deliveries \ {d}  OBVIOUS
<1>3. IsFiniteSet(Deliveries \ {d}) /\ Cardinality(Deliveries \ {d}) = Cardinality(Deliveries) - 1
  BY <1>1, FS_RemoveElement
<1>4. /\ Cardinality(known) <= Cardinality(Deliveries \ {d})
      /\ IsFiniteSet(known)
  BY <1>2, <1>3, FS_Subset
<1>5. Cardinality(known) \in Nat /\ Cardinality(Deliveries) \in Nat
  BY <1>1, <1>4, FS_CardinalityType
<1> QED  BY <1>3, <1>4, <1>5

(* A row that is written is a row, in the state that is written.            *)
LEMMA RowWrites ==
    ASSUME NEW r \in Row, NEW state \in State
    PROVE  /\ To(r, state) \in Row /\ To(r, state).state = state
           /\ \A due \in BOOLEAN :
                Again(r, state, due) \in Row /\ Again(r, state, due).state = state
           /\ DueAs(r, state) \in Row /\ DueAs(r, state).state = state
           /\ Afresh(r, state) \in Row /\ Afresh(r, state).state = state
<1>1. Failures(r.failures) \in 0..MaxAttempts  BY ConfigAssumption DEF Failures, Row
<1>2. 0 \in 0..MaxAttempts  BY ConfigAssumption
<1> QED  BY <1>1, <1>2 DEF To, Again, DueAs, Afresh, Row

LEMMA DraftIndex ==
    ASSUME draft \in Drafts, NEW d \in Deliveries
    PROVE  ~Before(d, d)
BY ConfigAssumption DEF Before

(* Each ledger that a store call computes is one.                           *)
LEMMA LedgerTypes ==
    ASSUME NEW rows \in [Deliveries -> Row], NEW d \in Deliveries
    PROVE  /\ Inserted(rows, d) \in [Deliveries -> Row]
           /\ Fenced(rows) \in [Deliveries -> Row]
           /\ \A from : Finished(rows, d, from) \in [Deliveries -> Row]
           /\ Recovered(rows) \in [Deliveries -> Row]
<1>0. \A e \in Deliveries : rows[e] \in Row  OBVIOUS
<1>1. Inserted(rows, d) \in [Deliveries -> Row]
  <2> DEFINE n == 1 + Cardinality({f \in Deliveries : rows[f].state # "absent"})
             fresh == Fresh(n)
  <2>1. CASE rows[d].state = "absent"
    <3>1. n \in 0..Cardinality(Deliveries)  BY <2>1, RowidRange
    <3> HIDE DEF n
    <3>2. fresh \in Row  BY <3>1, ConfigAssumption DEF Row, State, Fresh
    <3>3. \A e \in Deliveries : To(rows[e], "superseded") \in Row
      BY <1>0, RowWrites DEF State
    <3> HIDE DEF fresh
    <3>4. \/ Inserted(rows, d) = rows
          \/ Inserted(rows, d) = [e \in Deliveries |->
               CASE e = d -> fresh
                 [] Coalesced(rows, d, e) -> To(rows[e], "superseded")
                 [] OTHER -> rows[e]]
      BY DEF Inserted, fresh, n
    <3> QED  BY <3>2, <3>3, <3>4, <1>0
  <2>2. CASE rows[d].state # "absent"
    <3>1. Inserted(rows, d) = rows  BY <2>2, <1>0 DEF Inserted, In, Row
    <3> QED  BY <3>1
  <2> QED  BY <2>1, <2>2
<1>2. Fenced(rows) \in [Deliveries -> Row]  BY <1>0, RowWrites DEF Fenced, State
<1>3. \A from : Finished(rows, d, from) \in [Deliveries -> Row]
  BY <1>0, RowWrites DEF Finished, State
<1>4. Recovered(rows) \in [Deliveries -> Row]  BY <1>0, RowWrites DEF Recovered, State
<1> QED  BY <1>1, <1>2, <1>3, <1>4

(* What an enqueued delivery changes: it is queued unless it is known or an *)
(* old card, and queued rows of its key may be superseded.                  *)
LEMMA InsertedFacts ==
    ASSUME NEW rows \in [Deliveries -> Row], NEW d \in Deliveries
    PROVE  /\ \A e \in Deliveries :
                \/ Inserted(rows, d)[e].state = rows[e].state
                \/ /\ rows[e].state \in {"absent", "pending", "retry"}
                   /\ Inserted(rows, d)[e].state \in {"pending", "superseded"}
           /\ draft[d].version = 0 => Inserted(rows, d)[d].state # "absent"
<1>0. \A e \in Deliveries : rows[e] \in Row  OBVIOUS
<1> DEFINE n == 1 + Cardinality({f \in Deliveries : rows[f].state # "absent"})
           fresh == Fresh(n)
<1>1. \/ /\ Inserted(rows, d) = rows
         /\ rows[d].state # "absent" \/ draft[d].version > 0
      \/ /\ rows[d].state = "absent"
         /\ Inserted(rows, d) = [e \in Deliveries |->
              CASE e = d -> fresh
                [] Coalesced(rows, d, e) -> To(rows[e], "superseded")
                [] OTHER -> rows[e]]
  BY <1>0 DEF Inserted, In, Dropped, Row
<1>2. fresh.state = "pending"  BY DEF Fresh
<1> HIDE DEF n, fresh
<1>3. \A e \in Deliveries : Coalesced(rows, d, e) => rows[e].state \in {"pending", "retry"}
  BY DEF Coalesced, Queued, In
<1>4. \A e \in Deliveries : To(rows[e], "superseded").state = "superseded"
  BY <1>0, RowWrites DEF State
<1>5. CASE Inserted(rows, d) = rows /\ (rows[d].state # "absent" \/ draft[d].version > 0)
  BY <1>5
<1>6. CASE /\ rows[d].state = "absent"
           /\ Inserted(rows, d) = [e \in Deliveries |->
                CASE e = d -> fresh
                  [] Coalesced(rows, d, e) -> To(rows[e], "superseded")
                  [] OTHER -> rows[e]]
  BY <1>6, <1>2, <1>3, <1>4
<1> QED  BY <1>1, <1>5, <1>6

LEMMA FencedFacts ==
    ASSUME NEW rows \in [Deliveries -> Row]
    PROVE  \A e \in Deliveries :
             \/ Fenced(rows)[e].state = rows[e].state
             \/ /\ rows[e].state \in {"pending", "retry"}
                /\ Fenced(rows)[e].state = "superseded"
BY RowWrites DEF Fenced, Queued, In, State

(* A row that is still sending is put back, given up or searched for, and   *)
(* no other row changes.                                                    *)
RetriedTo(rows, d, outcome, due) ==
    IF rows[d].state # "sending" THEN rows
    ELSE [rows EXCEPT ![d] =
            Again(rows[d], IF NewerIntent(rows, d) THEN "superseded" ELSE outcome, due)]

LEMMA RetriedFacts ==
    ASSUME NEW rows \in [Deliveries -> Row], NEW d \in Deliveries,
           NEW outcome \in State, NEW due \in BOOLEAN
    PROVE  /\ RetriedTo(rows, d, outcome, due) \in [Deliveries -> Row]
           /\ \A e \in Deliveries :
                e # d \/ rows[d].state # "sending" => RetriedTo(rows, d, outcome, due)[e] = rows[e]
           /\ rows[d].state = "sending" =>
                \/ RetriedTo(rows, d, outcome, due)[d].state = outcome
                \/ /\ RetriedTo(rows, d, outcome, due)[d].state = "superseded"
                   /\ draft[d].op = "reaction"
<1> DEFINE s == IF NewerIntent(rows, d) THEN "superseded" ELSE outcome
<1>1. rows[d] \in Row  OBVIOUS
<1>2. s \in State /\ (s # outcome => s = "superseded" /\ draft[d].op = "reaction")
  <2>1. "superseded" \in State  BY DEF State
  <2> QED  BY <2>1 DEF NewerIntent
<1>3. RetriedTo(rows, d, outcome, due) =
        IF rows[d].state # "sending" THEN rows ELSE [rows EXCEPT ![d] = Again(rows[d], s, due)]
  BY DEF RetriedTo
<1> HIDE DEF s
<1>4. Again(rows[d], s, due) \in Row /\ Again(rows[d], s, due).state = s
  BY <1>1, <1>2, RowWrites
<1> QED  BY <1>2, <1>3, <1>4

(* A row is sent, and files that failed may be replaced by it.              *)
LEMMA FinishedFacts ==
    ASSUME NEW rows \in [Deliveries -> Row], NEW d \in Deliveries, NEW from
    PROVE  LET new == Finished(rows, d, from) IN
           /\ rows[d].state # from => new = rows
           /\ rows[d].state = from =>
                /\ new[d].state = "sent"
                /\ \A e \in Deliveries \ {d} :
                     \/ new[e].state = rows[e].state
                     \/ /\ rows[e].state = "failed" /\ new[e].state = "replaced"
                        /\ draft[e].op = "file"
<1>1. \A e \in Deliveries : /\ To(rows[e], "sent").state = "sent"
                            /\ To(rows[e], "replaced").state = "replaced"
  BY RowWrites DEF State
<1>2. CASE rows[d].state = from  BY <1>1, <1>2 DEF Finished
<1>3. CASE rows[d].state # from  BY <1>3 DEF Finished
<1> QED  BY <1>2, <1>3
-----------------------------------------------------------------------------
(* What a step may do to a row that neither drain has in hand: keep it, or  *)
(* move it from a state that says that Slack does not have it.              *)
Apart(d) ==
    \/ ledger'[d].state = ledger[d].state
    \/ /\ ledger'[d].state \in {"pending", "retry", "superseded", "replaced", "uncertain"}
       /\ Shelved(d, ledger[d].state) \/ ~Tracked(d)'

(* Steps that leave Slack alone, and of the drains at most release one.     *)
LEMMA ApartStep ==
    ASSUME IInv, TypeOK',
           draft' = draft, slack' = slack, cancelled \subseteq cancelled', blind \subseteq blind',
           sender' \in {sender, Idle}, finder' \in {finder, Idle},
           \A d \in Deliveries : Apart(d)
    PROVE  CopiesAccounted' /\ HandsRight'
<1> USE DEF IInv
<1>1. /\ Idle.phase = "idle"
      /\ sender'.phase \in {sender.phase, "idle"} /\ sender'.phase # "idle" => sender' = sender
      /\ finder'.phase \in {finder.phase, "idle"} /\ finder'.phase # "idle" => finder' = finder
  BY DEF Idle
<1>2. CopiesAccounted'
  <2> SUFFICES ASSUME NEW d \in Deliveries, Tracked(d)'
               PROVE  RowTells(d)' /\ SenderTells(d)' /\ FinderTells(d)'
    BY DEF CopiesAccounted
  <2>1. Tracked(d)  BY DEF Tracked
  <2>2. RowTells(d) /\ SenderTells(d) /\ FinderTells(d)  BY <2>1 DEF CopiesAccounted
  <2>3. \/ ledger'[d].state = ledger[d].state
        \/ /\ ledger'[d].state \in {"pending", "retry", "superseded", "replaced", "uncertain"}
           /\ ledger[d].state \notin {"sending", "uncertain", "sent"}
           /\ slack.copies[d] = 0
    BY <2>2 DEF Apart, RowTells, Shelved
  <2>4. RowTells(d)'  BY <2>2, <2>3 DEF RowTells, Shelved
  <2>5. SenderTells(d)'  BY <1>1, <2>2, <2>3 DEF SenderTells
  <2>6. FinderTells(d)'  BY <1>1, <2>2, <2>3 DEF FinderTells, Outcomes
  <2> QED  BY <2>4, <2>5, <2>6
<1>3. HandsRight'  BY <1>1 DEF HandsRight
<1> QED  BY <1>2, <1>3

(* What the ledger announces stays announced, when no chart is given up in  *)
(* silence, and the drains keep what they are about to announce until it is *)
(* announced, is asked for again or is hushed.                              *)
LEMMA AnnouncedStep ==
    ASSUME IInv, draft' = draft,
           \A d \in Deliveries : ledger'[d].state = "absent" => ledger[d].state = "absent",
           \A d \in Files \ hushed' : ledger'[d].state = "failed" =>
             \/ ledger[d].state = "failed" /\ d \notin hushed
             \/ [phase |-> "notify", item |-> d] \in {sender', finder'},
           \A d \in Files : [phase |-> "notify", item |-> d] \in {sender, finder} =>
             \/ [phase |-> "notify", item |-> d] \in {sender', finder'}
             \/ ledger'[draft[d].notice].state # "absent"
             \/ d \in hushed'
             \/ ledger'[d].state # "failed"
    PROVE  ChartFailureAnnounced'
<1> USE DEF IInv
<1>1. \A d \in Files : d \in Deliveries /\ draft[d].op = "file" /\ draft[d].notice \in Deliveries
  BY DraftType DEF Files
<1>2. Files' = Files  BY DEF Files
<1> QED  BY <1>1, <1>2 DEF ChartFailureAnnounced

LEMMA AnnouncedKept ==
    ASSUME IInv, draft' = draft, hushed' = hushed,
           \A d \in Deliveries : ledger'[d].state = "absent" => ledger[d].state = "absent",
           \A d \in Deliveries : ledger'[d].state = "failed" => ledger[d].state = "failed",
           \A d \in Files : [phase |-> "notify", item |-> d] \in {sender, finder} =>
             [phase |-> "notify", item |-> d] \in {sender', finder'}
    PROVE  ChartFailureAnnounced'
<1>1. Files \subseteq Deliveries  BY DEF Files
<1> QED  BY <1>1, AnnouncedStep
-----------------------------------------------------------------------------
LEMMA EnqueueStep ==
    ASSUME IInv, NEW d \in Deliveries, Enqueue(d)
    PROVE  IInv'
<1> USE DEF IInv, history
<1>1. /\ ledger \in [Deliveries -> Row] /\ ledger' = Inserted(ledger, d)
      /\ UNCHANGED <<sender, finder, overtaken, slack, history, crashes, draft>>
  BY DEF Enqueue, TypeOK
<1>2. TypeOK'
  <2>1. ledger' \in [Deliveries -> Row]  BY <1>1, LedgerTypes
  <2> QED  BY <1>1, <2>1 DEF TypeOK, Keys
<1>3. \A e \in Deliveries :
        \/ ledger'[e].state = ledger[e].state
        \/ ledger[e].state \in {"absent", "pending", "retry"}
           /\ ledger'[e].state \in {"pending", "superseded"}
  BY <1>1, InsertedFacts
<1>4. CopiesAccounted' /\ HandsRight'
  BY <1>1, <1>2, <1>3, ApartStep DEF Apart, Shelved
<1>5. ChartFailureAnnounced'  BY <1>1, <1>3, AnnouncedKept
<1> QED  BY <1>1, <1>2, <1>4, <1>5

LEMMA OvertakeStep ==
    ASSUME IInv, NEW s \in Sources, Overtake(s)
    PROVE  IInv'
<1> USE DEF IInv, history
<1>1. /\ overtaken' = overtaken \cup {s}
      /\ UNCHANGED <<ledger, sender, finder, slack, history, crashes, draft>>
  BY DEF Overtake
<1>2. TypeOK'  BY <1>1 DEF TypeOK, Keys
<1>3. CopiesAccounted' /\ HandsRight'  BY <1>1, <1>2, ApartStep DEF Apart
<1>4. ChartFailureAnnounced'  BY <1>1, AnnouncedKept
<1> QED  BY <1>1, <1>2, <1>3, <1>4

LEMMA ElapseStep ==
    ASSUME IInv, NEW d \in Deliveries, Elapse(d)
    PROVE  IInv'
<1> USE DEF IInv, history
<1>1. /\ ledger \in [Deliveries -> Row] /\ ledger' = [ledger EXCEPT ![d] = DueAs(ledger[d], ledger[d].state)]
      /\ UNCHANGED <<sender, finder, overtaken, slack, history, crashes, draft>>
  BY DEF Elapse, TypeOK
<1>2. /\ DueAs(ledger[d], ledger[d].state) \in Row
      /\ DueAs(ledger[d], ledger[d].state).state = ledger[d].state
  <2>1. ledger[d] \in Row /\ ledger[d].state \in State  BY <1>1 DEF Row
  <2> QED  BY <2>1, RowWrites
<1>3. TypeOK'  BY <1>1, <1>2 DEF TypeOK, Keys
<1>4. \A e \in Deliveries : ledger'[e].state = ledger[e].state  BY <1>1, <1>2
<1>5. CopiesAccounted' /\ HandsRight'  BY <1>1, <1>3, <1>4, ApartStep DEF Apart
<1>6. ChartFailureAnnounced'  BY <1>1, <1>4, AnnouncedKept
<1> QED  BY <1>1, <1>3, <1>5, <1>6

LEMMA CancelStep ==
    ASSUME IInv, NEW s \in Sources, CancelReplay(s)
    PROVE  IInv'
<1> USE DEF IInv, history
<1>1. /\ ledger \in [Deliveries -> Row]
      /\ UNCHANGED <<sender, finder, overtaken, slack, blind, hushed, crashes, draft>>
      /\ cancelled' = cancelled \cup {d \in Deliveries : draft[d].source = s
                                                       /\ ledger[d].state # "absent"}
  BY DEF CancelReplay, TypeOK
<1>2. \A d \in Deliveries :
        \/ ledger'[d] = ledger[d]
        \/ /\ ledger[d].state \in {"pending", "retry"}
           /\ ledger'[d] = To(ledger[d], "superseded")
        \/ /\ ledger[d].state = "sending" /\ d \in cancelled'
           /\ ledger'[d] = To(ledger[d], "uncertain")
  BY <1>1 DEF CancelReplay, Queued, In
<1>3. ledger' \in [Deliveries -> Row]
  <2>1. ASSUME NEW d \in Deliveries
        PROVE  ledger'[d] \in Row
    <3>1. To(ledger[d], "superseded") \in Row /\ To(ledger[d], "uncertain") \in Row
      BY <1>1, RowWrites DEF State
    <3> QED  BY <1>1, <1>2, <3>1
  <2>2. ledger' = [d \in Deliveries |-> ledger'[d]]  BY DEF CancelReplay
  <2> QED  BY <2>1, <2>2
<1>4. TypeOK'  BY <1>1, <1>3 DEF TypeOK, Keys
<1>5. \A d \in Deliveries :
        \/ ledger'[d].state = ledger[d].state
        \/ ledger[d].state \in {"pending", "retry"} /\ ledger'[d].state = "superseded"
        \/ ledger'[d].state = "uncertain" /\ ledger[d].state = "sending" /\ d \in cancelled'
  <2>1. \A d \in Deliveries : /\ To(ledger[d], "superseded").state = "superseded"
                             /\ To(ledger[d], "uncertain").state = "uncertain"
    BY <1>1, RowWrites DEF State
  <2> QED  BY <1>2, <2>1
<1>6. CopiesAccounted' /\ HandsRight'
  BY <1>1, <1>4, <1>5, ApartStep DEF Apart, Shelved, Tracked
<1>7. ChartFailureAnnounced'  BY <1>1, <1>5, AnnouncedKept
<1> QED  BY <1>1, <1>4, <1>6, <1>7

LEMMA RetryVisualStep ==
    ASSUME IInv, RetryVisual
    PROVE  IInv'
<1> USE DEF IInv, history
<1>1. PICK e \in Deliveries :
        /\ draft[e].op = "file"
        /\ ledger[e].state \in {"pending", "retry", "failed", "replaced"}
        /\ ledger' = [ledger EXCEPT ![e] = Afresh(ledger[e], "retry")]
        /\ hushed' = hushed \ {e}
        /\ UNCHANGED <<sender, finder, overtaken, slack, cancelled, blind, crashes, draft>>
  BY DEF RetryVisual, In
<1>2. ledger \in [Deliveries -> Row]  BY DEF TypeOK
<1>3. Afresh(ledger[e], "retry") \in Row /\ Afresh(ledger[e], "retry").state = "retry"
  BY <1>2, RowWrites DEF State
<1>4. TypeOK'  BY <1>1, <1>3 DEF TypeOK, Keys
<1>5. /\ ledger'[e].state = "retry"
      /\ \A d \in Deliveries \ {e} : ledger'[d].state = ledger[d].state
  BY <1>1, <1>2, RowWrites DEF State
<1>6. CopiesAccounted' /\ HandsRight'
  <2>1. Shelved(e, ledger[e].state) \/ ~Tracked(e)'
    BY <1>1 DEF Shelved, Tracked
  <2> QED  BY <1>1, <1>4, <1>5, <2>1, ApartStep DEF Apart
<1>7. ChartFailureAnnounced'
  <2>1. \A d \in Files \ hushed' : ledger'[d].state = "failed" =>
          ledger[d].state = "failed" /\ d \notin hushed
    BY <1>1, <1>5 DEF Files
  <2>2. \A d \in Deliveries : ledger'[d].state = "absent" => ledger[d].state = "absent"
    BY <1>5
  <2> HIDE DEF IInv
  <2> QED  BY <1>1, <2>1, <2>2, AnnouncedStep
<1> QED  BY <1>1, <1>4, <1>6, <1>7
-----------------------------------------------------------------------------
(* What the drains have in hand.                                            *)
LEMMA HandTypes ==
    ASSUME TypeOK
    PROVE  /\ Idle.phase = "idle"
           /\ sender # Idle => sender \in Sending /\ sender.item \in Deliveries
           /\ finder # Idle => finder \in Finding /\ finder.item \in Deliveries
           /\ sender.phase # "idle" => sender # Idle
           /\ finder.phase # "idle" => finder # Idle
BY DEF TypeOK, Sending, Finding, Idle

LEMMA LeaseStep ==
    ASSUME IInv, NEW cooling, Lease(cooling)
    PROVE  IInv'
<1> USE DEF IInv, history
<1> DEFINE rows == Fenced(ledger)
<1>1. /\ ledger \in [Deliveries -> Row] /\ sender = Idle
      /\ UNCHANGED <<finder, overtaken, slack, history, crashes, draft>>
  BY DEF Lease, TypeOK
<1>2. rows \in [Deliveries -> Row]  BY <1>1, LedgerTypes DEF Fenced
<1>3. \A e \in Deliveries :
        \/ rows[e].state = ledger[e].state
        \/ ledger[e].state \in {"pending", "retry"} /\ rows[e].state = "superseded"
  BY <1>1, FencedFacts
<1> HIDE DEF rows
<1>4. CASE ledger' = rows /\ sender' = sender
  <2>1. TypeOK'  BY <1>1, <1>2, <1>4 DEF TypeOK, Keys
  <2>2. CopiesAccounted' /\ HandsRight'
    BY <1>1, <1>3, <1>4, <2>1, ApartStep DEF Apart, Shelved
  <2>3. ChartFailureAnnounced'  BY <1>1, <1>3, <1>4, AnnouncedKept
  <2> QED  BY <1>1, <2>1, <2>2, <2>3
<1>5. ASSUME NEW d \in Deliveries, rows[d].state \in {"pending", "retry"},
             ledger' = [rows EXCEPT ![d] = To(rows[d], "sending")],
             sender' = [phase |-> "leased", item |-> d]
      PROVE  IInv'
  <2>1. To(rows[d], "sending") \in Row /\ To(rows[d], "sending").state = "sending"
    BY <1>2, RowWrites DEF State
  <2>2. /\ ledger'[d].state = "sending"
        /\ \A e \in Deliveries \ {d} : ledger'[e] = rows[e]
    BY <1>2, <1>5, <2>1
  <2>3. TypeOK'  BY <1>1, <1>2, <1>5, <2>1 DEF TypeOK, Keys, Sending
  <2>4. ledger[d].state \in {"pending", "retry"}  BY <1>3, <1>5
  <2>5. CopiesAccounted'
    <3> SUFFICES ASSUME NEW e \in Deliveries, Tracked(e)'
                 PROVE  RowTells(e)' /\ SenderTells(e)' /\ FinderTells(e)'
      BY DEF CopiesAccounted
    <3>1. RowTells(e) /\ SenderTells(e) /\ FinderTells(e)
      BY <1>1 DEF CopiesAccounted, Tracked
    <3>2. CASE e = d
      BY <1>1, <1>5, <2>2, <2>4, <3>1, <3>2 DEF RowTells, SenderTells, FinderTells, Shelved
    <3>3. CASE e # d
      BY <1>1, <1>3, <1>5, <2>2, <3>1, <3>3 DEF RowTells, SenderTells, FinderTells, Shelved
    <3> QED  BY <3>2, <3>3
  <2>6. HandsRight'  BY <1>1, <1>5 DEF HandsRight
  <2>7. ChartFailureAnnounced'
    <3>1. \A e \in Deliveries : /\ ledger'[e].state = "absent" => ledger[e].state = "absent"
                                /\ ledger'[e].state = "failed" => ledger[e].state = "failed"
      BY <1>3, <1>5, <2>2
    <3>2. \A e : [phase |-> "notify", item |-> e] # sender  BY <1>1 DEF Idle
    <3> QED  BY <1>1, <3>1, <3>2, AnnouncedKept
  <2> QED  BY <1>1, <2>3, <2>5, <2>6, <2>7
<1>6. \A S : First(rows, S) \subseteq S  BY DEF First
<1>7. \A d \in Leasable(rows, cooling) : d \in Deliveries /\ rows[d].state \in {"pending", "retry"}
  BY DEF Leasable, Queued, In
<1> QED  BY <1>4, <1>5, <1>6, <1>7 DEF Lease, rows

(* The sender and the finder change at most the row that they have in hand, *)
(* and what the row then says is so.                                        *)
LEMMA CheckStep ==
    ASSUME IInv, NEW verdict \in Verdicts, Check(verdict)
    PROVE  IInv'
<1> USE DEF IInv
<1> DEFINE d == sender.item
<1>1. /\ ledger \in [Deliveries -> Row] /\ sender.phase = "leased"
      /\ d \in Deliveries /\ sender \in Sending
      /\ UNCHANGED <<finder, overtaken, slack, cancelled, blind, crashes, draft>>
  BY HandTypes DEF Check, TypeOK
<1> HIDE DEF d
<1>2. Tracked(d) => ledger[d].state = "sending" /\ slack.copies[d] = 0
  BY <1>1 DEF CopiesAccounted, SenderTells, d
<1>3. \/ /\ ledger' \in [Deliveries -> Row] /\ sender' = Idle
         /\ \A e \in Deliveries \ {d} : ledger'[e] = ledger[e]
         /\ \/ /\ \/ ledger'[d].state = ledger[d].state
                  \/ ledger[d].state = "sending" /\ ledger'[d].state \in {"superseded", "retry"}
               /\ hushed' = hushed
            \/ /\ ledger[d].state # "sending" => ledger'[d].state = ledger[d].state
               /\ ledger[d].state = "sending" =>
                    \/ ledger'[d].state = "failed"
                    \/ ledger'[d].state = "superseded" /\ draft[d].op # "file"
               /\ Hush(d, "sending")
      \/ /\ ledger' = ledger /\ hushed' = hushed
         /\ sender' = [phase |-> "calling", item |-> d]
  <2>1. CASE verdict = "newer"
    <3>1. To(ledger[d], "superseded") \in Row /\ To(ledger[d], "superseded").state = "superseded"
      BY <1>1, RowWrites DEF State
    <3>2. ledger' = (IF ledger[d].state = "sending"
                    THEN [ledger EXCEPT ![d] = To(ledger[d], "superseded")] ELSE ledger)
          /\ sender' = Idle /\ hushed' = hushed
      BY <2>1 DEF Check, d
    <3> QED  BY <1>1, <3>1, <3>2
  <2>2. CASE verdict = "unread"
    <3>1. ledger' = RetriedTo(ledger, d, "retry", TRUE) /\ sender' = Idle /\ hushed' = hushed
      BY <2>2 DEF Check, Retried, RetriedTo, d
    <3>2. "retry" \in State  BY DEF State
    <3>3. /\ ledger' \in [Deliveries -> Row]
          /\ \A e \in Deliveries : e # d \/ ledger[d].state # "sending" => ledger'[e] = ledger[e]
          /\ ledger[d].state = "sending" => ledger'[d].state \in {"superseded", "retry"}
      BY <1>1, <3>1, <3>2, RetriedFacts
    <3> QED  BY <1>1, <3>1, <3>3
  <2>3. CASE verdict \in {"unwritable", "illegible"}
    <3>1. ledger' = RetriedTo(ledger, d, "failed", TRUE) /\ sender' = Idle /\ Hush(d, "sending")
      BY <2>3 DEF Check, Retried, RetriedTo, d
    <3>2. "failed" \in State  BY DEF State
    <3>3. /\ ledger' \in [Deliveries -> Row]
          /\ \A e \in Deliveries : e # d \/ ledger[d].state # "sending" => ledger'[e] = ledger[e]
          /\ ledger[d].state = "sending" =>
               \/ ledger'[d].state = "failed"
               \/ ledger'[d].state = "superseded" /\ draft[d].op = "reaction"
      BY <1>1, <3>1, <3>2, RetriedFacts
    <3> QED  BY <1>1, <3>1, <3>3
  <2>4. CASE verdict = "call"
    <3>1. ledger' = ledger /\ hushed' = hushed /\ sender' = [sender EXCEPT !.phase = "calling"]
      BY <2>4 DEF Check
    <3> QED  BY <1>1, <3>1 DEF Sending, d
  <2> QED  BY <2>1, <2>2, <2>3, <2>4 DEF Verdicts
<1>0. hushed' \subseteq Deliveries
  BY <1>1, <1>3 DEF TypeOK, Hush
<1>4. CASE /\ ledger' = ledger /\ hushed' = hushed
           /\ sender' = [phase |-> "calling", item |-> d]
  <2>1. TypeOK'  BY <1>1, <1>4 DEF TypeOK, Keys, Sending
  <2>2. CopiesAccounted'
    <3> SUFFICES ASSUME NEW e \in Deliveries, Tracked(e)'
                 PROVE  RowTells(e)' /\ SenderTells(e)' /\ FinderTells(e)'
      BY DEF CopiesAccounted
    <3>1. Tracked(e) /\ RowTells(e) /\ FinderTells(e)
      BY <1>1 DEF CopiesAccounted, Tracked
    <3> QED  BY <1>1, <1>2, <1>4, <3>1 DEF RowTells, SenderTells, FinderTells, Shelved
  <2>3. HandsRight'  BY <1>1, <1>4 DEF HandsRight
  <2>4. ChartFailureAnnounced'
    BY <1>1, <1>4, AnnouncedStep DEF Sending
  <2> QED  BY <1>1, <2>1, <2>2, <2>3, <2>4
<1>5. CASE /\ ledger' \in [Deliveries -> Row] /\ sender' = Idle
           /\ \A e \in Deliveries \ {d} : ledger'[e] = ledger[e]
           /\ \/ /\ \/ ledger'[d].state = ledger[d].state
                    \/ ledger[d].state = "sending" /\ ledger'[d].state \in {"superseded", "retry"}
                 /\ hushed' = hushed
              \/ /\ ledger[d].state # "sending" => ledger'[d].state = ledger[d].state
                 /\ ledger[d].state = "sending" =>
                      \/ ledger'[d].state = "failed"
                      \/ ledger'[d].state = "superseded" /\ draft[d].op # "file"
                 /\ Hush(d, "sending")
  <2>1. TypeOK'  BY <1>0, <1>1, <1>5 DEF TypeOK, Keys
  <2>2. CopiesAccounted'
    <3> SUFFICES ASSUME NEW e \in Deliveries, Tracked(e)'
                 PROVE  RowTells(e)' /\ SenderTells(e)' /\ FinderTells(e)'
      BY DEF CopiesAccounted
    <3>1. Tracked(e) /\ RowTells(e) /\ FinderTells(e)
      BY <1>1 DEF CopiesAccounted, Tracked
    <3>2. SenderTells(e)'  BY <1>5, HandTypes DEF SenderTells
    <3> QED  BY <1>1, <1>2, <1>5, <3>1, <3>2 DEF RowTells, FinderTells, Shelved
  <2>3. HandsRight'  BY <1>1, <1>5, HandTypes DEF HandsRight
  <2>4. ChartFailureAnnounced'
    <3>1. \A e : [phase |-> "notify", item |-> e] # sender  BY <1>1
    <3>2. hushed \subseteq hushed'  BY <1>5 DEF Hush
    <3>3. draft[d].op = "file" /\ ledger'[d].state = "failed" =>
            ledger[d].state = "failed" \/ d \in hushed'
      BY <1>1, <1>5 DEF Hush
    <3>4. \A e \in Files \ hushed' : ledger'[e].state = "failed" =>
            ledger[e].state = "failed" /\ e \notin hushed
      BY <1>5, <3>2, <3>3 DEF Files
    <3>5. \A e \in Deliveries : ledger'[e].state = "absent" => ledger[e].state = "absent"
      BY <1>5
    <3> HIDE DEF IInv
    <3> QED  BY <1>1, <3>1, <3>4, <3>5, AnnouncedStep
  <2> QED  BY <1>1, <2>1, <2>2, <2>3, <2>4
<1> QED  BY <1>3, <1>4, <1>5

LEMMA CallStep ==
    ASSUME IInv, NEW accepted \in BOOLEAN, NEW answer \in {"ok", "error", "refused"},
           Call(accepted, answer)
    PROVE  IInv'
<1> USE DEF IInv, history
<1> DEFINE d == sender.item
<1>1. /\ sender.phase = "calling" /\ sender \in Sending /\ d \in Deliveries
      /\ sender' = [phase |-> "answered", item |-> d, answer |-> answer]
      /\ answer = "ok" => accepted
      /\ answer = "refused" => draft[d].op = "file" /\ draft[d].legible
      /\ draft[d].op = "file" /\ ~draft[d].legible => ~accepted
      /\ UNCHANGED <<ledger, finder, overtaken, history, crashes, draft>>
  BY HandTypes DEF Call
<1>2. slack' = IF ~accepted THEN slack
               ELSE IF SearchedFor(d)
                    THEN [slack EXCEPT !.copies[d] = IF @ < 2 THEN @ + 1 ELSE @]
                    ELSE [slack EXCEPT !.shows[draft[d].key] = d]
  BY DEF Call
<1>3. slack \in [copies : [Deliveries -> 0..2], shows : [Keys -> Deliveries \cup {None}]]
  BY DEF TypeOK
<1> HIDE DEF d
<1>4. Tracked(d) => ledger[d].state = "sending" /\ slack.copies[d] = 0
  BY <1>1 DEF CopiesAccounted, SenderTells, d
<1>5. /\ slack' \in [copies : [Deliveries -> 0..2], shows : [Keys -> Deliveries \cup {None}]]
      /\ \A e \in Deliveries \ {d} : slack'.copies[e] = slack.copies[e]
      /\ ~accepted => slack' = slack
      /\ SearchedFor(d) /\ accepted /\ slack.copies[d] = 0 => slack'.copies[d] = 1
  <2>1. CASE ~accepted  BY <1>2, <1>3, <2>1
  <2>2. CASE accepted /\ SearchedFor(d)  BY <1>1, <1>2, <1>3, <2>2
  <2>3. CASE accepted /\ ~SearchedFor(d)  BY <1>1, <1>2, <1>3, <2>3
  <2> QED  BY <2>1, <2>2, <2>3
<1>6. TypeOK'  BY <1>1, <1>5 DEF TypeOK, Keys, Sending
<1>7. CopiesAccounted'
  <2> SUFFICES ASSUME NEW e \in Deliveries, Tracked(e)'
               PROVE  RowTells(e)' /\ SenderTells(e)' /\ FinderTells(e)'
    BY DEF CopiesAccounted
  <2>1. Tracked(e) /\ RowTells(e) /\ FinderTells(e)
    BY <1>1 DEF CopiesAccounted, Tracked
  <2>2. CASE e = d
    <3>1. SearchedFor(d)  BY <2>1, <2>2 DEF Tracked, SearchedFor
    <3>2. ledger[d].state = "sending" /\ slack.copies[d] = 0  BY <1>4, <2>1, <2>2
    <3> QED
      BY <1>1, <1>5, <2>1, <2>2, <3>1, <3>2 DEF RowTells, SenderTells, FinderTells, Shelved
  <2>3. CASE e # d
    BY <1>1, <1>5, <2>1, <2>3 DEF RowTells, SenderTells, FinderTells, Shelved
  <2> QED  BY <2>2, <2>3
<1>8. HandsRight'
  <2>1. \A e \in Deliveries : draft[e].op = "file" /\ ~draft[e].legible => slack'.copies[e] = 0
    BY <1>1, <1>5 DEF HandsRight
  <2> QED  BY <1>1, <2>1 DEF HandsRight
<1>9. ChartFailureAnnounced'
  <2>1. \A e : [phase |-> "notify", item |-> e] # sender  BY <1>1
  <2> QED  BY <1>1, <2>1, AnnouncedStep
<1> QED  BY <1>1, <1>6, <1>7, <1>8, <1>9

LEMMA RecordStep ==
    ASSUME IInv, NEW stored \in {"done", "unconfirmed", "lost"}, Record(stored)
    PROVE  IInv'
<1> USE DEF IInv
<1> DEFINE d == sender.item
           refused == sender.answer = "refused"
           terminal == refused \/ Exhausted(ledger[d].failures)
           uncertain == SearchedFor(d) /\ ~refused
<1>1. /\ ledger \in [Deliveries -> Row] /\ sender.phase = "answered"
      /\ d \in Deliveries /\ sender \in Sending
      /\ UNCHANGED <<finder, overtaken, slack, cancelled, hushed, crashes, draft>>
  BY HandTypes DEF Record, TypeOK
<1>2. /\ Tracked(d) => /\ ledger[d].state = "sending"
                       /\ sender.answer = "ok" => slack.copies[d] > 0
      /\ refused => draft[d].op = "file" /\ draft[d].legible
  BY <1>1 DEF CopiesAccounted, SenderTells, HandsRight
<1>3. draft[d].op = "file" \/ Tracked(d) => SearchedFor(d)  BY DEF SearchedFor, Tracked
<1>a. /\ blind \subseteq blind' /\ blind' \subseteq Deliveries
      /\ refused /\ stored = "done" /\ slack.copies[d] > 0 => d \in blind'
  BY <1>1, <1>2 DEF Record, Unlooked, TypeOK
<1> HIDE DEF d
<1>4. /\ ledger' \in [Deliveries -> Row]
      /\ sender' \in {Idle, [phase |-> "notify", item |-> d]}
      /\ \A e \in Deliveries \ {d} :
           \/ ledger'[e].state = ledger[e].state
           \/ /\ ledger[e].state = "failed" /\ ledger'[e].state = "replaced"
              /\ draft[e].op = "file"
      /\ \/ ledger'[d].state = ledger[d].state
         \/ ledger'[d].state = "sent" /\ sender.answer = "ok"
         \/ ledger'[d].state = "uncertain"
         \/ /\ ledger'[d].state \in {"superseded", "failed", "retry"}
            /\ SearchedFor(d) => refused /\ stored = "done"
      /\ sender' = Idle => ledger'[d].state # "failed" \/ ledger[d].state = "failed"
                           \/ draft[d].op # "file"
      /\ sender' # Idle => draft[d].op = "file"
      /\ ledger'[d].state = "absent" => ledger[d].state = "absent"
  <2> USE <1>1, <1>3
  <2>1. CASE stored = "done" /\ sender.answer = "ok"
    <3>1. ledger' = Finished(ledger, d, "sending") /\ sender' = Idle
      BY <2>1 DEF Record, d
    <3>2. ledger' \in [Deliveries -> Row]  BY <3>1, LedgerTypes
    <3>3. /\ ledger[d].state # "sending" => ledger' = ledger
          /\ ledger[d].state = "sending" =>
               /\ ledger'[d].state = "sent"
               /\ \A e \in Deliveries \ {d} :
                    \/ ledger'[e].state = ledger[e].state
                    \/ /\ ledger[e].state = "failed" /\ ledger'[e].state = "replaced"
                       /\ draft[e].op = "file"
      BY <3>1, FinishedFacts
    <3> QED  BY <2>1, <3>1, <3>2, <3>3
  <2>2. CASE stored = "unconfirmed"
    <3> DEFINE outcome == IF SearchedFor(d) THEN "uncertain" ELSE "retry"
    <3>1. ledger' = RetriedTo(ledger, d, outcome, FALSE) /\ sender' = Idle
      BY <2>2 DEF Record, Retried, RetriedTo, d
    <3>0. "uncertain" \in State /\ "retry" \in State  BY DEF State
    <3>2. outcome \in State /\ (outcome # "uncertain" => outcome = "retry" /\ ~SearchedFor(d))
      BY <3>0
    <3> HIDE DEF outcome
    <3>3. /\ ledger' \in [Deliveries -> Row]
          /\ \A e \in Deliveries : e # d \/ ledger[d].state # "sending" => ledger'[e] = ledger[e]
          /\ ledger[d].state = "sending" =>
               \/ ledger'[d].state = outcome
               \/ ledger'[d].state = "superseded" /\ draft[d].op = "reaction"
      BY <3>1, <3>2, RetriedFacts
    <3> QED  BY <3>1, <3>2, <3>3 DEF SearchedFor
  <2>3. CASE stored = "done" /\ sender.answer # "ok"
    <3> DEFINE outcome == IF uncertain THEN "uncertain" ELSE IF terminal THEN "failed" ELSE "retry"
    <3>1. /\ ledger' = RetriedTo(ledger, d, outcome, FALSE)
          /\ sender' = IF GivenUp(d, terminal, "sending")
                       THEN [phase |-> "notify", item |-> d] ELSE Idle
      BY <2>3 DEF Record, Retried, RetriedTo, d
    <3>2. /\ outcome \in State
          /\ \/ outcome = "uncertain"
             \/ outcome = "retry" /\ (SearchedFor(d) => refused)
             \/ outcome = "failed" /\ (SearchedFor(d) => refused) /\ terminal
      BY DEF State
    <3> HIDE DEF outcome
    <3>3. /\ ledger' \in [Deliveries -> Row]
          /\ \A e \in Deliveries : e # d \/ ledger[d].state # "sending" => ledger'[e] = ledger[e]
          /\ ledger[d].state = "sending" =>
               \/ ledger'[d].state = outcome
               \/ ledger'[d].state = "superseded" /\ draft[d].op = "reaction"
      BY <3>1, <3>2, RetriedFacts
    <3> HIDE DEF terminal, refused, uncertain
    <3>4. \/ sender' = Idle
          \/ GivenUp(d, terminal, "sending") /\ sender' = [phase |-> "notify", item |-> d]
      BY <3>1
    <3>5. Idle # [phase |-> "notify", item |-> d]  BY DEF Idle
    <3>6. /\ sender' # Idle => draft[d].op = "file"
          /\ sender' = Idle /\ ledger[d].state = "sending" /\ outcome = "failed" =>
               draft[d].op # "file"
      BY <1>2, <3>1, <3>2, <3>4, <3>5 DEF GivenUp, SearchedFor
    <3>7. \/ ledger'[d].state = ledger[d].state
          \/ ledger'[d].state = "uncertain"
          \/ /\ ledger'[d].state \in {"superseded", "failed", "retry"}
             /\ SearchedFor(d) => refused /\ stored = "done"
      BY <2>3, <3>2, <3>3 DEF SearchedFor
    <3>8. ledger'[d].state = "failed" =>
            \/ ledger[d].state = "failed"
            \/ ledger[d].state = "sending" /\ outcome = "failed"
      BY <3>3
    <3>9. ledger'[d].state = "absent" => ledger[d].state = "absent"
      BY <3>2, <3>3
    <3> QED  BY <3>3, <3>4, <3>6, <3>7, <3>8, <3>9
  <2>4. CASE stored = "lost"
    BY <2>4 DEF Record
  <2> QED  BY <2>1, <2>2, <2>3, <2>4 DEF Record
<1> HIDE DEF refused, terminal, uncertain
<1>5. TypeOK'  BY <1>1, <1>4, <1>a DEF TypeOK, Keys, Sending
<1>6. sender'.phase \in {"idle", "notify"} /\ sender.phase = "answered"
  BY <1>1, <1>4 DEF Idle
<1>7. CopiesAccounted'
  <2> SUFFICES ASSUME NEW e \in Deliveries, Tracked(e)'
               PROVE  RowTells(e)' /\ SenderTells(e)' /\ FinderTells(e)'
    BY DEF CopiesAccounted
  <2>1. Tracked(e) /\ RowTells(e) /\ FinderTells(e)
    BY <1>1, <1>a DEF CopiesAccounted, Tracked
  <2>2. SenderTells(e)'  BY <1>6 DEF SenderTells
  <2>3. CASE e = d
    <3>1. refused /\ stored = "done" => slack.copies[d] = 0
      BY <1>a, <1>1, <1>2, <2>1, <2>3 DEF Tracked, TypeOK
    <3> QED  BY <1>1, <1>2, <1>3, <1>4, <2>1, <2>2, <2>3, <3>1 DEF RowTells, FinderTells, Shelved
  <2>4. CASE e # d
    BY <1>1, <1>4, <2>1, <2>2, <2>4 DEF RowTells, FinderTells, Shelved
  <2> QED  BY <2>3, <2>4
<1>8. HandsRight'
  <2>1. sender'.phase = "notify" => draft[sender'.item].op = "file"  BY <1>4 DEF Idle
  <2> QED  BY <1>1, <1>6, <2>1 DEF HandsRight
<1>9. ChartFailureAnnounced'
  <2>1. \A e : [phase |-> "notify", item |-> e] # sender  BY <1>1
  <2>2. \A e \in Files \ hushed' : ledger'[e].state = "failed" =>
          \/ ledger[e].state = "failed" /\ e \notin hushed
          \/ [phase |-> "notify", item |-> e] \in {sender', finder'}
    BY <1>1, <1>4 DEF Files
  <2>3. \A e \in Deliveries : ledger'[e].state = "absent" => ledger[e].state = "absent"
    BY <1>4
  <2> HIDE DEF IInv
  <2> QED  BY <1>1, <2>1, <2>2, <2>3, AnnouncedStep
<1> QED  BY <1>1, <1>5, <1>7, <1>8, <1>9

(* Either drain announces a chart that it has given up, or loses the notice. *)
LEMMA AnnounceFacts ==
    ASSUME IInv, NEW stored \in BOOLEAN, Announce(stored)
    PROVE  \E d \in Files :
             /\ Announced(d, stored)
             /\ \/ sender = [phase |-> "notify", item |-> d] /\ sender' = Idle /\ finder' = finder
                \/ finder = [phase |-> "notify", item |-> d] /\ finder' = Idle /\ sender' = sender
             /\ UNCHANGED <<overtaken, slack, cancelled, blind, crashes, draft>>
<1> USE DEF IInv
<1>1. CASE sender.phase = "notify" /\ Announced(sender.item, stored)
           /\ sender' = Idle /\ UNCHANGED <<finder, overtaken, slack, cancelled, blind, crashes, draft>>
  <2>1. sender = [phase |-> "notify", item |-> sender.item] /\ sender.item \in Deliveries
    BY <1>1, HandTypes DEF Sending
  <2>2. sender.item \in Files  BY <1>1, <2>1 DEF HandsRight, Files
  <2> QED  BY <1>1, <2>1, <2>2
<1>2. CASE finder.phase = "notify" /\ Announced(finder.item, stored)
           /\ finder' = Idle /\ UNCHANGED <<sender, overtaken, slack, cancelled, blind, crashes, draft>>
  <2>1. finder = [phase |-> "notify", item |-> finder.item] /\ finder.item \in Deliveries
    BY <1>2, HandTypes DEF Finding
  <2>2. finder.item \in Files  BY <1>2, <2>1 DEF HandsRight, Files
  <2> QED  BY <1>2, <2>1, <2>2
<1> QED  BY <1>1, <1>2 DEF Announce

LEMMA AnnounceStep ==
    ASSUME IInv, NEW stored \in BOOLEAN, Announce(stored)
    PROVE  IInv'
<1> USE DEF IInv
<1>1. PICK d \in Files :
        /\ Announced(d, stored)
        /\ \/ sender = [phase |-> "notify", item |-> d] /\ sender' = Idle /\ finder' = finder
           \/ finder = [phase |-> "notify", item |-> d] /\ finder' = Idle /\ sender' = sender
        /\ UNCHANGED <<overtaken, slack, cancelled, blind, crashes, draft>>
  BY AnnounceFacts
<1> DEFINE n == draft[d].notice
<1>2. ledger \in [Deliveries -> Row] /\ n \in Deliveries /\ draft[n].version = 0
  BY DraftType DEF TypeOK, Files
<1> HIDE DEF n
<1>3. \A e \in Files : [phase |-> "notify", item |-> e] \in {sender, finder} =>
        e = d \/ [phase |-> "notify", item |-> e] \in {sender', finder'}
  BY <1>1
<1>4. CASE stored
  <2>1. ledger' = Inserted(ledger, n) /\ hushed' = hushed  BY <1>1, <1>4 DEF Announced, n
  <2>2. /\ ledger' \in [Deliveries -> Row]
        /\ ledger'[n].state # "absent"
        /\ \A e \in Deliveries :
             \/ ledger'[e].state = ledger[e].state
             \/ ledger[e].state \in {"absent", "pending", "retry"}
                /\ ledger'[e].state \in {"pending", "superseded"}
    BY <1>2, <2>1, LedgerTypes, InsertedFacts
  <2>3. TypeOK'  BY <1>1, <2>1, <2>2 DEF TypeOK, Keys
  <2>4. CopiesAccounted' /\ HandsRight'
    BY <1>1, <2>2, <2>3, ApartStep DEF Apart, Shelved
  <2>5. ChartFailureAnnounced'
    <3>1. \A e \in Files \ hushed' : ledger'[e].state = "failed" =>
            ledger[e].state = "failed" /\ e \notin hushed
      BY <2>1, <2>2 DEF Files
    <3> HIDE DEF IInv
    <3> QED  BY <1>1, <1>3, <2>2, <3>1, AnnouncedStep DEF n
  <2> QED  BY <1>1, <2>3, <2>4, <2>5
<1>5. CASE ~stored
  <2>1. ledger' = ledger /\ Hush(d, "failed")  BY <1>1, <1>5 DEF Announced
  <2>2. /\ hushed \subseteq hushed' /\ hushed' \subseteq Deliveries
        /\ ledger[d].state = "failed" => d \in hushed'
    BY <1>1, <2>1 DEF Hush, TypeOK, Files
  <2>3. TypeOK'  BY <1>1, <2>1, <2>2 DEF TypeOK, Keys
  <2>4. CopiesAccounted' /\ HandsRight'  BY <1>1, <2>1, <2>3, ApartStep DEF Apart
  <2>5. ChartFailureAnnounced'
    <3> HIDE DEF IInv
    <3> QED  BY <1>1, <1>3, <2>1, <2>2, AnnouncedStep
  <2> QED  BY <1>1, <2>3, <2>4, <2>5
<1> QED  BY <1>4, <1>5

LEMMA SearchStep ==
    ASSUME IInv, NEW outcome \in Outcomes, Search(outcome)
    PROVE  IInv'
<1> USE DEF IInv, history
<1>1. PICK d \in Deliveries :
        /\ ledger[d].state = "uncertain"
        /\ Concludes(d, outcome)
        /\ finder' = [phase |-> outcome, item |-> d]
  BY DEF Search, Oldest, Uncertain
<1>a. /\ outcome = "found" => slack.copies[d] > 0
      /\ outcome = "absent" => slack.copies[d] = 0 /\ (draft[d].op = "file" => draft[d].legible)
      /\ outcome = "unwritable" => draft[d].incident
      /\ outcome = "illegible" => draft[d].op = "file" /\ ~draft[d].legible
      /\ outcome = "forgone" => draft[d].op = "file" /\ draft[d].legible
  BY <1>1 DEF Concludes, Searchable
<1>b. outcome # "notify" /\ outcome # "idle"  BY DEF Outcomes
<1>2. /\ finder = Idle
      /\ UNCHANGED <<ledger, sender, overtaken, slack, history, crashes, draft>>
  BY DEF Search
<1>3. TypeOK'  BY <1>1, <1>2 DEF TypeOK, Keys, Finding
<1>4. CopiesAccounted'
  <2> SUFFICES ASSUME NEW e \in Deliveries, Tracked(e)'
               PROVE  RowTells(e)' /\ SenderTells(e)' /\ FinderTells(e)'
    BY DEF CopiesAccounted
  <2>1. RowTells(e) /\ SenderTells(e)  BY <1>2 DEF CopiesAccounted, Tracked
  <2>2. RowTells(e)' /\ SenderTells(e)'
    BY <1>2, <2>1 DEF RowTells, SenderTells, Shelved
  <2>3. FinderTells(e)'  BY <1>1, <1>a, <1>2 DEF FinderTells
  <2> QED  BY <2>2, <2>3
<1>5. HandsRight'  BY <1>1, <1>a, <1>b, <1>2 DEF HandsRight
<1>6. ChartFailureAnnounced'
  <2>1. \A e : [phase |-> "notify", item |-> e] # finder  BY <1>2 DEF Idle
  <2> QED  BY <1>2, <2>1, AnnouncedStep
<1> QED  BY <1>2, <1>3, <1>4, <1>5, <1>6

(* What the finder's store call does to the rows.                           *)
LEMMA SettledFacts ==
    ASSUME ledger \in [Deliveries -> Row], NEW d \in Deliveries,
           NEW outcome \in Outcomes, NEW terminal \in BOOLEAN,
           terminal => outcome \in {"absent", "forgone"},
           outcome = "forgone" => terminal
    PROVE  LET new == Settled(d, outcome, terminal) IN
           /\ new \in [Deliveries -> Row]
           /\ ledger[d].state # "uncertain" => new = ledger
           /\ \A e \in Deliveries \ {d} :
                \/ new[e] = ledger[e]
                \/ /\ ledger[e].state = "failed" /\ new[e] = To(ledger[e], "replaced")
                   /\ draft[e].op = "file" /\ outcome = "found"
           /\ ledger[d].state = "uncertain" =>
                \/ /\ new[d] = To(ledger[d], "sent") /\ outcome = "found"
                   /\ new = Finished(ledger, d, "uncertain")
                \/ new[d].state = "retry" /\ outcome = "absent" /\ ~terminal
                \/ new[d].state = "uncertain" /\ outcome \in {"unknown", "barred"}
                \/ /\ new[d].state = "failed" /\ new[d].rowid = ledger[d].rowid
                   /\ outcome \in {"unwritable", "illegible"} \/ terminal
           /\ \A e \in Deliveries : new[e].rowid = ledger[e].rowid
<1> DEFINE new == Settled(d, outcome, terminal)
           write(r) == [ledger EXCEPT ![d] = r]
           barred == [Again(ledger[d], "uncertain", FALSE) EXCEPT !.barred = TRUE]
<1>0. ledger[d] \in Row  OBVIOUS
<1>1. \A r \in Row : /\ write(r) \in [Deliveries -> Row]
                     /\ write(r)[d] = r
                     /\ \A e \in Deliveries \ {d} : write(r)[e] = ledger[e]
  OBVIOUS
<1>2. \A state \in {"failed", "retry", "uncertain"}, due \in BOOLEAN :
        /\ Again(ledger[d], state, due) \in Row /\ Again(ledger[d], state, due).state = state
        /\ Again(ledger[d], state, due).rowid = ledger[d].rowid
  <2> SUFFICES ASSUME NEW state \in {"failed", "retry", "uncertain"}, NEW due \in BOOLEAN
               PROVE  /\ Again(ledger[d], state, due) \in Row
                      /\ Again(ledger[d], state, due).state = state
                      /\ Again(ledger[d], state, due).rowid = ledger[d].rowid
    OBVIOUS
  <2>1. state \in State  BY DEF State
  <2>2. Again(ledger[d], state, due).rowid = ledger[d].rowid  BY <1>0 DEF Again, Row
  <2> QED  BY <1>0, <2>1, <2>2, RowWrites
<1>3. barred \in Row /\ barred.state = "uncertain" /\ barred.rowid = ledger[d].rowid
  BY <1>2 DEF Row
<1>4. CASE ledger[d].state # "uncertain"
  <2>1. new = ledger  BY <1>4 DEF Settled
  <2> HIDE DEF new
  <2> QED  BY <1>4, <2>1 DEF new
<1>5. CASE ledger[d].state = "uncertain" /\ outcome = "found"
  <2>1. new = Finished(ledger, d, "uncertain")  BY <1>5 DEF Settled, Outcomes
  <2>2. new \in [Deliveries -> Row]
    <3>1. Finished(ledger, d, "uncertain") \in [Deliveries -> Row]  BY LedgerTypes
    <3> HIDE DEF new
    <3> QED  BY <2>1, <3>1
  <2>3. /\ new[d] = To(ledger[d], "sent")
        /\ \A e \in Deliveries \ {d} :
             \/ new[e] = ledger[e]
             \/ /\ ledger[e].state = "failed" /\ new[e] = To(ledger[e], "replaced")
                /\ draft[e].op = "file"
    <3> HIDE DEF new
    <3> QED  BY <1>5, <2>1 DEF Finished
  <2> HIDE DEF new
  <2>4. \A e \in Deliveries : new[e].rowid = ledger[e].rowid
    <3>1. \A r \in Row : To(r, "sent").rowid = r.rowid /\ To(r, "replaced").rowid = r.rowid
      BY DEF To, Row
    <3> QED  BY <2>3, <3>1
  <2> QED  BY <1>5, <2>1, <2>2, <2>3, <2>4 DEF new
<1>6. ASSUME NEW r \in Row, new = write(r), r.rowid = ledger[d].rowid,
             ledger[d].state = "uncertain",
             \/ r.state = "retry" /\ outcome = "absent" /\ ~terminal
             \/ r.state = "uncertain" /\ outcome \in {"unknown", "barred"}
             \/ /\ r.state = "failed"
                /\ outcome \in {"unwritable", "illegible"} \/ terminal
      PROVE  /\ new \in [Deliveries -> Row]
             /\ \A e \in Deliveries \ {d} : new[e] = ledger[e]
             /\ new[d] = r
             /\ \A e \in Deliveries : new[e].rowid = ledger[e].rowid
  <2> HIDE DEF new, write
  <2> QED  BY <1>1, <1>6
<1>7. CASE ledger[d].state = "uncertain" /\ outcome # "found"
  <2>1. \E r \in Row :
          /\ new = write(r) /\ r.rowid = ledger[d].rowid
          /\ \/ r.state = "retry" /\ outcome = "absent" /\ ~terminal
             \/ r.state = "uncertain" /\ outcome \in {"unknown", "barred"}
             \/ /\ r.state = "failed"
                /\ outcome \in {"unwritable", "illegible"} \/ terminal
    <3>1. CASE outcome \in {"unwritable", "illegible"} \/ terminal
      <4>1. new = write(Again(ledger[d], "failed", TRUE))  BY <1>7, <3>1 DEF Settled
      <4> HIDE DEF new, write
      <4> QED  BY <1>2, <3>1, <4>1
    <3>2. CASE outcome = "absent" /\ ~terminal
      <4>1. new = write(Again(ledger[d], "retry", FALSE))  BY <1>7, <3>2 DEF Settled
      <4> HIDE DEF new, write
      <4> QED  BY <1>2, <3>2, <4>1
    <3>3. CASE outcome = "unknown"
      <4>1. new = write(Again(ledger[d], "uncertain", FALSE))  BY <1>7, <3>3 DEF Settled
      <4> HIDE DEF new, write
      <4> QED  BY <1>2, <3>3, <4>1
    <3>4. CASE outcome = "barred"
      <4>1. new = write(barred)  BY <1>7, <3>4 DEF Settled
      <4> HIDE DEF new, write, barred
      <4> QED  BY <1>3, <3>4, <4>1
    <3> QED  BY <1>7, <3>1, <3>2, <3>3, <3>4 DEF Outcomes
  <2> HIDE DEF new, write
  <2> QED  BY <1>6, <1>7, <2>1 DEF new
<1> QED  BY <1>4, <1>5, <1>7

LEMMA SettleWrites ==
    ASSUME TypeOK, NEW stored \in BOOLEAN, Settle(stored)
    PROVE  LET d == finder.item IN
           /\ d \in Deliveries /\ finder.phase \in Outcomes
           /\ finder' \in {Idle, [phase |-> "notify", item |-> d]}
           /\ finder' = Idle \/ ledger[d].state = "uncertain"
           /\ \A e \in Deliveries :
                /\ ledger'[e].rowid = ledger[e].rowid
                /\ \/ ledger'[e] = ledger[e]
                   \/ /\ e = d /\ ledger[e].state = "uncertain"
                      /\ ledger'[e].state \in {"sent", "retry", "uncertain", "failed"}
                   \/ /\ ledger[e].state = "failed" /\ ledger'[e].state = "replaced"
                      /\ draft[e].op = "file"
<1> DEFINE d == finder.item
           outcome == finder.phase
           terminal == \/ outcome = "absent" /\ Exhausted(ledger[d].failures)
                       \/ outcome = "forgone"
           new == Settled(d, outcome, terminal)
<1>1. /\ ledger \in [Deliveries -> Row] /\ d \in Deliveries /\ outcome \in Outcomes
      /\ \A e \in Deliveries : /\ To(ledger[e], "sent").state = "sent"
                                /\ To(ledger[e], "replaced").state = "replaced"
  <2>1. /\ ledger \in [Deliveries -> Row] /\ outcome \in Outcomes
        /\ d \in Deliveries
    BY HandTypes DEF Settle, TypeOK, Outcomes
  <2> QED  BY <2>1, RowWrites DEF State
<1>2. ledger' \in {ledger, new} /\ finder' \in {Idle, [phase |-> "notify", item |-> d]}
      /\ (finder' = Idle \/ ledger[d].state = "uncertain")
  BY DEF Settle, GivenUp
<1>3. /\ terminal \in BOOLEAN
      /\ terminal => outcome \in {"absent", "forgone"}
      /\ outcome = "forgone" => terminal
  OBVIOUS
<1> HIDE DEF d, outcome, terminal, new
<1>4. \A e \in Deliveries :
        /\ new[e].rowid = ledger[e].rowid
        /\ \/ new[e] = ledger[e]
           \/ /\ e = d /\ ledger[e].state = "uncertain"
              /\ new[e].state \in {"sent", "retry", "uncertain", "failed"}
           \/ /\ ledger[e].state = "failed" /\ new[e].state = "replaced"
              /\ draft[e].op = "file"
  <2>1. /\ ledger[d].state # "uncertain" => new = ledger
        /\ \A e \in Deliveries \ {d} :
             \/ new[e] = ledger[e]
             \/ /\ ledger[e].state = "failed" /\ new[e] = To(ledger[e], "replaced")
                /\ draft[e].op = "file" /\ outcome = "found"
        /\ ledger[d].state = "uncertain" =>
             \/ /\ new[d] = To(ledger[d], "sent") /\ outcome = "found"
                /\ new = Finished(ledger, d, "uncertain")
             \/ new[d].state = "retry" /\ outcome = "absent" /\ ~terminal
             \/ new[d].state = "uncertain" /\ outcome \in {"unknown", "barred"}
             \/ /\ new[d].state = "failed" /\ new[d].rowid = ledger[d].rowid
                /\ outcome \in {"unwritable", "illegible"} \/ terminal
        /\ \A e \in Deliveries : new[e].rowid = ledger[e].rowid
    BY <1>1, <1>3, SettledFacts DEF new
  <2> QED  BY <1>1, <2>1
<1>5. \A e \in Deliveries :
        /\ ledger'[e].rowid = ledger[e].rowid
        /\ \/ ledger'[e] = ledger[e]
           \/ /\ e = d /\ ledger[e].state = "uncertain"
              /\ ledger'[e].state \in {"sent", "retry", "uncertain", "failed"}
           \/ /\ ledger[e].state = "failed" /\ ledger'[e].state = "replaced"
              /\ draft[e].op = "file"
  BY <1>2, <1>4
<1> QED  BY <1>1, <1>2, <1>5 DEF d, outcome

LEMMA SettleStep ==
    ASSUME IInv, NEW stored \in BOOLEAN, Settle(stored)
    PROVE  IInv'
<1> USE DEF IInv
<1> DEFINE d == finder.item
           outcome == finder.phase
           terminal == \/ outcome = "absent" /\ Exhausted(ledger[d].failures)
                       \/ outcome = "forgone"
           unseen == ledger[d].state = "uncertain" /\ outcome \in {"unwritable", "forgone"}
<1>1. /\ ledger \in [Deliveries -> Row]
      /\ outcome \in Outcomes
      /\ d \in Deliveries /\ finder \in Finding
      /\ UNCHANGED <<sender, overtaken, slack, cancelled, crashes, draft>>
  BY HandTypes DEF Settle, TypeOK, Outcomes
<1>2. Tracked(d) => /\ ledger[d].state = "uncertain"
                    /\ outcome = "found" => slack.copies[d] > 0
                    /\ outcome = "absent" => slack.copies[d] = 0
  BY <1>1 DEF CopiesAccounted, FinderTells
<1>3. /\ outcome = "unwritable" => draft[d].incident
      /\ outcome = "illegible" =>
           draft[d].op = "file" /\ ~draft[d].legible /\ slack.copies[d] = 0
      /\ outcome = "forgone" => draft[d].op = "file" /\ draft[d].legible
      /\ outcome = "absent" /\ draft[d].op = "file" => draft[d].legible
  BY <1>1 DEF HandsRight
<1>4. \/ /\ ledger' = ledger /\ finder' = Idle
         /\ UNCHANGED <<blind, hushed>>
      \/ /\ ledger' = Settled(d, outcome, terminal)
         /\ finder' = IF GivenUp(d, terminal, "uncertain")
                      THEN [phase |-> "notify", item |-> d] ELSE Idle
         /\ Unlooked(IF unseen THEN {d} ELSE {})
         /\ IF outcome \in {"unwritable", "illegible"} THEN Hush(d, "uncertain")
            ELSE UNCHANGED hushed
  BY DEF Settle
<1>5. terminal => outcome \in {"absent", "forgone"}  OBVIOUS
<1>6. LET new == Settled(d, outcome, terminal) IN
      /\ new \in [Deliveries -> Row]
      /\ ledger[d].state # "uncertain" => new = ledger
      /\ \A e \in Deliveries \ {d} :
           \/ new[e].state = ledger[e].state
           \/ /\ ledger[e].state = "failed" /\ new[e].state = "replaced"
              /\ draft[e].op = "file"
      /\ ledger[d].state = "uncertain" =>
           \/ new[d].state = "sent" /\ outcome = "found"
           \/ new[d].state = "retry" /\ outcome = "absent"
           \/ new[d].state = "uncertain"
           \/ /\ new[d].state = "failed"
              /\ outcome \in {"unwritable", "illegible"} \/ terminal
  <2>1. terminal \in BOOLEAN /\ (outcome = "forgone" => terminal)  OBVIOUS
  <2>2. \A e \in Deliveries : /\ To(ledger[e], "sent").state = "sent"
                              /\ To(ledger[e], "replaced").state = "replaced"
    BY <1>1, RowWrites DEF State
  <2> DEFINE new == Settled(d, outcome, terminal)
  <2> HIDE DEF d, outcome, terminal, new
  <2>3. /\ new \in [Deliveries -> Row]
        /\ ledger[d].state # "uncertain" => new = ledger
        /\ \A e \in Deliveries \ {d} :
             \/ new[e] = ledger[e]
             \/ /\ ledger[e].state = "failed" /\ new[e] = To(ledger[e], "replaced")
                /\ draft[e].op = "file" /\ outcome = "found"
        /\ ledger[d].state = "uncertain" =>
             \/ /\ new[d] = To(ledger[d], "sent") /\ outcome = "found"
                /\ new = Finished(ledger, d, "uncertain")
             \/ new[d].state = "retry" /\ outcome = "absent" /\ ~terminal
             \/ new[d].state = "uncertain" /\ outcome \in {"unknown", "barred"}
             \/ /\ new[d].state = "failed" /\ new[d].rowid = ledger[d].rowid
                /\ outcome \in {"unwritable", "illegible"} \/ terminal
    BY <1>1, <1>5, <2>1, SettledFacts DEF new
  <2> QED  BY <1>1, <2>2, <2>3 DEF new
<1>7. /\ blind \subseteq blind' /\ blind' \subseteq Deliveries
      /\ hushed \subseteq hushed' /\ hushed' \subseteq Deliveries
  BY <1>1, <1>4 DEF Unlooked, Hush, TypeOK
<1>8. \/ finder' = Idle
      \/ finder' = [phase |-> "notify", item |-> d] /\ draft[d].op = "file"
  <2>1. GivenUp(d, terminal, "uncertain") => draft[d].op = "file"  BY DEF GivenUp
  <2> HIDE DEF d, outcome, terminal, unseen
  <2> QED  BY <1>4, <2>1
<1> HIDE DEF d, outcome, terminal, unseen
<1>9. /\ ledger' \in [Deliveries -> Row]
      /\ \A e \in Deliveries \ {d} :
           \/ ledger'[e].state = ledger[e].state
           \/ /\ ledger[e].state = "failed" /\ ledger'[e].state = "replaced"
              /\ draft[e].op = "file"
      /\ \/ ledger'[d].state = ledger[d].state
         \/ /\ ledger[d].state = "uncertain"
            /\ \/ ledger'[d].state = "sent" /\ outcome = "found"
               \/ ledger'[d].state = "retry" /\ outcome = "absent"
               \/ ledger'[d].state = "failed"
  BY <1>1, <1>4, <1>6
<1>10. TypeOK'  BY <1>1, <1>7, <1>8, <1>9 DEF TypeOK, Keys, Finding
<1>11. CopiesAccounted'
  <2> SUFFICES ASSUME NEW e \in Deliveries, Tracked(e)'
               PROVE  RowTells(e)' /\ SenderTells(e)' /\ FinderTells(e)'
    BY DEF CopiesAccounted
  <2>1. Tracked(e) /\ RowTells(e) /\ SenderTells(e)
    BY <1>1, <1>7 DEF CopiesAccounted, Tracked
  <2>2. FinderTells(e)'
    <3>1. finder'.phase \in {"idle", "notify"}  BY <1>8 DEF Idle
    <3> QED  BY <3>1 DEF FinderTells, Outcomes
  <2>3. CASE e = d
    <3>1. ledger[d].state = "uncertain" /\ ledger'[d].state = "failed" =>
            (draft[d].op = "file" \/ ~draft[d].incident => slack.copies[d] = 0)
      <4>1. SUFFICES ASSUME ledger[d].state = "uncertain", ledger'[d].state = "failed",
                            draft[d].op = "file" \/ ~draft[d].incident
                     PROVE  slack.copies[d] = 0
        OBVIOUS
      <4>2. /\ ledger' = Settled(d, outcome, terminal)
            /\ Unlooked(IF unseen THEN {d} ELSE {})
        BY <1>4, <4>1
      <4>3. outcome \in {"unwritable", "illegible"} \/ terminal  BY <1>6, <4>1, <4>2
      <4>4. CASE outcome \in {"unwritable", "forgone"}
        <5>1. draft[d].op = "file" /\ unseen  BY <1>3, <4>1, <4>4 DEF unseen
        <5>2. slack.copies[d] > 0 => d \in blind'  BY <4>2, <5>1 DEF Unlooked
        <5> QED  BY <1>1, <2>3, <5>1, <5>2 DEF Tracked, TypeOK
      <4>5. CASE outcome = "illegible"  BY <1>3, <4>5
      <4>6. CASE outcome = "absent"  BY <1>2, <2>1, <2>3, <4>6
      <4> QED  BY <1>5, <4>3, <4>4, <4>5, <4>6
    <3> QED  BY <1>1, <1>2, <1>9, <2>1, <2>2, <2>3, <3>1 DEF RowTells, SenderTells, Shelved
  <2>4. CASE e # d
    BY <1>1, <1>9, <2>1, <2>2, <2>4 DEF RowTells, SenderTells, Shelved
  <2> QED  BY <2>3, <2>4
<1>12. HandsRight'
  <2>1. /\ finder'.phase \in {"idle", "notify"}
        /\ finder'.phase = "notify" => draft[finder'.item].op = "file"
    BY <1>8 DEF Idle
  <2> QED  BY <1>1, <2>1 DEF HandsRight
<1>13. ChartFailureAnnounced'
  <2>1. \A e : [phase |-> "notify", item |-> e] # finder
    <3>1. finder.phase # "notify"  BY <1>1 DEF Outcomes, outcome
    <3> QED  BY <3>1
  <2>2. draft[d].op = "file" /\ ledger[d].state = "uncertain" /\ ledger'[d].state = "failed" =>
          d \in hushed' \/ [phase |-> "notify", item |-> d] = finder'
    <3>1. SUFFICES ASSUME draft[d].op = "file", ledger[d].state = "uncertain",
                          ledger'[d].state = "failed"
                   PROVE  d \in hushed' \/ [phase |-> "notify", item |-> d] = finder'
      OBVIOUS
    <3>2. /\ ledger' = Settled(d, outcome, terminal)
          /\ finder' = IF GivenUp(d, terminal, "uncertain")
                       THEN [phase |-> "notify", item |-> d] ELSE Idle
          /\ outcome \in {"unwritable", "illegible"} => Hush(d, "uncertain")
      BY <1>4, <3>1
    <3>3. outcome \in {"unwritable", "illegible"} \/ terminal  BY <1>6, <3>1, <3>2
    <3>4. CASE outcome \in {"unwritable", "illegible"}
      BY <3>1, <3>2, <3>4 DEF Hush
    <3>5. CASE terminal
      <4>1. draft[d].legible  BY <1>3, <1>5, <3>1, <3>5
      <4> QED  BY <3>1, <3>2, <3>5, <4>1 DEF GivenUp
    <3> QED  BY <3>3, <3>4, <3>5
  <2>3. \A e \in Files \ hushed' : ledger'[e].state = "failed" =>
          \/ ledger[e].state = "failed" /\ e \notin hushed
          \/ [phase |-> "notify", item |-> e] \in {sender', finder'}
    BY <1>1, <1>7, <1>9, <2>2 DEF Files
  <2>4. \A e \in Deliveries : ledger'[e].state = "absent" => ledger[e].state = "absent"
    BY <1>9
  <2> HIDE DEF IInv
  <2> QED  BY <1>1, <2>1, <2>3, <2>4, AnnouncedStep
<1> QED  BY <1>1, <1>10, <1>11, <1>12, <1>13

LEMMA RestartStep ==
    ASSUME IInv, Restart
    PROVE  IInv'
<1> USE DEF IInv
<1>1. PICK D \in SUBSET {d \in Deliveries : draft[d].op \in Revivable /\ ledger[d].state = "failed"} :
        /\ ledger' = Recovered(Revived(ledger, D))
        /\ hushed' = (hushed \cup Unannounced) \ D
  BY DEF Restart
<1>2. /\ crashes < MaxCrashes /\ crashes' = crashes + 1
      /\ sender' = Idle /\ finder' = Idle
      /\ UNCHANGED <<overtaken, slack, cancelled, draft>>
      /\ Unlooked({d \in Deliveries : ledger[d].state = "sending"})
      /\ ledger \in [Deliveries -> Row] /\ crashes \in 0..MaxCrashes
  BY DEF Restart, TypeOK
<1> DEFINE rows == Revived(ledger, D)
<1>3. /\ rows \in [Deliveries -> Row]
      /\ \A d \in Deliveries :
           \/ rows[d] = ledger[d] /\ d \notin D
           \/ /\ ledger[d].state = "failed"
              /\ rows[d].state = IF draft[d].op = "post" THEN "uncertain" ELSE "retry"
  <2>1. \A d \in Deliveries, s \in {"uncertain", "retry"} :
          Afresh(ledger[d], s) \in Row /\ Afresh(ledger[d], s).state = s
    BY <1>2, RowWrites DEF State
  <2> QED  BY <1>2, <2>1 DEF Revived
<1> HIDE DEF rows
<1>4. /\ ledger' \in [Deliveries -> Row]
      /\ \A d \in Deliveries :
           \/ ledger'[d] = rows[d] /\ rows[d].state # "sending"
           \/ /\ rows[d].state = "sending"
              /\ ledger'[d].state = IF draft[d].op = "post" THEN "uncertain" ELSE "retry"
  <2>1. \A d \in Deliveries, s \in {"uncertain", "retry"} : DueAs(rows[d], s).state = s
    BY <1>3, RowWrites DEF State
  <2>2. ledger' = Recovered(rows)  BY <1>1 DEF rows
  <2>3. ledger' \in [Deliveries -> Row]  BY <1>3, <2>2, LedgerTypes DEF Recovered
  <2> QED  BY <2>1, <2>2, <2>3 DEF Recovered
<1>a. /\ blind \subseteq blind' /\ blind' \cup hushed' \subseteq Deliveries
      /\ \A d \in Deliveries :
           ledger[d].state = "sending" /\ draft[d].op = "file" /\ slack.copies[d] > 0 => d \in blind'
  BY <1>1, <1>2 DEF Unlooked, Unannounced, TypeOK
<1>5. TypeOK'  BY <1>2, <1>4, <1>a, ConfigAssumption DEF TypeOK, Keys
<1>6. CopiesAccounted'
  <2> SUFFICES ASSUME NEW d \in Deliveries, Tracked(d)'
               PROVE  RowTells(d)' /\ SenderTells(d)' /\ FinderTells(d)'
    BY DEF CopiesAccounted
  <2>1. Tracked(d)  BY <1>2, <1>a DEF Tracked
  <2>2. RowTells(d)  BY <2>1 DEF CopiesAccounted
  <2>3. CASE draft[d].op = "post"
    <3>1. ledger'[d].state = ledger[d].state \/ ledger'[d].state = "uncertain"
      BY <1>3, <1>4, <2>3
    <3> QED  BY <1>2, <2>2, <2>3, <3>1 DEF RowTells, SenderTells, FinderTells, Shelved, Idle, Outcomes
  <2>4. CASE draft[d].op = "file"
    <3>1. \/ ledger'[d].state = ledger[d].state
          \/ ledger[d].state = "failed" /\ ledger'[d].state = "retry"
          \/ ledger[d].state = "sending" /\ ledger'[d].state = "retry"
      BY <1>3, <1>4, <2>4
    <3>2. ledger[d].state = "sending" => slack.copies[d] = 0
      BY <1>2, <1>a, <2>4 DEF Tracked, TypeOK
    <3> QED
      BY <1>2, <2>2, <2>4, <3>1, <3>2 DEF RowTells, SenderTells, FinderTells, Shelved, Idle, Outcomes
  <2> QED  BY <2>1, <2>3, <2>4 DEF Tracked
<1>7. HandsRight'  BY <1>2 DEF HandsRight, Idle
<1>8. ChartFailureAnnounced'
  <2>1. \A d \in Deliveries : ledger'[d].state = "failed" => ledger[d].state = "failed" /\ d \notin D
    BY <1>3, <1>4
  <2>2. \A d \in Files : d \in Deliveries  BY DEF Files
  <2>3. \A d \in Files \ hushed' : ledger'[d].state = "failed" =>
          ledger[d].state = "failed" /\ d \notin hushed
    BY <1>1, <2>1, <2>2
  <2>4. \A d \in Files : [phase |-> "notify", item |-> d] \in {sender, finder} =>
          d \in hushed' \/ ledger'[d].state # "failed"
    BY <1>1, <2>1, <2>2 DEF Unannounced
  <2>5. \A d \in Deliveries : ledger'[d].state = "absent" => ledger[d].state = "absent"
    BY <1>3, <1>4
  <2> HIDE DEF IInv
  <2> QED  BY <1>2, <2>3, <2>4, <2>5, AnnouncedStep
<1> QED  BY <1>2, <1>5, <1>6, <1>7, <1>8
-----------------------------------------------------------------------------
LEMMA InitInv == Init => IInv
<1> SUFFICES ASSUME Init PROVE IInv  OBVIOUS
<1>0. Cardinality(Deliveries) \in Nat  BY ConfigAssumption, FS_CardinalityType
<1>1. Absent \in Row /\ Absent.state = "absent"
  BY <1>0, ConfigAssumption DEF Absent, Row, State
<1>2. TypeOK
  <2>1. ledger \in [Deliveries -> Row]  BY <1>1 DEF Init
  <2>2. slack \in [copies : [Deliveries -> 0..2], shows : [Keys -> Deliveries \cup {None}]]
    BY DEF Init
  <2> QED  BY <2>1, <2>2, ConfigAssumption DEF Init, TypeOK
<1>3. \A d \in Deliveries : ledger[d].state = "absent" /\ slack.copies[d] = 0
  BY <1>1 DEF Init
<1>4. sender.phase = "idle" /\ finder.phase = "idle"  BY DEF Init, Idle
<1>5. CopiesAccounted
  BY <1>3, <1>4 DEF CopiesAccounted, RowTells, SenderTells, FinderTells, Outcomes
<1>6. HandsRight  BY <1>3, <1>4 DEF HandsRight
<1>7. ChartFailureAnnounced  BY <1>3 DEF ChartFailureAnnounced, Files
<1> QED  BY <1>2, <1>5, <1>6, <1>7 DEF IInv, Init

LEMMA NextInv == IInv /\ [Next]_vars => IInv'
<1> SUFFICES ASSUME IInv, [Next]_vars PROVE IInv'  OBVIOUS
<1>1. CASE Send
  <2>1. ASSUME NEW cooling \in SUBSET Channels, Lease(cooling) PROVE IInv'
    BY <2>1, LeaseStep
  <2>2. ASSUME NEW verdict \in Verdicts, Check(verdict) PROVE IInv'  BY <2>2, CheckStep
  <2>3. ASSUME NEW accepted \in BOOLEAN, NEW answer \in {"ok", "error", "refused"},
               Call(accepted, answer)
        PROVE  IInv'
    BY <2>3, CallStep
  <2>4. ASSUME NEW stored \in {"done", "unconfirmed", "lost"}, Record(stored) PROVE IInv'
    BY <2>4, RecordStep
  <2> QED  BY <1>1, <2>1, <2>2, <2>3, <2>4 DEF Send
<1>2. CASE Reconcile
  <2>1. ASSUME NEW outcome \in Outcomes, Search(outcome) PROVE IInv'
    BY <2>1, SearchStep
  <2>2. ASSUME NEW stored \in BOOLEAN, Settle(stored) PROVE IInv'  BY <2>2, SettleStep
  <2> QED  BY <1>2, <2>1, <2>2 DEF Reconcile
<1>3. ASSUME NEW d \in Deliveries, Enqueue(d) PROVE IInv'  BY <1>3, EnqueueStep
<1>4. ASSUME NEW d \in Deliveries, Elapse(d) PROVE IInv'  BY <1>4, ElapseStep
<1>5. ASSUME NEW s \in Sources, Overtake(s) PROVE IInv'  BY <1>5, OvertakeStep
<1>6. ASSUME NEW s \in Sources, CancelReplay(s) PROVE IInv'  BY <1>6, CancelStep
<1>7. CASE UNCHANGED vars
  <2>1. UNCHANGED <<draft, ledger, sender, finder, overtaken, slack, cancelled, blind, hushed, crashes>>
    BY <1>7 DEF vars
  <2>2. TypeOK'  BY <2>1 DEF IInv, TypeOK, Keys
  <2>3. CopiesAccounted'
    BY <2>1 DEF IInv, CopiesAccounted, Tracked, RowTells, SenderTells, FinderTells, Shelved
  <2>4. HandsRight'  BY <2>1 DEF IInv, HandsRight
  <2>5. ChartFailureAnnounced'  BY <2>1 DEF IInv, ChartFailureAnnounced, Files
  <2> QED  BY <2>1, <2>2, <2>3, <2>4, <2>5 DEF IInv
<1>8. ASSUME NEW stored \in BOOLEAN, Announce(stored) PROVE IInv'  BY <1>8, AnnounceStep
<1> QED
  BY <1>1, <1>2, <1>3, <1>4, <1>5, <1>6, <1>7, <1>8, RetryVisualStep, RestartStep
  DEF Next

LEMMA Invariance == Spec => []IInv
BY InitInv, NextInv, PTL DEF Spec
-----------------------------------------------------------------------------
(* Every row, hand and Slack surface stays of its kind, whatever callers    *)
(* enqueue and however the two drains, people and restarts interleave.      *)
THEOREM Typing == Spec => []TypeOK
<1>1. IInv => TypeOK  BY DEF IInv
<1> QED  BY <1>1, Invariance, PTL

(* No post appears in Slack twice, and of the charts only those that one of *)
(* the four blind writes gave up or put back while Slack had them: for any  *)
(* deliveries, attempt limit and number of restarts.                        *)
THEOREM NoDoublePost == Spec => []PostedOnce
<1>1. IInv => PostedOnce
  <2> SUFFICES ASSUME IInv PROVE PostedOnce  OBVIOUS
  <2>1. \A d \in Deliveries : Tracked(d) => slack.copies[d] <= 1
    BY DEF IInv, CopiesAccounted, RowTells
  <2> QED  BY <2>1 DEF PostedOnce, Posts, Files, Tracked
<1> QED  BY <1>1, Invariance, PTL

(* A post that is recorded as sent is in Slack, and one that is queued,     *)
(* withdrawn or failed is not.                                              *)
THEOREM TruthfulLedger == Spec => []LedgerTruthful
<1>1. IInv => LedgerTruthful
  <2> SUFFICES ASSUME IInv PROVE LedgerTruthful  OBVIOUS
  <2>1. \A d \in Posts \ cancelled : RowTells(d)
    BY DEF IInv, CopiesAccounted, Tracked, Posts
  <2>2. \A d \in Deliveries : Withheld(d) => Shelved(d, ledger[d].state)
    BY DEF Withheld, Queued, In, Shelved
  <2> QED  BY <2>1, <2>2 DEF LedgerTruthful, RowTells, Posts
<1> QED  BY <1>1, Invariance, PTL

(* A chart is never given up in silence, through any number of restarts,    *)
(* but by the writes that announce nothing and with a notice that is lost.  *)
THEOREM FailedChartAnnounced == Spec => []ChartFailureAnnounced
<1>1. IInv => ChartFailureAnnounced  BY DEF IInv
<1> QED  BY <1>1, Invariance, PTL
-----------------------------------------------------------------------------
(* Texts whose place in their answer is accounted for.                      *)
Texts == Posts \ (FailureNotices \cup cancelled)

(* What is enqueued of an answer has all before it enqueued, ...            *)
EnqueuedInOrder ==
    \A d \in Deliveries, e \in Deliveries \ FailureNotices :
        Before(e, d) /\ ledger[d].state # "absent" => ledger[e].state # "absent"

AnnouncedKnown ==
    \A hand \in {sender, finder} : hand.phase = "notify" => ledger[hand.item].state # "absent"

(* ... a text is withdrawn for a human turn, an earlier answer or its key,  *)
(* and nothing takes its place, ...                                         *)
WithdrawnFor(d) ==
    draft[d].source \in overtaken \/ draft[d].thread # None \/ draft[d].key # None

WithdrawnRightly ==
    \A d \in Texts : /\ ledger[d].state # "replaced"
                     /\ ledger[d].state = "superseded" => WithdrawnFor(d)

(* ... and what the sender has in hand has every text before it sent.       *)
InTurn ==
    \A d \in Deliveries, e \in Texts :
        Before(e, d) /\ sender.phase \in {"leased", "calling"} /\ sender.item = d
            => ledger[e].state = "sent"

OrderInv == IInv /\ EnqueuedInOrder /\ AnnouncedKnown /\ WithdrawnRightly /\ InTurn

(* What every step does to the rows of texts.                               *)
RowsKept ==
    \A d \in Deliveries :
        /\ ledger[d].state # "absent" => ledger'[d].state # "absent"
        /\ ledger[d].state = "sent" => ledger'[d].state = "sent"
        /\ d \in Texts' =>
             /\ ledger'[d].state = "replaced" => ledger[d].state = "replaced"
             /\ ledger'[d].state = "superseded" =>
                  ledger[d].state = "superseded" \/ WithdrawnFor(d)'

LEMMA OrderedRows ==
    ASSUME OrderInv, draft' = draft, cancelled \subseteq cancelled', overtaken \subseteq overtaken',
           RowsKept
    PROVE  /\ WithdrawnRightly'
           /\ \A d \in Deliveries, e \in Texts' :
                /\ Before(e, d)' <=> Before(e, d)
                /\ ledger[e].state = "sent" => ledger'[e].state = "sent"
           /\ Texts' \subseteq Texts
           /\ (\A d \in Deliveries : ledger[d].state = "absent" => ledger'[d].state = "absent")
                => EnqueuedInOrder'
<1>1. Texts' \subseteq Texts /\ Texts \subseteq Deliveries  BY DEF Texts, Posts, FailureNotices
<1>2. \A d, e : Before(e, d)' <=> Before(e, d)  BY DEF Before
<1>3. WithdrawnRightly'
  BY <1>1 DEF OrderInv, WithdrawnRightly, WithdrawnFor, RowsKept
<1>4. FailureNotices' = FailureNotices  BY DEF FailureNotices
<1>5. (\A d \in Deliveries : ledger[d].state = "absent" => ledger'[d].state = "absent")
        => EnqueuedInOrder'
  BY <1>2, <1>4 DEF OrderInv, EnqueuedInOrder, RowsKept
<1> QED  BY <1>1, <1>2, <1>3, <1>5 DEF RowsKept

(* Steps after which the sender has nothing new in hand.                    *)
LEMMA InTurnStep ==
    ASSUME OrderInv, draft' = draft, cancelled \subseteq cancelled', overtaken \subseteq overtaken',
           RowsKept,
           sender'.phase \in {"leased", "calling"} =>
             sender.phase \in {"leased", "calling"} /\ sender'.item = sender.item
    PROVE  InTurn'
<1>1. /\ Texts' \subseteq Texts
      /\ \A d \in Deliveries, e \in Texts' :
           /\ Before(e, d)' <=> Before(e, d)
           /\ ledger[e].state = "sent" => ledger'[e].state = "sent"
  BY OrderedRows
<1> QED  BY <1>1 DEF OrderInv, InTurn

(* Steps that enqueue nothing, and give nothing new to the drains.          *)
LEMMA QuietStep ==
    ASSUME OrderInv, IInv', draft' = draft, cancelled \subseteq cancelled',
           overtaken \subseteq overtaken', RowsKept,
           \A d \in Deliveries : ledger[d].state = "absent" => ledger'[d].state = "absent",
           sender' \in {sender, Idle}, finder' \in {finder, Idle}
    PROVE  OrderInv'
<1>1. Idle.phase = "idle"  BY DEF Idle
<1>2. WithdrawnRightly' /\ EnqueuedInOrder'  BY OrderedRows
<1>3. InTurn'  BY <1>1, InTurnStep
<1>4. AnnouncedKnown'
  <2>1. TypeOK  BY DEF OrderInv, IInv
  <2>2. \A hand \in {sender, finder} : hand.phase = "notify" => hand.item \in Deliveries
    BY <2>1, HandTypes DEF Idle
  <2> QED  BY <1>1, <2>2 DEF OrderInv, AnnouncedKnown, RowsKept
<1> QED  BY <1>2, <1>3, <1>4 DEF OrderInv
-----------------------------------------------------------------------------
(* An enqueued delivery is the only row that is new, and what it supersedes *)
(* has its key.                                                             *)
LEMMA InsertedRows ==
    ASSUME NEW rows \in [Deliveries -> Row], NEW d \in Deliveries
    PROVE  \A e \in Deliveries :
             \/ Inserted(rows, d)[e].state = rows[e].state
             \/ e = d /\ rows[e].state = "absent" /\ Inserted(rows, d)[e].state = "pending"
             \/ /\ rows[e].state \in {"pending", "retry"} /\ draft[e].key # None
                /\ Inserted(rows, d)[e].state = "superseded"
<1>0. \A e \in Deliveries : rows[e] \in Row  OBVIOUS
<1> DEFINE n == 1 + Cardinality({f \in Deliveries : rows[f].state # "absent"})
           fresh == Fresh(n)
<1>1. \/ Inserted(rows, d) = rows
      \/ /\ rows[d].state = "absent"
         /\ Inserted(rows, d) = [e \in Deliveries |->
              CASE e = d -> fresh
                [] Coalesced(rows, d, e) -> To(rows[e], "superseded")
                [] OTHER -> rows[e]]
  BY <1>0 DEF Inserted, In, Row
<1>2. fresh.state = "pending"  BY DEF Fresh
<1> HIDE DEF n, fresh
<1>3. \A e \in Deliveries :
        Coalesced(rows, d, e) => rows[e].state \in {"pending", "retry"} /\ draft[e].key # None
  BY DEF Coalesced, Queued, In, SameKey
<1>4. \A e \in Deliveries : To(rows[e], "superseded").state = "superseded"
  BY <1>0, RowWrites DEF State
<1> QED  BY <1>1, <1>2, <1>3, <1>4

(* Enqueueing keeps the order of what is enqueued when all that precedes    *)
(* the delivery is known.                                                   *)
LEMMA InsertedOrder ==
    ASSUME OrderInv, NEW d \in Deliveries, ledger' = Inserted(ledger, d),
           UNCHANGED <<draft, cancelled, overtaken>>,
           \A e \in Deliveries \ FailureNotices : Before(e, d) => ledger[e].state # "absent"
    PROVE  RowsKept /\ EnqueuedInOrder' /\ WithdrawnRightly'
<1>1. \A e \in Deliveries :
        \/ ledger'[e].state = ledger[e].state
        \/ e = d /\ ledger[e].state = "absent" /\ ledger'[e].state = "pending"
        \/ /\ ledger[e].state \in {"pending", "retry"} /\ draft[e].key # None
           /\ ledger'[e].state = "superseded"
  <2>1. ledger \in [Deliveries -> Row]  BY DEF OrderInv, IInv, TypeOK
  <2> QED  BY <2>1, InsertedRows
<1>2. RowsKept  BY <1>1 DEF RowsKept, WithdrawnFor
<1>3. \A e, f : Before(e, f)' <=> Before(e, f)  BY DEF Before
<1>4. FailureNotices' = FailureNotices  BY DEF FailureNotices
<1>5. EnqueuedInOrder'  BY <1>1, <1>3, <1>4 DEF OrderInv, EnqueuedInOrder
<1> QED  BY <1>2, <1>5, OrderedRows

LEMMA EnqueueOrder ==
    ASSUME OrderInv, NEW d \in Deliveries, Enqueue(d)
    PROVE  OrderInv'
<1>1. /\ ledger' = Inserted(ledger, d)
      /\ \A e \in Deliveries \ FailureNotices : Before(e, d) => ledger[e].state # "absent"
      /\ UNCHANGED <<sender, finder, overtaken, cancelled, draft>>
  BY DEF Enqueue, history
<1>2. IInv'  BY EnqueueStep DEF OrderInv
<1>3. RowsKept /\ EnqueuedInOrder' /\ WithdrawnRightly'  BY <1>1, InsertedOrder
<1>4. InTurn'  BY <1>1, <1>3, InTurnStep
<1>5. AnnouncedKnown'
  <2>1. TypeOK  BY DEF OrderInv, IInv
  <2>2. \A hand \in {sender, finder} : hand.phase = "notify" => hand.item \in Deliveries
    BY <2>1, HandTypes DEF Idle
  <2> QED  BY <1>1, <1>3, <2>2 DEF OrderInv, AnnouncedKnown, RowsKept
<1> QED  BY <1>2, <1>3, <1>4, <1>5 DEF OrderInv

LEMMA OvertakeOrder ==
    ASSUME OrderInv, NEW s \in Sources, Overtake(s)
    PROVE  OrderInv'
<1>1. /\ overtaken' = overtaken \cup {s}
      /\ UNCHANGED <<ledger, sender, finder, cancelled, draft>>
  BY DEF Overtake, history
<1>2. IInv'  BY OvertakeStep DEF OrderInv
<1>3. RowsKept  BY <1>1 DEF RowsKept
<1> QED  BY <1>1, <1>2, <1>3, QuietStep

LEMMA ElapseOrder ==
    ASSUME OrderInv, NEW d \in Deliveries, Elapse(d)
    PROVE  OrderInv'
<1>1. /\ ledger \in [Deliveries -> Row]
      /\ ledger' = [ledger EXCEPT ![d] = DueAs(ledger[d], ledger[d].state)]
      /\ UNCHANGED <<sender, finder, overtaken, cancelled, draft>>
  BY DEF Elapse, history, OrderInv, IInv, TypeOK
<1>2. DueAs(ledger[d], ledger[d].state).state = ledger[d].state
  <2>1. ledger[d] \in Row /\ ledger[d].state \in State  BY <1>1 DEF Row
  <2> QED  BY <2>1, RowWrites
<1>3. \A e \in Deliveries : ledger'[e].state = ledger[e].state  BY <1>1, <1>2
<1>4. IInv'  BY ElapseStep DEF OrderInv
<1>5. RowsKept  BY <1>3 DEF RowsKept
<1> QED  BY <1>1, <1>3, <1>4, <1>5, QuietStep

(* What a cancelled replay withdraws is no longer accounted for.            *)
LEMMA CancelOrder ==
    ASSUME OrderInv, NEW s \in Sources, CancelReplay(s)
    PROVE  OrderInv'
<1>1. /\ ledger \in [Deliveries -> Row]
      /\ UNCHANGED <<sender, finder, overtaken, draft>>
      /\ cancelled' = cancelled \cup {d \in Deliveries : draft[d].source = s
                                                       /\ ledger[d].state # "absent"}
  BY DEF CancelReplay, history, OrderInv, IInv, TypeOK
<1>2. \A d \in Deliveries :
        \/ ledger'[d] = ledger[d]
        \/ /\ ledger[d].state \in {"pending", "retry"} /\ draft[d].source = s
           /\ ledger'[d] = To(ledger[d], "superseded")
        \/ /\ ledger[d].state = "sending" /\ draft[d].source = s
           /\ ledger'[d] = To(ledger[d], "uncertain")
  BY <1>1 DEF CancelReplay, Queued, In
<1>3. \A d \in Deliveries :
        \/ ledger'[d].state = ledger[d].state
        \/ /\ ledger[d].state \in {"pending", "retry"} /\ d \in cancelled'
           /\ ledger'[d].state = "superseded"
        \/ ledger[d].state = "sending" /\ ledger'[d].state = "uncertain"
  <2>1. \A d \in Deliveries : /\ To(ledger[d], "superseded").state = "superseded"
                             /\ To(ledger[d], "uncertain").state = "uncertain"
    BY <1>1, RowWrites DEF State
  <2> QED  BY <1>1, <1>2, <2>1
<1>4. IInv'  BY CancelStep DEF OrderInv
<1>5. RowsKept  BY <1>3 DEF RowsKept, Texts
<1> QED  BY <1>1, <1>3, <1>4, <1>5, QuietStep

LEMMA RetryVisualOrder ==
    ASSUME OrderInv, RetryVisual
    PROVE  OrderInv'
<1>1. PICK e \in Deliveries :
        /\ ledger[e].state \in {"pending", "retry", "failed", "replaced"}
        /\ ledger' = [ledger EXCEPT ![e] = Afresh(ledger[e], "retry")]
        /\ UNCHANGED <<sender, finder, overtaken, cancelled, draft>>
  BY DEF RetryVisual, history, In
<1>2. ledger \in [Deliveries -> Row]  BY DEF OrderInv, IInv, TypeOK
<1>3. /\ ledger'[e].state = "retry"
      /\ \A d \in Deliveries \ {e} : ledger'[d].state = ledger[d].state
  BY <1>1, <1>2, RowWrites DEF State
<1>4. IInv'  BY RetryVisualStep DEF OrderInv
<1>5. RowsKept  BY <1>1, <1>3 DEF RowsKept
<1> QED  BY <1>1, <1>3, <1>4, <1>5, QuietStep

LEMMA RestartOrder ==
    ASSUME OrderInv, Restart
    PROVE  OrderInv'
<1>1. PICK D \in SUBSET {d \in Deliveries : draft[d].op \in Revivable /\ ledger[d].state = "failed"} :
        ledger' = Recovered(Revived(ledger, D))
  BY DEF Restart, history
<1>2. /\ sender' = Idle /\ finder' = Idle
      /\ UNCHANGED <<overtaken, cancelled, draft>>
      /\ ledger \in [Deliveries -> Row]
  BY DEF Restart, history, OrderInv, IInv, TypeOK
<1> DEFINE rows == Revived(ledger, D)
<1>3. /\ rows \in [Deliveries -> Row]
      /\ \A d \in Deliveries :
           \/ rows[d] = ledger[d]
           \/ ledger[d].state = "failed" /\ rows[d].state \in {"uncertain", "retry"}
  <2>1. \A d \in Deliveries, s \in {"uncertain", "retry"} :
          Afresh(ledger[d], s) \in Row /\ Afresh(ledger[d], s).state = s
    BY <1>2, RowWrites DEF State
  <2> QED  BY <1>2, <2>1 DEF Revived
<1> HIDE DEF rows
<1>4. \A d \in Deliveries :
        \/ ledger'[d] = rows[d]
        \/ rows[d].state = "sending" /\ ledger'[d].state \in {"uncertain", "retry"}
  <2>1. \A d \in Deliveries, s \in {"uncertain", "retry"} : DueAs(rows[d], s).state = s
    BY <1>3, RowWrites DEF State
  <2>2. ledger' = Recovered(rows)  BY <1>1 DEF rows
  <2> QED  BY <2>1, <2>2 DEF Recovered
<1>5. \A d \in Deliveries :
        \/ ledger'[d].state = ledger[d].state
        \/ ledger[d].state \in {"failed", "sending"} /\ ledger'[d].state \in {"uncertain", "retry"}
  BY <1>3, <1>4
<1>6. IInv'  BY RestartStep DEF OrderInv
<1>7. RowsKept  BY <1>5 DEF RowsKept
<1> QED  BY <1>2, <1>5, <1>6, <1>7, QuietStep
-----------------------------------------------------------------------------
(* What the drains hold after a step that takes no row in hand and, at most, *)
(* starts the call for the one they had or announces a known chart.         *)
LEMMA DrainStep ==
    ASSUME OrderInv, IInv', UNCHANGED <<draft, cancelled, overtaken>>, RowsKept,
           \A d \in Deliveries : ledger[d].state = "absent" => ledger'[d].state = "absent",
           \/ sender'.phase \notin {"leased", "calling"}
           \/ sender.phase \in {"leased", "calling"} /\ sender'.item = sender.item,
           \A hand \in {sender', finder'} : hand.phase = "notify" =>
             \/ hand \in {sender, finder}
             \/ hand.item \in Deliveries /\ ledger[hand.item].state # "absent"
    PROVE  OrderInv'
<1>1. WithdrawnRightly' /\ EnqueuedInOrder'  BY OrderedRows
<1>2. InTurn'  BY InTurnStep
<1>3. AnnouncedKnown'
  <2>1. TypeOK  BY DEF OrderInv, IInv
  <2>2. \A hand \in {sender, finder} : hand.phase = "notify" => hand.item \in Deliveries
    BY <2>1, HandTypes DEF Idle
  <2> QED  BY <2>2 DEF OrderInv, AnnouncedKnown, RowsKept
<1> QED  BY <1>1, <1>2, <1>3 DEF OrderInv

PutBack(rows, new) ==
    \A e \in Deliveries :
        \/ new[e].state = rows[e].state
        \/ rows[e].state = "sending" /\ new[e].state \in {"uncertain", "failed", "retry"}
        \/ rows[e].state = "sending" /\ new[e].state = "superseded" /\ draft[e].op = "reaction"

LEMMA RetriedRows ==
    ASSUME NEW rows \in [Deliveries -> Row], NEW d \in Deliveries,
           NEW outcome \in {"uncertain", "failed", "retry"}
    PROVE  /\ PutBack(rows, RetriedTo(rows, d, outcome, TRUE))
           /\ PutBack(rows, RetriedTo(rows, d, outcome, FALSE))
<1>1. outcome \in State  BY DEF State
<1>2. ASSUME NEW new,
             new = RetriedTo(rows, d, outcome, TRUE) \/ new = RetriedTo(rows, d, outcome, FALSE)
      PROVE  PutBack(rows, new)
  <2>1. /\ \A e \in Deliveries : e # d \/ rows[d].state # "sending" => new[e] = rows[e]
        /\ rows[d].state = "sending" =>
             \/ new[d].state = outcome
             \/ new[d].state = "superseded" /\ draft[d].op = "reaction"
    <3>1. CASE new = RetriedTo(rows, d, outcome, TRUE)  BY <1>1, <3>1, RetriedFacts
    <3>2. CASE new = RetriedTo(rows, d, outcome, FALSE)  BY <1>1, <3>2, RetriedFacts
    <3> QED  BY <1>2, <3>1, <3>2
  <2> QED  BY <2>1 DEF PutBack
<1> QED  BY <1>2

(* A row that is put back, given up, searched for or sent moves no text out *)
(* of its place.                                                            *)
LEMMA OutcomeRows ==
    ASSUME OrderInv, UNCHANGED <<draft, cancelled, overtaken>>,
           \A e \in Deliveries :
             \/ ledger'[e].state = ledger[e].state
             \/ /\ ledger[e].state \in {"sending", "uncertain"}
                /\ ledger'[e].state \in {"uncertain", "failed", "retry", "sent"}
             \/ /\ ledger[e].state = "sending" /\ ledger'[e].state = "superseded"
                /\ draft[e].op = "reaction" \/ draft[e].thread # None
             \/ /\ ledger[e].state = "failed" /\ ledger'[e].state = "replaced"
                /\ draft[e].op = "file"
    PROVE  /\ RowsKept
           /\ \A d \in Deliveries : ledger[d].state = "absent" => ledger'[d].state = "absent"
<1>1. \A e \in Texts' : draft[e].op = "post"  BY DEF Texts, Posts
<1> QED  BY <1>1 DEF RowsKept, WithdrawnFor

LEMMA CheckOrder ==
    ASSUME OrderInv, NEW verdict \in Verdicts, Check(verdict)
    PROVE  OrderInv'
<1> DEFINE d == sender.item
<1>1. /\ ledger \in [Deliveries -> Row] /\ sender.phase = "leased"
      /\ d \in Deliveries /\ sender \in Sending
      /\ UNCHANGED <<finder, overtaken, cancelled, draft>>
  BY HandTypes DEF Check, OrderInv, IInv, TypeOK
<1>2. IInv'  BY CheckStep DEF OrderInv
<1>3. /\ \A e \in Deliveries :
           \/ ledger'[e].state = ledger[e].state
           \/ /\ ledger[e].state \in {"sending", "uncertain"}
              /\ ledger'[e].state \in {"uncertain", "failed", "retry", "sent"}
           \/ /\ ledger[e].state = "sending" /\ ledger'[e].state = "superseded"
              /\ draft[e].op = "reaction" \/ draft[e].thread # None
      /\ sender' \in {Idle, [sender EXCEPT !.phase = "calling"]}
  <2>1. CASE verdict = "newer"
    <3>1. To(ledger[d], "superseded").state = "superseded"  BY <1>1, RowWrites DEF State
    <3>2. /\ ledger' = (IF ledger[d].state = "sending"
                       THEN [ledger EXCEPT ![d] = To(ledger[d], "superseded")] ELSE ledger)
          /\ draft[d].thread # None
          /\ sender' = Idle
      BY <2>1 DEF Check, NewerAnswerSent
    <3> HIDE DEF d
    <3> QED  BY <1>1, <3>1, <3>2
  <2>2. CASE verdict = "unread"
    <3>1. ledger' = RetriedTo(ledger, d, "retry", TRUE) /\ sender' = Idle
      BY <2>2 DEF Check, Retried, RetriedTo
    <3> HIDE DEF d
    <3>2. PutBack(ledger, ledger')  BY <1>1, <3>1, RetriedRows
    <3> QED  BY <3>1, <3>2 DEF PutBack
  <2>3. CASE verdict \in {"unwritable", "illegible"}
    <3>1. ledger' = RetriedTo(ledger, d, "failed", TRUE) /\ sender' = Idle
      BY <2>3 DEF Check, Retried, RetriedTo
    <3> HIDE DEF d
    <3>2. PutBack(ledger, ledger')  BY <1>1, <3>1, RetriedRows
    <3> QED  BY <3>1, <3>2 DEF PutBack
  <2>4. CASE verdict = "call"
    BY <2>4 DEF Check
  <2> QED  BY <2>1, <2>2, <2>3, <2>4 DEF Verdicts
<1>4. /\ RowsKept
      /\ \A e \in Deliveries : ledger[e].state = "absent" => ledger'[e].state = "absent"
  BY <1>1, <1>3, OutcomeRows
<1>5. \/ sender'.phase = "idle"
      \/ sender'.phase = "calling" /\ sender'.item = sender.item
  BY <1>1, <1>3 DEF Idle, Sending
<1> QED  BY <1>1, <1>2, <1>4, <1>5, DrainStep

LEMMA CallOrder ==
    ASSUME OrderInv, NEW accepted \in BOOLEAN, NEW answer \in {"ok", "error", "refused"},
           Call(accepted, answer)
    PROVE  OrderInv'
<1>1. /\ sender' = [phase |-> "answered", item |-> sender.item, answer |-> answer]
      /\ UNCHANGED <<ledger, finder, overtaken, cancelled, draft>>
  BY DEF Call, history
<1>2. IInv'  BY CallStep DEF OrderInv
<1>3. RowsKept  BY <1>1 DEF RowsKept
<1> QED  BY <1>1, <1>2, <1>3, DrainStep

LEMMA RecordOrder ==
    ASSUME OrderInv, NEW stored \in {"done", "unconfirmed", "lost"}, Record(stored)
    PROVE  OrderInv'
<1> DEFINE d == sender.item
           refused == sender.answer = "refused"
           terminal == refused \/ Exhausted(ledger[d].failures)
           uncertain == SearchedFor(d) /\ ~refused
<1>1. /\ ledger \in [Deliveries -> Row] /\ sender.phase = "answered"
      /\ d \in Deliveries
      /\ UNCHANGED <<finder, overtaken, cancelled, draft>>
  BY HandTypes DEF Record, OrderInv, IInv, TypeOK
<1>2. IInv'  BY RecordStep DEF OrderInv
<1>3. \/ ledger' = Finished(ledger, d, "sending") /\ sender' = Idle
      \/ ledger' = RetriedTo(ledger, d, IF SearchedFor(d) THEN "uncertain" ELSE "retry", FALSE)
         /\ sender' = Idle
      \/ /\ ledger' = RetriedTo(ledger, d, IF uncertain THEN "uncertain"
                                           ELSE IF terminal THEN "failed" ELSE "retry", FALSE)
         /\ \/ sender' = Idle
            \/ ledger[d].state = "sending" /\ sender' = [phase |-> "notify", item |-> d]
      \/ ledger' = ledger /\ sender' = Idle
  BY DEF Record, GivenUp, Retried, RetriedTo
<1>4. /\ \/ ledger' = Finished(ledger, d, "sending")
         \/ \E outcome \in {"uncertain", "failed", "retry"} :
              ledger' = RetriedTo(ledger, d, outcome, FALSE)
         \/ ledger' = ledger
      /\ \/ sender' = Idle
         \/ ledger[d].state = "sending" /\ sender' = [phase |-> "notify", item |-> d]
  BY <1>3
<1> HIDE DEF d, terminal, uncertain
<1>5. \A e \in Deliveries :
        \/ ledger'[e].state = ledger[e].state
        \/ /\ ledger[e].state \in {"sending", "uncertain"}
           /\ ledger'[e].state \in {"uncertain", "failed", "retry", "sent"}
        \/ /\ ledger[e].state = "sending" /\ ledger'[e].state = "superseded"
           /\ draft[e].op = "reaction" \/ draft[e].thread # None
        \/ /\ ledger[e].state = "failed" /\ ledger'[e].state = "replaced"
           /\ draft[e].op = "file"
  <2>1. CASE ledger' = Finished(ledger, d, "sending")
    BY <1>1, <2>1, FinishedFacts
  <2>2. ASSUME NEW outcome \in {"uncertain", "failed", "retry"},
               ledger' = RetriedTo(ledger, d, outcome, FALSE)
        PROVE  PutBack(ledger, ledger')
    BY <1>1, <2>2, RetriedRows
  <2>3. CASE PutBack(ledger, ledger')  BY <2>3 DEF PutBack
  <2> QED  BY <1>4, <2>1, <2>2, <2>3
<1>6. /\ RowsKept
      /\ \A e \in Deliveries : ledger[e].state = "absent" => ledger'[e].state = "absent"
  BY <1>1, <1>5, OutcomeRows
<1>7. \/ sender'.phase = "idle"
      \/ /\ sender'.phase = "notify" /\ sender'.item = d
         /\ ledger[d].state # "absent"
  BY <1>4 DEF Idle
<1> QED  BY <1>1, <1>2, <1>6, <1>7, DrainStep

LEMMA SearchOrder ==
    ASSUME OrderInv, NEW outcome \in Outcomes, Search(outcome)
    PROVE  OrderInv'
<1>1. /\ \E d \in Deliveries : finder' = [phase |-> outcome, item |-> d]
      /\ UNCHANGED <<ledger, sender, overtaken, cancelled, draft>>
  BY DEF Search, history, Oldest, Uncertain
<1>2. IInv'  BY SearchStep DEF OrderInv
<1>3. RowsKept  BY <1>1 DEF RowsKept
<1>4. finder'.phase # "notify"  BY <1>1 DEF Outcomes
<1> QED  BY <1>1, <1>2, <1>3, <1>4, DrainStep

LEMMA SettleOrder ==
    ASSUME OrderInv, NEW stored \in BOOLEAN, Settle(stored)
    PROVE  OrderInv'
<1> DEFINE d == finder.item
<1>0. TypeOK  BY DEF OrderInv, IInv
<1>1. /\ d \in Deliveries
      /\ \/ finder' = Idle
         \/ ledger[d].state = "uncertain" /\ finder' = [phase |-> "notify", item |-> d]
      /\ \A e \in Deliveries :
           \/ ledger'[e].state = ledger[e].state
           \/ /\ ledger[e].state = "uncertain"
              /\ ledger'[e].state \in {"uncertain", "failed", "retry", "sent"}
           \/ /\ ledger[e].state = "failed" /\ ledger'[e].state = "replaced"
              /\ draft[e].op = "file"
  BY <1>0, SettleWrites
<1>2. IInv' /\ UNCHANGED <<sender, overtaken, cancelled, draft>>
  BY SettleStep DEF OrderInv, Settle
<1> HIDE DEF d
<1>3. /\ RowsKept
      /\ \A e \in Deliveries : ledger[e].state = "absent" => ledger'[e].state = "absent"
  BY <1>1, <1>2, OutcomeRows
<1>4. \/ finder'.phase = "idle"
      \/ /\ finder'.phase = "notify" /\ finder'.item = d
         /\ ledger[d].state # "absent"
  BY <1>1 DEF Idle
<1> QED  BY <1>1, <1>2, <1>3, <1>4, DrainStep
-----------------------------------------------------------------------------
(* A text before one that is queued and not withdrawn carries no key, is no *)
(* response root, and a human turn that overtook it overtook both.          *)
LEMMA TextBefore ==
    ASSUME OrderInv, NEW d \in Deliveries, NEW e \in Texts, Before(e, d),
           draft[d].source \notin overtaken
    PROVE  ~WithdrawnFor(e)
<1>1. draft \in Drafts /\ overtaken \subseteq Sources  BY DEF OrderInv, IInv, TypeOK
<1>2. e \in Deliveries /\ draft[e].op = "post" /\ e \notin FailureNotices  BY DEF Texts, Posts
<1>3. e # None  BY <1>2, ConfigAssumption
<1>4. e \notin {draft[f].notice : f \in Deliveries}  BY <1>2, <1>3 DEF FailureNotices
<1>5. draft[e].key = None /\ draft[e].thread = None /\ draft[e].source \in {None, draft[d].source}
  BY <1>1, <1>2, <1>4, PartsAssumption DEF Before
<1> QED  BY <1>1, <1>5, ConfigAssumption DEF WithdrawnFor

LEMMA LeaseOrder ==
    ASSUME OrderInv, NEW cooling, Lease(cooling)
    PROVE  OrderInv'
<1> DEFINE rows == Fenced(ledger)
<1>1. /\ ledger \in [Deliveries -> Row] /\ sender = Idle /\ sender.phase = "idle"
      /\ UNCHANGED <<finder, overtaken, cancelled, draft>>
  BY DEF Lease, history, OrderInv, IInv, TypeOK, Idle
<1>2. IInv'  BY LeaseStep DEF OrderInv
<1>3. \A e \in Deliveries :
        /\ \/ rows[e].state = ledger[e].state
           \/ /\ ledger[e].state \in {"pending", "retry"} /\ rows[e].state = "superseded"
              /\ draft[e].source \in overtaken \/ draft[e].op = "reaction"
        /\ rows[e].state \in {"pending", "retry"} => draft[e].source \notin overtaken
  <2>1. \A e \in Deliveries : To(ledger[e], "superseded").state = "superseded"
    BY <1>1, RowWrites DEF State
  <2> QED  BY <2>1 DEF Fenced, Queued, In, NewerIntent
<1>4. rows \in [Deliveries -> Row]  BY <1>1, LedgerTypes DEF Fenced
<1> HIDE DEF rows
<1>5. \A e \in Texts' : e \in Texts /\ e \in Deliveries /\ draft[e].op = "post"
  BY <1>1 DEF Texts, Posts, FailureNotices
<1>6. CASE ledger' = rows /\ sender' = sender
  <2>1. RowsKept  BY <1>1, <1>3, <1>5, <1>6 DEF RowsKept, WithdrawnFor
  <2> QED  BY <1>1, <1>2, <1>3, <1>6, <2>1, DrainStep
<1>7. ASSUME NEW d \in Leasable(rows, cooling),
             ledger' = [rows EXCEPT ![d] = To(rows[d], "sending")],
             sender' = [phase |-> "leased", item |-> d]
      PROVE  OrderInv'
  <2>1. /\ d \in Deliveries /\ rows[d].state \in {"pending", "retry"}
        /\ \A e \in Deliveries :
             Before(e, d) => rows[e].state \in {"absent", "sent", "superseded", "replaced"}
    BY DEF Leasable, Queued, In
  <2>2. /\ ledger'[d].state = "sending"
        /\ \A e \in Deliveries \ {d} : ledger'[e] = rows[e]
    <3>1. To(rows[d], "sending").state = "sending"  BY <1>4, <2>1, RowWrites DEF State
    <3> QED  BY <1>4, <1>7, <2>1, <3>1
  <2>3. ledger[d].state \in {"pending", "retry"}  BY <1>3, <2>1
  <2>4. RowsKept  BY <1>1, <1>3, <1>5, <2>1, <2>2, <2>3 DEF RowsKept, WithdrawnFor
  <2>5. WithdrawnRightly' /\ EnqueuedInOrder'
    <3>1. \A e \in Deliveries : ledger[e].state = "absent" => ledger'[e].state = "absent"
      BY <1>3, <2>2, <2>3
    <3> QED  BY <1>1, <2>4, <3>1, OrderedRows
  <2>6. InTurn'
    <3> SUFFICES ASSUME NEW e \in Texts', Before(e, d)
                 PROVE  ledger'[e].state = "sent"
      BY <1>1, <1>7 DEF InTurn, Before
    <3>1. e # d /\ ledger'[e] = rows[e]
      BY <1>5, <2>2, <2>1, DraftIndex DEF Before, OrderInv, IInv
    <3>2. ~WithdrawnFor(e)  BY <1>3, <1>5, <2>1, TextBefore
    <3>3. rows[e].state # "superseded"
      BY <1>3, <1>5, <3>2 DEF OrderInv, WithdrawnRightly, WithdrawnFor
    <3>4. rows[e].state # "replaced"  BY <1>3, <1>5 DEF OrderInv, WithdrawnRightly
    <3>5. rows[e].state # "absent"
      BY <1>3, <1>5, <2>1, <2>3 DEF OrderInv, EnqueuedInOrder, Texts
    <3> QED  BY <1>5, <2>1, <3>1, <3>3, <3>4, <3>5
  <2>7. AnnouncedKnown'
    <3>1. TypeOK  BY DEF OrderInv, IInv
    <3>2. finder.phase = "notify" => finder.item \in Deliveries  BY <3>1, HandTypes
    <3> QED  BY <1>1, <1>7, <2>4, <3>2 DEF OrderInv, AnnouncedKnown, RowsKept
  <2> QED  BY <1>2, <2>5, <2>6, <2>7 DEF OrderInv
<1>8. \A S : First(rows, S) \subseteq S  BY DEF First
<1> QED  BY <1>6, <1>7, <1>8 DEF Lease, rows

(* A notice has its chart's place, and what precedes the chart is known.    *)
LEMMA AnnounceOrder ==
    ASSUME OrderInv, NEW stored \in BOOLEAN, Announce(stored)
    PROVE  OrderInv'
<1> USE DEF OrderInv
<1>0. TypeOK  BY DEF IInv
<1>1. PICK d \in Files :
        /\ Announced(d, stored)
        /\ [phase |-> "notify", item |-> d] \in {sender, finder}
        /\ sender' \in {sender, Idle} /\ finder' \in {finder, Idle}
        /\ UNCHANGED <<overtaken, cancelled, draft>>
  BY AnnounceFacts
<1>2. ledger[d].state # "absent"  BY <1>1 DEF AnnouncedKnown
<1>3. IInv'  BY AnnounceStep
<1> DEFINE n == draft[d].notice
<1>4. /\ d \in Deliveries /\ n \in Deliveries
      /\ draft[n].sequence = draft[d].sequence /\ draft[n].index = draft[d].index
  BY DraftType, ConfigAssumption DEF IInv, Files
<1> HIDE DEF n
<1>5. CASE stored
  <2>1. ledger' = Inserted(ledger, n)  BY <1>1, <1>5 DEF Announced, n
  <2>2. \A e \in Deliveries \ FailureNotices : Before(e, n) => ledger[e].state # "absent"
    BY <1>2, <1>4 DEF Before, EnqueuedInOrder
  <2>3. RowsKept /\ EnqueuedInOrder' /\ WithdrawnRightly'
    BY <1>1, <1>4, <2>1, <2>2, InsertedOrder
  <2>4. Idle.phase = "idle"  BY DEF Idle
  <2>5. InTurn'  BY <1>1, <2>3, <2>4, InTurnStep
  <2>6. AnnouncedKnown'
    <3>1. \A hand \in {sender, finder} : hand.phase = "notify" => hand.item \in Deliveries
      BY <1>0, HandTypes
    <3> QED  BY <1>1, <2>3, <2>4, <3>1 DEF AnnouncedKnown, RowsKept
  <2> QED  BY <1>3, <2>3, <2>5, <2>6
<1>6. CASE ~stored
  <2>1. ledger' = ledger  BY <1>1, <1>6 DEF Announced
  <2>2. RowsKept  BY <2>1 DEF RowsKept
  <2> HIDE DEF OrderInv
  <2> QED  BY <1>1, <1>3, <2>1, <2>2, QuietStep
<1> QED  BY <1>5, <1>6
-----------------------------------------------------------------------------
LEMMA InitOrder == Init => OrderInv
<1> SUFFICES ASSUME Init PROVE OrderInv  OBVIOUS
<1>1. \A d \in Deliveries : ledger[d].state = "absent"  BY DEF Init, Absent
<1>2. sender.phase = "idle" /\ finder.phase = "idle"  BY DEF Init, Idle
<1>3. Texts \subseteq Deliveries  BY DEF Texts, Posts
<1> QED
  BY <1>1, <1>2, <1>3, InitInv
  DEF OrderInv, EnqueuedInOrder, AnnouncedKnown, WithdrawnRightly, InTurn

LEMMA NextOrder == OrderInv /\ [Next]_vars => OrderInv'
<1> SUFFICES ASSUME OrderInv, [Next]_vars PROVE OrderInv'  OBVIOUS
<1>1. CASE Send
  <2>1. ASSUME NEW cooling \in SUBSET Channels, Lease(cooling) PROVE OrderInv'
    BY <2>1, LeaseOrder
  <2>2. ASSUME NEW verdict \in Verdicts, Check(verdict) PROVE OrderInv'  BY <2>2, CheckOrder
  <2>3. ASSUME NEW accepted \in BOOLEAN, NEW answer \in {"ok", "error", "refused"},
               Call(accepted, answer)
        PROVE  OrderInv'
    BY <2>3, CallOrder
  <2>4. ASSUME NEW stored \in {"done", "unconfirmed", "lost"}, Record(stored) PROVE OrderInv'
    BY <2>4, RecordOrder
  <2> QED  BY <1>1, <2>1, <2>2, <2>3, <2>4 DEF Send
<1>2. CASE Reconcile
  <2>1. ASSUME NEW outcome \in Outcomes, Search(outcome)
        PROVE  OrderInv'
    BY <2>1, SearchOrder
  <2>2. ASSUME NEW stored \in BOOLEAN, Settle(stored) PROVE OrderInv'  BY <2>2, SettleOrder
  <2> QED  BY <1>2, <2>1, <2>2 DEF Reconcile
<1>3. ASSUME NEW d \in Deliveries, Enqueue(d) PROVE OrderInv'  BY <1>3, EnqueueOrder
<1>4. ASSUME NEW d \in Deliveries, Elapse(d) PROVE OrderInv'  BY <1>4, ElapseOrder
<1>5. ASSUME NEW s \in Sources, Overtake(s) PROVE OrderInv'  BY <1>5, OvertakeOrder
<1>6. ASSUME NEW s \in Sources, CancelReplay(s) PROVE OrderInv'  BY <1>6, CancelOrder
<1>7. CASE UNCHANGED vars
  <2>1. UNCHANGED <<draft, ledger, sender, finder, overtaken, slack, cancelled, blind, hushed, crashes>>
    BY <1>7 DEF vars
  <2>2. IInv'  BY <1>7, NextInv DEF OrderInv
  <2>3. RowsKept  BY <2>1 DEF RowsKept
  <2> QED  BY <2>1, <2>2, <2>3, QuietStep
<1>8. ASSUME NEW stored \in BOOLEAN, Announce(stored) PROVE OrderInv'  BY <1>8, AnnounceOrder
<1> QED
  BY <1>1, <1>2, <1>3, <1>4, <1>5, <1>6, <1>7, <1>8, RetryVisualOrder, RestartOrder
  DEF Next
-----------------------------------------------------------------------------
(* Only the call for the row that the sender has in hand puts copies into   *)
(* Slack.                                                                   *)
LEMMA AcceptedInHand ==
    ASSUME OrderInv, [Next]_vars, NEW d \in Deliveries, Accepted(d)
    PROVE  sender.phase = "calling" /\ sender.item = d
<1>1. /\ slack \in [copies : [Deliveries -> 0..2], shows : [Keys -> Deliveries \cup {None}]]
      /\ slack.copies[d] \in Int
  BY DEF OrderInv, IInv, TypeOK
<1>2. slack' # slack  BY <1>1 DEF Accepted
<1>3. PICK accepted \in BOOLEAN, answer \in {"ok", "error", "refused"} : Call(accepted, answer)
  <2>1. ASSUME NEW cooling, Lease(cooling) PROVE FALSE  BY <1>2, <2>1 DEF Lease
  <2>2. ASSUME NEW verdict, Check(verdict) PROVE FALSE  BY <1>2, <2>2 DEF Check
  <2>3. ASSUME NEW stored, Record(stored) PROVE FALSE  BY <1>2, <2>3 DEF Record
  <2>4. ASSUME NEW outcome, Search(outcome) PROVE FALSE  BY <1>2, <2>4 DEF Search
  <2>5. ASSUME NEW stored, Settle(stored) PROVE FALSE  BY <1>2, <2>5 DEF Settle
  <2>6. ASSUME NEW e, Enqueue(e) \/ Elapse(e) PROVE FALSE  BY <1>2, <2>6 DEF Enqueue, Elapse
  <2>7. ASSUME NEW s, Overtake(s) \/ CancelReplay(s) PROVE FALSE
    BY <1>2, <2>7 DEF Overtake, CancelReplay
  <2>8. CASE (\E stored \in BOOLEAN : Announce(stored)) \/ RetryVisual \/ Restart
    BY <1>2, <2>8 DEF Announce, RetryVisual, Restart
  <2>9. CASE UNCHANGED vars  BY <1>2, <2>9 DEF vars
  <2> QED  BY <2>1, <2>2, <2>3, <2>4, <2>5, <2>6, <2>7, <2>8, <2>9 DEF Next, Send, Reconcile
<1>4. /\ sender.phase = "calling"
      /\ slack' \in {slack, [slack EXCEPT !.copies[sender.item] = IF @ < 2 THEN @ + 1 ELSE @],
                    [slack EXCEPT !.shows[draft[sender.item].key] = sender.item]}
  BY <1>3 DEF Call
<1>5. d # sender.item => slack'.copies[d] = slack.copies[d]  BY <1>1, <1>4
<1> QED  BY <1>1, <1>4, <1>5 DEF Accepted

(* The parts of an answer appear in their order: Slack accepts no part and  *)
(* no chart before every text that precedes it, whatever is retried,        *)
(* searched for, interrupted, revived or withdrawn in between.              *)
THEOREM AnswersInOrder == Spec => PartsInOrder
<1> DEFINE Orderly ==
      \A d \in Deliveries, e \in Posts \ (FailureNotices \cup cancelled) :
         Accepted(d) /\ Before(e, d) => slack.copies[e] > 0
<1>1. ASSUME OrderInv, [Next]_vars PROVE [Orderly]_vars
  <2> SUFFICES ASSUME NEW d \in Deliveries, NEW e \in Texts, Accepted(d), Before(e, d)
               PROVE  slack.copies[e] > 0
    BY DEF Texts
  <2>1. sender.phase = "calling" /\ sender.item = d  BY <1>1, AcceptedInHand
  <2>2. ledger[e].state = "sent"  BY <1>1, <2>1 DEF OrderInv, InTurn
  <2>3. Tracked(e) /\ e \in Deliveries  BY DEF Texts, Posts, Tracked
  <2> QED  BY <1>1, <2>2, <2>3 DEF OrderInv, IInv, CopiesAccounted, RowTells
<1> QED  BY <1>1, InitOrder, NextOrder, PTL DEF Spec, PartsInOrder
-----------------------------------------------------------------------------
(* What the order of cards and reactions rests on: the answers of a card    *)
(* are recorded, and no failed one is revived, which nothing would compare  *)
(* with the cards that went out since.                                      *)
CardsAnswered == "update" \notin RecordFails \cup Revivable

(* Only posts and files are searched for.                                   *)
SearchRight == finder.phase # "idle" => SearchedFor(finder.item)

(* A card on its way is in the sender's hands, ...                          *)
CardInHand ==
    \A c \in Deliveries :
        draft[c].op = "update" /\ Ordered(c) /\ ledger[c].state = "sending" =>
            sender.phase \in {"leased", "calling", "answered"} /\ sender.item = c

(* ... and none is to be sent while a newer one is, or was.                 *)
OldCardsOver ==
    \A c, o \in Deliveries :
        /\ draft[c].op = "update" /\ Ordered(c) /\ SameKey(c, o)
        /\ draft[o].version < draft[c].version
        /\ ledger[c].state \in {"pending", "sending", "retry", "sent"}
        => ledger[o].state \notin {"pending", "sending", "retry"}

(* What the sender calls Slack for is not older than what was sent, ...     *)
HandNotOld ==
    sender.phase \in {"leased", "calling"} /\ Ordered(sender.item) =>
        /\ ledger[sender.item].state # "absent"
        /\ \A d \in Deliveries \ {sender.item} :
             SameKey(d, sender.item) /\ ledger[d].state = "sent" =>
               IF draft[d].version = 0 THEN ~Later(ledger, sender.item, d)
               ELSE draft[d].version <= draft[sender.item].version

(* ... and what Slack confirmed is shown.                                   *)
AnswerShown ==
    sender.phase = "answered" /\ sender.answer = "ok" /\ Ordered(sender.item) =>
        slack.shows[draft[sender.item].key] = sender.item

NewestInv ==
    /\ CardsAnswered
    /\ IInv
    /\ SearchRight /\ CardInHand /\ OldCardsOver /\ HandNotOld /\ AnswerShown
    /\ NewestShown

(* What a step does to the rows of cards and reactions: none but the one    *)
(* that Slack has just answered becomes sent, none leaves the ledger or     *)
(* changes its number, and no card that is over is to be sent again.        *)
CardsKept ==
    \A c \in Deliveries :
        /\ ledger[c].state # "absent" =>
             ledger'[c].state # "absent" /\ ledger'[c].rowid = ledger[c].rowid
        /\ Ordered(c) /\ ledger'[c].state = "sent" =>
             \/ ledger[c].state = "sent"
             \/ /\ ledger[c].state = "sending"
                /\ sender.phase = "answered" /\ sender.item = c /\ sender.answer = "ok"
        /\ Ordered(c) /\ draft[c].op = "update" =>
             /\ ledger'[c].state = "sending" => ledger[c].state = "sending"
             /\ ledger'[c].state \in {"pending", "retry"} =>
                  ledger[c].state \in {"pending", "retry", "sending"}

LEMMA KeyShared ==
    ASSUME draft \in Drafts, NEW c \in Deliveries, NEW o \in Deliveries,
           Ordered(c), SameKey(c, o) \/ SameKey(o, c)
    PROVE  /\ Ordered(o) /\ draft[o].op = draft[c].op
           /\ draft[c].op = "reaction" => draft[c].version = 0 /\ draft[o].version = 0
           /\ draft[c].op = "update" => draft[c].version > 0 /\ draft[o].version > 0
           /\ ~SearchedFor(c)
<1>1. draft[c].key = draft[o].key /\ draft[c].key # None  BY DEF SameKey
<1>2. draft[c].op = "reaction" \/ (draft[c].op = "update" /\ draft[c].version > 0)  BY DEF Ordered
<1>3. /\ draft[o].op = draft[c].op
      /\ draft[o].op = "reaction" \/ (draft[o].op = "update" /\ draft[o].version > 0)
      /\ draft[c].op = "reaction" => draft[c].version = 0 /\ draft[o].version = 0
  BY <1>1, <1>2, KeysAssumption
<1> QED  BY <1>1, <1>2, <1>3 DEF Ordered, SearchedFor

(* The newest was the newest before, as rows keep their numbers.            *)
LEMMA NewestBefore ==
    ASSUME CardsKept, draft' = draft, NEW d \in Deliveries, ledger[d].state # "absent", Newest(d)'
    PROVE  Newest(d)
BY DEF CardsKept, Newest, SameKey, Later

LEMMA NewestKept ==
    ASSUME NewestInv, draft' = draft, slack' = slack, CardsKept
    PROVE  NewestShown'
<1> SUFFICES ASSUME NEW d \in Deliveries, Ordered(d)', ledger'[d].state = "sent", Newest(d)'
             PROVE  slack.shows[draft[d].key] = d
  BY DEF NewestShown
<1>1. Ordered(d)  BY DEF Ordered
<1>2. CASE ledger[d].state = "sent"
  BY <1>1, <1>2, NewestBefore DEF NewestInv, NewestShown
<1>3. CASE ledger[d].state # "sent"
  BY <1>1, <1>3 DEF CardsKept, NewestInv, AnswerShown
<1> QED  BY <1>2, <1>3

LEMMA OldCardsKept ==
    ASSUME NewestInv, draft' = draft, CardsKept
    PROVE  OldCardsOver'
<1> SUFFICES ASSUME NEW c \in Deliveries, NEW o \in Deliveries,
                    draft[c].op = "update", Ordered(c), SameKey(c, o),
                    draft[o].version < draft[c].version,
                    ledger'[c].state \in {"pending", "sending", "retry", "sent"}
             PROVE  ledger'[o].state \notin {"pending", "sending", "retry"}
  BY DEF OldCardsOver, Ordered, SameKey
<1>1. Ordered(o) /\ draft[o].op = "update"  BY KeyShared DEF NewestInv, IInv
<1>2. ledger[c].state \in {"pending", "sending", "retry", "sent"}  BY DEF CardsKept
<1>3. ledger[o].state \notin {"pending", "sending", "retry"}
  BY <1>2 DEF NewestInv, OldCardsOver
<1> QED  BY <1>1, <1>3 DEF CardsKept

(* Steps that start no delivery and no call.                                *)
LEMMA CardsStep ==
    ASSUME NewestInv, IInv', draft' = draft, slack' = slack, CardsKept, SearchRight',
           \/ sender' = sender
           \/ sender.phase = "leased" /\ sender'.phase = "calling" /\ sender'.item = sender.item
           \/ /\ sender'.phase \notin {"leased", "calling", "answered"}
              /\ \A c \in Deliveries :
                   draft[c].op = "update" /\ Ordered(c) => ledger'[c].state # "sending"
    PROVE  NewestInv'
<1>1. \A c, o : (Ordered(c)' <=> Ordered(c)) /\ (SameKey(c, o)' <=> SameKey(c, o))
  BY DEF Ordered, SameKey
<1>2. CardInHand'
  BY <1>1 DEF NewestInv, CardInHand, CardsKept
<1>3. HandNotOld'
  <2> SUFFICES ASSUME sender'.phase \in {"leased", "calling"}, Ordered(sender'.item)
               PROVE  HandNotOld'
    BY <1>1 DEF HandNotOld
  <2>1. sender.phase \in {"leased", "calling"} /\ sender'.item = sender.item  OBVIOUS
  <2>2. TypeOK  BY DEF NewestInv, IInv
  <2>3. sender.item \in Deliveries  BY <2>1, <2>2, HandTypes
  <2>4. ledger[sender.item].state # "absent"  BY <2>1 DEF NewestInv, HandNotOld
  <2>5. ASSUME NEW d \in Deliveries \ {sender.item}, SameKey(d, sender.item),
               ledger'[d].state = "sent"
        PROVE  IF draft[d].version = 0 THEN ~Later(ledger', sender.item, d)
               ELSE draft[d].version <= draft[sender.item].version
    <3>1. Ordered(d)  BY <2>1, <2>3, <2>5, KeyShared DEF NewestInv, IInv
    <3>2. ledger[d].state = "sent"  BY <2>1, <2>5, <3>1 DEF CardsKept
    <3>3. IF draft[d].version = 0 THEN ~Later(ledger, sender.item, d)
          ELSE draft[d].version <= draft[sender.item].version
      BY <2>1, <2>5, <3>2 DEF NewestInv, HandNotOld
    <3> QED  BY <2>3, <2>4, <3>2, <3>3 DEF CardsKept, Later
  <2> QED  BY <1>1, <2>1, <2>3, <2>4, <2>5 DEF HandNotOld, CardsKept, Later
<1>4. AnswerShown'  BY <1>1 DEF NewestInv, AnswerShown
<1>5. OldCardsOver' /\ NewestShown'  BY OldCardsKept, NewestKept
<1> QED  BY <1>2, <1>3, <1>4, <1>5 DEF NewestInv, CardsAnswered
-----------------------------------------------------------------------------
(* A row that is written keeps its number.                                  *)
LEMMA RowidsKept ==
    ASSUME NEW r \in Row, NEW state, NEW due
    PROVE  /\ To(r, state).rowid = r.rowid
           /\ Again(r, state, due).rowid = r.rowid
           /\ DueAs(r, state).rowid = r.rowid
           /\ Afresh(r, state).rowid = r.rowid
BY DEF To, Again, DueAs, Afresh, Row

(* A delivery that is enqueued is new, not older than what is known of its  *)
(* key, and supersedes what is queued of it.                                *)
LEMMA InsertedCards ==
    ASSUME NEW rows \in [Deliveries -> Row], NEW d \in Deliveries
    PROVE  \/ Inserted(rows, d) = rows
           \/ /\ rows[d].state = "absent" /\ Inserted(rows, d)[d].state = "pending"
              /\ ~Dropped(rows, d)
              /\ \A e \in Deliveries \ {d} :
                   Inserted(rows, d)[e] = IF Coalesced(rows, d, e)
                                          THEN To(rows[e], "superseded") ELSE rows[e]
<1>0. \A e \in Deliveries : rows[e] \in Row  OBVIOUS
<1> DEFINE n == 1 + Cardinality({f \in Deliveries : rows[f].state # "absent"})
           fresh == Fresh(n)
<1>1. \/ Inserted(rows, d) = rows
      \/ /\ rows[d].state = "absent" /\ ~Dropped(rows, d)
         /\ Inserted(rows, d) = [e \in Deliveries |->
              CASE e = d -> fresh
                [] Coalesced(rows, d, e) -> To(rows[e], "superseded")
                [] OTHER -> rows[e]]
  BY <1>0 DEF Inserted, In, Row
<1>2. fresh.state = "pending"  BY DEF Fresh
<1> HIDE DEF n, fresh
<1>3. ASSUME rows[d].state = "absent", ~Dropped(rows, d),
             Inserted(rows, d) = [e \in Deliveries |->
               CASE e = d -> fresh
                 [] Coalesced(rows, d, e) -> To(rows[e], "superseded")
                 [] OTHER -> rows[e]]
      PROVE  /\ Inserted(rows, d)[d].state = "pending"
             /\ \A e \in Deliveries \ {d} :
                  Inserted(rows, d)[e] = IF Coalesced(rows, d, e)
                                         THEN To(rows[e], "superseded") ELSE rows[e]
  <2>1. Inserted(rows, d)[d] = fresh
    <3>1. ~Coalesced(rows, d, d)  BY DEF Coalesced
    <3> QED  BY <1>3, <3>1
  <2>2. \A e \in Deliveries \ {d} :
          Inserted(rows, d)[e] = IF Coalesced(rows, d, e)
                                 THEN To(rows[e], "superseded") ELSE rows[e]
    BY <1>3
  <2> QED  BY <1>2, <2>1, <2>2
<1> QED  BY <1>1, <1>3

LEMMA InsertedNewest ==
    ASSUME NewestInv, IInv', NEW d \in Deliveries, ledger' = Inserted(ledger, d),
           UNCHANGED <<draft, slack>>, finder' \in {finder, Idle},
           sender' = sender \/ (sender.phase = "notify" /\ sender' = Idle),
           draft[d].op = "update" /\ draft[d].version > 0 => sender = Idle
    PROVE  NewestInv'
<1>0. /\ Idle.phase = "idle" /\ draft \in Drafts /\ ledger \in [Deliveries -> Row]
      /\ \A c, o : (Ordered(c)' <=> Ordered(c)) /\ (SameKey(c, o)' <=> SameKey(c, o))
  BY DEF Idle, NewestInv, IInv, TypeOK, Ordered, SameKey
<1>1. SearchRight'  BY <1>0 DEF NewestInv, SearchRight, SearchedFor
<1>2. CASE ledger' = ledger
  <2>1. CardsKept  BY <1>2 DEF CardsKept
  <2>2. \A c \in Deliveries : draft[c].op = "update" /\ Ordered(c) /\ sender.phase = "notify"
                                => ledger'[c].state # "sending"
    BY <1>2 DEF NewestInv, CardInHand
  <2> QED  BY <1>0, <1>1, <2>1, <2>2, CardsStep
<1>3. CASE ledger' # ledger
  <2>1. /\ ledger[d].state = "absent" /\ ledger'[d].state = "pending"
        /\ ~Dropped(ledger, d)
        /\ \A e \in Deliveries \ {d} :
             /\ Coalesced(ledger, d, e) => ledger'[e].state = "superseded"
             /\ ~Coalesced(ledger, d, e) => ledger'[e] = ledger[e]
             /\ ledger'[e].rowid = ledger[e].rowid
    <3>1. \A e \in Deliveries : /\ To(ledger[e], "superseded").state = "superseded"
                               /\ To(ledger[e], "superseded").rowid = ledger[e].rowid
      BY <1>0, RowWrites, RowidsKept DEF State
    <3> QED  BY <1>0, <1>3, <3>1, InsertedCards
  <2>2. CardInHand'
    <3>1. ASSUME NEW c \in Deliveries, draft[c].op = "update", Ordered(c),
                 ledger'[c].state = "sending"
          PROVE  sender'.phase \in {"leased", "calling", "answered"} /\ sender'.item = c
      <4>1. ledger[c].state = "sending"  BY <2>1, <3>1
      <4> QED  BY <1>0, <3>1, <4>1 DEF NewestInv, CardInHand
    <3> QED  BY <1>0, <3>1 DEF CardInHand
  <2>3. OldCardsOver'
    <3> SUFFICES ASSUME NEW c \in Deliveries, NEW o \in Deliveries,
                        draft[c].op = "update", Ordered(c), SameKey(c, o),
                        draft[o].version < draft[c].version,
                        ledger'[c].state \in {"pending", "sending", "retry", "sent"}
                 PROVE  ledger'[o].state \notin {"pending", "sending", "retry"}
      BY <1>0 DEF OldCardsOver
    <3>1. /\ Ordered(o) /\ draft[o].op = "update"
          /\ draft[c].version > 0 /\ draft[o].version > 0
          /\ draft[c].version \in Nat /\ draft[o].version \in Nat
      BY <1>0, KeyShared, DraftType
    <3>2. CASE c = d
      <4>1. sender.phase = "idle" /\ o # d  BY <1>0, <3>1, <3>2
      <4>2. ledger[o].state # "sending"  BY <3>1, <4>1 DEF NewestInv, CardInHand
      <4>3. ledger[o].state \in {"pending", "retry"} => Coalesced(ledger, d, o)
        BY <3>1, <3>2, <4>1 DEF Coalesced, Queued, In
      <4> QED  BY <2>1, <4>1, <4>2, <4>3
    <3>3. CASE o = d
      <4>1. c # d /\ ledger[c].state \in {"pending", "sending", "retry", "sent"}
        BY <2>1, <3>1, <3>3
      <4>2. SameKey(d, c) /\ draft[c].version >= draft[d].version
        BY <3>1, <3>3 DEF SameKey
      <4> QED  BY <2>1, <3>1, <3>3, <4>1, <4>2 DEF Dropped, In
    <3>4. CASE c # d /\ o # d
      <4>1. ledger[c].state \in {"pending", "sending", "retry", "sent"}  BY <2>1, <3>4
      <4>2. ledger[o].state \notin {"pending", "sending", "retry"}
        BY <4>1 DEF NewestInv, OldCardsOver
      <4> QED  BY <2>1, <3>4, <4>2
    <3> QED  BY <3>2, <3>3, <3>4
  <2>4. HandNotOld'
    <3> SUFFICES ASSUME sender'.phase \in {"leased", "calling"}, Ordered(sender'.item)
                 PROVE  HandNotOld'
      BY <1>0 DEF HandNotOld
    <3>1. sender' = sender  BY <1>0
    <3>2. ledger[sender.item].state # "absent"  BY <3>1 DEF NewestInv, HandNotOld
    <3>3. TypeOK  BY DEF NewestInv, IInv
    <3>4. sender.item \in Deliveries /\ sender.item # d
      BY <2>1, <3>1, <3>2, <3>3, HandTypes
    <3>5. ledger'[sender.item].state # "absent"  BY <2>1, <3>2, <3>4
    <3>6. ASSUME NEW e \in Deliveries \ {sender.item}, SameKey(e, sender.item),
                 ledger'[e].state = "sent"
          PROVE  IF draft[e].version = 0 THEN ~Later(ledger', sender.item, e)
                 ELSE draft[e].version <= draft[sender.item].version
      <4>1. ledger[e].state = "sent" /\ e # d  BY <2>1, <3>6
      <4>2. IF draft[e].version = 0 THEN ~Later(ledger, sender.item, e)
            ELSE draft[e].version <= draft[sender.item].version
        BY <3>1, <3>6, <4>1 DEF NewestInv, HandNotOld
      <4> QED  BY <2>1, <3>4, <4>1, <4>2 DEF Later
    <3> QED  BY <1>0, <3>1, <3>5, <3>6 DEF HandNotOld, Later
  <2>5. AnswerShown'  BY <1>0 DEF NewestInv, AnswerShown
  <2>6. NewestShown'
    <3> SUFFICES ASSUME NEW c \in Deliveries, Ordered(c), ledger'[c].state = "sent", Newest(c)'
                 PROVE  slack.shows[draft[c].key] = c
      BY <1>0 DEF NewestShown
    <3>1. ledger[c].state = "sent" /\ c # d  BY <2>1
    <3>2. \A e \in Deliveries \ {c} : ledger[e].state # "absent" =>
            e # d /\ ledger'[e].state # "absent"
      BY <2>1
    <3>3. Newest(c)  BY <1>0, <2>1, <3>1, <3>2 DEF Newest, Later, SameKey
    <3> QED  BY <3>1, <3>3 DEF NewestInv, NewestShown
  <2> QED  BY <1>1, <2>2, <2>3, <2>4, <2>5, <2>6 DEF NewestInv, CardsAnswered
<1> QED  BY <1>2, <1>3
-----------------------------------------------------------------------------
LEMMA EnqueueNewest ==
    ASSUME NewestInv, NEW d \in Deliveries, Enqueue(d)
    PROVE  NewestInv'
<1>1. IInv'  BY EnqueueStep DEF NewestInv
<1> QED  BY <1>1, InsertedNewest DEF Enqueue

LEMMA AnnounceNewest ==
    ASSUME NewestInv, NEW stored \in BOOLEAN, Announce(stored)
    PROVE  NewestInv'
<1>0. IInv /\ TypeOK  BY DEF NewestInv, IInv
<1>1. PICK d \in Files :
        /\ Announced(d, stored)
        /\ \/ sender = [phase |-> "notify", item |-> d] /\ sender' = Idle /\ finder' = finder
           \/ finder = [phase |-> "notify", item |-> d] /\ finder' = Idle /\ sender' = sender
        /\ UNCHANGED <<draft, slack>>
  BY <1>0, AnnounceFacts
<1>2. IInv'  BY <1>0, AnnounceStep
<1> DEFINE n == draft[d].notice
<1>3. n \in Deliveries /\ draft[n].op = "post"
  BY <1>0, DraftType, ConfigAssumption DEF IInv, Files
<1> HIDE DEF n
<1>4. CASE stored
  <2>1. ledger' = Inserted(ledger, n)  BY <1>1, <1>4 DEF Announced, n
  <2> QED  BY <1>1, <1>2, <1>3, <2>1, InsertedNewest
<1>5. CASE ~stored
  <2>1. ledger' = ledger  BY <1>1, <1>5 DEF Announced
  <2>2. CardsKept  BY <2>1 DEF CardsKept
  <2>3. SearchRight'  BY <1>1 DEF NewestInv, SearchRight, SearchedFor, Idle
  <2>4. \/ sender' = sender
        \/ /\ sender'.phase \notin {"leased", "calling", "answered"}
           /\ \A c \in Deliveries :
                draft[c].op = "update" /\ Ordered(c) => ledger'[c].state # "sending"
    BY <1>1, <2>1 DEF NewestInv, CardInHand, Idle
  <2> QED  BY <1>1, <1>2, <2>2, <2>3, <2>4, CardsStep
<1> QED  BY <1>4, <1>5

LEMMA OvertakeNewest ==
    ASSUME NewestInv, NEW s \in Sources, Overtake(s)
    PROVE  NewestInv'
<1>1. UNCHANGED <<ledger, sender, finder, slack, draft>>  BY DEF Overtake, history
<1>2. IInv'  BY OvertakeStep DEF NewestInv
<1>3. CardsKept /\ SearchRight'
  BY <1>1 DEF CardsKept, NewestInv, SearchRight, SearchedFor
<1> QED  BY <1>1, <1>2, <1>3, CardsStep

LEMMA ElapseNewest ==
    ASSUME NewestInv, NEW d \in Deliveries, Elapse(d)
    PROVE  NewestInv'
<1>1. /\ ledger \in [Deliveries -> Row]
      /\ ledger' = [ledger EXCEPT ![d] = DueAs(ledger[d], ledger[d].state)]
      /\ UNCHANGED <<sender, finder, slack, draft>>
  BY DEF Elapse, history, NewestInv, IInv, TypeOK
<1>2. /\ DueAs(ledger[d], ledger[d].state).state = ledger[d].state
      /\ DueAs(ledger[d], ledger[d].state).rowid = ledger[d].rowid
  <2>1. ledger[d] \in Row /\ ledger[d].state \in State  BY <1>1 DEF Row
  <2> QED  BY <2>1, RowWrites, RowidsKept
<1>3. \A e \in Deliveries : ledger'[e].state = ledger[e].state /\ ledger'[e].rowid = ledger[e].rowid
  BY <1>1, <1>2
<1>4. IInv'  BY ElapseStep DEF NewestInv
<1>5. CardsKept /\ SearchRight'
  BY <1>1, <1>3 DEF CardsKept, NewestInv, SearchRight, SearchedFor
<1> QED  BY <1>1, <1>4, <1>5, CardsStep

LEMMA CancelNewest ==
    ASSUME NewestInv, NEW s \in Sources, CancelReplay(s)
    PROVE  NewestInv'
<1>1. /\ ledger \in [Deliveries -> Row]
      /\ UNCHANGED <<sender, finder, slack, draft>>
  BY DEF CancelReplay, history, NewestInv, IInv, TypeOK
<1>2. \A d \in Deliveries :
        \/ ledger'[d] = ledger[d]
        \/ /\ ledger[d].state \in {"pending", "retry"}
           /\ ledger'[d] = To(ledger[d], "superseded")
        \/ /\ ledger[d].state = "sending"
           /\ ledger'[d] = To(ledger[d], "uncertain")
  BY <1>1 DEF CancelReplay, Queued, In
<1>3. \A d \in Deliveries :
        /\ To(ledger[d], "superseded").state = "superseded"
        /\ To(ledger[d], "uncertain").state = "uncertain"
        /\ To(ledger[d], "superseded").rowid = ledger[d].rowid
        /\ To(ledger[d], "uncertain").rowid = ledger[d].rowid
  BY <1>1, RowWrites, RowidsKept DEF State
<1>4. IInv'  BY CancelStep DEF NewestInv
<1>5. CardsKept  BY <1>2, <1>3 DEF CardsKept
<1>6. SearchRight'  BY <1>1 DEF NewestInv, SearchRight, SearchedFor
<1> QED  BY <1>1, <1>4, <1>5, <1>6, CardsStep

LEMMA RetryVisualNewest ==
    ASSUME NewestInv, RetryVisual
    PROVE  NewestInv'
<1>1. PICK e \in Deliveries :
        /\ draft[e].op = "file"
        /\ ledger' = [ledger EXCEPT ![e] = Afresh(ledger[e], "retry")]
        /\ UNCHANGED <<sender, finder, slack, draft>>
  BY DEF RetryVisual, history
<1>2. ledger \in [Deliveries -> Row]  BY DEF NewestInv, IInv, TypeOK
<1>3. /\ ledger'[e].state = "retry" /\ ledger'[e].rowid = ledger[e].rowid
      /\ \A d \in Deliveries \ {e} : ledger'[d] = ledger[d]
  BY <1>1, <1>2, RowWrites, RowidsKept DEF State
<1>4. ~Ordered(e)  BY <1>1 DEF Ordered
<1>5. IInv'  BY RetryVisualStep DEF NewestInv
<1>6. CardsKept /\ SearchRight'
  BY <1>1, <1>3, <1>4 DEF CardsKept, NewestInv, SearchRight, SearchedFor
<1> QED  BY <1>1, <1>5, <1>6, CardsStep

(* An interrupted card is sent again, a failed one is not.                  *)
LEMMA RestartNewest ==
    ASSUME NewestInv, Restart
    PROVE  NewestInv'
<1>1. PICK D \in SUBSET {d \in Deliveries : draft[d].op \in Revivable /\ ledger[d].state = "failed"} :
        ledger' = Recovered(Revived(ledger, D))
  BY DEF Restart, history
<1>2. /\ sender' = Idle /\ finder' = Idle /\ Idle.phase = "idle"
      /\ UNCHANGED <<slack, draft>>
      /\ ledger \in [Deliveries -> Row]
  BY DEF Restart, history, NewestInv, IInv, TypeOK, Idle
<1> DEFINE rows == Revived(ledger, D)
<1>3. /\ rows \in [Deliveries -> Row]
      /\ \A d \in Deliveries :
           \/ rows[d] = ledger[d]
           \/ /\ ledger[d].state = "failed" /\ draft[d].op # "update"
              /\ rows[d].state \in {"uncertain", "retry"} /\ rows[d].rowid = ledger[d].rowid
  <2>1. \A d \in Deliveries, s \in {"uncertain", "retry"} :
          /\ Afresh(ledger[d], s) \in Row /\ Afresh(ledger[d], s).state = s
          /\ Afresh(ledger[d], s).rowid = ledger[d].rowid
    <3> SUFFICES ASSUME NEW d \in Deliveries, NEW s \in {"uncertain", "retry"}
                 PROVE  /\ Afresh(ledger[d], s) \in Row /\ Afresh(ledger[d], s).state = s
                        /\ Afresh(ledger[d], s).rowid = ledger[d].rowid
      OBVIOUS
    <3>1. s \in State /\ ledger[d] \in Row  BY <1>2 DEF State
    <3> QED  BY <3>1, RowWrites, RowidsKept
  <2>2. \A d \in D : draft[d].op # "update" /\ ledger[d].state = "failed"
    BY DEF NewestInv, CardsAnswered
  <2> QED  BY <1>2, <2>1, <2>2 DEF Revived
<1> HIDE DEF rows
<1>4. \A d \in Deliveries :
        \/ ledger'[d] = rows[d] /\ rows[d].state # "sending"
        \/ /\ rows[d].state = "sending" /\ ledger'[d].state \in {"uncertain", "retry"}
           /\ ledger'[d].rowid = rows[d].rowid
  <2>1. \A d \in Deliveries, s \in {"uncertain", "retry"} :
          DueAs(rows[d], s).state = s /\ DueAs(rows[d], s).rowid = rows[d].rowid
    <3> SUFFICES ASSUME NEW d \in Deliveries, NEW s \in {"uncertain", "retry"}
                 PROVE  DueAs(rows[d], s).state = s /\ DueAs(rows[d], s).rowid = rows[d].rowid
      OBVIOUS
    <3>1. s \in State /\ rows[d] \in Row  BY <1>3 DEF State
    <3> QED  BY <3>1, RowWrites, RowidsKept
  <2>2. ledger' = Recovered(rows)  BY <1>1 DEF rows
  <2> QED  BY <2>1, <2>2 DEF Recovered
<1>5. IInv'  BY RestartStep DEF NewestInv
<1>6. CardsKept  BY <1>3, <1>4 DEF CardsKept
<1>7. SearchRight'  BY <1>2 DEF SearchRight
<1>8. \A c \in Deliveries : ledger'[c].state # "sending"  BY <1>4
<1> QED  BY <1>2, <1>5, <1>6, <1>7, <1>8, CardsStep
-----------------------------------------------------------------------------
(* A drain's answer moves the row that it has in hand out of "sending".     *)
LEMMA RetriedCards ==
    ASSUME NEW rows \in [Deliveries -> Row], NEW d \in Deliveries,
           NEW outcome \in {"uncertain", "failed", "retry"}, NEW due \in BOOLEAN
    PROVE  /\ \A e \in Deliveries :
                /\ RetriedTo(rows, d, outcome, due)[e].rowid = rows[e].rowid
                /\ e # d \/ rows[d].state # "sending" => RetriedTo(rows, d, outcome, due)[e] = rows[e]
           /\ rows[d].state = "sending" =>
                RetriedTo(rows, d, outcome, due)[d].state \in {"superseded", "uncertain", "failed", "retry"}
<1> DEFINE s == IF NewerIntent(rows, d) THEN "superseded" ELSE outcome
<1>1. s \in State /\ s \in {"superseded", "uncertain", "failed", "retry"}  BY DEF State
<1>2. RetriedTo(rows, d, outcome, due) =
        IF rows[d].state # "sending" THEN rows ELSE [rows EXCEPT ![d] = Again(rows[d], s, due)]
  BY DEF RetriedTo
<1> HIDE DEF s
<1>3. /\ Again(rows[d], s, due).state = s /\ Again(rows[d], s, due).rowid = rows[d].rowid
      /\ rows[d] \in Row
  BY <1>1, RowWrites, RowidsKept
<1> QED  BY <1>1, <1>2, <1>3

LEMMA FinishedCards ==
    ASSUME NEW rows \in [Deliveries -> Row], NEW d \in Deliveries, NEW from
    PROVE  \A e \in Deliveries :
             /\ Finished(rows, d, from)[e].rowid = rows[e].rowid
             /\ \/ Finished(rows, d, from)[e] = rows[e]
                \/ e = d /\ rows[d].state = from /\ Finished(rows, d, from)[e].state = "sent"
                \/ /\ draft[e].op = "file" /\ rows[e].state = "failed"
                   /\ Finished(rows, d, from)[e].state = "replaced"
             /\ e = d /\ rows[d].state = from => Finished(rows, d, from)[e].state = "sent"
<1>1. \A e \in Deliveries :
        /\ To(rows[e], "sent").state = "sent" /\ To(rows[e], "sent").rowid = rows[e].rowid
        /\ To(rows[e], "replaced").state = "replaced" /\ To(rows[e], "replaced").rowid = rows[e].rowid
  BY RowWrites, RowidsKept DEF State
<1>2. CASE rows[d].state = from  BY <1>1, <1>2 DEF Finished
<1>3. CASE rows[d].state # from  BY <1>3 DEF Finished
<1> QED  BY <1>2, <1>3

LEMMA CheckNewest ==
    ASSUME NewestInv, NEW verdict \in Verdicts, Check(verdict)
    PROVE  NewestInv'
<1> DEFINE d == sender.item
<1>1. /\ ledger \in [Deliveries -> Row] /\ sender.phase = "leased"
      /\ d \in Deliveries /\ sender \in Sending /\ Idle.phase = "idle"
      /\ UNCHANGED <<finder, slack, draft>>
  BY HandTypes DEF Check, NewestInv, IInv, TypeOK
<1>2. IInv' /\ SearchRight'
  BY <1>1, CheckStep DEF NewestInv, SearchRight, SearchedFor
<1>3. \/ ledger' = ledger /\ sender' = [phase |-> "calling", item |-> d]
      \/ /\ sender' = Idle
         /\ \A e \in Deliveries : /\ ledger'[e].rowid = ledger[e].rowid
                                  /\ e # d \/ ledger[d].state # "sending" => ledger'[e] = ledger[e]
         /\ ledger[d].state = "sending" =>
              ledger'[d].state \in {"superseded", "uncertain", "failed", "retry"}
  <2>1. CASE verdict = "newer"
    <3>1. /\ To(ledger[d], "superseded").state = "superseded"
          /\ To(ledger[d], "superseded").rowid = ledger[d].rowid
      BY <1>1, RowWrites, RowidsKept DEF State
    <3>2. /\ ledger' = (IF ledger[d].state = "sending"
                       THEN [ledger EXCEPT ![d] = To(ledger[d], "superseded")] ELSE ledger)
          /\ sender' = Idle
      BY <2>1 DEF Check
    <3> HIDE DEF d
    <3> QED  BY <1>1, <3>1, <3>2
  <2>2. CASE verdict = "unread"
    <3>1. ledger' = RetriedTo(ledger, d, "retry", TRUE) /\ sender' = Idle
      BY <2>2 DEF Check, Retried, RetriedTo
    <3> HIDE DEF d
    <3> QED  BY <1>1, <3>1, RetriedCards
  <2>3. CASE verdict \in {"unwritable", "illegible"}
    <3>1. ledger' = RetriedTo(ledger, d, "failed", TRUE) /\ sender' = Idle
      BY <2>3 DEF Check, Retried, RetriedTo
    <3> HIDE DEF d
    <3> QED  BY <1>1, <3>1, RetriedCards
  <2>4. CASE verdict = "call"
    <3>1. ledger' = ledger /\ sender' = [sender EXCEPT !.phase = "calling"]
      BY <2>4 DEF Check
    <3> QED  BY <1>1, <3>1 DEF Sending
  <2> QED  BY <2>1, <2>2, <2>3, <2>4 DEF Verdicts
<1>4. \A c \in Deliveries : draft[c].op = "update" /\ Ordered(c) /\ ledger[c].state = "sending" => c = d
  BY DEF NewestInv, CardInHand
<1> HIDE DEF d
<1>5. CardsKept  BY <1>1, <1>3 DEF CardsKept
<1>6. CASE ledger' = ledger /\ sender' = [phase |-> "calling", item |-> d]
  BY <1>1, <1>2, <1>5, <1>6, CardsStep DEF d
<1>7. CASE sender' = Idle
  <2>1. \A c \in Deliveries : draft[c].op = "update" /\ Ordered(c) => ledger'[c].state # "sending"
    BY <1>1, <1>3, <1>4, <1>7
  <2> QED  BY <1>1, <1>2, <1>5, <1>7, <2>1, CardsStep
<1> QED  BY <1>3, <1>6, <1>7

LEMMA RecordNewest ==
    ASSUME NewestInv, NEW stored \in {"done", "unconfirmed", "lost"}, Record(stored)
    PROVE  NewestInv'
<1> DEFINE d == sender.item
           refused == sender.answer = "refused"
           terminal == refused \/ Exhausted(ledger[d].failures)
           uncertain == SearchedFor(d) /\ ~refused
<1>1. /\ ledger \in [Deliveries -> Row] /\ sender.phase = "answered"
      /\ d \in Deliveries /\ Idle.phase = "idle"
      /\ UNCHANGED <<finder, slack, draft>>
  BY HandTypes DEF Record, NewestInv, IInv, TypeOK
<1>2. IInv' /\ SearchRight'
  BY <1>1, RecordStep DEF NewestInv, SearchRight, SearchedFor
<1>3. \/ /\ ledger' = Finished(ledger, d, "sending") /\ sender' = Idle
         /\ sender.answer = "ok"
      \/ ledger' = RetriedTo(ledger, d, IF SearchedFor(d) THEN "uncertain" ELSE "retry", FALSE)
         /\ sender' = Idle
      \/ /\ ledger' = RetriedTo(ledger, d, IF uncertain THEN "uncertain"
                                           ELSE IF terminal THEN "failed" ELSE "retry", FALSE)
         /\ sender' \in {Idle, [phase |-> "notify", item |-> d]}
      \/ ledger' = ledger /\ sender' = Idle /\ draft[d].op \in RecordFails
  BY DEF Record, GivenUp, Retried, RetriedTo
<1>4. /\ \/ ledger' = Finished(ledger, d, "sending") /\ sender.answer = "ok"
         \/ \E outcome \in {"uncertain", "failed", "retry"} :
              ledger' = RetriedTo(ledger, d, outcome, FALSE)
         \/ ledger' = ledger /\ draft[d].op \in RecordFails
      /\ sender'.phase \in {"idle", "notify"}
  <2>1. sender' \in {Idle, [phase |-> "notify", item |-> d]}  BY <1>3
  <2>2. sender'.phase \in {"idle", "notify"}  BY <1>1, <2>1
  <2>3. \/ ledger' = Finished(ledger, d, "sending") /\ sender.answer = "ok"
        \/ ledger' = RetriedTo(ledger, d, "uncertain", FALSE)
        \/ ledger' = RetriedTo(ledger, d, "failed", FALSE)
        \/ ledger' = RetriedTo(ledger, d, "retry", FALSE)
        \/ ledger' = ledger /\ draft[d].op \in RecordFails
    BY <1>3
  <2> QED  BY <2>2, <2>3
<1>5. \A c \in Deliveries : draft[c].op = "update" /\ Ordered(c) /\ ledger[c].state = "sending" => c = d
  BY DEF NewestInv, CardInHand
<1>6. sender.item = d  OBVIOUS
<1> HIDE DEF d, terminal, uncertain
<1>7. CardsKept /\ \A c \in Deliveries :
                     draft[c].op = "update" /\ Ordered(c) => ledger'[c].state # "sending"
  <2>1. CASE ledger' = Finished(ledger, d, "sending") /\ sender.answer = "ok"
    <3>1. \A e \in Deliveries :
            /\ ledger'[e].rowid = ledger[e].rowid
            /\ \/ ledger'[e] = ledger[e]
               \/ e = d /\ ledger[d].state = "sending" /\ ledger'[e].state = "sent"
               \/ /\ draft[e].op = "file" /\ ledger[e].state = "failed"
                  /\ ledger'[e].state = "replaced"
            /\ e = d /\ ledger[d].state = "sending" => ledger'[e].state = "sent"
      BY <1>1, <2>1, FinishedCards
    <3> QED  BY <1>1, <1>5, <1>6, <2>1, <3>1 DEF CardsKept
  <2>2. ASSUME NEW outcome \in {"uncertain", "failed", "retry"},
               ledger' = RetriedTo(ledger, d, outcome, FALSE)
        PROVE  CardsKept /\ \A c \in Deliveries :
                              draft[c].op = "update" /\ Ordered(c) => ledger'[c].state # "sending"
    <3>1. /\ \A e \in Deliveries :
               /\ ledger'[e].rowid = ledger[e].rowid
               /\ e # d \/ ledger[d].state # "sending" => ledger'[e] = ledger[e]
          /\ ledger[d].state = "sending" =>
               ledger'[d].state \in {"superseded", "uncertain", "failed", "retry"}
      BY <1>1, <2>2, RetriedCards
    <3> QED  BY <1>1, <1>5, <3>1 DEF CardsKept
  <2>3. CASE ledger' = ledger /\ draft[d].op \in RecordFails
    <3>1. draft[d].op # "update"  BY <2>3 DEF NewestInv, CardsAnswered
    <3> QED  BY <1>5, <2>3, <3>1 DEF CardsKept
  <2> QED  BY <1>4, <2>1, <2>2, <2>3
<1> QED  BY <1>1, <1>2, <1>4, <1>7, CardsStep

LEMMA SearchNewest ==
    ASSUME NewestInv, NEW outcome \in Outcomes, Search(outcome)
    PROVE  NewestInv'
<1>1. PICK d \in Deliveries : SearchedFor(d) /\ finder' = [phase |-> outcome, item |-> d]
  BY DEF Search, history, Oldest, Uncertain
<1>2. UNCHANGED <<ledger, sender, slack, draft>>  BY DEF Search, history
<1>3. IInv'  BY SearchStep DEF NewestInv
<1>4. CardsKept /\ SearchRight'
  BY <1>1, <1>2 DEF CardsKept, SearchRight, SearchedFor
<1> QED  BY <1>2, <1>3, <1>4, CardsStep

(* What the finder settles is no card and no reaction.                      *)
LEMMA SettleNewest ==
    ASSUME NewestInv, NEW stored \in BOOLEAN, Settle(stored)
    PROVE  NewestInv'
<1> DEFINE d == finder.item
<1>0. TypeOK  BY DEF NewestInv, IInv
<1>1. /\ d \in Deliveries /\ finder.phase \in Outcomes
      /\ finder' \in {Idle, [phase |-> "notify", item |-> d]}
      /\ \A e \in Deliveries :
           /\ ledger'[e].rowid = ledger[e].rowid
           /\ \/ ledger'[e] = ledger[e]
              \/ /\ e = d /\ ledger[e].state = "uncertain"
                 /\ ledger'[e].state \in {"sent", "retry", "uncertain", "failed"}
              \/ /\ ledger[e].state = "failed" /\ ledger'[e].state = "replaced"
                 /\ draft[e].op = "file"
  BY <1>0, SettleWrites
<1>2. IInv' /\ UNCHANGED <<sender, slack, draft>>  BY SettleStep DEF NewestInv, Settle
<1>3. SearchedFor(d) /\ ~Ordered(d)
  BY <1>1 DEF NewestInv, SearchRight, SearchedFor, Ordered, Outcomes
<1>4. SearchRight'  BY <1>1, <1>2, <1>3 DEF SearchRight, SearchedFor, Idle
<1>5. CardsKept  BY <1>1, <1>3 DEF CardsKept, Ordered
<1> QED  BY <1>2, <1>4, <1>5, CardsStep
-----------------------------------------------------------------------------
(* A card or reaction that is taken is the newest that can still be sent.   *)
LEMMA LeaseNewest ==
    ASSUME NewestInv, NEW cooling, Lease(cooling)
    PROVE  NewestInv'
<1> DEFINE rows == Fenced(ledger)
<1>1. /\ ledger \in [Deliveries -> Row] /\ sender = Idle /\ sender.phase = "idle"
      /\ draft \in Drafts
      /\ UNCHANGED <<finder, slack, draft>>
  BY DEF Lease, history, NewestInv, IInv, TypeOK, Idle
<1>2. IInv' /\ SearchRight'
  BY <1>1, LeaseStep DEF NewestInv, SearchRight, SearchedFor
<1>3. \A e \in Deliveries :
        /\ rows[e].rowid = ledger[e].rowid
        /\ rows[e] = ledger[e] \/ rows[e].state = "superseded"
        /\ rows[e].state = "superseded" => ledger[e].state # "absent"
        /\ rows[e].state \in {"pending", "retry"} => ~NewerIntent(ledger, e)
  <2>1. \A e \in Deliveries : /\ To(ledger[e], "superseded").state = "superseded"
                             /\ To(ledger[e], "superseded").rowid = ledger[e].rowid
    BY <1>1, RowWrites, RowidsKept DEF State
  <2> QED  BY <2>1 DEF Fenced, Queued, In
<1>4. rows \in [Deliveries -> Row]  BY <1>1, LedgerTypes DEF Fenced
<1> HIDE DEF rows
<1>5. \A c \in Deliveries : draft[c].op = "update" /\ Ordered(c) => ledger[c].state # "sending"
  BY <1>1 DEF NewestInv, CardInHand
<1>6. CASE ledger' = rows /\ sender' = sender
  <2>1. CardsKept  BY <1>3, <1>6 DEF CardsKept
  <2> QED  BY <1>1, <1>2, <1>6, <2>1, CardsStep
<1>7. ASSUME NEW d \in Deliveries, rows[d].state \in {"pending", "retry"},
             ledger' = [rows EXCEPT ![d] = To(rows[d], "sending")],
             sender' = [phase |-> "leased", item |-> d]
      PROVE  NewestInv'
  <2>1. /\ ledger'[d].state = "sending" /\ ledger'[d].rowid = ledger[d].rowid
        /\ ledger[d].state \in {"pending", "retry"}
        /\ \A e \in Deliveries \ {d} : ledger'[e] = rows[e]
    <3>1. To(rows[d], "sending").state = "sending" /\ To(rows[d], "sending").rowid = rows[d].rowid
      BY <1>4, RowWrites, RowidsKept DEF State
    <3> QED  BY <1>3, <1>4, <1>7, <3>1
  <2>2. \A e \in Deliveries :
          /\ ledger'[e].rowid = ledger[e].rowid
          /\ ledger[e].state # "absent" => ledger'[e].state # "absent"
          /\ ledger'[e].state = "sent" => ledger[e].state = "sent"
          /\ ledger'[e].state \in {"pending", "sending", "retry"} =>
               ledger[e].state \in {"pending", "sending", "retry"}
    BY <1>3, <2>1
  <2>3. \A c, o : (Ordered(c)' <=> Ordered(c)) /\ (SameKey(c, o)' <=> SameKey(c, o))
    BY <1>1 DEF Ordered, SameKey
  <2>4. CardInHand'
    <3> SUFFICES ASSUME NEW c \in Deliveries, draft[c].op = "update", Ordered(c),
                        ledger'[c].state = "sending"
                 PROVE  c = d
      BY <1>1, <1>7, <2>3 DEF CardInHand
    <3> QED  BY <1>3, <1>5, <2>1
  <2>5. OldCardsOver'
    <3> SUFFICES ASSUME NEW c \in Deliveries, NEW o \in Deliveries,
                        draft[c].op = "update", Ordered(c), SameKey(c, o),
                        draft[o].version < draft[c].version,
                        ledger'[c].state \in {"pending", "sending", "retry", "sent"}
                 PROVE  ledger'[o].state \notin {"pending", "sending", "retry"}
      BY <1>1, <2>3 DEF OldCardsOver
    <3>1. ledger[c].state \in {"pending", "sending", "retry", "sent"}  BY <2>2
    <3> QED  BY <2>2, <3>1 DEF NewestInv, OldCardsOver
  <2>6. HandNotOld'
    <3> SUFFICES ASSUME Ordered(d)
                 PROVE  \A e \in Deliveries \ {d} :
                          SameKey(e, d) /\ ledger'[e].state = "sent" =>
                            IF draft[e].version = 0 THEN ~Later(ledger', d, e)
                            ELSE draft[e].version <= draft[d].version
      BY <1>1, <1>7, <2>1, <2>3 DEF HandNotOld, Later
    <3> SUFFICES ASSUME NEW e \in Deliveries \ {d}, SameKey(e, d), ledger'[e].state = "sent"
                 PROVE  IF draft[e].version = 0 THEN ~Later(ledger', d, e)
                        ELSE draft[e].version <= draft[d].version
      OBVIOUS
    <3>1. /\ SameKey(d, e) /\ ledger[e].state = "sent" /\ Ordered(e)
          /\ draft[e].op = draft[d].op
          /\ draft[d].op = "reaction" => draft[e].version = 0
          /\ draft[d].op = "update" => draft[e].version > 0
          /\ draft[e].version \in Nat /\ draft[d].version \in Nat
      BY <1>1, <2>2, KeyShared, DraftType DEF SameKey
    <3>2. CASE draft[d].op = "reaction"
      <4>1. ~Later(ledger, d, e)  BY <1>3, <1>7, <3>1, <3>2 DEF NewerIntent
      <4> QED  BY <2>2, <3>1, <3>2, <4>1 DEF Later
    <3>3. CASE draft[d].op = "update"
      <4>1. ~(draft[d].version < draft[e].version)
        BY <2>1, <3>1, <3>3 DEF NewestInv, OldCardsOver
      <4> QED  BY <3>1, <3>3, <4>1
    <3> QED  BY <3>2, <3>3 DEF Ordered
  <2>7. AnswerShown'  BY <1>7 DEF AnswerShown
  <2>8. NewestShown'
    <3> SUFFICES ASSUME NEW c \in Deliveries, Ordered(c), ledger'[c].state = "sent", Newest(c)'
                 PROVE  slack.shows[draft[c].key] = c
      BY <1>1, <2>3 DEF NewestShown
    <3>1. Newest(c)  BY <1>1, <2>2 DEF Newest, Later, SameKey
    <3> QED  BY <2>2, <3>1 DEF NewestInv, NewestShown
  <2> QED  BY <1>2, <2>4, <2>5, <2>6, <2>7, <2>8 DEF NewestInv, CardsAnswered
<1>8. \A S : First(rows, S) \subseteq S  BY DEF First
<1>9. \A d \in Leasable(rows, cooling) : d \in Deliveries /\ rows[d].state \in {"pending", "retry"}
  BY DEF Leasable, Queued, In
<1> QED  BY <1>6, <1>7, <1>8, <1>9 DEF Lease, rows

(* Slack shows what it was called for, and no newer one was sent before.    *)
LEMMA CallNewest ==
    ASSUME NewestInv, NEW accepted \in BOOLEAN, NEW answer \in {"ok", "error", "refused"},
           Call(accepted, answer)
    PROVE  NewestInv'
<1> DEFINE d == sender.item
<1>1. /\ sender.phase = "calling" /\ d \in Deliveries /\ draft \in Drafts
      /\ sender' = [phase |-> "answered", item |-> d, answer |-> answer]
      /\ answer = "ok" => accepted
      /\ UNCHANGED <<ledger, finder, draft>>
  BY HandTypes DEF Call, history, NewestInv, IInv, TypeOK
<1>2. slack' = IF ~accepted THEN slack
               ELSE IF SearchedFor(d)
                    THEN [slack EXCEPT !.copies[d] = IF @ < 2 THEN @ + 1 ELSE @]
                    ELSE [slack EXCEPT !.shows[draft[d].key] = d]
  BY DEF Call, history
<1>3. slack \in [copies : [Deliveries -> 0..2], shows : [Keys -> Deliveries \cup {None}]]
  BY DEF NewestInv, IInv, TypeOK
<1>4. IInv' /\ SearchRight'
  BY <1>1, CallStep DEF NewestInv, SearchRight, SearchedFor
<1>5. \A c, o : (Ordered(c)' <=> Ordered(c)) /\ (SameKey(c, o)' <=> SameKey(c, o))
  BY <1>1 DEF Ordered, SameKey
<1>6. CardInHand'  BY <1>1, <1>5 DEF NewestInv, CardInHand
<1>7. OldCardsOver'  BY <1>1, <1>5 DEF NewestInv, OldCardsOver
<1>8. HandNotOld'  BY <1>1 DEF HandNotOld
<1>9. \A k \in Keys : \/ slack'.shows[k] = slack.shows[k]
                      \/ slack'.shows[k] = d /\ k = draft[d].key /\ ~SearchedFor(d)
  BY <1>2, <1>3
<1>10. AnswerShown'
  <2> SUFFICES ASSUME answer = "ok", Ordered(d)
               PROVE  slack'.shows[draft[d].key] = d
    BY <1>1, <1>5 DEF AnswerShown
  <2>1. draft[d].key \in Keys /\ ~SearchedFor(d)  BY <1>1 DEF Keys, Ordered, SearchedFor
  <2> QED  BY <1>1, <1>2, <1>3, <2>1
<1>11. NewestShown'
  <2> SUFFICES ASSUME NEW c \in Deliveries, Ordered(c), ledger[c].state = "sent", Newest(c)
               PROVE  slack'.shows[draft[c].key] = c
    BY <1>1, <1>5 DEF NewestShown, Newest, SameKey, Later
  <2>1. slack.shows[draft[c].key] = c  BY DEF NewestInv, NewestShown
  <2>2. draft[c].key \in Keys  BY DEF Keys, Ordered
  <2>3. CASE draft[c].key = draft[d].key /\ c # d
    <3>1. SameKey(c, d) /\ Ordered(d)  BY <1>1, <2>3, KeyShared DEF SameKey, Ordered
    <3>2. /\ ledger[d].state # "absent"
          /\ IF draft[c].version = 0 THEN ~Later(ledger, d, c)
             ELSE draft[c].version <= draft[d].version
      BY <1>1, <2>3, <3>1 DEF NewestInv, HandNotOld
    <3>3. IF draft[c].version = 0 THEN Later(ledger, d, c)
          ELSE draft[d].version < draft[c].version
      BY <1>1, <2>3, <3>1, <3>2 DEF Newest
    <3>4. draft[c].version \in Nat /\ draft[d].version \in Nat  BY <1>1, DraftType
    <3> QED  BY <3>2, <3>3, <3>4
  <2>4. CASE draft[c].key # draft[d].key \/ c = d  BY <1>9, <2>1, <2>2, <2>4
  <2> QED  BY <2>3, <2>4
<1> QED  BY <1>4, <1>6, <1>7, <1>8, <1>10, <1>11 DEF NewestInv, CardsAnswered
-----------------------------------------------------------------------------
LEMMA InitNewest == CardsAnswered /\ Init => NewestInv
<1> SUFFICES ASSUME CardsAnswered, Init PROVE NewestInv  OBVIOUS
<1>1. \A d \in Deliveries : ledger[d].state = "absent"  BY DEF Init, Absent
<1>2. sender.phase = "idle" /\ finder.phase = "idle"  BY DEF Init, Idle
<1> QED
  BY <1>1, <1>2, InitInv
  DEF NewestInv, SearchRight, CardInHand, OldCardsOver, HandNotOld, AnswerShown, NewestShown

LEMMA NextNewest == NewestInv /\ [Next]_vars => NewestInv'
<1> SUFFICES ASSUME NewestInv, [Next]_vars PROVE NewestInv'  OBVIOUS
<1>1. CASE Send
  <2>1. ASSUME NEW cooling \in SUBSET Channels, Lease(cooling) PROVE NewestInv'
    BY <2>1, LeaseNewest
  <2>2. ASSUME NEW verdict \in Verdicts, Check(verdict) PROVE NewestInv'  BY <2>2, CheckNewest
  <2>3. ASSUME NEW accepted \in BOOLEAN, NEW answer \in {"ok", "error", "refused"},
               Call(accepted, answer)
        PROVE  NewestInv'
    BY <2>3, CallNewest
  <2>4. ASSUME NEW stored \in {"done", "unconfirmed", "lost"}, Record(stored) PROVE NewestInv'
    BY <2>4, RecordNewest
  <2> QED  BY <1>1, <2>1, <2>2, <2>3, <2>4 DEF Send
<1>2. CASE Reconcile
  <2>1. ASSUME NEW outcome \in Outcomes, Search(outcome)
        PROVE  NewestInv'
    BY <2>1, SearchNewest
  <2>2. ASSUME NEW stored \in BOOLEAN, Settle(stored) PROVE NewestInv'  BY <2>2, SettleNewest
  <2> QED  BY <1>2, <2>1, <2>2 DEF Reconcile
<1>3. ASSUME NEW d \in Deliveries, Enqueue(d) PROVE NewestInv'  BY <1>3, EnqueueNewest
<1>4. ASSUME NEW d \in Deliveries, Elapse(d) PROVE NewestInv'  BY <1>4, ElapseNewest
<1>5. ASSUME NEW s \in Sources, Overtake(s) PROVE NewestInv'  BY <1>5, OvertakeNewest
<1>6. ASSUME NEW s \in Sources, CancelReplay(s) PROVE NewestInv'  BY <1>6, CancelNewest
<1>7. CASE UNCHANGED vars
  <2>1. UNCHANGED <<draft, ledger, sender, finder, slack>>  BY <1>7 DEF vars
  <2>2. IInv'  BY <1>7, NextInv DEF NewestInv
  <2>3. CardsKept /\ SearchRight'
    BY <2>1 DEF CardsKept, NewestInv, SearchRight, SearchedFor
  <2> QED  BY <2>1, <2>2, <2>3, CardsStep
<1>8. ASSUME NEW stored \in BOOLEAN, Announce(stored) PROVE NewestInv'  BY <1>8, AnnounceNewest
<1> QED
  BY <1>1, <1>2, <1>3, <1>4, <1>5, <1>6, <1>7, <1>8, RetryVisualNewest, RestartNewest
  DEF Next

(* The newest card or reaction that was sent is the one Slack shows, as     *)
(* long as the drain records the answers of cards and nobody revives a card *)
(* that failed: nothing compares it then with those that went out since.    *)
THEOREM NewestStays == CardsAnswered /\ Spec => []NewestShown
<1>1. NewestInv => NewestShown  BY DEF NewestInv
<1> QED  BY <1>1, InitNewest, NextNewest, PTL DEF Spec
=============================================================================
