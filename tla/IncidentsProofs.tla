---------------------------- MODULE IncidentsProofs ----------------------------
(***************************************************************************)
(* Proofs about Incidents for any deliveries, keys and limits: no alert of *)
(* a delivery that is done was dropped, an open incident is active exactly *)
(* while a signal of it fires, and no more are open than the limit admits. *)
(***************************************************************************)
EXTENDS Incidents, WellFoundedInduction, SequenceTheorems, FiniteSetTheorems, TLAPS

Statuses == {"none", "active", "monitoring", "resolved", "closed"}
Workflows == {"none", "provisioning_channel", "provisioning_session", "holding",
              "investigating", "parked", "blocked", "closing", "closed"}
Row == [status : Statuses, workflow : Workflows, key : {Key[s] : s \in Signals} \cup {"none"},
        room : {"none", "bound", "rooted"}, writable : BOOLEAN, session : BOOLEAN]
Event == [state : {"absent", "pending", "processing", "retry", "done", "failed"},
          due : BOOLEAN, attempts : Nat, applied : BOOLEAN, kept : SUBSET Nat]
Signal == [incident : 0..MaxIncidents, status : {"none", "firing", "resolved"}]

Typed ==
    /\ plan \in Plans
    /\ arrived \in Seq(Events)
    /\ event \in [Events -> Event]
    /\ sig \in [Signals -> Signal]
    /\ inc \in [Incident -> Row]
    /\ recent \in Seq(Incident)
    /\ coop \in [Incident -> {"none", "open", "ended"}]
    /\ worker \in [phase : {"idle", "apply", "settle"}, event : Events \cup {"none"}]
    /\ job \in [Incident -> {"idle", "making", "checking", "creating", "binding"}]
    /\ poll \in [incident : 0..MaxIncidents, writable : BOOLEAN, ended : BOOLEAN]
    /\ closer \in [phase : {"idle", "ordered", "closing"}, incident : 0..MaxIncidents,
                   session : BOOLEAN, previous : Workflows \ {"closing"}]
    /\ spent \in [closes : 0..MaxCloses, troubles : Nat]

(* The tables of incidents and signals: incidents are numbered in the order *)
(* they were opened, what is not one yet was never written, a signal names  *)
(* one, the status follows the signals, and the limit is kept.              *)
Numbered(db) == \A i \in Known(db), j \in Incident : j < i => j \in Known(db)
Untouched(db) ==
    \A i \in Incident \ Known(db) :
        db.inc[i] = NoIncident /\ \A n \in DOMAIN db.recent : db.recent[n] # i
SignalsKnown(db) == \A s \in Signals : db.sig[s].incident \in Known(db) \cup {0}
Truthful(db) ==
    \A i \in Opened(db) : (db.inc[i].status = "active") <=> (Status(db.sig, i) = "active")
Limited(db) == Cardinality(Opened(db)) <= plan.open
Sound(db) ==
    Numbered(db) /\ Untouched(db) /\ SignalsKnown(db) /\ Truthful(db) /\ Limited(db)
Tables == [sig |-> sig, inc |-> inc, recent |-> recent]

(* A delivery is done only when it was applied, and applied only when each  *)
(* of its alerts was; the worker has one that is being processed.           *)
DeliveryRight ==
    /\ worker.phase # "idle" =>
         worker.event \in Events /\ event[worker.event].state = "processing"
    /\ \A e \in Events :
          /\ event[e].kept \subseteq 1..Len(Alerts[e])
          /\ event[e].applied => event[e].kept = 1..Len(Alerts[e])
          /\ event[e].state = "done" => event[e].applied

(* Nobody works at what is not an incident yet.                             *)
WorkRight ==
    \A i \in Incident : inc[i].status = "none" =>
        job[i] = "idle" /\ coop[i] = "none" /\ poll.incident # i /\ closer.incident # i

(* A session is made for an incident that has none, and an end that was     *)
(* read is not undone.                                                      *)
SessionRight ==
    /\ \A i \in Incident : job[i] \in {"checking", "creating", "binding"} => ~inc[i].session
    /\ poll.incident # 0 => inc[poll.incident].session
    /\ poll.ended => poll.incident # 0 /\ coop[poll.incident] = "ended"

(* One incident at a time is being closed, by the closer.                   *)
CloserRight ==
    /\ closer.phase = "idle" <=> closer.incident = 0
    /\ \A i \in Incident : inc[i].workflow = "closing" =>
         inc[i].status # "closed" /\ closer.phase = "closing" /\ closer.incident = i

(* Each incident that is closed, or may be, was paid for.                   *)
Ending == {i \in Incident : inc[i].status = "closed" \/ coop[i] = "ended" \/ closer.incident = i}
Paid == Cardinality(Ending) <= spent.closes

IInv ==
    /\ Typed /\ Sound(Tables) /\ DeliveryRight /\ WorkRight /\ SessionRight
    /\ CloserRight /\ Paid
-----------------------------------------------------------------------------
(* Every nonempty set of numbers has a least, and a bounded one a greatest. *)
LEMMA Least ==
    ASSUME NEW T \in SUBSET Nat, T # {}
    PROVE  \E x \in T : \A y \in T : x <= y
<1> DEFINE R == {ss \in Nat \X Nat : ss[1] < ss[2]}
<1>1. IsWellFoundedOn(R, Nat)  BY NatLessThanWellFounded DEF OpToRel
<1>2. \A x, y \in Nat : y < x => <<y, x>> \in R  OBVIOUS
<1> HIDE DEF R
<1>3. PICK x \in T : \A y \in T : ~(<<y, x>> \in R)  BY <1>1, WFMin
<1>4. \A y \in T : ~(y < x)  BY <1>2, <1>3
<1>5. \A y \in T : x <= y  BY <1>4
<1> QED  BY <1>5

LEMMA MinMax ==
    ASSUME NEW n \in Nat, NEW S \in SUBSET (1..n), S # {}
    PROVE  Min(S) \in S /\ Max(S) \in S
<1>1. Min(S) \in S
  <2>1. S \in SUBSET Nat  OBVIOUS
  <2>2. PICK x \in S : \A y \in S : x <= y  BY <2>1, Least
  <2> QED  BY <2>2 DEF Min
<1>2. Max(S) \in S
  <2> DEFINE T == {n - y : y \in S}
  <2>1. T \in SUBSET Nat /\ T # {}
    <3>1. \A y \in S : n - y \in Nat  OBVIOUS
    <3> QED  BY <3>1
  <2>2. PICK x \in T : \A y \in T : x <= y  BY <2>1, Least
  <2>3. PICK m \in S : x = n - m  BY <2>2
  <2>4. \A y \in S : m >= y  BY <2>2, <2>3
  <2> QED  BY <2>4 DEF Max
<1> QED  BY <1>1, <1>2

(* A write moves an incident to the end of the window and adds no other.    *)
LEMMA BumpFacts ==
    ASSUME NEW order \in Seq(Incident), NEW i \in Incident
    PROVE  /\ Bump(order, i) \in Seq(Incident)
           /\ \A n \in DOMAIN Bump(order, i) :
                 Bump(order, i)[n] = i \/ \E m \in DOMAIN order : order[m] = Bump(order, i)[n]
<1> DEFINE s == RemoveFirst(order, i)
           P == {n \in 1..Len(order) : order[n] = i}
<1>1. Len(order) \in Nat /\ DOMAIN order = 1..Len(order)
      /\ \A n \in 1..Len(order) : order[n] \in Incident
  BY LenProperties, ElementOfSeq
<1>2. /\ s \in Seq(Incident)
      /\ \A n \in 1..Len(s) : \E m \in DOMAIN order : order[m] = s[n]
  <2>1. CASE P = {}
    <3>1. s = order  BY <2>1 DEF RemoveFirst
    <3> QED  BY <1>1, <3>1
  <2>2. CASE P # {}
    <3> DEFINE k == Min(P)
               a == SubSeq(order, 1, k - 1)
               b == SubSeq(order, k + 1, Len(order))
    <3>1. k \in 1..Len(order)  BY <1>1, <2>2, MinMax
    <3>2. SelectInSeq(order, LAMBDA v : v = i) = k  BY <2>2 DEF SelectInSeq
    <3>3. s = a \o b  BY <2>2, <3>2 DEF RemoveFirst, RemoveAt
    <3> HIDE DEF k, s
    <3>4. /\ a \in Seq(Incident) /\ Len(a) = k - 1
          /\ \A n \in 1..(k - 1) : a[n] = order[n]
      <4>1. k - 1 \in Int /\ \A n \in 1..(k - 1) : order[n] \in Incident  BY <1>1, <3>1
      <4>2. /\ a \in Seq(Incident) /\ Len(a) = IF 1 <= k - 1 THEN k - 1 - 1 + 1 ELSE 0
            /\ \A n \in 1..(k - 1 - 1 + 1) : a[n] = order[1 + n - 1]
        BY <4>1, SubSeqProperties
      <4> HIDE DEF a
      <4> QED  BY <4>2, <3>1
    <3>5. /\ b \in Seq(Incident) /\ Len(b) = Len(order) - k
          /\ \A n \in 1..(Len(order) - k) : b[n] = order[k + n]
      <4> DEFINE m == k + 1
      <4>1. m \in Int /\ Len(order) \in Int /\ \A n \in m..Len(order) : order[n] \in Incident
        BY <1>1, <3>1
      <4>2. m = k + 1 /\ b = SubSeq(order, m, Len(order))  OBVIOUS
      <4> HIDE DEF m, b
      <4>3. /\ b \in Seq(Incident)
            /\ Len(b) = IF m <= Len(order) THEN Len(order) - m + 1 ELSE 0
            /\ \A n \in 1..(Len(order) - m + 1) : b[n] = order[m + n - 1]
        BY <4>1, <4>2, SubSeqProperties
      <4>4. m = k + 1 /\ (m <= Len(order) \/ Len(order) - k = 0)
        <5>1. m = k + 1  BY <4>2
        <5>2. k \in Int /\ k <= Len(order) /\ Len(order) \in Int  BY <3>1, <4>1
        <5> QED  BY <5>1, <5>2
      <4>5. Len(b) = Len(order) - k
        <5>1. Len(b) = IF m <= Len(order) THEN Len(order) - m + 1 ELSE 0  BY <4>3
        <5>2. CASE m <= Len(order)  BY <5>1, <5>2, <4>4, <3>1, <1>1
        <5>3. CASE ~(m <= Len(order))  BY <5>1, <5>3, <4>4
        <5> QED  BY <5>2, <5>3
      <4>6. ASSUME NEW n \in 1..(Len(order) - k) PROVE b[n] = order[k + n]
        <5>1. n \in 1..(Len(order) - m + 1) /\ m + n - 1 = k + n
          <6>1. m = k + 1 /\ k \in Int /\ Len(order) \in Int  BY <4>4, <3>1, <4>1
          <6> QED  BY <6>1
        <5> QED  BY <5>1, <4>3
      <4> QED  BY <4>3, <4>5, <4>6
    <3> HIDE DEF a, b
    <3>6. /\ a \o b \in Seq(Incident) /\ Len(a \o b) = Len(a) + Len(b)
          /\ \A n \in 1..(Len(a) + Len(b)) :
                (a \o b)[n] = IF n <= Len(a) THEN a[n] ELSE b[n - Len(a)]
      BY <3>4, <3>5, ConcatProperties
    <3>7. ASSUME NEW n \in 1..Len(s) PROVE \E m \in DOMAIN order : order[m] = s[n]
      <4>1. n \in 1..(k - 1 + (Len(order) - k))  BY <3>3, <3>4, <3>5, <3>6, <3>7
      <4>2. CASE n <= k - 1
        <5>1. n \in 1..(k - 1) /\ n \in 1..Len(order)  BY <4>1, <4>2, <3>1, <1>1
        <5>2. s[n] = a[n]  BY <3>3, <3>4, <3>6, <3>7, <4>2
        <5> QED  BY <1>1, <3>4, <5>1, <5>2
      <4>3. CASE ~(n <= k - 1)
        <5>1. n - (k - 1) \in 1..(Len(order) - k) /\ k + (n - (k - 1)) \in 1..Len(order)
          BY <4>1, <4>3, <3>1, <1>1
        <5>2. s[n] = b[n - (k - 1)]  BY <3>3, <3>4, <3>6, <3>7, <4>3
        <5> QED  BY <1>1, <3>5, <5>1, <5>2
      <4> QED  BY <4>2, <4>3
    <3> QED  BY <3>3, <3>6, <3>7
  <2> QED  BY <2>1, <2>2
<1> HIDE DEF s
<1>3. /\ Append(s, i) \in Seq(Incident) /\ Len(Append(s, i)) = Len(s) + 1
      /\ \A n \in 1..Len(s) : Append(s, i)[n] = s[n]
      /\ Append(s, i)[Len(s) + 1] = i
  BY <1>2, AppendProperties
<1>4. DOMAIN Append(s, i) = 1..(Len(s) + 1) /\ Len(s) \in Nat  BY <1>2, <1>3, LenProperties
<1>5. \A n \in DOMAIN Append(s, i) :
        Append(s, i)[n] = i \/ \E m \in DOMAIN order : order[m] = Append(s, i)[n]
  <2> SUFFICES ASSUME NEW n \in 1..(Len(s) + 1)
               PROVE  Append(s, i)[n] = i \/ \E m \in DOMAIN order : order[m] = Append(s, i)[n]
    BY <1>4
  <2>1. n \in 1..Len(s) \/ n = Len(s) + 1  BY <1>4
  <2> QED  BY <2>1, <1>2, <1>3
<1> QED  BY <1>3, <1>5 DEF Bump, s

(* Sets of incidents are finite, and adding one element adds one at most.   *)
LEMMA Count ==
    ASSUME NEW S \in SUBSET Incident, NEW T \in SUBSET Incident
    PROVE  /\ IsFiniteSet(S) /\ Cardinality(S) \in Nat
           /\ T \subseteq S => Cardinality(T) <= Cardinality(S)
           /\ \A x : T \subseteq S \cup {x} => Cardinality(T) <= Cardinality(S) + 1
<1>1. IsFiniteSet(Incident)  BY IncidentAssumption, FS_Interval DEF Incident
<1>2. IsFiniteSet(S) /\ IsFiniteSet(T)  BY <1>1, FS_Subset
<1>3. Cardinality(S) \in Nat /\ Cardinality(T) \in Nat  BY <1>2, FS_CardinalityType
<1>4. T \subseteq S => Cardinality(T) <= Cardinality(S)  BY <1>2, FS_Subset
<1>5. ASSUME NEW x, T \subseteq S \cup {x} PROVE Cardinality(T) <= Cardinality(S) + 1
  <2>1. /\ IsFiniteSet(S \cup {x})
        /\ Cardinality(S \cup {x}) = IF x \in S THEN Cardinality(S) ELSE Cardinality(S) + 1
    BY <1>2, FS_AddElement
  <2>2. Cardinality(T) <= Cardinality(S \cup {x})  BY <1>5, <2>1, FS_Subset
  <2> QED  BY <1>3, <2>1, <2>2
<1> QED  BY <1>2, <1>3, <1>4, <1>5

(* The number a new incident gets is free, and those below are taken.       *)
LEMMA NewFacts ==
    ASSUME NEW db, Numbered(db), Cardinality(Known(db)) < MaxIncidents
    PROVE  /\ New(db) \in Incident \ Known(db)
           /\ \A j \in Incident : j < New(db) <=> j \in Known(db)
<1> DEFINE K == Known(db)
           T == (1..(MaxIncidents + 1)) \ K
<1>1. MaxIncidents \in Nat /\ K \subseteq 1..MaxIncidents
  BY IncidentAssumption DEF Known, Incident
<1>2. T \in SUBSET Nat /\ MaxIncidents + 1 \in T  BY <1>1
<1>3. PICK x \in T : \A y \in T : x <= y  BY <1>2, Least
<1>4. \A j \in Incident : j < x <=> j \in K
  <2>1. ASSUME NEW j \in Incident, j < x PROVE j \in K
    <3>1. j \in 1..(MaxIncidents + 1) /\ ~(x <= j)  BY <1>1, <1>2, <1>3, <2>1 DEF Incident
    <3> QED  BY <1>3, <3>1
  <2>2. ASSUME NEW j \in Incident, j \in K PROVE j < x
    <3>1. CASE x < j
      <4>1. x \in Incident  BY <1>1, <1>3, <3>1, <2>2 DEF Incident
      <4>2. x \in K  BY <2>2, <3>1, <4>1 DEF Numbered
      <4> QED  BY <1>3, <4>2
    <3>2. CASE x = j  BY <1>3, <2>2, <3>2
    <3> QED  BY <1>1, <1>3, <3>1, <3>2 DEF Incident
  <2> QED  BY <2>1, <2>2
<1>5. K = 1..(x - 1)
  <2>1. \A j \in 1..(x - 1) : j \in Incident /\ j < x  BY <1>1, <1>3 DEF Incident
  <2>2. \A j \in K : j \in Incident  BY <1>1 DEF Incident
  <2>3. \A j \in Incident : j < x => j \in 1..(x - 1)  BY <1>1, <1>3 DEF Incident
  <2> QED  BY <2>1, <2>2, <2>3, <1>4
<1>6. Cardinality(K) = x - 1
  <2>1. x \in Nat /\ x >= 1  BY <1>1, <1>3
  <2>2. Cardinality(1..(x - 1)) = IF 1 > x - 1 THEN 0 ELSE x - 1 - 1 + 1
    BY <2>1, FS_Interval
  <2> QED  BY <1>5, <2>1, <2>2
<1>7. New(db) = x  BY <1>3, <1>6 DEF New
<1>8. x \in Incident  BY <1>1, <1>3, <1>6 DEF Incident
<1> QED  BY <1>3, <1>4, <1>7, <1>8
-----------------------------------------------------------------------------
LEMMA TypedFacts ==
    ASSUME Typed
    PROVE  /\ MaxIncidents \in Nat /\ Incident = 1..MaxIncidents /\ 0 \notin Incident
           /\ \A i \in Incident : inc[i] \in Row
           /\ \A e \in Events : event[e] \in Event
           /\ \A s \in Signals : sig[s] \in Signal
           /\ plan \in Plans
<1>1. MaxIncidents \in Nat /\ Incident = 1..MaxIncidents /\ 0 \notin Incident
  BY IncidentAssumption DEF Incident
<1> QED  BY <1>1 DEF Typed

LEMMA RowFacts ==
    ASSUME NEW r \in Row, NEW w \in Workflows
    PROVE  /\ r.status \in Statuses /\ r.workflow \in Workflows /\ r.session \in BOOLEAN
           /\ [r EXCEPT !.workflow = w] \in Row
           /\ [r EXCEPT !.workflow = w].status = r.status
           /\ [r EXCEPT !.workflow = w].workflow = w
           /\ [r EXCEPT !.workflow = w].session = r.session
BY DEF Row

LEMMA StatusFacts ==
    ASSUME NEW r \in Row, NEW x \in Statuses
    PROVE  /\ [r EXCEPT !.status = x] \in Row
           /\ [r EXCEPT !.status = x].status = x
           /\ [r EXCEPT !.status = x].workflow = r.workflow
           /\ [r EXCEPT !.status = x].session = r.session
BY DEF Row

LEMMA SameTables ==
    ASSUME Sound(Tables), UNCHANGED <<plan, sig, inc, recent>>
    PROVE  Sound(Tables)'
<1>1. Tables' = Tables /\ plan' = plan  BY DEF Tables
<1> QED  BY <1>1 DEF Sound, Numbered, Untouched, SignalsKnown, Truthful, Limited, Known, Opened, Status

(* How a row may change: it ends, or its timer runs off.                    *)
Allowed(old, new) ==
    \/ new = old \/ new = "closed"
    \/ old = "monitoring" /\ new = "resolved"

(* A write to one incident keeps the tables sound.                          *)
LEMMA WriteSound ==
    ASSUME Typed, Sound(Tables), NEW i \in Incident, NEW row \in Row,
           inc[i].status # "none", Allowed(inc[i].status, row.status),
           Write(i, row), UNCHANGED <<plan, sig>>
    PROVE  /\ inc' \in [Incident -> Row] /\ recent' \in Seq(Incident) /\ Sound(Tables)'
           /\ \A j \in Incident : inc'[j] = IF j = i THEN row ELSE inc[j]
<1>1. inc \in [Incident -> Row] /\ recent \in Seq(Incident)  BY DEF Typed
<1>2. inc' = [inc EXCEPT ![i] = row] /\ recent' = Bump(recent, i)  BY DEF Write
<1>3. inc' \in [Incident -> Row] /\ \A j \in Incident : inc'[j] = IF j = i THEN row ELSE inc[j]
  BY <1>1, <1>2
<1>4. /\ recent' \in Seq(Incident)
      /\ \A n \in DOMAIN recent' : recent'[n] = i \/ \E m \in DOMAIN recent : recent[m] = recent'[n]
  BY <1>1, <1>2, BumpFacts
<1>5. \A j \in Incident : inc'[j].status = "none" <=> inc[j].status = "none"
  BY <1>3 DEF Allowed
<1>6. Known(Tables)' = Known(Tables)  BY <1>5 DEF Known, Tables
<1>7. Opened(Tables)' \subseteq Opened(Tables)
  <2>1. \A j \in Incident : inc'[j].status # "closed" => inc[j].status # "closed"
    BY <1>3 DEF Allowed
  <2> QED  BY <2>1, <1>6 DEF Opened, Tables, Known
<1>8. Numbered(Tables)'  BY <1>6 DEF Sound, Numbered
<1>9. Untouched(Tables)'
  <2>1. \A j \in Incident \ Known(Tables) :
          inc[j] = NoIncident /\ \A n \in DOMAIN recent : recent[n] # j
    BY DEF Sound, Untouched, Tables
  <2>2. i \in Known(Tables)  BY DEF Known, Tables
  <2>3. \A j \in Incident \ Known(Tables) :
          inc'[j] = NoIncident /\ \A n \in DOMAIN recent' : recent'[n] # j
    BY <1>3, <1>4, <2>1, <2>2
  <2> QED  BY <1>6, <2>3 DEF Untouched, Tables
<1>10. SignalsKnown(Tables)'
  <2>1. \A s \in Signals : sig'[s].incident \in Known(Tables) \cup {0}
    BY DEF Sound, SignalsKnown, Tables
  <2> QED  BY <1>6, <2>1 DEF SignalsKnown, Tables
<1>11. Truthful(Tables)'
  <2>1. \A j \in Opened(Tables) : (inc[j].status = "active") <=> (Status(sig, j) = "active")
    BY DEF Sound, Truthful, Tables
  <2>2. ASSUME NEW j \in Opened(Tables)'
        PROVE  (inc'[j].status = "active") <=> (Status(sig', j) = "active")
    <3>1. j \in Opened(Tables) /\ j \in Incident  BY <1>7, <2>2 DEF Opened, Known
    <3>2. sig' = sig /\ inc'[j].status # "closed"  BY <2>2 DEF Opened, Tables
    <3>3. inc'[j].status = "active" <=> inc[j].status = "active"
      BY <1>3, <3>1, <3>2 DEF Allowed
    <3>4. Status(sig', j) = Status(sig, j)  BY <3>2 DEF Status
    <3> QED  BY <2>1, <3>1, <3>3, <3>4
  <2> QED  BY <2>2 DEF Truthful, Tables
<1>12. Limited(Tables)'
  <2>1. Opened(Tables) \in SUBSET Incident /\ Opened(Tables)' \in SUBSET Incident
    BY DEF Opened, Known
  <2>2. Cardinality(Opened(Tables)') <= Cardinality(Opened(Tables))
        /\ Cardinality(Opened(Tables)) \in Nat /\ Cardinality(Opened(Tables)') \in Nat
    BY <1>7, <2>1, Count
  <2>3. Cardinality(Opened(Tables)) <= plan.open /\ plan' = plan /\ plan.open \in Int
    BY IncidentAssumption, TypedFacts DEF Sound, Limited
  <2> QED  BY <2>2, <2>3 DEF Limited
<1> QED  BY <1>3, <1>4, <1>8, <1>9, <1>10, <1>11, <1>12 DEF Sound
-----------------------------------------------------------------------------
LEMMA InitIInv == Init => IInv
<1> SUFFICES ASSUME Init PROVE IInv  OBVIOUS
<1> USE DEF Init
<1>1. MaxIncidents \in Nat /\ MaxCloses \in Nat /\ 0 \notin Incident /\ plan \in Plans
  BY IncidentAssumption DEF Incident
<1>2. Typed
  <2>1. NoIncident \in Row /\ Fresh \in Event  BY DEF NoIncident, Row, Fresh, Event, Statuses, Workflows
  <2>2. NoOrder \in [phase : {"idle", "ordered", "closing"}, incident : 0..MaxIncidents,
                     session : BOOLEAN, previous : Workflows \ {"closing"}]
    BY <1>1 DEF NoOrder, Workflows
  <2>3. NoPoll \in [incident : 0..MaxIncidents, writable : BOOLEAN, ended : BOOLEAN]
    BY <1>1 DEF NoPoll
  <2>4. Rest \in [phase : {"idle", "apply", "settle"}, event : Events \cup {"none"}]  BY DEF Rest
  <2>5. sig \in [Signals -> Signal]  BY <1>1 DEF Signal
  <2>6. spent \in [closes : 0..MaxCloses, troubles : Nat]  BY <1>1
  <2> QED  BY <1>1, <2>1, <2>2, <2>3, <2>4, <2>5, <2>6 DEF Typed
<1>3. \A i \in Incident : inc[i] = NoIncident /\ NoIncident.status = "none"
      /\ NoIncident.workflow = "none"
  BY DEF NoIncident
<1>4. Known(Tables) = {} /\ Opened(Tables) = {}  BY <1>3 DEF Known, Opened, Tables
<1>5. Sound(Tables)
  <2>1. Untouched(Tables)  BY <1>3 DEF Untouched, Tables
  <2>2. SignalsKnown(Tables)  BY DEF SignalsKnown, Tables
  <2>3. Limited(Tables)
    <3>1. plan.open \in 1..(MaxIncidents - MaxCloses)  BY <1>1, IncidentAssumption
    <3> QED  BY <1>1, <1>4, <3>1, FS_EmptySet DEF Limited
  <2> QED  BY <1>4, <2>1, <2>2, <2>3 DEF Sound, Numbered, Truthful
<1>6. DeliveryRight  BY DEF DeliveryRight, Rest, Fresh
<1>7. WorkRight /\ SessionRight /\ CloserRight
  BY <1>1, <1>3 DEF WorkRight, SessionRight, CloserRight, NoPoll, NoOrder
<1>8. Paid
  <2>1. Ending = {}  BY <1>1, <1>3 DEF Ending, NoOrder
  <2> QED  BY <2>1, FS_EmptySet DEF Paid
<1> QED  BY <1>2, <1>5, <1>6, <1>7, <1>8 DEF IInv

(* What has ended or may end is paid for: a step that adds one pays one.    *)
LEMMA PaidStep ==
    ASSUME Typed, Paid, spent'.closes \in Nat, NEW i,
           \/ Ending' \subseteq Ending /\ spent'.closes = spent.closes
           \/ Ending' \subseteq Ending \cup {i} /\ spent'.closes = spent.closes + 1
    PROVE  Paid'
<1>1. Ending \in SUBSET Incident /\ Ending' \in SUBSET Incident  BY DEF Ending
<1>2. /\ Cardinality(Ending) \in Nat /\ Cardinality(Ending') \in Nat
      /\ Ending' \subseteq Ending => Cardinality(Ending') <= Cardinality(Ending)
      /\ Ending' \subseteq Ending \cup {i} => Cardinality(Ending') <= Cardinality(Ending) + 1
  BY <1>1, Count
<1>3. spent.closes \in Nat /\ Cardinality(Ending) <= spent.closes
  BY IncidentAssumption DEF Typed, Paid
<1> QED  BY <1>2, <1>3 DEF Paid

(* The steps of the webhook drain leave the incidents alone.                *)
LEMMA DrainStep ==
    ASSUME IInv, UNCHANGED <<plan, sig, inc, recent, coop, job, poll, closer>>,
           arrived' \in Seq(Events), event' \in [Events -> Event],
           worker' \in [phase : {"idle", "apply", "settle"}, event : Events \cup {"none"}],
           spent' \in [closes : 0..MaxCloses, troubles : Nat], spent'.closes = spent.closes,
           DeliveryRight'
    PROVE  IInv'
<1>1. Sound(Tables)'  BY SameTables DEF IInv
<1>2. Typed'  BY DEF IInv, Typed
<1>3. WorkRight' /\ SessionRight' /\ CloserRight'
  BY DEF IInv, WorkRight, SessionRight, CloserRight
<1>4. Paid'  BY DEF IInv, Paid, Ending
<1> QED  BY <1>1, <1>2, <1>3, <1>4 DEF IInv

(* A write to one incident, of which nothing new is worked at.              *)
LEMMA MovedStep ==
    ASSUME IInv, NEW i \in Incident, NEW row \in Row, Write(i, row),
           inc[i].status # "none", Allowed(inc[i].status, row.status),
           row.session = inc[i].session,
           row.status = "closed" => row.status = inc[i].status \/ i \in Ending,
           row.workflow = "closing" => row.workflow = inc[i].workflow /\ row.status = inc[i].status,
           UNCHANGED <<plan, arrived, event, worker, sig, coop, closer>>,
           job' \in {job, [job EXCEPT ![i] = "idle"]}, poll' \in {poll, NoPoll},
           spent' \in [closes : 0..MaxCloses, troubles : Nat], spent'.closes = spent.closes
    PROVE  IInv'
<1>1. Typed /\ Sound(Tables) /\ WorkRight /\ SessionRight /\ CloserRight /\ Paid  BY DEF IInv
<1>2. /\ inc' \in [Incident -> Row] /\ recent' \in Seq(Incident) /\ Sound(Tables)'
      /\ \A j \in Incident : inc'[j] = IF j = i THEN row ELSE inc[j]
  BY <1>1, WriteSound
<1>3. /\ job' \in [Incident -> {"idle", "making", "checking", "creating", "binding"}]
      /\ \A j \in Incident : job'[j] = job[j] \/ job'[j] = "idle"
  BY <1>1 DEF Typed
<1>4. /\ poll' \in [incident : 0..MaxIncidents, writable : BOOLEAN, ended : BOOLEAN]
      /\ poll' = poll \/ (poll'.incident = 0 /\ ~poll'.ended)
  <2>1. MaxIncidents \in Nat  BY IncidentAssumption
  <2>2. NoPoll \in [incident : 0..MaxIncidents, writable : BOOLEAN, ended : BOOLEAN]
        /\ NoPoll.incident = 0 /\ ~NoPoll.ended
    BY <2>1 DEF NoPoll
  <2> QED  BY <1>1, <2>2 DEF Typed
<1>5. Typed'  BY <1>1, <1>2, <1>3, <1>4 DEF Typed
<1>6. DeliveryRight'  BY DEF IInv, DeliveryRight
<1>7. 0 \notin Incident /\ row.status # "none"  BY TypedFacts, <1>1 DEF Allowed
<1>8. WorkRight'  BY <1>1, <1>2, <1>3, <1>4, <1>7 DEF WorkRight
<1>9. SessionRight'
  <2>1. \A j \in Incident : inc'[j].session = inc[j].session  BY <1>2
  <2>2. poll.incident \in Incident \cup {0}  BY <1>1, TypedFacts DEF Typed
  <2>3. \A j \in Incident : job'[j] \in {"checking", "creating", "binding"} => ~inc'[j].session
    BY <1>1, <1>3, <2>1 DEF SessionRight
  <2>4. poll'.incident # 0 => inc'[poll'.incident].session
    BY <1>1, <1>4, <2>1, <2>2 DEF SessionRight
  <2>5. poll'.ended => poll'.incident # 0 /\ coop'[poll'.incident] = "ended"
    BY <1>1, <1>4 DEF SessionRight
  <2> QED  BY <2>3, <2>4, <2>5 DEF SessionRight
<1>10. CloserRight'  BY <1>1, <1>2 DEF CloserRight
<1>11. Paid'
  <2>1. Ending' \subseteq Ending  BY <1>2 DEF Ending
  <2> QED  BY <1>1, <2>1, PaidStep, IncidentAssumption
<1> QED  BY <1>2, <1>5, <1>6, <1>8, <1>9, <1>10, <1>11 DEF IInv
-----------------------------------------------------------------------------
LEMMA DeliverStep ==
    ASSUME IInv, NEW e \in Events, Deliver(e)
    PROVE  IInv'
<1>1. Typed /\ DeliveryRight /\ event[e] \in Event  BY TypedFacts DEF IInv
<1> DEFINE row == [event[e] EXCEPT !.state = "pending", !.due = TRUE]
<1>2. /\ row \in Event /\ row.state = "pending" /\ row.kept = event[e].kept
      /\ row.applied = event[e].applied
  BY <1>1 DEF Event
<1>3. event' = [event EXCEPT ![e] = row]
  BY <1>1 DEF Typed, Deliver
<1> HIDE DEF row
<1>4. event' \in [Events -> Event] /\ \A f \in Events : event'[f] = IF f = e THEN row ELSE event[f]
  BY <1>1, <1>2, <1>3 DEF Typed
<1>5. arrived' \in Seq(Events)
  <2>1. arrived \in Seq(Events)  BY <1>1 DEF Typed
  <2> QED  BY <2>1 DEF Deliver
<1>6. DeliveryRight'
  <2>1. worker.phase # "idle" => worker.event # e /\ worker.event \in Events  BY <1>1 DEF DeliveryRight, Deliver
  <2> QED  BY <1>1, <1>2, <1>4, <2>1 DEF DeliveryRight, Deliver
<1> QED  BY <1>1, <1>4, <1>5, <1>6, DrainStep DEF Deliver, provision, Typed

LEMMA LeaseStep ==
    ASSUME IInv, Lease
    PROVE  IInv'
<1>1. Typed /\ DeliveryRight /\ worker.phase = "idle"  BY DEF IInv, Lease
<1>2. PICK e \in Events :
        /\ event' = [event EXCEPT ![e].state = "processing", ![e].attempts = @ + 1]
        /\ worker' = [phase |-> "apply", event |-> e]
        /\ Leasable(e)
  <2>1. arrived \in Seq(Events)  BY <1>1 DEF Typed
  <2>2. \A n \in DOMAIN arrived : arrived[n] \in Events  BY <2>1, LenProperties, ElementOfSeq
  <2> QED  BY <2>2 DEF Lease
<1> DEFINE row == [event[e] EXCEPT !.state = "processing", !.attempts = @ + 1]
<1>3. event[e] \in Event  BY <1>1, TypedFacts
<1>4. /\ row \in Event /\ row.state = "processing" /\ row.kept = event[e].kept
      /\ row.applied = event[e].applied
  <2> DEFINE mid == [event[e] EXCEPT !.state = "processing"]
  <2>1. /\ mid \in Event /\ mid.state = "processing" /\ mid.kept = event[e].kept
        /\ mid.applied = event[e].applied /\ mid.attempts + 1 \in Nat
    BY <1>3 DEF Event
  <2>2. row = [mid EXCEPT !.attempts = @ + 1]  BY <1>3 DEF Event
  <2> HIDE DEF mid
  <2> QED  BY <2>1, <2>2 DEF Event
<1>5. event' = [event EXCEPT ![e] = row]
  BY <1>1, <1>2 DEF Typed
<1> HIDE DEF row
<1>6. event' \in [Events -> Event] /\ \A f \in Events : event'[f] = IF f = e THEN row ELSE event[f]
  BY <1>1, <1>4, <1>5 DEF Typed
<1>7. DeliveryRight'  BY <1>1, <1>2, <1>4, <1>6 DEF DeliveryRight
<1>8. worker' \in [phase : {"idle", "apply", "settle"}, event : Events \cup {"none"}]  BY <1>2
<1> QED  BY <1>1, <1>6, <1>7, <1>8, DrainStep DEF Lease, provision, Typed

LEMMA SettleStep ==
    ASSUME IInv, Settle
    PROVE  IInv'
<1> DEFINE e == worker.event
<1>1. Typed /\ DeliveryRight /\ worker.phase = "settle" /\ worker' = Rest  BY DEF IInv, Settle
<1>2. e \in Events /\ event[e] \in Event  BY <1>1, TypedFacts DEF DeliveryRight
<1>3. PICK s \in {"done", "failed", "retry"} :
        event' = Put(e, s) /\ (s = "done" => event[e].applied)
  BY DEF Settle, Verdict
<1>4. /\ spent' \in [closes : 0..MaxCloses, troubles : Nat] /\ spent'.closes = spent.closes
  <2>1. spent \in [closes : 0..MaxCloses, troubles : Nat]  BY <1>1 DEF Typed
  <2>2. spent' = spent \/ spent' = [spent EXCEPT !["troubles"] = @ + 1]  BY DEF Settle, Spend
  <2> QED  BY <2>1, <2>2
<1> DEFINE row == [event[e] EXCEPT !.state = s, !.due = FALSE]
<1>5. row \in Event /\ row.state = s /\ row.kept = event[e].kept /\ row.applied = event[e].applied
  BY <1>2 DEF Event
<1>6. event' = [event EXCEPT ![e] = row]
  BY <1>1, <1>3 DEF Typed, Put
<1> HIDE DEF row
<1>7. event' \in [Events -> Event] /\ \A f \in Events : event'[f] = IF f = e THEN row ELSE event[f]
  BY <1>1, <1>2, <1>5, <1>6 DEF Typed
<1>8. DeliveryRight'  BY <1>1, <1>2, <1>3, <1>5, <1>7 DEF DeliveryRight, Rest
<1>9. worker' \in [phase : {"idle", "apply", "settle"}, event : Events \cup {"none"}]
  BY <1>1 DEF Rest
<1> QED  BY <1>1, <1>4, <1>7, <1>8, <1>9, DrainStep DEF Settle, provision, Typed

LEMMA ElapseStep ==
    ASSUME IInv, NEW e \in Events, Elapse(e)
    PROVE  IInv'
<1>1. Typed /\ DeliveryRight /\ event[e] \in Event  BY TypedFacts DEF IInv
<1> DEFINE row == [event[e] EXCEPT !.due = TRUE]
<1>2. /\ row \in Event /\ row.state = event[e].state /\ row.kept = event[e].kept
      /\ row.applied = event[e].applied
  BY <1>1 DEF Event
<1>3. event' = [event EXCEPT ![e] = row]
  BY <1>1 DEF Typed, Elapse
<1> HIDE DEF row
<1>4. event' \in [Events -> Event] /\ \A f \in Events : event'[f] = IF f = e THEN row ELSE event[f]
  BY <1>1, <1>2, <1>3 DEF Typed
<1>5. worker' = worker  BY DEF Elapse
<1>6. DeliveryRight'  BY <1>1, <1>2, <1>4, <1>5 DEF DeliveryRight
<1> QED  BY <1>1, <1>4, <1>6, DrainStep DEF Elapse, provision, Typed
-----------------------------------------------------------------------------
LEMMA ProcessFacts ==
    ASSUME IInv
    PROVE  /\ Typed /\ Sound(Tables) /\ DeliveryRight /\ WorkRight /\ SessionRight
           /\ CloserRight /\ Paid /\ 0 \notin Incident
           /\ \A i \in Incident : inc[i] \in Row
           /\ coop \in [Incident -> {"none", "open", "ended"}]
           /\ job \in [Incident -> {"idle", "making", "checking", "creating", "binding"}]
           /\ poll.incident \in Incident \cup {0} /\ closer.incident \in Incident \cup {0}
           /\ \A i \in Incident : inc[i].status = "none" => inc[i] = NoIncident
<1>1. Typed /\ Sound(Tables)  BY DEF IInv
<1>2. \A i \in Incident : inc[i].status = "none" => inc[i] = NoIncident
  BY <1>1 DEF Sound, Untouched, Known, Tables
<1>3. Incident \cup {0} = 0..MaxIncidents  BY <1>1, TypedFacts
<1> QED  BY <1>1, <1>2, <1>3, TypedFacts DEF IInv, Typed

(* A step that writes no incident.                                          *)
LEMMA StillStep ==
    ASSUME IInv, UNCHANGED <<plan, arrived, event, worker, sig, inc, recent>>,
           coop' \in [Incident -> {"none", "open", "ended"}],
           job' \in [Incident -> {"idle", "making", "checking", "creating", "binding"}],
           poll' \in [incident : 0..MaxIncidents, writable : BOOLEAN, ended : BOOLEAN],
           closer' \in [phase : {"idle", "ordered", "closing"}, incident : 0..MaxIncidents,
                        session : BOOLEAN, previous : Workflows \ {"closing"}],
           spent' \in [closes : 0..MaxCloses, troubles : Nat],
           WorkRight', SessionRight', CloserRight', Paid'
    PROVE  IInv'
<1>1. Sound(Tables)'  BY SameTables DEF IInv
<1>2. Typed'  BY DEF IInv, Typed
<1>3. DeliveryRight'  BY DEF IInv, DeliveryRight
<1> QED  BY <1>1, <1>2, <1>3 DEF IInv

(* What is not an incident yet has the row of none.                         *)
LEMMA IsIncident ==
    ASSUME IInv, NEW i \in Incident,
           inc[i].workflow # "none" \/ inc[i].room # "none" \/ inc[i].session
             \/ job[i] # "idle" \/ poll.incident = i \/ closer.incident = i \/ coop[i] # "none"
    PROVE  inc[i].status # "none"
BY ProcessFacts DEF WorkRight, NoIncident

LEMMA JobBegins ==
    ASSUME IInv, NEW i \in Incident, StartRoom(i) \/ StartSession(i)
    PROVE  IInv'
<1>1. /\ \/ job' = [job EXCEPT ![i] = "making"]
         \/ job' = [job EXCEPT ![i] = "checking"] /\ ~inc[i].session
      /\ UNCHANGED <<plan, arrived, event, worker, sig, inc, recent, coop, poll, closer, spent>>
  BY DEF StartRoom, StartSession, Waiting, webhook
<1>2. inc[i].workflow # "none"  BY DEF StartRoom, StartSession, Waiting
<1>3. inc[i].status # "none"  BY <1>2, IsIncident
<1>4. job' \in [Incident -> {"idle", "making", "checking", "creating", "binding"}]
      /\ \A j \in Incident : job'[j] = job[j] \/ (j = i /\ (job'[i] = "making" \/ ~inc[i].session))
  BY <1>1, ProcessFacts
<1>5. WorkRight'  BY <1>1, <1>3, <1>4, ProcessFacts DEF WorkRight
<1>6. SessionRight'  BY <1>1, <1>4, ProcessFacts DEF SessionRight
<1>7. CloserRight' /\ Paid'  BY <1>1, ProcessFacts DEF CloserRight, Paid, Ending
<1> QED  BY <1>1, <1>4, <1>5, <1>6, <1>7, StillStep DEF IInv, Typed

LEMMA Troubles ==
    ASSUME IInv, spent' = spent \/ Spend("troubles")
    PROVE  spent' \in [closes : 0..MaxCloses, troubles : Nat] /\ spent'.closes = spent.closes
<1>1. spent \in [closes : 0..MaxCloses, troubles : Nat]  BY DEF IInv, Typed
<1>2. spent' = spent \/ spent' = [spent EXCEPT !["troubles"] = @ + 1]  BY DEF Spend
<1> QED  BY <1>1, <1>2

LEMMA EndRoomStep ==
    ASSUME IInv, NEW i \in Incident, EndRoom(i)
    PROVE  IInv'
<1>1. /\ job[i] = "making" /\ job' = [job EXCEPT ![i] = "idle"]
      /\ UNCHANGED <<plan, arrived, event, worker, sig, coop, poll, closer>>
  BY DEF EndRoom, webhook
<1>2. inc[i].status # "none" /\ inc[i] \in Row  BY <1>1, IsIncident, ProcessFacts
<1>3. spent' \in [closes : 0..MaxCloses, troubles : Nat] /\ spent'.closes = spent.closes
  <2>1. spent' = spent \/ Spend("troubles")  BY DEF EndRoom
  <2> QED  BY <2>1, Troubles
<1>4. PICK row \in Row :
        /\ Write(i, row) /\ row.status = inc[i].status /\ row.session = inc[i].session
        /\ row.workflow # "closing"
  <2> DEFINE bound == [inc[i] EXCEPT !.room = "bound", !.writable = TRUE,
                                     !.workflow = "provisioning_channel"]
  <2>1. /\ bound \in Row /\ bound.status = inc[i].status /\ bound.session = inc[i].session
        /\ bound.workflow = "provisioning_channel"
    BY <1>2 DEF Row, Workflows
  <2>2. CASE Write(i, bound)  BY <2>1, <2>2
  <2>3. ASSUME NEW w \in {"provisioning_channel", "blocked"}, Write(i, InWorkflow(i, w))
        PROVE  \E row \in Row :
                 /\ Write(i, row) /\ row.status = inc[i].status /\ row.session = inc[i].session
                 /\ row.workflow # "closing"
    <3>1. w \in Workflows /\ w # "closing"  BY DEF Workflows
    <3> QED  BY <1>2, <2>3, <3>1, RowFacts DEF InWorkflow
  <2> QED  BY <2>2, <2>3 DEF EndRoom
<1>5. Allowed(inc[i].status, row.status)  BY <1>4 DEF Allowed
<1> QED  BY <1>1, <1>2, <1>3, <1>4, <1>5, MovedStep

LEMMA PostRootStep ==
    ASSUME IInv, NEW i \in Incident, PostRoot(i)
    PROVE  IInv'
<1>1. /\ inc[i].room = "bound"
      /\ UNCHANGED <<plan, arrived, event, worker, sig, coop, job, poll, closer, spent>>
  BY DEF PostRoot, webhook, provision
<1>2. inc[i].status # "none" /\ inc[i] \in Row  BY <1>1, IsIncident, ProcessFacts
<1>3. spent' \in [closes : 0..MaxCloses, troubles : Nat] /\ spent'.closes = spent.closes
  BY <1>1, Troubles
<1> DEFINE row == [inc[i] EXCEPT !.room = "rooted",
                     !.workflow = IF inc[i].session THEN @ ELSE "provisioning_session"]
<1>4. /\ row \in Row /\ row.status = inc[i].status /\ row.session = inc[i].session
      /\ row.workflow \in {inc[i].workflow, "provisioning_session"}
  BY <1>2 DEF Row, Workflows
<1>5. Write(i, row)  BY DEF PostRoot
<1> HIDE DEF row
<1>6. Allowed(inc[i].status, row.status)  BY <1>4 DEF Allowed
<1> QED  BY <1>1, <1>2, <1>3, <1>4, <1>5, <1>6, MovedStep

LEMMA CheckStep ==
    ASSUME IInv, NEW i \in Incident, Check(i)
    PROVE  IInv'
<1>1. /\ job[i] = "checking"
      /\ UNCHANGED <<plan, arrived, event, worker, sig, coop, poll, closer>>
      /\ spent' = spent \/ Spend("troubles")
  BY DEF Check, webhook
<1>2. inc[i].status # "none" /\ inc[i] \in Row /\ ~inc[i].session
  BY <1>1, IsIncident, ProcessFacts DEF SessionRight
<1>3. spent' \in [closes : 0..MaxCloses, troubles : Nat] /\ spent'.closes = spent.closes
  BY <1>1, Troubles
<1>4. CASE job' = [job EXCEPT ![i] = "creating"] /\ UNCHANGED <<inc, recent, spent>>
  <2>1. job' \in [Incident -> {"idle", "making", "checking", "creating", "binding"}]
        /\ \A j \in Incident : job'[j] = job[j] \/ j = i
    BY <1>4, ProcessFacts
  <2>2. WorkRight'  BY <1>1, <1>2, <1>4, <2>1, ProcessFacts DEF WorkRight
  <2>3. SessionRight'  BY <1>1, <1>2, <1>4, <2>1, ProcessFacts DEF SessionRight
  <2>4. CloserRight' /\ Paid'  BY <1>1, <1>4, ProcessFacts DEF CloserRight, Paid, Ending
  <2> QED  BY <1>1, <1>3, <1>4, <2>1, <2>2, <2>3, <2>4, StillStep DEF IInv, Typed
<1>5. CASE Write(i, InWorkflow(i, "holding")) /\ job' = [job EXCEPT ![i] = "idle"]
  <2> DEFINE row == InWorkflow(i, "holding")
  <2>1. /\ row \in Row /\ row.status = inc[i].status /\ row.session = inc[i].session
        /\ row.workflow = "holding"
    <3>1. "holding" \in Workflows  BY DEF Workflows
    <3> QED  BY <1>2, <3>1, RowFacts DEF InWorkflow
  <2> HIDE DEF row
  <2>2. Write(i, row)  BY <1>5 DEF row
  <2>3. Allowed(inc[i].status, row.status)  BY <2>1 DEF Allowed
  <2> QED  BY <1>1, <1>2, <1>3, <1>5, <2>1, <2>2, <2>3, MovedStep
<1> QED  BY <1>4, <1>5 DEF Check

(* A session is made only for an incident without one, whose end nobody has *)
(* read.                                                                    *)
LEMMA CreateSessionStep ==
    ASSUME IInv, NEW i \in Incident, CreateSession(i)
    PROVE  IInv'
<1>1. /\ job[i] = "creating"
      /\ UNCHANGED <<plan, arrived, event, worker, sig, poll, closer>>
      /\ spent' = spent \/ Spend("troubles")
      /\ coop' = coop \/ coop' = [coop EXCEPT ![i] = "open"]
      /\ \/ job' = [job EXCEPT ![i] = "binding"] /\ UNCHANGED <<inc, recent>>
         \/ /\ job' = [job EXCEPT ![i] = "idle"]
            /\ \E w \in {"holding", "blocked"} : Write(i, InWorkflow(i, w))
  BY DEF CreateSession, webhook
<1>2. inc[i].status # "none" /\ inc[i] \in Row /\ ~inc[i].session
  BY <1>1, IsIncident, ProcessFacts DEF SessionRight
<1>3. spent' \in [closes : 0..MaxCloses, troubles : Nat] /\ spent'.closes = spent.closes
  BY <1>1, Troubles
<1> DEFINE Held ==
      /\ inc' \in [Incident -> Row] /\ recent' \in Seq(Incident) /\ Sound(Tables)'
      /\ \A j \in Incident : /\ inc'[j].status = inc[j].status /\ inc'[j].session = inc[j].session
                             /\ inc'[j].workflow = "closing" => inc[j].workflow = "closing"
<1>4. Held
  <2>1. CASE UNCHANGED <<inc, recent>>
    BY <1>1, <2>1, SameTables, ProcessFacts DEF Typed
  <2>2. ASSUME NEW w \in {"holding", "blocked"}, Write(i, InWorkflow(i, w))
        PROVE  Held
    <3>1. w \in Workflows /\ w # "closing"  BY DEF Workflows
    <3> DEFINE row == InWorkflow(i, w)
    <3>2. /\ row \in Row /\ row.status = inc[i].status /\ row.session = inc[i].session
          /\ row.workflow # "closing"
      BY <1>2, <3>1, RowFacts DEF InWorkflow
    <3>3. Write(i, row)  BY <2>2
    <3> HIDE DEF row
    <3>4. Allowed(inc[i].status, row.status)  BY <3>2 DEF Allowed
    <3>5. /\ inc' \in [Incident -> Row] /\ recent' \in Seq(Incident) /\ Sound(Tables)'
          /\ \A j \in Incident : inc'[j] = IF j = i THEN row ELSE inc[j]
      BY <1>1, <1>2, <3>2, <3>3, <3>4, WriteSound, ProcessFacts
    <3> QED  BY <3>2, <3>5
  <2> QED  BY <1>1, <2>1, <2>2
<1>5. /\ job' \in [Incident -> {"idle", "making", "checking", "creating", "binding"}]
      /\ \A j \in Incident : job'[j] = job[j] \/ j = i
  BY <1>1, ProcessFacts
<1>6. /\ coop' \in [Incident -> {"none", "open", "ended"}]
      /\ \A j \in Incident : coop'[j] = coop[j] \/ (j = i /\ coop'[j] = "open")
  BY <1>1, ProcessFacts
<1>7. WorkRight'  BY <1>1, <1>2, <1>4, <1>5, <1>6, ProcessFacts DEF WorkRight
<1>8. SessionRight'
  <2>1. poll.incident # i  BY <1>2, ProcessFacts DEF SessionRight
  <2> QED  BY <1>1, <1>2, <1>4, <1>5, <1>6, <2>1, ProcessFacts DEF SessionRight
<1>9. CloserRight'  BY <1>1, <1>4, ProcessFacts DEF CloserRight
<1>10. Paid'
  <2>1. Ending' \subseteq Ending  BY <1>1, <1>4, <1>6 DEF Ending
  <2> QED  BY <1>3, <2>1, PaidStep, ProcessFacts, IncidentAssumption
<1>11. Typed'  BY <1>1, <1>3, <1>4, <1>5, <1>6, ProcessFacts DEF Typed
<1>12. DeliveryRight'  BY <1>1, ProcessFacts DEF DeliveryRight
<1> QED  BY <1>4, <1>7, <1>8, <1>9, <1>10, <1>11, <1>12 DEF IInv

LEMMA BindSessionStep ==
    ASSUME IInv, NEW i \in Incident, BindSession(i)
    PROVE  IInv'
<1> DEFINE row == [inc[i] EXCEPT !.session = TRUE, !.workflow = "investigating"]
<1>1. /\ job[i] = "binding" /\ job' = [job EXCEPT ![i] = "idle"] /\ Write(i, row)
      /\ UNCHANGED <<plan, arrived, event, worker, sig, coop, poll, closer, spent>>
  BY DEF BindSession, webhook
<1>2. inc[i].status # "none" /\ inc[i] \in Row
  BY <1>1, IsIncident, ProcessFacts
<1>3. /\ row \in Row /\ row.status = inc[i].status /\ row.session
      /\ row.workflow = "investigating"
  BY <1>2 DEF Row, Workflows
<1> HIDE DEF row
<1>4. Allowed(inc[i].status, row.status)  BY <1>3 DEF Allowed
<1>5. /\ inc' \in [Incident -> Row] /\ recent' \in Seq(Incident) /\ Sound(Tables)'
      /\ \A j \in Incident : inc'[j] = IF j = i THEN row ELSE inc[j]
  BY <1>1, <1>2, <1>3, <1>4, WriteSound, ProcessFacts
<1>6. /\ job' \in [Incident -> {"idle", "making", "checking", "creating", "binding"}]
      /\ \A j \in Incident : job'[j] = IF j = i THEN "idle" ELSE job[j]
  BY <1>1, ProcessFacts
<1>7. WorkRight'  BY <1>1, <1>2, <1>3, <1>5, <1>6, ProcessFacts DEF WorkRight
<1>8. SessionRight'  BY <1>1, <1>3, <1>5, <1>6, ProcessFacts DEF SessionRight
<1>9. CloserRight'  BY <1>1, <1>3, <1>5, ProcessFacts DEF CloserRight
<1>10. Paid'
  <2>1. Ending' \subseteq Ending  BY <1>1, <1>3, <1>5 DEF Ending
  <2>2. spent'.closes \in Nat  BY <1>1, IncidentAssumption DEF IInv, Typed
  <2> QED  BY <1>1, <2>1, <2>2, PaidStep, ProcessFacts
<1>11. Typed'  BY <1>1, <1>5, <1>6, ProcessFacts DEF Typed
<1>12. DeliveryRight'  BY <1>1, ProcessFacts DEF DeliveryRight
<1> QED  BY <1>5, <1>7, <1>8, <1>9, <1>10, <1>11, <1>12 DEF IInv

LEMMA MoveStep ==
    ASSUME IInv, NEW i \in Incident, Move(i)
    PROVE  IInv'
<1> DEFINE back == IF inc[i].session THEN "parked"
                   ELSE IF inc[i].room = "rooted" THEN "provisioning_session"
                   ELSE "provisioning_channel"
           w == IF ~Open(i) THEN inc[i].workflow ELSE IF inc[i].writable THEN "blocked" ELSE back
           row == [inc[i] EXCEPT !.writable = ~@, !.workflow = w]
<1>1. /\ inc[i].room # "none" /\ Spend("troubles")
      /\ UNCHANGED <<plan, arrived, event, worker, sig, coop, job, poll, closer>>
  BY DEF Move, webhook, provision
<1>2. inc[i].status # "none" /\ inc[i] \in Row  BY <1>1, IsIncident, ProcessFacts
<1>3. spent' \in [closes : 0..MaxCloses, troubles : Nat] /\ spent'.closes = spent.closes
  BY <1>1, Troubles
<1>4. Write(i, row)
  <2>1. row = [inc[i] EXCEPT !.writable = ~@,
                 !.workflow = IF ~Open(i) THEN @ ELSE IF inc[i].writable THEN "blocked" ELSE back]
    BY <1>2 DEF Row
  <2> QED  BY <2>1 DEF Move
<1>5. w \in Workflows /\ (w = "closing" => w = inc[i].workflow)
  BY <1>2 DEF Row, Workflows
<1> HIDE DEF w
<1>6. /\ row \in Row /\ row.status = inc[i].status /\ row.session = inc[i].session
      /\ row.workflow = w
  BY <1>2, <1>5 DEF Row
<1> HIDE DEF row
<1>7. Allowed(inc[i].status, row.status)  BY <1>6 DEF Allowed
<1> QED  BY <1>1, <1>2, <1>3, <1>4, <1>5, <1>6, <1>7, MovedStep

LEMMA ResolveDueStep ==
    ASSUME IInv, NEW i \in Incident, ResolveDue(i)
    PROVE  IInv'
<1> DEFINE row == [inc[i] EXCEPT !.status = "resolved"]
<1>1. /\ inc[i].status = "monitoring" /\ Write(i, row)
      /\ UNCHANGED <<plan, arrived, event, worker, sig, coop, job, poll, closer, spent>>
  BY DEF ResolveDue, webhook, provision
<1>2. inc[i].status # "none" /\ inc[i] \in Row  BY <1>1, ProcessFacts
<1>3. spent' \in [closes : 0..MaxCloses, troubles : Nat] /\ spent'.closes = spent.closes
  BY <1>1, Troubles
<1>4. /\ row \in Row /\ row.status = "resolved" /\ row.session = inc[i].session
      /\ row.workflow = inc[i].workflow
  BY <1>2, StatusFacts DEF Statuses
<1> HIDE DEF row
<1>5. Allowed(inc[i].status, row.status)  BY <1>1, <1>4 DEF Allowed
<1>6. CASE inc[i].workflow # "closing"
  BY <1>1, <1>2, <1>3, <1>4, <1>5, <1>6, MovedStep
<1>7. CASE inc[i].workflow = "closing"
  <2>1. /\ inc' \in [Incident -> Row] /\ recent' \in Seq(Incident) /\ Sound(Tables)'
        /\ \A j \in Incident : inc'[j] = IF j = i THEN row ELSE inc[j]
    BY <1>1, <1>2, <1>4, <1>5, WriteSound, ProcessFacts
  <2>2. WorkRight'  BY <1>1, <1>4, <2>1, ProcessFacts DEF WorkRight
  <2>3. SessionRight'  BY <1>1, <1>4, <2>1, ProcessFacts DEF SessionRight
  <2>4. CloserRight'  BY <1>1, <1>4, <2>1, ProcessFacts DEF CloserRight
  <2>5. Paid'
    <3>1. Ending' \subseteq Ending  BY <1>1, <1>4, <2>1 DEF Ending
    <3> QED  BY <1>3, <3>1, PaidStep, ProcessFacts, IncidentAssumption
  <2>6. Typed'  BY <1>1, <2>1, ProcessFacts DEF Typed
  <2>7. DeliveryRight'  BY <1>1, ProcessFacts DEF DeliveryRight
  <2> QED  BY <2>1, <2>2, <2>3, <2>4, <2>5, <2>6, <2>7 DEF IInv
<1> QED  BY <1>6, <1>7

LEMMA CloseFacts ==
    ASSUME IInv, NEW i \in Incident
    PROVE  /\ Closed(i) \in Row /\ Closed(i).status = "closed" /\ Closed(i).workflow = "closed"
           /\ Closed(i).session = inc[i].session
           /\ Allowed(inc[i].status, Closed(i).status)
<1>1. inc[i] \in Row  BY ProcessFacts
<1>2. /\ Closed(i) \in Row /\ Closed(i).status = "closed" /\ Closed(i).workflow = "closed"
      /\ Closed(i).session = inc[i].session
  BY <1>1 DEF Closed, Row, Statuses, Workflows
<1> QED  BY <1>2 DEF Allowed

LEMMA ReadSessionStep ==
    ASSUME IInv, NEW i \in Incident, ReadSession(i)
    PROVE  IInv'
<1>1. /\ inc[i].session
      /\ poll' = [incident |-> i, writable |-> inc[i].writable, ended |-> coop[i] = "ended"]
      /\ UNCHANGED <<plan, arrived, event, worker, sig, inc, recent, coop, job, closer, spent>>
  BY DEF ReadSession, webhook, provision
<1>2. inc[i].status # "none" /\ inc[i] \in Row  BY <1>1, IsIncident, ProcessFacts
<1>3. poll' \in [incident : 0..MaxIncidents, writable : BOOLEAN, ended : BOOLEAN]
  <2>1. i \in 0..MaxIncidents  BY TypedFacts DEF IInv
  <2>2. inc[i].writable \in BOOLEAN  BY <1>2 DEF Row
  <2> QED  BY <1>1, <2>1, <2>2
<1>4. WorkRight'  BY <1>1, <1>2, ProcessFacts DEF WorkRight
<1>5. SessionRight'
  <2>1. \A j \in Incident : job'[j] \in {"checking", "creating", "binding"} => ~inc'[j].session
    BY <1>1, ProcessFacts DEF SessionRight
  <2>2. poll'.incident = i /\ (poll'.ended <=> coop[i] = "ended") /\ i # 0
    BY <1>1, ProcessFacts
  <2> QED  BY <1>1, <2>1, <2>2 DEF SessionRight
<1>6. CloserRight' /\ Paid'  BY <1>1, ProcessFacts DEF CloserRight, Paid, Ending
<1> QED  BY <1>1, <1>3, <1>4, <1>5, <1>6, StillStep DEF IInv, Typed

LEMMA WriteStateStep ==
    ASSUME IInv, WriteState
    PROVE  IInv'
<1> DEFINE i == poll.incident
<1>1. /\ i # 0 /\ poll' = NoPoll
      /\ UNCHANGED <<plan, arrived, event, worker, sig, coop, job, closer, spent>>
  BY DEF WriteState, webhook, provision
<1>2. i \in Incident /\ inc[i] \in Row  BY <1>1, ProcessFacts
<1>3. inc[i].status # "none"  BY <1>2, IsIncident
<1>4. spent' \in [closes : 0..MaxCloses, troubles : Nat] /\ spent'.closes = spent.closes
  BY <1>1, Troubles
<1>5. CASE poll.ended /\ poll.writable /\ Open(i)
  <2>1. Write(i, Closed(i))  BY <1>5 DEF WriteState
  <2>2. i \in Ending  BY <1>2, <1>5, ProcessFacts DEF SessionRight, Ending
  <2> HIDE DEF i
  <2> QED  BY <1>1, <1>2, <1>3, <1>4, <2>1, <2>2, CloseFacts, MovedStep
<1>6. CASE poll.ended /\ poll.writable /\ ~Open(i)
  <2>1. UNCHANGED <<inc, recent>>  BY <1>6 DEF WriteState
  <2>2. poll'.incident = 0 /\ ~poll'.ended
        /\ poll' \in [incident : 0..MaxIncidents, writable : BOOLEAN, ended : BOOLEAN]
    BY <1>1, IncidentAssumption DEF NoPoll
  <2>3. WorkRight' /\ SessionRight'
    BY <1>1, <2>1, <2>2, ProcessFacts DEF WorkRight, SessionRight
  <2>4. CloserRight' /\ Paid'  BY <1>1, <2>1, ProcessFacts DEF CloserRight, Paid, Ending
  <2> QED  BY <1>1, <2>1, <2>2, <2>3, <2>4, StillStep DEF IInv, Typed
<1>7. CASE ~(poll.ended /\ poll.writable)
  <2> DEFINE w == IF poll.writable THEN "parked" ELSE "blocked"
             row == InWorkflow(i, w)
  <2>1. Write(i, row)  BY <1>7 DEF WriteState
  <2>2. w \in Workflows /\ w # "closing"  BY DEF Workflows
  <2> HIDE DEF w
  <2>3. /\ row \in Row /\ row.status = inc[i].status /\ row.session = inc[i].session
        /\ row.workflow # "closing"
    BY <1>2, <2>2, RowFacts DEF InWorkflow
  <2> HIDE DEF row, i
  <2>4. Allowed(inc[i].status, row.status)  BY <2>3 DEF Allowed
  <2> QED  BY <1>1, <1>2, <1>3, <1>4, <2>1, <2>3, <2>4, MovedStep
<1> QED  BY <1>5, <1>6, <1>7
-----------------------------------------------------------------------------
LEMMA Closes ==
    ASSUME IInv, spent.closes < MaxCloses, Spend("closes")
    PROVE  spent' \in [closes : 0..MaxCloses, troubles : Nat] /\ spent'.closes = spent.closes + 1
<1>1. spent \in [closes : 0..MaxCloses, troubles : Nat] /\ MaxCloses \in Nat
  BY IncidentAssumption DEF IInv, Typed
<1>2. spent' = [spent EXCEPT !["closes"] = @ + 1]  BY DEF Spend
<1> QED  BY <1>1, <1>2

LEMMA EndSessionStep ==
    ASSUME IInv, NEW i \in Incident, EndSession(i)
    PROVE  IInv'
<1>1. /\ coop[i] = "open" /\ coop' = [coop EXCEPT ![i] = "ended"]
      /\ UNCHANGED <<plan, arrived, event, worker, sig, inc, recent, job, poll, closer>>
  BY DEF EndSession, webhook
<1>2. inc[i].status # "none"  BY <1>1, IsIncident
<1>3. spent' \in [closes : 0..MaxCloses, troubles : Nat] /\ spent'.closes = spent.closes + 1
  BY Closes DEF EndSession
<1>4. /\ coop' \in [Incident -> {"none", "open", "ended"}]
      /\ \A j \in Incident : coop'[j] = coop[j] \/ (j = i /\ coop'[j] = "ended")
  BY <1>1, ProcessFacts
<1>5. WorkRight'  BY <1>1, <1>2, <1>4, ProcessFacts DEF WorkRight
<1>6. SessionRight'
  <2>1. poll.ended => poll.incident \in Incident  BY ProcessFacts DEF SessionRight
  <2> QED  BY <1>1, <1>4, <2>1, ProcessFacts DEF SessionRight
<1>7. CloserRight'  BY <1>1, ProcessFacts DEF CloserRight
<1>8. Paid'
  <2>1. Ending' \subseteq Ending \cup {i}  BY <1>1, <1>4 DEF Ending
  <2>2. spent'.closes \in Nat  BY <1>3, IncidentAssumption
  <2>3. Typed /\ Paid  BY DEF IInv
  <2> HIDE DEF Ending
  <2> QED  BY <1>3, <2>1, <2>2, <2>3, PaidStep
<1> QED  BY <1>1, <1>3, <1>4, <1>5, <1>6, <1>7, <1>8, StillStep DEF IInv, Typed

LEMMA OrderCloseStep ==
    ASSUME IInv, NEW i \in Incident, OrderClose(i)
    PROVE  IInv'
<1>1. /\ closer.phase = "idle" /\ Open(i)
      /\ closer' = [phase |-> "ordered", incident |-> i, session |-> inc[i].session,
                    previous |-> "none"]
      /\ UNCHANGED <<plan, arrived, event, worker, sig, inc, recent, coop, job, poll>>
  BY DEF OrderClose, webhook, provision
<1>2. inc[i].status # "none" /\ inc[i] \in Row  BY <1>1, ProcessFacts DEF Open
<1>3. spent' \in [closes : 0..MaxCloses, troubles : Nat] /\ spent'.closes = spent.closes + 1
  BY Closes DEF OrderClose
<1>4. /\ closer' \in [phase : {"idle", "ordered", "closing"}, incident : 0..MaxIncidents,
                      session : BOOLEAN, previous : Workflows \ {"closing"}]
      /\ closer'.phase = "ordered" /\ closer'.incident = i
  <2>1. i \in 0..MaxIncidents  BY TypedFacts DEF IInv
  <2>2. inc[i].session \in BOOLEAN /\ "none" \in Workflows \ {"closing"}  BY <1>2 DEF Row, Workflows
  <2> QED  BY <1>1, <2>1, <2>2
<1>5. WorkRight'  BY <1>1, <1>2, <1>4, ProcessFacts DEF WorkRight
<1>6. SessionRight'  BY <1>1, ProcessFacts DEF SessionRight
<1>7. CloserRight'  BY <1>1, <1>4, ProcessFacts DEF CloserRight
<1>8. Paid'
  <2>1. Ending' \subseteq Ending \cup {i}  BY <1>1, <1>4 DEF Ending
  <2>2. spent'.closes \in Nat  BY <1>3, IncidentAssumption
  <2>3. Typed /\ Paid  BY DEF IInv
  <2> HIDE DEF Ending
  <2> QED  BY <1>3, <2>1, <2>2, <2>3, PaidStep
<1> QED  BY <1>1, <1>3, <1>4, <1>5, <1>6, <1>7, <1>8, StillStep DEF IInv, Typed

LEMMA NoOrderFacts ==
    /\ NoOrder \in [phase : {"idle", "ordered", "closing"}, incident : 0..MaxIncidents,
                    session : BOOLEAN, previous : Workflows \ {"closing"}]
    /\ NoOrder.phase = "idle" /\ NoOrder.incident = 0
<1>1. MaxIncidents \in Nat  BY IncidentAssumption
<1> QED  BY <1>1 DEF NoOrder, Workflows

(* The closer is the only one that puts an incident into "closing".         *)
LEMMA BeginCloseStep ==
    ASSUME IInv, BeginClose
    PROVE  IInv'
<1> DEFINE i == closer.incident
<1>1. /\ closer.phase = "ordered"
      /\ UNCHANGED <<plan, arrived, event, worker, sig, coop, job, poll, spent>>
  BY DEF BeginClose, webhook, provision
<1>2. i \in Incident /\ inc[i] \in Row  BY <1>1, ProcessFacts DEF CloserRight
<1>3. inc[i].status # "none"  BY <1>2, IsIncident
<1>4. \A j \in Incident : inc[j].workflow # "closing"
  BY <1>1, ProcessFacts DEF CloserRight
<1>5. spent' \in [closes : 0..MaxCloses, troubles : Nat] /\ spent'.closes = spent.closes
  BY <1>1, Troubles
<1>6. CASE Open(i)
  <2> DEFINE row == InWorkflow(i, "closing")
  <2>1. /\ Write(i, row)
        /\ closer' = [closer EXCEPT !.phase = "closing", !.previous = inc[i].workflow]
    BY <1>2, <1>4, <1>6 DEF BeginClose
  <2>2. /\ row \in Row /\ row.status = inc[i].status /\ row.session = inc[i].session
    <3>1. "closing" \in Workflows  BY DEF Workflows
    <3> QED  BY <1>2, <3>1, RowFacts DEF InWorkflow
  <2>3. /\ closer' \in [phase : {"idle", "ordered", "closing"}, incident : 0..MaxIncidents,
                        session : BOOLEAN, previous : Workflows \ {"closing"}]
        /\ closer'.phase = "closing" /\ closer'.incident = i
    <3>1. inc[i].workflow \in Workflows \ {"closing"}  BY <1>2, <1>4 DEF Row
    <3>2. closer \in [phase : {"idle", "ordered", "closing"}, incident : 0..MaxIncidents,
                      session : BOOLEAN, previous : Workflows \ {"closing"}]
      BY DEF IInv, Typed
    <3> QED  BY <2>1, <3>1, <3>2
  <2> HIDE DEF row
  <2>4. Allowed(inc[i].status, row.status)  BY <2>2 DEF Allowed
  <2> HIDE DEF i
  <2>5. /\ inc' \in [Incident -> Row] /\ recent' \in Seq(Incident) /\ Sound(Tables)'
        /\ \A j \in Incident : inc'[j] = IF j = i THEN row ELSE inc[j]
    BY <1>1, <1>2, <1>3, <2>1, <2>2, <2>4, WriteSound, ProcessFacts
  <2> USE DEF i
  <2>6. WorkRight'  BY <1>1, <1>3, <2>2, <2>3, <2>5, ProcessFacts DEF WorkRight
  <2>7. SessionRight'  BY <1>1, <2>2, <2>5, ProcessFacts DEF SessionRight
  <2>8. CloserRight'
    <3>1. row.status # "closed"  BY <1>6, <2>2 DEF Open
    <3> QED  BY <1>2, <1>4, <2>3, <2>5, <3>1, ProcessFacts DEF CloserRight
  <2>9. Paid'
    <3>1. Ending' \subseteq Ending  BY <1>1, <2>2, <2>3, <2>5 DEF Ending
    <3> QED  BY <1>5, <3>1, PaidStep, ProcessFacts, IncidentAssumption
  <2>10. Typed'  BY <1>1, <2>3, <2>5, ProcessFacts DEF Typed
  <2>11. DeliveryRight'  BY <1>1, ProcessFacts DEF DeliveryRight
  <2> QED  BY <2>5, <2>6, <2>7, <2>8, <2>9, <2>10, <2>11 DEF IInv
<1>7. CASE ~Open(i)
  <2>1. closer' = NoOrder /\ UNCHANGED <<inc, recent>>  BY <1>7 DEF BeginClose
  <2>2. WorkRight' /\ SessionRight'
    BY <1>1, <2>1, NoOrderFacts, ProcessFacts DEF WorkRight, SessionRight
  <2>3. CloserRight'  BY <1>4, <2>1, NoOrderFacts, ProcessFacts DEF CloserRight
  <2>4. Paid'
    <3>1. Ending' \subseteq Ending  BY <1>1, <2>1, NoOrderFacts, ProcessFacts DEF Ending
    <3> QED  BY <1>5, <3>1, PaidStep, ProcessFacts, IncidentAssumption
  <2> QED  BY <1>1, <2>1, <2>2, <2>3, <2>4, NoOrderFacts, StillStep DEF IInv, Typed
<1> QED  BY <1>6, <1>7

LEMMA EndCloseStep ==
    ASSUME IInv, EndClose
    PROVE  IInv'
<1>0. PICK i \in Incident : i = closer.incident
  BY ProcessFacts DEF EndClose, CloserRight
<1>1. /\ closer.phase = "closing" /\ closer' = NoOrder
      /\ UNCHANGED <<plan, arrived, event, worker, sig, job, poll>>
      /\ spent' = spent \/ Spend("troubles")
  BY DEF EndClose, webhook
<1>2. i \in Incident /\ inc[i] \in Row  BY ProcessFacts
<1>3. inc[i].status # "none"  BY <1>0, IsIncident
<1>4. spent' \in [closes : 0..MaxCloses, troubles : Nat] /\ spent'.closes = spent.closes
  BY <1>1, Troubles
<1>5. /\ coop' \in [Incident -> {"none", "open", "ended"}]
      /\ \A j \in Incident : coop'[j] = coop[j] \/ (j = i /\ coop'[j] = "ended")
  <2>1. coop' \in {coop, [coop EXCEPT ![i] = IF closer.session THEN "ended" ELSE @]}
    BY <1>0 DEF EndClose
  <2> QED  BY <1>2, <2>1, ProcessFacts
<1>6. \A j \in Incident : inc[j].workflow = "closing" => j = i /\ inc[i].status # "closed"
  BY <1>0, ProcessFacts DEF CloserRight
<1> DEFINE Held ==
      /\ inc' \in [Incident -> Row] /\ recent' \in Seq(Incident) /\ Sound(Tables)'
      /\ \A j \in Incident : /\ inc'[j].status = "none" <=> inc[j].status = "none"
                             /\ inc'[j].session = inc[j].session
                             /\ inc'[j].workflow # "closing"
                             /\ inc'[j].status = "closed" => j = i \/ inc[j].status = "closed"
<1>7. ASSUME NEW row \in Row, Write(i, row), row.session = inc[i].session,
             row.workflow # "closing", Allowed(inc[i].status, row.status)
      PROVE  Held
  <2>1. /\ inc' \in [Incident -> Row] /\ recent' \in Seq(Incident) /\ Sound(Tables)'
        /\ \A j \in Incident : inc'[j] = IF j = i THEN row ELSE inc[j]
    BY <1>1, <1>2, <1>3, <1>7, WriteSound, ProcessFacts
  <2>2. row.status # "none"  BY <1>3, <1>7 DEF Allowed
  <2> QED  BY <1>3, <1>6, <1>7, <2>1, <2>2
<1>8. ASSUME Open(i) /\ Write(i, Closed(i))
       PROVE  Held
  <2>1. PICK row \in Row : /\ row = Closed(i) /\ row.workflow # "closing"
                            /\ row.session = inc[i].session
                            /\ Allowed(inc[i].status, row.status)
    BY CloseFacts
  <2> HIDE DEF Held
  <2> QED  BY <1>7, <1>8, <2>1
<1>9. ASSUME Open(i) /\ inc[i].workflow = "closing" /\ Write(i, InWorkflow(i, closer.previous))
       PROVE  Held
  <2>1. closer.previous \in Workflows \ {"closing"}  BY DEF IInv, Typed
  <2> DEFINE row == InWorkflow(i, closer.previous)
  <2>2. /\ row \in Row /\ row.status = inc[i].status /\ row.session = inc[i].session
        /\ row.workflow = closer.previous
    BY <1>2, <2>1, RowFacts DEF InWorkflow
  <2>3. Write(i, row)  BY <1>9
  <2> HIDE DEF Held, row
  <2>4. Allowed(inc[i].status, row.status)  BY <2>2 DEF Allowed
  <2> QED  BY <1>7, <2>1, <2>2, <2>3, <2>4
<1>10. ASSUME inc[i].workflow # "closing" /\ UNCHANGED <<inc, recent>>
       PROVE  Held
  <2>1. Sound(Tables)'  BY <1>1, <1>10, SameTables, ProcessFacts
  <2> QED  BY <1>6, <1>10, <2>1, ProcessFacts DEF Typed
<1>11. Held
  <2>1. \/ Open(i) /\ Write(i, Closed(i))
        \/ ~Open(i) /\ UNCHANGED <<inc, recent>>
        \/ Open(i) /\ inc[i].workflow = "closing" /\ Write(i, InWorkflow(i, closer.previous))
        \/ inc[i].workflow # "closing" /\ UNCHANGED <<inc, recent>>
        \/ ~Open(i) /\ UNCHANGED <<inc, recent>>
    BY <1>0 DEF EndClose, RestoreClose
  <2>2. ~Open(i) => inc[i].workflow # "closing"  BY <1>2, <1>3, <1>6 DEF Open
  <2> HIDE DEF Held
  <2> QED  BY <1>8, <1>9, <1>10, <2>1, <2>2
<1>12. closer'.incident = 0 /\ closer'.phase = "idle"  BY <1>1, NoOrderFacts
<1>13. WorkRight'  BY <1>1, <1>2, <1>3, <1>5, <1>11, <1>12, ProcessFacts DEF WorkRight
<1>14. SessionRight'
  <2>1. poll.ended => poll.incident \in Incident  BY ProcessFacts DEF SessionRight
  <2> QED  BY <1>1, <1>5, <1>11, <2>1, ProcessFacts DEF SessionRight
<1>15. CloserRight'  BY <1>11, <1>12 DEF CloserRight
<1>16. Paid'
  <2>1. Ending' \subseteq Ending  BY <1>0, <1>2, <1>5, <1>11, <1>12, ProcessFacts DEF Ending
  <2> QED  BY <1>4, <2>1, PaidStep, ProcessFacts, IncidentAssumption
<1>17. Typed'  BY <1>1, <1>4, <1>5, <1>11, NoOrderFacts, ProcessFacts DEF Typed
<1>18. DeliveryRight'  BY <1>1, ProcessFacts DEF DeliveryRight
<1> QED  BY <1>11, <1>13, <1>14, <1>15, <1>16, <1>17, <1>18 DEF IInv
-----------------------------------------------------------------------------
LEMMA AgeStep ==
    ASSUME IInv, Age
    PROVE  IInv'
<1>1. /\ recent # <<>> /\ recent' = Tail(recent)
      /\ UNCHANGED <<plan, arrived, event, worker, sig, inc, coop, job, poll, closer, spent>>
  BY DEF Age, webhook, provision
<1>2. /\ recent' \in Seq(Incident)
      /\ \A n \in DOMAIN recent' : \E m \in DOMAIN recent : recent[m] = recent'[n]
  <2>1. recent \in Seq(Incident)  BY DEF IInv, Typed
  <2>2. /\ recent' \in Seq(Incident) /\ Len(recent') = Len(recent) - 1
        /\ \A n \in 1..Len(recent') : recent'[n] = recent[n + 1]
    BY <1>1, <2>1, HeadTailProperties
  <2>3. /\ DOMAIN recent = 1..Len(recent) /\ DOMAIN recent' = 1..Len(recent')
        /\ Len(recent) \in Nat /\ Len(recent') \in Nat
    BY <2>1, <2>2, LenProperties
  <2>4. \A n \in 1..Len(recent') : n + 1 \in 1..Len(recent)  BY <2>2, <2>3
  <2> QED  BY <2>2, <2>3, <2>4
<1>3. Known(Tables)' = Known(Tables) /\ Opened(Tables)' = Opened(Tables)
  BY <1>1 DEF Known, Opened, Tables
<1>4. Untouched(Tables)'
  <2>1. \A j \in Incident \ Known(Tables) :
          inc[j] = NoIncident /\ \A n \in DOMAIN recent : recent[n] # j
    BY ProcessFacts DEF Sound, Untouched, Tables
  <2>2. \A j \in Incident \ Known(Tables) :
          inc'[j] = NoIncident /\ \A n \in DOMAIN recent' : recent'[n] # j
    BY <1>1, <1>2, <2>1
  <2> QED  BY <1>3, <2>2 DEF Untouched, Tables
<1>5. Numbered(Tables)' /\ Limited(Tables)'
  BY <1>1, <1>3, ProcessFacts DEF Sound, Numbered, Limited
<1>6. SignalsKnown(Tables)'
  BY <1>1, <1>3, ProcessFacts DEF Sound, SignalsKnown, Tables
<1>7. Truthful(Tables)'
  BY <1>1, <1>3, ProcessFacts DEF Sound, Truthful, Tables, Status
<1>8. Typed'  BY <1>1, <1>2 DEF IInv, Typed
<1>9. DeliveryRight' /\ WorkRight' /\ SessionRight' /\ CloserRight' /\ Paid'
  BY <1>1, ProcessFacts DEF DeliveryRight, WorkRight, SessionRight, CloserRight, Paid, Ending
<1> QED  BY <1>4, <1>5, <1>6, <1>7, <1>8, <1>9 DEF IInv, Sound

LEMMA RestartStep ==
    ASSUME IInv, Restart
    PROVE  IInv'
<1> DEFINE closing == {j \in Incident : Open(j) /\ inc[j].workflow = "closing"}
<1>1. /\ inc' = [j \in Incident |-> IF j \in closing THEN [inc[j] EXCEPT !.workflow = "parked"]
                                    ELSE inc[j]]
      /\ IF closing = {} THEN recent' = recent ELSE \E i \in closing : recent' = Bump(recent, i)
      /\ job' = [j \in Incident |-> "idle"]
      /\ worker' = Rest /\ poll' = NoPoll /\ closer' = NoOrder
      /\ UNCHANGED <<plan, arrived, sig, coop>>
      /\ spent' = spent \/ Spend("troubles")
  BY DEF Restart
<1>2. spent' \in [closes : 0..MaxCloses, troubles : Nat] /\ spent'.closes = spent.closes
  BY <1>1, Troubles
<1>3. inc \in [Incident -> Row] /\ Typed  BY DEF IInv, Typed
<1>4. \A j, k \in closing : j = k  BY ProcessFacts DEF CloserRight
<1> DEFINE Held ==
      /\ inc' \in [Incident -> Row] /\ recent' \in Seq(Incident) /\ Sound(Tables)'
      /\ \A j \in Incident : /\ inc'[j].status = inc[j].status
                             /\ inc'[j].session = inc[j].session
                             /\ inc'[j].workflow # "closing"
<1>5. ASSUME closing = {} PROVE Held
  <2>1. inc' = inc /\ recent' = recent  BY <1>1, <1>3, <1>5
  <2>2. Sound(Tables)'  BY <1>1, <2>1, SameTables, ProcessFacts
  <2>3. \A j \in Incident : inc[j].workflow # "closing"
    <3>1. \A j \in Incident : inc[j].workflow = "closing" => Open(j)
      <4>1. \A j \in Incident : inc[j].workflow = "closing" => inc[j].status # "none"
        BY IsIncident
      <4> QED  BY <4>1, ProcessFacts DEF CloserRight, Open
    <3> QED  BY <1>5, <3>1
  <2> QED  BY <2>1, <2>2, <2>3, <1>3 DEF Typed
<1>6. ASSUME NEW i \in closing, recent' = Bump(recent, i) PROVE Held
  <2> DEFINE row == InWorkflow(i, "parked")
  <2>1. i \in Incident /\ inc[i] \in Row /\ inc[i].status \notin {"none", "closed"}
    BY <1>6, ProcessFacts DEF Open
  <2>2. /\ row \in Row /\ row.status = inc[i].status /\ row.session = inc[i].session
        /\ row.workflow = "parked"
    <3>1. "parked" \in Workflows  BY DEF Workflows
    <3> QED  BY <2>1, <3>1, RowFacts DEF InWorkflow
  <2>3. Write(i, row)
    <3>1. \A j \in Incident : j \in closing <=> j = i  BY <1>4, <1>6
    <3>2. row = [inc[i] EXCEPT !.workflow = "parked"]  BY DEF InWorkflow
    <3> HIDE DEF row, closing
    <3>3. inc' = [inc EXCEPT ![i] = row]  BY <1>1, <1>3, <3>1, <3>2
    <3> QED  BY <1>6, <3>3 DEF Write
  <2> HIDE DEF row
  <2>4. Allowed(inc[i].status, row.status)  BY <2>2 DEF Allowed
  <2>5. /\ inc' \in [Incident -> Row] /\ recent' \in Seq(Incident) /\ Sound(Tables)'
        /\ \A j \in Incident : inc'[j] = IF j = i THEN row ELSE inc[j]
    BY <1>1, <2>1, <2>2, <2>3, <2>4, WriteSound, ProcessFacts
  <2>6. \A j \in Incident : j # i => inc[j].workflow # "closing"
    <3>1. closer.incident = i  BY <1>6, ProcessFacts DEF CloserRight
    <3> QED  BY <3>1, ProcessFacts DEF CloserRight
  <2> QED  BY <2>2, <2>5, <2>6
<1>7. Held
  <2> HIDE DEF Held
  <2> QED  BY <1>1, <1>5, <1>6
<1>8. job' \in [Incident -> {"idle", "making", "checking", "creating", "binding"}]
      /\ \A j \in Incident : job'[j] = "idle"
  BY <1>1
<1>9. /\ poll' \in [incident : 0..MaxIncidents, writable : BOOLEAN, ended : BOOLEAN]
      /\ poll'.incident = 0 /\ ~poll'.ended
      /\ closer'.incident = 0 /\ closer'.phase = "idle"
      /\ worker' \in [phase : {"idle", "apply", "settle"}, event : Events \cup {"none"}]
      /\ worker'.phase = "idle"
  BY <1>1, IncidentAssumption, NoOrderFacts DEF NoPoll, Rest
<1>10. /\ event' \in [Events -> Event]
       /\ \A e \in Events : /\ event'[e].kept = event[e].kept
                            /\ event'[e].applied = event[e].applied
                            /\ event'[e].state = "done" => event[e].state = "done"
  <2>1. \A e \in Events : LET row == [event[e] EXCEPT !.state = "retry", !.due = TRUE]
                          IN /\ row \in Event /\ row.kept = event[e].kept
                             /\ row.applied = event[e].applied /\ row.state = "retry"
    <3>1. \A e \in Events : event[e] \in Event  BY <1>3, TypedFacts
    <3> QED  BY <3>1 DEF Event
  <2>2. event' = [e \in Events |-> IF event[e].state = "processing"
                                   THEN [event[e] EXCEPT !.state = "retry", !.due = TRUE]
                                   ELSE event[e]]
    BY DEF Restart
  <2>3. ASSUME NEW e \in Events
        PROVE  /\ event'[e] \in Event /\ event'[e].kept = event[e].kept
               /\ event'[e].applied = event[e].applied
               /\ event'[e].state = "done" => event[e].state = "done"
    <3>1. CASE event[e].state = "processing"
      <4>1. event'[e] = [event[e] EXCEPT !.state = "retry", !.due = TRUE]  BY <2>2, <3>1
      <4> QED  BY <2>1, <4>1
    <3>2. CASE event[e].state # "processing"
      <4>1. event'[e] = event[e]  BY <2>2, <3>2
      <4> QED  BY <1>3, <4>1, TypedFacts
    <3> QED  BY <3>1, <3>2
  <2>4. event' = [e \in Events |-> event'[e]]  BY <2>2
  <2> QED  BY <2>3, <2>4
<1>11. Typed'  BY <1>1, <1>2, <1>7, <1>8, <1>9, <1>10, NoOrderFacts, ProcessFacts DEF Typed
<1>12. DeliveryRight'  BY <1>9, <1>10, ProcessFacts DEF DeliveryRight
<1>13. WorkRight'  BY <1>1, <1>7, <1>8, <1>9, ProcessFacts DEF WorkRight
<1>14. SessionRight' /\ CloserRight'
  BY <1>7, <1>8, <1>9, ProcessFacts DEF SessionRight, CloserRight
<1>15. Paid'
  <2>1. Ending' \subseteq Ending  BY <1>1, <1>7, <1>9, ProcessFacts DEF Ending
  <2> QED  BY <1>2, <2>1, PaidStep, ProcessFacts, IncidentAssumption
<1> QED  BY <1>7, <1>11, <1>12, <1>13, <1>14, <1>15 DEF IInv
-----------------------------------------------------------------------------
(* What a transaction on the tables has built so far.                       *)
DB == [sig : [Signals -> Signal], inc : [Incident -> Row], recent : Seq(Incident),
       kept : SUBSET Nat, full : BOOLEAN]
ClosedOnes(db) == {i \in Incident : db.inc[i].status = "closed"}
Fires(signals, i) == \E s \in Signals : signals[s].incident = i /\ signals[s].status = "firing"

(* An alert closes no incident and reopens none, and touches no session.    *)
Continues(db, nx) ==
    \A i \in Incident :
        /\ nx.inc[i].session = db.inc[i].session
        /\ nx.inc[i].status = "closed" <=> db.inc[i].status = "closed"
        /\ nx.inc[i].status = "none" => db.inc[i].status = "none"
        /\ nx.inc[i].workflow = "closing" => db.inc[i].workflow = "closing"

LEMMA StatusFires ==
    ASSUME NEW signals \in [Signals -> Signal], NEW i
    PROVE  /\ Status(signals, i) \in {"active", "resolved", "monitoring"}
           /\ Status(signals, i) = "active" <=> Fires(signals, i)
<1>1. Calm \in {"resolved", "monitoring"}  BY DEF Calm
<1>2. \A s \in Signals : signals[s] = [incident |-> i, status |-> "firing"]
                           <=> signals[s].incident = i /\ signals[s].status = "firing"
  BY DEF Signal
<1> QED  BY <1>1, <1>2 DEF Status, Fires

(* A new incident always finds a number, and one to reuse is inside the     *)
(* window and open; an alert that leaves its incident leaves an ended one.  *)
LEMMA TargetFacts ==
    ASSUME plan \in Plans, NEW db \in DB, Sound(db), Cardinality(ClosedOnes(db)) <= MaxCloses,
           NEW a \in [signal : Signals, status : {"firing", "resolved"}],
           NEW i, i = Target(db, a), ~NoSlot(db, i)
    PROVE  /\ \/ i \in Known(db) \cup {0}
              \/ /\ i \in Incident \ Known(db) /\ a.status = "firing"
                 /\ \A j \in Incident : j < i <=> j \in Known(db)
                 /\ Cardinality(Opened(db)) < plan.open
           /\ i # 0 /\ Ended(db, i) => a.status = "resolved" /\ db.sig[a.signal].incident = i
           /\ db.sig[a.signal].incident \notin {0, i} => Ended(db, db.sig[a.signal].incident)
<1> DEFINE own == db.sig[a.signal].incident
           places == Reusable(db, Key[a.signal])
<1>1. /\ a.signal \in Signals /\ a.status \in {"firing", "resolved"}
      /\ db.inc \in [Incident -> Row] /\ db.recent \in Seq(Incident)
      /\ db.sig \in [Signals -> Signal]
  BY DEF DB
<1>2. own \in Known(db) \cup {0}  BY <1>1 DEF Sound, SignalsKnown
<1>3. MaxIncidents \in Nat /\ MaxCloses \in Nat /\ Incident = 1..MaxIncidents
      /\ plan.open \in 1..(MaxIncidents - MaxCloses)
  BY IncidentAssumption DEF Incident
<1>4. ASSUME places # {}
      PROVE  /\ db.recent[Max(places)] \in Known(db) /\ ~Ended(db, db.recent[Max(places)])
  <2>1. DOMAIN db.recent = 1..Len(db.recent) /\ Len(db.recent) \in Nat  BY <1>1, LenProperties
  <2>2. places \in SUBSET (1..Len(db.recent))  BY <2>1 DEF Reusable
  <2>3. Max(places) \in places  BY <1>4, <2>1, <2>2, MinMax
  <2>4. PICK n \in 1..Len(db.recent) : n = Max(places)  BY <2>2, <2>3
  <2>5. db.inc[db.recent[n]].status # "closed" /\ db.recent[n] \in Incident
    BY <1>1, <2>3, <2>4, ElementOfSeq DEF Reusable
  <2>6. Contains(db.recent, db.recent[n])  BY <2>4 DEF Contains
  <2>7. db.recent[n] \in Known(db)  BY <2>1, <2>4, <2>5 DEF Sound, Untouched
  <2> QED  BY <2>4, <2>5, <2>6, <2>7 DEF Ended
<1>5. i \in {own, 0, New(db)} \/ (places # {} /\ i = db.recent[Max(places)])
  BY DEF Target
<1>6. ASSUME i \notin Known(db) \cup {0}
      PROVE  /\ i \in Incident \ Known(db) /\ a.status = "firing"
             /\ \A j \in Incident : j < i <=> j \in Known(db)
             /\ Cardinality(Opened(db)) < plan.open
  <2>1. i = New(db) /\ a.status = "firing"  BY <1>1, <1>2, <1>4, <1>6 DEF Target
  <2>2. Opened(db) \in SUBSET Incident /\ ClosedOnes(db) \in SUBSET Incident
        /\ Known(db) = Opened(db) \cup ClosedOnes(db)
    BY DEF Opened, ClosedOnes, Known
  <2>3. IsFiniteSet(Opened(db)) /\ IsFiniteSet(ClosedOnes(db))
        /\ Cardinality(Opened(db)) \in Nat /\ Cardinality(ClosedOnes(db)) \in Nat
    BY <2>2, Count
  <2>4. Cardinality(Opened(db)) < plan.open  BY <1>3, <1>6, <2>3 DEF NoSlot
  <2>5. Opened(db) \cap ClosedOnes(db) = {}  BY DEF Opened, ClosedOnes
  <2>6. Cardinality(Known(db)) = Cardinality(Opened(db)) + Cardinality(ClosedOnes(db))
    <3>1. Cardinality(Opened(db) \cup ClosedOnes(db)) =
            Cardinality(Opened(db)) + Cardinality(ClosedOnes(db))
              - Cardinality(Opened(db) \cap ClosedOnes(db))
      BY <2>3, FS_Union
    <3>2. Cardinality(Opened(db) \cap ClosedOnes(db)) = 0  BY <2>5, FS_EmptySet
    <3> QED  BY <2>2, <2>3, <3>1, <3>2
  <2>7. Cardinality(Known(db)) < MaxIncidents  BY <1>3, <2>3, <2>4, <2>6
  <2> QED  BY <2>1, <2>4, <2>7, NewFacts DEF Sound
<1>7. ASSUME i # 0, Ended(db, i) PROVE a.status = "resolved" /\ own = i
  <2>1. i \in Known(db)
    <3>1. i \in Incident => db.inc[i].status # "none"  BY <1>7 DEF Ended
    <3> QED  BY <1>6, <1>7, <3>1 DEF Known
  <2>2. CASE own # 0 /\ (a.status = "resolved" \/ ~Ended(db, own))
    BY <1>7, <2>2 DEF Target
  <2>3. CASE ~(own # 0 /\ (a.status = "resolved" \/ ~Ended(db, own)))
    <3>1. a.status # "resolved"  BY <1>7, <2>3 DEF Target
    <3>2. places # {} \/ i = New(db)  BY <2>3, <3>1 DEF Target
    <3>3. i # New(db)
      <4>1. i \in Known(db) => ~(Cardinality(Known(db)) < MaxIncidents /\ i = New(db))
        BY NewFacts DEF Sound
      <4>2. Known(db) \in SUBSET Incident  BY DEF Known
      <4>3. Cardinality(Known(db)) \in Nat /\ Cardinality(Known(db)) <= MaxIncidents
        <5>1. Incident \in SUBSET Incident  OBVIOUS
        <5>2. Cardinality(Known(db)) \in Nat /\ Cardinality(Known(db)) <= Cardinality(Incident)
          BY <4>2, <5>1, Count
        <5>3. Cardinality(Incident) = MaxIncidents
          <6>1. Cardinality(1..MaxIncidents) = IF 1 > MaxIncidents THEN 0 ELSE MaxIncidents - 1 + 1
            BY <1>3, FS_Interval
          <6> QED  BY <1>3, <6>1
        <5> QED  BY <5>2, <5>3
      <4>4. ASSUME i = New(db) PROVE FALSE
        <5>1. i = Cardinality(Known(db)) + 1  BY <4>4 DEF New
        <5>2. i <= MaxIncidents  BY <1>3, <2>1, <4>2
        <5> QED  BY <1>3, <2>1, <4>1, <4>3, <4>4, <5>1, <5>2
      <4> QED  BY <4>4
    <3>4. i = db.recent[Max(places)]  BY <2>3, <3>1, <3>2, <3>3 DEF Target
    <3> QED  BY <1>4, <1>7, <3>2, <3>3, <3>4
  <2> QED  BY <2>2, <2>3
<1>8. ASSUME own \notin {0, i} PROVE Ended(db, own)  BY <1>8 DEF Target
<1> QED  BY <1>6, <1>7, <1>8

(* The signals once an alert was recorded for incident i.                   *)
Pointed(db, a, i) == [db.sig EXCEPT ![a.signal] = [incident |-> i, status |-> a.status]]

(* The alert's own step: which signal points where, and whose status it is. *)
LEMMA SignalMoves ==
    ASSUME plan \in Plans, NEW db \in DB, Sound(db), Cardinality(ClosedOnes(db)) <= MaxCloses,
           NEW a \in [signal : Signals, status : {"firing", "resolved"}],
           NEW i, i = Target(db, a), ~NoSlot(db, i),
           NEW signals, signals = Pointed(db, a, i)
    PROVE  /\ signals \in [Signals -> Signal]
           /\ \A s \in Signals : signals[s].incident \in Known(db) \cup {0, i}
           /\ \A j \in Opened(db) : j # i =>
                (db.inc[j].status = "active" <=> Status(signals, j) = "active")
           /\ i \in Opened(db) /\ ~Refreshes(db, a, i) =>
                (db.inc[i].status = "active" <=> Status(signals, i) = "active")
           /\ a.status = "firing" => Status(signals, i) = "active"
           /\ ~Refreshes(db, a, i) => i \in Known(db) \cup {0}
<1> DEFINE own == db.sig[a.signal].incident
<1>1. /\ a.signal \in Signals /\ a.status \in {"firing", "resolved"}
      /\ db.sig \in [Signals -> Signal] /\ db.inc \in [Incident -> Row]
  BY DEF DB
<1>2. MaxIncidents \in Nat /\ Incident = 1..MaxIncidents  BY IncidentAssumption DEF Incident
<1>3. /\ i \in Known(db) \cup {0} \/ (i \in Incident \ Known(db) /\ a.status = "firing")
      /\ i # 0 /\ Ended(db, i) => a.status = "resolved" /\ own = i
      /\ own \notin {0, i} => Ended(db, own)
  BY TargetFacts
<1>4. i \in 0..MaxIncidents  BY <1>2, <1>3 DEF Known
<1>5. /\ signals \in [Signals -> Signal]
      /\ \A s \in Signals : signals[s] = IF s = a.signal THEN [incident |-> i, status |-> a.status]
                                         ELSE db.sig[s]
  BY <1>1, <1>4 DEF Signal, Pointed
<1>6. \A s \in Signals : signals[s].incident \in Known(db) \cup {0, i}
  BY <1>5 DEF Sound, SignalsKnown
<1>7. \A j \in Opened(db) : db.inc[j].status = "active" <=> Fires(db.sig, j)
  BY <1>1, StatusFires DEF Sound, Truthful
<1>8. \A j : Status(signals, j) = "active" <=> Fires(signals, j)  BY <1>5, StatusFires
<1>9. ASSUME NEW j \in Opened(db), j # i
      PROVE  db.inc[j].status = "active" <=> Status(signals, j) = "active"
  <2>1. j # 0  BY <1>2, <1>9 DEF Opened, Known
  <2>2. CASE own = j
    <3>1. Ended(db, j)  BY <1>3, <1>9, <2>1, <2>2
    <3>2. db.inc[j].status = "resolved"  BY <1>9, <3>1 DEF Ended, Opened
    <3>3. ~Fires(db.sig, j)  BY <1>7, <3>2
    <3>4. ~Fires(signals, j)  BY <1>5, <1>9, <3>3 DEF Fires
    <3> QED  BY <1>8, <3>2, <3>4
  <2>3. CASE own # j
    <3>1. Fires(signals, j) <=> Fires(db.sig, j)
      <4>1. ASSUME NEW s \in Signals, s # a.signal PROVE signals[s] = db.sig[s]  BY <1>5, <4>1
      <4>2. signals[a.signal].incident = i  BY <1>1, <1>5
      <4> QED  BY <1>1, <1>9, <2>3, <4>1, <4>2 DEF Fires
    <3> QED  BY <1>7, <1>8, <3>1
  <2> QED  BY <2>2, <2>3
<1>10. ASSUME i \in Opened(db), ~Refreshes(db, a, i)
       PROVE  db.inc[i].status = "active" <=> Status(signals, i) = "active"
  <2>1. i # 0 /\ db.inc[i].status # "closed"  BY <1>2, <1>10 DEF Opened, Known
  <2>2. CASE Ended(db, i)
    <3>1. db.inc[i].status = "resolved" /\ a.status = "resolved" /\ own = i
      BY <1>3, <2>1, <2>2 DEF Ended
    <3>2. ~Fires(db.sig, i)  BY <1>7, <1>10, <3>1
    <3>3. ~Fires(signals, i)  BY <1>5, <3>1, <3>2 DEF Fires
    <3> QED  BY <1>8, <3>1, <3>3
  <2>3. CASE ~Ended(db, i)
    <3>1. db.sig[a.signal] = [incident |-> i, status |-> a.status]
      BY <1>10, <2>1, <2>3 DEF Refreshes
    <3>2. \A s \in Signals : signals[s] = db.sig[s]  BY <1>5, <3>1
    <3>3. Fires(signals, i) <=> Fires(db.sig, i)  BY <3>2 DEF Fires
    <3> QED  BY <1>7, <1>8, <1>10, <3>3
  <2> QED  BY <2>2, <2>3
<1>11. a.status = "firing" => Status(signals, i) = "active"
  <2>1. a.status = "firing" => Fires(signals, i)  BY <1>1, <1>5 DEF Fires
  <2> QED  BY <1>8, <2>1
<1>12. ASSUME ~Refreshes(db, a, i), i \notin Known(db) \cup {0} PROVE FALSE
  <2>1. i # 0 /\ i \in Incident /\ db.inc[i].status = "none"  BY <1>3, <1>12 DEF Known
  <2>2. ~Ended(db, i)  BY <2>1 DEF Ended
  <2>3. own = i  BY <1>12, <2>1, <2>2 DEF Refreshes
  <2> QED  BY <1>1, <1>12, <2>3 DEF Sound, SignalsKnown
<1> QED  BY <1>5, <1>6, <1>9, <1>10, <1>11, <1>12

LEMMA RefreshedFacts ==
    ASSUME NEW db \in DB, NEW i \in Incident, NEW signals \in [Signals -> Signal],
           NEW a \in [signal : Signals, status : {"firing", "resolved"}]
    PROVE  LET row == Refreshed(db, signals, i, a) IN
           /\ row \in Row
           /\ db.inc[i].status = "none" =>
                row.status = "active" /\ ~row.session /\ row.workflow = "provisioning_channel"
           /\ db.inc[i].status # "none" =>
                /\ row.status = Status(signals, i)
                /\ row.session = db.inc[i].session /\ row.workflow = db.inc[i].workflow
<1>1. db.inc[i] \in Row /\ a.signal \in Signals  BY DEF DB
<1>2. Status(signals, i) \in Statuses  BY StatusFires DEF Statuses
<1>3. CASE db.inc[i].status = "none"
  <2>1. Refreshed(db, signals, i, a) = Started(a)  BY <1>3 DEF Refreshed
  <2>2. Key[a.signal] \in {Key[s] : s \in Signals} \cup {"none"}  BY <1>1
  <2>3. /\ Started(a) \in Row /\ Started(a).status = "active" /\ ~Started(a).session
        /\ Started(a).workflow = "provisioning_channel"
    BY <2>2 DEF Started, NoIncident, Row, Statuses, Workflows
  <2> QED  BY <1>3, <2>1, <2>3
<1>4. CASE db.inc[i].status # "none"
  <2>1. Refreshed(db, signals, i, a) = [db.inc[i] EXCEPT !.status = Status(signals, i)]
    BY <1>4 DEF Refreshed
  <2> QED  BY <1>1, <1>2, <1>4, <2>1, StatusFacts
<1> QED  BY <1>3, <1>4

(* One alert keeps the tables sound, and is kept unless no slot was left.   *)
LEMMA ApplySignalStep ==
    ASSUME plan \in Plans, NEW db \in DB, Sound(db), Cardinality(ClosedOnes(db)) <= MaxCloses,
           NEW n \in Nat, NEW a \in [signal : Signals, status : {"firing", "resolved"}],
           NEW nx, nx = ApplySignal(db, n, a)
    PROVE  /\ nx \in DB /\ Sound(nx) /\ Continues(db, nx)
           /\ db.full => nx.full
           /\ \/ nx.full /\ nx.kept = db.kept
              \/ nx.kept = db.kept \cup {n}
<1>1. PICK i : i = Target(db, a)  OBVIOUS
<1>2. PICK signals : signals = Pointed(db, a, i)
  OBVIOUS
<1>3. /\ db.sig \in [Signals -> Signal] /\ db.inc \in [Incident -> Row]
      /\ db.recent \in Seq(Incident) /\ db.kept \in SUBSET Nat /\ db.full \in BOOLEAN
  BY DEF DB
<1>4. CASE NoSlot(db, i)
  <2>1. nx = [db EXCEPT !.full = TRUE]  BY <1>1, <1>4 DEF ApplySignal
  <2>2. /\ nx \in DB /\ nx.full /\ nx.kept = db.kept
        /\ nx.sig = db.sig /\ nx.inc = db.inc /\ nx.recent = db.recent
    BY <2>1 DEF DB
  <2>3. Sound(nx)
    BY <2>2 DEF Sound, Numbered, Untouched, SignalsKnown, Truthful, Limited, Known, Opened
  <2>4. Continues(db, nx)  BY <2>2 DEF Continues
  <2> QED  BY <2>2, <2>3, <2>4
<1>5. CASE ~NoSlot(db, i)
  <2>1. /\ signals \in [Signals -> Signal]
        /\ \A s \in Signals : signals[s].incident \in Known(db) \cup {0, i}
        /\ \A j \in Opened(db) : j # i =>
             (db.inc[j].status = "active" <=> Status(signals, j) = "active")
        /\ i \in Opened(db) /\ ~Refreshes(db, a, i) =>
             (db.inc[i].status = "active" <=> Status(signals, i) = "active")
        /\ a.status = "firing" => Status(signals, i) = "active"
        /\ ~Refreshes(db, a, i) => i \in Known(db) \cup {0}
    BY <1>1, <1>2, <1>5, SignalMoves
  <2>2. \/ i \in Known(db) \cup {0}
        \/ /\ i \in Incident \ Known(db) /\ a.status = "firing"
           /\ \A j \in Incident : j < i <=> j \in Known(db)
           /\ Cardinality(Opened(db)) < plan.open
    BY <1>1, <1>5, TargetFacts
  <2>3. PICK incs, order :
          /\ incs = IF Refreshes(db, a, i)
                    THEN [db.inc EXCEPT ![i] = Refreshed(db, signals, i, a)] ELSE db.inc
          /\ order = IF Refreshes(db, a, i) THEN Bump(db.recent, i) ELSE db.recent
    OBVIOUS
  <2>4. /\ nx.sig = signals /\ nx.inc = incs /\ nx.recent = order
        /\ nx.kept = db.kept \cup {n} /\ nx.full = db.full
        /\ nx = [sig |-> nx.sig, inc |-> nx.inc, recent |-> nx.recent,
                 kept |-> nx.kept, full |-> nx.full]
    <3>1. nx = [db EXCEPT !.sig = signals, !.kept = @ \cup {n}, !.inc = incs, !.recent = order]
      <4>1. nx = [db EXCEPT !.sig = signals, !.kept = @ \cup {n},
                    !.inc = IF Refreshes(db, a, i)
                            THEN [@ EXCEPT ![i] = Refreshed(db, signals, i, a)] ELSE @,
                    !.recent = IF Refreshes(db, a, i) THEN Bump(@, i) ELSE @]
        BY <1>1, <1>2, <1>5 DEF ApplySignal, Pointed
      <4> QED  BY <4>1, <2>3 DEF DB
    <3> QED  BY <3>1 DEF DB
  <2>5. CASE Refreshes(db, a, i)
    <3>1. i \in Incident /\ ~Ended(db, i) /\ i # 0  BY <2>2, <2>5 DEF Refreshes, Known
    <3>2. PICK row \in Row :
            /\ row = Refreshed(db, signals, i, a)
            /\ db.inc[i].status = "none" =>
                 row.status = "active" /\ ~row.session /\ row.workflow = "provisioning_channel"
            /\ db.inc[i].status # "none" =>
                 /\ row.status = Status(signals, i)
                 /\ row.session = db.inc[i].session /\ row.workflow = db.inc[i].workflow
      BY <2>1, <3>1, RefreshedFacts
    <3>3. /\ incs \in [Incident -> Row]
          /\ \A j \in Incident : incs[j] = IF j = i THEN row ELSE db.inc[j]
      BY <1>3, <2>3, <2>5, <3>2
    <3>4. /\ order \in Seq(Incident)
          /\ \A m \in DOMAIN order : order[m] = i \/ \E k \in DOMAIN db.recent : db.recent[k] = order[m]
      BY <1>3, <2>3, <2>5, <3>1, BumpFacts
    <3>5. nx \in DB
      <4>1. nx.kept \in SUBSET Nat  BY <1>3, <2>4
      <4> QED  BY <1>3, <2>1, <2>4, <3>3, <3>4, <4>1 DEF DB
    <3>6. row.status \in {"active", "resolved", "monitoring"}
      BY <2>1, <3>2, StatusFires
    <3>7. Known(nx) = Known(db) \cup {i}
      BY <2>4, <3>1, <3>3, <3>6 DEF Known
    <3>8. Opened(nx) = Opened(db) \cup {i}
      BY <2>4, <3>1, <3>3, <3>6, <3>7 DEF Opened, Known
    <3>9. Numbered(nx)
      <4>1. \A k \in Known(db), j \in Incident : j < k => j \in Known(db)
        BY DEF Sound, Numbered
      <4>2. \A j \in Incident : j < i => j \in Known(db)  BY <2>2, <3>1, <4>1
      <4> QED  BY <3>7, <4>1, <4>2 DEF Numbered
    <3>10. Untouched(nx)
      <4>1. \A j \in Incident \ Known(db) :
              db.inc[j] = NoIncident /\ \A m \in DOMAIN db.recent : db.recent[m] # j
        BY DEF Sound, Untouched
      <4>2. \A j \in Incident \ Known(nx) :
              incs[j] = NoIncident /\ \A m \in DOMAIN order : order[m] # j
        BY <3>3, <3>4, <3>7, <4>1
      <4> QED  BY <2>4, <4>2 DEF Untouched
    <3>11. SignalsKnown(nx)  BY <2>1, <2>4, <3>7 DEF SignalsKnown
    <3>12. Truthful(nx)
      <4>1. ASSUME NEW j \in Opened(nx)
            PROVE  (incs[j].status = "active") <=> (Status(signals, j) = "active")
        <5>1. CASE j = i
          <6>1. CASE db.inc[i].status = "none"
            <7>1. i \notin Known(db)  BY <6>1 DEF Known
            <7>2. a.status = "firing"  BY <2>2, <3>1, <7>1
            <7> QED  BY <2>1, <3>1, <3>2, <3>3, <5>1, <6>1, <7>2
          <6>2. CASE db.inc[i].status # "none"
            BY <3>1, <3>2, <3>3, <5>1, <6>2
          <6> QED  BY <6>1, <6>2
        <5>2. CASE j # i
          <6>1. j \in Opened(db) /\ j \in Incident  BY <3>8, <4>1, <5>2 DEF Opened, Known
          <6> QED  BY <2>1, <3>3, <5>2, <6>1
        <5> QED  BY <5>1, <5>2
      <4> QED  BY <2>4, <4>1 DEF Truthful
    <3>13. Limited(nx)
      <4>1. Opened(db) \in SUBSET Incident /\ Opened(nx) \in SUBSET Incident
        BY DEF Opened, Known
      <4>2. plan.open \in Int /\ Cardinality(Opened(db)) \in Nat /\ Cardinality(Opened(nx)) \in Nat
            /\ Cardinality(Opened(db)) <= plan.open
        BY <4>1, Count, IncidentAssumption DEF Sound, Limited
      <4>3. CASE i \in Known(db)
        <5>1. i \in Opened(db)  BY <3>1, <4>3 DEF Opened, Ended
        <5>2. Opened(nx) = Opened(db)  BY <3>8, <5>1
        <5> QED  BY <4>2, <5>2 DEF Limited
      <4>4. CASE i \notin Known(db)
        <5>1. Cardinality(Opened(db)) < plan.open  BY <2>2, <2>5, <4>4 DEF Refreshes
        <5>2. Cardinality(Opened(nx)) <= Cardinality(Opened(db)) + 1  BY <3>8, <4>1, Count
        <5> QED  BY <4>2, <5>1, <5>2 DEF Limited
      <4> QED  BY <4>3, <4>4
    <3>14. Continues(db, nx)
      <4>1. db.inc[i].status # "closed"  BY <3>1 DEF Ended
      <4>2. db.inc[i].status = "none" => ~db.inc[i].session
        BY <3>1 DEF Sound, Untouched, Known, NoIncident
      <4>3. row.session \in BOOLEAN /\ db.inc[i].session \in BOOLEAN  BY <1>3, <3>1, <3>2 DEF Row
      <4>4. ASSUME NEW j \in Incident
            PROVE  /\ incs[j].session = db.inc[j].session
                   /\ incs[j].status = "closed" <=> db.inc[j].status = "closed"
                   /\ incs[j].status = "none" => db.inc[j].status = "none"
                   /\ incs[j].workflow = "closing" => db.inc[j].workflow = "closing"
        <5>1. CASE j # i  BY <3>3, <5>1
        <5>2. CASE j = i  BY <3>2, <3>3, <3>6, <4>1, <4>2, <4>3, <5>2
        <5> QED  BY <5>1, <5>2
      <4> QED  BY <2>4, <4>4 DEF Continues
    <3> QED  BY <2>4, <3>5, <3>9, <3>10, <3>11, <3>12, <3>13, <3>14 DEF Sound
  <2>6. CASE ~Refreshes(db, a, i)
    <3>1. nx.inc = db.inc /\ nx.recent = db.recent  BY <2>3, <2>4, <2>6
    <3>2. nx \in DB
      <4>1. nx.kept \in SUBSET Nat  BY <1>3, <2>4
      <4> QED  BY <1>3, <2>1, <2>4, <3>1, <4>1 DEF DB
    <3>3. Known(nx) = Known(db) /\ Opened(nx) = Opened(db)  BY <3>1 DEF Known, Opened
    <3>4. Numbered(nx) /\ Untouched(nx) /\ Limited(nx)
      BY <3>1, <3>3 DEF Sound, Numbered, Untouched, Limited
    <3>5. SignalsKnown(nx)  BY <2>1, <2>4, <2>6, <3>3 DEF SignalsKnown
    <3>6. Truthful(nx)
      <4>1. \A j \in Opened(db) : (db.inc[j].status = "active") <=> (Status(signals, j) = "active")
        BY <2>1, <2>6
      <4> QED  BY <2>4, <3>1, <3>3, <4>1 DEF Truthful
    <3>7. Continues(db, nx)  BY <3>1 DEF Continues
    <3> QED  BY <2>4, <3>2, <3>4, <3>5, <3>6, <3>7 DEF Sound
  <2> QED  BY <2>5, <2>6
<1> QED  BY <1>4, <1>5
-----------------------------------------------------------------------------
(* The transaction is the chain of its alerts: the function that recursion  *)
(* defines exists, since there is no least number of alerts without one.    *)
Fits(f, base, alerts, m) ==
    f = [n \in 0..m |-> IF n = 0 THEN base ELSE ApplySignal(f[n - 1], n, alerts[n])]

LEMMA ChainExists ==
    ASSUME NEW base, NEW alerts, NEW m \in Nat
    PROVE  \E f : Fits(f, base, alerts, m)
<1> DEFINE T == {k \in Nat : ~ \E f : Fits(f, base, alerts, k)}
<1>1. SUFFICES ASSUME T # {} PROVE FALSE  OBVIOUS
<1>2. PICK k \in T : \A y \in T : k <= y
  <2>1. T \in SUBSET Nat  OBVIOUS
  <2> HIDE DEF T
  <2> QED  BY <1>1, <2>1, Least
<1>3. k \in Nat /\ ~ \E f : Fits(f, base, alerts, k)  OBVIOUS
<1>4. CASE k = 0
  <2> DEFINE f == [n \in 0..0 |-> base]
  <2>1. \A n \in 0..0 : n = 0  OBVIOUS
  <2>2. f = [n \in 0..0 |-> IF n = 0 THEN base ELSE ApplySignal(f[n - 1], n, alerts[n])]
    BY <2>1, Zenon
  <2>3. Fits(f, base, alerts, 0)  BY <2>2 DEF Fits
  <2> QED  BY <1>3, <1>4, <2>3
<1>5. CASE k # 0
  <2>1. k - 1 \in Nat /\ k - 1 < k  BY <1>3, <1>5
  <2>2. k - 1 \notin T  BY <1>2, <1>3, <2>1
  <2>3. PICK f : Fits(f, base, alerts, k - 1)  BY <2>1, <2>2
  <2> DEFINE g == [n \in 0..k |-> IF n = k THEN ApplySignal(f[k - 1], k, alerts[k]) ELSE f[n]]
  <2>4. ASSUME NEW n \in 0..k
        PROVE  g[n] = IF n = 0 THEN base ELSE ApplySignal(g[n - 1], n, alerts[n])
    <3>1. CASE n = k
      <4>1. k - 1 \in 0..k /\ k - 1 # k /\ k \in 0..k  BY <1>3, <2>1
      <4>2. g[k - 1] = f[k - 1] /\ g[k] = ApplySignal(f[k - 1], k, alerts[k])  BY <4>1
      <4> HIDE DEF g
      <4> QED  BY <1>5, <3>1, <4>2
    <3>2. CASE n # k
      <4>1. n \in 0..(k - 1)  BY <1>3, <3>2
      <4>2. f[n] = IF n = 0 THEN base ELSE ApplySignal(f[n - 1], n, alerts[n])
        BY <2>3, <4>1 DEF Fits
      <4>3. g[n] = f[n]  BY <3>2
      <4>4. n # 0 => n - 1 \in 0..k /\ n - 1 # k  BY <1>3, <4>1
      <4>5. n # 0 => g[n - 1] = f[n - 1]  BY <4>4
      <4> HIDE DEF g
      <4> QED  BY <4>2, <4>3, <4>5
    <3> QED  BY <3>1, <3>2
  <2>5. g = [n \in 0..k |-> g[n]]  OBVIOUS
  <2> HIDE DEF g
  <2>6. g = [n \in 0..k |-> IF n = 0 THEN base ELSE ApplySignal(g[n - 1], n, alerts[n])]
    BY <2>4, <2>5, Zenon
  <2> QED  BY <1>3, <2>6 DEF Fits
<1> QED  BY <1>4, <1>5

LEMMA AppliedIsChain ==
    ASSUME NEW e \in Events
    PROVE  \E f : Fits(f, Stored(e), Alerts[e], Len(Alerts[e])) /\ Applied(e) = f[Len(Alerts[e])]
<1> DEFINE m == Len(Alerts[e])
           chain == CHOOSE f : f = [n \in 0..m |->
                      IF n = 0 THEN Stored(e) ELSE ApplySignal(f[n - 1], n, Alerts[e][n])]
<1>1. m \in Nat  BY IncidentAssumption, LenProperties
<1>2. \E f : Fits(f, Stored(e), Alerts[e], m)  BY <1>1, ChainExists
<1>3. Fits(chain, Stored(e), Alerts[e], m)  BY <1>2 DEF Fits
<1>4. Applied(e) = chain[m]  BY DEF Applied
<1> QED  BY <1>3, <1>4

(* A transaction keeps the tables sound, and either keeps every alert or    *)
(* says that a slot was missing.                                            *)
LEMMA AppliedSound ==
    ASSUME IInv, NEW e \in Events
    PROVE  LET db == Applied(e) IN
           /\ db \in DB /\ Sound(db) /\ Continues(Tables, db)
           /\ event[e].kept \subseteq db.kept /\ db.kept \subseteq 1..Len(Alerts[e])
           /\ db.full \/ db.kept = 1..Len(Alerts[e])
<1> DEFINE m == Len(Alerts[e])
<1>1. /\ m \in Nat /\ Alerts[e] \in Seq([signal : Signals, status : {"firing", "resolved"}])
      /\ \A n \in 1..m : Alerts[e][n] \in [signal : Signals, status : {"firing", "resolved"}]
  <2>1. Alerts[e] \in Seq([signal : Signals, status : {"firing", "resolved"}])
    BY IncidentAssumption
  <2> QED  BY <2>1, LenProperties, ElementOfSeq
<1>2. PICK f : Fits(f, Stored(e), Alerts[e], m) /\ Applied(e) = f[m]  BY AppliedIsChain
<1>3. f[0] = Stored(e) /\ \A n \in 1..m : f[n] = ApplySignal(f[n - 1], n, Alerts[e][n])
  <2>1. 0 \in 0..m /\ \A n \in 1..m : n \in 0..m /\ n # 0  BY <1>1
  <2> QED  BY <1>2, <2>1 DEF Fits
<1> DEFINE Right(n) ==
      /\ f[n] \in DB /\ Sound(f[n]) /\ Continues(Tables, f[n])
      /\ event[e].kept \subseteq f[n].kept /\ f[n].kept \subseteq 1..m
      /\ f[n].full \/ 1..n \subseteq f[n].kept
<1>4. plan \in Plans /\ Typed /\ Sound(Tables) /\ event[e] \in Event
      /\ event[e].kept \subseteq 1..m
  BY ProcessFacts, TypedFacts DEF DeliveryRight
<1>5. Right(0)
  <2>1. /\ f[0].sig = sig /\ f[0].inc = inc /\ f[0].recent = recent
        /\ f[0].kept = event[e].kept /\ f[0].full = FALSE /\ f[0] \in DB
    BY <1>3, <1>4 DEF Stored, DB, Typed, Event
  <2>2. Tables.sig = sig /\ Tables.inc = inc /\ Tables.recent = recent  BY DEF Tables
  <2>3. Sound(f[0])
    BY <1>4, <2>1, <2>2 DEF Sound, Numbered, Untouched, SignalsKnown, Truthful, Limited, Known, Opened
  <2>4. Continues(Tables, f[0])  BY <2>1, <2>2 DEF Continues
  <2>5. 1..0 = {}  OBVIOUS
  <2> QED  BY <1>4, <2>1, <2>3, <2>4, <2>5
<1>6. ASSUME NEW n \in 1..m, Right(n - 1) PROVE Right(n)
  <2> HIDE DEF m
  <2>1. Cardinality(ClosedOnes(f[n - 1])) <= MaxCloses
    <3>1. ClosedOnes(f[n - 1]) \subseteq Ending
      BY <1>6 DEF Continues, ClosedOnes, Ending, Tables
    <3>2. ClosedOnes(f[n - 1]) \in SUBSET Incident /\ Ending \in SUBSET Incident
      BY DEF ClosedOnes, Ending
    <3>3. /\ Cardinality(ClosedOnes(f[n - 1])) \in Nat /\ Cardinality(Ending) \in Nat
          /\ Cardinality(ClosedOnes(f[n - 1])) <= Cardinality(Ending)
      BY <3>1, <3>2, Count
    <3>4. Cardinality(Ending) <= spent.closes /\ spent.closes \in 0..MaxCloses
      BY ProcessFacts DEF Paid, Typed
    <3>5. MaxCloses \in Nat  BY IncidentAssumption
    <3> QED  BY <3>3, <3>4, <3>5
  <2>2. f[n] = ApplySignal(f[n - 1], n, Alerts[e][n]) /\ n \in Nat  BY <1>1, <1>3
  <2>3. Alerts[e][n] \in [signal : Signals, status : {"firing", "resolved"}]  BY <1>1
  <2>4. f[n - 1] \in DB /\ Sound(f[n - 1])  BY <1>6
  <2>5. /\ f[n] \in DB /\ Sound(f[n]) /\ Continues(f[n - 1], f[n])
        /\ f[n - 1].full => f[n].full
        /\ \/ f[n].full /\ f[n].kept = f[n - 1].kept
           \/ f[n].kept = f[n - 1].kept \cup {n}
    BY <1>4, <2>1, <2>2, <2>3, <2>4, ApplySignalStep
  <2>6. Continues(Tables, f[n])  BY <1>6, <2>5 DEF Continues
  <2>7. f[n].full \/ 1..n \subseteq f[n].kept
    <3>1. f[n - 1].full \/ 1..(n - 1) \subseteq f[n - 1].kept  BY <1>6
    <3>2. \A k \in 1..n : k \in 1..(n - 1) \/ k = n  BY <2>2
    <3> QED  BY <2>5, <3>1, <3>2
  <2>8. event[e].kept \subseteq f[n].kept /\ f[n].kept \subseteq 1..m
    BY <1>6, <2>5
  <2> QED  BY <2>5, <2>6, <2>7, <2>8
<1> HIDE DEF Right
<1>7. \A n \in 0..m : Right(n)
  <2> DEFINE T == {n \in 0..m : ~Right(n)}
  <2>1. SUFFICES ASSUME T # {} PROVE FALSE  OBVIOUS
  <2>2. T \in SUBSET Nat  BY <1>1
  <2>3. PICK n \in T : \A y \in T : n <= y  BY <2>1, <2>2, Least
  <2>4. n # 0  BY <1>5, <2>3
  <2>5. n \in 1..m /\ n - 1 \in 0..m /\ n - 1 < n  BY <1>1, <2>3, <2>4
  <2>6. Right(n - 1)
    <3>1. n - 1 \notin T  BY <2>3, <2>5
    <3> QED  BY <2>5, <3>1
  <2> QED  BY <1>6, <2>3, <2>5, <2>6
<1>8. Right(m)  BY <1>1, <1>7
<1> QED  BY <1>2, <1>8 DEF Right

LEMMA ApplyStep ==
    ASSUME IInv, Apply
    PROVE  IInv'
<1>1. /\ worker.phase = "apply" /\ worker' = [worker EXCEPT !.phase = "settle"]
      /\ UNCHANGED <<plan, arrived, coop, job, poll, closer, spent>>
  BY DEF Apply, GoOn, provision
<1>2. PICK e \in Events : e = worker.event /\ event[e].state = "processing"
  BY <1>1, ProcessFacts DEF DeliveryRight
<1>3. /\ worker' \in [phase : {"idle", "apply", "settle"}, event : Events \cup {"none"}]
      /\ worker'.event = e
  BY <1>1, <1>2, ProcessFacts DEF Typed
<1>4. CASE event[e].applied
  <2>1. UNCHANGED <<sig, inc, recent, event>>  BY <1>2, <1>4 DEF Apply
  <2>2. DeliveryRight'  BY <1>2, <1>3, <2>1, ProcessFacts DEF DeliveryRight
  <2> QED  BY <1>1, <1>3, <2>1, <2>2, DrainStep, ProcessFacts DEF Typed
<1>5. CASE ~event[e].applied
  <2>1. PICK db \in DB :
          /\ db = Applied(e) /\ Sound(db) /\ Continues(Tables, db)
          /\ event[e].kept \subseteq db.kept /\ db.kept \subseteq 1..Len(Alerts[e])
          /\ db.full \/ db.kept = 1..Len(Alerts[e])
    BY AppliedSound
  <2>2. /\ sig' = db.sig /\ inc' = db.inc /\ recent' = db.recent
        /\ event' = [event EXCEPT ![e].applied = ~db.full, ![e].kept = db.kept]
    BY <1>2, <1>5, <2>1 DEF Apply
  <2>3. db.sig \in [Signals -> Signal] /\ db.inc \in [Incident -> Row]
        /\ db.recent \in Seq(Incident) /\ db.kept \in SUBSET Nat /\ db.full \in BOOLEAN
    BY DEF DB
  <2>4. Sound(Tables)'
    <3>1. Tables' = [sig |-> db.sig, inc |-> db.inc, recent |-> db.recent]  BY <2>2 DEF Tables
    <3> DEFINE T == [sig |-> db.sig, inc |-> db.inc, recent |-> db.recent]
    <3>2. T.sig = db.sig /\ T.inc = db.inc /\ T.recent = db.recent  OBVIOUS
    <3>3. PICK nx : nx = T  OBVIOUS
    <3>4. Known(nx) = Known(db) /\ Opened(nx) = Opened(db)  BY <3>2, <3>3 DEF Known, Opened
    <3>5. Sound(nx)
      BY <2>1, <3>2, <3>3, <3>4 DEF Sound, Numbered, Untouched, SignalsKnown, Truthful, Limited
    <3>6. Tables' = nx /\ plan' = plan  BY <1>1, <3>1, <3>3
    <3> QED
      BY <3>5, <3>6 DEF Sound, Numbered, Untouched, SignalsKnown, Truthful, Limited, Known, Opened, Status
  <2>5. /\ event' \in [Events -> Event]
        /\ \A f \in Events : f # e => event'[f] = event[f]
        /\ event'[e].state = "processing" /\ event'[e].kept = db.kept
        /\ event'[e].applied = ~db.full
    <3> DEFINE row == [event[e] EXCEPT !.applied = ~db.full, !.kept = db.kept]
    <3>1. event[e] \in Event /\ event \in [Events -> Event]  BY ProcessFacts, TypedFacts DEF Typed
    <3>2. /\ row \in Event /\ row.state = event[e].state /\ row.kept = db.kept
          /\ row.applied = ~db.full
      BY <2>3, <3>1 DEF Event
    <3>3. event' = [event EXCEPT ![e] = row]  BY <2>2, <3>1
    <3> HIDE DEF row
    <3> QED  BY <1>2, <3>1, <3>2, <3>3
  <2>6. DeliveryRight'
    <3>1. event'[e].applied => event'[e].kept = 1..Len(Alerts[e])  BY <2>1, <2>3, <2>5
    <3>2. event'[e].kept \subseteq 1..Len(Alerts[e])  BY <2>1, <2>5
    <3> QED  BY <1>3, <2>5, <3>1, <3>2, ProcessFacts DEF DeliveryRight
  <2>7. Typed'  BY <1>1, <1>3, <2>2, <2>3, <2>5, ProcessFacts DEF Typed
  <2>8. \A i \in Incident : /\ inc'[i].session = inc[i].session
                            /\ inc'[i].status = "closed" <=> inc[i].status = "closed"
                            /\ inc'[i].status = "none" => inc[i].status = "none"
                            /\ inc'[i].workflow = "closing" => inc[i].workflow = "closing"
    BY <2>1, <2>2 DEF Continues, Tables
  <2>9. WorkRight'  BY <1>1, <2>8, ProcessFacts DEF WorkRight
  <2>10. SessionRight'  BY <1>1, <2>8, ProcessFacts DEF SessionRight
  <2>11. CloserRight'  BY <1>1, <2>8, ProcessFacts DEF CloserRight
  <2>12. Paid'
    <3>1. Ending' = Ending  BY <1>1, <2>8 DEF Ending
    <3> QED  BY <1>1, <3>1, ProcessFacts DEF Paid
  <2> QED  BY <2>4, <2>6, <2>7, <2>9, <2>10, <2>11, <2>12 DEF IInv
<1> QED  BY <1>4, <1>5
-----------------------------------------------------------------------------
LEMMA Invariance == Spec => []IInv
<1>1. IInv /\ [Next]_vars => IInv'
  <2> SUFFICES ASSUME IInv, [Next]_vars PROVE IInv'  OBVIOUS
  <2>1. CASE Lease  BY <2>1, LeaseStep
  <2>2. CASE Apply  BY <2>2, ApplyStep
  <2>3. CASE Settle  BY <2>3, SettleStep
  <2>4. CASE WriteState  BY <2>4, WriteStateStep
  <2>5. CASE BeginClose  BY <2>5, BeginCloseStep
  <2>6. CASE EndClose  BY <2>6, EndCloseStep
  <2>7. CASE Age  BY <2>7, AgeStep
  <2>8. CASE Restart  BY <2>8, RestartStep
  <2>9. ASSUME NEW e \in Events, Deliver(e) \/ Elapse(e) PROVE IInv'
    BY <2>9, DeliverStep, ElapseStep
  <2>10. ASSUME NEW i \in Incident, Provision(i) PROVE IInv'
    BY <2>10, JobBegins, EndRoomStep, PostRootStep, CheckStep, CreateSessionStep, BindSessionStep
       DEF Provision
  <2>11. ASSUME NEW i \in Incident,
                EndSession(i) \/ ReadSession(i) \/ OrderClose(i) \/ Move(i) \/ ResolveDue(i)
         PROVE  IInv'
    BY <2>11, EndSessionStep, ReadSessionStep, OrderCloseStep, MoveStep, ResolveDueStep
  <2>12. CASE UNCHANGED vars
    <3>1. UNCHANGED <<plan, arrived, event, sig, inc, recent, coop, worker, job, poll, closer, spent>>
      BY <2>12 DEF vars
    <3>2. DeliveryRight'  BY <3>1, ProcessFacts DEF DeliveryRight
    <3> QED  BY <3>1, <3>2, DrainStep, ProcessFacts DEF Typed
  <2> QED
    BY <2>1, <2>2, <2>3, <2>4, <2>5, <2>6, <2>7, <2>8, <2>9, <2>10, <2>11, <2>12 DEF Next
<1> QED  BY InitIInv, <1>1, PTL DEF Spec

(* A delivery is done only when each of its alerts was recorded, for any    *)
(* deliveries, keys and limits, over repetitions and restarts.              *)
THEOREM NothingDropped == Spec => []AlertsKept
<1>1. IInv => AlertsKept  BY DEF IInv, DeliveryRight, AlertsKept
<1> QED  BY Invariance, <1>1, PTL

(* An open incident is active exactly while one of its signals fires, and   *)
(* never are more incidents open than the limit admits.                     *)
THEOREM StatusFollowsSignals == Spec => []IncidentsSound
<1>1. IInv => IncidentsSound
  <2> SUFFICES ASSUME IInv PROVE IncidentsSound  OBVIOUS
  <2>1. \A i \in Incident : Open(i) <=> i \in Opened(Tables)
    BY DEF Open, Opened, Known, Tables
  <2>2. {i \in Incident : Open(i)} = Opened(Tables)
    BY <2>1 DEF Opened, Known
  <2>3. StatusTruthful  BY <2>1, ProcessFacts DEF Sound, Truthful, StatusTruthful, Tables
  <2>4. OpenLimited  BY <2>2, ProcessFacts DEF Sound, Limited, OpenLimited
  <2> QED  BY <2>3, <2>4 DEF IncidentsSound
<1> QED  BY Invariance, <1>1, PTL
===============================================================================
