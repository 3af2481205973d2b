----------------------- MODULE PreparationNoticesProofs -----------------------
(***************************************************************************)
(* Proofs about PreparationNotices for any runs, blockers, limits and      *)
(* number of restarts: its type invariant, that a retirement leaves no     *)
(* notice behind, that a recurring blocker waits for it, and that a post   *)
(* which was retired while its outcome was unknown is not sent again.      *)
(***************************************************************************)
EXTENDS PreparationNotices, WellFoundedInduction, SequenceTheorems, FiniteSetTheorems, TLAPS

(* A retirement that is still to be carried out; a row that is over.        *)
Owed == {"pending", "retry", "sending"}
Over == {"sent", "failed", "superseded"}

(* The sender has the only row that is being sent, and knows the message of *)
(* a delete before it calls; the finder has a row whose outcome is unknown, *)
(* and a post that it did not find is not there.                            *)
SenderHolds ==
    /\ sender.phase = "idle" <=> sender.row = 0
    /\ \A i \in Rows : In(i, {"sending"}) <=> sender.row = i
    /\ sender.phase = "leased" => sender.row \in Deletes
    /\ sender.phase \in {"calling", "ok", "error"} /\ sender.row \in Deletes =>
         ledger[sender.row].target # 0
FinderHolds ==
    /\ finder.phase = "idle" <=> finder.row = 0
    /\ finder.row # 0 => In(finder.row, {"uncertain"})
    /\ finder.phase = "absent" => finder.row \notin DOMAIN shown

(* What Notify enqueues is a new notice.                                    *)
NewNotice == {row \in Row : row.state = "pending" /\ row.op # "delete"}
PlannedRight == planned \in NewNotice \cup {None}

(* No retirement covers a post that waits to be sent.                       *)
QueueRight ==
    \A i \in Notices : ledger[i].op = "post" /\ Queued(i) => ~NewerRetirement(i)

(* Retirements are carried out in their order, and no row passes one.       *)
OrderRight ==
    \A i \in Rows, d \in Deletes :
        d < i /\ (In(i, {"sending"}) \/ (IsDelete(i) /\ In(i, {"sent"}))) => ~In(d, Owed)

(* The notices before a retirement that is being carried out are over.      *)
ClosedRight ==
    \A i \in Deletes, j \in Notices : j < i /\ In(i, {"sending"}) => In(j, Over)

(* What is to be seen was posted by a row that is on its way, is unknown or *)
(* known as sent, or is history since a later retirement was carried out.   *)
Visible(m) ==
    \/ In(m, {"sending", "uncertain"})
    \/ Sent(m)
    \/ In(m, {"superseded"}) /\ \E k \in Deletes : k > m /\ In(k, {"sent"})
ShownRight == \A m \in DOMAIN shown : ledger[m].op = "post" /\ Visible(m)

IInv ==
    /\ TypeOK /\ SenderHolds /\ FinderHolds /\ PlannedRight
    /\ QueueRight /\ OrderRight /\ ClosedRight /\ ShownRight
-----------------------------------------------------------------------------
(* Every nonempty set of numbers has a least, and a bounded one a greatest. *)
LEMMA Least ==
    ASSUME NEW T \in SUBSET Nat, T # {}
    PROVE  \E x \in T : \A y \in T : x <= y
<1> DEFINE R == {ss \in Nat \X Nat : ss[1] < ss[2]}
<1>1. IsWellFoundedOn(R, Nat)  BY NatLessThanWellFounded DEF OpToRel
<1>2. \A x, y \in Nat : y < x => <<y, x>> \in R  OBVIOUS
<1> HIDE DEF R
<1>3. PICK x \in T : \A y \in T : ~(<<y, x>> \in R)  BY <1>1, WFMin
<1>4. \A y \in T : ~(y < x)  BY <1>2, <1>3
<1>5. \A y \in T : x <= y  BY <1>4
<1> QED  BY <1>5

LEMMA LatestFacts ==
    ASSUME NEW n \in Nat, NEW S \in SUBSET (1..n)
    PROVE  /\ Latest(S) \in S \cup {0}
           /\ Latest(S) = 0 => S = {}
           /\ \A y \in S : y <= Latest(S)
<1> DEFINE U == S \cup {0}
           T == {n - y : y \in U}
<1>1. T \in SUBSET Nat /\ T # {}
  <2>1. \A y \in U : n - y \in Nat  OBVIOUS
  <2> QED  BY <2>1
<1>2. PICK x \in T : \A y \in T : x <= y  BY <1>1, Least
<1>3. PICK m \in U : x = n - m  BY <1>2
<1>4. \A y \in U : m >= y  BY <1>2, <1>3
<1>5. Max(U) \in U /\ \A y \in U : Max(U) >= y  BY <1>3, <1>4 DEF Max
<1>6. Latest(S) \in U /\ \A y \in U : y <= Latest(S)  BY <1>5 DEF Latest
<1> QED  BY <1>6

LEMMA LedgerFacts ==
    ASSUME TypeOK
    PROVE  /\ Len(ledger) \in Nat /\ Rows = 1..Len(ledger) /\ Rows \subseteq 1..MaxRows
           /\ ledger \in [Rows -> Row] /\ MaxRows \in Nat /\ MaxAttempts \in Nat
           /\ \A i \in Rows : /\ ledger[i] \in Row
                              /\ ledger[i].state \in State
                              /\ IsDelete(i) => ~In(i, {"uncertain"})
           /\ Notices \subseteq Rows /\ Deletes \subseteq Rows
           /\ \A i \in Rows : i \in Notices <=> ~IsDelete(i)
           /\ \A i \in Rows : i \in Deletes <=> IsDelete(i)
<1>1. ledger \in Seq(Row) /\ Len(ledger) <= MaxRows /\ MaxRows \in Nat /\ MaxAttempts \in Nat
  BY ConfigAssumption DEF TypeOK
<1>2. Len(ledger) \in Nat /\ Rows = 1..Len(ledger) /\ ledger \in [Rows -> Row]
  BY <1>1, LenProperties DEF Rows
<1>3. Rows \subseteq 1..MaxRows  BY <1>1, <1>2
<1>4. \A i \in Rows : ledger[i] \in Row /\ ledger[i].state \in State
  BY <1>2 DEF Row
<1>5. \A i \in Rows : IsDelete(i) => ~In(i, {"uncertain"})  BY DEF TypeOK, IsDelete
<1> QED  BY <1>1, <1>2, <1>3, <1>4, <1>5 DEF Notices, Deletes

LEMMA RowWrites ==
    ASSUME NEW row \in Row, NEW s \in State
    PROVE  /\ [row EXCEPT !.state = s] \in Row /\ [row EXCEPT !.state = s].state = s
           /\ [row EXCEPT !.state = s].op = row.op
           /\ [row EXCEPT !.state = s].target = row.target
BY DEF Row

(* A ledger as long as this one, and one with a row more.                   *)
LEMMA Rewritten ==
    ASSUME TypeOK, NEW f \in [Rows -> Row]
    PROVE  f \in Seq(Row) /\ Len(f) = Len(ledger) /\ DOMAIN f = Rows
<1>1. Len(ledger) \in Nat /\ f \in [1..Len(ledger) -> Row]  BY LedgerFacts
<1> QED  BY <1>1, LedgerFacts

LEMMA Lengthened ==
    ASSUME NEW f \in Seq(Row), NEW e \in Row
    PROVE  /\ Append(f, e) \in Seq(Row) /\ Len(Append(f, e)) = Len(f) + 1
           /\ DOMAIN Append(f, e) = DOMAIN f \cup {Len(f) + 1}
           /\ \A i \in DOMAIN f : Append(f, e)[i] = f[i]
           /\ Append(f, e)[Len(f) + 1] = e
<1>1. Len(f) \in Nat /\ DOMAIN f = 1..Len(f)  BY LenProperties
<1>2. /\ Append(f, e) \in Seq(Row) /\ Len(Append(f, e)) = Len(f) + 1
      /\ \A i \in 1..Len(f) : Append(f, e)[i] = f[i]
      /\ Append(f, e)[Len(f) + 1] = e
  OBVIOUS
<1>3. DOMAIN Append(f, e) = 1..(Len(f) + 1)  BY <1>2, LenProperties
<1> QED  BY <1>1, <1>2, <1>3
-----------------------------------------------------------------------------
(* What every step does to the rows: none changes what it is, one that is   *)
(* over stays so, and at most one is added.                                 *)
Evolves ==
    /\ ledger' \in Seq(Row) /\ Len(ledger') <= MaxRows
    /\ Rows \subseteq Rows'
    /\ \A n \in Rows' \ Rows :
          In(n, {"pending"})' /\ (\A i \in Rows : n > i) /\ (\A k \in Rows' \ Rows : k = n)
    /\ \A i \in Rows : /\ ledger'[i].op = ledger[i].op
                       /\ ledger[i].op # "post" => ~In(i, {"uncertain"})'
                       /\ In(i, {"failed", "superseded"}) => In(i, {"failed", "superseded"})'
                       /\ In(i, {"superseded"}) => In(i, {"superseded"})'
                       /\ In(i, {"sent"}) => In(i, {"sent", "superseded"})'
                       /\ IsDelete(i) /\ In(i, {"sent"}) => In(i, {"sent"})'

LEMMA EvolvedFacts ==
    ASSUME IInv, Evolves
    PROVE  /\ \A i \in Rows : IsDelete(i)' = IsDelete(i)
           /\ Notices \subseteq Notices' /\ Deletes \subseteq Deletes'
           /\ \A i \in Rows : (i \in Notices' <=> i \in Notices) /\ (i \in Deletes' <=> i \in Deletes)
           /\ \A d \in Deletes : In(d, Owed)' => In(d, Owed)
           /\ \A d \in Deletes : In(d, Owed \cup {"sent"})' => In(d, Owed \cup {"sent"})
           /\ \A i \in Rows : In(i, Over) => In(i, Over)'
<1>1. \A i \in Rows : IsDelete(i)' = IsDelete(i)  BY DEF Evolves, IsDelete
<1>2. \A i \in Rows : ledger[i].state \in State /\ (IsDelete(i) => ~In(i, {"uncertain"}))
  BY LedgerFacts DEF IInv
<1>3. \A d \in Deletes : In(d, Owed)' => In(d, Owed)
  BY <1>2 DEF Evolves, Owed, In, State, Deletes
<1>4. \A d \in Deletes : In(d, Owed \cup {"sent"})' => In(d, Owed \cup {"sent"})
  BY <1>2 DEF Evolves, Owed, In, State, Deletes
<1>5. \A i \in Rows : In(i, Over) => In(i, Over)'  BY DEF Evolves, Over, In
<1>6. Rows \subseteq Rows'  BY DEF Evolves
<1>7. Notices \subseteq Notices' /\ Deletes \subseteq Deletes'  BY <1>1, <1>6 DEF Notices, Deletes
<1>8. \A i \in Rows : (i \in Notices' <=> i \in Notices) /\ (i \in Deletes' <=> i \in Deletes)
  BY <1>1, <1>6 DEF Notices, Deletes
<1> QED  BY <1>1, <1>3, <1>4, <1>5, <1>7, <1>8

(* A row is only sent, or a retirement carried out, when its turn has come. *)
InTurn(i) ==
    /\ \A d \in Deletes : d < i => ~In(d, Owed)'
    /\ IsDelete(i) => \A j \in Notices : j < i => In(j, Over)'

LEMMA OrderKept ==
    ASSUME IInv, Evolves,
           \A i \in Rows : In(i, {"sending"})' => In(i, {"sending"}) \/ InTurn(i),
           \A i \in Deletes : In(i, {"sent"})' => In(i, {"sent", "sending"})
    PROVE  OrderRight' /\ ClosedRight'
<1>1. \A n \in Rows' \ Rows : ~In(n, {"sending", "sent"})' /\ \A i \in Rows : n > i
  BY DEF Evolves, In
<1>2. Rows \subseteq Nat  BY LedgerFacts DEF IInv
<1>3. OrderRight'
  <2> SUFFICES ASSUME NEW i \in Rows', NEW d \in Deletes', d < i,
                      In(i, {"sending"})' \/ (IsDelete(i) /\ In(i, {"sent"}))'
               PROVE  ~In(d, Owed)'
    BY DEF OrderRight
  <2>1. i \in Rows  BY <1>1 DEF In
  <2>2. d \in Rows' /\ d \in Rows
    <3>1. d \in Rows'  BY DEF Deletes
    <3>2. d \notin Rows => d > i  BY <1>1, <2>1, <3>1
    <3>3. d \notin Rows => i \in Nat /\ d \in Nat
      BY <1>2, <2>1, <3>1, LenProperties DEF Evolves, Rows
    <3> QED  BY <3>1, <3>2, <3>3
  <2>3. d \in Deletes /\ (In(d, Owed)' => In(d, Owed))  BY <2>2, EvolvedFacts
  <2>4. CASE In(i, {"sending"})'
    BY <2>1, <2>3, <2>4 DEF IInv, OrderRight, InTurn
  <2>5. CASE (IsDelete(i) /\ In(i, {"sent"}))'
    <3>1. IsDelete(i) /\ i \in Deletes  BY <2>1, <2>5, EvolvedFacts DEF Deletes
    <3>2. In(i, {"sent"}) \/ In(i, {"sending"})  BY <2>5, <3>1 DEF In
    <3> QED  BY <2>1, <2>3, <3>1, <3>2 DEF IInv, OrderRight
  <2> QED  BY <2>4, <2>5
<1>4. ClosedRight'
  <2> SUFFICES ASSUME NEW i \in Deletes', NEW j \in Notices', j < i, In(i, {"sending"})'
               PROVE  In(j, Over)'
    BY DEF ClosedRight
  <2>1. i \in Rows  BY <1>1 DEF In, Deletes
  <2>2. j \in Rows
    <3>1. j \in Rows'  BY DEF Notices
    <3>2. j \notin Rows => j > i  BY <1>1, <2>1, <3>1
    <3>3. j \notin Rows => i \in Nat /\ j \in Nat
      BY <1>2, <2>1, <3>1, LenProperties DEF Evolves, Rows
    <3> QED  BY <3>1, <3>2, <3>3
  <2>3. i \in Deletes /\ j \in Notices /\ IsDelete(i)  BY <2>1, <2>2, EvolvedFacts DEF Deletes
  <2> QED  BY <2>1, <2>2, <2>3, EvolvedFacts DEF IInv, ClosedRight, InTurn
<1> QED  BY <1>3, <1>4

LEMMA QueueKept ==
    ASSUME IInv, Evolves,
           \A i \in Notices : ledger[i].op = "post" /\ Queued(i)' => Queued(i) \/ ~NewerRetirement(i),
           \A n \in Rows' \ Rows : IsDelete(n)' => \A i \in Notices : ~Queued(i)'
    PROVE  QueueRight'
<1> SUFFICES ASSUME NEW i \in Notices', (ledger[i].op = "post" /\ Queued(i))',
                    NEW j \in Deletes', j > i, In(j, {"pending", "retry", "sending", "sent"})'
             PROVE  FALSE
  BY DEF QueueRight, NewerRetirement
<1>1. i \in Rows' /\ j \in Rows' /\ IsDelete(j)'  BY DEF Notices, Deletes
<1>2. Rows' \subseteq Nat  BY LenProperties DEF Evolves, Rows
<1>3. CASE i \notin Rows
  <2>1. j \notin Rows  BY <1>1, <1>2, <1>3 DEF Evolves
  <2> QED  BY <1>1, <1>2, <1>3, <2>1 DEF Evolves
<1>4. CASE i \in Rows /\ j \notin Rows
  BY <1>1, <1>4, EvolvedFacts
<1>5. CASE i \in Rows /\ j \in Rows
  <2>1. i \in Notices /\ j \in Deletes /\ ledger[i].op = "post"
    BY <1>5, EvolvedFacts DEF Evolves
  <2>2. In(j, {"pending", "retry", "sending", "sent"})
    BY <2>1, EvolvedFacts DEF In, Owed
  <2>3. NewerRetirement(i)  BY <2>1, <2>2 DEF NewerRetirement
  <2> QED  BY <2>1, <2>3 DEF IInv, QueueRight
<1> QED  BY <1>3, <1>4, <1>5

LEMMA ShownKept ==
    ASSUME IInv, Evolves, DOMAIN shown' \subseteq DOMAIN shown,
           \A m \in DOMAIN shown : ~In(m, {"superseded"}) /\ Visible(m) => Visible(m)'
    PROVE  ShownRight'
<1> SUFFICES ASSUME NEW m \in DOMAIN shown' PROVE (ledger[m].op = "post" /\ Visible(m))'
  BY DEF ShownRight
<1>1. m \in DOMAIN shown /\ m \in Rows /\ ledger[m].op = "post" /\ Visible(m)
  BY DEF IInv, ShownRight, TypeOK, Notices
<1>2. ledger'[m].op = "post"  BY <1>1 DEF Evolves
<1>3. CASE In(m, {"superseded"})
  <2>1. PICK k \in Deletes : k > m /\ In(k, {"sent"})
    BY <1>1, <1>3 DEF Visible, In, Sent
  <2>2. k \in Deletes' /\ In(k, {"sent"})'
    BY <2>1, EvolvedFacts DEF Evolves, Deletes
  <2>3. In(m, {"superseded"})'  BY <1>1, <1>3 DEF Evolves
  <2> QED  BY <1>2, <2>1, <2>2, <2>3 DEF Visible
<1>4. CASE ~In(m, {"superseded"})  BY <1>1, <1>2, <1>4
<1> QED  BY <1>3, <1>4
-----------------------------------------------------------------------------
(* What the properties say of a step.                                       *)
LeavesNothing ==
    \A i \in Deletes :
        ~In(i, {"sent"}) /\ ledger'[i].state = "sent" /\ ledger'[i].target = 0 =>
           \A m \in DOMAIN shown :
              m > i \/ \E k \in Deletes : k > m /\ k < i /\ In(k, {"sent"})
Waits == \A m \in DOMAIN shown' \ DOMAIN shown : \A i \in Retiring : i > m
NotReposted ==
    \A i \in Notices :
        ledger[i].op = "post" /\ ledger'[i].state = "sending" =>
           In(i, {"sending"}) \/ ~NewerRetirement(i)

Good == IInv' /\ LeavesNothing /\ Waits /\ NotReposted

(* A step that leaves the ledger alone.                                     *)
LEMMA StillStep ==
    ASSUME IInv, ledger' = ledger
    PROVE  /\ Evolves /\ QueueRight' /\ OrderRight' /\ ClosedRight'
           /\ LeavesNothing /\ NotReposted /\ Rows' = Rows /\ Notices' = Notices
<1>1. /\ ledger \in Seq(Row) /\ Len(ledger) <= MaxRows
      /\ \A i \in Rows : ledger[i].op # "post" => ~In(i, {"uncertain"})
  BY LedgerFacts DEF IInv, TypeOK
<1>2. Evolves  BY <1>1 DEF Evolves, Rows, In, IsDelete
<1>3. Rows' = Rows /\ Notices' = Notices /\ Deletes' = Deletes
  BY DEF Rows, Notices, Deletes, IsDelete
<1>4. QueueRight'
  BY <1>3 DEF IInv, QueueRight, Queued, NewerRetirement, In
<1>5. OrderRight' /\ ClosedRight'
  BY <1>3 DEF IInv, OrderRight, ClosedRight, In, IsDelete
<1>6. LeavesNothing /\ NotReposted  BY DEF LeavesNothing, NotReposted, In
<1> QED  BY <1>2, <1>3, <1>4, <1>5, <1>6

LEMMA DeletesCounted ==
    ASSUME TypeOK, Len(ledger) < MaxRows
    PROVE  Cardinality(Deletes) + 1 \in 1..MaxRows
<1>1. IsFiniteSet(1..Len(ledger)) /\ Cardinality(1..Len(ledger)) = Len(ledger)
  <2>1. \A n \in Nat : IsFiniteSet(1..n)  BY FS_Interval
  <2>2. \A n \in Nat : Cardinality(1..n) = IF 1 > n THEN 0 ELSE n - 1 + 1  BY FS_Interval
  <2>3. \A n \in Nat : (IF 1 > n THEN 0 ELSE n - 1 + 1) = n  OBVIOUS
  <2>4. Len(ledger) \in Nat  BY LedgerFacts
  <2> QED  BY <2>1, <2>2, <2>3, <2>4
<1>2. Deletes \in SUBSET (1..Len(ledger))  BY LedgerFacts
<1>3. Cardinality(Deletes) \in Nat /\ Cardinality(Deletes) <= Len(ledger)
  BY <1>1, <1>2, FS_Subset, FS_CardinalityType
<1> QED  BY <1>3, LedgerFacts

LEMMA DeliveryTypes ==
    ASSUME IInv, NEW r \in Runs, NEW b \in Blockers, Len(ledger) < MaxRows
    PROVE  Delivery(r, b) \in Row /\ Delivery(r, b).state = "pending"
           /\ Delivery(r, b).op \in {"post", "update"}
<1>1. TypeOK  BY DEF IInv
<1> DEFINE S == {i \in Notices : i > EpochStart /\ Sent(i)}
           target == IF Latest(S) # 0 THEN ledger[Latest(S)].target ELSE 0
<1>2. Latest(S) \in S \cup {0}
  <2>1. S \in SUBSET (1..Len(ledger)) /\ Len(ledger) \in Nat  BY <1>1, LedgerFacts
  <2> HIDE DEF S
  <2> QED  BY <2>1, LatestFacts
<1>3. target \in 0..MaxRows
  <2>1. CASE Latest(S) \in Rows  BY <1>1, <2>1, LedgerFacts DEF Row
  <2>2. CASE Latest(S) = 0  BY <1>1, <2>2, LedgerFacts
  <2> QED  BY <1>1, <1>2, <2>1, <2>2, LedgerFacts
<1>4. Cardinality(Deletes) + 1 \in 1..MaxRows  BY <1>1, DeletesCounted
<1>5. 0 \in 0..MaxAttempts /\ b \in Blockers \cup {None}  BY <1>1, LedgerFacts
<1>6. Delivery(r, b) = [op |-> IF Latest(S) # 0 THEN "update" ELSE "post", run |-> r,
                        blocker |-> b, epoch |-> Cardinality(Deletes) + 1,
                        state |-> "pending", failures |-> 0, target |-> target]
  BY DEF Delivery
<1> HIDE DEF S, target
<1> QED  BY <1>3, <1>4, <1>5, <1>6 DEF Row, State

LEMMA PlanStep ==
    ASSUME IInv, NEW r \in Runs, NEW b \in Blockers, Plan(r, b)
    PROVE  Good
<1>1. /\ Len(ledger) < MaxRows /\ planned' = Delivery(r, b) /\ ledger' = ledger
      /\ UNCHANGED <<sender, finder, shown, overtaken, crashes>>
  BY DEF Plan
<1>2. planned' \in Row  BY <1>1, DeliveryTypes
<1>3. TypeOK'  BY <1>1, <1>2 DEF IInv, TypeOK, Rows, Notices, In, IsDelete
<1>4. SenderHolds' /\ FinderHolds'
  BY <1>1, StillStep DEF IInv, SenderHolds, FinderHolds, In, Deletes, IsDelete
<1>5. ShownRight'  BY <1>1, StillStep, ShownKept DEF Visible, In, Sent, Deletes, IsDelete
<1>6. Waits  BY <1>1 DEF Waits
<1>7. PlannedRight'  BY <1>1, DeliveryTypes DEF PlannedRight, NewNotice
<1> QED  BY <1>1, <1>3, <1>4, <1>5, <1>6, <1>7, StillStep DEF Good, IInv

LEMMA OvertakeStep ==
    ASSUME IInv, NEW r \in Runs, Overtake(r)
    PROVE  Good
<1>1. /\ overtaken' = overtaken \cup {r} /\ ledger' = ledger
      /\ UNCHANGED <<planned, sender, finder, shown, crashes>>
  BY DEF Overtake
<1>3. TypeOK'  BY <1>1 DEF IInv, TypeOK, Rows, Notices, In, IsDelete
<1>4. SenderHolds' /\ FinderHolds'
  BY <1>1, StillStep DEF IInv, SenderHolds, FinderHolds, In, Deletes, IsDelete
<1>5. ShownRight'  BY <1>1, StillStep, ShownKept DEF Visible, In, Sent, Deletes, IsDelete
<1>6. Waits  BY <1>1 DEF Waits
<1> QED  BY <1>1, <1>3, <1>4, <1>5, <1>6, StillStep DEF Good, IInv, PlannedRight

LEMMA SearchStep ==
    ASSUME IInv, NEW outcome \in {"found", "absent", "unknown"}, Search(outcome)
    PROVE  Good
<1>1. PICK i \in Rows : /\ In(i, {"uncertain"})
                        /\ outcome = "absent" => i \notin DOMAIN shown
                        /\ finder' = [phase |-> outcome, row |-> i]
  BY DEF Search
<1>2. ledger' = ledger /\ UNCHANGED <<planned, sender, shown, overtaken, crashes>>  BY DEF Search
<1>3. TypeOK'  BY <1>1, <1>2 DEF IInv, TypeOK, Rows, Notices, In, IsDelete
<1>4. i # 0  BY LedgerFacts DEF IInv
<1>5. SenderHolds' /\ FinderHolds'
  BY <1>1, <1>2, <1>4, StillStep DEF IInv, SenderHolds, FinderHolds, In, Deletes, IsDelete
<1>6. ShownRight'  BY <1>2, StillStep, ShownKept DEF Visible, In, Sent, Deletes, IsDelete
<1>7. Waits  BY <1>2 DEF Waits
<1> QED  BY <1>2, <1>3, <1>5, <1>6, <1>7, StillStep DEF Good, IInv, PlannedRight

(* The call: what it changes in Slack is the message of the sender's row.   *)
LEMMA CallStep ==
    ASSUME IInv, NEW accepted \in BOOLEAN, NEW answer \in {"ok", "error"}, Call(accepted, answer)
    PROVE  Good
<1> DEFINE i == sender.row
           m == IF ledger[i].op = "post" THEN i ELSE ledger[i].target
<1>1. /\ sender.phase = "calling"
      /\ accepted /\ ledger[i].op = "update" => m \in DOMAIN shown
      /\ shown' = IF ~accepted THEN shown
                  ELSE IF IsDelete(i) THEN [n \in DOMAIN shown \ {m} |-> shown[n]]
                  ELSE [n \in DOMAIN shown \cup {m} |-> IF n = m THEN i ELSE shown[n]]
      /\ sender' = [phase |-> answer, row |-> i]
      /\ ledger' = ledger /\ UNCHANGED <<planned, finder, overtaken, crashes>>
  BY DEF Call
<1>2. i \in Rows /\ i # 0 /\ In(i, {"sending"})  BY <1>1 DEF IInv, TypeOK, SenderHolds
<1>3. ledger[i].op \in {"post", "update", "delete"}  BY <1>2, LedgerFacts DEF IInv, Row
<1>4. \/ /\ DOMAIN shown' \subseteq DOMAIN shown
         /\ \A n \in DOMAIN shown' : shown'[n] = shown[n] \/ (shown'[n] = i /\ ~IsDelete(i))
      \/ /\ ledger[i].op = "post" /\ DOMAIN shown' = DOMAIN shown \cup {i}
         /\ \A n \in DOMAIN shown' : shown'[n] = IF n = i THEN i ELSE shown[n]
  <2>1. CASE ~accepted  BY <1>1, <2>1
  <2>2. CASE accepted /\ IsDelete(i)  BY <1>1, <2>2
  <2>3. CASE accepted /\ ledger[i].op = "post"  BY <1>1, <2>3 DEF IsDelete
  <2>4. CASE accepted /\ ledger[i].op = "update"
    <3>1. m \in DOMAIN shown  BY <1>1, <2>4
    <3>2. shown' = [n \in DOMAIN shown \cup {m} |-> IF n = m THEN i ELSE shown[n]]
      BY <1>1, <2>4 DEF IsDelete
    <3>3. ~IsDelete(i)  BY <2>4 DEF IsDelete
    <3> HIDE DEF i, m
    <3> QED  BY <3>1, <3>2, <3>3
  <2> QED  BY <1>3, <2>1, <2>2, <2>3, <2>4 DEF IsDelete
<1> HIDE DEF m
<1>5. \A n \in DOMAIN shown' : n \in DOMAIN shown \/ (n = i /\ ledger[i].op = "post")
  BY <1>4
<1>6. \A n \in DOMAIN shown' : {n, shown'[n]} \subseteq Notices
  <2>1. \A n \in DOMAIN shown : n \in Notices /\ shown[n] \in Notices  BY DEF IInv, TypeOK
  <2>2. ~IsDelete(i) => i \in Notices  BY <1>2 DEF Notices
  <2>3. ledger[i].op = "post" => ~IsDelete(i)  BY DEF IsDelete
  <2> HIDE DEF i
  <2>4. CASE /\ DOMAIN shown' \subseteq DOMAIN shown
             /\ \A n \in DOMAIN shown' : shown'[n] = shown[n] \/ (shown'[n] = i /\ ~IsDelete(i))
    BY <2>1, <2>2, <2>4
  <2>5. CASE /\ ledger[i].op = "post" /\ DOMAIN shown' = DOMAIN shown \cup {i}
             /\ \A n \in DOMAIN shown' : shown'[n] = IF n = i THEN i ELSE shown[n]
    <3>1. i \in Notices  BY <2>2, <2>3, <2>5
    <3> QED  BY <2>1, <2>5, <3>1
  <2> QED  BY <1>4, <2>4, <2>5
<1>7. TypeOK'
  <2>1. Rows' = Rows /\ Notices' = Notices  BY <1>1, StillStep
  <2>2. sender' \in [phase : {"idle", "leased", "calling", "ok", "error"}, row : Rows \cup {0}]
    BY <1>1, <1>2
  <2>3. \A n \in Rows' : In(n, {"uncertain"})' => ledger'[n].op = "post"
    BY <1>1, <2>1 DEF IInv, TypeOK, In
  <2> QED  BY <1>1, <1>6, <2>1, <2>2, <2>3 DEF IInv, TypeOK
<1>8. SenderHolds'
  BY <1>1, <1>2, StillStep DEF IInv, SenderHolds, In, Deletes, IsDelete
<1>9. FinderHolds'
  <2>1. finder.phase = "absent" => finder.row \notin DOMAIN shown'
    <3>1. finder.phase = "absent" => finder.row # i /\ finder.row \notin DOMAIN shown
      BY <1>2 DEF IInv, FinderHolds, In
    <3> QED  BY <1>5, <3>1
  <2> QED  BY <1>1, <2>1 DEF IInv, FinderHolds, In
<1>10. ShownRight'
  <2> SUFFICES ASSUME NEW n \in DOMAIN shown' PROVE (ledger[n].op = "post" /\ Visible(n))'
    BY DEF ShownRight
  <2>1. ledger[n].op = "post" /\ Visible(n)
    BY <1>2, <1>5 DEF IInv, ShownRight, Visible, In
  <2> QED  BY <1>1, <2>1 DEF Visible, In, Sent, Deletes, IsDelete, Rows
<1>11. Waits
  <2> SUFFICES ASSUME NEW n \in DOMAIN shown' \ DOMAIN shown, NEW d \in Retiring PROVE d > n
    BY DEF Waits
  <2>1. n = i /\ ledger[i].op = "post"  BY <1>5
  <2>2. d \in Deletes /\ In(d, Owed) /\ d \in Rows  BY DEF Retiring, Owed, In, Deletes
  <2>3. ~(d < i)  BY <1>2, <2>2 DEF IInv, OrderRight
  <2>4. d # i  BY <2>1, <2>2 DEF Deletes, IsDelete
  <2> QED  BY <1>2, <2>1, <2>2, <2>3, <2>4, LedgerFacts DEF IInv
<1> QED  BY <1>1, <1>7, <1>8, <1>9, <1>10, <1>11, StillStep DEF Good, IInv, PlannedRight
-----------------------------------------------------------------------------
(* A step that writes rows and leaves Slack alone.                          *)
LEMMA MovedStep ==
    ASSUME IInv, Evolves, shown' = shown,
           \A i \in Rows : In(i, {"sending"})' => In(i, {"sending"}) \/ (Queued(i) /\ InTurn(i)),
           \A i \in Deletes : In(i, {"sent"})' => In(i, {"sent", "sending"}),
           \A i \in Notices : ledger[i].op = "post" /\ Queued(i)' => Queued(i) \/ ~NewerRetirement(i),
           \A n \in Rows' \ Rows : /\ ledger'[n].state = "pending"
                                   /\ IsDelete(n)' => \A i \in Notices : ~Queued(i)',
           \A m \in DOMAIN shown : ~In(m, {"superseded"}) /\ Visible(m) => Visible(m)',
           planned' \in NewNotice \cup {None}, overtaken' \subseteq Runs, crashes' \in 0..MaxCrashes,
           sender' \in [phase : {"idle", "leased", "calling", "ok", "error"}, row : Rows \cup {0}],
           finder' \in [phase : {"idle", "found", "absent", "unknown"}, row : Rows \cup {0}]
    PROVE  /\ TypeOK' /\ PlannedRight' /\ QueueRight' /\ OrderRight' /\ ClosedRight' /\ ShownRight'
           /\ Waits /\ NotReposted
<1>1. OrderRight' /\ ClosedRight'  BY OrderKept
<1>2. QueueRight'  BY QueueKept
<1>3. ShownRight'  BY ShownKept
<1>4. Waits  BY DEF Waits
<1>5. NotReposted
  <2> SUFFICES ASSUME NEW i \in Notices, ledger[i].op = "post", ledger'[i].state = "sending"
               PROVE  In(i, {"sending"}) \/ ~NewerRetirement(i)
    BY DEF NotReposted
  <2>1. i \in Rows /\ In(i, {"sending"})'  BY DEF Notices, In
  <2> QED  BY <2>1 DEF IInv, QueueRight
<1>6. TypeOK'
  <2>1. \A i \in Rows' : In(i, {"uncertain"})' => ledger'[i].op = "post"
    BY DEF Evolves, In
  <2>2. \A m \in DOMAIN shown' : {m, shown'[m]} \subseteq Notices'
    BY EvolvedFacts DEF IInv, TypeOK
  <2>3. Rows \subseteq Rows'  BY DEF Evolves
  <2>4. sender' \in [phase : {"idle", "leased", "calling", "ok", "error"}, row : Rows' \cup {0}]
    BY <2>3
  <2>5. finder' \in [phase : {"idle", "found", "absent", "unknown"}, row : Rows' \cup {0}]
    BY <2>3
  <2>6. ledger' \in Seq(Row) /\ Len(ledger') <= MaxRows  BY DEF Evolves
  <2>7. planned' \in Row \cup {None}  BY DEF NewNotice
  <2> QED  BY <2>1, <2>2, <2>4, <2>5, <2>6, <2>7 DEF TypeOK
<1> QED  BY <1>1, <1>2, <1>3, <1>4, <1>5, <1>6 DEF PlannedRight

LEMMA InPlace ==
    ASSUME IInv, ledger' \in [Rows -> Row],
           \A i \in Rows : /\ ledger'[i].op = ledger[i].op
                           /\ ledger[i].op # "post" => ~In(i, {"uncertain"})'
                           /\ In(i, {"failed", "superseded"}) => In(i, {"failed", "superseded"})'
                           /\ In(i, {"superseded"}) => In(i, {"superseded"})'
                           /\ In(i, {"sent"}) => In(i, {"sent", "superseded"})'
                           /\ IsDelete(i) /\ In(i, {"sent"}) => In(i, {"sent"})'
    PROVE  Evolves /\ Rows' = Rows
<1>1. ledger' \in Seq(Row) /\ Len(ledger') = Len(ledger) /\ DOMAIN ledger' = Rows
  BY Rewritten DEF IInv
<1>2. Rows' = Rows  BY <1>1 DEF Rows
<1>3. Len(ledger') <= MaxRows  BY <1>1 DEF IInv, TypeOK
<1> QED  BY <1>1, <1>2, <1>3 DEF Evolves

(* A row is added, and some that wait are superseded.                       *)
LEMMA AddedStep ==
    ASSUME IInv, NEW D \in SUBSET Rows, NEW new \in Nat \ {0}, Evolves,
           Rows' = Rows \cup {new}, new \notin Rows, ledger'[new].state = "pending",
           \A i \in Rows : /\ ledger'[i].op = ledger[i].op /\ ledger'[i].target = ledger[i].target
                           /\ ledger'[i].state = IF i \in D THEN "superseded" ELSE ledger[i].state,
           \A i \in D : Queued(i),
           ledger'[new].op = "delete" => \A i \in Notices : Queued(i) => i \in D,
           planned' \in NewNotice \cup {None},
           sender' = sender, finder' = finder, shown' = shown, overtaken' = overtaken,
           crashes' = crashes
    PROVE  Good
<1>1. TypeOK  BY DEF IInv
<1>2. \A i \in D : ~In(i, {"sending", "sent", "uncertain", "failed", "superseded"})
  BY DEF Queued, In
<1>3. \A i \in Rows : In(i, {"sending"})' <=> In(i, {"sending"})  BY <1>2 DEF In
<1>4. \A i \in Rows : In(i, {"sent"})' <=> In(i, {"sent"})  BY <1>2 DEF In
<1>5. \A i \in Rows : Queued(i)' <=> Queued(i) /\ i \notin D  BY DEF Queued, In
<1>6. \A n \in Rows' \ Rows : /\ ledger'[n].state = "pending"
                              /\ IsDelete(n)' => \A i \in Notices : ~Queued(i)'
  BY <1>1, <1>5, LedgerFacts DEF IsDelete
<1>7. \A m \in DOMAIN shown : ~In(m, {"superseded"}) /\ Visible(m) => Visible(m)'
  <2> SUFFICES ASSUME NEW m \in DOMAIN shown, ~In(m, {"superseded"}), Visible(m)
               PROVE  Visible(m)'
    OBVIOUS
  <2>1. m \in Rows  BY <1>1 DEF TypeOK, Notices
  <2>2. In(m, {"sending", "uncertain"}) \/ Sent(m)  BY DEF Visible
  <2>3. m \notin D  BY <1>2, <2>2 DEF In, Sent
  <2> QED  BY <2>1, <2>2, <2>3 DEF Visible, In, Sent
<1>8. /\ TypeOK' /\ PlannedRight' /\ QueueRight' /\ OrderRight' /\ ClosedRight' /\ ShownRight'
      /\ Waits /\ NotReposted
  <2>1. \A i \in Deletes : In(i, {"sent"})' => In(i, {"sent", "sending"})
    BY <1>1, <1>4, LedgerFacts DEF In
  <2>2. \A i \in Notices : Queued(i)' => Queued(i)  BY <1>1, <1>5, LedgerFacts
  <2>3. overtaken' \subseteq Runs /\ crashes' \in 0..MaxCrashes
    BY <1>1 DEF TypeOK
  <2>4. /\ sender' \in [phase : {"idle", "leased", "calling", "ok", "error"}, row : Rows \cup {0}]
        /\ finder' \in [phase : {"idle", "found", "absent", "unknown"}, row : Rows \cup {0}]
    BY <1>1 DEF TypeOK
  <2> QED  BY <1>3, <1>6, <1>7, <2>1, <2>2, <2>3, <2>4, MovedStep
<1>9. LeavesNothing  BY <1>1, <1>4, LedgerFacts DEF LeavesNothing, In
<1>10. \A i \in Rows : (i \in Deletes') <=> (i \in Deletes)  BY EvolvedFacts
<1>11. SenderHolds'
  <2>1. sender.row \in Rows \cup {0}  BY <1>1 DEF TypeOK
  <2>2. \A i \in Rows : In(i, {"sending"}) <=> sender.row = i  BY DEF IInv, SenderHolds
  <2>3. \A i \in Rows' : In(i, {"sending"})' <=> sender'.row = i
    <3>1. \A i \in Rows : In(i, {"sending"})' <=> sender'.row = i  BY <1>3, <2>2
    <3>2. ~In(new, {"sending"})'  BY DEF In
    <3> QED  BY <2>1, <3>1, <3>2
  <2>4. 0 \notin Rows  BY <1>1, LedgerFacts
  <2>5. Deletes \subseteq Rows /\ Deletes' \subseteq Rows'  BY DEF Deletes
  <2> QED  BY <1>10, <2>1, <2>3, <2>4, <2>5 DEF IInv, SenderHolds
<1>12. FinderHolds'
  <2>1. finder.row # 0 => finder.row \in Rows  BY <1>1 DEF TypeOK
  <2> QED  BY <1>2, <2>1 DEF IInv, FinderHolds, In
<1> QED  BY <1>8, <1>9, <1>11, <1>12 DEF Good, IInv

LEMMA AppendStep ==
    ASSUME IInv, NEW D \in SUBSET Rows, NEW e \in Row, e.state = "pending", Len(ledger) < MaxRows,
           \A i \in D : Queued(i),
           e.op = "delete" => \A i \in Notices : Queued(i) => i \in D,
           ledger' = Append([i \in Rows |-> IF i \in D
                                            THEN [ledger[i] EXCEPT !.state = "superseded"]
                                            ELSE ledger[i]], e),
           planned' \in NewNotice \cup {None}, UNCHANGED <<sender, finder, shown, overtaken, crashes>>
    PROVE  Good
<1> DEFINE f == [i \in Rows |-> IF i \in D THEN [ledger[i] EXCEPT !.state = "superseded"]
                                ELSE ledger[i]]
           new == Len(ledger) + 1
<1>0. TypeOK  BY DEF IInv
<1>1. f \in [Rows -> Row]
  BY <1>0, LedgerFacts, RowWrites DEF State
<1>2. \A i \in Rows : /\ f[i].op = ledger[i].op /\ f[i].target = ledger[i].target
                      /\ f[i].state = IF i \in D THEN "superseded" ELSE ledger[i].state
  BY <1>0, LedgerFacts, RowWrites DEF State
<1>3. f \in Seq(Row) /\ Len(f) = Len(ledger) /\ DOMAIN f = Rows  BY <1>0, <1>1, Rewritten
<1>4. ledger' = Append(f, e)  OBVIOUS
<1> HIDE DEF f
<1>5. /\ ledger' \in Seq(Row) /\ Len(ledger') = new /\ Rows' = Rows \cup {new}
      /\ \A i \in Rows : ledger'[i] = f[i]
      /\ ledger'[new] = e
  <2>1. /\ Append(f, e) \in Seq(Row) /\ Len(Append(f, e)) = Len(f) + 1
        /\ DOMAIN Append(f, e) = DOMAIN f \cup {Len(f) + 1}
        /\ \A i \in DOMAIN f : Append(f, e)[i] = f[i]
        /\ Append(f, e)[Len(f) + 1] = e
    BY <1>3, Lengthened
  <2>2. Rows' = DOMAIN Append(f, e)  BY <1>4 DEF Rows
  <2> HIDE DEF Rows
  <2> QED  BY <1>3, <1>4, <2>1, <2>2
<1>6. /\ Len(ledger) \in Nat /\ Rows = 1..Len(ledger) /\ MaxRows \in Nat
      /\ new \in Nat \ {0} /\ new \notin Rows /\ \A i \in Rows : new > i
  BY <1>0, LedgerFacts
<1>7. \A i \in Rows : /\ ledger'[i].op = ledger[i].op /\ ledger'[i].target = ledger[i].target
                      /\ ledger'[i].state = IF i \in D THEN "superseded" ELSE ledger[i].state
  BY <1>2, <1>5
<1>8. \A i \in D : ~In(i, {"sending", "sent", "uncertain", "failed", "superseded"})
  BY DEF Queued, In
<1>9. \A i \in Rows : ledger[i].op # "post" => ~In(i, {"uncertain"})
  BY <1>0 DEF TypeOK
<1>10. Evolves
  <2>1. Len(ledger') <= MaxRows  BY <1>5, <1>6
  <2>2. \A n \in Rows' \ Rows :
          In(n, {"pending"})' /\ (\A i \in Rows : n > i) /\ (\A k \in Rows' \ Rows : k = n)
    BY <1>5, <1>6 DEF In
  <2> QED  BY <1>5, <1>7, <1>8, <1>9, <2>1, <2>2 DEF Evolves, In
<1> HIDE DEF new
<1> QED  BY <1>5, <1>6, <1>7, <1>10, AddedStep

LEMMA AdmitStep ==
    ASSUME IInv, Admit
    PROVE  Good
<1>1. /\ planned # None /\ Len(ledger) < MaxRows /\ planned' = None
      /\ UNCHANGED <<sender, finder, shown, overtaken, crashes>>
  BY DEF Admit
<1>2. PICK e \in Row : e = planned /\ e.state = "pending" /\ e.op # "delete"
  BY <1>1 DEF IInv, PlannedRight, NewNotice
<1>3. CASE ledger' = ledger
  <2>1. TypeOK'  BY <1>1, <1>3 DEF IInv, TypeOK, Rows, Notices, In, IsDelete
  <2>2. SenderHolds' /\ FinderHolds'
    BY <1>1, <1>3, StillStep DEF IInv, SenderHolds, FinderHolds, In, Deletes, IsDelete
  <2>3. ShownRight'
    BY <1>1, <1>3, StillStep, ShownKept DEF Visible, In, Sent, Deletes, IsDelete
  <2>4. Waits  BY <1>1 DEF Waits
  <2>5. PlannedRight'  BY <1>1 DEF PlannedRight
  <2> QED  BY <1>3, <2>1, <2>2, <2>3, <2>4, <2>5, StillStep DEF Good, IInv
<1>4. CASE ledger' # ledger
  <2>1. PICK D \in SUBSET Rows : D = {i \in Rows : Queued(i) /\ ~Preserved(i)}  OBVIOUS
  <2>2. ledger' = Append([i \in Rows |-> IF i \in D
                                         THEN [ledger[i] EXCEPT !.state = "superseded"]
                                         ELSE ledger[i]], e)
    <3>1. [i \in Rows |-> IF Queued(i) /\ ~Preserved(i)
                          THEN [ledger[i] EXCEPT !.state = "superseded"] ELSE ledger[i]]
          = [i \in Rows |-> IF i \in D THEN [ledger[i] EXCEPT !.state = "superseded"]
                            ELSE ledger[i]]
      BY <2>1
    <3> QED  BY <1>2, <1>4, <3>1 DEF Admit
  <2>3. planned' \in NewNotice \cup {None} /\ \A i \in D : Queued(i)  BY <1>1, <2>1
  <2> QED  BY <1>1, <1>2, <2>2, <2>3, AppendStep
<1> QED  BY <1>3, <1>4

(* A step that leaves the ledger alone, and at most removes from Slack.     *)
LEMMA RemovedStep ==
    ASSUME IInv, ledger' = ledger, DOMAIN shown' \subseteq DOMAIN shown,
           \A m \in DOMAIN shown' : shown'[m] = shown[m],
           UNCHANGED <<planned, sender, finder, overtaken, crashes>>
    PROVE  Good
<1>1. \A m \in DOMAIN shown' : {m, shown'[m]} \subseteq Notices  BY DEF IInv, TypeOK
<1>2. TypeOK'  BY <1>1, StillStep DEF IInv, TypeOK, Rows, In, IsDelete
<1>3. SenderHolds' /\ FinderHolds'
  BY StillStep DEF IInv, SenderHolds, FinderHolds, In, Deletes, IsDelete
<1>4. ShownRight'  BY StillStep, ShownKept DEF Visible, In, Sent, Deletes, IsDelete
<1>5. Waits  BY DEF Waits
<1> QED  BY <1>2, <1>3, <1>4, <1>5, StillStep DEF Good, IInv, PlannedRight

LEMMA RetireStep ==
    ASSUME IInv, Retire, UNCHANGED <<planned, sender, finder, shown, overtaken, crashes>>
    PROVE  Good
<1> DEFINE S == {i \in Notices : Live(i) /\ i > Latest({j \in Deletes : In(j, {"sent"})})}
           b == Latest(S)
<1>0. TypeOK  BY DEF IInv
<1>1. CASE ledger' = ledger  BY <1>1, RemovedStep
<1>2. CASE ledger' # ledger
  <2>1. /\ b # 0 /\ Len(ledger) < MaxRows
        /\ ledger' = Append([i \in Rows |->
                            IF Queued(i) /\ ~IsDelete(i)
                            THEN [ledger[i] EXCEPT !.state = "superseded"] ELSE ledger[i]],
                   [op |-> "delete", run |-> ledger[b].run, blocker |-> None,
                    epoch |-> Cardinality(Deletes) + 1, state |-> "pending",
                    failures |-> 0, target |-> 0])
    BY <1>2 DEF Retire
  <2>2. b \in Rows
    <3>1. S \in SUBSET (1..Len(ledger)) /\ Len(ledger) \in Nat  BY <1>0, LedgerFacts
    <3>2. S \subseteq Rows  BY DEF Notices
    <3> HIDE DEF S
    <3> QED  BY <2>1, <3>1, <3>2, LatestFacts
  <2> HIDE DEF b
  <2>3. ledger[b].run \in Runs  BY <1>0, <2>2, LedgerFacts DEF Row
  <2>4. Cardinality(Deletes) + 1 \in 1..MaxRows  BY <1>0, <2>1, DeletesCounted
  <2>5. 0 \in 0..MaxAttempts /\ 0 \in 0..MaxRows  BY <1>0, LedgerFacts
  <2> DEFINE row == [op |-> "delete", run |-> ledger[b].run, blocker |-> None,
                     epoch |-> Cardinality(Deletes) + 1, state |-> "pending",
                     failures |-> 0, target |-> 0]
  <2>6. PICK e \in Row : e = row /\ e.state = "pending"
    <3>1. row \in Row  BY <2>3, <2>4, <2>5 DEF Row, State
    <3>2. row.state = "pending"  OBVIOUS
    <3> HIDE DEF row
    <3> QED  BY <3>1, <3>2
  <2>7. PICK D \in SUBSET Rows : D = {i \in Rows : Queued(i) /\ ~IsDelete(i)}  OBVIOUS
  <2>8. [i \in Rows |-> IF Queued(i) /\ ~IsDelete(i)
                        THEN [ledger[i] EXCEPT !.state = "superseded"] ELSE ledger[i]]
        = [i \in Rows |-> IF i \in D THEN [ledger[i] EXCEPT !.state = "superseded"]
                          ELSE ledger[i]]
    BY <2>7
  <2>9. ledger' = Append([i \in Rows |-> IF i \in D
                                         THEN [ledger[i] EXCEPT !.state = "superseded"]
                                         ELSE ledger[i]], e)
    BY <2>1, <2>6, <2>8
  <2>10. /\ \A i \in D : Queued(i)
         /\ \A i \in Notices : Queued(i) => i \in D
    BY <2>7 DEF Notices
  <2>11. planned' \in NewNotice \cup {None}  BY DEF IInv, PlannedRight
  <2> QED  BY <2>1, <2>6, <2>9, <2>10, <2>11, AppendStep
<1> QED  BY <1>1, <1>2

LEMMA AcceptStep ==
    ASSUME IInv, Accept
    PROVE  Good
BY RetireStep DEF Accept

LEMMA DismissStep ==
    ASSUME IInv, NEW m \in DOMAIN shown, Dismiss(m)
    PROVE  Good
<1>1. UNCHANGED <<planned, sender, finder, overtaken, crashes>>  BY DEF Dismiss
<1>2. \/ Retire /\ UNCHANGED shown
      \/ shown' = [n \in DOMAIN shown \ {m} |-> shown[n]] /\ UNCHANGED ledger
  BY DEF Dismiss
<1>3. CASE Retire /\ UNCHANGED shown  BY <1>1, <1>3, RetireStep
<1>4. CASE shown' = [n \in DOMAIN shown \ {m} |-> shown[n]] /\ UNCHANGED ledger
  <2>1. DOMAIN shown' \subseteq DOMAIN shown /\ \A n \in DOMAIN shown' : shown'[n] = shown[n]
    BY <1>4
  <2> QED  BY <1>1, <1>4, <2>1, RemovedStep
<1> QED  BY <1>2, <1>3, <1>4
-----------------------------------------------------------------------------
(* A step that writes rows where they are.                                  *)
LEMMA InPlaceStep ==
    ASSUME IInv, ledger' \in [Rows -> Row],
           \A i \in Rows : /\ ledger'[i].op = ledger[i].op
                           /\ ledger[i].op # "post" => ~In(i, {"uncertain"})'
                           /\ In(i, {"failed", "superseded"}) => In(i, {"failed", "superseded"})'
                           /\ In(i, {"superseded"}) => In(i, {"superseded"})'
                           /\ In(i, {"sent"}) => In(i, {"sent", "superseded"})'
                           /\ IsDelete(i) /\ In(i, {"sent"}) => In(i, {"sent"})',
           \A i \in Rows : In(i, {"sending"})' => In(i, {"sending"}) \/ (Queued(i) /\ InTurn(i)),
           \A i \in Deletes : In(i, {"sent"})' => In(i, {"sent", "sending"}),
           \A i \in Notices : ledger[i].op = "post" /\ Queued(i)' => Queued(i) \/ ~NewerRetirement(i),
           \A m \in DOMAIN shown : ~In(m, {"superseded"}) /\ Visible(m) => Visible(m)',
           planned' \in {planned, None}, overtaken' = overtaken, crashes' \in 0..MaxCrashes,
           sender' \in [phase : {"idle", "leased", "calling", "ok", "error"}, row : Rows \cup {0}],
           finder' \in [phase : {"idle", "found", "absent", "unknown"}, row : Rows \cup {0}],
           shown' = shown, SenderHolds', FinderHolds', LeavesNothing
    PROVE  Good
<1>1. Evolves /\ Rows' = Rows  BY InPlace
<1>2. \A n \in Rows' \ Rows : /\ ledger'[n].state = "pending"
                              /\ IsDelete(n)' => \A i \in Notices : ~Queued(i)'
  BY <1>1
<1>3. planned' \in NewNotice \cup {None} /\ overtaken' \subseteq Runs
  BY DEF IInv, PlannedRight, TypeOK
<1>4. /\ TypeOK' /\ PlannedRight' /\ QueueRight' /\ OrderRight' /\ ClosedRight' /\ ShownRight'
      /\ Waits /\ NotReposted
  BY <1>1, <1>2, <1>3, MovedStep
<1> QED  BY <1>4 DEF Good, IInv

LEMMA FencedFacts ==
    ASSUME TypeOK
    PROVE  /\ Fenced \in [Rows -> Row]
           /\ \A i \in Rows : /\ Fenced[i].op = ledger[i].op /\ Fenced[i].target = ledger[i].target
                              /\ \/ Fenced[i].state = ledger[i].state
                                 \/ Queued(i) /\ Fenced[i].state = "superseded"
<1>1. \A i \in Rows : /\ Fenced[i] \in Row
                      /\ Fenced[i].op = ledger[i].op /\ Fenced[i].target = ledger[i].target
                      /\ \/ Fenced[i].state = ledger[i].state
                         \/ Queued(i) /\ Fenced[i].state = "superseded"
  BY LedgerFacts, RowWrites DEF Fenced, State
<1>2. Fenced \in [Rows -> Row]
  <2>1. Fenced = [i \in Rows |-> Fenced[i]]  BY DEF Fenced
  <2> QED  BY <1>1, <2>1
<1> QED  BY <1>1, <1>2

LEMMA LeaseStep ==
    ASSUME IInv, NEW backingOff, Lease(backingOff)
    PROVE  Good
<1>1. /\ sender = Idle /\ UNCHANGED <<planned, finder, shown, overtaken, crashes>>
      /\ \/ ledger' = Fenced /\ sender' = sender
         \/ \E i \in Rows :
              /\ Fenced[i].state \in {"pending", "retry"} /\ \A j \in Rows : ~Blocked(i, j)
              /\ ledger' = [Fenced EXCEPT ![i].state = "sending"]
              /\ sender' = [phase |-> IF IsDelete(i) THEN "leased" ELSE "calling", row |-> i]
  BY DEF Lease
<1>2. TypeOK /\ SenderHolds /\ FinderHolds  BY DEF IInv
<1>3. \A i \in Rows : ~In(i, {"sending"})
  BY <1>1, <1>2, LedgerFacts DEF SenderHolds, Idle
<1>4. /\ finder.row # 0 => finder.row \in Rows /\ In(finder.row, {"uncertain"})
      /\ 0 \notin Rows
  BY <1>2, LedgerFacts DEF FinderHolds, TypeOK
<1>5. CASE ledger' = Fenced /\ sender' = sender
  <2>1. ledger' \in [Rows -> Row]  BY <1>2, <1>5, FencedFacts
  <2>2. \A i \in Rows : /\ ledger'[i].op = ledger[i].op /\ ledger'[i].target = ledger[i].target
                        /\ \/ ledger'[i].state = ledger[i].state
                           \/ Queued(i) /\ ledger'[i].state = "superseded"
    BY <1>2, <1>5, FencedFacts
  <2>3. Rows' = Rows  BY <2>1 DEF Rows
  <2>4. \A i \in Rows : /\ ledger'[i].op = ledger[i].op
                        /\ ledger[i].op # "post" => ~In(i, {"uncertain"})'
                        /\ In(i, {"failed", "superseded"}) => In(i, {"failed", "superseded"})'
                        /\ In(i, {"superseded"}) => In(i, {"superseded"})'
                        /\ In(i, {"sent"}) => In(i, {"sent", "superseded"})'
                        /\ IsDelete(i) /\ In(i, {"sent"}) => In(i, {"sent"})'
    BY <1>2, <2>2 DEF TypeOK, Queued, In
  <2>5. \A i \in Rows : ~In(i, {"sending"})'  BY <1>3, <2>2 DEF In
  <2>6. \A i \in Rows : In(i, {"sent"})' => In(i, {"sent"})  BY <2>2 DEF In
  <2>7. \A i \in Rows : Queued(i)' => Queued(i)  BY <2>2 DEF Queued, In
  <2>8. \A m \in DOMAIN shown : ~In(m, {"superseded"}) /\ Visible(m) => Visible(m)'
    BY <1>2, <2>2 DEF TypeOK, Notices, Visible, Queued, In, Sent
  <2>9. SenderHolds'
    BY <1>1, <1>4, <1>5, <2>3, <2>5 DEF SenderHolds, Idle, Deletes
  <2>10. FinderHolds'
    BY <1>1, <1>2, <1>4, <2>2 DEF FinderHolds, Queued, In
  <2>11. LeavesNothing  BY <1>2, <2>6, LedgerFacts DEF LeavesNothing, In
  <2>12. /\ sender' \in [phase : {"idle", "leased", "calling", "ok", "error"}, row : Rows \cup {0}]
         /\ finder' \in [phase : {"idle", "found", "absent", "unknown"}, row : Rows \cup {0}]
         /\ crashes' \in 0..MaxCrashes /\ planned' \in {planned, None}
         /\ overtaken' = overtaken /\ shown' = shown
    BY <1>1, <1>2, <1>5 DEF TypeOK
  <2>13. \A i \in Deletes : In(i, {"sent"})' => In(i, {"sent", "sending"})
    BY <1>2, <2>6, LedgerFacts DEF In
  <2>14. \A i \in Notices : Queued(i)' => Queued(i)  BY <2>7 DEF Notices
  <2> QED  BY <2>1, <2>4, <2>5, <2>8, <2>9, <2>10, <2>11, <2>12, <2>13, <2>14, InPlaceStep
<1>6. ASSUME NEW i \in Rows, Fenced[i].state \in {"pending", "retry"},
             \A j \in Rows : ~Blocked(i, j), ledger' = [Fenced EXCEPT ![i].state = "sending"],
             sender' = [phase |-> IF IsDelete(i) THEN "leased" ELSE "calling", row |-> i]
      PROVE  Good
  <2>1. /\ ledger' \in [Rows -> Row]
        /\ ledger'[i].state = "sending" /\ ledger'[i].op = ledger[i].op
        /\ ledger'[i].target = ledger[i].target
        /\ \A j \in Rows \ {i} : ledger'[j] = Fenced[j]
    <3>1. Fenced[i] \in Row  BY <1>2, FencedFacts
    <3>2. ledger' = [Fenced EXCEPT ![i] = [Fenced[i] EXCEPT !.state = "sending"]]  BY <1>6
    <3>3. [Fenced[i] EXCEPT !.state = "sending"] \in Row  BY <3>1, RowWrites DEF State
    <3> QED  BY <1>2, <3>1, <3>2, <3>3, FencedFacts, RowWrites DEF State
  <2>2. \A j \in Rows \ {i} : /\ ledger'[j].op = ledger[j].op
                              /\ ledger'[j].target = ledger[j].target
                              /\ \/ ledger'[j].state = ledger[j].state
                                 \/ Queued(j) /\ ledger'[j].state = "superseded"
    BY <1>2, <2>1, FencedFacts
  <2>3. Rows' = Rows  BY <2>1 DEF Rows
  <2>4. Queued(i)  BY <1>2, <1>6, FencedFacts DEF Queued, In
  <2>5. \A j \in Rows : /\ ledger'[j].op = ledger[j].op
                        /\ ledger[j].op # "post" => ~In(j, {"uncertain"})'
                        /\ In(j, {"failed", "superseded"}) => In(j, {"failed", "superseded"})'
                        /\ In(j, {"superseded"}) => In(j, {"superseded"})'
                        /\ In(j, {"sent"}) => In(j, {"sent", "superseded"})'
                        /\ IsDelete(j) /\ In(j, {"sent"}) => In(j, {"sent"})'
    <3>1. \A j \in Rows \ {i} :
             /\ ledger'[j].op = ledger[j].op
             /\ ledger[j].op # "post" => ~In(j, {"uncertain"})'
             /\ In(j, {"failed", "superseded"}) => In(j, {"failed", "superseded"})'
             /\ In(j, {"superseded"}) => In(j, {"superseded"})'
             /\ In(j, {"sent"}) => In(j, {"sent", "superseded"})'
             /\ IsDelete(j) /\ In(j, {"sent"}) => In(j, {"sent"})'
      BY <1>2, <2>2 DEF TypeOK, Queued, In
    <3>2. ledger'[i].op = ledger[i].op /\ ~In(i, {"uncertain"})'
          /\ ~In(i, {"failed", "superseded", "sent"})
      BY <2>1, <2>4 DEF Queued, In
    <3> QED  BY <3>1, <3>2 DEF In
  <2>6. InTurn(i)
    <3>1. \A d \in Deletes : d < i => ~In(d, Owed)'
      <4> SUFFICES ASSUME NEW d \in Deletes, d < i PROVE ~In(d, Owed)'  OBVIOUS
      <4>1. d \in Rows /\ IsDelete(d) /\ d # i  BY <1>2, LedgerFacts
      <4>2. Fenced[d].state \notin {"pending", "retry", "sending"}
        BY <1>6, <4>1 DEF Blocked
      <4> QED  BY <2>1, <4>1, <4>2 DEF In, Owed
    <3>2. IsDelete(i) => \A j \in Notices : j < i => In(j, Over)'
      <4> SUFFICES ASSUME IsDelete(i), NEW j \in Notices, j < i PROVE In(j, Over)'  OBVIOUS
      <4>1. j \in Rows /\ ~IsDelete(j) /\ j # i  BY <1>2, LedgerFacts
      <4>2. Fenced[j].state \notin {"pending", "retry", "sending", "uncertain"}
        BY <1>6, <4>1 DEF Blocked
      <4>3. Fenced[j].state \in State  BY <1>2, <4>1, FencedFacts DEF Row
      <4> QED  BY <2>1, <4>1, <4>2, <4>3 DEF In, Over, State
    <3> QED  BY <3>1, <3>2 DEF InTurn
  <2>7. \A j \in Rows : In(j, {"sending"})' <=> j = i  BY <1>3, <2>1, <2>2 DEF In
  <2>8. \A j \in Rows : In(j, {"sent"})' => In(j, {"sent"})  BY <2>1, <2>2 DEF In
  <2>9. \A j \in Rows : Queued(j)' => Queued(j)  BY <2>1, <2>2 DEF Queued, In
  <2>10. \A m \in DOMAIN shown : ~In(m, {"superseded"}) /\ Visible(m) => Visible(m)'
    <3> SUFFICES ASSUME NEW m \in DOMAIN shown, ~In(m, {"superseded"}), Visible(m)
                 PROVE  Visible(m)'
      OBVIOUS
    <3>1. m \in Rows  BY <1>2 DEF TypeOK, Notices
    <3>2. In(m, {"uncertain"}) \/ Sent(m)  BY <1>3, <3>1 DEF Visible, In
    <3>3. m # i /\ ~Queued(m)  BY <2>4, <3>2 DEF Queued, In, Sent
    <3> QED  BY <2>2, <3>1, <3>2, <3>3 DEF Visible, In, Sent
  <2>11. SenderHolds'
    <3>1. IsDelete(i) => i \in Deletes'  BY <2>1, <2>3 DEF Deletes, IsDelete
    <3>2. i \in Deletes' => IsDelete(i)  BY <2>1 DEF Deletes, IsDelete
    <3>3. /\ sender'.row = i /\ i # 0
          /\ sender'.phase = IF IsDelete(i) THEN "leased" ELSE "calling"
      BY <1>4, <1>6
    <3> QED  BY <2>3, <2>7, <3>1, <3>2, <3>3 DEF SenderHolds
  <2>12. FinderHolds'
    <3>1. finder.row # i  BY <1>4, <2>4 DEF Queued, In
    <3> QED  BY <1>1, <1>2, <1>4, <2>2, <3>1 DEF FinderHolds, Queued, In
  <2>13. LeavesNothing  BY <1>2, <2>8, LedgerFacts DEF LeavesNothing, In
  <2>14. /\ sender' \in [phase : {"idle", "leased", "calling", "ok", "error"}, row : Rows \cup {0}]
         /\ finder' \in [phase : {"idle", "found", "absent", "unknown"}, row : Rows \cup {0}]
         /\ crashes' \in 0..MaxCrashes /\ planned' \in {planned, None}
         /\ overtaken' = overtaken /\ shown' = shown
    BY <1>1, <1>2, <1>6 DEF TypeOK
  <2>15. \A j \in Deletes : In(j, {"sent"})' => In(j, {"sent", "sending"})
    BY <1>2, <2>8, LedgerFacts DEF In
  <2>16. \A j \in Notices : Queued(j)' => Queued(j)  BY <2>9 DEF Notices
  <2>17. \A j \in Rows : In(j, {"sending"})' => In(j, {"sending"}) \/ (Queued(j) /\ InTurn(j))
    BY <2>4, <2>6, <2>7
  <2> QED
    BY <2>1, <2>5, <2>10, <2>11, <2>12, <2>13, <2>14, <2>15, <2>16, <2>17, InPlaceStep
<1> QED  BY <1>1, <1>5, <1>6
-----------------------------------------------------------------------------
(* A row that is done, with the history a retirement closes.                *)
LEMMA DoneTypes ==
    ASSUME NEW row \in Row, NEW t \in 0..MaxRows
    PROVE  /\ [row EXCEPT !.state = "sent", !.target = t] \in Row
           /\ [row EXCEPT !.state = "sent", !.target = t].state = "sent"
           /\ [row EXCEPT !.state = "sent", !.target = t].op = row.op
           /\ [row EXCEPT !.state = "sent", !.target = t].target = t
BY DEF Row, State

LEMMA FinishedFacts ==
    ASSUME TypeOK, NEW i \in Rows, NEW from \in State, ledger[i].state = from
    PROVE  /\ Finished(i, from) \in [Rows -> Row]
           /\ Finished(i, from)[i].state = "sent" /\ Finished(i, from)[i].op = ledger[i].op
           /\ Finished(i, from)[i].target = IF ledger[i].op = "post" THEN i ELSE ledger[i].target
           /\ \A j \in Rows \ {i} :
                 /\ Finished(i, from)[j].op = ledger[j].op
                 /\ Finished(i, from)[j].target = ledger[j].target
                 /\ \/ Finished(i, from)[j].state = ledger[j].state
                    \/ /\ IsDelete(i) /\ j < i /\ ~IsDelete(j) /\ In(j, {"sent", "failed"})
                       /\ Finished(i, from)[j].state = "superseded"
<1> DEFINE t == IF ledger[i].op = "post" THEN i ELSE ledger[i].target
           done == [ledger[i] EXCEPT !.state = "sent", !.target = t]
           closed(j) == IsDelete(i) /\ j < i /\ ~IsDelete(j) /\ In(j, {"sent", "failed"})
           f == [j \in Rows |->
                   CASE j = i -> done
                     [] closed(j) -> [ledger[j] EXCEPT !.state = "superseded"]
                     [] OTHER -> ledger[j]]
<1>1. Finished(i, from) = f  BY DEF Finished
<1>2. /\ done \in Row /\ done.state = "sent" /\ done.op = ledger[i].op
      /\ done.target = t
  <2>1. ledger[i] \in Row /\ i \in 0..MaxRows  BY LedgerFacts
  <2>2. ledger[i].target \in 0..MaxRows  BY <2>1 DEF Row
  <2>3. t \in 0..MaxRows  BY <2>1, <2>2
  <2> HIDE DEF t
  <2> QED  BY <2>1, <2>3, DoneTypes, Zenon
<1> HIDE DEF done
<1>3. f[i] = done  OBVIOUS
<1>4. \A j \in Rows \ {i} : f[j] = IF closed(j) THEN [ledger[j] EXCEPT !.state = "superseded"]
                                   ELSE ledger[j]
  OBVIOUS
<1> HIDE DEF closed
<1>5. \A j \in Rows \ {i} : /\ f[j] \in Row /\ f[j].op = ledger[j].op
                            /\ f[j].target = ledger[j].target
                            /\ \/ f[j].state = ledger[j].state
                               \/ closed(j) /\ f[j].state = "superseded"
  BY <1>4, LedgerFacts, RowWrites DEF State
<1>6. f \in [Rows -> Row]
  <2>1. \A j \in Rows : f[j] \in Row  BY <1>2, <1>3, <1>5
  <2>2. f = [j \in Rows |-> f[j]]  OBVIOUS
  <2> QED  BY <2>1, <2>2
<1> HIDE DEF f
<1> QED  BY <1>1, <1>2, <1>3, <1>5, <1>6 DEF closed

LEMMA PutFacts ==
    ASSUME TypeOK, NEW i \in Rows, NEW s \in State
    PROVE  /\ Put(i, s) \in [Rows -> Row]
           /\ Put(i, s)[i].state = s /\ Put(i, s)[i].op = ledger[i].op
           /\ Put(i, s)[i].target = ledger[i].target
           /\ \A j \in Rows \ {i} : Put(i, s)[j] = ledger[j]
<1> DEFINE n == IF ledger[i].failures < MaxAttempts THEN ledger[i].failures + 1
                ELSE ledger[i].failures
           new == [ledger[i] EXCEPT !.state = s, !.failures = n]
<1>1. ledger \in [Rows -> Row] /\ ledger[i] \in Row /\ MaxAttempts \in Nat  BY LedgerFacts
<1>2. n \in 0..MaxAttempts
  <2>1. ledger[i].failures \in 0..MaxAttempts  BY <1>1 DEF Row
  <2> QED  BY <1>1, <2>1
<1>3. Put(i, s) = [ledger EXCEPT ![i] = new]  BY DEF Put
<1>4. new \in Row /\ new.state = s /\ new.op = ledger[i].op /\ new.target = ledger[i].target
  <2>1. ledger[i] \in Row /\ s \in State  BY <1>1
  <2> HIDE DEF n
  <2>2. PICK row \in Row, k \in 0..MaxAttempts : row = ledger[i] /\ k = n  BY <1>2, <2>1
  <2>3. new = [row EXCEPT !.state = s, !.failures = k]  BY <2>2
  <2> HIDE DEF new
  <2>4. new \in Row  BY <2>1, <2>3 DEF Row
  <2>5. new.state = s /\ new.op = row.op /\ new.target = row.target  BY <2>1, <2>3 DEF Row
  <2> QED  BY <2>2, <2>4, <2>5
<1> HIDE DEF new
<1> QED  BY <1>1, <1>3, <1>4

(* A row i that was sent or unknown is done or put elsewhere.               *)
LEMMA OneRowStep ==
    ASSUME IInv, NEW i \in Rows, In(i, {"sending", "uncertain"}), ledger' \in [Rows -> Row],
           ledger'[i].op = ledger[i].op,
           \A j \in Rows \ {i} :
              /\ ledger'[j].op = ledger[j].op /\ ledger'[j].target = ledger[j].target
              /\ \/ ledger'[j].state = ledger[j].state
                 \/ /\ IsDelete(i) /\ j < i /\ ~IsDelete(j) /\ In(j, {"sent", "failed"})
                    /\ ledger'[i].state = "sent" /\ ledger'[j].state = "superseded",
           ledger'[i].state \in {"sending", "sent", "retry", "failed", "superseded", "uncertain"},
           ledger'[i].state = "sending" => In(i, {"sending"}),
           ledger'[i].state = "uncertain" => ledger[i].op = "post",
           IsDelete(i) => In(i, {"sending"}),
           ledger[i].op = "post" /\ ledger'[i].state = "retry" => ~NewerRetirement(i),
           ledger[i].op = "post" /\ ledger'[i].state = "sent" => ledger'[i].target # 0,
           i \in DOMAIN shown => ledger'[i].state \in {"sent", "uncertain"},
           UNCHANGED <<planned, shown, overtaken, crashes>>,
           sender' \in [phase : {"idle", "leased", "calling", "ok", "error"}, row : Rows \cup {0}],
           finder' \in [phase : {"idle", "found", "absent", "unknown"}, row : Rows \cup {0}],
           SenderHolds', FinderHolds', LeavesNothing
    PROVE  Good
<1>1. TypeOK  BY DEF IInv
<1>2. i \in Deletes <=> IsDelete(i)  BY <1>1, LedgerFacts
<1>3. \A j \in Rows : /\ ledger'[j].op = ledger[j].op
                      /\ ledger[j].op # "post" => ~In(j, {"uncertain"})'
                      /\ In(j, {"failed", "superseded"}) => In(j, {"failed", "superseded"})'
                      /\ In(j, {"superseded"}) => In(j, {"superseded"})'
                      /\ In(j, {"sent"}) => In(j, {"sent", "superseded"})'
                      /\ IsDelete(j) /\ In(j, {"sent"}) => In(j, {"sent"})'
  <2>1. \A j \in Rows \ {i} :
           /\ ledger'[j].op = ledger[j].op
           /\ ledger[j].op # "post" => ~In(j, {"uncertain"})'
           /\ In(j, {"failed", "superseded"}) => In(j, {"failed", "superseded"})'
           /\ In(j, {"superseded"}) => In(j, {"superseded"})'
           /\ In(j, {"sent"}) => In(j, {"sent", "superseded"})'
           /\ IsDelete(j) /\ In(j, {"sent"}) => In(j, {"sent"})'
    BY <1>1 DEF TypeOK, In
  <2>2. /\ ledger[i].op # "post" => ~In(i, {"uncertain"})'
        /\ ~In(i, {"failed", "superseded", "sent"})
    BY DEF In
  <2> QED  BY <2>1, <2>2 DEF In
<1>4. \A j \in Rows : In(j, {"sending"})' => In(j, {"sending"})  BY DEF In
<1>5. \A j \in Deletes : In(j, {"sent"})' => In(j, {"sent", "sending"})
  BY <1>1, <1>2, LedgerFacts DEF In
<1>6. \A j \in Notices : ledger[j].op = "post" /\ Queued(j)' => Queued(j) \/ ~NewerRetirement(j)
  BY <1>1, LedgerFacts DEF Queued, In
<1>7. \A m \in DOMAIN shown : ~In(m, {"superseded"}) /\ Visible(m) => Visible(m)'
  <2> SUFFICES ASSUME NEW m \in DOMAIN shown, ~In(m, {"superseded"}), Visible(m)
               PROVE  Visible(m)'
    OBVIOUS
  <2>1. m \in Rows /\ ledger[m].op = "post"  BY <1>1 DEF IInv, ShownRight, TypeOK, Notices
  <2>2. CASE m = i
    BY <2>1, <2>2 DEF Visible, In, Sent
  <2>3. CASE m # i /\ ledger'[m].state = ledger[m].state
    BY <2>1, <2>3 DEF Visible, In, Sent
  <2>4. CASE m # i /\ ledger'[m].state # ledger[m].state
    <3>1. /\ i \in Deletes /\ m < i /\ In(m, {"superseded"})' /\ In(i, {"sent"})'
      BY <1>2, <2>1, <2>4 DEF In
    <3>2. i \in Deletes' /\ i > m
      <4>1. Rows' = Rows  BY DEF Rows
      <4>2. m \in Nat /\ i \in Nat  BY <1>1, <2>1, LedgerFacts
      <4> QED  BY <1>2, <3>1, <4>1, <4>2 DEF Deletes, IsDelete
    <3> QED  BY <3>1, <3>2 DEF Visible
  <2> QED  BY <2>2, <2>3, <2>4
<1>8. crashes' \in 0..MaxCrashes /\ planned' \in {planned, None}  BY <1>1 DEF TypeOK
<1> QED  BY <1>3, <1>4, <1>5, <1>6, <1>7, <1>8, InPlaceStep
-----------------------------------------------------------------------------
(* A retirement that is carried out with nothing to remove: whatever is to  *)
(* be seen before it is history of an earlier one.                          *)
LEMMA NothingToRemove ==
    ASSUME IInv, NEW i \in Deletes, In(i, {"sending"}), NEW m \in DOMAIN shown, ~(m > i),
           \A j \in Notices : j < i => ~Sent(j)
    PROVE  \E k \in Deletes : k > m /\ k < i /\ In(k, {"sent"})
<1>1. TypeOK  BY DEF IInv
<1>2. /\ m \in Notices /\ m \in Rows /\ ledger[m].op = "post" /\ Visible(m)
      /\ i \in Rows /\ IsDelete(i) /\ ~IsDelete(m) /\ m \in Nat /\ i \in Nat
  BY <1>1, LedgerFacts DEF IInv, ShownRight, TypeOK, Notices
<1>3. m < i  BY <1>2
<1>4. In(m, Over) /\ ~Sent(m)  BY <1>2, <1>3 DEF IInv, ClosedRight
<1>5. PICK k \in Deletes : k > m /\ In(k, {"sent"})
  BY <1>2, <1>4 DEF Visible, In, Over
<1>6. k \in Rows /\ IsDelete(k) /\ k \in Nat  BY <1>1, <1>2, LedgerFacts
<1>7. ~(i < k)
  <2>1. In(i, Owed)  BY DEF In, Owed
  <2> QED  BY <1>5, <1>6, <2>1 DEF IInv, OrderRight
<1>8. k # i  BY <1>5 DEF In
<1> QED  BY <1>2, <1>5, <1>6, <1>7, <1>8

LEMMA ResolveStep ==
    ASSUME IInv, Resolve
    PROVE  Good
<1> DEFINE i == sender.row
           S == {j \in Notices : j < i /\ Sent(j)}
           known == Latest(S)
<1>1. /\ sender.phase = "leased"
      /\ UNCHANGED <<planned, finder, shown, overtaken, crashes>>
      /\ \/ known = 0 /\ ledger' = Finished(i, "sending") /\ sender' = Idle
         \/ /\ known # 0 /\ ledger' = [ledger EXCEPT ![i].target = ledger[known].target]
            /\ sender' = [sender EXCEPT !.phase = "calling"]
  BY DEF Resolve
<1>2. TypeOK /\ SenderHolds /\ FinderHolds  BY DEF IInv
<1>3. /\ i \in Rows /\ i \in Deletes /\ IsDelete(i) /\ In(i, {"sending"}) /\ i # 0
      /\ ledger[i].op # "post"
  BY <1>1, <1>2, LedgerFacts DEF SenderHolds, IsDelete
<1>4. /\ known \in S \cup {0}
      /\ known = 0 => S = {}
  <2>1. S \in SUBSET (1..Len(ledger)) /\ Len(ledger) \in Nat  BY <1>2, LedgerFacts
  <2> HIDE DEF S
  <2> QED  BY <2>1, LatestFacts
<1>5. finder' = finder /\ finder \in [phase : {"idle", "found", "absent", "unknown"}, row : Rows \cup {0}]
  BY <1>1, <1>2 DEF TypeOK
<1>6. finder.row # 0 => finder.row \in Rows /\ finder.row # i
  BY <1>3, <1>5, <1>2 DEF FinderHolds, In
<1>7. i \notin DOMAIN shown  BY <1>3, <1>2 DEF TypeOK, Notices
<1> HIDE DEF known
<1>8. CASE known = 0
  <2>1. ledger' = Finished(i, "sending") /\ sender' = Idle  BY <1>1, <1>8
  <2>2. ledger[i].state = "sending"  BY <1>3 DEF In
  <2> HIDE DEF i
  <2>3. /\ ledger' \in [Rows -> Row]
        /\ ledger'[i].state = "sent" /\ ledger'[i].op = ledger[i].op
        /\ \A j \in Rows \ {i} :
              /\ ledger'[j].op = ledger[j].op /\ ledger'[j].target = ledger[j].target
              /\ \/ ledger'[j].state = ledger[j].state
                 \/ /\ IsDelete(i) /\ j < i /\ ~IsDelete(j) /\ In(j, {"sent", "failed"})
                    /\ ledger'[j].state = "superseded"
    BY <1>2, <1>3, <2>1, <2>2, FinishedFacts DEF State
  <2>4. Rows' = Rows  BY <2>3 DEF Rows
  <2>5. LeavesNothing
    <3> SUFFICES ASSUME NEW d \in Deletes, ~In(d, {"sent"}), ledger'[d].state = "sent",
                        NEW m \in DOMAIN shown, ~(m > d)
                 PROVE  \E k \in Deletes : k > m /\ k < d /\ In(k, {"sent"})
      BY DEF LeavesNothing
    <3>1. d = i  BY <1>2, <2>3, LedgerFacts DEF In
    <3>2. \A j \in Notices : j < i => ~Sent(j)  BY <1>4, <1>8
    <3> QED  BY <1>3, <3>1, <3>2, NothingToRemove
  <2>6. SenderHolds'
    <3>1. \A j \in Rows : j # i => ~In(j, {"sending"})  BY <1>2 DEF SenderHolds, i
    <3>2. \A j \in Rows' : ~In(j, {"sending"})'  BY <2>3, <2>4, <3>1 DEF In
    <3>3. 0 \notin Rows  BY <1>2, LedgerFacts
    <3> QED  BY <2>1, <2>4, <3>2, <3>3 DEF SenderHolds, Idle
  <2>7. FinderHolds'
    BY <1>1, <1>2, <1>5, <1>6, <2>3 DEF FinderHolds, In
  <2>8. sender' \in [phase : {"idle", "leased", "calling", "ok", "error"}, row : Rows \cup {0}]
    BY <2>1 DEF Idle
  <2>9. In(i, {"sending", "uncertain"})  BY <2>2 DEF In
  <2>10. UNCHANGED <<planned, shown, overtaken, crashes>>  BY <1>1
  <2> QED  BY <1>3, <1>5, <1>7, <2>3, <2>5, <2>6, <2>7, <2>8, <2>9, <2>10, OneRowStep
<1>9. CASE known # 0
  <2>1. /\ ledger' = [ledger EXCEPT ![i].target = ledger[known].target]
        /\ sender' = [sender EXCEPT !.phase = "calling"]
    BY <1>1, <1>9
  <2>2. known \in Rows /\ ledger[known].target # 0 /\ ledger[known].target \in 0..MaxRows
    <3>1. known \in Notices /\ Sent(known)  BY <1>4, <1>9
    <3> QED  BY <1>2, <3>1, LedgerFacts DEF Sent, Row
  <2>3. /\ ledger' \in [Rows -> Row]
        /\ ledger'[i].op = ledger[i].op /\ ledger'[i].state = ledger[i].state
        /\ ledger'[i].target # 0
        /\ \A j \in Rows \ {i} : ledger'[j] = ledger[j]
    <3>1. PICK row \in Row, t \in 0..MaxRows : row = ledger[i] /\ t = ledger[known].target
      BY <1>2, <1>3, <2>2, LedgerFacts
    <3>2. ledger' = [ledger EXCEPT ![i] = [row EXCEPT !.target = t]]  BY <2>1, <3>1
    <3>3. /\ [row EXCEPT !.target = t] \in Row /\ [row EXCEPT !.target = t].target = t
          /\ [row EXCEPT !.target = t].op = row.op /\ [row EXCEPT !.target = t].state = row.state
      BY DEF Row
    <3> HIDE DEF i
    <3> QED  BY <1>2, <1>3, <2>2, <3>1, <3>2, <3>3, LedgerFacts
  <2>4. sender'.row = i /\ sender'.phase = "calling"
        /\ sender' \in [phase : {"idle", "leased", "calling", "ok", "error"}, row : Rows \cup {0}]
    BY <1>2, <2>1 DEF TypeOK
  <2> HIDE DEF i
  <2>5. Rows' = Rows  BY <2>3 DEF Rows
  <2>6. SenderHolds'
    <3>1. \A j \in Rows : In(j, {"sending"}) <=> i = j  BY <1>2 DEF SenderHolds, i
    <3>2. \A j \in Rows' : In(j, {"sending"})' <=> sender'.row = j
      BY <2>3, <2>4, <2>5, <3>1 DEF In
    <3> QED  BY <1>3, <2>3, <2>4, <3>2 DEF SenderHolds
  <2>7. FinderHolds'  BY <1>1, <1>2, <1>5, <1>6, <2>3 DEF FinderHolds, In
  <2>8. LeavesNothing  BY <1>2, <2>3, LedgerFacts DEF LeavesNothing, In
  <2>9. /\ In(i, {"sending", "uncertain"}) /\ ledger'[i].state = "sending"
    BY <1>3, <2>3 DEF In
  <2>10. UNCHANGED <<planned, shown, overtaken, crashes>>  BY <1>1
  <2> QED  BY <1>3, <1>5, <1>7, <2>3, <2>4, <2>6, <2>7, <2>8, <2>9, <2>10, OneRowStep
<1> QED  BY <1>8, <1>9

LEMMA RecordStep ==
    ASSUME IInv, Record
    PROVE  Good
<1> DEFINE i == sender.row
<1>1. /\ sender.phase \in {"ok", "error"} /\ sender' = Idle
      /\ UNCHANGED <<planned, finder, shown, overtaken, crashes>>
      /\ \/ sender.phase = "ok" /\ ledger' = Finished(i, "sending")
         \/ sender.phase = "error" /\ ledger' = Retried(i)
  BY DEF Record
<1>2. TypeOK /\ SenderHolds /\ FinderHolds  BY DEF IInv
<1>3. i \in Rows /\ In(i, {"sending"}) /\ i # 0
  BY <1>1, <1>2 DEF SenderHolds, TypeOK
<1>4. /\ ledger[i].state = "sending" /\ In(i, {"sending", "uncertain"})
      /\ ledger[i].op \in {"post", "update", "delete"}
      /\ IsDelete(i) => ledger[i].target # 0
      /\ i \in Deletes <=> IsDelete(i)
  BY <1>1, <1>2, <1>3, LedgerFacts DEF In, Row, SenderHolds
<1>5. finder' = finder /\ finder \in [phase : {"idle", "found", "absent", "unknown"}, row : Rows \cup {0}]
  BY <1>1, <1>2 DEF TypeOK
<1>6. finder.row # 0 => finder.row \in Rows /\ finder.row # i
  BY <1>3, <1>5, <1>2 DEF FinderHolds, In
<1>7. i \in DOMAIN shown => ledger[i].op = "post"  BY DEF IInv, ShownRight
<1>8. \A j \in Rows \ {i} : ~In(j, {"sending"})  BY <1>2 DEF SenderHolds
<1>9. sender' \in [phase : {"idle", "leased", "calling", "ok", "error"}, row : Rows \cup {0}]
  BY <1>1 DEF Idle
<1>10. UNCHANGED <<planned, shown, overtaken, crashes>> /\ sender' = Idle  BY <1>1
<1>11. 0 \notin Rows  BY <1>2, LedgerFacts
<1>12. CASE sender.phase = "ok"
  <2>1. ledger' = Finished(i, "sending")  BY <1>1, <1>12
  <2> HIDE DEF i
  <2>2. /\ ledger' \in [Rows -> Row]
        /\ ledger'[i].state = "sent" /\ ledger'[i].op = ledger[i].op
        /\ ledger'[i].target = IF ledger[i].op = "post" THEN i ELSE ledger[i].target
        /\ \A j \in Rows \ {i} :
              /\ ledger'[j].op = ledger[j].op /\ ledger'[j].target = ledger[j].target
              /\ \/ ledger'[j].state = ledger[j].state
                 \/ /\ IsDelete(i) /\ j < i /\ ~IsDelete(j) /\ In(j, {"sent", "failed"})
                    /\ ledger'[j].state = "superseded"
    BY <1>2, <1>3, <1>4, <2>1, FinishedFacts DEF State
  <2>3. Rows' = Rows  BY <2>2 DEF Rows
  <2>4. LeavesNothing
    <3> SUFFICES ASSUME NEW d \in Deletes, ~In(d, {"sent"}), ledger'[d].state = "sent",
                        ledger'[d].target = 0
                 PROVE  FALSE
      BY DEF LeavesNothing
    <3>1. d = i  BY <1>2, <2>2, LedgerFacts DEF In
    <3>2. IsDelete(i) /\ ledger[i].op # "post"  BY <1>4, <3>1 DEF IsDelete
    <3> QED  BY <1>4, <2>2, <3>1, <3>2
  <2>5. SenderHolds'
    <3>1. \A j \in Rows' : ~In(j, {"sending"})'  BY <1>8, <2>2, <2>3 DEF In
    <3> QED  BY <1>10, <1>11, <2>3, <3>1 DEF SenderHolds, Idle
  <2>6. FinderHolds'  BY <1>2, <1>5, <1>6, <1>10, <2>2 DEF FinderHolds, In
  <2>7. ledger[i].op = "post" => ledger'[i].target # 0  BY <1>3, <2>2
  <2>8. IsDelete(i) => In(i, {"sending"})  BY <1>3
  <2> QED  BY <1>3, <1>4, <1>5, <1>9, <1>10, <2>2, <2>4, <2>5, <2>6, <2>7, <2>8, OneRowStep
<1>13. CASE sender.phase = "error"
  <2>1. ledger' = Retried(i)  BY <1>1, <1>13
  <2> HIDE DEF i
  <2>2. PICK s \in {"uncertain", "superseded", "failed", "retry"} :
          /\ ledger' = Put(i, s)
          /\ s = "uncertain" <=> ledger[i].op = "post"
    BY <2>1 DEF Retried
  <2>3. /\ ledger' \in [Rows -> Row]
        /\ ledger'[i].state = s /\ ledger'[i].op = ledger[i].op
        /\ \A j \in Rows \ {i} : ledger'[j] = ledger[j]
    BY <1>2, <1>3, <2>2, PutFacts DEF State
  <2>4. Rows' = Rows  BY <2>3 DEF Rows
  <2>5. LeavesNothing  BY <1>2, <2>3, LedgerFacts DEF LeavesNothing, In
  <2>6. SenderHolds'
    <3>1. \A j \in Rows' : ~In(j, {"sending"})'  BY <1>8, <2>3, <2>4 DEF In
    <3> QED  BY <1>10, <1>11, <2>4, <3>1 DEF SenderHolds, Idle
  <2>7. FinderHolds'  BY <1>2, <1>5, <1>6, <1>10, <2>3 DEF FinderHolds, In
  <2>8. i \in DOMAIN shown => ledger'[i].state \in {"sent", "uncertain"}  BY <1>7, <2>2, <2>3
  <2> QED  BY <1>3, <1>4, <1>5, <1>9, <1>10, <2>2, <2>3, <2>5, <2>6, <2>7, <2>8, OneRowStep
<1> QED  BY <1>1, <1>12, <1>13

LEMMA SettleStep ==
    ASSUME IInv, Settle
    PROVE  Good
<1> DEFINE i == finder.row
<1>1. /\ finder # Idle /\ finder' = Idle /\ ledger' = Reconciled(i, finder.phase)
      /\ UNCHANGED <<planned, sender, shown, overtaken, crashes>>
  BY DEF Settle
<1>2. TypeOK /\ SenderHolds /\ FinderHolds  BY DEF IInv
<1>3. /\ i \in Rows /\ In(i, {"uncertain"}) /\ i # 0 /\ ledger[i].state = "uncertain"
      /\ finder.phase \in {"found", "absent", "unknown"}
  <2>1. finder \in [phase : {"idle", "found", "absent", "unknown"}, row : Rows \cup {0}]
    BY <1>2 DEF TypeOK
  <2>2. finder.phase # "idle"
    <3>1. finder = [phase |-> finder.phase, row |-> finder.row]  BY <2>1
    <3> QED  BY <1>1, <1>2, <3>1 DEF FinderHolds, Idle
  <2> QED  BY <1>2, <2>1, <2>2 DEF FinderHolds, In
<1>4. /\ ledger[i].op = "post" /\ ~IsDelete(i) /\ In(i, {"sending", "uncertain"})
      /\ ~In(i, {"sending"})
  BY <1>2, <1>3 DEF TypeOK, In, IsDelete
<1>5. finder.phase = "absent" => i \notin DOMAIN shown  BY <1>2 DEF FinderHolds
<1>6. finder' \in [phase : {"idle", "found", "absent", "unknown"}, row : Rows \cup {0}]
  BY <1>1 DEF Idle
<1>7. FinderHolds'  BY <1>1, <1>2, LedgerFacts DEF FinderHolds, Idle
<1>8. sender' = sender /\ sender \in [phase : {"idle", "leased", "calling", "ok", "error"}, row : Rows \cup {0}]
  BY <1>1, <1>2 DEF TypeOK
<1>9. sender.row # 0 => sender.row \in Rows /\ sender.row # i
  BY <1>2, <1>3, <1>4, <1>8 DEF SenderHolds
<1>10. UNCHANGED <<planned, shown, overtaken, crashes>>  BY <1>1
<1>11. 0 \notin Rows  BY <1>2, LedgerFacts
<1>12. ASSUME ledger' \in [Rows -> Row], ledger'[i].state # "sending",
              \A j \in Rows : ledger'[j].op = ledger[j].op,
              \A j \in Rows \ {i} : /\ ledger'[j].target = ledger[j].target
                                    /\ ledger'[j].state = ledger[j].state
       PROVE  SenderHolds' /\ LeavesNothing
  <2> HIDE DEF i
  <2>1. Rows' = Rows  BY <1>12 DEF Rows
  <2>2. \A j \in Rows' : In(j, {"sending"})' <=> sender.row = j
    BY <1>2, <1>3, <1>4, <1>9, <1>12, <2>1 DEF SenderHolds, In
  <2>3. \A j \in Rows : j \in Deletes' <=> j \in Deletes
    BY <1>12, <2>1 DEF Deletes, IsDelete
  <2>4. Deletes \subseteq Rows /\ Deletes' \subseteq Rows  BY <2>1 DEF Deletes
  <2>5. SenderHolds'
    BY <1>2, <1>8, <1>9, <1>11, <1>12, <2>2, <2>3, <2>4 DEF SenderHolds
  <2>6. LeavesNothing
    BY <1>2, <1>4, <1>12, LedgerFacts DEF LeavesNothing, In
  <2> QED  BY <2>5, <2>6
<1>13. CASE finder.phase = "found"
  <2>1. ledger' = Finished(i, "uncertain")  BY <1>1, <1>13 DEF Reconciled
  <2>2. /\ ledger' \in [Rows -> Row]
        /\ ledger'[i].state = "sent" /\ ledger'[i].op = ledger[i].op /\ ledger'[i].target = i
        /\ \A j \in Rows \ {i} :
              /\ ledger'[j].op = ledger[j].op /\ ledger'[j].target = ledger[j].target
              /\ ledger'[j].state = ledger[j].state
    <3> HIDE DEF i
    <3> QED  BY <1>2, <1>3, <1>4, <2>1, FinishedFacts DEF State
  <2>3. SenderHolds' /\ LeavesNothing  BY <1>12, <2>2
  <2> HIDE DEF i
  <2> QED  BY <1>3, <1>4, <1>6, <1>7, <1>8, <1>10, <2>2, <2>3, OneRowStep
<1>14. CASE finder.phase # "found"
  <2>1. PICK s \in {"uncertain", "superseded", "failed", "retry"} :
          /\ ledger' = Put(i, s)
          /\ s = "uncertain" \/ finder.phase = "absent"
          /\ s = "retry" => ~NewerRetirement(i)
    BY <1>1, <1>3, <1>14 DEF Reconciled
  <2>2. /\ ledger' \in [Rows -> Row]
        /\ ledger'[i].state = s /\ ledger'[i].op = ledger[i].op
        /\ \A j \in Rows \ {i} : ledger'[j] = ledger[j]
    <3> HIDE DEF i
    <3> QED  BY <1>2, <1>3, <2>1, PutFacts DEF State
  <2>3. SenderHolds' /\ LeavesNothing  BY <1>12, <2>2
  <2>4. i \in DOMAIN shown => ledger'[i].state \in {"sent", "uncertain"}  BY <1>5, <2>1, <2>2
  <2> HIDE DEF i
  <2> QED  BY <1>3, <1>4, <1>6, <1>7, <1>8, <1>10, <2>1, <2>2, <2>3, <2>4, OneRowStep
<1> QED  BY <1>13, <1>14

LEMMA RestartStep ==
    ASSUME IInv, Restart
    PROVE  Good
<1>1. /\ crashes < MaxCrashes /\ crashes' = crashes + 1
      /\ ledger' = [i \in Rows |->
           IF In(i, {"sending"})
           THEN [ledger[i] EXCEPT !.state = IF ledger[i].op = "post" THEN "uncertain" ELSE "retry"]
           ELSE ledger[i]]
      /\ planned' = None /\ sender' = Idle /\ finder' = Idle
      /\ UNCHANGED <<shown, overtaken>>
  BY DEF Restart
<1>2. TypeOK  BY DEF IInv
<1>3. \A i \in Rows : /\ ledger'[i] \in Row
                      /\ ledger'[i].op = ledger[i].op /\ ledger'[i].target = ledger[i].target
                      /\ IF In(i, {"sending"})
                         THEN ledger'[i].state = IF ledger[i].op = "post" THEN "uncertain" ELSE "retry"
                         ELSE ledger'[i].state = ledger[i].state
  <2> TAKE i \in Rows
  <2>1. ledger[i] \in Row  BY <1>2, LedgerFacts
  <2>2. CASE In(i, {"sending"})
    <3>1. PICK s \in State : s = IF ledger[i].op = "post" THEN "uncertain" ELSE "retry"
      BY DEF State
    <3>2. ledger'[i] = [ledger[i] EXCEPT !.state = s]  BY <1>1, <2>2, <3>1
    <3> QED  BY <2>1, <2>2, <3>1, <3>2, RowWrites
  <2>3. CASE ~In(i, {"sending"})  BY <1>1, <2>1, <2>3
  <2> QED  BY <2>2, <2>3
<1>4. ledger' \in [Rows -> Row]
  <2>1. ledger' = [i \in Rows |-> ledger'[i]]  BY <1>1
  <2> QED  BY <1>3, <2>1
<1>5. Rows' = Rows /\ 0 \notin Rows  BY <1>2, <1>4, LedgerFacts DEF Rows
<1>6. \A i \in Rows : ~In(i, {"sending"})'  BY <1>3 DEF In
<1>7. SenderHolds' /\ FinderHolds'
  <2>1. 0 \notin Deletes' /\ sender'.row = 0 /\ sender'.phase = "idle"
        /\ finder'.row = 0 /\ finder'.phase = "idle"
    BY <1>1, <1>5 DEF Deletes, Idle
  <2> QED  BY <1>5, <1>6, <2>1 DEF SenderHolds, FinderHolds
<1>8. \A i \in Rows : /\ ledger'[i].op = ledger[i].op
                      /\ ledger[i].op # "post" => ~In(i, {"uncertain"})'
                      /\ In(i, {"failed", "superseded"}) => In(i, {"failed", "superseded"})'
                      /\ In(i, {"superseded"}) => In(i, {"superseded"})'
                      /\ In(i, {"sent"}) => In(i, {"sent", "superseded"})'
                      /\ IsDelete(i) /\ In(i, {"sent"}) => In(i, {"sent"})'
  BY <1>2, <1>3 DEF TypeOK, In
<1>9. \A i \in Rows : In(i, {"sent"})' => In(i, {"sent"})  BY <1>3 DEF In
<1>10. \A i \in Notices : ledger[i].op = "post" /\ Queued(i)' => Queued(i)
  BY <1>2, <1>3, LedgerFacts DEF Queued, In
<1>11. \A m \in DOMAIN shown : ~In(m, {"superseded"}) /\ Visible(m) => Visible(m)'
  <2> SUFFICES ASSUME NEW m \in DOMAIN shown, ~In(m, {"superseded"}), Visible(m)
               PROVE  Visible(m)'
    OBVIOUS
  <2>1. m \in Rows /\ ledger[m].op = "post"  BY <1>2 DEF IInv, ShownRight, TypeOK, Notices
  <2> QED  BY <1>3, <2>1 DEF Visible, In, Sent
<1>12. crashes' \in 0..MaxCrashes
  BY <1>1, <1>2, ConfigAssumption DEF TypeOK
<1>13. /\ sender' \in [phase : {"idle", "leased", "calling", "ok", "error"}, row : Rows \cup {0}]
       /\ finder' \in [phase : {"idle", "found", "absent", "unknown"}, row : Rows \cup {0}]
       /\ planned' \in {planned, None} /\ overtaken' = overtaken /\ shown' = shown
  BY <1>1 DEF Idle
<1>14. LeavesNothing  BY <1>2, <1>9, LedgerFacts DEF LeavesNothing, In
<1>15. \A i \in Deletes : In(i, {"sent"})' => In(i, {"sent", "sending"})
  BY <1>2, <1>9, LedgerFacts DEF In
<1> QED
  BY <1>4, <1>6, <1>7, <1>8, <1>10, <1>11, <1>12, <1>13, <1>14, <1>15, InPlaceStep
-----------------------------------------------------------------------------
LEMMA InitIInv == Init => IInv
<1> SUFFICES ASSUME Init PROVE IInv  OBVIOUS
<1>1. /\ ledger = <<>> /\ planned = None /\ sender = Idle /\ finder = Idle
      /\ shown = <<>> /\ overtaken = {} /\ crashes = 0
  BY DEF Init
<1>2. /\ Rows = {} /\ Notices = {} /\ Deletes = {} /\ DOMAIN shown = {}
      /\ ledger \in Seq(Row) /\ Len(ledger) = 0
  BY <1>1 DEF Rows, Notices, Deletes
<1>3. TypeOK  BY <1>1, <1>2, ConfigAssumption DEF TypeOK, Idle
<1>4. SenderHolds /\ FinderHolds /\ PlannedRight
  BY <1>1, <1>2 DEF SenderHolds, FinderHolds, PlannedRight, Idle
<1>5. QueueRight /\ OrderRight /\ ClosedRight /\ ShownRight
  BY <1>2 DEF QueueRight, OrderRight, ClosedRight, ShownRight
<1> QED  BY <1>3, <1>4, <1>5 DEF IInv

LEMMA NextGood == IInv /\ [Next]_vars => Good
<1> SUFFICES ASSUME IInv, [Next]_vars PROVE Good  OBVIOUS
<1>1. ASSUME NEW r \in Runs, Overtake(r) PROVE Good  BY <1>1, OvertakeStep
<1>2. ASSUME NEW r \in Runs, NEW b \in Blockers, Plan(r, b) PROVE Good  BY <1>2, PlanStep
<1>3. CASE Admit  BY <1>3, AdmitStep
<1>4. CASE Accept  BY <1>4, AcceptStep
<1>5. ASSUME NEW m \in DOMAIN shown, Dismiss(m) PROVE Good  BY <1>5, DismissStep
<1>6. CASE Send
  <2>1. ASSUME NEW backingOff, Lease(backingOff) PROVE Good  BY <2>1, LeaseStep
  <2>2. CASE Resolve  BY <2>2, ResolveStep
  <2>3. ASSUME NEW accepted \in BOOLEAN, NEW answer \in {"ok", "error"}, Call(accepted, answer)
        PROVE  Good
    BY <2>3, CallStep
  <2>4. CASE Record  BY <2>4, RecordStep
  <2> QED  BY <1>6, <2>1, <2>2, <2>3, <2>4 DEF Send
<1>7. CASE Reconcile
  <2>1. ASSUME NEW outcome \in {"found", "absent", "unknown"}, Search(outcome) PROVE Good
    BY <2>1, SearchStep
  <2>2. CASE Settle  BY <2>2, SettleStep
  <2> QED  BY <1>7, <2>1, <2>2 DEF Reconcile
<1>8. CASE Restart  BY <1>8, RestartStep
<1>9. CASE UNCHANGED vars
  <2>1. /\ ledger' = ledger /\ shown' = shown
        /\ UNCHANGED <<planned, sender, finder, overtaken, crashes>>
    BY <1>9 DEF vars
  <2> QED  BY <2>1, RemovedStep
<1> QED  BY <1>1, <1>2, <1>3, <1>4, <1>5, <1>6, <1>7, <1>8, <1>9 DEF Next

LEMMA Invariance == Spec => []IInv
<1>1. IInv /\ [Next]_vars => IInv'  BY NextGood DEF Good
<1> QED  BY InitIInv, <1>1, PTL DEF Spec

(* The ledger, what is planned, the drains and Slack keep their types, for  *)
(* any runs, blockers, attempts and restarts.                               *)
THEOREM Typing == Spec => []TypeOK
<1>1. IInv => TypeOK  BY DEF IInv
<1> QED  BY Invariance, <1>1, PTL

(* A retirement is done without a Slack call only if nothing of its epoch   *)
(* is to be seen: no notice was in flight, uncertain or left by a restart.  *)
THEOREM NothingLeft == Spec => NothingLeftBehind
<1>1. IInv /\ [Next]_vars => LeavesNothing  BY NextGood DEF Good
<1> QED  BY Invariance, <1>1, PTL DEF Spec, NothingLeftBehind, LeavesNothing

(* A recurring blocker's notice appears in Slack only once every older      *)
(* retirement is over, so that none of them takes it away.                  *)
THEOREM RecurrencesWait == Spec => RecurrenceWaits
<1>1. IInv /\ [Next]_vars => Waits  BY NextGood DEF Good
<1> QED  BY Invariance, <1>1, PTL DEF Spec, RecurrenceWaits, Waits

(* A post that a later retirement covers is not leased again.               *)
THEOREM RetiredStays == Spec => RetiredNotReposted
<1>1. IInv /\ [Next]_vars => NotReposted  BY NextGood DEF Good
<1> QED  BY Invariance, <1>1, PTL DEF Spec, RetiredNotReposted, NotReposted
===============================================================================
