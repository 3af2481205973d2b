--------------------------- MODULE SchedulesProofs ---------------------------
(***************************************************************************)
(* Proofs about Schedules for any tasks, definitions, messages and limits:  *)
(* no two runs of a task are alive together.                               *)
(***************************************************************************)
EXTENDS Schedules, TLAPS

Jobs == {"drain", "button"}
Resting == {"idle", "reconcile", "due"}

(* An occurrence is under way from its first job to the end of its run: its  *)
(* input or its run is there, or a job is about to make them.               *)
Made(o) == run[o] # "none" \/ ~Is(o, {"absent"})
Touched(o) == Made(o) \/ \E p \in Jobs : job[p].occ = o
UnderWay(o) == Touched(o) /\ run[o] # "ended"

(* What the ledger of a task says of its occurrences is so, ...             *)
OccurrenceRight(o) ==
    /\ occ[o] # "none" => Exists(o[1])
    /\ o[3] > orders => occ[o] = "none"
    /\ occ[o] = "ended" => run[o] = "ended"
    /\ Exists(o[1]) /\ occ[o] \in {"none", "skipped"} => ~Touched(o)
    /\ Exists(o[1]) /\ o \in pass.todo => occ[o] \in Active

(* ... it has one at a time, and one that outlived its task is alone, too.   *)
OneActive == \A o, q \in Synthetic :
    o[1] = q[1] /\ occ[o] \in Active /\ occ[q] \in Active => o = q
OneUnderWay == \A o, q \in Synthetic :
    o[1] = q[1] /\ UnderWay(o) /\ UnderWay(q) => o = q

(* What the workers hold, some of which they read before.                    *)
InputsRight ==
    /\ \A i \in Inputs : Is(i, Open) => row[i].failures < MaxFailures
    /\ worker.phase # "idle" => worker.input \in Inputs /\ ~Is(worker.input, {"absent"})
JobsRight == \A p \in Jobs : job[p].phase \notin Resting => job[p].occ \in Synthetic
PassRight ==
    /\ pass.at <= now
    /\ \A s \in pass.due : s.def \in Definitions(s.task) /\ s.next \in 1..pass.at

IInv ==
    /\ TypeOK
    /\ InputsRight /\ JobsRight /\ PassRight
    /\ \A o \in Synthetic : OccurrenceRight(o)
    /\ OneActive
    /\ OneUnderWay
-----------------------------------------------------------------------------
LEMMA Places ==
    /\ \A o \in Synthetic : o[1] \in Tasks /\ o[2] \in 1..Horizon /\ o[3] \in 0..MaxOrders
    /\ \A t \in Tasks, at \in 1..Horizon, n \in 0..MaxOrders :
          LET o == <<t, at, n>> IN o \in Synthetic /\ o[1] = t /\ o[3] = n
    /\ none \notin Synthetic
    /\ Synthetic \subseteq Inputs /\ Messages \subseteq Inputs
BY ScheduleAssumption DEF none, Inputs

LEMMA Types ==
    ASSUME TypeOK
    PROVE  /\ row \in [Inputs -> SlackInput] /\ run \in [Synthetic -> {"none", "live", "ended"}]
           /\ worker \in Handling
           /\ task \in [Tasks -> Scheduled] /\ job \in [Jobs -> Progress] /\ pass \in Pass
           /\ occ \in [Synthetic -> {"none", "queued", "running", "ended", "skipped"}]
           /\ now \in Nat /\ orders \in Nat /\ troubles \in 0..MaxTroubles
           /\ DOMAIN job = Jobs
<1>1. now \in 0..Horizon /\ orders \in 0..MaxOrders  BY DEF TypeOK
<1> QED  BY <1>1, ScheduleAssumption DEF TypeOK, InputTypeOK, Jobs

(* What a step that makes no new occurrence may do: to the inputs and runs,  *)
(* to the jobs, and to the ledger.                                           *)
RunsHold ==
    \A o \in Synthetic : /\ Made(o)' => Touched(o)
                         /\ run[o] = "ended" => run'[o] = "ended"
JobsHold ==
    \A p \in Jobs :
        \/ job'[p] = job[p]
        \/ job'[p].occ = none /\ job'[p].phase \in Resting
        \/ job'[p].occ = job[p].occ /\ job[p].occ \in Synthetic
        \/ job'[p].occ \in Synthetic /\ Exists(job'[p].occ[1]) /\ occ[job'[p].occ] \in Active
LedgerHolds ==
    \A o \in Synthetic :
        \/ occ'[o] = occ[o]
        \/ /\ occ[o] \in Active
           /\ \/ occ'[o] \in Active
              \/ occ'[o] = "ended" /\ run'[o] = "ended" /\ o \notin pass'.todo

LEMMA HoldStep ==
    ASSUME IInv, TypeOK', InputsRight', PassRight', orders' >= orders,
           \A t \in Tasks : Exists(t)' <=> Exists(t),
           \A o \in pass'.todo : o \in pass.todo \/ occ'[o] \in Active,
           RunsHold, JobsHold, LedgerHolds
    PROVE  IInv'
<1>0. /\ run \in [Synthetic -> {"none", "live", "ended"}]
      /\ run' \in [Synthetic -> {"none", "live", "ended"}]
      /\ orders \in Nat /\ orders' \in Nat
  BY Types, ScheduleAssumption DEF IInv, TypeOK, InputTypeOK
<1>1. JobsRight'
  BY Places DEF IInv, JobsRight, JobsHold
<1>2. ASSUME NEW o \in Synthetic
      PROVE  Touched(o)' => Touched(o) \/ (Exists(o[1]) /\ occ[o] \in Active)
  BY Places DEF Touched, JobsHold, RunsHold
<1>3. ASSUME NEW o \in Synthetic PROVE OccurrenceRight(o)'
  <2>1. OccurrenceRight(o) /\ (Exists(o[1])' <=> Exists(o[1])) /\ o[3] \in Nat
    BY Places, ScheduleAssumption DEF IInv
  <2>2. CASE occ'[o] = occ[o]
    <3>1. occ'[o] = "ended" => run'[o] = "ended"  BY <2>1, <2>2 DEF OccurrenceRight, RunsHold
    <3>2. o[3] > orders' => occ'[o] = "none"  BY <1>0, <2>1, <2>2 DEF OccurrenceRight
    <3>3. Exists(o[1])' /\ occ'[o] \in {"none", "skipped"} => ~Touched(o)'
      BY <1>2, <2>1, <2>2 DEF OccurrenceRight, Active
    <3> QED  BY <2>1, <2>2, <3>1, <3>2, <3>3 DEF OccurrenceRight
  <2>3. CASE occ[o] \in Active /\ occ'[o] \in Active
    BY <1>0, <2>1, <2>3 DEF OccurrenceRight, Active
  <2>4. CASE occ[o] \in Active /\ occ'[o] = "ended" /\ run'[o] = "ended" /\ o \notin pass'.todo
    BY <1>0, <2>1, <2>4 DEF OccurrenceRight, Active
  <2> QED  BY <2>2, <2>3, <2>4 DEF LedgerHolds
<1>4. OneActive'
  <2>1. \A o \in Synthetic : occ'[o] \in Active => occ[o] \in Active
    BY DEF LedgerHolds, Active
  <2> QED  BY <2>1 DEF IInv, OneActive
<1>5. OneUnderWay'
  <2> SUFFICES ASSUME NEW o \in Synthetic, NEW q \in Synthetic, o[1] = q[1],
                      UnderWay(o)', UnderWay(q)'
               PROVE  o = q
    BY DEF OneUnderWay
  <2>1. ASSUME NEW r \in Synthetic, UnderWay(r)'
        PROVE  /\ UnderWay(r) \/ (Exists(r[1]) /\ occ[r] \in Active)
               /\ Exists(r[1]) => occ[r] \in Active
    <3>1. run[r] # "ended" /\ OccurrenceRight(r)  BY <2>1 DEF UnderWay, RunsHold, IInv
    <3>2. occ[r] \in {"none", "queued", "running", "ended", "skipped"}  BY Types DEF IInv
    <3> QED  BY <1>2, <2>1, <3>1, <3>2 DEF UnderWay, OccurrenceRight, Active
  <2> QED  BY <2>1 DEF IInv, OneActive, OneUnderWay
<1> QED  BY <1>1, <1>3, <1>4, <1>5 DEF IInv

(* A new occurrence, which is skipped if another one is under way.           *)
LEMMA NewStep ==
    ASSUME IInv, TypeOK', PassRight', UNCHANGED <<row, run, worker>>,
           NEW o \in Synthetic, Exists(o[1]), occ[o] = "none", o[3] <= orders', orders' >= orders,
           NEW outcome \in {"queued", "skipped"}, outcome = "queued" => ~Overlaps(o[1]),
           occ' = [occ EXCEPT ![o] = outcome],
           \A t \in Tasks : Exists(t)' <=> Exists(t),
           pass'.todo \subseteq pass.todo,
           \A p \in Jobs : job'[p] = job[p] \/ (outcome = "queued" /\ job'[p].occ = o)
    PROVE  IInv'
<1>0. /\ orders \in Nat /\ orders' \in Nat /\ o[3] \in Nat
      /\ occ \in [Synthetic -> {"none", "queued", "running", "ended", "skipped"}]
      /\ pass' \in Pass
  BY Types, Places, ScheduleAssumption DEF IInv, TypeOK
<1>1. InputsRight' /\ JobsRight'
  BY DEF IInv, InputsRight, Is, JobsRight
<1>2. \A q \in Synthetic : q # o => occ'[q] = occ[q] /\ (Touched(q)' => Touched(q))
  BY <1>0 DEF Touched, Made, Is
<1>3. occ'[o] = outcome /\ ~Touched(o) /\ o \notin pass.todo
  BY <1>0, Places DEF IInv, OccurrenceRight, Active
<1>4. ~Touched(o)' \/ outcome = "queued"
  BY <1>3 DEF Touched, Made, Is
<1>5. ASSUME NEW q \in Synthetic PROVE OccurrenceRight(q)'
  <2>1. OccurrenceRight(q) /\ (Exists(q[1])' <=> Exists(q[1])) /\ q[3] \in Nat
    BY Places, ScheduleAssumption DEF IInv
  <2>2. CASE q = o
    BY <1>0, <1>3, <1>4, <2>1, <2>2 DEF OccurrenceRight
  <2>3. CASE q # o
    BY <1>0, <1>2, <2>1, <2>3 DEF OccurrenceRight
  <2> QED  BY <2>2, <2>3
<1>6. \A q \in Synthetic : q[1] = o[1] /\ occ[q] \in Active => outcome = "skipped"
  BY DEF Overlaps, Occurrence
<1>7. OneActive'
  BY <1>2, <1>3, <1>6 DEF IInv, OneActive, Active
<1>8. OneUnderWay'
  <2>1. ASSUME NEW q \in Synthetic, q # o, UnderWay(q)', q[1] = o[1]
        PROVE  occ[q] \in Active
    <3>1. Touched(q) /\ run[q] # "ended" /\ OccurrenceRight(q) /\ Exists(q[1])
      BY <1>2, <2>1 DEF UnderWay, IInv
    <3> QED  BY <1>0, <3>1 DEF OccurrenceRight, Active
  <2>2. \A q \in Synthetic : q # o /\ UnderWay(q)' => UnderWay(q)
    BY <1>2 DEF UnderWay
  <2>3. UnderWay(o)' => outcome = "queued"  BY <1>4 DEF UnderWay
  <2>4. \A q \in Synthetic : q # o /\ q[1] = o[1] /\ UnderWay(q)' => ~UnderWay(o)'
    BY <1>6, <2>1, <2>3
  <2> QED  BY <2>2, <2>4 DEF IInv, OneUnderWay
<1> QED  BY <1>1, <1>5, <1>7, <1>8 DEF IInv
-----------------------------------------------------------------------------
(* Rows as they are written.                                                *)
LEMMA AdmitFacts ==
    ASSUME row \in [Inputs -> SlackInput], NEW i \in Inputs, NEW state \in Open
    PROVE  /\ Admitted(i, state) \in [Inputs -> SlackInput]
           /\ Admitted(i, state)[i].state # "absent"
           /\ \/ Admitted(i, state)[i] = row[i]
              \/ Admitted(i, state)[i].failures = 0
           /\ \A j \in Inputs \ {i} : Admitted(i, state)[j] = row[j]
<1>1. MaxFailures \in Nat /\ 0 \in 0..MaxFailures  BY InputAssumption
<1> DEFINE new == [state |-> state, due |-> TRUE, failures |-> 0]
<1>2. new \in SlackInput /\ new.state # "absent" /\ new.failures = 0
  BY <1>1 DEF SlackInput, Open
<1>3. Admitted(i, state) = IF Is(i, {"absent"}) THEN [row EXCEPT ![i] = new] ELSE row
  BY DEF Admitted
<1> HIDE DEF new
<1> QED  BY <1>2, <1>3 DEF Is

(* The inputs of the channel by themselves touch no occurrence that no job   *)
(* has touched, and a run that ended stays ended.                           *)
LEMMA InputStep ==
    ASSUME IInv, InputNext \/ \E i \in Inputs : Stale(i), now' = now
    PROVE  InputTypeOK' /\ InputsRight' /\ RunsHold
<1>1. /\ row \in [Inputs -> SlackInput] /\ run \in [Synthetic -> {"none", "live", "ended"}]
      /\ worker \in Handling /\ acked \subseteq Messages /\ troubles \in 0..MaxTroubles
      /\ InputsRight
  BY Types DEF IInv, TypeOK, InputTypeOK
<1>2. MaxFailures \in Nat \ {0} /\ MaxTroubles \in Nat  BY InputAssumption
<1>3. Rest \in Handling /\ Rest.phase = "idle"  BY DEF Rest, Handling
<1>4. troubles < MaxTroubles => troubles + 1 \in 0..MaxTroubles  BY <1>1, <1>2
<1> DEFINE Writes(i) ==
             /\ row' \in [Inputs -> SlackInput]
             /\ \A j \in Inputs \ {i} : row'[j] = row[j]
             /\ row'[i].state # "absent"
             /\ row'[i].state \in Open => row'[i].failures < MaxFailures
<1>5. ASSUME NEW i \in Inputs, Writes(i), i \notin Synthetic \/ ~Is(i, {"absent"}), run' = run,
             worker' = Rest \/ (worker'.phase # "idle" /\ worker'.input = i) \/ worker' = worker
      PROVE  InputsRight' /\ RunsHold
  <2>0. /\ \A j \in Inputs \ {i} : row'[j] = row[j]
        /\ row'[i].state # "absent" /\ (row'[i].state \in Open => row'[i].failures < MaxFailures)
    BY <1>5
  <2> HIDE DEF Writes
  <2>1. (\A j \in Inputs : Is(j, Open) => row[j].failures < MaxFailures)'
    BY <1>1, <2>0 DEF InputsRight, Is
  <2>2. (worker.phase # "idle" => worker.input \in Inputs /\ ~Is(worker.input, {"absent"}))'
    BY <1>1, <1>3, <1>5, <2>0 DEF InputsRight, Is
  <2>3. RunsHold
    <3>1. \A o \in Synthetic : o \in Inputs  BY Places
    <3>2. \A o \in Synthetic : Made(o)' => Made(o)
      BY <1>5, <2>0, <3>1 DEF Made, Is
    <3> QED  BY <1>5, <3>2 DEF RunsHold, Touched
  <2> QED  BY <2>1, <2>2, <2>3 DEF InputsRight, Is
<1>6. ASSUME row' = row, run' = run, worker' = Rest \/ worker' = worker
      PROVE  InputsRight' /\ RunsHold
  BY <1>1, <1>3, <1>6 DEF InputsRight, RunsHold, Made, Touched, Is
<1>7. ASSUME NEW m \in Messages, Receive(m) PROVE InputTypeOK' /\ InputsRight' /\ RunsHold
  <2>1. row' = Admitted(m, "pending") /\ UNCHANGED <<run, worker>>
        /\ acked' \subseteq Messages /\ troubles' \in 0..MaxTroubles
    BY <1>1, <1>4, <1>7 DEF Receive
  <2>2. m \in Inputs /\ m \notin Synthetic  BY Places, ScheduleAssumption
  <2>3. Writes(m)
    <3>1. "pending" \in Open  BY DEF Open
    <3>2. /\ row' \in [Inputs -> SlackInput] /\ row'[m].state # "absent"
          /\ row'[m] = row[m] \/ row'[m].failures = 0
          /\ \A j \in Inputs \ {m} : row'[j] = row[j]
      BY <1>1, <2>1, <2>2, <3>1, AdmitFacts
    <3> QED  BY <1>1, <1>2, <2>2, <3>2 DEF InputsRight, Is
  <2>4. InputsRight' /\ RunsHold  BY <1>5, <2>1, <2>2, <2>3
  <2> QED  BY <1>1, <2>1, <2>3, <2>4 DEF InputTypeOK
<1>8. ASSUME NEW i \in Inputs, Lease(i) PROVE InputTypeOK' /\ InputsRight' /\ RunsHold
  <2>1. /\ row' = Put(i, "processing", TRUE) /\ UNCHANGED <<run, acked, troubles>>
        /\ Is(i, {"pending", "retry"})
        /\ worker' = [phase |-> "handling", input |-> i]
    BY <1>8 DEF Lease, Leasable
  <2>2. worker' \in Handling /\ worker'.phase # "idle" /\ worker'.input = i
    BY <2>1 DEF Handling
  <2>3. Writes(i) /\ ~Is(i, {"absent"})
    <3>2. /\ row' \in [Inputs -> SlackInput] /\ row'[i].state = "processing"
          /\ row'[i].failures = row[i].failures /\ \A j \in Inputs \ {i} : row'[j] = row[j]
      BY <1>1, <2>1 DEF Put, SlackInput, Open
    <3> QED  BY <1>1, <2>1, <3>2 DEF InputsRight, Is, Open
  <2>4. InputsRight' /\ RunsHold  BY <1>5, <2>1, <2>2, <2>3
  <2> QED  BY <1>1, <2>1, <2>2, <2>3, <2>4 DEF InputTypeOK
<1>9. ASSUME NEW i \in Inputs, Handle(i) PROVE InputTypeOK' /\ InputsRight' /\ RunsHold
  <2>1. /\ UNCHANGED <<row, acked, troubles>> /\ worker.phase = "handling" /\ worker.input = i
        /\ run' = run \/ (i \in Synthetic /\ run' = Queued(i))
        /\ worker' = [worker EXCEPT !.phase = "handled"]
    BY <1>9 DEF Handle, Working
  <2>2. worker' \in Handling /\ worker'.phase = "handled" /\ worker'.input = i
    BY <1>1, <2>1 DEF Handling
  <2>3. ~Is(i, {"absent"})  BY <1>1, <2>1 DEF InputsRight
  <2>4. /\ run' \in [Synthetic -> {"none", "live", "ended"}]
        /\ \A o \in Synthetic : run'[o] = run[o] \/ (o = i /\ run[o] = "none")
    BY <1>1, <2>1 DEF Queued
  <2>5. RunsHold  BY <2>1, <2>3, <2>4 DEF RunsHold, Made, Touched, Is
  <2>6. InputsRight'  BY <1>1, <2>1, <2>2, <2>3 DEF InputsRight, Is
  <2> QED  BY <1>1, <2>1, <2>2, <2>4, <2>5, <2>6 DEF InputTypeOK
<1>10. ASSUME NEW i \in Inputs, Finish(i) PROVE InputTypeOK' /\ InputsRight' /\ RunsHold
  <2>1. /\ UNCHANGED <<run, acked, troubles>> /\ worker' = Rest
        /\ row' = IF Finishable(i) THEN Put(i, "done", FALSE) ELSE row
    BY <1>10 DEF Finish
  <2>2. CASE Finishable(i)
    <3>2. /\ row' \in [Inputs -> SlackInput] /\ row'[i].state = "done"
          /\ \A j \in Inputs \ {i} : row'[j] = row[j]
      BY <1>1, <2>1, <2>2 DEF Put, SlackInput, Open
    <3>3. Writes(i) /\ ~Is(i, {"absent"})  BY <2>2, <3>2 DEF Finishable, Is, Open
    <3>4. InputsRight' /\ RunsHold  BY <1>5, <2>1, <3>3
    <3> QED  BY <1>1, <1>3, <2>1, <3>2, <3>4 DEF InputTypeOK
  <2>3. CASE ~Finishable(i)
    BY <1>1, <1>3, <1>6, <2>1, <2>3 DEF InputTypeOK
  <2> QED  BY <2>2, <2>3
<1>11. ASSUME NEW i \in Inputs, Fail(i) PROVE InputTypeOK' /\ InputsRight' /\ RunsHold
  <2>1. PICK state \in {"retry", "failed"} :
          /\ row[i].failures + 1 >= MaxFailures => state = "failed"
          /\ row' = [row EXCEPT ![i] = [state |-> state, due |-> FALSE, failures |-> row[i].failures + 1]]
    BY <1>11 DEF Fail
  <2>2. /\ UNCHANGED <<run, acked>> /\ worker' = Rest /\ troubles' \in 0..MaxTroubles
        /\ Is(i, {"processing"})
    BY <1>4, <1>11 DEF Fail
  <2>3. row[i].failures \in Nat /\ row[i].failures < MaxFailures
    BY <1>1, <1>2, <2>2 DEF InputsRight, Is, Open, SlackInput
  <2>4. [state |-> state, due |-> FALSE, failures |-> row[i].failures + 1] \in SlackInput
    BY <1>2, <2>3 DEF SlackInput, Open
  <2>5. Writes(i) /\ ~Is(i, {"absent"})
    BY <1>1, <1>2, <2>1, <2>2, <2>3, <2>4 DEF Is, Open
  <2>6. InputsRight' /\ RunsHold  BY <1>5, <2>2, <2>5
  <2> QED  BY <1>1, <1>3, <2>2, <2>5, <2>6 DEF InputTypeOK
<1>12. CASE Abandon
  <2>1. row' = row /\ run' = run /\ acked' = acked /\ worker' = Rest /\ troubles' \in 0..MaxTroubles
    BY <1>4, <1>12 DEF Abandon
  <2> QED  BY <1>1, <1>3, <1>6, <2>1 DEF InputTypeOK
<1>13. ASSUME NEW i \in Inputs, Elapse(i) \/ Stale(i) PROVE InputTypeOK' /\ InputsRight' /\ RunsHold
  <2>1. /\ UNCHANGED <<run, acked, worker, troubles>> /\ row' = Put(i, "retry", TRUE)
        /\ Is(i, {"retry", "processing"})
    BY <1>13 DEF Elapse, Stale, Is
  <2>2. Writes(i) /\ ~Is(i, {"absent"})
    <3>2. /\ row' \in [Inputs -> SlackInput] /\ row'[i].state = "retry"
          /\ row'[i].failures = row[i].failures /\ \A j \in Inputs \ {i} : row'[j] = row[j]
      BY <1>1, <2>1 DEF Put, SlackInput, Open
    <3> QED  BY <1>1, <2>1, <3>2 DEF InputsRight, Is, Open
  <2>3. InputsRight' /\ RunsHold  BY <1>5, <2>1, <2>2
  <2> QED  BY <1>1, <2>1, <2>2, <2>3 DEF InputTypeOK
<1> QED
  BY <1>7, <1>8, <1>9, <1>10, <1>11, <1>12, <1>13 DEF InputNext, Served
-----------------------------------------------------------------------------
(* Jobs that go on, or come to their end.                                   *)
Phases == Resting \cup {"ensure", "admit", "queue", "finish", "link"}

LEMMA JobFacts ==
    ASSUME job \in [Jobs -> Progress], NEW p \in Jobs, NEW phase \in Phases
    PROVE  /\ To(p, phase) \in [Jobs -> Progress]
           /\ To(p, phase)[p].phase = phase /\ To(p, phase)[p].occ = job[p].occ
           /\ \A q \in Jobs \ {p} : To(p, phase)[q] = job[q]
BY DEF To, Progress, Phases, Resting

LEMMA IdleFacts ==
    /\ Idle \in Progress /\ Idle.phase = "idle" /\ Idle.occ = none
    /\ NoPass \in Pass /\ NoPass.todo = {} /\ NoPass.due = {} /\ NoPass.at = 0
BY DEF Idle, Progress, NoPass, Pass

LEMMA EndsFacts ==
    ASSUME TypeOK, NEW p \in Jobs, Ends(p)
    PROVE  /\ job' \in [Jobs -> Progress] /\ job'[p] = Idle
           /\ \A q \in Jobs \ {p} : job'[q] = job[q]
           /\ pass' \in Pass /\ pass' \in {pass, NoPass}
<1>1. job \in [Jobs -> Progress] /\ pass \in Pass  BY Types
<1> QED  BY <1>1, IdleFacts DEF Ends

LEMMA SameInputs ==
    ASSUME IInv, UNCHANGED <<row, run, worker>>
    PROVE  InputsRight' /\ RunsHold
BY DEF IInv, InputsRight, Is, RunsHold, Made, Touched

LEMMA SamePass ==
    ASSUME IInv, pass' \in {pass, NoPass}, now' \in Nat, now' >= now
    PROVE  /\ PassRight'
           /\ \A o \in pass'.todo : o \in pass.todo
<1>1. now \in Nat /\ pass.at \in Nat  BY Types DEF IInv, Pass
<1>2. CASE pass' = pass  BY <1>1, <1>2 DEF IInv, PassRight
<1>3. CASE pass' = NoPass  BY <1>1, <1>3, IdleFacts DEF PassRight
<1> QED  BY <1>2, <1>3

(* A step that leaves the ledger, the tasks and the orders alone.            *)
LEMMA LedgerSame ==
    ASSUME IInv, TypeOK', InputsRight', RunsHold, JobsHold,
           UNCHANGED <<task, occ, orders>>, now' >= now, pass' \in {pass, NoPass}
    PROVE  IInv'
<1>1. now' \in Nat /\ orders \in Nat
  BY Types, ScheduleAssumption DEF IInv, TypeOK
<1>2. PassRight' /\ \A o \in pass'.todo : o \in pass.todo  BY <1>1, SamePass
<1>3. LedgerHolds /\ \A t \in Tasks : Exists(t)' <=> Exists(t)  BY DEF LedgerHolds, Exists
<1> QED  BY <1>1, <1>2, <1>3, HoldStep

(* The jobs that carry out an occurrence.                                    *)
LEMMA JobOccurrence ==
    ASSUME IInv, NEW p \in Jobs, NEW phase, At(p, phase), phase \notin Resting
    PROVE  job[p].occ \in Synthetic
BY DEF IInv, JobsRight, At

LEMMA EnsureStep ==
    ASSUME IInv, NEW p \in Jobs, Ensure(p)
    PROVE  IInv'
<1>1. /\ TypeOK /\ job \in [Jobs -> Progress] /\ now \in Nat
      /\ anchor \in [Synthetic -> {"none", "queued", "sent", "failed"}]
  BY Types DEF IInv, TypeOK
<1>2. UNCHANGED <<now, row, run, acked, worker, troubles, task, occ, orders>>
  BY DEF Ensure, inputVars
<1>3. job[p].occ \in Synthetic  BY JobOccurrence DEF Ensure, Resting
<1>4. anchor' \in [Synthetic -> {"none", "queued", "sent", "failed"}]
  BY <1>1, <1>3 DEF Ensure
<1>5. /\ job' \in [Jobs -> Progress] /\ pass' \in Pass /\ pass' \in {pass, NoPass}
      /\ \A q \in Jobs \ {p} : job'[q] = job[q]
      /\ \/ job'[p].occ = job[p].occ
         \/ job'[p] = Idle
  <2>1. CASE Ends(p)  BY <1>1, <2>1, EndsFacts
  <2>2. CASE pass' = pass /\ (job' = To(p, "admit") \/ job' = To(p, "queue"))
    <3>1. "admit" \in Phases /\ "queue" \in Phases  BY DEF Phases
    <3>2. pass \in Pass  BY <1>1, Types
    <3> QED  BY <1>1, <2>2, <3>1, <3>2, JobFacts
  <2> QED  BY <2>1, <2>2 DEF Ensure
<1>6. TypeOK'  BY <1>1, <1>2, <1>4, <1>5 DEF TypeOK, InputTypeOK, Is, Jobs
<1>7. JobsHold  BY <1>3, <1>5, IdleFacts DEF JobsHold, Resting
<1>8. InputsRight' /\ RunsHold  BY <1>2, SameInputs
<1> QED  BY <1>1, <1>2, <1>5, <1>6, <1>7, <1>8, LedgerSame

LEMMA AdmitStep ==
    ASSUME IInv, NEW p \in Jobs, AdmitOccurrence(p)
    PROVE  IInv'
<1> DEFINE o == job[p].occ
<1>1. /\ TypeOK /\ job \in [Jobs -> Progress] /\ now \in Nat /\ row \in [Inputs -> SlackInput]
      /\ InputsRight /\ worker \in Handling /\ MaxFailures \in Nat \ {0}
  BY Types, InputAssumption DEF IInv
<1>2. /\ UNCHANGED <<now, run, acked, worker, troubles, task, occ, anchor, pass, orders>>
      /\ row' = Admitted(o, "processing") /\ job' = To(p, "queue")
  BY DEF AdmitOccurrence
<1>3. o \in Synthetic /\ o \in Inputs  BY JobOccurrence, Places DEF AdmitOccurrence, Resting
<1>4. /\ job' \in [Jobs -> Progress] /\ job'[p].occ = o
      /\ \A q \in Jobs \ {p} : job'[q] = job[q]
  BY <1>1, <1>2, JobFacts DEF Phases
<1> HIDE DEF o
<1>5. /\ row' \in [Inputs -> SlackInput] /\ row'[o].state # "absent"
      /\ row'[o] = row[o] \/ row'[o].failures = 0
      /\ \A j \in Inputs \ {o} : row'[j] = row[j]
  <2>1. "processing" \in Open  BY DEF Open
  <2> QED  BY <1>1, <1>2, <1>3, <2>1, AdmitFacts
<1>6. TypeOK'  BY <1>1, <1>2, <1>4, <1>5 DEF TypeOK, InputTypeOK, Jobs
<1>7. JobsHold  BY <1>3, <1>4 DEF JobsHold, o
<1>8. InputsRight'  BY <1>1, <1>2, <1>3, <1>5 DEF InputsRight, Is
<1>9. RunsHold
  <2>1. Touched(o)  BY DEF Touched, o
  <2>2. \A q \in Synthetic : q \in Inputs  BY Places
  <2>3. \A q \in Synthetic : q # o => (Made(q)' => Made(q))
    BY <1>2, <1>5, <2>2 DEF Made, Is
  <2> QED  BY <1>2, <2>1, <2>3 DEF RunsHold, Touched
<1> QED  BY <1>1, <1>2, <1>6, <1>7, <1>8, <1>9, LedgerSame

LEMMA QueueStep ==
    ASSUME IInv, NEW p \in Jobs, QueueOccurrence(p)
    PROVE  IInv'
<1> DEFINE o == job[p].occ
<1>1. /\ TypeOK /\ job \in [Jobs -> Progress] /\ now \in Nat
      /\ run \in [Synthetic -> {"none", "live", "ended"}]
  BY Types DEF IInv
<1>2. /\ UNCHANGED <<now, row, acked, worker, troubles, task, occ, anchor, pass, orders>>
      /\ run' = Queued(o) /\ (job' = To(p, "finish") \/ job' = To(p, "link"))
  BY DEF QueueOccurrence
<1>3. o \in Synthetic  BY JobOccurrence DEF QueueOccurrence, Resting
<1>4. /\ job' \in [Jobs -> Progress] /\ job'[p].occ = o
      /\ \A q \in Jobs \ {p} : job'[q] = job[q]
  BY <1>1, <1>2, JobFacts DEF Phases
<1>5. Touched(o)  BY DEF Touched
<1>6. JobsHold  BY <1>3, <1>4 DEF JobsHold
<1> HIDE DEF o
<1>7. /\ run' \in [Synthetic -> {"none", "live", "ended"}]
      /\ \A q \in Synthetic : run'[q] = run[q] \/ (q = o /\ run[q] = "none")
  BY <1>1, <1>2, <1>3 DEF Queued
<1>8. TypeOK'  BY <1>1, <1>2, <1>4, <1>7 DEF TypeOK, InputTypeOK, Jobs
<1>9. InputsRight'  BY <1>2 DEF IInv, InputsRight, Is
<1>10. RunsHold  BY <1>2, <1>5, <1>7 DEF RunsHold, Made, Touched, Is
<1> QED  BY <1>1, <1>2, <1>6, <1>8, <1>9, <1>10, LedgerSame

LEMMA FinishStep ==
    ASSUME IInv, NEW p \in Jobs, FinishOccurrence(p)
    PROVE  IInv'
<1> DEFINE o == job[p].occ
<1>1. /\ TypeOK /\ job \in [Jobs -> Progress] /\ now \in Nat /\ row \in [Inputs -> SlackInput]
      /\ InputsRight /\ pass \in Pass
  BY Types DEF IInv
<1>2. UNCHANGED <<now, run, acked, worker, troubles, task, occ, anchor, orders>>
  BY DEF FinishOccurrence
<1>3. o \in Synthetic /\ o \in Inputs  BY JobOccurrence, Places DEF FinishOccurrence, Resting
<1>4. CASE ~Finishable(o)
  <2>1. Ends(p) /\ row' = row  BY <1>4 DEF FinishOccurrence
  <2>2. /\ job' \in [Jobs -> Progress] /\ pass' \in Pass /\ pass' \in {pass, NoPass}
        /\ job'[p] = Idle /\ \A q \in Jobs \ {p} : job'[q] = job[q]
    BY <1>1, <2>1, EndsFacts
  <2>3. TypeOK'  BY <1>1, <1>2, <2>1, <2>2 DEF TypeOK, InputTypeOK, Jobs
  <2>4. JobsHold  BY <2>2, IdleFacts DEF JobsHold, Resting
  <2>5. InputsRight' /\ RunsHold  BY <1>2, <2>1, SameInputs
  <2> QED  BY <1>1, <1>2, <2>2, <2>3, <2>4, <2>5, LedgerSame
<1>5. CASE Finishable(o)
  <2>1. row' = Put(o, "done", FALSE) /\ job' = To(p, "link") /\ pass' = pass
    BY <1>5 DEF FinishOccurrence
  <2>2. /\ job' \in [Jobs -> Progress] /\ job'[p].occ = o
        /\ \A q \in Jobs \ {p} : job'[q] = job[q]
    BY <1>1, <2>1, JobFacts DEF Phases
  <2>3. JobsHold  BY <1>3, <2>2 DEF JobsHold
  <2> HIDE DEF o
  <2>4. /\ row' \in [Inputs -> SlackInput] /\ row'[o].state = "done"
        /\ \A j \in Inputs \ {o} : row'[j] = row[j]
    BY <1>1, <1>3, <2>1 DEF Put, SlackInput, Open
  <2>5. ~Is(o, {"absent"})  BY <1>5 DEF Finishable, Is
  <2>6. TypeOK'  BY <1>1, <1>2, <2>1, <2>2, <2>4 DEF TypeOK, InputTypeOK, Jobs
  <2>7. InputsRight'  BY <1>1, <1>2, <1>3, <2>4 DEF InputsRight, Is, Open
  <2>8. RunsHold
    <3>1. \A q \in Synthetic : q \in Inputs  BY Places
    <3> QED  BY <1>2, <2>4, <2>5, <3>1 DEF RunsHold, Made, Touched, Is
  <2> QED  BY <1>1, <1>2, <2>1, <2>3, <2>6, <2>7, <2>8, LedgerSame
<1> QED  BY <1>4, <1>5

LEMMA LinkStep ==
    ASSUME IInv, NEW p \in Jobs, Link(p)
    PROVE  IInv'
<1> DEFINE o == job[p].occ
<1>1. /\ TypeOK /\ job \in [Jobs -> Progress] /\ now \in Nat /\ orders \in Nat
      /\ occ \in [Synthetic -> {"none", "queued", "running", "ended", "skipped"}]
  BY Types DEF IInv
<1>2. UNCHANGED <<now, row, run, acked, worker, troubles, task, anchor, orders>>
  BY DEF Link, inputVars
<1>3. o \in Synthetic  BY JobOccurrence DEF Link, Resting
<1>4. InputsRight' /\ RunsHold  BY <1>2, SameInputs
<1>5. CASE occ[o] # "queued"
  <2>1. Ends(p) /\ occ' = occ  BY <1>5 DEF Link
  <2>2. /\ job' \in [Jobs -> Progress] /\ pass' \in Pass /\ pass' \in {pass, NoPass}
        /\ job'[p] = Idle /\ \A q \in Jobs \ {p} : job'[q] = job[q]
    BY <1>1, <2>1, EndsFacts
  <2>3. TypeOK'  BY <1>1, <1>2, <2>1, <2>2 DEF TypeOK, InputTypeOK, Is, Jobs
  <2>4. JobsHold  BY <2>2, IdleFacts DEF JobsHold, Resting
  <2> QED  BY <1>1, <1>2, <1>4, <2>1, <2>2, <2>3, <2>4, LedgerSame
<1>6. CASE occ[o] = "queued"
  <2>1. /\ occ' = [occ EXCEPT ![o] = "running"] /\ job' = [job EXCEPT ![p] = Goes(p)]
        /\ pass' = pass
    BY <1>6 DEF Link
  <2>2. Goes(p) \in Progress /\ Goes(p).occ = none /\ Goes(p).phase \in Resting
    BY IdleFacts DEF Goes, Progress, Resting
  <2>3. /\ job' \in [Jobs -> Progress] /\ job'[p] = Goes(p)
        /\ \A q \in Jobs \ {p} : job'[q] = job[q]
    BY <1>1, <2>1, <2>2
  <2>4. JobsHold  BY <2>2, <2>3 DEF JobsHold
  <2> HIDE DEF o
  <2>5. /\ occ' \in [Synthetic -> {"none", "queued", "running", "ended", "skipped"}]
        /\ LedgerHolds
    BY <1>1, <1>3, <1>6, <2>1 DEF LedgerHolds, Active
  <2>6. TypeOK'  BY <1>1, <1>2, <2>1, <2>3, <2>5 DEF TypeOK, InputTypeOK, Is, Jobs
  <2>7. PassRight' /\ \A q \in pass'.todo : q \in pass.todo  BY <1>1, <1>2, <2>1, SamePass
  <2>8. \A t \in Tasks : Exists(t)' <=> Exists(t)  BY <1>2 DEF Exists
  <2> QED  BY <1>1, <1>2, <1>4, <2>4, <2>5, <2>6, <2>7, <2>8, HoldStep
<1> QED  BY <1>5, <1>6

(* A job that fails, a pass that is over, and a restart.                     *)
LEMMA EndStep ==
    ASSUME IInv, NEW p \in Jobs, Trouble(p) \/ (p = "drain" /\ EndPass)
    PROVE  IInv'
<1>1. TypeOK /\ now \in Nat /\ troubles \in 0..MaxTroubles /\ MaxTroubles \in Nat
  BY Types, InputAssumption DEF IInv
<1>2. UNCHANGED <<now, row, run, acked, worker, task, occ, anchor, orders>> /\ Ends(p)
  BY DEF Trouble, EndPass, inputVars
<1>3. /\ job' \in [Jobs -> Progress] /\ pass' \in Pass /\ pass' \in {pass, NoPass}
      /\ job'[p] = Idle /\ \A q \in Jobs \ {p} : job'[q] = job[q]
  BY <1>1, <1>2, EndsFacts
<1>4. troubles' \in 0..MaxTroubles  BY <1>1 DEF Trouble, EndPass
<1>5. TypeOK'  BY <1>1, <1>2, <1>3, <1>4 DEF TypeOK, InputTypeOK, Is, Jobs
<1>6. JobsHold  BY <1>3, IdleFacts DEF JobsHold, Resting
<1>7. InputsRight' /\ RunsHold  BY <1>2, SameInputs
<1> QED  BY <1>1, <1>2, <1>3, <1>5, <1>6, <1>7, LedgerSame

LEMMA RestartStep ==
    ASSUME IInv, Restart
    PROVE  IInv'
<1>1. /\ TypeOK /\ now \in Nat /\ troubles \in 0..MaxTroubles /\ MaxTroubles \in Nat
      /\ row \in [Inputs -> SlackInput] /\ InputsRight /\ job \in [Jobs -> Progress]
      /\ DOMAIN job = Jobs
  BY Types, InputAssumption DEF IInv
<1>2. /\ UNCHANGED <<now, run, acked, task, occ, anchor, orders>> /\ row' = Recovered
      /\ worker' = Rest /\ pass' = NoPass /\ troubles' \in 0..MaxTroubles
  BY <1>1 DEF Restart
<1>3. job' \in [Jobs -> Progress] /\ \A p \in Jobs : job'[p] = Idle
  BY <1>1, IdleFacts DEF Restart
<1>4. /\ row' \in [Inputs -> SlackInput]
      /\ \A i \in Inputs : /\ row'[i].failures = row[i].failures
                           /\ row'[i].state \in Open => row[i].state \in Open
                           /\ row'[i].state = "absent" <=> row[i].state = "absent"
  <2> DEFINE new(i) == [row[i] EXCEPT !.state = "retry", !.due = TRUE]
  <2>1. ASSUME NEW i \in Inputs
        PROVE  new(i) \in SlackInput /\ new(i).state = "retry" /\ new(i).failures = row[i].failures
    <3>1. row[i] \in SlackInput  BY <1>1
    <3> QED  BY <3>1 DEF SlackInput, Open
  <2>2. row' = [i \in Inputs |-> IF Is(i, {"processing"}) THEN new(i) ELSE row[i]]
    BY <1>2, Zenon DEF Recovered
  <2> HIDE DEF new
  <2>3. row' \in [Inputs -> SlackInput]  BY <1>1, <2>1, <2>2
  <2>4. \A i \in Inputs : Is(i, {"processing"}) <=> row[i].state = "processing"  BY DEF Is
  <2> QED  BY <2>1, <2>2, <2>3, <2>4 DEF Open
<1>5. Rest \in Handling /\ Rest.phase = "idle"  BY DEF Rest, Handling
<1>6. TypeOK'  BY <1>1, <1>2, <1>3, <1>4, <1>5, IdleFacts DEF TypeOK, InputTypeOK, Jobs
<1>7. JobsHold  BY <1>3, IdleFacts DEF JobsHold, Resting
<1>8. InputsRight'  BY <1>1, <1>2, <1>4, <1>5 DEF InputsRight, Is
<1>9. RunsHold
  <2>1. \A q \in Synthetic : q \in Inputs  BY Places
  <2> QED  BY <1>2, <1>4, <2>1 DEF RunsHold, Made, Touched, Is
<1> QED  BY <1>1, <1>2, <1>6, <1>7, <1>8, <1>9, LedgerSame

(* The steps of the inputs, of the outbox, of the runs and of the clock.     *)
LEMMA WorldStep ==
    ASSUME IInv,
           \/ Tick
           \/ \E o \in Synthetic : PostAnchor(o) \/ EndRun(o)
           \/ Apart(InputNext)
           \/ \E i \in Inputs : Apart(StaleInput(i))
    PROVE  IInv'
<1>1. /\ TypeOK /\ now \in Nat /\ Horizon \in Nat /\ job \in [Jobs -> Progress]
      /\ run \in [Synthetic -> {"none", "live", "ended"}] /\ pass \in Pass
      /\ anchor \in [Synthetic -> {"none", "queued", "sent", "failed"}]
      /\ now \in 0..Horizon
  BY Types, ScheduleAssumption DEF IInv, TypeOK
<1>2. UNCHANGED <<task, occ, job, pass, orders>>
  BY DEF Tick, PostAnchor, EndRun, Apart, scheduleVars
<1>3. JobsHold  BY <1>2 DEF JobsHold
<1>4. now' \in 0..Horizon /\ now' \in Nat /\ now' >= now
  BY <1>1 DEF Tick, PostAnchor, EndRun, Apart
<1>5. /\ InputTypeOK' /\ InputsRight' /\ RunsHold
      /\ anchor' \in [Synthetic -> {"none", "queued", "sent", "failed"}]
  <2>1. CASE Tick
    <3>1. UNCHANGED <<row, run, acked, worker, troubles, anchor>>
      BY <2>1 DEF Tick, inputVars, scheduleVars
    <3> QED  BY <1>1, <3>1, SameInputs DEF TypeOK, InputTypeOK
  <2>2. ASSUME NEW o \in Synthetic, PostAnchor(o)
        PROVE  /\ InputTypeOK' /\ InputsRight' /\ RunsHold
               /\ anchor' \in [Synthetic -> {"none", "queued", "sent", "failed"}]
    <3>1. UNCHANGED <<row, run, acked, worker, troubles>>  BY <2>2 DEF PostAnchor, inputVars
    <3>2. \E s \in {"sent", "failed"} : anchor' = [anchor EXCEPT ![o] = s]
      BY <2>2 DEF PostAnchor
    <3> QED  BY <1>1, <3>1, <3>2, SameInputs DEF TypeOK, InputTypeOK
  <2>3. ASSUME NEW o \in Synthetic, EndRun(o)
        PROVE  /\ InputTypeOK' /\ InputsRight' /\ RunsHold
               /\ anchor' \in [Synthetic -> {"none", "queued", "sent", "failed"}]
    <3>1. /\ UNCHANGED <<row, acked, worker, troubles, anchor>>
          /\ run[o] = "live" /\ run' = [run EXCEPT ![o] = "ended"]
      BY <2>3 DEF EndRun, scheduleVars
    <3>2. RunsHold  BY <1>1, <3>1 DEF RunsHold, Made, Touched, Is
    <3>3. InputsRight'  BY <3>1 DEF IInv, InputsRight, Is
    <3>4. run' \in [Synthetic -> {"none", "live", "ended"}]  BY <1>1, <3>1
    <3> QED  BY <1>1, <3>1, <3>2, <3>3, <3>4 DEF TypeOK, InputTypeOK
  <2>4. CASE Apart(InputNext) \/ \E i \in Inputs : Apart(StaleInput(i))
    <3>1. (InputNext \/ \E i \in Inputs : Stale(i)) /\ now' = now /\ anchor' = anchor
      BY <2>4 DEF Apart, StaleInput, scheduleVars
    <3> QED  BY <1>1, <3>1, InputStep
  <2> QED  BY <2>1, <2>2, <2>3, <2>4
<1>6. TypeOK'  BY <1>1, <1>2, <1>4, <1>5 DEF TypeOK
<1> QED  BY <1>2, <1>3, <1>4, <1>5, <1>6, LedgerSame
-----------------------------------------------------------------------------
(* The drain reads what is under way, ...                                    *)
LEMMA BeginStep ==
    ASSUME IInv, BeginPass
    PROVE  IInv'
<1>1. /\ TypeOK /\ job \in [Jobs -> Progress] /\ now \in Nat /\ orders \in Nat
      /\ occ \in [Synthetic -> {"none", "queued", "running", "ended", "skipped"}]
  BY Types DEF IInv
<1>2. /\ UNCHANGED <<now, row, run, acked, worker, troubles, task, occ, anchor, orders>>
      /\ job' = To("drain", "reconcile")
  BY DEF BeginPass, inputVars
<1>3. /\ pass' \in Pass /\ pass'.at = now /\ pass'.due = {}
      /\ \A o \in pass'.todo : occ[o] \in Active
  BY <1>1 DEF BeginPass, Pass
<1>4. /\ job' \in [Jobs -> Progress] /\ job'["drain"].phase = "reconcile"
      /\ job'["drain"].occ = job["drain"].occ /\ job'["button"] = job["button"]
      /\ job["drain"].occ \in Synthetic \cup {none}
  <2>1. "drain" \in Jobs /\ "reconcile" \in Phases /\ "button" \in Jobs
    BY DEF Jobs, Phases, Resting
  <2> QED  BY <1>1, <1>2, <2>1, JobFacts DEF Progress
<1>5. JobsHold  BY <1>4 DEF JobsHold, Jobs, Resting
<1>6. TypeOK'  BY <1>1, <1>2, <1>3, <1>4 DEF TypeOK, InputTypeOK, Is, Jobs
<1>7. InputsRight' /\ RunsHold  BY <1>2, SameInputs
<1>8. PassRight'  BY <1>1, <1>2, <1>3 DEF PassRight
<1>9. LedgerHolds /\ \A t \in Tasks : Exists(t)' <=> Exists(t)
  BY <1>2 DEF LedgerHolds, Exists
<1>10. (\A o \in pass'.todo : o \in pass.todo \/ occ'[o] \in Active) /\ orders' >= orders
  BY <1>1, <1>2, <1>3
<1> QED  BY <1>5, <1>6, <1>7, <1>8, <1>9, <1>10, HoldStep

(* ... goes through it, ...                                                  *)
LEMMA ReconcileStep ==
    ASSUME IInv, NEW o \in Synthetic, Reconcile(o)
    PROVE  IInv'
<1>1. /\ TypeOK /\ job \in [Jobs -> Progress] /\ now \in Nat /\ orders \in Nat /\ pass \in Pass
      /\ occ \in [Synthetic -> {"none", "queued", "running", "ended", "skipped"}]
      /\ PassRight /\ OccurrenceRight(o)
  BY Types DEF IInv
<1>2. /\ UNCHANGED <<now, row, run, acked, worker, troubles, task, anchor, orders>>
      /\ o \in pass.todo
      /\ pass' = [pass EXCEPT !.todo = pass.todo \ {o}, !.bound = pass.bound \ {o}]
  BY DEF Reconcile, inputVars
<1>3. /\ pass' \in Pass /\ pass'.at = pass.at /\ pass'.due = pass.due
      /\ pass'.todo = pass.todo \ {o}
  BY <1>1, <1>2 DEF Pass
<1>4. InputsRight' /\ RunsHold  BY <1>2, SameInputs
<1>5. PassRight'  BY <1>1, <1>2, <1>3 DEF PassRight
<1>6. /\ \A t \in Tasks : Exists(t)' <=> Exists(t)
      /\ \A q \in pass'.todo : q \in pass.todo \/ occ'[q] \in Active
      /\ orders' >= orders
  BY <1>1, <1>2, <1>3 DEF Exists
<1>7. /\ JobsHold /\ LedgerHolds
      /\ job' \in [Jobs -> Progress]
      /\ occ' \in [Synthetic -> {"none", "queued", "running", "ended", "skipped"}]
  <2>1. CASE /\ Exists(o[1]) /\ occ' = occ
             /\ job' = [job EXCEPT !["drain"] = [phase |-> "ensure", occ |-> o]]
    <3> DEFINE new == [phase |-> "ensure", occ |-> o]
    <3>1. new \in Progress /\ new.occ = o  BY DEF Progress
    <3>2. job' = [job EXCEPT !["drain"] = new]  BY <2>1
    <3> HIDE DEF new
    <3>3. /\ job' \in [Jobs -> Progress] /\ job'["drain"].occ = o
          /\ job'["button"] = job["button"]
      BY <1>1, <3>1, <3>2 DEF Jobs
    <3>4. occ[o] \in Active  BY <1>1, <1>2, <2>1 DEF OccurrenceRight
    <3>5. JobsHold  BY <2>1, <3>3, <3>4 DEF JobsHold, Jobs
    <3> QED  BY <1>1, <2>1, <3>3, <3>5 DEF LedgerHolds
  <2>2. CASE run[o] = "ended" /\ occ[o] \in Active /\ occ' = [occ EXCEPT ![o] = "ended"] /\ job' = job
    <3>1. /\ occ'[o] = "ended" /\ \A q \in Synthetic : q # o => occ'[q] = occ[q]
          /\ occ' \in [Synthetic -> {"none", "queued", "running", "ended", "skipped"}]
      BY <1>1, <2>2
    <3>2. LedgerHolds  BY <1>2, <1>3, <2>2, <3>1 DEF LedgerHolds
    <3> QED  BY <1>1, <2>2, <3>1, <3>2 DEF JobsHold
  <2>3. CASE occ' = occ /\ job' = job
    BY <1>1, <2>3 DEF JobsHold, LedgerHolds
  <2> QED  BY <2>1, <2>2, <2>3 DEF Reconcile, Completed
<1>8. TypeOK'  BY <1>1, <1>2, <1>3, <1>7 DEF TypeOK, InputTypeOK, Is, Jobs
<1> QED  BY <1>4, <1>5, <1>6, <1>7, <1>8, HoldStep

(* ... and reads the tasks that are due.                                     *)
LEMMA ListStep ==
    ASSUME IInv, ListDue
    PROVE  IInv'
<1>1. /\ TypeOK /\ job \in [Jobs -> Progress] /\ now \in Nat /\ orders \in Nat /\ pass \in Pass
      /\ occ \in [Synthetic -> {"none", "queued", "running", "ended", "skipped"}]
      /\ PassRight /\ task \in [Tasks -> Scheduled] /\ "drain" \in Jobs
  BY Types DEF IInv, Jobs
<1>2. UNCHANGED <<now, row, run, acked, worker, troubles, task, occ, anchor, orders>>
  BY DEF ListDue, inputVars
<1>3. InputsRight' /\ RunsHold  BY <1>2, SameInputs
<1>4. CASE Ends("drain")
  <2>1. /\ job' \in [Jobs -> Progress] /\ pass' \in Pass /\ pass' \in {pass, NoPass}
        /\ job'["drain"] = Idle /\ \A q \in Jobs \ {"drain"} : job'[q] = job[q]
    BY <1>1, <1>4, EndsFacts
  <2>2. TypeOK'  BY <1>1, <1>2, <2>1 DEF TypeOK, InputTypeOK, Is, Jobs
  <2>3. JobsHold  BY <2>1, IdleFacts DEF JobsHold, Resting
  <2> QED  BY <1>1, <1>2, <1>3, <2>1, <2>2, <2>3, LedgerSame
<1>5. CASE ~Ends("drain")
  <2> DEFINE due == {Snapshot(t) : t \in {u \in Tasks : Due(u, pass.at)}}
  <2>1. pass' = [pass EXCEPT !.listed = TRUE, !.due = due] /\ job' = To("drain", "due")
    BY <1>5 DEF ListDue
  <2>2. ASSUME NEW t \in Tasks, Due(t, pass.at)
        PROVE  /\ Snapshot(t) \in Reading /\ Snapshot(t).def \in Definitions(t)
               /\ Snapshot(t).task = t /\ Snapshot(t).next \in 1..pass.at
    <3>1. task[t] \in Scheduled /\ task[t].def \in Definitions(t)  BY <1>1 DEF TypeOK
    <3>2. pass.at \in Nat /\ task[t].next # 0 /\ task[t].next <= pass.at
      BY <1>1, <2>2 DEF Due, Pass, Never
    <3> QED  BY <3>1, <3>2 DEF Snapshot, Reading, Scheduled
  <2>3. /\ due \in SUBSET Reading
        /\ \A s \in due : s.def \in Definitions(s.task) /\ s.next \in 1..pass.at
    BY <2>2
  <2> HIDE DEF due
  <2>4. pass' \in Pass /\ pass'.at = pass.at /\ pass'.due = due /\ pass'.todo = pass.todo
    BY <1>1, <2>1, <2>3 DEF Pass
  <2>5. /\ job' \in [Jobs -> Progress] /\ job'["drain"].phase = "due"
        /\ job'["drain"].occ = job["drain"].occ /\ \A q \in Jobs \ {"drain"} : job'[q] = job[q]
        /\ job["drain"].occ \in Synthetic \cup {none}
    <3>1. "due" \in Phases  BY DEF Phases, Resting
    <3> QED  BY <1>1, <2>1, <3>1, JobFacts DEF Progress
  <2>6. JobsHold  BY <2>5 DEF JobsHold, Resting
  <2>7. TypeOK'  BY <1>1, <1>2, <2>4, <2>5 DEF TypeOK, InputTypeOK, Is, Jobs
  <2>8. PassRight'  BY <1>1, <1>2, <2>3, <2>4 DEF PassRight
  <2>9. LedgerHolds /\ \A t \in Tasks : Exists(t)' <=> Exists(t)
    BY <1>2 DEF LedgerHolds, Exists
  <2>10. (\A o \in pass'.todo : o \in pass.todo \/ occ'[o] \in Active) /\ orders' >= orders
    BY <1>1, <1>2, <2>4
  <2> QED  BY <1>3, <2>6, <2>7, <2>8, <2>9, <2>10, HoldStep
<1> QED  BY <1>4, <1>5
-----------------------------------------------------------------------------
LEMMA FollowingFacts ==
    ASSUME NEW s \in Reading, NEW allowed \in BOOLEAN, pass.at \in Nat
    PROVE  /\ Following(s, allowed) \in Nat
           /\ Following(s, allowed) = Never \/ Following(s, allowed) < s.def.expires
<1> DEFINE d == s.def
           after == pass.at
<1>1. d.every \in Nat /\ d.start \in Nat \ {0} /\ d.expires \in Nat /\ after \in Nat
  BY DEF Reading, Schedule
<1>2. NextOccurrence(d, after) \in Nat
  <2> HIDE DEF d, after
  <2>1. CASE d.every = 0  BY <2>1 DEF NextOccurrence, Never
  <2>2. CASE d.every > 0 /\ d.start > after  BY <1>1, <2>2 DEF NextOccurrence
  <2>3. CASE d.every > 0 /\ ~(d.start > after)
    <3> DEFINE q == (after - d.start) \div d.every
    <3>1. q \in Nat  BY <1>1, <2>3
    <3>2. NextOccurrence(d, after) = d.start + (q + 1) * d.every
      BY <1>1, <2>3 DEF NextOccurrence
    <3> HIDE DEF q
    <3>3. (q + 1) * d.every \in Nat  BY <1>1, <3>1
    <3> QED  BY <1>1, <3>2, <3>3
  <2> QED  BY <1>1, <2>1, <2>2, <2>3
<1>3. \/ Following(s, allowed) = NextOccurrence(d, after) /\ NextOccurrence(d, after) < d.expires
      \/ Following(s, allowed) = Never
  BY DEF Following
<1> QED  BY <1>2, <1>3 DEF Never

(* An occurrence that fell due, as the drain read it.                        *)
LEMMA ClaimStep ==
    ASSUME IInv, NEW s \in pass.due, NEW allowed \in BOOLEAN, Claim(s, allowed)
    PROVE  IInv'
<1> DEFINE o == <<s.task, s.next, 0>>
           t == s.task
<1>1. /\ TypeOK /\ job \in [Jobs -> Progress] /\ now \in Nat /\ orders \in Nat /\ pass \in Pass
      /\ occ \in [Synthetic -> {"none", "queued", "running", "ended", "skipped"}]
      /\ PassRight /\ task \in [Tasks -> Scheduled] /\ "drain" \in Jobs
      /\ now \in 0..Horizon /\ Horizon \in Nat /\ MaxOrders \in Nat /\ 0 \in 0..MaxOrders
  BY Types, ScheduleAssumption DEF IInv, Jobs, TypeOK
<1>2. UNCHANGED <<now, row, run, acked, worker, troubles, anchor, orders>>
  BY DEF Claim, inputVars
<1>3. InputsRight' /\ RunsHold  BY <1>2, SameInputs
<1>4. /\ s \in Reading /\ t \in Tasks /\ s.def \in Definitions(t) /\ s.next \in 1..pass.at
      /\ pass.at \in Nat /\ pass.at <= now
  BY <1>1 DEF Pass, PassRight, Reading
<1>5. s.next \in 1..Horizon  BY <1>1, <1>4
<1>6. o \in Synthetic /\ o[1] = t /\ o[3] = 0  BY <1>1, <1>4, <1>5, Places
<1>7. CASE Ends("drain") /\ UNCHANGED <<task, occ>>
  <2>1. /\ job' \in [Jobs -> Progress] /\ pass' \in Pass /\ pass' \in {pass, NoPass}
        /\ job'["drain"] = Idle /\ \A q \in Jobs \ {"drain"} : job'[q] = job[q]
    BY <1>1, <1>7, EndsFacts
  <2>2. TypeOK'  BY <1>1, <1>2, <1>7, <2>1 DEF TypeOK, InputTypeOK, Is, Jobs
  <2>3. JobsHold  BY <2>1, IdleFacts DEF JobsHold, Resting
  <2> QED  BY <1>1, <1>2, <1>3, <1>7, <2>1, <2>2, <2>3, LedgerSame
<1>8. ASSUME Exists(t), pass' = [pass EXCEPT !.due = pass.due \ {s}]
      PROVE  /\ pass' \in Pass /\ pass'.at = pass.at /\ pass'.todo = pass.todo
             /\ PassRight'
  <2>1. /\ pass' \in Pass /\ pass'.at = pass.at /\ pass'.todo = pass.todo
        /\ pass'.due = pass.due \ {s}
    BY <1>1, <1>8 DEF Pass
  <2> QED  BY <1>1, <1>2, <2>1 DEF PassRight
<1>9. CASE /\ Exists(t) /\ pass' = [pass EXCEPT !.due = pass.due \ {s}]
           /\ UNCHANGED <<task, occ, job>>
  <2>1. pass' \in Pass /\ pass'.todo = pass.todo /\ PassRight'  BY <1>8, <1>9
  <2>2. TypeOK'  BY <1>1, <1>2, <1>9, <2>1 DEF TypeOK, InputTypeOK, Is
  <2>3. JobsHold /\ LedgerHolds /\ \A u \in Tasks : Exists(u)' <=> Exists(u)
    BY <1>9 DEF JobsHold, LedgerHolds, Exists
  <2> QED  BY <1>1, <1>2, <1>3, <2>1, <2>2, <2>3, HoldStep
<1> DEFINE outcome == Outcome(t, allowed /\ (s.def.latest \/ pass.at <= s.next + Grace))
           next == Following(s, allowed)
           state == IF next # Never THEN "on" ELSE "off"
           begun == [phase |-> "ensure", occ |-> o]
<1>10. CASE /\ Exists(t) /\ pass' = [pass EXCEPT !.due = pass.due \ {s}]
            /\ occ[o] = "none" /\ occ' = [occ EXCEPT ![o] = outcome]
            /\ task' = [task EXCEPT ![t].next = next, ![t].state = state]
            /\ job' = IF outcome = "queued" THEN [job EXCEPT !["drain"] = begun] ELSE job
  <2>1. outcome \in {"queued", "skipped"} /\ (outcome = "queued" => ~Overlaps(t))
    BY DEF Outcome
  <2>2. next \in Nat /\ (next = Never \/ next < s.def.expires)
    BY <1>4, FollowingFacts
  <2>3. state \in {"on", "off"}  OBVIOUS
  <2>4. begun \in Progress /\ begun.occ = o  BY <1>6 DEF Progress
  <2>5. pass' \in Pass /\ pass'.todo = pass.todo /\ PassRight'  BY <1>8, <1>10
  <2> HIDE DEF outcome, next, state, begun, o, t
  <2>6. /\ task' \in [Tasks -> Scheduled] /\ task'[t].def = task[t].def
        /\ task'[t].next = next /\ task'[t].state = state
        /\ \A u \in Tasks \ {t} : task'[u] = task[u]
    BY <1>1, <1>4, <1>10, <2>2, <2>3 DEF Scheduled
  <2>7. \A u \in Tasks :
          /\ task'[u].def \in Definitions(u)
          /\ task'[u].next = Never \/ \E d \in Definitions(u) : task'[u].next < d.expires
    BY <1>1, <1>4, <2>2, <2>6 DEF TypeOK
  <2>8. \A u \in Tasks : Exists(u)' <=> Exists(u)
    BY <1>10, <2>3, <2>6 DEF Exists
  <2>9. /\ job' \in [Jobs -> Progress]
        /\ \A p \in Jobs : job'[p] = job[p] \/ (outcome = "queued" /\ job'[p].occ = o)
    BY <1>1, <1>10, <2>4
  <2>10. occ' \in [Synthetic -> {"none", "queued", "running", "ended", "skipped"}]
    BY <1>1, <1>6, <1>10, <2>1
  <2>11. TypeOK'
    BY <1>1, <1>2, <2>5, <2>6, <2>7, <2>9, <2>10 DEF TypeOK, InputTypeOK, Is, Jobs
  <2>12. Exists(o[1]) /\ o[3] <= orders' /\ orders' >= orders
         /\ (outcome = "queued" => ~Overlaps(o[1]))
    BY <1>1, <1>2, <1>6, <1>10, <2>1
  <2>13. UNCHANGED <<row, run, worker>> /\ pass'.todo \subseteq pass.todo  BY <1>2, <2>5
  <2> QED  BY <1>6, <1>10, <2>1, <2>5, <2>8, <2>9, <2>11, <2>12, <2>13, NewStep
<1> QED  BY <1>7, <1>9, <1>10 DEF Claim
-----------------------------------------------------------------------------
(* What operators order.                                                     *)
LEMMA RunNowStep ==
    ASSUME IInv, NEW t \in Tasks, RunNow(t)
    PROVE  IInv'
<1> DEFINE o == <<t, now, orders + 1>>
           outcome == Outcome(t, TRUE)
           begun == [phase |-> "ensure", occ |-> o]
<1>1. /\ TypeOK /\ job \in [Jobs -> Progress] /\ now \in Nat /\ orders \in Nat /\ pass \in Pass
      /\ occ \in [Synthetic -> {"none", "queued", "running", "ended", "skipped"}]
      /\ PassRight /\ "button" \in Jobs /\ MaxOrders \in Nat
      /\ now \in 0..Horizon /\ Horizon \in Nat
  BY Types, ScheduleAssumption DEF IInv, Jobs, TypeOK
<1>2. /\ UNCHANGED <<now, row, run, acked, worker, troubles, task, anchor, pass>>
      /\ Exists(t) /\ now > 0 /\ orders < MaxOrders /\ orders' = orders + 1
      /\ occ' = [occ EXCEPT ![o] = outcome]
      /\ job' = IF outcome = "queued" THEN [job EXCEPT !["button"] = begun] ELSE job
  BY DEF RunNow, Ordered, inputVars
<1>3. orders' \in 0..MaxOrders /\ now \in 1..Horizon /\ orders' > orders  BY <1>1, <1>2
<1>4. o \in Synthetic /\ o[1] = t /\ o[3] = orders + 1  BY <1>2, <1>3, Places
<1>5. outcome \in {"queued", "skipped"} /\ (outcome = "queued" => ~Overlaps(t))
  BY DEF Outcome
<1>6. begun \in Progress /\ begun.occ = o  BY <1>4 DEF Progress
<1> HIDE DEF outcome, begun, o
<1>7. /\ job' \in [Jobs -> Progress]
      /\ \A p \in Jobs : job'[p] = job[p] \/ (outcome = "queued" /\ job'[p].occ = o)
  BY <1>1, <1>2, <1>6
<1>8. occ' \in [Synthetic -> {"none", "queued", "running", "ended", "skipped"}]
  BY <1>1, <1>2, <1>4, <1>5
<1>9. TypeOK'  BY <1>1, <1>2, <1>3, <1>7, <1>8 DEF TypeOK, InputTypeOK, Is, Jobs
<1>10. occ[o] = "none"
  <2>1. OccurrenceRight(o)  BY <1>4 DEF IInv
  <2> QED  BY <1>1, <1>4, <2>1 DEF OccurrenceRight
<1>11. /\ Exists(o[1]) /\ o[3] <= orders' /\ orders' >= orders
       /\ (outcome = "queued" => ~Overlaps(o[1]))
       /\ \A u \in Tasks : Exists(u)' <=> Exists(u)
  BY <1>1, <1>2, <1>4, <1>5 DEF Exists
<1>12. PassRight'  BY <1>1, <1>2 DEF PassRight
<1>13. UNCHANGED <<row, run, worker>> /\ pass'.todo \subseteq pass.todo  BY <1>2
<1> QED  BY <1>2, <1>4, <1>5, <1>7, <1>9, <1>10, <1>11, <1>12, <1>13, NewStep

LEMMA OperateStep ==
    ASSUME IInv, NEW t \in Tasks, Toggle(t) \/ Accept(t)
    PROVE  IInv'
<1>1. /\ TypeOK /\ now \in Nat /\ orders \in Nat /\ pass \in Pass
      /\ task \in [Tasks -> Scheduled] /\ PassRight /\ MaxOrders \in Nat
  BY Types, ScheduleAssumption DEF IInv
<1>2. /\ UNCHANGED <<now, row, run, acked, worker, troubles, occ, anchor, job, pass>>
      /\ orders < MaxOrders /\ orders' = orders + 1
  BY DEF Toggle, Accept, Ordered, inputVars
<1>3. orders' \in 0..MaxOrders /\ orders' >= orders  BY <1>1, <1>2
<1>4. /\ task' \in [Tasks -> Scheduled]
      /\ \A u \in Tasks \ {t} : task'[u] = task[u]
      /\ Exists(t) /\ task'[t].state # "deleted"
      /\ task'[t].def \in Definitions(t)
      /\ task'[t].next = Never \/ \E d \in Definitions(t) : task'[t].next < d.expires
  <2>1. CASE \E state \in {"on", "off"} : /\ task' = [task EXCEPT ![t].state = state]
                                          /\ Exists(t)
    <3>1. PICK state \in {"on", "off"} : task' = [task EXCEPT ![t].state = state]  BY <2>1
    <3>2. /\ task' \in [Tasks -> Scheduled] /\ task'[t].state = state
          /\ task'[t].def = task[t].def /\ task'[t].next = task[t].next
          /\ \A u \in Tasks \ {t} : task'[u] = task[u]
      BY <1>1, <3>1 DEF Scheduled
    <3> QED  BY <1>1, <2>1, <3>2 DEF TypeOK
  <2>2. CASE Accept(t)
    <3> DEFINE new == [state |-> "on", def |-> Replacement[t], next |-> Replacement[t].start]
    <3>1. Replacement[t] \in Schedule  BY ScheduleAssumption
    <3>2. /\ new \in Scheduled /\ new.state = "on" /\ new.def = Replacement[t]
          /\ new.next = Replacement[t].start
      BY <3>1 DEF Scheduled, Schedule
    <3>3. /\ task' = [task EXCEPT ![t] = new] /\ Exists(t)
          /\ Replacement[t].start < Replacement[t].expires
      BY <2>2 DEF Accept
    <3> HIDE DEF new
    <3>4. /\ task' \in [Tasks -> Scheduled] /\ task'[t] = new
          /\ \A u \in Tasks \ {t} : task'[u] = task[u]
      BY <1>1, <3>2, <3>3
    <3>5. Replacement[t] \in Definitions(t)  BY DEF Definitions
    <3> QED  BY <3>2, <3>3, <3>4, <3>5
  <2>3. CASE Toggle(t)
    <3>1. Exists(t)  BY <2>3 DEF Toggle, Exists
    <3> QED  BY <2>1, <2>3, <3>1 DEF Toggle
  <2> QED  BY <2>2, <2>3
<1>5. \A u \in Tasks : Exists(u)' <=> Exists(u)  BY <1>4 DEF Exists
<1>6. TypeOK'  BY <1>1, <1>2, <1>3, <1>4 DEF TypeOK, InputTypeOK, Is
<1>7. PassRight'  BY <1>1, <1>2 DEF PassRight
<1>8. JobsHold /\ LedgerHolds  BY <1>2 DEF JobsHold, LedgerHolds
<1>9. InputsRight' /\ RunsHold  BY <1>2, SameInputs
<1>10. \A o \in pass'.todo : o \in pass.todo  BY <1>2
<1> QED  BY <1>3, <1>5, <1>6, <1>7, <1>8, <1>9, <1>10, HoldStep

LEMMA DeleteStep ==
    ASSUME IInv, NEW t \in Tasks, Delete(t)
    PROVE  IInv'
<1>1. /\ TypeOK /\ now \in Nat /\ orders \in Nat /\ pass \in Pass
      /\ occ \in [Synthetic -> {"none", "queued", "running", "ended", "skipped"}]
      /\ task \in [Tasks -> Scheduled] /\ PassRight /\ MaxOrders \in Nat
  BY Types, ScheduleAssumption DEF IInv
<1>2. /\ UNCHANGED <<now, row, run, acked, worker, troubles, anchor, job, pass>>
      /\ orders < MaxOrders /\ orders' = orders + 1
      /\ task' = [task EXCEPT ![t].state = "deleted"]
      /\ occ' = [o \in Synthetic |-> IF o[1] = t THEN "none" ELSE occ[o]]
  BY DEF Delete, Ordered, inputVars
<1>3. orders' \in 0..MaxOrders /\ orders' \in Nat /\ orders' > orders  BY <1>1, <1>2
<1>4. /\ task' \in [Tasks -> Scheduled] /\ task'[t].state = "deleted"
      /\ task'[t].def = task[t].def /\ task'[t].next = task[t].next
      /\ \A u \in Tasks \ {t} : task'[u] = task[u]
  BY <1>1, <1>2 DEF Scheduled
<1>5. \A u \in Tasks : /\ task'[u].def \in Definitions(u)
                       /\ task'[u].next = Never \/ \E d \in Definitions(u) : task'[u].next < d.expires
  BY <1>1, <1>4 DEF TypeOK
<1>6. occ' \in [Synthetic -> {"none", "queued", "running", "ended", "skipped"}]
  BY <1>1, <1>2
<1>7. TypeOK'  BY <1>1, <1>2, <1>3, <1>4, <1>5, <1>6 DEF TypeOK, InputTypeOK, Is
<1>8. /\ InputsRight' /\ JobsRight' /\ PassRight'
  BY <1>1, <1>2 DEF IInv, InputsRight, Is, JobsRight, PassRight
<1>9. \A o \in Synthetic : Touched(o)' = Touched(o) /\ UnderWay(o)' = UnderWay(o)
  BY <1>2 DEF Touched, Made, Is, UnderWay
<1>10. ASSUME NEW o \in Synthetic PROVE OccurrenceRight(o)'
  <2>1. OccurrenceRight(o) /\ o[1] \in Tasks /\ o[3] \in Nat
    BY Places, ScheduleAssumption DEF IInv
  <2>2. CASE o[1] = t
    <3>1. occ'[o] = "none" /\ ~Exists(o[1])'  BY <1>2, <1>4, <2>2 DEF Exists
    <3> QED  BY <3>1 DEF OccurrenceRight
  <2>3. CASE o[1] # t
    <3>1. occ'[o] = occ[o] /\ (Exists(o[1])' <=> Exists(o[1])) /\ (Touched(o)' <=> Touched(o))
      BY <1>2, <1>4, <1>9, <2>1, <2>3 DEF Exists
    <3> QED  BY <1>1, <1>2, <1>3, <2>1, <3>1 DEF OccurrenceRight
  <2> QED  BY <2>2, <2>3
<1>11. OneActive'
  <2>1. \A o \in Synthetic : occ'[o] \in Active => occ[o] \in Active  BY <1>2 DEF Active
  <2> QED  BY <2>1 DEF IInv, OneActive
<1>12. OneUnderWay'  BY <1>9 DEF IInv, OneUnderWay
<1> QED  BY <1>7, <1>8, <1>10, <1>11, <1>12 DEF IInv
-----------------------------------------------------------------------------
LEMMA InitInv == Init => IInv
<1> SUFFICES ASSUME Init PROVE IInv
  OBVIOUS
<1>1. /\ now = 0 /\ orders = 0 /\ troubles = 0 /\ acked = {} /\ pass = NoPass
      /\ 0 \in 0..MaxFailures /\ 0 \in 0..MaxTroubles /\ 0 \in 0..Horizon /\ 0 \in 0..MaxOrders
  BY InputAssumption, ScheduleAssumption DEF Init, InputInit
<1>2. /\ row \in [Inputs -> SlackInput] /\ \A i \in Inputs : row[i].state = "absent"
  <2> DEFINE new == [state |-> "absent", due |-> FALSE, failures |-> 0]
  <2>1. new \in SlackInput /\ new.state = "absent"  BY <1>1 DEF SlackInput
  <2>2. row = [i \in Inputs |-> new]  BY DEF Init, InputInit
  <2> HIDE DEF new
  <2> QED  BY <2>1, <2>2
<1>3. run \in [Synthetic -> {"none", "live", "ended"}] /\ \A o \in Synthetic : run[o] = "none"
  BY DEF Init, InputInit
<1>4. worker \in Handling /\ worker.phase = "idle"  BY DEF Init, InputInit, Handling
<1>5. /\ task \in [Tasks -> Scheduled]
      /\ \A t \in Tasks : /\ task[t].def \in Definitions(t)
                          /\ \E d \in Definitions(t) : task[t].next < d.expires
  <2>1. \A t \in Tasks : Definition[t] \in Schedule /\ Definition[t].start < Definition[t].expires
    BY ScheduleAssumption
  <2>2. task = [t \in Tasks |->
                 [state |-> "on", def |-> Definition[t], next |-> Definition[t].start]]
    BY DEF Init
  <2>3. \A t \in Tasks :
          [state |-> "on", def |-> Definition[t], next |-> Definition[t].start] \in Scheduled
    BY <2>1 DEF Scheduled, Schedule
  <2> QED  BY <2>1, <2>2, <2>3 DEF Definitions
<1>6. /\ occ \in [Synthetic -> {"none", "queued", "running", "ended", "skipped"}]
      /\ anchor \in [Synthetic -> {"none", "queued", "sent", "failed"}]
      /\ \A o \in Synthetic : occ[o] = "none"
  BY DEF Init
<1>7. job \in [Jobs -> Progress] /\ \A p \in Jobs : job[p] = Idle
  BY IdleFacts DEF Init, Jobs
<1>8. TypeOK
  BY <1>1, <1>2, <1>3, <1>4, <1>5, <1>6, <1>7, IdleFacts DEF TypeOK, InputTypeOK, Jobs
<1>9. InputsRight /\ JobsRight /\ PassRight
  BY <1>1, <1>2, <1>4, <1>7, IdleFacts
  DEF InputsRight, JobsRight, PassRight, Is, Open, Resting
<1>10. \A o \in Synthetic : ~Touched(o)
  BY <1>2, <1>3, <1>7, IdleFacts, Places DEF Touched, Made, Is
<1>11. \A o \in Synthetic : OccurrenceRight(o)
  BY <1>1, <1>6, <1>10, IdleFacts DEF OccurrenceRight
<1>12. OneActive /\ OneUnderWay
  BY <1>6, <1>10 DEF OneActive, OneUnderWay, UnderWay, Active
<1> QED  BY <1>8, <1>9, <1>11, <1>12 DEF IInv

LEMMA NextInv == IInv /\ [Next]_vars => IInv'
<1> SUFFICES ASSUME IInv, [Next]_vars PROVE IInv'
  OBVIOUS
<1>1. CASE UNCHANGED vars
  <2>1. UNCHANGED <<now, row, run, acked, worker, troubles, task, occ, anchor, job, pass, orders>>
    BY <1>1 DEF vars, inputVars, scheduleVars
  <2>2. now \in Nat /\ orders \in Nat  BY Types DEF IInv
  <2>3. TypeOK'  BY <2>1 DEF IInv, TypeOK, InputTypeOK, Is
  <2>4. JobsHold  BY <2>1 DEF JobsHold
  <2>5. InputsRight' /\ RunsHold  BY <2>1, SameInputs
  <2> QED  BY <2>1, <2>2, <2>3, <2>4, <2>5, LedgerSame
<1>2. CASE Drain
  <2>1. ASSUME NEW s \in pass.due, Claim(s, TRUE) PROVE IInv'  BY <2>1, ClaimStep
  <2>2. CASE EndPass  BY <2>2, EndStep DEF Jobs
  <2> QED  BY <1>2, <2>1, <2>2, BeginStep, ListStep, ReconcileStep DEF Drain
<1>3. CASE Operated
  <2>1. ASSUME NEW s \in pass.due, Claim(s, FALSE) PROVE IInv'  BY <2>1, ClaimStep
  <2> QED  BY <1>3, <2>1, RunNowStep, OperateStep, DeleteStep DEF Operated
<1>4. CASE \E p \in DOMAIN job : Carry(p) \/ Trouble(p)
  <2>1. PICK p \in Jobs : Carry(p) \/ Trouble(p)  BY <1>4, Types DEF IInv
  <2> QED
    BY <2>1, EnsureStep, AdmitStep, QueueStep, FinishStep, LinkStep, EndStep DEF Carry
<1> QED  BY <1>1, <1>2, <1>3, <1>4, RestartStep, WorldStep DEF Next

LEMMA Invariance == Spec => []IInv
BY InitInv, NextInv, PTL DEF Spec

(* The scheduler never overlaps two copies of a task: no two runs of it are  *)
(* alive together, and an occurrence that was skipped has none, whatever is  *)
(* pressed, replaced, deleted or restarted meanwhile (ClaimScheduledTaskRun, *)
(* ensureScheduledTaskExecution and reconcileScheduledTaskRuns).            *)
THEOREM NoOverlap == Spec => []NeverOverlaps
<1>1. IInv => NeverOverlaps
  <2> SUFFICES ASSUME IInv PROVE NeverOverlaps
    OBVIOUS
  <2>1. TypeOK /\ run \in [Synthetic -> {"none", "live", "ended"}]  BY Types DEF IInv
  <2>2. ASSUME NEW o \in Synthetic, NEW q \in Synthetic, o # q, o[1] = q[1]
        PROVE  ~(Live(o) /\ Live(q))
    <3>1. \A r \in Synthetic : Live(r) => UnderWay(r)
      BY DEF Live, UnderWay, Touched, Made
    <3> QED  BY <2>2, <3>1 DEF IInv, OneUnderWay
  <2>3. ASSUME NEW o \in Synthetic, occ[o] = "skipped" PROVE run[o] = "none"
    <3>1. OccurrenceRight(o)  BY DEF IInv
    <3> QED  BY <2>3, <3>1 DEF OccurrenceRight, Touched, Made
  <2> QED  BY <2>1, <2>2, <2>3 DEF NeverOverlaps
<1> QED  BY <1>1, Invariance, PTL
=============================================================================
