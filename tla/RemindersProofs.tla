---------------------------- MODULE RemindersProofs ----------------------------
(***************************************************************************)
(* Proofs about Reminders, for any number of processes, people, tasks,     *)
(* rules, days and faults.  A process is told by its place (pc): what it   *)
(* has in hand (LocalInv), who else may carry out the same rule (ActInv),   *)
(* and whether it still has the lease (LeaseInv).                          *)
(***************************************************************************)
EXTENDS Reminders, TLAPS

Delivering == {"check", "notify", "find", "mark", "run", "act", "finish", "settle", "failed"}
Places == {"idle", "plan", "fetch", "next"} \cup Delivering

Delivery == [key : Key, attempts : Nat, to : Person \cup {None}]

\* Types, results apart.
Types ==
    /\ TypeOK
    /\ pc \in [Instance -> Places]
    /\ result \in [Instance -> {None, "SENT", "SKIPPED", "SUCCESS", "ERROR"}]
    /\ cur \in [Instance -> {None} \cup Delivery]
    /\ stalls \in Nat

\* A process in a delivery has a row in hand; rules and built-in reminders take
\* different ways, and what it will write is known where it matters.
LocalInv ==
    \A i \in Instance :
        /\ pc[i] \in Delivering => cur[i] \in Delivery
        /\ pc[i] = "notify" => CurKey(i).kind = Builtin /\ cur[i].to \in Person
        /\ pc[i] \in {"find", "mark", "run", "act", "finish"} => CurKey(i).kind # Builtin
        /\ pc[i] = "finish" => result[i] \in {"SUCCESS", "ERROR"}
        /\ pc[i] = "settle" => result[i] \in {"SENT", "SKIPPED"}

\* What is sent was notified before its row is settled.
SentInv ==
    /\ SentMeansDelivered
    /\ \A i \in Instance :
          pc[i] = "settle" /\ result[i] = "SENT" /\ CurKey(i).kind = Builtin => Delivered(CurKey(i))

\* One process carries out the rule of a key, and it has not been carried out yet;
\* a key without a run was never carried out.
ActInv ==
    /\ \A k \in Key : run[k].status = "absent" => acted[k] = 0
    /\ \A i \in Instance : pc[i] = "act" => run[CurKey(i)].status # "absent" /\ acted[CurKey(i)] = 0
    /\ \A i, j \in Instance : pc[i] = "act" /\ pc[j] = "act" /\ CurKey(i) = CurKey(j) => i = j

\* Without a suspension, whoever works has the lease.
LeaseInv ==
    stalls = 0 => \A i \in Instance : pc[i] # "idle" => lease.by = i /\ lease.left >= 0

IInv == Types /\ LocalInv /\ SentInv /\ ActInv /\ SentOnce /\ LeaseInv

-----------------------------------------------------------------------------
LEMMA InitInv == Init => IInv
<1> SUFFICES ASSUME Init PROVE IInv
  OBVIOUS
<1> USE RemindersAssumption DEF Init
<1>1. Types
  BY DEF Types, TypeOK, Places, Day, Absent
<1>2. LocalInv
  BY DEF LocalInv, Delivering
<1>3. SentInv
  BY DEF SentInv, SentMeansDelivered, Absent
<1>4. ActInv /\ SentOnce /\ LeaseInv
  BY DEF ActInv, SentOnce, LeaseInv, Recipient
<1> QED BY <1>1, <1>2, <1>3, <1>4 DEF IInv

\* A process that delivers has a key in hand.
LEMMA KeyInHand ==
    ASSUME IInv, NEW i \in Instance, pc[i] \in Delivering
    PROVE  cur[i] \in Delivery /\ CurKey(i) \in Key
BY DEF IInv, LocalInv, Delivery, CurKey

(* What a step keeps by leaving it alone. *)

\* Nobody starts the actions of a rule, and no run or count of actions moves.
LEMMA ActFrame ==
    ASSUME IInv, acted' = acted, \A k \in Key : run'[k].status = run[k].status,
           \A j \in Instance : pc'[j] = "act" => pc[j] = "act" /\ cur'[j] = cur[j]
    PROVE  ActInv'
<1>1. \A j \in Instance : pc[j] = "act" => CurKey(j) \in Key
  BY KeyInHand DEF Delivering
<1> QED BY <1>1 DEF IInv, ActInv, CurKey

\* Nobody becomes about to validate a built-in reminder.
LEMMA SentFrame ==
    ASSUME IInv, notified' = notified, row' = row,
           \A j \in Instance : pc'[j] = "settle" /\ result'[j] = "SENT" =>
                /\ cur'[j] = cur[j]
                /\ (pc[j] = "settle" /\ result[j] = "SENT") \/ CurKey(j).kind # Builtin
    PROVE  SentInv'
BY DEF IInv, SentInv, SentMeansDelivered, Delivered, CurKey

\* The lease stays, and nobody starts to work.
LEMMA LeaseFrame ==
    ASSUME IInv, lease' = lease, stalls' = stalls,
           \A j \in Instance : pc'[j] # "idle" => pc[j] # "idle"
    PROVE  LeaseInv'
BY DEF IInv, LeaseInv

LEMMA CountsFrame ==
    ASSUME IInv, notified' = notified, acted' = acted PROVE SentOnce'
BY DEF IInv, SentOnce

\* The types of what people and the clock change.
LEMMA TypesFrame ==
    ASSUME IInv, UNCHANGED <<people, today, lease, notified, run, acted, day, queue, stalls>>,
           row' \in [Key -> [status : {"absent", "PENDING"} \cup Settled, attempts : Nat]],
           pc' \in [Instance -> Places],
           result' \in [Instance -> {None, "SENT", "SKIPPED", "SUCCESS", "ERROR"}],
           cur' \in [Instance -> {None} \cup Delivery]
    PROVE  Types'
BY DEF IInv, Types, TypeOK, people, Delivery

-----------------------------------------------------------------------------
(* People, the calendar and the clock.                                     *)

\* People and the calendar touch nothing the invariant is about, but types.
LEMMA PeopleInv ==
    ASSUME IInv, People \/ NextDay
    PROVE  IInv'
<1>1. UNCHANGED <<db, local, faults, stalls>>
  BY DEF People, ChangeDue, CompleteOrReopen, Assign, ChangeRule, NextDay
<1> DEFINE Typed ==
        /\ due' \in [Task -> {0} \cup Day] /\ open' \in [Task -> BOOLEAN]
        /\ assignee' \in [Task -> Person \cup {None}]
        /\ rule' \in [Kind \ {Builtin} -> {"on", "off", "powerless"}]
        /\ today' \in Day
<1>2. Typed
  <2>1. ASSUME NEW t \in Task, NEW d \in {0} \cup Day, ChangeDue(t, d) PROVE Typed
    BY <2>1 DEF ChangeDue, IInv, Types, TypeOK
  <2>2. ASSUME NEW t \in Task, CompleteOrReopen(t) PROVE Typed
    BY <2>2 DEF CompleteOrReopen, IInv, Types, TypeOK
  <2>3. ASSUME NEW t \in Task, NEW p \in Person \cup {None}, Assign(t, p) PROVE Typed
    BY <2>3 DEF Assign, IInv, Types, TypeOK
  <2>4. ASSUME NEW r \in Kind \ {Builtin}, NEW s \in {"on", "off", "powerless"}, ChangeRule(r, s)
        PROVE  Typed
    BY <2>4 DEF ChangeRule, IInv, Types, TypeOK
  <2>5. ASSUME NextDay PROVE Typed
    BY <2>5, RemindersAssumption DEF NextDay, people, Day, IInv, Types, TypeOK
  <2> HIDE DEF Typed
  <2> QED BY <2>1, <2>2, <2>3, <2>4, <2>5 DEF People
<1>3. Types'
  BY <1>1, <1>2 DEF IInv, Types, TypeOK, db, local
<1>4. LocalInv' /\ SentOnce'
  BY <1>1 DEF IInv, LocalInv, SentOnce, CurKey, db, local
<1>5. ActInv' /\ SentInv' /\ LeaseInv'
  BY <1>1, ActFrame, SentFrame, LeaseFrame DEF db, local
<1> QED BY <1>3, <1>4, <1>5 DEF IInv

LEMMA TickInv == ASSUME IInv, Tick PROVE IInv'
<1>0. UNCHANGED <<people, today, row, notified, acted, local>>
  BY DEF Tick
<1>1. \A k \in Key : run'[k].status = run[k].status
  BY DEF IInv, Types, TypeOK, Tick
<1>2. Types'
  <2>1. lease' \in [by : Instance \cup {None}, left : -1..TTL]
    <3>1. lease \in [by : Instance \cup {None}, left : -1..TTL] /\ TTL \in Nat
      BY RemindersAssumption DEF IInv, Types, TypeOK
    <3>2. lease' = IF lease.left < 0 THEN lease ELSE [lease EXCEPT !.left = lease.left - 1]
      BY DEF Tick
    <3>3. lease.left >= 0 => lease.left - 1 \in -1..TTL
      BY <3>1
    <3> QED BY <3>1, <3>2, <3>3
  <2>2. run' \in [Key -> [status : {"absent", "RUNNING", "SUCCESS", "ERROR"}, age : 0..TTL + 1]]
    <3> DEFINE One == [status : {"absent", "RUNNING", "SUCCESS", "ERROR"}, age : 0..TTL + 1]
    <3>1. run \in [Key -> One] /\ TTL \in Nat
      BY RemindersAssumption DEF IInv, Types, TypeOK
    <3>2. \A r \in One : r.age <= TTL => [r EXCEPT !.age = r.age + 1] \in One
      BY <3>1
    <3>3. run' = [k \in Key |-> IF run[k].status = "RUNNING" /\ run[k].age <= TTL
                                THEN [run[k] EXCEPT !.age = run[k].age + 1] ELSE run[k]]
      BY DEF Tick
    <3> HIDE DEF One
    <3>4. run' \in [Key -> One]
      BY <3>1, <3>2, <3>3
    <3> QED BY <3>4 DEF One
  <2>3. stalls' \in Nat
    BY DEF IInv, Types, Tick
  <2> QED BY <1>0, <2>1, <2>2, <2>3 DEF IInv, Types, TypeOK, people, local
<1>3. LeaseInv'
  <2>1. SUFFICES ASSUME stalls' = 0, NEW i \in Instance, pc[i] # "idle"
                 PROVE  lease'.by = i /\ lease'.left >= 0
    BY <1>0 DEF LeaseInv, local
  <2>2. stalls = 0 /\ ~(lease.left = 0 /\ lease.by # None /\ pc[lease.by] # "idle")
    BY <2>1 DEF IInv, Types, Tick
  <2>3. lease.by = i /\ lease.left >= 0 /\ i # None
    BY <2>1, <2>2, RemindersAssumption DEF IInv, LeaseInv
  <2>4. lease.left # 0 /\ lease.left \in Nat
    BY <2>1, <2>2, <2>3, RemindersAssumption DEF IInv, Types, TypeOK
  <2>5. lease' = [lease EXCEPT !.left = lease.left - 1]
    BY <2>4 DEF Tick
  <2>6. lease'.by = lease.by /\ lease'.left = lease.left - 1
    BY <2>5 DEF IInv, Types, TypeOK
  <2> QED BY <2>3, <2>4, <2>6
<1>4. LocalInv'
  BY <1>0 DEF IInv, LocalInv, CurKey, local
<1>5. ActInv' /\ SentInv' /\ SentOnce'
  BY <1>0, <1>1, ActFrame, SentFrame, CountsFrame DEF local
<1> QED BY <1>2, <1>3, <1>4, <1>5 DEF IInv

-----------------------------------------------------------------------------
(* The lease and the run.                                                  *)

LEMMA AcquireInv == ASSUME IInv, NEW i \in Instance, Acquire(i) PROVE IInv'
<1> USE DEF Acquire, Goto
<1>1. pc' = [pc EXCEPT ![i] = "plan"] /\ pc \in [Instance -> Places]
  BY DEF IInv, Types
<1>2. Types'
  BY <1>1, RemindersAssumption DEF IInv, Types, TypeOK, Places, people
<1>3. LocalInv'
  BY <1>1 DEF IInv, LocalInv, Delivering, CurKey
<1>4. ActInv' /\ SentInv' /\ SentOnce'
  BY <1>1, ActFrame, SentFrame, CountsFrame
<1>5. LeaseInv'
  <2>1. SUFFICES ASSUME stalls = 0, NEW j \in Instance, pc'[j] # "idle"
                 PROVE  lease'.by = j /\ lease'.left >= 0
    BY DEF LeaseInv
  <2>2. lease'.by = i /\ lease'.left >= 0
    BY RemindersAssumption
  <2>3. \A x \in Instance : pc[x] = "idle"
    BY <2>1, RemindersAssumption DEF IInv, Types, TypeOK, LeaseInv
  <2> QED BY <1>1, <2>1, <2>2, <2>3
<1> QED BY <1>2, <1>3, <1>4, <1>5 DEF IInv

LEMMA PlanInv == ASSUME IInv, NEW i \in Instance, Plan(i) PROVE IInv'
<1> USE DEF Plan, Goto
<1>1. pc' = [pc EXCEPT ![i] = "fetch"] /\ pc \in [Instance -> Places] /\ pc[i] = "plan"
  BY DEF IInv, Types
<1>2. Types'
  <2>1. row' \in [Key -> [status : {"absent", "PENDING"} \cup Settled, attempts : Nat]]
    BY DEF IInv, Types, TypeOK
  <2> QED BY <1>1, <2>1 DEF IInv, Types, TypeOK, Places, people
<1>3. LocalInv'
  BY <1>1 DEF IInv, LocalInv, Delivering, CurKey
<1>4. SentInv'
  BY <1>1 DEF IInv, SentInv, SentMeansDelivered, Delivered, CurKey
<1>5. ActInv' /\ SentOnce' /\ LeaseInv'
  BY <1>1, ActFrame, CountsFrame, LeaseFrame
<1> QED BY <1>2, <1>3, <1>4, <1>5 DEF IInv

LEMMA FetchInv == ASSUME IInv, NEW i \in Instance, Fetch(i) PROVE IInv'
<1> USE DEF Fetch, Goto, db
<1>1. pc' = [pc EXCEPT ![i] = "next"] /\ pc \in [Instance -> Places] /\ pc[i] = "fetch"
  BY DEF IInv, Types
<1>2. Types'
  <2>1. queue' \in [Instance -> SUBSET [key : Key, attempts : Nat]]
    BY DEF IInv, Types, TypeOK
  <2> QED BY <1>1, <2>1 DEF IInv, Types, TypeOK, Places, people
<1>3. LocalInv'
  BY <1>1 DEF IInv, LocalInv, Delivering, CurKey
<1>4. ActInv' /\ SentInv' /\ SentOnce' /\ LeaseInv'
  BY <1>1, ActFrame, SentFrame, CountsFrame, LeaseFrame
<1> QED BY <1>2, <1>3, <1>4 DEF IInv

LEMMA NextRowInv == ASSUME IInv, NEW i \in Instance, NextRow(i) PROVE IInv'
<1> USE DEF NextRow, Goto
<1>1. pc' = [pc EXCEPT ![i] = "check"] /\ pc \in [Instance -> Places] /\ pc[i] = "next"
  BY DEF IInv, Types
<1>2. PICK q \in queue[i] :
        /\ cur' = [cur EXCEPT ![i] = [key |-> q.key, attempts |-> q.attempts, to |-> None]]
        /\ queue' = [queue EXCEPT ![i] = queue[i] \ {q}]
  OBVIOUS
<1>3. cur'[i] \in Delivery /\ cur' \in [Instance -> {None} \cup Delivery]
  BY <1>2 DEF IInv, Types, TypeOK, Delivery
<1>4. Types'
  <2>1. queue' \in [Instance -> SUBSET [key : Key, attempts : Nat]]
    BY <1>2 DEF IInv, Types, TypeOK
  <2>2. lease' = [lease EXCEPT !.left = TTL] /\ lease \in [by : Instance \cup {None}, left : -1..TTL]
        /\ TTL \in -1..TTL
    BY RemindersAssumption DEF IInv, Types, TypeOK
  <2>3. lease' \in [by : Instance \cup {None}, left : -1..TTL]
    BY ONLY <2>2
  <2> QED BY <1>1, <1>3, <2>1, <2>3 DEF IInv, Types, TypeOK, Places, Delivering, Delivery, people
<1>5. LocalInv'
  BY <1>1, <1>2, <1>3 DEF IInv, Types, LocalInv, CurKey
<1>6. \A j \in Instance : j # i => pc'[j] = pc[j] /\ cur'[j] = cur[j]
  BY <1>1, <1>2 DEF IInv, Types
<1>7. ActInv' /\ SentInv' /\ SentOnce'
  BY <1>1, <1>6, ActFrame, SentFrame, CountsFrame
<1>8. LeaseInv'
  BY <1>1, RemindersAssumption DEF IInv, Types, TypeOK, LeaseInv
<1> QED BY <1>4, <1>5, <1>7, <1>8 DEF IInv

\* Forgetting disturbs nothing, if the lease it leaves is the one it had or is free.
LEMMA ForgetInv ==
    ASSUME IInv, NEW i \in Instance, Forget(i), lease' \in {lease, Release(i)}, pc[i] # "idle",
           stalls' = stalls, UNCHANGED <<people, today, row, notified, run, acted>>
    PROVE  IInv'
<1> USE DEF Forget, Goto
<1>1. /\ pc' = [pc EXCEPT ![i] = "idle"] /\ pc \in [Instance -> Places]
      /\ cur' = [cur EXCEPT ![i] = None]
      /\ \A j \in Instance : j # i => pc'[j] = pc[j] /\ cur'[j] = cur[j] /\ result'[j] = result[j]
  BY DEF IInv, Types
<1>2. Types'
  <2>1. lease' \in [by : Instance \cup {None}, left : -1..TTL]
    BY RemindersAssumption DEF IInv, Types, TypeOK, Release, Free
  <2>2. queue' \in [Instance -> SUBSET [key : Key, attempts : Nat]]
    BY DEF IInv, Types, TypeOK
  <2>3. cur' \in [Instance -> {None} \cup Delivery]
        /\ result' \in [Instance -> {None, "SENT", "SKIPPED", "SUCCESS", "ERROR"}]
    BY DEF IInv, Types
  <2> QED BY <1>1, <2>1, <2>2, <2>3 DEF IInv, Types, TypeOK, Places, Delivery, people
<1>3. LocalInv'
  BY <1>1 DEF IInv, LocalInv, Delivering, CurKey
<1>4. ActInv' /\ SentInv' /\ SentOnce'
  BY <1>1, ActFrame, SentFrame, CountsFrame
<1>5. LeaseInv'
  BY <1>1 DEF IInv, LeaseInv, Release
<1> QED BY <1>2, <1>3, <1>4, <1>5 DEF IInv

LEMMA RunEndsInv ==
    ASSUME IInv, NEW i \in Instance, LostLease(i) \/ EndRun(i) \/ RunFails(i) \/ Crash(i)
    PROVE  IInv'
<1>1. Forget(i) /\ lease' \in {lease, Release(i)} /\ pc[i] # "idle" /\ stalls' = stalls
  BY DEF LostLease, EndRun, RunFails, Crash, Fault, db
<1>2. UNCHANGED <<people, today, row, notified, run, acted>>
  BY DEF LostLease, EndRun, RunFails, Crash, db
<1> QED BY <1>1, <1>2, ForgetInv

-----------------------------------------------------------------------------
(* A delivery.                                                             *)

Results == {None, "SENT", "SKIPPED", "SUCCESS", "ERROR"}

\* A step inside a delivery: the row in hand stays, and the way taken fits it.
LEMMA WithinDelivery ==
    ASSUME IInv, NEW i \in Instance, NEW label \in Delivering, NEW r \in Results,
           pc[i] \in Delivering, Goto(i, label), result' = [result EXCEPT ![i] = r], cur' = cur,
           label # "notify",
           label \in {"find", "mark", "run", "act", "finish"} => CurKey(i).kind # Builtin,
           label = "finish" => r \in {"SUCCESS", "ERROR"},
           label = "settle" => r \in {"SENT", "SKIPPED"}
    PROVE  /\ LocalInv'
           /\ pc' \in [Instance -> Places] /\ result' \in [Instance -> Results]
           /\ pc'[i] = label /\ result'[i] = r
           /\ \A j \in Instance : j # i => pc'[j] = pc[j] /\ result'[j] = result[j]
<1>1. /\ pc'[i] = label /\ result'[i] = r
      /\ \A j \in Instance : j # i => pc'[j] = pc[j] /\ result'[j] = result[j]
      /\ pc' \in [Instance -> Places] /\ result' \in [Instance -> Results]
  BY DEF IInv, Types, Goto, Places, Results
<1>2. LocalInv'
  BY <1>1 DEF IInv, LocalInv, CurKey
<1> QED BY <1>1, <1>2

LEMMA CheckInv == ASSUME IInv, NEW i \in Instance, Check(i) PROVE IInv'
<1> DEFINE k == CurKey(i)
           way == IF k.kind = Builtin THEN "notify" ELSE "find"
<1>0. pc[i] = "check" /\ cur[i] \in Delivery /\ k \in Key
  BY KeyInHand DEF Check, Delivering
<1>1. UNCHANGED <<people, today, db, day, queue, faults, stalls>>
  BY DEF Check
<1>2. CASE StillDue(i)
  <2> DEFINE c == [cur[i] EXCEPT !.to = assignee[k.task]]
  <2>1. Goto(i, way) /\ cur' = [cur EXCEPT ![i] = c] /\ result' = result
    BY <1>2 DEF Check
  <2>2. assignee[k.task] \in Person \cup {None} /\ (k.kind = Builtin => assignee[k.task] \in Person)
    BY <1>0, <1>2 DEF StillDue, IInv, Types, TypeOK, Key
  <2>3. c \in Delivery /\ c.key = k /\ c.to = assignee[k.task]
    BY <1>0, <2>2 DEF Delivery, CurKey
  <2> HIDE DEF c, k
  <2>4. pc'[i] = way /\ cur'[i] = c
        /\ \A j \in Instance : j # i => pc'[j] = pc[j] /\ cur'[j] = cur[j]
    BY <2>1 DEF IInv, Types, Goto
  <2>5. Types'
    <3>1. pc' \in [Instance -> Places] /\ cur' \in [Instance -> {None} \cup Delivery]
      BY <2>1, <2>3 DEF IInv, Types, Goto, Places, Delivering
    <3> QED BY <1>1, <2>1, <3>1, TypesFrame DEF db, IInv, Types, TypeOK
  <2>6. LocalInv'
    BY <2>1, <2>2, <2>3, <2>4 DEF IInv, LocalInv, CurKey
  <2>7. ActInv' /\ SentInv' /\ SentOnce' /\ LeaseInv'
    BY <1>0, <1>1, <2>1, <2>4, ActFrame, SentFrame, CountsFrame, LeaseFrame DEF db
  <2> QED BY <2>5, <2>6, <2>7 DEF IInv
<1>3. CASE ~StillDue(i)
  <2>1. Goto(i, "settle") /\ cur' = cur /\ result' = [result EXCEPT ![i] = "SKIPPED"]
    BY <1>3 DEF Check, Outcome
  <2>2. pc'[i] = "settle" /\ result'[i] = "SKIPPED"
        /\ \A j \in Instance : j # i => pc'[j] = pc[j] /\ result'[j] = result[j]
    BY <2>1 DEF IInv, Types, Goto
  <2>3. Types'
    <3>1. pc' \in [Instance -> Places]
          /\ result' \in [Instance -> {None, "SENT", "SKIPPED", "SUCCESS", "ERROR"}]
      BY <2>1 DEF IInv, Types, Goto, Places, Delivering
    <3> QED BY <1>1, <2>1, <3>1, TypesFrame DEF db, IInv, Types, TypeOK
  <2>4. LocalInv'
    BY <1>0, <2>1, <2>2 DEF IInv, LocalInv, CurKey
  <2>5. ActInv' /\ SentInv' /\ SentOnce' /\ LeaseInv'
    BY <1>0, <1>1, <2>1, <2>2, ActFrame, SentFrame, CountsFrame, LeaseFrame DEF db
  <2> QED BY <2>3, <2>4, <2>5 DEF IInv
<1> QED BY <1>2, <1>3

LEMMA NotifyInv == ASSUME IInv, NEW i \in Instance, Notify(i) PROVE IInv'
<1>0. PICK k \in Key, p \in Recipient :
        /\ pc[i] = "notify" /\ k = CurKey(i) /\ k.kind = Builtin /\ cur[i] \in Delivery
        /\ notified' = [notified EXCEPT ![k][p] = Inserted(k, p)]
  BY KeyInHand DEF Notify, Delivering, IInv, LocalInv, Recipient
<1>1. /\ UNCHANGED <<people, today, lease, row, run, acted, day, queue, cur, faults, stalls>>
      /\ notified' = [notified EXCEPT ![k][p] = 1]
      /\ Goto(i, "settle") /\ result' = [result EXCEPT ![i] = "SENT"]
  BY <1>0 DEF Notify, Outcome, Inserted
<1>2. pc'[i] = "settle" /\ result'[i] = "SENT"
      /\ \A j \in Instance : j # i => pc'[j] = pc[j] /\ result'[j] = result[j]
  BY <1>1 DEF IInv, Types, Goto
<1>3. /\ notified' \in [Key -> [Recipient -> Nat]]
      /\ notified'[k][p] = 1
      /\ \A x \in Key, y \in Recipient : notified'[x][y] = notified[x][y] \/ notified'[x][y] = 1
  BY <1>0, <1>1 DEF IInv, Types, TypeOK
<1>4. Types'
  <2>1. pc' \in [Instance -> Places]
        /\ result' \in [Instance -> {None, "SENT", "SKIPPED", "SUCCESS", "ERROR"}]
    BY <1>1 DEF IInv, Types, Goto, Places, Delivering
  <2> QED BY <1>1, <1>3, <2>1 DEF IInv, Types, TypeOK, people
<1>5. LocalInv'
  BY <1>0, <1>1, <1>2 DEF IInv, LocalInv, CurKey
<1>6. SentInv'
  <2>1. \A x \in Key : Delivered(x) => Delivered(x)'
    BY <1>3 DEF Delivered
  <2>2. Delivered(k)'
    BY <1>0, <1>3 DEF Delivered
  <2>3. SentMeansDelivered'
    <3>1. ASSUME NEW x \in Key, x.kind = Builtin, row'[x].status = "SENT" PROVE Delivered(x)'
      <4>1. Delivered(x)
        BY <1>1, <3>1 DEF IInv, SentInv, SentMeansDelivered
      <4> QED BY <2>1, <4>1
    <3> QED BY <3>1 DEF SentMeansDelivered
  <2>4. ASSUME NEW j \in Instance, pc'[j] = "settle", result'[j] = "SENT", CurKey(j)'.kind = Builtin
        PROVE  Delivered(CurKey(j))'
    <3>1. CASE j = i
      BY <1>0, <1>1, <2>2, <3>1 DEF CurKey
    <3>2. CASE j # i
      <4>1. pc[j] = "settle" /\ result[j] = "SENT" /\ CurKey(j)' = CurKey(j) /\ CurKey(j) \in Key
        BY <1>1, <1>2, <2>4, <3>2, KeyInHand DEF CurKey, Delivering
      <4>2. Delivered(CurKey(j))
        BY <2>4, <4>1 DEF IInv, SentInv
      <4> QED BY <2>1, <4>1, <4>2 DEF Delivered
    <3> QED BY <3>1, <3>2
  <2> QED BY <2>3, <2>4 DEF SentInv
<1>7. SentOnce'
  BY <1>1, <1>3 DEF IInv, SentOnce
<1>8. ActInv' /\ LeaseInv'
  BY <1>0, <1>1, <1>2, ActFrame, LeaseFrame
<1> QED BY <1>4, <1>5, <1>6, <1>7, <1>8 DEF IInv

LEMMA FindRunInv == ASSUME IInv, NEW i \in Instance, FindRun(i) PROVE IInv'
<1>0. pc[i] = "find" /\ CurKey(i).kind # Builtin
  BY DEF FindRun, IInv, LocalInv
<1>1. UNCHANGED <<people, today, db, day, queue, cur, faults, stalls>>
  BY DEF FindRun
<1>2. PICK label \in {"mark", "run", "settle"}, r \in Results :
        Goto(i, label) /\ result' = [result EXCEPT ![i] = r] /\ (label = "settle" => r = "SENT")
  BY DEF FindRun, Outcome, IInv, Types, Results
<1>3. /\ LocalInv' /\ pc' \in [Instance -> Places] /\ result' \in [Instance -> Results]
      /\ pc'[i] = label /\ \A j \in Instance : j # i => pc'[j] = pc[j] /\ result'[j] = result[j]
  BY <1>0, <1>1, <1>2, WithinDelivery DEF Delivering
<1>4. Types'
  BY <1>1, <1>3, TypesFrame DEF db, Results, IInv, Types, TypeOK
<1>5. ActInv' /\ SentInv' /\ SentOnce' /\ LeaseInv'
  BY <1>0, <1>1, <1>3, ActFrame, SentFrame, CountsFrame, LeaseFrame DEF db
<1> QED BY <1>3, <1>4, <1>5 DEF IInv

LEMMA QueryFailsInv == ASSUME IInv, NEW i \in Instance, QueryFails(i) PROVE IInv'
<1>0. pc[i] \in Delivering /\ Goto(i, "failed") /\ stalls' = stalls
      /\ UNCHANGED <<people, today, db, day, queue, cur, result>>
  BY DEF QueryFails, Delivering, Fault
<1>1. result[i] \in Results /\ result' = [result EXCEPT ![i] = result[i]] /\ "failed" \in Delivering
  BY <1>0 DEF IInv, Types, Results, Delivering
<1>2. /\ LocalInv' /\ pc' \in [Instance -> Places] /\ result' \in [Instance -> Results]
      /\ pc'[i] = "failed" /\ \A j \in Instance : j # i => pc'[j] = pc[j] /\ result'[j] = result[j]
  BY <1>0, <1>1, WithinDelivery
<1>3. Types'
  BY <1>0, <1>2, TypesFrame DEF db, Results, IInv, Types, TypeOK
<1>4. ActInv' /\ SentInv' /\ SentOnce' /\ LeaseInv'
  BY <1>0, <1>2, ActFrame, SentFrame, CountsFrame, LeaseFrame DEF db, Delivering
<1> QED BY <1>2, <1>3, <1>4 DEF IInv

\* A step that writes the run of the rule in hand, which exists already, and
\* tells what becomes of the reminder.
LEMMA RunWritten ==
    ASSUME IInv, NEW i \in Instance, NEW s \in {"SUCCESS", "ERROR"}, NEW r \in {"SENT", "SKIPPED"},
           pc[i] \in {"mark", "finish"}, run' = [run EXCEPT ![CurKey(i)].status = s], Outcome(i, r),
           UNCHANGED <<people, today, lease, row, notified, acted, day, queue, cur, faults, stalls>>
    PROVE  IInv'
<1>0. CurKey(i) \in Key /\ CurKey(i).kind # Builtin /\ pc[i] \in Delivering
  BY KeyInHand DEF Delivering, IInv, LocalInv
<1>1. /\ LocalInv' /\ pc' \in [Instance -> Places] /\ result' \in [Instance -> Results]
      /\ pc'[i] = "settle" /\ \A j \in Instance : j # i => pc'[j] = pc[j] /\ result'[j] = result[j]
  BY <1>0, WithinDelivery DEF Outcome, Delivering, Results
<1>2. /\ run' \in [Key -> [status : {"absent", "RUNNING", "SUCCESS", "ERROR"}, age : 0..TTL + 1]]
      /\ \A k \in Key : run'[k].status = IF k = CurKey(i) THEN s ELSE run[k].status
  BY <1>0 DEF IInv, Types, TypeOK
<1>3. Types'
  BY <1>1, <1>2 DEF IInv, Types, TypeOK, people, Results
<1>4. ActInv'
  <2>1. \A k \in Key : run'[k].status = "absent" => run[k].status = "absent"
    BY <1>2
  <2>2. \A j \in Instance : pc'[j] = "act" => pc[j] = "act" /\ CurKey(j) \in Key
    BY <1>1, KeyInHand DEF Delivering
  <2> QED BY <2>1, <2>2 DEF IInv, ActInv, CurKey
<1>5. SentInv' /\ SentOnce' /\ LeaseInv'
  BY <1>0, <1>1, SentFrame, CountsFrame, LeaseFrame
<1> QED BY <1>1, <1>3, <1>4, <1>5 DEF IInv

LEMMA MarkInterruptedInv == ASSUME IInv, NEW i \in Instance, MarkInterrupted(i) PROVE IInv'
BY RunWritten DEF MarkInterrupted

LEMMA FinishRuleInv == ASSUME IInv, NEW i \in Instance, FinishRule(i) PROVE IInv'
<1>1. result[i] \in {"SUCCESS", "ERROR"}
  BY DEF FinishRule, IInv, LocalInv
<1> QED BY <1>1, RunWritten DEF FinishRule

\* The run of a rule is reserved only if there is none: nobody else can be
\* carrying it out.
LEMMA StartRuleInv == ASSUME IInv, NEW i \in Instance, StartRule(i) PROVE IInv'
<1>0. pc[i] = "run" /\ CurKey(i) \in Key /\ CurKey(i).kind # Builtin
  BY KeyInHand DEF StartRule, IInv, LocalInv, Delivering
<1>1. UNCHANGED <<people, today, lease, row, notified, acted, day, queue, cur, faults, stalls>>
  BY DEF StartRule
<1>2. CASE run' = run /\ \E r \in {"SENT", "SKIPPED"} : Outcome(i, r)
  <2>1. PICK r \in {"SENT", "SKIPPED"} : Outcome(i, r)
    BY <1>2
  <2>2. /\ LocalInv' /\ pc' \in [Instance -> Places] /\ result' \in [Instance -> Results]
        /\ pc'[i] = "settle" /\ \A j \in Instance : j # i => pc'[j] = pc[j] /\ result'[j] = result[j]
    BY <1>0, <1>1, <2>1, WithinDelivery DEF Outcome, Delivering, Results
  <2>3. Types'
    BY <1>1, <1>2, <2>2, TypesFrame DEF Results, IInv, Types, TypeOK
  <2>4. ActInv' /\ SentInv' /\ SentOnce' /\ LeaseInv'
    BY <1>0, <1>1, <1>2, <2>2, ActFrame, SentFrame, CountsFrame, LeaseFrame
  <2> QED BY <2>2, <2>3, <2>4 DEF IInv
<1>3. CASE /\ MayReserve(CurKey(i)) /\ Goto(i, "act") /\ result' = result
           /\ run' = [run EXCEPT ![CurKey(i)] = [status |-> "RUNNING", age |-> 0]]
  <2>1. result[i] \in Results /\ result' = [result EXCEPT ![i] = result[i]] /\ "act" \in Delivering
    BY <1>3 DEF IInv, Types, Results, Delivering
  <2>2. /\ LocalInv' /\ pc' \in [Instance -> Places] /\ result' \in [Instance -> Results]
        /\ pc'[i] = "act" /\ \A j \in Instance : j # i => pc'[j] = pc[j] /\ result'[j] = result[j]
    BY <1>0, <1>1, <1>3, <2>1, WithinDelivery DEF Delivering
  <2>3. /\ run' \in [Key -> [status : {"absent", "RUNNING", "SUCCESS", "ERROR"}, age : 0..TTL + 1]]
        /\ run'[CurKey(i)].status = "RUNNING"
        /\ \A k \in Key : k # CurKey(i) => run'[k] = run[k]
    BY <1>0, <1>3, RemindersAssumption DEF IInv, Types, TypeOK
  <2>4. Types'
    BY <1>1, <2>2, <2>3 DEF IInv, Types, TypeOK, people, Results
  <2>5. run[CurKey(i)].status = "absent" /\ acted[CurKey(i)] = 0
    BY <1>0, <1>3 DEF MayReserve, IInv, ActInv
  <2>6. \A j \in Instance : j # i /\ pc'[j] = "act" =>
          pc[j] = "act" /\ CurKey(j) \in Key /\ CurKey(j) # CurKey(i)
    <3>1. \A j \in Instance : pc[j] = "act" => CurKey(j) \in Key /\ run[CurKey(j)].status # "absent"
      BY KeyInHand DEF Delivering, IInv, ActInv
    <3> QED BY <2>2, <2>5, <3>1
  <2>7. ActInv'
    <3>1. \A j \in Instance : CurKey(j)' = CurKey(j)
      BY <1>1 DEF CurKey
    <3>2. \A k \in Key : run'[k].status = "absent" => acted'[k] = 0
      BY <1>1, <2>3 DEF IInv, ActInv
    <3>3. \A j \in Instance : pc'[j] = "act" => run'[CurKey(j)].status # "absent" /\ acted'[CurKey(j)] = 0
      BY <1>1, <2>3, <2>5, <2>6 DEF IInv, ActInv
    <3>4. \A j, l \in Instance : pc'[j] = "act" /\ pc'[l] = "act" /\ CurKey(j) = CurKey(l) => j = l
      BY <2>6 DEF IInv, ActInv
    <3> QED BY <3>1, <3>2, <3>3, <3>4 DEF ActInv
  <2>8. SentInv' /\ SentOnce' /\ LeaseInv'
    BY <1>0, <1>1, <2>2, SentFrame, CountsFrame, LeaseFrame
  <2> QED BY <2>2, <2>4, <2>7, <2>8 DEF IInv
<1> QED BY <1>2, <1>3 DEF StartRule

LEMMA ActStepInv == ASSUME IInv, NEW i \in Instance, Act(i) PROVE IInv'
<1>0. pc[i] = "act" /\ CurKey(i) \in Key /\ CurKey(i).kind # Builtin /\ acted[CurKey(i)] = 0
  BY KeyInHand DEF Act, IInv, LocalInv, ActInv, Delivering
<1>1. UNCHANGED <<people, today, lease, row, notified, run, day, queue, cur, faults, stalls>>
  BY DEF Act
<1>2. /\ Goto(i, "finish") /\ \E r \in {"SUCCESS", "ERROR"} : result' = [result EXCEPT ![i] = r]
      /\ acted' = acted \/ acted' = [acted EXCEPT ![CurKey(i)] = acted[CurKey(i)] + 1]
  BY DEF Act
<1>3. /\ LocalInv' /\ pc' \in [Instance -> Places] /\ result' \in [Instance -> Results]
      /\ pc'[i] = "finish" /\ \A j \in Instance : j # i => pc'[j] = pc[j] /\ result'[j] = result[j]
  BY <1>0, <1>1, <1>2, WithinDelivery DEF Delivering, Results
<1>4. /\ acted' \in [Key -> Nat] /\ acted'[CurKey(i)] <= 1
      /\ \A k \in Key : k # CurKey(i) => acted'[k] = acted[k]
  BY <1>0, <1>2 DEF IInv, Types, TypeOK
<1>5. Types'
  BY <1>1, <1>3, <1>4 DEF IInv, Types, TypeOK, people, Results
<1>6. ActInv'
  <2>1. \A j \in Instance : pc'[j] = "act" => j # i /\ pc[j] = "act" /\ CurKey(j) \in Key
                                              /\ CurKey(j) # CurKey(i)
    BY <1>0, <1>3, KeyInHand DEF IInv, ActInv, Delivering
  <2>2. \A j \in Instance : CurKey(j)' = CurKey(j)
    BY <1>1 DEF CurKey
  <2>3. run[CurKey(i)].status # "absent"
    BY <1>0 DEF IInv, ActInv
  <2> QED BY <1>1, <1>4, <2>1, <2>2, <2>3 DEF IInv, ActInv
<1>7. SentOnce'
  BY <1>1, <1>4 DEF IInv, SentOnce
<1>8. SentInv' /\ LeaseInv'
  BY <1>0, <1>1, <1>3, SentFrame, LeaseFrame
<1> QED BY <1>3, <1>5, <1>6, <1>7, <1>8 DEF IInv

\* A step that writes the row in hand, if it is pending, and leaves it.
LEMMA RowWritten ==
    ASSUME IInv, NEW i \in Instance, NEW new \in [status : {"PENDING"} \cup Settled, attempts : Nat],
           pc[i] \in {"settle", "failed"},
           row' = IF MayWrite(CurKey(i)) THEN [row EXCEPT ![CurKey(i)] = new] ELSE row,
           new.status = "SENT" => pc[i] = "settle" /\ result[i] = "SENT",
           cur' = [cur EXCEPT ![i] = None], result' = [result EXCEPT ![i] = None], Goto(i, "next"),
           UNCHANGED <<people, today, lease, notified, run, acted, day, queue, faults, stalls>>
    PROVE  IInv'
<1>0. CurKey(i) \in Key
  BY KeyInHand DEF Delivering
<1>1. /\ pc'[i] = "next" /\ pc' \in [Instance -> Places]
      /\ cur' \in [Instance -> {None} \cup Delivery] /\ result' \in [Instance -> Results]
      /\ \A j \in Instance : j # i => pc'[j] = pc[j] /\ cur'[j] = cur[j] /\ result'[j] = result[j]
  BY DEF IInv, Types, Goto, Places, Results
<1>2. /\ row' \in [Key -> [status : {"absent", "PENDING"} \cup Settled, attempts : Nat]]
      /\ \A k \in Key : row'[k] = row[k] \/ (k = CurKey(i) /\ row'[k] = new)
  BY <1>0 DEF IInv, Types, TypeOK
<1>3. Types'
  BY <1>1, <1>2, TypesFrame DEF Results
<1>4. LocalInv'
  BY <1>1 DEF IInv, LocalInv, CurKey, Delivering
<1>5. SentInv'
  <2>1. \A k \in Key : Delivered(k)' = Delivered(k)
    BY DEF Delivered
  <2>2. ASSUME NEW k \in Key, k.kind = Builtin, row'[k].status = "SENT" PROVE Delivered(k)
    <3>1. CASE row'[k] = row[k]
      BY <2>2, <3>1 DEF IInv, SentInv, SentMeansDelivered
    <3>2. CASE k = CurKey(i) /\ row'[k] = new
      BY <2>2, <3>2 DEF IInv, SentInv
    <3> QED BY <1>2, <3>1, <3>2
  <2>3. ASSUME NEW j \in Instance, pc'[j] = "settle", result'[j] = "SENT", CurKey(j)'.kind = Builtin
        PROVE  Delivered(CurKey(j))'
    <3>1. pc[j] = "settle" /\ result[j] = "SENT" /\ CurKey(j)' = CurKey(j) /\ CurKey(j) \in Key
      BY <1>1, <2>3, KeyInHand DEF CurKey, Delivering
    <3>2. Delivered(CurKey(j))
      BY <2>3, <3>1 DEF IInv, SentInv
    <3> QED BY <3>1, <3>2 DEF Delivered
  <2> QED BY <2>1, <2>2, <2>3 DEF SentInv, SentMeansDelivered
<1>6. ActInv' /\ SentOnce' /\ LeaseInv'
  BY <1>1, ActFrame, CountsFrame, LeaseFrame
<1> QED BY <1>3, <1>4, <1>5, <1>6 DEF IInv

LEMMA SettleInv == ASSUME IInv, NEW i \in Instance, Settle(i) PROVE IInv'
<1> DEFINE new == [status |-> result[i], attempts |-> row[CurKey(i)].attempts + 1]
<1>1. new \in [status : {"PENDING"} \cup Settled, attempts : Nat] /\ new.status = result[i]
  BY KeyInHand DEF Settle, IInv, LocalInv, Types, TypeOK, Settled, Delivering
<1>2. row' = IF MayWrite(CurKey(i)) THEN [row EXCEPT ![CurKey(i)] = new] ELSE row
  BY KeyInHand DEF Settle, IInv, Types, TypeOK, Delivering
<1> HIDE DEF new
<1> QED BY <1>1, <1>2, RowWritten DEF Settle

LEMMA RecordFailureInv == ASSUME IInv, NEW i \in Instance, RecordFailure(i) PROVE IInv'
<1> DEFINE n == cur[i].attempts + 1
           new == [status |-> StatusAfter(n), attempts |-> n]
<1>1. n \in Nat
  BY KeyInHand DEF RecordFailure, Delivering, Delivery
<1>2. /\ new \in [status : {"PENDING"} \cup Settled, attempts : Nat] /\ new.status # "SENT"
      /\ row' = IF MayWrite(CurKey(i)) THEN [row EXCEPT ![CurKey(i)] = new] ELSE row
  BY <1>1 DEF RecordFailure, StatusAfter, Settled
<1> HIDE DEF new, n
<1> QED BY <1>2, RowWritten DEF RecordFailure

-----------------------------------------------------------------------------
LEMMA NextInv == IInv /\ [Next]_vars => IInv'
<1> SUFFICES ASSUME IInv, [Next]_vars PROVE IInv'
  OBVIOUS
<1>1. CASE People \/ NextDay \/ Tick
  BY <1>1, PeopleInv, TickInv
<1>2. ASSUME NEW i \in Instance, Step(i) PROVE IInv'
  BY <1>2, AcquireInv, PlanInv, FetchInv, NextRowInv, RunEndsInv, CheckInv, NotifyInv, FindRunInv,
     MarkInterruptedInv, StartRuleInv, ActStepInv, FinishRuleInv, SettleInv, RecordFailureInv DEF Step
<1>3. ASSUME NEW i \in Instance, QueryFails(i) \/ RunFails(i) \/ Crash(i) PROVE IInv'
  BY <1>3, QueryFailsInv, RunEndsInv
<1>4. CASE UNCHANGED vars
  <2>1. UNCHANGED <<people, today, db, local, stalls>>
    BY <1>4 DEF vars
  <2>2. Types'
    BY <2>1 DEF IInv, Types, TypeOK, people, db, local
  <2>3. LocalInv'
    BY <2>1 DEF IInv, LocalInv, CurKey, local
  <2>4. ActInv' /\ SentInv' /\ SentOnce' /\ LeaseInv'
    BY <2>1, ActFrame, SentFrame, CountsFrame, LeaseFrame DEF db, local
  <2> QED BY <2>2, <2>3, <2>4 DEF IInv
<1> QED BY <1>1, <1>2, <1>3, <1>4 DEF Next

\* The places of the processes, what they have in hand and the lease determine who may
\* send what: the invariant the two properties below follow from.
THEOREM DeliveryInvariant == Spec => []IInv
<1> QED BY InitInv, NextInv, PTL DEF Spec

\* What the run checks of the rows: their types, a reminder recorded as sent was sent,
\* and a single run works as long as no process is suspended for longer than its lease.
THEOREM DeliveryHolds == Spec => []DeliveryInv
<1>1. IInv => DeliveryInv
  <2>1. ASSUME IInv PROVE OneRunAtATime
    BY <2>1 DEF IInv, LeaseInv, OneRunAtATime
  <2> QED BY <2>1 DEF IInv, Types, SentInv, DeliveryInv
<1> QED BY <1>1, DeliveryInvariant, PTL

-----------------------------------------------------------------------------
(* One recipient, as long as nothing fails: one process works, what it has   *)
(* in its queue or in hand is pending, and a key somebody was told of is     *)
(* settled or about to be.                                                   *)

Reached(k) == \E p \in Recipient : notified[k][p] > 0

Smooth ==
    /\ \A i \in Instance :
          /\ pc[i] # "failed"
          /\ \A q \in queue[i] : row[q.key] = [status |-> "PENDING", attempts |-> q.attempts]
          /\ pc[i] \in Delivering => /\ row[CurKey(i)].status = "PENDING"
                                     /\ \A q \in queue[i] : q.key # CurKey(i)
    /\ \A k \in Key : Reached(k) => row[k].status \in Settled
                                 \/ \E i \in Instance : pc[i] = "settle" /\ CurKey(i) = k

SmoothInv ==
    /\ faults \in Nat /\ stalls <= faults
    /\ \A i \in Instance : pc[i] = "idle" => queue[i] = {}
    /\ faults = 0 => Smooth
    /\ OneRecipient

\* Whoever works is alone, until a fault happens.
LEMMA Alone ==
    ASSUME IInv, SmoothInv, faults = 0, NEW i \in Instance, pc[i] # "idle"
    PROVE  \A j \in Instance : j # i => pc[j] = "idle" /\ queue[j] = {}
BY DEF IInv, Types, LeaseInv, SmoothInv

\* A step that writes no row, tells nobody and takes no row in hand.
LEMMA SmoothFrame ==
    ASSUME SmoothInv, faults' \in Nat, stalls' <= faults', faults' = 0 => faults = 0,
           UNCHANGED <<row, notified, queue, cur>>,
           \A j \in Instance :
              /\ pc'[j] = "idle" => pc[j] = "idle"
              /\ pc'[j] \in Delivering => pc[j] \in Delivering
              /\ pc[j] = "settle" => pc'[j] = "settle"
              /\ pc'[j] = "failed" => pc[j] = "failed"
    PROVE  SmoothInv'
<1>1. ASSUME faults' = 0 PROVE Smooth'
  BY <1>1 DEF SmoothInv, Smooth, Reached, CurKey
<1> QED BY <1>1 DEF SmoothInv, OneRecipient

\* After a fault only the queues of the processes at rest matter.
LEMMA FaultFrame ==
    ASSUME SmoothInv, faults' = faults + 1, stalls' <= faults',
           \A j \in Instance : pc'[j] = "idle" => queue'[j] = {}
    PROVE  SmoothInv'
BY DEF SmoothInv, OneRecipient

LEMMA SmoothNotify ==
    ASSUME IInv, SmoothInv, NEW i \in Instance, Notify(i)
    PROVE  SmoothInv'
<1> DEFINE k == CurKey(i)
<1>1. PICK p \in Recipient : notified' = [notified EXCEPT ![k][p] = 1]
  BY DEF Notify, Inserted, Recipient, IInv, LocalInv
<1>2. /\ k \in Key /\ pc[i] = "notify" /\ notified \in [Key -> [Recipient -> Nat]]
      /\ UNCHANGED <<row, queue, cur, faults, stalls>>
      /\ pc' = [pc EXCEPT ![i] = "settle"] /\ pc \in [Instance -> Places]
  BY KeyInHand DEF Notify, Outcome, Goto, Delivering, IInv, Types, TypeOK
<1>3. ASSUME faults = 0 PROVE ~Reached(k)
  <2>1. row[k].status = "PENDING"
    BY <1>2, <1>3 DEF SmoothInv, Smooth, Delivering
  <2>2. \A j \in Instance : pc[j] # "settle"
    BY <1>2, <1>3, Alone
  <2> QED BY <1>2, <1>3, <2>1, <2>2 DEF SmoothInv, Smooth, Settled
<1>4. \A x \in Key : x # k => notified'[x] = notified[x]
  BY <1>1, <1>2
<1>5. \A r \in Recipient : r # p => notified'[k][r] = notified[k][r]
  BY <1>1, <1>2
<1> HIDE DEF k
<1>6. OneRecipient'
  <2> SUFFICES ASSUME faults' = 0, NEW x \in Key, NEW r \in Recipient, NEW s \in Recipient,
                      notified'[x][r] > 0, notified'[x][s] > 0
               PROVE  r = s
    BY DEF OneRecipient
  <2>1. CASE x = k
    BY <1>2, <1>3, <1>5, <2>1 DEF Reached
  <2>2. CASE x # k
    BY <1>2, <1>4, <2>2 DEF SmoothInv, OneRecipient
  <2> QED BY <2>1, <2>2
<1>7. ASSUME faults' = 0 PROVE Smooth'
  <2>1. \A x \in Key : x # k /\ Reached(x)' => Reached(x)
    BY <1>4 DEF Reached
  <2>2. \A j \in Instance : pc[j] = "settle" => pc'[j] = "settle"
    BY <1>2
  <2>3. pc'[i] = "settle" /\ CurKey(i)' = k
    BY <1>2 DEF CurKey, k
  <2>4. \A x \in Key : Reached(x)' => row'[x].status \in Settled
                                  \/ \E j \in Instance : pc'[j] = "settle" /\ CurKey(j)' = x
    BY <1>2, <1>7, <2>1, <2>2, <2>3 DEF SmoothInv, Smooth, CurKey
  <2>5. \A j \in Instance : pc'[j] # "failed" /\ (pc'[j] \in Delivering => pc[j] \in Delivering)
    BY <1>2, <1>7 DEF SmoothInv, Smooth, Delivering
  <2> QED BY <1>2, <1>7, <2>4, <2>5 DEF SmoothInv, Smooth, CurKey
<1>8. \A j \in Instance : pc'[j] = "idle" => queue'[j] = {}
  BY <1>2 DEF SmoothInv
<1> QED BY <1>2, <1>6, <1>7, <1>8 DEF SmoothInv

LEMMA SmoothSettle ==
    ASSUME IInv, SmoothInv, NEW i \in Instance, Settle(i)
    PROVE  SmoothInv'
<1> DEFINE k == CurKey(i)
<1>1. /\ k \in Key /\ pc[i] = "settle" /\ result[i] \in {"SENT", "SKIPPED"}
      /\ UNCHANGED <<notified, queue, faults, stalls>>
      /\ pc' = [pc EXCEPT ![i] = "next"] /\ pc \in [Instance -> Places]
      /\ row \in [Key -> [status : {"absent", "PENDING"} \cup Settled, attempts : Nat]]
  BY KeyInHand DEF Settle, Goto, Delivering, IInv, Types, TypeOK, LocalInv
<1>2. ASSUME faults' = 0 PROVE Smooth'
  <2>1. row[k].status = "PENDING" /\ \A q \in queue[i] : q.key # k
    BY <1>1, <1>2 DEF SmoothInv, Smooth, Delivering
  <2>2. row' = [row EXCEPT ![k] = [status |-> result[i], attempts |-> @.attempts + 1]]
    BY <2>1 DEF Settle, MayWrite
  <2>3. \A j \in Instance : j # i => pc[j] = "idle" /\ queue[j] = {}
    BY <1>1, <1>2, Alone
  <2>4. row'[k].status \in Settled /\ \A x \in Key : x # k => row'[x] = row[x]
    BY <1>1, <2>2 DEF Settled
  <2>5. \A q \in queue[i] : q.key \in Key
    BY DEF IInv, Types, TypeOK
  <2>6. \A j \in Instance : pc'[j] \notin Delivering
    BY <1>1, <2>3 DEF Delivering
  <2>7. ASSUME NEW j \in Instance, NEW q \in queue'[j]
        PROVE  row'[q.key] = [status |-> "PENDING", attempts |-> q.attempts]
    <3>1. j = i /\ q \in queue[i] /\ row[q.key] = [status |-> "PENDING", attempts |-> q.attempts]
      BY <1>1, <1>2, <2>3, <2>7 DEF SmoothInv, Smooth
    <3> QED BY <2>1, <2>4, <2>5, <3>1
  <2>8. ASSUME NEW x \in Key, Reached(x)' PROVE row'[x].status \in Settled
    <3>1. row[x].status \in Settled \/ x = k
      BY <1>1, <1>2, <2>3, <2>8 DEF SmoothInv, Smooth, Reached
    <3> QED BY <2>4, <3>1
  <2> QED BY <2>6, <2>7, <2>8 DEF Smooth, Delivering
<1>3. \A j \in Instance : pc'[j] = "idle" => queue'[j] = {}
  BY <1>1 DEF SmoothInv
<1> QED BY <1>1, <1>2, <1>3 DEF SmoothInv, OneRecipient

LEMMA SmoothPlan ==
    ASSUME IInv, SmoothInv, NEW i \in Instance, Plan(i)
    PROVE  SmoothInv'
<1>1. /\ pc[i] = "plan" /\ UNCHANGED <<notified, queue, cur, faults, stalls>>
      /\ pc' = [pc EXCEPT ![i] = "fetch"] /\ pc \in [Instance -> Places]
  BY DEF Plan, Goto, IInv, Types
<1>2. \A x \in Key : row[x].status # "absent" => row'[x] = row[x]
  BY DEF Plan, Absent
<1>3. \A j \in Instance : \A q \in queue[j] : q.key \in Key
  BY DEF IInv, Types, TypeOK
<1>4. \A j \in Instance : /\ pc'[j] \in Delivering => pc[j] \in Delivering /\ CurKey(j) \in Key
                          /\ pc[j] = "settle" => pc'[j] = "settle"
                          /\ pc'[j] = "idle" => pc[j] = "idle"
                          /\ pc'[j] = "failed" => pc[j] = "failed"
  BY <1>1, KeyInHand DEF Delivering
<1>5. ASSUME faults' = 0 PROVE Smooth'
  <2>1. Smooth
    BY <1>1, <1>5 DEF SmoothInv
  <2>2. \A j \in Instance : \A q \in queue'[j] :
           row'[q.key] = [status |-> "PENDING", attempts |-> q.attempts]
    <3> SUFFICES ASSUME NEW j \in Instance, NEW q \in queue[j]
                 PROVE  row'[q.key] = [status |-> "PENDING", attempts |-> q.attempts]
      BY <1>1
    <3>1. row[q.key] = [status |-> "PENDING", attempts |-> q.attempts] /\ q.key \in Key
      BY <1>3, <2>1 DEF Smooth
    <3>2. row[q.key].status # "absent"
      BY <3>1
    <3> QED BY <1>2, <3>1, <3>2
  <2>3. \A j \in Instance : pc'[j] \in Delivering =>
           row'[CurKey(j)'].status = "PENDING" /\ \A q \in queue'[j] : q.key # CurKey(j)'
    BY <1>1, <1>2, <1>4, <2>1 DEF Smooth, CurKey
  <2>4. \A x \in Key : Reached(x)' => row'[x].status \in Settled
                                  \/ \E j \in Instance : pc'[j] = "settle" /\ CurKey(j)' = x
    BY <1>1, <1>2, <1>4, <2>1 DEF Smooth, CurKey, Reached, Settled
  <2> QED BY <1>4, <2>1, <2>2, <2>3, <2>4 DEF Smooth
<1> QED BY <1>1, <1>4, <1>5 DEF SmoothInv, OneRecipient

LEMMA SmoothReading ==
    ASSUME IInv, SmoothInv, NEW i \in Instance, Fetch(i) \/ NextRow(i)
    PROVE  SmoothInv'
<1>1. /\ pc[i] \in {"fetch", "next"} /\ UNCHANGED <<row, notified, faults, stalls>>
      /\ pc \in [Instance -> Places] /\ pc'[i] \in {"next", "check"}
      /\ \A j \in Instance : j # i => pc'[j] = pc[j] /\ queue'[j] = queue[j] /\ CurKey(j)' = CurKey(j)
      /\ queue \in [Instance -> SUBSET [key : Key, attempts : Nat]]
      /\ row \in [Key -> [status : {"absent", "PENDING"} \cup Settled, attempts : Nat]]
  BY DEF Fetch, NextRow, Goto, CurKey, db, IInv, Types, TypeOK
<1>2. ASSUME faults' = 0 PROVE Smooth'
  <2>1. Smooth
    BY <1>1, <1>2 DEF SmoothInv
  <2>2. \A q \in queue'[i] : row[q.key] = [status |-> "PENDING", attempts |-> q.attempts]
    <3>1. CASE Fetch(i)
      BY <1>1, <3>1 DEF Fetch
    <3>2. CASE NextRow(i)
      <4>1. queue'[i] \subseteq queue[i]
        BY <1>1, <3>2 DEF NextRow
      <4> QED BY <2>1, <4>1 DEF Smooth
    <3> QED BY <3>1, <3>2
  <2>3. pc'[i] = "check" => /\ row[CurKey(i)'].status = "PENDING"
                           /\ \A q \in queue'[i] : q.key # CurKey(i)'
    <3>1. CASE Fetch(i)
      BY <1>1, <3>1 DEF Fetch, Goto
    <3>2. CASE NextRow(i)
      <4>1. PICK q \in queue[i] : /\ cur' = [cur EXCEPT ![i] = [key |-> q.key, attempts |-> q.attempts, to |-> None]]
                                  /\ queue' = [queue EXCEPT ![i] = @ \ {q}]
        BY <3>2 DEF NextRow
      <4>2. CurKey(i)' = q.key /\ queue'[i] = queue[i] \ {q}
        BY <1>1, <4>1 DEF CurKey, IInv, Types
      <4>3. \A x \in queue[i] : x.key = q.key => x = q
        <5>1. \A x \in queue[i] : row[x.key].attempts = x.attempts
          <6>1. \A x \in queue[i] : row[x.key] = [status |-> "PENDING", attempts |-> x.attempts]
            BY <2>1 DEF Smooth
          <6>2. \A x \in queue[i] : [status |-> "PENDING", attempts |-> x.attempts].attempts = x.attempts
            OBVIOUS
          <6> QED BY <6>1, <6>2
        <5>2. \A x \in queue[i] : x \in [key : Key, attempts : Nat]
          BY <1>1
        <5> QED BY <5>1, <5>2
      <4>4. row[q.key].status = "PENDING"
        <5>1. row[q.key] = [status |-> "PENDING", attempts |-> q.attempts]
          BY <2>1 DEF Smooth
        <5> QED BY <5>1
      <4> QED BY <4>2, <4>3, <4>4
    <3> QED BY <3>1, <3>2
  <2>4. \A j \in Instance :
           /\ pc'[j] # "failed"
           /\ \A q \in queue'[j] : row'[q.key] = [status |-> "PENDING", attempts |-> q.attempts]
           /\ pc'[j] \in Delivering => /\ row'[CurKey(j)'].status = "PENDING"
                                       /\ \A q \in queue'[j] : q.key # CurKey(j)'
    BY <1>1, <2>1, <2>2, <2>3 DEF Smooth, Delivering
  <2>5. \A x \in Key : Reached(x)' => row'[x].status \in Settled
                                  \/ \E j \in Instance : pc'[j] = "settle" /\ CurKey(j)' = x
    <3> SUFFICES ASSUME NEW x \in Key, Reached(x)', row'[x].status \notin Settled
                 PROVE  \E j \in Instance : pc'[j] = "settle" /\ CurKey(j)' = x
      OBVIOUS
    <3>1. PICK j \in Instance : pc[j] = "settle" /\ CurKey(j) = x
      BY <1>1, <2>1 DEF Smooth, Reached
    <3>2. j # i
      BY <1>1, <3>1
    <3> QED BY <1>1, <3>1, <3>2
  <2> QED BY <2>4, <2>5 DEF Smooth
<1>3. \A j \in Instance : pc'[j] = "idle" => queue'[j] = {}
  BY <1>1 DEF SmoothInv
<1> QED BY <1>1, <1>2, <1>3 DEF SmoothInv, OneRecipient

LEMMA SmoothEnds ==
    ASSUME IInv, SmoothInv, NEW i \in Instance, LostLease(i) \/ EndRun(i)
    PROVE  SmoothInv'
<1>1. /\ pc[i] = "next" /\ UNCHANGED <<row, notified, faults, stalls>> /\ Forget(i)
      /\ pc \in [Instance -> Places]
  BY DEF LostLease, EndRun, db, IInv, Types
<1>2. /\ pc'[i] = "idle" /\ queue'[i] = {}
      /\ \A j \in Instance : j # i => pc'[j] = pc[j] /\ queue'[j] = queue[j] /\ CurKey(j)' = CurKey(j)
  BY <1>1 DEF Forget, Goto, CurKey, IInv, Types, TypeOK
<1>3. ASSUME faults' = 0 PROVE Smooth'
  <2>1. Smooth
    BY <1>1, <1>3 DEF SmoothInv
  <2>2. \A x \in Key : Reached(x)' => row'[x].status \in Settled
                                  \/ \E j \in Instance : pc'[j] = "settle" /\ CurKey(j)' = x
    BY <1>1, <1>2, <2>1 DEF Smooth, Reached
  <2>3. \A j \in Instance :
           /\ pc'[j] # "failed"
           /\ \A q \in queue'[j] : row'[q.key] = [status |-> "PENDING", attempts |-> q.attempts]
           /\ pc'[j] \in Delivering => /\ row'[CurKey(j)'].status = "PENDING"
                                       /\ \A q \in queue'[j] : q.key # CurKey(j)'
    BY <1>1, <1>2, <2>1 DEF Smooth, Delivering
  <2> QED BY <2>2, <2>3 DEF Smooth
<1> QED BY <1>1, <1>2, <1>3 DEF SmoothInv, OneRecipient

LEMMA SmoothStep == IInv /\ SmoothInv /\ [Next]_vars => SmoothInv'
<1> SUFFICES ASSUME IInv, SmoothInv, [Next]_vars PROVE SmoothInv'
  OBVIOUS
<1>0. faults \in Nat /\ stalls <= faults /\ stalls \in Nat /\ pc \in [Instance -> Places]
  BY DEF SmoothInv, IInv, Types
<1>1. CASE People \/ NextDay \/ Tick \/ UNCHANGED vars
  <2>1. faults' \in Nat /\ stalls' <= faults' /\ (faults' = 0 => faults = 0)
    BY <1>0, <1>1 DEF People, ChangeDue, CompleteOrReopen, Assign, ChangeRule, NextDay, Tick, vars
  <2>2. UNCHANGED <<row, notified, queue, cur, pc>>
    BY <1>1 DEF People, ChangeDue, CompleteOrReopen, Assign, ChangeRule, NextDay, Tick, vars, db, local
  <2> QED BY <2>1, <2>2, SmoothFrame
<1>2. ASSUME NEW i \in Instance,
             Acquire(i) \/ Check(i) \/ FindRun(i) \/ MarkInterrupted(i) \/ StartRule(i) \/ Act(i) \/ FinishRule(i)
      PROVE  SmoothInv'
  <2>0. CASE Check(i) /\ StillDue(i)
    <3>1. /\ pc[i] = "check" /\ CurKey(i)' = CurKey(i) /\ UNCHANGED <<row, notified, queue, faults, stalls>>
          /\ pc'[i] \in {"notify", "find"}
          /\ \A j \in Instance : j # i => pc'[j] = pc[j] /\ CurKey(j)' = CurKey(j)
      <4>1. cur[i] \in Delivery /\ pc[i] = "check" /\ cur \in [Instance -> {None} \cup Delivery]
        BY <2>0, KeyInHand DEF Check, Delivering, IInv, Types
      <4>2. /\ cur' = [cur EXCEPT ![i] = [cur[i] EXCEPT !.to = assignee[CurKey(i).task]]]
            /\ \E label \in {"notify", "find"} : pc' = [pc EXCEPT ![i] = label]
        BY <2>0 DEF Check, Goto
      <4>3. cur'[i].key = cur[i].key /\ \A j \in Instance : j # i => cur'[j] = cur[j]
        BY <4>1, <4>2 DEF Delivery
      <4>4. pc'[i] \in {"notify", "find"} /\ \A j \in Instance : j # i => pc'[j] = pc[j]
        BY <1>0, <4>2
      <4>5. UNCHANGED <<row, notified, queue, faults, stalls>>
        BY <2>0 DEF Check, db
      <4> QED BY <4>1, <4>3, <4>4, <4>5 DEF CurKey
    <3>2. ASSUME faults' = 0 PROVE Smooth'
      <4>1. Smooth
        BY <3>1, <3>2 DEF SmoothInv
      <4>2. \A x \in Key : Reached(x)' => row'[x].status \in Settled
                                      \/ \E j \in Instance : pc'[j] = "settle" /\ CurKey(j)' = x
        BY <3>1, <4>1 DEF Smooth, Reached
      <4>3. \A j \in Instance :
               /\ pc'[j] # "failed"
               /\ \A q \in queue'[j] : row'[q.key] = [status |-> "PENDING", attempts |-> q.attempts]
               /\ pc'[j] \in Delivering => /\ row'[CurKey(j)'].status = "PENDING"
                                           /\ \A q \in queue'[j] : q.key # CurKey(j)'
        BY <3>1, <4>1 DEF Smooth, Delivering
      <4> QED BY <4>2, <4>3 DEF Smooth
    <3>3. \A j \in Instance : pc'[j] = "idle" => queue'[j] = {}
      BY <3>1 DEF SmoothInv
    <3> QED BY <1>0, <3>1, <3>2, <3>3 DEF SmoothInv, OneRecipient
  <2>1. CASE ~(Check(i) /\ StillDue(i))
    <3>1. UNCHANGED <<row, notified, queue, cur, faults, stalls>>
      BY <1>2, <2>1 DEF Acquire, Check, Outcome, FindRun, MarkInterrupted, StartRule, Act, FinishRule, db
    <3>2. \E label \in {"plan", "mark", "run", "act", "finish", "settle"} : pc' = [pc EXCEPT ![i] = label]
      BY <1>2, <2>1 DEF Acquire, Check, Outcome, Goto, FindRun, MarkInterrupted, StartRule, Act, FinishRule
    <3>3. /\ pc[i] \in {"idle"} \cup Delivering /\ pc[i] # "settle"
          /\ pc[i] = "idle" => pc' = [pc EXCEPT ![i] = "plan"]
      BY <1>2 DEF Acquire, Check, Goto, FindRun, MarkInterrupted, StartRule, Act, FinishRule, Delivering
    <3>4. \A j \in Instance : /\ pc'[j] = "idle" => pc[j] = "idle"
                              /\ pc'[j] \in Delivering => pc[j] \in Delivering
                              /\ pc[j] = "settle" => pc'[j] = "settle"
                              /\ pc'[j] = "failed" => pc[j] = "failed"
      BY <1>0, <3>2, <3>3 DEF Delivering
    <3> QED BY <1>0, <3>1, <3>4, SmoothFrame
  <2> QED BY <2>0, <2>1
<1>3. ASSUME NEW i \in Instance, QueryFails(i) \/ RunFails(i) \/ Crash(i) PROVE SmoothInv'
  <2>1. faults' = faults + 1 /\ stalls' = stalls
    BY <1>3 DEF QueryFails, RunFails, Crash, Fault
  <2>2. \A j \in Instance : pc'[j] = "idle" => queue'[j] = {}
    BY <1>0, <1>3 DEF QueryFails, RunFails, Crash, Forget, Goto, SmoothInv, IInv, Types, TypeOK
  <2> QED BY <1>0, <2>1, <2>2, FaultFrame
<1>4. ASSUME NEW i \in Instance, RecordFailure(i) PROVE SmoothInv'
  <2>1. faults # 0
    BY <1>4 DEF RecordFailure, SmoothInv, Smooth
  <2>2. UNCHANGED <<faults, stalls, queue>> /\ pc' = [pc EXCEPT ![i] = "next"]
    BY <1>4 DEF RecordFailure, Goto
  <2> QED BY <1>0, <2>1, <2>2 DEF SmoothInv, OneRecipient
<1> QED BY <1>1, <1>2, <1>3, <1>4, SmoothNotify, SmoothSettle, SmoothPlan, SmoothReading, SmoothEnds
        DEF Next, Step

\* A reminder is never sent twice, whatever the processes, crashes, suspensions and
\* retries: a person is notified of a key once, a rule is carried out once for a key,
\* and a key reaches one recipient as long as nothing fails.
THEOREM NeverTwice == Spec => []NeverSentTwice
<1>1. Init => SmoothInv
  BY DEF Init, SmoothInv, Smooth, OneRecipient, Reached, Delivering, Recipient
<1>2. IInv /\ SmoothInv => NeverSentTwice
  BY DEF IInv, SmoothInv, NeverSentTwice
<1> QED BY <1>1, <1>2, DeliveryInvariant, SmoothStep, PTL DEF Spec

-----------------------------------------------------------------------------
LEMMA SettledStep ==
    ASSUME IInv, [Next]_vars, NEW k \in Key, row[k].status \in Settled
    PROVE  row'[k] = row[k]
<1>1. ASSUME NEW i \in Instance, Plan(i) PROVE row'[k] = row[k]
  BY <1>1 DEF Plan, Absent, Settled
<1>2. ASSUME NEW i \in Instance, Settle(i) \/ RecordFailure(i) PROVE row'[k] = row[k]
  <2>1. pc[i] \in Delivering /\ ~(k = CurKey(i) /\ MayWrite(CurKey(i)))
    BY <1>2 DEF Settle, RecordFailure, MayWrite, Settled, Delivering
  <2>2. row \in [Key -> [status : {"absent", "PENDING"} \cup Settled, attempts : Nat]]
    BY DEF IInv, Types, TypeOK
  <2>3. CASE Settle(i)
    BY <2>1, <2>2, <2>3 DEF Settle
  <2>4. CASE RecordFailure(i)
    BY <2>1, <2>2, <2>4 DEF RecordFailure
  <2> QED BY <1>2, <2>3, <2>4
<1>3. ASSUME NEW i \in Instance, Step(i), ~Plan(i), ~Settle(i), ~RecordFailure(i) PROVE row' = row
  BY <1>3 DEF Step, Acquire, Fetch, NextRow, LostLease, EndRun, Check, Notify, FindRun,
     MarkInterrupted, StartRule, Act, FinishRule, db
<1>4. ASSUME NEW i \in Instance, QueryFails(i) \/ RunFails(i) \/ Crash(i) PROVE row' = row
  BY <1>4 DEF QueryFails, RunFails, Crash, db
<1>5. CASE People \/ NextDay
  BY <1>5 DEF People, ChangeDue, CompleteOrReopen, Assign, ChangeRule, NextDay, db
<1>6. CASE Tick \/ UNCHANGED vars
  BY <1>6 DEF Tick, vars, db
<1> QED BY <1>1, <1>2, <1>3, <1>4, <1>5, <1>6 DEF Next

\* A row is settled once: no late process, retry or plan rewrites what was recorded.
THEOREM SettledStays == Spec => SettledForGood
<1>1. IInv /\ [Next]_vars => [\A k \in Key : row[k].status \in Settled => row'[k] = row[k]]_vars
  BY SettledStep
<1> QED BY <1>1, DeliveryInvariant, PTL DEF Spec, SettledForGood

-----------------------------------------------------------------------------
(* The ledger.                                                             *)

LEMMA LedgerInit == Init => Ledger!Init
BY DEF Init, Absent, Ledger!Init, Ledger!Blank

\* A step that touches none of what the ledger reads.
LEMMA Stutters ==
    ASSUME UNCHANGED <<row, notified, acted>> PROVE UNCHANGED Ledger!ledger
BY DEF Ledger!ledger

LEMMA PlanOpens == ASSUME IInv, IInv', NEW i \in Instance, Plan(i) PROVE Ledger!Open
<1>1. row' \in [Key -> Ledger!Entry]
  BY DEF IInv, Types, TypeOK, Settled, Ledger!Entry, Ledger!Closed
<1>2. \A k \in Key : row'[k] # row[k] => row[k] = Ledger!Blank /\ row'[k] = Ledger!Opened
  BY DEF Plan, Absent, Ledger!Blank, Ledger!Opened
<1>3. UNCHANGED <<notified, acted>>
  BY DEF Plan
<1> QED BY <1>1, <1>2, <1>3 DEF Ledger!Open

LEMMA NotifyTells ==
    ASSUME IInv, NEW i \in Instance, Notify(i)
    PROVE  \E k \in Key, p \in Recipient : Ledger!Tell(k, p)
<1>1. PICK k \in Key, p \in Recipient : notified' = [notified EXCEPT ![k][p] = Inserted(k, p)]
  BY KeyInHand DEF Notify, Delivering, IInv, LocalInv, Recipient
<1>2. notified' = [notified EXCEPT ![k][p] = 1] /\ row' = row /\ acted' = acted
  BY <1>1 DEF Notify, Inserted
<1>3. \A x \in Key : {q \in Recipient : notified'[x][q] > 0} =
         IF x = k THEN {q \in Recipient : notified[x][q] > 0} \cup {p}
                  ELSE {q \in Recipient : notified[x][q] > 0}
  BY <1>2 DEF IInv, Types, TypeOK
<1> DEFINE Told(n) == [x \in Key |-> {q \in Recipient : n[x][q] > 0}]
<1>4. Told(notified') = [Told(notified) EXCEPT ![k] = Told(notified)[k] \cup {p}]
  BY <1>3
<1>5. {x \in Key : acted'[x] > 0} = {x \in Key : acted[x] > 0}
  BY <1>2
<1> QED BY <1>2, <1>4, <1>5 DEF Ledger!Tell

LEMMA ActCarriesOut ==
    ASSUME IInv, NEW i \in Instance, Act(i)
    PROVE  (\E k \in Key : Ledger!CarryOut(k)) \/ UNCHANGED Ledger!ledger
<1>1. CurKey(i) \in Key /\ acted[CurKey(i)] = 0 /\ row' = row /\ notified' = notified
  BY KeyInHand DEF Act, Delivering, IInv, ActInv
<1>2. CASE acted' = acted
  BY <1>1, <1>2, Stutters
<1>3. CASE acted' = [acted EXCEPT ![CurKey(i)] = acted[CurKey(i)] + 1]
  <2>1. {k \in Key : acted'[k] > 0} = {k \in Key : acted[k] > 0} \cup {CurKey(i)}
    BY <1>1, <1>3 DEF IInv, Types, TypeOK
  <2>2. CurKey(i) \notin {k \in Key : acted[k] > 0}
    BY <1>1
  <2> QED BY <1>1, <2>1, <2>2 DEF Ledger!CarryOut
<1> QED BY <1>2, <1>3 DEF Act

LEMMA WriteRecords ==
    ASSUME IInv, IInv', NEW i \in Instance, Settle(i) \/ RecordFailure(i)
    PROVE  (\E k \in Key : Ledger!Record(k)) \/ UNCHANGED Ledger!ledger
<1> DEFINE k == CurKey(i)
<1>1. k \in Key /\ notified' = notified /\ acted' = acted
  BY KeyInHand DEF Settle, RecordFailure, Delivering
<1>2. CASE ~MayWrite(k)
  <2>1. row' = row
    BY <1>2 DEF Settle, RecordFailure
  <2> QED BY <1>1, <2>1, Stutters
<1>3. CASE MayWrite(k)
  <2>1. row \in [Key -> Ledger!Entry] /\ row' \in [Key -> Ledger!Entry]
    BY DEF IInv, Types, TypeOK, Settled, Ledger!Entry, Ledger!Closed
  <2>2. PICK new : /\ row' = [row EXCEPT ![k] = new] /\ new.status # "absent"
                   /\ new.status = "SENT" => pc[i] = "settle" /\ result[i] = "SENT"
    <3>1. CASE Settle(i)
      <4> DEFINE e == [status |-> result[i], attempts |-> row[k].attempts + 1]
      <4>1. /\ row' = [row EXCEPT ![k] = e] /\ e.status \in {"SENT", "SKIPPED"}
            /\ e.status = result[i] /\ pc[i] = "settle"
        BY <1>1, <1>3, <2>1, <3>1 DEF Settle, IInv, LocalInv
      <4> HIDE DEF e, k
      <4> QED BY <4>1
    <3>2. CASE RecordFailure(i)
      <4> DEFINE n == cur[i].attempts + 1
                 e == [status |-> StatusAfter(n), attempts |-> n]
      <4>1. row' = [row EXCEPT ![k] = e] /\ e.status \in {"PENDING", "FAILED"}
        BY <1>3, <3>2 DEF RecordFailure, StatusAfter
      <4> HIDE DEF e, k
      <4> QED BY <4>1
    <3> QED BY <3>1, <3>2
  <2>3. row'[k] = new /\ \A x \in Key \ {k} : row'[x] = row[x]
    BY <1>1, <2>1, <2>2
  <2>4. new.status = "SENT" /\ k.kind = Builtin => {p \in Recipient : notified[k][p] > 0} # {}
    BY <2>2 DEF IInv, SentInv, Delivered
  <2>5. row[k].status = "PENDING"
    BY <1>3 DEF MayWrite
  <2> QED BY <1>1, <2>1, <2>2, <2>3, <2>4, <2>5 DEF Ledger!Record
<1> QED BY <1>2, <1>3

LEMMA LedgerStep ==
    ASSUME IInv, IInv', [Next]_vars
    PROVE  [Ledger!Next]_(Ledger!ledger)
<1>1. ASSUME NEW i \in Instance, Plan(i) \/ Notify(i) \/ Act(i) \/ Settle(i) \/ RecordFailure(i)
      PROVE  [Ledger!Next]_(Ledger!ledger)
  BY <1>1, PlanOpens, NotifyTells, ActCarriesOut, WriteRecords DEF Ledger!Next
<1>2. ASSUME NEW i \in Instance, Step(i),
             ~(Plan(i) \/ Notify(i) \/ Act(i) \/ Settle(i) \/ RecordFailure(i))
      PROVE  UNCHANGED <<row, notified, acted>>
  BY <1>2 DEF Step, Acquire, Fetch, NextRow, LostLease, EndRun, Check, FindRun, MarkInterrupted,
     StartRule, FinishRule, db
<1>3. ASSUME NEW i \in Instance, QueryFails(i) \/ RunFails(i) \/ Crash(i)
      PROVE  UNCHANGED <<row, notified, acted>>
  BY <1>3 DEF QueryFails, RunFails, Crash, db
<1>4. CASE People \/ NextDay
  <2>1. UNCHANGED <<row, notified, acted>>
    BY <1>4 DEF People, ChangeDue, CompleteOrReopen, Assign, ChangeRule, NextDay, db
  <2> QED BY <2>1, Stutters
<1>5. CASE Tick \/ UNCHANGED vars
  <2>1. UNCHANGED <<row, notified, acted>>
    BY <1>5 DEF Tick, vars, db
  <2> QED BY <2>1, Stutters
<1> QED BY <1>1, <1>2, <1>3, <1>4, <1>5, Stutters DEF Next

\* The processes, the lease, the retries and the faults implement the ledger: whatever
\* they do, an entry is opened once, closed once, as sent only after somebody was told
\* or found to take no notification.
THEOREM LedgerKept == Spec => KeepsLedger
<1>1. IInv /\ IInv' /\ [Next]_vars => [Ledger!Next]_(Ledger!ledger)
  BY LedgerStep
<1> QED BY <1>1, LedgerInit, DeliveryInvariant, PTL DEF Spec, KeepsLedger, Ledger!Spec
=============================================================================
