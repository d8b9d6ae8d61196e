----------------------------- MODULE StoreProofs -----------------------------
(***************************************************************************)
(* Proofs about ClientStore, for any number of windows, rows and values,   *)
(* and any queue of operations.                                            *)
(*                                                                         *)
(* An edit carries the value its user had on screen, and only the first    *)
(* operation of a queue may have been begun with nothing else under way.   *)
(* The edits under way are counted row by row, whatever their outcome: it  *)
(* is this count that keeps a reload away from the row.                    *)
(***************************************************************************)
EXTENDS ClientStore, FiniteSetTheorems, TLAPS

\* What an edit sends is what its user had on screen.
Honest(op) ==
    op.kind = "edit" => op.value \in Value /\ op.base = op.before[op.task] /\ op.base # Absent

Sent ==
    /\ \A op \in late : Honest(op)
    /\ \A w \in Window : \A i \in DOMAIN queue[w] : Honest(queue[w][i])

OneFirst == \A w \in Window : \A i \in DOMAIN queue[w] : queue[w][i].first => i = 1

Answered == \A w \in Window : answer[w] # NoAnswer => queue[w] # <<>> /\ answer[w].outcome # "none"

\* What the queue of a window says of what it shows.
Stays(q, table) ==
    q # <<>> /\ Head(q).kind = "edit" /\ Head(q).first
        /\ (\A i \in 2..Len(q) : Head(q).task \notin Targets(q[i]))
    => table[Head(q).task] = Head(q).value

StoreIInv == TypeOK /\ PendingCounts /\ (\A w \in Window : Stays(queue[w], shown[w])) /\ Sent /\ OneFirst /\ Answered

-----------------------------------------------------------------------------
(* Counting the edits of a queue.                                          *)

LEMMA EditsFinite ==
    ASSUME NEW q \in Seq(Op), NEW t
    PROVE  IsFiniteSet(EditsOf(q, t)) /\ Cardinality(EditsOf(q, t)) \in Nat
<1>1. EditsOf(q, t) \subseteq 1..Len(q) /\ Len(q) \in Nat
  BY DEF EditsOf
<1>2. IsFiniteSet(1..Len(q))
  BY <1>1, FS_Interval
<1> QED BY <1>1, <1>2, FS_Subset, FS_CardinalityType

LEMMA CountAppend ==
    ASSUME NEW q \in Seq(Op), NEW op \in Op, NEW t
    PROVE  Cardinality(EditsOf(Append(q, op), t)) =
               IF op.kind = "edit" /\ op.task = t THEN Cardinality(EditsOf(q, t)) + 1 ELSE Cardinality(EditsOf(q, t))
<1>1. /\ DOMAIN Append(q, op) = DOMAIN q \cup {Len(q) + 1} /\ Len(q) + 1 \notin DOMAIN q
      /\ Append(q, op)[Len(q) + 1] = op
      /\ \A i \in DOMAIN q : Append(q, op)[i] = q[i]
  OBVIOUS
<1>2. CASE op.kind = "edit" /\ op.task = t
  <2>1. EditsOf(Append(q, op), t) = EditsOf(q, t) \cup {Len(q) + 1} /\ Len(q) + 1 \notin EditsOf(q, t)
    BY <1>1, <1>2 DEF EditsOf
  <2> QED BY <1>2, <2>1, EditsFinite, FS_AddElement
<1>3. CASE ~(op.kind = "edit" /\ op.task = t)
  <2>1. EditsOf(Append(q, op), t) = EditsOf(q, t)
    BY <1>1, <1>3 DEF EditsOf
  <2> QED BY <1>3, <2>1
<1> QED BY <1>2, <1>3

LEMMA TailFacts ==
    ASSUME NEW q \in Seq(Op), q # <<>>
    PROVE  /\ Tail(q) \in Seq(Op) /\ Head(q) \in Op /\ Head(q) = q[1] /\ 1 \in DOMAIN q
           /\ \A i \in DOMAIN Tail(q) : i + 1 \in DOMAIN q /\ Tail(q)[i] = q[i + 1] /\ i \in Nat
           /\ \A i \in DOMAIN q : i # 1 => i - 1 \in DOMAIN Tail(q)
OBVIOUS

LEMMA AppendFacts ==
    ASSUME NEW q \in Seq(Op), NEW op \in Op
    PROVE  /\ DOMAIN Append(q, op) = DOMAIN q \cup {Len(q) + 1} /\ Len(q) \in Nat
           /\ Append(q, op)[Len(q) + 1] = op /\ Append(q, op) # <<>>
           /\ \A i \in DOMAIN q : Append(q, op)[i] = q[i]
           /\ Len(Append(q, op)) = Len(q) + 1 /\ Head(Append(q, op)) = Append(q, op)[1]
<1>1. /\ DOMAIN Append(q, op) = DOMAIN q \cup {Len(q) + 1} /\ Len(q) \in Nat
      /\ Append(q, op)[Len(q) + 1] = op /\ Len(Append(q, op)) = Len(q) + 1
      /\ \A i \in DOMAIN q : Append(q, op)[i] = q[i]
  OBVIOUS
<1>2. Append(q, op) \in Seq(Op) /\ Append(q, op) # <<>>
  BY <1>1
<1> QED BY <1>1, <1>2, TailFacts

LEMMA CountTail ==
    ASSUME NEW q \in Seq(Op), q # <<>>, NEW t
    PROVE  Cardinality(EditsOf(q, t)) =
               IF Head(q).kind = "edit" /\ Head(q).task = t
               THEN Cardinality(EditsOf(Tail(q), t)) + 1 ELSE Cardinality(EditsOf(Tail(q), t))
<1> DEFINE S == EditsOf(Tail(q), t)
           T == EditsOf(q, t) \ {1}
           f == [i \in S |-> i + 1]
<1>1. S \subseteq Nat /\ T \subseteq Nat \ {0, 1}
  BY TailFacts DEF EditsOf
<1>2. \A i \in S : i + 1 \in T
  BY TailFacts DEF EditsOf
<1>3. \A j \in T : j - 1 \in S
  <2> SUFFICES ASSUME NEW j \in T PROVE j - 1 \in S
    OBVIOUS
  <2>1. j \in DOMAIN q /\ j # 1 /\ j \in Nat /\ q[j].kind = "edit" /\ q[j].task = t
    BY <1>1 DEF EditsOf
  <2>2. j - 1 \in DOMAIN Tail(q) /\ Tail(q)[j - 1] = q[(j - 1) + 1] /\ (j - 1) + 1 = j
    BY <2>1, TailFacts
  <2> QED BY <2>1, <2>2 DEF EditsOf
<1> HIDE DEF S, T
<1>4. f \in Bijection(S, T)
  <2>1. f \in [S -> T]
    BY <1>2
  <2>2. \A a, b \in S : f[a] = f[b] => a = b
    BY <1>1
  <2>3. \A j \in T : \E i \in S : f[i] = j
    <3> SUFFICES ASSUME NEW j \in T PROVE \E i \in S : f[i] = j
      OBVIOUS
    <3>1. j - 1 \in S /\ f[j - 1] = (j - 1) + 1 /\ (j - 1) + 1 = j
      BY <1>1, <1>3
    <3> QED BY <3>1
  <2> QED BY <2>1, <2>2, <2>3 DEF Bijection, Injection, Surjection, IsInjective
<1>5. ExistsBijection(S, T)
  BY <1>4 DEF ExistsBijection
<1>6. IsFiniteSet(S) /\ IsFiniteSet(EditsOf(q, t)) /\ Cardinality(EditsOf(q, t)) \in Nat
  BY EditsFinite, TailFacts DEF S
<1>7. Cardinality(T) = Cardinality(S)
  BY <1>5, <1>6, FS_Bijection
<1>8. Cardinality(T) = IF 1 \in EditsOf(q, t) THEN Cardinality(EditsOf(q, t)) - 1 ELSE Cardinality(EditsOf(q, t))
  BY <1>6, FS_RemoveElement DEF T
<1>9. 1 \in EditsOf(q, t) <=> Head(q).kind = "edit" /\ Head(q).task = t
  BY TailFacts DEF EditsOf
<1> QED BY <1>6, <1>7, <1>8, <1>9 DEF S

-----------------------------------------------------------------------------
(* Operations begin and end.                                               *)

LEMMA BeginHolds ==
    ASSUME StoreIInv, NEW w \in Window, NEW kind \in Kind, NEW t \in Task, NEW v \in Row, NEW b \in Row,
           Begin(w, kind, t, v, b),
           Honest(OpOf(w, kind, t, v, b)),
           pending' = IF kind = "edit" THEN [pending EXCEPT ![w][t] = @ + 1] ELSE pending,
           drafts' \in [Window -> SUBSET Task], undoable' \in [Window -> SUBSET Task],
           shown' \in [Window -> Table], \A u \in Window \ {w} : shown'[u] = shown[u],
           \A s \in Task : shown'[w][s] # shown[w][s] => s \in Targets(OpOf(w, kind, t, v, b)),
           kind = "edit" => shown'[w][t] = v
    PROVE  StoreIInv'
<1> DEFINE op == OpOf(w, kind, t, v, b)
           table == shown'[w]
<1>1. /\ queue' = [queue EXCEPT ![w] = Append(@, op)] /\ ops' = ops + 1
      /\ UNCHANGED <<server, trash, answer, late, reloads, dirty, faults>>
  BY DEF Begin, db
<1>2. /\ queue \in [Window -> Seq(Op)] /\ queue[w] \in Seq(Op) /\ shown \in [Window -> Table]
      /\ pending \in [Window -> [Task -> Nat]]
  BY DEF StoreIInv, TypeOK
<1>3. op \in Op /\ op.kind = kind /\ op.task = t /\ op.value = v /\ op.first = (queue[w] = <<>>)
  BY <1>2 DEF Op, OpOf
<1>12. Honest(op) /\ table \in Table /\ \A s \in Task : table[s] # shown[w][s] => s \in Targets(op)
  OBVIOUS
<1> HIDE DEF op, table
<1>4. /\ \A u \in Window \ {w} : queue'[u] = queue[u] /\ shown'[u] = shown[u]
      /\ queue'[w] = Append(queue[w], op) /\ shown'[w] = table /\ (kind = "edit" => table[t] = v)
  BY <1>1, <1>2 DEF table
<1>5. /\ DOMAIN queue'[w] = DOMAIN queue[w] \cup {Len(queue[w]) + 1} /\ Len(queue[w]) \in Nat
      /\ queue'[w][Len(queue[w]) + 1] = op /\ queue'[w] # <<>>
      /\ \A i \in DOMAIN queue[w] : queue'[w][i] = queue[w][i]
      /\ Len(queue'[w]) = Len(queue[w]) + 1
      /\ Head(queue'[w]) = queue'[w][1]
      /\ queue[w] # <<>> => Head(queue[w]) = queue[w][1] /\ 1 \in DOMAIN queue[w]
  BY <1>2, <1>3, <1>4, AppendFacts, TailFacts
<1>6. TypeOK'
  <2>1. queue' \in [Window -> Seq(Op)] /\ shown' \in [Window -> Table]
    BY <1>1, <1>2, <1>3, <1>12
  <2>2. pending' \in [Window -> [Task -> Nat]]
    BY <1>2
  <2> QED BY <1>1, <2>1, <2>2 DEF StoreIInv, TypeOK
<1>7. PendingCounts'
  <2> SUFFICES ASSUME NEW u \in Window, NEW s \in Task
               PROVE  pending'[u][s] = Cardinality(EditsOf(queue'[u], s))
    BY DEF PendingCounts
  <2>1. pending[u][s] = Cardinality(EditsOf(queue[u], s)) /\ pending[u][s] \in Nat
    BY <1>2 DEF StoreIInv, PendingCounts
  <2>2. CASE u = w
    <3>1. Cardinality(EditsOf(queue'[w], s)) =
             IF kind = "edit" /\ t = s THEN Cardinality(EditsOf(queue[w], s)) + 1 ELSE Cardinality(EditsOf(queue[w], s))
      BY <1>2, <1>3, <1>4, CountAppend
    <3>2. pending'[w][s] = IF kind = "edit" /\ t = s THEN pending[w][s] + 1 ELSE pending[w][s]
      BY <1>2
    <3> QED BY <2>1, <2>2, <3>1, <3>2
  <2>3. CASE u # w
    BY <1>2, <1>4, <2>1, <2>3
  <2> QED BY <2>2, <2>3
<1>8. ASSUME NEW u \in Window PROVE Stays(queue'[u], shown'[u])
  <2>1. CASE u # w
    BY <1>4, <2>1 DEF StoreIInv
  <2>2. CASE u = w /\ queue[w] = <<>>
    BY <1>2, <1>3, <1>4, <1>5, <1>12, <2>2 DEF Stays, Honest
  <2>3. CASE u = w /\ queue[w] # <<>>
    <3> DEFINE head == Head(queue[w])
    <3>1. Head(queue'[w]) = head
      BY <1>5, <2>3
    <3> SUFFICES ASSUME head.kind = "edit", head.first,
                        \A i \in 2..Len(queue'[w]) : head.task \notin Targets(queue'[w][i])
                 PROVE  table[head.task] = head.value
      BY <1>4, <2>3, <3>1 DEF Stays
    <3>2. \A i \in 2..Len(queue[w]) : head.task \notin Targets(queue[w][i])
      <4>1. DOMAIN queue[w] = 1..Len(queue[w])
        BY <1>2
      <4>2. \A i \in 2..Len(queue[w]) : i \in DOMAIN queue[w] /\ i \in 2..Len(queue'[w])
        BY <1>5, <4>1
      <4> QED BY <1>5, <4>2
    <3>3. shown[w][head.task] = head.value
      BY <2>3, <3>2 DEF StoreIInv, Stays
    <3>4. Len(queue[w]) + 1 \in 2..Len(queue'[w])
      BY <1>2, <1>5, <2>3
    <3>5. head.task \notin Targets(op)
      BY <1>5, <3>4
    <3>6. head.task \in Task
      <4>1. head \in Op
        BY <1>2, <2>3, TailFacts
      <4> QED BY <4>1 DEF Op
    <3> QED BY <1>12, <3>3, <3>5, <3>6
  <2> QED BY <2>1, <2>2, <2>3
<1>9. Sent'
  BY <1>1, <1>4, <1>5, <1>12 DEF StoreIInv, Sent
<1>10. OneFirst'
  <2> SUFFICES ASSUME NEW u \in Window, NEW i \in DOMAIN queue'[u], queue'[u][i].first
               PROVE  i = 1
    BY DEF OneFirst
  <2>1. CASE u # w
    BY <1>4, <2>1 DEF StoreIInv, OneFirst
  <2>2. CASE u = w /\ i \in DOMAIN queue[w]
    BY <1>5, <2>2 DEF StoreIInv, OneFirst
  <2>3. CASE u = w /\ i = Len(queue[w]) + 1
    <3>1. queue'[w][i] = op
      BY <1>5, <2>3
    <3>2. queue[w] = <<>>
      BY <1>3, <2>3, <3>1
    <3> QED BY <2>3, <3>2
  <2> QED BY <1>5, <2>1, <2>2, <2>3
<1>11. Answered'
  BY <1>1, <1>4, <1>5 DEF StoreIInv, Answered, NoAnswer
<1> QED BY <1>6, <1>7, <1>8, <1>9, <1>10, <1>11 DEF StoreIInv

\* The first operation of a queue leaves it; the rows of table are shown.
LEMMA SettleHolds ==
    ASSUME StoreIInv, NEW w \in Window, queue[w] # <<>>, NEW outcome, Settle(w, outcome),
           outcome \in {"ok", "conflict", "error"}, late' = late \/ late' = late \cup {Head(queue[w])},
           UNCHANGED <<server, trash, reloads, dirty, ops>>, faults' \in Nat
    PROVE  StoreIInv'
<1> DEFINE op == Head(queue[w])
<1>1. /\ queue' = [queue EXCEPT ![w] = Tail(@)] /\ answer' = [answer EXCEPT ![w] = NoAnswer]
      /\ pending' = IF op.kind = "edit" THEN [pending EXCEPT ![w][op.task] = @ - 1] ELSE pending
      /\ drafts' = IF op.kind = "create" THEN [drafts EXCEPT ![w] = @ \ {op.task}] ELSE drafts
      /\ CASE outcome = "ok" -> Succeeds(w, op, answer[w].rows)
           [] outcome = "conflict" -> Upsert(w, answer[w].rows, {op.task}) /\ UNCHANGED undoable
           [] OTHER -> Fails(w, op)
  BY DEF Settle, EndPending
<1>2. /\ queue \in [Window -> Seq(Op)] /\ queue[w] \in Seq(Op) /\ shown \in [Window -> Table]
      /\ pending \in [Window -> [Task -> Nat]] /\ answer \in [Window -> Answer]
      /\ drafts \in [Window -> SUBSET Task] /\ undoable \in [Window -> SUBSET Task]
  BY DEF StoreIInv, TypeOK
<1>3. op \in Op /\ Tail(queue[w]) \in Seq(Op) /\ op = queue[w][1] /\ 1 \in DOMAIN queue[w]
  BY <1>2, TailFacts
<1>4. op.task \in Task /\ op.before \in Table /\ answer[w].rows \in Table
  BY <1>2, <1>3 DEF Op, Answer
<1> HIDE DEF op
<1>5. ASSUME NEW rows \in Table, NEW which, Upsert(w, rows, which)
      PROVE  shown' \in [Window -> Table] /\ \A u \in Window \ {w} : shown'[u] = shown[u]
  <2> DEFINE table == [t \in Task |-> IF t \in which /\ rows[t] # Absent THEN rows[t] ELSE shown[w][t]]
  <2>1. shown' = [shown EXCEPT ![w] = table]
    BY <1>5 DEF Upsert
  <2>2. table \in Table
    BY <1>2 DEF Table
  <2> QED BY <1>2, <2>1, <2>2
<1>6. /\ shown' \in [Window -> Table] /\ \A u \in Window \ {w} : shown'[u] = shown[u]
      /\ undoable' \in [Window -> SUBSET Task]
  <2>1. CASE outcome = "ok"
    <3>1. Succeeds(w, op, answer[w].rows)
      BY <1>1, <2>1
    <3> DEFINE rows == answer[w].rows
               bulk == [t \in Task |-> IF rows[t] = Absent THEN op.before[t] ELSE rows[t]]
    <3>2. bulk \in Table
      BY <1>4 DEF Table
    <3>3. \/ shown' = shown
          \/ Upsert(w, bulk, Targets(op))
          \/ Upsert(w, rows, Targets(op))
      BY <3>1 DEF Succeeds
    <3>4. undoable' = [undoable EXCEPT ![w] = @ \cup {op.task}] \/ undoable' = undoable
      BY <3>1 DEF Succeeds
    <3> HIDE DEF bulk
    <3> QED BY <1>2, <1>4, <1>5, <3>2, <3>3, <3>4
  <2>2. CASE outcome = "conflict"
    BY <1>1, <1>2, <1>4, <1>5, <2>2
  <2>3. CASE outcome = "error"
    <3>1. Fails(w, op)
      BY <1>1, <2>3
    <3>2. \/ shown' = shown
          \/ Upsert(w, op.before, Targets(op))
          \/ shown' = [shown EXCEPT ![w] = op.before]
      BY <3>1 DEF Fails
    <3> QED BY <1>2, <1>4, <1>5, <3>1, <3>2 DEF Fails
  <2> QED BY <2>1, <2>2, <2>3
<1>7. /\ queue'[w] = Tail(queue[w]) /\ \A u \in Window \ {w} : queue'[u] = queue[u]
      /\ queue' \in [Window -> Seq(Op)]
  BY <1>1, <1>2, <1>3
<1>8. \A i \in DOMAIN queue'[w] : i + 1 \in DOMAIN queue[w] /\ queue'[w][i] = queue[w][i + 1] /\ i \in Nat /\ i # 0
  BY <1>2, <1>7, TailFacts
<1>9. \A u \in Window, s \in Task :
         pending'[u][s] = IF u = w /\ op.kind = "edit" /\ op.task = s THEN pending[u][s] - 1 ELSE pending[u][s]
  BY <1>1, <1>2, <1>4
<1>10. \A s \in Task : Cardinality(EditsOf(queue[w], s)) =
          IF op.kind = "edit" /\ op.task = s
          THEN Cardinality(EditsOf(queue'[w], s)) + 1 ELSE Cardinality(EditsOf(queue'[w], s))
  BY <1>2, <1>7, CountTail DEF op
<1>11. \A u \in Window, s \in Task : Cardinality(EditsOf(queue'[u], s)) \in Nat
  BY <1>7, EditsFinite
<1>12. PendingCounts'
  <2> SUFFICES ASSUME NEW u \in Window, NEW s \in Task
               PROVE  pending'[u][s] = Cardinality(EditsOf(queue'[u], s))
    BY DEF PendingCounts
  <2>1. pending[u][s] = Cardinality(EditsOf(queue[u], s))
    BY DEF StoreIInv, PendingCounts
  <2>2. CASE u = w
    <3>1. Cardinality(EditsOf(queue'[w], s)) \in Nat
      BY <1>11
    <3>2. CASE op.kind = "edit" /\ op.task = s
      <4>1. pending'[w][s] = pending[w][s] - 1
        BY <1>9, <3>2
      <4>2. pending[w][s] = Cardinality(EditsOf(queue'[w], s)) + 1
        BY <1>10, <2>1, <2>2, <3>2
      <4> QED BY <2>2, <3>1, <4>1, <4>2
    <3>3. CASE ~(op.kind = "edit" /\ op.task = s)
      BY <1>9, <1>10, <2>1, <2>2, <3>3
    <3> QED BY <3>2, <3>3
  <2>3. CASE u # w
    BY <1>7, <1>9, <2>1, <2>3
  <2> QED BY <2>2, <2>3
<1>13. pending' \in [Window -> [Task -> Nat]]
  <2>1. \A u \in Window, s \in Task : pending'[u][s] \in Nat
    BY <1>11, <1>12 DEF PendingCounts
  <2>2. pending' \in [Window -> [Task -> Int]]
    BY <1>1, <1>2, <1>4
  <2> QED BY <2>1, <2>2
<1>14. drafts' \in [Window -> SUBSET Task] /\ answer' \in [Window -> Answer]
  <2>1. NoAnswer \in Answer
    BY DEF NoAnswer, Answer, Table, Row
  <2> QED BY <1>1, <1>2, <2>1
<1>15. TypeOK'
  BY <1>3, <1>6, <1>7, <1>13, <1>14 DEF StoreIInv, TypeOK, op
<1>16. OneFirst'
  <2> SUFFICES ASSUME NEW u \in Window, NEW i \in DOMAIN queue'[u], queue'[u][i].first
               PROVE  i = 1
    BY DEF OneFirst
  <2>1. CASE u = w
    <3>1. i + 1 = 1
      BY <1>8, <2>1 DEF StoreIInv, OneFirst
    <3> QED BY <1>8, <2>1, <3>1
  <2> QED BY <1>7, <2>1 DEF StoreIInv, OneFirst
<1>17. ASSUME NEW u \in Window PROVE Stays(queue'[u], shown'[u])
  <2>1. CASE u # w
    BY <1>6, <1>7, <2>1 DEF StoreIInv
  <2>2. CASE u = w /\ queue'[w] # <<>>
    <3>1. Head(queue'[w]) = queue'[w][1] /\ 1 \in DOMAIN queue'[w]
      BY <1>2, <1>7, <2>2
    <3>2. queue'[w][1] = queue[w][1 + 1] /\ 1 + 1 \in DOMAIN queue[w]
      BY <1>8, <3>1
    <3>3. ~queue'[w][1].first
      BY <3>2 DEF StoreIInv, OneFirst
    <3> QED BY <2>2, <3>1, <3>3 DEF Stays
  <2>3. CASE u = w /\ queue'[w] = <<>>
    BY <2>3 DEF Stays
  <2> QED BY <2>1, <2>2, <2>3
<1>18. Sent'
  <2>1. Honest(op)
    BY <1>3 DEF StoreIInv, Sent
  <2>2. \A x \in late' : Honest(x)
    BY <2>1 DEF StoreIInv, Sent, op
  <2>3. \A u \in Window : \A i \in DOMAIN queue'[u] : Honest(queue'[u][i])
    BY <1>7, <1>8 DEF StoreIInv, Sent
  <2> QED BY <2>2, <2>3 DEF Sent
<1>19. Answered'
  BY <1>1, <1>2, <1>7 DEF StoreIInv, Answered, NoAnswer
<1> QED BY <1>12, <1>15, <1>16, <1>17, <1>18, <1>19 DEF StoreIInv

-----------------------------------------------------------------------------
(* The database.                                                           *)

LEMMA ApplyTyped ==
    ASSUME TypeOK, NEW op \in Op, Apply(op)
    PROVE  server' \in Table /\ trash' \subseteq Task /\ dirty' \subseteq Window /\ faults' \in Nat
<1>1. PICK reached \in {Window} \cup {Window \ {w} : w \in Window} : Publish(reached)
  BY DEF Apply
<1>2. reached \subseteq Window
  BY <1>1
<1>3. dirty' \subseteq Window /\ faults' \in Nat
  BY <1>1, <1>2 DEF Publish, TypeOK
<1>4. op.value \in Row /\ op.task \in Task
  BY DEF Op
<1>5. server' \in Table
  <2>1. server' = server \/ server' = [t \in Task |-> IF t \in Targets(op) /\ t \notin trash THEN op.value ELSE server[t]]
    BY DEF Apply
  <2> QED BY <1>4, <2>1 DEF TypeOK, Table
<1>6. trash' = trash \/ trash' = trash \cup {op.task} \/ trash' = trash \ {op.task}
  BY DEF Apply
<1> QED BY <1>3, <1>4, <1>5, <1>6 DEF TypeOK

\* A write replaces what its user saw, unless it is a bulk edit.
LEMMA ApplySeen ==
    ASSUME TypeOK, NEW op \in Op, Honest(op), Allowed(op), ~Conflicts(op), Apply(op),
           NEW t \in Task, server[t] # server'[t], server[t] # Absent
    PROVE  t \in Targets(op) /\ op.value = server'[t] /\ (op.kind = "bulk" \/ op.before[t] = server[t])
<1>1. /\ op.kind \in {"edit", "bulk", "create"}
      /\ t \in Targets(op) /\ server'[t] = op.value
  BY DEF Apply, TypeOK, Table
<1>2. CASE op.kind = "create"
  <2>1. server[op.task] = Absent /\ t = op.task
    BY <1>1, <1>2 DEF Allowed, Targets
  <2> QED BY <2>1
<1>3. CASE op.kind = "edit"
  <2>1. t = op.task
    BY <1>1, <1>3 DEF Targets
  <2>2. op.base = op.before[t] /\ op.base # Absent
    BY <1>3, <2>1 DEF Honest
  <2>3. server[t] \in {op.base, op.value}
    BY <1>3, <2>1, <2>2 DEF Conflicts, NoBase
  <2> QED BY <1>1, <2>2, <2>3
<1> QED BY <1>1, <1>2, <1>3

LEMMA VisibleTyped == ASSUME TypeOK PROVE Visible \in Table
BY DEF Visible, TypeOK, Table, Row

LEMMA ServeHolds == ASSUME StoreIInv, NEW w \in Window, Serve(w) PROVE StoreIInv'
<1> DEFINE op == Head(queue[w])
<1>1. /\ queue[w] # <<>>
      /\ UNCHANGED <<shown, drafts, pending, queue, undoable, late, reloads, ops>>
      /\ Apply(op) \/ Refused
      /\ \E outcome \in {"ok", "conflict", "error"} : answer' = [answer EXCEPT ![w] = [outcome |-> outcome, rows |-> Visible']]
  BY DEF Serve, client
<1>2. queue[w] \in Seq(Op) /\ op \in Op
  <2>1. queue[w] \in Seq(Op)
    BY DEF StoreIInv, TypeOK
  <2> QED BY <1>1, <2>1, TailFacts
<1> HIDE DEF op
<1>3. server' \in Table /\ trash' \subseteq Task /\ dirty' \subseteq Window /\ faults' \in Nat
  <2>1. CASE Apply(op)
    BY <1>2, <2>1, ApplyTyped DEF StoreIInv
  <2>2. CASE Refused
    BY <2>2 DEF Refused, db, StoreIInv, TypeOK
  <2> QED BY <1>1, <2>1, <2>2
<1>4. Visible' \in Table
  BY <1>3 DEF Visible, Table, Row
<1>5. /\ answer' \in [Window -> Answer] /\ answer'[w].outcome # "none"
      /\ \A u \in Window \ {w} : answer'[u] = answer[u]
  <2>1. PICK outcome \in {"ok", "conflict", "error"} : answer' = [answer EXCEPT ![w] = [outcome |-> outcome, rows |-> Visible']]
    BY <1>1
  <2>2. [outcome |-> outcome, rows |-> Visible'] \in Answer
    BY <1>4 DEF Answer
  <2> QED BY <2>1, <2>2 DEF StoreIInv, TypeOK
<1>6. TypeOK'
  BY <1>1, <1>3, <1>5 DEF StoreIInv, TypeOK
<1>7. Answered'
  BY <1>1, <1>5 DEF StoreIInv, Answered, NoAnswer
<1> QED BY <1>1, <1>6, <1>7 DEF StoreIInv, PendingCounts, Sent, OneFirst

LEMMA ServeLateHolds == ASSUME StoreIInv, NEW op \in late, ServeLate(op) PROVE StoreIInv'
<1>1. /\ late' = late \ {op} /\ (Apply(op) \/ Refused)
      /\ UNCHANGED <<shown, drafts, pending, queue, undoable, answer, reloads, ops>>
  BY DEF ServeLate, client
<1>2. op \in Op
  BY DEF StoreIInv, TypeOK
<1>3. server' \in Table /\ trash' \subseteq Task /\ dirty' \subseteq Window /\ faults' \in Nat
  <2>1. CASE Apply(op)
    BY <1>2, <2>1, ApplyTyped DEF StoreIInv
  <2>2. CASE Refused
    BY <2>2 DEF Refused, db, StoreIInv, TypeOK
  <2> QED BY <1>1, <2>1, <2>2
<1>4. TypeOK'
  BY <1>1, <1>3 DEF StoreIInv, TypeOK
<1>5. Answered'
  BY <1>1 DEF StoreIInv, Answered, NoAnswer
<1> QED BY <1>1, <1>4, <1>5 DEF StoreIInv, PendingCounts, Sent, OneFirst

-----------------------------------------------------------------------------
(* The user and the reloads.                                               *)

LEMMA UserHolds == ASSUME StoreIInv, NEW w \in Window, User(w) PROVE StoreIInv'
<1>0. /\ shown \in [Window -> Table] /\ shown[w] \in Table /\ drafts \in [Window -> SUBSET Task]
      /\ undoable \in [Window -> SUBSET Task] /\ Absent \in Row /\ NoBase \in Row /\ Value \subseteq Row
      /\ {"edit", "bulk", "create", "remove", "restore"} = Kind
  BY DEF StoreIInv, TypeOK, Row, NoBase, Kind
<1>1. ASSUME NEW t \in Task, NEW v \in Value, Edit(w, t, v) PROVE StoreIInv'
  <2> DEFINE table == [shown[w] EXCEPT ![t] = v]
  <2>1. /\ Begin(w, "edit", t, v, shown[w][t]) /\ shown[w][t] # Absent
        /\ pending' = [pending EXCEPT ![w][t] = @ + 1]
        /\ shown' = [shown EXCEPT ![w] = table] /\ UNCHANGED <<drafts, undoable>>
    BY <1>0, <1>1 DEF Edit, BaseOf
  <2>2. shown[w][t] \in Row /\ table \in Table /\ table[t] = v /\ \A s \in Task : table[s] # shown[w][s] => s = t
    BY <1>0 DEF Table
  <2> HIDE DEF table
  <2>3. Honest(OpOf(w, "edit", t, v, shown[w][t])) /\ t \in Targets(OpOf(w, "edit", t, v, shown[w][t]))
    BY <2>1 DEF Honest, Targets, OpOf
  <2>4. /\ shown' \in [Window -> Table] /\ \A u \in Window \ {w} : shown'[u] = shown[u]
        /\ shown'[w][t] = v /\ \A s \in Task : shown'[w][s] # shown[w][s] => s = t
    BY <1>0, <2>1, <2>2
  <2>5. /\ "edit" \in Kind /\ v \in Row /\ shown[w][t] \in Row
        /\ drafts' \in [Window -> SUBSET Task] /\ undoable' \in [Window -> SUBSET Task]
        /\ pending' = IF "edit" = "edit" THEN [pending EXCEPT ![w][t] = @ + 1] ELSE pending
        /\ \A s \in Task : shown'[w][s] # shown[w][s] => s \in Targets(OpOf(w, "edit", t, v, shown[w][t]))
    BY <1>0, <2>1, <2>2, <2>3, <2>4
  <2> QED BY <2>1, <2>3, <2>4, <2>5, BeginHolds
<1>2. ASSUME NEW t \in Task, NEW v \in Value, Create(w, t, v) PROVE StoreIInv'
  <2>1. /\ Begin(w, "create", t, v, NoBase) /\ drafts' = [drafts EXCEPT ![w] = @ \cup {t}]
        /\ UNCHANGED <<shown, pending, undoable>>
    BY <1>2 DEF Create
  <2>2. Honest(OpOf(w, "create", t, v, NoBase)) /\ drafts' \in [Window -> SUBSET Task]
    BY <1>0, <2>1 DEF Honest, OpOf
  <2> QED BY <1>0, <2>1, <2>2, BeginHolds
<1>3. ASSUME NEW v \in Value, BulkUpdate(w, v) PROVE StoreIInv'
  <2> DEFINE table == [t \in Task |-> IF shown[w][t] = Absent THEN Absent ELSE v]
  <2>1. PICK t \in Task : Begin(w, "bulk", t, v, NoBase)
    BY <1>3 DEF BulkUpdate
  <2>2. shown' = [shown EXCEPT ![w] = table] /\ UNCHANGED <<drafts, pending, undoable>>
    BY <1>0, <1>3 DEF BulkUpdate
  <2>3. table \in Table /\ \A s \in Task : table[s] # shown[w][s] => shown[w][s] # Absent
    BY <1>0 DEF Table, Row
  <2> HIDE DEF table
  <2>4. /\ Honest(OpOf(w, "bulk", t, v, NoBase))
        /\ \A s \in Task : shown[w][s] # Absent => s \in Targets(OpOf(w, "bulk", t, v, NoBase))
    BY DEF Honest, Targets, OpOf
  <2>5. /\ shown' \in [Window -> Table] /\ \A u \in Window \ {w} : shown'[u] = shown[u]
        /\ \A s \in Task : shown'[w][s] # shown[w][s] => shown[w][s] # Absent
    BY <1>0, <2>2, <2>3
  <2> QED BY <1>0, <2>1, <2>2, <2>4, <2>5, BeginHolds
<1>4. ASSUME NEW t \in Task, DeleteTask(w, t) PROVE StoreIInv'
  <2> DEFINE table == [shown[w] EXCEPT ![t] = Absent]
  <2>1. /\ Begin(w, "remove", t, Absent, NoBase) /\ shown' = [shown EXCEPT ![w] = table]
        /\ UNCHANGED <<drafts, pending, undoable>>
    BY <1>0, <1>4 DEF DeleteTask
  <2>2. table \in Table /\ \A s \in Task : table[s] # shown[w][s] => s = t
    BY <1>0 DEF Table
  <2> HIDE DEF table
  <2>3. Honest(OpOf(w, "remove", t, Absent, NoBase)) /\ t \in Targets(OpOf(w, "remove", t, Absent, NoBase))
    BY DEF Honest, Targets, OpOf
  <2>4. /\ shown' \in [Window -> Table] /\ \A u \in Window \ {w} : shown'[u] = shown[u]
        /\ \A s \in Task : shown'[w][s] # shown[w][s] => s = t
    BY <1>0, <2>1, <2>2
  <2> QED BY <1>0, <2>1, <2>3, <2>4, BeginHolds
<1>5. ASSUME NEW t \in Task, UndoRemove(w, t) PROVE StoreIInv'
  <2>1. /\ Begin(w, "restore", t, Absent, NoBase) /\ undoable' = [undoable EXCEPT ![w] = @ \ {t}]
        /\ UNCHANGED <<shown, drafts, pending>>
    BY <1>5 DEF UndoRemove
  <2>2. Honest(OpOf(w, "restore", t, Absent, NoBase)) /\ undoable' \in [Window -> SUBSET Task]
    BY <1>0, <2>1 DEF Honest, OpOf
  <2> QED BY <1>0, <2>1, <2>2, BeginHolds
<1>6. \A t \in Task : Typed[w][t] \subseteq Value
  BY StoreAssumption
<1> QED BY <1>1, <1>2, <1>3, <1>4, <1>5, <1>6 DEF User

\* A reload leaves alone the rows with an edit under way.
LEMMA ArriveHolds == ASSUME StoreIInv, NEW w \in Window, Arrive(w) PROVE StoreIInv'
<1>1. PICK rows \in reloads[w] :
         /\ reloads' = [reloads EXCEPT ![w] = @ \ {rows}]
         /\ ReplaceScope(w, rows)
         /\ drafts' = [drafts EXCEPT ![w] = {}]
         /\ UNCHANGED <<db, pending, queue, undoable, answer, late, dirty, ops, faults>>
  BY DEF Arrive
<1>2. /\ rows \in Table /\ shown \in [Window -> Table] /\ queue[w] \in Seq(Op)
      /\ pending \in [Window -> [Task -> Nat]]
  BY <1>1 DEF StoreIInv, TypeOK
<1> DEFINE table == [t \in Task |-> IF pending[w][t] > 0 THEN shown[w][t] ELSE rows[t]]
<1>3. shown' = [shown EXCEPT ![w] = table]
  BY <1>1, <1>2 DEF ReplaceScope
<1>4. table \in Table
  BY <1>2 DEF Table
<1> HIDE DEF table
<1>5. TypeOK'
  BY <1>1, <1>3, <1>4 DEF StoreIInv, TypeOK, db
<1>6. ASSUME NEW u \in Window PROVE Stays(queue'[u], shown'[u])
  <2>1. Stays(queue[u], shown[u])
    BY DEF StoreIInv
  <2>2. CASE u # w
    BY <1>1, <1>2, <1>3, <2>1, <2>2
  <2>3. CASE u = w
    <3> SUFFICES ASSUME queue[w] # <<>>, Head(queue[w]).kind = "edit", Stays(queue[w], shown[w])
                 PROVE  Stays(queue[w], table)
      BY <1>1, <1>2, <1>3, <2>1, <2>3 DEF Stays
    <3> DEFINE t == Head(queue[w]).task
    <3>1. 1 \in EditsOf(queue[w], t) /\ t \in Task
      BY <1>2, TailFacts DEF EditsOf, Op
    <3>2. Cardinality(EditsOf(queue[w], t)) # 0
      BY <1>2, <3>1, EditsFinite, FS_EmptySet
    <3>3. pending[w][t] > 0
      BY <1>2, <3>1, <3>2 DEF StoreIInv, PendingCounts
    <3>4. table[t] = shown[w][t]
      BY <3>1, <3>3 DEF table
    <3> QED BY <3>4 DEF Stays
  <2> QED BY <2>2, <2>3
<1>7. PendingCounts' /\ Sent' /\ OneFirst' /\ Answered'
  BY <1>1 DEF StoreIInv, PendingCounts, Sent, OneFirst, Answered, NoAnswer
<1> QED BY <1>5, <1>6, <1>7 DEF StoreIInv

LEMMA ReloadsHold ==
    ASSUME StoreIInv, NEW w \in Window, Flush(w) \/ OnVisible(w) \/ ReloadFails(w)
    PROVE  StoreIInv'
<1>1. /\ UNCHANGED <<server, trash, shown, drafts, pending, queue, undoable, answer, late, ops>>
      /\ \/ reloads' = [reloads EXCEPT ![w] = @ \cup {Visible}] /\ faults' = faults
         \/ (\E rows \in reloads[w] : reloads' = [reloads EXCEPT ![w] = @ \ {rows}]) /\ faults' = faults + 1
      /\ dirty' = dirty \/ dirty' = dirty \ {w}
  BY DEF Flush, OnVisible, ReloadFails, Reload, client, db
<1>2. reloads' \in [Window -> SUBSET Table] /\ dirty' \subseteq Window /\ faults' \in Nat
  <2>1. /\ reloads \in [Window -> SUBSET Table] /\ dirty \subseteq Window /\ faults \in Nat
        /\ Visible \in Table
    BY VisibleTyped DEF StoreIInv, TypeOK
  <2> HIDE DEF Table
  <2>2. reloads[w] \cup {Visible} \in SUBSET Table /\ \A rows : reloads[w] \ {rows} \in SUBSET Table
    BY <2>1
  <2> QED BY <1>1, <2>1, <2>2
<1>3. TypeOK'
  BY <1>1, <1>2 DEF StoreIInv, TypeOK
<1> QED BY <1>1, <1>3 DEF StoreIInv, PendingCounts, Sent, OneFirst, Answered, NoAnswer

LEMMA AnswersHold ==
    ASSUME StoreIInv, NEW w \in Window, Receive(w) \/ Lost(w)
    PROVE  StoreIInv'
<1>1. CASE Receive(w)
  <2>1. queue[w] # <<>> /\ answer[w] # NoAnswer /\ answer[w] \in Answer
    BY <1>1 DEF Receive, StoreIInv, Answered, TypeOK
  <2>2. answer[w].outcome \in {"ok", "conflict", "error"}
    BY <1>1, <2>1 DEF Receive, StoreIInv, Answered, Answer
  <2> QED BY <1>1, <2>1, <2>2, SettleHolds DEF Receive, db, StoreIInv, TypeOK
<1>2. CASE Lost(w)
  <2>1. late' = late \/ late' = late \cup {Head(queue[w])}
    BY <1>2 DEF Lost
  <2>2. faults' \in Nat
    BY <1>2 DEF Lost, StoreIInv, TypeOK
  <2> QED BY <1>2, <2>1, <2>2, SettleHolds DEF Lost, db
<1> QED BY <1>1, <1>2

LEMMA StepHolds == StoreIInv /\ [Next]_vars => StoreIInv'
<1> SUFFICES ASSUME StoreIInv, [Next]_vars PROVE StoreIInv'
  OBVIOUS
<1>1. CASE UNCHANGED vars
  BY <1>1 DEF vars, StoreIInv, TypeOK, PendingCounts, Sent, OneFirst, Answered, NoAnswer
<1>2. CASE Next
  BY <1>2, UserHolds, ServeHolds, AnswersHold, ReloadsHold, ArriveHolds, ServeLateHolds DEF Next
<1> QED BY <1>1, <1>2

\* What windows, requests and reloads know of each other is inductive.
THEOREM StoreInvariant == Spec => []StoreIInv
<1>1. Init => StoreIInv
  <2> SUFFICES ASSUME Init PROVE StoreIInv
    OBVIOUS
  <2>1. server \in Table
    BY StoreAssumption DEF Init, Table, Row
  <2>2. \A w \in Window : queue[w] = <<>> /\ answer[w] = NoAnswer
    BY DEF Init
  <2>3. NoAnswer \in Answer
    BY DEF NoAnswer, Answer, Table, Row
  <2>4. TypeOK
    BY <2>1, <2>3 DEF Init, TypeOK
  <2>5. PendingCounts
    <3>1. \A t : EditsOf(<<>>, t) = {}
      BY DEF EditsOf
    <3> QED BY <2>2, <3>1, FS_EmptySet DEF Init, PendingCounts
  <2> QED BY <2>2, <2>4, <2>5 DEF Init, StoreIInv, Sent, OneFirst, Answered, Stays
<1> QED BY <1>1, StepHolds, PTL DEF Spec

\* Whatever is lost, refused or late, and however old a reload is, the edits under way are
\* counted right, and a value that was typed stays on screen until its own answer.
THEOREM StoreHolds == Spec => []StoreInv
<1>1. StoreIInv => StoreInv
  BY DEF StoreIInv, StoreInv, Stays, EditStaysShown
<1> QED BY <1>1, StoreInvariant, PTL

\* No edit, even one the server runs after its window gave it up, replaces a value that its
\* user did not have on screen.
THEOREM NothingOverwritten == Spec => NoSilentOverwrite
<1>1. StoreIInv /\ [Next]_vars => [Seen]_vars
  <2> SUFFICES ASSUME StoreIInv, Next, NEW t \in Task, server[t] # server'[t], server[t] # Absent
               PROVE  \E op \in late \cup UNION {ToSet(queue[w]) : w \in Window} :
                          /\ t \in Targets(op) /\ op.value = server'[t]
                          /\ op.kind = "bulk" \/ op.before[t] = server[t]
    BY DEF Seen
  <2>1. ASSUME NEW op \in late, ServeLate(op)
        PROVE  /\ t \in Targets(op) /\ op.value = server'[t]
               /\ op.kind = "bulk" \/ op.before[t] = server[t]
    <3>1. op \in Op /\ Honest(op)
      BY DEF StoreIInv, TypeOK, Sent
    <3>2. Allowed(op) /\ ~Conflicts(op) /\ Apply(op)
      BY <2>1 DEF ServeLate, Refused, db
    <3> QED BY <3>1, <3>2, ApplySeen DEF StoreIInv
  <2>2. ASSUME NEW w \in Window, Serve(w)
        PROVE  \E op \in ToSet(queue[w]) :
                   /\ t \in Targets(op) /\ op.value = server'[t]
                   /\ op.kind = "bulk" \/ op.before[t] = server[t]
    <3> DEFINE op == Head(queue[w])
    <3>1. queue[w] # <<>> /\ queue[w] \in Seq(Op) /\ op \in Op /\ op = queue[w][1] /\ 1 \in DOMAIN queue[w]
      <4>1. queue[w] # <<>> /\ queue[w] \in Seq(Op)
        BY <2>2 DEF Serve, StoreIInv, TypeOK
      <4> QED BY <4>1, TailFacts
    <3>2. op \in ToSet(queue[w]) /\ Honest(op)
      BY <3>1 DEF ToSet, StoreIInv, Sent
    <3>3. Allowed(op) /\ ~Conflicts(op) /\ Apply(op)
      BY <2>2 DEF Serve, Refused, db
    <3> HIDE DEF op
    <3> QED BY <3>1, <3>2, <3>3, ApplySeen DEF StoreIInv
  <2>3. ASSUME NEW w \in Window, \/ User(w) \/ Receive(w) \/ Lost(w) \/ Flush(w)
                                 \/ OnVisible(w) \/ Arrive(w) \/ ReloadFails(w)
        PROVE  UNCHANGED server
    BY <2>3 DEF User, Edit, Create, BulkUpdate, DeleteTask, UndoRemove, Begin, Receive, Lost, Flush, OnVisible,
                Arrive, ReloadFails, Reload, db
  <2> QED BY <2>1, <2>2, <2>3 DEF Next
<1> QED BY <1>1, StoreInvariant, PTL DEF Spec, NoSilentOverwrite
====
