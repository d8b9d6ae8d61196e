---------------------------- MODULE AccountsProofs ----------------------------
(***************************************************************************)
(* Proofs about Accounts, for any number of attempts, accounts, sources,   *)
(* tokens, browsers and requests, and about LegacyTasks, for any users.    *)
(*                                                                         *)
(* Attempts.  The row an attempt inserts stands while it can count, and    *)
(* the attempt counts after it has inserted: the last one to be let        *)
(* through has counted all the others.                                     *)
(*                                                                         *)
(* Sessions.  A request that arrives after its token ended finds no row,   *)
(* since a token is drawn once; one that arrives after its account was     *)
(* disabled reads that it is, since nothing enables it again here.         *)
(*                                                                         *)
(* Migrations.  Field by field, where its value comes from is kept with    *)
(* the decision the history holds: a note REVERTED of an unchanged field   *)
(* has the value decided, and one ORIGIN_UNKNOWN with a change before it   *)
(* and none since has it too, unless nobody was the decision.              *)
(***************************************************************************)
EXTENDS Accounts, LegacyTasks, FiniteSetTheorems, TLAPS

Inv == ThrottleInv /\ AtMostMax

LEMMA ScopeFacts ==
    ASSUME ThrottleInv, NEW a \in Attempt
    PROVE  /\ account[a] \in Account /\ source[a] \in Source
           /\ account[a] \notin Source /\ source[a] \notin Account
           /\ ScopesOf(a) \subseteq Scope
BY ThrottleAssumption DEF ThrottleInv, TypeOK, ScopesOf, Scope

\* Steps keep the rows that can count.
LEMMA RowStep ==
    ASSUME ThrottleInv, [Next]_vars
    PROVE  ThrottleInv'
<1> USE ThrottleAssumption DEF ThrottleInv, TypeOK, RowsStand, Scope, ScopesOf, Place, Oldest
<1>1. ASSUME NEW a \in Attempt, Record(a)
      PROVE  ThrottleInv'
  BY <1>1 DEF Record, GoTo, fixed, history
<1>2. ASSUME NEW a \in Attempt, TakeWindow(a)
      PROVE  ThrottleInv'
  BY <1>2 DEF TakeWindow, GoTo, fixed, history
<1>3. ASSUME NEW a \in Attempt, NEW k \in ScopesOf(a), NEW next \in {"countSource", "checking"},
             pc[a] \in {"countAccount", "countSource"}, Count(a, k, next)
      PROVE  ThrottleInv'
  <2>1. /\ pc' = [pc EXCEPT ![a] = next] \/ pc' = [pc EXCEPT ![a] = "over"]
        /\ passed' = [passed EXCEPT ![a] = @ \cup {k}] \/ passed' = passed
        /\ UNCHANGED <<account, source, row, age, sinceAge, loggedIn, forgiven>>
    <3>1. CASE Under(a, k)
      BY <1>3, <3>1 DEF Count, GoTo, fixed
    <3>2. CASE ~Under(a, k)
      BY <1>3, <3>2 DEF Count, GoTo, fixed
    <3> QED BY <3>1, <3>2
  <2>2. TypeOK'
    <3>1. pc' \in [Attempt -> Place] /\ k \in Scope
      <4>1. next \in Place /\ "over" \in Place /\ pc \in [Attempt -> Place] /\ k \in Scope
        OBVIOUS
      <4> QED BY <2>1, <4>1
    <3>2. passed' \in [Attempt -> SUBSET Scope] /\ \A b \in Attempt : passed'[b] \subseteq ScopesOf(b)
      <4>1. CASE passed' = passed
        BY <2>1, <4>1
      <4>2. CASE passed' = [passed EXCEPT ![a] = @ \cup {k}]
        <5>1. passed[a] \cup {k} \subseteq ScopesOf(a) /\ passed[a] \cup {k} \in SUBSET Scope
          BY <3>1
        <5> QED BY <2>1, <4>2, <5>1
      <4> QED BY <2>1, <4>1, <4>2
    <3>3. \A b \in Attempt : ScopesOf(b)' = ScopesOf(b)
      BY <2>1
    <3> QED BY <2>1, <3>1, <3>2, <3>3
  <2>3. RowsStand'
    BY <1>3, <2>1
  <2>4. \A b \in Attempt : /\ sinceAge[b] <= age[b]
                           /\ pc[b] \in {"marked", "in"} => loggedIn[b]
                           /\ pc[b] = "unborn" => passed[b] = {}
    OBVIOUS
  <2>5. \A b \in Attempt : /\ pc'[b] \in {"marked", "in"} => pc[b] \in {"marked", "in"}
                           /\ pc'[b] = "unborn" => pc[b] = "unborn" /\ passed'[b] = passed[b]
    BY <1>3, <2>1
  <2>6. sinceAge' = sinceAge /\ age' = age /\ loggedIn' = loggedIn
    BY <2>1
  <2> HIDE DEF TypeOK, RowsStand
  <2> QED BY <2>2, <2>3, <2>4, <2>5, <2>6
<1>11. ASSUME NEW a \in Attempt, CountAccount(a) \/ CountSource(a)
      PROVE  ThrottleInv'
  BY <1>3, <1>11 DEF CountAccount, CountSource
<1>4. ASSUME NEW a \in Attempt, GiveUp(a)
      PROVE  ThrottleInv'
  BY <1>4 DEF GiveUp, GoTo, Erase, fixed, history
<1>5. ASSUME NEW a \in Attempt, NEW place \in {"refused", "matched", "stopped"},
             pc[a] \notin {"unborn", "gone"}, GoTo(a, place),
             UNCHANGED <<fixed, row, age, sinceAge, history>>
      PROVE  ThrottleInv'
  <2>1. TypeOK'
    BY <1>5 DEF GoTo, fixed, history
  <2>2. RowsStand'
    BY <1>5 DEF GoTo, fixed, history
  <2> QED BY <1>5, <2>1, <2>2 DEF GoTo, fixed, history
<1>12. ASSUME NEW a \in Attempt, Refuse(a) \/ Match(a) \/ Stop(a)
      PROVE  ThrottleInv'
  BY <1>5, <1>12 DEF Refuse, Match, Stop
<1>6. ASSUME NEW a \in Attempt, MarkSuccessful(a)
      PROVE  ThrottleInv'
  BY <1>6 DEF MarkSuccessful, GoTo, fixed
<1>7. ASSUME NEW a \in Attempt, ResetAccount(a)
      PROVE  ThrottleInv'
  <2>1. account[a] \notin Source
    BY ScopeFacts
  <2>2. TypeOK'
    BY <1>7 DEF ResetAccount, GoTo, fixed
  <2>3. RowsStand'
    <3>1. SUFFICES ASSUME NEW b \in Attempt, NEW k \in ScopesOf(b),
                          pc'[b] \notin {"unborn", "gone"}, ~loggedIn[b], age[b] <= Window,
                          k \in Account => ~forgiven'[b]
                   PROVE  row'[b][k] = "failed"
      BY <1>7 DEF ResetAccount, GoTo, fixed
    <3>2. b # a
      BY <1>7, <3>1 DEF ResetAccount
    <3>3. pc[b] \notin {"unborn", "gone"} /\ (k \in Account => ~forgiven[b])
      BY <1>7, <3>1, <3>2 DEF ResetAccount, GoTo
    <3>4. k # account[a]
      BY <1>7, <2>1, <3>1, <3>3, ScopeFacts DEF ResetAccount
    <3>5. row'[b][k] = row[b][k]
      BY <1>7, <3>4 DEF ResetAccount
    <3> QED BY <3>1, <3>3, <3>5
  <2> QED BY <1>7, <2>2, <2>3 DEF ResetAccount, GoTo, fixed
<1>8. ASSUME NEW a \in Attempt, PurgeOld(a)
      PROVE  ThrottleInv'
  BY <1>8 DEF PurgeOld, GoTo, fixed, history
<1>9. CASE Tick
  BY <1>9 DEF Tick, fixed, history
<1>10. CASE UNCHANGED vars
  BY <1>10 DEF vars
<1> QED BY <1>1, <1>2, <1>4, <1>6, <1>7, <1>8, <1>9, <1>10, <1>11, <1>12 DEF Next, Step

\* An attempt let through has counted every other one let through.
LEMMA CountSeesAll ==
    ASSUME ThrottleInv, NEW a \in Attempt, NEW k \in ScopesOf(a), NEW next \in Place,
           pc[a] \notin {"unborn", "gone"}, Count(a, k, next), Under(a, k)
    PROVE  LetThrough(k)' \subseteq Counted(a, k)
<1> SUFFICES ASSUME NEW b \in LetThrough(k)'
             PROVE  b \in Counted(a, k)
  OBVIOUS
<1>1. /\ b \in Attempt /\ age[b] <= Window /\ ~loggedIn[b] /\ pc'[b] # "gone" /\ k \in passed'[b]
      /\ k \in Account => ~forgiven[b]
  BY DEF LetThrough, Count
<1>2. pc[b] \notin {"unborn", "gone"} /\ k \in ScopesOf(b)
  BY <1>1 DEF Count, GoTo, ThrottleInv, TypeOK
<1>3. row[b][k] = "failed"
  BY <1>1, <1>2 DEF ThrottleInv, RowsStand
<1>4. InWindowOf(a, b)
  BY <1>1, ThrottleAssumption DEF InWindowOf, ThrottleInv, TypeOK, Oldest
<1> QED BY <1>1, <1>3, <1>4 DEF Counted

LEMMA MaxStep ==
    ASSUME Inv, [Next]_vars
    PROVE  AtMostMax'
<1> USE ThrottleAssumption DEF Inv
<1> SUFFICES ASSUME NEW k \in Scope PROVE Cardinality(LetThrough(k)') <= Max[k]
  BY DEF AtMostMax
<1>1. ThrottleInv'
  BY RowStep
<1>2. /\ IsFiniteSet(LetThrough(k)) /\ Cardinality(LetThrough(k)) \in Nat
      /\ Cardinality(LetThrough(k)) <= Max[k] /\ Max[k] \in Nat
  <2>1. LetThrough(k) \subseteq Attempt
    BY DEF LetThrough
  <2> QED BY <2>1, FS_Subset, FS_CardinalityType DEF AtMostMax, Scope
<1>3. ASSUME LetThrough(k)' \subseteq LetThrough(k)
      PROVE  Cardinality(LetThrough(k)') <= Max[k]
  <2>1. /\ IsFiniteSet(LetThrough(k)')
        /\ Cardinality(LetThrough(k)') <= Cardinality(LetThrough(k))
    BY <1>2, <1>3, FS_Subset
  <2>2. Cardinality(LetThrough(k)') \in Nat
    BY <2>1, FS_CardinalityType
  <2> QED BY <1>2, <2>1, <2>2
<1>4. ASSUME NEW a \in Attempt, NEW s \in ScopesOf(a), NEW next \in Place,
             pc[a] \notin {"unborn", "over", "gone"}, next \notin {"over", "gone"}, Count(a, s, next)
      PROVE  Cardinality(LetThrough(k)') <= Max[k]
  <2>1. CASE Under(a, s) /\ s = k
    <3>1. LetThrough(k)' \subseteq Counted(a, k)
      BY <1>4, <2>1, CountSeesAll
    <3>2. Counted(a, k) \subseteq Attempt
      BY DEF Counted
    <3>3. IsFiniteSet(Counted(a, k))
      BY <3>2, FS_Subset
    <3>4. /\ Cardinality(LetThrough(k)') <= Cardinality(Counted(a, k))
          /\ IsFiniteSet(LetThrough(k)')
      BY <3>1, <3>3, FS_Subset
    <3>5. Cardinality(LetThrough(k)') \in Nat /\ Cardinality(Counted(a, k)) \in Nat
      BY <3>3, <3>4, FS_CardinalityType
    <3> QED BY <1>2, <2>1, <3>4, <3>5 DEF Under
  <2>2. CASE ~(Under(a, s) /\ s = k)
    <3>1. \A b \in Attempt : /\ pc'[b] \notin {"over", "gone"} => pc[b] \notin {"over", "gone"}
                             /\ k \in passed'[b] => k \in passed[b] \/ pc'[b] = "over"
      <4>1. CASE Under(a, s)
        BY <1>4, <2>2, <4>1 DEF Count, GoTo, ThrottleInv, TypeOK
      <4>2. CASE ~Under(a, s)
        BY <1>4, <4>2 DEF Count, GoTo, ThrottleInv, TypeOK
      <4> QED BY <4>1, <4>2
    <3>2. LetThrough(k)' \subseteq LetThrough(k)
      <4>1. age' = age /\ loggedIn' = loggedIn /\ forgiven' = forgiven
        BY <1>4 DEF Count
      <4>2. ASSUME NEW b \in LetThrough(k)'
            PROVE  b \in LetThrough(k)
        <5>1. /\ b \in Attempt /\ k \in passed'[b] /\ age[b] <= Window /\ ~loggedIn[b]
              /\ pc'[b] \notin {"over", "gone"} /\ (k \in Account => ~forgiven[b])
          BY <4>1 DEF LetThrough
        <5>2. pc[b] \notin {"over", "gone"} /\ k \in passed[b]
          BY <3>1, <5>1
        <5> QED BY <5>1, <5>2 DEF LetThrough
      <4> QED BY <4>2
    <3> QED BY <1>3, <3>2
  <2> QED BY <2>1, <2>2
<1>5. ASSUME NEW a \in Attempt, CountAccount(a)
      PROVE  Cardinality(LetThrough(k)') <= Max[k]
  BY <1>4, <1>5 DEF CountAccount, ScopesOf, Place
<1>6. ASSUME NEW a \in Attempt, CountSource(a)
      PROVE  Cardinality(LetThrough(k)') <= Max[k]
  BY <1>4, <1>6 DEF CountSource, ScopesOf, Place
<1>7. ASSUME NEW a \in Attempt,
             Record(a) \/ TakeWindow(a) \/ GiveUp(a) \/ Refuse(a) \/ Match(a) \/ MarkSuccessful(a)
      PROVE  LetThrough(k)' \subseteq LetThrough(k)
  BY <1>7 DEF Record, TakeWindow, GiveUp, Refuse, Match, MarkSuccessful, GoTo, LetThrough,
              fixed, history, ThrottleInv, TypeOK
<1>8. ASSUME NEW a \in Attempt, PurgeOld(a) \/ Stop(a)
      PROVE  LetThrough(k)' \subseteq LetThrough(k)
  BY <1>8 DEF PurgeOld, Stop, GoTo, LetThrough, fixed, history, ThrottleInv, TypeOK
<1>11. ASSUME NEW a \in Attempt, ResetAccount(a)
      PROVE  LetThrough(k)' \subseteq LetThrough(k)
  BY <1>11 DEF ResetAccount, GoTo, LetThrough, fixed, ThrottleInv, TypeOK
<1>9. CASE Tick
  <2>1. LetThrough(k)' \subseteq LetThrough(k)
    BY <1>9 DEF Tick, LetThrough, fixed, history, ThrottleInv, TypeOK, Oldest
  <2> QED BY <1>3, <2>1
<1>10. CASE UNCHANGED vars
  <2>1. LetThrough(k)' \subseteq LetThrough(k)
    BY <1>10 DEF vars, LetThrough
  <2> QED BY <1>3, <2>1
<1> QED BY <1>3, <1>5, <1>6, <1>7, <1>8, <1>9, <1>10, <1>11 DEF Next, Step

LEMMA InitInv == Init => Inv
<1> SUFFICES ASSUME Init PROVE Inv
  OBVIOUS
<1>1. ThrottleInv
  BY ThrottleAssumption DEF Init, ThrottleInv, TypeOK, RowsStand, ScopesOf, Scope, Place, Oldest
<1>2. \A k \in Scope : LetThrough(k) = {}
  BY DEF Init, LetThrough
<1>3. \A k \in Scope : Max[k] \in Nat
  BY ThrottleAssumption DEF Scope
<1>4. AtMostMax
  BY <1>2, <1>3, FS_EmptySet DEF AtMostMax
<1> QED BY <1>1, <1>4 DEF Inv

\* The rows of an attempt stand while they can count.
THEOREM RowsAreCounted == Spec => []ThrottleInv
<1>1. Init => ThrottleInv
  BY InitInv DEF Inv
<1> QED BY <1>1, RowStep, PTL DEF Spec

\* However many attempts are made at the same time, at most the maximum goes through each
\* counter in a window.
THEOREM AtMostMaxThrough == Spec => []AtMostMax
<1>1. Inv /\ [Next]_vars => Inv'
  BY RowStep, MaxStep DEF Inv
<1>2. Inv => AtMostMax
  BY DEF Inv
<1> QED BY <1>1, <1>2, InitInv, PTL DEF Spec

\* A failure in the table is that of an attempt that may weigh: it has not answered that it
\* was blocked, it has not logged in, and no login of its account came since.
FailuresAreOpen ==
    /\ \A b \in Attempt, k \in Scope : row[b][k] = "failed" =>
          /\ pc[b] \notin {"unborn", "gone"} /\ ~loggedIn[b]
          /\ k \in Account => ~forgiven[b]
    /\ \A b \in Attempt : pc[b] = "unborn" => ~loggedIn[b] /\ ~forgiven[b]

LEMMA OpenStep ==
    ASSUME ThrottleInv, FailuresAreOpen, [Next]_vars
    PROVE  FailuresAreOpen'
<1> USE ThrottleAssumption DEF ThrottleInv, TypeOK, FailuresAreOpen, Place
<1>1. ASSUME NEW a \in Attempt, Record(a)
      PROVE  FailuresAreOpen'
  BY <1>1 DEF Record, GoTo, history
<1>2. ASSUME NEW a \in Attempt, TakeWindow(a) \/ Refuse(a) \/ Match(a) \/ Stop(a)
      PROVE  FailuresAreOpen'
  BY <1>2 DEF TakeWindow, Refuse, Match, Stop, GoTo, history
<1>3. ASSUME NEW a \in Attempt, CountAccount(a) \/ CountSource(a)
      PROVE  FailuresAreOpen'
  <2>1. PICK next \in Place : /\ pc' = [pc EXCEPT ![a] = next] /\ next \notin {"unborn", "gone"}
                              /\ UNCHANGED <<row, loggedIn, forgiven>> /\ pc[a] # "unborn"
    BY <1>3 DEF CountAccount, CountSource, Count, GoTo
  <2> QED BY <2>1
<1>4. ASSUME NEW a \in Attempt, GiveUp(a)
      PROVE  FailuresAreOpen'
  BY <1>4 DEF GiveUp, GoTo, Erase, history
<1>5. ASSUME NEW a \in Attempt, MarkSuccessful(a)
      PROVE  FailuresAreOpen'
  BY <1>5 DEF MarkSuccessful, GoTo
<1>6. ASSUME NEW a \in Attempt, ResetAccount(a)
      PROVE  FailuresAreOpen'
  <2>1. /\ pc[a] = "marked" /\ pc' = [pc EXCEPT ![a] = "in"] /\ UNCHANGED loggedIn
        /\ \A b \in Attempt, k \in Scope :
              row'[b][k] = IF k = account[a] THEN "none" ELSE row[b][k]
        /\ \A b \in Attempt :
              forgiven'[b] <=> forgiven[b] \/ (account[b] = account[a] /\ pc[b] # "unborn")
    BY <1>6 DEF ResetAccount, GoTo
  <2>2. ASSUME NEW b \in Attempt, NEW k \in Scope, row'[b][k] = "failed", k \in Account
        PROVE  ~forgiven'[b]
    <3>1. k # account[a] /\ row[b][k] = "failed"
      BY <2>1, <2>2
    <3>2. k = account[b]
      BY <3>1, <2>2, ScopeFacts DEF ScopesOf
    <3> QED BY <2>1, <2>2, <3>1, <3>2
  <2>3. ASSUME NEW b \in Attempt, NEW k \in Scope, row'[b][k] = "failed"
        PROVE  pc'[b] \notin {"unborn", "gone"} /\ ~loggedIn'[b]
    <3>1. row[b][k] = "failed"
      BY <2>1, <2>3
    <3> QED BY <2>1, <3>1
  <2>4. ASSUME NEW b \in Attempt, pc'[b] = "unborn"
        PROVE  ~loggedIn'[b] /\ ~forgiven'[b]
    BY <2>1, <2>4
  <2> QED BY <2>2, <2>3, <2>4
<1>7. ASSUME NEW a \in Attempt, PurgeOld(a)
      PROVE  FailuresAreOpen'
  BY <1>7 DEF PurgeOld, GoTo, history
<1>8. CASE Tick \/ UNCHANGED vars
  BY <1>8 DEF Tick, vars, history
<1> QED BY <1>1, <1>2, <1>3, <1>4, <1>5, <1>6, <1>7, <1>8 DEF Next, Step

LEMMA ButOne ==
    ASSUME NEW S, NEW x, IsFiniteSet(S)
    PROVE  /\ IsFiniteSet(S \ {x}) /\ Cardinality(S \ {x}) \in Nat
           /\ Cardinality(S \ {x}) >= Cardinality(S) - 1
<1>1. Cardinality(S) \in Nat
  BY FS_CardinalityType
<1>2. /\ IsFiniteSet(S \ {x})
      /\ Cardinality(S \ {x}) = IF x \in S THEN Cardinality(S) - 1 ELSE Cardinality(S)
  BY FS_RemoveElement
<1>3. Cardinality(S \ {x}) \in Nat
  BY <1>2, FS_CardinalityType
<1> QED BY <1>1, <1>2, <1>3

LEMMA CountBlocks ==
    ASSUME ThrottleInv, FailuresAreOpen, NEW a \in Attempt, NEW k \in ScopesOf(a), ~Under(a, k)
    PROVE  Cardinality(Weighs(a, k)) >= Max[k]
<1>1. Counted(a, k) \ {a} \subseteq Weighs(a, k)
  <2> SUFFICES ASSUME NEW b \in Counted(a, k) \ {a}
               PROVE  b \in Weighs(a, k)
    OBVIOUS
  <2>1. b \in Attempt /\ row[b][k] = "failed" /\ InWindowOf(a, b) /\ k \in Scope
    BY ScopeFacts DEF Counted
  <2>2. k \in ScopesOf(b)
    BY <2>1 DEF ThrottleInv, TypeOK
  <2> QED BY <2>1, <2>2 DEF Weighs, FailuresAreOpen
<1>2. IsFiniteSet(Weighs(a, k)) /\ IsFiniteSet(Counted(a, k))
  <2>1. Weighs(a, k) \subseteq Attempt /\ Counted(a, k) \subseteq Attempt
    BY DEF Weighs, Counted
  <2> QED BY <2>1, FS_Subset, ThrottleAssumption
<1>3. Max[k] \in Nat
  BY ScopeFacts, ThrottleAssumption DEF Scope
<1>4. /\ Cardinality(Counted(a, k)) \in Nat
      /\ IsFiniteSet(Counted(a, k) \ {a})
      /\ Cardinality(Counted(a, k) \ {a}) \in Nat
      /\ Cardinality(Counted(a, k) \ {a}) >= Cardinality(Counted(a, k)) - 1
  BY <1>2, FS_CardinalityType, ButOne
<1>5. /\ Cardinality(Counted(a, k) \ {a}) <= Cardinality(Weighs(a, k))
      /\ Cardinality(Weighs(a, k)) \in Nat
  BY <1>1, <1>2, FS_Subset, FS_CardinalityType
<1>6. Cardinality(Counted(a, k)) > Max[k]
  BY <1>3, <1>4 DEF Under
<1> QED BY <1>3, <1>4, <1>5, <1>6

LEMMA BlockStep ==
    ThrottleInv /\ FailuresAreOpen /\ [Next]_vars => CauseOfBlock
<1> SUFFICES ASSUME ThrottleInv, FailuresAreOpen, [Next]_vars, NEW a \in Attempt, BlockedNow(a)
             PROVE  \E k \in ScopesOf(a) : Cardinality(Weighs(a, k)) >= Max[k]
  BY DEF CauseOfBlock
<1> USE DEF BlockedNow, ThrottleInv, TypeOK
<1>1. ASSUME NEW b \in Attempt, NEW k \in ScopesOf(b), NEW next, next # "over", Count(b, k, next)
      PROVE  \E s \in ScopesOf(a) : Cardinality(Weighs(a, s)) >= Max[s]
  <2>1. a = b /\ ~Under(b, k)
    BY <1>1 DEF Count, GoTo
  <2> QED BY <1>1, <2>1, CountBlocks
<1>2. ASSUME NEW b \in Attempt, CountAccount(b) \/ CountSource(b)
      PROVE  \E s \in ScopesOf(a) : Cardinality(Weighs(a, s)) >= Max[s]
  BY <1>1, <1>2 DEF CountAccount, CountSource, ScopesOf
<1>3. ASSUME NEW b \in Attempt,
             Record(b) \/ TakeWindow(b) \/ GiveUp(b) \/ Refuse(b) \/ Match(b) \/ MarkSuccessful(b)
      PROVE  FALSE
  BY <1>3 DEF Record, TakeWindow, GiveUp, Refuse, Match, MarkSuccessful, GoTo
<1>4. ASSUME NEW b \in Attempt, ResetAccount(b) \/ PurgeOld(b) \/ Stop(b)
      PROVE  FALSE
  BY <1>4 DEF ResetAccount, PurgeOld, Stop, GoTo
<1>5. CASE Tick \/ UNCHANGED vars
  BY <1>5 DEF Tick, vars
<1> QED BY <1>2, <1>3, <1>4, <1>5 DEF Next, Step

\* Nobody is locked out by attempts that do not count: an attempt that is blocked had as
\* many others against it as the maximum, each under way or failed in its window.
THEOREM BlocksAreJust == Spec => BlockedForCause
<1>1. Init => ThrottleInv /\ FailuresAreOpen
  <2>1. Init => FailuresAreOpen
    BY DEF Init, FailuresAreOpen
  <2> QED BY <2>1, InitInv DEF Inv
<1>2. ThrottleInv /\ FailuresAreOpen /\ [Next]_vars => (ThrottleInv /\ FailuresAreOpen)'
  BY RowStep, OpenStep
<1>3. ThrottleInv /\ FailuresAreOpen /\ [Next]_vars => [CauseOfBlock]_vars
  BY BlockStep
<1> QED BY <1>1, <1>2, <1>3, PTL DEF Spec, BlockedForCause

-----------------------------------------------------------------------------
(* Sessions.                                                               *)

\* What a request may hold, by the places it may be at.
Carried == [at : {"sent", "refused"}, token : Token, browser : Browser, logout : BOOLEAN, late : BOOLEAN]
Found == [at : {"found"}, token : Token, browser : Browser, logout : BOOLEAN, late : BOOLEAN,
          row : Limits, isActive : BOOLEAN]
Judged == [at : {"invalid", "refresh", "served", "refused", "failed"}, token : Token, browser : Browser,
           logout : BOOLEAN, late : BOOLEAN, expiresAt : Nat, now : Nat]
Closing == [at : {"closing", "opening"}, token : Token \cup {NoToken}, browser : Browser, opens : BOOLEAN]
Answer == [at : {"purge", "reply"}, token : Token \cup {NoToken}, browser : Browser]

Known == {NoToken} \cup {t \in Token : session[t] # Unborn}

SessionsTypeOK ==
    /\ clock \in Nat /\ isActive \in BOOLEAN /\ command \in BOOLEAN
    /\ session \in [Token -> Limits \cup {Unborn, Gone}]
    /\ cookie \in [Browser -> Known]
    /\ visit \in [Visit -> {Nowhere} \cup Carried \cup Found \cup Judged \cup Closing \cup Answer]
    /\ ended \subseteq Token

\* A token is drawn once: what ended is gone, and nobody carries one not drawn yet.
TokensOnce ==
    /\ \A t \in ended : session[t] = Gone
    /\ \A v \in Visit : visit[v].at # "nowhere" => visit[v].token \in Known

\* A row keeps the absolute limit it was created with, and its idle limit is not beyond.
SameLimit(t, limit) == Row(t) => session[t].expiresAt = limit
LimitsStand == \A t \in Token : Row(t) => session[t].idleExpiresAt <= session[t].expiresAt

\* What a request has read or decided is worth.
Sound(x) ==
    /\ x.at = "sent" /\ x.late => x.token \in ended \/ ~isActive
    /\ x.at = "found" => (x.late => ~x.isActive) /\ SameLimit(x.token, x.row.expiresAt)
    /\ x.at \in {"refresh", "served"} => ~x.late /\ x.now < x.expiresAt
    /\ x.at = "refresh" => SameLimit(x.token, x.expiresAt)

SessionsIInv == SessionsTypeOK /\ TokensOnce /\ LimitsStand /\ \A v \in Visit : Sound(visit[v])

\* What the other steps of a request rest on when the rows only change in these ways.
Grows ==
    /\ \A t \in Token : \/ session'[t] = session[t]
                        \/ session'[t] = Gone /\ session[t] # Unborn
                        \/ session[t] = Unborn /\ session'[t] \in Limits
                        \/ Row(t) /\ session'[t] \in Limits /\ session'[t].expiresAt = session[t].expiresAt
    /\ ended \subseteq ended'
    /\ isActive' => isActive

Keep(v) == visit' = [visit EXCEPT ![v] = visit'[v]]

LEMMA RowIsTyped == ASSUME SessionsTypeOK, NEW t \in Token PROVE Row(t) <=> session[t] \in Limits
BY SessionsAssumption DEF SessionsTypeOK, Row

LEMMA KnownStays == ASSUME SessionsTypeOK, Grows, NEW t \in Known PROVE t \in Known'
BY SessionsAssumption DEF Known, Grows, SessionsTypeOK

\* A request that does not move stays sound.
LEMMA SoundStays ==
    ASSUME SessionsIInv, Grows, session' \in [Token -> Limits \cup {Unborn, Gone}], isActive' \in BOOLEAN,
           NEW v \in Visit, visit'[v] = visit[v]
    PROVE  Sound(visit[v])'
<1> DEFINE x == visit[v]
<1>1. /\ x.at \in {"sent", "found", "refresh"} => x.token \in Token /\ session[x.token] # Unborn
      /\ x.at \in {"sent", "found", "refresh", "served"} => x.late \in BOOLEAN
      /\ x.at = "found" => x.isActive \in BOOLEAN
  BY SessionsAssumption DEF SessionsIInv, SessionsTypeOK, TokensOnce, Carried, Found, Judged, Closing, Answer, Known, Nowhere
<1>2. ASSUME NEW t \in Token, NEW limit, session[t] # Unborn, SameLimit(t, limit)
      PROVE  SameLimit(t, limit)'
  BY <1>2, SessionsAssumption DEF Grows, SameLimit, Row, SessionsIInv, SessionsTypeOK
<1>3. Sound(x)
  BY DEF SessionsIInv
<1>4. x.at = "sent" /\ x.late => x.token \in ended' \/ ~isActive'
  BY <1>3 DEF Sound, Grows
<1>5. x.at = "found" => (x.late => ~x.isActive) /\ SameLimit(x.token, x.row.expiresAt)'
  BY <1>1, <1>2, <1>3 DEF Sound
<1>6. x.at = "refresh" => SameLimit(x.token, x.expiresAt)'
  BY <1>1, <1>2, <1>3 DEF Sound
<1>7. x.at \in {"refresh", "served"} => ~x.late /\ x.now < x.expiresAt
  BY <1>3 DEF Sound
<1> QED BY <1>4, <1>5, <1>6, <1>7 DEF Sound, SameLimit, Row

\* What a step of one request must show.
LEMMA OneMoves ==
    ASSUME SessionsIInv, Grows, NEW v \in Visit, Keep(v),
           clock' \in Nat, isActive' \in BOOLEAN, command' \in BOOLEAN,
           session' \in [Token -> Limits \cup {Unborn, Gone}],
           cookie' \in [Browser -> Known'],
           visit'[v] \in {Nowhere} \cup Carried \cup Found \cup Judged \cup Closing \cup Answer,
           visit'[v].at # "nowhere" => visit'[v].token \in Known',
           ended' \subseteq Token, \A t \in ended' : session'[t] = Gone,
           LimitsStand', Sound(visit[v])'
    PROVE  SessionsIInv'
<1>1. SessionsTypeOK'
  BY DEF Keep, SessionsIInv, SessionsTypeOK
<1>2. TokensOnce'
  <2>1. \A w \in Visit : visit'[w].at # "nowhere" => visit'[w].token \in Known'
    BY KnownStays DEF Keep, SessionsIInv, SessionsTypeOK, TokensOnce
  <2> QED BY <2>1 DEF TokensOnce
<1>3. ASSUME NEW w \in Visit PROVE Sound(visit[w])'
  <2>1. CASE w = v
    BY <2>1
  <2>2. CASE w # v
    <3>1. visit'[w] = visit[w]
      BY <2>2 DEF Keep, SessionsIInv, SessionsTypeOK
    <3> QED BY <3>1, SoundStays
  <2> QED BY <2>1, <2>2
<1> QED BY <1>1, <1>2, <1>3 DEF SessionsIInv

\* The same when only the request moves.
LEMMA OneMovesAlone ==
    ASSUME SessionsIInv, NEW v \in Visit, Keep(v), UNCHANGED <<clock, isActive, session, command, ended>>,
           cookie' \in [Browser -> Known],
           visit'[v] \in {Nowhere} \cup Carried \cup Found \cup Judged \cup Closing \cup Answer,
           visit'[v].at # "nowhere" => visit'[v].token \in Known,
           Sound(visit'[v])
    PROVE  SessionsIInv'
<1>1. Grows
  BY DEF Grows
<1>2. Known' = Known
  BY DEF Known
<1>3. LimitsStand' /\ Sound(visit[v])'
  BY DEF SessionsIInv, LimitsStand, Row, Sound, SameLimit
<1>4. /\ session' \in [Token -> Limits \cup {Unborn, Gone}] /\ clock' \in Nat /\ isActive' \in BOOLEAN
      /\ command' \in BOOLEAN /\ ended' \subseteq Token /\ \A t \in ended' : session'[t] = Gone
  BY DEF SessionsIInv, SessionsTypeOK, TokensOnce
<1> QED BY <1>1, <1>2, <1>3, <1>4, OneMoves

\* Rows that are deleted are gone, and nothing else changes.
LEMMA RowsGo ==
    ASSUME SessionsIInv, NEW gone, Rows(gone)
    PROVE  /\ session' \in [Token -> Limits \cup {Unborn, Gone}]
           /\ \A t \in Token : session'[t] = session[t] \/ (session'[t] = Gone /\ session[t] # Unborn)
           /\ \A t \in Token \cap gone : session'[t] \in {Unborn, Gone}
           /\ \A t \in Token : session[t] = Unborn => session'[t] = Unborn
           /\ LimitsStand' /\ Known' = Known
<1>1. session' \in [Token -> Limits \cup {Unborn, Gone}]
  BY DEF Rows, SessionsIInv, SessionsTypeOK
<1>2. /\ \A t \in Token : session'[t] = session[t] \/ (session'[t] = Gone /\ session[t] # Unborn)
      /\ \A t \in Token \cap gone : session'[t] \in {Unborn, Gone}
      /\ \A t \in Token : session[t] = Unborn => session'[t] = Unborn
  <2>1. \A t \in Token : session'[t] = IF Row(t) /\ t \in gone THEN Gone ELSE session[t]
    BY DEF Rows
  <2> QED BY <2>1 DEF Row
<1>3. LimitsStand'
  BY <1>2 DEF LimitsStand, Row, SessionsIInv
<1>4. Known' = Known
  BY <1>2, SessionsAssumption DEF Known
<1> QED BY <1>1, <1>2, <1>3, <1>4

\* What a request has at each place.
LEMMA Shape ==
    ASSUME SessionsIInv, NEW v \in Visit
    PROVE  /\ visit[v].at = "sent" => visit[v] \in Carried
           /\ visit[v].at = "found" => visit[v] \in Found
           /\ visit[v].at \in {"invalid", "refresh", "served", "failed"} => visit[v] \in Judged
           /\ visit[v].at = "refused" => visit[v] \in Carried \cup Judged
           /\ visit[v].at \in {"closing", "opening"} => visit[v] \in Closing
           /\ visit[v].at \in {"purge", "reply"} => visit[v] \in Answer
           /\ visit[v].at # "nowhere" => visit[v].token \in Known
           /\ Sound(visit[v])
BY DEF SessionsIInv, SessionsTypeOK, TokensOnce, Carried, Found, Judged, Closing, Answer, Nowhere

LEMMA ArriveHolds ==
    ASSUME SessionsIInv, NEW v \in Visit, NEW b \in Browser, NEW logout \in BOOLEAN, Arrive(v, b, logout)
    PROVE  SessionsIInv'
<1> DEFINE late == cookie[b] \in ended \/ ~isActive
           x == [at |-> "sent", token |-> cookie[b], browser |-> b, logout |-> logout, late |-> late]
<1>1. cookie[b] \in Token /\ cookie[b] \in Known /\ late \in BOOLEAN
  BY SessionsAssumption DEF SessionsIInv, SessionsTypeOK, Known, Arrive
<1>2. visit' = [visit EXCEPT ![v] = x]
  BY DEF Arrive
<1>3. visit'[v] = x /\ Keep(v)
  BY <1>2 DEF Keep, SessionsIInv, SessionsTypeOK
<1>4. x \in Carried
  <2> HIDE DEF late
  <2> QED BY <1>1 DEF Carried
<1>5. Sound(x)
  BY DEF Sound
<1>6. UNCHANGED <<clock, isActive, session, cookie, command, ended>>
  BY DEF Arrive
<1>7. x.token \in Known /\ cookie' \in [Browser -> Known]
  BY <1>1, <1>6 DEF SessionsIInv, SessionsTypeOK
<1> HIDE DEF x
<1> QED BY <1>3, <1>4, <1>5, <1>6, <1>7, OneMovesAlone

LEMMA FindHolds ==
    ASSUME SessionsIInv, NEW v \in Visit, FindSession(v)
    PROVE  SessionsIInv'
<1> DEFINE t == visit[v].token
<1>1. visit[v] \in Carried /\ t \in Known /\ t \in Token /\ Sound(visit[v]) /\ visit[v].at = "sent"
  BY Shape DEF FindSession, Carried
<1>2. visit \in [Visit -> {Nowhere} \cup Carried \cup Found \cup Judged \cup Closing \cup Answer]
  BY DEF SessionsIInv, SessionsTypeOK
<1>3. CASE Row(t)
  <2> DEFINE x == [at |-> "found", token |-> t, browser |-> visit[v].browser, logout |-> visit[v].logout,
                   late |-> visit[v].late, row |-> session[t], isActive |-> isActive]
  <2>1. visit' = [visit EXCEPT ![v] = x] /\ UNCHANGED <<clock, isActive, session, cookie, command, ended>>
    BY <1>3 DEF FindSession
  <2>2. visit'[v] = x /\ Keep(v)
    BY <1>2, <2>1 DEF Keep
  <2>3. x \in Found
    <3>1. session[t] \in Limits
      BY <1>1, <1>3, RowIsTyped DEF SessionsIInv
    <3>2. isActive \in BOOLEAN
      BY DEF SessionsIInv, SessionsTypeOK
    <3>3. visit[v].browser \in Browser /\ visit[v].logout \in BOOLEAN /\ visit[v].late \in BOOLEAN
      BY <1>1 DEF Carried
    <3> QED BY <1>1, <3>1, <3>2, <3>3 DEF Found
  <2>4. Sound(x)
    <3>1. visit[v].late => ~isActive
      BY <1>1, <1>3 DEF Sound, SessionsIInv, TokensOnce, Row
    <3>2. SameLimit(t, session[t].expiresAt)
      BY DEF SameLimit
    <3> QED BY <3>1, <3>2 DEF Sound
  <2>5. x.token \in Known /\ cookie' \in [Browser -> Known]
    BY <1>1, <2>1 DEF SessionsIInv, SessionsTypeOK
  <2> HIDE DEF x
  <2> QED BY <2>1, <2>2, <2>3, <2>4, <2>5, OneMovesAlone
<1>4. CASE ~Row(t)
  <2> DEFINE x == [visit[v] EXCEPT !.at = "refused"]
  <2>1. /\ visit' = [visit EXCEPT ![v] = x] /\ ended' = ended \cup {t}
        /\ UNCHANGED <<clock, isActive, session, cookie, command>>
    BY <1>2, <1>4 DEF FindSession, Goes
  <2>2. visit'[v] = x /\ Keep(v)
    BY <1>2, <2>1 DEF Keep
  <2>3. x \in Carried /\ x.at = "refused" /\ x.token = t
    BY <1>1 DEF Carried
  <2>4. session[t] = Gone
    BY <1>1, <1>4, SessionsAssumption DEF Known, Row
  <2>5. Grows /\ Known' = Known
    BY <2>1 DEF Grows, Known
  <2>6. LimitsStand' /\ Sound(x)'
    BY <2>1, <2>3 DEF SessionsIInv, LimitsStand, Row, Sound
  <2>7. /\ session' \in [Token -> Limits \cup {Unborn, Gone}] /\ clock' \in Nat /\ isActive' \in BOOLEAN
        /\ command' \in BOOLEAN /\ ended' \subseteq Token /\ \A u \in ended' : session'[u] = Gone
        /\ cookie' \in [Browser -> Known]
    BY <1>1, <2>1, <2>4 DEF SessionsIInv, SessionsTypeOK, TokensOnce
  <2>8. Sound(visit[v])'
    BY <2>2, <2>6 DEF Sound, SameLimit, Row
  <2> HIDE DEF x
  <2> QED BY <1>1, <2>2, <2>3, <2>5, <2>6, <2>7, <2>8, OneMoves
<1> QED BY <1>3, <1>4

LEMMA CheckHolds ==
    ASSUME SessionsIInv, NEW v \in Visit, Check(v)
    PROVE  SessionsIInv'
<1> DEFINE sessionRow == visit[v].row
           invalid == sessionRow.expiresAt <= clock \/ sessionRow.idleExpiresAt <= clock \/ ~visit[v].isActive
           next == IF invalid THEN "invalid" ELSE IF clock > sessionRow.lastUsedAt THEN "refresh" ELSE "served"
           x == [at |-> next, token |-> visit[v].token, browser |-> visit[v].browser,
                 logout |-> visit[v].logout, late |-> visit[v].late,
                 expiresAt |-> sessionRow.expiresAt, now |-> clock]
<1>1. visit[v] \in Found /\ visit[v].token \in Known /\ Sound(visit[v]) /\ visit[v].at = "found"
  BY Shape DEF Check
<1>2. sessionRow \in Limits /\ sessionRow.expiresAt \in Nat /\ clock \in Nat
  BY <1>1 DEF Found, Limits, SessionsIInv, SessionsTypeOK
<1>3. visit' = [visit EXCEPT ![v] = x] /\ UNCHANGED <<clock, isActive, session, cookie, command, ended>>
  BY DEF Check
<1>4. visit'[v] = x /\ Keep(v)
  BY <1>3 DEF Keep, SessionsIInv, SessionsTypeOK
<1>5. x \in Judged
  <2>1. next \in {"invalid", "refresh", "served", "refused", "failed"}
    OBVIOUS
  <2>2. /\ visit[v].token \in Token /\ visit[v].browser \in Browser
        /\ visit[v].logout \in BOOLEAN /\ visit[v].late \in BOOLEAN
    BY <1>1 DEF Found
  <2> HIDE DEF next
  <2> QED BY <1>2, <2>1, <2>2 DEF Judged
<1>6. Sound(x)
  <2>1. next \in {"refresh", "served"} => ~invalid
    OBVIOUS
  <2>2. ~invalid => ~visit[v].late /\ clock < sessionRow.expiresAt
    BY <1>1, <1>2 DEF Sound
  <2>3. SameLimit(visit[v].token, sessionRow.expiresAt)
    BY <1>1 DEF Sound
  <2>4. next \notin {"sent", "found"}
    OBVIOUS
  <2> HIDE DEF next, invalid
  <2> QED BY <2>1, <2>2, <2>3, <2>4 DEF Sound
<1>7. x.token \in Known /\ cookie' \in [Browser -> Known]
  BY <1>1, <1>3 DEF SessionsIInv, SessionsTypeOK
<1> HIDE DEF x
<1> QED BY <1>3, <1>4, <1>5, <1>6, <1>7, OneMovesAlone

LEMMA DeleteInvalidHolds ==
    ASSUME SessionsIInv, NEW v \in Visit, DeleteInvalid(v)
    PROVE  SessionsIInv'
<1> DEFINE t == visit[v].token
           x == [visit[v] EXCEPT !.at = "refused"]
<1>1. visit[v] \in Judged /\ t \in Known /\ t \in Token
  BY Shape DEF DeleteInvalid, Judged
<1>2. /\ visit' = [visit EXCEPT ![v] = x] /\ ended' = ended \cup {t} /\ Rows({t})
      /\ UNCHANGED <<clock, isActive, cookie, command>>
  BY DEF DeleteInvalid, Goes
<1>3. visit'[v] = x /\ Keep(v)
  BY <1>2 DEF Keep, SessionsIInv, SessionsTypeOK
<1>4. x \in Judged /\ x.at = "refused" /\ x.token = t
  BY <1>1 DEF Judged
<1>5. /\ session' \in [Token -> Limits \cup {Unborn, Gone}]
      /\ \A u \in Token : session'[u] = session[u] \/ (session'[u] = Gone /\ session[u] # Unborn)
      /\ session'[t] \in {Unborn, Gone} /\ LimitsStand' /\ Known' = Known
  BY <1>1, <1>2, RowsGo
<1>6. session'[t] = Gone
  BY <1>1, <1>5, SessionsAssumption DEF Known
<1>7. Grows
  BY <1>2, <1>5 DEF Grows
<1>8. Sound(visit[v])'
  BY <1>3, <1>4 DEF Sound
<1>9. /\ clock' \in Nat /\ isActive' \in BOOLEAN /\ command' \in BOOLEAN /\ ended' \subseteq Token
      /\ cookie' \in [Browser -> Known']
  BY <1>1, <1>2, <1>5 DEF SessionsIInv, SessionsTypeOK
<1>10. \A u \in ended' : session'[u] = Gone
  BY <1>2, <1>5, <1>6 DEF SessionsIInv, SessionsTypeOK, TokensOnce
<1> HIDE DEF x
<1> QED BY <1>1, <1>3, <1>4, <1>5, <1>7, <1>8, <1>9, <1>10, OneMoves

LEMMA RefreshHolds ==
    ASSUME SessionsIInv, NEW v \in Visit, Refresh(v)
    PROVE  SessionsIInv'
<1> DEFINE t == visit[v].token
<1>1. /\ visit[v] \in Judged /\ t \in Known /\ t \in Token /\ Sound(visit[v])
      /\ visit[v].at = "refresh"
  BY Shape DEF Refresh, Judged
<1>2. visit[v].now \in Nat /\ visit[v].expiresAt \in Nat /\ ~visit[v].late
      /\ visit[v].now < visit[v].expiresAt /\ SameLimit(t, visit[v].expiresAt)
  BY <1>1 DEF Judged, Sound
<1>3. CASE Row(t)
  <2> DEFINE x == [visit[v] EXCEPT !.at = "served"]
             sessionRow == [session[t] EXCEPT !.lastUsedAt = visit[v].now,
                                       !.idleExpiresAt = Least(visit[v].now + Inactivity, visit[v].expiresAt)]
  <2>1. /\ visit' = [visit EXCEPT ![v] = x] /\ session' = [session EXCEPT ![t] = sessionRow]
        /\ UNCHANGED <<clock, isActive, cookie, command, ended>>
    BY <1>3 DEF Refresh, Goes
  <2>2. visit'[v] = x /\ Keep(v)
    BY <2>1 DEF Keep, SessionsIInv, SessionsTypeOK
  <2>3. x \in Judged /\ x.at = "served" /\ x.token = t /\ x.late = visit[v].late
        /\ x.now = visit[v].now /\ x.expiresAt = visit[v].expiresAt
    BY <1>1 DEF Judged
  <2>4. session[t] \in Limits /\ session[t].expiresAt = visit[v].expiresAt
    BY <1>1, <1>2, <1>3, RowIsTyped DEF SessionsIInv, SameLimit
  <2>5. /\ Least(visit[v].now + Inactivity, visit[v].expiresAt) \in Nat
        /\ Least(visit[v].now + Inactivity, visit[v].expiresAt) <= visit[v].expiresAt
    BY <1>2, SessionsAssumption DEF Least
  <2>6. sessionRow \in Limits /\ sessionRow.expiresAt = session[t].expiresAt /\ sessionRow.idleExpiresAt <= sessionRow.expiresAt
    BY <1>2, <2>4, <2>5 DEF Limits
  <2> HIDE DEF sessionRow
  <2>7. /\ session'[t] = sessionRow /\ \A u \in Token \ {t} : session'[u] = session[u]
        /\ session' \in [Token -> Limits \cup {Unborn, Gone}]
    BY <1>1, <2>1, <2>6 DEF SessionsIInv, SessionsTypeOK
  <2>8. Grows
    BY <1>3, <2>1, <2>6, <2>7 DEF Grows
  <2>9. LimitsStand' /\ Known \subseteq Known'
    <3>1. LimitsStand'
      BY <2>6, <2>7 DEF LimitsStand, SessionsIInv, Row
    <3>2. Known \subseteq Known'
      BY <2>8, KnownStays DEF SessionsIInv
    <3> QED BY <3>1, <3>2
  <2>10. Sound(visit[v])'
    BY <1>2, <2>2, <2>3 DEF Sound
  <2>11. session[t] # Gone
    BY <1>3 DEF Row
  <2>12. \A u \in ended' : session'[u] = Gone
    BY <2>1, <2>7, <2>11 DEF SessionsIInv, SessionsTypeOK, TokensOnce
  <2>13. /\ clock' \in Nat /\ isActive' \in BOOLEAN /\ command' \in BOOLEAN /\ ended' \subseteq Token
         /\ cookie' \in [Browser -> Known']
    BY <2>1, <2>9 DEF SessionsIInv, SessionsTypeOK
  <2> HIDE DEF x
  <2> QED BY <1>1, <2>2, <2>3, <2>7, <2>8, <2>9, <2>10, <2>12, <2>13, OneMoves
<1>4. CASE ~Row(t)
  <2> DEFINE x == [visit[v] EXCEPT !.at = "failed"]
  <2>1. visit' = [visit EXCEPT ![v] = x] /\ UNCHANGED <<clock, isActive, session, cookie, command, ended>>
    BY <1>4 DEF Refresh, Goes
  <2>2. visit'[v] = x /\ Keep(v)
    BY <2>1 DEF Keep, SessionsIInv, SessionsTypeOK
  <2>3. x \in Judged /\ x.at = "failed" /\ x.token = t
    BY <1>1 DEF Judged
  <2>4. Sound(x) /\ cookie' \in [Browser -> Known]
    BY <2>1, <2>3 DEF Sound, SessionsIInv, SessionsTypeOK
  <2> HIDE DEF x
  <2> QED BY <1>1, <2>1, <2>2, <2>3, <2>4, OneMovesAlone
<1> QED BY <1>3, <1>4

LEMMA LoginHolds ==
    ASSUME SessionsIInv, NEW v \in Visit, NEW b \in Browser, Login(v, b)
    PROVE  SessionsIInv'
<1> DEFINE x == [at |-> "closing", token |-> cookie[b], browser |-> b, opens |-> TRUE]
<1>1. cookie[b] \in Known /\ cookie[b] \in Token \cup {NoToken}
  BY DEF SessionsIInv, SessionsTypeOK, Known
<1>2. visit' = [visit EXCEPT ![v] = x] /\ UNCHANGED <<clock, isActive, session, cookie, command, ended>>
  BY DEF Login
<1>3. visit'[v] = x /\ Keep(v)
  BY <1>2 DEF Keep, SessionsIInv, SessionsTypeOK
<1>4. x \in Closing /\ Sound(x) /\ x.token \in Known /\ cookie' \in [Browser -> Known]
  BY <1>1, <1>2 DEF Closing, Sound, SessionsIInv, SessionsTypeOK
<1> HIDE DEF x
<1> QED BY <1>2, <1>3, <1>4, OneMovesAlone

LEMMA LogoutHolds ==
    ASSUME SessionsIInv, NEW v \in Visit, Logout(v)
    PROVE  SessionsIInv'
<1> DEFINE x == [at |-> "closing", token |-> visit[v].token, browser |-> visit[v].browser, opens |-> FALSE]
<1>1. visit[v].token \in Token /\ visit[v].token \in Known /\ visit[v].browser \in Browser
  BY Shape DEF Logout, Carried, Judged
<1>2. visit' = [visit EXCEPT ![v] = x] /\ UNCHANGED <<clock, isActive, session, cookie, command, ended>>
  BY DEF Logout
<1>3. visit'[v] = x /\ Keep(v)
  BY <1>2 DEF Keep, SessionsIInv, SessionsTypeOK
<1>4. x \in Closing /\ Sound(x) /\ x.token \in Known /\ cookie' \in [Browser -> Known]
  BY <1>1, <1>2 DEF Closing, Sound, SessionsIInv, SessionsTypeOK
<1> HIDE DEF x
<1> QED BY <1>2, <1>3, <1>4, OneMovesAlone

LEMMA DestroyHolds ==
    ASSUME SessionsIInv, NEW v \in Visit, DestroySession(v)
    PROVE  SessionsIInv'
<1> DEFINE t == visit[v].token
<1>1. visit[v] \in Closing /\ t \in Known /\ t \in Token \cup {NoToken} /\ visit[v].browser \in Browser
  BY Shape DEF DestroySession, Closing
<1>2. Rows({t}) /\ ended' = ended \cup ({t} \ {NoToken}) /\ UNCHANGED <<clock, isActive, cookie, command>>
  BY DEF DestroySession
<1>3. PICK x : /\ x \in Closing \cup Answer /\ x.at \in {"opening", "reply"} /\ x.token \in {t, NoToken}
               /\ visit' = [visit EXCEPT ![v] = x]
  <2>1. CASE visit[v].opens
    <3>1. visit' = [visit EXCEPT ![v] = [visit[v] EXCEPT !.at = "opening"]]
      BY <2>1 DEF DestroySession, Goes
    <3>2. /\ [visit[v] EXCEPT !.at = "opening"] \in Closing
          /\ [visit[v] EXCEPT !.at = "opening"].at = "opening"
          /\ [visit[v] EXCEPT !.at = "opening"].token = t
      BY <1>1 DEF Closing
    <3> QED BY <3>1, <3>2
  <2>2. CASE ~visit[v].opens
    <3> DEFINE y == [at |-> "reply", token |-> NoToken, browser |-> visit[v].browser]
    <3>1. visit' = [visit EXCEPT ![v] = y]
      BY <2>2 DEF DestroySession
    <3>2. y \in Answer /\ y.at = "reply" /\ y.token = NoToken
      BY <1>1 DEF Answer
    <3> QED BY <3>1, <3>2
  <2> QED BY <2>1, <2>2
<1>4. visit'[v] = x /\ Keep(v)
  BY <1>3 DEF Keep, SessionsIInv, SessionsTypeOK
<1>5. /\ session' \in [Token -> Limits \cup {Unborn, Gone}]
      /\ \A u \in Token : session'[u] = session[u] \/ (session'[u] = Gone /\ session[u] # Unborn)
      /\ \A u \in Token \cap {t} : session'[u] \in {Unborn, Gone}
      /\ LimitsStand' /\ Known' = Known
  BY <1>2, RowsGo
<1>6. t \in Token => session'[t] = Gone
  BY <1>1, <1>5, SessionsAssumption DEF Known
<1>7. Grows
  BY <1>2, <1>5 DEF Grows
<1>8. Sound(visit[v])' /\ x.token \in Known'
  BY <1>1, <1>3, <1>4, <1>5 DEF Sound, Known
<1>9. /\ clock' \in Nat /\ isActive' \in BOOLEAN /\ command' \in BOOLEAN /\ ended' \subseteq Token
      /\ cookie' \in [Browser -> Known']
  BY <1>1, <1>2, <1>5 DEF SessionsIInv, SessionsTypeOK
<1>10. \A u \in ended' : session'[u] = Gone
  BY <1>1, <1>2, <1>5, <1>6 DEF SessionsIInv, SessionsTypeOK, TokensOnce
<1> QED BY <1>3, <1>4, <1>5, <1>7, <1>8, <1>9, <1>10, OneMoves

LEMMA CreateHolds ==
    ASSUME SessionsIInv, NEW v \in Visit, CreateSession(v)
    PROVE  SessionsIInv'
<1> DEFINE t == CHOOSE new \in Token : session[new] = Unborn
           sessionRow == [expiresAt |-> clock + Absolute, idleExpiresAt |-> clock + Inactivity, lastUsedAt |-> clock]
           x == [at |-> "purge", token |-> t, browser |-> visit[v].browser]
<1>1. t \in Token /\ session[t] = Unborn
  BY DEF CreateSession
<1>2. /\ session' = [session EXCEPT ![t] = sessionRow] /\ visit' = [visit EXCEPT ![v] = x]
      /\ UNCHANGED <<clock, isActive, cookie, command, ended>>
  BY DEF CreateSession
<1>3. sessionRow \in Limits /\ sessionRow.idleExpiresAt <= sessionRow.expiresAt
  BY SessionsAssumption DEF Limits, SessionsIInv, SessionsTypeOK
<1>4. visit[v].browser \in Browser
  BY Shape DEF CreateSession, Closing
<1> HIDE DEF t, sessionRow
<1>5. /\ session'[t] = sessionRow /\ \A u \in Token \ {t} : session'[u] = session[u]
      /\ session' \in [Token -> Limits \cup {Unborn, Gone}]
  BY <1>1, <1>2, <1>3 DEF SessionsIInv, SessionsTypeOK
<1>6. Grows
  BY <1>1, <1>2, <1>3, <1>5 DEF Grows
<1>7. LimitsStand' /\ Known \subseteq Known' /\ t \in Known'
  <2>1. LimitsStand'
    BY <1>3, <1>5 DEF LimitsStand, SessionsIInv, Row
  <2>2. Known \subseteq Known'
    BY <1>6, KnownStays DEF SessionsIInv
  <2>3. t \in Known'
    BY <1>1, <1>3, <1>5, SessionsAssumption DEF Known
  <2> QED BY <2>1, <2>2, <2>3
<1>8. visit'[v] = x /\ Keep(v)
  BY <1>2 DEF Keep, SessionsIInv, SessionsTypeOK
<1>9. x \in Answer /\ x.at = "purge" /\ x.token = t
  BY <1>1, <1>4 DEF Answer
<1>10. Sound(visit[v])'
  BY <1>8, <1>9 DEF Sound
<1>11. t \notin ended
  BY <1>1, SessionsAssumption DEF SessionsIInv, TokensOnce
<1>12. \A u \in ended' : session'[u] = Gone
  BY <1>2, <1>5, <1>11 DEF SessionsIInv, SessionsTypeOK, TokensOnce
<1>13. /\ clock' \in Nat /\ isActive' \in BOOLEAN /\ command' \in BOOLEAN /\ ended' \subseteq Token
       /\ cookie' \in [Browser -> Known']
  BY <1>2, <1>7 DEF SessionsIInv, SessionsTypeOK
<1> HIDE DEF x
<1> QED BY <1>5, <1>6, <1>7, <1>8, <1>9, <1>10, <1>12, <1>13, OneMoves

LEMMA PurgeHolds ==
    ASSUME SessionsIInv, NEW v \in Visit, PurgeExpired(v)
    PROVE  SessionsIInv'
<1> DEFINE x == [visit[v] EXCEPT !.at = "reply"]
<1>1. visit[v] \in Answer /\ visit[v].token \in Known
  BY Shape DEF PurgeExpired
<1>2. /\ visit' = [visit EXCEPT ![v] = x] /\ UNCHANGED <<clock, isActive, cookie, command, ended>>
      /\ \E gone : Rows(gone)
  BY DEF PurgeExpired, Goes
<1>3. visit'[v] = x /\ Keep(v)
  BY <1>2 DEF Keep, SessionsIInv, SessionsTypeOK
<1>4. x \in Answer /\ x.at = "reply" /\ x.token \in Known
  BY <1>1 DEF Answer
<1>5. /\ session' \in [Token -> Limits \cup {Unborn, Gone}]
      /\ \A u \in Token : session'[u] = session[u] \/ (session'[u] = Gone /\ session[u] # Unborn)
      /\ LimitsStand' /\ Known' = Known
  BY <1>2, RowsGo
<1>6. Grows
  BY <1>2, <1>5 DEF Grows
<1>7. Sound(visit[v])'
  BY <1>3, <1>4 DEF Sound
<1>8. /\ clock' \in Nat /\ isActive' \in BOOLEAN /\ command' \in BOOLEAN /\ ended' \subseteq Token
      /\ cookie' \in [Browser -> Known'] /\ \A u \in ended' : session'[u] = Gone
  BY <1>2, <1>5 DEF SessionsIInv, SessionsTypeOK, TokensOnce
<1> HIDE DEF x
<1> QED BY <1>3, <1>4, <1>5, <1>6, <1>7, <1>8, OneMoves

LEMMA ReplyHolds ==
    ASSUME SessionsIInv, NEW v \in Visit, (\E received \in BOOLEAN : Reply(v, received)) \/ Leave(v)
    PROVE  SessionsIInv'
<1>1. visit' = [visit EXCEPT ![v] = Nowhere] /\ UNCHANGED <<clock, isActive, session, command, ended>>
  BY DEF Reply, Leave
<1>2. visit'[v] = Nowhere /\ Keep(v)
  BY <1>1 DEF Keep, SessionsIInv, SessionsTypeOK
<1>3. cookie' \in [Browser -> Known]
  <2>1. CASE cookie' = cookie
    BY <2>1 DEF SessionsIInv, SessionsTypeOK
  <2>2. CASE cookie' # cookie
    <3>1. visit[v].at = "reply" /\ cookie' = [cookie EXCEPT ![visit[v].browser] = visit[v].token]
      BY <2>2 DEF Reply, Leave
    <3>2. visit[v].token \in Known /\ cookie \in [Browser -> Known]
      BY <3>1, Shape DEF SessionsIInv, SessionsTypeOK
    <3> QED BY <3>1, <3>2
  <2> QED BY <2>1, <2>2
<1>4. Sound(Nowhere) /\ Nowhere.at = "nowhere"
  BY DEF Sound, Nowhere
<1> QED BY <1>1, <1>2, <1>3, <1>4, OneMovesAlone

\* Steps of the operator and of time: no request moves.
LEMMA NoneMoves ==
    ASSUME SessionsIInv, Grows, UNCHANGED <<cookie, visit>>, Known' = Known, LimitsStand',
           clock' \in Nat, isActive' \in BOOLEAN, command' \in BOOLEAN,
           session' \in [Token -> Limits \cup {Unborn, Gone}],
           ended' \subseteq Token, \A t \in ended' : session'[t] = Gone
    PROVE  SessionsIInv'
<1>1. SessionsTypeOK' /\ TokensOnce'
  BY DEF SessionsIInv, SessionsTypeOK, TokensOnce
<1>2. \A v \in Visit : Sound(visit[v])'
  BY SoundStays
<1> QED BY <1>1, <1>2 DEF SessionsIInv

LEMMA OperatorHolds ==
    ASSUME SessionsIInv, TimePasses \/ DeleteSessions \/ \E disabled \in BOOLEAN : WriteAccount(disabled)
    PROVE  SessionsIInv'
<1>1. CASE DeleteSessions
  <2>1. /\ session' \in [Token -> Limits \cup {Unborn, Gone}]
        /\ \A u \in Token : session'[u] = session[u] \/ (session'[u] = Gone /\ session[u] # Unborn)
        /\ \A u \in Token \cap Token : session'[u] \in {Unborn, Gone}
        /\ LimitsStand' /\ Known' = Known
    BY <1>1, RowsGo DEF DeleteSessions
  <2>2. /\ UNCHANGED <<clock, isActive, cookie, visit>> /\ command' = FALSE
        /\ ended' = ended \cup {t \in Token : session[t] # Unborn}
    BY <1>1 DEF DeleteSessions
  <2>3. Grows
    BY <2>1, <2>2 DEF Grows
  <2>4. \A u \in ended' : session'[u] = Gone
    BY <2>1, <2>2, SessionsAssumption DEF SessionsIInv, SessionsTypeOK, TokensOnce
  <2>5. clock' \in Nat /\ isActive' \in BOOLEAN /\ command' \in BOOLEAN /\ ended' \subseteq Token
    BY <2>2 DEF SessionsIInv, SessionsTypeOK
  <2> QED BY <2>1, <2>2, <2>3, <2>4, <2>5, NoneMoves
<1>2. CASE TimePasses \/ \E disabled \in BOOLEAN : WriteAccount(disabled)
  <2>1. /\ UNCHANGED <<session, cookie, visit, ended>> /\ clock' \in {clock, clock + 1}
        /\ (isActive' => isActive) /\ isActive' \in BOOLEAN /\ command' \in BOOLEAN
    <3>1. CASE TimePasses
      BY <3>1 DEF TimePasses, SessionsIInv, SessionsTypeOK
    <3>2. ASSUME NEW disabled \in BOOLEAN, WriteAccount(disabled)
          PROVE  /\ UNCHANGED <<clock, session, cookie, visit, ended>> /\ command' = TRUE
                 /\ (isActive' => isActive) /\ isActive' \in BOOLEAN
      BY <3>2 DEF WriteAccount
    <3> QED BY <1>2, <3>1, <3>2
  <2>2. Grows /\ Known' = Known /\ LimitsStand'
    BY <2>1 DEF Grows, Known, LimitsStand, SessionsIInv, Row
  <2>3. /\ clock' \in Nat /\ session' \in [Token -> Limits \cup {Unborn, Gone}]
        /\ ended' \subseteq Token /\ \A t \in ended' : session'[t] = Gone
    BY <2>1 DEF SessionsIInv, SessionsTypeOK, TokensOnce
  <2> QED BY <2>1, <2>2, <2>3, NoneMoves
<1> QED BY <1>1, <1>2

LEMMA SessionsStep ==
    ASSUME SessionsIInv, [SessionsNext]_sessionVars
    PROVE  SessionsIInv'
<1>1. CASE UNCHANGED sessionVars
  BY <1>1 DEF sessionVars, SessionsIInv, SessionsTypeOK, TokensOnce, LimitsStand, Sound, SameLimit, Row, Known
<1>2. CASE SessionsNext
  BY <1>2, ArriveHolds, FindHolds, CheckHolds, DeleteInvalidHolds, RefreshHolds, LoginHolds, LogoutHolds,
     DestroyHolds, CreateHolds, PurgeHolds, ReplyHolds, OperatorHolds DEF SessionsNext
<1> QED BY <1>1, <1>2

\* What a request carries, has read or has decided, and the rows it rests on, are kept by
\* every step of any number of requests and of the operator.
THEOREM SessionsInvariant == SessionsSpec => []SessionsIInv
<1>1. SessionsInit => SessionsIInv
  <2> SUFFICES ASSUME SessionsInit PROVE SessionsIInv
    OBVIOUS
  <2>1. SessionsTypeOK /\ TokensOnce
    BY DEF SessionsInit, SessionsTypeOK, TokensOnce, Known, Nowhere
  <2>2. LimitsStand
    BY DEF SessionsInit, LimitsStand, Row
  <2>3. \A v \in Visit : Sound(visit[v])
    BY DEF SessionsInit, Sound, Nowhere
  <2> QED BY <2>1, <2>2, <2>3 DEF SessionsIInv
<1> QED BY <1>1, SessionsStep, PTL DEF SessionsSpec

\* What has been refused, logged out or revoked is never served again.
THEOREM EndedIsOver == SessionsSpec => []SessionsInv
<1>1. SessionsIInv => SessionsInv
  <2> SUFFICES ASSUME SessionsIInv PROVE SessionsInv
    OBVIOUS
  <2>1. \A v \in Visit : visit[v].at = "served" => ~visit[v].late /\ visit[v].now < visit[v].expiresAt
    BY DEF SessionsIInv, Sound
  <2>2. \A t \in ended : ~Row(t)
    BY DEF SessionsIInv, TokensOnce, Row
  <2> QED BY <2>1, <2>2 DEF SessionsInv, SessionsIInv, LimitsStand
<1> QED BY <1>1, SessionsInvariant, PTL

\* The two together, the property the run checks.
THEOREM AccountsHold == Spec /\ SessionsSpec => []AccountsInv
BY RowsAreCounted, EndedIsOver, PTL DEF AccountsInv

-----------------------------------------------------------------------------
(* The migrations of a task of before V1.0 (LegacyTasks).                  *)

\* The reasons of a note, and the rows.
LegacyReason == {"UNKNOWN", "KEPT", "REVERTED", "ORIGIN_UNKNOWN", "UNDONE"}
NoteRow == [reason : LegacyReason, detail : Staff \cup {Nobody}, earlier : BOOLEAN, later : BOOLEAN]
TaskRow == [assignee : Staff \cup {Nobody}, creator : Staff \cup {Nobody}, lines : BOOLEAN, born : BOOLEAN,
            comment : BOOLEAN, changed : [Field -> BOOLEAN], notes : [Field -> SUBSET NoteRow]]
MigrationStep == {"none", "work", "hardening", "reconcile", "restore", "explicit"}

LegacyTypes ==
    /\ applied \in MigrationStep /\ old \in BOOLEAN /\ dated \in BOOLEAN /\ judged \in BOOLEAN
    /\ author \in Staff \cup {Stranger, Nobody} /\ (old \/ author = Nobody)
    /\ task \in TaskRow /\ meant \in [Field -> Staff \cup {Nobody, Unknown}]

\* A change leaves a line, and is a decision; only the assignee changes.
Changes(r) ==
    /\ ~r.changed["creator"]
    /\ r.born \/ r.changed["assignee"] => r.lines
    /\ r.changed["assignee"] => meant["assignee"] # Unknown

\* A value withdrawn is of the staff, the one decided if one was, and the field is empty
\* until somebody changes it.
Withdrawn(r, f) ==
    \A n \in Noted(r, f, {"REVERTED"}) :
        /\ n.detail \in Staff
        /\ ~r.changed[f] => r[f] = Nobody /\ meant[f] \in {Unknown, n.detail}
        /\ ~old => meant[f] # Unknown

\* A task created by V1.0 holds nothing that nobody decided.
BornDecided(r, f) == ~old /\ meant[f] = Unknown => r[f] = Nobody

\* Some note of this reason keeps the decision.
KeptBy(r, f, reason) == \E n \in Noted(r, f, {reason}) : n.detail = meant[f]

CreatorKnown(r) ==
    /\ author \in Staff =>
          meant["creator"] = author /\ r.creator = author /\ Noted(r, "creator", {"REVERTED"}) = {}
    /\ meant["creator"] \notin {Unknown, r.creator} => r.creator = Nobody /\ KeptBy(r, "creator", "REVERTED")
    /\ meant["creator"] # Nobody

\* A value put back over a decision that came first, and nothing decided since.
Contradicted(r) == {n \in Noted(r, "assignee", {"ORIGIN_UNKNOWN"}) : n.earlier /\ ~n.later}

\* Where the assignee is not the one decided: it was withdrawn, put back over nobody, or undone.
AssigneeKnown(r) ==
    /\ meant["assignee"] \notin {Unknown, r.assignee} =>
          \/ ~r.changed["assignee"] /\ r.assignee = Nobody /\ KeptBy(r, "assignee", "REVERTED")
          \/ meant["assignee"] = Nobody /\ \E n \in Contradicted(r) : n.detail = r.assignee
          \/ r.assignee = Nobody /\ KeptBy(r, "assignee", "UNDONE")
    /\ \A n \in Contradicted(r) : meant["assignee"] \in {Nobody, n.detail}

FieldTraced(r, f) ==
    /\ \A n \in r.notes[f] : n.earlier \/ n.later => r.changed[f]
    /\ Withdrawn(r, f) /\ BornDecided(r, f)
    /\ IF f = "creator" THEN CreatorKnown(r) ELSE AssigneeKnown(r)

Traced(r) == Changes(r) /\ \A f \in Field : FieldTraced(r, f)

GuessNoted(r, f) ==
    meant[f] = Unknown /\ r[f] # Nobody => \E n \in Noted(r, f, {"KEPT", "ORIGIN_UNKNOWN"}) : n.detail = r[f]

Unnoted(r, reasons) == \A f \in Field : Noted(r, f, reasons) = {}

\* What the row is once a is applied: a note is of a migration applied; from the
\* reconciliation on, a guess is noted, or the task was not judged (j) and has history.
Reached(a, j, r) ==
    /\ r \in TaskRow /\ Traced(r)
    /\ a \in {"work", "hardening"} => ~j /\ Unnoted(r, {"KEPT", "REVERTED"})
    /\ a \in {"reconcile", "restore", "explicit"} => \A f \in Field : GuessNoted(r, f) \/ (~j /\ r.lines)
    /\ a \in {"work", "hardening", "reconcile"} => Unnoted(r, {"ORIGIN_UNKNOWN"})
    /\ a # "explicit" => Unnoted(r, {"UNDONE"})
    /\ a = "explicit" => \A n \in Contradicted(r) : n.detail # r.assignee

\* Before V1.0 the task is bare, and a task of V1.0 has a creator.
LegacyIInv ==
    /\ LegacyTypes
    /\ ~Exists => meant = [f \in Field |-> Unknown]
    /\ ~old /\ Exists => meant["creator"] # Unknown
    /\ applied = "none" => /\ ~judged /\ task = NoTask
                           /\ meant = [f \in Field |-> IF f = "creator" /\ author \in Staff THEN author ELSE Unknown]
    /\ applied # "none" => Reached(applied, judged, task)

-----------------------------------------------------------------------------
LEMMA SinceFacts ==
    ASSUME applied \in MigrationStep
    PROVE  /\ Since("work") <=> applied # "none"
           /\ Since("reconcile") <=> applied \in {"reconcile", "restore", "explicit"}
           /\ Since("restore") <=> applied \in {"restore", "explicit"}
           /\ Since("explicit") <=> applied = "explicit"
<1>1. /\ DOMAIN Migration = 1..6 /\ Migration[1] = "none" /\ Migration[2] = "work" /\ Migration[3] = "hardening"
      /\ Migration[4] = "reconcile" /\ Migration[5] = "restore" /\ Migration[6] = "explicit"
  BY DEF Migration
<1>2. \A i \in 1..6 : i = 1 \/ i = 2 \/ i = 3 \/ i = 4 \/ i = 5 \/ i = 6
  OBVIOUS
<1> HIDE DEF Migration
<1>3. PICK k \in 1..6 : applied = Migration[k]
  BY <1>1 DEF MigrationStep
<1>4. ASSUME NEW j \in 1..6 PROVE Since(Migration[j]) <=> j <= k
  <2>1. ASSUME NEW i \in 1..6, Migration[i] = Migration[j] PROVE i = j
    BY <1>1, <1>2, <2>1
  <2>2. ASSUME NEW i \in 1..6, Migration[i] = Migration[k] PROVE i = k
    BY <1>1, <1>2, <2>2
  <2> QED BY <1>1, <1>3, <2>1, <2>2 DEF Since
<1>5. Since("work") <=> 2 <= k
  <2>1. Since(Migration[2]) <=> 2 <= k
    BY <1>4
  <2> QED BY <1>1, <2>1
<1>6. Since("reconcile") <=> 4 <= k
  <2>1. Since(Migration[4]) <=> 4 <= k
    BY <1>4
  <2> QED BY <1>1, <2>1
<1>7. Since("restore") <=> 5 <= k
  <2>1. Since(Migration[5]) <=> 5 <= k
    BY <1>4
  <2> QED BY <1>1, <2>1
<1>8. Since("explicit") <=> 6 <= k
  <2>1. Since(Migration[6]) <=> 6 <= k
    BY <1>4
  <2> QED BY <1>1, <2>1
<1> HIDE DEF Since
<1> QED BY <1>1, <1>2, <1>3, <1>5, <1>6, <1>7, <1>8

\* What no migration touches.
Alike(r, s) ==
    /\ s \in TaskRow /\ s.lines = r.lines /\ s.born = r.born /\ s.comment = r.comment /\ s.changed = r.changed

SameField(r, s, f) == s[f] = r[f] /\ s.notes[f] = r.notes[f]

\* A step of a migration on one field.
FieldPass(r, s, f) == Alike(r, s) /\ \A g \in Field : g # f => SameField(r, s, g)

NewNote(r, f, reason, detail) == [reason |-> reason, detail |-> detail, earlier |-> r.changed[f], later |-> FALSE]

\* s is r with a note of this reason on f: the one there was, or a new one.
NoteDone(r, s, f, reason, detail) ==
    /\ FieldPass(r, s, f) /\ s[f] = r[f]
    /\ Noted(r, f, {reason}) # {} => s = r
    /\ Noted(r, f, {reason}) = {} => s.notes[f] = r.notes[f] \cup {NewNote(r, f, reason, detail)}
    /\ Noted(s, f, {reason}) # {}

LEMMA NoteFacts ==
    ASSUME NEW r \in TaskRow, NEW f \in Field, NEW reason \in LegacyReason, NEW detail \in Staff \cup {Nobody},
           NEW s, s = Note(r, f, reason, detail)
    PROVE  NoteDone(r, s, f, reason, detail)
<1>1. CASE Noted(r, f, {reason}) # {}
  BY <1>1 DEF Note, Alike, SameField, NoteDone, FieldPass
<1>2. CASE Noted(r, f, {reason}) = {}
  <2>1. PICK n : n = NewNote(r, f, reason, detail)
    OBVIOUS
  <2>2. n \in NoteRow /\ n.reason = reason
    BY <2>1 DEF NewNote, NoteRow, TaskRow
  <2>3. s = [r EXCEPT !.notes[f] = @ \cup {n}]
    BY <1>2, <2>1 DEF Note, NewNote
  <2>4. s \in TaskRow /\ s.notes = [r.notes EXCEPT ![f] = @ \cup {n}]
    BY <2>2, <2>3 DEF TaskRow
  <2>5. s.lines = r.lines /\ s.born = r.born /\ s.comment = r.comment /\ s.changed = r.changed
        /\ s.assignee = r.assignee /\ s.creator = r.creator
    BY <2>3 DEF TaskRow
  <2>6. s.notes[f] = r.notes[f] \cup {n} /\ \A g \in Field : g # f => s.notes[g] = r.notes[g]
    BY <2>4 DEF TaskRow
  <2>7. \A g \in Field : s[g] = r[g]
    BY <2>5 DEF Field
  <2>8. n \in Noted(s, f, {reason})
    BY <2>2, <2>6 DEF Noted
  <2> QED BY <1>2, <2>1, <2>4, <2>5, <2>6, <2>7, <2>8 DEF Alike, SameField, NoteDone, FieldPass
<1> QED BY <1>1, <1>2

\* s is r without the notes of these reasons on f.
UnnoteDone(r, s, f, reasons) ==
    FieldPass(r, s, f) /\ s[f] = r[f] /\ s.notes[f] = {n \in r.notes[f] : n.reason \notin reasons}

LEMMA UnnoteFacts ==
    ASSUME NEW r \in TaskRow, NEW f \in Field, NEW reasons, NEW s, s = Unnote(r, f, reasons)
    PROVE  UnnoteDone(r, s, f, reasons)
<1>1. s = [r EXCEPT !.notes[f] = @ \ Noted(r, f, reasons)]
  BY DEF Unnote
<1>2. s \in TaskRow /\ s.notes = [r.notes EXCEPT ![f] = @ \ Noted(r, f, reasons)]
  BY <1>1 DEF TaskRow
<1>3. s.lines = r.lines /\ s.born = r.born /\ s.comment = r.comment /\ s.changed = r.changed
      /\ s.assignee = r.assignee /\ s.creator = r.creator
  BY <1>1 DEF TaskRow
<1>4. s.notes[f] = r.notes[f] \ Noted(r, f, reasons) /\ \A g \in Field : g # f => s.notes[g] = r.notes[g]
  BY <1>2 DEF TaskRow
<1>5. \A g \in Field : s[g] = r[g]
  BY <1>3 DEF Field
<1> QED BY <1>2, <1>3, <1>4, <1>5 DEF Alike, SameField, Noted, UnnoteDone, FieldPass

\* s is r with the field set.
SetDone(r, s, f, v) == FieldPass(r, s, f) /\ s[f] = v /\ s.notes = r.notes

LEMMA SetFacts ==
    ASSUME NEW r \in TaskRow, NEW f \in Field, NEW v \in Staff \cup {Nobody}, NEW s, s = [r EXCEPT ![f] = v]
    PROVE  SetDone(r, s, f, v)
<1>1. CASE f = "assignee"
  BY <1>1 DEF TaskRow, Alike, SameField, Field, SetDone, FieldPass
<1>2. CASE f = "creator"
  BY <1>2 DEF TaskRow, Alike, SameField, Field, SetDone, FieldPass
<1> QED BY <1>1, <1>2 DEF Field

LEMMA FieldTypes ==
    ASSUME NEW r \in TaskRow, NEW f \in Field
    PROVE  r[f] \in Staff \cup {Nobody} /\ r.changed[f] \in BOOLEAN /\ r.notes[f] \subseteq NoteRow
BY DEF TaskRow, Field

-----------------------------------------------------------------------------
\* s is r but for notes UNKNOWN, which nothing else reads.
OtherNotes(r, f) == {n \in r.notes[f] : n.reason # "UNKNOWN"}

SameButUnknown(r, s) ==
    /\ Alike(r, s)
    /\ \A f \in Field : /\ s[f] = r[f] /\ OtherNotes(s, f) = OtherNotes(r, f)
                         /\ \A n \in s.notes[f] : n \in r.notes[f] \/ (n.earlier = r.changed[f] /\ n.later = FALSE)

LEMMA ItselfButUnknown == ASSUME NEW r \in TaskRow PROVE SameButUnknown(r, r)
BY DEF SameButUnknown, Alike

LEMMA UnknownTwice ==
    ASSUME NEW r \in TaskRow, NEW s, SameButUnknown(r, s), NEW t, SameButUnknown(s, t)
    PROVE  SameButUnknown(r, t)
<1>1. Alike(r, t) /\ s.changed = r.changed
  BY DEF SameButUnknown, Alike
<1>2. ASSUME NEW f \in Field
      PROVE  /\ t[f] = r[f] /\ OtherNotes(t, f) = OtherNotes(r, f)
             /\ \A n \in t.notes[f] : n \in r.notes[f] \/ (n.earlier = r.changed[f] /\ n.later = FALSE)
  BY <1>1 DEF SameButUnknown
<1> QED BY <1>1, <1>2 DEF SameButUnknown

LEMMA UnknownNote ==
    ASSUME NEW r \in TaskRow, NEW f \in Field, NEW s, s = Note(r, f, "UNKNOWN", Nobody)
    PROVE  /\ SameButUnknown(r, s)
           /\ Noted(s, f, {"UNKNOWN"}) # {}
           /\ Noted(r, f, {"UNKNOWN"}) # {} => s = r
           /\ \A g \in Field : g # f => SameField(r, s, g)
<1>1. "UNKNOWN" \in LegacyReason /\ Nobody \in Staff \cup {Nobody}
  BY DEF LegacyReason
<1>2. NoteDone(r, s, f, "UNKNOWN", Nobody)
  BY <1>1, NoteFacts
<1>3. PICK m : m = NewNote(r, f, "UNKNOWN", Nobody)
  OBVIOUS
<1>4. m.reason = "UNKNOWN" /\ m.earlier = r.changed[f] /\ m.later = FALSE
  BY <1>3 DEF NewNote
<1>5. r.notes[f] \subseteq s.notes[f] /\ s.notes[f] \subseteq r.notes[f] \cup {m}
  BY <1>2, <1>3 DEF NoteDone, FieldPass
<1>6. OtherNotes(s, f) = OtherNotes(r, f)
  BY <1>4, <1>5 DEF OtherNotes
<1>7. \A n \in s.notes[f] : n \in r.notes[f] \/ (n.earlier = r.changed[f] /\ n.later = FALSE)
  BY <1>4, <1>5
<1>8. \A g \in Field : g # f => s[g] = r[g] /\ s.notes[g] = r.notes[g]
  BY <1>2 DEF SameField, NoteDone, FieldPass
<1>9. SameButUnknown(r, s)
  BY <1>2, <1>6, <1>7, <1>8 DEF SameButUnknown, OtherNotes, NoteDone, FieldPass
<1> QED BY <1>2, <1>9 DEF NoteDone, FieldPass

LEMMA NoteUnknownFacts ==
    ASSUME NEW r \in TaskRow, NEW f \in Field, NEW s, s = NoteUnknown(r, f)
    PROVE  /\ SameButUnknown(r, s)
           /\ r[f] = Nobody => Noted(s, f, {"UNKNOWN"}) # {}
           /\ r[f] # Nobody \/ Noted(r, f, {"UNKNOWN"}) # {} => s = r
           /\ \A g \in Field : g # f => SameField(r, s, g)
<1>1. CASE r[f] # Nobody
  BY <1>1, ItselfButUnknown DEF NoteUnknown, SameField
<1>2. CASE r[f] = Nobody
  <2>1. NoteUnknown(r, f) = Note(r, f, "UNKNOWN", Nobody)
    BY <1>2 DEF NoteUnknown
  <2> QED BY <1>2, <2>1, UnknownNote
<1> QED BY <1>1, <1>2

LEMMA NotedOthers ==
    ASSUME NEW r, NEW s, NEW f, OtherNotes(s, f) = OtherNotes(r, f), NEW reasons, "UNKNOWN" \notin reasons
    PROVE  Noted(s, f, reasons) = Noted(r, f, reasons)
<1>1. Noted(s, f, reasons) = {n \in OtherNotes(s, f) : n.reason \in reasons}
  BY DEF Noted, OtherNotes
<1>2. Noted(r, f, reasons) = {n \in OtherNotes(r, f) : n.reason \in reasons}
  BY DEF Noted, OtherNotes
<1> QED BY <1>1, <1>2

\* What the notes UNKNOWN do not change.
LEMMA UnknownKeeps ==
    ASSUME NEW r \in TaskRow, NEW s, SameButUnknown(r, s)
    PROVE  /\ Traced(r) => Traced(s)
           /\ \A f \in Field : GuessNoted(r, f) => GuessNoted(s, f)
           /\ Contradicted(s) = Contradicted(r)
           /\ \A reasons : "UNKNOWN" \notin reasons /\ Unnoted(r, reasons) => Unnoted(s, reasons)
<1>0. "assignee" \in Field /\ "creator" \in Field
  BY DEF Field
<1>1. s \in TaskRow /\ s.lines = r.lines /\ s.born = r.born /\ s.changed = r.changed
      /\ s.assignee = r.assignee /\ s.creator = r.creator /\ (\A f \in Field : s[f] = r[f])
  BY <1>0 DEF SameButUnknown, Alike
<1>2. \A f \in Field : \A reasons : "UNKNOWN" \notin reasons => Noted(s, f, reasons) = Noted(r, f, reasons)
  BY NotedOthers DEF SameButUnknown
<1>3. \A f \in Field : /\ Noted(s, f, {"REVERTED"}) = Noted(r, f, {"REVERTED"})
                        /\ Noted(s, f, {"UNDONE"}) = Noted(r, f, {"UNDONE"})
                        /\ Noted(s, f, {"ORIGIN_UNKNOWN"}) = Noted(r, f, {"ORIGIN_UNKNOWN"})
                        /\ Noted(s, f, {"KEPT", "ORIGIN_UNKNOWN"}) = Noted(r, f, {"KEPT", "ORIGIN_UNKNOWN"})
  BY <1>2
<1>4. Contradicted(s) = Contradicted(r)
  BY <1>0, <1>3 DEF Contradicted
<1>5. ASSUME Traced(r) PROVE Traced(s)
  <2>1. Changes(s)
    BY <1>1, <1>5 DEF Traced, Changes
  <2>2. ASSUME NEW f \in Field PROVE FieldTraced(s, f)
    <3>1. FieldTraced(r, f)
      BY <1>5 DEF Traced
    <3>2. \A n \in s.notes[f] : n \in r.notes[f] \/ (n.earlier = r.changed[f] /\ n.later = FALSE)
      BY DEF SameButUnknown
    <3>3. \A n \in s.notes[f] : n.earlier \/ n.later => s.changed[f]
      BY <1>1, <3>1, <3>2 DEF FieldTraced
    <3>4. Withdrawn(s, f) /\ BornDecided(s, f)
      BY <1>1, <1>3, <3>1 DEF FieldTraced, Withdrawn, BornDecided
    <3>5. CASE f = "creator"
      <4>1. CreatorKnown(s)
        BY <1>0, <1>1, <1>3, <3>1, <3>5 DEF FieldTraced, CreatorKnown, KeptBy
      <4> QED BY <3>3, <3>4, <3>5, <4>1 DEF FieldTraced
    <3>6. CASE f # "creator"
      <4>1. AssigneeKnown(s)
        BY <1>0, <1>1, <1>3, <1>4, <3>1, <3>6 DEF FieldTraced, AssigneeKnown, KeptBy
      <4> QED BY <3>3, <3>4, <3>6, <4>1 DEF FieldTraced
    <3> QED BY <3>5, <3>6
  <2> QED BY <2>1, <2>2 DEF Traced
<1>6. \A f \in Field : GuessNoted(r, f) => GuessNoted(s, f)
  BY <1>1, <1>3 DEF GuessNoted
<1>7. \A reasons : "UNKNOWN" \notin reasons /\ Unnoted(r, reasons) => Unnoted(s, reasons)
  BY <1>2 DEF Unnoted
<1> QED BY <1>4, <1>5, <1>6, <1>7

-----------------------------------------------------------------------------
\* What is said of the other field stands.
LEMMA OtherField ==
    ASSUME NEW r \in TaskRow, NEW f \in Field, NEW s, FieldPass(r, s, f), NEW g \in Field, g # f
    PROVE  /\ FieldTraced(r, g) => FieldTraced(s, g)
           /\ GuessNoted(r, g) => GuessNoted(s, g)
           /\ \A reasons : Noted(s, g, reasons) = Noted(r, g, reasons)
<1>1. s[g] = r[g] /\ s.notes[g] = r.notes[g] /\ s.changed = r.changed
  BY DEF FieldPass, SameField, Alike
<1>2. \A reasons : Noted(s, g, reasons) = Noted(r, g, reasons)
  BY <1>1 DEF Noted
<1>3. GuessNoted(r, g) => GuessNoted(s, g)
  BY <1>1, <1>2 DEF GuessNoted
<1>4. ASSUME FieldTraced(r, g) PROVE FieldTraced(s, g)
  <2>1. \A n \in s.notes[g] : n.earlier \/ n.later => s.changed[g]
    BY <1>1, <1>4 DEF FieldTraced
  <2>2. Withdrawn(s, g) /\ BornDecided(s, g)
    BY <1>1, <1>2, <1>4 DEF FieldTraced, Withdrawn, BornDecided
  <2>3. CASE g = "creator"
    <3>1. CreatorKnown(s)
      BY <1>1, <1>2, <1>4, <2>3 DEF FieldTraced, CreatorKnown, KeptBy
    <3> QED BY <2>1, <2>2, <2>3, <3>1 DEF FieldTraced
  <2>4. CASE g = "assignee"
    <3>1. Contradicted(s) = Contradicted(r)
      BY <1>2, <2>4 DEF Contradicted
    <3>2. AssigneeKnown(s)
      BY <1>1, <1>2, <1>4, <2>4, <3>1 DEF FieldTraced, AssigneeKnown, KeptBy
    <3> QED BY <2>1, <2>2, <2>4, <3>2 DEF FieldTraced
  <2> QED BY <2>3, <2>4 DEF Field
<1> QED BY <1>2, <1>3, <1>4

LEMMA PassTraced ==
    ASSUME NEW r \in TaskRow, NEW f \in Field, NEW s, FieldPass(r, s, f), Traced(r), FieldTraced(s, f)
    PROVE  Traced(s)
<1>1. Changes(s)
  BY DEF Traced, Changes, FieldPass, Alike
<1>2. \A g \in Field : FieldTraced(s, g)
  BY OtherField DEF Traced
<1> QED BY <1>1, <1>2 DEF Traced

\* The three cases of a withdrawal.
LEMMA WithdrawCases ==
    ASSUME NEW r \in TaskRow, NEW f \in Field, NEW s, s = Withdraw(r, f)
    PROVE  /\ FieldPass(r, s, f)
           /\ \/ ~Inferred(r, f) /\ s = r
              \/ Inferred(r, f) /\ (r.lines \/ r.comment) /\ NoteDone(r, s, f, "KEPT", r[f])
              \/ /\ Inferred(r, f) /\ ~r.lines /\ ~r.comment /\ s[f] = Nobody
                 /\ \E u \in TaskRow : NoteDone(r, u, f, "REVERTED", r[f]) /\ s.notes = u.notes
<1>0. r[f] \in Staff \cup {Nobody} /\ "KEPT" \in LegacyReason /\ "REVERTED" \in LegacyReason
  BY FieldTypes DEF LegacyReason
<1>1. CASE ~Inferred(r, f)
  BY <1>1 DEF Withdraw, FieldPass, Alike, SameField
<1>2. CASE Inferred(r, f) /\ (r.lines \/ r.comment)
  <2>1. Withdraw(r, f) = Note(r, f, "KEPT", r[f])
    BY <1>2 DEF Withdraw
  <2>2. NoteDone(r, s, f, "KEPT", r[f])
    BY <1>0, <2>1, NoteFacts
  <2> QED BY <1>2, <2>2 DEF NoteDone, FieldPass
<1>3. CASE Inferred(r, f) /\ ~r.lines /\ ~r.comment
  <2>1. PICK u : u = Note(r, f, "REVERTED", r[f])
    OBVIOUS
  <2>2. NoteDone(r, u, f, "REVERTED", r[f])
    BY <1>0, <2>1, NoteFacts
  <2>3. s = [u EXCEPT ![f] = Nobody]
    BY <1>3, <2>1 DEF Withdraw
  <2>4. u \in TaskRow /\ Alike(r, u) /\ \A g \in Field : g # f => SameField(r, u, g)
    BY <2>2 DEF NoteDone, FieldPass, Alike
  <2>5. SetDone(u, s, f, Nobody)
    BY <2>3, <2>4, SetFacts
  <2>6. FieldPass(r, s, f)
    BY <2>4, <2>5 DEF FieldPass, Alike, SameField, SetDone
  <2>7. s[f] = Nobody /\ s.notes = u.notes
    BY <2>5 DEF SetDone
  <2> QED BY <1>3, <2>2, <2>4, <2>6, <2>7
<1> QED BY <1>1, <1>2, <1>3

\* Before the reconciliation a field holds what was decided, if anything was.
LEMMA HeldBefore ==
    ASSUME NEW r \in TaskRow, Traced(r), NEW f \in Field, Noted(r, f, LegacyReason \ {"UNKNOWN"}) = {}
    PROVE  meant[f] \in {Unknown, r[f]}
<1>1. /\ Noted(r, f, {"REVERTED"}) = {} /\ Noted(r, f, {"UNDONE"}) = {}
      /\ Noted(r, f, {"ORIGIN_UNKNOWN"}) = {}
  BY DEF Noted, LegacyReason
<1>2. CASE f = "creator"
  BY <1>1, <1>2 DEF Traced, FieldTraced, CreatorKnown, KeptBy, Field
<1>3. CASE f = "assignee"
  BY <1>1, <1>3 DEF Traced, FieldTraced, AssigneeKnown, Contradicted, KeptBy, Field
<1> QED BY <1>2, <1>3 DEF Field

\* What a withdrawal leaves of a field the reconciliation had not seen.
LEMMA WithdrawTraced ==
    ASSUME LegacyTypes, NEW r \in TaskRow, Traced(r), NEW f \in Field, Noted(r, f, LegacyReason \ {"UNKNOWN"}) = {},
           NEW s, s = Withdraw(r, f)
    PROVE  /\ FieldPass(r, s, f) /\ Traced(s) /\ GuessNoted(s, f)
           /\ Noted(s, f, {"ORIGIN_UNKNOWN"}) = {} /\ Noted(s, f, {"UNDONE"}) = {}
<1>0. /\ FieldPass(r, s, f)
      /\ \/ ~Inferred(r, f) /\ s = r
         \/ Inferred(r, f) /\ (r.lines \/ r.comment) /\ NoteDone(r, s, f, "KEPT", r[f])
         \/ /\ Inferred(r, f) /\ ~r.lines /\ ~r.comment /\ s[f] = Nobody
            /\ \E u \in TaskRow : NoteDone(r, u, f, "REVERTED", r[f]) /\ s.notes = u.notes
  BY WithdrawCases
<1>1. meant[f] \in {Unknown, r[f]}
  BY HeldBefore
<1>2. \A n \in r.notes[f] : n.reason = "UNKNOWN"
  BY FieldTypes DEF NoteRow, Noted
<1>3. r[f] \in Staff \cup {Nobody} /\ r.changed[f] \in BOOLEAN /\ meant[f] \in Staff \cup {Nobody, Unknown}
  BY FieldTypes DEF LegacyTypes
<1>4. FieldTraced(r, f) /\ Changes(r)
  BY DEF Traced
<1>5. s.changed = r.changed /\ s.lines = r.lines /\ s.born = r.born /\ s \in TaskRow
  BY <1>0 DEF FieldPass, Alike
<1>6. Inferred(r, f) => /\ r[f] \in Staff /\ (f = "assignee" => ~r.changed[f])
                       /\ (f = "creator" => author \notin Staff /\ ~r.changed[f])
  <2>1. Inferred(r, f) => r[f] \in Staff
    BY <1>3 DEF Inferred
  <2>2. f = "assignee" /\ Inferred(r, f) => ~r.changed[f]
    BY DEF Inferred
  <2>3. f = "creator" => ~r.changed[f]
    BY <1>4 DEF Changes
  <2>4. f = "creator" /\ Inferred(r, f) => author \notin Staff
    <3>1. SUFFICES ASSUME f = "creator", author \in Staff PROVE ~Inferred(r, f)
      OBVIOUS
    <3>2. r[f] = author
      BY <1>4, <3>1 DEF FieldTraced, CreatorKnown
    <3>3. AuditCreator = author
      BY <3>1 DEF AuditCreator
    <3> QED BY <3>1, <3>2, <3>3 DEF Inferred
  <2> QED BY <2>1, <2>2, <2>3, <2>4
<1>7. CASE ~Inferred(r, f)
  <2>1. s = r
    BY <1>0, <1>7
  <2>2. GuessNoted(r, f)
    <3>1. SUFFICES ASSUME meant[f] = Unknown, r[f] # Nobody PROVE FALSE
      BY DEF GuessNoted
    <3>2. CASE f = "assignee"
      <4>1. r.changed[f]
        BY <1>7, <3>1, <3>2 DEF Inferred
      <4> QED BY <1>4, <3>1, <3>2, <4>1 DEF Changes
    <3>3. CASE f = "creator"
      <4>1. r[f] = AuditCreator
        BY <1>7, <3>1, <3>3 DEF Inferred
      <4>2. author \in Staff
        BY <3>1, <4>1 DEF AuditCreator
      <4>3. meant[f] = author
        BY <1>4, <3>3, <4>2 DEF FieldTraced, CreatorKnown
      <4> QED BY <3>1, <4>2, <4>3, LegacyAssumption
    <3> QED BY <3>2, <3>3 DEF Field
  <2>3. Noted(r, f, {"ORIGIN_UNKNOWN"}) = {} /\ Noted(r, f, {"UNDONE"}) = {}
    BY <1>2 DEF Noted
  <2> QED BY <1>0, <2>1, <2>2, <2>3
<1>8. ASSUME NEW u \in TaskRow, NEW reason, reason \in {"KEPT", "REVERTED"}, NoteDone(r, u, f, reason, r[f])
      PROVE  \E m : /\ m.reason = reason /\ m.detail = r[f] /\ m.earlier = r.changed[f] /\ m.later = FALSE
                    /\ m \in u.notes[f] /\ \A n \in u.notes[f] : n.reason = "UNKNOWN" \/ n = m
  <2>1. Noted(r, f, {reason}) = {}
    BY <1>2, <1>8 DEF Noted
  <2>2. PICK m : m = NewNote(r, f, reason, r[f])
    OBVIOUS
  <2>3. m.reason = reason /\ m.detail = r[f] /\ m.earlier = r.changed[f] /\ m.later = FALSE
    BY <2>2 DEF NewNote
  <2>4. u.notes[f] = r.notes[f] \cup {m}
    BY <1>8, <2>1, <2>2 DEF NoteDone
  <2> QED BY <1>2, <2>3, <2>4
<1>9. CASE Inferred(r, f) /\ (r.lines \/ r.comment)
  <2>1. NoteDone(r, s, f, "KEPT", r[f])
    BY <1>0, <1>9
  <2>2. PICK m : /\ m.reason = "KEPT" /\ m.detail = r[f] /\ m.earlier = r.changed[f] /\ m.later = FALSE
                 /\ m \in s.notes[f] /\ \A n \in s.notes[f] : n.reason = "UNKNOWN" \/ n = m
    BY <1>5, <1>8, <2>1
  <2>3. s[f] = r[f]
    BY <2>1 DEF NoteDone
  <2>4. /\ Noted(s, f, {"REVERTED"}) = {} /\ Noted(s, f, {"ORIGIN_UNKNOWN"}) = {} /\ Noted(s, f, {"UNDONE"}) = {}
    BY <2>2 DEF Noted
  <2>5. m \in Noted(s, f, {"KEPT", "ORIGIN_UNKNOWN"})
    BY <2>2 DEF Noted
  <2>6. GuessNoted(s, f)
    BY <2>2, <2>3, <2>5 DEF GuessNoted
  <2>7. \A n \in s.notes[f] : n.earlier \/ n.later => s.changed[f]
    <3>1. \A n \in s.notes[f] : n = m \/ n \in r.notes[f]
      <4>1. Noted(r, f, {"KEPT"}) = {}
        BY <1>2 DEF Noted
      <4>2. PICK k : k = NewNote(r, f, "KEPT", r[f])
        OBVIOUS
      <4>3. s.notes[f] = r.notes[f] \cup {k}
        BY <2>1, <4>1, <4>2 DEF NoteDone
      <4>4. m = k
        BY <1>2, <2>2, <4>3
      <4> QED BY <4>3, <4>4
    <3> QED BY <1>4, <1>5, <2>2, <3>1 DEF FieldTraced
  <2>8. FieldTraced(s, f)
    <3>1. Withdrawn(s, f) /\ BornDecided(s, f)
      BY <1>4, <2>3, <2>4 DEF FieldTraced, Withdrawn, BornDecided
    <3>2. CASE f = "creator"
      <4>1. CreatorKnown(s)
        BY <1>1, <1>4, <2>3, <2>4, <3>2 DEF FieldTraced, CreatorKnown
      <4> QED BY <2>7, <3>1, <3>2, <4>1 DEF FieldTraced
    <3>3. CASE f = "assignee"
      <4>1. AssigneeKnown(s)
        BY <1>1, <2>3, <2>4, <3>3 DEF AssigneeKnown, Contradicted
      <4> QED BY <2>7, <3>1, <3>3, <4>1 DEF FieldTraced
    <3> QED BY <3>2, <3>3 DEF Field
  <2> QED BY <1>0, <2>4, <2>6, <2>8, PassTraced
<1>10. CASE Inferred(r, f) /\ ~r.lines /\ ~r.comment
  <2>1. s[f] = Nobody
    BY <1>0, <1>10
  <2>2. PICK u \in TaskRow : NoteDone(r, u, f, "REVERTED", r[f]) /\ s.notes = u.notes
    BY <1>0, <1>10
  <2>3. PICK m : /\ m.reason = "REVERTED" /\ m.detail = r[f] /\ m.earlier = r.changed[f] /\ m.later = FALSE
                 /\ m \in s.notes[f] /\ \A n \in s.notes[f] : n.reason = "UNKNOWN" \/ n = m
    BY <1>8, <2>2
  <2>4. Noted(s, f, {"REVERTED"}) = {m} /\ Noted(s, f, {"ORIGIN_UNKNOWN"}) = {} /\ Noted(s, f, {"UNDONE"}) = {}
    BY <2>3 DEF Noted
  <2>5. GuessNoted(s, f)
    BY <2>1 DEF GuessNoted
  <2>6. r[f] \in Staff /\ ~r.changed[f] /\ (f = "creator" => author \notin Staff)
    BY <1>6, <1>10 DEF Field
  <2>7. \A n \in s.notes[f] : n.earlier \/ n.later => s.changed[f]
    <3>1. \A n \in s.notes[f] : n = m \/ n \in r.notes[f]
      <4>1. Noted(r, f, {"REVERTED"}) = {}
        BY <1>2 DEF Noted
      <4>2. PICK k : k = NewNote(r, f, "REVERTED", r[f])
        OBVIOUS
      <4>3. s.notes[f] = r.notes[f] \cup {k}
        BY <2>2, <4>1, <4>2 DEF NoteDone
      <4>4. m = k
        BY <1>2, <2>3, <4>3
      <4> QED BY <4>3, <4>4
    <3> QED BY <1>4, <1>5, <2>3, <3>1 DEF FieldTraced
  <2>8. Withdrawn(s, f)
    <3>1. ~old => meant[f] # Unknown
      BY <1>4, <2>6, LegacyAssumption DEF FieldTraced, BornDecided
    <3> QED BY <1>1, <2>1, <2>3, <2>4, <2>6, <3>1 DEF Withdrawn
  <2>9. BornDecided(s, f)
    BY <2>1 DEF BornDecided
  <2>10. meant[f] # Unknown => KeptBy(s, f, "REVERTED")
    BY <1>1, <2>3, <2>4 DEF KeptBy
  <2>11. FieldTraced(s, f)
    <3>2. CASE f = "creator"
      <4>1. meant["creator"] # Nobody
        BY <1>4, <3>2 DEF FieldTraced, CreatorKnown
      <4>2. CreatorKnown(s)
        BY <2>1, <2>6, <2>10, <3>2, <4>1 DEF CreatorKnown
      <4> QED BY <2>7, <2>8, <2>9, <3>2, <4>2 DEF FieldTraced
    <3>3. CASE f = "assignee"
      <4>1. AssigneeKnown(s)
        BY <1>5, <2>1, <2>4, <2>6, <2>10, <3>3 DEF AssigneeKnown, Contradicted
      <4> QED BY <2>7, <2>8, <2>9, <3>3, <4>1 DEF FieldTraced
    <3> QED BY <3>2, <3>3 DEF Field
  <2> QED BY <1>0, <2>4, <2>5, <2>11, PassTraced
<1> QED BY <1>7, <1>9, <1>10

LEMMA UnnoteUnknown ==
    ASSUME NEW r \in TaskRow, NEW f \in Field, NEW s, s = Unnote(r, f, {"UNKNOWN"})
    PROVE  SameButUnknown(r, s)
<1>1. UnnoteDone(r, s, f, {"UNKNOWN"})
  BY UnnoteFacts
<1>2. Alike(r, s) /\ s[f] = r[f] /\ s.notes[f] = {n \in r.notes[f] : n.reason \notin {"UNKNOWN"}}
  BY <1>1 DEF UnnoteDone, FieldPass
<1>3. \A g \in Field : g # f => s[g] = r[g] /\ s.notes[g] = r.notes[g]
  BY <1>1 DEF UnnoteDone, FieldPass, SameField
<1>4. OtherNotes(s, f) = OtherNotes(r, f) /\ s.notes[f] \subseteq r.notes[f]
  BY <1>2 DEF OtherNotes
<1> QED BY <1>2, <1>3, <1>4 DEF SameButUnknown, OtherNotes

\* The creator the audit names is already there.
LEMMA CreatorSettled ==
    ASSUME NEW r \in TaskRow, Traced(r)
    PROVE  [r EXCEPT !.creator = IF @ = Nobody THEN AuditCreator ELSE @] = r
<1>1. author \in Staff => r.creator = author
  BY DEF Traced, FieldTraced, CreatorKnown, Field
<1>2. (IF r.creator = Nobody THEN AuditCreator ELSE r.creator) = r.creator
  BY <1>1 DEF AuditCreator
<1>3. PICK v : v = IF r.creator = Nobody THEN AuditCreator ELSE r.creator
  OBVIOUS
<1>4. [r EXCEPT !.creator = v] = r
  BY <1>2, <1>3 DEF TaskRow
<1> QED BY <1>3, <1>4

\* The hardening only notes.
LEMMA HardeningNotes ==
    ASSUME NEW r \in TaskRow, Traced(r), NEW s, s = Hardening(r)
    PROVE  SameButUnknown(r, s)
<1>1. CASE r.lines
  BY <1>1, ItselfButUnknown DEF Hardening
<1>2. CASE ~r.lines
  <2>1. Hardening(r) = NoteUnknown(NoteUnknown(r, "assignee"), "creator")
    BY <1>2, CreatorSettled DEF Hardening
  <2>2. PICK t : t = NoteUnknown(r, "assignee")
    OBVIOUS
  <2>3. PICK u : u = NoteUnknown(t, "creator")
    OBVIOUS
  <2>4. "assignee" \in Field /\ "creator" \in Field
    BY DEF Field
  <2>5. SameButUnknown(r, t)
    BY <2>2, <2>4, NoteUnknownFacts
  <2>6. t \in TaskRow
    BY <2>5 DEF SameButUnknown, Alike
  <2>7. SameButUnknown(t, u)
    BY <2>3, <2>4, <2>6, NoteUnknownFacts
  <2>8. SameButUnknown(r, u)
    BY <2>5, <2>7, UnknownTwice
  <2> QED BY <2>1, <2>2, <2>3, <2>8
<1> QED BY <1>1, <1>2

\* The notes that end the reconciliation of a task of before V1.0.
LastNotes(t) == NoteUnknown(IF t.changed["assignee"] THEN t ELSE NoteUnknown(t, "assignee"), "creator")

LEMMA LastNotesFacts ==
    ASSUME NEW r \in TaskRow, NEW s, s = LastNotes(r)
    PROVE  /\ SameButUnknown(r, s)
           /\ ~r.changed["assignee"] /\ r.assignee = Nobody => Noted(s, "assignee", {"UNKNOWN"}) # {}
           /\ r.creator = Nobody => Noted(s, "creator", {"UNKNOWN"}) # {}
           /\ /\ r.changed["assignee"] \/ r.assignee # Nobody \/ Noted(r, "assignee", {"UNKNOWN"}) # {}
              /\ r.creator # Nobody \/ Noted(r, "creator", {"UNKNOWN"}) # {}
              => s = r
<1>1. PICK t : t = IF r.changed["assignee"] THEN r ELSE NoteUnknown(r, "assignee")
  OBVIOUS
<1>2. PICK u : u = NoteUnknown(t, "creator")
  OBVIOUS
<1>3. s = u
  BY <1>1, <1>2 DEF LastNotes
<1>4. "assignee" \in Field /\ "creator" \in Field
  BY DEF Field
<1>5. /\ SameButUnknown(r, t)
      /\ ~r.changed["assignee"] /\ r.assignee = Nobody => Noted(t, "assignee", {"UNKNOWN"}) # {}
      /\ r.changed["assignee"] \/ r.assignee # Nobody \/ Noted(r, "assignee", {"UNKNOWN"}) # {} => t = r
  <2>1. CASE r.changed["assignee"]
    BY <1>1, <2>1, ItselfButUnknown
  <2>2. CASE ~r.changed["assignee"]
    <3>1. t = NoteUnknown(r, "assignee")
      BY <1>1, <2>2
    <3>2. SameButUnknown(r, t)
      BY <1>4, <3>1, NoteUnknownFacts
    <3>3. r.assignee = Nobody => Noted(t, "assignee", {"UNKNOWN"}) # {}
      BY <1>4, <3>1, NoteUnknownFacts
    <3>4. r.assignee # Nobody \/ Noted(r, "assignee", {"UNKNOWN"}) # {} => t = r
      BY <1>4, <3>1, NoteUnknownFacts
    <3> QED BY <2>2, <3>2, <3>3, <3>4
  <2> QED BY <2>1, <2>2
<1>6. t \in TaskRow /\ t.creator = r.creator
  BY <1>4, <1>5 DEF SameButUnknown, Alike
<1>7. SameButUnknown(t, u)
  BY <1>2, <1>4, <1>6, NoteUnknownFacts
<1>8. t.creator = Nobody => Noted(u, "creator", {"UNKNOWN"}) # {}
  BY <1>2, <1>4, <1>6, NoteUnknownFacts
<1>9. t.creator # Nobody \/ Noted(t, "creator", {"UNKNOWN"}) # {} => u = t
  BY <1>2, <1>4, <1>6, NoteUnknownFacts
<1>10. SameField(t, u, "assignee")
  BY <1>2, <1>4, <1>6, NoteUnknownFacts
<1>11. Noted(u, "assignee", {"UNKNOWN"}) = Noted(t, "assignee", {"UNKNOWN"})
  BY <1>10 DEF SameField, Noted
<1>12. SameButUnknown(r, u)
  BY <1>5, <1>7, UnknownTwice
<1> QED BY <1>3, <1>5, <1>6, <1>8, <1>9, <1>11, <1>12

\* What the reconciliation leaves: nobody's guess without a note, on a task of before V1.0.
LEMMA ReconcileTraced ==
    ASSUME LegacyTypes, NEW r \in TaskRow, Traced(r), NEW s, s = Reconcile(r),
           Unnoted(r, {"KEPT", "REVERTED"}), Unnoted(r, {"ORIGIN_UNKNOWN"}), Unnoted(r, {"UNDONE"})
    PROVE  /\ s \in TaskRow /\ Traced(s) /\ s.lines = r.lines
           /\ Unnoted(s, {"ORIGIN_UNKNOWN"}) /\ Unnoted(s, {"UNDONE"})
           /\ \A f \in Field : GuessNoted(s, f) \/ (~Legacy(r) /\ s.lines)
<1>0. "assignee" \in Field /\ "creator" \in Field /\ \A f \in Field : f = "assignee" \/ f = "creator"
  BY DEF Field
<1>1. CASE Legacy(r)
  <2>1. PICK a : a = Withdraw(r, "assignee")
    OBVIOUS
  <2>2. PICK b : b = Withdraw(a, "creator")
    OBVIOUS
  <2>3. \A f \in Field : Noted(r, f, LegacyReason \ {"UNKNOWN"}) = {}
    BY DEF Unnoted, Noted, LegacyReason
  <2>4. /\ FieldPass(r, a, "assignee") /\ Traced(a) /\ GuessNoted(a, "assignee")
        /\ Noted(a, "assignee", {"ORIGIN_UNKNOWN"}) = {} /\ Noted(a, "assignee", {"UNDONE"}) = {}
    BY <1>0, <2>1, <2>3, WithdrawTraced
  <2>5. a \in TaskRow /\ a.lines = r.lines
    BY <2>4 DEF FieldPass, Alike
  <2>6. Noted(a, "creator", LegacyReason \ {"UNKNOWN"}) = {}
    <3>1. \A reasons : Noted(a, "creator", reasons) = Noted(r, "creator", reasons)
      BY <1>0, <2>4, OtherField
    <3> QED BY <1>0, <2>3, <3>1
  <2>7. /\ FieldPass(a, b, "creator") /\ Traced(b) /\ GuessNoted(b, "creator")
        /\ Noted(b, "creator", {"ORIGIN_UNKNOWN"}) = {} /\ Noted(b, "creator", {"UNDONE"}) = {}
    BY <1>0, <2>2, <2>4, <2>5, <2>6, WithdrawTraced
  <2>8. b \in TaskRow /\ b.lines = r.lines
    BY <2>5, <2>7 DEF FieldPass, Alike
  <2>9. /\ GuessNoted(b, "assignee")
        /\ Noted(b, "assignee", {"ORIGIN_UNKNOWN"}) = {} /\ Noted(b, "assignee", {"UNDONE"}) = {}
    BY <1>0, <2>4, <2>5, <2>7, OtherField
  <2>10. Unnoted(b, {"ORIGIN_UNKNOWN"}) /\ Unnoted(b, {"UNDONE"}) /\ \A f \in Field : GuessNoted(b, f)
    BY <1>0, <2>7, <2>9 DEF Unnoted
  <2>11. Reconcile(r) = LastNotes([b EXCEPT !.creator = IF @ = Nobody THEN AuditCreator ELSE @])
    BY <1>1, <2>1, <2>2 DEF Reconcile, LastNotes
  <2>12. s = LastNotes(b)
    BY <2>7, <2>8, <2>11, CreatorSettled
  <2>13. SameButUnknown(b, s)
    BY <2>8, <2>12, LastNotesFacts
  <2>14. s \in TaskRow /\ s.lines = b.lines
    BY <2>13 DEF SameButUnknown, Alike
  <2>15. Traced(s) /\ \A f \in Field : GuessNoted(s, f)
    BY <2>7, <2>8, <2>10, <2>13, UnknownKeeps
  <2>16. Unnoted(s, {"ORIGIN_UNKNOWN"}) /\ Unnoted(s, {"UNDONE"})
    BY <2>8, <2>10, <2>13, UnknownKeeps
  <2> QED BY <2>8, <2>14, <2>15, <2>16
<1>2. CASE ~Legacy(r)
  <2>1. SameButUnknown(r, s)
    <3>1. CASE dated
      <4>1. PICK t : t = Unnote(r, "assignee", {"UNKNOWN"})
        OBVIOUS
      <4>2. PICK u : u = Unnote(t, "creator", {"UNKNOWN"})
        OBVIOUS
      <4>3. SameButUnknown(r, t)
        BY <1>0, <4>1, UnnoteUnknown
      <4>4. t \in TaskRow
        BY <4>3 DEF SameButUnknown, Alike
      <4>5. SameButUnknown(t, u)
        BY <1>0, <4>2, <4>4, UnnoteUnknown
      <4>6. SameButUnknown(r, u)
        BY <4>3, <4>5, UnknownTwice
      <4> QED BY <1>2, <3>1, <4>1, <4>2, <4>6 DEF Reconcile
    <3>2. CASE ~dated
      BY <1>2, <3>2, ItselfButUnknown DEF Reconcile
    <3> QED BY <3>1, <3>2
  <2>2. s \in TaskRow /\ s.lines = r.lines /\ \A f \in Field : s[f] = r[f]
    BY <2>1 DEF SameButUnknown, Alike
  <2>3. r.lines \/ \A f \in Field : GuessNoted(s, f)
    <3>1. CASE ~r.lines
      <4>1. dated /\ ~(old /\ ~r.born)
        BY <1>2, <3>1 DEF Legacy
      <4>2. ~r.born
        BY <3>1 DEF Traced, Changes, TaskRow
      <4>3. \A f \in Field : meant[f] = Unknown => s[f] = Nobody
        BY <2>2, <4>1, <4>2 DEF Traced, FieldTraced, BornDecided
      <4> QED BY <4>3 DEF GuessNoted
    <3> QED BY <3>1
  <2>4. Traced(s) /\ Unnoted(s, {"ORIGIN_UNKNOWN"}) /\ Unnoted(s, {"UNDONE"})
    BY <2>1, UnknownKeeps
  <2> QED BY <1>2, <2>2, <2>3, <2>4
<1> QED BY <1>1, <1>2

-----------------------------------------------------------------------------
LEMMA NewRowFacts ==
    ASSUME NEW assignee \in Staff \cup {Nobody}, NEW creator \in Staff \cup {Nobody}, NEW born \in BOOLEAN,
           NEW r, r = NewRow(assignee, creator, born)
    PROVE  /\ r \in TaskRow /\ r.assignee = assignee /\ r.creator = creator
           /\ r.lines = born /\ r.born = born /\ \A f \in Field : ~r.changed[f] /\ r.notes[f] = {}
BY DEF NewRow, TaskRow

\* A task with no note and no change is traced by its fields alone.
LEMMA BareTraced ==
    ASSUME LegacyTypes, NEW r \in TaskRow, \A f \in Field : ~r.changed[f] /\ r.notes[f] = {},
           r.born => r.lines, meant["assignee"] \in {Unknown, r.assignee}, meant["creator"] \in {Unknown, r.creator},
           meant["creator"] # Nobody, author \in Staff => meant["creator"] = author /\ r.creator = author,
           \A f \in Field : BornDecided(r, f)
    PROVE  Traced(r) /\ \A reasons : Unnoted(r, reasons)
<1>1. \A f \in Field : \A reasons : Noted(r, f, reasons) = {}
  BY DEF Noted
<1>2. Changes(r)
  BY DEF Changes, Field
<1>3. \A f \in Field : Withdrawn(r, f)
  BY <1>1 DEF Withdrawn
<1>4. CreatorKnown(r)
  BY <1>1 DEF CreatorKnown, Field
<1>5. AssigneeKnown(r)
  BY <1>1 DEF AssigneeKnown, Contradicted, Field
<1>6. \A f \in Field : FieldTraced(r, f)
  BY <1>3, <1>4, <1>5 DEF FieldTraced
<1> QED BY <1>1, <1>2, <1>6 DEF Traced, Unnoted

\* What the first migration writes.
LEMMA WorkRow ==
    ASSUME LegacyTypes
    PROVE  \E assignee, creator \in Staff \cup {Nobody} :
               /\ WorkManagement(NoTask) = NewRow(assignee, creator, FALSE)
               /\ author \in Staff => creator = author
<1>1. PICK a \in Staff \cup {Nobody} : a = AuditCreator
  BY DEF AuditCreator
<1>2. author \in Staff => a = author
  BY <1>1 DEF AuditCreator
<1>3. PICK s : s = IF a = Nobody THEN NoTask ELSE [NoTask EXCEPT !.assignee = a, !.creator = a]
  OBVIOUS
<1>4. s = NewRow(a, a, FALSE)
  <2>1. CASE a = Nobody
    BY <1>3, <2>1 DEF NoTask
  <2>2. CASE a # Nobody
    BY <1>3, <2>2 DEF NoTask, NewRow
  <2> QED BY <2>1, <2>2
<1>5. WorkManagement(NoTask) =
          IF Cardinality(Staff) = 1 /\ s.assignee = Nobody
          THEN [s EXCEPT !.assignee = CHOOSE u \in Staff : TRUE,
                         !.creator = IF @ = Nobody THEN CHOOSE u \in Staff : TRUE ELSE @]
          ELSE s
  BY <1>1, <1>3 DEF WorkManagement
<1>6. CASE Cardinality(Staff) = 1 /\ s.assignee = Nobody
  <2>1. Staff # {}
    BY <1>6, FS_EmptySet
  <2>2. PICK only \in Staff : only = CHOOSE u \in Staff : TRUE
    BY <2>1
  <2>3. a = Nobody
    BY <1>4, <1>6 DEF NewRow
  <2>4. s.creator = Nobody
    BY <1>4, <2>3 DEF NewRow
  <2>5. WorkManagement(NoTask) = [s EXCEPT !.assignee = only, !.creator = only]
    BY <1>5, <1>6, <2>2, <2>4
  <2>6. WorkManagement(NoTask) = NewRow(only, only, FALSE)
    BY <1>4, <2>5 DEF NewRow
  <2> QED BY <1>2, <2>3, <2>6, LegacyAssumption
<1>7. CASE ~(Cardinality(Staff) = 1 /\ s.assignee = Nobody)
  BY <1>2, <1>4, <1>5, <1>7
<1> QED BY <1>6, <1>7

-----------------------------------------------------------------------------
\* Nothing more to put back on f.
PutDone(q, f) ==
    \/ Noted(q, f, {"REVERTED"}) = {} \/ (dated /\ old)
    \/ LET value == (CHOOSE n \in Noted(q, f, {"REVERTED"}) : TRUE).detail
       IN  q[f] # value /\ ~(q[f] = Nobody /\ value \in Staff)

LEMMA PutTwice == ASSUME NEW q, NEW f, PutDone(q, f) PROVE PutBack(q, f) = q
BY DEF PutDone, PutBack

LEMMA PutBackCases ==
    ASSUME NEW r \in TaskRow, NEW f \in Field, NEW s, s = PutBack(r, f)
    PROVE  /\ FieldPass(r, s, f)
           /\ \/ s = r /\ PutDone(r, f)
              \/ \E n \in Noted(r, f, {"REVERTED"}), t \in TaskRow, u \in TaskRow :
                     /\ ~(dated /\ old) /\ (r[f] = n.detail \/ (r[f] = Nobody /\ n.detail \in Staff))
                     /\ SetDone(r, t, f, n.detail) /\ NoteDone(t, u, f, "ORIGIN_UNKNOWN", n.detail)
                     /\ UnnoteDone(u, s, f, {"REVERTED", "UNKNOWN"})
<1>1. CASE Noted(r, f, {"REVERTED"}) = {} \/ (dated /\ old)
  BY <1>1 DEF PutBack, PutDone, FieldPass, Alike, SameField
<1>2. CASE Noted(r, f, {"REVERTED"}) # {} /\ ~(dated /\ old)
  <2>1. PICK n \in Noted(r, f, {"REVERTED"}) : n = CHOOSE k \in Noted(r, f, {"REVERTED"}) : TRUE
    BY <1>2
  <2>2. n.detail \in Staff \cup {Nobody}
    BY FieldTypes DEF Noted, NoteRow
  <2>3. PICK value : value = n.detail
    OBVIOUS
  <2>4. PICK t : t = IF r[f] = Nobody /\ value \in Staff THEN [r EXCEPT ![f] = value] ELSE r
    OBVIOUS
  <2>5. s = IF t[f] = value THEN Unnote(Note(t, f, "ORIGIN_UNKNOWN", value), f, {"REVERTED", "UNKNOWN"}) ELSE t
    BY <1>2, <2>1, <2>3, <2>4 DEF PutBack
  <2>6. CASE r[f] = Nobody /\ value \in Staff
    <3>1. SetDone(r, t, f, value)
      BY <2>2, <2>3, <2>4, <2>6, SetFacts
    <3>2. t \in TaskRow /\ t[f] = value
      BY <3>1 DEF SetDone, FieldPass, Alike
    <3>3. PICK u : u = Note(t, f, "ORIGIN_UNKNOWN", value)
      OBVIOUS
    <3>4. NoteDone(t, u, f, "ORIGIN_UNKNOWN", value)
      BY <2>2, <2>3, <3>2, <3>3, NoteFacts DEF LegacyReason
    <3>5. u \in TaskRow
      BY <3>4 DEF NoteDone, FieldPass, Alike
    <3>6. Unnote(u, f, {"REVERTED", "UNKNOWN"}) = s
      BY <2>5, <3>2, <3>3
    <3>7. UnnoteDone(u, s, f, {"REVERTED", "UNKNOWN"})
      BY <3>5, <3>6, UnnoteFacts
    <3>8. FieldPass(r, s, f)
      BY <3>1, <3>4, <3>7 DEF SetDone, NoteDone, UnnoteDone, FieldPass, Alike, SameField
    <3> QED BY <1>2, <2>3, <2>6, <3>1, <3>2, <3>4, <3>5, <3>7, <3>8
  <2>7. CASE ~(r[f] = Nobody /\ value \in Staff) /\ r[f] = value
    <3>1. t = r
      BY <2>4, <2>7
    <3>2. SetDone(r, r, f, value)
      BY <2>7 DEF SetDone, FieldPass, Alike, SameField
    <3>3. PICK u : u = Note(r, f, "ORIGIN_UNKNOWN", value)
      OBVIOUS
    <3>4. NoteDone(r, u, f, "ORIGIN_UNKNOWN", value)
      BY <2>2, <2>3, <3>3, NoteFacts DEF LegacyReason
    <3>5. u \in TaskRow
      BY <3>4 DEF NoteDone, FieldPass, Alike
    <3>6. Unnote(u, f, {"REVERTED", "UNKNOWN"}) = s
      BY <2>5, <2>7, <3>1, <3>3
    <3>7. UnnoteDone(u, s, f, {"REVERTED", "UNKNOWN"})
      BY <3>5, <3>6, UnnoteFacts
    <3>8. FieldPass(r, s, f)
      BY <3>4, <3>7 DEF NoteDone, UnnoteDone, FieldPass, Alike, SameField
    <3> QED BY <1>2, <2>3, <2>7, <3>2, <3>4, <3>5, <3>7, <3>8
  <2>8. CASE ~(r[f] = Nobody /\ value \in Staff) /\ r[f] # value
    <3>1. s = r
      BY <2>4, <2>5, <2>8
    <3>2. PutDone(r, f)
      BY <2>1, <2>3, <2>8 DEF PutDone
    <3>3. FieldPass(r, r, f)
      BY DEF FieldPass, Alike, SameField
    <3> QED BY <3>1, <3>2, <3>3
  <2> QED BY <2>6, <2>7, <2>8
<1> QED BY <1>1, <1>2

LEMMA PutBackDone ==
    ASSUME NEW r \in TaskRow, NEW f \in Field, NEW s, s = PutBack(r, f)
    PROVE  FieldPass(r, s, f) /\ PutDone(s, f)
<1>1. /\ FieldPass(r, s, f)
      /\ \/ s = r /\ PutDone(r, f)
         \/ \E n \in Noted(r, f, {"REVERTED"}), t \in TaskRow, u \in TaskRow :
                /\ ~(dated /\ old) /\ (r[f] = n.detail \/ (r[f] = Nobody /\ n.detail \in Staff))
                /\ SetDone(r, t, f, n.detail) /\ NoteDone(t, u, f, "ORIGIN_UNKNOWN", n.detail)
                /\ UnnoteDone(u, s, f, {"REVERTED", "UNKNOWN"})
  BY PutBackCases
<1>2. CASE s = r /\ PutDone(r, f)
  BY <1>1, <1>2
<1>3. ASSUME NEW u, UnnoteDone(u, s, f, {"REVERTED", "UNKNOWN"}) PROVE PutDone(s, f)
  <2>1. Noted(s, f, {"REVERTED"}) = {}
    BY <1>3 DEF UnnoteDone, Noted
  <2> QED BY <2>1 DEF PutDone
<1> QED BY <1>1, <1>2, <1>3

\* The notes a value put back leaves: one that keeps it, and none of those it replaces.
PutNote(r, s, f, value, m) ==
    /\ m.reason = "ORIGIN_UNKNOWN" /\ m.detail = value /\ m.earlier = r.changed[f] /\ m.later = FALSE
    /\ m \in s.notes[f] /\ s[f] = value
    /\ \A n \in s.notes[f] : n = m \/ (n \in r.notes[f] /\ n.reason \notin {"REVERTED", "UNKNOWN"})

LEMMA PutBackNotes ==
    ASSUME NEW r \in TaskRow, NEW f \in Field, NEW t \in TaskRow, NEW u \in TaskRow, NEW s, NEW value,
           SetDone(r, t, f, value), NoteDone(t, u, f, "ORIGIN_UNKNOWN", value),
           UnnoteDone(u, s, f, {"REVERTED", "UNKNOWN"}), Noted(r, f, {"ORIGIN_UNKNOWN"}) = {}
    PROVE  \E m : PutNote(r, s, f, value, m)
<1>1. t.notes = r.notes /\ t.changed = r.changed /\ t[f] = value
  BY DEF SetDone, FieldPass, Alike
<1>2. Noted(t, f, {"ORIGIN_UNKNOWN"}) = {}
  BY <1>1 DEF Noted
<1>3. PICK m : m = NewNote(t, f, "ORIGIN_UNKNOWN", value)
  OBVIOUS
<1>4. m.reason = "ORIGIN_UNKNOWN" /\ m.detail = value /\ m.earlier = r.changed[f] /\ m.later = FALSE
  BY <1>1, <1>3 DEF NewNote
<1>5. u.notes[f] = r.notes[f] \cup {m} /\ u[f] = value
  BY <1>1, <1>2, <1>3 DEF NoteDone
<1>6. s.notes[f] = {n \in u.notes[f] : n.reason \notin {"REVERTED", "UNKNOWN"}} /\ s[f] = u[f]
  BY DEF UnnoteDone
<1>7. m \in s.notes[f]
  BY <1>4, <1>5, <1>6
<1>8. \A n \in s.notes[f] : n = m \/ (n \in r.notes[f] /\ n.reason \notin {"REVERTED", "UNKNOWN"})
  BY <1>5, <1>6
<1> QED BY <1>4, <1>5, <1>6, <1>7, <1>8 DEF PutNote

\* A value put back is the one decided, or stands over nobody with a note that says so.
LEMMA PutBackTraced ==
    ASSUME LegacyTypes, NEW r \in TaskRow, Traced(r), NEW f \in Field, NEW s, s = PutBack(r, f),
           Noted(r, f, {"ORIGIN_UNKNOWN"}) = {}, Noted(r, f, {"UNDONE"}) = {}
    PROVE  /\ FieldPass(r, s, f) /\ Traced(s) /\ Noted(s, f, {"UNDONE"}) = {} /\ PutDone(s, f)
           /\ GuessNoted(r, f) => GuessNoted(s, f)
<1>1. /\ FieldPass(r, s, f)
      /\ \/ s = r /\ PutDone(r, f)
         \/ \E n \in Noted(r, f, {"REVERTED"}), t \in TaskRow, u \in TaskRow :
                /\ ~(dated /\ old) /\ (r[f] = n.detail \/ (r[f] = Nobody /\ n.detail \in Staff))
                /\ SetDone(r, t, f, n.detail) /\ NoteDone(t, u, f, "ORIGIN_UNKNOWN", n.detail)
                /\ UnnoteDone(u, s, f, {"REVERTED", "UNKNOWN"})
  BY PutBackCases
<1>2. CASE s = r /\ PutDone(r, f)
  BY <1>1, <1>2
<1>3. CASE ~(s = r /\ PutDone(r, f))
  <2>1. PICK n \in Noted(r, f, {"REVERTED"}), t \in TaskRow, u \in TaskRow :
            /\ ~(dated /\ old) /\ (r[f] = n.detail \/ (r[f] = Nobody /\ n.detail \in Staff))
            /\ SetDone(r, t, f, n.detail) /\ NoteDone(t, u, f, "ORIGIN_UNKNOWN", n.detail)
            /\ UnnoteDone(u, s, f, {"REVERTED", "UNKNOWN"})
    BY <1>1, <1>3
  <2>2. PICK value : value = n.detail
    OBVIOUS
  <2>3. PICK m : /\ m.reason = "ORIGIN_UNKNOWN" /\ m.detail = value /\ m.earlier = r.changed[f] /\ m.later = FALSE
                 /\ m \in s.notes[f] /\ s[f] = value
                 /\ \A k \in s.notes[f] : k = m \/ (k \in r.notes[f] /\ k.reason \notin {"REVERTED", "UNKNOWN"})
    <3>1. SetDone(r, t, f, value) /\ NoteDone(t, u, f, "ORIGIN_UNKNOWN", value)
      BY <2>1, <2>2
    <3>2. UnnoteDone(u, s, f, {"REVERTED", "UNKNOWN"})
      BY <2>1
    <3>3. \E m : PutNote(r, s, f, value, m)
      BY <3>1, <3>2, PutBackNotes
    <3> QED BY <3>3 DEF PutNote
  <2>4. FieldTraced(r, f) /\ Changes(r) /\ Withdrawn(r, f)
    BY DEF Traced, FieldTraced
  <2>5. /\ value \in Staff /\ (~r.changed[f] => r[f] = Nobody /\ meant[f] \in {Unknown, value})
        /\ (~old => meant[f] # Unknown)
    BY <2>2, <2>4 DEF Withdrawn
  <2>6. s.changed = r.changed /\ r.changed[f] \in BOOLEAN /\ meant[f] \in Staff \cup {Nobody, Unknown}
    BY <1>1, FieldTypes DEF FieldPass, Alike, LegacyTypes
  <2>7. Noted(s, f, {"REVERTED"}) = {} /\ Noted(s, f, {"UNDONE"}) = {} /\ Noted(s, f, {"ORIGIN_UNKNOWN"}) = {m}
    BY <2>3 DEF Noted
  <2>8. GuessNoted(s, f)
    <3>1. m \in Noted(s, f, {"KEPT", "ORIGIN_UNKNOWN"})
      BY <2>3 DEF Noted
    <3> QED BY <2>3, <3>1 DEF GuessNoted
  <2>9. \A k \in s.notes[f] : k.earlier \/ k.later => s.changed[f]
    BY <2>3, <2>4, <2>6 DEF FieldTraced
  <2>10. Withdrawn(s, f) /\ BornDecided(s, f)
    BY <2>5, <2>7 DEF Withdrawn, BornDecided
  <2>11. PutDone(s, f)
    BY <2>7 DEF PutDone
  <2>12. CASE f = "creator"
    <3>1. ~r.changed[f]
      BY <2>4, <2>12 DEF Changes
    <3>2. author \notin Staff /\ meant["creator"] # Nobody
      BY <2>1, <2>4, <2>12 DEF FieldTraced, CreatorKnown
    <3>3. CreatorKnown(s)
      BY <2>3, <2>5, <2>12, <3>1, <3>2 DEF CreatorKnown
    <3> QED BY <1>1, <2>7, <2>8, <2>9, <2>10, <2>11, <2>12, <3>3, PassTraced DEF FieldTraced
  <2>13. CASE f = "assignee"
    <3>1. AssigneeKnown(r)
      BY <2>4, <2>13 DEF FieldTraced
    <3>2. r.changed[f] => meant[f] = r[f]
      <4>1. Contradicted(r) = {}
        BY <2>13 DEF Contradicted
      <4>2. ~KeptBy(r, "assignee", "UNDONE")
        BY <2>13 DEF KeptBy
      <4>3. r.changed[f] => meant[f] # Unknown
        BY <2>4, <2>13 DEF Changes
      <4> QED BY <2>13, <3>1, <4>1, <4>2, <4>3 DEF AssigneeKnown
    <3>3. r.changed[f] => meant[f] \in {Nobody, value}
      BY <2>1, <2>2, <3>2
    <3>4. r.changed[f] => Contradicted(s) = {m}
      BY <2>3, <2>7, <2>13 DEF Contradicted
    <3>5. ~r.changed[f] => Contradicted(s) = {}
      BY <2>3, <2>7, <2>13 DEF Contradicted
    <3>6. AssigneeKnown(s)
      <4>1. CASE r.changed[f]
        <5>1. \A k \in Contradicted(s) : meant["assignee"] \in {Nobody, k.detail}
          BY <2>3, <2>13, <3>3, <3>4, <4>1
        <5>2. meant["assignee"] \notin {Unknown, s.assignee} =>
                meant["assignee"] = Nobody /\ \E k \in Contradicted(s) : k.detail = s.assignee
          BY <2>3, <2>13, <3>3, <3>4, <4>1
        <5> QED BY <5>1, <5>2 DEF AssigneeKnown
      <4>2. CASE ~r.changed[f]
        BY <2>3, <2>5, <2>13, <3>5, <4>2 DEF AssigneeKnown
      <4> QED BY <4>1, <4>2
    <3>7. FieldTraced(s, f)
      BY <2>9, <2>10, <2>13, <3>6 DEF FieldTraced
    <3> QED BY <1>1, <2>7, <2>8, <2>11, <3>7, PassTraced
  <2> QED BY <2>12, <2>13 DEF Field
<1> QED BY <1>2, <1>3

-----------------------------------------------------------------------------
\* Nothing to take back on f.
TakeDone(q, f) == {n \in Noted(q, f, {"ORIGIN_UNKNOWN"}) : n.detail = q[f] /\ n.earlier /\ ~n.later} = {}

LEMMA TakeTwice == ASSUME NEW q, NEW f, TakeDone(q, f) PROVE TakeBack(q, f) = q
BY DEF TakeDone, TakeBack

LEMMA TakeBackCases ==
    ASSUME NEW r \in TaskRow, NEW f \in Field, NEW s, s = TakeBack(r, f)
    PROVE  /\ FieldPass(r, s, f)
           /\ \/ s = r /\ TakeDone(r, f)
              \/ ~TakeDone(r, f) /\ \E u \in TaskRow, t \in TaskRow :
                     /\ NoteDone(r, u, f, "UNDONE", r[f]) /\ SetDone(u, t, f, Nobody)
                     /\ UnnoteDone(t, s, f, {"ORIGIN_UNKNOWN"})
<1>1. CASE TakeDone(r, f)
  <2>1. s = r
    BY <1>1, TakeTwice
  <2> QED BY <1>1, <2>1 DEF FieldPass, Alike, SameField
<1>2. CASE ~TakeDone(r, f)
  <2>1. r[f] \in Staff \cup {Nobody} /\ "UNDONE" \in LegacyReason
    BY FieldTypes DEF LegacyReason
  <2>2. PICK u : u = Note(r, f, "UNDONE", r[f])
    OBVIOUS
  <2>3. PICK t : t = [u EXCEPT ![f] = Nobody]
    OBVIOUS
  <2>4. Unnote(t, f, {"ORIGIN_UNKNOWN"}) = s
    BY <1>2, <2>2, <2>3 DEF TakeBack, TakeDone
  <2>5. NoteDone(r, u, f, "UNDONE", r[f])
    BY <2>1, <2>2, NoteFacts
  <2>6. u \in TaskRow
    BY <2>5 DEF NoteDone, FieldPass, Alike
  <2>7. SetDone(u, t, f, Nobody)
    BY <2>3, <2>6, SetFacts
  <2>8. t \in TaskRow
    BY <2>7 DEF SetDone, FieldPass, Alike
  <2>9. UnnoteDone(t, s, f, {"ORIGIN_UNKNOWN"})
    BY <2>4, <2>8, UnnoteFacts
  <2>10. FieldPass(r, s, f)
    BY <2>5, <2>7, <2>9 DEF NoteDone, SetDone, UnnoteDone, FieldPass, Alike, SameField
  <2> QED BY <1>2, <2>5, <2>6, <2>7, <2>8, <2>9, <2>10
<1> QED BY <1>1, <1>2

LEMMA TakeBackDone ==
    ASSUME NEW r \in TaskRow, NEW f \in Field, NEW s, s = TakeBack(r, f)
    PROVE  FieldPass(r, s, f) /\ TakeDone(s, f)
<1>1. /\ FieldPass(r, s, f)
      /\ \/ s = r /\ TakeDone(r, f)
         \/ ~TakeDone(r, f) /\ \E u \in TaskRow, t \in TaskRow :
                /\ NoteDone(r, u, f, "UNDONE", r[f]) /\ SetDone(u, t, f, Nobody)
                /\ UnnoteDone(t, s, f, {"ORIGIN_UNKNOWN"})
  BY TakeBackCases
<1>2. CASE s = r /\ TakeDone(r, f)
  BY <1>1, <1>2
<1>3. ASSUME NEW t, UnnoteDone(t, s, f, {"ORIGIN_UNKNOWN"}) PROVE TakeDone(s, f)
  <2>1. Noted(s, f, {"ORIGIN_UNKNOWN"}) = {}
    BY <1>3 DEF UnnoteDone, Noted
  <2> QED BY <2>1 DEF TakeDone
<1> QED BY <1>1, <1>2, <1>3

\* The notes a value taken back leaves.
TakeNote(r, s, f, m) ==
    /\ m.reason = "UNDONE" /\ m.detail = r[f] /\ m.earlier = r.changed[f] /\ m.later = FALSE
    /\ m \in s.notes[f] /\ s[f] = Nobody
    /\ \A n \in s.notes[f] : n = m \/ (n \in r.notes[f] /\ n.reason # "ORIGIN_UNKNOWN")

LEMMA TakeBackNotes ==
    ASSUME NEW r \in TaskRow, NEW f \in Field, NEW u \in TaskRow, NEW t \in TaskRow, NEW s,
           NoteDone(r, u, f, "UNDONE", r[f]), SetDone(u, t, f, Nobody),
           UnnoteDone(t, s, f, {"ORIGIN_UNKNOWN"}), Noted(r, f, {"UNDONE"}) = {}
    PROVE  \E m : TakeNote(r, s, f, m)
<1>1. PICK m : m = NewNote(r, f, "UNDONE", r[f])
  OBVIOUS
<1>2. m.reason = "UNDONE" /\ m.detail = r[f] /\ m.earlier = r.changed[f] /\ m.later = FALSE
  BY <1>1 DEF NewNote
<1>3. u.notes[f] = r.notes[f] \cup {m}
  BY <1>1 DEF NoteDone
<1>4. t.notes = u.notes /\ t[f] = Nobody
  BY DEF SetDone
<1>5. s.notes[f] = {n \in t.notes[f] : n.reason \notin {"ORIGIN_UNKNOWN"}} /\ s[f] = t[f]
  BY DEF UnnoteDone
<1>6. m \in s.notes[f]
  BY <1>2, <1>3, <1>4, <1>5
<1>7. \A n \in s.notes[f] : n = m \/ (n \in r.notes[f] /\ n.reason # "ORIGIN_UNKNOWN")
  BY <1>3, <1>4, <1>5
<1> QED BY <1>2, <1>4, <1>5, <1>6, <1>7 DEF TakeNote

\* A value put back over a decision is gone; the note keeps it if it was the one decided.
LEMMA TakeBackTraced ==
    ASSUME LegacyTypes, NEW r \in TaskRow, Traced(r), NEW f \in Field, NEW s, s = TakeBack(r, f),
           Noted(r, f, {"UNDONE"}) = {}
    PROVE  /\ FieldPass(r, s, f) /\ Traced(s) /\ TakeDone(s, f)
           /\ GuessNoted(r, f) => GuessNoted(s, f)
<1>1. /\ FieldPass(r, s, f)
      /\ \/ s = r /\ TakeDone(r, f)
         \/ ~TakeDone(r, f) /\ \E u \in TaskRow, t \in TaskRow :
                /\ NoteDone(r, u, f, "UNDONE", r[f]) /\ SetDone(u, t, f, Nobody)
                /\ UnnoteDone(t, s, f, {"ORIGIN_UNKNOWN"})
  BY TakeBackCases
<1>2. FieldTraced(r, f) /\ Changes(r) /\ Withdrawn(r, f)
  BY DEF Traced, FieldTraced
<1>3. CASE TakeDone(r, f)
  BY <1>1, <1>3
<1>4. CASE ~TakeDone(r, f)
  <2>1. PICK n \in Noted(r, f, {"ORIGIN_UNKNOWN"}) : n.detail = r[f] /\ n.earlier /\ ~n.later
    BY <1>4 DEF TakeDone
  <2>2. r.changed[f] /\ f = "assignee"
    <3>1. n \in r.notes[f]
      BY <2>1 DEF Noted
    <3>2. r.changed[f]
      BY <1>2, <2>1, <3>1 DEF FieldTraced
    <3> QED BY <1>2, <3>2 DEF Changes, Field
  <2>3. PICK m : TakeNote(r, s, f, m)
    BY <1>1, <1>4, TakeBackNotes
  <2>4. meant[f] \in {Nobody, r[f]} /\ meant[f] # Unknown
    <3>1. n \in Contradicted(r)
      BY <2>1, <2>2 DEF Contradicted
    <3> QED BY <1>2, <2>1, <2>2, <3>1 DEF FieldTraced, AssigneeKnown, Changes
  <2>5. Noted(s, f, {"ORIGIN_UNKNOWN"}) = {} /\ Noted(s, f, {"REVERTED"}) \subseteq Noted(r, f, {"REVERTED"})
    BY <2>3 DEF TakeNote, Noted
  <2>6. s[f] = Nobody /\ s.changed = r.changed
    BY <1>1, <2>3 DEF TakeNote, FieldPass, Alike
  <2>7. \A k \in s.notes[f] : k.earlier \/ k.later => s.changed[f]
    BY <2>2, <2>6
  <2>8. Withdrawn(s, f) /\ BornDecided(s, f)
    BY <1>2, <2>2, <2>4, <2>5, <2>6 DEF Withdrawn, BornDecided
  <2>9. AssigneeKnown(s)
    <3>1. Contradicted(s) = {}
      BY <2>2, <2>5 DEF Contradicted
    <3>2. meant[f] # Nobody => KeptBy(s, "assignee", "UNDONE")
      BY <2>2, <2>3, <2>4 DEF TakeNote, KeptBy, Noted
    <3> QED BY <2>2, <2>6, <3>1, <3>2 DEF AssigneeKnown
  <2>10. FieldTraced(s, f)
    BY <2>2, <2>7, <2>8, <2>9 DEF FieldTraced
  <2>11. TakeDone(s, f) /\ GuessNoted(s, f)
    BY <2>4, <2>5 DEF TakeDone, GuessNoted
  <2> QED BY <1>1, <2>10, <2>11, PassTraced
<1> QED BY <1>3, <1>4

\* Both fields, one after the other.
LEMMA RestoreTraced ==
    ASSUME LegacyTypes, NEW r \in TaskRow, Traced(r), NEW s, s = Restore(r),
           Unnoted(r, {"ORIGIN_UNKNOWN"}), Unnoted(r, {"UNDONE"})
    PROVE  /\ s \in TaskRow /\ Traced(s) /\ s.lines = r.lines /\ Unnoted(s, {"UNDONE"})
           /\ \A f \in Field : GuessNoted(r, f) => GuessNoted(s, f)
<1>0. "assignee" \in Field /\ "creator" \in Field /\ \A f \in Field : f = "assignee" \/ f = "creator"
  BY DEF Field
<1>1. PICK a : a = PutBack(r, "assignee")
  OBVIOUS
<1>2. s = PutBack(a, "creator")
  BY <1>1 DEF Restore
<1>3. \A f \in Field : Noted(r, f, {"ORIGIN_UNKNOWN"}) = {} /\ Noted(r, f, {"UNDONE"}) = {}
  BY DEF Unnoted
<1>4. /\ FieldPass(r, a, "assignee") /\ Traced(a) /\ Noted(a, "assignee", {"UNDONE"}) = {}
      /\ GuessNoted(r, "assignee") => GuessNoted(a, "assignee")
  BY <1>0, <1>1, <1>3, PutBackTraced
<1>5. a \in TaskRow /\ a.lines = r.lines
  BY <1>4 DEF FieldPass, Alike
<1>6. /\ \A reasons : Noted(a, "creator", reasons) = Noted(r, "creator", reasons)
      /\ GuessNoted(r, "creator") => GuessNoted(a, "creator")
  BY <1>0, <1>4, OtherField
<1>7. Noted(a, "creator", {"ORIGIN_UNKNOWN"}) = {} /\ Noted(a, "creator", {"UNDONE"}) = {}
  BY <1>0, <1>3, <1>6
<1>8. /\ FieldPass(a, s, "creator") /\ Traced(s) /\ Noted(s, "creator", {"UNDONE"}) = {}
      /\ GuessNoted(a, "creator") => GuessNoted(s, "creator")
  BY <1>0, <1>2, <1>4, <1>5, <1>7, PutBackTraced
<1>9. s \in TaskRow /\ s.lines = r.lines
  BY <1>5, <1>8 DEF FieldPass, Alike
<1>10. /\ \A reasons : Noted(s, "assignee", reasons) = Noted(a, "assignee", reasons)
       /\ GuessNoted(a, "assignee") => GuessNoted(s, "assignee")
  BY <1>0, <1>5, <1>8, OtherField
<1>11. Unnoted(s, {"UNDONE"})
  BY <1>0, <1>4, <1>8, <1>10 DEF Unnoted
<1>12. \A f \in Field : GuessNoted(r, f) => GuessNoted(s, f)
  BY <1>0, <1>4, <1>6, <1>8, <1>10
<1> QED BY <1>8, <1>9, <1>11, <1>12

LEMMA ExplicitTraced ==
    ASSUME LegacyTypes, NEW r \in TaskRow, Traced(r), NEW s, s = ExplicitChanges(r), Unnoted(r, {"UNDONE"})
    PROVE  /\ s \in TaskRow /\ Traced(s) /\ s.lines = r.lines
           /\ \A n \in Contradicted(s) : n.detail # s.assignee
           /\ \A f \in Field : GuessNoted(r, f) => GuessNoted(s, f)
<1>0. "assignee" \in Field /\ "creator" \in Field /\ \A f \in Field : f = "assignee" \/ f = "creator"
  BY DEF Field
<1>1. PICK a : a = TakeBack(r, "assignee")
  OBVIOUS
<1>2. s = TakeBack(a, "creator")
  BY <1>1 DEF ExplicitChanges
<1>3. \A f \in Field : Noted(r, f, {"UNDONE"}) = {}
  BY DEF Unnoted
<1>4. /\ FieldPass(r, a, "assignee") /\ Traced(a) /\ TakeDone(a, "assignee")
      /\ GuessNoted(r, "assignee") => GuessNoted(a, "assignee")
  BY <1>0, <1>1, <1>3, TakeBackTraced
<1>5. a \in TaskRow /\ a.lines = r.lines
  BY <1>4 DEF FieldPass, Alike
<1>6. /\ \A reasons : Noted(a, "creator", reasons) = Noted(r, "creator", reasons)
      /\ GuessNoted(r, "creator") => GuessNoted(a, "creator")
  BY <1>0, <1>4, OtherField
<1>7. Noted(a, "creator", {"UNDONE"}) = {}
  BY <1>0, <1>3, <1>6
<1>8. /\ FieldPass(a, s, "creator") /\ Traced(s)
      /\ GuessNoted(a, "creator") => GuessNoted(s, "creator")
  BY <1>0, <1>2, <1>4, <1>5, <1>7, TakeBackTraced
<1>9. s \in TaskRow /\ s.lines = r.lines /\ s.assignee = a.assignee /\ s.notes["assignee"] = a.notes["assignee"]
  BY <1>0, <1>5, <1>8 DEF FieldPass, Alike, SameField
<1>10. GuessNoted(a, "assignee") => GuessNoted(s, "assignee")
  BY <1>0, <1>5, <1>8, OtherField
<1>11. \A n \in Contradicted(s) : n.detail # s.assignee
  BY <1>4, <1>9 DEF TakeDone, Contradicted, Noted
<1>12. \A f \in Field : GuessNoted(r, f) => GuessNoted(s, f)
  BY <1>0, <1>4, <1>6, <1>8, <1>10
<1> QED BY <1>8, <1>9, <1>11, <1>12

-----------------------------------------------------------------------------
\* Nothing more to withdraw or to keep on f.
WithdrawDone(q, f) == ~Inferred(q, f) \/ ((q.lines \/ q.comment) /\ Noted(q, f, {"KEPT"}) # {})

LEMMA WithdrawTwice == ASSUME NEW q, NEW f, WithdrawDone(q, f) PROVE Withdraw(q, f) = q
BY DEF WithdrawDone, Withdraw, Note

LEMMA WithdrawOnce ==
    ASSUME NEW r \in TaskRow, NEW f \in Field, NEW s, s = Withdraw(r, f)
    PROVE  FieldPass(r, s, f) /\ WithdrawDone(s, f)
<1>1. /\ FieldPass(r, s, f)
      /\ \/ ~Inferred(r, f) /\ s = r
         \/ Inferred(r, f) /\ (r.lines \/ r.comment) /\ NoteDone(r, s, f, "KEPT", r[f])
         \/ /\ Inferred(r, f) /\ ~r.lines /\ ~r.comment /\ s[f] = Nobody
            /\ \E u \in TaskRow : NoteDone(r, u, f, "REVERTED", r[f]) /\ s.notes = u.notes
  BY WithdrawCases
<1>2. s.lines = r.lines /\ s.comment = r.comment
  BY <1>1 DEF FieldPass, Alike
<1>3. CASE ~Inferred(r, f) /\ s = r
  BY <1>1, <1>3 DEF WithdrawDone
<1>4. CASE (r.lines \/ r.comment) /\ NoteDone(r, s, f, "KEPT", r[f])
  BY <1>1, <1>2, <1>4 DEF WithdrawDone, NoteDone
<1>5. CASE s[f] = Nobody
  BY <1>1, <1>5 DEF WithdrawDone, Inferred
<1> QED BY <1>1, <1>3, <1>4, <1>5

LEMMA WithdrawOther ==
    ASSUME NEW r \in TaskRow, NEW f \in Field, NEW s, FieldPass(r, s, f), NEW g \in Field, g # f, WithdrawDone(r, g)
    PROVE  WithdrawDone(s, g)
<1>1. s[g] = r[g] /\ s.notes[g] = r.notes[g] /\ s.lines = r.lines /\ s.comment = r.comment /\ s.changed = r.changed
  BY DEF FieldPass, Alike, SameField
<1> QED BY <1>1 DEF WithdrawDone, Inferred, Noted

LEMMA WithdrawUnknown ==
    ASSUME NEW r \in TaskRow, NEW s, SameButUnknown(r, s), NEW f \in Field, WithdrawDone(r, f)
    PROVE  WithdrawDone(s, f)
<1>1. s[f] = r[f] /\ s.lines = r.lines /\ s.comment = r.comment /\ s.changed = r.changed
  BY DEF SameButUnknown, Alike
<1>2. Noted(s, f, {"KEPT"}) = Noted(r, f, {"KEPT"})
  BY NotedOthers DEF SameButUnknown
<1> QED BY <1>1, <1>2 DEF WithdrawDone, Inferred

LEMMA UnnoteTwice ==
    ASSUME NEW r \in TaskRow, NEW f \in Field, Noted(r, f, {"UNKNOWN"}) = {}
    PROVE  Unnote(r, f, {"UNKNOWN"}) = r
<1>1. Unnote(r, f, {"UNKNOWN"}) = [r EXCEPT !.notes[f] = @ \ {}]
  BY DEF Unnote
<1>2. r.notes[f] \ {} = r.notes[f]
  OBVIOUS
<1>3. [r.notes EXCEPT ![f] = @ \ {}] = r.notes
  BY <1>2 DEF TaskRow
<1>4. [r EXCEPT !.notes[f] = @ \ {}] = r
  BY <1>3 DEF TaskRow
<1> QED BY <1>1, <1>4

\* The reconciliation, where it judges the task of before V1.0, is done once.
LEMMA ReconcileLegacyTwice ==
    ASSUME LegacyTypes, NEW r \in TaskRow, Legacy(r), NEW s, s = Reconcile(r)
    PROVE  Reconcile(s) = s
<1>0. "assignee" \in Field /\ "creator" \in Field /\ \A f \in Field : f = "assignee" \/ f = "creator"
  BY DEF Field
<1>1. PICK a : a = Withdraw(r, "assignee")
  OBVIOUS
<1>2. PICK b : b = Withdraw(a, "creator")
  OBVIOUS
<1>3. PICK c : c = [b EXCEPT !.creator = IF @ = Nobody THEN AuditCreator ELSE @]
  OBVIOUS
<1>4. s = LastNotes(c)
  BY <1>1, <1>2, <1>3 DEF Reconcile, LastNotes
<1>5. FieldPass(r, a, "assignee") /\ WithdrawDone(a, "assignee")
  BY <1>0, <1>1, WithdrawOnce
<1>6. a \in TaskRow /\ a.lines = r.lines /\ a.born = r.born
  BY <1>5 DEF FieldPass, Alike
<1>7. FieldPass(a, b, "creator") /\ WithdrawDone(b, "creator")
  BY <1>0, <1>2, <1>6, WithdrawOnce
<1>8. b \in TaskRow /\ b.lines = r.lines /\ b.born = r.born
  BY <1>6, <1>7 DEF FieldPass, Alike
<1>9. WithdrawDone(b, "assignee")
  BY <1>0, <1>5, <1>6, <1>7, WithdrawOther
<1>10. PICK v \in Staff \cup {Nobody} : v = IF b.creator = Nobody THEN AuditCreator ELSE b.creator
  BY <1>8 DEF AuditCreator, TaskRow
<1>11. c = [b EXCEPT !["creator"] = v]
  BY <1>3, <1>8, <1>10
<1>12. SetDone(b, c, "creator", v)
  BY <1>0, <1>8, <1>11, SetFacts
<1>13. c \in TaskRow /\ c.lines = r.lines /\ c.born = r.born /\ c.creator = v
  BY <1>8, <1>12 DEF SetDone, FieldPass, Alike
<1>14. FieldPass(b, c, "creator")
  BY <1>12 DEF SetDone
<1>15. WithdrawDone(c, "assignee")
  BY <1>0, <1>8, <1>9, <1>14, WithdrawOther
<1>16. WithdrawDone(c, "creator")
  <2>1. CASE b.creator = Nobody
    BY <1>10, <1>13, <2>1 DEF WithdrawDone, Inferred
  <2>2. CASE b.creator # Nobody
    <3>1. c = b
      BY <1>8, <1>10, <1>11, <2>2 DEF TaskRow
    <3> QED BY <1>7, <3>1
  <2> QED BY <2>1, <2>2
<1>17. SameButUnknown(c, s)
  BY <1>4, <1>13, LastNotesFacts
<1>18. s \in TaskRow /\ s.lines = r.lines /\ s.born = r.born /\ s.creator = c.creator /\ s.assignee = c.assignee
       /\ s.changed = c.changed
  BY <1>0, <1>13, <1>17 DEF SameButUnknown, Alike
<1>19. WithdrawDone(s, "assignee") /\ WithdrawDone(s, "creator")
  BY <1>0, <1>13, <1>15, <1>16, <1>17, WithdrawUnknown
<1>20. Withdraw(s, "assignee") = s /\ Withdraw(s, "creator") = s
  BY <1>19, WithdrawTwice
<1>21. s.creator = Nobody => AuditCreator = Nobody
  BY <1>10, <1>13, <1>18
<1>22. [s EXCEPT !.creator = IF @ = Nobody THEN AuditCreator ELSE @] = s
  <2>1. (IF s.creator = Nobody THEN AuditCreator ELSE s.creator) = s.creator
    BY <1>21
  <2>2. PICK w : w = IF s.creator = Nobody THEN AuditCreator ELSE s.creator
    OBVIOUS
  <2>3. [s EXCEPT !.creator = w] = s
    BY <1>18, <2>1, <2>2 DEF TaskRow
  <2> QED BY <2>2, <2>3
<1>23. LastNotes(s) = s
  <2>1. /\ ~c.changed["assignee"] /\ c.assignee = Nobody => Noted(s, "assignee", {"UNKNOWN"}) # {}
        /\ c.creator = Nobody => Noted(s, "creator", {"UNKNOWN"}) # {}
    BY <1>4, <1>13, LastNotesFacts
  <2>2. PICK t : t = LastNotes(s)
    OBVIOUS
  <2>3. s.changed["assignee"] \/ s.assignee # Nobody \/ Noted(s, "assignee", {"UNKNOWN"}) # {}
    BY <1>18, <2>1
  <2>4. s.creator # Nobody \/ Noted(s, "creator", {"UNKNOWN"}) # {}
    BY <1>18, <2>1
  <2>5. t = s
    BY <1>18, <2>2, <2>3, <2>4, LastNotesFacts
  <2> QED BY <2>2, <2>5
<1>24. Legacy(s)
  BY <1>18 DEF Legacy
<1>25. Reconcile(s) = LastNotes([s EXCEPT !.creator = IF @ = Nobody THEN AuditCreator ELSE @])
  BY <1>20, <1>24 DEF Reconcile, LastNotes
<1> QED BY <1>22, <1>23, <1>25

LEMMA ReconcileTwice ==
    ASSUME LegacyTypes, NEW r \in TaskRow
    PROVE  Reconcile(Reconcile(r)) = Reconcile(r)
<1>0. "assignee" \in Field /\ "creator" \in Field
  BY DEF Field
<1>1. CASE Legacy(r)
  BY <1>1, ReconcileLegacyTwice
<1>2. CASE ~Legacy(r) /\ ~dated
  BY <1>2 DEF Reconcile
<1>3. CASE ~Legacy(r) /\ dated
  <2>1. PICK t : t = Unnote(r, "assignee", {"UNKNOWN"})
    OBVIOUS
  <2>2. PICK s : s = Unnote(t, "creator", {"UNKNOWN"})
    OBVIOUS
  <2>3. UnnoteDone(r, t, "assignee", {"UNKNOWN"})
    BY <1>0, <2>1, UnnoteFacts
  <2>4. t \in TaskRow /\ t.lines = r.lines /\ t.born = r.born /\ Noted(t, "assignee", {"UNKNOWN"}) = {}
    BY <2>3 DEF UnnoteDone, FieldPass, Alike, Noted
  <2>5. UnnoteDone(t, s, "creator", {"UNKNOWN"})
    BY <1>0, <2>2, <2>4, UnnoteFacts
  <2>6. s \in TaskRow /\ s.lines = r.lines /\ s.born = r.born /\ Noted(s, "creator", {"UNKNOWN"}) = {}
    BY <2>4, <2>5 DEF UnnoteDone, FieldPass, Alike, Noted
  <2>7. Noted(s, "assignee", {"UNKNOWN"}) = {}
    BY <1>0, <2>4, <2>5 DEF UnnoteDone, FieldPass, SameField, Noted
  <2>8. Unnote(s, "assignee", {"UNKNOWN"}) = s /\ Unnote(s, "creator", {"UNKNOWN"}) = s
    BY <1>0, <2>6, <2>7, UnnoteTwice
  <2>9. ~Legacy(s)
    BY <1>3, <2>6 DEF Legacy
  <2>10. Reconcile(r) = s
    BY <1>3, <2>1, <2>2 DEF Reconcile
  <2>11. Reconcile(s) = s
    BY <1>3, <2>8, <2>9 DEF Reconcile
  <2> QED BY <2>10, <2>11
<1> QED BY <1>1, <1>2, <1>3

\* What was put back on one field is not undone by the pass on the other.
LEMMA RestoreTwice == ASSUME NEW r \in TaskRow PROVE Restore(Restore(r)) = Restore(r)
<1>0. "assignee" \in Field /\ "creator" \in Field
  BY DEF Field
<1>1. PICK a : a = PutBack(r, "assignee")
  OBVIOUS
<1>2. PICK s : s = PutBack(a, "creator")
  OBVIOUS
<1>3. FieldPass(r, a, "assignee") /\ PutDone(a, "assignee")
  BY <1>0, <1>1, PutBackDone
<1>4. a \in TaskRow
  BY <1>3 DEF FieldPass, Alike
<1>5. FieldPass(a, s, "creator") /\ PutDone(s, "creator")
  BY <1>0, <1>2, <1>4, PutBackDone
<1>6. s.assignee = a.assignee /\ s.notes["assignee"] = a.notes["assignee"]
  BY <1>0, <1>5 DEF FieldPass, SameField
<1>7. Noted(s, "assignee", {"REVERTED"}) = Noted(a, "assignee", {"REVERTED"})
  BY <1>6 DEF Noted
<1>8. PutDone(s, "assignee")
  BY <1>3, <1>6, <1>7 DEF PutDone
<1>9. PutBack(s, "assignee") = s /\ PutBack(s, "creator") = s
  BY <1>5, <1>8, PutTwice
<1>10. Restore(r) = s /\ Restore(s) = s
  BY <1>1, <1>2, <1>9 DEF Restore
<1> QED BY <1>10

LEMMA ExplicitTwice == ASSUME NEW r \in TaskRow PROVE ExplicitChanges(ExplicitChanges(r)) = ExplicitChanges(r)
<1>0. "assignee" \in Field /\ "creator" \in Field
  BY DEF Field
<1>1. PICK a : a = TakeBack(r, "assignee")
  OBVIOUS
<1>2. PICK s : s = TakeBack(a, "creator")
  OBVIOUS
<1>3. FieldPass(r, a, "assignee") /\ TakeDone(a, "assignee")
  BY <1>0, <1>1, TakeBackDone
<1>4. a \in TaskRow
  BY <1>3 DEF FieldPass, Alike
<1>5. FieldPass(a, s, "creator") /\ TakeDone(s, "creator")
  BY <1>0, <1>2, <1>4, TakeBackDone
<1>6. s.assignee = a.assignee /\ s.notes["assignee"] = a.notes["assignee"]
  BY <1>0, <1>5 DEF FieldPass, SameField
<1>7. Noted(s, "assignee", {"ORIGIN_UNKNOWN"}) = Noted(a, "assignee", {"ORIGIN_UNKNOWN"})
  BY <1>6 DEF Noted
<1>8. TakeDone(s, "assignee")
  BY <1>3, <1>6, <1>7 DEF TakeDone
<1>9. TakeBack(s, "assignee") = s /\ TakeBack(s, "creator") = s
  BY <1>5, <1>8, TakeTwice
<1>10. ExplicitChanges(r) = s /\ ExplicitChanges(s) = s
  BY <1>1, <1>2, <1>9 DEF ExplicitChanges
<1> QED BY <1>10

LEMMA AppliedTwice ==
    ASSUME LegacyTypes, NEW r \in TaskRow, NEW m \in {"reconcile", "restore", "explicit"}
    PROVE  Apply(m, Apply(m, r)) = Apply(m, r)
<1>1. CASE m = "reconcile"
  <2>1. \A q : Apply(m, q) = Reconcile(q)
    BY <1>1 DEF Apply
  <2> QED BY <2>1, ReconcileTwice
<1>2. CASE m = "restore"
  <2>1. \A q : Apply(m, q) = Restore(q)
    BY <1>2 DEF Apply
  <2> QED BY <2>1, RestoreTwice
<1>3. CASE m = "explicit"
  <2>1. \A q : Apply(m, q) = ExplicitChanges(q)
    BY <1>3 DEF Apply
  <2> QED BY <2>1, ExplicitTwice
<1> QED BY <1>1, <1>2, <1>3

-----------------------------------------------------------------------------
LEMMA BareTask ==
    /\ NoTask \in TaskRow /\ NoTask.assignee = Nobody /\ NoTask.creator = Nobody /\ ~NoTask.lines /\ ~NoTask.born
    /\ \A f \in Field : NoTask[f] = Nobody /\ ~NoTask.changed[f] /\ NoTask.notes[f] = {}
BY DEF NoTask, NewRow, TaskRow, Field

LEMMA InitReached == LegacyInit => LegacyIInv
<1> SUFFICES ASSUME LegacyInit PROVE LegacyIInv
  OBVIOUS
<1>1. LegacyTypes
  <2>1. author \in Staff \cup {Stranger, Nobody} /\ (old \/ author = Nobody)
    BY DEF LegacyInit
  <2>2. meant \in [Field -> Staff \cup {Nobody, Unknown}]
    BY DEF LegacyInit
  <2> QED BY <2>1, <2>2, BareTask DEF LegacyInit, LegacyTypes, MigrationStep
<1>2. ~Exists => meant = [f \in Field |-> Unknown]
  <2>1. ~Exists => author = Nobody
    BY DEF LegacyInit, Exists
  <2> QED BY <2>1, LegacyAssumption DEF LegacyInit
<1>3. ~old => ~Exists
  BY DEF LegacyInit, Exists
<1> QED BY <1>1, <1>2, <1>3 DEF LegacyInit, LegacyIInv

\* What a migration leaves of the task, in the terms of the state before it.
LEMMA MigrateReached ==
    ASSUME LegacyIInv, Migrate, NEW s, s = task', NEW a, a = applied', NEW j, j = judged'
    PROVE  a \in MigrationStep \ {"none"} /\ j \in BOOLEAN /\ Reached(a, j, s)
<1>1. PICK i \in 1..5 : /\ Migration[i] = applied /\ applied' = Migration[i + 1]
                        /\ task' = (IF Exists THEN Apply(applied', task) ELSE task)
                        /\ judged' = (judged \/ (applied' = "reconcile" /\ Exists /\ Legacy(task)))
  BY DEF Migrate, Migration
<1>2. \/ applied = "none" /\ a = "work"
      \/ applied = "work" /\ a = "hardening"
      \/ applied = "hardening" /\ a = "reconcile"
      \/ applied = "reconcile" /\ a = "restore"
      \/ applied = "restore" /\ a = "explicit"
  <2>1. /\ Migration[1] = "none" /\ Migration[2] = "work" /\ Migration[3] = "hardening"
        /\ Migration[4] = "reconcile" /\ Migration[5] = "restore" /\ Migration[6] = "explicit"
    BY DEF Migration
  <2> HIDE DEF Migration
  <2>2. i = 1 \/ i = 2 \/ i = 3 \/ i = 4 \/ i = 5
    OBVIOUS
  <2> QED BY <1>1, <2>1, <2>2
<1>3. a \in MigrationStep \ {"none"}
  BY <1>2 DEF MigrationStep
<1>4. LegacyTypes /\ task \in TaskRow /\ judged \in BOOLEAN
  BY DEF LegacyIInv, LegacyTypes
<1>5. j = (judged \/ (a = "reconcile" /\ Exists /\ Legacy(task))) /\ j \in BOOLEAN
  <2>1. Legacy(task) \in BOOLEAN
    BY <1>4 DEF Legacy, LegacyTypes, TaskRow
  <2> QED BY <1>1, <1>4, <2>1
<1>6. CASE ~Exists
  <2>1. s = NoTask
    BY <1>1, <1>6 DEF Exists
  <2>2. meant = [f \in Field |-> Unknown] /\ author = Nobody
    BY <1>6 DEF LegacyIInv, LegacyTypes, Exists
  <2>3. meant["assignee"] = Unknown /\ meant["creator"] = Unknown /\ author \notin Staff
    BY <2>2, LegacyAssumption DEF Field
  <2>4. \A f \in Field : BornDecided(s, f)
    BY <2>1, BareTask DEF BornDecided
  <2>5. s \in TaskRow /\ (\A f \in Field : ~s.changed[f] /\ s.notes[f] = {}) /\ (s.born => s.lines)
    BY <2>1, BareTask
  <2>6. Traced(s) /\ \A reasons : Unnoted(s, reasons)
    BY <1>4, <2>3, <2>4, <2>5, LegacyAssumption, BareTraced
  <2>7. \A f \in Field : GuessNoted(s, f)
    BY <2>1, BareTask DEF GuessNoted
  <2>8. Contradicted(s) = {}
    BY <2>5 DEF Contradicted, Noted, Field
  <2>9. a \in {"work", "hardening"} => ~j
    BY <1>2, <1>5, <1>6 DEF LegacyIInv, Reached
  <2> QED BY <1>3, <1>5, <2>5, <2>6, <2>7, <2>8, <2>9 DEF Reached
<1>7. CASE Exists
  <2>1. s = Apply(a, task)
    BY <1>1, <1>7
  <2>2. applied # "none" => Reached(applied, judged, task)
    BY DEF LegacyIInv
  <2>3. CASE applied = "none" /\ a = "work"
    <3>1. s = WorkManagement(NoTask)
      BY <2>1, <2>3 DEF Apply, LegacyIInv
    <3>2. PICK assignee, creator \in Staff \cup {Nobody} :
              s = NewRow(assignee, creator, FALSE) /\ (author \in Staff => creator = author)
      BY <1>4, <3>1, WorkRow
    <3>3. /\ s \in TaskRow /\ s.creator = creator /\ ~s.lines /\ ~s.born
          /\ \A f \in Field : ~s.changed[f] /\ s.notes[f] = {}
      <4>1. PICK bare : bare = NewRow(assignee, creator, FALSE)
        OBVIOUS
      <4>2. /\ bare \in TaskRow /\ bare.creator = creator /\ bare.lines = FALSE /\ bare.born = FALSE
            /\ \A f \in Field : ~bare.changed[f] /\ bare.notes[f] = {}
        BY <4>1 DEF NewRow, TaskRow
      <4> QED BY <3>2, <4>1, <4>2
    <3>4. meant = [f \in Field |-> IF f = "creator" /\ author \in Staff THEN author ELSE Unknown] /\ ~judged
      BY <2>3 DEF LegacyIInv
    <3>5. meant["assignee"] = Unknown /\ meant["creator"] = IF author \in Staff THEN author ELSE Unknown
      BY <3>4 DEF Field
    <3>6. old
      BY <1>7, <2>3 DEF LegacyIInv, Exists
    <3>7. \A f \in Field : BornDecided(s, f)
      BY <3>6 DEF BornDecided
    <3>8. meant["creator"] \in {Unknown, s.creator} /\ meant["creator"] # Nobody
          /\ (author \in Staff => meant["creator"] = author /\ s.creator = author)
      BY <3>2, <3>3, <3>5, LegacyAssumption
    <3>9. Traced(s) /\ \A reasons : Unnoted(s, reasons)
      BY <1>4, <3>3, <3>5, <3>7, <3>8, BareTraced
    <3>10. ~j
      BY <1>5, <2>3, <3>4
    <3> QED BY <1>5, <2>3, <1>3, <3>3, <3>9, <3>10 DEF Reached
  <2>4. CASE applied = "work" /\ a = "hardening"
    <3>1. s = Hardening(task)
      BY <2>1, <2>4 DEF Apply
    <3>2. /\ Traced(task) /\ ~judged /\ Unnoted(task, {"KEPT", "REVERTED"})
          /\ Unnoted(task, {"ORIGIN_UNKNOWN"}) /\ Unnoted(task, {"UNDONE"})
      BY <2>2, <2>4 DEF Reached
    <3>3. SameButUnknown(task, s)
      BY <1>4, <3>1, <3>2, HardeningNotes
    <3>4. s \in TaskRow
      BY <3>3 DEF SameButUnknown, Alike
    <3>5. /\ Traced(s) /\ Unnoted(s, {"KEPT", "REVERTED"})
          /\ Unnoted(s, {"ORIGIN_UNKNOWN"}) /\ Unnoted(s, {"UNDONE"})
      BY <1>4, <3>2, <3>3, UnknownKeeps
    <3>6. ~j
      BY <1>5, <2>4, <3>2
    <3> QED BY <1>3, <1>5, <2>4, <3>4, <3>5, <3>6 DEF Reached
  <2>5. CASE applied = "hardening" /\ a = "reconcile"
    <3>1. s = Reconcile(task)
      BY <2>1, <2>5 DEF Apply
    <3>2. /\ Traced(task) /\ ~judged /\ Unnoted(task, {"KEPT", "REVERTED"})
          /\ Unnoted(task, {"ORIGIN_UNKNOWN"}) /\ Unnoted(task, {"UNDONE"})
      BY <2>2, <2>5 DEF Reached
    <3>3. /\ s \in TaskRow /\ Traced(s)
          /\ Unnoted(s, {"ORIGIN_UNKNOWN"}) /\ Unnoted(s, {"UNDONE"})
          /\ \A f \in Field : GuessNoted(s, f) \/ (~Legacy(task) /\ s.lines)
      BY <1>4, <3>1, <3>2, ReconcileTraced
    <3>4. j <=> Legacy(task)
      BY <1>5, <1>7, <2>5, <3>2
    <3>5. \A f \in Field : GuessNoted(s, f) \/ (~j /\ s.lines)
      BY <3>3, <3>4
    <3> QED BY <1>3, <1>5, <2>5, <3>3, <3>5 DEF Reached
  <2>6. CASE applied = "reconcile" /\ a = "restore"
    <3>1. s = Restore(task)
      BY <2>1, <2>6 DEF Apply
    <3>2. /\ Traced(task) /\ Unnoted(task, {"ORIGIN_UNKNOWN"}) /\ Unnoted(task, {"UNDONE"})
          /\ \A f \in Field : GuessNoted(task, f) \/ (~judged /\ task.lines)
      BY <2>2, <2>6 DEF Reached
    <3>3. /\ s \in TaskRow /\ Traced(s) /\ s.lines = task.lines /\ Unnoted(s, {"UNDONE"})
          /\ \A f \in Field : GuessNoted(task, f) => GuessNoted(s, f)
      BY <1>4, <3>1, <3>2, RestoreTraced
    <3>4. j <=> judged
      BY <1>5, <2>6
    <3>5. \A f \in Field : GuessNoted(s, f) \/ (~j /\ s.lines)
      BY <3>2, <3>3, <3>4
    <3> QED BY <1>3, <1>5, <2>6, <3>3, <3>5 DEF Reached
  <2>7. CASE applied = "restore" /\ a = "explicit"
    <3>1. s = ExplicitChanges(task)
      BY <2>1, <2>7 DEF Apply
    <3>2. /\ Traced(task) /\ Unnoted(task, {"UNDONE"})
          /\ \A f \in Field : GuessNoted(task, f) \/ (~judged /\ task.lines)
      BY <2>2, <2>7 DEF Reached
    <3>3. /\ s \in TaskRow /\ Traced(s) /\ s.lines = task.lines
          /\ \A n \in Contradicted(s) : n.detail # s.assignee
          /\ \A f \in Field : GuessNoted(task, f) => GuessNoted(s, f)
      BY <1>4, <3>1, <3>2, ExplicitTraced
    <3>4. j <=> judged
      BY <1>5, <2>7
    <3>5. \A f \in Field : GuessNoted(s, f) \/ (~j /\ s.lines)
      BY <3>2, <3>3, <3>4
    <3> QED BY <1>3, <1>5, <2>7, <3>3, <3>5 DEF Reached
  <2> QED BY <1>2, <2>3, <2>4, <2>5, <2>6, <2>7
<1> QED BY <1>6, <1>7

\* Where the history does not change, what is said of a row is said of it after the step.
LEMMA ReachedNext ==
    ASSUME NEW s, s = task', NEW a, a = applied', NEW j, j = judged', Reached(a, j, s), UNCHANGED <<author, meant>>, old => old'
    PROVE  Reached(applied, judged, task)'
<1>1. Changes(s) => Changes(task)'
  BY DEF Changes
<1>2. \A f : \A reasons : Noted(task, f, reasons)' = Noted(s, f, reasons)
  BY DEF Noted
<1>3. \A f \in Field : (Withdrawn(s, f) => Withdrawn(task, f)') /\ (BornDecided(s, f) => BornDecided(task, f)')
  BY <1>2 DEF Withdrawn, BornDecided
<1>4. \A f, reason : KeptBy(task, f, reason)' <=> KeptBy(s, f, reason)
  BY <1>2 DEF KeptBy
<1>5. CreatorKnown(s) => CreatorKnown(task)'
  BY <1>2, <1>4 DEF CreatorKnown
<1>6. Contradicted(task)' = Contradicted(s)
  BY <1>2 DEF Contradicted
<1>7. AssigneeKnown(s) => AssigneeKnown(task)'
  BY <1>4, <1>6 DEF AssigneeKnown
<1>8. \A f \in Field : FieldTraced(s, f) => FieldTraced(task, f)'
  BY <1>3, <1>5, <1>7 DEF FieldTraced
<1>9. Traced(s) => Traced(task)'
  BY <1>1, <1>8 DEF Traced
<1>10. \A f \in Field : GuessNoted(s, f) => GuessNoted(task, f)'
  BY <1>2 DEF GuessNoted
<1>11. \A reasons : Unnoted(s, reasons) => Unnoted(task, reasons)'
  BY <1>2 DEF Unnoted
<1> QED BY <1>6, <1>9, <1>10, <1>11 DEF Reached

LEMMA MigrateOk == LegacyIInv /\ Migrate => LegacyIInv'
<1> SUFFICES ASSUME LegacyIInv, Migrate PROVE LegacyIInv'
  OBVIOUS
<1>1. PICK s : s = task'
  OBVIOUS
<1>2. PICK a : a = applied'
  OBVIOUS
<1>3. PICK j : j = judged'
  OBVIOUS
<1>4. a \in MigrationStep \ {"none"} /\ j \in BOOLEAN /\ Reached(a, j, s)
  BY <1>1, <1>2, <1>3, MigrateReached
<1>5. UNCHANGED <<old, dated, author, meant>>
  BY DEF Migrate
<1>6. Reached(applied, judged, task)'
  BY <1>1, <1>2, <1>3, <1>4, <1>5, ReachedNext
<1>7. s \in TaskRow
  BY <1>4 DEF Reached
<1>8. LegacyTypes'
  BY <1>1, <1>2, <1>3, <1>4, <1>5, <1>7 DEF LegacyIInv, LegacyTypes
<1>9. ~old /\ Exists => s # NoTask
  <2>1. SUFFICES ASSUME ~old, Exists, s = NoTask PROVE FALSE
    OBVIOUS
  <2>2. CreatorKnown(s)
    BY <1>4 DEF Reached, Traced, FieldTraced, Field
  <2>3. s.creator = Nobody /\ s.notes["creator"] = {}
    BY <2>1, BareTask DEF Field
  <2>4. ~KeptBy(s, "creator", "REVERTED")
    BY <2>3 DEF KeptBy, Noted
  <2> QED BY <2>1, <2>2, <2>3, <2>4 DEF CreatorKnown, LegacyIInv
<1>10. ~Exists => s = task
  BY <1>1 DEF Migrate
<1>11. Exists' <=> Exists
  BY <1>1, <1>5, <1>9, <1>10 DEF Exists
<1>12. applied' # "none"
  BY <1>2, <1>4
<1> QED BY <1>5, <1>6, <1>8, <1>11, <1>12 DEF LegacyIInv

\* A line of history or a comment changes nothing that is traced.
LEMMA UseOk == ASSUME LegacyIInv, NEW comments \in BOOLEAN, Use(comments) PROVE LegacyIInv'
<1>1. PICK s : s = task'
  OBVIOUS
<1>2. applied # "none" /\ Exists /\ task \in TaskRow /\ Reached(applied, judged, task)
  BY SinceFacts DEF Use, LegacyIInv, LegacyTypes
<1>3. UNCHANGED <<applied, old, dated, author, meant, judged>>
  BY DEF Use
<1>4. /\ s \in TaskRow /\ s.assignee = task.assignee /\ s.creator = task.creator /\ s.changed = task.changed
      /\ s.notes = task.notes /\ s.born = task.born /\ (task.lines => s.lines)
  <2>1. CASE comments
    BY <1>1, <1>2, <2>1 DEF Use, TaskRow
  <2>2. CASE ~comments
    BY <1>1, <1>2, <2>2 DEF Use, TaskRow
  <2> QED BY <2>1, <2>2
<1>5. \A f \in Field : s[f] = task[f]
  BY <1>4 DEF Field
<1>6. \A f : \A reasons : Noted(s, f, reasons) = Noted(task, f, reasons)
  BY <1>4 DEF Noted
<1>7. Traced(task)
  BY <1>2 DEF Reached
<1>8. Changes(s)
  BY <1>4, <1>7 DEF Traced, Changes
<1>9. \A f \in Field : (Withdrawn(task, f) => Withdrawn(s, f)) /\ (BornDecided(task, f) => BornDecided(s, f))
  BY <1>4, <1>5, <1>6 DEF Withdrawn, BornDecided
<1>10. \A f, reason : KeptBy(s, f, reason) <=> KeptBy(task, f, reason)
  BY <1>6 DEF KeptBy
<1>11. CreatorKnown(task) => CreatorKnown(s)
  BY <1>4, <1>6, <1>10 DEF CreatorKnown
<1>12. Contradicted(s) = Contradicted(task)
  BY <1>6 DEF Contradicted
<1>13. AssigneeKnown(task) => AssigneeKnown(s)
  BY <1>4, <1>10, <1>12 DEF AssigneeKnown
<1>14. \A f \in Field : FieldTraced(task, f) => FieldTraced(s, f)
  BY <1>4, <1>9, <1>11, <1>13 DEF FieldTraced
<1>15. Traced(s)
  BY <1>7, <1>8, <1>14 DEF Traced
<1>16. \A f \in Field : GuessNoted(task, f) => GuessNoted(s, f)
  BY <1>5, <1>6 DEF GuessNoted
<1>17. \A reasons : Unnoted(task, reasons) => Unnoted(s, reasons)
  BY <1>6 DEF Unnoted
<1>18. Reached(applied, judged, s)
  BY <1>2, <1>4, <1>12, <1>15, <1>16, <1>17 DEF Reached
<1>19. PICK a, j : a = applied' /\ j = judged'
  OBVIOUS
<1>20. Reached(applied, judged, task)'
  BY <1>1, <1>3, <1>18, <1>19, ReachedNext
<1>21. LegacyTypes'
  BY <1>1, <1>3, <1>4 DEF LegacyIInv, LegacyTypes
<1>22. s # NoTask
  <2>1. CASE comments
    <3>1. s.comment /\ ~NoTask.comment
      BY <1>1, <1>2, <2>1 DEF Use, TaskRow, NoTask, NewRow
    <3> QED BY <3>1
  <2>2. CASE ~comments
    <3>1. s.lines
      BY <1>1, <1>2, <2>2 DEF Use, TaskRow
    <3> QED BY <3>1, BareTask
  <2> QED BY <2>1, <2>2
<1>23. Exists'
  BY <1>1, <1>22 DEF Exists
<1>24. (~old /\ Exists)' => (meant["creator"] # Unknown)'
  BY <1>2, <1>3 DEF LegacyIInv
<1>25. applied' # "none"
  BY <1>2, <1>3
<1> QED BY <1>20, <1>21, <1>23, <1>24, <1>25 DEF LegacyIInv

LEMMA RecordHistoryOk == LegacyIInv /\ RecordHistory => LegacyIInv'
<1> SUFFICES ASSUME LegacyIInv, RecordHistory PROVE LegacyIInv'
  OBVIOUS
<1>1. PICK s, a, j : s = task' /\ a = applied' /\ j = judged'
  OBVIOUS
<1>2. applied # "none" /\ Reached(applied, judged, task) /\ LegacyTypes
  BY SinceFacts DEF RecordHistory, LegacyIInv, LegacyTypes
<1>3. UNCHANGED <<applied, author, task, meant, judged>> /\ dated' = TRUE /\ old' = Exists
  BY DEF RecordHistory
<1>4. Reached(a, j, s)
  BY <1>1, <1>2, <1>3
<1>5. old => old'
  BY <1>3 DEF Exists
<1>6. Reached(applied, judged, task)'
  BY <1>1, <1>3, <1>4, <1>5, ReachedNext
<1>7. LegacyTypes'
  <2>1. old' \in BOOLEAN
    BY <1>2, <1>3 DEF Exists, LegacyTypes
  <2> QED BY <1>2, <1>3, <1>5, <2>1 DEF LegacyTypes
<1>8. Exists' <=> Exists
  BY <1>3 DEF Exists
<1> QED BY <1>2, <1>3, <1>6, <1>7, <1>8 DEF LegacyIInv

\* A task of V1.0 has its creator and its assignee from the person who creates it.
LEMMA CreateOk ==
    ASSUME LegacyIInv, NEW assignee \in Staff \cup {Nobody}, NEW creator \in Staff, NEW copied \in BOOLEAN,
           Create(assignee, creator, copied)
    PROVE  LegacyIInv'
<1>1. applied # "none" /\ ~Exists /\ LegacyTypes
  BY SinceFacts DEF Create, LegacyIInv, LegacyTypes
<1>2. UNCHANGED <<applied, old, dated, author, judged>>
  BY DEF Create
<1>3. /\ task' \in TaskRow /\ task'.assignee = assignee /\ task'.creator = creator
      /\ (task'.born => task'.lines) /\ \A f \in Field : ~task'.changed[f] /\ task'.notes[f] = {}
  BY DEF Create, NewRow, TaskRow
<1>4. /\ meant' \in [Field -> Staff \cup {Nobody, Unknown}]
      /\ meant'["creator"] = creator /\ meant'["assignee"] = IF assignee = Nobody THEN Unknown ELSE assignee
  BY DEF Create, Field
<1>5. author \notin Staff /\ ~old /\ author = Nobody
  BY <1>1, LegacyAssumption DEF Exists, LegacyTypes
<1>6. LegacyTypes'
  BY <1>1, <1>2, <1>3, <1>4 DEF LegacyTypes
<1>7. \A f \in Field : \A reasons : Noted(task, f, reasons)' = {}
  BY <1>3 DEF Noted
<1>8. Contradicted(task)' = {}
  BY <1>7 DEF Contradicted, Field
<1>9. Changes(task)'
  BY <1>3 DEF Changes, Field
<1>10. CreatorKnown(task)'
  BY <1>2, <1>3, <1>4, <1>5, LegacyAssumption DEF CreatorKnown
<1>11. AssigneeKnown(task)'
  BY <1>3, <1>4, <1>8 DEF AssigneeKnown
<1>12. \A f \in Field : (meant[f] = Unknown => task[f] = Nobody)'
  BY <1>3, <1>4, LegacyAssumption DEF Field
<1>13. \A f \in Field : Withdrawn(task, f)' /\ BornDecided(task, f)' /\ GuessNoted(task, f)'
  BY <1>7, <1>12 DEF Withdrawn, BornDecided, GuessNoted
<1>14. Traced(task)'
  BY <1>3, <1>9, <1>10, <1>11, <1>13 DEF Traced, FieldTraced
<1>15. \A reasons : Unnoted(task, reasons)'
  BY <1>7 DEF Unnoted
<1>16. applied \in {"work", "hardening"} => ~judged
  BY <1>1 DEF LegacyIInv, Reached
<1>17. Reached(applied, judged, task)'
  BY <1>2, <1>3, <1>8, <1>13, <1>14, <1>15, <1>16 DEF Reached
<1>18. task' # NoTask
  BY <1>3, BareTask, LegacyAssumption
<1>19. Exists' /\ meant'["creator"] # Unknown
  BY <1>4, <1>18, LegacyAssumption DEF Exists
<1> QED BY <1>1, <1>2, <1>6, <1>17, <1>19 DEF LegacyIInv

\* Who is assigned is a decision; the notes on the assignee have a line after them.
LEMMA AssignOk ==
    ASSUME LegacyIInv, NEW p \in Staff \cup {Nobody}, Assign(p)
    PROVE  LegacyIInv'
<1>0. "assignee" \in Field /\ "creator" \in Field /\ \A f \in Field : f = "assignee" \/ f = "creator"
  BY DEF Field
<1>1. applied # "none" /\ Exists /\ LegacyTypes /\ task \in TaskRow /\ Reached(applied, judged, task)
  BY SinceFacts DEF Assign, LegacyIInv, LegacyTypes
<1>2. UNCHANGED <<applied, old, dated, author, judged>>
  BY DEF Assign
<1>3. PICK notes : notes = {[n EXCEPT !.later = TRUE] : n \in task.notes["assignee"]}
  OBVIOUS
<1>4. task' = [task EXCEPT !.assignee = p, !.lines = TRUE, !.changed["assignee"] = TRUE, !.notes["assignee"] = notes]
  BY <1>3 DEF Assign
<1>5. notes \subseteq NoteRow /\ \A n \in notes : n.later /\ \E m \in task.notes["assignee"] : n = [m EXCEPT !.later = TRUE]
  <2>1. task.notes["assignee"] \subseteq NoteRow
    BY <1>0, <1>1, FieldTypes
  <2>2. \A m \in NoteRow : [m EXCEPT !.later = TRUE] \in NoteRow /\ [m EXCEPT !.later = TRUE].later
    BY DEF NoteRow
  <2> QED BY <1>3, <2>1, <2>2
<1>6. ASSUME NEW n \in notes
      PROVE  \E m \in task.notes["assignee"] : n.reason = m.reason /\ n.detail = m.detail
  <2>1. PICK m \in task.notes["assignee"] : n = [m EXCEPT !.later = TRUE]
    BY <1>5
  <2>2. m \in NoteRow
    BY <1>0, <1>1, FieldTypes
  <2>3. n.reason = m.reason /\ n.detail = m.detail
    BY <2>1, <2>2 DEF NoteRow
  <2> QED BY <2>3
<1>7. /\ task' \in TaskRow /\ task'.assignee = p /\ task'.creator = task.creator /\ task'.lines /\ task'.born = task.born
      /\ task'.changed["assignee"] /\ task'.changed["creator"] = task.changed["creator"]
      /\ task'.notes["creator"] = task.notes["creator"] /\ task'.notes["assignee"] = notes
  BY <1>1, <1>4, <1>5 DEF TaskRow, Field
<1>8. /\ meant' \in [Field -> Staff \cup {Nobody, Unknown}]
      /\ meant'["assignee"] = p /\ meant'["creator"] = meant["creator"]
  BY <1>0, <1>1 DEF Assign, LegacyTypes
<1>9. p # Unknown
  BY LegacyAssumption
<1>10. LegacyTypes'
  BY <1>1, <1>2, <1>7, <1>8 DEF LegacyTypes
<1>11. Traced(task) /\ FieldTraced(task, "creator") /\ FieldTraced(task, "assignee") /\ Changes(task)
  BY <1>0, <1>1 DEF Reached, Traced
<1>12. \A reasons : Noted(task, "creator", reasons)' = Noted(task, "creator", reasons)
  BY <1>7 DEF Noted
<1>13. \A reasons : Noted(task, "assignee", reasons) = {} => (Noted(task, "assignee", reasons) = {})'
  BY <1>6, <1>7 DEF Noted
<1>14. Contradicted(task)' = {}
  BY <1>5, <1>7 DEF Contradicted, Noted
<1>15. Changes(task)'
  BY <1>7, <1>8, <1>9, <1>11 DEF Changes
<1>16. FieldTraced(task, "creator")'
  <2>1. (\A n \in task.notes["creator"] : n.earlier \/ n.later => task.changed["creator"])'
    BY <1>7, <1>11 DEF FieldTraced
  <2>2. Withdrawn(task, "creator")' /\ BornDecided(task, "creator")'
    BY <1>2, <1>7, <1>8, <1>11, <1>12 DEF FieldTraced, Withdrawn, BornDecided
  <2>3. CreatorKnown(task)'
    BY <1>2, <1>7, <1>8, <1>11, <1>12 DEF FieldTraced, CreatorKnown, KeptBy
  <2> QED BY <2>1, <2>2, <2>3 DEF FieldTraced
<1>17. FieldTraced(task, "assignee")'
  <2>1. (\A n \in task.notes["assignee"] : n.earlier \/ n.later => task.changed["assignee"])'
    BY <1>7
  <2>2. Withdrawn(task, "assignee")'
    <3>1. \A n \in Noted(task, "assignee", {"REVERTED"})' : n.detail \in Staff
      BY <1>6, <1>7, <1>11 DEF FieldTraced, Withdrawn, Noted
    <3> QED BY <1>7, <1>8, <1>9, <3>1 DEF Withdrawn
  <2>3. BornDecided(task, "assignee")' /\ AssigneeKnown(task)'
    BY <1>7, <1>8, <1>9, <1>14 DEF BornDecided, AssigneeKnown
  <2> QED BY <2>1, <2>2, <2>3 DEF FieldTraced
<1>18. Traced(task)'
  BY <1>0, <1>15, <1>16, <1>17 DEF Traced
<1>19. \A reasons : Unnoted(task, reasons) => Unnoted(task, reasons)'
  BY <1>0, <1>12, <1>13 DEF Unnoted
<1>20. GuessNoted(task, "assignee")' /\ (GuessNoted(task, "creator") => GuessNoted(task, "creator")')
  BY <1>7, <1>8, <1>9, <1>12 DEF GuessNoted
<1>21. Reached(applied, judged, task)'
  BY <1>0, <1>1, <1>2, <1>7, <1>14, <1>18, <1>19, <1>20 DEF Reached
<1>22. task' # NoTask
  BY <1>7, BareTask
<1>23. Exists'
  BY <1>22 DEF Exists
<1>24. (~old /\ Exists)' => (meant["creator"] # Unknown)'
  BY <1>1, <1>2, <1>8 DEF LegacyIInv
<1> QED BY <1>1, <1>2, <1>10, <1>21, <1>23, <1>24 DEF LegacyIInv

LEMMA LegacyStep == LegacyIInv /\ [LegacyNext]_legacyVars => LegacyIInv'
<1> SUFFICES ASSUME LegacyIInv, [LegacyNext]_legacyVars PROVE LegacyIInv'
  OBVIOUS
<1>1. CASE Migrate
  BY <1>1, MigrateOk
<1>2. CASE RecordHistory
  BY <1>2, RecordHistoryOk
<1>3. CASE \E p \in Staff \cup {Nobody}, c \in Staff, copied \in BOOLEAN : Create(p, c, copied)
  BY <1>3, CreateOk
<1>4. CASE \E p \in Staff \cup {Nobody} : Assign(p)
  BY <1>4, AssignOk
<1>5. CASE \E comments \in BOOLEAN : Use(comments)
  BY <1>5, UseOk
<1>6. CASE UNCHANGED legacyVars
  <2>1. PICK s, a, j : s = task' /\ a = applied' /\ j = judged'
    OBVIOUS
  <2>2. applied # "none" => Reached(applied, judged, task)'
    BY <1>6, <2>1, ReachedNext DEF legacyVars, LegacyIInv
  <2>3. Exists' <=> Exists
    BY <1>6 DEF legacyVars, Exists
  <2>4. LegacyTypes'
    BY <1>6 DEF legacyVars, LegacyIInv, LegacyTypes
  <2> QED BY <1>6, <2>2, <2>3, <2>4 DEF legacyVars, LegacyIInv
<1> QED BY <1>1, <1>2, <1>3, <1>4, <1>5, <1>6 DEF LegacyNext

\* What the inductive invariant says of each part of LegacyInv.
LEMMA LegacyIInvHolds == LegacyIInv => LegacyInv
<1> SUFFICES ASSUME LegacyIInv PROVE LegacyInv
  OBVIOUS
<1>0. LegacyTypes /\ task \in TaskRow
  BY DEF LegacyIInv, LegacyTypes
<1>1. /\ Since("work") <=> applied # "none"
      /\ Since("reconcile") <=> applied \in {"reconcile", "restore", "explicit"}
      /\ Since("explicit") <=> applied = "explicit"
  BY <1>0, SinceFacts DEF LegacyTypes
<1>2. applied # "none" => Reached(applied, judged, task)
  BY DEF LegacyIInv
<1>3. DecisionsStand
  <2>1. SUFFICES ASSUME applied = "explicit", NEW f \in Field, meant[f] # Unknown, task[f] # meant[f]
                 PROVE  task[f] = Nobody /\ \E n \in Noted(task, f, {"UNDONE", "REVERTED"}) : n.detail = meant[f]
    BY <1>1 DEF DecisionsStand
  <2>2. FieldTraced(task, f) /\ \A n \in Contradicted(task) : n.detail # task.assignee
    BY <1>2, <2>1 DEF Reached, Traced
  <2>3. task[f] = Nobody /\ (KeptBy(task, f, "REVERTED") \/ KeptBy(task, f, "UNDONE"))
    <3>1. CASE f = "creator"
      BY <2>1, <2>2, <3>1 DEF FieldTraced, CreatorKnown
    <3>2. CASE f = "assignee"
      BY <2>1, <2>2, <3>2 DEF FieldTraced, AssigneeKnown
    <3> QED BY <3>1, <3>2 DEF Field
  <2> QED BY <2>3 DEF KeptBy, Noted
<1>4. InferredIsNoted
  <2>1. SUFFICES ASSUME judged \/ (dated /\ Since("reconcile") /\ ~task.lines), NEW f \in Field
                 PROVE  GuessNoted(task, f)
    BY DEF InferredIsNoted, GuessNoted
  <2>2. applied # "none"
    BY <1>1, <2>1 DEF LegacyIInv
  <2>3. applied \in {"reconcile", "restore", "explicit"}
    <3>1. judged => applied \notin {"work", "hardening"}
      BY <1>2, <2>2 DEF Reached
    <3> QED BY <1>0, <1>1, <2>1, <2>2, <3>1 DEF LegacyTypes, MigrationStep
  <2> QED BY <1>2, <2>1, <2>2, <2>3 DEF Reached
<1>5. Idempotent
  BY <1>0, AppliedTwice DEF Idempotent
<1> QED BY <1>3, <1>4, <1>5 DEF LegacyInv

\* The inductive invariant of the migrations: where every value of the task comes from,
\* whatever the order of migrations, changes, comments and the record of the history.
THEOREM LegacyInvariant == LegacySpec => []LegacyIInv
<1> QED BY InitReached, LegacyStep, PTL DEF LegacySpec

\* Once all is applied a decision stands or a note keeps it, a value nobody decided is noted
\* or gone, and each corrective migration applied twice does what it does once.
THEOREM LegacyHolds == LegacySpec => []LegacyInv
<1> QED BY LegacyInvariant, LegacyIInvHolds, PTL
=============================================================================
