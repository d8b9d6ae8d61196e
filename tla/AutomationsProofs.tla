-------------------------- MODULE AutomationsProofs ---------------------------
(***************************************************************************)
(* Proofs about Automations, for any number of requests, tasks, projects   *)
(* and rules.                                                              *)
(*                                                                         *)
(* A level of the stack of a request handles events whose chain is the     *)
(* rules of the levels below it, its own included.                         *)
(***************************************************************************)
EXTENDS Automations, SequenceTheorems, TLAPS

Book == [trigger : Trigger, to : Status \cup {AnyStatus}, project : Project \cup {NoProject}, actions : Seq(Status)]
Event == [id : Request \X Nat, type : Trigger, task : Task, project : Project \cup {NoProject}, to : Status,
          depth : Nat, chain : Seq(Rule)]
EventKey == (Request \X Nat) \X (Project \cup {NoProject})
Work == [rule : Rule, event : Event, key : EventKey, todo : Seq(Status), outcome : {"SUCCESS", "ERROR"}]

Asked == [kind : {"change", "emit"}, task : Task, to : Status]
Written == [kind : {"write"}, task : Task, to : Status, seen : Nat]
Processed == [kind : {"process"}, events : Seq(Event), todo : SUBSET (Nat \X Nat)]
Level == [work : {User} \cup Work, doing : {Idle} \cup Asked \cup Written \cup Processed]

\* Level n of s is now l.
Put(s, n, l) == [s EXCEPT ![n] = l]

\* The rules of the n levels above the user's.
Chained(s, n) == [j \in 1..n |-> s[j + 1].work.rule]

\* An event handled at level i of s.
Descends(s, i, e) == e.chain = Chained(s, i - 1) /\ e.depth = i - 1

Placed(s, i) ==
    /\ i = 1 => s[i].work = User /\ s[i].doing.kind # "idle"
    /\ i > 1 => /\ s[i].work \in Work /\ Descends(s, i - 1, s[i].work.event)
                /\ s[i].work.rule \notin ToSet(s[i].work.event.chain)
                /\ i <= MaxDepth + 1

\* The pairs left are places of events and rules that concern each other, by the book b.
InScope(b, f) ==
    /\ f.todo \subseteq (DOMAIN f.events) \X (DOMAIN RuleOrder)
    /\ \A x \in f.todo : \/ b[RuleOrder[x[2]]].project = NoProject
                         \/ f.events[x[1]].project \in {NoProject, b[RuleOrder[x[2]]].project}

Follows(b, s, i, f) ==
    f.kind = "process" => InScope(b, f) /\ \A k \in DOMAIN f.events : Descends(s, i, f.events[k])

StackOK(b, s) ==
    /\ s \in Seq(Level)
    /\ \A i \in 1..Len(s) : /\ Placed(s, i) /\ Follows(b, s, i, s[i].doing)
                            /\ i < Len(s) => s[i].doing.kind = "process"

\* The events of a stack, and the runs at work in it.
Live(s) ==
    {e \in Event : \E i \in 1..Len(s) : s[i].doing.kind = "process" /\ \E k \in DOMAIN s[i].doing.events :
                      s[i].doing.events[k] = e}
Working(s) == {<<s[i].work.rule, s[i].work.key>> : i \in 2..Len(s)}

\* s becomes t, which handles the events of s or fewer, with the same runs at work.
Keeps(b, s, t) == StackOK(b, t) /\ Working(t) = Working(s) /\ Live(t) \subseteq Live(s)

-----------------------------------------------------------------------------
(* Stacks.                                                                 *)

\* What a stack is, with its height.
LEMMA StackFacts ==
    ASSUME NEW b, NEW s, StackOK(b, s), s # <<>>
    PROVE  \E n \in Nat : /\ n = Len(s) /\ n > 0 /\ Last(s) = s[n] /\ Last(s) \in Level
                          /\ \A i \in 1..n : /\ s[i] \in Level /\ Placed(s, i) /\ Follows(b, s, i, s[i].doing)
                                             /\ i < n => s[i].doing.kind = "process"
<1>1. s \in Seq(Level) /\ Len(s) \in Nat /\ Len(s) > 0
  BY DEF StackOK
<1>2. \A i \in 1..Len(s) : s[i] \in Level
  BY <1>1
<1>3. Len(s) \in 1..Len(s)
  BY <1>1
<1> QED BY <1>1, <1>2, <1>3 DEF StackOK, Last

LEMMA ChainBelow ==
    ASSUME NEW b, NEW s, StackOK(b, s), s # <<>>, NEW n, n = Len(s)
    PROVE  /\ Chain(Last(s).work) = Chained(s, n - 1)
           /\ Depth(Last(s).work) = n - 1
           /\ Last(s).work.rule = "none" <=> n = 1
<1>1. n \in Nat /\ n > 0 /\ Last(s) = s[n] /\ Placed(s, n)
  <2>1. PICK m \in Nat : m = Len(s) /\ m > 0 /\ Last(s) = s[m] /\ \A i \in 1..m : Placed(s, i)
    BY StackFacts
  <2> QED BY <2>1
<1>2. CASE n = 1
  <2>1. Last(s).work = User
    BY <1>1, <1>2 DEF Placed
  <2>2. Chained(s, 0) = <<>>
    BY DEF Chained
  <2> QED BY <1>2, <2>1, <2>2 DEF User, Chain, Depth
<1>3. CASE n > 1
  <2> DEFINE w == Last(s).work
  <2>1. w \in Work /\ w.event.chain = Chained(s, n - 2) /\ w.event.depth = n - 2 /\ w.event.chain \in Seq(Rule)
    BY <1>1, <1>3 DEF Placed, Descends, Work, Event
  <2>2. w.rule \in Rule /\ w.rule # "none"
    BY <2>1, AutomationAssumption DEF Work
  <2>3. n - 1 \in Nat /\ n - 2 \in Nat /\ w.rule = s[n].work.rule
    BY <1>1, <1>3
  <2> HIDE DEF w
  <2>4. Append(Chained(s, n - 2), w.rule) = Chained(s, n - 1)
    <3> DEFINE c == Chained(s, n - 2)
    <3>1. c \in Seq(Rule) /\ Len(c) = n - 2 /\ \A j \in 1..(n - 2) : c[j] = s[j + 1].work.rule
      BY <2>1, <2>3 DEF Chained
    <3> HIDE DEF c
    <3>2. /\ DOMAIN Append(c, w.rule) = 1..(n - 1)
          /\ \A j \in 1..(n - 1) : Append(c, w.rule)[j] = s[j + 1].work.rule
      BY <2>2, <2>3, <3>1, AppendProperties
    <3>3. Append(c, w.rule) = [j \in 1..(n - 1) |-> Append(c, w.rule)[j]]
      <4>1. Append(c, w.rule) \in Seq(Rule) /\ Len(Append(c, w.rule)) = n - 1
        BY <2>2, <2>3, <3>1, AppendProperties
      <4> QED BY <4>1, IsASeq
    <3> QED BY <3>2, <3>3 DEF Chained, c
  <2>5. Chain(w) = Chained(s, n - 1) /\ Depth(w) = n - 1
    BY <2>1, <2>2, <2>3, <2>4 DEF Chain, Depth
  <2> QED BY <1>3, <2>2, <2>5 DEF w
<1> QED BY <1>1, <1>2, <1>3

\* A change of what the top level does, or of what is left of its run.
LEMMA TopReplaced ==
    ASSUME NEW b, NEW s, StackOK(b, s), s # <<>>, NEW n, n = Len(s), NEW l \in Level,
           \/ l.work = Last(s).work
           \/ /\ n > 1 /\ l.work \in Work
              /\ l.work.rule = Last(s).work.rule /\ l.work.event = Last(s).work.event
              /\ l.work.key = Last(s).work.key,
           n = 1 => l.doing.kind # "idle",
           Follows(b, s, n, l.doing)
    PROVE  /\ StackOK(b, Put(s, n, l)) /\ Put(s, n, l) # <<>>
           /\ Len(Put(s, n, l)) = n /\ Last(Put(s, n, l)) = l
           /\ Working(Put(s, n, l)) = Working(s)
           /\ Live(Put(s, n, l)) \subseteq
                 Live(s) \cup (IF l.doing.kind = "process" THEN ToSet(l.doing.events) ELSE {})
<1> DEFINE t == Put(s, n, l)
<1>1. /\ n \in Nat /\ n > 0 /\ Last(s) = s[n]
      /\ \A i \in 1..n : /\ s[i] \in Level /\ Placed(s, i) /\ Follows(b, s, i, s[i].doing)
                         /\ i < n => s[i].doing.kind = "process"
  <2>1. PICK m \in Nat : /\ m = Len(s) /\ m > 0 /\ Last(s) = s[m]
                         /\ \A i \in 1..m : /\ s[i] \in Level /\ Placed(s, i) /\ Follows(b, s, i, s[i].doing)
                                            /\ i < m => s[i].doing.kind = "process"
    BY StackFacts
  <2> QED BY <2>1
<1>2. t \in Seq(Level) /\ Len(t) = n /\ \A j \in 1..n : t[j] = IF j = n THEN l ELSE s[j]
  <2>1. s \in Seq(Level) /\ n \in 1..Len(s)
    BY <1>1 DEF StackOK
  <2> QED BY <2>1, ExceptSeq DEF Put
<1> HIDE DEF t
<1>3. /\ \A j \in 1..n : t[j].work.rule = s[j].work.rule
      /\ \A j \in 2..n : t[j].work.key = s[j].work.key
  BY <1>1, <1>2
<1>4. \A i \in 0..(n - 1) : Chained(t, i) = Chained(s, i)
  BY <1>1, <1>3 DEF Chained
<1>5. \A i \in 1..n : \A e : Descends(t, i, e) <=> Descends(s, i, e)
  <2> SUFFICES ASSUME NEW i \in 1..n, NEW e PROVE Descends(t, i, e) <=> Descends(s, i, e)
    OBVIOUS
  <2>1. i - 1 \in 0..(n - 1)
    BY <1>1
  <2> QED BY <1>4, <2>1 DEF Descends
<1>6. ASSUME NEW i \in 1..n
      PROVE  /\ Placed(t, i) /\ Follows(b, t, i, t[i].doing)
             /\ i < n => t[i].doing.kind = "process"
  <2>1. Placed(s, i) /\ Follows(b, s, i, s[i].doing) /\ (i < n => s[i].doing.kind = "process")
    BY <1>1
  <2>2. Follows(b, s, i, t[i].doing) /\ (i < n => t[i].doing.kind = "process")
    BY <1>1, <1>2, <2>1
  <2>3. Follows(b, t, i, t[i].doing)
    BY <1>5, <2>2 DEF Follows
  <2>4. CASE i = 1
    <3>1. s[1].work = User /\ s[1].doing.kind # "idle"
      BY <2>1, <2>4 DEF Placed
    <3>2. t[1].work = User /\ t[1].doing.kind # "idle"
      BY <1>1, <1>2, <2>4, <3>1
    <3> QED BY <2>2, <2>3, <2>4, <3>2 DEF Placed
  <2>5. CASE i > 1
    <3>1. s[i].work \in Work /\ Descends(s, i - 1, s[i].work.event)
          /\ s[i].work.rule \notin ToSet(s[i].work.event.chain) /\ i <= MaxDepth + 1
      BY <2>1, <2>5 DEF Placed
    <3>2. t[i].work \in Work /\ t[i].work.rule = s[i].work.rule /\ t[i].work.event = s[i].work.event
      BY <1>1, <1>2, <3>1
    <3>3. Descends(t, i - 1, t[i].work.event)
      <4>1. i - 1 \in 1..n
        BY <1>1, <2>5
      <4> QED BY <1>5, <3>1, <3>2, <4>1
    <3> QED BY <2>2, <2>3, <2>5, <3>1, <3>2, <3>3 DEF Placed
  <2>6. i = 1 \/ i > 1
    BY <1>1
  <2> QED BY <2>4, <2>5, <2>6
<1>7. StackOK(b, t)
  BY <1>2, <1>6 DEF StackOK
<1>8. Working(t) = Working(s)
  BY <1>1, <1>2, <1>3 DEF Working
<1>9. Live(t) \subseteq Live(s) \cup (IF l.doing.kind = "process" THEN ToSet(l.doing.events) ELSE {})
  BY <1>1, <1>2 DEF Live, ToSet
<1>10. t # <<>> /\ Last(t) = l
  BY <1>1, <1>2 DEF Last
<1> QED BY <1>2, <1>7, <1>8, <1>9, <1>10 DEF t

LEMMA Pushed ==
    ASSUME NEW b, NEW s, StackOK(b, s), s # <<>>, NEW n, n = Len(s), Last(s).doing.kind = "process",
           NEW l \in Level, l.work \in Work, l.doing.kind # "process",
           Descends(s, n, l.work.event), l.work.rule \notin ToSet(l.work.event.chain), n <= MaxDepth
    PROVE  /\ StackOK(b, Append(s, l))
           /\ Working(Append(s, l)) = Working(s) \cup {<<l.work.rule, l.work.key>>}
           /\ Live(Append(s, l)) \subseteq Live(s)
<1> DEFINE t == Append(s, l)
<1>1. /\ n \in Nat /\ n > 0 /\ Last(s) = s[n] /\ MaxDepth \in Nat
      /\ \A i \in 1..n : /\ s[i] \in Level /\ Placed(s, i) /\ Follows(b, s, i, s[i].doing)
                         /\ i < n => s[i].doing.kind = "process"
  <2>1. PICK m \in Nat : /\ m = Len(s) /\ m > 0 /\ Last(s) = s[m]
                         /\ \A i \in 1..m : /\ s[i] \in Level /\ Placed(s, i) /\ Follows(b, s, i, s[i].doing)
                                            /\ i < m => s[i].doing.kind = "process"
    BY StackFacts
  <2> QED BY <2>1, AutomationAssumption
<1>2. t \in Seq(Level) /\ Len(t) = n + 1 /\ t[n + 1] = l /\ \A j \in 1..n : t[j] = s[j]
  <2>1. s \in Seq(Level)
    BY DEF StackOK
  <2> QED BY <2>1, AppendProperties
<1> HIDE DEF t
<1>3. \A i \in 0..(n - 1) : Chained(t, i) = Chained(s, i)
  BY <1>1, <1>2 DEF Chained
<1>4. \A i \in 1..n : \A e : Descends(t, i, e) <=> Descends(s, i, e)
  <2> SUFFICES ASSUME NEW i \in 1..n, NEW e PROVE Descends(t, i, e) <=> Descends(s, i, e)
    OBVIOUS
  <2>1. i - 1 \in 0..(n - 1)
    BY <1>1
  <2> QED BY <1>3, <2>1 DEF Descends
<1>5. ASSUME NEW i \in 1..(n + 1)
      PROVE  /\ Placed(t, i) /\ Follows(b, t, i, t[i].doing)
             /\ i < n + 1 => t[i].doing.kind = "process"
  <2>1. CASE i = n + 1
    <3>1. Descends(t, n, l.work.event) /\ i - 1 = n /\ i > 1 /\ i <= MaxDepth + 1 /\ t[i] = l
      BY <1>1, <1>2, <1>4, <2>1
    <3> QED BY <2>1, <3>1 DEF Placed, Follows
  <2>2. CASE i \in 1..n
    <3>1. Placed(s, i) /\ Follows(b, s, i, s[i].doing) /\ (i < n => s[i].doing.kind = "process") /\ t[i] = s[i]
      BY <1>1, <1>2, <2>2
    <3>2. t[i].doing.kind = "process"
      BY <1>1, <1>2, <2>2, <3>1
    <3>3. Follows(b, t, i, t[i].doing)
      BY <1>4, <2>2, <3>1 DEF Follows
    <3>4. Placed(t, i)
      <4>1. CASE i = 1
        <5>1. t[1] = s[1]
          BY <3>1, <4>1
        <5> QED BY <3>1, <4>1, <5>1 DEF Placed
      <4>2. CASE i > 1
        <5>1. i - 1 \in 1..n
          BY <1>1, <2>2, <4>2
        <5>2. Descends(t, i - 1, s[i].work.event) <=> Descends(s, i - 1, s[i].work.event)
          BY <1>4, <5>1
        <5> QED BY <3>1, <4>2, <5>2 DEF Placed
      <4>3. i = 1 \/ i > 1
        BY <1>1, <2>2
      <4> QED BY <4>1, <4>2, <4>3
    <3> QED BY <3>2, <3>3, <3>4
  <2>3. i \in 1..n \/ i = n + 1
    BY <1>1
  <2> QED BY <2>1, <2>2, <2>3
<1>6. StackOK(b, t)
  BY <1>2, <1>5 DEF StackOK
<1>7. Working(t) = Working(s) \cup {<<l.work.rule, l.work.key>>}
  <2>1. 2..(n + 1) = 2..n \cup {n + 1}
    BY <1>1
  <2>2. \A i \in 2..n : t[i] = s[i]
    BY <1>1, <1>2
  <2> QED BY <1>2, <2>1, <2>2 DEF Working
<1>8. Live(t) \subseteq Live(s)
  BY <1>1, <1>2 DEF Live
<1> QED BY <1>6, <1>7, <1>8 DEF t

LEMMA Popped ==
    ASSUME NEW b, NEW s, StackOK(b, s), NEW n \in Nat, n + 1 = Len(s), n > 0
    PROVE  /\ StackOK(b, Front(s)) /\ Front(s) # <<>> /\ Len(Front(s)) = n
           /\ Last(Front(s)).doing.kind = "process"
           /\ Working(s) = Working(Front(s)) \cup {<<Last(s).work.rule, Last(s).work.key>>}
           /\ Live(Front(s)) \subseteq Live(s)
<1> DEFINE t == Front(s)
<1>1. /\ s # <<>> /\ Last(s) = s[n + 1]
      /\ \A i \in 1..(n + 1) : /\ s[i] \in Level /\ Placed(s, i) /\ Follows(b, s, i, s[i].doing)
                               /\ i < n + 1 => s[i].doing.kind = "process"
  <2>1. s # <<>>
    OBVIOUS
  <2>2. PICK m \in Nat : /\ m = Len(s) /\ m > 0 /\ Last(s) = s[m]
                         /\ \A i \in 1..m : /\ s[i] \in Level /\ Placed(s, i) /\ Follows(b, s, i, s[i].doing)
                                            /\ i < m => s[i].doing.kind = "process"
    BY <2>1, StackFacts
  <2> QED BY <2>1, <2>2
<1>2. t \in Seq(Level) /\ Len(t) = n /\ \A j \in 1..n : t[j] = s[j]
  <2>1. t = SubSeq(s, 1, n) /\ \A i \in 1..n : s[i] \in Level
    <3>1. (n + 1) - 1 = n
      OBVIOUS
    <3> QED BY <1>1, <3>1 DEF Front
  <2>2. /\ SubSeq(s, 1, n) \in Seq(Level)
        /\ Len(SubSeq(s, 1, n)) = n
        /\ \A i \in 1..n : SubSeq(s, 1, n)[i] = s[i]
    <3>1. 1 \in Int /\ n \in Int /\ n - 1 + 1 = n /\ 1 <= n /\ \A i \in 1..n : 1 + i - 1 = i
      OBVIOUS
    <3> QED BY <2>1, <3>1, SubSeqProperties
  <2> QED BY <2>1, <2>2
<1> HIDE DEF t
<1>3. \A i \in 0..(n - 1) : Chained(t, i) = Chained(s, i)
  BY <1>1, <1>2 DEF Chained
<1>4. \A i \in 1..n : \A e : Descends(t, i, e) <=> Descends(s, i, e)
  <2> SUFFICES ASSUME NEW i \in 1..n, NEW e PROVE Descends(t, i, e) <=> Descends(s, i, e)
    OBVIOUS
  <2>1. i - 1 \in 0..(n - 1)
    BY <1>1
  <2> QED BY <1>3, <2>1 DEF Descends
<1>5. ASSUME NEW i \in 1..n
      PROVE  Placed(t, i) /\ Follows(b, t, i, t[i].doing) /\ t[i].doing.kind = "process"
  <2>1. Placed(s, i) /\ Follows(b, s, i, s[i].doing) /\ s[i].doing.kind = "process" /\ t[i] = s[i]
    BY <1>1, <1>2
  <2>2. Follows(b, t, i, t[i].doing)
    BY <1>4, <2>1 DEF Follows
  <2>3. CASE i = 1
    <3>1. t[1] = s[1]
      BY <2>1, <2>3
    <3> QED BY <2>1, <2>2, <2>3, <3>1 DEF Placed
  <2>4. CASE i > 1
    <3>1. i - 1 \in 1..n
      BY <2>4
    <3>2. Descends(t, i - 1, s[i].work.event) <=> Descends(s, i - 1, s[i].work.event)
      BY <1>4, <3>1
    <3> QED BY <2>1, <2>2, <2>4, <3>2 DEF Placed
  <2>5. i = 1 \/ i > 1
    OBVIOUS
  <2> QED BY <2>3, <2>4, <2>5
<1>6. StackOK(b, t) /\ t # <<>> /\ Last(t).doing.kind = "process"
  <2>1. n \in 1..n
    OBVIOUS
  <2> QED BY <1>2, <1>5, <2>1 DEF StackOK, Last
<1>7. Working(s) = Working(t) \cup {<<Last(s).work.rule, Last(s).work.key>>}
  <2>1. 2..(n + 1) = 2..n \cup {n + 1}
    OBVIOUS
  <2>2. \A i \in 2..n : t[i] = s[i]
    BY <1>2
  <2> QED BY <1>1, <1>2, <2>1, <2>2 DEF Working
<1>8. Live(t) \subseteq Live(s)
  BY <1>1, <1>2 DEF Live
<1> QED BY <1>2, <1>6, <1>7, <1>8 DEF t

LEMMA Turned ==
    ASSUME NEW b, NEW s, StackOK(b, s), s # <<>>, NEW n, n = Len(s),
           NEW d, d \in {Idle} \cup Asked \cup Written \cup Processed,
           n = 1 => d.kind # "idle", Follows(b, s, n, d)
    PROVE  /\ StackOK(b, Turn(s, d)) /\ Turn(s, d) # <<>>
           /\ Len(Turn(s, d)) = n /\ Last(Turn(s, d)).work = Last(s).work /\ Last(Turn(s, d)).doing = d
           /\ Working(Turn(s, d)) = Working(s)
           /\ Live(Turn(s, d)) \subseteq Live(s) \cup (IF d.kind = "process" THEN ToSet(d.events) ELSE {})
<1> DEFINE l == [work |-> Last(s).work, doing |-> d]
<1>1. Last(s) \in Level /\ Last(s) = s[n]
  <2>1. PICK m \in Nat : m = Len(s) /\ Last(s) = s[m] /\ Last(s) \in Level
    BY StackFacts
  <2> QED BY <2>1
<1>2. l \in Level
  BY <1>1 DEF Level
<1>3. Turn(s, d) = Put(s, n, l)
  <2>1. [s[n] EXCEPT !.doing = d] = l
    BY <1>1 DEF Level
  <2> QED BY <2>1 DEF Turn, Put
<1>4. l.work = Last(s).work /\ l.doing = d
  OBVIOUS
<1> HIDE DEF l
<1>5. /\ n = 1 => l.doing.kind # "idle"
      /\ Follows(b, s, n, l.doing)
      /\ \/ l.work = Last(s).work
         \/ /\ n > 1 /\ l.work \in Work
            /\ l.work.rule = Last(s).work.rule /\ l.work.event = Last(s).work.event
            /\ l.work.key = Last(s).work.key
  BY <1>4
<1> QED BY <1>2, <1>3, <1>4, <1>5, TopReplaced

LEMMA TurnedTo ==
    ASSUME NEW b, NEW s, StackOK(b, s), s # <<>>, NEW d \in Asked \cup Written
    PROVE  Keeps(b, s, Turn(s, d)) /\ Turn(s, d) # <<>> /\ Last(Turn(s, d)).doing = d
<1>1. PICK n : n = Len(s)
  OBVIOUS
<1>2. d.kind # "process" /\ d.kind # "idle" /\ d \in {Idle} \cup Asked \cup Written \cup Processed
  BY DEF Asked, Written
<1>3. Follows(b, s, n, d)
  BY <1>2 DEF Follows
<1>4. /\ StackOK(b, Turn(s, d)) /\ Working(Turn(s, d)) = Working(s)
      /\ Turn(s, d) # <<>> /\ Last(Turn(s, d)).doing = d
      /\ Live(Turn(s, d)) \subseteq Live(s) \cup (IF d.kind = "process" THEN ToSet(d.events) ELSE {})
  BY <1>1, <1>2, <1>3, Turned
<1> QED BY <1>2, <1>4 DEF Keeps

LEMMA NotOne == ASSUME NEW n \in Nat, n > 1 PROVE n # 1
OBVIOUS

\* A run goes on.
LEMMA RunGoesOn ==
    ASSUME NEW b, NEW s, StackOK(b, s), s # <<>>, NEW n \in Nat, n = Len(s), n > 1,
           NEW l \in Level, l.work \in Work, l.doing.kind # "process",
           l.work.rule = Last(s).work.rule, l.work.event = Last(s).work.event, l.work.key = Last(s).work.key
    PROVE  Keeps(b, s, Put(s, n, l))
<1>1. n # 1 /\ Follows(b, s, n, l.doing)
  <2>1. n # 1
    BY NotOne
  <2> QED BY <2>1 DEF Follows
<1>2. /\ StackOK(b, Put(s, n, l)) /\ Working(Put(s, n, l)) = Working(s)
      /\ Live(Put(s, n, l)) \subseteq Live(s) \cup (IF l.doing.kind = "process" THEN ToSet(l.doing.events) ELSE {})
  BY <1>1, TopReplaced
<1> QED BY <1>2 DEF Keeps

LEMMA Settled ==
    ASSUME NEW b, NEW s, StackOK(b, s), s # <<>>
    PROVE  Keeps(b, s, Settle(s))
<1>1. CASE Len(s) = 1
  BY <1>1 DEF Settle, Keeps, StackOK, Working, Live
<1>2. CASE Len(s) # 1
  <2>1. PICK n : n = Len(s)
    OBVIOUS
  <2>2. /\ Follows(b, s, n, Idle) /\ Idle.kind # "process" /\ (n = 1 => Idle.kind # "idle")
        /\ Idle \in {Idle} \cup Asked \cup Written \cup Processed
    BY <1>2, <2>1 DEF Follows, Idle
  <2>3. Settle(s) = Turn(s, Idle)
    BY <1>2 DEF Settle
  <2>4. /\ StackOK(b, Turn(s, Idle)) /\ Working(Turn(s, Idle)) = Working(s)
        /\ Live(Turn(s, Idle)) \subseteq
              Live(s) \cup (IF Idle.kind = "process" THEN ToSet(Idle.events) ELSE {})
    BY <2>1, <2>2, Turned
  <2> QED BY <2>2, <2>3, <2>4 DEF Keeps
<1> QED BY <1>1, <1>2

LEMMA Threw ==
    ASSUME NEW b, NEW s, StackOK(b, s), s # <<>>
    PROVE  Keeps(b, s, Thrown(s))
<1>1. PICK n \in Nat : n = Len(s) /\ n > 0 /\ Last(s) = s[n] /\ Last(s) \in Level /\ Placed(s, n)
  BY StackFacts
<1>2. CASE n = 1
  BY <1>1, <1>2 DEF Thrown, Keeps, StackOK, Working, Live
<1>3. CASE n > 1
  <2>1. Last(s).work \in Work
    BY <1>1, <1>3 DEF Placed
  <2> DEFINE w == [Last(s).work EXCEPT !.todo = <<>>, !.outcome = "ERROR"]
             l == [work |-> w, doing |-> Idle]
  <2>2. w \in Work /\ w.rule = Last(s).work.rule /\ w.event = Last(s).work.event /\ w.key = Last(s).work.key
    <3>1. <<>> \in Seq(Status) /\ "ERROR" \in {"SUCCESS", "ERROR"}
      OBVIOUS
    <3> QED BY <2>1, <3>1 DEF Work
  <2>3. Thrown(s) = Put(s, n, l)
    BY <1>1, <1>3 DEF Thrown, Put
  <2> HIDE DEF w
  <2>4. l \in Level /\ l.work = w /\ l.doing = Idle
    BY <2>2 DEF Level
  <2> HIDE DEF l
  <2>5. l.doing.kind # "process"
    BY <2>4 DEF Idle
  <2>6. n = Len(s)
    BY <1>1
  <2> QED BY <1>3, <2>2, <2>3, <2>4, <2>5, <2>6, RunGoesOn
<1>4. n = 1 \/ n > 1
  BY <1>1
<1> QED BY <1>2, <1>3, <1>4

LEMMA GoesThrough ==
    ASSUME NEW b, NEW s, StackOK(b, s), s # <<>>, NEW events \in Seq(Event), NEW todo \in SUBSET (Nat \X Nat),
           Follows(b, s, Len(s), [kind |-> "process", events |-> events, todo |-> todo])
    PROVE  LET t == Process(s, events, todo) IN
           /\ StackOK(b, t) /\ Working(t) = Working(s) /\ Live(t) \subseteq Live(s) \cup ToSet(events)
<1>1. CASE todo = {}
  BY <1>1, Settled DEF Process, Keeps
<1>2. CASE todo # {}
  <2> DEFINE d == [kind |-> "process", events |-> events, todo |-> todo]
  <2>1. d \in Processed /\ d.kind = "process" /\ d.events = events
    BY DEF Processed
  <2>2. Process(s, events, todo) = Turn(s, d)
    BY <1>2 DEF Process
  <2> HIDE DEF d
  <2>3. Follows(b, s, Len(s), d)
    BY DEF d
  <2> QED BY <2>1, <2>2, <2>3, Turned
<1> QED BY <1>1, <1>2

-----------------------------------------------------------------------------
(* The invariant.                                                          *)

RunRow == [rule : Rule, key : EventKey, id : Request \X Nat, status : {"RUNNING", "SKIPPED", "SUCCESS", "ERROR"}]

Types ==
    /\ book \in [Rule -> Book] /\ projects \in Seq(Project)
    /\ status \in [Task -> Status] /\ version \in [Task -> Nat] /\ enabled \subseteq Rule
    /\ stack \in [Request -> Seq(Level)] /\ lastId \in [Request -> Nat]
    /\ runs \subseteq RunRow /\ world \in Nat

Stacks == \A q \in Request : StackOK(book, stack[q])

\* The events under way in a request have identifiers it gave, one task for each.
Ids ==
    \A q \in Request : \A e \in Live(stack[q]) :
        /\ e.id[1] = q /\ e.id[2] <= lastId[q]
        /\ e.project \in ToSet(ProjectsOf(e.task))
        /\ \A f \in Live(stack[q]) : f.id = e.id => f.task = e.task

\* The project in the key of a run of r for a change of t.
Where(r, t) == IF book[r].project = NoProject \/ t # Parent THEN NoProject ELSE book[r].project

Keys ==
    \A x \in runs :
        /\ x.id[2] <= lastId[x.id[1]]
        /\ \A q \in Request : \A e \in Live(stack[q]) : e.id = x.id => x.key = <<x.id, Where(x.rule, e.task)>>

Held ==
    world = 0 => \A x \in runs : x.status = "RUNNING" =>
                     \E q \in Request : <<x.rule, x.key>> \in Working(stack[q])

\* What closes the last open subtask has still to be said.
Announcing(s) ==
    s # <<>> /\ Last(s).doing.kind = "emit" /\ Last(s).doing.task \in Subtasks /\ Last(s).doing.to = Done

Said == due => AllDone(status) /\ status[Parent] # Done /\ \E q \in Request : Announcing(stack[q])

RInv == Types /\ Stacks /\ Ids /\ Keys /\ OncePerChange /\ Held /\ Said

LEMMA StackMoves ==
    ASSUME RInv, NEW q \in Request, NEW t, StackOK(book, t), Live(t) \subseteq Live(stack[q]),
           stack' = [stack EXCEPT ![q] = t], UNCHANGED <<book, projects, runs, lastId>>,
           status' \in [Task -> Status], version' \in [Task -> Nat], enabled' \subseteq Rule, world' \in Nat,
           world' = 0 => world = 0 /\ Working(t) = Working(stack[q]),
           Said'
    PROVE  RInv'
<1>1. \A p \in Request : stack'[p] = IF p = q THEN t ELSE stack[p]
  BY DEF RInv, Types
<1>2. t \in Seq(Level)
  BY DEF StackOK
<1>3. Types'
  BY <1>2 DEF RInv, Types
<1>4. Stacks'
  BY <1>1 DEF RInv, Stacks
<1>5. \A p \in Request : Live(stack'[p]) \subseteq Live(stack[p])
  BY <1>1
<1>6. Ids'
  <2>1. \A p \in Request : \A e \in Live(stack'[p]) :
           /\ e.id[1] = p /\ e.id[2] <= lastId'[p]
           /\ e.project \in ToSet(ProjectsOf(e.task))
           /\ \A f \in Live(stack'[p]) : f.id = e.id => f.task = e.task
    BY <1>5 DEF RInv, Ids
  <2> QED BY <2>1 DEF Ids, ProjectsOf
<1>7. Keys'
  <2>1. \A x \in runs' :
           /\ x.id[2] <= lastId'[x.id[1]]
           /\ \A p \in Request : \A e \in Live(stack'[p]) : e.id = x.id => x.key = <<x.id, Where(x.rule, e.task)>>
    BY <1>5 DEF RInv, Keys
  <2> QED BY <2>1 DEF Keys, Where
<1>8. OncePerChange'
  BY DEF RInv, OncePerChange
<1>9. Held'
  <2> SUFFICES ASSUME world' = 0, NEW x \in runs', x.status = "RUNNING"
               PROVE  \E p \in Request : <<x.rule, x.key>> \in Working(stack'[p])
    BY DEF Held
  <2>1. PICK p \in Request : <<x.rule, x.key>> \in Working(stack[p])
    BY DEF RInv, Held
  <2>2. Working(stack'[p]) = Working(stack[p])
    BY <1>1
  <2> QED BY <2>1, <2>2
<1> QED BY <1>3, <1>4, <1>6, <1>7, <1>8, <1>9 DEF RInv

\* A step of q that announces nothing leaves what has to be said to the others.
LEMMA SaidFrame ==
    ASSUME RInv, NEW q \in Request, ~Announcing(stack[q]), \A p \in Request \ {q} : stack'[p] = stack[p],
           UNCHANGED <<status, trashed>>, due' => due
    PROVE  Said'
<1> SUFFICES ASSUME due' PROVE AllDone(status)' /\ status'[Parent] # Done /\ \E p \in Request : Announcing(stack'[p])
  BY DEF Said
<1>1. AllDone(status) /\ status[Parent] # Done
  BY DEF RInv, Said
<1>2. PICK p \in Request : Announcing(stack[p])
  BY DEF RInv, Said
<1>3. stack'[p] = stack[p]
  BY <1>2
<1> QED BY <1>1, <1>2, <1>3 DEF AllDone

LEMMA TopFacts ==
    ASSUME RInv, NEW q \in Request, stack[q] # <<>>
    PROVE  \E n \in Nat : /\ n = Len(stack[q]) /\ n > 0 /\ Top(q) \in Level
                          /\ Placed(stack[q], n) /\ Top(q) = stack[q][n]
                          /\ Follows(book, stack[q], n, Doing(q))
                          /\ Top(q) = Last(stack[q]) /\ Doing(q) = Last(stack[q]).doing
                          /\ At(q, "idle") => n > 1 /\ Top(q).work \in Work
                          /\ At(q, "change") \/ At(q, "emit") => Doing(q) \in Asked
                          /\ At(q, "write") => Doing(q) \in Written
                          /\ At(q, "process") => Doing(q) \in Processed
<1> DEFINE s == stack[q]
<1>1. StackOK(book, s)
  BY DEF RInv, Stacks
<1>2. PICK n \in Nat : /\ n = Len(s) /\ n > 0 /\ Last(s) = s[n] /\ Last(s) \in Level
                       /\ Placed(s, n) /\ Follows(book, s, n, s[n].doing)
  BY <1>1, StackFacts
<1>3. Doing(q) \in {Idle} \cup Asked \cup Written \cup Processed /\ Doing(q) = s[n].doing /\ Top(q) = Last(s)
  BY <1>2 DEF Level, Doing, Top
<1>4. /\ At(q, "change") \/ At(q, "emit") => Doing(q) \in Asked
      /\ At(q, "write") => Doing(q) \in Written
      /\ At(q, "process") => Doing(q) \in Processed
  BY <1>3 DEF At, Idle, Asked, Written, Processed
<1>5. ASSUME At(q, "idle") PROVE n > 1 /\ Top(q).work \in Work
  <2>1. n # 1
    BY <1>2, <1>3, <1>5 DEF Placed, At
  <2>2. n > 0
    BY <1>2
  <2>3. n > 1
    BY <2>1, <2>2
  <2> QED BY <1>2, <1>3, <2>3 DEF Placed
<1> QED BY <1>2, <1>3, <1>4, <1>5

-----------------------------------------------------------------------------
(* The steps.                                                              *)

LEMMA UserChangeInv ==
    ASSUME RInv, NEW q \in Request, NEW t \in Task, NEW to \in Status, UserChange(q, t, to)
    PROVE  RInv'
<1> DEFINE l == [work |-> User, doing |-> Change(t, to)]
           s == <<l>>
<1>1. stack[q] = <<>> /\ stack' = [stack EXCEPT ![q] = s]
      /\ UNCHANGED <<book, projects, rows, trashed, enabled, entitled, runs, lastId, world, due>>
  BY DEF UserChange
<1>2. l \in Level /\ l.work = User /\ l.doing.kind = "change"
  BY DEF Level, Change, Asked
<1> HIDE DEF l
<1>3. s \in Seq(Level) /\ Len(s) = 1 /\ s[1] = l
  BY <1>2
<1> HIDE DEF s
<1>4. StackOK(book, s)
  BY <1>2, <1>3 DEF StackOK, Placed, Follows
<1>5. Live(s) = {} /\ Working(s) = {} /\ Working(stack[q]) = {}
  <2>1. Live(s) = {}
    BY <1>2, <1>3 DEF Live
  <2>2. Working(s) = {}
    BY <1>3 DEF Working
  <2>3. Working(<<>>) = {}
    BY DEF Working
  <2> QED BY <1>1, <2>1, <2>2, <2>3
<1>6. Said'
  BY <1>1, SaidFrame DEF Announcing, rows, RInv, Types
<1> QED BY <1>1, <1>4, <1>5, <1>6, StackMoves DEF RInv, Types, rows

LEMMA ReadInv == ASSUME RInv, NEW q \in Request, Read(q) PROVE RInv'
<1> DEFINE s == stack[q]
           f == Doing(q)
           seen == [kind |-> "write", task |-> f.task, to |-> f.to, seen |-> version[f.task]]
<1>1. /\ At(q, "change") /\ s # <<>>
      /\ \/ stack' = [stack EXCEPT ![q] = Thrown(s)]
         \/ stack' = [stack EXCEPT ![q] = Settle(s)]
         \/ stack' = [stack EXCEPT ![q] = Turn(s, seen)]
      /\ UNCHANGED <<book, projects, rows, trashed, enabled, entitled, runs, lastId, changes, world, due>>
  BY DEF Read, At
<1>2. PICK n \in Nat : n = Len(s) /\ f \in Asked
  BY <1>1, TopFacts
<1>3. StackOK(book, s)
  BY DEF RInv, Stacks
<1>4. Keeps(book, s, Thrown(s)) /\ Keeps(book, s, Settle(s))
  BY <1>1, <1>3, Threw, Settled
<1>5. Keeps(book, s, Turn(s, seen))
  <2>1. seen \in Asked \cup Written
    BY <1>2 DEF Asked, Written, RInv, Types
  <2> HIDE DEF seen
  <2> QED BY <1>1, <1>3, <2>1, TurnedTo
<1>6. PICK t : stack' = [stack EXCEPT ![q] = t] /\ Keeps(book, s, t)
  BY <1>1, <1>4, <1>5
<1>7. Said'
  <2>1. ~Announcing(s)
    BY <1>1 DEF Announcing, At, Doing, Top
  <2>2. \A p \in Request \ {q} : stack'[p] = stack[p]
    BY <1>6 DEF RInv, Types
  <2> QED BY <1>1, <2>1, <2>2, SaidFrame DEF rows
<1> QED BY <1>1, <1>6, <1>7, StackMoves DEF RInv, Types, rows, Keeps

LEMMA WriteInv == ASSUME RInv, NEW q \in Request, Write(q) PROVE RInv'
<1> DEFINE s == stack[q]
           f == Doing(q)
           said == [kind |-> "emit", task |-> f.task, to |-> f.to]
<1>1. /\ At(q, "write") /\ s # <<>>
      /\ UNCHANGED <<book, projects, trashed, enabled, entitled, runs, lastId, changes, world>>
  BY DEF Write, At
<1>2. f \in Written /\ Top(q) = Last(s) /\ f = Last(s).doing
  BY <1>1, TopFacts
<1>3. StackOK(book, s)
  BY DEF RInv, Stacks
<1>4. ~Announcing(s)
  BY <1>1, <1>2 DEF Announcing, Written
<1>5. CASE version[f.task] # f.seen
  <2>1. stack' = [stack EXCEPT ![q] = Thrown(s)] /\ UNCHANGED <<rows, due>>
    BY <1>5 DEF Write
  <2>2. Keeps(book, s, Thrown(s))
    BY <1>1, <1>3, Threw
  <2>3. Said'
    <3>1. \A p \in Request \ {q} : stack'[p] = stack[p]
      BY <2>1 DEF RInv, Types
    <3> QED BY <1>1, <1>4, <2>1, <3>1, SaidFrame DEF rows
  <2> QED BY <1>1, <2>1, <2>2, <2>3, StackMoves DEF RInv, Types, rows, Keeps
<1>6. CASE version[f.task] = f.seen
  <2>1. /\ status' = [status EXCEPT ![f.task] = f.to]
        /\ version' = [version EXCEPT ![f.task] = @ + 1]
        /\ stack' = [stack EXCEPT ![q] = Turn(s, said)]
        /\ due' = CASE f.task = Parent -> due /\ f.to # Done
                    [] f.task # Parent /\ f.to # Done -> FALSE
                    [] OTHER -> (AllDone(status') /\ status[Parent] # Done) \/ due
    BY <1>6 DEF Write
  <2>2. said \in Asked
    BY <1>2 DEF Asked, Written
  <2>3. Keeps(book, s, Turn(s, said)) /\ Turn(s, said) # <<>> /\ Last(Turn(s, said)).doing = said
    <3> HIDE DEF said
    <3> QED BY <1>1, <1>3, <2>2, TurnedTo
  <2>4. status' \in [Task -> Status] /\ version' \in [Task -> Nat]
    BY <1>2, <2>1 DEF Written, RInv, Types
  <2>5. stack'[q] = Turn(s, said) /\ \A p \in Request \ {q} : stack'[p] = stack[p]
    BY <2>1 DEF RInv, Types
  <2>6. /\ f.task \in Task /\ f.to \in Status
        /\ \A x \in Task : status'[x] = IF x = f.task THEN f.to ELSE status[x]
    BY <1>2, <2>1 DEF Written, RInv, Types
  <2>7. Said'
    <3> SUFFICES ASSUME due'
                 PROVE  AllDone(status)' /\ status'[Parent] # Done /\ \E p \in Request : Announcing(stack'[p])
      BY DEF Said
    <3>1. Parent \in Task
      BY AutomationAssumption
    <3>2. due => AllDone(status) /\ status[Parent] # Done /\ \E p \in Request \ {q} : Announcing(stack'[p])
      BY <1>4, <2>5 DEF RInv, Said
    <3>3. CASE f.task = Parent
      <4>1. due /\ f.to # Done
        BY <2>1, <3>3
      <4>2. AllDone(status)'
        BY <1>1, <2>6, <3>2, <3>3, <4>1 DEF AllDone, Subtasks
      <4> QED BY <2>6, <3>1, <3>2, <3>3, <4>1, <4>2
    <3>4. CASE f.task # Parent
      <4>1. f.to = Done /\ ((AllDone(status') /\ status[Parent] # Done) \/ due)
        BY <2>1, <3>4
      <4>2. status'[Parent] # Done
        BY <2>6, <3>1, <3>2, <3>4, <4>1
      <4>3. AllDone(status)'
        BY <1>1, <2>6, <3>2, <4>1 DEF AllDone, Subtasks
      <4>4. Announcing(stack'[q])
        BY <2>3, <2>5, <2>6, <3>4, <4>1 DEF Announcing, Subtasks
      <4> QED BY <4>2, <4>3, <4>4
    <3> QED BY <3>3, <3>4
  <2> HIDE DEF said
  <2> QED BY <1>1, <2>1, <2>3, <2>4, <2>7, StackMoves DEF RInv, Types, Keeps
<1> QED BY <1>5, <1>6

LEMMA ActInv == ASSUME RInv, NEW q \in Request, Act(q) PROVE RInv'
<1> DEFINE s == stack[q]
           w == Top(q).work
           l == [work  |-> [w EXCEPT !.todo = Tail(@)],
                 doing |-> IF w.event.task \in trashed THEN Idle ELSE Change(w.event.task, Head(w.todo))]
<1>1. /\ At(q, "idle") /\ s # <<>> /\ w.todo # <<>>
      /\ UNCHANGED <<book, projects, rows, trashed, enabled, entitled, runs, lastId, changes, world, due>>
  BY DEF Act, At
<1>2. stack' = [stack EXCEPT ![q] = Put(s, Len(s), l)]
  BY DEF Act, Put
<1>3. StackOK(book, s)
  BY DEF RInv, Stacks
<1>4. PICK n \in Nat : n = Len(s) /\ n > 1 /\ Top(q) = Last(s) /\ Doing(q) = Last(s).doing /\ w \in Work
  BY <1>1, TopFacts
<1>5. /\ l.work \in Work /\ l.work.rule = Last(s).work.rule /\ l.work.event = Last(s).work.event
      /\ l.work.key = Last(s).work.key
      /\ l \in Level /\ l.doing.kind # "process"
  <2>1. /\ w.todo \in Seq(Status) /\ Tail(w.todo) \in Seq(Status) /\ Head(w.todo) \in Status
        /\ w.event.task \in Task
    BY <1>1, <1>4 DEF Work, Event
  <2>2. /\ [w EXCEPT !.todo = Tail(@)] \in Work
        /\ [w EXCEPT !.todo = Tail(@)].rule = w.rule
        /\ [w EXCEPT !.todo = Tail(@)].event = w.event
        /\ [w EXCEPT !.todo = Tail(@)].key = w.key
    BY <1>4, <2>1 DEF Work
  <2>3. l.doing \in {Idle} \cup Asked /\ l.doing.kind # "process"
    BY <2>1 DEF Change, Asked, Idle
  <2>4. l \in Level
    BY <2>2, <2>3 DEF Level
  <2> QED BY <1>4, <2>2, <2>3, <2>4
<1> HIDE DEF l
<1>6. Keeps(book, s, Put(s, n, l))
  <2>1. n > 1
    BY <1>4
  <2>2. n = Len(s)
    BY <1>4
  <2> QED BY <1>1, <1>3, <1>5, <2>1, <2>2, RunGoesOn
<1>7. stack' = [stack EXCEPT ![q] = Put(s, n, l)]
  BY <1>2, <1>4
<1>8. Said'
  <2>1. ~Announcing(s)
    BY <1>1, <1>4 DEF Announcing, At
  <2>2. \A p \in Request \ {q} : stack'[p] = stack[p]
    BY <1>2 DEF RInv, Types
  <2> QED BY <1>1, <2>1, <2>2, SaidFrame DEF rows
<1> QED BY <1>1, <1>6, <1>7, <1>8, StackMoves DEF RInv, Types, rows, Keeps

LEMMA CrashInv == ASSUME RInv, NEW q \in Request, Crash(q) PROVE RInv'
<1>1. /\ stack' = [stack EXCEPT ![q] = <<>>] /\ world' = world + 1 /\ ~due'
      /\ UNCHANGED <<book, projects, rows, trashed, enabled, entitled, runs, lastId, changes>>
  BY DEF Crash
<1>2. StackOK(book, <<>>) /\ Live(<<>>) = {}
  BY DEF StackOK, Live
<1>3. world' \in Nat /\ world' # 0
  BY <1>1 DEF RInv, Types
<1>4. Said'
  BY <1>1 DEF Said
<1> QED BY <1>1, <1>2, <1>3, <1>4, StackMoves DEF RInv, Types, rows

LEMMA EngineFailsInv == ASSUME RInv, NEW q \in Request, EngineFails(q) PROVE RInv'
<1> DEFINE s == stack[q]
           u == Front(s)
<1>1. /\ world' = world + 1
      /\ UNCHANGED <<book, projects, rows, trashed, enabled, entitled, runs, lastId, changes, due>>
  BY DEF EngineFails
<1>2. s # <<>> /\ ~Announcing(s)
  BY DEF EngineFails, At, Announcing, Doing, Top
<1>3. StackOK(book, s)
  BY DEF RInv, Stacks
<1>4. PICK t : stack' = [stack EXCEPT ![q] = t] /\ StackOK(book, t) /\ Live(t) \subseteq Live(s)
  <2>1. CASE stack' = [stack EXCEPT ![q] = Settle(s)]
    <3>1. Keeps(book, s, Settle(s))
      BY <1>2, <1>3, Settled
    <3> QED BY <2>1, <3>1 DEF Keeps
  <2>2. CASE At(q, "idle") /\ stack' = [stack EXCEPT ![q] = Settle(u)]
    <3>1. PICK m \in Nat : m = Len(s) /\ m > 1
      BY <1>2, <2>2, TopFacts
    <3>2. PICK n \in Nat : n + 1 = m /\ n > 0
      <4>1. m - 1 \in Nat /\ (m - 1) + 1 = m /\ m - 1 > 0
        BY <3>1
      <4> QED BY <4>1
    <3>3. n + 1 = Len(s) /\ n > 0
      BY <3>1, <3>2
    <3>4. StackOK(book, u) /\ u # <<>> /\ Live(u) \subseteq Live(s)
      BY <1>3, <3>3, Popped
    <3>5. Keeps(book, u, Settle(u))
      BY <3>4, Settled
    <3> QED BY <2>2, <3>4, <3>5 DEF Keeps
  <2> QED BY <2>1, <2>2 DEF EngineFails
<1>5. world' \in Nat /\ world' # 0
  BY <1>1 DEF RInv, Types
<1>6. Said'
  <2>1. \A p \in Request \ {q} : stack'[p] = stack[p]
    BY <1>4 DEF RInv, Types
  <2> QED BY <1>1, <1>2, <2>1, SaidFrame DEF rows
<1> QED BY <1>1, <1>4, <1>5, <1>6, StackMoves DEF RInv, Types, rows

LEMMA MeanwhileInv == ASSUME RInv, Meanwhile PROVE RInv'
<1>1. /\ world' = world + 1 /\ enabled' \subseteq enabled /\ trashed' \in {trashed, Task}
      /\ UNCHANGED <<book, projects, rows, stack, runs, lastId, changes, due>>
  BY DEF Meanwhile
<1>2. Types' /\ world' # 0
  BY <1>1 DEF RInv, Types, rows
<1>3. Said'
  BY <1>1 DEF RInv, Said, AllDone, Subtasks, Announcing, rows
<1> QED BY <1>1, <1>2, <1>3 DEF RInv, Stacks, Ids, Keys, Held, OncePerChange, ProjectsOf, Where

-----------------------------------------------------------------------------
(* Events.                                                                 *)

LEMMA ChainOfRules ==
    ASSUME NEW b, NEW s, StackOK(b, s), s # <<>>, NEW n \in Nat, n = Len(s)
    PROVE  Chained(s, n - 1) \in Seq(Rule) /\ n - 1 \in Nat
<1>1. /\ n > 0
      /\ \A i \in 1..n : Placed(s, i)
  <2>1. PICK m \in Nat : m = Len(s) /\ m > 0 /\ \A i \in 1..m : Placed(s, i)
    BY StackFacts
  <2> QED BY <2>1
<1>2. \A j \in 1..(n - 1) : s[j + 1].work.rule \in Rule
  <2> SUFFICES ASSUME NEW j \in 1..(n - 1) PROVE s[j + 1].work.rule \in Rule
    OBVIOUS
  <2>1. j + 1 \in 1..n /\ j + 1 > 1
    BY <1>1
  <2> QED BY <1>1, <2>1 DEF Placed, Work
<1>3. n - 1 \in Nat
  BY <1>1
<1> QED BY <1>2, <1>3 DEF Chained

LEMMA EventsIn ==
    ASSUME RInv, NEW work, Chain(work) \in Seq(Rule), Depth(work) \in Nat,
           NEW type \in Trigger, NEW t \in Task, NEW to \in Status, NEW id \in Request \X Nat
    PROVE  Events(work, type, t, to, id) \in
             Seq({e \in Event : /\ e.id = id /\ e.task = t /\ e.chain = Chain(work) /\ e.depth = Depth(work)
                                /\ e.project \in ToSet(ProjectsOf(t))})
<1> DEFINE G == {e \in Event : /\ e.id = id /\ e.task = t /\ e.chain = Chain(work) /\ e.depth = Depth(work)
                               /\ e.project \in ToSet(ProjectsOf(t))}
           ps == ProjectsOf(t)
<1>1. ps \in Seq(Project \cup {NoProject})
  <2>1. projects \in Seq(Project) /\ Project \subseteq Project \cup {NoProject}
    BY DEF RInv, Types
  <2>2. projects \in Seq(Project \cup {NoProject})
    BY <2>1, SeqMonotonic
  <2>3. <<NoProject>> \in Seq(Project \cup {NoProject})
    OBVIOUS
  <2> QED BY <2>2, <2>3 DEF ProjectsOf
<1> HIDE DEF ps
<1>2. ASSUME NEW i \in DOMAIN ps
      PROVE  [id |-> id, type |-> type, task |-> t, project |-> ps[i], to |-> to,
              depth |-> Depth(work), chain |-> Chain(work)] \in G
  <2>1. ps[i] \in Project \cup {NoProject} /\ ps[i] \in ToSet(ps)
    BY <1>1 DEF ToSet
  <2> QED BY <2>1 DEF Event, ps
<1> HIDE DEF G
<1>3. DOMAIN ps = 1..Len(ps) /\ Len(ps) \in Nat
  BY <1>1
<1>4. Events(work, type, t, to, id) = [i \in 1..Len(ps) |->
          [id |-> id, type |-> type, task |-> t, project |-> ps[i], to |-> to,
           depth |-> Depth(work), chain |-> Chain(work)]]
  BY <1>3 DEF Events, ps
<1>5. Events(work, type, t, to, id) \in Seq(G)
  BY <1>2, <1>3, <1>4
<1> QED BY <1>5 DEF G

\* The events a change of q emits at level n: they descend from it and their
\* identifiers are new.
Emitted(q, s, n, t) ==
    {e \in Event : /\ Descends(s, n, e) /\ e.id \in {Id(q, 1), Id(q, 2), Id(q, 3)}
                   /\ e.task = (IF e.id = Id(q, 3) THEN Parent ELSE t)
                   /\ e.project \in ToSet(ProjectsOf(e.task))}

LEMMA EventsEmitted ==
    ASSUME RInv, NEW q \in Request, stack[q] # <<>>, NEW n \in Nat, n = Len(stack[q]), NEW f \in Asked
    PROVE  EventsOf(q, f, Last(stack[q]).work) \in Seq(Emitted(q, stack[q], n, f.task))
<1> DEFINE s == stack[q]
           work == Last(s).work
           G == Emitted(q, s, n, f.task)
<1>1. StackOK(book, s)
  BY DEF RInv, Stacks
<1>2. Chain(work) = Chained(s, n - 1) /\ Depth(work) = n - 1 /\ Chained(s, n - 1) \in Seq(Rule) /\ n - 1 \in Nat
  BY <1>1, ChainBelow, ChainOfRules
<1> HIDE DEF work
<1>3. /\ lastId[q] \in Nat
      /\ \A k \in 1..3 : Id(q, k) \in Request \X Nat
      /\ Id(q, 1) # Id(q, 3) /\ Id(q, 2) # Id(q, 3)
  BY DEF RInv, Types, Id
<1>4. f.task \in Task /\ f.to \in Status /\ Parent \in Task /\ Done \in Status
  BY AutomationAssumption DEF Asked
<1>5. ASSUME NEW type \in Trigger, NEW to \in Status, NEW k \in 1..3, NEW t \in Task,
             t = IF k = 3 THEN Parent ELSE f.task
      PROVE  Events(work, type, t, to, Id(q, k)) \in Seq(G)
  <2> DEFINE A == {e \in Event : /\ e.id = Id(q, k) /\ e.task = t /\ e.chain = Chain(work) /\ e.depth = Depth(work)
                                 /\ e.project \in ToSet(ProjectsOf(t))}
  <2>1. t \in Task /\ Id(q, k) \in Request \X Nat /\ Chain(work) \in Seq(Rule) /\ Depth(work) \in Nat
    BY <1>2, <1>3
  <2>2. t = (IF Id(q, k) = Id(q, 3) THEN Parent ELSE f.task) /\ Id(q, k) \in {Id(q, 1), Id(q, 2), Id(q, 3)}
    <3>1. k = 1 \/ k = 2 \/ k = 3
      OBVIOUS
    <3> QED BY <1>3, <1>5, <3>1
  <2>3. A \subseteq G
    BY <1>2, <2>2 DEF Emitted, Descends
  <2>4. Events(work, type, t, to, Id(q, k)) \in Seq(A)
    BY <2>1, EventsIn
  <2> HIDE DEF A, G
  <2>5. Seq(A) \subseteq Seq(G)
    BY <2>3, SeqMonotonic
  <2> QED BY <2>4, <2>5
<1> HIDE DEF G
<1> DEFINE a == Events(work, "STATUS_CHANGED", f.task, f.to, Id(q, 1))
           b == IF f.to = Done THEN Events(work, "TASK_COMPLETED", f.task, f.to, Id(q, 2)) ELSE <<>>
           c == IF ClosesAll(f, work) THEN Events(work, "SUBTASKS_COMPLETED", Parent, Done, Id(q, 3)) ELSE <<>>
<1>6. a \in Seq(G) /\ b \in Seq(G) /\ c \in Seq(G)
  <2>1. {"STATUS_CHANGED", "TASK_COMPLETED", "SUBTASKS_COMPLETED"} = Trigger /\ <<>> \in Seq(G)
    BY DEF Trigger
  <2>2. a \in Seq(G)
    <3>1. 1 \in 1..3 /\ (IF 1 = 3 THEN Parent ELSE f.task) = f.task
      OBVIOUS
    <3> QED BY <1>4, <1>5, <2>1, <3>1
  <2>3. Events(work, "TASK_COMPLETED", f.task, f.to, Id(q, 2)) \in Seq(G)
    <3>1. 2 \in 1..3 /\ (IF 2 = 3 THEN Parent ELSE f.task) = f.task
      OBVIOUS
    <3> QED BY <1>4, <1>5, <2>1, <3>1
  <2>4. Events(work, "SUBTASKS_COMPLETED", Parent, Done, Id(q, 3)) \in Seq(G)
    <3>1. 3 \in 1..3 /\ (IF 3 = 3 THEN Parent ELSE f.task) = Parent
      OBVIOUS
    <3> QED BY <1>4, <1>5, <2>1, <3>1
  <2> QED BY <2>1, <2>2, <2>3, <2>4
<1>7. EventsOf(q, f, work) = a \o b \o c
  BY DEF EventsOf
<1> HIDE DEF a, b, c
<1>8. a \o b \o c \in Seq(G)
  BY <1>6, ConcatProperties
<1> QED BY <1>7, <1>8 DEF work, G

LEMMA PairsInScope ==
    ASSUME NEW events \in Seq(Event), NEW on
    PROVE  /\ Pairs(events, on) \in SUBSET (Nat \X Nat)
           /\ InScope(book, [kind |-> "process", events |-> events, todo |-> Pairs(events, on)])
<1>1. DOMAIN events \subseteq Nat /\ DOMAIN RuleOrder \subseteq Nat
  BY AutomationAssumption
<1>2. Pairs(events, on) \in SUBSET (Nat \X Nat)
  BY <1>1 DEF Pairs
<1> DEFINE todo == Pairs(events, on)
           d == [kind |-> "process", events |-> events, todo |-> todo]
<1>3. /\ todo \subseteq (DOMAIN events) \X (DOMAIN RuleOrder)
      /\ \A x \in todo : \/ book[RuleOrder[x[2]]].project = NoProject
                         \/ events[x[1]].project \in {NoProject, book[RuleOrder[x[2]]].project}
  BY DEF Pairs
<1> HIDE DEF todo
<1>4. InScope(book, d)
  BY <1>3 DEF InScope
<1> QED BY <1>2, <1>4 DEF todo

LEMMA EmitInv == ASSUME RInv, NEW q \in Request, Emit(q) PROVE RInv'
<1> DEFINE s == stack[q]
           f == Doing(q)
           work == Last(s).work
           events == EventsOf(q, f, work)
           todo == Pairs(events, enabled)
           t == Process(s, events, todo)
<1>1. /\ At(q, "emit") /\ s # <<>> /\ stack' = [stack EXCEPT ![q] = t]
      /\ due' = (due /\ ~ClosesAll(f, work)) /\ lastId' = [lastId EXCEPT ![q] = @ + 3]
      /\ UNCHANGED <<book, projects, rows, trashed, enabled, entitled, runs, changes, world>>
  BY DEF Emit, At, Top
<1>2. PICK n \in Nat : n = Len(s) /\ f \in Asked /\ f = Last(s).doing
  BY <1>1, TopFacts
<1>3. StackOK(book, s)
  BY DEF RInv, Stacks
<1> DEFINE E == Emitted(q, s, n, f.task)
<1>4. events \in Seq(E)
  <2>1. n = Len(s)
    BY <1>2
  <2> QED BY <1>1, <1>2, <2>1, EventsEmitted
<1> HIDE DEF events
<1>5. E \subseteq Event /\ events \in Seq(Event) /\ ToSet(events) \subseteq E /\ \A k \in DOMAIN events : events[k] \in E
  <2>1. E \subseteq Event
    BY DEF Emitted
  <2> HIDE DEF E
  <2>2. events \in Seq(Event)
    BY <1>4, <2>1, SeqMonotonic
  <2> QED BY <1>4, <2>1, <2>2 DEF ToSet
<1>6. Follows(book, s, n, [kind |-> "process", events |-> events, todo |-> todo]) /\ todo \in SUBSET (Nat \X Nat)
  <2> DEFINE d == [kind |-> "process", events |-> events, todo |-> todo]
  <2>1. InScope(book, d) /\ todo \in SUBSET (Nat \X Nat)
    BY <1>5, PairsInScope
  <2>2. \A k \in DOMAIN events : Descends(s, n, events[k])
    BY <1>5 DEF Emitted
  <2>3. d.events = events
    OBVIOUS
  <2> HIDE DEF d
  <2>4. Follows(book, s, n, d)
    BY <2>1, <2>2, <2>3 DEF Follows
  <2> QED BY <2>1, <2>4 DEF d
<1> HIDE DEF todo
<1>7. StackOK(book, t) /\ Working(t) = Working(s) /\ Live(t) \subseteq Live(s) \cup E
  <2>1. Follows(book, s, Len(s), [kind |-> "process", events |-> events, todo |-> todo])
    BY <1>2, <1>6
  <2> HIDE DEF E
  <2>2. StackOK(book, t) /\ Working(t) = Working(s) /\ Live(t) \subseteq Live(s) \cup ToSet(events)
    BY <1>1, <1>3, <1>5, <1>6, <2>1, GoesThrough
  <2> QED BY <1>5, <2>2
<1> HIDE DEF t
<1>8. /\ stack'[q] = t /\ \A p \in Request \ {q} : stack'[p] = stack[p]
      /\ lastId[q] \in Nat /\ lastId'[q] = lastId[q] + 3 /\ \A p \in Request \ {q} : lastId'[p] = lastId[p]
  BY <1>1 DEF RInv, Types
<1>9. \A e \in E : /\ e.id[1] = q /\ e.id[2] > lastId[q] /\ e.id[2] <= lastId[q] + 3
                   /\ e.project \in ToSet(ProjectsOf(e.task))
                   /\ \A g \in E : g.id = e.id => g.task = e.task
  BY <1>8 DEF Emitted, Id
<1> HIDE DEF E
<1>10. \A p \in Request : \A e \in Live(stack[p]) : e \in Event /\ e.id[2] \in Nat
  BY DEF Live, Event
<1>11. Types'
  <2>1. t \in Seq(Level)
    BY <1>7 DEF StackOK
  <2> QED BY <1>1, <1>8, <2>1 DEF RInv, Types, rows
<1>12. Stacks'
  <2>1. \A p \in Request : StackOK(book, stack'[p])
    BY <1>7, <1>8 DEF RInv, Stacks
  <2> QED BY <1>1, <2>1 DEF Stacks
<1>13. Ids'
  <2>1. \A p \in Request \ {q} : \A e \in Live(stack'[p]) :
           /\ e.id[1] = p /\ e.id[2] <= lastId'[p]
           /\ e.project \in ToSet(ProjectsOf(e.task))
           /\ \A g \in Live(stack'[p]) : g.id = e.id => g.task = e.task
    BY <1>8 DEF RInv, Ids
  <2>2. ASSUME NEW e \in Live(t)
        PROVE  /\ e.id[1] = q /\ e.id[2] <= lastId[q] + 3
               /\ e.project \in ToSet(ProjectsOf(e.task))
               /\ \A g \in Live(t) : g.id = e.id => g.task = e.task
    <3>1. \A g \in Live(s) : g.id[2] <= lastId[q] /\ g.id[2] \in Nat
      BY <1>10 DEF RInv, Ids
    <3>2. \A g \in E : ~(g.id[2] <= lastId[q])
      BY <1>8, <1>9, <1>5 DEF Event
    <3>3. CASE e \in E
      BY <1>7, <1>9, <3>1, <3>2, <3>3
    <3>4. CASE e \in Live(s)
      <4>1. e.id[2] <= lastId[q] + 3
        BY <1>8, <3>1, <3>4
      <4>2. \A g \in Live(s) : g.id = e.id => g.task = e.task
        BY <3>4 DEF RInv, Ids
      <4>3. \A g \in E : g.id # e.id
        BY <3>1, <3>2, <3>4
      <4>4. e.id[1] = q /\ e.project \in ToSet(ProjectsOf(e.task))
        BY <3>4 DEF RInv, Ids
      <4> QED BY <1>7, <4>1, <4>2, <4>3, <4>4
    <3> QED BY <1>7, <3>3, <3>4
  <2>3. \A p \in Request : \A e \in Live(stack'[p]) :
           /\ e.id[1] = p /\ e.id[2] <= lastId'[p]
           /\ e.project \in ToSet(ProjectsOf(e.task))
           /\ \A g \in Live(stack'[p]) : g.id = e.id => g.task = e.task
    BY <1>8, <2>1, <2>2
  <2> QED BY <1>1, <2>3 DEF Ids, ProjectsOf
<1>14. Keys'
  <2> SUFFICES ASSUME NEW x \in runs
               PROVE  /\ x.id[2] <= lastId'[x.id[1]]
                      /\ \A p \in Request : \A e \in Live(stack'[p]) :
                            e.id = x.id => x.key = <<x.id, Where(x.rule, e.task)>>
    BY <1>1 DEF Keys, Where
  <2>1. /\ x.id[1] \in Request /\ x.id[2] \in Nat /\ x.id[2] <= lastId[x.id[1]]
        /\ \A p \in Request : \A e \in Live(stack[p]) : e.id = x.id => x.key = <<x.id, Where(x.rule, e.task)>>
    BY DEF RInv, Types, RunRow, Keys
  <2>2. x.id[2] <= lastId'[x.id[1]]
    <3>1. CASE x.id[1] = q
      BY <1>8, <2>1, <3>1
    <3>2. CASE x.id[1] # q
      BY <1>8, <2>1, <3>2
    <3> QED BY <3>1, <3>2
  <2>3. \A e \in E : e.id # x.id
    <3> SUFFICES ASSUME NEW e \in E, e.id = x.id PROVE FALSE
      OBVIOUS
    <3>1. x.id[1] = q /\ x.id[2] > lastId[q] /\ x.id[2] <= lastId[q]
      BY <1>9, <2>1
    <3> QED BY <1>8, <2>1, <3>1
  <2> QED BY <1>7, <1>8, <2>1, <2>2, <2>3
<1>15. Held'
  <2>1. \A p \in Request : Working(stack'[p]) = Working(stack[p])
    BY <1>7, <1>8
  <2>2. world = 0 => \A x \in runs : x.status = "RUNNING" =>
           \E p \in Request : <<x.rule, x.key>> \in Working(stack'[p])
    BY <2>1 DEF RInv, Held
  <2> QED BY <1>1, <2>2 DEF Held
<1>16. OncePerChange'
  BY <1>1 DEF RInv, OncePerChange
<1>17. Said'
  <2> SUFFICES ASSUME due'
               PROVE  AllDone(status)' /\ status'[Parent] # Done /\ \E p \in Request : Announcing(stack'[p])
    BY DEF Said
  <2>1. due /\ ~ClosesAll(f, work)
    BY <1>1
  <2>2. AllDone(status) /\ status[Parent] # Done
    BY <2>1 DEF RInv, Said
  <2>3. PICK p \in Request : Announcing(stack[p])
    BY <2>1 DEF RInv, Said
  <2>4. p # q
    BY <1>2, <2>1, <2>2, <2>3 DEF Announcing, ClosesAll
  <2>5. Announcing(stack'[p])
    BY <1>8, <2>3, <2>4
  <2> QED BY <1>1, <2>2, <2>5 DEF AllDone, rows
<1> QED BY <1>11, <1>12, <1>13, <1>14, <1>15, <1>16, <1>17 DEF RInv

-----------------------------------------------------------------------------
(* Runs.                                                                   *)

\* A stack that handles the same events or fewer leaves what is said of events as it was.
LEMMA EventsFrame ==
    ASSUME RInv, NEW q \in Request, NEW t, StackOK(book, t), Live(t) \subseteq Live(stack[q]),
           stack' = [stack EXCEPT ![q] = t], UNCHANGED <<book, projects, lastId>>
    PROVE  /\ Stacks' /\ Ids' /\ stack' \in [Request -> Seq(Level)]
           /\ stack'[q] = t /\ \A p \in Request \ {q} : stack'[p] = stack[p]
           /\ \A p \in Request : Live(stack'[p]) \subseteq Live(stack[p])
<1>1. \A p \in Request : stack'[p] = IF p = q THEN t ELSE stack[p]
  BY DEF RInv, Types
<1>2. t \in Seq(Level)
  BY DEF StackOK
<1>3. stack' \in [Request -> Seq(Level)]
  BY <1>2 DEF RInv, Types
<1>4. Stacks'
  BY <1>1 DEF RInv, Stacks
<1>5. \A p \in Request : Live(stack'[p]) \subseteq Live(stack[p])
  BY <1>1
<1>6. Ids'
  <2>1. \A p \in Request : \A e \in Live(stack'[p]) :
           /\ e.id[1] = p /\ e.id[2] <= lastId'[p]
           /\ e.project \in ToSet(ProjectsOf(e.task))
           /\ \A f \in Live(stack'[p]) : f.id = e.id => f.task = e.task
    BY <1>5 DEF RInv, Ids
  <2> QED BY <2>1 DEF Ids, ProjectsOf
<1> QED BY <1>1, <1>3, <1>4, <1>5, <1>6

\* The key of a run depends on the change and its task alone, whatever the project of the event.
LEMMA KeyOfRun ==
    ASSUME RInv, NEW r \in Rule, NEW e \in Event, RunsOn(r, e),
           e.project \in ToSet(ProjectsOf(e.task)),
           book[r].project = NoProject \/ e.project \in {NoProject, book[r].project}
    PROVE  RunKey(r, e) = <<e.id, Where(r, e.task)>> /\ RunKey(r, e) \in EventKey
<1>1. book[r].project \in Project \cup {NoProject} /\ e.id \in Request \X Nat /\ e.project \in Project \cup {NoProject}
  BY DEF RInv, Types, Book, Event
<1>2. RunKey(r, e) \in EventKey
  BY <1>1 DEF RunKey, EventKey
<1>3. CASE book[r].project = NoProject
  BY <1>2, <1>3 DEF RunKey, Where
<1>4. CASE book[r].project # NoProject /\ e.task # Parent
  <2>1. ProjectsOf(e.task) = <<NoProject>>
    BY <1>4 DEF ProjectsOf
  <2>2. e.project = NoProject
    BY <2>1 DEF ToSet
  <2> QED BY <1>2, <1>4, <2>2 DEF RunKey, Where
<1>5. CASE book[r].project # NoProject /\ e.task = Parent
  <2>1. book[r].project \in ToSet(projects)
    BY <1>5 DEF RunsOn, InProject
  <2>2. projects # <<>> /\ ToSet(projects) \subseteq Project
    BY <2>1 DEF ToSet, RInv, Types
  <2>3. e.project \in Project
    BY <1>5, <2>2 DEF ProjectsOf
  <2>4. e.project = book[r].project
    BY <1>5, <2>3, AutomationAssumption
  <2> QED BY <1>2, <1>5, <2>4 DEF RunKey, Where
<1> QED BY <1>2, <1>3, <1>4, <1>5

LEMMA Recorded ==
    ASSUME RInv, NEW q \in Request, NEW e \in Live(stack[q]), NEW r \in Rule, RunsOn(r, e),
           book[r].project = NoProject \/ e.project \in {NoProject, book[r].project},
           NEW o \in {"SKIPPED", "RUNNING"}, Record(r, e, o),
           NEW t, StackOK(book, t), Live(t) \subseteq Live(stack[q]), stack' = [stack EXCEPT ![q] = t],
           Working(stack[q]) \subseteq Working(t),
           o = "RUNNING" => <<r, RunKey(r, e)>> \in Working(t),
           UNCHANGED <<book, projects, rows, enabled, lastId, world>>, Said'
    PROVE  RInv'
<1> DEFINE k == RunKey(r, e)
           row == [rule |-> r, key |-> k, id |-> e.id, status |-> o]
<1>1. /\ e \in Event /\ e.id \in Request \X Nat /\ e.id[1] = q /\ e.id[2] <= lastId[q]
      /\ e.project \in ToSet(ProjectsOf(e.task))
      /\ \A f \in Live(stack[q]) : f.id = e.id => f.task = e.task
  BY DEF RInv, Ids, Live, Event
<1>2. k = <<e.id, Where(r, e.task)>> /\ k \in EventKey
  BY <1>1, KeyOfRun
<1>3. \A x \in runs : ~(x.rule = r /\ x.key = k)
  BY DEF RunsOn
<1>4. runs' = runs \cup {row}
  BY DEF Record
<1> HIDE DEF k
<1>5. row \in RunRow /\ row.rule = r /\ row.key = k /\ row.id = e.id /\ row.status = o
  BY <1>1, <1>2 DEF RunRow
<1> HIDE DEF row
<1>6. /\ Stacks' /\ Ids' /\ stack' \in [Request -> Seq(Level)]
      /\ stack'[q] = t /\ \A p \in Request \ {q} : stack'[p] = stack[p]
      /\ \A p \in Request : Live(stack'[p]) \subseteq Live(stack[p])
  BY EventsFrame
<1>7. Types'
  BY <1>4, <1>5, <1>6 DEF RInv, Types, rows
<1>8. Keys'
  <2>1. ASSUME NEW x \in runs'
        PROVE  /\ x.id[2] <= lastId[x.id[1]]
               /\ \A p \in Request : \A f \in Live(stack'[p]) :
                     f.id = x.id => x.key = <<x.id, Where(x.rule, f.task)>>
    <3>1. CASE x \in runs
      BY <1>6, <3>1 DEF RInv, Keys
    <3>2. CASE x = row
      <4>1. x.id[2] <= lastId[x.id[1]]
        BY <1>1, <1>5, <3>2
      <4>2. ASSUME NEW p \in Request, NEW f \in Live(stack'[p]), f.id = x.id
            PROVE  x.key = <<x.id, Where(x.rule, f.task)>>
        <5>1. f \in Live(stack[p]) /\ f.id[1] = p
          BY <1>6 DEF RInv, Ids
        <5>2. p = q
          BY <1>1, <1>5, <3>2, <4>2, <5>1
        <5>3. f.task = e.task
          BY <1>1, <1>5, <3>2, <4>2, <5>1, <5>2
        <5> QED BY <1>2, <1>5, <3>2, <5>3
      <4> QED BY <4>1, <4>2
    <3> QED BY <1>4, <3>1, <3>2
  <2> QED BY <2>1 DEF Keys, Where
<1>9. OncePerChange'
  <2>1. \A a \in runs : ~(a.rule = r /\ a.id = e.id)
    <3> SUFFICES ASSUME NEW a \in runs, a.rule = r, a.id = e.id PROVE FALSE
      OBVIOUS
    <3>1. a.key = <<a.id, Where(r, e.task)>>
      BY DEF RInv, Keys
    <3> QED BY <1>2, <1>3, <3>1
  <2>2. \A a, b \in runs : a.rule = b.rule /\ a.id = b.id => a = b
    BY DEF RInv, OncePerChange
  <2>3. \A a, b \in runs' : a.rule = b.rule /\ a.id = b.id => a = b
    BY <1>4, <1>5, <2>1, <2>2
  <2> QED BY <2>3 DEF OncePerChange
<1>10. Held'
  <2>1. \A p \in Request : Working(stack[p]) \subseteq Working(stack'[p])
    BY <1>6
  <2>2. ASSUME world = 0, NEW x \in runs', x.status = "RUNNING"
        PROVE  \E p \in Request : <<x.rule, x.key>> \in Working(stack'[p])
    <3>1. CASE x \in runs
      BY <2>1, <2>2, <3>1 DEF RInv, Held
    <3>2. CASE x = row
      BY <1>5, <1>6, <2>2, <3>2 DEF k
    <3> QED BY <1>4, <3>1, <3>2
  <2> QED BY <2>2 DEF Held
<1> QED BY <1>6, <1>7, <1>8, <1>9, <1>10 DEF RInv

LEMMA WithRest ==
    ASSUME NEW f \in Processed, NEW rest
    PROVE  [f EXCEPT !.todo = rest] = [kind |-> "process", events |-> f.events, todo |-> rest]
BY DEF Processed

LEMMA ExamineInv == ASSUME RInv, NEW q \in Request, Examine(q) PROVE RInv'
<1> DEFINE s == stack[q]
           f == Doing(q)
<1>1. /\ At(q, "process") /\ s # <<>>
      /\ UNCHANGED <<book, projects, rows, trashed, enabled, entitled, lastId, changes, world, due>>
  BY DEF Examine, At
<1>2. PICK n \in Nat : /\ n = Len(s) /\ n > 0 /\ f \in Processed /\ Follows(book, s, n, f)
                       /\ Top(q) = Last(s) /\ f = Last(s).doing /\ Placed(s, n) /\ Top(q) = s[n]
  BY <1>1, TopFacts
<1>3. StackOK(book, s)
  BY DEF RInv, Stacks
<1>4. /\ f.kind = "process" /\ f.events \in Seq(Event) /\ f.todo \in SUBSET (Nat \X Nat)
      /\ f = [kind |-> "process", events |-> f.events, todo |-> f.todo]
  BY <1>2 DEF Processed
<1>5. InScope(book, f) /\ \A i \in DOMAIN f.events : Descends(s, n, f.events[i])
  BY <1>2, <1>4 DEF Follows
<1>6. PICK x \in f.todo :
         LET e == f.events[x[1]]
             r == RuleOrder[x[2]]
             rest == f.todo \ {x}
             skip == stack' = [stack EXCEPT ![q] = Process(@, f.events, rest)]
         IN  \/ ~RunsOn(r, e) /\ skip /\ UNCHANGED runs
             \/ RunsOn(r, e) /\ LoopGuard(r, e) /\ skip /\ Record(r, e, "SKIPPED")
             \/ /\ RunsOn(r, e) /\ ~LoopGuard(r, e) /\ Record(r, e, "RUNNING")
                /\ stack' = [stack EXCEPT ![q] = Append(Turn(@, [f EXCEPT !.todo = rest]), Starting(r, e))]
  BY DEF Examine
<1> DEFINE e == f.events[x[1]]
           r == RuleOrder[x[2]]
           rest == f.todo \ {x}
           d == [kind |-> "process", events |-> f.events, todo |-> rest]
           t == Process(s, f.events, rest)
           u == Turn(s, d)
<1>7. /\ x[1] \in DOMAIN f.events /\ r \in Rule /\ e \in Event
      /\ book[r].project = NoProject \/ e.project \in {NoProject, book[r].project}
      /\ Descends(s, n, e)
  <2>1. x[1] \in DOMAIN f.events /\ x[2] \in DOMAIN RuleOrder
    BY <1>5 DEF InScope
  <2>2. RuleOrder \in Seq(Rule)
    BY AutomationAssumption
  <2>3. r \in Rule /\ e \in Event
    BY <1>4, <2>1, <2>2
  <2>4. book[r].project = NoProject \/ e.project \in {NoProject, book[r].project}
    BY <1>5 DEF InScope
  <2> QED BY <1>5, <2>1, <2>3, <2>4
<1>8. e \in Live(s)
  <2>1. n \in 1..Len(s) /\ s[n].doing = f
    BY <1>2
  <2> QED BY <1>4, <1>7, <2>1 DEF Live
<1>9. ToSet(f.events) \subseteq Live(s)
  <2>1. n \in 1..Len(s) /\ s[n].doing = f
    BY <1>2
  <2>2. \A i \in DOMAIN f.events : f.events[i] \in Event
    BY <1>4
  <2> QED BY <1>4, <2>1, <2>2 DEF Live, ToSet
<1>10. Follows(book, s, n, d) /\ rest \in SUBSET (Nat \X Nat) /\ d.kind = "process" /\ d.events = f.events /\ d \in Processed
  <2>1. rest \in SUBSET (Nat \X Nat)
    BY <1>4
  <2>2. InScope(book, d)
    BY <1>5 DEF InScope
  <2> QED BY <1>4, <1>5, <2>1, <2>2 DEF Follows, Processed
<1>11. [f EXCEPT !.todo = rest] = d
  BY <1>2, WithRest
<1>12. StackOK(book, t) /\ Working(t) = Working(s) /\ Live(t) \subseteq Live(s)
  <2>1. Follows(book, s, Len(s), [kind |-> "process", events |-> f.events, todo |-> rest])
    BY <1>2, <1>10
  <2> HIDE DEF rest
  <2>2. StackOK(book, t) /\ Working(t) = Working(s) /\ Live(t) \subseteq Live(s) \cup ToSet(f.events)
    BY <1>1, <1>3, <1>4, <1>10, <2>1, GoesThrough
  <2> QED BY <1>9, <2>2
<1>13. /\ StackOK(book, u) /\ u # <<>> /\ Len(u) = n /\ Last(u).doing = d
       /\ Working(u) = Working(s) /\ Live(u) \subseteq Live(s)
  <2>1. n = 1 => d.kind # "idle"
    BY <1>10
  <2>2. d \in {Idle} \cup Asked \cup Written \cup Processed /\ n = Len(s)
    BY <1>2, <1>10
  <2> HIDE DEF d
  <2>3. /\ StackOK(book, u) /\ u # <<>> /\ Len(u) = n /\ Last(u).doing = d
        /\ Working(u) = Working(s)
        /\ Live(u) \subseteq Live(s) \cup (IF d.kind = "process" THEN ToSet(d.events) ELSE {})
    BY <1>1, <1>3, <1>10, <2>1, <2>2, Turned
  <2> QED BY <1>9, <1>10, <2>3
<1>14. ~Announcing(s) /\ \A p \in Request \ {q} : stack'[p] = stack[p]
  <2>1. ~Announcing(s)
    BY <1>2, <1>4 DEF Announcing
  <2>2. \A p \in Request \ {q} : stack'[p] = stack[p]
    BY <1>6 DEF RInv, Types
  <2> QED BY <2>1, <2>2
<1>15. Said'
  BY <1>1, <1>14, SaidFrame DEF rows
<1> HIDE DEF t, u, e
<1>16. CASE stack' = [stack EXCEPT ![q] = t] /\ UNCHANGED runs
  <2>1. Working(t) = Working(stack[q])
    BY <1>12
  <2> QED BY <1>1, <1>12, <1>15, <1>16, <2>1, StackMoves DEF RInv, Types, rows
<1>17. CASE RunsOn(r, e) /\ stack' = [stack EXCEPT ![q] = t] /\ Record(r, e, "SKIPPED")
  <2>1. Working(stack[q]) \subseteq Working(t) /\ "SKIPPED" # "RUNNING" /\ "SKIPPED" \in {"SKIPPED", "RUNNING"}
    BY <1>12
  <2> HIDE DEF s, r
  <2>2. e \in Live(stack[q]) /\ Live(t) \subseteq Live(stack[q])
    BY <1>8, <1>12 DEF s
  <2>3. UNCHANGED <<book, projects, rows, enabled, lastId, world>>
    BY <1>1
  <2> QED BY <1>7, <1>12, <1>15, <1>17, <2>1, <2>2, <2>3, Recorded
<1>18. CASE RunsOn(r, e) /\ ~LoopGuard(r, e) /\ Record(r, e, "RUNNING")
            /\ stack' = [stack EXCEPT ![q] = Append(u, Starting(r, e))]
  <2> DEFINE l == Starting(r, e)
             v == Append(u, l)
  <2>1. /\ l \in Level /\ l.work \in Work /\ l.doing.kind # "process"
        /\ l.work.rule = r /\ l.work.event = e /\ l.work.key = RunKey(r, e)
    <3>1. RunKey(r, e) \in EventKey /\ book[r].actions \in Seq(Status)
      <4>1. e.project \in ToSet(ProjectsOf(e.task))
        BY <1>8 DEF RInv, Ids
      <4>2. book[r] \in Book
        BY <1>7 DEF RInv, Types
      <4> QED BY <1>7, <1>18, <4>1, <4>2, KeyOfRun DEF Book
    <3>2. l = [work |-> [rule |-> r, event |-> e, key |-> RunKey(r, e), todo |-> book[r].actions,
                         outcome |-> "SUCCESS"],
               doing |-> Idle]
      BY DEF Starting
    <3> QED BY <1>7, <3>1, <3>2 DEF Level, Work, Idle
  <2> HIDE DEF l
  <2>2. Descends(u, n, e)
    <3>1. PICK m \in Nat : m = Len(u) /\ m > 0 /\ Last(u) = u[m] /\ \A i \in 1..m : Follows(book, u, i, u[i].doing)
      BY <1>13, StackFacts
    <3>2. Follows(book, u, n, d)
      BY <1>13, <3>1
    <3> QED BY <1>7, <1>10, <3>2 DEF Follows, e
  <2>3. e.depth = n - 1 /\ n <= MaxDepth /\ r \notin ToSet(e.chain)
    <3>1. e.depth = n - 1
      BY <1>7 DEF Descends
    <3>2. ~(e.depth >= MaxDepth) /\ r \notin ToSet(e.chain) /\ MaxDepth \in Nat
      BY <1>18, AutomationAssumption DEF LoopGuard
    <3> QED BY <1>2, <3>1, <3>2
  <2>4. /\ StackOK(book, v) /\ Live(v) \subseteq Live(s)
        /\ Working(v) = Working(s) \cup {<<r, RunKey(r, e)>>}
    <3>1. Last(u).doing.kind = "process" /\ n = Len(u) /\ Descends(u, n, l.work.event)
          /\ l.work.rule \notin ToSet(l.work.event.chain)
      BY <1>10, <1>13, <2>1, <2>2, <2>3
    <3>2. /\ StackOK(book, v) /\ Live(v) \subseteq Live(u)
          /\ Working(v) = Working(u) \cup {<<l.work.rule, l.work.key>>}
      <4> HIDE DEF d, r
      <4> QED BY <1>13, <2>1, <2>3, <3>1, Pushed
    <3> QED BY <1>13, <2>1, <3>2
  <2>5. stack' = [stack EXCEPT ![q] = v]
    BY <1>18 DEF l
  <2> HIDE DEF v
  <2>6. /\ Working(stack[q]) \subseteq Working(v) /\ "RUNNING" \in {"SKIPPED", "RUNNING"}
        /\ <<r, RunKey(r, e)>> \in Working(v)
    BY <2>4
  <2> HIDE DEF s, r
  <2>7. e \in Live(stack[q]) /\ Live(v) \subseteq Live(stack[q])
    BY <1>8, <2>4 DEF s
  <2>8. UNCHANGED <<book, projects, rows, enabled, lastId, world>>
    BY <1>1
  <2> QED BY <1>7, <1>15, <1>18, <2>4, <2>5, <2>6, <2>7, <2>8, Recorded
<1> QED BY <1>6, <1>11, <1>16, <1>17, <1>18 DEF t, u, e

LEMMA FinishRunInv == ASSUME RInv, NEW q \in Request, FinishRun(q) PROVE RInv'
<1> DEFINE s == stack[q]
           w == Top(q).work
           u == Front(s)
           t == Resume(u)
           Over(run) == IF run.rule = w.rule /\ run.key = w.key THEN [run EXCEPT !.status = w.outcome] ELSE run
<1>1. /\ At(q, "idle") /\ s # <<>> /\ stack' = [stack EXCEPT ![q] = t]
      /\ runs' = {Over(run) : run \in runs}
      /\ UNCHANGED <<book, projects, rows, trashed, enabled, entitled, lastId, changes, world, due>>
  BY DEF FinishRun, At
<1>2. PICK n \in Nat : n + 1 = Len(s) /\ n > 0 /\ Top(q) = Last(s) /\ w \in Work
                       /\ Doing(q) = Last(s).doing
  <2>1. PICK m \in Nat : m = Len(s) /\ m > 1 /\ Top(q) = Last(s) /\ w \in Work /\ Doing(q) = Last(s).doing
    BY <1>1, TopFacts
  <2>2. m - 1 \in Nat /\ (m - 1) + 1 = m /\ m - 1 > 0
    BY <2>1
  <2> QED BY <2>1, <2>2
<1>3. StackOK(book, s)
  BY DEF RInv, Stacks
<1>4. /\ StackOK(book, u) /\ u # <<>> /\ Len(u) = n
      /\ Last(u).doing.kind = "process"
      /\ Working(s) = Working(u) \cup {<<w.rule, w.key>>}
      /\ Live(u) \subseteq Live(s)
  <2>1. n + 1 = Len(s) /\ n > 0
    BY <1>2
  <2> QED BY <1>2, <1>3, <2>1, Popped
<1> HIDE DEF u
<1> DEFINE f == Last(u).doing
<1>5. PICK m \in Nat : /\ m = Len(u) /\ m > 0 /\ Last(u) = u[m] /\ Last(u) \in Level
                       /\ Follows(book, u, m, u[m].doing)
  BY <1>4, StackFacts
<1>6. f \in Processed
  BY <1>4, <1>5 DEF Level, Idle, Asked, Written
<1>7. /\ f.events \in Seq(Event) /\ f.todo \in SUBSET (Nat \X Nat)
      /\ f = [kind |-> "process", events |-> f.events, todo |-> f.todo]
  BY <1>6 DEF Processed
<1>8. ToSet(f.events) \subseteq Live(u)
  <2>1. m \in 1..Len(u) /\ u[m].doing = f /\ f.kind = "process"
    BY <1>4, <1>5
  <2>2. \A i \in DOMAIN f.events : f.events[i] \in Event
    BY <1>7
  <2> QED BY <2>1, <2>2 DEF Live, ToSet
<1>9. StackOK(book, t) /\ Working(t) = Working(u) /\ Live(t) \subseteq Live(u)
  <2>1. Follows(book, u, Len(u), [kind |-> "process", events |-> f.events, todo |-> f.todo])
    BY <1>5, <1>7
  <2>2. t = Process(u, f.events, f.todo)
    BY DEF Resume
  <2> HIDE DEF f, t
  <2>3. StackOK(book, t) /\ Working(t) = Working(u) /\ Live(t) \subseteq Live(u) \cup ToSet(f.events)
    BY <1>4, <1>7, <2>1, <2>2, GoesThrough
  <2> QED BY <1>8, <2>3 DEF f
<1> HIDE DEF t, f
<1>10. Live(t) \subseteq Live(stack[q])
  BY <1>4, <1>9
<1>11. /\ Stacks' /\ Ids' /\ stack' \in [Request -> Seq(Level)]
       /\ stack'[q] = t /\ \A p \in Request \ {q} : stack'[p] = stack[p]
       /\ \A p \in Request : Live(stack'[p]) \subseteq Live(stack[p])
  <2> HIDE DEF s
  <2> QED BY <1>1, <1>9, <1>10, EventsFrame
<1>12. \A x \in runs : /\ Over(x) \in RunRow /\ Over(x).rule = x.rule /\ Over(x).key = x.key /\ Over(x).id = x.id
                       /\ Over(x).status = "RUNNING" => Over(x) = x /\ <<x.rule, x.key>> # <<w.rule, w.key>>
  <2> SUFFICES ASSUME NEW x \in runs
               PROVE  /\ Over(x) \in RunRow /\ Over(x).rule = x.rule /\ Over(x).key = x.key /\ Over(x).id = x.id
                      /\ Over(x).status = "RUNNING" => Over(x) = x /\ <<x.rule, x.key>> # <<w.rule, w.key>>
    OBVIOUS
  <2>1. x \in RunRow
    BY DEF RInv, Types
  <2>2. w.outcome \in {"SUCCESS", "ERROR"}
    BY <1>2 DEF Work
  <2> HIDE DEF w
  <2>3. CASE x.rule = w.rule /\ x.key = w.key
    BY <2>1, <2>2, <2>3 DEF RunRow
  <2>4. CASE ~(x.rule = w.rule /\ x.key = w.key)
    BY <2>1, <2>4
  <2> QED BY <2>3, <2>4
<1> HIDE DEF Over
<1>13. Types'
  <2>1. runs' \subseteq RunRow
    BY <1>1, <1>12
  <2> QED BY <1>1, <1>11, <2>1 DEF RInv, Types, rows
<1>14. Keys'
  <2>1. ASSUME NEW y \in runs'
        PROVE  /\ y.id[2] <= lastId[y.id[1]]
               /\ \A p \in Request : \A e \in Live(stack'[p]) :
                     e.id = y.id => y.key = <<y.id, Where(y.rule, e.task)>>
    <3>1. PICK x \in runs : y = Over(x)
      BY <1>1
    <3>2. y.rule = x.rule /\ y.key = x.key /\ y.id = x.id
      BY <1>12, <3>1
    <3> QED BY <1>11, <3>2 DEF RInv, Keys
  <2> QED BY <1>1, <2>1 DEF Keys, Where
<1>15. OncePerChange'
  <2>1. ASSUME NEW a \in runs', NEW b \in runs', a.rule = b.rule, a.id = b.id PROVE a = b
    <3>1. PICK x \in runs, y \in runs : a = Over(x) /\ b = Over(y)
      BY <1>1
    <3>2. x.rule = y.rule /\ x.id = y.id
      BY <1>12, <2>1, <3>1
    <3>3. x = y
      BY <3>2 DEF RInv, OncePerChange
    <3> QED BY <3>1, <3>3
  <2> QED BY <2>1 DEF OncePerChange
<1>16. Held'
  <2>1. ASSUME world = 0, NEW y \in runs', y.status = "RUNNING"
        PROVE  \E p \in Request : <<y.rule, y.key>> \in Working(stack'[p])
    <3>1. PICK x \in runs : y = Over(x)
      BY <1>1
    <3>2. y = x /\ <<x.rule, x.key>> # <<w.rule, w.key>>
      BY <1>12, <2>1, <3>1
    <3>3. PICK p \in Request : <<x.rule, x.key>> \in Working(stack[p])
      BY <2>1, <3>2 DEF RInv, Held
    <3>4. CASE p = q
      BY <1>4, <1>9, <1>11, <3>2, <3>3, <3>4
    <3>5. CASE p # q
      BY <1>11, <3>2, <3>3, <3>5
    <3> QED BY <3>4, <3>5
  <2> QED BY <1>1, <2>1 DEF Held
<1>17. Said'
  <2>1. ~Announcing(s)
    BY <1>1, <1>2 DEF Announcing, At
  <2> QED BY <1>1, <1>11, <2>1, SaidFrame DEF rows
<1> QED BY <1>11, <1>13, <1>14, <1>15, <1>16, <1>17 DEF RInv

-----------------------------------------------------------------------------
(* The theorems.                                                           *)

LEMMA InitInv == Init => RInv
<1> SUFFICES ASSUME Init PROVE RInv
  OBVIOUS
<1>1. \A q \in Request : stack[q] = <<>>
  BY DEF Init
<1>2. StackOK(book, <<>>) /\ Live(<<>>) = {} /\ Working(<<>>) = {}
  BY DEF StackOK, Live, Working
<1>3. Types
  <2>1. book \in [Rule -> Book] /\ projects \in Seq(Project)
    BY AutomationAssumption DEF Init, Book
  <2>2. <<>> \in Seq(Level) /\ 0 \in Nat
    OBVIOUS
  <2> QED BY <2>1, <2>2 DEF Init, Types
<1>4. Stacks /\ Ids
  BY <1>1, <1>2 DEF Stacks, Ids
<1>5. Keys /\ OncePerChange /\ Held /\ Said
  BY DEF Init, Keys, OncePerChange, Held, Said
<1> QED BY <1>3, <1>4, <1>5 DEF RInv

LEMMA StutterInv == ASSUME RInv, UNCHANGED vars PROVE RInv'
<1>1. UNCHANGED <<book, projects, status, version, trashed, enabled, stack, runs, lastId, world, due>>
  BY DEF vars, rows
<1>2. Types'
  BY <1>1 DEF RInv, Types
<1>3. Stacks'
  BY <1>1 DEF RInv, Stacks
<1>4. Ids'
  BY <1>1 DEF RInv, Ids, ProjectsOf
<1>5. Keys' /\ OncePerChange'
  BY <1>1 DEF RInv, Keys, Where, OncePerChange
<1>6. Held'
  BY <1>1 DEF RInv, Held
<1>7. Said'
  BY <1>1 DEF RInv, Said, AllDone, Announcing, Subtasks
<1> QED BY <1>2, <1>3, <1>4, <1>5, <1>6, <1>7 DEF RInv

LEMMA NextInv == ASSUME RInv, [Next]_vars PROVE RInv'
<1>1. ASSUME NEW q \in Request, Step(q) PROVE RInv'
  BY <1>1, ReadInv, WriteInv, EmitInv, ExamineInv, ActInv, FinishRunInv DEF Step
<1>2. ASSUME NEW q \in Request, NEW t \in Task, NEW to \in Status, UserChange(q, t, to) PROVE RInv'
  BY <1>2, UserChangeInv
<1>3. ASSUME NEW q \in Request, Crash(q) PROVE RInv'
  BY <1>3, CrashInv
<1>4. ASSUME NEW q \in Request, EngineFails(q) PROVE RInv'
  BY <1>4, EngineFailsInv
<1>5. CASE Meanwhile
  BY <1>5, MeanwhileInv
<1>6. CASE UNCHANGED vars
  BY <1>6, StutterInv
<1> QED BY <1>1, <1>2, <1>3, <1>4, <1>5, <1>6 DEF Next

\* The inductive invariant: every level of every request handles events that descend from
\* the rules below it, identifiers and keys of runs are not given twice, and a completion
\* that nothing has announced is at the request that is about to.
THEOREM RulesInvariant == Spec => []RInv
<1>1. RInv /\ [Next]_vars => RInv'
  BY NextInv
<1> QED BY <1>1, InitInv, PTL DEF Spec

LEMMA AtWorkOf ==
    ASSUME RInv, NEW q \in Request
    PROVE  \E m \in Nat : /\ m <= MaxDepth /\ Len(AtWork(q)) = m /\ DOMAIN AtWork(q) = 1..m
                          /\ Working(stack[q]) = {<<AtWork(q)[i].rule, AtWork(q)[i].key>> : i \in 1..m}
                          /\ \A i \in 1..m :
                                /\ AtWork(q)[i].event.chain = [j \in 1..(i - 1) |-> AtWork(q)[j].rule]
                                /\ AtWork(q)[i].rule \notin ToSet(AtWork(q)[i].event.chain)
<1> DEFINE s == stack[q]
<1>1. StackOK(book, s)
  BY DEF RInv, Stacks
<1>2. CASE s = <<>>
  <2>1. AtWork(q) = [i \in 1..0 |-> s[i + 1].work]
    <3>1. 1..(Len(s) - 1) = 1..0
      BY <1>2
    <3> QED BY <3>1 DEF AtWork
  <2>2. AtWork(q) = <<>> /\ 0 <= MaxDepth
    BY <2>1, AutomationAssumption
  <2>3. Working(s) = {}
    BY <1>2 DEF Working
  <2>4. Len(AtWork(q)) = 0 /\ DOMAIN AtWork(q) = 1..0
    BY <2>2
  <2> QED BY <2>2, <2>3, <2>4
<1>3. CASE s # <<>>
  <2>1. PICK n \in Nat : n = Len(s) /\ n > 0 /\ \A i \in 1..n : Placed(s, i)
    BY <1>1, <1>3, StackFacts
  <2>2. PICK m \in Nat : m + 1 = n /\ n - 1 = m
    BY <2>1
  <2>3. AtWork(q) = [i \in 1..m |-> s[i + 1].work]
    BY <2>1, <2>2 DEF AtWork
  <2>4. Len(AtWork(q)) = m /\ DOMAIN AtWork(q) = 1..m /\ \A i \in 1..m : AtWork(q)[i] = s[i + 1].work
    BY <2>3
  <2>5. m <= MaxDepth
    <3>1. CASE m = 0
      BY <3>1, AutomationAssumption
    <3>2. CASE m > 0
      <4>1. n > 1 /\ n \in 1..n
        BY <2>1, <2>2, <3>2
      <4>2. n <= MaxDepth + 1
        BY <2>1, <4>1 DEF Placed
      <4> QED BY <2>2, <4>2, AutomationAssumption
    <3>3. m = 0 \/ m > 0
      OBVIOUS
    <3> QED BY <3>1, <3>2, <3>3
  <2>6. Working(s) = {<<AtWork(q)[i].rule, AtWork(q)[i].key>> : i \in 1..m}
    <3>1. \A i \in 2..n : i - 1 \in 1..m /\ s[i].work = AtWork(q)[i - 1]
      <4> SUFFICES ASSUME NEW i \in 2..n PROVE i - 1 \in 1..m /\ s[i].work = AtWork(q)[i - 1]
        OBVIOUS
      <4>1. i - 1 \in 1..m /\ (i - 1) + 1 = i
        BY <2>2
      <4> QED BY <2>4, <4>1
    <3>2. \A i \in 1..m : i + 1 \in 2..n /\ s[i + 1].work = AtWork(q)[i]
      BY <2>2, <2>4
    <3>3. Working(s) = {<<s[i].work.rule, s[i].work.key>> : i \in 2..n}
      BY <2>1 DEF Working
    <3> QED BY <3>1, <3>2, <3>3
  <2>7. ASSUME NEW i \in 1..m
        PROVE  /\ AtWork(q)[i].event.chain = [j \in 1..(i - 1) |-> AtWork(q)[j].rule]
               /\ AtWork(q)[i].rule \notin ToSet(AtWork(q)[i].event.chain)
    <3>1. i + 1 \in 1..n /\ i + 1 > 1 /\ (i + 1) - 1 = i
      BY <2>2
    <3>2. Descends(s, i, s[i + 1].work.event) /\ s[i + 1].work.rule \notin ToSet(s[i + 1].work.event.chain)
      BY <2>1, <3>1 DEF Placed
    <3>3. s[i + 1].work.event.chain = [j \in 1..(i - 1) |-> s[j + 1].work.rule]
      BY <3>2 DEF Descends, Chained
    <3>4. \A j \in 1..(i - 1) : AtWork(q)[j] = s[j + 1].work
      BY <2>4
    <3> QED BY <2>4, <3>2, <3>3, <3>4
  <2> QED BY <2>4, <2>5, <2>6, <2>7
<1> QED BY <1>2, <1>3

\* The chain of an event is the rules at work below it, no rule works inside itself, and a
\* run recorded as running is at work unless a process has stopped or a query has failed; a
\* change runs a rule once.
THEOREM RulesHold == Spec => []RulesInv
<1>1. RInv => ChainIsTheStack
  <2> SUFFICES ASSUME RInv, NEW q \in Request
               PROVE  /\ Len(AtWork(q)) <= MaxDepth
                      /\ \A i \in DOMAIN AtWork(q) : AtWork(q)[i].event.chain = [j \in 1..(i - 1) |-> AtWork(q)[j].rule]
                      /\ \A i, j \in DOMAIN AtWork(q) : i # j => AtWork(q)[i].rule # AtWork(q)[j].rule
    BY DEF ChainIsTheStack
  <2> DEFINE at == AtWork(q)
  <2>1. PICK m \in Nat : /\ m <= MaxDepth /\ Len(at) = m /\ DOMAIN at = 1..m
                         /\ \A i \in 1..m : /\ at[i].event.chain = [j \in 1..(i - 1) |-> at[j].rule]
                                            /\ at[i].rule \notin ToSet(at[i].event.chain)
    BY AtWorkOf
  <2> HIDE DEF at
  <2>2. ASSUME NEW i \in 1..m, NEW j \in 1..m, i < j PROVE at[i].rule # at[j].rule
    <3>1. i \in 1..(j - 1)
      BY <2>2
    <3> DEFINE c == [k \in 1..(j - 1) |-> at[k].rule]
    <3>2. at[i].rule \in ToSet(at[j].event.chain)
      <4>1. DOMAIN c = 1..(j - 1) /\ c[i] = at[i].rule
        BY <3>1
      <4>2. c[i] \in ToSet(c)
        BY <3>1, <4>1 DEF ToSet
      <4> QED BY <2>1, <4>1, <4>2
    <3> QED BY <2>1, <3>2
  <2>3. ASSUME NEW i \in 1..m, NEW j \in 1..m, i # j PROVE at[i].rule # at[j].rule
    <3>1. i < j \/ j < i
      BY <2>3
    <3> QED BY <2>2, <3>1
  <2> QED BY <2>1, <2>3 DEF at
<1>2. RInv => RunningIsAtWork
  <2> SUFFICES ASSUME RInv, world = 0, NEW x \in runs, x.status = "RUNNING"
               PROVE  \E q \in Request : \E i \in DOMAIN AtWork(q) :
                         AtWork(q)[i].rule = x.rule /\ AtWork(q)[i].key = x.key
    BY DEF RunningIsAtWork
  <2>1. PICK q \in Request : <<x.rule, x.key>> \in Working(stack[q])
    BY DEF RInv, Held
  <2>2. PICK m \in Nat : /\ DOMAIN AtWork(q) = 1..m
                         /\ Working(stack[q]) = {<<AtWork(q)[i].rule, AtWork(q)[i].key>> : i \in 1..m}
    BY AtWorkOf
  <2> QED BY <2>1, <2>2
<1>3. RInv => RulesInv
  BY <1>1, <1>2 DEF RInv, RulesInv
<1> QED BY <1>3, RulesInvariant, PTL

\* Whatever the interleaving, when the last open subtask is closed and nobody has said so,
\* a request is about to.
THEOREM CompletionIsAnnounced == Spec => []CompletionAnnounced
<1>1. RInv => CompletionAnnounced
  BY DEF RInv, Said, Announcing, CompletionAnnounced, At, Doing, Top
<1> QED BY <1>1, RulesInvariant, PTL
=============================================================================
