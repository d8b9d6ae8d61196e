----------------------------- MODULE LoginThrottle -----------------------------
(***************************************************************************)
(* Attempts to log in (login/actions.ts) and the two counters that limit   *)
(* them (rate-limit.ts): an attempt is recorded as a failure, then counted, *)
(* query by query and without a lock, before the password is looked at.    *)
(***************************************************************************)
EXTENDS Naturals, FiniteSets

CONSTANTS
    Attempt,
    Account,    \* scopes "email:..."
    Source,     \* scopes "ip:..."
    Max,        \* MAX_FAILURES_PER_EMAIL and MAX_FAILURES_PER_IP, by scope
    Window,     \* WINDOW_MS, in ticks
    Retention   \* RETENTION_MS, in ticks

ASSUME ThrottleAssumption ==
    /\ IsFiniteSet(Attempt)
    /\ Account \cap Source = {}
    /\ Max \in [Account \cup Source -> Nat]
    /\ Window \in Nat /\ Retention \in Nat /\ Window <= Retention

Scope == Account \cup Source

VARIABLES
    pc,         \* where each attempt is
    account, source,   \* what it is for and where it comes from
    row,        \* row[a][k]: the attempt's row in scope k, if any: "failed" or "successful"
    age,        \* ticks since the rows were inserted
    sinceAge,   \* age at which the attempt took its window
    \* History: the scopes whose counter let the attempt through, whether it has logged
    \* in, whether a login of its account succeeded since it was recorded.
    passed, loggedIn, forgiven

vars == <<pc, account, source, row, age, sinceAge, passed, loggedIn, forgiven>>
history == <<passed, loggedIn, forgiven>>
fixed == <<account, source>>

ScopesOf(a) == {account[a], source[a]}

\* Rows older than this no longer matter to anything.
Oldest == Retention + 1

Place == {"unborn", "recorded", "countAccount", "countSource", "over", "gone",
          "checking", "refused", "matched", "marked", "in", "stopped"}

TypeOK ==
    /\ pc \in [Attempt -> Place]
    /\ account \in [Attempt -> Account] /\ source \in [Attempt -> Source]
    /\ row \in [Attempt -> [Scope -> {"none", "failed", "successful"}]]
    /\ \A a \in Attempt : \A k \in Scope \ ScopesOf(a) : row[a][k] = "none"
    /\ age \in [Attempt -> 0..Oldest] /\ sinceAge \in [Attempt -> 0..Oldest]
    /\ passed \in [Attempt -> SUBSET Scope] /\ \A a \in Attempt : passed[a] \subseteq ScopesOf(a)
    /\ loggedIn \in [Attempt -> BOOLEAN] /\ forgiven \in [Attempt -> BOOLEAN]

Init ==
    /\ pc = [a \in Attempt |-> "unborn"]
    /\ account \in [Attempt -> Account] /\ source \in [Attempt -> Source]
    /\ row = [a \in Attempt |-> [k \in Scope |-> "none"]]
    /\ age = [a \in Attempt |-> 0] /\ sinceAge = [a \in Attempt |-> 0]
    /\ passed = [a \in Attempt |-> {}]
    /\ loggedIn = [a \in Attempt |-> FALSE] /\ forgiven = [a \in Attempt |-> FALSE]

GoTo(a, place) == pc' = [pc EXCEPT ![a] = place]

\* One INSERT, a row in each scope.
Record(a) ==
    /\ pc[a] = "unborn"
    /\ GoTo(a, "recorded")
    /\ row' = [row EXCEPT ![a] = [k \in Scope |-> IF k \in ScopesOf(a) THEN "failed" ELSE "none"]]
    /\ UNCHANGED <<fixed, age, sinceAge, history>>

\* The start of the window, once the INSERT has answered.
TakeWindow(a) ==
    /\ pc[a] = "recorded"
    /\ GoTo(a, "countAccount")
    /\ sinceAge' = [sinceAge EXCEPT ![a] = age[a]]
    /\ UNCHANGED <<fixed, row, age, history>>

\* The window of a reaches back Window ticks before the instant it was taken.
InWindowOf(a, b) == age[b] <= Window + (age[a] - sinceAge[a])

Counted(a, k) == {b \in Attempt : row[b][k] = "failed" /\ InWindowOf(a, b)}

\* Seeded fault: an attempt counts the failures already established only.
UnderEstablished(a, k) ==
    Cardinality({b \in Counted(a, k) : pc[b] \in {"refused", "stopped"}}) < Max[k]

\* countFailures: the attempt counts itself.
Under(a, k) == Cardinality(Counted(a, k)) <= Max[k]

Count(a, k, next) ==
    /\ IF Under(a, k)
       THEN GoTo(a, next) /\ passed' = [passed EXCEPT ![a] = @ \cup {k}]
       ELSE GoTo(a, "over") /\ UNCHANGED passed
    /\ UNCHANGED <<fixed, row, age, sinceAge, loggedIn, forgiven>>

CountAccount(a) == pc[a] = "countAccount" /\ Count(a, account[a], "countSource")

CountSource(a) == pc[a] = "countSource" /\ Count(a, source[a], "checking")

Erase(r, a) == [r EXCEPT ![a] = [k \in Scope |-> "none"]]

\* Seeded fault: a blocked attempt stays counted.
GiveUpCounted(a) ==
    /\ pc[a] = "over"
    /\ GoTo(a, "gone")
    /\ UNCHANGED <<fixed, row, age, sinceAge, history>>

\* A blocked attempt takes its rows away.
GiveUp(a) ==
    /\ pc[a] = "over"
    /\ GoTo(a, "gone")
    /\ row' = Erase(row, a)
    /\ UNCHANGED <<fixed, age, sinceAge, history>>

\* The password is wrong, the account unknown or disabled: the attempt stays a failure.
Refuse(a) ==
    /\ pc[a] = "checking"
    /\ GoTo(a, "refused")
    /\ UNCHANGED <<fixed, row, age, sinceAge, history>>

Match(a) ==
    /\ pc[a] = "checking"
    /\ GoTo(a, "matched")
    /\ UNCHANGED <<fixed, row, age, sinceAge, history>>

\* recordLoginSuccess, first query: the attempt's own rows, if they are still there.
MarkSuccessful(a) ==
    /\ pc[a] = "matched"
    /\ GoTo(a, "marked")
    /\ row' = [row EXCEPT ![a] = [k \in Scope |-> IF @[k] = "none" THEN "none" ELSE "successful"]]
    /\ loggedIn' = [loggedIn EXCEPT ![a] = TRUE]
    /\ UNCHANGED <<fixed, age, sinceAge, passed, forgiven>>

\* Seeded fault: the counter of the source is reset as well.
ResetAccountAndSource(a) ==
    /\ pc[a] = "marked"
    /\ GoTo(a, "in")
    /\ row' = [b \in Attempt |-> [row[b] EXCEPT ![account[a]] = "none", ![source[a]] = "none"]]
    /\ forgiven' = [b \in Attempt |-> forgiven[b] \/ (account[b] = account[a] /\ pc[b] # "unborn")]
    /\ UNCHANGED <<fixed, age, sinceAge, passed, loggedIn>>

\* Second query: the counter of the account starts again, whatever is under way on it.
ResetAccount(a) ==
    /\ pc[a] = "marked"
    /\ GoTo(a, "in")
    /\ row' = [b \in Attempt |-> [row[b] EXCEPT ![account[a]] = "none"]]
    /\ forgiven' = [b \in Attempt |-> forgiven[b] \/ (account[b] = account[a] /\ pc[b] # "unborn")]
    /\ UNCHANGED <<fixed, age, sinceAge, passed, loggedIn>>

\* purgeOldLoginAttempts, after a success.
PurgeOld(a) ==
    /\ pc[a] = "in"
    /\ GoTo(a, "gone")
    /\ row' = [b \in Attempt |-> IF age[b] > Retention THEN [k \in Scope |-> "none"] ELSE row[b]]
    /\ UNCHANGED <<fixed, age, sinceAge, history>>

\* The process stops, or a query fails: what is recorded stays.  (One that stops at "over"
\* never leaves that place.)
Stop(a) ==
    /\ pc[a] \notin {"unborn", "over", "gone", "refused", "stopped"}
    /\ GoTo(a, "stopped")
    /\ UNCHANGED <<fixed, row, age, sinceAge, history>>

Tick ==
    /\ \E a \in Attempt : pc[a] # "unborn" /\ age[a] < Oldest
    /\ age' = [a \in Attempt |-> IF pc[a] = "unborn" \/ age[a] = Oldest THEN age[a] ELSE age[a] + 1]
    /\ UNCHANGED <<pc, fixed, row, sinceAge, history>>

Step(a) ==
    \/ Record(a) \/ TakeWindow(a) \/ CountAccount(a) \/ CountSource(a) \/ GiveUp(a)
    \/ Refuse(a) \/ Match(a) \/ MarkSuccessful(a) \/ ResetAccount(a) \/ PurgeOld(a) \/ Stop(a)

Next == Tick \/ \E a \in Attempt : Step(a)

Spec == Init /\ [][Next]_vars

(***************************************************************************)
(* Properties                                                              *)
(***************************************************************************)

\* Attempts of the last Window ticks let through by the counter of k, that no other counter
\* has blocked and that have not logged in, since the last success on k if it is an account.
LetThrough(k) ==
    {a \in Attempt : /\ k \in passed[a] /\ age[a] <= Window
                     /\ pc[a] \notin {"over", "gone"} /\ ~loggedIn[a]
                     /\ k \in Account => ~forgiven[a]}

\* While the rows of an attempt can count they are in the table: nothing but its own
\* answer and a login of its account takes them away.
RowsStand ==
    \A a \in Attempt : \A k \in ScopesOf(a) :
        /\ pc[a] \notin {"unborn", "gone"} /\ ~loggedIn[a] /\ age[a] <= Window
        /\ k \in Account => ~forgiven[a]
        => row[a][k] = "failed"

ThrottleInv ==
    /\ TypeOK
    /\ RowsStand
    /\ \A a \in Attempt :
          /\ sinceAge[a] <= age[a]
          /\ pc[a] \in {"marked", "in"} => loggedIn[a]
          /\ pc[a] = "unborn" => passed[a] = {}

\* However attempts interleave, crash or succeed meanwhile, at most the maximum goes
\* through a counter in a window ("au plus max d'entre elles trouvent un compteur sous
\* le seuil").
AtMostMax == \A k \in Scope : Cardinality(LetThrough(k)) <= Max[k]

\* What may weigh on an attempt in scope k: attempts still under way or interrupted, and
\* those the counters let through; not one that was blocked and has gone.
Weighs(a, k) ==
    {b \in Attempt \ {a} : /\ k \in ScopesOf(b) /\ InWindowOf(a, b)
                           /\ pc[b] \notin {"unborn", "gone"}
                           /\ ~loggedIn[b] /\ (k \in Account => ~forgiven[b])}

BlockedNow(a) == pc[a] # "over" /\ pc'[a] = "over"

CauseOfBlock ==
    \A a \in Attempt : BlockedNow(a) => \E k \in ScopesOf(a) : Cardinality(Weighs(a, k)) >= Max[k]

\* An attempt is blocked only by as many others as the maximum, none of them a blocked
\* attempt that has answered, nor one before the last success of the account.
BlockedForCause == [][CauseOfBlock]_vars
=============================================================================
