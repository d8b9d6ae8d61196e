-------------------------------- MODULE MCLogin --------------------------------
(***************************************************************************)
(* Instances of Accounts (two) and of LegacyTasks for TLC, one per         *)
(* scene: attempts on two accounts from one source, the sessions of one     *)
(* account, and the operator's migrations of a task.                        *)
(***************************************************************************)
EXTENDS Accounts, LegacyTasks, TLC

CONSTANTS e1, e2, i1

VARIABLE scene

accountVars == <<vars, sessionVars, legacyVars, scene>>

MCMax == (e1 :> 1) @@ (e2 :> 1) @@ (i1 :> 2)

Symmetry == Permutations(Attempt) \cup Permutations(Visit)

\* Bound: one attempt is interrupted.
OneStops == Cardinality({a \in Attempt : pc[a] = "stopped"}) <= 1

NoLegacy == LegacyInit /\ old /\ dated /\ author = Nobody

\* Two attempts at least are on the same account; the two accounts are alike.
TwoAlike == Cardinality({a \in Attempt : account[a] = e1}) >= 2

\* Attempts that are not made.
NoAttempts == Init /\ account = [a \in Attempt |-> e1]

AccountsInit ==
    /\ SessionsInit
    /\ \/ scene = "attempts" /\ Init /\ TwoAlike /\ NoLegacy
       \/ scene = "sessions" /\ NoAttempts /\ NoLegacy
       \/ scene = "legacy" /\ NoAttempts /\ LegacyInit

AccountsNext ==
    /\ UNCHANGED scene
    /\ \/ scene = "attempts" /\ Next /\ UNCHANGED <<sessionVars, legacyVars>>
       \/ scene = "sessions" /\ SessionsNext /\ UNCHANGED <<vars, legacyVars>>
       \/ scene = "legacy" /\ LegacyNext /\ UNCHANGED <<vars, sessionVars>>

AccountsSpec == AccountsInit /\ [][AccountsNext]_accountVars
=============================================================================
