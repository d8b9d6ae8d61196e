------------------------------- MODULE MCStore ---------------------------------
(***************************************************************************)
(* Instance of ClientStore for TLC: two windows and two rows.               *)
(***************************************************************************)
EXTENDS ClientStore, TLC

CONSTANTS t1, t2, v1, v2, v3, w1, w2

\* The first row is edited, removed and restored by both users; only the first user types
\* two different values and creates the second row, the other one removes it too.
MCTyped == (w1 :> ((t1 :> {v2, v3}) @@ (t2 :> {v1}))) @@ (w2 :> ((t1 :> {v3}) @@ (t2 :> {})))
MCInitial == {(t1 :> v1) @@ (t2 :> Absent)}
=============================================================================
