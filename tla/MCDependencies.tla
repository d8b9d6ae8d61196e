---------------------------- MODULE MCDependencies ----------------------------
(***************************************************************************)
(* Instance of Dependencies for TLC: tasks that may be linked, trashed,    *)
(* erased and copied by two requests at a time.                            *)
(***************************************************************************)
EXTENDS Dependencies

\* Bound: the other operations a request carries, a copy of one task or of two.
MCOp ==
    {o \in AddOp : o.blocking # o.blocked}
    \cup [do : {"create", "trash", "restore", "purge"}, task : Task]
    \cup {[do |-> "copy", copies |-> f] : f \in UNION {[S -> Task] : S \in {T \in SUBSET Task : Cardinality(T) = 2}}}

\* A request that could do nothing is not sent.
Useful(o) ==
    CASE o.do = "add"     -> TRUE
      [] o.do = "create"  -> life[o.task] = "unborn"
      [] o.do = "trash"   -> life[o.task] = "active"
      [] o.do = "restore" -> life[o.task] = "trashed"
      [] o.do = "purge"   -> life[o.task] = "trashed"
      [] OTHER -> \A t \in DOMAIN o.copies : Active(t) /\ life[o.copies[t]] = "unborn"

\* Bounds: one request at a time is not an addition, and one task is erased.
Few(o) ==
    /\ o.do # "add" => \A r \in Request : pc[r] # "idle" => op[r].do = "add"
    /\ o.do = "purge" => \A t \in Task : life[t] # "gone"

MCNext ==
    \/ \E r \in Request : Step(r) \/ \E o \in MCOp : Useful(o) /\ Few(o) /\ Send(r, o)
    \/ \E e \in edge : RemoveDependency(e)

MCSpec == Init /\ [][MCNext]_vars /\ \A r \in Request : WF_vars(Step(r))
=============================================================================
