----------------------------- MODULE MCAutomations -----------------------------
(***************************************************************************)
(* Instance of Automations for TLC: a task with two subtasks, books of      *)
(* rules that start each other in a ring or at the completion of subtasks.  *)
(***************************************************************************)
EXTENDS Automations, TLC

CONSTANTS r1, r2, r3, A, B

On(trigger, to, project, actions) == [trigger |-> trigger, to |-> to, project |-> project, actions |-> actions]

\* Three rules that turn a task round and round, one of them in a project.
Ring(p) ==
    (r1 :> On("STATUS_CHANGED", "DOING", NoProject, <<Done>>))
    @@ (r2 :> On("STATUS_CHANGED", Done, p, <<"DOING">>))
    @@ (r3 :> On("TASK_COMPLETED", AnyStatus, NoProject, <<"DOING">>))

\* The completion of the subtasks completes the parent, which reopens it.
Closing ==
    (r1 :> On("SUBTASKS_COMPLETED", AnyStatus, NoProject, <<Done>>))
    @@ (r2 :> On("TASK_COMPLETED", AnyStatus, A, <<"DOING">>))
    @@ (r3 :> On("STATUS_CHANGED", "DOING", B, <<Done>>))

MCProjects == {<<>>, <<A, B>>}
MCOrder == <<r1, r2, r3>>
MCBooks == {Ring(A), Closing}
=============================================================================
