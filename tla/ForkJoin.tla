------------------------------ MODULE ForkJoin ------------------------------
(***************************************************************************)
(* What running the steps of a plan in a group promises: the steps begin   *)
(* together, the group comes back when the last one has ended and never    *)
(* before, and what it comes back with is the error that came first. A     *)
(* step that stops because another one failed (Echo) is never that error.  *)
(***************************************************************************)
CONSTANTS Tasks, Errors, Echo, None

VARIABLES group, \* "new", "forked" or "joined"
          open,  \* the steps that run
          first  \* the first error

Init == group = "new" /\ open = {} /\ first = None

Fork == /\ group = "new"
        /\ group' = "forked"
        /\ open' \in SUBSET Tasks
        /\ UNCHANGED first

\* The request may fail before there is anything to run.
Skip == /\ group = "new"
        /\ group' = "joined"
        /\ UNCHANGED <<open, first>>

Succeed(t) == /\ group = "forked" /\ t \in open
              /\ open' = open \ {t}
              /\ UNCHANGED <<group, first>>

Fail(t) == /\ group = "forked" /\ t \in open
           /\ open' = open \ {t}
           /\ \/ first = None /\ first' \in Errors \ {Echo}
              \/ first # None /\ UNCHANGED first
           /\ UNCHANGED group

Join == /\ group = "forked" /\ open = {}
        /\ group' = "joined"
        /\ UNCHANGED <<open, first>>

Next == Fork \/ Skip \/ Join \/ \E t \in Tasks : Succeed(t) \/ Fail(t)

\* Every step ends, and then the group does.
Spec == /\ Init /\ [][Next]_<<group, open, first>>
        /\ WF_<<group, open, first>>(Join)
        /\ \A t \in Tasks : WF_<<group, open, first>>(Succeed(t) \/ Fail(t))
=============================================================================
