---------------------------- MODULE AnswerStream ----------------------------
(***************************************************************************)
(* What the response to a query promises its reader: it is refused as a    *)
(* whole, or it is a stream that ends once, with "done" or an error, and   *)
(* nothing after it. All its content is of one mode. That the mode was     *)
(* changed is said at most once, and before any content.                   *)
(***************************************************************************)
CONSTANTS Requests, Modes, NoMode

VARIABLES stream,
          held    \* requests that wait for what need not come: read, never constrained here

Init == stream = [r \in Requests |-> [state |-> "unopened", notice |-> FALSE, from |-> NoMode]]

Refuse(r) == /\ stream[r].state = "unopened"
             /\ stream' = [stream EXCEPT ![r].state = "refused"]

Open(r) == /\ stream[r].state = "unopened"
           /\ stream' = [stream EXCEPT ![r].state = "open"]

Notice(r) == /\ stream[r].state = "open"
             /\ ~ stream[r].notice /\ stream[r].from = NoMode
             /\ stream' = [stream EXCEPT ![r].notice = TRUE]

Content(r, m) == /\ stream[r].state = "open"
                 /\ stream[r].from \in {NoMode, m}
                 /\ stream' = [stream EXCEPT ![r].from = m]

End(r) == /\ stream[r].state = "open"
          /\ \E e \in {"done", "error"} : stream' = [stream EXCEPT ![r].state = e]

Next == \E r \in Requests : \/ Refuse(r) \/ Open(r) \/ Notice(r) \/ End(r)
                            \/ \E m \in Modes : Content(r, m)

\* Every stream that was opened ends, but for those held, for as long as they are.
Fairness == \A r \in Requests : WF_stream(r \notin held /\ End(r))

Spec == Init /\ [][Next]_stream /\ Fairness
=============================================================================
