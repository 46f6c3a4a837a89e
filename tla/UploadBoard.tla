---------------------------- MODULE UploadBoard ----------------------------
(***************************************************************************)
(* What the upload endpoint promises its clients, without goroutines,      *)
(* locks or channels: an upload is accepted or refused, never both; an     *)
(* accepted upload is finished exactly once, in the background; the        *)
(* backlog is bounded; nothing is accepted after shutdown has begun, and   *)
(* shutdown ends only when the backlog is empty.                           *)
(***************************************************************************)
EXTENDS Naturals, FiniteSets

CONSTANTS Uploads,   \* upload requests
          Backlog    \* the most accepted uploads that may be unfinished

VARIABLES accepted,  \* uploads handed to the background workers
          finished,  \* accepted uploads whose indexing succeeded or failed
          phase      \* "open", "closing" or "closed"

vars == <<accepted, finished, phase>>

Init == accepted = {} /\ finished = {} /\ phase = "open"

Accept(u) == /\ phase = "open"
             /\ u \notin accepted
             /\ Cardinality(accepted \ finished) < Backlog
             /\ accepted' = accepted \cup {u}
             /\ UNCHANGED <<finished, phase>>

Finish(u) == /\ u \in accepted \ finished
             /\ finished' = finished \cup {u}
             /\ UNCHANGED <<accepted, phase>>

BeginShutdown == /\ phase = "open"
                 /\ phase' = "closing"
                 /\ UNCHANGED <<accepted, finished>>

EndShutdown == /\ phase = "closing"
               /\ accepted = finished
               /\ phase' = "closed"
               /\ UNCHANGED <<accepted, finished>>

Next == \/ \E u \in Uploads : Accept(u) \/ Finish(u)
        \/ BeginShutdown
        \/ EndShutdown

Fairness == /\ \A u \in Uploads : WF_vars(Finish(u))
            /\ WF_vars(EndShutdown)

Spec == Init /\ [][Next]_vars /\ Fairness
=============================================================================
