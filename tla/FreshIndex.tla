----------------------------- MODULE FreshIndex -----------------------------
(***************************************************************************)
(* What retrieval promises, without caches, flights or generations: a      *)
(* request gets a set of documents that a search could see at some time    *)
(* since the index was last published before the request came in. So what  *)
(* was searchable at that publication is never missing from an answer,     *)
(* however old the answer is. A request that came in is answered or fails, *)
(* unless it is held by something outside that need not let it go: held is *)
(* read and never constrained here.                                        *)
(***************************************************************************)
EXTENDS Naturals

CONSTANTS Docs,      \* documents
          Requests   \* retrievals

VARIABLES visible,   \* documents a search can see
          published, \* those it could see when the index was last published
          floor,     \* what each request may not miss
          phase,     \* "idle", "asked", "answered", "failed"
          docs,      \* what each request was given
          held       \* requests that wait for what need not ever come

vars == <<visible, published, floor, phase, docs>>

Init == /\ visible = {}
        /\ published = {}
        /\ floor = [r \in Requests |-> {}]
        /\ phase = [r \in Requests |-> "idle"]
        /\ docs = [r \in Requests |-> {}]

Show(d) == /\ visible' = visible \cup {d}
           /\ UNCHANGED <<published, floor, phase, docs>>

Publish == /\ published' = visible
           /\ UNCHANGED <<visible, floor, phase, docs>>

Ask(r) == /\ phase[r] = "idle"
          /\ phase' = [phase EXCEPT ![r] = "asked"]
          /\ floor' = [floor EXCEPT ![r] = published]
          /\ UNCHANGED <<visible, published, docs>>

Answer(r) == /\ phase[r] = "asked"
             /\ \E D \in SUBSET visible :
                   /\ floor[r] \subseteq D
                   /\ docs' = [docs EXCEPT ![r] = D]
             /\ phase' = [phase EXCEPT ![r] = "answered"]
             /\ UNCHANGED <<visible, published, floor>>

Fail(r) == /\ phase[r] = "asked"
           /\ phase' = [phase EXCEPT ![r] = "failed"]
           /\ UNCHANGED <<visible, published, floor, docs>>

Next == \/ \E d \in Docs : Show(d)
        \/ Publish
        \/ \E r \in Requests : Ask(r) \/ Answer(r) \/ Fail(r)

Fairness == \A r \in Requests : WF_vars(r \notin held /\ (Answer(r) \/ Fail(r)))

Spec == Init /\ [][Next]_vars /\ Fairness
=============================================================================
