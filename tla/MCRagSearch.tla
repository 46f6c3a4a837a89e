---------------------------- MODULE MCRagSearch ----------------------------
(***************************************************************************)
(* RagSearch on a small instance: two retrievals of one query, so that one *)
(* may share the other's flight or find what it stored, and two documents, *)
(* so that the generation can advance twice, once before and once during.  *)
(* What a retrieval does to the results it found, Passages, is evaluated   *)
(* on every list of up to three results of the contents below.             *)
(***************************************************************************)
EXTENDS RagSearch, Passages

HanValue == {"h", "g"}
LatinValue == {"a", "b"}
CommonValue == {<<"g", "h">>}

AskedValue == {<<"h">>, <<"a", "b">>, <<"a", " ", "h", "g", "h">>, <<"a", "b", "h", "g">>}

\* Blank, alike up to what is hashed, with one term, with two, with both kinds.
Written == {<<" ">>, <<"a", "b", "b">>, <<"a", "b", "b", "h">>, <<" ", "h", "g">>,
            <<"h", "g", "h", "a", "b">>}

ReturnedValue ==
    UNION {{[i \in 1..n |-> [content |-> c[i], metadata |-> <<>>, score |-> s[i], at |-> i]] :
              c \in [1..n -> Written],
              s \in {t \in [1..n -> 0..2] : \A i, j \in 1..n : i < j => t[i] <= t[j]}} : n \in 0..3}

LimitsValue == {[docs |-> 2, chars |-> 9, delta |-> 1, hashed |-> 3, token |-> 2, header |-> 2],
               [docs |-> 3, chars |-> 12, delta |-> 2, hashed |-> 4, token |-> 2, header |-> 2]}

\* The two properties below are of constants: TLC need not evaluate them again in every state, and
\* where a behaviour begins is enough.

\* filterSearchResults keeps exactly the results that are near enough, not blank, the first of
\* their hash and, where the query has terms that any of them has, those with such terms; most
\* evidence first.
FilteredRight ==
    Init => \A asked \in Asked, found \in Returned, conf \in Limits : FilteredAsAsked(asked, found, conf)

\* buildContextFromResults makes of them a text that begins with the closest, repeats nothing,
\* keeps to its limits and leaves nothing out for something farther away.
ContextSound ==
    Init => \A asked \in Asked, found \in Returned, conf \in Limits : ContextIsSound(asked, found, conf)
=============================================================================
