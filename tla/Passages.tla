------------------------------ MODULE Passages ------------------------------
(***************************************************************************)
(* From the results of a vector search to the text a model is given:       *)
(* search_guard.go and the end of service.go. Pure functions, without a    *)
(* state of their own.                                                     *)
(*                                                                         *)
(* A text is a sequence of characters: Han characters, Latin ones (letters *)
(* and digits, in lower case, to which both sides are brought) and " ". A  *)
(* result has a content, metadata, a score (its distance) and its place in *)
(* what Milvus returned, closest first. The limits are a record: docs,     *)
(* chars and delta of the configuration, hashed (512 bytes in the code),   *)
(* token (4), and header, the characters written before a passage.         *)
(***************************************************************************)
EXTENDS Integers, Sequences, FiniteSets, SequencesExt, FiniteSetsExt

CONSTANTS Han, Latin, \* characters
          Common,     \* Han terms of two characters and more that say nothing
          Asked,      \* queries
          Returned,   \* lists of results
          Limits      \* configurations

Chars == Han \cup Latin \cup {" "}

Result == [content : Seq(Chars), metadata : Seq(Chars), score : Int, at : Nat]

ASSUME CharsAssumption == Han \cap Latin = {} /\ " " \notin Han \cup Latin
ASSUME CommonAssumption == \A t \in Common : t \in Seq(Han)
ASSUME AskedAssumption == Asked \subseteq Seq(Chars)

\* Milvus returns the closest first.
ASSUME ReturnedAssumption ==
    \A found \in Returned :
        found \in Seq(Result) /\ \A i, j \in DOMAIN found : i < j => found[i].score <= found[j].score

\* Config.Validate refuses a limit of zero.
ASSUME LimitsAssumption ==
    Limits \subseteq [docs : Nat \ {0}, chars : Nat, delta : Nat, hashed : Nat, token : Nat, header : Nat]

Within(term, text) ==
    \E i \in 0..(Len(text) - Len(term)) : SubSeq(text, i + 1, i + Len(term)) = term

Trim(text) ==
    LET inked == {i \in 1..Len(text) : text[i] # " "}
    IN IF inked = {} THEN <<>> ELSE SubSeq(text, Min(inked), Max(inked))

\* contentHashKey: what is hashed stands for the hash.
HashKey(text, conf) == LET t == Trim(text) IN SubSeq(t, 1, Min({Len(t), conf.hashed}))

-----------------------------------------------------------------------------
(* search_guard.go.                                                        *)

\* What the loops over results pass over: what is too far from the best, blank, or a twin of
\* one they have kept.
Far(r, best, conf) == r.score - best > conf.delta
Blank(r) == Trim(r.content) = <<>>
Twins(r, k, conf) == HashKey(r.content, conf) = HashKey(k.content, conf)
Skip(r, kept, best, conf) ==
    Far(r, best, conf) \/ Blank(r) \/ \E k \in ToSet(kept) : Twins(r, k, conf)

\* limitSearchResultsByScore: what is kept after each result.
LimitSteps(results, conf) ==
    LET kept[n \in 0..Len(results)] ==
          IF n = 0 THEN <<>>
          ELSE IF Skip(results[n], kept[n - 1], results[1].score, conf) THEN kept[n - 1]
          ELSE Append(kept[n - 1], results[n])
    IN kept

LimitByScoreTwins(results, conf) == \* Variant: no hash is remembered.
    SelectSeq(results, LAMBDA r : ~ Far(r, results[1].score, conf) /\ ~ Blank(r))
LimitByScore(results, conf) == LimitSteps(results, conf)[Len(results)]

\* The longest runs of characters of a kind, as pairs of first and last.
Runs(query, kind) ==
    LET Run(i, j) == /\ i <= j /\ \A k \in i..j : query[k] \in kind
                     /\ i = 1 \/ query[i - 1] \notin kind
                     /\ j = Len(query) \/ query[j + 1] \notin kind
    IN {r \in (1..Len(query)) \X (1..Len(query)) : Run(r[1], r[2])}

StructuredTerms(query, conf) ==
    {SubSeq(query, run[1], run[2]) : run \in {r \in Runs(query, Latin) : r[2] - r[1] + 1 >= conf.token}}

ChineseTerms(query) ==
    UNION {{SubSeq(query, i, i + size - 1) : i \in run[1]..(run[2] - size + 1)} :
              run \in Runs(query, Han), size \in 2..4} \ Common

TermsIn(r, terms) == {t \in terms : Within(t, r.content \o <<" ">> \o r.metadata)}

\* A finite set in a strict order, which is a set of pairs: each has its place by how many
\* come before it.
InOrder(S, before) ==
    [n \in 1..Cardinality(S) |->
        CHOOSE i \in S : Cardinality({j \in S : <<j, i>> \in before}) = n - 1]

Earlier(S) == {p \in S \X S : p[1] < p[2]}

\* sort.SliceStable: more evidence first, then the closer one, then as they came.
ByEvidence(S, results, terms) ==
    LET Evidence(i) == Cardinality(TermsIn(results[i], terms))
        Leads(i, j) == \/ Evidence(i) > Evidence(j)
                       \/ /\ Evidence(i) = Evidence(j)
                          /\ \/ results[i].score < results[j].score
                             \/ results[i].score = results[j].score /\ i < j
    IN {p \in S \X S : Leads(p[1], p[2])}

FilterSearchResults(query, results, conf) ==
    LET base == LimitByScore(results, conf)
        structured == StructuredTerms(query, conf)
        chinese == ChineseTerms(query)
        matched == {i \in DOMAIN base : structured = {} \/ TermsIn(base[i], structured) # {}}
        evident == {i \in matched : TermsIn(base[i], chinese) # {}}
        order == IF evident = {} THEN InOrder(matched, Earlier(matched))
                 ELSE InOrder(evident, ByEvidence(evident, base, chinese))
    IN [n \in DOMAIN order |-> base[order[n]]]

-----------------------------------------------------------------------------
(* service.go: where the answer is taken from, and the text for the model. *)

\* The orders sort.Slice may leave: closest first, equals in any order.
Rankings(results) ==
    {order \in SetToSeqs(DOMAIN results) :
        \A m, n \in DOMAIN order : m < n => results[order[m]].score <= results[order[n]].score}

PartChars(r, conf) == conf.header + Len(Trim(r.content))

\* The loop over the ranking: the parts taken, their characters, and whether it was left.
Consider(c, r, best, conf, leaveFull) ==
    IF c.left \/ Len(c.parts) >= conf.docs THEN [c EXCEPT !.left = TRUE]
    ELSE IF Skip(r, c.parts, best, conf) THEN c
    ELSE IF c.chars + PartChars(r, conf) > conf.chars THEN [c EXCEPT !.left = leaveFull]
    ELSE [c EXCEPT !.parts = Append(@, r), !.chars = @ + PartChars(r, conf)]

Loop(ranking, results, conf, leaveFull) ==
    LET best == results[ranking[1]].score
        after[n \in 0..Len(ranking)] ==
          IF n = 0 THEN [parts |-> <<>>, chars |-> 0, left |-> FALSE]
          ELSE Consider(after[n - 1], results[ranking[n]], best, conf, leaveFull)
    IN after

TakeSmaller(ranking, results, conf) == \* Variant: what does not fit is passed over.
    Loop(ranking, results, conf, FALSE)[Len(ranking)].parts
Take(ranking, results, conf) == Loop(ranking, results, conf, TRUE)[Len(ranking)].parts

\* When nothing fitted, the closest result is taken whatever its length.
BuildContext(ranking, results, conf) ==
    IF results = <<>> THEN <<>>
    ELSE LET taken == Take(ranking, results, conf) IN
           IF taken = <<>> /\ Trim(results[ranking[1]].content) # <<>>
           THEN <<results[ranking[1]]>> ELSE taken

\* The characters of the parts, and with them those of the blank line between any two.
PartsChars(parts, conf) ==
    LET sum[n \in 0..Len(parts)] == IF n = 0 THEN 0 ELSE sum[n - 1] + PartChars(parts[n], conf)
    IN sum

ContextChars(parts, conf) ==
    IF parts = <<>> THEN 0 ELSE PartsChars(parts, conf)[Len(parts)] + 2 * (Len(parts) - 1)

-----------------------------------------------------------------------------
(* What they are for. The bounded inputs are in the module that checks it. *)

\* What filterSearchResults keeps, said of each result on its own, and its order.
FilteredAsAsked(query, results, conf) ==
    LET Fits(i) == ~ Far(results[i], results[1].score, conf) /\ ~ Blank(results[i])
        fit == {i \in DOMAIN results :
                  Fits(i) /\ ~ \E j \in 1..(i - 1) : Fits(j) /\ Twins(results[i], results[j], conf)}
        Has(i, terms) == TermsIn(results[i], terms) # {}
        structured == StructuredTerms(query, conf)
        matched == {i \in fit : structured = {} \/ Has(i, structured)}
        chinese == ChineseTerms(query)
        evident == {i \in matched : Has(i, chinese)}
        kept == IF evident = {} THEN matched ELSE evident
        Weight(r) == Cardinality(TermsIn(r, chinese))
        out == FilterSearchResults(query, results, conf)
    IN /\ Len(out) = Cardinality(kept) /\ ToSet(out) = {results[i] : i \in kept}
       /\ \A m, n \in DOMAIN out : m < n =>
            \/ Weight(out[m]) > Weight(out[n])
            \/ Weight(out[m]) = Weight(out[n]) /\ out[m].score <= out[n].score

\* The text made of what was kept: the closest result leads it, no two parts count as one, it
\* keeps to the number of documents and, joints apart, to the number of characters unless it is
\* one single part, and no result is left out while one farther away is in.
ContextFits(found, ranking, conf) ==
    LET parts == BuildContext(ranking, found, conf) IN
      /\ found # <<>> => parts # <<>> /\ \A r \in ToSet(found) : parts[1].score <= r.score
      /\ Len(parts) <= conf.docs
      /\ Len(parts) > 1 => ContextChars(parts, conf) <= conf.chars + 2 * (Len(parts) - 1)
      /\ \A m, n \in DOMAIN parts : m # n => ~ Twins(parts[m], parts[n], conf)
      /\ \A r \in ToSet(found) \ ToSet(parts), p \in ToSet(parts) : p.score <= r.score

ContextIsSound(query, results, conf) ==
    LET found == FilterSearchResults(query, results, conf) IN
      \A ranking \in Rankings(found) : ContextFits(found, ranking, conf)
=============================================================================
