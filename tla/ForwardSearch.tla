---------------------------- MODULE ForwardSearch ----------------------------
(***************************************************************************)
(* Forward search: places are pushed and indexed (build_index in text.rs), *)
(* then queries are validated (SearchQuery::new), looked up and ranked     *)
(* (TantivySearcher::search, Engine::geocode).  BM25 is external: a query  *)
(* may give every document that has one of its terms any score, and the    *)
(* documents stand in the index in any order, because the index writer     *)
(* has several threads.                                                    *)
(***************************************************************************)
EXTENDS TextIndex

CONSTANTS
    Tagged,                    \* the places there may be, by their tags
    Queries,                   \* what users type
    Limits,                    \* explicit limits; NoLimit is an omitted one
    NoLimit,
    MaxPlaces, MaxScore,       \* bounds of the model
    DEFAULT_LIMIT, MAX_LIMIT

ASSUME LimitsAssumption ==
    /\ MAX_LIMIT \in Nat /\ MaxScore \in Nat
    /\ DEFAULT_LIMIT \in 1..MAX_LIMIT
    /\ Limits \subseteq Nat \cup {NoLimit}

(* A place needs a name, or an address, which has a road.                  *)
ASSUME TaggedAssumption ==
    \A p \in Tagged :
        /\ p.name # None \/ p.road # None
        /\ {p.name, p.road} \subseteq Text \cup {None}
        /\ {p.category, p.type_name} \subseteq Text
        /\ p.importance \in Nat

Phases == {"import", "ready", "asked", "searched", "answered", "invalid"}

VARIABLES
    phase,
    places,    \* the places, by id
    terms,     \* terms[d]: the terms document d is found under
    order,     \* order[d]: the place in the index of document d
    lost,      \* ids the place store cannot give back
    query,     \* the accepted query, [q, limit]
    score,     \* the text score of every document that matches
    hits,      \* ids, best text score first
    results    \* the answer: [id, score], best first

vars == <<phase, places, terms, order, lost, query, score, hits, results>>

Ids == DOMAIN places
NoQuery == [q |-> <<>>, limit |-> 0]
-----------------------------------------------------------------------------
(* The import.                                                             *)
Push(p) ==
    /\ phase = "import" /\ Len(places) < MaxPlaces
    /\ places' = Append(places, p)
    /\ UNCHANGED <<phase, terms, order, lost, query, score, hits, results>>

build_index ==
    /\ phase = "import" /\ places # <<>>
    /\ phase' = "ready"
    /\ terms' = [d \in Ids |-> Terms(place_search_text(places[d]))]
    /\ order' \in Bijection(Ids, Ids)
    /\ \E S \in SUBSET Ids : Cardinality(S) <= 1 /\ lost' = S
    /\ UNCHANGED <<places, query, score, hits, results>>
-----------------------------------------------------------------------------
(* SearchQuery::new.  Mutant: nothing caps the limit.                      *)
Limit_Uncapped(n) == IF n = NoLimit THEN DEFAULT_LIMIT ELSE n
Limit(n) == IF n = NoLimit THEN DEFAULT_LIMIT ELSE Min({n, MAX_LIMIT})

Blank(q) == \A i \in DOMAIN q : q[i] = " "

Ask(q, n) ==
    /\ phase = "ready"
    /\ IF Blank(q) \/ n = 0
       THEN phase' = "invalid" /\ UNCHANGED query
       ELSE phase' = "asked" /\ query' = [q |-> q, limit |-> Limit(n)]
    /\ UNCHANGED <<places, terms, order, lost, score, hits, results>>

Matching(tokens) == {d \in Ids : \E t \in Range(tokens) : t \in terms[d]}

(* TopDocs: by score, then by the place in the index.                      *)
Before(s, d, e) == s[d] > s[e] \/ (s[d] = s[e] /\ order[d] < order[e])
TopDocs(s, n) ==
    LET all == Listing(DOMAIN s, LAMBDA d, e : Before(s, d, e))
    IN  SubSeq(all, 1, Min({n, Len(all)}))

(* geocode asks for MAX_LIMIT hits whatever the limit of the query is.     *)
(* Mutant: it asks for as many as the user wants.                          *)
Fetched_AsAsked(s, n) == TopDocs(s, n)
Fetched(s, n) == TopDocs(s, MAX_LIMIT)

(* An error of Tantivy, or a document that cannot be fetched or has no id  *)
(* of a place, ends the query without an answer; these are left out.       *)
Search ==
    /\ phase = "asked"
    /\ LET tokens == tokenize(query.q)
       IN  IF tokens = <<>>
           THEN phase' = "invalid" /\ UNCHANGED <<score, hits>>
           ELSE /\ phase' = "searched"
                /\ score' \in [Matching(tokens) -> 1..MaxScore]
                /\ hits' = Fetched(score', query.limit)
    /\ UNCHANGED <<places, terms, order, lost, query, results>>

forward_score(id) == score[id] + places[id].importance

(* The sort is stable; a hit the store cannot give is left out before it.  *)
(* Mutants: not sorted again; unreadable hits are left out after the cut.  *)
Sorted(ids) ==
    LET earlier(i, j) ==
            \/ forward_score(ids[i]) > forward_score(ids[j])
            \/ /\ forward_score(ids[i]) = forward_score(ids[j])
               /\ i < j
        positions == Listing(DOMAIN ids, earlier)
    IN  [k \in DOMAIN ids |-> ids[positions[k]]]
Best(ids, n) == SubSeq(ids, 1, Min({n, Len(ids)}))
Readable(ids) == Picked(ids, {k \in DOMAIN ids : ids[k] \notin lost})

Answer_ReadLast(ids, n) == Readable(Best(Sorted(ids), n))
Answer_Unsorted(ids, n) == Best(Readable(ids), n)
Answer(ids, n) == Best(Sorted(Readable(ids)), n)

Rank ==
    /\ phase = "searched"
    /\ phase' = "answered"
    /\ results' = [k \in DOMAIN Answer(hits, query.limit) |->
                       LET id == Answer(hits, query.limit)[k]
                       IN  [id |-> id, score |-> forward_score(id)]]
    /\ UNCHANGED <<places, terms, order, lost, query, score, hits>>
-----------------------------------------------------------------------------
Init ==
    /\ phase = "import" /\ places = <<>>
    /\ terms = <<>> /\ order = <<>> /\ lost = {}
    /\ query = NoQuery /\ score = <<>> /\ hits = <<>> /\ results = <<>>

Next ==
    \/ \E p \in Tagged : Push(p)
    \/ build_index
    \/ \E q \in Queries, n \in Limits : Ask(q, n)
    \/ Search \/ Rank

Spec == Init /\ [][Next]_vars
-----------------------------------------------------------------------------
TypeOK ==
    /\ phase \in Phases
    /\ places \in Seq(Tagged) /\ lost \subseteq Ids
    /\ phase # "import" => DOMAIN terms = Ids /\ order \in Bijection(Ids, Ids)
    /\ query = NoQuery \/ query.limit \in 1..MAX_LIMIT
    /\ DOMAIN score \subseteq Ids
    /\ \A k \in DOMAIN hits : hits[k] \in DOMAIN score
    /\ \A k \in DOMAIN results : results[k].id \in Ids

(* Documents and queries are made of the same alphanumeric tokens, so      *)
(* whoever types the name of a place as it is spelled, capitals and        *)
(* punctuation included, matches the place, although its text went through *)
(* two tokenizers and the query through one.  Only names with no token     *)
(* short enough for the index are out of reach.  (It is false for names    *)
(* with U+0130.  Spellings other than the stored one are not in it but in  *)
(* the theorem ForwardSearchWords.)                                        *)
Reachable(name) == name # None /\ \E t \in Range(Runs(name)) : Len(t) < TokenBytes
FoundByName ==
    phase # "import" =>
        \A d \in Ids : Reachable(places[d].name) =>
            d \in Matching(tokenize(places[d].name))

(* As long as no more places match than the index is asked for, the answer *)
(* holds the best ones that can be read, as many as the limit lets in:     *)
(* none that was left out has a better score than one that is there.       *)
Found == {results[k].id : k \in DOMAIN results}
LeftOut == (DOMAIN score \ lost) \ Found
AnswersTheBest ==
    phase = "answered" /\ Cardinality(DOMAIN score) <= MAX_LIMIT =>
        /\ Len(results) = Min({query.limit, Cardinality(DOMAIN score \ lost)})
        /\ \A d \in LeftOut, k \in DOMAIN results :
               forward_score(d) <= results[k].score

(* However many places match, and although importance is not known where   *)
(* the index cuts: nobody is left out for a hit that fits the text less    *)
(* and is not more important.  Hits come best first and once each.         *)
NoHitIsDominated ==
    phase = "answered" =>
        /\ \A d \in LeftOut, h \in Found :
               score[d] > score[h] => places[d].importance < places[h].importance
        /\ \A j, k \in DOMAIN results : j < k =>
               /\ results[j].id # results[k].id
               /\ results[j].score >= results[k].score

(* Asking the same for more gives the same answer and more of it: the      *)
(* answer to a limit is the beginning of the answer to a larger one.       *)
AnswersNest ==
    phase = "answered" =>
        \A n \in query.limit..MAX_LIMIT :
            LET more == Answer(Fetched(score, n), n)
            IN  /\ Len(more) >= Len(results)
                /\ \A k \in DOMAIN results : more[k] = results[k].id
=============================================================================
