----------------------------- MODULE TextIndex -----------------------------
(***************************************************************************)
(* Text of the forward search: what a place is indexed under and what a    *)
(* query asks for (tokenize.rs, place_search_text and build_index in       *)
(* text.rs, format_display_name in display.rs).  Text is a sequence of     *)
(* characters.  The index itself is Tantivy's: external, and modelled by   *)
(* the analyzer that the schema of text.rs names, "default", which splits  *)
(* the text of a document once more.                                       *)
(***************************************************************************)
EXTENDS Lists

CONSTANTS
    TokenBytes,   \* the analyzer drops tokens of TokenBytes or more
    None          \* "no such tag"

(* Two letters and a separator or two stand for all there are.  "ADOT" is  *)
(* U+0130, the one character whose lower case is two: a letter, and "dot"  *)
(* (U+0307), a mark that is not alphanumeric.  A character counts as one   *)
(* byte; those whose lower case takes more bytes (U+023A) are left out:    *)
(* the indexed text is lower case before the analyzer measures it, so they *)
(* differ from others only in words at the limit of TokenBytes.            *)
Alphanumeric == {"a", "b", "A", "B", "ADOT"}
Marks == {"dot", " ", ","}
Characters == Alphanumeric \cup Marks
Text == Seq(Characters)

Lower(c) == CASE c = "A" -> <<"a">> [] c = "B" -> <<"b">>
              [] c = "ADOT" -> <<"a", "dot">> [] OTHER -> <<c>>
Lowered(s) == FlattenSeq([i \in DOMAIN s |-> Lower(s[i])])

Joined(strings, separator) ==
    FlattenSeq([i \in DOMAIN strings |->
                    IF i = 1 THEN strings[i] ELSE separator \o strings[i]])

(* The longest runs of alphanumeric characters of s, from left to right.   *)
IsRun(s, i, j) ==
    /\ \A k \in i..j : s[k] \in Alphanumeric
    /\ i > 1 => s[i - 1] \notin Alphanumeric
    /\ j < Len(s) => s[j + 1] \notin Alphanumeric
Runs(s) ==
    LET spans == {p \in (DOMAIN s) \X (DOMAIN s) : p[1] <= p[2] /\ IsRun(s, p[1], p[2])}
        order == Listing(spans, LAMBDA p, q : p[1] < q[1])
    IN  [k \in DOMAIN order |-> SubSeq(s, order[k][1], order[k][2])]

(* Mutant: the query is split but keeps its capitals.                      *)
tokenize_KeepsCase(s) == Runs(s)
tokenize(s) == LET runs == Runs(s) IN [k \in DOMAIN runs |-> Lowered(runs[k])]
normalize_query(s) == Joined(tokenize(s), <<" ">>)

(* The terms the default analyzer makes of an indexed text: it splits at   *)
(* what is not alphanumeric, drops long tokens and lowers the rest.        *)
Terms(s) == {Lowered(t) : t \in {u \in Range(Runs(s)) : Len(u) < TokenBytes}}
-----------------------------------------------------------------------------
(* The fields of a place that reach the index, each one text or None; the  *)
(* road stands for all the parts of an address, which are treated alike.   *)
Present(fields) == Picked(fields, {i \in DOMAIN fields : fields[i] # None})

UnknownPlace == <<"B", "B">>   \* "Unknown place"

format_display_name(name, road) ==
    LET present == Present(<<IF name = <<>> THEN None ELSE name, road>>)
    IN  IF present = <<>> THEN UnknownPlace ELSE Joined(present, <<",", " ">>)

place_search_text(p) ==
    normalize_query(Joined(
        Present(<<p.name, format_display_name(p.name, p.road), p.road,
                  p.category, p.type_name>>),
        <<" ">>))
=============================================================================
