-------------------------- MODULE MCForwardSearch --------------------------
(* Up to three places, and an index that is asked for two of them at most: *)
(* the cut of the index, that of the limit and one lost place all happen.  *)
EXTENDS ForwardSearch

Place(name, road, importance) ==
    [name |-> name, road |-> road, category |-> <<"b">>, type_name |-> <<"B">>,
     importance |-> importance]

(* Names of one and of two words, one too long for the index, an address   *)
(* without a name, and a name tag that says nothing.                       *)
Plain ==
    {Place(<<"b", " ", "A">>, None, i) : i \in {0, 1}} \cup
    {Place(<<"A">>, <<"B">>, 0), Place(<<"b", "b", "A">>, None, 1),
     Place(None, <<"A">>, 1), Place(<<>>, None, 0)}
PlainQueries == {<<"a">>, <<"B", ",", "a">>, <<" ">>, <<",">>}

(* A name that begins as Istanbul does in Turkish.                         *)
Dotted == {Place(<<"ADOT", "b">>, None, 0)}
=============================================================================
