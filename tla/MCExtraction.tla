---------------------------- MODULE MCExtraction ----------------------------
(* Files of at most four elements: a node that occurs twice, a node without *)
(* a name, an address, a node an editor made, and ways over them, closed,   *)
(* unnamed, or over a node no file has.  A newer file has the nodes         *)
(* elsewhere, or has lost one.                                              *)
EXTENDS Extraction

Node(id, at, named, address) ==
    [kind |-> "node", id |-> id, at |-> at, refs |-> <<>>, named |-> named,
     address |-> address]
Way(id, refs, named, address) ==
    [kind |-> "way", id |-> id, at |-> 0, refs |-> refs, named |-> named,
     address |-> address]

SomeElements == {
    Node(1, 10, TRUE, FALSE), Node(1, 30, FALSE, FALSE),
    Node(-2, 50, FALSE, TRUE),
    Way(1, <<1, -2, 1>>, TRUE, FALSE), Way(-1, <<3, 1>>, TRUE, TRUE),
    Way(3, <<-2>>, FALSE, TRUE),
    [Way(4, <<1>>, TRUE, FALSE) EXCEPT !.kind = "relation"]}

FilesOfFour == UNION {[1 .. n -> SomeElements] : n \in 0 .. 4}
NewerFiles == {
    <<Node(1, 70, TRUE, FALSE), Way(1, <<1, -2, 1>>, TRUE, FALSE)>>,
    <<Node(-2, 90, FALSE, TRUE), Way(1, <<1, -2, 1>>, TRUE, FALSE),
      Way(-1, <<3, 1>>, TRUE, TRUE)>>}
=============================================================================
