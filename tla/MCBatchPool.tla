---------------------------- MODULE MCBatchPool ----------------------------
(* Calls of up to one item more than the limit, on one to four cores: with *)
(* five items on four cores the chunks are fewer than the cores, and the   *)
(* last one is short.                                                      *)
EXTENDS BatchPool

CallsUpToSix == UNION {[1 .. n -> {"hits", "panic"}] : n \in 0 .. 6}
                    \cup [1 .. 3 -> Outcomes]
OneToFour == 1 .. 4
=============================================================================
