---------------------------- MODULE MCDeployment ----------------------------
(* One server, one import, a light and two bulk requests on one thread and *)
(* one blocking thread: one job may run for a client that is gone while    *)
(* another waits in the queue.                                             *)
EXTENDS Deployment, TLC

CONSTANTS srv, i1, l1, b1, b2

TwoBulk == {b1, b2}
OneLight == {l1}

SamePlaceCount == [t \in Importers \cup {Old} |-> 1]
IndexNames == {"places", "text", "spatial", "manifest"}
PartNames == IndexNames \cup {".lock", "places.bin"}
ServedStart == {IndexNames \cup {".lock"}}
OneOrder == LET rank == [places |-> 1, text |-> 2, spatial |-> 3] @@
                        ("manifest" :> 4) @@ (".lock" :> 5) @@ ("places.bin" :> 6)
            IN  {o \in PartNames \X PartNames : rank[o[1]] < rank[o[2]]}
ReturnedErrors == {"build", "aside", "swap"}
=============================================================================
