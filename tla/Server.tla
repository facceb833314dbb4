------------------------------- MODULE Server -------------------------------
(***************************************************************************)
(* `hexplace serve` (hexplace/src/api.rs, run_serve in cli.rs): requests   *)
(* on an asynchronous runtime, bulk jobs on its blocking threads, request  *)
(* timeouts, and the shutdown that a signal starts.                        *)
(*                                                                         *)
(* A light request (geocode, reverse, health, status) computes its answer  *)
(* on the runtime's own thread and cannot be interrupted there.  A bulk    *)
(* request (batch, reverse/bulk) reads a body, gives the work to           *)
(* spawn_blocking and waits.  A job owns a handle of the engine and goes   *)
(* on when nobody waits for it any more.  The runtime and the HTTP library *)
(* are external: they are modelled by what api.rs relies on.               *)
(***************************************************************************)
EXTENDS Naturals, FiniteSets

CONSTANTS
    Light, Bulk,   \* the requests that clients may send, each one once
    Threads,       \* threads of the runtime
    PoolSize       \* blocking threads, at most

ASSUME RequestsAssumption == Light \cap Bulk = {}
ASSUME ThreadsAssumption == Threads \in Nat \ {0} /\ PoolSize \in Nat \ {0}

Requests == Light \cup Bulk

ServerStates == {"serving", "draining", "closing", "exited"}
Answers == {"result", "bad request", "timed out", "worker failed"}
Ended == Answers \cup {"refused", "gone"}
RequestStates == {"unsent", "computing", "reading", "waiting"} \cup Ended
JobStates == {"none", "queued", "running", "done", "cancelled"}

VARIABLES
    server,
    request,   \* request[r]: how far r is, or what its client got
    job        \* job[r]: the blocking job of bulk request r

vars == <<server, request, job>>

In(S) == {r \in Requests : request[r] \in S}
Jobs(S) == {r \in Requests : job[r] \in S}
Open == {"computing", "reading", "waiting"}

(* A handler, a timer or an accept needs a thread nobody computes on.      *)
ThreadFree == Cardinality(In({"computing"})) < Threads

Becomes(r, from, to) ==
    request[r] \in from /\ request' = [request EXCEPT ![r] = to]
-----------------------------------------------------------------------------
(* Mutant: a request without a body is waited for like the others.         *)
Accept_ReadsAlways(r) ==
    /\ server = "serving" /\ ThreadFree
    /\ Becomes(r, {"unsent"}, "reading")
    /\ UNCHANGED <<server, job>>

Accept(r) ==
    /\ server = "serving" /\ ThreadFree
    /\ Becomes(r, {"unsent"}, IF r \in Light THEN "computing" ELSE "reading")
    /\ UNCHANGED <<server, job>>

(* The listener is closed once the shutdown has begun.                     *)
Refuse(r) ==
    /\ server # "serving"
    /\ Becomes(r, {"unsent"}, "refused")
    /\ UNCHANGED <<server, job>>

(* The handler of a light request has no await: its timeout cannot fire.   *)
(* "result" is whatever it answers, an invalid query (400) or an error of  *)
(* the engine (500) included.                                              *)
Compute(r) ==
    /\ Becomes(r, {"computing"}, "result")
    /\ UNCHANGED <<server, job>>

SpawnBlocking(r) ==
    /\ ThreadFree
    /\ Becomes(r, {"reading"}, "waiting")
    /\ job' = [job EXCEPT ![r] = "queued"]
    /\ UNCHANGED server

(* A body too long, that does not parse, or that is not whole pairs.       *)
BadBody(r) ==
    /\ ThreadFree
    /\ Becomes(r, {"reading"}, "bad request")
    /\ UNCHANGED <<server, job>>

JobStarts(r) ==
    /\ server \in {"serving", "draining"}
    /\ job[r] = "queued" /\ Cardinality(Jobs({"running"})) < PoolSize
    /\ job' = [job EXCEPT ![r] = "running"]
    /\ UNCHANGED <<server, request>>

(* A job that returns an error or panics is over like any other: its       *)
(* client gets the 400 or 500 of that as its "result".                     *)
JobEnds(r) ==
    /\ job[r] = "running"
    /\ job' = [job EXCEPT ![r] = "done"]
    /\ UNCHANGED <<server, request>>

Respond(r) ==
    /\ ThreadFree
    /\ job[r] \in {"done", "cancelled"}
    /\ Becomes(r, {"waiting"}, IF job[r] = "done" THEN "result" ELSE "worker failed")
    /\ UNCHANGED <<server, job>>

(* The layer covers the whole handler, the reading of the body included.   *)
(* Mutant: it covers the job only.                                         *)
TimeoutFires_OnJobs(r) ==
    /\ ThreadFree
    /\ Becomes(r, {"waiting"}, "timed out")
    /\ UNCHANGED <<server, job>>

TimeoutFires(r) ==
    /\ ThreadFree
    /\ Becomes(r, {"reading", "waiting"}, "timed out")
    /\ UNCHANGED <<server, job>>

(* The client closes its connection, and the handler is dropped.           *)
ClientLeaves(r) ==
    /\ ThreadFree
    /\ Becomes(r, {"reading", "waiting"}, "gone")
    /\ UNCHANGED <<server, job>>
-----------------------------------------------------------------------------
(* The shutdown.                                                           *)

SignalReceived ==
    /\ server = "serving"
    /\ server' = "draining"
    /\ UNCHANGED <<request, job>>

(* serve returns when every connection is done.  Then the runtime is       *)
(* dropped: a job no thread has begun is cancelled.                        *)
(* Mutants: connections are not waited for; the queue is left as it is.    *)
ServeReturns_AtOnce ==
    /\ server = "draining"
    /\ server' = "closing"
    /\ job' = [r \in Requests |-> IF job[r] = "queued" THEN "cancelled" ELSE job[r]]
    /\ UNCHANGED request
ServeReturns_KeepsQueue ==
    /\ server = "draining" /\ In(Open) = {}
    /\ server' = "closing"
    /\ UNCHANGED <<request, job>>

ServeReturns ==
    /\ server = "draining" /\ In(Open) = {}
    /\ server' = "closing"
    /\ job' = [r \in Requests |-> IF job[r] = "queued" THEN "cancelled" ELSE job[r]]
    /\ UNCHANGED request

(* Dropping the runtime waits for the running jobs; with the last handle   *)
(* the engine, its maps and its lock go (Deployment).                      *)
Exit ==
    /\ server = "closing" /\ Jobs({"queued", "running"}) = {}
    /\ server' = "exited"
    /\ UNCHANGED <<request, job>>
-----------------------------------------------------------------------------
Init ==
    /\ server = "serving"
    /\ request = [r \in Requests |-> "unsent"]
    /\ job = [r \in Requests |-> "none"]

Handler(r) == Compute(r) \/ Respond(r) \/ TimeoutFires(r)

Client(r) == Accept(r) \/ Refuse(r) \/ SpawnBlocking(r) \/ BadBody(r) \/ ClientLeaves(r)

Next ==
    \/ \E r \in Requests : Client(r) \/ Handler(r) \/ JobStarts(r) \/ JobEnds(r)
    \/ SignalReceived \/ ServeReturns \/ Exit

Spec == Init /\ [][Next]_vars

-----------------------------------------------------------------------------
TypeOK ==
    /\ server \in ServerStates
    /\ request \in [Requests -> RequestStates]
    /\ job \in [Requests -> JobStates]
    /\ \A r \in Light : request[r] \notin {"reading", "waiting"} /\ job[r] = "none"

(* Nobody is told that its worker failed because the server shut down:     *)
(* only jobs whose client has its answer, or is gone, are cancelled.       *)
NobodyLosesItsJob ==
    \A r \in Requests : job[r] = "cancelled" => request[r] \notin Open

(* Every request that was let in ends, although its client may never send  *)
(* its body and its job may never leave the queue.                         *)
EveryRequestEnds ==
    \A r \in Requests : request[r] \in Open ~> request[r] \in Ended

(* A shutdown completes, whatever is running when the signal arrives.      *)
ShutdownCompletes == server = "draining" ~> server = "exited"
=============================================================================
