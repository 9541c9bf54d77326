---------------------------- MODULE RequestReply ----------------------------
(***************************************************************************)
(* What WorkerSupervisor::request promises its caller, whatever becomes of *)
(* the worker process: one request at a time, an answer only to the        *)
(* request that is being made, and an end to every request.                *)
(***************************************************************************)
CONSTANTS
    Request,    \* the requests a caller can make
    None        \* not a request

VARIABLES
    asked,      \* the request being made, or None
    answered    \* the last request that got its answer, or None

vars == <<asked, answered>>

Init ==
    /\ asked = None
    /\ answered = None

Ask(request) ==
    /\ asked = None
    /\ asked' = request
    /\ UNCHANGED answered

Answer ==
    /\ asked # None
    /\ asked' = None
    /\ answered' = asked

Fail ==
    /\ asked # None
    /\ asked' = None
    /\ UNCHANGED answered

Next ==
    \/ \E request \in Request : Ask(request)
    \/ Answer
    \/ Fail

\* Every request ends, in an answer or an error.
RequestsEnd == asked # None ~> asked = None

Spec == Init /\ [][Next]_vars /\ RequestsEnd

=============================================================================
