-------------------------- MODULE WorkerSupervisor --------------------------
(***************************************************************************)
(* The supervisor of a disposable worker process, and the caller that      *)
(* sends it one handshake and then batches.                                *)
(*                                                                         *)
(* A child is one operating system process.  It exits when it likes, and   *)
(* answers in its own time, with any frame; the supervisor learns of it    *)
(* only through the channel its reader thread fills and through try_wait.  *)
(***************************************************************************)
EXTENDS Naturals, Sequences

CONSTANTS
    Ids,          \* request IDs
    None,         \* no running worker, no request
    KeepsGoing,   \* a caller may use the supervisor again after an error
    MaxStarts,    \* bound on the processes started
    MaxCalls      \* bound on the requests made

\* What a frame on the child's stdout turns out to be.  A message of another
\* kind than the one asked for ends as a reported error does.
Forms == {"answer", "reported_error", "undecodable", "bad_frame", "other_version"}

Children == 1..MaxStarts

\* A request is told from every other by its serial; its ID may be used again.
Request == [kind : {"handshake", "batch"}, id : Ids, serial : 1..MaxCalls]
Frame == [request : Request, id : Ids, form : Forms]

ASSUME SupervisorAssumption ==
    /\ None \notin Children \cup Request
    /\ KeepsGoing \in BOOLEAN
    /\ MaxStarts \in Nat
    /\ MaxCalls \in Nat

VARIABLES
    child,      \* child[n]: the n-th process: unborn, alive or exited
    running,    \* self.running: the process the supervisor holds, or None
    used,       \* request_ids of the running worker
    idle,       \* last_activity is idle_timeout or more ago
    stdin,      \* requests the running worker has not read
    channel,    \* frames its reader thread has queued
    pc,         \* where the caller is
    calls,      \* history: requests made
    call,       \* the request being made, or the last one
    greeted,    \* history: processes that answered a handshake
    answered    \* history: the last request whose answer the caller got

vars == <<child, running, used, idle, stdin, channel, pc, calls, call, greeted, answered>>
worker == <<child, running, used, stdin, channel>>
caller == <<calls, call, greeted, answered>>

InCall == pc \in {"reap", "ensure", "write", "wait"}

-----------------------------------------------------------------------------
(* Starting and ending processes. *)

\* A handle that is dropped closes its pipes; it does not end the process.
ForgetRunning ==
    /\ running' = None
    /\ used' = {}
    /\ stdin' = <<>>
    /\ channel' = <<>>
    /\ UNCHANGED child

\* stop: kill and wait, then drop the handle.
KillRunning ==
    /\ running' = None
    /\ child' = [n \in Children |-> IF n = running THEN "exited" ELSE child[n]]
    /\ used' = {}
    /\ stdin' = <<>>
    /\ channel' = <<>>

Exited == running # None /\ child[running] = "exited"

\* discard_exited: forgets a process that has exited.
DiscardExited == IF Exited THEN ForgetRunning ELSE UNCHANGED worker

\* An error ends the call; the callers in the tree then end their command.
AfterError == IF KeepsGoing THEN "between" ELSE "failed"

-----------------------------------------------------------------------------
(* The caller. *)

\* analyze_selected_batch asks is_running before each batch and greets a worker
\* only when there is none.
CheckRunning ==
    /\ pc = "between"
    /\ DiscardExited
    /\ pc' = IF running = None \/ Exited THEN "greet" ELSE "send"
    /\ UNCHANGED <<idle, caller>>

BeginCall(id) ==
    /\ pc \in {"greet", "send"}
    /\ calls < MaxCalls
    /\ calls' = calls + 1
    /\ call' = [kind |-> IF pc = "greet" THEN "handshake" ELSE "batch",
                id |-> id, serial |-> calls + 1]
    /\ pc' = "reap"
    /\ UNCHANGED <<worker, idle, greeted, answered>>

\* reap_idle as a public call.
ReapBetweenCalls ==
    /\ pc = "between"
    /\ idle /\ running # None
    /\ KillRunning
    /\ UNCHANGED <<idle, pc, caller>>

\* The command ends and drops the supervisor; another one begins.
DropSupervisor ==
    /\ pc \in {"between", "failed"}
    /\ KillRunning
    /\ pc' = "between"
    /\ UNCHANGED <<idle, caller>>

Caller ==
    \/ CheckRunning
    \/ \E id \in Ids : BeginCall(id)
    \/ ReapBetweenCalls
    \/ DropSupervisor

-----------------------------------------------------------------------------
(* request_with_timeout, up to recv_timeout. *)

ReapIdle ==
    /\ pc = "reap"
    /\ IF idle THEN KillRunning ELSE UNCHANGED worker
    /\ pc' = "ensure"
    /\ UNCHANGED <<idle, caller>>

\* ensure_running finds a live worker.
KeepRunning ==
    /\ pc = "ensure"
    /\ running # None /\ ~Exited
    /\ pc' = "write"
    /\ UNCHANGED <<worker, idle, caller>>

\* Faulty variant of the next definition: the handle is kept before the process is there.
EnsureBeforeSpawn(n) ==
    /\ pc = "ensure"
    /\ running = None \/ Exited
    /\ child[n] = "unborn"
    /\ running' = n
    /\ used' = {}
    /\ stdin' = <<>>
    /\ channel' = <<>>
    /\ idle' = FALSE
    /\ pc' = "write"
    /\ UNCHANGED <<child, caller>>

\* ensure_running discards an exited worker and starts the next process.
StartWorker(n) ==
    /\ pc = "ensure"
    /\ running = None \/ Exited
    /\ child[n] = "unborn" /\ \A m \in 1..(n - 1) : child[m] # "unborn"
    /\ child' = [child EXCEPT ![n] = "alive"]
    /\ running' = n
    /\ used' = {}
    /\ stdin' = <<>>
    /\ channel' = <<>>
    /\ idle' = FALSE
    /\ pc' = "write"
    /\ UNCHANGED caller

\* spawn fails.
StartFails ==
    /\ pc = "ensure"
    /\ running = None \/ Exited
    /\ DiscardExited
    /\ pc' = AfterError
    /\ UNCHANGED <<idle, caller>>

\* A request ID this process has seen is refused before anything is written.
RejectDuplicate ==
    /\ pc = "write"
    /\ call.id \in used
    /\ pc' = AfterError
    /\ UNCHANGED <<worker, idle, caller>>

\* write_frame succeeds, into a live process or into the pipe of one that has
\* just exited.
WriteRequest ==
    /\ pc = "write"
    /\ call.id \notin used
    /\ used' = used \cup {call.id}
    /\ stdin' = IF Exited THEN stdin ELSE Append(stdin, call)
    /\ idle' = FALSE
    /\ pc' = "wait"
    /\ UNCHANGED <<child, running, channel, caller>>

\* The envelope does not encode, or write_frame fails, whether or not the process
\* still runs: the error is returned at once, no whole frame reaches the worker,
\* which is kept, and the request ID stays used.
WriteFails ==
    /\ pc = "write"
    /\ call.id \notin used
    /\ used' = used \cup {call.id}
    /\ pc' = AfterError
    /\ UNCHANGED <<child, running, idle, stdin, channel, caller>>

-----------------------------------------------------------------------------
(* What recv_timeout returns. *)

NextFrame == Head(channel)

\* Faulty variant of the next definition: the request ID is not compared.
FitsByForm(frame) == frame.form \in {"answer", "reported_error"}

\* A message for this request.
Fits(frame) == frame.form \in {"answer", "reported_error"} /\ frame.id = call.id

Unusable(frame) ==
    \/ frame.form \in {"bad_frame", "other_version"}
    \/ frame.form \in {"answer", "reported_error"} /\ ~Fits(frame)

\* The answer to this request.
ReceiveAnswer ==
    /\ pc = "wait" /\ channel # <<>>
    /\ Fits(NextFrame) /\ NextFrame.form = "answer"
    /\ channel' = Tail(channel)
    /\ idle' = FALSE
    /\ pc' = IF call.kind = "handshake" THEN "send" ELSE "between"
    /\ greeted' = IF call.kind = "handshake" THEN greeted \cup {running} ELSE greeted
    /\ answered' = [NextFrame.request EXCEPT !.id = NextFrame.id]
    /\ UNCHANGED <<child, running, used, stdin, calls, call>>

\* The worker reports an error, or its envelope does not decode: an error for
\* the caller, and the worker is kept.
ReceiveError ==
    /\ pc = "wait" /\ channel # <<>>
    /\ \/ Fits(NextFrame) /\ NextFrame.form = "reported_error"
       \/ NextFrame.form = "undecodable"
    /\ channel' = Tail(channel)
    /\ pc' = AfterError
    /\ UNCHANGED <<child, running, used, idle, stdin, caller>>

\* A broken frame, another protocol version or another request's ID: the
\* worker is stopped.
ReceiveUnusable ==
    /\ pc = "wait" /\ channel # <<>>
    /\ Unusable(NextFrame)
    /\ KillRunning
    /\ pc' = AfterError
    /\ UNCHANGED <<idle, caller>>

\* The reader thread ended with the process and left nothing in the channel.
Disconnected ==
    /\ pc = "wait" /\ channel = <<>>
    /\ Exited
    /\ KillRunning
    /\ pc' = AfterError
    /\ UNCHANGED <<idle, caller>>

\* Faulty variant of the next definition: the late worker is kept.
TimedOutKeepingWorker ==
    /\ pc = "wait" /\ channel = <<>>
    /\ pc' = AfterError
    /\ UNCHANGED <<worker, idle, caller>>

\* The deadline passes, at any point of the worker's progress.
TimedOut ==
    /\ pc = "wait" /\ channel = <<>>
    /\ KillRunning
    /\ pc' = AfterError
    /\ UNCHANGED <<idle, caller>>

Call ==
    \/ ReapIdle
    \/ KeepRunning
    \/ \E n \in Children : StartWorker(n)
    \/ StartFails
    \/ RejectDuplicate
    \/ WriteRequest
    \/ WriteFails
    \/ ReceiveAnswer
    \/ ReceiveError
    \/ ReceiveUnusable
    \/ Disconnected
    \/ TimedOut

-----------------------------------------------------------------------------
(* The worker process and the clock. *)

\* serve: read one request, write one frame for it.
Serve(form, id) ==
    /\ running # None /\ child[running] = "alive"
    /\ stdin # <<>>
    /\ stdin' = Tail(stdin)
    /\ channel' = Append(channel, [request |-> Head(stdin), id |-> id, form |-> form])
    /\ UNCHANGED <<child, running, used, idle, pc, caller>>

\* The process ends by itself; what it did not read is lost.
Exit ==
    /\ running # None /\ child[running] = "alive"
    /\ child' = [child EXCEPT ![running] = "exited"]
    /\ stdin' = <<>>
    /\ UNCHANGED <<running, used, idle, channel, pc, caller>>

\* idle_timeout passes since the last request or answer.
BecomeIdle ==
    /\ running # None /\ ~idle
    /\ idle' = TRUE
    /\ UNCHANGED <<worker, pc, caller>>

Environment ==
    \/ \E form \in Forms, id \in Ids : Serve(form, id)
    \/ Exit
    \/ BecomeIdle

Init ==
    /\ child = [n \in Children |-> "unborn"]
    /\ running = None
    /\ used = {}
    /\ idle = FALSE
    /\ stdin = <<>>
    /\ channel = <<>>
    /\ pc = "between"
    /\ calls = 0
    /\ call = None
    /\ greeted = {}
    /\ answered = None

Next == Caller \/ Call \/ Environment

\* A call that has begun goes on: the thread runs, and recv_timeout returns by
\* its deadline.  Nothing is assumed of the worker or of the caller.
Spec == Init /\ [][Next]_vars /\ WF_vars(Call)

-----------------------------------------------------------------------------
(* Properties. *)

\* Processes, handles, pipes and the call in progress have their types, and
\* the supervisor holds only a process it has started.
TypeOK ==
    /\ child \in [Children -> {"unborn", "alive", "exited"}]
    /\ running \in Children \cup {None}
    /\ running # None => child[running] # "unborn"
    /\ used \in SUBSET Ids
    /\ idle \in BOOLEAN
    /\ stdin \in Seq(Request)
    /\ channel \in Seq(Frame)
    /\ pc \in {"between", "failed", "greet", "send", "reap", "ensure", "write", "wait"}
    /\ calls \in 0..MaxCalls
    /\ call \in Request \cup {None}
    /\ greeted \in SUBSET Children
    /\ answered \in Request \cup {None}

\* request stops the worker on a timeout, on a bad frame and on a foreign
\* request ID, so whatever was late, broken, refused or retried, a worker the
\* supervisor keeps owes it nothing outside a call, and inside one at most one
\* frame, for that call.
StreamsInStep ==
    /\ pc # "wait" => stdin = <<>> /\ channel = <<>>
    /\ Len(stdin) + Len(channel) \leq 1
    /\ \A i \in 1..Len(channel) : channel[i].request = call
    /\ \A i \in 1..Len(stdin) : stdin[i] = call

\* stop, discard_exited and Drop leave no process behind: one that the
\* supervisor does not hold has ended.
NoWorkerLeftBehind ==
    \A n \in Children : child[n] = "alive" => n = running

\* "A restarted worker must handshake again before it can receive a batch": a
\* batch is only ever written to a process that answered a handshake.
GreetedBeforeBatch ==
    pc = "wait" /\ call.kind = "batch" => running \in greeted

\* request implements the one-request-one-reply promise, over any behaviour of
\* the worker.
Promise == INSTANCE RequestReply WITH asked <- IF InCall THEN call ELSE None

AnswersItsRequest == Promise!Spec

=============================================================================
