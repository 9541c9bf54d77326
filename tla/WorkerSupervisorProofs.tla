------------------------ MODULE WorkerSupervisorProofs ------------------------
(***************************************************************************)
(* Proofs about WorkerSupervisor, for any number of processes, calls and   *)
(* request IDs, whatever the worker answers or does not answer.            *)
(***************************************************************************)
EXTENDS WorkerSupervisor, SequenceTheorems, TLAPS

\* A call has a request, and from its write on a process.
CallsHaveRequest ==
    /\ InCall => call \in Request
    /\ pc \in {"write", "wait"} => running \in Children

IInv == TypeOK /\ CallsHaveRequest /\ StreamsInStep /\ NoWorkerLeftBehind

USE DEF Children, Forms

\* What the pipes hold is at most one frame long.
LEMMA EmptyPipes == <<>> \in Seq(Request) /\ <<>> \in Seq(Frame) /\ Len(<<>>) = 0
OBVIOUS

LEMMA ShortSequence ==
    ASSUME NEW S, NEW s \in Seq(S), s # <<>>, Len(s) \leq 1
    PROVE  /\ Len(s) = 1 /\ s = <<Head(s)>> /\ s[1] = Head(s)
           /\ Head(s) \in S /\ Tail(s) = <<>>
<1>1. Len(s) \in Nat /\ Len(s) # 0 /\ Head(s) \in S /\ Tail(s) \in Seq(S)
      /\ Len(Tail(s)) = Len(s) - 1
  BY HeadTailProperties, EmptySeq, LenProperties
<1>2. Len(s) = 1 /\ Len(Tail(s)) = 0
  BY <1>1
<1>3. Tail(s) = <<>>
  BY <1>1, <1>2, EmptySeq
<1>4. s = <<s[1]>> /\ s[1] = Head(s)
  BY <1>2
<1> QED
  BY <1>1, <1>2, <1>3, <1>4

LEMMA InitHolds == Init => IInv
<1> SUFFICES ASSUME Init PROVE IInv
  OBVIOUS
<1>1. TypeOK
  <2>1. child \in [Children -> {"unborn", "alive", "exited"}]
    BY DEF Init
  <2>2. stdin \in Seq(Request) /\ channel \in Seq(Frame)
    BY EmptyPipes DEF Init
  <2>3. calls \in 0..MaxCalls
    BY SupervisorAssumption DEF Init
  <2> QED
    BY <2>1, <2>2, <2>3 DEF Init, TypeOK
<1>2. CallsHaveRequest /\ StreamsInStep /\ NoWorkerLeftBehind
  BY EmptyPipes DEF Init, CallsHaveRequest, StreamsInStep, NoWorkerLeftBehind, InCall
<1> QED
  BY <1>1, <1>2 DEF IInv

\* What dropping or killing the worker does to processes and streams.
Released ==
    /\ child' \in [Children -> {"unborn", "alive", "exited"}]
    /\ running' = None
    /\ used' = {} /\ stdin' = <<>> /\ channel' = <<>>
    /\ \A n \in Children : child'[n] # "alive"

LEMMA KillReleases ==
    ASSUME TypeOK, NoWorkerLeftBehind, KillRunning
    PROVE  Released
BY SupervisorAssumption DEF TypeOK, NoWorkerLeftBehind, KillRunning, Released

LEMMA DiscardReleases ==
    ASSUME TypeOK, NoWorkerLeftBehind, DiscardExited
    PROVE  Released \/ UNCHANGED worker
BY SupervisorAssumption
   DEF TypeOK, NoWorkerLeftBehind, DiscardExited, ForgetRunning, Exited, Released, worker

\* A step that releases the worker, outside a wait, keeps the invariant.
LEMMA ReleaseKeeps ==
    ASSUME IInv, Released, UNCHANGED caller, idle' \in BOOLEAN,
           pc' \in {"between", "failed", "greet", "send", "ensure"},
           pc' = "ensure" => call \in Request
    PROVE  IInv'
BY SupervisorAssumption
   DEF IInv, TypeOK, CallsHaveRequest, StreamsInStep, NoWorkerLeftBehind, InCall,
       Released, caller

\* A step that only moves the caller on, outside a wait.
LEMMA MoveKeeps ==
    ASSUME IInv, UNCHANGED worker, UNCHANGED caller, idle' \in BOOLEAN, pc # "wait",
           pc' \in {"between", "failed", "greet", "send", "ensure", "write"},
           pc' \in {"ensure", "write"} => call \in Request,
           pc' = "write" => running \in Children
    PROVE  IInv'
BY DEF IInv, TypeOK, CallsHaveRequest, StreamsInStep, NoWorkerLeftBehind, InCall,
       worker, caller

LEMMA CallerKeeps ==
    ASSUME IInv, Caller
    PROVE  IInv'
<1>1. CASE CheckRunning
  <2>1. UNCHANGED caller /\ idle' \in BOOLEAN /\ pc = "between" /\ pc' \in {"greet", "send"}
    BY <1>1 DEF CheckRunning, IInv, TypeOK
  <2>2. Released \/ UNCHANGED worker
    BY <1>1, DiscardReleases DEF CheckRunning, IInv
  <2> QED
    BY <2>1, <2>2, ReleaseKeeps, MoveKeeps
<1>2. ASSUME NEW id \in Ids, BeginCall(id)
      PROVE  IInv'
  <2>1. call' \in Request /\ calls' \in 0..MaxCalls /\ pc' = "reap"
    BY <1>2, SupervisorAssumption DEF BeginCall, Request, IInv, TypeOK
  <2>2. stdin = <<>> /\ channel = <<>> /\ UNCHANGED <<worker, idle, greeted, answered>>
    BY <1>2 DEF BeginCall, IInv, StreamsInStep
  <2> QED
    BY <2>1, <2>2
       DEF IInv, TypeOK, CallsHaveRequest, StreamsInStep, NoWorkerLeftBehind, InCall, worker
<1>3. CASE ReapBetweenCalls
  BY <1>3, KillReleases, ReleaseKeeps DEF ReapBetweenCalls, IInv, TypeOK
<1>4. CASE DropSupervisor
  BY <1>4, KillReleases, ReleaseKeeps DEF DropSupervisor, IInv, TypeOK
<1> QED
  BY <1>1, <1>2, <1>3, <1>4 DEF Caller

\* What the caller finds in the channel is the frame for its request, and the last.
LEMMA FrameIsForCall ==
    ASSUME IInv, pc = "wait", channel # <<>>
    PROVE  /\ NextFrame \in Frame /\ NextFrame.request = call /\ call \in Request
           /\ stdin = <<>> /\ Tail(channel) = <<>>
<1>1. /\ channel \in Seq(Frame) /\ stdin \in Seq(Request) /\ Len(stdin) + Len(channel) \leq 1
      /\ \A i \in 1..Len(channel) : channel[i].request = call
  BY DEF IInv, TypeOK, StreamsInStep
<1>2. /\ Len(channel) = 1 /\ channel[1] = NextFrame /\ NextFrame \in Frame
      /\ Tail(channel) = <<>> /\ stdin = <<>>
  BY <1>1, ShortSequence, EmptySeq, LenProperties DEF NextFrame
<1>3. call \in Request
  BY DEF IInv, CallsHaveRequest, InCall
<1> QED
  BY <1>1, <1>2, <1>3

LEMMA CallKeeps ==
    ASSUME IInv, Call
    PROVE  IInv'
<1> USE DEF AfterError
<1>1. CASE ReapIdle
  <2>1. call \in Request /\ UNCHANGED caller /\ idle' \in BOOLEAN /\ pc' = "ensure" /\ pc = "reap"
    BY <1>1 DEF ReapIdle, IInv, TypeOK, CallsHaveRequest, InCall
  <2>2. Released \/ UNCHANGED worker
    BY <1>1, KillReleases DEF ReapIdle, IInv
  <2> QED
    BY <2>1, <2>2, ReleaseKeeps, MoveKeeps
<1>2. CASE KeepRunning
  BY <1>2, MoveKeeps DEF KeepRunning, IInv, TypeOK, CallsHaveRequest, InCall
<1>3. ASSUME NEW n \in Children, StartWorker(n)
      PROVE  IInv'
  <2>1. TypeOK'
    BY <1>3, EmptyPipes, SupervisorAssumption DEF StartWorker, IInv, TypeOK, caller
  <2>2. NoWorkerLeftBehind'
    BY <1>3, SupervisorAssumption DEF StartWorker, IInv, TypeOK, NoWorkerLeftBehind, Exited
  <2>3. CallsHaveRequest' /\ StreamsInStep'
    BY <1>3 DEF StartWorker, IInv, CallsHaveRequest, StreamsInStep, InCall, caller
  <2> QED
    BY <2>1, <2>2, <2>3 DEF IInv
<1>4. CASE StartFails
  <2>1. UNCHANGED caller /\ idle' \in BOOLEAN /\ pc = "ensure" /\ pc' \in {"between", "failed"}
    BY <1>4 DEF StartFails, IInv, TypeOK
  <2>2. Released \/ UNCHANGED worker
    BY <1>4, DiscardReleases DEF StartFails, IInv
  <2> QED
    BY <2>1, <2>2, ReleaseKeeps, MoveKeeps
<1>5. CASE RejectDuplicate
  BY <1>5, MoveKeeps DEF RejectDuplicate, IInv, TypeOK
<1>6. CASE WriteRequest
  <2>1. call \in Request /\ call.id \in Ids /\ stdin = <<>> /\ channel = <<>>
    BY <1>6 DEF WriteRequest, IInv, CallsHaveRequest, StreamsInStep, InCall, Request
  <2>2. stdin' = <<>> \/ stdin' = <<call>>
    BY <1>6, <2>1 DEF WriteRequest
  <2>3. /\ pc' = "wait" /\ idle' = FALSE /\ used' = used \cup {call.id}
        /\ UNCHANGED <<child, running, channel, calls, call, greeted, answered>>
    BY <1>6 DEF WriteRequest, caller
  <2>4. TypeOK'
    <3>0. <<call>> \in Seq(Request)
      BY <2>1
    <3>1. stdin' \in Seq(Request)
      BY <2>2, <3>0, EmptyPipes
    <3> QED
      BY <2>1, <2>3, <3>1 DEF IInv, TypeOK
  <2>5. StreamsInStep'
    BY <2>1, <2>2, <2>3 DEF StreamsInStep
  <2>6. running \in Children
    BY <1>6 DEF WriteRequest, IInv, CallsHaveRequest
  <2> QED
    BY <2>1, <2>3, <2>4, <2>5, <2>6 DEF IInv, CallsHaveRequest, NoWorkerLeftBehind
<1>7. CASE WriteFails
  <2>1. call \in Request /\ call.id \in Ids /\ stdin = <<>> /\ channel = <<>>
    BY <1>7 DEF WriteFails, IInv, CallsHaveRequest, StreamsInStep, InCall, Request
  <2> QED
    BY <1>7, <2>1
       DEF WriteFails, IInv, TypeOK, CallsHaveRequest, StreamsInStep, NoWorkerLeftBehind,
           InCall, caller
<1>9. CASE ReceiveAnswer
  <2>1. /\ NextFrame \in Frame /\ NextFrame.request = call /\ call \in Request
        /\ stdin = <<>> /\ Tail(channel) = <<>>
    BY <1>9, FrameIsForCall DEF ReceiveAnswer
  <2>2. /\ channel' = <<>> /\ idle' = FALSE /\ pc' \in {"send", "between"}
        /\ UNCHANGED <<child, running, used, stdin, calls, call>>
    BY <1>9, <2>1 DEF ReceiveAnswer
  <2>3. greeted' \in SUBSET Children
    BY <1>9 DEF ReceiveAnswer, IInv, TypeOK, CallsHaveRequest
  <2>4. answered' \in Request
    <3>1. NextFrame.request \in Request /\ NextFrame.id \in Ids
      BY <2>1 DEF Frame
    <3>2. answered' = [NextFrame.request EXCEPT !.id = NextFrame.id]
      BY <1>9 DEF ReceiveAnswer
    <3> HIDE DEF NextFrame
    <3> QED
      BY <3>1, <3>2 DEF Request
  <2>5. TypeOK'
    BY <2>1, <2>2, <2>3, <2>4, EmptyPipes DEF IInv, TypeOK
  <2>6. StreamsInStep'
    BY <2>1, <2>2, EmptyPipes DEF StreamsInStep
  <2> QED
    BY <2>2, <2>5, <2>6 DEF IInv, CallsHaveRequest, NoWorkerLeftBehind, InCall
<1>10. CASE ReceiveError
  <2>1. stdin = <<>> /\ Tail(channel) = <<>>
    BY <1>10, FrameIsForCall DEF ReceiveError
  <2> QED
    BY <1>10, <2>1
       DEF ReceiveError, IInv, TypeOK, CallsHaveRequest, StreamsInStep, NoWorkerLeftBehind,
           InCall, caller
<1>11. CASE ReceiveUnusable \/ Disconnected \/ TimedOut
  BY <1>11, KillReleases, ReleaseKeeps
     DEF ReceiveUnusable, Disconnected, TimedOut, IInv, TypeOK
<1> QED
  BY <1>1, <1>2, <1>3, <1>4, <1>5, <1>6, <1>7, <1>9, <1>10, <1>11 DEF Call

LEMMA EnvironmentKeeps ==
    ASSUME IInv, Environment
    PROVE  IInv'
<1>1. ASSUME NEW form \in Forms, NEW id \in Ids, Serve(form, id)
      PROVE  IInv'
  <2>1. channel = <<>> /\ stdin = <<call>> /\ pc = "wait" /\ call \in Request
    <3>1. /\ stdin \in Seq(Request) /\ channel \in Seq(Frame) /\ stdin # <<>>
          /\ Len(stdin) + Len(channel) \leq 1 /\ \A i \in 1..Len(stdin) : stdin[i] = call
      BY <1>1 DEF Serve, IInv, TypeOK, StreamsInStep
    <3>2. Len(stdin) = 1 /\ stdin = <<Head(stdin)>> /\ stdin[1] = Head(stdin) /\ channel = <<>>
      BY <3>1, ShortSequence, EmptySeq, LenProperties
    <3>3. pc = "wait"
      BY <3>1 DEF IInv, StreamsInStep
    <3> QED
      BY <3>1, <3>2, <3>3 DEF IInv, CallsHaveRequest, InCall
  <2>2. /\ stdin' = <<>>
        /\ channel' = <<[request |-> call, id |-> id, form |-> form]>>
    BY <1>1, <2>1 DEF Serve
  <2>3. channel'[1] \in Frame /\ channel'[1].request = call
    BY <1>1, <2>1, <2>2 DEF Frame
  <2>4. UNCHANGED <<child, running, used, idle, pc, caller>>
    BY <1>1 DEF Serve
  <2>5. TypeOK'
    BY <2>2, <2>3, <2>4 DEF IInv, TypeOK, caller
  <2>6. StreamsInStep'
    BY <2>1, <2>2, <2>3, <2>4 DEF StreamsInStep, caller
  <2> QED
    BY <2>4, <2>5, <2>6 DEF IInv, CallsHaveRequest, NoWorkerLeftBehind, InCall, caller
<1>2. CASE Exit
  BY <1>2 DEF Exit, IInv, TypeOK, CallsHaveRequest, StreamsInStep, NoWorkerLeftBehind,
              InCall, caller
<1>3. CASE BecomeIdle
  BY <1>3 DEF BecomeIdle, IInv, TypeOK, CallsHaveRequest, StreamsInStep,
              NoWorkerLeftBehind, InCall, worker, caller
<1> QED
  BY <1>1, <1>2, <1>3 DEF Environment

LEMMA StutterKeeps ==
    ASSUME IInv, UNCHANGED vars
    PROVE  IInv'
BY DEF IInv, TypeOK, CallsHaveRequest, StreamsInStep, NoWorkerLeftBehind, InCall, vars

LEMMA Invariance == Spec => []IInv
<1>1. IInv /\ [Next]_vars => IInv'
  BY CallerKeeps, CallKeeps, EnvironmentKeeps, StutterKeeps DEF Next
<1> QED
  BY <1>1, InitHolds, PTL DEF Spec

\* The supervisor's variables keep their types: it holds only processes it has
\* started, and what is in the pipes are requests and frames.
THEOREM TypeCorrect == Spec => []TypeOK
BY Invariance, PTL DEF IInv

\* Whatever was late, broken, refused or retried, a worker that is kept owes
\* nothing outside a call, and inside one at most one frame, for that call.
THEOREM StreamsStayInStep == Spec => []StreamsInStep
BY Invariance, PTL DEF IInv

\* A process the supervisor no longer holds has ended.
THEOREM NoWorkerIsLeftBehind == Spec => []NoWorkerLeftBehind
BY Invariance, PTL DEF IInv

-----------------------------------------------------------------------------
(* The refinement of RequestReply: each step of the supervisor is one of the *)
(* promise or leaves it as it was.                                           *)

Asked == IF InCall THEN call ELSE None

LEMMA InitRefines == Init => Promise!Init
BY DEF Init, Promise!Init, InCall

LEMMA CallRefines ==
    ASSUME IInv, Call
    PROVE  Promise!Next \/ UNCHANGED <<Asked, answered>>
<1>1. InCall /\ call \in Request /\ call # None /\ call' = call
  BY SupervisorAssumption
     DEF Call, ReapIdle, KeepRunning, StartWorker, StartFails, RejectDuplicate, WriteRequest,
         WriteFails, ReceiveAnswer, ReceiveError, ReceiveUnusable, Disconnected, TimedOut,
         IInv, CallsHaveRequest, InCall, caller
<1>2. CASE ReapIdle \/ KeepRunning \/ (\E n \in Children : StartWorker(n)) \/ WriteRequest
  <2>1. InCall' /\ answered' = answered
    BY <1>2 DEF ReapIdle, KeepRunning, StartWorker, WriteRequest, InCall, caller
  <2> QED
    BY <1>1, <2>1 DEF Asked
<1>3. CASE StartFails \/ RejectDuplicate \/ WriteFails \/ ReceiveError \/ ReceiveUnusable
             \/ Disconnected \/ TimedOut
  <2>1. ~InCall' /\ answered' = answered
    BY <1>3 DEF StartFails, RejectDuplicate, WriteFails, ReceiveError, ReceiveUnusable,
                Disconnected, TimedOut, AfterError, InCall, caller
  <2>2. Promise!Fail
    BY <1>1, <2>1 DEF Promise!Fail
  <2> QED
    BY <2>2 DEF Promise!Next
<1>4. CASE ReceiveAnswer
  <2>1. ~InCall'
    BY <1>4 DEF ReceiveAnswer, InCall
  <2>2. NextFrame \in Frame /\ NextFrame.request = call /\ NextFrame.id = call.id
    BY <1>4, FrameIsForCall DEF ReceiveAnswer, Fits
  <2>3. answered' = [NextFrame.request EXCEPT !.id = NextFrame.id]
    BY <1>4 DEF ReceiveAnswer
  <2>4. answered' = call
    <3> HIDE DEF NextFrame
    <3> QED
      BY <1>1, <2>2, <2>3 DEF Request
  <2>5. Promise!Answer
    BY <1>1, <2>1, <2>4 DEF Promise!Answer
  <2> QED
    BY <2>5 DEF Promise!Next
<1> QED
  BY <1>2, <1>3, <1>4 DEF Call

LEMMA NextRefines ==
    ASSUME IInv, [Next]_vars
    PROVE  Promise!Next \/ UNCHANGED <<Asked, answered>>
<1>1. CASE Caller
  <2>1. ASSUME NEW id \in Ids, BeginCall(id)
        PROVE  Promise!Next
    <3>1. call' \in Request /\ ~InCall /\ InCall' /\ answered' = answered
      BY <2>1, SupervisorAssumption DEF BeginCall, Request, InCall, IInv, TypeOK
    <3>2. Promise!Ask(call')
      BY <3>1 DEF Promise!Ask
    <3> QED
      BY <3>1, <3>2 DEF Promise!Next
  <2>2. CASE CheckRunning \/ ReapBetweenCalls \/ DropSupervisor
    BY <2>2 DEF CheckRunning, ReapBetweenCalls, DropSupervisor, InCall, Asked, caller
  <2> QED
    BY <1>1, <2>1, <2>2 DEF Caller
<1>2. CASE Call
  BY <1>2, CallRefines
<1>3. CASE Environment \/ UNCHANGED vars
  BY <1>3 DEF Environment, Serve, Exit, BecomeIdle, InCall, Asked, caller, vars
<1> QED
  BY <1>1, <1>2, <1>3 DEF Next

\* The supervisor gives its caller one request at a time and an answer only to
\* the request being made: the safety part of AnswersItsRequest.
THEOREM AnswersOnlyItsRequest ==
    Spec => Promise!Init /\ [][Promise!Next]_(Promise!vars)
<1>1. IInv /\ [Next]_vars => [Promise!Next]_(Promise!vars)
  BY NextRefines DEF Promise!vars, Asked
<1> QED
  BY <1>1, InitRefines, Invariance, PTL DEF Spec
=============================================================================
