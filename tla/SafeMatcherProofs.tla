------------------------- MODULE SafeMatcherProofs -------------------------
(***************************************************************************)
(* Proofs about SafeMatcher: the inductive invariant, what follows from    *)
(* it, and that finditer implements MatchService.                          *)
(***************************************************************************)
EXTENDS SafeMatcher, TLAPS

\* An answer names the call it was computed for (_worker_loop puts one
\* result per task).
LEMMA AnswerToType ==
  ASSUME NEW c \in Call
  PROVE  /\ AnswerTo(c) \in [id : CallId, kind : Answers]
         /\ AnswerTo(c).id = c.id
  BY DEF AnswerTo, Call, Answers

\* When every process but the handle is reaped, clearing the handle's job
\* leaves no job anywhere.
LEMMA OnlyHandleWorks ==
  ASSUME TypeOK, NoOrphanWorker, FreeHasNoJob,
         NEW p \in PID, p # handle
  PROVE  job[p] = None
  BY DEF NoOrphanWorker, FreeHasNoJob

\* A matcher that has not been used satisfies the inductive invariant.
LEMMA InitIInv == Init => IInv
  <1> SUFFICES ASSUME Init PROVE IInv
    OBVIOUS
  <1>0. ~Outlived
    BY DEF Init, Outlived
  <1>1. TypeOK
    <2>1. outcome \in Outcome
      BY DEF Init, Outcome
    <2>2. /\ proc \in [PID -> Running \cup {"free", "dead"}]
          /\ job \in [PID -> Call \cup {None}]
      BY DEF Init
    <2>3. /\ <<>> \in Seq(Call \cup {Sentinel})
          /\ <<>> \in Seq([id : CallId, kind : Answers])
      OBVIOUS
    <2> QED
      BY <2>1, <2>2, <2>3 DEF Init, TypeOK, Reasons, Failures
  <1>2. NoOrphanWorker /\ HandleIsStarted /\ FreeHasNoJob /\ ControlState /\ WrittenIsFound
    BY DEF Init, NoOrphanWorker, HandleIsStarted, FreeHasNoJob, ControlState, WrittenIsFound,
           Stopping, Teardown
  <1>3. CleanIsQuiet /\ CallInOnePlace
    BY DEF Init, CleanIsQuiet, CallInOnePlace, Empty, Unemployed, NoJob
  <1>4. AnswerMatchesCall
    BY DEF Init, AnswerMatchesCall, Attributed, Answers
  <1> QED
    BY <1>1, <1>2, <1>3, <1>4 DEF IInv, Bookkeeping

\* What a non-empty queue of S hands out is in S.
LEMMA HeadOfQueue ==
  ASSUME NEW S, NEW q \in Seq(S), q # <<>>
  PROVE  Head(q) \in S /\ Tail(q) \in Seq(S)
  OBVIOUS

\* Every step preserves the type invariant.
LEMMA TypeStep ==
  ASSUME TypeOK, ControlState, [Next]_vars
  PROVE  TypeOK'
  <1> DEFINE Item == Call \cup {Sentinel}
             Result == [id : CallId, kind : Answers]
  <1>q. /\ feeder \in Seq(Item) /\ taskPipe \in Seq(Item)
        /\ resultPipe \in Seq(Result)
        /\ <<>> \in Seq(Item) /\ <<>> \in Seq(Result)
    BY DEF TypeOK
  <1>n. None \notin PID /\ None \notin Call /\ Sentinel = None
    BY SafeMatcherAssumption DEF Sentinel
  <1>1. ASSUME NEW t \in Task, Finditer(t) PROVE TypeOK'
    <2>1. req' \in Call
      BY <1>1 DEF Finditer, FreshId, Call
    <2> QED
      BY <1>1, <2>1 DEF Finditer, TypeOK, Teardown, workerVars, queueVars
  <1>2. ASSUME NEW p \in Reasons, Close(p), UNCHANGED outcome PROVE TypeOK'
    <2>1. Append(feeder, Sentinel) \in Seq(Item)
      BY <1>q
    <2> QED
      BY <1>2, <2>1 DEF Close, TypeOK, Teardown, workerVars
  <1>3. CASE Spawn
    BY <1>3, <1>q DEF Spawn, TypeOK, Running
  <1>4. CASE Put
    <2>1. Append(feeder, req) \in Seq(Item)
      BY <1>q, <1>n DEF TypeOK
    <2> QED
      BY <1>4, <2>1 DEF Put, TypeOK, workerVars
  <1>5. CASE Receive
    <2>1. resultPipe # <<>> /\ Head(resultPipe) \in Result /\ Tail(resultPipe) \in Seq(Result)
      <3>1. resultPipe # <<>>
        BY <1>5 DEF Receive
      <3> QED
        BY ONLY <3>1, <1>q, HeadOfQueue
    <2>2. req.id \in CallId
      BY <1>5 DEF Receive, ControlState, TypeOK, Call
    <2>3. outcome' \in Outcome
      BY <1>5, <2>1, <2>2 DEF Receive, Outcome
    <2> QED
      BY <1>5, <2>1, <2>3 DEF Receive, TypeOK, workerVars
  <1>6. CASE BeginReceive \/ JoinReturns \/ Timeout \/ CheckWorker \/ JoinTerminated \/ JoinKilled
    BY <1>6
    DEF BeginReceive, JoinReturns, Timeout, CheckWorker, JoinTerminated, JoinKilled, TypeOK,
        Reasons, Teardown, Stopping, workerVars, queueVars
  <1>20. CASE Terminate \/ Kill
    BY <1>20 DEF Terminate, Kill, Alive, TypeOK, Teardown, Stopping, queueVars
  <1>7. CASE CloseWorker
    <2>1. /\ proc' \in [PID -> Running \cup {"free", "dead"}]
          /\ job' \in [PID -> Call \cup {None}]
      BY <1>7 DEF CloseWorker, TypeOK
    <2> QED
      BY <1>7, <2>1 DEF CloseWorker, TypeOK, Teardown, queueVars
  <1>21. CASE CloseRaises
    <2>1. req \in Call => req.id \in CallId
      BY DEF Call
    <2>2. outcome' \in Outcome
      BY <1>21, <2>1 DEF CloseRaises, Outcome, Failures, TypeOK
    <2> QED
      BY <1>21, <2>2 DEF CloseRaises, TypeOK, workerVars, queueVars
  <1>8. CASE DropQueues
    <2>1. req \in Call => req.id \in CallId
      BY DEF Call
    <2>2. outcome' \in Outcome
      BY <1>8, <2>1 DEF DropQueues, Outcome, Failures, TypeOK
    <2> QED
      BY <1>8, <1>q, <2>2 DEF DropQueues, TypeOK, workerVars
  <1>9. ASSUME NEW from, NEW to \in Running \cup {"dead"}, Does(from, to)
        PROVE  /\ pc' = pc /\ after' = after /\ req' = req /\ why' = why
               /\ outcome' = outcome /\ survivals' = survivals
               /\ handle' = handle /\ doomed' = doomed
               /\ handle \in PID
               /\ proc' \in [PID -> Running \cup {"free", "dead"}]
    BY <1>9 DEF Does, TypeOK, parentVars
  <1>10. CASE Boot
    BY <1>10, <1>9 DEF Boot, TypeOK, Running, queueVars
  <1>11. CASE Take
    <2>1. Head(taskPipe) \in Call /\ Tail(taskPipe) \in Seq(Item)
      BY <1>11, <1>q DEF Take
    <2> QED
      BY <1>11, <1>9, <2>1 DEF Take, TypeOK, Running
  <1>12. CASE TakeSentinel
    <2>1. Tail(taskPipe) \in Seq(Item)
      BY <1>12, <1>q DEF TakeSentinel
    <2> QED
      BY <1>12, <1>9, <2>1 DEF TakeSentinel, TypeOK
  <1>13. CASE TakeLarge
    <2>1. Head(feeder) \in Call /\ Tail(feeder) \in Seq(Item)
      BY <1>13, <1>q DEF TakeLarge, FitsInPipe
    <2> QED
      BY <1>13, <1>9, <2>1 DEF TakeLarge, TypeOK, Running
  <1>14. CASE Search \/ EndWrite
    <2>1. handle \in PID /\ job[handle] \in Call
      BY <1>14 DEF Search, EndWrite, TypeOK
    <2>2. Append(resultPipe, AnswerTo(job[handle])) \in Seq(Result)
      BY <1>q, <2>1, AnswerToType
    <2>3. job' \in [PID -> Call \cup {None}]
      BY <1>14 DEF Search, EndWrite, TypeOK
    <2> QED
      BY <1>14, <1>9, <2>2, <2>3 DEF Search, EndWrite, TypeOK, Running
  <1>15. CASE BeginWrite
    BY <1>15, <1>9 DEF BeginWrite, TypeOK, Running
  <1>16. CASE Crash
    BY <1>16 DEF Crash, Alive, TypeOK, parentVars, queueVars
  <1>17. CASE Flush
    <2>1. Head(feeder) \in Item /\ Tail(feeder) \in Seq(Item)
      BY <1>17, <1>q DEF Flush
    <2>2. Append(taskPipe, Head(feeder)) \in Seq(Item)
      BY <1>q, <2>1
    <2> QED
      BY <1>17, <2>1, <2>2 DEF Flush, TypeOK, parentVars, workerVars
  <1>18. CASE UNCHANGED vars
    BY <1>18 DEF vars, parentVars, workerVars, queueVars, TypeOK
  <1>19. CASE CloseIdle \/ Interrupt
    <2>1. why \in Reasons /\ "interrupted" \in Reasons
      BY DEF TypeOK, Reasons
    <2> QED
      BY <1>2, <1>19, <2>1 DEF CloseIdle, Interrupt, Close
  <1> QED
    BY <1>1, <1>3, <1>4, <1>5, <1>6, <1>7, <1>8, <1>10, <1>11, <1>12, <1>13,
       <1>14, <1>15, <1>16, <1>17, <1>18, <1>19, <1>20, <1>21
    DEF Next, ParentStep, WorkerStep, Die

\* No step orphans a process or reaps one that still has a job.
LEMMA ProcessStep ==
  ASSUME TypeOK, NoOrphanWorker, HandleIsStarted, FreeHasNoJob, ControlState, [Next]_vars
  PROVE  NoOrphanWorker' /\ HandleIsStarted' /\ FreeHasNoJob'
  <1> USE DEF NoOrphanWorker, HandleIsStarted, FreeHasNoJob
  <1>t. /\ handle \in PID \cup {None}
        /\ proc \in [PID -> Running \cup {"free", "dead"}]
        /\ job \in [PID -> Call \cup {None}]
    BY DEF TypeOK
  <1>1. CASE UNCHANGED workerVars
    BY <1>1 DEF workerVars
  <1>2. CASE Spawn
    BY <1>2, <1>t, SafeMatcherAssumption DEF Spawn, ControlState
  <1>3. CASE CloseWorker
    BY <1>3, <1>t, SafeMatcherAssumption DEF CloseWorker
  <1>6. CASE Terminate \/ Kill
    BY <1>6 DEF Terminate, Kill
  <1>4. CASE WorkerStep
    <2>1. /\ handle' = handle /\ handle \in PID /\ proc[handle] # "free"
          /\ \E to \in {"ready", "busy", "writing", "dead"} :
                proc' = [proc EXCEPT ![handle] = to]
      BY <1>4, <1>t
      DEF WorkerStep, Boot, Take, TakeSentinel, TakeLarge, Search, BeginWrite, EndWrite, Does
    <2>2. \A p \in PID : p # handle => job'[p] = job[p]
      BY <1>4, <1>t
      DEF WorkerStep, Boot, Take, TakeSentinel, TakeLarge, Search, BeginWrite, EndWrite
    <2> QED
      BY <2>1, <2>2, <1>t
  <1>5. CASE Crash
    <2>1. /\ handle' = handle /\ job' = job /\ handle \in PID
          /\ proc[handle] # "free" /\ proc' = [proc EXCEPT ![handle] = "dead"]
      BY <1>5, <1>t DEF Crash, Alive, Running
    <2> QED
      BY <2>1, <1>t
  <1> QED
    BY <1>1, <1>2, <1>3, <1>4, <1>5, <1>6
    DEF Next, ParentStep, Finditer, CloseIdle, Interrupt, Close, Put, Receive,
        BeginReceive, JoinReturns, CheckWorker, JoinTerminated, JoinKilled, CloseRaises,
        DropQueues, Timeout, Flush, Die, vars

\* The parent's control stays consistent with the call it serves.
LEMMA ControlStep ==
  ASSUME TypeOK, ControlState, [Next]_vars
  PROVE  ControlState'
  <1> USE DEF Teardown, Stopping
  <1>t. req \in Call \cup {None} /\ after \in {"idle", "spawn"}
    BY DEF TypeOK
  <1>n. None \notin PID /\ None \notin Call
    BY SafeMatcherAssumption
  <1>1. CASE UNCHANGED <<pc, after, req, handle>>
    BY <1>1 DEF ControlState
  <1>2. CASE \E t \in Task : Finditer(t)
    <2>1. req' # None
      BY <1>2, <1>n DEF Finditer, FreshId, Call
    <2>2. handle' = handle /\ (pc' = "put" => handle # None)
      BY <1>2 DEF Finditer, Alive, workerVars
    <2> QED
      BY <1>2, <2>1, <2>2 DEF Finditer, ControlState
  <1>3. CASE Spawn
    BY <1>3, <1>n DEF Spawn, ControlState
  <1>4. CASE Put \/ BeginReceive \/ JoinReturns \/ Timeout
    BY <1>4 DEF Put, BeginReceive, JoinReturns, Timeout, ControlState, workerVars
  <1>5. CASE Receive
    BY <1>5 DEF Receive, ControlState, workerVars
  <1>6. CASE CloseIdle \/ Interrupt
    BY <1>6 DEF CloseIdle, Interrupt, Close, ControlState, workerVars
  <1>7. CASE CloseWorker \/ CloseRaises
    BY <1>7 DEF CloseWorker, CloseRaises, ControlState, workerVars
  <1>10. CASE CheckWorker \/ JoinTerminated \/ JoinKilled
    BY <1>10 DEF CheckWorker, JoinTerminated, JoinKilled, ControlState, Alive, workerVars
  <1>11. CASE Terminate \/ Kill
    BY <1>11 DEF Terminate, Kill, ControlState
  <1>8. CASE DropQueues
    BY <1>8, <1>t DEF DropQueues, ControlState, workerVars
  <1>9. CASE WorkerStep
    BY <1>9, <1>1
    DEF WorkerStep, Boot, Take, TakeSentinel, TakeLarge, Search, BeginWrite,
        EndWrite, Does, parentVars
  <1> QED
    BY <1>1, <1>2, <1>3, <1>4, <1>5, <1>6, <1>7, <1>8, <1>9, <1>10, <1>11
    DEF Next, ParentStep, Crash, Die, Flush, vars, parentVars, workerVars

\* A step after which no worker has outlived its kill begins where none has,
\* and is not the one in which close() raises.
LEMMA OutlivedStep ==
  ASSUME TypeOK, [Next]_vars, ~Outlived'
  PROVE  ~Outlived /\ ~CloseRaises
  <1>1. survivals \in Nat
    BY DEF TypeOK
  <1>2. CASE CloseRaises
    BY <1>1, <1>2 DEF CloseRaises, Outlived
  <1>3. CASE survivals' = survivals
    BY <1>1, <1>3 DEF CloseRaises, Outlived
  <1> QED
    BY <1>2, <1>3
    DEF Next, ParentStep, WorkerStep, Finditer, CloseIdle, Interrupt, Close, Spawn, Put, Receive,
        BeginReceive, JoinReturns, CheckWorker, Terminate, JoinTerminated, Kill, JoinKilled,
        CloseWorker, DropQueues, Timeout, Boot, Take, TakeSentinel, TakeLarge, Search,
        BeginWrite, EndWrite, Does, Crash, Die, Flush, vars, parentVars

\* Only the answer of a search that has ended is ever being written.
LEMMA WrittenStep ==
  ASSUME TypeOK, WrittenIsFound, HandleIsStarted, ControlState, [Next]_vars
  PROVE  WrittenIsFound'
  <1> USE DEF WrittenIsFound
  <1>t. /\ handle \in PID \cup {None}
        /\ proc \in [PID -> Running \cup {"free", "dead"}]
        /\ job \in [PID -> Call \cup {None}]
    BY DEF TypeOK
  <1>1. CASE UNCHANGED <<proc, job>>
    BY <1>1
  <1>2. CASE Spawn
    BY <1>2, <1>t DEF Spawn
  <1>3. CASE CloseWorker
    BY <1>3, <1>t DEF CloseWorker
  <1>4. CASE Boot \/ Take \/ TakeSentinel \/ TakeLarge \/ Search \/ BeginWrite \/ EndWrite
    BY <1>4, <1>t
    DEF Boot, Take, TakeSentinel, TakeLarge, Search, BeginWrite, EndWrite, Does
  <1>5. CASE Crash
    BY <1>5, <1>t DEF Crash
  <1> QED
    BY <1>1, <1>2, <1>3, <1>4, <1>5
    DEF Next, ParentStep, WorkerStep, Finditer, CloseIdle, Interrupt, Close, Put, Receive,
        BeginReceive, JoinReturns, CheckWorker, Terminate, JoinTerminated, Kill, JoinKilled,
        CloseRaises, DropQueues, Timeout, Flush, Die, vars, workerVars

\* An answer that is received is the answer of the call being served.
LEMMA AnswerStep ==
  ASSUME TypeOK, ControlState, AnswerMatchesCall, CallInOnePlace, [Next]_vars
  PROVE  AnswerMatchesCall'
  <1> SUFFICES ASSUME ~Outlived' PROVE Attributed'
    BY DEF AnswerMatchesCall
  <1>0. Attributed /\ ~Outlived /\ ~CloseRaises
    BY OutlivedStep DEF AnswerMatchesCall
  <1>1. CASE UNCHANGED outcome
    BY <1>0, <1>1 DEF Attributed
  <1>2. CASE Receive
    <2>1. Answered /\ req \in Call
      BY <1>0, <1>2
      DEF Receive, CallInOnePlace, ControlState, InFeeder, InPipe, InWorker, TypeOK
    <2>2. Head(resultPipe).id = req.id
      BY <2>1, AnswerToType DEF Answered
    <2> QED
      BY <1>2, <2>2 DEF Receive, Attributed
  <1>3. CASE DropQueues
    BY <1>0, <1>3 DEF DropQueues, Attributed, TypeOK, Reasons, Answers
  <1> QED
    BY <1>0, <1>1, <1>2, <1>3
    DEF Next, ParentStep, WorkerStep, Finditer, CloseIdle, Interrupt, Close, Spawn, Put,
        BeginReceive, JoinReturns, CheckWorker, Terminate, JoinTerminated, Kill, JoinKilled,
        CloseWorker, Timeout, Boot, Take, TakeSentinel, TakeLarge, Search, BeginWrite,
        EndWrite, Does, Crash, Die, Flush, vars, parentVars

\* Outside a call nothing is in a queue and nothing searches.
LEMMA CleanStep ==
  ASSUME IInv, [Next]_vars
  PROVE  CleanIsQuiet'
  <1> SUFFICES ASSUME ~Outlived' PROVE Clean' => Empty' /\ Unemployed'
    BY DEF CleanIsQuiet
  <1> USE DEF Clean, Teardown, Stopping
  <1>t. TypeOK /\ NoOrphanWorker /\ FreeHasNoJob /\ ControlState /\ CallInOnePlace
    BY DEF IInv, Bookkeeping
  <1>l. ~Outlived /\ ~CloseRaises /\ (Clean => Empty /\ Unemployed)
    BY <1>t, OutlivedStep DEF IInv, CleanIsQuiet
  <1>h. /\ handle \in PID \cup {None}
        /\ proc \in [PID -> Running \cup {"free", "dead"}]
        /\ job \in [PID -> Call \cup {None}]
        /\ after \in {"idle", "spawn"}
    BY <1>t DEF TypeOK
  <1>w. handle = None => NoJob
    BY <1>t, SafeMatcherAssumption DEF NoOrphanWorker, FreeHasNoJob, NoJob
  <1>u. ASSUME Clean, UNCHANGED <<workerVars, queueVars>>
        PROVE  Empty' /\ Unemployed'
    BY <1>l, <1>u DEF Empty, Unemployed, NoJob, workerVars, queueVars
  <1>1. CASE UNCHANGED vars
    BY <1>1, <1>u DEF vars, parentVars
  <1>2. CASE \E t \in Task : Finditer(t)
    BY <1>2, <1>u DEF Finditer
  <1>11. CASE CheckWorker \/ JoinTerminated \/ JoinKilled
    BY <1>11, <1>u DEF CheckWorker, JoinTerminated, JoinKilled
  <1>12. CASE Terminate \/ Kill
    BY <1>12, <1>l DEF Terminate, Kill, Empty, Unemployed, NoJob, queueVars
  <1>3. CASE CloseIdle \/ Interrupt \/ Put \/ BeginReceive \/ JoinReturns \/ Timeout
    <2>1. ~ Clean'
      BY <1>3, <1>t DEF CloseIdle, Interrupt, Close, Put, BeginReceive, JoinReturns, Timeout, ControlState
    <2> QED
      BY <2>1
  <1>4. CASE Spawn
    <2>1. \E p \in PID : handle' = p /\ proc' = [proc EXCEPT ![p] = "booting"]
      BY <1>4 DEF Spawn
    <2>2. NoJob /\ job' = job
      BY <1>4, <1>w, <1>t DEF Spawn, ControlState
    <2> QED
      BY <1>4, <1>h, <2>1, <2>2 DEF Spawn, Empty, Unemployed, NoJob
  <1>5. CASE Receive
    <2>1. Answered
      BY <1>5, <1>t, <1>l DEF Receive, CallInOnePlace, InFeeder, InPipe, InWorker
    <2>2. resultPipe' = <<>>
      BY <1>5, <2>1 DEF Receive, Answered
    <2> QED
      BY <1>5, <2>1, <2>2 DEF Receive, Answered, Empty, Unemployed, NoJob, workerVars
  <1>6. CASE CloseWorker
    <2>1. handle' = None
      BY <1>6 DEF CloseWorker
    <2>2. NoJob'
      BY <1>6, <1>w, <1>t, <1>h DEF CloseWorker, NoOrphanWorker, FreeHasNoJob, NoJob
    <2> QED
      BY <1>6, <1>l, <2>1, <2>2 DEF CloseWorker, Empty, Unemployed, queueVars
  <1>7. CASE DropQueues
    <2>1. handle' = None /\ job' = job /\ NoJob
      BY <1>7, <1>t, <1>w DEF DropQueues, ControlState, workerVars
    <2> QED
      BY <1>7, <2>1 DEF DropQueues, Empty, Unemployed, NoJob
  <1>8. CASE WorkerStep
    <2>1. UNCHANGED <<pc, after>>
      BY <1>8
      DEF WorkerStep, Boot, Take, TakeSentinel, TakeLarge, Search, BeginWrite, EndWrite,
          Does, parentVars
    <2>2. ASSUME Clean PROVE Boot
      BY <1>8, <1>l, <2>2
      DEF WorkerStep, Take, TakeSentinel, TakeLarge, Search, BeginWrite, EndWrite,
          Does, Empty, Unemployed
    <2>3. ASSUME Boot, Clean PROVE Empty' /\ Unemployed'
      <3>1. /\ handle' = handle /\ handle \in PID
            /\ proc' = [proc EXCEPT ![handle] = "ready"]
            /\ job' = job /\ UNCHANGED queueVars
        BY <2>3, <1>h DEF Boot, Does
      <3> QED
        BY <3>1, <1>h, <1>l, <2>3 DEF Empty, Unemployed, NoJob, queueVars
    <2> QED
      BY <2>1, <2>2, <2>3
  <1>9. CASE Crash
    <2>1. /\ UNCHANGED <<pc, after>> /\ handle' = handle /\ handle \in PID
          /\ proc' = [proc EXCEPT ![handle] = "dead"]
          /\ job' = job /\ UNCHANGED queueVars
      BY <1>9, <1>h DEF Crash, Alive, parentVars
    <2> QED
      BY <2>1, <1>h, <1>l DEF Empty, Unemployed, NoJob, queueVars
  <1>10. CASE Flush
    BY <1>10, <1>l DEF Flush, Empty, parentVars
  <1> QED
    BY <1>l, <1>1, <1>2, <1>3, <1>4, <1>5, <1>6, <1>7, <1>8, <1>9, <1>10, <1>11, <1>12
    DEF Next, ParentStep, Die

\* While the parent waits, the call it serves is in exactly one place.
LEMMA PlaceStep ==
  ASSUME IInv, [Next]_vars
  PROVE  CallInOnePlace'
  <1> DEFINE InOnePlace == InFeeder \/ InPipe \/ InWorker \/ Answered
             Waiting == pc \in {"wait", "recv"}
  <1> SUFFICES ASSUME ~Outlived' PROVE CallInOnePlace'
    BY DEF CallInOnePlace
  <1>t. /\ TypeOK /\ NoOrphanWorker /\ FreeHasNoJob /\ ControlState /\ CallInOnePlace /\ CleanIsQuiet
        /\ ~Outlived /\ ~CloseRaises
    BY OutlivedStep DEF IInv, Bookkeeping
  <1>h. /\ handle \in PID \cup {None}
        /\ proc \in [PID -> Running \cup {"free", "dead"}]
        /\ job \in [PID -> Call \cup {None}]
        /\ req \in Call \cup {None}
    BY <1>t DEF TypeOK
  <1>n. None \notin PID /\ None \notin Call
    BY SafeMatcherAssumption
  <1>o. ASSUME NEW p \in PID, p # handle PROVE job[p] = None
    BY <1>t, <1>o, OnlyHandleWorks
  <1>w. ASSUME Waiting PROVE req \in Call /\ handle \in PID /\ InOnePlace
    BY <1>w, <1>t, <1>h DEF CallInOnePlace, ControlState
  <1>1. CASE UNCHANGED <<pc, req, workerVars, queueVars>>
    BY <1>1, <1>t
    DEF CallInOnePlace, InFeeder, InPipe, InWorker, Answered, Unemployed, NoJob, AnswerTo,
        workerVars, queueVars
  <1>2. CASE ~ Waiting'
    BY <1>2 DEF CallInOnePlace
  <1>3. CASE Put
    <2>1. Empty /\ Unemployed /\ req # None /\ handle # None
      BY <1>3, <1>t DEF Put, CleanIsQuiet, Clean, ControlState
    <2>2. feeder' = <<req>> /\ UNCHANGED <<req, taskPipe, resultPipe, partial, workerVars>>
      BY <1>3, <2>1 DEF Put, Empty
    <2> QED
      BY <2>1, <2>2 DEF CallInOnePlace, InFeeder, Empty, Unemployed, NoJob, workerVars
  <1>4. CASE BeginReceive
    <2>1. Waiting /\ UNCHANGED <<req, workerVars, queueVars>>
      BY <1>4 DEF BeginReceive
    <2> QED
      BY <2>1, <1>w, <1>n
      DEF CallInOnePlace, InFeeder, InPipe, InWorker, Answered, Unemployed, NoJob, AnswerTo,
          workerVars, queueVars
  <1>5. ASSUME Boot, Waiting PROVE CallInOnePlace'
    <2>1. /\ proc[handle] = "booting" /\ proc' = [proc EXCEPT ![handle] = "ready"]
          /\ UNCHANGED <<handle, req, job, feeder, taskPipe, resultPipe, partial>>
      BY <1>5 DEF Boot, Does, parentVars, queueVars
    <2> QED
      BY <2>1, <1>5, <1>w, <1>n, <1>h
      DEF CallInOnePlace, InFeeder, InPipe, InWorker, Answered, Unemployed, NoJob, AnswerTo
  <1>6. ASSUME Take \/ TakeLarge, Waiting PROVE CallInOnePlace'
    <2>1. /\ proc[handle] = "ready" /\ proc' = [proc EXCEPT ![handle] = "busy"]
          /\ UNCHANGED <<handle, req, resultPipe, partial>>
      BY <1>6 DEF Take, TakeLarge, Does, parentVars
    <2>2. ASSUME Take PROVE InPipe
      BY <1>6, <2>1, <2>2, <1>w DEF Take, InFeeder, InWorker, Answered
    <2>3. ASSUME TakeLarge PROVE InFeeder
      BY <1>6, <2>1, <2>3, <1>w DEF TakeLarge, InPipe, InWorker, Answered
    <2>4. /\ job' = [job EXCEPT ![handle] = req]
          /\ feeder' = <<>> /\ taskPipe' = <<>> /\ resultPipe = <<>> /\ ~ partial
      <3>h. Head(<<req>>) = req /\ Tail(<<req>>) = <<>>
        OBVIOUS
      <3>1. CASE Take
        <4>1. taskPipe = <<req>> /\ feeder = <<>> /\ resultPipe = <<>> /\ ~ partial
          BY <3>1, <2>2 DEF InPipe
        <4>2. /\ job' = [job EXCEPT ![handle] = Head(taskPipe)]
              /\ taskPipe' = Tail(taskPipe) /\ feeder' = feeder
          BY <3>1 DEF Take
        <4> QED
          BY <4>1, <4>2, <3>h
      <3>2. CASE TakeLarge
        <4>1. feeder = <<req>> /\ taskPipe = <<>> /\ resultPipe = <<>> /\ ~ partial
          BY <3>2, <2>3 DEF InFeeder
        <4>2. /\ job' = [job EXCEPT ![handle] = Head(feeder)]
              /\ feeder' = Tail(feeder) /\ taskPipe' = taskPipe
          BY <3>2 DEF TakeLarge
        <4> QED
          BY <4>1, <4>2, <3>h
      <3> QED
        BY <1>6, <3>1, <3>2
    <2>5. InWorker'
      BY <2>1, <2>4, <1>6, <1>w, <1>h DEF InWorker
    <2> QED
      BY <2>1, <2>5, <1>6, <1>w, <1>n DEF CallInOnePlace
  <1>7. ASSUME TakeSentinel, Waiting PROVE FALSE
    <2>1. taskPipe # <<>> /\ Head(taskPipe) = None
      BY <1>7 DEF TakeSentinel, Sentinel
    <2>2. taskPipe = <<req>>
      BY <2>1, <1>7, <1>w DEF InFeeder, InPipe, InWorker, Answered
    <2> QED
      BY <2>1, <2>2, <1>7, <1>w, <1>n
  <1>8. ASSUME Search \/ EndWrite, Waiting PROVE CallInOnePlace'
    <2>1. /\ proc[handle] \in {"busy", "writing"} /\ proc' = [proc EXCEPT ![handle] = "ready"]
          /\ job[handle] # None /\ job' = [job EXCEPT ![handle] = None]
          /\ resultPipe' = Append(resultPipe, AnswerTo(job[handle]))
          /\ UNCHANGED <<handle, req, feeder, taskPipe>>
      BY <1>8 DEF Search, EndWrite, Does, parentVars
    <2>2. InWorker
      BY <2>1, <1>8, <1>w, <1>n DEF InFeeder, InPipe, Answered, Unemployed
    <2>3. ~ partial'
      BY <1>8, <2>2 DEF Search, EndWrite, Does, InWorker
    <2>4. resultPipe' = <<AnswerTo(req)>>
      BY <2>1, <2>2 DEF InWorker
    <2>5. Unemployed'
      BY <2>1, <1>o, <1>w, <1>8, <1>h DEF Unemployed, NoJob
    <2>7. req.task \notin Runaway
      <3>1. CASE Search
        BY <3>1, <2>2 DEF Search, InWorker
      <3>2. CASE EndWrite
        <4>1. proc[handle] = "writing" /\ handle \in PID
          BY <3>2, <1>8, <1>w DEF EndWrite, Does
        <4> QED
          BY <4>1, <2>2 DEF InWorker, IInv, WrittenIsFound
      <3> QED
        BY <1>8, <3>1, <3>2
    <2>6. Answered'
      BY <2>1, <2>2, <2>3, <2>4, <2>5, <2>7 DEF InWorker, Answered, AnswerTo
    <2> QED
      BY <2>1, <2>6, <1>8, <1>w, <1>n DEF CallInOnePlace
  <1>9. ASSUME BeginWrite, Waiting PROVE CallInOnePlace'
    <2>1. /\ proc[handle] = "busy" /\ proc' = [proc EXCEPT ![handle] = "writing"]
          /\ UNCHANGED <<handle, req, job, feeder, taskPipe, resultPipe>>
      BY <1>9 DEF BeginWrite, Does, parentVars
    <2>2. InWorker
      BY <2>1, <1>9, <1>w, <1>n DEF InFeeder, InPipe, Answered, Unemployed
    <2>3. InWorker'
      BY <2>1, <2>2, <1>9, <1>w, <1>h DEF InWorker
    <2> QED
      BY <2>1, <2>3, <1>9, <1>w, <1>n DEF CallInOnePlace
  <1>10. ASSUME Crash, Waiting PROVE CallInOnePlace'
    <2>1. /\ proc' = [proc EXCEPT ![handle] = "dead"]
          /\ UNCHANGED <<handle, req, job, feeder, taskPipe, resultPipe, partial>>
      BY <1>10 DEF Crash, parentVars, queueVars
    <2> QED
      BY <2>1, <1>10, <1>w, <1>n, <1>h
      DEF CallInOnePlace, InFeeder, InPipe, InWorker, Answered, Unemployed, NoJob, AnswerTo
  <1>11. ASSUME Flush, Waiting PROVE CallInOnePlace'
    <2>1. InFeeder
      BY <1>11, <1>w DEF Flush, InPipe, InWorker, Answered
    <2>2. /\ feeder' = <<>> /\ taskPipe' = <<req>>
          /\ UNCHANGED <<req, workerVars, resultPipe, partial>>
      BY <1>11, <2>1 DEF Flush, InFeeder, parentVars
    <2>3. InPipe'
      BY <2>1, <2>2 DEF InFeeder, InPipe, Unemployed, NoJob, workerVars
    <2> QED
      BY <2>2, <2>3, <1>11, <1>w, <1>n DEF CallInOnePlace, workerVars
  <1>12. CASE WorkerStep \/ Crash \/ Flush
    <2>1. pc' = pc
      BY <1>12
      DEF WorkerStep, Boot, Take, TakeSentinel, TakeLarge, Search, BeginWrite, EndWrite,
          Crash, Flush, Does, parentVars
    <2> QED
      BY <2>1, <1>12, <1>2, <1>5, <1>6, <1>7, <1>8, <1>9, <1>10, <1>11 DEF WorkerStep
  <1>13. CASE \/ \E t \in Task : Finditer(t)
              \/ CloseIdle \/ Interrupt \/ Spawn \/ Receive \/ JoinReturns
              \/ CheckWorker \/ Terminate \/ JoinTerminated \/ Kill \/ JoinKilled
              \/ CloseWorker \/ DropQueues \/ Timeout
    <2>1. ~ Waiting'
      BY <1>13, <1>t
      DEF Finditer, CloseIdle, Interrupt, Close, Spawn, Receive, JoinReturns, CheckWorker,
          Terminate, JoinTerminated, Kill, JoinKilled, CloseWorker, DropQueues, Timeout, TypeOK
    <2> QED
      BY <2>1, <1>2
  <1> QED
    BY <1>t, <1>1, <1>3, <1>4, <1>12, <1>13 DEF Next, ParentStep, Die, vars, parentVars

-----------------------------------------------------------------------------
\* Every step of Next, and every stutter, preserves the inductive invariant.
LEMMA IInvStep == IInv /\ [Next]_vars => IInv'
  BY TypeStep, ProcessStep, ControlStep, WrittenStep, AnswerStep, CleanStep, PlaceStep
  DEF IInv, Bookkeeping

\* The inductive invariant holds in every reachable state.
THEOREM Invariance == Spec => []IInv
  BY InitIInv, IInvStep, PTL DEF Spec

\* Every reachable state is well typed.
THEOREM TypeCorrect == Spec => []TypeOK
  <1>1. IInv => TypeOK
    BY DEF IInv, Bookkeeping
  <1> QED
    BY Invariance, <1>1, PTL

\* Until a worker outlives being killed, finditer never returns the answer to
\* another call: the queues of a timed out or interrupted call are dropped with
\* its worker.
THEOREM NoStaleAnswer == Spec => []AnswerMatchesCall
  <1>1. IInv => AnswerMatchesCall
    BY DEF IInv
  <1> QED
    BY Invariance, <1>1, PTL

\* _teardown_worker can reach every child that was ever started, also one that
\* ends, or is killed and does not end, between two of its steps.
THEOREM NoOrphan == Spec => []NoOrphanWorker
  <1>1. IInv => NoOrphanWorker
    BY DEF IInv, Bookkeeping
  <1> QED
    BY Invariance, <1>1, PTL

\* Nothing of a call survives it in the queues or in the worker, until a worker
\* outlives being killed.
THEOREM CleanBetweenCalls == Spec => []QuietBetweenCalls
  <1>1. IInv => QuietBetweenCalls
    BY DEF IInv, Bookkeeping, CleanIsQuiet, Clean, Empty, Unemployed, HandleIsStarted,
           QuietBetweenCalls, TypeOK, Running
  <1> QED
    BY Invariance, <1>1, PTL

-----------------------------------------------------------------------------
(* finditer implements MatchService: entering finditer is the request,     *)
(* receiving the answer of the call is the answer, and returning from the  *)
(* teardown of a call that was not answered is the failure.                *)

\* A new matcher is a service with no request pending.
LEMMA InitRefines == Init => Service!SInit
  BY DEF Init, Outlived, Service!SInit

\* Every step of the matcher is a step of the service or leaves it alone.
LEMMA StepRefines ==
  ASSUME IInv, [Next]_vars
  PROVE  [Service!SNext]_(Service!svars)
  <1> USE DEF Service!svars
  <1>1. CASE Outlived'
    BY <1>1 DEF Service!SNext
  <1>2. CASE ~Outlived'
    <2>t. TypeOK /\ ControlState /\ ~Outlived /\ ~CloseRaises /\ CallInOnePlace
      BY <1>2, OutlivedStep DEF IInv, Bookkeeping
    <2>n. None \notin Call
      BY SafeMatcherAssumption
    <2>s. ASSUME Service!Request \/ Service!Answer \/ Service!Fail PROVE Service!SNext
      BY <1>2, <2>t, <2>s DEF Service!SNext, Service!Serve
    <2>1. CASE UNCHANGED <<req, outcome>>
      BY <1>2, <2>1, <2>t DEF Outlived
    <2>2. ASSUME NEW t \in Task, Finditer(t) PROVE Service!Request
      <3>1. req' \in Call
        BY <2>2 DEF Finditer, FreshId, Call
      <3>2. req = None
        BY <2>2, <2>t DEF Finditer, ControlState
      <3> QED
        BY <2>2, <3>1, <3>2 DEF Finditer, Service!Request, Service!Call, Call
    <2>3. CASE Receive
      <3>1. Answered /\ req \in Call
        BY <2>3, <2>t
        DEF Receive, CallInOnePlace, ControlState, InFeeder, InPipe, InWorker, TypeOK
      <3>2. Head(resultPipe) = AnswerTo(req) /\ req.task \notin Runaway
        BY <3>1 DEF Answered
      <3>3. outcome' = [id |-> req.id, of |-> req.id,
                        kind |-> IF req.task \in Faulty THEN "error" ELSE "ok"]
        BY <2>3, <3>2 DEF Receive, AnswerTo
      <3>4. Service!Answer
        BY <2>3, <2>n, <3>1, <3>2, <3>3 DEF Receive, Service!Answer
      <3> QED
        BY <3>4, <2>s
    <2>4. CASE DropQueues /\ after = "idle" /\ req # None
      <3>1. Service!Fail
        BY <2>4, <2>t DEF DropQueues, TypeOK, Reasons, Service!Fail, Service!Failures
      <3> QED
        BY <3>1, <2>s, <2>t DEF TypeOK
    <2>5. CASE DropQueues /\ ~(after = "idle" /\ req # None)
      BY <2>1, <2>5 DEF DropQueues
    <2> QED
      BY <2>1, <2>2, <2>3, <2>4, <2>5, <2>s, <2>t
      DEF Next, ParentStep, WorkerStep, CloseIdle, Interrupt, Close, Spawn, Put,
          BeginReceive, JoinReturns, CheckWorker, Terminate, JoinTerminated, Kill, JoinKilled,
          CloseWorker, Timeout, Boot, Take, TakeSentinel, TakeLarge, Search, BeginWrite,
          EndWrite, Does, Crash, Die, Flush, vars, parentVars
  <1> QED
    BY <1>1, <1>2

\* SafeMatcher implements the service its callers rely on: one outcome per
\* request, carrying its own matches or its own error, never an answer to a
\* search that does not end; until a worker outlives being killed.
THEOREM Refinement == Spec => ImplementsService
  <1>1. Init => Service!SInit
    BY InitRefines
  <1>2. IInv /\ [Next]_vars => [Service!SNext]_(Service!svars)
    BY StepRefines
  <1> QED
    BY Invariance, <1>1, <1>2, PTL DEF Spec, ImplementsService, Service!SSpec

=============================================================================
