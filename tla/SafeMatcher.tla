---------------------------- MODULE SafeMatcher ----------------------------
(***************************************************************************)
(* SafeMatcher (core/safety.py): regex searches run in a child process,    *)
(* fed through a task queue and answering through a result queue, so that  *)
(* the parent can kill a search that exceeds its wall-clock budget.        *)
(*                                                                         *)
(* The parent is single threaded: `pc` is where it stands in finditer,     *)
(* close or _teardown_worker.  The child's steps, the queue's feeder       *)
(* thread, the clock, crashes and Ctrl-C interleave with it.               *)
(*                                                                         *)
(* A multiprocessing.Queue is a buffer drained by a feeder thread of the   *)
(* writing process into an OS pipe of bounded capacity.  The parent keeps  *)
(* both ends of the pipe open until the feeder has finished.               *)
(***************************************************************************)
EXTENDS Naturals, Sequences

CONSTANTS
  PID,        \* process identifiers the operating system hands out
  CallId,     \* names of finditer calls, reused once nothing mentions them
  Task,       \* (pattern, flags, text) triples callers ask for
  Runaway,    \* tasks whose search never finishes (catastrophic backtracking)
  Faulty,     \* tasks whose search raises in the worker
  Large,      \* tasks that do not fit in the pipe unless the worker reads them
  BigAnswer,  \* tasks whose matches do not fit in the pipe
  MaxSurvivals,  \* bound on how often a killed worker outlives the join
  None        \* Python's None

Call == [id : CallId, task : Task]

ASSUME SafeMatcherAssumption ==
  /\ Runaway \cup Faulty \cup Large \cup BigAnswer \subseteq Task
  /\ MaxSurvivals \in Nat
  /\ None \notin PID
  /\ None \notin Call

VARIABLES
  pc,          \* where the parent is
  after,       \* where _teardown_worker returns to
  req,         \* the call being served, or None
  why,         \* how the call ends if it is not answered
  outcome,     \* how the last call ended (history)
  survivals,   \* how often a killed worker has outlived its join (history)
  handle,      \* self._worker
  proc,        \* what each process is doing
  job,         \* the call a process has taken from the task queue
  doomed,      \* a signal is on its way to the process held
  feeder,      \* task queue: put, not yet in the pipe
  taskPipe,    \* task queue: wholly in the pipe
  resultPipe,  \* result queue: answers wholly in the pipe
  partial      \* result queue: the pipe holds the beginning of an answer

parentVars == <<pc, after, req, why, outcome, survivals>>
workerVars == <<handle, proc, job, doomed>>
queueVars  == <<feeder, taskPipe, resultPipe, partial>>
vars == <<parentVars, workerVars, queueVars>>

Sentinel == None                      \* what close() puts
Answers  == {"ok", "error"}
Reasons  == {"timeout", "interrupted"}
Failures == Reasons \cup {"unstopped"}
Running  == {"booting", "ready", "busy", "writing"}
\* Where _teardown_worker may be.
Stopping == {"terminate", "joinTerm", "kill", "joinKill", "reap"}
Teardown == Stopping \cup {"teardown", "drain"}
Outcome  == [id : CallId, of : CallId, kind : Answers]
              \cup [id : CallId, kind : Failures]
              \cup [kind : {"none"}]

TypeOK ==
  /\ pc \in {"idle", "spawn", "put", "wait", "recv", "closing"} \cup Teardown
  /\ after \in {"idle", "spawn"}
  /\ req \in Call \cup {None}
  /\ why \in Reasons
  /\ outcome \in Outcome
  /\ survivals \in Nat
  /\ handle \in PID \cup {None}
  /\ proc \in [PID -> Running \cup {"free", "dead"}]
  /\ job \in [PID -> Call \cup {None}]
  /\ doomed \in BOOLEAN
  /\ feeder \in Seq(Call \cup {Sentinel})
  /\ taskPipe \in Seq(Call \cup {Sentinel})
  /\ resultPipe \in Seq([id : CallId, kind : Answers])
  /\ partial \in BOOLEAN

Init ==
  /\ pc = "idle" /\ after = "idle" /\ req = None /\ why = "timeout"
  /\ outcome = [kind |-> "none"] /\ survivals = 0
  /\ handle = None
  /\ proc = [p \in PID |-> "free"]
  /\ job = [p \in PID |-> None]
  /\ doomed = FALSE
  /\ feeder = <<>> /\ taskPipe = <<>> /\ resultPipe = <<>>
  /\ partial = FALSE

-----------------------------------------------------------------------------
(* The parent: finditer *)

Alive == handle # None /\ proc[handle] \in Running      \* Process.is_alive()

\* A killed worker has outlived the second that join() gives it.
Outlived == survivals > 0

ItemsOf(q) == {q[i] : i \in DOMAIN q}

\* Names nothing in flight mentions: a new call is told apart from every
\* earlier one whose task or answer is still somewhere in the machinery.
FreshId ==
  CallId \ {c.id : c \in (ItemsOf(feeder) \cup ItemsOf(taskPipe)
                            \cup ItemsOf(resultPipe) \cup {job[p] : p \in PID})
                           \ {None}}

\* finditer is entered: _ensure_worker keeps a live worker and otherwise
\* tears the dead one down before starting another.
Finditer(t) ==
  /\ pc = "idle"
  /\ \E i \in FreshId : req' = [id |-> i, task |-> t]
  /\ IF Alive THEN pc' = "put" /\ UNCHANGED after
              ELSE pc' = "teardown" /\ after' = "spawn"
  /\ UNCHANGED <<survivals, why, outcome, workerVars, queueVars>>

\* The rest of _ensure_worker: two new queues, one new process.
Spawn ==
  /\ pc = "spawn"
  /\ \E p \in {q \in PID : proc[q] = "free"} :
       /\ handle' = p
       /\ proc' = [proc EXCEPT ![p] = "booting"]
  /\ feeder' = <<>> /\ taskPipe' = <<>> /\ resultPipe' = <<>> /\ partial' = FALSE
  /\ pc' = "put"
  /\ UNCHANGED <<after, survivals, req, why, outcome, job, doomed>>

Put ==
  /\ pc = "put"
  /\ feeder' = Append(feeder, req)
  /\ pc' = "wait"
  /\ UNCHANGED <<after, survivals, req, why, outcome, workerVars, taskPipe, resultPipe, partial>>

\* result_q.get(timeout) succeeds: the first complete answer is the call's.
Receive ==
  /\ pc \in {"wait", "recv"}
  /\ resultPipe # <<>>
  /\ outcome' = [id |-> req.id, of |-> Head(resultPipe).id, kind |-> Head(resultPipe).kind]
  /\ resultPipe' = Tail(resultPipe)
  /\ pc' = "idle" /\ req' = None
  /\ UNCHANGED <<after, survivals, why, workerVars, feeder, taskPipe, partial>>

\* get() sees the first bytes of an answer: from here on it reads without
\* a deadline.
BeginReceive ==
  /\ pc = "wait" /\ partial
  /\ pc' = "recv"
  /\ UNCHANGED <<after, survivals, req, why, outcome, workerVars, queueVars>>

\* Faulty variant: RegexTimeout is raised without tearing the worker down.
TimeoutKeepingWorker ==
  /\ pc = "wait" /\ resultPipe = <<>> /\ ~partial
  /\ outcome' = [id |-> req.id, kind |-> "timeout"]
  /\ pc' = "idle" /\ req' = None
  /\ UNCHANGED <<after, survivals, why, workerVars, queueVars>>

\* Faulty variant: no deadline, only a dead worker ends the wait.
TimeoutOnlyWhenDead ==
  /\ pc = "wait" /\ resultPipe = <<>> /\ ~partial /\ ~Alive
  /\ pc' = "teardown" /\ after' = "idle" /\ why' = "timeout"
  /\ UNCHANGED <<survivals, req, outcome, workerVars, queueVars>>

\* The budget expires with nothing readable.  An answer may still arrive
\* before the worker is torn down.
Timeout ==
  /\ pc = "wait" /\ resultPipe = <<>> /\ ~partial
  /\ pc' = "teardown" /\ after' = "idle" /\ why' = "timeout"
  /\ UNCHANGED <<survivals, req, outcome, workerVars, queueVars>>

\* close(): a sentinel for a live worker, then at most two seconds for it.
Close(p) ==
  /\ after' = "idle"
  /\ IF Alive THEN feeder' = Append(feeder, Sentinel) /\ pc' = "closing"
              ELSE UNCHANGED feeder /\ pc' = "teardown"
  /\ UNCHANGED <<survivals, req, outcome, workerVars, taskPipe, resultPipe, partial>>
  /\ why' = p

CloseIdle == pc = "idle" /\ Close(why)

\* Ctrl-C while waiting is not an Exception: finditer does not clean up, and
\* the `finally` of Engine.scan calls close().
Interrupt == pc \in {"wait", "recv"} /\ Close("interrupted")

\* worker.join(timeout=2.0) returns, with the worker gone or not.
JoinReturns ==
  /\ pc = "closing"
  /\ pc' = "teardown"
  /\ UNCHANGED <<after, survivals, req, why, outcome, workerVars, queueVars>>

(* The parent: _teardown_worker, first half.  The worker runs on until it   *)
(* is signalled and may end between any two of these steps.                 *)

\* `if self._worker is not None: if self._worker.is_alive()`.
CheckWorker ==
  /\ pc = "teardown"
  /\ pc' = IF handle = None THEN "drain" ELSE IF Alive THEN "terminate" ELSE "reap"
  /\ UNCHANGED <<after, survivals, req, why, outcome, workerVars, queueVars>>

\* Faulty variant: terminate() without waiting for the process or closing it.
TerminateAndForget ==
  /\ pc = "terminate"
  /\ handle' = None
  /\ pc' = "drain"
  /\ UNCHANGED <<after, survivals, req, why, outcome, proc, job, doomed, queueVars>>

\* terminate(): a signal to a process that has ended meanwhile is lost.
Terminate ==
  /\ pc = "terminate"
  /\ doomed' = Alive
  /\ pc' = "joinTerm"
  /\ UNCHANGED <<after, survivals, req, why, outcome, handle, proc, job, queueVars>>

\* join(timeout=1.0) returns, with the worker gone or not; is_alive() tells.
JoinTerminated ==
  /\ pc = "joinTerm"
  /\ pc' = IF Alive THEN "kill" ELSE "reap"
  /\ UNCHANGED <<after, survivals, req, why, outcome, workerVars, queueVars>>

Kill ==
  /\ pc = "kill"
  /\ doomed' = Alive
  /\ pc' = "joinKill"
  /\ UNCHANGED <<after, survivals, req, why, outcome, handle, proc, job, queueVars>>

\* join(timeout=1.0) after the kill returns, again with the worker gone or not.
JoinKilled ==
  /\ pc = "joinKill"
  /\ Alive => survivals < MaxSurvivals
  /\ pc' = "reap"
  /\ UNCHANGED <<after, survivals, req, why, outcome, workerVars, queueVars>>

\* Process.close() releases a process that has ended.
CloseWorker ==
  /\ pc = "reap" /\ ~Alive
  /\ proc' = [proc EXCEPT ![handle] = "free"]
  /\ job' = [job EXCEPT ![handle] = None]
  /\ handle' = None /\ doomed' = FALSE
  /\ pc' = "drain"
  /\ UNCHANGED <<after, survivals, req, why, outcome, queueVars>>

\* Process.close() raises ValueError of one that still runs: the exception
\* leaves _teardown_worker and its caller, and the worker and both queues are
\* kept for the next call.
CloseRaises ==
  /\ pc = "reap" /\ Alive
  /\ pc' = "idle" /\ req' = None
  /\ outcome' = IF req = None THEN outcome ELSE [id |-> req.id, kind |-> "unstopped"]
  /\ survivals' = survivals + 1
  /\ UNCHANGED <<after, why, workerVars, queueVars>>

FitsInPipe(item) == item \notin {c \in Call : c.task \in Large}

\* The feeder thread can finish without a reader only if what it holds fits.
FeederCanFinish == \A item \in ItemsOf(feeder) : FitsInPipe(item)

\* Faulty variant: a call whose budget ran out returns no matches.
DropQueuesWithoutRaising ==
  /\ pc = "drain"
  /\ FeederCanFinish
  /\ feeder' = <<>> /\ taskPipe' = <<>> /\ resultPipe' = <<>> /\ partial' = FALSE
  /\ pc' = after
  /\ IF after = "idle" /\ req # None
     THEN /\ outcome' = IF why = "timeout" THEN [id |-> req.id, of |-> req.id, kind |-> "ok"]
                                          ELSE [id |-> req.id, kind |-> why]
          /\ req' = None
     ELSE UNCHANGED <<outcome, req>>
  /\ UNCHANGED <<after, survivals, why, workerVars>>

\* _teardown_worker, second half: q.close() and q.join_thread() for both
\* queues, which are then dropped.  The caller of _teardown_worker goes on:
\* finditer raises RegexTimeout, close() returns, _ensure_worker spawns.
DropQueues ==
  /\ pc = "drain"
  /\ FeederCanFinish
  /\ feeder' = <<>> /\ taskPipe' = <<>> /\ resultPipe' = <<>> /\ partial' = FALSE
  /\ pc' = after
  /\ IF after = "idle" /\ req # None
     THEN outcome' = [id |-> req.id, kind |-> why] /\ req' = None
     ELSE UNCHANGED <<outcome, req>>
  /\ UNCHANGED <<after, survivals, why, workerVars>>

-----------------------------------------------------------------------------
(* The worker process (_worker_loop), acting on the queues it was given *)

\* A process a signal is on its way to does nothing the parent could tell from
\* its having done it just before the signal was sent.
Does(from, to) ==
  /\ handle # None /\ proc[handle] = from /\ ~doomed
  /\ proc' = [proc EXCEPT ![handle] = to]
  /\ UNCHANGED <<parentVars, handle, doomed>>

Boot == Does("booting", "ready") /\ UNCHANGED <<job, queueVars>>

\* task_queue.get() returns a task, or the sentinel that ends the loop.
Take ==
  /\ taskPipe # <<>> /\ Head(taskPipe) # Sentinel
  /\ Does("ready", "busy")
  /\ job' = [job EXCEPT ![handle] = Head(taskPipe)]
  /\ taskPipe' = Tail(taskPipe)
  /\ UNCHANGED <<feeder, resultPipe, partial>>

TakeSentinel ==
  /\ taskPipe # <<>> /\ Head(taskPipe) = Sentinel
  /\ Does("ready", "dead")
  /\ taskPipe' = Tail(taskPipe)
  /\ UNCHANGED <<job, feeder, resultPipe, partial>>

\* A task larger than the pipe passes from feeder to worker as it is read.
TakeLarge ==
  /\ taskPipe = <<>> /\ feeder # <<>> /\ ~FitsInPipe(Head(feeder))
  /\ Does("ready", "busy")
  /\ job' = [job EXCEPT ![handle] = Head(feeder)]
  /\ feeder' = Tail(feeder)
  /\ UNCHANGED <<taskPipe, resultPipe, partial>>

AnswerTo(c) == [id |-> c.id, kind |-> IF c.task \in Faulty THEN "error" ELSE "ok"]

\* The search ends and its answer fits in the pipe.
Search ==
  /\ handle # None /\ job[handle] # None
  /\ job[handle].task \notin Runaway \cup BigAnswer
  /\ Does("busy", "ready")
  /\ job' = [job EXCEPT ![handle] = None]
  /\ resultPipe' = Append(resultPipe, AnswerTo(job[handle]))
  /\ UNCHANGED <<feeder, taskPipe, partial>>

\* The search ends, and its answer only fits while the parent reads it.
BeginWrite ==
  /\ handle # None /\ job[handle] # None
  /\ job[handle].task \in BigAnswer \ Runaway
  /\ Does("busy", "writing")
  /\ partial' = TRUE
  /\ UNCHANGED <<job, feeder, taskPipe, resultPipe>>

EndWrite ==
  /\ pc = "recv"
  /\ handle # None /\ job[handle] # None
  /\ Does("writing", "ready")
  /\ job' = [job EXCEPT ![handle] = None]
  /\ resultPipe' = Append(resultPipe, AnswerTo(job[handle]))
  /\ partial' = FALSE
  /\ UNCHANGED <<feeder, taskPipe>>

\* The worker dies on its own (out of memory, killed from outside).
Crash ==
  /\ Alive
  /\ proc' = [proc EXCEPT ![handle] = "dead"]
  /\ UNCHANGED <<parentVars, handle, job, doomed, queueVars>>

\* The signal arrives.
Die == doomed /\ Crash

-----------------------------------------------------------------------------
(* The feeder thread of the parent's task queue *)

Flush ==
  /\ feeder # <<>>
  /\ FitsInPipe(Head(feeder))
  /\ taskPipe' = Append(taskPipe, Head(feeder))
  /\ feeder' = Tail(feeder)
  /\ UNCHANGED <<parentVars, workerVars, resultPipe, partial>>

-----------------------------------------------------------------------------
ParentStep == \/ Spawn \/ Put \/ Receive \/ BeginReceive \/ JoinReturns
              \/ CheckWorker \/ Terminate \/ JoinTerminated \/ Kill \/ JoinKilled
              \/ CloseWorker \/ CloseRaises \/ DropQueues

WorkerStep == Boot \/ Take \/ TakeSentinel \/ TakeLarge \/ Search \/ BeginWrite \/ EndWrite

Next == \/ \E t \in Task : Finditer(t)
        \/ CloseIdle
        \/ Interrupt
        \/ ParentStep
        \/ Timeout
        \/ WorkerStep
        \/ Crash
        \/ Flush

Spec == Init /\ [][Next]_vars

\* The parent runs, the clock advances, a live worker and the feeder thread
\* are scheduled, a signal sent to the worker arrives.  Nothing else forces a
\* crash, and nothing a call, a close or a Ctrl-C.
Fairness == /\ WF_vars(ParentStep)
            /\ WF_vars(Timeout)
            /\ WF_vars(WorkerStep)
            /\ WF_vars(Flush)
            /\ WF_vars(Die)

LiveSpec == Spec /\ Fairness

-----------------------------------------------------------------------------
(* Properties *)

\* The answer finditer last returned was computed for the call that got it.
Attributed == outcome.kind \in Answers => outcome.of = outcome.id

\* A late answer to a timed-out or interrupted call never reaches the next one
\* (finditer, _teardown_worker dropping both queues), as long as no worker has
\* outlived being killed: close() of such a worker raises, and it is kept with
\* its queues.
AnswerMatchesCall == ~Outlived => Attributed

\* No child escapes: every process that is not reaped is the one the matcher
\* holds, so _teardown_worker can always reach it (no orphan, no zombie).
NoOrphanWorker ==
  \A p \in PID : proc[p] # "free" => p = handle

\* Between calls nothing is left behind: no task, answer or half answer in a
\* queue and no search still running, so the next call starts clean (again as
\* long as killed workers die).
QuietBetweenCalls ==
  pc = "idle" /\ ~Outlived => /\ feeder = <<>> /\ taskPipe = <<>> /\ resultPipe = <<>>
                              /\ ~partial
                              /\ handle # None => proc[handle] \in {"booting", "ready", "dead"}

\* The two places where the parent waits for ever: it joins a feeder thread
\* whose text nobody reads, or reads the rest of an answer from a dead worker.
Unread       == pc = "drain" /\ ~FeederCanFinish
HalfAnswered == pc = "recv" /\ partial /\ ~Alive

\* Every finditer returns or raises, whatever the search and the worker do,
\* unless a text or an answer larger than a pipe was cut off in the middle:
\* finditer waits for nothing else without a deadline.
FinditerReturns == (req # None) ~> (req = None \/ Unread \/ HalfAnswered)

\* A search that never ends does not outlive its call: the process running it
\* is reaped, unless it has outlived being killed.
RunawayReaped ==
  \A p \in PID :
    (job[p] # None /\ job[p].task \in Runaway) ~> (proc[p] = "free" \/ Outlived)

-----------------------------------------------------------------------------
(* The inductive invariant behind the safety properties: the call being    *)
(* served is in exactly one place, and outside a call nothing is anywhere. *)

NoJob == \A p \in PID : job[p] = None

Empty == feeder = <<>> /\ taskPipe = <<>> /\ resultPipe = <<>> /\ ~partial

Unemployed == NoJob /\ (handle # None => proc[handle] \notin {"busy", "writing"})

InFeeder == /\ feeder = <<req>> /\ taskPipe = <<>> /\ resultPipe = <<>> /\ ~partial
            /\ Unemployed
InPipe   == /\ feeder = <<>> /\ taskPipe = <<req>> /\ resultPipe = <<>> /\ ~partial
            /\ Unemployed
InWorker == /\ feeder = <<>> /\ taskPipe = <<>> /\ resultPipe = <<>>
            /\ job[handle] = req
            /\ proc[handle] \in {"busy", "writing", "dead"}
            /\ partial => proc[handle] # "busy"
Answered == /\ feeder = <<>> /\ taskPipe = <<>> /\ resultPipe = <<AnswerTo(req)>> /\ ~partial
            /\ Unemployed /\ req.task \notin Runaway

Clean == \/ pc \in {"idle", "spawn", "put"}
         \/ pc \in Teardown /\ after = "spawn"

CallInOnePlace ==
  ~Outlived /\ pc \in {"wait", "recv"} => InFeeder \/ InPipe \/ InWorker \/ Answered

CleanIsQuiet == ~Outlived /\ Clean => Empty /\ Unemployed

ControlState ==
  /\ pc = "idle" => req = None
  /\ pc \in {"spawn", "put", "wait", "recv"} \/ (pc \in Teardown /\ after = "spawn")
       => req # None
  /\ pc \in {"put", "wait", "recv"} \cup Stopping => handle # None
  /\ pc \in {"spawn", "drain"} => handle = None
  /\ pc = "spawn" => after = "spawn"
  /\ pc = "closing" => after = "idle"

HandleIsStarted == handle # None => proc[handle] # "free"

FreeHasNoJob == \A p \in PID : proc[p] = "free" => job[p] = None

\* What holds even when a killed worker has outlived its join.
Bookkeeping == TypeOK /\ NoOrphanWorker /\ HandleIsStarted /\ FreeHasNoJob /\ ControlState

\* A job whose answer is being written is one whose search has ended.
WrittenIsFound ==
  \A p \in PID : proc[p] = "writing" => job[p] # None /\ job[p].task \notin Runaway

IInv == /\ Bookkeeping
        /\ WrittenIsFound
        /\ CleanIsQuiet
        /\ CallInOnePlace
        /\ AnswerMatchesCall

-----------------------------------------------------------------------------
(* The service finditer implements *)

Service == INSTANCE MatchService
             WITH NoCall <- None, pending <- req, outcome <- outcome, broken <- Outlived

ImplementsService == Service!SSpec
=============================================================================
