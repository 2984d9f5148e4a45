---------------------------- MODULE ToolExecutor ----------------------------
(***************************************************************************)
(* The tool executor (src/src/tools/tool_executor.c): a queue of requests, *)
(* a pool of workers that run them, and the two ways to submit one.  An    *)
(* asynchronous request has a callback and a context of its own, made and  *)
(* freed by the executor.  A synchronous one makes the caller wait, with   *)
(* or without a time limit, on a context that caller and worker share: it  *)
(* points into the caller's stack frame and is freed by the last of the    *)
(* two to release it.                                                      *)
(*                                                                         *)
(* Each critical section is an action.  The executor is destroyed after    *)
(* the threads that submit to it have been joined, so nothing is submitted *)
(* then; calls that wait may still be under way.                           *)
(***************************************************************************)
EXTENDS Integers, Sequences, FiniteSets

CONSTANTS Workers,            \* threads of the pool
          Async,              \* asynchronous requests
          Timed,              \* calls of execute_sync with a time limit
          Untimed             \* calls of execute_sync without one

Sync == Timed \cup Untimed
Request == Async \cup Sync

\* No request, and no answer yet.
None == "none"

ASSUME ExecutorAssumption ==
    /\ Workers # {}
    /\ IsFiniteSet(Workers)
    /\ Async \cap Sync = {} /\ Timed \cap Untimed = {}
    /\ None \notin Request

VARIABLES requestQueue, \* executor->request_queue
          shutdown,   \* executor->shutdown
          destroyed,  \* tool_executor_destroy has freed the executor
          worker,     \* where each worker is
          request,    \* the request it holds
          caller,     \* where the submitter of each request is
          refs,       \* references to the context of a synchronous request
          done,       \* ctx->done
          timedOut,   \* ctx->timed_out
          syncContexts, \* contexts that are allocated
          callbacks,  \* history: callbacks of each request
          written,    \* history: calls whose result was stored in the caller's frame
          outcome,    \* history: what a synchronous call returned
          execFaulty  \* history: freed memory, or a frame that is gone, was used

execVars == <<requestQueue, shutdown, destroyed, worker, request, caller, refs, done, timedOut,
          syncContexts, callbacks, written, outcome, execFaulty>>
poolVars == <<requestQueue, shutdown, destroyed, worker, request>>
callVars == <<caller, outcome>>
contextVars == <<refs, done, timedOut, syncContexts, callbacks, written, execFaulty>>

ExecInit ==
    /\ requestQueue = << >>
    /\ shutdown = FALSE
    /\ destroyed = FALSE
    /\ worker = [w \in Workers |-> "idle"]
    /\ request = [w \in Workers |-> None]
    /\ caller = [r \in Request |-> "start"]
    /\ refs = [r \in Request |-> 0]
    /\ done = [r \in Request |-> FALSE]
    /\ timedOut = [r \in Request |-> FALSE]
    /\ syncContexts = {}
    /\ callbacks = [r \in Request |-> 0]
    /\ written = {}
    /\ outcome = [r \in Sync |-> None]
    /\ execFaulty = FALSE

-----------------------------------------------------------------------------
(* tool_executor_submit_with_user_data.                                    *)

Sleeping == {w \in Workers : worker[w] = "waiting"}

\* pthread_cond_signal of the queue.
Signal ==
    IF Sleeping = {} THEN worker' = worker
    ELSE \E w \in Sleeping : worker' = [worker EXCEPT ![w] = "woken"]

Enqueue(r) ==
    /\ requestQueue' = Append(requestQueue, r)
    /\ Signal
    /\ UNCHANGED <<shutdown, destroyed, request>>

\* tool_executor_submit_async_with_user_data.
SubmitAsync(r) ==
    /\ r \in Async
    /\ ~shutdown
    /\ caller[r] = "start"
    /\ caller' = [caller EXCEPT ![r] = "returned"]
    /\ \/ /\ Enqueue(r)
          /\ syncContexts' = syncContexts \cup {r}
          /\ UNCHANGED callbacks
       \* No memory: the callback gets the error at once.
       \/ /\ callbacks' = [callbacks EXCEPT ![r] = @ + 1]
          /\ UNCHANGED syncContexts /\ UNCHANGED poolVars
    /\ UNCHANGED <<refs, done, timedOut, written, outcome, execFaulty>>

-----------------------------------------------------------------------------
(* tool_executor_execute_sync.                                             *)

\* The context has two references, one of them the worker's.
SubmitSync(r) ==
    /\ r \in Sync
    /\ ~shutdown
    /\ caller[r] = "start"
    /\ \/ /\ Enqueue(r)
          /\ caller' = [caller EXCEPT ![r] = "lock"]
          /\ refs' = [refs EXCEPT ![r] = 2]
          /\ syncContexts' = syncContexts \cup {r}
          /\ UNCHANGED outcome
       \* No memory: both references are released.
       \/ /\ caller' = [caller EXCEPT ![r] = "returned"]
          /\ outcome' = [outcome EXCEPT ![r] = "failed"]
          /\ UNCHANGED <<refs, syncContexts>> /\ UNCHANGED poolVars
    /\ UNCHANGED <<done, timedOut, callbacks, written, execFaulty>>

\* Mutant: a wait that ends is taken for a result.
CheckDoneTrusting(r) ==
    /\ caller[r] \in {"lock", "woken"}
    /\ execFaulty' = (execFaulty \/ r \notin syncContexts)
    /\ caller' = [caller EXCEPT ![r] = IF done[r] \/ @ = "woken" THEN "release" ELSE "waiting"]
    /\ UNCHANGED outcome /\ UNCHANGED poolVars
    /\ UNCHANGED <<refs, done, timedOut, syncContexts, callbacks, written>>

\* With the context locked, on entry or after the wait: leave when the result is
\* there, else wait.
CheckDone(r) ==
    /\ caller[r] \in {"lock", "woken"}
    /\ execFaulty' = (execFaulty \/ r \notin syncContexts)
    /\ caller' = [caller EXCEPT ![r] = IF done[r] THEN "release" ELSE "waiting"]
    /\ UNCHANGED outcome /\ UNCHANGED poolVars
    /\ UNCHANGED <<refs, done, timedOut, syncContexts, callbacks, written>>

\* A wait may end without a signal.
SpuriousWake(r) ==
    /\ caller[r] = "waiting"
    /\ caller' = [caller EXCEPT ![r] = "woken"]
    /\ UNCHANGED outcome /\ UNCHANGED poolVars /\ UNCHANGED contextVars

\* Mutant: the worker is not told that nobody waits any more.
TimeOutSilently(r) ==
    /\ r \in Timed
    /\ caller[r] \in {"waiting", "woken"}
    /\ outcome' = [outcome EXCEPT ![r] = "timeout"]
    /\ caller' = [caller EXCEPT ![r] = "release"]
    /\ UNCHANGED poolVars /\ UNCHANGED contextVars

\* pthread_cond_timedwait returns ETIMEDOUT: the call gives up without another
\* look at done, which may have been set since the time was over.
TimeOut(r) ==
    /\ r \in Timed
    /\ caller[r] \in {"waiting", "woken"}
    /\ timedOut' = [timedOut EXCEPT ![r] = TRUE]
    /\ execFaulty' = (execFaulty \/ r \notin syncContexts)
    /\ outcome' = [outcome EXCEPT ![r] = "timeout"]
    /\ caller' = [caller EXCEPT ![r] = "release"]
    /\ UNCHANGED poolVars
    /\ UNCHANGED <<refs, done, syncContexts, callbacks, written>>

\* Mutant: the count is tested before it is lowered.
ReleasedLate(r) ==
    /\ refs' = [refs EXCEPT ![r] = @ - 1]
    /\ syncContexts' = IF refs[r] = 0 THEN syncContexts \ {r} ELSE syncContexts
    /\ execFaulty' = (execFaulty \/ r \notin syncContexts)

\* sync_context_release: one reference less, and free the context at none.
Released(r) ==
    /\ refs' = [refs EXCEPT ![r] = @ - 1]
    /\ syncContexts' = IF refs[r] = 1 THEN syncContexts \ {r} ELSE syncContexts
    /\ execFaulty' = (execFaulty \/ r \notin syncContexts)

\* The caller releases the context and returns; its frame is gone.
Return(r) ==
    /\ r \in Sync
    /\ caller[r] = "release"
    /\ Released(r)
    /\ outcome' = [outcome EXCEPT ![r] = IF @ = None THEN "result" ELSE @]
    /\ caller' = [caller EXCEPT ![r] = "returned"]
    /\ UNCHANGED poolVars
    /\ UNCHANGED <<done, timedOut, callbacks, written>>

-----------------------------------------------------------------------------
(* tool_executor_worker.                                                   *)

\* Mutant: a worker leaves although requests are queued.
TakeNothing(w) ==
    /\ worker[w] \in {"idle", "woken"}
    /\ IF shutdown
       THEN worker' = [worker EXCEPT ![w] = "exited"] /\ UNCHANGED <<requestQueue, request>>
       ELSE IF requestQueue = << >>
       THEN worker' = [worker EXCEPT ![w] = "waiting"] /\ UNCHANGED <<requestQueue, request>>
       ELSE /\ worker' = [worker EXCEPT ![w] = "running"]
            /\ request' = [request EXCEPT ![w] = Head(requestQueue)]
            /\ requestQueue' = Tail(requestQueue)
    /\ UNCHANGED <<shutdown, destroyed>>
    /\ UNCHANGED callVars /\ UNCHANGED contextVars

\* Mutant: the request stays in the queue while it runs.
TakeKeeps(w) ==
    /\ worker[w] \in {"idle", "woken"}
    /\ IF requestQueue # << >>
       THEN /\ worker' = [worker EXCEPT ![w] = "running"]
            /\ request' = [request EXCEPT ![w] = Head(requestQueue)]
            /\ UNCHANGED requestQueue
       ELSE /\ worker' = [worker EXCEPT ![w] = IF shutdown THEN "exited" ELSE "waiting"]
            /\ UNCHANGED <<requestQueue, request>>
    /\ UNCHANGED <<shutdown, destroyed>>
    /\ UNCHANGED callVars /\ UNCHANGED contextVars

\* With the queue locked, on entry or after the wait: take the oldest request,
\* else leave if the executor shuts down, else wait.
Take(w) ==
    /\ worker[w] \in {"idle", "woken"}
    /\ IF requestQueue # << >>
       THEN /\ worker' = [worker EXCEPT ![w] = "running"]
            /\ request' = [request EXCEPT ![w] = Head(requestQueue)]
            /\ requestQueue' = Tail(requestQueue)
       ELSE /\ worker' = [worker EXCEPT ![w] = IF shutdown THEN "exited" ELSE "waiting"]
            /\ UNCHANGED <<requestQueue, request>>
    /\ UNCHANGED <<shutdown, destroyed>>
    /\ UNCHANGED callVars /\ UNCHANGED contextVars

\* The tool returns; a request's own user data and the request are freed after
\* the callback, by this worker only.
ToolReturns(w) ==
    /\ worker[w] = "running"
    /\ worker' = [worker EXCEPT ![w] = "callback"]
    /\ UNCHANGED <<requestQueue, shutdown, destroyed, request>>
    /\ UNCHANGED callVars /\ UNCHANGED contextVars

\* async_callback_wrapper: call the submitter's callback and free the wrapper.
AsyncCallback(w) ==
    LET r == request[w]
    IN  /\ worker[w] = "callback"
        /\ r \in Async
        /\ callbacks' = [callbacks EXCEPT ![r] = @ + 1]
        /\ execFaulty' = (execFaulty \/ r \notin syncContexts)
        /\ syncContexts' = syncContexts \ {r}
        /\ worker' = [worker EXCEPT ![w] = "idle"]
        /\ request' = [request EXCEPT ![w] = None]
        /\ UNCHANGED <<requestQueue, shutdown, destroyed, refs, done, timedOut, written>>
        /\ UNCHANGED callVars

\* sync_callback, its critical section: unless the caller has given up, store the
\* result and the error in its frame and wake it.
SyncCallback(w) ==
    LET r == request[w]
    IN  /\ worker[w] = "callback"
        /\ r \in Sync
        /\ callbacks' = [callbacks EXCEPT ![r] = @ + 1]
        /\ execFaulty' = (execFaulty \/ r \notin syncContexts
                             \/ (~timedOut[r] /\ caller[r] = "returned"))
        /\ IF timedOut[r] THEN UNCHANGED <<done, written, caller>>
           ELSE /\ done' = [done EXCEPT ![r] = TRUE]
                /\ written' = written \cup {r}
                /\ caller' = [caller EXCEPT ![r] = IF @ = "waiting" THEN "woken" ELSE @]
        /\ worker' = [worker EXCEPT ![w] = "release"]
        /\ UNCHANGED <<requestQueue, shutdown, destroyed, request, refs, timedOut, syncContexts,
                       outcome>>

\* The worker's release, after it has unlocked the context.
SyncRelease(w) ==
    /\ worker[w] = "release"
    /\ Released(request[w])
    /\ worker' = [worker EXCEPT ![w] = "idle"]
    /\ request' = [request EXCEPT ![w] = None]
    /\ UNCHANGED <<requestQueue, shutdown, destroyed, done, timedOut, callbacks, written>>
    /\ UNCHANGED callVars

WorkerWake(w) ==
    /\ worker[w] = "waiting"
    /\ worker' = [worker EXCEPT ![w] = "woken"]
    /\ UNCHANGED <<requestQueue, shutdown, destroyed, request>>
    /\ UNCHANGED callVars /\ UNCHANGED contextVars

-----------------------------------------------------------------------------
(* tool_executor_destroy.                                                  *)

\* Mutant: the sleeping workers are not woken.
ShutDownSilently ==
    /\ ~shutdown
    /\ shutdown' = TRUE
    /\ UNCHANGED <<requestQueue, destroyed, worker, request>>
    /\ UNCHANGED callVars /\ UNCHANGED contextVars

ShutDown ==
    /\ ~shutdown
    /\ shutdown' = TRUE
    /\ worker' = [w \in Workers |-> IF w \in Sleeping THEN "woken" ELSE worker[w]]
    /\ UNCHANGED <<requestQueue, destroyed, request>>
    /\ UNCHANGED callVars /\ UNCHANGED contextVars

\* The workers are joined.  A request still queued would be freed unanswered.
Destroy ==
    /\ shutdown
    /\ ~destroyed
    /\ \A w \in Workers : worker[w] = "exited"
    /\ destroyed' = TRUE
    /\ requestQueue' = << >>
    /\ UNCHANGED <<shutdown, worker, request>>
    /\ UNCHANGED callVars /\ UNCHANGED contextVars

ReleasedContext == destroyed /\ UNCHANGED execVars

Caller(r) == CheckDone(r) \/ Return(r)

Work(w) == Take(w) \/ ToolReturns(w) \/ AsyncCallback(w) \/ SyncCallback(w) \/ SyncRelease(w)

ExecNext ==
    \/ \E r \in Request : SubmitAsync(r) \/ SubmitSync(r) \/ Caller(r)
                          \/ SpuriousWake(r) \/ TimeOut(r)
    \/ \E w \in Workers : Work(w) \/ WorkerWake(w)
    \/ ShutDown
    \/ Destroy
    \/ ReleasedContext

ExecSpec == ExecInit /\ [][ExecNext]_execVars

\* Threads get the mutexes they ask for, and a tool returns.  A wait need not time
\* out, and nothing forces a submission or the end of the executor.
ExecFairSpec ==
    /\ ExecSpec
    /\ \A w \in Workers : WF_execVars(Work(w))
    /\ \A r \in Request : WF_execVars(Caller(r))
    /\ WF_execVars(Destroy)

-----------------------------------------------------------------------------
(* Properties.                                                             *)

\* Types of the variables.
ExecutorTypeOK ==
    /\ requestQueue \in Seq(Request)
    /\ shutdown \in BOOLEAN /\ destroyed \in BOOLEAN /\ execFaulty \in BOOLEAN
    /\ worker \in [Workers -> {"idle", "waiting", "woken", "running", "callback",
                               "release", "exited"}]
    /\ request \in [Workers -> Request \cup {None}]
    /\ caller \in [Request -> {"start", "lock", "waiting", "woken", "release", "returned"}]
    /\ refs \in [Request -> 0..2]
    /\ done \in [Request -> BOOLEAN] /\ timedOut \in [Request -> BOOLEAN]
    /\ syncContexts \subseteq Request /\ written \subseteq Sync
    /\ callbacks \in [Request -> Nat]
    /\ outcome \in [Sync -> {None, "result", "timeout", "failed"}]

\* A late result does no harm: no thread uses a context that was freed, and no
\* worker writes to the frame of a call that has returned, however the time limit,
\* the tool's end and the two releases are interleaved (sync_context_release).
NoStaleUse == ~execFaulty

\* A request has one callback at most: a submission that fails is not also run, and
\* no request is taken by two workers.
CalledBackOnce == \A r \in Request : callbacks[r] <= 1

\* Contexts are not leaked: one that is allocated belongs to a request that is
\* queued or with a worker, or to a call that will still release it.
NoLeak ==
    \A r \in syncContexts :
        \/ \E i \in 1..Len(requestQueue) : requestQueue[i] = r
        \/ \E w \in Workers : request[w] = r
        \/ caller[r] \notin {"start", "returned"}

\* A synchronous call that returns without an error has its result, whatever ended
\* its wait, and one whose submission failed is not run.
ResultIsThere ==
    \A r \in Sync : /\ outcome[r] = "result" => r \in written
                    /\ outcome[r] = "failed" => callbacks[r] = 0

\* A request that was accepted is answered, also when the executor is destroyed
\* meanwhile: the workers empty the queue before they leave.  And a call that waits
\* for the answer returns.
AcceptedIsAnswered ==
    \A r \in Request : caller[r] \in {"lock", "returned"} ~>
        /\ caller[r] = "returned"
        /\ callbacks[r] = 1 \/ (r \in Sync /\ outcome[r] = "failed")

\* tool_executor_destroy returns: every worker it joins leaves its loop.
DestroyReturns == shutdown ~> destroyed

\* Every call has one result, in a frame that is still there, and leaves nothing behind.
ExecutorSafe == NoStaleUse /\ CalledBackOnce /\ NoLeak /\ ResultIsThere

\* No call and no destruction waits for ever.
ExecutorLive == AcceptedIsAnswered /\ DestroyReturns
=============================================================================
