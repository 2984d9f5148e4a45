---------------------------- MODULE ServiceProofs ----------------------------
(***************************************************************************)
(* Proofs about three services with threads of their own.                  *)
(*                                                                         *)
(* The tool executor: for every size of the pool and any number of         *)
(* requests, synchronous and asynchronous, it answers each at most once    *)
(* and frees its context exactly when the last of caller and worker lets   *)
(* go of it.                                                               *)
(*                                                                         *)
(* The calls of the model: for any number of calls, each asynchronous call *)
(* has one callback, and until the manager is freed its context is freed   *)
(* with the last use of it.                                                *)
(*                                                                         *)
(* The cron service: for any number of jobs and calls, a job that a caller *)
(* was promised stays in the list and in the file until it has fired or is *)
(* removed, the walk of the list stays on it, and no due time fires twice, *)
(* but for what calls during a callback can do.                            *)
(***************************************************************************)
EXTENDS ToolExecutor, LlmAsync, Cron, SequenceFacts

-----------------------------------------------------------------------------
(* The tool executor.                                                      *)

\* The requests whose callback is still to come: queued, or with a worker that has
\* not called it yet.
Pending == Elements(requestQueue)
           \cup {request[w] : w \in {v \in Workers : worker[v] \in {"running", "callback"}}}

\* Those answered by a worker that still has its reference to the context.
Leaving == {request[w] : w \in {v \in Workers : worker[v] = "release"}}

\* Each request is in the queue or with one worker, once; the workers leave only
\* when the executor shuts down and the queue is empty.
PoolInv ==
    /\ Distinct(requestQueue)
    /\ \A w \in Workers : request[w] # None <=> worker[w] \in {"running", "callback", "release"}
    /\ \A v, w \in Workers : request[v] # None /\ request[v] = request[w] => v = w
    /\ \A w \in Workers : request[w] \notin Elements(requestQueue)
    /\ \A w \in Workers : worker[w] = "release" => request[w] \in Sync
    /\ \A w \in Workers : worker[w] = "exited" => shutdown /\ requestQueue = << >>
    /\ destroyed => shutdown

\* An asynchronous request owns its wrapper from the submission to the callback.
AsyncOK(r) ==
    /\ caller[r] \in {"start", "returned"}
    /\ r \notin Leaving
    /\ r \in syncContexts <=> r \in Pending
    /\ r \in Pending => callbacks[r] = 0
    /\ callbacks[r] \in 0..1
    /\ caller[r] = "start" => callbacks[r] = 0 /\ r \notin Pending

\* The caller of a synchronous request has a reference until it returns.
CallerHolds(r) == caller[r] \in {"lock", "waiting", "woken", "release"}

\* A synchronous request's context is there while caller or worker refers to it, and
\* counts them; the worker's part is over before its result is used, unless the
\* caller has given up and said so.
SyncOK(r) ==
    /\ ~(r \in Pending /\ r \in Leaving)
    /\ refs[r] = (IF CallerHolds(r) THEN 1 ELSE 0)
                 + (IF r \in Pending \/ r \in Leaving THEN 1 ELSE 0)
    /\ r \in syncContexts <=> CallerHolds(r) \/ r \in Pending \/ r \in Leaving
    /\ callbacks[r] \in 0..1
    /\ r \in Pending => callbacks[r] = 0
    /\ caller[r] = "start" => /\ r \notin Pending /\ r \notin Leaving
                              /\ callbacks[r] = 0 /\ ~done[r]
    /\ done[r] => r \in written /\ r \notin Pending
    /\ r \in Pending /\ caller[r] = "returned" => timedOut[r]
    /\ timedOut[r] <=> outcome[r] = "timeout"
    /\ caller[r] = "release" => done[r] \/ timedOut[r]
    /\ timedOut[r] => caller[r] \in {"release", "returned"}
    /\ outcome[r] = "result" => r \in written
    /\ outcome[r] = "failed" => /\ callbacks[r] = 0
                                /\ r \notin Pending /\ r \notin Leaving
    /\ outcome[r] \in {"result", "failed"} => caller[r] = "returned"

\* The invariant that is inductive.
ExecInv ==
    /\ ExecutorTypeOK
    /\ PoolInv
    /\ \A r \in Async : AsyncOK(r)
    /\ \A r \in Sync : SyncOK(r)
    /\ ~execFaulty

-----------------------------------------------------------------------------

WorkerState == {"idle", "waiting", "woken", "running", "callback", "release", "exited"}

\* The types of the pool.
PoolTypeOK ==
    /\ requestQueue \in Seq(Request)
    /\ shutdown \in BOOLEAN /\ destroyed \in BOOLEAN
    /\ worker \in [Workers -> WorkerState]
    /\ request \in [Workers -> Request \cup {None}]

\* The requests in progress are requests.
LEMMA InProgress ==
    ASSUME PoolTypeOK, PoolInv
    PROVE  /\ Pending \subseteq Request /\ Leaving \subseteq Sync
           /\ \A w \in Workers : request[w] # None =>
                 request[w] \in Request /\ request[w] \in Pending \cup Leaving
<1>1. Elements(requestQueue) \subseteq Request
  BY ElementsInRange DEF PoolTypeOK
<1>2. \A w \in Workers : request[w] # None => request[w] \in Request
  BY DEF PoolTypeOK
<1> QED
  BY <1>1, <1>2 DEF PoolInv, Pending, Leaving

\* A signal moves at most one worker, from one state without a request to another.
LEMMA SignalFacts ==
    ASSUME PoolTypeOK, Signal
    PROVE  /\ worker' \in [Workers -> WorkerState]
           /\ \A w \in Workers : \/ worker'[w] = worker[w]
                                 \/ worker[w] = "waiting" /\ worker'[w] = "woken"
  BY DEF PoolTypeOK, Signal, Sleeping, WorkerState

\* Workers that only sleep or wake leave the requests where they are.
LEMMA WakingKeepsPool ==
    ASSUME PoolTypeOK, PoolInv, worker' \in [Workers -> WorkerState],
           \A w \in Workers : \/ worker'[w] = worker[w]
                              \/ worker[w] = "waiting" /\ worker'[w] = "woken",
           UNCHANGED <<requestQueue, destroyed, request>>,
           shutdown' \in BOOLEAN, shutdown => shutdown'
    PROVE  PoolTypeOK' /\ PoolInv' /\ Pending' = Pending /\ Leaving' = Leaving
<1>1. \A w \in Workers : /\ worker'[w] \in {"running", "callback"} <=> worker[w] \in {"running", "callback"}
                         /\ worker'[w] = "release" <=> worker[w] = "release"
                         /\ worker'[w] = "exited" <=> worker[w] = "exited"
  OBVIOUS
<1>2. {v \in Workers : worker'[v] \in {"running", "callback"}} = {v \in Workers : worker[v] \in {"running", "callback"}}
  BY <1>1
<1>3. {v \in Workers : worker'[v] = "release"} = {v \in Workers : worker[v] = "release"}
  BY <1>1
<1>4. Pending' = Pending /\ Leaving' = Leaving
  BY <1>2, <1>3 DEF Pending, Leaving
<1>5. PoolTypeOK'
  BY DEF PoolTypeOK
<1>6. PoolInv'
  <2>1. \A w \in Workers : request'[w] # None <=> worker'[w] \in {"running", "callback", "release"}
    BY <1>1 DEF PoolInv
  <2> QED
    BY <1>1, <2>1 DEF PoolInv
<1> QED
  BY <1>4, <1>5, <1>6

\* A request that is queued becomes pending.
LEMMA EnqueueFacts ==
    ASSUME PoolTypeOK, PoolInv, NEW r \in Request, r \notin Pending, r \notin Leaving,
           ~shutdown, Enqueue(r)
    PROVE  PoolTypeOK' /\ PoolInv' /\ Pending' = Pending \cup {r} /\ Leaving' = Leaving
<1>1. /\ requestQueue' = Append(requestQueue, r)
      /\ shutdown' = shutdown /\ destroyed' = destroyed /\ request' = request
  BY DEF Enqueue
<1>2. /\ worker' \in [Workers -> WorkerState]
      /\ \A w \in Workers : \/ worker'[w] = worker[w]
                            \/ worker[w] = "waiting" /\ worker'[w] = "woken"
  BY SignalFacts DEF Enqueue
<1>3. /\ requestQueue' \in Seq(Request) /\ Distinct(requestQueue')
      /\ Elements(requestQueue') = Elements(requestQueue) \cup {r}
  <2>1. requestQueue \in Seq(Request) /\ Distinct(requestQueue) /\ r \notin Elements(requestQueue)
    BY DEF PoolTypeOK, PoolInv, Pending
  <2> QED
    BY <1>1, <2>1, AppendDistinct
<1>4. \A w \in Workers : /\ worker'[w] \in {"running", "callback"} <=> worker[w] \in {"running", "callback"}
                         /\ worker'[w] = "release" <=> worker[w] = "release"
                         /\ worker'[w] # "exited"
  BY <1>2 DEF PoolInv
<1>5. {v \in Workers : worker'[v] \in {"running", "callback"}} = {v \in Workers : worker[v] \in {"running", "callback"}}
  BY <1>4
<1>6. {v \in Workers : worker'[v] = "release"} = {v \in Workers : worker[v] = "release"}
  BY <1>4
<1>7. Pending' = Pending \cup {r} /\ Leaving' = Leaving
  BY <1>1, <1>3, <1>5, <1>6 DEF Pending, Leaving
<1>8. PoolTypeOK'
  BY <1>1, <1>2, <1>3 DEF PoolTypeOK
<1>9. PoolInv'
  <2>1. \A w \in Workers : request[w] # r
    BY InProgress, ExecutorAssumption
  <2>2. \A w \in Workers : request'[w] # None <=> worker'[w] \in {"running", "callback", "release"}
    BY <1>1, <1>4 DEF PoolInv
  <2> QED
    BY <1>1, <1>3, <1>4, <2>1, <2>2 DEF PoolInv
<1> QED
  BY <1>7, <1>8, <1>9

\* A request that is taken from the queue stays pending, with one worker.
LEMMA TakeFacts ==
    ASSUME PoolTypeOK, PoolInv, NEW w \in Workers, Take(w)
    PROVE  PoolTypeOK' /\ PoolInv' /\ Pending' = Pending /\ Leaving' = Leaving
<1>0. worker[w] \in {"idle", "woken"} /\ request[w] = None /\ UNCHANGED <<shutdown, destroyed>>
  BY DEF Take, PoolInv
<1>1. CASE requestQueue # << >>
  <2> DEFINE h == Head(requestQueue)
  <2>1. /\ worker' = [worker EXCEPT ![w] = "running"]
        /\ request' = [request EXCEPT ![w] = h]
        /\ requestQueue' = Tail(requestQueue)
    BY <1>1 DEF Take
  <2>2. /\ requestQueue' \in Seq(Request) /\ Distinct(requestQueue')
        /\ h \in Request /\ h \in Elements(requestQueue)
        /\ Elements(requestQueue') = Elements(requestQueue) \ {h}
    BY <1>1, <2>1, TailDistinct DEF PoolTypeOK, PoolInv
  <2> HIDE DEF h
  <2>3. PoolTypeOK'
    BY <1>0, <2>1, <2>2 DEF PoolTypeOK, WorkerState
  <2>4. \A v \in Workers : /\ worker'[v] = IF v = w THEN "running" ELSE worker[v]
                           /\ request'[v] = IF v = w THEN h ELSE request[v]
    BY <2>1 DEF PoolTypeOK
  <2>5. h # None /\ \A v \in Workers : request[v] # h
    BY <2>2, ExecutorAssumption DEF PoolInv
  <2>6. \A v \in Workers : worker[v] # "exited"
    BY <1>1 DEF PoolInv
  <2>7. PoolInv'
    <3>1. \A v \in Workers : request'[v] # None <=> worker'[v] \in {"running", "callback", "release"}
      BY <2>4, <2>5 DEF PoolInv
    <3>2. \A u, v \in Workers : request'[u] # None /\ request'[u] = request'[v] => u = v
      BY <2>4, <2>5 DEF PoolInv
    <3>3. \A v \in Workers : request'[v] \notin Elements(requestQueue')
      BY <2>2, <2>4 DEF PoolInv
    <3>4. \A v \in Workers : worker'[v] = "release" => request'[v] \in Sync
      BY <2>4 DEF PoolInv
    <3>5. \A v \in Workers : worker'[v] # "exited"
      BY <2>4, <2>6
    <3> QED
      BY <1>0, <2>2, <3>1, <3>2, <3>3, <3>4, <3>5 DEF PoolInv
  <2>8. Pending' = Pending
    <3>1. {v \in Workers : worker'[v] \in {"running", "callback"}}
             = {v \in Workers : worker[v] \in {"running", "callback"}} \cup {w}
      BY <2>4
    <3>2. {request'[v] : v \in {u \in Workers : worker'[u] \in {"running", "callback"}}}
             = {request[v] : v \in {u \in Workers : worker[u] \in {"running", "callback"}}} \cup {h}
      BY <1>0, <2>4, <3>1
    <3> QED
      BY <2>2, <3>2 DEF Pending
  <2>9. Leaving' = Leaving
    BY <1>0, <2>4 DEF Leaving
  <2> QED
    BY <2>3, <2>7, <2>8, <2>9
<1>2. CASE requestQueue = << >>
  <2>1. /\ worker' = [worker EXCEPT ![w] = IF shutdown THEN "exited" ELSE "waiting"]
        /\ request' = request /\ requestQueue' = requestQueue
    BY <1>2 DEF Take
  <2>2. PoolTypeOK'
    BY <1>0, <2>1 DEF PoolTypeOK, WorkerState
  <2>3. \A v \in Workers : worker'[v] = IF v = w THEN (IF shutdown THEN "exited" ELSE "waiting")
                                        ELSE worker[v]
    BY <2>1 DEF PoolTypeOK
  <2>4. \A v \in Workers : request'[v] # None <=> worker'[v] \in {"running", "callback", "release"}
    BY <1>0, <2>1, <2>3 DEF PoolInv
  <2>5. \A v \in Workers : worker'[v] = "exited" => shutdown /\ requestQueue = << >>
    BY <1>2, <2>3 DEF PoolInv
  <2>6. \A v \in Workers : worker'[v] = "release" => request'[v] \in Sync
    BY <2>1, <2>3 DEF PoolInv
  <2>7. PoolInv'
    BY <1>0, <2>1, <2>4, <2>5, <2>6 DEF PoolInv
  <2>8. {v \in Workers : worker'[v] \in {"running", "callback"}}
             = {v \in Workers : worker[v] \in {"running", "callback"}}
    BY <1>0, <2>3
  <2>9. {v \in Workers : worker'[v] = "release"} = {v \in Workers : worker[v] = "release"}
    BY <1>0, <2>3
  <2> QED
    BY <2>1, <2>2, <2>7, <2>8, <2>9 DEF Pending, Leaving
<1> QED
  BY <1>1, <1>2

\* A worker that keeps its request, in the states before the callback.
LEMMA ToolReturnsFacts ==
    ASSUME PoolTypeOK, PoolInv, NEW w \in Workers, ToolReturns(w)
    PROVE  PoolTypeOK' /\ PoolInv' /\ Pending' = Pending /\ Leaving' = Leaving
<1>0. /\ worker[w] = "running" /\ worker' = [worker EXCEPT ![w] = "callback"]
      /\ UNCHANGED <<requestQueue, shutdown, destroyed, request>>
  BY DEF ToolReturns
<1>1. \A v \in Workers : worker'[v] = IF v = w THEN "callback" ELSE worker[v]
  BY <1>0 DEF PoolTypeOK
<1>2. PoolTypeOK'
  BY <1>0 DEF PoolTypeOK, WorkerState
<1>3. \A v \in Workers : request'[v] # None <=> worker'[v] \in {"running", "callback", "release"}
  BY <1>0, <1>1 DEF PoolInv
<1>4. PoolInv'
  BY <1>0, <1>1, <1>3 DEF PoolInv
<1>5. {v \in Workers : worker'[v] \in {"running", "callback"}}
             = {v \in Workers : worker[v] \in {"running", "callback"}}
  BY <1>0, <1>1
<1>6. {v \in Workers : worker'[v] = "release"} = {v \in Workers : worker[v] = "release"}
  BY <1>0, <1>1
<1> QED
  BY <1>0, <1>2, <1>4, <1>5, <1>6 DEF Pending, Leaving

\* The callback of a synchronous request is over; the worker keeps its reference.
LEMMA AnsweredFacts ==
    ASSUME PoolTypeOK, PoolInv, NEW w \in Workers,
           worker[w] = "callback", request[w] \in Sync,
           worker' = [worker EXCEPT ![w] = "release"],
           UNCHANGED <<requestQueue, shutdown, destroyed, request>>
    PROVE  /\ PoolTypeOK' /\ PoolInv'
           /\ request[w] \in Pending
           /\ Pending' = Pending \ {request[w]} /\ Leaving' = Leaving \cup {request[w]}
<1>1. \A v \in Workers : worker'[v] = IF v = w THEN "release" ELSE worker[v]
  BY DEF PoolTypeOK
<1>2. PoolTypeOK'
  BY DEF PoolTypeOK, WorkerState
<1>3. \A v \in Workers : request'[v] # None <=> worker'[v] \in {"running", "callback", "release"}
  BY <1>1 DEF PoolInv
<1>4. PoolInv'
  BY <1>1, <1>3 DEF PoolInv
<1>5. request[w] # None /\ request[w] \notin Elements(requestQueue)
  BY DEF PoolInv
<1>6. {v \in Workers : worker'[v] \in {"running", "callback"}}
             = {v \in Workers : worker[v] \in {"running", "callback"}} \ {w}
  BY <1>1
<1>7. {v \in Workers : worker'[v] = "release"} = {v \in Workers : worker[v] = "release"} \cup {w}
  BY <1>1
<1>8. \A v \in Workers : request[v] = request[w] => v = w
  BY <1>5 DEF PoolInv
<1>9. Pending' = Pending \ {request[w]}
  BY <1>5, <1>6, <1>8 DEF Pending
<1>10. Leaving' = Leaving \cup {request[w]}
  BY <1>7 DEF Leaving
<1>11. request[w] \in Pending
  BY DEF Pending
<1> QED
  BY <1>2, <1>4, <1>9, <1>10, <1>11

\* A worker drops its request and is idle again.
LEMMA DropFacts ==
    ASSUME PoolTypeOK, PoolInv, NEW w \in Workers,
           worker[w] \in {"callback", "release"},
           worker' = [worker EXCEPT ![w] = "idle"],
           request' = [request EXCEPT ![w] = None],
           UNCHANGED <<requestQueue, shutdown, destroyed>>
    PROVE  /\ PoolTypeOK' /\ PoolInv'
           /\ worker[w] = "callback" => request[w] \in Pending
           /\ worker[w] = "release" => request[w] \in Leaving
           /\ Pending' = IF worker[w] = "callback" THEN Pending \ {request[w]} ELSE Pending
           /\ Leaving' = IF worker[w] = "release" THEN Leaving \ {request[w]} ELSE Leaving
<1>1. \A v \in Workers : /\ worker'[v] = IF v = w THEN "idle" ELSE worker[v]
                         /\ request'[v] = IF v = w THEN None ELSE request[v]
  BY DEF PoolTypeOK
<1>2. PoolTypeOK'
  BY DEF PoolTypeOK, WorkerState
<1>3. \A v \in Workers : request'[v] # None <=> worker'[v] \in {"running", "callback", "release"}
  BY <1>1 DEF PoolInv
<1>4. None \notin Elements(requestQueue)
  BY ElementsInRange, ExecutorAssumption DEF PoolTypeOK
<1>5. PoolInv'
  BY <1>1, <1>3, <1>4 DEF PoolInv
<1>6. request[w] # None /\ request[w] \notin Elements(requestQueue)
  BY DEF PoolInv
<1>7. \A v \in Workers : request[v] = request[w] => v = w
  BY <1>6 DEF PoolInv
<1>8. {v \in Workers : worker'[v] \in {"running", "callback"}}
             = {v \in Workers : worker[v] \in {"running", "callback"}} \ {w}
  BY <1>1
<1>9. {v \in Workers : worker'[v] = "release"} = {v \in Workers : worker[v] = "release"} \ {w}
  BY <1>1
<1>10. Pending' = IF worker[w] = "callback" THEN Pending \ {request[w]} ELSE Pending
  BY <1>1, <1>6, <1>7, <1>8 DEF Pending
<1>11. Leaving' = IF worker[w] = "release" THEN Leaving \ {request[w]} ELSE Leaving
  BY <1>1, <1>6, <1>7, <1>9 DEF Leaving
<1>12. /\ worker[w] = "callback" => request[w] \in Pending
       /\ worker[w] = "release" => request[w] \in Leaving
  BY DEF Pending, Leaving
<1> QED
  BY <1>2, <1>5, <1>10, <1>11, <1>12

-----------------------------------------------------------------------------

CallerState == {"start", "lock", "waiting", "woken", "release", "returned"}

\* The types of calls and contexts.
CallTypeOK ==
    /\ caller \in [Request -> CallerState]
    /\ refs \in [Request -> 0..2]
    /\ done \in [Request -> BOOLEAN] /\ timedOut \in [Request -> BOOLEAN]
    /\ syncContexts \subseteq Request /\ written \subseteq Sync
    /\ callbacks \in [Request -> Nat]
    /\ outcome \in [Sync -> {None, "result", "timeout", "failed"}]

\* The two halves of the types.
LEMMA TypeHalves == ExecutorTypeOK <=> PoolTypeOK /\ CallTypeOK /\ execFaulty \in BOOLEAN
  BY DEF ExecutorTypeOK, PoolTypeOK, CallTypeOK, WorkerState, CallerState

\* After a step, the inductive invariant is put together again from its parts.
LEMMA Assemble ==
    ASSUME PoolTypeOK', PoolInv', CallTypeOK', execFaulty' = FALSE,
           \A r \in Async : AsyncOK(r)', \A r \in Sync : SyncOK(r)'
    PROVE  ExecInv'
<1>1. ExecutorTypeOK'
  BY DEF ExecutorTypeOK, PoolTypeOK, CallTypeOK, WorkerState, CallerState
<1> QED
  BY <1>1 DEF ExecInv

\* Initially nothing is submitted.
LEMMA InitExecInv == ExecInit => ExecInv
<1> SUFFICES ASSUME ExecInit PROVE ExecInv
  OBVIOUS
<1>1. Pending = {} /\ Leaving = {}
  BY EmptyHoldsNothing DEF ExecInit, Pending, Leaving
<1>2. ExecutorTypeOK
  <2>1. PoolTypeOK
    <3>1. requestQueue \in Seq(Request)
      BY DEF ExecInit
    <3>4. shutdown \in BOOLEAN /\ destroyed \in BOOLEAN
      BY DEF ExecInit
    <3>2. worker \in [Workers -> WorkerState]
      BY DEF ExecInit, WorkerState
    <3>3. request \in [Workers -> Request \cup {None}]
      BY DEF ExecInit
    <3> QED
      BY <3>1, <3>2, <3>3, <3>4 DEF PoolTypeOK
  <2>2. CallTypeOK
    BY DEF ExecInit, CallTypeOK, CallerState
  <2> QED
    BY <2>1, <2>2, TypeHalves DEF ExecInit
<1>3. PoolInv
  BY EmptyHoldsNothing DEF ExecInit, PoolInv
<1>4. \A r \in Async : AsyncOK(r)
  BY <1>1 DEF ExecInit, AsyncOK, Request
<1>5. \A r \in Sync : SyncOK(r)
  BY <1>1 DEF ExecInit, SyncOK, CallerHolds, Request, None
<1> QED
  BY <1>2, <1>3, <1>4, <1>5 DEF ExecInv, ExecInit

\* A request that nothing was done to keeps what is said of it.
LEMMA Untouched ==
    ASSUME ExecInv, PoolTypeOK', PoolInv',
           Pending' = Pending, Leaving' = Leaving,
           UNCHANGED callVars, UNCHANGED contextVars
    PROVE  ExecInv'
<1>1. CallTypeOK' /\ execFaulty' = FALSE
  BY TypeHalves DEF ExecInv, CallTypeOK, callVars, contextVars
<1>2. \A r \in Async : AsyncOK(r)'
  BY DEF ExecInv, AsyncOK, callVars, contextVars
<1>3. \A r \in Sync : SyncOK(r)'
  BY DEF ExecInv, SyncOK, CallerHolds, callVars, contextVars
<1> QED
  BY <1>1, <1>2, <1>3, Assemble

\* An unchanged pool.
LEMMA PoolKept ==
    ASSUME PoolTypeOK, PoolInv, UNCHANGED poolVars
    PROVE  PoolTypeOK' /\ PoolInv' /\ Pending' = Pending /\ Leaving' = Leaving
  BY DEF PoolTypeOK, PoolInv, Pending, Leaving, poolVars

\* A submission to the executor, asynchronous.
LEMMA SubmitAsyncInv ==
    ASSUME ExecInv, NEW r \in Async, SubmitAsync(r)
    PROVE  ExecInv'
<1>0. PoolTypeOK /\ PoolInv /\ CallTypeOK /\ r \in Request /\ r \notin Sync /\ execFaulty = FALSE
  BY TypeHalves, ExecutorAssumption DEF ExecInv, Request
<1>1. /\ AsyncOK(r) /\ caller[r] = "start" /\ ~shutdown
      /\ r \notin Pending /\ r \notin Leaving /\ callbacks[r] = 0
      /\ caller' = [caller EXCEPT ![r] = "returned"]
      /\ UNCHANGED <<refs, done, timedOut, written, outcome, execFaulty>>
  BY DEF SubmitAsync, ExecInv, AsyncOK
<1>2. CASE /\ Enqueue(r)
           /\ syncContexts' = syncContexts \cup {r}
           /\ UNCHANGED callbacks
  <2>1. PoolTypeOK' /\ PoolInv' /\ Pending' = Pending \cup {r} /\ Leaving' = Leaving
    BY <1>0, <1>1, <1>2, EnqueueFacts
  <2>2. CallTypeOK'
    BY <1>0, <1>1, <1>2 DEF CallTypeOK, CallerState
  <2>3. \A x \in Async : AsyncOK(x)'
    BY <1>0, <1>1, <1>2, <2>1 DEF ExecInv, AsyncOK, CallTypeOK, Request
  <2>4. \A x \in Sync : SyncOK(x)'
    BY <1>0, <1>1, <1>2, <2>1 DEF ExecInv, SyncOK, CallerHolds, CallTypeOK, Request
  <2> QED
    BY <1>0, <1>1, <2>1, <2>2, <2>3, <2>4, Assemble
<1>3. CASE /\ callbacks' = [callbacks EXCEPT ![r] = @ + 1]
           /\ UNCHANGED syncContexts /\ UNCHANGED poolVars
  <2>1. PoolTypeOK' /\ PoolInv' /\ Pending' = Pending /\ Leaving' = Leaving
    BY <1>0, <1>3, PoolKept
  <2>2. CallTypeOK'
    BY <1>0, <1>1, <1>3 DEF CallTypeOK, CallerState
  <2>3. \A x \in Async : AsyncOK(x)'
    BY <1>0, <1>1, <1>3, <2>1 DEF ExecInv, AsyncOK, CallTypeOK, Request
  <2>4. \A x \in Sync : SyncOK(x)'
    BY <1>0, <1>1, <1>3, <2>1 DEF ExecInv, SyncOK, CallerHolds, CallTypeOK, Request
  <2> QED
    BY <1>0, <1>1, <2>1, <2>2, <2>3, <2>4, Assemble
<1> QED
  BY <1>2, <1>3 DEF SubmitAsync

\* A submission to the executor, synchronous.
LEMMA SubmitSyncInv ==
    ASSUME ExecInv, NEW r \in Sync, SubmitSync(r)
    PROVE  ExecInv'
<1>0. PoolTypeOK /\ PoolInv /\ CallTypeOK /\ r \in Request /\ r \notin Async /\ execFaulty = FALSE
  BY TypeHalves, ExecutorAssumption DEF ExecInv, Request
<1>1. /\ SyncOK(r) /\ caller[r] = "start" /\ ~shutdown
      /\ r \notin Pending /\ r \notin Leaving /\ callbacks[r] = 0
      /\ UNCHANGED <<done, timedOut, callbacks, written, execFaulty>>
  BY DEF SubmitSync, ExecInv, SyncOK
<1>2. CASE /\ Enqueue(r)
           /\ caller' = [caller EXCEPT ![r] = "lock"]
           /\ refs' = [refs EXCEPT ![r] = 2]
           /\ syncContexts' = syncContexts \cup {r}
           /\ UNCHANGED outcome
  <2>1. PoolTypeOK' /\ PoolInv' /\ Pending' = Pending \cup {r} /\ Leaving' = Leaving
    BY <1>0, <1>1, <1>2, EnqueueFacts
  <2>2. CallTypeOK'
    BY <1>0, <1>1, <1>2 DEF CallTypeOK, CallerState
  <2>3. \A x \in Async : AsyncOK(x)'
    BY <1>0, <1>1, <1>2, <2>1 DEF ExecInv, AsyncOK, CallTypeOK, Request
  <2>4. \A x \in Sync : SyncOK(x)'
    BY <1>0, <1>1, <1>2, <2>1 DEF ExecInv, SyncOK, CallerHolds, CallTypeOK, Request
  <2> QED
    BY <1>0, <1>1, <2>1, <2>2, <2>3, <2>4, Assemble
<1>3. CASE /\ caller' = [caller EXCEPT ![r] = "returned"]
           /\ outcome' = [outcome EXCEPT ![r] = "failed"]
           /\ UNCHANGED <<refs, syncContexts>> /\ UNCHANGED poolVars
  <2>1. PoolTypeOK' /\ PoolInv' /\ Pending' = Pending /\ Leaving' = Leaving
    BY <1>0, <1>3, PoolKept
  <2>2. CallTypeOK'
    BY <1>0, <1>1, <1>3 DEF CallTypeOK, CallerState
  <2>3. \A x \in Async : AsyncOK(x)'
    BY <1>0, <1>1, <1>3, <2>1 DEF ExecInv, AsyncOK, CallTypeOK, Request
  <2>4. \A x \in Sync : SyncOK(x)'
    BY <1>0, <1>1, <1>3, <2>1 DEF ExecInv, SyncOK, CallerHolds, CallTypeOK, Request
  <2> QED
    BY <1>0, <1>1, <2>1, <2>2, <2>3, <2>4, Assemble
<1> QED
  BY <1>2, <1>3 DEF SubmitSync

\* A step of the caller of a synchronous request on its context.
LEMMA CheckDoneInv ==
    ASSUME ExecInv, NEW r \in Request, CheckDone(r) \/ SpuriousWake(r)
    PROVE  ExecInv'
<1>0. PoolTypeOK /\ PoolInv /\ CallTypeOK /\ execFaulty = FALSE
  BY TypeHalves DEF ExecInv
<1>1. r \in Sync /\ r \notin Async /\ SyncOK(r)
  BY ExecutorAssumption DEF CheckDone, SpuriousWake, ExecInv, AsyncOK, Request
<1>2. /\ caller[r] \in {"lock", "waiting", "woken"}
      /\ \E b \in {"release", "waiting", "woken"} :
            caller' = [caller EXCEPT ![r] = b] /\ (b = "release" => done[r])
      /\ UNCHANGED <<refs, done, timedOut, syncContexts, callbacks, written, outcome>>
      /\ UNCHANGED poolVars
      /\ execFaulty' = FALSE
  <2>1. r \in syncContexts \/ SpuriousWake(r)
    BY <1>1 DEF CheckDone, SyncOK, CallerHolds
  <2> QED
    BY <1>0, <2>1 DEF CheckDone, SpuriousWake, contextVars, CallTypeOK
<1>3. PoolTypeOK' /\ PoolInv' /\ Pending' = Pending /\ Leaving' = Leaving
  BY <1>0, <1>2, PoolKept
<1>4. CallTypeOK'
  BY <1>0, <1>2 DEF CallTypeOK, CallerState
<1>5. \A x \in Async : AsyncOK(x)'
  BY <1>0, <1>1, <1>2, <1>3 DEF ExecInv, AsyncOK, CallTypeOK, Request
<1>6. \A x \in Sync : SyncOK(x)'
  BY <1>0, <1>1, <1>2, <1>3 DEF ExecInv, SyncOK, CallerHolds, CallTypeOK, Request
<1> QED
  BY <1>2, <1>3, <1>4, <1>5, <1>6, Assemble

\* A caller that gives up says so in the context, which it still holds.
LEMMA TimeOutInv ==
    ASSUME ExecInv, NEW r \in Request, TimeOut(r)
    PROVE  ExecInv'
<1>0. PoolTypeOK /\ PoolInv /\ CallTypeOK /\ execFaulty = FALSE
  BY TypeHalves DEF ExecInv
<1>1. r \in Sync /\ r \notin Async /\ SyncOK(r)
  BY ExecutorAssumption DEF TimeOut, ExecInv, Sync
<1>2. /\ caller[r] \in {"waiting", "woken"}
      /\ timedOut' = [timedOut EXCEPT ![r] = TRUE]
      /\ outcome' = [outcome EXCEPT ![r] = "timeout"]
      /\ caller' = [caller EXCEPT ![r] = "release"]
      /\ UNCHANGED <<refs, done, syncContexts, callbacks, written>>
      /\ UNCHANGED poolVars
      /\ execFaulty' = FALSE
  BY <1>0, <1>1 DEF TimeOut, SyncOK, CallerHolds
<1>3. PoolTypeOK' /\ PoolInv' /\ Pending' = Pending /\ Leaving' = Leaving
  BY <1>0, <1>2, PoolKept
<1>4. CallTypeOK'
  BY <1>0, <1>2 DEF CallTypeOK, CallerState
<1>5. \A x \in Async : AsyncOK(x)'
  BY <1>0, <1>1, <1>2, <1>3 DEF ExecInv, AsyncOK, CallTypeOK, Request
<1>6. \A x \in Sync : SyncOK(x)'
  BY <1>0, <1>1, <1>2, <1>3 DEF ExecInv, SyncOK, CallerHolds, CallTypeOK, Request
<1> QED
  BY <1>2, <1>3, <1>4, <1>5, <1>6, Assemble

\* The caller lets go of the context: it frees it if the worker's part is over.
LEMMA ReturnInv ==
    ASSUME ExecInv, NEW r \in Request, Return(r)
    PROVE  ExecInv'
<1>0. PoolTypeOK /\ PoolInv /\ CallTypeOK /\ execFaulty = FALSE
  BY TypeHalves DEF ExecInv
<1>1. r \in Sync /\ r \notin Async /\ SyncOK(r)
  BY ExecutorAssumption DEF Return, ExecInv
<1>2. /\ caller[r] = "release"
      /\ refs' = [refs EXCEPT ![r] = @ - 1]
      /\ syncContexts' = IF refs[r] = 1 THEN syncContexts \ {r} ELSE syncContexts
      /\ outcome' = [outcome EXCEPT ![r] = IF @ = None THEN "result" ELSE @]
      /\ caller' = [caller EXCEPT ![r] = "returned"]
      /\ UNCHANGED <<done, timedOut, callbacks, written>>
      /\ UNCHANGED poolVars
      /\ execFaulty' = FALSE
  BY <1>0, <1>1 DEF Return, Released, SyncOK, CallerHolds
<1>3. PoolTypeOK' /\ PoolInv' /\ Pending' = Pending /\ Leaving' = Leaving
  BY <1>0, <1>2, PoolKept
<1>4. refs[r] = 1 + (IF r \in Pending \/ r \in Leaving THEN 1 ELSE 0)
  BY <1>1, <1>2 DEF SyncOK, CallerHolds
<1>5. CallTypeOK'
  BY <1>0, <1>1, <1>2, <1>4 DEF CallTypeOK, CallerState
<1>6. \A x \in Async : AsyncOK(x)'
  BY <1>0, <1>1, <1>2, <1>3 DEF ExecInv, AsyncOK, CallTypeOK, Request
<1>7. SyncOK(r)'
  <2>1. /\ caller'[r] = "returned" /\ refs'[r] = refs[r] - 1
        /\ outcome'[r] = IF outcome[r] = None THEN "result" ELSE outcome[r]
    BY <1>0, <1>1, <1>2 DEF CallTypeOK, Request
  <2>2. refs'[r] = (IF CallerHolds(r)' THEN 1 ELSE 0)
                   + (IF r \in Pending' \/ r \in Leaving' THEN 1 ELSE 0)
    BY <1>3, <1>4, <2>1 DEF CallerHolds
  <2>3. r \in syncContexts' <=> CallerHolds(r)' \/ r \in Pending' \/ r \in Leaving'
    BY <1>1, <1>2, <1>3, <1>4, <2>1 DEF SyncOK, CallerHolds
  <2>4. /\ timedOut'[r] <=> outcome'[r] = "timeout"
        /\ outcome'[r] = "result" => r \in written'
        /\ outcome'[r] = "failed" => /\ callbacks'[r] = 0
                                     /\ r \notin Pending' /\ r \notin Leaving'
    BY <1>1, <1>2, <1>3, <2>1 DEF SyncOK, None
  <2>5. r \in Pending' => timedOut'[r]
    BY <1>0, <1>1, <1>2, <1>3 DEF SyncOK
  <2> QED
    BY <1>1, <1>2, <1>3, <2>1, <2>2, <2>3, <2>4, <2>5 DEF SyncOK
<1>8. \A x \in Sync : x # r => SyncOK(x)'
  BY <1>0, <1>1, <1>2, <1>3 DEF ExecInv, SyncOK, CallerHolds, CallTypeOK, Request
<1> QED
  BY <1>2, <1>3, <1>5, <1>6, <1>7, <1>8, Assemble

\* The callback of an asynchronous request frees its wrapper.
LEMMA AsyncCallbackInv ==
    ASSUME ExecInv, NEW w \in Workers, AsyncCallback(w)
    PROVE  ExecInv'
<1>0. PoolTypeOK /\ PoolInv /\ CallTypeOK /\ execFaulty = FALSE
  BY TypeHalves DEF ExecInv
<1>r. PICK r \in Request : r = request[w]
  BY <1>0 DEF PoolTypeOK, PoolInv, AsyncCallback
<1>1. /\ worker[w] = "callback" /\ r \in Async
      /\ callbacks' = [callbacks EXCEPT ![r] = @ + 1]
      /\ execFaulty' = (execFaulty \/ r \notin syncContexts)
      /\ syncContexts' = syncContexts \ {r}
      /\ worker' = [worker EXCEPT ![w] = "idle"]
      /\ request' = [request EXCEPT ![w] = None]
      /\ UNCHANGED <<requestQueue, shutdown, destroyed>>
      /\ UNCHANGED <<refs, done, timedOut, written, caller, outcome>>
  BY <1>r DEF AsyncCallback, callVars
<1>2. r \in Async /\ r \notin Sync /\ r \in Request /\ AsyncOK(r)
  BY <1>1, ExecutorAssumption DEF ExecInv, Request
<1>3. /\ PoolTypeOK' /\ PoolInv' /\ r \in Pending
      /\ Pending' = Pending \ {r} /\ Leaving' = Leaving
  BY <1>0, <1>1, <1>r, DropFacts
<1>4. execFaulty' = FALSE
  BY <1>0, <1>1, <1>2, <1>3 DEF AsyncOK
<1>5. CallTypeOK'
  BY <1>0, <1>1, <1>2 DEF CallTypeOK
<1>6. \A x \in Async : AsyncOK(x)'
  BY <1>0, <1>1, <1>2, <1>3 DEF ExecInv, AsyncOK, CallTypeOK, Request
<1>7. \A x \in Sync : SyncOK(x)'
  BY <1>0, <1>1, <1>2, <1>3 DEF ExecInv, SyncOK, CallerHolds, CallTypeOK, Request
<1> QED
  BY <1>3, <1>4, <1>5, <1>6, <1>7, Assemble

\* The callback of a synchronous request writes to the caller's frame only while the
\* caller is in the call.
LEMMA SyncCallbackInv ==
    ASSUME ExecInv, NEW w \in Workers, SyncCallback(w)
    PROVE  ExecInv'
<1>0. PoolTypeOK /\ PoolInv /\ CallTypeOK /\ execFaulty = FALSE
  BY TypeHalves DEF ExecInv
<1>r. PICK r \in Request : r = request[w]
  BY <1>0 DEF PoolTypeOK, PoolInv, SyncCallback
<1>1. /\ worker[w] = "callback" /\ r \in Sync
      /\ callbacks' = [callbacks EXCEPT ![r] = @ + 1]
      /\ execFaulty' = (execFaulty \/ r \notin syncContexts
                           \/ (~timedOut[r] /\ caller[r] = "returned"))
      /\ IF timedOut[r] THEN UNCHANGED <<done, written, caller>>
         ELSE /\ done' = [done EXCEPT ![r] = TRUE]
              /\ written' = written \cup {r}
              /\ caller' = [caller EXCEPT ![r] = IF @ = "waiting" THEN "woken" ELSE @]
      /\ worker' = [worker EXCEPT ![w] = "release"]
      /\ UNCHANGED <<requestQueue, shutdown, destroyed, request>>
      /\ UNCHANGED <<refs, timedOut, syncContexts, outcome>>
  BY <1>r DEF SyncCallback
<1>2. r \in Sync /\ r \notin Async /\ r \in Request /\ SyncOK(r)
  BY <1>1, ExecutorAssumption DEF ExecInv, Request
<1>3. /\ PoolTypeOK' /\ PoolInv' /\ r \in Pending
      /\ Pending' = Pending \ {r} /\ Leaving' = Leaving \cup {r}
  BY <1>0, <1>1, <1>r, AnsweredFacts
<1>4. execFaulty' = FALSE
  BY <1>0, <1>1, <1>2, <1>3 DEF SyncOK
<1>5. CallTypeOK'
  <2>1. caller' \in [Request -> CallerState]
    BY <1>0, <1>1 DEF CallTypeOK, CallerState
  <2>2. done' \in [Request -> BOOLEAN] /\ written' \subseteq Sync
    BY <1>0, <1>1, <1>2 DEF CallTypeOK
  <2>3. callbacks' \in [Request -> Nat]
    BY <1>0, <1>1, <1>2 DEF CallTypeOK
  <2> QED
    BY <1>0, <1>1, <2>1, <2>2, <2>3 DEF CallTypeOK
<1>6. \A x \in Async : AsyncOK(x)'
  BY <1>0, <1>1, <1>2, <1>3 DEF ExecInv, AsyncOK, CallTypeOK, Request
<1>7. SyncOK(r)'
  BY <1>0, <1>1, <1>2, <1>3 DEF SyncOK, CallerHolds, CallTypeOK
<1>8. \A x \in Sync : x # r => SyncOK(x)'
  BY <1>0, <1>1, <1>2, <1>3 DEF ExecInv, SyncOK, CallerHolds, CallTypeOK, Request
<1> QED
  BY <1>3, <1>4, <1>5, <1>6, <1>7, <1>8, Assemble

\* The worker lets go of the context: it frees it if the caller has returned.
LEMMA SyncReleaseInv ==
    ASSUME ExecInv, NEW w \in Workers, SyncRelease(w)
    PROVE  ExecInv'
<1>0. PoolTypeOK /\ PoolInv /\ CallTypeOK /\ execFaulty = FALSE
  BY TypeHalves DEF ExecInv
<1>r. PICK r \in Request : r = request[w]
  BY <1>0 DEF PoolTypeOK, PoolInv, SyncRelease
<1>1. /\ worker[w] = "release"
      /\ refs' = [refs EXCEPT ![r] = @ - 1]
      /\ syncContexts' = IF refs[r] = 1 THEN syncContexts \ {r} ELSE syncContexts
      /\ execFaulty' = (execFaulty \/ r \notin syncContexts)
      /\ worker' = [worker EXCEPT ![w] = "idle"]
      /\ request' = [request EXCEPT ![w] = None]
      /\ UNCHANGED <<requestQueue, shutdown, destroyed>>
      /\ UNCHANGED <<done, timedOut, callbacks, written, caller, outcome>>
  BY <1>r DEF SyncRelease, Released, callVars
<1>2. r \in Sync /\ r \notin Async /\ r \in Request /\ SyncOK(r)
  BY <1>0, <1>1, <1>r, ExecutorAssumption DEF ExecInv, PoolInv, Request
<1>3. /\ PoolTypeOK' /\ PoolInv' /\ r \in Leaving
      /\ Pending' = Pending /\ Leaving' = Leaving \ {r}
  BY <1>0, <1>1, <1>r, DropFacts
<1>4. execFaulty' = FALSE
  BY <1>0, <1>1, <1>2, <1>3 DEF SyncOK
<1>5. refs[r] = (IF CallerHolds(r) THEN 1 ELSE 0) + 1
  BY <1>2, <1>3 DEF SyncOK
<1>6. CallTypeOK'
  BY <1>0, <1>1, <1>2, <1>5 DEF CallTypeOK
<1>7. \A x \in Async : AsyncOK(x)'
  BY <1>0, <1>1, <1>2, <1>3 DEF ExecInv, AsyncOK, CallTypeOK, Request
<1>8. SyncOK(r)'
  BY <1>0, <1>1, <1>2, <1>3, <1>5 DEF SyncOK, CallerHolds, CallTypeOK
<1>9. \A x \in Sync : x # r => SyncOK(x)'
  BY <1>0, <1>1, <1>2, <1>3 DEF ExecInv, SyncOK, CallerHolds, CallTypeOK, Request
<1> QED
  BY <1>3, <1>4, <1>6, <1>7, <1>8, <1>9, Assemble

\* Every critical section of the executor preserves the inductive invariant.
LEMMA NextExecInv == ExecInv /\ [ExecNext]_execVars => ExecInv'
<1> SUFFICES ASSUME ExecInv, [ExecNext]_execVars PROVE ExecInv'
  OBVIOUS
<1>0. PoolTypeOK /\ PoolInv
  BY TypeHalves DEF ExecInv
<1>1. ASSUME NEW r \in Request,
             SubmitAsync(r) \/ SubmitSync(r) \/ Caller(r) \/ SpuriousWake(r) \/ TimeOut(r)
      PROVE  ExecInv'
  <2>1. CASE SubmitAsync(r)
    BY <2>1, SubmitAsyncInv DEF SubmitAsync
  <2>2. CASE SubmitSync(r)
    BY <2>2, SubmitSyncInv DEF SubmitSync
  <2>3. CASE CheckDone(r) \/ SpuriousWake(r)
    BY <2>3, CheckDoneInv
  <2>4. CASE Return(r)
    BY <2>4, ReturnInv
  <2>5. CASE TimeOut(r)
    BY <2>5, TimeOutInv
  <2> QED
    BY <1>1, <2>1, <2>2, <2>3, <2>4, <2>5 DEF Caller
<1>2. ASSUME NEW w \in Workers, Work(w) \/ WorkerWake(w) PROVE ExecInv'
  <2>1. CASE Take(w)
    BY <1>0, <2>1, TakeFacts, Untouched DEF Take
  <2>2. CASE ToolReturns(w)
    BY <1>0, <2>2, ToolReturnsFacts, Untouched DEF ToolReturns
  <2>3. CASE AsyncCallback(w)
    BY <2>3, AsyncCallbackInv
  <2>4. CASE SyncCallback(w)
    BY <2>4, SyncCallbackInv
  <2>5. CASE SyncRelease(w)
    BY <2>5, SyncReleaseInv
  <2>6. CASE WorkerWake(w)
    <3>1. /\ worker' \in [Workers -> WorkerState]
          /\ \A v \in Workers : \/ worker'[v] = worker[v]
                                \/ worker[v] = "waiting" /\ worker'[v] = "woken"
      BY <1>0, <2>6 DEF WorkerWake, PoolTypeOK, WorkerState
    <3>2. PoolTypeOK' /\ PoolInv' /\ Pending' = Pending /\ Leaving' = Leaving
      BY <1>0, <2>6, <3>1, WakingKeepsPool DEF WorkerWake, PoolTypeOK
    <3> QED
      BY <2>6, <3>2, Untouched DEF WorkerWake
  <2> QED
    BY <1>2, <2>1, <2>2, <2>3, <2>4, <2>5, <2>6 DEF Work
<1>3. CASE ShutDown
  <2>1. /\ worker' \in [Workers -> WorkerState]
        /\ \A v \in Workers : \/ worker'[v] = worker[v]
                              \/ worker[v] = "waiting" /\ worker'[v] = "woken"
    BY <1>0, <1>3 DEF ShutDown, Sleeping, PoolTypeOK, WorkerState
  <2>2. PoolTypeOK' /\ PoolInv' /\ Pending' = Pending /\ Leaving' = Leaving
    BY <1>0, <1>3, <2>1, WakingKeepsPool DEF ShutDown
  <2> QED
    BY <1>3, <2>2, Untouched DEF ShutDown
<1>4. CASE Destroy
  <2>1. requestQueue = << >> /\ requestQueue' = requestQueue
    BY <1>0, <1>4, ExecutorAssumption DEF Destroy, PoolInv
  <2>2. PoolTypeOK' /\ PoolInv' /\ Pending' = Pending /\ Leaving' = Leaving
    BY <1>0, <1>4, <2>1 DEF Destroy, PoolTypeOK, PoolInv, Pending, Leaving
  <2> QED
    BY <1>4, <2>2, Untouched DEF Destroy
<1>5. CASE UNCHANGED execVars
  <2>1. UNCHANGED poolVars /\ UNCHANGED callVars /\ UNCHANGED contextVars
    BY <1>5 DEF execVars, poolVars, callVars, contextVars
  <2> QED
    BY <1>0, <2>1, PoolKept, Untouched
<1> QED
  BY <1>1, <1>2, <1>3, <1>4, <1>5 DEF ExecNext, ReleasedContext

\* Every variable of the executor keeps its type; in particular no reference count
\* goes below 0 or above 2.
THEOREM ExecutorTypeCorrect == ExecSpec => []ExecutorTypeOK
<1>1. ExecInv => ExecutorTypeOK
  BY DEF ExecInv
<1> QED
  BY <1>1, InitExecInv, NextExecInv, PTL DEF ExecSpec

\* No context is used after it was freed, none is leaked, no frame is written to
\* after its call returned, no request is answered twice and none returns a result
\* that is not there: for every pool and any number of calls, however their time
\* limits, answers and releases are interleaved.
THEOREM ExecutorIsSafe == ExecSpec => []ExecutorSafe
<1>1. ExecInv => ExecutorSafe
  <2> SUFFICES ASSUME ExecInv PROVE ExecutorSafe
    OBVIOUS
  <2>0. PoolTypeOK /\ PoolInv /\ CallTypeOK
    BY TypeHalves DEF ExecInv
  <2>1. NoStaleUse
    BY DEF ExecInv, NoStaleUse
  <2>2. CalledBackOnce
    BY DEF ExecInv, CalledBackOnce, AsyncOK, SyncOK, Request
  <2>3. NoLeak
    <3> SUFFICES ASSUME NEW r \in syncContexts
                 PROVE  \/ \E i \in 1..Len(requestQueue) : requestQueue[i] = r
                        \/ \E w \in Workers : request[w] = r
                        \/ caller[r] \notin {"start", "returned"}
      BY DEF NoLeak
    <3>1. r \in Pending \cup Leaving \/ caller[r] \notin {"start", "returned"}
      BY <2>0 DEF ExecInv, AsyncOK, SyncOK, CallerHolds, CallTypeOK, Request
    <3> QED
      BY <3>1 DEF Pending, Leaving, Elements
  <2>4. ResultIsThere
    BY DEF ExecInv, SyncOK, ResultIsThere
  <2> QED
    BY <2>1, <2>2, <2>3, <2>4 DEF ExecutorSafe
<1> QED
  BY <1>1, InitExecInv, NextExecInv, PTL DEF ExecSpec

-----------------------------------------------------------------------------
(* The asynchronous calls of the model.                                    *)

Queued == Elements(queue)
Taken == Elements(batch)

\* Where a context can be: each is in one place, and the three places hold all of
\* them.  While the worker runs the list and the library's connections agree.
PlacesInv ==
    /\ Distinct(queue) /\ Distinct(batch)
    /\ Queued \cap Taken = {} /\ Queued \cap active = {} /\ Taken \cap active = {}
    /\ contexts = Queued \cup Taken \cup active
    /\ batch # << >> => llmPc = "items"
    /\ llmPc # "exited" => conns = active /\ ~freed
    /\ llmPc = "exited" => active = {} /\ closing = {}
    /\ llmPc \in {"lastpoll", "exited"} => queue = << >> /\ ~llmRunning

\* A call has been called back once when its context is gone, and not before.
CallbackInv ==
    /\ sent \cap contexts = {}
    /\ \A c \in Calls : c \notin called \/ c \in contexts => results[c] = << >>
    /\ \A c \in called \ contexts : Len(results[c]) = 1

\* The invariant that is inductive.
LlmInv == LlmTypeOK /\ PlacesInv /\ CallbackInv /\ NoUseAfterFree

-----------------------------------------------------------------------------

ResultSeq == Seq({"answer", "error"})

\* A first callback is the only one.
LEMMA FirstCallback ==
    ASSUME NEW res \in {"answer", "error"}
    PROVE  /\ Append(<< >>, res) \in ResultSeq
           /\ Len(Append(<< >>, res)) = 1
  BY DEF ResultSeq

\* No call is under way at the start.
LEMMA InitLlmInv == LlmInit => LlmInv
<1> SUFFICES ASSUME LlmInit PROVE LlmInv
  OBVIOUS
<1>1. LlmTypeOK
  <2>1. results \in [Calls -> ResultSeq]
    BY DEF LlmInit, ResultSeq
  <2>2. queue \in Seq(Calls) /\ batch \in Seq(Calls)
    BY DEF LlmInit
  <2> QED
    BY <2>1, <2>2 DEF LlmInit, LlmTypeOK, ResultSeq
<1>2. PlacesInv
  BY EmptyHoldsNothing DEF LlmInit, PlacesInv, Queued, Taken
<1>3. CallbackInv
  BY DEF LlmInit, CallbackInv
<1> QED
  BY <1>1, <1>2, <1>3 DEF LlmInv, LlmInit, NoUseAfterFree

\* The calls of S are called back for the first time and their contexts are freed.
LEMMA CallBackAll ==
    ASSUME LlmInv, NEW S \in SUBSET Calls, NEW res \in {"answer", "error"},
           \A c \in S : results[c] = << >>,
           results' = [c \in Calls |-> IF c \in S THEN Append(results[c], res) ELSE results[c]],
           S \subseteq called', called \subseteq called', called' \subseteq Calls,
           \A c \in called' : c \in called \/ c \in S,
           contexts' = contexts \ S
    PROVE  /\ results' \in [Calls -> ResultSeq]
           /\ \A c \in Calls : c \notin called' \/ c \in contexts' => results'[c] = << >>
           /\ \A c \in called' \ contexts' : Len(results'[c]) = 1
<1>0. results \in [Calls -> ResultSeq]
  BY DEF LlmInv, LlmTypeOK, ResultSeq
<1>1. ASSUME NEW c \in Calls
      PROVE  /\ results'[c] \in ResultSeq
             /\ c \notin called' \/ c \in contexts' => results'[c] = << >>
             /\ c \in called' \ contexts' => Len(results'[c]) = 1
  <2>1. CASE c \in S
    <3>1. results'[c] = Append(<< >>, res)
      BY <2>1
    <3>2. results'[c] \in ResultSeq /\ Len(results'[c]) = 1
      BY <3>1, FirstCallback
    <3>3. c \in called' /\ c \notin contexts'
      BY <2>1
    <3> QED
      BY <3>2, <3>3
  <2>2. CASE c \notin S
    <3>1. results'[c] = results[c]
      BY <2>2
    <3> QED
      BY <1>0, <2>2, <3>1 DEF LlmInv, CallbackInv
  <2> QED
    BY <2>1, <2>2
<1>2. results' \in [Calls -> ResultSeq]
  BY <1>1
<1> QED
  BY <1>1, <1>2

\* The facts about a state that the steps need, taken from the invariant.
LEMMA LlmFacts ==
    ASSUME LlmInv
    PROVE  /\ queue \in Seq(Calls) /\ batch \in Seq(Calls)
           /\ Queued \subseteq called /\ Taken \subseteq called /\ called \subseteq Calls
           /\ \A c \in contexts : results[c] = << >>
           /\ results \in [Calls -> ResultSeq]
<1>1. contexts \subseteq called /\ called \subseteq Calls
  BY DEF LlmInv, LlmTypeOK
<1>2. Queued \subseteq called /\ Taken \subseteq called
  BY <1>1 DEF LlmInv, PlacesInv
<1>3. \A c \in contexts : results[c] = << >>
  BY <1>1 DEF LlmInv, CallbackInv
<1> QED
  BY <1>1, <1>2, <1>3 DEF LlmInv, LlmTypeOK, ResultSeq

\* A call is queued, or called back at once.
LEMMA CallAsyncInv ==
    ASSUME LlmInv, NEW c \in Calls, CallAsync(c)
    PROVE  LlmInv'
<1>0. /\ LlmTypeOK /\ PlacesInv /\ CallbackInv /\ NoUseAfterFree
      /\ queue \in Seq(Calls) /\ batch \in Seq(Calls) /\ results \in [Calls -> ResultSeq]
  BY LlmFacts DEF LlmInv
<1>1. /\ llmRunning /\ c \notin called /\ called' = called \cup {c}
      /\ UNCHANGED <<batch, llmRunning, llmPc, conns, closing, expired, active, sent, freed, faulty>>
  BY DEF CallAsync
<1>2. /\ c \notin contexts /\ c \notin Queued /\ c \notin Taken /\ c \notin active /\ c \notin sent
      /\ results[c] = << >> /\ Taken' = Taken
  <2>1. c \notin contexts /\ c \notin sent /\ c \notin active
    BY <1>0, <1>1 DEF LlmTypeOK
  <2>2. results[c] = << >>
    BY <1>0, <1>1 DEF CallbackInv
  <2>3. Taken' = Taken
    BY <1>1 DEF Taken
  <2> QED
    BY <1>0, <2>1, <2>2, <2>3 DEF PlacesInv
<1>3. NoUseAfterFree'
  BY <1>0, <1>1 DEF NoUseAfterFree
<1>4. CASE queue' = Append(queue, c) /\ contexts' = contexts \cup {c} /\ UNCHANGED results
  <2>1. queue' \in Seq(Calls) /\ Distinct(queue') /\ Queued' = Queued \cup {c}
    BY <1>0, <1>2, <1>4, AppendDistinct DEF PlacesInv, Queued
  <2>2. LlmTypeOK'
    BY <1>0, <1>1, <1>4, <2>1 DEF LlmTypeOK
  <2>3. PlacesInv'
    BY <1>0, <1>1, <1>2, <1>4, <2>1 DEF PlacesInv, LlmTypeOK
  <2>4. CallbackInv'
    BY <1>0, <1>1, <1>2, <1>4 DEF CallbackInv
  <2> QED
    BY <1>3, <2>2, <2>3, <2>4 DEF LlmInv
<1>5. CASE results' = CalledBack(c, "error") /\ UNCHANGED <<queue, contexts>>
  <2>1. results' = [x \in Calls |-> IF x \in {c} THEN Append(results[x], "error") ELSE results[x]]
    BY <1>0, <1>5 DEF CalledBack
  <2>2. contexts' = contexts \ {c}
    BY <1>2, <1>5
  <2>3. /\ results' \in [Calls -> ResultSeq]
        /\ \A x \in Calls : x \notin called' \/ x \in contexts' => results'[x] = << >>
        /\ \A x \in called' \ contexts' : Len(results'[x]) = 1
    <3>1. called' \subseteq Calls /\ called \subseteq called' /\ {c} \subseteq called'
          /\ \A x \in called' : x \in called \/ x \in {c}
      BY <1>0, <1>1 DEF LlmTypeOK
    <3>2. {c} \in SUBSET Calls /\ \A x \in {c} : results[x] = << >>
      BY <1>2
    <3> HIDE DEF LlmInv
    <3> QED
      BY <2>1, <2>2, <3>1, <3>2, CallBackAll
  <2>4. LlmTypeOK'
    BY <1>0, <1>1, <1>5, <2>3 DEF LlmTypeOK, ResultSeq
  <2>5. PlacesInv'
    BY <1>0, <1>1, <1>5 DEF PlacesInv, Queued, Taken
  <2>6. CallbackInv'
    BY <1>0, <1>1, <1>5, <2>3 DEF CallbackInv
  <2> QED
    BY <1>3, <2>4, <2>5, <2>6 DEF LlmInv
<1> QED
  BY <1>4, <1>5 DEF CallAsync

\* The steps that move contexts from one place to another, or only the worker.
LEMMA MoveInv ==
    ASSUME LlmInv, Dequeue \/ Connect \/ StartPoll \/ EndPoll \/ CheckTimeouts \/ Wait
    PROVE  LlmInv'
<1>0. /\ LlmTypeOK /\ PlacesInv /\ CallbackInv /\ NoUseAfterFree
      /\ queue \in Seq(Calls) /\ batch \in Seq(Calls)
      /\ Queued \subseteq called /\ Taken \subseteq called
  BY LlmFacts DEF LlmInv
<1>1. CASE Dequeue
  <2>1. batch = << >> /\ Taken = {} /\ Queued' = {} /\ Taken' = Queued /\ Distinct(<< >>)
    BY <1>0, <1>1, EmptyHoldsNothing DEF Dequeue, PlacesInv, Queued, Taken
  <2>2. LlmTypeOK'
    BY <1>0, <1>1 DEF Dequeue, LlmTypeOK
  <2>3. PlacesInv'
    BY <1>0, <1>1, <2>1 DEF Dequeue, PlacesInv
  <2>4. CallbackInv' /\ NoUseAfterFree'
    BY <1>0, <1>1 DEF Dequeue, CallbackInv, NoUseAfterFree
  <2> QED
    BY <2>2, <2>3, <2>4 DEF LlmInv
<1>2. CASE Connect
  <2>1. /\ batch' \in Seq(Calls) /\ Distinct(batch') /\ Head(batch) \in Taken
        /\ Taken' = Taken \ {Head(batch)} /\ Queued' = Queued
    BY <1>0, <1>2, TailDistinct DEF Connect, PlacesInv, Taken, Queued
  <2>2. LlmTypeOK'
    BY <1>0, <1>2, <2>1 DEF Connect, LlmTypeOK
  <2>3. PlacesInv'
    BY <1>0, <1>2, <2>1 DEF Connect, PlacesInv
  <2>4. CallbackInv' /\ NoUseAfterFree'
    BY <1>0, <1>2 DEF Connect, CallbackInv, NoUseAfterFree
  <2> QED
    BY <2>2, <2>3, <2>4 DEF LlmInv
<1>3. CASE StartPoll \/ EndPoll \/ Wait
  <2>1. /\ llmPc' \in {"poll", "timeouts", "top"} /\ llmPc \notin {"lastpoll", "exited"}
        /\ UNCHANGED <<called, queue, batch, llmRunning, conns, closing, expired, active,
                       contexts, sent, results, freed, faulty>>
        /\ batch = << >>
    BY <1>0, <1>3 DEF StartPoll, EndPoll, Wait, PlacesInv
  <2>2. LlmTypeOK'
    BY <1>0, <2>1 DEF LlmTypeOK
  <2>3. PlacesInv'
    BY <1>0, <2>1 DEF PlacesInv, Queued, Taken
  <2>4. CallbackInv' /\ NoUseAfterFree'
    BY <1>0, <2>1 DEF CallbackInv, NoUseAfterFree
  <2> QED
    BY <2>2, <2>3, <2>4 DEF LlmInv
<1>4. CASE CheckTimeouts
  <2>1. conns = active /\ active \subseteq contexts /\ ~freed /\ faulty' = FALSE /\ batch = << >>
    BY <1>0, <1>4 DEF CheckTimeouts, PlacesInv, NoUseAfterFree, LlmTypeOK
  <2>2. LlmTypeOK'
    BY <1>0, <1>4, <2>1 DEF CheckTimeouts, LlmTypeOK
  <2>3. PlacesInv'
    BY <1>0, <1>4, <2>1 DEF CheckTimeouts, PlacesInv, Queued, Taken
  <2>4. CallbackInv' /\ NoUseAfterFree'
    BY <1>0, <1>4, <2>1 DEF CheckTimeouts, CallbackInv, NoUseAfterFree
  <2> QED
    BY <2>2, <2>3, <2>4 DEF LlmInv
<1> QED
  BY <1>1, <1>2, <1>3, <1>4

\* A connection cannot be opened: the call is called back and its context freed.
LEMMA ConnectFailsInv ==
    ASSUME LlmInv, ConnectFails
    PROVE  LlmInv'
<1> DEFINE S == {Head(batch)}
<1>0. /\ LlmTypeOK /\ PlacesInv /\ CallbackInv /\ NoUseAfterFree
      /\ queue \in Seq(Calls) /\ batch \in Seq(Calls) /\ results \in [Calls -> ResultSeq]
      /\ Taken \subseteq called /\ called \subseteq Calls
      /\ \A c \in contexts : results[c] = << >>
  BY LlmFacts DEF LlmInv
<1>1. /\ batch' \in Seq(Calls) /\ Distinct(batch') /\ Head(batch) \in Taken
      /\ Taken' = Taken \ S /\ Queued' = Queued
  BY <1>0, TailDistinct DEF ConnectFails, PlacesInv, Taken, Queued
<1>2. S \subseteq contexts /\ S \subseteq Calls /\ S \subseteq called
  BY <1>0, <1>1 DEF PlacesInv
<1>3. results' = [x \in Calls |-> IF x \in S THEN Append(results[x], "error") ELSE results[x]]
  BY <1>0 DEF ConnectFails, CalledBack
<1>4. called' = called /\ contexts' = contexts \ S
  BY DEF ConnectFails
<1>5. /\ results' \in [Calls -> ResultSeq]
      /\ \A x \in Calls : x \notin called' \/ x \in contexts' => results'[x] = << >>
      /\ \A x \in called' \ contexts' : Len(results'[x]) = 1
  <2> HIDE DEF S, LlmInv
  <2> QED
    BY <1>0, <1>2, <1>3, <1>4, CallBackAll
<1>6. LlmTypeOK'
  BY <1>0, <1>1, <1>4, <1>5 DEF ConnectFails, LlmTypeOK, ResultSeq
<1>7. PlacesInv'
  BY <1>0, <1>1, <1>4 DEF ConnectFails, PlacesInv
<1>8. CallbackInv' /\ NoUseAfterFree'
  BY <1>0, <1>4, <1>5 DEF ConnectFails, CallbackInv, NoUseAfterFree
<1> QED
  BY <1>6, <1>7, <1>8 DEF LlmInv

\* A connection closes: the context leaves the list with its connection.
LEMMA CloseEventInv ==
    ASSUME LlmInv, NEW c \in conns, NEW res \in {"answer", "error"}, CloseEvent(c, res)
    PROVE  LlmInv'
<1>0. /\ LlmTypeOK /\ PlacesInv /\ CallbackInv /\ NoUseAfterFree
      /\ results \in [Calls -> ResultSeq] /\ called \subseteq Calls
      /\ \A x \in contexts : results[x] = << >>
  BY LlmFacts DEF LlmInv
<1>1. /\ c \in active /\ c \in contexts /\ c \in called /\ c \in Calls /\ c \notin sent
      /\ conns = active /\ ~freed
  BY <1>0 DEF CloseEvent, PlacesInv, CallbackInv, LlmTypeOK
<1>2. results' = [x \in Calls |-> IF x \in {c} THEN Append(results[x], res) ELSE results[x]]
  <2>1. {c} \ sent = {c}
    BY <1>1
  <2> QED
    BY <2>1 DEF CloseEvent, CallbackOnce
<1>3. /\ called' = called /\ contexts' = contexts \ {c} /\ sent' = sent \cup {c}
      /\ conns' = conns \ {c} /\ closing' = closing \ {c} /\ active' = active \ {c}
      /\ faulty' = FALSE
      /\ UNCHANGED <<queue, batch, llmRunning, llmPc, expired, freed>>
  BY <1>0, <1>1 DEF CloseEvent, CallbackOnce, NoUseAfterFree
<1>4. /\ results' \in [Calls -> ResultSeq]
      /\ \A x \in Calls : x \notin called' \/ x \in contexts' => results'[x] = << >>
      /\ \A x \in called' \ contexts' : Len(results'[x]) = 1
  <2>1. {c} \in SUBSET Calls /\ {c} \subseteq called' /\ \A x \in {c} : results[x] = << >>
    BY <1>0, <1>1, <1>3
  <2> HIDE DEF LlmInv
  <2> QED
    BY <1>0, <1>2, <1>3, <2>1, CallBackAll
<1>5. LlmTypeOK'
  BY <1>0, <1>1, <1>3, <1>4 DEF LlmTypeOK, ResultSeq
<1>6. PlacesInv'
  BY <1>0, <1>1, <1>3 DEF PlacesInv, Queued, Taken, CloseEvent
<1>7. CallbackInv' /\ NoUseAfterFree'
  BY <1>0, <1>3, <1>4 DEF CallbackInv, NoUseAfterFree
<1> QED
  BY <1>5, <1>6, <1>7 DEF LlmInv

\* The worker empties the queue on its way out.
LEMMA DrainInv ==
    ASSUME LlmInv, Drain
    PROVE  LlmInv'
<1>0. /\ LlmTypeOK /\ PlacesInv /\ CallbackInv /\ NoUseAfterFree
      /\ results \in [Calls -> ResultSeq] /\ called \subseteq Calls
      /\ Queued \subseteq called /\ queue \in Seq(Calls)
      /\ \A x \in contexts : results[x] = << >>
  BY LlmFacts DEF LlmInv
<1>1. /\ results' = [x \in Calls |-> IF x \in Queued THEN Append(results[x], "error") ELSE results[x]]
      /\ contexts' = contexts \ Queued
      /\ queue' = << >> /\ llmPc = "top" /\ ~llmRunning /\ llmPc' = "lastpoll"
      /\ UNCHANGED <<called, batch, llmRunning, conns, closing, expired, active, sent, freed, faulty>>
  BY DEF Drain, Queued, Elements
<1>2. batch = << >> /\ Taken = {} /\ Queued' = {} /\ Taken' = {} /\ Distinct(<< >>)
  BY <1>0, <1>1, EmptyHoldsNothing DEF PlacesInv, Taken, Queued
<1>3. /\ results' \in [Calls -> ResultSeq]
      /\ \A x \in Calls : x \notin called' \/ x \in contexts' => results'[x] = << >>
      /\ \A x \in called' \ contexts' : Len(results'[x]) = 1
  <2>1. Queued \in SUBSET Calls /\ Queued \subseteq called' /\ \A x \in Queued : results[x] = << >>
    BY <1>0, <1>1 DEF PlacesInv
  <2> HIDE DEF LlmInv
  <2> QED
    BY <1>0, <1>1, <2>1, CallBackAll
<1>4. LlmTypeOK'
  BY <1>0, <1>1, <1>3 DEF LlmTypeOK, ResultSeq
<1>5. PlacesInv'
  BY <1>0, <1>1, <1>2 DEF PlacesInv
<1>6. CallbackInv' /\ NoUseAfterFree'
  BY <1>0, <1>1, <1>3 DEF CallbackInv, NoUseAfterFree
<1> QED
  BY <1>4, <1>5, <1>6 DEF LlmInv

\* The worker leaves: the contexts on the list are called back, once, and freed.
LEMMA LeaveInv ==
    ASSUME LlmInv, Leave
    PROVE  LlmInv'
<1>0. /\ LlmTypeOK /\ PlacesInv /\ CallbackInv /\ NoUseAfterFree
      /\ results \in [Calls -> ResultSeq] /\ called \subseteq Calls
      /\ \A x \in contexts : results[x] = << >>
  BY LlmFacts DEF LlmInv
<1>1. /\ active \ sent = active /\ active \subseteq contexts /\ active \subseteq called
      /\ queue = << >> /\ ~llmRunning /\ ~freed
  BY <1>0 DEF Leave, PlacesInv, CallbackInv, LlmTypeOK
<1>2. /\ results' = [x \in Calls |-> IF x \in active THEN Append(results[x], "error") ELSE results[x]]
      /\ contexts' = contexts \ active /\ active' = {} /\ sent' = sent \cup active
      /\ faulty' = FALSE /\ closing = {} /\ llmPc' = "exited"
      /\ UNCHANGED <<called, queue, batch, llmRunning, conns, closing, expired, freed>>
  BY <1>0, <1>1 DEF Leave, CallbackOnce, NoUseAfterFree
<1>3. batch = << >>
  BY <1>0 DEF PlacesInv, Leave
<1>4. /\ results' \in [Calls -> ResultSeq]
      /\ \A x \in Calls : x \notin called' \/ x \in contexts' => results'[x] = << >>
      /\ \A x \in called' \ contexts' : Len(results'[x]) = 1
  <2>1. active \in SUBSET Calls /\ active \subseteq called' /\ \A x \in active : results[x] = << >>
    BY <1>0, <1>1, <1>2
  <2> HIDE DEF LlmInv
  <2> QED
    BY <1>0, <1>2, <2>1, CallBackAll
<1>5. LlmTypeOK'
  BY <1>0, <1>1, <1>2, <1>4 DEF LlmTypeOK, ResultSeq
<1>6. PlacesInv'
  BY <1>0, <1>1, <1>2, <1>3 DEF PlacesInv, Queued, Taken
<1>7. CallbackInv' /\ NoUseAfterFree'
  BY <1>0, <1>2, <1>4 DEF CallbackInv, NoUseAfterFree
<1> QED
  BY <1>5, <1>6, <1>7 DEF LlmInv

\* Every step of callers, worker and library preserves the inductive invariant.
LEMMA NextLlmInv == LlmInv /\ [LlmNext]_llmVars => LlmInv'
<1> SUFFICES ASSUME LlmInv, [LlmNext]_llmVars PROVE LlmInv'
  OBVIOUS
<1>0. LlmTypeOK /\ PlacesInv /\ CallbackInv /\ NoUseAfterFree
  BY DEF LlmInv
<1>1. ASSUME NEW c \in Calls, CallAsync(c) PROVE LlmInv'
  BY <1>1, CallAsyncInv
<1>2. ASSUME NEW c \in Calls, Expire(c) PROVE LlmInv'
  <2>1. LlmTypeOK'
    BY <1>0, <1>2 DEF Expire, LlmTypeOK
  <2>2. PlacesInv' /\ CallbackInv' /\ NoUseAfterFree'
    BY <1>0, <1>2 DEF Expire, PlacesInv, CallbackInv, NoUseAfterFree, Queued, Taken
  <2> QED
    BY <2>1, <2>2 DEF LlmInv
<1>3. CASE Stop
  <2>1. LlmTypeOK'
    BY <1>0, <1>3 DEF Stop, LlmTypeOK
  <2>2. PlacesInv' /\ CallbackInv' /\ NoUseAfterFree'
    BY <1>0, <1>3 DEF Stop, PlacesInv, CallbackInv, NoUseAfterFree, Queued, Taken
  <2> QED
    BY <2>1, <2>2 DEF LlmInv
<1>4. CASE LlmWorker
  BY <1>4, MoveInv, ConnectFailsInv, DrainInv, LeaveInv DEF LlmWorker
<1>5. CASE Poll
  BY <1>5, CloseEventInv DEF Poll
<1>6. CASE FreeManager
  <2>1. /\ llmPc = "exited" /\ active = {} /\ closing = {} /\ queue = << >> /\ batch = << >>
        /\ contexts = {} /\ contexts' = {} /\ conns' = {} /\ freed' = TRUE
        /\ faulty' \in BOOLEAN
        /\ UNCHANGED <<called, queue, batch, llmRunning, llmPc, closing, expired, active, sent, results>>
    BY <1>0, <1>6, EmptyHoldsNothing DEF FreeManager, PlacesInv, Queued, Taken
  <2>2. LlmTypeOK'
    BY <1>0, <2>1 DEF LlmTypeOK
  <2>3. PlacesInv'
    BY <1>0, <2>1 DEF PlacesInv, Queued, Taken
  <2>4. CallbackInv' /\ NoUseAfterFree'
    BY <1>0, <2>1 DEF CallbackInv, NoUseAfterFree
  <2> QED
    BY <2>2, <2>3, <2>4 DEF LlmInv
<1>7. CASE UNCHANGED llmVars
  <2>1. LlmTypeOK'
    BY <1>0, <1>7 DEF llmVars, LlmTypeOK
  <2>2. PlacesInv' /\ CallbackInv' /\ NoUseAfterFree'
    BY <1>0, <1>7 DEF llmVars, PlacesInv, CallbackInv, NoUseAfterFree, Queued, Taken
  <2> QED
    BY <2>1, <2>2 DEF LlmInv
<1> QED
  BY <1>1, <1>2, <1>3, <1>4, <1>5, <1>6, <1>7 DEF LlmNext, Gone

\* Every variable of the asynchronous calls keeps its type.
THEOREM LlmTypeCorrect == LlmSpec => []LlmTypeOK
<1>1. LlmInv => LlmTypeOK
  BY DEF LlmInv
<1> QED
  BY <1>1, InitLlmInv, NextLlmInv, PTL DEF LlmSpec

\* Each call is called back at most once and its context is in one place until then,
\* and no freed context is used before the manager is freed: for any number of calls,
\* in every order of answers, network errors, time limits and shutdown.
THEOREM LlmIsSafe == LlmSpec => []LlmSafe
<1>1. LlmInv => LlmSafe
  <2> SUFFICES ASSUME LlmInv PROVE LlmSafe
    OBVIOUS
  <2>1. NoUseAfterFree
    BY DEF LlmInv
  <2>2. OneCallback
    <3> SUFFICES ASSUME NEW c \in called
                 PROVE  LET queued == \E i \in 1..Len(queue) : queue[i] = c
                            taken == \E i \in 1..Len(batch) : batch[i] = c
                        IN  IF results[c] = << >>
                            THEN /\ c \in contexts
                                 /\ \/ queued /\ ~taken /\ c \notin active
                                    \/ ~queued /\ taken /\ c \notin active
                                    \/ ~queued /\ ~taken /\ c \in active
                                 /\ c \in active <=> c \in conns
                            ELSE /\ Len(results[c]) = 1 /\ ~queued /\ ~taken
                                 /\ c \notin active \cup contexts
      BY DEF OneCallback
    <3> DEFINE queued == \E i \in 1..Len(queue) : queue[i] = c
               taken == \E i \in 1..Len(batch) : batch[i] = c
    <3>1. (queued <=> c \in Queued) /\ (taken <=> c \in Taken)
      BY DEF Queued, Taken, Elements
    <3>2. c \in Calls /\ results[c] \in ResultSeq
      BY LlmFacts
    <3> HIDE DEF queued, taken
    <3>3. CASE results[c] = << >>
      <4>1. c \in contexts
        BY <3>2, <3>3 DEF LlmInv, CallbackInv
      <4>2. \/ queued /\ ~taken /\ c \notin active
            \/ ~queued /\ taken /\ c \notin active
            \/ ~queued /\ ~taken /\ c \in active
        BY <3>1, <4>1 DEF LlmInv, PlacesInv
      <4>3. c \in active <=> c \in conns
        <5>1. llmPc # "exited"
          BY <4>1, EmptyHoldsNothing DEF LlmInv, PlacesInv, Queued, Taken
        <5> QED
          BY <5>1 DEF LlmInv, PlacesInv
      <4> QED
        BY <3>3, <4>1, <4>2, <4>3 DEF queued, taken
    <3>4. CASE results[c] # << >>
      <4>1. c \notin contexts
        BY <3>2, <3>4 DEF LlmInv, CallbackInv
      <4>2. Len(results[c]) = 1
        BY <4>1 DEF LlmInv, CallbackInv
      <4>3. ~queued /\ ~taken /\ c \notin active
        BY <3>1, <4>1 DEF LlmInv, PlacesInv
      <4> QED
        BY <3>4, <4>1, <4>2, <4>3 DEF queued, taken
    <3> QED
      BY <3>3, <3>4 DEF queued, taken
  <2> QED
    BY <2>1, <2>2 DEF LlmSafe
<1> QED
  BY <1>1, InitLlmInv, NextLlmInv, PTL DEF LlmSpec


-----------------------------------------------------------------------------
(* The cron service: the inductive invariant.                              *)

\* A node of the list, and one call of the callback.
Jobs == [name : Names \cup {""}, schedule : Schedules \cup {""}, version : Nat, next : Nat]
Firing == [node : Node, version : Nat, due : Nat]

\* The types; no node is in the list twice.
CronTypes ==
    /\ list \in Seq(Node) /\ Distinct(list)
    /\ job \in [Node -> Jobs]
    /\ clock \in Nat /\ now \in Nat /\ now <= clock
    /\ pc \in {"top", "walk", "callback", "sleep", "exited"}
    /\ current \in Node \cup {Null} /\ prev \in Node \cup {Null}
    /\ calls \in Nat /\ calls <= MaxCalls
    /\ changed \subseteq {"add", "remove"} /\ clashed \subseteq {"add", "remove"}
    /\ accepted \in [Node -> [schedule : Schedules \cup {""}, version : Nat]]
    /\ fired \in Seq(Firing)

\* The nodes of the list, and those of the file.
Listed == Elements(list)

\* Nodes and versions are numbers of calls so far; the node of a call to come is not used.
NumberInv ==
    /\ \A n \in Listed : n <= calls
    /\ \A n \in Node : job[n].version <= calls
    /\ \A i \in 1..Len(fired) : fired[i].version <= calls /\ fired[i].due <= now

\* Node p comes before node n in l.
Before(l, p, n) == \E i, j \in 1..Len(l) : i < j /\ l[i] = p /\ l[j] = n

\* The worker has the list to itself, or nothing was taken from it since it fired.
Undisturbed == pc = "walk" \/ (pc = "callback" /\ "remove" \notin changed)

\* The worker walks the list: where it is, and the node before, are in it and in this order,
\* unless a job was removed during a callback that unlinked one; without a node before it the
\* worker is at the head.
WalkInv ==
    /\ pc = "walk" => current \in Listed \cup {Null}
    /\ pc = "callback" => current # Null
    /\ "remove" \notin clashed => ~dangling
    /\ "remove" \notin clashed /\ Undisturbed =>
         /\ current \in Listed \cup {Null} /\ prev \in Listed \cup {Null}
         /\ prev # Null /\ current # Null => Before(list, prev, current)
    /\ prev = Null /\ current \in Listed /\ (pc = "walk" \/ (pc = "callback" /\ changed = {})) =>
         list[1] = current

\* The job that is firing: the callback has it as it is in the list, unless that has changed.
FiringInv ==
    pc = "callback" /\ changed = {} => HasFired(current, job[current].version)

\* A listed job fired for earlier times than the one it is due at; only the one that is firing
\* fired for that time too.
DueInv ==
    "remove" \notin clashed => \A i \in 1..Len(fired) :
        fired[i].node \in Listed /\ fired[i].version = job[fired[i].node].version
            /\ ~(pc = "callback" /\ fired[i].node = current)
            => fired[i].due < job[fired[i].node].next

\* What the callers were told is what the list has.
ToldInv ==
    \A n \in Listed : job[n].schedule # "bad" =>
        accepted[n].schedule = job[n].schedule /\ accepted[n].version = job[n].version

Stored == {store[i].node : i \in 1..Len(store)}

\* Promised jobs are in the list and in the file.
KeptInv == clashed = {} => Promised \subseteq Listed \cap Stored

CronInv ==
    /\ CronTypes /\ NumberInv /\ WalkInv /\ FiringInv /\ DueInv /\ ToldInv /\ KeptInv
    /\ FiresOncePerDueTime

-----------------------------------------------------------------------------
(* What the operations do to the list of jobs.                             *)

\* A node of the list has a place.
LEMMA PlaceIsIn ==
    ASSUME NEW S, NEW l \in Seq(S), NEW n \in Elements(l)
    PROVE  Place(l, n) \in 1..Len(l) /\ l[Place(l, n)] = n
<1>1. \E i \in 1..Len(l) : l[i] = n
  BY DEF Elements
<1> QED
  BY <1>1 DEF Place

\* A new first node.
LEMMA LinkFirst ==
    ASSUME NEW S, NEW l \in Seq(S), NEW n \in S
    PROVE  LET t == <<n>> \o l
           IN  /\ t \in Seq(S) /\ Elements(t) = Elements(l) \cup {n} /\ t[1] = n
               /\ Distinct(l) /\ n \notin Elements(l) => Distinct(t)
<1> DEFINE t == <<n>> \o l
<1>1. <<n>> \in Seq(S) /\ Len(<<n>>) = 1 /\ <<n>>[1] = n /\ Len(l) \in Nat
  OBVIOUS
<1>2. /\ t \in Seq(S) /\ Len(t) = 1 + Len(l)
      /\ \A i \in 1..1 + Len(l) : t[i] = IF i <= 1 THEN <<n>>[i] ELSE l[i - 1]
  BY <1>1, ConcatProperties
<1> HIDE DEF t
<1>3. /\ 1 \in 1..Len(t) /\ \A i \in 1..Len(t) : i = 1 \/ i - 1 \in 1..Len(l)
      /\ \A i \in 1..Len(l) : i + 1 \in 1..Len(t) /\ i + 1 # 1 /\ (i + 1) - 1 = i
  BY <1>1, <1>2
<1>4. t[1] = n /\ \A i \in 1..Len(t) : i # 1 => t[i] = l[i - 1]
  BY <1>1, <1>2, <1>3
<1>5. Elements(t) \subseteq Elements(l) \cup {n}
  BY <1>3, <1>4 DEF Elements
<1>6. ASSUME NEW y \in Elements(l) PROVE y \in Elements(t)
  <2>1. PICK i \in 1..Len(l) : y = l[i]
    BY DEF Elements
  <2>2. t[i + 1] = y /\ i + 1 \in 1..Len(t)
    BY <1>3, <1>4, <2>1
  <2> QED
    BY <2>2 DEF Elements
<1>7. n \in Elements(t)
  BY <1>3, <1>4 DEF Elements
<1>8. ASSUME Distinct(l), n \notin Elements(l), NEW i \in 1..Len(t), NEW j \in 1..Len(t),
             t[i] = t[j]
      PROVE  i = j
  <2>1. ASSUME NEW k \in 1..Len(t), k # 1 PROVE t[k] # n /\ t[k] = l[k - 1] /\ k - 1 \in 1..Len(l)
    BY <1>3, <1>4, <1>8, <2>1 DEF Elements
  <2>2. CASE i = 1 \/ j = 1
    BY <1>4, <1>8, <2>1, <2>2
  <2>3. CASE i # 1 /\ j # 1
    <3>1. i - 1 = j - 1
      BY <1>8, <2>1, <2>3 DEF Distinct
    <3> QED
      BY <3>1
  <2> QED
    BY <2>2, <2>3
<1>9. Distinct(l) /\ n \notin Elements(l) => Distinct(t)
  BY <1>8 DEF Distinct
<1> QED
  BY <1>2, <1>4, <1>5, <1>6, <1>7, <1>9 DEF t

\* The nodes behind place k, and the list without place k.
LEMMA Behind ==
    ASSUME NEW S, NEW l \in Seq(S), NEW k \in 1..Len(l)
    PROVE  LET t == SubSeq(l, k + 1, Len(l))
               w == SubSeq(l, 1, k - 1) \o t
           IN  /\ t \in Seq(S) /\ Len(t) = Len(l) - k /\ \A i \in 1..Len(t) : t[i] = l[k + i]
               /\ w \in Seq(S) /\ Len(w) = Len(l) - 1
               /\ \A i \in 1..Len(w) : w[i] = IF i < k THEN l[i] ELSE l[i + 1]
<1> DEFINE t == SubSeq(l, k + 1, Len(l))
           h == SubSeq(l, 1, k - 1)
           w == h \o t
<1>0. Len(l) \in Nat /\ k \in Nat /\ 1 <= k /\ k <= Len(l) /\ k + 1 \in Int /\ k - 1 \in Int
      /\ 1 \in Int
      /\ Len(l) \in Int
  OBVIOUS
<1>1. /\ t \in Seq(S) /\ Len(t) = IF k + 1 <= Len(l) THEN Len(l) - (k + 1) + 1 ELSE 0
      /\ \A i \in 1..Len(l) - (k + 1) + 1 : t[i] = l[k + 1 + i - 1]
  <2>1. \A i \in k + 1..Len(l) : l[i] \in S
    BY <1>0
  <2> QED
    BY <1>0, <2>1, SubSeqProperties
<1>2. /\ h \in Seq(S) /\ Len(h) = IF 1 <= k - 1 THEN k - 1 - 1 + 1 ELSE 0
      /\ \A i \in 1..k - 1 - 1 + 1 : h[i] = l[1 + i - 1]
  <2>1. \A i \in 1..k - 1 : l[i] \in S
    BY <1>0
  <2> QED
    BY <1>0, <2>1, SubSeqProperties
<1>3. /\ w \in Seq(S) /\ Len(w) = Len(h) + Len(t)
      /\ \A i \in 1..Len(h) + Len(t) : w[i] = IF i <= Len(h) THEN h[i] ELSE t[i - Len(h)]
  BY <1>1, <1>2, ConcatProperties
<1> HIDE DEF t, h, w
<1>4. Len(t) = Len(l) - k /\ \A i \in 1..Len(t) : t[i] = l[k + i]
  <2>1. Len(t) = Len(l) - k
    BY <1>0, <1>1
  <2>2. \A i \in 1..Len(t) : i \in 1..Len(l) - (k + 1) + 1 /\ k + 1 + i - 1 = k + i
    BY <1>0, <2>1
  <2> QED
    BY <1>1, <2>1, <2>2
<1>5. Len(h) = k - 1 /\ \A i \in 1..k - 1 : h[i] = l[i]
  <2>1. \A i \in 1..k - 1 : i \in 1..k - 1 - 1 + 1 /\ 1 + i - 1 = i
    BY <1>0
  <2> QED
    BY <1>0, <1>2, <2>1
<1>6. Len(w) = Len(l) - 1
  BY <1>0, <1>3, <1>4, <1>5
<1>7. ASSUME NEW i \in 1..Len(w) PROVE w[i] = IF i < k THEN l[i] ELSE l[i + 1]
  <2>1. i \in 1..Len(h) + Len(t)
    BY <1>3
  <2>2. CASE i < k
    <3>1. i <= Len(h) /\ i \in 1..k - 1
      BY <1>0, <1>5, <2>2
    <3> QED
      BY <1>3, <1>5, <2>1, <2>2, <3>1
  <2>3. CASE ~(i < k)
    <3>1. ~(i <= Len(h)) /\ i - Len(h) \in 1..Len(t) /\ k + (i - Len(h)) = i + 1
      <4>1. Len(t) = Len(l) - k /\ Len(h) = k - 1 /\ Len(w) = Len(l) - 1
        BY <1>4, <1>5, <1>6
      <4>2. i \in Nat /\ 1 <= i /\ i <= Len(w)
        BY <1>0, <4>1
      <4> QED
        BY ONLY <1>0, <2>3, <4>1, <4>2
    <3>2. w[i] = t[i - Len(h)]
      BY <1>3, <2>1, <3>1
    <3>3. t[i - Len(h)] = l[k + (i - Len(h))]
      BY <1>4, <3>1
    <3> QED
      BY <2>3, <3>1, <3>2, <3>3
  <2> QED
    BY <2>2, <2>3
<1> QED
  BY <1>1, <1>3, <1>4, <1>6, <1>7 DEF t, h, w

\* Unlinking a node: both ways leave others of the list, and the node behind it, if any.
LEMMA UnlinkFacts ==
    ASSUME NEW l \in Seq(Node), Distinct(l), NEW n \in Elements(l)
    PROVE  LET t == SubSeq(l, Place(l, n) + 1, Len(l))
               w == Without(l, n)
           IN  /\ t \in Seq(Node) /\ Distinct(t) /\ Elements(t) \subseteq Elements(l) \ {n}
               /\ l[1] = n => Elements(t) = Elements(l) \ {n}
               /\ w \in Seq(Node) /\ Distinct(w) /\ Elements(w) = Elements(l) \ {n}
               /\ After(l, n) = Null \/ (After(l, n) \in Elements(t) /\ t[1] = After(l, n))
<1> DEFINE k == Place(l, n)
           t == SubSeq(l, k + 1, Len(l))
           w == SubSeq(l, 1, k - 1) \o t
<1>1. k \in 1..Len(l) /\ l[k] = n
  BY PlaceIsIn
<1> HIDE DEF k
<1>2. /\ t \in Seq(Node) /\ Len(t) = Len(l) - k /\ \A i \in 1..Len(t) : t[i] = l[k + i]
      /\ w \in Seq(Node) /\ Len(w) = Len(l) - 1
      /\ \A i \in 1..Len(w) : w[i] = IF i < k THEN l[i] ELSE l[i + 1]
  BY <1>1, Behind
<1> HIDE DEF t, w
<1>3. /\ Len(l) \in Nat /\ k \in Nat
      /\ \A i \in 1..Len(t) : k + i \in 1..Len(l) /\ k + i # k
      /\ \A i \in 1..Len(l) : i = k \/ (i < k /\ i \in 1..Len(w))
                              \/ (~(i < k) /\ i - 1 \in 1..Len(w) /\ ~(i - 1 < k) /\ (i - 1) + 1 = i)
      /\ \A i \in 1..Len(w) : IF i < k THEN i \in 1..Len(l) /\ i # k
                              ELSE i + 1 \in 1..Len(l) /\ i + 1 # k
  BY <1>1, <1>2
<1>4. Elements(t) \subseteq Elements(l) \ {n}
  BY <1>1, <1>2, <1>3 DEF Elements, Distinct
<1>5. Elements(w) \subseteq Elements(l) \ {n}
  BY <1>1, <1>2, <1>3 DEF Elements, Distinct
<1>6. Distinct(t)
  <2> SUFFICES ASSUME NEW i \in 1..Len(t), NEW j \in 1..Len(t), t[i] = t[j] PROVE i = j
    BY DEF Distinct
  <2>1. k + i = k + j
    BY <1>2, <1>3 DEF Distinct
  <2> QED
    BY <1>3, <2>1
<1>7. Distinct(w)
  <2> SUFFICES ASSUME NEW i \in 1..Len(w), NEW j \in 1..Len(w), w[i] = w[j] PROVE i = j
    BY DEF Distinct
  <2> DEFINE At(m) == IF m < k THEN m ELSE m + 1
  <2>1. w[i] = l[At(i)] /\ w[j] = l[At(j)] /\ At(i) \in 1..Len(l) /\ At(j) \in 1..Len(l)
    BY <1>2, <1>3
  <2>2. At(i) = At(j)
    BY <2>1 DEF Distinct
  <2> QED
    BY <1>3, <2>2
<1>8. ASSUME NEW y \in Elements(l), y # n PROVE y \in Elements(w)
  <2>1. PICK i \in 1..Len(l) : y = l[i]
    BY DEF Elements
  <2>2. CASE i < k /\ i \in 1..Len(w)
    BY <1>2, <2>1, <2>2 DEF Elements
  <2>3. CASE ~(i < k) /\ i - 1 \in 1..Len(w) /\ ~(i - 1 < k) /\ (i - 1) + 1 = i
    <3>1. w[i - 1] = y
      BY <1>2, <2>1, <2>3
    <3> QED
      BY <2>3, <3>1 DEF Elements
  <2> QED
    BY <1>1, <1>3, <1>8, <2>1, <2>2, <2>3
<1>9. ASSUME l[1] = n, NEW y \in Elements(l), y # n PROVE y \in Elements(t)
  <2>1. PICK i \in 1..Len(l) : y = l[i]
    BY DEF Elements
  <2>2. k = 1
    <3>1. 1 \in 1..Len(l)
      BY <1>1, <1>3
    <3> QED
      BY <1>1, <1>9, <3>1 DEF Distinct
  <2>3. i - 1 \in 1..Len(t) /\ k + (i - 1) = i
    BY <1>1, <1>2, <1>3, <1>9, <2>1, <2>2
  <2>4. t[i - 1] = y
    BY <1>2, <2>1, <2>3
  <2> QED
    BY <2>3, <2>4 DEF Elements
<1>10. After(l, n) = Null \/ (After(l, n) \in Elements(t) /\ t[1] = After(l, n))
  <2>1. CASE k = Len(l)
    BY <2>1 DEF After, k
  <2>2. CASE k # Len(l)
    <3>1. After(l, n) = l[k + 1]
      BY <2>2 DEF After, k
    <3>2. 1 \in 1..Len(t)
      BY <1>1, <1>2, <1>3, <2>2
    <3> QED
      BY <1>2, <3>1, <3>2 DEF Elements
  <2> QED
    BY <2>1, <2>2
<1> QED
  BY <1>2, <1>4, <1>5, <1>6, <1>7, <1>8, <1>9, <1>10 DEF t, w, k, Without

\* Order in the list: a new first node keeps it, the node behind n comes after n, and after
\* whatever is before n, also when n is gone.
LEMMA OrderFacts ==
    ASSUME NEW l \in Seq(Node), Distinct(l), NEW p
    PROVE  /\ \A m \in Node : \A n : Before(l, p, n) => Before(<<m>> \o l, p, n)
           /\ \A n : Before(l, p, n) => p # n /\ p \in Elements(l) /\ n \in Elements(l)
           /\ p \in Elements(l) /\ After(l, p) # Null => Before(l, p, After(l, p))
           /\ \A n : Before(l, p, n) /\ After(l, n) # Null => Before(Without(l, n), p, After(l, n))
<1>0. Len(l) \in Nat
  OBVIOUS
<1>1. ASSUME NEW m \in Node, NEW n, Before(l, p, n) PROVE Before(<<m>> \o l, p, n)
  <2> DEFINE t == <<m>> \o l
  <2>1. PICK i \in 1..Len(l), j \in 1..Len(l) : i < j /\ l[i] = p /\ l[j] = n
    BY <1>1 DEF Before
  <2>2. <<m>> \in Seq(Node) /\ Len(<<m>>) = 1
    OBVIOUS
  <2>3. Len(t) = 1 + Len(l) /\ \A k \in 1..1 + Len(l) : t[k] = IF k <= 1 THEN <<m>>[k] ELSE l[k - 1]
    BY <2>2, ConcatProperties
  <2> HIDE DEF t
  <2>4. /\ i + 1 \in 1..Len(t) /\ j + 1 \in 1..Len(t) /\ i + 1 < j + 1
        /\ ~(i + 1 <= 1) /\ ~(j + 1 <= 1) /\ (i + 1) - 1 = i /\ (j + 1) - 1 = j
    BY <1>0, <2>1, <2>3
  <2>5. t[i + 1] = p /\ t[j + 1] = n
    BY <2>1, <2>3, <2>4
  <2>6. Before(t, p, n)
    BY <2>4, <2>5 DEF Before
  <2> QED
    BY <2>6 DEF t
<1>2. ASSUME NEW n, Before(l, p, n) PROVE p # n /\ p \in Elements(l) /\ n \in Elements(l)
  <2>1. PICK i \in 1..Len(l), j \in 1..Len(l) : i < j /\ l[i] = p /\ l[j] = n
    BY <1>2 DEF Before
  <2>2. i # j
    BY <2>1
  <2> QED
    BY <2>1, <2>2 DEF Elements, Distinct
<1>3. ASSUME p \in Elements(l), After(l, p) # Null PROVE Before(l, p, After(l, p))
  <2>1. Place(l, p) \in 1..Len(l) /\ l[Place(l, p)] = p
    BY <1>3, PlaceIsIn
  <2>2. Place(l, p) # Len(l) /\ After(l, p) = l[Place(l, p) + 1]
    BY <1>3 DEF After
  <2>3. Place(l, p) + 1 \in 1..Len(l) /\ Place(l, p) < Place(l, p) + 1
    BY <1>0, <2>1, <2>2
  <2> QED
    BY <2>1, <2>2, <2>3 DEF Before
<1>4. ASSUME NEW n, Before(l, p, n), After(l, n) # Null
      PROVE  Before(Without(l, n), p, After(l, n))
  <2> DEFINE k == Place(l, n)
             w == SubSeq(l, 1, k - 1) \o SubSeq(l, k + 1, Len(l))
  <2>1. PICK i \in 1..Len(l), j \in 1..Len(l) : i < j /\ l[i] = p /\ l[j] = n
    BY <1>4 DEF Before
  <2>2. n \in Elements(l)
    BY <1>2, <1>4
  <2>3. k \in 1..Len(l) /\ l[k] = n
    BY <2>2, PlaceIsIn
  <2>4. k # Len(l) /\ After(l, n) = l[k + 1]
    BY <1>4 DEF After
  <2> HIDE DEF k
  <2>5. k = j
    BY <2>1, <2>3 DEF Distinct
  <2>6. Len(w) = Len(l) - 1 /\ \A m \in 1..Len(w) : w[m] = IF m < k THEN l[m] ELSE l[m + 1]
    BY <2>3, Behind
  <2> HIDE DEF w
  <2>7. i \in 1..Len(w) /\ k \in 1..Len(w) /\ i < k /\ ~(k < k)
    <3>1. k < Len(l) /\ i < k /\ k \in Nat /\ 1 <= k
      BY <1>0, <2>1, <2>3, <2>4, <2>5
    <3>2. Len(w) = Len(l) - 1
      BY <2>6
    <3> QED
      BY ONLY <1>0, <3>1, <3>2, i \in 1..Len(l)
  <2>8. w[i] = p /\ w[k] = After(l, n)
    BY <2>1, <2>4, <2>6, <2>7
  <2>9. Before(w, p, After(l, n))
    BY <2>7, <2>8 DEF Before
  <2> QED
    BY <2>9 DEF w, k, Without
<1> QED
  BY <1>1, <1>2, <1>3, <1>4

\* The types, one by one.
LEMMA CronTyped ==
    ASSUME CronTypes
    PROVE  /\ list \in Seq(Node) /\ fired \in Seq(Firing)
           /\ \A i \in 1..Len(fired) : fired[i] \in Firing
           /\ calls \in Nat /\ calls <= MaxCalls /\ clock \in Nat /\ now \in Nat /\ now <= clock
           /\ \A n \in Node : job[n] \in Jobs
<1>1. list \in Seq(Node) /\ fired \in Seq(Firing) /\ job \in [Node -> Jobs]
  BY DEF CronTypes
<1>2. calls \in Nat /\ calls <= MaxCalls /\ clock \in Nat /\ now \in Nat /\ now <= clock
  BY DEF CronTypes
<1>3. \A i \in 1..Len(fired) : fired[i] \in Firing
  BY <1>1
<1> QED
  BY <1>1, <1>2, <1>3

\* What save_jobs writes: the nodes of the list.
LEMMA SavedNodes ==
    ASSUME NEW l \in Seq(Node), NEW j
    PROVE  {Saved(l, j)[i].node : i \in 1..Len(Saved(l, j))} = Elements(l)
<1> DEFINE s == Saved(l, j)
<1>1. Len(s) = Len(l) /\ \A i \in 1..Len(l) : s[i].node = l[i]
  BY DEF Saved
<1> HIDE DEF s
<1>2. {s[i].node : i \in 1..Len(s)} = Elements(l)
  BY <1>1 DEF Elements
<1> QED
  BY <1>2 DEF s

\* The list as a set.
LEMMA ListedIs ==
    ASSUME CronTypes
    PROVE  /\ \A n : Contains(list, n) <=> n \in Listed
           /\ ToSet(list) = Listed /\ Listed \subseteq Node /\ Null \notin Listed
           /\ list # << >> => list[1] \in Listed
<1>0. list \in Seq(Node)
  BY DEF CronTypes
<1>1. DOMAIN list = 1..Len(list) /\ \A i \in 1..Len(list) : list[i] \in Node
  BY <1>0
<1>2. list # << >> => 1 \in 1..Len(list)
  BY <1>0
<1>3. Null \notin Node
  BY DEF Null, Node
<1> QED
  BY <1>1, <1>2, <1>3 DEF Contains, ToSet, Listed, Elements

-----------------------------------------------------------------------------
(* The calls of the service.                                               *)

\* cron_service_add_job for a name that is listed.  The job is one of the list and has a
\* version that never fired.
LEMMA StepUpdate ==
    ASSUME CronInv, NEW name \in Names, NEW schedule \in Schedules, MutexFree,
           calls < MaxCalls, calls' = calls + 1, Update(name, schedule), Noted("add"),
           UNCHANGED <<clock, running>>, UNCHANGED workerVars
    PROVE  CronInv'
<1>0. CronTypes /\ NumberInv /\ WalkInv /\ FiringInv /\ DueInv /\ ToldInv /\ KeptInv
      /\ FiresOncePerDueTime
  BY DEF CronInv
<1> DEFINE first == CHOOSE i \in Named(name) : \A h \in Named(name) : i <= h
           n == list[first]
           v == calls + 1
           new == [name |-> job[n].name, schedule |-> schedule, version |-> v,
                   next |-> IF schedule = "bad" THEN job[n].next ELSE NextRun(clock)]
<1>1. n \in Listed /\ n \in Node
  <2>1. Named(name) # {} /\ Named(name) \subseteq 1..Len(list)
    BY DEF Update, Named
  <2>3. Named(name) \subseteq Nat
    BY <2>1
  <2>2. first \in Named(name)
    BY <2>1, <2>3, LeastNumber
  <2> HIDE DEF first
  <2> QED
    BY <1>0, <2>1, <2>2, ListedIs DEF Listed, Elements
<1>2. /\ job' = [job EXCEPT ![n] = new] /\ list' = list
      /\ schedule = "bad" => UNCHANGED <<store, accepted>>
      /\ schedule # "bad" =>
           /\ store' = Saved(list, job')
           /\ accepted' = [accepted EXCEPT ![n] = [schedule |-> schedule, version |-> v]]
  BY DEF Update
<1> HIDE DEF first, n
<1>3. calls \in Nat /\ v \in Nat /\ v <= MaxCalls /\ calls < v /\ calls' = v
  <2>1. calls \in Nat /\ MaxCalls \in Nat
    BY <1>0, CronTyped, CronAssumption
  <2> QED
    BY <2>1
<1> HIDE DEF v
<1>22. /\ job \in [Node -> Jobs] /\ job[n] \in Jobs
       /\ accepted \in [Node -> [schedule : Schedules \cup {""}, version : Nat]]
  BY <1>0, <1>1 DEF CronTypes
<1>4. new \in Jobs
  <2>1. NextRun(clock) \in Nat
    BY <1>0, CronTyped DEF NextRun
  <2> QED
    BY <1>3, <1>22, <2>1 DEF Jobs
<1>5. new.version = v /\ new.schedule = schedule
  OBVIOUS
<1> HIDE DEF new
<1>6. /\ job' \in [Node -> Jobs] /\ job'[n] = new
      /\ \A m \in Node : m # n => job'[m] = job[m]
  BY <1>1, <1>2, <1>4, <1>22
<1>7. /\ accepted' \in [Node -> [schedule : Schedules \cup {""}, version : Nat]]
      /\ \A m \in Node : m # n => accepted'[m] = accepted[m]
      /\ schedule # "bad" => accepted'[n].schedule = schedule /\ accepted'[n].version = v
  <2>1. [schedule |-> schedule, version |-> v] \in [schedule : Schedules \cup {""}, version : Nat]
    BY <1>3
  <2>2. CASE schedule = "bad"
    BY <1>2, <1>22, <2>2
  <2>3. CASE schedule # "bad"
    <3> DEFINE told == [schedule |-> schedule, version |-> v]
    <3>1. told.schedule = schedule /\ told.version = v
      OBVIOUS
    <3>2. accepted' = [accepted EXCEPT ![n] = told]
      BY <1>2, <2>3
    <3> HIDE DEF told
    <3>3. accepted'[n] = told /\ \A m \in Node : m # n => accepted'[m] = accepted[m]
      BY <1>1, <1>22, <3>2
    <3>4. accepted' \in [Node -> [schedule : Schedules \cup {""}, version : Nat]]
      BY <1>1, <1>22, <2>1, <3>2 DEF told
    <3> QED
      BY <3>1, <3>3, <3>4
  <2> QED
    BY <2>2, <2>3
<1>8. /\ pc # "walk" /\ changed' = IF pc = "callback" THEN changed \cup {"add"} ELSE changed
      /\ UNCHANGED <<list, clock, pc, current, prev, now, dangling, clashed, fired>>
      /\ Listed' = Listed
  BY <1>2 DEF MutexFree, Noted, workerVars, Listed
<1>9. CronTypes'
  BY <1>0, <1>3, <1>6, <1>7, <1>8 DEF CronTypes
<1>10. NumberInv'
  <2>1. \A m \in Listed : m <= v
    <3>1. \A m \in Listed : m \in Nat /\ m <= calls
      BY <1>0, ListedIs DEF NumberInv, Node
    <3> QED
      BY ONLY <1>3, <3>1
  <2>2. \A m \in Node : job'[m].version <= v
    <3>1. \A m \in Node : job[m].version <= calls /\ job[m].version \in Nat
      BY <1>0, <1>22 DEF NumberInv, Jobs
    <3>2. \A m \in Node : job[m].version <= v
      BY ONLY <1>3, <3>1
    <3>3. v <= v
      BY <1>3
    <3> QED
      BY <1>5, <1>6, <3>2, <3>3
  <2>3. \A i \in 1..Len(fired) : fired[i].version <= v /\ fired[i].due <= now
    <3>1. \A i \in 1..Len(fired) : fired[i].version <= calls /\ fired[i].version \in Nat
                                   /\ fired[i].due <= now
      BY <1>0, CronTyped DEF NumberInv, Firing
    <3> QED
      BY ONLY <1>3, <3>1
  <2> QED
    BY <1>3, <1>8, <2>1, <2>2, <2>3 DEF NumberInv
<1>11. WalkInv'
  BY <1>0, <1>8 DEF WalkInv, Undisturbed
<1>12. FiringInv'
  BY <1>8 DEF FiringInv
<1>13. \A i \in 1..Len(fired) : fired[i].version # v /\ fired[i].node \in Node
  <2>1. \A i \in 1..Len(fired) : fired[i].version <= calls /\ fired[i] \in Firing
    BY <1>0, CronTyped DEF NumberInv
  <2> QED
    <3>1. \A i \in 1..Len(fired) : fired[i].version \in Nat /\ fired[i].node \in Node
      BY <2>1 DEF Firing
    <3> QED
      BY ONLY <1>3, <2>1, <3>1
<1>14. DueInv'
  BY <1>0, <1>5, <1>6, <1>8, <1>13 DEF DueInv
<1>15. ToldInv'
  BY <1>0, <1>5, <1>6, <1>7, <1>8, ListedIs DEF ToldInv
<1>16. ASSUME NEW m \in Promised', m # n PROVE m \in Promised
  BY <1>6, <1>7, <1>8, <1>16 DEF Promised, HasFired
<1>17. n \in Promised' => schedule # "bad"
  BY <1>5, <1>6 DEF Promised
<1>18. schedule # "bad" => Stored' = Listed
  <2> HAVE schedule # "bad"
  <2>1. list \in Seq(Node) /\ store' = Saved(list, job')
    BY <1>0, <1>2 DEF CronTypes
  <2> QED
    BY <2>1, SavedNodes DEF Stored, Listed
<1>19. schedule = "bad" => Stored' = Stored
  BY <1>2 DEF Stored
<1>20. KeptInv'
  BY <1>0, <1>1, <1>8, <1>16, <1>17, <1>18, <1>19 DEF KeptInv
<1>21. FiresOncePerDueTime'
  BY <1>0, <1>8 DEF FiresOncePerDueTime
<1> QED
  BY <1>9, <1>10, <1>11, <1>12, <1>14, <1>15, <1>20, <1>21 DEF CronInv

\* cron_service_add_job for a new name: the node is new, and nothing of it has fired.
LEMMA StepInsert ==
    ASSUME CronInv, NEW name \in Names, NEW schedule \in Schedules, MutexFree,
           calls < MaxCalls, calls' = calls + 1, Insert(name, schedule), Noted("add"),
           UNCHANGED <<clock, running>>, UNCHANGED workerVars
    PROVE  CronInv'
<1>0. CronTypes /\ NumberInv /\ WalkInv /\ FiringInv /\ DueInv /\ ToldInv /\ KeptInv
      /\ FiresOncePerDueTime
  BY DEF CronInv
<1> DEFINE n == calls + 1
           new == [name |-> name, schedule |-> schedule, version |-> n, next |-> NextRun(clock)]
           told == [schedule |-> schedule, version |-> n]
<1>1. /\ schedule = "bad" => UNCHANGED <<list, job, store, accepted>>
      /\ schedule # "bad" =>
           /\ job' = [job EXCEPT ![n] = new] /\ list' = <<n>> \o list
           /\ store' = Saved(list', job') /\ accepted' = [accepted EXCEPT ![n] = told]
  BY DEF Insert
<1>2. calls \in Nat /\ n \in Nat /\ n <= MaxCalls /\ calls < n /\ calls' = n /\ n \in Node
  <2>1. calls \in Nat /\ MaxCalls \in Nat
    BY <1>0, CronTyped, CronAssumption
  <2> QED
    BY <2>1 DEF Node
<1> HIDE DEF n
<1>3. new \in Jobs /\ new.version = n /\ new.schedule = schedule
  <2>1. NextRun(clock) \in Nat
    BY <1>0, CronTyped DEF NextRun
  <2> QED
    BY <1>2, <2>1 DEF Jobs
<1>4. told \in [schedule : Schedules \cup {""}, version : Nat]
      /\ told.schedule = schedule /\ told.version = n
  BY <1>2
<1> HIDE DEF new, told
<1>5. /\ job \in [Node -> Jobs]
      /\ accepted \in [Node -> [schedule : Schedules \cup {""}, version : Nat]]
      /\ list \in Seq(Node) /\ Distinct(list)
  BY <1>0 DEF CronTypes
<1>6. \A m \in Listed : m \in Nat /\ m <= calls /\ m # n
  <2>1. \A m \in Listed : m \in Nat /\ m <= calls
    BY <1>0, ListedIs DEF NumberInv, Node
  <2> QED
    BY ONLY <1>2, <2>1
<1>7. /\ pc # "walk" /\ changed' = IF pc = "callback" THEN changed \cup {"add"} ELSE changed
      /\ UNCHANGED <<clock, pc, current, prev, now, dangling, clashed, fired>>
  BY DEF MutexFree, Noted, workerVars
<1>8. \A i \in 1..Len(fired) : /\ fired[i].version <= n /\ fired[i].due <= now
                               /\ fired[i].version # n /\ fired[i].node \in Node
  <2>1. \A i \in 1..Len(fired) : /\ fired[i].version <= calls /\ fired[i].version \in Nat
                                 /\ fired[i].due <= now /\ fired[i].node \in Node
    BY <1>0, CronTyped DEF NumberInv, Firing
  <2> QED
    BY ONLY <1>2, <2>1
<1>9. \A m \in Node : job[m].version <= n
  <2>1. \A m \in Node : job[m].version <= calls /\ job[m].version \in Nat
    BY <1>0, <1>5 DEF NumberInv, Jobs
  <2> QED
    BY ONLY <1>2, <2>1
<1>10. FiringInv' /\ FiresOncePerDueTime'
  BY <1>0, <1>7 DEF FiringInv, FiresOncePerDueTime
<1>11. CASE schedule = "bad"
  <2>1. UNCHANGED <<list, job, store, accepted>> /\ Listed' = Listed /\ Stored' = Stored
    BY <1>1, <1>11 DEF Listed, Stored
  <2>2. CronTypes'
    BY <1>0, <1>2, <1>7, <2>1 DEF CronTypes
  <2>3. NumberInv'
    <3>1. \A m \in Listed : m <= n
      BY ONLY <1>2, <1>6
    <3> QED
      BY <1>2, <1>7, <1>8, <1>9, <2>1, <3>1 DEF NumberInv
  <2>4. WalkInv'
    BY <1>0, <1>7, <2>1 DEF WalkInv, Undisturbed
  <2>5. DueInv' /\ ToldInv'
    BY <1>0, <1>7, <2>1 DEF DueInv, ToldInv
  <2>6. KeptInv'
    BY <1>0, <1>7, <2>1 DEF KeptInv, Promised, HasFired
  <2> QED
    BY <1>10, <2>2, <2>3, <2>4, <2>5, <2>6 DEF CronInv
<1>12. CASE schedule # "bad"
  <2>1. /\ job' = [job EXCEPT ![n] = new] /\ list' = <<n>> \o list
        /\ store' = Saved(list', job') /\ accepted' = [accepted EXCEPT ![n] = told]
    BY <1>1, <1>12
  <2>2. /\ job' \in [Node -> Jobs] /\ job'[n] = new
        /\ \A m \in Node : m # n => job'[m] = job[m]
    BY <1>2, <1>3, <1>5, <2>1
  <2>3. /\ accepted' \in [Node -> [schedule : Schedules \cup {""}, version : Nat]]
        /\ accepted'[n] = told /\ \A m \in Node : m # n => accepted'[m] = accepted[m]
    BY <1>2, <1>4, <1>5, <2>1
  <2>4. list' \in Seq(Node) /\ Distinct(list') /\ Listed' = Listed \cup {n}
    <3>1. n \notin Elements(list)
      BY <1>6 DEF Listed
    <3> DEFINE t == <<n>> \o list
    <3>2. n \in Node /\ list \in Seq(Node) /\ Distinct(list)
      BY <1>2, <1>5
    <3>3. t \in Seq(Node) /\ Elements(t) = Elements(list) \cup {n}
          /\ (Distinct(list) /\ n \notin Elements(list) => Distinct(t))
      BY ONLY <3>2, LinkFirst
    <3> HIDE DEF t
    <3>4. list' = t
      BY <2>1 DEF t
    <3> QED
      BY <3>1, <3>2, <3>3, <3>4 DEF Listed
  <2>5. Stored' = Listed'
    <3>1. store' = Saved(list', job') /\ list' \in Seq(Node)
      BY <2>1, <2>4
    <3>2. {Saved(list', job')[i].node : i \in 1..Len(Saved(list', job'))} = Elements(list')
      BY ONLY <3>1, SavedNodes
    <3> QED
      BY <3>1, <3>2 DEF Stored, Listed
  <2>6. CronTypes'
    BY <1>0, <1>2, <1>7, <2>2, <2>3, <2>4 DEF CronTypes
  <2>7. NumberInv'
    <3>1. \A m \in Listed' : m <= n
      <4>1. n <= n /\ \A m \in Listed : m <= n
        BY ONLY <1>2, <1>6
      <4> QED
        BY <2>4, <4>1
    <3>2. \A m \in Node : job'[m].version <= n
      <4>1. n <= n
        BY <1>2
      <4> QED
        BY <1>3, <1>9, <2>2, <4>1
    <3> QED
      BY <1>2, <1>7, <1>8, <3>1, <3>2 DEF NumberInv
  <2>8. WalkInv'
    <3>1. \A m : Before(list, prev, m) => Before(list', prev, m)
      BY <1>2, <1>5, <2>1, OrderFacts
    <3> QED
      BY <1>0, <1>7, <2>4, <3>1 DEF WalkInv, Undisturbed
  <2>9. DueInv'
    BY <1>0, <1>3, <1>7, <1>8, <2>2, <2>4 DEF DueInv
  <2>10. ToldInv'
    BY <1>0, <1>3, <1>4, <2>2, <2>3, <2>4, ListedIs DEF ToldInv
  <2>11. ASSUME NEW m \in Promised', m # n PROVE m \in Promised
    BY <1>7, <2>2, <2>3, <2>11 DEF Promised, HasFired
  <2>12. KeptInv'
    BY <1>0, <1>7, <2>4, <2>5, <2>11 DEF KeptInv
  <2> QED
    BY <1>10, <2>6, <2>7, <2>8, <2>9, <2>10, <2>12 DEF CronInv
<1> QED
  BY <1>11, <1>12

\* cron_service_remove_job: what is removed is no longer promised.
LEMMA StepRemove ==
    ASSUME CronInv, NEW n \in Node, RemoveJob(n) PROVE CronInv'
<1>0. CronTypes /\ NumberInv /\ WalkInv /\ FiringInv /\ DueInv /\ ToldInv /\ KeptInv
      /\ FiresOncePerDueTime
  BY DEF CronInv
<1>1. n \in Listed /\ list \in Seq(Node) /\ Distinct(list)
  BY <1>0, ListedIs DEF RemoveJob, CronTypes
<1>2. /\ list' = Without(list, n) /\ store' = Saved(list', job)
      /\ accepted' = [accepted EXCEPT ![n] = [schedule |-> "", version |-> 0]]
      /\ pc # "walk" /\ changed' = IF pc = "callback" THEN changed \cup {"remove"} ELSE changed
      /\ UNCHANGED <<job, clock, calls, pc, current, prev, now, dangling, clashed, fired>>
  BY DEF RemoveJob, MutexFree, Noted, workerVars
<1>3. list' \in Seq(Node) /\ Distinct(list') /\ Listed' = Listed \ {n}
  BY <1>1, <1>2, UnlinkFacts DEF Listed
<1>4. /\ accepted' \in [Node -> [schedule : Schedules \cup {""}, version : Nat]]
      /\ accepted'[n].schedule = "" /\ \A m \in Node : m # n => accepted'[m] = accepted[m]
  BY <1>0, <1>2 DEF CronTypes
<1>5. CronTypes'
  BY <1>0, <1>2, <1>3, <1>4 DEF CronTypes
<1>6. NumberInv' /\ FiringInv' /\ FiresOncePerDueTime'
  BY <1>0, <1>2, <1>3 DEF NumberInv, FiringInv, FiresOncePerDueTime
<1>7. WalkInv'
  BY <1>0, <1>2 DEF WalkInv, Undisturbed
<1>8. DueInv' /\ ToldInv'
  BY <1>0, <1>2, <1>3, <1>4, ListedIs DEF DueInv, ToldInv
<1>9. Stored' = Listed'
  <2>1. {Saved(list', job)[i].node : i \in 1..Len(Saved(list', job))} = Elements(list')
    BY ONLY <1>3, SavedNodes
  <2> QED
    BY <1>2, <2>1 DEF Stored, Listed
<1>10. \A m \in Promised' : m \in Promised /\ m # n
  BY <1>2, <1>4 DEF Promised, HasFired
<1>11. KeptInv'
  BY <1>0, <1>2, <1>3, <1>9, <1>10 DEF KeptInv
<1> QED
  BY <1>5, <1>6, <1>7, <1>8, <1>11 DEF CronInv

-----------------------------------------------------------------------------
(* The worker.                                                             *)

\* Steps that leave list, jobs, file and promises alone.
Quiet == UNCHANGED <<list, job, store, calls, accepted, fired, dangling, clashed>>

\* What such a step keeps: all but where the walk is.
LEMMA QuietKeeps ==
    ASSUME CronInv, Quiet
    PROVE  /\ Listed' = Listed /\ ToldInv' /\ KeptInv' /\ FiresOncePerDueTime'
           /\ now' >= now /\ now' \in Nat => NumberInv'
           /\ pc # "callback" => DueInv'
<1>0. CronTypes /\ NumberInv /\ DueInv /\ ToldInv /\ KeptInv /\ FiresOncePerDueTime
  BY DEF CronInv
<1>1. Listed' = Listed /\ Stored' = Stored /\ Promised' = Promised
  BY DEF Quiet, Listed, Stored, Promised, HasFired
<1>2. ToldInv' /\ KeptInv' /\ FiresOncePerDueTime'
  BY <1>0, <1>1 DEF Quiet, ToldInv, KeptInv, FiresOncePerDueTime
<1>3. ASSUME now' >= now, now' \in Nat PROVE NumberInv'
  <2>1. \A i \in 1..Len(fired) : fired[i].due <= now /\ fired[i].due \in Nat /\ now \in Nat
    BY <1>0, CronTyped DEF NumberInv, Firing
  <2>2. \A i \in 1..Len(fired) : fired[i].due <= now'
    BY ONLY <1>3, <2>1
  <2> QED
    BY <1>0, <1>1, <2>2 DEF Quiet, NumberInv
<1>4. ASSUME pc # "callback" PROVE DueInv'
  BY <1>0, <1>1, <1>4 DEF Quiet, DueInv
<1> QED
  BY <1>1, <1>2, <1>3, <1>4

\* cron_service_stop, the clock, the end of the sleep.
LEMMA StepStopTickWake ==
    ASSUME CronInv, StopService \/ Tick \/ WakeUp PROVE CronInv'
<1>0. CronTypes /\ WalkInv /\ FiringInv /\ DueInv
  BY DEF CronInv
<1>1. /\ Quiet /\ UNCHANGED <<current, prev, now, changed>> /\ clock' \in {clock, clock + 1}
      /\ pc' = pc \/ (pc = "sleep" /\ pc' = "top")
  BY DEF StopService, Tick, WakeUp, workerVars, Quiet
<1>2. now \in Nat /\ now' >= now /\ clock' \in Nat /\ now <= clock'
  <2>1. now \in Nat /\ clock \in Nat /\ now <= clock
    BY <1>0, CronTyped
  <2> QED
    BY <1>1, <2>1
<1>3. CronTypes'
  BY <1>0, <1>1, <1>2 DEF CronTypes, Quiet
<1>4. Listed' = Listed /\ ToldInv' /\ KeptInv' /\ FiresOncePerDueTime' /\ NumberInv'
  BY <1>1, <1>2, QuietKeeps
<1>5. DueInv'
  BY <1>0, <1>1, <1>4 DEF DueInv, Quiet
<1>6. WalkInv' /\ FiringInv'
  BY <1>0, <1>1, <1>4 DEF WalkInv, Undisturbed, FiringInv, HasFired, Quiet
<1> QED
  BY <1>3, <1>4, <1>5, <1>6 DEF CronInv

\* The walk begins at the head of the list.
LEMMA StepStartWalk ==
    ASSUME CronInv, StartWalk PROVE CronInv'
<1>0. CronTypes /\ WalkInv
  BY DEF CronInv
<1>1. Quiet /\ UNCHANGED <<clock, changed>> /\ pc = "top"
  BY DEF StartWalk, Quiet
<1>2. \/ pc' = "exited" /\ UNCHANGED <<current, prev, now>>
      \/ /\ pc' = "walk" /\ now' = clock /\ prev' = Null
         /\ current' = IF list = << >> THEN Null ELSE list[1]
  BY DEF StartWalk
<1>3. now' \in Nat /\ now' >= now /\ now' <= clock
  <2>1. now \in Nat /\ clock \in Nat /\ now <= clock
    BY <1>0, CronTyped
  <2> QED
    BY <1>2, <2>1
<1>4. Listed' = Listed /\ ToldInv' /\ KeptInv' /\ FiresOncePerDueTime' /\ NumberInv' /\ DueInv'
  BY <1>1, <1>3, QuietKeeps
<1>5. pc' = "walk" => current' = Null \/ (current' \in Listed /\ list[1] = current')
  BY <1>0, <1>2, ListedIs
<1>6. CronTypes'
  <2>1. current' \in Node \cup {Null} /\ prev' \in Node \cup {Null}
    BY <1>0, <1>2, <1>5, ListedIs DEF CronTypes
  <2> QED
    BY <1>0, <1>1, <1>2, <1>3, <2>1 DEF CronTypes, Quiet
<1>7. FiringInv'
  BY <1>2 DEF FiringInv
<1>8. WalkInv'
  <2>1. "remove" \notin clashed' => ~dangling'
    BY <1>0, <1>1 DEF WalkInv, Quiet
  <2>2. CASE pc' = "exited"
    BY <2>1, <2>2 DEF WalkInv, Undisturbed
  <2>3. CASE pc' = "walk"
    <3>1. prev' = Null /\ list' = list
      BY <1>1, <1>2, <2>3 DEF Quiet
    <3> QED
      BY <1>0, <1>4, <1>5, <2>1, <2>3, <3>1, ListedIs DEF WalkInv, Undisturbed
  <2> QED
    BY <1>2, <2>2, <2>3
<1> QED
  BY <1>4, <1>6, <1>7, <1>8 DEF CronInv

\* The worker goes on behind a job that is not due.
LEMMA StepPass ==
    ASSUME CronInv, Pass PROVE CronInv'
<1>0. CronTypes /\ WalkInv
  BY DEF CronInv
<1>1. /\ Quiet /\ UNCHANGED <<clock, changed, pc, now>> /\ pc = "walk" /\ current # Null
      /\ prev' = current /\ current' = After(list, current)
  BY DEF Pass, Quiet
<1>2. current \in Listed /\ list \in Seq(Node) /\ Distinct(list)
  BY <1>0, <1>1 DEF WalkInv, CronTypes
<1>3. now \in Nat /\ now' >= now
  BY <1>0, <1>1, CronTyped
<1>4. Listed' = Listed /\ ToldInv' /\ KeptInv' /\ FiresOncePerDueTime' /\ NumberInv' /\ DueInv'
  BY <1>1, <1>3, QuietKeeps
<1>5. current' = Null \/ (current' \in Listed /\ Before(list, prev', current'))
  BY <1>1, <1>2, OrderFacts DEF Listed
<1>6. CronTypes'
  <2>1. current' \in Node \cup {Null} /\ prev' \in Node \cup {Null}
    BY <1>0, <1>1, <1>2, <1>5, ListedIs
  <2> QED
    BY <1>0, <1>1, <2>1 DEF CronTypes, Quiet
<1>7. WalkInv' /\ FiringInv'
  <2>1. FiringInv'
    BY <1>1 DEF FiringInv
  <2> QED
    BY <1>0, <1>1, <1>2, <1>4, <1>5, <2>1 DEF WalkInv, Undisturbed, Quiet
<1> QED
  BY <1>4, <1>6, <1>7 DEF CronInv

\* The end of the walk: the file gets what the list has.
LEMMA StepEndWalk ==
    ASSUME CronInv, EndWalk PROVE CronInv'
<1>0. CronTypes /\ NumberInv /\ WalkInv /\ DueInv /\ ToldInv /\ KeptInv /\ FiresOncePerDueTime
  BY DEF CronInv
<1>1. /\ pc = "walk" /\ pc' = "sleep" /\ store' = IF modified THEN Saved(list, job) ELSE store
      /\ UNCHANGED <<list, job, clock, current, prev, now, dangling, changed, clashed, calls,
                     accepted, fired>>
  BY DEF EndWalk
<1>2. Listed' = Listed /\ Promised' = Promised
  BY <1>1 DEF Listed, Promised, HasFired
<1>3. Stored' = Stored \/ Stored' = Listed
  <2>1. list \in Seq(Node)
    BY <1>0, CronTyped
  <2>2. {Saved(list, job)[i].node : i \in 1..Len(Saved(list, job))} = Elements(list)
    BY ONLY <2>1, SavedNodes
  <2> QED
    BY <1>1, <2>2 DEF Stored, Listed
<1>4. CronTypes' /\ NumberInv'
  BY <1>0, <1>1, <1>2 DEF CronTypes, NumberInv
<1>5. WalkInv' /\ FiringInv' /\ DueInv'
  BY <1>0, <1>1, <1>2 DEF WalkInv, Undisturbed, FiringInv, DueInv
<1>6. ToldInv' /\ KeptInv' /\ FiresOncePerDueTime'
  BY <1>0, <1>1, <1>2, <1>3 DEF ToldInv, KeptInv, FiresOncePerDueTime
<1> QED
  BY <1>4, <1>5, <1>6 DEF CronInv

\* A due job fires: it did not fire for this time before.
LEMMA StepFire ==
    ASSUME CronInv, Fire PROVE CronInv'
<1>0. CronTypes /\ NumberInv /\ WalkInv /\ DueInv /\ ToldInv /\ KeptInv /\ FiresOncePerDueTime
  BY DEF CronInv
<1> DEFINE f == [node |-> current, version |-> job[current].version, due |-> job[current].next]
<1>1. /\ pc = "walk" /\ current # Null /\ job[current].next <= now
      /\ fired' = Append(fired, f) /\ pc' = "callback" /\ changed' = {}
      /\ UNCHANGED <<list, job, store, clock, current, prev, now, dangling, clashed, calls, accepted>>
  BY DEF Fire
<1>2. current \in Listed /\ current \in Node
  BY <1>0, <1>1, ListedIs DEF WalkInv
<1>3. /\ f \in Firing /\ f.node = current /\ f.version = job[current].version
      /\ f.due = job[current].next
  <2>1. job[current] \in Jobs
    BY <1>0, <1>2, CronTyped
  <2> QED
    BY <1>2, <2>1 DEF Jobs, Firing
<1> HIDE DEF f
<1>4. /\ fired \in Seq(Firing) /\ Len(fired) \in Nat /\ fired' \in Seq(Firing)
      /\ Len(fired') = Len(fired) + 1 /\ fired'[Len(fired) + 1] = f
      /\ \A i \in 1..Len(fired) : fired'[i] = fired[i]
  <2>1. fired \in Seq(Firing)
    BY <1>0, CronTyped
  <2> QED
    BY <1>1, <1>3, <2>1
<1>5. /\ Len(fired) + 1 \in 1..Len(fired')
      /\ \A i \in 1..Len(fired') : i \in 1..Len(fired) \/ i = Len(fired) + 1
      /\ \A i \in 1..Len(fired) : i \in 1..Len(fired')
      /\ \A i, j \in 1..Len(fired') : i < j => i \in 1..Len(fired)
  BY ONLY <1>4
<1>6. Listed' = Listed /\ Stored' = Stored
  BY <1>1 DEF Listed, Stored
<1>7. CronTypes'
  BY <1>0, <1>1, <1>4 DEF CronTypes
<1>8. NumberInv'
  <2>1. f.version <= calls /\ f.due <= now
    BY <1>0, <1>1, <1>2, <1>3 DEF NumberInv
  <2>2. \A i \in 1..Len(fired') : fired'[i].version <= calls /\ fired'[i].due <= now
    BY <1>0, <1>4, <1>5, <2>1 DEF NumberInv
  <2> QED
    BY <1>0, <1>1, <1>6, <2>2 DEF NumberInv
<1>9. WalkInv'
  BY <1>0, <1>1, <1>2, <1>6 DEF WalkInv, Undisturbed
<1>10. FiringInv'
  BY <1>1, <1>3, <1>4, <1>5 DEF FiringInv, HasFired
<1>11. \A n, v : HasFired(n, v) => HasFired(n, v)'
  BY <1>4, <1>5 DEF HasFired
<1>12. Promised' \subseteq Promised
  BY <1>1, <1>11 DEF Promised
<1>13. ToldInv' /\ KeptInv'
  BY <1>0, <1>1, <1>6, <1>12 DEF ToldInv, KeptInv
<1>14. DueInv'
  <2> SUFFICES ASSUME "remove" \notin clashed, NEW i \in 1..Len(fired'),
                      fired'[i].node \in Listed, fired'[i].version = job[fired'[i].node].version,
                      fired'[i].node # current
               PROVE  fired'[i].due < job[fired'[i].node].next
    BY <1>1, <1>6 DEF DueInv
  <2>1. i \in 1..Len(fired) /\ fired'[i] = fired[i]
    BY <1>3, <1>4, <1>5
  <2> QED
    BY <1>0, <1>1, <2>1 DEF DueInv
<1>15. FiresOncePerDueTime'
  <2> SUFFICES ASSUME "remove" \notin clashed, NEW i \in 1..Len(fired'), NEW j \in 1..Len(fired'),
                      i < j, fired'[i].node = fired'[j].node,
                      fired'[i].version = fired'[j].version
               PROVE  fired'[i].due < fired'[j].due
    BY <1>1 DEF FiresOncePerDueTime
  <2>1. i \in 1..Len(fired) /\ fired'[i] = fired[i]
    BY <1>4, <1>5
  <2>2. CASE j \in 1..Len(fired)
    BY <1>0, <1>4, <2>1, <2>2 DEF FiresOncePerDueTime
  <2>3. CASE j = Len(fired) + 1
    <3>1. fired[i].node = current /\ fired[i].version = job[current].version
      BY <1>3, <1>4, <2>1, <2>3
    <3>2. fired[i].due < job[current].next
      BY <1>0, <1>1, <1>2, <2>1, <3>1 DEF DueInv
    <3> QED
      BY <1>3, <1>4, <2>1, <2>3, <3>2
  <2> QED
    BY <1>5, <2>2, <2>3
<1> QED
  BY <1>7, <1>8, <1>9, <1>10, <1>13, <1>14, <1>15 DEF CronInv

\* The job was removed during its callback: from the head again.
LEMMA StepRestart ==
    ASSUME CronInv, Returned, current \notin Listed PROVE CronInv'
<1>0. CronTypes /\ WalkInv /\ DueInv
  BY DEF CronInv
<1>1. /\ Quiet /\ UNCHANGED <<clock, changed, now>> /\ pc = "callback" /\ pc' = "walk"
      /\ prev' = Null /\ current' = IF list = << >> THEN Null ELSE list[1]
  BY <1>0, ListedIs DEF Returned, RestartWalk, Quiet
<1>2. current' = Null \/ (current' \in Listed /\ list[1] = current')
  BY <1>0, <1>1, ListedIs
<1>3. now \in Nat /\ now' >= now
  BY <1>0, <1>1, CronTyped
<1>4. Listed' = Listed /\ ToldInv' /\ KeptInv' /\ FiresOncePerDueTime' /\ NumberInv'
  BY <1>1, <1>3, QuietKeeps
<1>5. CronTypes'
  <2>1. current' \in Node \cup {Null} /\ prev' \in Node \cup {Null}
    BY <1>0, <1>1, <1>2, ListedIs
  <2> QED
    BY <1>0, <1>1, <2>1 DEF CronTypes, Quiet
<1>6. FiringInv'
  BY <1>1 DEF FiringInv
<1>7. WalkInv'
  <2>1. list' = list /\ ("remove" \notin clashed' => ~dangling')
    BY <1>0, <1>1 DEF WalkInv, Quiet
  <2> QED
    BY <1>0, <1>1, <1>2, <1>4, <2>1, ListedIs DEF WalkInv, Undisturbed
<1>8. DueInv'
  BY <1>0, <1>1, <1>4 DEF DueInv, Quiet
<1> QED
  BY <1>4, <1>5, <1>6, <1>7, <1>8 DEF CronInv

\* A recurring job is due later than at any time it fired for.
LEMMA StepReschedule ==
    ASSUME CronInv, Returned, current \in Listed, job[current].schedule = "every" PROVE CronInv'
<1>0. CronTypes /\ NumberInv /\ WalkInv /\ DueInv /\ ToldInv /\ KeptInv /\ FiresOncePerDueTime
  BY DEF CronInv
<1>1. /\ pc = "callback" /\ pc' = "walk" /\ job' = [job EXCEPT ![current].next = NextRun(now)]
      /\ prev' = current /\ current' = After(list, current)
      /\ UNCHANGED <<list, dangling, clashed, store, clock, now, changed, calls, accepted, fired>>
  BY <1>0, ListedIs DEF Returned, Reschedule
<1>2. current \in Node /\ list \in Seq(Node) /\ Distinct(list) /\ job \in [Node -> Jobs]
  BY <1>0, ListedIs DEF CronTypes
<1>3. now \in Nat /\ NextRun(now) \in Nat /\ now < NextRun(now)
  BY <1>0, CronTyped DEF NextRun
<1>4. /\ job' \in [Node -> Jobs] /\ job'[current].next = NextRun(now)
      /\ job'[current].schedule = job[current].schedule
      /\ job'[current].version = job[current].version
      /\ \A n \in Node : n # current => job'[n] = job[n]
  BY <1>1, <1>2, <1>3 DEF Jobs
<1>5. Listed' = Listed /\ Stored' = Stored /\ Promised' = Promised
  BY <1>1, <1>2, <1>4 DEF Listed, Stored, Promised, HasFired
<1>6. current' = Null \/ (current' \in Listed /\ Before(list, prev', current'))
  BY <1>1, <1>2, OrderFacts DEF Listed
<1>7. CronTypes'
  <2>1. current' \in Node \cup {Null} /\ prev' \in Node \cup {Null}
    BY <1>0, <1>1, <1>2, <1>6, ListedIs
  <2> QED
    BY <1>0, <1>1, <1>4, <2>1 DEF CronTypes
<1>8. NumberInv'
  BY <1>0, <1>1, <1>2, <1>4, <1>5 DEF NumberInv
<1>9. WalkInv'
  <2>1. current # Null
    BY <1>0, <1>1 DEF WalkInv
  <2> QED
    BY <1>0, <1>1, <1>5, <1>6, <2>1 DEF WalkInv, Undisturbed
<1>10. FiringInv'
  BY <1>1 DEF FiringInv
<1>11. \A i \in 1..Len(fired) : fired[i].due < NextRun(now)
  <2>1. \A i \in 1..Len(fired) : fired[i].due <= now /\ fired[i].due \in Nat
    BY <1>0, CronTyped DEF NumberInv, Firing
  <2> QED
    BY ONLY <1>3, <2>1
<1>12. DueInv'
  BY <1>0, <1>1, <1>4, <1>5, <1>11, ListedIs DEF DueInv
<1>13. ToldInv' /\ KeptInv' /\ FiresOncePerDueTime'
  BY <1>0, <1>1, <1>4, <1>5, ListedIs DEF ToldInv, KeptInv, FiresOncePerDueTime
<1> QED
  BY <1>7, <1>8, <1>9, <1>10, <1>12, <1>13 DEF CronInv

\* A job that is not recurring leaves the list, alone if nobody called during its callback; it
\* has fired as it was promised.
LEMMA StepUnlink ==
    ASSUME CronInv, Returned, current \in Listed, job[current].schedule # "every" PROVE CronInv'
<1>0. CronTypes /\ NumberInv /\ WalkInv /\ FiringInv /\ DueInv /\ ToldInv /\ KeptInv
      /\ FiresOncePerDueTime
  BY DEF CronInv
<1>1. /\ pc = "callback" /\ pc' = "walk" /\ list' = Unlinked(list, current, prev)
      /\ dangling' = (dangling \/ (prev # Null /\ prev \notin Listed))
      /\ clashed' = clashed \cup changed /\ current' = After(list, current)
      /\ UNCHANGED <<job, prev, store, clock, now, changed, calls, accepted, fired>>
  BY <1>0, ListedIs DEF Returned, Unlink
<1>2. current \in Elements(list) /\ current \in Node /\ list \in Seq(Node) /\ Distinct(list)
  BY <1>0, ListedIs DEF CronTypes, Listed
<1> DEFINE t == SubSeq(list, Place(list, current) + 1, Len(list))
           w == Without(list, current)
<1>3. /\ t \in Seq(Node) /\ Distinct(t) /\ Elements(t) \subseteq Elements(list) \ {current}
      /\ list[1] = current => Elements(t) = Elements(list) \ {current}
      /\ w \in Seq(Node) /\ Distinct(w) /\ Elements(w) = Elements(list) \ {current}
      /\ current' = Null \/ (current' \in Elements(t) /\ t[1] = current')
  BY <1>1, <1>2, UnlinkFacts
<1>4. list' = IF prev = Null THEN t ELSE IF prev \in Listed THEN w ELSE list
  BY <1>0, <1>1, ListedIs DEF Unlinked
<1> HIDE DEF t, w
<1>5. /\ list' \in Seq(Node) /\ Distinct(list') /\ Listed' \subseteq Listed
      /\ current' \in Listed' \cup {Null}
  BY <1>2, <1>3, <1>4 DEF Listed
<1>6. "remove" \notin clashed' =>
        /\ "remove" \notin clashed /\ Undisturbed /\ prev \in Listed \cup {Null}
        /\ current \notin Listed'
  BY <1>0, <1>1, <1>3, <1>4 DEF WalkInv, Undisturbed, Listed
<1>7. CronTypes'
  <2>1. current' \in Node \cup {Null}
    BY <1>0, <1>5, ListedIs
  <2> QED
    BY <1>0, <1>1, <1>5, <2>1 DEF CronTypes
<1>8. NumberInv' /\ FiringInv' /\ ToldInv'
  BY <1>0, <1>1, <1>5 DEF NumberInv, FiringInv, ToldInv
<1>9. WalkInv'
  <2>1. "remove" \notin clashed' => ~dangling'
    BY <1>0, <1>1, <1>6 DEF WalkInv
  <2>2. ASSUME "remove" \notin clashed', prev # Null, current' # Null
        PROVE  prev \in Listed' /\ Before(list', prev, current')
    <3>1. prev \in Listed /\ Before(list, prev, current)
      BY <1>0, <1>1, <1>6, <2>2 DEF WalkInv
    <3>2. Before(Without(list, current), prev, After(list, current))
      BY <1>1, <1>2, <2>2, <3>1, OrderFacts
    <3>3. list' = w /\ prev # current
      BY <1>2, <1>4, <2>2, <3>1, OrderFacts
    <3> QED
      BY <1>1, <1>3, <3>1, <3>2, <3>3 DEF w, Listed
  <2>3. ASSUME "remove" \notin clashed', prev # Null PROVE prev \in Listed'
    <3>1. prev \in Listed /\ Before(list, prev, current)
      BY <1>0, <1>1, <1>6, <2>3 DEF WalkInv
    <3>2. list' = w /\ prev # current
      BY <1>2, <1>4, <2>3, <3>1, OrderFacts
    <3> QED
      BY <1>3, <3>1, <3>2 DEF Listed
  <2>4. prev = Null /\ current' \in Listed' => list'[1] = current'
    <3>1. Null \notin Listed'
      BY <1>0, <1>5, ListedIs
    <3> QED
      BY <1>3, <1>4, <3>1
  <2> QED
    BY <1>1, <1>5, <2>1, <2>2, <2>3, <2>4 DEF WalkInv, Undisturbed
<1>10. DueInv'
  BY <1>0, <1>1, <1>5, <1>6 DEF DueInv
<1>11. ASSUME clashed' = {} PROVE Promised' \subseteq Listed' \cap Stored'
  <2>1. clashed = {} /\ changed = {} /\ "remove" \notin clashed'
    BY <1>1, <1>11
  <2>2. Promised' = Promised /\ Stored' = Stored /\ Promised \subseteq Listed \cap Stored
    BY <1>0, <1>1, <2>1 DEF KeptInv, Promised, HasFired, Stored
  <2>3. current \notin Promised
    <3>1. HasFired(current, job[current].version)
      BY <1>0, <1>1, <2>1 DEF FiringInv
    <3>2. job[current].schedule # "bad" =>
            accepted[current].schedule = job[current].schedule
            /\ accepted[current].version = job[current].version
      BY <1>0 DEF ToldInv
    <3> QED
      BY <3>1, <3>2 DEF Promised
  <2>4. Listed' = Listed \ {current}
    <3>1. prev = Null => list[1] = current
      BY <1>0, <1>1, <2>1 DEF WalkInv
    <3> QED
      BY <1>3, <1>4, <1>6, <2>1, <3>1 DEF Listed
  <2> QED
    BY <2>2, <2>3, <2>4
<1>12. KeptInv'
  BY <1>11 DEF KeptInv
<1>13. FiresOncePerDueTime'
  BY <1>0, <1>1 DEF FiresOncePerDueTime
<1> QED
  BY <1>7, <1>8, <1>9, <1>10, <1>12, <1>13 DEF CronInv

-----------------------------------------------------------------------------
(* The invariant holds.                                                    *)

\* An empty list, an empty file and nothing promised.
LEMMA CronInvInit == CronInit => CronInv
<1> SUFFICES ASSUME CronInit PROVE CronInv
  OBVIOUS
<1>1. Listed = {} /\ Distinct(list)
  BY EmptyHoldsNothing DEF CronInit, Listed
<1>8. calls = 0 /\ clock = 1 /\ now = 0 /\ Len(fired) = 0 /\ 1..Len(fired) = {}
      /\ \A n \in Node : job[n] = NoJob
  <2>1. calls = 0 /\ clock = 1 /\ now = 0 /\ fired = << >> /\ \A n \in Node : job[n] = NoJob
    BY DEF CronInit
  <2> QED
    BY <2>1
<1>2. NoJob \in Jobs
  BY DEF NoJob, Jobs
<1>3. CronTypes
  <2>1. << >> \in Seq(Node) /\ << >> \in Seq(Firing)
    OBVIOUS
  <2>2. MaxCalls \in Nat
    BY CronAssumption
  <2>3. job \in [Node -> Jobs]
    BY <1>2 DEF CronInit
  <2>4. accepted \in [Node -> [schedule : Schedules \cup {""}, version : Nat]]
    BY DEF CronInit
  <2>5. calls \in Nat /\ calls <= MaxCalls /\ clock \in Nat /\ now \in Nat /\ now <= clock
    BY <1>8, <2>2
  <2> QED
    BY <1>1, <2>1, <2>3, <2>4, <2>5 DEF CronInit, CronTypes
<1>4. NumberInv
  <2>0. NoJob.version = 0
    BY DEF NoJob
  <2>1. \A n \in Node : job[n].version <= calls
    <3>1. \A n \in Node : job[n].version = 0
      BY <1>8, <2>0
    <3> QED
      BY ONLY <1>8, <3>1
  <2> QED
    BY <1>1, <1>8, <2>1 DEF NumberInv
<1>5. WalkInv /\ FiringInv
  BY <1>1 DEF CronInit, WalkInv, Undisturbed, FiringInv
<1>6. DueInv /\ ToldInv /\ FiresOncePerDueTime
  BY <1>1, <1>8 DEF DueInv, ToldInv, FiresOncePerDueTime
<1>7. KeptInv
  BY DEF CronInit, KeptInv, Promised
<1> QED
  BY <1>3, <1>4, <1>5, <1>6, <1>7 DEF CronInv

\* Every step keeps it.
LEMMA CronInvNext == CronInv /\ [CronNext]_cronVars => CronInv'
<1> SUFFICES ASSUME CronInv, [CronNext]_cronVars PROVE CronInv'
  OBVIOUS
<1>1. CASE UNCHANGED cronVars
  <2>0. UNCHANGED <<list, job, store, clock, pc, current, prev, now, dangling, changed, clashed,
                    calls, accepted, fired>>
    BY <1>1 DEF cronVars
  <2>1. Listed' = Listed /\ Stored' = Stored /\ Promised' = Promised
    BY <2>0 DEF Listed, Stored, Promised, HasFired
  <2>2. CronTypes' /\ NumberInv'
    BY <2>0, <2>1 DEF CronInv, CronTypes, NumberInv
  <2>3. WalkInv' /\ FiringInv'
    BY <2>0, <2>1 DEF CronInv, WalkInv, Undisturbed, FiringInv, HasFired
  <2>4. DueInv' /\ ToldInv' /\ KeptInv' /\ FiresOncePerDueTime'
    BY <2>0, <2>1 DEF CronInv, DueInv, ToldInv, KeptInv, FiresOncePerDueTime
  <2> QED
    BY <2>2, <2>3, <2>4 DEF CronInv
<1>2. CASE \E name \in Names, schedule \in Schedules : AddJob(name, schedule)
  BY <1>2, StepUpdate, StepInsert DEF AddJob
<1>3. CASE \E n \in Node : RemoveJob(n)
  BY <1>3, StepRemove
<1>4. CASE StopService \/ Tick \/ WakeUp
  BY <1>4, StepStopTickWake
<1>5. CASE StartWalk \/ Pass \/ Fire \/ EndWalk
  BY <1>5, StepStartWalk, StepPass, StepFire, StepEndWalk
<1>6. CASE Returned
  BY <1>6, StepRestart, StepReschedule, StepUnlink
<1> QED
  BY <1>1, <1>2, <1>3, <1>4, <1>5, <1>6 DEF CronNext, Worker, Exited

\* What a caller of cron_service_add_job was told to be scheduled is in the list and in
\* cron_jobs.json, for any number of jobs and calls, also when they come while another job
\* fires; unless the job that fired is then unlinked.
THEOREM JobsAreKept == CronSpec => []JobsKept
<1>1. CronInv => JobsKept
  <2> SUFFICES ASSUME CronInv PROVE JobsKept
    OBVIOUS
  <2>1. ToSet(list) = Listed
    BY ListedIs DEF CronInv
  <2> QED
    BY <2>1 DEF CronInv, KeptInv, JobsKept, PromisesKept, PromisesStored, Stored
<1> QED
  BY <1>1, CronInvInit, CronInvNext, PTL DEF CronSpec

\* The walk of cron_worker uses no node that is freed and fires no job twice for one due time,
\* unless a job is removed during the callback of one that is then unlinked.
THEOREM WalkIsSafe == CronSpec => []WalkSafe
<1>1. CronInv => WalkSafe
  <2> SUFFICES ASSUME CronInv PROVE WalkSafe
    OBVIOUS
  <2>1. \A n : Contains(list, n) <=> n \in Listed
    BY ListedIs DEF CronInv
  <2> QED
    BY <2>1 DEF CronInv, WalkInv, WalkSafe, NoDanglingWrite
<1> QED
  BY <1>1, CronInvInit, CronInvNext, PTL DEF CronSpec

=============================================================================
