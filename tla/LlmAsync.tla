------------------------------ MODULE LlmAsync ------------------------------
(***************************************************************************)
(* Asynchronous calls of the model (src/src/providers/openai_provider.c):  *)
(* openai_provider_call_async queues a request; one worker connects the    *)
(* queued ones, lets the network library (mongoose, external) deliver      *)
(* events, and closes connections that take too long.  AgentLoop relies on *)
(* each call having exactly one callback.                                  *)
(*                                                                         *)
(* The library calls the handler of a connection once with MG_EV_CLOSE, in *)
(* the poll in which it finds the connection closing: after an answer, an  *)
(* error of the network or a timeout.  The handler frees the request's     *)
(* context; the library does not know of that.                             *)
(***************************************************************************)
EXTENDS Naturals, Sequences

CONSTANT Calls                \* calls of openai_provider_call_async

VARIABLES called,     \* history: calls made
          queue,      \* manager->queue_head
          batch,      \* items the worker took from it and has not handled yet
          llmRunning, \* manager->running
          llmPc,      \* where the worker is
          conns,      \* connections of the library; each is named by its call
          closing,    \* those marked is_closing
          expired,    \* calls made longer than timeout_ms ago
          active,     \* manager->active_head
          contexts,   \* contexts that are allocated
          sent,       \* contexts with callback_sent
          results,    \* history: what each call was called back with, in order
          freed,      \* the manager is gone
          faulty      \* history: a freed context was used

llmVars == <<called, queue, batch, llmRunning, llmPc, conns, closing, expired, active, contexts,
          sent, results, freed, faulty>>

LlmInit ==
    /\ called = {}
    /\ queue = << >>
    /\ batch = << >>
    /\ llmRunning = TRUE
    /\ llmPc = "top"
    /\ conns = {}
    /\ closing = {}
    /\ expired = {}
    /\ active = {}
    /\ contexts = {}
    /\ sent = {}
    /\ results = [c \in Calls |-> << >>]
    /\ freed = FALSE
    /\ faulty = FALSE

CalledBack(c, res) == [results EXCEPT ![c] = Append(@, res)]

-----------------------------------------------------------------------------
(* openai_provider_call_async, openai_provider_shutdown, and time.         *)

\* The thread that calls is joined before the provider is shut down.
CallAsync(c) ==
    /\ llmRunning
    /\ c \notin called
    /\ called' = called \cup {c}
    /\ \/ /\ queue' = Append(queue, c)
          /\ contexts' = contexts \cup {c}
          /\ UNCHANGED results
       \* No API key, or no memory: the caller itself runs the callback.
       \/ /\ results' = CalledBack(c, "error")
          /\ UNCHANGED <<queue, contexts>>
    /\ UNCHANGED <<batch, llmRunning, llmPc, conns, closing, expired, active, sent, freed, faulty>>

\* 120 seconds have passed since the call.
Expire(c) ==
    /\ c \in called \ expired
    /\ expired' = expired \cup {c}
    /\ UNCHANGED <<called, queue, batch, llmRunning, llmPc, conns, closing, active, contexts,
                   sent, results, freed, faulty>>

\* llm_async_manager_stop, up to its pthread_join.
Stop ==
    /\ llmRunning
    /\ llmRunning' = FALSE
    /\ UNCHANGED <<called, queue, batch, llmPc, conns, closing, expired, active, contexts,
                   sent, results, freed, faulty>>

-----------------------------------------------------------------------------
(* llm_async_worker.                                                       *)

\* Test the flag, and take everything that is queued.
Dequeue ==
    /\ llmPc = "top"
    /\ llmRunning
    /\ batch' = queue
    /\ queue' = << >>
    /\ llmPc' = "items"
    /\ UNCHANGED <<called, llmRunning, conns, closing, expired, active, contexts, sent,
                   results, freed, faulty>>

\* Mutant: the context is not entered in the active list.
ConnectUnlisted ==
    /\ llmPc = "items"
    /\ batch # << >>
    /\ batch' = Tail(batch)
    /\ conns' = conns \cup {Head(batch)}
    /\ UNCHANGED <<called, queue, llmRunning, llmPc, closing, expired, active, contexts, sent,
                   results, freed, faulty>>

\* async_worker_process_item: the library opens a connection.
Connect ==
    /\ llmPc = "items"
    /\ batch # << >>
    /\ batch' = Tail(batch)
    /\ conns' = conns \cup {Head(batch)}
    /\ active' = active \cup {Head(batch)}
    /\ UNCHANGED <<called, queue, llmRunning, llmPc, closing, expired, contexts, sent, results,
                   freed, faulty>>

\* The library cannot: call back and free the context.
ConnectFails ==
    /\ llmPc = "items"
    /\ batch # << >>
    /\ batch' = Tail(batch)
    /\ results' = CalledBack(Head(batch), "error")
    /\ contexts' = contexts \ {Head(batch)}
    /\ UNCHANGED <<called, queue, llmRunning, llmPc, conns, closing, expired, active, sent,
                   freed, faulty>>

StartPoll ==
    /\ llmPc = "items"
    /\ batch = << >>
    /\ llmPc' = "poll"
    /\ UNCHANGED <<called, queue, batch, llmRunning, conns, closing, expired, active,
                   contexts, sent, results, freed, faulty>>

\* async_context_callback_once: the calls of S that were not called back are.
CallbackOnce(S, res) ==
    /\ sent' = sent \cup S
    /\ results' = [c \in Calls |-> IF c \in S \ sent THEN Append(results[c], res) ELSE results[c]]

\* Mutant: the context stays in the list after it was freed.
CloseEventKeepsActive(c, res) ==
    /\ llmPc \in {"poll", "lastpoll"}
    /\ c \in conns
    /\ conns' = conns \ {c}
    /\ closing' = closing \ {c}
    /\ faulty' = (faulty \/ c \notin contexts)
    /\ CallbackOnce({c}, res)
    /\ contexts' = contexts \ {c}
    /\ UNCHANGED <<called, queue, batch, llmRunning, llmPc, expired, active, freed>>

\* In a poll, a connection closes and async_ev_handler runs: take the context off
\* the list, call back with the answer or an error, free the context.
CloseEvent(c, res) ==
    /\ llmPc \in {"poll", "lastpoll"}
    /\ c \in conns
    /\ conns' = conns \ {c}
    /\ closing' = closing \ {c}
    /\ active' = active \ {c}
    /\ faulty' = (faulty \/ c \notin contexts)
    /\ CallbackOnce({c}, res)
    /\ contexts' = contexts \ {c}
    /\ UNCHANGED <<called, queue, batch, llmRunning, llmPc, expired, freed>>

\* A poll closes every connection that was marked before it.
EndPoll ==
    /\ llmPc = "poll"
    /\ closing = {}
    /\ llmPc' = "timeouts"
    /\ UNCHANGED <<called, queue, batch, llmRunning, conns, closing, expired, active,
                   contexts, sent, results, freed, faulty>>

\* Mutant: nothing is ever too late.
CheckNoTimeouts ==
    /\ llmPc = "timeouts"
    /\ llmPc' = "wait"
    /\ UNCHANGED <<called, queue, batch, llmRunning, conns, closing, expired, active,
                   contexts, sent, results, freed, faulty>>

\* async_manager_check_timeouts: mark what took too long, reading its context.
CheckTimeouts ==
    /\ llmPc = "timeouts"
    /\ closing' = closing \cup (conns \cap expired)
    /\ faulty' = (faulty \/ ~(conns \subseteq contexts))
    /\ llmPc' = "wait"
    /\ UNCHANGED <<called, queue, batch, llmRunning, conns, expired, active, contexts, sent,
                   results, freed>>

\* The wait of 5 milliseconds, if the queue is empty, ends.
Wait ==
    /\ llmPc = "wait"
    /\ llmPc' = "top"
    /\ UNCHANGED <<called, queue, batch, llmRunning, conns, closing, expired, active,
                   contexts, sent, results, freed, faulty>>

\* The flag is down: what is still queued is called back and freed.
Drain ==
    LET queued == {queue[i] : i \in 1..Len(queue)}
    IN  /\ llmPc = "top"
        /\ ~llmRunning
        /\ results' = [c \in Calls |-> IF c \in queued THEN Append(results[c], "error")
                                       ELSE results[c]]
        /\ contexts' = contexts \ queued
        /\ queue' = << >>
        /\ llmPc' = "lastpoll"
        /\ UNCHANGED <<called, batch, llmRunning, conns, closing, expired, active, sent,
                       freed, faulty>>

\* After a last poll the contexts on the list are called back and freed.  Their
\* connections stay open.
Leave ==
    /\ llmPc = "lastpoll"
    /\ closing = {}
    /\ CallbackOnce(active, "error")
    /\ faulty' = (faulty \/ ~(active \subseteq contexts))
    /\ contexts' = contexts \ active
    /\ active' = {}
    /\ llmPc' = "exited"
    /\ UNCHANGED <<called, queue, batch, llmRunning, conns, closing, expired, freed>>

\* llm_async_manager_free: the library closes what is open, and the handler runs.
FreeManager ==
    /\ llmPc = "exited"
    /\ ~freed
    /\ faulty' = (faulty \/ ~(conns \subseteq contexts))
    /\ conns' = {}
    /\ contexts' = contexts \ conns
    /\ freed' = TRUE
    /\ UNCHANGED <<called, queue, batch, llmRunning, llmPc, closing, expired, active, sent, results>>

Gone == freed /\ UNCHANGED llmVars

Poll == \E c \in conns, res \in {"answer", "error"} : CloseEvent(c, res)

LlmWorker == \/ Dequeue \/ Connect \/ ConnectFails \/ StartPoll
          \/ EndPoll \/ CheckTimeouts \/ Wait \/ Drain \/ Leave

\* What a poll must do before it ends.
MustClose == \E c \in closing, res \in {"answer", "error"} : CloseEvent(c, res)

LlmNext ==
    \/ \E c \in Calls : CallAsync(c) \/ Expire(c)
    \/ Stop
    \/ LlmWorker
    \/ Poll
    \/ FreeManager
    \/ Gone

LlmSpec == LlmInit /\ [][LlmNext]_llmVars

\* The worker runs, a poll ends, and time passes.  No server need ever answer.
LlmFairSpec ==
    /\ LlmSpec
    /\ WF_llmVars(LlmWorker) /\ WF_llmVars(MustClose)
    /\ \A c \in Calls : WF_llmVars(Expire(c))

-----------------------------------------------------------------------------
(* Properties.                                                             *)

\* Types of the variables.
LlmTypeOK ==
    /\ called \subseteq Calls /\ queue \in Seq(Calls) /\ batch \in Seq(Calls)
    /\ llmPc \in {"top", "items", "poll", "timeouts", "wait", "lastpoll", "exited"}
    /\ closing \subseteq conns /\ conns \subseteq called /\ active \subseteq called
    /\ contexts \subseteq called /\ expired \subseteq called /\ sent \subseteq called
    /\ llmRunning \in BOOLEAN /\ freed \in BOOLEAN /\ faulty \in BOOLEAN
    /\ results \in [Calls -> Seq({"answer", "error"})]

\* A call is called back at most once, however answer, timeout and shutdown race,
\* and until then its context is allocated and in exactly one place: queued, in
\* the worker's batch, or on the active list with its connection open.
OneCallback ==
    \A c \in called :
        LET queued == \E i \in 1..Len(queue) : queue[i] = c
            taken == \E i \in 1..Len(batch) : batch[i] = c
        IN  IF results[c] = << >>
            THEN /\ c \in contexts
                 /\ \/ queued /\ ~taken /\ c \notin active
                    \/ ~queued /\ taken /\ c \notin active
                    \/ ~queued /\ ~taken /\ c \in active
                 /\ c \in active <=> c \in conns
            ELSE Len(results[c]) = 1 /\ ~queued /\ ~taken /\ c \notin active \cup contexts

\* Until the worker has left, neither it nor an event of the library uses a context
\* that was freed: answers, timeouts and the last poll each take a context off the
\* list and its connection away together.  (When llm_async_manager_free closes the
\* connections that Leave kept open, their contexts are gone already.)
NoUseAfterFree == ~freed => ~faulty

\* Every call is called back in the end: the time limit ends a connection on which
\* nothing happens, and a shutdown answers what is under way.
EveryCallAnswered == \A c \in Calls : c \in called ~> results[c] # << >>

\* One callback for each call, out of a context that is still there.
LlmSafe == OneCallback /\ NoUseAfterFree
=============================================================================
