------------------------------ MODULE AgentLoop ------------------------------
(***************************************************************************)
(* The agent loop (src/src/agent): the thread of agent_loop_run moves      *)
(* messages from the bus to the inbox; the processing worker takes results *)
(* of the model and of tools from the internal queue and, when there are   *)
(* none, a message from the inbox, and runs the handler of each.           *)
(*                                                                         *)
(* All sessions share the worker.  Each has a list of active tasks, a      *)
(* transcript and a file.  The operations of the session orchestrator find *)
(* a task by its session key and act on the FIRST one of that key.         *)
(*                                                                         *)
(* A handler is one action: other threads only append to the queues it     *)
(* does not read.  Memory is assumed to be available throughout.  The      *)
(* queues of the bus are the FIFO channels that MessageQueue implements.   *)
(***************************************************************************)
EXTENDS Integers, Session

CONSTANTS Keys,               \* session keys, "channel:chat_id"
          Kinds,              \* kinds of messages that arrive, see KindAssumption
          MaxRequests,        \* bound: messages that arrive
          MaxTurns,           \* config: agent.max_tool_iterations
          MaxCalls,           \* bound: tool calls of one answer of the model
          Outcomes,           \* kinds of results of the model, see LlmResult
          MemoryWindow,       \* config: agent.memory_window
          Stops               \* ways the process is told to stop, see StopsAssumption

\* "chat": a user's text.  "job": a cron job's text, not to be recorded.
\* "skill": a slash command that names a skill.  "stop": /stop.  "new": /new.
\* "command": any other slash command; here it only replies, what /reload-plugins does to
\* the plugins is in Plugins.  "empty": no content.
\* "exit": the console's request to leave.
ASSUME KindAssumption ==
    Kinds \subseteq {"chat", "job", "skill", "stop", "new", "command", "empty", "exit"}

\* "signal": SIGINT or SIGTERM.  "cleanup": main gives up because the outbound
\* thread cannot be created.
ASSUME StopsAssumption == Stops \subseteq {"signal", "cleanup"}

\* "error": the call failed or timed out.  "answer", "blank": a text, an empty
\* text.  "calls", "talk": tool calls, without and with a text.
ASSUME OutcomesAssumption == Outcomes \subseteq {"error", "answer", "blank", "calls", "talk"}

ASSUME BoundsAssumption ==
    /\ Keys # {}
    /\ MaxRequests \in Nat \ {0}
    /\ MaxTurns \in Nat \ {0}
    /\ MaxCalls \in Nat \ {0}
    /\ MemoryWindow \in Nat \ {0}

VARIABLES main,       \* where the thread of agent_loop_run is
          worker,     \* where the processing worker is
          running,    \* loop->running
          told,       \* history: the process was told to stop, "early" if before Start
          closed,     \* message_bus_close has run
          hand,       \* message held by the thread of agent_loop_run, 0 if none
          requests,   \* history: messages that arrived, in order; a request is its place
          inbound,    \* inbound queue of the bus: requests
          inbox,      \* loop->inbox_head: requests
          internal,   \* internal queue of the bus: results
          tasks,      \* active tasks of each session, oldest first
          sessions,   \* sessions of the session manager
          file,       \* session files
          llm,        \* calls of the model under way
          tools,      \* tool calls under way
          asks,       \* history: calls of the model made for each request
          replies     \* outbound messages sent for each request, in order

\* What the two threads share, and what only handlers and callbacks change.
threadVars == <<main, worker, running, told, closed, hand, inbound, inbox>>
handlerVars == <<internal, tasks, sessions, file, llm, tools, asks, replies>>
vars == <<main, worker, running, told, closed, hand, requests, inbound, inbox,
          internal, tasks, sessions, file, llm, tools, asks, replies>>

Request == 1..MaxRequests

Init ==
    /\ main = "new"
    /\ worker = "off"
    /\ running = FALSE
    /\ told = "no"
    /\ closed = FALSE
    /\ hand = 0
    /\ requests = << >>
    /\ inbound = << >>
    /\ inbox = << >>
    /\ internal = << >>
    /\ tasks = [k \in Keys |-> << >>]
    /\ file = [k \in Keys |-> NoFile]
    /\ sessions = [k \in Keys |-> LoadSession(NoFile)]
    /\ llm = {}
    /\ tools = {}
    /\ asks = [r \in Request |-> 0]
    /\ replies = [r \in Request |-> << >>]

-----------------------------------------------------------------------------
(* Messages arrive and the process is told to stop, at any time.           *)

\* A channel, the cron service or the heartbeat calls message_bus_send_inbound.
Arrive(k, kind) ==
    /\ Len(requests) < MaxRequests
    /\ requests' = Append(requests, [key |-> k, kind |-> kind])
    /\ inbound' = IF closed THEN inbound ELSE Append(inbound, Len(requests) + 1)
    /\ UNCHANGED <<main, worker, running, told, closed, hand, inbox>>
    /\ UNCHANGED handlerVars

Told == told' = IF main = "new" THEN "early" ELSE "yes"

\* handle_signal: only the flag is set.
RequestStop ==
    /\ "signal" \in Stops
    /\ running' = FALSE
    /\ Told
    /\ UNCHANGED <<main, worker, closed, hand, requests, inbound, inbox>>
    /\ UNCHANGED handlerVars

\* agent_loop_stop, from main's cleanup.
AgentLoopStop ==
    /\ "cleanup" \in Stops
    /\ running' = FALSE
    /\ Told
    /\ closed' = TRUE
    /\ UNCHANGED <<main, worker, hand, requests, inbound, inbox>>
    /\ UNCHANGED handlerVars

-----------------------------------------------------------------------------
(* agent_loop_run.                                                         *)

\* Set the flag, whatever it was, and start the worker.
Start ==
    /\ main = "new"
    /\ running' = TRUE
    /\ worker' = "poll"
    /\ main' = "loop"
    /\ UNCHANGED <<told, closed, hand, requests, inbound, inbox>>
    /\ UNCHANGED handlerVars

\* The worker cannot be created: agent_loop_run returns and main closes the bus.
StartFails ==
    /\ main = "new"
    /\ running' = FALSE
    /\ closed' = TRUE
    /\ main' = "done"
    /\ UNCHANGED <<worker, told, hand, requests, inbound, inbox>>
    /\ UNCHANGED handlerVars

\* Test the flag, and receive a message if there is one: otherwise the timed
\* receive returns NULL and the flag is tested again.
Loop ==
    /\ main = "loop"
    /\ IF ~running THEN main' = "closing" /\ UNCHANGED <<hand, inbound>>
       ELSE /\ inbound # << >>
            /\ main' = "hand"
            /\ hand' = Head(inbound)
            /\ inbound' = Tail(inbound)
    /\ UNCHANGED <<worker, running, told, closed, requests, inbox>>
    /\ UNCHANGED handlerVars

\* enqueue_inbound_task
Enqueued(r) == Append(inbox, r)

\* Mutant: the message stays in hand after it was queued.
HandOverKeeps ==
    /\ main = "hand"
    /\ IF requests[hand].kind = "exit"
       THEN running' = FALSE /\ Told /\ main' = "closing" /\ UNCHANGED inbox
       ELSE IF ~running
       THEN main' = "closing" /\ UNCHANGED <<running, told, inbox>>
       ELSE main' = "loop" /\ inbox' = Enqueued(hand) /\ UNCHANGED <<running, told>>
    /\ UNCHANGED <<worker, closed, hand, requests, inbound>>
    /\ UNCHANGED handlerVars

\* The console's exit message ends the loop; so does a stop that came meanwhile,
\* and the message in hand is dropped.
HandOver ==
    /\ main = "hand"
    /\ hand' = 0
    /\ IF requests[hand].kind = "exit"
       THEN running' = FALSE /\ Told /\ main' = "closing" /\ UNCHANGED inbox
       ELSE IF ~running
       THEN main' = "closing" /\ UNCHANGED <<running, told, inbox>>
       ELSE main' = "loop" /\ inbox' = Enqueued(hand) /\ UNCHANGED <<running, told>>
    /\ UNCHANGED <<worker, closed, requests, inbound>>
    /\ UNCHANGED handlerVars

CloseBus ==
    /\ main = "closing"
    /\ closed' = TRUE
    /\ main' = "join"
    /\ UNCHANGED <<worker, running, told, hand, requests, inbound, inbox>>
    /\ UNCHANGED handlerVars

\* pthread_join of the worker, and agent_loop_run returns.
Join ==
    /\ main = "join"
    /\ worker = "exited"
    /\ main' = "done"
    /\ UNCHANGED <<worker, running, told, closed, hand, requests, inbound, inbox>>
    /\ UNCHANGED handlerVars

-----------------------------------------------------------------------------
(* Steps of a handler.                                                     *)

\* message_bus_send_outbound of a reply to request r.
Replied(r, kind) ==
    IF closed THEN replies ELSE [replies EXCEPT ![r] = Append(@, kind)]

\* message_bus_send_internal
Posted(event) == IF closed THEN internal ELSE Append(internal, event)

\* session_orchestrator_snapshot_task: the copy leaves out the cancelled flag.
Snapshot(k) == [tasks[k][1] EXCEPT !.cancelled = FALSE]

\* The task that session_orchestrator_add_task appends.
NewTask(r, before) ==
    [req |-> r, state |-> "IDLE", turn |-> 0, pending |-> 0, cancelled |-> FALSE,
     norecord |-> requests[r].kind = "job", before |-> before]

\* The first task of a list begins a turn: session_orchestrator_update_task_state
\* and session_orchestrator_increment_task_turn.
TurnBegun(list) == [list EXCEPT ![1].state = "WAITING_LLM", ![1].turn = @ + 1]

\* add_active_task and process_message_async.  The task that begins a turn is the
\* new one unless the session had a task already.
TaskStarted(k, r, before) ==
    [tasks EXCEPT ![k] = TurnBegun(Append(@, NewTask(r, before)))]

\* session_orchestrator_cancel_tasks_by_session
TasksCancelled(k) ==
    [tasks EXCEPT ![k] = [i \in DOMAIN @ |-> [@[i] EXCEPT !.cancelled = TRUE]]]

\* trigger_llm_async: the transcript is copied into the request at once, and
\* exactly one result will come back.
TriggerLlm(k, r) ==
    /\ asks' = [asks EXCEPT ![r] = @ + 1]
    /\ llm' = llm \cup {[key |-> k, req |-> r, ask |-> asks[r] + 1]}

\* Save the session of a task that is recorded.
Kept(task, s, f) == IF task.norecord THEN s ELSE SessionAfterSave(s, f)
KeptFile(task, s, f) == IF task.norecord THEN f ELSE FileAfterSave(s, f)

\* Mutant: the task stays in the list.
RemovedByNobody(k) == tasks

\* Mutant: the messages of a job stay.
DroppedNothing(task, s) == s

\* Mutant: the rollback goes one message too far.
DroppedTooMuch(task, s) ==
    IF task.norecord THEN RollbackMessages(s, task.before - 1) ELSE s

\* remove_active_task: a task that is not recorded takes its messages with it.
Removed(k) == [tasks EXCEPT ![k] = Tail(@)]
Dropped(task, s) == IF task.norecord THEN RollbackMessages(s, task.before) ELSE s

-----------------------------------------------------------------------------
(* process_inbound_message.                                                *)

\* A chat message or a job for a session that is not busy.  The save that ends
\* a consolidation writes the message of a job as well; appending to the memory
\* files may fail, and then nothing is consolidated.
StartRequest(k, r) ==
    LET before == Len(sessions[k].msgs)
        s == AddMessage(sessions[k], User(r))
    IN  /\ \/ /\ sessions' = [sessions EXCEPT ![k] = Normalised(s)]
              /\ UNCHANGED file
           \/ /\ ConsolidationDue(s, MemoryWindow)
              /\ sessions' = [sessions EXCEPT ![k] = SessionAfterSave(Consolidated(s), file[k])]
              /\ file' = [file EXCEPT ![k] = FileAfterSave(Consolidated(s), file[k])]
        /\ tasks' = TaskStarted(k, r, before)
        /\ TriggerLlm(k, r)

\* Mutant: a session whose tools run counts as free.
BusyWhileAsked(k) == tasks[k] # << >> /\ Snapshot(k).state = "WAITING_LLM"

Busy(k) == tasks[k] # << >> /\ Snapshot(k).state # "IDLE"

\* Mutant: the busy notice is sent, and the message is processed all the same.
ProcessChatNoReturn(k, r) ==
    /\ replies' = IF Busy(k) THEN Replied(r, "busy") ELSE replies
    /\ StartRequest(k, r)

ProcessChat(k, r) ==
    IF Busy(k)
    THEN replies' = Replied(r, "busy") /\ UNCHANGED <<tasks, sessions, file, llm, asks>>
    ELSE StartRequest(k, r) /\ UNCHANGED replies

\* handle_skill_fallback_command starts a task whether or not the session is
\* busy, and does not consolidate.
ProcessSkill(k, r) ==
    LET s == AddMessage(sessions[k], User(r))
    IN  /\ sessions' = [sessions EXCEPT ![k] = s]
        /\ tasks' = TaskStarted(k, r, Len(s.msgs))
        /\ TriggerLlm(k, r)
        /\ UNCHANGED <<file, replies>>

\* cmd_stop
ProcessStop(k, r) ==
    /\ tasks' = TasksCancelled(k)
    /\ replies' = Replied(r, "command")
    /\ UNCHANGED <<sessions, file, llm, asks>>

\* cmd_new: command_ctx_reset_session only writes a log line.
ProcessNew(r) ==
    /\ replies' = Replied(r, "command")
    /\ UNCHANGED <<tasks, sessions, file, llm, asks>>

ProcessCommand(r) ==
    /\ replies' = Replied(r, "command")
    /\ UNCHANGED <<tasks, sessions, file, llm, asks>>

ProcessEmpty == UNCHANGED <<tasks, sessions, file, llm, asks, replies>>

ProcessInbound(r) ==
    LET k == requests[r].key
        kind == requests[r].kind
    IN  \/ kind \in {"chat", "job"} /\ ProcessChat(k, r)
        \/ kind = "skill" /\ ProcessSkill(k, r)
        \/ kind = "stop" /\ ProcessStop(k, r)
        \/ kind = "new" /\ ProcessNew(r)
        \/ kind = "command" /\ ProcessCommand(r)
        \/ kind = "empty" /\ ProcessEmpty

-----------------------------------------------------------------------------
(* handle_event_llm_result.                                                *)

\* The model failed, or answered with text: the request is over.  A text that
\* is empty is sent but neither recorded nor saved.
EndRequest(k, task, kind) ==
    LET s == IF kind = "blank" THEN sessions[k]
             ELSE AddMessage(sessions[k], Assistant(task.req, {}))
    IN  /\ sessions' = [sessions EXCEPT ![k] =
               Dropped(task, IF kind = "blank" THEN s ELSE Kept(task, s, file[k]))]
        /\ file' = [file EXCEPT ![k] =
               IF kind = "blank" THEN @ ELSE KeptFile(task, s, @)]
        /\ replies' = Replied(task.req, kind)
        /\ tasks' = Removed(k)
        /\ UNCHANGED <<llm, tools, asks>>

\* The model called n tools: the calls are recorded and all submitted.  Text
\* that comes with the calls is passed on.
CallTools(k, task, e) ==
    LET calls == {<<e.req, e.ask, i>> : i \in 1..e.res.n}
        s == AddMessage(sessions[k], Assistant(task.req, calls))
    IN  /\ sessions' = [sessions EXCEPT ![k] = Kept(task, s, file[k])]
        /\ file' = [file EXCEPT ![k] = KeptFile(task, s, @)]
        /\ replies' = IF e.res.kind = "talk" THEN Replied(task.req, "progress") ELSE replies
        /\ tasks' = [tasks EXCEPT ![k][1].state = "WAITING_TOOL", ![k][1].pending = e.res.n]
        /\ tools' = tools \cup [key : {k}, call : calls]
        /\ UNCHANGED <<llm, asks>>

\* The result of a cancelled task is discarded, and the task with it.
DiscardLlmResult(k, task) ==
    /\ tasks' = Removed(k)
    /\ sessions' = [sessions EXCEPT ![k] = Dropped(task, @)]
    /\ UNCHANGED <<file, llm, tools, asks, replies>>

HandleLlmResult(e) ==
    LET k == e.key
        snap == Snapshot(k)
    IN  IF tasks[k] = << >>
        THEN UNCHANGED <<tasks, sessions, file, llm, tools, asks, replies>>
        ELSE IF snap.cancelled
        THEN DiscardLlmResult(k, snap)
        ELSE \/ e.res.kind \in {"error", "answer", "blank"} /\ EndRequest(k, snap, e.res.kind)
             \/ e.res.kind \in {"calls", "talk"} /\ CallTools(k, snap, e)

-----------------------------------------------------------------------------
(* handle_event_tool_result.                                               *)

\* Mutant: one tool too few is waited for.
RemainingSkips(task) == task.pending - 2

\* Mutant: the tool that just ended is still waited for.
RemainingStuck(task) == task.pending

\* session_orchestrator_decrement_task_pending_tools: what it returns, and what
\* it does.
Remaining(task) == task.pending - 1
Decremented(k) == [tasks EXCEPT ![k][1].pending = @ - 1]

TurnsUsedUp(task) == task.turn >= MaxTurns

DiscardToolResult(k, task) ==
    /\ IF Remaining(task) <= 0
       THEN tasks' = Removed(k) /\ sessions' = [sessions EXCEPT ![k] = Dropped(task, @)]
       ELSE tasks' = Decremented(k) /\ UNCHANGED sessions
    /\ UNCHANGED <<file, llm, asks, replies>>

\* The answer is recorded.  After the last one the model is asked again, unless
\* the turns are used up.
RecordToolResult(k, task, e) ==
    LET s == AddMessage(sessions[k], ToolAnswer(task.req, e.call))
        kept == Kept(task, s, file[k])
    IN  /\ file' = [file EXCEPT ![k] = KeptFile(task, s, @)]
        /\ IF Remaining(task) > 0
           THEN /\ tasks' = Decremented(k)
                /\ sessions' = [sessions EXCEPT ![k] = kept]
                /\ UNCHANGED <<llm, asks, replies>>
           ELSE IF TurnsUsedUp(task)
           THEN /\ tasks' = Removed(k)
                /\ sessions' = [sessions EXCEPT ![k] = Dropped(task, kept)]
                /\ replies' = Replied(task.req, "limit")
                /\ UNCHANGED <<llm, asks>>
           ELSE /\ tasks' = [Decremented(k) EXCEPT ![k] = TurnBegun(@)]
                /\ sessions' = [sessions EXCEPT ![k] = kept]
                /\ TriggerLlm(k, task.req)
                /\ UNCHANGED replies

HandleToolResult(e) ==
    LET k == e.key
        snap == Snapshot(k)
    IN  /\ IF tasks[k] = << >>
           THEN UNCHANGED <<tasks, sessions, file, llm, asks, replies>>
           ELSE IF snap.cancelled
           THEN DiscardToolResult(k, snap)
           ELSE RecordToolResult(k, snap, e)
        /\ UNCHANGED tools

-----------------------------------------------------------------------------
(* agent_loop_processing_worker.                                           *)

\* A result is handled before any message.
TakeEvent ==
    /\ worker = "poll"
    /\ internal # << >>
    /\ internal' = Tail(internal)
    /\ \/ Head(internal).type = "llm" /\ HandleLlmResult(Head(internal))
       \/ Head(internal).type = "tool" /\ HandleToolResult(Head(internal))
    /\ UNCHANGED threadVars /\ UNCHANGED requests

\* message_bus_receive_internal_timed times out.
NoEvent ==
    /\ worker = "poll"
    /\ internal = << >>
    /\ worker' = "inbox"
    /\ UNCHANGED <<main, running, told, closed, hand, requests, inbound, inbox>>
    /\ UNCHANGED handlerVars

\* dequeue_inbound_task returns a message, and it is processed.
TakeMessage ==
    /\ worker = "inbox"
    /\ inbox # << >>
    /\ inbox' = Tail(inbox)
    /\ worker' = "poll"
    /\ ProcessInbound(Head(inbox))
    /\ UNCHANGED <<main, running, told, closed, hand, requests, inbound, internal, tools>>

\* dequeue_inbound_task returns NULL.
NoMessage ==
    /\ worker = "inbox"
    /\ inbox = << >>
    /\ worker' = "check"
    /\ UNCHANGED <<main, running, told, closed, hand, requests, inbound, inbox>>
    /\ UNCHANGED handlerVars

\* Mutant: the flag is not tested.
CheckNothing ==
    /\ worker = "check"
    /\ worker' = "poll"
    /\ UNCHANGED <<main, running, told, closed, hand, requests, inbound, inbox>>
    /\ UNCHANGED handlerVars

\* Only now is the flag tested, after the inbox was unlocked.
CheckRunning ==
    /\ worker = "check"
    /\ worker' = IF running THEN "poll" ELSE "exited"
    /\ UNCHANGED <<main, running, told, closed, hand, requests, inbound, inbox>>
    /\ UNCHANGED handlerVars

-----------------------------------------------------------------------------
(* The threads of the provider and of the tool executor.                   *)

\* What the model may answer: an error (a timeout too), a text that is or is not
\* empty, or tool calls with or without a text.
LlmResult == [kind : Outcomes \cap {"error", "answer", "blank"}, n : {0}]
             \cup [kind : Outcomes \cap {"calls", "talk"}, n : 1..MaxCalls]

\* Mutant: the call may come back once more.
LlmCallbackTwice(c, res) ==
    /\ c \in llm
    /\ internal' = Posted([type |-> "llm", key |-> c.key, req |-> c.req, ask |-> c.ask,
                           res |-> res])
    /\ UNCHANGED threadVars
    /\ UNCHANGED <<requests, tasks, sessions, file, llm, tools, asks, replies>>

\* handle_llm_callback
LlmCallback(c, res) ==
    /\ c \in llm
    /\ llm' = llm \ {c}
    /\ internal' = Posted([type |-> "llm", key |-> c.key, req |-> c.req, ask |-> c.ask,
                           res |-> res])
    /\ UNCHANGED threadVars
    /\ UNCHANGED <<requests, tasks, sessions, file, tools, asks, replies>>

\* tool_executor_callback, with a result or an error.
ToolCallback(t) ==
    /\ t \in tools
    /\ tools' = tools \ {t}
    /\ internal' = Posted([type |-> "tool", key |-> t.key, call |-> t.call])
    /\ UNCHANGED threadVars
    /\ UNCHANGED <<requests, tasks, sessions, file, llm, asks, replies>>

-----------------------------------------------------------------------------

\* After agent_loop_run has returned and the calls under way have come back.
Done == main = "done" /\ UNCHANGED vars

Main == Start \/ StartFails \/ Loop \/ HandOver \/ CloseBus \/ Join

Worker == TakeEvent \/ NoEvent \/ TakeMessage \/ NoMessage \/ CheckRunning

Callback == \/ \E c \in llm, res \in LlmResult : LlmCallback(c, res)
            \/ \E t \in tools : ToolCallback(t)

Next ==
    \/ \E k \in Keys, kind \in Kinds : Arrive(k, kind)
    \/ RequestStop
    \/ AgentLoopStop
    \/ Main
    \/ Worker
    \/ Callback
    \/ Done

Spec == Init /\ [][Next]_vars

\* Both threads keep running, a call of the model ends (the provider gives up
\* after 120 seconds) and so does a tool.
FairSpec == Spec /\ WF_vars(Main) /\ WF_vars(Worker) /\ WF_vars(Callback)

-----------------------------------------------------------------------------
(* Properties.                                                             *)

Finals == {"answer", "error", "blank", "limit", "busy", "command"}

Task == [req : Request, state : {"IDLE", "WAITING_LLM", "WAITING_TOOL"}, turn : Nat,
         pending : Int, cancelled : BOOLEAN, norecord : BOOLEAN, before : Nat]

Call == Request \X (Nat \ {0}) \X (1..MaxCalls)

\* Types of the variables.
TypeOK ==
    /\ main \in {"new", "loop", "hand", "closing", "join", "done"}
    /\ worker \in {"off", "poll", "inbox", "check", "exited"}
    /\ running \in BOOLEAN /\ told \in {"no", "early", "yes"} /\ closed \in BOOLEAN
    /\ requests \in Seq([key : Keys, kind : Kinds]) /\ Len(requests) <= MaxRequests
    /\ hand \in 0..Len(requests) /\ (hand # 0 <=> main = "hand")
    /\ inbound \in Seq(1..Len(requests))
    /\ inbox \in Seq(1..Len(requests))
    /\ internal \in Seq([type : {"llm"}, key : Keys, req : Request, ask : Nat \ {0},
                         res : LlmResult]
                        \cup [type : {"tool"}, key : Keys, call : Call])
    /\ tasks \in [Keys -> Seq(Task)]
    /\ \A k \in Keys : sessions[k].saved <= Len(sessions[k].msgs)
    /\ llm \subseteq [key : Keys, req : Request, ask : Nat \ {0}]
    /\ tools \subseteq [key : Keys, call : Call]
    /\ asks \in [Request -> Nat]
    /\ replies \in [Request -> Seq(Finals \cup {"progress"})]

LlmEvents(k) == {i \in DOMAIN internal : internal[i].type = "llm" /\ internal[i].key = k}
ToolEvents(k) == {i \in DOMAIN internal : internal[i].type = "tool" /\ internal[i].key = k}

\* A result on its way, from the model or from a tool, finds its session's first
\* task to be the one that asked for it, in the state that waits for it.  Events
\* carry only the session key (AsyncContext, ToolAsyncContext), so nothing but
\* this keeps the result of one request out of another.
ResultsFindTheirTask ==
    \A k \in Keys :
        LET first == tasks[k][1]
            waits(state, r) == tasks[k] # << >> /\ first.state = state /\ first.req = r
        IN  /\ \A c \in llm : c.key = k => waits("WAITING_LLM", c.req)
            /\ \A i \in LlmEvents(k) : waits("WAITING_LLM", internal[i].req)
            /\ \A t \in tools : t.key = k => waits("WAITING_TOOL", t.call[1])
            /\ \A i \in ToolEvents(k) : waits("WAITING_TOOL", internal[i].call[1])

\* Results on their way to session k, and its state as the busy test sees it.
Owed(k) ==
    Cardinality({c \in llm : c.key = k}) + Cardinality({t \in tools : t.key = k})
    + Cardinality(LlmEvents(k) \cup ToolEvents(k))
FlowState(k) == IF tasks[k] = << >> THEN "IDLE" ELSE tasks[k][1].state

\* Each session is the state machine of the README: it waits for as many results
\* as are on their way, and takes up a request only when none is.
Flow == INSTANCE SessionFlow WITH
            Key <- Keys,
            flow <- [k \in Keys |-> FlowState(k)],
            owed <- [k \in Keys |-> Owed(k)],
            stopping <- closed
ImplementsFlow == Flow!Spec

\* The model is never sent a history in which a tool call lacks its answer or an
\* answer its call: the history is the end of the transcript when the call of the
\* model is made, and the transcript does not change before its result is handled
\* (trigger_llm_async, build_messages_json, handle_event_tool_result).
AskedWellFormed == \A c \in llm : WellFormed(Window(sessions[c.key].msgs, MemoryWindow))

\* A request has at most one reply that ends it, and nothing is sent after it:
\* no late result, busy notice or turn limit follows the answer.
OneFinalReply ==
    \A r \in Request : \A i \in 1..Len(replies[r]) :
        replies[r][i] \in Finals => i = Len(replies[r])

\* Where request r is while it is not over.
Places(r) ==
    {p \in {"inbound", "hand", "inbox", "task"} :
        \/ p = "inbound" /\ \E i \in 1..Len(inbound) : inbound[i] = r
        \/ p = "hand" /\ hand = r
        \/ p = "inbox" /\ \E i \in 1..Len(inbox) : inbox[i] = r
        \/ p = "task" /\ \E k \in Keys : \E i \in 1..Len(tasks[k]) : tasks[k][i].req = r}
Over(r) == \E i \in 1..Len(replies[r]) : replies[r][i] \in Finals
Expected(r) == r <= Len(requests) /\ requests[r].kind \notin {"empty", "exit"}

\* As long as nobody stops the loop, every request that arrived is in exactly
\* one place, or over: none is lost between the bus, the inbox and the task
\* list, and none is processed twice.
NothingForgotten ==
    running /\ ~closed =>
        \A r \in Request : Expected(r) =>
            IF Over(r) THEN Places(r) = {} ELSE Cardinality(Places(r)) = 1

\* No skill command has let two tasks of a session overlap.
NoSkill == \A r \in 1..Len(requests) : requests[r].kind # "skill"

JobRequests == {r \in 1..Len(requests) : requests[r].kind = "job"}
\* Nothing in a transcript belongs to a job.
Recorded(msgs) == \A i \in 1..Len(msgs) : msgs[i].req \notin JobRequests
NoJobActive(k) == \A i \in 1..Len(tasks[k]) : ~tasks[k][i].norecord

\* A cron job leaves the session as it found it: once its task is gone, neither
\* the transcript nor the file has a message of it (no_session_record).  Not so if
\* a skill command or a consolidation came in between.
JobLeavesNoTrace ==
    NoSkill => \A k \in Keys : NoJobActive(k) =>
                   Recorded(sessions[k].msgs) /\ Recorded(file[k].lines)

\* The file holds exactly the first last_saved_count messages of the session, so
\* that a restart loads what the session was: no save repeats, skips or keeps a
\* message that was rolled back (session_manager_save, session_rollback_messages).
FileFollows ==
    \A k \in Keys : file[k].exists =>
        file[k].lines = SubSeq(sessions[k].msgs, 1, sessions[k].saved)

IsPrefixOf(s, t) == Len(s) <= Len(t) /\ SubSeq(t, 1, Len(s)) = s

\* What is recorded stays: rolling back a job never removes or reorders a message
\* of a conversation, in memory or in the file, unless a skill command overlaps it.
RecordsStay ==
    [][NoSkill => \A k \in Keys :
           /\ \A i \in 1..Len(sessions[k].msgs) :
                  sessions[k].msgs[i].req \notin JobRequests =>
                      IsPrefixOf(SubSeq(sessions[k].msgs, 1, i), sessions[k].msgs')
           /\ IsPrefixOf(file[k].lines, file[k].lines')]_vars

\* A task that /stop has cancelled sends nothing more: "Task %s was cancelled,
\* discarding LLM result" (handle_event_llm_result).
StoppedStaysSilent ==
    [][\A k \in Keys : \A i \in 1..Len(tasks[k]) :
           tasks[k][i].cancelled => replies'[tasks[k][i].req] = replies[tasks[k][i].req]]_vars

\* Every request is answered in the end, unless the process is told to stop.
EveryRequestAnswered ==
    \A r \in Request : Expected(r) ~> (Over(r) \/ told # "no" \/ main = "done")

\* A stop is honoured once agent_loop_run has begun: it returns, so that main's
\* pthread_join does.  (An earlier stop is overwritten, see Start.)
StopHonoured == told = "yes" ~> main = "done"

\* Requests, tasks and results belong together, each request ends once, and none is lost.
RequestsSafe == ResultsFindTheirTask /\ OneFinalReply /\ NothingForgotten

\* What the model is sent can be sent, and the file is what a restart needs.
TranscriptSafe == AskedWellFormed /\ FileFollows
=============================================================================
