----------------------------- MODULE McpClient -----------------------------
(***************************************************************************)
(* One client of the MCP tool bridge (src/plugins/tools/mcp_tools): the    *)
(* connection to a server over one of four transports, the handshake, the  *)
(* requests of the setup and of the tool executor's workers, and closing.  *)
(*                                                                         *)
(* A request is written or posted, and its sender then takes what the      *)
(* transport has received.  Responses carry the id of their request, but   *)
(* mcp_parse_response compares it with nothing.  The server is external:   *)
(* it answers requests in any order, may send messages nobody asked for,   *)
(* may end or hang, and, over HTTP, may forget the session.  The tools     *)
(* stay registered when the client is freed.                               *)
(***************************************************************************)
EXTENDS Integers, Sequences, FiniteSets

CONSTANTS Runs,          \* bound: for each MCP tool run by a worker of the executor, in
                         \* the order in which they begin, the tools it may be
          Kinds,         \* transports: "stdio", "websocket", "sse", "streamable_http"
          MaxAttempts,   \* MAX_RECONNECT_ATTEMPTS
          MaxCrashes,    \* bound: times the server ends or writes too long a line
          MaxMishaps     \* bound: those, failed posts, error responses, messages nobody
                         \* asked for and forgotten sessions, together

\* The thread that runs plugin_init, and the tool runs in the order in which they begin.
Setup == 0
Callers == DOMAIN Runs
Everyone == Callers \cup {Setup}
Threads == 1..(MaxCrashes + 1)

\* The tools registered for a client whatever its server offers.
Queries == {"resources/list", "resources/read", "prompts/list"}
ASSUME McpAssumption ==
    /\ Runs \in Seq(SUBSET ({"tools/call"} \cup Queries))
    /\ Kinds \subseteq {"stdio", "websocket", "sse", "streamable_http"}
    /\ MaxAttempts \in Nat /\ MaxCrashes \in Nat /\ MaxMishaps \in Nat

NoRequest == [by |-> Setup, method |-> "none"]

VARIABLES kind,      \* client->transport_type
          client,    \* the MCPClient, and which of its tools are registered
          link,      \* its transport: flags, received messages, session id
          thread,    \* the reader or poll threads, one after the other
          handle,    \* transport->reader_thread
          server,    \* the server, requests it has not answered, bounds used
          caller,    \* what each thread is doing
          executed,  \* history: tools/call requests of each caller that the server took
          closer,    \* mcp_client_disconnect: "none", "stopped", "joining", "reaping" or "done"
          joined,    \* the thread that is joined
          history    \* history: what happened that may mix up or break calls

vars == <<kind, client, link, thread, handle, server, caller, executed, closer, joined, history>>

Init ==
    /\ kind \in Kinds
    /\ client = [connected |-> FALSE, initialized |-> FALSE, tools |-> {}]
    /\ link = [data |-> "none", running |-> FALSE, open |-> FALSE, failed |-> FALSE,
               buf |-> << >>, attempts |-> 0, reconnecting |-> FALSE, sid |-> FALSE]
    /\ thread = [t \in Threads |-> "none"]
    /\ handle = 1
    /\ server = [up |-> TRUE, stuck |-> FALSE, greeted |-> FALSE, pending |-> {},
                 crashes |-> 0, mishaps |-> 0]
    /\ caller = [c \in Everyone |->
                    [task |-> IF c = Setup THEN "connect" ELSE "idle", at |-> "send",
                     retried |-> FALSE]]
    /\ executed = [c \in Callers |-> 0]
    /\ closer = "none"
    /\ joined = 1
    /\ history = {}

Polled == kind \in {"websocket", "sse"}
Posted == kind \in {"sse", "streamable_http"}

\* The bounds.
Mishap == server.mishaps < MaxMishaps
Spoilt(sv, bad) == [sv EXCEPT !.mishaps = IF bad THEN @ + 1 ELSE @]

Alive == link.data = "up"

-----------------------------------------------------------------------------
(* Connecting: mcp_client_connect and the init of each transport.          *)

Up == [link EXCEPT !.data = "up", !.running = TRUE]

\* After a successful init the setup goes on with mcp_client_list_tools.
Listing == [caller EXCEPT ![Setup].task = "initialize"]
SetupEnds == [caller EXCEPT ![Setup].task = "done"]

\* Start the server's process and a thread that reads its output.
StdioConnect ==
    /\ kind = "stdio" /\ caller[Setup].task = "connect"
    /\ link' = Up
    /\ thread' = [thread EXCEPT ![1] = "reading"]
    /\ client' = [client EXCEPT !.connected = TRUE]
    /\ caller' = Listing
    /\ UNCHANGED <<kind, handle, server, executed, closer, joined, history>>

\* Allocate the transport; there is no connection to keep.
HttpConnect ==
    /\ kind = "streamable_http" /\ caller[Setup].task = "connect"
    /\ link' = Up
    /\ client' = [client EXCEPT !.connected = TRUE]
    /\ caller' = Listing
    /\ UNCHANGED <<kind, thread, handle, server, executed, closer, joined, history>>

\* Start a poll thread and wait for the connection to open.
StartPoll ==
    /\ caller[Setup].task = "connect"
    /\ link' = Up
    /\ thread' = [thread EXCEPT ![1] = "reading"]
    /\ caller' = [caller EXCEPT ![Setup].task = "opening"]
    /\ UNCHANGED <<kind, client, handle, server, executed, closer, joined, history>>

WsConnect == kind = "websocket" /\ StartPoll
SseConnect == kind = "sse" /\ StartPoll

\* Pipe, fork, allocation or connection fails.
ConnectFails ==
    /\ caller[Setup].task = "connect"
    /\ caller' = SetupEnds
    /\ UNCHANGED <<kind, client, link, thread, handle, server, executed, closer, joined, history>>

\* What an event of the connection does to the transport.
Event(l) ==
    /\ thread[handle] = "reading" /\ Alive /\ link # l
    /\ link' = l
    /\ UNCHANGED <<kind, client, thread, handle, caller, executed, closer, joined, history>>

\* MG_EV_WS_OPEN, and the headers of the event stream with a status of success.
WsOpened == kind = "websocket" /\ server.up /\ Event([link EXCEPT !.open = TRUE]) /\ UNCHANGED server
SseOpened == kind = "sse" /\ server.up /\ ~link.failed /\ Event([link EXCEPT !.open = TRUE]) /\ UNCHANGED server

\* MG_EV_ERROR leaves a websocket running until MG_EV_CLOSE, and ends an SSE transport,
\* which a status of failure does not.
WsError ==
    /\ kind = "websocket" /\ Mishap
    /\ Event([link EXCEPT !.failed = TRUE])
    /\ server' = Spoilt(server, TRUE)
SseError ==
    /\ kind = "sse" /\ Mishap
    /\ \E r \in {FALSE, link.running} :
           Event([link EXCEPT !.failed = TRUE, !.running = r])
    /\ server' = Spoilt(server, TRUE)

\* MG_EV_CLOSE: the peer closed the connection, which stops the transport.
CloseEvent ==
    /\ Polled /\ link.running /\ (~server.up \/ link.failed)
    /\ Event([link EXCEPT !.running = FALSE])
    /\ UNCHANGED server

\* The wait for the connection is over.  A transport that is not ready is closed at
\* once, and the setup goes on without this client.
Ready ==
    IF link.open /\ ~link.failed
    THEN /\ client' = [client EXCEPT !.connected = TRUE]
         /\ caller' = Listing
         /\ UNCHANGED <<link, closer>>
    ELSE /\ link' = [link EXCEPT !.running = FALSE]
         /\ closer' = "stopped"
         /\ caller' = SetupEnds
         /\ UNCHANGED client

\* Ten seconds for the websocket; ten for the event stream and, once it is open, five
\* more for the event that names the address to post to.
WsWaitOpen ==
    /\ kind = "websocket" /\ caller[Setup].task = "opening"
    /\ Ready
    /\ UNCHANGED <<kind, thread, handle, server, executed, joined, history>>
SseWaitOpen ==
    /\ kind = "sse" /\ caller[Setup].task = "opening"
    /\ Ready
    /\ UNCHANGED <<kind, thread, handle, server, executed, joined, history>>

-----------------------------------------------------------------------------
(* How a request goes on: mcp_client_initialize, mcp_client_list_tools,    *)
(* mcp_client_call_tool, the list and read requests, and mcp_tool_execute  *)
(* with its single retry.                                                  *)

\* The caller's record when it starts on another request.
Goes(c, m) == [caller[c] EXCEPT !.task = m, !.at = "send"]
Ends(c) == [caller[c] EXCEPT !.task = "done", !.at = "send"]

\* mcp_can_retry and mcp_needs_reinitialize.
CanRetry(e) == e \in {"timeout", "connection", "session"}

\* The request of c ends with error e.  The setup registers the tools that need no
\* list and ends; a tool call is tried once more, after a new handshake if the
\* session is at fault; a handshake that fails in a retry is only logged.
Failure(c, e) ==
    IF c = Setup
    THEN /\ caller' = [caller EXCEPT ![c] = Ends(c)]
         /\ client' = [client EXCEPT !.tools = Queries]
    ELSE CASE caller[c].task \in Queries ->
                /\ caller' = [caller EXCEPT ![c] = Ends(c)]
                /\ UNCHANGED client
           [] caller[c].task = "tools/call" /\ (caller[c].retried \/ ~CanRetry(e)) ->
                /\ caller' = [caller EXCEPT ![c] = Ends(c)]
                /\ UNCHANGED client
           [] caller[c].task = "tools/call" /\ ~caller[c].retried /\ CanRetry(e) ->
                /\ caller' = [caller EXCEPT ![c] =
                     [Goes(c, IF e = "session" THEN "initialize" ELSE "tools/call")
                        EXCEPT !.retried = TRUE]]
                /\ client' = [client EXCEPT !.initialized = (e # "session") /\ @]
           [] OTHER ->
                /\ caller' = [caller EXCEPT ![c] = Goes(c, "tools/call")]
                /\ UNCHANGED client

\* A response without an error field completes a handshake, a call or a read, whatever
\* it answers; the result of a list must hold the list.
InitializeAccepts(msg) == msg.ok
CallAccepts(msg) == msg.ok
ReadAccepts(msg) == msg.ok
ListToolsAccepts(msg) == msg.ok /\ msg.req.method = "tools/list"
ListResourcesAccepts(msg) == msg.ok /\ msg.req.method = "resources/list"
ListPromptsAccepts(msg) == msg.ok /\ msg.req.method = "prompts/list"

Accepts(m, msg) ==
    \/ m = "initialize" /\ InitializeAccepts(msg)
    \/ m = "tools/list" /\ ListToolsAccepts(msg)
    \/ m = "tools/call" /\ CallAccepts(msg)
    \/ m = "resources/list" /\ ListResourcesAccepts(msg)
    \/ m = "resources/read" /\ ReadAccepts(msg)
    \/ m = "prompts/list" /\ ListPromptsAccepts(msg)

\* The request of c is answered.  After the setup's list its tools are registered.
Success(c) ==
    LET m == caller[c].task
    IN  CASE m = "initialize" ->
               /\ caller' = [caller EXCEPT ![c] = Goes(c, "notifications/initialized")]
               /\ UNCHANGED client
          [] m = "tools/list" /\ c = Setup ->
               /\ caller' = [caller EXCEPT ![c] = Ends(c)]
               /\ client' = [client EXCEPT !.tools = {"tools/call"} \cup Queries]
          [] m = "tools/list" /\ c # Setup ->
               /\ caller' = [caller EXCEPT ![c] = Goes(c, "tools/call")]
               /\ UNCHANGED client
          [] OTHER ->
               /\ caller' = [caller EXCEPT ![c] = Ends(c)]
               /\ UNCHANGED client

\* A worker of the executor runs one of the client's tools, which may have been freed.
Begin(c, m) ==
    /\ c \in Callers /\ caller[c].task = "idle"
    /\ \A d \in 1..(c - 1) : caller[d].task # "idle"
    /\ caller' = [caller EXCEPT ![c] = Goes(c, m)]
    /\ UNCHANGED <<kind, client, link, thread, handle, server, executed, closer, joined, history>>

Sending(c) == /\ caller[c].at = "send" /\ Alive
              /\ caller[c].task \notin {"connect", "opening", "idle", "done"}

\* Mutant: lists the tools without a handshake.
SkipInitializeAlways(c) ==
    /\ Sending(c) /\ caller[c].task = "initialize"
    /\ caller' = [caller EXCEPT ![c] = Goes(c, "tools/list")]
    /\ UNCHANGED <<kind, client, link, thread, handle, server, executed, closer, joined, history>>

\* mcp_client_initialize returns at once when the client is initialized.
SkipInitialize(c) ==
    /\ Sending(c) /\ caller[c].task = "initialize" /\ client.initialized
    /\ caller' = [caller EXCEPT ![c] = Goes(c, "tools/list")]
    /\ UNCHANGED <<kind, client, link, thread, handle, server, executed, closer, joined, history>>

MustSend(c) == Sending(c) /\ ~(caller[c].task = "initialize" /\ client.initialized)

-----------------------------------------------------------------------------
(* Sending.                                                                *)

Request(c) == [by |-> c, method |-> caller[c].task]
Expecting(c) == caller[c].task # "notifications/initialized"

\* The request was handed to the transport: a notification needs no answer and
\* completes the handshake; any other waits for one.
Handed(c) ==
    IF Expecting(c)
    THEN /\ caller' = [caller EXCEPT ![c].at = "recv"]
         /\ UNCHANGED client
    ELSE /\ caller' = [caller EXCEPT ![c] = Goes(c, "tools/list")]
         /\ client' = [client EXCEPT !.initialized = TRUE]

\* What the server does with a request it takes.
Taken(c) ==
    [server EXCEPT !.greeted = @ \/ caller[c].task = "initialize",
                   !.pending = IF Expecting(c) THEN @ \cup {Request(c)} ELSE @]

Counted(c) == [d \in Callers |-> executed[d] +
                  IF d = c /\ caller[c].task = "tools/call" THEN 1 ELSE 0]

\* Does the server take what it is sent?  A process that hangs reads nothing.
Takes == server.up /\ ~server.stuck

\* A request is under way while another thread waits for the answer to its own; a
\* server that has not seen the handshake takes a tool call.
Noted(c) ==
    history \cup (IF \E d \in Everyone \ {c} : caller[d].at = "recv" THEN {"mixed"} ELSE {})
            \cup (IF caller[c].task = "tools/call" /\ Takes /\ ~server.greeted
                  THEN {"ungreeted"} ELSE {})

SendFails(c, e) ==
    /\ Failure(c, e)
    /\ UNCHANGED <<kind, thread, handle, server, executed, closer, joined, history>>

\* Write a line to the process; fails once the transport stopped or the process ended.
\* What a process that hangs does not read stays in the pipe.
StdioSend(c) ==
    /\ kind = "stdio" /\ MustSend(c)
    /\ UNCHANGED link
    /\ IF link.running /\ server.up
       THEN /\ server' = IF Takes THEN Taken(c) ELSE server
            /\ executed' = IF Takes THEN Counted(c) ELSE executed
            /\ history' = Noted(c)
            /\ Handed(c)
            /\ UNCHANGED <<kind, thread, handle, closer, joined>>
       ELSE SendFails(c, "connection") /\ UNCHANGED server

\* The pipe is full: the write blocks.
StdioBlocks(c) ==
    /\ kind = "stdio" /\ MustSend(c) /\ link.running /\ server.up /\ server.stuck
    /\ caller' = [caller EXCEPT ![c].at = "write"]
    /\ UNCHANGED <<kind, client, link, thread, handle, server, executed, closer, joined, history>>

\* It fails when the process has ended, be it one that another has taken the place of.
StdioUnblocks(c) ==
    /\ kind = "stdio" /\ caller[c].at = "write" /\ Alive
    /\ ~server.up \/ "restarted" \in history
    /\ SendFails(c, "connection")
    /\ UNCHANGED <<link, server>>

\* Queue a frame; it is lost when the peer is gone and the close event has not come yet.
WsSend(c) ==
    /\ kind = "websocket" /\ MustSend(c)
    /\ UNCHANGED link
    /\ IF link.running /\ link.open
       THEN /\ server' = IF server.up THEN Taken(c) ELSE server
            /\ executed' = IF server.up THEN Counted(c) ELSE executed
            /\ history' = Noted(c)
            /\ Handed(c)
            /\ UNCHANGED <<kind, thread, handle, closer, joined>>
       ELSE SendFails(c, "connection") /\ UNCHANGED server

\* The server refuses a request that names no session, or one it has forgotten; only
\* a handshake opens a session.
Refused(c) == caller[c].task # "initialize" /\ ~(server.greeted /\ link.sid)

\* A POST that the server takes and answers with its body, or, over SSE, with an event
\* of the stream.
Answered(c, ok) ==
    /\ ~ok => Mishap /\ Expecting(c)
    /\ link' = [link EXCEPT !.sid = TRUE,
                           !.buf = IF Expecting(c)
                                   THEN Append(@, [req |-> Request(c), ok |-> ok]) ELSE @]
    /\ server' = Spoilt([Taken(c) EXCEPT !.pending = server.pending], ~ok)

AnsweredLater(c) ==
    /\ Expecting(c)
    /\ link' = [link EXCEPT !.sid = TRUE]
    /\ server' = Taken(c)

PostTaken(c) ==
    /\ server.up /\ ~Refused(c)
    /\ executed' = Counted(c)
    /\ history' = Noted(c)
    /\ Handed(c)
    /\ \/ \E ok \in BOOLEAN : Answered(c, ok)
       \/ kind = "sse" /\ AnsweredLater(c)
    /\ UNCHANGED <<kind, thread, handle, closer, joined>>

\* A POST refused for its session.  One that named a session is sent again without
\* it, and is refused again.
PostRefused(c) ==
    /\ server.up /\ Refused(c)
    /\ link' = [link EXCEPT !.sid = FALSE]
    /\ SendFails(c, "session")
    /\ UNCHANGED server

\* No connection, an error status, or thirty seconds without an answer.
PostFails(c) ==
    /\ server.up => Mishap
    /\ \E e \in {"connection", "timeout"} : SendFails(c, e)
    /\ server' = Spoilt(server, server.up)
    /\ UNCHANGED link

\* The POST times out although the server has taken the request, which over SSE it may
\* still answer.
PostTimesOut(c) ==
    /\ server.up /\ ~Refused(c) /\ Expecting(c) /\ Mishap
    /\ Failure(c, "timeout")
    /\ executed' = Counted(c)
    /\ server' = Spoilt([Taken(c) EXCEPT !.pending = IF kind = "sse" THEN @ ELSE server.pending],
                        TRUE)
    /\ history' = Noted(c) \cup {"mixed"}
    /\ UNCHANGED <<kind, link, thread, handle, closer, joined>>

\* A POST whose address answers 405 is repeated at the fallback address; which address
\* the server has is not modelled.
SseSend(c) ==
    /\ kind = "sse" /\ MustSend(c)
    /\ PostTaken(c) \/ PostRefused(c) \/ PostFails(c) \/ PostTimesOut(c)

HttpSend(c) ==
    /\ kind = "streamable_http" /\ MustSend(c)
    /\ PostTaken(c) \/ PostRefused(c) \/ PostFails(c) \/ PostTimesOut(c)

-----------------------------------------------------------------------------
(* Receiving.                                                              *)

\* The message reaches the caller: an error response fails the request.
Received(c, msg) ==
    IF Accepts(caller[c].task, msg) THEN Success(c) ELSE Failure(c, "other")

\* A message that answers another request is taken for the caller's own.
Matched(c) ==
    history \cup (IF Head(link.buf).req # Request(c) THEN {"foreign"} ELSE {})

\* The whole buffer is returned; the parser reads its first message and the others
\* are lost.
StdioRecv(c) ==
    /\ kind = "stdio" /\ caller[c].at = "recv" /\ Alive /\ link.running /\ link.buf # << >>
    /\ Received(c, Head(link.buf))
    /\ link' = [link EXCEPT !.buf = << >>]
    /\ history' = Matched(c)
    /\ UNCHANGED <<kind, thread, handle, server, executed, closer, joined>>

\* Mutant: the message stays in the buffer.
PoppedNothing == link

\* The other transports return one message of several.
Popped == [link EXCEPT !.buf = Tail(@)]

PopRecv(c) ==
    /\ caller[c].at = "recv" /\ Alive /\ link.buf # << >>
    /\ Received(c, Head(link.buf))
    /\ link' = Popped
    /\ history' = Matched(c)
    /\ UNCHANGED <<kind, thread, handle, server, executed, closer, joined>>

WsRecv(c) == kind = "websocket" /\ PopRecv(c)
SseRecv(c) == kind = "sse" /\ PopRecv(c)
HttpRecv(c) == kind = "streamable_http" /\ PopRecv(c)

\* Mutant: a receive without a time limit.
GiveUpStoppedOnly(c) ==
    /\ caller[c].at = "recv" /\ Alive /\ ~link.running
    /\ Failure(c, "timeout")
    /\ history' = history \cup {"mixed"}
    /\ UNCHANGED <<kind, link, thread, handle, server, executed, closer, joined>>

\* Thirty seconds pass, or the transport has stopped.
GiveUp(c) ==
    /\ caller[c].at = "recv" /\ Alive
    /\ link.buf = << >> \/ (kind = "stdio" /\ ~link.running)
    /\ Failure(c, "timeout")
    /\ history' = history \cup {"mixed"}
    /\ UNCHANGED <<kind, link, thread, handle, server, executed, closer, joined>>

-----------------------------------------------------------------------------
(* The reader and poll threads.                                            *)

\* A response to request r arrives and is appended to the buffer: a line of the process,
\* a websocket message, an event of the stream.
Answer(t, r, ok) ==
    /\ thread[t] = "reading" /\ t = handle /\ Alive /\ link.running /\ server.up
    /\ ok \/ Mishap
    /\ link' = [link EXCEPT !.buf = Append(@, [req |-> r, ok |-> ok])]
    /\ server' = Spoilt([server EXCEPT !.pending = @ \ {r}], ~ok)
    /\ UNCHANGED <<kind, client, thread, handle, caller, executed, closer, joined, history>>

StdioLine(t, r, ok) == kind = "stdio" /\ Answer(t, r, ok)
WsMessage(t, r, ok) == kind = "websocket" /\ Answer(t, r, ok)
SseEvent(t, r, ok) == kind = "sse" /\ Answer(t, r, ok)

\* So does a message that is no response.
Notification(t) ==
    /\ thread[t] = "reading" /\ t = handle /\ Alive /\ link.running /\ server.up
    /\ Mishap
    /\ link' = [link EXCEPT !.buf = Append(@, [req |-> NoRequest, ok |-> TRUE])]
    /\ server' = Spoilt(server, TRUE)
    /\ history' = history \cup {"mixed"}
    /\ UNCHANGED <<kind, client, thread, handle, caller, executed, closer, joined>>

\* The loop ends because running is down, on a transport that may be gone.
LoopEnds(t) ==
    /\ thread[t] = "reading" /\ ~link.running /\ Alive
    /\ thread' = [thread EXCEPT ![t] = "ended"]
    /\ UNCHANGED <<kind, client, link, handle, server, caller, executed, closer, joined, history>>

\* The reader leaves its loop: it sleeps before a new start of the process, unless one is
\* under way or the attempts are used up, which stops the transport.
StopsReading(t) ==
    /\ kind = "stdio" /\ thread[t] = "reading" /\ link.running /\ Alive
    /\ LET again == ~link.reconnecting /\ link.attempts < MaxAttempts
       IN  /\ thread' = [thread EXCEPT ![t] = IF again THEN "sleeping" ELSE "ended"]
           /\ link' = [link EXCEPT !.running = again,
                                   !.attempts = IF link.reconnecting THEN @ ELSE @ + 1]
    /\ UNCHANGED <<kind, client, handle, caller, executed, closer, joined, history>>

\* End of file on the process's output.
EndOfFile(t) == ~server.up /\ StopsReading(t) /\ UNCHANGED server

\* A line that fills the buffer: the next read, of no bytes, counts as an end of file.
LongLine(t) ==
    /\ server.up /\ server.crashes < MaxCrashes /\ Mishap
    /\ StopsReading(t)
    /\ server' = Spoilt([server EXCEPT !.crashes = @ + 1], TRUE)

\* Start the process again, drop what was received, start a new reader.  The flag
\* running is set whatever happened during the sleep; initialized is left alone, and so
\* is the old process.
Reconnect(t) ==
    /\ thread[t] = "sleeping" /\ Alive /\ t = handle /\ t + 1 \in Threads
    /\ link' = [link EXCEPT !.running = TRUE, !.buf = << >>, !.reconnecting = TRUE]
    /\ thread' = [thread EXCEPT ![t] = "returning", ![t + 1] = "reading"]
    /\ handle' = t + 1
    /\ server' = [server EXCEPT !.up = TRUE, !.stuck = FALSE, !.greeted = FALSE, !.pending = {}]
    /\ history' = history \cup {"restarted"}
    /\ UNCHANGED <<kind, client, caller, executed, closer, joined>>

ReconnectFails(t) ==
    /\ thread[t] = "sleeping" /\ Alive
    /\ link' = [link EXCEPT !.running = FALSE]
    /\ thread' = [thread EXCEPT ![t] = "ended"]
    /\ UNCHANGED <<kind, client, handle, server, caller, executed, closer, joined, history>>

\* The old reader resets the attempts and ends.
Returned(t) ==
    /\ thread[t] = "returning" /\ Alive
    /\ link' = [link EXCEPT !.reconnecting = FALSE, !.attempts = 0]
    /\ thread' = [thread EXCEPT ![t] = "ended"]
    /\ UNCHANGED <<kind, client, handle, server, caller, executed, closer, joined, history>>

-----------------------------------------------------------------------------
(* The server, and closing.                                                *)

\* The server ends, or closes the connection; over HTTP it only forgets its sessions.
Crash ==
    /\ kind # "streamable_http" /\ server.up /\ server.crashes < MaxCrashes /\ Mishap
    /\ closer # "done"
    /\ server' = [server EXCEPT !.up = FALSE, !.greeted = FALSE, !.pending = {},
                                !.crashes = @ + 1, !.mishaps = @ + 1]
    /\ UNCHANGED <<kind, client, link, thread, handle, caller, executed, closer, joined, history>>

\* The process neither reads nor ends when it is told to.
Hang ==
    /\ kind = "stdio" /\ server.up /\ closer # "done" /\ "hung" \notin history
    /\ server' = [server EXCEPT !.stuck = TRUE]
    /\ history' = history \cup {"hung"}
    /\ UNCHANGED <<kind, client, link, thread, handle, caller, executed, closer, joined>>

Expire ==
    /\ Posted /\ server.greeted /\ Mishap /\ closer # "done"
    /\ server' = Spoilt([server EXCEPT !.greeted = FALSE], TRUE)
    /\ UNCHANGED <<kind, client, link, thread, handle, caller, executed, closer, joined, history>>

Active == \E c \in Everyone : caller[c].task \notin {"idle", "done"}

\* mcp_manager_free, from plugin_cleanup, disconnects a connected client: the transport
\* is told to stop.  Over HTTP there is nothing to stop.
CloseStart ==
    /\ caller[Setup].task = "done" /\ closer = "none"
    /\ closer' = IF client.connected THEN "stopped" ELSE "done"
    /\ link' = [link EXCEPT !.running = FALSE]
    /\ history' = history \cup (IF \E t \in Threads : thread[t] \in {"sleeping", "returning"}
                                THEN {"raced"} ELSE {})
    /\ UNCHANGED <<kind, client, thread, handle, server, caller, executed, joined>>

\* Which thread is joined is read from the transport after that.
CloseJoin ==
    /\ closer = "stopped"
    /\ closer' = "joining"
    /\ joined' = handle
    /\ UNCHANGED <<kind, client, link, thread, handle, server, caller, executed, history>>

\* The thread has been joined.
Joined == closer = "joining" /\ thread[joined] \in {"none", "ended"}

\* The process is told to end, and waited for.
CloseReap ==
    /\ kind = "stdio" /\ Joined
    /\ closer' = "reaping"
    /\ UNCHANGED <<kind, client, link, thread, handle, server, caller, executed, joined, history>>

ServerTerminates ==
    /\ closer = "reaping" /\ Takes
    /\ server' = [server EXCEPT !.up = FALSE, !.greeted = FALSE, !.pending = {}]
    /\ UNCHANGED <<kind, client, link, thread, handle, caller, executed, closer, joined, history>>

\* Mutant: frees without a join.
CloseEndUnjoined ==
    /\ closer \in {"joining", "reaping"}
    /\ closer' = "done"
    /\ link' = [link EXCEPT !.data = "freed"]
    /\ client' = [client EXCEPT !.connected = FALSE]
    /\ UNCHANGED <<kind, thread, handle, server, caller, executed, joined, history>>

\* The transport and the client are freed.
CloseEnd ==
    /\ \/ kind # "stdio" /\ Joined
       \/ closer = "reaping" /\ ~server.up
    /\ closer' = "done"
    /\ link' = [link EXCEPT !.data = "freed"]
    /\ client' = [client EXCEPT !.connected = FALSE]
    /\ UNCHANGED <<kind, thread, handle, server, caller, executed, joined, history>>

\* What is still under way then, or begins later, uses freed memory; where that leads is
\* not followed.  Nothing keeps a tool run from it.
CallerUsesFreed(c) ==
    /\ link.data = "freed" /\ caller[c].task \notin {"idle", "done"}
    /\ caller' = [caller EXCEPT ![c] = Ends(c)]
    /\ history' = history \cup (IF c = Setup THEN {"faulty"} ELSE {})
    /\ UNCHANGED <<kind, client, link, thread, handle, server, executed, closer, joined>>

ThreadUsesFreed(t) ==
    /\ link.data = "freed" /\ thread[t] \notin {"none", "ended"}
    /\ thread' = [thread EXCEPT ![t] = "ended"]
    /\ history' = history \cup {"faulty"}
    /\ UNCHANGED <<kind, client, link, handle, server, caller, executed, closer, joined>>

\* A read or poll that finds nothing.
Idle(t) == thread[t] = "reading" /\ link.running /\ server.up /\ UNCHANGED vars

\* A write, or the wait for a process that does not end.
Waits == /\ closer = "reaping" \/ \E c \in Everyone : caller[c].at = "write"
         /\ UNCHANGED vars

Gone == closer = "done" /\ UNCHANGED vars

-----------------------------------------------------------------------------
Step(c) == \/ SkipInitialize(c) \/ StdioSend(c) \/ WsSend(c) \/ SseSend(c) \/ HttpSend(c)
           \/ StdioBlocks(c) \/ StdioUnblocks(c)
           \/ StdioRecv(c) \/ WsRecv(c) \/ SseRecv(c) \/ HttpRecv(c) \/ GiveUp(c)
           \/ CallerUsesFreed(c)

ThreadStep(t) == \/ LoopEnds(t) \/ EndOfFile(t)
                 \/ Reconnect(t) \/ ReconnectFails(t) \/ Returned(t) \/ ThreadUsesFreed(t)

Connect == \/ StdioConnect \/ HttpConnect \/ WsConnect \/ SseConnect \/ ConnectFails
           \/ WsWaitOpen \/ SseWaitOpen

Next ==
    \/ Connect \/ WsOpened \/ SseOpened \/ WsError \/ SseError \/ CloseEvent
    \/ \E c \in Callers : \E m \in client.tools \cap Runs[c] : Begin(c, m)
    \/ \E c \in Everyone : Step(c)
    \/ \E t \in Threads : ThreadStep(t) \/ LongLine(t) \/ Notification(t) \/ Idle(t)
    \/ \E t \in Threads, r \in server.pending, ok \in BOOLEAN :
          StdioLine(t, r, ok) \/ WsMessage(t, r, ok) \/ SseEvent(t, r, ok)
    \/ Crash \/ Hang \/ Expire
    \/ CloseStart \/ CloseJoin \/ CloseReap \/ ServerTerminates \/ CloseEnd
    \/ Waits \/ Gone

Spec == Init /\ [][Next]_vars

\* The setup, the callers and the threads run, waits with a time limit end in time, and a
\* process that does not hang ends when it is told to.  No server need ever answer, and
\* nobody need call or close.
FairSpec ==
    /\ Spec
    /\ WF_vars(Connect) /\ WF_vars(CloseEvent)
    /\ WF_vars(CloseJoin) /\ WF_vars(CloseReap) /\ WF_vars(ServerTerminates) /\ WF_vars(CloseEnd)
    /\ \A c \in Everyone : WF_vars(Step(c))
    /\ \A t \in Threads : WF_vars(ThreadStep(t))

-----------------------------------------------------------------------------
(* Properties.                                                             *)

\* What a request takes from the transport is the server's answer to that very request,
\* although no id is compared: true as long as no two requests are under way at a time,
\* no wait has given up on an answer that then comes late, and no unasked message has
\* come; across retries, lost sessions, new processes and error responses.
AnswerIsOwn == "foreign" \in history => "mixed" \in history

\* A server takes a tool call only after it has seen the handshake, across retries, new
\* handshakes by other callers, ends and hangs; the exception is a process that was
\* started anew, because the client stays initialized.  (Over HTTP and SSE it is the
\* server that refuses.)
HandshakeFirst == "ungreeted" \in history => "restarted" \in history

\* However sends, receives, reconnections and new handshakes fail, a tool run asks the
\* server for its side effect at most twice.
CalledAtMostTwice == \A c \in Callers : executed[c] <= 2

\* Neither the transport's own threads nor the setup use the transport after it was
\* freed, whatever the server and the callers do; unless the close came while the reader
\* was already starting the process again, which a close does not stop.
NoUseAfterClose == "faulty" \in history => "raced" \in history

\* The safety of a client's calls.
CallsSafe == HandshakeFirst /\ CalledAtMostTwice

\* Every tool run ends, whether the server answers, ends, forgets its session or is
\* silent; and a close returns, unless it raced with a new start of the process, whose
\* reader it may then join.  A process that hangs may hold up both: the pipe to it is
\* written to, and its end is waited for, without a time limit.
EveryRunEnds ==
    /\ Active ~> ~Active \/ "hung" \in history
    /\ closer # "none" ~> closer = "done" \/ {"raced", "hung"} \cap history # {}
=============================================================================
