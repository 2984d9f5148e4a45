# Primagen: models, checks and proofs

This directory is a TLA+ development for Primagen, an agent written in C. It models
the threads, queues, tasks, files and call-backs that carry a message from a chat
service to the language model and back, and the plugins and services around them. Definitions are
translated from the source under `src/`; `PROJECT.json` maps each one to the
lines it stands for.

Contents: the system and its parts, the modules and how they correspond to the
code, the runs, fairness, deviations, the proofs, what is not modelled, the plan.

## 1. The system

A channel (console, web interface, a chat service) or the cron service
puts an inbound message on the bus. The thread of `agent_loop_run` moves it to
the inbox of the agent loop. One processing worker takes, in this order, a
result from the internal queue or a message from the inbox, and runs its
handler. A chat message starts a *task*: the transcript of its session goes to
the model, asynchronously. The provider's worker calls back with a result, which
is posted on the internal queue. If the model calls tools, they go to the tool
executor, whose workers post their results on the internal queue too; after the
last one the model is asked again, up to `max_tool_iterations` times. Replies go
to the outbound queue, from which a thread of `main` hands them to channels.

Channels, commands, further tools and providers are plugins, shared libraries that
`main` loads before it makes the agent loop. The web interface is one of them, and can
switch the others on and off; the command `/reload-plugins` looks for new ones. MCP tools are calls to servers of their own, each behind a
client with one of four transports. What the agent learns goes to two files of long-term
memory, part of every prompt.

| Component | State | Operations | What makes it correct |
|---|---|---|---|
| message bus `bus/message_bus.c` | three ring buffers, closed flags | send, receive, timed receive, close, free | FIFO, nothing lost or owned twice, no lost wake-up, closing ends receivers |
| agent loop `agent/agent_loop.c` | running flag, inbox | two threads, handlers of messages and results | each request answered once; a result reaches the task that asked; stop is honoured |
| session orchestrator `agent/session_orchestrator.c` | list of tasks, each with state, turn, pending tools, cancelled | add, remove, find by key, count down | one task per session, waiting for exactly what is under way |
| command dispatcher `agent/command_dispatcher.c` | none of its own | slash commands, skill fallback | a command does what its reply says |
| session manager `session/session.c` | transcript, counters, JSONL file | add, roll back, save, load, window for the model | what was saved is loaded; a window never cuts a tool chain |
| memory `memory/memory.c`, prompt `context/context_builder.c` | facts and log, in memory and in two files; the prompt's copy | add, replace, append, consolidate, save, load, copy | what a tool reports as remembered stays; the prompt is current |
| cron service `cron/cron.c` | job list, `cron_jobs.json` | worker, add, update, remove, stop | a scheduled job is kept, stored and fired once per due time |
| tool executor `tools/tool_executor.c` | request queue, worker pool, shared contexts | submit, execute and wait, destroy | one call-back per request, no use of a context or frame that is gone |
| provider `providers/openai_provider.c` | request queue, connections, active list | call, worker, event handler, stop | exactly one call-back per call |
| subagent manager `subagent/subagent.c` | list of subagents, each with loop, bus, thread | spawn, run, relay, cancel, destroy | limit kept, messages relayed in order and in full, everything freed after its last use |
| MCP client `plugins/tools/mcp_tools` | transport, received messages, reader thread, handshake done | connect, initialize, list, call, reconnect, close | an answer goes to its request; handshake before calls; every call ends |
| Feishu and DingTalk, receiving | token, websocket, ring of event ids, parts of events, reconnect counter | receive thread, start, stop, destroy | no event lost, repeated or mixed up; stop returns |
| sending, `main.c` and all channels | access tokens | one send per reply, with retries and fallbacks | sent once, and the thread returns |
| web interface `webui_channel.c` | unread replies, waiting polls | send, poll, timer, close | a reply reaches a poll of its chat, once |
| plugin manager, registries, router `plugin/`, `tools/tool.c`, `providers/llm_provider.c` | loaded plugins, tools, commands, channels, providers | load, unload, register, look up | what is registered is there |
| start-up and clean-up `main.c` | – | make, start, stop and free everything in order | nothing is used before it is made or after it is freed |

The hard parts are the same throughout: work continues on another thread and
comes back with nothing but a key; locks are released around call-backs; time
limits race late answers; a stop arrives in the middle of everything; a process
dies between two writes. `PROJECT.json` lists these hazards with their lines and
the properties that watch them.

## 2. The modules

| Module | What it is |
|---|---|
| `FifoChannel` | abstract: what a queue promises, an unbounded FIFO with close and release |
| `MessageQueue` | one queue of the bus, with ring arithmetic, growth, mutex and condition variable; implements `FifoChannel` |
| `SessionFlow` | abstract: the state machine of the repository's README, IDLE / WAITING_LLM / WAITING_TOOL, with the number of results owed to the session |
| `Session` | the operations on a session and its file as operators on values |
| `AgentLoop`, `MCAgentLoop` | the agent loop with orchestrator, commands and sessions; implements `SessionFlow` |
| `ContextWindow` | the window of the transcript against a reference definition |
| `SessionStore` | one session file across failing writes, crashes and restarts |
| `Cron` | the cron service |
| `ToolExecutor` | the tool executor |
| `LlmAsync` | the provider's asynchronous calls |
| `Subagent` | the subagent manager |
| `Memory` | long-term memory, the memory tool and the prompt's copy of the facts |
| `McpClient`, `MCMcpClient` | one MCP client with its server |
| `BotReceiver` | the receiving side of Feishu and DingTalk |
| `BotSender` | the outbound thread and the sending side of every channel |
| `WebUI` | the chat of the web interface |
| `Plugins`, `MCProcess` | plugins, registries, and `main` from start-up to clean-up |
| `MCServices` | instance of `ToolExecutor`, `LlmAsync` and `Cron` |
| `MCRecords` | instance of `SessionStore`, `ContextWindow` and `Memory` |
| `MCChannels` | instance of `BotReceiver`, `BotSender` and `WebUI` |
| `MessageQueueProofs`, `McpClientProofs`, `AgentLoopProofs` | the proofs about the module they are named after, section 6 |
| `TranscriptProofs` | the proofs about what `AgentLoop` does to transcripts and session files |
| `AgentPartProofs` | the proofs about `Subagent`, `Memory`, `SessionStore` and `ContextWindow` |
| `ServiceProofs` | the proofs about `ToolExecutor`, `LlmAsync` and `Cron` |
| `ChannelProofs` | the proofs about `BotReceiver`, `BotSender`, `WebUI` and `Plugins` |
| `SequenceFacts` | what several proofs rest on: what appending, taking and concatenating do to the elements of a sequence that holds nothing twice; that a set of numbers has a least one, and what recursive functions over a sequence compute; how a transcript of `Session` grows and what its windows are |

`MCServices`, `MCRecords` and `MCChannels` are sums: the parts share no state, so a behaviour is one of a single part,
chosen at the start, and the others stay as they are. Nothing is lost by this, and nothing
is gained: an interleaving of parts that do not interact shows no more than each alone.

`AgentLoop` composes with the others by what they guarantee. Its queues are the
channels that `MessageQueue` is proved to implement. It assumes that a call of the
model and a submitted tool come back exactly once: that is `LlmSafe` and
`EveryCallAnswered` of `LlmAsync`, `ExecutorSafe` and `ExecutorLive` of
`ToolExecutor`. Its sessions and their saves are the operators of `Session`, which
`SessionStore` interrupts by crashes and `ContextWindow` compares with a reference.
Cron jobs arrive as requests of kind `job`. A subagent's loop is an `AgentLoop` seen
from outside. `BotReceiver` and `WebUI` send what `AgentLoop` calls `Arrive`; `BotSender`
and `WebUI` are the receiver that `MessageQueue` has for the outbound queue. `Plugins` has
all of them as things that `main` makes and frees, with an agent that runs tools and asks
the model at any moment.

### How state and actions correspond

**MessageQueue.** `items`, `front`, `rear`, `capacity`, `closed` are the struct's
fields. A critical section of the mutex is one action; a receiver that waits is
`waiting`, and `woken` until it has the mutex again. `Send` is `message_queue_send`
with its three ends: refused, stored in place, stored in a ring twice as large.
`sent`, `accepted`, `delivered` and `refused` are histories.

**AgentLoop.** `main` and `worker` are the program counters of the two threads; a
handler is one action, because the other threads only append to queues it does not
read while it runs. A request is its number; `requests` remembers its session and
kind. `tasks[k]` is the part of the orchestrator's list with key `k`, oldest first,
and every operation acts on the first, as the code's search by key does. A result
carries the session key; request and call number are in the event only so that
properties can say whose it is. `EndRequest`, `CallTools` and `RecordToolResult` are
the handlers' branches in the order of the code: record, save unless the task is not
recorded, reply, remove the task with its roll-back. `Snapshot` leaves out the
cancelled flag, as the code does, so `DiscardLlmResult` and `DiscardToolResult` are
present and never taken (section 5). The text of messages, reminders
found in a text and the routing of tools are left out.

**Session.** A message keeps its role, its request, and the calls it makes or answers.
A file is its metadata mark and its lines. `SessionAfterSave` and `FileAfterSave` are
the two effects of `session_manager_save`. `StepBack` is one round of the loop of
`adjust_context_start_for_tool_chain`.

**SessionStore.** Rewriting goes through a temporary file: write, then rename, with a
crash or a failure possible in between. A line is a sequence of pieces, since an append
after a torn one continues its line; the reader takes the first JSON value of a line
that fits its buffer. Nobody looks at what `fprintf` and `fclose` return, so `RenameShort` and
`AppendShort` leave a beginning of what was written and report success. `RestartUnread` is a
file that is there and cannot be opened, or not be read to its end. `harm` remembers which of
the five things that break persistence has happened.

**Cron.** The list is a sequence of nodes. The worker holds the mutex at `walk`, not in
`callback`; `prev` and `current` survive the callback as the local variables do.
`Unlinked` says what the code's unlinking does with a `prev` that is no longer right:
with `NULL` everything before the node is cut off, with a freed node nothing is
unlinked and freed memory is written (`dangling`). `changed` and `clashed` remember
calls that came during a callback after which the job that fired was unlinked. A
schedule is `once`, `every` or `bad`, due one tick later.

**ToolExecutor.** A synchronous call and the worker share a context with two
references. `faulty` records the use of a context that is not allocated or of the frame
of a call that has returned. A timed wait may time out although the result has just been
stored; the code does not look again.

**LlmAsync.** The worker's loop is its program counter: take the queue, connect each
item, poll, check time limits, wait. Mongoose is external: it may deliver a connection's
one close event in a poll, with an answer or an error, and must for a connection marked
as closing.

**Subagent.** `runner` is the program counter of `subagent_task_runner`, `thread` the
loop's own thread, which sets `running` some time after it was created. `unwatched`
remembers runners that tested the flag before that; `hasty` remembers a manager that
cancelled or freed something it should have waited for.

**ContextWindow.** `Revive` is a restart in the middle of a tool chain: the calls that had
no answer never get one, and the conversation goes on with the next message.

**Memory.** A text is abstracted to the set of its facts, or the sequence of its lines; a
fact may be the beginning of another, because the code searches with `strstr`. Each call
of the memory tool that locks the mutex is an action, so that the agent's thread, which
reads the file's time stamp, the version and the facts in three steps, gets in between.
`Cut` and `NewHistory` are the newline arithmetic of `memory_consolidate`. A save opens a file
for writing, which empties it, and writes; `HalfWritten` and `Written` are what can be there when
a write fails or the process dies, in the tool's save and in that of a consolidation
(`BeingSaved`). `MemoryLoadFails` is a load that cannot open or read a file. `excused`
names what the code loses, text by text, and why (`Reasons`): the step that loses it notes what
is then missing, nothing else.

**McpClient.** `caller` is where each thread is in a request: connecting, handshake, sent,
waiting, retry. The four transports differ in who receives (the caller itself over HTTP, a
reader or poll thread otherwise), in what a received message is appended to, and in
what a lost connection does. The server is external: it answers in any order or not at
all, ends, hangs, forgets its session, sends messages nobody asked for. A write to the pipe of a
process that hangs blocks or not (`StdioBlocks`, `StdioSend`), and a close waits for the process
(`CloseReap`). A line that fills the reader's buffer looks like the end of the process
(`LongLine`). The tools stay registered, so a run may begin when the client is freed
(`CallerUsesFreed`). `history` remembers `mixed` (two requests at a time, a wait that gave up, an
unasked message), `raced` (a close during a new start), `hung` and `restarted` of the server
process, and what came of it.

**BotReceiver.** `rx` is the program counter of the receive thread: token, address,
connect, poll, after, sleep. The service pushes an event, or a part of one, until it has
seen the acknowledgement, over whatever connection there is.

**BotSender.** A reply has a channel, perhaps a text, attachments, and for DingTalk a
webhook that may have expired. Each request to a service is an action with the outcomes
its callback tells apart; a connection that is closed without an event the callback waits
for leaves the thread `hung` where the code's loop has no limit.

**WebUI.** The server thread and the outbound thread each take the lock several times for
one poll or one reply; each critical section is an action. A waiter that was answered
while its timer fired is freed twice: the process may end there.

**Plugins.** `lib` has the handles of each library, which `dlopen` gives and `dlclose` takes, and
how often it was mapped, so that a registration knows
whether what it points to is still there (`Valid`) or not (`Dangles`). A load is its two
critical sections with the plugin's `init` between them. There are two loaders: `external`, which
goes through the directory for `main` and later for `/reload-plugins` in a thread of the agent, and
`server`, the thread of the web interface; a plugin that both load at a time is listed twice.
A channel that `main` has destroyed stays in the array. Whoever follows a registration
that dangles ends the process, and `crash` says who and for which plugin.

Definitions whose comment begins with "Mutant" are changed versions of the definition
that follows; they are used only to make sure that the property named in
`PROJECT.json` notices the change.

## 3. The runs

Each run is `tlc -config <name>.cfg <module>`. Counts are distinct states.

| Run | Module | Bounds | States |
|---|---|---|---|
| `bus` | MessageQueue | 2 senders with 3 messages, a blocking and a polling receiver, 2 slots | 57 303 |
| `loop_sessions` | MCAgentLoop | 2 sessions (symmetric), 2 requests, 2 turns, 2 calls, memory window 4 | 315 697 |
| `loop_service` | AgentLoop | 1 session, 2 requests, 2 turns, 1 call, stops | 213 673 |
| `records` | MCRecords | file: 3 messages, 2 crashes, short and long lines; window: 8 messages, 3 calls at a time; memory: 2 tool workers (symmetric), 2 tool runs, 1 log entry, 1 mishap | 4 412 981 |
| `services` | MCServices | executor: 2 workers, 3 requests; provider: 3 calls; cron: 2 names, 2 calls, 3 ticks | 99 423 |
| `subagents` | Subagent | 2 subagents, 2 messages each, 1 empty receive ends the drain | 309 220 |
| `mcp` | MCMcpClient | each transport, 2 tool runs, the second a call or a list, 1 end of the server or long line, 1 mishap, 1 hang | 589 685 |
| `channels` | MCChannels | receiver: 3 events, 2 of them in parts, 3 mishaps; sender: 2 replies, 2 mishaps; web: 3 polls, 3 replies, 2 chats | 90 319 |
| `process` | MCProcess | 5 plugins, 2 switches or reloads, 1 failing load | 763 518 |
| `loop_cancel`, `loop_skill`, `cron_overlap` | AgentLoop, AgentLoop, Cron | as small as shows the violation | – |

A property that is a conjunction is the list of what its comments say, part by part; a
mutant of `PROJECT.json` breaks it, often one for each part. What the runs show, and why
the bounds suffice:

* **bus**: type, FIFO content of the ring (`FifoInv`), no lost wake-up
  (`NoLostWakeup`), each message owned by one place (`OwnedOnce`), refinement of
  `FifoChannel`, and under fairness that accepted messages are consumed and closing
  ends the blocking receiver (`QueueLive`). Two slots hold one message, so the ring grows
  to four and to eight, with `front` at every position. The theorems remove the bounds for
  the four invariants and the refinement.
* **loop_sessions**: every handler and every kind of answer. `RequestsSafe`: a result finds
  its task, a request is in one place until it is over and has one final reply.
  `TranscriptSafe`: the model is never asked with a call unanswered, and the file is what
  the session counts as saved. `ImplementsFlow`: a session is the README's state machine.
  The second request meets the first in every state: unprocessed, waiting for the model,
  for tools, or over. A first request with two calls fills the memory window, so that the
  second one consolidates.
* **loop_service**: cron jobs are rolled back without a trace and without touching what
  is recorded (`JobLeavesNoTrace`, `RecordsStay`, both proved in general); every request is
  answered unless the process is told to stop; a stop ends the loop. The memory window is too large for a
  consolidation (section 5).
* **records**, files: without harm, what a save reported as saved is loaded, and with any
  harm what is loaded is in order and not repeated (`StoreSafe`); a restart loads an
  initial part of the conversation (`RestartIsPrefix`). Two crashes are needed to append
  after a torn line and die again; with three messages one is saved, one torn and one appended to
  it, and each may be a long one. Window (`WindowSafe`): for every transcript in which
  tools answer in any order or die with the process, and every window size, the start is the
  nearest boundary of a tool chain, and what the model is sent is well-formed but for the
  calls that died. A chain of three answers is longer than some windows and shorter than
  others. Memory (`MemorySafe`): a prompt that counts as up to date has the facts that
  are in memory; a fact or log entry that a tool reported is in the files until it is meant
  to go, but for what `excused` names. Two workers
  and the agent's thread meet between every two calls; the caps are small enough to be hit, and
  the one mishap is at any place: an open, a read or a write that fails, a death, an edit.
* **services**, executor: the three kinds of request, each possibly refused, on two
  workers: no context or frame is used that is gone, one call-back each, nothing leaks, a
  result that is returned is there (`ExecutorSafe`); requests are answered and destruction
  returns (`ExecutorLive`). Provider: three calls, so that one is queued while one is taken
  and one is connected; one call-back each and no use after free (`LlmSafe`), every call
  answered. Cron: no promised job is lost from list or store (`JobsKept`), no node that is gone
  is written to and no job fires twice for one due time (`WalkSafe`), due jobs fire. Two
  calls give two jobs, or a job and an update, with a call at each moment of a callback.
* **subagents**: two subagents that overlap in every phase; the manager may be destroyed
  at any moment and may give up waiting. Messages are relayed in full and in order, nothing
  is used after it is freed, but for the cases of section 5 (`SubagentsSafe`).
* **mcp**: an answer is that of the request which takes it, as long as nothing `mixed` has
  happened (`AnswerIsOwn`); handshake before calls, and at most two executions of a tool
  run whatever fails (`CallsSafe`); closing is safe for the client's own threads unless it raced;
  every run and every close ends, unless the server process hangs. Two runs are enough to
  overlap, one mishap to retry; one end of the server
  gives each stdio run an old and a new process. Reading a resource and listing prompts differ from
  the list that is checked only in what answers them; the theorems have them all.
* **channels**, receiver: `ReceiverSafe` is about repeated, partial and acknowledged events
  and the thread's end; messages arrive, a stop returns. A dedup ring of two and one slot
  for parts are smaller than the number of events, so both overflow. Sender: nothing is
  taken twice by a service whose answers are framed and not lost, and the text is always
  tried (`SendSafe`); sends return. Web: replies are accounted for and polls answered at
  most once (`UiSafe`), and in the end (`PollAnswered`). Two polls of one chat and one of
  another meet replies of both.
* **process**: one plugin of each kind that matters: the web interface, a channel that wants
  the loop, one that does not join its thread, a tool, a provider that may take the
  built-in one's name. `PluginsSafe`: what is registered is there, the agent's provider is
  there, the web interface is served only while services, plugin manager and loop are there, the
  process ends early only for the reasons of section 5, and enabled plugins are loaded when main
  serves. Start-up and clean-up end, unless what `main` waits for never comes. Two requests are an
  off and an on of one plugin, two plugins, or a switch beside a reload. The web interface, the
  tool and the channel that does not join are always enabled at the start; the directory is gone
  through in one order. The theorem has any enabled plugins, any order and any number of requests.

`records`, `channels` and `process` have states without a next one, by their bounds or
because the process has ended, so these runs do not look for deadlock. The type
invariants `WindowTypeOK`, `StoreTypeOK` and `CronTypeOK` document the states;
`ExecutorTypeOK`, `LlmTypeOK` and `SubTypeOK` are the first conjunct of the inductive
invariants of section 6.

## 4. Fairness

Only what the code or the platform guarantees is assumed. Threads run and get the
mutexes they ask for (weak fairness of each thread's steps). A timed wait ends. In
`AgentLoop` a call of the model ends, since the provider has a limit of 120 seconds
(`LlmAsync` shows the call-back follows), and so does a tool; the file and shell tools
have limits of their own. In `LlmAsync` time passes, and no server need ever answer. In
`Subagent` the five minutes of a subagent pass: strong fairness of the step that finds
them over, because the runner is at that test again and again. In `WebUI` the thirty
seconds of a poll pass, strongly fair for the same reason. In `McpClient` waits
with a limit end in time, a server process that does not hang ends when it is told to, and no
server need answer, end or push anything; writing to a process and waiting for it have no limit
and no fairness while it hangs. In `BotReceiver` the service pushes an event
until it is acknowledged. In `BotSender` a request ends in one of its outcomes, being
`hung` among them. In `Plugins` a tool comes to its end, and `main` runs, unless it is in a join that never returns (`Hangs`). Nothing forces a message,
a stop, a submission or a crash. A condition variable may wake without a signal and this
is never relied on.

## 5. Deviations

Three runs show a property that a comment, reply or document of the repository states
and the code does not have:

* `loop_cancel`: `session_orchestrator_snapshot_task` does not copy the cancelled flag,
  so a task that `/stop` has cancelled answers all the same.
* `loop_skill`: the skill fallback starts a task on a session that is busy. Two results
  are then on their way to one session, and results find their task by the session key alone.
* `cron_overlap`: a job added while a one-time job at the head of the list fires is cut
  off together with it.

Others are part of the models, and the properties of the passing runs name them as
exceptions:

* A one-time job updated while it fires is removed with its new schedule; removing a job
  during a callback can leave `prev` pointing to freed memory (`clashed`). An update with
  an invalid schedule reports failure but has changed the job, which is unlinked after it
  fires next (`Promised`). Nothing in the program calls `cron_service_remove_job` yet.
* A saved message is not loaded if its line is longer than 4095 bytes, if an earlier
  rename failed after the counters were updated, if it was appended to a torn line, if a write
  failed, which `session_manager_save` does not notice, or if the file was there but could not be
  read at a restart: `session_manager_load` then makes an empty session, whose next save replaces
  the file (`harm` in `SavedSurvives`).
* A consolidation that a cron job sets off writes the job's message to the file, where
  the roll-back leaves it. With `MemoryWindow = 1` TLC finds `JobLeavesNoTrace` violated.
* A stop before `agent_loop_run` has set its flag is overwritten (`told = "early"`).
* `/new` replies "New session started." and changes nothing (`ProcessNew`).
* The limit on subagents is tested before the subagent is counted, so more may start.
  A runner that tests its loop's flag before the loop has set it stops relaying
  (`unwatched`); it then waits for a loop that nobody stops until the manager is destroyed.
* The subagent manager frees everything after ten seconds, and cancels through a pointer
  to a loop that may be freed already (`hasty`).
* Shutting the provider down with connections open frees their contexts before the
  library delivers their close events (`LlmAsync`, `FreeManager`). `main` never shuts the
  built-in provider down, so an answer may come when the loop is freed
  (`CrashesExplained`).
* A fact that a tool has added and not yet saved is dropped when the prompt's thread reads
  the file again; the tool still reports success. A process that found no MEMORY.md never
  reads HISTORY.md and overwrites it with its first save, although the memory skill calls
  it append-only. At the hard cap an entry is in the file until the next save. A death in
  the middle of a rewrite, the tool's or consolidation's, leaves a part of a file, and so does a
  write that fails, which nobody notices. A file that cannot be opened for reading counts as
  missing, or empty, and the next save writes over it (`excused` in `Memory`). `entries_to_keep = 5`
  keeps four entries.
* An MCP response is taken by whoever waits, whatever its id: after a wait that gave up,
  with two requests under way, or after an unasked message, answers are mixed up
  (`mixed`). A server process that was started again is called without a handshake
  (`HandshakeFirst`). A close does not wait for a new start (`raced`), nor for callers: the tools
  stay registered after `mcp_manager_free` (`mcp_plugin.c:41`, `mcp.c:176`), and a call that is
  under way or begins later follows a freed client (`mcp_tools.c:52`, `CallerUsesFreed`).
* The write to an MCP server process and the wait for its end have no time limit, so a process
  that neither reads nor ends holds up a tool worker or a close (`hung`). A line of more than 4094
  bytes fills the reader's buffer, the next read asks for no bytes, and the server is started
  again beside the old process, which nobody ends (`LongLine`).
* The ids of handled events are forgotten with the connection, so Feishu may deliver an
  event again over the next one (`lately`); DingTalk's channel has a test for duplicates
  that nothing calls. A request for an address whose connection is closed without an answer
  waits for ever, in both channels (`UrlHangs`). `dingtalk_stop` during the request for an address
  is not seen by the connection made afterwards (`deaf stop`), and may write to a connection that
  is just freed (`StopsFreed`). `feishu_destroy` does not join
  its thread and frees the data that it uses (`Unjoined`, `ChannelRuns` in `Plugins`).
* Most sends have no limit for a connection that is closed without an event (`hung`), and
  one thread sends for all channels. A DingTalk text whose answer is lost is sent again
  another way (`unsure`). A reply to `*` is offered to every channel and dropped by each.
* A reply whose polls leave between the two locks of `enqueue_reply` is given to nobody
  (`missed.late`); a poll whose timer fires while it is answered is freed twice.
* Unloading a plugin leaves its tools, commands and channels registered; a channel that was
  struck out leaves an empty entry that others follow; a channel switched on by the
  web interface is not started (`seen.off`, `Enlist`). A plugin that `/reload-plugins` and the web
  interface load at a time is registered and listed twice; switching it off takes one of the two.
  The web interface serves until its own turn in the clean-up comes, and walks over channels that
  `main` has destroyed before (`WalksFreed`). The joins of the clean-up have no time limit
  (`Hangs`; `SendReturns` and `StopReturns` say when those of the outbound thread and of DingTalk
  return). `main` frees services and plugins
  before it joins the tool workers. The ACP channel never loads at start-up, because
  `acp_init` wants the agent loop and the session manager, which `main` sets after
  `plugin_manager_load_external`; `plugins/README.md` says plugins are "automatically loaded on
  startup" (`LoadedAtStart`).

## 6. What is proved

The theorems hold for every value of the constants that the named assumptions admit: any
number of threads, requests, sessions, workers or subagents and any length of the queues,
where a run has two or three of each. TLC evaluates the assumptions on the runs.

| Module | Theorems | From |
|---|---|---|
| `MessageQueueProofs` | `TypeCorrect`, `FifoOrder`, `ImplementsFifoChannel`, `WakeupsSuffice`, `EveryMessageOwnedOnce` | `CapacityAssumption`, `BoundAssumption`, `ThreadsAssumption` |
| `ServiceProofs` | `ExecutorTypeCorrect`, `ExecutorIsSafe`, `LlmTypeCorrect`, `LlmIsSafe`, `JobsAreKept`, `WalkIsSafe` | `ExecutorAssumption`, `CronAssumption` |
| `AgentPartProofs` | `SubTypeCorrect`, `SubagentsAreSafe`, `MemoryIsSafe`, `SavesSurvive`, `RestartsLoadPrefix`, `WindowIsSafe` | `SubagentAssumption`, `MemoryAssumption`, `StoreAssumption`, `WindowAssumption` |
| `ChannelProofs` | `RepliesSentSafely`, `PollsAreServed`, `EventsReceivedSafely`, `PluginsServeSafely` | `SendAssumption`, `AnswersAssumption`, `ReceiverAssumption`, `PluginsAssumption` |
| `McpClientProofs` | `ToolCallsAreSafe`, `AnswersAreOwn`, `FreedIsNotUsed` | `McpAssumption` |
| `AgentLoopProofs` | `LoopTypeCorrect`, `RequestsAreSafe`, `ImplementsSessionFlow`, `FilesFollowSessions` | `BoundsAssumption`; two conditions, below |
| `TranscriptProofs` | `ModelIsAskedInOrder`, `TranscriptsAreSafe`, `JobsLeaveNoTrace`, `RecordsAlwaysStay`, `TranscriptsWithoutJobs` | `BoundsAssumption`; two conditions, below |

Every safety property that a passing run checks is stated by a theorem, alone or as a part of
one; what is left to TLC alone is liveness.

**The bus.** `IInv == TypeOK /\ FifoInv` is inductive and neither half is alone: that a
delivered slot holds a message and not `Garbage` needs `FifoInv`, and `FifoInv` needs the
index ranges to resolve the arithmetic modulo `capacity`. `WrapDistance` and `WrapStep`
resolve `%` once; `StorePreserves` and `TakePreserves` are the two steps that move the
indices. The refinement uses the invariant to show that the slot a receive takes is the next
message of the channel. `WakeupsSuffice` counts: a send adds one message and, if somebody
sleeps, one woken receiver, and whoever takes a message is awake. `EveryMessageOwnedOnce`
relates the histories: what was offered is refused, delivered, still in the ring, or freed
with the ring, and no two of these.

**The tool executor.** `ExecInv` says that each request that was accepted is in the queue
or with one worker until its call-back, and that the reference count of a synchronous
context is the caller's part plus the worker's part. It is the second that shows that
whichever lets go last frees the context and that the other does not use it.

**The provider.** `LlmInv`: the contexts that are allocated are those in the queue, in the
batch that the worker has taken and on the active list, three disjoint places without
repetition; a call has its one call-back exactly when its context is gone.

**The cron service.** `CronInv` follows the worker through the list. `WalkInv`: where it is and
the node before are in the list, in this order (`Before`), and without a node before it the
worker is at the head; so what it unlinks is the job that fired, and nothing with it, unless a
call came during the callback. `DueInv` and `NumberInv`: a listed job has fired only for times
before the one it is due at, and the version of a call to come has not fired. `ToldInv` and
`KeptInv`: what is promised is what the list has, and is stored. The exceptions are those of
the properties: `clashed` records that a call came during the callback of a job that was then
unlinked, the overlap that run `cron_overlap` shows.

**Subagents.** `SubInv`: for each subagent the relayed messages followed by those still
queued are the messages it sent; the program counters of runner and loop thread fit
together; and, unless the manager was `hasty`, what it frees has no user.

**Memory.** `MemoryInv`: the prompt's version is never ahead of the text (`PromptInv`), so a
version that was read before the copy can only be too old. A process knows every reported fact
(`FactInv`) from the moment it has read the files or has found that there are none (`Aware`).
Until then it cannot save: no tool runs before the first prompt (`RunInv`), and the one entry
the agent can log is not enough to consolidate (`FreshInv`, `FreshIsSmall`; this is where
`TokenLimit` must not be 0). A run that gives facts saves last, so what it gave is in the
file when it reports success. `LogInv` is the same for entries, whose file also gets what the
text in memory has no room for. The proof uses that consolidation adds to the facts and takes
from the log only what `OldPart` names, not which lines become facts. A save, load or append that
fails, and a death in a save, excuse what the file or the text then lacks, so the two invariants
are kept for what it still has.

**Sending.** `SendInv` follows one reply through the fallbacks of its channel: which requests
were made, and which of them the service may have taken, determine where the thread can be.

**The web chat.** `UiInv`: the list has no reply twice, none newer than the one being handed
over, and its tail pointer is its last entry (`ListInv`); the polls on the list of waiters are
those that wait (`WaitInv`); a poll that was given a reply is answered, with one reply of its
own chat (`GivenInv`). A poll is given the first reply of its chat: that there is a first one
is the lemma `LeastNumber`.

**Receiving.** `BotInv`: while the thread polls, its connection remembers the ids that were handled
lately, and what it remembers is on the bus (`RememberInv`), so an id that is not found is
none of the last `DedupSize`; a slot of the table of parts holds only parts of the event it was
taken for (`SlotInv`); DingTalk's channel counts as stopped, and is freed, only when its thread
has ended (`JoinInv`).

**The MCP client.** `McpInv` describes for each transport where a caller can be while it is
connected and greeted, whose answers are under way while nothing is `mixed`, and who can
still reach the transport when it is closed (`CloseInv`). The last is about the threads of the
transport and the setup; callers are left out of `NoUseAfterClose`, because nothing keeps them from
a freed client.

**The agent loop.** The types need that a session counts no more messages as saved than it
has. `FlowInv` adds the shape of a session: it is idle and nothing is owed to it, or it has
one task, and this waits either for the one answer of the model (`Asking`) or for as many
tools as its counter says (`Running`); fewer only after a queue was closed. From it follow the
refinement of `SessionFlow` and that a result meets the task that asked. `PlacesInv` adds that
a request that was taken in is in one queue, in the worker's hands or in the task of its own
session, in none once it is over, has then one final reply, and is not lost while the queues
are open. Both theorems assume `"skill" \notin Kinds`: the skill fallback starts a second
task on a busy session, which run `loop_skill` shows to break them. `FilesFollowSessions` is
the part `FileFollows` of `TranscriptSafe`: the file is what the session counts as saved. It
assumes `"job" \notin Kinds`, because a consolidation that a job sets off leaves the job's
message in the file (section 5), but admits skills.

**Transcripts.** `Transcript(msgs, open, lost)` in `SequenceFacts` is the form every transcript
has: each answer of a tool stands in the chain behind the message that called it, no call is
made twice, and the calls without an answer are those of the last chain (`open`) or died with a
process (`lost`). Adding a message, an answer or calls keeps it, and a beginning of it that ends
between two requests has it too. `TalkInv` ties it to the loop: while a session waits for the
model nothing is open; while it waits for tools the open calls are exactly those whose answers
may be under way (`Expects`), each once (`OnceInv`), and as many as its counter says (`TalkOK`);
and the number of a call is new when it is made (`FreshOK`). `ModelIsAskedInOrder` follows with
the window facts below, without any condition on jobs, stops or the memory window, but without
skills.

`TidyInv` says what belongs to jobs: the messages of a job are exactly those behind the place
its task noted when it began, none of them is counted as saved, and without such a task there
are none. So the roll-back removes them and nothing else, and the file, which has the saved
beginning, is untouched. This is inductive as long as no job is taken up just when its session
is due for consolidation (`JobsFit`): that save writes the job's message. `JobsFit` is a
condition on when jobs arrive, not on the program; it holds in run `loop_service`, whose window
is too large for a consolidation, and a run without it violates the properties (section 5).
Without jobs it is void, which gives `TranscriptsWithoutJobs`.

**The context window.** What `AdjustedStart` computes is shown without induction over data:
`Descent` gives, by a least counterexample, the function that its recursion describes, and one
step back from an answer reaches the message that made the call (`HeadIsNearest`), since every
answer is in a chain. `WindowInv` is the form of the transcript, with the calls that died, and
gives both halves of `WindowSafe`.

**The session file.** `StoreInv`: messages have growing numbers, along the session and along the
first pieces of the file's lines, and what is not yet saved is newer than all of the file
(`OrderInv`); that gives the order and the uniqueness of what is loaded, whatever was torn. As
long as nothing of the five happened the lines are whole and are the saved messages (`CleanInv`), so what was
reported is loaded; after the one crash that cut an append short, what parses is still a
beginning of the session (`CutInv`). `Loaded` is a recursive function over the lines; `CountUp` and
`Collection` say what it collects.

**Plugins.** `PlugInv`: each entry of the list, and each load whose `init` runs or has run, has a
handle of its own (`LoadInv`), so that of two loads of one plugin the one that fails does not
unmap the other's code; every registration belongs to a
plugin that is listed, or about to be, and to its present mapping, or to one that was switched
off (`PointInv`). A library that is mapped again is therefore one whose old registrations are
excused. `ProviderInv` says that every provider belongs to a listed plugin of kind `llm`, or one about to
be, which
the web interface cannot switch off: that keeps the agent's provider. `MainInv` gives the order
of the clean-up, and that a load of the web interface has a running channel behind it, which
`main` stops before it frees anything; `StartInv` what main's own loads have done until the first
switch or reload.

**Model-checked only.** Liveness under fairness (`QueueLive`, `EveryRequestAnswered`,
`StopHonoured`, `ExecutorLive`, `EveryCallAnswered`, `DueJobsFire`, `SubagentEnds`,
`EveryRunEnds`, `MessageArrives`, `StopReturns`, `SendReturns`, `PollAnswered`, `ShutdownEnds`) is
beyond the prover, and so are the counterexamples of the runs that expect a violation. With skill
commands the agent loop is only checked: they break what the theorems say (run `loop_skill`).

## 7. Not modelled

* Prompt text, JSON and wire formats, parsing of model answers, the reminder parser, the
  validation of tool arguments, calendar arithmetic of cron schedules, skills,
  configuration, logging, the command line: functions of their arguments without state
  shared between threads, or input and output.
* The tools themselves, except the memory tool: file, shell and network operations.
* The heartbeat: `main` makes none.
* Receiving in Telegram, Discord, Slack, MQTT, email and console: each polls or subscribes
  and sends what it gets to the bus, which is `Arrive` of `AgentLoop`. Attachments and rich
  text of Feishu and DingTalk. The pages of the web interface other than chat and plugins.
* The ACP server: it never runs (section 5).
* The Anthropic provider: the same queue and worker as the built-in one, with another wire
  format.
* The session file of an older name, which is read when there is none of the present name.
* Below the level of `Plugins`: the arrays of channels and tools that a registration may move
  while another thread walks them; the static data that two loads of one library share, and its
  clean-up function called twice; which of two entries of one plugin is found first (either may
  be). `plugin_manager_reload_plugin` has no caller.
* Loading cron jobs at start, and a crash inside the rewrite of `cron_jobs.json`.
* Allocation failures are modelled where the code has a path for them that matters (bus,
  executor, provider), not in `AgentLoop`.

`PROJECT.json` lists the hazards that weigh most. Known ones without a property: task ids
made of the second and a random number may collide (`command_dispatcher.c:391`);
`trigger_llm_async` returns silently when it cannot allocate (`agent_loop.c:536`); the limit
of subagents is tested before they are counted (`subagent.c:459`); an edit of MEMORY.md in
the second of the last stamp is not seen (`context_builder.c:166`). Unsynchronised reads of
configuration strings, access tokens, lists of MCP resources, mongoose's buffers and arrays
that may move are below the level of the models.

## 8. Plan

Done, in this order: the bus with its abstract channel and proofs, sessions and the
agent loop with its abstract flow, the store, cron, executor, provider and subagents; then
the MCP client, the channels, plugins with start-up and clean-up, memory, and restarts in the
middle of a tool chain.

The proofs of section 6 followed: bus, executor, provider, cron, subagents, memory, the
channels, MCP client, agent loop and plugins; then the context window, the session file across
crashes, and the transcripts of the agent loop. Files that cannot be read and writes that fail,
server processes that hang, calls after a close and `/reload-plugins` were added to the models and
the proofs last.

Models that are left: `cron_jobs.json` across a crash, `cron_schedule_next_run` as operators
against a reference, allocation failure in `trigger_llm_async`.
