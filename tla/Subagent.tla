------------------------------ MODULE Subagent ------------------------------
(***************************************************************************)
(* The subagent manager (src/src/subagent/subagent.c).  A tool call spawns *)
(* a subagent: a runner thread enters itself in the manager's list, makes  *)
(* an agent loop with a bus of its own, starts the loop's thread, relays   *)
(* what the loop sends to the main bus, and cleans up.                     *)
(*                                                                         *)
(* The loop is an AgentLoop seen from outside: its thread sets the running *)
(* flag, sends messages while its bus is open, and leaves when the flag is *)
(* down.  A subagent is a number, in the order of the spawns.              *)
(***************************************************************************)
EXTENDS Integers, Sequences, FiniteSets

CONSTANTS Spawners,           \* threads that run the spawn_subagent tool
          MaxSpawns,          \* bound: subagents
          Limit,              \* subagents at a time (8)
          MaxSends,           \* bound: messages of one loop
          DrainAttempts       \* empty receives in a row that end the drain (5)

ASSUME SubagentAssumption ==
    /\ MaxSpawns \in Nat /\ MaxSends \in Nat
    /\ Limit \in Nat \ {0} /\ DrainAttempts \in Nat \ {0}

Subagents == 1..MaxSpawns

VARIABLES spawner,    \* where each spawning thread is
          spawned,    \* history: subagents spawned
          runner,     \* where each subagent's runner is
          activeTasks, \* manager->active_tasks, and active_count its size
          loop,       \* node->loop of each: "none", "live" or "freed"
          thread,     \* the loop's thread
          loopRunning, \* loop->running
          closed,     \* the loop's bus is closed
          out,        \* the loop's outbound queue: messages
          subSent,    \* history: messages the bus of the loop accepted
          relayed,    \* history: messages passed on to the main bus, in order
          drains,     \* drain_attempts
          cancelling, \* nodes with the cancelling flag
          manager,    \* the manager: "up", "waiting" in its destroy, "freed"
          unwatched,  \* history: subagents whose runner found the loop not started
          hasty,      \* history: the manager did not wait for its subagents
          subFaulty   \* history: freed memory was used

subVars == <<spawner, spawned, runner, activeTasks, loop, thread, loopRunning, closed, out, subSent,
          relayed, drains, cancelling, manager, unwatched, hasty, subFaulty>>
managerVars == <<spawner, spawned, activeTasks, cancelling, manager, hasty>>
loopVars == <<loop, thread, loopRunning, closed>>
messageVars == <<out, subSent, relayed, drains, unwatched>>

SubInit ==
    /\ spawner = [c \in Spawners |-> "idle"]
    /\ spawned = 0
    /\ runner = [s \in Subagents |-> "none"]
    /\ activeTasks = {}
    /\ loop = [s \in Subagents |-> "none"]
    /\ thread = [s \in Subagents |-> "none"]
    /\ loopRunning = [s \in Subagents |-> FALSE]
    /\ closed = [s \in Subagents |-> FALSE]
    /\ out = [s \in Subagents |-> << >>]
    /\ subSent = [s \in Subagents |-> 0]
    /\ relayed = [s \in Subagents |-> << >>]
    /\ drains = [s \in Subagents |-> 0]
    /\ cancelling = {}
    /\ manager = "up"
    /\ unwatched = {}
    /\ hasty = FALSE
    /\ subFaulty = FALSE

-----------------------------------------------------------------------------
(* subagent_manager_spawn.                                                 *)

\* Compare the count with the limit, under the mutex.
CheckLimit(c) ==
    /\ manager = "up"
    /\ spawner[c] = "idle"
    /\ spawned < MaxSpawns
    /\ Cardinality(activeTasks) < Limit
    /\ spawner' = [spawner EXCEPT ![c] = "create"]
    /\ UNCHANGED <<spawned, runner, activeTasks, cancelling, manager, hasty, subFaulty>>
    /\ UNCHANGED loopVars /\ UNCHANGED messageVars

\* With the mutex released, create the runner's thread, which may fail.
CreateRunner(c) ==
    /\ spawner[c] = "create"
    /\ spawned < MaxSpawns
    /\ spawner' = [spawner EXCEPT ![c] = "idle"]
    /\ \/ /\ spawned' = spawned + 1
          /\ runner' = [runner EXCEPT ![spawned + 1] = "start"]
       \/ UNCHANGED <<spawned, runner>>
    /\ UNCHANGED <<activeTasks, cancelling, manager, hasty, subFaulty>>
    /\ UNCHANGED loopVars /\ UNCHANGED messageVars

-----------------------------------------------------------------------------
(* subagent_task_runner.                                                   *)

ManagerUsed == subFaulty' = (subFaulty \/ manager = "freed")

\* subagent_add_task
AddTask(s) ==
    /\ runner[s] = "start"
    /\ activeTasks' = activeTasks \cup {s}
    /\ ManagerUsed
    /\ runner' = [runner EXCEPT ![s] = "make"]
    /\ UNCHANGED <<spawner, spawned, cancelling, manager, hasty>>
    /\ UNCHANGED loopVars /\ UNCHANGED messageVars

\* Bus, sessions, tools and loop are made, and the loop is entered in the node,
\* which the manager may have freed.
MakeLoop(s) ==
    /\ runner[s] = "make"
    /\ loop' = [loop EXCEPT ![s] = "live"]
    /\ subFaulty' = (subFaulty \/ s \notin activeTasks)
    /\ runner' = [runner EXCEPT ![s] = "begin"]
    /\ UNCHANGED <<thread, loopRunning, closed>>
    /\ UNCHANGED managerVars /\ UNCHANGED messageVars

\* The loop's thread is created, entered in the node, and sent the task.
StartLoop(s) ==
    /\ runner[s] = "begin"
    /\ thread' = [thread EXCEPT ![s] = "new"]
    /\ subFaulty' = (subFaulty \/ s \notin activeTasks)
    /\ runner' = [runner EXCEPT ![s] = "relay"]
    /\ UNCHANGED <<loop, loopRunning, closed>>
    /\ UNCHANGED managerVars /\ UNCHANGED messageVars

\* Phase 1: test the loop's flag, which its thread may not have set yet.
TestRunning(s) ==
    /\ runner[s] = "relay"
    /\ runner' = [runner EXCEPT ![s] = IF loopRunning[s] THEN "receive" ELSE "drain"]
    /\ unwatched' = IF thread[s] = "new" THEN unwatched \cup {s} ELSE unwatched
    /\ UNCHANGED <<out, subSent, relayed, drains, subFaulty>>
    /\ UNCHANGED managerVars /\ UNCHANGED loopVars

\* Pass the oldest message of the loop on to the main bus.
Relayed(s) ==
    /\ relayed' = [relayed EXCEPT ![s] = Append(@, Head(out[s]))]
    /\ out' = [out EXCEPT ![s] = Tail(@)]

\* agent_loop_stop of the loop of subagent s.
Stopped(s) ==
    /\ loopRunning' = [loopRunning EXCEPT ![s] = FALSE]
    /\ closed' = [closed EXCEPT ![s] = TRUE]

\* Mutant: a subagent has no time limit.
ReceiveForever(s) ==
    /\ runner[s] = "receive"
    /\ IF out[s] # << >> THEN Relayed(s) ELSE UNCHANGED <<out, relayed>>
    /\ runner' = [runner EXCEPT ![s] = "relay"]
    /\ UNCHANGED <<loop, thread, loopRunning, closed, subSent, drains, unwatched, subFaulty>>
    /\ UNCHANGED managerVars

\* A receive of one second ends with or without a message.  Five minutes after
\* the start the loop is stopped.
Receive(s) ==
    /\ runner[s] = "receive"
    /\ IF out[s] # << >> THEN Relayed(s) ELSE UNCHANGED <<out, relayed>>
    /\ \/ /\ runner' = [runner EXCEPT ![s] = "relay"]
          /\ UNCHANGED <<loopRunning, closed>>
       \/ /\ runner' = [runner EXCEPT ![s] = "drain"]
          /\ Stopped(s)
    /\ UNCHANGED <<loop, thread, subSent, drains, unwatched, subFaulty>>
    /\ UNCHANGED managerVars

\* Mutant: one empty receive ends the drain, and the last message stays.
DrainOne(s) ==
    /\ runner[s] = "drain"
    /\ runner' = [runner EXCEPT ![s] = "join"]
    /\ IF out[s] # << >> THEN Relayed(s) ELSE UNCHANGED <<out, relayed>>
    /\ UNCHANGED <<subSent, drains, unwatched, subFaulty>>
    /\ UNCHANGED managerVars /\ UNCHANGED loopVars

\* Phase 2: receive until nothing came several times in a row.
RunnerDrains(s) ==
    /\ runner[s] = "drain"
    /\ IF out[s] # << >>
       THEN Relayed(s) /\ drains' = [drains EXCEPT ![s] = 0] /\ UNCHANGED runner
       ELSE /\ drains' = [drains EXCEPT ![s] = @ + 1]
            /\ runner' = [runner EXCEPT ![s] = IF drains[s] + 1 = DrainAttempts THEN "join" ELSE @]
            /\ UNCHANGED <<out, relayed>>
    /\ UNCHANGED <<subSent, unwatched, subFaulty>>
    /\ UNCHANGED managerVars /\ UNCHANGED loopVars

\* Mutant: the node is taken off the list before the subagent has cleaned up.
FreeLoopUnlists(s) ==
    /\ runner[s] = "join"
    /\ thread[s] = "exited"
    /\ loop' = [loop EXCEPT ![s] = "freed"]
    /\ activeTasks' = activeTasks \ {s}
    /\ runner' = [runner EXCEPT ![s] = "remove"]
    /\ UNCHANGED <<spawner, spawned, cancelling, manager, hasty, thread, loopRunning, closed, subFaulty>>
    /\ UNCHANGED messageVars

\* pthread_join of the loop's thread; then loop, sessions and bus are freed.
FreeLoop(s) ==
    /\ runner[s] = "join"
    /\ thread[s] = "exited"
    /\ loop' = [loop EXCEPT ![s] = "freed"]
    /\ runner' = [runner EXCEPT ![s] = "remove"]
    /\ UNCHANGED <<thread, loopRunning, closed, subFaulty>>
    /\ UNCHANGED managerVars /\ UNCHANGED messageVars

\* subagent_remove_task: until now the node pointed to the freed loop.
RemoveTask(s) ==
    /\ runner[s] = "remove"
    /\ activeTasks' = activeTasks \ {s}
    /\ ManagerUsed
    /\ runner' = [runner EXCEPT ![s] = "ended"]
    /\ UNCHANGED <<spawner, spawned, cancelling, manager, hasty>>
    /\ UNCHANGED loopVars /\ UNCHANGED messageVars

-----------------------------------------------------------------------------
(* The loop of a subagent (agent_loop_run).                                *)

LoopStarts(s) ==
    /\ thread[s] = "new"
    /\ \/ /\ loopRunning' = [loopRunning EXCEPT ![s] = TRUE]
          /\ thread' = [thread EXCEPT ![s] = "up"]
       \* The processing worker cannot be created.
       \/ /\ loopRunning' = [loopRunning EXCEPT ![s] = FALSE]
          /\ thread' = [thread EXCEPT ![s] = "exited"]
    /\ UNCHANGED <<runner, loop, closed, subFaulty>>
    /\ UNCHANGED managerVars /\ UNCHANGED messageVars

LoopSends(s) ==
    /\ thread[s] = "up"
    /\ ~closed[s]
    /\ subSent[s] < MaxSends
    /\ subSent' = [subSent EXCEPT ![s] = @ + 1]
    /\ out' = [out EXCEPT ![s] = Append(@, subSent[s] + 1)]
    /\ UNCHANGED <<runner, relayed, drains, unwatched, subFaulty>>
    /\ UNCHANGED managerVars /\ UNCHANGED loopVars

LoopExits(s) ==
    /\ thread[s] = "up"
    /\ ~loopRunning[s]
    /\ thread' = [thread EXCEPT ![s] = "exited"]
    /\ closed' = [closed EXCEPT ![s] = TRUE]
    /\ UNCHANGED <<runner, loop, loopRunning, subFaulty>>
    /\ UNCHANGED managerVars /\ UNCHANGED messageVars

-----------------------------------------------------------------------------
(* subagent_manager_cancel_by_session and subagent_manager_destroy.        *)

\* agent_loop_stop of the loops of the nodes in S that have one.
StoppedAll(S) ==
    LET nodes == {s \in S : loop[s] # "none"}
    IN  /\ loopRunning' = [s \in Subagents |-> loopRunning[s] /\ s \notin nodes]
        /\ closed' = [s \in Subagents |-> closed[s] \/ s \in nodes]
        /\ subFaulty' = (subFaulty \/ \E s \in nodes : loop[s] = "freed")

\* The nodes whose loop exists and has started.
Settled ==
    {s \in activeTasks : runner[s] \notin {"make", "begin", "remove"} /\ thread[s] # "new"}

\* A node is cancelled once, whether or not it has a loop to stop.
Cancel(s) ==
    /\ manager = "up"
    /\ s \in activeTasks \ cancelling
    /\ hasty' = (hasty \/ s \notin Settled)
    /\ cancelling' = cancelling \cup {s}
    /\ StoppedAll({s})
    /\ UNCHANGED <<spawner, spawned, runner, activeTasks, manager, loop, thread>>
    /\ UNCHANGED messageVars

Quiet == /\ activeTasks = Settled
         /\ \A s \in Subagents : runner[s] # "start"
         /\ \A c \in Spawners : spawner[c] = "idle"

\* Every loop is told to stop.
StopAll ==
    /\ manager = "up"
    /\ hasty' = (hasty \/ ~Quiet)
    /\ StoppedAll(activeTasks)
    /\ manager' = "waiting"
    /\ UNCHANGED <<spawner, spawned, runner, activeTasks, cancelling, loop, thread>>
    /\ UNCHANGED messageVars

\* The list is empty, or ten seconds are over: free what is left and the manager.
FreeSubagents ==
    /\ manager = "waiting"
    /\ hasty' = (hasty \/ activeTasks # {})
    /\ activeTasks' = {}
    /\ manager' = "freed"
    /\ UNCHANGED <<spawner, spawned, runner, cancelling, subFaulty>>
    /\ UNCHANGED loopVars /\ UNCHANGED messageVars

Finished == spawned = MaxSpawns /\ (\A s \in Subagents : runner[s] = "ended") /\ UNCHANGED subVars
ManagerGone == manager = "freed" /\ UNCHANGED subVars

Runner(s) ==
    \/ AddTask(s) \/ MakeLoop(s) \/ StartLoop(s) \/ TestRunning(s) \/ Receive(s)
    \/ RunnerDrains(s) \/ FreeLoop(s) \/ RemoveTask(s)

SubNext ==
    \/ \E c \in Spawners : CheckLimit(c) \/ CreateRunner(c)
    \/ \E s \in Subagents : Runner(s) \/ LoopStarts(s) \/ LoopSends(s) \/ LoopExits(s) \/ Cancel(s)
    \/ StopAll
    \/ FreeSubagents
    \/ Finished
    \/ ManagerGone

SubSpec == SubInit /\ [][SubNext]_subVars

TimesOut(s) == Receive(s) /\ runner'[s] = "drain"

\* The threads run, and the five minutes of a subagent pass.
SubFairSpec ==
    /\ SubSpec
    /\ \A s \in Subagents : /\ WF_subVars(Runner(s)) /\ SF_subVars(TimesOut(s))
                            /\ WF_subVars(LoopStarts(s)) /\ WF_subVars(LoopExits(s))
    /\ WF_subVars(FreeSubagents)

-----------------------------------------------------------------------------
(* Properties.                                                             *)

\* Types of the variables.
SubTypeOK ==
    /\ spawner \in [Spawners -> {"idle", "create"}] /\ spawned \in 0..MaxSpawns
    /\ runner \in [Subagents -> {"none", "start", "make", "begin", "relay", "receive",
                                 "drain", "join", "remove", "ended"}]
    /\ activeTasks \subseteq 1..spawned
    /\ loop \in [Subagents -> {"none", "live", "freed"}]
    /\ thread \in [Subagents -> {"none", "new", "up", "exited"}]
    /\ loopRunning \in [Subagents -> BOOLEAN] /\ closed \in [Subagents -> BOOLEAN]
    /\ out \in [Subagents -> Seq(Nat)] /\ relayed \in [Subagents -> Seq(Nat)]
    /\ subSent \in [Subagents -> 0..MaxSends] /\ drains \in [Subagents -> 0..DrainAttempts]
    /\ cancelling \subseteq 1..spawned /\ unwatched \subseteq 1..spawned
    /\ manager \in {"up", "waiting", "freed"} /\ hasty \in BOOLEAN /\ subFaulty \in BOOLEAN

\* A subagent's messages reach the user in the order it sent them, each once, and
\* all of them before its bus is freed: also the last ones, sent just before the
\* loop was stopped ("race condition fix", subagent_task_runner).  Not so if the
\* runner found the loop not started.
RelayedInFull ==
    \A s \in Subagents \ unwatched :
        /\ \A i \in 1..Len(relayed[s]) : relayed[s][i] = i
        /\ Len(relayed[s]) + Len(out[s]) = subSent[s]
        /\ loop[s] = "freed" => out[s] = << >>

\* No thread uses the manager, a node or a loop after it was freed, as long as the
\* manager stops subagents only between their start and their clean-up and the
\* ten seconds it waits for them suffice.
NoFreedUse == ~hasty => ~subFaulty

\* A subagent ends and gives its place back: by the time limit if by nothing else.
SubagentEnds ==
    \A s \in Subagents : runner[s] = "start" ~> (runner[s] = "ended" \/ s \in unwatched)

\* What a subagent has sent arrives, and nothing of it is used after it is freed.
SubagentsSafe == RelayedInFull /\ NoFreedUse
=============================================================================
