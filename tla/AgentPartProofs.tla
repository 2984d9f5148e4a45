-------------------------- MODULE AgentPartProofs ---------------------------
(***************************************************************************)
(* Proofs about the parts of an agent that surround its loop.              *)
(*                                                                         *)
(* The spawn tool: for any number of subagents, spawning threads and       *)
(* messages, and every number of empty receives that ends the drain, what  *)
(* a subagent sends reaches the main bus in full and in order, and nothing *)
(* of it is used after it is freed, under the conditions that Subagent     *)
(* names.                                                                  *)
(*                                                                         *)
(* The memory tool: for any number of runs at once, facts and entries,     *)
(* what a run reports as remembered or logged is in the files until it is  *)
(* meant to go, and a prompt that counts as current has the current facts, *)
(* but for the losses that Memory names.                                   *)
(*                                                                         *)
(* The session file: for any number of messages and crashes, what a save   *)
(* reported as saved is loaded after a restart, once and in order, but for *)
(* the losses that SessionStore names.                                     *)
(*                                                                         *)
(* The context window: for transcripts of any length and windows of any    *)
(* size, it starts as late as it can without cutting a chain of calls and  *)
(* answers in two, and has every call with its answers.                    *)
(***************************************************************************)
EXTENDS Subagent, Memory, SessionStore, ContextWindow, SequenceFacts

-----------------------------------------------------------------------------
(* Subagents.                                                              *)

\* Where a runner is while its node is in the manager's list.
Listed == {"make", "begin", "relay", "receive", "drain", "join", "remove"}

\* What has been relayed and what is still in the loop's queue are, together and in
\* this order, the messages the loop has sent.
MessagesOK(s) ==
    /\ \A i \in 1..Len(relayed[s]) : relayed[s][i] = i
    /\ \A i \in 1..Len(out[s]) : out[s][i] = Len(relayed[s]) + i
    /\ Len(relayed[s]) + Len(out[s]) = subSent[s]

\* The runner's place tells what the loop can still do.  Unless the runner found the
\* loop not started, the bus is closed to the loop when the drain begins.
PhaseOK(s) ==
    /\ runner[s] = "none" <=> s > spawned
    /\ runner[s] \in {"none", "start", "make", "begin", "relay", "receive"} => drains[s] = 0
    /\ runner[s] = "drain" => drains[s] < DrainAttempts
    /\ loop[s] = "freed" => runner[s] \in {"remove", "ended"}
    /\ thread[s] = "none" <=> runner[s] \in {"none", "start", "make", "begin"}
    /\ loopRunning[s] => thread[s] = "up"
    /\ thread[s] = "up" /\ ~loopRunning[s] => closed[s]
    /\ runner[s] = "receive" => thread[s] \in {"up", "exited"}
    /\ s \notin unwatched /\ runner[s] \in {"drain", "join", "remove", "ended"} =>
          thread[s] \in {"up", "exited"} /\ (thread[s] = "up" => closed[s])
    /\ s \notin unwatched /\ runner[s] \in {"join", "remove", "ended"} => out[s] = << >>

\* A manager that was patient knows every subagent that is under way, and outlives it.
ManagerInv ==
    /\ activeTasks = {s \in Subagents : runner[s] \in Listed}
    /\ manager # "up" => /\ \A c \in Spawners : spawner[c] = "idle"
                         /\ \A s \in Subagents : runner[s] \notin {"start", "make", "begin"}
    /\ manager = "freed" => \A s \in Subagents : runner[s] \in {"none", "ended"}
    /\ ~subFaulty

\* The invariant that is inductive.
SubInv ==
    /\ SubTypeOK
    /\ \A s \in Subagents : MessagesOK(s)
    /\ \A s \in Subagents : PhaseOK(s)
    /\ ~hasty => ManagerInv

-----------------------------------------------------------------------------

\* No subagent, no message.
LEMMA InitSubInv == SubInit => SubInv
<1> SUFFICES ASSUME SubInit PROVE SubInv
  OBVIOUS
<1>1. SubTypeOK
  <2>1. << >> \in Seq(Nat)
    OBVIOUS
  <2>2. out \in [Subagents -> Seq(Nat)] /\ relayed \in [Subagents -> Seq(Nat)]
    BY <2>1 DEF SubInit
  <2> QED
    <3>1. /\ spawned \in 0..MaxSpawns /\ subSent \in [Subagents -> 0..MaxSends]
          /\ drains \in [Subagents -> 0..DrainAttempts]
      BY SubagentAssumption DEF SubInit
    <3>2. /\ spawner \in [Spawners -> {"idle", "create"}]
          /\ loopRunning \in [Subagents -> BOOLEAN] /\ closed \in [Subagents -> BOOLEAN]
          /\ loop \in [Subagents -> {"none", "live", "freed"}]
          /\ thread \in [Subagents -> {"none", "new", "up", "exited"}]
      BY DEF SubInit
    <3>3. runner \in [Subagents -> {"none", "start", "make", "begin", "relay", "receive",
                                    "drain", "join", "remove", "ended"}]
      BY DEF SubInit
    <3>4. /\ activeTasks \subseteq 1..spawned /\ cancelling \subseteq 1..spawned
          /\ unwatched \subseteq 1..spawned
          /\ manager \in {"up", "waiting", "freed"} /\ hasty \in BOOLEAN /\ subFaulty \in BOOLEAN
      BY DEF SubInit
    <3> QED
      BY <2>2, <3>1, <3>2, <3>3, <3>4 DEF SubTypeOK
<1>2. \A s \in Subagents : MessagesOK(s)
  BY DEF SubInit, MessagesOK
<1>3. \A s \in Subagents : PhaseOK(s)
  BY SubagentAssumption DEF SubInit, PhaseOK, Subagents
<1>4. ManagerInv
  BY DEF SubInit, ManagerInv, Listed
<1> QED
  BY <1>1, <1>2, <1>3, <1>4 DEF SubInv

\* A step that neither sends nor relays.
LEMMA MessagesKept ==
    ASSUME SubInv, UNCHANGED <<out, relayed, subSent>>
    PROVE  \A s \in Subagents : MessagesOK(s)'
  BY DEF SubInv, MessagesOK

\* The next message relayed is the next one sent.
LEMMA RelayedFacts ==
    ASSUME SubInv, NEW s \in Subagents, out[s] # << >>, Relayed(s), UNCHANGED subSent
    PROVE  /\ out' \in [Subagents -> Seq(Nat)] /\ relayed' \in [Subagents -> Seq(Nat)]
           /\ \A x \in Subagents : MessagesOK(x)'
           /\ \A x \in Subagents : x # s => out'[x] = out[x]
<1>0. /\ out \in [Subagents -> Seq(Nat)] /\ relayed \in [Subagents -> Seq(Nat)]
      /\ relayed' = [relayed EXCEPT ![s] = Append(@, Head(out[s]))]
      /\ out' = [out EXCEPT ![s] = Tail(@)]
      /\ MessagesOK(s)
  BY DEF SubInv, SubTypeOK, Relayed
<1> DEFINE o == out[s]
           r == relayed[s]
<1>1. o \in Seq(Nat) /\ r \in Seq(Nat) /\ o # << >>
  BY <1>0
<1>2. /\ Head(o) \in Nat /\ Tail(o) \in Seq(Nat) /\ Len(Tail(o)) = Len(o) - 1
      /\ \A i \in 1..Len(Tail(o)) : Tail(o)[i] = o[i + 1]
      /\ Head(o) = o[1] /\ Len(o) \in Nat \ {0} /\ Len(r) \in Nat
  BY <1>1, HeadTailProperties
<1>3. /\ Append(r, Head(o)) \in Seq(Nat) /\ Len(Append(r, Head(o))) = Len(r) + 1
      /\ Append(r, Head(o))[Len(r) + 1] = Head(o)
      /\ \A i \in 1..Len(r) : Append(r, Head(o))[i] = r[i]
  BY <1>1, <1>2
<1>4. Head(o) = Len(r) + 1
  BY <1>0, <1>2 DEF MessagesOK
<1>5. out'[s] = Tail(o) /\ relayed'[s] = Append(r, Head(o))
  BY <1>0
<1>6. \A x \in Subagents : x # s => out'[x] = out[x] /\ relayed'[x] = relayed[x]
  BY <1>0
<1>7. MessagesOK(s)'
  <2>1. \A i \in 1..Len(relayed'[s]) : relayed'[s][i] = i
    <3>1. \A i \in 1..Len(r) + 1 : i \in 1..Len(r) \/ i = Len(r) + 1
      BY <1>2
    <3>2. \A i \in 1..Len(r) : r[i] = i
      BY <1>0 DEF MessagesOK
    <3> QED
      BY <1>3, <1>4, <1>5, <3>1, <3>2
  <2>2. \A i \in 1..Len(out'[s]) : out'[s][i] = Len(relayed'[s]) + i
    <3>1. \A i \in 1..Len(o) - 1 : i + 1 \in 1..Len(o)
      BY <1>2
    <3>2. \A i \in 1..Len(o) : o[i] = Len(r) + i
      BY <1>0 DEF MessagesOK
    <3>3. \A i \in 1..Len(o) - 1 : o[i + 1] = (Len(r) + 1) + i
      <4>1. \A i \in 1..Len(o) - 1 : o[i + 1] = Len(r) + (i + 1)
        BY <3>1, <3>2
      <4>2. Len(r) \in Nat /\ Len(o) \in Nat
        BY <1>2
      <4> HIDE DEF o, r
      <4> QED
        BY <4>1, <4>2
    <3> HIDE DEF o, r
    <3> QED
      BY <1>2, <1>3, <1>5, <3>3
  <2>3. Len(relayed'[s]) + Len(out'[s]) = subSent'[s]
    <3>1. Len(r) + Len(o) = subSent[s]
      BY <1>0 DEF MessagesOK
    <3> HIDE DEF o, r
    <3> QED
      BY <1>2, <1>3, <1>5, <3>1
  <2> QED
    BY <2>1, <2>2, <2>3 DEF MessagesOK
<1>8. \A x \in Subagents : x # s => MessagesOK(x)'
  BY <1>6 DEF SubInv, MessagesOK
<1>9. out' \in [Subagents -> Seq(Nat)] /\ relayed' \in [Subagents -> Seq(Nat)]
  BY <1>0, <1>2, <1>3
<1> QED
  BY <1>6, <1>7, <1>8, <1>9

\* A new message is the last of those sent.
LEMMA LoopSendsFacts ==
    ASSUME SubInv, NEW s \in Subagents, LoopSends(s)
    PROVE  /\ out' \in [Subagents -> Seq(Nat)] /\ subSent' \in [Subagents -> 0..MaxSends]
           /\ \A x \in Subagents : MessagesOK(x)'
           /\ \A x \in Subagents : x # s => out'[x] = out[x]
<1>0. /\ out \in [Subagents -> Seq(Nat)] /\ relayed \in [Subagents -> Seq(Nat)]
      /\ subSent \in [Subagents -> 0..MaxSends] /\ subSent[s] < MaxSends
      /\ subSent' = [subSent EXCEPT ![s] = @ + 1]
      /\ out' = [out EXCEPT ![s] = Append(@, subSent[s] + 1)]
      /\ relayed' = relayed /\ MessagesOK(s) /\ MaxSends \in Nat
  BY SubagentAssumption DEF SubInv, SubTypeOK, LoopSends
<1> DEFINE o == out[s]
           n == subSent[s] + 1
<1>1. /\ o \in Seq(Nat) /\ Len(o) \in Nat /\ n \in Nat /\ relayed[s] \in Seq(Nat)
      /\ Len(relayed[s]) \in Nat
  BY <1>0
<1>2. /\ Append(o, n) \in Seq(Nat) /\ Len(Append(o, n)) = Len(o) + 1
      /\ Append(o, n)[Len(o) + 1] = n
      /\ \A i \in 1..Len(o) : Append(o, n)[i] = o[i]
  BY <1>1
<1>3. out'[s] = Append(o, n) /\ subSent'[s] = n
  BY <1>0
<1>4. Len(relayed[s]) + Len(o) = subSent[s] /\ \A i \in 1..Len(o) : o[i] = Len(relayed[s]) + i
  BY <1>0 DEF MessagesOK
<1>5. \A i \in 1..Len(o) + 1 : i \in 1..Len(o) \/ i = Len(o) + 1
  BY <1>1
<1>6. n = Len(relayed[s]) + (Len(o) + 1)
  BY <1>0, <1>1, <1>4
<1>7. MessagesOK(s)'
  <2>1. \A i \in 1..Len(relayed'[s]) : relayed'[s][i] = i
    BY <1>0 DEF MessagesOK
  <2> HIDE DEF o, n
  <2>2. \A i \in 1..Len(out'[s]) : out'[s][i] = Len(relayed'[s]) + i
    BY <1>0, <1>2, <1>3, <1>4, <1>5, <1>6
  <2>3. Len(relayed'[s]) + Len(out'[s]) = subSent'[s]
    BY <1>0, <1>1, <1>2, <1>3, <1>6
  <2> QED
    BY <2>1, <2>2, <2>3 DEF MessagesOK
<1>8. \A x \in Subagents : x # s => MessagesOK(x)'
  BY <1>0 DEF SubInv, MessagesOK
<1>9. out' \in [Subagents -> Seq(Nat)] /\ subSent' \in [Subagents -> 0..MaxSends]
  BY <1>0, <1>1, <1>2
<1> QED
  BY <1>0, <1>7, <1>8, <1>9

-----------------------------------------------------------------------------

\* Every step of spawning threads, runners, loops and manager preserves the
\* inductive invariant.
LEMMA NextSubInv == SubInv /\ [SubNext]_subVars => SubInv'
<1> SUFFICES ASSUME SubInv, [SubNext]_subVars PROVE SubInv'
  OBVIOUS
<1>0. /\ SubTypeOK
      /\ \A s \in Subagents : PhaseOK(s)
      /\ ~hasty => ManagerInv
  BY DEF SubInv
<1>a. /\ MaxSpawns \in Nat /\ DrainAttempts \in Nat \ {0}
      /\ \A s \in Subagents : s \in Int
  BY SubagentAssumption DEF Subagents
<1>1. ASSUME NEW c \in Spawners, CheckLimit(c) PROVE SubInv'
  <2>1. SubTypeOK'
    BY <1>0, <1>a, <1>1 DEF SubTypeOK, PhaseOK, CheckLimit, loopVars, messageVars
  <2>2. \A x \in Subagents : MessagesOK(x)'
    BY <1>1, MessagesKept DEF CheckLimit, loopVars, messageVars
  <2>3. \A x \in Subagents : PhaseOK(x)'
    BY <1>0, <1>a, <1>1 DEF SubTypeOK, PhaseOK, CheckLimit, loopVars, messageVars
  <2>4. ~hasty' => ManagerInv'
    BY <1>0, <1>a, <1>1 DEF SubTypeOK, PhaseOK, ManagerInv, Listed, CheckLimit, loopVars, messageVars
  <2> QED
    BY <2>1, <2>2, <2>3, <2>4 DEF SubInv
<1>2. ASSUME NEW c \in Spawners, CreateRunner(c) PROVE SubInv'
  <2>1. SubTypeOK'
    <3>1. /\ spawned' \in 0..MaxSpawns /\ 1..spawned \subseteq 1..spawned'
          /\ spawned + 1 \in Subagents
      BY <1>0, <1>a, <1>2 DEF SubTypeOK, CreateRunner, Subagents
    <3>2. /\ spawner' \in [Spawners -> {"idle", "create"}]
          /\ runner' \in [Subagents -> {"none", "start", "make", "begin", "relay", "receive",
                                        "drain", "join", "remove", "ended"}]
      BY <1>0, <1>2 DEF SubTypeOK, CreateRunner
    <3> QED
      BY <1>0, <1>2, <3>1, <3>2 DEF SubTypeOK, CreateRunner, loopVars, messageVars
  <2>2. \A x \in Subagents : MessagesOK(x)'
    BY <1>2, MessagesKept DEF CreateRunner, loopVars, messageVars
  <2>3. \A x \in Subagents : PhaseOK(x)'
    <3> SUFFICES ASSUME NEW x \in Subagents PROVE PhaseOK(x)'
      OBVIOUS
    <3>1. spawned \in Nat /\ x \in Int /\ spawned + 1 \in Subagents
      BY <1>0, <1>a, <1>2 DEF SubTypeOK, CreateRunner, Subagents
    <3>2. \/ spawned' = spawned /\ runner' = runner
          \/ spawned' = spawned + 1 /\ runner' = [runner EXCEPT ![spawned + 1] = "start"]
      BY <1>2 DEF CreateRunner
    <3>3. UNCHANGED <<loop, thread, loopRunning, closed, out, drains, unwatched>>
      BY <1>2 DEF CreateRunner, loopVars, messageVars
    <3>4. PhaseOK(x)
      BY <1>0
    <3>5. runner'[x] = "none" <=> x > spawned'
      BY <1>0, <3>1, <3>2, <3>4 DEF SubTypeOK, PhaseOK
    <3>6. runner'[x] = runner[x] \/ (runner[x] = "none" /\ runner'[x] = "start")
      BY <1>0, <3>1, <3>2, <3>4 DEF SubTypeOK, PhaseOK
    <3> QED
      BY <3>3, <3>4, <3>5, <3>6 DEF PhaseOK
  <2>4. ~hasty' => ManagerInv'
    BY <1>0, <1>a, <1>2 DEF SubTypeOK, PhaseOK, ManagerInv, Listed, CreateRunner, loopVars, messageVars
  <2> QED
    BY <2>1, <2>2, <2>3, <2>4 DEF SubInv
<1>3. ASSUME NEW s \in Subagents, AddTask(s) PROVE SubInv'
  <2>1. SubTypeOK'
    <3>1. s \in 1..spawned
      BY <1>0, <1>a, <1>3 DEF SubTypeOK, PhaseOK, AddTask, Subagents
    <3> QED
      BY <1>0, <1>3, <3>1 DEF SubTypeOK, AddTask, loopVars, messageVars, ManagerUsed
  <2>2. \A x \in Subagents : MessagesOK(x)'
    BY <1>3, MessagesKept DEF AddTask, loopVars, messageVars, ManagerUsed
  <2>3. \A x \in Subagents : PhaseOK(x)'
    BY <1>0, <1>a, <1>3 DEF SubTypeOK, PhaseOK, AddTask, loopVars, messageVars, ManagerUsed
  <2>4. ~hasty' => ManagerInv'
    BY <1>0, <1>a, <1>3 DEF SubTypeOK, PhaseOK, ManagerInv, Listed, AddTask, loopVars, messageVars, ManagerUsed
  <2> QED
    BY <2>1, <2>2, <2>3, <2>4 DEF SubInv
<1>4. ASSUME NEW s \in Subagents, MakeLoop(s) PROVE SubInv'
  <2>1. SubTypeOK'
    BY <1>0, <1>a, <1>4 DEF SubTypeOK, PhaseOK, MakeLoop, managerVars, messageVars
  <2>2. \A x \in Subagents : MessagesOK(x)'
    BY <1>4, MessagesKept DEF MakeLoop, managerVars, messageVars
  <2>3. \A x \in Subagents : PhaseOK(x)'
    BY <1>0, <1>a, <1>4 DEF SubTypeOK, PhaseOK, MakeLoop, managerVars, messageVars
  <2>4. ~hasty' => ManagerInv'
    BY <1>0, <1>a, <1>4 DEF SubTypeOK, PhaseOK, ManagerInv, Listed, MakeLoop, managerVars, messageVars
  <2> QED
    BY <2>1, <2>2, <2>3, <2>4 DEF SubInv
<1>5. ASSUME NEW s \in Subagents, StartLoop(s) PROVE SubInv'
  <2>1. SubTypeOK'
    BY <1>0, <1>a, <1>5 DEF SubTypeOK, PhaseOK, StartLoop, managerVars, messageVars
  <2>2. \A x \in Subagents : MessagesOK(x)'
    BY <1>5, MessagesKept DEF StartLoop, managerVars, messageVars
  <2>3. \A x \in Subagents : PhaseOK(x)'
    BY <1>0, <1>a, <1>5 DEF SubTypeOK, PhaseOK, StartLoop, managerVars, messageVars
  <2>4. ~hasty' => ManagerInv'
    BY <1>0, <1>a, <1>5 DEF SubTypeOK, PhaseOK, ManagerInv, Listed, StartLoop, managerVars, messageVars
  <2> QED
    BY <2>1, <2>2, <2>3, <2>4 DEF SubInv
<1>6. ASSUME NEW s \in Subagents, TestRunning(s) PROVE SubInv'
  <2>1. SubTypeOK'
    <3>1. s \in 1..spawned
      BY <1>0, <1>a, <1>6 DEF SubTypeOK, PhaseOK, TestRunning, Subagents
    <3> QED
      BY <1>0, <1>6, <3>1 DEF SubTypeOK, TestRunning, managerVars, loopVars
  <2>2. \A x \in Subagents : MessagesOK(x)'
    BY <1>6, MessagesKept DEF TestRunning, managerVars, loopVars
  <2>3. \A x \in Subagents : PhaseOK(x)'
    BY <1>0, <1>a, <1>6 DEF SubTypeOK, PhaseOK, TestRunning, managerVars, loopVars
  <2>4. ~hasty' => ManagerInv'
    BY <1>0, <1>a, <1>6 DEF SubTypeOK, PhaseOK, ManagerInv, Listed, TestRunning, managerVars, loopVars
  <2> QED
    BY <2>1, <2>2, <2>3, <2>4 DEF SubInv
<1>7. ASSUME NEW s \in Subagents, FreeLoop(s) PROVE SubInv'
  <2>1. SubTypeOK'
    BY <1>0, <1>a, <1>7 DEF SubTypeOK, PhaseOK, FreeLoop, managerVars, messageVars
  <2>2. \A x \in Subagents : MessagesOK(x)'
    BY <1>7, MessagesKept DEF FreeLoop, managerVars, messageVars
  <2>3. \A x \in Subagents : PhaseOK(x)'
    BY <1>0, <1>a, <1>7 DEF SubTypeOK, PhaseOK, FreeLoop, managerVars, messageVars
  <2>4. ~hasty' => ManagerInv'
    BY <1>0, <1>a, <1>7 DEF SubTypeOK, PhaseOK, ManagerInv, Listed, FreeLoop, managerVars, messageVars
  <2> QED
    BY <2>1, <2>2, <2>3, <2>4 DEF SubInv
<1>8. ASSUME NEW s \in Subagents, RemoveTask(s) PROVE SubInv'
  <2>1. SubTypeOK'
    BY <1>0, <1>a, <1>8 DEF SubTypeOK, PhaseOK, RemoveTask, loopVars, messageVars, ManagerUsed
  <2>2. \A x \in Subagents : MessagesOK(x)'
    BY <1>8, MessagesKept DEF RemoveTask, loopVars, messageVars, ManagerUsed
  <2>3. \A x \in Subagents : PhaseOK(x)'
    BY <1>0, <1>a, <1>8 DEF SubTypeOK, PhaseOK, RemoveTask, loopVars, messageVars, ManagerUsed
  <2>4. ~hasty' => ManagerInv'
    BY <1>0, <1>a, <1>8 DEF SubTypeOK, PhaseOK, ManagerInv, Listed, RemoveTask, loopVars, messageVars, ManagerUsed
  <2> QED
    BY <2>1, <2>2, <2>3, <2>4 DEF SubInv
<1>9. ASSUME NEW s \in Subagents, LoopStarts(s) PROVE SubInv'
  <2>1. SubTypeOK'
    BY <1>0, <1>a, <1>9, ZenonT(40) DEF SubTypeOK, PhaseOK, LoopStarts, managerVars, messageVars
  <2>2. \A x \in Subagents : MessagesOK(x)'
    BY <1>9, MessagesKept DEF LoopStarts, managerVars, messageVars
  <2>3. \A x \in Subagents : PhaseOK(x)'
    BY <1>0, <1>a, <1>9 DEF SubTypeOK, PhaseOK, LoopStarts, managerVars, messageVars
  <2>4. ~hasty' => ManagerInv'
    BY <1>0, <1>a, <1>9 DEF SubTypeOK, PhaseOK, ManagerInv, Listed, LoopStarts, managerVars, messageVars
  <2> QED
    BY <2>1, <2>2, <2>3, <2>4 DEF SubInv
<1>10. ASSUME NEW s \in Subagents, LoopExits(s) PROVE SubInv'
  <2>1. SubTypeOK'
    BY <1>0, <1>a, <1>10 DEF SubTypeOK, PhaseOK, LoopExits, managerVars, messageVars
  <2>2. \A x \in Subagents : MessagesOK(x)'
    BY <1>10, MessagesKept DEF LoopExits, managerVars, messageVars
  <2>3. \A x \in Subagents : PhaseOK(x)'
    BY <1>0, <1>a, <1>10 DEF SubTypeOK, PhaseOK, LoopExits, managerVars, messageVars
  <2>4. ~hasty' => ManagerInv'
    BY <1>0, <1>a, <1>10 DEF SubTypeOK, PhaseOK, ManagerInv, Listed, LoopExits, managerVars, messageVars
  <2> QED
    BY <2>1, <2>2, <2>3, <2>4 DEF SubInv
<1>11. ASSUME NEW s \in Subagents, Cancel(s) PROVE SubInv'
  <2>1. SubTypeOK'
    BY <1>0, <1>a, <1>11 DEF SubTypeOK, PhaseOK, Cancel, messageVars, StoppedAll, Settled
  <2>2. \A x \in Subagents : MessagesOK(x)'
    BY <1>11, MessagesKept DEF Cancel, messageVars, StoppedAll, Settled
  <2>3. \A x \in Subagents : PhaseOK(x)'
    BY <1>0, <1>a, <1>11 DEF SubTypeOK, PhaseOK, Cancel, messageVars, StoppedAll, Settled
  <2>4. ~hasty' => ManagerInv'
    BY <1>0, <1>a, <1>11, SMTT(20)
       DEF SubTypeOK, PhaseOK, ManagerInv, Listed, Cancel, messageVars, StoppedAll, Settled
  <2> QED
    BY <2>1, <2>2, <2>3, <2>4 DEF SubInv
<1>12. CASE StopAll
  <2>1. SubTypeOK'
    BY <1>0, <1>a, <1>12 DEF SubTypeOK, PhaseOK, StopAll, messageVars, StoppedAll, Settled, Quiet
  <2>2. \A x \in Subagents : MessagesOK(x)'
    BY <1>12, MessagesKept DEF StopAll, messageVars, StoppedAll, Settled, Quiet
  <2>3. \A x \in Subagents : PhaseOK(x)'
    BY <1>0, <1>a, <1>12 DEF SubTypeOK, PhaseOK, StopAll, messageVars, StoppedAll, Settled, Quiet
  <2>4. ~hasty' => ManagerInv'
    <3> SUFFICES ASSUME ~hasty' PROVE ManagerInv'
      OBVIOUS
    <3>1. /\ ~hasty /\ Quiet /\ manager' = "waiting"
          /\ UNCHANGED <<spawner, runner, activeTasks>>
      BY <1>12 DEF StopAll
    <3>2. ManagerInv
      BY <1>0, <3>1
    <3>3. \A s \in Subagents : runner[s] \notin {"start", "make", "begin"}
      BY <3>1, <3>2 DEF ManagerInv, Quiet, Settled, Listed
    <3>4. \A s \in activeTasks : loop[s] # "freed"
      <4>1. \A s \in activeTasks : s \in Subagents /\ runner[s] \notin {"remove", "ended"}
        BY <3>1, <3>2 DEF ManagerInv, Quiet, Settled, Listed
      <4> QED
        BY <1>0, <4>1 DEF PhaseOK
    <3>5. ~subFaulty'
      BY <1>12, <3>2, <3>4 DEF StopAll, StoppedAll, ManagerInv
    <3> QED
      BY <3>1, <3>2, <3>3, <3>5 DEF ManagerInv, Quiet
  <2> QED
    BY <2>1, <2>2, <2>3, <2>4 DEF SubInv
<1>13. CASE FreeSubagents
  <2>1. SubTypeOK'
    BY <1>0, <1>a, <1>13 DEF SubTypeOK, PhaseOK, FreeSubagents, loopVars, messageVars
  <2>2. \A x \in Subagents : MessagesOK(x)'
    BY <1>13, MessagesKept DEF FreeSubagents, loopVars, messageVars
  <2>3. \A x \in Subagents : PhaseOK(x)'
    BY <1>0, <1>a, <1>13 DEF SubTypeOK, PhaseOK, FreeSubagents, loopVars, messageVars
  <2>4. ~hasty' => ManagerInv'
    <3> SUFFICES ASSUME ~hasty' PROVE ManagerInv'
      OBVIOUS
    <3>1. ManagerInv /\ activeTasks = {} /\ manager # "up"
      BY <1>0, <1>13 DEF FreeSubagents
    <3>2. \A x \in Subagents : runner[x] \notin Listed /\ runner[x] \notin {"start", "make", "begin"}
      BY <3>1 DEF ManagerInv
    <3>3. \A x \in Subagents : runner[x] \in {"none", "ended"}
      BY <1>0, <3>2 DEF SubTypeOK, Listed
    <3> QED
      BY <1>13, <3>1, <3>3 DEF ManagerInv, Listed, FreeSubagents
  <2> QED
    BY <2>1, <2>2, <2>3, <2>4 DEF SubInv
<1>14. ASSUME NEW s \in Subagents, Receive(s) PROVE SubInv'
  <2>0. /\ out' \in [Subagents -> Seq(Nat)] /\ relayed' \in [Subagents -> Seq(Nat)]
        /\ \A x \in Subagents : MessagesOK(x)'
        /\ \A x \in Subagents : x # s => out'[x] = out[x]
    <3>1. CASE out[s] # << >>
      BY <1>14, <3>1, RelayedFacts DEF Receive
    <3>2. CASE out[s] = << >>
      BY <1>0, <1>14, <3>2, MessagesKept DEF Receive, SubTypeOK
    <3> QED
      BY <3>1, <3>2
  <2>1. SubTypeOK'
    BY <1>0, <1>14, <2>0 DEF SubTypeOK, Receive, Stopped, managerVars
  <2>2. \A x \in Subagents : PhaseOK(x)'
    <3>1. /\ runner[s] = "receive" /\ PhaseOK(s)
          /\ UNCHANGED <<spawned, loop, thread, drains, unwatched>>
          /\ \/ /\ runner' = [runner EXCEPT ![s] = "relay"]
                /\ UNCHANGED <<loopRunning, closed>>
             \/ /\ runner' = [runner EXCEPT ![s] = "drain"]
                /\ loopRunning' = [loopRunning EXCEPT ![s] = FALSE]
                /\ closed' = [closed EXCEPT ![s] = TRUE]
      BY <1>0, <1>14 DEF Receive, Stopped, managerVars
    <3>2. PhaseOK(s)'
      BY <1>0, <1>a, <3>1 DEF SubTypeOK, PhaseOK
    <3>3. \A x \in Subagents : x # s => PhaseOK(x)'
      BY <1>0, <2>0, <3>1 DEF SubTypeOK, PhaseOK
    <3> QED
      BY <3>2, <3>3
  <2>3. ~hasty' => ManagerInv'
    BY <1>0, <1>14, ZenonT(40) DEF SubTypeOK, ManagerInv, Listed, Receive, managerVars
  <2> QED
    BY <2>0, <2>1, <2>2, <2>3 DEF SubInv
<1>15. ASSUME NEW s \in Subagents, RunnerDrains(s) PROVE SubInv'
  <2>0. /\ out' \in [Subagents -> Seq(Nat)] /\ relayed' \in [Subagents -> Seq(Nat)]
        /\ \A x \in Subagents : MessagesOK(x)'
        /\ \A x \in Subagents : x # s => out'[x] = out[x]
    <3>1. CASE out[s] # << >>
      BY <1>15, <3>1, RelayedFacts DEF RunnerDrains
    <3>2. CASE out[s] = << >>
      BY <1>0, <1>15, <3>2, MessagesKept DEF RunnerDrains, SubTypeOK
    <3> QED
      BY <3>1, <3>2
  <2>1. /\ drains' \in [Subagents -> 0..DrainAttempts]
        /\ runner'[s] \in {"drain", "join"} /\ (runner'[s] = "drain" => drains'[s] < DrainAttempts)
        /\ (runner'[s] = "join" => out'[s] = << >>)
        /\ runner[s] = "drain" /\ \A x \in Subagents : x # s => runner'[x] = runner[x] /\ drains'[x] = drains[x]
        /\ runner' \in [Subagents -> {"none", "start", "make", "begin", "relay", "receive",
                                      "drain", "join", "remove", "ended"}]
    <3>0. runner[s] = "drain" /\ drains[s] \in Nat /\ drains[s] < DrainAttempts
      BY <1>0, <1>15 DEF RunnerDrains, SubTypeOK, PhaseOK
    <3>1. CASE out[s] # << >>
      <4>1. drains' = [drains EXCEPT ![s] = 0] /\ runner' = runner
        BY <1>15, <3>1 DEF RunnerDrains
      <4> QED
        BY <1>0, <1>a, <3>0, <4>1 DEF SubTypeOK
    <3>2. CASE out[s] = << >>
      <4>1. /\ drains' = [drains EXCEPT ![s] = @ + 1] /\ out' = out
            /\ runner' = [runner EXCEPT ![s] = IF drains[s] + 1 = DrainAttempts THEN "join" ELSE @]
        BY <1>15, <3>2 DEF RunnerDrains
      <4>2. drains'[s] = drains[s] + 1 /\ drains[s] + 1 \in 0..DrainAttempts
        BY <1>0, <1>a, <3>0, <4>1 DEF SubTypeOK
      <4>3. runner'[s] = IF drains[s] + 1 = DrainAttempts THEN "join" ELSE "drain"
        BY <1>0, <3>0, <4>1 DEF SubTypeOK
      <4>4. runner'[s] = "drain" => drains'[s] < DrainAttempts
        BY <1>a, <4>2, <4>3
      <4>5. drains' \in [Subagents -> 0..DrainAttempts]
        BY <1>0, <4>1, <4>2 DEF SubTypeOK
      <4>6. /\ \A x \in Subagents : x # s => runner'[x] = runner[x] /\ drains'[x] = drains[x]
            /\ runner' \in [Subagents -> {"none", "start", "make", "begin", "relay", "receive",
                                          "drain", "join", "remove", "ended"}]
        BY <1>0, <4>1 DEF SubTypeOK
      <4> QED
        BY <3>0, <3>2, <4>1, <4>3, <4>4, <4>5, <4>6
    <3> QED
      BY <3>1, <3>2
  <2>2. SubTypeOK'
    BY <1>0, <1>15, <2>0, <2>1 DEF SubTypeOK, RunnerDrains, managerVars, loopVars
  <2>3. \A x \in Subagents : PhaseOK(x)'
    <3>1. UNCHANGED <<spawned, loop, thread, loopRunning, closed, unwatched>> /\ PhaseOK(s)
      BY <1>0, <1>15 DEF RunnerDrains, managerVars, loopVars
    <3>2. PhaseOK(s)'
      BY <2>1, <3>1 DEF PhaseOK
    <3>3. ASSUME NEW x \in Subagents, x # s PROVE PhaseOK(x)'
      <4>1. runner'[x] = runner[x] /\ drains'[x] = drains[x] /\ out'[x] = out[x] /\ PhaseOK(x)
        BY <1>0, <2>0, <2>1, <3>3
      <4> QED
        BY <3>1, <4>1 DEF PhaseOK
    <3> QED
      BY <3>2, <3>3
  <2>4. ~hasty' => ManagerInv'
    BY <1>0, <1>15, <2>1 DEF SubTypeOK, ManagerInv, Listed, RunnerDrains, managerVars
  <2> QED
    BY <2>0, <2>2, <2>3, <2>4 DEF SubInv
<1>16. ASSUME NEW s \in Subagents, LoopSends(s) PROVE SubInv'
  <2>0. /\ out' \in [Subagents -> Seq(Nat)] /\ subSent' \in [Subagents -> 0..MaxSends]
        /\ \A x \in Subagents : MessagesOK(x)'
        /\ \A x \in Subagents : x # s => out'[x] = out[x]
    BY <1>16, LoopSendsFacts
  <2>1. SubTypeOK'
    BY <1>0, <1>16, <2>0 DEF SubTypeOK, LoopSends, managerVars, loopVars
  <2>2. \A x \in Subagents : PhaseOK(x)'
    BY <1>0, <1>16, <2>0 DEF SubTypeOK, PhaseOK, LoopSends, managerVars, loopVars
  <2>3. ~hasty' => ManagerInv'
    BY <1>0, <1>16 DEF SubTypeOK, ManagerInv, LoopSends, managerVars
  <2> QED
    BY <2>0, <2>1, <2>2, <2>3 DEF SubInv
<1>17. CASE UNCHANGED subVars
  <2>1. SubTypeOK'
    BY <1>0, <1>17 DEF subVars, SubTypeOK
  <2>2. \A x \in Subagents : MessagesOK(x)'
    BY <1>17, MessagesKept DEF subVars
  <2>3. \A x \in Subagents : PhaseOK(x)'
    BY <1>0, <1>17 DEF subVars, PhaseOK
  <2>4. ~hasty' => ManagerInv'
    BY <1>0, <1>17 DEF subVars, ManagerInv
  <2> QED
    BY <2>1, <2>2, <2>3, <2>4 DEF SubInv
<1> QED
  BY <1>1, <1>2, <1>3, <1>4, <1>5, <1>6, <1>7, <1>8, <1>9, <1>10, <1>11, <1>12, <1>13,
     <1>14, <1>15, <1>16, <1>17 DEF SubNext, Runner, Finished, ManagerGone

\* Every variable of the subagents keeps its type.
THEOREM SubTypeCorrect == SubSpec => []SubTypeOK
<1>1. SubInv => SubTypeOK
  BY DEF SubInv
<1> QED
  BY <1>1, InitSubInv, NextSubInv, PTL DEF SubSpec

\* What a subagent sends reaches the main bus in order and in full before its bus is
\* freed, and no thread uses freed memory, under the two conditions the properties
\* name, for any number of subagents and messages.
THEOREM SubagentsAreSafe == SubSpec => []SubagentsSafe
<1>1. SubInv => SubagentsSafe
  <2> SUFFICES ASSUME SubInv PROVE SubagentsSafe
    OBVIOUS
  <2>1. RelayedInFull
    BY DEF SubInv, MessagesOK, PhaseOK, RelayedInFull
  <2>2. NoFreedUse
    BY DEF SubInv, ManagerInv, NoFreedUse
  <2> QED
    BY <2>1, <2>2 DEF SubagentsSafe
<1> QED
  BY <1>1, InitSubInv, NextSubInv, PTL DEF SubSpec

-----------------------------------------------------------------------------
(* Memory: the inductive invariant.                                        *)

\* The lines of the log, and what the calls of a run can be.
Line == {Blank, Marker} \cup LogEntries \cup {r.entry : r \in Requests}
Rest == {<< >>, <<"save">>, <<"entry", "save">>}
Todo == Rest \cup {<<"entry">>, <<"fact", "save">>, <<"fact", "entry", "save">>,
                   <<"update", "save">>, <<"entry", "update", "save">>}

\* The fields of the records.
TextTypes ==
    /\ files = [facts |-> files.facts, stamp |-> files.stamp, history |-> files.history]
    /\ buffer = [facts |-> buffer.facts, history |-> buffer.history,
                 version |-> buffer.version, read |-> buffer.read]
    /\ files.history \in Seq(Line) /\ buffer.history \in Seq(Line)
    /\ files.stamp \in Nat /\ clock \in Nat \ {0} /\ buffer.version \in Nat \ {0}

AgentTypes ==
    /\ agentAt = [pc |-> agentAt.pc, stamp |-> agentAt.stamp, version |-> agentAt.version]
    /\ {prompt.stamp, prompt.version, agentAt.stamp, agentAt.version} \subseteq Nat

ToolTypes ==
    /\ tools = [w \in Workers |-> tools[w]]
    /\ \A w \in Workers :
         tools[w] = [todo |-> tools[w].todo, req |-> tools[w].req, given |-> tools[w].given,
                     logged |-> tools[w].logged, busy |-> tools[w].busy]

MemoryTypes == TextTypes /\ AgentTypes /\ ToolTypes

\* A run of the tool ends with a save if it gives facts, and there is a prompt before it.
RunInv ==
    \A w \in Workers :
        /\ tools[w].busy => prompt.made
        /\ tools[w].todo \in Todo
        /\ tools[w].todo # << >> => tools[w].busy /\ tools[w].req \in Requests
        /\ tools[w].todo \in {<<"update", "save">>, <<"entry", "update", "save">>} =>
             tools[w].req.update # NoText
        /\ tools[w].given # {} => tools[w].todo \in Rest

\* What the prompt has is no newer than the text in memory, and as new only if it is the same.
PromptInv ==
    /\ prompt.version <= buffer.version
    /\ agentAt.pc = "copy" => agentAt.version <= buffer.version
    /\ PromptCurrent

\* A process that has made no prompt has at most one entry, its own, unless it has read the
\* files; and no file is no facts.
FreshInv ==
    /\ ~buffer.read /\ ~prompt.made =>
         /\ prompt.stamp = 0 /\ buffer.facts = {} /\ Len(buffer.history) <= 1
         /\ agentAt.pc = "idle" => buffer.history = << >>
    /\ files.stamp = 0 => files.facts = {}

\* The process knows the facts: it has read the files, or has found that there are none.
Aware == buffer.read \/ prompt.made \/ agentAt.pc \in {"version", "copy"}

\* What was reported, or will be, is in memory and in the file.
FactInv ==
    /\ FactsKept
    /\ Aware => \A f \in facts : FactExists(f, buffer.facts) \/ Excused(f)
    /\ \A w \in Workers : \A f \in tools[w].given :
         /\ FactExists(f, buffer.facts) \/ Excused(f)
         /\ tools[w].todo = << >> => FactExists(f, files.facts) \/ Excused(f)

\* The file has the entry, and so has the text in memory if it was read from the file.
InLog(e) == e \in ToSet(files.history) /\ (buffer.read => e \in ToSet(buffer.history))

\* So for entries.
LogInv ==
    /\ \A e \in entries : InLog(e) \/ Excused(e)
    /\ \A w \in Workers : \A e \in tools[w].logged : InLog(e) \/ Excused(e)

\* The inductive invariant.
MemoryInv == MemoryTypes /\ RunInv /\ PromptInv /\ FreshInv /\ FactInv /\ LogInv

-----------------------------------------------------------------------------
(* The texts.                                                              *)

\* A fact that is known stays so when facts are added.
LEMMA MoreFacts ==
    ASSUME NEW F, NEW G, NEW f
    PROVE  /\ F \subseteq G /\ FactExists(f, F) => FactExists(f, G)
           /\ f \in Known(F) => FactExists(f, F)
           /\ F \subseteq AddFact(F, f)
           /\ ~FactExists(f, {})
BY DEF FactExists, Known, AddFact

\* A line is appended, or not if the log is full.
LEMMA OneMoreLine ==
    ASSUME NEW h \in Seq(Line), NEW e \in Line
    PROVE  /\ Append(h, e) \in Seq(Line) /\ ToSet(Append(h, e)) = ToSet(h) \cup {e}
           /\ AppendHistory(h, e) \in Seq(Line)
           /\ ToSet(h) \subseteq ToSet(AppendHistory(h, e))
           /\ Len(h) < HistoryCap => e \in ToSet(AppendHistory(h, e))
           /\ h = << >> => Len(AppendHistory(h, e)) <= 1
<1> DEFINE a == Append(h, e)
<1>0. Len(h) \in Nat /\ HistoryCap \in Nat
  BY MemoryAssumption
<1>1. /\ a \in Seq(Line) /\ Len(a) = Len(h) + 1 /\ a[Len(h) + 1] = e
      /\ \A i \in 1..Len(h) : a[i] = h[i]
  BY <1>0, AppendProperties
<1>4. DOMAIN a = 1..Len(h) + 1 /\ DOMAIN h = 1..Len(h)
  BY <1>1
<1> HIDE DEF a
<1>2. ToSet(a) = ToSet(h) \cup {e}
  <2>1. \A i \in 1..Len(h) + 1 : i \in 1..Len(h) \/ i = Len(h) + 1
    BY <1>0
  <2>2. Len(h) + 1 \in 1..Len(h) + 1 /\ \A i \in 1..Len(h) : i \in 1..Len(h) + 1
    BY <1>0
  <2> QED
    BY <1>1, <1>4, <2>1, <2>2 DEF ToSet
<1>3. h = << >> => Len(h) = 0
  OBVIOUS
<1>5. AppendHistory(h, e) = h \/ AppendHistory(h, e) = a
  BY DEF AppendHistory, a
<1>6. Len(h) < HistoryCap => AppendHistory(h, e) = a
  BY <1>0 DEF AppendHistory, a
<1>7. h = << >> => Len(AppendHistory(h, e)) <= 1
  <2>1. h = << >> => Len(h) <= 1 /\ Len(a) <= 1
    BY <1>1, <1>3
  <2> QED
    BY <1>5, <2>1
<1>8. a \in Seq(Line) /\ ToSet(a) = ToSet(h) \cup {e}
  BY <1>1, <1>2
<1> QED
  BY <1>5, <1>6, <1>7, <1>8 DEF a

\* Whatever a consolidation does not cut off stays in the log.
LEMMA ShorterLog ==
    ASSUME NEW h \in Seq(Line)
    PROVE  /\ NewHistory(h) \in Seq(Line)
           /\ ToSet(h) \subseteq ToSet(OldPart(h)) \cup ToSet(NewHistory(h))
<1> DEFINE k == Cut(h)
           top == <<Blank, Blank, Marker, Blank>>
           low == SubSeq(h, k + 1, Len(h))
           old == SubSeq(h, 1, k)
<1>0. Len(h) \in Nat /\ NewlinesKept \in Nat /\ 1 <= NewlinesKept
  BY MemoryAssumption
<1>1. k \in Nat /\ k <= Len(h)
  BY <1>0 DEF Cut
<1> HIDE DEF k
<1>2. /\ low \in Seq(Line) /\ Len(low) = IF k + 1 <= Len(h) THEN Len(h) - (k + 1) + 1 ELSE 0
      /\ \A i \in 1..Len(h) - (k + 1) + 1 : low[i] = h[k + 1 + i - 1]
  <2>1. k + 1 \in Int /\ Len(h) \in Int /\ \A i \in k + 1..Len(h) : h[i] \in Line
    BY <1>0, <1>1
  <2> QED
    BY <2>1, SubSeqProperties
<1>3. /\ old \in Seq(Line) /\ Len(old) = IF 1 <= k THEN k - 1 + 1 ELSE 0
      /\ \A i \in 1..k - 1 + 1 : old[i] = h[1 + i - 1]
  <2>1. k \in Int /\ 1 \in Int /\ \A i \in 1..k : h[i] \in Line
    BY <1>0, <1>1
  <2> QED
    BY <2>1, SubSeqProperties
<1>4. top \in Seq(Line) /\ Len(top) = 4
  BY DEF Line
<1> DEFINE new == top \o low
<1> HIDE DEF low, old, top
<1>5. /\ new \in Seq(Line) /\ Len(new) = Len(top) + Len(low)
      /\ \A i \in 1..Len(top) + Len(low) :
           new[i] = IF i <= Len(top) THEN top[i] ELSE low[i - Len(top)]
  BY <1>2, <1>4, ConcatProperties
<1> HIDE DEF new
<1>6. Len(low) = Len(h) - k /\ Len(old) = k /\ Len(new) = 4 + (Len(h) - k)
  <2>1. Len(low) = Len(h) - k /\ Len(old) = k
    BY ONLY <1>0, <1>1, <1>2, <1>3
  <2> QED
    BY <1>4, <1>5, <2>1
<1>7. ToSet(h) \subseteq ToSet(old) \cup ToSet(new)
  <2> SUFFICES ASSUME NEW i \in 1..Len(h)
               PROVE  h[i] \in ToSet(old) \cup ToSet(new)
    BY <1>0 DEF ToSet
  <2>0. i \in Nat /\ 1 <= i /\ i <= Len(h)
    BY <1>0
  <2>1. CASE i <= k
    <3>1. i \in 1..k - 1 + 1 /\ 1 + i - 1 = i /\ i \in 1..k
      BY ONLY <1>1, <2>0, <2>1
    <3>2. old[i] = h[i] /\ i \in 1..Len(old)
      BY <1>3, <1>6, <3>1
    <3> QED
      BY <1>3, <3>2 DEF ToSet
  <2>2. CASE ~(i <= k)
    <3> DEFINE j == i - k
    <3>1. j \in 1..Len(h) - (k + 1) + 1 /\ k + 1 + j - 1 = i /\ 4 + j \in 1..4 + (Len(h) - k)
          /\ ~(4 + j <= 4) /\ (4 + j) - 4 = j
      BY ONLY <1>0, <1>1, <2>0, <2>2
    <3> HIDE DEF j
    <3>2. low[j] = h[i]
      BY <1>2, <3>1
    <3>3. new[4 + j] = low[j] /\ 4 + j \in 1..Len(new)
      BY <1>4, <1>5, <1>6, <3>1
    <3> QED
      BY <1>5, <3>2, <3>3 DEF ToSet
  <2> QED
    BY <2>1, <2>2
<1>8. NewHistory(h) = h \/ NewHistory(h) = new
  BY DEF NewHistory, new, low, top, k
<1>9. OldPart(h) = old
  BY DEF OldPart, old, k
<1> QED
  BY <1>5, <1>7, <1>8, <1>9

\* The calls of a run in their order.
LEMMA TodoFacts ==
    ASSUME NEW t \in Todo, t # << >>
    PROVE  /\ Head(t) = "fact" => Tail(t) \in {<<"save">>, <<"entry", "save">>}
           /\ Head(t) = "entry" => Tail(t) \in {<< >>, <<"save">>, <<"update", "save">>}
           /\ Head(t) = "entry" /\ t \in Rest => Tail(t) = <<"save">>
           /\ Head(t) = "entry" /\ Tail(t) = <<"update", "save">> =>
                t = <<"entry", "update", "save">>
           /\ Head(t) = "update" => t = <<"update", "save">> /\ Tail(t) = <<"save">>
           /\ Head(t) = "save" => t = <<"save">> /\ Tail(t) = << >>
           /\ Tail(t) \in Todo
<1>1. /\ Tail(<<"save">>) = << >> /\ Tail(<<"entry">>) = << >>
      /\ Tail(<<"entry", "save">>) = <<"save">> /\ Tail(<<"fact", "save">>) = <<"save">>
      /\ Tail(<<"update", "save">>) = <<"save">>
  OBVIOUS
<1>2. /\ Tail(<<"fact", "entry", "save">>) = <<"entry", "save">>
      /\ Tail(<<"entry", "update", "save">>) = <<"update", "save">>
  OBVIOUS
<1>3. /\ Head(<<"save">>) = "save" /\ Head(<<"entry">>) = "entry"
      /\ Head(<<"entry", "save">>) = "entry" /\ Head(<<"fact", "save">>) = "fact"
      /\ Head(<<"update", "save">>) = "update" /\ Head(<<"fact", "entry", "save">>) = "fact"
      /\ Head(<<"entry", "update", "save">>) = "entry"
  OBVIOUS
<1>4. /\ << >> # <<"save">> /\ << >> # <<"update", "save">> /\ <<"save">> # <<"update", "save">>
      /\ <<"entry">> \notin Rest /\ <<"entry", "update", "save">> \notin Rest
  BY DEF Rest
<1> QED
  BY <1>1, <1>2, <1>3, <1>4 DEF Todo, Rest

\* Short sequences put together.
LEMMA Joined ==
    ASSUME NEW a, NEW b, NEW c
    PROVE  /\ << >> \o << >> = << >>
           /\ << >> \o <<a>> = <<a>> /\ <<a>> \o << >> = <<a>>
           /\ <<a, b>> \o << >> = <<a, b>>
           /\ <<a>> \o <<b>> = <<a, b>> /\ <<a, b>> \o <<c>> = <<a, b, c>>
<1> DEFINE S == {a, b, c}
           s == <<a>>
           t == <<b>>
           v == <<c>>
           p == <<a, b>>
           u == s \o t
           q == p \o v
<1>1. /\ s \in Seq(S) /\ Len(s) = 1 /\ s[1] = a
      /\ t \in Seq(S) /\ Len(t) = 1 /\ t[1] = b
  <2>1. s \in Seq(S) /\ t \in Seq(S)
    OBVIOUS
  <2>2. Len(s) = 1 /\ s[1] = a /\ Len(t) = 1 /\ t[1] = b
    OBVIOUS
  <2> QED
    BY <2>1, <2>2
<1>2. /\ v \in Seq(S) /\ Len(v) = 1 /\ v[1] = c
      /\ p \in Seq(S) /\ Len(p) = 2 /\ p[1] = a /\ p[2] = b
  <2>1. v \in Seq(S) /\ p \in Seq(S)
    OBVIOUS
  <2>2. Len(v) = 1 /\ v[1] = c
    OBVIOUS
  <2>3. Len(p) = 2 /\ p[1] = a /\ p[2] = b
    OBVIOUS
  <2> QED
    BY <2>1, <2>2, <2>3
<1>9. << >> \in Seq(S)
  OBVIOUS
<1>3. << >> \o << >> = << >> /\ << >> \o s = s /\ s \o << >> = s /\ p \o << >> = p
  BY <1>1, <1>2, <1>9, ConcatEmptySeq
<1> HIDE DEF S, s, t, v, p
<1>4. u \in Seq(S) /\ Len(u) = 2 /\ u[1] = a /\ u[2] = b
  <2>1. /\ u \in Seq(S) /\ Len(u) = 2
        /\ \A i \in 1..2 : u[i] = IF i <= 1 THEN s[i] ELSE t[i - 1]
    BY <1>1, ConcatProperties
  <2>2. u[1] = s[1]
    BY <2>1
  <2>3. u[2] = t[1]
    BY <2>1
  <2> QED
    BY <1>1, <2>1, <2>2, <2>3
<1>5. q \in Seq(S) /\ Len(q) = 3 /\ q[1] = a /\ q[2] = b /\ q[3] = c
  <2>1. /\ q \in Seq(S) /\ Len(q) = 3
        /\ \A i \in 1..3 : q[i] = IF i <= 2 THEN p[i] ELSE v[i - 2]
    <3>1. q \in Seq(S) /\ Len(q) = Len(p) + Len(v)
          /\ \A i \in 1..Len(p) + Len(v) : q[i] = IF i <= Len(p) THEN p[i] ELSE v[i - Len(p)]
      BY <1>2, ConcatProperties
    <3> HIDE DEF q
    <3> QED
      BY <1>2, <3>1
  <2>2. q[1] = p[1] /\ q[2] = p[2]
    BY <2>1
  <2>3. q[3] = v[1]
    BY <2>1
  <2> QED
    BY <1>2, <2>1, <2>2, <2>3
<1> HIDE DEF u, q
<1>6. u = <<u[1], u[2]>>
  BY <1>4
<1>7. q = <<q[1], q[2], q[3]>>
  BY <1>5
<1>8. u = <<a, b>> /\ q = <<a, b, c>>
  BY <1>4, <1>5, <1>6, <1>7
<1> QED
  BY <1>3, <1>8 DEF s, t, v, p, u, q

\* The calls of a run: a run that gives facts saves them last.
LEMMA CallsFacts ==
    ASSUME NEW r
    PROVE  /\ Calls(r) \in Todo
           /\ Calls(r) \in {<<"update", "save">>, <<"entry", "update", "save">>} =>
                r.update # NoText
<1>1. CASE r.update # NoText /\ r.entry # NoText
  <2>1. Calls(r) = ((<< >> \o <<"entry">>) \o <<"update">>) \o <<"save">>
    BY <1>1 DEF Calls
  <2>2. Calls(r) = <<"entry", "update", "save">>
    <3>1. << >> \o <<"entry">> = <<"entry">>
      BY Joined
    <3>2. <<"entry">> \o <<"update">> = <<"entry", "update">>
      BY Joined
    <3>3. <<"entry", "update">> \o <<"save">> = <<"entry", "update", "save">>
      BY Joined
    <3> QED
      BY <2>1, <3>1, <3>2, <3>3
  <2> QED
    BY <1>1, <2>2 DEF Todo
<1>2. CASE r.update # NoText /\ r.entry = NoText
  <2>1. Calls(r) = ((<< >> \o << >>) \o <<"update">>) \o <<"save">>
    BY <1>2 DEF Calls
  <2>2. Calls(r) = <<"update", "save">>
    <3>1. << >> \o << >> = << >>
      BY Joined
    <3>2. << >> \o <<"update">> = <<"update">>
      BY Joined
    <3>3. <<"update">> \o <<"save">> = <<"update", "save">>
      BY Joined
    <3> QED
      BY <2>1, <3>1, <3>2, <3>3
  <2> QED
    BY <1>2, <2>2 DEF Todo
<1>3. CASE r.update = NoText /\ r.content # NoText /\ r.entry # NoText
  <2>1. Calls(r) = ((<<"fact">> \o <<"entry">>) \o << >>) \o <<"save">>
    BY <1>3 DEF Calls
  <2>2. Calls(r) = <<"fact", "entry", "save">>
    <3>1. <<"fact">> \o <<"entry">> = <<"fact", "entry">>
      BY Joined
    <3>2. <<"fact", "entry">> \o << >> = <<"fact", "entry">>
      BY Joined
    <3>3. <<"fact", "entry">> \o <<"save">> = <<"fact", "entry", "save">>
      BY Joined
    <3> QED
      BY <2>1, <3>1, <3>2, <3>3
  <2>3. <<"fact", "entry", "save">> \notin {<<"update", "save">>, <<"entry", "update", "save">>}
    OBVIOUS
  <2> QED
    BY <2>2, <2>3 DEF Todo
<1>4. CASE r.update = NoText /\ r.content # NoText /\ r.entry = NoText
  <2>1. Calls(r) = ((<<"fact">> \o << >>) \o << >>) \o <<"save">>
    BY <1>4 DEF Calls
  <2>2. Calls(r) = <<"fact", "save">>
    <3>1. <<"fact">> \o << >> = <<"fact">>
      BY Joined
    <3>2. <<"fact">> \o <<"save">> = <<"fact", "save">>
      BY Joined
    <3> QED
      BY <2>1, <3>1, <3>2
  <2>3. <<"fact", "save">> \notin {<<"update", "save">>, <<"entry", "update", "save">>}
    OBVIOUS
  <2> QED
    BY <2>2, <2>3 DEF Todo
<1>5. CASE r.update = NoText /\ r.content = NoText /\ r.entry # NoText
  <2>1. Calls(r) = ((<< >> \o <<"entry">>) \o << >>) \o << >>
    BY <1>5 DEF Calls
  <2>2. Calls(r) = <<"entry">>
    BY <2>1, Joined
  <2>3. <<"entry">> \notin {<<"update", "save">>, <<"entry", "update", "save">>}
    OBVIOUS
  <2> QED
    BY <2>2, <2>3 DEF Todo
<1>6. CASE r.update = NoText /\ r.content = NoText /\ r.entry = NoText
  <2>1. Calls(r) = ((<< >> \o << >>) \o << >>) \o << >>
    BY <1>6 DEF Calls
  <2>2. Calls(r) = << >>
    BY <2>1, Joined
  <2>3. << >> \notin {<<"update", "save">>, <<"entry", "update", "save">>}
    OBVIOUS
  <2> QED
    BY <2>2, <2>3 DEF Todo, Rest
<1> QED
  BY <1>1, <1>2, <1>3, <1>4, <1>5, <1>6

-----------------------------------------------------------------------------
(* Every step keeps the invariant.                                         *)

\* Steps that change neither text nor files, and no run of the tool.
OnlyLooks == UNCHANGED <<files, buffer, tools, facts, entries, excused>>

\* What such a step keeps.
LEMMA LookKeeps ==
    ASSUME MemoryInv, OnlyLooks
    PROVE  /\ LogInv' /\ FactsKept'
           /\ (Aware' => Aware) => FactInv'
           /\ (prompt.made => prompt'.made) => RunInv'
<1>0. RunInv /\ FactInv /\ LogInv
  BY DEF MemoryInv
<1>1. /\ files' = files /\ buffer' = buffer /\ tools' = tools /\ facts' = facts
      /\ entries' = entries /\ excused' = excused
  BY DEF OnlyLooks
<1>2. LogInv'
  BY <1>0, <1>1 DEF LogInv, InLog, Excused
<1>3. FactsKept'
  BY <1>0, <1>1 DEF FactInv, FactsKept, Excused
<1>4. (Aware' => Aware) => FactInv'
  BY <1>0, <1>1, <1>3 DEF FactInv, Excused
<1>5. (prompt.made => prompt'.made) => RunInv'
  BY <1>0, <1>1 DEF RunInv
<1> QED
  BY <1>2, <1>3, <1>4, <1>5

\* The steps of the builder that only look.
LEMMA StatInv == MemoryInv /\ BuildStat => MemoryInv'
<1> SUFFICES ASSUME MemoryInv, BuildStat PROVE MemoryInv'
  OBVIOUS
<1>0. MemoryTypes /\ RunInv /\ PromptInv /\ FreshInv /\ FactInv
  BY DEF MemoryInv
<1>1. OnlyLooks /\ prompt' = prompt /\ clock' = clock
  BY DEF BuildStat, OnlyLooks
<1>2. /\ agentAt' = [pc |-> agentAt'.pc, stamp |-> files.stamp, version |-> agentAt.version]
      /\ agentAt'.pc = IF FileChanged(files.stamp) THEN "load" ELSE "version"
  BY <1>0 DEF BuildStat, MemoryTypes, TextTypes, AgentTypes, ToolTypes
<1>3. MemoryTypes'
  BY <1>0, <1>1, <1>2 DEF MemoryTypes, TextTypes, AgentTypes, ToolTypes, OnlyLooks
<1>4. RunInv' /\ LogInv' /\ FactsKept'
  BY <1>1, LookKeeps
<1>5. PromptInv'
  BY <1>0, <1>1, <1>2 DEF PromptInv, PromptCurrent, OnlyLooks
<1>6. FreshInv'
  BY <1>0, <1>1, <1>2 DEF FreshInv, OnlyLooks
<1>7. FactInv'
  <2>1. CASE Aware' => Aware
    BY <1>1, <2>1, LookKeeps
  <2>2. CASE Aware' /\ ~Aware
    <3>1. ~buffer.read /\ ~prompt.made /\ agentAt'.pc = "version"
      BY <1>1, <1>2, <2>2 DEF Aware, OnlyLooks
    <3>2. ~(files.stamp > 0)
      BY <1>0, <1>2, <3>1 DEF FreshInv, FileChanged
    <3>3. files.stamp \in Nat
      BY <1>0 DEF MemoryTypes, TextTypes, AgentTypes, ToolTypes
    <3>4. files.facts = {}
      BY <1>0, <3>2, <3>3 DEF FreshInv
    <3>5. \A f \in facts : Excused(f)
      BY <1>0, <3>4, MoreFacts DEF FactInv, FactsKept
    <3> QED
      BY <1>0, <1>1, <1>4, <3>5 DEF FactInv, OnlyLooks, Excused
  <2> QED
    BY <2>1, <2>2
<1> QED
  BY <1>3, <1>4, <1>5, <1>6, <1>7 DEF MemoryInv

\* The version is read before the copy is made.
LEMMA VersionInv == MemoryInv /\ GetVersion => MemoryInv'
<1> SUFFICES ASSUME MemoryInv, GetVersion PROVE MemoryInv'
  OBVIOUS
<1>0. MemoryTypes /\ PromptInv /\ FreshInv
  BY DEF MemoryInv
<1>1. OnlyLooks /\ prompt' = prompt /\ clock' = clock
  BY DEF GetVersion, OnlyLooks
<1>2. /\ agentAt' = [pc |-> "copy", stamp |-> agentAt.stamp, version |-> buffer.version]
      /\ agentAt.pc = "version"
  BY <1>0 DEF GetVersion, MemoryTypes, TextTypes, AgentTypes, ToolTypes
<1>3. MemoryTypes'
  BY <1>0, <1>1, <1>2 DEF MemoryTypes, TextTypes, AgentTypes, ToolTypes, OnlyLooks
<1>4. Aware' => Aware
  BY <1>2 DEF Aware
<1>5. RunInv' /\ LogInv' /\ FactInv'
  BY <1>1, <1>4, LookKeeps
<1>6. PromptInv'
  <2>1. buffer.version \in Nat
    BY <1>0 DEF MemoryTypes, TextTypes, AgentTypes, ToolTypes
  <2> QED
    BY <1>0, <1>1, <1>2, <2>1 DEF PromptInv, PromptCurrent, OnlyLooks
<1>7. FreshInv'
  BY <1>0, <1>1, <1>2 DEF FreshInv, OnlyLooks
<1> QED
  BY <1>3, <1>5, <1>6, <1>7 DEF MemoryInv

\* The copy: if it counts as current it has been made of the facts of this version.
LEMMA CopyInv == MemoryInv /\ BuildCopy => MemoryInv'
<1> SUFFICES ASSUME MemoryInv, BuildCopy PROVE MemoryInv'
  OBVIOUS
<1>0. MemoryTypes /\ PromptInv /\ FreshInv
  BY DEF MemoryInv
<1>1. OnlyLooks /\ clock' = clock /\ agentAt' = AtRest /\ prompt' = Copied /\ agentAt.pc = "copy"
  BY DEF BuildCopy, OnlyLooks
<1>2. agentAt' = [pc |-> "idle", stamp |-> 0, version |-> 0]
  BY <1>1 DEF AtRest
<1>3. \/ /\ prompt' = prompt /\ prompt.made
      \/ /\ prompt'.made /\ prompt'.copy = buffer.facts /\ prompt'.version = agentAt.version
         /\ prompt'.stamp = agentAt.stamp
  BY <1>1 DEF Copied
<1>8. agentAt.stamp \in Nat
  BY <1>0 DEF MemoryTypes, TextTypes, AgentTypes, ToolTypes
<1>4. MemoryTypes'
  BY <1>0, <1>1, <1>2, <1>3, <1>8 DEF MemoryTypes, TextTypes, AgentTypes, ToolTypes, OnlyLooks
<1>5. Aware /\ prompt'.made
  BY <1>1, <1>3 DEF Aware
<1>6. RunInv' /\ LogInv' /\ FactInv'
  BY <1>1, <1>5, LookKeeps
<1>7. PromptInv'
  BY <1>0, <1>1, <1>2, <1>3 DEF PromptInv, PromptCurrent, OnlyLooks
<1>9. FreshInv'
  BY <1>0, <1>1, <1>5 DEF FreshInv, OnlyLooks
<1> QED
  BY <1>4, <1>6, <1>7, <1>9 DEF MemoryInv

\* The clock.
LEMMA ClockInv == MemoryInv /\ SecondPasses => MemoryInv'
<1> SUFFICES ASSUME MemoryInv, SecondPasses PROVE MemoryInv'
  OBVIOUS
<1>0. MemoryTypes /\ PromptInv /\ FreshInv
  BY DEF MemoryInv
<1>1. OnlyLooks /\ prompt' = prompt /\ agentAt' = agentAt /\ clock' = clock + 1
  BY DEF SecondPasses, OnlyLooks
<1>2. clock' \in Nat \ {0}
  <2>1. clock \in Nat
    BY <1>0 DEF MemoryTypes, TextTypes, AgentTypes, ToolTypes
  <2> QED
    BY <1>1, <2>1
<1>3. MemoryTypes'
  BY <1>0, <1>1, <1>2 DEF MemoryTypes, TextTypes, AgentTypes, ToolTypes, OnlyLooks
<1>4. Aware' => Aware
  BY <1>1 DEF Aware, OnlyLooks
<1>5. RunInv' /\ LogInv' /\ FactInv'
  BY <1>1, <1>4, LookKeeps
<1>6. PromptInv' /\ FreshInv'
  BY <1>0, <1>1 DEF PromptInv, PromptCurrent, FreshInv, OnlyLooks
<1> QED
  BY <1>3, <1>5, <1>6 DEF MemoryInv

\* A run begins.
LEMMA CallInv == ASSUME NEW w \in Workers, NEW r \in Requests
                 PROVE  MemoryInv /\ CallMemory(w, r) => MemoryInv'
<1> SUFFICES ASSUME MemoryInv, CallMemory(w, r) PROVE MemoryInv'
  OBVIOUS
<1>0. MemoryTypes /\ RunInv /\ PromptInv /\ FreshInv /\ FactInv /\ LogInv
  BY DEF MemoryInv
<1>1. /\ files' = files /\ buffer' = buffer /\ prompt' = prompt /\ agentAt' = agentAt
      /\ clock' = clock /\ facts' = facts /\ entries' = entries /\ excused' = excused
      /\ prompt.made
  BY DEF CallMemory
<1> DEFINE run == [todo |-> Calls(r), req |-> r, given |-> {}, logged |-> {}, busy |-> TRUE]
<1>2. /\ tools' = [v \in Workers |-> tools'[v]]
      /\ tools'[w] = run
      /\ \A v \in Workers : v # w => tools'[v] = tools[v]
  <2>1. tools = [v \in Workers |-> tools[v]]
    BY <1>0 DEF MemoryTypes, TextTypes, AgentTypes, ToolTypes
  <2>2. [NoRun EXCEPT !.todo = Calls(r), !.req = r, !.busy = TRUE] = run
    <3>1. NoRun = [todo |-> << >>, req |-> NoText, given |-> {}, logged |-> {}, busy |-> FALSE]
      BY DEF NoRun
    <3> DEFINE t == [NoRun EXCEPT !.todo = Calls(r), !.req = r, !.busy = TRUE]
    <3>2. t.todo = Calls(r) /\ t.req = r /\ t.given = {} /\ t.logged = {} /\ t.busy = TRUE
      BY <3>1
    <3>3. t = [k \in {"todo", "req", "given", "logged", "busy"} |-> t[k]]
      BY <3>1
    <3> HIDE DEF t
    <3>4. t = [todo |-> t.todo, req |-> t.req, given |-> t.given, logged |-> t.logged,
               busy |-> t.busy]
      BY <3>3
    <3> QED
      BY <3>2, <3>4 DEF t
  <2>3. tools' = [tools EXCEPT ![w] = run]
    BY <2>2 DEF CallMemory
  <2> HIDE DEF run
  <2> QED
    BY <2>1, <2>3
<1>3. /\ Calls(r) \in Todo
      /\ Calls(r) \in {<<"update", "save">>, <<"entry", "update", "save">>} => r.update # NoText
  BY CallsFacts
<1>4. MemoryTypes'
  BY <1>0, <1>1, <1>2 DEF MemoryTypes, TextTypes, AgentTypes, ToolTypes
<1>5. RunInv'
  BY <1>0, <1>1, <1>2, <1>3 DEF RunInv
<1>6. PromptInv' /\ FreshInv'
  BY <1>0, <1>1 DEF PromptInv, PromptCurrent, FreshInv
<1>7. FactInv'
  BY <1>0, <1>1, <1>2 DEF FactInv, FactsKept, Excused, Aware
<1>8. LogInv'
  <2>1. \A v \in Workers : tools'[v].logged \subseteq tools[v].logged
    BY <1>2
  <2>2. \A x : InLog(x) \/ Excused(x) => InLog(x)' \/ Excused(x)'
    BY <1>1 DEF InLog, Excused
  <2> QED
    BY <1>0, <1>1, <2>1, <2>2 DEF LogInv
<1> QED
  BY <1>4, <1>5, <1>6, <1>7, <1>8 DEF MemoryInv

\* A run with one field changed.
LEMMA RunFields ==
    ASSUME NEW a, NEW b, NEW c, NEW d, NEW e, NEW x, NEW t,
           t = [todo |-> a, req |-> b, given |-> c, logged |-> d, busy |-> e]
    PROVE  /\ [t EXCEPT !.todo = x] =
                [todo |-> x, req |-> b, given |-> c, logged |-> d, busy |-> e]
           /\ [t EXCEPT !.given = x] =
                [todo |-> a, req |-> b, given |-> x, logged |-> d, busy |-> e]
           /\ [t EXCEPT !.logged = x] =
                [todo |-> a, req |-> b, given |-> c, logged |-> x, busy |-> e]
<1>1. [t EXCEPT !.todo = x] = [todo |-> x, req |-> b, given |-> c, logged |-> d, busy |-> e]
  OBVIOUS
<1>2. [t EXCEPT !.given = x] = [todo |-> a, req |-> b, given |-> x, logged |-> d, busy |-> e]
  OBVIOUS
<1>3. [t EXCEPT !.logged = x] = [todo |-> a, req |-> b, given |-> c, logged |-> x, busy |-> e]
  OBVIOUS
<1> QED
  BY <1>1, <1>2, <1>3

\* The run of w goes on with its next call and has given F and logged E so far.
GoesOn(w, F, E) ==
    /\ tools' = [v \in Workers |-> tools'[v]]
    /\ tools'[w] = [todo |-> Tail(tools[w].todo), req |-> tools[w].req, given |-> F,
                    logged |-> E, busy |-> tools[w].busy]

\* What that is, written with EXCEPT.
LEMMA GoesOnIs ==
    ASSUME MemoryTypes, NEW w \in Workers
    PROVE  /\ \A F : tools' = [tools EXCEPT ![w] = [Done(w) EXCEPT !.given = F]]
                       => /\ GoesOn(w, F, tools[w].logged)
                          /\ \A v \in Workers : v # w => tools'[v] = tools[v]
           /\ \A E : tools' = [tools EXCEPT ![w] = [Done(w) EXCEPT !.logged = E]]
                       => /\ GoesOn(w, tools[w].given, E)
                          /\ \A v \in Workers : v # w => tools'[v] = tools[v]
           /\ tools' = [tools EXCEPT ![w] = Done(w)]
                       => /\ GoesOn(w, tools[w].given, tools[w].logged)
                          /\ \A v \in Workers : v # w => tools'[v] = tools[v]
           /\ tools' = [tools EXCEPT ![w] = NoRun]
                       => /\ tools' = [v \in Workers |-> tools'[v]]
                          /\ tools'[w] = NoRun
                          /\ \A v \in Workers : v # w => tools'[v] = tools[v]
           /\ \A F : [Done(w) EXCEPT !.given = F] =
                [todo |-> Tail(tools[w].todo), req |-> tools[w].req, given |-> F,
                 logged |-> tools[w].logged, busy |-> tools[w].busy]
<1> DEFINE t == tools[w]
           D == Done(w)
<1>1. t = [todo |-> t.todo, req |-> t.req, given |-> t.given, logged |-> t.logged,
           busy |-> t.busy]
  BY DEF MemoryTypes, TextTypes, AgentTypes, ToolTypes
<1>2. tools = [v \in Workers |-> tools[v]]
  BY DEF MemoryTypes, TextTypes, AgentTypes, ToolTypes
<1>13. D = [t EXCEPT !.todo = Tail(t.todo)]
  BY DEF Done
<1> HIDE DEF t, D
<1>3. D = [todo |-> Tail(t.todo), req |-> t.req, given |-> t.given, logged |-> t.logged,
           busy |-> t.busy]
  BY <1>1, <1>13, RunFields
<1>4. \A F : [D EXCEPT !.given = F] =
        [todo |-> Tail(t.todo), req |-> t.req, given |-> F, logged |-> t.logged,
         busy |-> t.busy]
  <2> TAKE F
  <2> DEFINE a == Tail(t.todo)
             b == t.req
             c == t.given
             d == t.logged
             e == t.busy
  <2>1. D = [todo |-> a, req |-> b, given |-> c, logged |-> d, busy |-> e]
    BY <1>3
  <2> HIDE DEF a, b, c, d, e
  <2>2. [D EXCEPT !.given = F] = [todo |-> a, req |-> b, given |-> F, logged |-> d, busy |-> e]
    BY <2>1, RunFields
  <2> QED
    BY <2>2 DEF a, b, c, d, e
<1>5. \A E : [D EXCEPT !.logged = E] =
        [todo |-> Tail(t.todo), req |-> t.req, given |-> t.given, logged |-> E,
         busy |-> t.busy]
  <2> TAKE E
  <2> DEFINE a == Tail(t.todo)
             b == t.req
             c == t.given
             d == t.logged
             e == t.busy
  <2>1. D = [todo |-> a, req |-> b, given |-> c, logged |-> d, busy |-> e]
    BY <1>3
  <2> HIDE DEF a, b, c, d, e
  <2>2. [D EXCEPT !.logged = E] = [todo |-> a, req |-> b, given |-> c, logged |-> E, busy |-> e]
    BY <2>1, RunFields
  <2> QED
    BY <2>2 DEF a, b, c, d, e
<1>6. ASSUME NEW x, tools' = [tools EXCEPT ![w] = x]
      PROVE  /\ tools' = [v \in Workers |-> tools'[v]] /\ tools'[w] = x
             /\ \A v \in Workers : v # w => tools'[v] = tools[v]
  BY <1>2, <1>6
<1>7. \A F : [Done(w) EXCEPT !.given = F] = [D EXCEPT !.given = F]
  BY DEF D
<1>8. \A E : [Done(w) EXCEPT !.logged = E] = [D EXCEPT !.logged = E]
  BY DEF D
<1>9. ASSUME NEW F, tools' = [tools EXCEPT ![w] = [Done(w) EXCEPT !.given = F]]
      PROVE  /\ GoesOn(w, F, tools[w].logged)
             /\ \A v \in Workers : v # w => tools'[v] = tools[v]
  BY <1>4, <1>6, <1>7, <1>9 DEF GoesOn, t
<1>10. ASSUME NEW E, tools' = [tools EXCEPT ![w] = [Done(w) EXCEPT !.logged = E]]
      PROVE  /\ GoesOn(w, tools[w].given, E)
             /\ \A v \in Workers : v # w => tools'[v] = tools[v]
  BY <1>5, <1>6, <1>8, <1>10 DEF GoesOn, t
<1>11. ASSUME tools' = [tools EXCEPT ![w] = Done(w)]
      PROVE  /\ GoesOn(w, tools[w].given, tools[w].logged)
             /\ \A v \in Workers : v # w => tools'[v] = tools[v]
  BY <1>3, <1>6, <1>11 DEF GoesOn, D, t
<1>12. \A F : [Done(w) EXCEPT !.given = F] =
                [todo |-> Tail(tools[w].todo), req |-> tools[w].req, given |-> F,
                 logged |-> tools[w].logged, busy |-> tools[w].busy]
  BY <1>4, <1>7 DEF t
<1> QED
  BY <1>6, <1>9, <1>10, <1>11, <1>12

\* The records keep their fields.
LEMMA GoesOnTypes ==
    ASSUME ToolTypes, NEW w \in Workers,
           \A v \in Workers : v # w => tools'[v] = tools[v]
    PROVE  /\ \A F, E : GoesOn(w, F, E) => ToolTypes'
           /\ tools' = [v \in Workers |-> tools'[v]] /\ tools'[w] = NoRun => ToolTypes'
<1>1. ASSUME NEW F, NEW E, GoesOn(w, F, E) PROVE ToolTypes'
  <2>1. tools'[w] = [todo |-> tools'[w].todo, req |-> tools'[w].req, given |-> tools'[w].given,
                     logged |-> tools'[w].logged, busy |-> tools'[w].busy]
    BY <1>1 DEF GoesOn
  <2> QED
    BY <1>1, <2>1 DEF GoesOn, ToolTypes
<1>2. ASSUME tools' = [v \in Workers |-> tools'[v]], tools'[w] = NoRun PROVE ToolTypes'
  <2>1. tools'[w] = [todo |-> tools'[w].todo, req |-> tools'[w].req, given |-> tools'[w].given,
                     logged |-> tools'[w].logged, busy |-> tools'[w].busy]
    BY <1>2 DEF NoRun
  <2> QED
    BY <1>2, <2>1 DEF ToolTypes
<1> QED
  BY <1>1, <1>2

\* Text and files with some fields changed.
LEMMA TextFields ==
    ASSUME MemoryTypes
    PROVE  /\ \A F : [buffer EXCEPT !.facts = F, !.version = @ + 1] =
                [facts |-> F, history |-> buffer.history, version |-> buffer.version + 1,
                 read |-> buffer.read]
           /\ \A e : [buffer EXCEPT !.history = AppendHistory(@, e), !.version = @ + 1] =
                [facts |-> buffer.facts, history |-> AppendHistory(buffer.history, e),
                 version |-> buffer.version + 1, read |-> buffer.read]
           /\ \A e : [files EXCEPT !.history = Append(@, e)] =
                [facts |-> files.facts, stamp |-> files.stamp,
                 history |-> Append(files.history, e)]
           /\ \A F : [files EXCEPT !.facts = F, !.stamp = clock] =
                [facts |-> F, stamp |-> clock, history |-> files.history]
           /\ ConsolidatedText(buffer) =
                [facts |-> Promoted(buffer.facts, OldPart(buffer.history)),
                 history |-> NewHistory(buffer.history), version |-> buffer.version + 1,
                 read |-> buffer.read]
<1>1. buffer = [facts |-> buffer.facts, history |-> buffer.history,
                version |-> buffer.version, read |-> buffer.read]
  BY DEF MemoryTypes, TextTypes, AgentTypes, ToolTypes
<1>2. files = [facts |-> files.facts, stamp |-> files.stamp, history |-> files.history]
  BY DEF MemoryTypes, TextTypes, AgentTypes, ToolTypes
<1> DEFINE D == {"facts", "history", "version", "read"}
           E == {"facts", "stamp", "history"}
<1>3. \A t : t = [k \in D |-> t[k]] =>
        t = [facts |-> t.facts, history |-> t.history, version |-> t.version, read |-> t.read]
  OBVIOUS
<1>4. \A t : t = [k \in E |-> t[k]] =>
        t = [facts |-> t.facts, stamp |-> t.stamp, history |-> t.history]
  OBVIOUS
<1>5. ASSUME NEW F
      PROVE  [buffer EXCEPT !.facts = F, !.version = @ + 1] =
                [facts |-> F, history |-> buffer.history, version |-> buffer.version + 1,
                 read |-> buffer.read]
  <2> DEFINE t == [buffer EXCEPT !.facts = F, !.version = @ + 1]
  <2>1. /\ t.facts = F /\ t.history = buffer.history /\ t.version = buffer.version + 1
        /\ t.read = buffer.read
    BY <1>1
  <2>2. t = [k \in D |-> t[k]]
    BY <1>1
  <2> HIDE DEF t
  <2> QED
    BY <1>3, <2>1, <2>2 DEF t
<1>6. ASSUME NEW e
      PROVE  [buffer EXCEPT !.history = AppendHistory(@, e), !.version = @ + 1] =
                [facts |-> buffer.facts, history |-> AppendHistory(buffer.history, e),
                 version |-> buffer.version + 1, read |-> buffer.read]
  <2> DEFINE t == [buffer EXCEPT !.history = AppendHistory(@, e), !.version = @ + 1]
  <2>1. /\ t.facts = buffer.facts /\ t.history = AppendHistory(buffer.history, e)
        /\ t.version = buffer.version + 1 /\ t.read = buffer.read
    BY <1>1
  <2>2. t = [k \in D |-> t[k]]
    BY <1>1
  <2> HIDE DEF t
  <2> QED
    BY <1>3, <2>1, <2>2 DEF t
<1>7. ASSUME NEW e
      PROVE  [files EXCEPT !.history = Append(@, e)] =
                [facts |-> files.facts, stamp |-> files.stamp,
                 history |-> Append(files.history, e)]
  <2> DEFINE t == [files EXCEPT !.history = Append(@, e)]
  <2>1. t.facts = files.facts /\ t.stamp = files.stamp /\ t.history = Append(files.history, e)
    BY <1>2
  <2>2. t = [k \in E |-> t[k]]
    BY <1>2
  <2> HIDE DEF t
  <2> QED
    BY <1>4, <2>1, <2>2 DEF t
<1>8. ASSUME NEW F
      PROVE  [files EXCEPT !.facts = F, !.stamp = clock] =
                [facts |-> F, stamp |-> clock, history |-> files.history]
  <2> DEFINE t == [files EXCEPT !.facts = F, !.stamp = clock]
  <2>1. t.facts = F /\ t.stamp = clock /\ t.history = files.history
    BY <1>2
  <2>2. t = [k \in E |-> t[k]]
    BY <1>2
  <2> HIDE DEF t
  <2> QED
    BY <1>4, <2>1, <2>2 DEF t
<1>10. ConsolidatedText(buffer) =
         [facts |-> Promoted(buffer.facts, OldPart(buffer.history)),
          history |-> NewHistory(buffer.history), version |-> buffer.version + 1,
          read |-> buffer.read]
  <2> DEFINE t == [buffer EXCEPT !.facts = Promoted(buffer.facts, OldPart(buffer.history)),
                                 !.history = NewHistory(buffer.history), !.version = @ + 1]
  <2>1. /\ t.facts = Promoted(buffer.facts, OldPart(buffer.history))
        /\ t.history = NewHistory(buffer.history)
        /\ t.version = buffer.version + 1 /\ t.read = buffer.read
    BY <1>1
  <2>2. t = [k \in D |-> t[k]]
    BY <1>1
  <2>3. ConsolidatedText(buffer) = t
    BY DEF ConsolidatedText
  <2> HIDE DEF t
  <2> QED
    BY <1>3, <2>1, <2>2, <2>3
<1> QED
  BY <1>5, <1>6, <1>7, <1>8, <1>10

\* Excuses are not taken back.
LEMMA ExcusesStay ==
    ASSUME excused \subseteq excused'
    PROVE  \A x : Excused(x) => Excused(x)'
BY DEF Excused

\* What a text lacks of some facts and entries is excused.
LEMMA MissingExcused ==
    ASSUME NEW F, NEW E, NEW text, NEW why \in Reasons,
           excused' = excused \cup (Missing(F, E, text) \X {why})
    PROVE  /\ \A x : Excused(x) => Excused(x)'
           /\ \A x \in F : FactExists(x, text.facts) \/ Excused(x)'
           /\ \A x \in E : x \in ToSet(text.history) \/ Excused(x)'
<1>1. \A x : Excused(x) => Excused(x)'
  BY DEF Excused
<1>2. \A x \in Missing(F, E, text) : Excused(x)'
  BY DEF Excused
<1>3. ASSUME NEW x \in F PROVE FactExists(x, text.facts) \/ Excused(x)'
  <2>1. CASE x \in Known(text.facts)
    BY <2>1, MoreFacts
  <2>2. CASE x \notin Known(text.facts)
    BY <1>2, <2>2 DEF Missing
  <2> QED
    BY <2>1, <2>2
<1>4. ASSUME NEW x \in E PROVE x \in ToSet(text.history) \/ Excused(x)'
  BY <1>2 DEF Missing
<1> QED
  BY <1>1, <1>3, <1>4

\* The beginning of a log is one.
LEMMA BeginningIs ==
    ASSUME NEW h \in Seq(Line), NEW g \in Beginnings(h)
    PROVE  g \in Seq(Line)
<1>1. PICK n \in 0..Len(h) : g = SubSeq(h, 1, n)
  BY DEF Beginnings
<1>2. n \in Int /\ 1 \in Int /\ \A i \in 1..n : h[i] \in Line
  OBVIOUS
<1> QED
  BY <1>1, <1>2, SubSeqProperties

\* The files after a write that may have failed.
LEMMA PartWritten ==
    ASSUME TextTypes, NEW b, b.history \in Seq(Line),
           NEW t, t \in {files} \cup HalfWritten(b) \cup Written(b)
    PROVE  /\ t = [facts |-> t.facts, stamp |-> t.stamp, history |-> t.history]
           /\ t.history \in Seq(Line) /\ t.stamp \in Nat
           /\ t = files \/ t.stamp = clock
<1>0. files.history \in Seq(Line) /\ clock \in Nat
  BY DEF TextTypes
<1>1. CASE t = files
  BY <1>1 DEF TextTypes
<1>2. CASE t \in HalfWritten(b)
  <2>1. PICK F : t = [facts |-> F, stamp |-> clock, history |-> files.history]
    BY <1>2 DEF HalfWritten
  <2> QED
    BY <1>0, <2>1
<1>3. CASE t \in Written(b)
  <2>1. PICK F, h : /\ h \in Beginnings(b.history)
                    /\ t = [facts |-> F, stamp |-> clock, history |-> h]
    BY <1>3 DEF Written
  <2>2. h \in Seq(Line)
    BY <2>1, BeginningIs
  <2> QED
    BY <1>0, <2>1, <2>2
<1> QED
  BY <1>1, <1>2, <1>3

\* memory_add_fact.
LEMMA AddFactInv == ASSUME NEW w \in Workers
                    PROVE  MemoryInv /\ MemoryAddFact(w) => MemoryInv'
<1> SUFFICES ASSUME MemoryInv, MemoryAddFact(w) PROVE MemoryInv'
  OBVIOUS
<1>0. MemoryTypes /\ RunInv /\ PromptInv /\ FreshInv /\ FactInv /\ LogInv
  BY DEF MemoryInv
<1>17. PICK f : f = tools[w].req.content
  OBVIOUS
<1> DEFINE F == AddFact(buffer.facts, f)
           t == tools[w].todo
<1>1. /\ files' = files /\ prompt' = prompt /\ agentAt' = agentAt /\ clock' = clock
      /\ facts' = facts /\ entries' = entries
      /\ excused' = excused \cup (IF FactExists(f, F) THEN {} ELSE {<<f, "cap">>})
      /\ tools[w].busy /\ t # << >> /\ Head(t) = "fact"
  BY <1>17 DEF MemoryAddFact, At
<1>2. buffer' = [facts |-> F, history |-> buffer.history, version |-> buffer.version + 1,
                 read |-> buffer.read]
  BY <1>0, <1>17, TextFields DEF MemoryAddFact
<1>3. /\ GoesOn(w, {f}, tools[w].logged)
      /\ \A v \in Workers : v # w => tools'[v] = tools[v]
  BY <1>0, <1>17, GoesOnIs DEF MemoryAddFact
<1>4. buffer.facts \subseteq F
  BY MoreFacts
<1>5. FactExists(f, F) \/ Excused(f)'
  BY <1>1 DEF Excused, Reasons
<1>6. t \in Todo /\ Tail(t) \in {<<"save">>, <<"entry", "save">>} /\ tools[w].req \in Requests
  BY <1>0, <1>1, TodoFacts DEF RunInv
<1> HIDE DEF F, t
<1>7. Tail(t) \in Rest /\ Tail(t) \in Todo /\ Tail(t) # << >>
      /\ Tail(t) \notin {<<"update", "save">>, <<"entry", "update", "save">>}
  <2>1. /\ <<"save">> \in Rest /\ <<"entry", "save">> \in Rest
        /\ <<"save">> \in Todo /\ <<"entry", "save">> \in Todo
    BY DEF Rest, Todo
  <2>2. <<"save">> # << >> /\ <<"entry", "save">> # << >>
    OBVIOUS
  <2>3. <<"save">> \notin {<<"update", "save">>, <<"entry", "update", "save">>}
    OBVIOUS
  <2>4. <<"entry", "save">> \notin {<<"update", "save">>, <<"entry", "update", "save">>}
    OBVIOUS
  <2> QED
    BY <1>6, <2>1, <2>2, <2>3, <2>4
<1>8. /\ tools'[w].todo = Tail(t) /\ tools'[w].req = tools[w].req /\ tools'[w].given = {f}
      /\ tools'[w].logged = tools[w].logged /\ tools'[w].busy = tools[w].busy
  BY <1>3 DEF GoesOn, t
<1>9. buffer.version \in Nat
  BY <1>0 DEF MemoryTypes, TextTypes, AgentTypes, ToolTypes
<1>10. MemoryTypes'
  <2>1. ToolTypes'
    BY <1>0, <1>3, GoesOnTypes DEF MemoryTypes
  <2>2. TextTypes'
    BY <1>0, <1>1, <1>2, <1>9 DEF MemoryTypes, TextTypes
  <2>3. AgentTypes'
    BY <1>0, <1>1 DEF MemoryTypes, AgentTypes
  <2> QED
    BY <2>1, <2>2, <2>3 DEF MemoryTypes
<1>11. RunInv'
  BY <1>0, <1>1, <1>3, <1>6, <1>7, <1>8 DEF RunInv
<1>12. PromptInv'
  <2>1. prompt.version \in Nat /\ agentAt.version \in Nat
    BY <1>0 DEF MemoryTypes, TextTypes, AgentTypes, ToolTypes
  <2> QED
    BY <1>0, <1>1, <1>2, <1>9, <2>1 DEF PromptInv, PromptCurrent
<1>13. FreshInv'
  <2>1. prompt.made
    BY <1>0, <1>1 DEF RunInv
  <2> QED
    BY <1>0, <1>1, <1>2, <2>1 DEF FreshInv
<1>14. \A x : Excused(x) => Excused(x)'
  BY <1>1, ExcusesStay
<1>15. FactInv'
  <2>1. \A x : FactExists(x, buffer.facts) => FactExists(x, buffer'.facts)
    BY <1>2, <1>4, MoreFacts
  <2>2. prompt.made
    BY <1>0, <1>1 DEF RunInv
  <2>3. FactsKept' /\ (Aware' => \A x \in facts' : FactExists(x, buffer'.facts) \/ Excused(x)')
    BY <1>0, <1>1, <1>14, <2>1, <2>2 DEF FactInv, FactsKept, Aware
  <2>4. ASSUME NEW v \in Workers, NEW x \in tools'[v].given
        PROVE  /\ FactExists(x, buffer'.facts) \/ Excused(x)'
               /\ tools'[v].todo = << >> => FactExists(x, files'.facts) \/ Excused(x)'
    <3>1. CASE v = w
      BY <1>2, <1>5, <1>7, <1>8, <2>4, <3>1
    <3>2. CASE v # w
      BY <1>0, <1>1, <1>3, <1>14, <2>1, <2>4, <3>2 DEF FactInv
    <3> QED
      BY <3>1, <3>2
  <2> QED
    BY <2>3, <2>4 DEF FactInv
<1>16. LogInv'
  <2>1. \A e : InLog(e) => InLog(e)'
    BY <1>1, <1>2 DEF InLog
  <2> QED
    BY <1>0, <1>1, <1>3, <1>8, <1>14, <2>1 DEF LogInv
<1> QED
  BY <1>10, <1>11, <1>12, <1>13, <1>15, <1>16 DEF MemoryInv

\* memory_append_history: the file gets the entry, the text in memory if there is room.
LEMMA LoggedKeeps ==
    ASSUME MemoryInv, NEW e \in Line, Logged(e)
    PROVE  /\ files'.facts = files.facts /\ files'.stamp = files.stamp
           /\ buffer'.facts = buffer.facts /\ buffer'.version = buffer.version + 1
           /\ buffer'.read = buffer.read
           /\ buffer.history = << >> => Len(buffer'.history) <= 1
           /\ \A x : Excused(x) => Excused(x)'
           /\ \A x : InLog(x) => InLog(x)'
           /\ InLog(e)' \/ Excused(e)'
           /\ clock' = clock => TextTypes'
<1>0. MemoryTypes /\ TextTypes
  BY DEF MemoryInv, MemoryTypes
<1>1. /\ files' = [facts |-> files.facts, stamp |-> files.stamp,
                   history |-> Append(files.history, e)]
      /\ buffer' = [facts |-> buffer.facts, history |-> AppendHistory(buffer.history, e),
                    version |-> buffer.version + 1, read |-> buffer.read]
      /\ excused' = excused \cup (IF Len(buffer.history) >= HistoryCap THEN {<<e, "cap">>} ELSE {})
  BY <1>0, TextFields DEF Logged
<1>2. files.history \in Seq(Line) /\ buffer.history \in Seq(Line) /\ buffer.version \in Nat
      /\ Len(buffer.history) \in Nat /\ HistoryCap \in Nat
  BY <1>0, MemoryAssumption DEF TextTypes
<1>3. /\ files'.history \in Seq(Line) /\ ToSet(files'.history) = ToSet(files.history) \cup {e}
      /\ buffer'.history \in Seq(Line) /\ ToSet(buffer.history) \subseteq ToSet(buffer'.history)
      /\ Len(buffer.history) < HistoryCap => e \in ToSet(buffer'.history)
      /\ buffer.history = << >> => Len(buffer'.history) <= 1
  BY <1>1, <1>2, OneMoreLine
<1>4. \A x : Excused(x) => Excused(x)'
  BY <1>1, ExcusesStay
<1>5. InLog(e)' \/ Excused(e)'
  <2>1. CASE Len(buffer.history) < HistoryCap
    BY <1>3, <2>1 DEF InLog
  <2>2. CASE Len(buffer.history) >= HistoryCap
    BY <1>1, <2>2 DEF Excused, Reasons
  <2> QED
    BY <1>2, <2>1, <2>2
<1>6. \A x : InLog(x) => InLog(x)'
  BY <1>1, <1>3 DEF InLog
<1>7. clock' = clock => TextTypes'
  BY <1>0, <1>1, <1>2, <1>3 DEF TextTypes
<1> QED
  BY <1>1, <1>3, <1>4, <1>5, <1>6, <1>7

\* The same when the line does not get to the file.
LEMMA ShortKeeps ==
    ASSUME MemoryInv, NEW e \in Line, LoggedShort(e)
    PROVE  /\ files'.facts = files.facts /\ files'.stamp = files.stamp
           /\ buffer'.facts = buffer.facts /\ buffer'.version = buffer.version + 1
           /\ buffer'.read = buffer.read
           /\ buffer.history = << >> => Len(buffer'.history) <= 1
           /\ \A x : Excused(x) => Excused(x)'
           /\ \A x : InLog(x) => InLog(x)'
           /\ InLog(e)' \/ Excused(e)'
           /\ clock' = clock => TextTypes'
<1>0. MemoryTypes /\ TextTypes
  BY DEF MemoryInv, MemoryTypes
<1>1. /\ files' = files /\ excused' = excused \cup {<<e, "write">>}
      /\ buffer' = [facts |-> buffer.facts, history |-> AppendHistory(buffer.history, e),
                    version |-> buffer.version + 1, read |-> buffer.read]
  BY <1>0, TextFields DEF LoggedShort
<1>2. buffer.history \in Seq(Line) /\ buffer.version \in Nat
  BY <1>0 DEF TextTypes
<1>3. /\ buffer'.history \in Seq(Line) /\ ToSet(buffer.history) \subseteq ToSet(buffer'.history)
      /\ buffer.history = << >> => Len(buffer'.history) <= 1
  BY <1>1, <1>2, OneMoreLine
<1>4. \A x : Excused(x) => Excused(x)'
  BY <1>1, ExcusesStay
<1>5. Excused(e)'
  BY <1>1 DEF Excused, Reasons
<1>6. \A x : InLog(x) => InLog(x)'
  BY <1>1, <1>3 DEF InLog
<1>7. clock' = clock => TextTypes'
  BY <1>0, <1>1, <1>2, <1>3 DEF TextTypes
<1> QED
  BY <1>1, <1>3, <1>4, <1>5, <1>6, <1>7

\* A run ends without success: what it had still to report is forgotten.
LEMMA EndedRun ==
    ASSUME MemoryInv, NEW w \in Workers, tools' = [tools EXCEPT ![w] = NoRun],
           prompt' = prompt
    PROVE  /\ ToolTypes' /\ RunInv'
           /\ \A v \in Workers : /\ tools'[v].given \subseteq tools[v].given
                                 /\ tools'[v].logged \subseteq tools[v].logged
                                 /\ tools'[v].given # {} => tools'[v].todo = tools[v].todo
<1>0. MemoryTypes /\ ToolTypes /\ RunInv
  BY DEF MemoryInv, MemoryTypes
<1>1. /\ tools' = [v \in Workers |-> tools'[v]] /\ tools'[w] = NoRun
      /\ \A v \in Workers : v # w => tools'[v] = tools[v]
  BY <1>0, GoesOnIs
<1>2. /\ NoRun.todo = << >> /\ NoRun.given = {} /\ NoRun.logged = {} /\ ~NoRun.busy
  BY DEF NoRun
<1>3. << >> \in Todo /\ << >> \notin {<<"update", "save">>, <<"entry", "update", "save">>}
  BY DEF Todo, Rest
<1>4. ToolTypes'
  BY <1>0, <1>1, GoesOnTypes
<1>5. RunInv'
  BY <1>0, <1>1, <1>2, <1>3 DEF RunInv
<1> QED
  BY <1>1, <1>2, <1>4, <1>5

\* The next entry of a run.
LEMMA AppendInv == ASSUME NEW w \in Workers
                   PROVE  MemoryInv /\ MemoryAppendHistory(w) => MemoryInv'
<1> SUFFICES ASSUME MemoryInv, MemoryAppendHistory(w) PROVE MemoryInv'
  OBVIOUS
<1>0. MemoryTypes /\ RunInv /\ PromptInv /\ FreshInv /\ FactInv /\ LogInv
  BY DEF MemoryInv
<1> DEFINE t == tools[w].todo
<1>1. /\ prompt' = prompt /\ agentAt' = agentAt /\ clock' = clock
      /\ facts' = facts /\ entries' = entries
      /\ tools[w].busy /\ t # << >> /\ Head(t) = "entry" /\ AgentTypes'
  BY <1>0 DEF MemoryAppendHistory, At, GivesUp, MemoryTypes, AgentTypes
<1>2. prompt.made /\ t \in Todo /\ tools[w].req \in Requests
  BY <1>0, <1>1 DEF RunInv
<1> HIDE DEF t
<1>3. CASE /\ Logged(tools[w].req.entry) \/ LoggedShort(tools[w].req.entry)
           /\ tools' = [tools EXCEPT ![w] = [Done(w) EXCEPT !.logged = {tools[w].req.entry}]]
  <2>1. PICK e : e = tools[w].req.entry
    OBVIOUS
  <2>2. e \in Line /\ (Logged(e) \/ LoggedShort(e))
    BY <1>2, <1>3, <2>1 DEF Line
  <2>3. /\ files'.facts = files.facts /\ files'.stamp = files.stamp
        /\ buffer'.facts = buffer.facts /\ buffer'.version = buffer.version + 1
        /\ \A x : Excused(x) => Excused(x)'
        /\ \A x : InLog(x) => InLog(x)'
        /\ InLog(e)' \/ Excused(e)'
        /\ TextTypes'
    BY <1>1, <2>2, LoggedKeeps, ShortKeeps
  <2>4. GoesOn(w, tools[w].given, {e}) /\ \A v \in Workers : v # w => tools'[v] = tools[v]
    BY <1>0, <1>3, <2>1, GoesOnIs
  <2>5. MemoryTypes'
    BY <1>0, <1>1, <2>3, <2>4, GoesOnTypes DEF MemoryTypes
  <2>6. /\ tools'[w].todo = Tail(t) /\ tools'[w].req = tools[w].req
        /\ tools'[w].given = tools[w].given
        /\ tools'[w].logged = {e} /\ tools'[w].busy = tools[w].busy
    BY <2>4 DEF GoesOn, t
  <2>7. /\ Tail(t) \in Todo /\ Tail(t) # <<"entry", "update", "save">>
        /\ Tail(t) = <<"update", "save">> => t = <<"entry", "update", "save">>
        /\ tools[w].given # {} => Tail(t) = <<"save">>
    <3>1. /\ Tail(t) \in Todo /\ Tail(t) \in {<< >>, <<"save">>, <<"update", "save">>}
          /\ Tail(t) = <<"update", "save">> => t = <<"entry", "update", "save">>
          /\ t \in Rest => Tail(t) = <<"save">>
      BY <1>1, <1>2, TodoFacts
    <3>2. tools[w].given # {} => t \in Rest
      BY <1>0 DEF RunInv, t
    <3>3. << >> # <<"entry", "update", "save">> /\ <<"save">> # <<"entry", "update", "save">>
          /\ <<"update", "save">> # <<"entry", "update", "save">>
      OBVIOUS
    <3> QED
      BY <3>1, <3>2, <3>3
  <2>8. <<"save">> \in Rest /\ <<"save">> # << >>
    BY DEF Rest
  <2>9. RunInv'
    BY <1>0, <1>1, <1>2, <2>4, <2>6, <2>7, <2>8 DEF RunInv, t
  <2>10. PromptInv'
    <3>1. prompt.version \in Nat /\ agentAt.version \in Nat /\ buffer.version \in Nat
      BY <1>0 DEF MemoryTypes, AgentTypes, TextTypes
    <3> QED
      BY <1>0, <1>1, <2>3, <3>1 DEF PromptInv, PromptCurrent
  <2>11. FreshInv'
    BY <1>0, <1>1, <1>2, <2>3 DEF FreshInv
  <2>12. FactInv'
    <3>1. FactsKept' /\ (Aware' => \A x \in facts' : FactExists(x, buffer'.facts) \/ Excused(x)')
      BY <1>0, <1>1, <1>2, <2>3 DEF FactInv, FactsKept, Aware
    <3>2. ASSUME NEW v \in Workers, NEW x \in tools'[v].given
          PROVE  /\ FactExists(x, buffer'.facts) \/ Excused(x)'
                 /\ tools'[v].todo = << >> => FactExists(x, files'.facts) \/ Excused(x)'
      <4>1. CASE v = w
        BY <1>0, <2>3, <2>6, <2>7, <2>8, <3>2, <4>1 DEF FactInv
      <4>2. CASE v # w
        BY <1>0, <2>3, <2>4, <3>2, <4>2 DEF FactInv
      <4> QED
        BY <4>1, <4>2
    <3> QED
      BY <3>1, <3>2 DEF FactInv
  <2>13. LogInv'
    BY <1>0, <1>1, <2>3, <2>4, <2>6 DEF LogInv
  <2> QED
    BY <2>5, <2>9, <2>10, <2>11, <2>12, <2>13 DEF MemoryInv
<1>4. CASE GivesUp(w) /\ files' = files /\ buffer' = buffer /\ excused' = excused
  <2>1. /\ ToolTypes' /\ RunInv'
        /\ \A v \in Workers : /\ tools'[v].given \subseteq tools[v].given
                              /\ tools'[v].logged \subseteq tools[v].logged
                              /\ tools'[v].given # {} => tools'[v].todo = tools[v].todo
    BY <1>1, <1>4, EndedRun DEF GivesUp
  <2>2. MemoryTypes'
    BY <1>0, <1>1, <1>4, <2>1 DEF MemoryTypes, TextTypes
  <2>3. PromptInv' /\ FreshInv'
    BY <1>0, <1>1, <1>4 DEF PromptInv, PromptCurrent, FreshInv
  <2>4. FactInv'
    BY <1>0, <1>1, <1>4, <2>1 DEF FactInv, FactsKept, Aware, Excused
  <2>5. LogInv'
    BY <1>0, <1>1, <1>4, <2>1 DEF LogInv, InLog, Excused
  <2> QED
    BY <2>1, <2>2, <2>3, <2>4, <2>5 DEF MemoryInv
<1> QED
  BY <1>3, <1>4 DEF MemoryAppendHistory

\* Runs of which some facts, or some entries, are forgotten.
LEMMA Trimmed ==
    ASSUME ToolTypes, NEW v \in Workers, NEW K
    PROVE  /\ [tools[v] EXCEPT !.given = K] =
                [todo |-> tools[v].todo, req |-> tools[v].req, given |-> K,
                 logged |-> tools[v].logged, busy |-> tools[v].busy]
           /\ [tools[v] EXCEPT !.logged = K] =
                [todo |-> tools[v].todo, req |-> tools[v].req, given |-> tools[v].given,
                 logged |-> K, busy |-> tools[v].busy]
<1> DEFINE t == tools[v]
           a == t.todo
           b == t.req
           c == t.given
           d == t.logged
           e == t.busy
<1>1. t = [todo |-> a, req |-> b, given |-> c, logged |-> d, busy |-> e]
  BY DEF ToolTypes
<1> HIDE DEF t, a, b, c, d, e
<1>2. /\ [t EXCEPT !.given = K] =
            [todo |-> a, req |-> b, given |-> K, logged |-> d, busy |-> e]
      /\ [t EXCEPT !.logged = K] =
            [todo |-> a, req |-> b, given |-> c, logged |-> K, busy |-> e]
  BY <1>1, RunFields
<1> QED
  BY <1>2 DEF t, a, b, c, d, e

\* memory_set_facts: facts that the new text leaves out are meant to go.
LEMMA SetFactsInv == ASSUME NEW w \in Workers
                     PROVE  MemoryInv /\ MemorySetFacts(w) => MemoryInv'
<1> SUFFICES ASSUME MemoryInv, MemorySetFacts(w) PROVE MemoryInv'
  OBVIOUS
<1>0. MemoryTypes /\ RunInv /\ PromptInv /\ FreshInv /\ FactInv /\ LogInv
      /\ TextTypes /\ AgentTypes /\ ToolTypes
  BY DEF MemoryInv, MemoryTypes
<1> DEFINE t == tools[w].todo
<1>1. /\ prompt' = prompt /\ agentAt' = agentAt /\ clock' = clock
      /\ files' = files /\ entries' = entries /\ excused' = excused
      /\ tools[w].busy /\ t # << >> /\ Head(t) = "update" /\ AgentTypes'
  BY <1>0 DEF MemorySetFacts, At, GivesUp, AgentTypes
<1>2. /\ prompt.made /\ t \in Todo /\ tools[w].req \in Requests
      /\ t = <<"update", "save">> /\ Tail(t) = <<"save">>
  BY <1>0, <1>1, TodoFacts DEF RunInv
<1>3. tools[w].req.update # NoText
  BY <1>0, <1>2 DEF RunInv
<1>4. PICK u : u = tools[w].req.update
  OBVIOUS
<1>5. \A f \in u : FactExists(f, u)
  BY <1>2, <1>3, <1>4, MemoryAssumption DEF FactExists
<1>6. \A x : Excused(x) => Excused(x)'
  BY <1>1 DEF Excused
<1>7. CASE ~Rejected(buffer.facts, u)
  <2>1. /\ buffer' = [buffer EXCEPT !.facts = u, !.version = @ + 1]
        /\ facts' = facts \cap Known(u)
        /\ tools' = [v \in Workers |->
                       IF v = w THEN [Done(w) EXCEPT !.given = u]
                       ELSE [tools[v] EXCEPT !.given = @ \cap Known(u)]]
    BY <1>4, <1>7 DEF MemorySetFacts
  <2>2. buffer' = [facts |-> u, history |-> buffer.history, version |-> buffer.version + 1,
                   read |-> buffer.read]
    BY <1>0, <2>1, TextFields
  <2>3. /\ tools' = [v \in Workers |-> tools'[v]]
        /\ tools'[w] = [todo |-> Tail(t), req |-> tools[w].req, given |-> u,
                        logged |-> tools[w].logged, busy |-> tools[w].busy]
    BY <1>0, <2>1, GoesOnIs
  <2>4. \A v \in Workers : v # w =>
          tools'[v] = [todo |-> tools[v].todo, req |-> tools[v].req,
                       given |-> tools[v].given \cap Known(u),
                       logged |-> tools[v].logged, busy |-> tools[v].busy]
    <3> SUFFICES ASSUME NEW v \in Workers, v # w
                 PROVE  tools'[v] = [todo |-> tools[v].todo, req |-> tools[v].req,
                                     given |-> tools[v].given \cap Known(u),
                                     logged |-> tools[v].logged, busy |-> tools[v].busy]
      OBVIOUS
    <3>1. tools'[v] = [tools[v] EXCEPT !.given = tools[v].given \cap Known(u)]
      BY <2>1
    <3> QED
      BY <1>0, <3>1, Trimmed
  <2>5. \A v \in Workers :
          /\ v # w => /\ tools'[v].todo = tools[v].todo /\ tools'[v].req = tools[v].req
                      /\ tools'[v].given = tools[v].given \cap Known(u)
                      /\ tools'[v].busy = tools[v].busy
          /\ tools'[v].logged = tools[v].logged
          /\ tools'[v] = [todo |-> tools'[v].todo, req |-> tools'[v].req,
                          given |-> tools'[v].given, logged |-> tools'[v].logged,
                          busy |-> tools'[v].busy]
    BY <2>3, <2>4
  <2>6. /\ tools'[w].todo = <<"save">> /\ tools'[w].req = tools[w].req
        /\ tools'[w].given = u /\ tools'[w].busy = tools[w].busy
    BY <1>2, <2>3
  <2>7. MemoryTypes'
    <3>1. ToolTypes'
      BY <2>3, <2>5 DEF ToolTypes
    <3>2. TextTypes'
      BY <1>0, <1>1, <2>2 DEF TextTypes
    <3> QED
      BY <1>1, <3>1, <3>2 DEF MemoryTypes
  <2>8. /\ <<"save">> \in Rest /\ <<"save">> # << >> /\ <<"save">> \in Todo
        /\ <<"save">> \notin {<<"update", "save">>, <<"entry", "update", "save">>}
    BY DEF Rest, Todo
  <2>9. RunInv'
    <3> SUFFICES ASSUME NEW v \in Workers
                 PROVE  /\ tools'[v].busy => prompt'.made
                        /\ tools'[v].todo \in Todo
                        /\ tools'[v].todo # << >> => tools'[v].busy /\ tools'[v].req \in Requests
                        /\ tools'[v].todo \in {<<"update", "save">>, <<"entry", "update", "save">>}
                             => tools'[v].req.update # NoText
                        /\ tools'[v].given # {} => tools'[v].todo \in Rest
      BY DEF RunInv
    <3>1. CASE v = w
      BY <1>1, <1>2, <2>6, <2>8, <3>1
    <3>2. CASE v # w
      <4>1. /\ tools'[v].todo = tools[v].todo /\ tools'[v].req = tools[v].req
            /\ tools'[v].given \subseteq tools[v].given /\ tools'[v].busy = tools[v].busy
        BY <2>5, <3>2
      <4> QED
        BY <1>0, <1>1, <4>1 DEF RunInv
    <3> QED
      BY <3>1, <3>2
  <2>10. PromptInv'
    <3>1. prompt.version \in Nat /\ agentAt.version \in Nat /\ buffer.version \in Nat
      BY <1>0 DEF AgentTypes, TextTypes
    <3> QED
      BY <1>0, <1>1, <2>2, <3>1 DEF PromptInv, PromptCurrent
  <2>11. FreshInv'
    BY <1>0, <1>1, <1>2 DEF FreshInv
  <2>12. \A x \in Known(u) : FactExists(x, buffer'.facts)
    BY <2>2, MoreFacts
  <2>13. FactInv'
    <3>1. FactsKept' /\ (Aware' => \A x \in facts' : FactExists(x, buffer'.facts) \/ Excused(x)')
      BY <1>0, <1>1, <1>6, <2>1, <2>12 DEF FactInv, FactsKept
    <3>2. ASSUME NEW v \in Workers, NEW x \in tools'[v].given
          PROVE  /\ FactExists(x, buffer'.facts) \/ Excused(x)'
                 /\ tools'[v].todo = << >> => FactExists(x, files'.facts) \/ Excused(x)'
      <4>1. CASE v = w
        BY <1>5, <2>2, <2>6, <2>8, <3>2, <4>1
      <4>2. CASE v # w
        BY <1>0, <1>1, <1>6, <2>5, <2>12, <3>2, <4>2 DEF FactInv
      <4> QED
        BY <4>1, <4>2
    <3> QED
      BY <3>1, <3>2 DEF FactInv
  <2>14. LogInv'
    <3>1. \A x : InLog(x) => InLog(x)'
      BY <1>1, <2>2 DEF InLog
    <3> QED
      BY <1>0, <1>1, <1>6, <2>5, <3>1 DEF LogInv
  <2> QED
    BY <2>7, <2>9, <2>10, <2>11, <2>13, <2>14 DEF MemoryInv
<1>8. CASE GivesUp(w) /\ buffer' = buffer
  <2>0. facts' = facts
    BY <1>8 DEF GivesUp
  <2>1. /\ ToolTypes' /\ RunInv'
        /\ \A v \in Workers : /\ tools'[v].given \subseteq tools[v].given
                              /\ tools'[v].logged \subseteq tools[v].logged
                              /\ tools'[v].given # {} => tools'[v].todo = tools[v].todo
    BY <1>1, <1>8, EndedRun DEF GivesUp
  <2>2. MemoryTypes'
    BY <1>0, <1>1, <1>8, <2>1 DEF MemoryTypes, TextTypes
  <2>3. PromptInv' /\ FreshInv'
    BY <1>0, <1>1, <1>8 DEF PromptInv, PromptCurrent, FreshInv
  <2>4. FactInv'
    BY <1>0, <1>1, <1>8, <2>0, <2>1 DEF FactInv, FactsKept, Aware, Excused
  <2>5. LogInv'
    BY <1>0, <1>1, <1>8, <2>1 DEF LogInv, InLog, Excused
  <2> QED
    BY <2>1, <2>2, <2>3, <2>4, <2>5 DEF MemoryInv
<1> QED
  BY <1>4, <1>7, <1>8 DEF MemorySetFacts

\* What a save keeps: the file has the lines that the process knows of, and what it does not
\* know of is excused.
LEMMA SavedLog ==
    ASSUME files'.history = buffer.history, buffer'.history = buffer.history,
           buffer'.read = buffer.read, excused' = excused \cup Unread(buffer)
    PROVE  \A x : InLog(x) \/ Excused(x) => InLog(x)' \/ Excused(x)'
<1> SUFFICES ASSUME NEW x, InLog(x) \/ Excused(x) PROVE InLog(x)' \/ Excused(x)'
  OBVIOUS
<1>1. CASE Excused(x)
  BY <1>1 DEF Excused
<1>2. CASE InLog(x) /\ x \in ToSet(buffer.history)
  BY <1>2 DEF InLog
<1>3. CASE InLog(x) /\ x \notin ToSet(buffer.history)
  <2>1. ~buffer.read /\ x \in Overwritten(buffer)
    BY <1>3 DEF InLog, Overwritten
  <2>2. <<x, "unread">> \in excused'
    BY <2>1 DEF Unread
  <2> QED
    BY <2>2 DEF Excused, Reasons
<1> QED
  BY <1>1, <1>2, <1>3

\* What a run that is over has given, and what any run has logged, counts.
LEMMA KeptHas ==
    /\ facts \subseteq Kept
    /\ \A v \in Workers : tools[v].todo = << >> => tools[v].given \subseteq Kept
    /\ entries \subseteq AllLogged
    /\ \A v \in Workers : tools[v].logged \subseteq AllLogged
<1>1. ASSUME NEW v \in Workers, tools[v].todo = << >> PROVE tools[v].given \subseteq Kept
  <2>1. tools[v].given \in {tools[w].given : w \in {u \in Workers : tools[u].todo = << >>}}
    BY <1>1
  <2> QED
    BY <2>1, Zenon DEF Kept
<1>2. ASSUME NEW v \in Workers PROVE tools[v].logged \subseteq AllLogged
  <2>1. tools[v].logged \in {tools[w].logged : w \in Workers}
    OBVIOUS
  <2> QED
    BY <2>1, Zenon DEF AllLogged
<1> QED
  BY <1>1, <1>2 DEF Kept, AllLogged

\* memory_save at the end of a run.
LEMMA SaveInv == ASSUME NEW w \in Workers
                 PROVE  MemoryInv /\ MemorySave(w) => MemoryInv'
<1> SUFFICES ASSUME MemoryInv, MemorySave(w) PROVE MemoryInv'
  OBVIOUS
<1>0. MemoryTypes /\ RunInv /\ PromptInv /\ FreshInv /\ FactInv /\ LogInv
      /\ TextTypes /\ AgentTypes /\ ToolTypes
  BY DEF MemoryInv, MemoryTypes
<1> DEFINE t == tools[w].todo
<1>1. /\ prompt' = prompt /\ agentAt' = agentAt /\ clock' = clock /\ buffer' = buffer
      /\ facts' = facts /\ entries' = entries
      /\ tools[w].busy /\ t # << >> /\ Head(t) = "save" /\ AgentTypes'
  BY <1>0 DEF MemorySave, At, GivesUp, AgentTypes
<1>2. prompt.made /\ t \in Todo /\ Tail(t) = << >> /\ Aware
  BY <1>0, <1>1, TodoFacts DEF RunInv, Aware
<1>3. PromptInv'
  BY <1>0, <1>1 DEF PromptInv, PromptCurrent
<1>4. clock # 0 /\ clock \in Nat
  BY <1>0 DEF TextTypes
<1>5. CASE /\ files' = Saved(buffer) /\ excused' = excused \cup Unread(buffer)
           /\ tools' = [tools EXCEPT ![w] = Done(w)]
  <2>1. files' = [facts |-> buffer.facts, stamp |-> clock, history |-> buffer.history]
    BY <1>5 DEF Saved
  <2>2. /\ GoesOn(w, tools[w].given, tools[w].logged)
        /\ \A v \in Workers : v # w => tools'[v] = tools[v]
    BY <1>0, <1>5, GoesOnIs
  <2>3. /\ tools'[w].todo = << >> /\ tools'[w].req = tools[w].req
        /\ tools'[w].given = tools[w].given /\ tools'[w].logged = tools[w].logged
        /\ tools'[w].busy = tools[w].busy
    BY <1>2, <2>2 DEF GoesOn
  <2>4. MemoryTypes'
    <3>1. ToolTypes'
      BY <1>0, <2>2, GoesOnTypes
    <3>2. TextTypes'
      BY <1>0, <1>1, <2>1 DEF TextTypes
    <3> QED
      BY <1>1, <3>1, <3>2 DEF MemoryTypes
  <2>5. << >> \in Todo /\ << >> \in Rest
        /\ << >> \notin {<<"update", "save">>, <<"entry", "update", "save">>}
    BY DEF Todo, Rest
  <2>6. RunInv'
    BY <1>0, <1>1, <1>2, <2>2, <2>3, <2>5 DEF RunInv
  <2>7. FreshInv'
    BY <1>0, <1>1, <1>2, <1>4, <2>1 DEF FreshInv
  <2>8. \A x : Excused(x) => Excused(x)'
    BY <1>5 DEF Excused
  <2>9. FactInv'
    <3>1. FactsKept' /\ (Aware' => \A x \in facts' : FactExists(x, buffer'.facts) \/ Excused(x)')
      BY <1>0, <1>1, <1>2, <2>1, <2>8 DEF FactInv, FactsKept
    <3>2. \A v \in Workers : tools'[v].given = tools[v].given
      BY <2>2, <2>3
    <3> QED
      BY <1>0, <1>1, <2>1, <2>8, <3>1, <3>2 DEF FactInv
  <2>10. LogInv'
    <3>1. \A x : InLog(x) \/ Excused(x) => InLog(x)' \/ Excused(x)'
      BY <1>1, <1>5, <2>1, SavedLog
    <3> QED
      BY <1>0, <1>1, <2>2, <2>3, <3>1 DEF LogInv
  <2> QED
    BY <1>3, <2>4, <2>6, <2>7, <2>9, <2>10 DEF MemoryInv
<1>6. CASE /\ files' \in {files} \cup HalfWritten(buffer) /\ GivesUp(w)
           /\ excused' = excused \cup (Missing(Kept, {}, files') \X {"write"})
  <2>0. PICK f : f = files'
    OBVIOUS
  <2>1. /\ ToolTypes' /\ RunInv'
        /\ \A v \in Workers : /\ tools'[v].given \subseteq tools[v].given
                              /\ tools'[v].logged \subseteq tools[v].logged
                              /\ tools'[v].given # {} => tools'[v].todo = tools[v].todo
    BY <1>1, <1>6, EndedRun DEF GivesUp
  <2>2. /\ f = [facts |-> f.facts, stamp |-> f.stamp, history |-> f.history]
        /\ f.history \in Seq(Line) /\ f.stamp \in Nat
        /\ f = files \/ f.stamp = clock
    <3>1. f \in {files} \cup HalfWritten(buffer) \cup Written(buffer)
      BY <1>6, <2>0
    <3>2. buffer.history \in Seq(Line)
      BY <1>0 DEF TextTypes
    <3> QED
      BY <1>0, <3>1, <3>2, PartWritten
  <2>3. f.history = files.history
    <3>1. CASE f = files
      BY <3>1
    <3>2. CASE f \in HalfWritten(buffer)
      BY <3>2 DEF HalfWritten
    <3> QED
      BY <1>6, <2>0, <3>1, <3>2
  <2>4. TextTypes'
    BY <1>0, <1>1, <2>0, <2>2 DEF TextTypes
  <2>5. MemoryTypes'
    BY <1>1, <2>1, <2>4 DEF MemoryTypes
  <2>6. FreshInv'
    BY <1>0, <1>1, <1>2, <1>4, <2>0, <2>2 DEF FreshInv
  <2>7. /\ \A x : Excused(x) => Excused(x)'
        /\ \A x \in Kept : FactExists(x, f.facts) \/ Excused(x)'
    <3>1. "write" \in Reasons
      BY DEF Reasons
    <3> QED
      BY <1>6, <2>0, <3>1, MissingExcused
  <2>10. /\ facts \subseteq Kept
         /\ \A v \in Workers : tools[v].todo = << >> => tools[v].given \subseteq Kept
    BY KeptHas
  <2>8. FactInv'
    <3>1. FactsKept' /\ (Aware' => \A x \in facts' : FactExists(x, buffer'.facts) \/ Excused(x)')
      BY <1>0, <1>1, <1>2, <2>0, <2>7, <2>10 DEF FactInv, FactsKept
    <3>2. ASSUME NEW v \in Workers, NEW x \in tools'[v].given
          PROVE  /\ FactExists(x, buffer'.facts) \/ Excused(x)'
                 /\ tools'[v].todo = << >> => FactExists(x, files'.facts) \/ Excused(x)'
      BY <1>0, <1>1, <2>0, <2>1, <2>7, <2>10, <3>2 DEF FactInv
    <3> QED
      BY <3>1, <3>2 DEF FactInv
  <2>9. LogInv'
    <3>1. \A x : InLog(x) => InLog(x)'
      BY <1>1, <2>0, <2>3 DEF InLog
    <3> QED
      BY <1>0, <1>1, <2>1, <2>7, <3>1 DEF LogInv
  <2> QED
    BY <1>3, <2>1, <2>5, <2>6, <2>8, <2>9 DEF MemoryInv
<1>7. CASE /\ files' \in Written(buffer) /\ tools' = [tools EXCEPT ![w] = Done(w)]
           /\ excused' = excused \cup
                (Missing(Kept \cup tools[w].given, AllLogged, files') \X {"write"})
  <2>0. PICK f : f = files'
    OBVIOUS
  <2>1. /\ f = [facts |-> f.facts, stamp |-> f.stamp, history |-> f.history]
        /\ f.history \in Seq(Line) /\ f.stamp \in Nat
        /\ f = files \/ f.stamp = clock
    <3>1. f \in {files} \cup HalfWritten(buffer) \cup Written(buffer)
      BY <1>7, <2>0
    <3>2. buffer.history \in Seq(Line)
      BY <1>0 DEF TextTypes
    <3> QED
      BY <1>0, <3>1, <3>2, PartWritten
  <2>2. /\ GoesOn(w, tools[w].given, tools[w].logged)
        /\ \A v \in Workers : v # w => tools'[v] = tools[v]
    BY <1>0, <1>7, GoesOnIs
  <2>3. /\ tools'[w].todo = << >> /\ tools'[w].req = tools[w].req
        /\ tools'[w].given = tools[w].given /\ tools'[w].logged = tools[w].logged
        /\ tools'[w].busy = tools[w].busy
    BY <1>2, <2>2 DEF GoesOn
  <2>4. MemoryTypes'
    <3>1. ToolTypes'
      BY <1>0, <2>2, GoesOnTypes
    <3>2. TextTypes'
      BY <1>0, <1>1, <2>0, <2>1 DEF TextTypes
    <3> QED
      BY <1>1, <3>1, <3>2 DEF MemoryTypes
  <2>5. << >> \in Todo /\ << >> \in Rest
        /\ << >> \notin {<<"update", "save">>, <<"entry", "update", "save">>}
    BY DEF Todo, Rest
  <2>6. RunInv'
    BY <1>0, <1>1, <1>2, <2>2, <2>3, <2>5 DEF RunInv
  <2>7. FreshInv'
    BY <1>0, <1>1, <1>2, <1>4, <2>0, <2>1 DEF FreshInv
  <2>8. /\ \A x : Excused(x) => Excused(x)'
        /\ \A x \in Kept \cup tools[w].given : FactExists(x, f.facts) \/ Excused(x)'
        /\ \A x \in AllLogged : x \in ToSet(f.history) \/ Excused(x)'
    <3>1. "write" \in Reasons
      BY DEF Reasons
    <3> QED
      BY <1>7, <2>0, <3>1, MissingExcused
  <2>9. /\ facts \subseteq Kept
        /\ \A v \in Workers : tools[v].todo = << >> => tools[v].given \subseteq Kept
        /\ entries \subseteq AllLogged
        /\ \A v \in Workers : tools[v].logged \subseteq AllLogged
    BY KeptHas
  <2>10. FactInv'
    <3>1. FactsKept' /\ (Aware' => \A x \in facts' : FactExists(x, buffer'.facts) \/ Excused(x)')
      BY <1>0, <1>1, <1>2, <2>0, <2>8, <2>9 DEF FactInv, FactsKept
    <3>2. ASSUME NEW v \in Workers, NEW x \in tools'[v].given
          PROVE  /\ FactExists(x, buffer'.facts) \/ Excused(x)'
                 /\ tools'[v].todo = << >> => FactExists(x, files'.facts) \/ Excused(x)'
      <4>1. CASE v = w
        BY <1>0, <1>1, <2>0, <2>3, <2>8, <3>2, <4>1 DEF FactInv
      <4>2. CASE v # w
        BY <1>0, <1>1, <2>0, <2>2, <2>8, <2>9, <3>2, <4>2 DEF FactInv
      <4> QED
        BY <4>1, <4>2
    <3> QED
      BY <3>1, <3>2 DEF FactInv
  <2>11. LogInv'
    <3>1. \A x \in AllLogged : InLog(x) \/ Excused(x) => InLog(x)' \/ Excused(x)'
      BY <1>1, <2>0, <2>8 DEF InLog
    <3> QED
      BY <1>0, <1>1, <2>2, <2>3, <2>9, <3>1 DEF LogInv
  <2> QED
    BY <1>3, <2>4, <2>6, <2>7, <2>10, <2>11 DEF MemoryInv
<1> QED
  BY <1>5, <1>6, <1>7 DEF MemorySave

\* The run reports success.
LEMMA SucceedInv == ASSUME NEW w \in Workers
                    PROVE  MemoryInv /\ Succeed(w) => MemoryInv'
<1> SUFFICES ASSUME MemoryInv, Succeed(w) PROVE MemoryInv'
  OBVIOUS
<1>0. MemoryTypes /\ PromptInv /\ FreshInv /\ FactInv /\ LogInv
      /\ TextTypes /\ AgentTypes
  BY DEF MemoryInv, MemoryTypes
<1>1. /\ files' = files /\ buffer' = buffer /\ prompt' = prompt /\ agentAt' = agentAt
      /\ clock' = clock /\ excused' = excused /\ tools[w].todo = << >>
      /\ facts' = facts \cup tools[w].given /\ entries' = entries \cup tools[w].logged
  BY DEF Succeed
<1>2. /\ ToolTypes' /\ RunInv'
      /\ \A v \in Workers : /\ tools'[v].given \subseteq tools[v].given
                            /\ tools'[v].logged \subseteq tools[v].logged
                            /\ tools'[v].given # {} => tools'[v].todo = tools[v].todo
  BY <1>1, EndedRun DEF Succeed
<1>3. MemoryTypes'
  BY <1>0, <1>1, <1>2 DEF MemoryTypes, TextTypes, AgentTypes
<1>4. PromptInv' /\ FreshInv'
  BY <1>0, <1>1 DEF PromptInv, PromptCurrent, FreshInv
<1>5. \A x : Excused(x) => Excused(x)'
  BY <1>1 DEF Excused
<1>6. FactInv'
  <2>1. FactsKept' /\ (Aware' => \A x \in facts' : FactExists(x, buffer'.facts) \/ Excused(x)')
    BY <1>0, <1>1, <1>5 DEF FactInv, FactsKept, Aware
  <2>2. ASSUME NEW v \in Workers, NEW x \in tools'[v].given
        PROVE  /\ FactExists(x, buffer'.facts) \/ Excused(x)'
               /\ tools'[v].todo = << >> => FactExists(x, files'.facts) \/ Excused(x)'
    BY <1>0, <1>1, <1>2, <1>5, <2>2 DEF FactInv
  <2> QED
    BY <2>1, <2>2 DEF FactInv
<1>7. LogInv'
  <2>1. \A x : InLog(x) => InLog(x)'
    BY <1>1 DEF InLog
  <2> QED
    BY <1>0, <1>1, <1>2, <1>5, <2>1 DEF LogInv
<1> QED
  BY <1>2, <1>3, <1>4, <1>6, <1>7 DEF MemoryInv

\* The agent logs an entry of its own.
LEMMA AutoAppendInv == ASSUME NEW e \in LogEntries
                       PROVE  MemoryInv /\ AutoAppend(e) => MemoryInv'
<1> SUFFICES ASSUME MemoryInv, AutoAppend(e) PROVE MemoryInv'
  OBVIOUS
<1>0. MemoryTypes /\ RunInv /\ PromptInv /\ FreshInv /\ FactInv /\ LogInv
      /\ TextTypes /\ AgentTypes /\ ToolTypes
  BY DEF MemoryInv, MemoryTypes
<1>1. /\ prompt' = prompt /\ tools' = tools /\ clock' = clock /\ facts' = facts
      /\ entries' = entries /\ agentAt.pc = "idle"
  BY DEF AutoAppend
<1>2. /\ agentAt'.stamp = agentAt.stamp /\ agentAt'.version = agentAt.version
      /\ agentAt'.pc \in {"consolidate", "stat"} /\ AgentTypes'
  BY <1>0, <1>1 DEF AutoAppend, AgentTypes
<1>3. RunInv' /\ ToolTypes'
  BY <1>0, <1>1 DEF RunInv, ToolTypes
<1>4. CASE Logged(e) \/ LoggedShort(e)
  <2>1. e \in Line
    BY DEF Line
  <2>2. /\ files'.facts = files.facts /\ files'.stamp = files.stamp
        /\ buffer'.facts = buffer.facts /\ buffer'.version = buffer.version + 1
        /\ buffer'.read = buffer.read
        /\ buffer.history = << >> => Len(buffer'.history) <= 1
        /\ \A x : Excused(x) => Excused(x)'
        /\ \A x : InLog(x) => InLog(x)'
        /\ TextTypes'
    BY <1>1, <1>4, <2>1, LoggedKeeps, ShortKeeps
  <2>3. MemoryTypes'
    BY <1>2, <1>3, <2>2 DEF MemoryTypes
  <2>4. PromptInv'
    <3>1. prompt.version \in Nat /\ buffer.version \in Nat
      BY <1>0 DEF AgentTypes, TextTypes
    <3> QED
      BY <1>0, <1>1, <1>2, <2>2, <3>1 DEF PromptInv, PromptCurrent
  <2>5. FreshInv'
    BY <1>0, <1>1, <1>2, <2>2 DEF FreshInv
  <2>6. FactInv'
    BY <1>0, <1>1, <1>2, <2>2 DEF FactInv, FactsKept, Aware
  <2>7. LogInv'
    BY <1>0, <1>1, <2>2 DEF LogInv
  <2> QED
    BY <1>3, <2>3, <2>4, <2>5, <2>6, <2>7 DEF MemoryInv
<1>5. CASE files' = files /\ buffer' = buffer /\ excused' = excused
  <2>1. MemoryTypes'
    BY <1>0, <1>1, <1>2, <1>3, <1>5 DEF MemoryTypes, TextTypes
  <2>2. PromptInv'
    BY <1>0, <1>1, <1>2, <1>5 DEF PromptInv, PromptCurrent
  <2>3. FreshInv'
    BY <1>0, <1>1, <1>2, <1>5 DEF FreshInv
  <2>4. FactInv'
    BY <1>0, <1>1, <1>2, <1>5 DEF FactInv, FactsKept, Aware, Excused
  <2>5. LogInv'
    BY <1>0, <1>1, <1>5 DEF LogInv, InLog, Excused
  <2> QED
    BY <1>3, <2>1, <2>2, <2>3, <2>4, <2>5 DEF MemoryInv
<1> QED
  BY <1>4, <1>5 DEF AutoAppend

\* A process that has neither read the files nor made a prompt does not consolidate: its one
\* entry is not too much.
LEMMA FreshIsSmall ==
    ASSUME MemoryInv, NeedsConsolidation(buffer)
    PROVE  Aware
<1> SUFFICES ASSUME ~Aware PROVE FALSE
  OBVIOUS
<1> DEFINE I == {i \in 1..Len(buffer.history) : buffer.history[i] # Blank}
<1>1. buffer.facts = {} /\ Len(buffer.history) <= 1 /\ Len(buffer.history) \in Nat
  BY DEF MemoryInv, FreshInv, Aware, MemoryTypes, TextTypes
<1>2. Cardinality({}) = 0
  BY FS_EmptySet
<1>3. I \subseteq {1}
  BY <1>1
<1>4. IsFiniteSet({1}) /\ Cardinality({1}) = 1
  BY FS_Singleton
<1>5. Cardinality(I) \in Nat /\ Cardinality(I) <= 1
  <2>1. IsFiniteSet(I) /\ Cardinality(I) <= Cardinality({1})
    BY <1>3, <1>4, FS_Subset
  <2> QED
    BY <1>4, <2>1, FS_CardinalityType
<1>6. Tokens(buffer) = Cardinality(I)
  BY <1>1, <1>2, <1>5 DEF Tokens
<1>7. TokenLimit \in Nat /\ 1 <= TokenLimit
  BY MemoryAssumption
<1> HIDE DEF I
<1> QED
  BY <1>5, <1>6, <1>7 DEF NeedsConsolidation

\* memory_consolidate: old entries leave the log, and the facts stay.
LEMMA ConsolidateInv == MemoryInv /\ AutoConsolidate => MemoryInv'
<1> SUFFICES ASSUME MemoryInv, AutoConsolidate PROVE MemoryInv'
  OBVIOUS
<1>0. MemoryTypes /\ RunInv /\ PromptInv /\ FreshInv /\ FactInv /\ LogInv
      /\ TextTypes /\ AgentTypes /\ ToolTypes
  BY DEF MemoryInv, MemoryTypes
<1>1. /\ prompt' = prompt /\ clock' = clock /\ facts' = facts /\ agentAt.pc = "consolidate"
  BY DEF AutoConsolidate
<1>2. /\ agentAt'.stamp = agentAt.stamp /\ agentAt'.version = agentAt.version
      /\ agentAt'.pc = "stat" /\ AgentTypes'
  BY <1>0, <1>1 DEF AutoConsolidate, AgentTypes
<1>3. CASE ~NeedsConsolidation(buffer)
  <2>0. files' = files /\ buffer' = buffer /\ excused' = excused /\ tools' = tools
        /\ entries' = entries
    BY <1>3 DEF AutoConsolidate
  <2>1. MemoryTypes' /\ RunInv'
    BY <1>0, <1>1, <1>2, <2>0 DEF MemoryTypes, TextTypes, ToolTypes, RunInv
  <2>2. PromptInv'
    BY <1>0, <1>1, <1>2, <2>0 DEF PromptInv, PromptCurrent
  <2>3. FreshInv'
    BY <1>0, <1>1, <1>2, <2>0 DEF FreshInv
  <2>4. FactInv'
    BY <1>0, <1>1, <1>2, <2>0 DEF FactInv, FactsKept, Aware, Excused
  <2>5. LogInv'
    BY <1>0, <1>1, <2>0 DEF LogInv, InLog, Excused
  <2> QED
    BY <2>1, <2>2, <2>3, <2>4, <2>5 DEF MemoryInv
<1>4. CASE NeedsConsolidation(buffer)
  <2>0. Aware /\ (buffer.read \/ prompt.made)
    BY <1>1, <1>4, FreshIsSmall DEF Aware
  <2>1. PICK old, F, h : /\ old = ToSet(OldPart(buffer.history))
                         /\ F = Promoted(buffer.facts, OldPart(buffer.history))
                         /\ h = NewHistory(buffer.history)
    OBVIOUS
  <2>2. buffer' = [facts |-> F, history |-> h, version |-> buffer.version + 1,
                   read |-> buffer.read]
    BY <1>0, <1>4, <2>1, TextFields DEF AutoConsolidate
  <2>3. buffer.facts \subseteq F
    BY <2>1 DEF Promoted
  <2>4. h \in Seq(Line) /\ ToSet(buffer.history) \subseteq old \cup ToSet(h)
    BY <1>0, <2>1, ShorterLog DEF TextTypes
  <2>5. /\ entries' = entries \ old
        /\ tools' = [v \in Workers |-> [tools[v] EXCEPT !.logged = @ \ old]]
    BY <1>4, <2>1 DEF AutoConsolidate
  <2>6. \A v \in Workers :
          tools'[v] = [todo |-> tools[v].todo, req |-> tools[v].req, given |-> tools[v].given,
                       logged |-> tools[v].logged \ old, busy |-> tools[v].busy]
    <3> SUFFICES ASSUME NEW v \in Workers
                 PROVE  tools'[v] = [todo |-> tools[v].todo, req |-> tools[v].req,
                                     given |-> tools[v].given,
                                     logged |-> tools[v].logged \ old, busy |-> tools[v].busy]
      OBVIOUS
    <3>1. tools'[v] = [tools[v] EXCEPT !.logged = tools[v].logged \ old]
      BY <2>5
    <3> QED
      BY <1>0, <3>1, Trimmed
  <2>7. \A v \in Workers :
          /\ tools'[v].todo = tools[v].todo /\ tools'[v].req = tools[v].req
          /\ tools'[v].given = tools[v].given /\ tools'[v].busy = tools[v].busy
          /\ tools'[v].logged = tools[v].logged \ old
          /\ tools'[v] = [todo |-> tools'[v].todo, req |-> tools'[v].req,
                          given |-> tools'[v].given, logged |-> tools'[v].logged,
                          busy |-> tools'[v].busy]
    <3> SUFFICES ASSUME NEW v \in Workers
                 PROVE  /\ tools'[v].todo = tools[v].todo /\ tools'[v].req = tools[v].req
                        /\ tools'[v].given = tools[v].given /\ tools'[v].busy = tools[v].busy
                        /\ tools'[v].logged = tools[v].logged \ old
                        /\ tools'[v] = [todo |-> tools'[v].todo, req |-> tools'[v].req,
                                        given |-> tools'[v].given, logged |-> tools'[v].logged,
                                        busy |-> tools'[v].busy]
      OBVIOUS
    <3>1. tools'[v] = [todo |-> tools[v].todo, req |-> tools[v].req, given |-> tools[v].given,
                       logged |-> tools[v].logged \ old, busy |-> tools[v].busy]
      BY <2>6
    <3> QED
      BY <3>1
  <2>8. ToolTypes'
    BY <2>5, <2>7 DEF ToolTypes
  <2>9. RunInv'
    BY <1>0, <1>1, <2>7 DEF RunInv
  <2>10. buffer.version \in Nat /\ prompt.version \in Nat /\ clock \in Nat \ {0}
    BY <1>0 DEF AgentTypes, TextTypes
  <2>11. PromptInv'
    BY <1>0, <1>1, <1>2, <2>2, <2>10 DEF PromptInv, PromptCurrent
  <2>12. \A x : FactExists(x, buffer.facts) => FactExists(x, F)
    BY <2>3, MoreFacts
  <2>13. CASE files' = Saved(buffer') /\ excused' = excused \cup Unread(buffer)
    <3>1. files' = [facts |-> F, stamp |-> clock, history |-> h]
      BY <2>2, <2>13 DEF Saved
    <3>2. \A x : Excused(x) => Excused(x)'
      BY <2>13, ExcusesStay
    <3>3. TextTypes'
      BY <1>0, <1>1, <2>2, <2>4, <2>10, <3>1 DEF TextTypes
    <3>4. FreshInv'
      BY <1>0, <1>1, <2>0, <2>2, <2>10, <3>1 DEF FreshInv
    <3>5. FactInv'
      <4>1. FactsKept' /\ (Aware' => \A x \in facts' : FactExists(x, buffer'.facts) \/ Excused(x)')
        BY <1>0, <1>1, <2>0, <2>2, <2>12, <3>1, <3>2 DEF FactInv, FactsKept
      <4>2. ASSUME NEW v \in Workers, NEW x \in tools'[v].given
            PROVE  /\ FactExists(x, buffer'.facts) \/ Excused(x)'
                   /\ tools'[v].todo = << >> => FactExists(x, files'.facts) \/ Excused(x)'
        BY <1>0, <2>2, <2>7, <2>12, <3>1, <3>2, <4>2 DEF FactInv
      <4> QED
        BY <4>1, <4>2 DEF FactInv
    <3>6. ASSUME NEW x, x \notin old, InLog(x) \/ Excused(x) PROVE InLog(x)' \/ Excused(x)'
      <4>1. CASE Excused(x)
        BY <3>2, <4>1
      <4>2. CASE InLog(x) /\ x \in ToSet(buffer.history)
        BY <2>2, <2>4, <3>1, <3>6, <4>2 DEF InLog
      <4>3. CASE InLog(x) /\ x \notin ToSet(buffer.history)
        <5>1. ~buffer.read /\ x \in Overwritten(buffer)
          BY <4>3 DEF InLog, Overwritten
        <5>2. <<x, "unread">> \in Unread(buffer)
          BY <5>1 DEF Unread
        <5> QED
          BY <2>13, <5>2 DEF Excused, Reasons
      <4> QED
        BY <3>6, <4>1, <4>2, <4>3
    <3>7. LogInv'
      BY <1>0, <2>5, <2>7, <3>6 DEF LogInv
    <3> QED
      BY <1>2, <2>8, <2>9, <2>11, <3>3, <3>4, <3>5, <3>7 DEF MemoryInv, MemoryTypes
  <2>14. CASE /\ files' \in {files} \cup HalfWritten(buffer') \cup Written(buffer')
              /\ excused' = excused \cup (Missing(Kept, AllLogged', files') \X {"write"})
    <3>0. PICK f, b, E : f = files' /\ b = buffer' /\ E = AllLogged'
      OBVIOUS
    <3>1. /\ f = [facts |-> f.facts, stamp |-> f.stamp, history |-> f.history]
          /\ f.history \in Seq(Line) /\ f.stamp \in Nat
          /\ f = files \/ f.stamp = clock
      <4>1. f \in {files} \cup HalfWritten(b) \cup Written(b)
        BY <2>14, <3>0
      <4>2. b.history \in Seq(Line)
        BY <2>2, <2>4, <3>0
      <4> QED
        BY <1>0, <4>1, <4>2, PartWritten
    <3>2. /\ \A x : Excused(x) => Excused(x)'
          /\ \A x \in Kept : FactExists(x, f.facts) \/ Excused(x)'
          /\ \A x \in E : x \in ToSet(f.history) \/ Excused(x)'
      <4>1. "write" \in Reasons
        BY DEF Reasons
      <4> QED
        BY <2>14, <3>0, <4>1, MissingExcused
    <3>3. /\ facts \subseteq Kept
          /\ \A v \in Workers : tools[v].todo = << >> => tools[v].given \subseteq Kept
      BY KeptHas
    <3>4. E = entries' \cup UNION {tools'[v].logged : v \in Workers}
      BY <3>0 DEF AllLogged
    <3>5. TextTypes'
      BY <1>0, <1>1, <2>2, <2>4, <2>10, <3>0, <3>1 DEF TextTypes
    <3>6. FreshInv'
      BY <1>0, <1>1, <2>0, <2>2, <2>10, <3>0, <3>1 DEF FreshInv
    <3>7. FactInv'
      <4>1. FactsKept' /\ (Aware' => \A x \in facts' : FactExists(x, buffer'.facts) \/ Excused(x)')
        BY <1>0, <1>1, <2>0, <2>2, <2>12, <3>0, <3>2, <3>3 DEF FactInv, FactsKept
      <4>2. ASSUME NEW v \in Workers, NEW x \in tools'[v].given
            PROVE  /\ FactExists(x, buffer'.facts) \/ Excused(x)'
                   /\ tools'[v].todo = << >> => FactExists(x, files'.facts) \/ Excused(x)'
        BY <1>0, <2>2, <2>7, <2>12, <3>0, <3>2, <3>3, <4>2 DEF FactInv
      <4> QED
        BY <4>1, <4>2 DEF FactInv
    <3>8. ASSUME NEW x \in E, x \notin old, InLog(x) \/ Excused(x)
          PROVE  InLog(x)' \/ Excused(x)'
      BY <2>2, <2>4, <3>0, <3>2, <3>8 DEF InLog
    <3>9. /\ \A x \in entries' : x \in E
          /\ \A v \in Workers : \A x \in tools'[v].logged : x \in E
      <4>1. ASSUME NEW v \in Workers PROVE tools'[v].logged \subseteq E
        <5>1. tools'[v].logged \in {tools'[w].logged : w \in Workers}
          OBVIOUS
        <5> QED
          BY <3>4, <5>1, Zenon
      <4> QED
        BY <3>4, <4>1
    <3>10. LogInv'
      BY <1>0, <2>5, <2>7, <3>8, <3>9 DEF LogInv
    <3> QED
      BY <1>2, <2>8, <2>9, <2>11, <3>5, <3>6, <3>7, <3>10 DEF MemoryInv, MemoryTypes
  <2> QED
    BY <1>4, <2>13, <2>14 DEF AutoConsolidate
<1> QED
  BY <1>3, <1>4

\* memory_load: what the runs have not saved is excused.
LEMMA LoadInv == MemoryInv /\ MemoryLoad => MemoryInv'
<1> SUFFICES ASSUME MemoryInv, MemoryLoad PROVE MemoryInv'
  OBVIOUS
<1>0. MemoryTypes /\ RunInv /\ PromptInv /\ FreshInv /\ FactInv /\ LogInv
      /\ TextTypes /\ AgentTypes /\ ToolTypes
  BY DEF MemoryInv, MemoryTypes
<1>1. /\ files' = files /\ prompt' = prompt /\ tools' = tools /\ clock' = clock
      /\ facts' = facts /\ entries' = entries
      /\ buffer' = [facts |-> files.facts, history |-> files.history,
                    version |-> buffer.version + 1, read |-> TRUE]
      /\ excused' = excused \cup
           (((UNION {tools[w].given : w \in Workers}) \ Known(files.facts)) \X {"reload"})
  BY DEF MemoryLoad
<1>2. /\ agentAt'.stamp = agentAt.stamp /\ agentAt'.version = agentAt.version
      /\ agentAt'.pc = "version" /\ AgentTypes'
  BY <1>0, <1>1 DEF MemoryLoad, AgentTypes
<1>3. buffer.version \in Nat /\ prompt.version \in Nat
  BY <1>0 DEF AgentTypes, TextTypes
<1>4. MemoryTypes' /\ RunInv'
  <2>1. TextTypes'
    BY <1>0, <1>1, <1>3 DEF TextTypes
  <2>2. ToolTypes' /\ RunInv'
    BY <1>0, <1>1 DEF ToolTypes, RunInv
  <2> QED
    BY <1>2, <2>1, <2>2 DEF MemoryTypes
<1>5. PromptInv'
  BY <1>0, <1>1, <1>2, <1>3 DEF PromptInv, PromptCurrent
<1>6. FreshInv'
  BY <1>0, <1>1 DEF FreshInv
<1>7. \A x : Excused(x) => Excused(x)'
  BY <1>1, ExcusesStay
<1>8. FactInv'
  <2>1. FactsKept' /\ (Aware' => \A x \in facts' : FactExists(x, buffer'.facts) \/ Excused(x)')
    BY <1>0, <1>1, <1>7 DEF FactInv, FactsKept
  <2>2. ASSUME NEW v \in Workers, NEW x \in tools[v].given
        PROVE  FactExists(x, files.facts) \/ Excused(x)'
    <3>1. CASE x \in Known(files.facts)
      BY <3>1, MoreFacts
    <3>2. CASE x \notin Known(files.facts)
      <4>1. x \in (UNION {tools[w].given : w \in Workers}) \ Known(files.facts)
        <5>1. tools[v].given \in {tools[w].given : w \in Workers}
          OBVIOUS
        <5>2. x \in UNION {tools[w].given : w \in Workers}
          BY <2>2, <5>1, Zenon
        <5> QED
          BY <3>2, <5>2
      <4>2. <<x, "reload">> \in excused'
        BY <1>1, <4>1
      <4> QED
        BY <4>2 DEF Excused, Reasons
    <3> QED
      BY <3>1, <3>2
  <2> QED
    BY <1>1, <2>1, <2>2 DEF FactInv
<1>9. LogInv'
  <2>1. \A x : InLog(x) => InLog(x)'
    BY <1>1 DEF InLog
  <2> QED
    BY <1>0, <1>1, <1>7, <2>1 DEF LogInv
<1> QED
  BY <1>4, <1>5, <1>6, <1>8, <1>9 DEF MemoryInv

\* A file that cannot be read: whatever is not in memory after it is excused.
LEMMA LoadFailsInv == MemoryInv /\ MemoryLoadFails => MemoryInv'
<1> SUFFICES ASSUME MemoryInv, MemoryLoadFails PROVE MemoryInv'
  OBVIOUS
<1>0. MemoryTypes /\ RunInv /\ PromptInv /\ FreshInv /\ FactInv /\ LogInv
      /\ TextTypes /\ AgentTypes /\ ToolTypes
  BY DEF MemoryInv, MemoryTypes
<1> DEFINE Given == UNION {tools[w].given : w \in Workers}
<1>1. /\ prompt' = prompt /\ tools' = tools /\ clock' = clock
      /\ facts' = facts /\ entries' = entries
      /\ excused' = excused \cup (Missing(facts \cup Given, AllLogged, buffer') \X {"unreadable"})
  BY DEF MemoryLoadFails
<1>2. /\ agentAt'.stamp = agentAt.stamp /\ agentAt'.version = agentAt.version
      /\ agentAt'.pc = "version" /\ AgentTypes'
  BY <1>0, <1>1 DEF MemoryLoadFails, AgentTypes
<1>3. PICK F, h :
        /\ h \in Beginnings(files.history) \cup {buffer.history}
        /\ buffer' = [facts |-> F, history |-> h, version |-> buffer.version + 1, read |-> TRUE]
        /\ \/ UNCHANGED files
           \/ F = {} /\ files' = [files EXCEPT !.facts = {}, !.stamp = clock]
  BY DEF MemoryLoadFails
<1>4. \/ files' = files
      \/ F = {} /\ files' = [facts |-> {}, stamp |-> clock, history |-> files.history]
  BY <1>0, <1>3, TextFields
<1>5. /\ buffer.version \in Nat /\ prompt.version \in Nat /\ clock \in Nat \ {0}
      /\ h \in Seq(Line)
  <2>1. files.history \in Seq(Line) /\ buffer.history \in Seq(Line)
    BY <1>0 DEF TextTypes
  <2>2. h \in Seq(Line)
    BY <1>3, <2>1, BeginningIs
  <2> QED
    BY <1>0, <2>2 DEF AgentTypes, TextTypes
<1>6. MemoryTypes' /\ RunInv'
  <2>1. TextTypes'
    BY <1>0, <1>1, <1>3, <1>4, <1>5 DEF TextTypes
  <2>2. ToolTypes' /\ RunInv'
    BY <1>0, <1>1 DEF ToolTypes, RunInv
  <2> QED
    BY <1>2, <2>1, <2>2 DEF MemoryTypes
<1>7. PromptInv'
  BY <1>0, <1>1, <1>2, <1>3, <1>5 DEF PromptInv, PromptCurrent
<1>8. FreshInv'
  BY <1>0, <1>1, <1>3, <1>4, <1>5 DEF FreshInv
<1>9. /\ \A x : Excused(x) => Excused(x)'
      /\ \A x \in facts \cup Given : FactExists(x, F) \/ Excused(x)'
      /\ \A x \in AllLogged : x \in ToSet(h) \/ Excused(x)'
  <2>1. PICK b : b = buffer'
    OBVIOUS
  <2>2. "unreadable" \in Reasons
    BY DEF Reasons
  <2>3. /\ \A x : Excused(x) => Excused(x)'
        /\ \A x \in facts \cup Given : FactExists(x, b.facts) \/ Excused(x)'
        /\ \A x \in AllLogged : x \in ToSet(b.history) \/ Excused(x)'
    BY <1>1, <2>1, <2>2, MissingExcused
  <2>4. b.facts = F /\ b.history = h
    BY <1>3, <2>1
  <2> QED
    BY <2>3, <2>4
<1>10. \A v \in Workers : tools[v].given \subseteq Given
  <2> SUFFICES ASSUME NEW v \in Workers PROVE tools[v].given \subseteq Given
    OBVIOUS
  <2>1. tools[v].given \in {tools[w].given : w \in Workers}
    OBVIOUS
  <2> QED
    BY <2>1, Zenon
<1> HIDE DEF Given
<1>11. ASSUME NEW x \in facts \cup Given, FactExists(x, files.facts) \/ Excused(x)
       PROVE  FactExists(x, files'.facts) \/ Excused(x)'
  <2>1. CASE files' = files
    BY <1>9, <1>11, <2>1
  <2>2. CASE F = {}
    BY <1>9, <2>2, MoreFacts
  <2> QED
    BY <1>4, <2>1, <2>2
<1>12. FactInv'
  <2>1. FactsKept' /\ (Aware' => \A x \in facts' : FactExists(x, buffer'.facts) \/ Excused(x)')
    BY <1>0, <1>1, <1>3, <1>9, <1>11 DEF FactInv, FactsKept
  <2>2. ASSUME NEW v \in Workers, NEW x \in tools[v].given
        PROVE  /\ FactExists(x, buffer'.facts) \/ Excused(x)'
               /\ tools[v].todo = << >> => FactExists(x, files'.facts) \/ Excused(x)'
    BY <1>0, <1>3, <1>9, <1>10, <1>11, <2>2 DEF FactInv
  <2> QED
    BY <1>1, <2>1, <2>2 DEF FactInv
<1>13. LogInv'
  <2>1. files'.history = files.history
    BY <1>4
  <2>2. \A x \in AllLogged : InLog(x) \/ Excused(x) => InLog(x)' \/ Excused(x)'
    BY <1>3, <1>9, <2>1 DEF InLog
  <2>3. entries \subseteq AllLogged /\ \A v \in Workers : tools[v].logged \subseteq AllLogged
    BY KeptHas
  <2> QED
    BY <1>0, <1>1, <2>2, <2>3 DEF LogInv
<1> QED
  BY <1>6, <1>7, <1>8, <1>12, <1>13 DEF MemoryInv

\* Another program writes MEMORY.md: what it leaves out is meant to go.
LEMMA EditInv == ASSUME NEW F PROVE MemoryInv /\ EditFile(F) => MemoryInv'
<1> SUFFICES ASSUME MemoryInv, EditFile(F) PROVE MemoryInv'
  OBVIOUS
<1>0. MemoryTypes /\ RunInv /\ PromptInv /\ FreshInv /\ FactInv /\ LogInv
      /\ TextTypes /\ AgentTypes /\ ToolTypes
  BY DEF MemoryInv, MemoryTypes
<1>1. /\ buffer' = buffer /\ prompt' = prompt /\ agentAt' = agentAt /\ clock' = clock
      /\ entries' = entries /\ excused' = excused /\ facts' = facts \cap Known(F)
  BY DEF EditFile
<1>2. files' = [facts |-> F, stamp |-> clock, history |-> files.history]
  BY <1>0, TextFields DEF EditFile
<1>3. ASSUME NEW v \in Workers
      PROVE  /\ tools'[v].todo = tools[v].todo /\ tools'[v].req = tools[v].req
             /\ tools'[v].given \subseteq tools[v].given
             /\ tools[v].todo = << >> => tools'[v].given \subseteq Known(F)
             /\ tools'[v].logged = tools[v].logged /\ tools'[v].busy = tools[v].busy
             /\ tools'[v] = [todo |-> tools'[v].todo, req |-> tools'[v].req,
                             given |-> tools'[v].given, logged |-> tools'[v].logged,
                             busy |-> tools'[v].busy]
  <2>1. PICK K : /\ K = IF tools[v].todo = << >> THEN tools[v].given \cap Known(F)
                        ELSE tools[v].given
    OBVIOUS
  <2>2. tools'[v] = [tools[v] EXCEPT !.given = K]
    BY <2>1 DEF EditFile
  <2>3. tools'[v] = [todo |-> tools[v].todo, req |-> tools[v].req, given |-> K,
                     logged |-> tools[v].logged, busy |-> tools[v].busy]
    BY <1>0, <2>2, Trimmed
  <2>4. K \subseteq tools[v].given /\ (tools[v].todo = << >> => K \subseteq Known(F))
    BY <2>1
  <2> QED
    BY <2>3, <2>4
<1>4. ToolTypes'
  <2>1. tools' = [v \in Workers |-> tools'[v]]
    BY DEF EditFile
  <2> QED
    BY <1>3, <2>1 DEF ToolTypes
<1>5. RunInv'
  BY <1>0, <1>1, <1>3 DEF RunInv
<1>6. MemoryTypes'
  <2>1. TextTypes' /\ AgentTypes'
    BY <1>0, <1>1, <1>2 DEF TextTypes, AgentTypes
  <2> QED
    BY <1>4, <2>1 DEF MemoryTypes
<1>7. PromptInv'
  BY <1>0, <1>1 DEF PromptInv, PromptCurrent
<1>8. FreshInv'
  <2>1. clock # 0
    BY <1>0 DEF TextTypes
  <2> QED
    BY <1>0, <1>1, <1>2, <2>1 DEF FreshInv
<1>9. \A x : Excused(x) => Excused(x)'
  BY <1>1 DEF Excused
<1>10. \A x \in Known(F) : FactExists(x, files'.facts)
  BY <1>2, MoreFacts
<1>11. FactInv'
  <2>1. FactsKept' /\ (Aware' => \A x \in facts' : FactExists(x, buffer'.facts) \/ Excused(x)')
    BY <1>0, <1>1, <1>9, <1>10 DEF FactInv, FactsKept, Aware
  <2>2. ASSUME NEW v \in Workers, NEW x \in tools'[v].given
        PROVE  /\ FactExists(x, buffer'.facts) \/ Excused(x)'
               /\ tools'[v].todo = << >> => FactExists(x, files'.facts) \/ Excused(x)'
    BY <1>0, <1>1, <1>3, <1>9, <1>10, <2>2 DEF FactInv
  <2> QED
    BY <2>1, <2>2 DEF FactInv
<1>12. LogInv'
  <2>1. \A x : InLog(x) => InLog(x)'
    BY <1>1, <1>2 DEF InLog
  <2> QED
    BY <1>0, <1>1, <1>3, <1>9, <2>1 DEF LogInv
<1> QED
  BY <1>5, <1>6, <1>7, <1>8, <1>11, <1>12 DEF MemoryInv

\* A new process: what holds of it if the files have their fields and what was reported is in
\* them or excused.
LEMMA DeathInv ==
    ASSUME MemoryInv, Dies,
           files' = [facts |-> files'.facts, stamp |-> files'.stamp, history |-> files'.history],
           files'.history \in Seq(Line), files'.stamp \in Nat,
           files'.stamp = 0 => files'.facts = {},
           \A x \in facts : FactExists(x, files'.facts) \/ Excused(x)',
           \A x \in entries : x \in ToSet(files'.history) \/ Excused(x)'
    PROVE  MemoryInv'
<1>0. MemoryTypes /\ TextTypes
  BY DEF MemoryInv, MemoryTypes
<1>1. /\ buffer' = Fresh /\ prompt' = NoPrompt /\ agentAt' = AtRest
      /\ tools' = [w \in Workers |-> NoRun] /\ clock' = clock /\ facts' = facts
      /\ entries' = entries
  BY DEF Dies
<1>2. /\ \A w \in Workers : tools'[w] = NoRun
      /\ NoRun.todo = << >> /\ NoRun.given = {} /\ NoRun.logged = {} /\ ~NoRun.busy
  BY <1>1 DEF NoRun
<1>3. buffer' = [facts |-> {}, history |-> << >>, version |-> 1, read |-> FALSE]
  BY <1>1 DEF Fresh
<1>4. prompt'.stamp = 0 /\ prompt'.version = 0 /\ ~prompt'.made
  BY <1>1 DEF NoPrompt
<1>5. agentAt' = [pc |-> "idle", stamp |-> 0, version |-> 0]
  BY <1>1 DEF AtRest
<1>6. << >> \in Seq(Line) /\ Len(<< >>) = 0
  OBVIOUS
<1>7. TextTypes'
  BY <1>0, <1>1, <1>3, <1>6 DEF TextTypes
<1>8. AgentTypes'
  BY <1>4, <1>5 DEF AgentTypes
<1>9. ToolTypes'
  BY <1>1 DEF ToolTypes, NoRun
<1>10. RunInv'
  <2>1. << >> \in Todo /\ << >> \notin {<<"update", "save">>, <<"entry", "update", "save">>}
    BY DEF Todo, Rest
  <2> QED
    BY <1>2, <2>1 DEF RunInv
<1>11. PromptInv'
  BY <1>3, <1>4, <1>5 DEF PromptInv, PromptCurrent
<1>12. FreshInv'
  BY <1>3, <1>4, <1>6 DEF FreshInv
<1>13. FactInv'
  BY <1>1, <1>2, <1>3, <1>4, <1>5 DEF FactInv, FactsKept, Aware
<1>14. LogInv'
  BY <1>1, <1>2, <1>3 DEF LogInv, InLog
<1> QED
  BY <1>7, <1>8, <1>9, <1>10, <1>11, <1>12, <1>13, <1>14 DEF MemoryInv, MemoryTypes

\* The process dies, between two steps or in a save.
LEMMA DieInv == MemoryInv /\ (DieBetween \/ DieInSave) => MemoryInv'
<1>0. MemoryInv => TextTypes /\ FreshInv /\ FactInv /\ LogInv
  BY DEF MemoryInv, MemoryTypes
<1>1. ASSUME MemoryInv, DieBetween PROVE MemoryInv'
  <2>1. Dies /\ files' = files /\ excused' = excused
    BY <1>1 DEF DieBetween
  <2>2. \A x : Excused(x) => Excused(x)'
    BY <2>1 DEF Excused
  <2>3. \A x \in facts : FactExists(x, files'.facts) \/ Excused(x)'
    BY <1>0, <1>1, <2>1, <2>2 DEF FactInv, FactsKept
  <2>4. \A x \in entries : x \in ToSet(files'.history) \/ Excused(x)'
    BY <1>0, <1>1, <2>1, <2>2 DEF LogInv, InLog
  <2>5. /\ files' = [facts |-> files'.facts, stamp |-> files'.stamp, history |-> files'.history]
        /\ files'.history \in Seq(Line) /\ files'.stamp \in Nat
        /\ files'.stamp = 0 => files'.facts = {}
    BY <1>0, <1>1, <2>1 DEF TextTypes, FreshInv
  <2> QED
    BY <1>1, <2>1, <2>3, <2>4, <2>5, DeathInv
<1>2. ASSUME MemoryInv, DieInSave PROVE MemoryInv'
  <2>0. MemoryTypes /\ TextTypes /\ clock \in Nat /\ clock # 0 /\ FreshInv
    BY <1>2 DEF MemoryInv, MemoryTypes, TextTypes
  <2>1. PICK b \in BeingSaved : files' \in HalfWritten(b) \cup Written(b)
    BY <1>2 DEF DieInSave
  <2>2. b.history \in Seq(Line)
    <3>1. buffer.history \in Seq(Line)
      BY <2>0 DEF TextTypes
    <3>2. ConsolidatedText(buffer).history \in Seq(Line)
      <4>1. NewHistory(buffer.history) \in Seq(Line)
        BY <3>1, ShorterLog
      <4>2. ConsolidatedText(buffer).history = NewHistory(buffer.history)
        <5>1. PICK c : c = ConsolidatedText(buffer)
          OBVIOUS
        <5>2. c = [facts |-> Promoted(buffer.facts, OldPart(buffer.history)),
                   history |-> NewHistory(buffer.history), version |-> buffer.version + 1,
                   read |-> buffer.read]
          BY <2>0, <5>1, TextFields
        <5>3. c.history = NewHistory(buffer.history)
          BY <5>2
        <5> QED
          BY <5>1, <5>3
      <4> QED
        BY <4>1, <4>2
    <3>3. b = buffer \/ b = ConsolidatedText(buffer)
      BY DEF BeingSaved
    <3> QED
      BY <3>1, <3>2, <3>3
  <2>3. PICK f : f = files'
    OBVIOUS
  <2>4. /\ f = [facts |-> f.facts, stamp |-> f.stamp, history |-> f.history]
        /\ f.history \in Seq(Line) /\ f.stamp \in Nat
        /\ f = files \/ f.stamp = clock
    <3>1. f \in {files} \cup HalfWritten(b) \cup Written(b)
      BY <2>1, <2>3
    <3> QED
      BY <2>0, <2>2, <3>1, PartWritten
  <2>5. f.stamp = 0 => f.facts = {}
    BY <2>0, <2>4 DEF FreshInv
  <2>6. /\ \A x \in facts : FactExists(x, f.facts) \/ Excused(x)'
        /\ \A x \in entries : x \in ToSet(f.history) \/ Excused(x)'
    <3>1. excused' = excused \cup (Missing(facts, entries, f) \X {"torn"})
      BY <1>2, <2>3 DEF DieInSave
    <3>2. "torn" \in Reasons
      BY DEF Reasons
    <3> QED
      BY <3>1, <3>2, MissingExcused
  <2>7. Dies
    BY <1>2 DEF DieInSave
  <2> QED
    BY <1>2, <2>3, <2>4, <2>5, <2>6, <2>7, DeathInv
<1> QED
  BY <1>1, <1>2

-----------------------------------------------------------------------------
(* The invariant holds.                                                    *)

\* Nothing has been read or reported.
LEMMA MemoryInvInit == MemoryInit => MemoryInv
<1> SUFFICES ASSUME NEW there \in BOOLEAN, MemoryStart(there) PROVE MemoryInv
  BY DEF MemoryInit
<1>1. /\ files = [facts |-> {}, stamp |-> IF there THEN 1 ELSE 0, history |-> << >>]
      /\ buffer = [facts |-> {}, history |-> << >>, version |-> 1, read |-> FALSE]
      /\ agentAt = [pc |-> "idle", stamp |-> 0, version |-> 0]
      /\ tools = [w \in Workers |-> NoRun] /\ clock = 1
      /\ facts = {} /\ entries = {}
  BY DEF MemoryStart, Fresh, AtRest
<1>2. prompt.stamp = 0 /\ prompt.version = 0 /\ ~prompt.made
  BY DEF MemoryStart, NoPrompt
<1>3. /\ \A w \in Workers : tools[w] = NoRun
      /\ NoRun.todo = << >> /\ NoRun.given = {} /\ NoRun.logged = {} /\ ~NoRun.busy
  BY <1>1 DEF NoRun
<1>4. << >> \in Seq(Line) /\ Len(<< >>) = 0
  OBVIOUS
<1>5. TextTypes
  BY <1>1, <1>4 DEF TextTypes
<1>6. AgentTypes
  BY <1>1, <1>2 DEF AgentTypes
<1>7. ToolTypes
  BY <1>1 DEF ToolTypes, NoRun
<1>8. RunInv
  <2>1. << >> \in Todo /\ << >> \notin {<<"update", "save">>, <<"entry", "update", "save">>}
    BY DEF Todo, Rest
  <2> QED
    BY <1>3, <2>1 DEF RunInv
<1>9. PromptInv
  BY <1>1, <1>2 DEF PromptInv, PromptCurrent
<1>10. FreshInv
  BY <1>1, <1>2, <1>4 DEF FreshInv
<1>11. FactInv
  BY <1>1, <1>3 DEF FactInv, FactsKept
<1>12. LogInv
  BY <1>1, <1>3 DEF LogInv
<1> QED
  BY <1>5, <1>6, <1>7, <1>8, <1>9, <1>10, <1>11, <1>12 DEF MemoryInv, MemoryTypes

\* Every step keeps it.
LEMMA MemoryInvNext == MemoryInv /\ [MemoryNext]_memoryVars => MemoryInv'
<1> SUFFICES ASSUME MemoryInv, [MemoryNext]_memoryVars PROVE MemoryInv'
  OBVIOUS
<1>1. CASE UNCHANGED memoryVars
  <2>1. /\ files' = files /\ buffer' = buffer /\ prompt' = prompt /\ agentAt' = agentAt
        /\ tools' = tools /\ clock' = clock /\ facts' = facts /\ entries' = entries
        /\ excused' = excused
    BY <1>1 DEF memoryVars
  <2>2. MemoryTypes'
    BY <2>1 DEF MemoryInv, MemoryTypes, TextTypes, AgentTypes, ToolTypes
  <2>3. RunInv' /\ LogInv' /\ FactInv'
    BY <2>1, LookKeeps DEF OnlyLooks, Aware
  <2>4. PromptInv' /\ FreshInv'
    BY <2>1 DEF MemoryInv, PromptInv, PromptCurrent, FreshInv
  <2> QED
    BY <2>2, <2>3, <2>4 DEF MemoryInv
<1>2. ASSUME NEW w \in Workers, NEW r \in Requests, CallMemory(w, r) PROVE MemoryInv'
  BY <1>2, CallInv
<1>3. ASSUME NEW w \in Workers,
             \/ MemoryAddFact(w) \/ MemoryAppendHistory(w) \/ MemorySetFacts(w)
             \/ MemorySave(w) \/ Succeed(w)
      PROVE  MemoryInv'
  BY <1>3, AddFactInv, AppendInv, SetFactsInv, SaveInv, SucceedInv
<1>4. ASSUME NEW e \in LogEntries, AutoAppend(e) PROVE MemoryInv'
  BY <1>4, AutoAppendInv
<1>5. CASE \/ AutoConsolidate \/ BuildStat \/ MemoryLoad \/ MemoryLoadFails
           \/ GetVersion \/ BuildCopy
  BY <1>5, ConsolidateInv, StatInv, LoadInv, LoadFailsInv, VersionInv, CopyInv
<1>6. CASE SecondPasses \/ DieBetween \/ DieInSave
  BY <1>6, ClockInv, DieInv
<1>7. ASSUME NEW F \in Edits, EditFile(F) PROVE MemoryInv'
  BY <1>7, EditInv
<1> QED
  BY <1>1, <1>2, <1>3, <1>4, <1>5, <1>6, <1>7 DEF MemoryNext

\* What the memory tool reports as remembered is in MEMORY.md, and what it reports as logged
\* in HISTORY.md, until an update, an edit or a consolidation takes it out, and a prompt of the
\* current version has the current facts: for any number of runs at once, facts, entries,
\* consolidations, edits, deaths in or between saves, and opens, reads and writes that fail,
\* but for the losses that the code does not prevent and that Reasons lists.
THEOREM MemoryIsSafe == MemorySpec => []MemorySafe
<1>1. MemoryInv => MemorySafe
  BY DEF MemoryInv, PromptInv, FactInv, LogInv, InLog, MemorySafe, HistoryKept
<1> QED
  BY <1>1, MemoryInvInit, MemoryInvNext, PTL DEF MemorySpec

-----------------------------------------------------------------------------
(* The session and its file.                                               *)

\* The message that a line begins with, which is the one the reader may take from it.
First(i) == lines[i][1].msg

\* The line of a message that was written in one go.
Intact(e) == <<[msg |-> e, whole |-> TRUE]>>

\* Lines have a beginning, and only a file that is there can have some.
LineInv ==
    /\ \A i \in 1..Len(lines) : lines[i] # << >>
    /\ ~ended => lines # << >>
    /\ ~exists => lines = << >>
    /\ pc = "rename" => tmp = session.msgs /\ session.saved = Len(session.msgs)

\* Numbers grow along the session and along the file, and what is not yet saved is newer
\* than what the file has.
OrderInv ==
    /\ \A i, j \in 1..Len(session.msgs) : i < j => session.msgs[i].id < session.msgs[j].id
    /\ \A i \in 1..Len(session.msgs) : session.msgs[i].id <= added
    /\ \A i, j \in 1..Len(lines) : i < j => First(i).id < First(j).id
    /\ \A i \in 1..Len(lines) : First(i).id <= added
    /\ pc = "ready" =>
           \A i \in 1..Len(lines) : \A j \in session.saved + 1..Len(session.msgs) :
               First(i).id < session.msgs[j].id

\* As long as nothing went wrong the file is an initial part of the session, and has
\* what was reported to be saved.
CleanInv ==
    harm = {} =>
        /\ ended
        /\ Len(lines) <= session.saved
        /\ pc = "ready" /\ exists => Len(lines) = session.saved
        /\ \A i \in 1..Len(lines) : lines[i] = Intact(session.msgs[i])
        /\ \A i \in 1..Len(session.msgs) : session.msgs[i].size = "short"
        /\ \A r \in returned : \E i \in 1..Len(lines) : session.msgs[i].id = r

\* What parses is the first m messages of the session.
LoadsFirst(m) ==
    /\ m \in 0..Len(lines) /\ m <= Len(session.msgs)
    /\ \A i \in 1..Len(lines) : Parses(lines[i]) <=> i <= m
    /\ \A i \in 1..m : First(i) = session.msgs[i]

\* So it is after a crash that cut an append short, if nothing went wrong before.
CutInv ==
    /\ "cut" \in harm => crashes > 0
    /\ pc = "down" => crashes > 0
    /\ harm = {"cut"} /\ crashes = 1 /\ pc = "down" => \E m \in 0..Len(lines) : LoadsFirst(m)

SessionOf == [msgs : Seq(Entry), consolidated : Nat, saved : Nat, full : BOOLEAN]
StoreInv == StoreTypeOK /\ session \in SessionOf /\ LineInv /\ OrderInv /\ CleanInv /\ CutInv

\* A line begins with a message.
LEMMA Firsts ==
    ASSUME StoreTypeOK, LineInv
    PROVE  \A i \in 1..Len(lines) : First(i) \in Entry /\ First(i).id \in Nat
<1>1. ASSUME NEW i \in 1..Len(lines) PROVE First(i) \in Entry
  <2>1. lines[i] \in Seq(Piece) /\ lines[i] # << >>
    BY DEF LineInv, StoreTypeOK
  <2>2. lines[i][1] \in Piece
    BY <2>1
  <2> QED
    BY <2>2 DEF First, Piece
<1> QED
  BY <1>1 DEF Entry

\* What the loop over the lines computes, line by line.
LEMMA ReadLines ==
    ASSUME StoreTypeOK, LineInv
    PROVE  \E f \in [0..Len(lines) -> Seq(Entry)] :
               /\ f[0] = << >>
               /\ \A n \in 1..Len(lines) :
                      f[n] = IF Parses(lines[n]) THEN Append(f[n - 1], First(n)) ELSE f[n - 1]
               /\ Loaded = f[Len(lines)]
<1> DEFINE N == Len(lines)
           s == [i \in 1..N |-> First(i)]
           K == {i \in 1..N : Parses(lines[i])}
           Read(f) == [n \in 0..N |-> IF n = 0 THEN << >>
                                      ELSE IF Parses(lines[n])
                                           THEN Append(f[n - 1], lines[n][1].msg)
                                      ELSE f[n - 1]]
<1>1. N \in Nat /\ lines \in Seq(Seq(Piece))
  BY DEF StoreTypeOK
<1>2. \A i \in 1..N : First(i) \in Entry
  BY Firsts
<1>3. s \in Seq(Entry) /\ Len(s) = N
  BY <1>1, <1>2
<1>4. PICK f \in [0..N -> Seq(Entry)] :
          \A n \in 0..N : f[n] = IF n = 0 THEN << >>
                                 ELSE IF n \in K THEN Append(f[n - 1], s[n]) ELSE f[n - 1]
  <2> HIDE DEF K, N, s
  <2>1. K \in SUBSET (1..Len(s))
    BY <1>3 DEF K
  <2> QED
    BY <1>3, <2>1, Collection
<1>5. \A n \in 1..N : s[n] = lines[n][1].msg /\ (n \in K <=> Parses(lines[n]))
  BY DEF First
<1>6. f = Read(f)
  <2>1. \A n \in 0..N : n # 0 => n \in 1..N
    BY <1>1
  <2> HIDE DEF s, K, N
  <2>2. \A n \in 0..N : f[n] = IF n = 0 THEN << >>
                                ELSE IF Parses(lines[n]) THEN Append(f[n - 1], lines[n][1].msg)
                                ELSE f[n - 1]
    BY <1>4, <1>5, <2>1
  <2> QED
    BY <2>2
<1>7. \E g : g = Read(g) /\ Loaded = g[N]
  BY <1>6 DEF Loaded
<1>8. PICK g : g = Read(g) /\ Loaded = g[N]
  BY <1>7
<1>9. /\ g[0] = << >>
      /\ \A n \in 1..N : g[n] = IF Parses(lines[n]) THEN Append(g[n - 1], First(n)) ELSE g[n - 1]
  <2>1. 0 \in 0..N /\ \A n \in 1..N : n \in 0..N /\ n # 0
    BY <1>1
  <2>2. \A n \in 0..N : g[n] = IF n = 0 THEN << >>
                                ELSE IF Parses(lines[n]) THEN Append(g[n - 1], lines[n][1].msg)
                                ELSE g[n - 1]
    <3> HIDE DEF N
    <3> QED
      BY <1>8
  <2> QED
    BY <2>1, <2>2 DEF First
<1>10. \A n \in 0..N : g[n] \in Seq(Entry)
  <2> DEFINE Good == {n \in 0..N : g[n] \in Seq(Entry)}
  <2>1. 0 \in Good
    <3>1. 0 \in 0..N /\ << >> \in Seq(Entry)
      BY <1>1
    <3> QED
      BY <1>9, <3>1
  <2>2. ASSUME NEW n \in 1..N, n - 1 \in Good PROVE n \in Good
    <3>1. n \in 0..N
      BY <1>1
    <3>2. g[n - 1] \in Seq(Entry) /\ First(n) \in Entry
      BY <1>2, <2>2
    <3>3. g[n] = g[n - 1] \/ g[n] = Append(g[n - 1], First(n))
      BY <1>9
    <3>4. \A q \in Seq(Entry), e \in Entry : Append(q, e) \in Seq(Entry)
      OBVIOUS
    <3>5. g[n] \in Seq(Entry)
      BY <3>2, <3>3, <3>4
    <3> QED
      BY <3>1, <3>5
  <2> HIDE DEF Good
  <2>3. 0..N \subseteq Good
    BY <1>1, <2>1, <2>2, CountUp
  <2> QED
    BY <2>3 DEF Good
<1>11. g \in [0..N -> Seq(Entry)]
  <2>1. g = [n \in 0..N |-> g[n]]
    BY <1>8
  <2> QED
    BY <1>10, <2>1
<1> QED
  BY <1>8, <1>9, <1>11

\* The messages of a restart are messages of the file, in its order.
LEMMA LoadedFromFile ==
    ASSUME StoreTypeOK, LineInv, OrderInv
    PROVE  /\ Loaded \in Seq(Entry)
           /\ LoadedInOrder
           /\ \A i \in 1..Len(Loaded) : \E j \in 1..Len(lines) : Loaded[i] = First(j)
<1> DEFINE N == Len(lines)
<1>1. PICK f \in [0..N -> Seq(Entry)] :
          /\ f[0] = << >>
          /\ \A n \in 1..N :
                 f[n] = IF Parses(lines[n]) THEN Append(f[n - 1], First(n)) ELSE f[n - 1]
          /\ Loaded = f[N]
  BY ReadLines
<1>2. N \in Nat
  BY DEF StoreTypeOK
<1> DEFINE From(n) == \A i \in 1..Len(f[n]) : \E j \in 1..n : f[n][i] = First(j)
           Sorted(n) == \A i, j \in 1..Len(f[n]) : i < j => f[n][i].id < f[n][j].id
           Good == {n \in 0..N : From(n) /\ Sorted(n)}
<1>3. 0 \in Good
  BY <1>1, <1>2
<1>4. ASSUME NEW n \in 1..N, n - 1 \in Good PROVE n \in Good
  <2>0. /\ n - 1 \in 0..N /\ n \in 0..N
        /\ \A j \in 1..n - 1 : j \in 1..n /\ j \in 1..N /\ j < n
    BY <1>2
  <2>1. /\ n - 1 \in 0..N /\ n \in 0..N /\ f[n - 1] \in Seq(Entry) /\ f[n] \in Seq(Entry)
        /\ \A j \in 1..n - 1 : j \in 1..n /\ j \in 1..N /\ j < n
    BY <2>0
  <2>2. From(n - 1) /\ Sorted(n - 1)
    BY <1>4
  <2>3. CASE ~Parses(lines[n])
    <3>1. f[n] = f[n - 1]
      BY <1>1, <2>3
    <3>2. From(n) /\ Sorted(n)
      BY <2>1, <2>2, <3>1
    <3> QED
      BY <2>1, <3>2
  <2>4. CASE Parses(lines[n])
    <3> DEFINE a == f[n - 1]
               b == f[n]
               L == Len(a)
    <3>1. b = Append(a, First(n))
      BY <1>1, <2>4
    <3>2. /\ L \in Nat /\ Len(b) = L + 1 /\ b[L + 1] = First(n)
          /\ \A i \in 1..L : b[i] = a[i]
          /\ \A i \in 1..Len(b) : i \in 1..L \/ i = L + 1
      BY <2>1, <3>1
    <3>3. \A i \in 1..L : \E j \in 1..n - 1 : a[i] = First(j)
      BY <2>2
    <3>4. \A i \in 1..L : a[i].id < First(n).id
      BY <2>1, <3>3 DEF OrderInv
    <3>5. From(n)
      <4> HIDE DEF a, L
      <4>1. \A i \in 1..Len(b) : \E j \in 1..n : b[i] = First(j)
        <5>1. n \in 1..n
          BY <1>2
        <5> QED
          BY <2>1, <3>2, <3>3, <5>1
      <4> QED
        BY <4>1
    <3>6. Sorted(n)
      <4>1. \A i, j \in 1..L : i < j => a[i].id < a[j].id
        BY <2>2
      <4> HIDE DEF a, L
      <4>2. ASSUME NEW i \in 1..Len(b), NEW j \in 1..Len(b), i < j PROVE b[i].id < b[j].id
        <5>1. i \in 1..L
          BY <3>2, <4>2
        <5> QED
          BY <3>2, <3>4, <4>1, <4>2, <5>1
      <4> QED
        BY <4>2
    <3> QED
      BY <2>1, <3>5, <3>6
  <2> QED
    BY <2>3, <2>4
<1>5. N \in Good
  <2> HIDE DEF Good
  <2>1. 0..N \subseteq Good
    BY <1>2, <1>3, <1>4, CountUp
  <2> QED
    BY <1>2, <2>1
<1>6. From(N) /\ Sorted(N) /\ f[N] \in Seq(Entry)
  BY <1>2, <1>5
<1> QED
  BY <1>1, <1>6 DEF LoadedInOrder

\* If the lines that parse are the first m, a restart loads these.
LEMMA LoadedPrefix ==
    ASSUME StoreTypeOK, LineInv, NEW m \in 0..Len(lines),
           \A i \in 1..Len(lines) : Parses(lines[i]) <=> i <= m
    PROVE  Len(Loaded) = m /\ \A i \in 1..m : Loaded[i] = First(i)
<1> DEFINE N == Len(lines)
<1>1. PICK f \in [0..N -> Seq(Entry)] :
          /\ f[0] = << >>
          /\ \A n \in 1..N :
                 f[n] = IF Parses(lines[n]) THEN Append(f[n - 1], First(n)) ELSE f[n - 1]
          /\ Loaded = f[N]
  BY ReadLines
<1>2. N \in Nat /\ m \in 0..N
  BY DEF StoreTypeOK
<1> DEFINE Upto(n) == IF n <= m THEN n ELSE m
           Good == {n \in 0..N : /\ Len(f[n]) = Upto(n)
                                 /\ \A i \in 1..Upto(n) : f[n][i] = First(i)}
<1>3. 0 \in Good
  BY <1>1, <1>2
<1>4. ASSUME NEW n \in 1..N, n - 1 \in Good PROVE n \in Good
  <2>0. n - 1 \in 0..N /\ n \in 0..N /\ n \in Nat
    BY <1>2
  <2>1. /\ n - 1 \in 0..N /\ n \in 0..N /\ f[n - 1] \in Seq(Entry)
        /\ Parses(lines[n]) <=> n <= m
    BY <2>0
  <2>2. Len(f[n - 1]) = Upto(n - 1) /\ \A i \in 1..Upto(n - 1) : f[n - 1][i] = First(i)
    BY <1>4
  <2>3. CASE n <= m
    <3>1. Upto(n) = n /\ Upto(n - 1) = n - 1
      BY <1>2, <2>1, <2>3
    <3>2. f[n] = Append(f[n - 1], First(n))
      BY <1>1, <2>1, <2>3
    <3>3. /\ Len(f[n]) = n /\ f[n][n] = First(n)
          /\ \A i \in 1..n - 1 : f[n][i] = f[n - 1][i]
      BY <2>1, <2>2, <3>1, <3>2
    <3>4. \A i \in 1..n : i \in 1..n - 1 \/ i = n
      BY <1>2
    <3>5. \A i \in 1..n : f[n][i] = First(i)
      BY <2>2, <3>1, <3>3, <3>4
    <3> QED
      BY <2>1, <3>1, <3>3, <3>5
  <2>4. CASE n > m
    <3>1. Upto(n) = m /\ Upto(n - 1) = m
      BY <1>2, <2>1, <2>4
    <3>2. f[n] = f[n - 1]
      BY <1>1, <1>2, <2>1, <2>4
    <3> QED
      BY <2>1, <2>2, <3>1, <3>2
  <2> QED
    BY <1>2, <2>3, <2>4
<1>5. N \in Good
  <2> HIDE DEF Good
  <2>1. 0..N \subseteq Good
    BY <1>2, <1>3, <1>4, CountUp
  <2> QED
    BY <1>2, <2>1
<1>6. Upto(N) = m
  BY <1>2
<1>7. Len(f[N]) = m /\ \A i \in 1..m : f[N][i] = First(i)
  BY <1>5, <1>6
<1> QED
  BY <1>1, <1>7

-----------------------------------------------------------------------------
(* The steps.                                                              *)

\* At the start nothing is saved.
LEMMA StoreStart == StoreInit => StoreInv
<1> SUFFICES ASSUME StoreInit PROVE StoreInv
  OBVIOUS
<1>1. session \in SessionOf /\ session.msgs = << >> /\ session.saved = 0
  BY DEF StoreInit, NewSession, SessionOf
<1>2. StoreTypeOK
  <2>1. /\ << >> \in Seq(Entry) /\ << >> \in Seq(Seq(Piece)) /\ 0 \in 0..MaxMessages
        /\ << >> \in Seq(Nat)
        /\ 0 \in 0..MaxCrashes /\ Len(session.msgs) = 0 /\ 0 \in 0..0
    BY <1>1, StoreAssumption
  <2> QED
    BY <1>1, <2>1 DEF StoreInit, StoreTypeOK, SessionOf
<1>3. LineInv /\ OrderInv /\ CleanInv /\ CutInv
  BY <1>1 DEF StoreInit, LineInv, OrderInv, CleanInv, CutInv
<1> QED
  BY <1>1, <1>2, <1>3 DEF StoreInv

\* Messages have numbers.
LEMMA Numbers ==
    \A q \in Seq(Entry) : \A i \in 1..Len(q) :
        q[i] \in Entry /\ q[i].id \in Nat /\ q[i].id \in 0..MaxMessages
<1>1. \A e \in Entry : e.id \in Nat /\ e.id \in 0..MaxMessages
  BY DEF Entry
<1> QED
  BY <1>1

\* A line of one message that was written in one go.
LEMMA IntactLine ==
    \A e \in Entry : /\ Intact(e) \in Seq(Piece) /\ Intact(e) # << >>
                     /\ Intact(e)[1].msg = e /\ Intact(e)[1].whole = TRUE
<1> SUFFICES ASSUME NEW e \in Entry
             PROVE  /\ Intact(e) \in Seq(Piece) /\ Intact(e) # << >>
                    /\ Intact(e)[1].msg = e /\ Intact(e)[1].whole = TRUE
  OBVIOUS
<1> DEFINE p == [msg |-> e, whole |-> TRUE]
<1>1. p \in Piece /\ p.msg = e /\ p.whole = TRUE
  BY DEF Piece
<1> HIDE DEF p
<1>2. <<p>> \in Seq(Piece) /\ <<p>> # << >> /\ <<p>>[1] = p
  BY <1>1
<1> QED
  BY <1>1, <1>2 DEF Intact, p

\* A rewritten file has one line for each message.
LEMMA WholeLines ==
    ASSUME NEW q \in Seq(Entry)
    PROVE  /\ Whole(q) \in Seq(Seq(Piece)) /\ Len(Whole(q)) = Len(q)
           /\ \A i \in 1..Len(q) : Whole(q)[i] = Intact(q[i])
<1> DEFINE w == [i \in 1..Len(q) |-> Intact(q[i])]
<1>1. Whole(q) = w
  BY DEF Whole, Intact
<1>2. \A i \in 1..Len(q) : Intact(q[i]) \in Seq(Piece)
  BY Numbers, IntactLine
<1>3. w \in Seq(Seq(Piece)) /\ Len(w) = Len(q)
  BY <1>2
<1> QED
  BY <1>1, <1>3

\* A message is added, behind all that the file has.
LEMMA AddKeeps ==
    ASSUME StoreInv, NEW size \in Sizes, Add(size)
    PROVE  StoreInv'
<1> DEFINE e == [id |-> added + 1, size |-> size]
           m == session.msgs
           n == Len(session.msgs)
<1>1. /\ StoreTypeOK /\ session \in SessionOf /\ LineInv /\ OrderInv /\ CleanInv /\ CutInv
      /\ m \in Seq(Entry) /\ n \in Nat /\ added \in Nat /\ added + 1 <= MaxMessages
      /\ e \in Entry
  BY StoreAssumption DEF StoreInv, StoreTypeOK, Add, Entry
<1>2. /\ session' \in SessionOf /\ session'.msgs = Append(m, e)
      /\ session'.saved = session.saved /\ session'.consolidated = session.consolidated
  <2> HIDE DEF e
  <2> DEFINE q == Append(m, e)
  <2>1. session' = [session EXCEPT !.msgs = q]
    BY DEF Add, AddMessage, e
  <2>2. q \in Seq(Entry)
    BY <1>1
  <2> HIDE DEF q
  <2>3. /\ session' \in SessionOf /\ session'.msgs = q
        /\ session'.saved = session.saved /\ session'.consolidated = session.consolidated
    BY <1>1, <2>1, <2>2 DEF SessionOf
  <2> QED
    BY <2>3 DEF q
<1>3. /\ Len(session'.msgs) = n + 1 /\ session'.msgs[n + 1] = e
      /\ \A i \in 1..n : session'.msgs[i] = m[i]
      /\ \A i \in 1..n + 1 : i \in 1..n \/ i = n + 1
  <2> HIDE DEF e
  <2> QED
    BY <1>1, <1>2
<1>4. StoreTypeOK'
  <2>1. session'.msgs \in Seq(Entry) /\ session'.saved \in 0..n + 1
    BY <1>1, <1>2 DEF StoreTypeOK, SessionOf
  <2>2. added' \in 0..MaxMessages /\ harm' \subseteq Harms
    BY <1>1 DEF StoreTypeOK, Add
  <2> QED
    BY <1>1, <1>2, <1>3, <2>1, <2>2 DEF StoreTypeOK, Add
<1>5. LineInv'
  BY <1>1 DEF LineInv, Add
<1>6. OrderInv'
  <2>1. e.id = added + 1 /\ added' = added + 1 /\ lines' = lines
    BY DEF Add
  <2>2. /\ \A i \in 1..n : m[i].id \in Nat /\ m[i].id <= added
        /\ \A i \in 1..Len(lines) : First(i).id <= added
    BY <1>1, Numbers DEF OrderInv
  <2> HIDE DEF e
  <2>3. ASSUME NEW i \in 1..n + 1, NEW j \in 1..n + 1, i < j
        PROVE  session'.msgs[i].id < session'.msgs[j].id
    <3>1. i \in 1..n /\ session'.msgs[i] = m[i] /\ m[i].id <= added /\ m[i].id \in Nat
      BY <1>1, <1>3, <2>2, <2>3
    <3>2. CASE j \in 1..n
      BY <1>1, <1>3, <2>3, <3>1, <3>2 DEF OrderInv
    <3>3. CASE j = n + 1
      BY <1>1, <1>3, <2>1, <3>1, <3>3
    <3> QED
      BY <1>3, <3>2, <3>3
  <2>4. \A i \in 1..n + 1 : session'.msgs[i].id <= added'
    <3> SUFFICES ASSUME NEW i \in 1..n + 1 PROVE session'.msgs[i].id <= added'
      OBVIOUS
    <3>1. added \in Nat /\ n \in Nat
      BY <1>1
    <3>2. CASE i \in 1..n
      <4>1. session'.msgs[i] = m[i] /\ m[i].id \in Nat /\ m[i].id <= added
        BY <1>3, <2>2, <3>2
      <4> QED
        BY <2>1, <3>1, <4>1
    <3>3. CASE i = n + 1
      <4>1. session'.msgs[i].id = added + 1
        BY <1>3, <2>1, <3>3
      <4> QED
        BY <2>1, <3>1, <4>1
    <3> QED
      BY <3>1, <3>2, <3>3
  <2>5. \A i \in 1..Len(lines) : First(i).id \in Nat
    BY <1>1, Firsts
  <2>6. \A i \in 1..Len(lines) : First(i).id <= added'
    BY <1>1, <2>1, <2>2, <2>5
  <2>7. ASSUME NEW i \in 1..Len(lines), NEW j \in session.saved + 1..n + 1
        PROVE  First(i).id < session'.msgs[j].id
    <3>1. session.saved \in Nat
      BY <1>1 DEF SessionOf
    <3>2. CASE j = n + 1
      BY <1>1, <1>3, <2>1, <2>2, <2>5, <3>2
    <3>3. CASE j # n + 1
      <4>1. j \in session.saved + 1..n /\ j \in 1..n
        BY <1>1, <3>1, <3>3
      <4> QED
        BY <1>1, <1>3, <4>1 DEF OrderInv, Add
    <3> QED
      BY <3>2, <3>3
  <2> QED
    BY <1>1, <1>2, <1>3, <2>1, <2>3, <2>4, <2>6, <2>7 DEF OrderInv, Add, First
<1>7. CleanInv'
  <2> SUFFICES ASSUME harm' = {} PROVE CleanInv!2'
    BY DEF CleanInv
  <2>1. harm = {} /\ size = "short"
    BY StoreAssumption DEF Add
  <2>2. /\ UNCHANGED <<ended, lines, pc, exists, returned>> /\ e.size = "short"
    BY <2>1 DEF Add
  <2> HIDE DEF e
  <2>3. \A i \in 1..n + 1 : session'.msgs[i].size = "short"
    BY <1>1, <1>3, <2>1, <2>2 DEF CleanInv
  <2>4. Len(lines) <= n
    BY <1>1, <2>1 DEF CleanInv, StoreTypeOK
  <2>5. \A i \in 1..Len(lines) : session'.msgs[i] = m[i]
    <3>1. \A i \in 1..Len(lines) : i \in 1..n
      BY <1>1, <2>4 DEF StoreTypeOK
    <3> QED
      BY <1>3, <3>1
  <2> QED
    BY <1>1, <1>2, <1>3, <2>1, <2>2, <2>3, <2>5 DEF CleanInv
<1>8. CutInv'
  BY <1>1 DEF CutInv, Add
<1> QED
  BY <1>2, <1>4, <1>5, <1>6, <1>7, <1>8 DEF StoreInv

\* Rollback drops messages that the file does not have.
LEMMA RollbackKeeps ==
    ASSUME StoreInv, NEW n \in 0..MaxMessages, Rollback(n)
    PROVE  StoreInv'
<1> DEFINE m == session.msgs
           q == SubSeq(m, 1, n)
           c == Clamp(session.consolidated, n)
<1>1. /\ StoreTypeOK /\ session \in SessionOf /\ LineInv /\ OrderInv /\ CleanInv /\ CutInv
      /\ m \in Seq(Entry) /\ Len(m) \in Nat /\ n \in Nat /\ session.saved \in Nat
      /\ session.saved <= n /\ n < Len(m) /\ session.consolidated \in Nat /\ pc = "ready"
  BY StoreAssumption DEF StoreInv, StoreTypeOK, SessionOf, Rollback
<1>2. /\ q \in Seq(Entry) /\ Len(q) = n /\ \A i \in 1..n : q[i] = m[i] /\ i \in 1..Len(m)
      /\ c \in Nat
  BY <1>1 DEF Clamp
<1>3. /\ session' \in SessionOf /\ session'.msgs = q /\ session'.saved = session.saved
      /\ session'.consolidated \in Nat
  <2>1. Clamp(session.saved, n) = session.saved
    BY <1>1 DEF Clamp
  <2>2. session' = [session EXCEPT !.msgs = q, !.saved = session.saved, !.consolidated = c]
    <3>1. ~(n >= Len(m))
      BY <1>1
    <3> QED
      BY <2>1, <3>1 DEF Rollback, RollbackMessages
  <2> HIDE DEF q, c
  <2> QED
    BY <1>1, <1>2, <2>2 DEF SessionOf
<1> HIDE DEF q
<1>4. UNCHANGED <<exists, lines, ended, meta, pc, tmp, added, crashes, returned, harm>>
  BY DEF Rollback
<1>5. StoreTypeOK'
  BY <1>1, <1>2, <1>3, <1>4 DEF StoreTypeOK
<1>6. LineInv'
  BY <1>1, <1>4 DEF LineInv
<1>7. OrderInv'
  <2>1. \A j \in session.saved + 1..n : j \in session.saved + 1..Len(m) /\ j \in 1..n
    BY <1>1
  <2>2. /\ \A i, j \in 1..n : i < j => q[i].id < q[j].id
        /\ \A i \in 1..n : q[i].id <= added
        /\ \A i \in 1..Len(lines) : \A j \in session.saved + 1..n : First(i).id < q[j].id
    BY <1>1, <1>2, <2>1 DEF OrderInv
  <2> QED
    BY <1>1, <1>2, <1>3, <1>4, <2>2 DEF OrderInv, First
<1>8. CleanInv'
  <2>1. ASSUME harm = {}
        PROVE  /\ \A i \in 1..Len(lines) : i \in 1..n /\ q[i] = m[i]
               /\ \A i \in 1..n : q[i].size = "short"
    <3>1. Len(lines) <= n
      BY <1>1, <2>1 DEF CleanInv, StoreTypeOK
    <3>2. \A i \in 1..Len(lines) : i \in 1..n
      BY <1>1, <3>1 DEF StoreTypeOK
    <3> QED
      BY <1>1, <1>2, <2>1, <3>2 DEF CleanInv
  <2> QED
    BY <1>1, <1>2, <1>3, <1>4, <2>1 DEF CleanInv
<1>9. CutInv'
  BY <1>1, <1>4 DEF CutInv
<1> QED
  BY <1>3, <1>5, <1>6, <1>7, <1>8, <1>9 DEF StoreInv

\* The file and the messages stay; only marks change.
LEMMA MarksKeep ==
    ASSUME StoreInv, Consolidate \/ Rewrite \/ RenameFails \/ Crash
    PROVE  StoreInv'
<1>1. /\ StoreTypeOK /\ session \in SessionOf /\ LineInv /\ OrderInv /\ CleanInv /\ CutInv
      /\ Len(session.msgs) \in Nat /\ session.saved \in 0..Len(session.msgs)
      /\ session.msgs \in Seq(Entry)
  BY DEF StoreInv, StoreTypeOK
<1>2. UNCHANGED <<exists, lines, ended, meta, added, returned>>
  BY DEF Consolidate, Rewrite, RenameFails, Crash
<1>3. CASE Consolidate
  <2>1. /\ session' \in SessionOf /\ session'.msgs = session.msgs
        /\ session'.saved = session.saved
    BY <1>1, <1>3 DEF Consolidate, Consolidated, SessionOf
  <2>2. UNCHANGED <<pc, tmp, crashes, harm>> /\ pc = "ready"
    BY <1>3 DEF Consolidate
  <2>3. StoreTypeOK' /\ LineInv' /\ OrderInv'
    BY <1>1, <1>2, <2>1, <2>2 DEF StoreTypeOK, LineInv, OrderInv, First, SessionOf
  <2>4. CleanInv' /\ CutInv'
    BY <1>1, <1>2, <2>1, <2>2 DEF CleanInv, CutInv
  <2> QED
    BY <2>1, <2>3, <2>4 DEF StoreInv
<1>4. CASE Rewrite
  <2> DEFINE b == IF NeedsFullSave(session, TheFile) THEN FALSE ELSE session.full
  <2>1. /\ session' \in SessionOf /\ session'.msgs = session.msgs
        /\ session'.saved = Len(session.msgs)
    <3>1. session' = [session EXCEPT !.saved = Len(session.msgs), !.full = b]
      BY <1>4 DEF Rewrite, SessionAfterSave
    <3>2. b \in BOOLEAN
      BY <1>1 DEF SessionOf
    <3> HIDE DEF b
    <3> QED
      BY <1>1, <3>1, <3>2 DEF SessionOf
  <2>2. UNCHANGED <<crashes, harm>> /\ pc' = "rename" /\ tmp' = session.msgs
    BY <1>4 DEF Rewrite
  <2>3. StoreTypeOK' /\ LineInv' /\ OrderInv'
    BY <1>1, <1>2, <2>1, <2>2 DEF StoreTypeOK, LineInv, OrderInv, First, SessionOf
  <2>4. CleanInv'
    <3>1. harm = {} => Len(lines) <= Len(session.msgs)
      BY <1>1 DEF CleanInv, StoreTypeOK
    <3> QED
      BY <1>1, <1>2, <2>1, <2>2, <3>1 DEF CleanInv
  <2>5. CutInv'
    BY <1>1, <2>2 DEF CutInv
  <2> QED
    BY <2>1, <2>3, <2>4, <2>5 DEF StoreInv
<1>5. CASE RenameFails
  <2>1. /\ UNCHANGED <<session, crashes>> /\ pc = "rename" /\ pc' = "ready" /\ tmp' = << >>
        /\ harm' = harm \cup {"rename"}
    BY <1>5 DEF RenameFails
  <2>2. StoreTypeOK' /\ LineInv'
    BY <1>1, <1>2, <2>1 DEF StoreTypeOK, LineInv, Harms
  <2>3. OrderInv'
    <3>1. session.saved + 1..Len(session.msgs) = {}
      BY <1>1, <2>1 DEF LineInv
    <3> QED
      BY <1>1, <1>2, <2>1, <3>1 DEF OrderInv, First
  <2>4. CleanInv' /\ CutInv'
    BY <1>1, <1>2, <2>1 DEF CleanInv, CutInv
  <2> QED
    BY <1>1, <2>1, <2>2, <2>3, <2>4 DEF StoreInv
<1>6. CASE Crash
  <2>1. /\ UNCHANGED <<session, harm>> /\ pc # "down" /\ pc' = "down" /\ tmp' = << >>
        /\ crashes' = crashes + 1 /\ crashes < MaxCrashes
    BY <1>6 DEF Crash
  <2>2. crashes \in Nat /\ crashes' \in 0..MaxCrashes /\ crashes' > 0
    BY <1>1, <2>1, StoreAssumption DEF StoreTypeOK
  <2>3. StoreTypeOK' /\ LineInv'
    BY <1>1, <1>2, <2>1, <2>2 DEF StoreTypeOK, LineInv
  <2>4. OrderInv' /\ CleanInv'
    BY <1>1, <1>2, <2>1 DEF OrderInv, CleanInv, First
  <2>5. CutInv'
    <3>1. crashes' = 1 => crashes = 0
      BY <2>1, <2>2
    <3>2. ~(crashes > 0) => "cut" \notin harm
      BY <1>1 DEF CutInv
    <3>3. ~(harm' = {"cut"} /\ crashes' = 1)
      BY <2>1, <3>1, <3>2
    <3> QED
      BY <2>2, <3>3 DEF CutInv
  <2> QED
    BY <1>1, <2>1, <2>3, <2>4, <2>5 DEF StoreInv
<1> QED
  BY <1>3, <1>4, <1>5, <1>6

\* The file becomes what was in memory when the rewrite began.
LEMMA RenameKeeps ==
    ASSUME StoreInv, Rename
    PROVE  StoreInv'
<1> DEFINE m == session.msgs
<1>1. /\ StoreTypeOK /\ session \in SessionOf /\ LineInv /\ OrderInv /\ CleanInv /\ CutInv
      /\ tmp = m /\ session.saved = Len(m) /\ m \in Seq(Entry) /\ Len(m) \in Nat
  BY DEF StoreInv, StoreTypeOK, LineInv, Rename
<1>2. /\ exists' = TRUE /\ ended' = TRUE /\ meta' = <<session.consolidated>> /\ pc' = "ready"
      /\ tmp' = << >> /\ returned' = returned \cup {m[i].id : i \in 1..Len(m)}
      /\ lines' = Whole(m) /\ UNCHANGED <<session, added, crashes, harm>>
  BY <1>1 DEF Rename, Reported
<1>3. /\ lines' \in Seq(Seq(Piece)) /\ Len(lines') = Len(m)
      /\ \A i \in 1..Len(m) : lines'[i] = Intact(m[i])
  BY <1>1, <1>2, WholeLines
<1>4. \A i \in 1..Len(m) : lines'[i][1].msg = m[i] /\ lines'[i] # << >>
  BY <1>1, <1>3, Numbers, IntactLine
<1>5. StoreTypeOK'
  <2>1. returned' \subseteq 0..MaxMessages
    <3>1. \A i \in 1..Len(m) : m[i].id \in 0..MaxMessages
      BY <1>1, Numbers
    <3> QED
      BY <1>1, <1>2, <3>1 DEF StoreTypeOK
  <2>2. meta' \in Seq(Nat)
    BY <1>1, <1>2 DEF StoreTypeOK
  <2> QED
    BY <1>1, <1>2, <1>3, <2>1, <2>2 DEF StoreTypeOK
<1>6. LineInv'
  BY <1>2, <1>3, <1>4 DEF LineInv
<1>7. OrderInv'
  <2>1. session.saved + 1..Len(m) = {}
    BY <1>1
  <2>2. /\ \A i \in 1..Len(lines') : lines'[i][1].msg = m[i]
        /\ session'.msgs = m /\ added' = added /\ Len(lines') = Len(m)
        /\ session'.saved = session.saved
    BY <1>2, <1>3, <1>4
  <2> QED
    BY <1>1, <2>1, <2>2 DEF OrderInv, First
<1>8. CleanInv'
  <2> SUFFICES ASSUME harm = {} PROVE CleanInv!2'
    BY <1>2 DEF CleanInv
  <2>1. \A i \in 1..Len(lines) : i \in 1..Len(m)
    BY <1>1 DEF CleanInv, StoreTypeOK
  <2>2. \A r \in returned' : \E i \in 1..Len(m) : m[i].id = r
    BY <1>1, <1>2, <2>1 DEF CleanInv
  <2>3. /\ session' = session /\ Len(lines') = Len(m) /\ pc' = "ready" /\ ended' = TRUE
        /\ session'.saved = Len(m)
    BY <1>1, <1>2, <1>3
  <2>4. /\ \A i \in 1..Len(m) : lines'[i] = Intact(session'.msgs[i])
        /\ \A i \in 1..Len(m) : session'.msgs[i].size = "short"
    BY <1>1, <1>3, <2>3 DEF CleanInv
  <2> QED
    BY <1>1, <2>2, <2>3, <2>4
<1>9. CutInv'
  BY <1>1, <1>2 DEF CutInv
<1> QED
  BY <1>1, <1>2, <1>5, <1>6, <1>7, <1>8, <1>9 DEF StoreInv

\* What continues a sequence leaves its first element.
LEMMA JoinedFirst ==
    ASSUME NEW S, NEW s \in Seq(S), NEW t \in Seq(S), s # << >>
    PROVE  s \o t \in Seq(S) /\ s \o t # << >> /\ (s \o t)[1] = s[1]
<1>1. Len(s) \in Nat \ {0} /\ Len(t) \in Nat
  BY EmptySeq
<1>2. /\ Len(s \o t) = Len(s) + Len(t) /\ s \o t \in Seq(S)
      /\ \A i \in 1..Len(s) + Len(t) : (s \o t)[i] = IF i <= Len(s) THEN s[i] ELSE t[i - Len(s)]
  BY ConcatProperties
<1>3. 1 \in 1..Len(s) + Len(t) /\ 1 <= Len(s) /\ Len(s) + Len(t) # 0
  BY <1>1
<1>4. s \o t # << >>
  BY <1>2, <1>3
<1> QED
  BY <1>2, <1>3, <1>4

\* Lines written to the end of the file: each is added, or the first one continues the
\* last line of the file.
LEMMA ContinuedLines ==
    ASSUME StoreTypeOK, LineInv, NEW new \in Seq(Seq(Piece)),
           \A i \in 1..Len(new) : new[i] # << >>
    PROVE  LET all == Continued(new)
               d == IF ended \/ new = << >> THEN 0 ELSE 1
           IN  /\ all \in Seq(Seq(Piece)) /\ Len(all) = Len(lines) + Len(new) - d
               /\ ended => all = lines \o new
               /\ \A i \in 1..Len(all) : all[i] # << >>
               /\ \A i \in 1..Len(lines) : all[i][1] = lines[i][1] /\ i \in 1..Len(all)
               /\ \A i \in 1..Len(all) :
                      i \in 1..Len(lines)
                      \/ /\ i - Len(lines) + d \in 1..Len(new)
                         /\ all[i] = new[i - Len(lines) + d]
<1> DEFINE P == Seq(Piece)
           all == Continued(new)
           d == IF ended \/ new = << >> THEN 0 ELSE 1
           n == Len(lines)
           Claim == /\ all \in Seq(P) /\ Len(all) = n + Len(new) - d
                    /\ ended => all = lines \o new
                    /\ \A i \in 1..Len(all) : all[i] # << >>
                    /\ \A i \in 1..n : all[i][1] = lines[i][1] /\ i \in 1..Len(all)
                    /\ \A i \in 1..Len(all) :
                           i \in 1..n \/ (i - n + d \in 1..Len(new) /\ all[i] = new[i - n + d])
<1> SUFFICES Claim
  OBVIOUS
<1>1. /\ lines \in Seq(P) /\ new \in Seq(P) /\ n \in Nat /\ Len(new) \in Nat
      /\ \A i \in 1..n : lines[i] # << >>
      /\ ended \in BOOLEAN
  BY DEF StoreTypeOK, LineInv
<1>2. CASE ended \/ new = << >>
  <2>1. all = lines \o new /\ d = 0
    BY <1>2 DEF Continued
  <2> HIDE DEF P, all, d
  <2>2. /\ all \in Seq(P) /\ Len(all) = n + Len(new)
        /\ \A i \in 1..n + Len(new) : all[i] = IF i <= n THEN lines[i] ELSE new[i - n]
    BY <1>1, <2>1, ConcatProperties
  <2>3. \A i \in 1..n + Len(new) : i \in 1..n \/ (i - n \in 1..Len(new) /\ ~(i <= n))
    BY <1>1
  <2>4. \A i \in 1..n : i \in 1..n + Len(new) /\ i <= n
    BY <1>1
  <2>5. \A i \in 1..Len(all) : i \in 1..n \/ (i - n + d \in 1..Len(new) /\ all[i] = new[i - n + d])
    <3>1. \A i \in 1..n + Len(new) : i - n + d = i - n
      BY <1>1, <2>1
    <3> QED
      BY <2>2, <2>3, <3>1
  <2>6. \A i \in 1..n : all[i] = lines[i]
    BY <2>2, <2>4
  <2>7. \A i \in 1..Len(all) : all[i] # << >>
    BY <1>1, <2>1, <2>2, <2>3, <2>6
  <2> QED
    BY <1>1, <2>1, <2>2, <2>4, <2>5, <2>6, <2>7
<1>3. CASE ~ended /\ new # << >>
  <2> DEFINE last == lines[n] \o new[1]
             a == [lines EXCEPT ![n] = last]
             b == Tail(new)
  <2>1. all = a \o b /\ d = 1
    BY <1>3 DEF Continued
  <2>2. n \in 1..n /\ 1 \in 1..Len(new)
    BY <1>1, <1>3 DEF LineInv
  <2>3. lines[n] \in Seq(Piece) /\ new[1] \in Seq(Piece) /\ lines[n] # << >>
    BY <1>1, <2>2
  <2>4. last \in P /\ last # << >> /\ last[1] = lines[n][1]
    BY <2>3, JoinedFirst
  <2>5. Len(lines[n]) \in Nat
    BY <2>3
  <2> HIDE DEF P, all, d, last
  <2>6. /\ a \in Seq(P) /\ Len(a) = n /\ a[n] = last
        /\ \A i \in 1..n : i # n => a[i] = lines[i]
    BY <1>1, <2>2, <2>4
  <2>7. b \in Seq(P) /\ Len(b) = Len(new) - 1 /\ \A i \in 1..Len(b) : b[i] = new[i + 1]
    BY <1>1, <1>3, HeadTailProperties
  <2> HIDE DEF a, b
  <2>8. /\ all \in Seq(P) /\ Len(all) = n + Len(b)
        /\ \A i \in 1..n + Len(b) : all[i] = IF i <= n THEN a[i] ELSE b[i - n]
    <3>1. /\ a \o b \in Seq(P) /\ Len(a \o b) = Len(a) + Len(b)
          /\ \A i \in 1..Len(a) + Len(b) : (a \o b)[i] = IF i <= Len(a) THEN a[i] ELSE b[i - Len(a)]
      <4>1. \A s, t \in Seq(P) :
               /\ s \o t \in Seq(P) /\ Len(s \o t) = Len(s) + Len(t)
               /\ \A i \in 1..Len(s) + Len(t) :
                      (s \o t)[i] = IF i <= Len(s) THEN s[i] ELSE t[i - Len(s)]
        BY ConcatProperties
      <4> QED
        BY <2>6, <2>7, <4>1
    <3> QED
      BY <2>1, <2>6, <3>1
  <2>9. \A i \in 1..n + Len(b) : i \in 1..n \/ (i - n \in 1..Len(b) /\ ~(i <= n))
    BY <1>1, <2>7
  <2>10. \A i \in 1..n : i \in 1..n + Len(b) /\ i <= n
    BY <1>1, <2>7
  <2>11. \A i \in 1..n : all[i] = a[i]
    BY <2>8, <2>10
  <2>12. \A i \in 1..n : all[i][1] = lines[i][1] /\ all[i] # << >>
    BY <1>1, <2>4, <2>6, <2>11
  <2>13. ASSUME NEW i \in 1..n + Len(b), i \notin 1..n
         PROVE  i - n + d \in 1..Len(new) /\ all[i] = new[i - n + d]
    <3>1. i - n \in 1..Len(b) /\ ~(i <= n) /\ i - n + d = (i - n) + 1
      BY <1>1, <2>1, <2>7, <2>9, <2>13
    <3>2. all[i] = b[i - n] /\ b[i - n] = new[(i - n) + 1]
      BY <2>7, <2>8, <3>1
    <3>3. (i - n) + 1 \in 1..Len(new)
      BY <1>1, <2>7, <3>1
    <3> QED
      BY <3>1, <3>2, <3>3
  <2>14. \A i \in 1..Len(all) : all[i] # << >>
    BY <2>8, <2>12, <2>13
  <2>15. Len(all) = n + Len(new) - d
    BY <1>1, <2>1, <2>7, <2>8
  <2>16. ~ended
    BY <1>3
  <2> QED
    BY <2>8, <2>10, <2>12, <2>13, <2>14, <2>15, <2>16
<1> QED
  BY <1>1, <1>2, <1>3

\* Lines that begin with the next unsaved messages, in their order.
NewLines(new) ==
    /\ new \in Seq(Seq(Piece)) /\ session.saved + Len(new) <= Len(session.msgs)
    /\ \A i \in 1..Len(new) :
           new[i] # << >> /\ new[i][1].msg = session.msgs[session.saved + i]

\* Such lines keep the file in order, however the last line of it ended.
LEMMA OrderAfterAppend ==
    ASSUME StoreInv, pc = "ready", NEW new, NewLines(new), lines' = Continued(new)
    PROVE  /\ lines' \in Seq(Seq(Piece)) /\ \A i \in 1..Len(lines') : lines'[i] # << >>
           /\ \A i, j \in 1..Len(lines') : i < j => First(i)'.id < First(j)'.id
           /\ \A i \in 1..Len(lines') : First(i)'.id <= added
           /\ Len(lines') >= Len(lines)
<1> DEFINE m == session.msgs
           n == Len(lines)
           d == IF ended \/ new = << >> THEN 0 ELSE 1
           at(i) == session.saved + (i - n + d)
<1>1. /\ StoreTypeOK /\ LineInv /\ OrderInv /\ n \in Nat /\ session.saved \in Nat
      /\ new \in Seq(Seq(Piece)) /\ Len(new) \in Nat /\ m \in Seq(Entry) /\ Len(m) \in Nat
      /\ session.saved + Len(new) <= Len(m) /\ d \in {0, 1} /\ added \in Nat
  BY DEF StoreInv, StoreTypeOK, NewLines
<1>2. /\ lines' \in Seq(Seq(Piece)) /\ \A i \in 1..Len(lines') : lines'[i] # << >>
      /\ \A i \in 1..n : lines'[i][1] = lines[i][1] /\ i \in 1..Len(lines')
      /\ \A i \in 1..Len(lines') :
             i \in 1..n \/ (i - n + d \in 1..Len(new) /\ lines'[i] = new[i - n + d])
      /\ Len(lines') = n + Len(new) - d
  BY <1>1, ContinuedLines DEF NewLines
<1> HIDE DEF d
<1>3. \A i \in 1..n : First(i)' = First(i) /\ First(i).id \in Nat /\ First(i).id <= added
  BY <1>1, <1>2, Firsts DEF First, OrderInv
<1>4. ASSUME NEW i \in 1..Len(lines'), i \notin 1..n
      PROVE  /\ at(i) \in session.saved + 1..Len(m) /\ at(i) \in 1..Len(m)
             /\ First(i)' = m[at(i)] /\ m[at(i)].id \in Nat /\ m[at(i)].id <= added
             /\ i > n
  <2>1. i - n + d \in 1..Len(new) /\ lines'[i] = new[i - n + d] /\ i \in Nat
    BY <1>2, <1>4
  <2>2. First(i)' = m[at(i)]
    BY <2>1 DEF NewLines, First
  <2>3. at(i) \in session.saved + 1..Len(m) /\ at(i) \in 1..Len(m) /\ i > n
    <3>1. i > n
      BY <1>1, <1>4, <2>1
    <3>2. \A x \in 1..Len(new) : /\ session.saved + x \in session.saved + 1..Len(m)
                                 /\ session.saved + x \in 1..Len(m)
      BY <1>1
    <3> QED
      BY <2>1, <3>1, <3>2
  <2> QED
    BY <1>1, <2>2, <2>3, Numbers DEF OrderInv
<1>5. ASSUME NEW i \in 1..Len(lines'), NEW j \in 1..Len(lines'), i < j
      PROVE  First(i)'.id < First(j)'.id
  <2>1. CASE i \in 1..n /\ j \in 1..n
    BY <1>1, <1>3, <1>5, <2>1 DEF OrderInv
  <2>2. CASE i \in 1..n /\ j \notin 1..n
    BY <1>1, <1>3, <1>4, <2>2 DEF OrderInv
  <2>3. CASE i \notin 1..n
    <3>1. j \notin 1..n
      BY <1>1, <1>4, <1>5, <2>3
    <3>2. at(i) < at(j)
      BY <1>1, <1>5
    <3> HIDE DEF at
    <3> QED
      BY <1>1, <1>4, <2>3, <3>1, <3>2 DEF OrderInv
  <2> QED
    BY <2>1, <2>2, <2>3
<1>6. \A i \in 1..Len(lines') : First(i)'.id <= added
  <2> HIDE DEF at
  <2> QED
    BY <1>3, <1>4
<1>7. Len(lines') >= n
  <2>1. Len(new) >= d
    BY <1>1 DEF d
  <2> QED
    BY <1>1, <1>2, <2>1
<1> QED
  BY <1>2, <1>5, <1>6, <1>7

\* What the first n unsaved messages are.
LEMMA UnsavedMessages ==
    ASSUME StoreInv
    PROVE  /\ Unsaved \in Seq(Entry) /\ Len(Unsaved) = Len(session.msgs) - session.saved
           /\ \A i \in 1..Len(Unsaved) : Unsaved[i] = session.msgs[session.saved + i]
           /\ \A n \in 0..Len(Unsaved) :
                  LET u == SubSeq(Unsaved, 1, n)
                  IN  u \in Seq(Entry) /\ Len(u) = n /\ \A i \in 1..n : u[i] = Unsaved[i]
<1> DEFINE m == session.msgs
           s == session.saved
<1>1. m \in Seq(Entry) /\ Len(m) \in Nat /\ s \in Nat /\ s <= Len(m)
  BY DEF StoreInv, StoreTypeOK
<1>2. /\ Unsaved \in Seq(Entry) /\ Len(Unsaved) = Len(m) - s
      /\ \A i \in 1..Len(Unsaved) : Unsaved[i] = m[s + i]
  <2>1. (\A i \in s + 1..Len(m) : m[i] \in Entry) /\ s + 1 \in Int /\ Len(m) \in Int
    BY <1>1
  <2>2. /\ Unsaved \in Seq(Entry) /\ Len(Unsaved) = IF s + 1 <= Len(m) THEN Len(m) - (s + 1) + 1 ELSE 0
        /\ \A i \in 1..Len(m) - (s + 1) + 1 : Unsaved[i] = m[(s + 1) + i - 1]
    <3> DEFINE a == s + 1
               b == Len(m)
    <3>1. a \in Int /\ b \in Int /\ \A i \in a..b : m[i] \in Entry
      BY <2>1
    <3> HIDE DEF a, b
    <3>2. /\ SubSeq(m, a, b) \in Seq(Entry)
          /\ Len(SubSeq(m, a, b)) = IF a <= b THEN b - a + 1 ELSE 0
          /\ \A i \in 1..b - a + 1 : SubSeq(m, a, b)[i] = m[a + i - 1]
      BY <3>1, SubSeqProperties
    <3> QED
      BY <3>2 DEF Unsaved, a, b
  <2>3. Len(Unsaved) = Len(m) - s
    BY <1>1, <2>2
  <2>4. \A i \in 1..Len(m) - s : i \in 1..Len(m) - (s + 1) + 1 /\ (s + 1) + i - 1 = s + i
    BY <1>1
  <2> QED
    BY <2>2, <2>3, <2>4
<1>3. ASSUME NEW n \in 0..Len(Unsaved)
      PROVE  /\ SubSeq(Unsaved, 1, n) \in Seq(Entry) /\ Len(SubSeq(Unsaved, 1, n)) = n
             /\ \A i \in 1..n : SubSeq(Unsaved, 1, n)[i] = Unsaved[i]
  BY <1>1, <1>2
<1> QED
  BY <1>2, <1>3

\* Where nothing went wrong, the new lines follow those of the saved messages.
LEMMA CleanAppend ==
    ASSUME StoreInv, pc = "ready", harm = {}, exists, NEW new, NewLines(new),
           lines' = Continued(new)
    PROVE  /\ Len(lines') = session.saved + Len(new)
           /\ \A i \in 1..session.saved : lines'[i] = Intact(session.msgs[i])
           /\ \A i \in 1..Len(new) : lines'[session.saved + i] = new[i]
<1> DEFINE n == Len(lines)
<1>1. /\ StoreTypeOK /\ LineInv /\ n = session.saved /\ n \in Nat /\ ended
      /\ lines \in Seq(Seq(Piece)) /\ new \in Seq(Seq(Piece)) /\ Len(new) \in Nat
      /\ \A i \in 1..n : lines[i] = Intact(session.msgs[i])
      /\ \A i \in 1..Len(new) : new[i] # << >>
  BY DEF StoreInv, StoreTypeOK, CleanInv, NewLines
<1>2. lines' = lines \o new
  BY <1>1, ContinuedLines
<1>3. /\ Len(lines') = n + Len(new)
      /\ \A i \in 1..n + Len(new) : lines'[i] = IF i <= n THEN lines[i] ELSE new[i - n]
  <2>1. /\ Len(lines \o new) = Len(lines) + Len(new)
        /\ \A i \in 1..Len(lines) + Len(new) :
               (lines \o new)[i] = IF i <= Len(lines) THEN lines[i] ELSE new[i - Len(lines)]
    BY <1>1, ConcatProperties
  <2> QED
    BY <1>2, <2>1
<1>4. \A i \in 1..n : i \in 1..n + Len(new) /\ i <= n
  BY <1>1
<1>5. \A i \in 1..Len(new) : n + i \in 1..n + Len(new) /\ ~(n + i <= n) /\ (n + i) - n = i
  BY <1>1
<1> QED
  BY <1>1, <1>3, <1>4, <1>5

\* A save appends what is not saved; a line without a newline is continued.
LEMMA AppendKeeps ==
    ASSUME StoreInv, AppendUnsaved
    PROVE  StoreInv'
<1> DEFINE m == session.msgs
           new == Whole(Unsaved)
           b == IF NeedsFullSave(session, TheFile) THEN FALSE ELSE session.full
<1>1. /\ StoreTypeOK /\ session \in SessionOf /\ LineInv /\ OrderInv /\ CleanInv /\ CutInv
      /\ m \in Seq(Entry) /\ Len(m) \in Nat /\ session.saved \in 0..Len(m) /\ pc = "ready"
      /\ exists
  BY DEF StoreInv, StoreTypeOK, AppendUnsaved, MustRewrite, NeedsFullSave, TheFile
<1>2. /\ session' \in SessionOf /\ session'.msgs = m /\ session'.saved = Len(m)
  <2>1. session' = [session EXCEPT !.saved = Len(m), !.full = b]
    BY DEF AppendUnsaved, SessionAfterSave
  <2>2. b \in BOOLEAN
    BY <1>1 DEF SessionOf
  <2> HIDE DEF b
  <2> QED
    BY <1>1, <2>1, <2>2 DEF SessionOf
<1>3. /\ lines' = Continued(new) /\ ended' = (ended \/ Unsaved # << >>)
      /\ returned' = returned \cup {m[i].id : i \in 1..Len(m)}
      /\ UNCHANGED <<exists, meta, pc, tmp, added, crashes, harm>>
  BY DEF AppendUnsaved, Reported
<1>4. /\ new \in Seq(Seq(Piece)) /\ Len(new) = Len(m) - session.saved
      /\ \A i \in 1..Len(new) :
             /\ new[i] = Intact(m[session.saved + i]) /\ new[i] # << >>
             /\ new[i][1].msg = m[session.saved + i]
  <2>1. /\ Unsaved \in Seq(Entry) /\ Len(Unsaved) = Len(m) - session.saved
        /\ \A i \in 1..Len(Unsaved) : Unsaved[i] = m[session.saved + i]
    BY UnsavedMessages
  <2>2. /\ new \in Seq(Seq(Piece)) /\ Len(new) = Len(Unsaved)
        /\ \A i \in 1..Len(Unsaved) : new[i] = Intact(Unsaved[i]) /\ Unsaved[i] \in Entry
    BY <2>1, WholeLines, Numbers
  <2> HIDE DEF new
  <2> QED
    BY <2>1, <2>2, IntactLine
<1> HIDE DEF new
<1>5. NewLines(new)
  BY <1>1, <1>4 DEF NewLines
<1>6. /\ lines' \in Seq(Seq(Piece)) /\ \A i \in 1..Len(lines') : lines'[i] # << >>
      /\ \A i, j \in 1..Len(lines') : i < j => First(i)'.id < First(j)'.id
      /\ \A i \in 1..Len(lines') : First(i)'.id <= added
      /\ Len(lines') >= Len(lines)
  BY <1>1, <1>3, <1>5, OrderAfterAppend
<1>7. StoreTypeOK'
  <2>1. \A i \in 1..Len(m) : m[i].id \in 0..MaxMessages
    BY <1>1, Numbers
  <2>2. returned' \subseteq 0..MaxMessages
    BY <1>1, <1>3, <2>1 DEF StoreTypeOK
  <2>3. ended' \in BOOLEAN
    BY <1>3
  <2>4. session'.consolidated \in Nat
    BY <1>2 DEF SessionOf
  <2> QED
    BY <1>1, <1>2, <1>3, <1>6, <2>2, <2>3, <2>4 DEF StoreTypeOK
<1>8. LineInv'
  <2>1. ~ended' => Len(lines') > 0
    <3>1. lines # << >> => Len(lines) > 0
      BY <1>1 DEF StoreTypeOK
    <3>2. Len(lines) \in Nat /\ Len(lines') \in Nat
      BY <1>1, <1>6 DEF StoreTypeOK
    <3>3. ~ended' => ~ended
      BY <1>3
    <3>4. ~ended => lines # << >>
      BY <1>1 DEF LineInv
    <3>5. Len(lines) > 0 => Len(lines') > 0
      BY <1>6, <3>2
    <3> QED
      BY <3>1, <3>3, <3>4, <3>5
  <2>2. Len(lines') > 0 => lines' # << >>
    BY <1>6
  <2> QED
    BY <1>1, <1>3, <1>6, <2>1, <2>2 DEF LineInv
<1>9. OrderInv'
  <2>1. Len(m) + 1..Len(m) = {}
    BY <1>1
  <2> QED
    BY <1>1, <1>2, <1>3, <1>6, <2>1 DEF OrderInv
<1>10. CleanInv'
  <2> SUFFICES ASSUME harm = {} PROVE CleanInv!2'
    BY <1>3 DEF CleanInv
  <2>1. /\ Len(lines') = session.saved + Len(new)
        /\ \A i \in 1..session.saved : lines'[i] = Intact(m[i])
        /\ \A i \in 1..Len(new) : lines'[session.saved + i] = new[i]
    BY <1>1, <1>3, <1>5, CleanAppend
  <2>2. Len(lines') = Len(m)
    BY <1>1, <1>4, <2>1
  <2>3. ASSUME NEW i \in 1..Len(m) PROVE lines'[i] = Intact(m[i])
    <3>1. i \in 1..session.saved \/ (i - session.saved \in 1..Len(new)
                                     /\ session.saved + (i - session.saved) = i)
      BY <1>1, <1>4
    <3> QED
      BY <1>4, <2>1, <3>1
  <2>4. \A r \in returned' : \E i \in 1..Len(m) : m[i].id = r
    <3>1. \A i \in 1..Len(lines) : i \in 1..Len(m)
      BY <1>1 DEF CleanInv, StoreTypeOK
    <3> QED
      BY <1>1, <1>3, <3>1 DEF CleanInv
  <2>5. ended' = TRUE /\ pc' = "ready"
    BY <1>1, <1>3 DEF CleanInv
  <2>6. \A i \in 1..Len(m) : m[i].size = "short"
    BY <1>1 DEF CleanInv
  <2> QED
    BY <1>1, <1>2, <2>2, <2>3, <2>4, <2>5, <2>6
<1>11. CutInv'
  BY <1>1, <1>3 DEF CutInv
<1> QED
  BY <1>2, <1>7, <1>8, <1>9, <1>10, <1>11 DEF StoreInv

\* The two ways a write is cut short: after the lines of the first n messages, or in the
\* line after them.
CutOff(q, n, new) ==
    \/ new = Whole(SubSeq(q, 1, n))
    \/ \E w \in BOOLEAN : new = Whole(SubSeq(q, 1, n)) \o Half(q[n + 1], w)

\* They begin with the messages.
LEMMA CutLines ==
    ASSUME NEW q \in Seq(Entry), NEW n \in Nat, n < Len(q), NEW new, CutOff(q, n, new)
    PROVE  /\ new \in Seq(Seq(Piece))
           /\ \A i \in 1..n : new[i] = Intact(q[i])
           /\ \A i \in 1..Len(new) : new[i] # << >> /\ new[i][1].msg = q[i]
           /\ Len(new) = n \/ Len(new) = n + 1
<1> DEFINE u == SubSeq(q, 1, n)
           P == Seq(Piece)
<1>1. Len(q) \in Nat /\ n + 1 \in 1..Len(q) /\ \A i \in 1..n : i \in 1..Len(q)
  OBVIOUS
<1>2. u \in Seq(Entry) /\ Len(u) = n /\ \A i \in 1..n : u[i] = q[i]
  BY <1>1
<1> HIDE DEF u
<1> DEFINE v == Whole(u)
<1>4. v \in Seq(P) /\ Len(v) = n /\ \A i \in 1..n : v[i] = Intact(q[i])
  <2>1. v \in Seq(P) /\ Len(v) = n /\ \A i \in 1..n : v[i] = Intact(u[i])
    BY <1>2, WholeLines
  <2> QED
    BY <1>2, <2>1
<1>5. \A i \in 1..n : q[i] \in Entry /\ Intact(q[i]) # << >> /\ Intact(q[i])[1].msg = q[i]
  BY <1>1, Numbers, IntactLine
<1>6. CASE new = v
  <2> HIDE DEF v
  <2>1. new \in Seq(P) /\ \A i \in 1..Len(new) : new[i] # << >> /\ new[i][1].msg = q[i]
    BY <1>4, <1>5, <1>6
  <2> QED
    BY <1>4, <1>6, <2>1 DEF u, v
<1>7. ASSUME NEW w \in BOOLEAN, new = v \o Half(q[n + 1], w)
      PROVE  /\ new \in Seq(P) /\ Len(new) = n + 1
             /\ \A i \in 1..n : new[i] = Intact(q[i])
             /\ \A i \in 1..Len(new) : new[i] # << >> /\ new[i][1].msg = q[i]
  <2> DEFINE p == [msg |-> q[n + 1], whole |-> w]
             l == <<p>>
  <2>1. q[n + 1] \in Entry
    BY <1>1, Numbers
  <2>2. p \in Piece /\ p.msg = q[n + 1]
    BY <2>1 DEF Piece
  <2>3. new = v \o <<l>>
    BY <1>7 DEF Half
  <2> HIDE DEF p
  <2>4. l \in Seq(Piece) /\ l # << >> /\ l[1] = p
    BY <2>2
  <2> HIDE DEF l, v, P
  <2>5. <<l>> \in Seq(P) /\ Len(<<l>>) = 1 /\ <<l>>[1] = l
    BY <2>4 DEF P
  <2> DEFINE t == <<l>>
  <2> HIDE DEF t
  <2>6. /\ new \in Seq(P) /\ Len(new) = n + 1
        /\ \A i \in 1..n + 1 : new[i] = IF i <= n THEN v[i] ELSE t[i - n]
    <3>1. t \in Seq(P) /\ Len(t) = 1 /\ new = v \o t
      BY <2>3, <2>5 DEF t
    <3>2. \A x, y \in Seq(P) :
             /\ x \o y \in Seq(P) /\ Len(x \o y) = Len(x) + Len(y)
             /\ \A i \in 1..Len(x) + Len(y) : (x \o y)[i] = IF i <= Len(x) THEN x[i] ELSE y[i - Len(x)]
      BY ConcatProperties
    <3>3. v \in Seq(P) /\ Len(v) = n
      BY <1>4
    <3>4. /\ v \o t \in Seq(P) /\ Len(v \o t) = Len(v) + Len(t)
          /\ \A i \in 1..Len(v) + Len(t) :
                 (v \o t)[i] = IF i <= Len(v) THEN v[i] ELSE t[i - Len(v)]
      BY <3>1, <3>2, <3>3
    <3> QED
      BY <3>1, <3>3, <3>4
  <2>7. /\ \A i \in 1..n : i <= n /\ i \in 1..n + 1
        /\ ~(n + 1 <= n) /\ (n + 1) - n = 1 /\ n + 1 \in 1..n + 1
        /\ \A i \in 1..n + 1 : i \in 1..n \/ i = n + 1
    OBVIOUS
  <2>8. (\A i \in 1..n : new[i] = Intact(q[i])) /\ new[n + 1] = l
    BY <1>4, <2>5, <2>6, <2>7 DEF t
  <2>9. \A i \in 1..n + 1 : new[i] # << >> /\ new[i][1].msg = q[i]
    BY <1>5, <2>2, <2>4, <2>7, <2>8
  <2> QED
    BY <2>6, <2>8, <2>9 DEF P, l, p
<1> QED
  BY <1>4, <1>6, <1>7 DEF CutOff, u, v, P

\* What an append that is cut short adds to the file.
LEMMA CutAppends ==
    ASSUME StoreInv, NEW n \in Nat, CutAppend(n)
    PROVE  \E new : /\ NewLines(new) /\ lines' = Continued(new)
                    /\ \A i \in 1..n : new[i] = Intact(session.msgs[session.saved + i])
                    /\ \/ Len(new) = n /\ ended' = (ended \/ n > 0)
                       \/ /\ Len(new) = n + 1 /\ ended' = FALSE
                          /\ \E w \in BOOLEAN :
                                 new[n + 1] = <<[msg |-> session.msgs[session.saved + (n + 1)],
                                                 whole |-> w]>>
<1> DEFINE m == session.msgs
           s == session.saved
           new1 == Whole(SubSeq(Unsaved, 1, n))
           Is(new) == /\ NewLines(new) /\ \A i \in 1..n : new[i] = Intact(m[s + i])
<1>1. /\ m \in Seq(Entry) /\ Len(m) \in Nat /\ s \in Nat /\ s <= Len(m)
      /\ Unsaved \in Seq(Entry) /\ Len(Unsaved) = Len(m) - s /\ n < Len(Unsaved)
      /\ \A i \in 1..Len(Unsaved) : Unsaved[i] = m[s + i]
  BY UnsavedMessages DEF StoreInv, StoreTypeOK, CutAppend
<1>2. /\ s + n + 1 <= Len(m) /\ n + 1 \in 1..Len(Unsaved)
      /\ \A i \in 1..n + 1 : i \in 1..Len(Unsaved)
      /\ \A i \in 1..n : i \in 1..n + 1
  BY <1>1
<1>3. ASSUME NEW new, \/ new = new1
                      \/ \E w \in BOOLEAN : new = new1 \o Half(Unsaved[n + 1], w)
      PROVE  Is(new)
  <2>1. /\ new \in Seq(Seq(Piece))
        /\ \A i \in 1..n : new[i] = Intact(Unsaved[i])
        /\ \A i \in 1..Len(new) : new[i] # << >> /\ new[i][1].msg = Unsaved[i]
        /\ Len(new) \in {n, n + 1}
    <3> DEFINE q == Unsaved
    <3>1. q \in Seq(Entry) /\ n < Len(q)
      BY <1>1
    <3>2. CutOff(q, n, new)
      BY <1>3 DEF CutOff
    <3> HIDE DEF q
    <3>3. /\ new \in Seq(Seq(Piece))
          /\ \A i \in 1..n : new[i] = Intact(q[i])
          /\ \A i \in 1..Len(new) : new[i] # << >> /\ new[i][1].msg = q[i]
          /\ Len(new) = n \/ Len(new) = n + 1
      BY <3>1, <3>2, CutLines
    <3> QED
      BY <3>3 DEF q
  <2>2. s + Len(new) <= Len(m) /\ \A i \in 1..Len(new) : i \in 1..n + 1
    BY <1>1, <1>2, <2>1
  <2> QED
    BY <1>1, <1>2, <2>1, <2>2 DEF NewLines
<1>4. CASE lines' = Continued(new1) /\ ended' = (ended \/ n > 0)
  <2>1. Is(new1)
    BY <1>3
  <2>2. Len(new1) = n
    <3>1. SubSeq(Unsaved, 1, n) \in Seq(Entry) /\ Len(SubSeq(Unsaved, 1, n)) = n
      BY <1>1
    <3> QED
      BY <3>1, WholeLines
  <2> HIDE DEF new1
  <2> QED
    BY <1>4, <2>1, <2>2
<1>5. ASSUME NEW w \in BOOLEAN, ended' = FALSE,
             lines' = Continued(new1 \o Half(Unsaved[n + 1], w))
      PROVE  \E new : /\ Is(new) /\ lines' = Continued(new)
                      /\ Len(new) = n + 1
                      /\ new[n + 1] = <<[msg |-> m[s + (n + 1)], whole |-> w]>>
  <2> DEFINE new2 == new1 \o Half(Unsaved[n + 1], w)
  <2>1. Is(new2)
    BY <1>3
  <2>2. Len(new2) = n + 1 /\ new2[n + 1] = <<[msg |-> m[s + (n + 1)], whole |-> w]>>
    <3> DEFINE l == <<[msg |-> m[s + (n + 1)], whole |-> w]>>
    <3>1. SubSeq(Unsaved, 1, n) \in Seq(Entry) /\ Len(SubSeq(Unsaved, 1, n)) = n
      BY <1>1
    <3>2. new1 \in Seq(Seq(Piece)) /\ Len(new1) = n
      BY <3>1, WholeLines
    <3>3. m[s + (n + 1)] = Unsaved[n + 1] /\ Unsaved[n + 1] \in Entry
      BY <1>1, <1>2
    <3>4. l \in Seq(Piece) /\ new2 = new1 \o <<l>>
      BY <3>3 DEF Piece, Half
    <3> HIDE DEF l, new1
    <3>5. Len(new1 \o <<l>>) = n + 1 /\ (new1 \o <<l>>)[n + 1] = l
      BY <3>2, <3>4
    <3> QED
      BY <3>4, <3>5 DEF l
  <2> HIDE DEF new2
  <2>3. lines' = Continued(new2)
    BY <1>5 DEF new2
  <2> QED
    BY <2>1, <2>2, <2>3
<1> QED
  BY <1>4, <1>5 DEF CutAppend

\* The file after an append that was cut short.
LEMMA CutFile ==
    ASSUME StoreInv, pc = "ready", NEW n \in Nat, CutAppend(n)
    PROVE  /\ lines' \in Seq(Seq(Piece)) /\ ended' \in BOOLEAN
           /\ \A i \in 1..Len(lines') : lines'[i] # << >>
           /\ ~ended' => lines' # << >>
           /\ \A i, j \in 1..Len(lines') : i < j => First(i)'.id < First(j)'.id
           /\ \A i \in 1..Len(lines') : First(i)'.id <= added
<1> DEFINE m == session.msgs
           s == session.saved
<1>1. StoreTypeOK /\ LineInv /\ m \in Seq(Entry) /\ Len(m) \in Nat /\ s \in 0..Len(m)
  BY DEF StoreInv, StoreTypeOK
<1>2. PICK new : /\ NewLines(new) /\ lines' = Continued(new)
                 /\ \/ Len(new) = n /\ ended' = (ended \/ n > 0)
                    \/ Len(new) = n + 1 /\ ended' = FALSE
  BY CutAppends
<1>4. /\ lines' \in Seq(Seq(Piece)) /\ \A i \in 1..Len(lines') : lines'[i] # << >>
      /\ \A i, j \in 1..Len(lines') : i < j => First(i)'.id < First(j)'.id
      /\ \A i \in 1..Len(lines') : First(i)'.id <= added
      /\ Len(lines') >= Len(lines)
  BY <1>1, <1>2, OrderAfterAppend
<1>6. ended' \in BOOLEAN
  BY <1>2
<1>8. ~ended' => Len(lines') > 0
  <2>1. Len(lines) \in Nat /\ Len(lines') \in Nat /\ Len(new) \in Nat
    BY <1>1, <1>2, <1>4 DEF StoreTypeOK, NewLines
  <2>2. CASE Len(new) = n /\ ended' = (ended \/ n > 0)
    <3>1. ~ended' => lines # << >>
      BY <1>1, <2>2 DEF LineInv
    <3>2. lines # << >> => Len(lines) > 0
      BY <1>1 DEF StoreTypeOK
    <3>3. Len(lines) > 0 => Len(lines') > 0
      BY <1>4, <2>1
    <3> QED
      BY <3>1, <3>2, <3>3
  <2>3. CASE Len(new) = n + 1
    <3>1. new # << >> /\ new \in Seq(Seq(Piece)) /\ \A i \in 1..Len(new) : new[i] # << >>
      <4>1. n + 1 # 0 /\ Len(<< >>) = 0
        OBVIOUS
      <4> QED
        BY <1>2, <2>3, <4>1 DEF NewLines
    <3>2. Len(lines') = Len(lines) + Len(new) - (IF ended THEN 0 ELSE 1)
      BY <1>1, <1>2, <3>1, ContinuedLines
    <3>3. ~ended => Len(lines) > 0
      <4>1. ~ended => lines # << >>
        BY <1>1 DEF LineInv
      <4>2. lines # << >> => Len(lines) > 0
        BY <1>1 DEF StoreTypeOK
      <4> QED
        BY <4>1, <4>2
    <3> QED
      BY <1>1, <2>1, <2>3, <3>2, <3>3
  <2> QED
    BY <1>2, <2>2, <2>3
<1>9. Len(lines') > 0 => lines' # << >>
  BY <1>4
<1> QED
  BY <1>4, <1>6, <1>8, <1>9

\* A write that fails unnoticed cuts an append short, and the save counts as done.
LEMMA AppendShortKeeps ==
    ASSUME StoreInv, NEW n \in 0..MaxMessages, AppendShort(n)
    PROVE  StoreInv'
<1> DEFINE m == session.msgs
           b == IF NeedsFullSave(session, TheFile) THEN FALSE ELSE session.full
<1>1. /\ StoreTypeOK /\ session \in SessionOf /\ LineInv /\ OrderInv /\ CutInv
      /\ m \in Seq(Entry) /\ Len(m) \in Nat /\ pc = "ready" /\ exists /\ n \in Nat
  BY StoreAssumption
     DEF StoreInv, StoreTypeOK, AppendShort, MustRewrite, NeedsFullSave, TheFile
<1>2. /\ session' \in SessionOf /\ session'.msgs = m /\ session'.saved = Len(m)
  <2>1. session' = [session EXCEPT !.saved = Len(m), !.full = b]
    BY DEF AppendShort, SessionAfterSave
  <2>2. b \in BOOLEAN
    BY <1>1 DEF SessionOf
  <2> HIDE DEF b
  <2> QED
    BY <1>1, <2>1, <2>2 DEF SessionOf
<1>3. /\ returned' = returned \cup {m[i].id : i \in 1..Len(m)}
      /\ harm' = harm \cup {"write"}
      /\ UNCHANGED <<exists, meta, pc, tmp, added, crashes>>
  BY DEF AppendShort, Reported
<1>4. /\ lines' \in Seq(Seq(Piece)) /\ ended' \in BOOLEAN
      /\ \A i \in 1..Len(lines') : lines'[i] # << >>
      /\ ~ended' => lines' # << >>
      /\ \A i, j \in 1..Len(lines') : i < j => First(i)'.id < First(j)'.id
      /\ \A i \in 1..Len(lines') : First(i)'.id <= added
  BY <1>1, CutFile DEF AppendShort
<1>5. StoreTypeOK'
  <2>1. \A i \in 1..Len(m) : m[i].id \in 0..MaxMessages
    BY <1>1, Numbers
  <2>2. returned' \subseteq 0..MaxMessages /\ harm' \subseteq Harms
    BY <1>1, <1>3, <2>1 DEF StoreTypeOK, Harms
  <2>3. session'.consolidated \in Nat
    BY <1>2 DEF SessionOf
  <2> QED
    BY <1>1, <1>2, <1>3, <1>4, <2>2, <2>3 DEF StoreTypeOK
<1>6. LineInv'
  BY <1>1, <1>3, <1>4 DEF LineInv
<1>7. OrderInv'
  <2>1. Len(m) + 1..Len(m) = {}
    BY <1>1
  <2> QED
    BY <1>1, <1>2, <1>3, <1>4, <2>1 DEF OrderInv
<1>8. CleanInv' /\ CutInv'
  BY <1>1, <1>3 DEF CleanInv, CutInv
<1> QED
  BY <1>2, <1>5, <1>6, <1>7, <1>8 DEF StoreInv

\* A .tmp file of which only the beginning was written takes the place of the file.
LEMMA RenameShortKeeps ==
    ASSUME StoreInv, NEW n \in 0..MaxMessages, RenameShort(n)
    PROVE  StoreInv'
<1> DEFINE m == session.msgs
<1>1. /\ StoreTypeOK /\ session \in SessionOf /\ LineInv /\ OrderInv /\ CutInv
      /\ tmp = m /\ session.saved = Len(m) /\ m \in Seq(Entry) /\ Len(m) \in Nat
      /\ n \in Nat
  BY StoreAssumption DEF StoreInv, StoreTypeOK, LineInv, RenameShort
<1>2. /\ exists' = TRUE /\ pc' = "ready" /\ tmp' = << >>
      /\ returned' = returned \cup {m[i].id : i \in 1..Len(m)}
      /\ harm' = harm \cup {"write"} /\ UNCHANGED <<session, added, crashes>>
  BY <1>1 DEF RenameShort, Reported
<1>3. meta' \in Seq(Nat) /\ ended' \in BOOLEAN
  <2>1. << >> \in Seq(Nat) /\ <<session.consolidated>> \in Seq(Nat)
    BY <1>1 DEF StoreTypeOK
  <2> QED
    BY <2>1 DEF RenameShort
<1>4. /\ lines' \in Seq(Seq(Piece))
      /\ \A i \in 1..Len(lines') : lines'[i] # << >>
      /\ ~ended' => lines' # << >>
      /\ \/ \A i \in 1..Len(lines') : i \in 1..Len(m) /\ lines'[i][1].msg = m[i]
         \/ Len(lines') = 1 /\ lines'[1][1].msg = Metadata
  <2>1. CASE lines' = << >> /\ ended' = TRUE
    BY <2>1
  <2>2. CASE lines' = Half(Metadata, FALSE)
    <3> DEFINE p == [msg |-> Metadata, whole |-> FALSE]
    <3>1. p \in Piece /\ p.msg = Metadata
      BY StoreAssumption DEF Piece, Metadata, Entry
    <3> HIDE DEF p
    <3>2. <<p>> \in Seq(Piece) /\ <<p>> # << >> /\ <<p>>[1] = p
      BY <3>1
    <3> DEFINE l == <<p>>
    <3> HIDE DEF l
    <3>3. <<l>> \in Seq(Seq(Piece)) /\ Len(<<l>>) = 1 /\ <<l>>[1] = l /\ <<l>> # << >>
      BY <3>2 DEF l
    <3>4. lines' = <<l>>
      BY <2>2 DEF Half, l, p
    <3>5. l[1].msg = Metadata /\ l # << >>
      BY <3>1, <3>2 DEF l
    <3> QED
      BY <3>3, <3>4, <3>5
  <2>3. ASSUME n < Len(m),
               \/ lines' = Whole(SubSeq(m, 1, n)) /\ ended' = TRUE
               \/ \E w \in BOOLEAN : lines' = Whole(SubSeq(m, 1, n)) \o Half(m[n + 1], w)
        PROVE  /\ lines' \in Seq(Seq(Piece))
               /\ \A i \in 1..Len(lines') : lines'[i] # << >> /\ lines'[i][1].msg = m[i]
               /\ \/ Len(lines') = n /\ ended' = TRUE
                  \/ Len(lines') = n + 1
    <3> DEFINE new == lines'
               q == m
    <3>1. q \in Seq(Entry) /\ n < Len(q)
      BY <1>1, <2>3
    <3>2. CutOff(q, n, new)
      BY <2>3 DEF CutOff
    <3>3. \A x, y \in Seq(Seq(Piece)) : Len(x \o y) = Len(x) + Len(y)
      OBVIOUS
    <3>4. SubSeq(q, 1, n) \in Seq(Entry) /\ Len(SubSeq(q, 1, n)) = n
      BY <1>1, <3>1
    <3>5. Whole(SubSeq(q, 1, n)) \in Seq(Seq(Piece)) /\ Len(Whole(SubSeq(q, 1, n))) = n
      BY <3>4, WholeLines
    <3>6. ASSUME NEW w \in BOOLEAN PROVE Len(Whole(SubSeq(q, 1, n)) \o Half(q[n + 1], w)) = n + 1
      <4>1. q[n + 1] \in Entry
        BY <1>1, <3>1
      <4> DEFINE l == <<[msg |-> q[n + 1], whole |-> w]>>
      <4>2. l \in Seq(Piece) /\ Half(q[n + 1], w) = <<l>>
        BY <4>1 DEF Piece, Half
      <4> HIDE DEF l
      <4>3. <<l>> \in Seq(Seq(Piece)) /\ Len(<<l>>) = 1
        BY <4>2
      <4> QED
        BY <3>3, <3>5, <4>2, <4>3
    <3>7. Len(new) = n + 1 \/ (Len(new) = n /\ ended' = TRUE)
      BY <2>3, <3>5, <3>6
    <3> HIDE DEF q, new
    <3>8. /\ new \in Seq(Seq(Piece))
          /\ \A i \in 1..Len(new) : new[i] # << >> /\ new[i][1].msg = q[i]
      BY <1>1, <3>1, <3>2, CutLines
    <3> QED
      BY <3>7, <3>8 DEF q, new
  <2>4. ASSUME n < Len(m),
               \/ lines' = Whole(SubSeq(m, 1, n)) /\ ended' = TRUE
               \/ \E w \in BOOLEAN : lines' = Whole(SubSeq(m, 1, n)) \o Half(m[n + 1], w)
        PROVE  /\ ~ended' => lines' # << >>
               /\ \A i \in 1..Len(lines') : i \in 1..Len(m)
    <3>1. Len(lines') = n + 1 => lines' # << >>
      BY <1>1
    <3>2. Len(lines') = n + 1 \/ (Len(lines') = n /\ ended' = TRUE)
      BY <2>3, <2>4
    <3>3. \A i \in 1..n + 1 : i \in 1..Len(m)
      BY <1>1, <2>4
    <3>4. \A i \in 1..n : i \in 1..n + 1
      BY <1>1
    <3> QED
      BY <3>1, <3>2, <3>3, <3>4
  <2> QED
    BY <1>1, <2>1, <2>2, <2>3, <2>4 DEF RenameShort
<1>5. StoreTypeOK'
  <2>1. \A i \in 1..Len(m) : m[i].id \in 0..MaxMessages
    BY <1>1, Numbers
  <2>2. returned' \subseteq 0..MaxMessages /\ harm' \subseteq Harms
    BY <1>1, <1>2, <2>1 DEF StoreTypeOK, Harms
  <2> QED
    BY <1>1, <1>2, <1>3, <1>4, <2>2 DEF StoreTypeOK
<1>6. LineInv'
  BY <1>2, <1>4 DEF LineInv
<1>7. OrderInv'
  <2>1. session.saved + 1..Len(m) = {}
    BY <1>1
  <2>2. session'.msgs = m /\ added' = added /\ session'.saved = session.saved /\ added \in Nat
    BY <1>1, <1>2 DEF StoreTypeOK
  <2>3. CASE \A i \in 1..Len(lines') : i \in 1..Len(m) /\ lines'[i][1].msg = m[i]
    BY <1>1, <2>1, <2>2, <2>3 DEF OrderInv, First
  <2>4. CASE Len(lines') = 1 /\ lines'[1][1].msg = Metadata
    <3>1. Metadata.id = 0 /\ \A i \in 1..1 : i = 1
      BY DEF Metadata
    <3>2. /\ \A i, j \in 1..Len(lines') : i < j => First(i)'.id < First(j)'.id
          /\ \A i \in 1..Len(lines') : First(i)'.id <= added'
      BY <2>2, <2>4, <3>1 DEF First
    <3> QED
      BY <1>1, <2>1, <2>2, <3>2 DEF OrderInv
  <2> QED
    BY <1>4, <2>3, <2>4
<1>8. CleanInv' /\ CutInv'
  BY <1>1, <1>2 DEF CleanInv, CutInv
<1> QED
  BY <1>1, <1>2, <1>5, <1>6, <1>7, <1>8 DEF StoreInv

\* A crash cuts an append short, in the middle of a line or between two.
LEMMA CutKeeps ==
    ASSUME StoreInv, NEW n \in 0..MaxMessages, CrashInAppend(n)
    PROVE  StoreInv'
<1> DEFINE m == session.msgs
           s == session.saved
<1>1. /\ StoreTypeOK /\ session \in SessionOf /\ LineInv /\ OrderInv /\ CleanInv /\ CutInv
      /\ m \in Seq(Entry) /\ Len(m) \in Nat /\ s \in 0..Len(m) /\ pc = "ready"
      /\ exists /\ n \in Nat /\ n < Len(Unsaved) /\ CutAppend(n)
  BY StoreAssumption
     DEF StoreInv, StoreTypeOK, CrashInAppend, MustRewrite, NeedsFullSave, TheFile, CutAppend
<1>2. PICK new : /\ NewLines(new) /\ lines' = Continued(new)
                 /\ \A i \in 1..n : new[i] = Intact(m[s + i])
                 /\ \/ Len(new) = n /\ ended' = (ended \/ n > 0)
                    \/ /\ Len(new) = n + 1 /\ ended' = FALSE
                       /\ \E w \in BOOLEAN : new[n + 1] = <<[msg |-> m[s + (n + 1)], whole |-> w]>>
  BY <1>1, CutAppends
<1>3. /\ UNCHANGED <<session, exists, meta, tmp, added, returned>>
      /\ crashes' = crashes + 1 /\ crashes < MaxCrashes /\ pc' = "down"
      /\ harm' = harm \cup {"cut"}
  BY DEF CrashInAppend
<1>4. /\ lines' \in Seq(Seq(Piece)) /\ ended' \in BOOLEAN
      /\ \A i \in 1..Len(lines') : lines'[i] # << >>
      /\ ~ended' => lines' # << >>
      /\ \A i, j \in 1..Len(lines') : i < j => First(i)'.id < First(j)'.id
      /\ \A i \in 1..Len(lines') : First(i)'.id <= added
  BY <1>1, CutFile
<1>5. crashes \in Nat /\ crashes' \in 0..MaxCrashes /\ crashes' > 0
  BY <1>1, <1>3, StoreAssumption DEF StoreTypeOK
<1>7. StoreTypeOK'
  BY <1>1, <1>3, <1>4, <1>5 DEF StoreTypeOK, Harms
<1>8. LineInv'
  BY <1>1, <1>3, <1>4 DEF LineInv
<1>9. OrderInv'
  BY <1>1, <1>3, <1>4 DEF OrderInv
<1>10. CleanInv'
  BY <1>3 DEF CleanInv
<1>11. CutInv'
  <2> SUFFICES ASSUME harm' = {"cut"}, crashes' = 1
               PROVE  \E k \in 0..Len(lines') : LoadsFirst(k)'
    BY <1>3, <1>5 DEF CutInv
  <2>1. harm = {}
    <3>1. ~(crashes > 0)
      BY <1>3, <1>5
    <3>2. "cut" \notin harm
      BY <1>1, <3>1 DEF CutInv
    <3> QED
      BY <1>3, <3>2
  <2>2. /\ Len(lines') = s + Len(new)
        /\ \A i \in 1..s : lines'[i] = Intact(m[i])
        /\ \A i \in 1..Len(new) : lines'[s + i] = new[i]
    BY <1>1, <1>2, <2>1, CleanAppend
  <2>3. Len(Unsaved) = Len(m) - s
    BY UnsavedMessages
  <2>4. s + n + 1 <= Len(m) /\ s \in Nat /\ s + n \in Nat
    BY <1>1, <2>3
  <2>5. n <= Len(new)
    BY <1>1, <1>2
  <2>6. ASSUME NEW i \in 1..s + n
        PROVE  /\ lines'[i] = Intact(m[i]) /\ First(i)' = m[i] /\ Parses(lines'[i])
    <3>1. i \in 1..s \/ (i - s \in 1..n /\ s + (i - s) = i)
      BY <1>1, <2>4
    <3>2. \A j \in 1..n : j \in 1..Len(new)
      BY <1>1, <1>2
    <3>3. lines'[i] = Intact(m[i])
      BY <1>2, <2>2, <3>1, <3>2
    <3>4. i \in 1..Len(m)
      BY <1>1, <2>4
    <3>5. m[i] \in Entry /\ m[i].size = "short"
      BY <1>1, <2>1, <3>4, Numbers DEF CleanInv
    <3> QED
      BY <3>3, <3>5, IntactLine DEF First, Parses
  <2>7. CASE Len(new) = n
    <3>1. PICK k \in Nat : k = s + n
      BY <2>4
    <3>2. Len(lines') = k /\ k <= Len(m) /\ k \in 0..Len(lines')
      BY <1>1, <2>2, <2>4, <2>7, <3>1
    <3>3. \A i \in 1..k : i <= k
      BY <3>1
    <3>4. LoadsFirst(k)'
      BY <1>3, <2>6, <3>1, <3>2, <3>3 DEF LoadsFirst
    <3> QED
      BY <3>2, <3>4
  <2>8. ASSUME Len(new) = n + 1, NEW w \in BOOLEAN,
               new[n + 1] = <<[msg |-> m[s + (n + 1)], whole |-> w]>>
        PROVE  \E k \in 0..Len(lines') : LoadsFirst(k)'
    <3>0. PICK last \in Nat, k \in Nat : last = s + (n + 1) /\ k = IF w THEN last ELSE s + n
      BY <2>4
    <3>1. /\ Len(lines') = last /\ last \in 1..Len(m) /\ last \in Nat /\ n + 1 \in 1..Len(new)
          /\ k \in 0..last /\ k <= Len(m)
          /\ \A i \in 1..last : (i \in 1..s + n /\ i <= s + n /\ i # last) \/ i = last
          /\ s + n < last
      <4>1. Len(lines') = last /\ last = (s + n) + 1 /\ n + 1 \in 1..Len(new)
        BY <1>1, <2>2, <2>4, <2>8, <3>0
      <4>2. last \in 1..Len(m)
        BY <1>1, <2>4, <4>1
      <4>3. k = last \/ k = s + n
        BY <3>0
      <4>4. k \in 0..last /\ k <= Len(m)
        BY <1>1, <2>4, <4>1, <4>2, <4>3
      <4>5. \A i \in 1..last : (i \in 1..s + n /\ i <= s + n /\ i # last) \/ i = last
        BY <2>4, <4>1
      <4> QED
        BY <2>4, <4>1, <4>2, <4>4, <4>5
    <3>2. lines'[last] = new[n + 1]
      BY <2>2, <3>0, <3>1
    <3>3. m[last] \in Entry /\ m[last].size = "short"
      BY <1>1, <2>1, <3>1, Numbers DEF CleanInv
    <3>4. lines'[last][1].msg = m[last] /\ lines'[last][1].whole = w
      <4> DEFINE p == [msg |-> m[last], whole |-> w]
      <4>1. p.msg = m[last] /\ p.whole = w
        OBVIOUS
      <4>2. lines'[last] = <<p>>
        BY <2>8, <3>0, <3>2
      <4> HIDE DEF p
      <4> QED
        BY <4>1, <4>2
    <3>5. First(last)' = m[last] /\ (Parses(lines'[last]) <=> w)
      <4>1. First(last)' = m[last]
        BY <3>4 DEF First
      <4>2. Parses(lines'[last]) <=> w
        BY <3>3, <3>4 DEF Parses
      <4> QED
        BY <4>1, <4>2
    <3>6. w => k = last
      BY <3>0
    <3>7. ~w => k = s + n
      BY <3>0
    <3>8. ASSUME NEW i \in 1..last
          PROVE  (Parses(lines'[i]) <=> i <= k) /\ (i <= k => First(i)' = m[i])
      <4>1. CASE i \in 1..s + n /\ i <= s + n
        <5>1. i <= k
          <6>1. CASE w
            BY <2>4, <3>1, <3>6, <4>1, <6>1
          <6>2. CASE ~w
            BY <3>7, <4>1, <6>2
          <6> QED
            BY <6>1, <6>2
        <5> QED
          BY <2>6, <4>1, <5>1
      <4>2. CASE i = last
        <5>1. w => i <= k
          BY <3>1, <3>6, <4>2
        <5>2. ~w => ~(i <= k)
          BY <2>4, <3>1, <3>7, <4>2
        <5> QED
          BY <3>5, <4>2, <5>1, <5>2
      <4> QED
        BY <3>1, <4>1, <4>2
    <3>9. \A i \in 1..k : i \in 1..last /\ i <= k
      BY <3>1
    <3>10. LoadsFirst(k)'
      BY <1>3, <3>1, <3>8, <3>9 DEF LoadsFirst
    <3> QED
      BY <3>1, <3>10
  <2> QED
    BY <1>2, <2>7, <2>8
<1> QED
  BY <1>1, <1>3, <1>7, <1>8, <1>9, <1>10, <1>11 DEF StoreInv

\* The first messages of the file.
LEMMA FirstOfFile ==
    ASSUME StoreInv, NEW k \in 0..Len(Loaded)
    PROVE  LET load == SubSeq(Loaded, 1, k)
           IN  /\ load \in Seq(Entry) /\ Len(load) = k /\ \A i \in 1..k : load[i] = Loaded[i]
               /\ k = Len(Loaded) => load = Loaded
               /\ \A i \in 1..k : load[i].id <= added
               /\ \A i, j \in 1..k : i < j => load[i].id < load[j].id
<1> DEFINE all == Loaded
           load == SubSeq(all, 1, k)
<1>1. /\ all \in Seq(Entry) /\ LoadedInOrder /\ k \in 0..Len(all)
      /\ \A i \in 1..Len(all) : \E j \in 1..Len(lines) : all[i] = First(j)
  BY LoadedFromFile DEF StoreInv
<1>2. /\ \A i, j \in 1..Len(all) : i < j => all[i].id < all[j].id
      /\ \A i \in 1..Len(all) : all[i].id <= added
  <2>1. \A i, j \in 1..Len(all) : i < j => all[i].id < all[j].id
    BY <1>1 DEF LoadedInOrder
  <2>2. \A j \in 1..Len(lines) : First(j).id <= added
    BY DEF StoreInv, OrderInv
  <2> QED
    BY <1>1, <2>1, <2>2
<1> HIDE DEF all
<1>3. load \in Seq(Entry) /\ Len(load) = k /\ \A i \in 1..k : load[i] = all[i]
  BY <1>1
<1>4. k = Len(all) => load = all
  BY <1>1, <1>3, SeqEqual
<1>5. \A i \in 1..k : i \in 1..Len(all)
  BY <1>1
<1> QED
  BY <1>2, <1>3, <1>4, <1>5 DEF all

\* A restart takes what the file has, or what it could read of it.
LEMMA RestartKeeps ==
    ASSUME StoreInv, NEW k \in 0..Len(Loaded), pc' = "ready", session' = LoadBeginning(k),
           UNCHANGED <<exists, lines, ended, meta, tmp, added, crashes, returned>>,
           \/ k = Len(Loaded) /\ harm' = harm
           \/ harm' = harm \cup {"unread"}
    PROVE  StoreInv'
<1>1. /\ StoreTypeOK /\ session \in SessionOf /\ LineInv /\ OrderInv /\ CleanInv /\ CutInv
  BY DEF StoreInv
<1> DEFINE load == SubSeq(Loaded, 1, k)
           mark == IF meta = << >> THEN k ELSE meta[1]
<1>2. /\ UNCHANGED <<exists, lines, ended, meta, tmp, added, crashes, returned>>
      /\ pc' = "ready"
      /\ session' = LoadSession([exists |-> exists, lines |-> load, consolidated |-> mark])
      /\ harm' \subseteq Harms /\ (harm' = {} => harm = {} /\ k = Len(Loaded))
  BY <1>1 DEF LoadBeginning, StoreTypeOK, Harms
<1>3. /\ load \in Seq(Entry) /\ Len(load) = k
      /\ k = Len(Loaded) => load = Loaded
      /\ \A i \in 1..k : load[i].id <= added
      /\ \A i, j \in 1..k : i < j => load[i].id < load[j].id
  BY FirstOfFile
<1>4. k \in Nat /\ mark \in Nat
  <2>1. k \in Nat
    BY <1>3
  <2>2. meta \in Seq(Nat) /\ (meta # << >> => meta[1] \in Nat)
    BY <1>1 DEF StoreTypeOK
  <2> QED
    BY <2>1, <2>2
<1>6. CASE ~exists
  <2>1. session' = NewSession /\ lines = << >>
    BY <1>1, <1>2, <1>6 DEF LoadSession, LineInv
  <2>2. session' \in SessionOf /\ session'.msgs = << >> /\ session'.saved = 0
        /\ session'.consolidated = 0
    BY <2>1 DEF NewSession, SessionOf
  <2>3. StoreTypeOK'
    <3>1. << >> \in Seq(Entry) /\ Len(<< >>) = 0 /\ 0 \in 0..0 /\ 0 \in Nat
      OBVIOUS
    <3> QED
      BY <1>1, <1>2, <2>2, <3>1 DEF StoreTypeOK
  <2>4. LineInv' /\ OrderInv' /\ CutInv'
    <3>1. /\ Len(<< >>) = 0 /\ 1..0 = {} /\ 0 + 1..0 = {}
      OBVIOUS
    <3>2. LineInv'
      BY <1>1, <1>2, <2>1 DEF LineInv
    <3>3. Len(lines') = 0 /\ Len(session'.msgs) = 0 /\ 1..Len(lines') = {}
          /\ 1..Len(session'.msgs) = {}
      BY <1>2, <2>1, <2>2, <3>1
    <3>4. OrderInv'
      BY <3>3 DEF OrderInv
    <3>5. CutInv'
      <4>1. "cut" \in harm' => "cut" \in harm
        OBVIOUS
      <4> QED
        BY <1>1, <1>2, <4>1 DEF CutInv
    <3> QED
      BY <3>2, <3>4, <3>5
  <2>5. CleanInv'
    <3>1. Len(lines) = 0 /\ Len(<< >>) = 0
      BY <2>1
    <3>2. ASSUME harm = {} PROVE ended /\ \A r \in returned : FALSE
      BY <1>1, <3>1, <3>2 DEF CleanInv
    <3>3. harm' = {} => harm = {}
      BY <1>2
    <3>4. /\ UNCHANGED <<lines, ended, exists, returned>> /\ Len(session'.msgs) = 0
          /\ session'.saved = 0 /\ ~exists
      BY <1>2, <1>6, <2>2, <3>1
    <3> QED
      BY <3>1, <3>2, <3>3, <3>4 DEF CleanInv
  <2> QED
    BY <2>2, <2>3, <2>4, <2>5 DEF StoreInv
<1>7. CASE exists
  <2>1. /\ session' = [msgs |-> load, consolidated |-> mark, saved |-> Len(load), full |-> FALSE]
    BY <1>2, <1>7 DEF LoadSession
  <2>2. Len(load) \in Nat
    BY <1>3
  <2>9. load \in Seq(Entry)
    BY <1>3
  <2> HIDE DEF load, mark
  <2>3. /\ session' \in SessionOf /\ session'.msgs = load /\ session'.saved = Len(load)
        /\ session'.consolidated = mark
    <3>1. \A full \in BOOLEAN, n \in Nat :
             [msgs |-> load, consolidated |-> n, saved |-> Len(load), full |-> full]
             \in SessionOf
      BY <2>2, <2>9 DEF SessionOf
    <3>2. FALSE \in BOOLEAN /\ mark \in Nat
      BY <1>4
    <3>3. session' \in SessionOf
      BY <2>1, <3>1, <3>2, Zenon
    <3>4. /\ session'.msgs = load /\ session'.saved = Len(load) /\ session'.consolidated = mark
      <4> DEFINE n == Len(load)
      <4> HIDE DEF n
      <4>1. session' = [msgs |-> load, consolidated |-> mark, saved |-> n, full |-> FALSE]
        BY <2>1 DEF n
      <4>2. session'.msgs = load /\ session'.saved = n /\ session'.consolidated = mark
        BY <4>1
      <4> QED
        BY <4>2 DEF n
    <3> QED
      BY <3>3, <3>4
  <2>4. StoreTypeOK'
    BY <1>1, <1>2, <1>4, <2>2, <2>3, <2>9 DEF StoreTypeOK
  <2>5. LineInv' /\ CutInv'
    <3>1. "cut" \in harm' => "cut" \in harm
      OBVIOUS
    <3> QED
      BY <1>1, <1>2, <1>7, <3>1 DEF LineInv, CutInv
  <2>6. OrderInv'
    <3>1. Len(load) + 1..Len(load) = {}
      BY <2>2
    <3> QED
      BY <1>1, <1>2, <1>3, <2>3, <3>1 DEF OrderInv, First
  <2>7. CleanInv'
    <3> SUFFICES ASSUME harm = {}, k = Len(Loaded) PROVE CleanInv!2'
      BY <1>2 DEF CleanInv
    <3>0. load = Loaded
      BY <1>3 DEF load
    <3>1. /\ ended /\ \A i \in 1..Len(lines) : lines[i] = Intact(session.msgs[i])
          /\ \A i \in 1..Len(session.msgs) : session.msgs[i].size = "short"
          /\ Len(lines) <= session.saved /\ session.saved <= Len(session.msgs)
          /\ Len(lines) \in Nat /\ session.saved \in Nat /\ Len(session.msgs) \in Nat
          /\ session.msgs \in Seq(Entry)
          /\ \A r \in returned : \E i \in 1..Len(lines) : session.msgs[i].id = r
      BY <1>1 DEF CleanInv, StoreTypeOK
    <3>2. ASSUME NEW i \in 1..Len(lines)
          PROVE  /\ session.msgs[i] \in Entry /\ session.msgs[i].size = "short"
                 /\ First(i) = session.msgs[i] /\ Parses(lines[i])
      <4>1. i \in 1..Len(session.msgs)
        BY <3>1
      <4>2. session.msgs[i] \in Entry /\ session.msgs[i].size = "short"
        BY <3>1, <4>1, Numbers
      <4> QED
        BY <3>1, <4>2, IntactLine DEF First, Parses
    <3>3. Len(load) = Len(lines) /\ \A i \in 1..Len(lines) : load[i] = First(i)
      <4>1. Len(lines) \in 0..Len(lines) /\ \A i \in 1..Len(lines) : i <= Len(lines)
        BY <3>1
      <4> QED
        BY <1>1, <3>0, <3>2, <4>1, LoadedPrefix
    <3>4. \A i \in 1..Len(lines) : load[i] = session.msgs[i] /\ load[i].size = "short"
      BY <3>2, <3>3
    <3> QED
      BY <1>2, <2>3, <3>1, <3>3, <3>4
  <2> QED
    BY <2>3, <2>4, <2>5, <2>6, <2>7 DEF StoreInv
<1> QED
  BY <1>6, <1>7

\* A file that cannot be opened counts as none.
LEMMA UnreadKeeps ==
    ASSUME StoreInv, RestartUnread
    PROVE  StoreInv'
<1>1. /\ UNCHANGED <<exists, lines, ended, meta, tmp, added, crashes, returned>>
      /\ pc' = "ready" /\ harm' = harm \cup {"unread"}
  BY DEF RestartUnread
<1>2. CASE session' = NewSession
  <2>1. StoreTypeOK /\ LineInv /\ OrderInv /\ CutInv
    BY DEF StoreInv
  <2>2. /\ session' \in SessionOf /\ session'.msgs = << >> /\ session'.saved = 0
        /\ session'.consolidated = 0
    BY <1>2 DEF NewSession, SessionOf
  <2>3. StoreTypeOK'
    <3>1. << >> \in Seq(Entry) /\ Len(<< >>) = 0 /\ 0 \in 0..0 /\ 0 \in Nat
      OBVIOUS
    <3> QED
      BY <1>1, <2>1, <2>2, <3>1 DEF StoreTypeOK, Harms
  <2>4. LineInv'
    BY <1>1, <2>1 DEF LineInv
  <2>5. OrderInv'
    <3>1. Len(session'.msgs) = 0 /\ 1..Len(session'.msgs) = {}
          /\ session'.saved + 1..Len(session'.msgs) = {}
      BY <2>2
    <3> QED
      BY <1>1, <2>1, <3>1 DEF OrderInv, First
  <2>6. CleanInv' /\ CutInv'
    BY <1>1, <2>1 DEF CleanInv, CutInv
  <2> QED
    BY <2>2, <2>3, <2>4, <2>5, <2>6 DEF StoreInv
<1>3. ASSUME NEW k \in 0..Len(Loaded), session' = LoadBeginning(k) PROVE StoreInv'
  BY <1>1, <1>3, RestartKeeps
<1> QED
  BY <1>2, <1>3 DEF RestartUnread

\* Every step of the session and its file keeps the invariant.
LEMMA StoreSteps == StoreInv /\ [StoreNext]_storeVars => StoreInv'
<1> SUFFICES ASSUME StoreInv, [StoreNext]_storeVars PROVE StoreInv'
  OBVIOUS
<1>1. ASSUME NEW size \in Sizes, Add(size) PROVE StoreInv'
  BY <1>1, AddKeeps
<1>2. ASSUME NEW n \in 0..MaxMessages,
             Rollback(n) \/ RenameShort(n) \/ AppendShort(n) \/ CrashInAppend(n)
      PROVE  StoreInv'
  BY <1>2, RollbackKeeps, RenameShortKeeps, AppendShortKeeps, CutKeeps
<1>3. CASE Consolidate \/ Rewrite \/ RenameFails \/ Crash
  BY <1>3, MarksKeep
<1>4. CASE Rename
  BY <1>4, RenameKeeps
<1>5. CASE AppendUnsaved
  BY <1>5, AppendKeeps
<1>6. CASE Restart
  <2>1. Len(Loaded) \in 0..Len(Loaded)
    BY LoadedFromFile DEF StoreInv
  <2> QED
    BY <1>6, <2>1, RestartKeeps DEF Restart
<1>8. CASE RestartUnread
  BY <1>8, UnreadKeeps
<1>7. CASE UNCHANGED storeVars
  <2> USE <1>7 DEF StoreInv, storeVars
  <2>1. StoreTypeOK' /\ (session \in SessionOf)' /\ LineInv'
    BY DEF StoreTypeOK, LineInv, SessionOf
  <2>2. OrderInv' /\ CleanInv'
    BY DEF OrderInv, CleanInv, First
  <2>3. CutInv'
    BY DEF CutInv, LoadsFirst, Parses, First
  <2> QED
    BY <2>1, <2>2, <2>3
<1> QED
  BY <1>1, <1>2, <1>3, <1>4, <1>5, <1>6, <1>7, <1>8 DEF StoreNext

\* What was reported to be saved is loaded, once and in order.
LEMMA StoreHolds == StoreInv => StoreSafe
<1> SUFFICES ASSUME StoreInv PROVE StoreSafe
  OBVIOUS
<1>1. StoreTypeOK /\ session \in SessionOf /\ LineInv /\ OrderInv /\ CleanInv
  BY DEF StoreInv
<1>2. LoadedInOrder
  BY <1>1, LoadedFromFile
<1>3. ASSUME harm = {} PROVE returned \subseteq LoadedIds
  <2>1. /\ \A i \in 1..Len(lines) : lines[i] = Intact(session.msgs[i])
        /\ \A i \in 1..Len(session.msgs) : session.msgs[i].size = "short"
        /\ Len(lines) <= session.saved /\ session.saved <= Len(session.msgs)
        /\ Len(lines) \in Nat /\ session.saved \in Nat /\ Len(session.msgs) \in Nat
        /\ session.msgs \in Seq(Entry)
        /\ \A r \in returned : \E i \in 1..Len(lines) : session.msgs[i].id = r
    <3>1. /\ Len(lines) \in Nat /\ session.saved \in Nat /\ Len(session.msgs) \in Nat
          /\ session.msgs \in Seq(Entry) /\ session.saved <= Len(session.msgs)
      BY <1>1 DEF StoreTypeOK
    <3>2. /\ \A i \in 1..Len(lines) : lines[i] = Intact(session.msgs[i])
          /\ \A i \in 1..Len(session.msgs) : session.msgs[i].size = "short"
          /\ Len(lines) <= session.saved
          /\ \A r \in returned : \E i \in 1..Len(lines) : session.msgs[i].id = r
      BY <1>1, <1>3, Zenon DEF CleanInv
    <3> QED
      BY <3>1, <3>2
  <2>2. ASSUME NEW i \in 1..Len(lines)
        PROVE  First(i) = session.msgs[i] /\ Parses(lines[i])
    <3>1. i \in 1..Len(session.msgs)
      BY <2>1
    <3>2. session.msgs[i] \in Entry /\ session.msgs[i].size = "short"
      BY <2>1, <3>1, Numbers
    <3> QED
      BY <2>1, <3>2, IntactLine DEF First, Parses
  <2>3. Len(Loaded) = Len(lines) /\ \A i \in 1..Len(lines) : Loaded[i] = First(i)
    <3>1. Len(lines) \in 0..Len(lines) /\ \A i \in 1..Len(lines) : i <= Len(lines)
      BY <2>1
    <3> QED
      BY <1>1, <2>2, <3>1, LoadedPrefix
  <2> DEFINE load == Loaded
  <2> HIDE DEF load
  <2>4. \A r \in returned : \E i \in 1..Len(load) : load[i].id = r
    BY <2>1, <2>2, <2>3 DEF load
  <2> QED
    BY <2>4 DEF LoadedIds, load
<1> QED
  BY <1>2, <1>3 DEF StoreSafe, SavedSurvives

\* For any number of messages and crashes: what session_manager_save has reported as saved
\* is loaded after a restart, unless a line was too long for the reader, a rename failed, a
\* crash cut an append short, a write failed unnoticed or the file could not be read, and
\* session_manager_load never finds a message twice or out of order, whatever went wrong.
THEOREM SavesSurvive == StoreSpec => []StoreSafe
<1>1. StoreInit => StoreInv
  BY StoreStart
<1>2. StoreInv /\ [StoreNext]_storeVars => StoreInv'
  BY StoreSteps
<1> QED
  BY <1>1, <1>2, StoreHolds, PTL DEF StoreSpec

\* What a restart loads is the beginning of what was in memory.
LEMMA RestartLoadsPrefix ==
    ASSUME StoreInv, [StoreNext]_storeVars,
           harm = {} \/ (harm = {"cut"} /\ crashes = 1), pc = "down", pc' = "ready"
    PROVE  /\ Len(session'.msgs) <= Len(session.msgs)
           /\ session'.msgs = SubSeq(session.msgs, 1, Len(session'.msgs))
<1> DEFINE m == session.msgs
           load == Loaded
<1>1. /\ StoreTypeOK /\ session \in SessionOf /\ LineInv /\ OrderInv /\ CleanInv /\ CutInv
      /\ m \in Seq(Entry) /\ Len(m) \in Nat
  BY DEF StoreInv, StoreTypeOK
<1>2. Restart \/ RestartUnread
  BY DEF StoreNext, storeVars, Add, Rollback, CrashInAppend, Consolidate, Rewrite, Rename,
         RenameShort, RenameFails, AppendUnsaved, AppendShort, Crash
<1>0. Len(load) \in 0..Len(load)
  BY <1>1, LoadedFromFile
<1>3. session' = NewSession \/ \E k \in 0..Len(load) : session' = LoadBeginning(k)
  BY <1>0, <1>2 DEF Restart, RestartUnread
<1>4. CASE ~exists \/ session' = NewSession
  <2>1. session'.msgs = << >>
    BY <1>3, <1>4 DEF LoadBeginning, LoadSession, NewSession
  <2> QED
    BY <1>1, <2>1
<1>5. ASSUME exists, NEW j \in 0..Len(load), session' = LoadBeginning(j)
      PROVE  /\ Len(session'.msgs) <= Len(session.msgs)
             /\ session'.msgs = SubSeq(session.msgs, 1, Len(session'.msgs))
  <2>1. session'.msgs = SubSeq(load, 1, j)
    BY <1>5 DEF LoadBeginning, LoadSession
  <2>2. \E k \in 0..Len(lines) : LoadsFirst(k)
    <3>1. CASE harm = {}
      <4>1. /\ \A i \in 1..Len(lines) : lines[i] = Intact(m[i])
            /\ \A i \in 1..Len(m) : m[i].size = "short"
            /\ Len(lines) <= session.saved /\ session.saved <= Len(m)
            /\ Len(lines) \in Nat /\ session.saved \in Nat
        BY <1>1, <3>1 DEF CleanInv, StoreTypeOK
      <4>2. ASSUME NEW i \in 1..Len(lines)
            PROVE  First(i) = m[i] /\ Parses(lines[i]) /\ i <= Len(lines)
        <5>1. i \in 1..Len(m) /\ i <= Len(lines)
          BY <1>1, <4>1
        <5>2. m[i] \in Entry /\ m[i].size = "short"
          BY <1>1, <4>1, <5>1, Numbers
        <5> QED
          BY <4>1, <5>1, <5>2, IntactLine DEF First, Parses
      <4>3. Len(lines) \in 0..Len(lines) /\ Len(lines) <= Len(m)
        BY <1>1, <4>1
      <4>4. LoadsFirst(Len(lines))
        BY <4>2, <4>3 DEF LoadsFirst
      <4> QED
        BY <4>3, <4>4
    <3>2. CASE harm = {"cut"} /\ crashes = 1
      BY <1>1, <3>2 DEF CutInv
    <3> QED
      BY <3>1, <3>2
  <2>3. PICK k \in 0..Len(lines) : LoadsFirst(k)
    BY <2>2
  <2>4. Len(load) = k /\ (\A i \in 1..k : load[i] = First(i)) /\ load \in Seq(Entry)
    BY <1>1, <2>3, LoadedPrefix, LoadedFromFile DEF LoadsFirst
  <2>5. k <= Len(m) /\ k \in Nat /\ \A i \in 1..k : load[i] = m[i] /\ i \in 1..Len(m)
    BY <1>1, <2>3, <2>4 DEF LoadsFirst
  <2> HIDE DEF load
  <2>6. j <= k /\ j \in Nat /\ j <= Len(m) /\ \A i \in 1..j : i \in 1..k
    BY <1>1, <2>4, <2>5
  <2> DEFINE read == SubSeq(load, 1, j)
             part == SubSeq(m, 1, j)
  <2>7. read \in Seq(Entry) /\ Len(read) = j /\ \A i \in 1..j : read[i] = load[i]
    BY <2>4, <2>6
  <2>8. part \in Seq(Entry) /\ Len(part) = j /\ \A i \in 1..j : part[i] = m[i]
    BY <1>1, <2>6
  <2> HIDE DEF read, part
  <2>9. read = part
    BY <2>5, <2>6, <2>7, <2>8, SeqEqual
  <2> QED
    BY <2>1, <2>6, <2>7, <2>9 DEF read, part
<1> QED
  BY <1>3, <1>4, <1>5

\* For any number of messages: a restart loads an initial part of what was in memory when
\* the process died, also if this crash cut the append of session_manager_save short and
\* nothing had gone wrong before.
THEOREM RestartsLoadPrefix == StoreSpec => RestartIsPrefix
<1>1. StoreInit => StoreInv
  BY StoreStart
<1>2. StoreInv /\ [StoreNext]_storeVars => StoreInv'
  BY StoreSteps
<1>3. StoreInv /\ [StoreNext]_storeVars
      => [/\ harm = {} \/ (harm = {"cut"} /\ crashes = 1)
          /\ pc = "down" /\ pc' = "ready"
          => /\ Len(session'.msgs) <= Len(session.msgs)
             /\ session'.msgs = SubSeq(session.msgs, 1, Len(session'.msgs))]_storeVars
  BY RestartLoadsPrefix
<1> QED
  BY <1>1, <1>2, <1>3, PTL DEF StoreSpec, RestartIsPrefix

-----------------------------------------------------------------------------
(* The context window.                                                     *)

WindowMessage == [role : {"user", "assistant", "tool"}, req : {0}, calls : SUBSET Nat]

\* The transcript of a conversation: what is pending is its open chain, and calls without
\* an answer at once are followed by a user's message only if they were lost.
WindowInv ==
    /\ msgs \in Seq(WindowMessage) /\ Len(msgs) <= MaxLength
    /\ made \in Nat /\ pending \subseteq 1..made
    /\ \A i \in 1..Len(msgs) : msgs[i].calls \subseteq 1..made
    /\ Transcript(msgs, pending, lost)
    /\ msgs # << >> /\ MakesCalls(msgs[Len(msgs)]) => msgs[Len(msgs)].calls \subseteq pending
    /\ \A i, j \in 1..Len(msgs) :
           j = i + 1 /\ MakesCalls(msgs[i]) /\ msgs[j].role # "tool" => Abandoned(i)

\* A message that is added keeps the rest of the invariant.
LEMMA WindowGrows ==
    ASSUME WindowInv, NEW m \in WindowMessage, Len(msgs) < MaxLength, msgs' = Append(msgs, m),
           made' \in Nat, made <= made', m.calls \subseteq 1..made', pending' \subseteq 1..made',
           lost \subseteq lost', Transcript(msgs', pending', lost'),
           MakesCalls(m) => m.calls \subseteq pending',
           msgs # << >> /\ MakesCalls(msgs[Len(msgs)]) /\ m.role # "tool"
           => msgs[Len(msgs)].calls \subseteq lost'
    PROVE  WindowInv'
<1> DEFINE n == Len(msgs)
<1>1. /\ n \in Nat /\ Len(msgs') = n + 1 /\ msgs'[n + 1] = m /\ msgs' \in Seq(WindowMessage)
      /\ \A i \in 1..n : i \in 1..n + 1 /\ msgs'[i] = msgs[i] /\ i # n + 1
      /\ \A i \in 1..n + 1 : i \in 1..n \/ i = n + 1
      /\ n + 1 \in 1..n + 1
  BY Added DEF WindowInv
<1>2. Len(msgs') <= MaxLength
  BY <1>1, WindowAssumption
<1>3. \A i \in 1..n + 1 : msgs'[i].calls \subseteq 1..made'
  <2>1. /\ made \in Nat /\ 1..made \subseteq 1..made'
        /\ \A i \in 1..n : msgs[i].calls \subseteq 1..made
    BY DEF WindowInv
  <2> QED
    BY <1>1, <2>1
<1>4. MakesCalls(msgs'[Len(msgs')]) => msgs'[Len(msgs')].calls \subseteq pending'
  BY <1>1
<1>5. ASSUME NEW i \in 1..n + 1, NEW j \in 1..n + 1, j = i + 1, MakesCalls(msgs'[i]),
             msgs'[j].role # "tool"
      PROVE  msgs'[i].calls \subseteq lost'
  <2>1. i \in 1..n
    BY <1>1, <1>5
  <2>2. CASE j \in 1..n
    <3>1. msgs[i].calls \subseteq lost
      BY <1>1, <1>5, <2>1, <2>2 DEF WindowInv, Abandoned
    <3> QED
      BY <1>1, <2>1, <3>1
  <2>3. CASE j = n + 1
    <3>1. i = n /\ msgs # << >> /\ msgs'[i] = msgs[n] /\ msgs'[j] = m
      BY <1>1, <1>5, <2>1, <2>3
    <3> QED
      BY <1>5, <3>1
  <2> QED
    BY <1>1, <2>2, <2>3
<1>6. \A i, j \in 1..n + 1 :
          j = i + 1 /\ MakesCalls(msgs'[i]) /\ msgs'[j].role # "tool" => Abandoned(i)'
  BY <1>5 DEF Abandoned
<1> QED
  BY <1>1, <1>2, <1>3, <1>4, <1>6 DEF WindowInv

\* An empty transcript.
LEMMA WindowStarts == WindowInit => WindowInv
<1> SUFFICES ASSUME WindowInit PROVE WindowInv
  OBVIOUS
<1>1. msgs = << >> /\ pending = {} /\ made = 0 /\ lost = {}
  BY DEF WindowInit
<1>2. Len(msgs) = 0 /\ 1..Len(msgs) = {} /\ msgs \in Seq(WindowMessage) /\ 0 <= MaxLength
  BY <1>1, WindowAssumption
<1>3. Transcript(msgs, pending, lost)
  BY <1>1, EmptyTranscript
<1> QED
  BY <1>1, <1>2, <1>3 DEF WindowInv

\* The calls that the model makes next are new.
LEMMA NewCalls ==
    ASSUME NEW k \in Nat, NEW n \in Nat \ {0}
    PROVE  LET C == k + 1..k + n
           IN  /\ IsFiniteSet(C) /\ C # {} /\ C \subseteq 1..k + n /\ C \cap 1..k = {}
               /\ C \subseteq Nat
<1>1. k + 1 \in k + 1..k + n /\ k + 1 \in Int /\ k + n \in Int
  OBVIOUS
<1>2. IsFiniteSet(k + 1..k + n)
  BY <1>1, FS_Interval
<1>3. k + 1..k + n \subseteq 1..k + n /\ (k + 1..k + n) \cap 1..k = {}
      /\ k + 1..k + n \subseteq Nat
  OBVIOUS
<1> QED
  BY <1>1, <1>2, <1>3, Zenon

\* Every step of the conversation keeps the invariant.
LEMMA WindowSteps == WindowInv /\ [WindowNext]_windowVars => WindowInv'
<1> SUFFICES ASSUME WindowInv, [WindowNext]_windowVars PROVE WindowInv'
  OBVIOUS
<1>1. /\ msgs \in Seq(WindowMessage) /\ made \in Nat /\ pending \subseteq 1..made
      /\ Transcript(msgs, pending, lost)
      /\ msgs # << >> /\ MakesCalls(msgs[Len(msgs)]) => msgs[Len(msgs)].calls \subseteq pending
      /\ \A i \in 1..Len(msgs) : msgs[i].calls \subseteq 1..made
  BY DEF WindowInv
<1>2. pending = {} => (msgs # << >> => ~MakesCalls(msgs[Len(msgs)]))
  BY <1>1 DEF MakesCalls
<1>3. ASSUME NEW m \in {User(0), Assistant(0, {})}, Speak(m) PROVE WindowInv'
  <2>1. m \in WindowMessage /\ m.role \in {"user", "assistant"} /\ m.calls = {} /\ ~MakesCalls(m)
    BY DEF User, Assistant, WindowMessage, MakesCalls
  <2>2. /\ msgs' = Append(msgs, m) /\ pending = {} /\ pending' = {} /\ made' = made
        /\ lost' = lost /\ Len(msgs) < MaxLength
    BY <1>3 DEF Speak
  <2>3. Transcript(msgs', pending', lost')
    BY <1>1, <2>1, <2>2, TextAdded
  <2>4. made <= made' /\ m.calls \subseteq 1..made' /\ pending' \subseteq 1..made'
        /\ lost \subseteq lost' /\ made' \in Nat
    BY <1>1, <2>1, <2>2
  <2> QED
    BY <1>2, <2>1, <2>2, <2>3, <2>4, WindowGrows
<1>4. ASSUME NEW n \in 1..MaxCalls, Call(n) PROVE WindowInv'
  <2> DEFINE C == made + 1..made + n
             m == Assistant(0, C)
  <2>1. n \in Nat \ {0} /\ made + n \in Nat /\ made <= made + n
    BY <1>1, WindowAssumption
  <2>2. /\ IsFiniteSet(C) /\ C # {} /\ C \subseteq 1..made + n /\ C \cap 1..made = {}
        /\ C \subseteq Nat
    BY <1>1, <2>1, NewCalls
  <2>3. /\ msgs' = Append(msgs, m) /\ pending = {} /\ pending' = C /\ made' = made + n
        /\ lost' = lost /\ Len(msgs) < MaxLength
    BY <1>4 DEF Call
  <2> HIDE DEF C
  <2>4. m \in WindowMessage /\ m.role = "assistant" /\ m.calls = C
    BY <2>2 DEF Assistant, WindowMessage
  <2> HIDE DEF m
  <2>5. \A i \in 1..Len(msgs) : msgs[i].role = "assistant" => msgs[i].calls \cap m.calls = {}
    BY <1>1, <2>2, <2>4
  <2>6. Transcript(msgs', pending', lost')
    BY <1>1, <2>2, <2>3, <2>4, <2>5, CallsAdded
  <2> QED
    BY <1>2, <2>1, <2>2, <2>3, <2>4, <2>6, WindowGrows
<1>5. ASSUME NEW c \in pending, Answer(c) PROVE WindowInv'
  <2> DEFINE m == ToolAnswer(0, c)
  <2>1. /\ m \in WindowMessage /\ m.role = "tool" /\ m.calls = {c} /\ ~MakesCalls(m)
    BY <1>1 DEF ToolAnswer, WindowMessage, MakesCalls
  <2>2. /\ msgs' = Append(msgs, m) /\ pending' = pending \ {c} /\ made' = made
        /\ lost' = lost /\ Len(msgs) < MaxLength
    BY <1>5 DEF Answer
  <2> HIDE DEF m
  <2>3. Transcript(msgs', pending', lost')
    BY <1>1, <2>1, <2>2, AnswerAdded
  <2>4. made <= made' /\ m.calls \subseteq 1..made' /\ pending' \subseteq 1..made'
        /\ lost \subseteq lost' /\ made' \in Nat
    BY <1>1, <2>1, <2>2
  <2> QED
    BY <2>1, <2>2, <2>3, <2>4, WindowGrows
<1>6. CASE Revive
  <2> DEFINE m == User(0)
  <2>1. m \in WindowMessage /\ m.role = "user" /\ m.calls = {} /\ ~MakesCalls(m)
    BY DEF User, WindowMessage, MakesCalls
  <2>2. /\ msgs' = Append(msgs, m) /\ pending # {} /\ pending' = {} /\ made' = made
        /\ lost' = lost \cup pending /\ Len(msgs) < MaxLength
    BY <1>6 DEF Revive
  <2> HIDE DEF m
  <2>3. Transcript(msgs', pending', lost')
    BY <1>1, <2>1, <2>2, UserAfterLoss
  <2>4. made <= made' /\ m.calls \subseteq 1..made' /\ pending' \subseteq 1..made'
        /\ lost \subseteq lost' /\ made' \in Nat
    BY <1>1, <2>1, <2>2
  <2>5. msgs # << >> /\ MakesCalls(msgs[Len(msgs)]) => msgs[Len(msgs)].calls \subseteq lost'
    BY <1>1, <2>2
  <2> QED
    BY <2>1, <2>2, <2>3, <2>4, <2>5, WindowGrows
<1>7. CASE UNCHANGED windowVars
  BY <1>7 DEF WindowInv, windowVars, Abandoned
<1> QED
  BY <1>3, <1>4, <1>5, <1>6, <1>7 DEF WindowNext, Full

\* The boundary that the window is compared with is the only one that fits.
LEMMA ShortestIs ==
    ASSUME NEW max, NEW from, Len(msgs) \in Nat,
           from = IF Len(msgs) <= max THEN 1 ELSE Len(msgs) - max + 1,
           NEW h \in 1..Len(msgs), msgs[h].role # "tool", h <= from,
           \A j \in 1..Len(msgs) : msgs[j].role # "tool" /\ j <= from => j <= h
    PROVE  ShortestWhole(max) = h
<1> DEFINE P(i) == i <= from /\ \A j \in Boundaries : j <= from => j <= i
<1>1. \A j \in Boundaries : j \in 1..Len(msgs) /\ msgs[j].role # "tool"
  BY DEF Boundaries
<1>2. h \in Boundaries /\ P(h)
  BY <1>1 DEF Boundaries
<1>3. \A i \in Boundaries : P(i) => i = h
  <2> SUFFICES ASSUME NEW i \in Boundaries, P(i) PROVE i = h
    OBVIOUS
  <2>1. i \in Nat /\ h \in Nat /\ i <= h /\ h <= i
    BY <1>1, <1>2
  <2> QED
    BY <2>1
<1>4. ShortestWhole(max) = CHOOSE i \in Boundaries : P(i)
  BY DEF ShortestWhole
<1> HIDE DEF P
<1> QED
  BY <1>2, <1>3, <1>4

\* The window is the shortest that cuts no chain of calls and answers in two.
LEMMA StartIsShortest == ASSUME WindowInv PROVE WindowIsShortest
<1> SUFFICES ASSUME msgs # << >>, NEW max \in 1..MaxLength
             PROVE  LET i == ShortestWhole(max)
                    IN  ContextStart(msgs, max) = IF i > 1 /\ Len(msgs) > max /\ Abandoned(i - 1)
                                                  THEN i - 1 ELSE i
  BY DEF WindowIsShortest
<1> DEFINE n == Len(msgs)
           from == IF n <= max THEN 1 ELSE n - max + 1
<1>1. /\ msgs \in Seq(WindowMessage) /\ Transcript(msgs, pending, lost) /\ n \in Nat
      /\ max \in Nat \ {0}
      /\ InChains(msgs) /\ CallsApart(msgs) /\ NotAskedTwice(msgs)
  BY WindowAssumption DEF WindowInv, Transcript
<1>2. /\ from \in 1..n
      /\ ContextStart(msgs, max) = IF n <= max THEN 1 ELSE StepBack(msgs, from)
      /\ ContextStart(msgs, max) \in 1..n
      /\ msgs[ContextStart(msgs, max)].role # "tool"
  BY <1>1, WindowStart
<1>3. CASE n <= max
  <2>1. from = 1 /\ 1 \in 1..n /\ msgs[1].role # "tool" /\ ~(n > max) /\ 1 <= 1
        /\ \A j \in 1..n : j <= 1 => j <= 1
    BY <1>1, <1>2, <1>3
  <2>2. ShortestWhole(max) = 1
    BY <1>1, <1>3, <2>1, ShortestIs
  <2> QED
    BY <1>2, <1>3, <2>1, <2>2
<1>4. CASE ~(n <= max) /\ msgs[from].role = "tool"
  <2> DEFINE h == StepBack(msgs, from)
  <2>1. AnswersTo(msgs, h, from) /\ h \in 1..n /\ ContextStart(msgs, max) = h
    BY <1>1, <1>2, <1>4, StepBackIs
  <2>2. /\ h < from /\ msgs[h].role = "assistant" /\ msgs[h].role # "tool"
        /\ \A j \in 1..n : msgs[j].role # "tool" /\ j <= from => j <= h
    BY <1>1, <1>2, <2>1, HeadIsNearest
  <2> HIDE DEF h
  <2>3. ShortestWhole(max) = h
    <3>1. h <= from
      BY <1>2, <2>1, <2>2
    <3> HIDE DEF from
    <3>2. from = IF n <= max THEN 1 ELSE n - max + 1
      BY DEF from
    <3>3. Len(msgs) \in Nat /\ h \in 1..Len(msgs) /\ msgs[h].role # "tool"
      BY <1>1, <2>1, <2>2
    <3>4. \A j \in 1..Len(msgs) : msgs[j].role # "tool" /\ j <= from => j <= h
      BY <2>2
    <3> HIDE DEF n
    <3>5. from = IF Len(msgs) <= max THEN 1 ELSE Len(msgs) - max + 1
      BY <3>2 DEF n
    <3> QED
      BY <3>1, <3>3, <3>4, <3>5, ShortestIs
  <2>4. h > 1 => ~Abandoned(h - 1)
    <3>1. ASSUME h > 1 PROVE h - 1 \in 1..n /\ h = (h - 1) + 1
      BY <1>1, <2>1, <3>1
    <3> QED
      BY <1>1, <2>1, <2>2, <3>1 DEF NotAskedTwice, Abandoned
  <2> QED
    BY <2>1, <2>3, <2>4
<1>5. CASE ~(n <= max) /\ msgs[from].role # "tool"
  <2>1. StepBack(msgs, from) = IF from > 1 /\ MakesCalls(msgs[from - 1]) THEN from - 1 ELSE from
    BY <1>1, <1>2, <1>5, StepBackIs
  <2>2. ShortestWhole(max) = from
    <3>1. from <= from /\ \A j \in 1..n : j <= from => j <= from
      BY <1>2
    <3>2. from = IF n <= max THEN 1 ELSE n - max + 1
      OBVIOUS
    <3> HIDE DEF from
    <3> QED
      BY <1>1, <1>2, <1>5, <3>1, <3>2, ShortestIs
  <2>3. from > 1 => (MakesCalls(msgs[from - 1]) <=> Abandoned(from - 1))
    <3> HIDE DEF from
    <3>1. ASSUME from > 1 PROVE from - 1 \in 1..n /\ from = (from - 1) + 1
      BY <1>1, <1>2, <3>1
    <3> QED
      BY <1>2, <1>5, <3>1 DEF WindowInv, Abandoned
  <2>4. n > max
    BY <1>1, <1>5
  <2> HIDE DEF from
  <2> QED
    BY <1>2, <1>5, <2>1, <2>2, <2>3, <2>4
<1> QED
  BY <1>3, <1>4, <1>5

\* Whatever the conversation, the window that the model is sent starts at the nearest
\* boundary of a tool chain and can be sent, but for calls whose tools died with a process.
THEOREM WindowIsSafe == WindowSpec => []WindowSafe
<1>1. WindowInit => WindowInv
  BY WindowStarts
<1>2. WindowInv /\ [WindowNext]_windowVars => WindowInv'
  BY WindowSteps
<1>3. WindowInv => WindowSafe
  <2> SUFFICES ASSUME WindowInv PROVE WindowSafe
    OBVIOUS
  <2>1. WindowWellFormed
    <3>1. msgs \in Seq(WindowMessage) /\ Transcript(msgs, pending, lost)
      BY DEF WindowInv
    <3>2. \A max \in 1..MaxLength : max \in Nat \ {0}
      BY WindowAssumption
    <3> QED
      BY <3>1, <3>2, WindowIsWellFormed DEF WindowWellFormed
  <2> QED
    BY <2>1, StartIsShortest DEF WindowSafe
<1> QED
  BY <1>1, <1>2, <1>3, PTL DEF WindowSpec
=============================================================================
