--------------------------- MODULE AgentLoopProofs ---------------------------
(***************************************************************************)
(* For any number of sessions, requests, turns and tool calls: the agent   *)
(* loop keeps its types; without skill commands each session is the state  *)
(* machine SessionFlow, every result finds the task that asked for it, and *)
(* every request is in one place until it has its one final reply; without *)
(* cron jobs the session files follow the sessions.                        *)
(***************************************************************************)
EXTENDS AgentLoop, SequenceFacts

-----------------------------------------------------------------------------
(* The inductive invariant.                                                *)

Message == [role : {"user", "assistant", "tool"}, req : Request, calls : SUBSET Call]

\* A session never counts more messages as saved than it has.
SessionRecord == [msgs : Seq(Message), consolidated : Nat, saved : Nat, full : BOOLEAN]
SessionOK(s) == s \in SessionRecord /\ s.saved <= Len(s.msgs)
SessionsInv ==
    /\ DOMAIN sessions = Keys /\ sessions = [k \in Keys |-> sessions[k]]
    /\ \A k \in Keys : SessionOK(sessions[k])

\* What is on its way to session k is the model's answer to request r, the answers of
\* tools to it, or nothing.
LlmOnly(k, r) ==
    /\ \A c \in llm : c.key = k => c.req = r
    /\ \A t \in tools : t.key # k
    /\ \A e \in Elements(internal) : e.key = k => e.type = "llm" /\ e.req = r
ToolsOnly(k, r) ==
    /\ \A c \in llm : c.key # k
    /\ \A t \in tools : t.key = k => t.call[1] = r
    /\ \A e \in Elements(internal) : e.key = k => e.type = "tool" /\ e.call[1] = r

\* A session is idle and owed nothing, or has one task, which waits for the one answer
\* of the model or for as many tools as its counter says.  Fewer only after a close.
Asking(k) ==
    /\ tasks[k][1].state = "WAITING_LLM"
    /\ LlmOnly(k, tasks[k][1].req)
    /\ Owed(k) <= 1
Running(k) ==
    /\ tasks[k][1].state = "WAITING_TOOL"
    /\ ToolsOnly(k, tasks[k][1].req)
    /\ Owed(k) <= tasks[k][1].pending
    /\ ~closed => Owed(k) = tasks[k][1].pending
PhaseOK(k) ==
    \/ tasks[k] = << >> /\ Owed(k) = 0
    \/ Len(tasks[k]) = 1 /\ (Asking(k) \/ Running(k))

\* Where a request is before and while it is worked on.
Held(r) == r \in Elements(inbound) \/ r = hand \/ r \in Elements(inbox)
InTask(r) == \E k \in Keys : tasks[k] # << >> /\ tasks[k][1].req = r

\* Nothing is in two queues, or in one twice.
QueueInv ==
    /\ Distinct(inbound) /\ Distinct(inbox)
    /\ \A r \in Elements(inbound) : r # hand /\ r \notin Elements(inbox)
    /\ hand \notin Elements(inbox)

\* A task is of a request that arrived for its session and has left the queues.
TaskPlaced(k) ==
    tasks[k] # << >> => /\ tasks[k][1].req <= Len(requests)
                        /\ requests[tasks[k][1].req].key = k
                        /\ ~Held(tasks[k][1].req)

\* A request that is over is nowhere.
OverInv == \A r \in Request : Over(r) => r <= Len(requests) /\ ~Held(r) /\ ~InTask(r)

\* None is lost as long as the loop will run and the bus is open.
Open == (main = "new" \/ running) /\ ~closed
KeptInv == Open => \A r \in Request : Expected(r) => Over(r) \/ Held(r) \/ InTask(r)

PlacesInv ==
    QueueInv /\ (\A k \in Keys : TaskPlaced(k)) /\ OverInv /\ OneFinalReply /\ KeptInv

-----------------------------------------------------------------------------
(* Counting what is on its way.                                            *)

\* The places of a queue that hold an element of T.
At(q, T) == {i \in 1..Len(q) : q[i] \in T}

\* There are finitely many, and none exactly if the queue holds nothing of T.
LEMMA AtFinite ==
    ASSUME NEW S, NEW q \in Seq(S), NEW T
    PROVE  /\ IsFiniteSet(At(q, T)) /\ Cardinality(At(q, T)) \in Nat
           /\ Cardinality(At(q, T)) = 0 <=> \A e \in Elements(q) : e \notin T
<1>1. At(q, T) \in SUBSET (1..Len(q)) /\ Len(q) \in Nat
  BY DEF At
<1>2. IsFiniteSet(1..Len(q))
  BY <1>1, FS_Interval
<1>3. IsFiniteSet(At(q, T))
  BY <1>1, <1>2, FS_Subset
<1>4. Cardinality(At(q, T)) \in Nat /\ (Cardinality(At(q, T)) = 0 <=> At(q, T) = {})
  BY <1>3, FS_CardinalityType, FS_EmptySet
<1>5. At(q, T) = {} <=> \A e \in Elements(q) : e \notin T
  BY DEF At, Elements
<1> QED
  BY <1>3, <1>4, <1>5

\* Appending an element adds a place if it is in T.
LEMMA AtAppend ==
    ASSUME NEW S, NEW q \in Seq(S), NEW x \in S, NEW T
    PROVE  Cardinality(At(Append(q, x), T)) =
               Cardinality(At(q, T)) + (IF x \in T THEN 1 ELSE 0)
<1> DEFINE p == Append(q, x)
           n == Len(q) + 1
<1>1. /\ Len(p) = n /\ p[n] = x /\ \A i \in 1..Len(q) : p[i] = q[i]
      /\ \A i \in 1..n : i \in 1..Len(q) \/ i = n
      /\ 1..Len(q) \subseteq 1..n /\ n \in 1..n /\ n \notin 1..Len(q)
  OBVIOUS
<1> HIDE DEF p, n
<1>2. n \notin At(q, T)
  BY <1>1 DEF At
<1>3. IsFiniteSet(At(q, T)) /\ Cardinality(At(q, T)) \in Nat
  BY AtFinite
<1>4. CASE x \in T
  <2>1. At(p, T) = At(q, T) \cup {n}
    BY <1>1, <1>4 DEF At
  <2> QED
    BY <1>2, <1>3, <1>4, <2>1, FS_AddElement DEF p
<1>5. CASE x \notin T
  <2>1. At(p, T) = At(q, T)
    BY <1>1, <1>5 DEF At
  <2> QED
    BY <1>3, <1>5, <2>1 DEF p
<1> QED
  BY <1>4, <1>5

\* Taking the first element removes its place, and moves the others by one.
LEMMA AtTail ==
    ASSUME NEW S, NEW q \in Seq(S), q # << >>, NEW T
    PROVE  /\ Cardinality(At(Tail(q), T)) =
                 Cardinality(At(q, T)) - (IF Head(q) \in T THEN 1 ELSE 0)
           /\ Elements(Tail(q)) \subseteq Elements(q) /\ Head(q) \in Elements(q)
           /\ Tail(q) \in Seq(S) /\ Head(q) \in S
<1> DEFINE p == Tail(q)
           h == Head(q)
<1>1. /\ p \in Seq(S) /\ Len(p) = Len(q) - 1 /\ h = q[1] /\ h \in S
      /\ \A i \in 1..Len(p) : p[i] = q[i + 1]
  BY HeadTailProperties
<1>2. /\ Len(q) \in Nat /\ 1 \in 1..Len(q)
      /\ \A i \in 1..Len(p) : i \in Nat /\ i + 1 \in 1..Len(q) /\ i + 1 # 1
      /\ \A i \in 1..Len(q) : i = 1 \/ (i - 1 \in 1..Len(p) /\ (i - 1) + 1 = i)
  BY <1>1
<1> HIDE DEF p, h
<1> DEFINE rest == At(q, T) \ {1}
           shift == [i \in At(p, T) |-> i + 1]
<1>3. shift \in [At(p, T) -> rest]
  BY <1>1, <1>2 DEF At
<1>4. \A i, j \in At(p, T) : shift[i] = shift[j] => i = j
  <2>1. \A i \in At(p, T) : i \in Nat /\ shift[i] = i + 1
    BY <1>2 DEF At
  <2> HIDE DEF shift
  <2> QED
    BY <2>1
<1>5. ASSUME NEW y \in rest PROVE \E i \in At(p, T) : shift[i] = y
  <2>1. y \in 1..Len(q) /\ q[y] \in T /\ y # 1
    BY DEF At
  <2>2. y - 1 \in 1..Len(p) /\ (y - 1) + 1 = y
    BY <1>2, <2>1
  <2>3. y - 1 \in At(p, T)
    BY <1>1, <2>1, <2>2 DEF At
  <2>4. shift[y - 1] = y
    BY <2>2, <2>3
  <2> QED
    BY <2>3, <2>4
<1>6. shift \in Bijection(At(p, T), rest)
  BY <1>3, <1>4, <1>5 DEF Bijection, Injection, Surjection, IsInjective
<1>7. Cardinality(At(p, T)) = Cardinality(rest)
  BY <1>1, <1>6, AtFinite, FS_Bijection DEF ExistsBijection
<1>8. IsFiniteSet(At(q, T)) /\ Cardinality(At(q, T)) \in Nat
  BY AtFinite
<1>9. 1 \in At(q, T) <=> h \in T
  BY <1>1, <1>2 DEF At
<1>10. Elements(p) \subseteq Elements(q) /\ h \in Elements(q)
  BY <1>1, <1>2 DEF Elements
<1>11. Cardinality(rest) = Cardinality(At(q, T)) - (IF h \in T THEN 1 ELSE 0)
  <2>1. Cardinality(rest) =
            IF 1 \in At(q, T) THEN Cardinality(At(q, T)) - 1 ELSE Cardinality(At(q, T))
    BY <1>8, FS_RemoveElement
  <2> HIDE DEF rest
  <2> QED
    BY <1>8, <1>9, <2>1
<1> QED
  BY <1>1, <1>7, <1>10, <1>11 DEF p, h

-----------------------------------------------------------------------------
(* Sessions keep their types.                                              *)

\* Adding a message.
LEMMA AddMessageOK ==
    ASSUME NEW s, SessionOK(s), NEW m \in Message
    PROVE  SessionOK(AddMessage(s, m))
<1>1. Append(s.msgs, m) \in Seq(Message) /\ Len(Append(s.msgs, m)) = Len(s.msgs) + 1
      /\ Len(s.msgs) \in Nat
  BY DEF SessionOK, SessionRecord
<1> QED
  BY <1>1 DEF SessionOK, SessionRecord, AddMessage

\* Saving counts every message as saved.
LEMMA SaveOK ==
    ASSUME NEW s, SessionOK(s), NEW f
    PROVE  SessionOK(SessionAfterSave(s, f))
<1>1. Len(s.msgs) \in Nat
  BY DEF SessionOK, SessionRecord
<1>2. CASE NeedsFullSave(s, f)
  <2>1. SessionAfterSave(s, f) = [s EXCEPT !.saved = Len(s.msgs), !.full = FALSE]
    BY <1>2 DEF SessionAfterSave
  <2> DEFINE t == [s EXCEPT !.saved = Len(s.msgs), !.full = FALSE]
  <2>2. t \in SessionRecord
    BY <1>1 DEF SessionOK, SessionRecord
  <2>3. t.msgs = s.msgs /\ t.saved = Len(s.msgs)
    BY DEF SessionOK, SessionRecord
  <2> HIDE DEF t
  <2>4. SessionOK(t)
    BY <1>1, <2>2, <2>3 DEF SessionOK
  <2> QED
    BY <2>1, <2>4 DEF t
<1>3. CASE ~NeedsFullSave(s, f)
  <2>1. SessionAfterSave(s, f) = [s EXCEPT !.saved = Len(s.msgs)]
    BY <1>3 DEF SessionAfterSave, SessionOK, SessionRecord
  <2> QED
    BY <1>1, <2>1 DEF SessionOK, SessionRecord
<1> QED
  BY <1>2, <1>3

\* The two ends of maybe_auto_consolidate_memory.
LEMMA ConsolidateOK ==
    ASSUME NEW s, SessionOK(s)
    PROVE  SessionOK(Normalised(s)) /\ SessionOK(Consolidated(s))
<1>1. Len(s.msgs) \in Nat
  BY DEF SessionOK, SessionRecord
<1> QED
  BY <1>1 DEF SessionOK, SessionRecord, Normalised, Consolidated, Clamp

\* Rolling back pulls the marks back as well.
LEMMA RollbackOK ==
    ASSUME NEW s, SessionOK(s), NEW n \in Nat
    PROVE  SessionOK(RollbackMessages(s, n))
<1>1. CASE n >= Len(s.msgs)
  BY <1>1 DEF RollbackMessages
<1>2. CASE n < Len(s.msgs)
  <2> DEFINE m == SubSeq(s.msgs, 1, n)
  <2>1. s.msgs \in Seq(Message) /\ Len(s.msgs) \in Nat
    BY DEF SessionOK, SessionRecord
  <2>2. m \in Seq(Message) /\ Len(m) = n
    BY <1>2, <2>1, SubSeqProperties
  <2> DEFINE a == Clamp(s.saved, n)
             b == Clamp(s.consolidated, n)
  <2>3. a \in Nat /\ b \in Nat /\ a <= n
    BY DEF SessionOK, SessionRecord, Clamp
  <2>4. RollbackMessages(s, n) = [s EXCEPT !.msgs = m, !.saved = a, !.consolidated = b]
    BY <1>2, <2>1 DEF RollbackMessages, SessionOK, SessionRecord
  <2> HIDE DEF m, a, b
  <2> QED
    BY <2>2, <2>3, <2>4 DEF SessionOK, SessionRecord
<1> QED
  BY <1>1, <1>2 DEF SessionOK, SessionRecord

\* Saving for a task, and removing a task.
LEMMA TaskEndsOK ==
    ASSUME NEW s, SessionOK(s), NEW f, NEW t \in Task
    PROVE  SessionOK(Kept(t, s, f)) /\ SessionOK(Dropped(t, s))
  BY SaveOK, RollbackOK DEF Kept, Dropped, Task

\* The messages that handlers add.
LEMMA MessagesTyped ==
    ASSUME NEW r \in Request
    PROVE  /\ User(r) \in Message /\ Assistant(r, {}) \in Message
           /\ \A C \in SUBSET Call : Assistant(r, C) \in Message
           /\ \A c \in Call : ToolAnswer(r, c) \in Message
  BY DEF User, Assistant, ToolAnswer, Message

-----------------------------------------------------------------------------
(* The lists of tasks.                                                     *)

\* What stays of list L in list M: the tasks, but for state, turn, counter and
\* the cancelled flag.
SameTasks(L, M) ==
    /\ M \in Seq(Task) /\ Len(M) = Len(L)
    /\ \A i \in 1..Len(L) : /\ M[i].req = L[i].req /\ M[i].norecord = L[i].norecord
                            /\ M[i].before = L[i].before

\* Changing the first task.
LEMMA FirstChanged ==
    ASSUME NEW L \in Seq(Task), L # << >>, NEW t \in Task,
           t.req = L[1].req, t.norecord = L[1].norecord, t.before = L[1].before
    PROVE  SameTasks(L, [L EXCEPT ![1] = t]) /\ [L EXCEPT ![1] = t][1] = t
<1>1. 1 \in 1..Len(L) /\ Len(L) \in Nat
  OBVIOUS
<1> QED
  BY <1>1, ExceptSeq DEF SameTasks

\* There is a first task in a list that is not empty.
LEMMA FirstTask ==
    ASSUME NEW L \in Seq(Task), L # << >>
    PROVE  L[1] \in Task /\ 1 \in 1..Len(L) /\ Len(L) \in Nat
  OBVIOUS

\* A list of one task.
LEMMA OneTask ==
    ASSUME NEW L \in Seq(Task), Len(L) = 1
    PROVE  L # << >> /\ L[1] \in Task /\ Tail(L) = << >>
<1>1. L # << >>
  BY EmptySeq
<1>2. Tail(L) \in Seq(Task) /\ Len(Tail(L)) = 0
  BY <1>1, HeadTailProperties
<1>3. Tail(L) = << >>
  BY <1>2, EmptySeq
<1> QED
  BY <1>1, <1>3, FirstTask

\* A turn begins.
LEMMA TurnBegunList ==
    ASSUME NEW L \in Seq(Task), L # << >>
    PROVE  SameTasks(L, TurnBegun(L)) /\ TurnBegun(L)[1].state = "WAITING_LLM"
<1> DEFINE n == L[1].turn + 1
           t == [L[1] EXCEPT !.state = "WAITING_LLM", !.turn = n]
<1>1. L[1] \in Task /\ 1 \in 1..Len(L)
  BY FirstTask
<1>3. TurnBegun(L) = [L EXCEPT ![1] = t]
  BY <1>1 DEF TurnBegun, Task
<1>4. n \in Nat
  BY <1>1 DEF Task
<1> HIDE DEF n
<1>2. t \in Task /\ t.req = L[1].req /\ t.norecord = L[1].norecord /\ t.state = "WAITING_LLM"
      /\ t.before = L[1].before
  BY <1>1, <1>4 DEF Task
<1> HIDE DEF t
<1> QED
  BY <1>2, <1>3, FirstChanged

CountedDown(L) == [L EXCEPT ![1].pending = @ - 1]

\* A tool is counted down.
LEMMA CountedDownList ==
    ASSUME NEW L \in Seq(Task), L # << >>
    PROVE  /\ SameTasks(L, CountedDown(L))
           /\ CountedDown(L)[1].state = L[1].state
           /\ CountedDown(L)[1].pending = L[1].pending - 1
<1> DEFINE n == L[1].pending - 1
           t == [L[1] EXCEPT !.pending = n]
<1>1. L[1] \in Task /\ 1 \in 1..Len(L)
  BY FirstTask
<1>3. CountedDown(L) = [L EXCEPT ![1] = t]
  BY <1>1 DEF Task, CountedDown
<1>4. n \in Int
  BY <1>1 DEF Task
<1> HIDE DEF n
<1>2. t \in Task /\ t.req = L[1].req /\ t.norecord = L[1].norecord
      /\ t.before = L[1].before /\ t.state = L[1].state /\ t.pending = n
  BY <1>1, <1>4 DEF Task
<1> HIDE DEF t
<1> QED
  BY <1>2, <1>3, FirstChanged DEF n

Called(L, n) == [L EXCEPT ![1].state = "WAITING_TOOL", ![1].pending = n]

\* Tools are called.
LEMMA CalledList ==
    ASSUME NEW L \in Seq(Task), L # << >>, NEW n \in Int
    PROVE  /\ SameTasks(L, Called(L, n))
           /\ Called(L, n)[1].state = "WAITING_TOOL" /\ Called(L, n)[1].pending = n
<1> DEFINE t == [L[1] EXCEPT !.state = "WAITING_TOOL", !.pending = n]
<1>1. L[1] \in Task /\ 1 \in 1..Len(L)
  BY FirstTask
<1>2. t \in Task /\ t.req = L[1].req /\ t.norecord = L[1].norecord
      /\ t.before = L[1].before /\ t.state = "WAITING_TOOL" /\ t.pending = n
  BY <1>1 DEF Task
<1>3. Called(L, n) = [L EXCEPT ![1] = t]
  BY <1>1 DEF Task, Called
<1> HIDE DEF t
<1> QED
  BY <1>2, <1>3, FirstChanged

\* All tasks are cancelled.
LEMMA CancelledList ==
    ASSUME NEW L \in Seq(Task)
    PROVE  LET M == [i \in DOMAIN L |-> [L[i] EXCEPT !.cancelled = TRUE]]
           IN  /\ SameTasks(L, M)
               /\ \A i \in 1..Len(L) : M[i].state = L[i].state /\ M[i].pending = L[i].pending
<1> DEFINE M == [i \in DOMAIN L |-> [L[i] EXCEPT !.cancelled = TRUE]]
<1>1. Len(L) \in Nat /\ DOMAIN L = 1..Len(L) /\ \A i \in 1..Len(L) : L[i] \in Task
  OBVIOUS
<1>2. \A t \in Task : LET u == [t EXCEPT !.cancelled = TRUE]
                      IN  /\ u \in Task /\ u.req = t.req /\ u.norecord = t.norecord
                          /\ u.before = t.before
                          /\ u.state = t.state /\ u.pending = t.pending
  BY DEF Task
<1>3. /\ DOMAIN M = 1..Len(L)
      /\ \A i \in 1..Len(L) : /\ M[i] \in Task /\ M[i].req = L[i].req
                              /\ M[i].norecord = L[i].norecord /\ M[i].state = L[i].state
                              /\ M[i].pending = L[i].pending /\ M[i].before = L[i].before
  BY <1>1, <1>2
<1>4. M \in [1..Len(L) -> Task]
  BY <1>1, <1>2
<1>5. M \in Seq(Task) /\ Len(M) = Len(L)
  BY <1>1, <1>4
<1> HIDE DEF M
<1>6. SameTasks(L, M) /\ \A i \in 1..Len(L) : M[i].state = L[i].state /\ M[i].pending = L[i].pending
  BY <1>3, <1>5 DEF SameTasks
<1> QED
  BY <1>6 DEF M

\* The lists that the handlers of messages and results make of list L.
LEMMA AddedList ==
    ASSUME NEW L \in Seq(Task), NEW t \in Task
    PROVE  LET M == TurnBegun(Append(L, t))
           IN  /\ SameTasks(Append(L, t), M) /\ M[1].state = "WAITING_LLM"
               /\ Len(M) = Len(L) + 1
               /\ L = << >> => /\ M[1].req = t.req /\ M[1].norecord = t.norecord
                              /\ M[1].before = t.before
<1> DEFINE N == Append(L, t)
           M == TurnBegun(N)
<1>1. /\ N \in Seq(Task) /\ Len(N) = Len(L) + 1 /\ Len(L) \in Nat /\ N # << >>
  <2>1. Append(L, t) \in Seq(Task) /\ Len(Append(L, t)) = Len(L) + 1 /\ Len(L) \in Nat
    OBVIOUS
  <2> QED
    BY <2>1, EmptySeq
<1>2. L = << >> => N[1] = t
  OBVIOUS
<1>3. 1 \in 1..Len(N)
  BY <1>1
<1> HIDE DEF N
<1>4. SameTasks(N, M) /\ M[1].state = "WAITING_LLM"
  BY <1>1, TurnBegunList
<1> HIDE DEF M
<1>5. Len(M) = Len(L) + 1
  BY <1>1, <1>4 DEF SameTasks
<1>6. M[1].req = N[1].req /\ M[1].norecord = N[1].norecord /\ M[1].before = N[1].before
  BY <1>3, <1>4 DEF SameTasks
<1>7. L = << >> => M[1].req = t.req /\ M[1].norecord = t.norecord /\ M[1].before = t.before
  BY <1>2, <1>6
<1> QED
  BY <1>4, <1>5, <1>7 DEF M, N

-----------------------------------------------------------------------------
(* What the handlers do to tasks, calls and replies.                       *)

Event == [type : {"llm"}, key : Keys, req : Request, ask : Nat \ {0}, res : LlmResult]
         \cup [type : {"tool"}, key : Keys, call : Call]

\* A request that is taken up, and one that only gets a reply.
Begins(k, r) ==
    /\ \E b \in Nat : tasks' = TaskStarted(k, r, b)
    /\ TriggerLlm(k, r)
    /\ UNCHANGED replies
Answers(k, r) ==
    /\ \E kind \in {"busy", "command"} : replies' = Replied(r, kind)
    /\ tasks' \in {tasks, TasksCancelled(k)}
    /\ UNCHANGED <<llm, asks>>

\* The handler of a message begins a request, answers it at once or ignores it.
LEMMA MessageSteps ==
    ASSUME TypeOK, SessionsInv, TakeMessage
    PROVE  LET r == Head(inbox)
               k == requests[r].key
           IN  /\ r \in Request /\ r \in 1..Len(requests) /\ k \in Keys
               /\ inbox # << >> /\ inbox' = Tail(inbox) /\ worker' = "poll"
               /\ UNCHANGED <<main, running, told, closed, hand, requests, inbound,
                              internal, tools>>
               /\ \/ /\ requests[r].kind = "skill" \/ ~Busy(k)
                     /\ Begins(k, r)
                  \/ Answers(k, r)
                  \/ requests[r].kind = "empty" /\ UNCHANGED <<tasks, llm, asks, replies>>
<1> DEFINE r == Head(inbox)
           k == requests[r].key
<1>1. inbox # << >> /\ inbox \in Seq(1..Len(requests))
  BY DEF TakeMessage, TypeOK
<1>2. r \in 1..Len(requests)
  BY <1>1, HeadTailProperties
<1>3. r \in Request /\ k \in Keys
  <2>0. requests \in Seq([key : Keys, kind : Kinds])
    BY DEF TypeOK
  <2>1. requests[r] \in [key : Keys, kind : Kinds]
    BY <1>2, <2>0, ElementOfSeq
  <2>2. r \in Request
    BY <1>2, BoundsAssumption DEF TypeOK, Request
  <2> QED
    BY <2>1, <2>2
<1>4. Len(sessions[k].msgs) \in Nat /\ Len(AddMessage(sessions[k], User(r)).msgs) \in Nat
  <2>1. SessionOK(sessions[k]) /\ User(r) \in Message
    BY <1>3, MessagesTyped DEF SessionsInv
  <2>2. SessionOK(AddMessage(sessions[k], User(r)))
    BY <2>1, AddMessageOK
  <2> QED
    BY <2>1, <2>2 DEF SessionOK, SessionRecord
<1>5. /\ inbox' = Tail(inbox) /\ worker' = "poll" /\ ProcessInbound(r)
      /\ UNCHANGED <<main, running, told, closed, hand, requests, inbound, internal, tools>>
  BY DEF TakeMessage
<1> HIDE DEF r
<1>6. \/ /\ requests[r].kind = "skill" \/ ~Busy(k)
         /\ Begins(k, r)
      \/ Answers(k, r)
      \/ requests[r].kind = "empty" /\ UNCHANGED <<tasks, llm, asks, replies>>
  <2>1. CASE requests[r].kind \in {"chat", "job"} /\ ProcessChat(k, r)
    BY <1>4, <2>1 DEF ProcessChat, StartRequest, Begins, Answers
  <2>2. CASE requests[r].kind = "skill" /\ ProcessSkill(k, r)
    BY <1>4, <2>2 DEF ProcessSkill, Begins
  <2>3. CASE ProcessStop(k, r)
    BY <2>3 DEF ProcessStop, Answers
  <2>4. CASE ProcessNew(r)
    BY <2>4 DEF ProcessNew, Answers
  <2>5. CASE ProcessCommand(r)
    BY <2>5 DEF ProcessCommand, Answers
  <2>6. CASE requests[r].kind = "empty" /\ ProcessEmpty
    BY <2>6 DEF ProcessEmpty
  <2> QED
    BY <1>5, <2>1, <2>2, <2>3, <2>4, <2>5, <2>6 DEF ProcessInbound
<1> QED
  BY <1>1, <1>2, <1>3, <1>5, <1>6 DEF r

\* What a result e does to the session with key k and first task t: the request ends,
\* tools are called, another tool is waited for, or the model is asked again.
Ends(k, t) ==
    /\ \E kind \in Finals : replies' = Replied(t.req, kind)
    /\ tasks' = Removed(k)
    /\ UNCHANGED <<llm, tools, asks>>
Calls(k, t, e) ==
    /\ replies' \in {replies, Replied(t.req, "progress")}
    /\ tasks' = [tasks EXCEPT ![k] = Called(@, e.res.n)]
    /\ tools' = tools \cup [key : {k}, call : {<<e.req, e.ask, i>> : i \in 1..e.res.n}]
    /\ UNCHANGED <<llm, asks>>
Waits(k) ==
    /\ tasks' = [tasks EXCEPT ![k] = CountedDown(@)]
    /\ UNCHANGED <<llm, tools, asks, replies>>
AsksAgain(k, t) ==
    /\ tasks' = [tasks EXCEPT ![k] = TurnBegun(CountedDown(@))]
    /\ TriggerLlm(k, t.req)
    /\ UNCHANGED <<tools, replies>>

\* The handler of a result finds no task, or acts on the first one: never on the
\* cancelled flag, which the snapshot leaves out.
LEMMA EventSteps ==
    ASSUME TypeOK, TakeEvent
    PROVE  LET e == Head(internal)
               k == e.key
               t == tasks[k][1]
           IN  /\ e \in Event /\ k \in Keys
               /\ internal # << >> /\ internal' = Tail(internal)
               /\ UNCHANGED threadVars /\ UNCHANGED requests
               /\ \/ tasks[k] = << >> /\ UNCHANGED <<tasks, llm, tools, asks, replies>>
                  \/ /\ tasks[k] # << >>
                     /\ \/ e.type = "llm" /\ (Ends(k, t) \/ (e.res.n \in 1..MaxCalls /\ Calls(k, t, e)))
                        \/ e.type = "tool" /\ t.pending > 1 /\ Waits(k)
                        \/ e.type = "tool" /\ t.pending <= 1 /\ (Ends(k, t) \/ AsksAgain(k, t))
<1> DEFINE e == Head(internal)
           k == e.key
           t == tasks[k][1]
           effect ==
             \/ tasks[k] = << >> /\ UNCHANGED <<tasks, llm, tools, asks, replies>>
             \/ /\ tasks[k] # << >>
                /\ \/ e.type = "llm" /\ (Ends(k, t) \/ (e.res.n \in 1..MaxCalls /\ Calls(k, t, e)))
                   \/ e.type = "tool" /\ t.pending > 1 /\ Waits(k)
                   \/ e.type = "tool" /\ t.pending <= 1 /\ (Ends(k, t) \/ AsksAgain(k, t))
<1>1. internal # << >> /\ internal \in Seq(Event)
  BY DEF TakeEvent, TypeOK, Event
<1>2. e \in Event
  BY <1>1, HeadTailProperties
<1>3. k \in Keys
  BY <1>2 DEF Event
<1>4. /\ internal' = Tail(internal) /\ UNCHANGED threadVars /\ UNCHANGED requests
      /\ \/ e.type = "llm" /\ HandleLlmResult(e)
         \/ e.type = "tool" /\ HandleToolResult(e)
  BY DEF TakeEvent
<1> HIDE DEF e
<1>5. ASSUME tasks[k] = << >> PROVE effect
  <2>1. UNCHANGED <<tasks, llm, tools, asks, replies>>
    BY <1>4, <1>5 DEF HandleLlmResult, HandleToolResult
  <2> QED
    BY <1>5, <2>1
<1>6. ASSUME tasks[k] # << >> PROVE effect
  <2> DEFINE snap == Snapshot(k)
  <2>1. tasks \in [Keys -> Seq(Task)] /\ tasks[k] \in Seq(Task)
    BY <1>3 DEF TypeOK
  <2>2. t \in Task
    BY <1>6, <2>1, FirstTask
  <2>3. /\ ~snap.cancelled /\ snap.req = t.req /\ snap.pending = t.pending
        /\ t.pending \in Int
    BY <2>2 DEF Snapshot, Task
  <2> HIDE DEF snap
  <2>4. CASE e.type = "llm" /\ HandleLlmResult(e)
    <3>1. \/ e.res.kind \in {"error", "answer", "blank"} /\ EndRequest(k, snap, e.res.kind)
          \/ e.res.kind \in {"calls", "talk"} /\ CallTools(k, snap, e)
      BY <1>6, <2>3, <2>4 DEF HandleLlmResult, snap
    <3>2. CASE e.res.kind \in {"error", "answer", "blank"} /\ EndRequest(k, snap, e.res.kind)
      <4>1. Ends(k, t)
        BY <2>3, <3>2 DEF EndRequest, Ends, Finals
      <4> QED
        BY <1>6, <2>4, <4>1
    <3>3. CASE e.res.kind \in {"calls", "talk"} /\ CallTools(k, snap, e)
      <4>1. e.res \in LlmResult
        BY <1>2, <2>4 DEF Event
      <4>2. e.res.n \in 1..MaxCalls
        BY <3>3, <4>1 DEF LlmResult
      <4>3. Calls(k, t, e)
        <5>1. tasks' = [tasks EXCEPT ![k] = Called(@, e.res.n)]
          BY <1>3, <1>6, <2>1, <2>2, <3>3 DEF CallTools, Called
        <5> QED
          BY <2>3, <3>3, <5>1 DEF CallTools, Calls
      <4> QED
        BY <1>6, <2>4, <4>2, <4>3
    <3> QED
      BY <3>1, <3>2, <3>3
  <2>5. CASE e.type = "tool" /\ HandleToolResult(e)
    <3>1. RecordToolResult(k, snap, e) /\ UNCHANGED tools
      BY <1>6, <2>3, <2>5 DEF HandleToolResult, snap
    <3>2. Decremented(k) = [tasks EXCEPT ![k] = CountedDown(@)]
      BY DEF Decremented, CountedDown
    <3>3. CASE Remaining(snap) > 0
      <4>1. t.pending > 1 /\ Waits(k)
        BY <2>3, <3>1, <3>2, <3>3 DEF RecordToolResult, Waits, Remaining
      <4> QED
        BY <1>6, <2>5, <4>1
    <3>4. CASE ~(Remaining(snap) > 0)
      <4>1. t.pending <= 1
        BY <2>3, <3>4 DEF Remaining
      <4>2. CASE TurnsUsedUp(snap)
        <5>1. Ends(k, t)
          BY <2>3, <3>1, <3>4, <4>2 DEF RecordToolResult, Ends, Finals
        <5> QED
          BY <1>6, <2>5, <4>1, <5>1
      <4>3. CASE ~TurnsUsedUp(snap)
        <5>1. tasks' = [Decremented(k) EXCEPT ![k] = TurnBegun(@)] /\ TriggerLlm(k, t.req)
              /\ UNCHANGED replies
          BY <2>3, <3>1, <3>4, <4>3 DEF RecordToolResult
        <5>2. tasks' = [tasks EXCEPT ![k] = TurnBegun(CountedDown(@))]
          <6> DEFINE X == CountedDown(tasks[k])
          <6>1. Decremented(k) = [tasks EXCEPT ![k] = X]
            BY <3>2
          <6> HIDE DEF X
          <6>2. tasks' = [tasks EXCEPT ![k] = TurnBegun(X)]
            BY <1>3, <2>1, <5>1, <6>1
          <6> QED
            BY <6>2 DEF X
        <5>3. AsksAgain(k, t)
          BY <3>1, <5>1, <5>2 DEF AsksAgain
        <5> QED
          BY <1>6, <2>5, <4>1, <5>3
      <4> QED
        BY <4>2, <4>3
    <3> QED
      BY <3>3, <3>4
  <2> QED
    BY <1>4, <2>4, <2>5
<1>7. effect
  BY <1>5, <1>6
<1> HIDE DEF t, effect
<1> QED
  BY <1>1, <1>2, <1>3, <1>4, <1>7 DEF e, t, effect

-----------------------------------------------------------------------------
(* Types.                                                                  *)

\* The types of what the threads and the bus have, and of what handlers change.
ThreadTypes ==
    /\ main \in {"new", "loop", "hand", "closing", "join", "done"}
    /\ worker \in {"off", "poll", "inbox", "check", "exited"}
    /\ running \in BOOLEAN /\ told \in {"no", "early", "yes"} /\ closed \in BOOLEAN
    /\ requests \in Seq([key : Keys, kind : Kinds]) /\ Len(requests) <= MaxRequests
    /\ hand \in 0..Len(requests) /\ (hand # 0 <=> main = "hand")
    /\ inbound \in Seq(1..Len(requests))
    /\ inbox \in Seq(1..Len(requests))
HandlerTypes ==
    /\ internal \in Seq(Event)
    /\ tasks \in [Keys -> Seq(Task)]
    /\ llm \subseteq [key : Keys, req : Request, ask : Nat \ {0}]
    /\ tools \subseteq [key : Keys, call : Call]
    /\ asks \in [Request -> Nat]
    /\ replies \in [Request -> Seq(Finals \cup {"progress"})]

\* The type invariant has these parts.
LEMMA TypeParts == SessionsInv => (TypeOK <=> ThreadTypes /\ HandlerTypes)
<1>1. ASSUME SessionsInv PROVE \A k \in Keys : sessions[k].saved <= Len(sessions[k].msgs)
  BY <1>1 DEF SessionsInv, SessionOK
<1> QED
  BY <1>1 DEF TypeOK, ThreadTypes, HandlerTypes, Event

\* A reply of a handler.
LEMMA RepliedTyped ==
    ASSUME HandlerTypes, NEW r \in Request, NEW kind \in Finals \cup {"progress"}
    PROVE  Replied(r, kind) \in [Request -> Seq(Finals \cup {"progress"})]
<1> DEFINE K == Finals \cup {"progress"}
           q == Append(replies[r], kind)
<1>1. replies \in [Request -> Seq(K)]
  BY DEF HandlerTypes
<1> HIDE DEF K
<1>2. q \in Seq(K)
  <2>1. kind \in K
    BY DEF K
  <2> QED
    BY <1>1, <2>1
<1>3. Replied(r, kind) \in {replies, [replies EXCEPT ![r] = q]}
  BY DEF Replied
<1> HIDE DEF q
<1>4. [replies EXCEPT ![r] = q] \in [Request -> Seq(K)]
  BY <1>1, <1>2
<1> QED
  BY <1>1, <1>3, <1>4 DEF K

\* A new call of the model.
LEMMA TriggerTyped ==
    ASSUME HandlerTypes, NEW k \in Keys, NEW r \in Request, TriggerLlm(k, r)
    PROVE  /\ llm' \subseteq [key : Keys, req : Request, ask : Nat \ {0}]
           /\ asks' \in [Request -> Nat]
<1> DEFINE n == asks[r] + 1
<1>1. asks \in [Request -> Nat] /\ n \in Nat \ {0}
  BY DEF HandlerTypes
<1>2. asks' = [asks EXCEPT ![r] = n] /\ llm' = llm \cup {[key |-> k, req |-> r, ask |-> n]}
  BY DEF TriggerLlm
<1> HIDE DEF n
<1> QED
  BY <1>1, <1>2 DEF HandlerTypes

\* The threads, arrivals and stops keep the types of the threads.
LEMMA ThreadTypesKept ==
    ASSUME ThreadTypes, SessionsInv, TypeOK, Next
    PROVE  ThreadTypes'
<1>1. ASSUME NEW k \in Keys, NEW kind \in Kinds, Arrive(k, kind) PROVE ThreadTypes'
  <2> DEFINE n == Len(requests)
             x == [key |-> k, kind |-> kind]
  <2>1. x \in [key : Keys, kind : Kinds]
    OBVIOUS
  <2>2. requests \in Seq([key : Keys, kind : Kinds]) /\ n \in Nat /\ n < MaxRequests
        /\ MaxRequests \in Nat
    BY <1>1, BoundsAssumption DEF ThreadTypes, Arrive
  <2>3. requests' = Append(requests, x)
    BY <1>1 DEF Arrive
  <2> HIDE DEF x
  <2>4. requests' \in Seq([key : Keys, kind : Kinds]) /\ Len(requests') = n + 1
    BY <2>1, <2>2, <2>3
  <2>5. 1..n \subseteq 1..n + 1 /\ 0..n \subseteq 0..n + 1 /\ n + 1 \in 1..n + 1 /\ n + 1 <= MaxRequests
    BY <2>2
  <2>6. inbound \in Seq(1..n) /\ inbox \in Seq(1..n) /\ hand \in 0..n
    BY DEF ThreadTypes
  <2>7. inbound \in Seq(1..n + 1) /\ inbox \in Seq(1..n + 1) /\ hand \in 0..n + 1
    BY <2>5, <2>6, SeqMonotonic
  <2>8. inbound' \in {inbound, Append(inbound, n + 1)} /\ inbox' = inbox /\ hand' = hand
        /\ UNCHANGED <<main, worker, running, told, closed>>
    BY <1>1 DEF Arrive
  <2> HIDE DEF n
  <2>9. inbound' \in Seq(1..n + 1)
    <3> DEFINE R == 1..n + 1
    <3>1. inbound \in Seq(R) /\ n + 1 \in R
      BY <2>5, <2>7
    <3> HIDE DEF R
    <3>2. Append(inbound, n + 1) \in Seq(R)
      BY <3>1
    <3> QED
      BY <2>8, <3>1, <3>2 DEF R
  <2> QED
    BY <2>4, <2>5, <2>7, <2>8, <2>9 DEF ThreadTypes
<1>2. CASE RequestStop \/ AgentLoopStop
  BY <1>2 DEF RequestStop, AgentLoopStop, Told, ThreadTypes
<1>3. CASE Start \/ StartFails \/ CloseBus \/ Join
  BY <1>3 DEF Start, StartFails, CloseBus, Join, ThreadTypes
<1>4. CASE Loop
  <2>1. CASE ~running
    BY <1>4, <2>1 DEF Loop, ThreadTypes
  <2>2. CASE running
    <3>1. inbound # << >> /\ hand' = Head(inbound) /\ inbound' = Tail(inbound) /\ main' = "hand"
          /\ UNCHANGED <<worker, running, told, closed, requests, inbox>>
      BY <1>4, <2>2 DEF Loop
    <3>2. inbound \in Seq(1..Len(requests)) /\ Len(requests) \in Nat
      BY DEF ThreadTypes
    <3>3. hand' \in 1..Len(requests) /\ inbound' \in Seq(1..Len(requests))
      BY <3>1, <3>2, HeadTailProperties
    <3>4. hand' \in 0..Len(requests) /\ hand' # 0
      BY <3>2, <3>3
    <3> QED
      BY <3>1, <3>3, <3>4 DEF ThreadTypes
  <2> QED
    BY <2>1, <2>2 DEF ThreadTypes
<1>5. CASE HandOver
  <2>1. hand \in 1..Len(requests) /\ Len(requests) \in Nat
    BY <1>5 DEF HandOver, ThreadTypes
  <2>2. inbox' \in {inbox, Append(inbox, hand)}
    BY <1>5 DEF HandOver, Enqueued
  <2>3. inbox' \in Seq(1..Len(requests))
    <3> DEFINE R == 1..Len(requests)
    <3>1. inbox \in Seq(R) /\ hand \in R
      BY <2>1 DEF ThreadTypes
    <3> HIDE DEF R
    <3>2. Append(inbox, hand) \in Seq(R)
      BY <3>1
    <3> QED
      BY <2>2, <3>1, <3>2 DEF R
  <2>4. /\ main' \in {"closing", "loop"} /\ running' \in BOOLEAN /\ told' \in {"no", "early", "yes"}
        /\ hand' = 0 /\ UNCHANGED <<worker, closed, requests, inbound>>
    BY <1>5 DEF HandOver, Told, ThreadTypes
  <2>5. 0 \in 0..Len(requests)
    BY <2>1
  <2> QED
    BY <2>3, <2>4, <2>5 DEF ThreadTypes
<1>6. CASE TakeEvent
  <2>1. UNCHANGED threadVars /\ UNCHANGED requests
    BY <1>6 DEF TakeEvent
  <2> QED
    BY <2>1 DEF ThreadTypes, threadVars
<1>7. CASE NoEvent \/ NoMessage \/ CheckRunning
  BY <1>7 DEF NoEvent, NoMessage, CheckRunning, ThreadTypes
<1>8. CASE TakeMessage
  <2>1. /\ inbox # << >> /\ inbox' = Tail(inbox) /\ worker' = "poll"
        /\ UNCHANGED <<main, running, told, closed, hand, requests, inbound>>
    BY <1>8 DEF TakeMessage
  <2>2. Tail(inbox) \in Seq(1..Len(requests))
    BY <2>1, HeadTailProperties DEF ThreadTypes
  <2> QED
    BY <2>1, <2>2 DEF ThreadTypes
<1>9. CASE Callback \/ Done
  <2>1. UNCHANGED threadVars /\ UNCHANGED requests
    BY <1>9 DEF Callback, LlmCallback, ToolCallback, Done, vars, threadVars
  <2> QED
    BY <2>1 DEF ThreadTypes, threadVars
<1> QED
  BY <1>1, <1>2, <1>3, <1>4, <1>5, <1>6, <1>7, <1>8, <1>9 DEF Next, Main, Worker

\* A task that begins.
LEMMA NewTaskTyped ==
    ASSUME NEW r \in Request, NEW b \in Nat
    PROVE  NewTask(r, b) \in Task /\ NewTask(r, b).req = r
           /\ NewTask(r, b).norecord = (requests[r].kind = "job")
<1>1. (requests[r].kind = "job") \in BOOLEAN
  OBVIOUS
<1> QED
  BY <1>1 DEF NewTask, Task

\* A request that begins has a task, at the end of its session's list.
LEMMA BeginsTyped ==
    ASSUME HandlerTypes, NEW k \in Keys, NEW r \in Request, Begins(k, r)
    PROVE  \E b \in Nat :
             /\ tasks' = [tasks EXCEPT ![k] = TurnBegun(Append(tasks[k], NewTask(r, b)))]
             /\ TurnBegun(Append(tasks[k], NewTask(r, b))) \in Seq(Task)
             /\ tasks' \in [Keys -> Seq(Task)]
<1>1. PICK b \in Nat : tasks' = TaskStarted(k, r, b)
  BY DEF Begins
<1> DEFINE M == TurnBegun(Append(tasks[k], NewTask(r, b)))
<1>2. tasks' = [tasks EXCEPT ![k] = M]
  BY <1>1 DEF TaskStarted
<1>3. tasks \in [Keys -> Seq(Task)] /\ tasks[k] \in Seq(Task)
  BY DEF HandlerTypes
<1>4. M \in Seq(Task)
  BY <1>3, NewTaskTyped, AddedList DEF SameTasks
<1> HIDE DEF M
<1>5. tasks' \in [Keys -> Seq(Task)]
  BY <1>2, <1>3, <1>4
<1> QED
  BY <1>2, <1>4, <1>5 DEF M

\* Cancelling keeps every list but for the flags.
LEMMA CancelTyped ==
    ASSUME HandlerTypes, NEW k \in Keys
    PROVE  /\ TasksCancelled(k) \in [Keys -> Seq(Task)]
           /\ \A j \in Keys : j # k => TasksCancelled(k)[j] = tasks[j]
           /\ SameTasks(tasks[k], TasksCancelled(k)[k])
           /\ \A i \in 1..Len(tasks[k]) :
                 /\ TasksCancelled(k)[k][i].state = tasks[k][i].state
                 /\ TasksCancelled(k)[k][i].pending = tasks[k][i].pending
<1> DEFINE L == tasks[k]
           M == [i \in DOMAIN L |-> [L[i] EXCEPT !.cancelled = TRUE]]
<1>1. tasks \in [Keys -> Seq(Task)] /\ L \in Seq(Task)
  BY DEF HandlerTypes
<1>2. TasksCancelled(k) = [tasks EXCEPT ![k] = M]
  BY DEF TasksCancelled
<1>3. SameTasks(L, M) /\ \A i \in 1..Len(L) : M[i].state = L[i].state /\ M[i].pending = L[i].pending
  BY <1>1, CancelledList
<1>4. M \in Seq(Task)
  BY <1>3 DEF SameTasks
<1> HIDE DEF M
<1> QED
  BY <1>1, <1>2, <1>3, <1>4

\* Handling a message keeps the types of what handlers change.
LEMMA MessageTypes ==
    ASSUME TypeOK, SessionsInv, TakeMessage
    PROVE  HandlerTypes'
<1> DEFINE r == Head(inbox)
           k == requests[r].key
<1>1. /\ r \in Request /\ k \in Keys /\ UNCHANGED <<internal, tools>>
      /\ \/ Begins(k, r)
         \/ Answers(k, r)
         \/ UNCHANGED <<tasks, llm, asks, replies>>
  BY MessageSteps
<1>2. HandlerTypes
  BY TypeParts
<1> HIDE DEF r, k
<1>3. CASE Begins(k, r)
  <2>1. tasks' \in [Keys -> Seq(Task)]
    BY <1>1, <1>2, <1>3, BeginsTyped
  <2>2. /\ llm' \subseteq [key : Keys, req : Request, ask : Nat \ {0}] /\ asks' \in [Request -> Nat]
        /\ replies' = replies
    BY <1>1, <1>2, <1>3, TriggerTyped DEF Begins
  <2> QED
    BY <1>1, <1>2, <2>1, <2>2 DEF HandlerTypes
<1>4. CASE Answers(k, r)
  <2>1. PICK kind \in {"busy", "command"} : replies' = Replied(r, kind)
    BY <1>4 DEF Answers
  <2>2. replies' \in [Request -> Seq(Finals \cup {"progress"})]
    BY <1>1, <1>2, <2>1, RepliedTyped DEF Finals
  <2>3. tasks' \in [Keys -> Seq(Task)]
    BY <1>1, <1>2, <1>4, CancelTyped DEF Answers, HandlerTypes
  <2> QED
    BY <1>1, <1>2, <1>4, <2>2, <2>3 DEF HandlerTypes, Answers
<1>5. CASE UNCHANGED <<tasks, llm, asks, replies>>
  BY <1>1, <1>2, <1>5 DEF HandlerTypes
<1> QED
  BY <1>1, <1>3, <1>4, <1>5

\* The lists after a result.
LEMMA ListsAfterResult ==
    ASSUME HandlerTypes, NEW k \in Keys, tasks[k] # << >>, NEW n \in Int
    PROVE  /\ Removed(k) \in [Keys -> Seq(Task)]
           /\ [tasks EXCEPT ![k] = Called(@, n)] \in [Keys -> Seq(Task)]
           /\ [tasks EXCEPT ![k] = CountedDown(@)] \in [Keys -> Seq(Task)]
           /\ [tasks EXCEPT ![k] = TurnBegun(CountedDown(@))] \in [Keys -> Seq(Task)]
           /\ SameTasks(tasks[k], Called(tasks[k], n))
           /\ SameTasks(tasks[k], CountedDown(tasks[k]))
           /\ SameTasks(tasks[k], TurnBegun(CountedDown(tasks[k])))
           /\ TurnBegun(CountedDown(tasks[k]))[1].state = "WAITING_LLM"
<1> DEFINE L == tasks[k]
           A == Called(L, n)
           B == CountedDown(L)
           C == TurnBegun(B)
<1>1. tasks \in [Keys -> Seq(Task)] /\ L \in Seq(Task)
  BY DEF HandlerTypes
<1>2. Tail(L) \in Seq(Task)
  BY <1>1, HeadTailProperties
<1>3. SameTasks(L, A)
  BY <1>1, CalledList
<1>4. SameTasks(L, B)
  BY <1>1, CountedDownList
<1>5. B \in Seq(Task) /\ B # << >> /\ Len(B) = Len(L) /\ Len(L) \in Nat \ {0}
  <2>1. B \in Seq(Task) /\ Len(B) = Len(L) /\ Len(L) \in Nat \ {0}
    BY <1>1, <1>4, EmptySeq DEF SameTasks
  <2>2. Len(B) # 0
    BY <2>1
  <2> HIDE DEF B
  <2> QED
    BY <2>1, <2>2
<1>6. SameTasks(B, C) /\ C[1].state = "WAITING_LLM"
  BY <1>5, TurnBegunList
<1> HIDE DEF A, B, C
<1>7. SameTasks(L, C)
  BY <1>4, <1>5, <1>6 DEF SameTasks
<1>8. A \in Seq(Task) /\ B \in Seq(Task) /\ C \in Seq(Task)
  BY <1>3, <1>4, <1>6 DEF SameTasks
<1>9. /\ [tasks EXCEPT ![k] = A] \in [Keys -> Seq(Task)]
      /\ [tasks EXCEPT ![k] = B] \in [Keys -> Seq(Task)]
      /\ [tasks EXCEPT ![k] = C] \in [Keys -> Seq(Task)]
      /\ [tasks EXCEPT ![k] = Tail(L)] \in [Keys -> Seq(Task)]
  BY <1>1, <1>2, <1>8
<1> QED
  BY <1>3, <1>4, <1>6, <1>7, <1>9 DEF A, B, C, Removed

\* The calls that an answer of the model asks for.
LEMMA CallsTyped ==
    ASSUME NEW e \in Event, e.type = "llm", e.res.n \in 1..MaxCalls
    PROVE  /\ {<<e.req, e.ask, i>> : i \in 1..e.res.n} \subseteq Call
           /\ e.req \in Request /\ e.res.n \in Nat \ {0}
<1>1. e.req \in Request /\ e.ask \in Nat \ {0}
  BY DEF Event
<1>2. e.res.n \in Nat \ {0} /\ 1..e.res.n \subseteq 1..MaxCalls
  BY BoundsAssumption
<1> QED
  BY <1>1, <1>2 DEF Call

\* Handling a result keeps the types of what handlers change.
LEMMA EventTypes ==
    ASSUME TypeOK, SessionsInv, TakeEvent
    PROVE  HandlerTypes'
<1> DEFINE e == Head(internal)
           k == e.key
           t == tasks[k][1]
<1>1. /\ e \in Event /\ k \in Keys /\ internal # << >> /\ internal' = Tail(internal)
      /\ \/ UNCHANGED <<tasks, llm, tools, asks, replies>>
         \/ /\ tasks[k] # << >>
            /\ \/ Ends(k, t)
               \/ e.type = "llm" /\ e.res.n \in 1..MaxCalls /\ Calls(k, t, e)
               \/ Waits(k)
               \/ AsksAgain(k, t)
  BY EventSteps
<1>2. HandlerTypes
  BY TypeParts
<1> HIDE DEF e
<1>3. internal' \in Seq(Event)
  BY <1>1, <1>2, HeadTailProperties DEF HandlerTypes
<1>4. CASE UNCHANGED <<tasks, llm, tools, asks, replies>>
  BY <1>2, <1>3, <1>4 DEF HandlerTypes
<1>5. ASSUME tasks[k] # << >> PROVE t.req \in Request
  <2>1. t \in Task
    BY <1>1, <1>2, <1>5, FirstTask DEF HandlerTypes
  <2> QED
    BY <2>1 DEF Task
<1>6. CASE tasks[k] # << >> /\ Ends(k, t)
  <2>1. PICK kind \in Finals : replies' = Replied(t.req, kind)
    BY <1>6 DEF Ends
  <2>2. replies' \in [Request -> Seq(Finals \cup {"progress"})]
    BY <1>2, <1>5, <1>6, <2>1, RepliedTyped
  <2>3. tasks' \in [Keys -> Seq(Task)]
    BY <1>1, <1>2, <1>6, ListsAfterResult DEF Ends
  <2> QED
    BY <1>2, <1>3, <1>6, <2>2, <2>3 DEF Ends, HandlerTypes
<1>7. CASE tasks[k] # << >> /\ e.type = "llm" /\ e.res.n \in 1..MaxCalls /\ Calls(k, t, e)
  <2> DEFINE calls == {<<e.req, e.ask, i>> : i \in 1..e.res.n}
  <2>1. replies' \in [Request -> Seq(Finals \cup {"progress"})]
    BY <1>2, <1>5, <1>7, RepliedTyped, SMTT(20) DEF Calls, HandlerTypes
  <2>2. calls \subseteq Call /\ e.res.n \in Int
    BY <1>1, <1>7, CallsTyped
  <2>3. tasks' \in [Keys -> Seq(Task)]
    BY <1>1, <1>2, <1>7, <2>2, ListsAfterResult DEF Calls
  <2>4. tools' = tools \cup [key : {k}, call : calls] /\ UNCHANGED <<llm, asks>>
    BY <1>7 DEF Calls
  <2> HIDE DEF calls
  <2>5. tools' \subseteq [key : Keys, call : Call]
    BY <1>1, <1>2, <2>2, <2>4 DEF HandlerTypes
  <2> QED
    BY <1>2, <1>3, <2>1, <2>3, <2>4, <2>5 DEF HandlerTypes
<1>8. CASE tasks[k] # << >> /\ Waits(k)
  <2>1. tasks' \in [Keys -> Seq(Task)]
    BY <1>1, <1>2, <1>8, ListsAfterResult, SMTT(20) DEF Waits
  <2> QED
    BY <1>2, <1>3, <1>8, <2>1 DEF Waits, HandlerTypes
<1>9. CASE tasks[k] # << >> /\ AsksAgain(k, t)
  <2>1. tasks' \in [Keys -> Seq(Task)]
    BY <1>1, <1>2, <1>9, ListsAfterResult DEF AsksAgain
  <2>2. /\ llm' \subseteq [key : Keys, req : Request, ask : Nat \ {0}]
        /\ asks' \in [Request -> Nat]
    BY <1>1, <1>2, <1>5, <1>9, TriggerTyped DEF AsksAgain
  <2> QED
    BY <1>2, <1>3, <1>9, <2>1, <2>2 DEF AsksAgain, HandlerTypes
<1> QED
  BY <1>1, <1>4, <1>6, <1>7, <1>8, <1>9

\* A result that comes back.
LEMMA CallbackTypes ==
    ASSUME HandlerTypes, Callback
    PROVE  HandlerTypes'
<1>1. ASSUME NEW c \in llm, NEW res \in LlmResult, LlmCallback(c, res) PROVE HandlerTypes'
  <2> DEFINE x == [type |-> "llm", key |-> c.key, req |-> c.req, ask |-> c.ask, res |-> res]
  <2>1. c \in [key : Keys, req : Request, ask : Nat \ {0}]
    BY <1>1 DEF HandlerTypes
  <2>2. x \in Event
    BY <2>1 DEF Event
  <2>3. internal' \in {internal, Append(internal, x)} /\ llm' \subseteq llm
        /\ UNCHANGED <<tasks, tools, asks, replies>>
    BY <1>1 DEF LlmCallback, Posted
  <2> HIDE DEF x
  <2>4. internal' \in Seq(Event)
    <3>1. internal \in Seq(Event)
      BY DEF HandlerTypes
    <3> QED
      BY <2>2, <2>3, <3>1
  <2> QED
    BY <2>3, <2>4 DEF HandlerTypes
<1>2. ASSUME NEW t \in tools, ToolCallback(t) PROVE HandlerTypes'
  <2> DEFINE x == [type |-> "tool", key |-> t.key, call |-> t.call]
  <2>1. t \in [key : Keys, call : Call]
    BY <1>2 DEF HandlerTypes
  <2>2. x \in Event
    BY <2>1 DEF Event
  <2>3. internal' \in {internal, Append(internal, x)} /\ tools' \subseteq tools
        /\ UNCHANGED <<tasks, llm, asks, replies>>
    BY <1>2 DEF ToolCallback, Posted
  <2> HIDE DEF x
  <2>4. internal' \in Seq(Event)
    <3>1. internal \in Seq(Event)
      BY DEF HandlerTypes
    <3> QED
      BY <2>2, <2>3, <3>1
  <2> QED
    BY <2>3, <2>4 DEF HandlerTypes
<1> QED
  BY <1>1, <1>2 DEF Callback

\* Storing a session under its key.
LEMMA SessionStored ==
    ASSUME SessionsInv, NEW k \in Keys, NEW s, SessionOK(s), sessions' = [sessions EXCEPT ![k] = s]
    PROVE  SessionsInv'
  BY DEF SessionsInv

\* Every handler leaves sessions that are in order.
LEMMA SessionsKept ==
    ASSUME TypeOK, SessionsInv, [Next]_vars
    PROVE  SessionsInv'
<1>1. CASE TakeMessage
  <2> DEFINE r == Head(inbox)
             k == requests[r].key
             s == AddMessage(sessions[k], User(r))
  <2>1. r \in Request /\ k \in Keys
    BY <1>1, MessageSteps
  <2>2. SessionOK(sessions[k]) /\ SessionOK(s)
    BY <2>1, MessagesTyped, AddMessageOK DEF SessionsInv
  <2>3. SessionOK(Normalised(s)) /\ SessionOK(SessionAfterSave(Consolidated(s), file[k]))
    BY <2>2, ConsolidateOK, SaveOK
  <2>4. \/ sessions' = sessions
        \/ sessions' = [sessions EXCEPT ![k] = s]
        \/ sessions' = [sessions EXCEPT ![k] = Normalised(s)]
        \/ sessions' = [sessions EXCEPT ![k] = SessionAfterSave(Consolidated(s), file[k])]
    BY <1>1 DEF TakeMessage, ProcessInbound, ProcessChat, StartRequest, ProcessSkill,
                ProcessStop, ProcessNew, ProcessCommand, ProcessEmpty
  <2> HIDE DEF k, s
  <2> QED
    BY <2>1, <2>2, <2>3, <2>4, SessionStored DEF SessionsInv
<1>2. CASE TakeEvent
  <2> DEFINE e == Head(internal)
             k == e.key
             t == Snapshot(k)
  <2>1. e \in Event /\ k \in Keys
    BY <1>2, EventSteps
  <2>2. \/ e.type = "llm" /\ HandleLlmResult(e)
        \/ e.type = "tool" /\ HandleToolResult(e)
    BY <1>2 DEF TakeEvent
  <2> HIDE DEF e
  <2>3. CASE sessions' = sessions
    BY <2>3 DEF SessionsInv
  <2>4. CASE tasks[k] # << >>
    <3>1. t \in Task /\ ~t.cancelled /\ t.req \in Request
      <4>1. tasks[k][1] \in Task
        BY <2>1, <2>4, FirstTask DEF TypeOK
      <4>2. tasks[k][1].req \in Request
        BY <4>1 DEF Task
      <4> QED
        BY <4>1, <4>2 DEF Task, Snapshot
    <3>2. SessionOK(sessions[k])
      BY <2>1 DEF SessionsInv
    <3> HIDE DEF t
    <3>3. CASE e.type = "llm" /\ HandleLlmResult(e)
      <4>1. \/ e.res.kind \in {"error", "answer", "blank"} /\ EndRequest(k, t, e.res.kind)
            \/ e.res.kind \in {"calls", "talk"} /\ CallTools(k, t, e)
        BY <2>4, <3>1, <3>3 DEF HandleLlmResult, t
      <4>2. CASE EndRequest(k, t, e.res.kind)
        <5> DEFINE s == AddMessage(sessions[k], Assistant(t.req, {}))
        <5>1. SessionOK(s)
          BY <3>1, <3>2, MessagesTyped, AddMessageOK
        <5>2. SessionOK(Dropped(t, sessions[k])) /\ SessionOK(Dropped(t, Kept(t, s, file[k])))
          BY <3>1, <3>2, <5>1, TaskEndsOK
        <5>3. \/ sessions' = [sessions EXCEPT ![k] = Dropped(t, sessions[k])]
              \/ sessions' = [sessions EXCEPT ![k] = Dropped(t, Kept(t, s, file[k]))]
          BY <4>2 DEF EndRequest
        <5> HIDE DEF s
        <5> QED
          BY <2>1, <5>2, <5>3, SessionStored
      <4>3. CASE e.res.kind \in {"calls", "talk"} /\ CallTools(k, t, e)
        <5> DEFINE calls == {<<e.req, e.ask, i>> : i \in 1..e.res.n}
                   s == AddMessage(sessions[k], Assistant(t.req, calls))
        <5>1. e.res \in LlmResult
          BY <2>1, <3>3 DEF Event
        <5>2. e.res.n \in 1..MaxCalls
          BY <4>3, <5>1 DEF LlmResult
        <5>3. calls \in SUBSET Call
          BY <2>1, <3>3, <5>2, CallsTyped
        <5>4. sessions' = [sessions EXCEPT ![k] = Kept(t, s, file[k])]
          BY <4>3 DEF CallTools
        <5> HIDE DEF calls
        <5>5. SessionOK(s)
          BY <3>1, <3>2, <5>3, MessagesTyped, AddMessageOK
        <5> HIDE DEF s
        <5>6. SessionOK(Kept(t, s, file[k]))
          BY <3>1, <5>5, TaskEndsOK
        <5> QED
          BY <2>1, <5>4, <5>6, SessionStored
      <4> QED
        BY <4>1, <4>2, <4>3
    <3>4. CASE e.type = "tool" /\ HandleToolResult(e)
      <4> DEFINE s == AddMessage(sessions[k], ToolAnswer(t.req, e.call))
                 kept == Kept(t, s, file[k])
      <4>1. RecordToolResult(k, t, e)
        BY <2>4, <3>1, <3>4 DEF HandleToolResult, t
      <4>2. e.call \in Call
        BY <2>1, <3>4 DEF Event
      <4>3. SessionOK(s)
        BY <3>1, <3>2, <4>2, MessagesTyped, AddMessageOK
      <4>4. sessions' = [sessions EXCEPT ![k] = kept] \/ sessions' = [sessions EXCEPT ![k] = Dropped(t, kept)]
        BY <4>1 DEF RecordToolResult
      <4> HIDE DEF s
      <4>5. SessionOK(kept)
        BY <3>1, <4>3, TaskEndsOK
      <4> HIDE DEF kept
      <4>6. SessionOK(Dropped(t, kept))
        BY <3>1, <4>5, TaskEndsOK
      <4> QED
        BY <2>1, <4>4, <4>5, <4>6, SessionStored
    <3> QED
      BY <2>2, <3>3, <3>4
  <2>5. CASE tasks[k] = << >>
    <3>1. sessions' = sessions
      BY <2>2, <2>5 DEF HandleLlmResult, HandleToolResult
    <3> QED
      BY <2>3, <3>1
  <2> QED
    BY <2>4, <2>5
<1>3. CASE ~TakeMessage /\ ~TakeEvent
  <2>1. sessions' = sessions
    BY <1>3 DEF Next, Main, Worker, Callback, Arrive, RequestStop, AgentLoopStop, Start, StartFails,
                Loop, HandOver, CloseBus, Join, NoEvent, NoMessage, CheckRunning, LlmCallback,
                ToolCallback, Done, vars, handlerVars
  <2> QED
    BY <2>1 DEF SessionsInv
<1> QED
  BY <1>1, <1>2, <1>3

\* Every step keeps the types.
LEMMA TypesKept ==
    ASSUME TypeOK, SessionsInv, [Next]_vars
    PROVE  TypeOK' /\ SessionsInv'
<1>1. SessionsInv'
  BY SessionsKept
<1>2. ThreadTypes /\ HandlerTypes
  BY TypeParts
<1>3. CASE UNCHANGED vars
  <2>1. ThreadTypes' /\ HandlerTypes'
    BY <1>2, <1>3 DEF ThreadTypes, HandlerTypes, vars
  <2> QED
    BY <1>1, <2>1, TypeParts, PTL
<1>4. CASE Next
  <2>1. ThreadTypes'
    BY <1>2, <1>4, ThreadTypesKept
  <2>2. ASSUME TakeMessage PROVE HandlerTypes'
    BY <2>2, MessageTypes
  <2>3. ASSUME TakeEvent PROVE HandlerTypes'
    BY <2>3, EventTypes
  <2>4. ASSUME Callback PROVE HandlerTypes'
    BY <1>2, <2>4, CallbackTypes
  <2>5. ASSUME ~TakeMessage, ~TakeEvent, ~Callback PROVE HandlerTypes'
    <3>1. UNCHANGED handlerVars
      BY <1>4, <2>5 DEF Next, Main, Worker, Arrive, RequestStop, AgentLoopStop, Start, StartFails,
                Loop, HandOver, CloseBus, Join, NoEvent, NoMessage, CheckRunning, Done, vars, handlerVars
    <3> QED
      BY <1>2, <3>1 DEF HandlerTypes, handlerVars
  <2>6. HandlerTypes'
    BY <2>2, <2>3, <2>4, <2>5
  <2> QED
    BY <1>1, <2>1, <2>6, TypeParts, PTL
<1> QED
  BY <1>3, <1>4

\* Nothing has arrived.
LEMMA InitTypes == Init => TypeOK /\ SessionsInv
<1> SUFFICES ASSUME Init PROVE TypeOK /\ SessionsInv
  OBVIOUS
<1>1. SessionOK(NewSession)
  BY DEF SessionOK, SessionRecord, NewSession
<1>2. LoadSession(NoFile) = NewSession
  BY DEF LoadSession, NoFile
<1>3. SessionsInv
  BY <1>1, <1>2 DEF Init, SessionsInv
<1>4. ThreadTypes
  <2>1. /\ requests = << >> /\ Len(requests) = 0 /\ 0 <= MaxRequests /\ 0 \in 0..Len(requests)
        /\ requests \in Seq([key : Keys, kind : Kinds])
    BY BoundsAssumption DEF Init
  <2>2. << >> \in Seq(1..Len(requests))
    OBVIOUS
  <2> QED
    BY <2>1, <2>2 DEF Init, ThreadTypes
<1>5. HandlerTypes
  BY DEF Init, HandlerTypes
<1> QED
  BY <1>3, <1>4, <1>5, TypeParts

\* The variables of the agent loop keep their types, whatever arrives: the queues hold
\* requests that have arrived and results of known sessions, and no session counts more
\* messages as saved than it has (agent_loop.c, session_orchestrator.c, session.c).
THEOREM LoopTypeCorrect == Spec => []TypeOK
<1>1. Init => TypeOK /\ SessionsInv
  BY InitTypes
<1>2. TypeOK /\ SessionsInv /\ [Next]_vars => TypeOK' /\ SessionsInv'
  BY TypesKept
<1> QED
  BY <1>1, <1>2, PTL DEF Spec

-----------------------------------------------------------------------------
(* The session files.                                                      *)

FileRecord == [exists : BOOLEAN, consolidated : Nat, lines : Seq(Message)]

\* A file holds what its session counts as saved.
Follows(s, f) ==
    /\ SessionOK(s)
    /\ f \in FileRecord
    /\ f.exists => f.lines = SubSeq(s.msgs, 1, s.saved)

\* Without cron jobs every task is recorded, so nothing is rolled back.
FilesInv ==
    /\ DOMAIN file = Keys /\ file = [k \in Keys |-> file[k]]
    /\ \A k \in Keys : Follows(sessions[k], file[k])
RecordedInv == \A k \in Keys : \A i \in 1..Len(tasks[k]) : tasks[k][i].norecord = FALSE

\* A prefix is not changed by what is appended.
LEMMA PrefixStays ==
    ASSUME NEW S, NEW q \in Seq(S), NEW x \in S, NEW n \in Nat, n <= Len(q)
    PROVE  SubSeq(Append(q, x), 1, n) = SubSeq(q, 1, n)
<1> DEFINE a == SubSeq(Append(q, x), 1, n)
           b == SubSeq(q, 1, n)
           p == Append(q, x)
<1>1. p \in Seq(S) /\ Len(p) = Len(q) + 1 /\ Len(q) \in Nat /\ \A i \in 1..Len(q) : p[i] = q[i]
  OBVIOUS
<1>2. \A i \in 1..n : q[i] \in S /\ p[i] = q[i]
  BY <1>1
<1> HIDE DEF p
<1>3. /\ SubSeq(p, 1, n) \in Seq(S) /\ Len(SubSeq(p, 1, n)) = n
      /\ \A i \in 1..n : SubSeq(p, 1, n)[i] = p[i]
  BY <1>2, SubSeqProperties
<1>4. /\ SubSeq(q, 1, n) \in Seq(S) /\ Len(SubSeq(q, 1, n)) = n
      /\ \A i \in 1..n : SubSeq(q, 1, n)[i] = q[i]
  BY <1>2, SubSeqProperties
<1>5. SubSeq(p, 1, n) = SubSeq(q, 1, n)
  BY <1>2, <1>3, <1>4, SeqEqual
<1> QED
  BY <1>5 DEF p

\* Adding a message.
LEMMA FollowsAdd ==
    ASSUME NEW s, NEW f, Follows(s, f), NEW m \in Message
    PROVE  Follows(AddMessage(s, m), f)
<1> DEFINE t == AddMessage(s, m)
<1>1. SessionOK(s) /\ SessionOK(t)
  BY AddMessageOK DEF Follows
<1>2. /\ s.msgs \in Seq(Message) /\ s.saved \in Nat /\ s.saved <= Len(s.msgs)
      /\ t.msgs = Append(s.msgs, m) /\ t.saved = s.saved
  BY <1>1 DEF SessionOK, SessionRecord, AddMessage
<1>3. SubSeq(t.msgs, 1, t.saved) = SubSeq(s.msgs, 1, s.saved)
  BY <1>2, PrefixStays
<1> HIDE DEF t
<1>4. Follows(t, f)
  BY <1>1, <1>3 DEF Follows
<1> QED
  BY <1>4 DEF t

\* Moving the mark of what is consolidated.
LEMMA FollowsMarks ==
    ASSUME NEW s, NEW f, Follows(s, f)
    PROVE  Follows(Normalised(s), f) /\ Follows(Consolidated(s), f)
<1>1. SessionOK(s) /\ SessionOK(Normalised(s)) /\ SessionOK(Consolidated(s))
  BY ConsolidateOK DEF Follows
<1>2. /\ Normalised(s).msgs = s.msgs /\ Normalised(s).saved = s.saved
      /\ Consolidated(s).msgs = s.msgs /\ Consolidated(s).saved = s.saved
  BY <1>1 DEF SessionOK, SessionRecord, Normalised, Consolidated
<1> QED
  BY <1>1, <1>2 DEF Follows

\* A save brings the file up to date, by rewriting it or by appending what it lacks.
LEMMA FollowsSave ==
    ASSUME NEW s, NEW f, Follows(s, f)
    PROVE  Follows(SessionAfterSave(s, f), FileAfterSave(s, f))
<1> DEFINE t == SessionAfterSave(s, f)
           g == FileAfterSave(s, f)
           q == s.msgs
<1>1. SessionOK(s) /\ SessionOK(t) /\ f \in FileRecord
  BY SaveOK DEF Follows
<1>2. /\ q \in Seq(Message) /\ s.saved \in Nat /\ s.saved <= Len(q) /\ Len(q) \in Nat
      /\ s.consolidated \in Nat
  BY <1>1 DEF SessionOK, SessionRecord
<1>3. t.msgs = q /\ t.saved = Len(q)
  BY <1>1 DEF SessionOK, SessionRecord, SessionAfterSave
<1>4. SubSeq(q, 1, Len(q)) = q
  BY <1>2, SubSeqFull
<1>5. CASE NeedsFullSave(s, f)
  <2>1. g = [exists |-> TRUE, consolidated |-> s.consolidated, lines |-> q]
    BY <1>5 DEF FileAfterSave
  <2>2. g \in FileRecord /\ g.lines = q
    BY <1>2, <2>1 DEF FileRecord
  <2> HIDE DEF t, g
  <2>3. Follows(t, g)
    BY <1>1, <1>3, <1>4, <2>2 DEF Follows
  <2> QED
    BY <2>3 DEF t, g
<1>6. CASE ~NeedsFullSave(s, f)
  <2> DEFINE new == SubSeq(q, s.saved + 1, Len(q))
  <2>1. g = [f EXCEPT !.lines = @ \o new] /\ f.exists
    BY <1>6 DEF FileAfterSave, NeedsFullSave
  <2>2. f.lines = SubSeq(q, 1, s.saved)
    BY <2>1 DEF Follows
  <2>3. SubSeq(q, 1, s.saved) \o new = SubSeq(q, 1, Len(q))
    <3>1. 1 \in 1..Len(q) + 1 /\ s.saved \in 1 - 1..Len(q) /\ Len(q) \in s.saved..Len(q)
      BY <1>2
    <3> QED
      BY <1>2, <3>1, ConcatAdjacentSubSeq
  <2> HIDE DEF new
  <2>4. g = [f EXCEPT !.lines = q]
    BY <1>4, <2>1, <2>2, <2>3
  <2>5. g \in FileRecord /\ g.lines = q
    BY <1>1, <1>2, <2>4 DEF FileRecord
  <2> HIDE DEF t, g
  <2>6. Follows(t, g)
    BY <1>1, <1>3, <1>4, <2>5 DEF Follows
  <2> QED
    BY <2>6 DEF t, g
<1> QED
  BY <1>5, <1>6

\* Saving for a task that is recorded, and removing it.
LEMMA FollowsTask ==
    ASSUME NEW s, NEW f, Follows(s, f), NEW t, t.norecord = FALSE
    PROVE  Follows(Dropped(t, Kept(t, s, f)), KeptFile(t, s, f))
           /\ Follows(Kept(t, s, f), KeptFile(t, s, f)) /\ Follows(Dropped(t, s), f)
  BY FollowsSave DEF Kept, KeptFile, Dropped

\* Storing a session and its file.
LEMMA FileStored ==
    ASSUME SessionsInv, FilesInv, NEW k \in Keys, NEW s, NEW f, Follows(s, f),
           sessions' = [sessions EXCEPT ![k] = s],
           file' = [file EXCEPT ![k] = f] \/ (file' = file /\ f = file[k])
    PROVE  FilesInv'
<1>1. file' = [j \in Keys |-> IF j = k THEN f ELSE file[j]]
  BY DEF FilesInv
<1>2. sessions' = [j \in Keys |-> IF j = k THEN s ELSE sessions[j]]
  BY DEF SessionsInv
<1> QED
  BY <1>1, <1>2 DEF FilesInv

\* Without cron jobs every step leaves files that follow their sessions.
LEMMA FilesKept ==
    ASSUME TypeOK, SessionsInv, FilesInv, RecordedInv, [Next]_vars
    PROVE  FilesInv'
<1>1. CASE TakeMessage
  <2> DEFINE r == Head(inbox)
             k == requests[r].key
             s == AddMessage(sessions[k], User(r))
             c == Consolidated(s)
             f == file[k]
  <2>1. r \in Request /\ k \in Keys
    BY <1>1, MessageSteps
  <2>2. Follows(sessions[k], f) /\ Follows(s, f)
    BY <2>1, MessagesTyped, FollowsAdd DEF FilesInv
  <2>3. /\ Follows(Normalised(s), f)
        /\ Follows(SessionAfterSave(c, f), FileAfterSave(c, f))
    BY <2>2, FollowsMarks, FollowsSave
  <2>4. \/ sessions' = sessions /\ file' = file
        \/ sessions' = [sessions EXCEPT ![k] = s] /\ file' = file
        \/ sessions' = [sessions EXCEPT ![k] = Normalised(s)] /\ file' = file
        \/ /\ sessions' = [sessions EXCEPT ![k] = SessionAfterSave(c, f)]
           /\ file' = [file EXCEPT ![k] = FileAfterSave(c, f)]
    BY <1>1 DEF TakeMessage, ProcessInbound, ProcessChat, StartRequest, ProcessSkill,
                ProcessStop, ProcessNew, ProcessCommand, ProcessEmpty
  <2> HIDE DEF k, s, c
  <2>5. CASE sessions' = sessions /\ file' = file
    BY <2>5 DEF FilesInv
  <2> QED
    BY <2>1, <2>2, <2>3, <2>4, <2>5, FileStored
<1>2. CASE TakeEvent
  <2> DEFINE e == Head(internal)
             k == e.key
             t == Snapshot(k)
             f == file[k]
  <2>1. e \in Event /\ k \in Keys
    BY <1>2, EventSteps
  <2>2. \/ e.type = "llm" /\ HandleLlmResult(e)
        \/ e.type = "tool" /\ HandleToolResult(e)
    BY <1>2 DEF TakeEvent
  <2> HIDE DEF e
  <2>4. CASE tasks[k] # << >>
    <3>1. t.norecord = FALSE /\ ~t.cancelled /\ t.req \in Request
      <4>1. tasks[k][1] \in Task /\ 1 \in 1..Len(tasks[k])
        BY <2>1, <2>4, FirstTask DEF TypeOK
      <4>2. tasks[k][1].req \in Request /\ tasks[k][1].norecord = FALSE
        BY <2>1, <4>1 DEF Task, RecordedInv
      <4> QED
        BY <4>1, <4>2 DEF Task, Snapshot
    <3>2. Follows(sessions[k], f)
      BY <2>1 DEF FilesInv
    <3> HIDE DEF t
    <3>3. CASE e.type = "llm" /\ HandleLlmResult(e)
      <4>1. \/ e.res.kind \in {"error", "answer", "blank"} /\ EndRequest(k, t, e.res.kind)
            \/ e.res.kind \in {"calls", "talk"} /\ CallTools(k, t, e)
        BY <2>4, <3>1, <3>3 DEF HandleLlmResult, t
      <4>2. CASE EndRequest(k, t, e.res.kind)
        <5> DEFINE s == AddMessage(sessions[k], Assistant(t.req, {}))
        <5>1. Follows(s, f)
          BY <3>1, <3>2, MessagesTyped, FollowsAdd
        <5>2. /\ Follows(Dropped(t, sessions[k]), f)
              /\ Follows(Dropped(t, Kept(t, s, f)), KeptFile(t, s, f))
          BY <3>1, <3>2, <5>1, FollowsTask
        <5>3. \/ /\ sessions' = [sessions EXCEPT ![k] = Dropped(t, sessions[k])]
                 /\ file' = [file EXCEPT ![k] = f]
              \/ /\ sessions' = [sessions EXCEPT ![k] = Dropped(t, Kept(t, s, f))]
                 /\ file' = [file EXCEPT ![k] = KeptFile(t, s, f)]
          BY <4>2 DEF EndRequest
        <5> HIDE DEF s
        <5> QED
          BY <2>1, <5>2, <5>3, FileStored
      <4>3. CASE e.res.kind \in {"calls", "talk"} /\ CallTools(k, t, e)
        <5> DEFINE calls == {<<e.req, e.ask, i>> : i \in 1..e.res.n}
                   s == AddMessage(sessions[k], Assistant(t.req, calls))
        <5>1. e.res \in LlmResult
          BY <2>1, <3>3 DEF Event
        <5>2. e.res.n \in 1..MaxCalls
          BY <4>3, <5>1 DEF LlmResult
        <5>3. calls \in SUBSET Call
          BY <2>1, <3>3, <5>2, CallsTyped
        <5>4. sessions' = [sessions EXCEPT ![k] = Kept(t, s, f)]
              /\ file' = [file EXCEPT ![k] = KeptFile(t, s, f)]
          BY <4>3 DEF CallTools
        <5> HIDE DEF calls
        <5>5. Follows(s, f)
          BY <3>1, <3>2, <5>3, MessagesTyped, FollowsAdd
        <5> HIDE DEF s
        <5>6. Follows(Kept(t, s, f), KeptFile(t, s, f))
          BY <3>1, <5>5, FollowsTask
        <5> QED
          BY <2>1, <5>4, <5>6, FileStored
      <4> QED
        BY <4>1, <4>2, <4>3
    <3>4. CASE e.type = "tool" /\ HandleToolResult(e)
      <4> DEFINE s == AddMessage(sessions[k], ToolAnswer(t.req, e.call))
      <4>1. RecordToolResult(k, t, e)
        BY <2>4, <3>1, <3>4 DEF HandleToolResult, t
      <4>2. e.call \in Call
        BY <2>1, <3>4 DEF Event
      <4>3. Follows(s, f)
        BY <3>1, <3>2, <4>2, MessagesTyped, FollowsAdd
      <4>4. /\ \/ sessions' = [sessions EXCEPT ![k] = Kept(t, s, f)]
               \/ sessions' = [sessions EXCEPT ![k] = Dropped(t, Kept(t, s, f))]
            /\ file' = [file EXCEPT ![k] = KeptFile(t, s, f)]
        BY <4>1 DEF RecordToolResult
      <4> HIDE DEF s
      <4>5. /\ Follows(Kept(t, s, f), KeptFile(t, s, f))
            /\ Follows(Dropped(t, Kept(t, s, f)), KeptFile(t, s, f))
        BY <3>1, <4>3, FollowsTask
      <4> QED
        BY <2>1, <4>4, <4>5, FileStored
    <3> QED
      BY <2>2, <3>3, <3>4
  <2>5. CASE tasks[k] = << >>
    <3>1. sessions' = sessions /\ file' = file
      BY <2>2, <2>5 DEF HandleLlmResult, HandleToolResult
    <3> QED
      BY <3>1 DEF FilesInv
  <2> QED
    BY <2>4, <2>5
<1>3. CASE ~TakeMessage /\ ~TakeEvent
  <2>1. sessions' = sessions /\ file' = file
    BY <1>3 DEF Next, Main, Worker, Callback, Arrive, RequestStop, AgentLoopStop, Start, StartFails,
                Loop, HandOver, CloseBus, Join, NoEvent, NoMessage, CheckRunning, LlmCallback,
                ToolCallback, Done, vars, handlerVars
  <2> QED
    BY <2>1 DEF FilesInv
<1> QED
  BY <1>1, <1>2, <1>3

\* A list of tasks that are all recorded.
AllRecorded(L) == \A i \in 1..Len(L) : L[i].norecord = FALSE

\* What the operations on lists make of such a list.
LEMMA RecordedLists ==
    ASSUME NEW L \in Seq(Task), AllRecorded(L)
    PROVE  /\ \A M : SameTasks(L, M) => AllRecorded(M)
           /\ L # << >> => AllRecorded(Tail(L))
           /\ \A t \in Task : t.norecord = FALSE => AllRecorded(Append(L, t))
<1>1. \A M : SameTasks(L, M) => AllRecorded(M)
  BY DEF SameTasks, AllRecorded
<1>2. ASSUME L # << >> PROVE AllRecorded(Tail(L))
  <2>1. Len(Tail(L)) = Len(L) - 1 /\ Len(L) \in Nat /\ \A i \in 1..Len(Tail(L)) : Tail(L)[i] = L[i + 1]
    BY <1>2, HeadTailProperties
  <2>2. \A i \in 1..Len(Tail(L)) : i + 1 \in 1..Len(L)
    BY <2>1
  <2> QED
    BY <2>1, <2>2 DEF AllRecorded
<1>3. ASSUME NEW t \in Task, t.norecord = FALSE PROVE AllRecorded(Append(L, t))
  <2> DEFINE M == Append(L, t)
  <2>1. /\ Len(M) = Len(L) + 1 /\ M[Len(L) + 1] = t /\ \A i \in 1..Len(L) : M[i] = L[i]
        /\ Len(L) \in Nat
    OBVIOUS
  <2>2. \A i \in 1..Len(M) : i \in 1..Len(L) \/ i = Len(L) + 1
    BY <2>1
  <2> HIDE DEF M
  <2>3. AllRecorded(M)
    BY <1>3, <2>1, <2>2 DEF AllRecorded
  <2> QED
    BY <2>3 DEF M
<1> QED
  BY <1>1, <1>2, <1>3

\* Without cron jobs no task is left out of the record.
LEMMA RecordedKept ==
    ASSUME "job" \notin Kinds, TypeOK, SessionsInv, RecordedInv, [Next]_vars
    PROVE  RecordedInv'
<1>0. HandlerTypes /\ tasks \in [Keys -> Seq(Task)]
  BY TypeParts DEF HandlerTypes
<1>1. \A k \in Keys : AllRecorded(tasks[k])
  BY DEF RecordedInv, AllRecorded
<1>2. ASSUME NEW k \in Keys, NEW M, AllRecorded(M), tasks' = [tasks EXCEPT ![k] = M]
      PROVE  RecordedInv'
  BY <1>0, <1>1, <1>2 DEF RecordedInv, AllRecorded
<1>3. ASSUME tasks' = tasks PROVE RecordedInv'
  BY <1>3 DEF RecordedInv
<1>4. CASE TakeMessage
  <2> DEFINE r == Head(inbox)
             k == requests[r].key
  <2>1. /\ r \in Request /\ r \in 1..Len(requests) /\ k \in Keys
        /\ \/ Begins(k, r)
           \/ Answers(k, r)
           \/ UNCHANGED <<tasks, llm, asks, replies>>
    BY <1>4, MessageSteps
  <2> HIDE DEF r
  <2>2. requests[r].kind # "job"
    <3>1. requests \in Seq([key : Keys, kind : Kinds])
      BY DEF TypeOK
    <3>2. requests[r] \in [key : Keys, kind : Kinds]
      BY <2>1, <3>1, ElementOfSeq
    <3>3. requests[r].kind \in Kinds
      BY <3>2
    <3> QED
      BY <3>3
  <2> HIDE DEF k
  <2>3. tasks[k] \in Seq(Task) /\ AllRecorded(tasks[k])
    BY <1>0, <1>1, <2>1
  <2>4. CASE Begins(k, r)
    <3>1. PICK b \in Nat :
             tasks' = [tasks EXCEPT ![k] = TurnBegun(Append(tasks[k], NewTask(r, b)))]
      BY <1>0, <2>1, <2>4, BeginsTyped
    <3> DEFINE N == NewTask(r, b)
               L == Append(tasks[k], N)
    <3>2. N \in Task /\ N.norecord = FALSE
      BY <2>1, <2>2, NewTaskTyped
    <3> HIDE DEF N
    <3>3. L \in Seq(Task) /\ AllRecorded(L)
      <4>1. L \in Seq(Task)
        BY <2>3, <3>2
      <4>2. AllRecorded(L)
        BY <2>3, <3>2, RecordedLists
      <4> QED
        BY <4>1, <4>2
    <3>4. SameTasks(L, TurnBegun(L))
      BY <2>3, <3>2, AddedList
    <3> HIDE DEF L
    <3>5. AllRecorded(TurnBegun(L))
      BY <3>3, <3>4, RecordedLists
    <3> QED
      BY <1>2, <2>1, <3>1, <3>5 DEF L, N
  <2>5. CASE Answers(k, r)
    <3>1. tasks' = tasks \/ tasks' = TasksCancelled(k)
      BY <2>5 DEF Answers
    <3>2. CASE tasks' = TasksCancelled(k)
      <4>1. /\ tasks' \in [Keys -> Seq(Task)] /\ \A j \in Keys : j # k => tasks'[j] = tasks[j]
            /\ SameTasks(tasks[k], tasks'[k])
        BY <1>0, <2>1, <3>2, CancelTyped
      <4>2. AllRecorded(tasks'[k])
        BY <2>3, <4>1, RecordedLists
      <4>3. \A j \in Keys : AllRecorded(tasks'[j])
        BY <1>1, <4>1, <4>2
      <4> QED
        BY <4>3 DEF RecordedInv, AllRecorded
    <3> QED
      BY <1>3, <3>1, <3>2
  <2> QED
    BY <1>3, <2>1, <2>4, <2>5
<1>5. CASE TakeEvent
  <2> DEFINE e == Head(internal)
             k == e.key
             t == tasks[k][1]
  <2>1. /\ e \in Event /\ k \in Keys
        /\ \/ tasks' = tasks
           \/ /\ tasks[k] # << >>
              /\ \/ Ends(k, t)
                 \/ e.type = "llm" /\ e.res.n \in 1..MaxCalls /\ Calls(k, t, e)
                 \/ Waits(k)
                 \/ AsksAgain(k, t)
    BY <1>5, EventSteps
  <2> HIDE DEF e
  <2>2. tasks[k] \in Seq(Task) /\ AllRecorded(tasks[k])
    BY <1>0, <1>1, <2>1
  <2>3. CASE tasks[k] # << >> /\ Ends(k, t)
    <3>1. tasks' = [tasks EXCEPT ![k] = Tail(tasks[k])]
      BY <2>3 DEF Ends, Removed
    <3>2. AllRecorded(Tail(tasks[k]))
      BY <2>2, <2>3, RecordedLists
    <3> QED
      BY <1>2, <2>1, <3>1, <3>2
  <2>4. CASE tasks[k] # << >> /\ e.type = "llm" /\ e.res.n \in 1..MaxCalls /\ Calls(k, t, e)
    <3>1. tasks' = [tasks EXCEPT ![k] = Called(tasks[k], e.res.n)] /\ e.res.n \in Int
      BY <2>4 DEF Calls
    <3>2. AllRecorded(Called(tasks[k], e.res.n))
      BY <1>0, <2>1, <2>2, <2>4, <3>1, ListsAfterResult, RecordedLists
    <3> QED
      BY <1>2, <2>1, <3>1, <3>2
  <2>5. CASE tasks[k] # << >> /\ Waits(k)
    <3>1. tasks' = [tasks EXCEPT ![k] = CountedDown(tasks[k])]
      BY <2>5 DEF Waits
    <3>2. AllRecorded(CountedDown(tasks[k]))
      BY <2>2, <2>5, CountedDownList, RecordedLists
    <3> QED
      BY <1>2, <2>1, <3>1, <3>2
  <2>6. CASE tasks[k] # << >> /\ AsksAgain(k, t)
    <3>1. tasks' = [tasks EXCEPT ![k] = TurnBegun(CountedDown(tasks[k]))]
      BY <2>6 DEF AsksAgain
    <3>2. SameTasks(tasks[k], TurnBegun(CountedDown(tasks[k])))
      <4>1. 0 \in Int
        OBVIOUS
      <4> QED
        BY <1>0, <2>1, <2>6, <4>1, ListsAfterResult
    <3>3. AllRecorded(TurnBegun(CountedDown(tasks[k])))
      BY <2>2, <3>2, RecordedLists
    <3> QED
      BY <1>2, <2>1, <3>1, <3>3
  <2> QED
    BY <1>3, <2>1, <2>3, <2>4, <2>5, <2>6
<1>6. CASE ~TakeMessage /\ ~TakeEvent
  <2>1. tasks' = tasks
    BY <1>6 DEF Next, Main, Worker, Callback, Arrive, RequestStop, AgentLoopStop, Start, StartFails,
                Loop, HandOver, CloseBus, Join, NoEvent, NoMessage, CheckRunning, LlmCallback,
                ToolCallback, Done, vars, handlerVars
  <2> QED
    BY <1>3, <2>1
<1> QED
  BY <1>4, <1>5, <1>6

\* Where no cron job is delivered, every session file holds exactly the messages that its
\* session counts as saved, across appending and rewriting saves, consolidation and
\* overlapping tasks, so that a restart loads what the session was
\* (session_manager_save).  A cron job's roll-back is why the condition is needed.
THEOREM FilesFollowSessions ==
    ASSUME "job" \notin Kinds
    PROVE  Spec => []FileFollows
<1> DEFINE I == TypeOK /\ SessionsInv /\ FilesInv /\ RecordedInv
<1>1. Init => I
  <2> SUFFICES ASSUME Init PROVE I
    OBVIOUS
  <2>1. TypeOK /\ SessionsInv
    BY InitTypes
  <2>2. NoFile \in FileRecord /\ ~NoFile.exists
    BY DEF NoFile, FileRecord
  <2>3. file = [k \in Keys |-> NoFile] /\ tasks = [k \in Keys |-> << >>]
    BY DEF Init
  <2>4. FilesInv
    BY <2>1, <2>2, <2>3 DEF FilesInv, Follows, SessionsInv
  <2>5. RecordedInv
    BY <2>3 DEF RecordedInv
  <2> QED
    BY <2>1, <2>4, <2>5
<1>2. I /\ [Next]_vars => I'
  BY TypesKept, FilesKept, RecordedKept
<1>3. I => FileFollows
  BY DEF FilesInv, Follows, FileFollows
<1> QED
  BY <1>1, <1>2, <1>3, PTL DEF Spec

-----------------------------------------------------------------------------
(* The results that are on their way to a session.                         *)

\* The members of S, calls of the model or tool calls, that belong to session k.
Count(S, k) == Cardinality({x \in S : x.key = k})

\* There is a number of them, and it is zero if no member belongs to k.
LEMMA CountFinite ==
    ASSUME NEW S, IsFiniteSet(S), NEW k
    PROVE  Count(S, k) \in Nat /\ (Count(S, k) = 0 <=> \A x \in S : x.key # k)
<1> DEFINE T == {x \in S : x.key = k}
<1>1. T \in SUBSET S
  OBVIOUS
<1>2. IsFiniteSet(T)
  BY <1>1, FS_Subset
<1>3. Cardinality(T) \in Nat /\ (Cardinality(T) = 0 <=> T = {})
  BY <1>2, FS_CardinalityType, FS_EmptySet
<1> QED
  BY <1>3 DEF Count

\* One call comes back.
LEMMA CountRemove ==
    ASSUME NEW S, IsFiniteSet(S), NEW x \in S, NEW k
    PROVE  /\ IsFiniteSet(S \ {x})
           /\ Count(S \ {x}, k) = Count(S, k) - (IF x.key = k THEN 1 ELSE 0)
<1> DEFINE T == {y \in S : y.key = k}
<1>1. IsFiniteSet(S \ {x})
  BY FS_RemoveElement
<1>2. IsFiniteSet(T)
  BY FS_Subset
<1>3. {y \in S \ {x} : y.key = k} = T \ {x} /\ (x \in T <=> x.key = k)
  OBVIOUS
<1>4. Cardinality(T \ {x}) = (IF x \in T THEN Cardinality(T) - 1 ELSE Cardinality(T))
      /\ Cardinality(T) \in Nat
  BY <1>2, FS_RemoveElement, FS_CardinalityType
<1> HIDE DEF T
<1>5. Cardinality(T \ {x}) = Cardinality(T) - (IF x.key = k THEN 1 ELSE 0)
  BY <1>3, <1>4
<1> QED
  BY <1>1, <1>3, <1>5 DEF Count, T

\* One call is made.
LEMMA CountAdd ==
    ASSUME NEW S, IsFiniteSet(S), NEW x, x \notin S, NEW k
    PROVE  /\ IsFiniteSet(S \cup {x})
           /\ Count(S \cup {x}, k) = Count(S, k) + (IF x.key = k THEN 1 ELSE 0)
<1> DEFINE T == {y \in S : y.key = k}
<1>1. IsFiniteSet(S \cup {x})
  BY FS_AddElement
<1>2. IsFiniteSet(T)
  BY FS_Subset
<1>3. Cardinality(T) \in Nat
  BY <1>2, FS_CardinalityType
<1>4. CASE x.key = k
  <2>1. {y \in S \cup {x} : y.key = k} = T \cup {x} /\ x \notin T
    BY <1>4
  <2>2. Cardinality(T \cup {x}) = Cardinality(T) + 1
    BY <1>2, <2>1, FS_AddElement
  <2> QED
    BY <1>1, <1>4, <2>1, <2>2 DEF Count
<1>5. CASE x.key # k
  <2>1. {y \in S \cup {x} : y.key = k} = T
    BY <1>5
  <2>2. Count(S \cup {x}, k) = Count(S, k)
    BY <2>1 DEF Count
  <2>3. Count(S, k) \in Nat
    BY CountFinite
  <2> QED
    BY <1>1, <1>5, <2>2, <2>3
<1> QED
  BY <1>4, <1>5

\* All calls of an answer are submitted to a session that had none.
LEMMA CountCalls ==
    ASSUME NEW S, IsFiniteSet(S), NEW k, Count(S, k) = 0,
           NEW C, IsFiniteSet(C), NEW j
    PROVE  LET T == S \cup [key : {k}, call : C]
           IN  /\ IsFiniteSet(T)
               /\ Count(T, j) = Count(S, j) + (IF j = k THEN Cardinality(C) ELSE 0)
<1> DEFINE N == [key : {k}, call : C]
           f == [c \in C |-> [key |-> k, call |-> c]]
<1>1. f \in Bijection(C, N)
  <2>1. f \in [C -> N]
    OBVIOUS
  <2>2. \A c, d \in C : f[c] = f[d] => c = d
    <3>1. \A c \in C : f[c].call = c
      OBVIOUS
    <3> QED
      BY <3>1
  <2>3. \A x \in N : \E c \in C : f[c] = x
    <3>1. \A x \in N : x.call \in C /\ x = [key |-> k, call |-> x.call]
      OBVIOUS
    <3> QED
      BY <3>1
  <2> HIDE DEF f, N
  <2> QED
    BY <2>1, <2>2, <2>3 DEF Bijection, Injection, Surjection, IsInjective
<1>2. \A x \in N : x.key = k
  OBVIOUS
<1> HIDE DEF N, f
<1>3. IsFiniteSet(N) /\ Cardinality(N) = Cardinality(C) /\ Cardinality(C) \in Nat
  BY <1>1, FS_Bijection, FS_CardinalityType DEF ExistsBijection
<1>4. IsFiniteSet(S \cup N)
  BY <1>3, FS_Union
<1>5. \A x \in S : x.key # k
  BY CountFinite
<1>6. CASE j = k
  <2>1. {x \in S \cup N : x.key = j} = N
    BY <1>2, <1>5, <1>6
  <2>2. Count(S \cup N, j) = Cardinality(C)
    BY <1>3, <2>1 DEF Count
  <2> QED
    BY <1>3, <1>4, <1>6, <2>2 DEF N
<1>7. CASE j # k
  <2>1. {x \in S \cup N : x.key = j} = {x \in S : x.key = j}
    BY <1>2, <1>7
  <2>2. Count(S \cup N, j) = Count(S, j) /\ Count(S, j) \in Nat
    BY <2>1, CountFinite DEF Count
  <2> QED
    BY <1>4, <1>7, <2>2 DEF N
<1> QED
  BY <1>6, <1>7

EventsOf(k) == {e \in Event : e.key = k}

\* What session k is owed, counted in the calls of the model, the tool calls and the
\* internal queue.
OwedIn(l, t, q, k) == Count(l, k) + Count(t, k) + Cardinality(At(q, EventsOf(k)))

\* The two counts agree.
LEMMA OwedCounts == HandlerTypes => \A k \in Keys : Owed(k) = OwedIn(llm, tools, internal, k)
<1> SUFFICES ASSUME HandlerTypes, NEW k \in Keys
             PROVE  Owed(k) = OwedIn(llm, tools, internal, k)
  OBVIOUS
<1>1. internal \in Seq(Event)
  BY DEF HandlerTypes
<1>2. \A e \in Event : e.type \in {"llm", "tool"}
  BY DEF Event
<1>3. DOMAIN internal = 1..Len(internal) /\ \A i \in 1..Len(internal) : internal[i] \in Event
  BY <1>1
<1>4. LlmEvents(k) \cup ToolEvents(k) = At(internal, EventsOf(k))
  BY <1>2, <1>3 DEF LlmEvents, ToolEvents, At, EventsOf
<1> QED
  BY <1>4 DEF Owed, OwedIn, Count

\* They agree after a step as well.
LEMMA OwedCountsNext ==
    ASSUME HandlerTypes'
    PROVE  \A j \in Keys : Owed(j)' = OwedIn(llm', tools', internal', j)
<1>1. (\A k \in Keys : Owed(k) = OwedIn(llm, tools, internal, k))'
  BY OwedCounts, PTL
<1> QED
  BY <1>1

\* A session that is owed nothing will get nothing.
LEMMA OwedNothing ==
    ASSUME HandlerTypes, IsFiniteSet(llm), IsFiniteSet(tools), NEW k \in Keys
    PROVE  /\ Owed(k) \in Nat
           /\ Owed(k) = 0 => /\ \A c \in llm : c.key # k
                             /\ \A t \in tools : t.key # k
                             /\ \A e \in Elements(internal) : e.key # k
           /\ (\A c \in llm : c.key # k) => Count(llm, k) = 0
           /\ (\A t \in tools : t.key # k) => Count(tools, k) = 0
<1> DEFINE n == Cardinality(At(internal, EventsOf(k)))
<1>1. internal \in Seq(Event)
  BY DEF HandlerTypes
<1>2. n \in Nat /\ (n = 0 <=> \A e \in Elements(internal) : e \notin EventsOf(k))
  BY <1>1, AtFinite
<1>3. Elements(internal) \subseteq Event
  BY <1>1, ElementsInRange
<1>4. n = 0 => \A e \in Elements(internal) : e.key # k
  BY <1>2, <1>3 DEF EventsOf
<1>5. /\ Count(llm, k) \in Nat /\ Count(tools, k) \in Nat
      /\ Count(llm, k) = 0 <=> \A c \in llm : c.key # k
      /\ Count(tools, k) = 0 <=> \A t \in tools : t.key # k
  BY CountFinite
<1>6. Owed(k) = Count(llm, k) + Count(tools, k) + n
  BY OwedCounts DEF OwedIn
<1> HIDE DEF n
<1>7. Owed(k) \in Nat /\ (Owed(k) = 0 => Count(llm, k) = 0 /\ Count(tools, k) = 0 /\ n = 0)
  BY <1>2, <1>5, <1>6
<1> QED
  BY <1>4, <1>5, <1>7

\* Both sets of calls are finite.
FiniteInv == IsFiniteSet(llm) /\ IsFiniteSet(tools)

\* What a callback posts, or drops because the bus is closed.
LEMMA PostedEvent ==
    ASSUME HandlerTypes, NEW x \in Event, internal' = Posted(x)
    PROVE  /\ Elements(internal') \subseteq Elements(internal) \cup {x}
           /\ \A j : Cardinality(At(internal', EventsOf(j))) =
                      Cardinality(At(internal, EventsOf(j)))
                      + (IF ~closed /\ x.key = j THEN 1 ELSE 0)
<1>1. internal \in Seq(Event)
  BY DEF HandlerTypes
<1>2. \A j : x \in EventsOf(j) <=> x.key = j
  BY DEF EventsOf
<1>3. CASE closed
  <2>1. internal' = internal
    BY <1>3 DEF Posted
  <2>2. \A j : Cardinality(At(internal, EventsOf(j))) \in Nat
    BY <1>1, AtFinite
  <2> QED
    BY <1>3, <2>1, <2>2
<1>4. CASE ~closed
  <2>1. internal' = Append(internal, x)
    BY <1>4 DEF Posted
  <2>2. Elements(internal') = Elements(internal) \cup {x}
    BY <1>1, <2>1, AppendDistinct
  <2>3. \A j : Cardinality(At(internal', EventsOf(j))) =
                   Cardinality(At(internal, EventsOf(j))) + (IF x \in EventsOf(j) THEN 1 ELSE 0)
    BY <1>1, <2>1, AtAppend
  <2> QED
    BY <1>2, <1>4, <2>2, <2>3
<1> QED
  BY <1>3, <1>4

\* What is on its way to a session stays what it was.
SameComing(j) ==
    \A r : /\ LlmOnly(j, r) => LlmOnly(j, r)'
           /\ ToolsOnly(j, r) => ToolsOnly(j, r)'

\* A call of the model that comes back is still owed, unless the bus is closed.
LEMMA LlmCallbackOwed ==
    ASSUME HandlerTypes, HandlerTypes', FiniteInv,
           NEW c \in llm, NEW res \in LlmResult, LlmCallback(c, res)
    PROVE  /\ c.key \in Keys /\ FiniteInv'
           /\ \A j \in Keys :
                 /\ Owed(j)' = Owed(j) - (IF closed /\ c.key = j THEN 1 ELSE 0)
                 /\ SameComing(j)
<1> DEFINE x == [type |-> "llm", key |-> c.key, req |-> c.req, ask |-> c.ask, res |-> res]
<1>1. c \in [key : Keys, req : Request, ask : Nat \ {0}]
  BY DEF HandlerTypes
<1>2. x \in Event /\ x.key = c.key /\ x.type = "llm" /\ x.req = c.req /\ c.key \in Keys
  BY <1>1 DEF Event
<1>3. internal' = Posted(x) /\ llm' = llm \ {c} /\ tools' = tools
  BY DEF LlmCallback
<1> HIDE DEF x
<1>4. /\ Elements(internal') \subseteq Elements(internal) \cup {x}
      /\ \A j : Cardinality(At(internal', EventsOf(j))) =
                 Cardinality(At(internal, EventsOf(j))) + (IF ~closed /\ x.key = j THEN 1 ELSE 0)
  BY <1>2, <1>3, PostedEvent
<1>5. FiniteInv' /\ \A j : Count(llm', j) = Count(llm, j) - (IF c.key = j THEN 1 ELSE 0)
  BY <1>3, CountRemove DEF FiniteInv
<1>6. ASSUME NEW j \in Keys
      PROVE  Owed(j)' = Owed(j) - (IF closed /\ c.key = j THEN 1 ELSE 0)
  <2>1. Owed(j)' = OwedIn(llm', tools', internal', j)
    BY OwedCountsNext
  <2>2. Owed(j) = OwedIn(llm, tools, internal, j)
    BY OwedCounts
  <2>3. /\ Count(llm, j) \in Nat /\ Count(tools, j) \in Nat
        /\ Cardinality(At(internal, EventsOf(j))) \in Nat
    BY CountFinite, AtFinite DEF FiniteInv, HandlerTypes
  <2> DEFINE a == Count(llm, j)
             b == Count(tools, j)
             n == Cardinality(At(internal, EventsOf(j)))
             m == Cardinality(At(internal', EventsOf(j)))
  <2>4. /\ Count(llm', j) = Count(llm, j) - (IF c.key = j THEN 1 ELSE 0)
        /\ Count(tools', j) = Count(tools, j)
        /\ m = n + (IF ~closed /\ c.key = j THEN 1 ELSE 0)
    BY <1>2, <1>3, <1>4, <1>5
  <2>5. Owed(j) = a + b + n /\ Owed(j)' = Count(llm', j) + Count(tools', j) + m
    BY <2>1, <2>2 DEF OwedIn
  <2> HIDE DEF a, b, n, m
  <2> QED
    BY <2>3, <2>4, <2>5 DEF a, b, n
<1>7. ASSUME NEW j \in Keys, NEW r, LlmOnly(j, r) PROVE LlmOnly(j, r)'
  BY <1>2, <1>3, <1>4, <1>7 DEF LlmOnly
<1>8. ASSUME NEW j \in Keys, NEW r, ToolsOnly(j, r) PROVE ToolsOnly(j, r)'
  BY <1>2, <1>3, <1>4, <1>8 DEF ToolsOnly
<1> QED
  BY <1>2, <1>5, <1>6, <1>7, <1>8 DEF SameComing

\* So is the result of a tool.
LEMMA ToolCallbackOwed ==
    ASSUME HandlerTypes, HandlerTypes', FiniteInv, NEW t \in tools, ToolCallback(t)
    PROVE  /\ t.key \in Keys /\ FiniteInv'
           /\ \A j \in Keys :
                 /\ Owed(j)' = Owed(j) - (IF closed /\ t.key = j THEN 1 ELSE 0)
                 /\ SameComing(j)
<1> DEFINE x == [type |-> "tool", key |-> t.key, call |-> t.call]
<1>1. t \in [key : Keys, call : Call]
  BY DEF HandlerTypes
<1>2. x \in Event /\ x.key = t.key /\ x.type = "tool" /\ x.call = t.call /\ t.key \in Keys
  BY <1>1 DEF Event
<1>3. internal' = Posted(x) /\ tools' = tools \ {t} /\ llm' = llm
  BY DEF ToolCallback
<1> HIDE DEF x
<1>4. /\ Elements(internal') \subseteq Elements(internal) \cup {x}
      /\ \A j : Cardinality(At(internal', EventsOf(j))) =
                 Cardinality(At(internal, EventsOf(j))) + (IF ~closed /\ x.key = j THEN 1 ELSE 0)
  BY <1>2, <1>3, PostedEvent
<1>5. FiniteInv' /\ \A j : Count(tools', j) = Count(tools, j) - (IF t.key = j THEN 1 ELSE 0)
  BY <1>3, CountRemove DEF FiniteInv
<1>6. ASSUME NEW j \in Keys
      PROVE  Owed(j)' = Owed(j) - (IF closed /\ t.key = j THEN 1 ELSE 0)
  <2>1. Owed(j)' = OwedIn(llm', tools', internal', j)
    BY OwedCountsNext
  <2>2. Owed(j) = OwedIn(llm, tools, internal, j)
    BY OwedCounts
  <2>3. /\ Count(llm, j) \in Nat /\ Count(tools, j) \in Nat
        /\ Cardinality(At(internal, EventsOf(j))) \in Nat
    BY CountFinite, AtFinite DEF FiniteInv, HandlerTypes
  <2> DEFINE a == Count(llm, j)
             b == Count(tools, j)
             n == Cardinality(At(internal, EventsOf(j)))
             m == Cardinality(At(internal', EventsOf(j)))
  <2>4. /\ Count(tools', j) = Count(tools, j) - (IF t.key = j THEN 1 ELSE 0)
        /\ Count(llm', j) = Count(llm, j)
        /\ m = n + (IF ~closed /\ t.key = j THEN 1 ELSE 0)
    BY <1>2, <1>3, <1>4, <1>5
  <2>5. Owed(j) = a + b + n /\ Owed(j)' = Count(llm', j) + Count(tools', j) + m
    BY <2>1, <2>2 DEF OwedIn
  <2> HIDE DEF a, b, n, m
  <2> QED
    BY <2>3, <2>4, <2>5 DEF a, b, n
<1>7. ASSUME NEW j \in Keys, NEW r, LlmOnly(j, r) PROVE LlmOnly(j, r)'
  BY <1>2, <1>3, <1>4, <1>7 DEF LlmOnly
<1>8. ASSUME NEW j \in Keys, NEW r, ToolsOnly(j, r) PROVE ToolsOnly(j, r)'
  BY <1>2, <1>3, <1>4, <1>8 DEF ToolsOnly
<1> QED
  BY <1>2, <1>5, <1>6, <1>7, <1>8 DEF SameComing

\* What is owed changes by the sum of the changes.
LEMMA OwedChange ==
    ASSUME HandlerTypes, HandlerTypes', FiniteInv, NEW j \in Keys,
           NEW a \in Int, NEW b \in Int, NEW n \in Int,
           Count(llm', j) = Count(llm, j) + a,
           Count(tools', j) = Count(tools, j) + b,
           Cardinality(At(internal', EventsOf(j))) = Cardinality(At(internal, EventsOf(j))) + n
    PROVE  Owed(j)' = Owed(j) + a + b + n /\ Owed(j) \in Nat
<1>1. Owed(j)' = OwedIn(llm', tools', internal', j)
  BY OwedCountsNext
<1>2. Owed(j) = OwedIn(llm, tools, internal, j)
  BY OwedCounts
<1> DEFINE x == Count(llm, j)
           y == Count(tools, j)
           z == Cardinality(At(internal, EventsOf(j)))
<1>3. x \in Nat /\ y \in Nat /\ z \in Nat
  BY CountFinite, AtFinite DEF FiniteInv, HandlerTypes
<1>4. Owed(j) = x + y + z /\ Owed(j)' = (x + a) + (y + b) + (z + n)
  BY <1>1, <1>2 DEF OwedIn
<1> HIDE DEF x, y, z
<1> QED
  BY <1>3, <1>4

\* Taking a result from the queue.
LEMMA TakenEvent ==
    ASSUME HandlerTypes, internal # << >>, internal' = Tail(internal)
    PROVE  /\ Elements(internal') \subseteq Elements(internal)
           /\ Head(internal) \in Elements(internal)
           /\ \A j : Cardinality(At(internal', EventsOf(j))) =
                      Cardinality(At(internal, EventsOf(j)))
                      + (IF Head(internal).key = j THEN -1 ELSE 0)
<1>1. internal \in Seq(Event)
  BY DEF HandlerTypes
<1>2. /\ Elements(internal') \subseteq Elements(internal) /\ Head(internal) \in Elements(internal)
      /\ Head(internal) \in Event
  BY <1>1, AtTail
<1>3. ASSUME NEW j
      PROVE  Cardinality(At(internal', EventsOf(j))) =
                 Cardinality(At(internal, EventsOf(j))) + (IF Head(internal).key = j THEN -1 ELSE 0)
  <2> DEFINE m == Cardinality(At(internal', EventsOf(j)))
             n == Cardinality(At(internal, EventsOf(j)))
  <2>1. m = n - (IF Head(internal) \in EventsOf(j) THEN 1 ELSE 0)
    BY <1>1, AtTail
  <2>2. n \in Nat
    BY <1>1, AtFinite
  <2>3. Head(internal) \in EventsOf(j) <=> Head(internal).key = j
    BY <1>2 DEF EventsOf
  <2> HIDE DEF m, n
  <2>4. m = n + (IF Head(internal).key = j THEN -1 ELSE 0)
    BY <2>1, <2>2, <2>3
  <2> QED
    BY <2>4 DEF m, n
<1> QED
  BY <1>2, <1>3

\* A new call of the model for a session that has none.
LEMMA TriggerCounts ==
    ASSUME FiniteInv, NEW k, NEW r, TriggerLlm(k, r), Count(llm, k) = 0
    PROVE  /\ IsFiniteSet(llm')
           /\ \A j : Count(llm', j) = Count(llm, j) + (IF j = k THEN 1 ELSE 0)
           /\ \A c \in llm' : c \in llm \/ (c.key = k /\ c.req = r)
<1> DEFINE c == [key |-> k, req |-> r, ask |-> asks[r] + 1]
<1>1. llm' = llm \cup {c} /\ c.key = k /\ c.req = r
  BY DEF TriggerLlm
<1> HIDE DEF c
<1>2. c \notin llm
  BY <1>1, CountFinite DEF FiniteInv
<1>3. IsFiniteSet(llm)
  BY DEF FiniteInv
<1>4. ASSUME NEW j
      PROVE  /\ IsFiniteSet(llm \cup {c})
             /\ Count(llm \cup {c}, j) = Count(llm, j) + (IF c.key = j THEN 1 ELSE 0)
  BY <1>2, <1>3, CountAdd
<1>5. \A j : Count(llm', j) = Count(llm, j) + (IF j = k THEN 1 ELSE 0)
  BY <1>1, <1>4
<1>6. \A x \in llm' : x \in llm \/ (x.key = k /\ x.req = r)
  BY <1>1
<1> QED
  BY <1>1, <1>4, <1>5, <1>6

-----------------------------------------------------------------------------
(* Sessions go through their phases.                                       *)

\* The first task of session j waits as before.
SameWait(j) ==
    /\ tasks[j] = << >> <=> tasks'[j] = << >>
    /\ Len(tasks'[j]) = Len(tasks[j])
    /\ tasks[j] # << >> => /\ tasks'[j][1].state = tasks[j][1].state
                           /\ tasks'[j][1].req = tasks[j][1].req
                           /\ tasks'[j][1].pending = tasks[j][1].pending

\* Nothing but the loss of a result after a close happens to session j.
LEMMA PhaseStays ==
    ASSUME NEW j \in Keys, PhaseOK(j), SameWait(j), SameComing(j),
           Owed(j) \in Nat, Owed(j)' \in Nat, Owed(j)' <= Owed(j),
           ~closed' => ~closed /\ Owed(j)' = Owed(j),
           HandlerTypes
    PROVE  PhaseOK(j)'
<1>1. CASE tasks[j] = << >> /\ Owed(j) = 0
  <2>1. tasks'[j] = << >> /\ Owed(j)' = 0
    BY <1>1 DEF SameWait
  <2> QED
    BY <2>1 DEF PhaseOK
<1>2. ASSUME Len(tasks[j]) = 1 PROVE tasks[j] # << >>
  <2>1. tasks[j] \in Seq(Task)
    BY DEF HandlerTypes
  <2> QED
    BY <1>2, <2>1, EmptySeq
<1>3. CASE Len(tasks[j]) = 1 /\ Asking(j)
  <2>2. /\ Len(tasks'[j]) = 1 /\ tasks'[j][1].state = "WAITING_LLM"
        /\ tasks'[j][1].req = tasks[j][1].req
    BY <1>2, <1>3 DEF SameWait, Asking
  <2>3. PICK r : r = tasks[j][1].req
    OBVIOUS
  <2>4. LlmOnly(j, r)'
    BY <1>3, <2>3 DEF Asking, SameComing
  <2>5. LlmOnly(j, tasks[j][1].req)'
    BY <2>2, <2>3, <2>4 DEF LlmOnly
  <2>6. Owed(j)' <= 1
    BY <1>3 DEF Asking
  <2>7. Asking(j)'
    BY <2>2, <2>5, <2>6 DEF Asking
  <2> QED
    BY <2>2, <2>7 DEF PhaseOK
<1>4. CASE Len(tasks[j]) = 1 /\ Running(j)
  <2>2. /\ Len(tasks'[j]) = 1 /\ tasks'[j][1].state = "WAITING_TOOL"
        /\ tasks'[j][1].req = tasks[j][1].req /\ tasks'[j][1].pending = tasks[j][1].pending
        /\ tasks[j][1].pending \in Int
    <3>1. tasks[j][1] \in Task
      BY <1>2, <1>4, FirstTask DEF HandlerTypes
    <3> QED
      BY <1>2, <1>4, <3>1 DEF SameWait, Running, Task
  <2>3. PICK r : r = tasks[j][1].req
    OBVIOUS
  <2>4. ToolsOnly(j, r)'
    BY <1>4, <2>3 DEF Running, SameComing
  <2>5. ToolsOnly(j, tasks[j][1].req)'
    BY <2>2, <2>3, <2>4 DEF ToolsOnly
  <2>6. /\ Owed(j)' <= tasks'[j][1].pending
        /\ ~closed' => Owed(j)' = tasks'[j][1].pending
    BY <1>4, <2>2 DEF Running
  <2>7. Running(j)'
    BY <2>2, <2>5, <2>6 DEF Running
  <2> QED
    BY <2>2, <2>7 DEF PhaseOK
<1> QED
  BY <1>1, <1>3, <1>4 DEF PhaseOK

\* Nothing happens to session j.
Undisturbed(j) == SameWait(j) /\ SameComing(j) /\ Owed(j)' = Owed(j)

\* Nothing new is on its way to a session whose calls and results were there before.
LEMMA Undisturb ==
    ASSUME HandlerTypes, HandlerTypes', FiniteInv, NEW j \in Keys,
           tasks'[j] = tasks[j],
           Count(llm', j) = Count(llm, j), Count(tools', j) = Count(tools, j),
           Cardinality(At(internal', EventsOf(j))) = Cardinality(At(internal, EventsOf(j))),
           \A c \in llm' : c.key = j => c \in llm,
           \A t \in tools' : t.key = j => t \in tools,
           \A e \in Elements(internal') : e.key = j => e \in Elements(internal)
    PROVE  Undisturbed(j)
<1>1. Owed(j)' = Owed(j)
  <2>1. Owed(j)' = OwedIn(llm', tools', internal', j)
    BY OwedCountsNext
  <2>2. Owed(j) = OwedIn(llm, tools, internal, j)
    BY OwedCounts
  <2> QED
    BY <2>1, <2>2 DEF OwedIn
<1>2. ASSUME NEW r, LlmOnly(j, r) PROVE LlmOnly(j, r)'
  BY <1>2 DEF LlmOnly
<1>3. ASSUME NEW r, ToolsOnly(j, r) PROVE ToolsOnly(j, r)'
  BY <1>3 DEF ToolsOnly
<1> QED
  BY <1>1, <1>2, <1>3 DEF Undisturbed, SameWait, SameComing

\* A result in the queue finds its session waiting for it.
LEMMA ResultAwaited ==
    ASSUME HandlerTypes, FiniteInv, NEW k \in Keys, PhaseOK(k),
           NEW e \in Elements(internal), e.key = k
    PROVE  /\ Len(tasks[k]) = 1 /\ tasks[k] # << >> /\ tasks[k][1] \in Task
           /\ Owed(k) \in Nat \ {0}
           /\ e.type = "llm" => /\ Asking(k) /\ Owed(k) = 1 /\ e.req = tasks[k][1].req
           /\ e.type = "tool" => /\ Running(k) /\ e.call[1] = tasks[k][1].req
<1>1. Owed(k) \in Nat /\ Owed(k) # 0
  BY OwedNothing DEF FiniteInv
<1>2. Len(tasks[k]) = 1 /\ (Asking(k) \/ Running(k))
  BY <1>1 DEF PhaseOK
<1>3. tasks[k] \in Seq(Task)
  BY DEF HandlerTypes
<1>4. tasks[k] # << >>
  BY <1>2, <1>3, EmptySeq
<1>5. tasks[k][1] \in Task
  BY <1>3, <1>4, FirstTask
<1>6. Asking(k) => e.type = "llm" /\ e.req = tasks[k][1].req /\ Owed(k) = 1
  BY <1>1 DEF Asking, LlmOnly
<1>7. Running(k) => e.type = "tool" /\ e.call[1] = tasks[k][1].req
  BY DEF Running, ToolsOnly
<1> QED
  BY <1>1, <1>2, <1>4, <1>5, <1>6, <1>7

\* The sessions other than k, when a result for k is taken.
LEMMA OthersUndisturbed ==
    ASSUME HandlerTypes, HandlerTypes', FiniteInv, NEW k \in Keys,
           internal # << >>, internal' = Tail(internal), Head(internal).key = k,
           \A j \in Keys \ {k} : /\ tasks'[j] = tasks[j]
                                 /\ Count(llm', j) = Count(llm, j)
                                 /\ Count(tools', j) = Count(tools, j),
           \A c \in llm' : c \in llm \/ c.key = k,
           \A t \in tools' : t \in tools \/ t.key = k
    PROVE  \A j \in Keys \ {k} : Undisturbed(j)
<1> SUFFICES ASSUME NEW j \in Keys, j # k PROVE Undisturbed(j)
  OBVIOUS
<1>1. /\ Elements(internal') \subseteq Elements(internal)
      /\ Cardinality(At(internal', EventsOf(j))) = Cardinality(At(internal, EventsOf(j))) + 0
  BY TakenEvent
<1>2. Cardinality(At(internal, EventsOf(j))) \in Nat
  BY AtFinite DEF HandlerTypes
<1>3. Cardinality(At(internal', EventsOf(j))) = Cardinality(At(internal, EventsOf(j)))
  BY <1>1, <1>2
<1>4. /\ \A c \in llm' : c.key = j => c \in llm
      /\ \A t \in tools' : t.key = j => t \in tools
      /\ \A e \in Elements(internal') : e.key = j => e \in Elements(internal)
  BY <1>1
<1> QED
  BY <1>3, <1>4, Undisturb

\* A request ends: its session is idle and owed nothing.
LEMMA EndsFlow ==
    ASSUME HandlerTypes, HandlerTypes', FiniteInv, NEW k \in Keys,
           internal # << >>, internal' = Tail(internal), Head(internal).key = k,
           Len(tasks[k]) = 1, Owed(k) = 1, NEW t, Ends(k, t)
    PROVE  /\ FiniteInv' /\ tasks'[k] = << >> /\ Owed(k)' = 0
           /\ \A j \in Keys \ {k} : Undisturbed(j) /\ tasks'[j] = tasks[j]
<1>1. tasks' = Removed(k) /\ llm' = llm /\ tools' = tools
  BY DEF Ends
<1>2. tasks \in [Keys -> Seq(Task)] /\ tasks[k] \in Seq(Task)
  BY DEF HandlerTypes
<1>3. tasks'[k] = << >>
  <2>1. tasks'[k] = Tail(tasks[k])
    BY <1>1, <1>2 DEF Removed
  <2> QED
    BY <1>2, <2>1, OneTask
<1>4. \A j \in Keys \ {k} : tasks'[j] = tasks[j]
  BY <1>1, <1>2 DEF Removed
<1>5. Owed(k)' = 0
  <2>1. Cardinality(At(internal', EventsOf(k))) = Cardinality(At(internal, EventsOf(k))) + (-1)
    BY TakenEvent
  <2>2. Count(llm', k) = Count(llm, k) + 0 /\ Count(tools', k) = Count(tools, k) + 0
    BY <1>1, CountFinite DEF FiniteInv
  <2>3. 0 \in Int /\ -1 \in Int
    OBVIOUS
  <2>4. Owed(k)' = Owed(k) + 0 + 0 + (-1)
    BY <2>1, <2>2, <2>3, OwedChange
  <2> QED
    BY <2>4
<1>6. \A j \in Keys \ {k} : Undisturbed(j)
  BY <1>1, <1>4, OthersUndisturbed
<1> QED
  BY <1>1, <1>3, <1>4, <1>5, <1>6 DEF FiniteInv

\* The calls of one answer are numbered from 1.
LEMMA IntervalSize == \A n \in Nat : IsFiniteSet(1..n) /\ Cardinality(1..n) = n
<1> SUFFICES ASSUME NEW n \in Nat
             PROVE  IsFiniteSet(1..n) /\ Cardinality(1..n) = n
  OBVIOUS
<1>1. 1 \in Int /\ n \in Int
  OBVIOUS
<1>2. IsFiniteSet(1..n) /\ Cardinality(1..n) = IF 1 > n THEN 0 ELSE n - 1 + 1
  BY <1>1, FS_Interval
<1>3. (IF 1 > n THEN 0 ELSE n - 1 + 1) = n
  BY SMT
<1> QED
  BY <1>2, <1>3

\* Tools are called: the session waits for all of them.
LEMMA CallsFlow ==
    ASSUME HandlerTypes, HandlerTypes', FiniteInv, NEW k \in Keys, NEW e \in Event,
           internal # << >>, internal' = Tail(internal), e = Head(internal), e.key = k,
           e.type = "llm", e.res.n \in 1..MaxCalls, e.req = tasks[k][1].req,
           Len(tasks[k]) = 1, Asking(k), Owed(k) = 1, NEW t, Calls(k, t, e),
           closed' = closed
    PROVE  /\ FiniteInv' /\ Len(tasks'[k]) = 1 /\ Running(k)' /\ Owed(k)' \in 1..MaxCalls
           /\ tasks'[k][1].req = tasks[k][1].req
           /\ \A j \in Keys \ {k} : Undisturbed(j) /\ tasks'[j] = tasks[j]
<1> DEFINE n == e.res.n
           C == {<<e.req, e.ask, i>> : i \in 1..n}
           L == tasks[k]
<1>1. tasks' = [tasks EXCEPT ![k] = Called(L, n)] /\ llm' = llm
      /\ tools' = tools \cup [key : {k}, call : C]
  BY DEF Calls
<1>2. tasks \in [Keys -> Seq(Task)] /\ L \in Seq(Task) /\ n \in Nat /\ n \in 1..MaxCalls
  BY BoundsAssumption DEF HandlerTypes
<1>3. IsFiniteSet(C) /\ Cardinality(C) = n /\ \A c \in C : c[1] = e.req
  <2>1. \A c \in C : c[1] = e.req
    OBVIOUS
  <2> DEFINE f == [i \in 1..n |-> <<e.req, e.ask, i>>]
  <2>2. f \in Bijection(1..n, C)
    BY DEF Bijection, Injection, Surjection, IsInjective
  <2> HIDE DEF C, n, f
  <2>4. IsFiniteSet(1..n) /\ Cardinality(1..n) = n
    BY <1>2, IntervalSize
  <2>5. IsFiniteSet(C) /\ Cardinality(C) = n
    BY <2>2, <2>4, FS_Bijection DEF ExistsBijection
  <2> QED
    BY <2>1, <2>5
<1> HIDE DEF C, n
<1>0. llm' = llm
  BY <1>1
<1>4. \A x \in llm : x.key = k => x.req = L[1].req
  BY DEF Asking, LlmOnly
<1>5. /\ \A x \in tools : x.key # k
      /\ \A x \in Elements(internal) : x.key = k => x.type = "llm"
  BY DEF Asking, LlmOnly
<1>6. Count(tools, k) = 0
  BY <1>5, OwedNothing DEF FiniteInv
<1>7. /\ IsFiniteSet(tools')
      /\ \A j : /\ Count(tools', j) = Count(tools, j) + (IF j = k THEN n ELSE 0)
               /\ Count(tools, j) \in Nat
  <2>1. IsFiniteSet(tools)
    BY DEF FiniteInv
  <2>2. ASSUME NEW j
        PROVE  /\ IsFiniteSet(tools \cup [key : {k}, call : C])
               /\ Count(tools \cup [key : {k}, call : C], j) =
                      Count(tools, j) + (IF j = k THEN Cardinality(C) ELSE 0)
    BY <1>3, <1>6, <2>1, CountCalls, SMTT(20)
  <2>3. \A j : Count(tools, j) \in Nat
    BY <2>1, CountFinite
  <2> QED
    BY <1>1, <1>3, <2>2, <2>3
<1>8. /\ Len(tasks'[k]) = 1 /\ tasks'[k][1].state = "WAITING_TOOL"
      /\ tasks'[k][1].pending = n /\ tasks'[k][1].req = L[1].req
  <2>1. L # << >> /\ n \in Int
    BY <1>2, OneTask
  <2>2. /\ SameTasks(L, Called(L, n)) /\ Called(L, n)[1].state = "WAITING_TOOL"
        /\ Called(L, n)[1].pending = n
    BY <1>2, <2>1, CalledList
  <2>3. tasks'[k] = Called(L, n) /\ 1 \in 1..Len(L)
    BY <1>1, <1>2
  <2> QED
    BY <2>2, <2>3 DEF SameTasks
<1>9. Owed(k)' = n
  <2>1. Cardinality(At(internal', EventsOf(k))) = Cardinality(At(internal, EventsOf(k))) + (-1)
    BY TakenEvent
  <2>2. Count(llm', k) = Count(llm, k) + 0 /\ Count(tools', k) = Count(tools, k) + n
    <3>1. Count(llm, k) \in Nat
      BY CountFinite DEF FiniteInv
    <3> QED
      BY <1>0, <1>7, <3>1
  <2>3. 0 \in Int /\ -1 \in Int /\ n \in Int
    BY <1>2
  <2>4. Owed(k)' = Owed(k) + 0 + n + (-1)
    BY <2>1, <2>2, <2>3, OwedChange
  <2> QED
    BY <1>2, <2>4
<1>10. \A x \in llm : x.key # k
  <2>1. Cardinality(At(internal, EventsOf(k))) \in Nat /\ Count(llm, k) \in Nat
        /\ Cardinality(At(internal, EventsOf(k))) # 0
    <3>1. e \in Elements(internal) /\ e \in EventsOf(k)
      BY TakenEvent DEF EventsOf
    <3> QED
      BY <3>1, AtFinite, CountFinite DEF HandlerTypes, FiniteInv
  <2> DEFINE x == Count(llm, k)
             z == Cardinality(At(internal, EventsOf(k)))
  <2>2. Owed(k) = x + 0 + z
    BY <1>6, OwedCounts DEF OwedIn
  <2> HIDE DEF x, z
  <2>3. x = 0
    BY <2>1, <2>2 DEF x, z
  <2> QED
    BY <2>3, CountFinite DEF x, FiniteInv
<1>11. \A x \in Elements(internal') : x.key # k
  <2>1. Cardinality(At(internal', EventsOf(k))) = 0
    <3> DEFINE m == Cardinality(At(internal', EventsOf(k)))
    <3>1. Owed(k)' = OwedIn(llm', tools', internal', k)
      BY OwedCountsNext
    <3>2. Count(llm', k) = 0
      BY <1>1, <1>10, OwedNothing DEF FiniteInv
    <3>3. Count(tools', k) = n
      BY <1>2, <1>6, <1>7
    <3>4. n = 0 + n + m
      BY <1>9, <3>1, <3>2, <3>3 DEF OwedIn
    <3>5. m \in Nat
      BY AtFinite DEF HandlerTypes
    <3> HIDE DEF m
    <3>6. m = 0
      BY <1>2, <3>4, <3>5
    <3> QED
      BY <3>6 DEF m
  <2>2. internal' \in Seq(Event)
    BY DEF HandlerTypes
  <2>3. Elements(internal') \subseteq Event /\ \A x \in Elements(internal') : x \notin EventsOf(k)
    BY <2>1, <2>2, AtFinite, ElementsInRange
  <2> QED
    BY <2>3 DEF EventsOf
<1>12. ToolsOnly(k, tasks[k][1].req)'
  <2>1. \A x \in tools' : x.key = k => x.call[1] = e.req
    BY <1>1, <1>3, <1>5
  <2> QED
    BY <1>1, <1>8, <1>10, <1>11, <2>1 DEF ToolsOnly
<1>13. Running(k)'
  BY <1>2, <1>8, <1>9, <1>12 DEF Running
<1>14. \A j \in Keys \ {k} : tasks'[j] = tasks[j]
  BY <1>1, <1>2
<1>15. \A j \in Keys \ {k} : Undisturbed(j)
  <2>1. \A j \in Keys \ {k} : /\ Count(llm', j) = Count(llm, j)
                              /\ Count(tools', j) = Count(tools, j)
    BY <1>0, <1>7
  <2>2. \A x \in tools' : x \in tools \/ x.key = k
    BY <1>1
  <2> QED
    BY <1>1, <1>14, <2>1, <2>2, OthersUndisturbed
<1> QED
  BY <1>1, <1>2, <1>7, <1>8, <1>9, <1>13, <1>14, <1>15 DEF FiniteInv

\* A tool has answered and others have not: one less is waited for.
LEMMA WaitsFlow ==
    ASSUME HandlerTypes, HandlerTypes', FiniteInv, NEW k \in Keys,
           internal # << >>, internal' = Tail(internal), Head(internal).key = k,
           Len(tasks[k]) = 1, Running(k), Waits(k), closed' = closed
    PROVE  /\ FiniteInv' /\ Len(tasks'[k]) = 1 /\ Running(k)' /\ Owed(k)' = Owed(k) - 1
           /\ tasks'[k][1].req = tasks[k][1].req
           /\ \A j \in Keys \ {k} : Undisturbed(j) /\ tasks'[j] = tasks[j]
<1> DEFINE L == tasks[k]
           M == CountedDown(L)
<1>1. tasks' = [tasks EXCEPT ![k] = M] /\ llm' = llm /\ tools' = tools
  BY DEF Waits
<1>2. tasks \in [Keys -> Seq(Task)] /\ L \in Seq(Task)
  BY DEF HandlerTypes
<1>3. /\ SameTasks(L, M) /\ M[1].state = L[1].state /\ M[1].pending = L[1].pending - 1
      /\ L[1] \in Task
  BY <1>2, OneTask, CountedDownList
<1> HIDE DEF M
<1>4. tasks'[k] = M /\ \A j \in Keys \ {k} : tasks'[j] = tasks[j]
  BY <1>1, <1>2
<1>5. /\ Len(tasks'[k]) = 1 /\ tasks'[k][1].state = "WAITING_TOOL"
      /\ tasks'[k][1].pending = L[1].pending - 1 /\ tasks'[k][1].req = L[1].req
  <2>1. 1 \in 1..Len(L)
    OBVIOUS
  <2> QED
    BY <1>3, <1>4, <2>1 DEF SameTasks, Running
<1>6. Owed(k)' = Owed(k) - 1 /\ Owed(k) \in Nat
  <2>1. Cardinality(At(internal', EventsOf(k))) = Cardinality(At(internal, EventsOf(k))) + (-1)
    BY TakenEvent
  <2>2. Count(llm', k) = Count(llm, k) + 0 /\ Count(tools', k) = Count(tools, k) + 0
    BY <1>1, CountFinite DEF FiniteInv
  <2>3. 0 \in Int /\ -1 \in Int
    OBVIOUS
  <2>4. Owed(k)' = Owed(k) + 0 + 0 + (-1) /\ Owed(k) \in Nat
    BY <2>1, <2>2, <2>3, OwedChange
  <2> QED
    BY <2>4
<1>7. ToolsOnly(k, tasks[k][1].req)'
  <2>1. Elements(internal') \subseteq Elements(internal)
    BY TakenEvent
  <2> QED
    BY <1>1, <1>5, <2>1 DEF ToolsOnly, Running
<1>8. Running(k)'
  <2>1. L[1].pending \in Int
    BY <1>3 DEF Task
  <2>2. Owed(k)' <= tasks'[k][1].pending /\ (~closed' => Owed(k)' = tasks'[k][1].pending)
    BY <1>5, <1>6, <2>1 DEF Running
  <2> QED
    BY <1>5, <1>7, <2>2 DEF Running
<1>9. \A j \in Keys \ {k} : Undisturbed(j)
  BY <1>1, <1>4, OthersUndisturbed
<1> QED
  BY <1>1, <1>4, <1>5, <1>6, <1>8, <1>9 DEF FiniteInv

\* The last tool has answered: the session waits for the model again.
LEMMA AsksFlow ==
    ASSUME HandlerTypes, HandlerTypes', FiniteInv, NEW k \in Keys, NEW r,
           internal # << >>, internal' = Tail(internal), Head(internal).key = k,
           Len(tasks[k]) = 1, Running(k), Owed(k) = 1,
           r = tasks[k][1].req, AsksAgain(k, tasks[k][1])
    PROVE  /\ FiniteInv' /\ Len(tasks'[k]) = 1 /\ Asking(k)' /\ Owed(k)' = 1
           /\ tasks'[k][1].req = tasks[k][1].req
           /\ \A j \in Keys \ {k} : Undisturbed(j) /\ tasks'[j] = tasks[j]
<1> DEFINE L == tasks[k]
           M == TurnBegun(CountedDown(L))
<1>1. tasks' = [tasks EXCEPT ![k] = M] /\ TriggerLlm(k, r) /\ tools' = tools
  BY DEF AsksAgain
<1>2. tasks \in [Keys -> Seq(Task)] /\ L \in Seq(Task) /\ L # << >> /\ 1 \in 1..Len(L)
  BY OneTask DEF HandlerTypes
<1>3. SameTasks(L, M) /\ M[1].state = "WAITING_LLM"
  <2>1. 0 \in Int
    OBVIOUS
  <2> QED
    BY <1>2, <2>1, ListsAfterResult
<1> HIDE DEF M
<1>4. tasks'[k] = M /\ \A j \in Keys \ {k} : tasks'[j] = tasks[j]
  BY <1>1, <1>2
<1>5. /\ Len(tasks'[k]) = 1 /\ tasks'[k][1].state = "WAITING_LLM" /\ tasks'[k][1].req = r
  BY <1>2, <1>3, <1>4 DEF SameTasks
<1>6. Count(llm, k) = 0 /\ \A c \in llm : c.key # k
  <2>1. \A c \in llm : c.key # k
    BY DEF Running, ToolsOnly
  <2> QED
    BY <2>1, CountFinite DEF FiniteInv
<1>7. /\ IsFiniteSet(llm')
      /\ \A j : Count(llm', j) = Count(llm, j) + (IF j = k THEN 1 ELSE 0)
      /\ \A c \in llm' : c \in llm \/ (c.key = k /\ c.req = r)
  BY <1>1, <1>6, TriggerCounts
<1>8. /\ Cardinality(At(internal', EventsOf(k))) = Cardinality(At(internal, EventsOf(k))) + (-1)
      /\ Elements(internal') \subseteq Elements(internal)
  BY TakenEvent
<1>9. Owed(k)' = 1
  <2>1. Count(llm', k) = Count(llm, k) + 1
    BY <1>7
  <2>2. Count(tools', k) = Count(tools, k) + 0
    BY <1>1, CountFinite DEF FiniteInv
  <2>3. 0 \in Int /\ -1 \in Int /\ 1 \in Int
    OBVIOUS
  <2>4. Owed(k)' = Owed(k) + 1 + 0 + (-1)
    BY <1>8, <2>1, <2>2, <2>3, OwedChange
  <2> QED
    BY <2>4
<1>10. \* Everything else that was on its way to k was the result just taken.
       /\ \A t \in tools' : t.key # k
       /\ \A e \in Elements(internal') : e.key # k
  <2> DEFINE m == Cardinality(At(internal', EventsOf(k)))
             b == Count(tools', k)
  <2>1. Owed(k)' = OwedIn(llm', tools', internal', k)
    BY OwedCountsNext
  <2>2. Count(llm', k) = 1
    BY <1>6, <1>7
  <2>3. IsFiniteSet(tools')
    BY <1>1 DEF FiniteInv
  <2>4. internal' \in Seq(Event)
    BY DEF HandlerTypes
  <2>5. m \in Nat /\ b \in Nat
    BY <2>3, <2>4, AtFinite, CountFinite
  <2>6. 1 = 1 + b + m
    BY <1>9, <2>1, <2>2 DEF OwedIn
  <2> HIDE DEF m, b
  <2>7. m = 0 /\ b = 0
    BY <2>5, <2>6
  <2>8. \A t \in tools' : t.key # k
    BY <2>3, <2>7, CountFinite DEF b
  <2>9. \A e \in Elements(internal') : e \in Event /\ e \notin EventsOf(k)
    BY <2>4, <2>7, AtFinite, ElementsInRange DEF m
  <2> QED
    BY <2>8, <2>9 DEF EventsOf
<1>11. LlmOnly(k, tasks[k][1].req)'
  BY <1>5, <1>6, <1>7, <1>10 DEF LlmOnly
<1>12. Asking(k)'
  BY <1>5, <1>9, <1>11 DEF Asking
<1>13. \A j \in Keys \ {k} : Undisturbed(j)
  <2>1. \A j \in Keys \ {k} : /\ Count(llm', j) = Count(llm, j)
                              /\ Count(tools', j) = Count(tools, j)
    BY <1>1, <1>7, CountFinite DEF FiniteInv
  <2> QED
    BY <1>1, <1>4, <1>7, <2>1, OthersUndisturbed
<1> QED
  BY <1>1, <1>4, <1>5, <1>7, <1>9, <1>12, <1>13 DEF FiniteInv

\* A request begins in an idle session, which then waits for the model.
LEMMA BeginsFlow ==
    ASSUME HandlerTypes, HandlerTypes', FiniteInv, NEW k \in Keys, NEW r \in Request,
           tasks[k] = << >>, Owed(k) = 0, Begins(k, r), UNCHANGED <<internal, tools>>
    PROVE  /\ FiniteInv' /\ Len(tasks'[k]) = 1 /\ Asking(k)' /\ Owed(k)' = 1
           /\ tasks'[k][1].req = r
           /\ \A j \in Keys \ {k} : Undisturbed(j) /\ tasks'[j] = tasks[j]
<1>1. PICK b \in Nat : tasks' = [tasks EXCEPT ![k] = TurnBegun(Append(tasks[k], NewTask(r, b)))]
  BY BeginsTyped
<1> DEFINE t == NewTask(r, b)
           M == TurnBegun(Append(tasks[k], t))
<1>2. tasks \in [Keys -> Seq(Task)] /\ tasks[k] \in Seq(Task)
  BY DEF HandlerTypes
<1>3. t \in Task /\ t.req = r
  BY NewTaskTyped DEF NewTask
<1> HIDE DEF t
<1>4. M[1].state = "WAITING_LLM" /\ Len(M) = 1 /\ M[1].req = r
  <2>1. M[1].state = "WAITING_LLM" /\ Len(M) = Len(tasks[k]) + 1 /\ M[1].req = r
    BY <1>2, <1>3, AddedList
  <2>2. Len(tasks[k]) = 0
    OBVIOUS
  <2> QED
    BY <2>1, <2>2
<1> HIDE DEF M
<1>5. tasks'[k] = M /\ \A j \in Keys \ {k} : tasks'[j] = tasks[j]
  BY <1>1, <1>2 DEF M, t
<1>6. /\ \A c \in llm : c.key # k
      /\ \A x \in tools : x.key # k
      /\ \A e \in Elements(internal) : e.key # k
      /\ Count(llm, k) = 0
  BY OwedNothing DEF FiniteInv
<1>7. /\ IsFiniteSet(llm')
      /\ \A j : Count(llm', j) = Count(llm, j) + (IF j = k THEN 1 ELSE 0)
      /\ \A c \in llm' : c \in llm \/ (c.key = k /\ c.req = r)
  BY <1>6, TriggerCounts DEF Begins
<1>8. \A j \in Keys : /\ Cardinality(At(internal', EventsOf(j))) = Cardinality(At(internal, EventsOf(j))) + 0
                      /\ Cardinality(At(internal, EventsOf(j))) \in Nat
  BY AtFinite DEF HandlerTypes
<1>9. Owed(k)' = 1
  <2>1. Count(llm', k) = Count(llm, k) + 1
    BY <1>7
  <2>2. Count(tools', k) = Count(tools, k) + 0
    BY CountFinite DEF FiniteInv
  <2>3. 0 \in Int /\ 1 \in Int
    OBVIOUS
  <2>4. Owed(k)' = Owed(k) + 1 + 0 + 0
    BY <1>8, <2>1, <2>2, <2>3, OwedChange
  <2> QED
    BY <2>4
<1>10. LlmOnly(k, tasks[k][1].req)'
  BY <1>4, <1>5, <1>6, <1>7 DEF LlmOnly
<1>11. Asking(k)'
  BY <1>4, <1>5, <1>9, <1>10 DEF Asking
<1>12. ASSUME NEW j \in Keys, j # k PROVE Undisturbed(j)
  <2>1. Count(llm', j) = Count(llm, j) /\ Count(tools', j) = Count(tools, j)
    BY <1>7, <1>12, CountFinite DEF FiniteInv
  <2>2. /\ \A c \in llm' : c.key = j => c \in llm
        /\ \A x \in tools' : x.key = j => x \in tools
        /\ \A e \in Elements(internal') : e.key = j => e \in Elements(internal)
    BY <1>7, <1>12
  <2>3. Cardinality(At(internal', EventsOf(j))) = Cardinality(At(internal, EventsOf(j)))
    BY <1>8
  <2> QED
    BY <1>5, <1>12, <2>1, <2>2, <2>3, Undisturb
<1> QED
  BY <1>4, <1>5, <1>7, <1>9, <1>11, <1>12 DEF FiniteInv

\* What the result just taken does to its session k: the request ends, tools are
\* called, one tool less is waited for, or the model is asked again.
Ended(k) ==
    /\ Asking(k) \/ Running(k)
    /\ Owed(k) = 1
    /\ tasks'[k] = << >> /\ Owed(k)' = 0
    /\ \E kind \in Finals : replies' = Replied(tasks[k][1].req, kind)
Continues(k) == Len(tasks'[k]) = 1 /\ tasks'[k][1].req = tasks[k][1].req
CalledTools(k) ==
    /\ Asking(k) /\ Owed(k) = 1
    /\ Continues(k) /\ Running(k)' /\ Owed(k)' \in 1..MaxCalls
    /\ replies' \in {replies, Replied(tasks[k][1].req, "progress")}
HeardOne(k) ==
    /\ Running(k) /\ Owed(k) \in Nat \ {0} /\ (closed \/ Owed(k) > 1)
    /\ Continues(k) /\ Running(k)' /\ Owed(k)' = Owed(k) - 1
    /\ UNCHANGED replies
AskedAgain(k) ==
    /\ Running(k) /\ Owed(k) = 1
    /\ Continues(k) /\ Asking(k)' /\ Owed(k)' = 1
    /\ UNCHANGED replies
OthersStay(k) == \A j \in Keys \ {k} : Undisturbed(j) /\ tasks'[j] = tasks[j]

\* Every result that is handled is one that its session was waiting for.
LEMMA EventFlow ==
    ASSUME TypeOK, SessionsInv, HandlerTypes', FiniteInv, \A j \in Keys : PhaseOK(j), TakeEvent
    PROVE  /\ FiniteInv' /\ UNCHANGED threadVars /\ UNCHANGED requests
           /\ \E k \in Keys : /\ Len(tasks[k]) = 1 /\ tasks[k][1] \in Task /\ OthersStay(k)
                              /\ Ended(k) \/ CalledTools(k) \/ HeardOne(k) \/ AskedAgain(k)
<1>1. HandlerTypes
  BY TypeParts
<1>2. PICK e : e = Head(internal)
  OBVIOUS
<1>3. PICK k : k = e.key
  OBVIOUS
<1>4. /\ e \in Event /\ k \in Keys
      /\ internal # << >> /\ internal' = Tail(internal) /\ Head(internal).key = k
      /\ UNCHANGED threadVars /\ UNCHANGED requests
      /\ \/ tasks[k] = << >>
         \/ e.type = "llm" /\ Ends(k, tasks[k][1])
         \/ e.type = "llm" /\ e.res.n \in 1..MaxCalls /\ Calls(k, tasks[k][1], e)
         \/ e.type = "tool" /\ tasks[k][1].pending > 1 /\ Waits(k)
         \/ e.type = "tool" /\ tasks[k][1].pending <= 1 /\ Ends(k, tasks[k][1])
         \/ e.type = "tool" /\ tasks[k][1].pending <= 1 /\ AsksAgain(k, tasks[k][1])
  BY <1>2, <1>3, EventSteps
<1>5. e \in Elements(internal) /\ closed' = closed
  BY <1>1, <1>2, <1>4, TakenEvent DEF threadVars
<1>6. /\ Len(tasks[k]) = 1 /\ tasks[k] # << >> /\ tasks[k][1] \in Task
      /\ Owed(k) \in Nat \ {0}
      /\ e.type = "llm" => /\ Asking(k) /\ Owed(k) = 1 /\ e.req = tasks[k][1].req
      /\ e.type = "tool" => /\ Running(k) /\ e.call[1] = tasks[k][1].req
  BY <1>1, <1>3, <1>4, <1>5, ResultAwaited
<1>7. ASSUME e.type = "tool", tasks[k][1].pending <= 1 PROVE Owed(k) = 1
  <2>1. tasks[k][1].pending \in Int /\ Owed(k) <= tasks[k][1].pending
    BY <1>6, <1>7 DEF Task, Running
  <2> QED
    BY <1>6, <1>7, <2>1
<1>8. ASSUME Ends(k, tasks[k][1]), Owed(k) = 1, Asking(k) \/ Running(k)
      PROVE  FiniteInv' /\ OthersStay(k) /\ Ended(k)
  <2>1. PICK t : t = tasks[k][1]
    OBVIOUS
  <2>2. Ends(k, t)
    BY <1>8, <2>1
  <2>3. /\ FiniteInv' /\ tasks'[k] = << >> /\ Owed(k)' = 0
        /\ \A j \in Keys \ {k} : Undisturbed(j) /\ tasks'[j] = tasks[j]
    BY <1>1, <1>4, <1>6, <1>8, <2>2, EndsFlow
  <2> QED
    BY <1>8, <2>3 DEF Ended, OthersStay, Ends
<1>9. ASSUME e.type = "llm", e.res.n \in 1..MaxCalls, Calls(k, tasks[k][1], e)
      PROVE  FiniteInv' /\ OthersStay(k) /\ CalledTools(k)
  <2>1. PICK t : t = tasks[k][1]
    OBVIOUS
  <2>2. Calls(k, t, e)
    BY <1>9, <2>1
  <2>3. /\ FiniteInv' /\ Len(tasks'[k]) = 1 /\ Running(k)' /\ Owed(k)' \in 1..MaxCalls
        /\ tasks'[k][1].req = tasks[k][1].req
        /\ \A j \in Keys \ {k} : Undisturbed(j) /\ tasks'[j] = tasks[j]
    BY <1>1, <1>2, <1>3, <1>4, <1>5, <1>6, <1>9, <2>2, CallsFlow
  <2> QED
    BY <1>6, <1>9, <2>3 DEF CalledTools, Continues, OthersStay, Calls
<1>10. ASSUME e.type = "tool", tasks[k][1].pending > 1, Waits(k)
       PROVE  FiniteInv' /\ OthersStay(k) /\ HeardOne(k)
  <2>1. /\ FiniteInv' /\ Len(tasks'[k]) = 1 /\ Running(k)' /\ Owed(k)' = Owed(k) - 1
        /\ tasks'[k][1].req = tasks[k][1].req
        /\ \A j \in Keys \ {k} : Undisturbed(j) /\ tasks'[j] = tasks[j]
    BY <1>1, <1>4, <1>5, <1>6, <1>10, WaitsFlow
  <2>2. Running(k) /\ (closed \/ Owed(k) > 1)
    BY <1>6, <1>10 DEF Running
  <2> QED
    BY <1>6, <1>10, <2>1, <2>2 DEF HeardOne, Continues, OthersStay, Waits
<1>11. ASSUME e.type = "tool", tasks[k][1].pending <= 1, AsksAgain(k, tasks[k][1])
       PROVE  FiniteInv' /\ OthersStay(k) /\ AskedAgain(k)
  <2>1. PICK r : r = tasks[k][1].req
    OBVIOUS
  <2>2. Owed(k) = 1
    BY <1>7, <1>11
  <2>3. /\ FiniteInv' /\ Len(tasks'[k]) = 1 /\ Asking(k)' /\ Owed(k)' = 1
        /\ tasks'[k][1].req = tasks[k][1].req
        /\ \A j \in Keys \ {k} : Undisturbed(j) /\ tasks'[j] = tasks[j]
    BY <1>1, <1>4, <1>6, <1>11, <2>1, <2>2, AsksFlow
  <2> QED
    BY <1>6, <1>11, <2>2, <2>3 DEF AskedAgain, Continues, OthersStay, AsksAgain
<1> QED
  BY <1>4, <1>6, <1>7, <1>8, <1>9, <1>10, <1>11

\* What the message just taken, request r, does to its session k: it begins, it is
\* answered at once, or it is ignored.
Begun(k, r) ==
    /\ tasks[k] = << >> /\ Owed(k) = 0
    /\ Len(tasks'[k]) = 1 /\ tasks'[k][1].req = r /\ Asking(k)' /\ Owed(k)' = 1
    /\ UNCHANGED replies
Answered(k, r) ==
    /\ Undisturbed(k)
    /\ \E kind \in {"busy", "command"} : replies' = Replied(r, kind)
Ignored(k, r) ==
    /\ requests[r].kind = "empty"
    /\ Undisturbed(k)
    /\ UNCHANGED replies

\* A message is taken up only by a session that is idle and owed nothing.
LEMMA MessageFlow ==
    ASSUME "skill" \notin Kinds,
           TypeOK, SessionsInv, HandlerTypes', FiniteInv, \A j \in Keys : PhaseOK(j), TakeMessage
    PROVE  /\ FiniteInv' /\ inbox # << >> /\ inbox' = Tail(inbox)
           /\ UNCHANGED <<main, running, told, closed, hand, requests, inbound>>
           /\ \E r \in 1..Len(requests), k \in Keys :
                 /\ r = Head(inbox) /\ r \in Request /\ k = requests[r].key /\ OthersStay(k)
                 /\ Begun(k, r) \/ Answered(k, r) \/ Ignored(k, r)
<1>1. HandlerTypes
  BY TypeParts
<1>2. PICK r : r = Head(inbox)
  OBVIOUS
<1>3. PICK k : k = requests[r].key
  OBVIOUS
<1>4. /\ r \in Request /\ r \in 1..Len(requests) /\ k \in Keys
      /\ inbox # << >> /\ inbox' = Tail(inbox)
      /\ UNCHANGED <<main, running, told, closed, hand, requests, inbound, internal, tools>>
      /\ \/ (requests[r].kind = "skill" \/ ~Busy(k)) /\ Begins(k, r)
         \/ Answers(k, r)
         \/ requests[r].kind = "empty" /\ UNCHANGED <<tasks, llm, asks, replies>>
  BY <1>2, <1>3, MessageSteps
<1>5. tasks \in [Keys -> Seq(Task)] /\ tasks[k] \in Seq(Task)
  BY <1>1, <1>4 DEF HandlerTypes
<1>6. requests[r].kind # "skill"
  <2>1. requests[r] \in [key : Keys, kind : Kinds]
    BY <1>4, ElementOfSeq DEF TypeOK
  <2> QED
    BY <2>1
<1>7. CASE ~Busy(k) /\ Begins(k, r)
  <2>1. tasks[k] = << >> /\ Owed(k) = 0
    <3>1. ASSUME Len(tasks[k]) = 1, Asking(k) \/ Running(k) PROVE Busy(k)
      <4>1. tasks[k] # << >> /\ tasks[k][1] \in Task
        BY <1>5, <3>1, OneTask
      <4>2. Snapshot(k).state = tasks[k][1].state
        BY <4>1 DEF Snapshot, Task
      <4> QED
        BY <3>1, <4>1, <4>2 DEF Busy, Asking, Running
    <3> QED
      BY <1>4, <1>7, <3>1 DEF PhaseOK
  <2>2. /\ FiniteInv' /\ Len(tasks'[k]) = 1 /\ Asking(k)' /\ Owed(k)' = 1
        /\ tasks'[k][1].req = r
        /\ \A j \in Keys \ {k} : Undisturbed(j) /\ tasks'[j] = tasks[j]
    BY <1>1, <1>4, <1>7, <2>1, BeginsFlow
  <2>3. Begun(k, r) /\ OthersStay(k)
    BY <1>7, <2>1, <2>2 DEF Begun, OthersStay, Begins
  <2> QED
    BY <1>2, <1>3, <1>4, <2>2, <2>3
<1>8. ASSUME NEW j \in Keys, UNCHANGED <<internal, tools, llm>> PROVE Owed(j)' = Owed(j) /\ SameComing(j)
  BY <1>8 DEF SameComing, LlmOnly, ToolsOnly, Owed, LlmEvents, ToolEvents
<1>9. CASE Answers(k, r)
  <2>1. UNCHANGED <<internal, tools, llm>>
    BY <1>4, <1>9 DEF Answers
  <2>2. ASSUME NEW j \in Keys PROVE SameWait(j) /\ (j # k => tasks'[j] = tasks[j])
    <3>1. CASE tasks' = tasks
      BY <3>1 DEF SameWait
    <3>2. CASE tasks' = TasksCancelled(k)
      <4>1. CASE j # k
        <5>1. tasks'[j] = tasks[j]
          BY <1>1, <1>4, <3>2, <4>1, CancelTyped
        <5> QED
          BY <4>1, <5>1 DEF SameWait
      <4>2. CASE j = k
        <5>1. /\ SameTasks(tasks[k], tasks'[k])
              /\ \A i \in 1..Len(tasks[k]) : /\ tasks'[k][i].state = tasks[k][i].state
                                             /\ tasks'[k][i].pending = tasks[k][i].pending
          BY <1>1, <1>4, <3>2, CancelTyped
        <5>2. tasks'[k] \in Seq(Task) /\ Len(tasks'[k]) = Len(tasks[k])
          BY <5>1 DEF SameTasks
        <5>3. tasks[k] = << >> <=> tasks'[k] = << >>
          BY <1>5, <5>2, EmptySeq
        <5>4. tasks[k] # << >> => 1 \in 1..Len(tasks[k])
          BY <1>5, FirstTask
        <5> QED
          BY <4>2, <5>1, <5>2, <5>3, <5>4 DEF SameWait, SameTasks
      <4> QED
        BY <4>1, <4>2
    <3> QED
      BY <1>9, <3>1, <3>2 DEF Answers
  <2>3. Answered(k, r) /\ OthersStay(k)
    BY <1>4, <1>8, <1>9, <2>1, <2>2 DEF Answered, OthersStay, Undisturbed, Answers
  <2>4. FiniteInv'
    BY <2>1 DEF FiniteInv
  <2> QED
    BY <1>2, <1>3, <1>4, <2>3, <2>4
<1>10. CASE requests[r].kind = "empty" /\ UNCHANGED <<tasks, llm, asks, replies>>
  <2>1. UNCHANGED <<internal, tools, llm>>
    BY <1>4, <1>10
  <2>2. \A j \in Keys : SameWait(j) /\ tasks'[j] = tasks[j]
    BY <1>10 DEF SameWait
  <2>3. Ignored(k, r) /\ OthersStay(k)
    BY <1>4, <1>8, <1>10, <2>1, <2>2 DEF Ignored, OthersStay, Undisturbed
  <2>4. FiniteInv'
    BY <2>1 DEF FiniteInv
  <2> QED
    BY <1>2, <1>3, <1>4, <2>3, <2>4
<1> QED
  BY <1>4, <1>6, <1>7, <1>9, <1>10

\* What a session is owed is a number.
LEMMA OwedNumber == HandlerTypes /\ FiniteInv => \A k \in Keys : Owed(k) \in Nat
  BY OwedNothing DEF FiniteInv

\* It is one after a step as well.
LEMMA OwedNumberNext ==
    ASSUME HandlerTypes', FiniteInv'
    PROVE  \A j \in Keys : Owed(j)' \in Nat
<1>1. (\A k \in Keys : Owed(k) \in Nat)'
  BY OwedNumber, PTL
<1> QED
  BY <1>1

\* A result for session k is dropped because the bus is closed.
Lost(k) == closed /\ SameWait(k) /\ SameComing(k) /\ Owed(k)' = Owed(k) - 1

\* Every other step leaves the tasks and the replies as they are, and all that is on
\* its way, but for a result that comes back when the bus is closed.
LEMMA OtherFlow ==
    ASSUME TypeOK, SessionsInv, HandlerTypes', FiniteInv, [Next]_vars, ~TakeEvent, ~TakeMessage
    PROVE  /\ FiniteInv' /\ UNCHANGED <<tasks, replies>>
           /\ closed' = closed \/ closed' = TRUE
           /\ \/ \A j \in Keys : Undisturbed(j)
              \/ closed' = closed /\ \E k \in Keys : Lost(k) /\ OthersStay(k)
<1>1. HandlerTypes
  BY TypeParts
<1>2. CASE Callback
  <2>1. UNCHANGED <<tasks, replies>> /\ closed' = closed
    BY <1>2 DEF Callback, LlmCallback, ToolCallback, threadVars
  <2>2. \A j \in Keys : SameWait(j) /\ tasks'[j] = tasks[j]
    BY <2>1 DEF SameWait
  <2>3. PICK k \in Keys :
            /\ FiniteInv'
            /\ \A j \in Keys : /\ Owed(j)' = Owed(j) - (IF closed /\ k = j THEN 1 ELSE 0)
                               /\ SameComing(j)
    <3>1. ASSUME NEW c \in llm, NEW res \in LlmResult, LlmCallback(c, res)
          PROVE  \E k \in Keys :
                    /\ FiniteInv'
                    /\ \A j \in Keys : /\ Owed(j)' = Owed(j) - (IF closed /\ k = j THEN 1 ELSE 0)
                                       /\ SameComing(j)
      BY <1>1, <3>1, LlmCallbackOwed
    <3>2. ASSUME NEW t \in tools, ToolCallback(t)
          PROVE  \E k \in Keys :
                    /\ FiniteInv'
                    /\ \A j \in Keys : /\ Owed(j)' = Owed(j) - (IF closed /\ k = j THEN 1 ELSE 0)
                                       /\ SameComing(j)
      BY <1>1, <3>2, ToolCallbackOwed
    <3> QED
      BY <1>2, <3>1, <3>2 DEF Callback
  <2>4. \A j \in Keys : Owed(j) \in Nat
    BY <1>1, OwedNumber
  <2>5. \A j \in Keys : ~(closed /\ k = j) => Undisturbed(j)
    BY <2>2, <2>3, <2>4 DEF Undisturbed
  <2>6. CASE closed
    <3>1. Lost(k) /\ OthersStay(k)
      BY <2>2, <2>3, <2>5, <2>6 DEF Lost, OthersStay
    <3> QED
      BY <2>1, <2>3, <3>1
  <2>7. CASE ~closed
    BY <2>1, <2>3, <2>5, <2>7
  <2> QED
    BY <2>6, <2>7
<1>3. CASE ~Callback
  <2>1. /\ UNCHANGED handlerVars
        /\ closed' = closed \/ closed' = TRUE
    BY <1>3 DEF Next, Main, Worker, Arrive, RequestStop, AgentLoopStop, Start, StartFails, Loop,
                HandOver, CloseBus, Join, NoEvent, NoMessage, CheckRunning, Done, vars, handlerVars
  <2>2. UNCHANGED <<internal, tasks, llm, tools, replies>>
    BY <2>1 DEF handlerVars
  <2>3. \A j \in Keys : Undisturbed(j)
    BY <2>2 DEF Undisturbed, SameWait, SameComing, LlmOnly, ToolsOnly, Owed, LlmEvents, ToolEvents
  <2> QED
    BY <2>1, <2>2, <2>3 DEF FiniteInv
<1> QED
  BY <1>2, <1>3

\* Every step leaves every session in one of its phases.
LEMMA PhasesKept ==
    ASSUME "skill" \notin Kinds,
           TypeOK, SessionsInv, HandlerTypes', FiniteInv, \A j \in Keys : PhaseOK(j), [Next]_vars
    PROVE  FiniteInv' /\ \A j \in Keys : PhaseOK(j)'
<1>1. HandlerTypes
  BY TypeParts
<1>2. \A j \in Keys : Owed(j) \in Nat
  BY <1>1, OwedNumber
<1>3. ASSUME FiniteInv' PROVE \A j \in Keys : Owed(j)' \in Nat
  BY <1>3, OwedNumberNext
<1>4. ASSUME NEW j \in Keys, Undisturbed(j), closed' = closed \/ closed' = TRUE PROVE PhaseOK(j)'
  <2>1. ~closed' => ~closed
    BY <1>4
  <2> QED
    BY <1>1, <1>2, <1>4, <2>1, PhaseStays DEF Undisturbed
<1>5. CASE TakeEvent
  <2>1. PICK k \in Keys : /\ Len(tasks[k]) = 1 /\ OthersStay(k)
                          /\ Ended(k) \/ CalledTools(k) \/ HeardOne(k) \/ AskedAgain(k)
    BY <1>5, EventFlow
  <2>2. FiniteInv' /\ closed' = closed
    BY <1>5, EventFlow DEF threadVars
  <2>3. PhaseOK(k)'
    BY <2>1 DEF PhaseOK, Ended, CalledTools, HeardOne, AskedAgain, Continues
  <2> QED
    BY <1>4, <2>1, <2>2, <2>3 DEF OthersStay
<1>6. CASE TakeMessage
  <2>1. FiniteInv' /\ closed' = closed
    BY <1>6, MessageFlow
  <2>2. PICK r \in 1..Len(requests), k \in Keys :
            OthersStay(k) /\ (Begun(k, r) \/ Answered(k, r) \/ Ignored(k, r))
    BY <1>6, MessageFlow
  <2>3. ASSUME Begun(k, r) PROVE PhaseOK(k)'
    BY <2>3 DEF PhaseOK, Begun
  <2>4. ASSUME Undisturbed(k) PROVE PhaseOK(k)'
    BY <1>4, <2>1, <2>4
  <2> QED
    BY <1>4, <2>1, <2>2, <2>3, <2>4 DEF OthersStay, Answered, Ignored
<1>7. CASE ~TakeEvent /\ ~TakeMessage
  <2>1. /\ FiniteInv' /\ (closed' = closed \/ closed' = TRUE)
        /\ \/ \A j \in Keys : Undisturbed(j)
           \/ closed' = closed /\ \E k \in Keys : Lost(k) /\ OthersStay(k)
    BY <1>7, OtherFlow
  <2>2. CASE \A j \in Keys : Undisturbed(j)
    BY <1>4, <2>1, <2>2
  <2>3. CASE closed' = closed /\ \E k \in Keys : Lost(k) /\ OthersStay(k)
    <3>1. PICK k \in Keys : Lost(k) /\ OthersStay(k)
      BY <2>3
    <3>2. PhaseOK(k)'
      <4>1. Owed(k)' \in Nat
        BY <1>3, <2>1
      <4>2. Owed(k)' <= Owed(k) /\ closed'
        BY <1>2, <2>3, <3>1 DEF Lost
      <4> QED
        BY <1>1, <1>2, <3>1, <4>1, <4>2, PhaseStays DEF Lost
    <3> QED
      BY <1>4, <2>1, <3>1, <3>2 DEF OthersStay
  <2> QED
    BY <2>1, <2>2, <2>3
<1> QED
  BY <1>5, <1>6, <1>7

FlowInv == TypeOK /\ SessionsInv /\ FiniteInv /\ \A k \in Keys : PhaseOK(k)

\* Every step keeps the types and the phases.
LEMMA FlowKept ==
    ASSUME "skill" \notin Kinds, FlowInv, [Next]_vars
    PROVE  FlowInv' /\ HandlerTypes'
<1>1. TypeOK' /\ SessionsInv'
  BY TypesKept DEF FlowInv
<1>2. HandlerTypes'
  BY <1>1, TypeParts, PTL
<1>3. FiniteInv' /\ \A k \in Keys : PhaseOK(k)'
  BY <1>2, PhasesKept DEF FlowInv
<1> QED
  BY <1>1, <1>2, <1>3 DEF FlowInv

-----------------------------------------------------------------------------
(* Each session is the state machine SessionFlow.                          *)

\* Nothing is owed to anybody at the start.
LEMMA InitPhases == Init => FiniteInv /\ \A k \in Keys : PhaseOK(k) /\ Owed(k) = 0
<1> SUFFICES ASSUME Init PROVE FiniteInv /\ \A k \in Keys : PhaseOK(k) /\ Owed(k) = 0
  OBVIOUS
<1>1. llm = {} /\ tools = {} /\ internal = << >> /\ tasks = [k \in Keys |-> << >>]
  BY DEF Init
<1>2. IsFiniteSet({}) /\ Cardinality({}) = 0
  BY FS_EmptySet
<1>3. ASSUME NEW k \in Keys PROVE Owed(k) = 0
  <2>1. /\ {c \in llm : c.key = k} = {} /\ {t \in tools : t.key = k} = {}
        /\ LlmEvents(k) \cup ToolEvents(k) = {}
    BY <1>1 DEF LlmEvents, ToolEvents
  <2>2. /\ Cardinality({c \in llm : c.key = k}) = 0 /\ Cardinality({t \in tools : t.key = k}) = 0
        /\ Cardinality(LlmEvents(k) \cup ToolEvents(k)) = 0
    BY ONLY <1>2, <2>1
  <2> QED
    BY ONLY <2>2 DEF Owed
<1> QED
  BY <1>1, <1>2, <1>3 DEF FiniteInv, PhaseOK

\* A session's state as SessionFlow sees it.
LEMMA FlowStates ==
    ASSUME HandlerTypes, NEW k \in Keys
    PROVE  /\ tasks[k] = << >> => FlowState(k) = "IDLE"
           /\ Len(tasks[k]) = 1 /\ Asking(k) => FlowState(k) = "WAITING_LLM"
           /\ Len(tasks[k]) = 1 /\ Running(k) => FlowState(k) = "WAITING_TOOL"
<1>1. tasks[k] \in Seq(Task)
  BY DEF HandlerTypes
<1>2. Len(tasks[k]) = 1 => tasks[k] # << >>
  BY <1>1, OneTask
<1> QED
  BY <1>2 DEF FlowState, Asking, Running

\* One session moves, the others do not.
LEMMA FlowMoves ==
    ASSUME NEW k \in Keys, NEW s, NEW n, FlowState(k)' = s, Owed(k)' = n,
           \A j \in Keys \ {k} : FlowState(j)' = FlowState(j) /\ Owed(j)' = Owed(j),
           closed' = closed
    PROVE  Flow!Become(k, s, n)
  BY DEF Flow!Become

\* A step that leaves session j undisturbed leaves its state.
LEMMA UndisturbedState ==
    ASSUME NEW j \in Keys, SameWait(j)
    PROVE  FlowState(j)' = FlowState(j)
  BY DEF SameWait, FlowState

\* Every step is a step of SessionFlow, or changes nothing it sees.
LEMMA FlowSteps ==
    ASSUME "skill" \notin Kinds, TypeOK, SessionsInv, HandlerTypes', FiniteInv,
           \A j \in Keys : PhaseOK(j), [Next]_vars
    PROVE  [Flow!Next]_(Flow!flowVars)
<1>1. HandlerTypes
  BY TypeParts
<1>2. \A j \in Keys : Owed(j) \in Nat
  BY <1>1, OwedNumber
<1>3. ASSUME NEW k \in Keys, OthersStay(k), closed' = closed,
             NEW s, NEW n, FlowState(k)' = s, Owed(k)' = n
      PROVE  Flow!Become(k, s, n)
  <2>1. \A j \in Keys \ {k} : FlowState(j)' = FlowState(j) /\ Owed(j)' = Owed(j)
    BY <1>3, UndisturbedState DEF OthersStay, Undisturbed
  <2> QED
    BY <1>3, <2>1, FlowMoves
<1>4. ASSUME NEW k \in Keys
      PROVE  /\ tasks'[k] = << >> => FlowState(k)' = "IDLE"
             /\ Len(tasks'[k]) = 1 /\ Asking(k)' => FlowState(k)' = "WAITING_LLM"
             /\ Len(tasks'[k]) = 1 /\ Running(k)' => FlowState(k)' = "WAITING_TOOL"
  <2>1. tasks'[k] \in Seq(Task)
    BY DEF HandlerTypes
  <2>2. Len(tasks'[k]) = 1 => tasks'[k] # << >>
    BY <2>1, OneTask
  <2> QED
    BY <2>2 DEF FlowState, Asking, Running
<1>5. CASE TakeEvent
  <2>1. closed' = closed
    BY <1>5, EventFlow DEF threadVars
  <2>2. PICK k \in Keys : /\ Len(tasks[k]) = 1 /\ OthersStay(k)
                          /\ Ended(k) \/ CalledTools(k) \/ HeardOne(k) \/ AskedAgain(k)
    BY <1>5, EventFlow
  <2>3. CASE Ended(k)
    <3>1. FlowState(k) \in {"WAITING_LLM", "WAITING_TOOL"} /\ Owed(k) = 1
      BY <1>1, <2>2, <2>3, FlowStates DEF Ended
    <3>2. Flow!Become(k, "IDLE", 0)
      BY <1>3, <1>4, <2>1, <2>2, <2>3 DEF Ended
    <3>3. Flow!Answer(k) \/ Flow!LastToolDone(k)
      BY <3>1, <3>2 DEF Flow!Answer, Flow!LastToolDone
    <3> QED
      BY <3>3 DEF Flow!Next
  <2>4. CASE CalledTools(k)
    <3>1. FlowState(k) = "WAITING_LLM" /\ Owed(k) = 1
      BY <1>1, <2>2, <2>4, FlowStates DEF CalledTools
    <3>2. PICK n : n = Owed(k)'
      OBVIOUS
    <3>3. Flow!Become(k, "WAITING_TOOL", n) /\ n \in 1..MaxCalls
      BY <1>3, <1>4, <2>1, <2>2, <2>4, <3>2 DEF CalledTools, Continues
    <3>4. Flow!CallTools(k)
      BY <3>1, <3>3 DEF Flow!CallTools
    <3> QED
      BY <3>4 DEF Flow!Next
  <2>5. CASE HeardOne(k)
    <3>1. FlowState(k) = "WAITING_TOOL"
      BY <1>1, <2>2, <2>5, FlowStates DEF HeardOne
    <3>2. PICK n : n = Owed(k)'
      OBVIOUS
    <3>3. Flow!Become(k, "WAITING_TOOL", n) /\ n = Owed(k) - 1
      BY <1>3, <1>4, <2>1, <2>2, <2>5, <3>2 DEF HeardOne, Continues
    <3>4. Flow!ToolDone(k) \/ Flow!Lose(k)
      <4>1. CASE Owed(k) > 1
        BY <3>1, <3>3, <4>1 DEF Flow!ToolDone
      <4>2. CASE closed
        <5>1. Owed(k) > 0
          BY <2>5 DEF HeardOne
        <5> QED
          BY <3>1, <3>3, <4>2, <5>1 DEF Flow!Lose
      <4> QED
        BY <2>5, <4>1, <4>2 DEF HeardOne
    <3> QED
      BY <3>4 DEF Flow!Next
  <2>6. CASE AskedAgain(k)
    <3>1. FlowState(k) = "WAITING_TOOL" /\ Owed(k) = 1
      BY <1>1, <2>2, <2>6, FlowStates DEF AskedAgain
    <3>2. Flow!Become(k, "WAITING_LLM", 1)
      BY <1>3, <1>4, <2>1, <2>2, <2>6 DEF AskedAgain, Continues
    <3>3. Flow!LastToolDone(k)
      BY <3>1, <3>2 DEF Flow!LastToolDone
    <3> QED
      BY <3>3 DEF Flow!Next
  <2> QED
    BY <2>2, <2>3, <2>4, <2>5, <2>6
<1>6. ASSUME \A j \in Keys : Undisturbed(j), closed' = closed \/ closed' = TRUE
      PROVE  [Flow!Next]_(Flow!flowVars)
  <2>1. \A j \in Keys : FlowState(j)' = FlowState(j) /\ Owed(j)' = Owed(j)
    BY <1>6, UndisturbedState DEF Undisturbed
  <2>2. /\ [j \in Keys |-> FlowState(j)]' = [j \in Keys |-> FlowState(j)]
        /\ [j \in Keys |-> Owed(j)]' = [j \in Keys |-> Owed(j)]
    BY <2>1
  <2>3. CASE closed' = closed
    BY <2>2, <2>3 DEF Flow!flowVars
  <2>4. CASE closed' = TRUE
    BY <2>2, <2>4 DEF Flow!Next, Flow!Stop
  <2> QED
    BY <1>6, <2>3, <2>4
<1>7. CASE TakeMessage
  <2>1. closed' = closed
    BY <1>7, MessageFlow
  <2>2. PICK r \in 1..Len(requests), k \in Keys :
            OthersStay(k) /\ (Begun(k, r) \/ Answered(k, r) \/ Ignored(k, r))
    BY <1>7, MessageFlow
  <2>3. CASE Begun(k, r)
    <3>1. FlowState(k) = "IDLE" /\ Owed(k) = 0
      BY <1>1, <2>3, FlowStates DEF Begun
    <3>2. Flow!Become(k, "WAITING_LLM", 1)
      BY <1>3, <1>4, <2>1, <2>2, <2>3 DEF Begun
    <3>3. Flow!Ask(k)
      BY <3>1, <3>2 DEF Flow!Ask
    <3> QED
      BY <3>3 DEF Flow!Next
  <2>4. CASE Undisturbed(k)
    BY <1>6, <2>1, <2>2, <2>4 DEF OthersStay
  <2> QED
    BY <2>2, <2>3, <2>4 DEF Answered, Ignored
<1>8. CASE ~TakeEvent /\ ~TakeMessage
  <2>1. /\ FiniteInv' /\ (closed' = closed \/ closed' = TRUE)
        /\ \/ \A j \in Keys : Undisturbed(j)
           \/ closed' = closed /\ \E k \in Keys : Lost(k) /\ OthersStay(k)
    BY <1>8, OtherFlow
  <2>2. CASE closed' = closed /\ \E k \in Keys : Lost(k) /\ OthersStay(k)
    <3>1. PICK k \in Keys : Lost(k) /\ OthersStay(k)
      BY <2>2
    <3>2. PICK s, n : s = FlowState(k) /\ n = Owed(k) - 1
      OBVIOUS
    <3>3. Owed(k)' \in Nat
      BY <2>1, OwedNumberNext
    <3>4. FlowState(k)' = s /\ Owed(k)' = n /\ Owed(k) > 0 /\ closed
      BY <1>2, <3>1, <3>2, <3>3, UndisturbedState DEF Lost
    <3>5. Flow!Become(k, s, n)
      BY <1>3, <2>2, <3>1, <3>4
    <3>6. Flow!Lose(k)
      BY <3>2, <3>4, <3>5 DEF Flow!Lose
    <3> QED
      BY <3>6 DEF Flow!Next
  <2> QED
    BY <1>6, <2>1, <2>2
<1> QED
  BY <1>5, <1>7, <1>8

\* Without skill commands each session is the state machine that the README draws: it
\* takes up a request only when it is idle and owed nothing, waits for exactly the
\* results that are on their way, and is idle again after the last one; only a closed bus
\* loses a result (handle_event_llm_result, handle_event_tool_result, the busy test of
\* process_inbound_message and the callbacks, interleaved in any way).
THEOREM ImplementsSessionFlow == ASSUME "skill" \notin Kinds PROVE Spec => ImplementsFlow
<1>1. Init => FlowInv
  BY InitTypes, InitPhases DEF FlowInv
<1>2. FlowInv /\ [Next]_vars => FlowInv'
  BY FlowKept
<1>3. FlowInv /\ [Next]_vars => [Flow!Next]_(Flow!flowVars)
  <2> SUFFICES ASSUME FlowInv, [Next]_vars PROVE [Flow!Next]_(Flow!flowVars)
    OBVIOUS
  <2>1. HandlerTypes'
    BY FlowKept
  <2> QED
    BY <2>1, FlowSteps DEF FlowInv
<1>4. Init => Flow!Init
  <2> SUFFICES ASSUME Init PROVE Flow!Init
    OBVIOUS
  <2>1. \A k \in Keys : FlowState(k) = "IDLE" /\ Owed(k) = 0
    BY InitPhases DEF Init, FlowState
  <2> QED
    BY <2>1 DEF Init, Flow!Init
<1> QED
  BY <1>1, <1>2, <1>3, <1>4, PTL DEF Spec, ImplementsFlow, Flow!Spec

-----------------------------------------------------------------------------
(* Every request is in one place until it is over.                         *)

\* A message arrives: it is new, and in the inbound queue unless the bus is closed.
LEMMA ArriveHeld ==
    ASSUME ThreadTypes, QueueInv, NEW k \in Keys, NEW kind \in Kinds, Arrive(k, kind),
           NEW n, n = Len(requests) + 1
    PROVE  /\ QueueInv' /\ Len(requests') = n /\ Len(requests) \in Nat
           /\ \A r \in 1..Len(requests) : requests'[r] = requests[r]
           /\ \A r : Held(r)' => Held(r) \/ r = n
           /\ \A r : Held(r) => Held(r)'
           /\ ~Held(n)
           /\ ~closed => Held(n)'
<1> DEFINE m == Len(requests)
           x == [key |-> k, kind |-> kind]
<1>1. requests \in Seq([key : Keys, kind : Kinds]) /\ m \in Nat /\ requests' = Append(requests, x)
      /\ x \in [key : Keys, kind : Kinds]
  BY DEF ThreadTypes, Arrive
<1>2. inbound' = (IF closed THEN inbound ELSE Append(inbound, n)) /\ hand' = hand /\ inbox' = inbox
  BY DEF Arrive
<1> HIDE DEF x
<1>3. Len(requests') = n /\ \A r \in 1..m : requests'[r] = requests[r]
  BY <1>1
<1> DEFINE R == 1..n
<1>4. inbound \in Seq(R) /\ n \in R /\ n \notin Elements(inbound) /\ n \notin Elements(inbox) /\ n # hand
  <2>1. 1..m \subseteq R /\ n \in R /\ n \notin 0..m /\ n \notin 1..m
    BY <1>1
  <2>2. inbound \in Seq(1..m) /\ inbox \in Seq(1..m) /\ hand \in 0..m
    BY DEF ThreadTypes
  <2>3. Elements(inbound) \subseteq 1..m /\ Elements(inbox) \subseteq 1..m
    BY <2>2, ElementsInRange
  <2>4. inbound \in Seq(R)
    BY <2>1, <2>2, SeqMonotonic
  <2> QED
    BY <2>1, <2>2, <2>3, <2>4
<1> HIDE DEF R
<1>5. CASE closed
  BY <1>1, <1>2, <1>3, <1>4, <1>5 DEF QueueInv, Held
<1>6. CASE ~closed
  <2>1. inbound' = Append(inbound, n)
    BY <1>2, <1>6
  <2>2. Elements(inbound') = Elements(inbound) \cup {n} /\ Distinct(inbound')
    BY <1>4, <2>1, AppendDistinct DEF QueueInv
  <2>3. QueueInv'
    BY <1>2, <1>4, <2>2 DEF QueueInv
  <2>4. \A r : Held(r)' <=> Held(r) \/ r = n
    BY <1>2, <2>2 DEF Held
  <2>5. ~Held(n)
    BY <1>4 DEF Held
  <2> QED
    BY <1>1, <1>3, <2>3, <2>4, <2>5
<1> QED
  BY <1>5, <1>6

\* The worker takes the first message of the inbox.
LEMMA MessageHeld ==
    ASSUME ThreadTypes, QueueInv, inbox # << >>, inbox' = Tail(inbox), UNCHANGED <<hand, inbound>>
    PROVE  /\ QueueInv' /\ Held(Head(inbox))
           /\ \A r : Held(r)' <=> Held(r) /\ r # Head(inbox)
<1>1. inbox \in Seq(1..Len(requests)) /\ Distinct(inbox)
  BY DEF ThreadTypes, QueueInv
<1>2. PICK h : h = Head(inbox)
  OBVIOUS
<1>3. /\ Distinct(inbox') /\ h \in Elements(inbox) /\ Elements(inbox') = Elements(inbox) \ {h}
  BY <1>1, <1>2, TailDistinct
<1>4. h # hand /\ h \notin Elements(inbound)
  BY <1>3 DEF QueueInv
<1>5. QueueInv'
  BY <1>3 DEF QueueInv
<1>6. \A r : Held(r)' <=> Held(r) /\ r # h
  BY <1>3, <1>4 DEF Held
<1> QED
  BY <1>2, <1>3, <1>5, <1>6 DEF Held

\* Every other step leaves the requests, and takes out of the queues only what a loop
\* that has ended drops.
LEMMA OtherHeld ==
    ASSUME ThreadTypes, QueueInv, [Next]_vars, ~TakeMessage,
           ~(\E k \in Keys, kind \in Kinds : Arrive(k, kind))
    PROVE  /\ QueueInv' /\ requests' = requests
           /\ \A r \in Request : Held(r)' => Held(r)
           /\ Open' => Open /\ \A r \in Request : Expected(r) /\ Held(r) => Held(r)'
<1>1. CASE Loop /\ running
  <2>1. inbound # << >> /\ hand' = Head(inbound) /\ inbound' = Tail(inbound) /\ hand = 0
        /\ UNCHANGED <<running, closed, requests, inbox>>
    BY <1>1 DEF Loop, ThreadTypes
  <2>2. PICK h : h = Head(inbound)
    OBVIOUS
  <2>3. inbound \in Seq(1..Len(requests)) /\ Distinct(inbound)
    BY DEF ThreadTypes, QueueInv
  <2>4. Distinct(inbound') /\ h \in Elements(inbound) /\ Elements(inbound') = Elements(inbound) \ {h}
    BY <2>1, <2>2, <2>3, TailDistinct
  <2>5. QueueInv'
    BY <2>1, <2>2, <2>4 DEF QueueInv
  <2>6. \A r \in Request : r # 0
    BY BoundsAssumption DEF Request
  <2>7. \A r \in Request : Held(r)' <=> Held(r)
    BY <2>1, <2>2, <2>4, <2>6 DEF Held
  <2> QED
    BY <1>1, <2>1, <2>5, <2>7 DEF Open
<1>2. CASE HandOver
  <2>1. hand \in 1..Len(requests) /\ hand' = 0 /\ inbox \in Seq(1..Len(requests)) /\ main = "hand"
    BY <1>2 DEF HandOver, ThreadTypes
  <2>2. UNCHANGED <<closed, requests, inbound>>
    BY <1>2 DEF HandOver
  <2>3. \A r \in Request : r # 0
    BY BoundsAssumption DEF Request
  <2>4. 0 \notin Elements(inbound) /\ 0 \notin Elements(inbox)
    <3>1. inbound \in Seq(1..Len(requests))
      BY DEF ThreadTypes
    <3>2. Elements(inbound) \subseteq 1..Len(requests) /\ Elements(inbox) \subseteq 1..Len(requests)
      BY <2>1, <3>1, ElementsInRange
    <3> QED
      BY <3>2
  <2>5. CASE requests[hand].kind # "exit" /\ running
    <3>1. inbox' = Append(inbox, hand) /\ running' = running /\ main' = "loop"
      BY <1>2, <2>5 DEF HandOver, Enqueued
    <3> DEFINE R == 1..Len(requests)
    <3>2. inbox \in Seq(R) /\ hand \in R
      BY <2>1
    <3> HIDE DEF R
    <3>3. Elements(inbox') = Elements(inbox) \cup {hand} /\ Distinct(inbox')
      BY <3>1, <3>2, AppendDistinct DEF QueueInv
    <3>4. QueueInv'
      <4>1. PICK h : h = hand
        OBVIOUS
      <4> QED
        BY <2>1, <2>2, <2>4, <3>3, <4>1, BoundsAssumption DEF QueueInv
    <3>5. \A r \in Request : Held(r)' <=> Held(r)
      BY <2>1, <2>2, <2>3, <3>3 DEF Held
    <3> QED
      BY <2>1, <2>2, <2>5, <3>1, <3>4, <3>5 DEF Open
  <2>6. CASE ~(requests[hand].kind # "exit" /\ running)
    <3>1. inbox' = inbox /\ ~running' /\ main' = "closing"
      BY <1>2, <2>6 DEF HandOver, ThreadTypes
    <3>2. QueueInv'
      BY <2>1, <2>2, <2>4, <3>1 DEF QueueInv
    <3>3. \A r \in Request : Held(r)' => Held(r)
      BY <2>1, <2>2, <2>3, <3>1 DEF Held
    <3> QED
      BY <2>2, <3>1, <3>2, <3>3 DEF Open
  <2> QED
    BY <2>5, <2>6
<1>3. CASE ~(Loop /\ running) /\ ~HandOver
  <2>1. \/ RequestStop \/ AgentLoopStop \/ Start \/ StartFails \/ (Loop /\ ~running)
        \/ CloseBus \/ Join \/ NoEvent \/ NoMessage \/ CheckRunning
        \/ TakeEvent \/ Callback \/ Done \/ UNCHANGED vars
    BY <1>3 DEF Next, Main, Worker
  <2>2. CASE RequestStop \/ AgentLoopStop \/ Start \/ StartFails \/ (Loop /\ ~running)
             \/ CloseBus \/ Join \/ NoEvent \/ NoMessage \/ CheckRunning
    <3>1. UNCHANGED <<inbound, hand, inbox, requests>>
      BY <2>2 DEF RequestStop, AgentLoopStop, Start, StartFails, Loop, CloseBus, Join, NoEvent,
                  NoMessage, CheckRunning
    <3>2. Open' => Open
      BY <2>2 DEF RequestStop, AgentLoopStop, Start, StartFails, Loop, CloseBus, Join, NoEvent,
                  NoMessage, CheckRunning, Open
    <3> QED
      BY <3>1, <3>2 DEF QueueInv, Held
  <2>3. CASE TakeEvent \/ Callback \/ Done \/ UNCHANGED vars
    <3>1. UNCHANGED <<main, running, closed, inbound, hand, inbox, requests>>
      BY <2>3 DEF TakeEvent, Callback, LlmCallback, ToolCallback, Done, vars, threadVars
    <3> QED
      BY <3>1 DEF QueueInv, Held, Open
  <2> QED
    BY <2>1, <2>2, <2>3
<1> QED
  BY <1>1, <1>2, <1>3

\* A reply to a request that is not over.
LEMMA RepliedOver ==
    ASSUME HandlerTypes, OneFinalReply, NEW r \in Request, NEW kind \in Finals \cup {"progress"},
           replies' = Replied(r, kind), ~Over(r)
    PROVE  /\ OneFinalReply'
           /\ \A x \in Request : Over(x)' <=> Over(x) \/ (x = r /\ ~closed /\ kind \in Finals)
<1>1. CASE closed
  BY <1>1 DEF Replied, OneFinalReply, Over
<1>2. CASE ~closed
  <2> DEFINE K == Finals \cup {"progress"}
             q == replies[r]
             p == Append(q, kind)
  <2>1. replies \in [Request -> Seq(K)] /\ q \in Seq(K) /\ kind \in K
    BY DEF HandlerTypes
  <2> HIDE DEF K
  <2>2. /\ Len(p) = Len(q) + 1 /\ Len(q) \in Nat /\ p[Len(q) + 1] = kind
        /\ \A i \in 1..Len(q) : p[i] = q[i]
    BY <2>1
  <2>3. replies' = [replies EXCEPT ![r] = p]
    BY <1>2 DEF Replied
  <2> HIDE DEF p
  <2>4. replies'[r] = p /\ \A x \in Request : x # r => replies'[x] = replies[x]
    BY <2>1, <2>3
  <2>5. /\ \A i \in 1..Len(p) : i \in 1..Len(q) \/ i = Len(p)
        /\ 1..Len(q) \subseteq 1..Len(p) /\ Len(p) \in 1..Len(p)
    BY <2>2
  <2>6. \A i \in 1..Len(q) : q[i] \notin Finals
    BY DEF Over
  <2>7. \A i \in 1..Len(p) : p[i] \in Finals => i = Len(p)
    BY <2>2, <2>5, <2>6
  <2>8. OneFinalReply'
    <3>1. ASSUME NEW x \in Request, NEW i \in 1..Len(replies'[x]), replies'[x][i] \in Finals
          PROVE  i = Len(replies'[x])
      <4>1. CASE x = r
        BY <2>4, <2>7, <3>1, <4>1
      <4>2. CASE x # r
        <5>1. replies'[x] = replies[x]
          BY <2>4, <4>2
        <5> QED
          BY <3>1, <5>1 DEF OneFinalReply
      <4> QED
        BY <4>1, <4>2
    <3> QED
      BY <3>1 DEF OneFinalReply
  <2>9. ASSUME NEW x \in Request
        PROVE  Over(x)' <=> Over(x) \/ (x = r /\ ~closed /\ kind \in Finals)
    <3>1. CASE x = r
      <4>1. (\E i \in 1..Len(p) : p[i] \in Finals) <=> kind \in Finals
        BY <2>2, <2>5, <2>6
      <4> QED
        BY <1>2, <2>4, <3>1, <4>1 DEF Over
    <3>2. CASE x # r
      BY <2>4, <3>2 DEF Over
    <3> QED
      BY <3>1, <3>2
  <2> QED
    BY <2>8, <2>9
<1> QED
  BY <1>1, <1>2

\* Places that a step leaves alone, but for a message that arrives: no task is made and
\* nothing is sent.
LEMMA PlacesStay ==
    ASSUME TypeOK, SessionsInv, PlacesInv, [Next]_vars, ~TakeMessage, UNCHANGED <<tasks, replies>>
    PROVE  PlacesInv'
<1>1. ThreadTypes /\ HandlerTypes /\ tasks \in [Keys -> Seq(Task)]
  BY TypeParts DEF HandlerTypes
<1>2. \A k \in Keys : tasks[k] # << >> => tasks[k][1].req \in Request /\ tasks[k][1].req \in Nat
  <2>1. \A k \in Keys : tasks[k] # << >> => tasks[k][1] \in Task
    BY <1>1, FirstTask
  <2> QED
    BY <2>1, BoundsAssumption DEF Task, Request
<1>3. /\ \A r \in Request : (Over(r)' <=> Over(r)) /\ (InTask(r)' <=> InTask(r))
      /\ OneFinalReply'
  BY DEF Over, InTask, OneFinalReply, PlacesInv
<1>4. QueueInv /\ (\A k \in Keys : TaskPlaced(k)) /\ OverInv /\ KeptInv
  BY DEF PlacesInv
<1>5. ASSUME NEW k \in Keys, NEW kind \in Kinds, Arrive(k, kind) PROVE PlacesInv'
  <2>1. PICK n : n = Len(requests) + 1
    OBVIOUS
  <2>2. /\ QueueInv' /\ Len(requests') = n /\ Len(requests) \in Nat
        /\ \A r \in 1..Len(requests) : requests'[r] = requests[r]
        /\ \A r : Held(r)' => Held(r) \/ r = n
        /\ \A r : Held(r) => Held(r)'
        /\ ~Held(n)
        /\ ~closed => Held(n)'
    BY <1>1, <1>4, <1>5, <2>1, ArriveHeld
  <2>3. ASSUME NEW j \in Keys PROVE TaskPlaced(j)'
    <3>1. SUFFICES ASSUME tasks[j] # << >>
                   PROVE  /\ tasks[j][1].req <= Len(requests')
                          /\ requests'[tasks[j][1].req].key = j
                          /\ \A r : r = tasks[j][1].req => ~Held(r)'
      BY DEF TaskPlaced, Held
    <3>2. PICK r \in Request : r = tasks[j][1].req /\ r \in Nat
      BY <1>2, <3>1
    <3>3. r <= Len(requests) /\ requests[r].key = j /\ ~Held(r)
      BY <1>4, <3>1, <3>2 DEF TaskPlaced
    <3>4. r \in 1..Len(requests) /\ r # n /\ r <= n
      BY <2>1, <2>2, <3>2, <3>3, BoundsAssumption DEF Request
    <3> QED
      BY <2>2, <3>2, <3>3, <3>4
  <2>4. OverInv'
    <3>1. ASSUME NEW r \in Request, Over(r)' PROVE r <= Len(requests') /\ ~Held(r)' /\ ~InTask(r)'
      <4>1. r <= Len(requests) /\ ~Held(r) /\ ~InTask(r) /\ r \in Int
        BY <1>3, <1>4, <3>1, BoundsAssumption DEF OverInv, Request
      <4>2. r # n /\ r <= n
        BY <2>1, <2>2, <4>1
      <4> QED
        BY <1>3, <2>2, <4>1, <4>2
    <3> QED
      BY <3>1 DEF OverInv
  <2>5. KeptInv'
    <3>1. UNCHANGED <<main, running, closed>>
      BY <1>5 DEF Arrive
    <3>2. ASSUME Open, NEW r \in Request, Expected(r)' PROVE Over(r)' \/ Held(r)' \/ InTask(r)'
      <4>1. CASE r = n
        BY <2>2, <3>2, <4>1 DEF Open
      <4>2. CASE r # n
        <5>1. r <= n /\ r \in Int /\ r >= 1
          BY <2>2, <3>2, BoundsAssumption DEF Expected, Request
        <5>2. r \in 1..Len(requests)
          BY <2>1, <2>2, <4>2, <5>1
        <5>3. Expected(r)
          BY <2>2, <3>2, <5>2 DEF Expected
        <5> QED
          BY <1>3, <1>4, <2>2, <3>2, <5>3 DEF KeptInv
      <4> QED
        BY <4>1, <4>2
    <3> QED
      BY <3>1, <3>2 DEF KeptInv, Open
  <2> QED
    BY <1>3, <2>2, <2>3, <2>4, <2>5 DEF PlacesInv
<1>6. CASE ~(\E k \in Keys, kind \in Kinds : Arrive(k, kind))
  <2>1. /\ QueueInv' /\ requests' = requests
        /\ \A r \in Request : Held(r)' => Held(r)
        /\ Open' => Open /\ \A r \in Request : Expected(r) /\ Held(r) => Held(r)'
    BY <1>1, <1>4, <1>6, OtherHeld
  <2>2. ASSUME NEW j \in Keys PROVE TaskPlaced(j)'
    <3>1. SUFFICES ASSUME tasks[j] # << >>
                   PROVE  /\ tasks[j][1].req <= Len(requests')
                          /\ requests'[tasks[j][1].req].key = j
                          /\ \A r : r = tasks[j][1].req => ~Held(r)'
      BY DEF TaskPlaced, Held
    <3>2. PICK r \in Request : r = tasks[j][1].req
      BY <1>2, <3>1
    <3> QED
      BY <1>4, <2>1, <3>1, <3>2 DEF TaskPlaced
  <2>3. OverInv'
    BY <1>3, <1>4, <2>1 DEF OverInv
  <2>4. KeptInv'
    <3>1. ASSUME Open', NEW r \in Request, Expected(r)' PROVE Over(r)' \/ Held(r)' \/ InTask(r)'
      <4>1. Open /\ Expected(r)
        BY <2>1, <3>1 DEF Expected
      <4> QED
        BY <1>3, <1>4, <2>1, <3>1, <4>1 DEF KeptInv
    <3> QED
      BY <3>1 DEF KeptInv
  <2> QED
    BY <1>3, <2>1, <2>2, <2>3, <2>4 DEF PlacesInv
<1> QED
  BY <1>5, <1>6

\* The tasks of all sessions are of the same requests as before.
SameRequests ==
    \A j \in Keys : /\ tasks'[j] = << >> <=> tasks[j] = << >>
                    /\ tasks[j] # << >> => tasks'[j][1].req = tasks[j][1].req

\* The request of a task is not over, and no other session has a task of it.
LEMMA TaskOfOne ==
    ASSUME HandlerTypes, PlacesInv, NEW k \in Keys, tasks[k] # << >>, NEW q, q = tasks[k][1].req
    PROVE  /\ q \in Request /\ InTask(q) /\ ~Over(q) /\ ~Held(q)
           /\ \A j \in Keys \ {k} : tasks[j] # << >> => tasks[j][1].req # q
<1>1. tasks[k][1] \in Task
  BY FirstTask DEF HandlerTypes
<1>2. q \in Request /\ InTask(q)
  BY <1>1 DEF Task, InTask
<1>3. ~Held(q) /\ requests[q].key = k
  BY DEF PlacesInv, TaskPlaced
<1>4. ~Over(q)
  BY <1>2 DEF PlacesInv, OverInv
<1>5. \A j \in Keys \ {k} : tasks[j] # << >> => tasks[j][1].req # q
  BY <1>3 DEF PlacesInv, TaskPlaced
<1> QED
  BY <1>2, <1>3, <1>4, <1>5

\* Handling a result keeps every request in its place, or ends it.
LEMMA EventPlaces ==
    ASSUME TypeOK, SessionsInv, HandlerTypes', FiniteInv, \A j \in Keys : PhaseOK(j),
           PlacesInv, TakeEvent
    PROVE  PlacesInv'
<1>1. HandlerTypes /\ tasks \in [Keys -> Seq(Task)]
  BY TypeParts DEF HandlerTypes
<1>2. UNCHANGED <<main, running, closed, hand, requests, inbound, inbox>>
  BY EventFlow DEF threadVars
<1>3. PICK k \in Keys : /\ Len(tasks[k]) = 1 /\ tasks[k][1] \in Task /\ OthersStay(k)
                        /\ Ended(k) \/ CalledTools(k) \/ HeardOne(k) \/ AskedAgain(k)
  BY EventFlow
<1>4. /\ QueueInv' /\ (Open' <=> Open)
      /\ \A r : (Held(r)' <=> Held(r)) /\ (Expected(r)' <=> Expected(r))
  BY <1>2 DEF PlacesInv, QueueInv, Open, Held, Expected
<1>5. tasks[k] # << >>
  BY <1>1, <1>3, OneTask
<1>6. PICK q : q = tasks[k][1].req
  OBVIOUS
<1>7. /\ q \in Request /\ InTask(q) /\ ~Over(q) /\ ~Held(q)
      /\ \A j \in Keys \ {k} : tasks[j] # << >> => tasks[j][1].req # q
  BY <1>1, <1>5, <1>6, TaskOfOne
<1>8. QueueInv /\ (\A j \in Keys : TaskPlaced(j)) /\ OverInv /\ OneFinalReply /\ KeptInv
  BY DEF PlacesInv
<1>9. CASE Ended(k)
  <2>1. PICK kind \in Finals : replies' = Replied(q, kind)
    BY <1>6, <1>9 DEF Ended
  <2>2. /\ OneFinalReply'
        /\ \A x \in Request : Over(x)' <=> Over(x) \/ (x = q /\ ~closed)
    BY <1>1, <1>7, <1>8, <2>1, RepliedOver
  <2>3. tasks'[k] = << >> /\ \A j \in Keys \ {k} : tasks'[j] = tasks[j]
    BY <1>3, <1>9 DEF Ended, OthersStay
  <2>4. \A x : InTask(x)' <=> InTask(x) /\ x # q
    BY <1>6, <1>7, <2>3 DEF InTask
  <2>5. ASSUME NEW j \in Keys PROVE TaskPlaced(j)'
    <3>1. CASE j = k
      BY <2>3, <3>1 DEF TaskPlaced
    <3>2. CASE j # k
      <4>1. PICK x : x = tasks[j][1].req
        OBVIOUS
      <4>2. tasks'[j] = tasks[j]
        BY <2>3, <3>2
      <4>3. tasks[j] # << >> => x <= Len(requests) /\ requests[x].key = j /\ ~Held(x)'
        BY <1>4, <1>8, <4>1 DEF TaskPlaced
      <4> QED
        BY <1>2, <4>1, <4>2, <4>3 DEF TaskPlaced, Held
    <3> QED
      BY <3>1, <3>2
  <2>6. OverInv'
    <3>1. q <= Len(requests)
      BY <1>5, <1>6, <1>8 DEF TaskPlaced
    <3> QED
      BY <1>2, <1>4, <1>7, <1>8, <2>2, <2>4, <3>1 DEF OverInv
  <2>7. KeptInv'
    <3>1. ASSUME Open, NEW r \in Request, Expected(r) PROVE Over(r)' \/ Held(r)' \/ InTask(r)'
      <4>1. ~closed /\ (Over(r) \/ Held(r) \/ InTask(r))
        BY <1>8, <3>1 DEF KeptInv, Open
      <4> QED
        BY <1>4, <2>2, <2>4, <3>1, <4>1
    <3> QED
      BY <1>4, <3>1 DEF KeptInv
  <2> QED
    BY <1>4, <2>2, <2>5, <2>6, <2>7 DEF PlacesInv
<1>10. CASE CalledTools(k) \/ HeardOne(k) \/ AskedAgain(k)
  <2>1. Len(tasks'[k]) = 1 /\ tasks'[k][1].req = q /\ replies' \in {replies, Replied(q, "progress")}
    BY <1>6, <1>10 DEF CalledTools, HeardOne, AskedAgain, Continues
  <2>2. tasks'[k] # << >>
    <3>1. tasks'[k] \in Seq(Task)
      BY DEF HandlerTypes
    <3> QED
      BY <2>1, <3>1, OneTask
  <2>3. \A j \in Keys \ {k} : tasks'[j] = tasks[j]
    BY <1>3 DEF OthersStay
  <2>4. SameRequests
    BY <1>5, <1>6, <2>1, <2>2, <2>3 DEF SameRequests
  <2>5. OneFinalReply' /\ \A x \in Request : Over(x)' <=> Over(x)
    <3>1. CASE replies' = replies
      BY <1>8, <3>1 DEF OneFinalReply, Over
    <3>2. CASE replies' = Replied(q, "progress")
      <4>1. "progress" \in Finals \cup {"progress"} /\ "progress" \notin Finals
        BY DEF Finals
      <4> QED
        BY <1>1, <1>7, <1>8, <3>2, <4>1, RepliedOver
    <3> QED
      BY <2>1, <3>1, <3>2
  <2>6. \A x : InTask(x)' <=> InTask(x)
    BY <2>4 DEF InTask, SameRequests
  <2>7. ASSUME NEW j \in Keys PROVE TaskPlaced(j)'
    <3>1. PICK x : x = tasks[j][1].req
      OBVIOUS
    <3>2. tasks[j] # << >> => x <= Len(requests) /\ requests[x].key = j /\ ~Held(x)'
      BY <1>4, <1>8, <3>1 DEF TaskPlaced
    <3> QED
      BY <1>2, <2>4, <3>1, <3>2 DEF TaskPlaced, Held, SameRequests
  <2>8. OverInv' /\ KeptInv'
    BY <1>2, <1>4, <1>8, <2>5, <2>6 DEF OverInv, KeptInv
  <2> QED
    BY <1>4, <2>5, <2>7, <2>8 DEF PlacesInv
<1> QED
  BY <1>3, <1>9, <1>10

\* Handling a message puts its request in a task, or ends it.
LEMMA MessagePlaces ==
    ASSUME "skill" \notin Kinds, TypeOK, SessionsInv, HandlerTypes', FiniteInv,
           \A j \in Keys : PhaseOK(j), PlacesInv, TakeMessage
    PROVE  PlacesInv'
<1>1. ThreadTypes /\ HandlerTypes /\ tasks \in [Keys -> Seq(Task)]
  BY TypeParts DEF HandlerTypes
<1>2. /\ inbox # << >> /\ inbox' = Tail(inbox)
      /\ UNCHANGED <<main, running, closed, hand, requests, inbound>>
  BY MessageFlow
<1>3. PICK r \in 1..Len(requests), k \in Keys :
          /\ r = Head(inbox) /\ r \in Request /\ k = requests[r].key /\ OthersStay(k)
          /\ Begun(k, r) \/ Answered(k, r) \/ Ignored(k, r)
  BY MessageFlow
<1>4. QueueInv /\ (\A j \in Keys : TaskPlaced(j)) /\ OverInv /\ OneFinalReply /\ KeptInv
  BY DEF PlacesInv
<1>5. QueueInv' /\ Held(r) /\ \A x : Held(x)' <=> Held(x) /\ x # r
  BY <1>1, <1>2, <1>3, <1>4, MessageHeld
<1>6. ~Over(r) /\ ~InTask(r)
  BY <1>3, <1>4, <1>5 DEF OverInv, TaskPlaced, InTask
<1>7. (Open' <=> Open) /\ \A x : Expected(x)' <=> Expected(x)
  BY <1>2 DEF Open, Expected
<1>8. \A j \in Keys \ {k} : tasks'[j] = tasks[j]
  BY <1>3 DEF OthersStay
<1>9. CASE Begun(k, r)
  <2>1. tasks[k] = << >> /\ tasks'[k] # << >> /\ tasks'[k][1].req = r /\ replies' = replies
    <3>1. tasks'[k] \in Seq(Task)
      BY DEF HandlerTypes
    <3> QED
      BY <1>9, <3>1, OneTask DEF Begun
  <2>2. OneFinalReply' /\ \A x : Over(x)' <=> Over(x)
    BY <1>4, <2>1 DEF OneFinalReply, Over
  <2>3. \A x : InTask(x)' <=> InTask(x) \/ x = r
    BY <1>8, <2>1 DEF InTask
  <2>4. ASSUME NEW j \in Keys PROVE TaskPlaced(j)'
    <3>1. CASE j = k
      <4>1. r <= Len(requests)
        BY <1>3
      <4>2. ~Held(r)'
        BY <1>5
      <4> QED
        BY <1>2, <1>3, <2>1, <3>1, <4>1, <4>2 DEF TaskPlaced, Held
    <3>2. CASE j # k
      <4>1. PICK x : x = tasks[j][1].req
        OBVIOUS
      <4>2. tasks'[j] = tasks[j]
        BY <1>8, <3>2
      <4>3. tasks[j] # << >> => x <= Len(requests) /\ requests[x].key = j /\ ~Held(x)'
        BY <1>4, <1>5, <4>1 DEF TaskPlaced
      <4> QED
        BY <1>2, <4>1, <4>2, <4>3 DEF TaskPlaced, Held
    <3> QED
      BY <3>1, <3>2
  <2>5. OverInv'
    BY <1>2, <1>4, <1>5, <1>6, <2>2, <2>3 DEF OverInv
  <2>6. KeptInv'
    BY <1>4, <1>5, <1>7, <2>2, <2>3 DEF KeptInv
  <2> QED
    BY <1>5, <2>2, <2>4, <2>5, <2>6 DEF PlacesInv
<1>10. CASE Answered(k, r) \/ Ignored(k, r)
  <2>1. SameRequests
    BY <1>8, <1>10 DEF Answered, Ignored, Undisturbed, SameWait, SameRequests
  <2>2. \A x : InTask(x)' <=> InTask(x)
    BY <2>1 DEF InTask, SameRequests
  <2>3. ASSUME NEW j \in Keys PROVE TaskPlaced(j)'
    <3>1. PICK x : x = tasks[j][1].req
      OBVIOUS
    <3>2. tasks[j] # << >> => x <= Len(requests) /\ requests[x].key = j /\ ~Held(x)'
      BY <1>4, <1>5, <3>1 DEF TaskPlaced
    <3> QED
      BY <1>2, <2>1, <3>1, <3>2 DEF TaskPlaced, Held, SameRequests
  <2>4. /\ OneFinalReply'
        /\ \A x \in Request : Over(x) => Over(x)'
        /\ \A x \in Request : Over(x)' => Over(x) \/ x = r
        /\ ~closed /\ Expected(r) => Over(r)'
    <3>1. CASE Answered(k, r)
      <4>1. PICK kind \in Finals : replies' = Replied(r, kind)
        BY <3>1 DEF Answered, Finals
      <4>2. /\ OneFinalReply'
            /\ \A x \in Request : Over(x)' <=> Over(x) \/ (x = r /\ ~closed)
        BY <1>1, <1>3, <1>4, <1>6, <4>1, RepliedOver
      <4> QED
        BY <1>3, <4>2
    <3>2. CASE Ignored(k, r)
      <4>1. ~Expected(r)
        BY <3>2 DEF Ignored, Expected
      <4>2. OneFinalReply' /\ \A x \in Request : Over(x)' <=> Over(x)
        BY <1>4, <3>2 DEF Ignored, OneFinalReply, Over
      <4> QED
        BY <4>1, <4>2
    <3> QED
      BY <1>10, <3>1, <3>2
  <2>5. OverInv'
    <3>1. r <= Len(requests)
      BY <1>3
    <3> QED
      BY <1>2, <1>4, <1>5, <1>6, <2>2, <2>4, <3>1 DEF OverInv
  <2>6. KeptInv'
    <3>1. ASSUME Open, NEW x \in Request, Expected(x) PROVE Over(x)' \/ Held(x)' \/ InTask(x)'
      <4>1. ~closed /\ (Over(x) \/ Held(x) \/ InTask(x))
        BY <1>4, <3>1 DEF KeptInv, Open
      <4> QED
        BY <1>5, <2>2, <2>4, <3>1, <4>1
    <3> QED
      BY <1>7, <3>1 DEF KeptInv
  <2> QED
    BY <1>5, <2>3, <2>4, <2>5, <2>6 DEF PlacesInv
<1> QED
  BY <1>3, <1>9, <1>10

\* Every result finds the task that asked for it.
LEMMA PhasesFind ==
    ASSUME HandlerTypes, FiniteInv, \A k \in Keys : PhaseOK(k)
    PROVE  ResultsFindTheirTask
<1>1. ASSUME NEW k \in Keys
      PROVE  LET first == tasks[k][1]
                 waits(state, r) == tasks[k] # << >> /\ first.state = state /\ first.req = r
             IN  /\ \A c \in llm : c.key = k => waits("WAITING_LLM", c.req)
                 /\ \A i \in LlmEvents(k) : waits("WAITING_LLM", internal[i].req)
                 /\ \A t \in tools : t.key = k => waits("WAITING_TOOL", t.call[1])
                 /\ \A i \in ToolEvents(k) : waits("WAITING_TOOL", internal[i].call[1])
  <2>1. tasks[k] \in Seq(Task) /\ internal \in Seq(Event)
    BY DEF HandlerTypes
  <2>2. /\ \A i \in LlmEvents(k) : /\ internal[i] \in Elements(internal) /\ internal[i].key = k
                                   /\ internal[i].type = "llm"
        /\ \A i \in ToolEvents(k) : /\ internal[i] \in Elements(internal) /\ internal[i].key = k
                                    /\ internal[i].type = "tool"
    BY <2>1 DEF LlmEvents, ToolEvents, Elements
  <2>3. CASE Owed(k) = 0
    <3>1. /\ \A c \in llm : c.key # k
          /\ \A t \in tools : t.key # k
          /\ \A e \in Elements(internal) : e.key # k
      BY <2>3, OwedNothing DEF FiniteInv
    <3> QED
      BY <2>2, <3>1
  <2>4. CASE Len(tasks[k]) = 1 /\ Asking(k)
    <3>1. tasks[k] # << >>
      BY <2>1, <2>4, OneTask
    <3> QED
      BY <2>2, <2>4, <3>1 DEF Asking, LlmOnly
  <2>5. CASE Len(tasks[k]) = 1 /\ Running(k)
    <3>1. tasks[k] # << >>
      BY <2>1, <2>5, OneTask
    <3> QED
      BY <2>2, <2>5, <3>1 DEF Running, ToolsOnly
  <2> QED
    BY <2>3, <2>4, <2>5 DEF PhaseOK
<1> QED
  BY <1>1 DEF ResultsFindTheirTask

\* Where a request is, in terms of the queues and of the first tasks.
LEMMA PlacesOf ==
    ASSUME HandlerTypes, \A k \in Keys : PhaseOK(k), NEW r
    PROVE  \A p : p \in Places(r) <=> \/ p = "inbound" /\ r \in Elements(inbound)
                                      \/ p = "hand" /\ r = hand
                                      \/ p = "inbox" /\ r \in Elements(inbox)
                                      \/ p = "task" /\ InTask(r)
<1>1. (\E k \in Keys : \E i \in 1..Len(tasks[k]) : tasks[k][i].req = r) <=> InTask(r)
  <2>1. ASSUME NEW k \in Keys
        PROVE  (\E i \in 1..Len(tasks[k]) : tasks[k][i].req = r)
                 <=> tasks[k] # << >> /\ tasks[k][1].req = r
    <3>1. CASE tasks[k] = << >>
      BY <3>1
    <3>2. CASE Len(tasks[k]) = 1
      <4>1. tasks[k] # << >>
        BY <3>2, OneTask DEF HandlerTypes
      <4>2. \A i : i \in 1..Len(tasks[k]) <=> i = 1
        BY <3>2
      <4> QED
        BY <4>1, <4>2
    <3> QED
      BY <3>1, <3>2 DEF PhaseOK
  <2> QED
    BY <2>1 DEF InTask
<1>2. /\ (\E i \in 1..Len(inbound) : inbound[i] = r) <=> r \in Elements(inbound)
      /\ (\E i \in 1..Len(inbox) : inbox[i] = r) <=> r \in Elements(inbox)
  BY DEF Elements
<1> QED
  BY <1>1, <1>2 DEF Places

\* The invariant says that no request is forgotten or in two places.
LEMMA PlacesSafe ==
    ASSUME HandlerTypes, \A k \in Keys : PhaseOK(k), PlacesInv
    PROVE  NothingForgotten
<1> SUFFICES ASSUME running, ~closed, NEW r \in Request, Expected(r)
             PROVE  IF Over(r) THEN Places(r) = {} ELSE Cardinality(Places(r)) = 1
  BY DEF NothingForgotten
<1>1. \A p : p \in Places(r) <=> \/ p = "inbound" /\ r \in Elements(inbound)
                                 \/ p = "hand" /\ r = hand
                                 \/ p = "inbox" /\ r \in Elements(inbox)
                                 \/ p = "task" /\ InTask(r)
  BY PlacesOf
<1>2. CASE Over(r)
  <2>1. ~Held(r) /\ ~InTask(r)
    BY <1>2 DEF PlacesInv, OverInv
  <2>2. Places(r) = {}
    BY <1>1, <2>1 DEF Held
  <2> QED
    BY <1>2, <2>2
<1>3. CASE ~Over(r)
  <2>1. Held(r) \/ InTask(r)
    BY <1>3 DEF PlacesInv, KeptInv, Open
  <2>2. InTask(r) => ~Held(r)
    BY DEF PlacesInv, TaskPlaced, InTask
  <2>3. /\ r \in Elements(inbound) => r # hand /\ r \notin Elements(inbox)
        /\ r = hand => r \notin Elements(inbox)
    BY DEF PlacesInv, QueueInv
  <2>4. \E p : Places(r) = {p}
    <3>1. CASE r \in Elements(inbound)
      <4>1. Places(r) = {"inbound"}
        BY <1>1, <2>2, <2>3, <3>1 DEF Held
      <4> QED
        BY <4>1
    <3>2. CASE r = hand
      <4>1. Places(r) = {"hand"}
        BY <1>1, <2>2, <2>3, <3>2 DEF Held
      <4> QED
        BY <4>1
    <3>3. CASE r \in Elements(inbox)
      <4>1. Places(r) = {"inbox"}
        BY <1>1, <2>2, <2>3, <3>3 DEF Held
      <4> QED
        BY <4>1
    <3>4. CASE InTask(r)
      <4>1. Places(r) = {"task"}
        BY <1>1, <2>2, <3>4 DEF Held
      <4> QED
        BY <4>1
    <3> QED
      BY <2>1, <3>1, <3>2, <3>3, <3>4 DEF Held
  <2>5. Cardinality(Places(r)) = 1
    BY <2>4, FS_Singleton
  <2> QED
    BY <1>3, <2>5
<1> QED
  BY <1>2, <1>3

\* Nothing has arrived.
LEMMA InitPlaces == Init => PlacesInv
<1> SUFFICES ASSUME Init PROVE PlacesInv
  OBVIOUS
<1>1. /\ inbound = << >> /\ inbox = << >> /\ hand = 0 /\ requests = << >>
      /\ tasks = [k \in Keys |-> << >>] /\ replies = [r \in Request |-> << >>]
  BY DEF Init
<1>2. QueueInv
  BY <1>1, EmptyHoldsNothing DEF QueueInv
<1>3. \A k \in Keys : TaskPlaced(k)
  BY <1>1 DEF TaskPlaced
<1>4. OneFinalReply /\ \A r \in Request : ~Over(r)
  <2>1. \A r \in Request : replies[r] = << >> /\ Len(replies[r]) = 0
    BY <1>1
  <2>2. \A r \in Request : 1..Len(replies[r]) = {}
    BY <2>1
  <2> QED
    BY <2>2 DEF OneFinalReply, Over
<1>5. \A r \in Request : ~Expected(r)
  BY <1>1, BoundsAssumption DEF Expected, Request
<1> QED
  BY <1>2, <1>3, <1>4, <1>5 DEF PlacesInv, OverInv, KeptInv

\* Every step keeps every request in its place.
LEMMA PlacesKept ==
    ASSUME "skill" \notin Kinds, TypeOK, SessionsInv, HandlerTypes', FiniteInv,
           \A j \in Keys : PhaseOK(j), PlacesInv, [Next]_vars
    PROVE  PlacesInv'
<1>1. CASE TakeMessage
  BY <1>1, MessagePlaces
<1>2. CASE TakeEvent
  BY <1>2, EventPlaces
<1>3. CASE ~TakeMessage /\ ~TakeEvent
  <2>1. UNCHANGED <<tasks, replies>>
    BY <1>3, OtherFlow
  <2> QED
    BY <1>3, <2>1, PlacesStay
<1> QED
  BY <1>1, <1>2, <1>3

\* Without skill commands, whatever the interleaving of threads, callbacks, handlers and
\* stops: each result reaches the task that asked for it although it carries only the
\* session key, a request gets at most one final reply and nothing after it, and while
\* nobody stops the loop each request is in exactly one place until it is over.
THEOREM RequestsAreSafe == ASSUME "skill" \notin Kinds PROVE Spec => []RequestsSafe
<1> DEFINE I == FlowInv /\ PlacesInv
<1>1. Init => I
  BY InitTypes, InitPhases, InitPlaces DEF FlowInv
<1>2. I /\ [Next]_vars => I'
  <2> SUFFICES ASSUME I, [Next]_vars PROVE I'
    OBVIOUS
  <2>1. FlowInv' /\ HandlerTypes'
    BY FlowKept
  <2>2. PlacesInv'
    BY <2>1, PlacesKept DEF FlowInv
  <2> QED
    BY <2>1, <2>2
<1>3. I => RequestsSafe
  <2> SUFFICES ASSUME I PROVE RequestsSafe
    OBVIOUS
  <2>1. HandlerTypes
    BY TypeParts DEF FlowInv
  <2> QED
    BY <2>1, PhasesFind, PlacesSafe DEF RequestsSafe, FlowInv, PlacesInv
<1> QED
  BY <1>1, <1>2, <1>3, PTL DEF Spec
=============================================================================
