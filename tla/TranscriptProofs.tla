-------------------------- MODULE TranscriptProofs --------------------------
(***************************************************************************)
(* What the agent loop does to the transcripts, for any number of          *)
(* sessions, requests, turns and tool calls and every window of the        *)
(* context.  Without skill commands, what the model is asked can be sent.  *)
(* If besides no cron job is taken up just when its session is due for     *)
(* consolidation, a job that is over has left nothing behind, no message of *)
(* a conversation is ever removed or moved, and the session file is what a *)
(* restart needs.                                                          *)
(***************************************************************************)
EXTENDS AgentLoopProofs

-----------------------------------------------------------------------------
(* What handlers do to a session and its file.                             *)

\* A cron job does not fall together with a consolidation: none is due when the message of
\* a job is taken up.
JobsFit ==
    worker = "inbox" /\ inbox # << >> =>
        LET r == Head(inbox)
            k == requests[r].key
        IN  requests[r].kind = "job" /\ ~Busy(k)
            => ~ConsolidationDue(AddMessage(sessions[k], User(r)), MemoryWindow)

\* Sessions and files are functions of the keys.
StoresInv ==
    /\ DOMAIN file = Keys /\ file = [k \in Keys |-> file[k]]
    /\ DOMAIN sessions = Keys /\ sessions = [k \in Keys |-> sessions[k]]

\* Session k becomes s, and its file f.
Stored(k, s, f) ==
    /\ sessions'[k] = s /\ file'[k] = f
    /\ \A j \in Keys \ {k} : sessions'[j] = sessions[j] /\ file'[j] = file[j]

\* Either may be stored alone.
LEMMA StoredIs ==
    ASSUME StoresInv, NEW k \in Keys, NEW s, NEW f,
           sessions' = [sessions EXCEPT ![k] = s] \/ (sessions' = sessions /\ s = sessions[k]),
           file' = [file EXCEPT ![k] = f] \/ (file' = file /\ f = file[k])
    PROVE  Stored(k, s, f) /\ StoresInv'
<1>1. file' = [j \in Keys |-> IF j = k THEN f ELSE file[j]]
  BY DEF StoresInv
<1>2. sessions' = [j \in Keys |-> IF j = k THEN s ELSE sessions[j]]
  BY DEF StoresInv
<1> QED
  BY <1>1, <1>2 DEF Stored, StoresInv

\* A request that is taken up adds its message, and perhaps consolidates.
BeginsTalk(k, r) ==
    LET s == AddMessage(sessions[k], User(r))
    IN  /\ ~Busy(k) /\ requests[r].kind \in {"chat", "job"}
        /\ tasks' = TaskStarted(k, r, Len(sessions[k].msgs))
        /\ TriggerLlm(k, r)
        /\ \/ Stored(k, Normalised(s), file[k])
           \/ /\ ConsolidationDue(s, MemoryWindow)
              /\ Stored(k, SessionAfterSave(Consolidated(s), file[k]),
                        FileAfterSave(Consolidated(s), file[k]))

\* Every other message leaves the transcripts alone.
LEMMA MessageTalk ==
    ASSUME "skill" \notin Kinds, TypeOK, SessionsInv, StoresInv, TakeMessage
    PROVE  LET r == Head(inbox)
               k == requests[r].key
           IN  /\ StoresInv' /\ UNCHANGED <<internal, tools>>
               /\ \/ BeginsTalk(k, r)
                  \/ /\ UNCHANGED <<sessions, file, llm, asks>>
                     /\ tasks' \in {tasks, TasksCancelled(k)}
<1> DEFINE r == Head(inbox)
           k == requests[r].key
           s == AddMessage(sessions[k], User(r))
<1>1. /\ r \in Request /\ r \in 1..Len(requests) /\ k \in Keys /\ UNCHANGED <<internal, tools>>
  BY MessageSteps
<1>2. requests[r].kind # "skill"
  <2>1. requests[r] \in [key : Keys, kind : Kinds]
    BY <1>1, ElementOfSeq DEF TypeOK
  <2> QED
    BY <2>1
<1>3. ProcessInbound(r)
  BY DEF TakeMessage
<1> HIDE DEF r
<1>4. CASE requests[r].kind \in {"chat", "job"} /\ ~Busy(k) /\ StartRequest(k, r)
  <2>1. /\ tasks' = TaskStarted(k, r, Len(sessions[k].msgs)) /\ TriggerLlm(k, r)
        /\ \/ sessions' = [sessions EXCEPT ![k] = Normalised(s)] /\ file' = file
           \/ /\ ConsolidationDue(s, MemoryWindow)
              /\ sessions' = [sessions EXCEPT ![k] = SessionAfterSave(Consolidated(s), file[k])]
              /\ file' = [file EXCEPT ![k] = FileAfterSave(Consolidated(s), file[k])]
    BY <1>4 DEF StartRequest
  <2> HIDE DEF k, s
  <2>2. \/ StoresInv' /\ Stored(k, Normalised(s), file[k])
        \/ /\ ConsolidationDue(s, MemoryWindow) /\ StoresInv'
           /\ Stored(k, SessionAfterSave(Consolidated(s), file[k]),
                     FileAfterSave(Consolidated(s), file[k]))
    <3>1. k \in Keys
      BY <1>1 DEF k
    <3> QED
      BY <2>1, <3>1, StoredIs
  <2>3. BeginsTalk(k, r) /\ StoresInv'
    BY <1>4, <2>1, <2>2 DEF BeginsTalk, s
  <2> QED
    BY <1>1, <2>3 DEF k, r
<1>5. CASE UNCHANGED <<sessions, file, llm, asks>> /\ tasks' \in {tasks, TasksCancelled(k)}
  <2>1. StoresInv'
    BY <1>5 DEF StoresInv
  <2> QED
    BY <1>1, <1>5, <2>1 DEF r
<1>6. \/ requests[r].kind \in {"chat", "job"} /\ ~Busy(k) /\ StartRequest(k, r)
      \/ UNCHANGED <<sessions, file, llm, asks>> /\ tasks' \in {tasks, TasksCancelled(k)}
  BY <1>2, <1>3 DEF ProcessInbound, ProcessChat, ProcessSkill, ProcessStop, ProcessNew,
                    ProcessCommand, ProcessEmpty
<1> QED
  BY <1>4, <1>5, <1>6

\* The session after message m of task t, and its file.
Spoken(k, t, m) == Kept(t, AddMessage(sessions[k], m), file[k])
SpokenFile(k, t, m) == KeptFile(t, AddMessage(sessions[k], m), file[k])

\* What a result e does to session k with first task t.
Speaks(k, t, e) ==
    /\ e.type = "llm" /\ Ends(k, t)
    /\ \/ Stored(k, Dropped(t, sessions[k]), file[k])
       \/ LET m == Assistant(t.req, {})
          IN  Stored(k, Dropped(t, Spoken(k, t, m)), SpokenFile(k, t, m))
CallsTalk(k, t, e) ==
    LET m == Assistant(t.req, {<<e.req, e.ask, i>> : i \in 1..e.res.n})
    IN  /\ e.type = "llm" /\ e.res.n \in 1..MaxCalls /\ Calls(k, t, e)
        /\ Stored(k, Spoken(k, t, m), SpokenFile(k, t, m))
Hears(k, t, e) ==
    LET m == ToolAnswer(t.req, e.call)
    IN  /\ e.type = "tool"
        /\ \/ (t.pending > 1 /\ Waits(k)) \/ (t.pending <= 1 /\ AsksAgain(k, t))
        /\ Stored(k, Spoken(k, t, m), SpokenFile(k, t, m))
GivesUp(k, t, e) ==
    LET m == ToolAnswer(t.req, e.call)
    IN  /\ e.type = "tool" /\ t.pending <= 1 /\ Ends(k, t)
        /\ Stored(k, Dropped(t, Spoken(k, t, m)), SpokenFile(k, t, m))

\* The handler of a result does one of these to the transcript.
LEMMA EventTalk ==
    ASSUME TypeOK, StoresInv, TakeEvent
    PROVE  LET e == Head(internal)
               k == e.key
               t == tasks[k][1]
           IN  /\ StoresInv'
               /\ tasks[k] # << >> =>
                     Speaks(k, t, e) \/ CallsTalk(k, t, e) \/ Hears(k, t, e) \/ GivesUp(k, t, e)
<1> DEFINE e == Head(internal)
           k == e.key
           t == tasks[k][1]
           snap == Snapshot(k)
           effect == Speaks(k, t, e) \/ CallsTalk(k, t, e) \/ Hears(k, t, e) \/ GivesUp(k, t, e)
<1>1. internal # << >> /\ internal \in Seq(Event)
  BY DEF TakeEvent, TypeOK, Event
<1>2. e \in Event
  BY <1>1, HeadTailProperties
<1>3. k \in Keys
  BY <1>2 DEF Event
<1>4. \/ e.type = "llm" /\ HandleLlmResult(e)
      \/ e.type = "tool" /\ HandleToolResult(e)
  BY DEF TakeEvent
<1> HIDE DEF e
<1>5. CASE tasks[k] = << >>
  <2>1. UNCHANGED <<sessions, file>>
    BY <1>4, <1>5 DEF HandleLlmResult, HandleToolResult
  <2> QED
    BY <1>5, <2>1 DEF StoresInv, e
<1>6. ASSUME tasks[k] # << >> PROVE StoresInv' /\ effect
  <2>1. tasks \in [Keys -> Seq(Task)] /\ tasks[k] \in Seq(Task)
    BY <1>3 DEF TypeOK
  <2>2. t \in Task
    BY <1>6, <2>1, FirstTask
  <2>3. /\ ~snap.cancelled /\ snap.req = t.req /\ snap.pending = t.pending
        /\ snap.norecord = t.norecord /\ snap.before = t.before /\ t.pending \in Int
    BY <2>2 DEF Snapshot, Task
  <2>4. \A s, f : Kept(snap, s, f) = Kept(t, s, f) /\ KeptFile(snap, s, f) = KeptFile(t, s, f)
                  /\ Dropped(snap, s) = Dropped(t, s)
    BY <2>3 DEF Kept, KeptFile, Dropped
  <2> HIDE DEF snap
  <2>5. CASE e.type = "llm" /\ HandleLlmResult(e)
    <3>1. \/ e.res.kind \in {"error", "answer", "blank"} /\ EndRequest(k, snap, e.res.kind)
          \/ e.res.kind \in {"calls", "talk"} /\ CallTools(k, snap, e)
      BY <1>6, <2>3, <2>5 DEF HandleLlmResult, snap
    <3>2. CASE e.res.kind \in {"error", "answer", "blank"} /\ EndRequest(k, snap, e.res.kind)
      <4> DEFINE m == Assistant(t.req, {})
                 s == AddMessage(sessions[k], m)
      <4>1. Ends(k, t)
        BY <2>3, <3>2 DEF EndRequest, Ends, Finals
      <4>2. \/ /\ sessions' = [sessions EXCEPT ![k] = Dropped(t, sessions[k])]
               /\ file' = [file EXCEPT ![k] = file[k]]
            \/ /\ sessions' = [sessions EXCEPT ![k] = Dropped(t, Kept(t, s, file[k]))]
               /\ file' = [file EXCEPT ![k] = KeptFile(t, s, file[k])]
        <5>1. \/ /\ sessions' = [sessions EXCEPT ![k] = Dropped(snap, sessions[k])]
                 /\ file' = [file EXCEPT ![k] = file[k]]
              \/ /\ sessions' = [sessions EXCEPT ![k] = Dropped(snap, Kept(snap, s, file[k]))]
                 /\ file' = [file EXCEPT ![k] = KeptFile(snap, s, file[k])]
          BY <2>3, <3>2 DEF EndRequest
        <5> HIDE DEF s
        <5> QED
          BY <2>4, <5>1
      <4> HIDE DEF m
      <4>3. /\ StoresInv'
            /\ \/ Stored(k, Dropped(t, sessions[k]), file[k])
               \/ Stored(k, Dropped(t, Kept(t, s, file[k])), KeptFile(t, s, file[k]))
        <5> HIDE DEF s, k
        <5>1. k \in Keys
          BY <1>3
        <5> QED
          BY <4>2, <5>1, StoredIs
      <4>4. Speaks(k, t, e)
        BY <2>5, <4>1, <4>3 DEF Speaks, Spoken, SpokenFile, m
      <4> QED
        BY <4>3, <4>4
    <3>3. CASE e.res.kind \in {"calls", "talk"} /\ CallTools(k, snap, e)
      <4> DEFINE m == Assistant(t.req, {<<e.req, e.ask, i>> : i \in 1..e.res.n})
                 s == AddMessage(sessions[k], m)
      <4>1. e.res \in LlmResult
        BY <1>2, <2>5 DEF Event
      <4>2. e.res.n \in 1..MaxCalls
        BY <3>3, <4>1 DEF LlmResult
      <4>3. Calls(k, t, e)
        <5>1. tasks' = [tasks EXCEPT ![k] = Called(@, e.res.n)]
          BY <1>3, <1>6, <2>1, <2>2, <3>3 DEF CallTools, Called
        <5> QED
          BY <2>3, <3>3, <5>1 DEF CallTools, Calls
      <4>4. /\ sessions' = [sessions EXCEPT ![k] = Kept(t, s, file[k])]
            /\ file' = [file EXCEPT ![k] = KeptFile(t, s, file[k])]
        BY <2>3, <2>4, <3>3 DEF CallTools
      <4> HIDE DEF m
      <4>5. StoresInv' /\ Stored(k, Kept(t, s, file[k]), KeptFile(t, s, file[k]))
        <5> HIDE DEF s, k
        <5>1. k \in Keys
          BY <1>3
        <5> QED
          BY <4>4, <5>1, StoredIs
      <4>6. CallsTalk(k, t, e)
        BY <2>5, <4>2, <4>3, <4>5 DEF CallsTalk, Spoken, SpokenFile, m
      <4> QED
        BY <4>5, <4>6
    <3> QED
      BY <3>1, <3>2, <3>3
  <2>6. CASE e.type = "tool" /\ HandleToolResult(e)
    <3> DEFINE m == ToolAnswer(t.req, e.call)
               s == AddMessage(sessions[k], m)
    <3>1. RecordToolResult(k, snap, e) /\ UNCHANGED tools
      BY <1>6, <2>3, <2>6 DEF HandleToolResult, snap
    <3>2. Decremented(k) = [tasks EXCEPT ![k] = CountedDown(@)]
      BY DEF Decremented, CountedDown
    <3>3. file' = [file EXCEPT ![k] = KeptFile(t, s, file[k])]
      <4>1. file' = [file EXCEPT ![k] = KeptFile(snap, s, file[k])]
        BY <2>3, <3>1 DEF RecordToolResult
      <4> HIDE DEF s
      <4> QED
        BY <2>4, <4>1
    <3>4. CASE Remaining(snap) > 0
      <4>1. t.pending > 1 /\ Waits(k)
        BY <2>3, <3>1, <3>2, <3>4 DEF RecordToolResult, Waits, Remaining
      <4>2. sessions' = [sessions EXCEPT ![k] = Kept(t, s, file[k])]
        BY <2>3, <2>4, <3>1, <3>4 DEF RecordToolResult
      <4> HIDE DEF m
      <4>3. StoresInv' /\ Stored(k, Kept(t, s, file[k]), KeptFile(t, s, file[k]))
        <5> HIDE DEF s, k
        <5>1. k \in Keys
          BY <1>3
        <5> QED
          BY <3>3, <4>2, <5>1, StoredIs
      <4>4. Hears(k, t, e)
        BY <2>6, <4>1, <4>3 DEF Hears, Spoken, SpokenFile, m
      <4> QED
        BY <4>3, <4>4
    <3>5. CASE ~(Remaining(snap) > 0)
      <4>1. t.pending <= 1
        BY <2>3, <3>5 DEF Remaining
      <4>2. CASE TurnsUsedUp(snap)
        <5>1. Ends(k, t)
          BY <2>3, <3>1, <3>5, <4>2 DEF RecordToolResult, Ends, Finals
        <5>2. sessions' = [sessions EXCEPT ![k] = Dropped(t, Kept(t, s, file[k]))]
          BY <2>3, <2>4, <3>1, <3>5, <4>2 DEF RecordToolResult
        <5> HIDE DEF m
        <5>3. StoresInv' /\ Stored(k, Dropped(t, Kept(t, s, file[k])), KeptFile(t, s, file[k]))
          <6> HIDE DEF s, k
          <6>1. k \in Keys
            BY <1>3
          <6> QED
            BY <3>3, <5>2, <6>1, StoredIs
        <5>4. GivesUp(k, t, e)
          BY <2>6, <4>1, <5>1, <5>3 DEF GivesUp, Spoken, SpokenFile, m
        <5> QED
          BY <5>3, <5>4
      <4>3. CASE ~TurnsUsedUp(snap)
        <5>1. /\ tasks' = [Decremented(k) EXCEPT ![k] = TurnBegun(@)] /\ TriggerLlm(k, t.req)
              /\ UNCHANGED replies
          BY <2>3, <3>1, <3>5, <4>3 DEF RecordToolResult
        <5>2. tasks' = [tasks EXCEPT ![k] = TurnBegun(CountedDown(@))]
          <6> DEFINE X == CountedDown(tasks[k])
          <6>1. Decremented(k) = [tasks EXCEPT ![k] = X]
            BY <3>2
          <6> HIDE DEF X
          <6>2. tasks' = [tasks EXCEPT ![k] = TurnBegun(X)]
            BY <1>3, <2>1, <5>1, <6>1
          <6> QED
            BY <6>2 DEF X
        <5>3. AsksAgain(k, t)
          BY <3>1, <5>1, <5>2 DEF AsksAgain
        <5>4. sessions' = [sessions EXCEPT ![k] = Kept(t, s, file[k])]
          BY <2>3, <2>4, <3>1, <3>5, <4>3 DEF RecordToolResult
        <5> HIDE DEF m
        <5>5. StoresInv' /\ Stored(k, Kept(t, s, file[k]), KeptFile(t, s, file[k]))
          <6> HIDE DEF s, k
          <6>1. k \in Keys
            BY <1>3
          <6> QED
            BY <3>3, <5>4, <6>1, StoredIs
        <5>6. Hears(k, t, e)
          BY <2>6, <4>1, <5>3, <5>5 DEF Hears, Spoken, SpokenFile, m
        <5> QED
          BY <5>5, <5>6
      <4> QED
        BY <4>2, <4>3
    <3> QED
      BY <3>4, <3>5
  <2> QED
    BY <1>4, <2>5, <2>6
<1> HIDE DEF effect
<1>7. StoresInv' /\ (tasks[k] # << >> => effect)
  BY <1>5, <1>6
<1> QED
  BY <1>7 DEF e, effect

-----------------------------------------------------------------------------
(* Transcripts and the tasks that write them.                              *)

\* Between two answers of the model all calls are answered; while tools run, as many calls
\* wait as the task counts; and so it was when the task began.
TalkValue(msgs, U, L) ==
    /\ Transcript(msgs, U, {})
    /\ L = << >> \/ L[1].state = "WAITING_LLM" => U = {}
    /\ L # << >> /\ L[1].state = "WAITING_TOOL" => Cardinality(U) = L[1].pending
    /\ L # << >> => /\ L[1].before <= Len(msgs)
                    /\ Transcript(SubSeq(msgs, 1, L[1].before), {}, {})

\* What is left of a transcript when task t is removed.
Cut(t, msgs) == IF t.norecord THEN SubSeq(msgs, 1, t.before) ELSE msgs

\* What was there when the task began does not change.
LEMMA BeginningStays ==
    ASSUME NEW msgs \in Seq(Message), NEW m \in Message, NEW b \in Nat, b <= Len(msgs),
           Transcript(SubSeq(msgs, 1, b), {}, {})
    PROVE  b <= Len(Append(msgs, m)) /\ Transcript(SubSeq(Append(msgs, m), 1, b), {}, {})
<1>1. Len(Append(msgs, m)) = Len(msgs) + 1 /\ Len(msgs) \in Nat
  OBVIOUS
<1>2. SubSeq(Append(msgs, m), 1, b) = SubSeq(msgs, 1, b)
  BY PrefixStays
<1>3. b <= Len(Append(msgs, m))
  BY <1>1
<1>4. Transcript(SubSeq(Append(msgs, m), 1, b), {}, {})
  BY <1>2, Zenon
<1> QED
  BY <1>3, <1>4

\* A request begins.
LEMMA TalkBegins ==
    ASSUME NEW msgs \in Seq(Message), NEW U, TalkValue(msgs, U, << >>),
           NEW m \in Message, m.role = "user", m.calls = {},
           NEW L, L # << >>, L[1].state = "WAITING_LLM", L[1].before = Len(msgs)
    PROVE  TalkValue(Append(msgs, m), {}, L) /\ U = {}
<1>1. U = {} /\ Transcript(msgs, {}, {})
  BY DEF TalkValue
<1>2. Transcript(Append(msgs, m), {}, {})
  BY <1>1, TextAdded
<1>3. Len(msgs) \in Nat /\ Len(Append(msgs, m)) = Len(msgs) + 1
  OBVIOUS
<1>4. SubSeq(msgs, 1, Len(msgs)) = msgs
  BY SubSeqFull
<1>5. /\ L[1].before <= Len(Append(msgs, m))
      /\ Transcript(SubSeq(Append(msgs, m), 1, L[1].before), {}, {})
  <2>1. L[1].before \in Nat /\ L[1].before <= Len(msgs)
    BY <1>3
  <2>2. Transcript(SubSeq(msgs, 1, L[1].before), {}, {})
    BY <1>1, <1>4, Zenon
  <2> QED
    BY <2>1, <2>2, BeginningStays
<1> QED
  BY <1>1, <1>2, <1>5 DEF TalkValue

\* A task is removed when nothing is waited for.
LEMMA TalkEnds ==
    ASSUME NEW msgs \in Seq(Message), NEW t \in Task, Transcript(msgs, {}, {}),
           Transcript(SubSeq(msgs, 1, t.before), {}, {})
    PROVE  TalkValue(Cut(t, msgs), {}, << >>)
  BY DEF TalkValue, Cut

\* The model answers with a text.
LEMMA TalkSpeaks ==
    ASSUME NEW msgs \in Seq(Message), NEW L \in Seq(Task), L # << >>, NEW U,
           TalkValue(msgs, U, L), L[1].state = "WAITING_LLM",
           NEW m \in Message, m.role = "assistant", m.calls = {}
    PROVE  /\ TalkValue(Cut(L[1], msgs), {}, << >>)
           /\ TalkValue(Cut(L[1], Append(msgs, m)), {}, << >>)
           /\ U = {} /\ L[1].before <= Len(msgs)
<1>1. L[1] \in Task /\ L[1].before \in Nat
  BY FirstTask DEF Task
<1>2. /\ U = {} /\ Transcript(msgs, {}, {}) /\ L[1].before <= Len(msgs)
      /\ Transcript(SubSeq(msgs, 1, L[1].before), {}, {})
  BY DEF TalkValue
<1>3. Transcript(Append(msgs, m), {}, {})
  BY <1>2, TextAdded
<1>4. /\ Transcript(SubSeq(Append(msgs, m), 1, L[1].before), {}, {})
      /\ Append(msgs, m) \in Seq(Message)
  BY <1>1, <1>2, BeginningStays
<1> QED
  BY <1>1, <1>2, <1>3, <1>4, TalkEnds

\* The model calls tools.
LEMMA TalkCalls ==
    ASSUME NEW msgs \in Seq(Message), NEW L \in Seq(Task), L # << >>, NEW U,
           TalkValue(msgs, U, L), L[1].state = "WAITING_LLM",
           NEW m \in Message, m.role = "assistant", m.calls # {}, IsFiniteSet(m.calls),
           \A i \in 1..Len(msgs) : msgs[i].role = "assistant" => msgs[i].calls \cap m.calls = {},
           NEW M, M # << >>, M[1].state = "WAITING_TOOL", M[1].pending = Cardinality(m.calls),
           M[1].before = L[1].before
    PROVE  TalkValue(Append(msgs, m), m.calls, M) /\ U = {}
<1>1. L[1].before \in Nat
  BY FirstTask DEF Task
<1>2. /\ U = {} /\ Transcript(msgs, {}, {}) /\ L[1].before <= Len(msgs)
      /\ Transcript(SubSeq(msgs, 1, L[1].before), {}, {})
  BY DEF TalkValue
<1>3. Transcript(Append(msgs, m), m.calls, {})
  BY <1>2, CallsAdded
<1>4. /\ L[1].before <= Len(Append(msgs, m))
      /\ Transcript(SubSeq(Append(msgs, m), 1, L[1].before), {}, {})
  BY <1>1, <1>2, BeginningStays
<1> QED
  BY <1>2, <1>3, <1>4 DEF TalkValue

\* A tool answers: another one is waited for, or it was the last.
LEMMA TalkHears ==
    ASSUME NEW msgs \in Seq(Message), NEW L \in Seq(Task), L # << >>, NEW U,
           TalkValue(msgs, U, L), L[1].state = "WAITING_TOOL", NEW c \in U,
           NEW m \in Message, m.role = "tool", m.calls = {c}
    PROVE  /\ L[1].pending <= 1 => U = {c}
           /\ L[1].pending <= 1 => TalkValue(Cut(L[1], Append(msgs, m)), {}, << >>)
           /\ L[1].before <= Len(msgs)
           /\ \A M : /\ M # << >> /\ M[1].before = L[1].before
                     /\ \/ M[1].state = "WAITING_TOOL" /\ M[1].pending = L[1].pending - 1
                        \/ M[1].state = "WAITING_LLM" /\ L[1].pending <= 1
                     => TalkValue(Append(msgs, m), U \ {c}, M)
<1>1. L[1] \in Task /\ L[1].before \in Nat /\ L[1].pending \in Int
  BY FirstTask DEF Task
<1>2. /\ Cardinality(U) = L[1].pending /\ Transcript(msgs, U, {}) /\ L[1].before <= Len(msgs)
      /\ Transcript(SubSeq(msgs, 1, L[1].before), {}, {})
  BY DEF TalkValue
<1>3. Transcript(Append(msgs, m), U \ {c}, {}) /\ IsFiniteSet(U)
  BY <1>2, AnswerAdded
<1>4. /\ Cardinality(U \ {c}) = Cardinality(U) - 1 /\ IsFiniteSet(U \ {c})
      /\ Cardinality(U \ {c}) \in Nat
  BY <1>3, FS_RemoveElement, FS_CardinalityType
<1>5. L[1].pending <= 1 => U \ {c} = {}
  <2>1. L[1].pending <= 1 => Cardinality(U \ {c}) = 0
    BY <1>1, <1>2, <1>4
  <2> QED
    BY <1>4, <2>1, FS_EmptySet
<1>6. /\ L[1].before <= Len(Append(msgs, m)) /\ Append(msgs, m) \in Seq(Message)
      /\ Transcript(SubSeq(Append(msgs, m), 1, L[1].before), {}, {})
  BY <1>1, <1>2, BeginningStays
<1>7. L[1].pending <= 1 => TalkValue(Cut(L[1], Append(msgs, m)), {}, << >>)
  BY <1>1, <1>3, <1>5, <1>6, TalkEnds
<1>8. ASSUME NEW M, M # << >>, M[1].before = L[1].before,
             \/ M[1].state = "WAITING_TOOL" /\ M[1].pending = L[1].pending - 1
             \/ M[1].state = "WAITING_LLM" /\ L[1].pending <= 1
      PROVE  TalkValue(Append(msgs, m), U \ {c}, M)
  BY <1>2, <1>3, <1>4, <1>5, <1>6, <1>8 DEF TalkValue
<1> QED
  BY <1>2, <1>5, <1>7, <1>8

\* The last tool answers.
LEMMA TalkLast ==
    ASSUME NEW msgs \in Seq(Message), NEW L \in Seq(Task), L # << >>, NEW U,
           TalkValue(msgs, U, L), L[1].state = "WAITING_TOOL", L[1].pending <= 1, NEW c \in U,
           NEW m \in Message, m.role = "tool", m.calls = {c}
    PROVE  /\ U = {c} /\ TalkValue(Cut(L[1], Append(msgs, m)), {}, << >>)
           /\ L[1].before <= Len(msgs)
  BY TalkHears

-----------------------------------------------------------------------------
(* The invariant of the conversations.                                     *)

\* No answer of a tool to session k is on its way but to a call in U.
Expects(k, U) ==
    /\ \A t \in tools : t.key = k => t.call \in U
    /\ \A e \in Elements(internal) : e.key = k /\ e.type = "tool" => e.call \in U

\* The calls of session k that wait for their answers.
TalkOK(k) == \E U : TalkValue(sessions[k].msgs, U, tasks[k]) /\ Expects(k, U)

\* A call that bears the number of an ask was made in the answer to it, so that the answer
\* on its way makes new ones.
FreshOK(k) ==
    /\ \A m \in Elements(sessions[k].msgs) : m.role = "assistant" =>
          \A c \in m.calls :
             /\ c[2] <= asks[c[1]]
             /\ tasks[k] # << >> /\ tasks[k][1].state = "WAITING_LLM" /\ c[1] = tasks[k][1].req
                => c[2] < asks[c[1]]
    /\ \A c \in llm : c.key = k => c.ask = asks[c.req]
    /\ \A e \in Elements(internal) : e.key = k /\ e.type = "llm" => e.ask = asks[e.req]

\* No call is answered twice.
Apart(q) ==
    \A i, j \in 1..Len(q) :
        i # j /\ q[i].type = "tool" /\ q[j].type = "tool" /\ q[i].key = q[j].key
        => q[i].call # q[j].call
OnceInv ==
    /\ Apart(internal)
    /\ \A t \in tools : \A e \in Elements(internal) :
          e.type = "tool" /\ e.key = t.key => e.call # t.call

TalkInv == OnceInv /\ \A k \in Keys : TalkOK(k) /\ FreshOK(k)

\* A result is appended to the queue.
LEMMA ApartAppend ==
    ASSUME NEW q \in Seq(Event), NEW x \in Event, Apart(q),
           x.type = "tool" => \A e \in Elements(q) : e.type = "tool" /\ e.key = x.key => e.call # x.call
    PROVE  Apart(Append(q, x))
<1> DEFINE p == Append(q, x)
           n == Len(q)
<1>1. /\ n \in Nat /\ Len(p) = n + 1 /\ p[n + 1] = x
      /\ \A i \in 1..n : p[i] = q[i] /\ q[i] \in Elements(q)
      /\ \A i \in 1..n + 1 : i \in 1..n \/ i = n + 1
  BY DEF Elements
<1> HIDE DEF p
<1> SUFFICES ASSUME NEW i \in 1..n + 1, NEW j \in 1..n + 1, i # j,
                    p[i].type = "tool", p[j].type = "tool", p[i].key = p[j].key
             PROVE  p[i].call # p[j].call
  BY <1>1 DEF Apart, p
<1>2. CASE i \in 1..n /\ j \in 1..n
  BY <1>1, <1>2 DEF Apart
<1>3. CASE i = n + 1 /\ j \in 1..n
  BY <1>1, <1>3
<1>4. CASE i \in 1..n /\ j = n + 1
  BY <1>1, <1>4
<1> QED
  BY <1>1, <1>2, <1>3, <1>4

\* A result is taken from the queue.
LEMMA ApartTail ==
    ASSUME NEW q \in Seq(Event), q # << >>, Apart(q)
    PROVE  /\ Apart(Tail(q))
           /\ Head(q).type = "tool" =>
                 \A e \in Elements(Tail(q)) :
                     e.type = "tool" /\ e.key = Head(q).key => e.call # Head(q).call
<1> DEFINE p == Tail(q)
           n == Len(p)
<1>1. /\ n \in Nat /\ Len(q) = n + 1 /\ Head(q) = q[1]
      /\ \A i \in 1..n : p[i] = q[i + 1]
  <2>1. Len(q) \in Nat /\ Len(q) # 0
    BY EmptySeq
  <2> QED
    BY <2>1, HeadTailProperties
<1> HIDE DEF p
<1>2. \A i \in 1..n : i + 1 \in 1..Len(q) /\ i + 1 # 1
  BY <1>1
<1>3. 1 \in 1..Len(q)
  BY <1>1
<1>4. ASSUME NEW i \in 1..n, NEW j \in 1..n, i # j,
             p[i].type = "tool", p[j].type = "tool", p[i].key = p[j].key
      PROVE  p[i].call # p[j].call
  <2>1. i + 1 # j + 1
    BY <1>4
  <2> QED
    BY <1>1, <1>2, <1>4, <2>1 DEF Apart
<1>5. ASSUME Head(q).type = "tool", NEW i \in 1..n, p[i].type = "tool", p[i].key = Head(q).key
      PROVE  p[i].call # Head(q).call
  BY <1>1, <1>2, <1>3, <1>5 DEF Apart
<1> QED
  BY <1>4, <1>5 DEF Apart, Elements, p

\* What a beginning of a sequence holds.
LEMMA PrefixHolds ==
    ASSUME NEW S, NEW q \in Seq(S), NEW n \in Nat, n <= Len(q)
    PROVE  /\ SubSeq(q, 1, n) \in Seq(S) /\ Len(SubSeq(q, 1, n)) = n
           /\ \A i \in 1..n : SubSeq(q, 1, n)[i] = q[i]
           /\ Elements(SubSeq(q, 1, n)) \subseteq Elements(q)
<1>1. Len(q) \in Nat /\ \A i \in 1..n : i \in 1..Len(q) /\ q[i] \in S
  OBVIOUS
<1>2. /\ SubSeq(q, 1, n) \in Seq(S) /\ Len(SubSeq(q, 1, n)) = n
      /\ \A i \in 1..n : SubSeq(q, 1, n)[i] = q[i]
  BY <1>1, SubSeqProperties
<1> QED
  BY <1>1, <1>2 DEF Elements

\* Nothing new is on its way to session j, whose task and transcript stay.
LEMMA TalkStays ==
    ASSUME NEW j \in Keys, TalkOK(j), sessions'[j] = sessions[j], tasks'[j] = tasks[j],
           \A U : Expects(j, U) => Expects(j, U)'
    PROVE  TalkOK(j)'
<1>1. PICK U : TalkValue(sessions[j].msgs, U, tasks[j]) /\ Expects(j, U)
  BY DEF TalkOK
<1>2. TalkValue(sessions'[j].msgs, U, tasks'[j])
  BY <1>1, Zenon
<1> QED
  BY <1>1, <1>2 DEF TalkOK

\* A result comes back.
LEMMA CallbackTalk ==
    ASSUME HandlerTypes, TalkInv, UNCHANGED <<sessions, tasks, asks>>, Callback
    PROVE  TalkInv'
<1>1. internal \in Seq(Event)
  BY DEF HandlerTypes
<1>2. OnceInv /\ Apart(internal)
  BY DEF TalkInv, OnceInv
<1>3. ASSUME NEW c \in llm, NEW res \in LlmResult, LlmCallback(c, res) PROVE TalkInv'
  <2> DEFINE x == [type |-> "llm", key |-> c.key, req |-> c.req, ask |-> c.ask, res |-> res]
  <2>1. c \in [key : Keys, req : Request, ask : Nat \ {0}]
    BY DEF HandlerTypes
  <2>2. x \in Event /\ x.key = c.key /\ x.type = "llm" /\ x.req = c.req /\ x.ask = c.ask
    BY <2>1 DEF Event
  <2>3. internal' = Posted(x) /\ llm' = llm \ {c} /\ tools' = tools
    BY <1>3 DEF LlmCallback
  <2> HIDE DEF x
  <2>4. Elements(internal') \subseteq Elements(internal) \cup {x}
    BY <2>2, <2>3, PostedEvent
  <2>5. Apart(internal')
    <3>1. internal' \in {internal, Append(internal, x)}
      BY <2>3 DEF Posted
    <3> QED
      BY <1>1, <1>2, <2>2, <3>1, ApartAppend
  <2>6. OnceInv'
    BY <1>2, <2>2, <2>3, <2>4, <2>5 DEF OnceInv
  <2>7. ASSUME NEW j \in Keys PROVE TalkOK(j)' /\ FreshOK(j)'
    <3>1. \A U : Expects(j, U) => Expects(j, U)'
      BY <2>2, <2>3, <2>4 DEF Expects
    <3>2. TalkOK(j)'
      BY <3>1, TalkStays DEF TalkInv
    <3>3. FreshOK(j)
      BY DEF TalkInv
    <3>4. FreshOK(j)'
      BY <2>2, <2>3, <2>4, <3>3 DEF FreshOK
    <3> QED
      BY <3>2, <3>4
  <2> QED
    BY <2>6, <2>7 DEF TalkInv
<1>4. ASSUME NEW t \in tools, ToolCallback(t) PROVE TalkInv'
  <2> DEFINE x == [type |-> "tool", key |-> t.key, call |-> t.call]
  <2>1. tools \subseteq [key : Keys, call : Call] /\ t \in [key : Keys, call : Call]
    BY DEF HandlerTypes
  <2>2. x \in Event /\ x.key = t.key /\ x.type = "tool" /\ x.call = t.call
    BY <2>1 DEF Event
  <2>3. internal' = Posted(x) /\ tools' = tools \ {t} /\ llm' = llm
    BY <1>4 DEF ToolCallback
  <2> HIDE DEF x
  <2>4. Elements(internal') \subseteq Elements(internal) \cup {x}
    BY <2>2, <2>3, PostedEvent
  <2>5. Apart(internal')
    <3>1. internal' \in {internal, Append(internal, x)}
      BY <2>3 DEF Posted
    <3>2. \A e \in Elements(internal) : e.type = "tool" /\ e.key = x.key => e.call # x.call
      BY <1>2, <2>2 DEF OnceInv
    <3> QED
      BY <1>1, <1>2, <2>2, <3>1, <3>2, ApartAppend
  <2>6. \A u \in tools' : u.key = t.key => u.call # t.call
    <3>1. \A u \in tools : u.key = t.key /\ u.call = t.call => u = t
      BY <2>1
    <3> QED
      BY <2>3, <3>1
  <2>7. OnceInv'
    BY <1>2, <2>2, <2>3, <2>4, <2>5, <2>6 DEF OnceInv
  <2>8. ASSUME NEW j \in Keys PROVE TalkOK(j)' /\ FreshOK(j)'
    <3>1. \A U : Expects(j, U) => Expects(j, U)'
      BY <2>2, <2>3, <2>4 DEF Expects
    <3>2. TalkOK(j)'
      BY <3>1, TalkStays DEF TalkInv
    <3>3. FreshOK(j)
      BY DEF TalkInv
    <3>4. FreshOK(j)'
      BY <2>2, <2>3, <2>4, <3>3 DEF FreshOK
    <3> QED
      BY <3>2, <3>4
  <2> QED
    BY <2>7, <2>8 DEF TalkInv
<1> QED
  BY <1>3, <1>4 DEF Callback

\* Asking the model for session k leaves the numbers of the others.
LEMMA TriggerOthers ==
    ASSUME HandlerTypes, FiniteInv, \A i \in Keys : PhaseOK(i) /\ SessionOK(sessions[i]),
           NEW k \in Keys, NEW r \in Request, TriggerLlm(k, r),
           NEW j \in Keys, j # k, FreshOK(j), sessions'[j] = sessions[j], tasks'[j] = tasks[j],
           Elements(internal') \subseteq Elements(internal),
           tasks[j] # << >> => tasks[j][1].req # r
    PROVE  FreshOK(j)'
<1>1. asks \in [Request -> Nat] /\ llm \subseteq [key : Keys, req : Request, ask : Nat \ {0}]
  BY DEF HandlerTypes
<1>2. /\ asks' = [asks EXCEPT ![r] = @ + 1]
      /\ llm' = llm \cup {[key |-> k, req |-> r, ask |-> asks[r] + 1]}
  BY DEF TriggerLlm
<1>3. \A q \in Request : /\ asks[q] \in Nat /\ asks'[q] \in Nat /\ asks[q] <= asks'[q]
                         /\ q # r => asks'[q] = asks[q]
  BY <1>1, <1>2
<1>4. ASSUME NEW c \in llm', c.key = j PROVE c \in llm /\ c.req \in Request /\ c.req # r
  <2>1. c \in llm
    BY <1>2, <1>4
  <2>2. tasks[j] # << >> /\ tasks[j][1].req = c.req
    <3>1. ResultsFindTheirTask
      BY PhasesFind
    <3> QED
      BY <1>4, <2>1, <3>1 DEF ResultsFindTheirTask
  <2> QED
    BY <1>1, <2>1, <2>2
<1>5. ASSUME NEW e \in Elements(internal), e.key = j, e.type = "llm"
      PROVE  e.req \in Request /\ e.req # r
  <2>1. tasks[j] # << >> /\ tasks[j][1] \in Task /\ e.req = tasks[j][1].req
    BY <1>5, ResultAwaited
  <2> QED
    BY <2>1 DEF Task
<1>6. ASSUME NEW m \in Elements(sessions[j].msgs), NEW c \in m.calls
      PROVE  c[1] \in Request /\ c[2] \in Nat
  <2>1. sessions[j].msgs \in Seq(Message)
    BY DEF SessionOK, SessionRecord
  <2>2. m \in Message
    BY <1>6, <2>1, ElementsInRange
  <2>3. c \in Call
    BY <1>6, <2>2 DEF Message
  <2> QED
    BY <2>3 DEF Call
<1>7. ASSUME NEW m \in Elements(sessions'[j].msgs), m.role = "assistant", NEW c \in m.calls
      PROVE  /\ c[2] <= asks'[c[1]]
             /\ tasks'[j] # << >> /\ tasks'[j][1].state = "WAITING_LLM" /\ c[1] = tasks'[j][1].req
                => c[2] < asks'[c[1]]
  <2>1. m \in Elements(sessions[j].msgs) /\ c[1] \in Request /\ c[2] \in Nat
    BY <1>6, <1>7
  <2>2. c[2] <= asks[c[1]]
    BY <1>7, <2>1 DEF FreshOK
  <2>3. c[2] <= asks'[c[1]]
    BY <1>3, <2>1, <2>2
  <2>4. ASSUME tasks[j] # << >>, tasks[j][1].state = "WAITING_LLM", c[1] = tasks[j][1].req
        PROVE  c[2] < asks'[c[1]]
    <3>1. c[2] < asks[c[1]] /\ c[1] # r
      BY <1>7, <2>1, <2>4 DEF FreshOK
    <3> QED
      BY <1>3, <2>1, <3>1
  <2> QED
    BY <2>3, <2>4
<1>8. \A c \in llm' : c.key = j => c.ask = asks'[c.req]
  BY <1>3, <1>4 DEF FreshOK
<1>9. \A e \in Elements(internal') : e.key = j /\ e.type = "llm" => e.ask = asks'[e.req]
  BY <1>3, <1>5 DEF FreshOK
<1> QED
  BY <1>7, <1>8, <1>9 DEF FreshOK

\* Asking the model for session k, which has no such call under way, makes a new number.
LEMMA TriggerOwn ==
    ASSUME HandlerTypes, NEW k \in Keys, SessionOK(sessions[k])', NEW r \in Request, TriggerLlm(k, r),
           \A c \in llm : c.key # k,
           \A e \in Elements(internal') : e.key = k => e.type # "llm",
           \A m \in Elements(sessions'[k].msgs) : m.role = "assistant" =>
               \A c \in m.calls : c[2] <= asks[c[1]],
           tasks'[k][1].req = r
    PROVE  FreshOK(k)'
<1>1. asks \in [Request -> Nat]
  BY DEF HandlerTypes
<1>2. /\ asks' = [asks EXCEPT ![r] = @ + 1]
      /\ llm' = llm \cup {[key |-> k, req |-> r, ask |-> asks[r] + 1]}
  BY DEF TriggerLlm
<1>3. \A q \in Request : /\ asks[q] \in Nat /\ asks'[q] \in Nat /\ asks[q] <= asks'[q]
  BY <1>1, <1>2
<1>4. asks'[r] = asks[r] + 1
  BY <1>1, <1>2
<1>5. \A c \in llm' : c.key = k => c.ask = asks'[c.req]
  BY <1>2, <1>4
<1>6. ASSUME NEW m \in Elements(sessions'[k].msgs), m.role = "assistant", NEW c \in m.calls
      PROVE  c[2] <= asks'[c[1]] /\ (c[1] = r => c[2] < asks'[c[1]])
  <2>1. sessions'[k].msgs \in Seq(Message)
    BY DEF SessionOK, SessionRecord
  <2>2. m \in Message
    BY <1>6, <2>1, ElementsInRange
  <2>3. c \in Call
    BY <1>6, <2>2 DEF Message
  <2>4. c[1] \in Request /\ c[2] \in Nat
    BY <2>3 DEF Call
  <2>5. c[2] <= asks[c[1]]
    BY <1>6
  <2> QED
    BY <1>3, <1>4, <2>4, <2>5
<1> QED
  BY <1>5, <1>6 DEF FreshOK

\* What saving, consolidating and rolling back leave of a session.
LEMMA MarksOnly ==
    ASSUME NEW s, SessionOK(s), NEW f
    PROVE  /\ Normalised(s).msgs = s.msgs /\ Normalised(s).saved = s.saved
           /\ Consolidated(s).msgs = s.msgs /\ Consolidated(s).saved = s.saved
           /\ SessionAfterSave(s, f).msgs = s.msgs /\ SessionAfterSave(s, f).saved = Len(s.msgs)
  BY DEF SessionOK, SessionRecord, Normalised, Consolidated, SessionAfterSave

\* A message is added, and saved unless the task is a job's.
LEMMA SpokenIs ==
    ASSUME NEW k \in Keys, SessionOK(sessions[k]), NEW t \in Task, NEW m \in Message
    PROVE  /\ SessionOK(Spoken(k, t, m)) /\ SessionOK(AddMessage(sessions[k], m))
           /\ AddMessage(sessions[k], m).msgs = Append(sessions[k].msgs, m)
           /\ AddMessage(sessions[k], m).saved = sessions[k].saved
           /\ Spoken(k, t, m).msgs = Append(sessions[k].msgs, m)
           /\ Append(sessions[k].msgs, m) \in Seq(Message)
<1> DEFINE s == AddMessage(sessions[k], m)
<1>1. SessionOK(s) /\ s.msgs = Append(sessions[k].msgs, m) /\ s.saved = sessions[k].saved
  BY AddMessageOK DEF AddMessage, SessionOK, SessionRecord
<1>2. s.msgs \in Seq(Message)
  BY <1>1 DEF SessionOK, SessionRecord
<1> HIDE DEF s
<1>3. SessionOK(Kept(t, s, file[k])) /\ Kept(t, s, file[k]).msgs = s.msgs
  BY <1>1, TaskEndsOK, MarksOnly DEF Kept
<1> QED
  BY <1>1, <1>2, <1>3 DEF Spoken, s

\* A task that is over takes its messages with it if it is a job's.
LEMMA DroppedIs ==
    ASSUME NEW s, SessionOK(s), NEW t \in Task, t.before <= Len(s.msgs)
    PROVE  /\ SessionOK(Dropped(t, s)) /\ Dropped(t, s).msgs = Cut(t, s.msgs)
           /\ t.norecord => Dropped(t, s).saved = Clamp(s.saved, t.before)
<1>1. /\ s.msgs \in Seq(Message) /\ t.before \in Nat /\ s.saved \in Nat /\ Len(s.msgs) \in Nat
      /\ s.saved <= Len(s.msgs)
  BY DEF SessionOK, SessionRecord, Task
<1>2. SessionOK(Dropped(t, s))
  BY TaskEndsOK
<1>3. CASE ~t.norecord
  BY <1>2, <1>3 DEF Dropped, Cut
<1>4. CASE t.norecord /\ t.before >= Len(s.msgs)
  <2>1. t.before = Len(s.msgs)
    BY <1>1, <1>4
  <2>2. Dropped(t, s) = s
    BY <1>4 DEF Dropped, RollbackMessages
  <2>3. SubSeq(s.msgs, 1, Len(s.msgs)) = s.msgs
    BY <1>1, SubSeqFull
  <2>4. Clamp(s.saved, t.before) = s.saved
    BY <1>1, <2>1 DEF Clamp
  <2> QED
    BY <1>2, <1>4, <2>1, <2>2, <2>3, <2>4 DEF Cut
<1>5. CASE t.norecord /\ ~(t.before >= Len(s.msgs))
  <2>1. Dropped(t, s) = [s EXCEPT !.msgs = SubSeq(s.msgs, 1, t.before),
                                  !.saved = Clamp(s.saved, t.before),
                                  !.consolidated = Clamp(s.consolidated, t.before)]
    BY <1>5 DEF Dropped, RollbackMessages, SessionOK, SessionRecord
  <2>2. /\ Dropped(t, s).msgs = SubSeq(s.msgs, 1, t.before)
        /\ Dropped(t, s).saved = Clamp(s.saved, t.before)
    BY <2>1 DEF SessionOK, SessionRecord
  <2> QED
    BY <1>2, <1>5, <2>2 DEF Cut
<1> QED
  BY <1>3, <1>4, <1>5

\* A session that is not busy is idle.
LEMMA FreeIsIdle ==
    ASSUME HandlerTypes, NEW k \in Keys, PhaseOK(k), ~Busy(k)
    PROVE  tasks[k] = << >> /\ Owed(k) = 0
<1>1. tasks[k] \in Seq(Task)
  BY DEF HandlerTypes
<1>2. ASSUME Len(tasks[k]) = 1, Asking(k) \/ Running(k) PROVE Busy(k)
  <2>1. tasks[k] # << >> /\ tasks[k][1] \in Task
    BY <1>1, <1>2, OneTask
  <2>2. Snapshot(k).state = tasks[k][1].state
    BY <2>1 DEF Snapshot, Task
  <2> QED
    BY <1>2, <2>1, <2>2 DEF Busy, Asking, Running
<1> QED
  BY <1>2 DEF PhaseOK

\* The task and the message of a request that begins.
LEMMA BeginsLists ==
    ASSUME HandlerTypes, NEW k \in Keys, NEW r \in Request, SessionOK(sessions[k]),
           tasks[k] = << >>, BeginsTalk(k, r)
    PROVE  /\ tasks'[k] # << >> /\ tasks'[k] \in Seq(Task) /\ tasks'[k][1].state = "WAITING_LLM"
           /\ tasks'[k][1].req = r /\ tasks'[k][1].norecord = (requests[r].kind = "job")
           /\ tasks'[k][1].before = Len(sessions[k].msgs)
           /\ \A j \in Keys \ {k} : tasks'[j] = tasks[j] /\ sessions'[j] = sessions[j] /\ file'[j] = file[j]
           /\ sessions'[k].msgs = Append(sessions[k].msgs, User(r))
<1> DEFINE b == Len(sessions[k].msgs)
           t == NewTask(r, b)
           M == TurnBegun(Append(tasks[k], t))
<1>1. b \in Nat
  BY DEF SessionOK, SessionRecord
<1>2. tasks \in [Keys -> Seq(Task)] /\ tasks[k] \in Seq(Task)
  BY DEF HandlerTypes
<1> HIDE DEF b
<1>3. t \in Task /\ t.req = r /\ t.norecord = (requests[r].kind = "job") /\ t.before = b
  BY <1>1, NewTaskTyped DEF NewTask
<1>4. tasks' = [tasks EXCEPT ![k] = M]
  BY DEF BeginsTalk, TaskStarted, b
<1> HIDE DEF t
<1>5. /\ SameTasks(Append(tasks[k], t), M) /\ M[1].state = "WAITING_LLM"
      /\ Len(M) = Len(tasks[k]) + 1
      /\ M[1].req = t.req /\ M[1].norecord = t.norecord /\ M[1].before = t.before
  BY <1>2, <1>3, AddedList
<1> HIDE DEF M
<1>6. M \in Seq(Task) /\ M # << >>
  <2>1. M \in Seq(Task) /\ Len(tasks[k]) = 0
    BY <1>5, EmptySeq DEF SameTasks
  <2>2. Len(M) = 1
    BY <1>5, <2>1
  <2> QED
    BY <2>1, <2>2, OneTask
<1>7. tasks'[k] = M /\ \A j \in Keys \ {k} : tasks'[j] = tasks[j]
  BY <1>2, <1>4
<1>8. /\ \A j \in Keys \ {k} : sessions'[j] = sessions[j] /\ file'[j] = file[j]
      /\ sessions'[k].msgs = Append(sessions[k].msgs, User(r))
  <2> DEFINE s == AddMessage(sessions[k], User(r))
  <2>1. User(r) \in Message /\ SessionOK(s) /\ s.msgs = Append(sessions[k].msgs, User(r))
    BY MessagesTyped, AddMessageOK DEF AddMessage, SessionOK, SessionRecord
  <2>2. \/ Stored(k, Normalised(s), file[k])
        \/ Stored(k, SessionAfterSave(Consolidated(s), file[k]), FileAfterSave(Consolidated(s), file[k]))
    BY DEF BeginsTalk
  <2> HIDE DEF s
  <2>3. SessionOK(Consolidated(s))
    BY <2>1, ConsolidateOK
  <2>4. Normalised(s).msgs = s.msgs /\ SessionAfterSave(Consolidated(s), file[k]).msgs = s.msgs
    BY <2>1, <2>3, MarksOnly
  <2> QED
    BY <2>1, <2>2, <2>4 DEF Stored
<1> QED
  BY <1>3, <1>5, <1>6, <1>7, <1>8 DEF b

\* A message keeps the conversations in order.
LEMMA MessageTalkKept ==
    ASSUME "skill" \notin Kinds, FlowInv, SessionsInv', HandlerTypes', PlacesInv, StoresInv, TalkInv, TakeMessage
    PROVE  TalkInv' /\ StoresInv'
<1>1. HandlerTypes /\ TypeOK /\ SessionsInv /\ FiniteInv /\ \A j \in Keys : PhaseOK(j)
  BY TypeParts DEF FlowInv
<1>2. PICK r : r = Head(inbox)
  OBVIOUS
<1>3. PICK k : k = requests[r].key
  OBVIOUS
<1>4. r \in Request /\ k \in Keys /\ UNCHANGED <<internal, tools, requests>>
  BY <1>1, <1>2, <1>3, MessageSteps
<1>5. /\ StoresInv'
      /\ \/ BeginsTalk(k, r)
         \/ UNCHANGED <<sessions, file, llm, asks>> /\ tasks' \in {tasks, TasksCancelled(k)}
  BY <1>1, <1>2, <1>3, MessageTalk
<1>6. OnceInv'
  BY <1>4 DEF TalkInv, OnceInv
<1>7. \A j \in Keys : \A U : Expects(j, U)' <=> Expects(j, U)
  BY <1>4 DEF Expects
<1>8. \A j \in Keys : SessionOK(sessions[j]) /\ TalkOK(j) /\ FreshOK(j) /\ SessionOK(sessions[j])'
  BY <1>1 DEF SessionsInv, TalkInv
<1>9. CASE BeginsTalk(k, r)
  <2>1. tasks[k] = << >> /\ Owed(k) = 0
    BY <1>1, <1>4, <1>9, FreeIsIdle DEF BeginsTalk
  <2>2. /\ tasks'[k] # << >> /\ tasks'[k] \in Seq(Task) /\ tasks'[k][1].state = "WAITING_LLM"
        /\ tasks'[k][1].req = r /\ tasks'[k][1].before = Len(sessions[k].msgs)
        /\ \A j \in Keys \ {k} : tasks'[j] = tasks[j] /\ sessions'[j] = sessions[j]
        /\ sessions'[k].msgs = Append(sessions[k].msgs, User(r))
    BY <1>1, <1>4, <1>8, <1>9, <2>1, BeginsLists
  <2>3. User(r) \in Message /\ User(r).role = "user" /\ User(r).calls = {}
    BY <1>4, MessagesTyped DEF User
  <2>4. sessions[k].msgs \in Seq(Message)
    BY <1>4, <1>8 DEF SessionOK, SessionRecord
  <2>5. TalkOK(k)'
    <3>1. PICK U : TalkValue(sessions[k].msgs, U, tasks[k]) /\ Expects(k, U)
      BY <1>4, <1>8 DEF TalkOK
    <3>2. TalkValue(sessions[k].msgs, U, << >>)
      BY <2>1, <3>1
    <3>3. TalkValue(sessions'[k].msgs, {}, tasks'[k]) /\ U = {}
      BY <2>2, <2>3, <2>4, <3>2, TalkBegins
    <3>4. Expects(k, {})'
      BY <1>4, <1>7, <3>1, <3>3
    <3> QED
      BY <3>3, <3>4 DEF TalkOK
  <2>6. TriggerLlm(k, r)
    BY <1>9 DEF BeginsTalk
  <2>7. FreshOK(k)'
    <3>1. (\A c \in llm : c.key # k) /\ (\A e \in Elements(internal) : e.key # k)
      BY <1>1, <1>4, <2>1, OwedNothing DEF FiniteInv
    <3>2. Elements(sessions'[k].msgs) = Elements(sessions[k].msgs) \cup {User(r)}
      BY <2>2, <2>3, <2>4, AppendDistinct
    <3>3. \A m \in Elements(sessions'[k].msgs) : m.role = "assistant" =>
               \A c \in m.calls : c[2] <= asks[c[1]]
      BY <1>4, <1>8, <2>3, <3>2 DEF FreshOK
    <3>4. SessionOK(sessions[k])'
      BY <1>4, <1>8
    <3> QED
      BY <1>1, <1>4, <2>2, <2>6, <3>1, <3>3, <3>4, TriggerOwn
  <2>8. ASSUME NEW j \in Keys \ {k} PROVE TalkOK(j)' /\ FreshOK(j)'
    <3>1. TalkOK(j)'
      BY <1>7, <1>8, <2>2, TalkStays
    <3>2. tasks[j] # << >> => tasks[j][1].req # r
      <4>1. Held(r)
        <5>1. inbox # << >> /\ inbox \in Seq(1..Len(requests))
          BY <1>1 DEF TakeMessage, TypeOK
        <5>2. Distinct(inbox)
          BY DEF PlacesInv, QueueInv
        <5> QED
          BY <1>2, <5>1, <5>2, TailDistinct DEF Held
      <4> QED
        BY <4>1 DEF PlacesInv, TaskPlaced
    <3>3. FreshOK(j)'
      BY <1>1, <1>4, <1>8, <2>2, <2>6, <3>2, TriggerOthers
    <3> QED
      BY <3>1, <3>3
  <2> QED
    BY <1>5, <1>6, <2>5, <2>7, <2>8 DEF TalkInv
<1>10. CASE UNCHANGED <<sessions, file, llm, asks>> /\ tasks' \in {tasks, TasksCancelled(k)}
  <2>1. ASSUME NEW j \in Keys
        PROVE  /\ tasks'[j] = << >> <=> tasks[j] = << >>
               /\ tasks[j] # << >> => /\ tasks'[j][1].state = tasks[j][1].state
                                      /\ tasks'[j][1].pending = tasks[j][1].pending
                                      /\ tasks'[j][1].req = tasks[j][1].req
                                      /\ tasks'[j][1].before = tasks[j][1].before
    <3>1. CASE tasks' = tasks \/ j # k
      <4>1. tasks'[j] = tasks[j]
        BY <1>1, <1>4, <1>10, <3>1, CancelTyped
      <4> QED
        BY <4>1
    <3>2. CASE tasks' = TasksCancelled(k) /\ j = k
      <4>1. /\ SameTasks(tasks[k], tasks'[k])
            /\ \A i \in 1..Len(tasks[k]) : /\ tasks'[k][i].state = tasks[k][i].state
                                           /\ tasks'[k][i].pending = tasks[k][i].pending
        BY <1>1, <1>4, <3>2, CancelTyped
      <4>2. tasks[k] \in Seq(Task) /\ tasks'[k] \in Seq(Task) /\ Len(tasks'[k]) = Len(tasks[k])
        BY <1>1, <1>4, <4>1 DEF SameTasks, HandlerTypes
      <4>3. tasks[k] = << >> <=> tasks'[k] = << >>
        BY <4>2, EmptySeq
      <4>4. tasks[k] # << >> => 1 \in 1..Len(tasks[k])
        BY <4>2, FirstTask
      <4> QED
        BY <3>2, <4>1, <4>3, <4>4 DEF SameTasks
    <3> QED
      BY <1>10, <3>1, <3>2
  <2>2. ASSUME NEW j \in Keys PROVE TalkOK(j)'
    <3>1. PICK U : TalkValue(sessions[j].msgs, U, tasks[j]) /\ Expects(j, U)
      BY <1>8 DEF TalkOK
    <3>2. TalkValue(sessions'[j].msgs, U, tasks'[j])
      BY <1>10, <2>1, <3>1 DEF TalkValue
    <3> QED
      BY <1>7, <3>1, <3>2 DEF TalkOK
  <2>3. ASSUME NEW j \in Keys PROVE FreshOK(j)'
    <3>1. FreshOK(j)
      BY <1>8
    <3> QED
      BY <1>4, <1>10, <2>1, <3>1 DEF FreshOK
  <2> QED
    BY <1>5, <1>6, <2>2, <2>3 DEF TalkInv
<1> QED
  BY <1>5, <1>9, <1>10

\* What the calls and results of the other sessions have to do with session k's result.
LEMMA OthersTalk ==
    ASSUME HandlerTypes, FiniteInv, \A i \in Keys : PhaseOK(i) /\ SessionOK(sessions[i]), PlacesInv,
           NEW k \in Keys, tasks[k] # << >>, NEW j \in Keys, j # k, TalkOK(j), FreshOK(j),
           sessions'[j] = sessions[j], tasks'[j] = tasks[j],
           Elements(internal') \subseteq Elements(internal),
           \A t \in tools' : t \in tools \/ t.key = k,
           UNCHANGED <<llm, asks>> \/ TriggerLlm(k, tasks[k][1].req)
    PROVE  TalkOK(j)' /\ FreshOK(j)'
<1>1. \A U : Expects(j, U) => Expects(j, U)'
  BY DEF Expects
<1>2. TalkOK(j)'
  BY <1>1, TalkStays
<1>3. CASE UNCHANGED <<llm, asks>>
  BY <1>2, <1>3 DEF FreshOK
<1>4. CASE TriggerLlm(k, tasks[k][1].req)
  <2>1. PICK q : q = tasks[k][1].req
    OBVIOUS
  <2>2. q \in Request /\ (tasks[j] # << >> => tasks[j][1].req # q)
    BY <2>1, TaskOfOne
  <2>3. TriggerLlm(k, q)
    BY <1>4, <2>1
  <2>4. FreshOK(j)'
    BY <2>2, <2>3, TriggerOthers
  <2> QED
    BY <1>2, <2>4
<1> QED
  BY <1>3, <1>4

\* Nothing in the transcript of a session makes a call that a new message makes: if the
\* message is text, or if the session has just been asked.
LEMMA FreshEnds ==
    ASSUME NEW k \in Keys, SessionOK(sessions[k]), NEW t \in Task, NEW m \in Message, m.calls = {},
           t.before <= Len(sessions[k].msgs), FreshOK(k),
           sessions'[k].msgs \in {Cut(t, sessions[k].msgs), Cut(t, Append(sessions[k].msgs, m))},
           tasks'[k] = << >>, UNCHANGED <<llm, asks>>, Elements(internal') \subseteq Elements(internal)
    PROVE  FreshOK(k)'
<1> DEFINE q == sessions[k].msgs
           p == Append(q, m)
<1>1. q \in Seq(Message) /\ t.before \in Nat /\ Len(q) \in Nat
  BY DEF SessionOK, SessionRecord, Task
<1>2. p \in Seq(Message) /\ Len(p) = Len(q) + 1 /\ Elements(p) = Elements(q) \cup {m}
  BY <1>1, AppendDistinct
<1> HIDE DEF p, q
<1>3. t.before <= Len(q) /\ t.before <= Len(p)
  BY <1>1, <1>2 DEF q
<1>4. Elements(SubSeq(q, 1, t.before)) \subseteq Elements(q)
      /\ Elements(SubSeq(p, 1, t.before)) \subseteq Elements(p)
  BY <1>1, <1>2, <1>3, PrefixHolds
<1>5. Elements(sessions'[k].msgs) \subseteq Elements(q) \cup {m}
  BY <1>2, <1>4 DEF Cut, p, q
<1> QED
  BY <1>5 DEF FreshOK, q

\* The answer of a tool makes no call.
LEMMA FreshAnswers ==
    ASSUME NEW k \in Keys, SessionOK(sessions[k]), NEW m \in Message, m.role = "tool", FreshOK(k),
           sessions'[k].msgs = Append(sessions[k].msgs, m),
           tasks'[k][1].state = "WAITING_TOOL",
           UNCHANGED <<llm, asks>>, Elements(internal') \subseteq Elements(internal)
    PROVE  FreshOK(k)'
<1>1. sessions[k].msgs \in Seq(Message)
  BY DEF SessionOK, SessionRecord
<1>2. Elements(sessions'[k].msgs) = Elements(sessions[k].msgs) \cup {m}
  BY <1>1, AppendDistinct
<1> QED
  BY <1>2 DEF FreshOK

\* The calls of a message are of the turn that begins, so no earlier message made them.
LEMMA FreshCalls ==
    ASSUME NEW k \in Keys, SessionOK(sessions[k]), HandlerTypes, FreshOK(k),
           NEW m \in Message, \A c \in m.calls : c[1] = tasks[k][1].req /\ c[2] = asks[c[1]],
           sessions'[k].msgs = Append(sessions[k].msgs, m),
           tasks[k] # << >>, tasks[k][1].state = "WAITING_LLM", tasks[k][1].req \in Request,
           tasks'[k][1].state = "WAITING_TOOL",
           UNCHANGED <<llm, asks>>, Elements(internal') \subseteq Elements(internal)
    PROVE  /\ FreshOK(k)'
           /\ \A i \in 1..Len(sessions[k].msgs) : sessions[k].msgs[i].role = "assistant" =>
                  sessions[k].msgs[i].calls \cap m.calls = {}
<1>1. sessions[k].msgs \in Seq(Message)
  BY DEF SessionOK, SessionRecord
<1>2. Elements(sessions'[k].msgs) = Elements(sessions[k].msgs) \cup {m}
  BY <1>1, AppendDistinct
<1>3. FreshOK(k)'
  <2>1. \A c \in m.calls : c[2] <= asks[c[1]]
    <3>1. \A q \in Request : asks[q] \in Nat
      BY DEF HandlerTypes
    <3> QED
      BY <3>1
  <2> QED
    BY <1>2, <2>1 DEF FreshOK
<1>4. ASSUME NEW i \in 1..Len(sessions[k].msgs), sessions[k].msgs[i].role = "assistant",
             NEW c \in sessions[k].msgs[i].calls, c \in m.calls
      PROVE  FALSE
  <2>1. sessions[k].msgs[i] \in Elements(sessions[k].msgs)
    BY DEF Elements
  <2>2. c[2] < asks[c[1]] /\ c[1] = tasks[k][1].req /\ c[2] = asks[c[1]]
    BY <1>4, <2>1 DEF FreshOK
  <2>3. asks[tasks[k][1].req] \in Nat
    BY DEF HandlerTypes
  <2> QED
    BY <2>2, <2>3
<1> QED
  BY <1>3, <1>4

\* A result keeps the conversations in order.
LEMMA EventTalkKept ==
    ASSUME FlowInv, SessionsInv', HandlerTypes', PlacesInv, StoresInv, TalkInv, TakeEvent
    PROVE  TalkInv' /\ StoresInv'
<1>1. HandlerTypes /\ TypeOK /\ SessionsInv /\ FiniteInv /\ \A j \in Keys : PhaseOK(j)
  BY TypeParts DEF FlowInv
<1>2. PICK e : e = Head(internal)
  OBVIOUS
<1>3. PICK k : k = e.key
  OBVIOUS
<1>4. e \in Event /\ k \in Keys /\ internal # << >> /\ internal' = Tail(internal)
  BY <1>1, <1>2, <1>3, EventSteps
<1>5. e \in Elements(internal) /\ Elements(internal') \subseteq Elements(internal)
  BY <1>1, <1>2, <1>4, TakenEvent
<1>6. /\ Len(tasks[k]) = 1 /\ tasks[k] # << >> /\ tasks[k][1] \in Task /\ tasks[k] \in Seq(Task)
      /\ e.type = "llm" => Asking(k) /\ e.req = tasks[k][1].req
      /\ e.type = "tool" => Running(k)
  BY <1>1, <1>3, <1>4, <1>5, ResultAwaited DEF HandlerTypes
<1>7. PICK t : t = tasks[k][1]
  OBVIOUS
<1>8. /\ StoresInv'
      /\ Speaks(k, t, e) \/ CallsTalk(k, t, e) \/ Hears(k, t, e) \/ GivesUp(k, t, e)
  BY <1>1, <1>2, <1>3, <1>6, <1>7, EventTalk
<1>9. \A j \in Keys : SessionOK(sessions[j]) /\ TalkOK(j) /\ FreshOK(j) /\ SessionOK(sessions[j])'
  BY <1>1 DEF SessionsInv, TalkInv
<1>10. sessions[k].msgs \in Seq(Message) /\ t \in Task /\ t.req \in Request /\ t.before \in Nat
  BY <1>4, <1>6, <1>7, <1>9 DEF SessionOK, SessionRecord, Task
<1>11. Apart(internal') /\ (e.type = "tool" => \A x \in Elements(internal') :
                                 x.type = "tool" /\ x.key = k => x.call # e.call)
  <2>1. internal \in Seq(Event) /\ Apart(internal)
    BY <1>1 DEF HandlerTypes, TalkInv, OnceInv
  <2> QED
    BY <1>2, <1>3, <1>4, <2>1, ApartTail
<1>12. PICK U : TalkValue(sessions[k].msgs, U, tasks[k]) /\ Expects(k, U)
  BY <1>4, <1>9 DEF TalkOK
<1>13. tasks \in [Keys -> Seq(Task)] /\ Tail(tasks[k]) = << >>
  BY <1>1, <1>6, OneTask DEF HandlerTypes
<1>14. ASSUME UNCHANGED tools PROVE OnceInv'
  BY <1>5, <1>11, <1>14 DEF OnceInv, TalkInv
<1>15. ASSUME UNCHANGED <<llm, asks>> \/ TriggerLlm(k, t.req),
              \A x \in tools' : x \in tools \/ x.key = k,
              \A j \in Keys \ {k} : sessions'[j] = sessions[j] /\ tasks'[j] = tasks[j]
       PROVE  \A j \in Keys \ {k} : TalkOK(j)' /\ FreshOK(j)'
  BY <1>1, <1>4, <1>5, <1>6, <1>7, <1>9, <1>15, OthersTalk
<1>16. ASSUME Ends(k, t)
       PROVE  /\ tasks'[k] = << >> /\ UNCHANGED <<llm, tools, asks>>
              /\ \A j \in Keys \ {k} : tasks'[j] = tasks[j]
  BY <1>4, <1>13, <1>16 DEF Ends, Removed
<1>17. CASE Speaks(k, t, e)
  <2> DEFINE m == Assistant(t.req, {})
  <2>1. m \in Message /\ m.role = "assistant" /\ m.calls = {}
    BY <1>10, MessagesTyped DEF Assistant
  <2>2. \/ Stored(k, Dropped(t, sessions[k]), file[k])
        \/ Stored(k, Dropped(t, Spoken(k, t, m)), SpokenFile(k, t, m))
    BY <1>17 DEF Speaks
  <2> HIDE DEF m
  <2>3. tasks[k][1].state = "WAITING_LLM" /\ Ends(k, t)
    BY <1>6, <1>17 DEF Asking, Speaks
  <2>4. /\ TalkValue(Cut(t, sessions[k].msgs), {}, << >>) /\ U = {}
        /\ t.before <= Len(sessions[k].msgs)
        /\ TalkValue(Cut(t, Append(sessions[k].msgs, m)), {}, << >>)
    BY <1>6, <1>7, <1>10, <1>12, <2>1, <2>3, TalkSpeaks
  <2>5. sessions'[k].msgs \in {Cut(t, sessions[k].msgs), Cut(t, Append(sessions[k].msgs, m))}
    <3>1. SessionOK(Spoken(k, t, m)) /\ Spoken(k, t, m).msgs = Append(sessions[k].msgs, m)
      BY <1>4, <1>9, <1>10, <2>1, SpokenIs
    <3>2. /\ Len(Append(sessions[k].msgs, m)) = Len(sessions[k].msgs) + 1
          /\ Len(sessions[k].msgs) \in Nat
      BY <1>10, <2>1
    <3>3. t.before <= Len(Spoken(k, t, m).msgs)
      BY <1>10, <2>4, <3>1, <3>2
    <3>4. /\ Dropped(t, sessions[k]).msgs = Cut(t, sessions[k].msgs)
          /\ Dropped(t, Spoken(k, t, m)).msgs = Cut(t, Append(sessions[k].msgs, m))
      BY <1>4, <1>9, <1>10, <2>4, <3>1, <3>3, DroppedIs
    <3> QED
      BY <2>2, <3>4 DEF Stored
  <2>6. /\ tasks'[k] = << >> /\ UNCHANGED <<llm, tools, asks>>
        /\ \A j \in Keys \ {k} : tasks'[j] = tasks[j]
    BY <1>16, <2>3
  <2>7. Expects(k, U)'
    BY <1>5, <1>12, <2>6 DEF Expects
  <2>8. TalkOK(k)'
    <3>1. TalkValue(sessions'[k].msgs, {}, tasks'[k])
      BY <2>4, <2>5, <2>6
    <3>2. Expects(k, {})'
      BY <2>4, <2>7
    <3> QED
      BY <3>1, <3>2 DEF TalkOK
  <2>9. FreshOK(k)'
    BY <1>4, <1>5, <1>9, <1>10, <2>1, <2>4, <2>5, <2>6, FreshEnds
  <2>10. \A j \in Keys \ {k} : sessions'[j] = sessions[j]
    BY <2>2 DEF Stored
  <2> QED
    BY <1>8, <1>14, <1>15, <2>6, <2>8, <2>9, <2>10 DEF TalkInv
<1>18. CASE GivesUp(k, t, e)
  <2> DEFINE m == ToolAnswer(t.req, e.call)
  <2>0. /\ e.type = "tool" /\ Ends(k, t) /\ t.pending <= 1
        /\ Stored(k, Dropped(t, Spoken(k, t, m)), SpokenFile(k, t, m))
    BY <1>18 DEF GivesUp
  <2>1. m \in Message /\ m.role = "tool" /\ m.calls = {e.call} /\ e.call \in Call
    BY <1>4, <1>10, <2>0, MessagesTyped DEF ToolAnswer, Event
  <2> HIDE DEF m
  <2>2. tasks[k][1].state = "WAITING_TOOL" /\ e.call \in U
    BY <1>3, <1>5, <1>6, <1>12, <2>0 DEF Running, Expects
  <2>3. /\ TalkValue(Cut(t, Append(sessions[k].msgs, m)), {}, << >>)
        /\ t.before <= Len(sessions[k].msgs)
        /\ U = {e.call}
    <3>1. tasks[k][1].pending <= 1
      BY <1>7, <2>0
    <3>2. /\ U = {e.call} /\ TalkValue(Cut(tasks[k][1], Append(sessions[k].msgs, m)), {}, << >>)
          /\ tasks[k][1].before <= Len(sessions[k].msgs)
      BY <1>6, <1>10, <1>12, <2>1, <2>2, <3>1, TalkLast
    <3> QED
      BY <1>7, <3>2
  <2>4. sessions'[k].msgs = Cut(t, Append(sessions[k].msgs, m))
    <3>1. SessionOK(Spoken(k, t, m)) /\ Spoken(k, t, m).msgs = Append(sessions[k].msgs, m)
      BY <1>4, <1>9, <1>10, <2>1, SpokenIs
    <3>2. /\ Len(Append(sessions[k].msgs, m)) = Len(sessions[k].msgs) + 1
          /\ Len(sessions[k].msgs) \in Nat
      BY <1>10, <2>1
    <3>3. t.before <= Len(Spoken(k, t, m).msgs)
      BY <1>10, <2>3, <3>1, <3>2
    <3>4. Dropped(t, Spoken(k, t, m)).msgs = Cut(t, Append(sessions[k].msgs, m))
      BY <1>10, <3>1, <3>3, DroppedIs
    <3> QED
      BY <2>0, <3>4 DEF Stored
  <2>5. /\ tasks'[k] = << >> /\ UNCHANGED <<llm, tools, asks>>
        /\ \A j \in Keys \ {k} : tasks'[j] = tasks[j]
    BY <1>16, <2>0
  <2>6. Expects(k, {})'
    <3>1. \A x \in tools : x.key = k => x.call \in U /\ x.call # e.call
      BY <1>3, <1>5, <1>12, <2>0 DEF Expects, TalkInv, OnceInv
    <3>2. \A x \in Elements(internal') : x.key = k /\ x.type = "tool" => x.call \in U /\ x.call # e.call
      BY <1>5, <1>11, <1>12, <2>0 DEF Expects
    <3> QED
      BY <2>3, <2>5, <3>1, <3>2 DEF Expects
  <2>7. TalkOK(k)'
    <3>1. TalkValue(sessions'[k].msgs, {}, tasks'[k])
      BY <2>3, <2>4, <2>5
    <3> QED
      BY <2>6, <3>1 DEF TalkOK
  <2>8. FreshOK(k)'
    <3> DEFINE q == sessions[k].msgs
               p == Append(q, m)
    <3>1. /\ q \in Seq(Message) /\ p \in Seq(Message) /\ Len(p) = Len(q) + 1
          /\ Elements(p) = Elements(q) \cup {m}
          /\ Len(q) \in Nat
      BY <1>10, <2>1, AppendDistinct
    <3>2. t.before <= Len(p)
      BY <1>10, <2>3, <3>1
    <3> HIDE DEF p
    <3>3. Elements(SubSeq(p, 1, t.before)) \subseteq Elements(p)
      BY <1>10, <3>1, <3>2, PrefixHolds
    <3>4. Elements(sessions'[k].msgs) \subseteq Elements(q) \cup {m}
      BY <2>4, <3>1, <3>3 DEF Cut, p
    <3>5. FreshOK(k)
      BY <1>4, <1>9
    <3> QED
      BY <1>5, <2>1, <2>5, <3>4, <3>5 DEF FreshOK
  <2>9. \A j \in Keys \ {k} : sessions'[j] = sessions[j]
    BY <2>0 DEF Stored
  <2> QED
    BY <1>8, <1>14, <1>15, <2>5, <2>7, <2>8, <2>9 DEF TalkInv
<1>19. CASE CallsTalk(k, t, e)
  <2> DEFINE C == {<<e.req, e.ask, i>> : i \in 1..e.res.n}
             m == Assistant(t.req, C)
  <2>0. /\ e.type = "llm" /\ e.res.n \in 1..MaxCalls /\ Calls(k, t, e)
        /\ Stored(k, Spoken(k, t, m), SpokenFile(k, t, m))
    BY <1>19 DEF CallsTalk
  <2>1. C \subseteq Call /\ e.req \in Request /\ e.res.n \in Nat \ {0} /\ e.ask \in Nat
    BY <1>4, <2>0, CallsTyped DEF Event
  <2>2. /\ IsFiniteSet(C) /\ Cardinality(C) = e.res.n /\ C # {}
        /\ \A c \in C : c[1] = e.req /\ c[2] = e.ask
    <3>1. PICK n : n = e.res.n
      OBVIOUS
    <3> DEFINE D == {<<e.req, e.ask, i>> : i \in 1..n}
               f == [i \in 1..n |-> <<e.req, e.ask, i>>]
    <3>2. f \in Bijection(1..n, D)
      BY DEF Bijection, Injection, Surjection, IsInjective
    <3>3. D = C /\ n \in Nat \ {0} /\ 1 \in 1..n
      BY <2>1, <3>1
    <3>4. <<e.req, e.ask, 1>> \in D /\ \A c \in D : c[1] = e.req /\ c[2] = e.ask
      BY <3>3
    <3> HIDE DEF C, D, f
    <3>5. IsFiniteSet(1..n) /\ Cardinality(1..n) = n
      BY <3>3, IntervalSize
    <3>6. IsFiniteSet(D) /\ Cardinality(D) = n
      BY <3>2, <3>5, FS_Bijection DEF ExistsBijection
    <3> QED
      BY <3>1, <3>3, <3>4, <3>6
  <2>3. /\ tools' = tools \cup [key : {k}, call : C] /\ UNCHANGED <<llm, asks>>
        /\ tasks' = [tasks EXCEPT ![k] = Called(@, e.res.n)]
    BY <2>0 DEF Calls
  <2> HIDE DEF C
  <2>4. m \in Message /\ m.role = "assistant" /\ m.calls = C
    BY <1>10, <2>1, MessagesTyped DEF Assistant
  <2> HIDE DEF m
  <2>5. /\ tasks'[k] = Called(tasks[k], e.res.n) /\ tasks'[k] # << >>
        /\ tasks'[k][1].state = "WAITING_TOOL" /\ tasks'[k][1].pending = e.res.n
        /\ tasks'[k][1].before = t.before
        /\ \A j \in Keys \ {k} : tasks'[j] = tasks[j]
    <3>1. tasks'[k] = Called(tasks[k], e.res.n) /\ \A j \in Keys \ {k} : tasks'[j] = tasks[j]
      BY <1>4, <1>13, <2>3
    <3>2. /\ SameTasks(tasks[k], tasks'[k]) /\ tasks'[k][1].state = "WAITING_TOOL"
          /\ tasks'[k][1].pending = e.res.n
      BY <1>6, <2>1, <3>1, CalledList
    <3>3. tasks'[k][1].before = t.before /\ Len(tasks'[k]) = 1 /\ tasks'[k] \in Seq(Task)
      BY <1>6, <1>7, <3>2 DEF SameTasks
    <3>4. tasks'[k] # << >>
      BY <3>3, OneTask
    <3> QED
      BY <3>1, <3>2, <3>3, <3>4
  <2>6. /\ sessions'[k].msgs = Append(sessions[k].msgs, m)
        /\ \A j \in Keys \ {k} : sessions'[j] = sessions[j]
    BY <1>4, <1>9, <1>10, <2>0, <2>4, SpokenIs DEF Stored
  <2>7. tasks[k][1].state = "WAITING_LLM" /\ e.req = tasks[k][1].req /\ LlmOnly(k, e.req)
    BY <1>6, <2>0 DEF Asking
  <2>8. e.ask = asks[e.req]
    BY <1>3, <1>4, <1>5, <1>9, <2>0 DEF FreshOK
  <2>9. /\ FreshOK(k)'
        /\ \A i \in 1..Len(sessions[k].msgs) : sessions[k].msgs[i].role = "assistant" =>
               sessions[k].msgs[i].calls \cap m.calls = {}
    <3>1. \A c \in m.calls : c[1] = tasks[k][1].req /\ c[2] = asks[c[1]]
      BY <2>2, <2>4, <2>7, <2>8
    <3>3. tasks[k][1].req \in Request
      BY <2>1, <2>7
    <3>2. FreshOK(k) /\ SessionOK(sessions[k])
      BY <1>4, <1>9
    <3> QED
      BY <1>1, <1>4, <1>5, <1>6, <2>3, <2>4, <2>5, <2>6, <2>7, <3>1, <3>2, <3>3, FreshCalls
  <2>10. TalkValue(sessions'[k].msgs, C, tasks'[k])
    <3>1. /\ m.calls # {} /\ IsFiniteSet(m.calls) /\ tasks'[k][1].pending = Cardinality(m.calls)
          /\ tasks'[k][1].before = tasks[k][1].before
      BY <1>7, <2>2, <2>4, <2>5
    <3>2. TalkValue(Append(sessions[k].msgs, m), m.calls, tasks'[k])
      BY <1>6, <1>10, <1>12, <2>4, <2>5, <2>7, <2>9, <3>1, TalkCalls
    <3> QED
      BY <2>4, <2>6, <3>2
  <2>11. (\A x \in tools : x.key # k) /\ \A x \in Elements(internal) : x.key = k => x.type # "tool"
    BY <2>7 DEF LlmOnly
  <2>12. \A x \in tools' : x \in tools \/ (x.key = k /\ x.call \in C)
    BY <2>3
  <2>13. Expects(k, C)'
    BY <1>5, <2>11, <2>12 DEF Expects
  <2>14. OnceInv'
    BY <1>5, <1>11, <2>11, <2>12 DEF OnceInv, TalkInv
  <2>15. TalkOK(k)'
    BY <2>10, <2>13 DEF TalkOK
  <2> QED
    BY <1>8, <1>15, <2>3, <2>5, <2>6, <2>9, <2>12, <2>14, <2>15 DEF TalkInv
<1>20. CASE Hears(k, t, e)
  <2> DEFINE m == ToolAnswer(t.req, e.call)
  <2>0. /\ e.type = "tool" /\ Stored(k, Spoken(k, t, m), SpokenFile(k, t, m))
        /\ (t.pending > 1 /\ Waits(k)) \/ (t.pending <= 1 /\ AsksAgain(k, t))
    BY <1>20 DEF Hears
  <2>1. m \in Message /\ m.role = "tool" /\ m.calls = {e.call} /\ e.call \in Call
    BY <1>4, <1>10, <2>0, MessagesTyped DEF ToolAnswer, Event
  <2> HIDE DEF m
  <2>2. tasks[k][1].state = "WAITING_TOOL" /\ e.call \in U /\ ToolsOnly(k, tasks[k][1].req)
    BY <1>3, <1>5, <1>6, <1>12, <2>0 DEF Running, Expects
  <2>3. /\ sessions'[k].msgs = Append(sessions[k].msgs, m)
        /\ \A j \in Keys \ {k} : sessions'[j] = sessions[j]
    BY <1>4, <1>9, <1>10, <2>0, <2>1, SpokenIs DEF Stored
  <2>4. /\ UNCHANGED tools /\ \A j \in Keys \ {k} : tasks'[j] = tasks[j]
        /\ \/ t.pending > 1 /\ tasks'[k] = CountedDown(tasks[k]) /\ UNCHANGED <<llm, asks>>
           \/ t.pending <= 1 /\ tasks'[k] = TurnBegun(CountedDown(tasks[k])) /\ TriggerLlm(k, t.req)
    BY <1>4, <1>13, <2>0 DEF Waits, AsksAgain
  <2>5. /\ tasks'[k] # << >> /\ tasks'[k][1].before = t.before /\ tasks'[k][1].req = t.req
        /\ \/ tasks'[k][1].state = "WAITING_TOOL" /\ tasks'[k][1].pending = t.pending - 1
              /\ UNCHANGED <<llm, asks>>
           \/ tasks'[k][1].state = "WAITING_LLM" /\ t.pending <= 1 /\ TriggerLlm(k, t.req)
    <3>1. /\ SameTasks(tasks[k], CountedDown(tasks[k]))
          /\ SameTasks(tasks[k], TurnBegun(CountedDown(tasks[k])))
          /\ TurnBegun(CountedDown(tasks[k]))[1].state = "WAITING_LLM"
      <4>1. 0 \in Int
        OBVIOUS
      <4> QED
        BY <1>1, <1>4, <1>6, <4>1, ListsAfterResult
    <3>2. /\ CountedDown(tasks[k])[1].state = "WAITING_TOOL"
          /\ CountedDown(tasks[k])[1].pending = t.pending - 1
      BY <1>6, <1>7, <2>2, CountedDownList
    <3>3. SameTasks(tasks[k], tasks'[k])
      BY <2>4, <3>1
    <3>4. /\ tasks'[k][1].before = t.before /\ tasks'[k][1].req = t.req /\ Len(tasks'[k]) = 1
          /\ tasks'[k] \in Seq(Task)
      BY <1>6, <1>7, <3>3 DEF SameTasks
    <3>5. tasks'[k] # << >>
      BY <3>4, OneTask
    <3> QED
      BY <2>4, <3>1, <3>2, <3>4, <3>5
  <2>6. TalkValue(sessions'[k].msgs, U \ {e.call}, tasks'[k])
    BY <1>6, <1>7, <1>10, <1>12, <2>1, <2>2, <2>3, <2>5, TalkHears
  <2>7. Expects(k, U \ {e.call})'
    <3>1. \A x \in tools : x.key = k => x.call \in U /\ x.call # e.call
      BY <1>3, <1>5, <1>12, <2>0 DEF Expects, TalkInv, OnceInv
    <3>2. \A x \in Elements(internal') : x.key = k /\ x.type = "tool" => x.call \in U /\ x.call # e.call
      BY <1>5, <1>11, <1>12, <2>0 DEF Expects
    <3> QED
      BY <2>4, <3>1, <3>2 DEF Expects
  <2>8. TalkOK(k)'
    BY <2>6, <2>7 DEF TalkOK
  <2>9. FreshOK(k)'
    <3>0. FreshOK(k) /\ SessionOK(sessions[k]) /\ SessionOK(sessions[k])'
      BY <1>4, <1>9
    <3>1. CASE tasks'[k][1].state = "WAITING_TOOL" /\ UNCHANGED <<llm, asks>>
      BY <1>4, <1>5, <2>1, <2>3, <3>0, <3>1, FreshAnswers
    <3>2. CASE tasks'[k][1].state = "WAITING_LLM" /\ TriggerLlm(k, t.req)
      <4>1. (\A c \in llm : c.key # k) /\ \A x \in Elements(internal') : x.key = k => x.type # "llm"
        BY <1>5, <2>2 DEF ToolsOnly
      <4>2. Elements(sessions'[k].msgs) = Elements(sessions[k].msgs) \cup {m}
        BY <1>10, <2>1, <2>3, AppendDistinct
      <4>3. \A x \in Elements(sessions'[k].msgs) : x.role = "assistant" =>
                 \A c \in x.calls : c[2] <= asks[c[1]]
        BY <2>1, <3>0, <4>2 DEF FreshOK
      <4> QED
        BY <1>1, <1>4, <1>10, <2>5, <3>0, <3>2, <4>1, <4>3, TriggerOwn
    <3> QED
      BY <2>5, <3>1, <3>2
  <2>10. UNCHANGED <<llm, asks>> \/ TriggerLlm(k, t.req)
    BY <2>5
  <2> QED
    BY <1>8, <1>14, <1>15, <2>3, <2>4, <2>8, <2>9, <2>10 DEF TalkInv
<1> QED
  BY <1>8, <1>17, <1>18, <1>19, <1>20

\* Every other step leaves transcripts and files alone.
LEMMA QuietSteps ==
    ASSUME [Next]_vars, ~TakeEvent, ~TakeMessage
    PROVE  /\ UNCHANGED <<sessions, file, tasks, asks>>
           /\ Callback \/ UNCHANGED <<internal, tools, llm>>
<1>1. CASE Callback
  BY <1>1 DEF Callback, LlmCallback, ToolCallback
<1>2. CASE ~Callback
  BY <1>2 DEF Next, Main, Worker, Arrive, RequestStop, AgentLoopStop, Start, StartFails, Loop,
              HandOver, CloseBus, Join, NoEvent, NoMessage, CheckRunning, Done, vars, handlerVars
<1> QED
  BY <1>1, <1>2

\* Every step keeps the conversations in order.
LEMMA TalkKept ==
    ASSUME "skill" \notin Kinds, FlowInv, FlowInv', HandlerTypes', PlacesInv, StoresInv, TalkInv,
           [Next]_vars
    PROVE  TalkInv' /\ StoresInv'
<1>1. HandlerTypes /\ SessionsInv'
  BY TypeParts DEF FlowInv
<1>2. CASE TakeMessage
  BY <1>1, <1>2, MessageTalkKept
<1>3. CASE TakeEvent
  BY <1>1, <1>3, EventTalkKept
<1>4. CASE ~TakeMessage /\ ~TakeEvent
  <2>1. /\ UNCHANGED <<sessions, file, tasks, asks>>
        /\ (Callback \/ UNCHANGED <<internal, tools, llm>>)
    BY <1>4, QuietSteps
  <2>2. StoresInv'
    BY <2>1 DEF StoresInv
  <2>3. CASE Callback
    BY <1>1, <2>1, <2>2, <2>3, CallbackTalk
  <2>4. CASE UNCHANGED <<internal, tools, llm>>
    <3>1. OnceInv'
      BY <2>4 DEF TalkInv, OnceInv
    <3>2. ASSUME NEW j \in Keys PROVE TalkOK(j)' /\ FreshOK(j)'
      <4>1. \A U : Expects(j, U) => Expects(j, U)'
        BY <2>4 DEF Expects
      <4>2. TalkOK(j)'
        BY <2>1, <4>1, TalkStays DEF TalkInv
      <4>3. FreshOK(j)
        BY DEF TalkInv
      <4>4. FreshOK(j)'
        BY <2>1, <2>4, <4>3 DEF FreshOK
      <4> QED
        BY <4>2, <4>4
    <3> QED
      BY <2>2, <3>1, <3>2 DEF TalkInv
  <2> QED
    BY <2>1, <2>3, <2>4
<1> QED
  BY <1>2, <1>3, <1>4

\* Nobody has spoken at the start.
LEMMA InitTalk == Init => TalkInv /\ StoresInv
<1> SUFFICES ASSUME Init PROVE TalkInv /\ StoresInv
  OBVIOUS
<1>1. /\ internal = << >> /\ llm = {} /\ tools = {} /\ tasks = [k \in Keys |-> << >>]
      /\ file = [k \in Keys |-> NoFile] /\ sessions = [k \in Keys |-> LoadSession(NoFile)]
  BY DEF Init
<1>2. LoadSession(NoFile) = NewSession /\ NewSession.msgs = << >>
  BY DEF LoadSession, NoFile, NewSession
<1>3. StoresInv
  BY <1>1 DEF StoresInv
<1>4. Elements(internal) = {} /\ Elements(<< >>) = {} /\ Len(<< >>) = 0
  BY <1>1, EmptyHoldsNothing
<1>5. Apart(internal)
  <2>1. 1..0 = {}
    OBVIOUS
  <2> QED
    BY <1>1, <1>4, <2>1 DEF Apart
<1>6. OnceInv
  BY <1>1, <1>5 DEF OnceInv
<1>7. ASSUME NEW k \in Keys PROVE TalkOK(k) /\ FreshOK(k)
  <2>1. sessions[k].msgs = << >> /\ tasks[k] = << >>
    BY <1>1, <1>2
  <2>2. TalkValue(sessions[k].msgs, {}, tasks[k])
    BY <2>1, EmptyTranscript DEF TalkValue
  <2>3. Expects(k, {})
    BY <1>1, <1>4 DEF Expects
  <2>4. TalkOK(k)
    BY <2>2, <2>3 DEF TalkOK
  <2>5. FreshOK(k)
    BY <1>1, <1>4, <2>1 DEF FreshOK
  <2> QED
    BY <2>4, <2>5
<1> QED
  BY <1>3, <1>6, <1>7 DEF TalkInv

\* What is sent to the model is in order.
LEMMA TalkIsWellFormed ==
    ASSUME FlowInv, TalkInv
    PROVE  AskedWellFormed
<1>1. HandlerTypes /\ FiniteInv /\ \A k \in Keys : PhaseOK(k) /\ SessionOK(sessions[k])
  BY TypeParts DEF FlowInv, SessionsInv
<1>2. SUFFICES ASSUME NEW c \in llm PROVE WellFormed(Window(sessions[c.key].msgs, MemoryWindow))
  BY DEF AskedWellFormed
<1>3. PICK k : k = c.key
  OBVIOUS
<1>4. k \in Keys
  BY <1>1, <1>3 DEF HandlerTypes
<1>5. tasks[k] # << >> /\ tasks[k][1].state = "WAITING_LLM"
  <2>1. ResultsFindTheirTask
    BY <1>1, PhasesFind
  <2> QED
    BY <1>3, <1>4, <2>1 DEF ResultsFindTheirTask
<1>6. Transcript(sessions[k].msgs, {}, {})
  BY <1>4, <1>5 DEF TalkInv, TalkOK, TalkValue
<1>7. sessions[k].msgs \in Seq(Message)
  BY <1>1, <1>4 DEF SessionOK, SessionRecord
<1>8. WellFormed(Window(sessions[k].msgs, MemoryWindow))
  BY <1>6, <1>7, BoundsAssumption, WindowIsWellFormed DEF WellFormed
<1> QED
  BY <1>3, <1>8

\* The invariant of the loop without skill commands.
LoopInv == FlowInv /\ PlacesInv /\ StoresInv /\ TalkInv

\* It holds at the start, and every step keeps it.
LEMMA LoopInvInit == Init => LoopInv
  BY InitTypes, InitPhases, InitPlaces, InitTalk DEF FlowInv, LoopInv

\* Every step keeps all of it.
LEMMA LoopInvKept ==
    ASSUME "skill" \notin Kinds, LoopInv, [Next]_vars
    PROVE  LoopInv'
<1>1. FlowInv' /\ HandlerTypes'
  BY FlowKept DEF LoopInv
<1>2. PlacesInv'
  BY <1>1, PlacesKept DEF FlowInv, LoopInv
<1>3. TalkInv' /\ StoresInv'
  BY <1>1, TalkKept DEF LoopInv
<1> QED
  BY <1>1, <1>2, <1>3 DEF LoopInv

\* Without skill commands, for any window of the context and whatever the order in which
\* tools answer: what the model is sent can be sent.  Every call in it is answered by the
\* messages that follow it at once, and there is no answer without its call.
THEOREM ModelIsAskedInOrder == ASSUME "skill" \notin Kinds PROVE Spec => []AskedWellFormed
<1>1. LoopInv /\ [Next]_vars => LoopInv'
  BY LoopInvKept
<1>2. LoopInv => AskedWellFormed
  BY TalkIsWellFormed DEF LoopInv
<1> QED
  BY <1>1, <1>2, LoopInvInit, PTL DEF Spec

-----------------------------------------------------------------------------
(* What jobs leave behind.                                                 *)

\* The messages of jobs J are the ones that the task of a job has added, none of them is in
\* the file, and the file holds what the session counts as saved.
TidyValue(s, f, L, J, N) ==
    /\ Follows(s, f) /\ (~f.exists => f.lines = << >>)
    /\ \A i \in 1..Len(s.msgs) : s.msgs[i].req \in N
    /\ L = << >> \/ ~L[1].norecord => \A i \in 1..Len(s.msgs) : s.msgs[i].req \notin J
    /\ L # << >> => L[1].before <= Len(s.msgs) /\ (L[1].norecord <=> L[1].req \in J) /\ L[1].req \in N
    /\ L # << >> /\ L[1].norecord =>
           /\ s.saved <= L[1].before
           /\ \A i \in 1..Len(s.msgs) : s.msgs[i].req \in J <=> i > L[1].before

\* Every message that is not of a job stays in its place.
Stays(q, p, J) ==
    \A i \in 1..Len(q) : q[i].req \notin J => i <= Len(p) /\ SubSeq(p, 1, i) = SubSeq(q, 1, i)

\* A message is added.
LEMMA AddedStays ==
    ASSUME NEW q \in Seq(Message), NEW m \in Message, NEW J
    PROVE  Stays(q, Append(q, m), J) /\ Stays(q, q, J)
<1>1. Len(Append(q, m)) = Len(q) + 1 /\ Len(q) \in Nat
  OBVIOUS
<1>2. \A i \in 1..Len(q) : i \in Nat /\ i <= Len(q) /\ i <= Len(Append(q, m))
  BY <1>1
<1>3. \A i \in 1..Len(q) : SubSeq(Append(q, m), 1, i) = SubSeq(q, 1, i)
  BY <1>2, PrefixStays
<1> QED
  BY <1>2, <1>3 DEF Stays

\* What stays twice stays.
LEMMA StaysTwice ==
    ASSUME NEW q \in Seq(Message), NEW m \in Message, NEW o, NEW J, Stays(Append(q, m), o, J)
    PROVE  Stays(q, o, J)
<1> DEFINE p == Append(q, m)
<1>1. Len(p) = Len(q) + 1 /\ Len(q) \in Nat /\ \A i \in 1..Len(q) : p[i] = q[i]
  OBVIOUS
<1>2. \A i \in 1..Len(q) : i \in Nat /\ i <= Len(q) /\ i \in 1..Len(p)
  BY <1>1
<1>3. \A i \in 1..Len(q) : SubSeq(p, 1, i) = SubSeq(q, 1, i)
  BY <1>2, PrefixStays
<1> HIDE DEF p
<1>4. Stays(p, o, J)
  BY DEF p
<1> QED
  BY <1>1, <1>2, <1>3, <1>4 DEF Stays

\* A beginning of a beginning.
LEMMA PrefixOfPrefix ==
    ASSUME NEW q \in Seq(Message), NEW b \in Nat, b <= Len(q), NEW i \in Nat, i <= b
    PROVE  SubSeq(SubSeq(q, 1, b), 1, i) = SubSeq(q, 1, i)
<1> DEFINE p == SubSeq(q, 1, b)
<1>1. Len(q) \in Nat /\ p \in Seq(Message) /\ Len(p) = b /\ \A n \in 1..b : p[n] = q[n]
  BY PrefixHolds
<1> HIDE DEF p
<1>2. i <= Len(q) /\ i <= Len(p) /\ \A n \in 1..i : n \in 1..b
  BY <1>1
<1>3. /\ SubSeq(p, 1, i) \in Seq(Message) /\ Len(SubSeq(p, 1, i)) = i
      /\ \A n \in 1..i : SubSeq(p, 1, i)[n] = p[n]
  BY <1>1, <1>2, PrefixHolds
<1>4. /\ SubSeq(q, 1, i) \in Seq(Message) /\ Len(SubSeq(q, 1, i)) = i
      /\ \A n \in 1..i : SubSeq(q, 1, i)[n] = q[n]
  BY <1>1, <1>2, PrefixHolds
<1>5. SubSeq(p, 1, i) = SubSeq(q, 1, i)
  BY <1>1, <1>2, <1>3, <1>4, SeqEqual
<1> QED
  BY <1>5 DEF p

\* A save writes the whole transcript behind what the file held.
LEMMA SaveWrites ==
    ASSUME NEW s, NEW f, Follows(s, f), ~f.exists => f.lines = << >>
    PROVE  /\ FileAfterSave(s, f).exists /\ FileAfterSave(s, f).lines = s.msgs
           /\ IsPrefixOf(f.lines, FileAfterSave(s, f).lines) /\ IsPrefixOf(f.lines, f.lines)
<1> DEFINE g == FileAfterSave(s, f)
           q == s.msgs
<1>1. SessionOK(s) /\ f \in FileRecord /\ q \in Seq(Message) /\ Len(q) \in Nat
      /\ s.saved \in Nat /\ s.saved <= Len(q) /\ f.lines \in Seq(Message)
  BY DEF Follows, SessionOK, SessionRecord, FileRecord
<1>2. g.exists
  BY <1>1 DEF FileAfterSave, NeedsFullSave, FileRecord
<1>3. g.lines = q
  <2>1. Follows(SessionAfterSave(s, f), g)
    BY FollowsSave
  <2>2. g.lines = SubSeq(q, 1, Len(q))
    BY <1>1, <1>2, <2>1, MarksOnly DEF Follows
  <2> QED
    BY <1>1, <2>2, SubSeqFull
<1> HIDE DEF g
<1>4. ASSUME f.exists PROVE IsPrefixOf(f.lines, q)
  <2>1. f.lines = SubSeq(q, 1, s.saved)
    BY <1>4 DEF Follows
  <2>2. Len(f.lines) = s.saved
    BY <1>1, <2>1, PrefixHolds
  <2> QED
    BY <1>1, <2>1, <2>2 DEF IsPrefixOf
<1>5. ASSUME ~f.exists PROVE IsPrefixOf(f.lines, q)
  <2>1. f.lines = << >> /\ Len(f.lines) = 0
    BY <1>5
  <2>2. SubSeq(q, 1, 0) \in Seq(Message) /\ Len(SubSeq(q, 1, 0)) = 0
    <3>1. 0 \in Nat /\ 0 <= Len(q)
      BY <1>1
    <3> QED
      BY <1>1, <3>1, PrefixHolds
  <2>3. SubSeq(q, 1, 0) = << >>
    BY <2>2, EmptySeq
  <2> QED
    BY <1>1, <2>1, <2>3 DEF IsPrefixOf
<1>6. IsPrefixOf(f.lines, f.lines)
  <2>1. SubSeq(f.lines, 1, Len(f.lines)) = f.lines /\ Len(f.lines) \in Nat
    BY <1>1, SubSeqFull
  <2> QED
    BY <2>1 DEF IsPrefixOf
<1> QED
  BY <1>2, <1>3, <1>4, <1>5, <1>6 DEF g

\* Task M[1], which begins or goes on, adds a message.
LEMMA TidyAdded ==
    ASSUME NEW s, NEW f, NEW L, NEW J, NEW N, TidyValue(s, f, L, J, N),
           NEW M, M # << >>, M[1] \in Task, M[1].req \in N, M[1].norecord <=> M[1].req \in J,
           L = << >> => M[1].before = Len(s.msgs),
           L # << >> => M[1].before = L[1].before /\ M[1].norecord = L[1].norecord,
           NEW m \in Message, m.req = M[1].req,
           NEW x, NEW g, Follows(x, g), ~g.exists => g.lines = << >>, x.msgs = Append(s.msgs, m),
           M[1].norecord => x.saved <= M[1].before
    PROVE  TidyValue(x, g, M, J, N) /\ Stays(s.msgs, x.msgs, J)
<1>1. PICK q : q = s.msgs
  OBVIOUS
<1>2. PICK p : p = x.msgs
  OBVIOUS
<1>3. PICK b : b = M[1].before
  OBVIOUS
<1>4. q \in Seq(Message) /\ Len(q) \in Nat /\ b \in Nat
  BY <1>1, <1>3 DEF TidyValue, Follows, SessionOK, SessionRecord, Task
<1>5. /\ p = Append(q, m) /\ Len(p) = Len(q) + 1 /\ p[Len(q) + 1] = m
      /\ \A i \in 1..Len(q) : p[i] = q[i]
  <2>1. p = Append(q, m)
    BY <1>1, <1>2
  <2> QED
    BY <1>4, <2>1
<1>6. \A i \in 1..Len(p) : i \in 1..Len(q) \/ i = Len(q) + 1
  BY <1>4, <1>5
<1>7. b <= Len(q) /\ b <= Len(p)
  <2>1. b <= Len(q)
    BY <1>1, <1>3, <1>4 DEF TidyValue
  <2> QED
    BY <1>4, <1>5, <2>1
<1>8. \A i \in 1..Len(q) : q[i].req \in N
  BY <1>1 DEF TidyValue
<1>9. \A i \in 1..Len(p) : p[i].req \in N
  BY <1>5, <1>6, <1>8
<1>10. ASSUME ~M[1].norecord PROVE \A i \in 1..Len(p) : p[i].req \notin J
  <2>1. \A i \in 1..Len(q) : q[i].req \notin J
    BY <1>1, <1>10 DEF TidyValue
  <2> QED
    BY <1>5, <1>6, <1>10, <2>1
<1>11. ASSUME M[1].norecord PROVE \A i \in 1..Len(p) : p[i].req \in J <=> i > b
  <2>1. \A i \in 1..Len(q) : q[i].req \in J <=> i > b
    <3>1. CASE L = << >>
      <4>1. \A i \in 1..Len(q) : q[i].req \notin J
        BY <1>1, <3>1 DEF TidyValue
      <4>2. b = Len(q)
        BY <1>1, <1>3, <3>1
      <4>3. \A i \in 1..Len(q) : ~(i > b)
        BY <1>4, <4>2
      <4> QED
        BY <4>1, <4>3
    <3>2. CASE L # << >>
      BY <1>1, <1>3, <1>11, <3>2 DEF TidyValue
    <3> QED
      BY <3>1, <3>2
  <2>2. Len(q) + 1 > b /\ p[Len(q) + 1].req \in J
    BY <1>4, <1>5, <1>7, <1>11
  <2>3. \A i \in 1..Len(q) : p[i].req \in J <=> i > b
    BY <1>5, <2>1
  <2> QED
    BY <1>6, <2>2, <2>3
<1>12. TidyValue(x, g, M, J, N)
  BY <1>2, <1>3, <1>7, <1>9, <1>10, <1>11 DEF TidyValue
<1>13. Stays(q, Append(q, m), J)
  BY <1>4, AddedStays
<1> QED
  BY <1>1, <1>2, <1>5, <1>12, <1>13

\* A task that is over takes its messages with it if it is a job's.
LEMMA TidyDropped ==
    ASSUME NEW s, NEW f, NEW L, NEW J, NEW N, TidyValue(s, f, L, J, N), L # << >>,
           NEW t \in Task, t = L[1]
    PROVE  TidyValue(Dropped(t, s), f, << >>, J, N) /\ Stays(s.msgs, Dropped(t, s).msgs, J)
<1>1. /\ SessionOK(s) /\ Follows(s, f) /\ s.msgs \in Seq(Message) /\ s.saved \in Nat
      /\ Len(s.msgs) \in Nat
      /\ t.before \in Nat /\ t.before <= Len(s.msgs) /\ f \in FileRecord
  BY DEF TidyValue, Follows, SessionOK, SessionRecord, Task
<1>2. CASE ~t.norecord
  <2>1. Dropped(t, s) = s
    BY <1>2 DEF Dropped
  <2>2. TidyValue(s, f, << >>, J, N)
    BY <1>2 DEF TidyValue
  <2>3. User(t.req) \in Message
    BY MessagesTyped DEF Task
  <2>4. Stays(s.msgs, s.msgs, J)
    BY <1>1, <2>3, AddedStays
  <2> QED
    BY <2>1, <2>2, <2>4
<1>3. CASE t.norecord
  <2>1. PICK b : b = t.before
    OBVIOUS
  <2>2. PICK q : q = s.msgs
    OBVIOUS
  <2>3. PICK d : d = Dropped(t, s)
    OBVIOUS
  <2>4. q \in Seq(Message) /\ b \in Nat /\ b <= Len(q) /\ Len(q) \in Nat
    BY <1>1, <2>1, <2>2
  <2>5. /\ SessionOK(d) /\ d.msgs = SubSeq(q, 1, b) /\ d.saved = Clamp(s.saved, b)
    BY <1>1, <1>3, <2>1, <2>2, <2>3, DroppedIs DEF Cut
  <2>6. s.saved <= b /\ \A i \in 1..Len(q) : q[i].req \in J <=> i > b
    BY <1>3, <2>1, <2>2 DEF TidyValue
  <2>7. d.saved = s.saved
    BY <1>1, <2>4, <2>5, <2>6 DEF Clamp
  <2>8. SubSeq(d.msgs, 1, d.saved) = SubSeq(q, 1, s.saved)
    BY <1>1, <2>4, <2>5, <2>6, <2>7, PrefixOfPrefix
  <2>9. Follows(d, f)
    BY <1>1, <2>2, <2>5, <2>8 DEF Follows
  <2>10. Len(d.msgs) = b /\ \A i \in 1..b : d.msgs[i] = q[i]
    BY <2>4, <2>5, PrefixHolds
  <2>11. \A i \in 1..b : i \in 1..Len(q) /\ ~(i > b)
    BY <2>4
  <2>12. \A i \in 1..Len(q) : q[i].req \in N
    BY <2>2 DEF TidyValue
  <2>13. \A i \in 1..Len(d.msgs) : d.msgs[i].req \in N /\ d.msgs[i].req \notin J
    BY <2>6, <2>10, <2>11, <2>12
  <2>14. ~f.exists => f.lines = << >>
    BY DEF TidyValue
  <2>15. TidyValue(d, f, << >>, J, N)
    BY <2>9, <2>13, <2>14 DEF TidyValue
  <2>16. ASSUME NEW i \in 1..Len(q), q[i].req \notin J
         PROVE  i <= Len(d.msgs) /\ SubSeq(d.msgs, 1, i) = SubSeq(q, 1, i)
    <3>1. i \in Nat /\ i <= b
      BY <2>4, <2>6, <2>16
    <3> QED
      BY <2>4, <2>5, <2>10, <3>1, PrefixOfPrefix
  <2>17. Stays(q, d.msgs, J)
    BY <2>16 DEF Stays
  <2> QED
    BY <2>2, <2>3, <2>15, <2>17
<1> QED
  BY <1>2, <1>3

\* A task adds a message, which is saved unless the task is a job's.
LEMMA TidySpoken ==
    ASSUME NEW s, NEW f, NEW L, NEW J, NEW N, TidyValue(s, f, L, J, N), L # << >>,
           NEW t \in Task, t = L[1], NEW M, M # << >>, M[1] \in Task,
           M[1].req = t.req, M[1].norecord = t.norecord, M[1].before = t.before,
           NEW m \in Message, m.req = t.req
    PROVE  LET x == Kept(t, AddMessage(s, m), f)
               g == KeptFile(t, AddMessage(s, m), f)
           IN  TidyValue(x, g, M, J, N) /\ Stays(s.msgs, x.msgs, J) /\ IsPrefixOf(f.lines, g.lines)
               /\ x.msgs = Append(s.msgs, m)
<1> DEFINE a == AddMessage(s, m)
<1>1. SessionOK(s) /\ Follows(s, f) /\ (~f.exists => f.lines = << >>)
  BY DEF TidyValue, Follows
<1>2. SessionOK(a) /\ a.msgs = Append(s.msgs, m) /\ a.saved = s.saved
  BY <1>1, AddMessageOK DEF AddMessage, SessionOK, SessionRecord
<1>3. Follows(a, f)
  BY <1>1, FollowsAdd
<1> HIDE DEF a
<1>4. PICK x : x = Kept(t, a, f)
  OBVIOUS
<1>5. PICK g : g = KeptFile(t, a, f)
  OBVIOUS
<1>6. /\ FileAfterSave(a, f).exists /\ IsPrefixOf(f.lines, FileAfterSave(a, f).lines)
      /\ IsPrefixOf(f.lines, f.lines)
  BY <1>1, <1>3, SaveWrites
<1>7. Follows(SessionAfterSave(a, f), FileAfterSave(a, f)) /\ SessionAfterSave(a, f).msgs = a.msgs
  BY <1>2, <1>3, FollowsSave, MarksOnly
<1>8. Follows(x, g) /\ (~g.exists => g.lines = << >>) /\ x.msgs = Append(s.msgs, m)
      /\ IsPrefixOf(f.lines, g.lines) /\ (t.norecord => x.saved = s.saved)
  <2>1. CASE t.norecord
    BY <1>1, <1>2, <1>3, <1>4, <1>5, <1>6, <2>1 DEF Kept, KeptFile
  <2>2. CASE ~t.norecord
    BY <1>2, <1>4, <1>5, <1>6, <1>7, <2>2 DEF Kept, KeptFile
  <2> QED
    BY <2>1, <2>2
<1>9. /\ M[1].req \in N /\ (M[1].norecord <=> M[1].req \in J)
      /\ M[1].norecord => x.saved <= M[1].before
  BY <1>8 DEF TidyValue
<1>10. TidyValue(x, g, M, J, N) /\ Stays(s.msgs, x.msgs, J)
  BY <1>8, <1>9, TidyAdded
<1> QED
  BY <1>4, <1>5, <1>8, <1>10 DEF a

\* A task adds its last message and is over.
LEMMA TidySpokenLast ==
    ASSUME NEW s, NEW f, NEW L, NEW J, NEW N, TidyValue(s, f, L, J, N), L # << >>,
           NEW t \in Task, t = L[1], NEW m \in Message, m.req = t.req
    PROVE  LET x == Dropped(t, Kept(t, AddMessage(s, m), f))
               g == KeptFile(t, AddMessage(s, m), f)
           IN  TidyValue(x, g, << >>, J, N) /\ Stays(s.msgs, x.msgs, J)
               /\ IsPrefixOf(f.lines, g.lines)
<1>1. PICK x : x = Kept(t, AddMessage(s, m), f)
  OBVIOUS
<1>2. PICK g : g = KeptFile(t, AddMessage(s, m), f)
  OBVIOUS
<1>3. TidyValue(x, g, L, J, N) /\ IsPrefixOf(f.lines, g.lines) /\ x.msgs = Append(s.msgs, m)
  BY <1>1, <1>2, TidySpoken
<1>4. TidyValue(Dropped(t, x), g, << >>, J, N) /\ Stays(x.msgs, Dropped(t, x).msgs, J)
  BY <1>3, TidyDropped
<1>5. s.msgs \in Seq(Message)
  BY DEF TidyValue, Follows, SessionOK, SessionRecord
<1>6. Stays(Append(s.msgs, m), Dropped(t, x).msgs, J)
  BY <1>3, <1>4
<1>7. Stays(s.msgs, Dropped(t, x).msgs, J)
  BY <1>5, <1>6, StaysTwice
<1> QED
  BY <1>1, <1>2, <1>3, <1>4, <1>7

\* A request is taken up.  Its message is only saved by a consolidation, and not if it is a
\* job's.
LEMMA TidyBegins ==
    ASSUME NEW s, NEW f, NEW J, NEW N, TidyValue(s, f, << >>, J, N),
           NEW r \in N, NEW M, M # << >>, M[1] \in Task, M[1].req = r, M[1].norecord = (r \in J),
           M[1].before = Len(s.msgs), NEW m \in Message, m.req = r
    PROVE  LET c == Consolidated(AddMessage(s, m))
               x == Normalised(AddMessage(s, m))
           IN  /\ TidyValue(x, f, M, J, N) /\ Stays(s.msgs, x.msgs, J)
               /\ IsPrefixOf(f.lines, f.lines)
               /\ r \notin J => /\ TidyValue(SessionAfterSave(c, f), FileAfterSave(c, f), M, J, N)
                                /\ Stays(s.msgs, SessionAfterSave(c, f).msgs, J)
                                /\ IsPrefixOf(f.lines, FileAfterSave(c, f).lines)
<1> DEFINE a == AddMessage(s, m)
<1>1. SessionOK(s) /\ Follows(s, f) /\ (~f.exists => f.lines = << >>)
  BY DEF TidyValue, Follows
<1>2. SessionOK(a) /\ a.msgs = Append(s.msgs, m) /\ a.saved = s.saved
  BY <1>1, AddMessageOK DEF AddMessage, SessionOK, SessionRecord
<1>3. Follows(a, f)
  BY <1>1, FollowsAdd
<1> HIDE DEF a
<1>4. PICK c : c = Consolidated(a)
  OBVIOUS
<1>5. PICK x : x = Normalised(a)
  OBVIOUS
<1>6. Follows(c, f) /\ Follows(x, f) /\ SessionOK(c)
  BY <1>3, <1>4, <1>5, FollowsMarks DEF Follows
<1>7. /\ c.msgs = Append(s.msgs, m) /\ x.msgs = Append(s.msgs, m) /\ x.saved = s.saved
      /\ SessionAfterSave(c, f).msgs = Append(s.msgs, m)
  BY <1>2, <1>4, <1>5, <1>6, MarksOnly
<1>8. /\ FileAfterSave(c, f).exists /\ IsPrefixOf(f.lines, FileAfterSave(c, f).lines)
      /\ IsPrefixOf(f.lines, f.lines)
  BY <1>1, <1>6, SaveWrites
<1>9. Follows(SessionAfterSave(c, f), FileAfterSave(c, f))
  BY <1>6, FollowsSave
<1>10. M[1].req \in N /\ (M[1].norecord <=> M[1].req \in J) /\ m.req = M[1].req
  OBVIOUS
<1>11. x.saved <= M[1].before
  BY <1>1, <1>7 DEF SessionOK
<1>12. TidyValue(x, f, M, J, N) /\ Stays(s.msgs, x.msgs, J)
  BY <1>1, <1>6, <1>7, <1>10, <1>11, TidyAdded
<1>13. ASSUME r \notin J
       PROVE  /\ TidyValue(SessionAfterSave(c, f), FileAfterSave(c, f), M, J, N)
              /\ Stays(s.msgs, SessionAfterSave(c, f).msgs, J)
  <2>1. ~M[1].norecord
    BY <1>13
  <2>2. PICK y : y = SessionAfterSave(c, f)
    OBVIOUS
  <2>3. PICK g : g = FileAfterSave(c, f)
    OBVIOUS
  <2>4. Follows(y, g) /\ g.exists /\ y.msgs = Append(s.msgs, m)
    BY <1>7, <1>8, <1>9, <2>2, <2>3
  <2>5. TidyValue(y, g, M, J, N) /\ Stays(s.msgs, y.msgs, J)
    BY <1>10, <2>1, <2>4, TidyAdded
  <2> QED
    BY <2>2, <2>3, <2>5
<1> QED
  BY <1>4, <1>5, <1>8, <1>12, <1>13 DEF a

\* Requests that arrive change nothing.
LEMMA TidyArrivals ==
    ASSUME NEW s, NEW f, NEW L, NEW J, NEW N, TidyValue(s, f, L, J, N), NEW K, NEW P,
           N \subseteq P, \A r \in N : r \in J <=> r \in K
    PROVE  TidyValue(s, f, L, K, P)
<1>1. Follows(s, f) /\ (~f.exists => f.lines = << >>)
  BY DEF TidyValue
<1>2. PICK q : q = s.msgs
  OBVIOUS
<1>3. \A i \in 1..Len(q) : q[i].req \in N
  BY <1>2 DEF TidyValue
<1>4. \A i \in 1..Len(q) : q[i].req \in P /\ (q[i].req \in J <=> q[i].req \in K)
  BY <1>3
<1>5. L = << >> \/ ~L[1].norecord => \A i \in 1..Len(q) : q[i].req \notin K
  BY <1>2, <1>4 DEF TidyValue
<1>6. L # << >> => /\ L[1].before <= Len(q) /\ (L[1].norecord <=> L[1].req \in K) /\ L[1].req \in P
  BY <1>2 DEF TidyValue
<1>7. L # << >> /\ L[1].norecord =>
          /\ s.saved <= L[1].before
          /\ \A i \in 1..Len(q) : q[i].req \in K <=> i > L[1].before
  BY <1>2, <1>4 DEF TidyValue
<1> QED
  BY <1>1, <1>2, <1>4, <1>5, <1>6, <1>7 DEF TidyValue

\* A change to the tasks that leaves their requests.
LEMMA SameFirst ==
    ASSUME NEW L \in Seq(Task), L # << >>, NEW M, SameTasks(L, M)
    PROVE  /\ M # << >> /\ M[1] \in Task /\ M[1].req = L[1].req
           /\ M[1].norecord = L[1].norecord /\ M[1].before = L[1].before
<1>1. M \in Seq(Task) /\ Len(M) = Len(L)
  BY DEF SameTasks
<1>2. M # << >>
  BY <1>1, EmptySeq
<1>3. 1 \in 1..Len(L) /\ M[1] \in Task
  BY <1>1, <1>2, FirstTask
<1> QED
  BY <1>2, <1>3 DEF SameTasks

\* It leaves what is kept of jobs.
LEMMA TidyTasks ==
    ASSUME NEW s, NEW f, NEW L \in Seq(Task), NEW J, NEW N, TidyValue(s, f, L, J, N),
           NEW M, SameTasks(L, M)
    PROVE  TidyValue(s, f, M, J, N)
<1>1. M \in Seq(Task) /\ Len(M) = Len(L)
  BY DEF SameTasks
<1>2. L = << >> <=> M = << >>
  BY <1>1, EmptySeq
<1>3. L # << >> => /\ M[1].req = L[1].req /\ M[1].norecord = L[1].norecord
                   /\ M[1].before = L[1].before
  BY SameFirst
<1> QED
  BY <1>2, <1>3 DEF TidyValue

\* What is kept of jobs in every session, and what a step leaves of transcripts and files.
Arrived == 1..Len(requests)
TidyInv == \A k \in Keys : TidyValue(sessions[k], file[k], tasks[k], JobRequests, Arrived)
RecordsKept ==
    \A k \in Keys : /\ Stays(sessions[k].msgs, sessions'[k].msgs, JobRequests)
                    /\ IsPrefixOf(file[k].lines, file'[k].lines)

\* A session that does not change.
LEMMA LeftAlone ==
    ASSUME NEW s, NEW f, NEW L, NEW J, NEW N, TidyValue(s, f, L, J, N)
    PROVE  Stays(s.msgs, s.msgs, J) /\ IsPrefixOf(f.lines, f.lines)
<1>1. s.msgs \in Seq(Message) /\ Follows(s, f) /\ (~f.exists => f.lines = << >>)
  BY DEF TidyValue, Follows, SessionOK, SessionRecord
<1>2. \A i \in 1..Len(s.msgs) : i <= Len(s.msgs)
  BY <1>1
<1> QED
  BY <1>1, <1>2, SaveWrites DEF Stays

\* Message and result of other sessions.
LEMMA TidyElsewhere ==
    ASSUME TidyInv, NEW k \in Keys, UNCHANGED requests,
           \A j \in Keys \ {k} : tasks'[j] = tasks[j] /\ sessions'[j] = sessions[j] /\ file'[j] = file[j],
           TidyValue(sessions'[k], file'[k], tasks'[k], JobRequests, Arrived),
           Stays(sessions[k].msgs, sessions'[k].msgs, JobRequests),
           IsPrefixOf(file[k].lines, file'[k].lines)
    PROVE  TidyInv' /\ RecordsKept
<1>1. JobRequests' = JobRequests /\ Arrived' = Arrived
  BY DEF JobRequests, Arrived
<1>2. ASSUME NEW j \in Keys
      PROVE  /\ TidyValue(sessions'[j], file'[j], tasks'[j], JobRequests, Arrived)
             /\ Stays(sessions[j].msgs, sessions'[j].msgs, JobRequests)
             /\ IsPrefixOf(file[j].lines, file'[j].lines)
  <2>1. CASE j = k
    BY <2>1
  <2>2. CASE j # k
    <3>1. TidyValue(sessions[j], file[j], tasks[j], JobRequests, Arrived)
      BY DEF TidyInv
    <3>2. /\ Stays(sessions[j].msgs, sessions[j].msgs, JobRequests)
          /\ IsPrefixOf(file[j].lines, file[j].lines)
      BY <3>1, LeftAlone
    <3> QED
      BY <2>2, <3>1, <3>2
  <2> QED
    BY <2>1, <2>2
<1>3. \A j \in Keys : TidyValue(sessions'[j], file'[j], tasks'[j], JobRequests', Arrived')
  BY <1>1, <1>2
<1>4. TidyInv'
  BY <1>3 DEF TidyInv
<1> QED
  BY <1>2, <1>4 DEF RecordsKept

\* A message is taken up.
LEMMA MessageTidy ==
    ASSUME "skill" \notin Kinds, FlowInv, StoresInv, TidyInv, JobsFit, TakeMessage
    PROVE  TidyInv' /\ RecordsKept
<1>1. HandlerTypes /\ TypeOK /\ SessionsInv /\ \A j \in Keys : PhaseOK(j) /\ SessionOK(sessions[j])
  BY TypeParts DEF FlowInv, SessionsInv
<1>2. PICK r : r = Head(inbox)
  OBVIOUS
<1>3. PICK k : k = requests[r].key
  OBVIOUS
<1>4. r \in Request /\ r \in Arrived /\ k \in Keys /\ UNCHANGED requests
  BY <1>1, <1>2, <1>3, MessageSteps DEF Arrived
<1>5. \/ BeginsTalk(k, r)
      \/ UNCHANGED <<sessions, file, llm, asks>> /\ tasks' \in {tasks, TasksCancelled(k)}
  BY <1>1, <1>2, <1>3, MessageTalk
<1>6. TidyValue(sessions[k], file[k], tasks[k], JobRequests, Arrived)
  BY <1>4 DEF TidyInv
<1>7. CASE BeginsTalk(k, r)
  <2>1. tasks[k] = << >>
    BY <1>1, <1>4, <1>7, FreeIsIdle DEF BeginsTalk
  <2>2. /\ tasks'[k] # << >> /\ tasks'[k] \in Seq(Task)
        /\ tasks'[k][1].req = r /\ tasks'[k][1].norecord = (requests[r].kind = "job")
        /\ tasks'[k][1].before = Len(sessions[k].msgs)
        /\ \A j \in Keys \ {k} : tasks'[j] = tasks[j] /\ sessions'[j] = sessions[j] /\ file'[j] = file[j]
    BY <1>1, <1>4, <1>7, <2>1, BeginsLists
  <2>3. tasks'[k][1] \in Task
    BY <2>2, FirstTask
  <2>4. (r \in JobRequests) = (requests[r].kind = "job")
    BY <1>4 DEF JobRequests, Arrived
  <2>5. tasks'[k][1].norecord = (r \in JobRequests)
    BY <2>2, <2>4
  <2>6. User(r) \in Message /\ User(r).req = r
    BY <1>4, MessagesTyped DEF User
  <2> DEFINE c == Consolidated(AddMessage(sessions[k], User(r)))
             x == Normalised(AddMessage(sessions[k], User(r)))
  <2>7. TidyValue(sessions[k], file[k], << >>, JobRequests, Arrived)
    BY <1>6, <2>1
  <2>8. /\ TidyValue(x, file[k], tasks'[k], JobRequests, Arrived)
        /\ Stays(sessions[k].msgs, x.msgs, JobRequests) /\ IsPrefixOf(file[k].lines, file[k].lines)
        /\ r \notin JobRequests =>
              /\ TidyValue(SessionAfterSave(c, file[k]), FileAfterSave(c, file[k]), tasks'[k],
                           JobRequests, Arrived)
              /\ Stays(sessions[k].msgs, SessionAfterSave(c, file[k]).msgs, JobRequests)
              /\ IsPrefixOf(file[k].lines, FileAfterSave(c, file[k]).lines)
    BY <1>4, <2>2, <2>3, <2>5, <2>6, <2>7, TidyBegins
  <2>9. \/ Stored(k, x, file[k])
        \/ /\ Stored(k, SessionAfterSave(c, file[k]), FileAfterSave(c, file[k]))
           /\ r \notin JobRequests
    <3>1. requests[r].kind = "job" => ~ConsolidationDue(AddMessage(sessions[k], User(r)), MemoryWindow)
      <4>1. worker = "inbox" /\ inbox # << >> /\ ~Busy(k)
        BY <1>7 DEF TakeMessage, BeginsTalk
      <4> QED
        BY <1>2, <1>3, <4>1 DEF JobsFit
    <3> QED
      BY <1>7, <2>4, <3>1 DEF BeginsTalk
  <2> HIDE DEF c, x
  <2>10. /\ TidyValue(sessions'[k], file'[k], tasks'[k], JobRequests, Arrived)
         /\ Stays(sessions[k].msgs, sessions'[k].msgs, JobRequests)
         /\ IsPrefixOf(file[k].lines, file'[k].lines)
    BY <2>8, <2>9 DEF Stored
  <2> QED
    BY <1>4, <2>2, <2>10, TidyElsewhere
<1>8. CASE UNCHANGED <<sessions, file, llm, asks>> /\ tasks' \in {tasks, TasksCancelled(k)}
  <2>1. /\ \A j \in Keys \ {k} : tasks'[j] = tasks[j]
        /\ tasks'[k] = tasks[k] \/ SameTasks(tasks[k], tasks'[k])
    BY <1>1, <1>4, <1>8, CancelTyped
  <2>2. tasks[k] \in Seq(Task)
    BY <1>1, <1>4 DEF HandlerTypes
  <2>3. TidyValue(sessions[k], file[k], tasks'[k], JobRequests, Arrived)
    BY <1>6, <2>1, <2>2, TidyTasks
  <2>4. /\ Stays(sessions[k].msgs, sessions[k].msgs, JobRequests)
        /\ IsPrefixOf(file[k].lines, file[k].lines)
    BY <1>6, LeftAlone
  <2>5. sessions' = sessions /\ file' = file
    BY <1>8
  <2> QED
    BY <1>4, <2>1, <2>3, <2>4, <2>5, TidyElsewhere
<1> QED
  BY <1>5, <1>7, <1>8

\* A result is taken up.
LEMMA EventTidy ==
    ASSUME FlowInv, StoresInv, TidyInv, TakeEvent
    PROVE  TidyInv' /\ RecordsKept
<1>1. HandlerTypes /\ TypeOK /\ SessionsInv /\ FiniteInv /\ \A j \in Keys : PhaseOK(j)
  BY TypeParts DEF FlowInv
<1>2. PICK e : e = Head(internal)
  OBVIOUS
<1>3. PICK k : k = e.key
  OBVIOUS
<1>4. e \in Event /\ k \in Keys /\ internal # << >> /\ internal' = Tail(internal)
      /\ UNCHANGED requests
  BY <1>1, <1>2, <1>3, EventSteps
<1>5. e \in Elements(internal)
  BY <1>1, <1>2, <1>4, TakenEvent
<1>6. /\ Len(tasks[k]) = 1 /\ tasks[k] # << >> /\ tasks[k][1] \in Task /\ tasks[k] \in Seq(Task)
  BY <1>1, <1>3, <1>4, <1>5, ResultAwaited DEF HandlerTypes
<1>7. PICK t \in Task : t = tasks[k][1]
  BY <1>6
<1>8. Speaks(k, t, e) \/ CallsTalk(k, t, e) \/ Hears(k, t, e) \/ GivesUp(k, t, e)
  BY <1>1, <1>2, <1>3, <1>6, <1>7, EventTalk
<1>9. TidyValue(sessions[k], file[k], tasks[k], JobRequests, Arrived)
  BY <1>4 DEF TidyInv
<1>10. PICK s : s = sessions[k]
  OBVIOUS
<1>11. PICK f : f = file[k]
  OBVIOUS
<1>12. TidyValue(s, f, tasks[k], JobRequests, Arrived)
  BY <1>9, <1>10, <1>11
<1>13. tasks \in [Keys -> Seq(Task)] /\ Tail(tasks[k]) = << >> /\ t.req \in Request
  BY <1>1, <1>6, OneTask DEF HandlerTypes, Task
<1>14. ASSUME NEW x, NEW g, Stored(k, x, g), TidyValue(x, g, tasks'[k], JobRequests, Arrived),
              Stays(s.msgs, x.msgs, JobRequests), IsPrefixOf(f.lines, g.lines),
              \A j \in Keys \ {k} : tasks'[j] = tasks[j]
       PROVE  TidyInv' /\ RecordsKept
  <2>1. /\ sessions'[k] = x /\ file'[k] = g
        /\ \A j \in Keys \ {k} : tasks'[j] = tasks[j] /\ sessions'[j] = sessions[j] /\ file'[j] = file[j]
    BY <1>14 DEF Stored
  <2>2. /\ TidyValue(sessions'[k], file'[k], tasks'[k], JobRequests, Arrived)
        /\ Stays(sessions[k].msgs, sessions'[k].msgs, JobRequests)
        /\ IsPrefixOf(file[k].lines, file'[k].lines)
    BY <1>10, <1>11, <1>14, <2>1
  <2> QED
    BY <1>4, <2>1, <2>2, TidyElsewhere
<1>15. ASSUME Ends(k, t)
       PROVE  tasks'[k] = << >> /\ \A j \in Keys \ {k} : tasks'[j] = tasks[j]
  BY <1>4, <1>13, <1>15 DEF Ends, Removed
<1>16. ASSUME NEW m \in Message, m.req = t.req, Ends(k, t),
              Stored(k, Dropped(t, Spoken(k, t, m)), SpokenFile(k, t, m))
       PROVE  TidyInv' /\ RecordsKept
  <2>1. PICK x : x = Dropped(t, Kept(t, AddMessage(s, m), f))
    OBVIOUS
  <2>2. PICK g : g = KeptFile(t, AddMessage(s, m), f)
    OBVIOUS
  <2>3. Stored(k, x, g)
    BY <1>10, <1>11, <1>16, <2>1, <2>2 DEF Spoken, SpokenFile
  <2>4. /\ TidyValue(x, g, << >>, JobRequests, Arrived) /\ Stays(s.msgs, x.msgs, JobRequests)
        /\ IsPrefixOf(f.lines, g.lines)
    BY <1>6, <1>7, <1>12, <1>16, <2>1, <2>2, TidySpokenLast
  <2>5. tasks'[k] = << >> /\ \A j \in Keys \ {k} : tasks'[j] = tasks[j]
    BY <1>15, <1>16
  <2>6. TidyValue(x, g, tasks'[k], JobRequests, Arrived)
    BY <2>4, <2>5
  <2> QED
    BY <1>14, <2>3, <2>4, <2>5, <2>6
<1>17. ASSUME NEW m \in Message, m.req = t.req, SameTasks(tasks[k], tasks'[k]),
              \A j \in Keys \ {k} : tasks'[j] = tasks[j],
              Stored(k, Spoken(k, t, m), SpokenFile(k, t, m))
       PROVE  TidyInv' /\ RecordsKept
  <2>1. PICK x : x = Kept(t, AddMessage(s, m), f)
    OBVIOUS
  <2>2. PICK g : g = KeptFile(t, AddMessage(s, m), f)
    OBVIOUS
  <2>3. Stored(k, x, g)
    BY <1>10, <1>11, <1>17, <2>1, <2>2 DEF Spoken, SpokenFile
  <2>4. /\ tasks'[k] # << >> /\ tasks'[k][1] \in Task /\ tasks'[k][1].req = t.req
        /\ tasks'[k][1].norecord = t.norecord /\ tasks'[k][1].before = t.before
    <3>1. /\ tasks'[k] # << >> /\ tasks'[k][1] \in Task /\ tasks'[k][1].req = tasks[k][1].req
          /\ tasks'[k][1].norecord = tasks[k][1].norecord
          /\ tasks'[k][1].before = tasks[k][1].before
      <4>1. SameTasks(tasks[k], tasks'[k])
        BY <1>17
      <4> QED
        BY <1>6, <4>1, SameFirst
    <3> QED
      BY <1>7, <3>1
  <2>5. /\ TidyValue(x, g, tasks'[k], JobRequests, Arrived) /\ Stays(s.msgs, x.msgs, JobRequests)
        /\ IsPrefixOf(f.lines, g.lines)
    BY <1>6, <1>7, <1>12, <1>17, <2>1, <2>2, <2>4, TidySpoken
  <2> QED
    BY <1>14, <1>17, <2>3, <2>5
<1>18. CASE Speaks(k, t, e)
  <2>1. Assistant(t.req, {}) \in Message /\ Assistant(t.req, {}).req = t.req
    BY <1>13, MessagesTyped DEF Assistant
  <2>2. Ends(k, t)
    BY <1>18 DEF Speaks
  <2>3. CASE Stored(k, Dropped(t, sessions[k]), file[k])
    <3>1. /\ TidyValue(Dropped(t, s), f, << >>, JobRequests, Arrived)
          /\ Stays(s.msgs, Dropped(t, s).msgs, JobRequests)
      BY <1>6, <1>7, <1>12, TidyDropped
    <3>2. tasks'[k] = << >> /\ \A j \in Keys \ {k} : tasks'[j] = tasks[j]
      BY <1>15, <2>2
    <3>3. IsPrefixOf(f.lines, f.lines)
      BY <1>12, LeftAlone
    <3>4. /\ TidyValue(Dropped(t, s), f, tasks'[k], JobRequests, Arrived)
          /\ Stored(k, Dropped(t, s), f)
      BY <1>10, <1>11, <2>3, <3>1, <3>2
    <3> QED
      BY <1>14, <3>1, <3>2, <3>3, <3>4
  <2>4. CASE Stored(k, Dropped(t, Spoken(k, t, Assistant(t.req, {}))), SpokenFile(k, t, Assistant(t.req, {})))
    BY <1>16, <2>1, <2>2, <2>4
  <2> QED
    BY <1>18, <2>3, <2>4 DEF Speaks
<1>19. CASE GivesUp(k, t, e)
  <2> DEFINE m == ToolAnswer(t.req, e.call)
  <2>1. e.type = "tool" /\ Ends(k, t) /\ Stored(k, Dropped(t, Spoken(k, t, m)), SpokenFile(k, t, m))
    BY <1>19 DEF GivesUp
  <2>2. m \in Message /\ m.req = t.req
    BY <1>4, <1>13, <2>1, MessagesTyped DEF ToolAnswer, Event
  <2> HIDE DEF m
  <2> QED
    BY <1>16, <2>1, <2>2
<1>20. CASE CallsTalk(k, t, e)
  <2> DEFINE C == {<<e.req, e.ask, i>> : i \in 1..e.res.n}
             m == Assistant(t.req, C)
  <2>1. /\ e.type = "llm" /\ e.res.n \in 1..MaxCalls /\ Calls(k, t, e)
        /\ Stored(k, Spoken(k, t, m), SpokenFile(k, t, m))
    BY <1>20 DEF CallsTalk
  <2>2. C \subseteq Call /\ e.res.n \in Int
    BY <1>4, <2>1, CallsTyped DEF Event
  <2> HIDE DEF C
  <2>3. m \in Message /\ m.req = t.req
    BY <1>13, <2>2, MessagesTyped DEF Assistant
  <2> HIDE DEF m
  <2>4. tasks' = [tasks EXCEPT ![k] = Called(@, e.res.n)]
    BY <2>1 DEF Calls
  <2>5. tasks'[k] = Called(tasks[k], e.res.n) /\ \A j \in Keys \ {k} : tasks'[j] = tasks[j]
    BY <1>4, <1>13, <2>4
  <2>6. SameTasks(tasks[k], tasks'[k])
    BY <1>6, <2>2, <2>5, CalledList
  <2> QED
    BY <1>17, <2>1, <2>3, <2>5, <2>6
<1>21. CASE Hears(k, t, e)
  <2> DEFINE m == ToolAnswer(t.req, e.call)
  <2>1. /\ e.type = "tool" /\ Stored(k, Spoken(k, t, m), SpokenFile(k, t, m))
        /\ Waits(k) \/ AsksAgain(k, t)
    BY <1>21 DEF Hears
  <2>2. m \in Message /\ m.req = t.req
    BY <1>4, <1>13, <2>1, MessagesTyped DEF ToolAnswer, Event
  <2> HIDE DEF m
  <2>3. /\ \A j \in Keys \ {k} : tasks'[j] = tasks[j]
        /\ tasks'[k] \in {CountedDown(tasks[k]), TurnBegun(CountedDown(tasks[k]))}
    BY <1>4, <1>13, <2>1 DEF Waits, AsksAgain
  <2>4. SameTasks(tasks[k], tasks'[k])
    <3>1. 0 \in Int
      OBVIOUS
    <3>2. /\ SameTasks(tasks[k], CountedDown(tasks[k]))
          /\ SameTasks(tasks[k], TurnBegun(CountedDown(tasks[k])))
      BY <1>1, <1>4, <1>6, <3>1, ListsAfterResult
    <3> QED
      BY <2>3, <3>2
  <2> QED
    BY <1>17, <2>1, <2>2, <2>3, <2>4
<1> QED
  BY <1>8, <1>18, <1>19, <1>20, <1>21

\* Every other step leaves the transcripts, and at most lets a request arrive.
LEMMA QuietTidy ==
    ASSUME TypeOK, TidyInv, [Next]_vars, ~TakeEvent, ~TakeMessage
    PROVE  TidyInv' /\ RecordsKept
<1>1. UNCHANGED <<sessions, file, tasks>>
  BY QuietSteps
<1>2. \/ UNCHANGED requests
      \/ \E k \in Keys, kind \in Kinds : requests' = Append(requests, [key |-> k, kind |-> kind])
  BY DEF Next, Main, Worker, Callback, Arrive, RequestStop, AgentLoopStop, Start, StartFails, Loop,
         HandOver, CloseBus, Join, NoEvent, NoMessage, CheckRunning, Done, vars, handlerVars,
         LlmCallback, ToolCallback
<1>3. Arrived \subseteq Arrived' /\ \A r \in Arrived : r \in JobRequests <=> r \in JobRequests'
  <2>1. CASE UNCHANGED requests
    BY <2>1 DEF Arrived, JobRequests
  <2>2. ASSUME NEW k \in Keys, NEW kind \in Kinds, requests' = Append(requests, [key |-> k, kind |-> kind])
        PROVE  /\ Arrived \subseteq Arrived'
               /\ \A r \in Arrived : r \in JobRequests <=> r \in JobRequests'
    <3>1. /\ requests \in Seq([key : Keys, kind : Kinds])
          /\ [key |-> k, kind |-> kind] \in [key : Keys, kind : Kinds]
      BY DEF TypeOK
    <3>2. /\ Len(requests') = Len(requests) + 1 /\ Len(requests) \in Nat
          /\ \A r \in 1..Len(requests) : requests'[r] = requests[r]
      BY <2>2, <3>1
    <3>3. 1..Len(requests) \subseteq 1..Len(requests')
      BY <3>2
    <3> QED
      BY <3>2, <3>3 DEF Arrived, JobRequests
  <2> QED
    BY <1>2, <2>1, <2>2
<1>4. \A j \in Keys : TidyValue(sessions[j], file[j], tasks[j], JobRequests, Arrived)
  BY DEF TidyInv
<1>5. \A j \in Keys : TidyValue(sessions[j], file[j], tasks[j], JobRequests', Arrived')
  BY <1>3, <1>4, TidyArrivals
<1>6. \A j \in Keys : Stays(sessions[j].msgs, sessions[j].msgs, JobRequests) /\ IsPrefixOf(file[j].lines, file[j].lines)
  BY <1>4, LeftAlone
<1> QED
  BY <1>1, <1>5, <1>6 DEF TidyInv, RecordsKept

\* Every step keeps jobs apart from what is recorded.
LEMMA TidyKept ==
    ASSUME "skill" \notin Kinds, FlowInv, StoresInv, TidyInv, JobsFit, [Next]_vars
    PROVE  TidyInv' /\ RecordsKept
<1>1. TypeOK
  BY DEF FlowInv
<1> QED
  BY <1>1, MessageTidy, EventTidy, QuietTidy

\* At the start there is nothing to keep apart.
LEMMA TidyInit == Init => TidyInv
<1> SUFFICES ASSUME Init, NEW k \in Keys
             PROVE  TidyValue(sessions[k], file[k], tasks[k], JobRequests, Arrived)
  BY DEF TidyInv
<1>1. SessionsInv
  BY InitTypes
<1>2. /\ sessions[k] = NewSession /\ file[k] = NoFile /\ tasks[k] = << >> /\ SessionOK(sessions[k])
  <2>1. file = [j \in Keys |-> NoFile] /\ tasks = [j \in Keys |-> << >>]
        /\ sessions = [j \in Keys |-> LoadSession(NoFile)]
    BY DEF Init
  <2>2. SessionOK(sessions[k])
    BY <1>1 DEF SessionsInv
  <2>3. LoadSession(NoFile) = NewSession
    BY DEF LoadSession, NoFile
  <2> QED
    BY <2>1, <2>2, <2>3
<1>3. NoFile \in FileRecord /\ ~NoFile.exists /\ NoFile.lines = << >>
  BY DEF NoFile, FileRecord
<1>4. Follows(sessions[k], file[k])
  BY <1>2, <1>3 DEF Follows
<1>5. Len(sessions[k].msgs) = 0
  BY <1>2 DEF NewSession
<1> QED
  BY <1>2, <1>3, <1>4, <1>5 DEF TidyValue

\* What the invariant says of files.
LEMMA TidyIsSafe ==
    ASSUME HandlerTypes, TidyInv
    PROVE  FileFollows /\ JobLeavesNoTrace
<1>1. FileFollows
  BY DEF FileFollows, TidyInv, TidyValue, Follows
<1>2. ASSUME NEW k \in Keys, NoJobActive(k)
      PROVE  Recorded(sessions[k].msgs) /\ Recorded(file[k].lines)
  <2>1. TidyValue(sessions[k], file[k], tasks[k], JobRequests, Arrived)
    BY DEF TidyInv
  <2>2. tasks[k] = << >> \/ ~tasks[k][1].norecord
    <3>1. tasks[k] # << >> => 1 \in 1..Len(tasks[k])
      BY FirstTask DEF HandlerTypes
    <3> QED
      BY <1>2, <3>1 DEF NoJobActive
  <2>3. PICK q : q = sessions[k].msgs
    OBVIOUS
  <2>4. PICK n : n = sessions[k].saved
    OBVIOUS
  <2>5. \A i \in 1..Len(q) : q[i].req \notin JobRequests
    BY <2>1, <2>2, <2>3 DEF TidyValue
  <2>6. q \in Seq(Message) /\ n \in Nat /\ n <= Len(q) /\ Len(q) \in Nat
    BY <2>1, <2>3, <2>4 DEF TidyValue, Follows, SessionOK, SessionRecord
  <2>7. Len(SubSeq(q, 1, n)) = n /\ \A i \in 1..n : SubSeq(q, 1, n)[i] = q[i] /\ i \in 1..Len(q)
    BY <2>6, PrefixHolds
  <2>8. Recorded(SubSeq(q, 1, n)) /\ Recorded(q) /\ Recorded(<< >>)
    <3>1. Recorded(q)
      BY <2>5 DEF Recorded
    <3>2. Recorded(SubSeq(q, 1, n))
      <4>1. PICK p : p = SubSeq(q, 1, n)
        OBVIOUS
      <4>2. \A i \in 1..Len(p) : p[i].req \notin JobRequests
        BY <2>5, <2>7, <4>1
      <4> QED
        BY <4>1, <4>2 DEF Recorded
    <3>3. Len(<< >>) = 0 /\ 1..0 = {}
      OBVIOUS
    <3>4. Recorded(<< >>)
      BY <3>3 DEF Recorded
    <3> QED
      BY <3>1, <3>2, <3>4
  <2>9. file[k].lines \in {SubSeq(q, 1, n), << >>}
    BY <2>1, <2>3, <2>4 DEF TidyValue, Follows
  <2> QED
    BY <2>3, <2>8, <2>9
<1> QED
  BY <1>1, <1>2 DEF JobLeavesNoTrace

\* What stays undisturbed is what RecordsStay asks for.
LEMMA RecordsKeptStay ==
    ASSUME SessionsInv, RecordsKept, NEW k \in Keys
    PROVE  /\ \A i \in 1..Len(sessions[k].msgs) :
                  sessions[k].msgs[i].req \notin JobRequests =>
                      IsPrefixOf(SubSeq(sessions[k].msgs, 1, i), sessions[k].msgs')
           /\ IsPrefixOf(file[k].lines, file[k].lines')
<1>1. PICK q : q = sessions[k].msgs
  OBVIOUS
<1>2. PICK p : p = sessions'[k].msgs
  OBVIOUS
<1>3. q \in Seq(Message) /\ Stays(q, p, JobRequests) /\ IsPrefixOf(file[k].lines, file'[k].lines)
  BY <1>1, <1>2 DEF SessionsInv, SessionOK, SessionRecord, RecordsKept
<1>4. ASSUME NEW i \in 1..Len(q), q[i].req \notin JobRequests
      PROVE  IsPrefixOf(SubSeq(q, 1, i), p)
  <2>1. i <= Len(p) /\ SubSeq(p, 1, i) = SubSeq(q, 1, i)
    BY <1>3, <1>4 DEF Stays
  <2>2. i \in Nat /\ i <= Len(q)
    BY <1>3
  <2>3. Len(SubSeq(q, 1, i)) = i
    BY <1>3, <2>2, PrefixHolds
  <2> QED
    BY <2>1, <2>3 DEF IsPrefixOf
<1> QED
  BY <1>1, <1>2, <1>3, <1>4

\* For a loop that is not told of a skill, as long as no cron job is taken up just when its
\* session is due for consolidation: the session file is always what a restart needs, the
\* first last_saved_count messages of the session (session_manager_save,
\* session_rollback_messages), and what the model is sent can be sent.
THEOREM TranscriptsAreSafe ==
    ASSUME "skill" \notin Kinds
    PROVE  Spec /\ []JobsFit => []TranscriptSafe
<1> DEFINE I == LoopInv /\ TidyInv
<1>1. Init => I
  BY LoopInvInit, TidyInit
<1>2. I /\ JobsFit /\ [Next]_vars => I'
  BY LoopInvKept, TidyKept DEF LoopInv
<1>3. I => TranscriptSafe
  <2> SUFFICES ASSUME I PROVE TranscriptSafe
    OBVIOUS
  <2>1. HandlerTypes
    BY TypeParts DEF LoopInv, FlowInv
  <2> QED
    BY <2>1, TalkIsWellFormed, TidyIsSafe DEF LoopInv, TranscriptSafe
<1> QED
  BY <1>1, <1>2, <1>3, PTL DEF Spec

\* Under the same condition a job that is over has left nothing in the transcript or in
\* the file: remove_active_task rolls back exactly the messages that it added.
THEOREM JobsLeaveNoTrace ==
    ASSUME "skill" \notin Kinds
    PROVE  Spec /\ []JobsFit => []JobLeavesNoTrace
<1> DEFINE I == LoopInv /\ TidyInv
<1>1. Init => I
  BY LoopInvInit, TidyInit
<1>2. I /\ JobsFit /\ [Next]_vars => I'
  BY LoopInvKept, TidyKept DEF LoopInv
<1>3. I => JobLeavesNoTrace
  <2> SUFFICES ASSUME I PROVE JobLeavesNoTrace
    OBVIOUS
  <2>1. HandlerTypes
    BY TypeParts DEF LoopInv, FlowInv
  <2> QED
    BY <2>1, TidyIsSafe DEF LoopInv
<1> QED
  BY <1>1, <1>2, <1>3, PTL DEF Spec

\* Under the same condition no step removes or reorders a message of a conversation, in
\* memory or in the file: neither the rollback of a job nor a save.
THEOREM RecordsAlwaysStay ==
    ASSUME "skill" \notin Kinds
    PROVE  Spec /\ []JobsFit => RecordsStay
<1> DEFINE I == LoopInv /\ TidyInv
<1>1. Init => I
  BY LoopInvInit, TidyInit
<1>2. I /\ JobsFit /\ [Next]_vars => I'
  BY LoopInvKept, TidyKept DEF LoopInv
<1>3. I /\ JobsFit /\ [Next]_vars =>
          [NoSkill => \A k \in Keys :
              /\ \A i \in 1..Len(sessions[k].msgs) :
                     sessions[k].msgs[i].req \notin JobRequests =>
                         IsPrefixOf(SubSeq(sessions[k].msgs, 1, i), sessions[k].msgs')
              /\ IsPrefixOf(file[k].lines, file[k].lines')]_vars
  <2> SUFFICES ASSUME I, JobsFit, [Next]_vars, NEW k \in Keys
               PROVE  /\ \A i \in 1..Len(sessions[k].msgs) :
                             sessions[k].msgs[i].req \notin JobRequests =>
                                 IsPrefixOf(SubSeq(sessions[k].msgs, 1, i), sessions[k].msgs')
                      /\ IsPrefixOf(file[k].lines, file[k].lines')
    OBVIOUS
  <2>1. RecordsKept /\ SessionsInv
    BY TidyKept DEF LoopInv, FlowInv
  <2> QED
    BY <2>1, RecordsKeptStay
<1> QED
  BY <1>1, <1>2, <1>3, PTL DEF Spec, RecordsStay

\* Without cron jobs the condition is void.
LEMMA NoJobsFit ==
    ASSUME "job" \notin Kinds, TypeOK
    PROVE  JobsFit
<1> SUFFICES ASSUME inbox # << >>, requests[Head(inbox)].kind = "job" PROVE FALSE
  BY DEF JobsFit
<1>1. Head(inbox) \in 1..Len(requests)
  BY DEF TypeOK
<1>2. requests[Head(inbox)] \in [key : Keys, kind : Kinds]
  BY <1>1, ElementOfSeq DEF TypeOK
<1> QED
  BY <1>2

\* A loop that is told of neither skills nor cron jobs keeps what TranscriptsAreSafe and
\* RecordsAlwaysStay say, whatever is consolidated when.
THEOREM TranscriptsWithoutJobs ==
    ASSUME "skill" \notin Kinds, "job" \notin Kinds
    PROVE  Spec => []TranscriptSafe /\ RecordsStay
<1>1. TypeOK => JobsFit
  BY NoJobsFit
<1> QED
  BY <1>1, LoopTypeCorrect, TranscriptsAreSafe, RecordsAlwaysStay, PTL
=============================================================================
