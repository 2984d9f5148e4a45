------------------------------- MODULE Session -------------------------------
(***************************************************************************)
(* A chat session and its file (src/src/session/session.c), as operators   *)
(* on values: the machines that use them decide when they are applied.     *)
(*                                                                         *)
(* A session is a transcript with three marks: how far it was archived to  *)
(* the memory files, how many of its messages the session file holds, and  *)
(* whether the next save must rewrite that file.  A message keeps its      *)
(* role, the request it belongs to, and the tool calls it makes (role      *)
(* "assistant") or the one it answers (role "tool").                       *)
(***************************************************************************)
EXTENDS Naturals, Sequences, FiniteSets

User(r) == [role |-> "user", req |-> r, calls |-> {}]
Assistant(r, calls) == [role |-> "assistant", req |-> r, calls |-> calls]
ToolAnswer(r, call) == [role |-> "tool", req |-> r, calls |-> {call}]

\* session_manager_create_unlocked
NewSession == [msgs |-> << >>, consolidated |-> 0, saved |-> 0, full |-> TRUE]

NoFile == [exists |-> FALSE, consolidated |-> 0, lines |-> << >>]

AddMessage(s, m) == [s EXCEPT !.msgs = Append(@, m)]

\* The smaller of a mark and the new length.
Clamp(mark, n) == IF mark > n THEN n ELSE mark

\* Truncate to n messages.  The file is not touched, and needs_full_save is
\* not set: a file that holds more than n messages keeps them.
RollbackMessages(s, n) ==
    IF n >= Len(s.msgs) THEN s
    ELSE [s EXCEPT !.msgs = SubSeq(@, 1, n),
                   !.saved = Clamp(@, n),
                   !.consolidated = Clamp(@, n)]

-----------------------------------------------------------------------------
(* session_manager_save: rewrite the file, or append what it lacks.        *)

NeedsFullSave(s, f) == s.full \/ ~f.exists \/ s.saved > Len(s.msgs)

\* Mutant: the metadata line is counted as a message.
SessionAfterSaveCountsMetadata(s, f) ==
    [s EXCEPT !.saved = Len(s.msgs) + 1,
              !.full = IF NeedsFullSave(s, f) THEN FALSE ELSE @]

SessionAfterSave(s, f) ==
    [s EXCEPT !.saved = Len(s.msgs),
              !.full = IF NeedsFullSave(s, f) THEN FALSE ELSE @]

\* Mutant: an append starts one message too early.
FileAfterSaveRepeats(s, f) ==
    IF NeedsFullSave(s, f)
    THEN [exists |-> TRUE, consolidated |-> s.consolidated, lines |-> s.msgs]
    ELSE [f EXCEPT !.lines = @ \o SubSeq(s.msgs, IF s.saved = 0 THEN 1 ELSE s.saved,
                                         Len(s.msgs))]

FileAfterSave(s, f) ==
    IF NeedsFullSave(s, f)
    THEN [exists |-> TRUE, consolidated |-> s.consolidated, lines |-> s.msgs]
    ELSE [f EXCEPT !.lines = @ \o SubSeq(s.msgs, s.saved + 1, Len(s.msgs))]

\* session_manager_load of a file whose lines all parse.
LoadSession(f) ==
    IF ~f.exists THEN NewSession
    ELSE [msgs |-> f.lines, consolidated |-> f.consolidated,
          saved |-> Len(f.lines), full |-> FALSE]

-----------------------------------------------------------------------------
(* maybe_auto_consolidate_memory (src/src/agent/agent_loop.c).             *)

\* A mark beyond the end, as a loaded file may have, is pulled back first.
Normalised(s) == [s EXCEPT !.consolidated = Clamp(@, Len(s.msgs))]

ConsolidationDue(s, window) == Len(s.msgs) - Normalised(s).consolidated >= window

Consolidated(s) == [s EXCEPT !.consolidated = Len(s.msgs), !.full = TRUE]

-----------------------------------------------------------------------------
(* session_snapshot_for_context: the last messages of the transcript, and  *)
(* before them what the tool answers among them belong to.                 *)

MakesCalls(m) == m.role = "assistant" /\ m.calls # {}

\* assistant_has_tool_call_id: the messages before i that made the call i answers.
Callers(msgs, i) ==
    {j \in 1..i - 1 : msgs[j].role = "assistant" /\ msgs[i].calls \subseteq msgs[j].calls}

\* The message the window starts from if its first one is a tool answer.
ChainStart(msgs, i) ==
    IF msgs[i].role # "tool" \/ Callers(msgs, i) = {} THEN i
    ELSE CHOOSE j \in Callers(msgs, i) : \A h \in Callers(msgs, i) : h <= j

\* Mutant: a window never starts before the first answer of its chain.
StepBackNowhere(msgs, i) == i

\* One round of the loop of adjust_context_start_for_tool_chain.
StepBack(msgs, i) ==
    LET j == ChainStart(msgs, i)
    IN  IF j > 1 /\ MakesCalls(msgs[j - 1]) THEN j - 1 ELSE j

AdjustedStart(msgs, start) ==
    LET adjusted[i \in 1..Len(msgs)] ==
            IF StepBack(msgs, i) = i THEN i ELSE adjusted[StepBack(msgs, i)]
    IN  adjusted[start]

\* Mutant: the window is one message short.
ContextStartShort(msgs, max) ==
    IF Len(msgs) <= max THEN 1
    ELSE IF max = 1 THEN AdjustedStart(msgs, Len(msgs))
    ELSE AdjustedStart(msgs, Len(msgs) - max + 2)

ContextStart(msgs, max) ==
    IF Len(msgs) <= max THEN 1 ELSE AdjustedStart(msgs, Len(msgs) - max + 1)

Window(msgs, max) == SubSeq(msgs, ContextStart(msgs, max), Len(msgs))

-----------------------------------------------------------------------------
(* What the provider accepts as a transcript: the calls of an assistant    *)
(* message are answered, each once, by the messages that follow it at      *)
(* once, and there is no other tool message.                               *)

\* The positions of the answers to the calls of message i.
AnswerPlaces(msgs, i) == i + 1 .. i + Cardinality(msgs[i].calls)

CallsAnswered(msgs, i) ==
    /\ i + Cardinality(msgs[i].calls) <= Len(msgs)
    /\ \A j \in AnswerPlaces(msgs, i) : msgs[j].role = "tool"
    /\ \A c \in msgs[i].calls :
           \E j \in AnswerPlaces(msgs, i) : msgs[j].calls = {c}

\* Except for messages with a call in excused.
WellFormedBut(msgs, excused) ==
    \A i \in 1..Len(msgs) :
        /\ msgs[i].role = "assistant" =>
               msgs[i].calls \cap excused # {} \/ CallsAnswered(msgs, i)
        /\ msgs[i].role = "tool" =>
               \E j \in 1..i - 1 : /\ msgs[j].role = "assistant"
                                   /\ i \in AnswerPlaces(msgs, j)

WellFormed(msgs) == WellFormedBut(msgs, {})
=============================================================================
