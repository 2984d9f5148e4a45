---------------------------- MODULE ContextWindow ----------------------------
(***************************************************************************)
(* The part of a transcript that the model is sent                         *)
(* (session_snapshot_for_context, src/src/session/session.c), for every    *)
(* transcript of a conversation.  A conversation grows by one message at a *)
(* time: texts, answers with tool calls and the answers to those calls, in *)
(* whatever order the tools end.  Each message is saved as it is added, so *)
(* a process that dies comes back with the transcript it had, but without  *)
(* the tools that were running.                                            *)
(***************************************************************************)
EXTENDS Session

CONSTANTS MaxLength,        \* bound: messages of the transcript
          MaxCalls            \* bound: tool calls of one message

ASSUME WindowAssumption == MaxLength \in Nat /\ MaxCalls \in Nat

VARIABLES msgs,       \* the transcript
          pending,    \* calls that have no answer yet
          made,       \* calls made so far; a call is its number
          lost        \* history: calls whose tools died with a process

windowVars == <<msgs, pending, made, lost>>

WindowInit ==
    /\ msgs = << >>
    /\ pending = {}
    /\ made = 0
    /\ lost = {}

\* A user's message, or a text of the model.
Speak(m) ==
    /\ Len(msgs) < MaxLength
    /\ pending = {}
    /\ msgs' = Append(msgs, m)
    /\ UNCHANGED <<pending, made, lost>>

\* The model calls n tools.
Call(n) ==
    /\ Len(msgs) < MaxLength
    /\ pending = {}
    /\ pending' = made + 1..made + n
    /\ made' = made + n
    /\ msgs' = Append(msgs, Assistant(0, made + 1..made + n))
    /\ UNCHANGED lost

\* A tool ends.
Answer(c) ==
    /\ Len(msgs) < MaxLength
    /\ c \in pending
    /\ pending' = pending \ {c}
    /\ msgs' = Append(msgs, ToolAnswer(0, c))
    /\ UNCHANGED <<made, lost>>

\* The process dies while tools run.  The next one finds the session on disk and nothing
\* that waits, and the next message is a user's.
Revive ==
    /\ Len(msgs) < MaxLength
    /\ pending # {}
    /\ msgs' = Append(msgs, User(0))
    /\ lost' = lost \cup pending
    /\ pending' = {}
    /\ UNCHANGED made

Full == Len(msgs) = MaxLength /\ UNCHANGED windowVars

WindowNext ==
    \/ Speak(User(0)) \/ Speak(Assistant(0, {}))
    \/ \E n \in 1..MaxCalls : Call(n)
    \/ \E c \in pending : Answer(c)
    \/ Revive
    \/ Full

WindowSpec == WindowInit /\ [][WindowNext]_windowVars

-----------------------------------------------------------------------------
(* Properties.                                                             *)

\* Types of the variables.
WindowTypeOK ==
    /\ Len(msgs) <= MaxLength
    /\ \A i \in 1..Len(msgs) : msgs[i].role \in {"user", "assistant", "tool"}
    /\ made \in Nat
    /\ pending \subseteq 1..made

\* Where a window may start without cutting through the messages of a tool chain.
Boundaries == {i \in 1..Len(msgs) : msgs[i].role # "tool"}

\* The window that contains the last max messages and is as short as it can be
\* without cutting a tool chain: the reference adjust_context_start_for_tool_chain
\* is compared with.
ShortestWhole(max) ==
    LET from == IF Len(msgs) <= max THEN 1 ELSE Len(msgs) - max + 1
    IN  CHOOSE i \in Boundaries :
            i <= from /\ \A j \in Boundaries : j <= from => j <= i

\* A message all of whose calls were lost: the loop takes it for the head of a chain that
\* the next message belongs to.
Abandoned(i) == MakesCalls(msgs[i]) /\ msgs[i].calls \subseteq lost

\* The loop that moves the start of the window back stops at the nearest boundary of a tool
\* chain, not after it and not a chain too early, except that it goes on to an abandoned
\* message just before.
WindowIsShortest ==
    msgs # << >> =>
        \A max \in 1..MaxLength :
            LET i == ShortestWhole(max)
            IN  ContextStart(msgs, max) = IF i > 1 /\ Len(msgs) > max /\ Abandoned(i - 1)
                                          THEN i - 1 ELSE i

\* When no call is pending, which is when the model is asked, the window has every call to
\* its answers and every answer to its calls, but for those that died with a process: they
\* stay in the transcript without an answer and are sent as they are.
WindowWellFormed ==
    pending = {} => \A max \in 1..MaxLength : WellFormedBut(Window(msgs, max), lost)

\* The window is right for every length it may be given.
WindowSafe == WindowIsShortest /\ WindowWellFormed
=============================================================================
