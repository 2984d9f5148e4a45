----------------------------- MODULE SessionFlow -----------------------------
(***************************************************************************)
(* The state machine each session promises to be (src/README.md, "State    *)
(* Machine"): IDLE until a message starts a request, WAITING_LLM while the *)
(* model is asked, WAITING_TOOL while the tools it called run, and back to *)
(* IDLE when the request is over.  "owed" counts the results on their way  *)
(* to the session: a session is owed something exactly while it is not     *)
(* IDLE, and a result never reaches one that does not wait for it.  Only a *)
(* shutdown loses results.                                                 *)
(*                                                                         *)
(* AgentLoop implements this specification as long as no request is made   *)
(* through a skill command (runs loop_sessions and loop_skill).            *)
(***************************************************************************)
EXTENDS Naturals

CONSTANTS Key,                \* sessions
          MaxCalls            \* tool calls of one answer of the model, at most

VARIABLES flow,               \* state of each session
          owed,               \* results on their way to each session
          stopping            \* the bus is closed

flowVars == <<flow, owed, stopping>>

Init ==
    /\ flow = [k \in Key |-> "IDLE"]
    /\ owed = [k \in Key |-> 0]
    /\ stopping = FALSE

Become(k, state, n) ==
    /\ flow' = [flow EXCEPT ![k] = state]
    /\ owed' = [owed EXCEPT ![k] = n]
    /\ UNCHANGED stopping

\* A new message is taken up only by an idle session.
Ask(k) ==
    /\ flow[k] = "IDLE"
    /\ owed[k] = 0
    /\ Become(k, "WAITING_LLM", 1)

\* The model answers with text, or fails: the request is over.
Answer(k) ==
    /\ flow[k] = "WAITING_LLM"
    /\ owed[k] = 1
    /\ Become(k, "IDLE", 0)

CallTools(k) ==
    /\ flow[k] = "WAITING_LLM"
    /\ owed[k] = 1
    /\ \E n \in 1..MaxCalls : Become(k, "WAITING_TOOL", n)

ToolDone(k) ==
    /\ flow[k] = "WAITING_TOOL"
    /\ owed[k] > 1
    /\ Become(k, "WAITING_TOOL", owed[k] - 1)

\* After the last tool the model is asked again, or the turns are used up.
LastToolDone(k) ==
    /\ flow[k] = "WAITING_TOOL"
    /\ owed[k] = 1
    /\ Become(k, "WAITING_LLM", 1) \/ Become(k, "IDLE", 0)

Stop ==
    /\ stopping' = TRUE
    /\ UNCHANGED <<flow, owed>>

Lose(k) ==
    /\ stopping
    /\ owed[k] > 0
    /\ Become(k, flow[k], owed[k] - 1)

Next ==
    \/ \E k \in Key : \/ Ask(k) \/ Answer(k) \/ CallTools(k)
                      \/ ToolDone(k) \/ LastToolDone(k) \/ Lose(k)
    \/ Stop

Spec == Init /\ [][Next]_flowVars
=============================================================================
