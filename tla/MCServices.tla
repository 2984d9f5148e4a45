----------------------------- MODULE MCServices -----------------------------
(***************************************************************************)
(* Small instances of three services of the agent: the tool executor, the  *)
(* asynchronous calls of the LLM provider and the cron service.  They      *)
(* share no state, so a behaviour is one of a single service, chosen at    *)
(* the start; the others stay as they are.                                 *)
(***************************************************************************)
EXTENDS ToolExecutor, LlmAsync, Cron

VARIABLE service    \* the one that moves

serviceVars == <<service, execVars, llmVars, cronVars>>

ServicesInit == service \in {"executor", "llm", "cron"} /\ ExecInit /\ LlmInit /\ CronInit

ServicesNext ==
    /\ UNCHANGED service
    /\ \/ service = "executor" /\ ExecNext /\ UNCHANGED <<llmVars, cronVars>>
       \/ service = "llm" /\ LlmNext /\ UNCHANGED <<execVars, cronVars>>
       \/ service = "cron" /\ CronNext /\ UNCHANGED <<execVars, llmVars>>

\* The fairness of ExecFairSpec, LlmFairSpec and CronFairSpec, for the one that moves.
ServicesSpec ==
    /\ ServicesInit /\ [][ServicesNext]_serviceVars
    /\ \A w \in Workers : WF_execVars(service = "executor" /\ Work(w))
    /\ \A r \in Request : WF_execVars(service = "executor" /\ Caller(r))
    /\ WF_execVars(service = "executor" /\ Destroy)
    /\ WF_llmVars(service = "llm" /\ LlmWorker)
    /\ WF_llmVars(service = "llm" /\ MustClose)
    /\ \A c \in Calls : WF_llmVars(service = "llm" /\ Expire(c))
    /\ WF_cronVars(service = "cron" /\ Worker)
=============================================================================
