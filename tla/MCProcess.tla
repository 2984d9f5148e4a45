----------------------------- MODULE MCProcess -----------------------------
(***************************************************************************)
(* A small instance of the process with its plugins: the web interface,    *)
(* a channel that wants the agent loop, one that does not wait for its     *)
(* thread, a tool and an LLM provider.                                     *)
(***************************************************************************)
EXTENDS Plugins

MCPlugins == {"webui_channel", "acp_channel", "feishu_channel", "echo_tool", "anthropic_provider"}
MCKind == [p \in MCPlugins |-> CASE p = "echo_tool" -> "tool"
                                 [] p = "anthropic_provider" -> "llm"
                                 [] OTHER -> "channel"]

\* Which of the others are enabled at the start; the name of a provider that is not enabled
\* makes no difference.
MCInit == \E on \in SUBSET {"acp_channel", "anthropic_provider"}, clash \in BOOLEAN :
             /\ clash => "anthropic_provider" \in on
             /\ PlugStart(on \cup {"webui_channel", "feishu_channel", "echo_tool"}, clash)
MCSpec == MCInit /\ [][PlugNext]_plugVars /\ PlugFairness
=============================================================================
