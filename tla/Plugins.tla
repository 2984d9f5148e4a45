------------------------------ MODULE Plugins ------------------------------
(***************************************************************************)
(* The life of the process and of its plugins: run_agent_loop loads the    *)
(* plugins the configuration enables, starts the channels, serves until    *)
(* the agent loop ends, and takes everything down in a fixed order; the    *)
(* web interface loads and unloads plugins in between, and the command     *)
(* /reload-plugins loads them from a thread of the agent.                  *)
(*                                                                         *)
(* A plugin is code that dlopen maps and dlclose unmaps.  What it          *)
(* registers - a channel, a tool, a command, an LLM provider - keeps       *)
(* pointers into that code.  A step that follows such a pointer after the  *)
(* code is gone, or uses a component main has freed, ends the process.     *)
(***************************************************************************)
EXTENDS Integers, FiniteSets

CONSTANTS Plugins,     \* the libraries in the plugin directory
          Kind,        \* "channel", "tool", "command" or "llm"
          WebUi,       \* the channel plugin whose server thread switches plugins
          NeedsLoop,   \* channel plugins whose init wants the agent loop
          Linked,      \* channel plugins that set their channel's plugin_ref
          Unjoined,    \* channel plugins whose destroy does not wait for their thread
          MaxRequests, \* bound: switches operated in the web interface, and
                       \* /reload-plugins commands, together
          MaxFailures  \* bound: plugins that fail to load by themselves

ASSUME PluginsAssumption ==
    /\ WebUi \in Plugins /\ "nothing" \notin Plugins
    /\ Kind \in [Plugins -> {"channel", "tool", "command", "llm"}]
    /\ Linked \cap Unjoined = {}

OpenAI == "openai"
Other == "other"   \* the provider the configuration asks for
Nothing == "nothing"
Builtin == [plugin |-> Nothing, times |-> 0]
NoTool == [plugin |-> Nothing, times |-> 99]
NoLoad == [plugin |-> Nothing, pc |-> "idle"]

\* Who loads: plugin_manager_load_external, run by main and later by the thread of the agent
\* that takes commands; and the server thread of the web interface.
Loaders == {"external", "server"}

VARIABLES cfg,       \* the configuration: enabled plugins, does a plugin's provider
                     \* take the name of the built-in one, switches operated
          lib,       \* each library: the loads that hold a handle of it, which the dynamic
                     \* linker counts, and how often it was mapped
          listed,    \* manager->plugins: each plugin, and who loaded it
          registry,  \* tools and commands: the plugin, and the mapping they point into
          channels,  \* the array of channels: plugin, mapping, who loaded it, and state
          hole,      \* the plugins whose entries of the array were set to NULL
          providers, \* the provider registry: name and plugin
          loader,    \* plugin_manager_load_plugin: what each loads, and where it is
          scan,      \* plugin_manager_load_external: files to look at yet, commands obeyed
          main,      \* main: where it is, components freed
          agent,     \* the agent thread, its provider, and does an answer of that one stand out
          worker,    \* a tool worker: the tool it runs
          crash,     \* what ended the process
          seen       \* history: plugins switched off, loads that failed by themselves, and
                     \* does main wait for ever

plugVars == <<cfg, lib, listed, registry, channels, hole, providers, loader, scan, main, agent,
              worker, crash, seen>>

PlugStart(on, clash) ==
    /\ cfg = [enabled |-> on, clash |-> clash, switches |-> 0]
    /\ lib = [p \in Plugins |-> [held |-> {}, times |-> 0]]
    /\ listed = {} /\ registry = {} /\ channels = {} /\ hole = {}
    /\ providers = {[name |-> OpenAI, plugin |-> Nothing]}
    /\ loader = [t \in Loaders |-> NoLoad]
    /\ scan = [left |-> Plugins, times |-> 0]
    /\ main = [pc |-> "load", freed |-> {}]
    /\ agent = [st |-> "none", asked |-> FALSE,
                provider |-> [name |-> OpenAI, plugin |-> Nothing]]
    /\ worker = NoTool
    /\ crash = [by |-> Nothing, plugin |-> Nothing]
    /\ seen = [off |-> {}, failed |-> {}, hung |-> FALSE]

PlugInit ==
    \E on \in SUBSET Plugins, clash \in BOOLEAN : WebUi \in on /\ PlugStart(on, clash)

PlugAlive == crash.by = Nothing
Crashes(who, p) ==
    /\ crash' = [by |-> who, plugin |-> p]
    /\ UNCHANGED <<cfg, lib, listed, registry, channels, hole, providers, loader, scan, main, agent,
                   worker, seen>>

\* What e points to is still where it was when e was made.  A library that is mapped again
\* may or may not land at the same place.
Mapped(p) == lib[p].held # {}
Valid(e) == IF e = Builtin THEN TRUE ELSE Mapped(e.plugin) /\ lib[e.plugin].times = e.times
Dangles(e) == ~Valid(e)
Usable(e) == Mapped(e.plugin)
IsListed(p) == \E l \in listed : l.plugin = p
Registration(p) == [plugin |-> p, times |-> lib[p].times]

ProviderName(p) == IF cfg.clash THEN OpenAI ELSE Other
NameTaken(n) == \E q \in providers : q.name = n
Requestable == cfg.switches + scan.times < MaxRequests   \* the bound
LoopExists == main.pc # "load"

-----------------------------------------------------------------------------
(* plugin_manager_load_plugin, by either loader t.                         *)

\* The first critical section: nothing to do for a plugin that is loaded.
AlreadyLoaded(t) ==
    /\ loader[t].pc = "open" /\ IsListed(loader[t].plugin)
    /\ loader' = [loader EXCEPT ![t] = NoLoad]
    /\ UNCHANGED <<cfg, lib, listed, registry, channels, hole, providers, scan, main, agent, worker,
                   crash, seen>>

\* dlopen gives one more handle of a library that is mapped already.
OpenLibrary(t) ==
    /\ loader[t].pc = "open" /\ ~IsListed(loader[t].plugin)
    /\ LET p == loader[t].plugin
       IN  lib' = [lib EXCEPT ![p] = [held |-> @.held \cup {t},
                                      times |-> IF Mapped(p) THEN @.times ELSE @.times + 1]]
    /\ loader' = [loader EXCEPT ![t].pc = "init"]
    /\ UNCHANGED <<cfg, listed, registry, channels, hole, providers, scan, main, agent, worker,
                   crash, seen>>

\* load_plugin_from_file finds no library, or not the functions of a plugin in it.
CannotOpen(t) ==
    /\ loader[t].pc = "open" /\ ~IsListed(loader[t].plugin)
    /\ Cardinality(seen.failed) < MaxFailures
    /\ seen' = [seen EXCEPT !.failed = @ \cup {loader[t].plugin}]
    /\ loader' = [loader EXCEPT ![t] = NoLoad]
    /\ UNCHANGED <<cfg, lib, listed, registry, channels, hole, providers, scan, main, agent, worker,
                   crash>>

\* acp_init and its like: the channel wants what main has not made yet.
InitRefused(p) == p \in NeedsLoop /\ ~LoopExists

\* plugin->init, outside the lock.  Each plugin registers what it is for, even when another
\* load of it has done so.
RegisterChannel(p, t) ==
    /\ Kind[p] = "channel"
    /\ channels' = channels \cup {[plugin |-> p, times |-> lib[p].times, by |-> t, st |-> "made"]}
    /\ UNCHANGED <<registry, providers>>
RegisterCallable(p) ==
    /\ Kind[p] \in {"tool", "command"}
    /\ registry' = registry \cup {Registration(p)}
    /\ UNCHANGED <<channels, providers>>

\* A provider whose name is taken is shut down and freed, and that is no error.
RegisterProvider(p) ==
    /\ Kind[p] = "llm"
    /\ providers' = IF NameTaken(ProviderName(p)) THEN providers
                    ELSE providers \cup {[name |-> ProviderName(p), plugin |-> p]}
    /\ UNCHANGED <<channels, registry>>

PluginInit(t) ==
    /\ loader[t].pc = "init" /\ ~InitRefused(loader[t].plugin)
    /\ \/ RegisterChannel(loader[t].plugin, t)
       \/ RegisterCallable(loader[t].plugin)
       \/ RegisterProvider(loader[t].plugin)
    /\ loader' = [loader EXCEPT ![t].pc = "enlist"]
    /\ UNCHANGED <<cfg, lib, listed, hole, scan, main, agent, worker, crash, seen>>

\* A channel whose init fails is destroyed, a provider is freed, before they are registered.
NothingRegistered(p) == UNCHANGED <<channels, registry, providers>>

PluginInitFails(t) ==
    /\ loader[t].pc = "init"
    /\ InitRefused(loader[t].plugin) \/ Cardinality(seen.failed) < MaxFailures
    /\ NothingRegistered(loader[t].plugin)
    /\ lib' = [lib EXCEPT ![loader[t].plugin].held = @ \ {t}]
    /\ seen' = IF InitRefused(loader[t].plugin) THEN seen
               ELSE [seen EXCEPT !.failed = @ \cup {loader[t].plugin}]
    /\ loader' = [loader EXCEPT ![t] = NoLoad]
    /\ UNCHANGED <<cfg, listed, hole, scan, main, agent, worker, crash>>

\* The second critical section does not look again whether the plugin is listed.  The web
\* interface then looks for a channel whose plugin_ref is the copy find_plugin has made for
\* it, finds none and starts none.
Enlist(t) ==
    /\ loader[t].pc = "enlist"
    /\ listed' = listed \cup {[plugin |-> loader[t].plugin, by |-> t]}
    /\ loader' = [loader EXCEPT ![t] = NoLoad]
    /\ UNCHANGED <<cfg, lib, registry, channels, hole, providers, scan, main, agent, worker, crash,
                   seen>>

Load(t) == \/ AlreadyLoaded(t) \/ OpenLibrary(t) \/ CannotOpen(t)
           \/ PluginInit(t) \/ PluginInitFails(t) \/ Enlist(t)

-----------------------------------------------------------------------------
(* plugin_manager_load_external, for main and for /reload-plugins.         *)

\* It goes through the files it has found, in the order of the directory.
NextLibrary == CHOOSE p \in scan.left : TRUE
LoadExternal ==
    /\ scan.left # {} /\ loader["external"] = NoLoad
    /\ scan' = [scan EXCEPT !.left = @ \ {NextLibrary}]
    /\ loader' = [loader EXCEPT !["external"] =
                     IF NextLibrary \in cfg.enabled THEN [plugin |-> NextLibrary, pc |-> "open"]
                     ELSE NoLoad]
    /\ UNCHANGED <<cfg, lib, listed, registry, channels, hole, providers, main, agent, worker,
                   crash, seen>>

Scanned == scan.left = {} /\ loader["external"] = NoLoad

\* cmd_reload_plugins, in the thread of the agent that takes commands.  It starts no channel.
Reload ==
    /\ agent.st = "running" /\ Scanned /\ Requestable
    /\ scan' = [left |-> Plugins, times |-> scan.times + 1]
    /\ UNCHANGED <<cfg, lib, listed, registry, channels, hole, providers, loader, main, agent,
                   worker, crash, seen>>

-----------------------------------------------------------------------------
(* main: start-up.                                                         *)

\* The provider asked for, if it is there; otherwise the one that is built in.
Wanted == IF NameTaken(Other) THEN CHOOSE q \in providers : q.name = Other
          ELSE CHOOSE q \in providers : q.name = OpenAI

\* Services, built-in tools, the console and the agent loop are made.
MakeAgent ==
    /\ main.pc = "load" /\ Scanned
    /\ agent' = [agent EXCEPT !.provider = Wanted]
    /\ registry' = registry \cup {Builtin}
    /\ main' = [main EXCEPT !.pc = "start"]
    /\ UNCHANGED <<cfg, lib, listed, channels, hole, providers, loader, scan, worker, crash, seen>>

\* main asks every channel of the array to start, also those added meanwhile.
StartChannel(c) ==
    /\ main.pc = "start" /\ hole = {} /\ c.st = "made" /\ Usable(c)
    /\ channels' = (channels \ {c}) \cup {[c EXCEPT !.st = "running"]}
    /\ UNCHANGED <<cfg, lib, listed, registry, hole, providers, loader, scan, main, agent, worker,
                   crash, seen>>

StartThreads ==
    /\ main.pc = "start" /\ \A c \in channels : c.st # "made"
    /\ main' = [main EXCEPT !.pc = "serve"]
    /\ agent' = [agent EXCEPT !.st = "running"]
    /\ UNCHANGED <<cfg, lib, listed, registry, channels, hole, providers, loader, scan, worker,
                   crash, seen>>

-----------------------------------------------------------------------------
(* The agent, a tool worker, the outbound thread and the channels' threads. *)

IsTool(e) == IF e = Builtin THEN TRUE ELSE Kind[e.plugin] = "tool"

\* The agent hands a tool to a worker.
RunTool(e) ==
    /\ agent.st = "running" /\ worker = NoTool
    /\ IsTool(e) /\ Valid(e)
    /\ worker' = e
    /\ UNCHANGED <<cfg, lib, listed, registry, channels, hole, providers, loader, scan, main, agent,
                   crash, seen>>

ToolReturns ==
    /\ worker # NoTool /\ Valid(worker)
    /\ worker' = NoTool
    /\ UNCHANGED <<cfg, lib, listed, registry, channels, hole, providers, loader, scan, main, agent,
                   crash, seen>>

\* tool_registry_execute, cmd handlers and the fallback of the tool router follow what the
\* registry has.
AgentFollows(e) ==
    /\ agent.st = "running" /\ Dangles(e)
    /\ Crashes("agent", e.plugin)

\* trigger_llm_async: the provider's own thread will call back.
AgentAsks ==
    /\ agent.st = "running" /\ ~agent.asked
    /\ agent' = [agent EXCEPT !.asked = TRUE]
    /\ UNCHANGED <<cfg, lib, listed, registry, channels, hole, providers, loader, scan, main,
                   worker, crash, seen>>

\* handle_llm_callback sends the result to the bus of the loop it was given.
ProviderAnswers ==
    /\ agent.asked
    /\ \/ /\ main.pc # "done"
          /\ agent' = [agent EXCEPT !.asked = FALSE]
          /\ UNCHANGED <<cfg, lib, listed, registry, channels, hole, providers, loader, scan, main,
                         worker, crash, seen>>
       \/ /\ main.pc = "done"
          /\ Crashes("provider", agent.provider.plugin)

WorkerFollows ==
    /\ worker # NoTool /\ (Dangles(worker) \/ main.freed # {})
    /\ Crashes("worker", worker.plugin)

\* outbound_thread asks every entry of the array whether the reply is for it.
Dispatching == main.pc \in {"serve", "outbound"}
DispatchTo(c) ==
    /\ Dispatching /\ Dangles(c)
    /\ Crashes("outbound", c.plugin)
DispatchHole(p) ==
    /\ Dispatching /\ p \in hole
    /\ Crashes("outbound", p)

\* The thread of a channel runs in the plugin's code, and with the data that the destroy of
\* a channel frees.
ChannelRuns(c) ==
    /\ \/ c.st = "running" /\ Dangles(c)
       \/ c.st = "orphan"
    /\ Crashes("channel", c.plugin)

-----------------------------------------------------------------------------
(* handle_control_plugin_enable, in the server thread of the web interface. *)

Serving == \E c \in channels : c.plugin = WebUi /\ c.st = "running" /\ Valid(c)

\* Mutant: every kind of plugin can be switched.
SwitchableAll(p) == TRUE

\* The identifier of a plugin that may be switched says that it is one of three kinds.
Switchable(p) == Kind[p] \in {"channel", "tool", "command"}

CanSwitch(p) ==
    /\ Serving /\ loader["server"] = NoLoad /\ Requestable /\ Switchable(p)

\* find_plugin, outside of what load_plugin does under the lock.
SwitchOn(p) ==
    /\ CanSwitch(p)
    /\ cfg' = [cfg EXCEPT !.enabled = @ \cup {p}, !.switches = @ + 1]
    /\ loader' = [loader EXCEPT !["server"] =
                     IF IsListed(p) THEN NoLoad ELSE [plugin |-> p, pc |-> "open"]]
    /\ UNCHANGED <<lib, listed, registry, channels, hole, providers, scan, main, agent, worker,
                   crash, seen>>

\* The channel is stopped, destroyed and struck out only if it knows its plugin, l.
Struck(l) == {c \in channels : /\ c.plugin = l.plugin /\ c.by = l.by /\ l.plugin \in Linked
                               /\ c.st \in {"made", "running"}}

\* plugin_manager_unload_plugin, for an entry l of the list, forgets the providers, and
\* nothing else, that it has registered.  Which of two entries of a plugin is found first is
\* not modelled.
Unload(l) ==
    /\ channels' = channels \ Struck(l)
    /\ hole' = hole \cup {c.plugin : c \in Struck(l)}
    /\ providers' = {q \in providers : q.plugin # l.plugin}
    /\ lib' = [lib EXCEPT ![l.plugin].held = @ \ {l.by}]
    /\ listed' = listed \ {l}
    /\ seen' = [seen EXCEPT !.off = @ \cup {l.plugin}]

SwitchOff(p) ==
    /\ CanSwitch(p)
    /\ cfg' = [cfg EXCEPT !.enabled = @ \ {p}, !.switches = @ + 1]
    /\ \/ \E l \in listed : l.plugin = p /\ Unload(l)
       \/ ~IsListed(p) /\ UNCHANGED <<channels, hole, providers, lib, listed, seen>>
    /\ UNCHANGED <<registry, loader, scan, main, agent, worker, crash>>

\* The walk over the array of channels, after a load and before an unload, meets one that
\* main has destroyed; if that does not end the process, it passes by.
WalksFreed(c) ==
    /\ c.st \in {"orphan", "gone"}
    /\ \/ loader["server"].pc = "enlist" /\ Kind[loader["server"].plugin] = "channel"
       \/ \E l \in listed : CanSwitch(l.plugin) /\ Kind[l.plugin] = "channel"
    /\ Crashes("server", c.plugin)

-----------------------------------------------------------------------------
(* main: clean-up.                                                         *)

\* The agent loop ends, and with it the thread that takes commands: main, which joins them,
\* closes the bus.
AgentEnds ==
    /\ main.pc = "serve" /\ Scanned
    /\ agent' = [agent EXCEPT !.st = "ended"]
    /\ main' = [main EXCEPT !.pc = "outbound"]
    /\ UNCHANGED <<cfg, lib, listed, registry, channels, hole, providers, loader, scan, worker,
                   crash, seen>>

\* main joins the outbound thread.
JoinOutbound ==
    /\ main.pc = "outbound"
    /\ main' = [main EXCEPT !.pc = "channels"]
    /\ UNCHANGED <<cfg, lib, listed, registry, channels, hole, providers, loader, scan, agent,
                   worker, crash, seen>>

\* What main waits for has no time limit: a send of the outbound thread, the thread of a
\* channel, a process that a plugin has started, a tool.
Hangs ==
    /\ main.pc \in {"outbound", "channels", "plugins"} \/ (main.pc = "loop" /\ worker # NoTool)
    /\ ~seen.hung
    /\ seen' = [seen EXCEPT !.hung = TRUE]
    /\ UNCHANGED <<cfg, lib, listed, registry, channels, hole, providers, loader, scan, main, agent,
                   worker, crash>>

\* Mutant: a channel that was never started cannot be stopped.
StartedOnly(c) == c.st = "running"

Stoppable(c) == c.st \in {"made", "running"}

\* Mutant: no channel waits for its thread.
WaitsNever(c) == FALSE

Waits(c) == c.plugin \notin Unjoined

\* ch->stop and ch->destroy.  The web interface finishes the request it is at.  A destroyed
\* channel stays in the array.
StopChannel(c) ==
    /\ main.pc = "channels" /\ hole = {} /\ Stoppable(c) /\ Usable(c)
    /\ c.plugin = WebUi => loader["server"] = NoLoad
    /\ channels' = (channels \ {c})
                     \cup {[c EXCEPT !.st = IF c.st = "running" /\ ~Waits(c)
                                            THEN "orphan" ELSE "gone"]}
    /\ UNCHANGED <<cfg, lib, listed, registry, hole, providers, loader, scan, main, agent, worker,
                   crash, seen>>

\* main starts or stops a channel whose code is gone, or that is not there.
MainFollows(c) ==
    /\ \/ main.pc = "start" /\ c.st = "made"
       \/ main.pc = "channels" /\ c.st \in {"made", "running"}
    /\ Dangles(c)
    /\ Crashes("main", c.plugin)
MainHole(p) ==
    /\ main.pc \in {"start", "channels"} /\ p \in hole
    /\ Crashes("main", p)

OrphanEnds(c) ==
    /\ c.st = "orphan" /\ Valid(c)
    /\ channels' = (channels \ {c}) \cup {[c EXCEPT !.st = "gone"]}
    /\ UNCHANGED <<cfg, lib, listed, registry, hole, providers, loader, scan, main, agent, worker,
                   crash, seen>>

ChannelsDone == \A c \in channels : c.st \notin {"made", "running"}

\* Cron, subagents, skills, memory and the tool context.
FreeServices ==
    /\ main.pc = "channels" /\ ChannelsDone /\ hole = {}
    /\ main' = [main EXCEPT !.pc = "plugins", !.freed = @ \cup {"services"}]
    /\ UNCHANGED <<cfg, lib, listed, registry, channels, hole, providers, loader, scan, agent,
                   worker, crash, seen>>

\* plugin_manager_free: the providers of each plugin are shut down, and give the answers
\* they owe, before its code goes.
FreePlugins ==
    /\ main.pc = "plugins"
    /\ providers' = {q \in providers : ~IsListed(q.plugin)}
    /\ lib' = [p \in Plugins |->
                  [lib[p] EXCEPT !.held = {t \in @ : [plugin |-> p, by |-> t] \notin listed}]]
    /\ listed' = {}
    /\ main' = [main EXCEPT !.pc = "loop", !.freed = @ \cup {"plugins"}]
    /\ agent' = [agent EXCEPT !.asked = @ /\ ~IsListed(agent.provider.plugin)]
    /\ UNCHANGED <<cfg, registry, channels, hole, loader, scan, worker, crash, seen>>

\* agent_loop_free joins the workers of the tool executor.
FreeAgent ==
    /\ main.pc = "loop" /\ worker = NoTool
    /\ main' = [main EXCEPT !.pc = "done"]
    /\ UNCHANGED <<cfg, lib, listed, registry, channels, hole, providers, loader, scan, agent,
                   worker, crash, seen>>

MainWork ==
    /\ ~seen.hung
    /\ \/ MakeAgent \/ StartThreads \/ JoinOutbound
       \/ \E p \in Plugins : MainHole(p)
       \/ \E c \in channels : StartChannel(c) \/ StopChannel(c) \/ MainFollows(c)
       \/ FreeServices \/ FreePlugins \/ FreeAgent
WorkerWork == ToolReturns \/ WorkerFollows

PlugNext ==
    /\ PlugAlive
    /\ \/ \E t \in Loaders : Load(t)
       \/ LoadExternal \/ Reload \/ MainWork \/ Hangs \/ WorkerWork
       \/ AgentEnds \/ AgentAsks \/ ProviderAnswers
       \/ \E p \in Plugins : SwitchOn(p) \/ SwitchOff(p) \/ DispatchHole(p)
       \/ \E e \in registry : RunTool(e) \/ AgentFollows(e)
       \/ \E c \in channels : DispatchTo(c) \/ ChannelRuns(c) \/ OrphanEnds(c) \/ WalksFreed(c)

\* main, unless it waits for ever, and the loading threads run; a tool comes to its end.
PlugFairness ==
    /\ \A t \in Loaders : WF_plugVars(PlugAlive /\ Load(t))
    /\ WF_plugVars(PlugAlive /\ LoadExternal)
    /\ WF_plugVars(PlugAlive /\ MainWork)
    /\ WF_plugVars(PlugAlive /\ WorkerWork)

PlugSpec == PlugInit /\ [][PlugNext]_plugVars
PlugFairSpec == PlugSpec /\ PlugFairness

-----------------------------------------------------------------------------
(* Properties.                                                             *)

\* Until the plugin manager is freed, what is registered belongs to a plugin that is loaded
\* or being loaded, at the place it was registered from, unless the plugin was switched off;
\* also when both loaders load one plugin at a time, and one of them fails.
RegisteredIsLive ==
    "plugins" \notin main.freed =>
        \A e \in registry \cup {c \in channels : c.st # "gone"} :
            \/ /\ Valid(e)
               /\ \/ e = Builtin \/ IsListed(e.plugin)
                  \/ \E t \in Loaders : loader[t].plugin = e.plugin
            \/ e.plugin \in seen.off

\* The provider the agent calls is registered and its code is there; no two have one name.
ProviderAlive ==
    /\ agent.st = "running" =>
         /\ agent.provider \in providers
         /\ agent.provider.plugin = Nothing \/ Mapped(agent.provider.plugin)
    /\ \A q, r \in providers : q.name = r.name => q = r

\* Requests of the web interface are served only while the services, the plugin manager and
\* the agent loop they refer to are there; of the channels, see below.
ServedWhileThere == Serving => main.freed = {}

\* The process ends early only for what a switched off plugin has left behind; for a tool
\* that outlives the agent; for a channel that does not wait for its thread; for a request of
\* the web interface that meets a channel main has destroyed; or for an answer of the
\* built-in provider, which main does not shut down.
CrashesExplained ==
    crash.by # Nothing =>
        \/ crash.plugin \in seen.off
        \/ crash.by = "worker" /\ agent.st = "ended"
        \/ crash.by = "channel" /\ crash.plugin \in Unjoined /\ agent.st = "ended"
        \/ crash.by = "server" /\ main.pc = "channels"
        \/ crash.by = "provider" /\ crash.plugin = Nothing /\ main.pc = "done"

\* plugins/README.md: "automatically loaded on startup".  When main starts to serve, every
\* enabled plugin is loaded, or failed by itself; a channel that wants the agent loop never
\* is, because the loop is made after the plugins are loaded.
LoadedAtStart ==
    main.pc = "serve" /\ cfg.switches = 0 /\ scan.times = 0 =>
        /\ \A p \in cfg.enabled \ NeedsLoop : IsListed(p) \/ p \in seen.failed
        /\ \A l \in listed : l.plugin \in cfg.enabled \ NeedsLoop

PluginsSafe ==
    RegisteredIsLive /\ ProviderAlive /\ ServedWhileThere /\ CrashesExplained /\ LoadedAtStart

\* Start-up comes to an end, and so does the clean-up, whatever the web interface is doing;
\* unless one of the things that main waits for without a time limit never happens.
ShutdownEnds ==
    main.pc \notin {"load", "serve"} ~> main.pc \in {"serve", "done"} \/ ~PlugAlive \/ seen.hung
=============================================================================
