------------------------------- MODULE Memory -------------------------------
(***************************************************************************)
(* Long-term memory (src/src/memory/memory.c): the facts of MEMORY.md and  *)
(* the log of HISTORY.md, as text in memory and on disk.                   *)
(*                                                                         *)
(* Two kinds of thread use them.  Tool workers run tool_memory, a series   *)
(* of calls that each lock the mutex for themselves.  The agent's worker   *)
(* logs and consolidates, and builds the prompt                            *)
(* (context_builder_build_with_channel): it reads the file again when its  *)
(* time stamp has changed, and copies the facts when their version has.    *)
(* Files are rewritten in place, and the process may die at any moment.    *)
(***************************************************************************)
EXTENDS Integers, FiniteSets, SequencesExt

CONSTANTS Workers,        \* tool workers
          NoText,         \* an argument that is not given
          Requests,       \* arguments of the memory tool: content, entry and update
          LogEntries,     \* entries of the agent itself
          Edits,          \* contents that another program gives MEMORY.md
          StartsWith,     \* [fact |-> the facts it starts with, itself included]
          FactCap,        \* MEMORY_HARD_CAP_BYTES, in facts
          HistoryCap,     \* HISTORY_HARD_CAP_BYTES, in lines
          TokenLimit,     \* max_tokens * consolidation_threshold, in facts and lines
          NewlinesKept,   \* entries_to_keep
          MaxPromoted,    \* old lines that become facts
          MaxClock,       \* bound: seconds
          MaxToolCalls,   \* bound: runs of the tool
          MaxLogs,        \* bound: entries of the agent
          MaxMishaps      \* bound: deaths of the process, edits, opens, reads and writes that fail

ASSUME MemoryAssumption ==
    /\ {FactCap, HistoryCap, TokenLimit, NewlinesKept, MaxPromoted} \subseteq Nat \ {0}
    /\ {MaxClock, MaxToolCalls, MaxLogs, MaxMishaps} \subseteq Nat
    /\ \A r \in Requests : r.update # NoText => \A f \in r.update : f \in StartsWith[f]

Blank == ""
Marker == "[Previous history consolidated to save space]"

VARIABLES files,    \* MEMORY.md: facts and time stamp, 0 without it; HISTORY.md: its lines
          buffer,   \* memory_md, history_md and version; has memory_load been called
          prompt,   \* the builder's copy of the facts, if made, and the stamp and version it has
          agentAt,  \* the agent's worker: where it is, stamp and version it has read
          tools,    \* each tool worker: calls still to make; history: facts and entry given
          clock,
          spent,    \* tool runs, entries of the agent and mishaps so far
          facts,    \* history: facts that a tool run has reported as remembered
          entries,  \* history: entries that a tool run has reported as logged
          excused   \* history: what was lost, and why

memoryVars == <<files, buffer, prompt, agentAt, tools, clock, spent, facts, entries, excused>>

NoRun == [todo |-> << >>, req |-> NoText, given |-> {}, logged |-> {}, busy |-> FALSE]
Fresh == [facts |-> {}, history |-> << >>, version |-> 1, read |-> FALSE]
NoPrompt == [made |-> FALSE, copy |-> {}, stamp |-> 0, version |-> 0]
AtRest == [pc |-> "idle", stamp |-> 0, version |-> 0]

\* memory_new_with_config and context_builder_new read nothing.  MEMORY.md is there if the
\* workspace was set up.
MemoryStart(there) ==
    /\ files = [facts |-> {}, stamp |-> IF there THEN 1 ELSE 0, history |-> << >>]
    /\ buffer = Fresh /\ prompt = NoPrompt /\ agentAt = AtRest
    /\ tools = [w \in Workers |-> NoRun]
    /\ clock = 1
    /\ spent = [runs |-> 0, logs |-> 0, mishaps |-> 0]
    /\ facts = {} /\ entries = {} /\ excused = {}

MemoryInit == \E there \in BOOLEAN : MemoryStart(there)

-----------------------------------------------------------------------------
(* The text in memory.                                                     *)

\* strstr finds "- fact" also at the start of a longer fact.
FactExists(f, F) == \E g \in F : f \in StartsWith[g]
Known(F) == UNION {StartsWith[g] : g \in F}

AddFact(F, f) == IF FactExists(f, F) \/ Cardinality(F) >= FactCap THEN F ELSE F \cup {f}

AppendHistory(h, e) == IF Len(h) >= HistoryCap THEN h ELSE Append(h, e)

\* memory_set_facts refuses a text of less than a third of the old one.
Rejected(F, u) == Cardinality(F) > 1 /\ Cardinality(u) < Cardinality(F) \div 3

Tokens(b) ==
    Cardinality(b.facts) + Cardinality({i \in 1..Len(b.history) : b.history[i] # Blank})
NeedsConsolidation(b) == Tokens(b) > TokenLimit

\* Each line ends in a newline, so the fifth from the end is the end of the last line but
\* four: that line goes too, and its newline stays.
Cut(h) ==
    LET i == Len(h) - NewlinesKept + 1
    IN  IF i < 1 \/ (i = 1 /\ h[1] = Blank) THEN 0 ELSE i

OldPart(h) == SubSeq(h, 1, Cut(h))

NewHistory(h) ==
    IF Cut(h) = 0 THEN h
    ELSE <<Blank, Blank, Marker, Blank>> \o SubSeq(h, Cut(h) + 1, Len(h))

\* The first old lines that are no facts yet become facts.
Promoted(F, old) ==
    LET step(acc, l) ==
            IF l \in {Blank, Marker} \/ acc.added >= MaxPromoted \/ FactExists(l, F \cup acc.new)
            THEN acc
            ELSE [new |-> AddFact(F \cup acc.new, l) \ F, added |-> acc.added + 1]
    IN  F \cup FoldLeft(step, [new |-> {}, added |-> 0], old).new

ConsolidatedText(b) ==
    [b EXCEPT !.facts = Promoted(b.facts, OldPart(b.history)),
              !.history = NewHistory(b.history),
              !.version = @ + 1]

-----------------------------------------------------------------------------
(* The files.                                                              *)

Saved(b) == [facts |-> b.facts, stamp |-> clock, history |-> b.history]

\* A file is emptied when it is opened, and a write that fails, or a process that dies,
\* leaves a part of the text in it.  Half: HISTORY.md is still what it was.
Beginnings(h) == {SubSeq(h, 1, n) : n \in 0..Len(h)}
Written(b) ==
    {[facts |-> F, stamp |-> clock, history |-> h] :
        F \in SUBSET b.facts, h \in Beginnings(b.history)}
HalfWritten(b) ==
    {[facts |-> F, stamp |-> clock, history |-> files.history] : F \in SUBSET b.facts}

\* Of these facts and entries, those that a text lacks.
Missing(F, E, text) == (F \ Known(text.facts)) \cup (E \ ToSet(text.history))

\* Lines of HISTORY.md that a save of b removes from it.
Overwritten(b) == ToSet(files.history) \ ToSet(b.history)

\* A process that has not read the files does not know what they hold.
Unread(b) == IF b.read THEN {} ELSE Overwritten(b) \X {"unread"}

Mishap == spent.mishaps < MaxMishaps /\ spent' = [spent EXCEPT !.mishaps = @ + 1]

-----------------------------------------------------------------------------
(* tool_memory.                                                            *)

\* What was reported as remembered, or will be without another save.
Kept == facts \cup UNION {tools[w].given : w \in {v \in Workers : tools[v].todo = << >>}}
AllLogged == entries \cup UNION {tools[w].logged : w \in Workers}

\* The calls a run makes, in their order.
Calls(r) ==
    (IF r.content # NoText /\ r.update = NoText THEN <<"fact">> ELSE << >>)
      \o (IF r.entry # NoText THEN <<"entry">> ELSE << >>)
      \o (IF r.update # NoText THEN <<"update">> ELSE << >>)
      \o (IF r.content # NoText \/ r.update # NoText THEN <<"save">> ELSE << >>)

\* The model has been asked, with a prompt, before it calls a tool.
CallMemory(w, r) ==
    /\ ~tools[w].busy /\ prompt.made /\ spent.runs < MaxToolCalls
    /\ tools' = [tools EXCEPT ![w] = [NoRun EXCEPT !.todo = Calls(r), !.req = r, !.busy = TRUE]]
    /\ spent' = [spent EXCEPT !.runs = @ + 1]
    /\ UNCHANGED <<files, buffer, prompt, agentAt, clock, facts, entries, excused>>

At(w, call) == tools[w].busy /\ tools[w].todo # << >> /\ Head(tools[w].todo) = call
Done(w) == [tools[w] EXCEPT !.todo = Tail(@)]

\* The run returns the error; what it has changed in memory stays there.
GivesUp(w) ==
    /\ tools' = [tools EXCEPT ![w] = NoRun]
    /\ UNCHANGED <<prompt, agentAt, clock, facts, entries>>

MemoryAddFact(w) ==
    LET f == tools[w].req.content
        F == AddFact(buffer.facts, f)
    IN  /\ At(w, "fact")
        /\ buffer' = [buffer EXCEPT !.facts = F, !.version = @ + 1]
        /\ tools' = [tools EXCEPT ![w] = [Done(w) EXCEPT !.given = {f}]]
        /\ excused' = excused \cup (IF FactExists(f, F) THEN {} ELSE {<<f, "cap">>})
        /\ UNCHANGED <<files, prompt, agentAt, clock, spent, facts, entries>>

\* Mutant: only the file is appended to.
LoggedInFile(e) ==
    /\ files' = [files EXCEPT !.history = Append(@, e)]
    /\ buffer' = [buffer EXCEPT !.version = @ + 1]
    /\ UNCHANGED excused

\* The file gets the entry whatever becomes of the copy in memory.
Logged(e) ==
    /\ files' = [files EXCEPT !.history = Append(@, e)]
    /\ buffer' = [buffer EXCEPT !.history = AppendHistory(@, e), !.version = @ + 1]
    /\ excused' = excused \cup (IF Len(buffer.history) >= HistoryCap THEN {<<e, "cap">>} ELSE {})

\* Nobody looks at what fputs and fclose return: a line that is not written, or not in
\* full, counts as written.
LoggedShort(e) ==
    /\ Mishap
    /\ buffer' = [buffer EXCEPT !.history = AppendHistory(@, e), !.version = @ + 1]
    /\ excused' = excused \cup {<<e, "write">>}
    /\ UNCHANGED files

MemoryAppendHistory(w) ==
    /\ At(w, "entry")
    /\ \/ /\ \/ Logged(tools[w].req.entry) /\ UNCHANGED spent
             \/ LoggedShort(tools[w].req.entry)
          /\ tools' = [tools EXCEPT ![w] = [Done(w) EXCEPT !.logged = {tools[w].req.entry}]]
          /\ UNCHANGED <<prompt, agentAt, clock, facts, entries>>
       \/ /\ Mishap
          /\ GivesUp(w)
          /\ UNCHANGED <<files, buffer, excused>>

\* The update is meant to replace the facts, those that others have just given too.
MemorySetFacts(w) ==
    LET u == tools[w].req.update
    IN  /\ At(w, "update")
        /\ \/ /\ ~Rejected(buffer.facts, u)
              /\ buffer' = [buffer EXCEPT !.facts = u, !.version = @ + 1]
              /\ facts' = facts \cap Known(u)
              /\ tools' = [v \in Workers |->
                             IF v = w THEN [Done(w) EXCEPT !.given = u]
                             ELSE [tools[v] EXCEPT !.given = @ \cap Known(u)]]
              /\ UNCHANGED <<files, prompt, agentAt, clock, spent, entries, excused>>
           \/ /\ Rejected(buffer.facts, u)
              /\ GivesUp(w)
              /\ UNCHANGED <<files, buffer, spent, excused>>

\* A file that cannot be opened is an error; a write that fails is not noticed.
MemorySave(w) ==
    /\ At(w, "save")
    /\ UNCHANGED buffer
    /\ \/ /\ files' = Saved(buffer)
          /\ excused' = excused \cup Unread(buffer)
          /\ tools' = [tools EXCEPT ![w] = Done(w)]
          /\ UNCHANGED <<prompt, agentAt, clock, spent, facts, entries>>
       \/ /\ Mishap
          /\ files' \in {files} \cup HalfWritten(buffer)
          /\ GivesUp(w)
          /\ excused' = excused \cup (Missing(Kept, {}, files') \X {"write"})
       \/ /\ Mishap
          /\ files' \in Written(buffer)
          /\ tools' = [tools EXCEPT ![w] = Done(w)]
          /\ excused' = excused \cup
               (Missing(Kept \cup tools[w].given, AllLogged, files') \X {"write"})
          /\ UNCHANGED <<prompt, agentAt, clock, facts, entries>>

\* "Memory consolidated/updated successfully"
Succeed(w) ==
    /\ tools[w].busy /\ tools[w].todo = << >>
    /\ facts' = facts \cup tools[w].given
    /\ entries' = entries \cup tools[w].logged
    /\ tools' = [tools EXCEPT ![w] = NoRun]
    /\ UNCHANGED <<files, buffer, prompt, agentAt, clock, spent, excused>>

-----------------------------------------------------------------------------
(* The agent's worker.                                                     *)

\* maybe_auto_consolidate_memory.
AutoAppend(e) ==
    /\ agentAt.pc = "idle" /\ spent.logs < MaxLogs
    /\ \/ /\ Logged(e)
          /\ agentAt' = [agentAt EXCEPT !.pc = "consolidate"]
          /\ spent' = [spent EXCEPT !.logs = @ + 1]
       \/ /\ LoggedShort(e)
          /\ agentAt' = [agentAt EXCEPT !.pc = "consolidate"]
       \/ /\ Mishap
          /\ agentAt' = [agentAt EXCEPT !.pc = "stat"]
          /\ UNCHANGED <<files, buffer, excused>>
    /\ UNCHANGED <<prompt, tools, clock, facts, entries>>

\* What is cut off the history is meant to go.
AutoConsolidate ==
    /\ agentAt.pc = "consolidate"
    /\ agentAt' = [agentAt EXCEPT !.pc = "stat"]
    /\ \/ /\ ~NeedsConsolidation(buffer)
          /\ UNCHANGED <<files, buffer, tools, spent, entries, excused>>
       \/ /\ NeedsConsolidation(buffer)
          /\ buffer' = ConsolidatedText(buffer)
          /\ LET old == ToSet(OldPart(buffer.history))
             IN  /\ entries' = entries \ old
                 /\ tools' = [w \in Workers |-> [tools[w] EXCEPT !.logged = @ \ old]]
          /\ \/ /\ files' = Saved(buffer')
                /\ excused' = excused \cup Unread(buffer)
                /\ UNCHANGED spent
             \/ /\ Mishap
                /\ files' \in {files} \cup HalfWritten(buffer') \cup Written(buffer')
                /\ excused' = excused \cup (Missing(Kept, AllLogged', files') \X {"write"})
    /\ UNCHANGED <<prompt, clock, facts>>

\* Mutant: the first prompt is made of what is in memory.
FileChangedLater(stamp) == prompt.made /\ stamp > prompt.stamp

\* The time stamp is read without the mutex.
FileChanged(stamp) == stamp > prompt.stamp

BuildStat ==
    /\ agentAt.pc \in {"idle", "stat"}
    /\ agentAt' = [agentAt EXCEPT !.stamp = files.stamp,
                                  !.pc = IF FileChanged(files.stamp) THEN "load" ELSE "version"]
    /\ UNCHANGED <<files, buffer, prompt, tools, clock, spent, facts, entries, excused>>

\* memory_load.  What a tool run has added and not yet saved is gone.
MemoryLoad ==
    /\ agentAt.pc = "load"
    /\ buffer' = [facts |-> files.facts, history |-> files.history,
                  version |-> buffer.version + 1, read |-> TRUE]
    /\ agentAt' = [agentAt EXCEPT !.pc = "version"]
    /\ excused' = excused \cup
         (((UNION {tools[w].given : w \in Workers}) \ Known(files.facts)) \X {"reload"})
    /\ UNCHANGED <<files, prompt, tools, clock, spent, facts, entries>>

\* A file that cannot be read.  MEMORY.md that cannot be opened counts as missing: the
\* default text takes its place, in memory too, or if that fails nothing changes; HISTORY.md
\* counts as empty.  Without memory for the text nothing changes, and a read that fails
\* gives a part of it.
MemoryLoadFails ==
    /\ agentAt.pc = "load"
    /\ Mishap
    /\ \E F \in SUBSET files.facts \cup {buffer.facts},
          h \in Beginnings(files.history) \cup {buffer.history} :
         /\ buffer' = [facts |-> F, history |-> h, version |-> buffer.version + 1, read |-> TRUE]
         /\ \/ UNCHANGED files
            \/ F = {} /\ files' = [files EXCEPT !.facts = {}, !.stamp = clock]
    /\ agentAt' = [agentAt EXCEPT !.pc = "version"]
    /\ excused' = excused \cup
         (Missing(facts \cup UNION {tools[w].given : w \in Workers}, AllLogged, buffer')
            \X {"unreadable"})
    /\ UNCHANGED <<prompt, tools, clock, facts, entries>>

GetVersion ==
    /\ agentAt.pc = "version"
    /\ agentAt' = [agentAt EXCEPT !.pc = "copy", !.version = buffer.version]
    /\ UNCHANGED <<files, buffer, prompt, tools, clock, spent, facts, entries, excused>>

\* Mutant: the version is the one at the time of the copy before.
CopiedLate ==
    [made |-> TRUE, copy |-> prompt.copy, stamp |-> agentAt.stamp, version |-> buffer.version]

Copied ==
    IF ~prompt.made \/ FileChanged(agentAt.stamp) \/ agentAt.version # prompt.version
    THEN [made |-> TRUE, copy |-> buffer.facts, stamp |-> agentAt.stamp,
          version |-> agentAt.version]
    ELSE prompt

BuildCopy ==
    /\ agentAt.pc = "copy"
    /\ prompt' = Copied
    /\ agentAt' = AtRest
    /\ UNCHANGED <<files, buffer, tools, clock, spent, facts, entries, excused>>

-----------------------------------------------------------------------------
(* The world.                                                              *)

SecondPasses ==
    /\ clock < MaxClock /\ clock' = clock + 1
    /\ UNCHANGED <<files, buffer, prompt, agentAt, tools, spent, facts, entries, excused>>

\* Another program, or a file tool of the agent, writes MEMORY.md.
EditFile(F) ==
    /\ files.facts # F /\ Mishap
    /\ files' = [files EXCEPT !.facts = F, !.stamp = clock]
    /\ facts' = facts \cap Known(F)
    /\ tools' = [w \in Workers |->
                   [tools[w] EXCEPT !.given = IF tools[w].todo = << >> THEN @ \cap Known(F) ELSE @]]
    /\ UNCHANGED <<buffer, prompt, agentAt, clock, entries, excused>>

Dies ==
    /\ Mishap
    /\ buffer' = Fresh /\ prompt' = NoPrompt /\ agentAt' = AtRest
    /\ tools' = [w \in Workers |-> NoRun]
    /\ UNCHANGED <<clock, facts, entries>>

DieBetween == Dies /\ UNCHANGED <<files, excused>>

\* The text that a tool's memory_save, or a consolidation, is about to write.
BeingSaved ==
    {b \in {buffer} : \E w \in Workers : At(w, "save")}
      \cup {ConsolidatedText(b) : b \in {c \in {buffer} : /\ agentAt.pc = "consolidate"
                                                         /\ NeedsConsolidation(c)}}

DieInSave ==
    /\ Dies
    /\ \E b \in BeingSaved : files' \in HalfWritten(b) \cup Written(b)
    /\ excused' = excused \cup (Missing(facts, entries, files') \X {"torn"})

MemoryNext ==
    \/ \E w \in Workers :
         \/ \E r \in Requests : CallMemory(w, r)
         \/ MemoryAddFact(w) \/ MemoryAppendHistory(w) \/ MemorySetFacts(w) \/ MemorySave(w)
         \/ Succeed(w)
    \/ \E e \in LogEntries : AutoAppend(e)
    \/ AutoConsolidate \/ BuildStat \/ MemoryLoad \/ MemoryLoadFails \/ GetVersion \/ BuildCopy
    \/ SecondPasses \/ DieBetween \/ DieInSave
    \/ \E F \in Edits : EditFile(F)

MemorySpec == MemoryInit /\ [][MemoryNext]_memoryVars

-----------------------------------------------------------------------------
(* Properties.                                                             *)

\* How text can get lost: the memory is full; a file is read again before a run has saved
\* to it; a process saves without having read the files; it dies in a save; a write fails
\* unnoticed; a file cannot be read, and the next save writes over it.
Reasons == {"cap", "reload", "unread", "torn", "write", "unreadable"}
Excused(x) == \E why \in Reasons : <<x, why>> \in excused

\* A prompt of the current version has the current facts: no change between reading the
\* version and copying the facts stays unseen.
PromptCurrent == prompt.version = buffer.version => prompt.copy = buffer.facts

\* A fact that the tool has reported as remembered is in the file, across other runs,
\* consolidations, new processes and files that cannot be opened for writing, until an
\* update or an edit leaves it out; unless it was lost in one of the ways that Reasons
\* lists, which memory.c does not prevent.
FactsKept == \A f \in facts : FactExists(f, files.facts) \/ Excused(f)

\* An entry that the tool has reported as logged is in HISTORY.md until a consolidation
\* cuts it off; unless a process that found no MEMORY.md, and so never read HISTORY.md
\* either, has saved its own; or it was lost in another of the ways of Reasons.
HistoryKept == \A e \in entries : e \in ToSet(files.history) \/ Excused(e)

MemorySafe == PromptCurrent /\ FactsKept /\ HistoryKept
=============================================================================
