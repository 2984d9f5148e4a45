----------------------------- MODULE MCRecords -----------------------------
(***************************************************************************)
(* Small instances of what the program keeps: a session file across deaths *)
(* of the process, the window of a session that the model is sent, and the *)
(* long-term memory.  They share no state, so a behaviour is one of a      *)
(* single model, chosen at the start; the others stay as they are.         *)
(*                                                                         *)
(* The memory has two tool workers, three facts, of which one is the       *)
(* beginning of another, and one entry each of the tool and of the agent.  *)
(***************************************************************************)
EXTENDS SessionStore, ContextWindow, Memory

\* Arguments of the memory tool: content, history_entry and memory_update.
Asks(c, e, u) == [content |-> c, entry |-> e, update |-> u]
MCRequests ==
    {Asks("a", "e", NoText), Asks("ab", NoText, {"b"})}
MCStartsWith == [x \in {"a", "ab", "b", "e", "log"} |-> IF x = "ab" THEN {"a", "ab"} ELSE {x}]
MCEdits == {{"ab"}, {"b"}}

\* The workers run the same code and nothing refers to one of them.
WorkerSymmetry == Permutations(Workers)

VARIABLE record    \* the one that moves

recordVars == <<record, storeVars, windowVars, memoryVars>>

RecordsInit ==
    /\ StoreInit /\ WindowInit
    /\ \/ record = "memory" /\ MemoryInit
       \/ record \in {"store", "window"} /\ MemoryStart(FALSE)

RecordsNext ==
    /\ UNCHANGED record
    /\ \/ record = "store" /\ StoreNext /\ UNCHANGED <<windowVars, memoryVars>>
       \/ record = "window" /\ WindowNext /\ UNCHANGED <<storeVars, memoryVars>>
       \/ record = "memory" /\ MemoryNext /\ UNCHANGED <<storeVars, windowVars>>

RecordsSpec == RecordsInit /\ [][RecordsNext]_recordVars
=============================================================================
