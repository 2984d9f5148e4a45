---------------------------- MODULE SessionStore ----------------------------
(***************************************************************************)
(* One session and its JSONL file across saves that fail, crashes and      *)
(* restarts (src/src/session/session.c).  Session gives the operations for *)
(* a file whose lines all parse; here the file is what the process really  *)
(* leaves behind.                                                          *)
(*                                                                         *)
(* A line of the file is a sequence of pieces: after a write that was cut  *)
(* short the last line has no newline, and the next append continues it.   *)
(* The reader takes a line of at most 4095 bytes and what its first JSON   *)
(* value says.  A message is told apart by its number; its size is that of *)
(* its line.                                                               *)
(***************************************************************************)
EXTENDS Session

CONSTANTS MaxMessages,        \* bound: messages ever added
          MaxCrashes,         \* bound: crashes
          Sizes               \* subset of {"short", "long"}: fits the reader's buffer or not

ASSUME StoreAssumption ==
    /\ MaxMessages \in Nat /\ MaxCrashes \in Nat
    /\ Sizes \subseteq {"short", "long"}

VARIABLES session,    \* the Session in memory
          exists,     \* the session file is there
          lines,      \* its message lines
          ended,      \* its last line ends with a newline
          meta,       \* last_consolidated of its metadata line, << >> if it has none
          pc,         \* "ready", "rename": a full save wrote the .tmp file, "down"
          tmp,        \* what the .tmp file will make of the session file
          added,      \* history: messages added so far
          crashes,    \* history: crashes so far
          returned,   \* history: messages whose save returned ERR_NONE
          harm        \* history: what went wrong, of Harms

storeVars == <<session, exists, lines, ended, meta, pc, tmp, added, crashes, returned,
               harm>>

\* What can go wrong: a line longer than the reader's buffer, a rename that fails, an
\* append that a crash cuts short, a write that fails and is not noticed, and a file that
\* cannot be read.
Harms == {"long", "rename", "cut", "write", "unread"}

\* Number 0 is that of the metadata line.
Entry == [id : 0..MaxMessages, size : {"short", "long"}]
Metadata == [id |-> 0, size |-> "short"]
\* A message's line, whole or cut in the middle.
Piece == [msg : Entry, whole : BOOLEAN]

Whole(msgs) == [i \in 1..Len(msgs) |-> <<[msg |-> msgs[i], whole |-> TRUE]>>]

StoreInit ==
    /\ session = NewSession
    /\ exists = FALSE
    /\ lines = << >>
    /\ ended = TRUE
    /\ meta = << >>
    /\ pc = "ready"
    /\ tmp = << >>
    /\ added = 0
    /\ crashes = 0
    /\ returned = {}
    /\ harm = {}

-----------------------------------------------------------------------------
(* Memory only.                                                            *)

\* session_add_message
Add(size) ==
    /\ pc = "ready"
    /\ added < MaxMessages
    /\ added' = added + 1
    /\ session' = AddMessage(session, [id |-> added + 1, size |-> size])
    /\ harm' = harm \cup ({"long"} \cap {size})
    /\ UNCHANGED <<exists, lines, ended, meta, pc, tmp, crashes, returned>>

\* session_rollback_messages of messages that were not saved.  (A job whose
\* messages were saved by a consolidation stays in the file: README, Deviations.)
Rollback(n) ==
    /\ pc = "ready"
    /\ n \in session.saved..Len(session.msgs) - 1
    /\ session' = RollbackMessages(session, n)
    /\ UNCHANGED <<exists, lines, ended, meta, pc, tmp, added, crashes, returned, harm>>

\* The part of a consolidation that precedes its save.
Consolidate ==
    /\ pc = "ready"
    /\ ConsolidationDue(session, 1)
    /\ session' = Consolidated(session)
    /\ UNCHANGED <<exists, lines, ended, meta, pc, tmp, added, crashes, returned, harm>>

-----------------------------------------------------------------------------
(* session_manager_save.  A file that cannot be opened leaves everything   *)
(* as it was.                                                              *)

TheFile == [exists |-> exists, consolidated |-> meta, lines |-> lines]
Reported(msgs) == returned \cup {msgs[i].id : i \in 1..Len(msgs)}
MustRewrite == NeedsFullSave(session, TheFile)

\* Everything is written to the .tmp file, and the session counts as saved
\* before the rename.
Rewrite ==
    /\ pc = "ready"
    /\ MustRewrite
    /\ tmp' = session.msgs
    /\ session' = SessionAfterSave(session, TheFile)
    /\ pc' = "rename"
    /\ UNCHANGED <<exists, lines, ended, meta, added, crashes, returned, harm>>

Rename ==
    /\ pc = "rename"
    /\ exists' = TRUE
    /\ lines' = Whole(tmp)
    /\ ended' = TRUE
    /\ meta' = <<session.consolidated>>
    /\ returned' = Reported(tmp)
    /\ pc' = "ready"
    /\ tmp' = << >>
    /\ UNCHANGED <<session, added, crashes, harm>>

\* A line that was cut short, or lacks no more than its newline.
Half(msg, w) == <<<<[msg |-> msg, whole |-> w]>>>>

\* Nobody looks at what fprintf and fclose return: the .tmp file takes the place of the
\* session file with its beginning only, which may end in the metadata line or before
\* it, and the save reports success.
RenameShort(n) ==
    /\ pc = "rename"
    /\ \/ /\ lines' = << >> /\ ended' = TRUE /\ meta' = << >>
       \/ /\ lines' = Half(Metadata, FALSE) /\ ended' = FALSE
          /\ meta' \in {<< >>, <<session.consolidated>>}
       \/ /\ n < Len(tmp) /\ meta' = <<session.consolidated>>
          /\ \/ lines' = Whole(SubSeq(tmp, 1, n)) /\ ended' = TRUE
             \/ \E w \in BOOLEAN : /\ lines' = Whole(SubSeq(tmp, 1, n)) \o Half(tmp[n + 1], w)
                                   /\ ended' = FALSE
    /\ exists' = TRUE
    /\ returned' = Reported(tmp)
    /\ pc' = "ready"
    /\ tmp' = << >>
    /\ harm' = harm \cup {"write"}
    /\ UNCHANGED <<session, added, crashes>>

\* The .tmp file is removed and the save returns an error.
RenameFails ==
    /\ pc = "rename"
    /\ pc' = "ready"
    /\ tmp' = << >>
    /\ harm' = harm \cup {"rename"}
    /\ UNCHANGED <<session, exists, lines, ended, meta, added, crashes, returned>>

Unsaved == SubSeq(session.msgs, session.saved + 1, Len(session.msgs))

\* The lines after new ones were written to the end of the file.
Continued(new) ==
    IF ended \/ new = << >> THEN lines \o new
    ELSE [lines EXCEPT ![Len(lines)] = @ \o new[1]] \o Tail(new)

\* Mutant: an append writes the whole session again.
AppendAll ==
    /\ pc = "ready"
    /\ ~MustRewrite
    /\ lines' = Continued(Whole(session.msgs))
    /\ ended' = (ended \/ Unsaved # << >>)
    /\ session' = SessionAfterSave(session, TheFile)
    /\ returned' = Reported(session.msgs)
    /\ UNCHANGED <<exists, meta, pc, tmp, added, crashes, harm>>

AppendUnsaved ==
    /\ pc = "ready"
    /\ ~MustRewrite
    /\ lines' = Continued(Whole(Unsaved))
    /\ ended' = (ended \/ Unsaved # << >>)
    /\ session' = SessionAfterSave(session, TheFile)
    /\ returned' = Reported(session.msgs)
    /\ UNCHANGED <<exists, meta, pc, tmp, added, crashes, harm>>

\* The lines of n of the messages reach the file, and perhaps a part of the next one.
CutAppend(n) ==
    /\ n < Len(Unsaved)
    /\ \/ /\ lines' = Continued(Whole(SubSeq(Unsaved, 1, n)))
          /\ ended' = (ended \/ n > 0)
       \/ \E w \in BOOLEAN :
              /\ lines' = Continued(Whole(SubSeq(Unsaved, 1, n)) \o Half(Unsaved[n + 1], w))
              /\ ended' = FALSE

\* A write fails and is not noticed: the save goes on and reports success.
AppendShort(n) ==
    /\ pc = "ready"
    /\ ~MustRewrite
    /\ CutAppend(n)
    /\ session' = SessionAfterSave(session, TheFile)
    /\ returned' = Reported(session.msgs)
    /\ harm' = harm \cup {"write"}
    /\ UNCHANGED <<exists, meta, pc, tmp, added, crashes>>

-----------------------------------------------------------------------------
(* Crash and restart.                                                      *)

Crash ==
    /\ pc # "down"
    /\ crashes < MaxCrashes
    /\ crashes' = crashes + 1
    /\ pc' = "down"
    /\ tmp' = << >>
    /\ UNCHANGED <<session, exists, lines, ended, meta, added, returned, harm>>

\* The process dies while it appends.
CrashInAppend(n) ==
    /\ pc = "ready"
    /\ ~MustRewrite
    /\ crashes < MaxCrashes
    /\ CutAppend(n)
    /\ crashes' = crashes + 1
    /\ harm' = harm \cup {"cut"}
    /\ pc' = "down"
    /\ UNCHANGED <<session, exists, meta, tmp, added, returned>>

\* What the reader makes of a line.
Parses(line) == line[1].whole /\ line[1].msg.size = "short"

\* The reader goes through the file line by line and skips what does not parse.
Loaded ==
    LET read[n \in 0..Len(lines)] ==
            IF n = 0 THEN << >>
            ELSE IF Parses(lines[n]) THEN Append(read[n - 1], lines[n][1].msg)
            ELSE read[n - 1]
    IN  read[Len(lines)]

\* The first k of the messages that the file has.  Without a metadata line all that was
\* read counts as consolidated.
LoadBeginning(k) ==
    LoadSession([exists |-> exists, lines |-> SubSeq(Loaded, 1, k),
                 consolidated |-> IF meta = << >> THEN k ELSE meta[1]])

\* The session is loaded when its first message comes in.
Restart ==
    /\ pc = "down"
    /\ pc' = "ready"
    /\ session' = LoadBeginning(Len(Loaded))
    /\ UNCHANGED <<exists, lines, ended, meta, tmp, added, crashes, returned, harm>>

\* A file that is there and cannot be opened counts as none: the session starts empty,
\* and its next save takes the file's place.  A read that fails ends the loop over the
\* lines as the end of the file does.
RestartUnread ==
    /\ pc = "down"
    /\ exists
    /\ pc' = "ready"
    /\ \/ session' = NewSession
       \/ \E k \in 0..Len(Loaded) : session' = LoadBeginning(k)
    /\ harm' = harm \cup {"unread"}
    /\ UNCHANGED <<exists, lines, ended, meta, tmp, added, crashes, returned>>

StoreNext ==
    \/ \E size \in Sizes : Add(size)
    \/ \E n \in 0..MaxMessages :
           Rollback(n) \/ RenameShort(n) \/ AppendShort(n) \/ CrashInAppend(n)
    \/ Consolidate
    \/ Rewrite
    \/ Rename
    \/ RenameFails
    \/ AppendUnsaved
    \/ Crash
    \/ Restart
    \/ RestartUnread

StoreSpec == StoreInit /\ [][StoreNext]_storeVars

-----------------------------------------------------------------------------
(* Properties.                                                             *)

\* Types of the variables.
StoreTypeOK ==
    /\ session.msgs \in Seq(Entry)
    /\ session.saved \in 0..Len(session.msgs)
    /\ session.consolidated \in Nat
    /\ exists \in BOOLEAN /\ ended \in BOOLEAN
    /\ lines \in Seq(Seq(Piece))
    /\ meta \in Seq(Nat)
    /\ pc \in {"ready", "rename", "down"}
    /\ tmp \in Seq(Entry)
    /\ added \in 0..MaxMessages /\ crashes \in 0..MaxCrashes
    /\ returned \subseteq 0..MaxMessages
    /\ harm \subseteq Harms

LoadedIds == {Loaded[i].id : i \in 1..Len(Loaded)}

\* A message whose save reported success is there after a restart, whatever
\* happened since: README, "Session persistence".  The five things that break it: a
\* line longer than the reader's buffer, a rename that failed, an append that a crash
\* cut short, a write that failed unnoticed, and a file that a restart could not read
\* and the next save took the place of.
SavedSurvives == harm = {} => returned \subseteq LoadedIds

\* A restart neither repeats nor reorders messages, whatever went wrong: an append
\* that was cut short is not appended again in full, and what was not read is not
\* mixed with what came after it.
LoadedInOrder ==
    \A i, j \in 1..Len(Loaded) : i < j => Loaded[i].id < Loaded[j].id

\* Messages are only ever lost from the end of the conversation: what a restart
\* loads is an initial part of what was in memory when the process died, also if
\* this crash was the first thing to go wrong and cut an append short.
RestartIsPrefix ==
    [][/\ harm = {} \/ (harm = {"cut"} /\ crashes = 1)
       /\ pc = "down" /\ pc' = "ready"
       => /\ Len(session'.msgs) <= Len(session.msgs)
          /\ session'.msgs = SubSeq(session.msgs, 1, Len(session'.msgs))]_storeVars

\* What a save has promised is what a restart finds, once and in order.
StoreSafe == SavedSurvives /\ LoadedInOrder
=============================================================================
