------------------------------- MODULE WebUI -------------------------------
(***************************************************************************)
(* Chatting through the web interface: messages posted by a browser, the   *)
(* replies the outbound thread brings, the list of replies nobody has      *)
(* asked for yet, and the polls of browsers, which wait up to thirty       *)
(* seconds for a reply.  The server thread and the outbound thread share   *)
(* the two lists under one lock, which each of them takes and releases     *)
(* several times for one reply or one poll.                                *)
(***************************************************************************)
EXTENDS Integers, Sequences, FiniteSets, SequencesExt

CONSTANTS Polls,      \* the polls browsers make
          PollChat,   \* the chat each is for
          Answers,    \* the replies the outbound thread brings, in their order
          AnswerChat, \* the chat each is for
          MaxStale    \* bound: replies that stay for more than ten minutes

\* Replies are numbered as they come; 0 is none of them.
ASSUME AnswersAssumption == Answers \subseteq Nat \ {0}

Nobody == "nobody"
NoAnswer == 0

VARIABLES replies,   \* replies_head and what is linked to it
          tail,      \* replies_tail
          waiting,   \* long_poll_head and what is linked to it: the polls that wait
          poll,      \* each poll: "new", "waiting", "answered", "empty" or "closed"
          ui,        \* the server thread: what it does, for which poll
          courier,   \* the outbound thread in webui_send: where it is, which reply
          asked,     \* chats that have sent a message
          given,     \* history: the polls each reply was given to
          missed     \* history: replies that were too old, and that found nobody waiting

uiVars == <<replies, tail, waiting, poll, ui, courier, asked, given, missed>>

UiInit ==
    /\ replies = << >> /\ tail = NoAnswer
    /\ waiting = {}
    /\ poll = [p \in Polls |-> "new"]
    /\ ui = [pc |-> "stopped", poll |-> Nobody]
    /\ courier = [pc |-> "idle", reply |-> NoAnswer]
    /\ asked = {}
    /\ given = [a \in Answers |-> {}]
    /\ missed = [old |-> {}, late |-> {}]

UiUp == ui.pc \notin {"stopped", "ended", "crashed"}
UiIdle == ui.pc = "idle"
OfChat(p, a) == PollChat[p] = AnswerChat[a]

-----------------------------------------------------------------------------
(* The server thread.                                                      *)

UiStart ==
    /\ ui.pc = "stopped"
    /\ ui' = [ui EXCEPT !.pc = "idle"]
    /\ UNCHANGED <<replies, tail, waiting, poll, courier, asked, given, missed>>

\* The port is taken.
UiCannotListen ==
    /\ ui.pc = "stopped"
    /\ ui' = [ui EXCEPT !.pc = "ended"]
    /\ UNCHANGED <<replies, tail, waiting, poll, courier, asked, given, missed>>

\* mg_mgr_free closes the connections, each of which takes its waiting poll along.
UiStop ==
    /\ UiIdle /\ courier.pc = "idle"
    /\ ui' = [ui EXCEPT !.pc = "ended"]
    /\ waiting' = {}
    /\ poll' = [p \in Polls |-> IF poll[p] = "waiting" THEN "closed" ELSE poll[p]]
    /\ UNCHANGED <<replies, tail, courier, asked, given, missed>>

\* handle_chat_send puts the message on the bus.
ChatSend(chat) ==
    /\ UiIdle /\ chat \notin asked
    /\ asked' = asked \cup {chat}
    /\ UNCHANGED <<replies, tail, waiting, poll, ui, courier, given, missed>>

\* The list without its i-th node.
Without(s, i) == SubSeq(s, 1, i - 1) \o SubSeq(s, i + 1, Len(s))
Before(s, i) == IF i = 1 THEN NoAnswer ELSE s[i - 1]

\* cleanup_old_replies: the replies that are too old are the first ones.
Cleanup(k) ==
    /\ Cardinality(missed.old) + k <= MaxStale
    /\ replies' = SubSeq(replies, k + 1, Len(replies))
    /\ tail' = IF k = Len(replies) THEN NoAnswer ELSE tail
    /\ missed' = [missed EXCEPT !.old = @ \cup {replies[i] : i \in 1..k}]

\* handle_chat_poll takes the lock three times: to drop old replies, to look for one of
\* its chat, and to enter a waiter into the list.
ChatPoll(p) ==
    /\ UiIdle /\ poll[p] = "new"
    /\ \E k \in 0..Len(replies) : Cleanup(k)
    /\ ui' = [pc |-> "look", poll |-> p]
    /\ UNCHANGED <<waiting, poll, courier, asked, given>>

Queued(p) == {i \in DOMAIN replies : OfChat(p, replies[i])}
Earliest(S) == CHOOSE i \in S : \A j \in S : i <= j

\* Mutant: the tail stays where it was.
TailKept(i) == tail

TailAfter(i) == IF tail = replies[i] THEN Before(replies, i) ELSE tail

\* dequeue_reply finds a reply, which answers the poll at once.
Dequeue ==
    /\ ui.pc = "look" /\ Queued(ui.poll) # {}
    /\ LET i == Earliest(Queued(ui.poll))
       IN /\ replies' = Without(replies, i)
          /\ tail' = TailAfter(i)
          /\ given' = [given EXCEPT ![replies[i]] = @ \cup {ui.poll}]
    /\ poll' = [poll EXCEPT ![ui.poll] = "answered"]
    /\ ui' = [ui EXCEPT !.pc = "idle"]
    /\ UNCHANGED <<waiting, courier, asked, missed>>

\* It finds none, and a waiter with a timer is made.
MakeWaiter ==
    /\ ui.pc = "look" /\ Queued(ui.poll) = {}
    /\ ui' = [ui EXCEPT !.pc = "register"]
    /\ UNCHANGED <<replies, tail, waiting, poll, courier, asked, given, missed>>

Register ==
    /\ ui.pc = "register"
    /\ waiting' = waiting \cup {ui.poll}
    /\ poll' = [poll EXCEPT ![ui.poll] = "waiting"]
    /\ ui' = [ui EXCEPT !.pc = "idle"]
    /\ UNCHANGED <<replies, tail, courier, asked, given, missed>>

\* MG_EV_CLOSE: a browser goes away.
PollClosed(p) ==
    /\ UiIdle /\ p \in waiting
    /\ waiting' = waiting \ {p}
    /\ poll' = [poll EXCEPT ![p] = "closed"]
    /\ UNCHANGED <<replies, tail, ui, courier, asked, given, missed>>

\* Mutant: only a poll that is alone gets a timer.
TimerFiresIfAlone(p) ==
    /\ UiIdle /\ waiting = {p}
    /\ ui' = [pc |-> "timeout", poll |-> p]
    /\ UNCHANGED <<replies, tail, waiting, poll, courier, asked, given, missed>>

\* The timer of a waiting poll fires; the callback reads the waiter before it locks.
TimerFires(p) ==
    /\ UiIdle /\ p \in waiting
    /\ ui' = [pc |-> "timeout", poll |-> p]
    /\ UNCHANGED <<replies, tail, waiting, poll, courier, asked, given, missed>>

Unlisted(p) == waiting \ {p}

\* long_poll_timeout_cb: the poll is answered if it still waits.  Its waiter is freed
\* either way, a second time if the outbound thread has answered in between.
PollTimeout ==
    /\ ui.pc = "timeout"
    /\ waiting' = Unlisted(ui.poll)
    /\ IF ui.poll \in waiting
       THEN /\ poll' = [poll EXCEPT ![ui.poll] = "empty"]
            /\ ui' = [ui EXCEPT !.pc = "idle"]
       ELSE ui' \in {[ui EXCEPT !.pc = q] : q \in {"idle", "crashed"}} /\ UNCHANGED poll
    /\ UNCHANGED <<replies, tail, courier, asked, given, missed>>

-----------------------------------------------------------------------------
(* The outbound thread.                                                    *)

Listening(a) == {p \in waiting : OfChat(p, a)}
Sent == {a \in Answers : a <= courier.reply}

\* webui_send and the first lock of enqueue_reply: is anyone waiting?
UiSend ==
    /\ ui.pc # "crashed" /\ courier.pc = "idle"
    /\ courier.reply + 1 \in Answers
    /\ LET a == courier.reply + 1
       IN /\ AnswerChat[a] \in asked
          /\ courier' = [pc |-> IF Listening(a) # {} THEN "wake" ELSE "append", reply |-> a]
    /\ UNCHANGED <<replies, tail, waiting, poll, ui, asked, given, missed>>

\* wake_long_poll_waiters answers all polls of the chat that wait by now, which may be
\* none.
Wake ==
    /\ courier.pc = "wake" /\ ui.pc # "crashed"
    /\ LET a == courier.reply
       IN /\ waiting' = waiting \ Listening(a)
          /\ poll' = [p \in Polls |-> IF p \in Listening(a) THEN "answered" ELSE poll[p]]
          /\ given' = [given EXCEPT ![a] = @ \cup Listening(a)]
          /\ missed' = IF Listening(a) = {} THEN [missed EXCEPT !.late = @ \cup {a}] ELSE missed
    /\ courier' = [courier EXCEPT !.pc = "idle"]
    /\ UNCHANGED <<replies, tail, ui, asked>>

\* The reply is linked behind the tail, whatever the tail is.
Appended(a) ==
    IF replies = << >> THEN <<a>>
    ELSE IF tail \in ToSet(replies)
         THEN SubSeq(replies, 1, CHOOSE i \in DOMAIN replies : replies[i] = tail) \o <<a>>
         ELSE replies
Enqueue ==
    /\ courier.pc = "append" /\ ui.pc # "crashed"
    /\ replies' = Appended(courier.reply)
    /\ tail' = courier.reply
    /\ courier' = [courier EXCEPT !.pc = "idle"]
    /\ UNCHANGED <<waiting, poll, ui, asked, given, missed>>

UiWork == Dequeue \/ MakeWaiter \/ Register \/ PollTimeout
CourierWork == Wake \/ Enqueue

UiNext ==
    \/ UiStart \/ UiCannotListen \/ UiStop \/ UiWork \/ UiSend \/ CourierWork
    \/ \E p \in Polls : ChatPoll(p) \/ PollClosed(p) \/ TimerFires(p)
    \/ \E p \in Polls : ChatSend(PollChat[p])

\* Both threads run, and time passes.
UiFairness ==
    /\ WF_uiVars(UiWork)
    /\ WF_uiVars(CourierWork)
    /\ \A p \in Polls : SF_uiVars(TimerFires(p))

UiSpec == UiInit /\ [][UiNext]_uiVars
UiFairSpec == UiSpec /\ UiFairness

-----------------------------------------------------------------------------
(* Properties.                                                             *)

\* A reply that webui_send is done with is in the list or was given to somebody, unless
\* it was too old or the polls it was meant for went away between the two locks.
RepliesAccounted ==
    \A a \in Sent : \/ a = courier.reply /\ courier.pc # "idle"
                    \/ a \in ToSet(replies) \/ given[a] # {}
                    \/ a \in missed.old \cup missed.late

\* No poll gets two replies, none gets one of another chat, and none that has its answer
\* is still listed as waiting.
PollsAnsweredOnce ==
    \A p \in Polls :
        /\ Cardinality({a \in Answers : p \in given[a]}) <= (IF poll[p] = "answered" THEN 1 ELSE 0)
        /\ \A a \in Answers : p \in given[a] => OfChat(p, a)
        /\ p \in waiting <=> poll[p] = "waiting"

UiSafe == RepliesAccounted /\ PollsAnsweredOnce

\* A poll that waits is answered, with a reply or with none, or its browser goes away.
PollAnswered == \A p \in Polls : poll[p] = "waiting" ~> poll[p] # "waiting" \/ ~UiUp
=============================================================================
