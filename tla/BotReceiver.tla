---------------------------- MODULE BotReceiver ----------------------------
(***************************************************************************)
(* The receiving side of the Feishu and DingTalk channels: the thread that *)
(* asks for an address, opens a websocket, handles the events pushed over  *)
(* it and connects again, and the main thread that starts, stops and       *)
(* destroys the channel.                                                   *)
(*                                                                         *)
(* The cloud service is external: it pushes an event until it has seen the *)
(* event's acknowledgement, in any order, the parts of a long Feishu event *)
(* one by one, and over any connection.  Use of freed memory either does   *)
(* no harm or ends the process; what a thread does with a destroyed        *)
(* channel is not followed.                                                *)
(***************************************************************************)
EXTENDS Integers, Sequences, FiniteSets, SequencesExt, FiniteSetsExt

CONSTANTS BotKinds,       \* the channels: "feishu", "dingtalk"
          Events,         \* events of the cloud service
          Messages,       \* the events that carry a text
          SplitEvents,    \* the events Feishu pushes in two parts
          DedupSize,      \* recent_msg_ids, 20 in the code
          SlotCount,      \* pending, 16 in the code
          MaxReconnects,  \* max_reconnect_attempts, 10 in the code
          MaxBotMishaps   \* bound: lost connections, requests and acknowledgements

ASSUME ReceiverAssumption ==
    /\ Messages \subseteq Events
    /\ DedupSize \in Nat \ {0} /\ SlotCount \in Nat \ {0}

NoEvent == "none"
Parts == {0, 1}
NoSlot == [ev |-> NoEvent, parts |-> {}]

VARIABLES botKind,    \* which of the two channels this is
          chan,       \* the channel's data
          sock,       \* data->ws
          rx,         \* the receive thread: where it is, reconnect_attempt
          owner,      \* the main thread
          cloud,      \* the events the service still has to push, bounds used
          delivered,  \* history: messages put on the bus
          lately,     \* history: the last DedupSize events handled over this connection
          oddities    \* history: "repeat", "mixed", "deaf stop"

botVars == <<botKind, chan, sock, rx, owner, cloud, delivered, lately, oddities>>

NoSocket == [at |-> "null", running |-> FALSE, conn |-> "null", closing |-> FALSE,
             recent |-> << >>, slots |-> [k \in 1..SlotCount |-> NoSlot]]

BotStart(k) ==
    /\ botKind = k
    /\ chan = [data |-> "none", running |-> FALSE, token |-> "none", cache |-> "empty"]
    /\ sock = NoSocket
    /\ rx = [pc |-> "none", attempt |-> 0]
    /\ owner = "none"
    /\ cloud = [unacked |-> Events, mishaps |-> 0]
    /\ delivered = {}
    /\ lately = << >>
    /\ oddities = {}

BotInit == \E k \in BotKinds : BotStart(k)

Feishu == botKind = "feishu"
DingTalk == botKind = "dingtalk"
BotMishap == cloud.mishaps < MaxBotMishaps
BotSpoilt == [cloud EXCEPT !.mishaps = @ + 1]
BotAlive == rx.pc # "crashed" /\ owner # "crashed" /\ chan.data = "live"

-----------------------------------------------------------------------------
(* The main thread.                                                        *)

\* user_cache and its count are not set: they hold whatever malloc returned.
FeishuInit ==
    /\ Feishu /\ owner = "none"
    /\ \E c \in {"empty", "garbage"} : chan' = [chan EXCEPT !.data = "live", !.cache = c]
    /\ owner' = "initialized"
    /\ UNCHANGED <<botKind, sock, rx, cloud, delivered, lately, oddities>>

DingTalkInit ==
    /\ DingTalk /\ owner = "none"
    /\ chan' = [chan EXCEPT !.data = "live"]
    /\ owner' = "initialized"
    /\ UNCHANGED <<botKind, sock, rx, cloud, delivered, lately, oddities>>

\* A refresh replaces the token or leaves it as it is.
FeishuRefreshed == {"valid"} \cup (IF BotMishap THEN {chan.token} ELSE {})
DingTalkRefreshed == {"valid"} \cup (IF BotMishap THEN {chan.token} ELSE {})
After(token) == IF token = "valid" THEN cloud ELSE BotSpoilt

BotStarted(tokens) ==
    /\ owner = "initialized"
    /\ \E t \in tokens :
           /\ chan' = [chan EXCEPT !.running = TRUE, !.token = t]
           /\ cloud' = After(t)
    /\ rx' = [pc |-> "top", attempt |-> 0]
    /\ owner' = "started"
    /\ UNCHANGED <<botKind, sock, delivered, lately, oddities>>

FeishuStart == Feishu /\ BotStarted(FeishuRefreshed)
DingTalkStart == DingTalk /\ ~chan.running /\ BotStarted(DingTalkRefreshed)

\* No credentials: no thread is started.
NotConfigured ==
    /\ owner = "initialized"
    /\ owner' = "started"
    /\ UNCHANGED <<botKind, chan, sock, rx, cloud, delivered, lately, oddities>>

\* The first step of feishu_stop and of dingtalk_stop.
BotStop ==
    /\ owner = "started" /\ BotAlive
    /\ chan' = [chan EXCEPT !.running = FALSE]
    /\ owner' = "stopping"
    /\ UNCHANGED <<botKind, sock, rx, cloud, delivered, lately, oddities>>

\* Then, if data->ws is set, the websocket is stopped, even when the receive thread has
\* freed it and not yet cleared the pointer.  DingTalk's connection is closed as well, even
\* when it is freed.
\* Mutant: the websocket is not told.
HaltedNot == sock

Halted == [sock EXCEPT !.running = FALSE, !.closing = DingTalk /\ sock.conn = "up"]
StopsFreed ==
    \/ sock.at = "freed"
    \/ DingTalk /\ sock.at = "live" /\ sock.conn = "freed"
StopSocket(next) ==
    /\ owner = "stopping" /\ BotAlive
    /\ sock' = IF sock.at = "live" THEN Halted ELSE sock
    /\ owner' \in {next} \cup (IF StopsFreed THEN {"crashed"} ELSE {})
    /\ oddities' = IF rx.pc \in {"poll", "after", "destroy", "clear", "top", "ended", "none"}
                   THEN oddities ELSE oddities \cup {"deaf stop"}
    /\ UNCHANGED <<botKind, chan, rx, cloud, delivered, lately>>

FeishuStop == Feishu /\ StopSocket("stopped")
DingTalkStop == DingTalk /\ StopSocket("joining")

\* dingtalk_stop waits for the receive thread; feishu_stop does not.
\* Mutant: dingtalk_stop does not wait.
JoinSkipped ==
    /\ owner = "joining"
    /\ owner' = "stopped"
    /\ UNCHANGED <<botKind, chan, sock, rx, cloud, delivered, lately, oddities>>

Join ==
    /\ owner = "joining" /\ rx.pc \in {"none", "ended"}
    /\ owner' = "stopped"
    /\ UNCHANGED <<botKind, chan, sock, rx, cloud, delivered, lately, oddities>>

\* Everything is freed, the websocket too if data->ws is set: a second time when the
\* receive thread has just freed it.
BotDestroy ==
    /\ owner = "stopped" /\ BotAlive
    /\ owner' \in {"destroyed"} \cup (IF sock.at = "freed" THEN {"crashed"} ELSE {})
    /\ chan' = [chan EXCEPT !.data = "freed"]
    /\ UNCHANGED <<botKind, sock, rx, cloud, delivered, lately, oddities>>
FeishuDestroy == Feishu /\ BotDestroy
DingTalkDestroy == DingTalk /\ BotDestroy

-----------------------------------------------------------------------------
(* The receive thread.                                                     *)

RxAt(pc) == rx.pc = pc /\ BotAlive

\* A failed attempt; the last one stops the channel.
Failed == [rx EXCEPT !.attempt = @ + 1]
StoppedBy(r) == [chan EXCEPT !.running = @ /\ r.attempt < MaxReconnects]

\* The head of the loop: feishu_receive_loop asks for an address.
FeishuTop ==
    /\ Feishu /\ RxAt("top")
    /\ rx' = [rx EXCEPT !.pc = IF chan.running THEN "url" ELSE "ended"]
    /\ UNCHANGED <<botKind, chan, sock, owner, cloud, delivered, lately, oddities>>

\* dingtalk_receive_loop makes sure of a token first.
DingTalkTop ==
    /\ DingTalk /\ RxAt("top")
    /\ IF ~chan.running THEN rx' = [rx EXCEPT !.pc = "ended"] /\ UNCHANGED <<chan, cloud>>
       ELSE \E t \in IF chan.token = "valid" THEN {"valid"} ELSE DingTalkRefreshed :
              /\ cloud' = After(t)
              /\ IF t = "none"
                 THEN rx' = Failed /\ chan' = StoppedBy(Failed)
                 ELSE rx' = [rx EXCEPT !.pc = "url"] /\ chan' = [chan EXCEPT !.token = t]
    /\ UNCHANGED <<botKind, sock, owner, delivered, lately, oddities>>

\* The address arrives, or the request fails.
GotUrl ==
    /\ rx' = [rx EXCEPT !.pc = "create"]
    /\ UNCHANGED <<chan, cloud>>
NoUrl(c) ==
    /\ BotMishap
    /\ rx' = [Failed EXCEPT !.pc = "top"]
    /\ chan' = [StoppedBy(Failed) EXCEPT !.token = c]
    /\ cloud' = BotSpoilt

\* No answer comes, and the wait has no time limit.
UrlHangs ==
    /\ BotMishap
    /\ rx' = [rx EXCEPT !.pc = "hung"]
    /\ cloud' = BotSpoilt
    /\ UNCHANGED chan

\* get_ws_url waits for a response or an error; that the service closes the connection with
\* neither does not end it.
FeishuUrl ==
    /\ Feishu /\ RxAt("url")
    /\ \/ GotUrl
       \/ \E t \in FeishuRefreshed : NoUrl(IF chan.token = "none" THEN t ELSE chan.token)
       \/ UrlHangs
    /\ UNCHANGED <<botKind, sock, owner, delivered, lately, oddities>>

\* A failure refreshes the token, except the last one.
DingTalkUrl ==
    /\ DingTalk /\ RxAt("url")
    /\ \/ GotUrl \/ UrlHangs
       \/ \E t \in DingTalkRefreshed :
              NoUrl(IF Failed.attempt < MaxReconnects THEN t ELSE chan.token)
    /\ UNCHANGED <<botKind, sock, owner, delivered, lately, oddities>>

\* The new websocket is published, with no event remembered.
CreateSocket ==
    /\ RxAt("create")
    /\ sock' = [NoSocket EXCEPT !.at = "live"]
    /\ rx' = [rx EXCEPT !.pc = "connect"]
    /\ UNCHANGED <<botKind, chan, owner, cloud, delivered, lately, oddities>>
FeishuCreate == Feishu /\ CreateSocket
DingTalkCreate == DingTalk /\ CreateSocket

\* mg_ws_connect fails only when it can make no connection at all.
Connecting(failed) ==
    /\ RxAt("connect")
    /\ \/ /\ sock' = [sock EXCEPT !.conn = "up"]
          /\ rx' = [pc |-> "run", attempt |-> 0]
          /\ UNCHANGED <<chan, cloud>>
       \/ /\ BotMishap
          /\ rx' = [Failed EXCEPT !.pc = "destroy"]
          /\ chan' = failed
          /\ cloud' = BotSpoilt
          /\ UNCHANGED sock
    /\ UNCHANGED <<botKind, owner, delivered, lately, oddities>>
FeishuConnect == Feishu /\ Connecting(chan)
DingTalkConnect == DingTalk /\ Connecting(StoppedBy(Failed))

\* Both run loops begin by setting running, over a stop that came before.
EnterRun ==
    /\ RxAt("run")
    /\ sock' = [sock EXCEPT !.running = TRUE]
    /\ rx' = [rx EXCEPT !.pc = "poll"]
    /\ lately' = << >>
    /\ UNCHANGED <<botKind, chan, owner, cloud, delivered, oddities>>
FeishuRun == Feishu /\ EnterRun
DingTalkRun == DingTalk /\ EnterRun

\* The loops end once running is false or the connection is closed.
PollEnds ==
    /\ RxAt("poll")
    /\ ~sock.running \/ sock.closing
    /\ rx' = [rx EXCEPT !.pc = "after"]
    /\ UNCHANGED <<botKind, chan, sock, owner, cloud, delivered, lately, oddities>>

\* The connection is lost.  MG_EV_CLOSE leaves ws->c pointing to the freed connection;
\* a ping that is due in the same iteration is written to it.
FeishuClosed ==
    /\ Feishu /\ RxAt("poll") /\ sock.conn = "up" /\ BotMishap
    /\ sock' = [sock EXCEPT !.conn = "freed", !.running = FALSE]
    /\ rx' \in {[rx EXCEPT !.pc = p] : p \in {"after", "crashed"}}
    /\ cloud' = BotSpoilt
    /\ UNCHANGED <<botKind, chan, owner, delivered, lately, oddities>>

\* MG_EV_ERROR clears ws->c.  MG_EV_CLOSE does not, as the branch that would is preceded
\* by one with the same condition, and dingtalk_ws_can_send_ping reads the freed connection.
DingTalkClosed ==
    /\ DingTalk /\ RxAt("poll") /\ sock.conn = "up" /\ BotMishap
    /\ \/ /\ sock' = [sock EXCEPT !.conn = "null", !.running = FALSE]
          /\ rx' = [rx EXCEPT !.pc = "after"]
       \/ /\ sock' = [sock EXCEPT !.conn = "freed"]
          /\ rx' \in {[rx EXCEPT !.pc = p] : p \in {"after", "crashed"}}
    /\ cloud' = BotSpoilt
    /\ UNCHANGED <<botKind, chan, owner, delivered, lately, oddities>>

\* Mutant: the channel, not the connection, ends the loop.
FeishuAfterStopOnly ==
    /\ Feishu /\ RxAt("after") /\ ~chan.running
    /\ rx' = [rx EXCEPT !.pc = "destroy"]
    /\ UNCHANGED <<botKind, chan, sock, owner, cloud, delivered, lately, oddities>>

FeishuAfter ==
    /\ Feishu /\ RxAt("after")
    /\ rx' = [rx EXCEPT !.pc = "destroy"]
    /\ UNCHANGED <<botKind, chan, sock, owner, cloud, delivered, lately, oddities>>

\* DingTalk counts a lost connection as a failed attempt and sleeps before it frees.
DingTalkAfter ==
    /\ DingTalk /\ RxAt("after")
    /\ rx' = [(IF chan.running THEN Failed ELSE rx) EXCEPT !.pc = "destroy"]
    /\ chan' = StoppedBy(rx')
    /\ UNCHANGED <<botKind, sock, owner, cloud, delivered, lately, oddities>>

\* The websocket is freed, and in the next step the pointer to it cleared.
DestroySocket ==
    /\ RxAt("destroy")
    /\ sock' = [NoSocket EXCEPT !.at = "freed"]
    /\ rx' = [rx EXCEPT !.pc = "clear"]
    /\ UNCHANGED <<botKind, chan, owner, cloud, delivered, lately, oddities>>
FeishuDestroySocket == Feishu /\ DestroySocket
DingTalkDestroySocket == DingTalk /\ DestroySocket

ClearSocket ==
    /\ RxAt("clear")
    /\ sock' = NoSocket
    /\ rx' = [rx EXCEPT !.pc = "top"]
    /\ chan' = StoppedBy(rx)
    /\ UNCHANGED <<botKind, owner, cloud, delivered, lately, oddities>>

-----------------------------------------------------------------------------
(* Events.                                                                 *)

\* The last n events.
Latest(s, n) == IF Len(s) > n THEN Tail(s) ELSE s

\* is_duplicate_event: the ring of the last DedupSize events handled.
IsDuplicate(e) == e \in ToSet(sock.recent)
\* Mutant: the index does not move on.
RememberInPlace(e) ==
    IF sock.recent = << >> THEN <<e>> ELSE [sock.recent EXCEPT ![Len(sock.recent)] = e]

Remember(e) == Latest(Append(sock.recent, e), DedupSize)

\* combine_payload: the slot that collects the parts of e: its own, a free one, or the
\* first one, which loses what it had.
SlotFor(e) ==
    LET own  == {k \in 1..SlotCount : sock.slots[k].ev = e}
        free == {k \in 1..SlotCount : sock.slots[k].ev = NoEvent}
    IN IF own # {} THEN Min(own) ELSE IF free # {} THEN Min(free) ELSE 1

Kept(e, slot) == IF slot.ev = e THEN slot.parts ELSE {}

Collected(e, i) ==
    LET old == Kept(e, sock.slots[SlotFor(e)])
    IN [ev |-> e, parts |-> {p \in old : p.seq # i} \cup {[of |-> e, seq |-> i]}]

Complete(slot) == {p.seq : p \in slot.parts} = Parts

\* The sender's name is looked up first; with an uninitialized cache that ends the process.
LookupFails(e) == ~IsDuplicate(e) /\ e \in Messages /\ chan.cache = "garbage"

\* The callback puts a text on the bus.
OnFeishuMessage(e) ==
    IF LookupFails(e)
    THEN rx' = [rx EXCEPT !.pc = "crashed"] /\ UNCHANGED delivered
    ELSE delivered' = delivered \cup {e} /\ UNCHANGED rx

\* handle_event_json, once the event's text is there: one that is no duplicate is noted, and
\* if it is a message handed to the callback.
FeishuHandle(e, slots, odd) ==
    /\ sock' = [sock EXCEPT !.recent = IF IsDuplicate(e) THEN @ ELSE Remember(e), !.slots = slots]
    /\ IF ~IsDuplicate(e) /\ e \in Messages THEN OnFeishuMessage(e) ELSE UNCHANGED <<delivered, rx>>
    /\ lately' = IF IsDuplicate(e) THEN lately ELSE Latest(Append(lately, e), DedupSize)
    /\ oddities' = oddities \cup odd
                      \cup (IF ~IsDuplicate(e) /\ e \in ToSet(lately) THEN {"repeat"} ELSE {})

\* The acknowledgement reaches the service, or is lost.
Acknowledged(e) ==
    \/ cloud' = [cloud EXCEPT !.unacked = @ \ {e}]
    \/ BotMishap /\ cloud' = BotSpoilt

Pushed(e) == RxAt("poll") /\ sock.running /\ sock.conn = "up" /\ ~sock.closing /\ e \in cloud.unacked

FeishuAcknowledges(e) == IF LookupFails(e) THEN UNCHANGED cloud ELSE Acknowledged(e)

\* A frame with a whole event: it is handled and acknowledged.
FeishuFrame(e) ==
    /\ Feishu /\ Pushed(e) /\ e \notin SplitEvents
    /\ FeishuHandle(e, sock.slots, {})
    /\ FeishuAcknowledges(e)
    /\ UNCHANGED <<botKind, chan, owner>>

\* A frame with a part: nothing is acknowledged before the event is complete.
FeishuPart(e, i) ==
    /\ Feishu /\ Pushed(e) /\ e \in SplitEvents
    /\ LET k    == SlotFor(e)
           slot == Collected(e, i)
       IN IF Complete(slot)
          THEN /\ FeishuHandle(e, [sock.slots EXCEPT ![k] = NoSlot],
                               IF \E p \in slot.parts : p.of # e THEN {"mixed"} ELSE {})
               /\ FeishuAcknowledges(e)
          ELSE /\ sock' = [sock EXCEPT !.slots[k] = slot]
               /\ UNCHANGED <<rx, cloud, delivered, lately, oddities>>
    /\ UNCHANGED <<botKind, chan, owner>>

\* Parts older than five seconds are dropped.
PartsExpire ==
    /\ Feishu /\ RxAt("poll")
    /\ \E k \in 1..SlotCount :
           /\ sock.slots[k] # NoSlot
           /\ sock' = [sock EXCEPT !.slots[k] = NoSlot]
    /\ UNCHANGED <<botKind, chan, rx, owner, cloud, delivered, lately, oddities>>

\* A callback, as JSON or in a frame: a text goes on the bus, with no look at earlier
\* events, and the callback is acknowledged.
DingTalkHandle(e) == delivered' = IF e \in Messages THEN delivered \cup {e} ELSE delivered
DingTalkMessage(e) ==
    /\ DingTalk /\ Pushed(e)
    /\ DingTalkHandle(e)
    /\ Acknowledged(e)
    /\ UNCHANGED <<botKind, chan, sock, rx, owner, lately, oddities>>

\* External: time passes and the token is no longer valid.
TokenExpires ==
    /\ BotAlive /\ chan.token = "valid" /\ BotMishap
    /\ chan' = [chan EXCEPT !.token = "stale"]
    /\ cloud' = BotSpoilt
    /\ UNCHANGED <<botKind, sock, rx, owner, delivered, lately, oddities>>

ReceiveStep ==
    \/ FeishuTop \/ FeishuUrl \/ FeishuCreate \/ FeishuConnect \/ FeishuRun \/ FeishuAfter
    \/ FeishuDestroySocket
    \/ DingTalkTop \/ DingTalkUrl \/ DingTalkCreate \/ DingTalkConnect \/ DingTalkRun
    \/ DingTalkAfter \/ DingTalkDestroySocket
    \/ ClearSocket \/ PollEnds

CloudStep(e) == FeishuFrame(e) \/ (\E i \in Parts : FeishuPart(e, i)) \/ DingTalkMessage(e)

BotNext ==
    \/ ReceiveStep
    \/ FeishuClosed \/ DingTalkClosed \/ PartsExpire \/ TokenExpires
    \/ \E e \in Events : CloudStep(e)
    \/ FeishuInit \/ DingTalkInit \/ FeishuStart \/ DingTalkStart \/ NotConfigured \/ BotStop
    \/ FeishuStop \/ DingTalkStop \/ Join \/ FeishuDestroy \/ DingTalkDestroy

\* Threads that can run do, a websocket that is stopped is left, the service pushes each
\* event until it is acknowledged, and stop, once begun, goes on.
BotFairness ==
    /\ WF_botVars(ReceiveStep)
    /\ \A e \in Events : WF_botVars(CloudStep(e))
    /\ WF_botVars((DingTalkStop \/ FeishuStop \/ Join))

BotSpec == BotInit /\ [][BotNext]_botVars
BotFairSpec == BotSpec /\ BotFairness

-----------------------------------------------------------------------------
(* Properties.                                                             *)

\* An event that Feishu pushes again over the same connection is not handled again as
\* long as fewer than DedupSize others were handled in between.
NoRepeat == "repeat" \notin oddities

\* A long event is put together from its own parts, whatever parts of others arrive in
\* between, expire, or take its slot.
WholeEvents == "mixed" \notin oddities

\* The service forgets an acknowledged message, so it must be on the bus by then.
AckedIsDelivered == \A e \in Messages \ cloud.unacked : e \in delivered

\* When DingTalk's channel is destroyed its receive thread is gone.
NoOrphan == DingTalk /\ chan.data = "freed" => rx.pc \in {"none", "ended"}

\* Events are handled whole, once and before they are acknowledged, by a channel that is there.
ReceiverSafe == NoRepeat /\ WholeEvents /\ AckedIsDelivered /\ NoOrphan

\* A message that comes in one piece is delivered in the end, over one connection or
\* another, unless the channel is stopped or gives up, the process ends, or the address
\* is never answered.
MessageArrives ==
    \A e \in Messages \ SplitEvents :
        chan.running ~> e \in delivered \/ ~chan.running \/ ~BotAlive \/ rx.pc = "hung"

\* dingtalk_stop returns, unless it came between the request for an address and the first
\* poll: the thread waits for the answer, which may never come, and then goes on to serve
\* the connection until the service closes it.
StopReturns == owner = "joining" ~> owner # "joining" \/ "deaf stop" \in oddities \/ ~BotAlive

=============================================================================
