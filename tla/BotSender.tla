----------------------------- MODULE BotSender -----------------------------
(***************************************************************************)
(* The one thread that takes replies from the bus and hands each to the    *)
(* channel it names (outbound_thread), and what the channels' send does    *)
(* with it: the requests it makes, what it makes of the answers, and when  *)
(* it tries again or another way.                                          *)
(*                                                                         *)
(* The services are external.  A request is accepted or refused, its       *)
(* answer may be lost, and the connection may be closed without an answer  *)
(* or an error, which most waits of the channels never notice.             *)
(***************************************************************************)
EXTENDS Integers, Sequences, FiniteSets

CONSTANTS Replies,        \* the replies, one of which the bus holds at a time
          MaxReplies,     \* bound: replies sent
          MaxNetMishaps   \* bound: lost answers, refusals and expired tokens

\* The name of a channel, or any other; a text or none; attachments by their kind; and what
\* is known of the sender's webhook.
Reply == [to : STRING, text : BOOLEAN, files : Seq(STRING), hook : STRING]
ASSUME SendAssumption == \A r \in Replies : r \in Reply

NoReply == [to |-> "nobody", text |-> FALSE, files |-> << >>, hook |-> "none"]

VARIABLES tx,        \* the outbound thread: where it is, the reply, attachment and attempt
          tokens,    \* the access tokens of Feishu and DingTalk
          useCard,   \* data->use_card
          accepted,  \* history: how often the services took the text and the attachments
          offered,   \* history: the text was posted, or there was no token
          unsure,    \* history: an answer was "lost", or came "unframed"
          net        \* bounds used

sendVars == <<tx, tokens, useCard, accepted, offered, unsure, net>>

SendStart(card) ==
    /\ tx = [pc |-> "idle", reply |-> NoReply, file |-> 1, attempt |-> 0]
    /\ tokens = [feishu |-> "none", dingtalk |-> "none"]
    /\ useCard = card
    /\ accepted = [text |-> 0, files |-> 0]
    /\ offered = FALSE
    /\ unsure = {}
    /\ net = [mishaps |-> 0, replies |-> 0]

SendInit == \E card \in BOOLEAN : SendStart(card)

NetMishap == net.mishaps < MaxNetMishaps
NetSpoilt(bad) == [net EXCEPT !.mishaps = IF bad THEN @ + 1 ELSE @]

At(pc) == tx.pc = pc
Go(pc) == [tx EXCEPT !.pc = pc, !.attempt = 0]

\* What can become of a request made with token t: "ok", refused for its token, refused,
\* or no answer, whether the service took it or not; or no end to the wait.
Outcomes(t) ==
    (IF t = "valid" THEN {"ok"} ELSE {"bad token"})
        \cup (IF NetMishap THEN {"refused", "empty", "taken", "hang"} ELSE {})
Took(o) == o \in {"ok", "taken"}
Mishappen(o) == o \notin {"ok", "bad token"}
Lost(o) == IF o \in {"empty", "taken", "hang"} THEN {"lost"} ELSE {}

\* The state after an outcome that concerns the text or an attachment.
Account(o, what) ==
    /\ accepted' = IF Took(o) THEN [accepted EXCEPT ![what] = @ + 1] ELSE accepted
    /\ unsure' = unsure \cup Lost(o)
    /\ net' = NetSpoilt(Mishappen(o))

-----------------------------------------------------------------------------
(* outbound_thread.                                                        *)

Channels == {"feishu", "dingtalk", "telegram", "discord", "slack", "mqtt", "email", "stdout"}

\* The reply goes to the channel of its name.  One to "*" or "all" is handed to all of
\* them, and each returns at once as the name is not its own.
Dispatch ==
    /\ At("idle") /\ net.replies < MaxReplies
    /\ \E r \in Replies :
           tx' = [pc |-> IF r.to \in Channels THEN r.to ELSE "idle",
                  reply |-> r, file |-> 1, attempt |-> 0]
    /\ accepted' = [text |-> 0, files |-> 0]
    /\ offered' = FALSE
    /\ unsure' = {}
    /\ net' = [net EXCEPT !.replies = @ + 1]
    /\ UNCHANGED <<tokens, useCard>>

-----------------------------------------------------------------------------
(* Feishu.                                                                 *)

\* refresh_token, whose wait is limited to ten seconds.
Renewed(t) == {"valid"} \cup (IF NetMishap THEN {t} ELSE {})
WithToken(t) == IF t = "none" THEN Renewed("none") ELSE {t}
Setting(name, t) == tokens' = [tokens EXCEPT ![name] = t]

\* What follows the attachments: the text, by a card or as a post, or nothing.
AfterFiles == IF ~tx.reply.text THEN "idle" ELSE IF useCard THEN "card" ELSE "post"
FromFile(i) == [tx EXCEPT !.pc = IF i > Len(tx.reply.files) THEN AfterFiles ELSE "file",
                          !.file = i, !.attempt = 0]

FeishuSend ==
    /\ At("feishu")
    /\ \E t \in WithToken(tokens.feishu) :
           /\ Setting("feishu", t)
           /\ tx' = IF t = "none" THEN Go("idle") ELSE FromFile(1)
           /\ offered' = (t = "none")
           /\ net' = NetSpoilt(t = "none")
    /\ UNCHANGED <<useCard, accepted, unsure>>

\* parse_attachment_spec and infer_media_type_from_path: an attachment of no known type
\* is passed over.
KnownType(file) == file # "unknown"
FeishuFile ==
    /\ At("file")
    /\ tx' = IF KnownType(tx.reply.files[tx.file]) THEN [tx EXCEPT !.pc = "upload"]
             ELSE FromFile(tx.file + 1)
    /\ UNCHANGED <<tokens, useCard, accepted, offered, unsure, net>>

\* Mutant: an empty answer is taken for an expired token.
RetryIfEmpty(o) == o \in {"bad token", "empty", "taken"} /\ tx.attempt = 0

\* An answer that refuses the token makes the first attempt be repeated with a new one.
Retry(o) == o = "bad token" /\ tx.attempt = 0

\* One attempt of feishu_post_json_with_retry or feishu_upload_media: no token, an answer
\* that ends the attempt, a retry, or a wait for ever.
Attempt(t, o, done) ==
    LET renewed == IF Retry(o) THEN Renewed("none") ELSE {t}
    IN /\ \E n \in renewed : Setting("feishu", n)
       /\ tx' = IF o = "hang" THEN Go("hung")
                ELSE IF Retry(o) THEN [tx EXCEPT !.attempt = 1]
                ELSE done

\* The body is read from the file, which may be gone.
FeishuUpload ==
    /\ At("upload")
    /\ \E t \in WithToken(tokens.feishu) :
         IF t = "none" THEN /\ tx' = FromFile(tx.file + 1) /\ net' = NetSpoilt(TRUE)
                            /\ UNCHANGED <<tokens, unsure>>
         ELSE \E o \in Outcomes(t) :
                /\ Attempt(t, o, IF o = "ok" THEN Go("file post") ELSE FromFile(tx.file + 1))
                /\ unsure' = unsure \cup Lost(o)
                /\ net' = NetSpoilt(Mishappen(o))
    /\ UNCHANGED <<useCard, accepted, offered>>

FeishuPost(what) ==
    \E t \in WithToken(tokens.feishu) :
      LET done == IF what = "files" THEN FromFile(tx.file + 1) ELSE Go("idle")
      IN IF t = "none" THEN tx' = done /\ net' = NetSpoilt(TRUE) /\ UNCHANGED <<tokens, accepted, unsure>>
         ELSE \E o \in Outcomes(t) : Attempt(t, o, done) /\ Account(o, what)

FeishuAttachment ==
    /\ At("file post") /\ FeishuPost("files")
    /\ UNCHANGED <<useCard, offered>>

FeishuText ==
    /\ At("post") /\ FeishuPost("text")
    /\ offered' = TRUE
    /\ UNCHANGED useCard

\* create_streaming_card: with a card or without one, the text is posted next.
FeishuCard ==
    /\ At("card")
    /\ \E t \in WithToken(tokens.feishu) : \E o \in Outcomes(t) :
           /\ Setting("feishu", t)
           /\ tx' = Go(IF o = "hang" THEN "hung" ELSE "post")
           /\ unsure' = unsure \cup Lost(o)
           /\ net' = NetSpoilt(Mishappen(o) \/ t = "none")
    /\ UNCHANGED <<useCard, accepted, offered>>

-----------------------------------------------------------------------------
(* DingTalk.                                                               *)

\* An attachment with an address becomes a line of the text; others are left out.
HasText == tx.reply.text \/ \E i \in DOMAIN tx.reply.files : tx.reply.files[i] = "linked"

\* The chat_id names the webhook, the conversation, the sender and when the webhook
\* expires, or the conversation alone.
DingTalkSend ==
    /\ At("dingtalk")
    /\ \E t \in IF tokens.dingtalk = "valid" THEN {"valid"} ELSE Renewed(tokens.dingtalk) :
           /\ Setting("dingtalk", t)
           /\ tx' = Go(IF t = "none" \/ ~HasText THEN "idle"
                       ELSE IF tx.reply.hook = "live" THEN "hook" ELSE "group")
           /\ net' = NetSpoilt(t # "valid")
    /\ UNCHANGED <<useCard, accepted, offered, unsure>>

NextWay(ok, way) == IF ok THEN "idle" ELSE way

\* dingtalk_send_via_webhook.  webhook_fn keeps the body of a framed answer.  Of one that
\* has no length it keeps the bytes as they are read, headers and all, and then the body
\* again: that is not JSON, so the webhook counts as failed.
HookOutcomes ==
    {"ok", "unframed"} \cup (IF NetMishap THEN {"refused", "empty", "taken", "silent", "silent taken"} ELSE {})
WebhookAnswer(o) == IF o = "unframed" THEN "unreadable" ELSE o

ViaWebhook ==
    /\ At("hook")
    /\ \E o \in HookOutcomes :
           /\ tx' = Go(IF o \in {"silent", "silent taken"} THEN "hook wait"
                       ELSE NextWay(WebhookAnswer(o) = "ok", "group"))
           /\ accepted' = IF o \in {"ok", "unframed", "taken", "silent taken"}
                          THEN [accepted EXCEPT !.text = @ + 1] ELSE accepted
           /\ unsure' = unsure \cup (IF o \in {"ok", "refused"} THEN {}
                                    ELSE IF o = "unframed" THEN {"unframed"} ELSE {"lost"})
           /\ net' = NetSpoilt(o \notin {"ok", "unframed"})
    /\ UNCHANGED <<tokens, useCard, offered>>

\* Mutant: no limit.
WaitForever == FALSE

\* After thirty polls the webhook is given up.
WebhookTimeout ==
    /\ At("hook wait")
    /\ tx' = Go("group")
    /\ UNCHANGED <<tokens, useCard, accepted, offered, unsure, net>>

\* groupMessages and batchSend: the first to the conversation, the second to the sender.
DingTalkPost(way) ==
    /\ \E o \in Outcomes(tokens.dingtalk) :
           /\ tx' = Go(IF o = "hang" THEN "hung" ELSE NextWay(o = "ok", way))
           /\ Account(o, "text")
    /\ UNCHANGED <<tokens, useCard, offered>>
ViaGroup == At("group") /\ DingTalkPost(IF tx.reply.hook = "none" THEN "idle" ELSE "batch")
ViaBatch == At("batch") /\ DingTalkPost("idle")

-----------------------------------------------------------------------------
(* The other channels.                                                     *)

\* One request, with no second attempt and no limit to the wait.
PostOnce(name) ==
    /\ At(name)
    /\ \E o \in Outcomes("valid") :
           /\ tx' = Go(IF o = "hang" THEN "hung" ELSE "idle")
           /\ Account(o, "text")
    /\ UNCHANGED <<tokens, useCard, offered>>
TelegramSend == PostOnce("telegram")
DiscordSend == PostOnce("discord")
SlackSend == PostOnce("slack")

\* A reply is published if the broker is connected, and dropped if it is not; email drops
\* all; standard output takes all.
Handed(name, taken) ==
    /\ At(name)
    /\ tx' = Go("idle")
    /\ \E t \in taken : accepted' = [accepted EXCEPT !.text = IF t THEN 1 ELSE 0]
    /\ UNCHANGED <<tokens, useCard, offered, unsure, net>>
MqttSend == Handed("mqtt", IF tx.reply.text THEN BOOLEAN ELSE {FALSE})
EmailSend == Handed("email", {FALSE})
StdoutSend == Handed("stdout", {TRUE})

\* External: a token is no longer valid.
Expire ==
    /\ NetMishap
    /\ \E name \in DOMAIN tokens :
           /\ tokens[name] = "valid"
           /\ Setting(name, "stale")
    /\ net' = NetSpoilt(TRUE)
    /\ UNCHANGED <<tx, useCard, accepted, offered, unsure>>

SendStep ==
    \/ FeishuSend \/ FeishuFile \/ FeishuUpload \/ FeishuAttachment \/ FeishuCard \/ FeishuText
    \/ DingTalkSend \/ ViaWebhook \/ WebhookTimeout \/ ViaGroup \/ ViaBatch
    \/ TelegramSend \/ DiscordSend \/ SlackSend \/ MqttSend \/ EmailSend \/ StdoutSend

SendNext == Dispatch \/ SendStep \/ Expire

\* The outbound thread runs whenever it can.
SendFairness == WF_sendVars(SendStep)
SendSpec == SendInit /\ [][SendNext]_sendVars
SendFairSpec == SendSpec /\ SendFairness

-----------------------------------------------------------------------------
(* Properties.                                                             *)

Idle == At("idle")

\* The second attempt follows only a refused token, so no service but DingTalk takes a
\* text or an attachment twice, whatever is lost on the way.
TakenOnce ==
    tx.reply.to # "dingtalk" => accepted.text <= 1 /\ accepted.files <= Len(tx.reply.files)

\* DingTalk's three ways repeat a text only after a way whose answer was lost or unframed.
RepeatedOnlyUnsure == accepted.text > 1 => unsure # {}

\* Whatever becomes of the attachments, Feishu's text is posted.
TextOffered == Idle /\ tx.reply.to = "feishu" /\ tx.reply.text => offered

SendSafe == TakenOnce /\ RepeatedOnlyUnsure /\ TextOffered

\* Every send returns, so that the replies of all channels go on, unless a connection is
\* closed without an answer or an error.
SendReturns == ~Idle ~> Idle \/ At("hung")
=============================================================================
