--------------------------- MODULE ChannelProofs ---------------------------
(***************************************************************************)
(* Proofs about the channels, each for every value of the constants.       *)
(*                                                                         *)
(* Sending: no service but DingTalk takes a text or an attachment twice,   *)
(* DingTalk repeats a text only after an answer it did not get or could    *)
(* not read, and Feishu posts every text it is given.                      *)
(*                                                                         *)
(* The web chat: a reply that was handed over is in the list or was given  *)
(* to a poll, no poll gets two, and none gets a reply of another chat.     *)
(*                                                                         *)
(* Receiving: what the connections of Feishu and DingTalk handle is whole, *)
(* is on the bus before it is acknowledged and is not handled again while  *)
(* it is remembered; DingTalk's thread does not outlive its channel.       *)
(*                                                                         *)
(* Plugins, which the channels are: for every set of plugins of whatever   *)
(* kinds, and any number of switches operated in the web interface, what is *)
(* registered is there until its plugin is switched off or the plugin      *)
(* manager is freed, the agent's provider is there while the agent runs, and *)
(* a process that ends early has one of the four reasons CrashesExplained  *)
(* names.                                                                  *)
(***************************************************************************)
EXTENDS BotReceiver, BotSender, WebUI, Plugins, SequenceFacts

-----------------------------------------------------------------------------
(* The inductive invariant.                                                *)

FilePhases == {"file", "upload", "file post"}
FeishuPhases == FilePhases \cup {"feishu", "card", "post"}
HookPhases == {"hook wait", "group", "batch"}
DingTalkPhases == HookPhases \cup {"dingtalk", "hook"}
Phases == Channels \cup FeishuPhases \cup DingTalkPhases \cup {"idle", "hung"}

TxType == [pc : Phases, reply : Reply \cup {NoReply}, file : Nat \ {0}, attempt : {0, 1}]

SendTypeOK ==
    /\ tx \in TxType
    /\ accepted \in [text : Nat, files : Nat]
    /\ unsure \subseteq {"lost", "unframed"}

\* A channel works on the replies that name it.
OwnReply ==
    /\ tx.pc \in Channels => tx.reply.to = tx.pc
    /\ tx.pc \in FeishuPhases => tx.reply.to = "feishu"
    /\ tx.pc \in DingTalkPhases => tx.reply.to = "dingtalk"

\* The attachments taken are among those that are done with.
FilesInv ==
    /\ accepted.files < tx.file
    /\ tx.file <= Len(tx.reply.files) + 1
    /\ tx.pc \in FilePhases => tx.file <= Len(tx.reply.files)
    /\ tx.pc = "feishu" => tx.file = 1

\* Before the last request of a send no text is taken; of DingTalk's ways one may have
\* been, and then its answer is lost or unreadable.
TextInv ==
    /\ tx.pc \notin HookPhases \cup {"idle", "hung"} => accepted.text = 0
    /\ tx.pc \in HookPhases /\ accepted.text # 0 => unsure # {}
    /\ tx.reply.to # "dingtalk" => accepted.text \in {0, 1}
    /\ accepted.text \notin {0, 1} => unsure # {}

SendInv == SendTypeOK /\ OwnReply /\ FilesInv /\ TextInv /\ TextOffered

-----------------------------------------------------------------------------
(* What a step of a send changes.                                          *)

\* The number of attachments of a reply.
LEMMA FilesCounted ==
    ASSUME NEW r \in Reply \cup {NoReply}
    PROVE  Len(r.files) \in Nat
<1>1. CASE r \in Reply
  BY <1>1 DEF Reply
<1>2. CASE r = NoReply
  BY <1>2 DEF NoReply
<1> QED BY <1>1, <1>2

\* Counting attachments.
LEMMA Counting ==
    ASSUME NEW k \in Nat, NEW n \in Nat, NEW i \in Nat \ {0}
    PROVE  /\ i + 1 \in Nat \ {0}
           /\ i <= n => i <= n + 1 /\ i + 1 <= n + 1
           /\ k < i => k < i + 1 /\ k + 1 < i + 1
           /\ 1 <= n + 1
OBVIOUS

\* The thread moves on with its reply.
LEMMA Moves ==
    ASSUME SendTypeOK, NEW p \in Phases, NEW i \in Nat \ {0}, NEW a \in {0, 1},
           tx' = [tx EXCEPT !.pc = p, !.file = i, !.attempt = a]
    PROVE  tx' \in TxType /\ tx'.pc = p /\ tx'.reply = tx.reply /\ tx'.file = i
BY DEF SendTypeOK, TxType

\* So it does with the attachment.
LEMMA Goes ==
    ASSUME SendTypeOK, NEW p \in Phases, tx' = Go(p)
    PROVE  tx' \in TxType /\ tx'.pc = p /\ tx'.reply = tx.reply /\ tx'.file = tx.file
BY DEF SendTypeOK, TxType, Go

\* The count of the texts goes up.
LEMMA OneMore ==
    ASSUME SendTypeOK, accepted' = [accepted EXCEPT !.text = @ + 1]
    PROVE  /\ accepted' \in [text : Nat, files : Nat]
           /\ accepted'.files = accepted.files
           /\ accepted'.text = accepted.text + 1
BY DEF SendTypeOK

\* One more text, or none, is taken; what is lost makes the thread unsure.
LEMMA TextTaken ==
    ASSUME SendTypeOK, NEW o, Account(o, "text")
    PROVE  /\ accepted' \in [text : Nat, files : Nat]
           /\ accepted'.files = accepted.files
           /\ accepted'.text = IF Took(o) THEN accepted.text + 1 ELSE accepted.text
           /\ unsure' \subseteq {"lost", "unframed"}
           /\ unsure # {} \/ o = "taken" => unsure' # {}
BY DEF SendTypeOK, Account, Took, Lost

\* The same for an attachment.
LEMMA FileTaken ==
    ASSUME SendTypeOK, NEW o, Account(o, "files")
    PROVE  /\ accepted' \in [text : Nat, files : Nat]
           /\ accepted'.text = accepted.text
           /\ accepted'.files = IF Took(o) THEN accepted.files + 1 ELSE accepted.files
           /\ unsure' \subseteq {"lost", "unframed"}
           /\ unsure # {} => unsure' # {}
BY DEF SendTypeOK, Account, Took, Lost

\* The invariant after a step that leaves the texts alone and keeps the thread with a
\* channel, or that ends the send.
LEMMA StepInv ==
    ASSUME SendInv, SendTypeOK',
           tx'.reply = tx.reply,
           accepted'.text = accepted.text, accepted'.files < tx'.file,
           tx'.file <= Len(tx.reply.files) + 1,
           tx'.pc \in FilePhases => tx'.file <= Len(tx.reply.files),
           \/ tx.pc \in FeishuPhases /\ tx'.pc \in (FeishuPhases \ {"feishu"}) \cup {"idle", "hung"}
           \/ tx.pc \in DingTalkPhases \ HookPhases /\ tx'.pc \in DingTalkPhases \cup {"idle", "hung"}
           \/ tx.pc \in Channels \ {"feishu"} /\ tx'.pc \in {"idle", "hung"},
           unsure # {} => unsure' # {},
           tx'.pc = "idle" /\ tx.reply.to = "feishu" /\ tx.reply.text => offered'
    PROVE  SendInv'
<1>0. /\ tx.reply \in Reply \cup {NoReply} /\ Len(tx.reply.files) \in Nat
      /\ accepted.text \in Nat
  BY FilesCounted DEF SendInv, SendTypeOK, TxType
<1> USE DEF Channels, FilePhases, FeishuPhases, HookPhases, DingTalkPhases
<1>1. OwnReply'
  BY DEF OwnReply, SendInv
<1>2. FilesInv'
  BY <1>0 DEF FilesInv
<1>3. TextInv'
  <2>1. accepted'.text = 0
    BY DEF SendInv, TextInv
  <2> QED BY <2>1 DEF TextInv
<1>4. TextOffered'
  BY DEF TextOffered, Idle, At
<1> QED BY <1>1, <1>2, <1>3, <1>4 DEF SendInv

-----------------------------------------------------------------------------
(* The steps.                                                              *)

\* At the start there is no reply.
LEMMA SendInitInv == SendInit => SendInv
<1> SUFFICES ASSUME SendInit PROVE SendInv
  OBVIOUS
<1> USE DEF SendInit, SendStart, NoReply, Channels, FilePhases, FeishuPhases, HookPhases,
            DingTalkPhases
<1>1. SendTypeOK
  BY DEF SendTypeOK, TxType, Phases
<1>2. OwnReply
  BY DEF OwnReply
<1>3. FilesInv
  BY DEF FilesInv
<1>4. TextInv
  BY DEF TextInv
<1>5. TextOffered
  BY DEF TextOffered
<1> QED BY <1>1, <1>2, <1>3, <1>4, <1>5 DEF SendInv

\* A new reply starts with nothing taken.
LEMMA DispatchInv == SendInv /\ Dispatch => SendInv'
<1> SUFFICES ASSUME SendInv, Dispatch PROVE SendInv'
  OBVIOUS
<1>1. PICK r \in Replies :
          tx' = [pc |-> IF r.to \in Channels THEN r.to ELSE "idle",
                 reply |-> r, file |-> 1, attempt |-> 0]
  BY DEF Dispatch
<1>2. r \in Reply /\ Len(r.files) \in Nat
  BY SendAssumption, FilesCounted
<1>3. /\ tx'.pc \in Channels \cup {"idle"} /\ tx'.reply = r /\ tx'.file = 1 /\ tx'.attempt = 0
      /\ tx'.pc = "idle" => r.to \notin Channels
      /\ tx'.pc # "idle" => r.to = tx'.pc
      /\ tx' \in [pc : Channels \cup {"idle"}, reply : {r}, file : {1}, attempt : {0}]
  BY <1>1 DEF Channels
<1>4. /\ accepted' \in [text : Nat, files : Nat] /\ accepted'.text = 0 /\ accepted'.files = 0
      /\ unsure' = {}
  BY DEF Dispatch
<1> USE DEF Channels, FilePhases, FeishuPhases, HookPhases, DingTalkPhases
<1>5. SendTypeOK'
  <2>1. PICK p \in Phases : tx' = [pc |-> p, reply |-> r, file |-> 1, attempt |-> 0]
    BY <1>1 DEF Phases
  <2>2. tx' \in TxType
    BY <2>1, <1>2 DEF TxType
  <2> QED BY <2>2, <1>4 DEF SendTypeOK
<1>6. OwnReply'
  BY <1>3 DEF OwnReply
<1>7. FilesInv'
  <2>1. tx'.pc \notin FilePhases
    BY <1>3
  <2>2. 0 < 1 /\ 1 <= Len(r.files) + 1
    BY <1>2
  <2> QED BY <2>1, <2>2, <1>3, <1>4 DEF FilesInv
<1>8. TextInv'
  BY <1>3, <1>4 DEF TextInv
<1>9. TextOffered'
  BY <1>3 DEF TextOffered, Idle, At
<1> QED BY <1>5, <1>6, <1>7, <1>8, <1>9 DEF SendInv

\* The invariant after a step of the last request of a send, by which the text may be
\* taken: of one of DingTalk's ways, or of a channel that has one way.
LEMMA TextStepInv ==
    ASSUME SendInv, SendTypeOK',
           tx'.reply = tx.reply, tx'.file = tx.file,
           accepted'.files = accepted.files,
           accepted'.text \in {accepted.text, accepted.text + 1},
           unsure # {} => unsure' # {},
           \/ /\ tx.pc \in DingTalkPhases
              /\ tx'.pc \in HookPhases \cup {"idle", "hung"}
              /\ tx'.pc \in HookPhases /\ accepted'.text # accepted.text => unsure' # {}
           \/ tx.pc \in Channels \ {"feishu"} /\ tx'.pc \in {"idle", "hung"}
           \/ tx.pc = "post" /\ tx'.pc \in {"idle", "hung"} /\ offered'
    PROVE  SendInv'
<1>0. /\ tx.reply \in Reply \cup {NoReply} /\ Len(tx.reply.files) \in Nat
      /\ accepted.text \in Nat /\ accepted'.text \in Nat
  BY FilesCounted DEF SendInv, SendTypeOK, TxType
<1>5. accepted.text = 0 => accepted'.text \in {0, 1}
  OBVIOUS
<1> USE DEF Channels, FilePhases, FeishuPhases, HookPhases, DingTalkPhases
<1>1. OwnReply'
  BY DEF OwnReply, SendInv
<1>2. FilesInv'
  BY <1>0 DEF FilesInv, SendInv
<1>3. TextInv'
  <2>1. CASE tx.pc \notin HookPhases
    <3>1. accepted.text = 0
      BY <2>1 DEF SendInv, TextInv, SendTypeOK, TxType
    <3>2. accepted'.text \in {0, 1} /\ (tx.reply.to # "dingtalk" => tx'.pc \in {"idle", "hung"})
      BY <3>1, <2>1, <1>5 DEF SendInv, OwnReply
    <3>3. tx'.pc \in HookPhases \cup {"idle", "hung"}
      OBVIOUS
    <3>4. tx'.pc \in HookPhases /\ accepted'.text # 0 => unsure' # {}
      BY <3>1
    <3> QED BY <3>2, <3>3, <3>4 DEF TextInv
  <2>2. CASE tx.pc \in HookPhases
    <3>1. tx.reply.to = "dingtalk"
      BY <2>2 DEF SendInv, OwnReply
    <3>2. accepted.text # 0 => unsure' # {}
      BY <2>2 DEF SendInv, TextInv
    <3>3. tx'.pc \in HookPhases \cup {"idle", "hung"}
      OBVIOUS
    <3>4. tx'.pc \in HookPhases /\ accepted'.text # 0 => unsure' # {}
      BY <3>2, <2>2
    <3>5. accepted'.text \notin {0, 1} => unsure' # {}
      BY <3>2, <1>5
    <3> QED BY <3>1, <3>3, <3>4, <3>5 DEF TextInv
  <2> QED BY <2>1, <2>2
<1>4. TextOffered'
  BY DEF TextOffered, Idle, At, SendInv, OwnReply
<1> QED BY <1>1, <1>2, <1>3, <1>4 DEF SendInv

\* The channels that make one request, or none.
LEMMA OtherSendInv ==
    ASSUME SendInv,
           TelegramSend \/ DiscordSend \/ SlackSend \/ MqttSend \/ EmailSend \/ StdoutSend
    PROVE  SendInv'
<1>1. ASSUME NEW name \in {"telegram", "discord", "slack"}, PostOnce(name)
      PROVE  SendInv'
  <2>1. PICK o : tx' = Go(IF o = "hang" THEN "hung" ELSE "idle") /\ Account(o, "text")
    BY <1>1 DEF PostOnce
  <2>2. PICK p \in {"hung", "idle"} : tx' = Go(p)
    BY <2>1
  <2>3. tx' \in TxType /\ tx'.pc = p /\ tx'.reply = tx.reply /\ tx'.file = tx.file
    BY <2>2, Goes DEF Phases, SendInv
  <2>4. /\ accepted' \in [text : Nat, files : Nat]
        /\ accepted'.files = accepted.files
        /\ accepted'.text \in {accepted.text, accepted.text + 1}
        /\ unsure' \subseteq {"lost", "unframed"}
        /\ unsure # {} => unsure' # {}
    BY <2>1, TextTaken DEF SendInv
  <2>5. tx.pc \in Channels \ {"feishu"}
    BY <1>1 DEF PostOnce, At, Channels
  <2> QED BY <2>3, <2>4, <2>5, TextStepInv DEF SendTypeOK
<1>2. ASSUME NEW name \in {"mqtt", "email", "stdout"}, NEW taken, Handed(name, taken)
      PROVE  SendInv'
  <2>1. tx' \in TxType /\ tx'.pc = "idle" /\ tx'.reply = tx.reply /\ tx'.file = tx.file
    BY <1>2, Goes DEF Handed, Phases, SendInv
  <2>2. tx.pc \in Channels \ {"feishu"}
    BY <1>2 DEF Handed, At, Channels
  <2>3. accepted.text = 0
    BY <2>2 DEF SendInv, TextInv, Channels, HookPhases
  <2>4. /\ accepted' \in [text : Nat, files : Nat]
        /\ accepted'.files = accepted.files
        /\ accepted'.text \in {0, 1}
        /\ unsure' = unsure
    BY <1>2 DEF Handed, SendInv, SendTypeOK
  <2>5. SendTypeOK'
    BY <2>1, <2>4 DEF SendTypeOK, SendInv
  <2> QED BY <2>1, <2>2, <2>3, <2>4, <2>5, TextStepInv
<1> QED BY <1>1, <1>2 DEF TelegramSend, DiscordSend, SlackSend, MqttSend, EmailSend, StdoutSend

\* DingTalk's three ways.
LEMMA DingTalkInv ==
    ASSUME SendInv, DingTalkSend \/ ViaWebhook \/ WebhookTimeout \/ ViaGroup \/ ViaBatch
    PROVE  SendInv'
<1>1. CASE DingTalkSend
  <2>1. PICK p \in {"idle", "hook", "group"} : tx' = Go(p)
    BY <1>1 DEF DingTalkSend
  <2>2. tx' \in TxType /\ tx'.pc = p /\ tx'.reply = tx.reply /\ tx'.file = tx.file
    BY <2>1, Goes DEF Phases, SendInv, DingTalkPhases, HookPhases
  <2>3. accepted' = accepted /\ unsure' = unsure /\ tx.pc = "dingtalk"
    BY <1>1 DEF DingTalkSend, At
  <2>4. SendTypeOK'
    BY <2>2, <2>3 DEF SendTypeOK, SendInv
  <2>5. tx.reply.to # "feishu"
    BY <2>3 DEF SendInv, OwnReply, DingTalkPhases
  <2>6. accepted'.files < tx'.file /\ tx'.file <= Len(tx.reply.files) + 1
    BY <2>2, <2>3 DEF SendInv, FilesInv
  <2>7. p \notin FilePhases /\ p \in DingTalkPhases \cup {"idle", "hung"}
    BY DEF FilePhases, DingTalkPhases, HookPhases
  <2>8. tx.pc \in DingTalkPhases \ HookPhases
    BY <2>3 DEF DingTalkPhases, HookPhases
  <2> QED BY <2>2, <2>3, <2>4, <2>5, <2>6, <2>7, <2>8, StepInv
<1>2. CASE ViaWebhook
  <2>1. PICK o \in HookOutcomes :
           /\ tx' = Go(IF o \in {"silent", "silent taken"} THEN "hook wait"
                       ELSE NextWay(WebhookAnswer(o) = "ok", "group"))
           /\ accepted' = IF o \in {"ok", "unframed", "taken", "silent taken"}
                          THEN [accepted EXCEPT !.text = @ + 1] ELSE accepted
           /\ unsure' = unsure \cup (IF o \in {"ok", "refused"} THEN {}
                                    ELSE IF o = "unframed" THEN {"unframed"} ELSE {"lost"})
    BY <1>2 DEF ViaWebhook
  <2>2. PICK p \in {"hook wait", "group", "idle"} : tx' = Go(p) /\ (p # "idle" => o # "ok")
    BY <2>1 DEF NextWay, WebhookAnswer
  <2>3. tx' \in TxType /\ tx'.pc = p /\ tx'.reply = tx.reply /\ tx'.file = tx.file
    BY <2>2, Goes DEF Phases, SendInv, DingTalkPhases, HookPhases
  <2>4. /\ accepted' \in [text : Nat, files : Nat]
        /\ accepted'.files = accepted.files
        /\ accepted'.text \in {accepted.text, accepted.text + 1}
        /\ accepted'.text # accepted.text => o # "refused"
    <3>1. CASE o \in {"ok", "unframed", "taken", "silent taken"}
      <4>1. accepted' = [accepted EXCEPT !.text = @ + 1] /\ o # "refused"
        BY <2>1, <3>1
      <4>2. SendTypeOK
        BY DEF SendInv
      <4> QED BY <4>1, <4>2, OneMore
    <3>2. CASE o \notin {"ok", "unframed", "taken", "silent taken"}
      BY <2>1, <3>2 DEF SendInv, SendTypeOK
    <3> QED BY <3>1, <3>2
  <2>5. /\ unsure' \subseteq {"lost", "unframed"}
        /\ unsure # {} => unsure' # {}
        /\ o \notin {"ok", "refused"} => unsure' # {}
    BY <2>1 DEF SendInv, SendTypeOK
  <2>6. tx.pc \in DingTalkPhases
    BY <1>2 DEF ViaWebhook, At, DingTalkPhases
  <2> QED BY <2>2, <2>3, <2>4, <2>5, <2>6, TextStepInv DEF SendTypeOK, HookPhases
<1>3. CASE WebhookTimeout
  <2>1. tx' \in TxType /\ tx'.pc = "group" /\ tx'.reply = tx.reply /\ tx'.file = tx.file
    BY <1>3, Goes DEF WebhookTimeout, Phases, SendInv, DingTalkPhases, HookPhases
  <2>2. accepted' = accepted /\ unsure' = unsure /\ tx.pc \in DingTalkPhases
    BY <1>3 DEF WebhookTimeout, At, DingTalkPhases, HookPhases
  <2>3. SendTypeOK'
    BY <2>1, <2>2 DEF SendTypeOK, SendInv
  <2> QED BY <2>1, <2>2, <2>3, TextStepInv DEF HookPhases
<1>4. ASSUME NEW way \in {"idle", "batch"}, tx.pc \in {"group", "batch"}, DingTalkPost(way)
      PROVE  SendInv'
  <2>1. PICK o : tx' = Go(IF o = "hang" THEN "hung" ELSE NextWay(o = "ok", way)) /\ Account(o, "text")
    BY <1>4 DEF DingTalkPost
  <2>2. PICK p \in {"hung", "batch", "idle"} : tx' = Go(p) /\ (p = "batch" => o # "ok")
    BY <2>1 DEF NextWay
  <2>3. tx' \in TxType /\ tx'.pc = p /\ tx'.reply = tx.reply /\ tx'.file = tx.file
    BY <2>2, Goes DEF Phases, SendInv, DingTalkPhases, HookPhases
  <2>4. /\ accepted' \in [text : Nat, files : Nat]
        /\ accepted'.files = accepted.files
        /\ accepted'.text \in {accepted.text, accepted.text + 1}
        /\ accepted'.text # accepted.text => o \in {"ok", "taken"}
        /\ unsure' \subseteq {"lost", "unframed"}
        /\ unsure # {} \/ o = "taken" => unsure' # {}
    BY <2>1, TextTaken DEF SendInv, Took
  <2>5. tx.pc \in DingTalkPhases
    BY <1>4 DEF DingTalkPhases, HookPhases
  <2> QED BY <2>2, <2>3, <2>4, <2>5, TextStepInv DEF SendTypeOK, HookPhases
<1> QED BY <1>1, <1>2, <1>3, <1>4 DEF ViaGroup, ViaBatch, At

\* The thread goes on with attachment i, or with what follows the last.
LEMMA NextFile ==
    ASSUME SendInv, NEW i \in Nat \ {0}, i <= Len(tx.reply.files) + 1, tx' = FromFile(i)
    PROVE  /\ tx' \in TxType /\ tx'.reply = tx.reply /\ tx'.file = i
           /\ tx'.pc \in (FeishuPhases \ {"feishu"}) \cup {"idle"}
           /\ tx'.pc \in FilePhases => i <= Len(tx.reply.files)
           /\ tx'.pc = "idle" => ~tx.reply.text
<1>1. PICK p \in {"file", "card", "post", "idle"} :
          /\ tx' = [tx EXCEPT !.pc = p, !.file = i, !.attempt = 0]
          /\ p = "file" => ~(i > Len(tx.reply.files))
          /\ p = "idle" => ~tx.reply.text
  BY DEF FromFile, AfterFiles
<1>2. tx' \in TxType /\ tx'.pc = p /\ tx'.reply = tx.reply /\ tx'.file = i
  BY <1>1, Moves DEF SendInv, Phases, FeishuPhases, FilePhases
<1>3. p = "file" => i <= Len(tx.reply.files)
  <2>1. Len(tx.reply.files) \in Nat
    BY FilesCounted DEF SendInv, SendTypeOK, TxType
  <2> QED BY <1>1, <2>1
<1> QED BY <1>1, <1>2, <1>3 DEF FeishuPhases, FilePhases

\* A step of Feishu's that leaves the text alone.
LEMMA FeishuStepInv ==
    ASSUME SendInv, tx.pc \in FeishuPhases,
           tx' \in TxType, tx'.reply = tx.reply,
           tx'.pc \in (FeishuPhases \ {"feishu"}) \cup {"idle", "hung"},
           tx'.file <= Len(tx.reply.files) + 1,
           tx'.pc \in FilePhases => tx'.file <= Len(tx.reply.files),
           accepted' \in [text : Nat, files : Nat],
           accepted'.text = accepted.text, accepted'.files < tx'.file,
           unsure' \subseteq {"lost", "unframed"}, unsure # {} => unsure' # {},
           tx'.pc = "idle" => ~tx.reply.text \/ offered'
    PROVE  SendInv'
<1>1. SendTypeOK'
  BY DEF SendTypeOK
<1> QED BY <1>1, StepInv

\* A step that only notes the attempt, or the upload.
LEMMA Stays ==
    ASSUME SendTypeOK, NEW p \in Phases, NEW a \in {0, 1},
           tx' = [tx EXCEPT !.pc = p] \/ (p = tx.pc /\ tx' = [tx EXCEPT !.attempt = a])
    PROVE  tx' \in TxType /\ tx'.pc = p /\ tx'.reply = tx.reply /\ tx'.file = tx.file
BY DEF SendTypeOK, TxType

\* Before the attachments: the token.
LEMMA FeishuSendInv == ASSUME SendInv, FeishuSend PROVE SendInv'
<1>1. /\ tx.pc = "feishu" /\ tx.file = 1 /\ accepted.files < 1
      /\ tx.pc \in FeishuPhases /\ Len(tx.reply.files) \in Nat
  BY FilesCounted DEF FeishuSend, At, SendInv, FilesInv, FeishuPhases, SendTypeOK, TxType
<1>2. /\ accepted' = accepted /\ unsure' = unsure
      /\ accepted \in [text : Nat, files : Nat] /\ unsure \subseteq {"lost", "unframed"}
  BY DEF FeishuSend, SendInv, SendTypeOK
<1>3. CASE tx' = Go("idle") /\ offered'
  <2>1. tx' \in TxType /\ tx'.pc = "idle" /\ tx'.reply = tx.reply /\ tx'.file = tx.file
    BY <1>3, Goes DEF Phases, SendInv
  <2>2. "idle" \notin FilePhases /\ 1 <= Len(tx.reply.files) + 1
    BY <1>1, Counting DEF FilePhases
  <2> QED BY <1>1, <1>2, <1>3, <2>1, <2>2, FeishuStepInv
<1>4. CASE tx' = FromFile(1)
  <2>1. /\ tx' \in TxType /\ tx'.reply = tx.reply /\ tx'.file = 1
        /\ tx'.pc \in (FeishuPhases \ {"feishu"}) \cup {"idle"}
        /\ tx'.pc \in FilePhases => 1 <= Len(tx.reply.files)
        /\ tx'.pc = "idle" => ~tx.reply.text
    BY <1>1, <1>4, NextFile
  <2> QED BY <1>1, <1>2, <2>1, FeishuStepInv
<1> QED BY <1>3, <1>4 DEF FeishuSend

\* One attachment, whichever step of it: the thread goes on to the next, to the next step
\* of this one, to a second attempt, or waits for ever.
LEMMA AttachmentStepInv ==
    ASSUME SendInv, tx.pc \in FilePhases,
           \/ tx' = FromFile(tx.file + 1)
           \/ tx' = [tx EXCEPT !.attempt = 1] /\ accepted'.files = accepted.files
           \/ tx' = [tx EXCEPT !.pc = "upload"] /\ accepted'.files = accepted.files
           \/ tx' = Go("file post") /\ accepted'.files = accepted.files
           \/ tx' = Go("hung") /\ accepted'.files = accepted.files,
           accepted' \in [text : Nat, files : Nat], accepted'.text = accepted.text,
           accepted'.files = accepted.files \/ accepted'.files = accepted.files + 1,
           unsure' \subseteq {"lost", "unframed"}, unsure # {} => unsure' # {}
    PROVE  SendInv'
<1>1. /\ tx.pc \in FeishuPhases /\ Len(tx.reply.files) \in Nat /\ accepted.files \in Nat
      /\ tx.file \in Nat \ {0} /\ tx.file <= Len(tx.reply.files) /\ accepted.files < tx.file
  BY FilesCounted DEF SendInv, SendTypeOK, TxType, FilesInv, FeishuPhases
<1>2. CASE tx' = FromFile(tx.file + 1)
  <2>1. /\ tx.file + 1 \in Nat \ {0} /\ tx.file + 1 <= Len(tx.reply.files) + 1
    BY <1>1, Counting
  <2>3. accepted'.files < tx.file + 1
    <3>1. accepted.files < tx.file + 1 /\ accepted.files + 1 < tx.file + 1
      BY <1>1, Counting
    <3> QED BY <3>1, Zenon
  <2>2. /\ tx' \in TxType /\ tx'.reply = tx.reply /\ tx'.file = tx.file + 1
        /\ tx'.pc \in (FeishuPhases \ {"feishu"}) \cup {"idle"}
        /\ tx'.pc \in FilePhases => tx.file + 1 <= Len(tx.reply.files)
        /\ tx'.pc = "idle" => ~tx.reply.text
    BY <1>2, <2>1, NextFile
  <2> QED BY <1>1, <2>1, <2>2, <2>3, FeishuStepInv
<1>3. ASSUME NEW p \in FilePhases \cup {"hung"},
             tx' \in TxType, tx'.pc = p, tx'.reply = tx.reply, tx'.file = tx.file,
             accepted'.files = accepted.files
      PROVE  SendInv'
  <2>1. p \in (FeishuPhases \ {"feishu"}) \cup {"idle", "hung"} /\ p # "idle"
    BY DEF FeishuPhases, FilePhases
  <2>2. tx.file <= Len(tx.reply.files) + 1
    BY <1>1, Counting
  <2> QED BY <1>1, <1>3, <2>1, <2>2, FeishuStepInv
<1>4. CASE tx' = [tx EXCEPT !.attempt = 1] /\ accepted'.files = accepted.files
  BY <1>3, <1>4, Stays DEF SendInv, FilePhases, FeishuPhases, Phases
<1>5. CASE tx' = [tx EXCEPT !.pc = "upload"] /\ accepted'.files = accepted.files
  BY <1>3, <1>5, Stays DEF SendInv, FilePhases, FeishuPhases, Phases
<1>6. CASE tx' = Go("file post") /\ accepted'.files = accepted.files
  BY <1>3, <1>6, Goes DEF SendInv, FilePhases, FeishuPhases, Phases
<1>7. CASE tx' = Go("hung") /\ accepted'.files = accepted.files
  BY <1>3, <1>7, Goes DEF SendInv, FilePhases, FeishuPhases, Phases
<1> QED BY <1>2, <1>4, <1>5, <1>6, <1>7

\* Feishu's attachments.
LEMMA FeishuFilesInv ==
    ASSUME SendInv, FeishuFile \/ FeishuUpload \/ FeishuAttachment
    PROVE  SendInv'
<1>0. /\ accepted \in [text : Nat, files : Nat] /\ unsure \subseteq {"lost", "unframed"}
      /\ SendTypeOK
  BY DEF SendInv, SendTypeOK
<1>1. CASE FeishuFile
  <2>1. tx.pc \in FilePhases /\ accepted' = accepted /\ unsure' = unsure
    BY <1>1 DEF FeishuFile, At, FilePhases
  <2>2. tx' = FromFile(tx.file + 1) \/ tx' = [tx EXCEPT !.pc = "upload"]
    BY <1>1 DEF FeishuFile
  <2> QED BY <1>0, <2>1, <2>2, AttachmentStepInv
<1>2. CASE FeishuUpload
  <2>1. tx.pc \in FilePhases /\ accepted' = accepted
    BY <1>2 DEF FeishuUpload, At, FilePhases
  <2>2. /\ \/ tx' = FromFile(tx.file + 1) \/ tx' = [tx EXCEPT !.attempt = 1]
           \/ tx' = Go("file post") \/ tx' = Go("hung")
        /\ \E o : unsure' = unsure \/ unsure' = unsure \cup Lost(o)
    BY <1>2 DEF FeishuUpload, Attempt
  <2>3. unsure' \subseteq {"lost", "unframed"} /\ (unsure # {} => unsure' # {})
    BY <1>0, <2>2 DEF Lost
  <2> QED BY <1>0, <2>1, <2>2, <2>3, AttachmentStepInv
<1>3. CASE FeishuAttachment
  <2>1. tx.pc \in FilePhases
    BY <1>3 DEF FeishuAttachment, At, FilePhases
  <2>2. \/ tx' = FromFile(tx.file + 1) /\ UNCHANGED <<accepted, unsure>>
        \/ \E o : /\ Account(o, "files")
                  /\ \/ tx' = FromFile(tx.file + 1)
                     \/ tx' = [tx EXCEPT !.attempt = 1] /\ o = "bad token"
                     \/ tx' = Go("hung") /\ o = "hang"
    BY <1>3 DEF FeishuAttachment, FeishuPost, Attempt, Retry
  <2>3. CASE tx' = FromFile(tx.file + 1) /\ UNCHANGED <<accepted, unsure>>
    BY <1>0, <2>1, <2>3, AttachmentStepInv
  <2>4. ASSUME NEW o, Account(o, "files"),
               \/ tx' = FromFile(tx.file + 1)
               \/ tx' = [tx EXCEPT !.attempt = 1] /\ o = "bad token"
               \/ tx' = Go("hung") /\ o = "hang"
        PROVE  SendInv'
    <3>1. /\ accepted' \in [text : Nat, files : Nat]
          /\ accepted'.text = accepted.text
          /\ accepted'.files = accepted.files \/ accepted'.files = accepted.files + 1
          /\ o \in {"bad token", "hang"} => accepted'.files = accepted.files
          /\ unsure' \subseteq {"lost", "unframed"}
          /\ unsure # {} => unsure' # {}
      BY <1>0, <2>4, FileTaken DEF Took
    <3> QED BY <2>1, <2>4, <3>1, AttachmentStepInv
  <2> QED BY <2>2, <2>3, <2>4
<1> QED BY <1>1, <1>2, <1>3

\* Feishu's card and its text.
LEMMA FeishuTextInv == ASSUME SendInv, FeishuCard \/ FeishuText PROVE SendInv'
<1>0. /\ accepted \in [text : Nat, files : Nat] /\ unsure \subseteq {"lost", "unframed"}
      /\ SendTypeOK /\ FilesInv
      /\ tx.pc \in {"card", "post"} /\ tx.pc \in FeishuPhases
  BY DEF SendInv, SendTypeOK, FeishuCard, FeishuText, At, FeishuPhases
<1>1. ASSUME NEW p \in {"card", "post", "hung"},
             tx' \in TxType, tx'.pc = p, tx'.reply = tx.reply, tx'.file = tx.file,
             accepted' = accepted, 
             unsure' \subseteq {"lost", "unframed"}, unsure # {} => unsure' # {}
      PROVE  SendInv'
  <2>1. p \in (FeishuPhases \ {"feishu"}) \cup {"idle", "hung"} /\ p # "idle" /\ p \notin FilePhases
    BY DEF FeishuPhases, FilePhases
  <2>2. tx.file <= Len(tx.reply.files) + 1 /\ accepted.files < tx.file
    BY <1>0 DEF FilesInv
  <2> QED BY <1>0, <1>1, <2>1, <2>2, FeishuStepInv
<1>2. CASE FeishuCard
  <2>1. PICK o : (tx' = Go("hung") \/ tx' = Go("post")) /\ unsure' = unsure \cup Lost(o)
    BY <1>2 DEF FeishuCard
  <2>2. accepted' = accepted /\ unsure' \subseteq {"lost", "unframed"} /\ (unsure # {} => unsure' # {})
    BY <1>0, <1>2, <2>1 DEF FeishuCard, Lost
  <2>3. {"hung", "post"} \subseteq Phases
    BY DEF Phases, FeishuPhases
  <2> QED BY <1>0, <1>1, <2>1, <2>2, <2>3, Goes
<1>3. CASE FeishuText
  <2>1. tx.pc = "post" /\ offered'
    BY <1>3 DEF FeishuText, At
  <2>2. \/ tx' = Go("idle") /\ UNCHANGED <<accepted, unsure>>
        \/ \E o : /\ Account(o, "text")
                  /\ \/ tx' = Go("idle")
                     \/ tx' = [tx EXCEPT !.attempt = 1] /\ o = "bad token"
                     \/ tx' = Go("hung")
    BY <1>3 DEF FeishuText, FeishuPost, Attempt, Retry
  <2>3. {"hung", "post", "idle"} \subseteq Phases
    BY DEF Phases, FeishuPhases
  <2>4. ASSUME NEW p \in {"idle", "hung"}, tx' = Go(p),
               accepted' \in [text : Nat, files : Nat], accepted'.files = accepted.files,
               accepted'.text \in {accepted.text, accepted.text + 1},
               unsure' \subseteq {"lost", "unframed"}, unsure # {} => unsure' # {}
        PROVE  SendInv'
    <3>1. tx' \in TxType /\ tx'.pc = p /\ tx'.reply = tx.reply /\ tx'.file = tx.file
      BY <1>0, <2>3, <2>4, Goes
    <3> QED BY <2>1, <2>4, <3>1, TextStepInv DEF SendTypeOK
  <2>5. CASE tx' = Go("idle") /\ UNCHANGED <<accepted, unsure>>
    BY <1>0, <2>4, <2>5
  <2>6. ASSUME NEW o, Account(o, "text"),
               \/ tx' = Go("idle")
               \/ tx' = [tx EXCEPT !.attempt = 1] /\ o = "bad token"
               \/ tx' = Go("hung")
        PROVE  SendInv'
    <3>1. /\ accepted' \in [text : Nat, files : Nat]
          /\ accepted'.files = accepted.files
          /\ accepted'.text \in {accepted.text, accepted.text + 1}
          /\ o = "bad token" => accepted' = accepted
          /\ unsure' \subseteq {"lost", "unframed"}
          /\ unsure # {} => unsure' # {}
      BY <1>0, <2>6, TextTaken DEF Account, Took
    <3>2. CASE tx' = [tx EXCEPT !.attempt = 1] /\ o = "bad token"
      <4>1. tx' \in TxType /\ tx'.pc = "post" /\ tx'.reply = tx.reply /\ tx'.file = tx.file
        BY <1>0, <2>1, <2>3, <3>2, Stays
      <4> QED BY <1>1, <3>1, <3>2, <4>1
    <3> QED BY <2>4, <2>6, <3>1, <3>2
  <2> QED BY <2>2, <2>5, <2>6
<1> QED BY <1>2, <1>3

-----------------------------------------------------------------------------
\* A reply goes out at most once to every service but DingTalk, DingTalk repeats one only
\* when unsure, and Feishu's text is always posted (outbound_thread and the send of each
\* channel).
THEOREM RepliesSentSafely == SendSpec => []SendSafe
<1>1. SendInv /\ [SendNext]_sendVars => SendInv'
  <2> SUFFICES ASSUME SendInv, [SendNext]_sendVars PROVE SendInv'
    OBVIOUS
  <2>1. CASE UNCHANGED <<tx, accepted, unsure, offered>>
    BY <2>1 DEF SendInv, SendTypeOK, OwnReply, FilesInv, TextInv, TextOffered, Idle, At
  <2> QED
    BY <2>1, DispatchInv, OtherSendInv, DingTalkInv, FeishuSendInv, FeishuFilesInv,
       FeishuTextInv DEF SendNext, SendStep, sendVars, Expire
<1>2. SendInv => SendSafe
  <2> SUFFICES ASSUME SendInv PROVE SendSafe
    OBVIOUS
  <2>1. /\ accepted.text \in Nat /\ accepted.files \in Nat /\ tx.file \in Nat
        /\ Len(tx.reply.files) \in Nat
    BY FilesCounted DEF SendInv, SendTypeOK, TxType
  <2>2. accepted.files <= Len(tx.reply.files)
    BY <2>1 DEF SendInv, FilesInv
  <2>3. accepted.text <= 1 <=> accepted.text \in {0, 1}
    BY <2>1
  <2>4. TakenOnce
    BY <2>2, <2>3 DEF SendInv, TextInv, TakenOnce
  <2>5. RepeatedOnlyUnsure
    BY <2>1, <2>3 DEF SendInv, TextInv, RepeatedOnlyUnsure
  <2> QED BY <2>4, <2>5 DEF SendInv, SendSafe
<1> QED BY SendInitInv, <1>1, <1>2, PTL DEF SendSpec

-----------------------------------------------------------------------------
(* The chat of the web interface.  The inductive invariant.                *)

UiTypeOK ==
    /\ replies \in Seq(Answers) /\ tail \in Nat
    /\ waiting \subseteq Polls
    /\ poll \in [Polls -> {"new", "waiting", "answered", "empty", "closed"}]
    /\ ui.poll \in Polls \/ ui.pc \notin {"look", "register", "timeout"}
    /\ ui \in [pc : {"stopped", "idle", "look", "register", "timeout", "ended", "crashed"},
               poll : Polls \cup {Nobody}]
    /\ courier \in [pc : {"idle", "wake", "append"}, reply : Nat]
    /\ courier.pc # "idle" => courier.reply \in Answers
    /\ given \in [Answers -> SUBSET Polls]
    /\ missed \in [old : SUBSET Answers, late : SUBSET Answers]

\* The list holds each reply once, none of them still to be entered, and its tail is its
\* last node.
ListInv ==
    /\ Distinct(replies)
    /\ \A a \in Elements(replies) : a <= courier.reply
    /\ courier.pc = "append" => courier.reply \notin Elements(replies)
    /\ replies # << >> => tail = replies[Len(replies)]

\* A poll is listed while it waits, and the server thread works on one that does not yet.
WaitInv ==
    /\ \A p \in Polls : p \in waiting <=> poll[p] = "waiting"
    /\ ui.pc \in {"look", "register"} => poll[ui.poll] = "new"

\* A poll that was given a reply is answered, with this reply and no other.
GivenInv ==
    \A p \in Polls : \A a \in Answers : p \in given[a] =>
        /\ poll[p] = "answered" /\ OfChat(p, a)
        /\ \A b \in Answers : p \in given[b] => b = a

UiInv == UiTypeOK /\ ListInv /\ WaitInv /\ GivenInv /\ RepliesAccounted

-----------------------------------------------------------------------------
(* What the operations do to the list of replies.                          *)

\* Dropping the first replies leaves the others, with the same tail.
LEMMA DropFirst ==
    ASSUME NEW S, NEW s \in Seq(S), Distinct(s), NEW k \in 0..Len(s)
    PROVE  LET t == SubSeq(s, k + 1, Len(s))
           IN  /\ t \in Seq(S) /\ Distinct(t) /\ Elements(t) \subseteq Elements(s)
               /\ Elements(s) \subseteq Elements(t) \cup {s[i] : i \in 1..k}
               /\ t # << >> => k # Len(s) /\ t[Len(t)] = s[Len(s)]
<1> DEFINE t == SubSeq(s, k + 1, Len(s))
<1>1. /\ Len(s) \in Nat /\ k \in Nat /\ t \in Seq(S) /\ Len(t) = Len(s) - k
      /\ \A i \in 1..Len(t) : t[i] = s[k + i]
  <2>1. Len(s) \in Nat /\ k \in Nat /\ k <= Len(s) /\ k + 1 \in Int /\ Len(s) \in Int
    OBVIOUS
  <2>2. \A i \in k + 1..Len(s) : s[i] \in S
    BY <2>1
  <2>3. /\ t \in Seq(S) /\ Len(t) = IF k + 1 <= Len(s) THEN Len(s) - (k + 1) + 1 ELSE 0
        /\ \A i \in 1..Len(s) - (k + 1) + 1 : t[i] = s[k + 1 + i - 1]
    BY <2>1, <2>2, SubSeqProperties
  <2> HIDE DEF t
  <2>4. Len(t) = Len(s) - k /\ \A i \in 1..Len(t) : i \in 1..Len(s) - (k + 1) + 1 /\ k + 1 + i - 1 = k + i
    BY <2>1, <2>3
  <2> QED
    BY <2>1, <2>3, <2>4
<1> HIDE DEF t
<1>2. /\ \A i \in 1..Len(t) : k + i \in 1..Len(s)
      /\ \A i, j \in 1..Len(t) : k + i = k + j => i = j
      /\ \A i \in 1..Len(s) : i \in 1..k \/ (i - k \in 1..Len(t) /\ k + (i - k) = i)
  BY <1>1
<1>3. Distinct(t)
  BY <1>1, <1>2 DEF Distinct
<1>4. Elements(t) \subseteq Elements(s)
  BY <1>1, <1>2 DEF Elements
<1>5. ASSUME NEW y \in Elements(s) PROVE y \in Elements(t) \cup {s[i] : i \in 1..k}
  <2>1. PICK i \in 1..Len(s) : y = s[i]
    BY DEF Elements
  <2>2. CASE i \in 1..k
    BY <2>1, <2>2
  <2>3. CASE i - k \in 1..Len(t) /\ k + (i - k) = i
    BY <1>1, <2>1, <2>3 DEF Elements
  <2> QED
    BY <1>2, <2>2, <2>3
<1>6. ASSUME t # << >> PROVE k # Len(s) /\ t[Len(t)] = s[Len(s)]
  <2>1. Len(t) # 0
    BY <1>1, <1>6
  <2>2. Len(t) \in 1..Len(t) /\ k + Len(t) = Len(s) /\ k # Len(s)
    BY <1>1, <2>1
  <2> QED
    BY <1>1, <2>2
<1> QED
  BY <1>1, <1>3, <1>4, <1>5, <1>6 DEF t

\* Unlinking a reply leaves the others.
LEMMA UnlinkOne ==
    ASSUME NEW S, NEW s \in Seq(S), Distinct(s), NEW i \in 1..Len(s)
    PROVE  LET t == Without(s, i)
           IN  /\ t \in Seq(S) /\ Distinct(t) /\ Elements(t) = Elements(s) \ {s[i]}
               /\ t # << >> /\ i = Len(s) => i # 1 /\ t[Len(t)] = s[Len(s) - 1]
               /\ t # << >> /\ i # Len(s) => t[Len(t)] = s[Len(s)]
<1> DEFINE t == Without(s, i)
           at(j) == IF j < i THEN j ELSE j + 1
<1>1. /\ Len(s) \in Nat /\ i \in Nat /\ i >= 1 /\ i <= Len(s)
      /\ t \in Seq(S) /\ Len(t) = Len(s) - 1
      /\ \A j \in 1..Len(t) : t[j] = s[at(j)]
  <2> DEFINE a == SubSeq(s, 1, i - 1)
             b == SubSeq(s, i + 1, Len(s))
  <2>1. Len(s) \in Nat /\ i \in Nat /\ i >= 1 /\ i <= Len(s)
    OBVIOUS
  <2>2. a \in Seq(S) /\ Len(a) = i - 1 /\ \A j \in 1..i - 1 : a[j] = s[j]
    <3>1. a = [j \in 1..i - 1 |-> s[j]]
      BY <2>1
    <3>2. i - 1 \in Nat /\ \A j \in 1..i - 1 : j \in 1..Len(s)
      BY <2>1
    <3> QED
      BY <3>1, <3>2
  <2>3. b \in Seq(S) /\ Len(b) = Len(s) - i /\ \A j \in 1..Len(s) - i : b[j] = s[i + j]
    <3>1. b = [j \in 1..Len(s) - i |-> s[i + j]]
      BY <2>1
    <3>2. Len(s) - i \in Nat /\ \A j \in 1..Len(s) - i : i + j \in 1..Len(s)
      BY <2>1
    <3> QED
      BY <3>1, <3>2
  <2> HIDE DEF a, b
  <2>4. t = a \o b
    BY DEF Without, a, b
  <2> HIDE DEF t
  <2>5. /\ t \in Seq(S) /\ Len(t) = Len(a) + Len(b)
        /\ \A j \in 1..Len(a) + Len(b) : t[j] = IF j <= Len(a) THEN a[j] ELSE b[j - Len(a)]
    BY <2>2, <2>3, <2>4, ConcatProperties
  <2>6. Len(t) = Len(s) - 1
    BY <2>1, <2>2, <2>3, <2>5
  <2>7. ASSUME NEW j \in 1..Len(t) PROVE t[j] = s[at(j)]
    <3>1. CASE j < i
      <4>1. j \in 1..i - 1 /\ j <= Len(a) /\ j \in 1..Len(a) + Len(b)
        BY <2>1, <2>2, <2>3, <2>6, <3>1
      <4> QED
        BY <2>2, <2>5, <3>1, <4>1
    <3>2. CASE ~(j < i)
      <4>1. /\ ~(j <= Len(a)) /\ j - Len(a) \in 1..Len(s) - i /\ i + (j - Len(a)) = j + 1
            /\ j \in 1..Len(a) + Len(b)
        BY <2>1, <2>2, <2>3, <2>6, <3>2
      <4> QED
        BY <2>3, <2>5, <3>2, <4>1
    <3> QED
      BY <3>1, <3>2
  <2> QED
    BY <2>1, <2>5, <2>6, <2>7
<1>2. /\ \A j \in 1..Len(t) : at(j) \in 1..Len(s) /\ at(j) # i
      /\ \A j, h \in 1..Len(t) : at(j) = at(h) => j = h
      /\ \A j \in 1..Len(s) : j # i => \E h \in 1..Len(t) : at(h) = j
  <2>1. \A j \in 1..Len(t) : at(j) \in 1..Len(s) /\ at(j) # i
    BY <1>1
  <2>2. \A j, h \in 1..Len(t) : at(j) = at(h) => j = h
    BY <1>1
  <2>3. ASSUME NEW j \in 1..Len(s), j # i PROVE \E h \in 1..Len(t) : at(h) = j
    <3>1. CASE j < i
      <4>1. j \in 1..Len(t) /\ at(j) = j
        BY <1>1, <3>1
      <4> QED
        BY <4>1
    <3>2. CASE j > i
      <4>1. j - 1 \in 1..Len(t) /\ at(j - 1) = j
        BY <1>1, <3>2
      <4> QED
        BY <4>1
    <3> QED
      BY <1>1, <2>3, <3>1, <3>2
  <2> QED
    BY <2>1, <2>2, <2>3
<1>3. /\ Len(t) # 0 /\ i = Len(s) => i # 1 /\ Len(t) \in 1..Len(t) /\ at(Len(t)) = Len(s) - 1
      /\ Len(t) # 0 /\ i # Len(s) => Len(t) \in 1..Len(t) /\ at(Len(t)) = Len(s)
  BY <1>1
<1>4. t # << >> => Len(t) # 0
  BY <1>1
<1> HIDE DEF t, at
<1>5. Distinct(t)
  BY <1>1, <1>2 DEF Distinct
<1>6. Elements(t) = Elements(s) \ {s[i]}
  <2>1. ASSUME NEW j \in 1..Len(t) PROVE t[j] \in Elements(s) /\ t[j] # s[i]
    <3>1. at(j) \in 1..Len(s) /\ at(j) # i /\ t[j] = s[at(j)]
      BY <1>1, <1>2
    <3> QED
      BY <3>1 DEF Elements, Distinct
  <2>2. ASSUME NEW y \in Elements(s), y # s[i] PROVE y \in Elements(t)
    <3>1. PICK j \in 1..Len(s) : y = s[j]
      BY DEF Elements
    <3>2. PICK h \in 1..Len(t) : at(h) = j
      BY <1>2, <2>2, <3>1
    <3> QED
      BY <1>1, <3>1, <3>2 DEF Elements
  <2> QED
    BY <2>1, <2>2 DEF Elements
<1> QED
  BY <1>1, <1>3, <1>4, <1>5, <1>6 DEF t

\* The set of a sequence's elements, as the model and as the proofs call it.
LEMMA SetOfElements == ASSUME NEW S, NEW s \in Seq(S) PROVE ToSet(s) = Elements(s)
BY DEF ToSet, Elements

\* With its tail in place, the list is extended at its end.
LEMMA LinkedLast ==
    ASSUME UiTypeOK, ListInv, NEW a \in Answers
    PROVE  Appended(a) = Append(replies, a)
<1> DEFINE n == Len(replies)
<1>1. replies \in Seq(Answers) /\ n \in Nat
  BY DEF UiTypeOK
<1>2. CASE replies = << >>
  BY <1>1, <1>2 DEF Appended
<1>3. CASE replies # << >>
  <2>1. n \in 1..n /\ DOMAIN replies = 1..n /\ tail = replies[n]
    BY <1>1, <1>3 DEF ListInv
  <2>2. tail \in ToSet(replies)
    BY <2>1 DEF ToSet
  <2>3. \A i \in DOMAIN replies : replies[i] = tail <=> i = n
    BY <2>1 DEF ListInv, Distinct
  <2>4. (CHOOSE i \in DOMAIN replies : replies[i] = tail) = n
    BY <2>1, <2>3
  <2>5. Appended(a) = SubSeq(replies, 1, n) \o <<a>>
    BY <1>3, <2>2, <2>4 DEF Appended
  <2>6. SubSeq(replies, 1, n) = replies
    BY <1>1, SubSeqFull
  <2> QED
    BY <1>1, <2>5, <2>6, AppendIsConcat
<1> QED
  BY <1>2, <1>3

-----------------------------------------------------------------------------
(* Every step keeps the invariant.                                         *)

LEMMA InitUiInv == UiInit => UiInv
<1> SUFFICES ASSUME UiInit PROVE UiInv
  OBVIOUS
<1>1. UiTypeOK
  BY DEF UiInit, UiTypeOK, NoAnswer
<1>2. ListInv
  BY EmptyHoldsNothing DEF UiInit, ListInv
<1>3. WaitInv /\ GivenInv
  BY DEF UiInit, WaitInv, GivenInv
<1>4. Sent = {}
  BY AnswersAssumption DEF UiInit, Sent, NoAnswer
<1> QED
  BY <1>1, <1>2, <1>3, <1>4 DEF UiInv, RepliesAccounted

\* Steps of the server thread that touch neither replies nor what was given.
LEMMA ServerSteps ==
    ASSUME UiInv, UNCHANGED <<replies, tail, courier, given, missed>>,
           \/ UiStart \/ UiCannotListen \/ UiStop \/ MakeWaiter \/ Register \/ PollTimeout
           \/ \E p \in Polls : PollClosed(p) \/ TimerFires(p) \/ ChatSend(PollChat[p])
    PROVE  UiInv'
<1>0. UiTypeOK /\ ListInv /\ WaitInv /\ GivenInv /\ RepliesAccounted
  BY DEF UiInv
<1>1. ListInv' /\ RepliesAccounted'
  BY <1>0 DEF ListInv, RepliesAccounted, Sent
<1>2. UiTypeOK' /\ WaitInv'
  <2>1. CASE UiStart \/ UiCannotListen
    BY <1>0, <2>1 DEF UiTypeOK, WaitInv, UiStart, UiCannotListen
  <2>2. CASE UiStop
    BY <1>0, <2>2 DEF UiTypeOK, WaitInv, UiStop, UiIdle
  <2>3. CASE MakeWaiter
    BY <1>0, <2>3 DEF UiTypeOK, WaitInv, MakeWaiter
  <2>4. CASE Register
    BY <1>0, <2>4 DEF UiTypeOK, WaitInv, Register
  <2>5. CASE PollTimeout
    BY <1>0, <2>5 DEF UiTypeOK, WaitInv, PollTimeout, Unlisted
  <2>6. ASSUME NEW p \in Polls, PollClosed(p) PROVE UiTypeOK' /\ WaitInv'
    BY <1>0, <2>6 DEF UiTypeOK, WaitInv, PollClosed, UiIdle
  <2>7. ASSUME NEW p \in Polls, TimerFires(p) PROVE UiTypeOK' /\ WaitInv'
    BY <1>0, <2>7 DEF UiTypeOK, WaitInv, TimerFires, UiIdle
  <2>8. ASSUME NEW p \in Polls, ChatSend(PollChat[p]) PROVE UiTypeOK' /\ WaitInv'
    BY <1>0, <2>8 DEF UiTypeOK, WaitInv, ChatSend
  <2> QED
    BY <2>1, <2>2, <2>3, <2>4, <2>5, <2>6, <2>7, <2>8
<1>3. \A p \in Polls : poll[p] = "answered" => poll'[p] = "answered"
  <2>1. CASE UiStart \/ UiCannotListen \/ MakeWaiter
    BY <2>1 DEF UiStart, UiCannotListen, MakeWaiter
  <2>2. CASE UiStop
    BY <2>2 DEF UiStop
  <2>3. CASE Register
    BY <1>0, <2>3 DEF UiTypeOK, WaitInv, Register
  <2>4. CASE PollTimeout
    BY <1>0, <2>4 DEF UiTypeOK, WaitInv, PollTimeout
  <2>5. ASSUME NEW p \in Polls, PollClosed(p) \/ TimerFires(p) \/ ChatSend(PollChat[p])
        PROVE  \A q \in Polls : poll[q] = "answered" => poll'[q] = "answered"
    BY <1>0, <2>5 DEF UiTypeOK, WaitInv, PollClosed, TimerFires, ChatSend
  <2> QED
    BY <2>1, <2>2, <2>3, <2>4, <2>5
<1>4. GivenInv'
  BY <1>0, <1>3 DEF GivenInv, OfChat
<1> QED
  BY <1>1, <1>2, <1>4 DEF UiInv

\* A poll begins; replies that are too old are dropped.
LEMMA PollSteps ==
    ASSUME UiInv, NEW p \in Polls, ChatPoll(p)
    PROVE  UiInv'
<1>0. /\ UiTypeOK /\ ListInv /\ WaitInv /\ GivenInv /\ RepliesAccounted
      /\ replies \in Seq(Answers) /\ Distinct(replies)
  BY DEF UiInv, UiTypeOK, ListInv
<1>1. PICK k \in 0..Len(replies) : Cleanup(k)
  BY DEF ChatPoll
<1> DEFINE gone == {replies[i] : i \in 1..k}
<1>2. /\ replies' \in Seq(Answers) /\ Distinct(replies') /\ Elements(replies') \subseteq Elements(replies)
      /\ Elements(replies) \subseteq Elements(replies') \cup gone
      /\ replies' # << >> => k # Len(replies) /\ replies'[Len(replies')] = replies[Len(replies)]
  BY <1>0, <1>1, DropFirst DEF Cleanup
<1>3. gone \subseteq Answers
  BY <1>0
<1>4. missed'.old = missed.old \cup gone /\ missed'.late = missed.late
      /\ missed' \in [old : SUBSET Answers, late : SUBSET Answers]
  BY <1>0, <1>1, <1>3 DEF Cleanup, UiTypeOK
<1>5. tail' \in Nat /\ (k # Len(replies) => tail' = tail)
  BY <1>0, <1>1 DEF Cleanup, UiTypeOK, NoAnswer
<1> HIDE DEF gone
<1>6. UiTypeOK'
  BY <1>0, <1>2, <1>4, <1>5 DEF UiTypeOK, ChatPoll
<1>7. replies' # << >> => tail' = replies'[Len(replies')]
  <2>1. replies' # << >> => replies # << >>
    BY <1>0, <1>2
  <2> QED
    BY <1>0, <1>2, <1>5, <2>1 DEF ListInv
<1>8. ListInv'
  BY <1>0, <1>2, <1>7 DEF ListInv, ChatPoll
<1>9. WaitInv' /\ GivenInv'
  BY <1>0 DEF WaitInv, GivenInv, ChatPoll, UiTypeOK, OfChat
<1>10. RepliesAccounted'
  <2>1. ToSet(replies) = Elements(replies) /\ ToSet(replies') = Elements(replies')
    BY <1>0, <1>2, SetOfElements
  <2>2. courier' = courier /\ given' = given
    BY DEF ChatPoll
  <2> QED
    BY <1>0, <1>2, <1>4, <2>1, <2>2 DEF RepliesAccounted, Sent
<1> QED
  BY <1>6, <1>8, <1>9, <1>10 DEF UiInv

\* A poll finds a reply.
LEMMA DequeueStep == ASSUME UiInv, Dequeue PROVE UiInv'
<1>0. /\ UiTypeOK /\ ListInv /\ WaitInv /\ GivenInv /\ RepliesAccounted
      /\ replies \in Seq(Answers) /\ Distinct(replies) /\ ui.pc = "look"
  BY DEF UiInv, UiTypeOK, ListInv, Dequeue
<1>1. Earliest(Queued(ui.poll)) \in Queued(ui.poll)
  <2>1. Queued(ui.poll) # {} /\ Queued(ui.poll) \subseteq Nat
    BY <1>0 DEF Dequeue, Queued
  <2>2. \E i \in Queued(ui.poll) : \A j \in Queued(ui.poll) : i <= j
    BY <2>1, LeastNumber
  <2> QED
    BY <2>2 DEF Earliest
<1>2. PICK i \in 1..Len(replies) : i = Earliest(Queued(ui.poll)) /\ OfChat(ui.poll, replies[i])
  <2>1. \A j \in Queued(ui.poll) : j \in 1..Len(replies) /\ OfChat(ui.poll, replies[j])
    BY <1>0 DEF Queued
  <2> QED
    BY <1>1, <2>1
<1> DEFINE a == replies[i]
           p == ui.poll
<1>3. /\ replies' = Without(replies, i) /\ tail' = TailAfter(i)
      /\ given' = [given EXCEPT ![a] = @ \cup {p}]
      /\ poll' = [poll EXCEPT ![p] = "answered"]
      /\ ui' = [ui EXCEPT !.pc = "idle"]
      /\ UNCHANGED <<waiting, courier, missed>>
  BY <1>2 DEF Dequeue
<1>4. a \in Answers /\ p \in Polls /\ poll[p] = "new" /\ OfChat(p, a)
  BY <1>0, <1>2 DEF UiTypeOK, WaitInv
<1>5. /\ replies' \in Seq(Answers) /\ Distinct(replies') /\ Elements(replies') = Elements(replies) \ {a}
      /\ replies' # << >> /\ i = Len(replies) => i # 1 /\ replies'[Len(replies')] = replies[Len(replies) - 1]
      /\ replies' # << >> /\ i # Len(replies) => replies'[Len(replies')] = replies[Len(replies)]
  BY <1>0, <1>2, <1>3, UnlinkOne
<1>6. /\ tail' \in Nat
      /\ replies' # << >> => tail' = replies'[Len(replies')]
  <2>0. /\ Len(replies) \in Nat /\ i \in Nat
        /\ i # 1 => i - 1 \in 1..Len(replies)
        /\ Len(replies) \in 1..Len(replies) /\ replies # << >>
    BY <1>0, <1>2
  <2>1. tail = a <=> i = Len(replies)
    BY <1>0, <1>2, <2>0 DEF ListInv, Distinct
  <2>2. CASE i = Len(replies)
    <3>1. tail' = Before(replies, i)
      BY <1>3, <2>1, <2>2 DEF TailAfter
    <3>2. i # 1 => replies[i - 1] \in Nat
      <4>0. replies \in Seq(Answers)
        BY <1>0
      <4>1. \A j \in 1..Len(replies) : replies[j] \in Answers
        BY <4>0
      <4>2. \A b \in Answers : b \in Nat
        BY AnswersAssumption
      <4> QED
        BY <2>0, <4>1, <4>2
    <3> QED
      BY <1>5, <2>2, <3>1, <3>2 DEF Before, NoAnswer
  <2>3. CASE i # Len(replies)
    <3>1. tail' = tail
      BY <1>3, <2>1, <2>3 DEF TailAfter
    <3> QED
      BY <1>0, <1>5, <2>0, <2>3, <3>1 DEF ListInv, UiTypeOK
  <2> QED
    BY <2>2, <2>3
<1> HIDE DEF a, p
<1>p. \A q \in Polls : poll'[q] = IF q = p THEN "answered" ELSE poll[q]
  BY <1>0, <1>3, <1>4 DEF UiTypeOK
<1>g. \A b \in Answers : given'[b] = IF b = a THEN given[a] \cup {p} ELSE given[b]
  BY <1>0, <1>3, <1>4 DEF UiTypeOK
<1>7. UiTypeOK'
  <2>1. /\ given' \in [Answers -> SUBSET Polls]
        /\ poll' \in [Polls -> {"new", "waiting", "answered", "empty", "closed"}]
    BY <1>0, <1>3, <1>4 DEF UiTypeOK
  <2> QED
    BY <1>0, <1>3, <1>5, <1>6, <2>1 DEF UiTypeOK
<1>8. ListInv'
  BY <1>0, <1>3, <1>5, <1>6 DEF ListInv
<1>9. WaitInv'
  BY <1>0, <1>3, <1>4, <1>p DEF WaitInv, UiTypeOK
<1>10. GivenInv'
  <2>1. \A b \in Answers : p \notin given[b]
    BY <1>0, <1>4 DEF GivenInv
  <2> QED
    BY <1>0, <1>4, <1>p, <1>g, <2>1 DEF GivenInv, OfChat
<1>11. RepliesAccounted'
  <2>1. ToSet(replies) = Elements(replies) /\ ToSet(replies') = Elements(replies')
    BY <1>0, <1>5, SetOfElements
  <2>2. \A b \in Answers : given[b] # {} => given'[b] # {}
    BY <1>g
  <2>3. given'[a] # {}
    BY <1>4, <1>g
  <2> QED
    BY <1>0, <1>3, <1>5, <2>1, <2>2, <2>3 DEF RepliesAccounted, Sent
<1> QED
  BY <1>7, <1>8, <1>9, <1>10, <1>11 DEF UiInv

\* The outbound thread takes up a reply.
LEMMA TakeUpStep == ASSUME UiInv, UiSend PROVE UiInv'
<1>0. UiTypeOK /\ ListInv /\ WaitInv /\ GivenInv /\ RepliesAccounted
  BY DEF UiInv
<1> DEFINE r == courier.reply
<1>1. /\ courier.pc = "idle" /\ r \in Nat /\ r + 1 \in Answers /\ r + 1 \in Nat
      /\ courier' \in [pc : {"wake", "append"}, reply : {r + 1}]
      /\ UNCHANGED <<replies, tail, waiting, poll, ui, given, missed>>
  BY <1>0 DEF UiSend, UiTypeOK
<1>2. courier'.pc \in {"wake", "append"} /\ courier'.reply = r + 1
  BY <1>1
<1>3. UiTypeOK'
  BY <1>0, <1>1 DEF UiTypeOK
<1>4. WaitInv' /\ GivenInv'
  BY <1>0, <1>1 DEF WaitInv, GivenInv, OfChat
<1>5. ListInv'
  <2>1. \A a \in Elements(replies) : a \in Nat /\ a <= r
    BY <1>0, AnswersAssumption, ElementsInRange DEF UiTypeOK, ListInv
  <2>2. \A a \in Elements(replies) : a <= r + 1 /\ a # r + 1
    BY <1>1, <2>1
  <2> QED
    BY <1>0, <1>1, <1>2, <2>2 DEF ListInv
<1>6. RepliesAccounted'
  <2>1. \A a \in Answers : a <= r + 1 => a = r + 1 \/ a <= r
    BY <1>1, AnswersAssumption
  <2>2. \A a \in Answers : a <= r => a \in ToSet(replies) \/ given[a] # {} \/ a \in missed.old \cup missed.late
    BY <1>0, <1>1 DEF RepliesAccounted, Sent
  <2> QED
    BY <1>1, <1>2, <2>1, <2>2 DEF RepliesAccounted, Sent
<1> QED
  BY <1>3, <1>4, <1>5, <1>6 DEF UiInv

\* The outbound thread answers the polls that still wait.
LEMMA WakeStep == ASSUME UiInv, Wake PROVE UiInv'
<1>0. UiTypeOK /\ ListInv /\ WaitInv /\ GivenInv /\ RepliesAccounted
  BY DEF UiInv
<1> DEFINE a == courier.reply
           L == Listening(a)
<1>1. /\ waiting' = waiting \ L
      /\ poll' = [p \in Polls |-> IF p \in L THEN "answered" ELSE poll[p]]
      /\ given' = [given EXCEPT ![a] = @ \cup L]
      /\ missed' = IF L = {} THEN [missed EXCEPT !.late = @ \cup {a}] ELSE missed
      /\ courier' = [courier EXCEPT !.pc = "idle"]
      /\ UNCHANGED <<replies, tail, ui>>
  BY DEF Wake
<1>2. a \in Answers /\ L \subseteq Polls /\ \A p \in L : poll[p] = "waiting" /\ OfChat(p, a)
  BY <1>0 DEF Wake, Listening, UiTypeOK, WaitInv
<1>3. courier'.pc = "idle" /\ courier'.reply = a /\ courier' \in [pc : {"idle"}, reply : Nat]
  BY <1>0, <1>1 DEF UiTypeOK
<1>4. /\ missed' \in [old : SUBSET Answers, late : SUBSET Answers]
      /\ missed.old \subseteq missed'.old /\ missed.late \subseteq missed'.late
      /\ L = {} => a \in missed'.late
  BY <1>0, <1>1, <1>2 DEF UiTypeOK
<1> HIDE DEF a, L
<1>5. given' \in [Answers -> SUBSET Polls]
      /\ \A b \in Answers : given'[b] = IF b = a THEN given[a] \cup L ELSE given[b]
  BY <1>0, <1>1, <1>2 DEF UiTypeOK
<1>6. /\ poll' \in [Polls -> {"new", "waiting", "answered", "empty", "closed"}]
      /\ \A p \in Polls : poll'[p] = IF p \in L THEN "answered" ELSE poll[p]
  BY <1>0, <1>1 DEF UiTypeOK
<1>7. UiTypeOK'
  BY <1>0, <1>1, <1>3, <1>4, <1>5, <1>6 DEF UiTypeOK
<1>8. ListInv'
  BY <1>0, <1>1, <1>3 DEF ListInv, a
<1>9. WaitInv'
  BY <1>0, <1>1, <1>2, <1>6 DEF WaitInv, UiTypeOK
<1>10. GivenInv'
  <2>1. \A p \in L : \A b \in Answers : p \notin given[b]
    BY <1>0, <1>2 DEF GivenInv
  <2> QED
    BY <1>0, <1>2, <1>5, <1>6, <2>1 DEF GivenInv, OfChat
<1>11. RepliesAccounted'
  <2>1. \A b \in Answers : given[b] # {} => given'[b] # {}
    BY <1>5
  <2>2. given'[a] # {} \/ a \in missed'.late
    BY <1>2, <1>4, <1>5
  <2>3. ASSUME NEW b \in Sent'
        PROVE  \/ b \in ToSet(replies') \/ given'[b] # {}
               \/ b \in missed'.old \cup missed'.late
    <3>1. b \in Answers /\ b \in Sent
      BY <1>3, <2>3 DEF Sent, a
    <3>2. \/ b = a \/ b \in ToSet(replies) \/ given[b] # {}
          \/ b \in missed.old \cup missed.late
      BY <1>0, <3>1 DEF RepliesAccounted, a
    <3> QED
      BY <1>1, <1>4, <2>1, <2>2, <3>1, <3>2
  <2> QED
    BY <2>3 DEF RepliesAccounted
<1> QED
  BY <1>7, <1>8, <1>9, <1>10, <1>11 DEF UiInv

\* The outbound thread enters the reply into the list.
LEMMA EnqueueStep == ASSUME UiInv, Enqueue PROVE UiInv'
<1>0. UiTypeOK /\ ListInv /\ WaitInv /\ GivenInv /\ RepliesAccounted
  BY DEF UiInv
<1> DEFINE a == courier.reply
<1>1. /\ a \in Answers /\ a \in Nat /\ a \notin Elements(replies) /\ Distinct(replies)
      /\ replies \in Seq(Answers)
  BY <1>0 DEF Enqueue, UiTypeOK, ListInv
<1>2. /\ replies' = Append(replies, a) /\ tail' = a
      /\ courier' = [courier EXCEPT !.pc = "idle"]
      /\ UNCHANGED <<waiting, poll, ui, given, missed>>
  BY <1>0, <1>1, LinkedLast DEF Enqueue
<1>3. courier'.pc = "idle" /\ courier'.reply = a /\ courier' \in [pc : {"idle"}, reply : Nat]
  BY <1>0, <1>2 DEF UiTypeOK
<1>4. /\ replies' \in Seq(Answers) /\ Distinct(replies')
      /\ Elements(replies') = Elements(replies) \cup {a}
  BY <1>1, <1>2, AppendDistinct
<1>5. replies'[Len(replies')] = a
  BY <1>1, <1>2
<1> HIDE DEF a
<1>6. UiTypeOK'
  BY <1>0, <1>1, <1>2, <1>3, <1>4 DEF UiTypeOK
<1>7. ListInv'
  <2>1. \A b \in Elements(replies') : b <= a
    BY <1>0, <1>1, <1>4 DEF ListInv, a
  <2> QED
    BY <1>2, <1>3, <1>4, <1>5, <2>1 DEF ListInv
<1>8. WaitInv' /\ GivenInv'
  BY <1>0, <1>2 DEF WaitInv, GivenInv, OfChat
<1>9. RepliesAccounted'
  <2>1. ToSet(replies) = Elements(replies) /\ ToSet(replies') = Elements(replies')
    BY <1>1, <1>4, SetOfElements
  <2>2. ASSUME NEW b \in Sent'
        PROVE  \/ b \in ToSet(replies') \/ given'[b] # {}
               \/ b \in missed'.old \cup missed'.late
    <3>1. b \in Sent
      BY <1>3, <2>2 DEF Sent, a
    <3>2. \/ b = a \/ b \in ToSet(replies) \/ given[b] # {}
          \/ b \in missed.old \cup missed.late
      BY <1>0, <3>1 DEF RepliesAccounted, a
    <3> QED
      BY <1>2, <1>4, <2>1, <3>2
  <2> QED
    BY <2>2 DEF RepliesAccounted
<1> QED
  BY <1>6, <1>7, <1>8, <1>9 DEF UiInv

\* A set without two different elements.
LEMMA AtMostOne ==
    ASSUME NEW T, \A x, y \in T : x = y
    PROVE  Cardinality(T) <= 1 /\ (T = {} => Cardinality(T) = 0)
<1>1. CASE T = {}
  <2>1. Cardinality(T) = 0
    BY <1>1, FS_EmptySet
  <2> QED
    BY <2>1
<1>2. CASE T # {}
  <2>1. PICK x \in T : T = {x}
    BY <1>2
  <2>2. Cardinality(T) = 1
    BY <2>1, FS_Singleton
  <2> QED
    BY <1>2, <2>2
<1> QED
  BY <1>1, <1>2

\* For any number of polls, chats and replies: a reply that webui_send is done with is in
\* the list or was given to a poll, unless it grew too old or its polls left between the
\* two locks of enqueue_reply; and a poll gets at most one reply, of its own chat, and is
\* listed exactly while it waits.
THEOREM PollsAreServed == UiSpec => []UiSafe
<1>1. UiInv /\ [UiNext]_uiVars => UiInv'
  <2> SUFFICES ASSUME UiInv, [UiNext]_uiVars PROVE UiInv'
    OBVIOUS
  <2>1. CASE UNCHANGED uiVars
    BY <2>1 DEF uiVars, UiInv, UiTypeOK, ListInv, WaitInv, GivenInv, RepliesAccounted, Sent, OfChat
  <2>2. CASE UiStart \/ UiCannotListen \/ UiStop \/ MakeWaiter \/ Register \/ PollTimeout
    <3>1. UNCHANGED <<replies, tail, courier, given, missed>>
      BY <2>2 DEF UiStart, UiCannotListen, UiStop, MakeWaiter, Register, PollTimeout
    <3> QED
      BY <2>2, <3>1, ServerSteps
  <2>3. ASSUME NEW p \in Polls, PollClosed(p) \/ TimerFires(p) \/ ChatSend(PollChat[p])
        PROVE  UiInv'
    <3>1. UNCHANGED <<replies, tail, courier, given, missed>>
      BY <2>3 DEF PollClosed, TimerFires, ChatSend
    <3> QED
      BY <2>3, <3>1, ServerSteps
  <2> QED
    BY <2>1, <2>2, <2>3, PollSteps, DequeueStep, TakeUpStep, WakeStep, EnqueueStep
    DEF UiNext, UiWork, CourierWork
<1>2. UiInv => UiSafe
  <2> SUFFICES ASSUME UiInv PROVE UiSafe
    OBVIOUS
  <2>0. GivenInv /\ WaitInv /\ RepliesAccounted
    BY DEF UiInv
  <2>1. ASSUME NEW p \in Polls
        PROVE  Cardinality({a \in Answers : p \in given[a]}) <= (IF poll[p] = "answered" THEN 1 ELSE 0)
    <3> DEFINE T == {a \in Answers : p \in given[a]}
    <3>1. /\ \A x, y \in T : x = y
          /\ T # {} => poll[p] = "answered"
      BY <2>0 DEF GivenInv
    <3> HIDE DEF T
    <3>2. Cardinality(T) <= 1 /\ (T = {} => Cardinality(T) = 0)
      BY <3>1, AtMostOne
    <3>3. Cardinality(T) <= (IF poll[p] = "answered" THEN 1 ELSE 0)
      BY <3>1, <3>2
    <3> QED
      BY <3>3 DEF T
  <2>2. PollsAnsweredOnce
    BY <2>0, <2>1 DEF PollsAnsweredOnce, GivenInv, WaitInv
  <2> QED
    BY <2>0, <2>2 DEF UiSafe
<1> QED
  BY InitUiInv, <1>1, <1>2, PTL DEF UiSpec

-----------------------------------------------------------------------------
(* Receiving in Feishu and DingTalk.  The inductive invariant.             *)

Places == {"none", "top", "url", "hung", "create", "connect", "run", "poll", "after", "destroy",
           "clear", "ended", "crashed"}
Slot == [ev : Events \cup {NoEvent}, parts : SUBSET [of : Events, seq : Parts]]
Socket == [at : {"null", "live", "freed"}, running : BOOLEAN, conn : {"null", "up", "freed"},
           closing : BOOLEAN, recent : Seq(Events), slots : [1..SlotCount -> Slot]]

BotTypeOK ==
    /\ sock \in Socket
    /\ rx \in [pc : Places, attempt : Nat]
    /\ lately \in Seq(Events) /\ cloud.unacked \subseteq Events
    /\ "data" \in DOMAIN chan /\ "unacked" \in DOMAIN cloud

\* A connection begins with no event remembered, and remembers the last ones it handled.
RememberInv ==
    /\ rx.pc \in {"connect", "run"} => sock.recent = << >>
    /\ rx.pc = "poll" => sock.recent = lately
    /\ rx.pc = "poll" =>
         \A i \in 1..Len(sock.recent) : sock.recent[i] \in Messages => sock.recent[i] \in delivered

\* A slot collects the parts of one event.
SlotInv == \A k \in 1..SlotCount : \A p \in sock.slots[k].parts : p.of = sock.slots[k].ev

\* DingTalk's channel is stopped when its thread has ended, and freed when it is stopped.
JoinInv ==
    /\ DingTalk /\ (owner = "stopped" \/ chan.data = "freed") => rx.pc \in {"none", "ended"}
    /\ owner \in {"none", "initialized"} => chan.data # "freed"

BotInv == BotTypeOK /\ RememberInv /\ SlotInv /\ JoinInv /\ NoRepeat /\ WholeEvents /\ AckedIsDelivered

-----------------------------------------------------------------------------
(* Steps that handle no event.                                             *)

\* They neither remember nor deliver anything, and forget all parts or none.
Uneventful ==
    /\ BotTypeOK'
    /\ UNCHANGED <<botKind, delivered>>
    /\ cloud'.unacked = cloud.unacked
    /\ oddities' \subseteq oddities \cup {"deaf stop"}
    /\ \/ sock'.recent = sock.recent /\ sock'.slots = sock.slots
       \/ sock'.recent = << >> /\ sock'.slots = [k \in 1..SlotCount |-> NoSlot]

LEMMA UneventfulKeeps ==
    ASSUME BotInv, Uneventful
    PROVE  SlotInv' /\ NoRepeat' /\ WholeEvents' /\ AckedIsDelivered'
<1>1. SlotInv'
  <2>1. SlotInv
    BY DEF BotInv
  <2>2. CASE sock'.slots = sock.slots
    BY <2>1, <2>2 DEF SlotInv
  <2>3. CASE sock'.slots = [k \in 1..SlotCount |-> NoSlot]
    BY <2>3 DEF SlotInv, NoSlot
  <2> QED
    BY <2>2, <2>3 DEF Uneventful
<1>2. NoRepeat' /\ WholeEvents'
  BY DEF BotInv, Uneventful, NoRepeat, WholeEvents
<1>3. AckedIsDelivered'
  BY DEF BotInv, Uneventful, AckedIsDelivered
<1> QED
  BY <1>1, <1>2, <1>3

\* The socket there is none of.
LEMMA NoSocketTyped ==
    /\ NoSocket \in Socket /\ [NoSocket EXCEPT !.at = "live"] \in Socket
    /\ [NoSocket EXCEPT !.at = "freed"] \in Socket
    /\ \A x \in {"live", "freed"} : /\ [NoSocket EXCEPT !.at = x].recent = << >>
                                    /\ [NoSocket EXCEPT !.at = x].slots = [k \in 1..SlotCount |-> NoSlot]
    /\ NoSocket.recent = << >> /\ NoSocket.slots = [k \in 1..SlotCount |-> NoSlot]
<1>1. << >> \in Seq(Events) /\ NoSlot \in Slot
  BY DEF NoSlot, Slot
<1> QED
  BY <1>1 DEF NoSocket, Socket

LEMMA InitBotInv == BotInit => BotInv
<1> SUFFICES ASSUME BotInit PROVE BotInv
  OBVIOUS
<1>1. PICK kind \in BotKinds : BotStart(kind)
  BY DEF BotInit
<1>2. sock = NoSocket /\ rx = [pc |-> "none", attempt |-> 0] /\ lately = << >>
      /\ cloud = [unacked |-> Events, mishaps |-> 0] /\ oddities = {} /\ delivered = {}
      /\ chan.data = "none" /\ "data" \in DOMAIN chan /\ "unacked" \in DOMAIN cloud
  BY <1>1 DEF BotStart
<1>3. BotTypeOK
  BY <1>2, NoSocketTyped DEF BotTypeOK, Places
<1>4. RememberInv
  <2>1. Len(<< >>) = 0 /\ 1..0 = {}
    OBVIOUS
  <2> QED
    BY <1>2, <2>1, NoSocketTyped DEF RememberInv
<1>5. SlotInv
  BY <1>2, NoSocketTyped DEF SlotInv, NoSlot
<1>6. JoinInv /\ NoRepeat /\ WholeEvents
  BY <1>2 DEF JoinInv, NoRepeat, WholeEvents
<1>7. AckedIsDelivered
  BY <1>2, ReceiverAssumption DEF AckedIsDelivered
<1> QED
  BY <1>3, <1>4, <1>5, <1>6, <1>7 DEF BotInv

\* The main thread.
OwnerStep ==
    \/ FeishuInit \/ DingTalkInit \/ FeishuStart \/ DingTalkStart \/ NotConfigured \/ BotStop
    \/ FeishuStop \/ DingTalkStop \/ Join \/ FeishuDestroy \/ DingTalkDestroy

LEMMA OwnerKeeps == ASSUME BotInv, OwnerStep PROVE BotInv'
<1>0. BotTypeOK /\ RememberInv /\ JoinInv
  BY DEF BotInv
<1>1. CASE FeishuInit \/ DingTalkInit
  <2>1. chan'.data = "live" /\ "data" \in DOMAIN chan' /\ owner' = "initialized"
        /\ UNCHANGED <<botKind, sock, rx, cloud, delivered, lately, oddities>>
    BY <1>0, <1>1 DEF FeishuInit, DingTalkInit, BotTypeOK
  <2>2. Uneventful
    BY <1>0, <2>1 DEF Uneventful, BotTypeOK
  <2>3. JoinInv'
    BY <2>1 DEF JoinInv, DingTalk
  <2> QED
    BY <1>0, <2>1, <2>2, <2>3, UneventfulKeeps DEF BotInv, Uneventful, RememberInv
<1>2. CASE FeishuStart \/ DingTalkStart
  <2>1. PICK spares : BotStarted(spares)
    BY <1>2 DEF FeishuStart, DingTalkStart
  <2>2. /\ owner = "initialized" /\ owner' = "started" /\ rx' = [pc |-> "top", attempt |-> 0]
        /\ chan'.data = chan.data /\ "data" \in DOMAIN chan'
        /\ cloud'.unacked = cloud.unacked /\ "unacked" \in DOMAIN cloud'
        /\ UNCHANGED <<botKind, sock, delivered, lately, oddities>>
    BY <1>0, <2>1 DEF BotStarted, BotTypeOK, After, BotSpoilt
  <2>3. Uneventful
    BY <1>0, <2>2 DEF Uneventful, BotTypeOK, Places
  <2>4. JoinInv'
    BY <1>0, <2>2 DEF JoinInv, DingTalk
  <2> QED
    BY <1>0, <2>2, <2>3, <2>4, UneventfulKeeps DEF BotInv, Uneventful, RememberInv
<1>3. CASE NotConfigured \/ BotStop \/ Join
  <2>1. /\ chan'.data = chan.data /\ "data" \in DOMAIN chan'
        /\ UNCHANGED <<botKind, sock, rx, cloud, delivered, lately, oddities>>
        /\ \/ owner' \in {"started", "stopping"}
           \/ owner' = "stopped" /\ rx.pc \in {"none", "ended"}
    BY <1>0, <1>3 DEF NotConfigured, BotStop, Join, BotTypeOK
  <2>2. Uneventful
    BY <1>0, <2>1 DEF Uneventful, BotTypeOK
  <2>3. JoinInv'
    BY <1>0, <2>1 DEF JoinInv, DingTalk
  <2> QED
    BY <1>0, <2>1, <2>2, <2>3, UneventfulKeeps DEF BotInv, Uneventful, RememberInv
<1>4. CASE FeishuStop \/ DingTalkStop
  <2>1. /\ \/ owner' \in {"joining", "crashed"}
           \/ owner' = "stopped" /\ Feishu
        /\ sock' = sock \/ sock' = Halted
        /\ oddities' \subseteq oddities \cup {"deaf stop"}
        /\ UNCHANGED <<botKind, chan, rx, cloud, delivered, lately>>
    BY <1>4 DEF FeishuStop, DingTalkStop, StopSocket
  <2>2. sock' \in Socket /\ sock'.recent = sock.recent /\ sock'.slots = sock.slots
    BY <1>0, <2>1 DEF BotTypeOK, Socket, Halted
  <2>3. Uneventful
    BY <1>0, <2>1, <2>2 DEF Uneventful, BotTypeOK
  <2>4. JoinInv'
    BY <1>0, <2>1 DEF JoinInv, DingTalk, Feishu
  <2> QED
    BY <1>0, <2>1, <2>2, <2>3, <2>4, UneventfulKeeps DEF BotInv, Uneventful, RememberInv
<1>5. CASE FeishuDestroy \/ DingTalkDestroy
  <2>1. /\ owner = "stopped" /\ owner' \in {"destroyed", "crashed"} /\ "data" \in DOMAIN chan'
        /\ UNCHANGED <<botKind, sock, rx, cloud, delivered, lately, oddities>>
    BY <1>0, <1>5 DEF FeishuDestroy, DingTalkDestroy, BotDestroy, BotTypeOK
  <2>2. Uneventful
    BY <1>0, <2>1 DEF Uneventful, BotTypeOK
  <2>3. JoinInv'
    BY <1>0, <2>1 DEF JoinInv, DingTalk
  <2> QED
    BY <1>0, <2>1, <2>2, <2>3, UneventfulKeeps DEF BotInv, Uneventful, RememberInv
<1> QED
  BY <1>1, <1>2, <1>3, <1>4, <1>5 DEF OwnerStep

\* The receive thread, between two events.
LoopStep == ReceiveStep \/ FeishuClosed \/ DingTalkClosed \/ TokenExpires

\* A failed attempt, and what it does to the channel.
LEMMA AttemptFacts ==
    ASSUME BotTypeOK
    PROVE  /\ Failed \in [pc : Places, attempt : Nat] /\ Failed.pc = rx.pc
           /\ \A p \in Places : /\ [rx EXCEPT !.pc = p] \in [pc : Places, attempt : Nat]
                                /\ [rx EXCEPT !.pc = p].pc = p
                                /\ [Failed EXCEPT !.pc = p] \in [pc : Places, attempt : Nat]
                                /\ [Failed EXCEPT !.pc = p].pc = p
           /\ \A r : StoppedBy(r).data = chan.data /\ "data" \in DOMAIN StoppedBy(r)
           /\ \A r, c : [StoppedBy(r) EXCEPT !.token = c].data = chan.data
                        /\ "data" \in DOMAIN [StoppedBy(r) EXCEPT !.token = c]
           /\ BotSpoilt.unacked = cloud.unacked /\ "unacked" \in DOMAIN BotSpoilt
<1>0. rx \in [pc : Places, attempt : Nat] /\ "data" \in DOMAIN chan /\ "unacked" \in DOMAIN cloud
  BY DEF BotTypeOK
<1>1. Failed \in [pc : Places, attempt : Nat] /\ Failed.pc = rx.pc
  BY <1>0 DEF Failed
<1>2. \A p \in Places : /\ [rx EXCEPT !.pc = p] \in [pc : Places, attempt : Nat]
                        /\ [rx EXCEPT !.pc = p].pc = p
  BY <1>0
<1>3. \A p \in Places : /\ [Failed EXCEPT !.pc = p] \in [pc : Places, attempt : Nat]
                        /\ [Failed EXCEPT !.pc = p].pc = p
  BY <1>1
<1>4. \A r : StoppedBy(r).data = chan.data /\ "data" \in DOMAIN StoppedBy(r)
  BY <1>0 DEF StoppedBy
<1>5. \A r, c : /\ [StoppedBy(r) EXCEPT !.token = c].data = StoppedBy(r).data
                /\ "data" \in DOMAIN [StoppedBy(r) EXCEPT !.token = c]
  BY <1>4
<1>6. BotSpoilt.unacked = cloud.unacked /\ "unacked" \in DOMAIN BotSpoilt
  BY <1>0 DEF BotSpoilt
<1> QED
  BY <1>1, <1>2, <1>3, <1>4, <1>5, <1>6

\* The thread moves to a place where it remembers nothing, or keeps its socket's memory.
LEMMA LoopMoves ==
    ASSUME BotInv, Uneventful, owner' = owner, chan'.data = chan.data,
           rx.pc \notin {"none", "ended"} \/ rx' = rx, BotAlive,
           rx' # rx => /\ rx'.pc \in {"connect", "run", "poll"} => sock'.recent = << >>
                       /\ rx'.pc = "poll" => sock'.recent = lately',
           rx' = rx => sock'.recent = sock.recent /\ lately' = lately
    PROVE  BotInv'
<1>1. RememberInv'
  <2>1. /\ rx'.pc \in {"connect", "run"} => sock'.recent = << >>
        /\ rx'.pc = "poll" => sock'.recent = lately'
    BY DEF BotInv, RememberInv
  <2>2. Len(<< >>) = 0 /\ 1..0 = {}
    OBVIOUS
  <2>3. rx'.pc = "poll" =>
          \A i \in 1..Len(sock'.recent) : sock'.recent[i] \in Messages => sock'.recent[i] \in delivered'
    BY <2>2 DEF BotInv, RememberInv, Uneventful
  <2> QED
    BY <2>1, <2>3 DEF RememberInv
<1>2. chan.data # "freed"
  BY DEF BotAlive
<1>3. JoinInv'
  <2>1. ASSUME DingTalk, owner = "stopped" PROVE rx' = rx
    BY <2>1 DEF BotInv, JoinInv
  <2> QED
    BY <1>2, <2>1 DEF BotInv, JoinInv, Uneventful, DingTalk
<1> QED
  BY <1>1, <1>3, UneventfulKeeps DEF BotInv, Uneventful

\* What a step between two events does to thread, channel and service.
GoesTo(S) ==
    /\ rx' \in [pc : S, attempt : Nat]
    /\ chan'.data = chan.data /\ "data" \in DOMAIN chan'
    /\ cloud'.unacked = cloud.unacked /\ "unacked" \in DOMAIN cloud'
    /\ UNCHANGED <<botKind, owner, delivered, oddities>>

LEMMA LoopKeeps == ASSUME BotInv, LoopStep PROVE BotInv'
<1>0. BotTypeOK /\ RememberInv /\ BotAlive
  BY DEF BotInv, LoopStep, ReceiveStep, FeishuTop, FeishuUrl, FeishuCreate, FeishuConnect, FeishuRun,
     FeishuAfter, FeishuDestroySocket, DingTalkTop, DingTalkUrl, DingTalkCreate, DingTalkConnect,
     DingTalkRun, DingTalkAfter, DingTalkDestroySocket, ClearSocket, PollEnds, FeishuClosed,
     DingTalkClosed, TokenExpires, RxAt, CreateSocket, Connecting, EnterRun, DestroySocket
<1> DEFINE Still == {"top", "url", "hung", "create", "after", "destroy", "clear", "ended", "crashed"}
<1>1. Still \subseteq Places /\ \A p \in Still : p \notin {"connect", "run", "poll"}
  BY DEF Places
<1>2. CASE FeishuTop \/ DingTalkTop \/ FeishuUrl \/ DingTalkUrl \/ FeishuAfter \/ DingTalkAfter \/ PollEnds
  <2>1. rx.pc \in {"top", "url", "after", "poll"} /\ UNCHANGED <<sock, lately>>
    BY <1>2 DEF FeishuTop, DingTalkTop, FeishuUrl, DingTalkUrl, FeishuAfter, DingTalkAfter, PollEnds, RxAt
  <2>2. GoesTo(Still)
    <3>1. CASE FeishuTop \/ FeishuAfter \/ PollEnds
      BY <1>0, <3>1, AttemptFacts DEF FeishuTop, FeishuAfter, PollEnds, GoesTo, BotTypeOK
    <3>2. CASE DingTalkTop
      BY <1>0, <3>2, AttemptFacts DEF DingTalkTop, GoesTo, BotTypeOK, RxAt, After
    <3>3. CASE FeishuUrl \/ DingTalkUrl
      BY <1>0, <3>3, AttemptFacts DEF FeishuUrl, DingTalkUrl, GotUrl, NoUrl, UrlHangs, GoesTo, BotTypeOK
    <3>4. CASE DingTalkAfter
      BY <1>0, <3>4, AttemptFacts DEF DingTalkAfter, GoesTo, BotTypeOK
    <3> QED
      BY <1>2, <3>1, <3>2, <3>3, <3>4
  <2>3. Uneventful
    BY <1>0, <1>1, <2>1, <2>2 DEF Uneventful, GoesTo, BotTypeOK
  <2> QED
    BY <1>0, <1>1, <2>1, <2>2, <2>3, LoopMoves DEF GoesTo
<1>3. CASE FeishuCreate \/ DingTalkCreate
  <2>1. /\ rx.pc = "create" /\ sock' = [NoSocket EXCEPT !.at = "live"] /\ lately' = lately
        /\ GoesTo({"connect"}) /\ "connect" \in Places
    BY <1>0, <1>3, AttemptFacts DEF FeishuCreate, DingTalkCreate, CreateSocket, RxAt, GoesTo, BotTypeOK, Places
  <2>2. Uneventful
    BY <1>0, <2>1, NoSocketTyped DEF Uneventful, GoesTo, BotTypeOK
  <2> QED
    BY <1>0, <2>1, <2>2, NoSocketTyped, LoopMoves DEF GoesTo
<1>4. CASE FeishuConnect \/ DingTalkConnect
  <2>1. rx.pc = "connect" /\ lately' = lately /\ sock.recent = << >>
    BY <1>0, <1>4 DEF FeishuConnect, DingTalkConnect, Connecting, RxAt, RememberInv
  <2>2. GoesTo({"run", "destroy"}) /\ {"run", "destroy"} \subseteq Places
    <3>1. \A p \in {"run", "destroy"} : p \in Places
      BY DEF Places
    <3>2. PICK failed \in {chan, StoppedBy(Failed)} : Connecting(failed)
      BY <1>4 DEF FeishuConnect, DingTalkConnect
    <3> QED
      BY <1>0, <3>1, <3>2, AttemptFacts DEF Connecting, GoesTo, BotTypeOK
  <2>3. sock' \in Socket /\ sock'.recent = sock.recent /\ sock'.slots = sock.slots
    BY <1>0, <1>4 DEF FeishuConnect, DingTalkConnect, Connecting, BotTypeOK, Socket
  <2>4. Uneventful
    BY <1>0, <2>1, <2>2, <2>3 DEF Uneventful, GoesTo, BotTypeOK
  <2> QED
    BY <1>0, <2>1, <2>2, <2>3, <2>4, LoopMoves DEF GoesTo
<1>5. CASE FeishuRun \/ DingTalkRun
  <2>1. /\ rx.pc = "run" /\ lately' = << >> /\ sock.recent = << >>
        /\ GoesTo({"poll"}) /\ "poll" \in Places
    BY <1>0, <1>5, AttemptFacts DEF FeishuRun, DingTalkRun, EnterRun, RxAt, GoesTo, BotTypeOK, RememberInv, Places
  <2>2. sock' \in Socket /\ sock'.recent = sock.recent /\ sock'.slots = sock.slots
    BY <1>0, <1>5 DEF FeishuRun, DingTalkRun, EnterRun, BotTypeOK, Socket
  <2>3. << >> \in Seq(Events)
    OBVIOUS
  <2>4. Uneventful
    BY <1>0, <2>1, <2>2, <2>3 DEF Uneventful, GoesTo, BotTypeOK
  <2> QED
    BY <1>0, <2>1, <2>2, <2>4, LoopMoves DEF GoesTo
<1>6. CASE FeishuClosed \/ DingTalkClosed
  <2>1. rx.pc = "poll" /\ lately' = lately
    BY <1>6 DEF FeishuClosed, DingTalkClosed, RxAt
  <2>2. GoesTo(Still)
    <3>1. PICK p \in {"after", "crashed"} : rx' = [rx EXCEPT !.pc = p]
      BY <1>6 DEF FeishuClosed, DingTalkClosed
    <3>2. rx' \in [pc : Still, attempt : Nat]
      BY <1>0, <3>1 DEF BotTypeOK
    <3>3. cloud' = BotSpoilt /\ UNCHANGED <<botKind, chan, owner, delivered, oddities>>
      BY <1>6 DEF FeishuClosed, DingTalkClosed
    <3> QED
      BY <1>0, <3>2, <3>3, AttemptFacts DEF GoesTo, BotTypeOK
  <2>3. sock' \in Socket /\ sock'.recent = sock.recent /\ sock'.slots = sock.slots
    <3>1. \/ sock' = [sock EXCEPT !.conn = "freed", !.running = FALSE]
          \/ sock' = [sock EXCEPT !.conn = "null", !.running = FALSE]
          \/ sock' = [sock EXCEPT !.conn = "freed"]
      BY <1>6 DEF FeishuClosed, DingTalkClosed
    <3> QED
      BY <1>0, <3>1 DEF BotTypeOK, Socket
  <2>4. Uneventful
    BY <1>0, <1>1, <2>1, <2>2, <2>3 DEF Uneventful, GoesTo, BotTypeOK
  <2> QED
    BY <1>0, <1>1, <2>1, <2>2, <2>3, <2>4, LoopMoves DEF GoesTo
<1>7. CASE FeishuDestroySocket \/ DingTalkDestroySocket \/ ClearSocket
  <2>1. rx.pc \in {"destroy", "clear"} /\ lately' = lately
        /\ sock' \in {[NoSocket EXCEPT !.at = "freed"], NoSocket}
    BY <1>7 DEF FeishuDestroySocket, DingTalkDestroySocket, DestroySocket, ClearSocket, RxAt
  <2>2. /\ GoesTo(Still)
        /\ \/ rx.pc = "destroy" /\ rx'.pc = "clear"
           \/ rx.pc = "clear" /\ rx'.pc = "top"
    <3>1. CASE DestroySocket
      <4>1. /\ rx' = [rx EXCEPT !.pc = "clear"] /\ rx.pc = "destroy"
            /\ UNCHANGED <<botKind, chan, owner, cloud, delivered, oddities>>
        BY <3>1 DEF DestroySocket, RxAt
      <4>2. rx' \in [pc : Still, attempt : Nat] /\ rx'.pc = "clear"
        BY <1>0, <4>1 DEF BotTypeOK
      <4> QED
        BY <1>0, <4>1, <4>2 DEF GoesTo, BotTypeOK
    <3>2. CASE ClearSocket
      BY <1>0, <1>1, <3>2, AttemptFacts DEF ClearSocket, GoesTo, BotTypeOK, RxAt
    <3> QED
      BY <1>7, <3>1, <3>2 DEF FeishuDestroySocket, DingTalkDestroySocket
  <2>3. /\ sock' \in Socket /\ sock'.recent = << >>
        /\ sock'.slots = [k \in 1..SlotCount |-> NoSlot]
    BY <2>1, NoSocketTyped
  <2>4. rx' # rx
    BY <2>2
  <2>5. Uneventful
    BY <1>0, <1>1, <2>1, <2>2, <2>3 DEF Uneventful, GoesTo, BotTypeOK
  <2> QED
    BY <1>0, <1>1, <2>1, <2>2, <2>3, <2>4, <2>5, LoopMoves DEF GoesTo
<1>8. CASE TokenExpires
  <2>1. /\ UNCHANGED <<sock, rx, lately, botKind, owner, delivered, oddities>>
        /\ chan'.data = chan.data /\ "data" \in DOMAIN chan'
        /\ cloud'.unacked = cloud.unacked /\ "unacked" \in DOMAIN cloud'
    BY <1>0, <1>8, AttemptFacts DEF TokenExpires, BotTypeOK
  <2>2. Uneventful
    BY <1>0, <2>1 DEF Uneventful, BotTypeOK
  <2> QED
    BY <1>0, <2>1, <2>2, LoopMoves
<1> QED
  BY <1>2, <1>3, <1>4, <1>5, <1>6, <1>7, <1>8 DEF LoopStep, ReceiveStep

-----------------------------------------------------------------------------
(* Steps that handle an event or a part of one.                            *)

\* What is remembered is what was remembered and the new event.
LEMMA LatestFacts ==
    ASSUME NEW s \in Seq(Events), NEW e \in Events
    PROVE  LET t == Latest(Append(s, e), DedupSize)
           IN  /\ t \in Seq(Events)
               /\ \A i \in 1..Len(t) : t[i] = e \/ \E j \in 1..Len(s) : t[i] = s[j]
<1> DEFINE u == Append(s, e)
           t == Latest(u, DedupSize)
<1>1. /\ u \in Seq(Events) /\ Len(u) = Len(s) + 1 /\ Len(s) \in Nat
      /\ \A i \in 1..Len(u) : u[i] = e \/ \E j \in 1..Len(s) : u[i] = s[j]
  <2>1. /\ u \in Seq(Events) /\ Len(u) = Len(s) + 1 /\ Len(s) \in Nat /\ u[Len(s) + 1] = e
        /\ \A j \in 1..Len(s) : u[j] = s[j]
    OBVIOUS
  <2>2. \A i \in 1..Len(u) : i = Len(s) + 1 \/ i \in 1..Len(s)
    BY <2>1
  <2> QED
    BY <2>1, <2>2
<1> HIDE DEF u
<1>2. u # << >>
  BY <1>1
<1>3. /\ Tail(u) \in Seq(Events) /\ Len(Tail(u)) = Len(u) - 1
      /\ \A i \in 1..Len(Tail(u)) : Tail(u)[i] = u[i + 1] /\ i + 1 \in 1..Len(u)
  BY <1>1, <1>2, HeadTailProperties
<1>4. t = u \/ t = Tail(u)
  BY DEF Latest
<1> HIDE DEF t
<1>5. t \in Seq(Events) /\ \A i \in 1..Len(t) : t[i] = e \/ \E j \in 1..Len(s) : t[i] = s[j]
  BY <1>1, <1>3, <1>4, ZenonT(30)
<1> QED
  BY <1>5 DEF t, u

\* combine_payload finds a slot.
LEMMA SlotFound ==
    ASSUME NEW e
    PROVE  SlotFor(e) \in 1..SlotCount
<1>1. ASSUME NEW T, T \subseteq 1..SlotCount, T # {} PROVE Min(T) \in T
  <2>0. T \subseteq Nat
    BY <1>1
  <2>1. \E i \in T : \A j \in T : i <= j
    BY <1>1, <2>0, LeastNumber
  <2> QED
    BY <2>1 DEF Min
<1>2. 1 \in 1..SlotCount
  BY ReceiverAssumption
<1> DEFINE own == {k \in 1..SlotCount : sock.slots[k].ev = e}
           free == {k \in 1..SlotCount : sock.slots[k].ev = NoEvent}
<1>3. own # {} => Min(own) \in 1..SlotCount
  BY <1>1
<1>4. free # {} => Min(free) \in 1..SlotCount
  BY <1>1
<1> QED
  BY <1>2, <1>3, <1>4 DEF SlotFor

\* An event whose text is there is handled, unless it is a duplicate, and acknowledged.
LEMMA HandleKeeps ==
    ASSUME BotInv, NEW e \in Events, Pushed(e), NEW slots \in [1..SlotCount -> Slot],
           FeishuHandle(e, slots, {}), FeishuAcknowledges(e), UNCHANGED <<botKind, chan, owner>>,
           \A k \in 1..SlotCount : \A p \in slots[k].parts : p.of = slots[k].ev
    PROVE  BotInv'
<1>0. /\ BotTypeOK /\ RememberInv /\ JoinInv /\ NoRepeat /\ WholeEvents /\ AckedIsDelivered
      /\ rx.pc = "poll" /\ sock.recent = lately /\ sock \in Socket /\ sock.recent \in Seq(Events)
      /\ chan.data # "freed"
  BY DEF BotInv, RememberInv, Pushed, RxAt, BotAlive, BotTypeOK, Socket
<1> DEFINE dup == IsDuplicate(e)
<1>1. dup <=> \E i \in 1..Len(sock.recent) : sock.recent[i] = e
  BY <1>0 DEF IsDuplicate, ToSet
<1>2. oddities' = oddities
  <2>1. ToSet(lately) = ToSet(sock.recent)
    BY <1>0
  <2> QED
    BY <2>1 DEF FeishuHandle, IsDuplicate
<1>3. /\ sock'.slots = slots /\ sock' \in Socket
      /\ sock'.recent = IF dup THEN sock.recent ELSE Latest(Append(sock.recent, e), DedupSize)
      /\ lately' = IF dup THEN lately ELSE Latest(Append(lately, e), DedupSize)
  <2>1. Latest(Append(sock.recent, e), DedupSize) \in Seq(Events)
    BY <1>0, LatestFacts
  <2> QED
    BY <1>0, <2>1 DEF FeishuHandle, Remember, Socket
<1> HIDE DEF dup
<1>4. sock'.recent = lately' /\ lately' \in Seq(Events)
  BY <1>0, <1>3 DEF Socket
<1>5. /\ delivered \subseteq delivered'
      /\ e \in Messages /\ ~LookupFails(e) => e \in delivered'
      /\ LookupFails(e) => rx'.pc = "crashed"
  BY <1>0, <1>1 DEF FeishuHandle, OnFeishuMessage, LookupFails, RememberInv, BotTypeOK, dup
<1>6. rx' \in [pc : Places, attempt : Nat] /\ (rx'.pc = "poll" \/ rx'.pc = "crashed")
  <2>1. rx' = rx \/ rx' = [rx EXCEPT !.pc = "crashed"]
    BY DEF FeishuHandle, OnFeishuMessage
  <2> QED
    BY <1>0, <2>1 DEF BotTypeOK, Places
<1>7. /\ cloud'.unacked \subseteq cloud.unacked /\ cloud.unacked \subseteq cloud'.unacked \cup {e}
      /\ "unacked" \in DOMAIN cloud' /\ (LookupFails(e) => cloud' = cloud)
  BY <1>0 DEF FeishuAcknowledges, Acknowledged, BotSpoilt, BotTypeOK
<1>8. BotTypeOK'
  BY <1>0, <1>3, <1>4, <1>6, <1>7 DEF BotTypeOK
<1>9. RememberInv'
  <2>1. rx'.pc = "poll" =>
          \A i \in 1..Len(sock'.recent) : sock'.recent[i] \in Messages => sock'.recent[i] \in delivered'
    <3>1. CASE dup
      BY <1>0, <1>3, <1>5, <3>1 DEF RememberInv
    <3>2. CASE ~dup
      <4>1. \A i \in 1..Len(sock'.recent) :
                sock'.recent[i] = e \/ \E j \in 1..Len(sock.recent) : sock'.recent[i] = sock.recent[j]
        <5> DEFINE t == Latest(Append(sock.recent, e), DedupSize)
        <5>1. \A i \in 1..Len(t) : t[i] = e \/ \E j \in 1..Len(sock.recent) : t[i] = sock.recent[j]
          BY <1>0, LatestFacts
        <5>2. sock'.recent = t
          BY <1>3, <3>2
        <5> HIDE DEF t
        <5> QED
          BY <5>1, <5>2
      <4> QED
        BY <1>0, <1>5, <4>1 DEF RememberInv
    <3> QED
      BY <3>1, <3>2
  <2> QED
    BY <1>4, <1>6, <2>1 DEF RememberInv
<1>10. SlotInv'
  BY <1>3 DEF SlotInv
<1>11. JoinInv'
  <2>1. DingTalk => owner # "stopped"
    BY <1>0 DEF JoinInv
  <2> QED
    BY <1>0, <2>1 DEF JoinInv, DingTalk
<1>12. NoRepeat' /\ WholeEvents' /\ AckedIsDelivered'
  BY <1>0, <1>2, <1>5, <1>7 DEF NoRepeat, WholeEvents, AckedIsDelivered
<1> QED
  BY <1>8, <1>9, <1>10, <1>11, <1>12 DEF BotInv

\* An event comes, in one piece.
LEMMA FrameKeeps == ASSUME BotInv, NEW e \in Events, FeishuFrame(e) PROVE BotInv'
<1>1. sock.slots \in [1..SlotCount -> Slot] /\ SlotInv
  BY DEF BotInv, BotTypeOK, Socket
<1> QED
  BY <1>1, HandleKeeps DEF FeishuFrame, SlotInv

\* A socket with other slots.
LEMMA SlotsChanged ==
    ASSUME BotInv, NEW k \in 1..SlotCount, NEW slot \in Slot, BotAlive,
           sock' = [sock EXCEPT !.slots[k] = slot],
           \A p \in slot.parts : p.of = slot.ev,
           UNCHANGED <<botKind, chan, rx, owner, cloud, delivered, lately, oddities>>
    PROVE  BotInv'
<1>0. BotTypeOK /\ RememberInv /\ SlotInv /\ JoinInv /\ sock \in Socket
  BY DEF BotInv, BotTypeOK
<1>1. /\ sock' \in Socket /\ sock'.recent = sock.recent
      /\ \A j \in 1..SlotCount : sock'.slots[j] = IF j = k THEN slot ELSE sock.slots[j]
  BY <1>0 DEF Socket
<1>2. BotTypeOK' /\ RememberInv' /\ JoinInv'
  BY <1>0, <1>1 DEF BotTypeOK, RememberInv, JoinInv, DingTalk
<1>3. SlotInv'
  BY <1>0, <1>1 DEF SlotInv
<1> QED
  BY <1>2, <1>3 DEF BotInv, NoRepeat, WholeEvents, AckedIsDelivered

\* A part of an event comes; with the last one the event is handled.
LEMMA PartKeeps == ASSUME BotInv, NEW e \in Events, NEW i \in Parts, FeishuPart(e, i) PROVE BotInv'
<1> DEFINE k == SlotFor(e)
           slot == Collected(e, i)
<1>0. /\ sock \in Socket /\ sock.slots \in [1..SlotCount -> Slot] /\ SlotInv /\ k \in 1..SlotCount
      /\ BotAlive
  BY SlotFound DEF BotInv, BotTypeOK, Socket, FeishuPart, Pushed, RxAt
<1>1. slot \in Slot /\ \A p \in slot.parts : p.of = slot.ev
  <2> DEFINE old == Kept(e, sock.slots[k])
  <2>1. old \subseteq [of : Events, seq : Parts] /\ \A p \in old : p.of = e
    BY <1>0 DEF Kept, Slot, SlotInv
  <2> HIDE DEF old
  <2>2. slot = [ev |-> e, parts |-> {p \in old : p.seq # i} \cup {[of |-> e, seq |-> i]}]
    BY DEF Collected, old
  <2> HIDE DEF slot
  <2> QED
    BY <2>1, <2>2 DEF Slot
<1>2. CASE Complete(slot)
  <2> DEFINE slots == [sock.slots EXCEPT ![k] = NoSlot]
  <2>1. slots \in [1..SlotCount -> Slot] /\ \A j \in 1..SlotCount : \A p \in slots[j].parts : p.of = slots[j].ev
    <3>1. NoSlot \in Slot /\ NoSlot.parts = {}
      BY DEF NoSlot, Slot
    <3>2. \A j \in 1..SlotCount : slots[j] = IF j = k THEN NoSlot ELSE sock.slots[j]
      BY <1>0
    <3>3. slots \in [1..SlotCount -> Slot]
      BY <1>0, <3>1
    <3> HIDE DEF slots
    <3> QED
      BY <1>0, <3>1, <3>2, <3>3 DEF SlotInv
  <2>2. (IF \E p \in slot.parts : p.of # e THEN {"mixed"} ELSE {}) = {}
    <3>1. slot.ev = e
      BY DEF Collected
    <3> QED
      BY <1>1, <3>1
  <2>3. /\ FeishuHandle(e, slots, {}) /\ FeishuAcknowledges(e) /\ Pushed(e)
        /\ UNCHANGED <<botKind, chan, owner>>
    BY <1>2, <2>2 DEF FeishuPart
  <2> HIDE DEF slots
  <2> QED
    BY <2>1, <2>3, HandleKeeps
<1>3. CASE ~Complete(slot)
  <2>1. /\ sock' = [sock EXCEPT !.slots[k] = slot]
        /\ UNCHANGED <<botKind, chan, rx, owner, cloud, delivered, lately, oddities>>
    BY <1>3 DEF FeishuPart
  <2> HIDE DEF slot, k
  <2> QED
    BY <1>0, <1>1, <2>1, SlotsChanged
<1> QED
  BY <1>2, <1>3

\* Parts that are too old are dropped.
LEMMA ExpireKeeps == ASSUME BotInv, PartsExpire PROVE BotInv'
<1>1. PICK k \in 1..SlotCount : sock' = [sock EXCEPT !.slots[k] = NoSlot]
  BY DEF PartsExpire
<1>2. NoSlot \in Slot /\ \A p \in NoSlot.parts : p.of = NoSlot.ev
  BY DEF NoSlot, Slot
<1>3. BotAlive /\ UNCHANGED <<botKind, chan, rx, owner, cloud, delivered, lately, oddities>>
  BY DEF PartsExpire, RxAt
<1> QED
  BY <1>1, <1>2, <1>3, SlotsChanged

\* DingTalk puts every text on the bus.
LEMMA DingTalkKeeps == ASSUME BotInv, NEW e \in Events, DingTalkMessage(e) PROVE BotInv'
<1>0. BotTypeOK /\ RememberInv /\ SlotInv /\ JoinInv /\ NoRepeat /\ WholeEvents /\ AckedIsDelivered
  BY DEF BotInv
<1>1. /\ UNCHANGED <<botKind, chan, sock, rx, owner, lately, oddities>>
      /\ delivered \subseteq delivered' /\ (e \in Messages => e \in delivered')
  BY DEF DingTalkMessage, DingTalkHandle
<1>2. /\ cloud'.unacked \subseteq cloud.unacked /\ cloud.unacked \subseteq cloud'.unacked \cup {e}
      /\ "unacked" \in DOMAIN cloud'
  BY <1>0 DEF DingTalkMessage, Acknowledged, BotSpoilt, BotTypeOK
<1>3. BotTypeOK' /\ SlotInv' /\ JoinInv'
  BY <1>0, <1>1, <1>2 DEF BotTypeOK, SlotInv, JoinInv, DingTalk
<1>4. RememberInv'
  BY <1>0, <1>1 DEF RememberInv
<1>5. NoRepeat' /\ WholeEvents' /\ AckedIsDelivered'
  BY <1>0, <1>1, <1>2 DEF NoRepeat, WholeEvents, AckedIsDelivered
<1> QED
  BY <1>3, <1>4, <1>5 DEF BotInv

\* For any set of events, any ring and any number of slots, and however often connections,
\* requests and acknowledgements are lost: Feishu handles no event again that is among the
\* last it handled over the connection, puts a long one together from its own parts, and
\* an acknowledged message is on the bus; DingTalk's channel is freed after its thread.
THEOREM EventsReceivedSafely == BotSpec => []ReceiverSafe
<1>1. BotInv /\ [BotNext]_botVars => BotInv'
  <2> SUFFICES ASSUME BotInv, [BotNext]_botVars PROVE BotInv'
    OBVIOUS
  <2>1. CASE UNCHANGED botVars
    BY <2>1 DEF botVars, BotInv, BotTypeOK, RememberInv, SlotInv, JoinInv, DingTalk, NoRepeat,
       WholeEvents, AckedIsDelivered
  <2>2. CASE OwnerStep
    BY <2>2, OwnerKeeps
  <2>3. CASE LoopStep
    BY <2>3, LoopKeeps
  <2>4. ASSUME NEW e \in Events, CloudStep(e) PROVE BotInv'
    BY <2>4, FrameKeeps, PartKeeps, DingTalkKeeps DEF CloudStep
  <2> QED
    BY <2>1, <2>2, <2>3, <2>4, ExpireKeeps DEF BotNext, OwnerStep, LoopStep
<1>2. BotInv => ReceiverSafe
  BY DEF BotInv, ReceiverSafe, JoinInv, NoOrphan
<1> QED
  BY InitBotInv, <1>1, <1>2, PTL DEF BotSpec

-----------------------------------------------------------------------------
(* The life of the process and of its plugins: the inductive invariant.    *)

Entry == [plugin : Plugins \cup {Nothing}, times : Nat]
ChannelEntry == [plugin : Plugins, times : Nat, by : Loaders,
                 st : {"made", "running", "orphan", "gone"}]
Provider == [name : {OpenAI, Other}, plugin : Plugins \cup {Nothing}]
Libraries == [Plugins -> [held : SUBSET Loaders, times : Nat]]
Loads == [Loaders -> [plugin : Plugins \cup {Nothing}, pc : {"idle", "open", "init", "enlist"}]]

PlugTypeOK ==
    /\ cfg \in [enabled : SUBSET Plugins, clash : BOOLEAN, switches : Nat]
    /\ lib \in Libraries
    /\ listed \subseteq [plugin : Plugins, by : Loaders] /\ hole \subseteq Plugins
    /\ registry \subseteq Entry /\ channels \subseteq ChannelEntry
    /\ providers \subseteq Provider
    /\ loader \in Loads
    /\ scan \in [left : SUBSET Plugins, times : Nat]
    /\ main \in [pc : {"load", "start", "serve", "outbound", "channels", "plugins", "loop", "done"},
                 freed : SUBSET {"services", "plugins"}]
    /\ agent \in [st : {"none", "running", "ended"}, asked : BOOLEAN, provider : Provider]
    /\ seen \in [off : SUBSET Plugins, failed : SUBSET Plugins, hung : BOOLEAN]

Loading(p) == \E t \in Loaders : loader[t].pc = "enlist" /\ loader[t].plugin = p

\* e is registered by a plugin that is listed or about to be, from where it is mapped.
There(e) ==
    /\ e.plugin \in Plugins /\ (IsListed(e.plugin) \/ Loading(e.plugin))
    /\ Mapped(e.plugin) /\ lib[e.plugin].times = e.times

\* main goes through its places in their order; the web interface ends no sooner than the
\* load it is at.
MainInv ==
    /\ main.pc \in {"load", "start"} <=> agent.st = "none"
    /\ agent.st = "running" <=> main.pc = "serve"
    /\ main.pc \notin {"plugins", "loop", "done"} => main.freed = {}
    /\ main.pc = "plugins" => main.freed = {"services"}
    /\ main.pc \in {"load", "plugins", "loop", "done"} => \A c \in channels : c.st # "running"
    /\ \A c \in channels : c.st = "orphan" => c.plugin \in Unjoined
    /\ \A c \in channels : c.st \in {"orphan", "gone"} =>
          agent.st = "ended" /\ main.pc \in {"channels", "plugins", "loop", "done"}
    /\ loader["server"] # NoLoad => \E c \in channels : c.plugin = WebUi /\ c.st = "running"

\* Each entry of the list, and each load whose init runs or has run, has a handle of its own.
LoadInv ==
    /\ \A t \in Loaders : /\ loader[t].pc = "idle" <=> loader[t].plugin = Nothing
                          /\ loader[t].pc = "idle" => loader[t] = NoLoad
    /\ \A l \in listed : l.by \in lib[l.plugin].held
    /\ \A t \in Loaders : loader[t].pc \in {"init", "enlist"} =>
          /\ t \in lib[loader[t].plugin].held
          /\ [plugin |-> loader[t].plugin, by |-> t] \notin listed

\* Every registration points to a plugin that is there, or was switched off.
PointInv ==
    /\ "plugins" \notin main.freed =>
         /\ \A e \in registry : e.plugin \in seen.off \/ e = Builtin \/ There(e)
         /\ \A c \in channels : c.plugin \in seen.off \/ There(c)
    /\ hole \subseteq seen.off
    /\ worker # NoTool => worker \in registry /\ agent.st # "none"

\* The providers that are registered are there, and the agent has one of them.
ProviderInv ==
    /\ \A q, r \in providers : q.name = r.name => q = r
    /\ \A q \in providers : q.plugin # Nothing =>
          Kind[q.plugin] = "llm" /\ (IsListed(q.plugin) \/ Loading(q.plugin))
    /\ [name |-> OpenAI, plugin |-> Nothing] \in providers
    /\ main.pc \in {"start", "serve", "outbound", "channels", "plugins"} =>
          /\ agent.provider \in providers
          /\ agent.provider.plugin = Nothing \/ IsListed(agent.provider.plugin)
    /\ main.pc \in {"loop", "done"} /\ agent.asked => agent.provider.plugin = Nothing
    /\ main.pc = "load" => ~agent.asked

\* As long as nobody switches or reloads plugins, main's own loads decide what is listed.
StartInv ==
    cfg.switches = 0 /\ scan.times = 0 /\ main.pc \in {"load", "start", "serve"} =>
        /\ \A l \in listed : l.plugin \in cfg.enabled \ NeedsLoop
        /\ main.pc # "load" => scan.left = {}
        /\ loader["server"] = NoLoad
        /\ loader["external"] # NoLoad =>
               main.pc = "load" /\ loader["external"].plugin \in cfg.enabled
        /\ loader["external"].pc = "enlist" => loader["external"].plugin \notin NeedsLoop
        /\ \A p \in cfg.enabled \ NeedsLoop : p \notin scan.left \/ main.pc # "load" =>
               IsListed(p) \/ p \in seen.failed \/ loader["external"].plugin = p

PlugInv ==
    /\ PlugTypeOK /\ MainInv /\ LoadInv /\ PointInv /\ ProviderInv /\ StartInv
    /\ CrashesExplained

-----------------------------------------------------------------------------
(* Each step keeps the invariant.  First plugin_manager_load_plugin.       *)

\* What a change of one loader's record leaves.
LEMMA OneLoader ==
    ASSUME PlugTypeOK, NEW t \in Loaders, NEW r \in [plugin : Plugins \cup {Nothing},
                                  pc : {"idle", "open", "init", "enlist"}],
           loader' = [loader EXCEPT ![t] = r]
    PROVE  /\ loader' \in Loads /\ loader'[t] = r
           /\ \A u \in Loaders : u # t => loader'[u] = loader[u]
BY DEF PlugTypeOK, Loads

\* A load that ends without a place in the list, and registers nothing: if it gives back a
\* handle, no other load and no entry of the list depend on that one.
LEMMA LoadEnds ==
    ASSUME PlugInv, NEW t \in Loaders, PlugAlive, loader' = [loader EXCEPT ![t] = NoLoad],
           loader[t].pc \in {"open", "init"},
           lib' = lib \/ (loader[t].pc = "init"
                          /\ lib' = [lib EXCEPT ![loader[t].plugin].held = @ \ {t}]),
           seen' \in [off : SUBSET Plugins, failed : SUBSET Plugins, hung : BOOLEAN],
           seen'.off = seen.off, seen.failed \subseteq seen'.failed,
           main.pc = "load" => \/ IsListed(loader[t].plugin) \/ loader[t].plugin \in NeedsLoop
                               \/ loader[t].plugin \in seen'.failed,
           UNCHANGED <<cfg, listed, registry, channels, hole, providers, scan, main, agent, worker,
                       crash>>
    PROVE  PlugInv'
<1> USE PluginsAssumption
<1> DEFINE p == loader[t].plugin
<1>0. /\ loader' \in Loads /\ loader'[t] = NoLoad /\ p \in Plugins
      /\ \A u \in Loaders : u # t => loader'[u] = loader[u]
  <2>1. NoLoad \in [plugin : Plugins \cup {Nothing}, pc : {"idle", "open", "init", "enlist"}]
    BY DEF NoLoad
  <2>2. p \in Plugins
    BY DEF PlugInv, PlugTypeOK, Loads, LoadInv
  <2> QED  BY <2>1, <2>2, OneLoader DEF PlugInv
<1>01. /\ lib' \in Libraries
       /\ \A q \in Plugins : /\ lib'[q].times = lib[q].times
                             /\ \A u \in Loaders : u \in lib[q].held =>
                                  u \in lib'[q].held \/ (u = t /\ q = p /\ loader[t].pc = "init")
  <2>1. lib \in Libraries
    BY DEF PlugInv, PlugTypeOK
  <2> QED  BY <1>0, <2>1 DEF Libraries
<1>02. \A q \in Plugins : Mapped(q) /\ (IsListed(q) \/ Loading(q)) =>
                             Mapped(q)' /\ (IsListed(q) \/ Loading(q))'
  <2> SUFFICES ASSUME NEW q \in Plugins, IsListed(q) \/ Loading(q)
               PROVE  Mapped(q)' /\ (IsListed(q) \/ Loading(q))'
    OBVIOUS
  <2>1. CASE IsListed(q)
    <3>1. PICK l \in listed : l.plugin = q
      BY <2>1 DEF IsListed
    <3>2. l.by \in lib[q].held /\ l = [plugin |-> q, by |-> l.by] /\ l.by \in Loaders
      BY <3>1 DEF PlugInv, LoadInv, PlugTypeOK
    <3>3. l.by \in lib'[q].held
      BY <1>01, <3>2 DEF PlugInv, LoadInv
    <3> QED  BY <3>1, <3>3 DEF IsListed, Mapped
  <2>2. CASE Loading(q)
    <3>1. PICK u \in Loaders : loader[u].pc = "enlist" /\ loader[u].plugin = q
      BY <2>2 DEF Loading
    <3>2. u # t /\ u \in lib[q].held
      BY <3>1 DEF PlugInv, LoadInv
    <3> QED  BY <1>0, <1>01, <3>1, <3>2 DEF Loading, Mapped
  <2> QED  BY <2>1, <2>2
<1>1. PlugTypeOK'
  BY <1>0, <1>01 DEF PlugInv, PlugTypeOK
<1>2. MainInv'
  BY <1>0 DEF PlugInv, MainInv
<1>3. LoadInv'
  <2>1. \A l \in listed : l.by \in lib'[l.plugin].held
    <3> TAKE l \in listed
    <3>1. /\ l.by \in lib[l.plugin].held /\ l = [plugin |-> l.plugin, by |-> l.by]
          /\ l.by \in Loaders /\ l.plugin \in Plugins
      BY DEF PlugInv, LoadInv, PlugTypeOK
    <3> QED  BY <1>01, <3>1 DEF PlugInv, LoadInv
  <2>2. \A u \in Loaders : loader'[u].pc \in {"init", "enlist"} =>
          /\ u \in lib'[loader'[u].plugin].held
          /\ [plugin |-> loader'[u].plugin, by |-> u] \notin listed
    <3> TAKE u \in Loaders
    <3> HAVE loader'[u].pc \in {"init", "enlist"}
    <3>1. u # t /\ loader'[u] = loader[u]
      BY <1>0 DEF NoLoad
    <3>2. loader[u].plugin \in Plugins
      BY <3>1 DEF PlugInv, LoadInv, PlugTypeOK, Loads
    <3> QED  BY <1>01, <3>1, <3>2 DEF PlugInv, LoadInv
  <2> QED  BY <1>0, <2>1, <2>2 DEF PlugInv, LoadInv, NoLoad
<1>4. PointInv'
  <2>1. \A e : There(e) => There(e)'
    BY <1>01, <1>02 DEF There
  <2> QED  BY <2>1 DEF PlugInv, PointInv
<1>5. ProviderInv'
  <2>1. \A q : IsListed(q)' <=> IsListed(q)
    BY DEF IsListed
  <2>2. \A q : Loading(q) => Loading(q)'
    BY <1>0 DEF Loading
  <2> QED  BY <2>1, <2>2 DEF PlugInv, ProviderInv
<1>6. StartInv'
  <2>1. \A q : IsListed(q)' <=> IsListed(q)
    BY DEF IsListed
  <2>2. "external" \in Loaders /\ "server" \in Loaders
    BY DEF Loaders
  <2> SUFFICES ASSUME cfg.switches = 0, scan.times = 0, main.pc \in {"load", "start", "serve"}
               PROVE  StartInv'
    BY DEF StartInv
  <2>3. t = "external" /\ main.pc = "load"
    BY <2>2 DEF PlugInv, StartInv, NoLoad, Loaders
  <2> QED  BY <1>0, <2>1, <2>2, <2>3 DEF PlugInv, StartInv, NoLoad
<1>7. CrashesExplained'
  BY DEF PlugAlive, CrashesExplained
<1> QED  BY <1>1, <1>2, <1>3, <1>4, <1>5, <1>6, <1>7 DEF PlugInv

\* A load that has nothing to do, and one that finds no library.
LEMMA StepNoLoad ==
    ASSUME PlugInv, NEW t \in Loaders, PlugAlive, AlreadyLoaded(t) \/ CannotOpen(t) PROVE PlugInv'
<1>1. loader[t].plugin \in Plugins \cup {Nothing} /\ loader[t].plugin # Nothing
  BY DEF PlugInv, PlugTypeOK, Loads, LoadInv, AlreadyLoaded, CannotOpen
<1>2. CASE AlreadyLoaded(t)
  <2>1. seen' = seen
    BY <1>2 DEF AlreadyLoaded
  <2> QED  BY <1>2, <2>1, LoadEnds DEF AlreadyLoaded, PlugInv, PlugTypeOK
<1>3. CASE CannotOpen(t)
  <2>1. /\ seen' \in [off : SUBSET Plugins, failed : SUBSET Plugins, hung : BOOLEAN]
        /\ seen'.off = seen.off /\ seen'.failed = seen.failed \cup {loader[t].plugin}
    BY <1>1, <1>3 DEF CannotOpen, PlugInv, PlugTypeOK
  <2> QED  BY <1>3, <2>1, LoadEnds DEF CannotOpen
<1> QED  BY <1>2, <1>3

\* The load gives its handle back; nothing was registered by it.
LEMMA StepPluginInitFails ==
    ASSUME PlugInv, NEW t \in Loaders, PlugAlive, PluginInitFails(t) PROVE PlugInv'
<1>1. loader[t].plugin \in Plugins \cup {Nothing} /\ loader[t].plugin # Nothing
  BY DEF PlugInv, PlugTypeOK, Loads, LoadInv, PluginInitFails
<1>2. /\ seen' \in [off : SUBSET Plugins, failed : SUBSET Plugins, hung : BOOLEAN]
      /\ seen'.off = seen.off /\ seen.failed \subseteq seen'.failed
      /\ InitRefused(loader[t].plugin) \/ loader[t].plugin \in seen'.failed
  BY <1>1 DEF PluginInitFails, PlugInv, PlugTypeOK
<1> QED  BY <1>2, LoadEnds DEF PluginInitFails, NothingRegistered, InitRefused

\* A library that no load holds is mapped anew: what points into its last mapping belongs to
\* a plugin that was switched off.
LEMMA StepOpenLibrary ==
    ASSUME PlugInv, NEW t \in Loaders, PlugAlive, OpenLibrary(t) PROVE PlugInv'
<1> USE PluginsAssumption
<1>p. PICK p : p = loader[t].plugin
  OBVIOUS
<1> DEFINE r == [plugin |-> p, pc |-> "init"]
<1>0. /\ p = loader[t].plugin /\ p \in Plugins /\ loader[t].pc = "open" /\ ~IsListed(p)
      /\ UNCHANGED <<cfg, listed, registry, channels, hole, providers, scan, main, agent, worker,
                     crash, seen>>
  BY <1>p DEF PlugInv, PlugTypeOK, Loads, LoadInv, OpenLibrary
<1>00. /\ loader' \in Loads /\ loader'[t] = r
       /\ \A u \in Loaders : u # t => loader'[u] = loader[u]
  <2>1. loader' = [loader EXCEPT ![t] = r]
    <3>1. loader \in Loads /\ loader[t] = [plugin |-> p, pc |-> loader[t].pc]
      BY <1>0 DEF PlugInv, PlugTypeOK, Loads
    <3>2. [loader[t] EXCEPT !.pc = "init"] = r
      BY <3>1
    <3> QED  BY <3>1, <3>2 DEF OpenLibrary, Loads
  <2> QED  BY <1>0, <2>1, OneLoader DEF PlugInv
<1>01. /\ lib' \in Libraries /\ t \in lib'[p].held
       /\ \A q \in Plugins : /\ lib[q].held \subseteq lib'[q].held
                             /\ Mapped(q) => lib'[q].times = lib[q].times
  <2>1. lib \in Libraries
    BY DEF PlugInv, PlugTypeOK
  <2>2. lib' = [lib EXCEPT ![p] = [held |-> lib[p].held \cup {t},
                                   times |-> IF Mapped(p) THEN lib[p].times ELSE lib[p].times + 1]]
    BY <1>0, <2>1 DEF OpenLibrary, Libraries
  <2> QED  BY <1>0, <2>1, <2>2 DEF Libraries
<1>1. PlugTypeOK'
  BY <1>0, <1>00, <1>01 DEF PlugInv, PlugTypeOK
<1>2. MainInv'
  <2>1. loader'["server"] # NoLoad => loader["server"] # NoLoad
    BY <1>0, <1>00 DEF NoLoad, Loaders
  <2> QED  BY <1>0, <2>1 DEF PlugInv, MainInv
<1>3. LoadInv'
  <2>1. \A l \in listed' : l.by \in lib'[l.plugin].held
    BY <1>0, <1>01 DEF PlugInv, LoadInv, PlugTypeOK
  <2>2. [plugin |-> p, by |-> t] \notin listed
    BY <1>0 DEF IsListed
  <2>3. \A u \in Loaders : loader'[u].pc \in {"init", "enlist"} =>
          /\ u \in lib'[loader'[u].plugin].held
          /\ [plugin |-> loader'[u].plugin, by |-> u] \notin listed'
    <3> TAKE u \in Loaders
    <3> HAVE loader'[u].pc \in {"init", "enlist"}
    <3>1. CASE u # t
      <4>1. loader[u].plugin \in Plugins /\ loader'[u] = loader[u]
        BY <1>00, <3>1 DEF PlugInv, LoadInv, PlugTypeOK, Loads
      <4> QED  BY <1>0, <1>01, <4>1 DEF PlugInv, LoadInv
    <3> QED  BY <1>0, <1>00, <1>01, <2>2, <3>1
  <2>4. \A u \in Loaders : /\ loader'[u].pc = "idle" <=> loader'[u].plugin = Nothing
                           /\ loader'[u].pc = "idle" => loader'[u] = NoLoad
    BY <1>0, <1>00 DEF PlugInv, LoadInv, Nothing
  <2> QED  BY <2>1, <2>3, <2>4 DEF LoadInv, NoLoad, Nothing
<1>4. PointInv'
  <2>1. \A q \in Plugins : IsListed(q) \/ Loading(q) => IsListed(q)' \/ Loading(q)'
    BY <1>0, <1>00 DEF IsListed, Loading
  <2>2. \A q \in Plugins : Mapped(q) => Mapped(q)'
    BY <1>01 DEF Mapped
  <2>3. \A e : There(e) => There(e)'
    BY <1>01, <2>1, <2>2 DEF There
  <2> QED  BY <1>0, <2>3 DEF PlugInv, PointInv
<1>5. ProviderInv'
  <2>1. \A q : IsListed(q)' <=> IsListed(q)
    BY <1>0 DEF IsListed
  <2>2. \A q : Loading(q) => Loading(q)'
    BY <1>0, <1>00 DEF Loading
  <2> QED  BY <1>0, <2>1, <2>2 DEF PlugInv, ProviderInv
<1>6. StartInv'
  <2>1. \A q : IsListed(q)' <=> IsListed(q)
    BY <1>0 DEF IsListed
  <2>2. "external" \in Loaders /\ "server" \in Loaders
    BY DEF Loaders
  <2>3. loader[t] # NoLoad
    BY <1>0 DEF NoLoad
  <2> QED  BY <1>0, <1>00, <2>1, <2>2, <2>3 DEF PlugInv, StartInv
<1>7. CrashesExplained'
  BY <1>0 DEF PlugInv, PlugAlive, CrashesExplained
<1> QED  BY <1>1, <1>2, <1>3, <1>4, <1>5, <1>6, <1>7 DEF PlugInv

\* What the plugin has registered is now a listed plugin's.
LEMMA StepEnlist ==
    ASSUME PlugInv, NEW t \in Loaders, PlugAlive, Enlist(t) PROVE PlugInv'
<1> USE PluginsAssumption
<1>p. PICK p : p = loader[t].plugin
  OBVIOUS
<1> DEFINE l == [plugin |-> p, by |-> t]
<1>0. /\ p = loader[t].plugin /\ p \in Plugins /\ loader[t].pc = "enlist" /\ listed' = listed \cup {l}
      /\ UNCHANGED <<cfg, lib, registry, channels, hole, providers, scan, main, agent, worker,
                     crash, seen>>
  BY <1>p DEF PlugInv, PlugTypeOK, Loads, LoadInv, Enlist
<1>00. /\ loader' \in Loads /\ loader'[t] = NoLoad
       /\ \A u \in Loaders : u # t => loader'[u] = loader[u]
  <2>1. NoLoad \in [plugin : Plugins \cup {Nothing}, pc : {"idle", "open", "init", "enlist"}]
    BY DEF NoLoad
  <2> QED  BY <2>1, OneLoader DEF PlugInv, Enlist
<1>02. IsListed(p)' /\ \A q : IsListed(q) => IsListed(q)'
  <2>1. l \in listed' /\ l.plugin = p /\ listed \subseteq listed'
    BY <1>0
  <2> HIDE DEF l
  <2> QED  BY <2>1 DEF IsListed
<1>01. \A q : IsListed(q) \/ Loading(q) => IsListed(q)' \/ Loading(q)'
  <2>1. \A q : Loading(q) => q = p \/ Loading(q)'
    BY <1>0, <1>00 DEF Loading
  <2> QED  BY <1>02, <2>1
<1>1. PlugTypeOK'
  BY <1>0, <1>00 DEF PlugInv, PlugTypeOK
<1>2. MainInv'
  BY <1>0, <1>00 DEF PlugInv, MainInv, Loaders
<1>3. LoadInv'
  <2>1. \A k \in listed' : k.by \in lib[k.plugin].held
    BY <1>0 DEF PlugInv, LoadInv
  <2>2. \A u \in Loaders : loader'[u].pc \in {"init", "enlist"} =>
          /\ u \in lib[loader'[u].plugin].held
          /\ [plugin |-> loader'[u].plugin, by |-> u] \notin listed'
    BY <1>0, <1>00 DEF PlugInv, LoadInv, NoLoad
  <2> QED  BY <1>0, <1>00, <2>1, <2>2 DEF PlugInv, LoadInv, NoLoad
<1>4. PointInv'
  <2>1. \A e : There(e) => There(e)'
    BY <1>0, <1>01 DEF There, Mapped
  <2> QED  BY <1>0, <2>1 DEF PlugInv, PointInv
<1>5. ProviderInv'
  BY <1>0, <1>01, <1>02 DEF PlugInv, ProviderInv
<1>6. StartInv'
  <2> SUFFICES ASSUME cfg.switches = 0, scan.times = 0, main.pc \in {"load", "start", "serve"}
               PROVE  StartInv'
    BY <1>0 DEF StartInv
  <2>1. t = "external" /\ main.pc = "load"
    BY <1>0 DEF PlugInv, StartInv, NoLoad, Loaders
  <2> QED  BY <1>0, <1>00, <1>02, <2>1 DEF PlugInv, StartInv, NoLoad, Loaders
<1>7. CrashesExplained'
  BY <1>0 DEF PlugInv, PlugAlive, CrashesExplained
<1> QED  BY <1>1, <1>2, <1>3, <1>4, <1>5, <1>6, <1>7 DEF PlugInv

-----------------------------------------------------------------------------
(* main, the agent, the web interface and the clean-up.                    *)

\* The next library; one that is enabled is now in the loader's hands.
LEMMA StepLoadExternal ==
    ASSUME PlugInv, PlugAlive, LoadExternal PROVE PlugInv'
<1> USE PluginsAssumption
<1> DEFINE p == NextLibrary
           r == IF p \in cfg.enabled THEN [plugin |-> p, pc |-> "open"] ELSE NoLoad
<1>0. /\ p \in scan.left /\ p \in Plugins /\ loader["external"] = NoLoad
      /\ scan' = [scan EXCEPT !.left = @ \ {p}]
      /\ UNCHANGED <<cfg, lib, listed, registry, channels, hole, providers, main, agent, worker,
                     crash, seen>>
  BY DEF LoadExternal, NextLibrary, PlugInv, PlugTypeOK
<1>00. /\ loader' \in Loads /\ loader'["external"] = r /\ loader'["server"] = loader["server"]
  <2>1. r \in [plugin : Plugins \cup {Nothing}, pc : {"idle", "open", "init", "enlist"}]
    BY <1>0 DEF NoLoad
  <2>2. loader' = [loader EXCEPT !["external"] = r]
    BY DEF LoadExternal
  <2> QED  BY <2>1, <2>2, OneLoader DEF PlugInv, Loaders
<1>01. \A q : IsListed(q)' <=> IsListed(q)
  BY <1>0 DEF IsListed
<1>02. \A q : Loading(q) => Loading(q)'
  BY <1>0, <1>00 DEF Loading, Loaders, NoLoad
<1>1. PlugTypeOK'
  BY <1>0, <1>00 DEF PlugInv, PlugTypeOK
<1>2. MainInv'
  BY <1>0, <1>00 DEF PlugInv, MainInv
<1>3. LoadInv'
  BY <1>0, <1>00 DEF PlugInv, LoadInv, NoLoad, Nothing, Loaders
<1>4. PointInv'
  <2>1. \A e : There(e) => There(e)'
    BY <1>0, <1>01, <1>02 DEF There, Mapped
  <2> QED  BY <1>0, <2>1 DEF PlugInv, PointInv
<1>5. ProviderInv'
  BY <1>0, <1>01, <1>02 DEF PlugInv, ProviderInv
<1>6. StartInv'
  <2>1. scan'.left = scan.left \ {p} /\ scan'.times = scan.times
    BY <1>0 DEF PlugInv, PlugTypeOK
  <2> SUFFICES ASSUME cfg.switches = 0, scan.times = 0, main.pc \in {"load", "start", "serve"}
               PROVE  StartInv'
    BY <1>0, <2>1 DEF StartInv
  <2>2. main.pc = "load"
    BY <1>0 DEF PlugInv, StartInv
  <2>3. \A q \in cfg.enabled \ NeedsLoop : q \notin scan.left =>
           IsListed(q) \/ q \in seen.failed
    <3>1. \A q \in cfg.enabled : q # Nothing
      BY DEF PlugInv, PlugTypeOK, Nothing
    <3> QED  BY <1>0, <3>1 DEF PlugInv, StartInv, NoLoad
  <2> QED  BY <1>0, <1>00, <1>01, <2>1, <2>2, <2>3 DEF PlugInv, StartInv, NoLoad
<1>7. CrashesExplained'
  BY <1>0 DEF PlugInv, PlugAlive, CrashesExplained
<1> QED  BY <1>1, <1>2, <1>3, <1>4, <1>5, <1>6, <1>7 DEF PlugInv

\* A reload ends what is said of the start.
LEMMA StepReload ==
    ASSUME PlugInv, PlugAlive, Reload PROVE PlugInv'
<1> USE PluginsAssumption DEF PlugInv, Reload
<1>1. PlugTypeOK'
  BY DEF PlugTypeOK
<1>2. MainInv'
  BY DEF MainInv
<1>3. LoadInv'
  BY DEF LoadInv
<1>4. PointInv'
  BY DEF PointInv, Loading, There, IsListed, Mapped
<1>5. ProviderInv'
  BY DEF ProviderInv, Loading, IsListed
<1>6. StartInv'
  BY DEF StartInv, PlugTypeOK
<1>7. CrashesExplained'
  BY DEF PlugAlive, CrashesExplained
<1> QED  BY <1>1, <1>2, <1>3, <1>4, <1>5, <1>6, <1>7

\* No load is under way, so the provider chosen belongs to a listed plugin.
LEMMA StepMakeAgent ==
    ASSUME PlugInv, PlugAlive, MakeAgent PROVE PlugInv'
<1> USE PluginsAssumption DEF PlugInv, MakeAgent, NoLoad, Nothing
<1>1. PlugTypeOK'
  <2>1. Wanted \in providers
    BY DEF Wanted, NameTaken, ProviderInv
  <2>2. Builtin \in Entry
    BY DEF Builtin, Entry
  <2> QED  BY <2>1, <2>2 DEF PlugTypeOK
<1>2. MainInv'
  BY DEF MainInv
<1>3. LoadInv'
  BY DEF LoadInv
<1>4. PointInv'
  BY DEF PointInv, Loading, There, IsListed, Mapped
<1>5. ProviderInv'
  <2>1. Wanted \in providers
    BY DEF Wanted, NameTaken, ProviderInv
  <2>2. loader["external"] = NoLoad /\ loader["server"] = NoLoad
    BY DEF MainInv, Scanned
  <2>3. Wanted.plugin = Nothing \/ IsListed(Wanted.plugin)
    BY <2>1, <2>2 DEF ProviderInv, Loading, Loaders
  <2>4. /\ \A q : IsListed(q)' <=> IsListed(q)
        /\ \A q : Loading(q)' <=> Loading(q)
    BY DEF IsListed, Loading
  <2>5. agent'.provider = Wanted /\ agent'.asked = agent.asked /\ main'.pc = "start"
    BY DEF PlugTypeOK
  <2> QED  BY <2>1, <2>3, <2>4, <2>5 DEF ProviderInv
<1>6. StartInv'
  <2>1. main'.pc = "start" /\ \A q : IsListed(q)' <=> IsListed(q)
    BY DEF PlugTypeOK, IsListed
  <2> QED  BY <2>1 DEF StartInv, Scanned
<1>7. CrashesExplained'
  BY DEF PlugAlive, CrashesExplained
<1> QED  BY <1>1, <1>2, <1>3, <1>4, <1>5, <1>6, <1>7

\* main serves from now on.
LEMMA StepStartThreads ==
    ASSUME PlugInv, PlugAlive, StartThreads PROVE PlugInv'
<1> USE PluginsAssumption DEF PlugInv, StartThreads, NoLoad, Nothing
<1>1. PlugTypeOK'
  BY DEF PlugTypeOK
<1>2. MainInv'
  BY DEF MainInv
<1>3. LoadInv'
  BY DEF LoadInv
<1>4. PointInv'
  BY DEF PointInv, Loading, There, IsListed, Mapped
<1>5. ProviderInv'
  BY DEF ProviderInv, Loading, IsListed
<1>6. StartInv'
  BY DEF StartInv, IsListed
<1>7. CrashesExplained'
  BY DEF PlugAlive, CrashesExplained
<1> QED  BY <1>1, <1>2, <1>3, <1>4, <1>5, <1>6, <1>7

\* A channel is started before anything is freed.
LEMMA StepStartChannel ==
    ASSUME PlugInv, NEW c \in channels, PlugAlive, StartChannel(c) PROVE PlugInv'
<1> USE PluginsAssumption DEF PlugInv, StartChannel, NoLoad, Nothing
<1>1. PlugTypeOK'
  BY DEF PlugTypeOK, ChannelEntry
<1>2. MainInv'
  BY DEF MainInv, PlugTypeOK, ChannelEntry
<1>3. LoadInv'
  BY DEF LoadInv
<1>4. PointInv'
  BY DEF PointInv, PlugTypeOK, ChannelEntry, Loading, There, IsListed, Mapped
<1>5. ProviderInv'
  BY DEF ProviderInv, Loading, IsListed
<1>6. StartInv'
  BY DEF StartInv, IsListed
<1>7. CrashesExplained'
  BY DEF PlugAlive, CrashesExplained
<1> QED  BY <1>1, <1>2, <1>3, <1>4, <1>5, <1>6, <1>7

\* The worker's tool is one that is registered.
LEMMA StepRunTool ==
    ASSUME PlugInv, NEW e \in registry, PlugAlive, RunTool(e) PROVE PlugInv'
<1> USE PluginsAssumption DEF PlugInv, RunTool, NoLoad, Nothing
<1>1. PlugTypeOK'
  BY DEF PlugTypeOK
<1>2. MainInv'
  BY DEF MainInv
<1>3. LoadInv'
  BY DEF LoadInv
<1>4. PointInv'
  BY DEF PointInv, Loading, There, IsListed, Mapped
<1>5. ProviderInv'
  BY DEF ProviderInv, Loading, IsListed
<1>6. StartInv'
  BY DEF StartInv, IsListed
<1>7. CrashesExplained'
  BY DEF PlugAlive, CrashesExplained
<1> QED  BY <1>1, <1>2, <1>3, <1>4, <1>5, <1>6, <1>7

\* The worker is free again.
LEMMA StepToolReturns ==
    ASSUME PlugInv, PlugAlive, ToolReturns PROVE PlugInv'
<1> USE PluginsAssumption DEF PlugInv, ToolReturns, NoLoad, Nothing
<1>1. PlugTypeOK'
  BY DEF PlugTypeOK
<1>2. MainInv'
  BY DEF MainInv
<1>3. LoadInv'
  BY DEF LoadInv
<1>4. PointInv'
  BY DEF PointInv, Loading, There, IsListed, Mapped
<1>5. ProviderInv'
  BY DEF ProviderInv, Loading, IsListed
<1>6. StartInv'
  BY DEF StartInv, IsListed
<1>7. CrashesExplained'
  BY DEF PlugAlive, CrashesExplained
<1> QED  BY <1>1, <1>2, <1>3, <1>4, <1>5, <1>6, <1>7

\* Only an agent that runs asks.
LEMMA StepAgentAsks ==
    ASSUME PlugInv, PlugAlive, AgentAsks PROVE PlugInv'
<1> USE PluginsAssumption DEF PlugInv, AgentAsks, NoLoad, Nothing
<1>1. PlugTypeOK'
  BY DEF PlugTypeOK
<1>2. MainInv'
  BY DEF MainInv
<1>3. LoadInv'
  BY DEF LoadInv
<1>4. PointInv'
  BY DEF PointInv, Loading, There, IsListed, Mapped
<1>5. ProviderInv'
  BY DEF ProviderInv, PlugTypeOK, Entry, ChannelEntry, Provider, Loading, IsListed, LoadInv, MainInv
<1>6. StartInv'
  BY DEF StartInv, IsListed
<1>7. CrashesExplained'
  BY DEF PlugAlive, CrashesExplained
<1> QED  BY <1>1, <1>2, <1>3, <1>4, <1>5, <1>6, <1>7

\* The first switch ends what is said of the start.
LEMMA StepSwitchOn ==
    ASSUME PlugInv, NEW p \in Plugins, PlugAlive, SwitchOn(p) PROVE PlugInv'
<1> USE PluginsAssumption DEF PlugInv, SwitchOn, NoLoad, Nothing, CanSwitch
<1> DEFINE r == IF IsListed(p) THEN NoLoad ELSE [plugin |-> p, pc |-> "open"]
<1>0. /\ Serving /\ loader["server"] = NoLoad
      /\ UNCHANGED <<lib, listed, registry, channels, hole, providers, scan, main, agent, worker,
                     crash, seen>>
  OBVIOUS
<1>00. loader' \in Loads /\ loader'["server"] = r /\ loader'["external"] = loader["external"]
  <2>1. r \in [plugin : Plugins \cup {Nothing}, pc : {"idle", "open", "init", "enlist"}]
    OBVIOUS
  <2>2. loader' = [loader EXCEPT !["server"] = r]
    OBVIOUS
  <2> QED  BY <2>1, <2>2, OneLoader DEF Loaders
<1>01. \A q : IsListed(q)' <=> IsListed(q)
  BY DEF IsListed
<1>02. \A q : Loading(q) => Loading(q)'
  BY <1>0, <1>00 DEF Loading, Loaders
<1>1. PlugTypeOK'
  <2>1. cfg' \in [enabled : SUBSET Plugins, clash : BOOLEAN, switches : Nat]
    <3>1. cfg \in [enabled : SUBSET Plugins, clash : BOOLEAN, switches : Nat]
      BY DEF PlugTypeOK
    <3>2. cfg' = [enabled |-> cfg.enabled \cup {p}, clash |-> cfg.clash,
                  switches |-> cfg.switches + 1]
      BY <3>1
    <3>3. cfg.switches + 1 \in Nat /\ cfg.enabled \cup {p} \in SUBSET Plugins
      BY <3>1
    <3>4. cfg.clash \in BOOLEAN
      BY <3>1
    <3> QED  BY ONLY <3>2, <3>3, <3>4
  <2> QED  BY <2>1, <1>00, <1>0 DEF PlugTypeOK
<1>2. MainInv'
  BY <1>0, <1>00 DEF MainInv, Serving
<1>3. LoadInv'
  BY <1>0, <1>00 DEF LoadInv, Loaders
<1>4. PointInv'
  <2>1. \A e : There(e) => There(e)'
    BY <1>0, <1>01, <1>02 DEF There, Mapped
  <2> QED  BY <1>0, <2>1 DEF PointInv
<1>5. ProviderInv'
  BY <1>0, <1>01, <1>02 DEF ProviderInv
<1>6. StartInv'
  <2>1. cfg'.switches # 0
    BY DEF PlugTypeOK
  <2> QED  BY <2>1 DEF StartInv
<1>7. CrashesExplained'
  BY DEF PlugAlive, CrashesExplained
<1> QED  BY <1>1, <1>2, <1>3, <1>4, <1>5, <1>6, <1>7

\* What pointed into the plugin now belongs to one that was switched off; it is not the
\* agent's provider, whose kind cannot be switched.
LEMMA StepSwitchOff ==
    ASSUME PlugInv, NEW p \in Plugins, PlugAlive, SwitchOff(p) PROVE PlugInv'
<1> USE PluginsAssumption
<1>0. /\ Serving /\ loader["server"] = NoLoad /\ Switchable(p)
      /\ UNCHANGED <<registry, loader, scan, main, agent, worker, crash>>
      /\ cfg' = [cfg EXCEPT !.enabled = @ \ {p}, !.switches = @ + 1]
  BY DEF SwitchOff, CanSwitch
<1>00. \/ UNCHANGED <<channels, hole, providers, lib, listed, seen>>
       \/ \E l \in listed : l.plugin = p /\ Unload(l)
  BY DEF SwitchOff
<1>01. /\ cfg' \in [enabled : SUBSET Plugins, clash : BOOLEAN, switches : Nat]
       /\ cfg'.switches # 0
  <2>1. cfg \in [enabled : SUBSET Plugins, clash : BOOLEAN, switches : Nat]
    BY DEF PlugInv, PlugTypeOK
  <2>2. cfg' = [enabled |-> cfg.enabled \ {p}, clash |-> cfg.clash,
                switches |-> cfg.switches + 1]
    BY <1>0, <2>1
  <2>3. cfg.switches + 1 \in Nat \ {0} /\ cfg.enabled \ {p} \in SUBSET Plugins
    BY <2>1
  <2>4. cfg.clash \in BOOLEAN
    BY <2>1
  <2> QED  BY ONLY <2>2, <2>3, <2>4
<1>02. StartInv'
  BY <1>01 DEF StartInv
<1>03. CrashesExplained'
  BY <1>0 DEF PlugAlive, CrashesExplained
<1>1. CASE UNCHANGED <<channels, hole, providers, lib, listed, seen>>
  <2>1. PlugTypeOK' /\ MainInv' /\ LoadInv'
    BY <1>0, <1>01, <1>1 DEF PlugInv, PlugTypeOK, MainInv, LoadInv
  <2>2. PointInv' /\ ProviderInv'
    BY <1>0, <1>1 DEF PlugInv, PointInv, ProviderInv, There, Loading, IsListed, Mapped
  <2> QED  BY <1>02, <1>03, <2>1, <2>2 DEF PlugInv
<1>2. ASSUME NEW l \in listed, l.plugin = p, Unload(l) PROVE PlugInv'
  <2>0. /\ channels' = channels \ Struck(l) /\ hole' = hole \cup {c.plugin : c \in Struck(l)}
        /\ providers' = {q \in providers : q.plugin # p} /\ listed' = listed \ {l}
        /\ lib' = [lib EXCEPT ![p].held = @ \ {l.by}]
        /\ seen' = [seen EXCEPT !.off = @ \cup {p}]
    BY <1>2 DEF Unload
  <2>1. l = [plugin |-> p, by |-> l.by] /\ l.by \in Loaders
    BY <1>2 DEF PlugInv, PlugTypeOK
  <2>2. /\ lib' \in Libraries
        /\ \A q \in Plugins : /\ lib'[q].times = lib[q].times
                              /\ q # p => lib'[q].held = lib[q].held
                              /\ \A u \in lib[q].held : u # l.by => u \in lib'[q].held
    <3>1. lib \in Libraries
      BY DEF PlugInv, PlugTypeOK
    <3> QED  BY <2>0, <3>1 DEF Libraries
  <2>3. /\ seen' \in [off : SUBSET Plugins, failed : SUBSET Plugins, hung : BOOLEAN]
        /\ seen'.off = seen.off \cup {p}
    BY <2>0 DEF PlugInv, PlugTypeOK
  <2>4. \A c \in Struck(l) : c \in channels /\ c.plugin = p
    BY <1>2 DEF Struck
  <2>5. PlugTypeOK'
    <3>1. hole' \subseteq Plugins
      BY <2>0, <2>4 DEF PlugInv, PlugTypeOK
    <3> QED  BY <1>0, <1>01, <2>0, <2>2, <2>3, <3>1 DEF PlugInv, PlugTypeOK
  <2>6. MainInv'
    BY <1>0, <2>0 DEF PlugInv, MainInv
  <2>7. LoadInv'
    <3>1. \A k \in listed' : k.by \in lib'[k.plugin].held
      <4> TAKE k \in listed'
      <4>1. /\ k \in listed /\ k # l /\ k = [plugin |-> k.plugin, by |-> k.by]
            /\ k.plugin \in Plugins /\ k.by \in lib[k.plugin].held
        BY <2>0 DEF PlugInv, PlugTypeOK, LoadInv
      <4> QED  BY <2>1, <2>2, <4>1
    <3>2. \A u \in Loaders : loader[u].pc \in {"init", "enlist"} =>
            /\ u \in lib'[loader[u].plugin].held
            /\ [plugin |-> loader[u].plugin, by |-> u] \notin listed'
      <4> TAKE u \in Loaders
      <4> HAVE loader[u].pc \in {"init", "enlist"}
      <4>1. /\ loader[u].plugin \in Plugins /\ u \in lib[loader[u].plugin].held
            /\ [plugin |-> loader[u].plugin, by |-> u] \notin listed
        BY DEF PlugInv, PlugTypeOK, Loads, LoadInv
      <4>2. loader[u].plugin = p => u # l.by
        BY <2>1, <4>1
      <4> QED  BY <2>0, <2>2, <4>1, <4>2
    <3> QED  BY <1>0, <3>1, <3>2 DEF PlugInv, LoadInv
  <2>8. \A q : q # p => (IsListed(q) => IsListed(q)') /\ (Loading(q) => Loading(q)')
    BY <1>0, <1>2, <2>0 DEF IsListed, Loading
  <2>9. PointInv'
    <3>1. \A e : There(e) => There(e)' \/ e.plugin = p
      BY <2>2, <2>8 DEF There, Mapped
    <3>2. hole' \subseteq seen'.off
      BY <2>0, <2>3, <2>4 DEF PlugInv, PointInv
    <3> QED  BY <1>0, <2>0, <2>3, <3>1, <3>2 DEF PlugInv, PointInv
  <2>10. ProviderInv'
    <3>1. \A q \in providers : q.plugin # p
      BY <1>0 DEF PlugInv, ProviderInv, Switchable, Nothing
    <3>2. providers' = providers
      BY <2>0, <3>1
    <3>3. \A q \in providers : IsListed(q.plugin) => IsListed(q.plugin)'
      BY <2>8, <3>1
    <3>4. \A q \in providers : Loading(q.plugin) => Loading(q.plugin)'
      BY <2>8, <3>1
    <3>5. main' = main /\ agent' = agent
      BY <1>0
    <3> QED  BY <3>2, <3>3, <3>4, <3>5 DEF PlugInv, ProviderInv
  <2> QED  BY <1>02, <1>03, <2>5, <2>6, <2>7, <2>9, <2>10 DEF PlugInv
<1> QED  BY <1>00, <1>1, <1>2

\* The agent ends before anything is freed.
LEMMA StepAgentEnds ==
    ASSUME PlugInv, PlugAlive, AgentEnds PROVE PlugInv'
<1> USE PluginsAssumption DEF PlugInv, AgentEnds, NoLoad, Nothing
<1>1. PlugTypeOK'
  BY DEF PlugTypeOK
<1>2. MainInv'
  BY DEF MainInv
<1>3. LoadInv'
  BY DEF LoadInv
<1>4. PointInv'
  BY DEF PointInv, Loading, There, IsListed, Mapped
<1>5. ProviderInv'
  BY DEF ProviderInv, Loading, IsListed
<1>6. StartInv'
  BY DEF StartInv, IsListed
<1>7. CrashesExplained'
  BY DEF PlugAlive, CrashesExplained
<1> QED  BY <1>1, <1>2, <1>3, <1>4, <1>5, <1>6, <1>7

\* The outbound thread is gone.
LEMMA StepJoinOutbound ==
    ASSUME PlugInv, PlugAlive, JoinOutbound PROVE PlugInv'
<1> USE PluginsAssumption DEF PlugInv, JoinOutbound, NoLoad, Nothing
<1>1. PlugTypeOK'
  BY DEF PlugTypeOK
<1>2. MainInv'
  BY DEF MainInv
<1>3. LoadInv'
  BY DEF LoadInv
<1>4. PointInv'
  BY DEF PointInv, Loading, There, IsListed, Mapped
<1>5. ProviderInv'
  BY DEF ProviderInv, Loading, IsListed
<1>6. StartInv'
  BY DEF StartInv, IsListed
<1>7. CrashesExplained'
  BY DEF PlugAlive, CrashesExplained
<1> QED  BY <1>1, <1>2, <1>3, <1>4, <1>5, <1>6, <1>7

\* main waits for ever.
LEMMA StepHangs ==
    ASSUME PlugInv, PlugAlive, Hangs PROVE PlugInv'
<1> USE PluginsAssumption DEF PlugInv, Hangs, NoLoad, Nothing
<1>1. PlugTypeOK'
  BY DEF PlugTypeOK
<1>2. MainInv'
  BY DEF MainInv
<1>3. LoadInv'
  BY DEF LoadInv
<1>4. PointInv'
  BY DEF PointInv, Loading, There, IsListed, Mapped
<1>5. ProviderInv'
  BY DEF ProviderInv, Loading, IsListed
<1>6. StartInv'
  BY DEF StartInv, IsListed
<1>7. CrashesExplained'
  BY DEF PlugAlive, CrashesExplained
<1> QED  BY <1>1, <1>2, <1>3, <1>4, <1>5, <1>6, <1>7

\* A channel that is stopped no longer runs, or is one that does not wait.
LEMMA StepStopChannel ==
    ASSUME PlugInv, NEW c \in channels, PlugAlive, StopChannel(c) PROVE PlugInv'
<1> USE PluginsAssumption DEF PlugInv, StopChannel, NoLoad, Nothing, Stoppable, Waits
<1>1. PlugTypeOK'
  BY DEF PlugTypeOK, ChannelEntry
<1>2. MainInv'
  <2> DEFINE d == [c EXCEPT !.st = IF c.st = "running" /\ ~Waits(c) THEN "orphan" ELSE "gone"]
  <2>1. /\ d.plugin = c.plugin /\ d.st \in {"orphan", "gone"}
        /\ d.st = "orphan" => c.plugin \in Unjoined
        /\ channels' = (channels \ {c}) \cup {d}
    BY DEF PlugTypeOK, ChannelEntry
  <2>2. /\ main.pc = "channels" /\ agent.st = "ended"
        /\ main' = main /\ agent' = agent /\ loader' = loader
    BY DEF MainInv, PlugTypeOK
  <2>3. loader["server"] # NoLoad => \E e \in channels' : e.plugin = WebUi /\ e.st = "running"
    BY <2>1 DEF MainInv
  <2> HIDE DEF d
  <2> QED  BY <2>1, <2>2, <2>3 DEF MainInv
<1>3. LoadInv'
  BY DEF LoadInv
<1>4. PointInv'
  BY DEF PointInv, PlugTypeOK, ChannelEntry, Loading, There, IsListed, Mapped
<1>5. ProviderInv'
  BY DEF ProviderInv, Loading, IsListed
<1>6. StartInv'
  BY DEF StartInv, IsListed
<1>7. CrashesExplained'
  BY DEF PlugAlive, CrashesExplained
<1> QED  BY <1>1, <1>2, <1>3, <1>4, <1>5, <1>6, <1>7

\* The thread nobody waited for ends.
LEMMA StepOrphanEnds ==
    ASSUME PlugInv, NEW c \in channels, PlugAlive, OrphanEnds(c) PROVE PlugInv'
<1> USE PluginsAssumption DEF PlugInv, OrphanEnds, NoLoad, Nothing
<1>1. PlugTypeOK'
  BY DEF PlugTypeOK, ChannelEntry
<1>2. MainInv'
  BY DEF MainInv, PlugTypeOK, ChannelEntry
<1>3. LoadInv'
  BY DEF LoadInv
<1>4. PointInv'
  BY DEF PointInv, PlugTypeOK, ChannelEntry, Loading, There, IsListed, Mapped
<1>5. ProviderInv'
  BY DEF ProviderInv, Loading, IsListed
<1>6. StartInv'
  BY DEF StartInv, IsListed
<1>7. CrashesExplained'
  BY DEF PlugAlive, CrashesExplained
<1> QED  BY <1>1, <1>2, <1>3, <1>4, <1>5, <1>6, <1>7

\* Services are freed when no channel runs any more.
LEMMA StepFreeServices ==
    ASSUME PlugInv, PlugAlive, FreeServices PROVE PlugInv'
<1> USE PluginsAssumption DEF PlugInv, FreeServices, NoLoad, Nothing, ChannelsDone
<1>1. PlugTypeOK'
  BY DEF PlugTypeOK
<1>2. MainInv'
  BY DEF MainInv
<1>3. LoadInv'
  BY DEF LoadInv
<1>4. PointInv'
  BY DEF PointInv, Loading, There, IsListed, Mapped
<1>5. ProviderInv'
  BY DEF ProviderInv, Loading, IsListed
<1>6. StartInv'
  BY DEF StartInv, IsListed
<1>7. CrashesExplained'
  BY DEF PlugAlive, CrashesExplained
<1> QED  BY <1>1, <1>2, <1>3, <1>4, <1>5, <1>6, <1>7

\* After the plugins only an answer of the built-in provider can stand out.
LEMMA StepFreePlugins ==
    ASSUME PlugInv, PlugAlive, FreePlugins PROVE PlugInv'
<1> USE PluginsAssumption DEF PlugInv, FreePlugins, NoLoad, Nothing
<1>1. PlugTypeOK'
  <2>1. lib' \in Libraries
    <3>1. lib \in Libraries
      BY DEF PlugTypeOK
    <3> QED  BY <3>1 DEF Libraries
  <2>2. main' \in [pc : {"load", "start", "serve", "outbound", "channels", "plugins", "loop",
                         "done"}, freed : SUBSET {"services", "plugins"}]
    BY DEF PlugTypeOK
  <2>3. agent' \in [st : {"none", "running", "ended"}, asked : BOOLEAN, provider : Provider]
    <3>1. agent'.asked \in BOOLEAN
      BY DEF PlugTypeOK
    <3> QED  BY <3>1 DEF PlugTypeOK
  <2>4. providers' \subseteq Provider /\ listed' \subseteq Plugins
    BY DEF PlugTypeOK
  <2> QED  BY <2>1, <2>2, <2>3, <2>4 DEF PlugTypeOK
<1>2. MainInv'
  <2>1. /\ main.pc = "plugins" /\ main'.pc = "loop" /\ agent'.st = agent.st
        /\ UNCHANGED channels
    BY DEF PlugTypeOK
  <2> QED  BY <2>1 DEF MainInv
<1>3. LoadInv'
  <2>1. \A u \in Loaders : loader[u].pc \in {"init", "enlist"} =>
          u \in lib'[loader[u].plugin].held
    <3> TAKE u \in Loaders
    <3> HAVE loader[u].pc \in {"init", "enlist"}
    <3>1. /\ loader[u].plugin \in Plugins /\ u \in lib[loader[u].plugin].held
          /\ [plugin |-> loader[u].plugin, by |-> u] \notin listed
      BY DEF PlugTypeOK, Loads, LoadInv
    <3> QED  BY <3>1 DEF PlugTypeOK, Libraries
  <2> QED  BY <2>1 DEF LoadInv
<1>4. PointInv'
  <2>1. "plugins" \in main'.freed
    BY DEF PlugTypeOK
  <2> QED  BY <2>1 DEF PointInv, PlugTypeOK
<1>5. ProviderInv'
  <2>1. /\ main.pc = "plugins" /\ main'.pc = "loop" /\ agent'.provider = agent.provider
        /\ agent'.asked = (agent.asked /\ ~IsListed(agent.provider.plugin))
    BY DEF PlugTypeOK
  <2>2. ~IsListed(Nothing)
    BY DEF IsListed, PlugTypeOK
  <2>3. \A q : Loading(q) => Loading(q)'
    BY DEF Loading
  <2>4. agent'.asked => agent'.provider.plugin = Nothing
    BY <2>1 DEF ProviderInv
  <2> QED  BY <2>1, <2>2, <2>3, <2>4 DEF ProviderInv
<1>6. StartInv'
  BY DEF StartInv, PlugTypeOK
<1>7. CrashesExplained'
  BY DEF PlugAlive, CrashesExplained
<1> QED  BY <1>1, <1>2, <1>3, <1>4, <1>5, <1>6, <1>7

\* The last of main's places.
LEMMA StepFreeAgent ==
    ASSUME PlugInv, PlugAlive, FreeAgent PROVE PlugInv'
<1> USE PluginsAssumption DEF PlugInv, FreeAgent, NoLoad, Nothing
<1>1. PlugTypeOK'
  BY DEF PlugTypeOK
<1>2. MainInv'
  BY DEF MainInv
<1>3. LoadInv'
  BY DEF LoadInv
<1>4. PointInv'
  BY DEF PointInv, Loading, There, IsListed, Mapped
<1>5. ProviderInv'
  BY DEF ProviderInv, Loading, IsListed
<1>6. StartInv'
  BY DEF StartInv, IsListed
<1>7. CrashesExplained'
  BY DEF PlugAlive, CrashesExplained
<1> QED  BY <1>1, <1>2, <1>3, <1>4, <1>5, <1>6, <1>7

\* plugin->init: what is registered points into the mapping of the plugin that is being
\* loaded, and a provider takes a name that was free.
LEMMA StepPluginInit ==
    ASSUME PlugInv, NEW t \in Loaders, PlugAlive, PluginInit(t) PROVE PlugInv'
<1> USE PluginsAssumption
<1>p. PICK p : p = loader[t].plugin
  OBVIOUS
<1> DEFINE r == [plugin |-> p, pc |-> "enlist"]
<1>0. /\ p = loader[t].plugin /\ p \in Plugins /\ t \in lib[p].held /\ [plugin |-> p, by |-> t] \notin listed
      /\ loader[t].pc = "init" /\ ~InitRefused(p)
      /\ UNCHANGED <<cfg, lib, listed, hole, scan, main, agent, worker, crash, seen>>
  BY <1>p DEF PlugInv, PlugTypeOK, Loads, LoadInv, PluginInit
<1>00. /\ loader' \in Loads /\ loader'[t] = r
       /\ \A u \in Loaders : u # t => loader'[u] = loader[u]
  <2>1. loader' = [loader EXCEPT ![t] = r]
    <3>1. loader \in Loads /\ loader[t] = [plugin |-> p, pc |-> loader[t].pc]
      BY <1>0 DEF PlugInv, PlugTypeOK, Loads
    <3>2. [loader[t] EXCEPT !.pc = "enlist"] = r
      BY <3>1
    <3> QED  BY <3>1, <3>2 DEF PluginInit, Loads
  <2> QED  BY <1>0, <2>1, OneLoader DEF PlugInv
<1>01. /\ channels \subseteq channels' /\ registry \subseteq registry'
       /\ \A c \in channels' \ channels :
             c = [plugin |-> p, times |-> lib[p].times, by |-> t, st |-> "made"]
       /\ \A e \in registry' \ registry : e = Registration(p)
  BY <1>0 DEF PluginInit, RegisterChannel, RegisterCallable, RegisterProvider
<1>02. \/ UNCHANGED providers
       \/ /\ Kind[p] = "llm" /\ ~NameTaken(ProviderName(p))
          /\ providers' = providers \cup {[name |-> ProviderName(p), plugin |-> p]}
  BY <1>0 DEF PluginInit, RegisterChannel, RegisterCallable, RegisterProvider
<1>03. Loading(p)' /\ \A q : Loading(q) => Loading(q)'
  BY <1>0, <1>00 DEF Loading
<1>04. \A q : IsListed(q)' <=> IsListed(q)
  BY <1>0 DEF IsListed
<1>1. PlugTypeOK'
  <2>1. channels' \subseteq ChannelEntry
    BY <1>0, <1>01 DEF PlugInv, PlugTypeOK, Libraries, ChannelEntry
  <2>2. registry' \subseteq Entry
    BY <1>0, <1>01 DEF PlugInv, PlugTypeOK, Libraries, Entry, Registration
  <2>3. providers' \subseteq Provider
    BY <1>0, <1>02 DEF PlugInv, PlugTypeOK, Provider, ProviderName
  <2> QED  BY <1>0, <1>00, <2>1, <2>2, <2>3 DEF PlugInv, PlugTypeOK
<1>2. MainInv'
  <2>1. \A c \in channels' : c \in channels \/ c.st = "made"
    BY <1>01
  <2>2. loader'["server"] # NoLoad => loader["server"] # NoLoad
    BY <1>0, <1>00 DEF NoLoad, Loaders
  <2> QED  BY <1>0, <1>01, <2>1, <2>2 DEF PlugInv, MainInv
<1>3. LoadInv'
  <2>1. p # Nothing
    BY <1>0 DEF Nothing
  <2> QED  BY <1>0, <1>00, <2>1 DEF PlugInv, LoadInv
<1>4. PointInv'
  <2>1. Mapped(p) /\ \A q : Mapped(q)' <=> Mapped(q)
    BY <1>0 DEF Mapped
  <2>2. \A e \in registry' : e \in registry \/ There(e)'
    BY <1>0, <1>01, <1>03, <2>1 DEF There, Registration
  <2>3. \A c \in channels' : c \in channels \/ There(c)'
    BY <1>0, <1>01, <1>03, <2>1 DEF There
  <2>4. \A e : There(e) => There(e)'
    BY <1>0, <1>03, <1>04, <2>1 DEF There
  <2> QED  BY <1>0, <1>01, <2>2, <2>3, <2>4 DEF PlugInv, PointInv
<1>5. ProviderInv'
  <2>1. \A q, u \in providers' : q.name = u.name => q = u
    BY <1>02 DEF PlugInv, ProviderInv, NameTaken
  <2>2. \A q \in providers' : q.plugin # Nothing =>
            Kind[q.plugin] = "llm" /\ (IsListed(q.plugin)' \/ Loading(q.plugin)')
    BY <1>02, <1>03, <1>04 DEF PlugInv, ProviderInv
  <2> QED  BY <1>0, <1>02, <1>04, <2>1, <2>2 DEF PlugInv, ProviderInv
<1>6. StartInv'
  <2> SUFFICES ASSUME cfg.switches = 0, scan.times = 0, main.pc \in {"load", "start", "serve"}
               PROVE  StartInv'
    BY <1>0 DEF StartInv
  <2>1. t = "external" /\ main.pc = "load"
    BY <1>0 DEF PlugInv, StartInv, NoLoad, Loaders
  <2>2. p \notin NeedsLoop
    BY <1>0, <2>1 DEF InitRefused, LoopExists
  <2>3. "server" \in Loaders /\ loader'["server"] = loader["server"]
    BY <1>00, <2>1 DEF Loaders
  <2>4. loader["external"] # NoLoad
    BY <1>0, <2>1 DEF NoLoad
  <2> QED  BY <1>0, <1>00, <1>04, <2>1, <2>2, <2>3, <2>4 DEF PlugInv, StartInv
<1>7. CrashesExplained'
  BY <1>0 DEF PlugInv, PlugAlive, CrashesExplained
<1> QED  BY <1>1, <1>2, <1>3, <1>4, <1>5, <1>6, <1>7 DEF PlugInv

-----------------------------------------------------------------------------
(* The steps that end the process.                                         *)

\* A step that ends the process changes nothing else.
LEMMA StepCrashes ==
    ASSUME PlugInv, NEW who, NEW p, Crashes(who, p), CrashesExplained' PROVE PlugInv'
BY DEF PlugInv, Crashes, PlugTypeOK, MainInv, LoadInv, PointInv, ProviderInv, StartInv,
       Loading, There, IsListed, Mapped

\* What points nowhere before the plugins are freed belongs to a plugin switched off.
LEMMA DanglingIsOff ==
    ASSUME PlugInv, "plugins" \notin main.freed, NEW e \in registry \cup channels, Dangles(e)
    PROVE  e.plugin \in seen.off
BY DEF PlugInv, PointInv, Dangles, Valid, There

\* The steps of all threads that follow a pointer to what is gone.
Ends(who, p) ==
    \/ MainHole(p) /\ who = "main"
    \/ DispatchHole(p) /\ who = "outbound"
    \/ \E c \in channels : c.plugin = p /\ \/ MainFollows(c) /\ who = "main"
                                           \/ DispatchTo(c) /\ who = "outbound"
                                           \/ ChannelRuns(c) /\ who = "channel"
                                           \/ WalksFreed(c) /\ who = "server"
    \/ \E e \in registry : AgentFollows(e) /\ e.plugin = p /\ who = "agent"
    \/ WorkerFollows /\ worker.plugin = p /\ who = "worker"

\* Each of them has a reason: the plugin was switched off, the worker outlives the agent,
\* the channel does not wait for its thread, or main is destroying channels.
LEMMA StepEnds ==
    ASSUME PlugInv, NEW who, NEW p, Ends(who, p) PROVE PlugInv'
<1>1. Crashes(who, p)
  BY DEF Ends, MainHole, DispatchHole, MainFollows, DispatchTo, ChannelRuns, AgentFollows,
         WorkerFollows, WalksFreed
<1>2. crash' = [by |-> who, plugin |-> p] /\ UNCHANGED <<seen, agent, main>>
  BY <1>1 DEF Crashes
<1>3. \/ p \in seen.off
      \/ who = "worker" /\ agent.st = "ended"
      \/ who = "channel" /\ p \in Unjoined /\ agent.st = "ended"
      \/ who = "server" /\ main.pc = "channels"
  <2>1. CASE MainHole(p) \/ DispatchHole(p)
    BY <2>1 DEF MainHole, DispatchHole, PlugInv, PointInv
  <2>2. CASE \E c \in channels : c.plugin = p /\ (MainFollows(c) \/ DispatchTo(c))
    <3>1. PICK c \in channels : c.plugin = p /\ (MainFollows(c) \/ DispatchTo(c))
      BY <2>2
    <3>2. main.freed = {} /\ Dangles(c)
      BY <3>1 DEF MainFollows, DispatchTo, Dispatching, PlugInv, MainInv
    <3> QED  BY <3>1, <3>2, DanglingIsOff
  <2>3. CASE \E c \in channels : c.plugin = p /\ ChannelRuns(c) /\ who = "channel"
    <3>1. PICK c \in channels : c.plugin = p /\ ChannelRuns(c)
      BY <2>3
    <3>2. CASE c.st = "orphan"
      BY <2>3, <3>1, <3>2 DEF PlugInv, MainInv
    <3>3. CASE c.st = "running" /\ Dangles(c)
      <4>1. main.freed = {}
        BY <3>3 DEF PlugInv, MainInv
      <4> QED  BY <3>1, <3>3, <4>1, DanglingIsOff
    <3> QED  BY <3>1, <3>2, <3>3 DEF ChannelRuns
  <2>4. CASE \E e \in registry : AgentFollows(e) /\ e.plugin = p
    BY <2>4, DanglingIsOff DEF AgentFollows, PlugInv, MainInv
  <2>5. CASE WorkerFollows /\ worker.plugin = p /\ who = "worker"
    <3>1. worker \in registry /\ agent.st # "none"
      BY <2>5 DEF WorkerFollows, PlugInv, PointInv
    <3>2. main.freed # {} => agent.st = "ended"
      BY <3>1 DEF PlugInv, MainInv, PlugTypeOK
    <3> QED  BY <2>5, <3>1, <3>2, DanglingIsOff DEF WorkerFollows
  <2>6. CASE \E c \in channels : WalksFreed(c) /\ who = "server"
    <3>1. PICK c \in channels : WalksFreed(c)
      BY <2>6
    <3>2. loader["server"] # NoLoad \/ Serving
      BY <3>1 DEF WalksFreed, CanSwitch, NoLoad
    <3>3. \E d \in channels : d.st = "running"
      BY <3>2 DEF Serving, PlugInv, MainInv
    <3> QED  BY <2>6, <3>1, <3>3 DEF WalksFreed, PlugInv, MainInv
  <2> QED  BY <2>1, <2>2, <2>3, <2>4, <2>5, <2>6 DEF Ends
<1>4. CrashesExplained'
  BY <1>2, <1>3 DEF CrashesExplained
<1> QED  BY <1>1, <1>4, StepCrashes

\* An answer after agent_loop_free can only come from the built-in provider.
LEMMA StepProviderAnswers ==
    ASSUME PlugInv, PlugAlive, ProviderAnswers PROVE PlugInv'
<1>1. CASE main.pc = "done"
  <2>1. Crashes("provider", agent.provider.plugin) /\ agent.provider.plugin = Nothing
    BY <1>1 DEF ProviderAnswers, PlugInv, ProviderInv
  <2>2. CrashesExplained'
    BY <1>1, <2>1 DEF Crashes, CrashesExplained
  <2> QED  BY <2>1, <2>2, StepCrashes
<1>2. CASE main.pc # "done"
  <2>1. /\ agent' = [agent EXCEPT !.asked = FALSE]
        /\ UNCHANGED <<cfg, lib, listed, registry, channels, hole, providers, loader, scan, main,
                       worker, crash, seen>>
    BY <1>2 DEF ProviderAnswers
  <2>2. PlugTypeOK'
    <3>1. agent' \in [st : {"none", "running", "ended"}, asked : BOOLEAN, provider : Provider]
      BY <2>1 DEF PlugInv, PlugTypeOK
    <3> QED  BY <2>1, <3>1 DEF PlugInv, PlugTypeOK
  <2>3. MainInv' /\ LoadInv'
    <3>1. agent'.st = agent.st
      BY <2>1 DEF PlugInv, PlugTypeOK
    <3> QED  BY <2>1, <3>1 DEF PlugInv, MainInv, LoadInv
  <2>4. PointInv' /\ ProviderInv' /\ StartInv'
    BY <2>1 DEF PlugInv, PlugTypeOK, PointInv, ProviderInv, StartInv, Loading, There,
                 IsListed, Mapped
  <2>5. CrashesExplained'
    BY <2>1 DEF PlugAlive, CrashesExplained
  <2> QED  BY <2>2, <2>3, <2>4, <2>5 DEF PlugInv
<1> QED  BY <1>1, <1>2

-----------------------------------------------------------------------------
(* The invariant holds, and implies what is promised.                      *)

\* A process that has loaded nothing satisfies the invariant.
LEMMA PlugInvInit == PlugInit => PlugInv
<1> SUFFICES ASSUME PlugInit PROVE PlugInv
  OBVIOUS
<1>0. PICK on \in SUBSET Plugins, clash \in BOOLEAN : PlugStart(on, clash)
  BY DEF PlugInit
<1> USE PluginsAssumption, <1>0 DEF PlugStart, NoLoad, Nothing
<1>1. PlugTypeOK
  BY DEF PlugTypeOK, Provider, Libraries, Loads
<1>2. MainInv /\ LoadInv /\ PointInv
  BY DEF MainInv, LoadInv, PointInv, Loaders
<1>3. ProviderInv /\ StartInv /\ CrashesExplained
  BY DEF ProviderInv, StartInv, CrashesExplained, Loaders
<1> QED  BY <1>1, <1>2, <1>3 DEF PlugInv

\* Every step keeps it.
LEMMA PlugInvNext == PlugInv /\ [PlugNext]_plugVars => PlugInv'
<1> SUFFICES ASSUME PlugInv, [PlugNext]_plugVars PROVE PlugInv'
  OBVIOUS
<1>1. CASE UNCHANGED plugVars
  BY <1>1 DEF plugVars, PlugInv, PlugTypeOK, MainInv, LoadInv, PointInv, ProviderInv, StartInv,
              CrashesExplained, Loading, There, IsListed, Mapped
<1>2. ASSUME PlugNext PROVE PlugInv'
  <2>0. PlugAlive
    BY <1>2 DEF PlugNext
  <2>1. CASE \E t \in Loaders : Load(t)
    BY <2>0, <2>1, StepNoLoad, StepOpenLibrary, StepPluginInit, StepPluginInitFails,
       StepEnlist DEF Load
  <2>2. CASE MainWork
    <3>2. CASE MakeAgent \/ StartThreads \/ JoinOutbound
      BY <2>0, <3>2, StepMakeAgent, StepStartThreads, StepJoinOutbound
    <3>3. CASE \E c \in channels : StartChannel(c) \/ StopChannel(c)
      BY <2>0, <3>3, StepStartChannel, StepStopChannel
    <3>4. CASE FreeServices \/ FreePlugins \/ FreeAgent
      BY <2>0, <3>4, StepFreeServices, StepFreePlugins, StepFreeAgent
    <3>5. CASE \E p \in Plugins : MainHole(p)
      BY <3>5, StepEnds DEF Ends
    <3>6. CASE \E c \in channels : MainFollows(c)
      BY <3>6, StepEnds DEF Ends
    <3> QED  BY <2>2, <3>2, <3>3, <3>4, <3>5, <3>6 DEF MainWork
  <2>3. CASE WorkerWork
    BY <2>0, <2>3, StepToolReturns, StepEnds DEF WorkerWork, Ends
  <2>4. CASE AgentEnds \/ AgentAsks \/ ProviderAnswers
    BY <2>0, <2>4, StepAgentEnds, StepAgentAsks, StepProviderAnswers
  <2>5. CASE \E p \in Plugins : SwitchOn(p) \/ SwitchOff(p) \/ DispatchHole(p)
    BY <2>0, <2>5, StepSwitchOn, StepSwitchOff, StepEnds DEF Ends
  <2>6. CASE \E e \in registry : RunTool(e) \/ AgentFollows(e)
    BY <2>0, <2>6, StepRunTool, StepEnds DEF Ends
  <2>7. CASE \E c \in channels : \/ DispatchTo(c) \/ ChannelRuns(c)
                                 \/ OrphanEnds(c) \/ WalksFreed(c)
    BY <2>0, <2>7, StepOrphanEnds, StepEnds DEF Ends
  <2>8. CASE LoadExternal \/ Reload \/ Hangs
    BY <2>0, <2>8, StepLoadExternal, StepReload, StepHangs
  <2> QED  BY <1>2, <2>1, <2>2, <2>3, <2>4, <2>5, <2>6, <2>7, <2>8 DEF PlugNext
<1> QED  BY <1>1, <1>2

\* It implies the five properties of PluginsSafe.
LEMMA PlugInvSafe == PlugInv => PluginsSafe
<1> SUFFICES ASSUME PlugInv PROVE PluginsSafe
  OBVIOUS
<1> USE PluginsAssumption DEF PlugInv
<1>1. RegisteredIsLive
  <2> SUFFICES ASSUME "plugins" \notin main.freed, NEW e \in registry \cup channels
               PROVE  \/ /\ Valid(e)
                         /\ \/ e = Builtin \/ IsListed(e.plugin)
                            \/ \E t \in Loaders : loader[t].plugin = e.plugin
                      \/ e.plugin \in seen.off
    BY DEF RegisteredIsLive
  <2>1. e = Builtin => Valid(e)
    BY DEF Valid
  <2>2. There(e) => /\ Valid(e)
                    /\ IsListed(e.plugin) \/ \E t \in Loaders : loader[t].plugin = e.plugin
    BY DEF There, Valid, Loading
  <2> QED  BY <2>1, <2>2 DEF PointInv
<1>2. ProviderAlive
  <2>1. \A q : IsListed(q) => Mapped(q)
    BY DEF IsListed, Mapped, LoadInv
  <2> QED  BY <2>1 DEF ProviderAlive, ProviderInv, MainInv
<1>3. ServedWhileThere
  BY DEF ServedWhileThere, Serving, MainInv, PlugTypeOK
<1>4. LoadedAtStart
  BY DEF LoadedAtStart, StartInv, LoadInv, PlugTypeOK, Nothing, NoLoad
<1> QED  BY <1>1, <1>2, <1>3, <1>4 DEF PluginsSafe

\* PluginsSafe holds in every state of every run of the process (main.c, plugin_manager.c, the
\* switches of webui_channel.c and /reload-plugins of command_dispatcher.c), whatever the
\* plugins, the order of their files, loads that fail, switches and reloads.
THEOREM PluginsServeSafely == PlugSpec => []PluginsSafe
BY PlugInvInit, PlugInvNext, PlugInvSafe, PTL DEF PlugSpec
=============================================================================
