----------------------------- MODULE MCChannels -----------------------------
(***************************************************************************)
(* Small instances of the three models of the channels.  They share no     *)
(* state, so a behaviour is one of a single part, chosen at the start; the *)
(* others stay as they are.                                                *)
(***************************************************************************)
EXTENDS BotReceiver, BotSender, WebUI

VARIABLE subject   \* the part that moves

MCReplies ==
    [to : {"feishu"}, text : BOOLEAN, files : {<<"image", "unknown">>, <<"image", "image">>},
     hook : {"none"}]
        \cup [to : {"dingtalk"}, text : BOOLEAN, files : {<< >>, <<"linked">>},
              hook : {"live", "expired", "none"}]
        \cup [to : {"telegram", "discord", "slack", "mqtt", "email", "stdout", "*"},
              text : {TRUE}, files : {<< >>}, hook : {"none"}]

MCPollChat == [p \in Polls |-> IF p = "p3" THEN "b" ELSE "a"]
MCAnswerChat == <<"a", "b", "a">>

channelVars == <<subject, botVars, sendVars, uiVars>>

ReceiverStill == BotStart("feishu")
SenderStill == SendStart(FALSE)

ChannelsInit ==
    /\ subject \in {"receiver", "sender", "webui"}
    /\ IF subject = "receiver" THEN BotInit ELSE ReceiverStill
    /\ IF subject = "sender" THEN SendInit ELSE SenderStill
    /\ UiInit

ChannelsNext ==
    /\ UNCHANGED subject
    /\ \/ subject = "receiver" /\ BotNext /\ UNCHANGED <<sendVars, uiVars>>
       \/ subject = "sender" /\ SendNext /\ UNCHANGED <<botVars, uiVars>>
       \/ subject = "webui" /\ UiNext /\ UNCHANGED <<botVars, sendVars>>

\* In the states in which they stay the threads have nothing to do.
ChannelsSpec ==
    /\ ChannelsInit /\ [][ChannelsNext]_channelVars
    /\ BotFairness /\ SendFairness /\ UiFairness
=============================================================================
