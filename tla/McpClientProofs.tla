-------------------------- MODULE McpClientProofs --------------------------
(***************************************************************************)
(* Proofs about one client of the MCP tool bridge, for every transport,    *)
(* any number of tool runs, crashes and mishaps.                           *)
(***************************************************************************)
EXTENDS McpClient, SequenceTheorems, TLAPS

-----------------------------------------------------------------------------
(* The inductive invariant.                                                *)

Handshake == {"initialize", "notifications/initialized", "tools/list"}
Resting == {"connect", "opening", "idle", "done"}
Tasks == Resting \cup Handshake \cup {"tools/call"} \cup Queries

CallerRecord == [task : Tasks, at : {"send", "recv", "write"}, retried : BOOLEAN]
RequestRecord == [by : Everyone, method : Tasks \cup {"none"}]
Message == [req : RequestRecord, ok : BOOLEAN]

ClientType == [connected : BOOLEAN, initialized : BOOLEAN,
               tools : SUBSET ({"tools/call"} \cup Queries)]
LinkType == [data : {"none", "up", "freed"}, running : BOOLEAN, open : BOOLEAN,
             failed : BOOLEAN, buf : Seq(Message), attempts : Nat, reconnecting : BOOLEAN,
             sid : BOOLEAN]
ServerType == [up : BOOLEAN, stuck : BOOLEAN, greeted : BOOLEAN, pending : SUBSET RequestRecord,
               crashes : Nat, mishaps : Nat]

McpTypeOK ==
    /\ client \in ClientType
    /\ link \in LinkType
    /\ thread \in [Threads -> {"none", "reading", "sleeping", "returning", "ended"}]
    /\ handle \in Threads /\ joined \in Threads
    /\ server \in ServerType
    /\ caller \in [Everyone -> CallerRecord]
    /\ executed \in [Callers -> Nat]

\* What a caller is about, and how often it has asked for its tool: a run that is back at
\* the handshake has used its retry, and has asked at most once.
CallOK(r, n) ==
    /\ r.task \notin {"connect", "opening"}
    /\ r.task = "idle" => n = 0 /\ ~r.retried
    /\ r.task \in Handshake => r.retried /\ n \in {0, 1}
    /\ r.task = "tools/call" =>
          \/ r.at # "recv" /\ ~r.retried /\ n = 0
          \/ r.at # "recv" /\ r.retried /\ n \in {0, 1}
          \/ r.at = "recv" /\ ~r.retried /\ n \in {0, 1}
          \/ r.at = "recv" /\ r.retried
    /\ n \in {0, 1, 2}
RestOK(r) == r.task \in Resting => r.at = "send"

CallInv ==
    /\ caller[Setup].task \in {"connect", "opening", "done"} \cup Handshake
    /\ \A c \in Everyone : RestOK(caller[c])
    /\ \A c \in Callers : CallOK(caller[c], executed[c])

\* Until the setup ends no tool is registered, so no run has begun.  A tool that the server
\* offers is registered, and run, only by a client whose handshake has been seen by the
\* server; which the server remembers unless it ends or, over HTTP, forgets its sessions.
\* A process that has ended or hangs takes nothing until it is started anew.
GreetInv ==
    /\ caller[Setup].task # "done" => client.tools = {}
    /\ \A c \in Callers : caller[c].task \in Handshake \cup {"tools/call"} => "tools/call" \in client.tools
    /\ Takes /\ "restarted" \notin history /\ ~Posted =>
          /\ client.initialized \/ "tools/call" \in client.tools => server.greeted
          /\ caller[Setup].task = "initialize" /\ caller[Setup].at = "recv" => server.greeted
          /\ caller[Setup].task \in {"notifications/initialized", "tools/list"} => server.greeted
    /\ HandshakeFirst

\* One thread reads at a time, the one that transport->reader_thread names.  A close that
\* did not race leaves it nothing to start again, and joins it.  The setup ends before.
CloseInv ==
    /\ caller[Setup].task = "connect" => handle = 1 /\ thread = [t \in Threads |-> "none"]
    /\ caller[Setup].task # "done" => closer = "none"
    /\ \A t \in Threads :
          /\ thread[t] \in {"sleeping", "returning"} => kind = "stdio"
          /\ t # handle => thread[t] \in {"none", "returning", "ended"}
    /\ closer # "none" /\ "raced" \notin history =>
          /\ ~link.running
          /\ \A t \in Threads : thread[t] \notin {"sleeping", "returning"}
          /\ closer \in {"joining", "reaping"} => joined = handle
          /\ closer = "reaping" => thread[joined] \in {"none", "ended"}
    /\ link.data = "freed" => closer = "done"
    /\ link.data = "freed" /\ "raced" \notin history =>
          \A t \in Threads : thread[t] \in {"none", "ended"}
    /\ NoUseAfterClose

\* As long as nothing was mixed up: one caller waits at a time, and what is on its way to
\* the client, in the server or in the buffer, is the answer to that caller's request.
OwnAnswer(r) == caller[r.by].at = "recv" /\ r = Request(r.by)
Orderly ==
    /\ \A c, d \in Everyone : caller[c].at = "recv" /\ caller[d].at = "recv" => c = d
    /\ \A r \in server.pending : OwnAnswer(r) /\ link.buf = << >>
    /\ link.buf # << >> => Tail(link.buf) = << >> /\ OwnAnswer(Head(link.buf).req)
AnswerInv ==
    /\ "mixed" \notin history /\ link.data # "freed" => Orderly
    /\ AnswerIsOwn

McpInv == McpTypeOK /\ CallInv /\ GreetInv /\ CloseInv /\ AnswerInv

-----------------------------------------------------------------------------
(* What a step of a caller does to it and to the client.                   *)

\* The setup is none of the tool runs.
LEMMA SetupApart == Setup \notin Callers /\ Callers \subseteq Nat /\ Everyone = Callers \cup {Setup}
BY McpAssumption DEF Setup, Callers, Everyone

\* There is a first reader thread.
LEMMA FirstThread == 1 \in Threads /\ Threads \subseteq Nat
BY McpAssumption DEF Threads

\* The record of c becomes r; the others stay.
Becomes(c, r) == caller' = [caller EXCEPT ![c] = r]

\* After that c has the record r, and nobody else has another.
LEMMA Becoming ==
    ASSUME McpTypeOK, NEW c \in Everyone, NEW r \in CallerRecord, Becomes(c, r)
    PROVE  /\ caller' \in [Everyone -> CallerRecord]
           /\ caller'[c] = r
           /\ \A d \in Everyone : d # c => caller'[d] = caller[d]
BY DEF McpTypeOK, Becomes

\* The record of a caller that goes on with another request, or ends.
LEMMA GoesRecord ==
    ASSUME McpTypeOK, NEW c \in Everyone, NEW m \in Tasks
    PROVE  /\ Goes(c, m) \in CallerRecord
           /\ Goes(c, m).task = m /\ Goes(c, m).at = "send"
           /\ Goes(c, m).retried = caller[c].retried
BY DEF McpTypeOK, CallerRecord, Goes

\* The record of a caller that is done.
LEMMA EndsRecord ==
    ASSUME McpTypeOK, NEW c \in Everyone
    PROVE  /\ Ends(c) \in CallerRecord
           /\ Ends(c).task = "done" /\ Ends(c).at = "send"
BY DEF McpTypeOK, CallerRecord, Ends, Tasks, Resting

\* The record of a caller whose write blocks.
Blocked(c) == [caller[c] EXCEPT !.at = "write"]
LEMMA BlockedRecord ==
    ASSUME McpTypeOK, NEW c \in Everyone
    PROVE  /\ Blocked(c) \in CallerRecord
           /\ Blocked(c).task = caller[c].task /\ Blocked(c).at = "write"
           /\ Blocked(c).retried = caller[c].retried
BY DEF McpTypeOK, CallerRecord, Blocked

\* A request that fails: the setup ends; a run ends, uses its retry, or goes on from a
\* handshake that failed to the call.
LEMMA Fails ==
    ASSUME McpTypeOK, NEW c \in Everyone, NEW e, Failure(c, e)
    PROVE  /\ client' \in ClientType
           /\ client'.connected = client.connected
           /\ client'.initialized => client.initialized
           /\ client'.tools = IF c = Setup THEN Queries ELSE client.tools
           /\ \E r \in CallerRecord :
                 /\ Becomes(c, r) /\ r.at = "send"
                 /\ \/ r.task = "done"
                    \/ /\ c # Setup /\ caller[c].task = "tools/call" /\ ~caller[c].retried
                       /\ r.task \in {"tools/call", "initialize"} /\ r.retried
                    \/ /\ c # Setup /\ caller[c].task \notin Queries \cup {"tools/call"}
                       /\ r.task = "tools/call" /\ r.retried = caller[c].retried
<1>t. {"initialize", "tools/call"} \subseteq Tasks
  BY DEF Tasks, Handshake
<1>1. CASE c = Setup
  <2>1. Becomes(c, Ends(c)) /\ client' = [client EXCEPT !.tools = Queries]
    BY <1>1 DEF Failure, Becomes
  <2>2. /\ client' \in ClientType /\ client'.connected = client.connected
        /\ client'.initialized = client.initialized /\ client'.tools = Queries
    BY <2>1 DEF McpTypeOK, ClientType
  <2> QED BY <1>1, <2>1, <2>2, EndsRecord
<1>2. CASE c # Setup /\ UNCHANGED client /\ Becomes(c, Ends(c))
  BY <1>2, EndsRecord DEF McpTypeOK
<1>3. CASE /\ c # Setup /\ caller[c].task = "tools/call" /\ ~caller[c].retried
           /\ Becomes(c, [Goes(c, IF e = "session" THEN "initialize" ELSE "tools/call")
                            EXCEPT !.retried = TRUE])
           /\ client' = [client EXCEPT !.initialized = (e # "session") /\ @]
  <2>1. PICK m \in {"initialize", "tools/call"} : Becomes(c, [Goes(c, m) EXCEPT !.retried = TRUE])
    BY <1>3
  <2>2. /\ Goes(c, m) \in CallerRecord
        /\ Goes(c, m).task = m /\ Goes(c, m).at = "send"
    BY <1>t, GoesRecord
  <2>3. /\ [Goes(c, m) EXCEPT !.retried = TRUE] \in CallerRecord
        /\ [Goes(c, m) EXCEPT !.retried = TRUE].task = m
        /\ [Goes(c, m) EXCEPT !.retried = TRUE].at = "send"
        /\ [Goes(c, m) EXCEPT !.retried = TRUE].retried
    BY <2>2 DEF CallerRecord
  <2>4. /\ client' \in ClientType /\ client'.connected = client.connected
        /\ client'.initialized => client.initialized
        /\ client'.tools = client.tools
    BY <1>3 DEF McpTypeOK, ClientType
  <2> QED BY <1>3, <2>1, <2>3, <2>4
<1>4. CASE /\ c # Setup /\ caller[c].task \notin Queries \cup {"tools/call"}
           /\ Becomes(c, Goes(c, "tools/call")) /\ UNCHANGED client
  BY <1>4, <1>t, GoesRecord DEF McpTypeOK
<1> QED BY <1>1, <1>2, <1>3, <1>4 DEF Failure, Becomes

\* A request that is answered.
LEMMA Succeeds ==
    ASSUME McpTypeOK, NEW c \in Everyone, Success(c)
    PROVE  /\ client' \in ClientType
           /\ client'.connected = client.connected
           /\ client'.initialized = client.initialized
           /\ client'.tools = IF c = Setup /\ caller[c].task = "tools/list"
                              THEN {"tools/call"} \cup Queries ELSE client.tools
           /\ \E r \in CallerRecord :
                 /\ Becomes(c, r) /\ r.at = "send"
                 /\ r.task = CASE caller[c].task = "initialize" -> "notifications/initialized"
                               [] caller[c].task = "tools/list" /\ c # Setup -> "tools/call"
                               [] OTHER -> "done"
                 /\ r.task # "done" => r.retried = caller[c].retried
<1>1. {"notifications/initialized", "tools/call"} \subseteq Tasks
  BY DEF Tasks, Handshake
<1>2. CASE caller[c].task = "initialize"
  <2>1. Becomes(c, Goes(c, "notifications/initialized")) /\ UNCHANGED client
    BY <1>2 DEF Success, Becomes
  <2> QED BY <1>1, <1>2, <2>1, GoesRecord DEF McpTypeOK
<1>3. CASE caller[c].task = "tools/list" /\ c = Setup
  <2>1. Becomes(c, Ends(c)) /\ client' = [client EXCEPT !.tools = {"tools/call"} \cup Queries]
    BY <1>3 DEF Success, Becomes
  <2>2. /\ client' \in ClientType /\ client'.connected = client.connected
        /\ client'.initialized = client.initialized
        /\ client'.tools = {"tools/call"} \cup Queries
    BY <2>1 DEF McpTypeOK, ClientType
  <2> QED BY <1>3, <2>1, <2>2, EndsRecord
<1>4. CASE caller[c].task = "tools/list" /\ c # Setup
  <2>1. Becomes(c, Goes(c, "tools/call")) /\ UNCHANGED client
    BY <1>4 DEF Success, Becomes
  <2> QED BY <1>1, <1>4, <2>1, GoesRecord DEF McpTypeOK
<1>5. CASE caller[c].task \notin {"initialize", "tools/list"}
  <2>1. Becomes(c, Ends(c)) /\ UNCHANGED client
    BY <1>5 DEF Success, Becomes
  <2> QED BY <1>5, <2>1, EndsRecord DEF McpTypeOK
<1> QED BY <1>2, <1>3, <1>4, <1>5

\* A request handed to the transport.
LEMMA IsHanded ==
    ASSUME McpTypeOK, NEW c \in Everyone, Handed(c)
    PROVE  /\ client' \in ClientType
           /\ client'.connected = client.connected /\ client'.tools = client.tools
           /\ IF caller[c].task # "notifications/initialized"
              THEN /\ UNCHANGED client
                   /\ \E r \in CallerRecord :
                         /\ Becomes(c, r) /\ r.at = "recv" /\ r.task = caller[c].task
                         /\ r.retried = caller[c].retried
              ELSE \E r \in CallerRecord :
                      /\ Becomes(c, r) /\ r.at = "send" /\ r.task = "tools/list"
                      /\ r.retried = caller[c].retried
<1>1. CASE caller[c].task # "notifications/initialized"
  <2>1. UNCHANGED client /\ Becomes(c, [caller[c] EXCEPT !.at = "recv"])
    BY <1>1 DEF Handed, Expecting, Becomes, McpTypeOK
  <2>2. /\ [caller[c] EXCEPT !.at = "recv"] \in CallerRecord
        /\ [caller[c] EXCEPT !.at = "recv"].at = "recv"
        /\ [caller[c] EXCEPT !.at = "recv"].task = caller[c].task
        /\ [caller[c] EXCEPT !.at = "recv"].retried = caller[c].retried
    BY DEF McpTypeOK, CallerRecord
  <2> QED BY <1>1, <2>1, <2>2 DEF McpTypeOK
<1>2. CASE caller[c].task = "notifications/initialized"
  <2>1. Becomes(c, Goes(c, "tools/list")) /\ client' = [client EXCEPT !.initialized = TRUE]
    BY <1>2 DEF Handed, Expecting, Becomes
  <2>2. /\ client' \in ClientType /\ client'.connected = client.connected
        /\ client'.tools = client.tools
    BY <2>1 DEF McpTypeOK, ClientType
  <2>3. "tools/list" \in Tasks
    BY DEF Tasks, Handshake
  <2> QED BY <1>2, <2>1, <2>2, <2>3, GoesRecord
<1> QED BY <1>1, <1>2

-----------------------------------------------------------------------------
(* Calls are made at most twice.                                           *)

\* One caller moves.
LEMMA OneCaller ==
    ASSUME McpTypeOK, CallInv, NEW c \in Everyone, NEW r \in CallerRecord, Becomes(c, r),
           executed' \in [Callers -> Nat],
           \A d \in Callers : d # c => executed'[d] = executed[d],
           c = Setup => r.task \in {"connect", "opening", "done"} \cup Handshake,
           RestOK(r), c \in Callers => CallOK(r, executed'[c])
    PROVE  CallInv' /\ caller' \in [Everyone -> CallerRecord]
<1>1. /\ caller' \in [Everyone -> CallerRecord] /\ caller'[c] = r
      /\ \A d \in Everyone : d # c => caller'[d] = caller[d]
  BY Becoming
<1>2. Setup \in Everyone /\ Callers \subseteq Everyone
  BY DEF Everyone
<1>3. caller'[Setup].task \in {"connect", "opening", "done"} \cup Handshake
  BY <1>1, <1>2 DEF CallInv
<1>4. \A d \in Everyone : RestOK(caller'[d])
  BY <1>1 DEF CallInv
<1>5. \A d \in Callers : CallOK(caller'[d], executed'[d])
  BY <1>1, <1>2 DEF CallInv
<1> QED BY <1>1, <1>3, <1>4, <1>5 DEF CallInv, RestOK, CallOK

\* A call that the server takes counts for its caller.
LEMMA Counts ==
    ASSUME McpTypeOK, NEW c \in Everyone, executed' = Counted(c)
    PROVE  /\ executed' \in [Callers -> Nat]
           /\ \A d \in Callers : d # c => executed'[d] = executed[d]
           /\ c \in Callers /\ caller[c].task = "tools/call" => executed'[c] = executed[c] + 1
           /\ c \in Callers /\ caller[c].task # "tools/call" => executed'[c] = executed[c]
BY DEF McpTypeOK, Counted

\* What a step of a caller is, for its record, the client and the count.
CallerSteps(c) ==
    \/ SkipInitialize(c)
    \/ /\ MustSend(c) /\ Handed(c) /\ (executed' = Counted(c) \/ UNCHANGED executed)
       /\ Takes /\ ~Posted => server' = Taken(c)
    \/ MustSend(c) /\ Becomes(c, Blocked(c)) /\ UNCHANGED <<executed, client>>
    \/ MustSend(c) /\ Expecting(c) /\ Failure(c, "timeout") /\ executed' = Counted(c)
    \/ caller[c].task \notin Resting /\ (\E e : Failure(c, e)) /\ UNCHANGED executed
    \/ caller[c].task \notin Resting /\ caller[c].at = "recv" /\ Success(c) /\ UNCHANGED executed
    \/ Becomes(c, Ends(c)) /\ UNCHANGED <<executed, client>>

\* Every step of a caller is one of these.
LEMMA StepKinds ==
    ASSUME McpTypeOK, CallInv, NEW c \in Everyone, Step(c)
    PROVE  CallerSteps(c)
<1>1. caller[c].at # "send" => caller[c].task \notin Resting
  BY DEF CallInv, RestOK
<1>2. MustSend(c) => caller[c].task \notin Resting
  BY DEF MustSend, Sending, Resting
<1>3. CASE SkipInitialize(c)
  BY <1>3 DEF CallerSteps
<1>4. CASE StdioSend(c) \/ WsSend(c)
  BY <1>2, <1>4 DEF StdioSend, WsSend, SendFails, CallerSteps, Takes
<1>5. CASE SseSend(c) \/ HttpSend(c)
  BY <1>2, <1>5 DEF SseSend, HttpSend, PostTaken, PostRefused, PostFails, PostTimesOut, SendFails,
     CallerSteps, Posted
<1>6. CASE StdioRecv(c) \/ WsRecv(c) \/ SseRecv(c) \/ HttpRecv(c)
  BY <1>1, <1>6 DEF StdioRecv, WsRecv, SseRecv, HttpRecv, PopRecv, Received, CallerSteps
<1>7. CASE GiveUp(c)
  BY <1>1, <1>7 DEF GiveUp, CallerSteps
<1>8. CASE CallerUsesFreed(c)
  BY <1>8 DEF CallerUsesFreed, CallerSteps, Becomes
<1>9. CASE StdioBlocks(c)
  <2>1. Becomes(c, Blocked(c))
    BY <1>9 DEF StdioBlocks, Becomes, Blocked, McpTypeOK
  <2> QED BY <1>9, <2>1 DEF StdioBlocks, CallerSteps
<1>10. CASE StdioUnblocks(c)
  BY <1>1, <1>10 DEF StdioUnblocks, SendFails, CallerSteps
<1> QED BY <1>3, <1>4, <1>5, <1>6, <1>7, <1>8, <1>9, <1>10 DEF Step

\* A step of a caller keeps the count.
LEMMA CallerStepCallInv ==
    ASSUME McpTypeOK, CallInv, NEW c \in Everyone, CallerSteps(c)
    PROVE  /\ CallInv' /\ caller' \in [Everyone -> CallerRecord]
           /\ client' \in ClientType /\ executed' \in [Callers -> Nat]
<1>0. /\ caller[c] \in CallerRecord /\ RestOK(caller[c])
      /\ c \in Callers => CallOK(caller[c], executed[c])
      /\ c = Setup => caller[c].task \in {"connect", "opening", "done"} \cup Handshake
      /\ c # Setup => c \in Callers
      /\ UNCHANGED executed =>
            /\ executed' \in [Callers -> Nat]
            /\ \A d \in Callers : executed'[d] = executed[d]
  BY DEF McpTypeOK, CallInv, Everyone
<1> USE DEF CallOK, RestOK, Handshake, Resting
<1>1. CASE SkipInitialize(c)
  <2>1. Becomes(c, Goes(c, "tools/list")) /\ UNCHANGED <<executed, client>> /\ caller[c].task = "initialize"
    BY <1>1 DEF SkipInitialize, Becomes
  <2>2. /\ Goes(c, "tools/list") \in CallerRecord
        /\ Goes(c, "tools/list").task = "tools/list" /\ Goes(c, "tools/list").at = "send"
        /\ Goes(c, "tools/list").retried = caller[c].retried
    BY GoesRecord DEF Tasks
  <2>3. client' \in ClientType
    BY <2>1 DEF McpTypeOK
  <2> QED BY <1>0, <2>1, <2>2, <2>3, OneCaller
<1>2. CASE MustSend(c) /\ Handed(c) /\ (executed' = Counted(c) \/ UNCHANGED executed)
  <2>1. /\ executed' \in [Callers -> Nat]
        /\ \A d \in Callers : d # c => executed'[d] = executed[d]
        /\ c \in Callers /\ caller[c].task = "tools/call" =>
              executed'[c] = executed[c] \/ executed'[c] = executed[c] + 1
        /\ c \in Callers /\ caller[c].task # "tools/call" => executed'[c] = executed[c]
    BY <1>0, <1>2, Counts
  <2>2. /\ caller[c].at = "send" /\ client' \in ClientType
        /\ caller[c].task \notin Resting
    BY <1>2, IsHanded DEF MustSend, Sending
  <2>3. CASE caller[c].task # "notifications/initialized"
    <3>1. PICK r \in CallerRecord :
              /\ Becomes(c, r) /\ r.at = "recv" /\ r.task = caller[c].task
              /\ r.retried = caller[c].retried
      BY <1>2, <2>3, IsHanded
    <3>2. c \in Callers => CallOK(r, executed'[c])
      BY <1>0, <2>1, <2>2, <3>1
    <3> QED BY <1>0, <2>1, <2>2, <2>3, <3>1, <3>2, OneCaller
  <2>4. CASE caller[c].task = "notifications/initialized"
    <3>1. PICK r \in CallerRecord :
              /\ Becomes(c, r) /\ r.at = "send" /\ r.task = "tools/list"
              /\ r.retried = caller[c].retried
      BY <1>2, <2>4, IsHanded
    <3>2. c \in Callers => CallOK(r, executed'[c])
      BY <1>0, <2>1, <2>2, <2>4, <3>1
    <3> QED BY <1>0, <2>1, <2>2, <2>4, <3>1, <3>2, OneCaller
  <2> QED BY <2>3, <2>4
<1>3. CASE MustSend(c) /\ Expecting(c) /\ Failure(c, "timeout") /\ executed' = Counted(c)
  <2>1. /\ executed' \in [Callers -> Nat]
        /\ \A d \in Callers : d # c => executed'[d] = executed[d]
        /\ c \in Callers /\ caller[c].task = "tools/call" => executed'[c] = executed[c] + 1
        /\ c \in Callers /\ caller[c].task # "tools/call" => executed'[c] = executed[c]
    BY <1>0, <1>3, Counts
  <2>2. /\ caller[c].at = "send" /\ client' \in ClientType
        /\ caller[c].task \notin Resting
    BY <1>3, Fails DEF MustSend, Sending
  <2>3. PICK r \in CallerRecord :
                 /\ Becomes(c, r) /\ r.at = "send"
                 /\ \/ r.task = "done"
                    \/ /\ c # Setup /\ caller[c].task = "tools/call" /\ ~caller[c].retried
                       /\ r.task \in {"tools/call", "initialize"} /\ r.retried
                    \/ /\ c # Setup /\ caller[c].task \notin Queries \cup {"tools/call"}
                       /\ r.task = "tools/call" /\ r.retried = caller[c].retried
    BY <1>3, Fails
  <2>4. c \in Callers => CallOK(r, executed'[c])
    BY <1>0, <2>1, <2>2, <2>3 DEF CallerRecord, Tasks
  <2> QED BY <1>0, <2>1, <2>2, <2>3, <2>4, OneCaller
<1>4. CASE caller[c].task \notin Resting /\ (\E e : Failure(c, e)) /\ UNCHANGED executed
  <2>1. client' \in ClientType
    BY <1>4, Fails
  <2>3. PICK r \in CallerRecord :
                 /\ Becomes(c, r) /\ r.at = "send"
                 /\ \/ r.task = "done"
                    \/ /\ c # Setup /\ caller[c].task = "tools/call" /\ ~caller[c].retried
                       /\ r.task \in {"tools/call", "initialize"} /\ r.retried
                    \/ /\ c # Setup /\ caller[c].task \notin Queries \cup {"tools/call"}
                       /\ r.task = "tools/call" /\ r.retried = caller[c].retried
    BY <1>4, Fails
  <2>4. c \in Callers => CallOK(r, executed'[c])
    BY <1>0, <1>4, <2>3 DEF CallerRecord, Tasks
  <2> QED BY <1>0, <1>4, <2>1, <2>3, <2>4, OneCaller
<1>5. CASE /\ caller[c].task \notin Resting /\ caller[c].at = "recv"
           /\ Success(c) /\ UNCHANGED executed
  <2>1. client' \in ClientType
    BY <1>5, Succeeds
  <2>2. PICK r \in CallerRecord :
                 /\ Becomes(c, r) /\ r.at = "send"
                 /\ r.task = CASE caller[c].task = "initialize" -> "notifications/initialized"
                               [] caller[c].task = "tools/list" /\ c # Setup -> "tools/call"
                               [] OTHER -> "done"
                 /\ r.task # "done" => r.retried = caller[c].retried
    BY <1>5, Succeeds
  <2>3. c \in Callers => CallOK(r, executed'[c])
    BY <1>0, <1>5, <2>2
  <2>4. c = Setup => r.task \in {"connect", "opening", "done"} \cup Handshake
    BY <2>2
  <2> QED BY <1>0, <1>5, <2>1, <2>2, <2>3, <2>4, OneCaller
<1>6. CASE Becomes(c, Ends(c)) /\ UNCHANGED <<executed, client>>
  <2>1. client' \in ClientType
    BY <1>6 DEF McpTypeOK
  <2> QED BY <1>0, <1>6, <2>1, EndsRecord, OneCaller
<1>7. CASE MustSend(c) /\ Becomes(c, Blocked(c)) /\ UNCHANGED <<executed, client>>
  <2>1. client' \in ClientType /\ caller[c].at = "send" /\ caller[c].task \notin Resting
    BY <1>7 DEF McpTypeOK, MustSend, Sending
  <2>2. /\ Blocked(c) \in CallerRecord
        /\ Blocked(c).task = caller[c].task /\ Blocked(c).at = "write"
        /\ Blocked(c).retried = caller[c].retried
    BY BlockedRecord
  <2>3. c \in Callers => CallOK(Blocked(c), executed'[c])
    BY <1>0, <1>7, <2>1, <2>2
  <2> QED BY <1>0, <1>7, <2>1, <2>2, <2>3, OneCaller
<1> QED BY <1>1, <1>2, <1>3, <1>4, <1>5, <1>6, <1>7 DEF CallerSteps

-----------------------------------------------------------------------------
(* The types.                                                              *)

\* What a bound counts leaves the server as it is.
LEMMA SpoiltServer ==
    ASSUME NEW sv \in ServerType, NEW bad
    PROVE  /\ Spoilt(sv, bad) \in ServerType
           /\ Spoilt(sv, bad).up = sv.up /\ Spoilt(sv, bad).greeted = sv.greeted
           /\ Spoilt(sv, bad).pending = sv.pending /\ Spoilt(sv, bad).stuck = sv.stuck
BY DEF Spoilt, ServerType

\* The server takes the request of c.
LEMMA TakenServer ==
    ASSUME McpTypeOK, NEW c \in Everyone
    PROVE  /\ Request(c) \in RequestRecord
           /\ Taken(c) \in ServerType
           /\ Taken(c).up = server.up /\ Taken(c).stuck = server.stuck
           /\ Taken(c).greeted = (server.greeted \/ caller[c].task = "initialize")
           /\ Taken(c).pending \subseteq server.pending \cup {Request(c)}
           /\ ~Expecting(c) => Taken(c).pending = server.pending
<1>1. Request(c) \in RequestRecord
  BY DEF McpTypeOK, CallerRecord, Request, RequestRecord
<1>2. server \in ServerType
  BY DEF McpTypeOK
<1>3. (server.greeted \/ caller[c].task = "initialize") \in BOOLEAN
  OBVIOUS
<1> QED BY <1>1, <1>2, <1>3 DEF Taken, ServerType

\* The server takes it but keeps the requests S waiting.
LEMMA TakenWith ==
    ASSUME McpTypeOK, NEW c \in Everyone, NEW S \in SUBSET RequestRecord
    PROVE  /\ [Taken(c) EXCEPT !.pending = S] \in ServerType
           /\ [Taken(c) EXCEPT !.pending = S].up = server.up
           /\ [Taken(c) EXCEPT !.pending = S].stuck = server.stuck
           /\ [Taken(c) EXCEPT !.pending = S].greeted =
                 (server.greeted \/ caller[c].task = "initialize")
           /\ [Taken(c) EXCEPT !.pending = S].pending = S
BY TakenServer DEF ServerType

\* The server that results, whatever is counted.
LEMMA TakenSpoilt ==
    ASSUME McpTypeOK, NEW c \in Everyone, NEW S \in SUBSET RequestRecord, NEW bad,
           server' = Spoilt([Taken(c) EXCEPT !.pending = S], bad)
    PROVE  /\ server' \in ServerType
           /\ server'.up = server.up /\ server'.stuck = server.stuck
           /\ server'.greeted = (server.greeted \/ caller[c].task = "initialize")
           /\ server'.pending = S
<1> DEFINE sv == [Taken(c) EXCEPT !.pending = S]
<1>1. /\ sv \in ServerType /\ sv.up = server.up /\ sv.stuck = server.stuck
      /\ sv.greeted = (server.greeted \/ caller[c].task = "initialize") /\ sv.pending = S
  BY TakenWith
<1>2. server' = Spoilt(sv, bad)
  OBVIOUS
<1> HIDE DEF sv
<1>3. /\ Spoilt(sv, bad) \in ServerType
      /\ Spoilt(sv, bad).up = sv.up /\ Spoilt(sv, bad).greeted = sv.greeted
      /\ Spoilt(sv, bad).pending = sv.pending /\ Spoilt(sv, bad).stuck = sv.stuck
  BY <1>1, SpoiltServer
<1> QED BY <1>1, <1>2, <1>3

\* The server is up, or hangs, as before, and greets whom it greeted.
SameServer ==
    /\ server' \in ServerType
    /\ server'.up = server.up /\ server'.stuck = server.stuck
    /\ server.greeted => server'.greeted

\* The link is as it was but for the messages received and the session.
SameLink ==
    /\ link' \in LinkType
    /\ link'.data = link.data /\ link'.running = link.running

\* A buffer with one more message.
LEMMA Buffered ==
    ASSUME McpTypeOK, NEW r \in RequestRecord, NEW ok \in BOOLEAN
    PROVE  /\ [req |-> r, ok |-> ok] \in Message
           /\ Append(link.buf, [req |-> r, ok |-> ok]) \in Seq(Message)
           /\ [link EXCEPT !.buf = Append(@, [req |-> r, ok |-> ok])] \in LinkType
           /\ [link EXCEPT !.buf = Append(@, [req |-> r, ok |-> ok])].data = link.data
           /\ [link EXCEPT !.buf = Append(@, [req |-> r, ok |-> ok])].running = link.running
           /\ [link EXCEPT !.buf = Append(@, [req |-> r, ok |-> ok])].buf =
                 Append(link.buf, [req |-> r, ok |-> ok])
<1>1. link \in LinkType /\ link.buf \in Seq(Message)
  BY DEF McpTypeOK, LinkType
<1>2. [req |-> r, ok |-> ok] \in Message
  BY DEF Message
<1>3. Append(link.buf, [req |-> r, ok |-> ok]) \in Seq(Message)
  BY <1>1, <1>2, AppendProperties
<1> QED BY <1>1, <1>2, <1>3 DEF LinkType

\* A step of a caller, for the transport and the server.
LEMMA StepEffects ==
    ASSUME McpTypeOK, NEW c \in Everyone, Step(c)
    PROVE  SameServer /\ SameLink /\ UNCHANGED <<kind, thread, handle, closer, joined>>
<1>0. server \in ServerType /\ link \in LinkType /\ server.pending \in SUBSET RequestRecord
  BY DEF McpTypeOK, ServerType
<1>1. UNCHANGED <<kind, thread, handle, closer, joined>>
  BY DEF Step, SkipInitialize, StdioSend, WsSend, SseSend, HttpSend, PostTaken, PostRefused,
         PostFails, PostTimesOut, SendFails, StdioRecv, WsRecv, SseRecv, HttpRecv, PopRecv,
         GiveUp, CallerUsesFreed, StdioBlocks, StdioUnblocks
<1>2. UNCHANGED server => SameServer
  BY <1>0 DEF SameServer
<1>3. UNCHANGED link => SameLink
  BY <1>0 DEF SameLink
<1>4. server' = Taken(c) => SameServer
  BY TakenServer DEF SameServer
<1>5. CASE SkipInitialize(c) \/ GiveUp(c) \/ CallerUsesFreed(c) \/ StdioBlocks(c) \/ StdioUnblocks(c)
  BY <1>1, <1>2, <1>3, <1>5 DEF SkipInitialize, GiveUp, CallerUsesFreed, StdioBlocks, StdioUnblocks
<1>6. CASE StdioSend(c) \/ WsSend(c)
  BY <1>1, <1>2, <1>3, <1>4, <1>6 DEF StdioSend, WsSend, SendFails
<1>7. CASE PostTaken(c)
  <2>1. SameServer
    <3>1. ASSUME NEW ok \in BOOLEAN, Answered(c, ok) PROVE SameServer
      <4>1. server' = Spoilt([Taken(c) EXCEPT !.pending = server.pending], ~ok)
        BY <3>1 DEF Answered
      <4> QED BY <1>0, <4>1, TakenSpoilt DEF SameServer
    <3> QED BY <1>4, <1>7, <3>1 DEF PostTaken, AnsweredLater
  <2>2. SameLink
    <3>1. CASE link' = [link EXCEPT !.sid = TRUE]
      BY <1>0, <3>1 DEF SameLink, LinkType
    <3>2. ASSUME NEW ok \in BOOLEAN, Answered(c, ok) PROVE SameLink
      <4>1. Append(link.buf, [req |-> Request(c), ok |-> ok]) \in Seq(Message) /\ link.buf \in Seq(Message)
        BY <1>0, TakenServer, Buffered DEF LinkType
      <4>2. PICK q \in Seq(Message) : link' = [link EXCEPT !.sid = TRUE, !.buf = q]
        BY <3>2, <4>1 DEF Answered
      <4> QED BY <1>0, <4>2 DEF SameLink, LinkType
    <3> QED BY <1>7, <3>1, <3>2 DEF PostTaken, AnsweredLater
  <2> QED BY <1>1, <2>1, <2>2
<1>8. CASE PostRefused(c)
  <2>1. link' = [link EXCEPT !.sid = FALSE] /\ UNCHANGED server
    BY <1>8 DEF PostRefused
  <2>2. SameLink
    BY <1>0, <2>1 DEF SameLink, LinkType
  <2> QED BY <1>1, <1>2, <2>1, <2>2
<1>9. CASE PostFails(c)
  BY <1>0, <1>1, <1>3, <1>9, SpoiltServer DEF PostFails, SameServer
<1>10. CASE PostTimesOut(c)
  <2>1. PICK S \in SUBSET RequestRecord : server' = Spoilt([Taken(c) EXCEPT !.pending = S], TRUE)
    <3>1. Taken(c).pending \in SUBSET RequestRecord
      BY TakenServer DEF ServerType
    <3> QED BY <1>0, <1>10, <3>1 DEF PostTimesOut
  <2>2. SameServer
    BY <2>1, TakenSpoilt DEF SameServer
  <2> QED BY <1>1, <1>3, <1>10, <2>2 DEF PostTimesOut
<1>11. CASE StdioRecv(c)
  <2>1. link' = [link EXCEPT !.buf = << >>] /\ UNCHANGED server
    BY <1>11 DEF StdioRecv
  <2>2. << >> \in Seq(Message)
    OBVIOUS
  <2>3. SameLink
    BY <1>0, <2>1, <2>2 DEF SameLink, LinkType
  <2> QED BY <1>1, <1>2, <2>1, <2>3
<1>12. CASE WsRecv(c) \/ SseRecv(c) \/ HttpRecv(c)
  <2>1. link' = [link EXCEPT !.buf = Tail(@)] /\ UNCHANGED server /\ link.buf # << >>
    BY <1>12 DEF WsRecv, SseRecv, HttpRecv, PopRecv, Popped
  <2>2. link.buf \in Seq(Message)
    BY <1>0 DEF LinkType
  <2>3. Tail(link.buf) \in Seq(Message)
    BY <2>1, <2>2
  <2>4. SameLink
    BY <1>0, <2>1, <2>3 DEF SameLink, LinkType
  <2> QED BY <1>1, <1>2, <2>1, <2>4
<1> QED BY <1>5, <1>6, <1>7, <1>8, <1>9, <1>10, <1>11, <1>12 DEF Step, SseSend, HttpSend

\* What the connecting steps do: the setup goes on, the link is up, or closed again.
ConnectEffects ==
    /\ caller[Setup].task \in {"connect", "opening"}
    /\ \E r \in CallerRecord :
          /\ Becomes(Setup, r) /\ r.at = caller[Setup].at
          /\ r.task \in {"opening", "initialize", "done"}
          /\ r.task = "opening" => caller[Setup].task = "connect"
    /\ client' \in ClientType
    /\ client'.tools = client.tools /\ client'.initialized = client.initialized
    /\ link' \in LinkType /\ link'.buf = link.buf
    /\ \/ UNCHANGED <<thread, closer>> /\ link' = link
       \/ /\ UNCHANGED <<thread, closer>> /\ caller[Setup].task = "connect" /\ link'.data = "up"
       \/ /\ caller[Setup].task = "connect" /\ link'.data = "up" /\ UNCHANGED closer
          /\ thread' = [thread EXCEPT ![1] = "reading"]
       \/ /\ Polled /\ link'.data = link.data /\ ~link'.running /\ UNCHANGED thread
          /\ closer' = "stopped" /\ caller[Setup].task = "opening"
          /\ caller'[Setup].task = "done"
    /\ UNCHANGED <<kind, handle, server, executed, joined, history>>

\* Every connecting step does that.
LEMMA Connects ==
    ASSUME McpTypeOK, Connect
    PROVE  ConnectEffects
<1>0. /\ Setup \in Everyone /\ caller[Setup] \in CallerRecord /\ client \in ClientType
      /\ link \in LinkType
  BY DEF Everyone, McpTypeOK
<1>1. \A m \in {"opening", "initialize", "done"} :
         /\ [caller[Setup] EXCEPT !.task = m] \in CallerRecord
         /\ [caller[Setup] EXCEPT !.task = m].at = caller[Setup].at
         /\ [caller[Setup] EXCEPT !.task = m].task = m
  BY <1>0 DEF CallerRecord, Tasks, Resting, Handshake
<1>2. /\ Listing = [caller EXCEPT ![Setup] = [caller[Setup] EXCEPT !.task = "initialize"]]
      /\ SetupEnds = [caller EXCEPT ![Setup] = [caller[Setup] EXCEPT !.task = "done"]]
      /\ [caller EXCEPT ![Setup].task = "opening"] =
            [caller EXCEPT ![Setup] = [caller[Setup] EXCEPT !.task = "opening"]]
  BY <1>0 DEF Listing, SetupEnds, McpTypeOK
<1>3. Up \in LinkType /\ Up.buf = link.buf /\ Up.data = "up"
  BY <1>0 DEF Up, LinkType
<1>4. /\ [client EXCEPT !.connected = TRUE] \in ClientType
      /\ [client EXCEPT !.connected = TRUE].tools = client.tools
      /\ [client EXCEPT !.connected = TRUE].initialized = client.initialized
  BY <1>0 DEF ClientType
<1>5. /\ [link EXCEPT !.running = FALSE] \in LinkType
      /\ [link EXCEPT !.running = FALSE].buf = link.buf
      /\ [link EXCEPT !.running = FALSE].data = link.data
      /\ ~[link EXCEPT !.running = FALSE].running
  BY <1>0 DEF LinkType
<1>6. CASE StdioConnect
  BY <1>0, <1>1, <1>2, <1>3, <1>4, <1>6 DEF StdioConnect, ConnectEffects, Becomes
<1>7. CASE HttpConnect
  BY <1>0, <1>1, <1>2, <1>3, <1>4, <1>7 DEF HttpConnect, ConnectEffects, Becomes
<1>8. CASE WsConnect \/ SseConnect
  BY <1>0, <1>1, <1>2, <1>3, <1>8 DEF WsConnect, SseConnect, StartPoll, ConnectEffects, Becomes
<1>9. CASE ConnectFails
  BY <1>0, <1>1, <1>2, <1>9 DEF ConnectFails, ConnectEffects, Becomes
<1>10. CASE WsWaitOpen \/ SseWaitOpen
  <2>1. /\ Polled /\ caller[Setup].task = "opening"
        /\ UNCHANGED <<kind, thread, handle, server, executed, joined, history>>
    BY <1>10 DEF WsWaitOpen, SseWaitOpen, Polled
  <2>2. CASE client' = [client EXCEPT !.connected = TRUE] /\ caller' = Listing /\ UNCHANGED <<link, closer>>
    BY <1>0, <1>1, <1>2, <1>4, <2>1, <2>2 DEF ConnectEffects, Becomes
  <2>3. CASE /\ link' = [link EXCEPT !.running = FALSE] /\ closer' = "stopped"
             /\ caller' = SetupEnds /\ UNCHANGED client
    <3>1. caller'[Setup].task = "done"
      BY <1>0, <1>1, <1>2, <2>3 DEF McpTypeOK
    <3> QED BY <3>1, <1>0, <1>1, <1>2, <1>5, <2>1, <2>3 DEF ConnectEffects, Becomes
  <2> QED BY <1>10, <2>2, <2>3 DEF WsWaitOpen, SseWaitOpen, Ready
<1> QED BY <1>6, <1>7, <1>8, <1>9, <1>10 DEF Connect

\* What the events of a connection do: they may stop the transport.
EventEffects ==
    /\ link' \in LinkType
    /\ link'.data = link.data /\ link'.buf = link.buf /\ (link'.running => link.running)
    /\ SameServer /\ server'.greeted = server.greeted /\ server'.pending = server.pending
    /\ UNCHANGED <<kind, client, thread, handle, caller, executed, closer, joined, history>>

\* Every event does that.
LEMMA Events ==
    ASSUME McpTypeOK, WsOpened \/ SseOpened \/ WsError \/ SseError \/ CloseEvent
    PROVE  EventEffects
<1>0. link \in LinkType /\ server \in ServerType
  BY DEF McpTypeOK
<1>1. /\ SameServer /\ server'.greeted = server.greeted /\ server'.pending = server.pending
      /\ UNCHANGED <<kind, client, thread, handle, caller, executed, closer, joined, history>>
  <2>1. UNCHANGED server \/ server' = Spoilt(server, TRUE)
    BY DEF WsOpened, SseOpened, WsError, SseError, CloseEvent
  <2>2. SameServer /\ server'.greeted = server.greeted /\ server'.pending = server.pending
    BY <1>0, <2>1, SpoiltServer DEF SameServer
  <2> QED BY <2>2 DEF WsOpened, SseOpened, WsError, SseError, CloseEvent, Event
<1>2. \/ link' = [link EXCEPT !.open = TRUE]
      \/ link' = [link EXCEPT !.failed = TRUE]
      \/ \E r \in {FALSE, link.running} : link' = [link EXCEPT !.failed = TRUE, !.running = r]
      \/ link' = [link EXCEPT !.running = FALSE]
  BY DEF WsOpened, SseOpened, WsError, SseError, CloseEvent, Event
<1>3. /\ link' \in LinkType
      /\ link'.data = link.data /\ link'.buf = link.buf /\ (link'.running => link.running)
  BY <1>0, <1>2 DEF LinkType
<1> QED BY <1>1, <1>3 DEF EventEffects

\* A message arrives.
LEMMA Arrives ==
    ASSUME McpTypeOK, NEW t \in Threads, NEW r \in RequestRecord, NEW ok \in BOOLEAN, Answer(t, r, ok)
    PROVE  /\ SameLink /\ SameServer
           /\ link'.buf = Append(link.buf, [req |-> r, ok |-> ok])
           /\ server'.greeted = server.greeted
           /\ server'.pending = server.pending \ {r}
           /\ UNCHANGED <<kind, client, thread, handle, caller, executed, closer, joined, history>>
<1> DEFINE sv == [server EXCEPT !.pending = @ \ {r}]
<1>1. /\ sv \in ServerType /\ sv.up = server.up /\ sv.greeted = server.greeted
      /\ sv.pending = server.pending \ {r} /\ sv.stuck = server.stuck
  BY DEF McpTypeOK, ServerType
<1>2. server' = Spoilt(sv, ~ok) /\ link' = [link EXCEPT !.buf = Append(@, [req |-> r, ok |-> ok])]
      /\ UNCHANGED <<kind, client, thread, handle, caller, executed, closer, joined, history>>
  BY DEF Answer
<1> HIDE DEF sv
<1>3. SameServer /\ server'.greeted = server.greeted /\ server'.pending = server.pending \ {r}
  BY <1>1, <1>2, SpoiltServer DEF SameServer
<1>4. SameLink /\ link'.buf = Append(link.buf, [req |-> r, ok |-> ok])
  BY <1>2, Buffered DEF SameLink
<1> QED BY <1>2, <1>3, <1>4

\* A message arrives that nobody asked for.
LEMMA Unasked ==
    ASSUME McpTypeOK, NEW t \in Threads, Notification(t)
    PROVE  /\ SameLink /\ SameServer /\ server'.greeted = server.greeted
           /\ history' = history \cup {"mixed"}
           /\ UNCHANGED <<kind, client, thread, handle, caller, executed, closer, joined>>
<1>1. NoRequest \in RequestRecord /\ TRUE \in BOOLEAN /\ server \in ServerType
  BY DEF NoRequest, RequestRecord, Everyone, McpTypeOK
<1>2. SameLink
  BY <1>1, Buffered DEF Notification, SameLink
<1>3. SameServer /\ server'.greeted = server.greeted
  BY <1>1, SpoiltServer DEF Notification, SameServer
<1> QED BY <1>2, <1>3 DEF Notification

\* The threads.
ThreadEffects(t) ==
    /\ \E s \in {"sleeping", "returning", "ended"} :
          \/ thread' = [thread EXCEPT ![t] = s] /\ s # "returning" /\ UNCHANGED handle
          \/ /\ s = "returning" /\ thread[t] = "sleeping" /\ t = handle /\ t + 1 \in Threads
             /\ thread' = [thread EXCEPT ![t] = s, ![t + 1] = "reading"] /\ handle' = t + 1
    /\ link' \in LinkType /\ link'.data = link.data /\ (link'.buf = link.buf \/ (link'.buf = << >> /\ server'.pending = {}))
    /\ server' \in ServerType
    /\ \/ /\ server'.up = server.up /\ server'.stuck = server.stuck
          /\ server'.greeted = server.greeted /\ server'.pending = server.pending
       \/ thread[t] = "sleeping" /\ server'.pending = {} /\ history' = history \cup {"restarted"}
    /\ link'.running => link.running \/ thread[t] = "sleeping"
    /\ thread[t] \in {"reading", "sleeping", "returning"}
    /\ thread'[t] = "sleeping" => thread[t] = "reading" /\ link.running /\ kind = "stdio"
    /\ UNCHANGED <<kind, client, caller, executed, closer, joined>>

\* Every step of a reader or poll thread does that; one on a freed transport is noted.
LEMMA ThreadMoves ==
    ASSUME McpTypeOK, NEW t \in Threads, ThreadStep(t) \/ LongLine(t)
    PROVE  /\ ThreadEffects(t) /\ thread' \in [Threads -> {"none", "reading", "sleeping", "returning", "ended"}]
           /\ handle' \in Threads
           /\ \/ history' \in {history, history \cup {"restarted"}}
              \/ history' = history \cup {"faulty"} /\ link.data = "freed"
<1>0. /\ link \in LinkType /\ server \in ServerType
      /\ thread \in [Threads -> {"none", "reading", "sleeping", "returning", "ended"}]
      /\ handle \in Threads
  BY DEF McpTypeOK
<1> USE DEF ThreadEffects
<1>1. CASE LoopEnds(t)
  BY <1>0, <1>1 DEF LoopEnds
<1>2. CASE EndOfFile(t) \/ LongLine(t)
  <2>0. StopsReading(t)
    BY <1>2 DEF EndOfFile, LongLine
  <2>1. PICK a \in BOOLEAN, n \in Nat :
           /\ thread' = [thread EXCEPT ![t] = IF a THEN "sleeping" ELSE "ended"]
           /\ link' = [link EXCEPT !.running = a, !.attempts = n]
    <3>1. link.attempts \in Nat /\ link.attempts + 1 \in Nat
      BY <1>0 DEF LinkType
    <3> QED BY <2>0, <3>1 DEF StopsReading
  <2>2. link' \in LinkType /\ link'.data = link.data /\ link'.buf = link.buf
    BY <1>0, <2>1 DEF LinkType
  <2>3. /\ kind = "stdio" /\ thread[t] = "reading" /\ link.running
        /\ UNCHANGED <<kind, client, handle, caller, executed, closer, joined, history>>
    BY <2>0 DEF StopsReading
  <2>4. /\ server' \in ServerType
        /\ server'.up = server.up /\ server'.stuck = server.stuck
        /\ server'.greeted = server.greeted /\ server'.pending = server.pending
    <3>1. CASE EndOfFile(t)
      BY <1>0, <3>1 DEF EndOfFile
    <3>2. CASE LongLine(t)
      <4> DEFINE sv == [server EXCEPT !.crashes = @ + 1]
      <4>1. server.crashes \in Nat
        BY <1>0 DEF ServerType
      <4>2. /\ sv \in ServerType /\ sv.up = server.up /\ sv.stuck = server.stuck
            /\ sv.greeted = server.greeted /\ sv.pending = server.pending
        BY <1>0, <4>1 DEF ServerType
      <4>3. server' = Spoilt(sv, TRUE)
        BY <3>2 DEF LongLine
      <4> HIDE DEF sv
      <4> QED BY <4>2, <4>3, SpoiltServer
    <3> QED BY <1>2, <3>1, <3>2
  <2> QED BY <1>0, <2>1, <2>2, <2>3, <2>4
<1>3. CASE Reconnect(t)
  <2>1. << >> \in Seq(Message)
    OBVIOUS
  <2>2. link' \in LinkType /\ link'.data = link.data /\ link'.buf = << >>
    BY <1>0, <1>3, <2>1 DEF Reconnect, LinkType
  <2>3. server' \in ServerType /\ server'.pending = {}
    BY <1>0, <1>3 DEF Reconnect, ServerType
  <2>4. /\ thread[t] = "sleeping" /\ t = handle /\ t + 1 \in Threads /\ handle' = t + 1 /\ t # t + 1
        /\ thread' = [thread EXCEPT ![t] = "returning", ![t + 1] = "reading"]
        /\ history' = history \cup {"restarted"}
        /\ UNCHANGED <<kind, client, caller, executed, closer, joined>>
    BY <1>3, FirstThread DEF Reconnect
  <2>5. thread'[t] = "returning" /\ thread' \in [Threads -> {"none", "reading", "sleeping", "returning", "ended"}]
    BY <1>0, <2>4
  <2> QED BY <2>2, <2>3, <2>4, <2>5
<1>4. CASE ReconnectFails(t)
  <2>1. link' \in LinkType /\ link'.data = link.data /\ link'.buf = link.buf /\ ~link'.running
    BY <1>0, <1>4 DEF ReconnectFails, LinkType
  <2> QED BY <1>0, <1>4, <2>1 DEF ReconnectFails
<1>5. CASE Returned(t)
  <2>1. link' \in LinkType /\ link'.data = link.data /\ link'.buf = link.buf /\ link'.running = link.running
    BY <1>0, <1>5 DEF Returned, LinkType
  <2> QED BY <1>0, <1>5, <2>1 DEF Returned
<1>6. CASE ThreadUsesFreed(t)
  BY <1>0, <1>6 DEF ThreadUsesFreed
<1> QED BY <1>1, <1>2, <1>3, <1>4, <1>5, <1>6 DEF ThreadStep

\* A tool run begins.
LEMMA Begins ==
    ASSUME McpTypeOK, NEW c \in Callers, NEW m \in client.tools \cap Runs[c], Begin(c, m)
    PROVE  /\ m \in {"tools/call"} \cup Queries
           /\ c \in Everyone /\ c # Setup /\ caller[c].task = "idle"
           /\ \E r \in CallerRecord : /\ Becomes(c, r) /\ r.task = m /\ r.at = "send"
                                      /\ r.retried = caller[c].retried
           /\ UNCHANGED <<kind, client, link, thread, handle, server, executed, closer, joined, history>>
<1>1. m \in {"tools/call"} \cup Queries /\ m \in Tasks
  BY DEF McpTypeOK, ClientType, Tasks
<1>2. c \in Everyone /\ c # Setup
  BY SetupApart
<1>3. Becomes(c, Goes(c, m))
  BY DEF Begin, Becomes
<1>4. /\ caller[c].task = "idle"
      /\ UNCHANGED <<kind, client, link, thread, handle, server, executed, closer, joined, history>>
  BY DEF Begin
<1> QED BY <1>1, <1>2, <1>3, <1>4, GoesRecord

\* The server ends, hangs, or forgets its sessions; what it has seen is of use only where it
\* takes requests.
LEMMA ServerEnds ==
    ASSUME McpTypeOK, Crash \/ Hang \/ Expire \/ ServerTerminates
    PROVE  /\ server' \in ServerType /\ server'.pending \subseteq server.pending
           /\ Posted \/ ~Takes'
           /\ history' \in {history, history \cup {"hung"}}
           /\ UNCHANGED <<kind, client, link, thread, handle, caller, executed, closer, joined>>
<1>0. server \in ServerType
  BY DEF McpTypeOK
<1>1. CASE Crash
  <2>1. server' \in ServerType /\ server'.pending = {} /\ ~server'.up
    <3>1. server.crashes \in Nat /\ server.mishaps \in Nat
      BY <1>0 DEF ServerType
    <3> DEFINE k == server.crashes + 1
               n == server.mishaps + 1
    <3>2. k \in Nat /\ n \in Nat
      BY <3>1
    <3>3. server' = [server EXCEPT !.up = FALSE, !.greeted = FALSE, !.pending = {},
                                   !.crashes = k, !.mishaps = n]
      BY <1>1 DEF Crash
    <3> HIDE DEF k, n
    <3> QED BY <1>0, <3>1, <3>2, <3>3 DEF ServerType
  <2> QED BY <1>1, <2>1 DEF Crash, Takes
<1>2. CASE Expire
  <2> DEFINE sv == [server EXCEPT !.greeted = FALSE]
  <2>1. sv \in ServerType /\ sv.pending = server.pending
    BY <1>0 DEF ServerType
  <2>2. /\ server' = Spoilt(sv, TRUE) /\ Posted
        /\ UNCHANGED <<kind, client, link, thread, handle, caller, executed, closer, joined, history>>
    BY <1>2 DEF Expire
  <2> HIDE DEF sv
  <2> QED BY <2>1, <2>2, SpoiltServer
<1>3. CASE Hang
  <2>1. server' \in ServerType /\ server'.pending = server.pending /\ server'.stuck
    BY <1>0, <1>3 DEF Hang, ServerType
  <2> QED BY <1>3, <2>1 DEF Hang, Takes
<1>4. CASE ServerTerminates
  <2>1. server' \in ServerType /\ server'.pending = {} /\ ~server'.up
    BY <1>0, <1>4 DEF ServerTerminates, ServerType
  <2> QED BY <1>4, <2>1 DEF ServerTerminates, Takes
<1> QED BY <1>1, <1>2, <1>3, <1>4

\* The transport is stopped, and freed at the end.
LEMMA Closes ==
    ASSUME McpTypeOK
    PROVE  /\ CloseStart => link' \in LinkType /\ link'.data = link.data /\ link'.buf = link.buf
                            /\ ~link'.running
           /\ CloseEnd => /\ link' \in LinkType /\ link'.data = "freed"
                          /\ link'.running = link.running
                          /\ client' \in ClientType /\ client'.tools = client.tools
                          /\ client'.initialized = client.initialized
<1>0. link \in LinkType /\ client \in ClientType
  BY DEF McpTypeOK
<1>1. ASSUME CloseStart
      PROVE  link' \in LinkType /\ link'.data = link.data /\ link'.buf = link.buf /\ ~link'.running
  BY <1>0, <1>1 DEF CloseStart, LinkType
<1>2. ASSUME CloseEnd
      PROVE  link' \in LinkType /\ link'.data = "freed" /\ link'.running = link.running
  BY <1>0, <1>2 DEF CloseEnd, LinkType
<1>3. ASSUME CloseEnd
      PROVE  /\ client' \in ClientType /\ client'.tools = client.tools
             /\ client'.initialized = client.initialized
  BY <1>0, <1>3 DEF CloseEnd, ClientType
<1> QED BY <1>1, <1>2, <1>3

\* Types, and the number of calls, through every step.
LEMMA NextTypes ==
    ASSUME McpTypeOK, CallInv, [Next]_vars
    PROVE  McpTypeOK' /\ CallInv'
<1> USE DEF McpTypeOK
<1>0. Setup \in Everyone /\ Setup \notin Callers /\ Callers \subseteq Everyone /\ 1 \in Threads
  BY SetupApart, FirstThread
<1>1. UNCHANGED <<caller, executed>> => CallInv'
  BY DEF CallInv, CallOK, RestOK
<1>2. CASE UNCHANGED vars
  BY <1>1, <1>2 DEF vars
<1>3. CASE Connect
  <2>1. ConnectEffects
    BY <1>3, Connects
  <2>2. PICK r \in CallerRecord :
          /\ Becomes(Setup, r) /\ r.at = caller[Setup].at
          /\ r.task \in {"opening", "initialize", "done"}
    BY <2>1 DEF ConnectEffects
  <2>3. executed' = executed /\ caller[Setup].task \in {"connect", "opening"}
    BY <2>1 DEF ConnectEffects
  <2>4. r.at = "send"
    BY <1>0, <2>2, <2>3 DEF CallInv, RestOK, Resting
  <2>5. CallInv' /\ caller' \in [Everyone -> CallerRecord]
    BY <1>0, <2>2, <2>3, <2>4, OneCaller DEF RestOK, Handshake
  <2>6. thread' \in [Threads -> {"none", "reading", "sleeping", "returning", "ended"}]
    BY <1>0, <2>1 DEF ConnectEffects
  <2> QED BY <2>1, <2>5, <2>6 DEF ConnectEffects
<1>4. CASE WsOpened \/ SseOpened \/ WsError \/ SseError \/ CloseEvent
  BY <1>1, <1>4, Events DEF EventEffects, SameServer
<1>5. ASSUME NEW c \in Callers, NEW m \in client.tools \cap Runs[c], Begin(c, m)
      PROVE  McpTypeOK' /\ CallInv'
  <2>1. /\ m \in {"tools/call"} \cup Queries
        /\ c \in Everyone /\ c # Setup /\ caller[c].task = "idle"
        /\ UNCHANGED <<kind, client, link, thread, handle, server, executed, closer, joined, history>>
    BY <1>5, Begins
  <2>2. PICK r \in CallerRecord : /\ Becomes(c, r) /\ r.task = m /\ r.at = "send"
                                  /\ r.retried = caller[c].retried
    BY <1>5, Begins
  <2>3. executed[c] = 0 /\ ~r.retried
    BY <2>1, <2>2 DEF CallInv, CallOK
  <2>4. CallOK(r, executed'[c]) /\ RestOK(r)
    BY <2>1, <2>2, <2>3 DEF CallOK, RestOK, Handshake, Queries
  <2>5. CallInv' /\ caller' \in [Everyone -> CallerRecord]
    BY <2>1, <2>2, <2>4, OneCaller
  <2> QED BY <2>1, <2>5
<1>6. ASSUME NEW c \in Everyone, Step(c)
      PROVE  McpTypeOK' /\ CallInv'
  <2>1. SameServer /\ SameLink /\ UNCHANGED <<kind, thread, handle, closer, joined>>
    BY <1>6, StepEffects
  <2>2. /\ CallInv' /\ caller' \in [Everyone -> CallerRecord]
        /\ client' \in ClientType /\ executed' \in [Callers -> Nat]
    BY <1>6, StepKinds, CallerStepCallInv
  <2> QED BY <2>1, <2>2 DEF SameServer, SameLink
<1>7. ASSUME NEW t \in Threads, ThreadStep(t) \/ LongLine(t) \/ Notification(t) \/ Idle(t)
      PROVE  McpTypeOK' /\ CallInv'
  <2>1. CASE ThreadStep(t) \/ LongLine(t)
    BY <1>1, <2>1, ThreadMoves DEF ThreadEffects
  <2>2. CASE Notification(t)
    BY <1>1, <2>2, Unasked DEF SameServer, SameLink
  <2> QED BY <1>2, <1>7, <2>1, <2>2 DEF Idle
<1>8. ASSUME NEW t \in Threads, NEW r \in server.pending, NEW ok \in BOOLEAN,
             StdioLine(t, r, ok) \/ WsMessage(t, r, ok) \/ SseEvent(t, r, ok)
      PROVE  McpTypeOK' /\ CallInv'
  <2>1. r \in RequestRecord /\ Answer(t, r, ok)
    BY <1>8 DEF ServerType, StdioLine, WsMessage, SseEvent
  <2> QED BY <1>1, <2>1, Arrives DEF SameServer, SameLink
<1>9. CASE Crash \/ Hang \/ Expire \/ ServerTerminates
  BY <1>1, <1>9, ServerEnds
<1>10. CASE CloseStart
  BY <1>1, <1>10, Closes DEF CloseStart
<1>11. CASE CloseJoin \/ CloseReap
  BY <1>1, <1>11 DEF CloseJoin, CloseReap
<1>12. CASE CloseEnd
  BY <1>1, <1>12, Closes DEF CloseEnd
<1> QED BY <1>2, <1>3, <1>4, <1>5, <1>6, <1>7, <1>8, <1>9, <1>10, <1>11, <1>12 DEF Next, Gone, Waits

-----------------------------------------------------------------------------
(* The handshake comes first.                                              *)

\* What a step of a caller adds to the history: a call on a server that was not greeted
\* only where the transport does not refuse it.
LEMMA StepHistory ==
    ASSUME McpTypeOK, NEW c \in Everyone, Step(c)
    PROVE  /\ history \subseteq history'
           /\ "ungreeted" \in history' =>
                 \/ "ungreeted" \in history
                 \/ caller[c].task = "tools/call" /\ Takes /\ ~server.greeted /\ ~Posted
<1>1. CASE SkipInitialize(c) \/ GiveUp(c) \/ CallerUsesFreed(c) \/ StdioBlocks(c) \/ StdioUnblocks(c)
  BY <1>1 DEF SkipInitialize, GiveUp, CallerUsesFreed, StdioBlocks, StdioUnblocks, SendFails
<1>2. CASE StdioSend(c) \/ WsSend(c)
  BY <1>2 DEF StdioSend, WsSend, SendFails, Noted, Posted
<1>3. CASE PostTaken(c) \/ PostTimesOut(c)
  BY <1>3 DEF PostTaken, PostTimesOut, Refused, Noted
<1>4. CASE PostRefused(c) \/ PostFails(c)
  BY <1>4 DEF PostRefused, PostFails, SendFails
<1>5. CASE StdioRecv(c) \/ WsRecv(c) \/ SseRecv(c) \/ HttpRecv(c)
  BY <1>5 DEF StdioRecv, WsRecv, SseRecv, HttpRecv, PopRecv, Matched
<1> QED BY <1>1, <1>2, <1>3, <1>4, <1>5 DEF Step, SseSend, HttpSend

\* A setup that has ended takes no more steps, but to end again.
LEMMA SetupDone ==
    ASSUME McpTypeOK, caller[Setup].task = "done", CallerSteps(Setup)
    PROVE  client'.tools = client.tools /\ caller'[Setup].task = "done"
<1>1. caller[Setup].task \in Resting /\ ~Sending(Setup)
  BY DEF Resting, Sending
<1>2. Becomes(Setup, Ends(Setup)) /\ UNCHANGED <<executed, client>>
  BY <1>1 DEF CallerSteps, MustSend, SkipInitialize
<1>3. Setup \in Everyone
  BY DEF Everyone
<1> QED BY <1>2, <1>3, EndsRecord, Becoming

\* The tasks of the setup and of the other callers after a step of c.
LEMMA StepTools ==
    ASSUME McpTypeOK, CallInv, GreetInv, NEW c \in Everyone, CallerSteps(c)
    PROVE  /\ caller'[Setup].task # "done" => client'.tools = {}
           /\ \A d \in Callers : caller'[d].task \in Handshake \cup {"tools/call"} =>
                 "tools/call" \in client'.tools
<1> USE DEF Handshake, Resting
<1>0. /\ Setup \in Everyone /\ Setup \notin Callers /\ Callers \subseteq Everyone
      /\ c # Setup => c \in Callers
  BY SetupApart
<1>1. PICK r \in CallerRecord :
         /\ Becomes(c, r)
         /\ c = Setup => \/ r.task = "done"
                         \/ client'.tools = client.tools /\ caller[Setup].task # "done"
         /\ c # Setup => /\ client'.tools = client.tools
                         /\ r.task \in Handshake \cup {"tools/call"} =>
                               caller[c].task \in Handshake \cup {"tools/call"}
  <2>1. CASE SkipInitialize(c)
    BY <2>1, GoesRecord DEF SkipInitialize, Becomes, Tasks
  <2>2. CASE MustSend(c) /\ Handed(c)
    <3>1. PICK r \in CallerRecord : Becomes(c, r) /\ r.task \in {caller[c].task, "tools/list"}
             /\ (r.task # caller[c].task => caller[c].task = "notifications/initialized")
      BY <2>2, IsHanded
    <3> QED BY <2>2, <3>1, IsHanded DEF MustSend, Sending
  <2>3. CASE caller[c].task \notin Resting /\ \E e : Failure(c, e)
    <3>1. PICK r \in CallerRecord :
                 /\ Becomes(c, r)
                 /\ \/ r.task = "done"
                    \/ c # Setup /\ caller[c].task = "tools/call"
                    \/ c # Setup /\ caller[c].task \notin Queries \cup {"tools/call"}
      BY <2>3, Fails
    <3>2. c # Setup => client'.tools = client.tools
      BY <2>3, Fails
    <3>3. caller[c].task \in Tasks
      BY DEF McpTypeOK, CallerRecord
    <3> QED BY <2>3, <3>1, <3>2, <3>3 DEF Tasks
  <2>4. CASE caller[c].task \notin Resting /\ caller[c].at = "recv" /\ Success(c)
    <3>1. PICK r \in CallerRecord :
                 /\ Becomes(c, r)
                 /\ r.task = CASE caller[c].task = "initialize" -> "notifications/initialized"
                               [] caller[c].task = "tools/list" /\ c # Setup -> "tools/call"
                               [] OTHER -> "done"
      BY <2>4, Succeeds
    <3> QED BY <2>4, <3>1, Succeeds
  <2>5. CASE Becomes(c, Ends(c)) /\ UNCHANGED <<executed, client>>
    BY <2>5, EndsRecord
  <2>6. MustSend(c) => caller[c].task \notin Resting
    BY DEF MustSend, Sending
  <2>7. CASE MustSend(c) /\ Becomes(c, Blocked(c)) /\ UNCHANGED <<executed, client>>
    BY <2>6, <2>7, BlockedRecord
  <2> QED BY <2>1, <2>2, <2>3, <2>4, <2>5, <2>6, <2>7 DEF CallerSteps
<1>2. caller'[c] = r /\ \A d \in Everyone : d # c => caller'[d] = caller[d]
  BY <1>1, Becoming
<1>3. caller'[Setup].task # "done" => client'.tools = {}
  BY <1>0, <1>1, <1>2 DEF GreetInv
<1>4. ASSUME NEW d \in Callers, caller'[d].task \in Handshake \cup {"tools/call"}
      PROVE  "tools/call" \in client'.tools
  <2>1. caller[d].task \in Handshake \cup {"tools/call"}
    BY <1>0, <1>1, <1>2, <1>4
  <2>2. "tools/call" \in client.tools
    BY <2>1 DEF GreetInv
  <2>3. caller[Setup].task = "done"
    BY <2>2 DEF GreetInv
  <2>4. CASE c # Setup
    BY <1>1, <2>2, <2>4
  <2>5. CASE c = Setup
    <3>1. client'.tools = client.tools
      BY <2>3, <2>5, SetupDone
    <3> QED BY <2>2, <3>1
  <2> QED BY <2>4, <2>5
<1> QED BY <1>3, <1>4

\* A server that takes requests, was not started anew and cannot forget has seen the
\* handshake.
LEMMA StepGreeted ==
    ASSUME McpTypeOK, CallInv, GreetInv, NEW c \in Everyone, Step(c),
           Takes, "restarted" \notin history, ~Posted
    PROVE  /\ client'.initialized \/ "tools/call" \in client'.tools => server'.greeted
           /\ caller'[Setup].task = "initialize" /\ caller'[Setup].at = "recv" => server'.greeted
           /\ caller'[Setup].task \in {"notifications/initialized", "tools/list"} => server'.greeted
<1> USE DEF Handshake, Resting
<1>0. /\ Setup \in Everyone /\ Setup \notin Callers /\ Callers \subseteq Everyone
      /\ c # Setup => c \in Callers
      /\ CallerSteps(c)
  BY SetupApart, StepKinds
<1>1. server.greeted => server'.greeted
  BY StepEffects DEF SameServer
<1>2. CASE server.greeted
  BY <1>1, <1>2
<1>3. CASE ~server.greeted
  <2>1. /\ ~client.initialized /\ "tools/call" \notin client.tools
        /\ caller[Setup].task = "initialize" => caller[Setup].at # "recv"
        /\ caller[Setup].task \notin {"notifications/initialized", "tools/list"}
        /\ c # Setup => caller[c].task \notin Handshake \cup {"tools/call"}
    BY <1>0, <1>3 DEF GreetInv
  <2>2. CASE SkipInitialize(c)
    BY <2>1, <2>2 DEF SkipInitialize
  <2>3. CASE MustSend(c) /\ Handed(c) /\ server' = Taken(c)
    <3>1. caller[c].task # "notifications/initialized"
      BY <1>0, <2>1
    <3>2. UNCHANGED client /\ \E r \in CallerRecord : Becomes(c, r) /\ r.task = caller[c].task
      BY <2>3, <3>1, IsHanded
    <3>3. CASE c = Setup
      <4>1. caller[c].task = "initialize"
        BY <2>1, <2>3, <3>3 DEF MustSend, Sending, CallInv
      <4>2. server'.greeted
        BY <2>3, <4>1, TakenServer
      <4> QED BY <4>2
    <3>4. CASE c # Setup
      <4>1. caller'[Setup] = caller[Setup]
        BY <1>0, <3>2, <3>4, Becoming
      <4> QED BY <2>1, <3>2, <4>1
    <3> QED BY <3>3, <3>4
  <2>4. CASE caller[c].task \notin Resting /\ \E e : Failure(c, e)
    <3>1. /\ client'.initialized => client.initialized
          /\ client'.tools = IF c = Setup THEN Queries ELSE client.tools
      BY <2>4, Fails
    <3>2. "tools/call" \notin client'.tools /\ ~client'.initialized
      BY <2>1, <3>1 DEF Queries
    <3>3. CASE c = Setup
      <4>1. PICK r \in CallerRecord : Becomes(c, r) /\ r.task = "done"
        BY <2>4, <3>3, Fails
      <4> QED BY <1>0, <3>2, <3>3, <4>1, Becoming
    <3>4. CASE c # Setup
      <4>1. PICK r \in CallerRecord : Becomes(c, r)
        BY <2>4, Fails
      <4>2. caller'[Setup] = caller[Setup]
        BY <1>0, <3>4, <4>1, Becoming
      <4> QED BY <2>1, <3>2, <4>2
    <3> QED BY <3>3, <3>4
  <2>5. CASE caller[c].task \notin Resting /\ caller[c].at = "recv" /\ Success(c)
    <3>1. c # Setup
      BY <2>1, <2>5 DEF CallInv
    <3>2. client'.initialized = client.initialized /\ client'.tools = client.tools
      BY <2>5, <3>1, Succeeds
    <3>3. PICK r \in CallerRecord : Becomes(c, r)
      BY <2>5, Succeeds
    <3>4. caller'[Setup] = caller[Setup]
      BY <1>0, <3>1, <3>3, Becoming
    <3> QED BY <2>1, <3>2, <3>4
  <2>6. CASE Becomes(c, Ends(c)) /\ UNCHANGED <<executed, client>>
    <3>1. caller'[Setup].task \in {caller[Setup].task, "done"} /\ caller'[Setup].at \in {caller[Setup].at, "send"}
      BY <1>0, <2>6, EndsRecord, Becoming
    <3> QED BY <2>1, <2>6, <3>1
  <2>7. MustSend(c) => caller[c].task \notin Resting
    BY DEF MustSend, Sending
  <2>8. CASE Becomes(c, Blocked(c)) /\ UNCHANGED <<executed, client>>
    <3>1. caller'[Setup].task = caller[Setup].task /\ caller'[Setup].at \in {caller[Setup].at, "write"}
      BY <1>0, <2>8, BlockedRecord, Becoming
    <3> QED BY <2>1, <2>8, <3>1
  <2> QED BY <1>0, <2>2, <2>3, <2>4, <2>5, <2>6, <2>7, <2>8 DEF CallerSteps
<1> QED BY <1>2, <1>3

\* The handshake through every step.
LEMMA NextGreetInv ==
    ASSUME McpTypeOK, CallInv, GreetInv, [Next]_vars
    PROVE  GreetInv'
<1>0. /\ Setup \in Everyone /\ Setup \notin Callers /\ Callers \subseteq Everyone
  BY SetupApart
<1>1. ASSUME UNCHANGED <<kind, client, caller>>, history \subseteq history',
             \/ "restarted" \in history' \/ Posted \/ ~Takes'
             \/ /\ server'.up = server.up /\ server'.stuck = server.stuck
                /\ server'.greeted = server.greeted,
             "ungreeted" \in history' => "ungreeted" \in history
      PROVE  GreetInv'
  BY <1>1 DEF GreetInv, HandshakeFirst, Posted, Takes
<1>2. CASE UNCHANGED vars
  BY <1>1, <1>2 DEF vars
<1>3. CASE Connect
  <2>1. ConnectEffects
    BY <1>3, Connects
  <2>2. PICK r \in CallerRecord :
          /\ Becomes(Setup, r) /\ r.at = caller[Setup].at
          /\ r.task \in {"opening", "initialize", "done"}
    BY <2>1 DEF ConnectEffects
  <2>3. caller'[Setup] = r /\ \A d \in Callers : caller'[d] = caller[d]
    BY <1>0, <2>2, Becoming
  <2>4. /\ client'.tools = client.tools /\ client'.initialized = client.initialized
        /\ UNCHANGED <<kind, server, history>>
        /\ caller[Setup].task \in {"connect", "opening"}
    BY <2>1 DEF ConnectEffects
  <2>6. r.at = "send"
    BY <1>0, <2>2, <2>4 DEF CallInv, RestOK, Resting
  <2>7. client'.tools = {}
    BY <2>4 DEF GreetInv
  <2> QED BY <2>2, <2>3, <2>4, <2>6, <2>7 DEF GreetInv, HandshakeFirst, Posted, Takes
<1>4. CASE WsOpened \/ SseOpened \/ WsError \/ SseError \/ CloseEvent
  BY <1>1, <1>4, Events DEF EventEffects, SameServer
<1>5. ASSUME NEW c \in Callers, NEW m \in client.tools \cap Runs[c], Begin(c, m)
      PROVE  GreetInv'
  <2>1. /\ m \in {"tools/call"} \cup Queries
        /\ c \in Everyone /\ c # Setup
        /\ UNCHANGED <<kind, client, link, thread, handle, server, executed, closer, joined, history>>
    BY <1>5, Begins
  <2>2. PICK r \in CallerRecord : Becomes(c, r) /\ r.task = m
    BY <1>5, Begins
  <2>3. caller'[c] = r /\ \A d \in Everyone : d # c => caller'[d] = caller[d]
    BY <2>1, <2>2, Becoming
  <2>4. m \in client.tools /\ (m \in Handshake \cup {"tools/call"} => m = "tools/call")
    BY <2>1 DEF Handshake, Queries
  <2> QED BY <1>0, <2>1, <2>2, <2>3, <2>4 DEF GreetInv, HandshakeFirst, Posted, Takes
<1>6. ASSUME NEW c \in Everyone, Step(c)
      PROVE  GreetInv'
  <2>1. SameServer /\ UNCHANGED <<kind, thread>>
    BY <1>6, StepEffects
  <2>2. CallerSteps(c)
    BY <1>6, StepKinds
  <2>3. /\ caller'[Setup].task # "done" => client'.tools = {}
        /\ \A d \in Callers : caller'[d].task \in Handshake \cup {"tools/call"} =>
                 "tools/call" \in client'.tools
    BY <2>2, StepTools
  <2>4. Posted' = Posted /\ Takes' = Takes /\ history \subseteq history'
    BY <1>6, <2>1, StepHistory DEF Posted, SameServer, Takes
  <2>5. Takes /\ "restarted" \notin history /\ ~Posted =>
           /\ client'.initialized \/ "tools/call" \in client'.tools => server'.greeted
           /\ caller'[Setup].task = "initialize" /\ caller'[Setup].at = "recv" => server'.greeted
           /\ caller'[Setup].task \in {"notifications/initialized", "tools/list"} => server'.greeted
    BY <1>6, StepGreeted
  <2>6. HandshakeFirst'
    <3>1. "ungreeted" \in history' => \/ "ungreeted" \in history
                                      \/ /\ caller[c].task = "tools/call" /\ Takes
                                         /\ ~server.greeted /\ ~Posted
      BY <1>6, StepHistory
    <3>2. caller[c].task = "tools/call" => c \in Callers
      BY DEF CallInv, Everyone, Handshake
    <3>3. caller[c].task = "tools/call" /\ Takes /\ ~server.greeted /\ ~Posted => "restarted" \in history
      BY <3>2 DEF GreetInv
    <3> QED BY <2>4, <3>1, <3>3 DEF GreetInv, HandshakeFirst
  <2> QED BY <2>3, <2>4, <2>5, <2>6 DEF GreetInv
<1>7. ASSUME NEW t \in Threads, ThreadStep(t) \/ LongLine(t) \/ Notification(t) \/ Idle(t)
      PROVE  GreetInv'
  <2>1. CASE ThreadStep(t) \/ LongLine(t)
    <3>1. /\ ThreadEffects(t) /\ ("ungreeted" \in history' => "ungreeted" \in history)
          /\ history \subseteq history'
      BY <2>1, ThreadMoves
    <3>2. /\ UNCHANGED <<kind, client, caller>>
          /\ \/ "restarted" \in history'
             \/ /\ server'.up = server.up /\ server'.stuck = server.stuck
                /\ server'.greeted = server.greeted
      BY <3>1 DEF ThreadEffects
    <3> QED BY <1>1, <3>1, <3>2
  <2>2. CASE Notification(t)
    BY <1>1, <2>2, Unasked DEF SameServer
  <2> QED BY <1>2, <1>7, <2>1, <2>2 DEF Idle
<1>8. ASSUME NEW t \in Threads, NEW r \in server.pending, NEW ok \in BOOLEAN,
             StdioLine(t, r, ok) \/ WsMessage(t, r, ok) \/ SseEvent(t, r, ok)
      PROVE  GreetInv'
  <2>1. r \in RequestRecord /\ Answer(t, r, ok)
    BY <1>8 DEF McpTypeOK, ServerType, StdioLine, WsMessage, SseEvent
  <2> QED BY <1>1, <2>1, Arrives DEF SameServer
<1>9. CASE Crash \/ Hang \/ Expire \/ ServerTerminates
  BY <1>1, <1>9, ServerEnds
<1>10. CASE CloseStart
  BY <1>1, <1>10 DEF CloseStart
<1>11. CASE CloseJoin \/ CloseReap
  BY <1>1, <1>11 DEF CloseJoin, CloseReap
<1>12. CASE CloseEnd
  <2>1. /\ client'.tools = client.tools /\ client'.initialized = client.initialized
        /\ UNCHANGED <<kind, thread, server, caller, history>>
    BY <1>12, Closes DEF CloseEnd
  <2> QED BY <2>1 DEF GreetInv, HandshakeFirst, Posted, Takes
<1> QED BY <1>2, <1>3, <1>4, <1>5, <1>6, <1>7, <1>8, <1>9, <1>10, <1>11, <1>12 DEF Next, Gone, Waits

-----------------------------------------------------------------------------
(* Nothing is used after it was freed.                                     *)

\* The setup uses a transport that was freed only if it has not ended, which it never
\* takes back.
LEMMA StepOnFreed ==
    ASSUME McpTypeOK, CallInv, NEW c \in Everyone, Step(c)
    PROVE  /\ "faulty" \in history' =>
                 "faulty" \in history \/ (link.data = "freed" /\ caller[Setup].task # "done")
           /\ caller'[Setup].task = "connect" => caller[Setup].task = "connect"
           /\ caller[Setup].task = "done" => caller'[Setup].task = "done"
<1>2. "faulty" \in history' =>
         "faulty" \in history \/ (link.data = "freed" /\ caller[Setup].task # "done")
  <2>1. CASE CallerUsesFreed(c)
    BY <2>1 DEF CallerUsesFreed
  <2>2. CASE \/ SkipInitialize(c) \/ GiveUp(c) \/ StdioSend(c) \/ WsSend(c)
             \/ StdioBlocks(c) \/ StdioUnblocks(c)
    BY <2>2 DEF SkipInitialize, GiveUp, StdioSend, WsSend, StdioBlocks, StdioUnblocks, SendFails, Noted
  <2>3. CASE SseSend(c) \/ HttpSend(c)
    <3>1. history' \in {history, Noted(c), Noted(c) \cup {"mixed"}}
      BY <2>3 DEF SseSend, HttpSend, PostTaken, PostTimesOut, PostRefused, PostFails, SendFails
    <3> QED BY <3>1 DEF Noted
  <2>4. CASE StdioRecv(c) \/ WsRecv(c) \/ SseRecv(c) \/ HttpRecv(c)
    BY <2>4 DEF StdioRecv, WsRecv, SseRecv, HttpRecv, PopRecv, Matched
  <2> QED BY <2>1, <2>2, <2>3, <2>4 DEF Step
<1>3. CallerSteps(c)
  BY StepKinds
<1>4. PICK r \in CallerRecord :
         /\ Becomes(c, r)
         /\ r.task # "connect"
  <2>1. CASE SkipInitialize(c)
    <3>1. "tools/list" \in Tasks
      BY DEF Tasks, Handshake
    <3>2. Becomes(c, Goes(c, "tools/list"))
      BY <2>1 DEF SkipInitialize, Becomes
    <3> QED BY <3>1, <3>2, GoesRecord
  <2>2. CASE MustSend(c) /\ Handed(c)
    BY <2>2, IsHanded DEF MustSend, Sending
  <2>3. CASE \E e : Failure(c, e)
    BY <2>3, Fails
  <2>4. CASE Success(c)
    <3>1. PICK r \in CallerRecord :
                 /\ Becomes(c, r)
                 /\ r.task = CASE caller[c].task = "initialize" -> "notifications/initialized"
                               [] caller[c].task = "tools/list" /\ c # Setup -> "tools/call"
                               [] OTHER -> "done"
      BY <2>4, Succeeds
    <3> QED BY <3>1
  <2>5. CASE Becomes(c, Ends(c))
    BY <2>5, EndsRecord
  <2>6. CASE MustSend(c) /\ Becomes(c, Blocked(c))
    BY <2>6, BlockedRecord DEF MustSend, Sending
  <2> QED BY <1>3, <2>1, <2>2, <2>3, <2>4, <2>5, <2>6 DEF CallerSteps
<1>5. Setup \in Everyone
  BY DEF Everyone
<1>6. /\ c = Setup => caller'[Setup].task # "connect"
      /\ c # Setup => caller'[Setup] = caller[Setup]
  BY <1>4, <1>5, Becoming
<1> QED BY <1>2, <1>3, <1>6, SetupDone

\* The close through every step.
LEMMA NextCloseInv ==
    ASSUME McpTypeOK, CallInv, CloseInv, [Next]_vars
    PROVE  CloseInv'
<1>0. /\ Setup \in Everyone /\ Setup \notin Callers /\ Callers \subseteq Everyone
      /\ 1 \in Threads /\ handle \in Threads /\ joined \in Threads
      /\ thread \in [Threads -> {"none", "reading", "sleeping", "returning", "ended"}]
  BY SetupApart, FirstThread DEF McpTypeOK
\* Steps that leave the threads and the close alone, and do not set the transport going.
<1>1. ASSUME UNCHANGED <<kind, thread, handle, closer, joined, caller>>,
             link'.data = link.data, link'.running => link.running,
             history' \in {history, history \cup {"mixed"}, history \cup {"hung"}}
      PROVE  CloseInv'
  BY <1>1 DEF CloseInv, NoUseAfterClose
<1>2. CASE UNCHANGED vars
  BY <1>1, <1>2 DEF vars
<1>3. CASE Connect
  <2>1. ConnectEffects
    BY <1>3, Connects
  <2>2. PICK r \in CallerRecord :
          /\ Becomes(Setup, r)
          /\ r.task \in {"opening", "initialize", "done"}
          /\ r.task = "opening" => caller[Setup].task = "connect"
    BY <2>1 DEF ConnectEffects
  <2>3. caller'[Setup] = r
    BY <1>0, <2>2, Becoming
  <2>4. /\ UNCHANGED <<kind, handle, joined, history>>
        /\ caller[Setup].task \in {"connect", "opening"} /\ closer = "none" /\ link.data # "freed"
        /\ caller'[Setup].task # "connect"
        /\ caller'[Setup].task = "opening" => caller[Setup].task = "connect"
    BY <2>1, <2>2, <2>3 DEF ConnectEffects, CloseInv
  <2>5. CASE UNCHANGED <<thread, closer>> /\ (link'.data = "up" \/ link' = link)
    BY <2>4, <2>5 DEF CloseInv, NoUseAfterClose
  <2>6. CASE /\ caller[Setup].task = "connect" /\ link'.data = "up" /\ UNCHANGED closer
             /\ thread' = [thread EXCEPT ![1] = "reading"]
    <3>1. handle = 1 /\ \A t \in Threads : thread[t] = "none"
      BY <2>6 DEF CloseInv
    <3>2. \A t \in Threads : t # 1 => thread'[t] = "none"
      BY <1>0, <2>6, <3>1
    <3>3. thread'[1] = "reading"
      BY <1>0, <2>6
    <3> QED BY <2>4, <2>6, <3>1, <3>2, <3>3 DEF CloseInv, NoUseAfterClose
  <2>7. CASE /\ Polled /\ link'.data = link.data /\ ~link'.running /\ UNCHANGED thread
             /\ closer' = "stopped" /\ caller[Setup].task = "opening"
             /\ caller'[Setup].task = "done"
    <3>1. r.task # "opening"
      BY <2>2, <2>7
    <3>2. \A t \in Threads : thread[t] \notin {"sleeping", "returning"}
      BY <2>7 DEF Polled, CloseInv
    <3> QED BY <2>2, <2>3, <2>4, <2>7, <3>1, <3>2 DEF CloseInv, NoUseAfterClose
  <2> QED BY <2>1, <2>5, <2>6, <2>7 DEF ConnectEffects
<1>4. CASE WsOpened \/ SseOpened \/ WsError \/ SseError \/ CloseEvent
  BY <1>1, <1>4, Events DEF EventEffects
<1>5. ASSUME NEW c \in Callers, NEW m \in client.tools \cap Runs[c], Begin(c, m)
      PROVE  CloseInv'
  <2>1. /\ c \in Everyone /\ c # Setup
        /\ UNCHANGED <<kind, client, link, thread, handle, server, executed, closer, joined, history>>
    BY <1>5, Begins
  <2>2. PICK r \in CallerRecord : Becomes(c, r)
    BY <1>5, Begins
  <2>3. caller'[Setup] = caller[Setup]
    BY <1>0, <2>1, <2>2, Becoming
  <2> QED BY <2>1, <2>3 DEF CloseInv, NoUseAfterClose
<1>6. ASSUME NEW c \in Everyone, Step(c)
      PROVE  CloseInv'
  <2>1. SameLink /\ UNCHANGED <<kind, thread, handle, closer, joined>>
    BY <1>6, StepEffects
  <2>2. /\ "faulty" \in history' =>
              "faulty" \in history \/ (link.data = "freed" /\ caller[Setup].task # "done")
        /\ caller'[Setup].task = "connect" => caller[Setup].task = "connect"
        /\ caller[Setup].task = "done" => caller'[Setup].task = "done"
    BY <1>6, StepOnFreed
  <2>3. history \subseteq history'
    BY <1>6, StepHistory
  <2>4. link.data = "freed" => caller[Setup].task = "done"
    BY DEF CloseInv
  <2> QED BY <2>1, <2>2, <2>3, <2>4 DEF CloseInv, NoUseAfterClose, SameLink
<1>7. ASSUME NEW t \in Threads, ThreadStep(t) \/ LongLine(t) \/ Notification(t) \/ Idle(t)
      PROVE  CloseInv'
  <2>1. CASE ThreadStep(t) \/ LongLine(t)
    <3>1. ThreadEffects(t)
      BY <2>1, ThreadMoves
    <3>2. /\ link'.data = link.data
          /\ link'.running => link.running \/ thread[t] = "sleeping"
          /\ thread[t] \in {"reading", "sleeping", "returning"}
          /\ thread'[t] = "sleeping" => /\ thread[t] = "reading" /\ link.running /\ kind = "stdio"
          /\ UNCHANGED <<kind, caller, closer, joined>>
      BY <3>1 DEF ThreadEffects
    <3>3. caller[Setup].task # "connect"
      BY <3>2 DEF CloseInv
    <3>4. closer # "none" => "raced" \in history \/ (~link.running /\ thread[t] = "reading")
      BY <3>2 DEF CloseInv
    <3>5. link.data = "freed" => "raced" \in history
      BY <3>2 DEF CloseInv
    <3>6. history \subseteq history' /\ ("faulty" \in history' => "faulty" \in history \/ link.data = "freed")
      BY <2>1, ThreadMoves
    <3>7. /\ \A u \in Threads : thread'[u] \in {"sleeping", "returning"} => kind = "stdio"
          /\ \A u \in Threads : u # handle' => thread'[u] \in {"none", "returning", "ended"}
          /\ \/ UNCHANGED handle /\ \A u \in Threads : u # t => thread'[u] = thread[u]
             \/ thread[t] = "sleeping"
      <4>1. CASE \E s \in {"sleeping", "ended"} : thread' = [thread EXCEPT ![t] = s] /\ UNCHANGED handle
        <5>1. PICK s \in {"sleeping", "ended"} : thread' = [thread EXCEPT ![t] = s] /\ UNCHANGED handle
          BY <4>1
        <5>2. thread'[t] = s /\ \A u \in Threads : u # t => thread'[u] = thread[u]
          BY <1>0, <5>1
        <5>3. s = "sleeping" => t = handle
          BY <3>2, <5>2 DEF CloseInv
        <5> QED BY <3>2, <5>1, <5>2, <5>3 DEF CloseInv
      <4>2. CASE /\ thread[t] = "sleeping" /\ t = handle /\ t + 1 \in Threads
                 /\ thread' = [thread EXCEPT ![t] = "returning", ![t + 1] = "reading"] /\ handle' = t + 1
        <5>1. kind = "stdio"
          BY <4>2 DEF CloseInv
        <5>2. \A u \in Threads : u # handle' =>
                 thread'[u] = IF u = t THEN "returning" ELSE thread[u]
          BY <1>0, <4>2
        <5> QED BY <4>2, <5>1, <5>2 DEF CloseInv
      <4> QED BY <3>1, <4>1, <4>2 DEF ThreadEffects
    <3>8. closer # "none" /\ "raced" \notin history =>
             /\ ~link'.running
             /\ \A u \in Threads : thread'[u] \notin {"sleeping", "returning"}
             /\ UNCHANGED handle /\ closer # "reaping"
      <4> SUFFICES ASSUME closer # "none", "raced" \notin history
                   PROVE  /\ ~link'.running
                          /\ \A u \in Threads : thread'[u] \notin {"sleeping", "returning"}
                          /\ UNCHANGED handle /\ closer # "reaping"
        OBVIOUS
      <4>1. ~link.running /\ thread[t] = "reading"
        BY <3>4
      <4>2. UNCHANGED handle /\ \A u \in Threads : u # t => thread'[u] = thread[u]
        BY <3>7, <4>1
      <4>3. thread'[t] \notin {"sleeping", "returning"}
        BY <1>0, <3>1, <3>2, <4>1 DEF ThreadEffects
      <4>4. closer # "reaping"
        BY <4>1 DEF CloseInv
      <4> QED BY <3>2, <4>1, <4>2, <4>3, <4>4 DEF CloseInv
    <3> QED BY <3>2, <3>3, <3>5, <3>6, <3>7, <3>8 DEF CloseInv, NoUseAfterClose
  <2>2. CASE Notification(t)
    BY <1>1, <2>2, Unasked DEF SameLink
  <2> QED BY <1>2, <1>7, <2>1, <2>2 DEF Idle
<1>8. ASSUME NEW t \in Threads, NEW r \in server.pending, NEW ok \in BOOLEAN,
             StdioLine(t, r, ok) \/ WsMessage(t, r, ok) \/ SseEvent(t, r, ok)
      PROVE  CloseInv'
  <2>1. r \in RequestRecord /\ Answer(t, r, ok)
    BY <1>8 DEF McpTypeOK, ServerType, StdioLine, WsMessage, SseEvent
  <2> QED BY <1>1, <2>1, Arrives DEF SameLink
<1>9. CASE Crash \/ Hang \/ Expire \/ ServerTerminates
  BY <1>1, <1>9, ServerEnds
<1>10. CASE CloseStart
  <2>1. /\ link'.data = link.data /\ ~link'.running
        /\ caller[Setup].task = "done" /\ closer' \in {"stopped", "done"} /\ closer = "none"
        /\ UNCHANGED <<kind, thread, handle, caller, joined>>
    BY <1>10, Closes DEF CloseStart
  <2>2. /\ history \subseteq history' /\ ("faulty" \in history' => "faulty" \in history)
        /\ "raced" \notin history' => \A t \in Threads : thread[t] \notin {"sleeping", "returning"}
    BY <1>10 DEF CloseStart
  <2>3. link.data # "freed"
    BY <2>1 DEF CloseInv
  <2> QED BY <2>1, <2>2, <2>3 DEF CloseInv, NoUseAfterClose
<1>11. CASE CloseJoin
  BY <1>11 DEF CloseJoin, CloseInv, NoUseAfterClose
<1>13. CASE CloseReap
  BY <1>13 DEF CloseReap, Joined, CloseInv, NoUseAfterClose
<1>12. CASE CloseEnd
  <2>1. /\ link'.data = "freed" /\ link'.running = link.running
        /\ closer' = "done" /\ closer # "none"
        /\ "raced" \notin history => joined = handle /\ thread[joined] \in {"none", "ended"}
        /\ UNCHANGED <<kind, thread, handle, caller, joined, history>>
    BY <1>12, Closes DEF CloseEnd, Joined, CloseInv
  <2>2. "raced" \notin history => \A t \in Threads : thread[t] \in {"none", "ended"}
    <3> SUFFICES ASSUME "raced" \notin history
                 PROVE  \A t \in Threads : thread[t] \in {"none", "ended"}
      OBVIOUS
    <3>1. joined = handle /\ \A t \in Threads : thread[t] \notin {"sleeping", "returning"}
      BY <2>1 DEF CloseInv
    <3>2. \A t \in Threads : t # handle => thread[t] \in {"none", "returning", "ended"}
      BY DEF CloseInv
    <3> QED BY <2>1, <3>1, <3>2
  <2> QED BY <2>1, <2>2 DEF CloseInv, NoUseAfterClose
<1> QED BY <1>2, <1>3, <1>4, <1>5, <1>6, <1>7, <1>8, <1>9, <1>10, <1>11, <1>12, <1>13 DEF Next, Gone, Waits

-----------------------------------------------------------------------------
(* An answer is the caller's own.                                          *)

\* The only message of a buffer.
LEMMA OneMessage ==
    ASSUME NEW m
    PROVE  /\ Append(<< >>, m) # << >> /\ Tail(Append(<< >>, m)) = << >>
           /\ Head(Append(<< >>, m)) = m
OBVIOUS

\* A request is of one who takes part.
LEMMA Requesters ==
    ASSUME McpTypeOK
    PROVE  /\ \A r \in server.pending : r.by \in Everyone
           /\ link.buf # << >> => Head(link.buf) \in Message /\ Head(link.buf).req.by \in Everyone
<1>1. \A r \in server.pending : r.by \in Everyone
  BY DEF McpTypeOK, ServerType, RequestRecord
<1>2. link.buf \in Seq(Message)
  BY DEF McpTypeOK, LinkType
<1>3. ASSUME link.buf # << >> PROVE Head(link.buf) \in Message
  BY <1>2, <1>3
<1>4. ASSUME NEW m \in Message PROVE m.req.by \in Everyone
  BY DEF Message, RequestRecord
<1> QED BY <1>1, <1>3, <1>4

\* A step of one who neither waited nor waits.
LEMMA Bystander ==
    ASSUME McpTypeOK, Orderly, NEW c \in Everyone, NEW r \in CallerRecord, Becomes(c, r),
           caller[c].at # "recv", r.at # "recv",
           link'.buf = link.buf, server'.pending \subseteq server.pending
    PROVE  Orderly'
<1>1. caller'[c].at # "recv" /\ \A d \in Everyone : d # c => caller'[d] = caller[d]
  BY Becoming
<1>2. ASSUME NEW q, q.by \in Everyone, OwnAnswer(q)
      PROVE  caller'[q.by].at = "recv" /\ q = [by |-> q.by, method |-> caller'[q.by].task]
  BY <1>1, <1>2 DEF OwnAnswer, Request
<1>3. \A d, e \in Everyone : caller'[d].at = "recv" /\ caller'[e].at = "recv" => d = e
  BY <1>1 DEF Orderly
<1>4. ASSUME NEW q \in server'.pending
      PROVE  /\ caller'[q.by].at = "recv" /\ q = [by |-> q.by, method |-> caller'[q.by].task]
             /\ link'.buf = << >>
  BY <1>2, Requesters DEF Orderly
<1>5. ASSUME link'.buf # << >>
      PROVE  /\ Tail(link'.buf) = << >>
             /\ caller'[Head(link'.buf).req.by].at = "recv"
             /\ Head(link'.buf).req = [by |-> Head(link'.buf).req.by,
                                       method |-> caller'[Head(link'.buf).req.by].task]
  BY <1>2, <1>5, Requesters DEF Orderly
<1> QED BY <1>3, <1>4, <1>5 DEF Orderly, OwnAnswer, Request

\* Nobody waits, so nothing is on its way.
LEMMA NobodyWaits ==
    ASSUME McpTypeOK, Orderly, \A d \in Everyone : caller[d].at # "recv"
    PROVE  server.pending = {} /\ link.buf = << >>
BY Requesters DEF Orderly, OwnAnswer

\* Nobody waits afterwards, and nothing is on its way.
LEMMA NobodyWaitsAfter ==
    ASSUME \A d \in Everyone : caller'[d].at # "recv", server'.pending = {}, link'.buf = << >>
    PROVE  Orderly'
BY DEF Orderly

\* c waits afterwards, for one answer, which is still to come or is there.
LEMMA OneWaits ==
    ASSUME NEW c \in Everyone, caller'[c].at = "recv",
           \A d \in Everyone : d # c => caller'[d].at # "recv",
           NEW ok \in BOOLEAN, NEW q, q = [by |-> c, method |-> caller'[c].task],
           \/ server'.pending \subseteq {q} /\ link'.buf = << >>
           \/ server'.pending = {} /\ link'.buf = Append(<< >>, [req |-> q, ok |-> ok])
    PROVE  Orderly'
<1>1. caller'[q.by].at = "recv" /\ q = [by |-> q.by, method |-> caller'[q.by].task]
  OBVIOUS
<1>2. \A d, e \in Everyone : caller'[d].at = "recv" /\ caller'[e].at = "recv" => d = e
  OBVIOUS
<1>3. CASE server'.pending \subseteq {q} /\ link'.buf = << >>
  BY <1>1, <1>2, <1>3 DEF Orderly, OwnAnswer, Request
<1>4. CASE server'.pending = {} /\ link'.buf = Append(<< >>, [req |-> q, ok |-> ok])
  <2>1. link'.buf # << >> /\ Tail(link'.buf) = << >> /\ Head(link'.buf) = [req |-> q, ok |-> ok]
    BY <1>4, OneMessage
  <2>2. Head(link'.buf).req = q
    BY <2>1
  <2> QED BY <1>1, <1>2, <1>4, <2>1, <2>2 DEF Orderly, OwnAnswer, Request
<1> QED BY <1>3, <1>4

\* A request that is handed over while nobody else waits.
LEMMA HandedOrderly ==
    ASSUME McpTypeOK, Orderly, NEW c \in Everyone, caller[c].at = "send", Handed(c),
           \A d \in Everyone \ {c} : caller[d].at # "recv",
           NEW ok \in BOOLEAN,
           \/ /\ server'.pending \subseteq server.pending \cup {Request(c)}
              /\ ~Expecting(c) => server'.pending = server.pending
              /\ link'.buf = link.buf
           \/ /\ server'.pending = server.pending
              /\ link'.buf = IF Expecting(c) THEN Append(link.buf, [req |-> Request(c), ok |-> ok])
                             ELSE link.buf
    PROVE  Orderly'
<1>1. server.pending = {} /\ link.buf = << >>
  BY NobodyWaits
<1>2. CASE Expecting(c)
  <2>1. PICK r \in CallerRecord : Becomes(c, r) /\ r.at = "recv" /\ r.task = caller[c].task
    BY <1>2, IsHanded DEF Expecting
  <2>2. /\ caller'[c].at = "recv" /\ caller'[c].task = caller[c].task
        /\ \A d \in Everyone : d # c => caller'[d].at # "recv"
    BY <2>1, Becoming
  <2>3. Request(c) = [by |-> c, method |-> caller'[c].task]
    BY <2>2 DEF Request
  <2>4. \/ server'.pending \subseteq {Request(c)} /\ link'.buf = << >>
        \/ server'.pending = {} /\ link'.buf = Append(<< >>, [req |-> Request(c), ok |-> ok])
    BY <1>1, <1>2
  <2> QED BY <2>2, <2>3, <2>4, OneWaits
<1>3. CASE ~Expecting(c)
  <2>1. PICK r \in CallerRecord : Becomes(c, r) /\ r.at = "send"
    BY <1>3, IsHanded DEF Expecting
  <2>2. \A d \in Everyone : caller'[d].at # "recv"
    BY <2>1, Becoming
  <2> QED BY <1>1, <1>3, <2>2, NobodyWaitsAfter
<1> QED BY <1>2, <1>3

\* A message that is taken is the caller's own, and then nothing is on its way.
LEMMA TakenOrderly ==
    ASSUME McpTypeOK, Orderly, NEW c \in Everyone, caller[c].at = "recv", link.buf # << >>,
           Success(c) \/ Failure(c, "other"),
           link'.buf = << >> \/ link'.buf = Tail(link.buf), UNCHANGED server
    PROVE  Orderly' /\ Head(link.buf).req = Request(c)
<1>1. Head(link.buf).req.by \in Everyone /\ OwnAnswer(Head(link.buf).req) /\ Tail(link.buf) = << >>
  BY Requesters DEF Orderly
<1>2. Head(link.buf).req.by = c
  BY <1>1 DEF Orderly, OwnAnswer
<1>3. Head(link.buf).req = Request(c)
  BY <1>1, <1>2 DEF OwnAnswer
<1>4. server'.pending = {} /\ link'.buf = << >>
  BY <1>1 DEF Orderly
<1>5. PICK r \in CallerRecord : Becomes(c, r) /\ r.at = "send"
  BY Fails, Succeeds
<1>6. \A d \in Everyone : caller'[d].at # "recv"
  BY <1>5, Becoming DEF Orderly
<1> QED BY <1>3, <1>4, <1>6, NobodyWaitsAfter

\* A step of a caller.
LEMMA StepAnswerInv ==
    ASSUME McpTypeOK, CallInv, AnswerInv, NEW c \in Everyone, Step(c)
    PROVE  AnswerInv'
<1>0. /\ history \subseteq history' /\ SameLink /\ link.buf \in Seq(Message) /\ link \in LinkType
      /\ server \in ServerType /\ server.pending \in SUBSET RequestRecord
  BY StepHistory, StepEffects DEF McpTypeOK, LinkType, ServerType
<1>1. ASSUME "mixed" \notin history', link.data # "freed"
      PROVE  "mixed" \notin history /\ Orderly
  BY <1>0, <1>1 DEF AnswerInv
\* One who fails to send, cannot send yet, or skips the handshake.
<1>2. ASSUME caller[c].at # "recv", NEW r \in CallerRecord, Becomes(c, r), r.at # "recv",
             link'.buf = link.buf, server'.pending = server.pending,
             UNCHANGED history
      PROVE  AnswerInv'
  BY <1>0, <1>1, <1>2, Bystander DEF AnswerInv, AnswerIsOwn, SameLink
\* One who sends.
<1>3. ASSUME caller[c].at = "send", Handed(c), history' = Noted(c), NEW ok \in BOOLEAN,
             \/ /\ server'.pending \subseteq server.pending \cup {Request(c)}
                /\ ~Expecting(c) => server'.pending = server.pending
                /\ link'.buf = link.buf
             \/ /\ server'.pending = server.pending
                /\ link'.buf = IF Expecting(c) THEN Append(link.buf, [req |-> Request(c), ok |-> ok])
                               ELSE link.buf
      PROVE  AnswerInv'
  <2>1. "mixed" \notin history' => \A d \in Everyone \ {c} : caller[d].at # "recv"
    BY <1>3 DEF Noted
  <2>2. "mixed" \notin history' /\ link.data # "freed" => Orderly'
    BY <1>1, <1>3, <2>1, HandedOrderly
  <2>3. AnswerIsOwn'
    BY <1>3 DEF Noted, AnswerInv, AnswerIsOwn
  <2> QED BY <1>0, <2>2, <2>3 DEF AnswerInv, SameLink
<1>4. ASSUME NEW e, SendFails(c, e), caller[c].at # "recv", link'.buf = link.buf,
             server'.pending = server.pending
      PROVE  AnswerInv'
  <2>1. PICK r \in CallerRecord : Becomes(c, r) /\ r.at = "send"
    BY <1>4, Fails DEF SendFails
  <2>2. UNCHANGED history
    BY <1>4 DEF SendFails
  <2> QED BY <1>2, <1>4, <2>1, <2>2
<1>5. CASE SkipInitialize(c)
  <2>1. "tools/list" \in Tasks
    BY DEF Tasks, Handshake
  <2>2. Becomes(c, Goes(c, "tools/list")) /\ caller[c].at = "send" /\ UNCHANGED <<link, server, history>>
    BY <1>5 DEF SkipInitialize, Sending, Becomes
  <2> QED BY <1>2, <2>1, <2>2, GoesRecord
<1>6. CASE StdioSend(c) \/ WsSend(c)
  <2>1. caller[c].at = "send" /\ UNCHANGED link
    BY <1>6 DEF StdioSend, WsSend, MustSend, Sending
  <2>2. CASE SendFails(c, "connection") /\ UNCHANGED server
    BY <1>4, <2>1, <2>2
  <2>3. CASE (server' = Taken(c) \/ server' = server) /\ history' = Noted(c) /\ Handed(c)
    <3>1. /\ server'.pending \subseteq server.pending \cup {Request(c)}
          /\ ~Expecting(c) => server'.pending = server.pending
      BY <2>3, TakenServer
    <3> QED BY <1>3, <2>1, <2>3, <3>1
  <2> QED BY <1>6, <2>2, <2>3 DEF StdioSend, WsSend
<1>7. CASE MustSend(c) /\ PostTaken(c)
  <2>1. caller[c].at = "send" /\ Handed(c) /\ history' = Noted(c)
    BY <1>7 DEF MustSend, Sending, PostTaken
  <2>2. CASE AnsweredLater(c)
    <3>1. /\ server'.pending \subseteq server.pending \cup {Request(c)}
          /\ ~Expecting(c) => server'.pending = server.pending
      BY <2>2, TakenServer DEF AnsweredLater
    <3>2. link'.buf = link.buf
      BY <1>0, <2>2 DEF AnsweredLater, LinkType
    <3> QED BY <1>3, <2>1, <3>1, <3>2
  <2>3. ASSUME NEW ok \in BOOLEAN, Answered(c, ok) PROVE AnswerInv'
    <3>1. server' = Spoilt([Taken(c) EXCEPT !.pending = server.pending], ~ok)
      BY <2>3 DEF Answered
    <3>2. server'.pending = server.pending
      BY <1>0, <3>1, TakenSpoilt
    <3>3. link'.buf = IF Expecting(c) THEN Append(link.buf, [req |-> Request(c), ok |-> ok])
                      ELSE link.buf
      BY <1>0, <2>3 DEF Answered, LinkType
    <3> QED BY <1>3, <2>1, <3>2, <3>3
  <2> QED BY <1>7, <2>2, <2>3 DEF PostTaken
<1>8. CASE MustSend(c) /\ PostRefused(c)
  <2>1. caller[c].at = "send" /\ UNCHANGED server /\ SendFails(c, "session")
        /\ link' = [link EXCEPT !.sid = FALSE]
    BY <1>8 DEF MustSend, Sending, PostRefused
  <2>2. link'.buf = link.buf
    BY <1>0, <2>1 DEF LinkType
  <2> QED BY <1>4, <2>1, <2>2
<1>9. CASE MustSend(c) /\ PostFails(c)
  <2>1. PICK e : SendFails(c, e)
    BY <1>9 DEF PostFails
  <2>2. caller[c].at = "send" /\ UNCHANGED link /\ server' = Spoilt(server, server.up)
    BY <1>9 DEF MustSend, Sending, PostFails
  <2>3. server'.pending = server.pending
    BY <1>0, <2>2, SpoiltServer
  <2> QED BY <1>4, <2>1, <2>2, <2>3
<1>10. CASE PostTimesOut(c) \/ GiveUp(c)
  <2>1. "mixed" \in history'
    BY <1>10 DEF PostTimesOut, GiveUp
  <2> QED BY <2>1 DEF AnswerInv, AnswerIsOwn
<1>11. CASE StdioRecv(c) \/ WsRecv(c) \/ SseRecv(c) \/ HttpRecv(c)
  <2>1. /\ caller[c].at = "recv" /\ link.buf # << >> /\ link.data # "freed"
        /\ Success(c) \/ Failure(c, "other")
        /\ link' = [link EXCEPT !.buf = << >>] \/ link' = [link EXCEPT !.buf = Tail(@)]
        /\ UNCHANGED server /\ history' = Matched(c)
    BY <1>11 DEF StdioRecv, WsRecv, SseRecv, HttpRecv, PopRecv, Popped, Alive, Received
  <2>2. link'.buf = << >> \/ link'.buf = Tail(link.buf)
    BY <1>0, <2>1 DEF LinkType
  <2>3. CASE "mixed" \in history
    BY <1>0, <2>3 DEF AnswerInv, AnswerIsOwn
  <2>4. CASE "mixed" \notin history
    <3>1. Orderly
      BY <2>1, <2>4 DEF AnswerInv
    <3>2. Orderly' /\ Head(link.buf).req = Request(c)
      BY <2>1, <2>2, <3>1, TakenOrderly
    <3>3. history' = history
      BY <2>1, <3>2 DEF Matched
    <3> QED BY <3>2, <3>3 DEF AnswerInv, AnswerIsOwn
  <2> QED BY <2>3, <2>4
<1>12. CASE CallerUsesFreed(c)
  <2>1. /\ link.data = "freed" /\ UNCHANGED link
        /\ history' \in {history, history \cup {"faulty"}}
    BY <1>12 DEF CallerUsesFreed
  <2> QED BY <2>1 DEF AnswerInv, AnswerIsOwn
<1>13. CASE StdioBlocks(c)
  <2>1. Becomes(c, Blocked(c)) /\ caller[c].at = "send" /\ UNCHANGED <<link, server, history>>
    BY <1>13 DEF StdioBlocks, MustSend, Sending, Becomes, Blocked, McpTypeOK
  <2> QED BY <1>2, <2>1, BlockedRecord
<1>14. CASE StdioUnblocks(c)
  <2>1. caller[c].at = "write" /\ SendFails(c, "connection") /\ UNCHANGED <<link, server>>
    BY <1>14 DEF StdioUnblocks
  <2> QED BY <1>4, <2>1
<1> QED BY <1>5, <1>6, <1>7, <1>8, <1>9, <1>10, <1>11, <1>12, <1>13, <1>14 DEF Step, SseSend, HttpSend

\* Every step.
LEMMA NextAnswerInv ==
    ASSUME McpTypeOK, CallInv, CloseInv, AnswerInv, [Next]_vars
    PROVE  AnswerInv'
<1>0. /\ Setup \in Everyone /\ server.pending \in SUBSET RequestRecord
      /\ link.buf \in Seq(Message)
  BY DEF Everyone, McpTypeOK, ServerType, LinkType
<1>1. ASSUME UNCHANGED caller, link'.data = link.data,
             server'.pending \subseteq server.pending,
             link'.buf = link.buf \/ (link'.buf = << >> /\ server'.pending = {}),
             "mixed" \in history => "mixed" \in history',
             "foreign" \in history' => "foreign" \in history
      PROVE  AnswerInv'
  BY <1>1 DEF AnswerInv, AnswerIsOwn, Orderly, OwnAnswer, Request
<1>2. CASE UNCHANGED vars
  BY <1>1, <1>2 DEF vars
<1>3. ASSUME NEW c \in Everyone, NEW r \in CallerRecord, Becomes(c, r), caller[c].at = "send",
             r.at = "send", link'.buf = link.buf, link.data # "freed", UNCHANGED <<server, history>>
      PROVE  AnswerInv'
  BY <1>3, Bystander DEF AnswerInv, AnswerIsOwn
<1>4. CASE Connect
  <2>1. ConnectEffects
    BY <1>4, Connects
  <2>2. PICK r \in CallerRecord : Becomes(Setup, r) /\ r.at = caller[Setup].at
    BY <2>1 DEF ConnectEffects
  <2>3. caller[Setup].at = "send"
    BY <1>0, <2>1 DEF ConnectEffects, CallInv, RestOK, Resting
  <2>4. link'.buf = link.buf /\ UNCHANGED <<server, history>> /\ closer = "none"
    BY <2>1 DEF ConnectEffects, CloseInv
  <2>5. link.data # "freed"
    BY <2>4 DEF CloseInv
  <2> QED BY <1>0, <1>3, <2>2, <2>3, <2>4, <2>5
<1>5. CASE WsOpened \/ SseOpened \/ WsError \/ SseError \/ CloseEvent
  BY <1>1, <1>5, Events DEF EventEffects, SameServer
<1>6. ASSUME NEW c \in Callers, NEW m \in client.tools \cap Runs[c], Begin(c, m)
      PROVE  AnswerInv'
  <2>1. /\ c \in Everyone /\ caller[c].task = "idle"
        /\ UNCHANGED <<kind, client, link, thread, handle, server, executed, closer, joined, history>>
    BY <1>6, Begins
  <2>2. PICK r \in CallerRecord : Becomes(c, r) /\ r.at = "send"
    BY <1>6, Begins
  <2>3. caller[c].at = "send"
    BY <2>1 DEF CallInv, RestOK, Resting
  <2>4. CASE link.data # "freed"
    BY <1>3, <2>1, <2>2, <2>3, <2>4
  <2>5. CASE link.data = "freed"
    BY <2>1, <2>5 DEF AnswerInv, AnswerIsOwn
  <2> QED BY <2>4, <2>5
<1>7. ASSUME NEW c \in Everyone, Step(c)
      PROVE  AnswerInv'
  BY <1>7, StepAnswerInv
<1>8. ASSUME NEW t \in Threads, ThreadStep(t) \/ LongLine(t) \/ Notification(t) \/ Idle(t)
      PROVE  AnswerInv'
  <2>1. CASE ThreadStep(t) \/ LongLine(t)
    <3>1. /\ ThreadEffects(t)
          /\ history' \in {history, history \cup {"faulty"}, history \cup {"restarted"}}
      BY <2>1, ThreadMoves
    <3>2. /\ link'.buf = link.buf \/ link'.buf = << >>
          /\ server'.pending \subseteq server.pending
          /\ link'.data = link.data /\ UNCHANGED caller
      BY <3>1 DEF ThreadEffects
    <3>3. link'.buf = << >> /\ link'.buf # link.buf => server'.pending = {}
      BY <3>1 DEF ThreadEffects
    <3> QED BY <1>1, <3>1, <3>2, <3>3
  <2>2. CASE Notification(t)
    <3>1. "mixed" \in history'
      BY <2>2 DEF Notification
    <3> QED BY <3>1 DEF AnswerInv, AnswerIsOwn
  <2> QED BY <1>2, <1>8, <2>1, <2>2 DEF Idle
<1>9. ASSUME NEW t \in Threads, NEW r \in server.pending, NEW ok \in BOOLEAN,
             StdioLine(t, r, ok) \/ WsMessage(t, r, ok) \/ SseEvent(t, r, ok)
      PROVE  AnswerInv'
  <2>1. r \in RequestRecord /\ Answer(t, r, ok)
    BY <1>0, <1>9 DEF StdioLine, WsMessage, SseEvent
  <2>2. /\ link'.data = link.data
        /\ link'.buf = Append(link.buf, [req |-> r, ok |-> ok])
        /\ server'.pending = server.pending \ {r}
        /\ UNCHANGED <<caller, history>>
    BY <2>1, Arrives DEF SameLink
  <2>3. ASSUME Orderly PROVE Orderly'
    <3>1. r.by \in Everyone /\ OwnAnswer(r) /\ link.buf = << >>
      BY <2>3, Requesters DEF Orderly
    <3>2. ASSUME NEW q \in server.pending PROVE q = r
      <4>1. q.by \in Everyone /\ OwnAnswer(q)
        BY <2>3, Requesters DEF Orderly
      <4>2. q.by = r.by
        BY <2>3, <3>1, <4>1 DEF Orderly, OwnAnswer
      <4> QED BY <3>1, <4>1, <4>2 DEF OwnAnswer
    <3>3. server'.pending = {}
      BY <2>2, <3>2
    <3>4. /\ caller'[r.by].at = "recv" /\ r = [by |-> r.by, method |-> caller'[r.by].task]
          /\ \A d \in Everyone : d # r.by => caller'[d].at # "recv"
      BY <2>2, <2>3, <3>1 DEF OwnAnswer, Request, Orderly
    <3> QED BY <2>2, <3>1, <3>3, <3>4, OneWaits
  <2> QED BY <2>2, <2>3 DEF AnswerInv, AnswerIsOwn
<1>10. CASE Crash \/ Hang \/ Expire \/ ServerTerminates
  BY <1>1, <1>10, ServerEnds
<1>11. CASE CloseStart
  <2>1. link'.data = link.data /\ link'.buf = link.buf
    BY <1>11, Closes
  <2>2. UNCHANGED <<caller, server>> /\ history \subseteq history'
        /\ ("foreign" \in history' => "foreign" \in history)
    BY <1>11 DEF CloseStart
  <2> QED BY <1>1, <2>1, <2>2
<1>12. CASE CloseJoin \/ CloseReap
  BY <1>1, <1>12 DEF CloseJoin, CloseReap
<1>13. CASE CloseEnd
  <2>1. link'.data = "freed"
    BY <1>13, Closes
  <2>2. history \subseteq history' /\ ("foreign" \in history' => "foreign" \in history)
    BY <1>13 DEF CloseEnd
  <2> QED BY <2>1, <2>2 DEF AnswerInv, AnswerIsOwn
<1> QED BY <1>2, <1>4, <1>5, <1>6, <1>7, <1>8, <1>9, <1>10, <1>11, <1>12, <1>13 DEF Next, Gone, Waits

-----------------------------------------------------------------------------
(* The theorems.                                                           *)

\* At the start there is neither a transport nor a request.
LEMMA InitMcpInv == Init => McpInv
<1> SUFFICES ASSUME Init PROVE McpInv
  OBVIOUS
<1>0. /\ Setup \in Everyone /\ Setup \notin Callers /\ Callers \subseteq Everyone
      /\ 1 \in Threads
  BY SetupApart, FirstThread
<1>1. /\ \A c \in Everyone : caller[c].at = "send" /\ ~caller[c].retried
      /\ \A c \in Callers : caller[c].task = "idle" /\ executed[c] = 0
      /\ caller[Setup].task = "connect"
  BY <1>0 DEF Init
<1>2. McpTypeOK
  <2>1. caller \in [Everyone -> CallerRecord]
    <3>1. ASSUME NEW m \in {"connect", "idle"}
          PROVE  [task |-> m, at |-> "send", retried |-> FALSE] \in CallerRecord
      BY DEF CallerRecord, Tasks, Resting
    <3> QED BY <3>1 DEF Init
  <2>2. link \in LinkType
    <3>1. << >> \in Seq(Message)
      OBVIOUS
    <3> QED BY <3>1 DEF Init, LinkType
  <2>3. client \in ClientType /\ server \in ServerType
    BY DEF Init, ClientType, ServerType
  <2> QED BY <1>0, <2>1, <2>2, <2>3 DEF Init, McpTypeOK
<1>3. CallInv
  <2>1. \A c \in Callers : CallOK(caller[c], executed[c])
    BY <1>0, <1>1 DEF CallOK, Handshake
  <2>2. \A c \in Everyone : RestOK(caller[c])
    BY <1>1 DEF RestOK
  <2> QED BY <1>1, <2>1, <2>2 DEF CallInv
<1>4. client.tools = {} /\ client.initialized = FALSE /\ server.up /\ history = {} /\ closer = "none"
      /\ link.data = "none" /\ link.buf = << >> /\ server.pending = {} /\ handle = 1
      /\ thread = [t \in Threads |-> "none"]
  BY DEF Init
<1>5. GreetInv
  BY <1>1, <1>4 DEF GreetInv, HandshakeFirst, Handshake
<1>6. CloseInv
  BY <1>1, <1>4 DEF CloseInv, NoUseAfterClose
<1>7. AnswerInv
  BY <1>1, <1>4 DEF AnswerInv, AnswerIsOwn, Orderly
<1> QED BY <1>2, <1>3, <1>5, <1>6, <1>7 DEF McpInv

\* The invariant holds in every state of every behaviour.
LEMMA McpInvariant == Spec => []McpInv
<1>1. McpInv /\ [Next]_vars => McpInv'
  BY NextTypes, NextGreetInv, NextCloseInv, NextAnswerInv DEF McpInv
<1> QED BY InitMcpInv, <1>1, PTL DEF Spec

\* A server takes a tool call only after it has seen the handshake, unless its process was
\* started anew, and a tool run asks for its side effect at most twice (mcp_tool_execute and
\* the requests it makes).
THEOREM ToolCallsAreSafe == Spec => []CallsSafe
<1>1. McpInv => CallsSafe
  <2> SUFFICES ASSUME McpInv PROVE HandshakeFirst /\ CalledAtMostTwice
    BY DEF CallsSafe
  <2>1. \A c \in Callers : executed[c] \in {0, 1, 2}
    BY DEF McpInv, CallInv, CallOK
  <2> QED BY <2>1 DEF McpInv, GreetInv, CalledAtMostTwice
<1> QED BY <1>1, McpInvariant, PTL

\* What a request takes is the answer to it, although no id is compared, as long as nothing
\* was mixed up (the receive of each transport and mcp_parse_response).
THEOREM AnswersAreOwn == Spec => []AnswerIsOwn
<1>1. McpInv => AnswerIsOwn
  BY DEF McpInv, AnswerInv
<1> QED BY <1>1, McpInvariant, PTL

\* Neither the transport's threads nor the setup use a freed transport, unless the close came
\* while the reader was starting the process again (mcp_client_disconnect and the close of
\* each transport).  Tool runs are not part of this: nothing keeps them from it.
THEOREM FreedIsNotUsed == Spec => []NoUseAfterClose
<1>1. McpInv => NoUseAfterClose
  BY DEF McpInv, CloseInv
<1> QED BY <1>1, McpInvariant, PTL
=============================================================================
