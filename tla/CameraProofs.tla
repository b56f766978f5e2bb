---------------------------- MODULE CameraProofs ----------------------------
(***************************************************************************)
(* The sample client uses the VideoSink as the VideoSink's specification   *)
(* allows, so what is proved of the VideoSink holds in the client.         *)
(***************************************************************************)
EXTENDS CameraClient, VideoSinkProofs, Runs

\* An end of the process is a fault of the client to the VideoSink.
LEMMA ExitIsFault == ASSUME NEW how, Exits(how) PROVE ClientFault
BY DEF Exits, ClientFault

\* What main does to the VideoSink is one of its calls.
LEMMA MainIsLibStep == Main => [Next]_vars
<1>1. MainReady \/ MainConnected => UNCHANGED vars
  BY DEF MainReady, MainConnected
<1>2. MainGet \/ MainSet \/ MainInCall => Next
  BY DEF MainGet, MainSet, MainInCall, Next
<1> QED BY <1>1, <1>2 DEF Main

\* What the callback does to it is nothing until it returns.
LEMMA CamCallbackIsLibStep == CamCallback => [Next]_vars
<1> SUFFICES ASSUME CamCallback PROVE [Next]_vars
  OBVIOUS
<1>1. CASE CamOpen
  BY <1>1, ExitIsFault DEF CamOpen, Next, Talker
<1>2. CASE CamClose
  BY <1>2, ExitIsFault DEF CamClose, Next
<1>3. CASE CamJoined \/ CamUnknown
  BY <1>3, ExitIsFault DEF CamJoined, CamUnknown, Next
<1> QED BY <1>1, <1>2, <1>3 DEF CamCallback

\* The streamer calls SendDataPacket and nothing else.
LEMMA CamStreamerIsLibStep == CamStreamer => [Next]_vars
<1> SUFFICES ASSUME CamStreamer PROVE [Next]_vars
  OBVIOUS
<1>1. CASE CamFile \/ CamLoop \/ CamFailed
  BY <1>1, ExitIsFault DEF CamFile, CamLoop, CamFailed, Next
<1>2. CASE CamSend
  BY <1>2, ExitIsFault DEF CamSend, Next
<1>3. CASE CamSent
  BY <1>3 DEF CamSent, Next
<1> QED BY <1>1, <1>2, <1>3 DEF CamStreamer

\* Every step of the client is a step of the VideoSink or none.
LEMMA CamStepIsLibStep == CamNext => [Next]_vars
<1> SUFFICES ASSUME CamNext PROVE [Next]_vars
  OBVIOUS
<1>1. CASE CamTalker
  BY <1>1, CamCallbackIsLibStep DEF CamTalker, LibStep, Next, Talker
<1>2. CASE Main \/ CamStreamer \/ AppStep(Next)
  BY <1>2, MainIsLibStep, CamStreamerIsLibStep DEF AppStep
<1>3. CASE LibStep(VhalDrop) \/ LibStep(VhalUp) \/ CamVhalReply \/ CamVhalCommand
  BY <1>3 DEF LibStep, CamVhalReply, CamVhalCommand, Next, Environment, Vhal
<1>4. CASE CamTerminated
  BY <1>4 DEF CamTerminated, camVars
<1> QED BY <1>1, <1>2, <1>3, <1>4 DEF CamNext, CameraStep

\* The sample client implements the VideoSink with a client that obeys its
\* rules.  (camera_client.cc as a client of VideoSink)
THEOREM CamImplementsVideoSink == CamSpec => Spec
<1>1. CamInit => Init
  BY DEF CamInit
<1>2. [CamNext]_camVars => [Next]_vars
  BY CamStepIsLibStep DEF camVars
<1> QED BY <1>1, <1>2, PTL DEF CamSpec, Spec

\* So it keeps no descriptor it does not use.  (the sample client's use of
\* Connect() and Close())
THEOREM CamDescriptorsKept == CamSpec => []NoDescriptorLeak
BY CamImplementsVideoSink, DescriptorsKept, PTL

\* The same for the rest of what is proved of the VideoSink: its types, the
\* connection that a short read or the vHAL ends, and the waits that only their own
\* reply ends.  (main's calls next to the talker thread)
THEOREM CamTypeCorrect == CamSpec => []TypeOK
BY CamImplementsVideoSink, TypeCorrect, PTL

\* The sample client closes a connection that is up on a short read only.
\* (the talker's Close() calls, with the sample's callback)
THEOREM CamConnectionKept == CamSpec => KeepsLiveConnection
<1>1. Spec => KeepsLiveConnection
  BY LiveConnectionKept
<1> QED BY <1>1, CamImplementsVideoSink, PTL

\* main's calls return on their own reply.  (notify_one, which names no call)
THEOREM CamOwnReplyWakes ==
    ASSUME Spurious = FALSE
    PROVE  CamSpec => WokenByOwnReply
<1>1. Spec => WokenByOwnReply
  BY OwnReplyWakes
<1> QED BY <1>1, CamImplementsVideoSink, PTL

(***************************************************************************)
(* A session in order.  The commands on their way lead from what the       *)
(* callback has seen to what the vHAL has sent: one CMD_OPEN, then any     *)
(* number of CMD_CLOSE, among packets of other types.                      *)
(***************************************************************************)
CommandOrder ==
    {r \in {"fresh", "begun"} \X Packets \X {"fresh", "begun"} :
       IF r[2].type = "CAMERA_CONFIG"
         THEN /\ r[2].body = IF r[1] = "fresh" THEN "OPEN" ELSE "CLOSE"
              /\ r[3] = "begun"
         ELSE r[3] = r[1]}

Seen == IF tpc = "callback" \/ spc # "none" THEN "begun" ELSE "fresh"
Sent == IF opened THEN "begun" ELSE "fresh"

CamTypes ==
    /\ kind \in {"app", "camera"} /\ orderly \in BOOLEAN /\ (kind = "app" => ~orderly)
    /\ ready \in BOOLEAN /\ acked \in BOOLEAN /\ opened \in BOOLEAN /\ sink \in BOOLEAN

CamSession == kind = "camera" /\ orderly /\ Undisturbed

CamClean ==
    /\ life \in {"live", "dead"} /\ peer # "closed"
    /\ \A f \in Fds : fdt[f] # "file"
    /\ mpc # "connect" => ready
    /\ mpc = "connect" => cpc = "idle" /\ owed = <<>> /\ ~acked
    /\ opened => acked /\ peer = "open"
    /\ spc # "none" => opened /\ sink
    /\ spc # "failed"
    /\ tpc = "callback" => opened /\ cmd = (IF spc = "none" THEN "OPEN" ELSE "CLOSE")
    /\ Leads(CommandOrder, Seen, inbox, Sent)
    /\ status \in {"running", "exit0"}

CamInv == CamTypes /\ (CamSession => CamClean)

(***************************************************************************)
(* The commands.                                                           *)
(***************************************************************************)
LEMMA CommandStep ==
    ASSUME NEW a \in {"fresh", "begun"}, NEW p \in Packets, NEW b \in {"fresh", "begun"}
    PROVE  <<a, p, b>> \in CommandOrder <=>
             IF p.type = "CAMERA_CONFIG"
               THEN p.body = (IF a = "fresh" THEN "OPEN" ELSE "CLOSE") /\ b = "begun"
               ELSE b = a
<1>1. <<a, p, b>> \in {"fresh", "begun"} \X Packets \X {"fresh", "begun"}
  OBVIOUS
<1>2. <<a, p, b>>[1] = a /\ <<a, p, b>>[2] = p /\ <<a, p, b>>[3] = b
  OBVIOUS
<1> QED BY <1>1, <1>2 DEF CommandOrder

\* What the order relates.
LEMMA CommandStepTypes ==
    ASSUME NEW a, NEW p, NEW b, <<a, p, b>> \in CommandOrder
    PROVE  a \in {"fresh", "begun"} /\ p \in Packets /\ b \in {"fresh", "begun"}
BY DEF CommandOrder

\* The talker reads a packet.
LEMMA ReadsCommand ==
    ASSUME NEW q \in Seq(Packets), q # <<>>, NEW a \in {"fresh", "begun"}, NEW b,
           Leads(CommandOrder, a, q, b)
    PROVE  /\ Head(q).type # "CAMERA_CONFIG" => Leads(CommandOrder, a, Tail(q), b)
           /\ Head(q).type = "CAMERA_CONFIG" =>
                /\ Head(q).body = (IF a = "fresh" THEN "OPEN" ELSE "CLOSE")
                /\ Leads(CommandOrder, "begun", Tail(q), b) /\ b = "begun"
<1>1. PICK c : <<a, Head(q), c>> \in CommandOrder /\ Leads(CommandOrder, c, Tail(q), b)
  BY LeadsFirst
<1>2. Head(q) \in Packets /\ c \in {"fresh", "begun"}
  BY <1>1, CommandStepTypes
<1>3. IF Head(q).type = "CAMERA_CONFIG"
        THEN Head(q).body = (IF a = "fresh" THEN "OPEN" ELSE "CLOSE") /\ c = "begun"
        ELSE c = a
  BY <1>1, <1>2, CommandStep
<1>4. ASSUME c = "begun" PROVE b = "begun"
  <2>1. Tail(q) \in Seq(Packets)
    BY HeadTailProperties
  <2>2. ASSUME NEW x, NEW e, NEW y, <<x, e, y>> \in CommandOrder, x \in {"begun"}
        PROVE  y \in {"begun"}
    <3>1. x \in {"fresh", "begun"} /\ e \in Packets /\ y \in {"fresh", "begun"} /\ x = "begun"
      BY <2>2, CommandStepTypes
    <3>2. y = "begun" \/ y = x
      BY <2>2, <3>1, CommandStep
    <3> QED BY <3>1, <3>2
  <2>3. c \in {"begun"}
    BY <1>4
  <2>4. b \in {"begun"}
    BY <1>1, <2>1, <2>2, <2>3, LeadsWithin
  <2> QED BY <2>4
<1> QED BY <1>1, <1>3, <1>4

\* There is a descriptor for the sample client's socket.  (socket() in
\* Connect(), for a process that has nothing else open)
LEMMA DescriptorFree ==
    ASSUME Fds # {}, IInv, \A f \in Fds : fdt[f] # "file"
    PROVE  LowestFree(Released) # {}
<1>1. /\ Released \in [Fds -> {"free", "sock", "file"}]
      /\ \A f \in Fds : Released[f] = "free"
  <2>1. fd_ \in Fds \cup {NoFd} /\ fdt \in [Fds -> {"free", "sock", "file"}] /\ NoDescriptorLeak
    BY DEF IInv, TypeOK
  <2>2. \A f \in Fds : fdt[f] = "free" \/ f = fd_
    BY <2>1 DEF NoDescriptorLeak
  <2> QED BY <2>1, <2>2, FdsAssumption DEF Released, NoFd
<1>2. PICK f \in Fds : \A g \in Fds : f <= g
  BY FdsAssumption, LeastNumber
<1>3. f \in LowestFree(Released)
  BY <1>1, <1>2 DEF LowestFree
<1> QED BY <1>3

\* Closing a socket opens nothing.  (Close() in Connect())
LEMMA NoFileAfterClose ==
    ASSUME IInv, \A f \in Fds : fdt[f] # "file"
    PROVE  \A f \in Fds : Released[f] # "file"
BY DEF Released, IInv, TypeOK

(***************************************************************************)
(* The steps of a session.                                                 *)
(***************************************************************************)

\* A step of the VideoSink that runs no callback.
LEMMA LibKeepsClean ==
    ASSUME CamTypes, CamClean, Running, life' = life,
           UNCHANGED <<fixedVars, ready, mpc, kpc, streamVars, status>>,
           tpc # "callback", tpc' # "callback",
           peer' = peer \/ (~opened /\ peer' # "closed"),
           acked' = (acked /\ peer' = "open"), opened' = (opened /\ peer' = "open"),
           \A f \in Fds : fdt'[f] # "file",
           mpc = "connect" => cpc' = "idle" /\ owed' = <<>>,
           Leads(CommandOrder, Seen, inbox', Sent)
    PROVE  CamClean'
<1>1. opened' = opened /\ (opened => acked' /\ peer' = "open")
  BY DEF CamTypes, CamClean
<1>2. Seen' = Seen /\ Sent' = Sent
  BY <1>1 DEF Seen, Sent, streamVars
<1>3. Leads(CommandOrder, Seen, inbox, Sent)'
  BY <1>2
<1>4. mpc' = "connect" => cpc' = "idle" /\ owed' = <<>> /\ ~acked'
  BY DEF CamTypes, CamClean
<1> QED BY <1>1, <1>3, <1>4 DEF CamClean, streamVars

\* The talker.
LEMMA TalkerKeepsClean ==
    ASSUME ~torn', Fds # {}, IInv, CamTypes, CamClean, LibStep(TalkerLib)
    PROVE  CamClean'
<1>0. /\ Running /\ life = "live" /\ tpc # "callback" /\ Seen \in {"fresh", "begun"}
      /\ inbox \in Seq(Packets) /\ fdt \in [Fds -> {"free", "sock", "file"}] /\ peer \in {"none", "open"}
  BY DEF LibStep, TalkerLib, TalkerWhile, ConnectSocket, ConnectThrows, ConnectResult, Setup,
         PollTimeout, PollIn, PollFail, RecvHeader, RecvHeaderFails, HandleCapability, HandleAck,
         HandleCmd, BodyOf, Running, CamClean, IInv, TypeOK, Seen
<1>1. /\ UNCHANGED <<fixedVars, ready, mpc, kpc, streamVars>>
      /\ acked' = (acked /\ peer' = "open") /\ opened' = (opened /\ peer' = "open")
      /\ life' = life => status' = status
  BY <1>0 DEF LibStep
<1>2. /\ \A f \in Fds : fdt[f] # "file"
      /\ mpc = "connect" => cpc = "idle" /\ owed = <<>>
      /\ Leads(CommandOrder, Seen, inbox, Sent)
  BY DEF CamClean
<1>3. CASE TalkerWhile \/ PollTimeout \/ PollIn
  <2>1. tpc' # "callback" /\ UNCHANGED <<life, peer, fdt, cpc, owed, inbox>>
    BY <1>3 DEF TalkerWhile, PollTimeout, PollIn, LoopCheck, sockVars, linkVars
  <2> QED BY <1>0, <1>1, <1>2, <2>1, LibKeepsClean
<1>4. CASE ConnectSocket
  <2>1. tpc' # "callback" /\ UNCHANGED <<life, peer, cpc, owed, inbox>>
    BY <1>4 DEF ConnectSocket, linkVars
  <2>2. PICK f \in Fds : fdt' = [Released EXCEPT ![f] = "sock"]
    BY <1>4 DEF ConnectSocket, LowestFree
  <2>3. \A g \in Fds : Released[g] # "file"
    BY <1>2, NoFileAfterClose
  <2>4. DOMAIN Released = Fds
    BY <1>0 DEF Released
  <2>5. \A g \in Fds : fdt'[g] # "file"
    BY <2>2, <2>3, <2>4
  <2> QED BY <1>0, <1>1, <1>2, <2>1, <2>5, LibKeepsClean
<1>5. CASE ConnectThrows
  BY <1>2, <1>5, DescriptorFree DEF ConnectThrows
<1>6. CASE ConnectResult
  <2>1. /\ tpc' # "callback" /\ UNCHANGED <<life, fdt, cpc, owed, inbox>>
        /\ peer' = peer \/ peer' = "open"
    BY <1>6 DEF ConnectResult
  <2>2. ~opened
    BY <1>6, NoErrorPath DEF CamClean
  <2>3. peer' = peer \/ (~opened /\ peer' # "closed")
    BY <2>1, <2>2
  <2> QED BY <1>0, <1>1, <1>2, <2>1, <2>3, LibKeepsClean
<1>7. CASE Setup
  <2>1. /\ tpc' # "callback" /\ UNCHANGED <<life, peer, fdt, owed, inbox>>
        /\ cpc = "idle" => cpc' = "idle"
    BY <1>7 DEF Setup, sockVars, linkVars
  <2>2. mpc = "connect" => cpc' = "idle" /\ owed' = <<>>
    BY <1>2, <2>1
  <2> QED BY <1>0, <1>1, <1>2, <2>1, <2>2, LibKeepsClean
<1>8. CASE PollFail \/ RecvHeaderFails
  <2>1. Close /\ tpc' # "callback" /\ UNCHANGED <<life, cpc>>
    BY <1>8 DEF PollFail, RecvHeaderFails, Short, LoopCheck
  <2>2. peer # "open"
    BY <1>8, NoErrorPath
  <2>3. ~opened /\ spc = "none" /\ Seen = "fresh" /\ Sent = "fresh"
    BY <1>0, <2>2 DEF CamClean, Seen, Sent
  <2>4. peer' = "none" /\ inbox' = <<>> /\ owed' = <<>> /\ fdt' = Released
    BY <2>1 DEF Close
  <2>5. Leads(CommandOrder, Seen, inbox', Sent)
    BY <2>3, <2>4, LeadsNowhere
  <2>6. \A g \in Fds : fdt'[g] # "file"
    BY <1>2, <2>4, NoFileAfterClose
  <2>7. mpc = "connect" => cpc' = "idle" /\ owed' = <<>>
    BY <1>2, <2>1, <2>4
  <2>8. peer' = peer \/ (~opened /\ peer' # "closed")
    BY <2>3, <2>4
  <2> QED BY <1>0, <1>1, <2>1, <2>5, <2>6, <2>7, <2>8, LibKeepsClean
<1>9. ASSUME inbox # <<>>, inbox' = Tail(inbox), Head(inbox).type # "CAMERA_CONFIG"
      PROVE  Leads(CommandOrder, Seen, inbox', Sent)
  <2>1. PICK q, a, b : q = inbox /\ a = Seen /\ b = Sent
    OBVIOUS
  <2>2. Leads(CommandOrder, a, Tail(q), b)
    BY <1>0, <1>2, <1>9, <2>1, ReadsCommand
  <2> QED BY <1>9, <2>1, <2>2
<1>10. CASE RecvHeader
  <2>1. /\ inbox # <<>> /\ UNCHANGED <<life, peer, fdt, cpc, owed>> /\ tpc' # "callback"
        /\ inbox' = inbox \/ (inbox' = Tail(inbox) /\ Head(inbox).type # "CAMERA_CONFIG")
    BY <1>10 DEF RecvHeader, LoopCheck, sockVars
  <2>2. Leads(CommandOrder, Seen, inbox', Sent)
    BY <1>2, <1>9, <2>1
  <2> QED BY <1>0, <1>1, <1>2, <2>1, <2>2, LibKeepsClean
<1>a. CASE HandleCapability \/ HandleAck \/ HandleCmd
  <2>1. tpc = "recvBody" /\ inbox # <<>> /\ peer = "open" /\ ~HandlerFails
    <3>1. tpc = "recvBody"
      BY <1>a DEF HandleCapability, HandleAck, HandleCmd, BodyOf
    <3>2. inbox # <<>> /\ peer = "open"
      BY <1>0, <3>1 DEF IInv, InboxState
    <3> QED BY <3>1, <3>2, NoErrorPath
  <2>2. CASE HandleCapability \/ HandleAck
    <3>1. /\ UNCHANGED <<life, peer, fdt, owed>> /\ tpc' # "callback" /\ NotifyOne
          /\ inbox' = Tail(inbox) /\ Head(inbox).type # "CAMERA_CONFIG"
      BY <2>1, <2>2 DEF HandleCapability, HandleAck, BodyOf, BodyRead, LoopCheck, sockVars
    <3>2. cpc = "idle" => cpc' = "idle"
      BY <3>1 DEF NotifyOne
    <3>3. mpc = "connect" => cpc' = "idle" /\ owed' = <<>>
      BY <1>2, <3>1, <3>2
    <3>4. Leads(CommandOrder, Seen, inbox', Sent)
      BY <1>9, <2>1, <3>1
    <3> QED BY <1>0, <1>1, <1>2, <3>1, <3>3, <3>4, LibKeepsClean
  <2>3. CASE HandleCmd
    <3>1. /\ UNCHANGED <<life, peer, fdt, owed, cpc>> /\ tpc' = "callback"
          /\ inbox' = Tail(inbox) /\ Head(inbox).type = "CAMERA_CONFIG" /\ cmd' = Head(inbox).body
      BY <2>1, <2>3 DEF HandleCmd, BodyOf, BodyRead, sockVars
    <3>2. PICK q, a, b : q = inbox /\ a = Seen /\ b = Sent
      OBVIOUS
    <3>3. /\ Head(q).body = (IF a = "fresh" THEN "OPEN" ELSE "CLOSE")
          /\ Leads(CommandOrder, "begun", Tail(q), b) /\ b = "begun"
      BY <1>0, <1>2, <2>1, <3>1, <3>2, ReadsCommand
    <3>4. opened /\ acked /\ peer' = "open" /\ acked' = TRUE /\ opened' = TRUE
      BY <1>1, <2>1, <3>1, <3>2, <3>3 DEF Sent, CamClean
    <3>5. Leads(CommandOrder, Seen, inbox, Sent)'
      <4>1. Seen' = "begun" /\ Sent' = "begun"
        BY <3>1, <3>4 DEF Seen, Sent
      <4> QED BY <3>1, <3>2, <3>3, <4>1
    <3>6. cmd' = (IF spc' = "none" THEN "OPEN" ELSE "CLOSE")
      BY <1>0, <1>1, <3>1, <3>2, <3>3 DEF Seen, streamVars
    <3>7. mpc' = "connect" => cpc' = "idle" /\ owed' = <<>> /\ ~acked'
      BY <1>1, <3>4 DEF CamClean
    <3> QED BY <1>1, <2>1, <3>1, <3>4, <3>5, <3>6, <3>7 DEF CamClean, streamVars
  <2> QED BY <1>a, <2>2, <2>3
<1> QED BY <1>3, <1>4, <1>5, <1>6, <1>7, <1>8, <1>10, <1>a DEF LibStep, TalkerLib

\* What the client's own threads leave alone.
LinkSame == UNCHANGED <<life, tpc, cmd, fdt, peer, inbox, acked, opened>>

\* main.  A request goes out only once video_sink is assigned.
LEMMA MainKeepsClean ==
    ASSUME IInv, CamTypes, CamClean, Main
    PROVE  CamClean'
<1>1. ASSUME LinkSame, UNCHANGED <<spc, sink>>, status' = status,
             mpc' # "connect" => ready', mpc' = "connect" => mpc = "connect" /\ UNCHANGED <<cpc, owed>>
      PROVE  CamClean'
  <2>1. Leads(CommandOrder, Seen, inbox, Sent)'
    BY <1>1 DEF CamClean, LinkSame, Seen, Sent
  <2> QED BY <1>1, <2>1 DEF CamClean, LinkSame
<1> USE DEF MainOnly, LinkSame, streamVars
<1>2. CASE MainReady \/ MainConnected
  <2>1. LinkSame /\ UNCHANGED <<spc, sink, status, cpc, owed>>
    BY <1>2 DEF MainReady, MainConnected, vars, talkerVars, sockVars, linkVars
  <2>2. mpc' # "connect" => ready'
    BY <1>2 DEF MainReady, MainConnected, CamClean
  <2>3. mpc' = "connect" => mpc = "connect"
    BY <1>2 DEF MainReady, MainConnected
  <2> QED BY <1>1, <2>1, <2>2, <2>3
<1>3. CASE MainGet \/ MainSet \/ MainInCall
  <2>1. ~SendKilled
    BY DEF SendKilled, CamClean
  <2>2. ControlLocal /\ UNCHANGED <<peer, inbox>> /\ Running
    BY <1>3, <2>1 DEF MainGet, MainSet, MainInCall, GetRequest, SetHeader, InCall, GetWait,
       GetReturn, SetInfo, SetWait, SendOk, SendFails, linkVars, Running
  <2>3. mpc # "connect" /\ mpc' # "connect" /\ ready' = ready
    BY <1>3 DEF MainGet, MainSet, MainInCall, InCall, GetWait, GetReturn, SetInfo, SetWait, CamClean
  <2>4. UNCHANGED <<acked, opened, spc, sink>> /\ Fate
    BY <1>3 DEF MainGet, MainSet, MainInCall
  <2>5. LinkSame /\ status' = status
    BY <2>2, <2>4 DEF ControlLocal, sockVars, Fate, Running
  <2>6. ready'
    BY <2>3 DEF CamClean
  <2> QED BY <1>1, <2>3, <2>4, <2>5, <2>6
<1> QED BY <1>2, <1>3 DEF Main

\* The callback: a streamer is started once, with a sink, and one is joined.
LEMMA CallbackKeepsClean ==
    ASSUME IInv, CamTypes, CamClean, CamCallback
    PROVE  CamClean'
<1>1. CASE CamOpen
  <2>1. tpc = "callback" /\ cmd = "OPEN"
    BY <1>1 DEF CamOpen, Called
  <2>2. spc = "none" /\ opened /\ acked /\ ready = TRUE
    BY <2>1 DEF CamClean, CamTypes
  <2>3. /\ spc' = "file" /\ sink' = TRUE /\ tpc' # "callback" /\ UNCHANGED <<life, fdt, peer, inbox>>
        /\ UNCHANGED <<ready, mpc, status, acked, opened, cpc, owed>>
    BY <1>1, <2>2 DEF CamOpen, CallbackReturn, LoopCheck, sockVars, linkVars
  <2>4. Seen' = Seen /\ Sent' = Sent
    BY <2>1, <2>3 DEF Seen, Sent
  <2>5. Leads(CommandOrder, Seen, inbox, Sent)'
    BY <2>3, <2>4 DEF CamClean
  <2> QED BY <2>2, <2>3, <2>5 DEF CamClean
<1>2. CASE CamClose
  <2>1. spc # "none"
    BY <1>2 DEF CamClose, Called, CamClean
  <2>2. UNCHANGED <<life, tpc, cmd, fdt, peer, inbox, cpc, owed, ready, mpc, spc, sink, status,
                    acked, opened>>
    BY <1>2, <2>1 DEF CamClose, vars, talkerVars, sockVars, linkVars
  <2>3. Leads(CommandOrder, Seen, inbox, Sent)'
    BY <2>2 DEF CamClean, Seen, Sent
  <2> QED BY <2>2, <2>3 DEF CamClean
<1>3. CASE CamJoined
  <2>1. /\ life' = "dead" /\ status' = "exit0"
        /\ UNCHANGED <<tpc, cmd, fdt, peer, inbox, cpc, owed, ready, mpc, spc, sink, acked, opened>>
    BY <1>3 DEF CamJoined, Exits, Crash, sockVars, linkVars, streamVars
  <2>2. Leads(CommandOrder, Seen, inbox, Sent)'
    BY <2>1 DEF CamClean, Seen, Sent
  <2> QED BY <2>1, <2>2 DEF CamClean
<1>4. CASE CamUnknown
  BY <1>4 DEF CamUnknown, Called, CamClean
<1> QED BY <1>1, <1>2, <1>3, <1>4 DEF CamCallback

\* The streamer: every packet goes out.
LEMMA StreamerKeepsClean ==
    ASSUME IInv, CamTypes, CamClean, orderly, CamStreamer
    PROVE  CamClean'
<1>1. ASSUME spc # "none", LinkSame, UNCHANGED <<ready, mpc, sink>>, status' = status,
             spc' \notin {"none", "failed"}
      PROVE  CamClean'
  <2>1. Seen' = Seen /\ Sent' = Sent
    BY <1>1 DEF Seen, Sent, LinkSame
  <2>2. Leads(CommandOrder, Seen, inbox, Sent)'
    BY <1>1, <2>1 DEF CamClean, LinkSame
  <2>3. mpc' # "connect"
    BY <1>1 DEF CamClean
  <2> QED BY <1>1, <2>2, <2>3 DEF CamClean, LinkSame
<1> USE DEF StreamerOnly
<1>2. CASE CamFile \/ CamLoop
  <2>1. /\ spc # "none" /\ spc' \notin {"none", "failed"} /\ UNCHANGED <<ready, mpc, sink, status>>
        /\ UNCHANGED <<vars, acked, opened>>
    BY <1>2 DEF CamFile, CamLoop
  <2>2. LinkSame
    BY <2>1 DEF LinkSame, vars, talkerVars, sockVars, linkVars
  <2> QED BY <1>1, <2>1, <2>2
<1>3. CASE CamSend \/ CamSent
  <2>1. spc # "none" /\ sink /\ peer = "open"
    BY <1>3 DEF CamSend, CamSent, CamClean
  <2>2. ~SendKilled /\ ~SendFails
    BY <2>1 DEF SendKilled, SendFails
  <2>3. DataLocal /\ UNCHANGED <<peer, inbox>> /\ Running /\ spc' \notin {"none", "failed"}
    BY <1>3, <2>1, <2>2 DEF CamSend, CamSent, SendDataHeader, SendDataPayload, SendOk, Running
  <2>4. UNCHANGED <<ready, mpc, sink, acked, opened>> /\ Fate
    BY <1>3, <2>1, Zenon DEF CamSend, CamSent
  <2>5. LinkSame /\ status' = status
    BY <2>3, <2>4 DEF DataLocal, sockVars, Fate, Running, LinkSame
  <2> QED BY <1>1, <2>1, <2>3, <2>4, <2>5
<1>4. CASE CamFailed
  BY <1>4 DEF CamFailed, CamClean
<1> QED BY <1>2, <1>3, <1>4 DEF CamStreamer

\* The vHAL: a reply is no command, and commands come in order.
LEMMA VhalKeepsClean ==
    ASSUME IInv, CamTypes, CamClean, orderly, CamVhalReply \/ CamVhalCommand
    PROVE  CamClean'
<1>0. /\ inbox \in Seq(Packets) /\ owed \in Seq(Replies) /\ Sent \in {"fresh", "begun"}
      /\ Leads(CommandOrder, Seen, inbox, Sent)
  BY DEF IInv, TypeOK, Sent, CamClean
<1>1. ASSUME NEW p \in Packets, inbox' = Append(inbox, p), UNCHANGED <<tpc, spc>>,
             <<Sent, p, Sent'>> \in CommandOrder
      PROVE  Leads(CommandOrder, Seen, inbox, Sent)'
  <2>1. PICK q, a, b, c : q = inbox /\ a = Seen /\ b = Sent /\ c = Sent'
    OBVIOUS
  <2>2. q \in Seq(Packets) /\ Leads(CommandOrder, a, q, b) /\ <<b, p, c>> \in CommandOrder
    BY <1>0, <1>1, <2>1
  <2>3. Leads(CommandOrder, a, Append(q, p), c)
    BY <2>2, LeadsByAppend
  <2>4. Seen' = Seen
    BY <1>1 DEF Seen
  <2> QED BY <1>1, <2>1, <2>3, <2>4
<1>2. CASE CamVhalReply
  <2> DEFINE p == [type |-> Head(owed), body |-> "ok"]
  <2>1. /\ owed # <<>> /\ inbox' = Append(inbox, p)
        /\ UNCHANGED <<life, tpc, cmd, fdt, peer, cpc, ready, mpc, spc, sink, status, opened>>
        /\ acked' = (acked \/ Head(owed) = "ACK")
    BY <1>2 DEF CamVhalReply, VhalReply, Unmoved, talkerVars, sockVars, streamVars
  <2>2. Head(owed) \in Replies
    BY <1>0, <2>1, HeadTailProperties
  <2>3. p \in Packets /\ p.type # "CAMERA_CONFIG"
    BY <2>2 DEF Packets, Replies
  <2>4. Sent' = Sent
    BY <2>1 DEF Sent
  <2>5. <<Sent, p, Sent'>> \in CommandOrder
    <3> HIDE DEF p
    <3> QED BY <1>0, <2>3, <2>4, CommandStep
  <2>6. Leads(CommandOrder, Seen, inbox, Sent)'
    BY <1>1, <2>1, <2>3, <2>5
  <2>7. mpc # "connect"
    BY <2>1 DEF CamClean
  <2> QED BY <2>1, <2>6, <2>7 DEF CamClean
<1>3. CASE CamVhalCommand
  <2>1. PICK p \in Packets : /\ inbox' = Append(inbox, p)
                             /\ p.type = "CAMERA_CONFIG" \/ (p.type = "OTHER" /\ p.body = "ok")
    <3>1. \/ \E c \in Commands : inbox' = Append(inbox, [type |-> "CAMERA_CONFIG", body |-> c])
          \/ inbox' = Append(inbox, [type |-> "OTHER", body |-> "ok"])
      BY <1>3 DEF CamVhalCommand, VhalCommand
    <3>2. CASE inbox' = Append(inbox, [type |-> "OTHER", body |-> "ok"])
      <4>1. PICK p : p = [type |-> "OTHER", body |-> "ok"]
        OBVIOUS
      <4>2. p \in Packets /\ p.type = "OTHER" /\ p.body = "ok" /\ inbox' = Append(inbox, p)
        BY <3>2, <4>1 DEF Packets
      <4> QED BY <4>2
    <3>3. CASE \E c \in Commands : inbox' = Append(inbox, [type |-> "CAMERA_CONFIG", body |-> c])
      <4>1. PICK c \in Commands : inbox' = Append(inbox, [type |-> "CAMERA_CONFIG", body |-> c])
        BY <3>3
      <4>2. PICK p : p = [type |-> "CAMERA_CONFIG", body |-> c]
        OBVIOUS
      <4>3. p \in Packets /\ p.type = "CAMERA_CONFIG" /\ inbox' = Append(inbox, p)
        BY <4>1, <4>2 DEF Packets
      <4> QED BY <4>3
    <3> QED BY <3>1, <3>2, <3>3
  <2>2. inbox'[Len(inbox')] = p
    BY <1>0, <2>1, AppendProperties, LenProperties
  <2>3. /\ UNCHANGED <<life, tpc, cmd, fdt, peer, owed, cpc, ready, mpc, spc, sink, status, acked>>
        /\ InOrder(p) /\ opened' = (opened \/ p.body = "OPEN") /\ peer = "open"
    BY <1>3, <2>2 DEF CamVhalCommand, VhalCommand, Unmoved, talkerVars, sockVars, streamVars
  <2>4. <<Sent, p, Sent'>> \in CommandOrder
    <3>1. CASE p.type = "OTHER"
      <4>1. opened' = opened
        BY <2>1, <2>3, <3>1 DEF CamTypes
      <4>2. Sent' = Sent /\ p.type # "CAMERA_CONFIG"
        BY <3>1, <4>1 DEF Sent
      <4> QED BY <1>0, <4>2, CommandStep
    <3>2. CASE p.type = "CAMERA_CONFIG"
      <4>1. p.body = IF opened THEN "CLOSE" ELSE "OPEN"
        BY <2>3, <3>2 DEF InOrder
      <4>2. Sent' = "begun" /\ p.body = (IF Sent = "fresh" THEN "OPEN" ELSE "CLOSE")
        BY <2>3, <4>1 DEF Sent
      <4> QED BY <1>0, <3>2, <4>2, CommandStep
    <3> QED BY <2>1, <3>1, <3>2
  <2>5. Leads(CommandOrder, Seen, inbox, Sent)'
    BY <1>1, <2>1, <2>3, <2>4
  <2>6. acked
    BY <2>3 DEF InOrder
  <2>7. spc' # "none" \/ tpc' = "callback" => opened'
    BY <2>3 DEF CamClean
  <2> QED BY <2>3, <2>5, <2>6, <2>7 DEF CamClean
<1> QED BY <1>2, <1>3

\* Every step of the client, the VideoSink or the vHAL keeps the invariant.
LEMMA CamInvStep ==
    ASSUME Fds # {}, IInv, CamInv, [CamNext]_camVars
    PROVE  CamInv'
<1>0. CamTypes /\ (CamSession => CamClean) /\ ndrops \in Nat
  BY BoundAssumption DEF CamInv, IInv, TypeOK
<1>1. [Next]_vars
  BY CamStepIsLibStep DEF camVars
<1>2. UNCHANGED <<kind, orderly>>
  <2> USE DEF fixedVars
  <2>1. CASE CamTalker
    BY <2>1 DEF CamTalker, LibStep, CamCallback, CamOpen, CamClose, CamJoined, CamUnknown, Exits
  <2>2. CASE Main
    BY <2>2 DEF Main, MainReady, MainConnected, MainGet, MainSet, MainInCall, MainOnly
  <2>3. CASE CamStreamer
    BY <2>3 DEF CamStreamer, CamFile, CamLoop, CamSend, CamSent, CamFailed, Exits, StreamerOnly
  <2>4. CASE CamVhalReply \/ CamVhalCommand \/ LibStep(VhalDrop) \/ LibStep(VhalUp)
    BY <2>4 DEF CamVhalReply, CamVhalCommand, LibStep
  <2>5. CASE UNCHANGED camVars \/ AppStep(Next)
    BY <2>5 DEF camVars, clientVars, AppStep
  <2> QED BY <2>1, <2>2, <2>3, <2>4, <2>5 DEF CamNext, CameraStep, CamTerminated
<1>3. CamTypes'
  <2>1. CASE CamTalker
    BY <1>0, <1>2, <2>1 DEF CamTalker, LibStep, CamCallback, CamOpen, CamClose, CamJoined,
       CamUnknown, Exits, streamVars, CamTypes
  <2>2. CASE Main
    BY <1>0, <1>2, <2>2 DEF Main, MainReady, MainConnected, MainGet, MainSet, MainInCall, MainOnly,
       streamVars, CamTypes
  <2>3. CASE CamStreamer
    BY <1>0, <1>2, <2>3 DEF CamStreamer, CamFile, CamLoop, CamSend, CamSent, CamFailed, Exits,
       StreamerOnly, streamVars, CamTypes
  <2>4. CASE CamVhalReply \/ CamVhalCommand \/ LibStep(VhalDrop) \/ LibStep(VhalUp)
    BY <1>0, <1>2, <2>4 DEF CamVhalReply, CamVhalCommand, LibStep, streamVars, CamTypes
  <2>5. CASE UNCHANGED camVars \/ AppStep(Next)
    BY <1>0, <1>2, <2>5 DEF camVars, clientVars, streamVars, AppStep, CamTypes
  <2> QED BY <2>1, <2>2, <2>3, <2>4, <2>5 DEF CamNext, CameraStep, CamTerminated
<1>4. ASSUME CamSession' PROVE CamClean'
  <2>1. CamSession /\ ~torn' /\ ndrops' = 0 /\ ndrops = 0
    BY <1>1, <1>2, <1>4, UndisturbedBefore DEF CamSession, Undisturbed
  <2>2. CamClean /\ orderly /\ kind = "camera"
    BY <1>0, <2>1 DEF CamSession
  <2>3. CASE CamTalker
    BY <1>0, <2>1, <2>2, <2>3, TalkerKeepsClean, CallbackKeepsClean DEF CamTalker
  <2>4. CASE Main
    BY <1>0, <2>2, <2>4, MainKeepsClean
  <2>5. CASE CamStreamer
    BY <1>0, <2>2, <2>5, StreamerKeepsClean
  <2>6. CASE CamVhalReply \/ CamVhalCommand
    BY <1>0, <2>2, <2>6, VhalKeepsClean
  <2>7. CASE LibStep(VhalDrop)
    <3>1. ndrops' = ndrops + 1
      BY <2>7 DEF LibStep, VhalDrop
    <3> QED BY <1>0, <2>1, <3>1
  <2>8. CASE LibStep(VhalUp)
    <3>1. /\ Running /\ UNCHANGED <<life, tpc, cmd, fdt, cpc, peer, inbox, owed>>
          /\ UNCHANGED <<ready, mpc, spc, sink>>
          /\ status' = (IF life' = "dead" THEN "terminated" ELSE status)
          /\ acked' = (acked /\ peer' = "open") /\ opened' = (opened /\ peer' = "open")
      BY <2>8 DEF LibStep, VhalUp, Unmoved, talkerVars, sockVars, linkVars, streamVars
    <3>2. opened' = opened /\ (opened => acked') /\ (acked' => acked) /\ status' = status
      BY <1>0, <2>2, <3>1 DEF CamTypes, CamClean, Running
    <3>3. Leads(CommandOrder, Seen, inbox, Sent)'
      BY <2>2, <3>1, <3>2 DEF CamClean, Seen, Sent
    <3> QED BY <2>2, <3>1, <3>2, <3>3 DEF CamClean
  <2>9. CASE UNCHANGED camVars
    <3>1. UNCHANGED <<life, tpc, cmd, fdt, cpc, peer, inbox, owed, ready, mpc, spc, sink, status,
                      acked, opened>>
      BY <2>9 DEF camVars, vars, clientVars, talkerVars, sockVars, linkVars, streamVars
    <3>2. Leads(CommandOrder, Seen, inbox, Sent)'
      BY <2>2, <3>1 DEF CamClean, Seen, Sent
    <3> QED BY <2>2, <3>1, <3>2 DEF CamClean
  <2>10. CASE AppStep(Next)
    BY <2>2, <2>10 DEF AppStep
  <2> QED BY <2>3, <2>4, <2>5, <2>6, <2>7, <2>8, <2>9, <2>10 DEF CamNext, CameraStep, CamTerminated
<1> QED BY <1>3, <1>4 DEF CamInv

\* For every number of commands and every size of the descriptor table but
\* zero: with a vHAL that opens after the exchange and then closes, and a
\* connection that lasts, camera_client.cc runs on or calls exit(0).  In
\* particular the streamer's copy of video_sink is never null, although the
\* callback may run before main has assigned it.  (the callback's switch,
\* main's calls and file_src_thread)
THEOREM CameraSessionsClean ==
    ASSUME Fds # {}
    PROVE  CamSpec => []CameraSessionClean
<1>1. CamInit => CamInv
  <2> SUFFICES ASSUME CamInit PROVE CamInv
    OBVIOUS
  <2>1. CamTypes
    BY DEF CamInit, CamTypes
  <2>2. Seen = "fresh" /\ Sent = "fresh" /\ inbox = <<>> /\ \A f \in Fds : fdt[f] # "file"
    BY DEF CamInit, Init, Seen, Sent
  <2>3. Leads(CommandOrder, Seen, inbox, Sent)
    BY <2>2, LeadsNowhere
  <2>4. CamClean
    BY <2>2, <2>3 DEF CamClean, CamInit, Init
  <2> QED BY <2>1, <2>4 DEF CamInv
<1>2. IInv /\ CamInv /\ [CamNext]_camVars => CamInv'
  BY CamInvStep, Zenon
<1>3. CamInv => CameraSessionClean
  BY DEF CamInv, CamSession, CamClean, CameraSessionClean
<1> QED BY <1>1, <1>2, <1>3, CamImplementsVideoSink, Invariance, PTL DEF CamSpec

\* The callback of the sample client, and of any application, gets its commands
\* as CommandLink says, up to the suffix that a lost connection takes with it.
\* (the lambda in camera_client.cc)
THEOREM CamDelivers == CamSpec => DeliversCommands
BY CamImplementsVideoSink, VideoSinkDelivers, PTL
=============================================================================
