----------------------------- MODULE HostProofs -----------------------------
(***************************************************************************)
(* The camera server uses the VideoSink as the VideoSink's specification   *)
(* allows, so what is proved of the VideoSink holds in the server; and the *)
(* hand-over of the camera between callback and streamer is safe for any   *)
(* number of commands and drops.                                           *)
(***************************************************************************)
EXTENDS HostCameraServer, VideoSinkProofs

(***************************************************************************)
(* The server implements the VideoSink's specification.                    *)
(***************************************************************************)

\* What the callback does to the VideoSink is nothing until it returns.
LEMMA CallbackIsLibStep ==
    ASSUME Callback
    PROVE  CallbackReturn \/ ClientFault \/ UNCHANGED vars
<1> USE DEF InCallback, Running, CallbackDone, CallbackReturn, HostCrash, ClientFault
<1>1. CASE CbOpen \/ CbClose \/ CbWait \/ CbSpuriousWake
  BY <1>1 DEF CbOpen, CbClose, CbWait, CbSpuriousWake
<1>2. CASE CbNone
  BY <1>2 DEF CbNone
<1>3. CASE CbRelease
  BY <1>3 DEF CbRelease
<1>4. CASE CbJoin
  BY <1>4 DEF CbJoin
<1>5. CASE CbStart
  BY <1>5 DEF CbStart
<1> QED BY <1>1, <1>2, <1>3, <1>4, <1>5 DEF Callback

\* Every step of the server is a step of the VideoSink or none.
LEMMA HostStepIsLibStep == HostNext => [Next]_vars
<1> SUFFICES ASSUME HostNext PROVE [Next]_vars
  OBVIOUS
<1>1. CASE HostTalker
  BY <1>1, CallbackIsLibStep DEF HostTalker, LibStep, Next, Talker
<1>2. CASE InitCamera
  BY <1>2 DEF InitCamera, InitReset, InitGet, InitSet, LibStep, Next
<1>3. CASE Streamer
  BY <1>3 DEF Streamer, StCheck, StRead, StSend, StSent, StExit, HostCrash, ClientFault, Running, Next
<1>4. CASE MainReady
  BY <1>4 DEF MainReady
<1>5. CASE LibStep(SpuriousWake) \/ LibStep(ForeignOpen) \/ LibStep(ForeignClose)
             \/ LibStep(VhalDrop) \/ LibStep(VhalUp) \/ HostVhalReply \/ HostVhalCommand
  BY <1>5 DEF LibStep, HostVhalReply, HostVhalCommand, Next, Environment, Vhal
<1>6. CASE HostTerminated
  BY <1>6 DEF HostTerminated, allVars
<1> QED BY <1>1, <1>2, <1>3, <1>4, <1>5, <1>6 DEF HostNext

\* The camera server implements the VideoSink with a client that obeys its
\* rules.  (host_camera_server.cc as a client of VideoSink)
THEOREM HostImplementsVideoSink == HostSpec => Spec
<1>1. HostInit => Init
  BY DEF HostInit
<1>2. [HostNext]_allVars => [Next]_vars
  BY HostStepIsLibStep DEF allVars
<1> QED BY <1>1, <1>2, PTL DEF HostSpec, Spec

\* So the server keeps no descriptor it does not use either.  (the camera
\* server's use of Connect() and Close())
THEOREM HostDescriptorsKept == HostSpec => []NoDescriptorLeak
BY HostImplementsVideoSink, DescriptorsKept, PTL

(***************************************************************************)
(* The hand-over between callback and streamer.                            *)
(***************************************************************************)

Points == {"entry", "stopped", "waiting", "signalled", "join", "start"}

HostInv == CallbackPhases /\ count \in Nat /\ kpc \in Points

\* open_close_count changes parity with each count.
LEMMA ParityFlips == \A n \in Nat : IsOdd(n + 1) <=> ~IsOdd(n)
BY DEF IsOdd

\* Before the first command the camera is shut.
LEMMA HostInitInv == HostInit => HostInv
BY DEF HostInit, HostInv, CallbackPhases, CameraShut, IsOdd, Points

\* Each step of the callback leads from one phase to the next.
LEMMA CallbackKeepsPhases ==
    ASSUME HostInv, Callback
    PROVE  HostInv'
<1> USE DEF HostInv, Points, CallbackPhases, CameraOpen, CameraShut, Gone, StreamerUp, InCallback
<1>1. CASE CbOpen
  BY <1>1 DEF CbOpen, vars, talkerVars
<1>2. CASE CbClose
  BY <1>2 DEF CbClose, vars, talkerVars
<1>3. CASE CbNone
  BY <1>3 DEF CbNone, CallbackDone
<1>4. CASE CbWait
  BY <1>4 DEF CbWait, vars, talkerVars
<1>5. CASE CbRelease
  BY <1>5 DEF CbRelease, vars, talkerVars, HostCrash, Crash, hostVars, callbackVars
<1>6. CASE CbJoin
  BY <1>6, ParityFlips DEF CbJoin, CallbackDone, vars, talkerVars
<1>7. CASE CbStart
  BY <1>7, ParityFlips DEF CbStart, CallbackDone, HostCrash, Crash, hostVars, callbackVars
<1>8. CASE CbSpuriousWake
  BY <1>8 DEF CbSpuriousWake, vars, talkerVars
<1> QED BY <1>1, <1>2, <1>3, <1>4, <1>5, <1>6, <1>7, <1>8 DEF Callback

\* Each step of the streamer stays within the phase, but for its signal.
LEMMA StreamerKeepsPhases ==
    ASSUME HostInv, Streamer
    PROVE  HostInv'
<1> USE DEF HostInv, Points, CallbackPhases, CameraOpen, CameraShut, Gone, StreamerUp, callbackVars
<1>1. CASE StCheck
  BY <1>1 DEF StCheck, vars, talkerVars
<1>2. CASE StRead
  BY <1>2 DEF StRead, vars, talkerVars, HostCrash, Crash, hostVars
<1>3. CASE StSend
  BY <1>3 DEF StSend, SendDataHeader, DataLocal, HostCrash, Crash, hostVars
<1>4. CASE StSent
  BY <1>4 DEF StSent, SendDataPayload, DataLocal, Crash
<1>5. CASE StExit
  BY <1>5 DEF StExit, vars, talkerVars
<1> QED BY <1>1, <1>2, <1>3, <1>4, <1>5 DEF Streamer

\* A step that leaves the callback's variables, the streamer, tpc and cmd alone.
LEMMA PhasesUntouched ==
    ASSUME HostInv, UNCHANGED <<callbackVars, spc>>,
           kpc = "entry" \/ UNCHANGED <<tpc, cmd>>
    PROVE  HostInv'
BY DEF HostInv, CallbackPhases, CameraOpen, CameraShut, Gone, StreamerUp, callbackVars

\* Every step of the server keeps the phases.
LEMMA HostNextInv ==
    ASSUME HostInv, [HostNext]_allVars
    PROVE  HostInv'
<1>1. CASE Callback
  BY <1>1, CallbackKeepsPhases
<1>2. CASE Streamer
  BY <1>2, StreamerKeepsPhases
<1>3. CASE LibStep(TalkerLib)
  <2>1. tpc # "callback"
    BY <1>3 DEF LibStep, TalkerLib, TalkerWhile, ConnectSocket, ConnectThrows, ConnectResult,
                Setup, PollTimeout, PollIn, PollFail, RecvHeader, RecvHeaderFails,
                HandleCapability, HandleAck, HandleCmd, BodyOf
  <2>2. kpc = "entry"
    BY <2>1 DEF HostInv, CallbackPhases
  <2> QED BY <1>3, <2>2, PhasesUntouched DEF LibStep
<1>4. CASE InitCamera
  BY <1>4, PhasesUntouched
     DEF InitCamera, InitReset, InitGet, InitSet, LibStep, ResetCameraCapabilty, GetRequest,
         SetHeader, InCall, GetWait, GetReturn, SetInfo, SetWait, ControlLocal, Crash
<1>5. CASE LibStep(SpuriousWake) \/ LibStep(ForeignOpen) \/ LibStep(ForeignClose)
             \/ LibStep(VhalDrop) \/ LibStep(VhalUp) \/ HostVhalReply \/ HostVhalCommand
  BY <1>5, PhasesUntouched
     DEF LibStep, SpuriousWake, ControlLocal, ForeignOpen, ForeignClose, VhalDrop, VhalUp,
         HostVhalReply, VhalReply, HostVhalCommand, VhalCommand, Unmoved, talkerVars, hostVars
<1>6. CASE MainReady \/ UNCHANGED allVars
  BY <1>6, PhasesUntouched DEF MainReady, allVars, vars, talkerVars, hostVars
<1> QED
  BY <1>1, <1>2, <1>3, <1>4, <1>5, <1>6 DEF HostNext, HostTalker, HostTerminated

\* The phases hold for ever.
LEMMA HostInvariance == HostSpec => []HostInv
<1>1. HostInit => HostInv
  BY HostInitInv
<1>2. HostInv /\ [HostNext]_allVars => HostInv'
  BY HostNextInv
<1> QED BY <1>1, <1>2, PTL DEF HostSpec

\* Whatever the vHAL commands, however often it drops and even if condition
\* waits return by themselves, parity, lock, flag, camera and streamer agree
\* at each point of the callback.  (the CMD_OPEN and CMD_CLOSE cases of the
\* callback)
THEOREM PhasesHold == HostSpec => []CallbackPhases
<1>1. HostInv => CallbackPhases
  BY DEF HostInv
<1> QED BY <1>1, HostInvariance, PTL

\* Hence the streamer never uses a camera that the callback has freed, unless
\* the callback's wait returned without a signal and the join is still to
\* come.  (stream_ctx in file_src_thread and in the callback)
THEOREM NeverUsedAfterFree == HostSpec => []NoUseAfterFree
<1>1. HostInv => NoUseAfterFree
  BY DEF HostInv, Points, CallbackPhases, NoUseAfterFree, CameraOpen, CameraShut, Gone
<1> QED BY <1>1, HostInvariance, PTL

(***************************************************************************)
(* Before main has assigned video_sink the vHAL has heard nothing, and     *)
(* commands nothing when it waits for the exchange.                        *)
(***************************************************************************)
Silent ==
    ~ready => /\ cpc = "idle" /\ ipc = "reset" /\ spc = "none" /\ kpc = "entry"
              /\ ~acked /\ owed = <<>> /\ inbox = <<>>
              /\ tpc \notin {"recvBody", "callback"}

(***************************************************************************)
(* A session: the first connection, as long as it lasts.  The exchange     *)
(* comes before the ack, the frames come after it, and a second exchange   *)
(* waits for a signal that only a new connection gives.                    *)
(***************************************************************************)
Connecting == tpc \in {"while", "socket", "connecting", "setup"}

\* InitCamera is before its first call or in it; after the exchange, its
\* next round stands at the same two points
AtReset == (cpc = "idle" /\ ipc = "reset") \/ (cpc = "resetWaiting" /\ ipc = "get")

\* what the next call of InitCamera is during each of its calls
InitPhases ==
    /\ cpc = "resetWaiting" => ipc = "get"
    /\ cpc \in {"getSent", "getWaiting", "getWoken"} => ipc = "set"
    /\ cpc \in {"setHdr", "setSent", "setWaiting"} => ipc = "reset"

NoCommand(q) == \A i \in 1..Len(q) : q[i].type # "CAMERA_CONFIG"

Exchanging ==
    /\ spc = "none" /\ tpc # "callback" /\ NoCommand(inbox)
    /\ frame = IF cpc = "setHdr" THEN "info" ELSE "hdr"

Streaming ==
    /\ AtReset \/ cpc \in {"setSent", "setWaiting"}
    /\ frame = IF dpc = "pay" THEN "data" ELSE "hdr"

Session ==
    /\ life \in {"live", "dead"} /\ peer # "closed" /\ acked \in BOOLEAN
    /\ Connecting => AtReset /\ ~acked
    /\ ~Connecting \/ tpc = "setup" => peer = "open"
    /\ InitPhases
    /\ dpc = "pay" <=> spc = "sending"
    /\ IF acked THEN Streaming ELSE Exchanging

FirstSession == Undisturbed => Session

\* Before the assignment: the constructor's talker connects and waits.
LEMMA HostNextSilent ==
    ASSUME OpenAfterAck = TRUE, Silent, [HostNext]_allVars
    PROVE  Silent'
<1>1. CASE ready
  <2>1. CASE HostTalker
    BY <1>1, <2>1 DEF HostTalker, LibStep, Callback, CbOpen, CbClose, CbNone, CbWait,
       CbSpuriousWake, CbRelease, CbJoin, CbStart, HostCrash, hostVars, Silent
  <2>2. CASE InitCamera \/ Streamer \/ MainReady
    BY <1>1, <2>2 DEF InitCamera, InitReset, InitGet, InitSet, LibStep, Streamer, StCheck, StRead,
       StSend, StSent, StExit, MainReady, HostCrash, hostVars, Silent
  <2>3. CASE \/ LibStep(SpuriousWake) \/ LibStep(ForeignOpen) \/ LibStep(ForeignClose)
             \/ LibStep(VhalDrop) \/ LibStep(VhalUp) \/ HostVhalReply \/ HostVhalCommand
             \/ UNCHANGED allVars
    BY <1>1, <2>3 DEF LibStep, HostVhalReply, HostVhalCommand, allVars, hostVars, Silent
  <2> QED BY <2>1, <2>2, <2>3 DEF HostNext, HostTerminated
<1>2. CASE ~ready
  <2>0. /\ cpc = "idle" /\ ipc = "reset" /\ spc = "none" /\ kpc = "entry"
        /\ ~acked /\ owed = <<>> /\ inbox = <<>>
        /\ tpc \notin {"recvBody", "callback"}
    BY <1>2 DEF Silent
  <2>1. CASE LibStep(TalkerLib)
    <3>1. UNCHANGED <<ipc, spc, kpc>> /\ ~acked'
      BY <2>0, <2>1 DEF LibStep, callbackVars
    <3>2. CASE TalkerWhile \/ ConnectSocket \/ ConnectThrows \/ ConnectResult \/ Setup
                 \/ PollTimeout \/ PollIn
      BY <2>0, <3>1, <3>2 DEF TalkerWhile, ConnectSocket, ConnectThrows, Crash, ConnectResult,
         Setup, PollTimeout, PollIn, LoopCheck, linkVars, Silent
    <3>3. CASE PollFail \/ RecvHeaderFails
      BY <2>0, <3>1, <3>3 DEF PollFail, RecvHeaderFails, Short, LoopCheck, Close, Silent
    <3>4. ~RecvHeader /\ ~HandleCapability /\ ~HandleAck /\ ~HandleCmd
      BY <2>0 DEF RecvHeader, HandleCapability, HandleAck, HandleCmd, BodyOf
    <3> QED BY <2>1, <3>2, <3>3, <3>4 DEF LibStep, TalkerLib
  <2>2. ~Callback /\ ~Streamer /\ ~InitCamera
    <3>1. ~Callback
      BY <2>0 DEF Callback, CbOpen, CbClose, CbNone, CbWait, CbSpuriousWake, CbRelease, CbJoin,
                  CbStart, InCallback
    <3>2. ~Streamer
      BY <2>0 DEF Streamer, StCheck, StRead, StSend, StSent, StExit
    <3>3. ~InitCamera
      BY <1>2, <2>0 DEF InitCamera, InitReset, InitGet, InitSet, LibStep, InCall, GetWait,
                        GetReturn, SetInfo, SetWait
    <3> QED BY <3>1, <3>2, <3>3
  <2>3. CASE MainReady
    BY <2>3 DEF MainReady, Silent
  <2>4. ~LibStep(SpuriousWake) /\ ~HostVhalReply /\ ~HostVhalCommand
    BY <2>0 DEF LibStep, SpuriousWake, HostVhalReply, VhalReply, HostVhalCommand
  <2>5. CASE LibStep(ForeignOpen) \/ LibStep(ForeignClose) \/ LibStep(VhalUp)
    BY <2>0, <2>5 DEF LibStep, ForeignOpen, ForeignClose, VhalUp, Unmoved, talkerVars, linkVars,
                      callbackVars, Silent
  <2>6. CASE LibStep(VhalDrop)
    <3>1. PICK n \in (IF tpc = "recvBody" THEN 1 ELSE 0)..Len(inbox), isCut \in BOOLEAN :
            inbox' = Remains(n, isCut)
      BY <2>6 DEF LibStep, VhalDrop
    <3>2. n = 0
      BY <2>0, <3>1
    <3>3. inbox' = <<>>
      BY <2>0, <3>1, <3>2 DEF Remains
    <3> QED BY <2>0, <2>6, <3>3 DEF LibStep, VhalDrop, Unmoved, talkerVars, callbackVars, Silent
  <2>7. CASE UNCHANGED allVars
    BY <2>7 DEF allVars, vars, talkerVars, linkVars, hostVars, callbackVars, Silent
  <2> QED BY <2>1, <2>2, <2>3, <2>4, <2>5, <2>6, <2>7 DEF HostNext, HostTalker, HostTerminated
<1> QED BY <1>1, <1>2

\* With a vHAL that commands after the exchange only, the streamer finds
\* video_sink assigned: main's assignment comes before the exchange, and
\* the exchange before the first command.  Through any number of drops, with
\* short reads and with spurious wakeups.  (make_shared<VideoSink> in main and
\* video_sink->SendDataPacket in file_src_thread)
THEOREM SinkAssignedFirst ==
    ASSUME OpenAfterAck = TRUE
    PROVE  HostSpec => []StreamsThroughAssignedSink
<1>1. HostInit => Silent
  BY DEF HostInit, Init, Silent
<1>2. Silent /\ [HostNext]_allVars => Silent'
  BY HostNextSilent, Zenon
<1>3. Silent => StreamsThroughAssignedSink
  BY DEF Silent, StreamsThroughAssignedSink
<1> QED BY <1>1, <1>2, <1>3, PTL DEF HostSpec

\* Packets that are no commands, read and added.
LEMMA NoCommandKept ==
    ASSUME NEW q \in Seq(Packets), NoCommand(q)
    PROVE  /\ q # <<>> => NoCommand(Tail(q)) /\ Head(q).type # "CAMERA_CONFIG"
           /\ \A p : p.type # "CAMERA_CONFIG" => NoCommand(Append(q, p))
<1>1. ASSUME q # <<>> PROVE NoCommand(Tail(q)) /\ Head(q).type # "CAMERA_CONFIG"
  <2>1. /\ Len(q) \in Nat /\ 1 \in 1..Len(q) /\ Head(q) = q[1] /\ Len(Tail(q)) = Len(q) - 1
        /\ \A i \in 1..Len(Tail(q)) : Tail(q)[i] = q[i + 1]
    BY <1>1, HeadTailProperties, LenProperties, EmptySeq
  <2>2. \A i \in 1..Len(Tail(q)) : i + 1 \in 1..Len(q)
    BY <2>1
  <2> QED BY <2>1, <2>2 DEF NoCommand
<1>2. ASSUME NEW p, p.type # "CAMERA_CONFIG" PROVE NoCommand(Append(q, p))
  <2> DEFINE s == Append(q, p)
  <2>1. /\ Len(q) \in Nat /\ Len(s) = Len(q) + 1 /\ s[Len(q) + 1] = p
        /\ \A i \in 1..Len(q) : s[i] = q[i]
    BY LenProperties
  <2>2. \A i \in 1..Len(s) : i \in 1..Len(q) \/ i = Len(q) + 1
    BY <2>1
  <2> HIDE DEF s
  <2>3. NoCommand(s)
    BY <1>2, <2>1, <2>2 DEF NoCommand
  <2> QED BY <2>3 DEF s
<1> QED BY <1>1, <1>2

\* A fault of the process, and steps that change nothing of the session.
LEMMA SessionUntouched ==
    ASSUME Session, life' \in {life, "dead"},
           UNCHANGED <<tpc, cpc, dpc, peer, inbox, frame, ipc, spc, acked>>
    PROVE  Session'
BY DEF Session, Connecting, AtReset, InitPhases, Exchanging, Streaming, NoCommand

\* The talker.
LEMMA TalkerInSession ==
    ASSUME ~torn', IInv, Accounts, Session, LibStep(TalkerLib)
    PROVE  Session'
<1> USE DEF Connecting
<1>0. /\ UNCHANGED <<ipc, spc>> /\ acked' = (acked /\ peer' = "open")
      /\ acked => peer = "open"
      /\ acked \in BOOLEAN
  BY DEF LibStep, Session
<1>1. CASE TalkerWhile
  <2>1. UNCHANGED <<life, cpc, dpc, peer, inbox, frame>> /\ life = "live" /\ Connecting
        /\ tpc' \in {"socket", "setup"} /\ (tpc' = "setup" => connected_)
    BY <1>1 DEF TalkerWhile, linkVars, Running, Session
  <2>2. ~acked /\ ~acked'
    BY <1>0, <2>1 DEF Session
  <2>3. tpc' = "setup" => peer = "open"
    BY <2>1 DEF Session, IInv, TypeOK, LinkState
  <2> QED BY <1>0, <2>1, <2>2, <2>3
          DEF Session, AtReset, InitPhases, Exchanging, NoCommand
<1>2. CASE ConnectThrows
  <2>1. life' = "dead" /\ UNCHANGED <<tpc, cpc, dpc, peer, inbox, frame>>
    BY <1>2 DEF ConnectThrows, Crash, linkVars
  <2>2. acked' = acked
    BY <1>0, <2>1
  <2> QED BY <1>0, <2>1, <2>2, SessionUntouched
<1>3. CASE ConnectSocket \/ ConnectResult
  <2>1. /\ UNCHANGED <<life, cpc, dpc, inbox, frame>> /\ Connecting
        /\ tpc' \in {"connecting", "setup", "while"} /\ peer' \in {peer, "open"}
        /\ tpc' = "setup" => peer' = "open"
    BY <1>3 DEF ConnectSocket, ConnectResult, linkVars
  <2>2. ~acked /\ ~acked'
    BY <1>0, <2>1 DEF Session
  <2> QED BY <1>0, <2>1, <2>2
          DEF Session, AtReset, InitPhases, Exchanging, NoCommand
<1>4. CASE Setup
  <2>1. /\ UNCHANGED <<life, dpc, peer, inbox, frame>> /\ tpc = "setup" /\ tpc' = "poll"
        /\ cpc' = IF cpc = "resetWaiting" THEN "idle" ELSE cpc
    BY <1>4 DEF Setup, linkVars
  <2>2. AtReset /\ ~acked /\ ~acked'
    BY <1>0, <2>1 DEF Session
  <2>3. peer = "open"
    BY <2>1 DEF Session
  <2> QED BY <1>0, <2>1, <2>2, <2>3
          DEF Session, AtReset, InitPhases, Exchanging, NoCommand
<1>5. CASE tpc \notin {"while", "socket", "connecting", "setup"}
  <2>1. peer = "open" /\ life \in {"live", "dead"}
    BY <1>5 DEF Session
  <2>2. ~PollFail /\ ~RecvHeaderFails /\ ~(tpc = "recvBody" /\ HandlerFails)
    BY <2>1, NoErrorPath
  <2>3. CASE PollTimeout \/ PollIn
    <3>1. UNCHANGED <<life, cpc, dpc, peer, inbox, frame>> /\ tpc' \in {"poll", "recvHdr"}
      BY <2>1, <2>3 DEF PollTimeout, PollIn, LoopCheck, Running, linkVars
    <3> QED BY <1>0, <1>5, <2>1, <3>1
            DEF Session, AtReset, InitPhases, Exchanging, Streaming, NoCommand
  <2>4. CASE RecvHeader
    <3>1. /\ UNCHANGED <<life, cpc, dpc, peer, frame>> /\ tpc' \in {"poll", "recvBody"}
          /\ inbox # <<>> /\ inbox' \in {inbox, Tail(inbox)}
      BY <2>1, <2>4 DEF RecvHeader, LoopCheck, Running
    <3>2. NoCommand(inbox) => NoCommand(inbox')
      BY <3>1, NoCommandKept DEF IInv, TypeOK
    <3> HIDE DEF Connecting
    <3>3. ~Connecting /\ ~Connecting'
      BY <1>5, <3>1 DEF Connecting
    <3> QED BY <1>0, <1>5, <2>1, <3>1, <3>2, <3>3
            DEF Session, AtReset, InitPhases, Exchanging, Streaming
  <2>5. CASE HandleCapability \/ HandleAck
    <3>1. /\ UNCHANGED <<life, dpc, peer, frame, owed>> /\ tpc = "recvBody" /\ tpc' = "poll"
          /\ inbox' = Tail(inbox) /\ NotifyOne
          /\ HandleAck => Head(inbox).type = "ACK"
      BY <2>1, <2>2, <2>5 DEF HandleCapability, HandleAck, BodyOf, BodyRead, LoopCheck, Running
    <3>2. inbox # <<>> /\ inbox \in Seq(Packets)
      BY <3>1 DEF IInv, TypeOK, InboxState
    <3>3. NoCommand(inbox) => NoCommand(inbox')
      BY <3>1, <3>2, NoCommandKept
    <3>4. /\ cpc' = "setHdr" <=> cpc = "setHdr"
          /\ InitPhases => InitPhases'
          /\ AtReset \/ cpc \in {"setSent", "setWaiting"} => AtReset' \/ cpc' = "setSent"
             \/ (cpc' = "idle" /\ cpc = "setWaiting")
      BY <1>0, <3>1 DEF NotifyOne, InitPhases, AtReset
    <3> HIDE DEF Connecting
    <3>5. ~Connecting /\ ~Connecting'
      BY <1>5, <3>1 DEF Connecting
    <3>6. InitPhases
      BY DEF Session
    <3>7. cpc' = "idle" /\ cpc = "setWaiting" => AtReset'
      BY <1>0, <3>6 DEF InitPhases, AtReset
    <3> QED BY <1>0, <2>1, <3>1, <3>3, <3>4, <3>5, <3>7
            DEF Session, Exchanging, Streaming
  <2>6. CASE HandleCmd
    <3>1. /\ UNCHANGED <<life, dpc, cpc, peer, frame, owed>> /\ tpc = "recvBody"
          /\ tpc' = "callback" /\ Head(inbox).type = "CAMERA_CONFIG"
      BY <2>2, <2>6 DEF HandleCmd, BodyOf, BodyRead
    <3>2. inbox # <<>> /\ inbox \in Seq(Packets)
      BY <3>1 DEF IInv, TypeOK, InboxState
    <3>3. acked /\ acked'
      BY <1>0, <2>1, <3>1, <3>2, NoCommandKept DEF Session, Exchanging
    <3> QED BY <1>0, <1>5, <2>1, <3>1, <3>3 DEF Session, AtReset, InitPhases, Streaming
  <2> QED BY <1>5, <2>2, <2>3, <2>4, <2>5, <2>6 DEF LibStep, TalkerLib, TalkerWhile,
        ConnectSocket, ConnectThrows, ConnectResult, Setup, HandleCapability, HandleAck, HandleCmd, BodyOf
<1> QED BY <1>1, <1>2, <1>3, <1>4, <1>5 DEF LibStep, TalkerLib, PollTimeout, PollIn, PollFail,
        RecvHeader, RecvHeaderFails, HandleCapability, HandleAck, HandleCmd, BodyOf

\* What the parser makes of the chunks a session sends.
LEMMA SessionChunks ==
    /\ Framing("hdr", "REQUEST") = "hdr" /\ Framing("hdr", "INFO") = "info"
    /\ Framing("info", "info") = "hdr"
    /\ Framing("hdr", "DATA") = "data" /\ Framing("data", "data") = "hdr"
BY DEF Framing

\* InitCamera: it sends between the reset and the ack only.
LEMMA InitInSession ==
    ASSUME IInv, Session, InitCamera
    PROVE  Session'
<1>1. CASE InitReset
  <2>1. /\ UNCHANGED <<life, tpc, dpc, peer, inbox, frame, spc, acked>>
        /\ cpc = "idle" /\ ipc = "reset" /\ cpc' = "resetWaiting" /\ ipc' = "get"
    BY <1>1 DEF InitReset, ResetCameraCapabilty, ControlLocal, linkVars
  <2> QED BY <2>1
          DEF Session, Connecting, AtReset, InitPhases, Exchanging, Streaming, NoCommand
<1>2. CASE InitGet
  <2>1. cpc = "idle" /\ ipc = "get" /\ ipc' = "set" /\ UNCHANGED <<spc, acked>>
    BY <1>2 DEF InitGet, GetRequest
  <2>2. ~Connecting /\ ~acked /\ peer = "open"
    BY <2>1 DEF Session, AtReset, Streaming
  <2>3. /\ UNCHANGED <<life, tpc, dpc, peer, inbox>> /\ cpc' = "getSent"
        /\ frame' = Framing(frame, "REQUEST")
    BY <1>2, <2>2 DEF InitGet, GetRequest, SendOk, SendFails, SendKilled, ControlLocal
  <2>4. frame = "hdr" /\ frame' = "hdr"
    BY <2>1, <2>2, <2>3, SessionChunks DEF Session, Exchanging
  <2> QED BY <2>1, <2>2, <2>3, <2>4
          DEF Session, Connecting, InitPhases, Exchanging, NoCommand
<1>3. CASE InitSet
  <2>1. cpc = "idle" /\ ipc = "set" /\ ipc' = "reset" /\ UNCHANGED <<spc, acked>>
    BY <1>3 DEF InitSet, SetHeader
  <2>2. ~Connecting /\ ~acked /\ peer = "open"
    BY <2>1 DEF Session, AtReset, Streaming
  <2>3. /\ UNCHANGED <<life, tpc, dpc, peer, inbox>> /\ cpc' = "setHdr"
        /\ frame' = Framing(frame, "INFO")
    BY <1>3, <2>2 DEF InitSet, SetHeader, SendOk, SendFails, SendKilled, ControlLocal
  <2>4. frame = "hdr" /\ frame' = "info"
    BY <2>1, <2>2, <2>3, SessionChunks DEF Session, Exchanging
  <2> QED BY <2>1, <2>2, <2>3, <2>4
          DEF Session, Connecting, InitPhases, Exchanging, NoCommand
<1>4. CASE LibStep(InCall)
  <2>0. /\ UNCHANGED <<ipc, spc>> /\ acked' = (acked /\ peer' = "open")
        /\ acked \in BOOLEAN /\ (acked => peer = "open")
    BY <1>4 DEF LibStep, Session
  <2>1. CASE GetWait \/ GetReturn \/ SetWait
    <3>1. /\ UNCHANGED <<life, tpc, dpc, peer, inbox, frame>>
          /\ \/ cpc = "getSent" /\ cpc' = "getWaiting"
             \/ cpc = "getWoken" /\ cpc' = "idle"
             \/ cpc = "setSent" /\ cpc' = "setWaiting"
      BY <2>1 DEF GetWait, GetReturn, SetWait, ControlLocal, linkVars
    <3>2. acked' = acked
      BY <2>0, <3>1
    <3> QED BY <2>0, <3>1, <3>2
            DEF Session, Connecting, AtReset, InitPhases, Exchanging, Streaming, NoCommand
  <2>2. CASE SetInfo
    <3>1. cpc = "setHdr"
      BY <2>2 DEF SetInfo
    <3>2. ~Connecting /\ ~acked /\ peer = "open"
      BY <3>1 DEF Session, AtReset, Streaming
    <3>3. /\ UNCHANGED <<life, tpc, dpc, peer, inbox>> /\ cpc' = "setSent"
          /\ frame' = Framing(frame, "info")
      BY <2>2, <3>2 DEF SetInfo, SendOk, SendFails, SendKilled, ControlLocal
    <3>4. frame = "info" /\ frame' = "hdr" /\ ~acked'
      BY <2>0, <3>1, <3>2, <3>3, SessionChunks DEF Session, Exchanging
    <3> QED BY <2>0, <3>1, <3>2, <3>3, <3>4
            DEF Session, Connecting, InitPhases, Exchanging, NoCommand
  <2> QED BY <1>4, <2>1, <2>2 DEF LibStep, InCall
<1> QED BY <1>1, <1>2, <1>3, <1>4 DEF InitCamera

\* The callback runs once the camera info is acked.
LEMMA CallbackInSession ==
    ASSUME IInv, Session, Callback
    PROVE  Session'
<1>0. tpc = "callback" /\ life = "live"
  BY DEF Callback, CbOpen, CbClose, CbNone, CbWait, CbSpuriousWake, CbRelease, CbJoin, CbStart,
         InCallback
<1>1. acked /\ peer = "open" /\ ~Connecting
  BY <1>0 DEF Session, Exchanging, Connecting
<1>2. UNCHANGED <<ipc, acked>>
  BY DEF Callback, CbOpen, CbClose, CbNone, CbWait, CbSpuriousWake, CbRelease, CbJoin, CbStart,
         HostCrash, hostVars
<1>3. CASE CallbackReturn \/ UNCHANGED vars
  <2>1. UNCHANGED <<life, cpc, dpc, peer, inbox, frame>> /\ tpc' \in {"callback", "poll"}
    BY <1>0, <1>3 DEF CallbackReturn, LoopCheck, vars, talkerVars, linkVars
  <2>2. spc' = "sending" <=> spc = "sending"
    BY <1>0, <1>3 DEF Callback, CbOpen, CbClose, CbNone, CbWait, CbSpuriousWake, CbRelease, CbJoin,
       CbStart, HostCrash, hostVars
  <2> QED BY <1>0, <1>1, <1>2, <2>1, <2>2 DEF Session, Connecting, AtReset, InitPhases, Streaming
<1>4. CASE ClientFault /\ ~CallbackReturn /\ ~UNCHANGED vars
  <2>1. UNCHANGED <<tpc, cpc, dpc, peer, inbox, frame>> /\ life' = "dead"
    BY <1>4 DEF ClientFault, Crash, linkVars
  <2>2. spc' = spc
    <3>1. ~CallbackDone
      BY <1>0, <1>4 DEF CallbackDone, CallbackReturn, Running
    <3> QED BY <1>4, <3>1 DEF Callback, CbOpen, CbClose, CbNone, CbWait, CbSpuriousWake, CbRelease,
               CbJoin, CbStart, HostCrash, hostVars
  <2> QED BY <1>2, <2>1, <2>2, SessionUntouched
<1> QED BY <1>3, <1>4, CallbackIsLibStep

\* The streamer sends frames after the ack only.
LEMMA StreamerInSession ==
    ASSUME IInv, Session, Streamer
    PROVE  Session'
<1>0. /\ acked /\ ~Connecting /\ peer = "open" /\ UNCHANGED <<ipc, acked>>
      /\ frame = IF dpc = "pay" THEN "data" ELSE "hdr"
  <2>1. spc # "none" /\ UNCHANGED <<ipc, acked>>
    BY DEF Streamer, StCheck, StRead, StSend, StSent, StExit, HostCrash, hostVars
  <2>2. acked
    BY <2>1 DEF Session, Exchanging
  <2> QED BY <2>1, <2>2 DEF Session, Streaming
<1>1. CASE StCheck \/ StRead \/ StExit
  <2>1. /\ life' \in {life, "dead"} /\ UNCHANGED <<tpc, cpc, dpc, peer, inbox, frame>>
        /\ spc # "sending" /\ spc' # "sending"
    BY <1>1 DEF StCheck, StRead, StExit, HostCrash, Crash, hostVars, vars, talkerVars, linkVars
  <2> QED BY <1>0, <2>1 DEF Session, Connecting, AtReset, InitPhases, Streaming
<1>2. CASE StSend
  <2>1. CASE HostCrash
    BY <2>1, SessionUntouched DEF HostCrash, Crash, linkVars, hostVars
  <2>2. CASE ~HostCrash
    <3>1. /\ UNCHANGED <<life, tpc, cpc, peer, inbox>> /\ dpc = "idle" /\ dpc' = "pay"
          /\ spc' = "sending" /\ frame' = Framing(frame, "DATA")
      BY <1>0, <1>2, <2>2 DEF StSend, SendDataHeader, SendOk, SendFails, SendKilled, DataLocal
    <3>2. frame' = "data"
      BY <1>0, <3>1, SessionChunks
    <3> QED BY <1>0, <3>1, <3>2 DEF Session, Connecting, AtReset, InitPhases, Streaming
  <2> QED BY <2>1, <2>2
<1>3. CASE StSent
  <2>1. /\ UNCHANGED <<life, tpc, cpc, peer, inbox>> /\ dpc = "pay" /\ dpc' = "idle"
        /\ spc' = "check" /\ frame' = Framing(frame, "data")
    BY <1>0, <1>3 DEF StSent, SendDataPayload, SendOk, SendFails, SendKilled, DataLocal
  <2>2. frame' = "hdr"
    BY <1>0, <2>1, SessionChunks
  <2> QED BY <1>0, <2>1, <2>2 DEF Session, Connecting, AtReset, InitPhases, Streaming
<1> QED BY <1>1, <1>2, <1>3 DEF Streamer

\* The vHAL: its ack ends the exchange, and its commands come after it.
LEMMA VhalInSession ==
    ASSUME OpenAfterAck = TRUE, IInv, Accounts, Session, HostVhalReply \/ HostVhalCommand
    PROVE  Session'
<1>0. inbox \in Seq(Packets)
  BY DEF IInv, TypeOK
<1>1. CASE HostVhalReply
  <2> DEFINE p == [type |-> Head(owed), body |-> "ok"]
  <2>1. /\ UNCHANGED <<life, tpc, cpc, dpc, peer, frame, ipc, spc>> /\ owed # <<>>
        /\ inbox' = Append(inbox, p) /\ acked' = (acked \/ Head(owed) = "ACK")
    BY <1>1 DEF HostVhalReply, VhalReply, Unmoved, talkerVars
  <2>2. /\ Head(owed) \in Replies
        /\ Head(owed) = "ACK" => cpc \in {"setSent", "setWaiting"}
    <3>1. cpc \in {"idle", "resetWaiting", "getSent", "getWaiting", "getWoken",
                   "setHdr", "setSent", "setWaiting"}
      BY DEF IInv, TypeOK
    <3>2. CASE cpc \in {"getSent", "getWaiting"}
      BY <2>1, <3>2 DEF Accounts, Awaits, Replies
    <3>3. CASE cpc \in {"setSent", "setWaiting"}
      BY <2>1, <3>3 DEF Accounts, Awaits, Replies
    <3> QED BY <2>1, <3>1, <3>2, <3>3 DEF Accounts
  <2>3. p.type # "CAMERA_CONFIG"
    BY <2>2 DEF Replies
  <2> HIDE DEF p
  <2>4. NoCommand(inbox) => NoCommand(inbox')
    BY <1>0, <2>1, <2>3, NoCommandKept
  <2>5. CASE acked
    <3>1. acked'
      BY <2>1, <2>5
    <3> QED BY <2>1, <2>5, <3>1 DEF Session, Connecting, AtReset, InitPhases, Streaming
  <2>6. CASE ~acked /\ Head(owed) = "ACK"
    <3>1. acked' /\ cpc \in {"setSent", "setWaiting"}
      BY <2>1, <2>2, <2>6
    <3>2. ~Connecting /\ dpc # "pay" /\ frame = "hdr"
      BY <2>6, <3>1 DEF Session, AtReset, Exchanging
    <3> QED BY <2>1, <3>1, <3>2 DEF Session, Connecting, InitPhases, Streaming
  <2>7. CASE ~acked /\ Head(owed) # "ACK"
    <3>1. ~acked'
      BY <2>1, <2>7
    <3> QED BY <2>1, <2>4, <2>7, <3>1 DEF Session, Connecting, AtReset, InitPhases, Exchanging
  <2> QED BY <2>5, <2>6, <2>7
<1>2. CASE HostVhalCommand
  <2>1. /\ UNCHANGED <<life, tpc, cpc, dpc, peer, frame, ipc, spc, acked>> /\ acked
    BY <1>2 DEF HostVhalCommand, VhalCommand, Unmoved, talkerVars, hostVars
  <2> QED BY <2>1 DEF Session, Connecting, AtReset, InitPhases, Streaming
<1> QED BY <1>1, <1>2

\* As long as the connection is not lost, every step stays within the session.
LEMMA HostNextSession ==
    ASSUME Spurious = FALSE, OpenAfterAck = TRUE,
           IInv, Accounts, FirstSession, [HostNext]_allVars
    PROVE  FirstSession'
<1> SUFFICES ASSUME Undisturbed' PROVE Session'
  BY DEF FirstSession
<1>1. Undisturbed /\ Session
  BY HostStepIsLibStep, UndisturbedBefore DEF FirstSession, allVars
<1>2. Session /\ ~torn' /\ ndrops = 0 /\ ndrops' = 0
  BY <1>1 DEF Undisturbed
<1>3. CASE HostTalker
  BY <1>2, <1>3, TalkerInSession, CallbackInSession DEF HostTalker
<1>4. CASE InitCamera \/ Streamer
  BY <1>2, <1>4, InitInSession, StreamerInSession
<1>5. CASE HostVhalReply \/ HostVhalCommand
  BY <1>2, <1>5, VhalInSession
<1>6. ~LibStep(SpuriousWake) /\ ~LibStep(VhalDrop)
  BY <1>2 DEF LibStep, SpuriousWake, VhalDrop
<1>7. CASE MainReady \/ UNCHANGED allVars
  BY <1>2, <1>7, SessionUntouched DEF MainReady, allVars, vars, talkerVars, linkVars, hostVars
<1>8. CASE LibStep(ForeignOpen) \/ LibStep(ForeignClose) \/ LibStep(VhalUp)
  <2>1. UNCHANGED <<life, tpc, cpc, dpc, peer, inbox, frame, ipc, spc>>
    BY <1>8 DEF LibStep, ForeignOpen, ForeignClose, VhalUp, Unmoved, talkerVars, linkVars
  <2>2. acked' = acked
    BY <1>2, <1>8, <2>1 DEF LibStep, Session
  <2> QED BY <1>2, <2>1, <2>2, SessionUntouched
<1> QED BY <1>3, <1>4, <1>5, <1>6, <1>7, <1>8, Zenon DEF HostNext, HostTerminated

\* On a connection that lasts, the vHAL finds every header and payload where
\* it expects one, although three threads send without a lock: InitCamera
\* sends before the ack, the streamer after it, and InitCamera's next round
\* waits for a connection that does not come.  With no wait that returns by
\* itself and a vHAL that commands after the exchange, for any number of
\* commands; a drop or a short read ends the connection and the promise.
\* (SendDataPacket next to SendRawPacket)
THEOREM SessionFramesIntact ==
    ASSUME Spurious = FALSE, OpenAfterAck = TRUE
    PROVE  HostSpec => []FramesIntact
<1>1. HostInit => FirstSession
  <2> SUFFICES ASSUME HostInit PROVE Session
    BY DEF FirstSession
  <2>1. ~acked /\ acked \in BOOLEAN
    BY DEF HostInit
  <2>2. NoCommand(<<>>)
    BY DEF NoCommand
  <2>3. Exchanging
    BY <2>2 DEF HostInit, Init, Exchanging
  <2> QED BY <2>1, <2>3 DEF HostInit, Init, Session, Connecting, AtReset, InitPhases
<1>2. IInv /\ Accounts /\ FirstSession /\ [HostNext]_allVars => FirstSession'
  BY HostNextSession, Zenon
<1>3. FirstSession => FramesIntact
  BY DEF FirstSession, Session, Streaming, Exchanging, FramesIntact
<1> QED BY <1>1, <1>2, <1>3, HostImplementsVideoSink, Invariance, RepliesAccounted, PTL
        DEF HostSpec

\* And on that connection GetCameraCapabilty returns to InitCamera what the
\* vHAL sent.
\* (cmd_capability_ in InitCamera's exchange)
THEOREM HostCapabilityIsVhals ==
    ASSUME Spurious = FALSE
    PROVE  HostSpec => []CapabilityFromVhal
BY HostImplementsVideoSink, CapabilityIsVhals, PTL

\* The camera server's callback gets its commands as CommandLink says: those
\* of one connection in order and once each, with a suffix lost when the
\* connection is.  (camera_service_callback)
THEOREM HostDelivers == HostSpec => DeliversCommands
BY HostImplementsVideoSink, VideoSinkDelivers, PTL
=============================================================================
