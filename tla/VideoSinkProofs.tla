-------------------------- MODULE VideoSinkProofs --------------------------
(***************************************************************************)
(* What holds of the VideoSink for every number of descriptors, commands   *)
(* and drops.  The inductive invariant says at which points of the talker  *)
(* the connection can be in which state.                                   *)
(***************************************************************************)
EXTENDS VideoSink, SequenceTheorems, Runs, TLAPS

\* connected_ is the client's view of the connection, and where the talker is
\* bounds what it can be
LinkState ==
    /\ connected_ <=> peer # "none"
    /\ tpc \in {"socket", "connecting"} => ~connected_
    /\ tpc = "while" /\ life = "live" => ~connected_
    /\ tpc = "connecting" => fd_ # NoFd

\* what there is to read
InboxState ==
    /\ peer = "none" => inbox = <<>>
    /\ tpc = "recvHdr" /\ peer = "open" => inbox # <<>>
    /\ tpc = "recvBody" => inbox # <<>>
    /\ peer = "open" => \A i \in 1..Len(inbox) : inbox[i].body # "cut"

IInv == TypeOK /\ NoDescriptorLeak /\ LinkState /\ InboxState

(***************************************************************************)
(* The operators the actions are made of.                                  *)
(***************************************************************************)

\* The vHAL's parser stays within its states and its replies.  (the packet
\* types of video_sink.h)
LEMMA ParserType ==
    ASSUME NEW f \in {"hdr", "info", "data", "bad"},
           NEW c \in {"REQUEST", "INFO", "info", "DATA", "data"}
    PROVE  /\ Framing(f, c) \in {"hdr", "info", "data", "bad"}
           /\ Answer(f, c) \in Seq(Replies)
BY DEF Framing, Answer, Replies

\* A packet that lost its body is a packet.  (a drop between the two writes
\* of the vHAL)
LEMMA CutPacket ==
    ASSUME NEW p \in Packets
    PROVE  [p EXCEPT !.body = "cut"] \in Packets
BY DEF Packets

\* The same within a sequence of packets.
LEMMA CutInSeq ==
    ASSUME NEW s \in Seq(Packets), NEW n \in 1..Len(s)
    PROVE  /\ [s EXCEPT ![n].body = "cut"] \in Seq(Packets)
           /\ Len([s EXCEPT ![n].body = "cut"]) = Len(s)
<1>1. s[n] \in Packets
  BY ElementOfSeq
<1> DEFINE e == [s[n] EXCEPT !.body = "cut"]
<1>2. e \in Packets
  BY <1>1, CutPacket
<1>3. [s EXCEPT ![n].body = "cut"] = [s EXCEPT ![n] = e]
  OBVIOUS
<1> HIDE DEF e
<1> QED BY <1>2, <1>3, ExceptSeq

\* What a drop leaves to read is a sequence of packets, and not empty when it
\* keeps a packet whose header was read.  (recv() after the peer closed)
LEMMA RemainsType ==
    ASSUME inbox \in Seq(Packets), NEW n \in 0..Len(inbox), NEW isCut \in BOOLEAN
    PROVE  /\ Remains(n, isCut) \in Seq(Packets)
           /\ n > 0 => Remains(n, isCut) # <<>>
<1> DEFINE s == SubSeq(inbox, 1, n)
<1>1. s \in Seq(Packets) /\ Len(s) = n
  BY SubSeqProperties
<1>2. CASE isCut /\ n > 0
  <2>1. /\ [s EXCEPT ![n].body = "cut"] \in Seq(Packets)
        /\ Len([s EXCEPT ![n].body = "cut"]) = n
    <3> HIDE DEF s
    <3> QED BY <1>1, <1>2, CutInSeq
  <2>2. Remains(n, isCut) = [s EXCEPT ![n].body = "cut"]
    BY <1>2 DEF Remains
  <2>3. Remains(n, isCut) \in Seq(Packets) /\ Len(Remains(n, isCut)) = n
    BY <2>1, <2>2, Zenon
  <2>4. Remains(n, isCut) # <<>>
    <3> DEFINE r == Remains(n, isCut)
    <3>1. Len(r) > 0
      BY <1>2, <2>3
    <3> HIDE DEF r
    <3>2. r # <<>>
      BY <3>1
    <3> QED BY <3>2 DEF r
  <2> QED BY <2>3, <2>4
<1>3. CASE ~(isCut /\ n > 0)
  BY <1>1, <1>3 DEF Remains
<1> QED BY <1>2, <1>3

(***************************************************************************)
(* Close() and the sends.                                                  *)
(***************************************************************************)

\* Close() releases the descriptor and leaves an unconnected client behind.
LEMMA CloseFacts ==
    ASSUME IInv, Close
    PROVE  /\ fd_' = NoFd /\ connected_' = FALSE /\ peer' = "none" /\ inbox' = <<>>
           /\ frame' = "hdr" /\ owed' = <<>>
           /\ fdt' \in [Fds -> {"free", "sock", "file"}]
           /\ NoDescriptorLeak'
<1>1. /\ fd_' = NoFd /\ connected_' = FALSE /\ peer' = "none" /\ inbox' = <<>>
      /\ frame' = "hdr" /\ owed' = <<>>
  BY DEF Close
<1>2. fdt' \in [Fds -> {"free", "sock", "file"}]
  BY DEF IInv, TypeOK, Close, Released
<1>3. NoDescriptorLeak'
  BY <1>1, FdsAssumption DEF IInv, TypeOK, NoDescriptorLeak, Close, Released, NoFd
<1> QED BY <1>1, <1>2, <1>3

(***************************************************************************)
(* The inductive invariant.                                                *)
(***************************************************************************)

\* The constructor's state satisfies the invariant.
LEMMA InitIInv == Init => IInv
<1> SUFFICES ASSUME Init PROVE IInv
  OBVIOUS
<1>0. connected_ \in BOOLEAN /\ torn \in BOOLEAN
  BY DEF Init
<1>1. TypeOK
  BY <1>0, BoundAssumption DEF Init, TypeOK, Commands
<1>2. NoDescriptorLeak
  BY FdsAssumption DEF Init, NoDescriptorLeak, NoFd
<1>3. LinkState
  BY DEF Init, LinkState
<1>4. InboxState
  BY DEF Init, InboxState
<1> QED BY <1>1, <1>2, <1>3, <1>4 DEF IInv

\* A step of the talker that reads nothing.
LEMMA TalkerMoves ==
    ASSUME IInv,
           TalkerWhile \/ PollTimeout \/ PollIn \/ CallbackReturn \/ Setup
    PROVE  IInv'
<1> USE DEF IInv, TypeOK, NoDescriptorLeak, LinkState, InboxState, LoopCheck
<1>1. CASE TalkerWhile
  BY <1>1 DEF TalkerWhile, sockVars, linkVars, envVars
<1>2. CASE PollTimeout
  BY <1>2 DEF PollTimeout, sockVars, linkVars, envVars
<1>3. CASE PollIn
  BY <1>3 DEF PollIn, Reopened, Stale, sockVars, linkVars, envVars
<1>4. CASE CallbackReturn
  BY <1>4 DEF CallbackReturn, sockVars, linkVars, envVars
<1>5. CASE Setup
  BY <1>5 DEF Setup, sockVars, linkVars, envVars
<1> QED BY <1>1, <1>2, <1>3, <1>4, <1>5

\* Connect(): the old descriptor goes, the new one is the client's.
LEMMA TalkerConnects ==
    ASSUME IInv, ConnectSocket \/ ConnectThrows \/ ConnectResult
    PROVE  IInv'
<1>1. CASE ConnectSocket
  <2>1. PICK f \in LowestFree(Released) :
          fd_' = f /\ fdt' = [Released EXCEPT ![f] = "sock"]
    BY <1>1 DEF ConnectSocket
  <2>2. f \in Fds /\ f # NoFd
    BY <2>1, FdsAssumption DEF LowestFree, NoFd
  <2>3. /\ Released \in [Fds -> {"free", "sock", "file"}]
        /\ \A g \in Fds : Released[g] # "sock"
    BY FdsAssumption DEF IInv, TypeOK, NoDescriptorLeak, Released, NoFd
  <2>4. NoDescriptorLeak' /\ fdt' \in [Fds -> {"free", "sock", "file"}]
    BY <2>1, <2>2, <2>3 DEF NoDescriptorLeak
  <2>a. connected_' \in BOOLEAN
    BY <1>1 DEF ConnectSocket
  <2>5. TypeOK'
    BY <1>1, <2>1, <2>2, <2>4, <2>a DEF ConnectSocket, IInv, TypeOK, linkVars, envVars
  <2>6. LinkState' /\ InboxState'
    BY <1>1, <2>1, <2>2
       DEF ConnectSocket, IInv, TypeOK, LinkState, InboxState, linkVars, envVars
  <2> QED BY <2>4, <2>5, <2>6 DEF IInv
<1>2. CASE ConnectThrows
  BY <1>2 DEF ConnectThrows, Crash, IInv, TypeOK, NoDescriptorLeak, LinkState,
              InboxState, sockVars, linkVars, envVars
<1>3. CASE ConnectResult
  BY <1>3 DEF ConnectResult, IInv, TypeOK, NoDescriptorLeak, LinkState, InboxState, envVars
<1> QED BY <1>1, <1>2, <1>3

\* A step that gives the connection up.
LEMMA TalkerCloses ==
    ASSUME IInv, Close, tpc' \in {"while", "poll", "exited"},
           life' \in {life, "destroyed"}, cap' \in {cap, "partial"}, torn' \in BOOLEAN,
           UNCHANGED <<cmd, pollFd, cpc, dpc, srv, ncmds, ndrops>>
    PROVE  IInv'
<1>1. /\ fd_' = NoFd /\ connected_' = FALSE /\ peer' = "none" /\ inbox' = <<>>
      /\ frame' = "hdr" /\ owed' = <<>>
      /\ fdt' \in [Fds -> {"free", "sock", "file"}]
      /\ NoDescriptorLeak'
  BY CloseFacts
<1>2. connected_' \in BOOLEAN
  BY <1>1
<1>3. TypeOK'
  BY <1>1, <1>2 DEF IInv, TypeOK
<1>4. LinkState'
  BY <1>1 DEF LinkState
<1>5. InboxState'
  BY <1>1 DEF InboxState
<1> QED BY <1>1, <1>3, <1>4, <1>5 DEF IInv

\* A step that gives the connection up, of whichever actor.  (every Close())
LEMMA ClosingSteps ==
    ASSUME IInv, PollFail \/ RecvHeaderFails \/ Join
                   \/ (HandlerFails /\ cap' \in {cap, "partial"})
    PROVE  IInv'
<1>1. /\ Close
      /\ tpc' \in {"while", "poll", "exited"}
      /\ life' \in {life, "destroyed"}
      /\ cap' \in {cap, "partial"}
      /\ UNCHANGED <<cmd, pollFd, cpc, dpc, srv, ncmds, ndrops>>
  BY DEF PollFail, RecvHeaderFails, Join, HandlerFails, Short, LoopCheck, envVars
<1>2. torn' \in BOOLEAN
  BY DEF PollFail, RecvHeaderFails, Join, HandlerFails, Short, envVars, IInv, TypeOK
<1> QED BY <1>1, <1>2, TalkerCloses

\* Reading the body of the packet at the head leaves the rest as it is.
LEMMA BodyReadFacts ==
    ASSUME IInv, inbox # <<>>, inbox' = Tail(inbox), peer' = peer
    PROVE  /\ inbox' \in Seq(Packets)
           /\ peer' = "none" => inbox' = <<>>
           /\ peer' = "open" => \A i \in 1..Len(inbox') : inbox'[i].body # "cut"
<1>1. inbox \in Seq(Packets)
  BY DEF IInv, TypeOK
<1>2. /\ inbox' \in Seq(Packets)
      /\ Len(inbox') = Len(inbox) - 1
      /\ \A i \in 1..Len(inbox') : inbox'[i] = inbox[i + 1]
  BY <1>1, HeadTailProperties
<1>3. \A i \in 1..Len(inbox') : i + 1 \in 1..Len(inbox)
  BY <1>1, <1>2, LenProperties
<1>4. peer' = "open" => \A i \in 1..Len(inbox') : inbox'[i].body # "cut"
  BY <1>2, <1>3 DEF IInv, InboxState
<1>5. peer' = "none" => inbox' = <<>>
  BY DEF IInv, InboxState
<1> QED BY <1>2, <1>4, <1>5

\* The steps of the talker that read.  (RecvPacket and the three handlers)
LEMMA TalkerReads ==
    ASSUME IInv, RecvHeader \/ HandleCapability \/ HandleAck \/ HandleCmd
    PROVE  IInv'
<1>1. CASE RecvHeader
  <2>1. CASE Head(inbox).type = "OTHER"
    <3>1. /\ inbox # <<>> /\ inbox' = Tail(inbox) /\ tpc' = LoopCheck
          /\ UNCHANGED <<life, cmd, pollFd, sockVars, cap, cpc, dpc,
                         peer, frame, owed, envVars>>
      BY <1>1, <2>1 DEF RecvHeader
    <3> QED
      BY <3>1, BodyReadFacts DEF IInv, TypeOK, NoDescriptorLeak, LinkState,
         InboxState, LoopCheck, sockVars, envVars
  <2>2. CASE Head(inbox).type # "OTHER"
    BY <1>1, <2>2 DEF RecvHeader, IInv, TypeOK, NoDescriptorLeak, LinkState,
       InboxState, sockVars, envVars
  <2> QED BY <2>1, <2>2
<1>2. ASSUME BodyRead, tpc = "recvBody", tpc' \in {"poll", "while", "callback"},
             tpc' = "while" => life # "live", cap' \in {cap, "vhal"}, cmd' \in Commands,
             NotifyOne \/ cpc' = cpc, UNCHANGED <<life, pollFd, dpc, envVars>>
      PROVE  IInv'
  <2>1. inbox # <<>> /\ inbox' = Tail(inbox) /\ UNCHANGED <<sockVars, peer, frame, owed>>
    BY <1>2 DEF BodyRead, IInv, InboxState
  <2>2. cpc' \in {"idle", "resetWaiting", "getSent", "getWaiting", "getWoken",
                  "setHdr", "setSent", "setWaiting"}
    BY <1>2 DEF NotifyOne, IInv, TypeOK
  <2>3. TypeOK'
    BY <1>2, <2>1, <2>2, BodyReadFacts DEF IInv, TypeOK, sockVars, envVars
  <2>4. NoDescriptorLeak' /\ LinkState'
    BY <1>2, <2>1 DEF IInv, NoDescriptorLeak, LinkState, sockVars
  <2>5. InboxState'
    BY <1>2, <2>1, BodyReadFacts DEF InboxState
  <2> QED BY <2>3, <2>4, <2>5 DEF IInv
<1>3. cmd \in Commands /\ LoopCheck \in {"poll", "while"}
      /\ (LoopCheck = "while" => life # "live")
  BY DEF IInv, TypeOK, LoopCheck
<1>4. CASE HandleCapability
  BY <1>2, <1>3, <1>4, ClosingSteps DEF HandleCapability, BodyOf
<1>5. CASE HandleAck
  BY <1>2, <1>3, <1>5, ClosingSteps DEF HandleAck, BodyOf
<1>6. CASE HandleCmd
  <2>1. tpc = "recvBody" /\ inbox # <<>> /\ Head(inbox).type = "CAMERA_CONFIG"
    BY <1>6 DEF HandleCmd, BodyOf, IInv, InboxState
  <2>2. Head(inbox) \in Packets
    BY <2>1, HeadTailProperties DEF IInv, TypeOK
  <2>3. BodyWhole => Head(inbox).body \in Commands
    BY <2>1, <2>2 DEF BodyWhole, Packets
  <2> QED BY <1>2, <1>6, <2>1, <2>3, ClosingSteps DEF HandleCmd
<1> QED BY <1>1, <1>4, <1>5, <1>6

\* A send touches the vHAL's side of the connection only.  (Send())
LEMMA SendFacts ==
    ASSUME IInv, NEW c \in {"REQUEST", "INFO", "info", "DATA", "data"},
           SendOk(c) \/ SendFails
    PROVE  /\ frame' \in {"hdr", "info", "data", "bad"}
           /\ owed' \in Seq(Replies)
           /\ UNCHANGED <<peer, inbox>>
<1>1. CASE SendOk(c)
  <2>1. frame \in {"hdr", "info", "data", "bad"} /\ owed \in Seq(Replies)
    BY DEF IInv, TypeOK
  <2>2. /\ Framing(frame, c) \in {"hdr", "info", "data", "bad"}
        /\ Answer(frame, c) \in Seq(Replies)
    BY <2>1, ParserType
  <2>3. owed \o Answer(frame, c) \in Seq(Replies)
    BY <2>1, <2>2, ConcatProperties
  <2> QED BY <1>1, <2>2, <2>3 DEF SendOk
<1>2. CASE SendFails
  BY <1>2 DEF SendFails, IInv, TypeOK, linkVars
<1> QED BY <1>1, <1>2

\* A step of a calling thread preserves the invariant.
LEMMA CallerSteps ==
    ASSUME IInv, UNCHANGED <<life, tpc, cmd, pollFd, sockVars, cap, envVars>>,
           cpc' \in {"idle", "resetWaiting", "getSent", "getWaiting", "getWoken",
                     "setHdr", "setSent", "setWaiting"},
           dpc' \in {"idle", "pay"},
           UNCHANGED linkVars
             \/ \E c \in {"REQUEST", "INFO", "info", "DATA", "data"} : SendOk(c) \/ SendFails
    PROVE  IInv'
<1>1. /\ frame' \in {"hdr", "info", "data", "bad"}
      /\ owed' \in Seq(Replies)
      /\ UNCHANGED <<peer, inbox>>
  <2>1. CASE UNCHANGED linkVars
    BY <2>1 DEF linkVars, IInv, TypeOK
  <2>2. CASE \E c \in {"REQUEST", "INFO", "info", "DATA", "data"} : SendOk(c) \/ SendFails
    BY <2>2, SendFacts
  <2> QED BY <2>1, <2>2
<1>2. TypeOK'
  BY <1>1 DEF IInv, TypeOK, sockVars, envVars
<1>3. NoDescriptorLeak' /\ LinkState' /\ InboxState'
  BY <1>1 DEF IInv, NoDescriptorLeak, LinkState, InboxState, sockVars
<1> QED BY <1>2, <1>3 DEF IInv

\* The process going down leaves the rest as it was.
LEMMA CrashStep == ASSUME IInv, Crash PROVE IInv'
BY DEF Crash, IInv, TypeOK, NoDescriptorLeak, LinkState, InboxState,
       sockVars, linkVars, envVars

\* The control thread.
LEMMA ControlSteps ==
    ASSUME IInv, ResetCameraCapabilty \/ GetRequest \/ SetHeader \/ InCall \/ SpuriousWake
    PROVE  IInv'
<1>1. CASE Crash
  BY <1>1, CrashStep
<1>2. CASE ~Crash
  <2>1. dpc \in {"idle", "pay"} /\ cpc \in {"idle", "resetWaiting", "getSent", "getWaiting",
                 "getWoken", "setHdr", "setSent", "setWaiting"}
    BY DEF IInv, TypeOK
  <2> USE DEF ControlLocal
  <2>2. CASE ResetCameraCapabilty
    BY <2>1, <2>2, CallerSteps DEF ResetCameraCapabilty
  <2>3. CASE GetRequest
    BY <1>2, <2>1, <2>3, CallerSteps DEF GetRequest
  <2>4. CASE SetHeader
    BY <1>2, <2>1, <2>4, CallerSteps DEF SetHeader
  <2>5. CASE GetWait
    BY <2>1, <2>5, CallerSteps DEF GetWait
  <2>6. CASE GetReturn
    BY <2>1, <2>6, CallerSteps DEF GetReturn
  <2>7. CASE SetInfo
    BY <1>2, <2>1, <2>7, CallerSteps DEF SetInfo
  <2>8. CASE SetWait
    BY <2>1, <2>8, CallerSteps DEF SetWait
  <2>9. CASE SpuriousWake
    BY <2>1, <2>9, CallerSteps DEF SpuriousWake
  <2> QED BY <2>2, <2>3, <2>4, <2>5, <2>6, <2>7, <2>8, <2>9 DEF InCall
<1> QED BY <1>1, <1>2

\* The data thread.
LEMMA DataSteps ==
    ASSUME IInv, SendDataHeader \/ SendDataPayload
    PROVE  IInv'
<1>1. CASE Crash
  BY <1>1, CrashStep
<1>2. CASE ~Crash
  <2>1. dpc \in {"idle", "pay"} /\ cpc \in {"idle", "resetWaiting", "getSent", "getWaiting",
                 "getWoken", "setHdr", "setSent", "setWaiting"}
    BY DEF IInv, TypeOK
  <2>2. CASE SendDataHeader
    BY <1>2, <2>1, <2>2, CallerSteps DEF SendDataHeader, DataLocal
  <2>3. CASE SendDataPayload
    BY <1>2, <2>1, <2>3, CallerSteps DEF SendDataPayload, DataLocal
  <2> QED BY <2>2, <2>3
<1> QED BY <1>1, <1>2

\* The rest of the process takes and gives back what is not the client's.
LEMMA ForeignSteps ==
    ASSUME IInv, ForeignOpen \/ ForeignClose
    PROVE  IInv'
<1>1. /\ fdt' \in [Fds -> {"free", "sock", "file"}]
      /\ \A f \in Fds : fdt'[f] = "sock" <=> fdt[f] = "sock"
      /\ UNCHANGED <<life, tpc, cmd, pollFd, fd_, connected_, cap, cpc, dpc, linkVars, envVars>>
  BY DEF ForeignOpen, ForeignClose, LowestFree, IInv, TypeOK, talkerVars
<1>2. TypeOK'
  BY <1>1 DEF IInv, TypeOK, linkVars, envVars
<1>3. NoDescriptorLeak' /\ LinkState' /\ InboxState'
  BY <1>1 DEF IInv, NoDescriptorLeak, LinkState, InboxState, linkVars
<1> QED BY <1>2, <1>3 DEF IInv

\* The vHAL.
LEMMA VhalSteps ==
    ASSUME IInv, Vhal
    PROVE  IInv'
<1> USE DEF IInv, Unmoved, talkerVars, sockVars
<1>0. inbox \in Seq(Packets) /\ owed \in Seq(Replies)
  BY DEF TypeOK
<1>1. ASSUME NEW p \in Packets, p.body # "cut", inbox' = Append(inbox, p), peer = "open",
             owed' \in Seq(Replies), ncmds' \in 0..MaxCmds, Unmoved,
             UNCHANGED <<peer, frame, srv, ndrops, torn>>
      PROVE  IInv'
  <2>1. /\ inbox' \in Seq(Packets) /\ inbox' # <<>>
        /\ Len(inbox') = Len(inbox) + 1
        /\ \A i \in 1..Len(inbox) : inbox'[i] = inbox[i]
        /\ inbox'[Len(inbox) + 1] = p
    BY <1>0, <1>1, AppendProperties
  <2>2. \A i \in 1..Len(inbox') : i \in 1..Len(inbox) \/ i = Len(inbox) + 1
    BY <1>0, <2>1, LenProperties
  <2>3. \A i \in 1..Len(inbox') : inbox'[i].body # "cut"
    BY <1>1, <2>1, <2>2 DEF InboxState
  <2>4. TypeOK'
    BY <1>1, <2>1 DEF TypeOK
  <2>5. NoDescriptorLeak' /\ LinkState' /\ InboxState'
    BY <1>1, <2>1, <2>3 DEF NoDescriptorLeak, LinkState, InboxState
  <2> QED BY <2>4, <2>5
<1>2. CASE VhalReply
  <2>1. [type |-> Head(owed), body |-> "ok"] \in Packets
    BY <1>0, <1>2, HeadTailProperties DEF VhalReply, Packets, Replies
  <2>2. owed' \in Seq(Replies)
    BY <1>0, <1>2, HeadTailProperties DEF VhalReply
  <2>3. ncmds' \in 0..MaxCmds
    BY <1>2 DEF VhalReply, TypeOK, envVars
  <2> QED BY <1>1, <1>2, <2>1, <2>2, <2>3 DEF VhalReply, envVars
<1>3. CASE VhalCommand
  <2>1. PICK p \in Packets : inbox' = Append(inbox, p) /\ p.body # "cut"
    BY <1>3 DEF VhalCommand, Packets, Commands
  <2>2. ncmds' \in 0..MaxCmds
    BY <1>3, BoundAssumption DEF VhalCommand, TypeOK
  <2>3. owed' \in Seq(Replies)
    BY <1>0, <1>3 DEF VhalCommand
  <2> QED BY <1>1, <1>3, <2>1, <2>2, <2>3 DEF VhalCommand
<1>4. CASE VhalDrop
  <2>1. PICK n \in (IF tpc = "recvBody" THEN 1 ELSE 0)..Len(inbox), isCut \in BOOLEAN :
          inbox' = Remains(n, isCut)
    BY <1>4 DEF VhalDrop
  <2>2. n \in 0..Len(inbox) /\ (tpc = "recvBody" => n > 0)
    BY <1>0, <2>1, LenProperties
  <2>3. inbox' \in Seq(Packets) /\ (tpc = "recvBody" => inbox' # <<>>)
    BY <1>0, <2>1, <2>2, RemainsType
  <2>4. ndrops' \in 0..MaxDrops /\ srv' \in BOOLEAN
    BY <1>4, BoundAssumption DEF VhalDrop, TypeOK
  <2>5. TypeOK'
    BY <1>4, <2>3, <2>4 DEF VhalDrop, TypeOK
  <2>6. NoDescriptorLeak' /\ LinkState' /\ InboxState'
    BY <1>4, <2>3 DEF VhalDrop, NoDescriptorLeak, LinkState, InboxState
  <2> QED BY <2>5, <2>6
<1>5. CASE VhalUp
  <2>1. srv' \in BOOLEAN
    BY <1>5 DEF VhalUp
  <2>2. TypeOK'
    BY <1>5, <2>1 DEF VhalUp, TypeOK, linkVars
  <2>3. NoDescriptorLeak' /\ LinkState' /\ InboxState'
    BY <1>5 DEF VhalUp, NoDescriptorLeak, LinkState, InboxState, linkVars
  <2> QED BY <2>2, <2>3
<1> QED BY <1>2, <1>3, <1>4, <1>5 DEF Vhal

\* Every step preserves the invariant.
LEMMA NextIInv == IInv /\ [Next]_vars => IInv'
<1> SUFFICES ASSUME IInv, [Next]_vars PROVE IInv'
  OBVIOUS
<1>1. CASE Talker
  BY <1>1, TalkerMoves, TalkerConnects, TalkerReads, ClosingSteps DEF Talker, TalkerLib
<1>2. CASE ResetCameraCapabilty \/ GetRequest \/ SetHeader \/ InCall \/ SpuriousWake
  BY <1>2, ControlSteps
<1>3. CASE SendDataHeader \/ SendDataPayload
  BY <1>3, DataSteps
<1>4. CASE Destroy
  BY <1>4 DEF Destroy, IInv, TypeOK, NoDescriptorLeak, LinkState, InboxState,
              sockVars, linkVars, envVars
<1>5. CASE Join
  BY <1>5, ClosingSteps
<1>6. CASE Environment
  BY <1>6, ForeignSteps, VhalSteps DEF Environment
<1>7. CASE ClientFault
  BY <1>7, CrashStep DEF ClientFault
<1>8. CASE UNCHANGED vars
  BY <1>8 DEF vars, talkerVars, sockVars, linkVars, envVars, IInv, TypeOK,
              NoDescriptorLeak, LinkState, InboxState
<1> QED BY <1>1, <1>2, <1>3, <1>4, <1>5, <1>6, <1>7, <1>8 DEF Next, Terminated

\* The inductive invariant holds in every reachable state.
THEOREM Invariance == Spec => []IInv
<1>1. Init => IInv
  BY InitIInv
<1>2. IInv /\ [Next]_vars => IInv'
  BY NextIInv
<1> QED BY <1>1, <1>2, PTL DEF Spec

\* Every variable keeps its type, and a connected client has a descriptor,
\* for any descriptor table and any bounds.  (fields of VideoSink::Impl and of
\* the socket clients)
THEOREM TypeCorrect == Spec => []TypeOK
<1>1. IInv => TypeOK
  BY DEF IInv
<1> QED BY <1>1, Invariance, PTL

\* No descriptor is leaked and none of another owner is closed, for any
\* descriptor table, with foreign descriptors, short reads, failed connects
\* and drops.  (Connect() and Close() of the socket clients)
THEOREM DescriptorsKept == Spec => []NoDescriptorLeak
<1>1. IInv => NoDescriptorLeak
  BY DEF IInv
<1> QED BY <1>1, Invariance, PTL

\* On a connection that is up no error path is taken but that of a short read.
\* (the Close() calls of the talker and its handlers)
LEMMA NoErrorPath ==
    ASSUME IInv, peer = "open"
    PROVE  /\ ~ConnectSocket /\ ~ConnectResult /\ ~PollFail
           /\ ~(tpc = "while" /\ life = "live")
           /\ RecvHeaderFails \/ (tpc = "recvBody" /\ HandlerFails) => Reading /\ torn'
<1>0. connected_ /\ fd_ # NoFd
  BY DEF IInv, TypeOK, LinkState
<1>1. ~ConnectSocket /\ ~ConnectResult /\ ~(tpc = "while" /\ life = "live")
  BY <1>0 DEF ConnectSocket, ConnectResult, IInv, LinkState
<1>2. ~PollFail
  BY <1>0 DEF PollFail, Stale
<1>3. RecvHeaderFails => Reading /\ torn'
  BY DEF RecvHeaderFails, Short, Reading, IInv, InboxState
<1>4. tpc = "recvBody" => BodyWhole /\ inbox # <<>>
  <2> SUFFICES ASSUME tpc = "recvBody" PROVE BodyWhole /\ inbox # <<>>
    OBVIOUS
  <2>1. inbox \in Seq(Packets) /\ inbox # <<>>
    BY DEF IInv, TypeOK, InboxState
  <2>2. 1 \in 1..Len(inbox) /\ Head(inbox) = inbox[1]
    BY <2>1
  <2> QED BY <2>1, <2>2 DEF IInv, InboxState, BodyWhole
<1>5. tpc = "recvBody" /\ HandlerFails => Reading /\ torn'
  BY <1>4 DEF HandlerFails, Short, Reading
<1> QED BY <1>1, <1>2, <1>3, <1>5

\* So only the vHAL, the destructor and a short read end a connection.
LEMMA OpenStays ==
    ASSUME IInv, [Next]_vars, peer = "open", peer' # peer
    PROVE  peer' = "closed" \/ life' = "destroyed" \/ (Reading /\ torn')
<1>1. CASE Talker
  <2>1. /\ ~ConnectResult /\ ~PollFail
        /\ RecvHeaderFails \/ (tpc = "recvBody" /\ HandlerFails) => Reading /\ torn'
    BY NoErrorPath
  <2>2. TalkerWhile \/ ConnectSocket \/ ConnectThrows \/ Setup \/ PollTimeout \/ PollIn
          \/ RecvHeader \/ CallbackReturn => peer' = peer
    BY DEF TalkerWhile, ConnectSocket, ConnectThrows, Crash, Setup, PollTimeout, PollIn,
           RecvHeader, CallbackReturn, linkVars
  <2>3. HandleCapability \/ HandleAck \/ HandleCmd =>
          peer' = peer \/ (tpc = "recvBody" /\ HandlerFails)
    BY DEF HandleCapability, HandleAck, HandleCmd, BodyOf, BodyRead
  <2> QED BY <1>1, <2>1, <2>2, <2>3 DEF Talker, TalkerLib
<1>2. CASE ResetCameraCapabilty \/ GetRequest \/ SetHeader \/ InCall \/ SpuriousWake
  BY <1>2 DEF ResetCameraCapabilty, GetRequest, SetHeader, InCall, GetWait, GetReturn,
              SetInfo, SetWait, SpuriousWake, SendOk, SendFails, Crash, linkVars
<1>3. CASE SendDataHeader \/ SendDataPayload
  BY <1>3 DEF SendDataHeader, SendDataPayload, SendOk, SendFails, Crash, linkVars
<1>4. CASE Destroy \/ Join
  BY <1>4 DEF Destroy, Join, linkVars
<1>5. CASE Environment
  BY <1>5 DEF Environment, ForeignOpen, ForeignClose, Vhal, VhalReply, VhalCommand,
              VhalDrop, VhalUp, linkVars
<1>6. CASE ClientFault
  BY <1>6 DEF ClientFault, Crash, linkVars
<1>7. CASE UNCHANGED vars
  BY <1>7 DEF vars, linkVars
<1> QED BY <1>1, <1>2, <1>3, <1>4, <1>5, <1>6, <1>7 DEF Next, Terminated

\* A step that closes a connection that is up is the destructor's or that of a
\* read which returned part of a packet.  (the Close() calls of the talker and
\* its handlers)
THEOREM LiveConnectionKept == Spec => KeepsLiveConnection
<1> DEFINE Kept == peer = "open" /\ peer' # peer =>
                     peer' = "closed" \/ life' = "destroyed" \/ (Reading /\ torn')
<1>1. IInv /\ [Next]_vars => [Kept]_vars
  BY OpenStays
<1> QED BY <1>1, Invariance, PTL DEF Spec, KeepsLiveConnection

(***************************************************************************)
(* Replies.  A call that waits has at most its own reply on its way, and   *)
(* between calls none is.                                                  *)
(***************************************************************************)

NoReply(q) == \A i \in 1..Len(q) : q[i].type \notin Replies

\* at most one reply, and it is r
OneReply(q, r) ==
    \A i \in 1..Len(q) : q[i].type \in Replies =>
        q[i].type = r /\ \A j \in 1..Len(q) : q[j].type \in Replies => j = i

Awaits(r) ==
    \/ owed = <<>> /\ OneReply(inbox, r)
    \/ owed = <<r>> /\ NoReply(inbox)

Accounts ==
    /\ cpc \in {"getSent", "getWaiting"} => Awaits("CAPABILITY")
    /\ cpc \in {"setSent", "setWaiting"} => Awaits("ACK")
    /\ cpc \in {"idle", "resetWaiting", "getWoken", "setHdr"} => owed = <<>> /\ NoReply(inbox)

\* Reading a packet; when it is the reply, there is no other.
LEMMA RepliesAfterRead ==
    ASSUME NEW q \in Seq(Packets), q # <<>>, NEW r
    PROVE  /\ NoReply(q) => NoReply(Tail(q)) /\ Head(q).type \notin Replies
           /\ OneReply(q, r) => OneReply(Tail(q), r)
           /\ OneReply(q, r) /\ Head(q).type \in Replies
                => Head(q).type = r /\ NoReply(Tail(q))
<1>1. /\ Len(q) \in Nat /\ 1 \in 1..Len(q) /\ Head(q) = q[1] /\ Len(Tail(q)) = Len(q) - 1
      /\ \A i \in 1..Len(Tail(q)) : Tail(q)[i] = q[i + 1]
  BY HeadTailProperties, LenProperties, EmptySeq
<1>2. \A i \in 1..Len(Tail(q)) : i + 1 \in 1..Len(q) /\ i + 1 # 1
  BY <1>1
<1>3. \A i, j \in 1..Len(Tail(q)) : j + 1 = i + 1 => j = i
  BY <1>1
<1>4. NoReply(q) => NoReply(Tail(q)) /\ Head(q).type \notin Replies
  BY <1>1, <1>2 DEF NoReply
<1>5. OneReply(q, r) => OneReply(Tail(q), r)
  BY <1>1, <1>2, <1>3 DEF OneReply
<1>6. OneReply(q, r) /\ Head(q).type \in Replies => Head(q).type = r /\ NoReply(Tail(q))
  BY <1>1, <1>2 DEF OneReply, NoReply
<1> QED BY <1>4, <1>5, <1>6

\* A packet that arrives.
LEMMA RepliesAfterAppend ==
    ASSUME NEW q \in Seq(Packets), NEW p \in Packets, NEW r
    PROVE  /\ NoReply(q) /\ p.type \notin Replies => NoReply(Append(q, p))
           /\ OneReply(q, r) /\ p.type \notin Replies => OneReply(Append(q, p), r)
           /\ NoReply(q) /\ p.type = r => OneReply(Append(q, p), r)
<1> DEFINE s == Append(q, p)
<1>1. /\ Len(q) \in Nat /\ Len(s) = Len(q) + 1 /\ s[Len(q) + 1] = p
      /\ \A i \in 1..Len(q) : s[i] = q[i]
  BY AppendProperties, LenProperties
<1>2. \A i \in 1..Len(s) : i \in 1..Len(q) \/ i = Len(q) + 1
  BY <1>1
<1> HIDE DEF s
<1>3. NoReply(q) /\ p.type \notin Replies => NoReply(s)
  BY <1>1, <1>2 DEF NoReply
<1>4. OneReply(q, r) /\ p.type \notin Replies => OneReply(s, r)
  BY <1>1, <1>2 DEF OneReply
<1>5. NoReply(q) /\ p.type = r => OneReply(s, r)
  BY <1>1, <1>2 DEF OneReply, NoReply
<1> QED BY <1>3, <1>4, <1>5 DEF s

\* What a drop leaves.
LEMMA RepliesAfterDrop ==
    ASSUME inbox \in Seq(Packets), NEW n \in 0..Len(inbox), NEW isCut \in BOOLEAN, NEW r
    PROVE  /\ NoReply(inbox) => NoReply(Remains(n, isCut))
           /\ OneReply(inbox, r) => OneReply(Remains(n, isCut), r)
<1> DEFINE s == SubSeq(inbox, 1, n)
           t == Remains(n, isCut)
<1>1. /\ s \in Seq(Packets) /\ Len(s) = n /\ Len(inbox) \in Nat
      /\ \A i \in 1..n : s[i] = inbox[i] /\ s[i] \in Packets /\ i \in 1..Len(inbox)
  <2>1. s \in Seq(Packets) /\ Len(s) = n /\ Len(inbox) \in Nat
    BY SubSeqProperties, LenProperties
  <2>2. \A i \in 1..n : s[i] = inbox[i] /\ i \in 1..Len(inbox)
    BY <2>1, SubSeqProperties
  <2>3. \A i \in 1..n : s[i] \in Packets
    BY <2>2, ElementOfSeq
  <2> QED BY <2>1, <2>2, <2>3
<1> HIDE DEF s
<1>2. Len(t) = n /\ \A i \in 1..n : t[i].type = inbox[i].type
  <2>1. CASE isCut /\ n > 0
    <3>0. t = [s EXCEPT ![n].body = "cut"]
      BY <2>1 DEF Remains, s
    <3>a. n \in 1..Len(s)
      BY <1>1, <2>1
    <3> HIDE DEF t
    <3>1. t = [s EXCEPT ![n].body = "cut"] /\ n \in 1..Len(s)
      BY <3>0, <3>a
    <3>2. Len(t) = n
      BY <1>1, <3>1, CutInSeq
    <3>3. \A i \in 1..n : t[i].type = s[i].type
      <4>1. DOMAIN s = 1..n
        BY <1>1, LenProperties
      <4>2. \A i \in 1..n : i # n => t[i] = s[i]
        BY <3>1, <4>1
      <4>3. t[n] = [s[n] EXCEPT !.body = "cut"]
        BY <1>1, <3>1, <4>1
      <4>4. s[n] \in Packets
        BY <1>1, <3>1
      <4>5. t[n].type = s[n].type
        BY <4>3, <4>4 DEF Packets
      <4> QED BY <4>2, <4>5
    <3> QED BY <1>1, <3>2, <3>3
  <2>2. CASE ~(isCut /\ n > 0)
    <3>1. t = s
      BY <2>2 DEF Remains, s
    <3> QED BY <1>1, <3>1
  <2> QED BY <2>1, <2>2
<1> HIDE DEF t
<1>3. NoReply(inbox) => NoReply(t)
  BY <1>1, <1>2 DEF NoReply
<1>4. OneReply(inbox, r) => OneReply(t, r)
  BY <1>1, <1>2 DEF OneReply
<1> QED BY <1>3, <1>4 DEF t

\* Nothing is on its way on a connection that is closed.
LEMMA CloseAccounts ==
    ASSUME Close, cpc' = cpc
    PROVE  Accounts'
<1>1. owed' = <<>> /\ inbox' = <<>>
  BY DEF Close
<1>2. Len(<<>>) = 0 /\ NoReply(<<>>) /\ \A r : OneReply(<<>>, r)
  BY DEF NoReply, OneReply
<1> QED BY <1>1, <1>2 DEF Accounts, Awaits

\* A call's own reply is what ends its wait, and leaves nothing behind.
\* (notify_one in handle_ack and handle_capability)
LEMMA ReplyRead ==
    ASSUME IInv, Accounts, tpc = "recvBody", inbox' = Tail(inbox), owed' = owed,
           Head(inbox).type \in Replies, NotifyOne
    PROVE  /\ Accounts'
           /\ cpc = "getWaiting" => Head(inbox).type = "CAPABILITY"
           /\ cpc = "setWaiting" => Head(inbox).type = "ACK"
<1>1. /\ inbox \in Seq(Packets) /\ inbox # <<>>
      /\ cpc \in {"idle", "resetWaiting", "getSent", "getWaiting", "getWoken",
                  "setHdr", "setSent", "setWaiting"}
  BY DEF IInv, TypeOK, InboxState
<1>2. ~NoReply(inbox)
  BY <1>1, RepliesAfterRead
<1>3. ASSUME NEW r, Awaits(r)
      PROVE  owed = <<>> /\ Head(inbox).type = r /\ NoReply(Tail(inbox)) /\ OneReply(Tail(inbox), r)
  <2>1. owed = <<>> /\ OneReply(inbox, r)
    BY <1>2, <1>3 DEF Awaits
  <2> QED BY <1>1, <2>1, RepliesAfterRead
<1>4. CASE cpc \in {"getSent", "getWaiting"}
  <2>1. cpc' \in {"getSent", "getWoken"}
    BY <1>4 DEF NotifyOne
  <2>2. Awaits("CAPABILITY")
    BY <1>4 DEF Accounts
  <2> QED BY <1>3, <1>4, <2>1, <2>2 DEF Accounts, Awaits
<1>5. CASE cpc \in {"setSent", "setWaiting"}
  <2>1. cpc' \in {"setSent", "idle"}
    BY <1>5 DEF NotifyOne
  <2>2. Awaits("ACK")
    BY <1>5 DEF Accounts
  <2> QED BY <1>3, <1>5, <2>1, <2>2 DEF Accounts, Awaits
<1>6. cpc \notin {"idle", "resetWaiting", "getWoken", "setHdr"}
  BY <1>2 DEF Accounts
<1> QED BY <1>1, <1>4, <1>5, <1>6

\* Packets that are no replies come and go.
LEMMA OtherPackets ==
    ASSUME IInv, Accounts, cpc' = cpc, owed' = owed,
           \/ inbox' = inbox
           \/ inbox # <<>> /\ inbox' = Tail(inbox)
           \/ \E p \in Packets : p.type \notin Replies /\ inbox' = Append(inbox, p)
           \/ \E n \in 0..Len(inbox), isCut \in BOOLEAN : inbox' = Remains(n, isCut)
    PROVE  Accounts'
<1>1. inbox \in Seq(Packets)
  BY DEF IInv, TypeOK
<1>2. /\ NoReply(inbox) => NoReply(inbox')
      /\ \A r : OneReply(inbox, r) => OneReply(inbox', r)
  <2>1. CASE inbox # <<>> /\ inbox' = Tail(inbox)
    BY <1>1, <2>1, RepliesAfterRead
  <2>2. CASE \E p \in Packets : p.type \notin Replies /\ inbox' = Append(inbox, p)
    BY <1>1, <2>2, RepliesAfterAppend
  <2>3. CASE \E n \in 0..Len(inbox), isCut \in BOOLEAN : inbox' = Remains(n, isCut)
    BY <1>1, <2>3, RepliesAfterDrop
  <2>4. CASE inbox' = inbox
    BY <2>4
  <2> QED BY <2>1, <2>2, <2>3, <2>4
<1>3. \A r : Awaits(r) => Awaits(r)'
  BY <1>2 DEF Awaits
<1> QED BY <1>2, <1>3 DEF Accounts

\* The talker.
LEMMA TalkerAccounts == ASSUME IInv, Accounts, Talker PROVE Accounts'
<1>1. CASE TalkerWhile \/ ConnectSocket \/ ConnectThrows \/ ConnectResult \/ PollTimeout
             \/ PollIn \/ CallbackReturn
  BY <1>1, OtherPackets DEF TalkerWhile, ConnectSocket, ConnectThrows, Crash, ConnectResult,
     PollTimeout, PollIn, CallbackReturn, linkVars
<1>2. CASE Setup
  <2>1. UNCHANGED <<owed, inbox>> /\ cpc' = IF cpc = "resetWaiting" THEN "idle" ELSE cpc
    BY <1>2 DEF Setup, linkVars
  <2> QED BY <2>1 DEF Accounts, Awaits
<1>3. CASE PollFail \/ RecvHeaderFails
  BY <1>3, CloseAccounts DEF PollFail, RecvHeaderFails, Short
<1>4. CASE RecvHeader
  BY <1>4, OtherPackets DEF RecvHeader
<1>5. CASE HandleCapability \/ HandleAck
  <2>1. CASE HandlerFails
    BY <2>1, CloseAccounts DEF HandlerFails, Short
  <2>2. CASE ~HandlerFails
    BY <1>5, <2>2, ReplyRead DEF HandleCapability, HandleAck, BodyOf, BodyRead, Replies
  <2> QED BY <2>1, <2>2
<1>6. CASE HandleCmd
  <2>1. CASE HandlerFails
    BY <2>1, CloseAccounts DEF HandlerFails, Short
  <2>2. CASE ~HandlerFails
    BY <1>6, <2>2, OtherPackets DEF HandleCmd, BodyOf, BodyRead, IInv, InboxState
  <2> QED BY <2>1, <2>2
<1> QED BY <1>1, <1>2, <1>3, <1>4, <1>5, <1>6 DEF Talker, TalkerLib

\* What a chunk adds to the replies that the vHAL owes.
LEMMA AnswerTo ==
    /\ Answer(frame, "REQUEST") \in {<<>>, <<"CAPABILITY">>}
    /\ Answer(frame, "info") \in {<<>>, <<"ACK">>}
    /\ \A c \in {"INFO", "DATA", "data"} : Answer(frame, c) = <<>>
BY DEF Answer

\* The calls: each begins when no reply is on its way, and asks for one.
LEMMA CallsAccount ==
    ASSUME IInv, Accounts, Spurious = FALSE,
           ResetCameraCapabilty \/ GetRequest \/ SetHeader \/ InCall \/ SpuriousWake
             \/ SendDataHeader \/ SendDataPayload
    PROVE  Accounts'
<1>0. /\ owed \in Seq(Replies) /\ <<>> \in Seq(Replies)
      /\ \A q \in Seq(Replies) : q \o <<>> = q /\ <<>> \o q = q
  BY ConcatEmptySeq DEF IInv, TypeOK
<1>1. NoReply(inbox) => \A r : OneReply(inbox, r)
  BY DEF NoReply, OneReply
<1>a. <<"CAPABILITY">> \in Seq(Replies) /\ <<"ACK">> \in Seq(Replies)
  BY DEF Replies
<1>2. ASSUME UNCHANGED <<owed, inbox>>, cpc' = cpc PROVE Accounts'
  BY <1>2 DEF Accounts, Awaits
<1>3. CASE Crash
  BY <1>2, <1>3 DEF Crash, linkVars
<1>4. CASE ~Crash
  <2>1. CASE ResetCameraCapabilty
    BY <2>1 DEF ResetCameraCapabilty, linkVars, Accounts, Awaits
  <2>2. CASE GetRequest
    <3>1. CASE SendFails
      <4>1. UNCHANGED <<owed, inbox>> /\ peer # "open"
        BY <3>1 DEF SendFails, linkVars
      <4>2. cpc' = cpc
        BY <1>4, <2>2, <4>1 DEF GetRequest, SendOk
      <4> QED BY <1>2, <4>1, <4>2
    <3>2. CASE ~SendFails
      <4>1. /\ cpc = "idle" /\ cpc' = "getSent" /\ inbox' = inbox
            /\ owed' = owed \o Answer(frame, "REQUEST")
        BY <1>4, <2>2, <3>2 DEF GetRequest, SendOk
      <4>2. owed = <<>> /\ NoReply(inbox)
        BY <4>1 DEF Accounts
      <4>3. owed' \in {<<>>, <<"CAPABILITY">>}
        BY <1>0, <1>a, <4>1, <4>2, AnswerTo
      <4> QED BY <1>1, <4>1, <4>2, <4>3 DEF Accounts, Awaits
    <3> QED BY <3>1, <3>2
  <2>3. CASE SetHeader
    <3>1. cpc = "idle" /\ cpc' \in {"idle", "setHdr"} /\ inbox' = inbox
          /\ (owed' = owed \/ owed' = owed \o Answer(frame, "INFO"))
      BY <1>4, <2>3 DEF SetHeader, SendOk, SendFails, linkVars
    <3>2. owed' = owed
      BY <1>0, <3>1, AnswerTo
    <3> QED BY <3>1, <3>2 DEF Accounts
  <2>4. CASE GetWait
    BY <2>4 DEF GetWait, linkVars, Accounts, Awaits
  <2>5. CASE GetReturn
    BY <2>5 DEF GetReturn, linkVars, Accounts, Awaits
  <2>6. CASE SetInfo
    <3>1. CASE SendFails
      <4>1. UNCHANGED <<owed, inbox>> /\ peer # "open"
        BY <3>1 DEF SendFails, linkVars
      <4>2. cpc = "setHdr" /\ cpc' = "idle"
        BY <1>4, <2>6, <4>1 DEF SetInfo, SendOk
      <4> QED BY <4>1, <4>2 DEF Accounts
    <3>2. CASE ~SendFails
      <4>1. /\ cpc = "setHdr" /\ cpc' = "setSent" /\ inbox' = inbox
            /\ owed' = owed \o Answer(frame, "info")
        BY <1>4, <2>6, <3>2 DEF SetInfo, SendOk
      <4>2. owed = <<>> /\ NoReply(inbox)
        BY <4>1 DEF Accounts
      <4>3. owed' \in {<<>>, <<"ACK">>}
        BY <1>0, <1>a, <4>1, <4>2, AnswerTo
      <4> QED BY <1>1, <4>1, <4>2, <4>3 DEF Accounts, Awaits
    <3> QED BY <3>1, <3>2
  <2>7. CASE SetWait
    BY <2>7 DEF SetWait, linkVars, Accounts, Awaits
  <2>8. CASE SendDataHeader \/ SendDataPayload
    <3>1. cpc' = cpc /\ inbox' = inbox
          /\ (owed' = owed \/ owed' = owed \o Answer(frame, "DATA")
                \/ owed' = owed \o Answer(frame, "data"))
      BY <1>4, <2>8 DEF SendDataHeader, SendDataPayload, DataLocal, SendOk, SendFails, linkVars
    <3>2. owed' = owed
      BY <1>0, <3>1, AnswerTo
    <3> QED BY <1>2, <3>1, <3>2
  <2> QED BY <2>1, <2>2, <2>3, <2>4, <2>5, <2>6, <2>7, <2>8 DEF InCall, SpuriousWake
<1> QED BY <1>3, <1>4

\* The vHAL: a reply goes from what it owes to what it sent.
LEMMA VhalAccounts == ASSUME IInv, Accounts, Vhal PROVE Accounts'
<1>0. inbox \in Seq(Packets) /\ owed \in Seq(Replies)
  BY DEF IInv, TypeOK
<1>1. CASE VhalReply
  <2> DEFINE p == [type |-> Head(owed), body |-> "ok"]
  <2>1. /\ owed # <<>> /\ inbox' = Append(inbox, p) /\ owed' = Tail(owed) /\ cpc' = cpc
    BY <1>1 DEF VhalReply, Unmoved
  <2>2. p \in Packets
    BY <1>0, <2>1, HeadTailProperties DEF Packets, Replies
  <2>3. ASSUME NEW r, Awaits(r) PROVE Awaits(r)'
    <3>1. owed = <<r>> /\ NoReply(inbox)
      BY <2>1, <2>3 DEF Awaits
    <3>2. Head(owed) = r /\ Tail(owed) = <<>> /\ p.type = r
      BY <3>1
    <3>3. OneReply(Append(inbox, p), r)
      <4> HIDE DEF p
      <4> QED BY <1>0, <2>2, <3>1, <3>2, RepliesAfterAppend
    <3> QED BY <2>1, <3>2, <3>3 DEF Awaits
  <2> QED BY <2>1, <2>3 DEF Accounts
<1>2. CASE VhalCommand
  <2>1. PICK p \in Packets : inbox' = Append(inbox, p) /\ p.type \notin Replies
    BY <1>2 DEF VhalCommand, Packets, Commands, Replies
  <2> QED BY <1>2, <2>1, OtherPackets DEF VhalCommand, Unmoved
<1>3. CASE VhalDrop
  <2>1. PICK n \in (IF tpc = "recvBody" THEN 1 ELSE 0)..Len(inbox), isCut \in BOOLEAN :
          inbox' = Remains(n, isCut)
    BY <1>3 DEF VhalDrop
  <2>2. n \in 0..Len(inbox)
    BY <1>0, <2>1, LenProperties
  <2> QED BY <1>3, <2>1, <2>2, OtherPackets DEF VhalDrop, Unmoved
<1>4. CASE VhalUp
  BY <1>4, OtherPackets DEF VhalUp, Unmoved, linkVars
<1> QED BY <1>1, <1>2, <1>3, <1>4 DEF Vhal

\* Every step keeps the account.
LEMMA NextAccounts ==
    ASSUME Spurious = FALSE, IInv, Accounts, [Next]_vars
    PROVE  Accounts'
<1>1. CASE Destroy \/ ClientFault \/ ForeignOpen \/ ForeignClose \/ UNCHANGED vars
  BY <1>1, OtherPackets
     DEF Destroy, ClientFault, Crash, ForeignOpen, ForeignClose, vars, linkVars
<1>2. CASE Join
  BY <1>2, CloseAccounts DEF Join
<1>3. CASE Talker
  BY <1>3, TalkerAccounts
<1>4. CASE ResetCameraCapabilty \/ GetRequest \/ SetHeader \/ InCall \/ SpuriousWake
             \/ SendDataHeader \/ SendDataPayload
  BY <1>4, CallsAccount, Zenon
<1>5. CASE Vhal
  BY <1>5, VhalAccounts
<1> QED BY <1>1, <1>2, <1>3, <1>4, <1>5, Zenon DEF Next, Environment, Terminated

\* No reply is on its way that nobody waits for.
LEMMA RepliesAccounted ==
    ASSUME Spurious = FALSE
    PROVE  Spec => []Accounts
<1>1. Init => Accounts
  BY DEF Init, Accounts, NoReply
<1>2. IInv /\ Accounts /\ [Next]_vars => Accounts'
  BY NextAccounts, Zenon
<1> QED BY <1>1, <1>2, Invariance, PTL DEF Spec

\* When no wait returns by itself, only a capability ends the wait of
\* GetCameraCapabilty and only an ack that of SetCameraCapabilty, although both
\* share a condition variable: through drops, lost signals, short reads and
\* data packets that cut into the requests.  (notify_one in handle_ack and
\* handle_capability)
THEOREM OwnReplyWakes ==
    ASSUME Spurious = FALSE
    PROVE  Spec => WokenByOwnReply
<1> DEFINE Own == /\ cpc = "getWaiting" /\ cpc' # cpc => BodyOf("CAPABILITY")
                  /\ cpc = "setWaiting" /\ cpc' # cpc => BodyOf("ACK")
<1>1. ASSUME IInv, Accounts, [Next]_vars, cpc \in {"getWaiting", "setWaiting"}, cpc' # cpc
      PROVE  HandleCapability \/ HandleAck
  <2>1. ~(ResetCameraCapabilty \/ GetRequest \/ SetHeader \/ InCall \/ SpuriousWake)
    BY <1>1 DEF ResetCameraCapabilty, GetRequest, SetHeader, InCall, SpuriousWake,
                GetWait, GetReturn, SetInfo, SetWait
  <2>2. ~(TalkerWhile \/ ConnectSocket \/ ConnectThrows \/ ConnectResult \/ Setup
          \/ PollTimeout \/ PollIn \/ PollFail \/ RecvHeader \/ RecvHeaderFails \/ CallbackReturn)
    BY <1>1 DEF TalkerWhile, ConnectSocket, ConnectThrows, Crash, ConnectResult, Setup,
                PollTimeout, PollIn, PollFail, RecvHeader, RecvHeaderFails, Short, CallbackReturn
  <2>3. ~HandleCmd
    BY <1>1 DEF HandleCmd, HandlerFails, Short
  <2>4. ~(SendDataHeader \/ SendDataPayload \/ Destroy \/ Join \/ ClientFault \/ Environment)
    BY <1>1 DEF SendDataHeader, SendDataPayload, DataLocal, Destroy, Join, ClientFault, Crash,
                Environment, ForeignOpen, ForeignClose, Vhal, VhalReply, VhalCommand, VhalDrop,
                VhalUp, Unmoved
  <2>5. ~UNCHANGED vars
    BY <1>1 DEF vars
  <2> QED BY <1>1, <2>1, <2>2, <2>3, <2>4, <2>5 DEF Next, Talker, TalkerLib, Terminated
<1>2. ASSUME IInv, Accounts, [Next]_vars PROVE Own
  <2> SUFFICES ASSUME cpc \in {"getWaiting", "setWaiting"}, cpc' # cpc PROVE Own
    OBVIOUS
  <2>1. HandleCapability \/ HandleAck
    BY <1>1, <1>2
  <2>2. ~HandlerFails
    BY DEF HandlerFails, Short
  <2>3. /\ tpc = "recvBody" /\ Running /\ inbox' = Tail(inbox) /\ owed' = owed
        /\ Head(inbox).type \in Replies /\ NotifyOne
    BY <2>1, <2>2 DEF HandleCapability, HandleAck, BodyOf, BodyRead, Replies
  <2>4. /\ cpc = "getWaiting" => Head(inbox).type = "CAPABILITY"
        /\ cpc = "setWaiting" => Head(inbox).type = "ACK"
    BY <1>2, <2>3, ReplyRead
  <2> QED BY <2>3, <2>4 DEF BodyOf
<1>3. IInv /\ Accounts /\ [Next]_vars => [Own]_vars
  BY <1>2
<1> QED BY <1>3, Invariance, RepliesAccounted, PTL DEF Spec, WokenByOwnReply

(***************************************************************************)
(* What GetCameraCapabilty returns.  On a connection that is never lost no *)
(* new cmd_capability_ is made between the signal and the return.          *)
(***************************************************************************)
Woken ==
    /\ life \in {"joining", "destroyed"} => cpc = "idle"
    /\ Undisturbed =>
         /\ peer # "closed"
         /\ cpc = "getWoken" =>
              cap = "vhal" /\ peer = "open" /\ tpc \notin {"socket", "connecting", "setup"}

\* A step of the talker leaves a woken call the capability it was woken by.
LEMMA TalkerKeepsWoken ==
    ASSUME IInv, Accounts, Woken, Talker
    PROVE  Woken'
<1>0. life \in {"live", "joining", "destroyed", "dead"} /\ connected_ \in BOOLEAN
  BY DEF IInv, TypeOK
<1>1. CASE TalkerWhile
  <2>1. UNCHANGED <<life, cpc, ndrops, torn, peer, cap>>
    BY <1>1 DEF TalkerWhile, linkVars, envVars
  <2>2. Undisturbed /\ cpc = "getWoken" => tpc' = "exited"
    BY <1>1, NoErrorPath DEF TalkerWhile, Woken, Undisturbed
  <2> QED BY <2>1, <2>2 DEF Woken, Undisturbed
<1>2. CASE ConnectThrows
  BY <1>2 DEF ConnectThrows, Crash, linkVars, envVars, Woken, Undisturbed
<1>3. CASE PollTimeout \/ PollIn \/ RecvHeader \/ CallbackReturn
  BY <1>3 DEF PollTimeout, PollIn, RecvHeader, CallbackReturn, LoopCheck, linkVars, envVars, Woken, Undisturbed
<1>4. CASE ConnectSocket \/ ConnectResult
  <2>1. UNCHANGED <<life, cpc, ndrops, torn>> /\ peer' \in {peer, "open"}
    BY <1>4 DEF ConnectSocket, ConnectResult, linkVars, envVars
  <2>2. Undisturbed => cpc # "getWoken"
    BY <1>4, NoErrorPath DEF Woken, Undisturbed
  <2> QED BY <2>1, <2>2 DEF Woken, Undisturbed
<1>5. CASE Setup
  <2>1. UNCHANGED <<life, ndrops, torn, peer>> /\ cpc' = IF cpc = "resetWaiting" THEN "idle" ELSE cpc
    BY <1>5 DEF Setup, linkVars, envVars
  <2>2. Undisturbed => cpc # "getWoken"
    BY <1>5 DEF Woken, Undisturbed, Setup
  <2> QED BY <2>1, <2>2 DEF Woken, Undisturbed
<1>6. CASE PollFail \/ RecvHeaderFails \/ (tpc = "recvBody" /\ HandlerFails)
  <2>1. UNCHANGED <<life, cpc, ndrops>> /\ peer' = "none" /\ (torn => torn')
    BY <1>6 DEF PollFail, RecvHeaderFails, HandlerFails, Short, Close, envVars
  <2>2. Undisturbed' => cpc # "getWoken"
    BY <1>6, <2>1, NoErrorPath DEF Woken, Undisturbed, Undisturbed
  <2> QED BY <2>1, <2>2 DEF Woken, Undisturbed
<1>7. CASE (HandleCapability \/ HandleAck) /\ ~HandlerFails
  <2>1. /\ tpc = "recvBody" /\ inbox' = Tail(inbox) /\ UNCHANGED <<life, ndrops, torn, peer, owed>>
        /\ Head(inbox).type \in Replies /\ NotifyOne /\ tpc' = LoopCheck
        /\ HandleCapability => cap' = "vhal"
        /\ HandleAck => cap' = cap /\ Head(inbox).type = "ACK"
    BY <1>7 DEF HandleCapability, HandleAck, BodyOf, BodyRead, Replies, envVars
  <2>2. cpc = "getWaiting" => Head(inbox).type = "CAPABILITY"
    BY <2>1, ReplyRead
  <2>3. inbox # <<>> /\ (Undisturbed => peer = "open")
    BY <2>1 DEF IInv, TypeOK, InboxState, Woken, Undisturbed
  <2>4. cpc' = "getWoken" => (cpc = "getWaiting" /\ HandleCapability) \/ cpc = "getWoken"
    BY <1>7, <2>1, <2>2 DEF NotifyOne
  <2>5. cpc = "idle" => cpc' = "idle"
    BY <2>1 DEF NotifyOne
  <2>6. tpc' \in {"poll", "while"}
    BY <2>1 DEF LoopCheck
  <2>7. Undisturbed' /\ cpc' = "getWoken" => cap' = "vhal"
    BY <1>7, <2>1, <2>4 DEF Woken, Undisturbed
  <2> QED BY <2>1, <2>3, <2>5, <2>6, <2>7 DEF Woken, Undisturbed
<1>8. CASE HandleCmd /\ ~HandlerFails
  BY <1>8 DEF HandleCmd, BodyRead, envVars, Woken, Undisturbed
<1>9. HandleCapability \/ HandleAck \/ HandleCmd => tpc = "recvBody"
  BY DEF HandleCapability, HandleAck, HandleCmd, BodyOf
<1> QED
  BY <1>1, <1>2, <1>3, <1>4, <1>5, <1>6, <1>7, <1>8, <1>9, Zenon DEF Talker, TalkerLib

\* So does every other step.
LEMMA NextKeepsWoken ==
    ASSUME Spurious = FALSE, IInv, Accounts, Woken, [Next]_vars
    PROVE  Woken'
<1>1. CASE Talker
  BY <1>1, TalkerKeepsWoken
<1>2. CASE ResetCameraCapabilty \/ GetRequest \/ SetHeader \/ InCall \/ SpuriousWake
  <2>1. CASE Crash
    BY <2>1 DEF Crash, linkVars, envVars, Woken, Undisturbed
  <2>2. CASE ~Crash
    <3>1. /\ UNCHANGED <<life, ndrops, torn, peer, cap, tpc>> /\ cpc' # "getWoken"
          /\ life = "live" \/ cpc # "idle"
      BY <1>2, <2>2 DEF ResetCameraCapabilty, GetRequest, SetHeader, InCall, GetWait, GetReturn,
         SetInfo, SetWait, SpuriousWake, SendOk, SendFails, ControlLocal, linkVars, envVars
    <3> QED BY <3>1 DEF Woken, Undisturbed
  <2> QED BY <2>1, <2>2
<1>3. CASE SendDataHeader \/ SendDataPayload
  <2>1. CASE Crash
    BY <2>1 DEF Crash, linkVars, envVars, Woken, Undisturbed
  <2>2. CASE ~Crash
    <3>1. UNCHANGED <<life, cpc, ndrops, torn, peer, cap, tpc>>
      BY <1>3, <2>2 DEF SendDataHeader, SendDataPayload, SendOk, SendFails, DataLocal,
                        linkVars, envVars
    <3> QED BY <3>1 DEF Woken, Undisturbed
  <2> QED BY <2>1, <2>2
<1>4. CASE Destroy \/ ClientFault \/ ForeignOpen \/ ForeignClose \/ UNCHANGED vars
  <2>1. /\ UNCHANGED <<cpc, ndrops, torn, peer, cap, tpc>>
        /\ life' \in {life, "dead"} \/ cpc = "idle"
    BY <1>4 DEF Destroy, ClientFault, Crash, ForeignOpen, ForeignClose, vars, talkerVars,
                linkVars, envVars
  <2> QED BY <2>1 DEF Woken, Undisturbed
<1>5. CASE Join
  BY <1>5 DEF Join, Close, envVars, Woken, Undisturbed
<1>6. CASE VhalReply \/ VhalCommand \/ VhalUp
  BY <1>6 DEF VhalReply, VhalCommand, VhalUp, Unmoved, talkerVars, linkVars, envVars, Woken, Undisturbed
<1>7. CASE VhalDrop
  <2>1. ndrops \in Nat /\ ndrops' = ndrops + 1 /\ UNCHANGED <<life, cpc>>
    BY <1>7, BoundAssumption DEF VhalDrop, Unmoved, talkerVars, IInv, TypeOK
  <2>2. ndrops' # 0
    BY <2>1
  <2> QED BY <2>1, <2>2 DEF Woken, Undisturbed
<1> QED BY <1>1, <1>2, <1>3, <1>4, <1>5, <1>6, <1>7, Zenon
        DEF Next, Environment, Vhal, Terminated

\* As long as no connection was lost, by a drop or by a short read, a
\* GetCameraCapabilty that was woken returns what the vHAL sent: when no wait
\* returns by itself, whatever the client calls and whatever the vHAL commands.
\* (cmd_capability_, which the talker replaces on every connection)
THEOREM CapabilityIsVhals ==
    ASSUME Spurious = FALSE
    PROVE  Spec => []CapabilityFromVhal
<1>1. Init => Woken
  BY DEF Init, Woken, Undisturbed
<1>2. IInv /\ Accounts /\ Woken /\ [Next]_vars => Woken'
  BY NextKeepsWoken, Zenon
<1>3. Woken => CapabilityFromVhal
  BY DEF Woken, Undisturbed, CapabilityFromVhal
<1> QED BY <1>1, <1>2, <1>3, Invariance, RepliesAccounted, PTL DEF Spec

\* Drops are counted one at a time, and a short read is remembered.
LEMMA DropsGrow ==
    ASSUME [Next]_vars
    PROVE  (ndrops' = ndrops \/ ndrops' = ndrops + 1) /\ (torn => torn')
<1>1. CASE Talker
  <2>1. CASE \/ TalkerWhile \/ ConnectSocket \/ ConnectThrows \/ ConnectResult \/ Setup
             \/ PollTimeout \/ PollIn \/ PollFail \/ RecvHeader \/ CallbackReturn
    BY <2>1 DEF TalkerWhile, ConnectSocket, ConnectThrows, Crash, ConnectResult, Setup,
       PollTimeout, PollIn, PollFail, RecvHeader, CallbackReturn, envVars
  <2>2. CASE RecvHeaderFails \/ HandlerFails
    BY <2>2 DEF RecvHeaderFails, HandlerFails, Short
  <2>3. CASE (HandleCapability \/ HandleAck \/ HandleCmd) /\ ~HandlerFails
    BY <2>3 DEF HandleCapability, HandleAck, HandleCmd, envVars
  <2> QED BY <1>1, <2>1, <2>2, <2>3, Zenon DEF Talker, TalkerLib
<1>2. CASE \/ ResetCameraCapabilty \/ GetRequest \/ SetHeader \/ InCall \/ SpuriousWake
           \/ SendDataHeader \/ SendDataPayload \/ Destroy \/ Join \/ ClientFault
  BY <1>2 DEF ResetCameraCapabilty, GetRequest, SetHeader, InCall, GetWait, GetReturn, SetInfo,
     SetWait, SpuriousWake, ControlLocal, SendDataHeader, SendDataPayload, DataLocal, Destroy, Join,
     ClientFault, Crash, envVars
<1>3. CASE Environment
  BY <1>3 DEF Environment, ForeignOpen, ForeignClose, Vhal, VhalReply, VhalCommand, VhalDrop,
     VhalUp, envVars
<1>4. CASE UNCHANGED vars
  BY <1>4 DEF vars, envVars
<1> QED BY <1>1, <1>2, <1>3, <1>4, Zenon DEF Next, Terminated

\* Where no connection was lost, none was lost before.
LEMMA UndisturbedBefore ==
    ASSUME IInv, [Next]_vars, Undisturbed'
    PROVE  Undisturbed
<1>1. ndrops \in Nat /\ (ndrops' = ndrops \/ ndrops' = ndrops + 1) /\ (torn => torn')
  BY DropsGrow, BoundAssumption DEF IInv, TypeOK
<1> QED BY <1>1 DEF Undisturbed

(***************************************************************************)
(* The commands.  The whole commands among the packets that the talker has *)
(* not read are the queue of CommandLink: reading, writing and dropping    *)
(* packets reads, writes and drops commands, and nothing else touches it.  *)
(***************************************************************************)
CommandsAt(q) == {i \in 1..Len(q) : WholeCommand(q[i])}
Bodies(q) == [i \in 1..Len(q) |-> q[i].body]

\* A packet that counts carries a command.
LEMMA CommandBodies ==
    ASSUME NEW q \in Seq(Packets)
    PROVE  /\ Len(q) \in Nat /\ Within(CommandsAt(q), Len(q))
           /\ Into(Bodies(q), CommandsAt(q), Commands)
           /\ CommandsIn(q) = Selected(Bodies(q), CommandsAt(q))
<1>1. Len(q) \in Nat /\ \A i \in 1..Len(q) : q[i] \in Packets
  OBVIOUS
<1>2. Within(CommandsAt(q), Len(q))
  BY <1>1 DEF Within, CommandsAt
<1>3. ASSUME NEW i \in CommandsAt(q) PROVE Bodies(q)[i] \in Commands
  <2>1. i \in 1..Len(q) /\ WholeCommand(q[i]) /\ Bodies(q)[i] = q[i].body
    BY DEF CommandsAt, Bodies
  <2>2. q[i] \in Packets
    BY <1>1, <2>1
  <2> QED BY <2>1, <2>2 DEF WholeCommand, Packets
<1>4. CommandsIn(q) = Selected(Bodies(q), CommandsAt(q))
  BY DEF CommandsIn, Bodies, CommandsAt
<1> QED BY <1>1, <1>2, <1>3, <1>4 DEF Into

\* No packet, no command.
LEMMA NoCommands == CommandsIn(<<>>) = <<>>
<1>1. CommandsAt(<<>>) = {}
  BY DEF CommandsAt
<1>2. <<>> \in Seq(Packets)
  OBVIOUS
<1>3. CommandsIn(<<>>) = Selected(Bodies(<<>>), {})
  BY <1>1, <1>2, CommandBodies
<1> QED BY <1>3, SelectedNone

\* The vHAL sends a packet.
LEMMA CommandsAppend ==
    ASSUME NEW q \in Seq(Packets), NEW p \in Packets
    PROVE  /\ CommandsIn(q) \in Seq(Commands)
           /\ CommandsIn(Append(q, p)) = IF WholeCommand(p) THEN Append(CommandsIn(q), p.body)
                                                            ELSE CommandsIn(q)
<1> DEFINE r == Append(q, p)
           n == Len(q)
<1>1. /\ r \in Seq(Packets) /\ n \in Nat /\ Len(r) = n + 1 /\ r[n + 1] = p
      /\ \A i \in 1..n : r[i] = q[i]
  BY AppendProperties
<1>2. /\ Within(CommandsAt(q), n) /\ Into(Bodies(q), CommandsAt(q), Commands)
      /\ CommandsIn(q) = Selected(Bodies(q), CommandsAt(q))
  BY CommandBodies
<1>3. /\ Into(Bodies(r), CommandsAt(r), Commands)
      /\ CommandsIn(r) = Selected(Bodies(r), CommandsAt(r))
  BY <1>1, CommandBodies
<1>4. CommandsIn(q) \in Seq(Commands)
  BY <1>1, <1>2, SelectedType
<1> HIDE DEF r
<1>5. Agree(Bodies(q), Bodies(r), CommandsAt(q))
  BY <1>1 DEF Agree, CommandsAt, Bodies
<1>6. CASE WholeCommand(p)
  <2>1. CommandsAt(r) = CommandsAt(q) \cup {n + 1}
    BY <1>1, <1>6 DEF CommandsAt
  <2>2. Bodies(r)[n + 1] = p.body /\ n + 1 \in CommandsAt(r)
    BY <1>1, <2>1 DEF Bodies
  <2>3. Bodies(r)[n + 1] \in Commands
    BY <1>3, <2>2 DEF Into
  <2>4. Selected(Bodies(r), CommandsAt(r)) = Append(Selected(Bodies(q), CommandsAt(q)), Bodies(r)[n + 1])
    BY <1>1, <1>2, <1>5, <2>1, <2>3, SelectedAppend
  <2> QED BY <1>2, <1>3, <1>4, <1>6, <2>2, <2>4 DEF r
<1>7. CASE ~WholeCommand(p)
  <2>1. CommandsAt(r) = CommandsAt(q)
    BY <1>1, <1>7 DEF CommandsAt
  <2>2. Selected(Bodies(r), CommandsAt(q)) = Selected(Bodies(q), CommandsAt(q))
    BY <1>1, <1>2, <1>5, SelectedSame
  <2> QED BY <1>2, <1>3, <1>4, <1>7, <2>1, <2>2 DEF r
<1> QED BY <1>6, <1>7

\* The talker reads a packet.
LEMMA CommandsTail ==
    ASSUME NEW q \in Seq(Packets), q # <<>>
    PROVE  /\ ~WholeCommand(Head(q)) => CommandsIn(Tail(q)) = CommandsIn(q)
           /\ WholeCommand(Head(q)) => /\ CommandsIn(q) # <<>>
                                       /\ Head(CommandsIn(q)) = Head(q).body
                                       /\ CommandsIn(Tail(q)) = Tail(CommandsIn(q))
<1> DEFINE r == Tail(q)
           n == Len(q)
<1>1. /\ r \in Seq(Packets) /\ n \in Nat /\ n >= 1 /\ Len(r) = n - 1 /\ Head(q) = q[1]
      /\ \A i \in 1..(n - 1) : r[i] = q[i + 1]
  BY HeadTailProperties, EmptySeq
<1>2. /\ Within(CommandsAt(q), n) /\ Into(Bodies(q), CommandsAt(q), Commands)
      /\ CommandsIn(q) = Selected(Bodies(q), CommandsAt(q))
  BY CommandBodies
<1>3. CommandsIn(r) = Selected(Bodies(r), CommandsAt(r))
  BY <1>1, CommandBodies
<1> HIDE DEF r
<1>4. Within(CommandsAt(r), n)
  BY <1>1 DEF Within, CommandsAt
<1>5. Moved(Bodies(q), CommandsAt(q), Bodies(r), CommandsAt(r))
  <2>1. ASSUME NEW i \in Nat, i >= 1
        PROVE  i \in CommandsAt(r) <=> i + 1 \in CommandsAt(q)
    BY <1>1, <2>1 DEF CommandsAt
  <2>2. ASSUME NEW i \in CommandsAt(r) PROVE Bodies(r)[i] = Bodies(q)[i + 1]
    BY <1>1, <2>2 DEF CommandsAt, Bodies
  <2> QED BY <2>1, <2>2 DEF Moved
<1>6. 1 \in CommandsAt(q) <=> WholeCommand(Head(q))
  BY <1>1 DEF CommandsAt
<1>7. Bodies(q)[1] = Head(q).body
  BY <1>1 DEF Bodies
<1> DEFINE s == Selected(Bodies(q), CommandsAt(q))
           t == Selected(Bodies(r), CommandsAt(r))
<1>8. /\ 1 \notin CommandsAt(q) => t = s
      /\ 1 \in CommandsAt(q) => s # <<>> /\ Head(s) = Bodies(q)[1] /\ t = Tail(s)
  BY <1>1, <1>2, <1>4, <1>5, SelectedTail
<1> QED BY <1>2, <1>3, <1>6, <1>7, <1>8 DEF r

\* The vHAL drops the connection: the commands lose their end.
LEMMA CommandsRemain ==
    ASSUME inbox \in Seq(Packets), NEW n \in 0..Len(inbox), NEW isCut \in BOOLEAN
    PROVE  \E k \in 0..Len(CommandsIn(inbox)) :
             CommandsIn(Remains(n, isCut)) = SubSeq(CommandsIn(inbox), 1, k)
<1> DEFINE r == Remains(n, isCut)
           s == SubSeq(inbox, 1, n)
           m == IF isCut /\ n > 0 THEN n - 1 ELSE n
<1>1. /\ s \in Seq(Packets) /\ Len(s) = n /\ n \in Nat /\ n <= Len(inbox) /\ m \in Nat
      /\ \A i \in 1..n : s[i] = inbox[i]
  BY SubSeqProperties
<1>2. /\ Len(inbox) \in Nat /\ Within(CommandsAt(inbox), Len(inbox))
      /\ Into(Bodies(inbox), CommandsAt(inbox), Commands)
      /\ CommandsIn(inbox) = Selected(Bodies(inbox), CommandsAt(inbox))
  BY CommandBodies
<1>3. r \in Seq(Packets)
  BY RemainsType
<1>4. CommandsIn(r) = Selected(Bodies(r), CommandsAt(r))
  <2> HIDE DEF r
  <2> QED BY <1>3, CommandBodies
<1>5. /\ Len(r) = n /\ \A i \in 1..m : r[i] = inbox[i]
      /\ \A i \in (m + 1)..n : ~WholeCommand(r[i])
  <2>1. CASE isCut /\ n > 0
    <3>1. r = [s EXCEPT ![n].body = "cut"] /\ m = n - 1
      BY <2>1 DEF Remains
    <3> HIDE DEF s
    <3>2. Len([s EXCEPT ![n].body = "cut"]) = n
      BY <1>1, <2>1, CutInSeq
    <3>3. /\ \A i \in 1..(n - 1) : [s EXCEPT ![n].body = "cut"][i] = s[i]
          /\ [s EXCEPT ![n].body = "cut"][n].body = "cut"
      <4>1. s[n] \in Packets /\ n \in DOMAIN s /\ DOMAIN s = 1..n
        BY <1>1, <2>1
      <4> QED BY <1>1, <4>1 DEF Packets
    <3> HIDE DEF r, m
    <3> QED BY <1>1, <2>1, <3>1, <3>2, <3>3 DEF WholeCommand
  <2>2. CASE ~(isCut /\ n > 0)
    <3>1. r = s /\ m = n
      BY <2>2 DEF Remains
    <3> HIDE DEF r, s, m
    <3> QED BY <1>1, <3>1
  <2> QED BY <2>1, <2>2
<1>6. m <= n
  BY <1>1
<1> HIDE DEF r, s, m
<1>7. CommandsAt(r) = UpTo(CommandsAt(inbox), m)
  <2>1. ASSUME NEW i \in 1..n PROVE i \in CommandsAt(r) <=> i \in CommandsAt(inbox) /\ i <= m
    <3>1. i \in 1..m \/ i \in (m + 1)..n
      BY <1>1, <1>6
    <3> QED BY <1>1, <1>2, <1>5, <3>1 DEF CommandsAt
  <2>2. \A i \in CommandsAt(r) : i \in 1..n
    BY <1>5 DEF CommandsAt
  <2>3. \A i \in CommandsAt(inbox) : i <= m => i \in 1..n
    BY <1>1, <1>2, <1>6 DEF CommandsAt
  <2> QED BY <2>1, <2>2, <2>3 DEF UpTo
<1>8. Agree(Bodies(inbox), Bodies(r), CommandsAt(r))
  <2>1. ASSUME NEW i \in CommandsAt(r) PROVE i \in 1..m /\ i \in 1..n /\ i \in 1..Len(inbox)
    BY <1>1, <1>2, <1>6, <1>7 DEF CommandsAt, UpTo
  <2> QED BY <1>5, <2>1 DEF Agree, Bodies
<1> DEFINE k == Cardinality(CommandsAt(r))
<1>9. /\ k \in 0..Len(Selected(Bodies(inbox), CommandsAt(inbox)))
      /\ Selected(Bodies(r), CommandsAt(r))
           = SubSeq(Selected(Bodies(inbox), CommandsAt(inbox)), 1, k)
  BY <1>1, <1>2, <1>7, <1>8, SelectedPrefix
<1> QED BY <1>2, <1>4, <1>9 DEF r

\* When the process or the VideoSink ends, the link does.
LEMMA EndStep == ASSUME Ended', torn' = torn PROVE CL!End
BY DEF CL!End, linkOf, queueOf, runningOf

\* A step that leaves the connection, the commands and the callback alone.
LEMMA StutterStep ==
    ASSUME IInv, IInv', ~Ended, ~Ended', peer' = peer, torn' = torn,
           CommandsIn(inbox)' = CommandsIn(inbox),
           (tpc' # "callback" /\ tpc # "callback") \/ (tpc' = tpc /\ cmd' = cmd)
    PROVE  UNCHANGED CL!lvars
BY DEF CL!lvars, linkOf, queueOf, runningOf, IInv, TypeOK

\* Close() on a connection that the vHAL has dropped, on one a read of which was
\* short, or on none.
LEMMA CloseStep ==
    ASSUME IInv, IInv', ~Ended, ~Ended', Close, tpc # "callback", tpc' # "callback",
           IF peer = "open" THEN torn' = TRUE ELSE torn' = torn
    PROVE  CL!Down \/ CL!Abandon \/ UNCHANGED CL!lvars
<1>1. peer' = "none" /\ inbox' = <<>>
  BY DEF Close
<1>2. CommandsIn(inbox)' = <<>>
  BY <1>1, NoCommands
<1>3. /\ linkOf' = "down" /\ queueOf' = <<>> /\ runningOf' = "none" /\ runningOf = "none"
  BY <1>1, <1>2 DEF linkOf, queueOf, runningOf
<1>4. CASE peer = "closed"
  <2>1. linkOf = "dropped" /\ torn' = torn
    BY <1>4 DEF linkOf
  <2> QED BY <1>3, <2>1 DEF CL!Down
<1>5. CASE peer = "none"
  <2>1. inbox = <<>>
    BY <1>5 DEF IInv, InboxState
  <2>2. CommandsIn(inbox)' = CommandsIn(inbox) /\ peer' = peer
    BY <1>1, <1>2, <1>5, <2>1, NoCommands
  <2> QED BY <1>5, <2>2, StutterStep
<1>6. CASE peer = "open"
  <2>1. linkOf = "up" /\ torn' = TRUE
    BY <1>6 DEF linkOf
  <2> QED BY <1>3, <2>1 DEF CL!Abandon
<1> QED BY <1>4, <1>5, <1>6 DEF IInv, TypeOK

\* On a connection that is up a short read is noted, on any other it is not.
LEMMA Torn ==
    ASSUME IInv, RecvHeaderFails \/ HandlerFails
    PROVE  /\ torn \in BOOLEAN /\ torn' \in BOOLEAN
           /\ peer # "open" => torn' = torn
BY DEF IInv, TypeOK, RecvHeaderFails, HandlerFails, Short

\* The talker hands a command to the callback, or throws a packet away.
LEMMA TalkerLink ==
    ASSUME IInv, IInv', Talker
    PROVE  [CL!Next]_(CL!lvars)
<1>0. inbox \in Seq(Packets) /\ ~Ended
  <2>1. Running
    BY DEF Talker, TalkerLib, TalkerWhile, ConnectSocket, ConnectThrows, ConnectResult, Setup,
           PollTimeout, PollIn, PollFail, RecvHeader, RecvHeaderFails, HandleCapability,
           HandleAck, HandleCmd, BodyOf, CallbackReturn
  <2> QED BY <2>1 DEF Running, Ended, IInv, TypeOK
<1>1. CASE TalkerWhile \/ ConnectSocket \/ Setup \/ PollTimeout \/ PollIn
  <2>1. /\ life' = life /\ UNCHANGED <<peer, inbox, torn>>
        /\ tpc # "callback" /\ tpc' # "callback"
    BY <1>1 DEF TalkerWhile, ConnectSocket, Setup, PollTimeout, PollIn, LoopCheck, linkVars, envVars
  <2>2. ~Ended' /\ peer' = peer /\ CommandsIn(inbox)' = CommandsIn(inbox)
    BY <1>0, <2>1 DEF Ended
  <2> QED BY <1>0, <2>1, <2>2, StutterStep
<1>2. CASE ConnectThrows
  <2>1. Ended' /\ torn' = torn
    BY <1>2 DEF ConnectThrows, Crash, Ended, envVars
  <2> QED BY <2>1, EndStep DEF CL!Next
<1>3. CASE ConnectResult
  <2>1. /\ life' = life /\ inbox' = inbox /\ tpc = "connecting" /\ tpc' # "callback"
        /\ peer' = IF srv THEN "open" ELSE peer
        /\ torn' = torn
    BY <1>3 DEF ConnectResult, envVars
  <2>2. peer = "none"
    BY <2>1 DEF IInv, LinkState
  <2>3. ~Ended' /\ CommandsIn(inbox)' = CommandsIn(inbox)
    BY <1>0, <2>1 DEF Ended
  <2>4. CASE srv
    <3>1. /\ linkOf = "down" /\ linkOf' = "up" /\ runningOf = "none" /\ runningOf' = "none"
          /\ queueOf' = queueOf
      BY <1>0, <2>1, <2>2, <2>3, <2>4 DEF linkOf, queueOf, runningOf
    <3> QED BY <2>1, <3>1 DEF CL!Next, CL!Up
  <2>5. CASE ~srv
    BY <1>0, <2>1, <2>3, <2>5, StutterStep
  <2> QED BY <2>4, <2>5
<1>4. CASE PollFail \/ RecvHeaderFails
  <2>1. /\ life' = life /\ Close /\ tpc # "callback" /\ tpc' # "callback"
    BY <1>4 DEF PollFail, RecvHeaderFails, Short, LoopCheck
  <2>2. IF peer = "open" THEN torn' = TRUE ELSE torn' = torn
    BY <1>4, NoErrorPath, Torn DEF PollFail, envVars
  <2>3. ~Ended'
    BY <1>0, <2>1 DEF Ended
  <2>4. CL!Down \/ CL!Abandon \/ UNCHANGED CL!lvars
    BY <1>0, <2>1, <2>2, <2>3, CloseStep
  <2> QED BY <2>4 DEF CL!Next
<1>5. CASE RecvHeader
  <2>1. /\ life' = life /\ peer' = peer /\ tpc # "callback" /\ tpc' # "callback" /\ inbox # <<>>
        /\ inbox' = IF Head(inbox).type = "OTHER" THEN Tail(inbox) ELSE inbox
        /\ torn' = torn
    BY <1>5 DEF RecvHeader, LoopCheck, envVars
  <2>2. CommandsIn(inbox') = CommandsIn(inbox)
    BY <1>0, <2>1, CommandsTail DEF WholeCommand
  <2>3. ~Ended' /\ CommandsIn(inbox)' = CommandsIn(inbox)
    BY <1>0, <2>1, <2>2 DEF Ended
  <2> QED BY <1>0, <2>1, <2>3, StutterStep
<1>6. CASE HandleCapability \/ HandleAck \/ HandleCmd
  <2>1. /\ tpc = "recvBody" /\ life' = life
        /\ Head(inbox).type \in {"CAPABILITY", "ACK", "CAMERA_CONFIG"}
        /\ \/ HandlerFails
           \/ /\ BodyWhole /\ inbox' = Tail(inbox) /\ peer' = peer /\ torn' = torn
              /\ IF Head(inbox).type = "CAMERA_CONFIG"
                   THEN tpc' = "callback" /\ cmd' = Head(inbox).body
                   ELSE tpc' # "callback"
    BY <1>6 DEF HandleCapability, HandleAck, HandleCmd, BodyOf, BodyRead, HandlerFails, Short,
                LoopCheck, envVars
  <2>2. ~Ended' /\ inbox # <<>>
    BY <1>0, <2>1 DEF Ended, IInv, InboxState
  <2>3. CASE HandlerFails
    <3>1. /\ Close /\ tpc' # "callback"
          /\ IF peer = "open" THEN torn' = TRUE ELSE torn' = torn
      BY <2>1, <2>3, NoErrorPath, Torn DEF HandlerFails, Short, LoopCheck
    <3>2. CL!Down \/ CL!Abandon \/ UNCHANGED CL!lvars
      BY <1>0, <2>1, <2>2, <3>1, CloseStep
    <3> QED BY <3>2 DEF CL!Next
  <2>4. CASE ~HandlerFails
    <3>1. CASE Head(inbox).type = "CAMERA_CONFIG"
      <4>1. WholeCommand(Head(inbox)) /\ cmd' = Head(inbox).body /\ tpc' = "callback"
        BY <2>1, <2>4, <3>1 DEF WholeCommand, BodyWhole
      <4>2. /\ CommandsIn(inbox) # <<>> /\ Head(CommandsIn(inbox)) = cmd'
            /\ CommandsIn(inbox') = Tail(CommandsIn(inbox))
        BY <1>0, <2>1, <2>2, <2>4, <4>1, CommandsTail
      <4>3. peer # "none" /\ peer' = peer
        BY <2>1, <2>2, <2>4 DEF IInv, InboxState
      <4>4. /\ linkOf \in {"up", "dropped"} /\ linkOf' = linkOf
            /\ queueOf = CommandsIn(inbox) /\ queueOf' = CommandsIn(inbox')
            /\ runningOf = "none" /\ runningOf' = cmd' /\ torn' = torn
        BY <1>0, <2>1, <2>2, <2>4, <4>1, <4>3 DEF linkOf, queueOf, runningOf, IInv, TypeOK
      <4> QED BY <4>2, <4>4 DEF CL!Next, CL!Deliver
    <3>2. CASE Head(inbox).type # "CAMERA_CONFIG"
      <4>1. CommandsIn(inbox') = CommandsIn(inbox)
        BY <1>0, <2>1, <2>2, <2>4, <3>2, CommandsTail DEF WholeCommand
      <4>2. /\ CommandsIn(inbox)' = CommandsIn(inbox) /\ peer' = peer /\ torn' = torn
            /\ tpc' # "callback" /\ tpc # "callback"
        BY <2>1, <2>4, <3>2, <4>1
      <4> QED BY <1>0, <2>2, <4>2, StutterStep
    <3> QED BY <3>1, <3>2
  <2> QED BY <2>3, <2>4
<1>7. CASE CallbackReturn
  <2>1. /\ life' = life /\ UNCHANGED <<peer, inbox, torn>>
        /\ tpc = "callback" /\ tpc' # "callback"
    BY <1>7 DEF CallbackReturn, LoopCheck, linkVars, envVars
  <2>2. /\ runningOf # "none" /\ runningOf' = "none" /\ linkOf' = linkOf /\ queueOf' = queueOf
    BY <1>0, <2>1 DEF linkOf, queueOf, runningOf, Ended, IInv, TypeOK, Commands
  <2> QED BY <2>1, <2>2 DEF CL!Next, CL!Return
<1> QED BY <1>1, <1>2, <1>3, <1>4, <1>5, <1>6, <1>7 DEF Talker, TalkerLib

\* The vHAL sends a command or another packet, or drops the connection.
LEMMA VhalLink ==
    ASSUME IInv, IInv', Vhal
    PROVE  [CL!Next]_(CL!lvars)
<1>0. /\ inbox \in Seq(Packets) /\ owed \in Seq(Replies) /\ ~Ended /\ ~Ended'
      /\ life' = life /\ UNCHANGED <<tpc, cmd, torn>>
  BY DEF Vhal, VhalReply, VhalCommand, VhalDrop, VhalUp, Unmoved, talkerVars, envVars, Running,
         Ended, IInv, TypeOK
<1>1. ASSUME NEW p \in Packets, ~WholeCommand(p), inbox' = Append(inbox, p), peer' = peer
      PROVE  UNCHANGED CL!lvars
  <2>1. CommandsIn(inbox') = CommandsIn(inbox)
    BY <1>0, <1>1, CommandsAppend
  <2>2. CommandsIn(inbox)' = CommandsIn(inbox)
    BY <2>1
  <2> QED BY <1>0, <1>1, <2>2, StutterStep
<1>2. CASE VhalReply
  <2>1. owed # <<>> /\ inbox' = Append(inbox, [type |-> Head(owed), body |-> "ok"]) /\ peer' = peer
    BY <1>2 DEF VhalReply
  <2>2. Head(owed) \in Replies
    BY <1>0, <2>1
  <2> DEFINE p == [type |-> Head(owed), body |-> "ok"]
  <2>3. p \in Packets /\ ~WholeCommand(p)
    BY <2>2 DEF Packets, WholeCommand, Replies
  <2>4. UNCHANGED CL!lvars
    <3> HIDE DEF p
    <3>1. inbox' = Append(inbox, p)
      BY <2>1 DEF p
    <3> QED BY <1>1, <2>1, <2>3, <3>1
  <2> QED BY <2>4
<1>3. CASE VhalCommand
  <2>1. peer = "open" /\ peer' = peer
    BY <1>3 DEF VhalCommand
  <2>2. ASSUME NEW c \in Commands, inbox' = Append(inbox, [type |-> "CAMERA_CONFIG", body |-> c])
        PROVE  CL!Send(c)
    <3> DEFINE p == [type |-> "CAMERA_CONFIG", body |-> c]
    <3>1. p \in Packets /\ WholeCommand(p) /\ p.body = c
      BY DEF Packets, WholeCommand, Commands
    <3>2. inbox' = Append(inbox, p)
      BY <2>2
    <3> HIDE DEF p
    <3>3. CommandsIn(inbox') = Append(CommandsIn(inbox), c)
      BY <1>0, <3>1, <3>2, CommandsAppend
    <3>4. /\ linkOf = "up" /\ linkOf' = linkOf /\ runningOf' = runningOf
          /\ queueOf = CommandsIn(inbox) /\ queueOf' = CommandsIn(inbox')
      BY <1>0, <2>1 DEF linkOf, queueOf, runningOf
    <3> QED BY <1>0, <3>3, <3>4 DEF CL!Send
  <2>3. CASE inbox' = Append(inbox, [type |-> "OTHER", body |-> "ok"])
    <3> DEFINE p == [type |-> "OTHER", body |-> "ok"]
    <3>1. p \in Packets /\ ~WholeCommand(p) /\ inbox' = Append(inbox, p)
      BY <2>3 DEF Packets, WholeCommand
    <3> HIDE DEF p
    <3> QED BY <1>1, <2>1, <3>1
  <2> QED BY <1>3, <2>2, <2>3 DEF VhalCommand, CL!Next
<1>4. CASE VhalDrop
  <2>1. peer = "open" /\ peer' = "closed"
    BY <1>4 DEF VhalDrop
  <2>2. PICK n \in 0..Len(inbox), isCut \in BOOLEAN : inbox' = Remains(n, isCut)
    <3>1. PICK n \in (IF tpc = "recvBody" THEN 1 ELSE 0)..Len(inbox), isCut \in BOOLEAN :
            inbox' = Remains(n, isCut)
      BY <1>4 DEF VhalDrop
    <3>2. n \in 0..Len(inbox)
      BY <1>0
    <3> QED BY <3>1, <3>2
  <2>3. \E k \in 0..Len(CommandsIn(inbox)) : CommandsIn(inbox') = SubSeq(CommandsIn(inbox), 1, k)
    BY <1>0, <2>2, CommandsRemain
  <2>4. /\ linkOf = "up" /\ linkOf' = "dropped" /\ runningOf' = runningOf
        /\ queueOf = CommandsIn(inbox) /\ queueOf' = CommandsIn(inbox')
    BY <1>0, <2>1 DEF linkOf, queueOf, runningOf
  <2>5. CL!Drop
    BY <1>0, <2>3, <2>4 DEF CL!Drop
  <2> QED BY <2>5 DEF CL!Next
<1>5. CASE VhalUp
  <2>1. UNCHANGED <<peer, inbox>>
    BY <1>5 DEF VhalUp, linkVars
  <2>2. peer' = peer /\ CommandsIn(inbox)' = CommandsIn(inbox)
    BY <2>1
  <2> QED BY <1>0, <2>2, StutterStep
<1> QED BY <1>2, <1>3, <1>4, <1>5 DEF Vhal

\* Every step is one of CommandLink's, or none.
LEMMA StepImplements ==
    ASSUME IInv, IInv', [Next]_vars
    PROVE  [CL!Next]_(CL!lvars)
<1>1. CASE Talker
  BY <1>1, TalkerLink
<1>2. CASE Vhal
  BY <1>2, VhalLink
<1>3. CASE Ended' /\ torn' = torn
  <2>1. CL!End
    BY <1>3, EndStep
  <2> QED BY <2>1 DEF CL!Next
<1>4. CASE /\ ~Ended'
           /\ \/ ResetCameraCapabilty \/ GetRequest \/ SetHeader \/ InCall \/ SpuriousWake
              \/ SendDataHeader \/ SendDataPayload \/ Destroy \/ ForeignOpen \/ ForeignClose
  <2>1. UNCHANGED <<tpc, cmd, peer, inbox, torn>> /\ ~Ended
    <3>1. CASE ResetCameraCapabilty \/ GetRequest \/ SetHeader \/ InCall \/ SpuriousWake
      BY <1>4, <3>1 DEF ResetCameraCapabilty, GetRequest, SetHeader, InCall, GetWait, GetReturn,
         SetInfo, SetWait, SpuriousWake, SendOk, SendFails, Crash, ControlLocal, linkVars,
         envVars, Running, Ended
    <3>2. CASE SendDataHeader \/ SendDataPayload
      BY <1>4, <3>2 DEF SendDataHeader, SendDataPayload, SendOk, SendFails, Crash, DataLocal,
         linkVars, envVars, Running, Ended
    <3>3. CASE Destroy \/ ForeignOpen \/ ForeignClose
      BY <1>4, <3>3 DEF Destroy, ForeignOpen, ForeignClose, talkerVars, linkVars, envVars, Running, Ended
    <3> QED BY <1>4, <3>1, <3>2, <3>3
  <2>2. peer' = peer /\ CommandsIn(inbox)' = CommandsIn(inbox) /\ tpc' = tpc /\ cmd' = cmd
    BY <2>1
  <2> QED BY <1>4, <2>1, <2>2, StutterStep
<1>5. CASE Join \/ ClientFault
  <2>1. Ended' /\ torn' = torn
    BY <1>5 DEF Join, ClientFault, Crash, Ended, envVars
  <2> QED BY <1>3, <2>1
<1>6. CASE UNCHANGED vars
  <2>1. UNCHANGED <<life, tpc, cmd, peer, inbox, torn>>
    BY <1>6 DEF vars, talkerVars, linkVars, envVars
  <2>2. UNCHANGED CL!lvars
    BY <2>1 DEF CL!lvars, linkOf, queueOf, runningOf, Ended
  <2> QED BY <2>2
<1>7. \/ ResetCameraCapabilty \/ GetRequest \/ SetHeader \/ InCall \/ SpuriousWake
      \/ SendDataHeader \/ SendDataPayload \/ Destroy \/ ForeignOpen \/ ForeignClose
      => torn' = torn
  BY DEF ResetCameraCapabilty, GetRequest, SetHeader, InCall, GetWait, GetReturn, SetInfo, SetWait,
     SpuriousWake, ControlLocal, SendDataHeader, SendDataPayload, DataLocal, Crash, Destroy,
     ForeignOpen, ForeignClose, envVars
<1> QED BY <1>1, <1>2, <1>3, <1>4, <1>5, <1>6, <1>7, Zenon DEF Next, Environment, Terminated

\* The VideoSink implements CommandLink: the commands of one connection reach
\* the callback one at a time, whole, in order and none twice, and none is lost
\* but with the connection, which only a drop, a short read and the end of the
\* VideoSink lose.  (the talker's receive loop and handle_cmd)
THEOREM VideoSinkDelivers == Spec => DeliversCommands
<1>1. Init => CL!Init
  <2> SUFFICES ASSUME Init PROVE CL!Init
    OBVIOUS
  <2>1. life = "live" /\ peer = "none" /\ inbox = <<>> /\ tpc = "while" /\ torn = FALSE
    BY DEF Init
  <2> QED BY <2>1, NoCommands DEF CL!Init, linkOf, queueOf, runningOf, Ended
<1>2. IInv /\ IInv' /\ [Next]_vars => [CL!Next]_(CL!lvars)
  BY StepImplements
<1> QED BY <1>1, <1>2, Invariance, PTL DEF Spec, DeliversCommands, CL!Spec
=============================================================================
