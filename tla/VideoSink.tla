----------------------------- MODULE VideoSink -----------------------------
(***************************************************************************)
(* The camera channel of libvhal-client: VideoSink::Impl                   *)
(* (source/video_sink_impl.h) on top of a stream socket client             *)
(* (source/{unix,vsock}_stream_socket_client_impl.h).                      *)
(*                                                                         *)
(* Four parties touch the state, and no lock orders them:                  *)
(*   - the talker thread that the constructor starts: it connects, polls,  *)
(*     reads packets of the Camera vHAL and runs the client's callback;    *)
(*   - one control thread of the client, which calls ResetCameraCapabilty, *)
(*     GetCameraCapabilty and SetCameraCapabilty;                          *)
(*   - one data thread of the client, which calls SendDataPacket;          *)
(*   - the Camera vHAL (external), with the kernel's descriptor table.     *)
(***************************************************************************)
EXTENDS Integers, Sequences, FiniteSets, Selection

CONSTANTS
    Fds,         \* the descriptors the process may have open
    SigPipe,     \* a send to a peer that is gone kills the process
    ForeignFds,  \* the rest of the process opens and closes descriptors
    Spurious,    \* a condition wait may return without a signal
    MaxCmds,     \* bound: packets the vHAL sends on its own initiative
    MaxDrops,    \* bound: connections the vHAL drops
    MaxPending   \* bound: packets on their way when a request is sent

ASSUME FdsAssumption == Fds \subseteq Nat
ASSUME SwitchAssumption == /\ SigPipe \in BOOLEAN
                           /\ ForeignFds \in BOOLEAN
                           /\ Spurious \in BOOLEAN
ASSUME BoundAssumption == MaxCmds \in Nat /\ MaxDrops \in Nat /\ MaxPending \in Nat

VARIABLES
    life,       \* "live"; "joining": should_continue_ is false; "destroyed"; "dead"
    tpc,        \* where the talker thread is
    cmd,        \* the camera command the callback is running on
    pollFd,     \* fds[0].fd of the talker's pollfd array
    fd_,        \* the socket client's descriptor
    connected_, \* the socket client's flag
    fdt,        \* the kernel's descriptor table
    cap,        \* what *cmd_capability_ holds
    cpc,        \* where the control thread is
    dpc,        \* where the data thread is
    peer,       \* vHAL's end of the connection
    srv,        \* the vHAL listens
    inbox,      \* packets of the vHAL that the talker has not read
    frame,      \* what the vHAL's parser expects next
    owed,       \* replies the vHAL owes
    ncmds, ndrops,
    torn        \* a read has returned part of a packet on a connection that was up

talkerVars == <<life, tpc, cmd, pollFd>>
sockVars   == <<fd_, connected_, fdt>>
linkVars   == <<peer, inbox, frame, owed>>
envVars    == <<srv, ncmds, ndrops, torn>>
vars == <<talkerVars, sockVars, cap, cpc, dpc, linkVars, envVars>>

NoFd == -1

Commands == {"OPEN", "CLOSE", "NONE"}

(***************************************************************************)
(* A packet is a header, of which the type matters, and a body.  The body  *)
(* is "cut" when the connection went down before all of it was sent.       *)
(***************************************************************************)
Packets == [type : {"CAPABILITY", "ACK", "OTHER"}, body : {"ok", "cut"}]
             \cup [type : {"CAMERA_CONFIG"}, body : Commands \cup {"cut"}]

Replies == {"CAPABILITY", "ACK"}

TypeOK ==
    /\ life \in {"live", "joining", "destroyed", "dead"}
    /\ tpc \in {"while", "socket", "connecting", "setup", "poll", "recvHdr",
                "recvBody", "callback", "exited"}
    /\ cmd \in Commands
    /\ pollFd \in Fds \cup {NoFd}
    /\ fd_ \in Fds \cup {NoFd}
    /\ connected_ \in BOOLEAN
    /\ fd_ = NoFd => connected_ = FALSE
    /\ fdt \in [Fds -> {"free", "sock", "file"}]
    /\ cap \in {"null", "fresh", "vhal", "partial"}
    /\ cpc \in {"idle", "resetWaiting", "getSent", "getWaiting", "getWoken",
                "setHdr", "setSent", "setWaiting"}
    /\ dpc \in {"idle", "pay"}
    /\ peer \in {"none", "open", "closed"}
    /\ srv \in BOOLEAN
    /\ inbox \in Seq(Packets)
    /\ frame \in {"hdr", "info", "data", "bad"}
    /\ owed \in Seq(Replies)
    /\ ncmds \in 0..MaxCmds
    /\ ndrops \in 0..MaxDrops
    /\ torn \in BOOLEAN

Init ==
    /\ life = "live" /\ tpc = "while" /\ cmd = "NONE" /\ pollFd = NoFd
    /\ fd_ = NoFd /\ connected_ = FALSE
    /\ fdt = [f \in Fds |-> "free"]
    /\ cap = "null" /\ cpc = "idle" /\ dpc = "idle"
    /\ peer = "none" /\ inbox = <<>> /\ frame = "hdr" /\ owed = <<>>
    /\ srv \in BOOLEAN
    /\ ncmds = 0 /\ ndrops = 0 /\ torn = FALSE

(***************************************************************************)
(* A definition whose name ends in _Bug is a plausible fault in the code   *)
(* that the definition after it models.  No specification uses one: each   *)
(* shows that a property notices the fault (README, "Sensitivity").        *)
(***************************************************************************)

(***************************************************************************)
(* The process: while it is up its threads may run.  An exception that     *)
(* leaves a thread, or SIGPIPE, takes all of it down.                      *)
(***************************************************************************)
Running == life \in {"live", "joining"}

Crash == /\ life' = "dead"
         /\ UNCHANGED <<tpc, cmd, pollFd, sockVars, cap, cpc, dpc, linkVars, envVars>>

(***************************************************************************)
(* The stream socket client.                                               *)
(***************************************************************************)
\* the descriptor is forgotten and not closed
Released_Bug == fdt

Released == IF fd_ = NoFd THEN fdt ELSE [fdt EXCEPT ![fd_] = "free"]

\* connected_ stays
Close_Bug ==
    /\ connected_' = connected_
    /\ fd_' = NoFd
    /\ fdt' = Released
    /\ peer' = "none" /\ inbox' = <<>> /\ frame' = "hdr" /\ owed' = <<>>

\* Close(): the connection and all that was in flight on it is gone
Close ==
    /\ connected_' = FALSE
    /\ fd_' = NoFd
    /\ fdt' = Released
    /\ peer' = "none" /\ inbox' = <<>> /\ frame' = "hdr" /\ owed' = <<>>

\* socket() returns the lowest descriptor that is free
LowestFree(t) == {f \in Fds : t[f] = "free" /\ \A g \in Fds : t[g] = "free" => f <= g}

(***************************************************************************)
(* The vHAL's parser of the byte stream it receives (external).  A chunk   *)
(* is what one Send carries: a header of each type or a payload.           *)
(***************************************************************************)
Framing(f, c) ==
    CASE f = "hdr"  /\ c = "REQUEST" -> "hdr"
      [] f = "hdr"  /\ c = "INFO"    -> "info"
      [] f = "info" /\ c = "info"    -> "hdr"
      [] f = "hdr"  /\ c = "DATA"    -> "data"
      [] f = "data" /\ c = "data"    -> "hdr"
      [] OTHER -> "bad"

Answer(f, c) ==
    CASE f = "hdr"  /\ c = "REQUEST" -> <<"CAPABILITY">>
      [] f = "info" /\ c = "info"    -> <<"ACK">>
      [] OTHER -> <<>>

\* Send() returned the number of bytes it was given.  The send is blocking: that
\* it returns at all is the vHAL's doing, which reads what it is sent
SendOk(c) ==
    /\ peer = "open"
    /\ frame' = Framing(frame, c)
    /\ owed' = owed \o Answer(frame, c)
    /\ UNCHANGED <<peer, inbox>>

\* Send() returned -1: no descriptor, not connected, or the peer is gone
SendFails ==
    /\ peer = "none" \/ (peer = "closed" /\ ~SigPipe)
    /\ UNCHANGED linkVars

\* Send() raised SIGPIPE
SendKilled == peer = "closed" /\ SigPipe

(***************************************************************************)
(* The talker thread.                                                      *)
(***************************************************************************)
\* the inner loop does not look at should_continue_
LoopCheck_Bug == "poll"

LoopCheck == IF life = "live" THEN "poll" ELSE "while"

\* `while (should_continue_)` and `if (not Connected())`
TalkerWhile ==
    /\ Running /\ tpc = "while"
    /\ tpc' = IF life # "live" THEN "exited"
              ELSE IF connected_ THEN "setup" ELSE "socket"
    /\ UNCHANGED <<life, cmd, pollFd, sockVars, cap, cpc, dpc, linkVars, envVars>>

\* Connect() up to socket(): an open descriptor is closed first
ConnectSocket ==
    /\ Running /\ tpc = "socket"
    /\ connected_' = FALSE
    /\ \E f \in LowestFree(Released) :
         /\ fd_' = f
         /\ fdt' = [Released EXCEPT ![f] = "sock"]
    /\ tpc' = "connecting"
    /\ UNCHANGED <<life, cmd, pollFd, cap, cpc, dpc, linkVars, envVars>>

\* socket() fails: Connect() throws, and nothing in the talker catches it
ConnectThrows ==
    /\ Running /\ tpc = "socket"
    /\ LowestFree(Released) = {}
    /\ Crash

\* connect(); after a failure the talker sleeps and tries again
ConnectResult ==
    /\ Running /\ tpc = "connecting"
    /\ connected_' = srv
    /\ IF srv THEN /\ tpc' = "setup"
                   /\ peer' = "open"
              ELSE /\ tpc' = "while"
                   /\ peer' = peer
    /\ UNCHANGED <<life, cmd, pollFd, fd_, fdt, cap, cpc, dpc,
                   inbox, frame, owed, envVars>>

\* the pollfd array, a new cmd_capability_, and the signal to Reset
Setup ==
    /\ Running /\ tpc = "setup"
    /\ pollFd' = fd_
    /\ cap' = "fresh"
    /\ cpc' = IF cpc = "resetWaiting" THEN "idle" ELSE cpc
    /\ tpc' = "poll"
    /\ UNCHANGED <<life, cmd, sockVars, dpc, linkVars, envVars>>

\* Close() on the socket client does not reach fds[0].fd, which goes on naming
\* a number that is free or, when it was opened again, something else
Stale == fd_ = NoFd
Reopened == Stale /\ fdt[pollFd] = "file"

\* a second without input is taken for a lost connection
PollTimeout_Bug ==
    /\ Running /\ tpc = "poll"
    /\ ~Stale /\ peer = "open" /\ inbox = <<>>
    /\ Close
    /\ tpc' = "while"
    /\ UNCHANGED <<life, cmd, pollFd, cap, cpc, dpc, envVars>>

\* poll() returns 0
PollTimeout ==
    /\ Running /\ tpc = "poll"
    /\ Reopened \/ (~Stale /\ peer = "open" /\ inbox = <<>>)
    /\ tpc' = LoopCheck
    /\ UNCHANGED <<life, cmd, pollFd, sockVars, cap, cpc, dpc, linkVars, envVars>>

\* poll() reports POLLIN: packets, end of file, or another file's data
PollIn ==
    /\ Running /\ tpc = "poll"
    /\ Reopened \/ (~Stale /\ (inbox # <<>> \/ peer = "closed"))
    /\ tpc' = "recvHdr"
    /\ UNCHANGED <<life, cmd, pollFd, sockVars, cap, cpc, dpc, linkVars, envVars>>

\* break without Close()
PollFail_Bug ==
    /\ Running /\ tpc = "poll"
    /\ (Stale /\ fdt[pollFd] = "free") \/ (~Stale /\ peer = "closed")
    /\ tpc' = "while"
    /\ UNCHANGED <<life, cmd, pollFd, sockVars, cap, cpc, dpc, linkVars, envVars>>

\* poll() reports POLLNVAL, POLLERR or POLLHUP alone: Close() and break
PollFail ==
    /\ Running /\ tpc = "poll"
    /\ (Stale /\ fdt[pollFd] = "free") \/ (~Stale /\ peer = "closed")
    /\ Close
    /\ tpc' = "while"
    /\ UNCHANGED <<life, cmd, pollFd, cap, cpc, dpc, envVars>>

\* the whole header arrives; the default case of the switch reads no body
RecvHeader ==
    /\ Running /\ tpc = "recvHdr"
    /\ ~Stale /\ inbox # <<>>
    /\ IF Head(inbox).type = "OTHER"
         THEN /\ inbox' = Tail(inbox)
              /\ tpc' = LoopCheck
         ELSE /\ inbox' = inbox
              /\ tpc' = "recvBody"
    /\ UNCHANGED <<life, cmd, pollFd, sockVars, cap, cpc, dpc,
                   peer, frame, owed, envVars>>

\* recv() may return the first part of what is still arriving: RecvPacket asks
\* for MSG_WAITALL, which is 0x100, and Recv(), whose flag is a uint8_t, passes
\* 0 on over vsock and nothing on a Unix socket
Short(whole) ==
    /\ torn' = IF whole /\ peer = "open" THEN TRUE ELSE torn
    /\ Close
    /\ tpc' = LoopCheck
    /\ UNCHANGED <<life, cmd, pollFd, cpc, dpc, srv, ncmds, ndrops>>

\* the header is short: end of file, a closed descriptor or a part
RecvHeaderFails ==
    /\ Running /\ tpc = "recvHdr"
    /\ Short(inbox # <<>>)
    /\ UNCHANGED cap

BodyOf(t) == Running /\ tpc = "recvBody" /\ Head(inbox).type = t

BodyWhole == Head(inbox).body # "cut"

\* a handler's RecvPacket is short: Close() and return false
HandlerFails == Short(BodyWhole)

BodyRead ==
    /\ inbox' = Tail(inbox)
    /\ UNCHANGED <<sockVars, peer, frame, owed>>

\* the notification is forgotten
NotifyOne_Bug == cpc' = cpc

\* notify_one on wait_api_data: a thread that does not wait yet misses it
NotifyOne ==
    cpc' = CASE cpc = "getWaiting" -> "getWoken"
             [] cpc = "setWaiting" -> "idle"
             [] OTHER -> cpc

\* the capability is read into an object that nobody is given
HandleCapability_Bug ==
    /\ BodyOf("CAPABILITY")
    /\ \/ /\ BodyWhole
          /\ BodyRead
          /\ NotifyOne
          /\ tpc' = LoopCheck
          /\ UNCHANGED <<life, cmd, pollFd, cap, dpc, envVars>>
       \/ HandlerFails /\ UNCHANGED cap

\* handle_capability reads straight into *cmd_capability_
HandleCapability ==
    /\ BodyOf("CAPABILITY")
    /\ \/ /\ BodyWhole
          /\ BodyRead
          /\ cap' = "vhal"
          /\ NotifyOne
          /\ tpc' = LoopCheck
          /\ UNCHANGED <<life, cmd, pollFd, dpc, envVars>>
       \/ /\ HandlerFails
          /\ cap' = "partial"

\* handle_ack does not look at the ack it has read
HandleAck ==
    /\ BodyOf("ACK")
    /\ \/ /\ BodyWhole
          /\ BodyRead
          /\ NotifyOne
          /\ tpc' = LoopCheck
          /\ UNCHANGED <<life, cmd, pollFd, cap, dpc, envVars>>
       \/ HandlerFails /\ UNCHANGED cap

\* the callback runs on whatever was received
HandleCmd_Bug ==
    /\ BodyOf("CAMERA_CONFIG")
    /\ BodyRead
    /\ cmd' = IF BodyWhole THEN Head(inbox).body ELSE "NONE"
    /\ tpc' = "callback"
    /\ UNCHANGED <<life, pollFd, cap, cpc, dpc, envVars>>

\* handle_cmd up to the call of callback_
HandleCmd ==
    /\ BodyOf("CAMERA_CONFIG")
    /\ \/ /\ BodyWhole
          /\ BodyRead
          /\ cmd' = Head(inbox).body
          /\ tpc' = "callback"
          /\ UNCHANGED <<life, pollFd, cap, cpc, dpc, envVars>>
       \/ HandlerFails /\ UNCHANGED cap

\* callback_ returns
CallbackReturn ==
    /\ Running /\ tpc = "callback"
    /\ tpc' = LoopCheck
    /\ UNCHANGED <<life, cmd, pollFd, sockVars, cap, cpc, dpc, linkVars, envVars>>

(***************************************************************************)
(* The control thread's calls.                                             *)
(***************************************************************************)
ControlLocal == UNCHANGED <<life, tpc, cmd, pollFd, sockVars, cap, dpc, envVars>>

\* ResetCameraCapabilty waits for the next signal, not for a condition
ResetCameraCapabilty ==
    /\ life = "live" /\ cpc = "idle"
    /\ cpc' = "resetWaiting"
    /\ ControlLocal /\ UNCHANGED linkVars

CallBound == Len(owed) + Len(inbox) < MaxPending

\* GetCameraCapabilty: the request; NULL when it cannot be sent
GetRequest ==
    /\ life = "live" /\ cpc = "idle" /\ CallBound
    /\ \/ SendOk("REQUEST") /\ cpc' = "getSent" /\ ControlLocal
       \/ SendFails /\ cpc' = cpc /\ ControlLocal
       \/ SendKilled /\ Crash

\* ... then mutex_ is taken and wait() entered, whatever has arrived since
GetWait ==
    /\ Running /\ cpc = "getSent"
    /\ cpc' = "getWaiting"
    /\ ControlLocal /\ UNCHANGED linkVars

\* ... and cmd_capability_ is read once the wait is over
GetReturn ==
    /\ Running /\ cpc = "getWoken"
    /\ cpc' = "idle"
    /\ ControlLocal /\ UNCHANGED linkVars

\* SetCameraCapabilty: the header of the camera info
SetHeader ==
    /\ life = "live" /\ cpc = "idle" /\ CallBound
    /\ \/ SendOk("INFO") /\ cpc' = "setHdr" /\ ControlLocal
       \/ SendFails /\ cpc' = cpc /\ ControlLocal
       \/ SendKilled /\ Crash

\* ... the camera info itself
SetInfo ==
    /\ Running /\ cpc = "setHdr"
    /\ \/ SendOk("info") /\ cpc' = "setSent" /\ ControlLocal
       \/ SendFails /\ cpc' = "idle" /\ ControlLocal
       \/ SendKilled /\ Crash

\* SetCameraCapabilty returns without its ack
SetWait_Bug ==
    /\ Running /\ cpc = "setSent"
    /\ cpc' = "idle"
    /\ ControlLocal /\ UNCHANGED linkVars

\* ... and the wait for the ack
SetWait ==
    /\ Running /\ cpc = "setSent"
    /\ cpc' = "setWaiting"
    /\ ControlLocal /\ UNCHANGED linkVars

\* a wait returns although nobody signalled
SpuriousWake ==
    /\ Spurious /\ Running
    /\ cpc \in {"resetWaiting", "getWaiting", "setWaiting"}
    /\ cpc' = IF cpc = "getWaiting" THEN "getWoken" ELSE "idle"
    /\ ControlLocal /\ UNCHANGED linkVars

(***************************************************************************)
(* The data thread's call: two sends, with no lock around them.            *)
(***************************************************************************)
DataLocal == UNCHANGED <<life, tpc, cmd, pollFd, sockVars, cap, cpc, envVars>>

SendDataHeader ==
    /\ life = "live" /\ dpc = "idle"
    /\ \/ SendOk("DATA") /\ dpc' = "pay" /\ DataLocal
       \/ SendFails /\ dpc' = dpc /\ DataLocal
       \/ SendKilled /\ Crash

SendDataPayload ==
    /\ Running /\ dpc = "pay"
    /\ \/ SendOk("data") /\ dpc' = "idle" /\ DataLocal
       \/ SendFails /\ dpc' = "idle" /\ DataLocal
       \/ SendKilled /\ Crash

(***************************************************************************)
(* ~Impl(): a client destroys the VideoSink after its own calls returned.  *)
(***************************************************************************)
Destroy ==
    /\ life = "live" /\ cpc = "idle" /\ dpc = "idle"
    /\ life' = "joining"
    /\ UNCHANGED <<tpc, cmd, pollFd, sockVars, cap, cpc, dpc, linkVars, envVars>>

\* join() returns and the socket client's destructor closes the socket
Join ==
    /\ life = "joining" /\ tpc = "exited"
    /\ Close
    /\ life' = "destroyed"
    /\ UNCHANGED <<tpc, cmd, pollFd, cap, cpc, dpc, envVars>>

(***************************************************************************)
(* The rest of the process: it may go down for a reason of its own, and it *)
(* uses descriptors.                                                       *)
(***************************************************************************)
ClientFault == Running /\ Crash

ForeignOpen ==
    /\ ForeignFds /\ Running
    /\ \E f \in LowestFree(fdt) : fdt' = [fdt EXCEPT ![f] = "file"]
    /\ UNCHANGED <<talkerVars, fd_, connected_, cap, cpc, dpc, linkVars, envVars>>

ForeignClose ==
    /\ ForeignFds /\ Running
    /\ \E f \in {g \in Fds : fdt[g] = "file"} : fdt' = [fdt EXCEPT ![f] = "free"]
    /\ UNCHANGED <<talkerVars, fd_, connected_, cap, cpc, dpc, linkVars, envVars>>

(***************************************************************************)
(* The Camera vHAL (external).                                             *)
(***************************************************************************)
Unmoved == UNCHANGED <<talkerVars, sockVars, cap, cpc, dpc>>

VhalReply ==
    /\ Running /\ peer = "open" /\ owed # <<>>
    /\ inbox' = Append(inbox, [type |-> Head(owed), body |-> "ok"])
    /\ owed' = Tail(owed)
    /\ Unmoved /\ UNCHANGED <<peer, frame, envVars>>

VhalCommand ==
    /\ Running /\ peer = "open" /\ ncmds < MaxCmds
    /\ \/ \E c \in Commands :
            inbox' = Append(inbox, [type |-> "CAMERA_CONFIG", body |-> c])
       \/ inbox' = Append(inbox, [type |-> "OTHER", body |-> "ok"])
    /\ ncmds' = ncmds + 1
    /\ Unmoved /\ UNCHANGED <<peer, frame, owed, srv, ndrops, torn>>

\* what the client can still read after a drop: a beginning of what was
\* sent, whose last packet may have lost its body
Remains(n, isCut) ==
    IF isCut /\ n > 0 THEN [SubSeq(inbox, 1, n) EXCEPT ![n].body = "cut"]
                      ELSE SubSeq(inbox, 1, n)

\* the vHAL closes its end, restarts or goes away
VhalDrop ==
    /\ Running /\ peer = "open" /\ ndrops < MaxDrops
    /\ peer' = "closed"
    /\ srv' \in BOOLEAN
    /\ \E n \in (IF tpc = "recvBody" THEN 1 ELSE 0)..Len(inbox), isCut \in BOOLEAN :
         inbox' = Remains(n, isCut)
    /\ ndrops' = ndrops + 1
    /\ Unmoved /\ UNCHANGED <<frame, owed, ncmds, torn>>

VhalUp ==
    /\ Running /\ ~srv
    /\ srv' = TRUE
    /\ Unmoved /\ UNCHANGED <<linkVars, ncmds, ndrops, torn>>

Vhal == VhalReply \/ VhalCommand \/ VhalDrop \/ VhalUp

(***************************************************************************)
(* The specification.                                                      *)
(***************************************************************************)
TalkerLib ==
    \/ TalkerWhile \/ ConnectSocket \/ ConnectThrows \/ ConnectResult \/ Setup
    \/ PollTimeout \/ PollIn \/ PollFail \/ RecvHeader \/ RecvHeaderFails
    \/ HandleCapability \/ HandleAck \/ HandleCmd

Talker == TalkerLib \/ CallbackReturn

\* the steps of a call that has begun
InCall == GetWait \/ GetReturn \/ SetInfo \/ SetWait

Environment == ForeignOpen \/ ForeignClose \/ Vhal

Terminated == ~Running /\ UNCHANGED vars

Next ==
    \/ Talker
    \/ ResetCameraCapabilty \/ GetRequest \/ SetHeader \/ InCall
    \/ SpuriousWake
    \/ SendDataHeader \/ SendDataPayload
    \/ Destroy \/ Join
    \/ ClientFault
    \/ Environment
    \/ Terminated

\* A started thread runs on, and the vHAL comes back, reads and answers.  Nothing
\* makes the client call, the vHAL command or the vHAL drop.
Fairness ==
    /\ WF_vars(Talker)
    /\ WF_vars(InCall)
    /\ WF_vars(SendDataPayload)
    /\ WF_vars(Join)
    /\ WF_vars(VhalReply)
    /\ WF_vars(VhalUp)

Spec == Init /\ [][Next]_vars

FairSpec == Spec /\ Fairness

(***************************************************************************)
(* Properties.                                                             *)
(***************************************************************************)

\* Every socket the process holds is the one in fd_, and fd_ names a socket:
\* no sequence of failed connects, closes on a short read and reopened
\* numbers leaks a descriptor or closes one that belongs to somebody else.
\* (Connect() and Close() of the socket clients)
NoDescriptorLeak ==
    \A f \in Fds : fdt[f] = "sock" <=> f = fd_

\* a packet is being read
Reading == tpc \in {"recvHdr", "recvBody"} /\ inbox # <<>>

\* The client gives up a connection that is up only in ~Impl or when a read
\* returns part of a packet: of the talker's error paths none but the short
\* reads of an arriving packet closes a live connection, and neither a poll()
\* without input nor a callback does.  (the Close() calls of the talker and its
\* handlers)
KeepsLiveConnection ==
    [][peer = "open" /\ peer' # peer =>
         peer' = "closed" \/ life' = "destroyed" \/ (Reading /\ torn')]_vars

\* GetCameraCapabilty is woken by a capability and SetCameraCapabilty by an
\* ack, although both wait on one condition variable without a predicate.
\* (notify_one in handle_ack and handle_capability)
WokenByOwnReply ==
    [][/\ cpc = "getWaiting" /\ cpc' # cpc => BodyOf("CAPABILITY")
       /\ cpc = "setWaiting" /\ cpc' # cpc => BodyOf("ACK")]_vars

\* no connection was lost: none dropped, none given up on a short read
Undisturbed == ndrops = 0 /\ ~torn

\* As long as no connection was lost, what a woken GetCameraCapabilty is about
\* to return is what the vHAL sent and not the empty object of a new connection.
\* (cmd_capability_, which the talker replaces on every connection)
CapabilityFromVhal == Undisturbed /\ cpc = "getWoken" => cap = "vhal"

Outstanding(r) ==
    \/ \E i \in 1..Len(owed) : owed[i] = r
    \/ \E i \in 1..Len(inbox) : inbox[i].type = r

InWait == \/ cpc = "getWaiting" /\ Outstanding("CAPABILITY")
          \/ cpc = "setWaiting" /\ Outstanding("ACK")

\* A call that got into its wait before its reply was handled returns, or the
\* connection is lost.  (GetCameraCapabilty, SetCameraCapabilty)
WaiterIsServed ==
    InWait ~> (cpc \notin {"getWaiting", "setWaiting"} \/ peer # "open" \/ ~Running)

\* After every loss of the connection the talker gets a new one, as long as
\* the VideoSink lives.  (the outer loop of the talker)
TalkerReconnects ==
    (life = "live" /\ peer # "open") ~> (peer = "open" \/ life # "live")

\* The destructor's join() returns, wherever the talker was.  (~Impl)
DestructorReturns == (life = "joining") ~> (life \in {"destroyed", "dead"})

\* As long as no connection was lost, the vHAL finds every header and payload
\* where it expects one, although nothing keeps the two threads' sends apart.
\* (SendDataPacket next to SendRawPacket)
FramesIntact == Undisturbed => frame # "bad"

\* A payload goes to the vHAL behind its own header.  (the two Send() calls
\* of SendDataPacket)
DataHasHeader ==
    [][dpc = "pay" /\ dpc' = "idle" /\ peer = "open" => frame = "data"]_vars

(***************************************************************************)
(* The commands reach the callback as CommandLink says.                    *)
(***************************************************************************)
Ended == life \in {"destroyed", "dead"}

WholeCommand(m) == m.type = "CAMERA_CONFIG" /\ m.body # "cut"

CommandsIn(q) ==
    Selected([i \in 1..Len(q) |-> q[i].body], {i \in 1..Len(q) : WholeCommand(q[i])})

linkOf == CASE Ended -> "ended"
            [] ~Ended /\ peer = "none"   -> "down"
            [] ~Ended /\ peer = "open"   -> "up"
            [] ~Ended /\ peer = "closed" -> "dropped"

queueOf == IF Ended THEN <<>> ELSE CommandsIn(inbox)

runningOf == IF tpc = "callback" /\ ~Ended THEN cmd ELSE "none"

CL == INSTANCE CommandLink WITH link <- linkOf, queue <- queueOf, running <- runningOf

\* Commands are delivered in order, whole and at most once, and none is lost
\* unless the vHAL drops the connection, a read is short or the VideoSink ends.
\* (the talker's receive loop and handle_cmd)
DeliversCommands == CL!Spec
=============================================================================
