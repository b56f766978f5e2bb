------------------------------ MODULE Channel ------------------------------
(***************************************************************************)
(* AudioSink, AudioSource (source/audio_*_impl.h, over TCP) and            *)
(* SensorInterface (source/sensor_interface_impl.h, over a Unix socket):   *)
(* one design, a talker thread that connects, polls, receives one control  *)
(* message at a time and runs the client's callback on it, while a thread  *)
(* of the client sends data on the same socket without a lock.             *)
(*                                                                         *)
(* A control message is two units on the stream, so that it can arrive in  *)
(* part, and the PCM data announced by one follows it, a unit per buffer.  *)
(* A sensor packet is sent with one send() on a Unix socket and arrives    *)
(* whole.  Only the talker opens and closes the socket, so the descriptor  *)
(* it polls is the one it has.                                             *)
(***************************************************************************)
EXTENDS Integers, Sequences

CONSTANTS
    MaxMsgs,    \* bound: messages the vHAL sends
    MaxDrops,   \* bound: connections the vHAL drops
    MaxPending, \* bound: units the vHAL sends ahead of the talker
    SendCap     \* bound: data units the connection holds unread

ASSUME ChannelAssumption ==
    /\ MaxMsgs \in Nat /\ MaxDrops \in Nat
    /\ MaxPending \in Nat \ {0} /\ SendCap \in Nat \ {0}

VARIABLES
    kind,               \* the program: a client of the repository, or "app", an
                        \* application of AudioSink that may destroy it
    orderly,            \* no system call fails for want of resources, and the vHAL
                        \* opens, streams and closes in order, once the client is ready
    connected_,
    conn,               \* fd_: "none" (-1), "unconnected", "open", "fin" or "rst" by
                        \* the vHAL, "shut" by Close()
    inbox,              \* units that have arrived
    tpc,                \* where the talker is
    buf,                \* units the Recv() in progress has
    msg,                \* the message the talker works on
    should_continue_,
    callback_,          \* a callback is registered
    status,             \* "running", or how the process ended
    srv,                \* the vHAL listens
    opened,             \* it has opened this connection
    sending,            \* units it has yet to send
    rx,                 \* data units it has not read
    nmsgs, ndrops

talkerVars == <<tpc, buf, msg>>
sockVars == <<connected_, conn, inbox>>
vhalVars == <<srv, opened, sending, nmsgs, ndrops>>
fixedVars == <<kind, orderly>>
chanVars == <<talkerVars, sockVars, vhalVars, fixedVars, should_continue_, callback_, status, rx>>

Kinds == {"app", "record", "playback", "sensor"}

(***************************************************************************)
(* Messages: CtrlMessage of audio_common.h with the data_size of kData, and *)
(* CtrlPacket of sensor_interface.h with its enabled flag.                 *)
(***************************************************************************)
AudioMsgs == {"open", "data0", "data2", "close", "other"}
SensorMsgs == {"accOn", "accOff", "lightOn", "pressureOn"}
Msgs(k) == CASE k = "sensor" -> SensorMsgs
             [] k = "playback" -> AudioMsgs
             [] OTHER -> AudioMsgs \ {"data2"}    \* an AudioSink is sent no data

CtrlUnits == 2
DataUnits(m) == IF m = "data2" THEN 2 ELSE 0
Units(m) == [i \in 1..(CtrlUnits + DataUnits(m)) |-> [m |-> m, i |-> i]]

\* the sensor types SensorInterface knows; pressure is none of them
IsValidCtrlPacket(m) == m # "pressureOn"
IsEnabled(m) == m # "accOff"
TypeOf(m) == IF m = "lightOn" THEN "light" ELSE "acc"

ChannelInit ==
    /\ kind \in Kinds /\ orderly \in BOOLEAN
    /\ connected_ = FALSE /\ conn = "none" /\ inbox = <<>>
    /\ tpc = "top" /\ buf = <<>> /\ msg = "idle"
    /\ should_continue_ = TRUE /\ callback_ = FALSE /\ status = "running"
    /\ srv \in BOOLEAN /\ opened = FALSE /\ sending = <<>> /\ rx = 0
    /\ nmsgs = 0 /\ ndrops = 0

Running == status = "running"

\* the process ends, with everything in it as it is
Ends(how) ==
    /\ status' = how
    /\ UNCHANGED <<sockVars, vhalVars, fixedVars, should_continue_, callback_, rx>>

(***************************************************************************)
(* The talker: the outer loop and Connect().                               *)
(***************************************************************************)
TalkerOnly == UNCHANGED <<vhalVars, fixedVars, should_continue_, callback_, status, rx>>
Goto(pc) == tpc' = pc /\ UNCHANGED <<buf, msg>>
\* out of the scope of ctrl_msg
Leave(pc) == tpc' = pc /\ buf' = <<>> /\ msg' = "idle"

Top ==
    /\ tpc = "top"
    /\ Goto(IF ~should_continue_ THEN "exited"
            ELSE IF connected_ THEN "poll" ELSE "connect")
    /\ UNCHANGED sockVars /\ TalkerOnly

\* Connect(): the socket of a failed attempt is closed first
ConnectClose ==
    /\ tpc = "connect" /\ conn # "none"
    /\ conn' = "none" /\ connected_' = FALSE
    /\ UNCHANGED inbox /\ Goto("connect") /\ TalkerOnly

ConnectSocket ==
    /\ tpc = "connect" /\ conn = "none"
    /\ conn' = "unconnected"
    /\ UNCHANGED <<connected_, inbox>> /\ Goto("connecting") /\ TalkerOnly

\* socket() fails, or poll() does: the exception leaves the thread
Throws ==
    /\ ~orderly
    /\ tpc = "poll" \/ (tpc = "connect" /\ conn = "none")
    /\ Ends("terminated") /\ Goto(tpc)

\* a failed connect() is repeated after 3 ms
ConnectResult ==
    /\ tpc = "connecting"
    /\ IF srv
         THEN conn' = "open" /\ Goto("poll") /\ opened' = FALSE
         ELSE conn' = conn /\ Goto("top") /\ opened' = opened
    /\ connected_' = srv
    /\ inbox' = <<>> /\ rx' = 0
    /\ UNCHANGED <<srv, sending, nmsgs, ndrops, fixedVars, should_continue_, callback_, status>>

(***************************************************************************)
(* The talker: the poll loop and Close().                                  *)
(***************************************************************************)

\* the connection is given up because nothing came for a second
PollTimeout_Bug ==
    /\ tpc = "poll"
    /\ conn = "open" /\ inbox = <<>>
    /\ Goto("close")
    /\ UNCHANGED sockVars /\ TalkerOnly

PollTimeout ==
    /\ tpc = "poll"
    /\ conn = "open" /\ inbox = <<>>
    /\ Goto("loop")
    /\ UNCHANGED sockVars /\ TalkerOnly

\* POLLIN: data or the end of the stream
PollIn ==
    /\ tpc = "poll"
    /\ inbox # <<>> \/ conn \in {"fin", "rst"}
    /\ tpc' = "recv" /\ buf' = <<>> /\ UNCHANGED msg
    /\ UNCHANGED sockVars /\ TalkerOnly

\* POLLERR or POLLHUP alone
PollFail ==
    /\ tpc = "poll"
    /\ conn = "rst"
    /\ Goto("close")
    /\ UNCHANGED sockVars /\ TalkerOnly

\* while (should_continue_) of a loop that never looks
LoopCheck_Bug ==
    /\ tpc = "loop"
    /\ Goto("poll")
    /\ UNCHANGED sockVars /\ TalkerOnly

LoopCheck ==
    /\ tpc = "loop"
    /\ Goto(IF should_continue_ THEN "poll" ELSE "top")
    /\ UNCHANGED sockVars /\ TalkerOnly

\* Close() that keeps connected_
CloseFlag_Bug ==
    /\ tpc = "close"
    /\ Goto("shutdown")
    /\ UNCHANGED sockVars /\ TalkerOnly

\* Close(): connected_ ...
CloseFlag ==
    /\ tpc = "close"
    /\ connected_' = FALSE
    /\ UNCHANGED <<conn, inbox>> /\ Goto("shutdown") /\ TalkerOnly

\* ... shutdown() ...
CloseShutdown ==
    /\ tpc = "shutdown"
    /\ conn' = "shut" /\ inbox' = <<>>
    /\ UNCHANGED connected_ /\ Goto("release") /\ TalkerOnly

\* ... close() and fd_ = -1
CloseRelease ==
    /\ tpc = "release"
    /\ conn' = "none"
    /\ UNCHANGED <<connected_, inbox>> /\ Goto("top") /\ TalkerOnly

(***************************************************************************)
(* Recv().                                                                 *)
(***************************************************************************)

\* the size left to read
Left == (IF tpc = "payload" THEN DataUnits(msg) ELSE CtrlUnits) - Len(buf)

SmallerOf(a, b) == IF a < b THEN a ELSE b

Got == buf \o SubSeq(inbox, 1, SmallerOf(Left, Len(inbox)))

\* recv() has data to return; the rest of the stream stays
Take ==
    /\ inbox # <<>>
    /\ inbox' = SubSeq(inbox, SmallerOf(Left, Len(inbox)) + 1, Len(inbox))
    /\ UNCHANGED <<connected_, conn>>

\* recv() returns 0 or -1, and Recv() what it has so far
Short ==
    /\ inbox = <<>> /\ conn \in {"fin", "rst"}
    /\ conn' = "fin"
    /\ UNCHANGED <<connected_, inbox>>

\* a Recv() that has its size leaves; until then the loop goes on
RecvTake(pc, next) ==
    /\ tpc = pc
    /\ Take
    /\ IF Len(Got) = Len(buf) + Left THEN next
       ELSE tpc' = tpc /\ buf' = Got /\ UNCHANGED msg

\* A whole control message; for a sensor packet that is not valid the callback
\* is not run
RecvCtrl ==
    /\ RecvTake("recv",
         IF kind = "sensor" /\ ~IsValidCtrlPacket(Got[1].m)
           THEN Leave("loop")
           ELSE tpc' = "call" /\ buf' = Got /\ msg' = Got[1].m)
    /\ TalkerOnly

\* a short one is ignored, as an interrupted read would be
RecvCtrlShort_Bug ==
    /\ tpc = "recv"
    /\ Short
    /\ Leave("loop")
    /\ TalkerOnly

\* a short one: the talker closes and reconnects
RecvCtrlShort ==
    /\ tpc = "recv"
    /\ Short
    /\ Leave("close")
    /\ TalkerOnly

Talker ==
    \/ Top \/ ConnectClose \/ ConnectSocket \/ Throws \/ ConnectResult
    \/ PollTimeout \/ PollIn \/ PollFail \/ LoopCheck
    \/ CloseFlag \/ CloseShutdown \/ CloseRelease
    \/ RecvCtrl \/ RecvCtrlShort

(***************************************************************************)
(* Send() on fd_, whatever it is by now: what becomes of the connection,   *)
(* and of the caller.  It blocks while the connection is full; a lost one  *)
(* may take data, and then fails or raises SIGPIPE.                        *)
(***************************************************************************)
Send(sent, failed, dies) ==
    \/ /\ conn = "open" /\ rx < SendCap
       /\ rx' = rx + 1
       /\ sent /\ UNCHANGED <<conn, status>>
    \/ /\ conn = "fin"
       /\ conn' \in {"fin", "rst"}
       /\ sent /\ UNCHANGED <<rx, status>>
    \/ /\ conn \in {"rst", "shut", "unconnected", "none"}
       /\ failed /\ UNCHANGED <<conn, rx>>
    \/ /\ conn \in {"rst", "shut", "unconnected"}
       /\ status' = "killed" /\ dies /\ UNCHANGED <<conn, rx>>

(***************************************************************************)
(* The vHAL (external).                                                    *)
(***************************************************************************)
VhalOnly == UNCHANGED <<talkerVars, connected_, fixedVars, should_continue_, callback_, status>>

\* an orderly vHAL waits for the client, then opens, streams and closes
InOrder(m) ==
    /\ callback_
    /\ kind = "sensor" \/ (m = "open" <=> ~opened)
    /\ m # "other"
    /\ kind \in {"app", "record"} => m \in {"open", "close"}

VhalSend ==
    /\ conn = "open" /\ sending = <<>> /\ nmsgs < MaxMsgs /\ Len(inbox) < MaxPending
    /\ \E m \in Msgs(kind) :
         /\ orderly => InOrder(m)
         /\ opened' = (opened \/ m = "open")
         /\ sending' = Units(m)
    /\ nmsgs' = nmsgs + 1
    /\ UNCHANGED <<conn, inbox, srv, ndrops, rx>> /\ VhalOnly

VhalDeliver ==
    /\ conn = "open" /\ sending # <<>>
    /\ IF kind = "sensor"
         THEN inbox' = inbox \o sending /\ sending' = <<>>
         ELSE inbox' = Append(inbox, Head(sending)) /\ sending' = Tail(sending)
    /\ UNCHANGED <<conn, srv, opened, nmsgs, ndrops, rx>> /\ VhalOnly

\* it closes or resets the connection, and may go away; a reset may lose what
\* has arrived
VhalDrop ==
    /\ conn = "open" /\ ndrops < MaxDrops
    /\ \/ conn' = "fin" /\ inbox' = inbox
       \/ conn' = "rst" /\ \E n \in 0..Len(inbox) : inbox' = SubSeq(inbox, 1, n)
    /\ srv' \in BOOLEAN
    /\ sending' = <<>>
    /\ ndrops' = ndrops + 1
    /\ UNCHANGED <<opened, nmsgs, rx>> /\ VhalOnly

VhalUp ==
    /\ ~srv
    /\ srv' = TRUE
    /\ UNCHANGED <<conn, inbox, opened, sending, nmsgs, ndrops, rx>> /\ VhalOnly

VhalRead ==
    /\ rx > 0
    /\ rx' = rx - 1
    /\ UNCHANGED <<conn, inbox, vhalVars>> /\ VhalOnly

Vhal == VhalSend \/ VhalDeliver \/ VhalDrop \/ VhalUp \/ VhalRead
=============================================================================
