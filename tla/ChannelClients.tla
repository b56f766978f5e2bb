-------------------------- MODULE ChannelClients --------------------------
(***************************************************************************)
(* The clients of the channels: host_camera_service/audio_record_client.cc *)
(* streams a file into AudioSink from a thread that the callback starts,   *)
(* audio_playback_client.cc reads the PCM data in the callback itself,     *)
(* sensor_client.cc sends accelerometer data as its map of configurations  *)
(* says, and "app" is an application that does nothing in the callback and *)
(* destroys its AudioSink, which none of the three does.                   *)
(***************************************************************************)
EXTENDS Channel, Selection

VARIABLES
    stop,        \* record: the streamer is to stop
    spc,         \* where the thread that sends is: "none" until it is started
    mSensorMap,  \* sensor: type -> enabled
    xpc          \* app: "idle", "join" in ~Impl, "destroyed"

clientVars == <<stop, spc, mSensorMap, xpc>>
vars == <<chanVars, clientVars>>

Statuses == {"running", "exit0", "exit1", "killed", "terminated"}

ChannelTypeOK ==
    /\ kind \in Kinds /\ orderly \in BOOLEAN
    /\ connected_ = (tpc \notin {"top", "connect", "connecting", "shutdown", "release", "exited"}
                       \/ (tpc \in {"top", "exited"} /\ conn \in {"open", "fin", "rst"}))
    /\ conn \in {"none", "unconnected", "open", "fin", "rst", "shut"}
    /\ msg \in Msgs(kind) \cup {"idle"}
    /\ Len(buf) <= CtrlUnits
    /\ status \in Statuses
    /\ rx \in 0..SendCap /\ nmsgs \in 0..MaxMsgs /\ ndrops \in 0..MaxDrops
    /\ spc \in {"none", "loop", "send", "ended", "look", "reading", "check"}
    /\ DOMAIN mSensorMap \subseteq {"acc", "light"}
    /\ xpc \in {"idle", "join", "destroyed"}

Init ==
    /\ ChannelInit
    /\ stop = FALSE /\ spc = "none" /\ mSensorMap = <<>> /\ xpc = "idle"

(***************************************************************************)
(* main(), and the application's destructor.                               *)
(***************************************************************************)
MainOnly == UNCHANGED <<talkerVars, vhalVars, fixedVars, status, rx, inbox>>

\* RegisterCallback(), with the talker at work already; the sensor client goes
\* on to start its sender
RegisterCallback ==
    /\ ~callback_ /\ xpc = "idle"
    /\ callback_' = TRUE
    /\ spc' = IF kind = "sensor" THEN "look" ELSE spc
    /\ UNCHANGED <<should_continue_, connected_, conn, stop, mSensorMap, xpc>> /\ MainOnly

\* ~Impl(): should_continue_ ...
Destroy ==
    /\ kind = "app" /\ xpc = "idle"
    /\ should_continue_' = FALSE
    /\ xpc' = "join"
    /\ UNCHANGED <<callback_, connected_, conn, stop, spc, mSensorMap>> /\ MainOnly

\* ... and join(); the socket goes with the object
Join ==
    /\ xpc = "join" /\ tpc = "exited"
    /\ xpc' = "destroyed"
    /\ conn' = "none" /\ connected_' = FALSE
    /\ UNCHANGED <<should_continue_, callback_, stop, spc, mSensorMap>> /\ MainOnly

(***************************************************************************)
(* The callback, on the talker thread.                                     *)
(***************************************************************************)
Called(k) == tpc = "call" /\ callback_ /\ kind = k

CbKeeps == UNCHANGED <<sockVars, xpc>> /\ TalkerOnly
CbEnds(how) == Ends(how) /\ UNCHANGED <<talkerVars, spc, mSensorMap, xpc>>

\* no callback yet: std::bad_function_call leaves the thread
CallEmpty ==
    /\ tpc = "call" /\ ~callback_
    /\ CbEnds("terminated") /\ UNCHANGED stop

AppCallback ==
    /\ Called("app")
    /\ Leave("loop")
    /\ UNCHANGED <<stop, spc, mSensorMap>> /\ CbKeeps

\* kOpen starts the streamer; over a streamer that was not joined the
\* assignment ends the process
RecordOpen ==
    /\ Called("record") /\ msg = "open"
    /\ \/ /\ spc = "none"
          /\ spc' = "loop"
          /\ Leave("loop")
          /\ UNCHANGED <<stop, mSensorMap>> /\ CbKeeps
       \/ /\ spc # "none"
          /\ CbEnds("terminated") /\ UNCHANGED stop

\* the streamer is not told
RecordClose_Bug ==
    /\ Called("record") /\ msg = "close"
    /\ UNCHANGED stop
    /\ \/ /\ spc # "none"
          /\ Goto("join")
          /\ UNCHANGED <<spc, mSensorMap>> /\ CbKeeps
       \/ /\ spc = "none"
          /\ CbEnds("terminated")

\* kClose stops the streamer and joins it; without one join() throws
RecordClose ==
    /\ Called("record") /\ msg = "close"
    /\ stop' = TRUE
    /\ \/ /\ spc # "none"
          /\ Goto("join")
          /\ UNCHANGED <<spc, mSensorMap>> /\ CbKeeps
       \/ /\ spc = "none"
          /\ CbEnds("terminated")

RecordJoined ==
    /\ kind = "record" /\ tpc = "join" /\ spc = "ended"
    /\ CbEnds("exit0") /\ UNCHANGED stop

\* kData is read whatever its size: to read nothing is an error
PlaybackOpen_Bug ==
    /\ Called("playback") /\ msg \in {"open", "data0"}
    /\ \/ /\ msg = "open"
          /\ Leave("loop")
          /\ UNCHANGED <<stop, spc, mSensorMap>> /\ CbKeeps
       \/ /\ msg = "data0"
          /\ CbEnds("exit1") /\ UNCHANGED stop

\* kOpen, and kData without data
PlaybackOpen ==
    /\ Called("playback") /\ msg \in {"open", "data0"}
    /\ Leave("loop")
    /\ UNCHANGED <<stop, spc, mSensorMap>> /\ CbKeeps

\* kData: ReadDataPacket() on the talker's own stream
PlaybackData ==
    /\ Called("playback") /\ DataUnits(msg) > 0
    /\ tpc' = "payload" /\ buf' = <<>> /\ UNCHANGED msg
    /\ UNCHANGED <<stop, spc, mSensorMap>> /\ CbKeeps

\* one recv() for the data, whatever it returns
PlaybackRead_Bug ==
    /\ tpc = "payload"
    /\ Take
    /\ Leave("loop")
    /\ UNCHANGED <<stop, spc, mSensorMap, xpc>> /\ TalkerOnly

PlaybackRead ==
    /\ RecvTake("payload", Leave("loop"))
    /\ UNCHANGED <<stop, spc, mSensorMap, xpc>> /\ TalkerOnly

\* the stream ends: some data is as good as all of it, none is an error
PlaybackShort ==
    /\ tpc = "payload"
    /\ \/ /\ buf # <<>>
          /\ Short /\ Leave("loop") /\ TalkerOnly
       \/ /\ buf = <<>> /\ inbox = <<>> /\ conn \in {"fin", "rst"}
          /\ Ends("exit1") /\ UNCHANGED talkerVars
    /\ UNCHANGED clientVars

PlaybackClose ==
    /\ Called("playback") /\ msg = "close"
    /\ CbEnds("exit0") /\ UNCHANGED stop

UnknownCommand ==
    /\ \/ Called("record") /\ msg \in {"data0", "data2", "other"}
       \/ Called("playback") /\ msg = "other"
    /\ CbEnds("exit1") /\ UNCHANGED stop

\* the sensor client's callback takes sensorMapMutex ...
SensorLock ==
    /\ Called("sensor")
    /\ Goto("insert")
    /\ UNCHANGED <<stop, spc, mSensorMap>> /\ CbKeeps

\* ... and inserts: a type that has an entry keeps it
SensorInsert ==
    /\ tpc = "insert"
    /\ mSensorMap' = [t \in DOMAIN mSensorMap \cup {TypeOf(msg)} |->
                        IF t \in DOMAIN mSensorMap THEN mSensorMap[t] ELSE IsEnabled(msg)]
    /\ Leave("loop")
    /\ UNCHANGED <<stop, spc>> /\ CbKeeps

Callback ==
    \/ CallEmpty \/ AppCallback
    \/ RecordOpen \/ RecordClose \/ RecordJoined
    \/ PlaybackOpen \/ PlaybackData \/ PlaybackRead \/ PlaybackShort \/ PlaybackClose
    \/ UnknownCommand
    \/ SensorLock \/ SensorInsert

(***************************************************************************)
(* The thread that sends: the record client's streamer ...                 *)
(***************************************************************************)
SenderOnly ==
    UNCHANGED <<talkerVars, connected_, inbox, vhalVars, fixedVars, should_continue_,
                callback_, stop, mSensorMap, xpc>>
SenderLocal == UNCHANGED <<conn, rx, status>>

StreamLoop ==
    /\ spc = "loop"
    /\ spc' = IF stop THEN "ended" ELSE "send"
    /\ SenderLocal /\ SenderOnly

\* the file cannot be opened
StreamNoFile ==
    /\ spc = "loop" /\ ~orderly
    /\ status' = "exit1"
    /\ UNCHANGED <<spc, conn, rx>> /\ SenderOnly

StreamSend ==
    /\ kind = "record" /\ spc = "send"
    /\ Send(spc' = "loop", status' = "exit1" /\ spc' = spc, spc' = spc)
    /\ SenderOnly

(***************************************************************************)
(* ... and the sensor client's.  It reads the map without the lock: what   *)
(* it sees of an insertion in progress is undefined, the old map, the new  *)
(* one or neither.                                                         *)
(***************************************************************************)
SensorLook ==
    /\ spc = "look"
    /\ spc' = "reading"
    /\ SenderLocal /\ SenderOnly

AccOn(map) == "acc" \in DOMAIN map /\ map["acc"]

SensorRead ==
    /\ spc = "reading"
    /\ \/ /\ \/ spc' = IF AccOn(mSensorMap) THEN "check" ELSE "look"
             \/ tpc = "insert" /\ spc' \in {"check", "look"}
          /\ SenderLocal
       \/ /\ tpc = "insert"
          /\ status' = "killed"
          /\ UNCHANGED <<spc, conn, rx>>
    /\ SenderOnly

\* SendDataPacket(): data for a vHAL that is not connected is dropped
SensorCheck_Bug ==
    /\ spc = "check"
    /\ spc' = IF connected_ THEN "look" ELSE "send"
    /\ SenderLocal /\ SenderOnly

SensorCheck ==
    /\ spc = "check"
    /\ spc' = IF connected_ THEN "send" ELSE "look"
    /\ SenderLocal /\ SenderOnly

\* its result is not looked at
SensorSend ==
    /\ kind = "sensor" /\ spc = "send"
    /\ Send(spc' = "look", spc' = "look" /\ UNCHANGED status, spc' = spc)
    /\ SenderOnly

Sender == StreamLoop \/ StreamNoFile \/ StreamSend
          \/ SensorLook \/ SensorRead \/ SensorCheck \/ SensorSend

(***************************************************************************)
(* The specification.                                                      *)
(***************************************************************************)
ChannelStep(A) == Running /\ A /\ UNCHANGED clientVars
ClientStep(A) == Running /\ A

Next ==
    \/ ChannelStep(Talker) \/ ChannelStep(Vhal)
    \/ ClientStep(RegisterCallback) \/ ClientStep(Destroy) \/ ClientStep(Join)
    \/ ClientStep(Callback) \/ ClientStep(Sender)

Spec == Init /\ [][Next]_vars

\* Every thread of the process runs on, main() registers its callback, and the
\* vHAL comes up, reads what it is sent and ends a message it began.  Nothing
\* makes it send or drop.
Fairness ==
    /\ WF_vars(ChannelStep(Talker) \/ ClientStep(Callback))
    /\ WF_vars(ClientStep(Sender))
    /\ WF_vars(ClientStep(RegisterCallback))
    /\ WF_vars(ClientStep(Join))
    /\ WF_vars(ChannelStep(VhalUp))
    /\ WF_vars(ChannelStep(VhalRead))
    /\ WF_vars(ChannelStep(VhalDeliver))

FairSpec == Spec /\ Fairness

(***************************************************************************)
(* Properties.                                                             *)
(***************************************************************************)

\* A control message is read where one begins, however the stream is cut into
\* pieces and whatever data lies between two of them.  (Recv()'s loop, and the
\* data_size the playback client reads)
StreamAligned == tpc = "call" => buf = SubSeq(Units(msg), 1, CtrlUnits)

\* A vHAL that waits for the client, opens, streams and closes, and does not
\* drop the connection, sees an audio client run on or exit(0): no empty
\* callback, no second thread, no failed send.  (the switch of the two clients)
AudioSessionClean ==
    orderly /\ ndrops = 0 /\ kind # "sensor" => status \in {"running", "exit0"}

\* After kClose the record client ends, its streamer having left a send() that
\* waits for the vHAL to read.  (stop, join() and exit(0))
CloseEndsClient == (kind = "record" /\ tpc = "join") ~> ~Running

\* A connection the vHAL drops is made again, unless the process ends or the
\* object is destroyed.  (Close() and the loop that connects)
ChannelReconnects ==
    (Running /\ conn \in {"fin", "rst"})
      ~> (conn = "open" \/ ~Running \/ ~should_continue_)

\* ~Impl() returns, wherever the talker is.  (should_continue_ in both loops)
ChannelDestructorReturns == (xpc = "join") ~> (xpc = "destroyed" \/ ~Running)

\* An enabled accelerometer keeps sending, over reconnects too.
\* (the sender's loop and SendDataPacket())
AccelerometerFlows ==
    (kind = "sensor" /\ AccOn(mSensorMap) /\ conn = "open")
      ~> (rx > 0 \/ conn # "open" \/ ~Running)

\* Nobody reads mSensorMap while the callback changes it.  (sensorMapMutex)
MapGuarded == ~(tpc = "insert" /\ spc = "reading")

(***************************************************************************)
(* The messages reach the callback as CommandLink says.                    *)
(***************************************************************************)
Over == ~Running \/ tpc = "exited" \/ xpc = "destroyed"

\* the last unit of a message that is for the callback
EndsMessage(k, u) == u.i = CtrlUnits /\ (k = "sensor" => IsValidCtrlPacket(u.m))

MessagesIn(k, q) ==
    Selected([i \in 1..Len(q) |-> q[i].m], {i \in 1..Len(q) : EndsMessage(k, q[i])})

linkOf == CASE Over -> "ended"
            [] ~Over /\ conn \in {"none", "unconnected", "shut"} -> "down"
            [] ~Over /\ conn = "open" -> "up"
            [] ~Over /\ conn \in {"fin", "rst"} -> "dropped"

queueOf == IF Over THEN <<>> ELSE MessagesIn(kind, inbox)

runningOf == IF tpc \in {"call", "payload", "join", "insert"} /\ ~Over THEN msg ELSE "none"

CL == INSTANCE CommandLink WITH
    Commands <- AudioMsgs \cup SensorMsgs,
    link <- linkOf, queue <- queueOf, running <- runningOf, torn <- FALSE

\* Control messages are delivered in order, whole, one at a time and at most
\* once, and only the vHAL ends a connection.  (the talker's receive loop)
DeliversMessages == CL!Spec
=============================================================================
