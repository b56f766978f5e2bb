---------------------------- MODULE CameraClient ----------------------------
(***************************************************************************)
(* Clients of the VideoSink.  "camera" is the sample                       *)
(* host_camera_service/camera_client.cc: main exchanges capabilities once, *)
(* the callback starts a thread that streams a file, and a close joins it  *)
(* and ends the process.  The streamer has its own copy of video_sink,     *)
(* made by the callback, on the talker thread, which may run before main   *)
(* has assigned the variable.  "app" is an application that makes the      *)
(* calls in any order, returns from the callback and destroys its          *)
(* VideoSink, which the sample does not.                                   *)
(***************************************************************************)
EXTENDS VideoSink

VARIABLES
    kind,     \* the program
    orderly,  \* nothing fails for want of resources, and the vHAL opens and
              \* closes in order, once the camera info is acked
    ready,    \* main assigned video_sink
    mpc,      \* the next call of main
    kpc,      \* the callback: "entry", or "join" in the CMD_CLOSE case
    stop,
    spc,      \* the streamer; "none" while file_src_thread is not joinable
    sink,     \* the streamer's copy of video_sink is not null
    status,   \* "running", or how the process ended
    acked,    \* the vHAL acked the camera info on this connection
    opened    \* it has opened the camera on this connection

streamVars == <<stop, spc, sink>>
fixedVars == <<kind, orderly>>
clientVars == <<fixedVars, ready, mpc, kpc, streamVars, status, acked, opened>>
camVars == <<vars, clientVars>>

CamInit ==
    /\ Init
    /\ kind \in {"app", "camera"} /\ orderly \in BOOLEAN
    /\ kind = "app" => ~orderly
    /\ ready = FALSE /\ mpc = "connect" /\ kpc = "entry"
    /\ stop = FALSE /\ spc = "none" /\ sink = FALSE
    /\ status = "running" /\ acked = FALSE /\ opened = FALSE

\* the process ends, with everything in it as it is
Exits(how) ==
    /\ Running /\ Crash
    /\ status' = how
    /\ UNCHANGED <<fixedVars, ready, mpc, kpc, streamVars, acked, opened>>

(***************************************************************************)
(* main                                                                    *)
(***************************************************************************)
MainOnly == UNCHANGED <<fixedVars, kpc, streamVars, acked, opened>>

MainReady ==
    /\ Running /\ ~ready
    /\ ready' = TRUE
    /\ UNCHANGED <<vars, mpc, status>> /\ MainOnly

\* while (!video_sink->IsConnected())
MainConnected ==
    /\ Running /\ ready /\ mpc = "connect" /\ connected_
    /\ mpc' = "get"
    /\ UNCHANGED <<vars, ready, status>> /\ MainOnly

\* a call that SIGPIPE ends takes the process with it
Fate == status' = IF life' = "dead" THEN "killed" ELSE status

\* what the calls return is not looked at
MainGet ==
    /\ mpc = "get"
    /\ GetRequest
    /\ mpc' = "set"
    /\ Fate /\ UNCHANGED ready /\ MainOnly

MainSet ==
    /\ mpc = "set"
    /\ SetHeader
    /\ mpc' = "idle"
    /\ Fate /\ UNCHANGED ready /\ MainOnly

MainInCall ==
    /\ InCall
    /\ Fate /\ UNCHANGED <<ready, mpc>> /\ MainOnly

Main == MainReady \/ MainConnected \/ MainGet \/ MainSet \/ MainInCall

(***************************************************************************)
(* The callback, on the talker thread.                                     *)
(***************************************************************************)
Called(c) == Running /\ tpc = "callback" /\ kpc = "entry" /\ cmd = c

\* the callback captures video_sink by value, before make_shared has returned
CamOpen_Bug ==
    /\ Called("OPEN")
    /\ \/ /\ spc = "none"
          /\ spc' = "file" /\ sink' = FALSE
          /\ CallbackReturn
          /\ UNCHANGED <<fixedVars, ready, mpc, kpc, stop, status, acked, opened>>
       \/ /\ spc # "none"
          /\ Exits("terminated")

\* CMD_OPEN starts the streamer, with a copy of video_sink; over one that was
\* not joined the assignment ends the process
CamOpen ==
    /\ Called("OPEN")
    /\ \/ /\ spc = "none"
          /\ spc' = "file" /\ sink' = ready
          /\ CallbackReturn
          /\ UNCHANGED <<fixedVars, ready, mpc, kpc, stop, status, acked, opened>>
       \/ /\ spc # "none"
          /\ Exits("terminated")

\* the streamer is not told
CamClose_Bug ==
    /\ Called("CLOSE")
    /\ \/ /\ spc # "none"
          /\ kpc' = "join"
          /\ UNCHANGED <<vars, fixedVars, ready, mpc, streamVars, status, acked, opened>>
       \/ /\ spc = "none"
          /\ Exits("terminated")

\* CMD_CLOSE stops the streamer and joins it; without one join() throws
CamClose ==
    /\ Called("CLOSE")
    /\ \/ /\ spc # "none"
          /\ stop' = TRUE /\ kpc' = "join"
          /\ UNCHANGED <<vars, fixedVars, ready, mpc, spc, sink, status, acked, opened>>
       \/ /\ spc = "none"
          /\ Exits("terminated")

CamJoined ==
    /\ kpc = "join" /\ spc = "ended"
    /\ Exits("exit0")

CamUnknown ==
    /\ Called("NONE")
    /\ Exits("exit1")

CamCallback == CamOpen \/ CamClose \/ CamJoined \/ CamUnknown

(***************************************************************************)
(* The streamer, file_src_thread.                                          *)
(***************************************************************************)
StreamerOnly == UNCHANGED <<fixedVars, ready, mpc, kpc, stop, sink, acked, opened>>

\* the file is opened, or cannot be
CamFile ==
    /\ Running /\ spc = "file"
    /\ \/ /\ spc' = "loop"
          /\ UNCHANGED <<vars, status>> /\ StreamerOnly
       \/ /\ ~orderly
          /\ Exits("exit1")

\* at its end the file is opened again, which may fail; the loop then goes on
\* with the next part, after another look at stop
CamLoop ==
    /\ Running /\ spc = "loop"
    /\ \/ /\ spc' = IF stop THEN "ended" ELSE "send"
          /\ UNCHANGED <<vars, status>> /\ StreamerOnly
       \/ /\ ~stop /\ ~orderly
          /\ Exits("exit1")

\* SendDataPacket on the copy of video_sink, up to the payload
CamSend ==
    /\ spc = "send"
    /\ \/ /\ sink
          /\ SendDataHeader
          /\ spc' = IF dpc' = "pay" THEN "sending" ELSE "failed"
          /\ Fate /\ StreamerOnly
       \/ /\ ~sink
          /\ Exits("fault")

CamSent ==
    /\ spc = "sending"
    /\ SendDataPayload
    /\ spc' = IF peer = "open" THEN "loop" ELSE "failed"
    /\ Fate /\ StreamerOnly

\* a packet that could not be sent
CamFailed ==
    /\ spc = "failed"
    /\ Exits("exit1")

CamStreamer == CamFile \/ CamLoop \/ CamSend \/ CamSent \/ CamFailed

(***************************************************************************)
(* The VideoSink's own steps and the vHAL's.                               *)
(***************************************************************************)
LibStep(A) ==
    /\ A
    /\ status' = IF life' = "dead" THEN "terminated" ELSE status
    /\ acked' = (acked /\ peer' = "open")
    /\ opened' = (opened /\ peer' = "open")
    /\ UNCHANGED <<fixedVars, ready, mpc, kpc, streamVars>>

CamVhalReply ==
    /\ VhalReply
    /\ acked' = (acked \/ Head(owed) = "ACK")
    /\ UNCHANGED <<fixedVars, ready, mpc, kpc, streamVars, status, opened>>

\* an orderly vHAL waits for the exchange, opens once and closes once
InOrder(p) ==
    /\ acked
    /\ p.type = "OTHER" \/ p.body = (IF opened THEN "CLOSE" ELSE "OPEN")

CamVhalCommand ==
    /\ VhalCommand
    /\ orderly => InOrder(inbox'[Len(inbox')])
    /\ opened' = (opened \/ inbox'[Len(inbox')].body = "OPEN")
    /\ UNCHANGED <<fixedVars, ready, mpc, kpc, streamVars, status, acked>>

CamTalker == LibStep(TalkerLib) \/ CamCallback

CamTerminated == ~Running /\ UNCHANGED camVars

CameraStep(A) == kind = "camera" /\ A
AppStep(A) == kind = "app" /\ A /\ UNCHANGED clientVars

CamNext ==
    \/ CameraStep(CamTalker) \/ CameraStep(Main) \/ CameraStep(CamStreamer)
    \/ CameraStep(CamVhalReply) \/ CameraStep(CamVhalCommand)
    \/ CameraStep(LibStep(VhalDrop)) \/ CameraStep(LibStep(VhalUp))
    \/ CameraStep(CamTerminated)
    \/ AppStep(Next)

CamSpec == CamInit /\ [][CamNext]_camVars

\* Every thread of either program runs on, and the vHAL comes back and answers
\* as in the VideoSink's own Fairness.
CamFairSpec ==
    /\ CamSpec
    /\ WF_camVars(CameraStep(CamTalker) \/ AppStep(Talker))
    /\ WF_camVars(CameraStep(Main) \/ AppStep(InCall))
    /\ WF_camVars(CameraStep(CamStreamer) \/ AppStep(SendDataPayload))
    /\ WF_camVars(AppStep(Join))
    /\ WF_camVars(CameraStep(CamVhalReply) \/ AppStep(VhalReply))
    /\ WF_camVars(CameraStep(LibStep(VhalUp)) \/ AppStep(VhalUp))

(***************************************************************************)
(* Properties.                                                             *)
(***************************************************************************)

\* As long as no connection was lost, a vHAL that opens after the exchange and
\* closes once sees the client run on or exit(0): the streamer's copy of
\* video_sink is not null, no second streamer is started, none is missing at
\* the join and no packet is lost.  (the callback's switch, and the order of
\* main's calls)
CameraSessionClean ==
    kind = "camera" /\ orderly /\ Undisturbed => status \in {"running", "exit0"}

\* A close that joins the streamer ends the process, whatever becomes of the
\* connection meanwhile.  (stop, join() and exit(0))
CameraCloseExits == (kpc = "join") ~> ~Running
=============================================================================
