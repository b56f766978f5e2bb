------------------------- MODULE HostCameraServer -------------------------
(***************************************************************************)
(* host_camera_service/host_camera_server.cc: the client that streams a    *)
(* V4L2 camera to the Camera vHAL.  It is the VideoSink with its threads   *)
(* filled in: the callback runs on the talker thread and opens and closes  *)
(* the camera, the streamer (file_src_thread) reads and sends frames,      *)
(* InitCamera exchanges capabilities after each connection, and main       *)
(* assigns the global video_sink when the constructor has returned.        *)
(***************************************************************************)
EXTENDS VideoSink

CONSTANT
    OpenAfterAck  \* the vHAL sends commands only once it acked the camera info

ASSUME PolicyAssumption == OpenAfterAck \in BOOLEAN

VARIABLES
    ready,   \* main assigned video_sink and created the InitCamera thread
    ipc,     \* the next call of InitCamera's loop
    kpc,     \* where the callback is
    stop,    \* the flag shared with the streamer
    count,   \* open_close_count
    lock,    \* thread_lock is held
    ctx,     \* stream_ctx and buf_list are allocated
    early,   \* the callback's last wait returned without a signal
    spc,     \* where the streamer is; "none" when file_src_thread is not joinable
    acked    \* the vHAL acked the camera info on this connection

callbackVars == <<kpc, stop, count, lock, ctx, early>>
hostVars == <<ready, ipc, callbackVars, spc, acked>>
allVars == <<vars, hostVars>>

HostInit ==
    /\ Init
    /\ ready = FALSE /\ ipc = "reset" /\ kpc = "entry" /\ stop = TRUE
    /\ count = 0 /\ lock = FALSE /\ ctx = "none" /\ early = FALSE
    /\ spc = "none" /\ acked = FALSE

IsOdd(n) == n % 2 = 1

HostCrash == Crash /\ UNCHANGED hostVars

(***************************************************************************)
(* main                                                                    *)
(***************************************************************************)
MainReady ==
    /\ Running /\ ~ready
    /\ ready' = TRUE
    /\ UNCHANGED <<vars, ipc, callbackVars, spc, acked>>

(***************************************************************************)
(* InitCamera: for ever reset, get, set; the results are not looked at     *)
(***************************************************************************)
\* the thread is created before video_sink is assigned
InitReset_BugEarly ==
    /\ ipc = "reset"
    /\ ResetCameraCapabilty
    /\ ipc' = "get"
    /\ UNCHANGED <<ready, callbackVars, spc, acked>>

\* the exchange is repeated without waiting for a connection
InitReset_BugNoWait ==
    /\ ready /\ ipc = "reset" /\ life = "live" /\ cpc = "idle"
    /\ ipc' = "get"
    /\ UNCHANGED <<vars, ready, callbackVars, spc, acked>>

InitReset ==
    /\ ready /\ ipc = "reset"
    /\ ResetCameraCapabilty
    /\ ipc' = "get"
    /\ UNCHANGED <<ready, callbackVars, spc, acked>>

InitGet ==
    /\ ipc = "get"
    /\ GetRequest
    /\ ipc' = "set"
    /\ UNCHANGED <<ready, callbackVars, spc, acked>>

InitSet ==
    /\ ipc = "set"
    /\ SetHeader
    /\ ipc' = "reset"
    /\ UNCHANGED <<ready, callbackVars, spc, acked>>

(***************************************************************************)
(* The callback, on the talker thread.                                     *)
(***************************************************************************)
InCallback(pc) == life = "live" /\ tpc = "callback" /\ kpc = pc

CallbackDone ==
    /\ kpc' = "entry"
    /\ tpc' = LoopCheck
    /\ UNCHANGED <<life, cmd, pollFd, sockVars, cap, cpc, dpc, linkVars, envVars>>

\* CMD_OPEN: a camera that is open is first closed
CbOpen ==
    /\ InCallback("entry") /\ cmd = "OPEN"
    /\ IF IsOdd(count) THEN kpc' = "stopped" /\ stop' = TRUE
                       ELSE kpc' = "start" /\ stop' = stop
    /\ UNCHANGED <<vars, count, lock, ctx, early, ready, ipc, spc, acked>>

\* CMD_CLOSE: that the camera is closed already is printed and nothing more
CbClose ==
    /\ InCallback("entry") /\ cmd = "CLOSE"
    /\ stop' = TRUE
    /\ kpc' = "stopped"
    /\ UNCHANGED <<vars, count, lock, ctx, early, ready, ipc, spc, acked>>

\* CMD_NONE and unknown commands
CbNone ==
    /\ InCallback("entry") /\ cmd = "NONE"
    /\ CallbackDone
    /\ UNCHANGED <<stop, count, lock, ctx, early, ready, ipc, spc, acked>>

\* the callback does not wait for the streamer
CbWait_Bug ==
    /\ InCallback("stopped")
    /\ kpc' = "signalled"
    /\ UNCHANGED <<vars, lock, stop, count, ctx, early, ready, ipc, spc, acked>>

\* pthread_cond_wait on thread_running gives thread_lock up
CbWait ==
    /\ InCallback("stopped")
    /\ kpc' = "waiting"
    /\ lock' = FALSE
    /\ early' = FALSE
    /\ UNCHANGED <<vars, stop, count, ctx, ready, ipc, spc, acked>>

CbSpuriousWake ==
    /\ Spurious /\ InCallback("waiting")
    /\ kpc' = "signalled"
    /\ lock' = TRUE
    /\ early' = TRUE
    /\ UNCHANGED <<vars, stop, count, ctx, ready, ipc, spc, acked>>

\* thread_lock is given back and the buffers and stream_ctx are freed
CbRelease ==
    /\ InCallback("signalled")
    /\ \/ /\ ctx = "open"
          /\ ctx' = "none"
          /\ lock' = FALSE
          /\ kpc' = "join"
          /\ UNCHANGED <<vars, stop, count, early, ready, ipc, spc, acked>>
       \/ ctx = "none" /\ HostCrash

\* the close is not counted
CbJoin_BugCount ==
    /\ InCallback("join") /\ spc = "exited"
    /\ spc' = "none"
    /\ IF cmd = "OPEN" THEN kpc' = "start" /\ UNCHANGED vars
                       ELSE CallbackDone
    /\ UNCHANGED <<count, stop, lock, ctx, early, ready, ipc, acked>>

\* file_src_thread.join(), then OPEN goes on to open and CLOSE is done
CbJoin ==
    /\ InCallback("join") /\ spc = "exited"
    /\ spc' = "none"
    /\ count' = count + 1
    /\ IF cmd = "OPEN" THEN kpc' = "start" /\ UNCHANGED vars
                       ELSE CallbackDone
    /\ UNCHANGED <<stop, lock, ctx, early, ready, ipc, acked>>

\* thread_lock is taken, the camera opened and the streamer started; an
\* open that fails dereferences NULL, and a thread that was never joined
\* cannot be assigned to
CbStart ==
    /\ InCallback("start") /\ ~lock
    /\ \/ /\ spc = "none"
          /\ lock' = TRUE
          /\ stop' = FALSE
          /\ ctx' = "open"
          /\ count' = count + 1
          /\ spc' = "check"
          /\ CallbackDone
          /\ UNCHANGED <<early, ready, ipc, acked>>
       \/ HostCrash

Callback == \/ CbOpen \/ CbClose \/ CbNone \/ CbWait \/ CbSpuriousWake
            \/ CbRelease \/ CbJoin \/ CbStart

(***************************************************************************)
(* The streamer, file_src_thread.                                          *)
(***************************************************************************)
StCheck ==
    /\ Running /\ spc = "check"
    /\ spc' = IF stop THEN "exit" ELSE "read"
    /\ UNCHANGED <<vars, callbackVars, ready, ipc, acked>>

\* av_read_frame on stream_ctx; a failure is printed and the packet sent
StRead ==
    /\ Running /\ spc = "read"
    /\ \/ ctx = "open" /\ spc' = "send"
            /\ UNCHANGED <<vars, callbackVars, ready, ipc, acked>>
       \/ ctx = "none" /\ HostCrash

\* video_sink->SendDataPacket, up to the payload; a null video_sink faults
StSend ==
    /\ spc = "send"
    /\ \/ /\ ready
          /\ SendDataHeader
          /\ spc' = IF dpc' = "pay" THEN "sending" ELSE "check"
          /\ UNCHANGED <<callbackVars, ready, ipc, acked>>
       \/ Running /\ ~ready /\ HostCrash

StSent ==
    /\ spc = "sending"
    /\ SendDataPayload
    /\ spc' = "check"
    /\ UNCHANGED <<callbackVars, ready, ipc, acked>>

\* the signal is forgotten
StExit_Bug ==
    /\ Running /\ spc = "exit"
    /\ spc' = "exited"
    /\ UNCHANGED <<vars, callbackVars, ready, ipc, acked>>

\* the signal, without thread_lock, to a callback that may not wait yet
StExit ==
    /\ Running /\ spc = "exit"
    /\ spc' = "exited"
    /\ IF kpc = "waiting" THEN kpc' = "signalled" /\ lock' = TRUE
                          ELSE UNCHANGED <<kpc, lock>>
    /\ UNCHANGED <<vars, stop, count, ctx, early, ready, ipc, acked>>

Streamer == StCheck \/ StRead \/ StSend \/ StSent \/ StExit

(***************************************************************************)
(* The VideoSink's own steps and the vHAL's.                               *)
(***************************************************************************)
LibStep(A) ==
    /\ A
    /\ acked' = (acked /\ peer' = "open")
    /\ UNCHANGED <<ready, ipc, callbackVars, spc>>

HostVhalReply ==
    /\ VhalReply
    /\ acked' = (acked \/ Head(owed) = "ACK")
    /\ UNCHANGED <<ready, ipc, callbackVars, spc>>

HostVhalCommand ==
    /\ OpenAfterAck => acked
    /\ VhalCommand
    /\ UNCHANGED hostVars

HostTalker == LibStep(TalkerLib) \/ Callback

InitCamera == InitReset \/ InitGet \/ InitSet \/ LibStep(InCall)

HostTerminated == ~Running /\ UNCHANGED allVars

HostNext ==
    \/ HostTalker \/ InitCamera \/ Streamer \/ MainReady
    \/ LibStep(SpuriousWake) \/ LibStep(ForeignOpen) \/ LibStep(ForeignClose)
    \/ HostVhalReply \/ HostVhalCommand
    \/ LibStep(VhalDrop) \/ LibStep(VhalUp)
    \/ HostTerminated

\* every thread of the process runs, and the vHAL comes back and answers
HostFairness ==
    /\ WF_allVars(HostTalker)
    /\ WF_allVars(InitCamera)
    /\ WF_allVars(Streamer)
    /\ WF_allVars(MainReady)
    /\ WF_allVars(HostVhalReply)
    /\ WF_allVars(LibStep(VhalUp))

HostSpec == HostInit /\ [][HostNext]_allVars

HostFairSpec == HostSpec /\ HostFairness

(***************************************************************************)
(* Properties.                                                             *)
(***************************************************************************)

\* The streamer never touches stream_ctx or a buffer that a close has freed,
\* unless the close's wait returned without a signal; and then only until
\* the join.  (the hand-over through stop, thread_running and thread_lock
\* between the callback and file_src_thread)
NoUseAfterFree ==
    spc \in {"read", "send", "sending"} => ctx = "open" \/ (early /\ kpc = "join")

StreamerUp == spc \in {"check", "read", "send", "sending", "exit"}

CameraOpen == IsOdd(count) /\ ctx = "open"
CameraShut == ~IsOdd(count) /\ ctx = "none"

\* the streamer is gone, or the wait for it returned without a signal
Gone == spc = "exited" \/ (early /\ StreamerUp)

\* What parity of open_close_count, thread_lock, stop, stream_ctx and the
\* streamer are at each point of the callback: the count is odd exactly while
\* there is a stream to close, and thread_lock is never taken twice.
\* (the CMD_OPEN and CMD_CLOSE cases)
CallbackPhases ==
    /\ kpc # "entry" => tpc = "callback"
    /\ kpc = "entry" =>
         \/ CameraOpen /\ StreamerUp /\ spc # "exit" /\ lock /\ ~stop
         \/ CameraShut /\ spc = "none" /\ ~lock
    /\ kpc \in {"stopped", "waiting"} =>
         /\ stop
         /\ lock => kpc = "stopped"
         /\ \/ CameraOpen /\ (StreamerUp \/ spc = "exited")
            \/ CameraShut /\ spc = "none" /\ cmd = "CLOSE"
    /\ kpc = "signalled" =>
         /\ lock /\ stop
         /\ (CameraOpen /\ Gone) \/ (early /\ CameraShut /\ spc = "none")
    /\ kpc = "join" => ctx = "none" /\ IsOdd(count) /\ Gone /\ ~lock /\ stop
    /\ kpc = "start" => CameraShut /\ spc = "none" /\ ~lock /\ cmd = "OPEN"

\* The streamer finds video_sink assigned although the talker, and with it
\* the callback, runs before main's assignment: a vHAL that opens the camera
\* after the capability exchange hears of the exchange from InitCamera only.
\* (make_shared<VideoSink> at host_camera_server.cc:323)
StreamsThroughAssignedSink == spc \in {"send", "sending"} => ready

\* A close that waits before the streamer has gone completes.
\* (pthread_cond_wait at host_camera_server.cc:335 and 414)
WaitingCloseCompletes ==
    (kpc = "waiting" /\ StreamerUp) ~> (kpc = "entry" \/ ~Running)

\* Every CMD_CLOSE is answered: the callback returns.
\* (the CMD_CLOSE case, whose check of the parity only prints)
CloseCompletes ==
    (tpc = "callback" /\ cmd = "CLOSE") ~> (tpc # "callback" \/ ~Running)

\* On every connection InitCamera's exchange comes to its end, the vHAL's ack
\* of the camera info.  (three waits for a signal that may have been sent
\* before: ResetCameraCapabilty, GetCameraCapabilty, SetCameraCapabilty)
ExchangeCompletes ==
    (peer = "open" /\ tpc = "setup") ~> (acked \/ peer # "open" \/ ~Running)
=============================================================================
