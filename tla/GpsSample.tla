----------------------------- MODULE GpsSample -----------------------------
(***************************************************************************)
(* host_camera_service/virtual_gps_receiver_sample.cc on top of the        *)
(* receiver: the handler, on the receiver's worker thread, starts a thread *)
(* that writes a fix every second and joins it when told to stop.          *)
(* injection_thread_flag is the handler's own; loop_quit and the position  *)
(* are plain globals, and the injection thread writes to mSockGps without  *)
(* a lock.                                                                 *)
(*                                                                         *)
(* Longitude and latitude are in steps of 0.00001 degree, as the sample    *)
(* moves and prints them, the altitude in tenths of a metre.               *)
(***************************************************************************)
EXTENDS VirtualGpsReceiver

CONSTANTS
    Starts,     \* positions the sample can be started with
    MaxFixes,   \* bound: fixes that are written
    MaxAhead    \* bound: commands the server sends ahead of the worker

Degree == 100000
Metre == 10

\* what the options -l, -o and -a are expected to be
InRange(p) ==
    /\ p.long \in -(180 * Degree)..(180 * Degree)
    /\ p.lat \in -(90 * Degree)..(90 * Degree)
    /\ p.alt \in -(400 * Metre)..(8848 * Metre)

ASSUME SampleAssumption == MaxFixes \in Nat /\ MaxAhead \in Nat /\ \A p \in Starts : InRange(p)

VARIABLES
    up,                     \* the process is alive
    injection_thread_flag,
    loop_quit,
    hpc,                    \* the handler: "enter", or "join" in pthread_join()
    ipc,                    \* the injection thread: "none" while there is none to join,
                            \* "unborn" when pthread_create() failed
    ret,                    \* result of its last do_geo_fix()
    pos,                    \* gps_long, gps_lat, gps_alt
    top,                    \* long_max, lat_max, alt_max
    nfixes

handlerVars == <<injection_thread_flag, loop_quit, hpc>>
injectVars == <<ret, pos, top, nfixes>>
sampleVars == <<up, handlerVars, ipc, injectVars>>
svars == <<vars, sampleVars>>

\* loop_quit is a global: it starts as 0
SampleInit ==
    /\ Init
    /\ up = TRUE /\ injection_thread_flag = FALSE /\ loop_quit = FALSE /\ hpc = "enter"
    /\ ipc = "none" /\ ret = "ok" /\ nfixes = 0
    /\ pos \in Starts /\ top = pos

(***************************************************************************)
(* cmd_handler, on the worker.                                             *)
(***************************************************************************)
NoBase == UNCHANGED vars

Ignored ==
    \/ cmd = "QUIT"
    \/ cmd = "START" /\ injection_thread_flag
    \/ cmd = "STOP" /\ ~injection_thread_flag

HandlerIgnores ==
    /\ hpc = "enter" /\ Ignored
    /\ HandlerReturn
    /\ UNCHANGED <<up, handlerVars, ipc, injectVars>>

\* loop_quit stays as the last STOP left it
HandlerStart_Bug ==
    /\ hpc = "enter" /\ cmd = "START" /\ ~injection_thread_flag
    /\ injection_thread_flag' = TRUE
    /\ ipc' = "init"
    /\ HandlerReturn
    /\ UNCHANGED <<up, loop_quit, hpc, injectVars>>

\* whether pthread_create() succeeded is not looked at
HandlerStart ==
    /\ hpc = "enter" /\ cmd = "START" /\ ~injection_thread_flag
    /\ injection_thread_flag' = TRUE
    /\ loop_quit' = FALSE
    /\ ipc' \in {"init", "unborn"}
    /\ HandlerReturn
    /\ UNCHANGED <<up, hpc, injectVars>>

\* the injection thread is not told
HandlerStop_Bug ==
    /\ wpc = "handler" /\ hpc = "enter" /\ cmd = "STOP" /\ injection_thread_flag
    /\ injection_thread_flag' = FALSE
    /\ hpc' = "join"
    /\ UNCHANGED <<up, loop_quit, ipc, injectVars>> /\ NoBase

HandlerStop ==
    /\ wpc = "handler" /\ hpc = "enter" /\ cmd = "STOP" /\ injection_thread_flag
    /\ loop_quit' = TRUE
    /\ injection_thread_flag' = FALSE
    /\ hpc' = "join"
    /\ UNCHANGED <<up, ipc, injectVars>> /\ NoBase

\* the thread is left to end by itself
HandlerJoin_Bug ==
    /\ hpc = "join"
    /\ hpc' = "enter"
    /\ HandlerReturn
    /\ UNCHANGED <<up, injection_thread_flag, loop_quit, ipc, injectVars>>

HandlerJoin ==
    /\ hpc = "join" /\ ipc \in {"done", "unborn"}
    /\ ipc' = "none"
    /\ hpc' = "enter"
    /\ HandlerReturn
    /\ UNCHANGED <<up, injection_thread_flag, loop_quit, injectVars>>

\* pthread_join() on an id that names no thread is undefined: it may also fault
HandlerFault ==
    /\ hpc = "join" /\ ipc = "unborn"
    /\ up' = FALSE
    /\ UNCHANGED <<handlerVars, ipc, injectVars>> /\ NoBase

Handler == HandlerIgnores \/ HandlerStart \/ HandlerStop \/ HandlerJoin \/ HandlerFault

(***************************************************************************)
(* injection_gps_data_thread.                                              *)
(***************************************************************************)

\* int x = v, for v in units of u: the fraction is cut off, towards zero
Truncate(v, u) == IF v >= 0 THEN (v \div u) * u ELSE -(((-v) \div u) * u)

\* the two conditional assignments to each limit
Clamp(v, least, most) == IF v < least THEN least ELSE IF v > most THEN most ELSE v

\* the limits are the position, cut off
Limits_Bug(p) ==
    [long |-> Clamp(Truncate(p.long, Degree), -(180 * Degree), 180 * Degree),
     lat  |-> Clamp(Truncate(p.lat, Degree), -(90 * Degree), 90 * Degree),
     alt  |-> Clamp(Truncate(p.alt, Metre), -(400 * Metre), 8848 * Metre)]

\* long_max, lat_max and alt_max: some way ahead, in whole degrees and metres
Limits(p) ==
    [long |-> Clamp(Truncate(p.long + Degree, Degree), -(180 * Degree), 180 * Degree),
     lat  |-> Clamp(Truncate(p.lat + Degree, Degree), -(90 * Degree), 90 * Degree),
     alt  |-> Clamp(Truncate(p.alt + 1000 * Metre, Metre), -(400 * Metre), 8848 * Metre)]

InjectInit ==
    /\ ipc = "init"
    /\ ipc' = "loop"
    /\ top' = Limits(pos) /\ ret' = "ok"
    /\ UNCHANGED <<up, handlerVars, pos, nfixes>> /\ NoBase

InjectQuit ==
    /\ ipc = "loop" /\ loop_quit
    /\ ipc' = "done"
    /\ UNCHANGED <<up, handlerVars, injectVars>> /\ NoBase

LesserOf(a, b) == IF a > b THEN b ELSE a

Advance(p, t) ==
    [long |-> LesserOf(p.long + 1, t.long),
     lat  |-> LesserOf(p.lat + 1, t.lat),
     alt  |-> LesserOf(p.alt + Metre, t.alt)]

InjectMove ==
    /\ ipc = "loop" /\ ~loop_quit /\ nfixes < MaxFixes
    /\ pos' = Advance(pos, top)
    /\ ipc' = "fix" /\ nfixes' = nfixes + 1
    /\ UNCHANGED <<up, handlerVars, ret, top>> /\ NoBase

\* Write() fails: the thread ends, and injection_thread_flag stays
FixFails ==
    /\ ipc' = "done" /\ ret' = "error"
    /\ UNCHANGED <<up, handlerVars, pos, top, nfixes>> /\ NoBase

FixWritten ==
    /\ ipc' = "loop"
    /\ UNCHANGED <<up, handlerVars, injectVars>>

\* Write(), on what mSockGps names by now: a closed connection takes data until
\* the server answers with a reset
InjectWrite ==
    /\ ipc = "fix"
    /\ \/ Names("file") /\ FixWritten /\ NoBase
       \/ /\ Names("sock") /\ conn \in {"open", "fin"}
          /\ FixWritten
          /\ conn' \in (IF conn = "fin" THEN {"fin", "rst"} ELSE {"open"})
          /\ UNCHANGED <<mSockGps, wpc, cmd, fdt, inbox, clientVars, serverVars>>
       \/ ~(Names("sock") /\ conn \in {"open", "fin"}) /\ FixFails

\* SIGPIPE
InjectKilled ==
    /\ ipc = "fix"
    /\ Names("sock") /\ conn \in {"none", "rst", "shut"}
    /\ up' = FALSE
    /\ UNCHANGED <<handlerVars, ipc, injectVars>> /\ NoBase

Injector == InjectInit \/ InjectQuit \/ InjectMove \/ InjectWrite \/ InjectKilled

(***************************************************************************)
(* The process: main() registers the handler and quits, which destroys the *)
(* receiver and then ends every thread.                                    *)
(***************************************************************************)
Exit ==
    /\ xpc = "destroyed"
    /\ up' = FALSE
    /\ UNCHANGED <<handlerVars, ipc, injectVars>> /\ NoBase

ReceiverStep(A) == up /\ A /\ UNCHANGED sampleVars

SampleWorker == ReceiverStep(wpc # "handler" /\ Worker) \/ (up /\ Handler)

SampleNext ==
    \/ SampleWorker
    \/ up /\ Injector
    \/ up /\ Exit
    \/ ReceiverStep(RegisterCallback) \/ ReceiverStep(Destroy) \/ ReceiverStep(Destructor)
    \/ ReceiverStep(ForeignOpen) \/ ReceiverStep(ForeignClose)
    \/ ReceiverStep(Len(inbox) < MaxAhead /\ ServerCommand) \/ ReceiverStep(ServerDrop) \/ ReceiverStep(ServerUp)

SampleSpec == SampleInit /\ [][SampleNext]_svars

\* The three threads run on, and the server comes up.
SampleFairSpec ==
    /\ SampleSpec
    /\ WF_svars(SampleWorker)
    /\ WF_svars(up /\ Injector)
    /\ WF_svars(ReceiverStep(Destructor))
    /\ WF_svars(ReceiverStep(ServerUp))

(***************************************************************************)
(* do_geo_fix: a coordinate as an NMEA sentence gives it, hemisphere,      *)
(* degrees, minutes and ten-thousandths of a minute.  The arithmetic is in *)
(* doubles: 60 * (val - deg) is exact or falls short, here by one unit.    *)
(***************************************************************************)
Nmea_Bug(v) ==
    LET deg == v \div Degree
        val == 60 * (v - deg * Degree)
    IN  {[neg |-> v < 0, deg |-> deg, min |-> val \div Degree,
          frac |-> (10000 * (val % Degree)) \div Degree]}

Nmea(v) ==
    LET a == IF v < 0 THEN -v ELSE v
        deg == a \div Degree
        exact == 60 * (a - deg * Degree)
        Minutes(val) ==
            LET min == val \div Degree
            IN  [neg |-> v < 0, deg |-> deg, min |-> min,
                 frac |-> (10000 * (val - min * Degree)) \div Degree]
    IN  {Minutes(exact)} \cup {Minutes(val) : val \in {exact - 1} \cap Nat}

(***************************************************************************)
(* Properties.                                                             *)
(***************************************************************************)

\* There is an injection thread to join, or the attempt to start one that
\* failed, exactly while the flag is set or a STOP waits for it: no second
\* thread is started beside the first, and none is left behind.  (cmd_handler)
FlagMatchesThread == (ipc # "none") <=> (injection_thread_flag \/ hpc = "join")

\* Between START and STOP the thread goes on until a write fails.
\* (loop_quit of a START after a STOP)
InjectsUntilStopped == ipc = "done" /\ ret = "ok" => hpc = "join"

\* A STOP returns to the receiver, on a connection that is up, lost or reset and
\* on none, as long as the server reads what it is sent: a write() that blocks
\* is left out.  (loop_quit and pthread_join)
StopReturns == (hpc = "join") ~> (hpc = "enter" \/ ~up)

\* A position that starts in range stays there, and each fix moves it forward
\* by one step or not at all.  (the limits, cut off and clamped)
PositionsAdvance ==
    [][/\ InRange(pos')
       /\ pos'.long \in {pos.long, pos.long + 1}
       /\ pos'.lat \in {pos.lat, pos.lat + 1}
       /\ pos'.alt \in pos.alt..(pos.alt + Metre)]_pos

\* What a sentence says is the position, to a ten-thousandth of a minute, on
\* both sides of the equator and the meridian.  (do_geo_fix)
SentenceDecodes ==
    \A v \in {pos.long, pos.lat} : \A s \in Nmea(v) :
        LET t == 600000 * s.deg + 10000 * s.min + s.frac
        IN  /\ s.min < 60
            /\ 6 * v - (IF s.neg THEN -t ELSE t) \in -1..1

\* A fix goes to the GPS server or to nobody: only between the close() of a
\* socket and the end of the assignment to mSockGps, or when the receiver is
\* being destroyed, can mSockGps be a file of somebody else.  (Write() without
\* a lock)
FixesStayHome ==
    [][up /\ InjectWrite /\ Names("file") => wpc \in {"forget", "clear"} \/ mStop]_svars

\* The destructor gets a worker out of its wait in read(), with fixes being
\* written.  (shutdown() in Disconnect())
QuitEndsReceiver ==
    (up /\ xpc = "disconnect" /\ wpc = "reading") ~> (xpc = "destroyed" \/ ~up)

\* Until there is a connection the worker tries to make one, through refusals,
\* unless it cannot get a descriptor.  (the `continue` after Connect())
KeepsTrying ==
    (up /\ ~mStop /\ wpc # "exited" /\ conn = "none")
      ~> (conn = "open" \/ mStop \/ (wpc = "socket" /\ LowestFree = {}) \/ ~up)
=============================================================================
