------------------------ MODULE VirtualGpsReceiver ------------------------
(***************************************************************************)
(* source/virtual_gps_receiver.cc: a worker thread connects to the GPS     *)
(* server and hands the commands it reads, one byte each, to the client's  *)
(* handler.  mSockGps is a plain int that the worker and the destructor    *)
(* both close; mMutex guards mStop and nothing else.                       *)
(*                                                                         *)
(* Connect() and Disconnect() are public, but the worker and the           *)
(* destructor are their callers here.  Write() is called by the sample     *)
(* (GpsSample) and changes no state of the receiver: it never sees write() *)
(* return 0.                                                               *)
(***************************************************************************)
EXTENDS Integers, Sequences

CONSTANTS
    Fds,        \* the descriptors the process may have open
    MaxCmds,    \* bound: commands the server sends
    MaxDrops    \* bound: connections the server drops

\* descriptor 0 belongs to the process: Connected() takes it for none
ASSUME FdsAssumption == Fds \subseteq Nat \ {0}
ASSUME BoundAssumption == MaxCmds \in Nat /\ MaxDrops \in Nat

VARIABLES
    mStop,
    mSockGps,
    handler,    \* mGpsCmdHandler is set
    wpc,        \* where the worker is
    xpc,        \* where the client is: "idle", in the destructor, or "destroyed"
    cmd,        \* the command the worker has read
    fdt,        \* the kernel's descriptor table
    conn,       \* the worker's socket: "none" until connected, "open", "fin" or "rst"
                \* from the server, "shut" by shutdown()
    inbox,      \* commands the worker has not read
    srv,        \* the server listens
    ncmds, ndrops

clientVars == <<mStop, handler, xpc>>
serverVars == <<srv, ncmds, ndrops>>
vars == <<mSockGps, wpc, cmd, fdt, conn, inbox, clientVars, serverVars>>

NoFd == -1

Known == {"QUIT", "START", "STOP"}
Commands == Known \cup {"unknown"}

TypeOK ==
    /\ mStop \in BOOLEAN /\ handler \in BOOLEAN /\ srv \in BOOLEAN
    /\ mSockGps \in Fds \cup {NoFd}
    /\ wpc \in {"check", "test", "socket", "connecting", "failed", "clear", "read",
                "reading", "dispatch", "handler", "disconnect", "shutdown", "close",
                "forget", "exited"}
    /\ xpc \in {"idle", "test", "disconnect", "shutdown", "close", "forget", "join",
                "destroyed"}
    /\ cmd \in Commands
    /\ fdt \in [Fds -> {"free", "sock", "file"}]
    /\ conn \in {"none", "open", "fin", "rst", "shut"}
    /\ inbox \in Seq(Commands)
    /\ ncmds \in 0..MaxCmds /\ ndrops \in 0..MaxDrops

Init ==
    /\ mStop = FALSE /\ mSockGps = NoFd /\ handler = FALSE
    /\ wpc = "check" /\ xpc = "idle" /\ cmd = "unknown"
    /\ fdt = [f \in Fds |-> "free"]
    /\ conn = "none" /\ inbox = <<>>
    /\ srv \in BOOLEAN /\ ncmds = 0 /\ ndrops = 0

(***************************************************************************)
(* System calls on mSockGps, whatever it names by now.                     *)
(***************************************************************************)
LowestFree == {f \in Fds : fdt[f] = "free" /\ \A g \in Fds : fdt[g] = "free" => f <= g}

Names(what) == mSockGps # NoFd /\ fdt[mSockGps] = what

\* close(mSockGps): a number that is not open is an error nobody looks at
CloseFd == fdt' = IF mSockGps = NoFd THEN fdt ELSE [fdt EXCEPT ![mSockGps] = "free"]

\* close() alone, which leaves a thread that waits in read() where it is
ShutdownFd_Bug == UNCHANGED <<conn, inbox>>

\* shutdown(mSockGps): ends a read() that waits
ShutdownFd ==
    /\ conn' = IF Names("sock") /\ conn = "open" THEN "shut" ELSE conn
    /\ inbox' = inbox

(***************************************************************************)
(* Disconnect(), by the worker (from Read) or by the destructor.           *)
(***************************************************************************)

\* mSockGps goes on naming the closed descriptor
Disconnect_Bug(pc, done) ==
    \/ /\ pc = "disconnect"
       /\ IF mSockGps = NoFd THEN done ELSE pc' = "shutdown"
       /\ UNCHANGED <<mSockGps, fdt, conn, inbox>>
    \/ /\ pc = "shutdown"
       /\ ShutdownFd
       /\ pc' = "close"
       /\ UNCHANGED <<mSockGps, fdt>>
    \/ /\ pc = "close"
       /\ CloseFd
       /\ done
       /\ UNCHANGED <<mSockGps, conn, inbox>>

Disconnect(pc, done) ==
    \/ /\ pc = "disconnect"
       /\ IF mSockGps = NoFd THEN done ELSE pc' = "shutdown"
       /\ UNCHANGED <<mSockGps, fdt, conn, inbox>>
    \/ /\ pc = "shutdown"
       /\ ShutdownFd
       /\ pc' = "close"
       /\ UNCHANGED <<mSockGps, fdt>>
    \/ /\ pc = "close"
       /\ CloseFd
       /\ pc' = "forget"
       /\ UNCHANGED <<mSockGps, conn, inbox>>
    \/ /\ pc = "forget"
       /\ mSockGps' = NoFd
       /\ done
       /\ UNCHANGED <<fdt, conn, inbox>>

(***************************************************************************)
(* The worker, workThreadProc.                                             *)
(***************************************************************************)
WorkerLocal == UNCHANGED <<clientVars, serverVars>>
NoIO == UNCHANGED <<mSockGps, fdt, conn, inbox>>

\* mStop, under mMutex
WorkCheck ==
    /\ wpc = "check"
    /\ wpc' = IF mStop THEN "exited" ELSE "test"
    /\ UNCHANGED cmd /\ NoIO /\ WorkerLocal

\* Connected(), read without a lock
WorkTest ==
    /\ wpc = "test"
    /\ wpc' = IF mSockGps > 0 THEN "read" ELSE "socket"
    /\ UNCHANGED cmd /\ NoIO /\ WorkerLocal

\* Connect(): without a descriptor the worker sleeps and starts over
ConnectSocket ==
    /\ wpc = "socket"
    /\ \/ \E f \in LowestFree :
            /\ mSockGps' = f
            /\ fdt' = [fdt EXCEPT ![f] = "sock"]
            /\ conn' = "none" /\ inbox' = <<>>
            /\ wpc' = "connecting"
       \/ /\ LowestFree = {}
          /\ mSockGps' = NoFd
          /\ wpc' = "check"
          /\ UNCHANGED <<fdt, conn, inbox>>
    /\ UNCHANGED cmd /\ WorkerLocal

\* a server that refuses ends the worker
ConnectResult_Bug ==
    /\ wpc = "connecting"
    /\ IF srv /\ Names("sock") /\ conn = "none"
         THEN wpc' = "read" /\ conn' = "open"
         ELSE wpc' = "exited" /\ conn' = conn
    /\ UNCHANGED <<cmd, mSockGps, fdt, inbox>> /\ WorkerLocal

\* connect() on what mSockGps names
ConnectResult ==
    /\ wpc = "connecting"
    /\ IF srv /\ Names("sock") /\ conn = "none"
         THEN wpc' = "read" /\ conn' = "open"
         ELSE wpc' = "failed" /\ conn' = conn
    /\ UNCHANGED <<cmd, mSockGps, fdt, inbox>> /\ WorkerLocal

\* the descriptor is forgotten and not closed
ConnectClose_Bug ==
    /\ wpc = "failed"
    /\ wpc' = "clear"
    /\ UNCHANGED <<cmd, mSockGps, fdt, conn, inbox>> /\ WorkerLocal

\* a failed Connect() closes its socket ...
ConnectClose ==
    /\ wpc = "failed"
    /\ CloseFd
    /\ wpc' = "clear"
    /\ UNCHANGED <<cmd, mSockGps, conn, inbox>> /\ WorkerLocal

\* mSockGps goes on naming a closed descriptor
ConnectClear_Bug ==
    /\ wpc = "clear"
    /\ wpc' = "check"
    /\ UNCHANGED <<cmd, mSockGps, fdt, conn, inbox>> /\ WorkerLocal

\* ... and forgets it; the worker sleeps and starts over
ConnectClear ==
    /\ wpc = "clear"
    /\ mSockGps' = NoFd
    /\ wpc' = "check"
    /\ UNCHANGED <<cmd, fdt, conn, inbox>> /\ WorkerLocal

\* Read(): read() enters; a number that is closed fails at once, and one that
\* is somebody else's file gives anything
ReadEnter ==
    /\ wpc = "read"
    /\ \/ Names("sock") /\ wpc' = "reading" /\ cmd' = cmd
       \/ ~Names("sock") /\ wpc' = "check" /\ cmd' = cmd
       \/ Names("file") /\ wpc' = "disconnect" /\ cmd' = cmd
       \/ Names("file") /\ wpc' = "dispatch" /\ cmd' \in Commands
    /\ NoIO /\ WorkerLocal

\* read() returns a byte
ReadByte ==
    /\ wpc = "reading"
    /\ inbox # <<>> /\ conn # "rst"
    /\ cmd' = Head(inbox)
    /\ inbox' = Tail(inbox)
    /\ wpc' = "dispatch"
    /\ UNCHANGED <<mSockGps, fdt, conn>> /\ WorkerLocal

\* read() returns 0: Read() disconnects, and the worker leaves its loop
ReadEof ==
    /\ wpc = "reading"
    /\ inbox = <<>> /\ conn \in {"fin", "shut"}
    /\ wpc' = "disconnect"
    /\ UNCHANGED cmd /\ NoIO /\ WorkerLocal

\* read() fails, once: the worker starts over with mSockGps as it is
ReadError ==
    /\ wpc = "reading"
    /\ conn = "rst"
    /\ conn' = "fin"
    /\ inbox' = <<>>
    /\ wpc' = "check"
    /\ UNCHANGED <<cmd, mSockGps, fdt>> /\ WorkerLocal

\* the switch: an unknown command, or one that has no handler yet, is dropped
Dispatch ==
    /\ wpc = "dispatch"
    /\ wpc' = IF cmd \in Known /\ handler THEN "handler" ELSE "check"
    /\ UNCHANGED cmd /\ NoIO /\ WorkerLocal

\* mGpsCmdHandler returns
HandlerReturn ==
    /\ wpc = "handler"
    /\ wpc' = "check"
    /\ UNCHANGED cmd /\ NoIO /\ WorkerLocal

WorkDisconnect == Disconnect(wpc, wpc' = "exited") /\ UNCHANGED cmd /\ WorkerLocal

Worker ==
    \/ WorkCheck \/ WorkTest
    \/ ConnectSocket \/ ConnectResult \/ ConnectClose \/ ConnectClear
    \/ ReadEnter \/ ReadByte \/ ReadEof \/ ReadError
    \/ Dispatch \/ HandlerReturn
    \/ WorkDisconnect

(***************************************************************************)
(* The client: RegisterCallback and the destructor.                        *)
(***************************************************************************)
ClientLocal == UNCHANGED <<wpc, cmd, serverVars>>

RegisterCallback ==
    /\ xpc = "idle" /\ ~handler
    /\ handler' = TRUE
    /\ UNCHANGED <<mStop, xpc>> /\ NoIO /\ ClientLocal

\* ~VirtualGpsReceiver(): mStop, under mMutex
Destroy ==
    /\ xpc = "idle"
    /\ mStop' = TRUE
    /\ xpc' = "test"
    /\ UNCHANGED handler /\ NoIO /\ ClientLocal

\* ... one look at mSockGps ...
DestroyTest ==
    /\ xpc = "test"
    /\ xpc' = IF mSockGps # NoFd THEN "disconnect" ELSE "join"
    /\ UNCHANGED <<mStop, handler>> /\ NoIO /\ ClientLocal

DestroyDisconnect ==
    Disconnect(xpc, xpc' = "join") /\ UNCHANGED <<mStop, handler>> /\ ClientLocal

\* ... and join()
Join ==
    /\ xpc = "join" /\ wpc = "exited"
    /\ xpc' = "destroyed"
    /\ UNCHANGED <<mStop, handler>> /\ NoIO /\ ClientLocal

Destructor == DestroyTest \/ DestroyDisconnect \/ Join

(***************************************************************************)
(* The rest of the process, and the GPS server (external).                 *)
(***************************************************************************)
ForeignOpen ==
    /\ \E f \in LowestFree : fdt' = [fdt EXCEPT ![f] = "file"]
    /\ UNCHANGED <<mSockGps, wpc, cmd, conn, inbox, clientVars, serverVars>>

ForeignClose ==
    /\ \E f \in {g \in Fds : fdt[g] = "file"} : fdt' = [fdt EXCEPT ![f] = "free"]
    /\ UNCHANGED <<mSockGps, wpc, cmd, conn, inbox, clientVars, serverVars>>

Elsewhere == UNCHANGED <<mSockGps, wpc, cmd, fdt, clientVars>>

ServerCommand ==
    /\ conn = "open" /\ ncmds < MaxCmds
    /\ \E c \in Commands : inbox' = Append(inbox, c)
    /\ ncmds' = ncmds + 1
    /\ UNCHANGED <<conn, srv, ndrops>> /\ Elsewhere

\* the server closes or resets the connection, and may go away
ServerDrop ==
    /\ conn = "open" /\ ndrops < MaxDrops
    /\ conn' \in {"fin", "rst"}
    /\ srv' \in BOOLEAN
    /\ ndrops' = ndrops + 1
    /\ UNCHANGED <<inbox, ncmds>> /\ Elsewhere

ServerUp ==
    /\ ~srv
    /\ srv' = TRUE
    /\ UNCHANGED <<conn, inbox, ncmds, ndrops>> /\ Elsewhere

Next ==
    \/ Worker
    \/ RegisterCallback \/ Destroy \/ Destructor
    \/ ForeignOpen \/ ForeignClose
    \/ ServerCommand \/ ServerDrop \/ ServerUp

\* Both threads run on, and the server comes up.  Nothing makes the client
\* register or destroy, nor the server command or drop.
Fairness ==
    /\ WF_vars(Worker)
    /\ WF_vars(Destructor)
    /\ WF_vars(ServerUp)

Spec == Init /\ [][Next]_vars

FairSpec == Spec /\ Fairness

(***************************************************************************)
(* Properties.                                                             *)
(***************************************************************************)

\* Until the receiver is destroyed it closes no descriptor of the rest of the
\* process.  (mSockGps is set to -1 after every close(); during destruction
\* worker and destructor may both close it)
ClosesOwnOnly ==
    [][\A f \in Fds : fdt[f] = "file" /\ fdt'[f] = "free" => ForeignClose \/ mStop]_vars

\* Until the receiver is destroyed mSockGps names every socket there is: no
\* failed connect and no lost connection leaks one.  (Connect(), Read())
NoSocketLost == \A f \in Fds : fdt[f] = "sock" => f = mSockGps \/ mStop

\* After a read error the worker connects and reads again.
\* (workThreadProc after Read() < 0)
ReadErrorReconnects ==
    (wpc = "reading" /\ conn = "rst") ~> (conn = "open" \/ mStop \/ LowestFree = {})
=============================================================================
