----------------------------- MODULE GpsProofs -----------------------------
(***************************************************************************)
(* What holds of the GPS receiver for every number of descriptors,         *)
(* commands and drops: until the destructor has begun mSockGps, which no   *)
(* lock guards, is in step with the descriptor table.                      *)
(***************************************************************************)
EXTENDS VirtualGpsReceiver, TLAPS

\* between a close() and the assignment of -1 there is no socket at all; at
\* every other point mSockGps names the one there is, or none
InStep ==
    /\ \A f \in Fds : fdt[f] = "sock" => f = mSockGps
    /\ wpc = "socket" => mSockGps = NoFd
    /\ wpc \in {"clear", "forget"} => \A f \in Fds : fdt[f] # "sock"
    /\ wpc \notin {"clear", "forget"} => (mSockGps = NoFd \/ Names("sock"))

GInv == /\ TypeOK
        /\ xpc # "idle" => mStop
        /\ ~mStop => InStep

(***************************************************************************)
(* Type correctness.                                                       *)
(***************************************************************************)

\* A receiver that was just constructed is in step.  (the constructor)
LEMMA InitGInv == Init => GInv
<1> SUFFICES ASSUME Init PROVE GInv
  OBVIOUS
<1>1. mStop \in BOOLEAN /\ handler \in BOOLEAN /\ srv \in BOOLEAN
  BY DEF Init
<1>2. TypeOK
  BY <1>1, BoundAssumption DEF Init, TypeOK, Commands
<1>3. InStep
  BY DEF Init, InStep, NoFd
<1> QED BY <1>2, <1>3 DEF GInv, Init

\* Both callers of Disconnect keep the types.
LEMMA DisconnectType ==
    ASSUME TypeOK
    PROVE  /\ WorkDisconnect => TypeOK'
           /\ DestroyDisconnect => TypeOK'
<1> USE DEF TypeOK
<1>1. ASSUME WorkDisconnect PROVE TypeOK'
  BY <1>1 DEF WorkDisconnect, Disconnect, ShutdownFd, CloseFd, Names, WorkerLocal,
              clientVars, serverVars
<1>2. ASSUME DestroyDisconnect PROVE TypeOK'
  BY <1>2 DEF DestroyDisconnect, Disconnect, ShutdownFd, CloseFd, Names, ClientLocal,
              clientVars, serverVars
<1> QED BY <1>1, <1>2

\* The worker's connect keeps the types.  (Connect())
LEMMA ConnectType ==
    ASSUME TypeOK,
           ConnectSocket \/ ConnectResult \/ ConnectClose \/ ConnectClear
    PROVE  TypeOK'
<1> USE DEF TypeOK, WorkerLocal, clientVars, serverVars
<1>1. CASE ConnectSocket
  <2>1. UNCHANGED <<mStop, handler, xpc, srv, ncmds, ndrops, cmd>>
    BY <1>1 DEF ConnectSocket
  <2>2. CASE LowestFree = {}
    BY <1>1, <2>1, <2>2 DEF ConnectSocket
  <2>3. CASE LowestFree # {}
    <3>1. PICK f \in Fds : /\ mSockGps' = f
                           /\ fdt' = [fdt EXCEPT ![f] = "sock"]
                           /\ conn' = "none" /\ inbox' = <<>> /\ wpc' = "connecting"
      BY <1>1, <2>3 DEF ConnectSocket, LowestFree
    <3> QED BY <2>1, <3>1
  <2> QED BY <2>2, <2>3
<1>2. CASE ConnectResult
  BY <1>2 DEF ConnectResult
<1>3. CASE ConnectClose
  BY <1>3 DEF ConnectClose, CloseFd
<1>4. CASE ConnectClear
  BY <1>4 DEF ConnectClear
<1> QED BY <1>1, <1>2, <1>3, <1>4

\* The rest of the worker's loop keeps the types.  (workThreadProc, Read())
LEMMA LoopType ==
    ASSUME TypeOK,
           \/ WorkCheck \/ WorkTest \/ ReadEnter \/ ReadByte \/ ReadEof \/ ReadError
           \/ Dispatch \/ HandlerReturn
    PROVE  TypeOK'
<1> USE DEF TypeOK, WorkerLocal, NoIO, clientVars, serverVars
<1>1. CASE WorkCheck \/ WorkTest
  BY <1>1 DEF WorkCheck, WorkTest
<1>2. CASE ReadEnter
  BY <1>2 DEF ReadEnter
<1>3. CASE ReadByte
  BY <1>3 DEF ReadByte
<1>4. CASE ReadEof \/ ReadError
  <2>1. CASE ReadEof
    BY <1>4, <2>1 DEF ReadEof
  <2>2. CASE ReadError
    BY <1>4, <2>2 DEF ReadError
  <2> QED BY <1>4, <2>1, <2>2
<1>5. CASE Dispatch \/ HandlerReturn
  BY <1>5 DEF Dispatch, HandlerReturn
<1> QED BY <1>1, <1>2, <1>3, <1>4, <1>5

\* So do the client, the rest of the process and the server.
LEMMA OthersType ==
    ASSUME TypeOK,
           \/ RegisterCallback \/ Destroy \/ DestroyTest \/ Join
           \/ ForeignOpen \/ ForeignClose
           \/ ServerCommand \/ ServerDrop \/ ServerUp
    PROVE  TypeOK'
<1> USE DEF TypeOK, ClientLocal, NoIO, Elsewhere, clientVars, serverVars
<1>1. CASE RegisterCallback \/ Destroy \/ DestroyTest \/ Join
  <2>1. mStop' \in BOOLEAN /\ handler' \in BOOLEAN
    BY <1>1 DEF RegisterCallback, Destroy, DestroyTest, Join
  <2> QED BY <1>1, <2>1 DEF RegisterCallback, Destroy, DestroyTest, Join
<1>2. CASE ForeignOpen \/ ForeignClose
  BY <1>2 DEF ForeignOpen, ForeignClose, LowestFree
<1>3. CASE ServerCommand
  BY <1>3, BoundAssumption DEF ServerCommand
<1>4. CASE ServerDrop \/ ServerUp
  <2>1. srv' \in BOOLEAN
    BY <1>4 DEF ServerDrop, ServerUp
  <2> QED BY <1>4, <2>1, BoundAssumption DEF ServerDrop, ServerUp
<1> QED BY <1>1, <1>2, <1>3, <1>4

\* Every step keeps the types.
LEMMA NextType == TypeOK /\ [Next]_vars => TypeOK'
<1> SUFFICES ASSUME TypeOK, [Next]_vars PROVE TypeOK'
  OBVIOUS
<1>1. CASE UNCHANGED vars
  BY <1>1 DEF TypeOK, vars, clientVars, serverVars
<1>2. CASE Next
  BY <1>2, DisconnectType, ConnectType, LoopType, OthersType
  DEF Next, Worker, Destructor
<1> QED BY <1>1, <1>2

(***************************************************************************)
(* mSockGps and the descriptor table.                                      *)
(***************************************************************************)

\* The worker alone keeps mSockGps in step.  (Connect(), Read(), Disconnect())
LEMMA WorkerInStep ==
    ASSUME TypeOK, InStep, Worker
    PROVE  InStep'
<1> USE FdsAssumption DEF TypeOK, InStep, Names, NoFd, NoIO
<1>1. CASE WorkCheck
  BY <1>1 DEF WorkCheck
<1>2. CASE WorkTest
  BY <1>2 DEF WorkTest
<1>3. CASE ConnectSocket
  BY <1>3 DEF ConnectSocket, LowestFree
<1>4. CASE ConnectResult
  BY <1>4 DEF ConnectResult
<1>5. CASE ConnectClose
  BY <1>5 DEF ConnectClose, CloseFd
<1>6. CASE ConnectClear
  BY <1>6 DEF ConnectClear
<1>7. CASE ReadEnter
  BY <1>7 DEF ReadEnter
<1>8. CASE ReadByte \/ ReadEof \/ ReadError
  BY <1>8 DEF ReadByte, ReadEof, ReadError
<1>9. CASE Dispatch \/ HandlerReturn
  BY <1>9 DEF Dispatch, HandlerReturn
<1>10. CASE WorkDisconnect
  BY <1>10 DEF WorkDisconnect, Disconnect, CloseFd
<1> QED BY <1>1, <1>2, <1>3, <1>4, <1>5, <1>6, <1>7, <1>8, <1>9, <1>10 DEF Worker

\* So does everybody else: before the destructor nobody touches mSockGps, and a
\* foreign open or close does not concern a socket.
LEMMA OthersInStep ==
    ASSUME TypeOK, InStep,
           \/ RegisterCallback \/ ForeignOpen \/ ForeignClose
           \/ ServerCommand \/ ServerDrop \/ ServerUp \/ UNCHANGED vars
    PROVE  InStep'
<1> USE FdsAssumption DEF TypeOK, InStep, Names, NoFd, NoIO, ClientLocal, Elsewhere
<1>1. CASE RegisterCallback
  BY <1>1 DEF RegisterCallback
<1>2. CASE ForeignOpen
  BY <1>2 DEF ForeignOpen, LowestFree
<1>3. CASE ForeignClose
  BY <1>3 DEF ForeignClose
<1>4. CASE ServerCommand \/ ServerDrop \/ ServerUp
  BY <1>4 DEF ServerCommand, ServerDrop, ServerUp
<1>5. CASE UNCHANGED vars
  BY <1>5 DEF vars
<1> QED BY <1>1, <1>2, <1>3, <1>4, <1>5

\* The destructor's steps are behind mStop, and nothing takes mStop back.
LEMMA StopFacts ==
    ASSUME GInv, [Next]_vars
    PROVE  /\ mStop => mStop'
           /\ (xpc # "idle")' => mStop'
           /\ ~mStop' => \/ Worker \/ RegisterCallback \/ ForeignOpen \/ ForeignClose
                         \/ ServerCommand \/ ServerDrop \/ ServerUp \/ UNCHANGED vars
<1> USE DEF GInv, TypeOK, WorkerLocal, ClientLocal, NoIO, Elsewhere, clientVars, serverVars
<1>1. CASE Worker
  <2>1. UNCHANGED <<mStop, xpc>>
    BY <1>1 DEF Worker, WorkCheck, WorkTest, ConnectSocket, ConnectResult, ConnectClose,
                ConnectClear, ReadEnter, ReadByte, ReadEof, ReadError, Dispatch,
                HandlerReturn, WorkDisconnect
  <2> QED BY <1>1, <2>1
<1>2. CASE RegisterCallback
  BY <1>2 DEF RegisterCallback
<1>3. CASE Destroy
  BY <1>3 DEF Destroy
<1>4. CASE Destructor
  <2>1. xpc # "idle" /\ UNCHANGED mStop
    BY <1>4 DEF Destructor, DestroyTest, DestroyDisconnect, Disconnect, Join
  <2> QED BY <2>1
<1>5. CASE ForeignOpen \/ ForeignClose
  BY <1>5 DEF ForeignOpen, ForeignClose
<1>6. CASE ServerCommand \/ ServerDrop \/ ServerUp
  BY <1>6 DEF ServerCommand, ServerDrop, ServerUp
<1>7. CASE UNCHANGED vars
  BY <1>7 DEF vars
<1> QED BY <1>1, <1>2, <1>3, <1>4, <1>5, <1>6, <1>7 DEF Next

\* The invariant is inductive.
LEMMA NextGInv == GInv /\ [Next]_vars => GInv'
<1> SUFFICES ASSUME GInv, [Next]_vars PROVE GInv'
  OBVIOUS
<1>1. TypeOK'
  BY NextType DEF GInv
<1>2. ASSUME ~mStop' PROVE InStep'
  BY <1>2, StopFacts, WorkerInStep, OthersInStep DEF GInv
<1> QED BY <1>1, <1>2, StopFacts DEF GInv

\* It holds in every state of the receiver.
THEOREM GpsInvariance == Spec => []GInv
<1>1. Init => GInv
  BY InitGInv
<1>2. GInv /\ [Next]_vars => GInv'
  BY NextGInv
<1> QED BY <1>1, <1>2, PTL DEF Spec

(***************************************************************************)
(* The properties.                                                         *)
(***************************************************************************)

\* The receiver's state keeps its type.
THEOREM GpsTypeCorrect == Spec => []TypeOK
<1>1. GInv => TypeOK
  BY DEF GInv
<1> QED BY <1>1, GpsInvariance, PTL

\* Until the receiver is destroyed mSockGps names every socket there is: neither
\* a failed Connect() nor an end of file in Read() loses one.
THEOREM SocketNeverLost == Spec => []NoSocketLost
<1>1. GInv => NoSocketLost
  BY DEF GInv, InStep, NoSocketLost
<1> QED BY <1>1, GpsInvariance, PTL

\* A step that closes a file of the rest of the process before the receiver is
\* destroyed is not one of the receiver's.  (Connect(), Disconnect())
LEMMA ForeignCloseOnly ==
    GInv /\ [Next]_vars =>
        [\A f \in Fds : fdt[f] = "file" /\ fdt'[f] = "free" => ForeignClose \/ mStop]_vars
<1> DEFINE Closed(f) == fdt[f] = "file" /\ fdt'[f] = "free"
<1>1. ASSUME GInv, [Next]_vars, ~mStop, NEW f \in Fds, Closed(f)
      PROVE  ForeignClose
  <2>1. CASE mStop'
    <3>1. Next
      BY <1>1, <2>1 DEF vars, clientVars
    <3>2. ~Worker
      BY <1>1, <2>1 DEF Worker, WorkCheck, WorkTest, ConnectSocket, ConnectResult,
         ConnectClose, ConnectClear, ReadEnter, ReadByte, ReadEof, ReadError, Dispatch,
         HandlerReturn, WorkDisconnect, WorkerLocal, clientVars
    <3>3. ~Destroy /\ ~RegisterCallback
      BY <1>1 DEF Destroy, RegisterCallback, NoIO
    <3>4. ~Destructor
      BY <1>1 DEF GInv, Destructor, DestroyTest, DestroyDisconnect, Disconnect, Join
    <3>5. ~ForeignOpen /\ ~ServerCommand /\ ~ServerDrop /\ ~ServerUp
      BY <1>1, <2>1 DEF ForeignOpen, ServerCommand, ServerDrop, ServerUp, Elsewhere,
         clientVars
    <3> QED BY <3>1, <3>2, <3>3, <3>4, <3>5 DEF Next
  <2>2. CASE ~mStop'
    <3>1. ~Worker
      <4> USE <1>1, FdsAssumption
          DEF GInv, TypeOK, InStep, Names, NoFd, NoIO, Closed
      <4>1. ~ConnectSocket
        BY DEF ConnectSocket, LowestFree
      <4>2. ~ConnectClose
        BY DEF ConnectClose, CloseFd
      <4>3. ~WorkDisconnect
        BY DEF WorkDisconnect, Disconnect, CloseFd
      <4>4. ~(ConnectResult \/ ConnectClear \/ ReadByte \/ ReadError)
        BY DEF ConnectResult, ConnectClear, ReadByte, ReadError
      <4>5. ~(WorkCheck \/ WorkTest \/ ReadEnter \/ ReadEof \/ Dispatch \/ HandlerReturn)
        BY DEF WorkCheck, WorkTest, ReadEnter, ReadEof, Dispatch, HandlerReturn
      <4> QED BY <4>1, <4>2, <4>3, <4>4, <4>5 DEF Worker
    <3>2. ~ForeignOpen
      BY <1>1 DEF GInv, TypeOK, ForeignOpen, LowestFree
    <3>3. fdt' # fdt
      BY <1>1
    <3>4. ~(RegisterCallback \/ ServerCommand \/ ServerDrop \/ ServerUp \/ UNCHANGED vars)
      BY <3>3 DEF RegisterCallback, NoIO, ServerCommand, ServerDrop, ServerUp, Elsewhere,
                  vars
    <3> QED BY <1>1, <2>2, <3>1, <3>2, <3>4, StopFacts
  <2> QED BY <2>1, <2>2
<1> QED BY <1>1

\* Until the receiver is destroyed none of its close() calls hits a descriptor
\* of the rest of the process.  (Connect(), Disconnect())
THEOREM AlwaysClosesOwn == Spec => ClosesOwnOnly
<1> QED BY ForeignCloseOnly, GpsInvariance, PTL DEF Spec, ClosesOwnOnly
=============================================================================
