-------------------------- MODULE GpsSampleProofs --------------------------
(***************************************************************************)
(* What holds of the GPS sample for every set of descriptors, number of    *)
(* commands, drops and fixes, and every start in range: the receiver under *)
(* it keeps its invariant, and the handler keeps account of the one        *)
(* injection thread.                                                       *)
(***************************************************************************)
EXTENDS GpsSample, GpsProofs

\* the handler's account of the thread: loop_quit and the flag exclude each
\* other, and so do the flag and a STOP that is being carried out
OneThread ==
    /\ (ipc = "none") <=> (~injection_thread_flag /\ hpc # "join")
    /\ loop_quit => ~injection_thread_flag
    /\ hpc = "join" => ~injection_thread_flag
    /\ ipc = "done" /\ ret = "ok" => hpc = "join"

(***************************************************************************)
(* The receiver.                                                           *)
(***************************************************************************)

\* A write that meets a closed connection is the one step of the sample that
\* changes the receiver's surroundings in a way it does not itself.
\* (the reset that answers Write())
LEMMA WriteKeepsGInv == ASSUME GInv, InjectWrite PROVE GInv'
<1>1. CASE UNCHANGED vars
  BY <1>1, NextGInv
<1>2. CASE /\ conn' \in {"open", "fin", "rst"}
           /\ UNCHANGED <<mSockGps, wpc, cmd, fdt, inbox, clientVars, serverVars>>
  <2>1. UNCHANGED <<mStop, handler, xpc, srv, ncmds, ndrops, mSockGps, wpc, cmd, fdt, inbox>>
    BY <1>2 DEF clientVars, serverVars
  <2>2. TypeOK'
    BY <1>2, <2>1 DEF GInv, TypeOK
  <2>3. InStep => InStep'
    BY <2>1 DEF InStep, Names
  <2> QED BY <2>1, <2>2, <2>3 DEF GInv
<1> QED BY <1>1, <1>2 DEF InjectWrite, FixFails, NoBase

\* Every step of the sample is a step of the receiver, a write, or none of its
\* business.
LEMMA SampleStep == [SampleNext]_svars => InjectWrite \/ [Next]_vars
<1> SUFFICES ASSUME [SampleNext]_svars, ~InjectWrite PROVE [Next]_vars
  OBVIOUS
<1>1. CASE Handler
  BY <1>1 DEF Handler, HandlerIgnores, HandlerStart, HandlerStop, HandlerJoin,
              HandlerFault, NoBase, Next, Worker
<1>2. CASE Injector \/ Exit
  BY <1>2 DEF Injector, InjectInit, InjectQuit, InjectMove, InjectKilled, Exit, NoBase
<1>3. CASE UNCHANGED svars
  BY <1>3 DEF svars
<1> QED BY <1>1, <1>2, <1>3 DEF SampleNext, SampleWorker, ReceiverStep, Next

\* The receiver's invariant holds under the sample.
THEOREM SampleReceiver == SampleSpec => []GInv
<1>1. SampleInit => GInv
  BY InitGInv DEF SampleInit
<1>2. GInv /\ [SampleNext]_svars => GInv'
  BY SampleStep, WriteKeepsGInv, NextGInv
<1> QED BY <1>1, <1>2, PTL DEF SampleSpec

\* With fixes being written, too, no socket is lost before the receiver is
\* destroyed.  (Connect(), Read())
THEOREM SampleLosesNoSocket == SampleSpec => []NoSocketLost
<1>1. GInv => NoSocketLost
  BY DEF GInv, InStep, NoSocketLost
<1> QED BY <1>1, SampleReceiver, PTL

\* ... and none of its close() calls hits a descriptor of the rest of the
\* process.  (Connect(), Disconnect())
THEOREM SampleClosesOwn == SampleSpec => ClosesOwnOnly
<1> DEFINE Own == \A f \in Fds : fdt[f] = "file" /\ fdt'[f] = "free" => ForeignClose \/ mStop
<1>1. ASSUME GInv, InjectWrite PROVE Own
  <2>1. UNCHANGED fdt
    BY <1>1 DEF InjectWrite, FixFails, NoBase, vars
  <2> QED BY <2>1
<1>2. GInv /\ [SampleNext]_svars => [Own]_vars
  BY <1>1, SampleStep, ForeignCloseOnly
<1> QED BY <1>2, SampleReceiver, PTL DEF SampleSpec, ClosesOwnOnly

\* A fix reaches a file of somebody else only in the window after a close() or
\* while the receiver is being destroyed.  (Write() without a lock)
THEOREM SampleFixesStayHome == SampleSpec => FixesStayHome
<1> DEFINE Home == up /\ InjectWrite /\ Names("file") => wpc \in {"forget", "clear"} \/ mStop
<1>1. GInv => Home
  BY DEF GInv, InStep, Names, NoFd
<1>2. GInv /\ [SampleNext]_svars => [Home]_svars
  BY <1>1
<1> QED BY <1>2, SampleReceiver, PTL DEF SampleSpec, FixesStayHome

(***************************************************************************)
(* The injection thread.                                                   *)
(***************************************************************************)

\* Each step of the handler keeps the account.  (cmd_handler)
LEMMA HandlerOneThread == ASSUME OneThread, Handler PROVE OneThread'
<1> USE DEF OneThread, handlerVars, injectVars
<1>1. CASE HandlerIgnores
  BY <1>1 DEF HandlerIgnores
<1>2. CASE HandlerStart
  BY <1>2 DEF HandlerStart
<1>3. CASE HandlerStop
  BY <1>3 DEF HandlerStop
<1>4. CASE HandlerJoin
  BY <1>4 DEF HandlerJoin
<1>5. CASE HandlerFault
  BY <1>5 DEF HandlerFault
<1> QED BY <1>1, <1>2, <1>3, <1>4, <1>5 DEF Handler

\* So does each step of the injection thread.  (injection_gps_data_thread)
LEMMA InjectorOneThread == ASSUME OneThread, Injector PROVE OneThread'
<1> USE DEF OneThread, handlerVars, injectVars
<1>1. CASE InjectInit
  BY <1>1 DEF InjectInit
<1>2. CASE InjectQuit
  BY <1>2 DEF InjectQuit
<1>3. CASE InjectMove
  BY <1>3 DEF InjectMove
<1>4. CASE InjectWrite
  BY <1>4 DEF InjectWrite, FixWritten, FixFails
<1>5. CASE InjectKilled
  BY <1>5 DEF InjectKilled
<1> QED BY <1>1, <1>2, <1>3, <1>4, <1>5 DEF Injector

\* The handler's account of the thread is right.
THEOREM SampleOneThread == SampleSpec => []OneThread
<1>1. SampleInit => OneThread
  BY DEF SampleInit, OneThread
<1>2. ASSUME OneThread, [SampleNext]_svars PROVE OneThread'
  <2>1. CASE UNCHANGED <<handlerVars, ipc, ret>>
    BY <1>2, <2>1 DEF OneThread, handlerVars
  <2>2. CASE UNCHANGED svars
    BY <2>1, <2>2 DEF svars, sampleVars, injectVars
  <2>3. CASE UNCHANGED sampleVars
    BY <2>1, <2>3 DEF sampleVars, injectVars
  <2>4. CASE Exit
    BY <2>1, <2>4 DEF Exit, injectVars
  <2> QED BY <1>2, <2>2, <2>3, <2>4, HandlerOneThread, InjectorOneThread
          DEF SampleNext, SampleWorker, ReceiverStep
<1> QED BY <1>1, <1>2, PTL DEF SampleSpec

\* There is an injection thread to join, or the failed attempt to start one,
\* exactly while the flag is set or a STOP waits for it.  (cmd_handler)
THEOREM SampleFlagMatches == SampleSpec => []FlagMatchesThread
<1>1. OneThread => FlagMatchesThread
  BY DEF OneThread, FlagMatchesThread
<1> QED BY <1>1, SampleOneThread, PTL

\* Between START and STOP only a failed write ends the injection.
\* (injection_gps_data_thread)
THEOREM SampleInjects == SampleSpec => []InjectsUntilStopped
<1>1. OneThread => InjectsUntilStopped
  BY DEF OneThread, InjectsUntilStopped
<1> QED BY <1>1, SampleOneThread, PTL

(***************************************************************************)
(* The position, and the sentence it is written as.                        *)
(***************************************************************************)

\* the position is in range, and no further than its limits
OnCourse ==
    /\ InRange(pos) /\ InRange(top)
    /\ pos.long <= top.long /\ pos.lat <= top.lat /\ pos.alt <= top.alt

Numbers ==
    /\ -(180 * Degree) \in Int /\ 180 * Degree \in Int
    /\ -(90 * Degree) \in Int /\ 90 * Degree \in Int
    /\ -(400 * Metre) \in Int /\ 8848 * Metre \in Int
    /\ Metre \in Nat

\* The units are whole numbers.
LEMMA ScaleType == Numbers
BY DEF Numbers, Degree, Metre

\* Cutting a value off leaves it within a unit, and never above a value that
\* was a unit less.  (int long_max = gps_long + 1)
LEMMA TruncateKeeps ==
    ASSUME NEW v \in Int
    PROVE  /\ Truncate(v + Degree, Degree) \in Int /\ Truncate(v + Degree, Degree) >= v
           /\ Truncate(v + 1000 * Metre, Metre) \in Int /\ Truncate(v + 1000 * Metre, Metre) >= v
<1>1. \A w \in Int : /\ w \div 100000 \in Int
                     /\ (w \div 100000) * 100000 <= w /\ w < (w \div 100000) * 100000 + 100000
                     /\ w \div 10 \in Int
                     /\ (w \div 10) * 10 <= w /\ w < (w \div 10) * 10 + 10
  OBVIOUS
<1> QED BY <1>1 DEF Truncate, Degree, Metre

\* A clamped limit is in range, and not behind a position in range.
LEMMA ClampKeeps ==
    ASSUME NEW v \in Int, NEW least \in Int, NEW most \in Int, NEW p \in least..most, v >= p
    PROVE  Clamp(v, least, most) \in least..most /\ p <= Clamp(v, least, most)
BY DEF Clamp

\* The limits are ahead of the position and in range.
\* (long_max, lat_max and alt_max)
LEMMA LimitsAhead ==
    ASSUME NEW p, InRange(p)
    PROVE  /\ InRange(Limits(p))
           /\ p.long <= Limits(p).long /\ p.lat <= Limits(p).lat /\ p.alt <= Limits(p).alt
<1>1. Numbers
  BY ScaleType
<1> DEFINE x == Truncate(p.long + Degree, Degree)
           y == Truncate(p.lat + Degree, Degree)
           z == Truncate(p.alt + 1000 * Metre, Metre)
<1>2. /\ p.long \in -(180 * Degree)..(180 * Degree)
      /\ p.lat \in -(90 * Degree)..(90 * Degree)
      /\ p.alt \in -(400 * Metre)..(8848 * Metre)
  BY DEF InRange
<1>3. p.long \in Int /\ p.lat \in Int /\ p.alt \in Int
  BY <1>1, <1>2 DEF Numbers
<1>4. x \in Int /\ x >= p.long /\ y \in Int /\ y >= p.lat /\ z \in Int /\ z >= p.alt
  BY <1>3, TruncateKeeps
<1>5. /\ Limits(p).long = Clamp(x, -(180 * Degree), 180 * Degree)
      /\ Limits(p).lat = Clamp(y, -(90 * Degree), 90 * Degree)
      /\ Limits(p).alt = Clamp(z, -(400 * Metre), 8848 * Metre)
  BY DEF Limits
<1> HIDE DEF x, y, z
<1>6. Limits(p).long \in -(180 * Degree)..(180 * Degree) /\ p.long <= Limits(p).long
  <2> DEFINE least == -(180 * Degree)
             most == 180 * Degree
             c == p.long
  <2>1. least \in Int /\ most \in Int /\ c \in least..most /\ x \in Int /\ x >= c
    BY <1>1, <1>2, <1>4 DEF Numbers
  <2> HIDE DEF least, most, c
  <2>2. Clamp(x, least, most) \in least..most /\ c <= Clamp(x, least, most)
    BY <2>1, ClampKeeps
  <2> QED BY <1>5, <2>2 DEF least, most, c
<1>7. Limits(p).lat \in -(90 * Degree)..(90 * Degree) /\ p.lat <= Limits(p).lat
  <2> DEFINE least == -(90 * Degree)
             most == 90 * Degree
             c == p.lat
  <2>1. least \in Int /\ most \in Int /\ c \in least..most /\ y \in Int /\ y >= c
    BY <1>1, <1>2, <1>4 DEF Numbers
  <2> HIDE DEF least, most, c
  <2>2. Clamp(y, least, most) \in least..most /\ c <= Clamp(y, least, most)
    BY <2>1, ClampKeeps
  <2> QED BY <1>5, <2>2 DEF least, most, c
<1>8. Limits(p).alt \in -(400 * Metre)..(8848 * Metre) /\ p.alt <= Limits(p).alt
  <2> DEFINE least == -(400 * Metre)
             most == 8848 * Metre
             c == p.alt
  <2>1. least \in Int /\ most \in Int /\ c \in least..most /\ z \in Int /\ z >= c
    BY <1>1, <1>2, <1>4 DEF Numbers
  <2> HIDE DEF least, most, c
  <2>2. Clamp(z, least, most) \in least..most /\ c <= Clamp(z, least, most)
    BY <2>1, ClampKeeps
  <2> QED BY <1>5, <2>2 DEF least, most, c
<1> QED BY <1>6, <1>7, <1>8 DEF InRange

\* A step towards the limits.
LEMMA AdvanceKeeps ==
    ASSUME OnCourse
    PROVE  LET q == Advance(pos, top) IN
           /\ InRange(q) /\ q.long <= top.long /\ q.lat <= top.lat /\ q.alt <= top.alt
           /\ q.long \in {pos.long, pos.long + 1}
           /\ q.lat \in {pos.lat, pos.lat + 1}
           /\ q.alt \in pos.alt..(pos.alt + Metre)
<1>1. Numbers /\ InRange(pos) /\ InRange(top)
  BY ScaleType DEF OnCourse
<1> DEFINE q == Advance(pos, top)
<1>2. /\ q.long = LesserOf(pos.long + 1, top.long) /\ q.lat = LesserOf(pos.lat + 1, top.lat)
      /\ q.alt = LesserOf(pos.alt + Metre, top.alt)
  BY DEF Advance
<1>3. \A a, b, k \in Int : k >= 0 /\ a <= b => /\ LesserOf(a + k, b) \in a..(a + k)
                                               /\ LesserOf(a + k, b) \in a..b
  BY DEF LesserOf
<1>4. /\ pos.long \in Int /\ pos.lat \in Int /\ pos.alt \in Int
      /\ top.long \in Int /\ top.lat \in Int /\ top.alt \in Int
  BY <1>1 DEF InRange, Numbers
<1>5. pos.long <= top.long /\ pos.lat <= top.lat /\ pos.alt <= top.alt
  BY DEF OnCourse
<1> HIDE DEF q
<1>6. /\ q.long \in pos.long..(pos.long + 1) /\ q.long \in pos.long..top.long
      /\ q.lat \in pos.lat..(pos.lat + 1) /\ q.lat \in pos.lat..top.lat
  BY <1>2, <1>3, <1>4, <1>5
<1>7. q.alt \in pos.alt..(pos.alt + Metre) /\ q.alt \in pos.alt..top.alt
  BY <1>1, <1>2, <1>3, <1>4, <1>5 DEF Numbers
<1>8. q.long \in {pos.long, pos.long + 1} /\ q.lat \in {pos.lat, pos.lat + 1}
  BY <1>4, <1>6
<1>9. q.long <= top.long /\ q.lat <= top.lat /\ q.alt <= top.alt
  BY <1>4, <1>6, <1>7
<1>10. InRange(q)
  BY <1>1, <1>4, <1>6, <1>7 DEF InRange, Numbers
<1> QED BY <1>7, <1>8, <1>9, <1>10 DEF q

\* Every step keeps the course, and moves the position by one step or not.
LEMMA NextOnCourse ==
    ASSUME OnCourse, [SampleNext]_svars
    PROVE  /\ OnCourse'
           /\ \/ pos' = pos
              \/ /\ InRange(pos')
                 /\ pos'.long \in {pos.long, pos.long + 1}
                 /\ pos'.lat \in {pos.lat, pos.lat + 1}
                 /\ pos'.alt \in pos.alt..(pos.alt + Metre)
<1>1. CASE InjectInit
  <2>1. top' = Limits(pos) /\ pos' = pos
    BY <1>1 DEF InjectInit
  <2>2. InRange(pos)
    BY DEF OnCourse
  <2> QED BY <2>1, <2>2, LimitsAhead DEF OnCourse
<1>2. CASE InjectMove
  <2>1. top' = top /\ pos' = Advance(pos, top) /\ InRange(top)
    BY <1>2 DEF InjectMove, OnCourse
  <2> QED BY <2>1, AdvanceKeeps DEF OnCourse
<1>3. CASE UNCHANGED <<pos, top>>
  BY <1>3 DEF OnCourse
<1>4. Handler => UNCHANGED <<pos, top>>
  BY DEF Handler, HandlerIgnores, HandlerStart, HandlerStop, HandlerJoin, HandlerFault,
         injectVars
<1>5. InjectQuit \/ InjectWrite \/ InjectKilled \/ Exit => UNCHANGED <<pos, top>>
  BY DEF InjectQuit, InjectWrite, FixWritten, FixFails, InjectKilled, Exit, injectVars
<1>6. UNCHANGED sampleVars => UNCHANGED <<pos, top>>
  BY DEF sampleVars, injectVars
<1>7. UNCHANGED svars => UNCHANGED <<pos, top>>
  BY <1>6 DEF svars
<1> QED BY <1>1, <1>2, <1>3, <1>4, <1>5, <1>6, <1>7
        DEF SampleNext, SampleWorker, ReceiverStep, Injector

\* The sample stays on course.
LEMMA SampleOnCourse == SampleSpec => []OnCourse
<1>1. SampleInit => OnCourse
  <2> SUFFICES ASSUME SampleInit PROVE OnCourse
    OBVIOUS
  <2>1. InRange(pos) /\ top = pos
    BY SampleAssumption DEF SampleInit
  <2>2. pos.long \in Int /\ pos.lat \in Int /\ pos.alt \in Int
    BY <2>1, ScaleType DEF InRange, Numbers
  <2> QED BY <2>1, <2>2 DEF OnCourse
<1> QED BY <1>1, NextOnCourse, PTL DEF SampleSpec

\* From any start in range, with any number of fixes, starts and stops, the
\* position stays in range and a fix moves it forward by one step or not at all.
\* (the limits, cut off and clamped, and the comparisons of the loop)
THEOREM SamplePositionsAdvance == SampleSpec => PositionsAdvance
<1> DEFINE Adv == /\ InRange(pos')
                  /\ pos'.long \in {pos.long, pos.long + 1}
                  /\ pos'.lat \in {pos.lat, pos.lat + 1}
                  /\ pos'.alt \in pos.alt..(pos.alt + Metre)
<1>1. OnCourse /\ [SampleNext]_svars => [Adv]_pos
  BY NextOnCourse
<1> QED BY <1>1, SampleOnCourse, PTL DEF SampleSpec, PositionsAdvance

\* do_geo_fix on any coordinate: the sentence gives it back to a
\* ten-thousandth of a minute, although the minutes may fall short by a unit.
LEMMA NmeaDecodes ==
    ASSUME NEW v \in Int, NEW s \in Nmea(v)
    PROVE  LET t == 600000 * s.deg + 10000 * s.min + s.frac
           IN  s.min < 60 /\ 6 * v - (IF s.neg THEN -t ELSE t) \in -1..1
<1> DEFINE a == IF v < 0 THEN -v ELSE v
           deg == a \div 100000
           exact == 60 * (a - deg * 100000)
           Min(val) == val \div 100000
           Frac(val) == (10000 * (val - Min(val) * 100000)) \div 100000
<1>1. a \in Nat /\ deg \in Nat /\ deg * 100000 <= a /\ a < deg * 100000 + 100000
  OBVIOUS
<1> DEFINE Minutes(val) == [neg |-> v < 0, deg |-> deg, min |-> Min(val), frac |-> Frac(val)]
<1>a. Nmea(v) = {Minutes(exact)} \cup {Minutes(val) : val \in {exact - 1} \cap Nat}
  BY DEF Nmea, Degree
<1>b. exact \in Nat
  BY <1>1
<1> HIDE DEF a, deg, exact, Minutes
<1>c. PICK val \in {exact, exact - 1} \cap Nat : s = Minutes(val)
  BY <1>a, <1>b
<1> USE DEF deg, exact
<1>2. s = [neg |-> v < 0, deg |-> deg, min |-> Min(val), frac |-> Frac(val)]
  BY <1>c DEF Minutes
<1>3. deg \in Nat /\ exact \in Nat /\ exact = 60 * (a - deg * 100000) /\ exact < 6000000
  BY <1>1
<1> HIDE DEF deg, exact
<1>4. /\ Min(val) \in Nat /\ Min(val) * 100000 <= val /\ val < Min(val) * 100000 + 100000
  BY <1>2, <1>3
<1> DEFINE m == Min(val)
           w == 10000 * (val - m * 100000)
<1>5. w \in Nat /\ val \in Nat
  BY <1>2, <1>4
<1> HIDE DEF m
<1>6. /\ Frac(val) \in Nat /\ Frac(val) * 100000 <= w /\ w < Frac(val) * 100000 + 100000
  BY <1>5 DEF m
<1> DEFINE f == Frac(val)
<1>7. m \in Nat /\ m * 100000 <= val /\ val < m * 100000 + 100000
  BY <1>4 DEF m
<1>8. f \in Nat /\ f * 100000 <= 10000 * (val - m * 100000)
      /\ 10000 * (val - m * 100000) < f * 100000 + 100000
  BY <1>6
<1>9. s.neg = (v < 0) /\ s.deg = deg /\ s.min = m /\ s.frac = f
  BY <1>2 DEF m
<1> HIDE DEF f, w, Min, Frac
<1>10. m < 60
  BY <1>2, <1>3, <1>7
<1>11. 6 * a - (600000 * deg + 10000 * m + f) \in 0..1
  BY <1>1, <1>2, <1>3, <1>7, <1>8 DEF deg
<1> DEFINE t == 600000 * deg + 10000 * m + f
<1>12. t \in Int /\ t = 600000 * s.deg + 10000 * s.min + s.frac /\ 6 * a - t \in 0..1
  BY <1>3, <1>7, <1>8, <1>9, <1>11
<1> HIDE DEF t
<1>13. CASE v < 0
  <2>1. s.neg = TRUE /\ a = -v
    BY <1>9, <1>13 DEF a
  <2>2. 6 * v - (-t) \in -1..1
    BY <1>12, <2>1
  <2> QED BY <1>9, <1>10, <1>12, <2>1, <2>2
<1>14. CASE ~(v < 0)
  <2>1. ~s.neg /\ a = v
    BY <1>9, <1>14 DEF a
  <2>2. 6 * v - t \in -1..1
    BY <1>12, <2>1
  <2> QED BY <1>9, <1>10, <1>12, <2>1, <2>2
<1> QED BY <1>13, <1>14

\* What a sentence says is the position, to a ten-thousandth of a minute, on
\* both sides of the equator and the meridian.  (do_geo_fix)
THEOREM SampleSentenceDecodes == SampleSpec => []SentenceDecodes
<1>1. ASSUME OnCourse PROVE SentenceDecodes
  <2>1. pos.long \in Int /\ pos.lat \in Int
    BY <1>1, ScaleType DEF OnCourse, InRange, Numbers
  <2> QED BY <2>1, NmeaDecodes DEF SentenceDecodes
<1> QED BY <1>1, SampleOnCourse, PTL
=============================================================================
