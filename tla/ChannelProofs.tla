--------------------------- MODULE ChannelProofs ---------------------------
(***************************************************************************)
(* What holds of the audio and sensor channels for every number of         *)
(* messages, drops and units on their way.  The inductive invariant says   *)
(* where the talker can be with which connection, and that the units on    *)
(* their way lead on from the unit the talker has read last.               *)
(***************************************************************************)
EXTENDS ChannelClients, Runs

(***************************************************************************)
(* The connection at each point of the talker.                             *)
(***************************************************************************)
Up == {"open", "fin", "rst"}

ConnState ==
    /\ tpc \in {"top", "exited", "connect", "connecting", "poll", "recv", "loop", "close",
                "shutdown", "release", "call", "payload", "join", "insert"}
    /\ tpc \in {"top", "exited"} => conn \in Up \cup {"none", "unconnected"}
    /\ tpc = "connect" => conn \in {"none", "unconnected"}
    /\ tpc = "connecting" => conn = "unconnected"
    /\ tpc \in {"close", "shutdown"} => conn \in {"fin", "rst"}
    /\ tpc = "release" => conn = "shut"
    /\ tpc \in {"poll", "recv", "loop", "call", "payload", "join", "insert"} => conn \in Up
    /\ xpc = "destroyed" => tpc = "exited" /\ conn = "none"
    /\ conn # "open" => sending = <<>> \/ (tpc = "exited" /\ conn = "none")

(***************************************************************************)
(* The stream.  A unit leads from the unit before it to itself, the first  *)
(* unit of a message from a place between two messages, the last one to    *)
(* such a place.  In order, a message that opens comes first and only      *)
(* once, so that there are two such places.                                *)
(***************************************************************************)
UnitsOf(M) == {u \in [m : M, i : 1..4] : u.i <= CtrlUnits + DataUnits(u.m)}

Fresh == [m |-> "idle", i |-> 0]
Begun(inOrder) == IF inOrder THEN [m |-> "idle", i |-> 1] ELSE Fresh

Before(inOrder, u) ==
    IF u.i > 1 THEN [m |-> u.m, i |-> u.i - 1]
    ELSE IF u.m = "open" THEN Fresh ELSE Begun(inOrder)
After(inOrder, u) ==
    IF u.i < CtrlUnits + DataUnits(u.m) THEN u ELSE Begun(inOrder)

Grammar(M, inOrder) == {<<Before(inOrder, u), u, After(inOrder, u)>> : u \in UnitsOf(M)}

\* the place between two messages where the talker and the vHAL are
TalkerPlace(inOrder) == IF spc # "none" THEN Begun(inOrder) ELSE Fresh
VhalPlace(inOrder) == IF opened THEN Begun(inOrder) ELSE Fresh

\* what the talker has read last
LastRead(inOrder) ==
    CASE tpc = "recv" /\ buf # <<>> -> buf[1]
      [] tpc \in {"call", "join", "insert"} -> After(inOrder, [m |-> msg, i |-> 2])
      [] tpc = "payload" -> [m |-> msg, i |-> 2 + Len(buf)]
      [] OTHER -> TalkerPlace(inOrder)

\* q and what the vHAL has yet to send lead on from a
Follows(M, inOrder, a, q) ==
    \E b : /\ Leads(Grammar(M, inOrder), a, q \o sending, b)
           /\ conn = "open" => b = VhalPlace(inOrder)

Ahead(M, inOrder) == conn \in Up => Follows(M, inOrder, LastRead(inOrder), inbox)

\* a message that opens is the one the client has not seen
FitsClient(m, inOrder) == inOrder => (m = "open" <=> spc = "none")

Buffered(M, inOrder) ==
    /\ tpc = "recv" =>
         /\ msg = "idle"
         /\ buf = <<>> \/ \E m \in M : buf = <<[m |-> m, i |-> 1]>> /\ FitsClient(m, inOrder)
    /\ tpc \in {"call", "join", "insert"} =>
         /\ msg \in M /\ buf = <<[m |-> msg, i |-> 1], [m |-> msg, i |-> 2]>>
         /\ tpc = "call" => FitsClient(msg, inOrder)
    /\ tpc = "payload" =>
         /\ msg \in M /\ msg = "data2"
         /\ buf = <<>> \/ buf = <<[m |-> msg, i |-> 3]>>
    /\ tpc \notin {"recv", "call", "join", "insert", "payload"} => buf = <<>> /\ msg = "idle"

\* which program is at which point
Programs ==
    /\ tpc = "payload" => kind = "playback"
    /\ tpc = "join" => kind = "record"
    /\ tpc = "insert" => kind = "sensor"
    /\ spc # "none" => kind \in {"record", "sensor"}
    /\ spc \in {"look", "reading", "check"} => kind = "sensor"
    /\ xpc # "idle" => kind = "app"

Types ==
    /\ kind \in Kinds /\ orderly \in BOOLEAN /\ opened \in BOOLEAN /\ srv \in BOOLEAN
    /\ inbox \in Seq(UnitsOf(Msgs(kind))) /\ sending \in Seq(UnitsOf(Msgs(kind)))
    /\ status \in Statuses
    /\ rx \in 0..SendCap /\ nmsgs \in 0..MaxMsgs /\ ndrops \in 0..MaxDrops
    /\ spc \in {"none", "loop", "send", "ended", "look", "reading", "check"}
    /\ DOMAIN mSensorMap \subseteq {"acc", "light"}
    /\ xpc \in {"idle", "join", "destroyed"}

Connected ==
    connected_ = (tpc \notin {"top", "connect", "connecting", "shutdown", "release", "exited"}
                    \/ (tpc \in {"top", "exited"} /\ conn \in {"open", "fin", "rst"}))

CInv ==
    /\ Types /\ ConnState /\ Connected /\ Programs
    /\ Ahead(Msgs(kind), FALSE) /\ Buffered(Msgs(kind), FALSE)

(***************************************************************************)
(* A session in order: an audio client, a vHAL that waits for it, opens    *)
(* first and closes, and a connection that lasts.                          *)
(***************************************************************************)
SessionMsgs == IF kind = "playback" THEN {"open", "data0", "data2", "close"} ELSE {"open", "close"}

Tidy == orderly /\ ndrops = 0 /\ kind # "sensor"

TidyInv ==
    Tidy =>
      /\ Ahead(SessionMsgs, kind = "record") /\ Buffered(SessionMsgs, kind = "record")
      /\ conn \notin {"fin", "rst", "shut"}
      /\ spc # "none" => conn = "open"
      /\ ~callback_ => inbox = <<>> /\ sending = <<>> /\ ~opened
                         /\ tpc \notin {"recv", "call", "join", "payload"}
      /\ status \in {"running", "exit0"}

(***************************************************************************)
(* The operators.                                                          *)
(***************************************************************************)

\* Messages have two units, or four.
LEMMA UnitCount ==
    \A m : DataUnits(m) \in {0, 2} /\ (m # "data2" => DataUnits(m) = 0) /\ DataUnits("data2") = 2
BY DEF DataUnits

\* A message's units.
LEMMA UnitsOfMessage ==
    ASSUME NEW M, NEW m \in M
    PROVE  /\ Units(m) \in Seq(UnitsOf(M)) /\ Len(Units(m)) = CtrlUnits + DataUnits(m)
           /\ \A i \in 1..Len(Units(m)) : Units(m)[i] = [m |-> m, i |-> i]
<1> DEFINE n == CtrlUnits + DataUnits(m)
<1>1. n \in {2, 4}
  BY UnitCount DEF CtrlUnits
<1>2. \A i \in 1..n : [m |-> m, i |-> i] \in UnitsOf(M)
  BY <1>1 DEF UnitsOf
<1>3. Units(m) = [i \in 1..n |-> [m |-> m, i |-> i]]
  BY DEF Units
<1> HIDE DEF n
<1>4. Units(m) \in [1..n -> UnitsOf(M)]
  BY <1>2, <1>3
<1>5. Units(m) \in Seq(UnitsOf(M)) /\ Len(Units(m)) = n
  BY <1>1, <1>4
<1>6. \A i \in 1..n : Units(m)[i] = [m |-> m, i |-> i]
  BY <1>3
<1> QED BY <1>5, <1>6 DEF n

\* The first two units of a message.
LEMMA CtrlOfMessage ==
    ASSUME NEW m
    PROVE  SubSeq(Units(m), 1, CtrlUnits) = <<[m |-> m, i |-> 1], [m |-> m, i |-> 2]>>
<1>0. m \in {m} /\ CtrlUnits + DataUnits(m) \in {2, 4}
  BY UnitCount DEF CtrlUnits
<1>a. /\ Units(m) \in Seq(UnitsOf({m})) /\ Len(Units(m)) = CtrlUnits + DataUnits(m)
      /\ \A i \in 1..Len(Units(m)) : Units(m)[i] = [m |-> m, i |-> i]
  BY <1>0, UnitsOfMessage
<1>1. /\ Units(m) \in Seq(UnitsOf({m})) /\ Len(Units(m)) >= 2
      /\ Units(m)[1] = [m |-> m, i |-> 1] /\ Units(m)[2] = [m |-> m, i |-> 2]
  BY <1>0, <1>a
<1> DEFINE u == Units(m)
           a == [m |-> m, i |-> 1]
           b == [m |-> m, i |-> 2]
           s == SubSeq(u, 1, 2)
<1>2. a \in UnitsOf({m}) /\ b \in UnitsOf({m})
  BY UnitCount DEF UnitsOf, CtrlUnits
<1>3. u \in Seq(UnitsOf({m})) /\ Len(u) \in Nat /\ Len(u) >= 2 /\ u[1] = a /\ u[2] = b
  BY <1>1, LenProperties
<1> HIDE DEF u, a, b
<1>4. s \in Seq(UnitsOf({m})) /\ Len(s) = 2 /\ s[1] = a /\ s[2] = b
  BY <1>3, SubSeqProperties
<1> HIDE DEF s
<1>5. <<a, b>> \in Seq(UnitsOf({m})) /\ Len(<<a, b>>) = 2
  BY <1>2
<1>6. s = <<a, b>>
  BY <1>4, <1>5, SeqEqual
<1> QED BY <1>6 DEF s, u, a, b, CtrlUnits

\* What a unit leads from and to.
LEMMA GrammarStep ==
    ASSUME NEW M, NEW o \in BOOLEAN, NEW a, NEW u, NEW b
    PROVE  <<a, u, b>> \in Grammar(M, o) <=>
             u \in UnitsOf(M) /\ a = Before(o, u) /\ b = After(o, u)
BY DEF Grammar

\* A whole message leads from one place between messages to the next.
LEMMA MessageLeads ==
    ASSUME NEW M, NEW m \in M, NEW o \in BOOLEAN
    PROVE  Leads(Grammar(M, o), IF m = "open" THEN Fresh ELSE Begun(o), Units(m), Begun(o))
<1> DEFINE n == CtrlUnits + DataUnits(m)
           u == Units(m)
           a == IF m = "open" THEN Fresh ELSE Begun(o)
           z == Begun(o)
           h == [i \in 1..(n + 1) |-> IF i = 1 THEN a ELSE IF i = n + 1 THEN z
                                       ELSE [m |-> m, i |-> i - 1]]
<1>1. n \in {2, 4}
  BY UnitCount DEF CtrlUnits
<1>2. u \in Seq(UnitsOf(M)) /\ Len(u) = n /\ \A i \in 1..n : u[i] = [m |-> m, i |-> i]
  BY UnitsOfMessage
<1>3. ASSUME NEW i \in 1..n PROVE <<h[i], u[i], h[i + 1]>> \in Grammar(M, o)
  <2>0. i \in Int /\ i >= 1 /\ i <= n /\ n \in Int
    BY <1>1
  <2>1. u[i] \in UnitsOf(M) /\ u[i] = [m |-> m, i |-> i]
    BY <1>2, <1>3, ElementOfSeq
  <2>2. h[i] = Before(o, u[i])
    <3>1. CASE i = 1
      BY <1>1, <2>1, <3>1 DEF Before
    <3>2. CASE i > 1
      <4>1. i \in 1..(n + 1) /\ i # 1 /\ i # n + 1
        BY <2>0, <3>2
      <4>2. h[i] = [m |-> m, i |-> i - 1]
        BY <4>1
      <4>3. Before(o, u[i]) = [m |-> m, i |-> i - 1]
        BY <2>1, <3>2 DEF Before
      <4> QED BY <4>2, <4>3
    <3> QED BY <2>0, <3>1, <3>2
  <2>3. h[i + 1] = After(o, u[i])
    <3>0. i + 1 \in 1..(n + 1) /\ i + 1 # 1 /\ (i + 1) - 1 = i
      BY <2>0
    <3>1. CASE i = n
      <4>1. h[i + 1] = z
        BY <3>0, <3>1
      <4>2. After(o, u[i]) = z
        BY <2>0, <2>1, <3>1 DEF After
      <4> QED BY <4>1, <4>2
    <3>2. CASE i < n
      <4>1. h[i + 1] = [m |-> m, i |-> (i + 1) - 1]
        BY <2>0, <3>0, <3>2
      <4>2. After(o, u[i]) = u[i]
        BY <2>0, <2>1, <3>2 DEF After
      <4> QED BY <2>1, <3>0, <4>1, <4>2
    <3> QED BY <2>0, <3>1, <3>2
  <2> QED BY <2>1, <2>2, <2>3, GrammarStep
<1>4. h[1] = a /\ h[n + 1] = z
  BY <1>1
<1> HIDE DEF h, u, a, z
<1>5. IsRun(Grammar(M, o), h, u)
  BY <1>2, <1>3 DEF IsRun
<1>6. Leads(Grammar(M, o), a, u, z)
  BY <1>2, <1>4, <1>5 DEF Leads
<1> QED BY <1>6 DEF a, u, z

(***************************************************************************)
(* Reading.                                                                *)
(***************************************************************************)

\* The unit before a unit of a message says which one it is.
LEMMA NextUnit ==
    ASSUME NEW M, "idle" \notin M, NEW o \in BOOLEAN, NEW u \in UnitsOf(M),
           NEW m, m # "idle", NEW j \in Nat, Before(o, u) = [m |-> m, i |-> j]
    PROVE  m \in M /\ u = [m |-> m, i |-> j + 1]
<1>1. u \in [m : M, i : 1..4]
  BY DEF UnitsOf
<1>2. u.i > 1
  <2> SUFFICES ASSUME ~(u.i > 1) PROVE FALSE
    OBVIOUS
  <2>1. Before(o, u).m = "idle"
    BY DEF Before, Fresh, Begun
  <2> QED BY <2>1
<1>3. [m |-> u.m, i |-> u.i - 1] = [m |-> m, i |-> j]
  BY <1>2 DEF Before
<1>4. u.m = m /\ u.i - 1 = j
  BY <1>3
<1>5. u.m \in M /\ u.i = j + 1
  BY <1>1, <1>4
<1> QED BY <1>1, <1>4, <1>5

\* Between two messages comes a first unit.
LEMMA FirstUnit ==
    ASSUME NEW M, "idle" \notin M, NEW o \in BOOLEAN, NEW u \in UnitsOf(M),
           Before(o, u) \in {Fresh, Begun(o)}
    PROVE  /\ u.m \in M /\ u = [m |-> u.m, i |-> 1]
           /\ o => (u.m = "open" <=> Before(o, u) = Fresh)
<1>1. u \in [m : M, i : 1..4]
  BY DEF UnitsOf
<1>2. ~(u.i > 1)
  <2> SUFFICES ASSUME u.i > 1 PROVE FALSE
    OBVIOUS
  <2>1. Before(o, u).m = u.m
    BY DEF Before
  <2>2. Before(o, u).m = "idle"
    BY DEF Fresh, Begun
  <2> QED BY <1>1, <2>1, <2>2
<1>3. u.i = 1 /\ u.m \in M
  BY <1>1, <1>2
<1>4. Fresh # Begun(TRUE)
  <2>1. Fresh.i # Begun(TRUE).i
    BY DEF Fresh, Begun
  <2> QED BY <2>1
<1>5. Before(o, u) = IF u.m = "open" THEN Fresh ELSE Begun(o)
  BY <1>2 DEF Before
<1>6. o => (u.m = "open" <=> Before(o, u) = Fresh)
  BY <1>4, <1>5
<1> QED BY <1>1, <1>3, <1>6

\* The first unit of what has arrived is the next one of the stream.
LEMMA ReadUnit ==
    ASSUME NEW E, NEW p \in Seq(E), NEW s \in Seq(E), p # <<>>,
           NEW M, NEW o \in BOOLEAN, NEW a, NEW b, Leads(Grammar(M, o), a, p \o s, b)
    PROVE  /\ Head(p) \in UnitsOf(M) /\ Before(o, Head(p)) = a
           /\ Tail(p) \in Seq(E) /\ Leads(Grammar(M, o), After(o, Head(p)), Tail(p) \o s, b)
<1>1. /\ p \o s \in Seq(E) /\ p \o s # <<>>
      /\ Head(p \o s) = Head(p) /\ Tail(p \o s) = Tail(p) \o s
  BY TakeFirst
<1>2. PICK c : /\ <<a, Head(p), c>> \in Grammar(M, o)
               /\ Leads(Grammar(M, o), c, Tail(p) \o s, b)
  <2> DEFINE q == p \o s
             R == Grammar(M, o)
  <2>1. q \in Seq(E) /\ q # <<>> /\ Leads(R, a, q, b)
    BY <1>1
  <2> HIDE DEF q, R
  <2>2. \E c : <<a, Head(q), c>> \in R /\ Leads(R, c, Tail(q), b)
    BY <2>1, LeadsFirst
  <2> QED BY <1>1, <2>2 DEF q, R
<1>3. Head(p) \in UnitsOf(M) /\ a = Before(o, Head(p)) /\ c = After(o, Head(p))
  BY <1>2, GrammarStep
<1>4. Tail(p) \in Seq(E)
  BY HeadTailProperties
<1> QED BY <1>2, <1>3, <1>4

\* recv() of one unit, and of two.
LEMMA FirstUnits ==
    ASSUME NEW E, NEW p \in Seq(E), p # <<>>
    PROVE  /\ SubSeq(p, 1, 1) = <<Head(p)>> /\ SubSeq(p, 2, Len(p)) = Tail(p)
           /\ Len(p) > 1 => /\ Tail(p) # <<>>
                            /\ SubSeq(p, 1, 2) = <<Head(p), Head(Tail(p))>>
                            /\ SubSeq(p, 3, Len(p)) = Tail(Tail(p))
<1>1. /\ Len(p) \in Nat \ {0} /\ Head(p) = p[1] /\ Head(p) \in E /\ Tail(p) \in Seq(E)
      /\ Len(Tail(p)) = Len(p) - 1 /\ \A i \in 1..Len(Tail(p)) : Tail(p)[i] = p[i + 1]
  BY HeadTailProperties, EmptySeq
<1>2. SubSeq(p, 1, 1) = <<Head(p)>>
  <2> DEFINE s == SubSeq(p, 1, 1)
             t == <<Head(p)>>
  <2>1. s \in Seq(E) /\ Len(s) = 1 /\ s[1] = p[1]
    BY <1>1, SubSeqProperties
  <2>2. t \in Seq(E) /\ Len(t) = 1 /\ t[1] = p[1]
    BY <1>1
  <2> HIDE DEF s, t
  <2>3. s = t
    BY <2>1, <2>2, SeqEqual
  <2> QED BY <2>3 DEF s, t
<1>3. SubSeq(p, 2, Len(p)) = Tail(p)
  BY <1>1
<1>4. ASSUME Len(p) > 1
      PROVE  /\ Tail(p) # <<>> /\ SubSeq(p, 1, 2) = <<Head(p), Head(Tail(p))>>
             /\ SubSeq(p, 3, Len(p)) = Tail(Tail(p))
  <2> DEFINE q == Tail(p)
             s == SubSeq(p, 1, 2)
             t == <<Head(p), Head(q)>>
             v == SubSeq(p, 3, Len(p))
             w == Tail(q)
  <2>1. q \in Seq(E) /\ Len(q) \in Nat /\ Len(q) = Len(p) - 1 /\ q # <<>>
    <3>1. q \in Seq(E) /\ Len(q) = Len(p) - 1
      BY <1>1
    <3> HIDE DEF q
    <3>2. Len(q) \in Nat /\ Len(q) # 0
      BY <1>1, <1>4, <3>1
    <3> QED BY <3>1, <3>2
  <2>2. /\ Head(q) = q[1] /\ Head(q) \in E /\ w \in Seq(E) /\ Len(w) = Len(q) - 1
        /\ \A i \in 1..Len(w) : w[i] = q[i + 1]
    <3> HIDE DEF q
    <3> QED BY <2>1, HeadTailProperties
  <2>3. q[1] = p[2] /\ \A i \in 1..Len(w) : w[i] = p[i + 2]
    <3>1. 1 \in 1..Len(q) /\ \A i \in 1..Len(w) : i + 1 \in 1..Len(q) /\ (i + 1) + 1 = i + 2
      BY <1>1, <1>4, <2>1, <2>2
    <3>2. \A i \in 1..Len(q) : q[i] = p[i + 1]
      BY <1>1
    <3> HIDE DEF q, w
    <3> QED BY <2>2, <3>1, <3>2
  <2>4. s \in Seq(E) /\ Len(s) = 2 /\ s[1] = p[1] /\ s[2] = p[2]
    BY <1>1, <1>4, SubSeqProperties
  <2>5. t \in Seq(E) /\ Len(t) = 2 /\ t[1] = p[1] /\ t[2] = p[2]
    <3>1. Head(q) \in E /\ Head(q) = p[2]
      BY <2>2, <2>3
    <3> HIDE DEF q
    <3> QED BY <1>1, <3>1
  <2>6. v \in Seq(E) /\ Len(v) = Len(w) /\ \A i \in 1..Len(w) : v[i] = p[i + 2]
    <3>1. 3 \in 1..(Len(p) + 1) /\ Len(p) \in 0..Len(p)
      BY <1>1, <1>4
    <3>2. v \in Seq(E) /\ Len(v) = (Len(p) - 3) + 1
             /\ \A i \in 1..((Len(p) - 3) + 1) : v[i] = p[(3 + i) - 1]
      BY <1>1, <1>4, <3>1, SubSeqProperties
    <3>3. Len(w) = (Len(p) - 3) + 1 /\ \A i \in 1..Len(w) : (3 + i) - 1 = i + 2
      BY <1>1, <2>1, <2>2
    <3> HIDE DEF v, w
    <3> QED BY <3>2, <3>3
  <2> HIDE DEF q, s, t, v, w
  <2>7. s = t
    BY <2>4, <2>5, SeqEqual
  <2>8. v = w
    BY <2>2, <2>3, <2>6, SeqEqual
  <2> QED BY <2>1, <2>7, <2>8 DEF q, s, t, v, w
<1> QED BY <1>2, <1>3, <1>4

\* recv() returns what there is, up to the size asked for.
LEMMA SmallerFacts ==
    ASSUME NEW l \in {1, 2}, NEW n \in Nat \ {0}
    PROVE  /\ l = 1 \/ n = 1 => SmallerOf(l, n) = 1
           /\ l = 2 /\ n > 1 => SmallerOf(l, n) = 2
           /\ l = 1 \/ n = 1 \/ (l = 2 /\ n > 1)
BY DEF SmallerOf

Returned == SubSeq(inbox, 1, SmallerOf(Left, Len(inbox)))

\* one unit that follows a, or two
TakesOne(M, inOrder, a) ==
    \E u \in UnitsOf(M) : /\ Before(inOrder, u) = a /\ Returned = <<u>>
                          /\ Follows(M, inOrder, After(inOrder, u), inbox')

TakesTwo(M, inOrder, a) ==
    \E u, v \in UnitsOf(M) : /\ Before(inOrder, u) = a /\ Before(inOrder, v) = After(inOrder, u)
                             /\ Returned = <<u, v>>
                             /\ Follows(M, inOrder, After(inOrder, v), inbox')

\* What recv() returns: one unit, or two when two are left to read.
LEMMA TakeUnits ==
    ASSUME NEW E, inbox \in Seq(E), sending \in Seq(E), NEW M, NEW o \in BOOLEAN, NEW a,
           Follows(M, o, a, inbox), Take, Left \in {1, 2}
    PROVE  /\ inbox' \in Seq(E)
           /\ TakesOne(M, o, a) \/ (Left = 2 /\ TakesTwo(M, o, a))
<1> DEFINE k == SmallerOf(Left, Len(inbox))
           u == Head(inbox)
<1>1. inbox # <<>> /\ inbox' = SubSeq(inbox, k + 1, Len(inbox)) /\ Len(inbox) \in Nat \ {0}
  BY EmptySeq, LenProperties DEF Take
<1>a. /\ Left = 1 \/ Len(inbox) = 1 => k = 1
      /\ Left = 2 /\ Len(inbox) > 1 => k = 2
      /\ (Left = 1 \/ Len(inbox) = 1) \/ (Left = 2 /\ Len(inbox) > 1)
  BY <1>1, SmallerFacts
<1>2. PICK b : /\ Leads(Grammar(M, o), a, inbox \o sending, b)
               /\ conn = "open" => b = VhalPlace(o)
  BY DEF Follows
<1>3. /\ u \in UnitsOf(M) /\ Before(o, u) = a
      /\ Tail(inbox) \in Seq(E) /\ Leads(Grammar(M, o), After(o, u), Tail(inbox) \o sending, b)
  BY <1>1, <1>2, ReadUnit
<1>4. CASE Left = 1 \/ Len(inbox) = 1
  <2>1. k = 1 /\ k + 1 = 2
    BY <1>a, <1>4
  <2>2. Returned = <<u>> /\ inbox' = Tail(inbox)
    BY <1>1, <2>1, FirstUnits DEF Returned
  <2>3. Follows(M, o, After(o, u), inbox')
    BY <1>2, <1>3, <2>2 DEF Follows
  <2> HIDE DEF u
  <2> QED BY <1>3, <2>2, <2>3 DEF TakesOne
<1>5. CASE Left = 2 /\ Len(inbox) > 1
  <2> DEFINE v == Head(Tail(inbox))
  <2>1. k = 2 /\ k + 1 = 3
    BY <1>a, <1>5
  <2>2. Tail(inbox) # <<>> /\ Returned = <<u, v>> /\ inbox' = Tail(Tail(inbox))
    BY <1>1, <1>5, <2>1, FirstUnits DEF Returned
  <2>3. /\ v \in UnitsOf(M) /\ Before(o, v) = After(o, u) /\ Tail(Tail(inbox)) \in Seq(E)
        /\ Leads(Grammar(M, o), After(o, v), Tail(Tail(inbox)) \o sending, b)
    <3> DEFINE p == Tail(inbox)
               c == After(o, u)
    <3>1. p \in Seq(E) /\ p # <<>> /\ Leads(Grammar(M, o), c, p \o sending, b)
      BY <1>3, <2>2
    <3> HIDE DEF p, c, u
    <3>2. /\ Head(p) \in UnitsOf(M) /\ Before(o, Head(p)) = c
          /\ Tail(p) \in Seq(E) /\ Leads(Grammar(M, o), After(o, Head(p)), Tail(p) \o sending, b)
      BY <3>1, ReadUnit
    <3> QED BY <3>2 DEF p, c
  <2>4. Follows(M, o, After(o, v), inbox')
    BY <1>2, <2>2, <2>3 DEF Follows
  <2> HIDE DEF u, v
  <2>5. TakesTwo(M, o, a)
    BY <1>3, <2>2, <2>3, <2>4 DEF TakesTwo
  <2> QED BY <1>5, <2>2, <2>3, <2>5
<1> QED BY <1>a, <1>4, <1>5

\* Between two units of a message the talker has the first one.
LEMMA AfterCtrl ==
    ASSUME NEW M, NEW o \in BOOLEAN, NEW m
    PROVE  /\ After(o, [m |-> m, i |-> 1]) = [m |-> m, i |-> 1]
           /\ m # "data2" => After(o, [m |-> m, i |-> 2]) = Begun(o)
           /\ m = "data2" => /\ After(o, [m |-> m, i |-> 2]) = [m |-> m, i |-> 2]
                             /\ After(o, [m |-> m, i |-> 3]) = [m |-> m, i |-> 3]
                             /\ After(o, [m |-> m, i |-> 4]) = Begun(o)
BY UnitCount DEF After, CtrlUnits

\* A control message is read from its first unit on.  (Recv() into ctrl_msg)
LEMMA CtrlRead ==
    ASSUME NEW E, inbox \in Seq(E), sending \in Seq(E), NEW M, "idle" \notin M,
           NEW o \in BOOLEAN, conn \in Up, Ahead(M, o), Buffered(M, o), tpc = "recv", Take
    PROVE  /\ inbox' \in Seq(E)
           /\ \E m \in M :
                /\ FitsClient(m, o)
                /\ \/ /\ Len(Got) # Len(buf) + Left
                      /\ Got = <<[m |-> m, i |-> 1]>> /\ Returned = Got
                      /\ Follows(M, o, [m |-> m, i |-> 1], inbox')
                   \/ /\ Len(Got) = Len(buf) + Left
                      /\ Got = <<[m |-> m, i |-> 1], [m |-> m, i |-> 2]>>
                      /\ Returned = Got \/ Returned = <<[m |-> m, i |-> 2]>>
                      /\ Follows(M, o, After(o, [m |-> m, i |-> 2]), inbox')
<1>0. Got = buf \o Returned
  BY DEF Got, Returned
<1>c. buf = <<>> \/ \E m \in M : buf = <<[m |-> m, i |-> 1]>>
  BY DEF Buffered
<1>d. Len(buf) \in {0, 1}
  BY <1>c
<1>e. Left = 2 - Len(buf)
  BY DEF Left, CtrlUnits
<1>f. Left \in {1, 2}
  <2>1. \A n \in {0, 1} : 2 - n \in {1, 2}
    OBVIOUS
  <2> QED BY <1>d, <1>e, <2>1, Zenon
<1>a. Left \in {1, 2} /\ Follows(M, o, LastRead(o), inbox)
  BY <1>f DEF Ahead
<1>b. inbox' \in Seq(E)
  BY <1>a, TakeUnits
<1>1. CASE buf = <<>>
  <2>1. Left = 2 /\ Len(buf) = 0 /\ LastRead(o) = TalkerPlace(o)
    BY <1>1 DEF Left, CtrlUnits, LastRead
  <2>2. Follows(M, o, TalkerPlace(o), inbox) /\ TalkerPlace(o) \in {Fresh, Begun(o)}
    BY <2>1 DEF Ahead, TalkerPlace
  <2>3. TakesOne(M, o, TalkerPlace(o)) \/ TakesTwo(M, o, TalkerPlace(o))
    <3>1. PICK a : a = TalkerPlace(o)
      OBVIOUS
    <3>2. Follows(M, o, a, inbox)
      BY <2>2, <3>1
    <3>3. TakesOne(M, o, a) \/ (Left = 2 /\ TakesTwo(M, o, a))
      BY <1>a, <3>2, TakeUnits
    <3> QED BY <3>1, <3>3
  <2>4. ASSUME NEW u \in UnitsOf(M), Before(o, u) = TalkerPlace(o)
        PROVE  /\ u.m \in M /\ u.m # "idle" /\ u = [m |-> u.m, i |-> 1] /\ FitsClient(u.m, o)
               /\ After(o, u) = u
    <3>1. u.m \in M /\ u = [m |-> u.m, i |-> 1] /\ (o => (u.m = "open" <=> TalkerPlace(o) = Fresh))
      BY <2>2, <2>4, FirstUnit
    <3>2. Begun(TRUE) # Fresh
      <4>1. Begun(TRUE).i # Fresh.i
        BY DEF Begun, Fresh
      <4> QED BY <4>1
    <3>3. FitsClient(u.m, o) /\ u.m # "idle"
      BY <3>1, <3>2 DEF FitsClient, TalkerPlace
    <3>4. After(o, u) = u
      BY <3>1, AfterCtrl
    <3> QED BY <3>1, <3>3, <3>4
  <2>7. CASE TakesOne(M, o, TalkerPlace(o))
    <3>1. PICK u \in UnitsOf(M) : /\ Before(o, u) = TalkerPlace(o) /\ Returned = <<u>>
                                  /\ Follows(M, o, After(o, u), inbox')
      BY <2>7 DEF TakesOne
    <3>2. Got = <<u>> /\ Len(Got) = 1
      BY <1>0, <1>1, <3>1
    <3>3. /\ u.m \in M /\ u = [m |-> u.m, i |-> 1] /\ FitsClient(u.m, o) /\ After(o, u) = u
      BY <2>4, <3>1
    <3>4. /\ Got = <<[m |-> u.m, i |-> 1]>> /\ Returned = Got
          /\ Follows(M, o, [m |-> u.m, i |-> 1], inbox')
      BY <3>1, <3>2, <3>3, Zenon
    <3>5. Len(Got) # Len(buf) + Left
      BY <2>1, <3>2
    <3> QED BY <1>b, <3>3, <3>4, <3>5
  <2>8. CASE TakesTwo(M, o, TalkerPlace(o))
    <3>1. PICK u \in UnitsOf(M), v \in UnitsOf(M) :
               /\ Before(o, u) = TalkerPlace(o) /\ Before(o, v) = After(o, u)
               /\ Returned = <<u, v>> /\ Follows(M, o, After(o, v), inbox')
      BY <2>8 DEF TakesTwo
    <3>2. Got = <<u, v>> /\ Len(Got) = 2
      BY <1>0, <1>1, <3>1
    <3>3. /\ u.m \in M /\ u.m # "idle" /\ u = [m |-> u.m, i |-> 1] /\ FitsClient(u.m, o)
          /\ After(o, u) = u
      BY <2>4, <3>1
    <3>4. v = [m |-> u.m, i |-> 2]
      <4>1. Before(o, v) = [m |-> u.m, i |-> 1]
        BY <3>1, <3>3
      <4>2. v = [m |-> u.m, i |-> 1 + 1]
        BY <3>3, <4>1, NextUnit
      <4> QED BY <4>2
    <3>5. /\ Got = <<[m |-> u.m, i |-> 1], [m |-> u.m, i |-> 2]>> /\ Returned = Got
          /\ Follows(M, o, After(o, [m |-> u.m, i |-> 2]), inbox')
      BY <3>1, <3>2, <3>3, <3>4, Zenon
    <3>6. Len(Got) = Len(buf) + Left
      BY <2>1, <3>2
    <3> QED BY <1>b, <3>3, <3>5, <3>6
  <2> QED BY <2>3, <2>7, <2>8
<1>2. CASE buf # <<>>
  <2>1. PICK m \in M : buf = <<[m |-> m, i |-> 1]>> /\ FitsClient(m, o)
    BY <1>2 DEF Buffered
  <2>2. Left = 1 /\ Len(buf) = 1 /\ LastRead(o) = [m |-> m, i |-> 1]
    BY <1>2, <2>1 DEF Left, CtrlUnits, LastRead
  <2>3. Follows(M, o, [m |-> m, i |-> 1], inbox)
    BY <2>2 DEF Ahead
  <2>4. PICK u \in UnitsOf(M) : /\ Before(o, u) = [m |-> m, i |-> 1]
                                /\ Returned = <<u>> /\ Follows(M, o, After(o, u), inbox')
    <3> DEFINE a == [m |-> m, i |-> 1]
    <3> HIDE DEF a
    <3>1. TakesOne(M, o, a) \/ (Left = 2 /\ TakesTwo(M, o, a))
      BY <1>a, <2>2, <2>3, TakeUnits DEF a
    <3>2. TakesOne(M, o, a)
      BY <2>2, <3>1
    <3> QED BY <3>2 DEF a, TakesOne
  <2>5. u = [m |-> m, i |-> 2]
    <3>1. u = [m |-> m, i |-> 1 + 1]
      BY <2>4, NextUnit
    <3> QED BY <3>1
  <2>6. Got = <<[m |-> m, i |-> 1], [m |-> m, i |-> 2]>> /\ Len(Got) = 2
    <3> DEFINE a == [m |-> m, i |-> 1]
               b == [m |-> m, i |-> 2]
    <3>1. Got = <<a>> \o <<b>>
      BY <1>0, <2>1, <2>4, <2>5
    <3> HIDE DEF a, b
    <3>2. a \in {a, b} /\ b \in {a, b}
      OBVIOUS
    <3>3. Got = <<a, b>>
      BY <3>1, <3>2, PairIsConcat
    <3>4. Len(Got) = 2
      BY <3>3
    <3> QED BY <3>3, <3>4 DEF a, b
  <2> QED BY <2>1, <2>2, <2>4, <2>5, <2>6, <1>b
<1> QED BY <1>1, <1>2

\* PCM data is read up to its last unit.  (Recv() in ReadDataPacket)
LEMMA DataRead ==
    ASSUME NEW E, inbox \in Seq(E), sending \in Seq(E), NEW M, "idle" \notin M,
           NEW o \in BOOLEAN, conn \in Up, Ahead(M, o), Buffered(M, o), tpc = "payload", Take
    PROVE  /\ inbox' \in Seq(E)
           /\ \/ /\ Len(Got) # Len(buf) + Left
                 /\ Got = <<[m |-> msg, i |-> 3]>> /\ Returned = Got
                 /\ Follows(M, o, [m |-> msg, i |-> 3], inbox')
              \/ /\ Len(Got) = Len(buf) + Left
                 /\ \/ Returned = <<[m |-> msg, i |-> 3], [m |-> msg, i |-> 4]>>
                    \/ Returned = <<[m |-> msg, i |-> 4]>>
                 /\ Follows(M, o, Begun(o), inbox')
<1>0. Got = buf \o Returned
  BY DEF Got, Returned
<1>1. msg = "data2" /\ (buf = <<>> \/ buf = <<[m |-> "data2", i |-> 3]>>)
  BY DEF Buffered
<1>2. /\ After(o, [m |-> "data2", i |-> 3]) = [m |-> "data2", i |-> 3]
      /\ After(o, [m |-> "data2", i |-> 4]) = Begun(o)
  BY AfterCtrl
<1>3. ASSUME NEW j \in {2, 3}, NEW u \in UnitsOf(M), Before(o, u) = [m |-> "data2", i |-> j]
      PROVE  u = [m |-> "data2", i |-> j + 1]
  BY <1>3, NextUnit
<1>4. CASE buf = <<>>
  <2>1. Left = 2 /\ Len(buf) = 0 /\ LastRead(o) = [m |-> "data2", i |-> 2]
    BY <1>1, <1>4, UnitCount DEF Left, LastRead
  <2> DEFINE a == [m |-> "data2", i |-> 2]
  <2>2. inbox' \in Seq(E) /\ (TakesOne(M, o, a) \/ TakesTwo(M, o, a))
    <3>1. Follows(M, o, a, inbox)
      BY <2>1 DEF Ahead
    <3> HIDE DEF a
    <3> QED BY <2>1, <3>1, TakeUnits
  <2>3. CASE TakesOne(M, o, a)
    <3>1. PICK u \in UnitsOf(M) : /\ Before(o, u) = a /\ Returned = <<u>>
                                  /\ Follows(M, o, After(o, u), inbox')
      BY <2>3 DEF TakesOne
    <3>2. u = [m |-> "data2", i |-> 2 + 1]
      BY <1>3, <3>1
    <3>3. u = [m |-> "data2", i |-> 3]
      BY <3>2
    <3>4. Got = <<u>> /\ Len(Got) = 1
      BY <1>0, <1>4, <3>1
    <3>5. Len(Got) # Len(buf) + Left
      BY <2>1, <3>4
    <3>6. /\ Got = <<[m |-> msg, i |-> 3]>> /\ Returned = Got
          /\ Follows(M, o, [m |-> msg, i |-> 3], inbox')
      BY <1>1, <1>2, <3>1, <3>3, <3>4, Zenon
    <3> QED BY <2>2, <3>5, <3>6
  <2>4. CASE TakesTwo(M, o, a)
    <3>1. PICK u \in UnitsOf(M), v \in UnitsOf(M) :
               /\ Before(o, u) = a /\ Before(o, v) = After(o, u)
               /\ Returned = <<u, v>> /\ Follows(M, o, After(o, v), inbox')
      BY <2>4 DEF TakesTwo
    <3>2. u = [m |-> "data2", i |-> 2 + 1]
      BY <1>3, <3>1
    <3>3. After(o, u) = [m |-> "data2", i |-> 3]
      BY <1>2, <3>2
    <3>4. v = [m |-> "data2", i |-> 3 + 1]
      BY <1>3, <3>1, <3>3
    <3>5. After(o, v) = Begun(o)
      BY <1>2, <3>4
    <3>6. Len(Got) = 2
      BY <1>0, <1>4, <3>1
    <3>7. Len(Got) = Len(buf) + Left
      BY <2>1, <3>6
    <3>8. Returned = <<[m |-> msg, i |-> 3], [m |-> msg, i |-> 4]>>
      <4>1. u = [m |-> msg, i |-> 3] /\ v = [m |-> msg, i |-> 4]
        BY <1>1, <3>2, <3>4
      <4> QED BY <3>1, <4>1, Zenon
    <3> QED BY <2>2, <3>1, <3>5, <3>7, <3>8
  <2> QED BY <2>2, <2>3, <2>4
<1>5. CASE buf # <<>>
  <2> DEFINE a == [m |-> "data2", i |-> 3]
  <2>0. buf = <<a>> /\ Len(buf) = 1
    BY <1>1, <1>5
  <2>1. Left = 1 /\ LastRead(o) = a
    BY <1>1, <2>0, UnitCount DEF Left, LastRead
  <2>2. inbox' \in Seq(E) /\ TakesOne(M, o, a)
    <3>1. Follows(M, o, a, inbox)
      BY <2>1 DEF Ahead
    <3> HIDE DEF a
    <3> QED BY <2>1, <3>1, TakeUnits
  <2>3. PICK u \in UnitsOf(M) : /\ Before(o, u) = a /\ Returned = <<u>>
                                /\ Follows(M, o, After(o, u), inbox')
    BY <2>2 DEF TakesOne
  <2>4. u = [m |-> "data2", i |-> 3 + 1]
    BY <1>3, <2>3
  <2>5. After(o, u) = Begun(o)
    BY <1>2, <2>4
  <2>6. Got = <<a>> \o <<u>>
    BY <1>0, <2>0, <2>3
  <2>7. Len(Got) = 2
    <3> HIDE DEF a
    <3> QED BY <2>6
  <2>8. Len(Got) = Len(buf) + Left
    BY <2>0, <2>1, <2>7
  <2>9. Returned = <<[m |-> msg, i |-> 4]>>
    <3>1. u = [m |-> msg, i |-> 4]
      BY <1>1, <2>4
    <3> QED BY <2>3, <3>1, Zenon
  <2> QED BY <2>2, <2>3, <2>5, <2>8, <2>9
<1> QED BY <1>4, <1>5

(***************************************************************************)
(* Every step keeps the stream.                                            *)
(***************************************************************************)
Stream(M, inOrder) == Ahead(M, inOrder) /\ Buffered(M, inOrder)

Reading == {"recv", "call", "join", "insert", "payload"}

\* what the vHAL sends is in M, and in order
Policy(M, inOrder) ==
    /\ M \subseteq Msgs(kind)
    /\ inOrder => kind = "record" /\ (spc # "none" => conn = "open")
    /\ \A m \in Msgs(kind) :
         (orderly => InOrder(m)) => m \in M /\ (inOrder => (m = "open" <=> ~opened))

\* No message is called idle.
LEMMA NoIdle == ASSUME NEW M, NEW k, M \subseteq Msgs(k) PROVE "idle" \notin M
BY DEF Msgs, AudioMsgs, SensorMsgs

\* Nothing has happened for who is not in order.
LEMMA PlaceFacts ==
    /\ Begun(FALSE) = Fresh
    /\ \A o \in BOOLEAN : spc = "none" => TalkerPlace(o) = Fresh
    /\ TalkerPlace(FALSE) = Fresh /\ VhalPlace(FALSE) = Fresh
BY DEF Begun, TalkerPlace, VhalPlace

\* A step that neither reads nor writes.
LEMMA StreamKept ==
    ASSUME NEW M, NEW o \in BOOLEAN, Stream(M, o), UNCHANGED <<sending, opened, buf, msg>>,
           o => (spc' = "none" <=> spc = "none"),
           inbox' = inbox \/ conn' \notin Up,
           conn' \in Up => conn \in Up /\ (conn' = "open" => conn = "open"),
           \/ tpc' = tpc
           \/ tpc \notin Reading /\ tpc' \notin Reading
           \/ tpc = "call" /\ tpc' \in {"join", "insert"}
           \/ tpc = "poll" /\ tpc' = "recv"
    PROVE  Stream(M, o)'
<1>1. TalkerPlace(o)' = TalkerPlace(o) /\ VhalPlace(o)' = VhalPlace(o)
  BY DEF TalkerPlace, VhalPlace, Begun
<1>2. \A m : FitsClient(m, o)' <=> FitsClient(m, o)
  BY DEF FitsClient
<1>3. Buffered(M, o)'
  <2>0. Buffered(M, o)
    BY DEF Stream
  <2>1. CASE tpc' = tpc
    BY <1>2, <2>0, <2>1 DEF Buffered
  <2>2. CASE tpc \notin Reading /\ tpc' \notin Reading
    BY <2>0, <2>2 DEF Buffered, Reading
  <2>3. CASE tpc = "call" /\ tpc' \in {"join", "insert"}
    BY <2>0, <2>3 DEF Buffered
  <2>4. CASE tpc = "poll" /\ tpc' = "recv"
    BY <2>0, <2>4 DEF Buffered
  <2> QED BY <2>1, <2>2, <2>3, <2>4
<1>4. LastRead(o)' = LastRead(o)
  <2>1. CASE tpc' = tpc
    BY <1>1, <2>1 DEF LastRead
  <2>2. CASE tpc \notin Reading /\ tpc' \notin Reading
    BY <1>1, <2>2 DEF LastRead, Reading
  <2>3. CASE tpc = "call" /\ tpc' \in {"join", "insert"}
    BY <2>3 DEF LastRead
  <2>4. CASE tpc = "poll" /\ tpc' = "recv"
    BY <1>1, <2>4 DEF LastRead, Stream, Buffered
  <2> QED BY <2>1, <2>2, <2>3, <2>4
<1>5. Ahead(M, o)'
  BY <1>1, <1>4 DEF Stream, Ahead, Follows
<1> QED BY <1>3, <1>5 DEF Stream

\* The talker's steps that read nothing.  (the two loops, Connect() and Close())
LEMMA TalkerMovesStream ==
    ASSUME NEW M, NEW o \in BOOLEAN, Stream(M, o), ConnState, UNCHANGED clientVars,
           \/ Top \/ ConnectClose \/ ConnectSocket \/ Throws \/ PollTimeout \/ PollIn \/ PollFail
           \/ LoopCheck \/ CloseFlag \/ CloseShutdown \/ CloseRelease
    PROVE  Stream(M, o)'
<1> USE DEF TalkerOnly, Goto, vhalVars, clientVars, sockVars
<1>1. CASE Top \/ LoopCheck \/ PollTimeout \/ PollFail \/ CloseFlag
  BY <1>1, StreamKept DEF Top, LoopCheck, PollTimeout, PollFail, CloseFlag, Reading
<1>2. CASE ConnectClose \/ ConnectSocket \/ CloseShutdown \/ CloseRelease
  BY <1>2, StreamKept DEF ConnectClose, ConnectSocket, CloseShutdown, CloseRelease, Reading, Up
<1>3. CASE Throws
  BY <1>3, StreamKept DEF Throws, Ends
<1>4. CASE PollIn
  <2>1. tpc = "poll" /\ buf = <<>>
    BY <1>4 DEF PollIn, Stream, Buffered
  <2> QED BY <1>4, <2>1, StreamKept DEF PollIn
<1> QED BY <1>1, <1>2, <1>3, <1>4

\* A new connection.
LEMMA ConnectStream ==
    ASSUME NEW M, NEW o \in BOOLEAN, Stream(M, o), ConnState, Types, Policy(M, o),
           UNCHANGED clientVars, ConnectResult
    PROVE  Stream(M, o)'
<1>1. /\ tpc = "connecting" /\ tpc' \in {"poll", "top"} /\ UNCHANGED <<buf, msg, spc, sending>>
      /\ inbox' = <<>> /\ conn = "unconnected"
      /\ conn' = "unconnected" \/ (conn' = "open" /\ opened' = FALSE)
  BY DEF ConnectResult, Goto, clientVars, ConnState
<1>2. sending = <<>>
  BY <1>1 DEF ConnState
<1>3. Buffered(M, o)'
  BY <1>1 DEF Stream, Buffered
<1>4. TalkerPlace(o)' = Fresh /\ LastRead(o)' = TalkerPlace(o)'
  BY <1>1, PlaceFacts DEF Policy, TalkerPlace, LastRead
<1>5. ASSUME conn' = "open" PROVE Follows(M, o, Fresh, <<>>)'
  <2>1. VhalPlace(o)' = Fresh
    BY <1>1, <1>5 DEF VhalPlace
  <2>2. Leads(Grammar(M, o), Fresh, <<>>, Fresh)
    BY LeadsNowhere
  <2>3. <<>> \o <<>> = <<>>
    OBVIOUS
  <2> QED BY <1>1, <1>2, <2>1, <2>2, <2>3 DEF Follows
<1>6. Ahead(M, o)'
  BY <1>1, <1>4, <1>5 DEF Ahead, Up
<1> QED BY <1>3, <1>6 DEF Stream

\* The end of a connection: nothing is left of the stream.
LEMMA ShortStream ==
    ASSUME NEW M, NEW o \in BOOLEAN, ConnState, Short, UNCHANGED <<sending, opened>>,
           tpc # "exited", tpc' \notin Reading, buf' = <<>>, msg' = "idle"
    PROVE  Stream(M, o)'
<1>1. inbox' = <<>> /\ conn' = "fin" /\ sending' = <<>>
  BY DEF Short, ConnState
<1>2. Buffered(M, o)'
  BY DEF Buffered, Reading
<1>3. <<>> \o <<>> = <<>>
  OBVIOUS
<1>4. Ahead(M, o)'
  BY <1>1, <1>3, LeadsNowhere DEF Ahead, Follows
<1> QED BY <1>2, <1>4 DEF Stream

\* A callback that is done with its message.  (the callbacks that return)
LEMMA CallbackDoneStream ==
    ASSUME NEW M, NEW o \in BOOLEAN, Stream(M, o), tpc \in {"call", "insert"}, msg # "data2",
           UNCHANGED <<sending, opened, inbox, conn>>, Leave("loop"), o => spc' # "none"
    PROVE  Stream(M, o)'
<1>1. Buffered(M, o)'
  BY DEF Leave, Buffered
<1>2. LastRead(o) = Begun(o)
  BY AfterCtrl DEF LastRead
<1>3. LastRead(o)' = Begun(o) /\ VhalPlace(o)' = VhalPlace(o)
  BY PlaceFacts DEF Leave, LastRead, TalkerPlace, VhalPlace
<1>4. Ahead(M, o)'
  BY <1>2, <1>3 DEF Stream, Ahead, Follows
<1> QED BY <1>1, <1>4 DEF Stream

\* The stream goes on from what was read.
LEMMA ReadStream ==
    ASSUME NEW M, NEW o \in BOOLEAN, NEW a, Follows(M, o, a, inbox'), LastRead(o)' = a,
           UNCHANGED <<sending, opened, conn>>
    PROVE  Ahead(M, o)'
<1>1. VhalPlace(o)' = VhalPlace(o)
  BY DEF VhalPlace
<1> QED BY <1>1 DEF Ahead, Follows

\* A control message, or a part of one.  (Recv() into ctrl_msg)
LEMMA RecvStream ==
    ASSUME NEW M, NEW o \in BOOLEAN, Stream(M, o), ConnState, Types, Policy(M, o),
           UNCHANGED clientVars, RecvCtrl
    PROVE  Stream(M, o)'
<1>1. /\ tpc = "recv" /\ Take /\ conn \in Up /\ UNCHANGED <<sending, opened, conn, spc>>
      /\ kind \in Kinds /\ msg = "idle"
  BY DEF RecvCtrl, RecvTake, Take, TalkerOnly, vhalVars, clientVars, ConnState, Types, Stream, Buffered
<1>2. "idle" \notin M /\ inbox \in Seq(UnitsOf(Msgs(kind))) /\ sending \in Seq(UnitsOf(Msgs(kind)))
  BY NoIdle DEF Policy, Types
<1>3. PICK m \in M :
        /\ FitsClient(m, o)
        /\ \/ /\ Len(Got) # Len(buf) + Left
              /\ Got = <<[m |-> m, i |-> 1]>>
              /\ Follows(M, o, [m |-> m, i |-> 1], inbox')
           \/ /\ Len(Got) = Len(buf) + Left
              /\ Got = <<[m |-> m, i |-> 1], [m |-> m, i |-> 2]>>
              /\ Follows(M, o, After(o, [m |-> m, i |-> 2]), inbox')
  <2>1. PICK E : E = UnitsOf(Msgs(kind))
    OBVIOUS
  <2> QED BY <1>1, <1>2, <2>1, CtrlRead DEF Stream
<1>4. FitsClient(m, o)'
  BY <1>1, <1>3 DEF FitsClient
<1>5. CASE Len(Got) # Len(buf) + Left /\ Got = <<[m |-> m, i |-> 1]>>
             /\ Follows(M, o, [m |-> m, i |-> 1], inbox')
  <2>1. tpc' = "recv" /\ buf' = <<[m |-> m, i |-> 1]>> /\ msg' = "idle"
    BY <1>1, <1>5 DEF RecvCtrl, RecvTake
  <2>2. Buffered(M, o)'
    BY <1>4, <2>1 DEF Buffered
  <2>3. LastRead(o)' = [m |-> m, i |-> 1]
    <3> DEFINE a == [m |-> m, i |-> 1]
    <3>1. tpc' = "recv" /\ buf' = <<a>>
      BY <2>1
    <3> HIDE DEF a
    <3>2. buf' # <<>> /\ buf'[1] = a
      BY <3>1
    <3> QED BY <3>1, <3>2 DEF LastRead, a
  <2>4. Ahead(M, o)'
    BY <1>1, <1>5, <2>3, ReadStream
  <2> QED BY <2>2, <2>4 DEF Stream
<1>6. CASE Len(Got) = Len(buf) + Left /\ Got = <<[m |-> m, i |-> 1], [m |-> m, i |-> 2]>>
             /\ Follows(M, o, After(o, [m |-> m, i |-> 2]), inbox')
  <2>1. Got[1].m = m
    <3> DEFINE a == [m |-> m, i |-> 1]
               b == [m |-> m, i |-> 2]
    <3>1. Got = <<a, b>>
      BY <1>6
    <3>2. a.m = m
      OBVIOUS
    <3> HIDE DEF a, b
    <3> QED BY <3>1, <3>2
  <2>2. CASE kind = "sensor" /\ ~IsValidCtrlPacket(m)
    <3>1. tpc' = "loop" /\ buf' = <<>> /\ msg' = "idle"
      BY <1>1, <1>6, <2>1, <2>2 DEF RecvCtrl, RecvTake, Leave
    <3>2. Buffered(M, o)'
      BY <3>1 DEF Buffered
    <3>3. o = FALSE /\ m = "pressureOn"
      BY <2>2 DEF Policy, IsValidCtrlPacket
    <3>4. After(o, [m |-> m, i |-> 2]) = Begun(o)
      BY <3>3, AfterCtrl
    <3>5. LastRead(o)' = Begun(o)
      BY <3>1, <3>3, PlaceFacts DEF LastRead, TalkerPlace
    <3>6. Ahead(M, o)'
      BY <1>1, <1>6, <3>4, <3>5, ReadStream
    <3> QED BY <3>2, <3>6 DEF Stream
  <2>3. CASE ~(kind = "sensor" /\ ~IsValidCtrlPacket(m))
    <3>1. tpc' = "call" /\ buf' = <<[m |-> m, i |-> 1], [m |-> m, i |-> 2]>> /\ msg' = m
      BY <1>1, <1>6, <2>1, <2>3 DEF RecvCtrl, RecvTake
    <3>2. Buffered(M, o)'
      BY <1>4, <3>1 DEF Buffered
    <3>3. LastRead(o)' = After(o, [m |-> m, i |-> 2])
      BY <3>1 DEF LastRead
    <3>4. Ahead(M, o)'
      BY <1>1, <1>6, <3>3, ReadStream
    <3> QED BY <3>2, <3>4 DEF Stream
  <2> QED BY <2>2, <2>3
<1> QED BY <1>3, <1>5, <1>6

\* PCM data, or a part of it.  (ReadDataPacket in the playback client)
LEMMA PlaybackStream ==
    ASSUME NEW M, NEW o \in BOOLEAN, Stream(M, o), ConnState, Types, Programs, Policy(M, o),
           PlaybackData \/ PlaybackRead
    PROVE  Stream(M, o)'
<1>0. UNCHANGED <<sending, opened, conn>> /\ kind = "playback" /\ o = FALSE
  BY DEF PlaybackData, PlaybackRead, RecvTake, Take, Called, CbKeeps, TalkerOnly, vhalVars,
         sockVars, Programs, Policy
<1>1. CASE PlaybackData
  <2>1. /\ tpc = "call" /\ tpc' = "payload" /\ buf' = <<>> /\ msg' = msg /\ inbox' = inbox
        /\ msg = "data2"
    BY <1>1, UnitCount DEF PlaybackData, Called, CbKeeps, sockVars
  <2>2. msg \in M
    BY <2>1 DEF Stream, Buffered
  <2>3. Buffered(M, o)'
    BY <2>1, <2>2 DEF Buffered
  <2>4. LastRead(o) = [m |-> msg, i |-> 2]
    BY <2>1, AfterCtrl DEF LastRead
  <2>5. LastRead(o)' = [m |-> msg, i |-> 2]
    <3>1. Len(<<>>) = 0 /\ 2 + 0 = 2
      OBVIOUS
    <3> QED BY <2>1, <3>1 DEF LastRead
  <2>6. conn \in Up => Follows(M, o, [m |-> msg, i |-> 2], inbox')
    BY <2>1, <2>4 DEF Stream, Ahead
  <2>7. VhalPlace(o)' = VhalPlace(o)
    BY <1>0 DEF VhalPlace
  <2>8. Ahead(M, o)'
    BY <1>0, <2>5, <2>6, <2>7 DEF Ahead, Follows
  <2> QED BY <2>3, <2>8 DEF Stream
<1>2. CASE PlaybackRead
  <2>1. tpc = "payload" /\ Take /\ conn \in Up
    BY <1>2 DEF PlaybackRead, RecvTake, ConnState
  <2>2. /\ "idle" \notin M /\ inbox \in Seq(UnitsOf(Msgs(kind)))
        /\ sending \in Seq(UnitsOf(Msgs(kind)))
    BY NoIdle DEF Policy, Types
  <2>3. \/ /\ Len(Got) # Len(buf) + Left
           /\ Got = <<[m |-> msg, i |-> 3]>>
           /\ Follows(M, o, [m |-> msg, i |-> 3], inbox')
        \/ /\ Len(Got) = Len(buf) + Left
           /\ Follows(M, o, Begun(o), inbox')
    <3>1. PICK E : E = UnitsOf(Msgs(kind))
      OBVIOUS
    <3> QED BY <2>1, <2>2, <3>1, DataRead DEF Stream
  <2>4. msg \in M /\ msg = "data2"
    BY <2>1 DEF Stream, Buffered
  <2>5. CASE Len(Got) # Len(buf) + Left
    <3>1. /\ tpc' = "payload" /\ buf' = <<[m |-> msg, i |-> 3]>> /\ msg' = msg
          /\ Follows(M, o, [m |-> msg, i |-> 3], inbox')
      BY <1>2, <2>1, <2>3, <2>5 DEF PlaybackRead, RecvTake
    <3>2. Buffered(M, o)'
      BY <2>4, <3>1 DEF Buffered
    <3>3. LastRead(o)' = [m |-> msg, i |-> 3]
      <4>1. Len(buf') = 1 /\ 2 + 1 = 3
        <5> DEFINE a == [m |-> msg, i |-> 3]
        <5>1. buf' = <<a>>
          BY <3>1
        <5> HIDE DEF a
        <5> QED BY <5>1
      <4> QED BY <3>1, <4>1 DEF LastRead
    <3>4. PICK a : a = [m |-> msg, i |-> 3]
      OBVIOUS
    <3>5. Ahead(M, o)'
      BY <1>0, <3>1, <3>3, <3>4, ReadStream
    <3> QED BY <3>2, <3>5 DEF Stream
  <2>6. CASE Len(Got) = Len(buf) + Left
    <3>1. /\ tpc' = "loop" /\ buf' = <<>> /\ msg' = "idle" /\ Follows(M, o, Begun(o), inbox')
      BY <1>2, <2>1, <2>3, <2>6 DEF PlaybackRead, RecvTake, Leave
    <3>2. Buffered(M, o)'
      BY <3>1 DEF Buffered
    <3>3. LastRead(o)' = Begun(o)
      BY <1>0, <3>1, PlaceFacts DEF LastRead, TalkerPlace
    <3>4. Ahead(M, o)'
      BY <1>0, <3>1, <3>3, ReadStream
    <3> QED BY <3>2, <3>4 DEF Stream
  <2> QED BY <2>5, <2>6
<1> QED BY <1>1, <1>2

\* The vHAL sends, delivers or drops.
LEMMA VhalStream ==
    ASSUME NEW M, NEW o \in BOOLEAN, Stream(M, o), Types, ConnState, Policy(M, o),
           UNCHANGED clientVars, Vhal
    PROVE  Stream(M, o)'
<1> USE DEF VhalOnly, talkerVars, vhalVars, clientVars
<1>1. Buffered(M, o)' /\ LastRead(o)' = LastRead(o)
  <2>1. UNCHANGED <<tpc, buf, msg, spc>>
    BY DEF Vhal, VhalSend, VhalDeliver, VhalDrop, VhalUp, VhalRead
  <2> QED BY <2>1 DEF Stream, Buffered, FitsClient, LastRead, TalkerPlace
<1>2. CASE VhalUp \/ VhalRead
  BY <1>2, StreamKept DEF VhalUp, VhalRead
<1>3. ASSUME VhalSend \/ VhalDeliver \/ VhalDrop PROVE Ahead(M, o)'
  <2>1. conn = "open"
    BY <1>3 DEF VhalSend, VhalDeliver, VhalDrop
  <2>2. Leads(Grammar(M, o), LastRead(o), inbox \o sending, VhalPlace(o))
    BY <2>1 DEF Stream, Ahead, Follows, Up
  <2>3. PICK E, R, a : E = UnitsOf(Msgs(kind)) /\ R = Grammar(M, o) /\ a = LastRead(o)
    OBVIOUS
  <2>4. inbox \in Seq(E) /\ sending \in Seq(E)
    BY <2>3 DEF Types
  <2>5. CASE VhalSend
    <3>1. PICK m \in Msgs(kind) : /\ orderly => InOrder(m)
                                  /\ opened' = (opened \/ m = "open") /\ sending' = Units(m)
      BY <2>5 DEF VhalSend
    <3>2. sending = <<>> /\ inbox' = inbox /\ conn' = conn
      BY <2>5 DEF VhalSend
    <3>3. m \in M /\ (o => (m = "open" <=> ~opened))
      BY <3>1 DEF Policy
    <3>4. VhalPlace(o) = IF m = "open" THEN Fresh ELSE Begun(o)
      BY <3>3, PlaceFacts DEF VhalPlace
    <3>5. VhalPlace(o)' = Begun(o)
      BY <3>1, <3>3, PlaceFacts DEF VhalPlace
    <3>6. Units(m) \in Seq(E)
      BY <2>3, <3>1, UnitsOfMessage
    <3>7. Leads(R, VhalPlace(o), Units(m), Begun(o))
      BY <2>3, <3>3, <3>4, MessageLeads
    <3>8. Leads(R, a, inbox, VhalPlace(o))
      BY <2>2, <2>3, <2>4, <3>2, ConcatEmptySeq
    <3>9. Leads(R, a, inbox \o Units(m), Begun(o))
      BY <2>4, <3>6, <3>7, <3>8, LeadsOn
    <3>10. Leads(Grammar(M, o), LastRead(o), (inbox \o sending)', Begun(o))
      BY <2>3, <3>1, <3>2, <3>9
    <3> QED BY <1>1, <2>1, <3>2, <3>5, <3>10 DEF Ahead, Follows
  <2>6. CASE VhalDeliver
    <3>1. sending # <<>> /\ conn' = conn /\ VhalPlace(o)' = VhalPlace(o)
      BY <2>6 DEF VhalDeliver, VhalPlace
    <3>2. inbox' \o sending' = inbox \o sending
      <4>1. CASE kind = "sensor"
        <5>1. inbox' = inbox \o sending /\ sending' = <<>>
          BY <2>6, <4>1 DEF VhalDeliver
        <5>2. inbox \o sending \in Seq(E)
          BY <2>4, ConcatProperties
        <5> QED BY <5>1, <5>2, ConcatEmptySeq
      <4>2. CASE kind # "sensor"
        <5>1. inbox' = Append(inbox, Head(sending)) /\ sending' = Tail(sending)
          BY <2>6, <4>2 DEF VhalDeliver
        <5> QED BY <2>4, <3>1, <5>1, MoveOne
      <4> QED BY <4>1, <4>2
    <3> QED BY <1>1, <2>1, <2>2, <3>1, <3>2 DEF Ahead, Follows
  <2>7. CASE VhalDrop
    <3>1. conn' # "open" /\ sending' = <<>>
      BY <2>7 DEF VhalDrop
    <3>2. PICK n \in 0..Len(inbox) : inbox' = SubSeq(inbox, 1, n)
      <4>1. CASE inbox' = inbox
        <5>1. inbox = SubSeq(inbox, 1, Len(inbox)) /\ Len(inbox) \in 0..Len(inbox)
          BY <2>4, LenProperties, SubSeqFull
        <5>2. PICK k : k = Len(inbox)
          OBVIOUS
        <5>3. k \in 0..Len(inbox) /\ inbox' = SubSeq(inbox, 1, k)
          BY <4>1, <5>1, <5>2
        <5> QED BY <5>3
      <4> QED BY <2>7, <4>1 DEF VhalDrop
    <3>3. PICK b : Leads(R, a, SubSeq(inbox, 1, n), b)
      <4> DEFINE q == inbox \o sending
      <4>1. q \in Seq(E) /\ Len(q) \in Nat /\ n \in 0..Len(q)
            /\ SubSeq(q, 1, n) = SubSeq(inbox, 1, n)
        BY <2>4, CutOfConcat
      <4>2. Leads(R, a, q, VhalPlace(o))
        BY <2>2, <2>3
      <4> HIDE DEF q
      <4> QED BY <4>1, <4>2, LeadsCut
    <3>4. SubSeq(inbox, 1, n) \in Seq(E)
      <4>1. Len(inbox) \in Nat /\ \A i \in 1..n : inbox[i] \in E
        BY <2>4, LenProperties, ElementOfSeq
      <4> QED BY <4>1, SubSeqProperties
    <3>5. Leads(R, a, inbox' \o sending', b)
      BY <3>1, <3>2, <3>3, <3>4, ConcatEmptySeq
    <3> QED BY <1>1, <2>3, <3>1, <3>5 DEF Ahead, Follows
  <2> QED BY <1>3, <2>5, <2>6, <2>7
<1> QED BY <1>1, <1>2, <1>3 DEF Vhal, Stream

\* A step that ends the process keeps the stream.
LEMMA EndsStream ==
    ASSUME NEW M, NEW o \in BOOLEAN, Stream(M, o), NEW how, Ends(how), UNCHANGED talkerVars,
           spc' = spc
    PROVE  Stream(M, o)'
BY StreamKept DEF Ends, talkerVars, sockVars, vhalVars

\* main(), the destructor and the sender neither read nor change the talker.
LEMMA OthersStream ==
    ASSUME NEW M, NEW o \in BOOLEAN, Stream(M, o), Types, ConnState, Programs, Policy(M, o),
           RegisterCallback \/ Destroy \/ Join \/ Sender
    PROVE  Stream(M, o)'
<1> USE DEF talkerVars, vhalVars
<1>0. o => kind = "record"
  BY DEF Policy
<1>1. CASE RegisterCallback \/ Destroy
  BY <1>0, <1>1, StreamKept DEF RegisterCallback, Destroy, MainOnly
<1>2. CASE Join
  BY <1>2, StreamKept DEF Join, MainOnly, Up
<1>3. CASE Sender
  <2>1. UNCHANGED <<sending, opened, buf, msg, inbox, tpc>>
    BY <1>3 DEF Sender, StreamLoop, StreamNoFile, StreamSend, SensorLook, SensorRead, SensorCheck,
                SensorSend, SenderOnly
  <2>2. o => (spc' = "none" <=> spc = "none")
    BY <1>0, <1>3 DEF Sender, StreamLoop, StreamNoFile, StreamSend, SensorLook, SensorRead,
                SensorCheck, SensorSend, Send, Programs
  <2>3. conn' = conn \/ (conn = "fin" /\ conn' \in {"fin", "rst"})
    BY <1>3 DEF Sender, StreamLoop, StreamNoFile, StreamSend, SensorLook, SensorRead, SensorCheck,
                SensorSend, SenderLocal, Send
  <2> QED BY <2>1, <2>2, <2>3, StreamKept DEF Up
<1> QED BY <1>1, <1>2, <1>3

\* The callbacks that read nothing.
LEMMA CallbackStream ==
    ASSUME NEW M, NEW o \in BOOLEAN, Stream(M, o), Types, ConnState, Programs, Policy(M, o),
           Callback
    PROVE  Stream(M, o)'
<1> USE DEF vhalVars, sockVars
<1>0. /\ o => kind = "record"
      /\ tpc \in {"call", "insert"} => msg \in M /\ (tpc = "call" => FitsClient(msg, o))
      /\ kind # "playback" => "data2" \notin M
  BY DEF Policy, Stream, Buffered, Msgs, AudioMsgs, SensorMsgs, Types, Kinds
<1>1. CASE CallEmpty \/ RecordJoined \/ PlaybackClose \/ UnknownCommand
  BY <1>1, EndsStream DEF CallEmpty, RecordJoined, PlaybackClose, UnknownCommand, CbEnds
<1>2. CASE AppCallback
  BY <1>0, <1>2, CallbackDoneStream DEF AppCallback, Called, CbKeeps, TalkerOnly
<1>3. CASE RecordOpen
  <2>1. CASE spc = "none"
    BY <1>0, <1>3, <2>1, CallbackDoneStream DEF RecordOpen, Called, CbKeeps, TalkerOnly
  <2>2. CASE spc # "none"
    BY <1>3, <2>2, EndsStream DEF RecordOpen, CbEnds
  <2> QED BY <2>1, <2>2
<1>4. CASE RecordClose
  <2>1. CASE spc # "none"
    BY <1>4, <2>1, StreamKept DEF RecordClose, Called, CbKeeps, TalkerOnly, Goto
  <2>2. CASE spc = "none"
    BY <1>4, <2>2, EndsStream DEF RecordClose, CbEnds
  <2> QED BY <2>1, <2>2
<1>5. CASE PlaybackOpen
  BY <1>0, <1>5, CallbackDoneStream DEF PlaybackOpen, Called, CbKeeps, TalkerOnly
<1>6. CASE PlaybackData \/ PlaybackRead
  BY <1>6, PlaybackStream
<1>7. CASE PlaybackShort
  <2>1. CASE Short /\ Leave("loop") /\ TalkerOnly /\ tpc = "payload"
    BY <2>1, ShortStream DEF Leave, TalkerOnly, Reading
  <2>2. CASE Ends("exit1") /\ UNCHANGED talkerVars /\ UNCHANGED clientVars
    BY <2>2, EndsStream DEF clientVars
  <2> QED BY <1>7, <2>1, <2>2 DEF PlaybackShort
<1>8. CASE SensorLock
  BY <1>8, StreamKept DEF SensorLock, Called, CbKeeps, TalkerOnly, Goto
<1>9. CASE SensorInsert
  BY <1>0, <1>9, CallbackDoneStream DEF SensorInsert, CbKeeps, TalkerOnly, Programs
<1> QED BY <1>1, <1>2, <1>3, <1>4, <1>5, <1>6, <1>7, <1>8, <1>9 DEF Callback

\* Every step keeps the stream whole.
LEMMA NextStream ==
    ASSUME NEW M, NEW o \in BOOLEAN, Stream(M, o), Types, ConnState, Programs, Policy(M, o),
           [Next]_vars
    PROVE  Stream(M, o)'
<1>1. CASE ChannelStep(Talker)
  <2>1. CASE RecvCtrlShort
    BY <2>1, ShortStream DEF RecvCtrlShort, Leave, TalkerOnly, Reading, vhalVars
  <2>2. CASE RecvCtrl
    BY <1>1, <2>2, RecvStream DEF ChannelStep
  <2>3. CASE ConnectResult
    BY <1>1, <2>3, ConnectStream DEF ChannelStep
  <2> QED BY <1>1, <2>1, <2>2, <2>3, TalkerMovesStream DEF ChannelStep, Talker
<1>2. CASE ChannelStep(Vhal)
  BY <1>2, VhalStream DEF ChannelStep
<1>3. CASE ClientStep(RegisterCallback) \/ ClientStep(Destroy) \/ ClientStep(Join)
           \/ ClientStep(Sender)
  BY <1>3, OthersStream DEF ClientStep
<1>4. CASE ClientStep(Callback)
  BY <1>4, CallbackStream DEF ClientStep
<1>5. CASE UNCHANGED vars
  BY <1>5, StreamKept DEF vars, chanVars, clientVars, talkerVars, sockVars, vhalVars
<1> QED BY <1>1, <1>2, <1>3, <1>4, <1>5 DEF Next

(***************************************************************************)
(* The talker's place and the connection.                                  *)
(***************************************************************************)
PlaceInv == ConnState /\ Connected /\ Programs

\* Each step of the talker goes where the connection it leaves belongs.
\* (Connect(), the poll loop and Close())
LEMMA TalkerPlaced ==
    ASSUME Types, PlaceInv, UNCHANGED clientVars, Talker
    PROVE  PlaceInv'
<1> USE DEF PlaceInv, ConnState, Connected, Programs, Up, clientVars, TalkerOnly, vhalVars,
            fixedVars, Goto, Leave
<1>1. CASE Top
  BY <1>1 DEF Top, sockVars
<1>2. CASE ConnectClose \/ ConnectSocket
  BY <1>2 DEF ConnectClose, ConnectSocket
<1>3. CASE Throws
  BY <1>3 DEF Throws, Ends, sockVars
<1>4. CASE ConnectResult
  BY <1>4 DEF ConnectResult, Types
<1>5. CASE PollTimeout \/ PollIn \/ PollFail
  BY <1>5 DEF PollTimeout, PollIn, PollFail, sockVars
<1>6. CASE LoopCheck
  BY <1>6 DEF LoopCheck, sockVars
<1>7. CASE CloseFlag \/ CloseShutdown \/ CloseRelease
  BY <1>7 DEF CloseFlag, CloseShutdown, CloseRelease
<1>8. CASE RecvCtrl
  <2>1. tpc = "recv" /\ tpc' \in {"recv", "loop", "call"} /\ UNCHANGED <<connected_, conn, sending>>
    BY <1>8 DEF RecvCtrl, RecvTake, Take
  <2>2. UNCHANGED <<kind, spc, xpc>>
    BY <1>8 DEF RecvCtrl
  <2> QED BY <2>1, <2>2
<1>9. CASE RecvCtrlShort
  BY <1>9 DEF RecvCtrlShort, Short
<1> QED BY <1>1, <1>2, <1>3, <1>4, <1>5, <1>6, <1>7, <1>8, <1>9 DEF Talker

\* The vHAL changes a connection only while it is open.
LEMMA VhalPlaced ==
    ASSUME Types, PlaceInv, UNCHANGED clientVars, Vhal
    PROVE  PlaceInv'
<1>1. UNCHANGED <<tpc, connected_, kind, spc, xpc>>
  BY DEF Vhal, VhalSend, VhalDeliver, VhalDrop, VhalUp, VhalRead, VhalOnly, talkerVars, fixedVars,
         clientVars
<1>2. \/ UNCHANGED <<conn, sending>>
      \/ conn = "open" /\ conn' = "open"
      \/ conn = "open" /\ conn' \in {"fin", "rst"} /\ sending' = <<>>
  BY DEF Vhal, VhalSend, VhalDeliver, VhalDrop, VhalUp, VhalRead, vhalVars
<1> QED BY <1>1, <1>2 DEF PlaceInv, ConnState, Connected, Programs, Up

\* main() and the sender do not move the talker; the destructor waits for it.
LEMMA OthersPlaced ==
    ASSUME Types, PlaceInv, RegisterCallback \/ Destroy \/ Join \/ Sender
    PROVE  PlaceInv'
<1> USE DEF PlaceInv, ConnState, Connected, Programs, Up, talkerVars, vhalVars, fixedVars
<1>1. CASE RegisterCallback
  BY <1>1 DEF RegisterCallback, MainOnly, Types
<1>2. CASE Destroy
  BY <1>2 DEF Destroy, MainOnly
<1>3. CASE Join
  BY <1>3 DEF Join, MainOnly
<1>4. CASE Sender
  <2>1. UNCHANGED <<tpc, connected_, kind, xpc, sending>>
    BY <1>4 DEF Sender, StreamLoop, StreamNoFile, StreamSend, SensorLook, SensorRead, SensorCheck,
                SensorSend, SenderOnly
  <2>2. conn' = conn \/ (conn = "fin" /\ conn' \in {"fin", "rst"})
    BY <1>4 DEF Sender, StreamLoop, StreamNoFile, StreamSend, SensorLook, SensorRead, SensorCheck,
                SensorSend, SenderLocal, Send
  <2>3. /\ spc' # "none" => kind \in {"record", "sensor"}
        /\ spc' \in {"look", "reading", "check"} => kind = "sensor"
    BY <1>4 DEF Sender, StreamLoop, StreamNoFile, StreamSend, SensorLook, SensorRead, SensorCheck,
                SensorSend, Send
  <2> QED BY <2>1, <2>2, <2>3
<1> QED BY <1>1, <1>2, <1>3, <1>4

\* The callbacks run with a connection, and each program in its own.
LEMMA CallbackPlaced ==
    ASSUME Types, PlaceInv, Callback
    PROVE  PlaceInv'
<1> USE DEF PlaceInv, ConnState, Connected, Programs, Up, clientVars, TalkerOnly, vhalVars,
            fixedVars, Goto, Leave, CbKeeps, sockVars
<1>1. CASE CallEmpty \/ RecordJoined \/ PlaybackClose \/ UnknownCommand
  BY <1>1 DEF CallEmpty, RecordJoined, PlaybackClose, UnknownCommand, CbEnds, Ends, talkerVars
<1>2. CASE AppCallback \/ PlaybackOpen \/ PlaybackData
  BY <1>2 DEF AppCallback, PlaybackOpen, PlaybackData, Called
<1>3. CASE RecordOpen
  BY <1>3 DEF RecordOpen, Called, CbEnds, Ends, talkerVars
<1>4. CASE RecordClose
  BY <1>4 DEF RecordClose, Called, CbEnds, Ends, talkerVars
<1>5. CASE PlaybackRead
  <2>1. /\ tpc = "payload" /\ tpc' \in {"payload", "loop"} /\ UNCHANGED <<connected_, conn, sending>>
        /\ UNCHANGED <<kind, spc, xpc>>
    BY <1>5 DEF PlaybackRead, RecvTake, Take
  <2> QED BY <2>1
<1>6. CASE PlaybackShort
  BY <1>6 DEF PlaybackShort, Short, Ends, talkerVars
<1>7. CASE SensorLock \/ SensorInsert
  BY <1>7 DEF SensorLock, SensorInsert, Called
<1> QED BY <1>1, <1>2, <1>3, <1>4, <1>5, <1>6, <1>7 DEF Callback

\* Every step keeps the talker, the connection and the program together.
LEMMA NextPlaced ==
    ASSUME Types, PlaceInv, [Next]_vars
    PROVE  PlaceInv'
<1>1. CASE ChannelStep(Talker)
  BY <1>1, TalkerPlaced DEF ChannelStep
<1>2. CASE ChannelStep(Vhal)
  BY <1>2, VhalPlaced DEF ChannelStep
<1>3. CASE ClientStep(RegisterCallback) \/ ClientStep(Destroy) \/ ClientStep(Join)
           \/ ClientStep(Sender)
  BY <1>3, OthersPlaced DEF ClientStep
<1>4. CASE ClientStep(Callback)
  BY <1>4, CallbackPlaced DEF ClientStep
<1>5. CASE UNCHANGED vars
  BY <1>5 DEF vars, chanVars, clientVars, talkerVars, sockVars, vhalVars, fixedVars, PlaceInv,
              ConnState, Connected, Programs, Up
<1> QED BY <1>1, <1>2, <1>3, <1>4, <1>5 DEF Next

(***************************************************************************)
(* The types.                                                              *)
(***************************************************************************)
PlainTypes ==
    /\ kind \in Kinds /\ orderly \in BOOLEAN /\ opened \in BOOLEAN /\ srv \in BOOLEAN
    /\ status \in Statuses
    /\ rx \in 0..SendCap /\ nmsgs \in 0..MaxMsgs /\ ndrops \in 0..MaxDrops
    /\ spc \in {"none", "loop", "send", "ended", "look", "reading", "check"}
    /\ DOMAIN mSensorMap \subseteq {"acc", "light"}
    /\ xpc \in {"idle", "join", "destroyed"}

\* The counters stay within their bounds.  (the talker and the vHAL)
LEMMA ChannelTypes ==
    ASSUME PlainTypes, UNCHANGED clientVars, Talker \/ Vhal
    PROVE  PlainTypes'
<1> USE DEF PlainTypes, clientVars, TalkerOnly, vhalVars, fixedVars
<1>1. CASE Top \/ ConnectClose \/ ConnectSocket \/ PollTimeout \/ PollIn \/ PollFail \/ LoopCheck
           \/ CloseFlag \/ CloseShutdown \/ CloseRelease \/ RecvCtrl \/ RecvCtrlShort
  <2>1. TalkerOnly
    BY <1>1 DEF Top, ConnectClose, ConnectSocket, PollTimeout, PollIn, PollFail, LoopCheck,
                CloseFlag, CloseShutdown, CloseRelease, RecvCtrl, RecvCtrlShort
  <2> QED BY <2>1
<1>2. CASE Throws
  BY <1>2 DEF Throws, Ends, Statuses
<1>3. CASE ConnectResult
  <2>1. /\ opened' \in BOOLEAN /\ rx' = 0
        /\ UNCHANGED <<kind, orderly, srv, nmsgs, ndrops, status>>
    BY <1>3 DEF ConnectResult
  <2>2. 0 \in 0..SendCap
    BY ChannelAssumption
  <2> QED BY <2>1, <2>2
<1>4. CASE VhalSend
  <2>1. /\ nmsgs' = nmsgs + 1 /\ nmsgs < MaxMsgs /\ opened' \in BOOLEAN
        /\ UNCHANGED <<kind, orderly, srv, ndrops, rx, status>>
    BY <1>4 DEF VhalSend, VhalOnly
  <2>2. nmsgs' \in 0..MaxMsgs
    BY <2>1, ChannelAssumption
  <2> QED BY <2>1, <2>2
<1>5. CASE VhalDeliver \/ VhalUp
  BY <1>5 DEF VhalDeliver, VhalUp, VhalOnly
<1>6. CASE VhalDrop
  <2>1. /\ ndrops' = ndrops + 1 /\ ndrops < MaxDrops /\ srv' \in BOOLEAN
        /\ UNCHANGED <<kind, orderly, opened, nmsgs, rx, status>>
    BY <1>6 DEF VhalDrop, VhalOnly
  <2>2. ndrops' \in 0..MaxDrops
    BY <2>1, ChannelAssumption
  <2> QED BY <2>1, <2>2
<1>7. CASE VhalRead
  <2>1. /\ rx' = rx - 1 /\ rx > 0 /\ UNCHANGED <<kind, orderly, opened, srv, nmsgs, ndrops, status>>
    BY <1>7 DEF VhalRead, VhalOnly
  <2>2. rx' \in 0..SendCap
    BY <2>1, ChannelAssumption
  <2> QED BY <2>1, <2>2
<1> QED BY <1>1, <1>2, <1>3, <1>4, <1>5, <1>6, <1>7 DEF Talker, Vhal

\* The clients stay within their types.
LEMMA ClientTypes ==
    ASSUME PlainTypes, RegisterCallback \/ Destroy \/ Join \/ Callback \/ Sender
    PROVE  PlainTypes'
<1> USE DEF PlainTypes, clientVars, TalkerOnly, vhalVars, fixedVars
<1>1. CASE RegisterCallback \/ Destroy \/ Join
  BY <1>1 DEF RegisterCallback, Destroy, Join, MainOnly
<1>2. CASE CallEmpty \/ RecordJoined \/ PlaybackClose \/ UnknownCommand
  BY <1>2 DEF CallEmpty, RecordJoined, PlaybackClose, UnknownCommand, CbEnds, Ends, Statuses
<1>3. CASE AppCallback \/ PlaybackOpen \/ PlaybackData \/ PlaybackRead \/ SensorLock
  BY <1>3 DEF AppCallback, PlaybackOpen, PlaybackData, PlaybackRead, SensorLock, CbKeeps
<1>4. CASE RecordOpen \/ RecordClose
  BY <1>4 DEF RecordOpen, RecordClose, CbKeeps, CbEnds, Ends, Statuses
<1>5. CASE PlaybackShort
  BY <1>5 DEF PlaybackShort, Ends, Statuses
<1>6. CASE SensorInsert
  <2>1. DOMAIN mSensorMap' = DOMAIN mSensorMap \cup {TypeOf(msg)}
    BY <1>6 DEF SensorInsert
  <2>2. TypeOf(msg) \in {"acc", "light"}
    BY DEF TypeOf
  <2>3. DOMAIN mSensorMap' \subseteq {"acc", "light"}
    BY <2>1, <2>2
  <2>4. TalkerOnly /\ UNCHANGED <<spc, xpc>>
    BY <1>6 DEF SensorInsert, CbKeeps
  <2> QED BY <2>3, <2>4
<1>7. CASE Sender
  <2>1. UNCHANGED <<kind, orderly, opened, srv, nmsgs, ndrops, mSensorMap, xpc>>
    BY <1>7 DEF Sender, StreamLoop, StreamNoFile, StreamSend, SensorLook, SensorRead, SensorCheck,
                SensorSend, SenderOnly
  <2>2. spc' \in {"none", "loop", "send", "ended", "look", "reading", "check"} /\ status' \in Statuses
    BY <1>7 DEF Sender, StreamLoop, StreamNoFile, StreamSend, SensorLook, SensorRead, SensorCheck,
                SensorSend, SenderLocal, Send, Statuses
  <2>3. rx' = rx \/ (rx' = rx + 1 /\ rx < SendCap)
    BY <1>7 DEF Sender, StreamLoop, StreamNoFile, StreamSend, SensorLook, SensorRead, SensorCheck,
                SensorSend, SenderLocal, Send
  <2>4. rx' \in 0..SendCap
    BY <2>3, ChannelAssumption
  <2> QED BY <2>1, <2>2, <2>4
<1> QED BY <1>1, <1>2, <1>3, <1>4, <1>5, <1>6, <1>7 DEF Callback

\* Every step does.
LEMMA NextPlainTypes ==
    ASSUME PlainTypes, [Next]_vars
    PROVE  PlainTypes'
<1>1. CASE ChannelStep(Talker) \/ ChannelStep(Vhal)
  BY <1>1, ChannelTypes DEF ChannelStep
<1>2. CASE ClientStep(RegisterCallback) \/ ClientStep(Destroy) \/ ClientStep(Join)
           \/ ClientStep(Callback) \/ ClientStep(Sender)
  BY <1>2, ClientTypes DEF ClientStep
<1>3. CASE UNCHANGED vars
  BY <1>3 DEF vars, chanVars, clientVars, vhalVars, fixedVars, PlainTypes
<1> QED BY <1>1, <1>2, <1>3 DEF Next

\* what is on its way
QueueTypes(E) == inbox \in Seq(E) /\ sending \in Seq(E)

\* What is on its way are units of messages for this program.
LEMMA NextQueueTypes ==
    ASSUME CInv, [Next]_vars, NEW E, E = UnitsOf(Msgs(kind)), QueueTypes(E)
    PROVE  QueueTypes(E)'
<1> USE DEF QueueTypes, vhalVars, sockVars
<1>0. <<>> \in Seq(E)
  OBVIOUS
<1>1. CASE RecvCtrl \/ PlaybackRead
  <2>1. PICK M : M = Msgs(kind)
    OBVIOUS
  <2>2. "idle" \notin M
    BY <2>1, NoIdle
  <2>3. Ahead(M, FALSE) /\ Buffered(M, FALSE) /\ tpc \in {"recv", "payload"} /\ Take /\ conn \in Up
    BY <1>1, <2>1 DEF CInv, RecvCtrl, PlaybackRead, RecvTake, ConnState
  <2>4. inbox' \in Seq(E)
    BY <2>2, <2>3, CtrlRead, DataRead
  <2>5. sending' = sending
    BY <1>1 DEF RecvCtrl, PlaybackRead, TalkerOnly
  <2> QED BY <2>4, <2>5
<1>2. CASE Talker /\ ~RecvCtrl
  <2>1. sending' = sending /\ (inbox' = inbox \/ inbox' = <<>>)
    BY <1>2 DEF Talker, Top, ConnectClose, ConnectSocket, ConnectResult, Throws, Ends, PollTimeout,
                PollIn, PollFail, LoopCheck, CloseFlag, CloseShutdown, CloseRelease, RecvCtrlShort,
                Short, TalkerOnly
  <2> QED BY <1>0, <2>1
<1>3. CASE Vhal
  <2>1. CASE VhalUp \/ VhalRead
    BY <2>1 DEF VhalUp, VhalRead
  <2>2. CASE VhalSend
    BY <2>2, UnitsOfMessage DEF VhalSend
  <2>3. CASE VhalDeliver
    <3>1. Head(sending) \in E /\ Tail(sending) \in Seq(E)
      BY <2>3, HeadTailProperties DEF VhalDeliver
    <3>2. Append(inbox, Head(sending)) \in Seq(E) /\ inbox \o sending \in Seq(E)
      BY <3>1, AppendProperties, ConcatProperties
    <3> QED BY <1>0, <2>3, <3>1, <3>2 DEF VhalDeliver
  <2>4. CASE VhalDrop
    <3>1. Len(inbox) \in Nat /\ \A n \in 0..Len(inbox) : \A i \in 1..n : inbox[i] \in E
      BY LenProperties, ElementOfSeq
    <3>2. \A n \in 0..Len(inbox) : SubSeq(inbox, 1, n) \in Seq(E)
      BY <3>1, SubSeqProperties
    <3> QED BY <1>0, <2>4, <3>2 DEF VhalDrop
  <2> QED BY <1>3, <2>1, <2>2, <2>3, <2>4 DEF Vhal
<1>4. CASE RegisterCallback \/ Destroy \/ Join \/ Sender
  BY <1>4 DEF RegisterCallback, Destroy, Join, MainOnly, Sender, StreamLoop, StreamNoFile,
              StreamSend, SensorLook, SensorRead, SensorCheck, SensorSend, SenderOnly
<1>5. CASE Callback /\ ~PlaybackRead
  BY <1>5 DEF Callback, CallEmpty, AppCallback, RecordOpen, RecordClose, RecordJoined,
              PlaybackOpen, PlaybackData, PlaybackShort, Short, PlaybackClose, UnknownCommand,
              SensorLock, SensorInsert, CbKeeps, CbEnds, Ends, TalkerOnly
<1>6. CASE UNCHANGED vars
  BY <1>6 DEF vars, chanVars
<1> QED BY <1>1, <1>2, <1>3, <1>4, <1>5, <1>6 DEF Next, ChannelStep, ClientStep

(***************************************************************************)
(* The invariant, and what it gives.                                       *)
(***************************************************************************)
LEMMA ChannelInvariance == Spec => []CInv
<1>1. Init => CInv
  <2> SUFFICES ASSUME Init PROVE CInv
    OBVIOUS
  <2> USE DEF Init, ChannelInit
  <2>1. inbox = <<>> /\ sending = <<>>
    OBVIOUS
  <2>2. DOMAIN mSensorMap \subseteq {"acc", "light"} /\ 0 \in 0..SendCap /\ 0 \in 0..MaxMsgs
          /\ 0 \in 0..MaxDrops
    BY ChannelAssumption
  <2>a. PICK E : E = UnitsOf(Msgs(kind))
    OBVIOUS
  <2>b. inbox \in Seq(E) /\ sending \in Seq(E)
    BY <2>1
  <2>3. Types
    BY <2>2, <2>a, <2>b DEF Types, Statuses
  <2>4. ConnState /\ Connected /\ Programs
    BY DEF ConnState, Connected, Programs, Up
  <2>5. \A M : Ahead(M, FALSE) /\ Buffered(M, FALSE)
    BY DEF Ahead, Buffered, Up
  <2> QED BY <2>3, <2>4, <2>5 DEF CInv
<1>2. CInv /\ [Next]_vars => CInv'
  <2> SUFFICES ASSUME CInv, [Next]_vars PROVE CInv'
    OBVIOUS
  <2>1. PICK M, E : M = Msgs(kind) /\ E = UnitsOf(Msgs(kind))
    OBVIOUS
  <2>2. PlainTypes /\ PlaceInv /\ Types /\ QueueTypes(E) /\ Stream(M, FALSE)
    BY <2>1 DEF CInv, Types, PlainTypes, PlaceInv, QueueTypes, Stream
  <2>3. Policy(M, FALSE)
    BY <2>1 DEF Policy
  <2>4. PlainTypes' /\ PlaceInv' /\ QueueTypes(E)' /\ Stream(M, FALSE)'
    <3>1. PlainTypes' /\ PlaceInv'
      BY <2>2, NextPlainTypes, NextPlaced
    <3>2. QueueTypes(E)'
      BY <2>1, <2>2, NextQueueTypes
    <3>3. Stream(M, FALSE)'
      BY <2>2, <2>3, NextStream DEF CInv
    <3> QED BY <3>1, <3>2, <3>3, Zenon
  <2>5. kind' = kind
    <3> USE DEF fixedVars
    <3>1. CASE ChannelStep(Talker)
      BY <3>1 DEF ChannelStep, Talker, Top, ConnectClose, ConnectSocket, ConnectResult, Throws,
                  Ends, PollTimeout, PollIn, PollFail, LoopCheck, CloseFlag, CloseShutdown,
                  CloseRelease, RecvCtrl, RecvCtrlShort, TalkerOnly
    <3>2. CASE ChannelStep(Vhal)
      BY <3>2 DEF ChannelStep, Vhal, VhalSend, VhalDeliver, VhalDrop, VhalUp, VhalRead, VhalOnly
    <3>3. CASE ClientStep(RegisterCallback) \/ ClientStep(Destroy) \/ ClientStep(Join)
               \/ ClientStep(Sender)
      BY <3>3 DEF ClientStep, RegisterCallback, Destroy, Join, MainOnly, Sender, StreamLoop,
                  StreamNoFile, StreamSend, SensorLook, SensorRead, SensorCheck, SensorSend,
                  SenderOnly
    <3>4. CASE ClientStep(Callback)
      BY <3>4 DEF ClientStep, Callback, CallEmpty, AppCallback, RecordOpen, RecordClose,
                  RecordJoined, PlaybackOpen, PlaybackData, PlaybackRead, PlaybackShort,
                  PlaybackClose, UnknownCommand, SensorLock, SensorInsert, CbKeeps, CbEnds, Ends,
                  TalkerOnly
    <3>5. CASE UNCHANGED vars
      BY <3>5 DEF vars, chanVars
    <3> QED BY <3>1, <3>2, <3>3, <3>4, <3>5 DEF Next
  <2>6. M = Msgs(kind') /\ E = UnitsOf(Msgs(kind'))
    BY <2>1, <2>5
  <2>7. Types'
    BY <2>4, <2>6 DEF Types, PlainTypes, QueueTypes
  <2>8. Ahead(Msgs(kind), FALSE)' /\ Buffered(Msgs(kind), FALSE)'
    BY <2>4, <2>6, Zenon DEF Stream, Ahead, Follows, Buffered, FitsClient
  <2> QED BY <2>4, <2>7, <2>8, Zenon DEF CInv, PlaceInv
<1> QED BY <1>1, <1>2, PTL DEF Spec

\* The variables have their types; in particular connected_ is true exactly
\* where the talker has a connection it has not begun to close, and Recv()
\* never has more of a message than its size.  (Connect(), Close() and Recv()
\* of the three implementations)
THEOREM ChannelTypeCorrect == Spec => []ChannelTypeOK
<1>1. CInv => ChannelTypeOK
  <2> SUFFICES ASSUME CInv PROVE ChannelTypeOK
    OBVIOUS
  <2>1. /\ kind \in Kinds /\ orderly \in BOOLEAN /\ status \in Statuses
        /\ rx \in 0..SendCap /\ nmsgs \in 0..MaxMsgs /\ ndrops \in 0..MaxDrops
        /\ spc \in {"none", "loop", "send", "ended", "look", "reading", "check"}
        /\ DOMAIN mSensorMap \subseteq {"acc", "light"} /\ xpc \in {"idle", "join", "destroyed"}
    BY DEF CInv, Types
  <2>2. conn \in {"none", "unconnected", "open", "fin", "rst", "shut"}
    BY DEF CInv, ConnState, Up
  <2>3. msg \in Msgs(kind) \cup {"idle"}
    BY DEF CInv, Buffered
  <2>4. /\ \A a : Len(<<a>>) <= CtrlUnits
        /\ \A a, b : Len(<<a, b>>) <= CtrlUnits
        /\ Len(<<>>) <= CtrlUnits
    BY DEF CtrlUnits
  <2>5. Len(buf) <= CtrlUnits
    <3>1. Buffered(Msgs(kind), FALSE)
      BY Zenon DEF CInv
    <3>2. CASE tpc = "recv"
      <4>1. buf = <<>> \/ \E m \in Msgs(kind) : buf = <<[m |-> m, i |-> 1]>>
        BY <3>1, <3>2, Zenon DEF Buffered
      <4> QED BY <2>4, <4>1, Zenon
    <3>3. CASE tpc \in {"call", "join", "insert"}
      <4>1. buf = <<[m |-> msg, i |-> 1], [m |-> msg, i |-> 2]>>
        BY <3>1, <3>3, Zenon DEF Buffered
      <4> QED BY <2>4, <4>1, Zenon
    <3>4. CASE tpc = "payload"
      <4>1. buf = <<>> \/ buf = <<[m |-> msg, i |-> 3]>>
        BY <3>1, <3>4, Zenon DEF Buffered
      <4> QED BY <2>4, <4>1, Zenon
    <3>5. CASE tpc \notin {"recv", "call", "join", "insert", "payload"}
      <4>1. buf = <<>>
        BY <3>1, <3>5 DEF Buffered
      <4> QED BY <2>4, <4>1, Zenon
    <3> QED BY <3>2, <3>3, <3>4, <3>5
  <2> QED BY <2>1, <2>2, <2>3, <2>5 DEF ChannelTypeOK, CInv, Connected
<1> QED BY <1>1, ChannelInvariance, PTL

\* The callback is run on the two units of one message, from its first on,
\* however many units have arrived, however recv() cuts them and wherever a
\* connection was lost before.  (Recv()'s loop and ReadDataPacket())
THEOREM StreamAlwaysAligned == Spec => []StreamAligned
<1>1. CInv => StreamAligned
  <2> SUFFICES ASSUME CInv, tpc = "call" PROVE buf = SubSeq(Units(msg), 1, CtrlUnits)
    BY DEF StreamAligned
  <2>1. buf = <<[m |-> msg, i |-> 1], [m |-> msg, i |-> 2]>>
    BY DEF CInv, Buffered
  <2>2. PICK m : m = msg
    OBVIOUS
  <2>3. SubSeq(Units(m), 1, CtrlUnits) = <<[m |-> m, i |-> 1], [m |-> m, i |-> 2]>>
    BY CtrlOfMessage
  <2> QED BY <2>1, <2>2, <2>3
<1> QED BY <1>1, ChannelInvariance, PTL

(***************************************************************************)
(* A session in order.                                                     *)
(***************************************************************************)

\* A session was one before the step.
LEMMA TidyBefore ==
    ASSUME Types, [Next]_vars, Tidy'
    PROVE  Tidy /\ UNCHANGED <<kind, orderly, ndrops>>
<1> USE DEF fixedVars, vhalVars, Tidy
<1>1. CASE ChannelStep(Talker)
  BY <1>1 DEF ChannelStep, Talker, Top, ConnectClose, ConnectSocket, ConnectResult, Throws,
              Ends, PollTimeout, PollIn, PollFail, LoopCheck, CloseFlag, CloseShutdown,
              CloseRelease, RecvCtrl, RecvCtrlShort, TalkerOnly
<1>2. CASE ChannelStep(Vhal)
  <2>1. CASE VhalDrop
    <3>1. ndrops' = ndrops + 1 /\ ndrops \in Nat /\ ndrops' = 0
      BY <2>1, ChannelAssumption DEF VhalDrop, Types
    <3> QED BY <3>1
  <2>2. CASE VhalSend \/ VhalDeliver \/ VhalUp \/ VhalRead
    BY <2>2 DEF VhalSend, VhalDeliver, VhalUp, VhalRead, VhalOnly
  <2> QED BY <1>2, <2>1, <2>2 DEF ChannelStep, Vhal
<1>3. CASE ClientStep(RegisterCallback) \/ ClientStep(Destroy) \/ ClientStep(Join)
           \/ ClientStep(Sender)
  BY <1>3 DEF ClientStep, RegisterCallback, Destroy, Join, MainOnly, Sender, StreamLoop,
              StreamNoFile, StreamSend, SensorLook, SensorRead, SensorCheck, SensorSend,
              SenderOnly
<1>4. CASE ClientStep(Callback)
  BY <1>4 DEF ClientStep, Callback, CallEmpty, AppCallback, RecordOpen, RecordClose,
              RecordJoined, PlaybackOpen, PlaybackData, PlaybackRead, PlaybackShort,
              PlaybackClose, UnknownCommand, SensorLock, SensorInsert, CbKeeps, CbEnds, Ends,
              TalkerOnly
<1>5. CASE UNCHANGED vars
  BY <1>5 DEF vars, chanVars
<1> QED BY <1>1, <1>2, <1>3, <1>4, <1>5 DEF Next

\* what a session in order has besides its stream
Calm ==
    /\ conn \notin {"fin", "rst", "shut"}
    /\ spc # "none" => conn = "open"
    /\ ~callback_ => inbox = <<>> /\ sending = <<>> /\ ~opened
                       /\ tpc \notin {"recv", "call", "join", "payload"}
    /\ status \in {"running", "exit0"}

\* In order, the talker has no connection to close and nothing to throw.
LEMMA TalkerCalm ==
    ASSUME Tidy, Calm, PlaceInv, UNCHANGED clientVars, Talker
    PROVE  Calm'
<1> USE DEF Tidy, Calm, PlaceInv, ConnState, Up, clientVars, TalkerOnly, vhalVars, Goto, Leave
<1>1. CASE Top \/ PollTimeout \/ PollIn \/ PollFail \/ LoopCheck
  BY <1>1 DEF Top, PollTimeout, PollIn, PollFail, LoopCheck, sockVars
<1>2. CASE ConnectClose \/ ConnectSocket
  BY <1>2 DEF ConnectClose, ConnectSocket
<1>3. CASE Throws
  BY <1>3 DEF Throws
<1>4. CASE ConnectResult
  BY <1>4 DEF ConnectResult
<1>5. CASE CloseFlag \/ CloseShutdown \/ CloseRelease
  BY <1>5 DEF CloseFlag, CloseShutdown, CloseRelease
<1>6. CASE RecvCtrl
  <2>1. tpc = "recv" /\ UNCHANGED <<conn, sending, opened, callback_, status, spc>>
    BY <1>6 DEF RecvCtrl, RecvTake, Take
  <2> QED BY <2>1
<1>7. CASE RecvCtrlShort
  BY <1>7 DEF RecvCtrlShort, Short
<1> QED BY <1>1, <1>2, <1>3, <1>4, <1>5, <1>6, <1>7 DEF Talker

\* In order, the vHAL sends once the callback is registered, and drops nothing.
LEMMA VhalCalm ==
    ASSUME Types, Tidy, Calm, Tidy', PlaceInv, UNCHANGED clientVars, Vhal
    PROVE  Calm'
<1> USE DEF Calm, clientVars, VhalOnly, talkerVars, vhalVars
<1>1. CASE VhalSend
  <2>1. callback_ /\ callback_' = callback_ /\ UNCHANGED <<conn, spc, status>>
    BY <1>1 DEF VhalSend, InOrder, Tidy
  <2> QED BY <2>1
<1>2. CASE VhalDeliver
  <2>1. callback_ /\ callback_' = callback_ /\ UNCHANGED <<conn, spc, status>>
    BY <1>2 DEF VhalDeliver
  <2> QED BY <2>1
<1>3. CASE VhalDrop
  <2>1. ndrops' = ndrops + 1 /\ ndrops = 0 /\ ndrops' = 0
    BY <1>3 DEF VhalDrop, Tidy
  <2> QED BY <2>1
<1>4. CASE VhalUp \/ VhalRead
  BY <1>4 DEF VhalUp, VhalRead
<1> QED BY <1>1, <1>2, <1>3, <1>4 DEF Vhal

\* In order, the streamer sends on an open connection.  (StreamSend)
LEMMA OthersCalm ==
    ASSUME Types, Tidy, Calm, PlaceInv, RegisterCallback \/ Destroy \/ Join \/ Sender
    PROVE  Calm'
<1> USE DEF Calm, talkerVars, vhalVars
<1>1. CASE RegisterCallback
  BY <1>1 DEF RegisterCallback, MainOnly, Tidy
<1>2. CASE Destroy
  BY <1>2 DEF Destroy, MainOnly
<1>3. CASE Join
  <2>1. spc = "none"
    BY <1>3 DEF Join, PlaceInv, Programs
  <2> QED BY <1>3, <2>1 DEF Join, MainOnly
<1>4. CASE Sender
  <2>1. UNCHANGED <<tpc, inbox, sending, opened, callback_>>
    BY <1>4 DEF Sender, StreamLoop, StreamNoFile, StreamSend, SensorLook, SensorRead, SensorCheck,
                SensorSend, SenderOnly
  <2>2. spc # "none" /\ conn = "open" /\ spc \notin {"look", "reading", "check"}
    BY <1>4 DEF Sender, StreamLoop, StreamNoFile, StreamSend, SensorLook, SensorRead, SensorCheck,
                SensorSend, PlaceInv, Programs, Tidy
  <2>3. conn' = conn /\ status' = status
    BY <1>4, <2>2 DEF Sender, StreamLoop, StreamNoFile, StreamSend, SensorLook, SensorRead,
                SensorCheck, SensorSend, SenderLocal, Send, Tidy
  <2> QED BY <2>1, <2>2, <2>3
<1> QED BY <1>1, <1>2, <1>3, <1>4

\* In order, the callback has a streamer exactly when it is told to stop one.
\* (kOpen and kClose of the record client)
LEMMA CallbackCalm ==
    ASSUME Types, Tidy, Calm, PlaceInv, Callback, NEW o \in BOOLEAN, o = (kind = "record"),
           NEW M, M = SessionMsgs, Buffered(M, o)
    PROVE  Calm'
<1> USE DEF Calm, Tidy, TalkerOnly, vhalVars, sockVars, CbKeeps, Goto, Leave
<1>0. tpc = "call" => /\ callback_ /\ msg \in M /\ conn = "open"
                      /\ kind = "record" => (msg = "open" <=> spc = "none")
                      /\ msg \in {"open", "data0", "data2", "close"}
                      /\ kind = "record" => msg \in {"open", "close"}
  BY DEF Buffered, FitsClient, PlaceInv, ConnState, Up, SessionMsgs
<1>1. CASE CallEmpty
  BY <1>0, <1>1 DEF CallEmpty
<1>2. CASE RecordJoined \/ PlaybackClose
  BY <1>0, <1>2 DEF RecordJoined, PlaybackClose, Called, CbEnds, Ends, talkerVars
<1>3. CASE UnknownCommand
  BY <1>0, <1>3 DEF UnknownCommand, Called
<1>4. CASE AppCallback \/ PlaybackOpen \/ PlaybackData
  BY <1>0, <1>4 DEF AppCallback, PlaybackOpen, PlaybackData, Called
<1>5. CASE RecordOpen
  BY <1>0, <1>5 DEF RecordOpen, Called
<1>6. CASE RecordClose
  <2>1. tpc = "call" /\ kind = "record" /\ msg = "close"
    BY <1>6 DEF RecordClose, Called
  <2>2. spc # "none"
    BY <1>0, <2>1
  <2>3. UNCHANGED <<conn, spc, callback_, status>>
    BY <1>6, <2>2 DEF RecordClose
  <2>4. callback_ /\ conn = "open"
    BY <1>0, <2>1
  <2> QED BY <2>3, <2>4
<1>7. CASE PlaybackRead
  <2>1. tpc = "payload" /\ UNCHANGED <<conn, sending, opened, callback_, status, spc>>
    BY <1>7 DEF PlaybackRead, RecvTake, Take
  <2> QED BY <2>1
<1>8. CASE PlaybackShort
  BY <1>8 DEF PlaybackShort, Short
<1>9. CASE SensorLock \/ SensorInsert
  BY <1>9 DEF SensorLock, SensorInsert, Called, PlaceInv, Programs
<1> QED BY <1>1, <1>2, <1>3, <1>4, <1>5, <1>6, <1>7, <1>8, <1>9 DEF Callback

\* Every step of a session in order is followed by no failure.
LEMMA NextCalm ==
    ASSUME Types, Tidy, Tidy', Calm, PlaceInv, [Next]_vars, NEW o \in BOOLEAN,
           o = (kind = "record"), NEW M, M = SessionMsgs, Buffered(M, o)
    PROVE  Calm'
<1>1. CASE ChannelStep(Talker)
  BY <1>1, TalkerCalm DEF ChannelStep
<1>2. CASE ChannelStep(Vhal)
  BY <1>2, VhalCalm DEF ChannelStep
<1>3. CASE ClientStep(RegisterCallback) \/ ClientStep(Destroy) \/ ClientStep(Join)
           \/ ClientStep(Sender)
  BY <1>3, OthersCalm DEF ClientStep
<1>4. CASE ClientStep(Callback)
  BY <1>4, CallbackCalm DEF ClientStep
<1>5. CASE UNCHANGED vars
  BY <1>5 DEF vars, chanVars, clientVars, talkerVars, sockVars, vhalVars, fixedVars, Calm
<1> QED BY <1>1, <1>2, <1>3, <1>4, <1>5 DEF Next

\* So a session in order stays one.
LEMMA SessionInvariance == Spec => []TidyInv
<1>1. Init => TidyInv
  BY DEF Init, ChannelInit, TidyInv, Tidy, Ahead, Buffered, Up
<1>2. CInv /\ TidyInv /\ [Next]_vars => TidyInv'
  <2> SUFFICES ASSUME CInv, TidyInv, [Next]_vars, Tidy' PROVE TidyInv'
    BY DEF TidyInv
  <2>1. Types /\ ConnState /\ Programs /\ PlaceInv
    BY DEF CInv, PlaceInv
  <2>2. Tidy /\ UNCHANGED <<kind, orderly, ndrops>>
    BY <2>1, TidyBefore
  <2>3. PICK M, o : M = SessionMsgs /\ o = (kind = "record")
    OBVIOUS
  <2>4. o \in BOOLEAN
    BY <2>3
  <2>5. Stream(M, o) /\ Calm
    BY <2>2, <2>3, Zenon DEF TidyInv, Stream, Calm
  <2>6. Policy(M, o)
    BY <2>1, <2>2, <2>3, <2>5 DEF Policy, Tidy, Calm, SessionMsgs, Msgs, AudioMsgs, InOrder, Types,
       Kinds
  <2>7. Stream(M, o)'
    BY <2>1, <2>4, <2>5, <2>6, NextStream
  <2>8. Calm'
    BY <2>1, <2>2, <2>3, <2>4, <2>5, NextCalm DEF Stream
  <2>9. M = SessionMsgs' /\ o = (kind = "record")'
    BY <2>2, <2>3 DEF SessionMsgs
  <2>10. Ahead(SessionMsgs, kind = "record")' /\ Buffered(SessionMsgs, kind = "record")'
    BY <2>7, <2>9, Zenon DEF Stream, Ahead, Follows, Buffered, FitsClient, LastRead, TalkerPlace,
       VhalPlace
  <2> QED BY <2>8, <2>10, Zenon DEF TidyInv, Calm
<1> QED BY <1>1, <1>2, ChannelInvariance, PTL DEF Spec

\* For every number of messages and every amount of data: with a vHAL that
\* waits for the client, opens, streams and closes, and a connection that
\* lasts, an audio client runs on or calls exit(0).  (the switch of
\* audio_record_client.cc and of audio_playback_client.cc)
THEOREM AudioSessionsClean == Spec => []AudioSessionClean
<1>1. TidyInv => AudioSessionClean
  BY DEF TidyInv, Tidy, AudioSessionClean
<1> QED BY <1>1, SessionInvariance, PTL

(***************************************************************************)
(* The messages.  The last control units among those that the talker has   *)
(* not read are the queue of CommandLink: a unit that arrives, is read or  *)
(* is lost is a message sent, delivered or dropped, or none.               *)
(***************************************************************************)
MessagesAt(k, q) == {i \in 1..Len(q) : EndsMessage(k, q[i])}
Names(q) == [i \in 1..Len(q) |-> q[i].m]

\* A unit that counts names a message.
LEMMA MessageNames ==
    ASSUME NEW M, NEW k, NEW q \in Seq(UnitsOf(M))
    PROVE  /\ Len(q) \in Nat /\ Within(MessagesAt(k, q), Len(q))
           /\ Into(Names(q), MessagesAt(k, q), M)
           /\ MessagesIn(k, q) = Selected(Names(q), MessagesAt(k, q))
<1>1. Len(q) \in Nat /\ \A i \in 1..Len(q) : q[i] \in UnitsOf(M)
  BY LenProperties, ElementOfSeq
<1>2. Within(MessagesAt(k, q), Len(q))
  BY <1>1 DEF Within, MessagesAt
<1>3. ASSUME NEW i \in MessagesAt(k, q) PROVE Names(q)[i] \in M
  <2>1. i \in 1..Len(q) /\ Names(q)[i] = q[i].m
    BY DEF MessagesAt, Names
  <2>2. q[i] \in UnitsOf(M)
    BY <1>1, <2>1
  <2> QED BY <2>1, <2>2 DEF UnitsOf
<1>4. MessagesIn(k, q) = Selected(Names(q), MessagesAt(k, q))
  BY DEF MessagesIn, Names, MessagesAt
<1> QED BY <1>1, <1>2, <1>3, <1>4 DEF Into

\* No unit, no message.
LEMMA NoMessages == \A k : MessagesIn(k, <<>>) = <<>>
<1> SUFFICES ASSUME NEW k PROVE MessagesIn(k, <<>>) = <<>>
  OBVIOUS
<1>1. MessagesAt(k, <<>>) = {}
  BY DEF MessagesAt
<1>2. <<>> \in Seq(UnitsOf({}))
  OBVIOUS
<1>3. MessagesIn(k, <<>>) = Selected(Names(<<>>), {})
  BY <1>1, <1>2, MessageNames
<1> QED BY <1>3, SelectedNone

\* A unit arrives.
LEMMA MessagesAppend ==
    ASSUME NEW M, NEW k, NEW q \in Seq(UnitsOf(M)), NEW u \in UnitsOf(M)
    PROVE  /\ MessagesIn(k, q) \in Seq(M)
           /\ MessagesIn(k, Append(q, u)) = IF EndsMessage(k, u) THEN Append(MessagesIn(k, q), u.m)
                                                                 ELSE MessagesIn(k, q)
<1> DEFINE r == Append(q, u)
           n == Len(q)
<1>1. /\ r \in Seq(UnitsOf(M)) /\ n \in Nat /\ Len(r) = n + 1 /\ r[n + 1] = u
      /\ \A i \in 1..n : r[i] = q[i]
  BY AppendProperties
<1>2. /\ Within(MessagesAt(k, q), n) /\ Into(Names(q), MessagesAt(k, q), M)
      /\ MessagesIn(k, q) = Selected(Names(q), MessagesAt(k, q))
  BY MessageNames
<1> HIDE DEF r
<1>3. /\ Into(Names(r), MessagesAt(k, r), M)
      /\ MessagesIn(k, r) = Selected(Names(r), MessagesAt(k, r))
  BY <1>1, MessageNames
<1>4. MessagesIn(k, q) \in Seq(M)
  BY <1>1, <1>2, SelectedType
<1>5. Agree(Names(q), Names(r), MessagesAt(k, q))
  BY <1>1 DEF Agree, MessagesAt, Names
<1>6. CASE EndsMessage(k, u)
  <2>1. MessagesAt(k, r) = MessagesAt(k, q) \cup {n + 1}
    BY <1>1, <1>6 DEF MessagesAt
  <2>2. Names(r)[n + 1] = u.m /\ n + 1 \in MessagesAt(k, r)
    BY <1>1, <2>1 DEF Names
  <2>3. Names(r)[n + 1] \in M
    BY <1>3, <2>2 DEF Into
  <2>4. Selected(Names(r), MessagesAt(k, r))
          = Append(Selected(Names(q), MessagesAt(k, q)), Names(r)[n + 1])
    BY <1>1, <1>2, <1>5, <2>1, <2>3, SelectedAppend
  <2> QED BY <1>2, <1>3, <1>4, <1>6, <2>2, <2>4 DEF r
<1>7. CASE ~EndsMessage(k, u)
  <2>1. MessagesAt(k, r) = MessagesAt(k, q)
    BY <1>1, <1>7 DEF MessagesAt
  <2>2. Selected(Names(r), MessagesAt(k, q)) = Selected(Names(q), MessagesAt(k, q))
    BY <1>1, <1>2, <1>5, SelectedSame
  <2> QED BY <1>2, <1>3, <1>4, <1>7, <2>1, <2>2 DEF r
<1> QED BY <1>6, <1>7

\* The talker reads a unit.
LEMMA MessagesTail ==
    ASSUME NEW M, NEW k, NEW q \in Seq(UnitsOf(M)), q # <<>>
    PROVE  /\ ~EndsMessage(k, Head(q)) => MessagesIn(k, Tail(q)) = MessagesIn(k, q)
           /\ EndsMessage(k, Head(q)) => /\ MessagesIn(k, q) # <<>>
                                         /\ Head(MessagesIn(k, q)) = Head(q).m
                                         /\ MessagesIn(k, Tail(q)) = Tail(MessagesIn(k, q))
<1> DEFINE r == Tail(q)
           n == Len(q)
<1>1. /\ r \in Seq(UnitsOf(M)) /\ n \in Nat /\ n >= 1 /\ Len(r) = n - 1 /\ Head(q) = q[1]
      /\ \A i \in 1..(n - 1) : r[i] = q[i + 1]
  BY HeadTailProperties, EmptySeq
<1>2. /\ Within(MessagesAt(k, q), n) /\ Into(Names(q), MessagesAt(k, q), M)
      /\ MessagesIn(k, q) = Selected(Names(q), MessagesAt(k, q))
  BY MessageNames
<1> HIDE DEF r
<1>3. MessagesIn(k, r) = Selected(Names(r), MessagesAt(k, r))
  BY <1>1, MessageNames
<1>4. Within(MessagesAt(k, r), n)
  BY <1>1 DEF Within, MessagesAt
<1>5. Moved(Names(q), MessagesAt(k, q), Names(r), MessagesAt(k, r))
  <2>1. ASSUME NEW i \in Nat, i >= 1
        PROVE  i \in MessagesAt(k, r) <=> i + 1 \in MessagesAt(k, q)
    BY <1>1, <2>1 DEF MessagesAt
  <2>2. ASSUME NEW i \in MessagesAt(k, r) PROVE Names(r)[i] = Names(q)[i + 1]
    BY <1>1, <2>2 DEF MessagesAt, Names
  <2> QED BY <2>1, <2>2 DEF Moved
<1>6. 1 \in MessagesAt(k, q) <=> EndsMessage(k, Head(q))
  BY <1>1 DEF MessagesAt
<1>7. Names(q)[1] = Head(q).m
  BY <1>1 DEF Names
<1> DEFINE s == Selected(Names(q), MessagesAt(k, q))
           t == Selected(Names(r), MessagesAt(k, r))
<1>8. /\ 1 \notin MessagesAt(k, q) => t = s
      /\ 1 \in MessagesAt(k, q) => s # <<>> /\ Head(s) = Names(q)[1] /\ t = Tail(s)
  BY <1>1, <1>2, <1>4, <1>5, SelectedTail
<1> QED BY <1>2, <1>3, <1>6, <1>7, <1>8 DEF r

\* s is what is left of t when its end is lost
CutFrom(s, t) == \E j \in 0..Len(t) : s = SubSeq(t, 1, j)

\* The connection loses the end of what has arrived.
LEMMA MessagesCut ==
    ASSUME NEW M, NEW k, NEW q \in Seq(UnitsOf(M)), NEW n \in 0..Len(q)
    PROVE  CutFrom(MessagesIn(k, SubSeq(q, 1, n)), MessagesIn(k, q))
<1> DEFINE s == SubSeq(q, 1, n)
<1>1. /\ Len(q) \in Nat /\ Within(MessagesAt(k, q), Len(q))
      /\ Into(Names(q), MessagesAt(k, q), M)
      /\ MessagesIn(k, q) = Selected(Names(q), MessagesAt(k, q))
  BY MessageNames
<1>2. /\ s \in Seq(UnitsOf(M)) /\ Len(s) = n /\ n \in Nat /\ n <= Len(q)
      /\ \A i \in 1..n : s[i] = q[i]
  <2>1. \A i \in 1..n : q[i] \in UnitsOf(M)
    BY <1>1, ElementOfSeq
  <2> QED BY <1>1, <2>1, SubSeqProperties
<1> HIDE DEF s
<1>3. MessagesIn(k, s) = Selected(Names(s), MessagesAt(k, s))
  BY <1>2, MessageNames
<1>4. MessagesAt(k, s) = UpTo(MessagesAt(k, q), n)
  BY <1>1, <1>2 DEF MessagesAt, UpTo
<1>5. Agree(Names(q), Names(s), MessagesAt(k, s))
  <2>1. ASSUME NEW i \in MessagesAt(k, s) PROVE i \in 1..n /\ i \in 1..Len(q)
    BY <1>1, <1>2 DEF MessagesAt
  <2> QED BY <1>2, <2>1 DEF Agree, Names
<1> DEFINE j == Cardinality(MessagesAt(k, s))
<1>6. /\ j \in 0..Len(Selected(Names(q), MessagesAt(k, q)))
      /\ Selected(Names(s), MessagesAt(k, s))
           = SubSeq(Selected(Names(q), MessagesAt(k, q)), 1, j)
  BY <1>1, <1>2, <1>4, <1>5, SelectedPrefix
<1> QED BY <1>1, <1>3, <1>6 DEF s, CutFrom

\* What recv() returned is what the stream has lost.
LEMMA TakenUnits ==
    ASSUME NEW E, inbox \in Seq(E), Take, Left \in {1, 2}
    PROVE  /\ inbox # <<>>
           /\ \A u : Returned = <<u>> => u = Head(inbox) /\ inbox' = Tail(inbox)
           /\ \A u, v : Returned = <<u, v>> =>
                /\ Tail(inbox) # <<>> /\ u = Head(inbox) /\ v = Head(Tail(inbox))
                /\ inbox' = Tail(Tail(inbox))
<1> DEFINE n == SmallerOf(Left, Len(inbox))
<1>1. inbox # <<>> /\ inbox' = SubSeq(inbox, n + 1, Len(inbox)) /\ Len(inbox) \in Nat \ {0}
  BY EmptySeq, LenProperties DEF Take
<1>2. /\ Left = 1 \/ Len(inbox) = 1 => n = 1
      /\ Left = 2 /\ Len(inbox) > 1 => n = 2
      /\ (Left = 1 \/ Len(inbox) = 1) \/ (Left = 2 /\ Len(inbox) > 1)
  BY <1>1, SmallerFacts
<1>3. \A u, v, w : <<u>> # <<v, w>>
  <2>1. \A u, v, w : Len(<<u>>) = 1 /\ Len(<<v, w>>) = 2
    OBVIOUS
  <2> QED BY <2>1
<1>4. /\ \A u, v : <<u>> = <<v>> => u = v
      /\ \A u, v, w, x : <<u, v>> = <<w, x>> => u = w /\ v = x
  OBVIOUS
<1>5. CASE Left = 1 \/ Len(inbox) = 1
  <2>1. n = 1 /\ n + 1 = 2
    BY <1>2, <1>5
  <2>2. Returned = <<Head(inbox)>> /\ inbox' = Tail(inbox)
    BY <1>1, <2>1, FirstUnits DEF Returned
  <2> QED BY <1>1, <1>3, <1>4, <2>2, Zenon
<1>6. CASE Left = 2 /\ Len(inbox) > 1
  <2>1. n = 2 /\ n + 1 = 3
    BY <1>2, <1>6
  <2>2. /\ Tail(inbox) # <<>> /\ Returned = <<Head(inbox), Head(Tail(inbox))>>
        /\ inbox' = Tail(Tail(inbox))
    BY <1>1, <1>6, <2>1, FirstUnits DEF Returned
  <2> QED BY <1>1, <1>3, <1>4, <2>2, Zenon
<1> QED BY <1>2, <1>5, <1>6

(***************************************************************************)
(* What the refinement needs besides: a connection leaves nothing behind,  *)
(* and a sensor packet is sent whole.                                      *)
(***************************************************************************)
LinkInv ==
    /\ conn \notin Up => inbox = <<>> \/ xpc = "destroyed"
    /\ kind = "sensor" /\ sending # <<>> => \E m \in SensorMsgs : sending = Units(m)

\* Close() throws away what has arrived, and the vHAL sends on an open
\* connection only.
LEMMA NextLink ==
    ASSUME CInv, LinkInv, [Next]_vars
    PROVE  LinkInv'
<1> USE DEF LinkInv, fixedVars, vhalVars, sockVars, clientVars
<1>1. CASE ChannelStep(Talker)
  <2>0. UNCHANGED <<kind, sending, xpc>>
    BY <1>1 DEF ChannelStep, Talker, Top, ConnectClose, ConnectSocket, ConnectResult, Throws,
                Ends, PollTimeout, PollIn, PollFail, LoopCheck, CloseFlag, CloseShutdown,
                CloseRelease, RecvCtrl, RecvCtrlShort, TalkerOnly
  <2>1. CASE Top \/ Throws \/ PollTimeout \/ PollIn \/ PollFail \/ LoopCheck \/ CloseFlag
    BY <2>0, <2>1 DEF Top, Throws, Ends, PollTimeout, PollIn, PollFail, LoopCheck, CloseFlag
  <2>2. CASE ConnectClose \/ ConnectSocket \/ CloseRelease
    BY <2>0, <2>2 DEF ConnectClose, ConnectSocket, CloseRelease, CInv, ConnState, Up
  <2>3. CASE ConnectResult \/ CloseShutdown
    BY <2>0, <2>3 DEF ConnectResult, CloseShutdown
  <2>4. CASE RecvCtrl \/ RecvCtrlShort
    <3>1. tpc = "recv" /\ (conn' = conn \/ conn' = "fin")
      BY <2>4 DEF RecvCtrl, RecvTake, Take, RecvCtrlShort, Short
    <3>2. conn' \in Up
      BY <3>1 DEF CInv, ConnState, Up
    <3> QED BY <2>0, <3>2
  <2> QED BY <1>1, <2>1, <2>2, <2>3, <2>4 DEF ChannelStep, Talker
<1>2. CASE ChannelStep(Vhal)
  <2>0. UNCHANGED <<kind, xpc>>
    BY <1>2 DEF ChannelStep, Vhal, VhalSend, VhalDeliver, VhalDrop, VhalUp, VhalRead, VhalOnly
  <2>1. CASE VhalSend
    <3>1. PICK m \in Msgs(kind) : sending' = Units(m)
      BY <2>1 DEF VhalSend
    <3>2. kind = "sensor" => m \in SensorMsgs
      BY DEF Msgs
    <3>3. UNCHANGED <<conn, inbox>>
      BY <2>1 DEF VhalSend
    <3> QED BY <2>0, <3>1, <3>2, <3>3
  <2>2. CASE VhalDeliver
    <3>1. conn' \in Up /\ (kind = "sensor" => sending' = <<>>)
      BY <2>2 DEF VhalDeliver, Up
    <3> QED BY <2>0, <3>1
  <2>3. CASE VhalDrop
    <3>1. conn' \in Up /\ sending' = <<>>
      BY <2>3 DEF VhalDrop, Up
    <3> QED BY <2>0, <3>1
  <2>4. CASE VhalUp \/ VhalRead
    <3>1. UNCHANGED <<conn, inbox, sending>>
      BY <2>4 DEF VhalUp, VhalRead
    <3> QED BY <2>0, <3>1
  <2> QED BY <1>2, <2>1, <2>2, <2>3, <2>4 DEF ChannelStep, Vhal
<1>3. CASE ClientStep(RegisterCallback) \/ ClientStep(Destroy)
  BY <1>3 DEF ClientStep, RegisterCallback, Destroy, MainOnly
<1>4. CASE ClientStep(Join)
  BY <1>4 DEF ClientStep, Join, MainOnly
<1>5. CASE ClientStep(Sender)
  <2>1. UNCHANGED <<kind, sending, xpc, inbox>>
    BY <1>5 DEF ClientStep, Sender, StreamLoop, StreamNoFile, StreamSend, SensorLook, SensorRead,
                SensorCheck, SensorSend, SenderOnly
  <2>2. conn' = conn \/ (conn = "fin" /\ conn' \in Up)
    BY <1>5 DEF ClientStep, Sender, StreamLoop, StreamNoFile, StreamSend, SensorLook, SensorRead,
                SensorCheck, SensorSend, SenderLocal, Send, Up
  <2> QED BY <2>1, <2>2
<1>6. CASE ClientStep(Callback)
  <2>1. UNCHANGED <<kind, sending, xpc>>
    BY <1>6 DEF ClientStep, Callback, CallEmpty, AppCallback, RecordOpen, RecordClose,
                RecordJoined, PlaybackOpen, PlaybackData, PlaybackRead, PlaybackShort,
                PlaybackClose, UnknownCommand, SensorLock, SensorInsert, CbKeeps, CbEnds, Ends,
                TalkerOnly
  <2>2. CASE PlaybackRead \/ PlaybackShort
    <3>1. tpc = "payload" /\ (conn' = conn \/ conn' = "fin")
      BY <2>2 DEF PlaybackRead, RecvTake, Take, PlaybackShort, Short, Ends
    <3>2. conn' \in Up
      BY <3>1 DEF CInv, ConnState, Up
    <3> QED BY <2>1, <3>2
  <2>3. CASE ~(PlaybackRead \/ PlaybackShort)
    <3>1. UNCHANGED <<conn, inbox>>
      BY <1>6, <2>3 DEF ClientStep, Callback, CallEmpty, AppCallback, RecordOpen, RecordClose,
                  RecordJoined, PlaybackOpen, PlaybackData, PlaybackClose, UnknownCommand,
                  SensorLock, SensorInsert, CbKeeps, CbEnds, Ends
    <3> QED BY <2>1, <3>1
  <2> QED BY <2>2, <2>3
<1>7. CASE UNCHANGED vars
  BY <1>7 DEF vars, chanVars
<1> QED BY <1>1, <1>2, <1>3, <1>4, <1>5, <1>6, <1>7 DEF Next

(***************************************************************************)
(* The steps of the link.                                                  *)
(***************************************************************************)
Working == {"call", "payload", "join", "insert"}
Idle == {"none", "unconnected", "shut"}

SameLink ==
    \/ conn' = conn
    \/ conn \in Idle /\ conn' \in Idle
    \/ conn \in {"fin", "rst"} /\ conn' \in {"fin", "rst"}

SameQueue == MessagesIn(kind, inbox)' = MessagesIn(kind, inbox)

\* A talker that has returned stays so.
LEMMA OverStays ==
    ASSUME CInv, [Next]_vars, Over
    PROVE  Over'
<1>1. CASE UNCHANGED vars
  BY <1>1 DEF vars, chanVars, clientVars, talkerVars, Over, Running
<1>2. CASE Next
  <2>1. Running
    BY <1>2 DEF Next, ChannelStep, ClientStep
  <2>2. tpc = "exited"
    BY <2>1 DEF Over, CInv, ConnState
  <2>3. tpc' = "exited"
    <3>1. ~Talker
      BY <2>2 DEF Talker, Top, ConnectClose, ConnectSocket, ConnectResult, Throws, PollTimeout,
                  PollIn, PollFail, LoopCheck, CloseFlag, CloseShutdown, CloseRelease, RecvCtrl,
                  RecvTake, RecvCtrlShort
    <3>2. ~Callback
      BY <2>2 DEF Callback, CallEmpty, AppCallback, RecordOpen, RecordClose, RecordJoined,
                  PlaybackOpen, PlaybackData, PlaybackRead, RecvTake, PlaybackShort, PlaybackClose,
                  UnknownCommand, SensorLock, SensorInsert, Called
    <3>3. Vhal \/ RegisterCallback \/ Destroy \/ Join \/ Sender
      BY <1>2, <3>1, <3>2 DEF Next, ChannelStep, ClientStep
    <3>4. tpc' = tpc
      BY <3>3 DEF Vhal, VhalSend, VhalDeliver, VhalDrop, VhalUp, VhalRead, VhalOnly, talkerVars,
                  RegisterCallback, Destroy, Join, MainOnly, Sender, StreamLoop, StreamNoFile,
                  StreamSend, SensorLook, SensorRead, SensorCheck, SensorSend, SenderOnly
    <3> QED BY <2>2, <3>4
  <2> QED BY <2>3 DEF Over
<1> QED BY <1>1, <1>2

\* When the process, the talker or the object ends, the link does.
LEMMA EndStep == ASSUME Over' PROVE CL!End
BY DEF CL!End, linkOf, queueOf, runningOf

\* The link is what the connection says.
LEMMA LinkKept ==
    ASSUME CInv, ~Over, ~Over', SameLink
    PROVE  linkOf' = linkOf
<1>1. conn \in {"none", "unconnected", "shut", "open", "fin", "rst"}
  BY DEF CInv, ConnState, Up
<1>2. CASE conn \in Idle
  <2>1. linkOf = "down" /\ linkOf' = "down"
    BY <1>2 DEF linkOf, SameLink, Idle
  <2> QED BY <2>1
<1>3. CASE conn = "open"
  <2>1. linkOf = "up" /\ linkOf' = "up"
    BY <1>3 DEF linkOf, SameLink, Idle
  <2> QED BY <2>1
<1>4. CASE conn \in {"fin", "rst"}
  <2>1. linkOf = "dropped" /\ linkOf' = "dropped"
    BY <1>4 DEF linkOf, SameLink, Idle
  <2> QED BY <2>1
<1> QED BY <1>1, <1>2, <1>3, <1>4 DEF Idle

\* A step that leaves the connection, the messages and the callback alone.
LEMMA StutterStep ==
    ASSUME CInv, ~Over, ~Over', SameLink, SameQueue,
           \/ tpc \notin Working /\ tpc' \notin Working
           \/ tpc \in Working /\ tpc' \in Working /\ msg' = msg
    PROVE  UNCHANGED CL!lvars
<1>1. linkOf' = linkOf
  BY LinkKept
<1>2. queueOf' = queueOf
  BY DEF queueOf, SameQueue
<1>3. runningOf' = runningOf
  BY DEF runningOf, Working
<1> QED BY <1>1, <1>2, <1>3 DEF CL!lvars

\* The callback returns.
LEMMA ReturnStep ==
    ASSUME CInv, ~Over, ~Over', SameLink, SameQueue, tpc \in Working, tpc' \notin Working
    PROVE  CL!Return
<1>1. linkOf' = linkOf
  BY LinkKept
<1>2. queueOf' = queueOf
  BY DEF queueOf, SameQueue
<1>3. msg # "none"
  BY DEF CInv, Buffered, Working, Msgs, AudioMsgs, SensorMsgs, Types, Kinds
<1>4. runningOf = msg /\ runningOf' = "none"
  BY DEF runningOf, Working
<1> QED BY <1>1, <1>2, <1>3, <1>4 DEF CL!Return

\* How much is left to read.
LEMMA LeftFacts ==
    ASSUME NEW M, NEW o \in BOOLEAN, Buffered(M, o), tpc \in {"recv", "payload"}
    PROVE  Left \in {1, 2}
<1>1. \A u : Len(<<u>>) = 1
  OBVIOUS
<1>2. Len(buf) \in {0, 1}
  <2>1. buf = <<>> \/ \E u : buf = <<u>>
    BY DEF Buffered
  <2> QED BY <1>1, <2>1
<1>3. Left = 2 - Len(buf)
  BY UnitCount DEF Left, CtrlUnits, Buffered
<1>4. \A n \in {0, 1} : 2 - n \in {1, 2}
  OBVIOUS
<1> QED BY <1>2, <1>3, <1>4, Zenon

\* Only the second unit of a message ends one.
LEMMA UnitEnds ==
    ASSUME NEW k, NEW m
    PROVE  /\ \A i \in {1, 3, 4} : ~EndsMessage(k, [m |-> m, i |-> i])
           /\ EndsMessage(k, [m |-> m, i |-> 2]) <=> ~(k = "sensor" /\ ~IsValidCtrlPacket(m))
BY DEF EndsMessage, CtrlUnits

\* The talker reads a message, hands it to the callback or throws it away.
\* (Recv() into ctrl_msg and IsValidCtrlPacket)
LEMMA RecvLink ==
    ASSUME CInv, ~Over, ~Over', RecvCtrl, UNCHANGED clientVars
    PROVE  [CL!Next]_(CL!lvars)
<1>1. /\ tpc = "recv" /\ Take /\ conn \in Up /\ conn' = conn /\ kind' = kind
  BY DEF RecvCtrl, RecvTake, Take, TalkerOnly, fixedVars, CInv, ConnState
<1>2. PICK M, k, o : M = Msgs(kind) /\ k = kind /\ o = FALSE
  OBVIOUS
<1>3. /\ inbox \in Seq(UnitsOf(M)) /\ sending \in Seq(UnitsOf(M)) /\ "idle" \notin M
      /\ o \in BOOLEAN
  BY <1>2, NoIdle DEF CInv, Types
<1>4. Ahead(M, o) /\ Buffered(M, o)
  BY <1>2, Zenon DEF CInv
<1>5. Left \in {1, 2}
  BY <1>1, <1>3, <1>4, LeftFacts
<1>6. PICK m \in M :
        \/ /\ Len(Got) # Len(buf) + Left
           /\ Got = <<[m |-> m, i |-> 1]>> /\ Returned = Got
        \/ /\ Len(Got) = Len(buf) + Left
           /\ Got = <<[m |-> m, i |-> 1], [m |-> m, i |-> 2]>>
           /\ Returned = Got \/ Returned = <<[m |-> m, i |-> 2]>>
  <2>1. PICK E : E = UnitsOf(M)
    OBVIOUS
  <2> QED BY <1>1, <1>3, <1>4, <2>1, CtrlRead
<1> DEFINE a == [m |-> m, i |-> 1]
           b == [m |-> m, i |-> 2]
           valid == ~(k = "sensor" /\ ~IsValidCtrlPacket(m))
<1>7. /\ ~EndsMessage(k, a) /\ (EndsMessage(k, b) <=> valid) /\ a.m = m /\ b.m = m
  BY UnitEnds
<1> HIDE DEF a, b
<1>8. /\ inbox # <<>>
      /\ \A u : Returned = <<u>> => u = Head(inbox) /\ inbox' = Tail(inbox)
      /\ \A u, v : Returned = <<u, v>> =>
           /\ Tail(inbox) # <<>> /\ u = Head(inbox) /\ v = Head(Tail(inbox))
           /\ inbox' = Tail(Tail(inbox))
  <2>1. PICK E : E = UnitsOf(M)
    OBVIOUS
  <2> QED BY <1>1, <1>3, <1>5, <2>1, TakenUnits
<1>9. CASE Len(Got) # Len(buf) + Left /\ Got = <<a>> /\ Returned = Got
  <2>1. tpc' = "recv"
    BY <1>1, <1>9 DEF RecvCtrl, RecvTake
  <2>2. a = Head(inbox) /\ inbox' = Tail(inbox)
    BY <1>8, <1>9
  <2>3. MessagesIn(k, inbox') = MessagesIn(k, inbox)
    BY <1>3, <1>7, <1>8, <2>2, MessagesTail
  <2>4. SameQueue /\ SameLink
    BY <1>1, <1>2, <2>3 DEF SameQueue, SameLink
  <2> QED BY <1>1, <2>1, <2>4, StutterStep DEF Working
<1>10. CASE /\ Len(Got) = Len(buf) + Left /\ Got = <<a, b>>
            /\ Returned = Got \/ Returned = <<b>>
  <2>1. /\ ~valid => MessagesIn(k, inbox') = MessagesIn(k, inbox)
        /\ valid => /\ MessagesIn(k, inbox) # <<>> /\ Head(MessagesIn(k, inbox)) = m
                    /\ MessagesIn(k, inbox') = Tail(MessagesIn(k, inbox))
    <3>1. CASE Returned = <<b>>
      <4>1. b = Head(inbox) /\ inbox' = Tail(inbox)
        BY <1>8, <3>1
      <4>2. /\ ~valid => MessagesIn(k, Tail(inbox)) = MessagesIn(k, inbox)
            /\ valid => /\ MessagesIn(k, inbox) # <<>> /\ Head(MessagesIn(k, inbox)) = m
                        /\ MessagesIn(k, Tail(inbox)) = Tail(MessagesIn(k, inbox))
        BY <1>3, <1>7, <1>8, <4>1, MessagesTail
      <4> QED BY <4>1, <4>2
    <3>2. CASE Returned = <<a, b>>
      <4> DEFINE p == Tail(inbox)
      <4>1. p # <<>> /\ a = Head(inbox) /\ b = Head(p) /\ inbox' = Tail(p)
        BY <1>8, <3>2
      <4>2. p \in Seq(UnitsOf(M))
        BY <1>3, <1>8, HeadTailProperties
      <4>3. MessagesIn(k, p) = MessagesIn(k, inbox)
        BY <1>3, <1>7, <1>8, <4>1, MessagesTail
      <4> HIDE DEF p
      <4>4. /\ ~valid => MessagesIn(k, Tail(p)) = MessagesIn(k, p)
            /\ valid => /\ MessagesIn(k, p) # <<>> /\ Head(MessagesIn(k, p)) = m
                        /\ MessagesIn(k, Tail(p)) = Tail(MessagesIn(k, p))
        BY <1>7, <4>1, <4>2, MessagesTail
      <4> QED BY <4>1, <4>3, <4>4
    <3> QED BY <1>10, <3>1, <3>2
  <2>2. Got[1].m = m
    BY <1>7, <1>10
  <2>3. CASE ~valid
    <3>1. tpc' = "loop"
      BY <1>1, <1>2, <1>10, <2>2, <2>3 DEF RecvCtrl, RecvTake, Leave
    <3>2. SameQueue /\ SameLink
      BY <1>1, <1>2, <2>1, <2>3 DEF SameQueue, SameLink
    <3> QED BY <1>1, <3>1, <3>2, StutterStep DEF Working
  <2>4. CASE valid
    <3>1. tpc' = "call" /\ msg' = m
      BY <1>1, <1>2, <1>10, <2>2, <2>4 DEF RecvCtrl, RecvTake
    <3>2. linkOf' = linkOf
      BY <1>1, LinkKept DEF SameLink
    <3>3. linkOf \in {"up", "dropped"}
      BY <1>1 DEF linkOf, Up
    <3>4. runningOf = "none" /\ runningOf' = m
      BY <1>1, <3>1 DEF runningOf
    <3>5. queueOf = MessagesIn(k, inbox) /\ queueOf' = MessagesIn(k, inbox')
      BY <1>1, <1>2 DEF queueOf
    <3>6. CL!Deliver
      BY <2>1, <2>4, <3>2, <3>3, <3>4, <3>5 DEF CL!Deliver
    <3> QED BY <3>6 DEF CL!Next
  <2> QED BY <2>3, <2>4
<1> QED BY <1>6, <1>9, <1>10 DEF a, b

\* PCM data is no message.  (Recv() in ReadDataPacket)
LEMMA DataLink ==
    ASSUME CInv, ~Over, ~Over', PlaybackRead
    PROVE  [CL!Next]_(CL!lvars)
<1>1. /\ tpc = "payload" /\ Take /\ conn \in Up /\ conn' = conn /\ kind' = kind
  BY DEF PlaybackRead, RecvTake, Take, TalkerOnly, fixedVars, CInv, ConnState
<1>2. PICK M, k, o : M = Msgs(kind) /\ k = kind /\ o = FALSE
  OBVIOUS
<1>3. /\ inbox \in Seq(UnitsOf(M)) /\ sending \in Seq(UnitsOf(M)) /\ "idle" \notin M
      /\ o \in BOOLEAN
  BY <1>2, NoIdle DEF CInv, Types
<1>4. Ahead(M, o) /\ Buffered(M, o)
  BY <1>2, Zenon DEF CInv
<1>5. Left \in {1, 2}
  BY <1>1, <1>3, <1>4, LeftFacts
<1> DEFINE c == [m |-> msg, i |-> 3]
           d == [m |-> msg, i |-> 4]
<1>6. Returned = <<c>> \/ Returned = <<c, d>> \/ Returned = <<d>>
  <2>1. PICK E : E = UnitsOf(M)
    OBVIOUS
  <2> QED BY <1>1, <1>3, <1>4, <2>1, DataRead
<1>7. ~EndsMessage(k, c) /\ ~EndsMessage(k, d)
  <2>1. PICK m : m = msg
    OBVIOUS
  <2> QED BY <2>1, UnitEnds
<1> HIDE DEF c, d
<1>8. /\ inbox # <<>>
      /\ \A u : Returned = <<u>> => u = Head(inbox) /\ inbox' = Tail(inbox)
      /\ \A u, v : Returned = <<u, v>> =>
           /\ Tail(inbox) # <<>> /\ u = Head(inbox) /\ v = Head(Tail(inbox))
           /\ inbox' = Tail(Tail(inbox))
  <2>1. PICK E : E = UnitsOf(M)
    OBVIOUS
  <2> QED BY <1>1, <1>3, <1>5, <2>1, TakenUnits
<1>9. MessagesIn(k, inbox') = MessagesIn(k, inbox)
  <2>1. CASE Returned = <<c>> \/ Returned = <<d>>
    <3>1. ~EndsMessage(k, Head(inbox)) /\ inbox' = Tail(inbox)
      BY <1>7, <1>8, <2>1
    <3> QED BY <1>3, <1>8, <3>1, MessagesTail
  <2>2. CASE Returned = <<c, d>>
    <3> DEFINE p == Tail(inbox)
    <3>1. p # <<>> /\ c = Head(inbox) /\ d = Head(p) /\ inbox' = Tail(p)
      BY <1>8, <2>2
    <3>2. p \in Seq(UnitsOf(M))
      BY <1>3, <1>8, HeadTailProperties
    <3>3. MessagesIn(k, p) = MessagesIn(k, inbox)
      BY <1>3, <1>7, <1>8, <3>1, MessagesTail
    <3> HIDE DEF p
    <3>4. MessagesIn(k, Tail(p)) = MessagesIn(k, p)
      BY <1>7, <3>1, <3>2, MessagesTail
    <3> QED BY <3>1, <3>3, <3>4
  <2> QED BY <1>6, <2>1, <2>2
<1>10. SameQueue /\ SameLink
  BY <1>1, <1>2, <1>9 DEF SameQueue, SameLink
<1>11. tpc' = "loop" \/ (tpc' = "payload" /\ msg' = msg)
  BY <1>1 DEF PlaybackRead, RecvTake, Leave
<1>12. CASE tpc' = "loop"
  <2>1. CL!Return
    BY <1>1, <1>10, <1>12, ReturnStep DEF Working
  <2> QED BY <2>1 DEF CL!Next
<1>13. CASE tpc' = "payload" /\ msg' = msg
  BY <1>1, <1>10, <1>13, StutterStep DEF Working
<1> QED BY <1>11, <1>12, <1>13

\* The talker's steps: it connects, reads, and closes what the vHAL dropped.
LEMMA TalkerLink ==
    ASSUME CInv, LinkInv, ~Over, ~Over', Talker, UNCHANGED clientVars
    PROVE  [CL!Next]_(CL!lvars)
<1>0. status' = status /\ kind' = kind /\ xpc # "destroyed"
  <2>1. status' = status
    BY DEF Over, Running
  <2>2. kind' = kind
    BY DEF Talker, Top, ConnectClose, ConnectSocket, ConnectResult, Throws, Ends, PollTimeout,
           PollIn, PollFail, LoopCheck, CloseFlag, CloseShutdown, CloseRelease, RecvCtrl,
           RecvCtrlShort, TalkerOnly, fixedVars
  <2> QED BY <2>1, <2>2 DEF Over
<1>1. CASE Top \/ PollTimeout \/ PollIn \/ PollFail \/ LoopCheck \/ CloseFlag
           \/ ConnectClose \/ ConnectSocket \/ CloseRelease
  <2>1. tpc \notin Working /\ tpc' \notin Working /\ inbox' = inbox
    BY <1>1 DEF Top, PollTimeout, PollIn, PollFail, LoopCheck, CloseFlag, ConnectClose,
                ConnectSocket, CloseRelease, Goto, Working, sockVars
  <2>2. SameLink
    BY <1>1 DEF Top, PollTimeout, PollIn, PollFail, LoopCheck, CloseFlag, ConnectClose,
                ConnectSocket, CloseRelease, SameLink, Idle, sockVars, CInv, ConnState
  <2>3. SameQueue
    BY <1>0, <2>1 DEF SameQueue
  <2> QED BY <2>1, <2>2, <2>3, StutterStep
<1>2. CASE Throws
  BY <1>2 DEF Throws, Ends, Over, Running
<1>3. CASE ConnectResult
  <2>1. /\ tpc = "connecting" /\ tpc' \in {"poll", "top"} /\ conn = "unconnected" /\ inbox' = <<>>
        /\ conn' = IF srv THEN "open" ELSE conn
    BY <1>3 DEF ConnectResult, Goto, CInv, ConnState
  <2>2. inbox = <<>>
    BY <1>0, <2>1 DEF LinkInv, Up
  <2>3. SameQueue
    BY <1>0, <2>1, <2>2 DEF SameQueue
  <2>4. CASE srv
    <3>1. linkOf = "down" /\ linkOf' = "up" /\ runningOf = "none" /\ runningOf' = "none"
      BY <2>1, <2>4 DEF linkOf, runningOf
    <3>2. queueOf' = queueOf
      BY <2>3 DEF queueOf, SameQueue
    <3> QED BY <3>1, <3>2 DEF CL!Next, CL!Up
  <2>5. CASE ~srv
    BY <2>1, <2>3, <2>5, StutterStep DEF SameLink, Working
  <2> QED BY <2>4, <2>5
<1>4. CASE CloseShutdown
  <2>1. tpc = "shutdown" /\ tpc' = "release" /\ conn \in {"fin", "rst"} /\ conn' = "shut"
        /\ inbox' = <<>>
    BY <1>4 DEF CloseShutdown, Goto, CInv, ConnState
  <2>2. linkOf = "dropped" /\ linkOf' = "down" /\ runningOf = "none" /\ runningOf' = "none"
    BY <2>1 DEF linkOf, runningOf
  <2>3. queueOf' = <<>>
    BY <2>1, NoMessages DEF queueOf
  <2> QED BY <2>2, <2>3 DEF CL!Next, CL!Down
<1>5. CASE RecvCtrl
  BY <1>5, RecvLink
<1>6. CASE RecvCtrlShort
  <2>1. /\ tpc = "recv" /\ tpc' = "close" /\ inbox' = inbox
        /\ conn \in {"fin", "rst"} /\ conn' = "fin"
    BY <1>6 DEF RecvCtrlShort, Short, Leave
  <2>2. SameQueue
    BY <1>0, <2>1 DEF SameQueue
  <2> QED BY <2>1, <2>2, StutterStep DEF SameLink, Working
<1> QED BY <1>1, <1>2, <1>3, <1>4, <1>5, <1>6 DEF Talker

\* The callback returns, goes on to its next step or ends the process.
LEMMA CallbackLink ==
    ASSUME CInv, ~Over, ~Over', Callback
    PROVE  [CL!Next]_(CL!lvars)
<1>0. status' = status /\ status = "running"
  BY DEF Over, Running
<1>1. CASE PlaybackRead
  BY <1>1, DataLink
<1>2. CASE CallEmpty \/ RecordJoined \/ PlaybackClose \/ UnknownCommand
  BY <1>0, <1>2 DEF CallEmpty, RecordJoined, PlaybackClose, UnknownCommand, CbEnds, Ends
<1>3. CASE AppCallback \/ RecordOpen \/ PlaybackOpen \/ SensorInsert \/ PlaybackShort
  <2>1. tpc \in Working /\ tpc' \notin Working
    BY <1>0, <1>3 DEF AppCallback, RecordOpen, PlaybackOpen, SensorInsert, PlaybackShort, Called,
                CbEnds, Ends, Leave, Working
  <2>2. kind' = kind /\ inbox' = inbox
    BY <1>0, <1>3 DEF AppCallback, RecordOpen, PlaybackOpen, SensorInsert, PlaybackShort, Short,
                CbEnds, Ends, CbKeeps, TalkerOnly, fixedVars, sockVars
  <2>3. SameLink
    BY <1>0, <1>3 DEF AppCallback, RecordOpen, PlaybackOpen, SensorInsert, PlaybackShort, Short,
                CbEnds, Ends, CbKeeps, sockVars, SameLink
  <2>4. SameQueue
    BY <2>2 DEF SameQueue
  <2>5. CL!Return
    BY <2>1, <2>3, <2>4, ReturnStep
  <2> QED BY <2>5 DEF CL!Next
<1>4. CASE RecordClose \/ PlaybackData \/ SensorLock
  <2>1. tpc \in Working /\ tpc' \in Working /\ msg' = msg
    BY <1>0, <1>4 DEF RecordClose, PlaybackData, SensorLock, Called, CbEnds, Ends, Goto, Working
  <2>2. kind' = kind /\ inbox' = inbox /\ conn' = conn
    BY <1>0, <1>4 DEF RecordClose, PlaybackData, SensorLock, CbEnds, Ends, CbKeeps, TalkerOnly,
                fixedVars, sockVars
  <2>3. SameQueue /\ SameLink
    BY <2>2 DEF SameQueue, SameLink
  <2> QED BY <2>1, <2>3, StutterStep
<1> QED BY <1>1, <1>2, <1>3, <1>4 DEF Callback

\* main(), the destructor and the thread that sends.
LEMMA OthersLink ==
    ASSUME CInv, ~Over, ~Over', RegisterCallback \/ Destroy \/ Join \/ Sender
    PROVE  UNCHANGED CL!lvars
<1>1. CASE Join
  BY <1>1 DEF Join, Over
<1>2. CASE RegisterCallback \/ Destroy \/ Sender
  <2>1. UNCHANGED <<kind, inbox, tpc, msg>>
    BY <1>2 DEF RegisterCallback, Destroy, MainOnly, Sender, StreamLoop, StreamNoFile, StreamSend,
                SensorLook, SensorRead, SensorCheck, SensorSend, SenderOnly, talkerVars, fixedVars
  <2>2. SameLink
    BY <1>2 DEF RegisterCallback, Destroy, Sender, StreamLoop, StreamNoFile, StreamSend,
                SensorLook, SensorRead, SensorCheck, SensorSend, SenderLocal, Send, SameLink
  <2>3. SameQueue
    BY <2>1 DEF SameQueue
  <2> QED BY <2>1, <2>2, <2>3, StutterStep
<1> QED BY <1>1, <1>2

\* A packet sent whole is two units.
LEMMA PacketUnits ==
    ASSUME NEW m \in SensorMsgs
    PROVE  Units(m) = <<[m |-> m, i |-> 1], [m |-> m, i |-> 2]>>
<1>1. CtrlUnits + DataUnits(m) = 2 /\ CtrlUnits = 2
  BY UnitCount DEF CtrlUnits, SensorMsgs
<1>2. Units(m) \in Seq(UnitsOf(SensorMsgs)) /\ Len(Units(m)) = 2
  BY <1>1, UnitsOfMessage
<1>3. SubSeq(Units(m), 1, 2) = <<[m |-> m, i |-> 1], [m |-> m, i |-> 2]>>
  BY <1>1, CtrlOfMessage
<1>4. SubSeq(Units(m), 1, 2) = Units(m)
  BY <1>2, SubSeqFull
<1> QED BY <1>3, <1>4

\* The vHAL sends a message, a part of one, or drops the connection.
LEMMA VhalLink ==
    ASSUME CInv, LinkInv, ~Over, ~Over', Vhal, UNCHANGED clientVars
    PROVE  [CL!Next]_(CL!lvars)
<1>0. UNCHANGED <<kind, tpc, msg>>
  BY DEF Vhal, VhalSend, VhalDeliver, VhalDrop, VhalUp, VhalRead, VhalOnly, talkerVars, fixedVars
<1>1. PICK M, k : M = Msgs(kind) /\ k = kind
  OBVIOUS
<1>2. /\ inbox \in Seq(UnitsOf(M)) /\ sending \in Seq(UnitsOf(M))
      /\ M \subseteq AudioMsgs \cup SensorMsgs
  BY <1>1 DEF CInv, Types, Msgs
<1>3. runningOf' = runningOf
  BY <1>0 DEF runningOf
<1>4. queueOf = MessagesIn(k, inbox) /\ queueOf' = MessagesIn(k, inbox')
  BY <1>0, <1>1 DEF queueOf
<1>5. CASE VhalSend \/ VhalUp \/ VhalRead
  <2>1. conn' = conn /\ inbox' = inbox
    BY <1>5 DEF VhalSend, VhalUp, VhalRead
  <2>2. SameLink /\ SameQueue
    BY <1>0, <2>1 DEF SameLink, SameQueue
  <2> QED BY <1>0, <2>2, StutterStep
<1>6. CASE VhalDeliver
  <2>1. conn = "open" /\ conn' = conn /\ sending # <<>>
    BY <1>6 DEF VhalDeliver
  <2>2. linkOf = "up" /\ linkOf' = "up"
    BY <2>1 DEF linkOf
  <2>3. \/ MessagesIn(k, inbox') = MessagesIn(k, inbox)
        \/ \E c \in M : MessagesIn(k, inbox') = Append(MessagesIn(k, inbox), c)
    <3>1. CASE kind = "sensor"
      <4>1. inbox' = inbox \o sending /\ M = SensorMsgs
        BY <1>1, <1>6, <3>1 DEF VhalDeliver, Msgs
      <4>2. PICK m \in SensorMsgs : sending = Units(m)
        BY <2>1, <3>1 DEF LinkInv
      <4> DEFINE a == [m |-> m, i |-> 1]
                 b == [m |-> m, i |-> 2]
                 q == Append(inbox, a)
      <4>3. /\ a \in UnitsOf(M) /\ b \in UnitsOf(M) /\ ~EndsMessage(k, a) /\ b.m = m
            /\ sending = <<a, b>>
        <5>1. a \in UnitsOf(M) /\ b \in UnitsOf(M)
          <6>1. a \in [m : M, i : 1..4] /\ b \in [m : M, i : 1..4] /\ a.i = 1 /\ b.i = 2
            BY <4>1
          <6>2. a.m = m /\ b.m = m /\ CtrlUnits + DataUnits(m) \in {2, 4}
            BY UnitCount DEF CtrlUnits
          <6> HIDE DEF a, b
          <6> QED BY <6>1, <6>2 DEF UnitsOf
        <5>2. ~EndsMessage(k, a) /\ b.m = m
          BY UnitEnds
        <5>3. sending = <<a, b>>
          BY <4>2, PacketUnits
        <5> QED BY <5>1, <5>2, <5>3
      <4> HIDE DEF a, b
      <4>4. q \in Seq(UnitsOf(M)) /\ inbox' = Append(q, b)
        <5>1. q \in Seq(UnitsOf(M))
          BY <1>2, <4>3, AppendProperties
        <5>2. Head(<<a, b>>) = a /\ Tail(<<a, b>>) = <<b>> /\ <<a, b>> # <<>>
          OBVIOUS
        <5>3. q \o <<b>> = inbox \o <<a, b>>
          BY <1>2, <4>3, <5>2, MoveOne
        <5> HIDE DEF q
        <5>4. Append(q, b) = q \o <<b>>
          BY <4>3, <5>1, AppendIsConcat
        <5> QED BY <4>1, <4>3, <5>1, <5>3, <5>4
      <4>5. MessagesIn(k, q) = MessagesIn(k, inbox)
        BY <1>2, <4>3, MessagesAppend
      <4> HIDE DEF q
      <4>6. MessagesIn(k, Append(q, b)) = IF EndsMessage(k, b) THEN Append(MessagesIn(k, q), b.m)
                                                               ELSE MessagesIn(k, q)
        BY <4>3, <4>4, MessagesAppend
      <4>7. b.m \in M
        BY <4>1, <4>2, <4>3
      <4> QED BY <4>4, <4>5, <4>6, <4>7
    <3>2. CASE kind # "sensor"
      <4>1. inbox' = Append(inbox, Head(sending))
        BY <1>6, <3>2 DEF VhalDeliver
      <4>2. PICK u : u = Head(sending)
        OBVIOUS
      <4>3. u \in UnitsOf(M)
        BY <1>2, <2>1, <4>2, HeadTailProperties
      <4>4. MessagesIn(k, Append(inbox, u)) = IF EndsMessage(k, u)
                                                THEN Append(MessagesIn(k, inbox), u.m)
                                                ELSE MessagesIn(k, inbox)
        BY <1>2, <4>3, MessagesAppend
      <4>5. u.m \in M
        BY <4>3 DEF UnitsOf
      <4> QED BY <4>1, <4>2, <4>4, <4>5
    <3> QED BY <3>1, <3>2
  <2>4. CASE MessagesIn(k, inbox') = MessagesIn(k, inbox)
    BY <1>3, <1>4, <2>2, <2>4 DEF CL!lvars
  <2>5. ASSUME NEW c \in M, MessagesIn(k, inbox') = Append(MessagesIn(k, inbox), c)
        PROVE  CL!Next
    <3>1. CL!Send(c) /\ c \in AudioMsgs \cup SensorMsgs
      BY <1>2, <1>3, <1>4, <2>2, <2>5 DEF CL!Send
    <3> QED BY <3>1 DEF CL!Next
  <2> QED BY <2>3, <2>4, <2>5
<1>7. CASE VhalDrop
  <2>1. conn = "open" /\ conn' \in {"fin", "rst"}
    BY <1>7 DEF VhalDrop
  <2>2. linkOf = "up" /\ linkOf' = "dropped"
    BY <2>1 DEF linkOf
  <2>3. \E n \in 0..Len(inbox) : inbox' = SubSeq(inbox, 1, n)
    <3>1. CASE inbox' = inbox
      <4>1. PICK n : n = Len(inbox)
        OBVIOUS
      <4>2. n \in 0..Len(inbox) /\ inbox' = SubSeq(inbox, 1, n)
        BY <1>2, <3>1, <4>1, LenProperties, SubSeqFull
      <4> QED BY <4>2
    <3> QED BY <1>7, <3>1 DEF VhalDrop
  <2>4. CutFrom(MessagesIn(k, inbox'), MessagesIn(k, inbox))
    <3>1. PICK n \in 0..Len(inbox) : inbox' = SubSeq(inbox, 1, n)
      BY <2>3
    <3>2. CutFrom(MessagesIn(k, SubSeq(inbox, 1, n)), MessagesIn(k, inbox))
      BY <1>2, MessagesCut
    <3> QED BY <3>1, <3>2
  <2>5. CL!Drop
    BY <1>3, <1>4, <2>2, <2>4 DEF CL!Drop, CutFrom
  <2> QED BY <2>5 DEF CL!Next
<1> QED BY <1>5, <1>6, <1>7 DEF Vhal

\* Every step is one of CommandLink's, or none.
LEMMA StepImplements ==
    ASSUME CInv, LinkInv, [Next]_vars
    PROVE  [CL!Next]_(CL!lvars)
<1>1. CASE Over'
  <2>1. CL!End
    BY <1>1, EndStep
  <2> QED BY <2>1 DEF CL!Next
<1>2. CASE ~Over'
  <2>0. ~Over
    BY <1>2, OverStays
  <2>1. CASE ChannelStep(Talker)
    BY <1>2, <2>0, <2>1, TalkerLink DEF ChannelStep
  <2>2. CASE ChannelStep(Vhal)
    BY <1>2, <2>0, <2>2, VhalLink DEF ChannelStep
  <2>3. CASE ClientStep(RegisterCallback) \/ ClientStep(Destroy) \/ ClientStep(Join)
             \/ ClientStep(Sender)
    BY <1>2, <2>0, <2>3, OthersLink DEF ClientStep
  <2>4. CASE ClientStep(Callback)
    BY <1>2, <2>0, <2>4, CallbackLink DEF ClientStep
  <2>5. CASE UNCHANGED vars
    <3>1. UNCHANGED <<kind, inbox, conn, tpc, msg>>
      BY <2>5 DEF vars, chanVars, talkerVars, sockVars, fixedVars
    <3>2. SameLink /\ SameQueue
      BY <3>1 DEF SameLink, SameQueue
    <3> QED BY <1>2, <2>0, <3>1, <3>2, StutterStep
  <2> QED BY <2>1, <2>2, <2>3, <2>4, <2>5 DEF Next
<1> QED BY <1>1, <1>2

\* The three channels implement CommandLink, for every program, every number
\* of messages, drops and units on their way: control messages reach the
\* callback whole, in order, one at a time and at most once, whatever PCM data
\* lies between them, and a connection is given up only when the vHAL dropped
\* it.  (the talker's receive loop, ReadDataPacket() and Close())
THEOREM ChannelDelivers == Spec => DeliversMessages
<1>1. Init => CL!Init
  <2> SUFFICES ASSUME Init PROVE CL!Init
    OBVIOUS
  <2>1. /\ status = "running" /\ tpc = "top" /\ xpc = "idle" /\ conn = "none" /\ inbox = <<>>
    BY DEF Init, ChannelInit
  <2>2. ~Over
    BY <2>1 DEF Over, Running
  <2>3. queueOf = <<>>
    BY <2>1, <2>2, NoMessages DEF queueOf
  <2>4. linkOf = "down" /\ runningOf = "none"
    BY <2>1, <2>2 DEF linkOf, runningOf
  <2> QED BY <2>3, <2>4 DEF CL!Init
<1>2. Init => LinkInv
  BY DEF Init, ChannelInit, LinkInv
<1>3. CInv /\ LinkInv /\ [Next]_vars => LinkInv'
  BY NextLink
<1>4. CInv /\ LinkInv /\ [Next]_vars => [CL!Next]_(CL!lvars)
  BY StepImplements
<1> QED BY <1>1, <1>2, <1>3, <1>4, ChannelInvariance, PTL DEF Spec, DeliversMessages, CL!Spec
=============================================================================
