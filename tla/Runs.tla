-------------------------------- MODULE Runs --------------------------------
(***************************************************************************)
(* What is on its way in a pipe or a stream, and what it will do to whoever *)
(* reads it.  R is a set of triples <<state, event, next state>>; a        *)
(* sequence of events leads from one state to another when there is a run  *)
(* of R over it.  An invariant that says where the events on their way     *)
(* lead is inductive: reading takes the first step of the run away and     *)
(* writing adds one at its end.  A run is not computed, so that no         *)
(* induction over the sequence is needed.                                  *)
(***************************************************************************)
EXTENDS Integers, Sequences, FiniteSets, Selection,
        SequenceTheorems, FiniteSetTheorems, FunctionTheorems, WellFoundedInduction, TLAPS

\* h are the states between the events of q
IsRun(R, h, q) == \A i \in 1..Len(q) : <<h[i], q[i], h[i + 1]>> \in R

Leads(R, a, q, b) == \E h : IsRun(R, h, q) /\ h[1] = a /\ h[Len(q) + 1] = b

\* Without an event nothing changes.
LEMMA LeadsNowhere == \A R, a, b : Leads(R, a, <<>>, b) <=> a = b
<1> SUFFICES ASSUME NEW R, NEW a, NEW b PROVE Leads(R, a, <<>>, b) <=> a = b
  OBVIOUS
<1>1. ASSUME Leads(R, a, <<>>, b) PROVE a = b
  BY <1>1 DEF Leads
<1>2. ASSUME a = b PROVE Leads(R, a, <<>>, b)
  <2> DEFINE h == [i \in {1} |-> a]
  <2>1. IsRun(R, h, <<>>) /\ h[1] = a /\ h[Len(<<>>) + 1] = b
    BY <1>2 DEF IsRun
  <2> QED BY <2>1 DEF Leads
<1> QED BY <1>1, <1>2

\* One event is one step.
LEMMA LeadsByOne ==
    ASSUME NEW R, NEW a, NEW e, NEW b, <<a, e, b>> \in R
    PROVE  Leads(R, a, <<e>>, b)
<1> DEFINE h == [i \in {1, 2} |-> IF i = 1 THEN a ELSE b]
<1>1. IsRun(R, h, <<e>>)
  BY DEF IsRun
<1>2. h[1] = a /\ h[Len(<<e>>) + 1] = b
  OBVIOUS
<1> QED BY <1>1, <1>2 DEF Leads

\* The reader takes the first event.
LEMMA LeadsFirst ==
    ASSUME NEW R, NEW E, NEW q \in Seq(E), q # <<>>, NEW a, NEW c, Leads(R, a, q, c)
    PROVE  \E b : <<a, Head(q), b>> \in R /\ Leads(R, b, Tail(q), c)
<1>1. PICK h : IsRun(R, h, q) /\ h[1] = a /\ h[Len(q) + 1] = c
  BY DEF Leads
<1> DEFINE g == [i \in 1..Len(q) |-> h[i + 1]]
<1>2. /\ Len(q) \in Nat \ {0} /\ Len(Tail(q)) = Len(q) - 1 /\ Head(q) = q[1]
      /\ \A i \in 1..Len(Tail(q)) : Tail(q)[i] = q[i + 1]
  BY HeadTailProperties, EmptySeq
<1>3. <<a, Head(q), h[2]>> \in R
  BY <1>1, <1>2 DEF IsRun
<1>4. IsRun(R, g, Tail(q))
  <2> SUFFICES ASSUME NEW i \in 1..Len(Tail(q))
               PROVE  <<g[i], Tail(q)[i], g[i + 1]>> \in R
    BY DEF IsRun
  <2>1. /\ i \in 1..Len(q) /\ i + 1 \in 1..Len(q)
        /\ g[i] = h[i + 1] /\ g[i + 1] = h[(i + 1) + 1] /\ Tail(q)[i] = q[i + 1]
    BY <1>2
  <2> QED BY <1>1, <2>1 DEF IsRun
<1>5. g[1] = h[2] /\ g[Len(Tail(q)) + 1] = c
  BY <1>1, <1>2
<1>6. Leads(R, h[2], Tail(q), c)
  BY <1>4, <1>5 DEF Leads
<1> QED BY <1>3, <1>6

\* What is written goes behind what is on its way.
LEMMA LeadsOn ==
    ASSUME NEW R, NEW E, NEW p \in Seq(E), NEW q \in Seq(E), NEW a, NEW b, NEW c,
           Leads(R, a, p, b), Leads(R, b, q, c)
    PROVE  Leads(R, a, p \o q, c)
<1>1. PICK g : IsRun(R, g, p) /\ g[1] = a /\ g[Len(p) + 1] = b
  BY DEF Leads
<1>2. PICK h : IsRun(R, h, q) /\ h[1] = b /\ h[Len(q) + 1] = c
  BY DEF Leads
<1> DEFINE m == Len(p)
           n == Len(q)
           f == [i \in 1..(m + n + 1) |-> IF i <= m THEN g[i] ELSE h[i - m]]
<1>3. /\ m \in Nat /\ n \in Nat /\ Len(p \o q) = m + n
      /\ \A i \in 1..(m + n) : (p \o q)[i] = IF i <= m THEN p[i] ELSE q[i - m]
  BY LenProperties, ConcatProperties
<1> HIDE DEF m, n
<1>a. \A i \in 1..(m + n + 1) : f[i] = IF i <= m THEN g[i] ELSE h[i - m]
  OBVIOUS
<1> HIDE DEF f
<1>4. IsRun(R, f, p \o q)
  <2> SUFFICES ASSUME NEW i \in 1..(m + n)
               PROVE  <<f[i], (p \o q)[i], f[i + 1]>> \in R
    BY <1>3 DEF IsRun
  <2>0. /\ i \in Int /\ 1 <= i /\ i <= m + n
        /\ i \in 1..(m + n + 1) /\ i + 1 \in 1..(m + n + 1)
    BY <1>3
  <2>1. CASE i < m
    <3>1. i <= m /\ i + 1 <= m /\ i \in 1..m
      BY <1>3, <2>0, <2>1
    <3>2. f[i] = g[i] /\ f[i + 1] = g[i + 1] /\ (p \o q)[i] = p[i]
      BY <1>3, <1>a, <2>0, <3>1
    <3> QED BY <1>1, <3>1, <3>2 DEF IsRun, m
  <2>2. CASE i = m
    <3>1. i <= m /\ ~(i + 1 <= m) /\ i \in 1..m /\ (i + 1) - m = 1
      BY <1>3, <2>0, <2>2
    <3>2. f[i] = g[i] /\ f[i + 1] = h[1] /\ (p \o q)[i] = p[i]
      BY <1>3, <1>a, <2>0, <3>1
    <3>3. h[1] = g[i + 1]
      BY <1>1, <1>2, <2>2 DEF m
    <3> QED BY <1>1, <3>1, <3>2, <3>3 DEF IsRun, m
  <2>3. CASE i > m
    <3>1. ~(i <= m) /\ ~(i + 1 <= m) /\ i - m \in 1..n /\ (i + 1) - m = (i - m) + 1
      BY <1>3, <2>0, <2>3
    <3>2. f[i] = h[i - m] /\ f[i + 1] = h[(i - m) + 1] /\ (p \o q)[i] = q[i - m]
      BY <1>3, <1>a, <2>0, <3>1
    <3> QED BY <1>2, <3>1, <3>2 DEF IsRun, n
  <2>4. i < m \/ i = m \/ i > m
    BY <1>3, <2>0
  <2> QED BY <2>1, <2>2, <2>3, <2>4, Zenon
<1>5. f[1] = a
  <2>1. CASE m = 0
    BY <1>1, <1>2, <1>3, <1>a, <2>1 DEF m
  <2>2. CASE m > 0
    BY <1>1, <1>3, <1>a, <2>2
  <2> QED BY <1>3, <2>1, <2>2
<1>6. f[Len(p \o q) + 1] = c
  BY <1>2, <1>3, <1>a DEF n
<1> QED BY <1>4, <1>5, <1>6 DEF Leads

\* An event that is written goes behind what is on its way.
LEMMA LeadsByAppend ==
    ASSUME NEW R, NEW E, NEW q \in Seq(E), NEW e \in E, NEW a, NEW b, NEW c,
           Leads(R, a, q, b), <<b, e, c>> \in R
    PROVE  Leads(R, a, Append(q, e), c)
<1>1. Leads(R, b, <<e>>, c)
  BY LeadsByOne
<1>2. <<e>> \in Seq(E) /\ Append(q, e) = q \o <<e>>
  BY AppendIsConcat
<1> QED BY <1>1, <1>2, LeadsOn

\* What is lost at the end leaves a run over the rest.
LEMMA LeadsCut ==
    ASSUME NEW R, NEW E, NEW q \in Seq(E), NEW n \in 0..Len(q), NEW a, NEW c,
           Leads(R, a, q, c)
    PROVE  \E b : Leads(R, a, SubSeq(q, 1, n), b)
<1>1. PICK h : IsRun(R, h, q) /\ h[1] = a
  BY DEF Leads
<1>2. Len(q) \in Nat /\ \A i \in 1..n : q[i] \in E
  BY LenProperties, ElementOfSeq
<1>3. /\ Len(SubSeq(q, 1, n)) = n
      /\ \A i \in 1..n : SubSeq(q, 1, n)[i] = q[i]
  BY <1>2, SubSeqProperties
<1>4. IsRun(R, h, SubSeq(q, 1, n))
  BY <1>1, <1>2, <1>3 DEF IsRun
<1> QED BY <1>1, <1>4 DEF Leads

\* Every set of numbers that is not empty has a least one.
LEMMA LeastNumber ==
    ASSUME NEW T, T \subseteq Nat, T # {}
    PROVE  \E x \in T : \A y \in T : x <= y
<1> DEFINE R == OpToRel(<, Nat)
<1>1. IsWellFoundedOn(R, Nat)
  BY NatLessThanWellFounded
<1>2. \A x, y \in Nat : x < y => <<x, y>> \in R
  BY DEF OpToRel
<1> HIDE DEF R
<1>3. PICK x \in T : \A y \in T : ~(<<y, x>> \in R)
  BY <1>1, WFMin
<1>4. ASSUME NEW y \in T PROVE x <= y
  <2>1. x \in Nat /\ y \in Nat /\ ~(<<y, x>> \in R)
    BY <1>3, <1>4
  <2>2. ~(y < x)
    BY <1>2, <2>1
  <2> QED BY <2>1, <2>2
<1> QED BY <1>3, <1>4

\* Two events, one after the other.
LEMMA PairIsConcat ==
    ASSUME NEW E, NEW e \in E, NEW f \in E
    PROVE  /\ <<e>> \in Seq(E) /\ <<f>> \in Seq(E) /\ <<e, f>> \in Seq(E)
           /\ <<e, f>> = <<e>> \o <<f>>
<1>1. <<e>> \in Seq(E) /\ <<f>> \in Seq(E) /\ <<e, f>> \in Seq(E)
  OBVIOUS
<1>2. Append(<<e>>, f) = <<e>> \o <<f>>
  BY <1>1, AppendIsConcat
<1>3. Append(<<e>>, f) = <<e, f>>
  <2>1. Append(<<e>>, f) \in Seq(E) /\ Len(Append(<<e>>, f)) = Len(<<e, f>>)
    BY <1>1, AppendProperties
  <2>2. \A i \in 1..2 : Append(<<e>>, f)[i] = <<e, f>>[i]
    BY <1>1, AppendProperties
  <2>3. Len(<<e, f>>) = 2
    OBVIOUS
  <2> QED BY <1>1, <2>1, <2>2, <2>3, SeqEqual
<1> QED BY <1>1, <1>2, <1>3

\* An event that is moved from what is to be sent to what was sent stays at its
\* place.
LEMMA MoveOne ==
    ASSUME NEW E, NEW p \in Seq(E), NEW q \in Seq(E), q # <<>>
    PROVE  Append(p, Head(q)) \o Tail(q) = p \o q
<1>1. /\ Head(q) \in E /\ Tail(q) \in Seq(E) /\ Head(q) = q[1]
      /\ Len(q) \in Nat \ {0} /\ Len(Tail(q)) = Len(q) - 1
      /\ \A i \in 1..Len(Tail(q)) : Tail(q)[i] = q[i + 1]
  BY HeadTailProperties, EmptySeq
<1> DEFINE a == Append(p, Head(q))
           m == Len(p)
           n == Len(q)
<1>2. /\ a \in Seq(E) /\ Len(a) = m + 1 /\ m \in Nat
      /\ \A i \in 1..m : a[i] = p[i]
      /\ a[m + 1] = Head(q)
  BY <1>1, AppendProperties, LenProperties
<1>3. /\ p \o q \in Seq(E) /\ Len(p \o q) = m + n
      /\ \A i \in 1..(m + n) : (p \o q)[i] = IF i <= m THEN p[i] ELSE q[i - m]
  BY ConcatProperties
<1> HIDE DEF a
<1>4. /\ a \o Tail(q) \in Seq(E) /\ Len(a \o Tail(q)) = m + n
      /\ \A i \in 1..(m + n) :
           (a \o Tail(q))[i] = IF i <= m + 1 THEN a[i] ELSE Tail(q)[i - (m + 1)]
  <2>1. /\ a \o Tail(q) \in Seq(E) /\ Len(a \o Tail(q)) = Len(a) + Len(Tail(q))
        /\ \A i \in 1..(Len(a) + Len(Tail(q))) :
             (a \o Tail(q))[i] = IF i <= Len(a) THEN a[i] ELSE Tail(q)[i - Len(a)]
    BY <1>1, <1>2, ConcatProperties
  <2>2. Len(a) + Len(Tail(q)) = m + n
    BY <1>1, <1>2
  <2> QED BY <1>2, <2>1, <2>2
<1> HIDE DEF m, n
<1>5. ASSUME NEW i \in 1..(m + n) PROVE (a \o Tail(q))[i] = (p \o q)[i]
  <2>1. CASE i <= m
    BY <1>1, <1>2, <1>3, <1>4, <2>1
  <2>2. CASE i = m + 1
    <3>1. i - m = 1 /\ i <= m + 1 /\ ~(i <= m)
      BY <1>2, <2>2
    <3> QED BY <1>1, <1>2, <1>3, <1>4, <2>2, <3>1
  <2>3. CASE i > m + 1
    <3>1. ~(i <= m) /\ ~(i <= m + 1) /\ i - (m + 1) \in 1..Len(Tail(q))
          /\ (i - (m + 1)) + 1 = i - m
      BY <1>1, <1>2, <2>3 DEF n
    <3> QED BY <1>1, <1>3, <1>4, <3>1
  <2>4. i <= m \/ i = m + 1 \/ i > m + 1
    BY <1>1, <1>2
  <2> QED BY <2>1, <2>2, <2>3, <2>4, Zenon
<1> QED BY <1>3, <1>4, <1>5, SeqEqual DEF a

\* What is taken is the first of all that is on its way.
LEMMA TakeFirst ==
    ASSUME NEW E, NEW p \in Seq(E), NEW q \in Seq(E), p # <<>>
    PROVE  /\ p \o q \in Seq(E) /\ p \o q # <<>>
           /\ Head(p \o q) = Head(p) /\ Tail(p \o q) = Tail(p) \o q
<1> DEFINE m == Len(p)
           n == Len(q)
<1>1. /\ Head(p) \in E /\ Tail(p) \in Seq(E) /\ Head(p) = p[1]
      /\ m \in Nat \ {0} /\ n \in Nat /\ Len(Tail(p)) = m - 1
      /\ \A i \in 1..(m - 1) : Tail(p)[i] = p[i + 1]
  BY HeadTailProperties, EmptySeq, LenProperties
<1>2. /\ p \o q \in Seq(E) /\ Len(p \o q) = m + n
      /\ \A i \in 1..(m + n) : (p \o q)[i] = IF i <= m THEN p[i] ELSE q[i - m]
  BY ConcatProperties
<1>3. p \o q # <<>> /\ Head(p \o q) = p[1]
  <2>1. p \o q # <<>>
    BY <1>1, <1>2, EmptySeq
  <2>2. Head(p \o q) = (p \o q)[1]
    BY <1>2, <2>1, HeadTailProperties
  <2> QED BY <1>1, <1>2, <2>1, <2>2
<1>4. /\ Tail(p \o q) \in Seq(E) /\ Len(Tail(p \o q)) = m + n - 1
      /\ \A i \in 1..(m + n - 1) : Tail(p \o q)[i] = (p \o q)[i + 1]
  BY <1>2, <1>3, HeadTailProperties
<1>5. /\ Tail(p) \o q \in Seq(E) /\ Len(Tail(p) \o q) = (m - 1) + n
      /\ \A i \in 1..((m - 1) + n) :
           (Tail(p) \o q)[i] = IF i <= m - 1 THEN Tail(p)[i] ELSE q[i - (m - 1)]
  <2>1. /\ Tail(p) \o q \in Seq(E) /\ Len(Tail(p) \o q) = Len(Tail(p)) + n
        /\ \A i \in 1..(Len(Tail(p)) + n) :
             (Tail(p) \o q)[i] = IF i <= Len(Tail(p)) THEN Tail(p)[i] ELSE q[i - Len(Tail(p))]
    BY <1>1, ConcatProperties
  <2> QED BY <1>1, <2>1
<1> HIDE DEF m, n
<1>6. m + n - 1 = (m - 1) + n
  BY <1>1
<1>7. ASSUME NEW i \in 1..(m + n - 1) PROVE Tail(p \o q)[i] = (Tail(p) \o q)[i]
  <2>0. i + 1 \in 1..(m + n) /\ i \in 1..((m - 1) + n)
    BY <1>1
  <2>1. CASE i <= m - 1
    <3>1. i + 1 <= m /\ i \in 1..(m - 1)
      BY <1>1, <2>1
    <3> QED BY <1>1, <1>2, <1>4, <1>5, <2>0, <2>1, <3>1
  <2>2. CASE ~(i <= m - 1)
    <3>1. ~(i + 1 <= m) /\ (i + 1) - m = i - (m - 1)
      BY <1>1, <2>2
    <3> QED BY <1>2, <1>4, <1>5, <2>0, <2>2, <3>1
  <2> QED BY <2>1, <2>2
<1>8. Tail(p \o q) = Tail(p) \o q
  BY <1>4, <1>5, <1>6, <1>7, SeqEqual
<1> QED BY <1>1, <1>2, <1>3, <1>8

\* What is cut from the front of a stream.
LEMMA CutOfConcat ==
    ASSUME NEW E, NEW p \in Seq(E), NEW q \in Seq(E), NEW n \in 0..Len(p)
    PROVE  /\ p \o q \in Seq(E) /\ Len(p \o q) \in Nat /\ n \in 0..Len(p \o q)
           /\ SubSeq(p \o q, 1, n) = SubSeq(p, 1, n)
<1> DEFINE r == p \o q
           s == SubSeq(r, 1, n)
           t == SubSeq(p, 1, n)
<1>1. /\ r \in Seq(E) /\ Len(r) = Len(p) + Len(q) /\ Len(p) \in Nat /\ Len(q) \in Nat
      /\ \A i \in 1..Len(r) : r[i] = IF i <= Len(p) THEN p[i] ELSE q[i - Len(p)]
  BY ConcatProperties, LenProperties
<1> HIDE DEF r
<1>2. n \in Nat /\ n <= Len(p) /\ n \in 0..Len(r)
  BY <1>1
<1>3. \A i \in 1..n : i \in 1..Len(p) /\ i \in 1..Len(r) /\ i <= Len(p)
  BY <1>1, <1>2
<1>4. \A i \in 1..n : p[i] \in E /\ r[i] = p[i]
  BY <1>1, <1>3, ElementOfSeq
<1>5. s \in Seq(E) /\ Len(s) = n /\ \A i \in 1..n : s[i] = r[i]
  BY <1>1, <1>2, <1>4, SubSeqProperties
<1>6. t \in Seq(E) /\ Len(t) = n /\ \A i \in 1..n : t[i] = p[i]
  BY <1>1, <1>2, <1>4, SubSeqProperties
<1> HIDE DEF s, t
<1>7. s = t
  BY <1>4, <1>5, <1>6, SeqEqual
<1> QED BY <1>1, <1>2, <1>7 DEF r, s, t

\* What no event makes false is true all along a run.
LEMMA LeadsWithin ==
    ASSUME NEW R, NEW E, NEW q \in Seq(E), NEW a, NEW b, Leads(R, a, q, b),
           NEW P, a \in P, \A x, e, y : <<x, e, y>> \in R /\ x \in P => y \in P
    PROVE  b \in P
<1>1. PICK h : IsRun(R, h, q) /\ h[1] = a /\ h[Len(q) + 1] = b
  BY DEF Leads
<1> DEFINE n == Len(q)
           T == {i \in 1..(n + 1) : h[i] \notin P}
<1>2. n \in Nat
  BY LenProperties
<1> SUFFICES ASSUME b \notin P PROVE FALSE
  OBVIOUS
<1>3. T \subseteq Nat /\ n + 1 \in T
  BY <1>1, <1>2
<1>4. PICK x \in T : \A y \in T : x <= y
  <2> HIDE DEF T
  <2> QED BY <1>3, LeastNumber
<1>5. x \in 1..(n + 1) /\ h[x] \notin P /\ x # 1
  BY <1>1, <1>4
<1>6. x - 1 \in 1..n /\ x - 1 \in 1..(n + 1) /\ ~(x <= x - 1) /\ (x - 1) + 1 = x
  BY <1>2, <1>5
<1>7. h[x - 1] \in P
  BY <1>4, <1>6
<1>8. <<h[x - 1], q[x - 1], h[x]>> \in R
  BY <1>1, <1>6 DEF IsRun
<1> QED BY <1>5, <1>7, <1>8

(***************************************************************************)
(* The entries that count (module Selection), when the queue gets longer   *)
(* at its end, is read at its head, or loses its end.                      *)
(***************************************************************************)

\* positions in a queue of length n
Within(P, n) == \A e \in P : e \in 1..n

\* the entries at the positions: values in C, the same in f and g; the positions
\* up to one; the entries of a queue whose head was read
Into(f, P, C) == \A i \in P : f[i] \in C
Agree(f, g, P) == \A i \in P : g[i] = f[i]
UpTo(P, m) == {i \in P : i <= m}
Moved(f, P, g, Q) ==
    /\ \A i \in Nat : i >= 1 => (i \in Q <=> i + 1 \in P)
    /\ \A i \in Q : g[i] = f[i + 1]

\* Positions are finitely many, and so are those up to one of them.
LEMMA RankType ==
    ASSUME NEW n \in Nat, NEW P, Within(P, n)
    PROVE  /\ IsFiniteSet(P) /\ Cardinality(P) \in Nat
           /\ \A i \in Nat : IsFiniteSet({j \in P : j <= i}) /\ Rank(P, i) \in Nat
           /\ Rank(P, 0) = 0
           /\ \A i \in Nat : i >= n => Rank(P, i) = Cardinality(P)
<1>1. IsFiniteSet(P) /\ Cardinality(P) \in Nat
  <2>1. IsFiniteSet(1..n)
    BY FS_Interval
  <2>2. P \in SUBSET (1..n)
    BY DEF Within
  <2>3. IsFiniteSet(P)
    BY <2>1, <2>2, FS_Subset
  <2> QED BY <2>3, FS_CardinalityType
<1>2. ASSUME NEW i \in Nat
      PROVE  IsFiniteSet({j \in P : j <= i}) /\ Rank(P, i) \in Nat
  <2>1. {j \in P : j <= i} \in SUBSET P
    OBVIOUS
  <2> QED BY <1>1, <2>1, FS_Subset, FS_CardinalityType DEF Rank
<1>3. Rank(P, 0) = 0
  <2>1. {j \in P : j <= 0} = {}
    BY DEF Within
  <2> QED BY <2>1, FS_EmptySet DEF Rank
<1>4. ASSUME NEW i \in Nat, i >= n PROVE Rank(P, i) = Cardinality(P)
  <2>1. {j \in P : j <= i} = P
    BY <1>4 DEF Within
  <2> QED BY <2>1 DEF Rank
<1> QED BY <1>1, <1>2, <1>3, <1>4

\* The count goes up at the positions and nowhere else.
LEMMA RankStep ==
    ASSUME NEW n \in Nat, NEW P, Within(P, n), NEW i \in Nat
    PROVE  Rank(P, i + 1) = IF i + 1 \in P THEN Rank(P, i) + 1 ELSE Rank(P, i)
<1> DEFINE A == {j \in P : j <= i}
           B == {j \in P : j <= i + 1}
<1>1. IsFiniteSet(A) /\ Rank(P, i) = Cardinality(A) /\ Rank(P, i + 1) = Cardinality(B)
  BY RankType DEF Rank
<1>2. CASE i + 1 \in P
  <2>1. B = A \cup {i + 1} /\ i + 1 \notin A
    BY <1>2 DEF Within
  <2> HIDE DEF A, B
  <2> QED BY <1>1, <1>2, <2>1, FS_AddElement
<1>3. CASE i + 1 \notin P
  <2>1. B = A
    BY <1>3 DEF Within
  <2> QED BY <1>1, <1>3, <2>1
<1> QED BY <1>2, <1>3

\* Later positions have higher places.
LEMMA RankGrows ==
    ASSUME NEW n \in Nat, NEW P, Within(P, n), NEW i \in P, NEW j \in P, i < j
    PROVE  Rank(P, i) < Rank(P, j)
<1> DEFINE A == {x \in P : x <= i}
           B == {x \in P : x <= j}
<1>1. i \in Nat /\ j \in Nat
  BY DEF Within
<1>2. /\ IsFiniteSet(A) /\ Rank(P, i) = Cardinality(A) /\ Rank(P, i) \in Nat
      /\ IsFiniteSet(B) /\ Rank(P, j) = Cardinality(B) /\ Rank(P, j) \in Nat
  BY <1>1, RankType DEF Rank
<1>3. A \in SUBSET B /\ A # B
  <2>1. j \in B /\ j \notin A
    BY <1>1
  <2>2. ASSUME NEW x \in A PROVE x \in B
    BY <1>1, <2>2 DEF Within
  <2> QED BY <2>1, <2>2
<1> HIDE DEF A, B
<1>4. Cardinality(A) <= Cardinality(B) /\ Cardinality(A) # Cardinality(B)
  BY <1>2, <1>3, FS_Subset
<1> QED BY <1>2, <1>4

\* There is one entry at each place.
LEMMA NthFacts ==
    ASSUME NEW n \in Nat, NEW P, Within(P, n), NEW k \in 1..Cardinality(P)
    PROVE  /\ Nth(P, k) \in P /\ Rank(P, Nth(P, k)) = k
           /\ \A i \in P : Rank(P, i) = k => i = Nth(P, k)
<1>1. \E i \in P : Rank(P, i) = k
  <2> DEFINE T == {m \in Nat : Rank(P, m) >= k}
  <2>0. n >= n
    OBVIOUS
  <2>1. /\ Cardinality(P) \in Nat /\ Rank(P, n) = Cardinality(P) /\ Rank(P, 0) = 0
        /\ \A m \in Nat : Rank(P, m) \in Nat
    BY <2>0, RankType
  <2>2. n \in T /\ T \subseteq Nat
    BY <2>1
  <2>3. PICK m \in T : \A y \in T : m <= y
    <3> HIDE DEF T
    <3> QED BY <2>2, LeastNumber
  <2>4. m \in Nat /\ m # 0 /\ Rank(P, m) >= k
    BY <2>1, <2>3
  <2>5. m - 1 \in Nat /\ (m - 1) + 1 = m
    BY <2>4
  <2>6. Rank(P, m - 1) < k
    <3>1. m - 1 \notin T
      BY <2>3, <2>5
    <3> QED BY <2>1, <2>5, <3>1
  <2>7. Rank(P, m) = IF m \in P THEN Rank(P, m - 1) + 1 ELSE Rank(P, m - 1)
    BY <2>5, RankStep
  <2>8. Rank(P, m - 1) \in Nat
    BY <2>1, <2>5
  <2>9. m \in P /\ Rank(P, m) = k
    BY <2>4, <2>6, <2>7, <2>8
  <2> QED BY <2>9
<1>2. Nth(P, k) \in P /\ Rank(P, Nth(P, k)) = k
  BY <1>1 DEF Nth
<1>3. ASSUME NEW i \in P, Rank(P, i) = k PROVE i = Nth(P, k)
  <2>1. ~(i < Nth(P, k)) /\ ~(Nth(P, k) < i)
    <3>1. ASSUME NEW a \in P, NEW b \in P, a < b PROVE Rank(P, a) # Rank(P, b)
      <4>1. Rank(P, a) < Rank(P, b)
        BY <3>1, RankGrows
      <4>2. a \in Nat /\ b \in Nat
        BY DEF Within
      <4>3. Rank(P, a) \in Nat /\ Rank(P, b) \in Nat
        BY <4>2, RankType
      <4> QED BY <4>1, <4>3
    <3> QED BY <1>2, <1>3, <3>1
  <2> QED BY <1>2, <2>1 DEF Within
<1> QED BY <1>2, <1>3

\* The selection is a sequence of the entries.
LEMMA SelectedType ==
    ASSUME NEW n \in Nat, NEW P, Within(P, n), NEW f, NEW C, Into(f, P, C)
    PROVE  /\ Selected(f, P) \in Seq(C) /\ Len(Selected(f, P)) = Cardinality(P)
           /\ \A k \in 1..Cardinality(P) : Selected(f, P)[k] = f[Nth(P, k)]
<1>1. Cardinality(P) \in Nat
  BY RankType
<1>2. ASSUME NEW k \in 1..Cardinality(P) PROVE f[Nth(P, k)] \in C
  <2>1. Nth(P, k) \in P
    BY NthFacts
  <2> QED BY <2>1 DEF Into
<1>3. Selected(f, P) \in [1..Cardinality(P) -> C]
  BY <1>2 DEF Selected
<1>4. \A k \in 1..Cardinality(P) : Selected(f, P)[k] = f[Nth(P, k)]
  BY DEF Selected
<1> QED BY <1>1, <1>3, <1>4

\* Only the entries at the positions matter.
LEMMA SelectedSame ==
    ASSUME NEW n \in Nat, NEW P, Within(P, n), NEW f, NEW g, Agree(f, g, P)
    PROVE  Selected(f, P) = Selected(g, P)
<1>1. \A k \in 1..Cardinality(P) : f[Nth(P, k)] = g[Nth(P, k)]
  BY NthFacts DEF Agree
<1> QED BY <1>1 DEF Selected

\* Without a position nothing is selected.
LEMMA SelectedNone ==
    ASSUME NEW f
    PROVE  Selected(f, {}) = <<>>
<1>1. Selected(f, {}) = [k \in 1..0 |-> f[Nth({}, k)]]
  BY FS_EmptySet DEF Selected
<1> QED BY <1>1

\* An entry that counts joins the queue: the selection gets it at its end.
LEMMA SelectedAppend ==
    ASSUME NEW n \in Nat, NEW P, Within(P, n), NEW C, NEW f, NEW g,
           Into(f, P, C), Agree(f, g, P), g[n + 1] \in C, NEW Q, Q = P \cup {n + 1}
    PROVE  Selected(g, Q) = Append(Selected(f, P), g[n + 1])
<1> DEFINE c == Cardinality(P)
           s == Selected(f, P)
           t == Selected(g, Q)
<1>0. n + 1 \in Nat /\ n + 1 \notin P /\ Within(Q, n + 1)
  BY DEF Within
<1>1. c \in Nat /\ Cardinality(Q) = c + 1
  <2>1. IsFiniteSet(P) /\ c \in Nat
    BY RankType
  <2> QED BY <1>0, <2>1, FS_AddElement
<1> HIDE DEF c
<1>2. /\ s \in Seq(C) /\ Len(s) = c /\ \A k \in 1..c : s[k] = f[Nth(P, k)]
  BY SelectedType DEF c
<1>3. /\ t \in Seq(C) /\ Len(t) = c + 1 /\ \A k \in 1..(c + 1) : t[k] = g[Nth(Q, k)]
  <2>1. Into(g, Q, C)
    BY DEF Into, Agree
  <2>2. n + 1 \in Nat /\ Within(Q, n + 1)
    BY <1>0
  <2>3. /\ t \in Seq(C) /\ Len(t) = Cardinality(Q)
        /\ \A k \in 1..Cardinality(Q) : t[k] = g[Nth(Q, k)]
    BY ONLY <2>1, <2>2, SelectedType
  <2> QED BY <1>1, <2>3
<1> HIDE DEF s, t
<1>4. ASSUME NEW i \in P PROVE Rank(Q, i) = Rank(P, i)
  <2>1. {j \in Q : j <= i} = {j \in P : j <= i}
    BY DEF Within
  <2> QED BY <2>1 DEF Rank
<1>5. ASSUME NEW k \in 1..c PROVE t[k] = s[k]
  <2>1. Nth(P, k) \in P /\ Rank(P, Nth(P, k)) = k
    BY NthFacts DEF c
  <2>2. Nth(P, k) \in Q /\ Rank(Q, Nth(P, k)) = k /\ k \in 1..Cardinality(Q)
    BY <1>1, <1>4, <2>1
  <2>3. Nth(P, k) = Nth(Q, k)
    BY <1>0, <2>2, NthFacts
  <2>4. k \in 1..(c + 1)
    BY <1>1
  <2>5. t[k] = g[Nth(Q, k)] /\ s[k] = f[Nth(P, k)]
    BY ONLY k \in 1..c, <1>2, <1>3, <2>4
  <2> QED BY <2>1, <2>3, <2>5 DEF Agree
<1>6. t[c + 1] = g[n + 1]
  <2>1. n + 1 >= n + 1
    BY <1>0
  <2>2. Rank(Q, n + 1) = Cardinality(Q)
    BY <1>0, <2>1, RankType
  <2>3. n + 1 \in Q /\ c + 1 \in 1..Cardinality(Q)
    BY <1>1
  <2>4. n + 1 = Nth(Q, c + 1)
    BY <1>0, <1>1, <2>2, <2>3, NthFacts
  <2>5. c + 1 \in 1..(c + 1)
    BY <1>1
  <2>6. t[c + 1] = g[Nth(Q, c + 1)]
    BY ONLY <1>3, <2>5
  <2> QED BY <2>4, <2>6
<1>7. t = Append(s, g[n + 1])
  <2>1. /\ Append(s, g[n + 1]) \in Seq(C) /\ Len(Append(s, g[n + 1])) = c + 1
        /\ \A k \in 1..c : Append(s, g[n + 1])[k] = s[k]
        /\ Append(s, g[n + 1])[c + 1] = g[n + 1]
    BY <1>2, AppendProperties
  <2>2. \A k \in 1..(c + 1) : t[k] = Append(s, g[n + 1])[k]
    BY <1>1, <1>5, <1>6, <2>1
  <2> QED BY <1>3, <2>1, <2>2, SeqEqual
<1> QED BY <1>7 DEF s, t

\* The queue loses its end: so does the selection.
LEMMA SelectedPrefix ==
    ASSUME NEW n \in Nat, NEW P, Within(P, n), NEW C, NEW f, NEW g, NEW m \in Nat,
           NEW Q, Q = UpTo(P, m), Into(f, P, C), Agree(f, g, Q)
    PROVE  /\ Cardinality(Q) \in 0..Len(Selected(f, P))
           /\ Selected(g, Q) = SubSeq(Selected(f, P), 1, Cardinality(Q))
<1> DEFINE c == Cardinality(P)
           d == Cardinality(Q)
           s == Selected(f, P)
           t == Selected(g, Q)
<1>0. Within(Q, n) /\ \A i : i \in Q <=> i \in P /\ i <= m
  BY DEF Within, UpTo
<1>1. c \in Nat /\ d \in Nat /\ d <= c
  <2>1. Q \in SUBSET P
    BY DEF UpTo
  <2> QED BY <1>0, <2>1, RankType, FS_Subset
<1>2. /\ s \in Seq(C) /\ Len(s) = c /\ \A k \in 1..c : s[k] = f[Nth(P, k)]
  BY SelectedType
<1>3. /\ t \in Seq(C) /\ Len(t) = d /\ \A k \in 1..d : t[k] = g[Nth(Q, k)]
  <2>1. Into(g, Q, C)
    BY <1>0 DEF Into, Agree
  <2>2. Within(Q, n)
    BY <1>0
  <2> QED BY ONLY n \in Nat, <2>1, <2>2, SelectedType
<1>4. ASSUME NEW i \in Q PROVE Rank(Q, i) = Rank(P, i)
  <2>1. ASSUME NEW j PROVE j \in Q /\ j <= i <=> j \in P /\ j <= i
    BY <1>0 DEF Within
  <2>2. {j \in Q : j <= i} = {j \in P : j <= i}
    BY <2>1
  <2> QED BY <2>2 DEF Rank
<1>5. ASSUME NEW k \in 1..d PROVE t[k] = s[k]
  <2>1. Nth(Q, k) \in Q /\ Rank(Q, Nth(Q, k)) = k
    BY <1>0, NthFacts
  <2>2. Nth(Q, k) \in P /\ Rank(P, Nth(Q, k)) = k /\ k \in 1..Cardinality(P)
    BY <1>0, <1>1, <1>4, <2>1
  <2>3. Nth(Q, k) = Nth(P, k)
    BY <2>2, NthFacts
  <2>4. t[k] = g[Nth(Q, k)] /\ s[k] = f[Nth(P, k)]
    BY <1>1, <1>2, <1>3
  <2> QED BY <2>1, <2>3, <2>4 DEF Agree
<1> HIDE DEF c, d, s, t
<1>6. t = SubSeq(s, 1, d)
  <2>1. /\ SubSeq(s, 1, d) \in Seq(C) /\ Len(SubSeq(s, 1, d)) = d
        /\ \A k \in 1..d : SubSeq(s, 1, d)[k] = s[k]
    BY <1>1, <1>2, SubSeqProperties
  <2> QED BY <1>3, <1>5, <2>1, SeqEqual
<1> QED BY <1>1, <1>2, <1>6 DEF c, d, s, t

\* Moving a set of positions up by one keeps their number.
LEMMA ShiftedCount ==
    ASSUME NEW n \in Nat, NEW S, Within(S, n), NEW T, Within(T, n),
           \A i \in Nat : i >= 1 => (i \in T <=> i + 1 \in S), 1 \notin S
    PROVE  Cardinality(T) = Cardinality(S)
<1> DEFINE f == [i \in T |-> i + 1]
<1>1. \A i \in T : i \in Nat /\ i >= 1
  BY DEF Within
<1>2. f \in [T -> S]
  BY <1>1
<1>3. \A a, b \in T : f[a] = f[b] => a = b
  BY <1>1
<1>4. ASSUME NEW y \in S PROVE \E a \in T : f[a] = y
  <2>1. y \in Nat /\ y >= 1 /\ y # 1
    BY DEF Within
  <2>2. y - 1 \in Nat /\ y - 1 >= 1 /\ (y - 1) + 1 = y
    BY <2>1
  <2>3. y - 1 \in T
    BY <2>2
  <2> QED BY <2>2, <2>3
<1> HIDE DEF f
<1>5. f \in Bijection(T, S)
  BY <1>2, <1>3, <1>4, Fun_IsBij
<1>6. IsFiniteSet(T)
  BY RankType
<1> QED BY <1>5, <1>6, FS_Bijection DEF ExistsBijection

\* Reading the head of the queue: places go down by one when it counted.
LEMMA ShiftedRank ==
    ASSUME NEW n \in Nat, NEW P, Within(P, n), NEW Q, Within(Q, n),
           \A i \in Nat : i >= 1 => (i \in Q <=> i + 1 \in P),
           NEW d, d = IF 1 \in P THEN 1 ELSE 0
    PROVE  /\ Cardinality(P) = Cardinality(Q) + d
           /\ \A i \in Nat : Rank(P, i + 1) = Rank(Q, i) + d
<1> DEFINE D(i) == {j \in P : j <= i + 1}
           S(i) == D(i) \ {1}
           T(i) == {j \in Q : j <= i}
<1>1. ASSUME NEW i \in Nat PROVE Rank(P, i + 1) = Rank(Q, i) + d
  <2>1. IsFiniteSet(D(i)) /\ Rank(P, i + 1) = Cardinality(D(i)) /\ Rank(P, i + 1) \in Nat
    <3>1. i + 1 \in Nat
      OBVIOUS
    <3> QED BY <3>1, RankType DEF Rank
  <2>2. 1 \in D(i) <=> 1 \in P
    OBVIOUS
  <2>3. Cardinality(S(i)) = IF 1 \in P THEN Rank(P, i + 1) - 1 ELSE Rank(P, i + 1)
    <3> HIDE DEF D
    <3> QED BY <2>1, <2>2, FS_RemoveElement
  <2>4. Within(S(i), n) /\ Within(T(i), n) /\ 1 \notin S(i)
    BY DEF Within
  <2>5. ASSUME NEW j \in Nat, j >= 1 PROVE j \in T(i) <=> j + 1 \in S(i)
    BY <2>5
  <2>6. Cardinality(T(i)) = Cardinality(S(i))
    <3> HIDE DEF S, T
    <3> QED BY <2>4, <2>5, ShiftedCount
  <2>7. Rank(Q, i) = Cardinality(T(i))
    BY DEF Rank
  <2> HIDE DEF D, S, T
  <2> QED BY <2>1, <2>3, <2>6, <2>7
<1>2. n >= n /\ n + 1 >= n /\ n + 1 \in Nat
  OBVIOUS
<1>3. Rank(P, n + 1) = Cardinality(P) /\ Rank(Q, n) = Cardinality(Q)
  BY <1>2, RankType
<1> QED BY <1>1, <1>3

\* The head of the queue is read: when it counts, it is the head of the
\* selection, and otherwise the selection stays.
LEMMA SelectedTail ==
    ASSUME NEW n \in Nat, NEW P, Within(P, n), NEW Q, Within(Q, n),
           NEW C, NEW f, NEW g, Into(f, P, C), Moved(f, P, g, Q)
    PROVE  /\ 1 \notin P => Selected(g, Q) = Selected(f, P)
           /\ 1 \in P => /\ Selected(f, P) # <<>> /\ Head(Selected(f, P)) = f[1]
                         /\ Selected(g, Q) = Tail(Selected(f, P))
<1> DEFINE c == Cardinality(P)
           b == Cardinality(Q)
           d == IF 1 \in P THEN 1 ELSE 0
           s == Selected(f, P)
           t == Selected(g, Q)
<1>1. c \in Nat /\ b \in Nat /\ d \in Nat
  BY RankType
<1>2. c = b + d /\ \A i \in Nat : Rank(P, i + 1) = Rank(Q, i) + d
  <2>1. \A i \in Nat : i >= 1 => (i \in Q <=> i + 1 \in P)
    BY DEF Moved
  <2> QED BY <2>1, ShiftedRank
<1>3. /\ s \in Seq(C) /\ Len(s) = c /\ \A k \in 1..c : s[k] = f[Nth(P, k)]
  BY SelectedType
<1>4. ASSUME NEW i \in Q PROVE i \in Nat /\ i >= 1 /\ i + 1 \in P
  <2>1. i \in Nat /\ i >= 1
    BY DEF Within
  <2> QED BY <2>1 DEF Moved
<1>5. /\ t \in Seq(C) /\ Len(t) = b /\ \A k \in 1..b : t[k] = g[Nth(Q, k)]
  <2>1. Into(g, Q, C)
    BY <1>4 DEF Into, Moved
  <2> QED BY ONLY n \in Nat, Within(Q, n), <2>1, SelectedType
<1>6. ASSUME NEW k \in 1..b PROVE k + d \in 1..c /\ t[k] = s[k + d]
  <2>1. k + d \in 1..c
    BY <1>1, <1>2
  <2>2. Nth(Q, k) \in Q /\ Rank(Q, Nth(Q, k)) = k
    BY NthFacts
  <2>3. Nth(Q, k) \in Nat /\ Nth(Q, k) + 1 \in P
    BY <1>4, <2>2
  <2>4. Rank(P, Nth(Q, k) + 1) = k + d
    <3> HIDE DEF d
    <3> QED BY <1>2, <2>2, <2>3
  <2>5. Nth(Q, k) + 1 = Nth(P, k + d)
    <3> HIDE DEF d
    <3> QED BY <2>1, <2>3, <2>4, NthFacts
  <2>6. t[k] = g[Nth(Q, k)] /\ s[k + d] = f[Nth(P, k + d)]
    <3> HIDE DEF b, c, d, s, t
    <3> QED BY ONLY k \in 1..b, <1>3, <1>5, <2>1
  <2> QED BY <2>1, <2>2, <2>5, <2>6 DEF Moved
<1>7. CASE 1 \notin P
  <2>1. d = 0 /\ c = b
    BY <1>1, <1>2, <1>7
  <2>2. \A k \in 1..b : t[k] = s[k]
    <3> HIDE DEF b, c, d, s, t
    <3> QED BY <1>6, <2>1
  <2>3. t = s
    <3> HIDE DEF b, c, d, s, t
    <3> QED BY <1>3, <1>5, <2>1, <2>2, SeqEqual
  <2> QED BY <1>7, <2>3
<1>8. CASE 1 \in P
  <2>1. d = 1 /\ c = b + 1 /\ 1 \in 1..c
    BY <1>1, <1>2, <1>8
  <2>2. Rank(P, 1) = 1
    <3>1. Rank(P, 0 + 1) = Rank(P, 0) + 1
      BY <1>8, RankStep
    <3> QED BY <3>1, RankType
  <2>3. 1 = Nth(P, 1)
    BY <1>8, <2>1, <2>2, NthFacts
  <2>4. s[1] = f[1]
    <3> HIDE DEF b, c, d, s, t
    <3> QED BY ONLY <1>3, <2>1, <2>3
  <2>5. /\ s # <<>> /\ Head(s) = s[1] /\ Tail(s) \in Seq(C) /\ Len(Tail(s)) = b
        /\ \A k \in 1..b : Tail(s)[k] = s[k + 1]
    <3> HIDE DEF b, c, d, s, t
    <3> QED BY <1>1, <1>3, <2>1, HeadTailProperties, EmptySeq
  <2>6. \A k \in 1..b : t[k] = Tail(s)[k]
    <3> HIDE DEF b, c, d, s, t
    <3> QED BY <1>6, <2>1, <2>5
  <2>7. t = Tail(s)
    <3> HIDE DEF b, c, d, s, t
    <3> QED BY <1>5, <2>5, <2>6, SeqEqual
  <2> QED BY <1>8, <2>4, <2>5, <2>7
<1> QED BY <1>7, <1>8
=============================================================================
