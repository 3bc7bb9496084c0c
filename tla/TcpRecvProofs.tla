--------------------------- MODULE TcpRecvProofs ---------------------------
(***************************************************************************)
(* Theorems about TcpRecv, for every stream, every size of header and      *)
(* buffer, and every way the stream is cut into receives.  RecvInv is the  *)
(* inductive invariant; with it each step is shown to be one of            *)
(* FrameStream.                                                            *)
(***************************************************************************)
EXTENDS TcpRecv, TLAPS, SequenceTheorems, WellFoundedInduction

-----------------------------------------------------------------------------
(* Induction over the naturals, for a set: the library's rules for an      *)
(* arbitrary predicate are out of the provers' reach, its theorem on       *)
(* minimal elements is not.                                                *)

\* The order of the naturals as a set of pairs.
LEMMA Below ==
  ASSUME NEW x \in Nat, NEW y \in Nat, y < x
  PROVE  <<y, x>> \in OpToRel(<, Nat)
BY DEF OpToRel

\* A set of naturals that is not empty has a least element.
LEMMA LeastElement ==
  ASSUME NEW T \in SUBSET Nat, T # {}
  PROVE  \E x \in T : \A y \in T : x <= y
<1>1. PICK x \in T : \A y \in T : ~(<<y, x>> \in OpToRel(<, Nat))
  BY NatLessThanWellFounded, WFMin
<1>2. ASSUME NEW y \in T PROVE x <= y
  <2>1. x \in Nat /\ y \in Nat
    OBVIOUS
  <2>2. ~(y < x)
    BY <1>1, <2>1, Below, Zenon
  <2> QED
    BY <2>1, <2>2
<1> QED
  BY <1>2

\* A set that holds 0 and the successor of each of its elements is Nat.
LEMMA SetInduction ==
  ASSUME NEW T \in SUBSET Nat, 0 \in T, \A n \in T : n + 1 \in T
  PROVE  T = Nat
<1> SUFFICES ASSUME Nat \ T # {} PROVE FALSE
  OBVIOUS
<1>1. PICK x \in Nat \ T : \A y \in Nat \ T : x <= y
  BY LeastElement
<1>2. x - 1 \in Nat /\ x - 1 \in T
  BY <1>1
<1> QED
  BY <1>1, <1>2

-----------------------------------------------------------------------------
(* Positions of the stream and bytes of the buffer.                        *)

\* n positions from m on are a sequence of n numbers.
LEMMA PositionsSeq ==
  ASSUME NEW m \in Nat, NEW n \in Nat
  PROVE  /\ Positions(m, n) \in Seq(Nat)
         /\ Len(Positions(m, n)) = n
         /\ \A i \in 1..n : Positions(m, n)[i] = m + i
BY DEF Positions

\* Positions that follow each other.
LEMMA PositionsConcat ==
  ASSUME NEW m \in Nat, NEW a \in Nat, NEW b \in Nat
  PROVE  Positions(m, a) \o Positions(m + a, b) = Positions(m, a + b)
<1> DEFINE s == Positions(m, a)
           t == Positions(m + a, b)
           u == Positions(m, a + b)
<1>1. /\ s \in Seq(Nat) /\ Len(s) = a /\ \A i \in 1..a : s[i] = m + i
      /\ t \in Seq(Nat) /\ Len(t) = b /\ \A i \in 1..b : t[i] = m + a + i
      /\ u \in Seq(Nat) /\ Len(u) = a + b /\ \A i \in 1..(a + b) : u[i] = m + i
  <2>1. m + a \in Nat /\ a + b \in Nat
    OBVIOUS
  <2> QED
    BY <2>1, PositionsSeq
<1> HIDE DEF s, t, u
<1>2. /\ s \o t \in Seq(Nat) /\ Len(s \o t) = a + b
      /\ \A i \in 1..(a + b) : (s \o t)[i] = IF i <= a THEN s[i] ELSE t[i - a]
  <2>1. s \in Seq(Nat) /\ t \in Seq(Nat) /\ Len(s) = a /\ Len(t) = b
    BY <1>1
  <2>2. /\ s \o t \in Seq(Nat) /\ Len(s \o t) = Len(s) + Len(t)
        /\ \A i \in 1..(Len(s) + Len(t)) : (s \o t)[i] =
             IF i <= Len(s) THEN s[i] ELSE t[i - Len(s)]
    BY <2>1, ConcatProperties
  <2> QED
    BY <2>1, <2>2
<1>3. ASSUME NEW i \in 1..(a + b) PROVE (s \o t)[i] = u[i]
  <2>1. CASE i <= a
    BY <1>1, <1>2, <2>1
  <2>2. CASE ~(i <= a)
    <3>1. i - a \in 1..b
      BY <2>2
    <3>2. t[i - a] = m + a + (i - a)
      BY <1>1, <3>1
    <3>3. (s \o t)[i] = t[i - a]
      BY <1>2, <2>2
    <3>4. u[i] = m + i
      BY <1>1
    <3>5. m + a + (i - a) = m + i
      OBVIOUS
    <3> QED
      BY <3>2, <3>3, <3>4, <3>5
  <2> QED
    BY <2>1, <2>2
<1> QED
  BY <1>1, <1>2, <1>3, SeqEqual DEF s, t, u

\* The positions i+1 to j of a run of positions.
LEMMA PositionsSubSeq ==
  ASSUME NEW m \in Nat, NEW n \in Nat, NEW i \in Nat, NEW j \in i..n
  PROVE  SubSeq(Positions(m, n), i + 1, j) = Positions(m + i, j - i)
<1> DEFINE s == Positions(m, n)
           t == SubSeq(s, i + 1, j)
           u == Positions(m + i, j - i)
<1>1. /\ m + i \in Nat /\ j - i \in Nat
      /\ s \in Seq(Nat) /\ Len(s) = n /\ \A k \in 1..n : s[k] = m + k
  BY PositionsSeq
<1>2. u \in Seq(Nat) /\ Len(u) = j - i /\ \A k \in 1..(j - i) : u[k] = m + i + k
  BY <1>1, PositionsSeq
<1> HIDE DEF s, u
<1>3. /\ t \in Seq(Nat) /\ Len(t) = j - i
      /\ \A k \in 1..(j - i) : t[k] = s[i + k]
  BY <1>1
<1>4. \A k \in 1..(j - i) : t[k] = u[k]
  BY <1>1, <1>2, <1>3
<1> HIDE DEF t
<1> QED
  BY <1>2, <1>3, <1>4, SeqEqual DEF s, t, u

\* n entries of b from o on.
Window(b, o, n) == [i \in 1..n |-> b[o + i - 1]]

\* The n entries of b from o on are the positions from m on, one by one.
Runs(b, o, n, m) == \A i \in 0..(n - 1) : b[o + i] = m + 1 + i

\* The bytes of the buffer, one by one.
LEMMA WindowAt ==
  ASSUME NEW b, NEW o \in Nat, NEW n \in Nat, NEW m \in Nat
  PROVE  Window(b, o, n) = Positions(m, n) <=> Runs(b, o, n, m)
<1>1. ASSUME Window(b, o, n) = Positions(m, n), NEW i \in 0..(n - 1)
      PROVE  b[o + i] = m + 1 + i
  <2>1. i + 1 \in 1..n
    OBVIOUS
  <2>2. Window(b, o, n)[i + 1] = b[o + (i + 1) - 1]
    BY <2>1 DEF Window
  <2>3. Positions(m, n)[i + 1] = m + (i + 1)
    BY <2>1 DEF Positions
  <2>4. o + (i + 1) - 1 = o + i /\ m + (i + 1) = m + 1 + i
    OBVIOUS
  <2> QED
    BY <1>1, <2>2, <2>3, <2>4
<1>2. ASSUME Runs(b, o, n, m)
      PROVE  Window(b, o, n) = Positions(m, n)
  <2>1. ASSUME NEW j \in 1..n PROVE b[o + j - 1] = m + j
    <3>1. j - 1 \in 0..(n - 1) /\ o + (j - 1) = o + j - 1 /\ m + 1 + (j - 1) = m + j
      OBVIOUS
    <3> QED
      BY <1>2, <3>1 DEF Runs
  <2> QED
    BY <2>1 DEF Window, Positions
<1> QED
  BY <1>1, <1>2 DEF Runs

\* Every part of the n entries of b from o on is a run of positions.
PartsRun(b, o, n, m) ==
  \A i \in Nat, k \in Nat :
    i + k <= n => Window(b, o + i, k) = Positions(m + i, k)

\* A part of a run of positions is one.
LEMMA WindowPart ==
  ASSUME NEW b, NEW o \in Nat, NEW n \in Nat, NEW m \in Nat,
         Window(b, o, n) = Positions(m, n)
  PROVE  PartsRun(b, o, n, m)
<1> SUFFICES ASSUME NEW i \in Nat, NEW k \in Nat, i + k <= n
             PROVE  Window(b, o + i, k) = Positions(m + i, k)
  BY DEF PartsRun
<1> DEFINE p == o + i
           q == m + i
<1>1. \A j \in 0..(n - 1) : b[o + j] = m + 1 + j
  BY WindowAt DEF Runs
<1>2. p \in Nat /\ q \in Nat
  OBVIOUS
<1>3. ASSUME NEW j \in 0..(k - 1) PROVE b[p + j] = q + 1 + j
  <2>1. i + j \in 0..(n - 1) /\ o + (i + j) = p + j
        /\ m + 1 + (i + j) = q + 1 + j
    OBVIOUS
  <2> QED
    BY <1>1, <2>1
<1> HIDE DEF p, q
<1>4. Runs(b, p, k, q)
  BY <1>3 DEF Runs
<1>5. Window(b, p, k) = Positions(q, k)
  BY <1>2, <1>4, WindowAt
<1> QED
  BY <1>5 DEF p, q

\* And so is its beginning.
LEMMA WindowFirst ==
  ASSUME NEW b, NEW o \in Nat, NEW n \in Nat, NEW m \in Nat,
         Window(b, o, n) = Positions(m, n), NEW k \in 0..n
  PROVE  Window(b, o, k) = Positions(m, k)
<1>1. Runs(b, o, n, m)
  BY WindowAt
<1>2. k \in Nat /\ Runs(b, o, k, m)
  BY <1>1 DEF Runs
<1> QED
  BY <1>2, WindowAt

-----------------------------------------------------------------------------
(* Where the messages of a stream begin.                                   *)

\* The sums of a finite list of lengths exist, as a function.
LEMMA SumsExist ==
  ASSUME NEW n \in Nat, NEW w \in [1..n -> Nat]
  PROVE  \E f \in [1..(n + 1) -> Nat] :
           f[1] = 0 /\ \A k \in 1..n : f[k + 1] = f[k] + w[k]
<1> DEFINE Sums(m) == \E f \in [1..(m + 1) -> Nat] :
                        f[1] = 0 /\ \A k \in 1..m : f[k + 1] = f[k] + w[k]
<1>1. Sums(0)
  <2> DEFINE f == [k \in 1..(0 + 1) |-> 0]
  <2>1. f \in [1..(0 + 1) -> Nat] /\ f[1] = 0 /\ 1..0 = {}
    OBVIOUS
  <2> HIDE DEF f
  <2> QED
    BY <2>1
<1>2. ASSUME NEW m \in Nat, m + 1 <= n, Sums(m) PROVE Sums(m + 1)
  <2>1. PICK f \in [1..(m + 1) -> Nat] :
          f[1] = 0 /\ \A k \in 1..m : f[k + 1] = f[k] + w[k]
    BY <1>2
  <2> DEFINE g == [k \in 1..(m + 1 + 1) |->
                     IF k = m + 2 THEN f[m + 1] + w[m + 1] ELSE f[k]]
  <2>2. g \in [1..(m + 1 + 1) -> Nat]
    BY <1>2
  <2>3. g[1] = 0
    BY <1>2, <2>1
  <2>4. \A k \in 1..(m + 1) : g[k + 1] = g[k] + w[k]
    BY <1>2, <2>1
  <2> HIDE DEF g
  <2> QED
    BY <2>2, <2>3, <2>4
<1> HIDE DEF Sums
<1> DEFINE T == {m \in Nat : m <= n => Sums(m)}
<1>3. T = Nat
  <2>1. T \in SUBSET Nat /\ 0 \in T /\ \A m \in T : m + 1 \in T
    BY <1>1, <1>2
  <2> HIDE DEF T
  <2> QED
    BY <2>1, SetInduction
<1>4. Sums(n)
  BY <1>3
<1> QED
  BY <1>4 DEF Sums

\* How many bytes message k takes in the stream.
Width(k) == Header + (IF Frames!Good(k) THEN sizes[k] ELSE 0)

\* Each message begins where the one before it ends.
LEMMA StartNext ==
  ASSUME sizes \in Seq(Int)
  PROVE  /\ Frames!Start \in [1..(Len(sizes) + 1) -> Nat]
         /\ Frames!Start[1] = 0
         /\ \A k \in 1..Len(sizes) :
              /\ Width(k) \in Nat
              /\ Frames!Start[k + 1] = Frames!Start[k] + Width(k)
<1> DEFINE n == Len(sizes)
           w == [k \in 1..n |-> Width(k)]
<1>1. n \in Nat /\ w \in [1..n -> Nat] /\ \A k \in 1..n : Width(k) \in Nat
  BY TcpRecvAssumption DEF Width, Frames!Good
<1>2. PICK f \in [1..(n + 1) -> Nat] :
        f[1] = 0 /\ \A k \in 1..n : f[k + 1] = f[k] + w[k]
  BY <1>1, SumsExist
<1>3. f = [k \in 1..(Len(sizes) + 1) |->
             IF k = 1 THEN 0
             ELSE f[k - 1] + Header
                    + (IF Frames!Good(k - 1) THEN sizes[k - 1] ELSE 0)]
  <2>1. ASSUME NEW k \in 1..(n + 1), k # 1
        PROVE  f[k] = f[k - 1] + Header
                        + (IF Frames!Good(k - 1) THEN sizes[k - 1] ELSE 0)
    <3>1. k - 1 \in 1..n /\ (k - 1) + 1 = k
      BY <1>1, <2>1
    <3>2. f[k] = f[k - 1] + w[k - 1]
      BY <1>2, <3>1
    <3>3. w[k - 1] = Header + (IF Frames!Good(k - 1) THEN sizes[k - 1] ELSE 0)
      BY <3>1 DEF Width
    <3>4. f[k - 1] \in Nat
      BY <3>1
    <3>5. (IF Frames!Good(k - 1) THEN sizes[k - 1] ELSE 0) \in Int
      BY <3>1
    <3> QED
      BY <3>2, <3>3, <3>4, <3>5, TcpRecvAssumption
  <2> QED
    BY <1>2, <2>1
<1>4. Frames!Start = [k \in 1..(Len(sizes) + 1) |->
             IF k = 1 THEN 0
             ELSE Frames!Start[k - 1] + Header
                    + (IF Frames!Good(k - 1) THEN sizes[k - 1] ELSE 0)]
  BY <1>3 DEF Frames!Start
<1>5. /\ Frames!Start[1] = 0
      /\ DOMAIN Frames!Start = 1..(n + 1)
      /\ \A k \in 1..n : Frames!Start[k + 1] = Frames!Start[k] + Header
                           + (IF Frames!Good(k) THEN sizes[k] ELSE 0)
      /\ Frames!Start = [k \in 1..(n + 1) |-> Frames!Start[k]]
  <2>1. ASSUME NEW k \in 1..n
        PROVE  Frames!Start[k + 1] = Frames!Start[k] + Header
                                       + (IF Frames!Good(k) THEN sizes[k] ELSE 0)
    <3>1. k + 1 \in 1..(Len(sizes) + 1) /\ k + 1 # 1 /\ (k + 1) - 1 = k
      BY <1>1
    <3>2. Frames!Start[k + 1]
            = Frames!Start[(k + 1) - 1] + Header
                + (IF Frames!Good((k + 1) - 1) THEN sizes[(k + 1) - 1] ELSE 0)
      BY <1>4, <3>1
    <3> QED
      BY <3>1, <3>2
  <2>2. 1 \in 1..(Len(sizes) + 1)
    BY <1>1
  <2> QED
    BY <1>4, <2>1, <2>2
<1> DEFINE S == Frames!Start
           T == {m \in Nat : m <= n => S[m + 1] \in Nat}
<1>6. T = Nat
  <2>1. ASSUME NEW m \in Nat, m + 1 <= n, S[m + 1] \in Nat
        PROVE  S[m + 1 + 1] \in Nat
    <3>1. m + 1 \in 1..n
      BY <1>1, <2>1
    <3>2. Width(m + 1) \in Nat
      BY <1>1, <3>1
    <3>3. S[m + 1 + 1] = S[m + 1] + Header
                           + (IF Frames!Good(m + 1) THEN sizes[m + 1] ELSE 0)
      BY <1>5, <3>1
    <3>4. (IF Frames!Good(m + 1) THEN sizes[m + 1] ELSE 0) \in Int
      BY <3>1
    <3> QED
      BY <2>1, <3>2, <3>3, <3>4, TcpRecvAssumption DEF Width
  <2> HIDE DEF S
  <2>2. S[0 + 1] \in Nat
    BY <1>5 DEF S
  <2>3. T \in SUBSET Nat /\ 0 \in T /\ \A m \in T : m + 1 \in T
    BY <1>1, <2>1, <2>2
  <2> HIDE DEF T
  <2> QED
    BY <2>3, SetInduction
<1>7. ASSUME NEW k \in 1..(n + 1) PROVE S[k] \in Nat
  <2> HIDE DEF S
  <2>1. k - 1 \in Nat /\ k - 1 <= n /\ (k - 1) + 1 = k
    BY <1>1
  <2>2. k - 1 \in T
    BY <1>6, <2>1
  <2>3. S[(k - 1) + 1] \in Nat
    BY <2>1, <2>2
  <2> QED
    BY <2>1, <2>3
<1>8. Frames!Start \in [1..(n + 1) -> Nat]
  BY <1>5, <1>7
<1>9. ASSUME NEW k \in 1..n PROVE Frames!Start[k + 1] = Frames!Start[k] + Width(k)
  <2>1. Frames!Start[k] \in Nat
    BY <1>1, <1>7
  <2>2. Frames!Start[k + 1] = Frames!Start[k] + Header
                                + (IF Frames!Good(k) THEN sizes[k] ELSE 0)
    BY <1>5
  <2>3. sizes[k] \in Int
    OBVIOUS
  <2> DEFINE v == IF Frames!Good(k) THEN sizes[k] ELSE 0
  <2>4. v \in Int
    BY <2>3
  <2>5. Width(k) = Header + v
    BY DEF Width
  <2> HIDE DEF v
  <2> QED
    <3>1. Frames!Start[k + 1] = Frames!Start[k] + Header + v
      BY <2>2 DEF v
    <3> QED
      BY <2>1, <2>4, <2>5, <3>1, TcpRecvAssumption
<1> QED
  BY <1>1, <1>5, <1>8, <1>9

\* The messages do not overlap, so they begin at different places.
LEMMA StartOrder ==
  ASSUME sizes \in Seq(Int),
         NEW i \in 1..(Len(sizes) + 1), NEW j \in 1..(Len(sizes) + 1), i < j
  PROVE  Frames!Start[i] + Header <= Frames!Start[j]
<1> DEFINE n == Len(sizes)
           S == Frames!Start
           T == {m \in Nat : i + 1 + m <= n + 1 => S[i] + Header <= S[i + 1 + m]}
<1>1. /\ n \in Nat /\ S \in [1..(n + 1) -> Nat]
      /\ \A k \in 1..n : Width(k) \in Nat /\ S[k + 1] = S[k] + Width(k)
  BY StartNext
<1>2. \A k \in 1..n : Width(k) >= Header
  BY TcpRecvAssumption DEF Width, Frames!Good
<1> HIDE DEF S, n
<1>3. T = Nat
  <2>1. 0 \in T
    <3>0. i \in 1..n /\ i \in 1..(n + 1)
      BY <1>1 DEF n
    <3>1. i \in 1..n /\ S[i] \in Nat /\ Width(i) >= Header /\ Width(i) \in Nat
      BY <1>1, <1>2, <3>0
    <3>2. S[i + 1 + 0] = S[i] + Width(i)
      BY <1>1, <3>1
    <3> QED
      BY <3>1, <3>2, TcpRecvAssumption
  <2>2. ASSUME NEW m \in T PROVE m + 1 \in T
    <3> SUFFICES ASSUME i + 1 + (m + 1) <= n + 1
                 PROVE  S[i] + Header <= S[i + 1 + (m + 1)]
      OBVIOUS
    <3>1. i + 1 + m \in 1..n /\ i \in 1..(n + 1) /\ i + 1 + m \in 1..(n + 1)
      BY <1>1 DEF n
    <3>2. S[(i + 1 + m) + 1] = S[i + 1 + m] + Width(i + 1 + m)
      BY <1>1, <3>1
    <3>3. S[i + 1 + m] \in Nat /\ S[i] \in Nat /\ Width(i + 1 + m) \in Nat
      BY <1>1, <3>1
    <3>4. S[i] + Header <= S[i + 1 + m]
      BY <1>1, <2>2, <3>1
    <3>5. (i + 1 + m) + 1 = i + 1 + (m + 1)
      BY <2>2
    <3>6. S[i + 1 + m] <= S[(i + 1 + m) + 1]
      BY <3>2, <3>3
    <3>7. S[(i + 1 + m) + 1] \in Nat /\ Header \in Nat
      BY <3>2, <3>3, TcpRecvAssumption
    <3>8. S[i] + Header <= S[(i + 1 + m) + 1]
      BY <3>3, <3>4, <3>6, <3>7
    <3> QED
      BY <3>5, <3>8
  <2>3. T \in SUBSET Nat
    OBVIOUS
  <2> HIDE DEF T
  <2> QED
    BY <2>1, <2>2, <2>3, SetInduction
<1>4. j - i - 1 \in Nat /\ i + 1 + (j - i - 1) = j /\ j <= n + 1
  BY <1>1 DEF n
<1>5. S[i] + Header <= S[i + 1 + (j - i - 1)]
  BY <1>3, <1>4
<1> QED
  BY <1>4, <1>5 DEF S

-----------------------------------------------------------------------------
(* The concatenation of the events of a link without a template.           *)

\* What FlattenSeq computes, step by step.
Joined(s) ==
  CHOOSE f : f = [i \in 1..Len(s) |-> IF i = 1 THEN s[i] ELSE f[i - 1] \o s[i]]

\* f holds the first n of the steps.
Joins(f, s, n) ==
  \A i \in 1..n : f[i] = IF i = 1 THEN s[i] ELSE f[i - 1] \o s[i]

\* The steps are determined by the list.
LEMMA JoinedAgree ==
  ASSUME NEW n \in Nat, NEW s, NEW g, NEW h, Joins(g, s, n), Joins(h, s, n)
  PROVE  \A i \in 1..n : g[i] = h[i]
<1> USE DEF Joins
<1> DEFINE T == {m \in Nat : m + 1 <= n => g[m + 1] = h[m + 1]}
<1>1. 0 \in T
  BY 0 + 1 = 1
<1>2. ASSUME NEW m \in T PROVE m + 1 \in T
  <2> SUFFICES ASSUME m + 1 + 1 <= n PROVE g[m + 1 + 1] = h[m + 1 + 1]
    OBVIOUS
  <2>1. /\ m + 1 + 1 \in 1..n /\ m + 1 + 1 # 1 /\ (m + 1 + 1) - 1 = m + 1
        /\ g[m + 1] = h[m + 1]
    BY <1>2
  <2>2. g[m + 1 + 1] = g[(m + 1 + 1) - 1] \o s[m + 1 + 1]
    BY <2>1
  <2>3. h[m + 1 + 1] = h[(m + 1 + 1) - 1] \o s[m + 1 + 1]
    BY <2>1
  <2> QED
    BY <2>1, <2>2, <2>3
<1>3. T \in SUBSET Nat
  OBVIOUS
<1> HIDE DEF T
<1>4. T = Nat
  BY <1>1, <1>2, <1>3, SetInduction
<1>5. ASSUME NEW i \in 1..n PROVE g[i] = h[i]
  <2>1. i - 1 \in T /\ (i - 1) + 1 = i /\ (i - 1) + 1 <= n
    BY <1>4
  <2>2. g[(i - 1) + 1] = h[(i - 1) + 1]
    BY <2>1 DEF T
  <2> QED
    BY <2>1, <2>2
<1> QED
  BY <1>5

\* There are such steps.
LEMMA JoinedExists ==
  ASSUME NEW S, NEW s \in Seq(Seq(S))
  PROVE  \E f \in [1..Len(s) -> Seq(S)] :
           \A i \in 1..Len(s) : f[i] = IF i = 1 THEN s[i] ELSE f[i - 1] \o s[i]
<1> DEFINE J(m) == \E f \in [1..m -> Seq(S)] :
             \A i \in 1..m : f[i] = IF i = 1 THEN s[i] ELSE f[i - 1] \o s[i]
<1>1. J(0)
  <2> DEFINE f == [i \in 1..0 |-> <<>>]
  <2>1. f \in [1..0 -> Seq(S)] /\ 1..0 = {}
    OBVIOUS
  <2> HIDE DEF f
  <2> QED
    BY <2>1
<1>2. ASSUME NEW m \in Nat, m + 1 <= Len(s), J(m) PROVE J(m + 1)
  <2>1. PICK f \in [1..m -> Seq(S)] :
          \A i \in 1..m : f[i] = IF i = 1 THEN s[i] ELSE f[i - 1] \o s[i]
    BY <1>2
  <2> DEFINE v == IF m + 1 = 1 THEN s[m + 1] ELSE f[m] \o s[m + 1]
             g == [i \in 1..(m + 1) |-> IF i = m + 1 THEN v ELSE f[i]]
  <2>2. v \in Seq(S)
    <3>1. s[m + 1] \in Seq(S)
      BY <1>2
    <3>2. CASE m = 0
      BY <3>1, <3>2
    <3>3. CASE m # 0
      <4>1. m \in 1..m /\ f[m] \in Seq(S)
        BY <1>2, <3>3
      <4> QED
        BY <3>1, <3>3, <4>1, ConcatProperties
    <3> QED
      BY <3>2, <3>3
  <2> HIDE DEF v
  <2>3. g \in [1..(m + 1) -> Seq(S)]
    BY <1>2, <2>2
  <2>4. ASSUME NEW i \in 1..(m + 1)
        PROVE  g[i] = IF i = 1 THEN s[i] ELSE g[i - 1] \o s[i]
    <3>1. CASE i = m + 1
      <4>1. CASE i = 1
        BY <3>1, <4>1 DEF v
      <4>2. CASE i # 1
        <5>1. i - 1 \in 1..(m + 1) /\ i - 1 # m + 1 /\ i - 1 = m
          BY <1>2, <3>1, <4>2
        <5>2. g[i - 1] = f[m] /\ g[i] = v
          BY <3>1, <5>1
        <5> QED
          BY <3>1, <4>2, <5>2 DEF v
      <4> QED
        BY <4>1, <4>2
    <3>2. CASE i # m + 1
      <4>1. i \in 1..m /\ g[i] = f[i]
        BY <1>2, <3>2
      <4>2. i # 1 => i - 1 \in 1..(m + 1) /\ g[i - 1] = f[i - 1]
        BY <1>2, <4>1
      <4> QED
        BY <2>1, <4>1, <4>2
    <3> QED
      BY <3>1, <3>2
  <2> HIDE DEF g
  <2> QED
    BY <2>3, <2>4
<1> HIDE DEF J
<1> DEFINE T == {m \in Nat : m <= Len(s) => J(m)}
<1>3. T = Nat
  <2>1. T \in SUBSET Nat /\ 0 \in T /\ \A m \in T : m + 1 \in T
    BY <1>1, <1>2
  <2> HIDE DEF T
  <2> QED
    BY <2>1, SetInduction
<1>4. J(Len(s))
  BY <1>3
<1> QED
  BY <1>4 DEF J

\* So Joined is them.
LEMMA JoinedSteps ==
  ASSUME NEW S, NEW s \in Seq(Seq(S))
  PROVE  /\ \A i \in 1..Len(s) :
              /\ Joined(s)[i] \in Seq(S)
              /\ Joined(s)[i] = IF i = 1 THEN s[i] ELSE Joined(s)[i - 1] \o s[i]
<1>1. PICK f \in [1..Len(s) -> Seq(S)] :
        \A i \in 1..Len(s) : f[i] = IF i = 1 THEN s[i] ELSE f[i - 1] \o s[i]
  BY JoinedExists
<1>2. f = [i \in 1..Len(s) |-> IF i = 1 THEN s[i] ELSE f[i - 1] \o s[i]]
  BY <1>1
<1> DEFINE g == Joined(s)
<1>3. g = [i \in 1..Len(s) |-> IF i = 1 THEN s[i] ELSE g[i - 1] \o s[i]]
  BY <1>2 DEF Joined
<1> HIDE DEF g
<1>4. \A i \in 1..Len(s) : g[i] = IF i = 1 THEN s[i] ELSE g[i - 1] \o s[i]
  BY <1>3
<1>5. Len(s) \in Nat
  OBVIOUS
<1>6. \A i \in 1..Len(s) : f[i] = g[i]
  <2>1. Joins(f, s, Len(s)) /\ Joins(g, s, Len(s))
    BY <1>1, <1>4 DEF Joins
  <2> QED
    BY <1>5, <2>1, JoinedAgree
<1> QED
  BY <1>1, <1>4, <1>6 DEF g

\* One more event goes to the end of the concatenation.
LEMMA FlattenAppend ==
  ASSUME NEW S, NEW s \in Seq(Seq(S)), NEW x \in Seq(S)
  PROVE  FlattenSeq(Append(s, x)) = FlattenSeq(s) \o x
<1> DEFINE t == Append(s, x)
           n == Len(s)
<1>1. /\ t \in Seq(Seq(S)) /\ Len(t) = n + 1 /\ n \in Nat /\ t[n + 1] = x
      /\ \A i \in 1..n : t[i] = s[i]
  OBVIOUS
<1> HIDE DEF t
<1>2. FlattenSeq(t) = Joined(t)[n + 1]
  BY <1>1 DEF FlattenSeq, Joined
<1>3. Joined(t)[n + 1] = IF n + 1 = 1 THEN x ELSE Joined(t)[n] \o x
  <2>1. n + 1 \in 1..Len(t) /\ (n + 1) - 1 = n
    BY <1>1
  <2>2. Joined(t)[n + 1] = IF n + 1 = 1 THEN t[n + 1] ELSE Joined(t)[(n + 1) - 1] \o t[n + 1]
    BY <1>1, <2>1, JoinedSteps
  <2> QED
    BY <1>1, <2>1, <2>2
<1>4. CASE n = 0
  <2>1. s = <<>> /\ FlattenSeq(s) = <<>>
    BY <1>4 DEF FlattenSeq
  <2> QED
    BY <1>2, <1>3, <1>4, <2>1, ConcatEmptySeq DEF t
<1>5. CASE n # 0
  <2>1. FlattenSeq(s) = Joined(s)[n]
    BY <1>5 DEF FlattenSeq, Joined
  <2>2. \A i \in 1..n : Joined(t)[i] = Joined(s)[i]
    <3>1. \A i \in 1..n : Joined(s)[i] = IF i = 1 THEN s[i] ELSE Joined(s)[i - 1] \o s[i]
      BY JoinedSteps
    <3>2. \A i \in 1..n : Joined(t)[i] = IF i = 1 THEN t[i] ELSE Joined(t)[i - 1] \o t[i]
      <4>1. \A i \in 1..Len(t) :
              Joined(t)[i] = IF i = 1 THEN t[i] ELSE Joined(t)[i - 1] \o t[i]
        BY <1>1, JoinedSteps
      <4>2. \A i \in 1..n : i \in 1..Len(t)
        BY <1>1
      <4> QED
        BY <4>1, <4>2
    <3>3. Joins(Joined(s), s, n) /\ Joins(Joined(t), s, n)
      BY <1>1, <3>1, <3>2 DEF Joins
    <3> QED
      BY <1>1, <3>3, JoinedAgree
  <2>3. n \in 1..n /\ n + 1 # 1
    BY <1>1, <1>5
  <2> QED
    BY <1>2, <1>3, <2>1, <2>2, <2>3 DEF t
<1> QED
  BY <1>4, <1>5

-----------------------------------------------------------------------------
(* What the parser sees.                                                   *)

\* A header is recognised as the one of its message.
LEMMA HeaderSeen ==
  ASSUME sizes \in Seq(Int), NEW k \in 1..Len(sizes)
  PROVE  parser(Positions(Frames!Start[k], Header)) = sizes[k]
<1> DEFINE S == Frames!Start
           found == {j \in 1..Len(sizes) :
                       Positions(S[k], Header) = Positions(S[j], Header)}
<1>1. /\ Len(sizes) \in Nat /\ S \in [1..(Len(sizes) + 1) -> Nat]
      /\ Header \in Nat /\ 1 \in 1..Header
  BY StartNext, TcpRecvAssumption
<1>2. ASSUME NEW j \in found PROVE j = k
  <2>1. j \in 1..(Len(sizes) + 1) /\ k \in 1..(Len(sizes) + 1)
    BY <1>1
  <2>2. S[j] \in Nat /\ S[k] \in Nat
    BY <1>1, <2>1
  <2>3. Positions(S[k], Header)[1] = S[k] + 1 /\ Positions(S[j], Header)[1] = S[j] + 1
    BY <1>1, <2>2, PositionsSeq
  <2>4. S[j] = S[k]
    BY <2>2, <2>3
  <2>5. ~(j < k) /\ ~(k < j)
    <3>1. j < k => S[j] + Header <= S[k]
      BY <2>1, StartOrder
    <3>2. k < j => S[k] + Header <= S[j]
      BY <2>1, StartOrder
    <3> HIDE DEF S
    <3> QED
      BY <1>1, <2>2, <2>4, <3>1, <3>2
  <2> QED
    BY <2>1, <2>5
<1>3. found = {k}
  BY <1>2
<1>4. parser(Positions(S[k], Header))
        = IF found = {} THEN -1 ELSE sizes[CHOOSE j \in found : TRUE]
  BY DEF parser
<1> HIDE DEF found
<1>5. (CHOOSE j \in found : TRUE) = k
  BY <1>3
<1> QED
  BY <1>3, <1>4, <1>5

\* The types that the proofs use.
LEMMA Basics ==
  ASSUME RecvInv
  PROVE  /\ sizes \in Seq(Int)
         /\ Len(sizes) \in Nat
         /\ Header \in Nat /\ Header > 0 /\ Buffer \in Nat /\ Header <= Buffer
         /\ MaxUser \in Nat
         /\ rx \in Nat /\ rx <= Total /\ Total \in Int
         /\ irp \in Nat /\ size_for_req \in Nat /\ analyzed_offset \in Nat
         /\ useful \in Nat /\ offset \in Nat /\ size_for_translation \in Nat
         /\ Len(out) \in Nat /\ Due \in Nat /\ Due >= 1
         /\ Len(lb_data) \in Nat
         /\ buf \in [0..(Buffer - 1) -> Nat]
         /\ cb > 0 <=> cb = Header
         /\ cb = 0 \/ cb = Header
<1>1. sizes \in Seq(Int)
  BY TcpRecvAssumption, EmptySeq DEF RecvInv, TypeOK
<1>2. Total \in Int
  <2>1. Len(sizes) \in Nat /\ Len(sizes) + 1 \in 1..(Len(sizes) + 1)
    BY <1>1
  <2> QED
    BY <1>1, <2>1, StartNext, TcpRecvAssumption DEF Total, Frames!Total
<1> QED
  BY <1>1, <1>2, TcpRecvAssumption DEF RecvInv, TypeOK, Due

\* The message that is due begins within the stream.
LEMMA DueStarts ==
  ASSUME RecvInv, cb > 0
  PROVE  /\ Due \in 1..(Len(sizes) + 1)
         /\ From \in Nat
         /\ Due = Len(sizes) + 1 => From = Total
         /\ Due <= Len(sizes) => /\ Due \in 1..Len(sizes)
                                 /\ sizes[Due] \in Int
                                 /\ Frames!Start[Due + 1] = From + Width(Due)
<1>1. Due \in 1..(Len(sizes) + 1)
  BY Basics DEF RecvInv, Delivered, Due
<1>2. From \in Nat
  BY <1>1, Basics, StartNext DEF From
<1>3. Due = Len(sizes) + 1 => From = Total
  BY Basics DEF From, Total, Frames!Total
<1>4. ASSUME Due <= Len(sizes)
      PROVE  /\ Due \in 1..Len(sizes)
             /\ sizes[Due] \in Int
             /\ Frames!Start[Due + 1] = From + Width(Due)
  <2>1. Due \in 1..Len(sizes)
    BY <1>1, <1>4, Basics
  <2>2. sizes \in Seq(Int)
    BY Basics
  <2>3. \A k \in 1..Len(sizes) : Frames!Start[k + 1] = Frames!Start[k] + Width(k)
    BY <2>2, StartNext
  <2>4. Frames!Start[Due + 1] = From + Width(Due)
    BY <2>1, <2>3 DEF From
  <2> QED
    BY <2>1, <2>2, <2>4
<1> QED
  BY <1>1, <1>2, <1>3, <1>4

\* The parsing loop is at the header of the message that is due.
LEMMA LoopHeader ==
  ASSUME RecvInv, AtHeader
  PROVE  /\ cb = Header
         /\ Due \in 1..Len(sizes)
         /\ user_size = sizes[Due]
         /\ user_size \in Int
<1>1. /\ pc = "parse" /\ cb > 0 /\ cb = Header /\ useful >= Header
      /\ rx = From + useful /\ offset + useful <= Buffer
      /\ Window(buf, offset, useful) = Positions(From, useful)
  BY Basics DEF AtHeader, RecvInv, Parsing, Bytes, Window
<1>2. Due \in 1..Len(sizes)
  <2>1. /\ rx \in Nat /\ rx <= Total /\ useful \in Nat /\ Header > 0
        /\ Header \in Nat /\ Len(sizes) \in Nat
    BY Basics
  <2>2. /\ Due \in 1..(Len(sizes) + 1) /\ From \in Nat
        /\ Due = Len(sizes) + 1 => From = Total
    BY <1>1, DueStarts
  <2> QED
    BY <1>1, <2>1, <2>2
<1>3. Window(buf, offset, Header) = Positions(From, Header)
  <2>1. From \in Nat /\ Header \in 0..useful
    BY <1>1, Basics, DueStarts
  <2>2. /\ offset \in Nat /\ useful \in Nat /\ offset + useful <= Buffer
        /\ Window(buf, offset, useful) = Positions(From, useful)
    BY <1>1, Basics
  <2> QED
    BY <2>1, <2>2, WindowFirst
<1>4. user_size = parser(Positions(From, Header))
  BY <1>3 DEF user_size, Bytes, Window
<1>5. user_size = sizes[Due]
  BY <1>2, <1>4, Basics, HeaderSeen DEF From
<1> QED
  BY <1>1, <1>2, <1>5, Basics

\* The header of a large block is the one of the message that is due.
LEMMA BlockHeader ==
  ASSUME RecvInv, lb_data # <<>>
  PROVE  /\ cb = Header
         /\ Due \in 1..Len(sizes)
         /\ lb_length = sizes[Due] + Header
         /\ lb_acquire_size = lb_length - Len(lb_data)
         /\ lb_acquire_size \in Nat /\ lb_acquire_size > 0
<1>1. /\ cb > 0 /\ Due <= Len(sizes) /\ lb_length = sizes[Due] + Header
      /\ Len(lb_data) \in Header..(lb_length - 1)
      /\ lb_data = Positions(From, Len(lb_data))
  BY DEF RecvInv, Assembling
<1>2. cb = Header /\ Due \in 1..Len(sizes) /\ From \in Nat /\ sizes[Due] \in Int
  BY <1>1, Basics, DueStarts
<1>3. SubSeq(lb_data, 1, Header) = Positions(From, Header)
  <2>1. 0 \in Nat /\ Header \in 0..Len(lb_data) /\ Len(lb_data) \in Nat
    BY <1>1, Basics
  <2>2. SubSeq(Positions(From, Len(lb_data)), 0 + 1, Header) = Positions(From + 0, Header - 0)
    BY <1>2, <2>1, PositionsSubSeq
  <2>3. 0 + 1 = 1 /\ From + 0 = From /\ Header - 0 = Header
    BY <1>2, Basics
  <2> QED
    BY <1>1, <2>2, <2>3
<1>4. parser(SubSeq(lb_data, 1, Header)) = sizes[Due]
  BY <1>2, <1>3, Basics, HeaderSeen DEF From
<1>5. lb_acquire_size = sizes[Due] + Header - Len(lb_data)
  BY <1>4 DEF lb_acquire_size
<1>6. Len(lb_data) \in Nat /\ Header \in Nat
  BY Basics
<1> QED
  BY <1>1, <1>2, <1>5, <1>6

-----------------------------------------------------------------------------
(* Steps that leave the bytes alone.                                       *)

\* The stream is the peer's: no step of the link changes it.
LEMMA StartSame ==
  ASSUME UNCHANGED peervars
  PROVE  /\ Frames!Start' = Frames!Start
         /\ Total' = Total
         /\ \A k : Frames!Good(k)' <=> Frames!Good(k)
         /\ \A k : Payload(k)' = Payload(k)
<1>1. sizes' = sizes /\ cb' = cb /\ fully' = fully
  BY DEF peervars
<1>2. Frames!Start' = Frames!Start
  BY <1>1 DEF Frames!Start, Frames!Good
<1>3. Total' = Total
  BY <1>1, <1>2 DEF Total, Frames!Total
<1>4. \A k : Frames!Good(k)' <=> Frames!Good(k)
  BY <1>1 DEF Frames!Good
<1>5. \A k : Payload(k)' = Payload(k)
  BY <1>1, <1>2 DEF Payload, Positions
<1> QED
  BY <1>2, <1>3, <1>4, <1>5

\* A step that at most ends the dispatch, moves it on behind the parsing, or
\* releases the large block with the object.
StatusStep ==
  /\ UNCHANGED <<peervars, rx, buf, iovars, loopvars, out>>
  /\ lb_data' # <<>> => UNCHANGED lbvars
  /\ pc' \in {"lb", "parse"} => pc' = pc /\ lb_data' = lb_data
  /\ pc' \in {"post", "exit", "waiting"} =>
       /\ pc \in {"post", "exit", "waiting"}
       /\ lb_data' = lb_data \/ stat' = "unloaded"
       /\ stat = "unloaded" => stat' = "unloaded"
  /\ cb = 0 => (pc' = "parse" <=> pc = "parse")
  /\ lb_data' = <<>> \/ lb_data' = lb_data

\* Such a step keeps everything that is said about the bytes.
LEMMA StatusKeeps ==
  ASSUME RecvInv, StatusStep, TypeOK', References'
  PROVE  RecvInv'
<1>1. /\ cb' = cb /\ sizes' = sizes /\ fully' = fully /\ rx' = rx /\ buf' = buf
      /\ irp' = irp /\ size_for_req' = size_for_req
      /\ analyzed_offset' = analyzed_offset
      /\ size_for_translation' = size_for_translation
      /\ useful' = useful /\ offset' = offset /\ out' = out
  BY DEF StatusStep, peervars, iovars, loopvars
<1>2. /\ Frames!Start' = Frames!Start
      /\ \A k : Frames!Good(k)' <=> Frames!Good(k)
      /\ \A k : Payload(k)' = Payload(k)
  BY StartSame DEF StatusStep
<1>3. Due' = Due /\ From' = From
  BY <1>1, <1>2 DEF Due, From
<1>4. /\ \A k : Frames!Complete(k)' <=> Frames!Complete(k)
      /\ \A k : Frames!Refused(k)' <=> Frames!Refused(k)
  BY <1>1, <1>2 DEF Frames!Complete, Frames!Refused
<1>5. \A o, n : Bytes(o, n)' = Bytes(o, n)
  BY <1>1 DEF Bytes
<1>6. Requesting'
  BY <1>1 DEF RecvInv, Requesting, StatusStep
<1>7. Delivered'
  BY <1>1, <1>2 DEF RecvInv, Delivered
<1>8. Assembling'
  BY <1>1, <1>2, <1>3 DEF RecvInv, Assembling, StatusStep, lbvars, Positions
<1>9. Filling'
  BY <1>1, <1>3, <1>5 DEF RecvInv, Filling, StatusStep, Positions
<1>10. Parsing'
  BY <1>1, <1>3, <1>5 DEF RecvInv, Parsing, StatusStep, Positions
<1>11. Resting'
  BY <1>1, <1>3, <1>4, <1>5 DEF RecvInv, Resting, StatusStep, Positions
<1>12. Raw'
  BY <1>1, <1>5 DEF RecvInv, Raw, StatusStep, Positions
<1> QED
  BY <1>6, <1>7, <1>8, <1>9, <1>10, <1>11, <1>12 DEF RecvInv

\* Every step of the link's life that receives and parses nothing is one.
LEMMA StatusSteps ==
  ASSUME RecvInv,
         \/ Disconnected \/ ReceivedNoEntry
         \/ ParseRefused \/ ParseLargeNoMemory
         \/ PostRecv \/ PostFailed \/ Fail \/ Exit
         \/ tcp_destroy \/ DestroyReturns
         \/ UNCHANGED vars
  PROVE  StatusStep /\ TypeOK' /\ References'
<1> USE DEF peervars, linkvars, iovars, loopvars, lbvars
<1>0. TypeOK /\ References /\ Filling /\ Parsing
  BY DEF RecvInv
<1>t. ASSUME UNCHANGED <<peervars, rx, buf, iovars, loopvars, out>>,
             stat' \in {"normal", "closewait", "unloaded"},
             refs' \subseteq {"io", "user"},
             pc' \in {"waiting", "lb", "parse", "post", "fail", "exit", "over"},
             request' \in {"posted", "held", "freed"},
             lb_data' = lb_data \/ lb_data' = <<>>,
             lb_length' \in Nat
      PROVE  TypeOK'
  <2>1. Total' = Total
    BY <1>t, StartSame
  <2> QED
    BY <1>0, <1>t, <2>1, EmptySeq DEF TypeOK
<1>c. ASSUME NEW who, objclos(who)
      PROVE  /\ stat' \in {"closewait", "unloaded"} 
             /\ lb_data' = lb_data \/ lb_data' = <<>>
             /\ lb_length' \in Nat
             /\ lb_data' # <<>> => UNCHANGED lbvars
             /\ refs' = refs \ {who}
             /\ stat = "unloaded" => stat' = "unloaded"
             /\ stat' = "unloaded" => refs' = {}
             /\ lb_data' = lb_data \/ (stat' = "unloaded" /\ refs' = {})
  <2>0. refs' = refs \ {who} /\ (stat = "unloaded" => refs = {}) /\ lb_length \in Nat
        /\ stat \in {"normal", "closewait", "unloaded"}
    BY <1>0, <1>c DEF objclos, TypeOK, References
  <2>1. CASE stat # "unloaded" /\ refs' = {} /\ stat' = "unloaded" /\ ncb_unmark_lb
    BY <2>0, <2>1 DEF ncb_unmark_lb
  <2>2. CASE stat # "unloaded" /\ refs' # {} /\ stat' = "closewait" /\ UNCHANGED lbvars
    BY <2>0, <2>2
  <2>3. CASE stat = "unloaded" /\ UNCHANGED <<stat, lbvars>>
    <3>1. refs' = {}
      BY <2>0, <2>3
    <3> QED
      BY <2>0, <2>3, <3>1
  <2> QED
    BY <1>c, <2>1, <2>2, <2>3 DEF objclos
<1>1. CASE Disconnected
  <2>1. StatusStep
    BY <1>0, <1>1, <1>c DEF Disconnected, Completes, StatusStep
  <2>2. TypeOK'
    BY <1>0, <1>1, <1>c, <1>t DEF Disconnected, TypeOK
  <2>3. References'
    BY <1>0, <1>1, <1>c DEF Disconnected, Completes, References
  <2> QED
    BY <2>1, <2>2, <2>3
<1>2. CASE ReceivedNoEntry
  <2>1. StatusStep
    BY <1>0, <1>2 DEF ReceivedNoEntry, NoEntryWith, Completes, StatusStep
  <2>2. TypeOK'
    BY <1>0, <1>2, <1>t DEF ReceivedNoEntry, NoEntryWith, TypeOK
  <2>3. References'
    BY <1>0, <1>2 DEF ReceivedNoEntry, NoEntryWith, Completes, References
  <2> QED
    BY <2>1, <2>2, <2>3
<1>3. CASE ParseRefused
  <2>1. StatusStep
    BY <1>0, <1>3 DEF ParseRefused, ParseRefusedAbove, AtHeader, StatusStep
  <2>2. TypeOK'
    BY <1>0, <1>3, <1>t DEF ParseRefused, ParseRefusedAbove, TypeOK
  <2>3. References'
    BY <1>0, <1>3 DEF ParseRefused, ParseRefusedAbove, AtHeader, References
  <2> QED
    BY <2>1, <2>2, <2>3
<1>4. CASE ParseLargeNoMemory
  <2>0. pc = "parse" /\ cb > 0 /\ lb_data = <<>> /\ lb_length' \in Nat /\ cb # 0
    <3>1. /\ pc = "parse" /\ cb > 0 /\ user_size \in 0..MaxUser
          /\ lb_length' = user_size + cb
      BY <1>4 DEF ParseLargeNoMemory, Large, Accepted, AtHeader
    <3>2. cb \in Nat /\ MaxUser \in Nat
      BY <1>0, TcpRecvAssumption DEF TypeOK
    <3>3. lb_length' \in Nat /\ cb # 0
      BY <3>1, <3>2
    <3> QED
      BY <1>0, <3>1, <3>3 DEF Parsing
  <2>1. StatusStep
    BY <1>0, <1>4, <2>0 DEF ParseLargeNoMemory, StatusStep
  <2>2. TypeOK'
    BY <1>0, <1>4, <1>t, <2>0 DEF ParseLargeNoMemory, TypeOK
  <2>3. References'
    BY <1>0, <1>4, <2>0 DEF ParseLargeNoMemory, References
  <2> QED
    BY <2>1, <2>2, <2>3
<1>5. CASE PostRecv
  <2>1. StatusStep
    BY <1>0, <1>5 DEF PostRecv, StatusStep
  <2>2. TypeOK'
    BY <1>0, <1>5, <1>t DEF PostRecv, TypeOK
  <2>3. References'
    BY <1>0, <1>5 DEF PostRecv, References
  <2> QED
    BY <2>1, <2>2, <2>3
<1>6. CASE PostFailed
  <2>1. StatusStep
    BY <1>0, <1>6 DEF PostFailed, StatusStep
  <2>2. TypeOK'
    BY <1>0, <1>6, <1>t DEF PostFailed, TypeOK
  <2>3. References'
    BY <1>0, <1>6 DEF PostFailed, References
  <2> QED
    BY <2>1, <2>2, <2>3
<1>7. CASE Fail
  <2>1. StatusStep
    BY <1>0, <1>7, <1>c DEF Fail, StatusStep
  <2>2. TypeOK'
    BY <1>0, <1>7, <1>c, <1>t DEF Fail, TypeOK
  <2>3. References'
    BY <1>0, <1>7, <1>c DEF Fail, References
  <2> QED
    BY <2>1, <2>2, <2>3
<1>8. CASE Exit
  <2>1. CASE stat # "normal" /\ objclos("io")
    <3>1. StatusStep
      BY <1>0, <1>8, <1>c, <2>1 DEF Exit, StatusStep
    <3>2. TypeOK'
      BY <1>0, <1>8, <1>c, <1>t, <2>1 DEF Exit, TypeOK
    <3>3. References'
      BY <1>0, <1>8, <1>c, <2>1 DEF Exit, References
    <3> QED
      BY <3>1, <3>2, <3>3
  <2>2. CASE stat = "normal" /\ refs' = refs \ {"io"} /\ UNCHANGED <<stat, lbvars>>
    <3>1. StatusStep
      BY <1>0, <1>8, <2>2 DEF Exit, StatusStep
    <3>2. TypeOK'
      BY <1>0, <1>8, <1>t, <2>2 DEF Exit, TypeOK
    <3>3. References'
      BY <1>0, <1>8, <2>2 DEF Exit, References
    <3> QED
      BY <3>1, <3>2, <3>3
  <2> QED
    BY <1>8, <2>1, <2>2 DEF Exit
<1>9. CASE tcp_destroy
  <2>1. StatusStep
    BY <1>0, <1>9 DEF tcp_destroy, StatusStep
  <2>2. TypeOK'
    BY <1>0, <1>9, <1>t DEF tcp_destroy, TypeOK
  <2>3. References'
    BY <1>0, <1>9 DEF tcp_destroy, References
  <2> QED
    BY <2>1, <2>2, <2>3
<1>10. CASE DestroyReturns
  <2>0. pc \in {"lb", "parse"} => lb_data' = lb_data
    BY <1>0, <1>10, <1>c DEF DestroyReturns, References
  <2>1. StatusStep
    BY <1>0, <1>10, <1>c, <2>0 DEF DestroyReturns, StatusStep
  <2>2. TypeOK'
    BY <1>0, <1>10, <1>c, <1>t DEF DestroyReturns, TypeOK
  <2>3. References'
    BY <1>0, <1>10, <1>c DEF DestroyReturns, References
  <2> QED
    BY <2>1, <2>2, <2>3
<1>11. CASE UNCHANGED vars
  <2>1. StatusStep
    BY <1>0, <1>11 DEF vars, StatusStep
  <2>2. TypeOK'
    BY <1>0, <1>11, <1>t DEF vars, TypeOK
  <2>3. References'
    BY <1>0, <1>11 DEF vars, References
  <2> QED
    BY <2>1, <2>2, <2>3
<1> QED
  BY <1>1, <1>2, <1>3, <1>4, <1>5, <1>6, <1>7, <1>8, <1>9, <1>10, <1>11

-----------------------------------------------------------------------------
(* The completion of a receive.                                            *)

\* The system writes the next n bytes of the stream behind the bytes that the
\* buffer keeps, and nowhere else.
LEMMA BufferReceives ==
  ASSUME RecvInv, NEW n \in 1..size_for_req, Received(n)
  PROVE  /\ buf' \in [0..(Buffer - 1) -> Nat]
         /\ n \in Nat /\ irp + n <= Buffer
         /\ \A m \in Nat :
              (rx = m + irp /\ Window(buf, 0, irp) = Positions(m, irp))
                => Window(buf', 0, irp + n) = Positions(m, irp + n)
<1>1. /\ irp + size_for_req = Buffer /\ size_for_req \in Nat /\ irp \in Nat
      /\ Buffer \in Nat /\ rx \in Nat /\ buf \in [0..(Buffer - 1) -> Nat]
  BY Basics DEF RecvInv, Requesting
<1>2. n \in Nat /\ irp + n <= Buffer
  BY <1>1
<1>3. buf' = [i \in 0..(Buffer - 1) |->
               IF i \in irp..(irp + n - 1) THEN rx + 1 + i - irp ELSE buf[i]]
  BY DEF Received
<1>4. buf' \in [0..(Buffer - 1) -> Nat]
  BY <1>1, <1>2, <1>3
<1>5. ASSUME NEW m \in Nat, rx = m + irp,
             Window(buf, 0, irp) = Positions(m, irp)
      PROVE  Window(buf', 0, irp + n) = Positions(m, irp + n)
  <2>1. Runs(buf, 0, irp, m)
    BY <1>1, <1>5, WindowAt
  <2>2. ASSUME NEW i \in 0..(irp + n - 1) PROVE buf'[0 + i] = m + 1 + i
    <3>0. i \in 0..(Buffer - 1) /\ 0 + i = i
      BY <1>1, <1>2
    <3>1. CASE i \in 0..(irp - 1)
      <4>1. buf'[i] = buf[i]
        BY <1>1, <1>2, <1>3, <3>0, <3>1
      <4>2. buf[0 + i] = m + 1 + i
        BY <2>1, <3>1 DEF Runs
      <4> QED
        BY <3>0, <4>1, <4>2
    <3>2. CASE i \in irp..(irp + n - 1)
      <4>1. buf'[i] = rx + 1 + i - irp
        BY <1>3, <3>0, <3>2
      <4> QED
        BY <1>1, <1>5, <3>0, <4>1
    <3> QED
      BY <1>1, <1>2, <3>1, <3>2
  <2>3. Runs(buf', 0, irp + n, m) /\ irp + n \in Nat
    BY <1>1, <1>2, <2>2 DEF Runs
  <2> QED
    BY <2>3, WindowAt
<1> QED
  BY <1>2, <1>4, <1>5

\* What arrived goes on where the kept bytes end: it is the next part of the
\* large block, or the parsing begins at the message that is due.
LEMMA ReceivedKeeps ==
  ASSUME RecvInv, NEW n \in 1..size_for_req, Received(n)
  PROVE  RecvInv'
<1>1. /\ cb' = cb /\ sizes' = sizes /\ fully' = fully
      /\ irp' = irp /\ size_for_req' = size_for_req
      /\ analyzed_offset' = analyzed_offset /\ out' = out
      /\ lb_data' = lb_data /\ lb_length' = lb_length /\ stat' = stat
      /\ pc = "waiting" /\ request = "posted" /\ stat = "normal"
      /\ rx + n <= Total /\ rx' = rx + n
      /\ request' = "held" /\ refs' = refs \cup {"io"}
      /\ size_for_translation' = n /\ useful' = analyzed_offset + n
      /\ offset' = 0
      /\ pc' = IF ncb_lb_marked THEN "lb" ELSE "parse"
  BY DEF Received, Completes, peervars, iovars, lbvars
<1>2. /\ Frames!Start' = Frames!Start /\ Total' = Total
      /\ \A k : Frames!Good(k)' <=> Frames!Good(k)
      /\ \A k : Payload(k)' = Payload(k)
  BY StartSame DEF Received
<1>3. Due' = Due /\ From' = From
  BY <1>1, <1>2 DEF Due, From
<1>4. ncb_lb_marked <=> lb_data # <<>>
  <2>1. lb_data # <<>> => lb_length > Buffer
    BY DEF RecvInv, Assembling
  <2>2. lb_length \in Nat /\ Buffer \in Nat
    BY TcpRecvAssumption DEF RecvInv, TypeOK
  <2> QED
    BY <2>1, <2>2 DEF ncb_lb_marked
<1>5. /\ analyzed_offset = irp /\ irp + size_for_req = Buffer /\ irp \in Nat
      /\ lb_data # <<>> => irp = 0
      /\ rx \in Nat /\ Buffer \in Nat /\ size_for_req \in Nat
      /\ Len(lb_data) \in Nat /\ (cb > 0 <=> cb # 0) /\ Total \in Int
  <2>1. analyzed_offset = irp /\ irp + size_for_req = Buffer
    BY <1>1 DEF RecvInv, Requesting
  <2>2. lb_data # <<>> => irp = 0
    BY <1>1 DEF RecvInv, Requesting
  <2>3. /\ irp \in Nat /\ rx \in Nat /\ Buffer \in Nat /\ size_for_req \in Nat
        /\ Len(lb_data) \in Nat /\ (cb > 0 <=> cb # 0) /\ Total \in Int
    BY Basics
  <2> QED
    BY <2>1, <2>2, <2>3
<1>6. /\ buf' \in [0..(Buffer - 1) -> Nat] /\ n \in Nat /\ irp + n <= Buffer
  BY BufferReceives
<1>7. TypeOK'
  <2>1. rx' \in 0..Total'
    BY <1>1, <1>2, <1>5, <1>6
  <2>2. {size_for_translation', useful', offset'} \subseteq 0..Buffer
    BY <1>1, <1>5, <1>6
  <2> QED
    BY <1>1, <1>2, <1>6, <2>1, <2>2 DEF RecvInv, TypeOK
<1>8. References'
  BY <1>1 DEF RecvInv, References
<1>9. Requesting'
  BY <1>1 DEF RecvInv, Requesting
<1>10. Delivered'
  BY <1>1, <1>2 DEF RecvInv, Delivered
<1>11. Assembling'
  BY <1>1, <1>2, <1>3 DEF RecvInv, Assembling, Positions
<1>12. cb > 0 => /\ rx = From + Len(lb_data) + irp
                 /\ Window(buf, 0, irp) = Positions(From + Len(lb_data), irp)
                 /\ From \in Nat
  BY <1>1, DueStarts DEF RecvInv, Resting, Window, Bytes
<1>13. cb > 0 => Window(buf', 0, irp + n) = Positions(From + Len(lb_data), irp + n)
  <2> SUFFICES ASSUME cb > 0
               PROVE  Window(buf', 0, irp + n) = Positions(From + Len(lb_data), irp + n)
    OBVIOUS
  <2>1. From + Len(lb_data) \in Nat
    BY <1>5, <1>12
  <2> QED
    BY <1>12, <2>1, BufferReceives
<1>14. Filling'
  <2> SUFFICES ASSUME lb_data # <<>>
               PROVE  /\ rx' = From' + Len(lb_data') + size_for_translation'
                      /\ Bytes(0, size_for_translation)'
                           = Positions(From' + Len(lb_data'), size_for_translation')
    BY <1>1, <1>4 DEF Filling, Positions
  <2>1. cb > 0 /\ irp = 0 /\ irp + n = n
    BY <1>5, <1>6 DEF RecvInv, Assembling
  <2>2. Bytes(0, size_for_translation)' = Window(buf', 0, n)
    BY <1>1 DEF Bytes, Window
  <2>3. rx' = From + Len(lb_data) + n
    BY <1>1, <1>5, <1>6, <1>12, <2>1
  <2> QED
    BY <1>1, <1>3, <1>13, <2>1, <2>2, <2>3
<1>15. Parsing'
  <2> SUFFICES ASSUME lb_data = <<>>
               PROVE  /\ offset' + useful' <= Buffer
                      /\ cb > 0 => /\ rx' = From' + useful'
                                   /\ Bytes(offset, useful)' = Positions(From', useful')
    BY <1>1, <1>4 DEF Parsing, Positions
  <2>1. offset' + useful' <= Buffer /\ useful' = irp + n /\ useful' \in Nat
    BY <1>1, <1>5, <1>6
  <2>2. ASSUME cb > 0
        PROVE  /\ rx' = From' + useful'
               /\ Bytes(offset, useful)' = Positions(From', useful')
    <3>1. Len(lb_data) = 0 /\ From \in Nat /\ From + Len(lb_data) = From
      BY <1>12, <2>2
    <3>2. Bytes(offset, useful)' = Window(buf', 0, irp + n)
      BY <1>1, <2>1 DEF Bytes, Window
    <3>3. rx' = From + useful'
      BY <1>1, <1>5, <1>6, <1>12, <2>1, <2>2, <3>1
    <3> QED
      BY <1>3, <1>13, <2>1, <2>2, <3>1, <3>2, <3>3
  <2> QED
    BY <2>1, <2>2
<1>16. Resting'
  BY <1>1 DEF Resting
<1>17. Raw'
  <2> SUFFICES ASSUME cb = 0
               PROVE  /\ pc' = "parse"
                      /\ sizes = <<>> /\ irp = 0 /\ lb_data = <<>>
                      /\ useful' <= rx'
                      /\ Bytes(0, useful)' = Positions(rx' - useful', useful')
                      /\ FlattenSeq(out) = Positions(0, rx' - useful')
    BY <1>1 DEF Raw, Positions
  <2>1. /\ sizes = <<>> /\ irp = 0 /\ lb_data = <<>> /\ pc' = "parse"
        /\ FlattenSeq(out) = Positions(0, rx)
    BY <1>1, <1>4 DEF RecvInv, Raw
  <2>2. useful' = n /\ rx' - useful' = rx /\ useful' <= rx' /\ irp + n = n
    BY <1>1, <1>5, <1>6, <2>1
  <2>3. Window(buf, 0, irp) = Positions(rx, irp) /\ rx = rx + irp
    BY <1>5, <2>1 DEF Window, Positions
  <2>4. Window(buf', 0, irp + n) = Positions(rx, irp + n)
    BY <1>5, <2>3, BufferReceives
  <2>5. Bytes(0, useful)' = Window(buf', 0, n)
    BY <2>2 DEF Bytes, Window
  <2> QED
    BY <2>1, <2>2, <2>4, <2>5
<1> QED
  BY <1>7, <1>8, <1>9, <1>10, <1>11, <1>14, <1>15, <1>16, <1>17 DEF RecvInv

-----------------------------------------------------------------------------
(* Facts shared by the steps that copy, deliver or stop.                   *)

\* memmove brings n bytes from o to the front of the buffer.
LEMMA Moved ==
  ASSUME RecvInv, NEW o \in Nat, NEW n \in Nat, o + n <= Buffer, memmove(o, n),
         NEW m \in Nat, Window(buf, o, n) = Positions(m, n)
  PROVE  /\ buf' \in [0..(Buffer - 1) -> Nat]
         /\ Window(buf', 0, n) = Positions(m, n)
<1>1. Buffer \in Nat /\ buf \in [0..(Buffer - 1) -> Nat]
  BY Basics
<1>2. buf' = [i \in 0..(Buffer - 1) |-> IF i < n THEN buf[o + i] ELSE buf[i]]
  BY DEF memmove
<1>3. buf' \in [0..(Buffer - 1) -> Nat]
  <2>1. ASSUME NEW i \in 0..(Buffer - 1)
        PROVE  (IF i < n THEN buf[o + i] ELSE buf[i]) \in Nat
    <3>1. i < n => o + i \in 0..(Buffer - 1)
      BY <1>1
    <3> QED
      BY <1>1, <3>1
  <2> QED
    BY <1>2, <2>1
<1>4. Runs(buf, o, n, m)
  BY WindowAt
<1>5. ASSUME NEW i \in 0..(n - 1) PROVE buf'[0 + i] = m + 1 + i
  <2>1. i \in 0..(Buffer - 1) /\ 0 + i = i /\ i < n
    BY <1>1
  <2>2. buf'[i] = buf[o + i]
    BY <1>2, <2>1
  <2> QED
    BY <1>4, <2>1, <2>2 DEF Runs
<1>6. Runs(buf', 0, n, m)
  BY <1>5 DEF Runs
<1> QED
  BY <1>3, <1>6, WindowAt

\* A good message ends its own length behind its beginning.
LEMMA GoodEnds ==
  ASSUME RecvInv, cb > 0, Due \in 1..Len(sizes), Frames!Good(Due)
  PROVE  /\ sizes[Due] \in Nat /\ sizes[Due] <= MaxUser
         /\ From \in Nat
         /\ Frames!Start[Due + 1] = From + Header + sizes[Due]
         /\ Due + 1 \in 1..(Len(sizes) + 1)
<1>1. Header \in Nat /\ MaxUser \in Nat /\ Len(sizes) \in Nat
  BY Basics
<1>2. From \in Nat /\ Frames!Start[Due + 1] = From + Width(Due)
      /\ sizes[Due] \in Int
  BY <1>1, DueStarts
<1>3. Width(Due) = Header + sizes[Due] /\ sizes[Due] \in Nat /\ sizes[Due] <= MaxUser
  BY <1>1, <1>2 DEF Width, Frames!Good
<1> QED
  BY <1>1, <1>2, <1>3

\* The payload of message k is a sequence of bytes.
LEMMA PayloadSeq ==
  ASSUME RecvInv, NEW k \in 1..Len(sizes), Frames!Good(k)
  PROVE  Payload(k) \in Seq(Nat)
<1>1. /\ Header \in Nat /\ MaxUser \in Nat /\ sizes \in Seq(Int)
      /\ Len(sizes) \in Nat
  BY Basics
<1>2. k \in 1..(Len(sizes) + 1)
  BY <1>1
<1>3. Frames!Start[k] \in Nat /\ sizes[k] \in Nat
  BY <1>1, <1>2, StartNext DEF Frames!Good
<1>4. Frames!Start[k] + Header \in Nat /\ sizes[k] + Header \in Nat
  BY <1>1, <1>3
<1>5. /\ Positions(Frames!Start[k], sizes[k] + Header) \in Seq(Nat)
      /\ Positions(Frames!Start[k] + Header, sizes[k]) \in Seq(Nat)
  BY <1>3, <1>4, PositionsSeq
<1> QED
  BY <1>5 DEF Payload

\* The delivery of the message that is due makes the next one due.
LEMMA Delivers ==
  ASSUME RecvInv, cb > 0, Due \in 1..Len(sizes), Frames!Good(Due),
         UNCHANGED peervars, out' = Append(out, Payload(Due))
  PROVE  /\ out' \in Seq(Seq(Nat))
         /\ Delivered'
         /\ Due' = Due + 1
         /\ From' = From + Header + sizes[Due]
         /\ From' \in Nat
<1>1. out \in Seq(Seq(Nat)) /\ Payload(Due) \in Seq(Nat)
  BY PayloadSeq DEF RecvInv, TypeOK
<1>2. /\ out' \in Seq(Seq(Nat)) /\ Len(out') = Len(out) + 1
      /\ out'[Len(out) + 1] = Payload(Due)
      /\ \A k \in 1..Len(out) : out'[k] = out[k]
  BY <1>1
<1>3. /\ Frames!Start' = Frames!Start
      /\ \A k : Frames!Good(k)' <=> Frames!Good(k)
      /\ \A k : Payload(k)' = Payload(k)
      /\ sizes' = sizes /\ cb' = cb
  BY StartSame DEF peervars
<1>4. Len(out) \in Nat /\ Due = Len(out) + 1 /\ Len(sizes) \in Nat /\ Header \in Nat
  BY Basics DEF Due
<1>5. Delivered'
  <2>1. Len(out') <= Len(sizes)
    BY <1>2, <1>4
  <2>2. ASSUME NEW k \in 1..Len(out')
        PROVE  Frames!Good(k)' /\ out'[k] = Payload(k)'
    <3>1. CASE k \in 1..Len(out)
      <4>1. Frames!Good(k) /\ out[k] = Payload(k)
        BY <3>1 DEF RecvInv, Delivered
      <4> QED
        BY <1>2, <1>3, <3>1, <4>1
    <3>2. CASE k = Due
      BY <1>2, <1>3, <1>4, <3>2
    <3> QED
      BY <1>2, <1>4, <3>1, <3>2
  <2> QED
    BY <1>3, <2>1, <2>2 DEF Delivered
<1>6. Due' = Due + 1
  BY <1>2, <1>4 DEF Due
<1>7. From' = Frames!Start[Due + 1]
  BY <1>3, <1>6 DEF From
<1> QED
  BY <1>2, <1>4, <1>5, <1>6, <1>7, GoodEnds

\* A message of which not all bytes arrived is neither complete nor refused.
LEMMA NotYet ==
  ASSUME RecvInv, cb > 0, NEW k \in 1..Len(sizes),
         \/ Frames!Good(k) /\ rx < Frames!Start[k] + Header + sizes[k]
         \/ rx < Frames!Start[k] + Header
  PROVE  ~Frames!Complete(k) /\ ~Frames!Refused(k)
<1>1. /\ Header \in Nat /\ MaxUser \in Nat /\ sizes \in Seq(Int)
      /\ Len(sizes) \in Nat /\ rx \in Nat /\ cb # 0
  BY Basics
<1>2. k \in 1..(Len(sizes) + 1) /\ k \in 1..Len(sizes)
  BY <1>1
<1>3. /\ Frames!Start[k] \in Nat /\ sizes[k] \in Int
      /\ Frames!Start[k + 1] = Frames!Start[k] + Width(k)
  <2>1. /\ Frames!Start \in [1..(Len(sizes) + 1) -> Nat]
        /\ \A j \in 1..Len(sizes) : Frames!Start[j + 1] = Frames!Start[j] + Width(j)
    BY <1>1, StartNext
  <2>2. Frames!Start[k + 1] = Frames!Start[k] + Width(k)
    BY <1>2, <2>1
  <2> QED
    BY <1>1, <1>2, <2>1, <2>2
<1>4. /\ Frames!Good(k) => sizes[k] \in Nat /\ Width(k) = Header + sizes[k]
  BY <1>1, <1>3 DEF Frames!Good, Width
<1>5. ~Frames!Complete(k)
  BY <1>1, <1>3, <1>4 DEF Frames!Complete
<1>6. ~Frames!Refused(k)
  BY <1>1, <1>3 DEF Frames!Refused
<1> QED
  BY <1>5, <1>6

\* What is complete depends on the stream and on what arrived of it.
LEMMA CompleteSame ==
  ASSUME UNCHANGED peervars, rx' = rx
  PROVE  /\ \A k : Frames!Complete(k)' <=> Frames!Complete(k)
         /\ \A k : Frames!Refused(k)' <=> Frames!Refused(k)
<1>1. cb' = cb /\ Frames!Start' = Frames!Start
      /\ \A k : Frames!Good(k)' <=> Frames!Good(k)
  BY StartSame DEF peervars
<1> QED
  BY <1>1 DEF Frames!Complete, Frames!Refused

-----------------------------------------------------------------------------
(* tcp_lb_assemble                                                         *)

\* A part that does not fill the large block goes to its end.
LEMMA LbPartKeeps ==
  ASSUME RecvInv, LbPart
  PROVE  RecvInv'
<1>1. /\ cb' = cb /\ sizes' = sizes /\ fully' = fully /\ rx' = rx /\ buf' = buf
      /\ irp' = irp /\ size_for_req' = size_for_req
      /\ analyzed_offset' = analyzed_offset
      /\ size_for_translation' = size_for_translation
      /\ useful' = useful /\ offset' = offset /\ out' = out
      /\ lb_length' = lb_length /\ stat' = stat /\ refs' = refs
      /\ request' = request /\ pc = "lb" /\ pc' = "post"
      /\ size_for_translation < lb_acquire_size
      /\ lb_data' = lb_data \o Bytes(0, size_for_translation)
  BY DEF LbPart, peervars, linkvars, iovars, loopvars
<1>2. /\ UNCHANGED peervars
      /\ Frames!Start' = Frames!Start /\ Total' = Total
      /\ \A k : Frames!Good(k)' <=> Frames!Good(k)
      /\ \A k : Payload(k)' = Payload(k)
  BY StartSame DEF LbPart
<1>3. Due' = Due /\ From' = From
  BY <1>1, <1>2 DEF Due, From
<1>4. /\ lb_data # <<>>
      /\ rx = From + Len(lb_data) + size_for_translation
      /\ Bytes(0, size_for_translation)
           = Positions(From + Len(lb_data), size_for_translation)
  BY <1>1 DEF RecvInv, Filling
<1>5. /\ cb > 0 /\ Due <= Len(sizes) /\ Frames!Good(Due)
      /\ lb_length = sizes[Due] + Header /\ lb_length > Buffer
      /\ Len(lb_data) \in Header..(lb_length - 1)
      /\ lb_data = Positions(From, Len(lb_data))
  BY <1>4 DEF RecvInv, Assembling
<1>6. Due \in 1..Len(sizes) /\ lb_acquire_size = lb_length - Len(lb_data)
  BY <1>4, BlockHeader
<1>7. /\ size_for_translation \in Nat /\ Len(lb_data) \in Nat /\ Header \in Nat
      /\ Header > 0 /\ Buffer \in Nat /\ cb # 0
  BY <1>5, Basics
<1>8. sizes[Due] \in Nat /\ From \in Nat
  BY <1>5, <1>6, GoodEnds
<1> DEFINE n == Len(lb_data) + size_for_translation
<1>9. n \in Nat /\ n \in Header..(lb_length - 1) /\ From + Len(lb_data) \in Nat
  <2>1. Len(lb_data) \in Header..(lb_length - 1)
    BY <1>5
  <2>2. lb_length = sizes[Due] + Header
    BY <1>5
  <2>3. size_for_translation < lb_length - Len(lb_data)
    BY <1>1, <1>6
  <2>4. lb_length \in Nat
    BY <1>7, <1>8, <2>2
  <2>5. n \in Nat /\ From + Len(lb_data) \in Nat
    BY <1>7, <1>8
  <2>6. n <= lb_length - 1 /\ n >= Header
    BY <1>7, <2>1, <2>3, <2>4
  <2> QED
    BY <1>7, <2>4, <2>5, <2>6
<1>10. lb_data' = Positions(From, n) /\ lb_data' \in Seq(Nat) /\ Len(lb_data') = n
  <2>1. Positions(From, Len(lb_data)) \o
          Positions(From + Len(lb_data), size_for_translation) = Positions(From, n)
    BY <1>7, <1>8, PositionsConcat
  <2>2. lb_data' = Positions(From, n)
    BY <1>1, <1>4, <1>5, <2>1
  <2> HIDE DEF n
  <2> QED
    BY <1>8, <1>9, <2>2, PositionsSeq
<1>11. lb_data' # <<>>
  BY <1>7, <1>9, <1>10
<1>12. irp = 0
  BY <1>4 DEF RecvInv, Requesting
<1>13. TypeOK'
  BY <1>1, <1>2, <1>10 DEF RecvInv, TypeOK
<1>14. References'
  BY <1>1 DEF RecvInv, References
<1>15. Requesting'
  BY <1>1, <1>12 DEF RecvInv, Requesting
<1>16. Delivered'
  BY <1>1, <1>2 DEF RecvInv, Delivered
<1>17. Assembling'
  <2> HIDE DEF n
  <2>1. Positions(From', Len(lb_data')) = lb_data'
    BY <1>3, <1>10
  <2>2. Positions(From, Len(lb_data))' = Positions(From', Len(lb_data'))
    BY DEF Positions
  <2> QED
    BY <1>1, <1>2, <1>3, <1>5, <1>9, <1>10, <2>1, <2>2 DEF Assembling
<1>18. Filling' /\ Parsing' /\ Raw'
  BY <1>1, <1>7 DEF Filling, Parsing, Raw
<1>19. Resting'
  <2>0. rx = From + Len(lb_data) + size_for_translation
        /\ lb_length = sizes[Due] + Header
        /\ Len(lb_data) + size_for_translation < lb_length
        /\ rx = From + n
    BY <1>4, <1>5, <1>7, <1>8, <1>9
  <2>1. rx < Frames!Start[Due] + Header + sizes[Due]
    <3>1. rx < From + Header + sizes[Due]
      BY <1>7, <1>8, <2>0
    <3> QED
      BY <3>1 DEF From
  <2>2. ~Frames!Complete(Due) /\ ~Frames!Refused(Due)
    BY <1>5, <1>6, <2>1, NotYet
  <2>3. ~Frames!Complete(Due)' /\ ~Frames!Refused(Due)'
    BY <1>1, <1>2, <1>3, <2>2, CompleteSame
  <2>4. rx' = From' + Len(lb_data') + irp'
    <3>1. Len(lb_data') = n /\ irp' = 0 /\ rx' = rx /\ From' = From
      BY <1>1, <1>3, <1>10, <1>12
    <3> HIDE DEF n
    <3> QED
      BY <1>8, <1>9, <2>0, <3>1
  <2>5. Bytes(0, irp)' = Positions(From + Len(lb_data), irp)'
    BY <1>1, <1>12 DEF Bytes, Positions
  <2> QED
    BY <2>3, <2>4, <2>5 DEF Resting
<1> QED
  BY <1>13, <1>14, <1>15, <1>16, <1>17, <1>18, <1>19 DEF RecvInv

\* The part that fills the block delivers the message; what follows it is the
\* beginning of the next one.
LEMMA LbFilledKeeps ==
  ASSUME RecvInv, LbFilled
  PROVE  /\ RecvInv'
         /\ cb > 0 /\ Due \in 1..Len(sizes) /\ Frames!Good(Due)
         /\ Frames!Start[Due + 1] <= rx
         /\ Len(out') = Len(out) + 1
<1> DEFINE a == lb_acquire_size
           rest == size_for_translation - a
           block == lb_data \o Bytes(0, a)
<1>1. /\ cb' = cb /\ sizes' = sizes /\ fully' = fully /\ rx' = rx
      /\ irp' = irp /\ size_for_req' = size_for_req
      /\ analyzed_offset' = analyzed_offset /\ offset' = offset
      /\ stat' = stat /\ refs' = refs /\ request' = request
      /\ lb_data' = <<>> /\ lb_length' = 0
      /\ pc = "lb" /\ size_for_translation >= a
      /\ out' = Append(out, SubSeq(block, Header + 1, Len(block)))
      /\ memmove(a, rest)
      /\ size_for_translation' = (IF rest # 0 THEN rest ELSE size_for_translation)
      /\ useful' = analyzed_offset + rest
      /\ pc' = IF rest # 0 THEN "parse" ELSE "post"
  BY DEF LbFilled, ncb_unmark_lb, peervars, linkvars, iovars
<1>2. /\ UNCHANGED peervars
      /\ Frames!Start' = Frames!Start /\ Total' = Total
  BY StartSame DEF LbFilled
<1>3. /\ lb_data # <<>> /\ offset = 0
      /\ rx = From + Len(lb_data) + size_for_translation
      /\ Window(buf, 0, size_for_translation)
           = Positions(From + Len(lb_data), size_for_translation)
  BY <1>1 DEF RecvInv, Filling, Bytes, Window
<1>4. /\ cb > 0 /\ Frames!Good(Due)
      /\ lb_length = sizes[Due] + Header /\ lb_length > Buffer
      /\ Len(lb_data) \in Header..(lb_length - 1)
      /\ lb_data = Positions(From, Len(lb_data))
  BY <1>3 DEF RecvInv, Assembling
<1>5. Due \in 1..Len(sizes) /\ a = lb_length - Len(lb_data) /\ a \in Nat
  BY <1>3, BlockHeader
<1>6. /\ size_for_translation \in Nat /\ Len(lb_data) \in Nat /\ Header \in Nat
      /\ Header > 0 /\ Buffer \in Nat /\ cb # 0 /\ size_for_translation <= Buffer
      /\ rx \in Nat /\ Len(out) \in Nat /\ Len(sizes) \in Nat /\ sizes \in Seq(Int)
  BY <1>4, Basics DEF RecvInv, TypeOK
<1>7. /\ sizes[Due] \in Nat /\ From \in Nat
      /\ Frames!Start[Due + 1] = From + Header + sizes[Due]
  BY <1>4, <1>5, GoodEnds
<1> HIDE DEF a
<1>n. /\ rx = From + Len(lb_data) + size_for_translation
      /\ lb_length = sizes[Due] + Header /\ lb_length > Buffer
      /\ Len(lb_data) >= Header /\ Len(lb_data) < lb_length
      /\ a = lb_length - Len(lb_data) /\ a \in Nat
      /\ size_for_translation >= a
  <2>1. rx = From + Len(lb_data) + size_for_translation
    BY <1>3
  <2>2. lb_length = sizes[Due] + Header /\ lb_length > Buffer
    BY <1>4
  <2>3. Len(lb_data) \in Header..(lb_length - 1)
    BY <1>4
  <2>4. a = lb_length - Len(lb_data) /\ a \in Nat
    BY <1>5
  <2>5. size_for_translation >= a
    BY <1>1
  <2>6. Len(lb_data) >= Header /\ Len(lb_data) < lb_length
    BY <1>6, <1>7, <2>2, <2>3
  <2> QED
    BY <2>1, <2>2, <2>4, <2>5, <2>6
<1>8. /\ rest \in Nat /\ a + rest = size_for_translation
      /\ From + Len(lb_data) \in Nat /\ From + lb_length \in Nat
      /\ From + Len(lb_data) + a = From + lb_length
      /\ Len(lb_data) + a = lb_length /\ lb_length \in Nat
      /\ a \in 0..size_for_translation
  <2>1. /\ size_for_translation \in Nat /\ Len(lb_data) \in Nat /\ Header \in Nat
        /\ sizes[Due] \in Nat /\ From \in Nat
    BY <1>6, <1>7
  <2>2. lb_length \in Nat /\ Len(lb_data) + a = lb_length
    BY <1>n, <2>1
  <2>3. rest \in Nat /\ a + rest = size_for_translation /\ a \in 0..size_for_translation
    <3>1. a \in Nat /\ size_for_translation >= a
      BY <1>n
    <3> QED
      BY <2>1, <3>1
  <2>4. /\ From + Len(lb_data) \in Nat /\ From + lb_length \in Nat
        /\ From + Len(lb_data) + a = From + lb_length
    <3>1. a \in Nat
      BY <1>n
    <3> QED
      BY <2>1, <2>2, <3>1
  <2> QED
    BY <2>2, <2>3, <2>4
<1>9. block = Positions(From, lb_length) /\ Len(block) = lb_length
  <2>1. Window(buf, 0, a) = Positions(From + Len(lb_data), a)
    BY <1>3, <1>6, <1>8, WindowFirst
  <2>2. Positions(From, Len(lb_data)) \o Positions(From + Len(lb_data), a)
          = Positions(From, Len(lb_data) + a)
    <3>1. a \in Nat /\ Len(lb_data) \in Nat /\ From \in Nat
      BY <1>n, <1>6, <1>7
    <3> QED
      BY <3>1, PositionsConcat
  <2>3. Bytes(0, a) = Window(buf, 0, a)
    BY DEF Bytes, Window
  <2>4. block = Positions(From, lb_length)
    BY <1>4, <1>8, <2>1, <2>2, <2>3
  <2> HIDE DEF block
  <2> QED
    BY <1>7, <1>8, <2>4, PositionsSeq
<1>10. SubSeq(block, Header + 1, Len(block)) = Payload(Due)
  <2>1. Header \in Nat /\ lb_length \in Header..lb_length /\ lb_length - Header = sizes[Due]
    <3>1. lb_length = sizes[Due] + Header /\ sizes[Due] \in Nat /\ Header \in Nat
      BY <1>n, <1>6, <1>7
    <3> QED
      BY <3>1
  <2>2. SubSeq(Positions(From, lb_length), Header + 1, lb_length)
          = Positions(From + Header, lb_length - Header)
    <3>1. From \in Nat /\ lb_length \in Nat
      BY <1>7, <1>8
    <3> QED
      BY <2>1, <3>1, PositionsSubSeq
  <2>3. Payload(Due) = Positions(From + Header, sizes[Due])
    <3>1. ~(sizes[Due] + Header <= Buffer)
      BY <1>4, <1>6, <1>7
    <3> QED
      BY <3>1 DEF Payload, From
  <2> HIDE DEF block
  <2> QED
    BY <1>9, <2>1, <2>2, <2>3
<1>11. out' = Append(out, Payload(Due))
  BY <1>1, <1>10
<1>12. /\ out' \in Seq(Seq(Nat)) /\ Delivered' /\ Due' = Due + 1
       /\ From' = From + Header + sizes[Due] /\ From' \in Nat
  BY <1>2, <1>4, <1>5, <1>11, Delivers
<1>13. From' = From + lb_length /\ rx' = From' + rest
  <2>1. From' = From + Header + sizes[Due] /\ rx' = rx
    BY <1>1, <1>12
  <2>2. /\ lb_length = sizes[Due] + Header
        /\ rx = From + Len(lb_data) + size_for_translation
        /\ a = lb_length - Len(lb_data)
    BY <1>n
  <2>3. /\ sizes[Due] \in Nat /\ Header \in Nat /\ From \in Nat
        /\ Len(lb_data) \in Nat /\ size_for_translation \in Nat
    BY <1>6, <1>7
  <2> QED
    BY <2>1, <2>2, <2>3
<1>14. irp = 0 /\ analyzed_offset = 0 /\ useful' = rest
  BY <1>1, <1>3, <1>8 DEF RecvInv, Requesting
<1>15. /\ buf' \in [0..(Buffer - 1) -> Nat]
       /\ Window(buf', 0, rest) = Positions(From', rest)
  <2> DEFINE m == From + Len(lb_data)
             q == size_for_translation
             z == 0
  <2>1. m \in Nat /\ q \in Nat /\ a \in Nat /\ rest \in Nat /\ a + rest <= q
        /\ z \in Nat
    BY <1>5, <1>6, <1>8, <1>13
  <2>2. Window(buf, z, q) = Positions(m, q)
    BY <1>3
  <2>e. z + a = a /\ m + a = From'
    BY <1>5, <1>6, <1>8, <1>13
  <2> HIDE DEF m, q, z, rest
  <2>3. Window(buf, z + a, rest) = Positions(m + a, rest)
    <3>1. PartsRun(buf, z, q, m)
      BY <2>1, <2>2, WindowPart
    <3> QED
      BY <2>1, <3>1 DEF PartsRun
  <2>4. a + rest <= Buffer
    BY <1>6, <2>1 DEF q
  <2> QED
    BY <1>1, <1>12, <2>1, <2>e, <2>3, <2>4, Moved
<1>16. TypeOK'
  <2>1. /\ useful' \in 0..Buffer /\ size_for_translation' \in 0..Buffer
        /\ offset' \in 0..Buffer
    BY <1>1, <1>3, <1>6, <1>8, <1>14
  <2>2. pc' \in {"parse", "post"} /\ lb_data' \in Seq(Nat) /\ lb_length' \in Nat
    BY <1>1
  <2> HIDE DEF rest, block
  <2> QED
    BY <1>1, <1>2, <1>12, <1>15, <2>1, <2>2 DEF RecvInv, TypeOK
<1>17. References'
  BY <1>1 DEF RecvInv, References
<1>18. Requesting'
  BY <1>1 DEF RecvInv, Requesting
<1>19. Assembling' /\ Filling' /\ Raw'
  BY <1>1, <1>6 DEF Assembling, Filling, Raw
<1>20. Parsing'
  <2>1. Bytes(offset, useful)' = Window(buf', 0, rest)
    BY <1>1, <1>3, <1>14 DEF Bytes, Window
  <2>2. Positions(From, useful)' = Positions(From', rest)
    BY <1>14 DEF Positions
  <2>3. offset' + useful' <= Buffer
    BY <1>1, <1>3, <1>6, <1>8, <1>14
  <2> QED
    BY <1>1, <1>13, <1>14, <1>15, <2>1, <2>2, <2>3 DEF Parsing
<1>21. Resting'
  <2> SUFFICES ASSUME rest = 0
               PROVE  /\ Due' <= Len(sizes') =>
                           ~Frames!Complete(Due)' /\ ~Frames!Refused(Due)'
                      /\ rx' = From' + Len(lb_data') + irp'
                      /\ Bytes(0, irp)' = Positions(From + Len(lb_data), irp)'
    BY <1>1 DEF Resting
  <2>1. Bytes(0, irp)' = Positions(From + Len(lb_data), irp)'
    BY <1>1, <1>14 DEF Bytes, Positions
  <2>2. rx' = From' + Len(lb_data') + irp'
    BY <1>1, <1>12, <1>13, <1>14
  <2>3. ASSUME Due + 1 <= Len(sizes)
        PROVE  ~Frames!Complete(Due)' /\ ~Frames!Refused(Due)'
    <3>1. Due + 1 \in 1..Len(sizes)
      BY <1>5, <1>6, <2>3
    <3>2. rx < Frames!Start[Due + 1] + Header
      BY <1>1, <1>6, <1>7, <1>12, <1>13
    <3>3. ~Frames!Complete(Due + 1) /\ ~Frames!Refused(Due + 1)
      BY <1>4, <3>1, <3>2, NotYet
    <3> QED
      BY <1>1, <1>2, <1>12, <3>3, CompleteSame
  <2> QED
    BY <1>1, <1>12, <2>1, <2>2, <2>3
<1>22. Frames!Start[Due + 1] <= rx
  BY <1>1, <1>6, <1>7, <1>8, <1>12, <1>13
<1>23. Len(out') = Len(out) + 1
  BY <1>1 DEF RecvInv, TypeOK
<1> QED
  BY <1>4, <1>5, <1>12, <1>16, <1>17, <1>18, <1>19, <1>20, <1>21, <1>22, <1>23 DEF RecvInv

-----------------------------------------------------------------------------
(* tcp_prase_logic_packet                                                  *)

\* Without a template everything that was received is one event.
LEMMA ParseRawKeeps ==
  ASSUME RecvInv, ParseRaw
  PROVE  RecvInv'
<1>1. /\ cb' = cb /\ sizes' = sizes /\ fully' = fully /\ rx' = rx /\ buf' = buf
      /\ irp' = 0 /\ size_for_req' = Buffer - 0 /\ analyzed_offset' = 0
      /\ size_for_translation' = size_for_translation
      /\ useful' = useful /\ offset' = offset
      /\ lb_data' = lb_data /\ lb_length' = lb_length
      /\ stat' = stat /\ refs' = refs /\ request' = request
      /\ pc = "parse" /\ pc' = "post" /\ cb = 0
      /\ out' = Append(out, Bytes(0, useful))
  BY DEF ParseRaw, EndParse, peervars, linkvars, loopvars, lbvars
<1>2. UNCHANGED peervars /\ Total' = Total
  BY StartSame DEF ParseRaw
<1>3. /\ sizes = <<>> /\ lb_data = <<>> /\ useful <= rx
      /\ Bytes(0, useful) = Positions(rx - useful, useful)
      /\ FlattenSeq(out) = Positions(0, rx - useful)
  BY <1>1 DEF RecvInv, Raw
<1>4. /\ rx \in Nat /\ useful \in Nat /\ Buffer \in Nat /\ Buffer > 0
      /\ out \in Seq(Seq(Nat))
  BY Basics DEF RecvInv, TypeOK
<1> DEFINE x == Bytes(0, useful)
           a == rx - useful
<1>5. a \in Nat /\ a + useful = rx
  BY <1>3, <1>4
<1>6. x \in Seq(Nat) /\ x = Positions(a, useful)
  BY <1>3, <1>4, <1>5, PositionsSeq
<1>7. FlattenSeq(out') = FlattenSeq(out) \o x
  <2> HIDE DEF x
  <2> QED
    BY <1>1, <1>4, <1>6, FlattenAppend DEF x
<1>8. Positions(0, a) \o Positions(a, useful) = Positions(0, rx)
  <2> DEFINE z == 0
  <2>1. z \in Nat /\ z + a = a
    BY <1>5
  <2> HIDE DEF z, a
  <2>2. Positions(z, a) \o Positions(z + a, useful) = Positions(z, a + useful)
    BY <1>4, <1>5, <2>1, PositionsConcat
  <2> QED
    BY <1>5, <2>1, <2>2 DEF z
<1>9. FlattenSeq(out)' = Positions(0, rx)'
  <2>1. FlattenSeq(out') = Positions(0, rx)
    BY <1>3, <1>6, <1>7, <1>8
  <2> QED
    BY <1>1, <2>1 DEF Positions, FlattenSeq
<1>10. out' \in Seq(Seq(Nat))
  <2> HIDE DEF x
  <2> QED
    BY <1>1, <1>4, <1>6 DEF x
<1>11. TypeOK'
  BY <1>1, <1>2, <1>4, <1>10 DEF RecvInv, TypeOK
<1>12. References'
  BY <1>1 DEF RecvInv, References
<1>13. Requesting'
  BY <1>1, <1>4 DEF Requesting
<1>14. Raw'
  BY <1>1, <1>3, <1>9 DEF Raw
<1>15. Delivered' /\ Assembling' /\ Filling' /\ Parsing' /\ Resting'
  BY <1>1, <1>3 DEF Delivered, Assembling, Filling, Parsing, Resting
<1> QED
  BY <1>11, <1>12, <1>13, <1>14, <1>15 DEF RecvInv

\* What the parsing loop knows of the bytes in front of it.
LEMMA LoopBytes ==
  ASSUME RecvInv, pc = "parse", cb > 0
  PROVE  /\ lb_data = <<>>
         /\ cb = Header
         /\ offset + useful <= Buffer
         /\ rx = From + useful
         /\ Window(buf, offset, useful) = Positions(From, useful)
         /\ From \in Nat
BY Basics, DueStarts DEF RecvInv, Parsing, Bytes, Window

\* An accepted message is a good one.
LEMMA AcceptedGood ==
  ASSUME RecvInv, Accepted
  PROVE  /\ pc = "parse" /\ cb > 0 /\ cb = Header /\ useful >= Header
         /\ Due \in 1..Len(sizes) /\ Frames!Good(Due)
         /\ user_size = sizes[Due] /\ user_size \in Nat
<1>1. /\ AtHeader /\ user_size \in 0..MaxUser
  BY DEF Accepted
<1>2. cb = Header /\ Due \in 1..Len(sizes) /\ user_size = sizes[Due]
  BY <1>1, LoopHeader
<1>3. pc = "parse" /\ cb > 0 /\ useful >= Header
  BY <1>1, <1>2 DEF AtHeader
<1> QED
  BY <1>1, <1>2, <1>3 DEF Frames!Good

\* The beginning of a message that is not complete moves to the front of the
\* buffer, and the next request asks for what is left behind it.
LEMMA ParseRemainderKeeps ==
  ASSUME RecvInv, ParseRemainder
  PROVE  RecvInv'
<1>1. /\ cb' = cb /\ sizes' = sizes /\ fully' = fully /\ rx' = rx
      /\ irp' = useful /\ size_for_req' = Buffer - useful
      /\ analyzed_offset' = useful
      /\ size_for_translation' = size_for_translation
      /\ useful' = useful /\ offset' = offset /\ out' = out
      /\ lb_data' = lb_data /\ lb_length' = lb_length
      /\ stat' = stat /\ refs' = refs /\ request' = request
      /\ pc' = "post" /\ memmove(offset, useful)
  BY DEF ParseRemainder, ParseRemainderFrom, EndParse, peervars, linkvars, loopvars, lbvars
<1>2. /\ UNCHANGED peervars /\ Total' = Total
      /\ Frames!Start' = Frames!Start
      /\ \A k : Frames!Good(k)' <=> Frames!Good(k)
      /\ \A k : Payload(k)' = Payload(k)
  BY StartSame DEF ParseRemainder, ParseRemainderFrom
<1>3. Due' = Due /\ From' = From
  BY <1>1, <1>2 DEF Due, From
<1>4. /\ Header \in Nat /\ Header <= Buffer /\ Buffer \in Nat /\ useful \in Nat
      /\ offset \in Nat /\ Len(sizes) \in Nat
  BY Basics
<1>5. /\ pc = "parse" /\ cb > 0 /\ useful < Buffer
      /\ Due <= Len(sizes) => ~Frames!Complete(Due) /\ ~Frames!Refused(Due)
  <2>1. CASE pc = "parse" /\ cb > 0 /\ useful < cb
    <3>1. cb = Header /\ rx = From + useful /\ From \in Nat
      BY <2>1, LoopBytes
    <3>2. useful < Buffer
      BY <1>4, <2>1, <3>1
    <3>3. ASSUME Due <= Len(sizes) PROVE ~Frames!Complete(Due) /\ ~Frames!Refused(Due)
      <4>1. Due \in 1..Len(sizes)
        BY <2>1, <3>3, DueStarts
      <4>2. rx < From + Header
        BY <1>4, <2>1, <3>1
      <4>3. rx < Frames!Start[Due] + Header
        BY <4>2 DEF From
      <4> QED
        BY <2>1, <4>1, <4>3, NotYet
    <3> QED
      BY <2>1, <3>2, <3>3
  <2>2. CASE InBuffer /\ useful < user_size + cb
    <3>1. Accepted /\ user_size + cb <= Buffer /\ useful < user_size + cb
      BY <2>2 DEF InBuffer
    <3>2. /\ pc = "parse" /\ cb > 0 /\ cb = Header
          /\ Due \in 1..Len(sizes) /\ Frames!Good(Due)
          /\ user_size = sizes[Due] /\ user_size \in Nat
      BY <3>1, AcceptedGood
    <3>3. rx = From + useful /\ From \in Nat
      BY <3>2, LoopBytes
    <3>4. useful < Buffer
      BY <1>4, <3>1, <3>2
    <3>5. rx < From + Header + sizes[Due]
      BY <1>4, <3>1, <3>2, <3>3
    <3>6. rx < Frames!Start[Due] + Header + sizes[Due]
      BY <3>5 DEF From
    <3> QED
      BY <3>2, <3>4, <3>6, NotYet
  <2> QED
    BY <2>1, <2>2 DEF ParseRemainder, ParseRemainderFrom
<1>6. /\ lb_data = <<>> /\ offset + useful <= Buffer /\ rx = From + useful
      /\ Window(buf, offset, useful) = Positions(From, useful) /\ From \in Nat
  BY <1>5, LoopBytes
<1>7. /\ buf' \in [0..(Buffer - 1) -> Nat]
      /\ Window(buf', 0, useful) = Positions(From, useful)
  BY <1>1, <1>4, <1>6, Moved
<1>8. TypeOK'
  <2>1. {irp', size_for_req', analyzed_offset'} \subseteq 0..Buffer
    BY <1>1, <1>4, <1>5
  <2> QED
    BY <1>1, <1>2, <1>7, <2>1 DEF RecvInv, TypeOK
<1>9. References'
  BY <1>1, <1>5 DEF RecvInv, References
<1>10. Requesting'
  BY <1>1, <1>4, <1>5, <1>6 DEF Requesting
<1>11. Delivered'
  BY <1>1, <1>2 DEF RecvInv, Delivered
<1>12. Assembling' /\ Filling' /\ Parsing' /\ Raw'
  BY <1>1, <1>4, <1>5, <1>6 DEF Assembling, Filling, Parsing, Raw
<1>13. Resting'
  <2>1. Due' <= Len(sizes') => ~Frames!Complete(Due)' /\ ~Frames!Refused(Due)'
    BY <1>1, <1>2, <1>3, <1>5, CompleteSame
  <2>2. Len(lb_data) = 0 /\ From + Len(lb_data) = From
    BY <1>6
  <2>3. rx' = From' + Len(lb_data') + irp'
    BY <1>1, <1>3, <1>6, <2>2
  <2>4. Bytes(0, irp)' = Window(buf', 0, useful)
    BY <1>1 DEF Bytes, Window
  <2>5. Positions(From + Len(lb_data), irp)' = Positions(From, useful)
    BY <1>1, <1>3, <2>2 DEF Positions
  <2> QED
    BY <1>7, <2>1, <2>3, <2>4, <2>5 DEF Resting
<1> QED
  BY <1>8, <1>9, <1>10, <1>11, <1>12, <1>13 DEF RecvInv

\* What there is of a message larger than the buffer becomes its large block.
LEMMA ParseLargeKeeps ==
  ASSUME RecvInv, ParseLarge
  PROVE  RecvInv'
<1>1. /\ cb' = cb /\ sizes' = sizes /\ fully' = fully /\ rx' = rx /\ buf' = buf
      /\ irp' = 0 /\ size_for_req' = Buffer - 0 /\ analyzed_offset' = 0
      /\ size_for_translation' = size_for_translation
      /\ useful' = useful /\ offset' = offset /\ out' = out
      /\ lb_length' = user_size + cb
      /\ lb_data' = Bytes(offset, useful)
      /\ stat' = stat /\ refs' = refs /\ request' = request
      /\ pc' = "post" /\ Accepted /\ user_size + cb > Buffer
  BY DEF ParseLarge, Large, EndParse, peervars, linkvars, loopvars
<1>2. /\ UNCHANGED peervars /\ Total' = Total
      /\ Frames!Start' = Frames!Start
      /\ \A k : Frames!Good(k)' <=> Frames!Good(k)
      /\ \A k : Payload(k)' = Payload(k)
  BY StartSame DEF ParseLarge
<1>3. Due' = Due /\ From' = From
  BY <1>1, <1>2 DEF Due, From
<1>4. /\ Header \in Nat /\ Header <= Buffer /\ Buffer \in Nat /\ useful \in Nat
      /\ offset \in Nat /\ Len(sizes) \in Nat /\ Header > 0
  BY Basics
<1>5. /\ pc = "parse" /\ cb > 0 /\ cb = Header /\ useful >= Header
      /\ Due \in 1..Len(sizes) /\ Frames!Good(Due)
      /\ user_size = sizes[Due] /\ user_size \in Nat
  BY <1>1, AcceptedGood
<1>6. /\ offset + useful <= Buffer /\ rx = From + useful
      /\ Window(buf, offset, useful) = Positions(From, useful) /\ From \in Nat
  BY <1>5, LoopBytes
<1>7. /\ lb_length' = sizes[Due] + Header /\ lb_length' \in Nat
      /\ lb_length' > Buffer /\ useful \in Header..(lb_length' - 1)
  BY <1>1, <1>4, <1>5, <1>6
<1>8. lb_data' = Positions(From, useful) /\ lb_data' \in Seq(Nat)
      /\ Len(lb_data') = useful /\ lb_data' # <<>>
  <2>1. lb_data' = Positions(From, useful)
    BY <1>1, <1>6 DEF Bytes, Window
  <2>2. lb_data' \in Seq(Nat) /\ Len(lb_data') = useful
    BY <1>4, <1>6, <2>1, PositionsSeq
  <2> QED
    BY <1>4, <1>5, <2>1, <2>2
<1>9. TypeOK'
  <2>1. {irp', size_for_req', analyzed_offset'} \subseteq 0..Buffer
    BY <1>1, <1>4
  <2> QED
    BY <1>1, <1>2, <1>7, <1>8, <2>1 DEF RecvInv, TypeOK
<1>10. References'
  BY <1>1, <1>5 DEF RecvInv, References
<1>11. Requesting'
  BY <1>1, <1>4 DEF Requesting
<1>12. Delivered'
  BY <1>1, <1>2 DEF RecvInv, Delivered
<1>13. Assembling'
  <2>1. Positions(From, Len(lb_data))' = lb_data'
    BY <1>3, <1>8 DEF Positions
  <2>2. cb' > 0 /\ Due' <= Len(sizes') /\ Frames!Good(Due)'
    BY <1>1, <1>2, <1>3, <1>5
  <2> QED
    BY <1>1, <1>3, <1>7, <1>8, <2>1, <2>2 DEF Assembling
<1>14. Filling' /\ Parsing' /\ Raw'
  BY <1>1, <1>4, <1>5 DEF Filling, Parsing, Raw
<1>15. Resting'
  <2>1. rx < From + Header + sizes[Due]
    <3>1. rx = From + useful /\ From \in Nat /\ useful \in Nat /\ Header \in Nat
      BY <1>4, <1>6
    <3>2. sizes[Due] \in Nat
      BY <1>5
    <3>3. useful < sizes[Due] + Header
      BY <1>4, <1>7, <3>2
    <3> QED
      BY <3>1, <3>2, <3>3
  <2>2. rx < Frames!Start[Due] + Header + sizes[Due]
    BY <2>1 DEF From
  <2>3. ~Frames!Complete(Due) /\ ~Frames!Refused(Due)
    BY <1>5, <2>2, NotYet
  <2>4. ~Frames!Complete(Due)' /\ ~Frames!Refused(Due)'
    BY <1>1, <1>2, <1>3, <2>3, CompleteSame
  <2>5. rx' = From' + Len(lb_data') + irp'
    BY <1>1, <1>3, <1>4, <1>6, <1>8
  <2>6. Bytes(0, irp)' = Positions(From + Len(lb_data), irp)'
    BY <1>1 DEF Bytes, Positions
  <2> QED
    BY <2>4, <2>5, <2>6 DEF Resting
<1> QED
  BY <1>9, <1>10, <1>11, <1>12, <1>13, <1>14, <1>15 DEF RecvInv

\* A complete message is delivered, and the loop is at the next one.
LEMMA ParseDeliveredKeeps ==
  ASSUME RecvInv, ParseDelivered
  PROVE  /\ RecvInv'
         /\ cb > 0 /\ Due \in 1..Len(sizes) /\ Frames!Good(Due)
         /\ Frames!Start[Due + 1] <= rx
         /\ Len(out') = Len(out) + 1
<1> DEFINE L == user_size + cb
<1>1. /\ cb' = cb /\ sizes' = sizes /\ fully' = fully /\ rx' = rx /\ buf' = buf
      /\ irp' = irp /\ size_for_req' = size_for_req
      /\ analyzed_offset' = analyzed_offset
      /\ size_for_translation' = size_for_translation
      /\ useful' = useful - L /\ offset' = offset + user_size + cb
      /\ out' = Append(out, User)
      /\ lb_data' = lb_data /\ lb_length' = lb_length
      /\ stat' = stat /\ refs' = refs /\ request' = request
      /\ pc' = pc /\ Accepted /\ L <= Buffer /\ useful >= L
  BY DEF ParseDelivered, Deliver, NextTurn, InBuffer, peervars, linkvars, iovars, lbvars
<1>2. /\ UNCHANGED peervars /\ Total' = Total
  BY StartSame DEF ParseDelivered, Deliver
<1>4. /\ Header \in Nat /\ Header <= Buffer /\ Buffer \in Nat /\ useful \in Nat
      /\ offset \in Nat /\ Len(sizes) \in Nat /\ Header > 0
  BY Basics
<1>5. /\ pc = "parse" /\ cb > 0 /\ cb = Header
      /\ Due \in 1..Len(sizes) /\ Frames!Good(Due)
      /\ user_size = sizes[Due] /\ user_size \in Nat
  BY <1>1, AcceptedGood
<1>6. /\ lb_data = <<>> /\ offset + useful <= Buffer /\ rx = From + useful
      /\ Window(buf, offset, useful) = Positions(From, useful) /\ From \in Nat
  BY <1>5, LoopBytes
<1>7. L \in Nat /\ L <= useful /\ useful - L \in Nat /\ L + (useful - L) = useful
      /\ Header + user_size = L /\ L \in 0..useful
  <2>1. useful >= user_size + cb /\ cb = Header /\ user_size \in Nat
        /\ Header \in Nat /\ useful \in Nat
    BY <1>1, <1>4, <1>5
  <2> QED
    BY <2>1
<1>8. PartsRun(buf, offset, useful, From)
  BY <1>4, <1>6, WindowPart
<1>9. User = Payload(Due)
  <2>1. Bytes(offset, L) = Positions(From, L)
    <3>1. Window(buf, offset, L) = Positions(From, L)
      BY <1>4, <1>6, <1>7, WindowFirst
    <3> QED
      BY <3>1 DEF Bytes, Window
  <2>2. Bytes(offset + Header, user_size) = Positions(From + Header, user_size)
    <3>1. Header + user_size <= useful
      BY <1>7
    <3>2. Window(buf, offset + Header, user_size) = Positions(From + Header, user_size)
      BY <1>4, <1>5, <1>8, <3>1 DEF PartsRun
    <3> QED
      BY <3>2 DEF Bytes, Window
  <2>3. sizes[Due] + Header <= Buffer /\ L = sizes[Due] + Header
    BY <1>1, <1>5
  <2>4. Payload(Due) = IF fully THEN Positions(From, L)
                       ELSE Positions(From + Header, user_size)
    BY <1>5, <2>3 DEF Payload, From
  <2>5. User = IF fully THEN Bytes(offset, L) ELSE Bytes(offset + Header, user_size)
    BY <1>5 DEF User
  <2> HIDE DEF L
  <2> QED
    BY <2>1, <2>2, <2>4, <2>5
<1>10. out' = Append(out, Payload(Due))
  BY <1>1, <1>9
<1>11. /\ out' \in Seq(Seq(Nat)) /\ Delivered' /\ Due' = Due + 1
       /\ From' = From + Header + sizes[Due] /\ From' \in Nat
  BY <1>2, <1>5, <1>10, Delivers
<1>12. From' = From + L /\ rx' = From' + useful' /\ offset' = offset + L
       /\ useful' = useful - L
  <2>1. /\ From' = From + Header + user_size /\ From \in Nat /\ Header \in Nat
        /\ user_size \in Nat /\ offset \in Nat /\ useful \in Nat
        /\ cb = Header /\ rx' = From + useful
    BY <1>1, <1>4, <1>5, <1>6, <1>11
  <2>2. offset' = offset + user_size + cb /\ useful' = useful - L
    BY <1>1
  <2> QED
    BY <2>1, <2>2
<1>13. /\ offset' \in 0..Buffer /\ useful' \in 0..Buffer
       /\ offset' + useful' <= Buffer
  <2>1. /\ L \in Nat /\ L <= useful /\ offset \in Nat /\ useful \in Nat
        /\ Buffer \in Nat /\ offset + useful <= Buffer
    BY <1>4, <1>6, <1>7
  <2>2. offset' = offset + L /\ useful' = useful - L
    BY <1>12
  <2> HIDE DEF L
  <2> QED
    BY <2>1, <2>2
<1>14. TypeOK'
  <2> HIDE DEF L
  <2> QED
    BY <1>1, <1>2, <1>11, <1>13 DEF RecvInv, TypeOK
<1>15. References'
  BY <1>1 DEF RecvInv, References
<1>16. Requesting'
  BY <1>1 DEF RecvInv, Requesting
<1>17. Assembling' /\ Filling' /\ Resting' /\ Raw'
  BY <1>1, <1>4, <1>5, <1>6 DEF Assembling, Filling, Resting, Raw
<1>18. Parsing'
  <2>1. L + (useful - L) <= useful
    BY <1>4, <1>7
  <2>2. Window(buf, offset + L, useful - L) = Positions(From + L, useful - L)
    <3> HIDE DEF L
    <3> QED
      BY <1>7, <1>8, <2>1 DEF PartsRun
  <2>3. Bytes(offset, useful)' = Window(buf, offset + L, useful - L)
    BY <1>1, <1>12 DEF Bytes, Window
  <2>4. Positions(From, useful)' = Positions(From + L, useful - L)
    BY <1>12 DEF Positions
  <2> QED
    BY <1>1, <1>6, <1>12, <1>13, <2>2, <2>3, <2>4 DEF Parsing
<1>19. Frames!Start[Due + 1] <= rx
  <2>1. Frames!Start[Due + 1] = From + Header + sizes[Due]
    BY <1>5, GoodEnds
  <2>2. rx = From + useful /\ From \in Nat /\ useful \in Nat /\ L \in Nat /\ L <= useful
    BY <1>4, <1>6, <1>7
  <2>3. Frames!Start[Due + 1] = From + L
    BY <1>4, <1>5, <2>1, <2>2
  <2> HIDE DEF L
  <2> QED
    BY <2>2, <2>3
<1>20. Len(out') = Len(out) + 1
  BY <1>1 DEF RecvInv, TypeOK
<1> QED
  BY <1>5, <1>11, <1>14, <1>15, <1>16, <1>17, <1>18, <1>19, <1>20 DEF RecvInv

-----------------------------------------------------------------------------
(* The invariant.                                                          *)

\* A link begins with an empty buffer and the whole of it asked for.
LEMMA InitInv ==
  ASSUME Init
  PROVE  RecvInv
<1>1. /\ fully \in BOOLEAN /\ stat = "normal" /\ refs = {} /\ pc = "waiting"
      /\ request = "posted" /\ rx = 0
      /\ buf = [i \in 0..(Buffer - 1) |-> 0]
      /\ irp = 0 /\ size_for_req = Buffer /\ analyzed_offset = 0
      /\ size_for_translation = 0 /\ useful = 0 /\ offset = 0
      /\ lb_data = <<>> /\ lb_length = 0 /\ out = <<>>
  BY DEF Init
<1>2. (cb = 0 /\ sizes = <<>>) \/ (cb = Header /\ sizes \in Streams)
  BY DEF Init
<1>3. /\ Header \in Nat /\ Header > 0 /\ Buffer \in Nat /\ Buffer > 0
      /\ Header <= Buffer /\ MaxUser \in Nat /\ RawBytes \in Nat
  BY TcpRecvAssumption
<1>4. sizes \in Seq(Int) /\ Len(sizes) \in Nat
  <2>1. sizes \in Seq(Int)
    BY <1>2, TcpRecvAssumption, EmptySeq
  <2> QED
    BY <2>1
<1>5. Frames!Total \in Nat
  <2>1. Len(sizes) + 1 \in 1..(Len(sizes) + 1)
    BY <1>4
  <2> QED
    BY <1>4, <2>1, StartNext DEF Frames!Total
<1>6. Total \in Nat
  BY <1>3, <1>5 DEF Total
<1>7. TypeOK
  <2>1. cb \in {0, Header} /\ sizes \in Streams \cup {<<>>}
    BY <1>2
  <2>2. rx \in 0..Total /\ buf \in [0..(Buffer - 1) -> Nat]
    BY <1>1, <1>3, <1>6
  <2>3. lb_data \in Seq(Nat) /\ out \in Seq(Seq(Nat))
    BY <1>1, EmptySeq
  <2> QED
    BY <1>1, <1>3, <2>1, <2>2, <2>3 DEF TypeOK
<1>8. References /\ Requesting /\ Assembling /\ Filling /\ Parsing
  BY <1>1, <1>3 DEF References, Requesting, Assembling, Filling, Parsing
<1>9. Len(out) = 0 /\ Due = 1 /\ Frames!Start[1] = 0 /\ From = 0
  BY <1>1, <1>4, StartNext DEF Due, From
<1>10. Delivered
  BY <1>4, <1>9 DEF Delivered
<1>11. Resting
  <2>1. ASSUME cb > 0, 1 <= Len(sizes) PROVE ~Frames!Complete(1) /\ ~Frames!Refused(1)
    <3>1. /\ 1 \in 1..Len(sizes) /\ Frames!Start[1 + 1] = Frames!Start[1] + Width(1)
          /\ sizes[1] \in Int
      BY <1>4, <2>1, StartNext
    <3>2. Width(1) \in Nat /\ Width(1) > 0
      BY <1>3, <3>1 DEF Width, Frames!Good
    <3>3. cb # 0
      BY <1>2, <1>3, <2>1
    <3>4. Frames!Start[1 + 1] > 0 /\ Frames!Start[1] + Header > 0
      BY <1>3, <1>9, <3>1, <3>2
    <3>5. ~(Frames!Start[1 + 1] <= 0) /\ ~(Frames!Start[1] + Header <= 0)
      BY <1>3, <1>9, <3>1, <3>2
    <3> QED
      BY <1>1, <3>3, <3>5 DEF Frames!Complete, Frames!Refused
  <2>2. rx = From + Len(lb_data) + irp
    BY <1>1, <1>9
  <2>3. Bytes(0, irp) = Positions(From + Len(lb_data), irp)
    BY <1>1 DEF Bytes, Positions
  <2> QED
    BY <1>9, <2>1, <2>2, <2>3 DEF Resting
<1>12. Raw
  <2>1. FlattenSeq(out) = <<>>
    BY <1>1 DEF FlattenSeq
  <2>2. Positions(0, rx) = <<>>
    BY <1>1 DEF Positions
  <2>3. cb = 0 => sizes = <<>>
    BY <1>2, <1>3
  <2> QED
    BY <1>1, <2>1, <2>2, <2>3 DEF Raw
<1> QED
  BY <1>7, <1>8, <1>10, <1>11, <1>12 DEF RecvInv

\* Every step of the I/O thread, the system and the user keeps the invariant.
LEMMA NextInv ==
  ASSUME RecvInv, [Next]_vars
  PROVE  RecvInv'
<1>1. ASSUME NEW n \in 1..size_for_req, Received(n) PROVE RecvInv'
  BY <1>1, ReceivedKeeps
<1>2. CASE LbPart
  BY <1>2, LbPartKeeps
<1>3. CASE LbFilled
  BY <1>3, LbFilledKeeps
<1>4. CASE ParseRaw
  BY <1>4, ParseRawKeeps
<1>5. CASE ParseRemainder
  BY <1>5, ParseRemainderKeeps
<1>6. CASE ParseLarge
  BY <1>6, ParseLargeKeeps
<1>7. CASE ParseDelivered
  BY <1>7, ParseDeliveredKeeps
<1>8. CASE \/ Disconnected \/ ReceivedNoEntry
           \/ ParseRefused \/ ParseLargeNoMemory
           \/ PostRecv \/ PostFailed \/ Fail \/ Exit
           \/ tcp_destroy \/ DestroyReturns
           \/ UNCHANGED vars
  <2>1. StatusStep /\ TypeOK' /\ References'
    BY <1>8, StatusSteps
  <2> QED
    BY <2>1, StatusKeeps
<1> QED
  BY <1>1, <1>2, <1>3, <1>4, <1>5, <1>6, <1>7, <1>8 DEF Next, IoStep, Gone

\* The receive path keeps its buffer, its large block and its events in step
\* with the peer's stream, for every stream and every way it is cut.
THEOREM RecvInvariant == Spec => []RecvInv
<1>1. Init => RecvInv
  BY InitInv
<1>2. RecvInv /\ [Next]_vars => RecvInv'
  BY NextInv
<1> QED
  BY <1>1, <1>2, PTL DEF Spec

-----------------------------------------------------------------------------
(* What it says of the code.                                               *)

\* Event k carries exactly the bytes of message k, whether it was parsed in
\* place or assembled by tcp_lb_assemble; without a template the events of the
\* link together are the stream.
THEOREM RecvDeliveredIntact == Spec => []DeliveredIntact
<1>1. RecvInv => DeliveredIntact
  <2> SUFFICES ASSUME RecvInv PROVE DeliveredIntact
    OBVIOUS
  <2>1. CASE cb = 0
    <3>1. request = "posted" => pc # "parse"
      BY DEF RecvInv, References
    <3> QED
      BY <2>1, <3>1 DEF RecvInv, Raw, DeliveredIntact
  <2>2. CASE cb # 0
    <3>1. cb > 0
      BY <2>2, Basics
    <3> QED
      BY <2>2, <3>1 DEF RecvInv, Delivered, DeliveredIntact
  <2> QED
    BY <2>1, <2>2
<1> QED
  BY <1>1, RecvInvariant, PTL

\* While a request is pending, the large block and the front of the buffer
\* hold, once and in order, every byte that came after the last message.
THEOREM RecvBytesKept == Spec => []BytesKept
<1>1. RecvInv => BytesKept
  <2> SUFFICES ASSUME RecvInv, cb > 0, request = "posted", stat = "normal"
               PROVE  lb_data \o Bytes(0, irp) = Positions(From, rx - From)
    BY DEF BytesKept, From, Due
  <2>1. pc \in {"waiting", "exit"}
    BY DEF RecvInv, References, TypeOK
  <2>2. /\ rx = From + Len(lb_data) + irp
        /\ Bytes(0, irp) = Positions(From + Len(lb_data), irp)
    BY <2>1 DEF RecvInv, Resting
  <2>3. From \in Nat /\ Len(lb_data) \in Nat /\ irp \in Nat
    BY Basics, DueStarts
  <2>4. lb_data = Positions(From, Len(lb_data))
    <3>1. CASE lb_data = <<>>
      BY <3>1 DEF Positions
    <3>2. CASE lb_data # <<>>
      BY <3>2 DEF RecvInv, Assembling
    <3> QED
      BY <3>1, <3>2
  <2>5. rx - From = Len(lb_data) + irp
    BY <2>2, <2>3
  <2>6. Positions(From, Len(lb_data)) \o Positions(From + Len(lb_data), irp)
          = Positions(From, Len(lb_data) + irp)
    BY <2>3, PositionsConcat
  <2> QED
    BY <2>2, <2>4, <2>5, <2>6
<1> QED
  BY <1>1, RecvInvariant, PTL

\* No request asks for zero bytes or for more than the buffer holds, and the
\* two assertions of tcp_lb_assemble hold.
THEOREM RecvBuffersFit == Spec => []BuffersFit
<1>1. RecvInv => BuffersFit
  <2> SUFFICES ASSUME RecvInv PROVE BuffersFit
    OBVIOUS
  <2>1. /\ size_for_req > 0 /\ irp + size_for_req = Buffer /\ analyzed_offset = irp
        /\ lb_data # <<>> => irp = 0
    BY DEF RecvInv, Requesting
  <2>2. ASSUME pc = "lb"
        PROVE  lb_acquire_size > 0 /\ Len(lb_data) + lb_acquire_size = lb_length
    <3>1. lb_data # <<>>
      BY <2>2 DEF RecvInv, Filling
    <3>2. /\ lb_acquire_size = lb_length - Len(lb_data) /\ lb_acquire_size > 0
      BY <3>1, BlockHeader
    <3>3. Len(lb_data) \in Nat /\ lb_length \in Nat
      BY Basics DEF RecvInv, TypeOK
    <3> QED
      BY <3>2, <3>3
  <2> QED
    BY <2>1, <2>2 DEF BuffersFit, ncb_lb_marked
<1> QED
  BY <1>1, RecvInvariant, PTL

\* tcp_prase_logic_packet refuses a link only for a message whose own header
\* announces too much or a negative size.
THEOREM RecvRefusesOnlyBad == Spec => RefusesOnlyBad
<1>1. RecvInv /\ [Next]_vars => [ParseRefused => ~Frames!Good(Len(out) + 1)]_vars
  <2> SUFFICES ASSUME RecvInv, ParseRefused PROVE ~Frames!Good(Len(out) + 1)
    OBVIOUS
  <2>1. AtHeader /\ user_size \notin 0..MaxUser
    BY DEF ParseRefused, ParseRefusedAbove
  <2>2. user_size = sizes[Due]
    BY <2>1, LoopHeader
  <2> QED
    BY <2>1, <2>2 DEF Due, Frames!Good
<1> QED
  BY <1>1, RecvInvariant, PTL DEF Spec, RefusesOnlyBad

\* While a receive is pending no message is complete and undelivered, which is
\* what a user of FrameStream may rely on between two receives.
THEOREM RecvNothingWithheld == Spec => []NothingWithheld
<1>1. RecvInv => NothingWithheld
  <2> SUFFICES ASSUME RecvInv, cb > 0, request = "posted", NEW k \in 1..Len(sizes),
                      Frames!Start[k + 1] <= rx, \A j \in 1..k : Frames!Good(j),
                      ~(k <= Len(out))
               PROVE  FALSE
    BY DEF NothingWithheld
  <2>1. pc \in {"post", "exit", "waiting"}
    BY DEF RecvInv, TypeOK, References
  <2>2. /\ Len(out) \in Nat /\ Len(sizes) \in Nat /\ sizes \in Seq(Int) /\ rx \in Nat
        /\ Header \in Nat /\ cb # 0
    BY Basics
  <2>3. Due \in 1..k /\ Due \in 1..Len(sizes) /\ Due <= Len(sizes)
    BY <2>2 DEF Due
  <2>4. Frames!Good(Due) /\ ~Frames!Complete(Due)
    BY <2>1, <2>3 DEF RecvInv, Resting
  <2>5. ~(Frames!Start[Due + 1] <= rx)
    BY <2>2, <2>4 DEF Frames!Complete
  <2>6. Due # k
    BY <2>5
  <2>7. Due + 1 \in 1..(Len(sizes) + 1) /\ k + 1 \in 1..(Len(sizes) + 1) /\ Due + 1 < k + 1
    BY <2>2, <2>3, <2>6
  <2>8. Frames!Start[Due + 1] + Header <= Frames!Start[k + 1]
    BY <2>2, <2>7, StartOrder
  <2>9. Frames!Start[Due + 1] \in Nat /\ Frames!Start[k + 1] \in Nat
    BY <2>2, <2>7, StartNext
  <2> QED
    BY <2>2, <2>5, <2>8, <2>9
<1> QED
  BY <1>1, RecvInvariant, PTL

\* A step of the dispatch leaves fewer of them.
LEMMA TurnEnds ==
  ASSUME RecvInv, RecvInv', IoStep
  PROVE  TurnsLeft' < TurnsLeft
<1>1. /\ Buffer \in Nat /\ useful \in Nat /\ useful' \in Nat /\ useful' <= Buffer
      /\ Header \in Nat /\ Header > 0
  <2>1. useful \in 0..Buffer /\ useful' \in 0..Buffer
    BY DEF RecvInv, TypeOK
  <2>2. Buffer \in Nat /\ Header \in Nat /\ Header > 0
    BY Basics
  <2> QED
    BY <2>1, <2>2
<1>2. CASE ParseDelivered
  <2>1. /\ pc = "parse" /\ pc' = "parse" /\ cb > 0 /\ user_size \in 0..MaxUser
        /\ useful' = useful - (user_size + cb)
    BY <1>2 DEF ParseDelivered, Deliver, NextTurn, InBuffer, Accepted, AtHeader
  <2>2. cb \in Nat /\ MaxUser \in Nat
    BY <1>1, Basics
  <2>3. useful' < useful
    BY <1>1, <2>1, <2>2
  <2>4. TurnsLeft = useful + 3 /\ TurnsLeft' = useful' + 3
    BY <2>1 DEF TurnsLeft
  <2>5. useful \in Nat /\ useful' \in Nat
    BY <1>1
  <2>6. \A a, b \in Nat : a < b => a + 3 < b + 3
    OBVIOUS
  <2>7. useful' + 3 < useful + 3
    BY <2>3, <2>5, <2>6
  <2> QED
    BY <2>4, <2>7
<1>3. CASE LbPart \/ LbFilled
  <2>1. pc = "lb" /\ pc' \in {"parse", "post"}
    BY <1>3 DEF LbPart, LbFilled
  <2>2. TurnsLeft = Buffer + 4 /\ (TurnsLeft' = useful' + 3 \/ TurnsLeft' = 2)
    BY <2>1 DEF TurnsLeft
  <2> QED
    BY <1>1, <2>2
<1>4. CASE ParseRaw \/ ParseRemainder \/ ParseRefused \/ ParseLarge \/ ParseLargeNoMemory
  <2>1. pc = "parse" /\ pc' \in {"post", "fail"}
    BY <1>4 DEF ParseRaw, ParseRemainder, ParseRemainderFrom, ParseRefused,
       ParseRefusedAbove, ParseLarge, ParseLargeNoMemory, EndParse, Large,
       InBuffer, Accepted, AtHeader
  <2>2. TurnsLeft = useful + 3 /\ TurnsLeft' \in {1, 2}
    BY <2>1 DEF TurnsLeft
  <2> QED
    BY <1>1, <2>2
<1>5. CASE PostRecv \/ PostFailed
  <2>1. pc = "post" /\ pc' \in {"exit", "fail"}
    BY <1>5 DEF PostRecv, PostFailed
  <2>2. TurnsLeft = 2 /\ TurnsLeft' = 1
    BY <2>1 DEF TurnsLeft
  <2> QED
    BY <2>2
<1>6. CASE Fail \/ Exit
  <2>1. pc \in {"fail", "exit"} /\ pc' \in {"over", "waiting"}
    BY <1>6 DEF Fail, Exit
  <2>2. TurnsLeft = 1
    BY <2>1 DEF TurnsLeft
  <2>3. TurnsLeft' = 0
    BY <2>1 DEF TurnsLeft
  <2> QED
    BY <2>2, <2>3
<1> QED
  BY <1>2, <1>3, <1>4, <1>5, <1>6 DEF IoStep

\* The dispatch of one completion makes at most Buffer + 4 steps: the parsing
\* loop ends for every stream and every way it is cut.
THEOREM RecvDispatchEnds == Spec => DispatchEnds
<1>1. RecvInv /\ RecvInv' /\ [Next]_vars => [IoStep => TurnsLeft' < TurnsLeft]_vars
  BY TurnEnds
<1> QED
  BY <1>1, RecvInvariant, PTL DEF Spec, DispatchEnds

\* No step opens a link that is closed.
LEMMA NoReopen ==
  ASSUME [Next]_vars, stat # "normal"
  PROVE  stat' # "normal"
<1>1. \A who : objclos(who) => stat' # "normal"
  BY DEF objclos, lbvars
<1>2. CASE \E n \in 1..size_for_req : Received(n)
  BY <1>2 DEF Received
<1>3. CASE Disconnected \/ ReceivedNoEntry
  BY <1>1, <1>3 DEF Disconnected, ReceivedNoEntry, NoEntryWith, linkvars
<1>4. CASE LbPart \/ LbFilled
  BY <1>4 DEF LbPart, LbFilled, linkvars
<1>5. CASE ParseRaw \/ ParseRemainder \/ ParseRefused
  BY <1>5 DEF ParseRaw, ParseRemainder, ParseRemainderFrom, ParseRefused,
              ParseRefusedAbove, linkvars
<1>6. CASE ParseLarge \/ ParseLargeNoMemory \/ ParseDelivered
  BY <1>6 DEF ParseLarge, ParseLargeNoMemory, ParseDelivered, Deliver, linkvars
<1>7. CASE PostRecv \/ PostFailed
  BY <1>7 DEF PostRecv, PostFailed, linkvars
<1>8. CASE Fail \/ Exit
  BY <1>1, <1>8 DEF Fail, Exit
<1>9. CASE tcp_destroy \/ DestroyReturns
  BY <1>1, <1>9 DEF tcp_destroy, DestroyReturns
<1>10. CASE UNCHANGED vars
  BY <1>10 DEF vars, linkvars
<1> QED
  BY <1>2, <1>3, <1>4, <1>5, <1>6, <1>7, <1>8, <1>9, <1>10 DEF Next, IoStep, Gone

\* The completion of a receive finds no message complete that is not delivered:
\* it is Arrive.
LEMMA ReceivedArrives ==
  ASSUME RecvInv, NEW n \in 1..size_for_req, Received(n)
  PROVE  [Frames!FNext]_(Frames!fvars)
<1>1. /\ cb' = cb /\ sizes' = sizes /\ out' = out /\ stat' = stat
      /\ stat = "normal" /\ rx + n <= Total /\ rx' = rx + n /\ pc = "waiting"
  BY DEF Received, Completes, peervars
<1>2. CASE cb = 0
  BY <1>1, <1>2 DEF Frames!fvars
<1>3. CASE cb # 0
  <2>1. /\ cb > 0 /\ rx \in Nat /\ size_for_req \in Nat /\ Total \in Int
        /\ Len(sizes) \in Nat /\ Len(out) \in Nat
    BY <1>3, Basics
  <2>2. Total = Frames!Total
    BY <1>3 DEF Total
  <2>3. n \in 1..Frames!Total
    BY <1>1, <2>1, <2>2
  <2>4. Due <= Len(sizes) => ~Frames!Complete(Due) /\ ~Frames!Refused(Due)
    BY <1>1, <2>1 DEF RecvInv, Resting
  <2>5. Len(out) < Len(sizes) =>
          ~Frames!Complete(Len(out) + 1) /\ ~Frames!Refused(Len(out) + 1)
    BY <2>1, <2>4 DEF Due
  <2>6. Frames!Arrive(n)
    BY <1>1, <1>3, <2>2, <2>5 DEF Frames!Arrive
  <2> QED
    BY <2>3, <2>6 DEF Frames!FNext
<1> QED
  BY <1>2, <1>3

\* An event of a link with a template is the delivery of the message due.
LEMMA EventDelivers ==
  ASSUME RecvInv, LbFilled \/ ParseDelivered
  PROVE  Frames!Deliver
<1>1. /\ cb > 0 /\ Due \in 1..Len(sizes) /\ Frames!Good(Due)
      /\ Frames!Start[Due + 1] <= rx /\ Len(out') = Len(out) + 1
  BY LbFilledKeeps, ParseDeliveredKeeps
<1>2. cb' = cb /\ sizes' = sizes /\ rx' = rx /\ stat' = stat
  BY DEF LbFilled, ParseDelivered, Deliver, peervars, linkvars
<1>3. cb # 0 /\ Len(out) \in Nat /\ Len(sizes) \in Nat
  BY <1>1, Basics
<1>4. Frames!Complete(Len(out) + 1)
  BY <1>1, <1>3 DEF Frames!Complete, Due
<1>5. Len(out) < Len(sizes)
  BY <1>1, <1>3 DEF Due
<1> QED
  BY <1>1, <1>2, <1>3, <1>4, <1>5 DEF Frames!Deliver

\* TcpRecv implements FrameStream: the completion of a receive is Arrive, each
\* event of a link with a template is Deliver, closing the link is Down, and
\* every other step, also every step of a link without a template, is hidden.
THEOREM RecvImplementsFrames == Spec => ImplementsFrames
<1>1. Init => Frames!FInit
  <2> SUFFICES ASSUME Init PROVE Frames!FInit
    OBVIOUS
  <2> QED
    BY DEF Init, Frames!FInit
<1>2. RecvInv /\ [Next]_vars => [Frames!FNext]_(Frames!fvars)
  <2> SUFFICES ASSUME RecvInv, [Next]_vars PROVE [Frames!FNext]_(Frames!fvars)
    OBVIOUS
  <2>1. ASSUME sizes' = sizes, cb' = cb, rx' = rx, out' = out
        PROVE  [Frames!FNext]_(Frames!fvars)
    <3>1. CASE (stat = "normal") <=> (stat' = "normal")
      BY <2>1, <3>1 DEF Frames!fvars
    <3>2. CASE stat = "normal" /\ stat' # "normal"
      BY <2>1, <3>2 DEF Frames!FNext, Frames!Down
    <3> QED
      BY <3>1, <3>2, NoReopen
  <2>2. CASE \E n \in 1..size_for_req : Received(n)
    BY <2>2, ReceivedArrives
  <2>3. CASE LbFilled \/ ParseDelivered
    BY <2>3, EventDelivers DEF Frames!FNext
  <2>4. CASE ParseRaw
    BY <2>4 DEF ParseRaw, peervars, linkvars, Frames!fvars
  <2>5. CASE LbPart \/ ParseRemainder \/ ParseLarge
    BY <2>1, <2>5 DEF LbPart, ParseRemainder, ParseRemainderFrom, ParseLarge, peervars
  <2>6. CASE \/ Disconnected \/ ReceivedNoEntry
             \/ ParseRefused \/ ParseLargeNoMemory
             \/ PostRecv \/ PostFailed \/ Fail \/ Exit
             \/ tcp_destroy \/ DestroyReturns
             \/ UNCHANGED vars
    <3>1. StatusStep
      BY <2>6, StatusSteps
    <3> QED
      BY <2>1, <3>1 DEF StatusStep, peervars
  <2> QED
    BY <2>2, <2>3, <2>4, <2>5, <2>6 DEF Next, IoStep, Gone
<1> QED
  BY <1>1, <1>2, RecvInvariant, PTL DEF Spec, ImplementsFrames, Frames!FSpec

=============================================================================
