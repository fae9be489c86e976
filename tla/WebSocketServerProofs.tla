------------------------ MODULE WebSocketServerProofs ------------------------
(***************************************************************************)
(* The WebSocket server, for any clients, any frames and every way of      *)
(* cutting their bytes into chunks. FrameInv says where the server stands  *)
(* in what a client sends: it has handled the frames that are whole, and   *)
(* its buffer is what has arrived behind them. EveryoneHears and           *)
(* ClientsConnected are parts of the invariant as they are. Kept,          *)
(* FlattenSeq, BigEndian and the loop are recursive functions: facts about *)
(* them are proved by the least counterexample.                            *)
(***************************************************************************)
EXTENDS WebSocketServer, FiniteSetTheorems, SequenceTheorems, WellFoundedInduction, TLAPS

(* Induction by the least counterexample.                                  *)
LEMMA LeastElement ==
  ASSUME NEW T, T \subseteq Nat, T # {}
  PROVE  \E x \in T : \A y \in T : x <= y
<1>1. \E x \in T : \A y \in T : ~ (<<y, x>> \in OpToRel(<, Nat))
  BY NatLessThanWellFounded, WFMin
<1>2. PICK x \in T : \A y \in T : ~ (<<y, x>> \in OpToRel(<, Nat))
  BY <1>1
<1>3. \A y \in T : ~ (y < x)
  BY <1>2 DEF OpToRel
<1> QED
  BY <1>3

-----------------------------------------------------------------------------
(* FlattenSeq is recursive: its body, and its equation up to n.            *)
FlattenStep(seqs, g, i) == IF i = 1 THEN seqs[i] ELSE g[i - 1] \o seqs[i]
FlattensUpTo(seqs, n, g) == g = [i \in 1..n |-> FlattenStep(seqs, g, i)]

(* The recursive body of FlattenSeq has a function at every length.        *)
LEMMA FlatteningExists ==
  ASSUME NEW seqs, NEW n \in Nat
  PROVE  \E g : FlattensUpTo(seqs, n, g)
<1> DEFINE T == {m \in Nat : ~ \E g : FlattensUpTo(seqs, m, g)}
<1> SUFFICES ASSUME T # {} PROVE FALSE
  OBVIOUS
<1>1. PICK m \in T : \A y \in T : m <= y
  BY LeastElement
<1>2. PICK g : m # 0 => FlattensUpTo(seqs, m - 1, g)
  <2>1. m # 0 => m - 1 \in Nat /\ m - 1 \notin T
    BY <1>1
  <2> QED
    BY <2>1
<1> DEFINE h == [i \in 1..m |-> FlattenStep(seqs, g, i)]
<1>3. ASSUME NEW i \in 1..m PROVE FlattenStep(seqs, g, i) = FlattenStep(seqs, h, i)
  <2>1. CASE i = 1
    BY <2>1 DEF FlattenStep
  <2>2. CASE i # 1
    <3>1. i - 1 \in 1..(m - 1) /\ i - 1 \in 1..m
      BY <2>2
    <3>2. g[i - 1] = FlattenStep(seqs, g, i - 1)
      BY <1>2, <3>1 DEF FlattensUpTo
    <3>3. g[i - 1] = h[i - 1]
      BY <3>1, <3>2
    <3> HIDE DEF h
    <3> QED
      BY <2>2, <3>3, Zenon DEF FlattenStep
  <2> QED
    BY <2>1, <2>2
<1>4. h = [i \in 1..m |-> FlattenStep(seqs, h, i)]
  BY <1>3
<1>5. FlattensUpTo(seqs, m, h)
  BY <1>4 DEF FlattensUpTo
<1> QED
  BY <1>1, <1>5

(* Two lists of sequences that begin alike are flattened alike.            *)
LEMMA FlatteningUnique ==
  ASSUME NEW r, NEW s, NEW n \in Nat, NEW m \in Nat, NEW g, NEW h,
         FlattensUpTo(r, n, g), FlattensUpTo(s, m, h),
         NEW i \in Nat, 1 <= i, i <= n, i <= m
  PROVE  (\A j \in 1..i : r[j] = s[j]) => g[i] = h[i]
<1> HAVE \A j \in 1..i : r[j] = s[j]
<1> DEFINE T == {j \in Nat : 1 <= j /\ j <= i /\ g[j] # h[j]}
<1> SUFFICES ASSUME T # {} PROVE FALSE
  OBVIOUS
<1>1. PICK j \in T : \A y \in T : j <= y
  BY LeastElement
<1>2. j \in 1..n /\ j \in 1..m /\ j \in 1..i
  BY <1>1
<1>3. g[j] = FlattenStep(r, g, j) /\ h[j] = FlattenStep(s, h, j)
  BY <1>2 DEF FlattensUpTo
<1>4. r[j] = s[j]
  BY <1>2
<1>5. CASE j = 1
  BY <1>1, <1>3, <1>4, <1>5 DEF FlattenStep
<1>6. CASE j # 1
  <2>1. j - 1 \in Nat /\ 1 <= j - 1 /\ j - 1 <= i /\ j - 1 \notin T
    BY <1>1, <1>2, <1>6
  <2>2. g[j - 1] = h[j - 1]
    BY <2>1
  <2>3. g[j] = h[j]
    BY <1>3, <1>4, <1>6, <2>2, Zenon DEF FlattenStep
  <2> QED
    BY <1>1, <2>3
<1> QED
  BY <1>5, <1>6

(* FlattenSeq is what that function gives at the full length.              *)
LEMMA FlattenEquation ==
  ASSUME NEW seqs, Len(seqs) \in Nat, Len(seqs) # 0
  PROVE  \E g : FlattensUpTo(seqs, Len(seqs), g) /\ FlattenSeq(seqs) = g[Len(seqs)]
<1> DEFINE g == CHOOSE f : f = [i \in 1..Len(seqs) |-> FlattenStep(seqs, f, i)]
<1>1. FlattensUpTo(seqs, Len(seqs), g)
  BY FlatteningExists DEF FlattensUpTo
<1>2. FlattenSeq(seqs) = g[Len(seqs)]
  BY DEF FlattenSeq, FlattenStep
<1> HIDE DEF g
<1> QED
  BY <1>1, <1>2

(* A list of sequences is flattened one after the other.                   *)
LEMMA FlattenLonger ==
  ASSUME NEW p, NEW q, NEW n \in Nat, NEW m \in Nat,
         Len(p) = n, Len(q) = m, n = m + 1, \A i \in 1..m : p[i] = q[i]
  PROVE  IF m = 0 THEN FlattenSeq(p) = p[n] ELSE FlattenSeq(p) = FlattenSeq(q) \o p[n]
<1>1. PICK g : FlattensUpTo(p, n, g) /\ FlattenSeq(p) = g[n]
  BY FlattenEquation
<1>2. g[n] = FlattenStep(p, g, n)
  BY <1>1, n \in 1..n DEF FlattensUpTo
<1>3. CASE m = 0
  BY <1>1, <1>2, <1>3 DEF FlattenStep
<1>4. CASE m # 0
  <2>1. PICK h : FlattensUpTo(q, m, h) /\ FlattenSeq(q) = h[m]
    BY <1>4, FlattenEquation
  <2>2. g[m] = h[m]
    BY <1>1, <1>4, <2>1, FlatteningUnique
  <2>3. n # 1 /\ n - 1 = m
    BY <1>4
  <2> QED
    BY <1>1, <1>2, <1>4, <2>1, <2>2, <2>3, Zenon DEF FlattenStep
<1> QED
  BY <1>3, <1>4

(* One sequence more is flattened behind those before it.                  *)
LEMMA FlattenPrefix ==
  ASSUME NEW S, NEW seqs \in Seq(Seq(S)), NEW j \in 0..(Len(seqs) - 1)
  PROVE  /\ FlattenSeq(SubSeq(seqs, 1, 0)) = <<>>
         /\ FlattenSeq(SubSeq(seqs, 1, j + 1)) = FlattenSeq(SubSeq(seqs, 1, j)) \o seqs[j + 1]
<1> DEFINE P(k) == SubSeq(seqs, 1, k)
<1>1. FlattenSeq(P(0)) = <<>>
  <2>1. P(0) = <<>> /\ Len(P(0)) = 0
    OBVIOUS
  <2> HIDE DEF P
  <2> QED
    BY <2>1 DEF FlattenSeq
<1>2. j \in Nat /\ j + 1 \in Nat /\ j + 1 <= Len(seqs) /\ Len(seqs) \in Nat
  OBVIOUS
<1>3. ASSUME NEW k \in Nat, k <= Len(seqs)
      PROVE  Len(P(k)) = k /\ \A i \in 1..k : P(k)[i] = seqs[i]
  BY <1>2
<1>4. seqs[j + 1] \in Seq(S)
  BY <1>2, j + 1 \in DOMAIN seqs
<1> HIDE DEF P
<1>5. PICK p, q, n : p = P(j + 1) /\ q = P(j) /\ n = j + 1
  OBVIOUS
<1>6. Len(p) = n /\ Len(q) = j /\ p[n] = seqs[j + 1] /\ \A i \in 1..j : p[i] = q[i]
  BY <1>2, <1>3, <1>5
<1>7. IF j = 0 THEN FlattenSeq(p) = p[n] ELSE FlattenSeq(p) = FlattenSeq(q) \o p[n]
  <2>1. n \in Nat /\ j \in Nat /\ n = j + 1
    BY <1>2, <1>5
  <2> QED
    BY <1>6, <2>1, FlattenLonger
<1>8. FlattenSeq(P(j + 1)) = FlattenSeq(P(j)) \o seqs[j + 1]
  <2>1. <<>> \o seqs[j + 1] = seqs[j + 1]
    BY <1>4
  <2> QED
    BY <1>1, <1>5, <1>6, <1>7, <2>1, Zenon
<1> QED
  BY <1>1, <1>8, Zenon DEF P

(* Flattening sequences over a set gives one over it.                      *)
LEMMA FlattenType ==
  ASSUME NEW S, NEW seqs \in Seq(Seq(S))
  PROVE  FlattenSeq(seqs) \in Seq(S)
<1> DEFINE F(j) == FlattenSeq(SubSeq(seqs, 1, j))
           T == {j \in Nat : j <= Len(seqs) /\ F(j) \notin Seq(S)}
<1>1. Len(seqs) \in Nat /\ SubSeq(seqs, 1, Len(seqs)) = seqs
  OBVIOUS
<1>2. T = {}
  <2> SUFFICES ASSUME T # {} PROVE FALSE
    OBVIOUS
  <2>1. PICK j \in T : \A y \in T : j <= y
    BY LeastElement
  <2>2. j # 0
    <3>1. F(0) = <<>>
      <4>1. SubSeq(seqs, 1, 0) = <<>>
        OBVIOUS
      <4> QED
        BY <4>1, Len(<<>>) = 0 DEF FlattenSeq
    <3> HIDE DEF F
    <3>2. F(0) \in Seq(S)
      BY <3>1, <<>> \in Seq(S), Zenon
    <3> QED
      BY <3>2, <2>1
  <2>3. j - 1 \in 0..(Len(seqs) - 1) /\ j - 1 \in Nat /\ j - 1 <= Len(seqs) /\ (j - 1) + 1 = j
    BY <1>1, <2>1, <2>2
  <2>4. F(j) = F(j - 1) \o seqs[j]
    <3>1. F((j - 1) + 1) = F(j - 1) \o seqs[(j - 1) + 1]
      BY <2>3, FlattenPrefix
    <3> QED
      BY <2>3, <3>1
  <2> HIDE DEF F
  <2>5. F(j - 1) \in Seq(S)
    BY <2>1, <2>3
  <2>6. seqs[j] \in Seq(S)
    <3>1. j \in 1..Len(seqs)
      BY <1>1, <2>1, <2>2
    <3> QED
      BY <3>1
  <2>7. F(j) \in Seq(S)
    BY <2>4, <2>5, <2>6
  <2> QED
    BY <2>1, <2>7
<1>3. F(Len(seqs)) \in Seq(S)
  BY <1>1, <1>2
<1> QED
  BY <1>1, <1>3

(* What is in a concatenation, and where.                                  *)
LEMMA Joined ==
  ASSUME NEW S, NEW s \in Seq(S), NEW t \in Seq(S)
  PROVE  /\ s \o t \in Seq(S) /\ Len(s \o t) = Len(s) + Len(t)
         /\ \A i \in 1..Len(s) : (s \o t)[i] = s[i]
         /\ \A i \in 1..Len(t) : (s \o t)[Len(s) + i] = t[i]
  OBVIOUS

(* What is left of a sequence whose front is cut off.                      *)
LEMMA Dropped ==
  ASSUME NEW S, NEW b \in Seq(S), NEW l \in 0..Len(b)
  PROVE  /\ SubSeq(b, l + 1, Len(b)) \in Seq(S) /\ Len(SubSeq(b, l + 1, Len(b))) = Len(b) - l
         /\ \A i \in 1..(Len(b) - l) : SubSeq(b, l + 1, Len(b))[i] = b[l + i]
  OBVIOUS

-----------------------------------------------------------------------------
(* Kept is recursive: its body, and its equation up to n.                  *)
KeptStep(s, T, g, i) ==
  IF i = 0 THEN <<>> ELSE IF s[i] \in T THEN Append(g[i - 1], s[i]) ELSE g[i - 1]
KeepsUpTo(s, T, n, g) == g = [i \in 0..n |-> KeptStep(s, T, g, i)]

(* The recursive body of Kept has a function at every length.              *)
LEMMA KeepingExists ==
  ASSUME NEW s, NEW T, NEW n \in Nat
  PROVE  \E g : KeepsUpTo(s, T, n, g)
<1> DEFINE U == {m \in Nat : ~ \E g : KeepsUpTo(s, T, m, g)}
<1> SUFFICES ASSUME U # {} PROVE FALSE
  OBVIOUS
<1>1. PICK m \in U : \A y \in U : m <= y
  BY LeastElement
<1>2. PICK g : m # 0 => KeepsUpTo(s, T, m - 1, g)
  <2>1. m # 0 => m - 1 \in Nat /\ m - 1 \notin U
    BY <1>1
  <2> QED
    BY <2>1
<1> DEFINE h == [i \in 0..m |-> KeptStep(s, T, g, i)]
<1>3. ASSUME NEW i \in 0..m PROVE KeptStep(s, T, g, i) = KeptStep(s, T, h, i)
  <2>1. CASE i = 0
    BY <2>1 DEF KeptStep
  <2>2. CASE i # 0
    <3>1. i - 1 \in 0..(m - 1) /\ i - 1 \in 0..m
      BY <2>2
    <3>2. g[i - 1] = KeptStep(s, T, g, i - 1)
      BY <1>2, <3>1 DEF KeepsUpTo
    <3>3. g[i - 1] = h[i - 1]
      BY <3>1, <3>2
    <3> HIDE DEF h
    <3> QED
      BY <2>2, <3>3, Zenon DEF KeptStep
  <2> QED
    BY <2>1, <2>2
<1>4. h = [i \in 0..m |-> KeptStep(s, T, h, i)]
  BY <1>3
<1>5. KeepsUpTo(s, T, m, h)
  BY <1>4 DEF KeepsUpTo
<1> QED
  BY <1>1, <1>5

(* Kept is what that function gives at the full length.                    *)
LEMMA KeptEquation ==
  ASSUME NEW s, NEW T, Len(s) \in Nat
  PROVE  \E g : KeepsUpTo(s, T, Len(s), g) /\ Kept(s, T) = g[Len(s)]
<1> DEFINE g == CHOOSE f : f = [i \in 0..Len(s) |-> KeptStep(s, T, f, i)]
<1>1. KeepsUpTo(s, T, Len(s), g)
  BY KeepingExists DEF KeepsUpTo
<1>2. Kept(s, T) = g[Len(s)]
  BY DEF Kept, KeptStep
<1> HIDE DEF g
<1> QED
  BY <1>1, <1>2

Alike(r, s, n) == \A i \in 1..n : r[i] = s[i]

(* Of two sequences that begin alike the same is kept so far.              *)
LEMMA KeepingUnique ==
  ASSUME NEW r, NEW s, NEW T, NEW n \in Nat, NEW m \in Nat, NEW g, NEW h,
         KeepsUpTo(r, T, n, g), KeepsUpTo(s, T, m, h), NEW i \in Nat, i <= n, i <= m,
         Alike(r, s, i)
  PROVE  g[i] = h[i]
<1>0. \A j \in 1..i : r[j] = s[j]
  BY DEF Alike
<1> DEFINE U == {j \in Nat : j <= i /\ g[j] # h[j]}
<1> SUFFICES ASSUME U # {} PROVE FALSE
  OBVIOUS
<1>1. PICK j \in U : \A y \in U : j <= y
  BY LeastElement
<1>2. j \in 0..n /\ j \in 0..m /\ j \in 0..i
  BY <1>1
<1>3. g[j] = KeptStep(r, T, g, j) /\ h[j] = KeptStep(s, T, h, j)
  BY <1>2 DEF KeepsUpTo
<1>4. CASE j = 0
  BY <1>1, <1>3, <1>4 DEF KeptStep
<1>5. CASE j # 0
  <2>1. j - 1 \in Nat /\ j - 1 <= i /\ j - 1 \notin U /\ j \in 1..i
    BY <1>1, <1>2, <1>5
  <2>2. g[j - 1] = h[j - 1] /\ r[j] = s[j]
    BY <1>0, <2>1
  <2> DEFINE y == r[j]
             k == h[j - 1]
  <2>3. /\ g[j] = IF y \in T THEN Append(k, y) ELSE k
        /\ h[j] = IF y \in T THEN Append(k, y) ELSE k
    BY <1>3, <1>5, <2>2, Zenon DEF KeptStep
  <2> HIDE DEF y, k
  <2> QED
    BY <1>1, <2>3
<1> QED
  BY <1>4, <1>5

(* One element more is kept, or not.                                       *)
LEMMA KeptLonger ==
  ASSUME NEW p, NEW q, NEW T, NEW n \in Nat, NEW m \in Nat,
         Len(p) = n, Len(q) = m, n = m + 1, Alike(p, q, m)
  PROVE  Kept(p, T) = IF p[n] \in T THEN Append(Kept(q, T), p[n]) ELSE Kept(q, T)
<1>1. PICK g : KeepsUpTo(p, T, n, g) /\ Kept(p, T) = g[n]
  BY KeptEquation
<1>2. g[n] = KeptStep(p, T, g, n)
  BY <1>1, n \in 0..n DEF KeepsUpTo
<1>3. PICK h : KeepsUpTo(q, T, m, h) /\ Kept(q, T) = h[m]
  BY KeptEquation
<1>4. g[m] = h[m]
  <2>1. m <= n /\ m <= m
    OBVIOUS
  <2> QED
    BY <1>1, <1>3, <2>1, KeepingUnique
<1>5. n # 0 /\ n - 1 = m
  OBVIOUS
<1> QED
  BY <1>1, <1>2, <1>3, <1>4, <1>5, Zenon DEF KeptStep

(* Of nothing, nothing is kept.                                            *)
LEMMA KeptNothing == \A T : Kept(<<>>, T) = <<>>
<1> SUFFICES ASSUME NEW T PROVE Kept(<<>>, T) = <<>>
  OBVIOUS
<1>1. PICK g : KeepsUpTo(<<>>, T, 0, g) /\ Kept(<<>>, T) = g[0]
  <2>1. Len(<<>>) = 0 /\ 0 \in Nat
    OBVIOUS
  <2> QED
    BY <2>1, KeptEquation
<1>2. g[0] = KeptStep(<<>>, T, g, 0)
  BY <1>1 DEF KeepsUpTo
<1> QED
  BY <1>1, <1>2 DEF KeptStep

(* Appending, seen by what is kept.                                        *)
LEMMA KeptAppend ==
  ASSUME NEW S, NEW s \in Seq(S), NEW x \in S, NEW T
  PROVE  Kept(Append(s, x), T) = IF x \in T THEN Append(Kept(s, T), x) ELSE Kept(s, T)
<1>1. PICK p, n, m : p = Append(s, x) /\ n = Len(s) + 1 /\ m = Len(s)
  OBVIOUS
<1>2. n \in Nat /\ m \in Nat /\ n = m + 1 /\ Len(s) = m
  BY <1>1
<1>3. Len(p) = n /\ p[n] = x /\ Alike(p, s, m)
  <2>1. ASSUME NEW i \in 1..Len(s) PROVE Append(s, x)[i] = s[i]
    OBVIOUS
  <2>2. Len(Append(s, x)) = Len(s) + 1 /\ Append(s, x)[Len(s) + 1] = x
    OBVIOUS
  <2> QED
    BY <1>1, <2>1, <2>2 DEF Alike
<1>4. Kept(p, T) = IF p[n] \in T THEN Append(Kept(s, T), p[n]) ELSE Kept(s, T)
  BY <1>2, <1>3, KeptLonger
<1> QED
  BY <1>1, <1>3, <1>4

(* What is kept of a prefix that grows by one.                             *)
LEMMA KeptPrefix ==
  ASSUME NEW S, NEW s \in Seq(S), NEW j \in 0..(Len(s) - 1), NEW T
  PROVE  /\ SubSeq(s, 1, j) \in Seq(S) /\ s[j + 1] \in S
         /\ SubSeq(s, 1, j + 1) = Append(SubSeq(s, 1, j), s[j + 1])
         /\ Kept(SubSeq(s, 1, j + 1), T) = IF s[j + 1] \in T THEN Append(Kept(SubSeq(s, 1, j), T), s[j + 1])
                                           ELSE Kept(SubSeq(s, 1, j), T)
<1>1. SubSeq(s, 1, j) \in Seq(S) /\ s[j + 1] \in S
  <2>1. j + 1 \in 1..Len(s)
    OBVIOUS
  <2> QED
    BY <2>1
<1>2. SubSeq(s, 1, j + 1) = Append(SubSeq(s, 1, j), s[j + 1])
  OBVIOUS
<1> DEFINE q == SubSeq(s, 1, j)
           x == s[j + 1]
<1>3. q \in Seq(S) /\ x \in S
  BY <1>1
<1> HIDE DEF q, x
<1>4. Kept(Append(q, x), T) = IF x \in T THEN Append(Kept(q, T), x) ELSE Kept(q, T)
  BY <1>3, KeptAppend
<1> QED
  BY <1>1, <1>2, <1>4, Zenon DEF q, x

(* An induction over the beginnings of a sequence, cut short: the longest  *)
(* beginning is the sequence.                                              *)
LEMMA WholePrefix ==
  ASSUME NEW S, NEW s \in Seq(S)
  PROVE  SubSeq(s, 1, Len(s)) = s /\ SubSeq(s, 1, 0) = <<>> /\ Len(s) \in Nat
  OBVIOUS

(* What is kept is made of what was there.                                 *)
LEMMA KeptType ==
  ASSUME NEW S, NEW s \in Seq(S), NEW T
  PROVE  Kept(s, T) \in Seq(S \cap T)
<1> DEFINE K(j) == Kept(SubSeq(s, 1, j), T)
           U == {j \in Nat : j <= Len(s) /\ K(j) \notin Seq(S \cap T)}
<1>1. Len(s) \in Nat /\ K(0) \in Seq(S \cap T) /\ K(Len(s)) = Kept(s, T)
  <2>0. <<>> \in Seq(S \cap T)
    OBVIOUS
  <2>1. K(0) = <<>>
    BY WholePrefix, KeptNothing
  <2> HIDE DEF K
  <2>2. K(0) \in Seq(S \cap T)
    BY <2>0, <2>1, Zenon
  <2> QED
    BY <2>2, WholePrefix DEF K
<1>2. ASSUME NEW j \in Nat, j < Len(s), K(j) \in Seq(S \cap T) PROVE K(j + 1) \in Seq(S \cap T)
  <2> DEFINE x == s[j + 1]
             k == K(j)
  <2>1. j \in 0..(Len(s) - 1)
    BY <1>1, <1>2
  <2>2. x \in S /\ K(j + 1) = IF x \in T THEN Append(k, x) ELSE k
    BY <2>1, KeptPrefix
  <2>3. k \in Seq(S \cap T)
    BY <1>2
  <2> HIDE DEF K, x, k
  <2>4. x \in T => Append(k, x) \in Seq(S \cap T)
    BY <2>2, <2>3
  <2> QED
    BY <2>2, <2>3, <2>4, Zenon
<1> HIDE DEF K
<1>3. U = {}
  <2> SUFFICES ASSUME U # {} PROVE FALSE
    OBVIOUS
  <2>1. PICK j \in U : \A y \in U : j <= y
    BY LeastElement
  <2>2. j # 0
    BY <1>1, <2>1
  <2>3. j - 1 \in Nat /\ j - 1 < Len(s) /\ j - 1 \notin U /\ (j - 1) + 1 = j
    BY <1>1, <2>1, <2>2
  <2>4. K(j - 1) \in Seq(S \cap T)
    BY <1>1, <2>3
  <2>5. K((j - 1) + 1) \in Seq(S \cap T)
    BY <1>2, <2>3, <2>4
  <2> QED
    BY <2>1, <2>3, <2>5
<1> QED
  BY <1>1, <1>3

(* Of a concatenation is kept what is kept of either part.                 *)
LEMMA KeptConcat ==
  ASSUME NEW S, NEW s \in Seq(S), NEW t \in Seq(S), NEW T
  PROVE  Kept(s \o t, T) = Kept(s, T) \o Kept(t, T)
<1> DEFINE K(j) == Kept(SubSeq(t, 1, j), T)
           C(j) == Kept(s \o SubSeq(t, 1, j), T)
           U == {j \in Nat : j <= Len(t) /\ C(j) # Kept(s, T) \o K(j)}
<1>1. Len(t) \in Nat /\ K(0) = <<>> /\ K(Len(t)) = Kept(t, T) /\ C(Len(t)) = Kept(s \o t, T)
  BY WholePrefix, KeptNothing
<1>2. Kept(s, T) \in Seq(S \cap T)
  BY KeptType
<1>3. C(0) = Kept(s, T) \o K(0)
  <2>1. SubSeq(t, 1, 0) = <<>>
    BY WholePrefix
  <2>2. s \o <<>> = s
    OBVIOUS
  <2> DEFINE k == Kept(s, T)
  <2> HIDE DEF k
  <2>3. k \o <<>> = k
    BY <1>2 DEF k
  <2> QED
    BY <1>1, <2>1, <2>2, <2>3, Zenon DEF k
<1>4. ASSUME NEW j \in Nat, j < Len(t), C(j) = Kept(s, T) \o K(j)
      PROVE  C(j + 1) = Kept(s, T) \o K(j + 1)
  <2> DEFINE p == SubSeq(t, 1, j)
             x == t[j + 1]
             k == Kept(s, T)
  <2>1. j \in 0..(Len(t) - 1)
    BY <1>1, <1>4
  <2>2. /\ p \in Seq(S) /\ x \in S /\ SubSeq(t, 1, j + 1) = Append(p, x)
        /\ K(j + 1) = IF x \in T THEN Append(K(j), x) ELSE K(j)
    BY <2>1, KeptPrefix
  <2>3. K(j) \in Seq(S \cap T)
    BY <2>2, KeptType
  <2>4. s \o Append(p, x) = Append(s \o p, x) /\ s \o p \in Seq(S)
    <3> HIDE DEF p, x
    <3>1. p \in Seq(S)
      BY <2>2
    <3> QED
      BY <3>1, <2>2
  <2>5. C(j + 1) = IF x \in T THEN Append(C(j), x) ELSE C(j)
    <3> DEFINE q == s \o p
    <3> HIDE DEF q, p, x
    <3>0. q \in Seq(S) /\ x \in S
      BY <2>2, <2>4 DEF q
    <3>1. Kept(Append(q, x), T) = IF x \in T THEN Append(Kept(q, T), x) ELSE Kept(q, T)
      BY <3>0, KeptAppend
    <3> QED
      BY <2>2, <2>4, <3>1, Zenon DEF q, p
  <2> HIDE DEF K, C, p, x, k
  <2>6. x \in T => k \o Append(K(j), x) = Append(k \o K(j), x)
    <3>1. k \in Seq(S \cap T)
      BY <1>2 DEF k
    <3> QED
      BY <2>2, <2>3, <3>1
  <2> QED
    BY <1>4, <2>2, <2>5, <2>6, Zenon DEF k
<1> HIDE DEF K, C
<1>5. U = {}
  <2> SUFFICES ASSUME U # {} PROVE FALSE
    OBVIOUS
  <2>1. PICK j \in U : \A y \in U : j <= y
    BY LeastElement
  <2>2. j # 0
    BY <1>3, <2>1
  <2>3. j - 1 \in Nat /\ j - 1 < Len(t) /\ j - 1 \notin U /\ (j - 1) + 1 = j
    BY <1>1, <2>1, <2>2
  <2>4. C(j - 1) = Kept(s, T) \o K(j - 1)
    BY <1>1, <2>3
  <2>5. C((j - 1) + 1) = Kept(s, T) \o K((j - 1) + 1)
    BY <1>4, <2>3, <2>4
  <2> QED
    BY <2>1, <2>3, <2>5
<1> QED
  BY <1>1, <1>5

(* Of a sequence over T all is kept, of one over another set nothing.      *)
LEMMA KeptAll ==
  ASSUME NEW T, NEW s \in Seq(T)
  PROVE  Kept(s, T) = s
<1> DEFINE K(j) == Kept(SubSeq(s, 1, j), T)
           U == {j \in Nat : j <= Len(s) /\ K(j) # SubSeq(s, 1, j)}
<1>1. Len(s) \in Nat /\ K(0) = SubSeq(s, 1, 0) /\ SubSeq(s, 1, Len(s)) = s
  BY WholePrefix, KeptNothing
<1>2. ASSUME NEW j \in Nat, j < Len(s), K(j) = SubSeq(s, 1, j) PROVE K(j + 1) = SubSeq(s, 1, j + 1)
  <2>1. j \in 0..(Len(s) - 1)
    BY <1>1, <1>2
  <2> DEFINE x == s[j + 1]
             p == SubSeq(s, 1, j)
  <2>2. x \in T /\ K(j + 1) = (IF x \in T THEN Append(K(j), x) ELSE K(j))
        /\ SubSeq(s, 1, j + 1) = Append(p, x)
    BY <2>1, KeptPrefix
  <2>3. K(j) = p
    BY <1>2
  <2> HIDE DEF K, x, p
  <2> QED
    BY <2>2, <2>3, Zenon
<1>3. U = {}
  <2> HIDE DEF K
  <2> SUFFICES ASSUME U # {} PROVE FALSE
    OBVIOUS
  <2>1. PICK j \in U : \A y \in U : j <= y
    BY LeastElement
  <2>2. j # 0
    BY <1>1, <2>1
  <2>3. j - 1 \in Nat /\ j - 1 < Len(s) /\ j - 1 \notin U /\ (j - 1) + 1 = j
    BY <1>1, <2>1, <2>2
  <2>4. K(j - 1) = SubSeq(s, 1, j - 1)
    BY <1>1, <2>3
  <2>5. K((j - 1) + 1) = SubSeq(s, 1, (j - 1) + 1)
    BY <1>2, <2>3, <2>4
  <2> QED
    BY <2>1, <2>3, <2>5
<1>4. K(Len(s)) = SubSeq(s, 1, Len(s))
  BY <1>1, <1>3
<1> QED
  BY <1>1, <1>4

(* Of a sequence over a set apart from T, nothing is kept.                 *)
LEMMA KeptNone ==
  ASSUME NEW S, NEW s \in Seq(S), NEW T, S \cap T = {}
  PROVE  Kept(s, T) = <<>>
<1>1. Kept(s, T) \in Seq({})
  BY KeptType
<1> QED
  BY <1>1

-----------------------------------------------------------------------------
(* Numbers of several bytes.  BigEndian is recursive: its equation.        *)
ReadStep(s, g, i) == IF i = 0 THEN 0 ELSE 256 * g[i - 1] + s[i]
ReadsUpTo(s, n, g) == g = [i \in 0..n |-> ReadStep(s, g, i)]

(* The recursive body of BigEndian has a function at every length.         *)
LEMMA ReadingExists ==
  ASSUME NEW s, NEW n \in Nat
  PROVE  \E g : ReadsUpTo(s, n, g)
<1> DEFINE U == {m \in Nat : ~ \E g : ReadsUpTo(s, m, g)}
<1> SUFFICES ASSUME U # {} PROVE FALSE
  OBVIOUS
<1>1. PICK m \in U : \A y \in U : m <= y
  BY LeastElement
<1>2. PICK g : m # 0 => ReadsUpTo(s, m - 1, g)
  <2>1. m # 0 => m - 1 \in Nat /\ m - 1 \notin U
    BY <1>1
  <2> QED
    BY <2>1
<1> DEFINE h == [i \in 0..m |-> ReadStep(s, g, i)]
<1>3. ASSUME NEW i \in 0..m PROVE ReadStep(s, g, i) = ReadStep(s, h, i)
  <2>1. CASE i = 0
    BY <2>1 DEF ReadStep
  <2>2. CASE i # 0
    <3>1. i - 1 \in 0..(m - 1) /\ i - 1 \in 0..m
      BY <2>2
    <3>2. g[i - 1] = ReadStep(s, g, i - 1)
      BY <1>2, <3>1 DEF ReadsUpTo
    <3>3. g[i - 1] = h[i - 1]
      BY <3>1, <3>2
    <3> HIDE DEF h
    <3> QED
      BY <2>2, <3>3, Zenon DEF ReadStep
  <2> QED
    BY <2>1, <2>2
<1>4. h = [i \in 0..m |-> ReadStep(s, h, i)]
  BY <1>3
<1>5. ReadsUpTo(s, m, h)
  BY <1>4 DEF ReadsUpTo
<1> QED
  BY <1>1, <1>5

(* BigEndian is what that function gives at the full length.               *)
LEMMA ReadEquation ==
  ASSUME NEW s, Len(s) \in Nat
  PROVE  \E g : ReadsUpTo(s, Len(s), g) /\ BigEndian(s) = g[Len(s)]
<1> DEFINE g == CHOOSE f : f = [i \in 0..Len(s) |-> ReadStep(s, f, i)]
<1>1. ReadsUpTo(s, Len(s), g)
  BY ReadingExists DEF ReadsUpTo
<1>2. BigEndian(s) = g[Len(s)]
  BY DEF BigEndian, ReadStep
<1> HIDE DEF g
<1> QED
  BY <1>1, <1>2

(* A function on the first numbers is a sequence.                          *)
LEMMA FunctionSeq ==
  ASSUME NEW S, NEW n \in Nat, NEW f \in [1..n -> S]
  PROVE  f \in Seq(S) /\ Len(f) = n
  OBVIOUS

(* Octets, without their list.                                             *)
LEMMA OctetRange == \A x : x \in Octets <=> x \in Nat /\ x <= 255
  BY DEF Octets

(* A number cut into bytes is read back.                                   *)
MaxTwoBytes == 65535

(* Two bytes are read as the number they are the digits of.                *)
LEMMA DigitsTwo ==
  ASSUME NEW n \in Nat, n <= MaxTwoBytes
  PROVE  /\ Digits(n, 2) \in Seq(Octets) /\ Len(Digits(n, 2)) = 2
         /\ BigEndian(Digits(n, 2)) = n
<1> DEFINE d == Digits(n, 2)
           a == (n \div 256) % 256
           e == n % 256
<1>1. d = [i \in 1..2 |-> IF i = 1 THEN a ELSE e]
  <2>1. \A i \in 1..2 : /\ ~(2 - i > 3)
                        /\ (n \div <<1, 256, 65536, 16777216>>[2 - i + 1]) % 256
                             = IF i = 1 THEN (n \div 256) % 256 ELSE n % 256
    <3>1. /\ <<1, 256, 65536, 16777216>>[2 - 1 + 1] = 256
          /\ <<1, 256, 65536, 16777216>>[2 - 2 + 1] = 1
      OBVIOUS
    <3>2. n \div 1 = n
      OBVIOUS
    <3> QED
      BY <3>1, <3>2
  <2> QED
    BY <2>1 DEF Digits
<1>2. a \in Octets /\ e \in Octets /\ 256 * a + e = n
  <2>1. a = n \div 256 /\ 256 * (n \div 256) + e = n
    BY DEF MaxTwoBytes
  <2>2. a \in Nat /\ a <= 255 /\ e \in Nat /\ e <= 255
    OBVIOUS
  <2> QED
    BY <2>1, <2>2, OctetRange
<1> HIDE DEF a, e
<1>3. d \in Seq(Octets) /\ Len(d) = 2 /\ d[1] = a /\ d[2] = e
  <2> HIDE DEF d
  <2>1. d \in Seq(Octets) /\ Len(d) = 2
    <3>1. d \in [1..2 -> Octets]
      BY <1>1, <1>2
    <3> QED
      BY <3>1, FunctionSeq
  <2>2. d[1] = a /\ d[2] = e
    BY <1>1
  <2> QED
    BY <2>1, <2>2
<1> HIDE DEF d
<1>4. PICK g : ReadsUpTo(d, 2, g) /\ BigEndian(d) = g[2]
  <2>1. Len(d) = 2 /\ Len(d) \in Nat
    BY <1>3
  <2>2. \E g : ReadsUpTo(d, Len(d), g) /\ BigEndian(d) = g[Len(d)]
    BY <2>1, ReadEquation
  <2> QED
    BY <2>1, <2>2
<1>5. g[0] = ReadStep(d, g, 0) /\ g[1] = ReadStep(d, g, 1) /\ g[2] = ReadStep(d, g, 2)
  BY <1>4 DEF ReadsUpTo
<1>6. g[0] = 0 /\ g[1] = 256 * g[0] + d[1] /\ g[2] = 256 * g[1] + d[2]
  BY <1>5 DEF ReadStep
<1>7. g[1] = a
  BY <1>2, <1>3, <1>6, OctetRange
<1> QED
  BY <1>2, <1>3, <1>4, <1>6, <1>7 DEF d

(* So is one of eight bytes, of which the first four are zero.             *)
LEMMA DigitsEight ==
  ASSUME NEW n \in Nat, n <= MaxLength
  PROVE  /\ Digits(n, 8) \in Seq(Octets) /\ Len(Digits(n, 8)) = 8
         /\ BigEndian(Digits(n, 8)) = n
<1> DEFINE d == Digits(n, 8)
           a == (n \div 16777216) % 256
           b == (n \div 65536) % 256
           c == (n \div 256) % 256
           e == n % 256
<1>0. n <= 2147483647
  BY DEF MaxLength
<1>1. d = [i \in 1..8 |-> IF i = 5 THEN a ELSE IF i = 6 THEN b ELSE IF i = 7 THEN c
                          ELSE IF i = 8 THEN e ELSE 0]
  <2>1. /\ <<1, 256, 65536, 16777216>>[8 - 5 + 1] = 16777216
        /\ <<1, 256, 65536, 16777216>>[8 - 6 + 1] = 65536
        /\ <<1, 256, 65536, 16777216>>[8 - 7 + 1] = 256
        /\ <<1, 256, 65536, 16777216>>[8 - 8 + 1] = 1
    OBVIOUS
  <2>2. n \div 1 = n
    OBVIOUS
  <2>3. \A i \in 1..8 : (IF 8 - i > 3 THEN 0 ELSE (n \div <<1, 256, 65536, 16777216>>[8 - i + 1]) % 256)
          = (IF i = 5 THEN a ELSE IF i = 6 THEN b ELSE IF i = 7 THEN c ELSE IF i = 8 THEN e ELSE 0)
    <3> SUFFICES ASSUME NEW i \in 1..8
                 PROVE  (IF 8 - i > 3 THEN 0 ELSE (n \div <<1, 256, 65536, 16777216>>[8 - i + 1]) % 256)
          = (IF i = 5 THEN a ELSE IF i = 6 THEN b ELSE IF i = 7 THEN c ELSE IF i = 8 THEN e ELSE 0)
      OBVIOUS
    <3>1. CASE i < 5
      BY <3>1
    <3>2. CASE i = 5
      BY <2>1, <3>2
    <3>3. CASE i = 6
      BY <2>1, <3>3
    <3>4. CASE i = 7
      BY <2>1, <3>4
    <3>5. CASE i = 8
      BY <2>1, <2>2, <3>5
    <3> QED
      BY <3>1, <3>2, <3>3, <3>4, <3>5
  <2> QED
    BY <2>3 DEF Digits
<1>2. /\ a \in Nat /\ b \in Nat /\ c \in Nat /\ e \in Nat
      /\ 256 * (256 * (256 * a + b) + c) + e = n
  <2>1. a \in Nat /\ b \in Nat /\ c \in Nat /\ e \in Nat
    BY <1>0
  <2>2. n \div 16777216 = a
    BY <1>0
  <2>3. n \div 65536 = 256 * (n \div 16777216) + b
    BY <1>0
  <2>4. n \div 256 = 256 * (n \div 65536) + c
    BY <1>0
  <2>5. n = 256 * (n \div 256) + e
    BY <1>0
  <2>6. n \in Int /\ n \div 256 \in Int /\ n \div 65536 \in Int /\ n \div 16777216 \in Int
    BY <1>0
  <2> DEFINE n1 == n \div 256
             n2 == n \div 65536
             n3 == n \div 16777216
  <2> HIDE DEF a, b, c, e, n1, n2, n3
  <2>7. n3 = a /\ n2 = 256 * n3 + b /\ n1 = 256 * n2 + c /\ n = 256 * n1 + e
    BY <2>2, <2>3, <2>4, <2>5 DEF n1, n2, n3
  <2> QED
    BY <2>1, <2>7
<1>2a. a <= 255 /\ b <= 255 /\ c <= 255 /\ e <= 255
  BY <1>0
<1> HIDE DEF a, b, c, e
<1>3. /\ d \in Seq(Octets) /\ Len(d) = 8 /\ d[1] = 0 /\ d[2] = 0 /\ d[3] = 0 /\ d[4] = 0
      /\ d[5] = a /\ d[6] = b /\ d[7] = c /\ d[8] = e
  <2>1. a \in Octets /\ b \in Octets /\ c \in Octets /\ e \in Octets /\ 0 \in Octets
    BY <1>2, <1>2a, OctetRange
  <2> HIDE DEF d
  <2>2. d \in Seq(Octets) /\ Len(d) = 8
    <3>1. d \in [1..8 -> Octets]
      BY <1>1, <2>1
    <3> QED
      BY <3>1, FunctionSeq
  <2>3. d[1] = 0 /\ d[2] = 0 /\ d[3] = 0 /\ d[4] = 0 /\ d[5] = a /\ d[6] = b /\ d[7] = c /\ d[8] = e
    BY <1>1
  <2> QED
    BY <2>2, <2>3
<1> HIDE DEF d
<1>4. PICK g : ReadsUpTo(d, 8, g) /\ BigEndian(d) = g[8]
  <2>1. Len(d) = 8 /\ Len(d) \in Nat
    BY <1>3
  <2>2. \E g : ReadsUpTo(d, Len(d), g) /\ BigEndian(d) = g[Len(d)]
    BY <2>1, ReadEquation
  <2> QED
    BY <2>1, <2>2
<1>5. \A i \in 0..8 : g[i] = ReadStep(d, g, i)
  BY <1>4 DEF ReadsUpTo
<1>6. g[0] = 0 /\ \A i \in 1..8 : g[i] = 256 * g[i - 1] + d[i]
  BY <1>5 DEF ReadStep
<1>7. g[1] = 0 /\ g[2] = 0
  <2>1. g[1] = 256 * g[0] + d[1] /\ g[2] = 256 * g[1] + d[2]
    BY <1>6
  <2> QED
    BY <1>3, <1>6, <2>1
<1>8. g[3] = 0 /\ g[4] = 0
  <2>1. g[3] = 256 * g[2] + d[3] /\ g[4] = 256 * g[3] + d[4]
    BY <1>6
  <2> QED
    BY <1>3, <1>7, <2>1
<1>9. g[5] = a /\ g[6] = 256 * a + b
  <2>1. g[5] = 256 * g[4] + d[5] /\ g[6] = 256 * g[5] + d[6]
    BY <1>6
  <2> QED
    BY <1>2, <1>3, <1>8, <2>1
<1>10. g[8] = 256 * (256 * (256 * a + b) + c) + e
  <2>1. g[7] = 256 * g[6] + d[7] /\ g[8] = 256 * g[7] + d[8]
    BY <1>6
  <2> QED
    BY <1>3, <1>9, <2>1
<1> QED
  BY <1>2, <1>3, <1>4, <1>10 DEF d

(* No length bytes at all.                                                 *)
LEMMA DigitsNone == \A n : Digits(n, 0) = <<>>
  BY DEF Digits

(* A number of eight bits, and its bits.                                   *)
LEMMA BitsOfSum ==
  ASSUME NEW a \in {0, 1}, NEW b \in {0, 1}, NEW c \in {0, 1}, NEW e \in {0, 1},
         NEW f \in {0, 1}, NEW g \in {0, 1}, NEW h \in {0, 1}, NEW i \in {0, 1},
         NEW z, z = a + 2 * b + 4 * c + 8 * e + 16 * f + 32 * g + 64 * h + 128 * i
  PROVE  /\ z \in 0..255
         /\ (z \div 1) % 2 = a /\ (z \div 2) % 2 = b /\ (z \div 4) % 2 = c /\ (z \div 8) % 2 = e
         /\ (z \div 16) % 2 = f /\ (z \div 32) % 2 = g /\ (z \div 64) % 2 = h /\ (z \div 128) % 2 = i
<1>1. z \in 0..255
  OBVIOUS
<1>2. z \div 1 = a + 2 * (b + 2 * c + 4 * e + 8 * f + 16 * g + 32 * h + 64 * i)
  OBVIOUS
<1>3. z \div 2 = b + 2 * (c + 2 * e + 4 * f + 8 * g + 16 * h + 32 * i)
  OBVIOUS
<1>4. z \div 4 = c + 2 * (e + 2 * f + 4 * g + 8 * h + 16 * i)
  OBVIOUS
<1>5. z \div 8 = e + 2 * (f + 2 * g + 4 * h + 8 * i)
  OBVIOUS
<1>6. z \div 16 = f + 2 * (g + 2 * h + 4 * i)
  OBVIOUS
<1>7. z \div 32 = g + 2 * (h + 2 * i)
  OBVIOUS
<1>8. z \div 64 = h + 2 * i
  OBVIOUS
<1>9. z \div 128 = i
  OBVIOUS
<1>10. ASSUME NEW x \in {0, 1}, NEW y \in Nat, NEW w, w = x + 2 * y PROVE w % 2 = x
  BY <1>10
<1>11. (z \div 1) % 2 = a /\ (z \div 2) % 2 = b
  BY <1>2, <1>3, <1>10
<1>12. (z \div 4) % 2 = c /\ (z \div 8) % 2 = e
  BY <1>4, <1>5, <1>10
<1>13. (z \div 16) % 2 = f /\ (z \div 32) % 2 = g
  BY <1>6, <1>7, <1>10
<1>14. (z \div 64) % 2 = h /\ (z \div 128) % 2 = i
  BY <1>8, <1>9, <1>10
<1> QED
  BY <1>1, <1>11, <1>12, <1>13, <1>14

(* The bits of a masked octet.                                             *)
Bit(x, y, d) == (x \div d + y \div d) % 2

(* The result is an octet, and its bits are the two's combined.            *)
LEMMA XorBits ==
  ASSUME NEW x \in Octets, NEW y \in Octets
  PROVE  /\ Xor(x, y) \in Octets
         /\ \A d \in {1, 2, 4, 8, 16, 32, 64, 128} : (Xor(x, y) \div d) % 2 = Bit(x, y, d)
<1> DEFINE a == Bit(x, y, 1)
           b == Bit(x, y, 2)
           c == Bit(x, y, 4)
           e == Bit(x, y, 8)
           f == Bit(x, y, 16)
           g == Bit(x, y, 32)
           h == Bit(x, y, 64)
           i == Bit(x, y, 128)
<1>1. PICK z : z = Xor(x, y)
  OBVIOUS
<1>2. /\ a \in {0, 1} /\ b \in {0, 1} /\ c \in {0, 1} /\ e \in {0, 1}
      /\ f \in {0, 1} /\ g \in {0, 1} /\ h \in {0, 1} /\ i \in {0, 1}
  BY DEF Bit, Octets
<1>3. z = 1 * a + 2 * b + 4 * c + 8 * e + 16 * f + 32 * g + 64 * h + 128 * i
  BY <1>1, Zenon DEF Xor, Bit
<1> HIDE DEF a, b, c, e, f, g, h, i
<1>4. z = a + 2 * b + 4 * c + 8 * e + 16 * f + 32 * g + 64 * h + 128 * i
  BY <1>2, <1>3
<1>5. /\ z \in 0..255
      /\ (z \div 1) % 2 = a /\ (z \div 2) % 2 = b /\ (z \div 4) % 2 = c /\ (z \div 8) % 2 = e
      /\ (z \div 16) % 2 = f /\ (z \div 32) % 2 = g /\ (z \div 64) % 2 = h /\ (z \div 128) % 2 = i
  BY <1>2, <1>4, BitsOfSum
<1>6. ASSUME NEW d \in {1, 2, 4, 8, 16, 32, 64, 128} PROVE (z \div d) % 2 = Bit(x, y, d)
  BY <1>5, Zenon DEF a, b, c, e, f, g, h, i
<1> QED
  BY <1>1, <1>5, <1>6 DEF Octets

(* An octet is the sum of its bits.                                        *)
LEMMA OctetBits ==
  ASSUME NEW x \in Octets
  PROVE  x = 1 * ((x \div 1) % 2) + 2 * ((x \div 2) % 2) + 4 * ((x \div 4) % 2) + 8 * ((x \div 8) % 2)
             + 16 * ((x \div 16) % 2) + 32 * ((x \div 32) % 2) + 64 * ((x \div 64) % 2)
             + 128 * ((x \div 128) % 2)
<1> DEFINE B(d) == (x \div d) % 2
<1>1. x = 2 * (x \div 2) + B(1) /\ x \div 2 = 2 * (x \div 4) + B(2)
  BY DEF Octets
<1>2. x \div 4 = 2 * (x \div 8) + B(4) /\ x \div 8 = 2 * (x \div 16) + B(8)
  BY DEF Octets
<1>3. x \div 16 = 2 * (x \div 32) + B(16) /\ x \div 32 = 2 * (x \div 64) + B(32)
  BY DEF Octets
<1>4. x \div 64 = 2 * (x \div 128) + B(64) /\ x \div 128 = B(128)
  BY DEF Octets
<1>5. \A d \in {1, 2, 4, 8, 16, 32, 64, 128} : B(d) \in Int
  BY DEF Octets
<1>6. /\ B(1) \in Int /\ B(2) \in Int /\ B(4) \in Int /\ B(8) \in Int
      /\ B(16) \in Int /\ B(32) \in Int /\ B(64) \in Int /\ B(128) \in Int
  BY <1>5
<1> HIDE DEF B
<1>7. x = 1 * B(1) + 2 * B(2) + 4 * B(4) + 8 * B(8) + 16 * B(16) + 32 * B(32) + 64 * B(64)
          + 128 * B(128)
  BY <1>1, <1>2, <1>3, <1>4, <1>6 DEF Octets
<1> QED
  BY <1>7, Zenon DEF B

(* Masking twice with the same byte changes nothing.                       *)
LEMMA XorTwice ==
  ASSUME NEW x \in Octets, NEW y \in Octets
  PROVE  Xor(Xor(x, y), y) = x
<1>1. PICK z \in Octets :
        /\ z = Xor(x, y)
        /\ \A d \in {1, 2, 4, 8, 16, 32, 64, 128} : (z \div d) % 2 = (x \div d + y \div d) % 2
  BY XorBits DEF Bit
<1>2. ASSUME NEW p \in Int, NEW q \in Int, NEW r \in Int, p % 2 = (q + r) % 2
      PROVE  (p + r) % 2 = q % 2
  BY <1>2
<1>3. ASSUME NEW d \in {1, 2, 4, 8, 16, 32, 64, 128}
      PROVE  (z \div d + y \div d) % 2 = (x \div d) % 2
  <2>1. (z \div d) % 2 = (x \div d + y \div d) % 2
    BY <1>1
  <2>2. z \div d \in Int /\ x \div d \in Int /\ y \div d \in Int
    BY DEF Octets
  <2> QED
    BY <1>2, <2>1, <2>2
<1> DEFINE B(d) == (x \div d) % 2
           C(d) == (z \div d + y \div d) % 2
<1>4. /\ C(1) = B(1) /\ C(2) = B(2) /\ C(4) = B(4) /\ C(8) = B(8)
      /\ C(16) = B(16) /\ C(32) = B(32) /\ C(64) = B(64) /\ C(128) = B(128)
  BY <1>3
<1>5. Xor(z, y) = 1 * C(1) + 2 * C(2) + 4 * C(4) + 8 * C(8) + 16 * C(16) + 32 * C(32) + 64 * C(64)
                  + 128 * C(128)
  BY Zenon DEF Xor
<1>6. x = 1 * B(1) + 2 * B(2) + 4 * B(4) + 8 * B(8) + 16 * B(16) + 32 * B(32) + 64 * B(64)
          + 128 * B(128)
  BY OctetBits
<1> HIDE DEF B, C
<1>7. Xor(z, y) = x
  BY <1>4, <1>5, <1>6, Zenon
<1> QED
  BY <1>1, <1>7
-----------------------------------------------------------------------------
(* A frame on the wire.                                                    *)
ByteTokens == {Byte(n) : n \in Octets}

LengthCode(f) == IF f.extended = 2 THEN 126 ELSE IF f.extended = 8 THEN 127 ELSE Len(f.payload)
HeadBytes(f) == <<128 + f.opcode, IF f.key = <<>> THEN LengthCode(f) ELSE 128 + LengthCode(f)>>
Masked(f) == [i \in DOMAIN f.payload |->
               IF f.key = <<>> THEN f.payload[i] ELSE Xor(f.payload[i], f.key[((i - 1) % 4) + 1])]
WireBytes(f) == HeadBytes(f) \o Digits(Len(f.payload), f.extended) \o f.key \o Masked(f)

(* What a frame is made of.                                                *)
LEMMA FrameFields ==
  ASSUME NEW f \in ClientFrames
  PROVE  /\ f.opcode \in Nat /\ f.opcode <= 15 /\ f.extended \in {0, 2, 8}
         /\ f.key \in Seq(Octets) /\ Len(f.key) \in {0, 4} /\ (f.key = <<>> <=> Len(f.key) = 0)
         /\ f.payload \in Seq(Octets) /\ f.payload \in Payloads /\ Len(f.payload) \in Nat
         /\ f.extended = 0 => Len(f.payload) <= 125
         /\ f.extended = 2 => Len(f.payload) <= MaxTwoBytes
         /\ f.extended = 8 => Len(f.payload) <= MaxLength
<1>1. /\ f \in [opcode : 0..15, extended : {0, 2, 8}, key : Seq(Octets), payload : Payloads]
      /\ Len(f.key) \in {0, 4}
      /\ Len(f.payload) <= IF f.extended = 0 THEN 125 ELSE IF f.extended = 2 THEN 65535 ELSE MaxLength
  BY DEF ClientFrames
<1>2. /\ f.opcode \in 0..15 /\ f.extended \in {0, 2, 8} /\ f.key \in Seq(Octets)
      /\ f.payload \in Payloads
  BY <1>1
<1>3. f.payload \in Seq(Octets)
  BY <1>2 DEF Payloads
<1>4. Len(f.payload) \in Nat /\ (f.key = <<>> <=> Len(f.key) = 0)
  BY <1>2, <1>3
<1>5. f.opcode \in Nat /\ f.opcode <= 15
  BY <1>2
<1>6. /\ f.extended = 0 => Len(f.payload) <= 125
      /\ f.extended = 2 => Len(f.payload) <= MaxTwoBytes
      /\ f.extended = 8 => Len(f.payload) <= MaxLength
  BY <1>1, SMT DEF MaxTwoBytes
<1> QED
  BY <1>1, <1>2, <1>3, <1>4, <1>5, <1>6

(* The bytes of its length are read back.                                  *)
LEMMA LengthDigits ==
  ASSUME NEW f \in ClientFrames
  PROVE  /\ Digits(Len(f.payload), f.extended) \in Seq(Octets)
         /\ Len(Digits(Len(f.payload), f.extended)) = f.extended
         /\ f.extended # 0 => BigEndian(Digits(Len(f.payload), f.extended)) = Len(f.payload)
<1> DEFINE n == Len(f.payload)
           d == Digits(n, f.extended)
<1>1. /\ n \in Nat /\ f.extended \in {0, 2, 8}
      /\ f.extended = 2 => n <= MaxTwoBytes
      /\ f.extended = 8 => n <= MaxLength
  BY FrameFields
<1> HIDE DEF n
<1>2. CASE f.extended = 0
  <2>1. d = <<>>
    BY <1>2, DigitsNone
  <2>2. <<>> \in Seq(Octets) /\ Len(<<>>) = 0
    OBVIOUS
  <2> HIDE DEF d
  <2> QED
    BY <1>2, <2>1, <2>2 DEF n, d
<1>3. CASE f.extended = 2
  BY <1>1, <1>3, DigitsTwo DEF n
<1>4. CASE f.extended = 8
  BY <1>1, <1>4, DigitsEight DEF n
<1> QED
  BY <1>1, <1>2, <1>3, <1>4

(* The mask goes around the key.                                           *)
LEMMA KeyPlace ==
  ASSUME NEW i \in Nat \ {0}
  PROVE  ((i - 1) % 4) + 1 \in 1..4
  OBVIOUS

(* The masked payload is as long as the payload.                           *)
LEMMA MaskedType ==
  ASSUME NEW f \in ClientFrames
  PROVE  /\ Masked(f) \in Seq(Octets) /\ Len(Masked(f)) = Len(f.payload)
         /\ DOMAIN Masked(f) = DOMAIN f.payload
         /\ \A i \in DOMAIN f.payload :
              /\ Masked(f)[i] = IF f.key = <<>> THEN f.payload[i]
                                ELSE Xor(f.payload[i], f.key[((i - 1) % 4) + 1])
              /\ f.payload[i] \in Octets
              /\ f.key # <<>> => f.key[((i - 1) % 4) + 1] \in Octets
<1>1. /\ f.payload \in Seq(Octets) /\ Len(f.payload) \in Nat /\ DOMAIN f.payload = 1..Len(f.payload)
      /\ f.key \in Seq(Octets) /\ (f.key # <<>> => Len(f.key) = 4)
  BY FrameFields
<1>2. ASSUME NEW i \in DOMAIN f.payload
      PROVE  f.payload[i] \in Octets /\ (f.key # <<>> => f.key[((i - 1) % 4) + 1] \in Octets)
  <2>1. i \in Nat \ {0} /\ f.payload[i] \in Octets
    BY <1>1
  <2> DEFINE j == ((i - 1) % 4) + 1
  <2>2. j \in 1..4
    BY <2>1, KeyPlace
  <2> HIDE DEF j
  <2>3. f.key # <<>> => f.key[j] \in Octets
    <3> SUFFICES ASSUME f.key # <<>> PROVE f.key[j] \in Octets
      OBVIOUS
    <3>1. j \in 1..Len(f.key)
      BY <1>1, <2>2
    <3>2. f.key \in Seq(Octets)
      BY <1>1
    <3> QED
      BY <3>1, <3>2
  <2> QED
    BY <2>1, <2>3 DEF j
<1>3. \A i \in DOMAIN f.payload :
        (IF f.key = <<>> THEN f.payload[i] ELSE Xor(f.payload[i], f.key[((i - 1) % 4) + 1])) \in Octets
  BY <1>2, XorBits
<1>4. Masked(f) \in [1..Len(f.payload) -> Octets]
  BY <1>1, <1>3 DEF Masked
<1>5. Masked(f) \in Seq(Octets) /\ Len(Masked(f)) = Len(f.payload)
  BY <1>1, <1>4, FunctionSeq
<1> QED
  BY <1>1, <1>2, <1>5 DEF Masked

(* Four sequences one after the other.                                     *)
LEMMA FourParts ==
  ASSUME NEW S, NEW a \in Seq(S), NEW b \in Seq(S), NEW c \in Seq(S), NEW d \in Seq(S),
         NEW w, w = a \o b \o c \o d
  PROVE  /\ w \in Seq(S) /\ Len(w) = Len(a) + Len(b) + Len(c) + Len(d)
         /\ \A i \in 1..Len(a) : w[i] = a[i]
         /\ \A i \in 1..Len(b) : w[Len(a) + i] = b[i]
         /\ \A i \in 1..Len(c) : w[Len(a) + Len(b) + i] = c[i]
         /\ \A i \in 1..Len(d) : w[Len(a) + Len(b) + Len(c) + i] = d[i]
<1> DEFINE x == a \o b
           y == x \o c
<1>1. /\ x \in Seq(S) /\ Len(x) = Len(a) + Len(b) /\ Len(a) \in Nat /\ Len(b) \in Nat
      /\ \A i \in 1..Len(a) : x[i] = a[i] /\ i \in 1..Len(x)
      /\ \A i \in 1..Len(b) : x[Len(a) + i] = b[i] /\ Len(a) + i \in 1..Len(x)
  OBVIOUS
<1> HIDE DEF x
<1>2. x \in Seq(S)
  BY <1>1
<1>3. /\ y \in Seq(S) /\ Len(y) = Len(x) + Len(c) /\ Len(c) \in Nat
      /\ \A i \in 1..Len(x) : y[i] = x[i] /\ i \in 1..Len(y)
      /\ \A i \in 1..Len(c) : y[Len(x) + i] = c[i] /\ Len(x) + i \in 1..Len(y)
  BY <1>2
<1> HIDE DEF y
<1>4. y \in Seq(S)
  BY <1>3
<1>5. w = y \o d
  BY DEF x, y
<1>6. /\ w \in Seq(S) /\ Len(w) = Len(y) + Len(d) /\ Len(d) \in Nat
      /\ \A i \in 1..Len(y) : w[i] = y[i]
      /\ \A i \in 1..Len(d) : w[Len(y) + i] = d[i]
  BY <1>4, <1>5
<1>7. \A i \in 1..Len(x) : w[i] = x[i]
  BY <1>3, <1>6
<1>8. (\A i \in 1..Len(a) : w[i] = a[i]) /\ (\A i \in 1..Len(b) : w[Len(a) + i] = b[i])
  BY <1>1, <1>7
<1>9. \A i \in 1..Len(c) : w[Len(x) + i] = c[i]
  BY <1>3, <1>6
<1> QED
  BY <1>1, <1>3, <1>6, <1>8, <1>9

(* The first two bytes of a frame.                                         *)
LEMMA HeadType ==
  ASSUME NEW f \in ClientFrames
  PROVE  /\ LengthCode(f) \in Nat /\ LengthCode(f) < 128
         /\ HeadBytes(f) \in Seq(Octets) /\ Len(HeadBytes(f)) = 2
         /\ HeadBytes(f)[1] = 128 + f.opcode
         /\ HeadBytes(f)[2] = IF f.key = <<>> THEN LengthCode(f) ELSE 128 + LengthCode(f)
<1>1. LengthCode(f) \in Nat /\ LengthCode(f) < 128
  BY FrameFields DEF LengthCode
<1>2. 128 + f.opcode \in Octets
  <2>1. \A n \in Nat : n <= 15 => 128 + n \in Nat /\ 128 + n <= 255
    OBVIOUS
  <2>2. f.opcode \in Nat /\ f.opcode <= 15
    BY FrameFields
  <2> QED
    BY <2>1, <2>2, OctetRange
<1>3. (IF f.key = <<>> THEN LengthCode(f) ELSE 128 + LengthCode(f)) \in Octets
  BY <1>1, OctetRange
<1> DEFINE x == 128 + f.opcode
           y == IF f.key = <<>> THEN LengthCode(f) ELSE 128 + LengthCode(f)
<1>4. HeadBytes(f) = <<x, y>>
  BY DEF HeadBytes
<1> HIDE DEF x, y
<1>5. <<x, y>> \in Seq(Octets) /\ Len(<<x, y>>) = 2 /\ <<x, y>>[1] = x /\ <<x, y>>[2] = y
  BY <1>2, <1>3 DEF x, y
<1> QED
  BY <1>1, <1>4, <1>5 DEF x, y

(* Bytes and their values.                                                 *)
LEMMA ByteValue == \A n : Byte(n)[2] = n
  BY DEF Byte

(* The bytes of numbers are tokens.                                        *)
LEMMA BytesType ==
  ASSUME NEW s \in Seq(Octets)
  PROVE  /\ Bytes(s) \in Seq(ByteTokens) /\ Len(Bytes(s)) = Len(s)
         /\ \A i \in 1..Len(s) : Bytes(s)[i] = Byte(s[i])
<1>1. \A i \in 1..Len(s) : Byte(s[i]) \in ByteTokens
  BY DEF ByteTokens
<1>2. Bytes(s) = [i \in 1..Len(s) |-> Byte(s[i])]
  BY DEF Bytes
<1>3. Bytes(s) \in [1..Len(s) -> ByteTokens] /\ Len(s) \in Nat
  BY <1>1, <1>2
<1> QED
  BY <1>2, <1>3, FunctionSeq

(* The wire of a frame is its first two bytes, its length, key and payload.*)
LEMMA WireShape ==
  ASSUME NEW f \in ClientFrames
  PROVE  /\ Wire(f) \in Seq(ByteTokens)
         /\ Len(Wire(f)) = 2 + f.extended + Len(f.key) + Len(f.payload)
         /\ Wire(f)[1] = Byte(128 + f.opcode)
         /\ Wire(f)[2] = Byte(IF f.key = <<>> THEN LengthCode(f) ELSE 128 + LengthCode(f))
         /\ \A i \in 1..f.extended :
              Wire(f)[2 + i] = Byte(Digits(Len(f.payload), f.extended)[i])
         /\ \A i \in 1..Len(f.key) : Wire(f)[2 + f.extended + i] = Byte(f.key[i])
         /\ \A i \in 1..Len(f.payload) :
              Wire(f)[2 + f.extended + Len(f.key) + i] = Byte(Masked(f)[i])
<1> DEFINE a == HeadBytes(f)
           b == Digits(Len(f.payload), f.extended)
           c == f.key
           d == Masked(f)
           e == f.extended
           k == Len(f.key)
           n == Len(f.payload)
<1>1. /\ a \in Seq(Octets) /\ Len(a) = 2 /\ a[1] = 128 + f.opcode
      /\ a[2] = IF f.key = <<>> THEN LengthCode(f) ELSE 128 + LengthCode(f)
  BY HeadType
<1>2. b \in Seq(Octets) /\ Len(b) = e
  BY LengthDigits
<1>3. c \in Seq(Octets) /\ Len(c) = k
  BY FrameFields
<1>4. d \in Seq(Octets) /\ Len(d) = n
  BY MaskedType
<1>5. e \in Nat /\ k \in Nat /\ n \in Nat
  BY FrameFields
<1>6. Wire(f) = Bytes(a \o b \o c \o d)
  BY Zenon DEF Wire, HeadBytes, LengthCode, Masked
<1> HIDE DEF a, b, c, d, e, k, n
<1> DEFINE w == a \o b \o c \o d
<1>7. /\ w \in Seq(Octets) /\ Len(w) = Len(a) + Len(b) + Len(c) + Len(d)
      /\ \A i \in 1..Len(a) : w[i] = a[i]
      /\ \A i \in 1..Len(b) : w[Len(a) + i] = b[i]
      /\ \A i \in 1..Len(c) : w[Len(a) + Len(b) + i] = c[i]
      /\ \A i \in 1..Len(d) : w[Len(a) + Len(b) + Len(c) + i] = d[i]
  <2>1. a \in Seq(Octets) /\ b \in Seq(Octets) /\ c \in Seq(Octets) /\ d \in Seq(Octets)
    BY <1>1, <1>2, <1>3, <1>4
  <2> HIDE DEF w
  <2>2. w = a \o b \o c \o d
    BY DEF w
  <2> QED
    BY <2>1, <2>2, FourParts
<1> HIDE DEF w
<1>8. /\ w \in Seq(Octets) /\ Len(w) = 2 + e + k + n
      /\ w[1] = a[1] /\ w[2] = a[2]
      /\ \A i \in 1..e : w[2 + i] = b[i]
      /\ \A i \in 1..k : w[2 + e + i] = c[i]
      /\ \A i \in 1..n : w[2 + e + k + i] = d[i]
  BY <1>1, <1>2, <1>3, <1>4, <1>7
<1>9. Wire(f) \in Seq(ByteTokens) /\ Len(Wire(f)) = Len(w)
      /\ \A i \in 1..Len(w) : Wire(f)[i] = Byte(w[i])
  <2>1. Wire(f) = Bytes(w)
    BY <1>6 DEF w
  <2>2. w \in Seq(Octets)
    BY <1>8
  <2> QED
    BY <2>1, <2>2, BytesType
<1>10. /\ 1 \in 1..Len(w) /\ 2 \in 1..Len(w)
       /\ \A i \in 1..e : 2 + i \in 1..Len(w)
       /\ \A i \in 1..k : 2 + e + i \in 1..Len(w)
       /\ \A i \in 1..n : 2 + e + k + i \in 1..Len(w)
  BY <1>5, <1>8
<1>11. /\ Wire(f)[1] = Byte(a[1]) /\ Wire(f)[2] = Byte(a[2])
       /\ \A i \in 1..e : Wire(f)[2 + i] = Byte(b[i])
       /\ \A i \in 1..k : Wire(f)[2 + e + i] = Byte(c[i])
       /\ \A i \in 1..n : Wire(f)[2 + e + k + i] = Byte(d[i])
  BY <1>8, <1>9, <1>10
<1> QED
  BY <1>1, <1>8, <1>9, <1>11 DEF b, c, d, e, k, n
-----------------------------------------------------------------------------
(* What the server reads from bytes that begin like a frame.               *)
Begins(b, f) == \A i \in 1..Len(b) : i <= Len(Wire(f)) => b[i] = Wire(f)[i]

(* Where things are on the wire of a frame.                                *)
KeyAt(f) == 2 + f.extended
PayloadStart(f) == 2 + f.extended + Len(f.key)

(* The places of a payload and of its key.                                 *)
LEMMA Places ==
  ASSUME NEW f \in ClientFrames
  PROVE  /\ KeyAt(f) \in Nat /\ PayloadStart(f) \in Nat /\ Len(Wire(f)) \in Nat
         /\ 2 <= KeyAt(f) /\ KeyAt(f) <= PayloadStart(f) /\ PayloadStart(f) <= Len(Wire(f))
         /\ KeyAt(f) \in {2, 4, 10}
         /\ PayloadStart(f) = IF f.key = <<>> THEN KeyAt(f) ELSE KeyAt(f) + 4
         /\ Len(Wire(f)) = PayloadStart(f) + Len(f.payload)
<1>1. /\ f.extended \in {0, 2, 8} /\ Len(f.key) \in {0, 4} /\ (f.key = <<>> <=> Len(f.key) = 0)
      /\ Len(f.payload) \in Nat
  BY FrameFields
<1>2. Len(Wire(f)) = 2 + f.extended + Len(f.key) + Len(f.payload)
  BY WireShape
<1>3. /\ KeyAt(f) = 2 + f.extended
      /\ PayloadStart(f) = IF f.key = <<>> THEN 2 + f.extended ELSE 2 + f.extended + 4
  <2> DEFINE q == Len(f.key)
             e == f.extended
  <2>1. e \in {0, 2, 8} /\ q \in {0, 4} /\ (f.key = <<>> <=> q = 0)
    BY <1>1
  <2>2. KeyAt(f) = 2 + e /\ PayloadStart(f) = 2 + e + q
    BY DEF KeyAt, PayloadStart
  <2> HIDE DEF q, e
  <2>3. PayloadStart(f) = IF f.key = <<>> THEN 2 + e ELSE 2 + e + 4
    BY <2>1, <2>2
  <2> QED
    BY <2>2, <2>3 DEF e
<1>4. Len(Wire(f)) = PayloadStart(f) + Len(f.payload)
  BY <1>2 DEF PayloadStart
<1> DEFINE l == Len(f.payload)
           w == Len(Wire(f))
           z == f.key = <<>>
<1>5. l \in Nat /\ w = PayloadStart(f) + l
  BY <1>1, <1>4
<1> HIDE DEF l, w, z
<1>6. f.extended \in {0, 2, 8} /\ KeyAt(f) = 2 + f.extended
      /\ (z => PayloadStart(f) = 2 + f.extended) /\ (~z => PayloadStart(f) = 2 + f.extended + 4)
  BY <1>1, <1>3 DEF z
<1>7. /\ KeyAt(f) \in Nat /\ PayloadStart(f) \in Nat /\ w \in Nat
      /\ 2 <= KeyAt(f) /\ KeyAt(f) <= PayloadStart(f) /\ PayloadStart(f) <= w
      /\ KeyAt(f) \in {2, 4, 10}
      /\ PayloadStart(f) = IF z THEN KeyAt(f) ELSE KeyAt(f) + 4
  BY <1>5, <1>6
<1> QED
  BY <1>4, <1>7 DEF w, z

(* The first byte tells the opcode, the second the length and the mask.    *)
LEMMA SecondByte ==
  ASSUME NEW f \in ClientFrames, NEW b, b[2] = Wire(f)[2]
  PROVE  /\ Code(b) = LengthCode(f) /\ Offset(b) = KeyAt(f)
         /\ (IsMasked(b) <=> f.key # <<>>) /\ PayloadAt(b) = PayloadStart(f)
<1> DEFINE c == LengthCode(f)
<1>1. c \in Nat /\ c < 128
  BY HeadType
<1>2. b[2][2] = IF f.key = <<>> THEN c ELSE 128 + c
  <2>1. Wire(f)[2] = Byte(IF f.key = <<>> THEN c ELSE 128 + c)
    BY WireShape
  <2> HIDE DEF c
  <2> QED
    BY <2>1, ByteValue
<1>3. /\ f.extended \in {0, 2, 8}
      /\ f.extended = 0 => c <= 125
      /\ f.extended = 2 => c = 126
      /\ f.extended = 8 => c = 127
  BY FrameFields DEF LengthCode
<1> HIDE DEF c
<1>4. c % 128 = c /\ (128 + c) % 128 = c
  BY <1>1
<1>5. Code(b) = c
  BY <1>2, <1>4 DEF Code
<1>6. IsMasked(b) <=> f.key # <<>>
  BY <1>1, <1>2 DEF IsMasked
<1>7. Offset(b) = KeyAt(f)
  BY <1>1, <1>3, <1>5 DEF Offset, KeyAt
<1>8. PayloadAt(b) = PayloadStart(f)
  BY <1>6, <1>7, Places DEF PayloadAt
<1> QED
  BY <1>5, <1>6, <1>7, <1>8 DEF c

(* The values of a stretch of bytes.                                       *)
LEMMA NumbersOfStretch ==
  ASSUME NEW s \in Seq(Octets), NEW S, NEW b \in Seq(S), NEW j \in Nat, j + Len(s) <= Len(b),
         \A i \in 1..Len(s) : b[j + i] = Byte(s[i])
  PROVE  Numbers(SubSeq(b, j + 1, j + Len(s))) = s
<1> DEFINE n == Len(s)
           p == SubSeq(b, j + 1, j + n)
<1>1. n \in Nat /\ j \in Nat /\ j + n <= Len(b)
  OBVIOUS
<1>2. s \in Seq(Octets) /\ b \in Seq(S)
  OBVIOUS
<1>3. \A i \in 1..n : b[j + i] = Byte(s[i])
  OBVIOUS
<1>4. DOMAIN s = 1..n
  OBVIOUS
<1> HIDE DEF n
<1>5. DOMAIN p = 1..n /\ \A i \in 1..n : p[i] = b[j + i]
  <2>1. p \in Seq(S) /\ Len(p) = n
    BY <1>1, <1>2
  <2>2. \A i \in 1..n : p[i] = b[j + i]
    BY <1>1, <1>2
  <2> HIDE DEF p
  <2> QED
    BY <2>1, <2>2
<1>6. Numbers(p) = [i \in 1..n |-> p[i][2]]
  BY <1>5 DEF Numbers
<1>7. \A i \in 1..n : p[i][2] = s[i]
  BY <1>3, <1>5, ByteValue
<1>8. s = [i \in 1..n |-> s[i]]
  BY <1>2, <1>4
<1>9. Numbers(p) = s
  BY <1>6, <1>7, <1>8
<1> QED
  BY <1>9 DEF n

(* With its length the header is whole, and tells where the frame ends.    *)
LEMMA LengthRead ==
  ASSUME NEW f \in ClientFrames, NEW S, NEW b \in Seq(S), Begins(b, f), Len(b) >= KeyAt(f)
  PROVE  PayloadLen(b) = Len(f.payload) /\ RequiredLength(b) = Len(Wire(f))
<1> DEFINE e == f.extended
           s == Digits(Len(f.payload), f.extended)
<1>1. /\ e \in {0, 2, 8} /\ KeyAt(f) = 2 + e /\ 2 + e <= Len(Wire(f)) /\ Len(b) \in Nat
      /\ Len(Wire(f)) \in Nat
  BY Places, FrameFields DEF KeyAt
<1>2. /\ s \in Seq(Octets) /\ Len(s) = e
      /\ e # 0 => BigEndian(s) = Len(f.payload)
  BY LengthDigits
<1>3. b[2] = Wire(f)[2]
  BY <1>1 DEF Begins
<1>4. Code(b) = LengthCode(f) /\ Offset(b) = 2 + e /\ PayloadAt(b) = PayloadStart(f)
  BY <1>1, <1>3, SecondByte
<1>5. PayloadLen(b) = Len(f.payload)
  <2>1. CASE e = 0
    <3>1. LengthCode(f) = Len(f.payload) /\ Offset(b) = 2
      BY <1>4, <2>1 DEF LengthCode
    <3> QED
      BY <1>4, <3>1 DEF PayloadLen
  <2>2. CASE e # 0
    <3>1. \A i \in 1..e : b[2 + i] = Byte(s[i])
      <4> SUFFICES ASSUME NEW i \in 1..e PROVE b[2 + i] = Byte(s[i])
        OBVIOUS
      <4>1. 2 + i \in 1..Len(b) /\ 2 + i <= Len(Wire(f))
        BY <1>1
      <4>2. b[2 + i] = Wire(f)[2 + i]
        BY <4>1 DEF Begins
      <4> QED
        BY <4>2, WireShape
    <3> HIDE DEF s, e
    <3>2. s \in Seq(Octets) /\ \A i \in 1..Len(s) : b[2 + i] = Byte(s[i])
      BY <1>2, <3>1
    <3>3. 2 + Len(s) <= Len(b) /\ 2 \in Nat
      BY <1>1, <1>2
    <3>4. Numbers(SubSeq(b, 2 + 1, 2 + Len(s))) = s
      BY <3>2, <3>3, NumbersOfStretch
    <3>5. Numbers(SubSeq(b, 3, Offset(b))) = s
      <4>1. 2 + 1 = 3 /\ 2 + Len(s) = Offset(b)
        BY <1>2, <1>4
      <4> QED
        BY <3>4, <4>1
    <3>6. Offset(b) # 2
      BY <1>1, <1>4, <2>2
    <3> QED
      BY <1>2, <2>2, <3>5, <3>6 DEF PayloadLen
  <2> QED
    BY <2>1, <2>2
<1> QED
  BY <1>4, <1>5, Places DEF RequiredLength

(* A frame is handled when its last byte has come, and no byte later.      *)
LEMMA CompleteFrame ==
  ASSUME NEW f \in ClientFrames, NEW S, NEW b \in Seq(S), Begins(b, f)
  PROVE  /\ Complete(b) <=> Len(b) >= Len(Wire(f))
         /\ Complete(b) => RequiredLength(b) = Len(Wire(f))
<1>1. /\ KeyAt(f) \in Nat /\ 2 <= KeyAt(f) /\ KeyAt(f) <= Len(Wire(f))
      /\ Len(Wire(f)) \in Nat /\ Len(b) \in Nat
  BY Places
<1>2. CASE Len(b) < 2
  BY <1>1, <1>2 DEF Complete
<1>3. CASE Len(b) >= 2
  <2>1. b[2] = Wire(f)[2]
    BY <1>1, <1>3 DEF Begins
  <2>2. Offset(b) = KeyAt(f)
    BY <2>1, SecondByte
  <2>3. CASE Len(b) < KeyAt(f)
    BY <1>1, <2>2, <2>3 DEF Complete
  <2>4. CASE Len(b) >= KeyAt(f)
    <3>1. RequiredLength(b) = Len(Wire(f))
      BY <2>4, LengthRead
    <3> QED
      BY <1>1, <1>3, <2>2, <2>4, <3>1 DEF Complete
  <2> QED
    BY <1>1, <2>3, <2>4
<1> QED
  BY <1>1, <1>2, <1>3

(* The frame is cut out of the buffer as it was sent.                      *)
LEMMA FrameCut ==
  ASSUME NEW f \in ClientFrames, NEW S, NEW b \in Seq(S), Begins(b, f), Len(b) >= Len(Wire(f))
  PROVE  SubSeq(b, 1, Len(Wire(f))) = Wire(f)
<1> DEFINE w == Wire(f)
<1>1. w \in Seq(ByteTokens) /\ Len(w) \in Nat
  BY WireShape
<1>2. \A i \in 1..Len(w) : b[i] = w[i]
  BY <1>1 DEF Begins
<1>3. b \in Seq(S) /\ Len(b) >= Len(w)
  OBVIOUS
<1> HIDE DEF w
<1>4. w \in Seq(ByteTokens)
  BY <1>1
<1>5. SubSeq(b, 1, Len(w)) = w
  BY <1>2, <1>3, <1>4
<1> QED
  BY <1>5 DEF w

(* decodeFrame finds the opcode, and the payload that was masked.          *)
LEMMA FrameRead ==
  ASSUME NEW f \in ClientFrames
  PROVE  decodeFrame(Wire(f)) = [opcode |-> f.opcode,
                                 payload |-> IF f.opcode # 1 THEN <<>> ELSE f.payload]
<1> DEFINE b == Wire(f)
           c == Numbers(SubSeq(b, PayloadAt(b) + 1, RequiredLength(b)))
           k == Numbers(SubSeq(b, Offset(b) + 1, Offset(b) + 4))
           m == Masked(f)
<1>1. /\ b \in Seq(ByteTokens) /\ b[1] = Byte(128 + f.opcode)
      /\ \A i \in 1..Len(f.key) : b[KeyAt(f) + i] = Byte(f.key[i])
      /\ \A i \in 1..Len(f.payload) : b[PayloadStart(f) + i] = Byte(m[i])
  BY WireShape DEF KeyAt, PayloadStart
<1>2. /\ KeyAt(f) \in Nat /\ PayloadStart(f) \in Nat
      /\ Len(b) = PayloadStart(f) + Len(f.payload)
      /\ f.key # <<>> => PayloadStart(f) = KeyAt(f) + 4
      /\ KeyAt(f) <= Len(b) /\ PayloadStart(f) <= Len(b)
  BY Places
<1>3. Begins(b, f)
  BY DEF Begins
<1>4. RequiredLength(b) = Len(b)
  BY <1>1, <1>2, <1>3, LengthRead
<1>5. Offset(b) = KeyAt(f) /\ PayloadAt(b) = PayloadStart(f) /\ (IsMasked(b) <=> f.key # <<>>)
  BY SecondByte
<1>6. b[1][2] % 16 = f.opcode
  <2>1. b[1][2] = 128 + f.opcode
    BY <1>1, ByteValue
  <2>2. \A n \in Nat : n <= 15 => (128 + n) % 16 = n
    OBVIOUS
  <2>3. f.opcode \in Nat /\ f.opcode <= 15
    BY FrameFields
  <2>4. (128 + f.opcode) % 16 = f.opcode
    BY <2>2, <2>3
  <2> QED
    BY <2>1, <2>4
<1>7. c = m
  <2>1. m \in Seq(Octets) /\ Len(m) = Len(f.payload)
    BY MaskedType
  <2>2. /\ PayloadStart(f) + Len(m) <= Len(b)
        /\ \A i \in 1..Len(m) : b[PayloadStart(f) + i] = Byte(m[i])
    BY <1>1, <1>2, <2>1, FrameFields
  <2> HIDE DEF b, m
  <2>3. m \in Seq(Octets) /\ b \in Seq(ByteTokens)
    BY <1>1, <2>1
  <2>4. Numbers(SubSeq(b, PayloadStart(f) + 1, PayloadStart(f) + Len(m))) = m
    BY <1>2, <2>2, <2>3, NumbersOfStretch
  <2> QED
    BY <1>2, <1>4, <1>5, <2>1, <2>4
<1>8. f.key # <<>> => k = f.key
  <2> SUFFICES ASSUME f.key # <<>> PROVE k = f.key
    OBVIOUS
  <2>1. f.key \in Seq(Octets) /\ Len(f.key) = 4
    BY FrameFields
  <2>2. KeyAt(f) + Len(f.key) <= Len(b)
    BY <1>2, <2>1
  <2> HIDE DEF b
  <2>3. f.key \in Seq(Octets) /\ b \in Seq(ByteTokens)
    BY <1>1, <2>1
  <2>4. Numbers(SubSeq(b, KeyAt(f) + 1, KeyAt(f) + Len(f.key))) = f.key
    BY <1>1, <1>2, <2>2, <2>3, NumbersOfStretch
  <2> QED
    BY <1>5, <2>1, <2>4
<1>9. /\ DOMAIN m = DOMAIN f.payload
      /\ \A i \in DOMAIN f.payload :
           /\ m[i] = IF f.key = <<>> THEN f.payload[i]
                     ELSE Xor(f.payload[i], f.key[((i - 1) % 4) + 1])
           /\ f.payload[i] \in Octets
           /\ f.key # <<>> => f.key[((i - 1) % 4) + 1] \in Octets
  BY MaskedType
<1>10. f.payload = [i \in DOMAIN f.payload |-> f.payload[i]]
  BY FrameFields
<1>11. CASE f.key = <<>>
  <2>1. m = f.payload
    <3>1. m = [i \in DOMAIN f.payload |-> m[i]]
      BY DEF Masked
    <3> HIDE DEF m
    <3>2. \A i \in DOMAIN f.payload : m[i] = f.payload[i]
      BY <1>9, <1>11
    <3> QED
      BY <1>10, <3>1, <3>2
  <2> DEFINE u == [i \in DOMAIN c |-> Xor(c[i], k[((i - 1) % 4) + 1])]
  <2> HIDE DEF u
  <2>2. decodeFrame(b) = [opcode |-> b[1][2] % 16,
                          payload |-> IF b[1][2] % 16 # 1 THEN <<>>
                                      ELSE IF ~IsMasked(b) THEN c ELSE u]
    BY Zenon DEF decodeFrame, u
  <2> HIDE DEF b, c, m
  <2> QED
    BY <1>5, <1>6, <1>7, <1>11, <2>1, <2>2 DEF b
<1>12. CASE f.key # <<>>
  <2> DEFINE u == [i \in DOMAIN c |-> Xor(c[i], k[((i - 1) % 4) + 1])]
  <2>1. u = f.payload
    <3> HIDE DEF b, c, k, m
    <3>1. \A i \in DOMAIN f.payload : Xor(c[i], k[((i - 1) % 4) + 1]) = f.payload[i]
      <4> SUFFICES ASSUME NEW i \in DOMAIN f.payload
                   PROVE  Xor(c[i], k[((i - 1) % 4) + 1]) = f.payload[i]
        OBVIOUS
      <4> DEFINE j == ((i - 1) % 4) + 1
      <4> HIDE DEF j
      <4>1. /\ m[i] = Xor(f.payload[i], f.key[j]) /\ f.payload[i] \in Octets /\ f.key[j] \in Octets
        BY <1>9, <1>12 DEF j
      <4>2. Xor(m[i], f.key[j]) = f.payload[i]
        BY <4>1, XorTwice
      <4> QED
        BY <1>7, <1>8, <1>12, <4>2 DEF j
    <3>2. DOMAIN c = DOMAIN f.payload
      BY <1>7, <1>9
    <3> QED
      BY <1>10, <3>1, <3>2
  <2> HIDE DEF u
  <2>2. decodeFrame(b) = [opcode |-> b[1][2] % 16,
                          payload |-> IF b[1][2] % 16 # 1 THEN <<>>
                                      ELSE IF ~IsMasked(b) THEN c ELSE u]
    BY Zenon DEF decodeFrame, u
  <2> HIDE DEF b, c
  <2> QED
    BY <1>5, <1>6, <1>12, <2>1, <2>2 DEF b
<1> QED
  BY <1>11, <1>12
-----------------------------------------------------------------------------
(* The wire of the first frames of a stream, as the flattened prefix of    *)
(* all wires.                                                              *)
LEMMA WiresOfPrefix ==
  ASSUME NEW T, NEW fs \in Seq(ClientFrames), NEW j \in 0..Len(fs),
         \A i \in 1..Len(fs) : Wire(fs[i]) \in Seq(T)
  PROVE  WireAll(SubSeq(fs, 1, j)) = FlattenSeq(SubSeq([i \in 1..Len(fs) |-> Wire(fs[i])], 1, j))
<1> DEFINE p == SubSeq(fs, 1, j)
           w == [i \in 1..Len(fs) |-> Wire(fs[i])]
<1>1. p \in Seq(ClientFrames) /\ Len(p) = j /\ DOMAIN p = 1..j /\ \A i \in 1..j : p[i] = fs[i]
  OBVIOUS
<1>2. w \in Seq(Seq(T)) /\ Len(w) = Len(fs)
  OBVIOUS
<1>3. SubSeq(w, 1, j) = [i \in 1..j |-> w[i]]
  BY <1>2
<1>4. [i \in DOMAIN p |-> Wire(p[i])] = SubSeq(w, 1, j)
  <2>1. \A i \in 1..j : Wire(p[i]) = w[i]
    BY <1>1
  <2> QED
    BY <1>1, <1>3, <2>1
<1> QED
  BY <1>4 DEF WireAll

End(fs, j) == Len(WireAll(SubSeq(fs, 1, j)))

(* The wire of one frame more.                                             *)
LEMMA StreamGrows ==
  ASSUME NEW fs \in Seq(ClientFrames), NEW j \in 0..(Len(fs) - 1)
  PROVE  /\ WireAll(SubSeq(fs, 1, 0)) = <<>>
         /\ WireAll(SubSeq(fs, 1, j + 1)) = WireAll(SubSeq(fs, 1, j)) \o Wire(fs[j + 1])
<1> DEFINE w == [i \in 1..Len(fs) |-> Wire(fs[i])]
<1>1. \A i \in 1..Len(fs) : Wire(fs[i]) \in Seq(ByteTokens)
  BY WireShape
<1>2. w \in Seq(Seq(ByteTokens)) /\ Len(w) = Len(fs)
  BY <1>1
<1>3. \A k \in 0..Len(fs) : WireAll(SubSeq(fs, 1, k)) = FlattenSeq(SubSeq(w, 1, k))
  BY <1>1, WiresOfPrefix
<1>4. w[j + 1] = Wire(fs[j + 1])
  OBVIOUS
<1> HIDE DEF w
<1>5. j \in 0..(Len(w) - 1) /\ 0 \in 0..Len(fs) /\ j \in 0..Len(fs) /\ j + 1 \in 0..Len(fs)
  BY <1>2
<1>6. /\ FlattenSeq(SubSeq(w, 1, 0)) = <<>>
      /\ FlattenSeq(SubSeq(w, 1, j + 1)) = FlattenSeq(SubSeq(w, 1, j)) \o w[j + 1]
  BY <1>2, <1>5, FlattenPrefix
<1> QED
  BY <1>3, <1>4, <1>5, <1>6

(* What the wires of a prefix are made of.                                 *)
LEMMA StreamType ==
  ASSUME NEW T, NEW fs \in Seq(ClientFrames), NEW j \in 0..Len(fs),
         \A i \in 1..Len(fs) : Wire(fs[i]) \in Seq(T)
  PROVE  WireAll(SubSeq(fs, 1, j)) \in Seq(T)
<1> DEFINE w == [i \in 1..Len(fs) |-> Wire(fs[i])]
<1>1. w \in Seq(Seq(T)) /\ Len(w) = Len(fs)
  OBVIOUS
<1>2. WireAll(SubSeq(fs, 1, j)) = FlattenSeq(SubSeq(w, 1, j))
  BY WiresOfPrefix
<1> HIDE DEF w
<1>3. SubSeq(w, 1, j) \in Seq(Seq(T))
  BY <1>1
<1> QED
  BY <1>2, <1>3, FlattenType

(* Where each frame of a stream ends.                                      *)
LEMMA EndGrows ==
  ASSUME NEW fs \in Seq(ClientFrames)
  PROVE  /\ \A j \in 0..Len(fs) : WireAll(SubSeq(fs, 1, j)) \in Seq(ByteTokens) /\ End(fs, j) \in Nat
         /\ End(fs, 0) = 0
         /\ \A j \in 0..(Len(fs) - 1) :
              End(fs, j + 1) = End(fs, j) + Len(Wire(fs[j + 1])) /\ Len(Wire(fs[j + 1])) \in Nat \ {0}
<1>1. \A i \in 1..Len(fs) : fs[i] \in ClientFrames /\ Wire(fs[i]) \in Seq(ByteTokens)
  BY WireShape
<1>2. ASSUME NEW j \in 0..Len(fs)
      PROVE  WireAll(SubSeq(fs, 1, j)) \in Seq(ByteTokens) /\ End(fs, j) \in Nat
  <2>1. WireAll(SubSeq(fs, 1, j)) \in Seq(ByteTokens)
    BY <1>1, StreamType
  <2> QED
    BY <2>1 DEF End
<1>3. End(fs, 0) = 0
  <2>1. SubSeq(fs, 1, 0) = <<>>
    OBVIOUS
  <2>2. [i \in DOMAIN <<>> |-> Wire(<<>>[i])] = <<>>
    OBVIOUS
  <2>3. WireAll(<<>>) = <<>>
    BY <2>2, Len(<<>>) = 0 DEF WireAll, FlattenSeq
  <2> QED
    BY <2>1, <2>3, Len(<<>>) = 0, Zenon DEF End
<1>4. ASSUME NEW j \in 0..(Len(fs) - 1)
      PROVE  End(fs, j + 1) = End(fs, j) + Len(Wire(fs[j + 1])) /\ Len(Wire(fs[j + 1])) \in Nat \ {0}
  <2>1. j \in 0..Len(fs) /\ j + 1 \in 1..Len(fs)
    OBVIOUS
  <2>2. fs[j + 1] \in ClientFrames /\ Wire(fs[j + 1]) \in Seq(ByteTokens)
    BY <1>1, <2>1
  <2>3. WireAll(SubSeq(fs, 1, j)) \in Seq(ByteTokens)
    BY <1>2, <2>1
  <2>4. WireAll(SubSeq(fs, 1, j + 1)) = WireAll(SubSeq(fs, 1, j)) \o Wire(fs[j + 1])
    BY StreamGrows
  <2>5. Len(WireAll(SubSeq(fs, 1, j + 1)))
          = Len(WireAll(SubSeq(fs, 1, j))) + Len(Wire(fs[j + 1]))
    BY <2>2, <2>3, <2>4, Joined
  <2>6. Len(Wire(fs[j + 1])) \in Nat \ {0}
    <3>1. ASSUME NEW f \in ClientFrames PROVE Len(Wire(f)) \in Nat \ {0}
      BY Places
    <3> QED
      BY <2>2, <3>1
  <2> QED
    BY <2>5, <2>6 DEF End
<1> QED
  BY <1>2, <1>3, <1>4

(* A later frame ends later.                                               *)
LEMMA EndsInOrder ==
  ASSUME NEW fs \in Seq(ClientFrames), NEW j \in 0..Len(fs), NEW k \in j..Len(fs)
  PROVE  End(fs, j) + (k - j) <= End(fs, k)
<1> DEFINE E(l) == End(fs, l)
           n == Len(fs)
           T == {l \in Nat : j <= l /\ l <= n /\ ~(E(j) + (l - j) <= E(l))}
<1> SUFFICES ASSUME T # {} PROVE FALSE
  OBVIOUS
<1>1. n \in Nat /\ j \in Nat
  OBVIOUS
<1>2. PICK l \in T : \A y \in T : l <= y
  BY LeastElement
<1>3. \A i \in 0..n : E(i) \in Nat
  BY EndGrows
<1>4. ASSUME NEW i \in 0..(n - 1) PROVE E(i + 1) >= E(i) + 1
  <2>1. End(fs, i + 1) = End(fs, i) + Len(Wire(fs[i + 1])) /\ Len(Wire(fs[i + 1])) \in Nat \ {0}
    BY EndGrows
  <2>2. E(i) \in Nat
    BY <1>1, <1>3
  <2> QED
    BY <2>1, <2>2
<1> HIDE DEF E, n
<1>5. l # j
  BY <1>1, <1>2, <1>3
<1>6. l - 1 \in Nat /\ j <= l - 1 /\ l - 1 <= n /\ l - 1 \notin T
  BY <1>1, <1>2, <1>5
<1>7. E(j) + ((l - 1) - j) <= E(l - 1)
  BY <1>6
<1>8. l - 1 \in 0..(n - 1) /\ (l - 1) + 1 = l
  BY <1>1, <1>2, <1>6
<1>9. E(l) >= E(l - 1) + 1
  BY <1>4, <1>8
<1>10. E(j) \in Nat /\ E(l) \in Nat /\ E(l - 1) \in Nat
  BY <1>1, <1>2, <1>3, <1>6
<1> QED
  BY <1>1, <1>2, <1>7, <1>9, <1>10

(* Each frame stands in the stream behind the ones before it.              *)
LEMMA PlaceInStream ==
  ASSUME NEW fs \in Seq(ClientFrames), NEW j \in 0..(Len(fs) - 1), NEW k \in (j + 1)..Len(fs)
  PROVE  \A i \in 1..Len(Wire(fs[j + 1])) :
           WireAll(SubSeq(fs, 1, k))[End(fs, j) + i] = Wire(fs[j + 1])[i]
<1> DEFINE n == Len(fs)
           W(l) == WireAll(SubSeq(fs, 1, l))
           Placed(l) == \A i \in 1..Len(Wire(fs[j + 1])) : W(l)[End(fs, j) + i] = Wire(fs[j + 1])[i]
           T == {l \in Nat : j + 1 <= l /\ l <= n /\ ~Placed(l)}
<1> SUFFICES ASSUME T # {} PROVE FALSE
  OBVIOUS
<1>1. n \in Nat /\ j \in Nat /\ j + 1 <= n
  OBVIOUS
<1>2. PICK l \in T : \A y \in T : l <= y
  BY LeastElement
<1>3. \A i \in 0..n : W(i) \in Seq(ByteTokens)
  BY EndGrows
<1>4. ASSUME NEW i \in 1..n PROVE Wire(fs[i]) \in Seq(ByteTokens)
  BY fs[i] \in ClientFrames, WireShape
<1>5. ASSUME NEW i \in 0..(n - 1) PROVE W(i + 1) = W(i) \o Wire(fs[i + 1])
  BY StreamGrows
<1>6. End(fs, j) = Len(W(j))
  BY DEF End
<1>7. Placed(j + 1)
  <2>1. W(j) \in Seq(ByteTokens) /\ Wire(fs[j + 1]) \in Seq(ByteTokens)
    <3>1. j \in 0..n /\ j + 1 \in 1..n
      BY <1>1
    <3> HIDE DEF W, n
    <3> QED
      BY <1>3, <1>4, <3>1
  <2>2. W(j + 1) = W(j) \o Wire(fs[j + 1])
    BY <1>1, <1>5
  <2> HIDE DEF W
  <2> QED
    BY <1>6, <2>1, <2>2, Joined
<1> HIDE DEF Placed, n
<1>8. l # j + 1 /\ l \in Nat /\ j + 1 <= l /\ l <= n
  BY <1>2, <1>7
<1>9. l - 1 \in Nat /\ j + 1 <= l - 1 /\ l - 1 <= n /\ l - 1 \notin T
  BY <1>1, <1>2, <1>8
<1>10. Placed(l - 1)
  BY <1>9
<1>11. W(l) = W(l - 1) \o Wire(fs[l])
  <2>1. l - 1 \in 0..(n - 1) /\ (l - 1) + 1 = l
    BY <1>1, <1>8, <1>9
  <2> HIDE DEF W
  <2> QED
    BY <1>5, <2>1
<1>12. W(l - 1) \in Seq(ByteTokens) /\ Wire(fs[l]) \in Seq(ByteTokens)
  BY <1>1, <1>3, <1>4, <1>8, <1>9
<1>13. \A i \in 1..Len(W(l - 1)) : W(l)[i] = W(l - 1)[i]
  <2> HIDE DEF W
  <2> QED
    BY <1>11, <1>12, Joined
<1>14. Placed(l)
  <2> SUFFICES ASSUME NEW i \in 1..Len(Wire(fs[j + 1]))
               PROVE  W(l)[End(fs, j) + i] = Wire(fs[j + 1])[i]
    BY DEF Placed
  <2>1. W(l - 1)[End(fs, j) + i] = Wire(fs[j + 1])[i]
    BY <1>10 DEF Placed
  <2>2. End(fs, j) + i \in 1..Len(W(l - 1))
    <3>1. End(fs, j + 1) = End(fs, j) + Len(Wire(fs[j + 1])) /\ Len(Wire(fs[j + 1])) \in Nat
      BY EndGrows
    <3>2. j + 1 \in 0..Len(fs) /\ l - 1 \in (j + 1)..Len(fs) /\ j \in 0..Len(fs) /\ l - 1 \in 0..Len(fs)
      BY <1>1, <1>9 DEF n
    <3>3. End(fs, j + 1) + ((l - 1) - (j + 1)) <= End(fs, l - 1)
      BY <3>2, EndsInOrder
    <3>4. End(fs, j) \in Nat /\ End(fs, l - 1) \in Nat
      BY <3>2, EndGrows
    <3>5. End(fs, l - 1) = Len(W(l - 1))
      BY DEF End
    <3> HIDE DEF W
    <3> QED
      BY <1>1, <1>9, <3>1, <3>3, <3>4, <3>5
  <2> QED
    BY <1>13, <2>1, <2>2
<1> QED
  BY <1>2, <1>14

(* What has come of a stream behind its first j frames begins like the     *)
(* next one.                                                               *)
Rest(fs, j, a) == SubSeq(WireAll(fs), End(fs, j) + 1, a)

(* The stream is its longest prefix.                                       *)
LEMMA WholeStream ==
  ASSUME NEW fs \in Seq(ClientFrames)
  PROVE  /\ WireAll(fs) \in Seq(ByteTokens) /\ Len(WireAll(fs)) = End(fs, Len(fs))
         /\ WireAll(fs) = WireAll(SubSeq(fs, 1, Len(fs)))
<1>1. SubSeq(fs, 1, Len(fs)) = fs /\ Len(fs) \in 0..Len(fs)
  OBVIOUS
<1> QED
  BY <1>1, EndGrows DEF End

(* The arrived part of a stream behind its first frames.                   *)
LEMMA RestShape ==
  ASSUME NEW fs \in Seq(ClientFrames), NEW j \in 0..Len(fs), NEW a \in Nat,
         End(fs, j) <= a, a <= Len(WireAll(fs))
  PROVE  /\ Rest(fs, j, a) \in Seq(ByteTokens) /\ Len(Rest(fs, j, a)) = a - End(fs, j)
         /\ \A i \in 1..(a - End(fs, j)) : Rest(fs, j, a)[i] = WireAll(fs)[End(fs, j) + i]
<1> DEFINE W == WireAll(fs)
           e == End(fs, j)
<1>1. W \in Seq(ByteTokens) /\ e \in Nat /\ e <= a /\ a <= Len(W)
  BY WholeStream, EndGrows
<1> HIDE DEF W, e
<1>2. /\ SubSeq(W, e + 1, a) \in Seq(ByteTokens) /\ Len(SubSeq(W, e + 1, a)) = a - e
      /\ \A i \in 1..(a - e) : SubSeq(W, e + 1, a)[i] = W[e + i]
  BY <1>1
<1> QED
  BY <1>2, Zenon DEF W, e, Rest

(* What has arrived behind the first frames begins with the next.          *)
LEMMA RestBegins ==
  ASSUME NEW fs \in Seq(ClientFrames), NEW j \in 0..(Len(fs) - 1), NEW a \in Nat,
         End(fs, j) <= a, a <= Len(WireAll(fs))
  PROVE  fs[j + 1] \in ClientFrames /\ Begins(Rest(fs, j, a), fs[j + 1])
<1>1. j \in 0..Len(fs) /\ j + 1 \in 1..Len(fs) /\ Len(fs) \in (j + 1)..Len(fs)
  OBVIOUS
<1>2. fs[j + 1] \in ClientFrames
  BY <1>1
<1>3. ASSUME NEW i \in 1..Len(Rest(fs, j, a)), i <= Len(Wire(fs[j + 1]))
      PROVE  Rest(fs, j, a)[i] = Wire(fs[j + 1])[i]
  <2>1. Len(Rest(fs, j, a)) = a - End(fs, j)
    BY <1>1, RestShape
  <2>2. Rest(fs, j, a)[i] = WireAll(fs)[End(fs, j) + i]
    BY <1>1, <2>1, RestShape
  <2>3. i \in 1..Len(Wire(fs[j + 1]))
    <3>1. Len(Wire(fs[j + 1])) \in Nat /\ Len(Rest(fs, j, a)) \in Nat
      <4>1. Rest(fs, j, a) \in Seq(ByteTokens)
        BY <1>1, RestShape
      <4> QED
        BY <4>1, EndGrows
    <3> QED
      BY <1>3, <3>1
  <2>4. WireAll(fs)[End(fs, j) + i] = Wire(fs[j + 1])[i]
    BY <1>1, <2>3, PlaceInStream, WholeStream
  <2> QED
    BY <2>2, <2>4
<1> QED
  BY <1>2, <1>3 DEF Begins

(* Without the next frame the rest shrinks to the rest behind it.          *)
LEMMA RestOfRest ==
  ASSUME NEW fs \in Seq(ClientFrames), NEW j \in 0..(Len(fs) - 1), NEW a \in Nat,
         End(fs, j + 1) <= a, a <= Len(WireAll(fs))
  PROVE  SubSeq(Rest(fs, j, a), Len(Wire(fs[j + 1])) + 1, Len(Rest(fs, j, a))) = Rest(fs, j + 1, a)
<1> DEFINE W == WireAll(fs)
           e == End(fs, j)
           l == Len(Wire(fs[j + 1]))
           b == Rest(fs, j, a)
           c == Rest(fs, j + 1, a)
<1>1. j \in 0..Len(fs) /\ j + 1 \in 0..Len(fs)
  OBVIOUS
<1>2. e \in Nat /\ l \in Nat /\ End(fs, j + 1) = e + l /\ a <= Len(W) /\ Len(W) \in Nat
  BY <1>1, EndGrows, WholeStream
<1>3. e <= a /\ e + l <= a
  BY <1>2
<1>4. b \in Seq(ByteTokens) /\ Len(b) = a - e /\ \A i \in 1..(a - e) : b[i] = W[e + i]
  BY <1>1, <1>3, RestShape
<1>5. c \in Seq(ByteTokens) /\ Len(c) = a - (e + l) /\ \A i \in 1..(a - (e + l)) : c[i] = W[e + l + i]
  BY <1>1, <1>2, RestShape
<1> HIDE DEF W, e, l, b, c
<1> DEFINE d == SubSeq(b, l + 1, Len(b))
<1>6. /\ d \in Seq(ByteTokens) /\ Len(d) = a - (e + l)
      /\ \A i \in 1..(a - (e + l)) : d[i] = b[l + i]
  <2>1. l \in 0..Len(b) /\ Len(b) - l = a - (e + l)
    BY <1>2, <1>3, <1>4
  <2>2. /\ d \in Seq(ByteTokens) /\ Len(d) = Len(b) - l
        /\ \A i \in 1..(Len(b) - l) : d[i] = b[l + i]
    BY <1>4, <2>1, Dropped
  <2> QED
    BY <2>1, <2>2
<1> HIDE DEF d
<1>7. ASSUME NEW i \in 1..(a - (e + l)) PROVE d[i] = c[i]
  <2>1. l + i \in 1..(a - e) /\ e + (l + i) = e + l + i
    BY <1>2, <1>3
  <2>2. d[i] = b[l + i] /\ b[l + i] = W[e + (l + i)] /\ c[i] = W[e + l + i]
    BY <1>4, <1>5, <1>6, <2>1
  <2> QED
    BY <2>1, <2>2
<1>8. d = c
  BY <1>5, <1>6, <1>7
<1> QED
  BY <1>8 DEF d, l, b, c-----------------------------------------------------------------------------
(* What encodeFrame writes is what a client would put on the wire for an   *)
(* unmasked text.                                                          *)
TextFrame(p) ==
  [opcode |-> 1, extended |-> IF Len(p) < 126 THEN 0 ELSE IF Len(p) <= MaxTwoBytes THEN 2 ELSE 8,
   key |-> <<>>, payload |-> p]

(* A text of any length a string may have fits in a frame.                 *)
LEMMA TextFrameType ==
  ASSUME NEW p \in Payloads, Len(p) <= MaxLength
  PROVE  TextFrame(p) \in ClientFrames
<1> DEFINE e == IF Len(p) < 126 THEN 0 ELSE IF Len(p) <= MaxTwoBytes THEN 2 ELSE 8
           f == [opcode |-> 1, extended |-> e, key |-> <<>>, payload |-> p]
<1>1. Len(p) \in Nat
  BY DEF Payloads
<1>2. e \in {0, 2, 8} /\ Len(p) <= IF e = 0 THEN 125 ELSE IF e = 2 THEN MaxTwoBytes ELSE MaxLength
  BY <1>1
<1>3. <<>> \in Seq(Octets) /\ Len(<<>>) = 0 /\ 1 \in 0..15
  OBVIOUS
<1> HIDE DEF e
<1>4. f \in [opcode : 0..15, extended : {0, 2, 8}, key : Seq(Octets), payload : Payloads]
  BY <1>2, <1>3
<1>5. f.key = <<>> /\ f.payload = p /\ f.extended = e
  OBVIOUS
<1>6. f = TextFrame(p)
  BY DEF TextFrame, e
<1> HIDE DEF f
<1>7. Len(f.key) \in {0, 4}
  BY <1>3, <1>5
<1>8. Len(f.payload) <= IF f.extended = 0 THEN 125 ELSE IF f.extended = 2 THEN 65535 ELSE MaxLength
  BY <1>2, <1>5 DEF MaxTwoBytes
<1>9. f \in ClientFrames
  BY <1>4, <1>7, <1>8 DEF ClientFrames
<1> QED
  BY <1>6, <1>9

(* What encodeFrame makes is the wire of a text that is not masked.        *)
LEMMA Encoded ==
  ASSUME NEW p \in Payloads, Len(p) <= MaxLength
  PROVE  encodeFrame(p) = Wire(TextFrame(p))
<1> DEFINE f == TextFrame(p)
           d == Digits(Len(p), f.extended)
<1>1. /\ f.opcode = 1 /\ f.key = <<>> /\ f.payload = p
      /\ f.extended = IF Len(p) < 126 THEN 0 ELSE IF Len(p) <= MaxTwoBytes THEN 2 ELSE 8
  BY DEF TextFrame
<1>2. f \in ClientFrames
  BY TextFrameType
<1>3. d \in Seq(Octets) /\ Len(d) = f.extended
  BY <1>1, <1>2, LengthDigits
<1>4. p \in Seq(Octets) /\ Len(p) \in Nat
  BY DEF Payloads
<1>5. Masked(f) = p
  <2>1. DOMAIN Masked(f) = DOMAIN p /\ Masked(f) \in Seq(Octets)
    BY <1>1, <1>2, MaskedType
  <2>2. \A i \in DOMAIN p : Masked(f)[i] = p[i]
    BY <1>1, <1>2, MaskedType
  <2> HIDE DEF f
  <2> QED
    BY <1>4, <2>1, <2>2
<1>6. HeadBytes(f) = <<129, LengthCode(f)>>
  <2>1. 128 + f.opcode = 129
    BY <1>1
  <2> HIDE DEF f
  <2> QED
    BY <1>1, <2>1 DEF HeadBytes
<1>7. Wire(f) = Bytes(<<129, LengthCode(f)>> \o d \o <<>> \o p)
  <2>1. Wire(f) = Bytes(HeadBytes(f) \o Digits(Len(f.payload), f.extended) \o f.key \o Masked(f))
    BY Zenon DEF Wire, HeadBytes, LengthCode, Masked
  <2> HIDE DEF f
  <2> QED
    BY <1>1, <1>5, <1>6, <2>1 DEF d
<1> DEFINE c == LengthCode(f)
<1>8. c \in Octets
  BY <1>2, HeadType, OctetRange
<1>9. LengthBytes(Len(p)) = <<c>> \o d
  <2>1. LengthBytes(Len(p)) = IF Len(p) < 126 THEN <<Len(p)>>
                              ELSE IF Len(p) <= MaxTwoBytes THEN <<126>> \o Digits(Len(p), 2)
                              ELSE <<127>> \o Digits(Len(p), 8)
    BY DEF LengthBytes, MaxTwoBytes
  <2>2. c = IF f.extended = 2 THEN 126 ELSE IF f.extended = 8 THEN 127 ELSE Len(p)
    BY <1>1 DEF LengthCode
  <2>3. f.extended = 0 => d = <<>>
    BY DigitsNone
  <2>4. ASSUME NEW x \in Octets PROVE <<x>> \o <<>> = <<x>>
    OBVIOUS
  <2> HIDE DEF c, f
  <2>5. CASE Len(p) < 126
    <3>1. f.extended = 0 /\ c = Len(p)
      BY <1>1, <2>2, <2>5
    <3> QED
      BY <1>8, <2>1, <2>3, <2>4, <2>5, <3>1
  <2>6. CASE ~(Len(p) < 126) /\ Len(p) <= MaxTwoBytes
    <3>1. f.extended = 2 /\ c = 126
      BY <1>1, <2>2, <2>6
    <3> QED
      BY <2>1, <2>6, <3>1 DEF d
  <2>7. CASE ~(Len(p) < 126) /\ ~(Len(p) <= MaxTwoBytes)
    <3>1. f.extended = 8 /\ c = 127
      BY <1>1, <2>2, <2>7
    <3> QED
      BY <2>1, <2>7, <3>1 DEF d
  <2> QED
    BY <2>5, <2>6, <2>7
<1>10. <<129>> \o (<<c>> \o d) \o p = <<129, c>> \o d \o <<>> \o p
  <2>1. 129 \in Octets
    BY OctetRange
  <2> DEFINE y == 129
  <2>2. y \in Octets
    BY <2>1
  <2> HIDE DEF c, d, y
  <2>3. d \in Seq(Octets) /\ p \in Seq(Octets)
    BY <1>3, <1>4
  <2>4. <<c>> \in Seq(Octets) /\ <<y>> \in Seq(Octets) /\ <<y, c>> \in Seq(Octets)
    BY <1>8, <2>2
  <2>5. <<y, c>> = <<y>> \o <<c>>
    BY <1>8, <2>2
  <2>6. (<<y>> \o <<c>>) \o d = <<y>> \o (<<c>> \o d)
    BY <2>3, <2>4
  <2>7. <<y, c>> \o d \o <<>> = <<y, c>> \o d
    BY <2>3, <2>4
  <2>8. <<y>> \o (<<c>> \o d) \o p = <<y, c>> \o d \o <<>> \o p
    BY <2>5, <2>6, <2>7
  <2> QED
    BY <2>8 DEF y
<1> HIDE DEF f, d, c
<1>11. encodeFrame(p) = Bytes(<<129>> \o (<<c>> \o d) \o p)
  BY <1>9 DEF encodeFrame
<1> QED
  BY <1>7, <1>10, <1>11 DEF c, f

(* So it is read back, whatever its length.                                *)
LEMMA EncodingRead == EncodedIsRead
<1> SUFFICES ASSUME NEW n \in Lengths
             PROVE  LET payload == [i \in 1..n |-> 1]
                        frame == encodeFrame(payload)
                    IN Complete(frame) /\ RequiredLength(frame) = Len(frame)
                         /\ decodeFrame(frame) = [opcode |-> 1, payload |-> payload]
  BY DEF EncodedIsRead
<1> DEFINE p == [i \in 1..n |-> 1]
           b == encodeFrame(p)
           f == TextFrame(p)
<1>1. n \in Nat /\ n <= MaxLength
  BY MessagesAssumption
<1>2. p \in [1..n -> Octets]
  BY OctetRange
<1>3. p \in Payloads /\ Len(p) <= MaxLength
  BY <1>1, <1>2, FunctionSeq DEF Payloads
<1> HIDE DEF p
<1>4. f \in ClientFrames /\ b = Wire(f)
  BY <1>3, TextFrameType, Encoded
<1>5. f.opcode = 1 /\ f.payload = p
  BY DEF TextFrame
<1> HIDE DEF f, b
<1>6. b \in Seq(ByteTokens) /\ Len(b) = Len(Wire(f)) /\ Len(b) \in Nat
  BY <1>4, WireShape
<1>7. Begins(b, f)
  BY <1>4 DEF Begins
<1>8. Complete(b) /\ RequiredLength(b) = Len(b)
  BY <1>4, <1>6, <1>7, CompleteFrame
<1>9. decodeFrame(b) = [opcode |-> 1, payload |-> p]
  BY <1>4, <1>5, FrameRead
<1> QED
  BY <1>8, <1>9 DEF b, p
-----------------------------------------------------------------------------
(* The headers, and the frames behind them.                                *)
InputTokens == HeaderLines \cup ByteTokens
InputOf(h, fs) == h \o WireAll(fs)

(* No byte of a frame is mistaken for the end of a line.                   *)
LEMMA BytesAreNoLines == \A x \in ByteTokens : x # CRLF
<1> SUFFICES ASSUME NEW n \in Octets PROVE Byte(n) # CRLF
  BY DEF ByteTokens
<1>1. Len(Byte(n)) = 2
  BY DEF Byte
<1>2. Len(CRLF) = 1
  BY DEF CRLF
<1> QED
  BY <1>1, <1>2

(* All that a client sends: its headers, then the stream of its frames.    *)
LEMMA InputShape ==
  ASSUME NEW h \in Seq(HeaderLines), NEW fs \in Seq(ClientFrames)
  PROVE  /\ InputOf(h, fs) \in Seq(InputTokens)
         /\ Len(InputOf(h, fs)) = Len(h) + Len(WireAll(fs))
         /\ Len(h) \in Nat /\ Len(WireAll(fs)) \in Nat
         /\ \A i \in 1..Len(h) : InputOf(h, fs)[i] = h[i]
         /\ \A i \in 1..Len(WireAll(fs)) :
              /\ InputOf(h, fs)[Len(h) + i] = WireAll(fs)[i]
              /\ WireAll(fs)[i] \in ByteTokens
<1> DEFINE w == WireAll(fs)
<1>1. w \in Seq(ByteTokens)
  BY WholeStream
<1> HIDE DEF w
<1>2. h \in Seq(InputTokens) /\ w \in Seq(InputTokens)
  BY <1>1 DEF InputTokens
<1>3. /\ h \o w \in Seq(InputTokens) /\ Len(h \o w) = Len(h) + Len(w)
      /\ \A i \in 1..Len(h) : (h \o w)[i] = h[i]
      /\ \A i \in 1..Len(w) : (h \o w)[Len(h) + i] = w[i]
  BY <1>2, Joined
<1>4. InputOf(h, fs) = h \o w
  BY DEF InputOf, w
<1>5. \A i \in 1..Len(w) : w[i] \in ByteTokens
  BY <1>1
<1>6. Len(h) \in Nat /\ Len(w) \in Nat
  BY <1>1
<1> DEFINE x == InputOf(h, fs)
<1>7. x = h \o w
  BY <1>4
<1> HIDE DEF x
<1>8. /\ x \in Seq(InputTokens) /\ Len(x) = Len(h) + Len(w)
      /\ \A i \in 1..Len(h) : x[i] = h[i]
      /\ \A i \in 1..Len(w) : x[Len(h) + i] = w[i] /\ w[i] \in ByteTokens
  BY <1>3, <1>5, <1>7
<1> QED
  BY <1>6, <1>8 DEF w, x

(* The first tokens of a sequence, and the next ones.                      *)
LEMMA Extended ==
  ASSUME NEW S, NEW w \in Seq(S), NEW m \in Nat, NEW a \in Nat, NEW b \in Nat,
         m <= a, a <= b, b <= Len(w)
  PROVE  /\ SubSeq(w, m + 1, a) \o SubSeq(w, a + 1, b) = SubSeq(w, m + 1, b)
         /\ SubSeq(w, m + 1, b) \in Seq(S)
<1> DEFINE c == SubSeq(w, m + 1, a)
           d == SubSeq(w, a + 1, b)
           e == SubSeq(w, m + 1, b)
<1>1. c \in Seq(S) /\ Len(c) = a - m /\ \A i \in 1..(a - m) : c[i] = w[m + i]
  OBVIOUS
<1>2. d \in Seq(S) /\ Len(d) = b - a /\ \A i \in 1..(b - a) : d[i] = w[a + i]
  OBVIOUS
<1>3. e \in Seq(S) /\ Len(e) = b - m /\ \A i \in 1..(b - m) : e[i] = w[m + i]
  OBVIOUS
<1> DEFINE x == c \o d
<1> HIDE DEF c, d, e
<1>4. /\ x \in Seq(S) /\ Len(x) = Len(c) + Len(d)
      /\ \A i \in 1..Len(c) : x[i] = c[i]
      /\ \A i \in 1..Len(d) : x[Len(c) + i] = d[i]
  <2>1. c \in Seq(S) /\ d \in Seq(S)
    BY <1>1, <1>2
  <2> QED
    BY <2>1, Joined
<1> HIDE DEF x
<1>5. Len(x) = b - m
  BY <1>1, <1>2, <1>4
<1>6. ASSUME NEW i \in 1..(b - m) PROVE x[i] = e[i]
  <2>1. CASE i <= a - m
    <3>1. i \in 1..(a - m)
      BY <2>1
    <3> QED
      BY <1>1, <1>3, <1>4, <3>1
  <2>2. CASE ~(i <= a - m)
    <3> DEFINE j == i - (a - m)
    <3>1. j \in 1..(b - a) /\ (a - m) + j = i /\ a + j = m + i
      BY <2>2
    <3> HIDE DEF j
    <3>2. x[(a - m) + j] = d[j] /\ d[j] = w[a + j] /\ e[i] = w[m + i]
      BY <1>1, <1>2, <1>3, <1>4, <3>1
    <3> QED
      BY <3>1, <3>2
  <2> QED
    BY <2>1, <2>2
<1>7. x = e
  <2>1. x \in Seq(S) /\ e \in Seq(S)
    BY <1>3, <1>4
  <2>2. DOMAIN x = 1..(b - m) /\ DOMAIN e = 1..(b - m)
    BY <1>3, <1>5, <2>1
  <2>3. x = [i \in DOMAIN x |-> x[i]] /\ e = [i \in DOMAIN e |-> e[i]]
    BY <2>1
  <2> QED
    BY <1>6, <2>2, <2>3
<1> QED
  BY <1>3, <1>7 DEF x, c, d, e

(* The end of the headers is found when their last token has come, and no  *)
(* frame behind them changes that.                                         *)
LEMMA HeadersFound ==
  ASSUME NEW h \in ClientHeaders, NEW fs \in Seq(ClientFrames),
         NEW a \in 0..Len(InputOf(h, fs))
  PROVE  /\ h \in Seq(HeaderLines) /\ Len(h) \in Nat /\ 2 <= Len(h)
         /\ Boundary(SubSeq(InputOf(h, fs), 1, a)) = IF a >= Len(h) THEN {Len(h) - 1} ELSE {}
<1> DEFINE w == InputOf(h, fs)
           b == SubSeq(w, 1, a)
           l == Len(h)
           Pair(t, i) == t[i] = CRLF /\ t[i + 1] = CRLF
<1>1. h \in Seq(HeaderLines) /\ Boundary(h) = {l - 1} /\ l \in Nat
  BY DEF ClientHeaders
<1>2. /\ w \in Seq(InputTokens) /\ Len(w) \in Nat
      /\ \A i \in 1..l : w[i] = h[i]
      /\ \A i \in (l + 1)..Len(w) : w[i] # CRLF
  <2>1. /\ w \in Seq(InputTokens) /\ Len(w) = l + Len(WireAll(fs)) /\ Len(WireAll(fs)) \in Nat
        /\ \A i \in 1..l : w[i] = h[i]
        /\ \A i \in 1..Len(WireAll(fs)) : w[l + i] \in ByteTokens
    BY <1>1, InputShape
  <2> HIDE DEF w, l
  <2>2. ASSUME NEW i \in (l + 1)..Len(w) PROVE w[i] # CRLF
    <3>1. i - l \in 1..Len(WireAll(fs)) /\ l + (i - l) = i
      BY <1>1, <2>1
    <3>2. w[l + (i - l)] \in ByteTokens
      BY <2>1, <3>1
    <3> QED
      BY <3>1, <3>2, BytesAreNoLines
  <2> QED
    BY <1>1, <2>1, <2>2
<1>3. b \in Seq(InputTokens) /\ Len(b) = a /\ a \in Nat /\ \A i \in 1..a : b[i] = w[i]
  <2>1. w \in Seq(InputTokens) /\ a \in 0..Len(w)
    BY <1>2
  <2> HIDE DEF w
  <2> QED
    BY <2>1
<1>4. 2 <= l /\ Pair(h, l - 1) /\ \A j \in 1..(l - 2) : ~Pair(h, j)
  <2>1. l - 1 \in Boundary(h)
    BY <1>1
  <2>2. l - 1 \in 1..(l - 1) /\ Pair(h, l - 1) /\ \A j \in 1..(l - 1) - 1 : ~Pair(h, j)
    BY <2>1 DEF Boundary
  <2>3. (l - 1) - 1 = l - 2
    BY <1>1
  <2> HIDE DEF Pair, l
  <2> QED
    BY <1>1, <2>2, <2>3
<1> HIDE DEF w, b, l
<1>5. ASSUME NEW i \in 1..(a - 1)
      PROVE  Pair(b, i) <=> i = l - 1
  <2>1. b[i] = w[i] /\ b[i + 1] = w[i + 1]
    BY <1>3
  <2>2. CASE i + 1 <= l
    <3>1. w[i] = h[i] /\ w[i + 1] = h[i + 1]
      BY <1>1, <1>2, <1>3, <2>2
    <3>2. Pair(h, i) <=> i = l - 1
      <4>1. i = l - 1 \/ i \in 1..(l - 2)
        BY <1>1, <1>3, <2>2
      <4>2. i \in 1..(l - 2) => i # l - 1
        BY <1>1
      <4> HIDE DEF Pair
      <4> QED
        BY <1>4, <4>1, <4>2
    <3> QED
      BY <2>1, <3>1, <3>2
  <2>3. CASE ~(i + 1 <= l)
    <3>1. i + 1 \in (l + 1)..Len(w) /\ i # l - 1
      <4>1. a <= Len(w)
        BY DEF w
      <4> QED
        BY <1>1, <1>2, <1>3, <2>3, <4>1
    <3> QED
      BY <1>2, <2>1, <3>1
  <2> QED
    BY <2>2, <2>3
<1>6. Boundary(b) = {i \in 1..(a - 1) : Pair(b, i) /\ \A j \in 1..(i - 1) : ~Pair(b, j)}
  BY <1>3 DEF Boundary
<1> HIDE DEF Pair
<1>7. Boundary(b) = IF a >= l THEN {l - 1} ELSE {}
  <2>1. \A i \in Boundary(b) : i = l - 1 /\ i \in 1..(a - 1)
    BY <1>5, <1>6
  <2>2. CASE a >= l
    <3>1. l - 1 \in 1..(a - 1)
      BY <1>1, <1>3, <1>4, <2>2
    <3>2. \A j \in 1..((l - 1) - 1) : j \in 1..(a - 1) /\ j # l - 1
      BY <1>1, <1>3, <2>2
    <3>3. l - 1 \in Boundary(b)
      BY <1>5, <1>6, <3>1, <3>2
    <3> QED
      BY <2>1, <2>2, <3>3
  <2>3. CASE ~(a >= l)
    <3>1. l - 1 \notin 1..(a - 1)
      BY <1>1, <1>3, <2>3
    <3>2. Boundary(b) = {}
      BY <2>1, <3>1
    <3> QED
      BY <2>3, <3>2
  <2> QED
    BY <2>2, <2>3
<1> QED
  BY <1>1, <1>4, <1>7 DEF b, w, l

(* What the upgrade leaves in the buffer are the frames that came with it. *)
LEMMA BehindTheHeaders ==
  ASSUME NEW h \in ClientHeaders, NEW fs \in Seq(ClientFrames),
         NEW a \in 0..Len(InputOf(h, fs)), Boundary(SubSeq(InputOf(h, fs), 1, a)) # {}
  PROVE  /\ a >= Len(h)
         /\ BehindHeaders(SubSeq(InputOf(h, fs), 1, a)) = SubSeq(WireAll(fs), 1, a - Len(h))
<1> DEFINE w == InputOf(h, fs)
           b == SubSeq(w, 1, a)
           l == Len(h)
           v == WireAll(fs)
<1>1. h \in Seq(HeaderLines) /\ l \in Nat /\ 2 <= l /\ a >= l /\ Boundary(b) = {l - 1}
  BY HeadersFound
<1>2. /\ w \in Seq(InputTokens) /\ Len(w) = l + Len(v) /\ Len(v) \in Nat
      /\ \A i \in 1..Len(v) : w[l + i] = v[i]
  BY <1>1, InputShape
<1>3. v \in Seq(ByteTokens)
  BY WholeStream
<1>4. b \in Seq(InputTokens) /\ Len(b) = a /\ a \in Nat /\ \A i \in 1..a : b[i] = w[i]
  <2>1. w \in Seq(InputTokens) /\ a \in 0..Len(w)
    BY <1>2
  <2> HIDE DEF w
  <2> QED
    BY <2>1
<1> HIDE DEF w, b, l, v
<1>5. HeadersBlock(b) = SubSeq(b, 1, l - 2)
  <2>1. (CHOOSE i \in Boundary(b) : TRUE) = l - 1
    BY <1>1
  <2>2. (l - 1) - 1 = l - 2
    BY <1>1
  <2> QED
    BY <2>1, <2>2 DEF HeadersBlock
<1>6. Len(HeadersBlock(b)) + 3 = l + 1
  <2>1. b \in Seq(InputTokens) /\ l - 2 \in 0..Len(b)
    BY <1>1, <1>4
  <2>2. Len(SubSeq(b, 1, l - 2)) = l - 2
    BY <2>1
  <2> QED
    BY <1>1, <1>5, <2>2
<1> DEFINE c == SubSeq(b, l + 1, Len(b))
           d == SubSeq(v, 1, a - l)
<1>7. BehindHeaders(b) = c
  BY <1>6 DEF BehindHeaders
<1>8. /\ c \in Seq(InputTokens) /\ Len(c) = a - l
      /\ \A i \in 1..(a - l) : c[i] = b[l + i]
  <2>1. b \in Seq(InputTokens) /\ l \in 0..Len(b)
    BY <1>1, <1>4
  <2>2. /\ c \in Seq(InputTokens) /\ Len(c) = Len(b) - l
        /\ \A i \in 1..(Len(b) - l) : c[i] = b[l + i]
    BY <2>1, Dropped
  <2> QED
    BY <1>4, <2>2
<1>9. d \in Seq(ByteTokens) /\ Len(d) = a - l /\ \A i \in 1..(a - l) : d[i] = v[i]
  <2>1. a - l \in Nat /\ a - l <= Len(v)
    <3>1. a <= Len(w)
      BY DEF w
    <3> QED
      BY <1>1, <1>2, <1>4, <3>1
  <2> QED
    BY <1>3, <2>1
<1>10. \A i \in 1..(a - l) : c[i] = d[i]
  <2> SUFFICES ASSUME NEW i \in 1..(a - l) PROVE c[i] = d[i]
    OBVIOUS
  <2>1. l + i \in 1..a /\ i \in 1..Len(v)
    <3>1. a <= Len(w)
      BY DEF w
    <3> QED
      BY <1>1, <1>2, <1>4, <3>1
  <2>2. c[i] = b[l + i] /\ b[l + i] = w[l + i] /\ w[l + i] = v[i] /\ d[i] = v[i]
    BY <1>2, <1>4, <1>8, <1>9, <2>1
  <2> QED
    BY <2>2
<1> HIDE DEF c, d
<1>11. c = d
  BY <1>8, <1>9, <1>10
<1> QED
  BY <1>1, <1>7, <1>11 DEF b, w, l, v, d

(* Behind the headers the input is the stream of frames.                   *)
LEMMA FramesArriving ==
  ASSUME NEW h \in Seq(HeaderLines), NEW fs \in Seq(ClientFrames),
         NEW a \in Nat, NEW last \in Nat, Len(h) <= a, a <= last, last <= Len(InputOf(h, fs))
  PROVE  SubSeq(InputOf(h, fs), a + 1, last) = SubSeq(WireAll(fs), (a - Len(h)) + 1, last - Len(h))
<1> DEFINE w == InputOf(h, fs)
           l == Len(h)
           v == WireAll(fs)
           c == SubSeq(w, a + 1, last)
           d == SubSeq(v, (a - l) + 1, last - l)
<1>1. /\ w \in Seq(InputTokens) /\ Len(w) = l + Len(v) /\ Len(v) \in Nat /\ l \in Nat
      /\ \A i \in 1..Len(v) : w[l + i] = v[i]
  BY InputShape
<1>2. v \in Seq(ByteTokens)
  BY WholeStream
<1>3. l <= a /\ a <= last /\ last <= Len(w) /\ last - l <= Len(v)
  BY <1>1
<1> HIDE DEF w, v, l
<1>4. c \in Seq(InputTokens) /\ Len(c) = last - a /\ \A i \in 1..(last - a) : c[i] = w[a + i]
  BY <1>1, <1>3
<1>5. d \in Seq(ByteTokens) /\ Len(d) = last - a /\ \A i \in 1..(last - a) : d[i] = v[(a - l) + i]
  BY <1>1, <1>2, <1>3
<1>6. ASSUME NEW i \in 1..(last - a) PROVE c[i] = d[i]
  <2>1. (a - l) + i \in 1..Len(v) /\ l + ((a - l) + i) = a + i
    BY <1>1, <1>3
  <2>2. w[l + ((a - l) + i)] = v[(a - l) + i]
    BY <1>1, <2>1
  <2> QED
    BY <1>4, <1>5, <2>1, <2>2
<1> HIDE DEF c, d
<1>7. c = d
  BY <1>4, <1>5, <1>6
<1> QED
  BY <1>7 DEF c, d, w, v, l
-----------------------------------------------------------------------------
(* What frames ask for: texts to be broadcast, and answers.                *)
TextFrames == {f \in ClientFrames : f.opcode = 1}
AskingFrames == {f \in ClientFrames : f.opcode \in {8, 9}}
Answers == {Message("pong"), Message("close")}

PayloadsOf(t) == [i \in DOMAIN t |-> t[i].payload]
AnswersTo(t) == [i \in DOMAIN t |-> Message(IF t[i].opcode = 8 THEN "close" ELSE "pong")]

(* What the first k frames ask for.                                        *)
Spoken(fs, k) == PayloadsOf(Kept(SubSeq(fs, 1, k), TextFrames))
Answered(fs, k) == AnswersTo(Kept(SubSeq(fs, 1, k), AskingFrames))

(* One element more, seen through a function of the elements.              *)
LEMMA MappedMore ==
  ASSUME NEW S, NEW t \in Seq(S), NEW x \in S, NEW p, NEW q, NEW y,
         DOMAIN p = DOMAIN t, DOMAIN q = DOMAIN Append(t, x),
         p = [i \in DOMAIN p |-> p[i]], q = [i \in DOMAIN q |-> q[i]],
         \A i \in DOMAIN t : q[i] = p[i], q[Len(t) + 1] = y
  PROVE  q = Append(p, y)
<1> DEFINE n == Len(t)
<1>1. n \in Nat /\ DOMAIN t = 1..n /\ DOMAIN Append(t, x) = 1..(n + 1)
  OBVIOUS
<1> HIDE DEF n
<1>2. p \in [1..n -> {p[i] : i \in 1..n}]
  BY <1>1
<1>3. p \in Seq({p[i] : i \in 1..n}) /\ Len(p) = n
  BY <1>1, <1>2, FunctionSeq
<1> DEFINE U == {p[i] : i \in 1..n} \cup {y}
           z == Append(p, y)
<1>4. p \in Seq(U) /\ y \in U
  BY <1>3
<1> HIDE DEF U
<1>5. z \in Seq(U) /\ Len(z) = Len(p) + 1 /\ z[Len(p) + 1] = y /\ \A i \in 1..Len(p) : z[i] = p[i]
  BY <1>4
<1>6. DOMAIN z = 1..(n + 1) /\ z = [i \in DOMAIN z |-> z[i]]
  <2> HIDE DEF z
  <2>1. z \in Seq(U)
    BY <1>5
  <2>2. Len(z) = n + 1
    BY <1>3, <1>5
  <2>3. DOMAIN z = 1..Len(z) /\ z = [i \in DOMAIN z |-> z[i]]
    BY <2>1
  <2> QED
    BY <2>2, <2>3
<1>7. \A i \in 1..(n + 1) : z[i] = q[i]
  <2>1. \A i \in 1..(n + 1) : i \in 1..n \/ i = n + 1
    BY <1>1
  <2>2. \A i \in 1..n : z[i] = q[i]
    BY <1>1, <1>3, <1>5
  <2>3. z[n + 1] = q[n + 1]
    BY <1>3, <1>5 DEF n
  <2> QED
    BY <2>1, <2>2, <2>3
<1> HIDE DEF z
<1>8. z = q
  BY <1>1, <1>6, <1>7
<1> QED
  BY <1>8 DEF z

(* The payloads and the answers of one frame more.                         *)
LEMMA MappedFrame ==
  ASSUME NEW t \in Seq(ClientFrames), NEW x \in ClientFrames
  PROVE  /\ PayloadsOf(Append(t, x)) = Append(PayloadsOf(t), x.payload)
         /\ AnswersTo(Append(t, x))
              = Append(AnswersTo(t), Message(IF x.opcode = 8 THEN "close" ELSE "pong"))
<1> DEFINE u == Append(t, x)
<1>1. /\ Len(t) + 1 \in DOMAIN u /\ u[Len(t) + 1] = x
      /\ \A i \in DOMAIN t : i \in DOMAIN u /\ u[i] = t[i]
  OBVIOUS
<1>2. PayloadsOf(u) = Append(PayloadsOf(t), x.payload)
  <2> DEFINE p == PayloadsOf(t)
             q == PayloadsOf(u)
             y == x.payload
  <2>1. /\ DOMAIN p = DOMAIN t /\ DOMAIN q = DOMAIN u
        /\ p = [i \in DOMAIN p |-> p[i]] /\ q = [i \in DOMAIN q |-> q[i]]
    BY DEF PayloadsOf
  <2>2. (\A i \in DOMAIN t : q[i] = p[i]) /\ q[Len(t) + 1] = y
    <3> HIDE DEF u
    <3> QED
      BY <1>1 DEF PayloadsOf
  <2> HIDE DEF p, q, y
  <2>3. q = Append(p, y)
    BY <2>1, <2>2, MappedMore
  <2> QED
    BY <2>3 DEF p, q, y
<1>3. AnswersTo(u) = Append(AnswersTo(t), Message(IF x.opcode = 8 THEN "close" ELSE "pong"))
  <2> DEFINE p == AnswersTo(t)
             q == AnswersTo(u)
             y == Message(IF x.opcode = 8 THEN "close" ELSE "pong")
  <2>1. /\ DOMAIN p = DOMAIN t /\ DOMAIN q = DOMAIN u
        /\ p = [i \in DOMAIN p |-> p[i]] /\ q = [i \in DOMAIN q |-> q[i]]
    BY DEF AnswersTo
  <2>2. (\A i \in DOMAIN t : q[i] = p[i]) /\ q[Len(t) + 1] = y
    <3> HIDE DEF u
    <3> QED
      BY <1>1 DEF AnswersTo
  <2> HIDE DEF p, q, y
  <2>3. q = Append(p, y)
    BY <2>1, <2>2, MappedMore
  <2> QED
    BY <2>3 DEF p, q, y
<1> QED
  BY <1>2, <1>3

(* Payloads are payloads, and answers are answers.                         *)
LEMMA MappedType ==
  ASSUME NEW t \in Seq(ClientFrames)
  PROVE  PayloadsOf(t) \in Seq(Payloads) /\ AnswersTo(t) \in Seq(Answers)
<1>1. \A i \in 1..Len(t) : t[i].payload \in Payloads
  BY FrameFields
<1>2. \A o : Message(IF o = 8 THEN "close" ELSE "pong") \in Answers
  BY DEF Answers
<1>3. Len(t) \in Nat /\ DOMAIN t = 1..Len(t)
  OBVIOUS
<1>4. PayloadsOf(t) \in [1..Len(t) -> Payloads]
  BY <1>1, <1>3 DEF PayloadsOf
<1>5. AnswersTo(t) \in [1..Len(t) -> Answers]
  BY <1>2, <1>3 DEF AnswersTo
<1> QED
  BY <1>3, <1>4, <1>5, FunctionSeq

(* Nobody asks for anything at first.                                      *)
LEMMA NothingSpoken ==
  ASSUME NEW fs \in Seq(ClientFrames)
  PROVE  Spoken(fs, 0) = <<>> /\ Answered(fs, 0) = <<>>
<1>1. SubSeq(fs, 1, 0) = <<>>
  BY WholePrefix
<1>2. Kept(<<>>, TextFrames) = <<>> /\ Kept(<<>>, AskingFrames) = <<>>
  BY KeptNothing
<1>3. PayloadsOf(<<>>) = <<>> /\ AnswersTo(<<>>) = <<>>
  BY DEF PayloadsOf, AnswersTo
<1> QED
  BY <1>1, <1>2, <1>3, Zenon DEF Spoken, Answered

(* The next frame asks for its text to be broadcast, or for its answer.    *)
LEMMA SpokenGrows ==
  ASSUME NEW fs \in Seq(ClientFrames), NEW j \in 0..(Len(fs) - 1)
  PROVE  /\ Spoken(fs, j + 1) = IF fs[j + 1].opcode = 1 THEN Append(Spoken(fs, j), fs[j + 1].payload)
                                ELSE Spoken(fs, j)
         /\ Answered(fs, j + 1) = Answered(fs, j) \o Answer(fs[j + 1])
<1> DEFINE f == fs[j + 1]
           p == SubSeq(fs, 1, j)
           t == Kept(p, TextFrames)
           q == Kept(p, AskingFrames)
<1>1. f \in ClientFrames /\ p \in Seq(ClientFrames)
  OBVIOUS
<1>2. /\ Kept(SubSeq(fs, 1, j + 1), TextFrames) = IF f \in TextFrames THEN Append(t, f) ELSE t
      /\ Kept(SubSeq(fs, 1, j + 1), AskingFrames) = IF f \in AskingFrames THEN Append(q, f) ELSE q
  BY KeptPrefix
<1>3. t \in Seq(ClientFrames) /\ q \in Seq(ClientFrames)
  <2>1. t \in Seq(ClientFrames \cap TextFrames) /\ q \in Seq(ClientFrames \cap AskingFrames)
    BY <1>1, KeptType
  <2> HIDE DEF t, q
  <2> QED
    BY <2>1
<1>4. /\ Spoken(fs, j) = PayloadsOf(t) /\ Answered(fs, j) = AnswersTo(q)
      /\ Spoken(fs, j + 1) = PayloadsOf(IF f \in TextFrames THEN Append(t, f) ELSE t)
      /\ Answered(fs, j + 1) = AnswersTo(IF f \in AskingFrames THEN Append(q, f) ELSE q)
  BY <1>2, Zenon DEF Spoken, Answered
<1>5. (f \in TextFrames <=> f.opcode = 1) /\ (f \in AskingFrames <=> f.opcode \in {8, 9})
  BY <1>1 DEF TextFrames, AskingFrames
<1> HIDE DEF f, p, t, q
<1>6. /\ PayloadsOf(Append(t, f)) = Append(PayloadsOf(t), f.payload)
      /\ AnswersTo(Append(q, f)) = Append(AnswersTo(q), Message(IF f.opcode = 8 THEN "close" ELSE "pong"))
  BY <1>1, <1>3, MappedFrame
<1>7. Spoken(fs, j + 1) = IF f.opcode = 1 THEN Append(Spoken(fs, j), f.payload) ELSE Spoken(fs, j)
  BY <1>4, <1>5, <1>6, Zenon
<1>8. Answered(fs, j + 1) = Answered(fs, j) \o Answer(f)
  <2> DEFINE r == AnswersTo(q)
             m == Message(IF f.opcode = 8 THEN "close" ELSE "pong")
  <2>1. r \in Seq(Answers) /\ m \in Answers
    BY <1>3, MappedType DEF Answers
  <2> HIDE DEF r, m
  <2>2. Append(r, m) = r \o <<m>> /\ r \o <<>> = r
    BY <2>1
  <2>3. CASE f.opcode \in {8, 9}
    <3>1. Answer(f) = <<m>>
      BY <2>3 DEF Answer, m
    <3>2. Answered(fs, j + 1) = Append(r, m) /\ Answered(fs, j) = r
      BY <1>4, <1>5, <1>6, <2>3, Zenon DEF r, m
    <3> QED
      BY <2>2, <3>1, <3>2, Zenon
  <2>4. CASE f.opcode \notin {8, 9}
    <3>1. Answer(f) = <<>>
      BY <2>4 DEF Answer
    <3>2. Answered(fs, j + 1) = r /\ Answered(fs, j) = r
      BY <1>4, <1>5, <2>4, Zenon DEF r
    <3> QED
      BY <2>2, <3>1, <3>2, Zenon
  <2> QED
    BY <2>3, <2>4
<1> QED
  BY <1>7, <1>8 DEF f

(* What frames ask for has its type.                                       *)
LEMMA SpokenType ==
  ASSUME NEW fs \in Seq(ClientFrames), NEW j \in 0..Len(fs)
  PROVE  Spoken(fs, j) \in Seq(Payloads) /\ Answered(fs, j) \in Seq(Answers)
<1> DEFINE p == SubSeq(fs, 1, j)
           t == Kept(p, TextFrames)
           q == Kept(p, AskingFrames)
<1>1. p \in Seq(ClientFrames)
  OBVIOUS
<1> HIDE DEF p
<1>2. t \in Seq(ClientFrames \cap TextFrames) /\ q \in Seq(ClientFrames \cap AskingFrames)
  BY <1>1, KeptType
<1> HIDE DEF t, q
<1>3. t \in Seq(ClientFrames) /\ q \in Seq(ClientFrames)
  BY <1>2
<1>4. PayloadsOf(t) \in Seq(Payloads) /\ AnswersTo(q) \in Seq(Answers)
  BY <1>3, MappedType
<1> QED
  BY <1>4 DEF Spoken, Answered, t, q, p
-----------------------------------------------------------------------------
(* The while loop is recursive: a round of it, and its equation up to n.   *)
Round(before) ==
  LET frame == decodeFrame(SubSeq(before.rest, 1, RequiredLength(before.rest)))
      throws == frame.opcode = 1 /\ listener /\ frame.payload \in Refused
  IN IF Complete(before.rest)
     THEN [rest |-> SubSeq(before.rest, RequiredLength(before.rest) + 1, Len(before.rest)),
           texts |-> IF frame.opcode = 1 /\ ~throws THEN Append(before.texts, frame.payload)
                     ELSE before.texts,
           answers |-> before.answers \o Answer(frame),
           threw |-> before.threw \/ throws]
     ELSE before
LoopStep(text, g, n) ==
  IF n = 0 THEN [rest |-> text, texts |-> <<>>, answers |-> <<>>, threw |-> FALSE] ELSE Round(g[n - 1])
LoopsUpTo(text, n, g) == g = [i \in 0..n |-> LoopStep(text, g, i)]

(* The framing loop has a result for a buffer of every length.             *)
LEMMA LoopingExists ==
  ASSUME NEW text, NEW n \in Nat
  PROVE  \E g : LoopsUpTo(text, n, g)
<1> DEFINE T == {m \in Nat : ~ \E g : LoopsUpTo(text, m, g)}
<1> SUFFICES ASSUME T # {} PROVE FALSE
  OBVIOUS
<1>1. PICK m \in T : \A y \in T : m <= y
  BY LeastElement
<1>2. PICK g : m # 0 => LoopsUpTo(text, m - 1, g)
  <2>1. m # 0 => m - 1 \in Nat /\ m - 1 \notin T
    BY <1>1
  <2> QED
    BY <2>1
<1> DEFINE h == [i \in 0..m |-> LoopStep(text, g, i)]
<1>3. ASSUME NEW i \in 0..m PROVE LoopStep(text, g, i) = LoopStep(text, h, i)
  <2>1. CASE i = 0
    BY <2>1 DEF LoopStep
  <2>2. CASE i # 0
    <3>1. i - 1 \in 0..(m - 1) /\ i - 1 \in 0..m
      BY <2>2
    <3>2. g[i - 1] = LoopStep(text, g, i - 1)
      BY <1>2, <3>1 DEF LoopsUpTo
    <3>3. g[i - 1] = h[i - 1]
      BY <3>1, <3>2
    <3> HIDE DEF h
    <3> QED
      BY <2>2, <3>3, Zenon DEF LoopStep
  <2> QED
    BY <2>1, <2>2
<1>4. h = [i \in 0..m |-> LoopStep(text, h, i)]
  BY <1>3
<1>5. LoopsUpTo(text, m, h)
  BY <1>4 DEF LoopsUpTo
<1> QED
  BY <1>1, <1>5

(* Loop is what that function gives at the length of the text.             *)
LEMMA LoopEquation ==
  ASSUME NEW text, Len(text) \in Nat
  PROVE  \E g : LoopsUpTo(text, Len(text), g) /\ Loop(text) = g[Len(text)]
<1> DEFINE g == CHOOSE f : f = [i \in 0..Len(text) |-> LoopStep(text, f, i)]
<1>1. LoopsUpTo(text, Len(text), g)
  BY LoopingExists DEF LoopsUpTo
<1>2. Loop(text) = g[Len(text)]
  BY DEF Loop, LoopStep, Round
<1> HIDE DEF g
<1> QED
  BY <1>1, <1>2

Throws(f) == f.opcode = 1 /\ listener /\ f.payload \in Refused

(* A round of the loop whose buffer begins with a whole frame.             *)
LEMMA RoundOfFrame ==
  ASSUME NEW f \in ClientFrames, NEW S, NEW z, z.rest \in Seq(S), Begins(z.rest, f),
         Complete(z.rest)
  PROVE  /\ Round(z).rest = SubSeq(z.rest, Len(Wire(f)) + 1, Len(z.rest))
         /\ Round(z).texts = IF f.opcode = 1 /\ ~Throws(f) THEN Append(z.texts, f.payload) ELSE z.texts
         /\ Round(z).answers = z.answers \o Answer(f)
         /\ Round(z).threw <=> z.threw \/ Throws(f)
<1> DEFINE b == z.rest
           frame == decodeFrame(SubSeq(b, 1, RequiredLength(b)))
           throws == frame.opcode = 1 /\ listener /\ frame.payload \in Refused
           c == SubSeq(b, RequiredLength(b) + 1, Len(b))
           t == IF frame.opcode = 1 /\ ~throws THEN Append(z.texts, frame.payload) ELSE z.texts
           q == z.answers \o Answer(frame)
           x == z.threw \/ throws
<1>1. RequiredLength(b) = Len(Wire(f)) /\ Len(b) >= Len(Wire(f))
  BY CompleteFrame
<1>2. SubSeq(b, 1, Len(Wire(f))) = Wire(f)
  BY <1>1, FrameCut
<1>3. frame = [opcode |-> f.opcode, payload |-> IF f.opcode # 1 THEN <<>> ELSE f.payload]
  BY <1>1, <1>2, FrameRead
<1>4. Round(z) = [rest |-> c, texts |-> t, answers |-> q, threw |-> x]
  BY Zenon DEF Round
<1>5. frame.opcode = f.opcode /\ (f.opcode = 1 => frame.payload = f.payload)
  <2> HIDE DEF frame
  <2> QED
    BY <1>3
<1> HIDE DEF frame
<1>6. throws <=> Throws(f)
  BY <1>5 DEF Throws
<1>7. Answer(frame) = Answer(f)
  BY <1>5 DEF Answer
<1> HIDE DEF throws
<1>8. t = IF f.opcode = 1 /\ ~Throws(f) THEN Append(z.texts, f.payload) ELSE z.texts
  BY <1>5, <1>6
<1>9. q = z.answers \o Answer(f)
  BY <1>7
<1>10. x <=> z.threw \/ Throws(f)
  BY <1>6
<1> HIDE DEF t, q, x, c
<1>11. Round(z).rest = c /\ Round(z).texts = t /\ Round(z).answers = q /\ Round(z).threw = x
  BY <1>4
<1>12. c = SubSeq(b, Len(Wire(f)) + 1, Len(b))
  BY <1>1 DEF c
<1> QED
  BY <1>8, <1>9, <1>10, <1>11, <1>12

(* What the loop makes of the frames that are whole, m of which were.      *)
LoopResult(fs, m, a, loop) ==
  \E k \in m..Len(fs) :
    /\ End(fs, k) <= a /\ (k < Len(fs) => a < End(fs, k + 1))
    /\ loop.rest = Rest(fs, k, a)
    /\ loop.texts \in Seq(Payloads) /\ loop.answers \in Seq(Answers)
    /\ ~loop.threw => Spoken(fs, m) \o loop.texts = Spoken(fs, k)
    /\ Answered(fs, m) \o loop.answers = Answered(fs, k)

(* The loop handles the frames that are whole, in order, and leaves the    *)
(* rest; if the callback does not throw, every text is to be broadcast.    *)
LEMMA LoopFrames ==
  ASSUME NEW fs \in Seq(ClientFrames), NEW m \in 0..Len(fs), NEW a \in Nat,
         End(fs, m) <= a, a <= Len(WireAll(fs)), NEW text, text = Rest(fs, m, a)
  PROVE  LoopResult(fs, m, a, Loop(text))
<1> DEFINE N == Len(fs)
           L == Len(text)
           E(k) == End(fs, k)
<1>1. N \in Nat /\ m \in Nat /\ m <= N
  OBVIOUS
<1>2. text \in Seq(ByteTokens) /\ L = a - E(m) /\ L \in Nat
  <2>1. text \in Seq(ByteTokens) /\ Len(text) = a - E(m)
    BY RestShape
  <2>2. E(m) \in Nat /\ E(m) <= a
    BY EndGrows
  <2> QED
    BY <2>1, <2>2
<1>3. PICK g : LoopsUpTo(text, L, g) /\ Loop(text) = g[L]
  BY <1>2, LoopEquation
<1>4. \A i \in 0..L : g[i] = LoopStep(text, g, i)
  BY <1>3 DEF LoopsUpTo
<1> DEFINE Framed(n, k) ==
             /\ E(k) <= a /\ (k = m + n \/ (k < N => a < E(k + 1)))
             /\ g[n].rest = Rest(fs, k, a)
             /\ g[n].texts \in Seq(Payloads) /\ g[n].answers \in Seq(Answers)
             /\ ~g[n].threw => Spoken(fs, m) \o g[n].texts = Spoken(fs, k)
             /\ Answered(fs, m) \o g[n].answers = Answered(fs, k)
           T == {n \in Nat : n <= L /\ ~ \E k \in m..N : Framed(n, k)}
<1>5. Framed(0, m)
  <2>1. g[0] = [rest |-> text, texts |-> <<>>, answers |-> <<>>, threw |-> FALSE]
    <3>1. 0 \in 0..L
      BY <1>2
    <3>2. g[0] = LoopStep(text, g, 0)
      BY <1>4, <3>1
    <3> QED
      BY <3>2 DEF LoopStep
  <2>2. <<>> \in Seq(Payloads) /\ <<>> \in Seq(Answers) /\ m = m + 0
    BY <1>1
  <2>3. g[0].rest = text /\ g[0].texts = <<>> /\ g[0].answers = <<>>
    BY <2>1
  <2>4. Spoken(fs, m) \o <<>> = Spoken(fs, m) /\ Answered(fs, m) \o <<>> = Answered(fs, m)
    <3>1. Spoken(fs, m) \in Seq(Payloads) /\ Answered(fs, m) \in Seq(Answers)
      BY SpokenType
    <3> QED
      BY <3>1
  <2> QED
    BY <2>2, <2>3, <2>4
<1>6. ASSUME NEW n \in Nat, n < L, NEW k \in m..N, Framed(n, k)
      PROVE  \E l \in m..N : Framed(n + 1, l)
  <2> DEFINE b == g[n].rest
             t == g[n].texts
             q == g[n].answers
  <2>0. /\ E(k) <= a /\ (k = m + n \/ (k < N => a < E(k + 1))) /\ b = Rest(fs, k, a)
        /\ k \in 0..N /\ m <= k
    BY <1>1, <1>6
  <2>1. g[n + 1] = Round(g[n])
    <3>1. n + 1 \in 0..L /\ n + 1 # 0 /\ (n + 1) - 1 = n
      BY <1>2, <1>6
    <3> QED
      BY <1>4, <3>1, Zenon DEF LoopStep
  <2>2. CASE ~Complete(b)
    <3>1. g[n + 1] = g[n]
      BY <2>1, <2>2 DEF Round
    <3>2. k < N => a < E(k + 1)
      <4> SUFFICES ASSUME k < N PROVE a < E(k + 1)
        OBVIOUS
      <4>1. k \in 0..(N - 1) /\ k \in 0..N
        BY <1>1
      <4>2. fs[k + 1] \in ClientFrames /\ Begins(b, fs[k + 1])
        BY <2>0, <4>1, RestBegins
      <4>3. b \in Seq(ByteTokens) /\ Len(b) = a - E(k)
        BY <2>0, <4>1, RestShape
      <4>4. ~(Len(b) >= Len(Wire(fs[k + 1])))
        BY <2>2, <4>2, <4>3, CompleteFrame
      <4>5. /\ E(k + 1) = E(k) + Len(Wire(fs[k + 1])) /\ E(k) \in Nat
            /\ Len(Wire(fs[k + 1])) \in Nat
        BY <4>1, EndGrows
      <4> QED
        BY <4>3, <4>4, <4>5
    <3>3. Framed(n + 1, k)
      BY <1>6, <3>1, <3>2
    <3> QED
      BY <3>3
  <2>3. CASE Complete(b)
    <3>1. k < N
      <4> SUFFICES ASSUME k = N PROVE FALSE
        BY <1>1
      <4>1. E(N) = Len(WireAll(fs)) /\ E(N) \in Nat /\ k \in 0..N
        BY <1>1, WholeStream, EndGrows
      <4>2. Len(Rest(fs, k, a)) = a - E(k)
        BY <2>0, <4>1, RestShape
      <4>3. Len(b) = 0
        BY <2>0, <4>1, <4>2
      <4> QED
        BY <2>3, <4>3 DEF Complete
    <3>2. k \in 0..(N - 1) /\ k \in 0..N /\ k + 1 \in 0..N /\ k + 1 \in m..N
      BY <1>1, <3>1
    <3> DEFINE f == fs[k + 1]
               z == g[n]
    <3>3. f \in ClientFrames /\ Begins(b, f)
      BY <2>0, <3>2, RestBegins
    <3>4. b \in Seq(ByteTokens) /\ Len(b) = a - E(k)
      BY <2>0, <3>2, RestShape
    <3>5. Len(b) >= Len(Wire(f))
      BY <2>3, <3>3, <3>4, CompleteFrame
    <3>6. E(k + 1) <= a
      <4>1. E(k + 1) = E(k) + Len(Wire(f)) /\ E(k) \in Nat /\ Len(Wire(f)) \in Nat
        BY <3>2, EndGrows
      <4> QED
        BY <3>4, <3>5, <4>1
    <3>7. /\ g[n + 1].rest = SubSeq(b, Len(Wire(f)) + 1, Len(b))
          /\ g[n + 1].texts = IF f.opcode = 1 /\ ~Throws(f) THEN Append(t, f.payload) ELSE t
          /\ g[n + 1].answers = q \o Answer(f)
          /\ g[n + 1].threw <=> g[n].threw \/ Throws(f)
      <4>1. z.rest \in Seq(ByteTokens) /\ Begins(z.rest, f) /\ Complete(z.rest)
        BY <2>3, <3>3, <3>4
      <4> HIDE DEF z, f
      <4>2. /\ Round(z).rest = SubSeq(z.rest, Len(Wire(f)) + 1, Len(z.rest))
            /\ Round(z).texts = IF f.opcode = 1 /\ ~Throws(f) THEN Append(z.texts, f.payload) ELSE z.texts
            /\ Round(z).answers = z.answers \o Answer(f)
            /\ Round(z).threw <=> z.threw \/ Throws(f)
        BY <3>3, <4>1, RoundOfFrame
      <4> QED
        BY <2>1, <4>2, Zenon DEF z
    <3>8. g[n + 1].rest = Rest(fs, k + 1, a)
      <4>1. SubSeq(Rest(fs, k, a), Len(Wire(fs[k + 1])) + 1, Len(Rest(fs, k, a))) = Rest(fs, k + 1, a)
        BY <3>2, <3>6, RestOfRest
      <4>2. b = Rest(fs, k, a)
        BY <1>6
      <4> QED
        BY <3>7, <4>1, <4>2
    <3> DEFINE A == Spoken(fs, m)
               B == Answered(fs, m)
               t1 == g[n + 1].texts
               q1 == g[n + 1].answers
               p == f.payload
               r == Answer(f)
    <3>9. /\ t \in Seq(Payloads) /\ q \in Seq(Answers) /\ A \in Seq(Payloads) /\ B \in Seq(Answers)
          /\ p \in Payloads /\ r \in Seq(Answers)
      <4>1. A \in Seq(Payloads) /\ B \in Seq(Answers)
        BY SpokenType
      <4>2. p \in Payloads
        BY <3>3, FrameFields
      <4>3. r \in Seq(Answers)
        <5>1. Message("close") \in Answers /\ Message("pong") \in Answers
          BY DEF Answers
        <5> QED
          BY <5>1 DEF Answer
      <4> QED
        BY <1>6, <4>1, <4>2, <4>3
    <3>10. /\ Spoken(fs, k + 1) = IF f.opcode = 1 THEN Append(Spoken(fs, k), p) ELSE Spoken(fs, k)
           /\ Answered(fs, k + 1) = Answered(fs, k) \o r
      BY <3>2, SpokenGrows
    <3>11. /\ ~g[n].threw => A \o t = Spoken(fs, k)
           /\ B \o q = Answered(fs, k)
      BY <1>6
    <3>12. /\ t1 = IF f.opcode = 1 /\ ~Throws(f) THEN Append(t, p) ELSE t
           /\ q1 = q \o r
      BY <3>7
    <3>13. Throws(f) => f.opcode = 1
      BY DEF Throws
    <3> HIDE DEF A, B, t1, q1, p, r, t, q, f
    <3>14. t1 \in Seq(Payloads) /\ q1 \in Seq(Answers)
      <4>1. Append(t, p) \in Seq(Payloads)
        BY <3>9
      <4>2. q \o r \in Seq(Answers)
        BY <3>9, Joined
      <4> QED
        BY <3>9, <3>12, <4>1, <4>2
    <3>15. B \o q1 = Answered(fs, k + 1)
      <4>1. B \o (q \o r) = (B \o q) \o r
        <5>1. B \in Seq(Answers) /\ q \in Seq(Answers) /\ r \in Seq(Answers)
          BY <3>9
        <5> QED
          BY <5>1
      <4> QED
        BY <3>10, <3>11, <3>12, <4>1
    <3>16. ~g[n].threw /\ ~Throws(f) => A \o t1 = Spoken(fs, k + 1)
      <4>1. A \o Append(t, p) = Append(A \o t, p)
        <5>1. A \in Seq(Payloads) /\ t \in Seq(Payloads) /\ p \in Payloads
          BY <3>9
        <5>2. Append(t, p) = t \o <<p>> /\ Append(A \o t, p) = (A \o t) \o <<p>>
              /\ <<p>> \in Seq(Payloads)
          BY <5>1
        <5>3. A \o (t \o <<p>>) = (A \o t) \o <<p>>
          BY <5>1, <5>2
        <5> QED
          BY <5>2, <5>3
      <4> QED
        BY <3>10, <3>11, <3>12, <4>1
    <3>17. ~g[n + 1].threw => A \o t1 = Spoken(fs, k + 1)
      BY <3>7, <3>16
    <3>18. k + 1 = m + (n + 1) \/ (k + 1 < N => a < E((k + 1) + 1))
      <4>1. k = m + n
        <5>1. E(k + 1) \in Nat
          BY <3>2, EndGrows
        <5> QED
          BY <1>1, <2>0, <3>1, <3>6, <5>1
      <4> QED
        BY <1>1, <4>1
    <3>19. Framed(n + 1, k + 1)
      BY <3>6, <3>8, <3>14, <3>15, <3>17, <3>18 DEF A, B, t1, q1
    <3> HIDE DEF Framed
    <3> QED
      BY <3>2, <3>19
  <2> QED
    BY <2>2, <2>3
<1> HIDE DEF Framed
<1>7. T = {}
  <2> SUFFICES ASSUME T # {} PROVE FALSE
    OBVIOUS
  <2>1. PICK n \in T : \A y \in T : n <= y
    BY LeastElement
  <2>2. n # 0
    <3>1. m \in m..N
      BY <1>1
    <3> QED
      BY <1>5, <2>1, <3>1
  <2>3. n - 1 \in Nat /\ n - 1 < L /\ n - 1 \notin T /\ (n - 1) + 1 = n
    BY <1>2, <2>1, <2>2
  <2>4. PICK k \in m..N : Framed(n - 1, k)
    BY <1>2, <2>3
  <2>5. \E l \in m..N : Framed((n - 1) + 1, l)
    BY <1>6, <2>3, <2>4
  <2> QED
    BY <2>1, <2>3, <2>5
<1>8. PICK k \in m..N : Framed(L, k)
  BY <1>2, <1>7
<1>9. k < N => a < E(k + 1)
  <2> SUFFICES ASSUME k < N, k = m + L PROVE a < E(k + 1)
    BY <1>8 DEF Framed
  <2>1. k + 1 \in m..N /\ m \in 0..N
    BY <1>1, <1>2
  <2>2. E(m) + ((k + 1) - m) <= E(k + 1)
    BY <2>1, EndsInOrder
  <2>3. E(m) \in Nat /\ E(k + 1) \in Nat
    BY <1>1, <2>1, EndGrows
  <2> QED
    BY <1>1, <1>2, <2>2, <2>3
<1> QED
  BY <1>3, <1>8, <1>9 DEF Framed, LoopResult
-----------------------------------------------------------------------------
(* What FrameInv says of an upgraded connection: k of its frames have      *)
(* arrived whole, b is what has come behind them, t what was broadcast for *)
(* them and q their answers.                                               *)
Said(s, p) == [i \in DOMAIN p |-> Text(s, p[i])]

FramedUpTo(s, fs, a, b, t, q, k) ==
  /\ End(fs, k) <= a
  /\ k < Len(fs) => a < End(fs, k + 1)
  /\ b = Rest(fs, k, a)
  /\ t = Said(s, Spoken(fs, k))
  /\ q = Answered(fs, k)
Framed(s, fs, a, b, t, q) == \E k \in 0..Len(fs) : FramedUpTo(s, fs, a, b, t, q, k)

(* Texts are told by their sender, and from what else is written.          *)
LEMMA TextMember ==
  ASSUME NEW s, NEW p \in Payloads, NEW X
  PROVE  Text(s, p) \in Texts(X) <=> s \in X
  BY DEF Text, Texts

(* No other message is a text.                                             *)
LEMMA TextsAreNoMessages == \A X, kind : Message(kind) \notin Texts(X)
<1> SUFFICES ASSUME NEW X, NEW kind, Message(kind) \in Texts(X) PROVE FALSE
  OBVIOUS
<1>1. PICK s \in X, p \in Payloads : Message(kind) = <<"text", s, p>>
  BY DEF Texts
<1>2. Len(Message(kind)) = 1
  BY DEF Message
<1>3. Len(<<"text", s, p>>) = 3
  OBVIOUS
<1> QED
  BY <1>1, <1>2, <1>3

(* What was said has its sender, and one thing said after another.         *)
LEMMA SaidType ==
  ASSUME NEW s, NEW p \in Seq(Payloads)
  PROVE  Said(s, p) \in Seq(Texts({s})) /\ Len(Said(s, p)) = Len(p)
<1>1. \A i \in 1..Len(p) : Text(s, p[i]) \in Texts({s})
  BY TextMember
<1>2. Len(p) \in Nat /\ DOMAIN p = 1..Len(p)
  OBVIOUS
<1>3. Said(s, p) \in [1..Len(p) -> Texts({s})]
  BY <1>1, <1>2 DEF Said
<1> QED
  BY <1>2, <1>3, FunctionSeq

(* What was said twice, one after the other.                               *)
LEMMA SaidMore ==
  ASSUME NEW s, NEW p \in Seq(Payloads), NEW q \in Seq(Payloads)
  PROVE  Said(s, p \o q) = Said(s, p) \o Said(s, q)
<1> DEFINE pq == p \o q
           x == Said(s, pq)
           y == Said(s, p)
           z == Said(s, q)
           w == y \o z
           S == Texts({s})
           m == Len(p)
           n == Len(q)
<1>1. /\ pq \in Seq(Payloads) /\ Len(pq) = m + n
      /\ \A i \in 1..m : pq[i] = p[i]
      /\ \A i \in 1..n : pq[m + i] = q[i]
  BY Joined
<1>2. m \in Nat /\ n \in Nat
  OBVIOUS
<1> HIDE DEF pq, S
<1>3. x \in Seq(S) /\ y \in Seq(S) /\ z \in Seq(S) /\ Len(x) = m + n /\ Len(y) = m /\ Len(z) = n
  BY <1>1, SaidType DEF S
<1>4. /\ \A i \in 1..(m + n) : x[i] = Text(s, pq[i])
      /\ \A i \in 1..m : y[i] = Text(s, p[i])
      /\ \A i \in 1..n : z[i] = Text(s, q[i])
  BY <1>1 DEF Said
<1> HIDE DEF x, y, z, m, n
<1>5. /\ w \in Seq(S) /\ Len(w) = Len(y) + Len(z)
      /\ \A i \in 1..Len(y) : w[i] = y[i]
      /\ \A i \in 1..Len(z) : w[Len(y) + i] = z[i]
  <2>1. y \in Seq(S) /\ z \in Seq(S)
    BY <1>3
  <2> QED
    BY <2>1, Joined
<1> HIDE DEF w
<1>6. ASSUME NEW i \in 1..(m + n) PROVE x[i] = w[i]
  <2>1. CASE i <= m
    <3>1. i \in 1..m
      BY <1>2, <2>1
    <3> QED
      BY <1>1, <1>3, <1>4, <1>5, <3>1
  <2>2. CASE ~(i <= m)
    <3> DEFINE j == i - m
    <3>1. j \in 1..n /\ m + j = i
      BY <1>2, <2>2
    <3> HIDE DEF j
    <3>2. w[m + j] = z[j] /\ z[j] = Text(s, q[j])
      BY <1>3, <1>4, <1>5, <3>1
    <3>3. x[m + j] = Text(s, pq[m + j]) /\ pq[m + j] = q[j]
      BY <1>1, <1>4, <3>1
    <3> QED
      BY <3>1, <3>2, <3>3
  <2> QED
    BY <2>1, <2>2
<1>7. x = w
  <2>1. x \in Seq(S) /\ w \in Seq(S)
    BY <1>3, <1>5
  <2>2. DOMAIN x = 1..(m + n) /\ DOMAIN w = 1..(m + n)
    BY <1>3, <1>5, <2>1
  <2>3. x = [i \in DOMAIN x |-> x[i]] /\ w = [i \in DOMAIN w |-> w[i]]
    BY <2>1
  <2> QED
    BY <1>6, <2>2, <2>3
<1> QED
  BY <1>7 DEF x, w, y, z, pq

(* A connection whose upgrade has just come.                               *)
LEMMA NothingArrived ==
  ASSUME NEW s, NEW fs \in Seq(ClientFrames)
  PROVE  Framed(s, fs, 0, <<>>, <<>>, <<>>)
<1>1. Len(fs) \in Nat /\ Len(WireAll(fs)) \in Nat /\ 0 \in 0..Len(fs)
  BY WholeStream
<1>2. End(fs, 0) = 0
  BY EndGrows
<1>3. Len(fs) > 0 => End(fs, 1) > 0
  <2> SUFFICES ASSUME Len(fs) > 0 PROVE End(fs, 1) > 0
    OBVIOUS
  <2>1. 0 \in 0..(Len(fs) - 1) /\ 0 + 1 = 1
    BY <1>1
  <2>2. End(fs, 0 + 1) = End(fs, 0) + Len(Wire(fs[0 + 1])) /\ Len(Wire(fs[0 + 1])) \in Nat \ {0}
    BY <2>1, EndGrows
  <2> QED
    BY <1>2, <2>1, <2>2
<1>4. Rest(fs, 0, 0) = <<>>
  <2>1. Rest(fs, 0, 0) \in Seq(ByteTokens) /\ Len(Rest(fs, 0, 0)) = 0 - 0
    BY <1>1, <1>2, RestShape
  <2> QED
    BY <2>1
<1>5. Spoken(fs, 0) = <<>> /\ Answered(fs, 0) = <<>>
  BY NothingSpoken
<1>6. Said(s, <<>>) = <<>>
  BY DEF Said
<1>7. FramedUpTo(s, fs, 0, <<>>, <<>>, <<>>, 0)
  BY <1>1, <1>2, <1>3, <1>4, <1>5, <1>6 DEF FramedUpTo
<1> QED
  BY <1>1, <1>7 DEF Framed

(* A data event handles what has become whole with it.                     *)
LEMMA FrameData ==
  ASSUME NEW s, NEW fs \in Seq(ClientFrames), NEW a \in Nat, NEW b, NEW t, NEW q,
         Framed(s, fs, a, b, t, q),
         NEW last \in Nat, a <= last, last <= Len(WireAll(fs)),
         NEW loop, loop = Loop(b \o SubSeq(WireAll(fs), a + 1, last))
  PROVE  /\ loop.texts \in Seq(Payloads) /\ loop.answers \in Seq(Answers)
         /\ ~loop.threw => Framed(s, fs, last, loop.rest, t \o Said(s, loop.texts), q \o loop.answers)
<1> DEFINE v == WireAll(fs)
           N == Len(fs)
<1>1. PICK m \in 0..N : FramedUpTo(s, fs, a, b, t, q, m)
  BY DEF Framed
<1>2. v \in Seq(ByteTokens) /\ End(fs, m) \in Nat /\ End(fs, m) <= a /\ N \in Nat
  BY <1>1, WholeStream, EndGrows DEF FramedUpTo
<1>3. b \o SubSeq(v, a + 1, last) = Rest(fs, m, last)
  <2> DEFINE e == End(fs, m)
  <2>1. b = SubSeq(v, e + 1, a)
    BY <1>1 DEF FramedUpTo, Rest
  <2>2. v \in Seq(ByteTokens) /\ e \in Nat /\ e <= a /\ last <= Len(v)
    BY <1>2
  <2> HIDE DEF v, e
  <2>3. SubSeq(v, e + 1, a) \o SubSeq(v, a + 1, last) = SubSeq(v, e + 1, last)
    BY <2>2, Extended
  <2> QED
    BY <2>1, <2>3 DEF Rest, v, e
<1> DEFINE text == Rest(fs, m, last)
<1>4. loop = Loop(text) /\ text = Rest(fs, m, last) /\ End(fs, m) <= last /\ last <= Len(WireAll(fs))
  <2>1. loop = Loop(b \o SubSeq(v, a + 1, last))
    OBVIOUS
  <2>2. End(fs, m) <= last
    BY <1>2
  <2> QED
    BY <1>3, <2>1, <2>2
<1> HIDE DEF text
<1>5. PICK k \in m..N :
        /\ End(fs, k) <= last /\ (k < N => last < End(fs, k + 1))
        /\ loop.rest = Rest(fs, k, last)
        /\ loop.texts \in Seq(Payloads) /\ loop.answers \in Seq(Answers)
        /\ ~loop.threw => Spoken(fs, m) \o loop.texts = Spoken(fs, k)
        /\ Answered(fs, m) \o loop.answers = Answered(fs, k)
  <2>0. m \in 0..Len(fs)
    BY <1>1
  <2> HIDE DEF v, N
  <2>1. text = Rest(fs, m, last) /\ End(fs, m) <= last /\ last <= Len(WireAll(fs))
    BY <1>4
  <2>2. LoopResult(fs, m, last, Loop(text))
    BY <2>0, <2>1, LoopFrames
  <2>3. LoopResult(fs, m, last, loop)
    BY <1>4, <2>2
  <2> QED
    BY <2>3 DEF LoopResult, N
<1>6. ASSUME ~loop.threw
      PROVE  FramedUpTo(s, fs, last, loop.rest, t \o Said(s, loop.texts), q \o loop.answers, k)
  <2> DEFINE p == Spoken(fs, m)
             r == loop.texts
  <2>1. p \in Seq(Payloads) /\ r \in Seq(Payloads)
    BY <1>5, SpokenType
  <2>2. t = Said(s, p) /\ q = Answered(fs, m)
    BY <1>1 DEF FramedUpTo
  <2>3. p \o r = Spoken(fs, k)
    BY <1>5, <1>6
  <2> HIDE DEF p, r
  <2>4. Said(s, p) \o Said(s, r) = Said(s, Spoken(fs, k))
    BY <2>1, <2>3, SaidMore
  <2>5. t \o Said(s, loop.texts) = Said(s, Spoken(fs, k))
    BY <2>2, <2>4 DEF r
  <2>6. q \o loop.answers = Answered(fs, k)
    BY <1>5, <2>2
  <2> QED
    BY <1>5, <2>5, <2>6 DEF FramedUpTo
<1>7. k \in 0..N
  BY <1>1, <1>2
<1> QED
  BY <1>5, <1>6, <1>7 DEF Framed
-----------------------------------------------------------------------------
(* The invariant.  All that is ever written, with the senders of texts: a  *)
(* connection, or the program itself.                                      *)
Senders == Sockets \cup {0}
Notices == {Message("400"), Message("101"), Message("goodbye")}
Messages == Texts(Senders) \cup Answers \cup Notices
AnswersSent(s) == Kept(sent[s], Answers)

FunctionTypes ==
  /\ headers \in [Sockets -> Seq(HeaderLines)]
  /\ \A s \in Sockets : socket[s] # "none" => headers[s] \in ClientHeaders
  /\ frames \in [Sockets -> Seq(ClientFrames)]
  /\ arrived \in [Sockets -> Nat]
  /\ DOMAIN rawBuffer = Sockets
  /\ joined \in [Sockets -> Nat]
  /\ sent \in [Sockets -> Seq(Messages)]
  /\ chat \in Seq(Texts(Senders))
TypeInv == TypeOK /\ FunctionTypes

MadeOf(state) == {y \in DOMAIN state : state[y] # "none"}
Numbered(state) == \A y \in MadeOf(state) : y \in 1..Cardinality(MadeOf(state))

(* Objects are made in the order of their numbers: nothing has come on a   *)
(* connection that was not made.                                           *)
FreshInv ==
  /\ Numbered(socket)
  /\ \A s \in Sockets : socket[s] = "none" => arrived[s] = 0 /\ rawBuffer[s] = <<>> /\ ~isUpgraded[s]

(* Before its upgrade a connection has said and been told nothing; after   *)
(* it, its frames are handled.  One whose callback threw is destroyed.     *)
Untouched(s) ==
  /\ rawBuffer[s] = SubSeq(Input(s), 1, arrived[s])
  /\ TextsOf(s) = <<>> /\ TextsTo(s) = <<>> /\ AnswersSent(s) = <<>>
HandledSoFar(s) ==
  /\ Len(headers[s]) <= arrived[s]
  /\ Framed(s, frames[s], arrived[s] - Len(headers[s]), rawBuffer[s], TextsOf(s), AnswersSent(s))
FrameOf(s) ==
  /\ arrived[s] <= Len(Input(s))
  /\ ~isUpgraded[s] => Untouched(s)
  /\ isUpgraded[s] /\ s \notin failed => HandledSoFar(s)
  /\ s \in failed => socket[s] \in {"destroyed", "closed"}
FrameInv == \A s \in Sockets : FrameOf(s)

(* The server on record is the only one that listens; who is upgraded      *)
(* after a stop was stranded by it.                                        *)
ServerInv ==
  /\ ~unruly => \A n \in Servers : netServer[n] \in {"binding", "listening"} => server = {n}
  /\ server = {} /\ ~unruly =>
       /\ clients \subseteq stranded
       /\ \A s \in Sockets : socket[s] = "open" /\ ~isUpgraded[s] => s \in stranded

Inv == TypeInv /\ FreshInv /\ FrameInv /\ EveryoneHears /\ ClientsConnected /\ ServerInv
-----------------------------------------------------------------------------
(* Something that begins a sequence still does when that grows.            *)
LEMMA PrefixLonger ==
  ASSUME NEW S, NEW s \in Seq(S), NEW t \in Seq(S)
  PROVE  /\ IsPrefix(s, s) /\ IsPrefix(<<>>, s)
         /\ IsPrefix(s, t) => \A u \in Seq(S) : IsPrefix(s, t \o u)
<1>1. IsPrefix(s, s) /\ IsPrefix(<<>>, s)
  <2>1. Len(<<>>) = 0 /\ SubSeq(<<>>, 1, 0) = <<>> /\ SubSeq(s, 1, 0) = <<>> /\ Len(s) \in Nat
    OBVIOUS
  <2>2. Len(<<>>) <= Len(s) /\ Len(s) <= Len(s)
    BY <2>1
  <2>3. SubSeq(<<>>, 1, Len(<<>>)) = SubSeq(s, 1, Len(<<>>))
    BY <2>1, Zenon
  <2> QED
    BY <2>2, <2>3, Zenon DEF IsPrefix
<1>2. ASSUME IsPrefix(s, t), NEW u \in Seq(S) PROVE IsPrefix(s, t \o u)
  <2> DEFINE n == Len(s)
             x == t \o u
  <2>1. n <= Len(t) /\ SubSeq(s, 1, n) = SubSeq(t, 1, n) /\ n \in Nat
    BY <1>2 DEF IsPrefix
  <2>2. x \in Seq(S) /\ Len(x) = Len(t) + Len(u) /\ \A i \in 1..Len(t) : x[i] = t[i]
    BY Joined
  <2>3. Len(u) \in Nat /\ Len(t) \in Nat
    OBVIOUS
  <2> HIDE DEF n, x
  <2>4. n <= Len(x)
    BY <2>1, <2>2, <2>3
  <2> DEFINE y == SubSeq(x, 1, n)
             z == SubSeq(t, 1, n)
  <2>5. y \in Seq(S) /\ Len(y) = n /\ \A i \in 1..n : y[i] = x[i]
    BY <2>1, <2>2, <2>4
  <2>6. z \in Seq(S) /\ Len(z) = n /\ \A i \in 1..n : z[i] = t[i]
    BY <2>1
  <2> HIDE DEF y, z
  <2>7. ASSUME NEW i \in 1..n PROVE y[i] = z[i]
    <3> DEFINE l == Len(t)
    <3>1. n <= l /\ l \in Nat /\ n \in Nat
      BY <2>1, <2>3
    <3> HIDE DEF l
    <3>2. i \in 1..l
      BY <3>1
    <3>3. x[i] = t[i]
      BY <2>2, <3>2 DEF l
    <3>4. y[i] = x[i] /\ z[i] = t[i]
      BY <2>5, <2>6
    <3> QED
      BY <3>3, <3>4
  <2>8. y = z
    <3>1. y \in Seq(S) /\ z \in Seq(S)
      BY <2>5, <2>6
    <3>2. DOMAIN y = 1..n /\ DOMAIN z = 1..n
      BY <2>5, <2>6, <3>1
    <3>3. y = [i \in DOMAIN y |-> y[i]] /\ z = [i \in DOMAIN z |-> z[i]]
      BY <3>1
    <3> QED
      BY <2>7, <3>2, <3>3
  <2> QED
    <3>1. SubSeq(s, 1, Len(s)) = SubSeq(t \o u, 1, Len(s))
      BY <2>1, <2>8, Zenon DEF n, x, y, z
    <3>2. Len(s) <= Len(t \o u)
      BY <2>4 DEF n, x
    <3> QED
      BY <3>1, <3>2, Zenon DEF IsPrefix
<1> QED
  BY <1>1, <1>2

(* Answers, notices and texts are told apart.                              *)
LEMMA KindsOfMessages ==
  /\ \A X : Texts(X) \cap Answers = {} /\ Texts(X) \cap Notices = {}
  /\ Answers \cap Notices = {}
  /\ \A X, Y : X \subseteq Y => Texts(X) \subseteq Texts(Y)
  /\ \A X, Y : X \cap Y = {} => Texts(X) \cap Texts(Y) = {}
<1>1. \A x \in Answers \cup Notices : \E kind : x = Message(kind)
  BY DEF Answers, Notices
<1>2. \A X : Texts(X) \cap Answers = {} /\ Texts(X) \cap Notices = {}
  BY <1>1, TextsAreNoMessages
<1>3. \A x, y : Message(x) = Message(y) => x = y
  BY DEF Message
<1>4. Answers \cap Notices = {}
  <2> SUFFICES ASSUME NEW x \in Answers, NEW y \in Notices, x = y PROVE FALSE
    OBVIOUS
  <2>1. PICK k \in {"pong", "close"} : x = Message(k)
    BY DEF Answers
  <2>2. PICK l \in {"400", "101", "goodbye"} : y = Message(l)
    BY DEF Notices
  <2>3. k = l
    BY <1>3, <2>1, <2>2
  <2> QED
    BY <2>3
<1>5. \A X, Y : X \subseteq Y => Texts(X) \subseteq Texts(Y)
  BY DEF Texts
<1>6. \A X, Y : X \cap Y = {} => Texts(X) \cap Texts(Y) = {}
  BY DEF Texts
<1> QED
  BY <1>2, <1>4, <1>5, <1>6

(* What is kept of notices, texts and answers in a row.                    *)
WrittenAs(w, m, q) == w \in Seq(Messages) /\ Kept(w, Texts(Senders)) = m /\ Kept(w, Answers) = q

(* Each kind is where the others are not.                                  *)
LEMMA KeptOfWrites ==
  ASSUME NEW g \in Seq(Notices), NEW x \in Senders, NEW m \in Seq(Texts({x})), NEW q \in Seq(Answers),
         NEW w, w = g \o m \o q
  PROVE  WrittenAs(w, m, q)
<1>1. Texts({x}) \subseteq Texts(Senders)
  BY KindsOfMessages
<1>2. /\ Texts(Senders) \subseteq Messages /\ Answers \subseteq Messages /\ Notices \subseteq Messages
  BY DEF Messages
<1>3. m \in Seq(Texts(Senders)) /\ g \in Seq(Messages) /\ m \in Seq(Messages) /\ q \in Seq(Messages)
  <2>1. m \in Seq(Texts({x})) /\ g \in Seq(Notices) /\ q \in Seq(Answers)
    OBVIOUS
  <2> DEFINE T == Texts({x})
             V == Texts(Senders)
  <2>2. T \subseteq V /\ V \subseteq Messages /\ m \in Seq(T)
    BY <1>1, <1>2
  <2> HIDE DEF T, V
  <2>3. m \in Seq(V) /\ m \in Seq(Messages)
    BY <2>2
  <2>4. g \in Seq(Messages) /\ q \in Seq(Messages)
    BY <1>2, <2>1
  <2> QED
    BY <2>3, <2>4 DEF V
<1> DEFINE gm == g \o m
<1>4. gm \in Seq(Messages)
  BY <1>3, Joined
<1> HIDE DEF gm
<1>5. w = gm \o q
  BY DEF gm
<1>6. w \in Seq(Messages)
  BY <1>3, <1>4, <1>5, Joined
<1>7. \A T : Kept(w, T) = (Kept(g, T) \o Kept(m, T)) \o Kept(q, T)
  <2> SUFFICES ASSUME NEW T PROVE Kept(w, T) = (Kept(g, T) \o Kept(m, T)) \o Kept(q, T)
    OBVIOUS
  <2>1. Kept(gm, T) = Kept(g, T) \o Kept(m, T)
    BY <1>3, KeptConcat DEF gm
  <2>2. Kept(w, T) = Kept(gm, T) \o Kept(q, T)
    BY <1>3, <1>4, <1>5, KeptConcat
  <2> QED
    BY <2>1, <2>2
<1>8. Notices \cap Texts(Senders) = {} /\ Notices \cap Answers = {}
      /\ Answers \cap Texts(Senders) = {} /\ Texts(Senders) \cap Answers = {}
  BY KindsOfMessages
<1>9. Kept(g, Texts(Senders)) = <<>> /\ Kept(g, Answers) = <<>>
  BY <1>8, KeptNone
<1>10. Kept(m, Texts(Senders)) = m /\ Kept(m, Answers) = <<>>
  BY <1>3, <1>8, KeptNone, KeptAll
<1>11. Kept(q, Texts(Senders)) = <<>> /\ Kept(q, Answers) = q
  BY <1>8, KeptNone, KeptAll
<1>12. (<<>> \o m) \o <<>> = m /\ (<<>> \o <<>>) \o q = q
  OBVIOUS
<1>13. Kept(w, Texts(Senders)) = m /\ Kept(w, Answers) = q
  BY <1>7, <1>9, <1>10, <1>11, <1>12, Zenon
<1> QED
  BY <1>6, <1>13 DEF WrittenAs
-----------------------------------------------------------------------------
(* The object that is made next has not been made.                         *)
LEMMA NewIsUnused ==
  ASSUME NEW S, IsFiniteSet(S), NEW state, DOMAIN state = S, Numbered(state),
         NEW x, NextToMake(state, x), x \in S
  PROVE  state[x] = "none"
<1>1. Cardinality(MadeOf(state)) \in Nat
  BY FS_Subset, FS_CardinalityType DEF MadeOf
<1>2. x = Cardinality(MadeOf(state)) + 1
  BY DEF NextToMake, Made, MadeOf
<1>3. x \notin MadeOf(state)
  BY <1>1, <1>2 DEF Numbered
<1> QED
  BY <1>3 DEF MadeOf

(* Making the next one keeps the numbering.                                *)
LEMMA StillNumbered ==
  ASSUME NEW S, IsFiniteSet(S), NEW state, DOMAIN state = S, Numbered(state),
         NEW x, NextToMake(state, x), NEW new, MadeOf(new) = MadeOf(state) \cup {x}, x \in S
  PROVE  Numbered(new)
<1>1. IsFiniteSet(MadeOf(state))
  BY FS_Subset DEF MadeOf
<1>2. Cardinality(MadeOf(state)) \in Nat
  BY <1>1, FS_CardinalityType
<1>3. x = Cardinality(MadeOf(state)) + 1
  BY DEF NextToMake, Made, MadeOf
<1>4. x \notin MadeOf(state)
  BY <1>2, <1>3 DEF Numbered
<1>5. Cardinality(MadeOf(new)) = Cardinality(MadeOf(state)) + 1
  BY <1>1, <1>4, FS_AddElement
<1> QED
  BY <1>2, <1>3, <1>5 DEF Numbered

(* What one sender says and what is written with it, seen by what is kept. *)
HeardOf(x, said, more) ==
  /\ chat' \in Seq(Texts(Senders)) /\ sent' \in [Sockets -> Seq(Messages)]
  /\ Len(chat') = Len(chat) + Len(said) /\ Len(chat) \in Nat /\ Len(said) \in Nat
  /\ \A r \in Sockets :
       /\ TextsOf(r)' = IF r = x THEN TextsOf(r) \o said ELSE TextsOf(r)
       /\ TextsTo(r)' = TextsTo(r) \o Kept(more[r], Texts(Senders))
       /\ AnswersSent(r)' = AnswersSent(r) \o Kept(more[r], Answers)

(* It follows from what is kept of a sequence that grows.                  *)
LEMMA Heard ==
  ASSUME TypeInv, NEW x \in Senders, NEW said \in Seq(Texts({x})), NEW more \in [Sockets -> Seq(Messages)],
         chat' = chat \o said, sent' = [r \in Sockets |-> sent[r] \o more[r]]
  PROVE  HeardOf(x, said, more)
<1> DEFINE V == Texts(Senders)
           T == Texts({x})
<1>1. chat \in Seq(V) /\ sent \in [Sockets -> Seq(Messages)]
  BY DEF TypeInv, FunctionTypes
<1>2. T \subseteq V /\ said \in Seq(T)
  BY KindsOfMessages
<1>3. said \in Seq(V)
  <2> HIDE DEF T, V
  <2> QED
    BY <1>2
<1>4. chat' \in Seq(V) /\ Len(chat') = Len(chat) + Len(said)
  <2>1. chat \in Seq(V) /\ said \in Seq(V)
    BY <1>1, <1>3
  <2> HIDE DEF V
  <2> QED
    BY <2>1, Joined
<1>5. Len(chat) \in Nat /\ Len(said) \in Nat
  <2> HIDE DEF V
  <2> QED
    BY <1>1, <1>3
<1>6. \A r \in Sockets : sent[r] \in Seq(Messages) /\ more[r] \in Seq(Messages) /\ sent'[r] = sent[r] \o more[r]
  BY <1>1
<1>7. \A r \in Sockets : sent'[r] \in Seq(Messages)
  BY <1>6, Joined
<1>8. sent' \in [Sockets -> Seq(Messages)]
  <2>1. sent' = [r \in Sockets |-> sent'[r]]
    OBVIOUS
  <2> QED
    BY <1>7, <2>1
<1>9. ASSUME NEW r \in Sockets
      PROVE  TextsOf(r)' = IF r = x THEN TextsOf(r) \o said ELSE TextsOf(r)
  <2> DEFINE U == Texts({r})
  <2>1. Kept(chat', U) = Kept(chat, U) \o Kept(said, U)
    <3> HIDE DEF U, V
    <3> QED
      BY <1>1, <1>3, KeptConcat
  <2>2. TextsOf(r) = Kept(chat, U) /\ TextsOf(r)' = Kept(chat', U)
    BY DEF TextsOf, Texts
  <2>3. CASE r = x
    <3>1. Kept(said, U) = said
      BY <1>2, <2>3, KeptAll
    <3> QED
      BY <2>1, <2>2, <2>3, <3>1, Zenon
  <2>4. CASE r # x
    <3>1. T \cap U = {}
      BY <2>4, KindsOfMessages
    <3>2. Kept(said, U) = <<>>
      <4> HIDE DEF T, U
      <4> QED
        BY <1>2, <3>1, KeptNone
    <3>3. Kept(chat, U) \in Seq(V \cap U)
      <4> HIDE DEF U, V
      <4> QED
        BY <1>1, KeptType
    <3> DEFINE k == Kept(chat, U)
    <3> HIDE DEF k, U, V
    <3>4. k \o <<>> = k
      BY <3>3 DEF k
    <3> QED
      BY <2>1, <2>2, <2>4, <3>2, <3>4, Zenon DEF k
  <2> QED
    BY <2>3, <2>4
<1>10. ASSUME NEW r \in Sockets
       PROVE  /\ TextsTo(r)' = TextsTo(r) \o Kept(more[r], Texts(Senders))
              /\ AnswersSent(r)' = AnswersSent(r) \o Kept(more[r], Answers)
  <2>1. Kept(sent'[r], Texts(Senders)) = Kept(sent[r], Texts(Senders)) \o Kept(more[r], Texts(Senders))
    BY <1>6, KeptConcat
  <2>2. Kept(sent'[r], Answers) = Kept(sent[r], Answers) \o Kept(more[r], Answers)
    BY <1>6, KeptConcat
  <2>3. /\ TextsTo(r) = Kept(sent[r], Texts(Senders)) /\ TextsTo(r)' = Kept(sent'[r], Texts(Senders))
    BY DEF TextsTo, Texts, Senders
  <2>4. /\ AnswersSent(r) = Kept(sent[r], Answers) /\ AnswersSent(r)' = Kept(sent'[r], Answers)
    BY DEF AnswersSent, Answers, Message
  <2> QED
    BY <2>1, <2>2, <2>3, <2>4, Zenon
<1> QED
  BY <1>4, <1>5, <1>8, <1>9, <1>10 DEF HeardOf

(* What is kept are sequences, and nothing more leaves them as they are.   *)
LEMMA KeptSoFar ==
  ASSUME TypeInv, NEW s \in Sockets
  PROVE  /\ TextsOf(s) \in Seq(Texts(Senders)) /\ TextsTo(s) \in Seq(Texts(Senders))
         /\ AnswersSent(s) \in Seq(Answers)
         /\ TextsOf(s) \o <<>> = TextsOf(s) /\ TextsTo(s) \o <<>> = TextsTo(s)
         /\ AnswersSent(s) \o <<>> = AnswersSent(s)
<1> DEFINE V == Texts(Senders)
           U == Texts({s})
<1>1. chat \in Seq(V) /\ sent[s] \in Seq(Messages)
  BY DEF TypeInv, FunctionTypes
<1>2. TextsOf(s) = Kept(chat, U) /\ TextsTo(s) = Kept(sent[s], V) /\ AnswersSent(s) = Kept(sent[s], Answers)
  BY DEF TextsOf, TextsTo, AnswersSent, Senders
<1> HIDE DEF U, V
<1>3. /\ TextsOf(s) \in Seq(V \cap U) /\ TextsTo(s) \in Seq(Messages \cap V)
      /\ AnswersSent(s) \in Seq(Messages \cap Answers)
  BY <1>1, <1>2, KeptType
<1>4. TextsOf(s) \in Seq(V) /\ TextsTo(s) \in Seq(V) /\ AnswersSent(s) \in Seq(Answers)
  BY <1>3
<1> QED
  BY <1>4 DEF V

(* All that a connection's client sends is a sequence of tokens.           *)
LEMMA InputType ==
  ASSUME TypeInv, NEW s \in Sockets
  PROVE  /\ headers[s] \in Seq(HeaderLines) /\ frames[s] \in Seq(ClientFrames) /\ arrived[s] \in Nat
         /\ Input(s) = InputOf(headers[s], frames[s])
         /\ Input(s) \in Seq(InputTokens) /\ Len(headers[s]) \in Nat
         /\ Len(Input(s)) = Len(headers[s]) + Len(WireAll(frames[s]))
         /\ Len(WireAll(frames[s])) \in Nat
<1>1. headers[s] \in Seq(HeaderLines) /\ frames[s] \in Seq(ClientFrames) /\ arrived[s] \in Nat
  BY DEF TypeInv, FunctionTypes
<1>2. Input(s) = InputOf(headers[s], frames[s])
  BY DEF Input, InputOf
<1> DEFINE h == headers[s]
           fs == frames[s]
<1>3. h \in Seq(HeaderLines) /\ fs \in Seq(ClientFrames)
  BY <1>1
<1> HIDE DEF h, fs
<1>4. /\ InputOf(h, fs) \in Seq(InputTokens)
      /\ Len(InputOf(h, fs)) = Len(h) + Len(WireAll(fs))
      /\ Len(h) \in Nat /\ Len(WireAll(fs)) \in Nat
  BY <1>3, InputShape
<1>5. Input(s) = InputOf(h, fs)
  BY <1>2 DEF h, fs
<1> QED
  BY <1>1, <1>4, <1>5, Zenon DEF h, fs
-----------------------------------------------------------------------------
(* A data event, taken apart: the headers are waited for or refused, or    *)
(* frames are handled.                                                     *)
Arrives(s, last) ==
  /\ socket[s] = "open"
  /\ last \in Nat /\ arrived[s] < last /\ last <= Len(Input(s))
  /\ arrived' = [arrived EXCEPT ![s] = last]
  /\ UNCHANGED <<server, netServer, unruly, stranded, listener, servedBy, headers, frames>>

Waits(s, last) ==
  /\ ~isUpgraded[s]
  /\ rawBuffer' = [rawBuffer EXCEPT ![s] = SubSeq(Input(s), 1, last)]
  /\ UNCHANGED <<clients, socket, isUpgraded, failed, chat, joined>>
  /\ \E more \in [Sockets -> Seq(Notices)] : sent' = [r \in Sockets |-> sent[r] \o more[r]]

WrittenBy(s, members, greeting, loop, r) ==
  (IF r = s THEN greeting ELSE <<>>)
    \o (IF r \in Audience(s, members) THEN Said(s, loop.texts) ELSE <<>>)
    \o (IF r = s THEN loop.answers ELSE <<>>)

HandlesFor(s, last, members, greeting, loop) ==
  /\ greeting \in Seq(Notices) /\ loop.texts \in Seq(Payloads) /\ loop.answers \in Seq(Answers)
  /\ chat' = chat \o Said(s, loop.texts)
  /\ sent' = [r \in Sockets |-> sent[r] \o WrittenBy(s, members, greeting, loop, r)]
  /\ clients' = IF loop.threw THEN members \ {s} ELSE members
  /\ socket' = [socket EXCEPT ![s] = IF loop.threw THEN "destroyed" ELSE @]
  /\ failed' = IF loop.threw THEN failed \cup {s} ELSE failed
  /\ isUpgraded' = [isUpgraded EXCEPT ![s] = TRUE]
  /\ rawBuffer' = [rawBuffer EXCEPT ![s] = loop.rest]
  /\ Len(headers[s]) <= last
  /\ ~loop.threw => Framed(s, frames[s], last - Len(headers[s]), loop.rest,
                           TextsOf(s) \o Said(s, loop.texts), AnswersSent(s) \o loop.answers)
  /\ \/ ~isUpgraded[s] /\ members = clients \cup {s} /\ joined' = [joined EXCEPT ![s] = Len(chat)]
     \/ isUpgraded[s] /\ members = clients /\ joined' = joined

(* The buffer before the upgrade is all that has arrived.                  *)
LEMMA DataBefore ==
  ASSUME TypeInv, FrameInv, NEW s \in Sockets, ~isUpgraded[s], NEW last \in Nat, arrived[s] < last,
         last <= Len(Input(s))
  PROVE  rawBuffer[s] \o SubSeq(Input(s), arrived[s] + 1, last) = SubSeq(Input(s), 1, last)
<1> DEFINE w == Input(s)
           a == arrived[s]
<1>1. w \in Seq(InputTokens) /\ a \in Nat /\ a < last /\ last <= Len(w)
  BY InputType
<1>2. rawBuffer[s] = SubSeq(w, 1, a)
  BY DEF FrameInv, FrameOf, Untouched
<1> HIDE DEF w, a
<1>3. w \in Seq(InputTokens) /\ 0 \in Nat /\ 0 <= a /\ a <= last
  BY <1>1
<1>4. SubSeq(w, 0 + 1, a) \o SubSeq(w, a + 1, last) = SubSeq(w, 0 + 1, last)
  BY <1>1, <1>3, Extended
<1>5. 0 + 1 = 1
  OBVIOUS
<1> QED
  BY <1>2, <1>4, <1>5 DEF w, a

(* What Handle does, in those terms.                                       *)
LEMMA HandleEvent ==
  ASSUME TypeInv, NEW s \in Sockets, NEW last, NEW buffer, NEW members, NEW greeting \in Seq(Notices),
         Handle(s, buffer, members, greeting),
         isUpgraded' = [isUpgraded EXCEPT ![s] = TRUE],
         Len(headers[s]) <= last,
         Loop(buffer).texts \in Seq(Payloads) /\ Loop(buffer).answers \in Seq(Answers),
         ~Loop(buffer).threw => Framed(s, frames[s], last - Len(headers[s]), Loop(buffer).rest,
                                       TextsOf(s) \o Said(s, Loop(buffer).texts),
                                       AnswersSent(s) \o Loop(buffer).answers),
         \/ ~isUpgraded[s] /\ members = clients \cup {s} /\ joined' = [joined EXCEPT ![s] = Len(chat)]
         \/ isUpgraded[s] /\ members = clients /\ joined' = joined
  PROVE  HandlesFor(s, last, members, greeting, Loop(buffer))
<1> DEFINE loop == Loop(buffer)
           messages == [i \in DOMAIN loop.texts |-> Text(s, loop.texts[i])]
<1>1. messages = Said(s, loop.texts)
  BY DEF Said
<1>2. /\ rawBuffer' = [rawBuffer EXCEPT ![s] = loop.rest]
      /\ chat' = chat \o messages
      /\ sent' = [r \in Sockets |-> sent[r] \o
                   ((IF r = s THEN greeting ELSE <<>>)
                     \o (IF r \in Audience(s, members) THEN messages ELSE <<>>)
                     \o (IF r = s THEN loop.answers ELSE <<>>))]
      /\ clients' = IF loop.threw THEN members \ {s} ELSE members
      /\ socket' = [socket EXCEPT ![s] = IF loop.threw THEN "destroyed" ELSE @]
      /\ failed' = IF loop.threw THEN failed \cup {s} ELSE failed
  BY DEF Handle, Write
<1> HIDE DEF loop, messages
<1>3. sent' = [r \in Sockets |-> sent[r] \o WrittenBy(s, members, greeting, loop, r)]
  BY <1>1, <1>2, Zenon DEF WrittenBy
<1> QED
  BY <1>1, <1>2, <1>3 DEF HandlesFor, loop

(* A data event is one of those.                                           *)
LEMMA DataEvent ==
  ASSUME TypeInv, FrameInv, NEW s \in Sockets, Data(s)
  PROVE  \E last : /\ Arrives(s, last)
                   /\ \/ Waits(s, last)
                      \/ \E members, greeting, loop : HandlesFor(s, last, members, greeting, loop)
<1> DEFINE w == Input(s)
           l == Len(headers[s])
           a == arrived[s]
           h == headers[s]
           fs == frames[s]
<1>1. /\ h \in Seq(HeaderLines) /\ fs \in Seq(ClientFrames) /\ a \in Nat
      /\ w = InputOf(h, fs) /\ w \in Seq(InputTokens) /\ l \in Nat
      /\ Len(w) = l + Len(WireAll(fs)) /\ Len(WireAll(fs)) \in Nat
  BY InputType
<1>2. PICK last \in Cuts[s] \cap (a + 1 .. Len(w)) :
        LET buffer == rawBuffer[s] \o SubSeq(Input(s), arrived[s] + 1, last) IN
        /\ arrived' = [arrived EXCEPT ![s] = last]
        /\ \/ ~isUpgraded[s] /\ Headers(s, buffer)
           \/ /\ ~isUpgraded[s] /\ Boundary(buffer) # {} /\ IsUpgrade(HeadersBlock(buffer))
              /\ isUpgraded' = [isUpgraded EXCEPT ![s] = TRUE]
              /\ joined' = [joined EXCEPT ![s] = Len(chat)]
              /\ Handle(s, BehindUpgrade(buffer), clients \cup {s}, <<Message("101")>>)
           \/ /\ isUpgraded[s]
              /\ Handle(s, buffer, clients, <<>>)
              /\ UNCHANGED <<isUpgraded, joined>>
  BY DEF Data
<1> DEFINE buffer == rawBuffer[s] \o SubSeq(w, a + 1, last)
           n == Len(WireAll(fs))
           d == last - l
<1>3. socket[s] = "open" /\ h \in ClientHeaders
      /\ UNCHANGED <<server, netServer, unruly, stranded, listener, servedBy, headers, frames>>
  BY DEF Data, TypeInv, FunctionTypes, serverVars
<1>0. l \in Nat /\ n \in Nat /\ a \in Nat /\ Len(w) = l + n
  BY <1>1
<1>4. last \in Nat /\ a < last /\ last <= Len(w) /\ last <= l + n /\ Len(w) \in Nat
  <2> HIDE DEF w, a, l, n
  <2>1. last \in (a + 1)..Len(w)
    BY <1>2
  <2> QED
    BY <1>0, <2>1
<1>5. Arrives(s, last)
  BY <1>2, <1>3, <1>4 DEF Arrives
<1>6. s \notin failed
  BY <1>3 DEF FrameInv, FrameOf
<1>7. ~isUpgraded[s] => buffer = SubSeq(w, 1, last)
  BY <1>4, DataBefore
<1>8. CASE ~isUpgraded[s] /\ Headers(s, buffer)
  <2> HIDE DEF buffer
  <2>1. /\ rawBuffer' = [rawBuffer EXCEPT ![s] = buffer]
        /\ UNCHANGED <<clients, socket, isUpgraded, failed, chat, joined>>
    BY <1>8 DEF Headers
  <2>2. \E more \in [Sockets -> Seq(Notices)] : sent' = [r \in Sockets |-> sent[r] \o more[r]]
    <3>1. CASE UNCHANGED sent
      <4> DEFINE more == [r \in Sockets |-> <<>>]
      <4>1. more \in [Sockets -> Seq(Notices)]
        OBVIOUS
      <4>2. sent \in [Sockets -> Seq(Messages)]
        BY DEF TypeInv, FunctionTypes
      <4>3. \A r \in Sockets : sent[r] \o <<>> = sent[r]
        <5> SUFFICES ASSUME NEW r \in Sockets PROVE sent[r] \o <<>> = sent[r]
          OBVIOUS
        <5>1. sent[r] \in Seq(Messages)
          BY <4>2
        <5> QED
          BY <5>1
      <4>4. sent' = [r \in Sockets |-> sent[r] \o more[r]]
        BY <3>1, <4>2, <4>3
      <4> QED
        BY <4>1, <4>4
    <3>2. CASE Write([r \in Sockets |-> IF r = s THEN <<Message("400")>> ELSE <<>>])
      <4> DEFINE more == [r \in Sockets |-> IF r = s THEN <<Message("400")>> ELSE <<>>]
      <4>1. <<Message("400")>> \in Seq(Notices) /\ <<>> \in Seq(Notices)
        BY DEF Notices
      <4>2. more \in [Sockets -> Seq(Notices)]
        BY <4>1
      <4>3. sent' = [r \in Sockets |-> sent[r] \o more[r]]
        BY <3>2 DEF Write
      <4> QED
        BY <4>2, <4>3
    <3> QED
      BY <1>8, <3>1, <3>2 DEF Headers
  <2>3. Waits(s, last)
    BY <1>7, <1>8, <2>1, <2>2 DEF Waits
  <2> QED
    BY <1>5, <2>3
<1>9. CASE /\ ~isUpgraded[s] /\ Boundary(buffer) # {}
           /\ isUpgraded' = [isUpgraded EXCEPT ![s] = TRUE]
           /\ joined' = [joined EXCEPT ![s] = Len(chat)]
           /\ Handle(s, BehindUpgrade(buffer), clients \cup {s}, <<Message("101")>>)
  <2>1. last \in 0..Len(InputOf(h, fs)) /\ buffer = SubSeq(InputOf(h, fs), 1, last)
    <3> HIDE DEF w, a, l, n, buffer, h, fs
    <3>1. last \in 0..Len(w)
      BY <1>4
    <3> QED
      BY <1>1, <1>7, <1>9, <3>1
  <2>2. l <= last /\ BehindUpgrade(buffer) = SubSeq(WireAll(fs), 1, d)
    <3> DEFINE b == buffer
    <3>1. b = SubSeq(InputOf(h, fs), 1, last) /\ Boundary(b) # {}
      BY <1>9, <2>1
    <3> HIDE DEF buffer, h, fs
    <3>2. last >= Len(h) /\ BehindHeaders(SubSeq(InputOf(h, fs), 1, last)) = SubSeq(WireAll(fs), 1, last - Len(h))
      BY <1>1, <1>3, <2>1, <3>1, BehindTheHeaders
    <3> QED
      BY <1>1, <1>4, <3>1, <3>2 DEF BehindUpgrade, h
  <2> DEFINE b == BehindUpgrade(buffer)
             loop == Loop(b)
  <2>3. TextsOf(s) = <<>> /\ AnswersSent(s) = <<>>
    BY <1>9 DEF FrameInv, FrameOf, Untouched
  <2>4. Framed(s, fs, 0, <<>>, TextsOf(s), AnswersSent(s))
    BY <1>1, <2>3, NothingArrived
  <2>5. d \in Nat /\ 0 <= d /\ d <= n
    <3> HIDE DEF l, n
    <3> QED
      BY <1>0, <1>4, <2>2
  <2>6. loop = Loop(<<>> \o SubSeq(WireAll(fs), 0 + 1, d))
    <3> DEFINE v == WireAll(fs)
               x == SubSeq(v, 1, d)
    <3>1. v \in Seq(ByteTokens) /\ d <= Len(v) /\ d \in Nat
      BY <1>1, <2>5, WholeStream
    <3>2. x \in Seq(ByteTokens)
      <4> HIDE DEF v, d
      <4> QED
        BY <3>1
    <3> HIDE DEF x, d
    <3>3. <<>> \o x = x /\ 0 + 1 = 1
      BY <3>2
    <3> QED
      BY <2>2, <3>3 DEF x
  <2> HIDE DEF b, loop
  <2>7. /\ loop.texts \in Seq(Payloads) /\ loop.answers \in Seq(Answers)
        /\ ~loop.threw => Framed(s, fs, d, loop.rest,
                                 TextsOf(s) \o Said(s, loop.texts), AnswersSent(s) \o loop.answers)
    <3> DEFINE t == TextsOf(s)
               q == AnswersSent(s)
    <3>1. d <= Len(WireAll(fs)) /\ fs \in Seq(ClientFrames)
      BY <1>1, <2>5
    <3> HIDE DEF t, q, d, fs
    <3> QED
      BY <2>4, <2>5, <2>6, <3>1, FrameData DEF t, q
  <2>8. <<Message("101")>> \in Seq(Notices)
    BY DEF Notices
  <2>9. HandlesFor(s, last, clients \cup {s}, <<Message("101")>>, loop)
    <3>1. Handle(s, b, clients \cup {s}, <<Message("101")>>)
      BY <1>9 DEF b
    <3> QED
      BY <1>9, <2>2, <2>7, <2>8, <3>1, HandleEvent DEF loop
  <2> QED
    BY <1>5, <2>9
<1>10. CASE /\ isUpgraded[s]
            /\ Handle(s, buffer, clients, <<>>)
            /\ UNCHANGED <<isUpgraded, joined>>
  <2> DEFINE loop == Loop(buffer)
  <2>1. l <= a /\ Framed(s, fs, a - l, rawBuffer[s], TextsOf(s), AnswersSent(s))
    BY <1>6, <1>10 DEF FrameInv, FrameOf, HandledSoFar
  <2> DEFINE c == a - l
  <2>2. c \in Nat /\ d \in Nat /\ c <= d /\ d <= n /\ l <= last
    <3> HIDE DEF l, n, a
    <3> QED
      BY <1>0, <1>4, <2>1
  <2>3. loop = Loop(rawBuffer[s] \o SubSeq(WireAll(fs), c + 1, d))
    <3>1. last <= Len(InputOf(h, fs)) /\ l = Len(h)
      BY <1>1, <1>4
    <3> HIDE DEF h, fs, a, w, l
    <3>2. a <= last /\ Len(h) <= a
      BY <1>0, <1>4, <2>1, <3>1
    <3>3. SubSeq(InputOf(h, fs), a + 1, last) = SubSeq(WireAll(fs), (a - Len(h)) + 1, last - Len(h))
      BY <1>1, <1>4, <3>1, <3>2, FramesArriving
    <3>4. SubSeq(w, a + 1, last) = SubSeq(WireAll(fs), c + 1, d)
      BY <1>1, <3>1, <3>3, Zenon DEF c, d
    <3> QED
      BY <3>4
  <2> HIDE DEF loop
  <2>4. /\ loop.texts \in Seq(Payloads) /\ loop.answers \in Seq(Answers)
        /\ ~loop.threw => Framed(s, fs, d, loop.rest,
                                 TextsOf(s) \o Said(s, loop.texts), AnswersSent(s) \o loop.answers)
    <3> DEFINE t == TextsOf(s)
               q == AnswersSent(s)
    <3>1. d <= Len(WireAll(fs)) /\ fs \in Seq(ClientFrames)
      BY <1>1, <2>2
    <3>2. Framed(s, fs, c, rawBuffer[s], t, q)
      BY <2>1
    <3> HIDE DEF t, q, c, d, fs
    <3> QED
      BY <2>2, <2>3, <3>1, <3>2, FrameData DEF t, q
  <2>5. <<>> \in Seq(Notices) /\ l <= last
    BY <2>2
  <2>6. isUpgraded' = [isUpgraded EXCEPT ![s] = TRUE]
    BY <1>10 DEF TypeInv, TypeOK
  <2>7. HandlesFor(s, last, clients, <<>>, loop)
    <3> DEFINE b == buffer
    <3>1. Handle(s, b, clients, <<>>) /\ loop = Loop(b) /\ UNCHANGED joined /\ isUpgraded[s]
      BY <1>10 DEF loop
    <3> HIDE DEF b
    <3> QED
      BY <2>4, <2>5, <2>6, <3>1, HandleEvent
  <2> QED
    BY <1>5, <2>7
<1> QED
  <2>1. \/ ~isUpgraded[s] /\ Headers(s, buffer)
        \/ /\ ~isUpgraded[s] /\ Boundary(buffer) # {} /\ IsUpgrade(HeadersBlock(buffer))
           /\ isUpgraded' = [isUpgraded EXCEPT ![s] = TRUE]
           /\ joined' = [joined EXCEPT ![s] = Len(chat)]
           /\ Handle(s, BehindUpgrade(buffer), clients \cup {s}, <<Message("101")>>)
        \/ /\ isUpgraded[s]
           /\ Handle(s, buffer, clients, <<>>)
           /\ UNCHANGED <<isUpgraded, joined>>
    BY <1>2
  <2> QED
    BY <1>8, <1>9, <1>10, <2>1
-----------------------------------------------------------------------------
(* What a step that says something, or nothing, changes in what is heard:  *)
(* x says it, the members but x are told.                                  *)
ToldToGo(r) == \E i \in DOMAIN sent[r] : sent[r][i] \in {Message("close"), Message("goodbye")}

Effects(x, said, members) ==
  /\ x \in Senders /\ said \in Seq(Texts({x})) /\ chat' = chat \o said
  /\ chat' \in Seq(Texts(Senders)) /\ sent' \in [Sockets -> Seq(Messages)]
  /\ Len(chat') = Len(chat) + Len(said) /\ Len(chat) \in Nat /\ Len(said) \in Nat
  /\ \A r \in Sockets :
       /\ TextsOf(r)' = IF r = x THEN TextsOf(r) \o said ELSE TextsOf(r)
       /\ TextsTo(r)' = TextsTo(r) \o (IF r \in members /\ r # x THEN said ELSE <<>>)
       /\ r # x => AnswersSent(r)' = AnswersSent(r)
       /\ ToldToGo(r) => ToldToGo(r)'

(* They follow from what is kept of the writes.                            *)
LEMMA EffectsOf ==
  ASSUME TypeInv, NEW x \in Senders, NEW said \in Seq(Texts({x})), NEW members,
         NEW more \in [Sockets -> Seq(Messages)],
         chat' = chat \o said, sent' = [r \in Sockets |-> sent[r] \o more[r]],
         \A r \in Sockets :
           /\ Kept(more[r], Texts(Senders)) = IF r \in members /\ r # x THEN said ELSE <<>>
           /\ r # x => Kept(more[r], Answers) = <<>>
  PROVE  Effects(x, said, members)
<1>1. /\ chat' \in Seq(Texts(Senders)) /\ sent' \in [Sockets -> Seq(Messages)]
      /\ Len(chat') = Len(chat) + Len(said) /\ Len(chat) \in Nat /\ Len(said) \in Nat
      /\ \A r \in Sockets :
           /\ TextsOf(r)' = IF r = x THEN TextsOf(r) \o said ELSE TextsOf(r)
           /\ TextsTo(r)' = TextsTo(r) \o Kept(more[r], Texts(Senders))
           /\ AnswersSent(r)' = AnswersSent(r) \o Kept(more[r], Answers)
  <2>1. HeardOf(x, said, more)
    BY Heard, Zenon
  <2> QED
    BY <2>1, Zenon DEF HeardOf
<1>2. ASSUME NEW r \in Sockets
      PROVE  TextsTo(r)' = TextsTo(r) \o (IF r \in members /\ r # x THEN said ELSE <<>>)
  BY <1>1, Zenon
<1>3. ASSUME NEW r \in Sockets, r # x PROVE AnswersSent(r)' = AnswersSent(r)
  <2>1. AnswersSent(r) \o <<>> = AnswersSent(r)
    BY KeptSoFar
  <2> QED
    BY <1>1, <1>3, <2>1, Zenon
<1>4. ASSUME NEW r \in Sockets, ToldToGo(r) PROVE ToldToGo(r)'
  <2> DEFINE p == sent[r]
             q == more[r]
  <2>1. p \in Seq(Messages) /\ q \in Seq(Messages) /\ sent'[r] = p \o q
    BY DEF TypeInv, FunctionTypes
  <2>2. PICK i \in DOMAIN p : p[i] \in {Message("close"), Message("goodbye")}
    BY <1>4 DEF ToldToGo
  <2> HIDE DEF p, q
  <2>3. i \in DOMAIN (p \o q) /\ (p \o q)[i] = p[i]
    BY <2>1
  <2>4. i \in DOMAIN sent'[r] /\ sent'[r][i] \in {Message("close"), Message("goodbye")}
    BY <2>1, <2>2, <2>3
  <2>5. \E j \in DOMAIN sent'[r] : sent'[r][j] \in {Message("close"), Message("goodbye")}
    BY <2>4
  <2> QED
    BY <2>5 DEF ToldToGo, Message
<1> QED
  BY <1>1, <1>2, <1>3, <1>4 DEF Effects

(* Nothing is a sequence of anything, and nothing is kept of it.           *)
LEMMA NothingWritten ==
  /\ \A S : <<>> \in Seq(S)
  /\ \A T : Kept(<<>>, T) = <<>>
  BY KeptNothing

(* The program speaks to every client.                                     *)
LEMMA AnnounceEffects ==
  ASSUME TypeInv, NEW m \in Announcements, Announce(m)
  PROVE  Effects(0, <<Text(0, m)>>, clients)
<1> DEFINE said == <<Text(0, m)>>
           more == [s \in Sockets |-> IF s \in Audience(0, clients) THEN said ELSE <<>>]
<1>1. m \in Payloads /\ 0 \in Senders /\ 0 \notin Sockets
  BY MessagesAssumption, ObjectsAssumption DEF Senders
<1>2. Text(0, m) \in Texts({0})
  BY <1>1, TextMember
<1>3. said \in Seq(Texts({0}))
  BY <1>2
<1>4. chat' = chat \o said /\ sent' = [s \in Sockets |-> sent[s] \o more[s]]
  <2>1. chat \in Seq(Texts(Senders)) /\ Text(0, m) \in Texts(Senders)
    BY <1>1, TextMember DEF TypeInv, FunctionTypes
  <2>2. Append(chat, Text(0, m)) = chat \o said
    BY <2>1
  <2> QED
    BY <2>2 DEF Announce, Write
<1>5. Kept(said, Texts(Senders)) = said /\ Kept(said, Answers) = <<>> /\ said \in Seq(Messages)
  <2> DEFINE n == <<>>
             w == (n \o said) \o n
  <2>1. n \in Seq(Notices) /\ n \in Seq(Answers)
    OBVIOUS
  <2>2. w = n \o said \o n
    OBVIOUS
  <2>3. w = said
    OBVIOUS
  <2> HIDE DEF n, w
  <2>4. w \in Seq(Messages) /\ Kept(w, Texts(Senders)) = said /\ Kept(w, Answers) = n
    <3> HIDE DEF said
    <3>1. WrittenAs(w, said, n)
      BY <1>1, <1>3, <2>1, <2>2, KeptOfWrites, Zenon
    <3> QED
      BY <3>1, Zenon DEF WrittenAs
  <2> QED
    BY <2>3, <2>4, Zenon DEF n
<1> HIDE DEF said
<1>6. more \in [Sockets -> Seq(Messages)]
  BY <1>5, NothingWritten
<1>7. \A r \in Sockets : r \in Audience(0, clients) <=> r \in clients /\ r # 0
  BY DEF Audience
<1>8. ASSUME NEW r \in Sockets
      PROVE  /\ Kept(more[r], Texts(Senders)) = IF r \in clients /\ r # 0 THEN said ELSE <<>>
             /\ r # 0 => Kept(more[r], Answers) = <<>>
  BY <1>5, <1>7, NothingWritten
<1> HIDE DEF more
<1>9. Effects(0, said, clients)
  BY <1>1, <1>3, <1>4, <1>6, <1>8, EffectsOf
<1> QED
  BY <1>9 DEF said

(* Notices say nothing.                                                    *)
LEMMA NoticeEffects ==
  ASSUME TypeInv, NEW more \in [Sockets -> Seq(Notices)], NEW members,
         UNCHANGED chat, sent' = [r \in Sockets |-> sent[r] \o more[r]]
  PROVE  Effects(0, <<>>, members)
<1>1. 0 \in Senders /\ <<>> \in Seq(Texts({0}))
  BY NothingWritten DEF Senders
<1>2. Notices \subseteq Messages /\ Notices \cap Texts(Senders) = {} /\ Notices \cap Answers = {}
  BY KindsOfMessages DEF Messages
<1>3. ASSUME NEW r \in Sockets
      PROVE  more[r] \in Seq(Messages) /\ Kept(more[r], Texts(Senders)) = <<>> /\ Kept(more[r], Answers) = <<>>
  <2>1. more[r] \in Seq(Notices)
    OBVIOUS
  <2>2. more[r] \in Seq(Messages)
    BY <1>2, <2>1
  <2>3. Kept(more[r], Texts(Senders)) = <<>>
    BY <1>2, <2>1, KeptNone
  <2>4. Kept(more[r], Answers) = <<>>
    BY <1>2, <2>1, KeptNone
  <2> QED
    BY <2>2, <2>3, <2>4
<1>4. more \in [Sockets -> Seq(Messages)]
  BY <1>3
<1>5. chat' = chat \o <<>>
  <2>1. chat \in Seq(Texts(Senders))
    BY DEF TypeInv, FunctionTypes
  <2> QED
    BY <2>1
<1> QED
  BY <1>1, <1>3, <1>4, <1>5, EffectsOf

(* A stop says nothing, and tells every client to go.                      *)
LEMMA StopEffects ==
  ASSUME TypeInv, Stop
  PROVE  Effects(0, <<>>, clients) /\ \A r \in Sockets \cap clients : ToldToGo(r)'
<1> DEFINE more == [s \in Sockets |-> IF s \in ToldGoodbye THEN <<Message("goodbye")>> ELSE <<>>]
<1>1. <<Message("goodbye")>> \in Seq(Notices) /\ <<>> \in Seq(Notices)
  BY DEF Notices
<1>2. more \in [Sockets -> Seq(Notices)]
  BY <1>1
<1>3. UNCHANGED chat /\ sent' = [s \in Sockets |-> sent[s] \o more[s]]
  BY DEF Stop, Write
<1>4. ASSUME NEW r \in Sockets \cap clients PROVE ToldToGo(r)'
  <2> DEFINE p == sent[r]
             y == Message("goodbye")
             q == p \o <<y>>
  <2>1. p \in Seq(Messages) /\ sent'[r] = q
    BY <1>3 DEF TypeInv, FunctionTypes, ToldGoodbye
  <2>2. y \in Messages
    BY DEF Messages, Notices
  <2> HIDE DEF p, y
  <2>3. q[Len(p) + 1] = y /\ Len(p) + 1 \in DOMAIN q
    BY <2>1, <2>2
  <2> HIDE DEF q
  <2>4. \E j \in DOMAIN sent'[r] : sent'[r][j] \in {Message("close"), Message("goodbye")}
    BY <2>1, <2>3 DEF y
  <2> QED
    BY <2>4 DEF ToldToGo, Message
<1> HIDE DEF more
<1> QED
  BY <1>2, <1>3, <1>4, NoticeEffects

(* Before the upgrade nothing is said.                                     *)
LEMMA WaitsEffects ==
  ASSUME TypeInv, NEW s \in Sockets, NEW last, Waits(s, last)
  PROVE  Effects(0, <<>>, clients)
  BY NoticeEffects DEF Waits

(* The sender is told its answers; the other members what it says.         *)
LEMMA HandlesEffects ==
  ASSUME TypeInv, NEW s \in Sockets, NEW last, NEW members, NEW greeting, NEW loop,
         HandlesFor(s, last, members, greeting, loop)
  PROVE  /\ Effects(s, Said(s, loop.texts), members)
         /\ AnswersSent(s)' = AnswersSent(s) \o loop.answers
<1> DEFINE said == Said(s, loop.texts)
           answers == loop.answers
           more == [r \in Sockets |-> WrittenBy(s, members, greeting, loop, r)]
           G(r) == IF r = s THEN greeting ELSE <<>>
           M(r) == IF r \in members /\ r # s THEN said ELSE <<>>
           Q(r) == IF r = s THEN answers ELSE <<>>
<1>1. greeting \in Seq(Notices) /\ loop.texts \in Seq(Payloads) /\ answers \in Seq(Answers)
  BY DEF HandlesFor
<1>2. s \in Senders /\ said \in Seq(Texts({s}))
  BY <1>1, SaidType DEF Senders
<1>3. chat' = chat \o said /\ sent' = [r \in Sockets |-> sent[r] \o more[r]]
  BY DEF HandlesFor
<1>4. \A r \in Sockets : more[r] = G(r) \o M(r) \o Q(r)
  BY DEF WrittenBy, Audience
<1> HIDE DEF said, answers, more
<1>5. \A r \in Sockets : G(r) \in Seq(Notices) /\ M(r) \in Seq(Texts({s})) /\ Q(r) \in Seq(Answers)
  BY <1>1, <1>2, NothingWritten
<1>6. ASSUME NEW r \in Sockets
      PROVE  more[r] \in Seq(Messages) /\ Kept(more[r], Texts(Senders)) = M(r) /\ Kept(more[r], Answers) = Q(r)
  <2> DEFINE w == more[r]
             g == G(r)
             m == M(r)
             q == Q(r)
  <2>1. g \in Seq(Notices) /\ m \in Seq(Texts({s})) /\ q \in Seq(Answers) /\ w = g \o m \o q
    BY <1>4, <1>5
  <2> HIDE DEF w, g, m, q
  <2>2. w \in Seq(Messages) /\ Kept(w, Texts(Senders)) = m /\ Kept(w, Answers) = q
    <3>1. WrittenAs(w, m, q)
      BY <1>2, <2>1, KeptOfWrites, Zenon
    <3> QED
      BY <3>1, Zenon DEF WrittenAs
  <2> QED
    BY <2>2 DEF w, m, q
<1>7. more \in [Sockets -> Seq(Messages)]
  <2>1. more = [r \in Sockets |-> more[r]]
    BY DEF more
  <2> QED
    BY <1>6, <2>1
<1>8. Effects(s, said, members)
  <2>1. \A r \in Sockets :
           /\ Kept(more[r], Texts(Senders)) = IF r \in members /\ r # s THEN said ELSE <<>>
           /\ r # s => Kept(more[r], Answers) = <<>>
    BY <1>6
  <2> QED
    BY <1>2, <1>3, <1>7, <2>1, EffectsOf
<1>9. AnswersSent(s)' = AnswersSent(s) \o answers
  <2>1. AnswersSent(s)' = AnswersSent(s) \o Kept(more[s], Answers)
    BY <1>2, <1>3, <1>7, Heard DEF HeardOf
  <2>2. Kept(more[s], Answers) = answers
    BY <1>6
  <2> QED
    BY <2>1, <2>2, Zenon
<1> QED
  BY <1>8, <1>9 DEF said, answers
-----------------------------------------------------------------------------
(* Every other step is quiet: nothing arrives, is said or is told.         *)
SocketMoves(s) ==
  \/ socket'[s] = socket[s]
  \/ socket[s] = "open" /\ socket'[s] = "destroyed"
  \/ socket[s] = "destroyed" /\ socket'[s] = "closed" /\ s \notin clients'
ServerMoves(n) == Start(n) \/ Bind(n) \/ ServerClosed(n)

Quiet ==
  /\ UNCHANGED <<headers, frames, arrived, isUpgraded, rawBuffer, failed, sent, chat, joined, stranded>>
  /\ listener' \in BOOLEAN
  /\ clients' \subseteq clients
  /\ socket' \in [Sockets -> {"none", "open", "destroyed", "closed"}]
  /\ \A s \in Sockets : SocketMoves(s) /\ (s \in clients \ clients' => socket'[s] # "open")
  /\ UNCHANGED <<server, netServer, unruly>> \/ \E n \in Servers : ServerMoves(n)

Speaks ==
  \/ \E m \in Announcements : Announce(m)
  \/ Stop
  \/ \E s \in Sockets : Accept(s) \/ Data(s)

(* There is no other step.                                                 *)
LEMMA StepKinds ==
  ASSUME TypeInv, [Next]_vars
  PROVE  Quiet \/ Speaks
<1> USE DEF inputVars, serverVars
<1>0. /\ socket \in [Sockets -> {"none", "open", "destroyed", "closed"}]
      /\ listener \in BOOLEAN /\ clients \subseteq Sockets
  BY DEF TypeInv, TypeOK
<1>1. CASE OnMessage \/ UNCHANGED vars
  BY <1>0, <1>1 DEF OnMessage, vars, Quiet, SocketMoves
<1>2. ASSUME NEW n \in Servers, ServerMoves(n) PROVE Quiet
  <2>1. UNCHANGED <<headers, frames, arrived, isUpgraded, rawBuffer, failed, sent, chat, joined, stranded,
                    listener, clients, socket>>
    BY <1>2 DEF ServerMoves, Start, Bind, ServerClosed
  <2> QED
    BY <1>0, <1>2, <2>1 DEF Quiet, SocketMoves
<1>3. ASSUME NEW s \in Sockets, Written(s) \/ WriteFails(s) \/ ClientEnds(s) \/ SocketError(s) \/ SocketClose(s)
      PROVE  Quiet
  <2>1. /\ UNCHANGED <<headers, frames, arrived, isUpgraded, rawBuffer, failed, sent, chat, joined, stranded,
                       listener, server, netServer, unruly>>
        /\ clients' = clients \/ clients' = clients \ {s}
        /\ socket' = socket \/ socket' = [socket EXCEPT ![s] = socket'[s]]
    BY <1>0, <1>3 DEF Written, WriteFails, ClientEnds, SocketError, SocketClose, ClientsWithout
  <2>2. /\ \/ socket'[s] = socket[s] /\ socket[s] = "destroyed"
           \/ socket[s] = "open" /\ socket'[s] = "destroyed"
           \/ socket[s] = "destroyed" /\ socket'[s] = "closed" /\ s \notin clients'
    BY <1>0, <1>3 DEF Written, WriteFails, ClientEnds, SocketError, SocketClose, ClientsWithout
  <2>3. socket' \in [Sockets -> {"none", "open", "destroyed", "closed"}]
    BY <1>0, <2>1, <2>2
  <2>4. \A r \in Sockets : SocketMoves(r) /\ (r \in clients \ clients' => socket'[r] # "open")
    BY <1>0, <2>1, <2>2 DEF SocketMoves
  <2> QED
    BY <1>0, <2>1, <2>3, <2>4 DEF Quiet
<1> QED
  BY <1>1, <1>2, <1>3 DEF Next, Speaks, ServerMoves

(* What is kept of what is not changed.                                    *)
LEMMA QuietEffects ==
  ASSUME UNCHANGED <<chat, sent>>, NEW s
  PROVE  TextsOf(s)' = TextsOf(s) /\ TextsTo(s)' = TextsTo(s) /\ AnswersSent(s)' = AnswersSent(s)
<1>1. /\ TextsOf(s)' = Kept(chat', Texts({s})) /\ TextsTo(s)' = Kept(sent'[s], Texts(Sockets \cup {0}))
      /\ AnswersSent(s)' = Kept(sent'[s], Answers)
  BY DEF TextsOf, TextsTo, AnswersSent, Texts, Answers, Message
<1> QED
  BY <1>1 DEF TextsOf, TextsTo, AnswersSent

-----------------------------------------------------------------------------
(* The invariant holds at first, and each part is kept by every step.      *)
LEMMA InitInv == Init => Inv
<1> SUFFICES ASSUME Init PROVE Inv
  OBVIOUS
<1>1. TypeInv
  <2>1. Cardinality({}) = 0
    BY FS_EmptySet
  <2>2. Len(<<>>) = 0 /\ \A S : <<>> \in Seq(S)
    OBVIOUS
  <2>3. FunctionTypes
    BY <2>2 DEF Init, FunctionTypes
  <2>4. TypeOK
    <3>1. \A s \in Sockets : joined[s] \in 0..Len(chat)
      <4> SUFFICES ASSUME NEW s \in Sockets PROVE joined[s] \in 0..Len(chat)
        OBVIOUS
      <4>1. joined[s] = 0 /\ chat = <<>>
        BY DEF Init
      <4>2. 0 \in 0..Len(<<>>)
        OBVIOUS
      <4> QED
        BY <4>1, <4>2, Zenon
    <3>2. server = {} /\ Cardinality(server) <= 1
      BY <2>1 DEF Init
    <3>3. /\ netServer \in [Servers -> {"none", "binding", "listening", "failed", "closing", "closed"}]
          /\ clients \cup failed \cup stranded \subseteq Sockets
          /\ socket \in [Sockets -> {"none", "open", "destroyed", "closed"}]
          /\ isUpgraded \in [Sockets -> BOOLEAN] /\ listener \in BOOLEAN
      BY DEF Init
    <3> QED
      BY <3>1, <3>2, <3>3 DEF TypeOK
  <2> QED
    BY <2>3, <2>4 DEF TypeInv
<1>2. FreshInv
  BY DEF Init, FreshInv, Numbered, MadeOf
<1>3. ASSUME NEW s \in Sockets PROVE TextsOf(s) = <<>> /\ TextsTo(s) = <<>> /\ AnswersSent(s) = <<>>
  <2>1. chat = <<>> /\ sent[s] = <<>>
    BY DEF Init
  <2> QED
    BY <2>1, KeptNothing, Zenon DEF TextsOf, TextsTo, AnswersSent
<1>4. FrameInv
  <2> SUFFICES ASSUME NEW s \in Sockets
               PROVE  arrived[s] <= Len(Input(s)) /\ Untouched(s) /\ ~isUpgraded[s] /\ s \notin failed
    BY DEF FrameInv, FrameOf
  <2>1. arrived[s] = 0 /\ rawBuffer[s] = <<>> /\ ~isUpgraded[s] /\ s \notin failed
    BY DEF Init
  <2>2. Input(s) \in Seq(InputTokens) /\ Len(Input(s)) \in Nat
    <3>1. Input(s) \in Seq(InputTokens)
      BY <1>1, InputType
    <3> QED
      BY <3>1
  <2>3. SubSeq(Input(s), 1, 0) = <<>>
    BY <2>2
  <2> QED
    BY <1>3, <2>1, <2>2, <2>3 DEF Untouched
<1>5. EveryoneHears
  <2> SUFFICES ASSUME NEW s \in Sockets
               PROVE  LET others == Kept(SubSeq(chat, joined[s] + 1, Len(chat)), Texts(OthersThan(s)))
                      IN  (s \in clients => TextsTo(s) = others) /\ IsPrefix(TextsTo(s), others)
    BY DEF EveryoneHears
  <2> DEFINE others == Kept(SubSeq(chat, joined[s] + 1, Len(chat)), Texts(OthersThan(s)))
  <2>1. chat = <<>> /\ clients = {} /\ joined[s] = 0
    BY DEF Init
  <2>2. SubSeq(<<>>, 0 + 1, Len(<<>>)) = <<>>
    OBVIOUS
  <2>3. others = <<>>
    <3>1. SubSeq(chat, joined[s] + 1, Len(chat)) = <<>>
      BY <2>1, <2>2, Zenon
    <3> QED
      BY <3>1, KeptNothing, Zenon
  <2>4. IsPrefix(<<>>, <<>>)
    <3>1. <<>> \in Seq({})
      OBVIOUS
    <3> QED
      BY <3>1, PrefixLonger
  <2> HIDE DEF others
  <2>5. s \notin clients /\ IsPrefix(TextsTo(s), others)
    BY <1>3, <2>1, <2>3, <2>4, Zenon
  <2> QED
    BY <2>5 DEF others
<1>6. ClientsConnected /\ ServerInv
  BY DEF Init, ClientsConnected, ServerInv
<1> QED
  BY <1>1, <1>2, <1>4, <1>5, <1>6 DEF Inv

(* Types are kept.                                                         *)
LEMMA TypeStep == TypeInv /\ FrameInv /\ [Next]_vars => TypeInv'
<1> SUFFICES ASSUME TypeInv, FrameInv, [Next]_vars PROVE TypeInv'
  OBVIOUS
<1>0. /\ server \subseteq Servers /\ Cardinality(server) <= 1
      /\ netServer \in [Servers -> {"none", "binding", "listening", "failed", "closing", "closed"}]
      /\ clients \cup failed \cup stranded \subseteq Sockets
      /\ socket \in [Sockets -> {"none", "open", "destroyed", "closed"}]
      /\ isUpgraded \in [Sockets -> BOOLEAN] /\ listener \in BOOLEAN
      /\ \A s \in Sockets : joined[s] \in 0..Len(chat)
      /\ headers \in [Sockets -> Seq(HeaderLines)]
      /\ \A s \in Sockets : socket[s] # "none" => headers[s] \in ClientHeaders
      /\ frames \in [Sockets -> Seq(ClientFrames)]
      /\ arrived \in [Sockets -> Nat] /\ DOMAIN rawBuffer = Sockets /\ joined \in [Sockets -> Nat]
      /\ sent \in [Sockets -> Seq(Messages)] /\ chat \in Seq(Texts(Senders))
  BY DEF TypeInv, TypeOK, FunctionTypes
<1>00. Cardinality({}) = 0 /\ \A n : Cardinality({n}) = 1
  BY FS_EmptySet, FS_Singleton
<1> USE <1>0, <1>00 DEF serverVars, inputVars
<1> DEFINE Objects ==
             /\ server' \subseteq Servers /\ Cardinality(server') <= 1
             /\ netServer' \in [Servers -> {"none", "binding", "listening", "failed", "closing", "closed"}]
             /\ listener' \in BOOLEAN
             /\ clients' \cup failed' \cup stranded' \subseteq Sockets
             /\ socket' \in [Sockets -> {"none", "open", "destroyed", "closed"}]
             /\ isUpgraded' \in [Sockets -> BOOLEAN]
           Streams ==
             /\ headers' \in [Sockets -> Seq(HeaderLines)]
             /\ \A s \in Sockets : socket'[s] # "none" => headers'[s] \in ClientHeaders
             /\ frames' \in [Sockets -> Seq(ClientFrames)]
             /\ arrived' \in [Sockets -> Nat] /\ DOMAIN rawBuffer' = Sockets
           Told ==
             /\ joined' \in [Sockets -> Nat] /\ \A s \in Sockets : joined'[s] \in 0..Len(chat')
             /\ sent' \in [Sockets -> Seq(Messages)] /\ chat' \in Seq(Texts(Senders))
<1>1. ASSUME Objects, Streams, Told PROVE TypeInv'
  <2>1. TypeOK'
    BY <1>1 DEF TypeOK
  <2>2. FunctionTypes'
    BY <1>1 DEF FunctionTypes, Messages, Texts, Senders, Answers, Notices, Message, HeaderLines, ClientFrames,
                ClientHeaders
  <2> QED
    BY <2>1, <2>2 DEF TypeInv
<1> HIDE DEF Objects, Streams, Told
<1>2. UNCHANGED <<headers, frames, arrived, rawBuffer, socket>> => Streams
  BY DEF Streams
<1>3. ASSUME NEW x, NEW said, NEW members, Effects(x, said, members), UNCHANGED joined PROVE Told
  <2>1. /\ chat' \in Seq(Texts(Senders)) /\ sent' \in [Sockets -> Seq(Messages)]
        /\ Len(chat') = Len(chat) + Len(said) /\ Len(chat) \in Nat /\ Len(said) \in Nat
    BY <1>3 DEF Effects
  <2>2. \A s \in Sockets : joined'[s] \in 0..Len(chat')
    BY <1>3, <2>1
  <2> QED
    BY <1>3, <2>1, <2>2 DEF Told
<1>4. CASE Quiet
  <2>1. /\ UNCHANGED <<headers, frames, arrived, isUpgraded, rawBuffer, failed, sent, chat, joined, stranded>>
        /\ listener' \in BOOLEAN /\ clients' \subseteq clients
        /\ socket' \in [Sockets -> {"none", "open", "destroyed", "closed"}]
        /\ \A s \in Sockets : socket'[s] # "none" => socket[s] # "none"
    BY <1>4 DEF Quiet, SocketMoves
  <2>2. /\ server' \subseteq Servers /\ Cardinality(server') <= 1
        /\ netServer' \in [Servers -> {"none", "binding", "listening", "failed", "closing", "closed"}]
    <3>1. CASE UNCHANGED <<server, netServer, unruly>>
      BY <3>1
    <3>2. ASSUME NEW n \in Servers, Start(n) 
              PROVE  /\ server' \subseteq Servers /\ Cardinality(server') <= 1
                     /\ netServer' \in [Servers -> {"none", "binding", "listening", "failed", "closing", "closed"}]
      <4>1. server' = {n} /\ netServer' = [netServer EXCEPT ![n] = "binding"]
        BY <3>2 DEF Start, RecordAfterStart
      <4>2. Cardinality(server') = 1 /\ server' \subseteq Servers
        BY <4>1, FS_Singleton
      <4>3. netServer' \in [Servers -> {"none", "binding", "listening", "failed", "closing", "closed"}]
        BY <4>1
      <4> QED
        BY <4>2, <4>3
    <3>3. ASSUME NEW n \in Servers, Bind(n) \/ ServerClosed(n) 
              PROVE  /\ server' \subseteq Servers /\ Cardinality(server') <= 1
                     /\ netServer' \in [Servers -> {"none", "binding", "listening", "failed", "closing", "closed"}]
      <4>1. UNCHANGED server
        BY <3>3 DEF Bind, ServerClosed
      <4>2. netServer' \in [Servers -> {"none", "binding", "listening", "failed", "closing", "closed"}]
        BY <3>3 DEF Bind, ServerClosed
      <4> QED
        BY <4>1, <4>2
    <3> QED
      BY <1>4, <3>1, <3>2, <3>3 DEF Quiet, ServerMoves
  <2>3. Objects
    BY <2>1, <2>2 DEF Objects
  <2>4. Streams
    BY <2>1 DEF Streams
  <2>5. Told
    BY <2>1 DEF Told
  <2> QED
    BY <1>1, <2>3, <2>4, <2>5
<1>5. ASSUME NEW m \in Announcements, Announce(m) PROVE TypeInv'
  <2>1. UNCHANGED <<server, netServer, clients, listener, socket, headers, frames, arrived, isUpgraded,
                    rawBuffer, failed, stranded, joined>>
    BY <1>5 DEF Announce
  <2>2. Told
    BY <1>3, <1>5, <2>1, AnnounceEffects
  <2>3. Objects
    BY <2>1 DEF Objects
  <2> QED
    BY <1>1, <1>2, <2>1, <2>2, <2>3
<1>6. CASE Stop
  <2>1. /\ UNCHANGED <<listener, socket, headers, frames, arrived, isUpgraded, rawBuffer, failed, joined>>
        /\ server' = {} /\ clients' = {} /\ stranded' = stranded \cup {s \in Sockets \ clients : socket[s] = "open"}
        /\ netServer' = [n \in Servers |-> IF n \in server /\ netServer[n] = "listening"
                                           THEN "closing" ELSE netServer[n]]
    BY <1>6 DEF Stop, ClientsAfterStop
  <2>2. Told
    BY <1>3, <1>6, <2>1, StopEffects
  <2>3. Objects
    BY <2>1 DEF Objects
  <2> QED
    BY <1>1, <1>2, <2>1, <2>2, <2>3
<1>7. ASSUME NEW s \in Sockets, Accept(s) PROVE TypeInv'
  <2>1. PICK h \in Upgrades[s], f \in Frames[s] :
          headers' = [headers EXCEPT ![s] = h] /\ frames' = [frames EXCEPT ![s] = f]
    BY <1>7 DEF Accept
  <2>2. /\ socket' = [socket EXCEPT ![s] = "open"]
        /\ UNCHANGED <<server, netServer, clients, listener, arrived, isUpgraded, rawBuffer, failed, stranded,
                       sent, chat, joined>>
    BY <1>7 DEF Accept
  <2>3. h \in ClientHeaders /\ h \in Seq(HeaderLines) /\ f \in Seq(ClientFrames)
    BY ClientsAssumption DEF ClientHeaders
  <2>4. \A r \in Sockets : socket'[r] # "none" => headers'[r] \in ClientHeaders
    BY <2>1, <2>2, <2>3
  <2>5. Streams
    BY <2>1, <2>2, <2>3, <2>4 DEF Streams
  <2>6. Objects
    BY <2>2 DEF Objects
  <2>7. Told
    BY <2>2 DEF Told
  <2> QED
    BY <1>1, <2>5, <2>6, <2>7
<1>8. ASSUME NEW s \in Sockets, Data(s) PROVE TypeInv'
  <2>1. PICK last : /\ Arrives(s, last)
                    /\ \/ Waits(s, last)
                       \/ \E members, greeting, loop : HandlesFor(s, last, members, greeting, loop)
    BY <1>8, DataEvent
  <2>2. /\ UNCHANGED <<server, netServer, stranded, listener, headers, frames>>
        /\ arrived' = [arrived EXCEPT ![s] = last] /\ last \in Nat /\ socket[s] = "open"
    BY <2>1 DEF Arrives
  <2>3. CASE Waits(s, last)
    <3>1. /\ rawBuffer' = [rawBuffer EXCEPT ![s] = SubSeq(Input(s), 1, last)]
          /\ UNCHANGED <<clients, socket, isUpgraded, failed, chat, joined>>
      BY <2>3 DEF Waits
    <3>2. Told
      BY <1>3, <2>3, <3>1, WaitsEffects
    <3>3. Objects
      BY <2>2, <3>1 DEF Objects
    <3>4. Streams
      BY <2>2, <3>1 DEF Streams
    <3> QED
      BY <1>1, <3>2, <3>3, <3>4
  <2>4. ASSUME NEW members, NEW greeting, NEW loop, HandlesFor(s, last, members, greeting, loop)
        PROVE  TypeInv'
    <3>1. /\ clients' = IF loop.threw THEN members \ {s} ELSE members
          /\ socket' = [socket EXCEPT ![s] = IF loop.threw THEN "destroyed" ELSE @]
          /\ failed' = IF loop.threw THEN failed \cup {s} ELSE failed
          /\ isUpgraded' = [isUpgraded EXCEPT ![s] = TRUE]
          /\ rawBuffer' = [rawBuffer EXCEPT ![s] = loop.rest]
          /\ members = clients \cup {s} \/ members = clients
          /\ joined' = [joined EXCEPT ![s] = Len(chat)] \/ joined' = joined
      BY <2>4 DEF HandlesFor
    <3>2. /\ chat' \in Seq(Texts(Senders)) /\ sent' \in [Sockets -> Seq(Messages)]
          /\ \E d \in Nat : Len(chat') = Len(chat) + d /\ Len(chat) \in Nat
      BY <2>4, HandlesEffects DEF Effects
    <3>3. joined' \in [Sockets -> Nat] /\ \A r \in Sockets : joined'[r] \in 0..Len(chat)
      <4> DEFINE l == Len(chat)
      <4>1. l \in Nat /\ joined \in [Sockets -> Nat] /\ \A r \in Sockets : joined[r] \in 0..l
        BY <3>2
      <4>2. joined' = [joined EXCEPT ![s] = l] \/ joined' = joined
        BY <3>1
      <4> HIDE <1>0
      <4> HIDE DEF l
      <4>3. joined' \in [Sockets -> Nat] /\ \A r \in Sockets : joined'[r] \in 0..l
        BY <4>1, <4>2
      <4> QED
        BY <4>3 DEF l
    <3>4. \A r \in Sockets : joined'[r] \in 0..Len(chat')
      BY <3>2, <3>3
    <3>5. Told
      BY <3>2, <3>3, <3>4 DEF Told
    <3>6. Objects
      <4>1. members \subseteq Sockets /\ s \in Sockets
        BY <3>1
      <4>2. clients' \cup failed' \cup stranded' \subseteq Sockets
        BY <2>2, <3>1, <4>1
      <4>3. socket' \in [Sockets -> {"none", "open", "destroyed", "closed"}]
        BY <3>1
      <4> QED
        BY <2>2, <3>1, <4>2, <4>3 DEF Objects
    <3>7. Streams
      BY <2>2, <3>1 DEF Streams
    <3> QED
      BY <1>1, <3>5, <3>6, <3>7
  <2> QED
    BY <2>1, <2>3, <2>4
<1> QED
  BY <1>4, <1>5, <1>6, <1>7, <1>8, StepKinds DEF Speaks

(* A connection that was not made stays untouched.                         *)
LEMMA FreshStep == TypeInv /\ FrameInv /\ FreshInv /\ [Next]_vars => FreshInv'
<1> SUFFICES ASSUME TypeInv, FrameInv, FreshInv, [Next]_vars PROVE FreshInv'
  OBVIOUS
<1>0. /\ socket \in [Sockets -> {"none", "open", "destroyed", "closed"}]
      /\ arrived \in [Sockets -> Nat] /\ DOMAIN rawBuffer = Sockets /\ isUpgraded \in [Sockets -> BOOLEAN]
  BY DEF TypeInv, TypeOK, FunctionTypes
<1>1. ASSUME socket' \in [Sockets -> {"none", "open", "destroyed", "closed"}],
             \A s \in Sockets : socket'[s] = "none" <=> socket[s] = "none",
             \A s \in Sockets : socket[s] = "none" =>
               arrived'[s] = arrived[s] /\ rawBuffer'[s] = rawBuffer[s] /\ isUpgraded'[s] = isUpgraded[s]
      PROVE  FreshInv'
  <2>1. MadeOf(socket') = MadeOf(socket)
    BY <1>0, <1>1 DEF MadeOf
  <2>2. Numbered(socket')
    BY <2>1 DEF FreshInv, Numbered
  <2>3. Numbered(socket)'
    BY <2>2 DEF Numbered, MadeOf
  <2> QED
    BY <1>1, <2>3 DEF FreshInv
<1>2. CASE Quiet
  BY <1>1, <1>2 DEF Quiet, SocketMoves
<1>3. CASE Stop \/ \E m \in Announcements : Announce(m)
  <2>1. UNCHANGED <<socket, arrived, rawBuffer, isUpgraded>>
    BY <1>3 DEF Stop, Announce, inputVars
  <2> QED
    BY <1>0, <1>1, <2>1
<1>4. ASSUME NEW s \in Sockets, Accept(s) PROVE FreshInv'
  <2>1. /\ socket' = [socket EXCEPT ![s] = "open"] /\ NextToMake(socket, s)
        /\ UNCHANGED <<arrived, rawBuffer, isUpgraded>>
    BY <1>4 DEF Accept
  <2>2. MadeOf(socket') = MadeOf(socket) \cup {s}
    BY <1>0, <2>1 DEF MadeOf
  <2>3. Numbered(socket')
    <3>1. DOMAIN socket = Sockets /\ Numbered(socket)
      BY <1>0 DEF FreshInv
    <3> QED
      BY <2>1, <2>2, <3>1, StillNumbered, ObjectsAssumption
  <2>4. \A r \in Sockets : socket'[r] = "none" => socket[r] = "none"
    BY <1>0, <2>1
  <2>5. Numbered(socket)'
    BY <2>3 DEF Numbered, MadeOf
  <2> QED
    BY <2>1, <2>4, <2>5 DEF FreshInv
<1>5. ASSUME NEW s \in Sockets, Data(s) PROVE FreshInv'
  <2>1. PICK last : /\ Arrives(s, last)
                    /\ \/ Waits(s, last)
                       \/ \E members, greeting, loop : HandlesFor(s, last, members, greeting, loop)
    BY <1>5, DataEvent
  <2>2. arrived' = [arrived EXCEPT ![s] = last] /\ socket[s] = "open"
    BY <2>1 DEF Arrives
  <2>3. \A r \in Sockets \ {s} : /\ arrived'[r] = arrived[r] /\ rawBuffer'[r] = rawBuffer[r]
                                 /\ isUpgraded'[r] = isUpgraded[r] /\ socket'[r] = socket[r]
    BY <1>0, <2>1, <2>2 DEF Waits, HandlesFor
  <2>4. socket' \in [Sockets -> {"none", "open", "destroyed", "closed"}] /\ socket'[s] # "none"
    BY <1>0, <2>1, <2>2 DEF Waits, HandlesFor
  <2> QED
    BY <1>1, <2>2, <2>3, <2>4
<1> QED
  BY <1>2, <1>3, <1>4, <1>5, StepKinds DEF Speaks

(* Nothing has arrived on a connection to which nothing happens; it may be *)
(* told something after its upgrade.                                       *)
LEMMA FrameKept ==
  ASSUME NEW s \in Sockets, FrameOf(s),
         headers'[s] = headers[s], frames'[s] = frames[s], arrived'[s] = arrived[s],
         rawBuffer'[s] = rawBuffer[s], isUpgraded'[s] = isUpgraded[s], s \in failed' <=> s \in failed,
         socket[s] \in {"destroyed", "closed"} => socket'[s] \in {"destroyed", "closed"},
         TextsOf(s)' = TextsOf(s), AnswersSent(s)' = AnswersSent(s),
         isUpgraded[s] \/ TextsTo(s)' = TextsTo(s)
  PROVE  FrameOf(s)'
<1>1. Input(s)' = Input(s)
  BY DEF Input
<1>2. arrived'[s] <= Len(Input(s)')
  BY <1>1 DEF FrameOf
<1>3. ASSUME ~isUpgraded'[s] PROVE Untouched(s)'
  <2>1. Untouched(s) /\ TextsTo(s)' = TextsTo(s)
    BY <1>3 DEF FrameOf
  <2> QED
    BY <1>1, <2>1 DEF Untouched
<1>4. ASSUME isUpgraded'[s], s \notin failed' PROVE HandledSoFar(s)'
  <2>1. HandledSoFar(s)
    BY <1>4 DEF FrameOf
  <2> QED
    BY <2>1 DEF HandledSoFar
<1>5. s \in failed' => socket'[s] \in {"destroyed", "closed"}
  BY DEF FrameOf
<1> QED
  BY <1>2, <1>3, <1>4, <1>5 DEF FrameOf

(* Someone else speaks, or nobody does.                                    *)
LEMMA FrameOfOthers ==
  ASSUME TypeInv, ClientsConnected, NEW s \in Sockets, FrameOf(s), NEW x, NEW said, NEW members,
         Effects(x, said, members), s # x, s \in members => s \in clients,
         headers'[s] = headers[s], frames'[s] = frames[s], arrived'[s] = arrived[s],
         rawBuffer'[s] = rawBuffer[s], isUpgraded'[s] = isUpgraded[s], s \in failed' <=> s \in failed,
         socket'[s] = socket[s]
  PROVE  FrameOf(s)'
<1>1. /\ TextsOf(s)' = TextsOf(s) /\ AnswersSent(s)' = AnswersSent(s)
      /\ TextsTo(s)' = TextsTo(s) \o (IF s \in members /\ s # x THEN said ELSE <<>>)
  BY DEF Effects
<1>2. isUpgraded[s] \/ TextsTo(s)' = TextsTo(s)
  <2>1. s \in clients => isUpgraded[s]
    BY DEF ClientsConnected
  <2>2. TextsTo(s) \o <<>> = TextsTo(s)
    BY KeptSoFar
  <2> QED
    BY <1>1, <2>1, <2>2, Zenon
<1> QED
  BY <1>1, <1>2, FrameKept

(* The speaker's own.                                                      *)
LEMMA FrameOfWaiting ==
  ASSUME TypeInv, NEW s \in Sockets, FrameOf(s), NEW last, Arrives(s, last), Waits(s, last)
  PROVE  FrameOf(s)'
<1>1. /\ last <= Len(Input(s)) /\ arrived' = [arrived EXCEPT ![s] = last]
      /\ UNCHANGED <<headers, frames>> /\ socket[s] = "open"
      /\ ~isUpgraded[s] /\ rawBuffer' = [rawBuffer EXCEPT ![s] = SubSeq(Input(s), 1, last)]
      /\ UNCHANGED <<isUpgraded, failed>>
      /\ arrived \in [Sockets -> Nat] /\ DOMAIN rawBuffer = Sockets
  BY DEF Arrives, Waits, TypeInv, FunctionTypes
<1>2. Effects(0, <<>>, {})
  BY NoticeEffects DEF Waits
<1>3. 0 # s
  BY ObjectsAssumption
<1>4. Input(s)' = Input(s)
  BY <1>1 DEF Input
<1>5. TextsTo(s)' = TextsTo(s) /\ TextsOf(s)' = TextsOf(s) /\ AnswersSent(s)' = AnswersSent(s)
  <2>1. TextsTo(s)' = TextsTo(s) \o <<>>
    BY <1>2 DEF Effects
  <2>2. TextsTo(s) \o <<>> = TextsTo(s)
    BY KeptSoFar
  <2>3. TextsOf(s)' = TextsOf(s) /\ AnswersSent(s)' = AnswersSent(s)
    BY <1>2, <1>3 DEF Effects
  <2> QED
    BY <2>1, <2>2, <2>3, Zenon
<1>6. Untouched(s) /\ s \notin failed
  BY <1>1 DEF FrameOf
<1>7. arrived'[s] = last /\ rawBuffer'[s] = SubSeq(Input(s), 1, last)
  BY <1>1
<1>8. Untouched(s)'
  BY <1>4, <1>5, <1>6, <1>7 DEF Untouched
<1> QED
  BY <1>1, <1>4, <1>6, <1>7, <1>8 DEF FrameOf

(* Its frames are handled.                                                 *)
LEMMA FrameOfHandling ==
  ASSUME TypeInv, NEW s \in Sockets, FrameOf(s), NEW last, NEW members, NEW greeting, NEW loop,
         Arrives(s, last), HandlesFor(s, last, members, greeting, loop)
  PROVE  FrameOf(s)'
<1>1. /\ last <= Len(Input(s)) /\ arrived' = [arrived EXCEPT ![s] = last]
      /\ UNCHANGED <<headers, frames>> /\ socket[s] = "open"
      /\ arrived \in [Sockets -> Nat] /\ DOMAIN rawBuffer = Sockets
      /\ socket \in [Sockets -> {"none", "open", "destroyed", "closed"}]
      /\ isUpgraded \in [Sockets -> BOOLEAN]
  BY DEF Arrives, TypeInv, TypeOK, FunctionTypes
<1>2. /\ socket' = [socket EXCEPT ![s] = IF loop.threw THEN "destroyed" ELSE @]
      /\ failed' = IF loop.threw THEN failed \cup {s} ELSE failed
      /\ isUpgraded' = [isUpgraded EXCEPT ![s] = TRUE]
      /\ rawBuffer' = [rawBuffer EXCEPT ![s] = loop.rest]
      /\ Len(headers[s]) <= last
      /\ ~loop.threw => Framed(s, frames[s], last - Len(headers[s]), loop.rest,
                               TextsOf(s) \o Said(s, loop.texts), AnswersSent(s) \o loop.answers)
  BY DEF HandlesFor
<1>3. TextsOf(s)' = TextsOf(s) \o Said(s, loop.texts) /\ AnswersSent(s)' = AnswersSent(s) \o loop.answers
  <2>1. Effects(s, Said(s, loop.texts), members) /\ AnswersSent(s)' = AnswersSent(s) \o loop.answers
    BY HandlesEffects, Zenon
  <2>2. TextsOf(s)' = TextsOf(s) \o Said(s, loop.texts)
    BY <2>1, Zenon DEF Effects
  <2> QED
    BY <2>1, <2>2
<1>4. Input(s)' = Input(s)
  BY <1>1 DEF Input
<1>5. arrived'[s] = last /\ rawBuffer'[s] = loop.rest /\ isUpgraded'[s] /\ headers'[s] = headers[s]
      /\ frames'[s] = frames[s]
  BY <1>1, <1>2
<1>6. s \notin failed
  BY <1>1 DEF FrameOf
<1>7. CASE loop.threw
  <2>1. s \in failed' /\ socket'[s] = "destroyed"
    BY <1>1, <1>2, <1>7
  <2> QED
    BY <1>1, <1>4, <1>5, <2>1 DEF FrameOf
<1>8. CASE ~loop.threw
  <2>1. s \notin failed'
    BY <1>2, <1>6, <1>8
  <2>2. Framed(s, frames'[s], arrived'[s] - Len(headers'[s]), rawBuffer'[s], TextsOf(s)', AnswersSent(s)')
    BY <1>2, <1>3, <1>5, <1>8, Zenon
  <2>3. HandledSoFar(s)'
    BY <1>2, <1>5, <2>2 DEF HandledSoFar
  <2> QED
    BY <1>1, <1>4, <1>5, <2>1, <2>3 DEF FrameOf
<1> QED
  BY <1>7, <1>8

(* Chunk after chunk, what has come whole is handled.                      *)
LEMMA FrameStep == TypeInv /\ FreshInv /\ FrameInv /\ ClientsConnected /\ [Next]_vars => FrameInv'
<1> SUFFICES ASSUME TypeInv, FreshInv, FrameInv, ClientsConnected, [Next]_vars, NEW s \in Sockets
             PROVE  FrameOf(s)'
  BY DEF FrameInv
<1>0. /\ FrameOf(s) /\ 0 # s
      /\ socket \in [Sockets -> {"none", "open", "destroyed", "closed"}]
      /\ arrived \in [Sockets -> Nat] /\ DOMAIN rawBuffer = Sockets /\ isUpgraded \in [Sockets -> BOOLEAN]
      /\ headers \in [Sockets -> Seq(HeaderLines)] /\ frames \in [Sockets -> Seq(ClientFrames)]
  BY ObjectsAssumption DEF FrameInv, TypeInv, TypeOK, FunctionTypes
<1>1. CASE Quiet
  <2>1. /\ UNCHANGED <<headers, frames, arrived, isUpgraded, rawBuffer, failed, sent, chat>>
        /\ socket[s] \in {"destroyed", "closed"} => socket'[s] \in {"destroyed", "closed"}
    BY <1>1 DEF Quiet, SocketMoves
  <2>2. TextsOf(s)' = TextsOf(s) /\ TextsTo(s)' = TextsTo(s) /\ AnswersSent(s)' = AnswersSent(s)
    BY <2>1, QuietEffects
  <2> QED
    BY <1>0, <2>1, <2>2, FrameKept
<1>2. ASSUME NEW m \in Announcements, Announce(m) PROVE FrameOf(s)'
  <2>1. UNCHANGED <<headers, frames, arrived, isUpgraded, rawBuffer, failed, socket>>
    BY <1>2 DEF Announce, inputVars
  <2>2. Effects(0, <<Text(0, m)>>, clients)
    BY <1>2, AnnounceEffects
  <2> QED
    BY <1>0, <2>1, <2>2, FrameOfOthers
<1>3. CASE Stop
  <2>1. UNCHANGED <<headers, frames, arrived, isUpgraded, rawBuffer, failed, socket>>
    BY <1>3 DEF Stop, inputVars
  <2>2. Effects(0, <<>>, clients)
    BY <1>3, StopEffects
  <2> QED
    BY <1>0, <2>1, <2>2, FrameOfOthers
<1>4. ASSUME NEW r \in Sockets, Accept(r) PROVE FrameOf(s)'
  <2>1. /\ socket' = [socket EXCEPT ![r] = "open"] /\ NextToMake(socket, r)
        /\ UNCHANGED <<arrived, isUpgraded, rawBuffer, failed, sent, chat>>
        /\ \E h \in Upgrades[r], f \in Frames[r] :
             headers' = [headers EXCEPT ![r] = h] /\ frames' = [frames EXCEPT ![r] = f]
    BY <1>4 DEF Accept
  <2>2. TextsOf(s)' = TextsOf(s) /\ TextsTo(s)' = TextsTo(s) /\ AnswersSent(s)' = AnswersSent(s)
    BY <2>1, QuietEffects
  <2>3. socket[r] = "none"
    <3>1. DOMAIN socket = Sockets /\ Numbered(socket)
      BY <1>0 DEF FreshInv
    <3> QED
      BY <2>1, <3>1, NewIsUnused, ObjectsAssumption
  <2>4. CASE s # r
    BY <1>0, <2>1, <2>2, <2>4, FrameKept
  <2>5. CASE s = r
    <3>1. arrived'[s] = 0 /\ rawBuffer'[s] = <<>> /\ ~isUpgraded'[s] /\ s \notin failed' /\ ~isUpgraded[s]
      BY <1>0, <2>1, <2>3, <2>5 DEF FreshInv, FrameOf
    <3>2. TextsOf(s)' = <<>> /\ TextsTo(s)' = <<>> /\ AnswersSent(s)' = <<>>
      BY <1>0, <2>2, <3>1 DEF FrameOf, Untouched
    <3>3. PICK h \in ClientHeaders, f \in Seq(ClientFrames) : headers'[s] = h /\ frames'[s] = f
      BY <1>0, <2>1, <2>5, ClientsAssumption
    <3>4. Input(s)' = InputOf(h, f)
      BY <3>3 DEF Input, InputOf
    <3>5. InputOf(h, f) \in Seq(InputTokens)
      BY InputShape DEF ClientHeaders
    <3>6. 0 <= Len(InputOf(h, f)) /\ SubSeq(InputOf(h, f), 1, 0) = <<>>
      BY <3>5
    <3>7. arrived'[s] <= Len(Input(s)')
      BY <3>1, <3>4, <3>6, Zenon
    <3>8. rawBuffer'[s] = SubSeq(Input(s)', 1, arrived'[s])
      BY <3>1, <3>4, <3>6, Zenon
    <3> QED
      BY <3>1, <3>2, <3>7, <3>8 DEF FrameOf, Untouched
  <2> QED
    BY <2>4, <2>5
<1>5. ASSUME NEW r \in Sockets, Data(r) PROVE FrameOf(s)'
  <2>1. PICK last : /\ Arrives(r, last)
                    /\ \/ Waits(r, last)
                       \/ \E members, greeting, loop : HandlesFor(r, last, members, greeting, loop)
    BY <1>5, DataEvent
  <2>2. arrived' = [arrived EXCEPT ![r] = last] /\ UNCHANGED <<headers, frames>> /\ socket[r] = "open"
    BY <2>1 DEF Arrives
  <2>3. CASE Waits(r, last)
    <3>1. /\ rawBuffer' = [rawBuffer EXCEPT ![r] = SubSeq(Input(r), 1, last)]
          /\ UNCHANGED <<clients, socket, isUpgraded, failed, chat, joined>>
      BY <2>3 DEF Waits
    <3>2. Effects(0, <<>>, clients)
      BY <2>3, WaitsEffects
    <3>3. CASE s # r
      BY <1>0, <2>2, <3>1, <3>2, <3>3, FrameOfOthers
    <3>4. CASE s = r
      BY <1>0, <2>1, <2>3, <3>4, FrameOfWaiting
    <3> QED
      BY <3>3, <3>4
  <2>4. ASSUME NEW members, NEW greeting, NEW loop, HandlesFor(r, last, members, greeting, loop)
        PROVE  FrameOf(s)'
    <3>1. /\ rawBuffer' = [rawBuffer EXCEPT ![r] = loop.rest]
          /\ socket' = [socket EXCEPT ![r] = IF loop.threw THEN "destroyed" ELSE @]
          /\ failed' = IF loop.threw THEN failed \cup {r} ELSE failed
          /\ isUpgraded' = [isUpgraded EXCEPT ![r] = TRUE]
          /\ members = clients \cup {r} \/ members = clients
      BY <2>4 DEF HandlesFor
    <3>2. Effects(r, Said(r, loop.texts), members)
      BY <2>4, HandlesEffects, Zenon
    <3>3. CASE s # r
      <4>1. /\ headers'[s] = headers[s] /\ frames'[s] = frames[s] /\ arrived'[s] = arrived[s]
            /\ rawBuffer'[s] = rawBuffer[s] /\ isUpgraded'[s] = isUpgraded[s] /\ (s \in failed' <=> s \in failed)
            /\ socket'[s] = socket[s] /\ (s \in members => s \in clients)
        BY <1>0, <2>2, <3>1, <3>3
      <4> QED
        BY <1>0, <3>2, <3>3, <4>1, FrameOfOthers
    <3>4. CASE s = r
      BY <1>0, <2>1, <2>4, <3>4, FrameOfHandling
    <3> QED
      BY <3>3, <3>4
  <2> QED
    BY <2>1, <2>3, <2>4
<1> QED
  BY <1>1, <1>2, <1>3, <1>4, <1>5, StepKinds DEF Speaks

(* What one connection hears of the others since its upgrade.              *)
OthersSince(s) == Kept(SubSeq(chat, joined[s] + 1, Len(chat)), Texts(OthersThan(s)))
Hears(s) ==
  /\ s \in clients => TextsTo(s) = OthersSince(s)
  /\ IsPrefix(TextsTo(s), OthersSince(s))

(* That is what EveryoneHears says, in every state.                        *)
LEMMA EveryoneIsEach == EveryoneHears <=> \A s \in Sockets : Hears(s)
  BY DEF EveryoneHears, Hears, OthersSince

(* And in the next.                                                        *)
LEMMA EveryoneIsEachNext == EveryoneHears' <=> \A s \in Sockets : Hears(s)'
<1>1. EveryoneHears' <=>
        \A s \in Sockets : /\ s \in clients' => TextsTo(s)' = OthersSince(s)'
                           /\ IsPrefix(TextsTo(s)', OthersSince(s)')
  BY DEF EveryoneHears, OthersSince
<1> QED
  BY <1>1 DEF Hears

(* What is behind a place in a sequence that grows.                        *)
LEMMA RestLonger ==
  ASSUME NEW S, NEW s \in Seq(S), NEW t \in Seq(S), NEW j \in 0..Len(s)
  PROVE  SubSeq(s \o t, j + 1, Len(s \o t)) = SubSeq(s, j + 1, Len(s)) \o t
<1> DEFINE st == s \o t
           m == Len(s)
           n == Len(t)
           x == SubSeq(st, j + 1, Len(st))
           y == SubSeq(s, j + 1, m)
           w == y \o t
<1>1. /\ st \in Seq(S) /\ Len(st) = m + n
      /\ \A i \in 1..m : st[i] = s[i]
      /\ \A i \in 1..n : st[m + i] = t[i]
  BY Joined
<1>2. m \in Nat /\ n \in Nat /\ j \in Nat /\ j <= m
  OBVIOUS
<1>3. y \in Seq(S) /\ Len(y) = m - j /\ \A i \in 1..(m - j) : y[i] = s[j + i]
  BY Dropped
<1> HIDE DEF st
<1>4. x \in Seq(S) /\ Len(x) = (m + n) - j /\ \A i \in 1..((m + n) - j) : x[i] = st[j + i]
  <2>1. st \in Seq(S) /\ j \in 0..Len(st)
    <3> HIDE DEF m, n
    <3> QED
      BY <1>1, <1>2
  <2>2. x \in Seq(S) /\ Len(x) = Len(st) - j /\ \A i \in 1..(Len(st) - j) : x[i] = st[j + i]
    BY <2>1, Dropped
  <2> QED
    BY <1>1, <2>2
<1> HIDE DEF x, y
<1>5. w \in Seq(S) /\ Len(w) = Len(y) + n /\ (\A i \in 1..Len(y) : w[i] = y[i])
      /\ \A i \in 1..n : w[Len(y) + i] = t[i]
  <2>1. y \in Seq(S) /\ t \in Seq(S)
    BY <1>3
  <2> QED
    BY <2>1, Joined
<1> HIDE DEF w, m, n
<1>6. ASSUME NEW i \in 1..((m + n) - j) PROVE x[i] = w[i]
  <2>1. CASE i <= m - j
    <3>1. i \in 1..(m - j) /\ j + i \in 1..m
      BY <1>2, <2>1
    <3> QED
      BY <1>1, <1>3, <1>4, <1>5, <3>1
  <2>2. CASE ~(i <= m - j)
    <3> DEFINE k == i - (m - j)
    <3>1. k \in 1..n /\ (m - j) + k = i /\ m + k = j + i
      BY <1>2, <2>2
    <3> HIDE DEF k
    <3>2. w[i] = t[k]
      BY <1>3, <1>5, <3>1
    <3>3. x[i] = st[m + k] /\ st[m + k] = t[k]
      BY <1>1, <1>4, <3>1
    <3> QED
      BY <3>2, <3>3
  <2> QED
    BY <2>1, <2>2
<1>7. x = w
  <2>1. x \in Seq(S) /\ w \in Seq(S)
    BY <1>4, <1>5
  <2>2. Len(x) = (m + n) - j /\ Len(w) = (m + n) - j
    BY <1>2, <1>3, <1>4, <1>5
  <2>3. DOMAIN x = 1..((m + n) - j) /\ DOMAIN w = 1..((m + n) - j)
    BY <2>1, <2>2
  <2>4. x = [i \in DOMAIN x |-> x[i]] /\ w = [i \in DOMAIN w |-> w[i]]
    BY <2>1
  <2> QED
    BY <1>6, <2>3, <2>4
<1> QED
  BY <1>7 DEF x, w, y, st, m, n

(* Something is said: everyone but its sender is to hear it.               *)
LEMMA OthersMore ==
  ASSUME TypeInv, NEW x \in Senders, NEW said \in Seq(Texts({x})), NEW s \in Sockets,
         chat' = chat \o said, joined'[s] = joined[s]
  PROVE  OthersSince(s)' = OthersSince(s) \o (IF s = x THEN <<>> ELSE said)
<1> DEFINE V == Texts(Senders)
           T == Texts({x})
           U == Texts(OthersThan(s))
           j == joined[s]
           y == SubSeq(chat, j + 1, Len(chat))
<1>1. chat \in Seq(V) /\ j \in 0..Len(chat)
  BY DEF TypeInv, TypeOK, FunctionTypes
<1>2. said \in Seq(V) /\ said \in Seq(T)
  <2>1. T \subseteq V /\ said \in Seq(T)
    BY KindsOfMessages
  <2> HIDE DEF T, V
  <2> QED
    BY <2>1
<1>3. OthersSince(s) = Kept(y, U)
  BY DEF OthersSince
<1>4. OthersSince(s)' = Kept(SubSeq(chat \o said, j + 1, Len(chat \o said)), U)
  BY DEF OthersSince, Texts, OthersThan
<1>5. Kept(said, U) = IF s = x THEN <<>> ELSE said
  <2>1. CASE s = x
    <3>1. {x} \cap OthersThan(s) = {}
      BY <2>1 DEF OthersThan
    <3>2. T \cap U = {}
      BY <3>1, KindsOfMessages
    <3> HIDE DEF T, U
    <3> QED
      BY <1>2, <2>1, <3>2, KeptNone
  <2>2. CASE s # x
    <3>1. {x} \subseteq OthersThan(s)
      BY <2>2 DEF OthersThan, Senders
    <3>2. T \subseteq U
      BY <3>1, KindsOfMessages
    <3> HIDE DEF T, U
    <3>3. said \in Seq(U)
      BY <1>2, <3>2
    <3> QED
      BY <2>2, <3>3, KeptAll
  <2> QED
    BY <2>1, <2>2
<1> HIDE DEF U, V, T, j
<1>6. y \in Seq(V)
  <2>1. chat \in Seq(V) /\ j + 1 \in 1..(Len(chat) + 1)
    BY <1>1
  <2> QED
    BY <2>1
<1>7. SubSeq(chat \o said, j + 1, Len(chat \o said)) = y \o said
  BY <1>1, <1>2, RestLonger
<1> HIDE DEF y
<1>8. Kept(y \o said, U) = Kept(y, U) \o Kept(said, U)
  BY <1>2, <1>6, KeptConcat
<1>9. OthersSince(s)' = OthersSince(s) \o Kept(said, U)
  BY <1>3, <1>4, <1>7, <1>8, Zenon
<1> QED
  BY <1>5, <1>9, Zenon

(* It is a sequence of texts.                                              *)
LEMMA OthersType ==
  ASSUME TypeInv, NEW s \in Sockets
  PROVE  OthersSince(s) \in Seq(Texts(Senders)) /\ OthersSince(s) \o <<>> = OthersSince(s)
<1> DEFINE V == Texts(Senders)
           U == Texts(OthersThan(s))
           y == SubSeq(chat, joined[s] + 1, Len(chat))
<1>1. chat \in Seq(V) /\ joined[s] \in 0..Len(chat)
  BY DEF TypeInv, TypeOK, FunctionTypes
<1> HIDE DEF V, U
<1>2. y \in Seq(V)
  <2>1. chat \in Seq(V) /\ joined[s] + 1 \in 1..(Len(chat) + 1)
    BY <1>1
  <2> QED
    BY <2>1
<1> HIDE DEF y
<1>3. Kept(y, U) \in Seq(V \cap U)
  BY <1>2, KeptType
<1>4. Kept(y, U) \in Seq(V)
  BY <1>3
<1>5. OthersSince(s) = Kept(y, U)
  BY DEF OthersSince, y, U
<1> QED
  BY <1>4, <1>5 DEF V

(* A client hears what is said; nobody else hears anything.                *)
LEMMA HearsMore ==
  ASSUME TypeInv, NEW s \in Sockets, Hears(s), NEW x, NEW said, NEW members, Effects(x, said, members),
         joined'[s] = joined[s], s \in members <=> s \in clients, s \in clients' => s \in clients
  PROVE  Hears(s)'
<1> DEFINE V == Texts(Senders)
           p == TextsTo(s)
           q == OthersSince(s)
           more == IF s = x THEN <<>> ELSE said
<1>1. x \in Senders /\ said \in Seq(Texts({x})) /\ chat' = chat \o said
      /\ TextsTo(s)' = p \o (IF s \in members /\ s # x THEN said ELSE <<>>)
  BY DEF Effects
<1>2. OthersSince(s)' = q \o more
  BY <1>1, OthersMore
<1>3. p \in Seq(V) /\ q \in Seq(V) /\ p \o <<>> = p
  BY KeptSoFar, OthersType
<1>4. more \in Seq(V)
  <2>1. Texts({x}) \subseteq V /\ said \in Seq(Texts({x}))
    BY <1>1, KindsOfMessages
  <2> DEFINE T == Texts({x})
  <2>2. T \subseteq V /\ said \in Seq(T)
    BY <2>1
  <2> HIDE DEF T, V
  <2>3. said \in Seq(V) /\ <<>> \in Seq(V)
    BY <2>2
  <2> QED
    BY <2>3
<1>5. (s \in clients => p = q) /\ IsPrefix(p, q)
  BY DEF Hears
<1> HIDE DEF p, q, more, V
<1>6. CASE s \in clients
  <2>1. TextsTo(s)' = p \o more
    BY <1>1, <1>6, Zenon DEF more
  <2>2. TextsTo(s)' = OthersSince(s)'
    BY <1>2, <1>5, <1>6, <2>1, Zenon
  <2>3. q \o more \in Seq(V)
    BY <1>3, <1>4, Joined
  <2>4. IsPrefix(q \o more, q \o more)
    BY <2>3, PrefixLonger
  <2>5. IsPrefix(TextsTo(s)', OthersSince(s)')
    BY <1>2, <2>2, <2>4, Zenon
  <2> QED
    BY <2>2, <2>5 DEF Hears
<1>7. CASE s \notin clients
  <2>1. TextsTo(s)' = p
    BY <1>1, <1>3, <1>7, Zenon
  <2>2. IsPrefix(p, q \o more)
    BY <1>3, <1>4, <1>5, PrefixLonger
  <2>3. IsPrefix(TextsTo(s)', OthersSince(s)')
    BY <1>2, <2>1, <2>2, Zenon
  <2> QED
    BY <1>7, <2>3 DEF Hears
<1> QED
  BY <1>6, <1>7

(* Whoever has just been upgraded was too late for all that was said.      *)
LEMMA HearsUpgraded ==
  ASSUME TypeInv, NEW s \in Sockets, FrameOf(s), ~isUpgraded[s], NEW said, NEW members,
         Effects(s, said, members), joined'[s] = Len(chat)
  PROVE  Hears(s)'
<1> DEFINE V == Texts(Senders)
           U == Texts(OthersThan(s))
           l == Len(chat)
<1>1. said \in Seq(Texts({s})) /\ chat' = chat \o said /\ TextsTo(s)' = TextsTo(s) \o <<>>
  BY DEF Effects
<1>2. TextsTo(s)' = <<>>
  <2>1. TextsTo(s) = <<>>
    BY DEF FrameOf, Untouched
  <2>2. TextsTo(s) \o <<>> = TextsTo(s)
    BY KeptSoFar
  <2> QED
    BY <1>1, <2>1, <2>2, Zenon
<1>3. chat \in Seq(V) /\ said \in Seq(V)
  <2>1. chat \in Seq(V)
    BY DEF TypeInv, FunctionTypes
  <2> DEFINE T == Texts({s})
  <2>2. T \subseteq V /\ said \in Seq(T)
    BY <1>1, KindsOfMessages DEF Senders
  <2> HIDE DEF T, V
  <2> QED
    BY <2>1, <2>2
<1>4. OthersSince(s)' = Kept(SubSeq(chat \o said, l + 1, Len(chat \o said)), U)
  BY <1>1 DEF OthersSince, Texts, OthersThan
<1>5. {s} \cap OthersThan(s) = {}
  BY DEF OthersThan
<1>6. Kept(said, U) = <<>>
  <2> DEFINE T == Texts({s})
  <2>1. T \cap U = {} /\ said \in Seq(T)
    BY <1>1, <1>5, KindsOfMessages
  <2> HIDE DEF T, U
  <2> QED
    BY <2>1, KeptNone
<1> HIDE DEF V, U
<1>7. SubSeq(chat \o said, l + 1, Len(chat \o said)) = said
  <2>1. l \in 0..Len(chat)
    BY <1>3
  <2>2. SubSeq(chat \o said, l + 1, Len(chat \o said)) = SubSeq(chat, l + 1, l) \o said
    BY <1>3, <2>1, RestLonger
  <2>3. SubSeq(chat, l + 1, l) = <<>>
    BY <1>3
  <2>4. <<>> \o said = said
    BY <1>3
  <2> QED
    BY <2>2, <2>3, <2>4, Zenon
<1>8. OthersSince(s)' = <<>>
  BY <1>4, <1>6, <1>7, Zenon
<1>9. IsPrefix(<<>>, <<>>)
  <2>1. <<>> \in Seq({})
    OBVIOUS
  <2> QED
    BY <2>1, PrefixLonger
<1> QED
  BY <1>2, <1>8, <1>9, Zenon DEF Hears

(* Everyone hears the same, whatever happens next.                         *)
LEMMA HearsStep == TypeInv /\ FrameInv /\ EveryoneHears /\ [Next]_vars => EveryoneHears'
<1> SUFFICES ASSUME TypeInv, FrameInv, EveryoneHears, [Next]_vars, NEW s \in Sockets
             PROVE  Hears(s)'
  BY EveryoneIsEachNext
<1>0. Hears(s) /\ joined \in [Sockets -> Nat] /\ isUpgraded \in [Sockets -> BOOLEAN] /\ clients \subseteq Sockets
  BY EveryoneIsEach DEF TypeInv, TypeOK, FunctionTypes
<1>1. ASSUME UNCHANGED <<chat, sent, joined>>, clients' \subseteq clients PROVE Hears(s)'
  <2>1. TextsTo(s)' = TextsTo(s)
    BY <1>1, QuietEffects
  <2>2. OthersSince(s)' = OthersSince(s)
    BY <1>1 DEF OthersSince, Texts, OthersThan
  <2> QED
    BY <1>0, <1>1, <2>1, <2>2 DEF Hears
<1>2. CASE Quiet
  BY <1>1, <1>2 DEF Quiet
<1>3. ASSUME NEW m \in Announcements, Announce(m) PROVE Hears(s)'
  <2>1. UNCHANGED <<joined, clients>>
    BY <1>3 DEF Announce
  <2>2. Effects(0, <<Text(0, m)>>, clients)
    BY <1>3, AnnounceEffects
  <2> QED
    BY <1>0, <2>1, <2>2, HearsMore
<1>4. CASE Stop
  <2>1. UNCHANGED joined /\ clients' = {}
    BY <1>4 DEF Stop, ClientsAfterStop
  <2>2. Effects(0, <<>>, clients)
    BY <1>4, StopEffects
  <2> QED
    BY <1>0, <2>1, <2>2, HearsMore
<1>5. ASSUME NEW r \in Sockets, Accept(r) PROVE Hears(s)'
  BY <1>1, <1>5 DEF Accept
<1>6. ASSUME NEW r \in Sockets, Data(r) PROVE Hears(s)'
  <2>1. PICK last : /\ Arrives(r, last)
                    /\ \/ Waits(r, last)
                       \/ \E members, greeting, loop : HandlesFor(r, last, members, greeting, loop)
    BY <1>6, DataEvent
  <2>2. CASE Waits(r, last)
    <3>1. UNCHANGED <<clients, joined>>
      BY <2>2 DEF Waits
    <3>2. Effects(0, <<>>, clients)
      BY <2>2, WaitsEffects
    <3> QED
      BY <1>0, <3>1, <3>2, HearsMore
  <2>3. ASSUME NEW members, NEW greeting, NEW loop, HandlesFor(r, last, members, greeting, loop)
        PROVE  Hears(s)'
    <3>1. Effects(r, Said(r, loop.texts), members)
      BY <2>3, HandlesEffects, Zenon
    <3>2. /\ clients' = IF loop.threw THEN members \ {r} ELSE members
          /\ \/ ~isUpgraded[r] /\ members = clients \cup {r} /\ joined' = [joined EXCEPT ![r] = Len(chat)]
             \/ isUpgraded[r] /\ members = clients /\ joined' = joined
      BY <2>3 DEF HandlesFor
    <3>3. CASE s = r /\ ~isUpgraded[s]
      <4>1. joined'[s] = Len(chat)
        BY <1>0, <3>2, <3>3
      <4>2. FrameOf(s)
        BY DEF FrameInv
      <4> QED
        BY <3>1, <3>3, <4>1, <4>2, HearsUpgraded
    <3>4. CASE ~(s = r /\ ~isUpgraded[s])
      <4>1. joined'[s] = joined[s] /\ (s \in members <=> s \in clients) /\ (s \in clients' => s \in clients)
        BY <1>0, <3>2, <3>4
      <4> QED
        BY <1>0, <3>1, <4>1, HearsMore
    <3> QED
      BY <3>3, <3>4
  <2> QED
    BY <2>1, <2>2, <2>3
<1> QED
  BY <1>2, <1>3, <1>4, <1>5, <1>6, StepKinds DEF Speaks

(* Clients stay connected, and only who is told to go is no client.        *)
LEMMA ConnectedStep == TypeInv /\ FrameInv /\ FreshInv /\ ClientsConnected /\ [Next]_vars => ClientsConnected'
<1> SUFFICES ASSUME TypeInv, FrameInv, FreshInv, ClientsConnected, [Next]_vars PROVE ClientsConnected'
  OBVIOUS
<1> DEFINE Known(s) ==
      /\ s \in clients' => isUpgraded'[s] /\ socket'[s] \in {"open", "destroyed"}
      /\ socket'[s] = "open" /\ isUpgraded'[s] /\ s \notin clients' => ToldToGo(s)'
<1>0. /\ socket \in [Sockets -> {"none", "open", "destroyed", "closed"}]
      /\ isUpgraded \in [Sockets -> BOOLEAN] /\ clients \subseteq Sockets
      /\ \A s \in clients : isUpgraded[s] /\ socket[s] \in {"open", "destroyed"}
      /\ \A s \in Sockets : socket[s] = "open" /\ isUpgraded[s] /\ s \notin clients => ToldToGo(s)
  BY DEF TypeInv, TypeOK, ClientsConnected, ToldToGo
<1>1. ASSUME clients' \subseteq Sockets, \A s \in Sockets : Known(s) PROVE ClientsConnected'
  BY <1>1 DEF ClientsConnected, ToldToGo, Message
<1>2. CASE Quiet
  <2>1. clients' \subseteq clients /\ UNCHANGED <<isUpgraded, sent>>
    BY <1>2 DEF Quiet
  <2>2. ASSUME NEW s \in Sockets PROVE Known(s)
    <3>1. SocketMoves(s) /\ (s \in clients \ clients' => socket'[s] # "open")
      BY <1>2 DEF Quiet
    <3>2. s \in clients' => isUpgraded'[s] /\ socket'[s] \in {"open", "destroyed"}
      BY <1>0, <2>1, <3>1 DEF SocketMoves
    <3>3. ASSUME socket'[s] = "open", isUpgraded'[s], s \notin clients' PROVE ToldToGo(s)'
      <4>1. ToldToGo(s)
        BY <1>0, <2>1, <3>1, <3>3 DEF SocketMoves
      <4> QED
        BY <2>1, <4>1 DEF ToldToGo, Message
    <3> QED
      BY <3>2, <3>3
  <2> QED
    BY <1>0, <1>1, <2>1, <2>2
<1>3. ASSUME UNCHANGED <<clients, socket, isUpgraded>>, NEW x, NEW said, NEW members, Effects(x, said, members)
      PROVE  ClientsConnected'
  <2>1. \A s \in Sockets : ToldToGo(s) => ToldToGo(s)'
    BY <1>3 DEF Effects
  <2>2. \A s \in Sockets : Known(s)
    BY <1>0, <1>3, <2>1
  <2> QED
    BY <1>0, <1>1, <1>3, <2>2
<1>4. ASSUME NEW m \in Announcements, Announce(m) PROVE ClientsConnected'
  <2>1. UNCHANGED <<clients, socket, isUpgraded>>
    BY <1>4 DEF Announce, inputVars
  <2> QED
    BY <1>3, <1>4, <2>1, AnnounceEffects
<1>5. CASE Stop
  <2>1. UNCHANGED <<socket, isUpgraded>> /\ clients' = {}
    BY <1>5 DEF Stop, inputVars, ClientsAfterStop
  <2>2. /\ \A s \in Sockets : ToldToGo(s) => ToldToGo(s)'
        /\ \A s \in Sockets \cap clients : ToldToGo(s)'
    BY <1>5, StopEffects DEF Effects
  <2>3. \A s \in Sockets : Known(s)
    BY <1>0, <2>1, <2>2
  <2> QED
    BY <1>1, <2>1, <2>3
<1>6. ASSUME NEW r \in Sockets, Accept(r) PROVE ClientsConnected'
  <2>1. /\ socket' = [socket EXCEPT ![r] = "open"] /\ NextToMake(socket, r)
        /\ UNCHANGED <<isUpgraded, clients, sent>>
    BY <1>6 DEF Accept
  <2>2. ~isUpgraded[r]
    <3>1. DOMAIN socket = Sockets /\ Numbered(socket)
      BY <1>0 DEF FreshInv
    <3>2. socket[r] = "none"
      BY <2>1, <3>1, NewIsUnused, ObjectsAssumption
    <3> QED
      BY <3>2 DEF FreshInv
  <2>3. \A s \in Sockets : ToldToGo(s) => ToldToGo(s)'
    BY <2>1 DEF ToldToGo, Message
  <2>4. ASSUME NEW s \in Sockets PROVE Known(s)
    <3>1. CASE s = r
      BY <1>0, <2>1, <2>2, <3>1
    <3>2. CASE s # r
      BY <1>0, <2>1, <2>3, <3>2
    <3> QED
      BY <3>1, <3>2
  <2> QED
    BY <1>0, <1>1, <2>1, <2>4
<1>7. ASSUME NEW r \in Sockets, Data(r) PROVE ClientsConnected'
  <2>1. PICK last : /\ Arrives(r, last)
                    /\ \/ Waits(r, last)
                       \/ \E members, greeting, loop : HandlesFor(r, last, members, greeting, loop)
    BY <1>7, DataEvent
  <2>2. CASE Waits(r, last)
    <3>1. UNCHANGED <<clients, socket, isUpgraded>>
      BY <2>2 DEF Waits
    <3> QED
      BY <1>3, <2>2, <3>1, WaitsEffects
  <2>3. ASSUME NEW members, NEW greeting, NEW loop, HandlesFor(r, last, members, greeting, loop)
        PROVE  ClientsConnected'
    <3>1. Effects(r, Said(r, loop.texts), members)
      BY <2>3, HandlesEffects, Zenon
    <3>2. /\ clients' = IF loop.threw THEN members \ {r} ELSE members
          /\ socket' = [socket EXCEPT ![r] = IF loop.threw THEN "destroyed" ELSE @]
          /\ isUpgraded' = [isUpgraded EXCEPT ![r] = TRUE]
          /\ (~isUpgraded[r] /\ members = clients \cup {r}) \/ (isUpgraded[r] /\ members = clients)
      BY <2>3 DEF HandlesFor
    <3>3. \A s \in Sockets : ToldToGo(s) => ToldToGo(s)'
      BY <3>1 DEF Effects
    <3>4. socket[r] = "open"
      BY <2>1 DEF Arrives
    <3>5. ASSUME NEW s \in Sockets PROVE Known(s)
      <4>1. CASE s # r
        <5>1. socket'[s] = socket[s] /\ isUpgraded'[s] = isUpgraded[s] /\ (s \in clients' <=> s \in clients)
          BY <1>0, <3>2, <4>1
        <5> QED
          BY <1>0, <3>3, <5>1
      <4>2. CASE s = r /\ loop.threw
        <5>1. socket'[s] = "destroyed" /\ s \notin clients'
          BY <1>0, <3>2, <4>2
        <5> QED
          BY <5>1
      <4>3. CASE s = r /\ ~loop.threw
        <5>1. socket'[s] = "open" /\ isUpgraded'[s] /\ (s \in clients' <=> s \in members)
          BY <1>0, <3>2, <3>4, <4>3
        <5>2. s \notin members => ToldToGo(s)
          BY <1>0, <3>2, <3>4, <4>3
        <5> QED
          BY <3>3, <5>1, <5>2
      <4> QED
        BY <4>1, <4>2, <4>3
    <3>6. clients' \subseteq Sockets
      BY <1>0, <3>2
    <3> QED
      BY <1>1, <3>5, <3>6
  <2> QED
    BY <2>1, <2>2, <2>3
<1> QED
  BY <1>2, <1>4, <1>5, <1>6, <1>7, StepKinds DEF Speaks

(* What a stop must end is on record.                                      *)
LEMMA ServerStep == TypeInv /\ FrameInv /\ ClientsConnected /\ ServerInv /\ [Next]_vars => ServerInv'
<1> SUFFICES ASSUME TypeInv, FrameInv, ClientsConnected, ServerInv, [Next]_vars PROVE ServerInv'
  OBVIOUS
<1> DEFINE Live(n) == netServer[n] \in {"binding", "listening"}
           Recorded == ~unruly' => \A n \in Servers : netServer'[n] \in {"binding", "listening"} => server' = {n}
           LeftOver == server' = {} /\ ~unruly' =>
                         /\ clients' \subseteq stranded'
                         /\ \A s \in Sockets : socket'[s] = "open" /\ ~isUpgraded'[s] => s \in stranded'
<1>0. /\ netServer \in [Servers -> {"none", "binding", "listening", "failed", "closing", "closed"}]
      /\ socket \in [Sockets -> {"none", "open", "destroyed", "closed"}]
      /\ isUpgraded \in [Sockets -> BOOLEAN]
      /\ server \subseteq Servers /\ clients \subseteq Sockets /\ stranded \subseteq Sockets
      /\ \A s \in clients : isUpgraded[s]
  BY DEF TypeInv, TypeOK, ClientsConnected
<1>1. /\ ~unruly => \A n \in Servers : Live(n) => server = {n}
      /\ server = {} /\ ~unruly =>
           /\ clients \subseteq stranded
           /\ \A s \in Sockets : socket[s] = "open" /\ ~isUpgraded[s] => s \in stranded
  BY DEF ServerInv
<1>2. ASSUME Recorded, LeftOver PROVE ServerInv'
  BY <1>2 DEF ServerInv
<1>3. CASE Quiet
  <2>1. /\ UNCHANGED <<isUpgraded, stranded>> /\ clients' \subseteq clients
        /\ \A s \in Sockets : socket'[s] = "open" => socket[s] = "open"
    BY <1>3 DEF Quiet, SocketMoves
  <2>2. CASE UNCHANGED <<server, netServer, unruly>>
    BY <1>1, <1>2, <2>1, <2>2
  <2>3. ASSUME NEW n \in Servers, Start(n) PROVE ServerInv'
    <3>1. /\ netServer' = [netServer EXCEPT ![n] = "binding"] /\ server' = {n}
          /\ unruly' = (unruly \/ server # {})
      BY <2>3 DEF Start, RecordAfterStart
    <3>2. ASSUME ~unruly', NEW m \in Servers, netServer'[m] \in {"binding", "listening"} PROVE server' = {m}
      <4>1. ~unruly /\ server = {}
        BY <3>1, <3>2
      <4>2. ~Live(m)
        BY <1>1, <4>1
      <4>3. m = n
        BY <1>0, <3>1, <3>2, <4>2
      <4> QED
        BY <3>1, <4>3
    <3>3. server' # {}
      BY <3>1
    <3> QED
      BY <1>2, <3>2, <3>3
  <2>4. ASSUME NEW n \in Servers, Bind(n) \/ ServerClosed(n) PROVE ServerInv'
    <3>1. /\ UNCHANGED <<server, unruly>>
          /\ \A m \in Servers : netServer'[m] \in {"binding", "listening"} => Live(m)
      BY <1>0, <2>4 DEF Bind, ServerClosed
    <3> QED
      BY <1>1, <1>2, <2>1, <3>1
  <2> QED
    BY <1>3, <2>2, <2>3, <2>4 DEF Quiet, ServerMoves
<1>4. ASSUME NEW m \in Announcements, Announce(m) PROVE ServerInv'
  <2>1. UNCHANGED <<server, netServer, unruly, stranded, clients, socket, isUpgraded>>
    BY <1>4 DEF Announce, serverVars, inputVars
  <2> QED
    BY <1>1, <1>2, <2>1
<1>5. CASE Stop
  <2>1. /\ netServer' = [n \in Servers |-> IF n \in server /\ netServer[n] = "listening"
                                            THEN "closing" ELSE netServer[n]]
        /\ unruly' = (unruly \/ \E n \in server : netServer[n] = "binding")
        /\ server' = {} /\ clients' = {} /\ UNCHANGED <<socket, isUpgraded>>
        /\ stranded' = stranded \cup {s \in Sockets \ clients : socket[s] = "open"}
    BY <1>5 DEF Stop, ClientsAfterStop, inputVars
  <2>2. ASSUME ~unruly', NEW n \in Servers PROVE netServer'[n] \notin {"binding", "listening"}
    <3>1. ~unruly /\ \A m \in server : netServer[m] # "binding"
      BY <2>1, <2>2
    <3>2. Live(n) => n \in server
      BY <1>1, <3>1
    <3> QED
      BY <2>1, <3>1, <3>2
  <2>3. LeftOver
    BY <1>0, <2>1
  <2> QED
    BY <1>2, <2>2, <2>3
<1>6. ASSUME NEW r \in Sockets, Accept(r) PROVE ServerInv'
  <2>1. UNCHANGED <<server, netServer, unruly>> /\ \E n \in Servers : netServer[n] = "listening"
    BY <1>6 DEF Accept, serverVars
  <2>2. server' # {} \/ unruly'
    BY <1>1, <2>1
  <2> QED
    BY <1>1, <1>2, <2>1, <2>2
<1>7. ASSUME NEW r \in Sockets, Data(r) PROVE ServerInv'
  <2>1. PICK last : /\ Arrives(r, last)
                    /\ \/ Waits(r, last)
                       \/ \E members, greeting, loop : HandlesFor(r, last, members, greeting, loop)
    BY <1>7, DataEvent
  <2>2. UNCHANGED <<server, netServer, unruly, stranded>> /\ socket[r] = "open"
    BY <2>1 DEF Arrives
  <2>3. CASE Waits(r, last)
    <3>1. UNCHANGED <<clients, socket, isUpgraded>>
      BY <2>3 DEF Waits
    <3> QED
      BY <1>1, <1>2, <2>2, <3>1
  <2>4. ASSUME NEW members, NEW greeting, NEW loop, HandlesFor(r, last, members, greeting, loop)
        PROVE  ServerInv'
    <3>1. /\ clients' = IF loop.threw THEN members \ {r} ELSE members
          /\ socket' = [socket EXCEPT ![r] = IF loop.threw THEN "destroyed" ELSE @]
          /\ isUpgraded' = [isUpgraded EXCEPT ![r] = TRUE]
          /\ (~isUpgraded[r] /\ members = clients \cup {r}) \/ (isUpgraded[r] /\ members = clients)
      BY <2>4 DEF HandlesFor
    <3>2. ASSUME server = {}, ~unruly PROVE members \subseteq stranded
      BY <1>1, <2>2, <3>1, <3>2
    <3>3. \A s \in Sockets : socket'[s] = "open" /\ ~isUpgraded'[s] => socket[s] = "open" /\ ~isUpgraded[s]
      BY <1>0, <3>1
    <3> QED
      BY <1>1, <1>2, <2>2, <3>1, <3>2, <3>3
  <2> QED
    BY <2>1, <2>3, <2>4
<1> QED
  BY <1>3, <1>4, <1>5, <1>6, <1>7, StepKinds DEF Speaks

-----------------------------------------------------------------------------
(* The invariant holds, whatever clients send and however it is cut.       *)
THEOREM ServerInvariant == Spec => []Inv
<1>1. Inv /\ [Next]_vars => Inv'
  BY TypeStep, FreshStep, FrameStep, HearsStep, ConnectedStep, ServerStep DEF Inv
<1> QED
  BY <1>1, InitInv, PTL DEF Spec

(* What encodeFrame makes is read back, for every length; every client is  *)
(* connected; and a stop that comes after its start has ended leaves no    *)
(* server and no client behind that it knew.                               *)
THEOREM AlwaysConsistent == Spec => []Consistent
<1>1. Inv => StoppedIsGone
  BY DEF Inv, ServerInv, StoppedIsGone
<1>2. Inv => Consistent
  BY <1>1, EncodingRead DEF Inv, TypeInv, Consistent
<1> QED
  BY <1>2, ServerInvariant, PTL

(* Whatever is said and whoever comes and goes: a client has heard all that*)
(* the others said since its upgrade, once and in the same order.          *)
THEOREM EveryoneAlwaysHears == Spec => []EveryoneHears
<1>1. Inv => EveryoneHears
  BY DEF Inv
<1> QED
  BY <1>1, ServerInvariant, PTL

(* However the bytes of any frames are cut into chunks, and whatever of    *)
(* them comes with the upgrade: every text that has arrived whole has been *)
(* broadcast, once and in order, and every ping and close answered.        *)
THEOREM FramesAlwaysHandled == Spec => []FramesHandled
<1>1. Inv => FramesHandled
  <2> DEFINE texts(s) == Kept(Whole(s), {f \in ClientFrames : f.opcode = 1})
             asked(s) == Kept(Whole(s), {f \in ClientFrames : f.opcode \in {8, 9}})
  <2> SUFFICES ASSUME Inv, NEW s \in Sockets, isUpgraded[s], s \notin failed
               PROVE  /\ TextsOf(s) = [i \in DOMAIN texts(s) |-> Text(s, texts(s)[i].payload)]
                      /\ Kept(sent[s], {Message("pong"), Message("close")})
                           = [i \in DOMAIN asked(s) |-> Message(IF asked(s)[i].opcode = 8 THEN "close" ELSE "pong")]
    BY DEF FramesHandled
  <2> DEFINE fs == frames[s]
             a == arrived[s] - Len(headers[s])
             J == {j \in 0..Len(fs) : Len(headers[s]) + End(fs, j) <= arrived[s]}
  <2>1. /\ fs \in Seq(ClientFrames) /\ arrived[s] \in Nat /\ Len(headers[s]) \in Nat
        /\ Len(headers[s]) <= arrived[s]
        /\ Framed(s, fs, a, rawBuffer[s], TextsOf(s), AnswersSent(s))
    BY InputType DEF Inv, FrameInv, FrameOf, HandledSoFar
  <2>2. PICK k \in 0..Len(fs) : FramedUpTo(s, fs, a, rawBuffer[s], TextsOf(s), AnswersSent(s), k)
    BY <2>1 DEF Framed
  <2>3. /\ End(fs, k) <= a /\ (k < Len(fs) => a < End(fs, k + 1))
        /\ TextsOf(s) = Said(s, Spoken(fs, k)) /\ AnswersSent(s) = Answered(fs, k)
    BY <2>2 DEF FramedUpTo
  <2>4. \A j \in 0..Len(fs) : End(fs, j) \in Nat
    BY <2>1, EndGrows
  <2> HIDE DEF fs
  <2>5. k \in J /\ Len(fs) \in Nat /\ k \in 0..Len(fs)
    <3>1. Len(fs) \in Nat
      BY <2>1
    <3> QED
      BY <2>1, <2>2, <2>3, <2>4, <3>1
  <2>6. ASSUME NEW j \in J PROVE j <= k
    <3> SUFFICES ASSUME k + 1 <= j PROVE FALSE
      BY <2>5
    <3>1. k < Len(fs) /\ k + 1 \in 0..Len(fs) /\ j \in (k + 1)..Len(fs)
      BY <2>5
    <3>2. End(fs, k + 1) + (j - (k + 1)) <= End(fs, j)
      BY <2>1, <3>1, EndsInOrder
    <3>3. End(fs, k + 1) \in Nat /\ End(fs, j) \in Nat /\ End(fs, j) <= a
      BY <2>1, <2>4, <3>1
    <3> QED
      BY <2>1, <2>3, <2>5, <3>1, <3>2, <3>3
  <2>7. Max(J) = k
    <3>1. \A x \in J : (\A y \in J : x >= y) => x = k
      BY <2>5, <2>6
    <3>2. \A y \in J : k >= y
      BY <2>5, <2>6
    <3> HIDE DEF J
    <3> QED
      BY <2>5, <3>1, <3>2 DEF Max
  <2>8. Whole(s) = SubSeq(fs, 1, k)
    <3>1. {j \in 0..Len(frames[s]) :
             Len(headers[s]) + Len(WireAll(SubSeq(frames[s], 1, j))) <= arrived[s]} = J
      BY DEF End, fs
    <3> QED
      BY <2>7, <3>1 DEF Whole, fs
  <2>9. Spoken(fs, k) = PayloadsOf(texts(s)) /\ Answered(fs, k) = AnswersTo(asked(s))
    BY <2>8 DEF Spoken, Answered, TextFrames, AskingFrames
  <2> HIDE DEF texts, asked
  <2>10. Said(s, PayloadsOf(texts(s))) = [i \in DOMAIN texts(s) |-> Text(s, texts(s)[i].payload)]
    BY DEF Said, PayloadsOf
  <2>11. AnswersTo(asked(s))
           = [i \in DOMAIN asked(s) |-> Message(IF asked(s)[i].opcode = 8 THEN "close" ELSE "pong")]
    BY DEF AnswersTo
  <2>12. AnswersSent(s) = Kept(sent[s], {Message("pong"), Message("close")})
    BY DEF AnswersSent, Answers
  <2> QED
    BY <2>3, <2>9, <2>10, <2>11, <2>12, Zenon DEF texts, asked
<1> QED
  BY <1>1, ServerInvariant, PTL
=============================================================================
