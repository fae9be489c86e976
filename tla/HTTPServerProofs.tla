--------------------------- MODULE HTTPServerProofs ---------------------------
(***************************************************************************)
(* The HTTP server, for every client, every number of connections and      *)
(* every way of cutting their bytes into chunks.  FrameInv says where the  *)
(* server stands in a client's stream: it has answered the requests that   *)
(* are whole, and its buffer is what has arrived behind them.  FlattenSeq  *)
(* and the loop are recursive functions: facts about them are proved by    *)
(* the least counterexample.                                               *)
(***************************************************************************)
EXTENDS HTTPServer, FiniteSetTheorems, SequenceTheorems, WellFoundedInduction, TLAPS

-----------------------------------------------------------------------------
(* Induction by the least counterexample.                                  *)
LEMMA LeastElement ==
  ASSUME NEW T, T \subseteq Nat, T # {}
  PROVE  \E x \in T : \A y \in T : x <= y
<1>1. \E x \in T : \A y \in T : ~ (<<y, x>> \in OpToRel(<, Nat))
  BY NatLessThanWellFounded, WFMin
<1>2. PICK x \in T : \A y \in T : ~ (<<y, x>> \in OpToRel(<, Nat))
  BY <1>1
<1>3. \A y \in T : ~ (y < x)
  BY <1>2 DEF OpToRel
<1> QED
  BY <1>3

-----------------------------------------------------------------------------
(* FlattenSeq is recursive: its body, and its equation up to n.            *)
FlattenStep(seqs, g, i) == IF i = 1 THEN seqs[i] ELSE g[i - 1] \o seqs[i]
FlattensUpTo(seqs, n, g) == g = [i \in 1..n |-> FlattenStep(seqs, g, i)]

(* The recursive body of FlattenSeq has a function at every length.        *)
LEMMA FlatteningExists ==
  ASSUME NEW seqs, NEW n \in Nat
  PROVE  \E g : FlattensUpTo(seqs, n, g)
<1> DEFINE T == {m \in Nat : ~ \E g : FlattensUpTo(seqs, m, g)}
<1> SUFFICES ASSUME T # {} PROVE FALSE
  OBVIOUS
<1>1. PICK m \in T : \A y \in T : m <= y
  BY LeastElement
<1>2. PICK g : m # 0 => FlattensUpTo(seqs, m - 1, g)
  <2>1. m # 0 => m - 1 \in Nat /\ m - 1 \notin T
    BY <1>1
  <2> QED
    BY <2>1
<1> DEFINE h == [i \in 1..m |-> FlattenStep(seqs, g, i)]
<1>3. ASSUME NEW i \in 1..m PROVE FlattenStep(seqs, g, i) = FlattenStep(seqs, h, i)
  <2>1. CASE i = 1
    BY <2>1 DEF FlattenStep
  <2>2. CASE i # 1
    <3>1. i - 1 \in 1..(m - 1) /\ i - 1 \in 1..m
      BY <2>2
    <3>2. g[i - 1] = FlattenStep(seqs, g, i - 1)
      BY <1>2, <3>1 DEF FlattensUpTo
    <3>3. g[i - 1] = h[i - 1]
      BY <3>1, <3>2
    <3> HIDE DEF h
    <3> QED
      BY <2>2, <3>3, Zenon DEF FlattenStep
  <2> QED
    BY <2>1, <2>2
<1>4. h = [i \in 1..m |-> FlattenStep(seqs, h, i)]
  BY <1>3
<1>5. FlattensUpTo(seqs, m, h)
  BY <1>4 DEF FlattensUpTo
<1> QED
  BY <1>1, <1>5

(* Two lists of sequences that begin alike are flattened alike.            *)
LEMMA FlatteningUnique ==
  ASSUME NEW r, NEW s, NEW n \in Nat, NEW m \in Nat, NEW g, NEW h,
         FlattensUpTo(r, n, g), FlattensUpTo(s, m, h),
         NEW i \in Nat, 1 <= i, i <= n, i <= m
  PROVE  (\A j \in 1..i : r[j] = s[j]) => g[i] = h[i]
<1> HAVE \A j \in 1..i : r[j] = s[j]
<1> DEFINE T == {j \in Nat : 1 <= j /\ j <= i /\ g[j] # h[j]}
<1> SUFFICES ASSUME T # {} PROVE FALSE
  OBVIOUS
<1>1. PICK j \in T : \A y \in T : j <= y
  BY LeastElement
<1>2. j \in 1..n /\ j \in 1..m /\ j \in 1..i
  BY <1>1
<1>3. g[j] = FlattenStep(r, g, j) /\ h[j] = FlattenStep(s, h, j)
  BY <1>2 DEF FlattensUpTo
<1>4. r[j] = s[j]
  BY <1>2
<1>5. CASE j = 1
  BY <1>1, <1>3, <1>4, <1>5 DEF FlattenStep
<1>6. CASE j # 1
  <2>1. j - 1 \in Nat /\ 1 <= j - 1 /\ j - 1 <= i /\ j - 1 \notin T
    BY <1>1, <1>2, <1>6
  <2>2. g[j - 1] = h[j - 1]
    BY <2>1
  <2>3. g[j] = h[j]
    BY <1>3, <1>4, <1>6, <2>2, Zenon DEF FlattenStep
  <2> QED
    BY <1>1, <2>3
<1> QED
  BY <1>5, <1>6

(* FlattenSeq is what that function gives at the full length.              *)
LEMMA FlattenEquation ==
  ASSUME NEW seqs, Len(seqs) \in Nat, Len(seqs) # 0
  PROVE  \E g : FlattensUpTo(seqs, Len(seqs), g) /\ FlattenSeq(seqs) = g[Len(seqs)]
<1> DEFINE g == CHOOSE f : f = [i \in 1..Len(seqs) |-> FlattenStep(seqs, f, i)]
<1>1. FlattensUpTo(seqs, Len(seqs), g)
  BY FlatteningExists DEF FlattensUpTo
<1>2. FlattenSeq(seqs) = g[Len(seqs)]
  BY DEF FlattenSeq, FlattenStep
<1> HIDE DEF g
<1> QED
  BY <1>1, <1>2

(* A list of sequences is flattened one after the other.                   *)
LEMMA FlattenLonger ==
  ASSUME NEW p, NEW q, NEW n \in Nat, NEW m \in Nat,
         Len(p) = n, Len(q) = m, n = m + 1, \A i \in 1..m : p[i] = q[i]
  PROVE  IF m = 0 THEN FlattenSeq(p) = p[n] ELSE FlattenSeq(p) = FlattenSeq(q) \o p[n]
<1>1. PICK g : FlattensUpTo(p, n, g) /\ FlattenSeq(p) = g[n]
  BY FlattenEquation
<1>2. g[n] = FlattenStep(p, g, n)
  BY <1>1, n \in 1..n DEF FlattensUpTo
<1>3. CASE m = 0
  BY <1>1, <1>2, <1>3 DEF FlattenStep
<1>4. CASE m # 0
  <2>1. PICK h : FlattensUpTo(q, m, h) /\ FlattenSeq(q) = h[m]
    BY <1>4, FlattenEquation
  <2>2. g[m] = h[m]
    BY <1>1, <1>4, <2>1, FlatteningUnique
  <2>3. n # 1 /\ n - 1 = m
    BY <1>4
  <2> QED
    BY <1>1, <1>2, <1>4, <2>1, <2>2, <2>3, Zenon DEF FlattenStep
<1> QED
  BY <1>3, <1>4

(* One sequence more is flattened behind those before it.                  *)
LEMMA FlattenPrefix ==
  ASSUME NEW S, NEW seqs \in Seq(Seq(S)), NEW j \in 0..(Len(seqs) - 1)
  PROVE  /\ FlattenSeq(SubSeq(seqs, 1, 0)) = <<>>
         /\ FlattenSeq(SubSeq(seqs, 1, j + 1)) = FlattenSeq(SubSeq(seqs, 1, j)) \o seqs[j + 1]
<1> DEFINE P(k) == SubSeq(seqs, 1, k)
<1>1. FlattenSeq(P(0)) = <<>>
  <2>1. P(0) = <<>> /\ Len(P(0)) = 0
    OBVIOUS
  <2> HIDE DEF P
  <2> QED
    BY <2>1 DEF FlattenSeq
<1>2. j \in Nat /\ j + 1 \in Nat /\ j + 1 <= Len(seqs) /\ Len(seqs) \in Nat
  OBVIOUS
<1>3. ASSUME NEW k \in Nat, k <= Len(seqs)
      PROVE  Len(P(k)) = k /\ \A i \in 1..k : P(k)[i] = seqs[i]
  BY <1>2
<1>4. seqs[j + 1] \in Seq(S)
  BY <1>2, j + 1 \in DOMAIN seqs
<1> HIDE DEF P
<1>5. PICK p, q, n : p = P(j + 1) /\ q = P(j) /\ n = j + 1
  OBVIOUS
<1>6. Len(p) = n /\ Len(q) = j /\ p[n] = seqs[j + 1] /\ \A i \in 1..j : p[i] = q[i]
  BY <1>2, <1>3, <1>5
<1>7. IF j = 0 THEN FlattenSeq(p) = p[n] ELSE FlattenSeq(p) = FlattenSeq(q) \o p[n]
  <2>1. n \in Nat /\ j \in Nat /\ n = j + 1
    BY <1>2, <1>5
  <2> QED
    BY <1>6, <2>1, FlattenLonger
<1>8. FlattenSeq(P(j + 1)) = FlattenSeq(P(j)) \o seqs[j + 1]
  <2>1. <<>> \o seqs[j + 1] = seqs[j + 1]
    BY <1>4
  <2> QED
    BY <1>1, <1>5, <1>6, <1>7, <2>1, Zenon
<1> QED
  BY <1>1, <1>8, Zenon DEF P
-----------------------------------------------------------------------------
(* A request on the wire.  Its headers end behind the token of this place. *)
Texts == ({"text"} \X STRING) \cup {Character, Replacement}
Tokens == {CRLF, <<"connection", "close">>} \cup ({"request"} \X (Paths \cup {NoPath}))
            \cup ({"length"} \X Nat) \cup Texts

HeadersEnd(r) == 2 + (IF r.body = <<>> THEN 0 ELSE 2) + (IF r.close THEN 2 ELSE 0)
HeadLine(r, i) ==
  CASE i = 1 -> <<"request", r.path>>
    [] i = 3 /\ r.body # <<>> -> <<"length", Len(r.body)>>
    [] i \in {3, 5} /\ i = HeadersEnd(r) - 1 /\ r.close -> <<"connection", "close">>
    [] OTHER -> CRLF

(* The tokens of a wire are told apart by their kind.                      *)
LEMMA KindsDiffer ==
  ASSUME NEW x
  PROVE  /\ CRLF[1] = "CRLF" /\ <<"request", x>> # CRLF /\ <<"length", x>> # CRLF
         /\ <<"connection", x>> # CRLF /\ <<"text", x>> # CRLF
<1>1. CRLF[1] = "CRLF"
  BY DEF CRLF
<1>2. /\ <<"request", x>>[1] = "request" /\ <<"length", x>>[1] = "length"
      /\ <<"connection", x>>[1] = "connection" /\ <<"text", x>>[1] = "text"
  OBVIOUS
<1>3. "request" # "CRLF" /\ "length" # "CRLF" /\ "connection" # "CRLF" /\ "text" # "CRLF"
  OBVIOUS
<1> QED
  BY <1>1, <1>2, <1>3, Zenon

(* What a request of the client is made of.                                *)
LEMMA RequestFields ==
  ASSUME NEW r \in Requests
  PROVE  /\ r.path \in Paths \cup {NoPath} /\ r.close \in BOOLEAN
         /\ r.body \in Seq(Tokens) /\ Len(r.body) \in Nat
         /\ r.body \in Seq({CRLF} \cup Texts)
<1>1. r.path \in Paths \cup {NoPath} /\ r.close \in BOOLEAN /\ r.body \in Seq({CRLF} \cup Texts)
  BY DEF Requests, Texts
<1>2. {CRLF} \cup Texts \subseteq Tokens
  BY DEF Tokens
<1>3. r.body \in Seq(Tokens)
  BY <1>1, <1>2
<1> QED
  BY <1>1, <1>3

(* Where the headers end: behind the first line and up to two headers.     *)
LEMMA HeadNumber ==
  ASSUME NEW r \in Requests
  PROVE  /\ HeadersEnd(r) \in {2, 4, 6}
         /\ r.body # <<>> => HeadersEnd(r) >= 4
         /\ r.close => HeadersEnd(r) >= 4
         /\ r.body # <<>> /\ r.close => HeadersEnd(r) = 6
         /\ (r.body = <<>> \/ ~r.close) => HeadersEnd(r) <= 4
         /\ r.body = <<>> /\ ~r.close => HeadersEnd(r) = 2
  BY RequestFields DEF HeadersEnd

(* What is in a concatenation, and where.                                  *)
LEMMA Joined ==
  ASSUME NEW S, NEW s \in Seq(S), NEW t \in Seq(S)
  PROVE  /\ s \o t \in Seq(S) /\ Len(s \o t) = Len(s) + Len(t)
         /\ \A i \in 1..Len(s) : (s \o t)[i] = s[i]
         /\ \A i \in 1..Len(t) : (s \o t)[Len(s) + i] = t[i]
  OBVIOUS

(* The wire of a request is its head, an empty line and its body.          *)
LEMMA WireShape ==
  ASSUME NEW r \in Requests
  PROVE  /\ Wire(r) \in Seq(Tokens)
         /\ Len(Wire(r)) = HeadersEnd(r) + 1 + Len(r.body)
         /\ \A i \in 1..(HeadersEnd(r) + 1) : Wire(r)[i] = HeadLine(r, i)
         /\ \A i \in 1..Len(r.body) : Wire(r)[HeadersEnd(r) + 1 + i] = r.body[i]
<1> DEFINE A == <<<<"request", r.path>>, CRLF>>
           B == IF r.body = <<>> THEN <<>> ELSE <<<<"length", Len(r.body)>>, CRLF>>
           C == IF r.close THEN <<<<"connection", "close">>, CRLF>> ELSE <<>>
           D == <<CRLF>>
           AB == A \o B
           ABC == AB \o C
           H == ABC \o D
<1>1. Wire(r) = H \o r.body
  BY DEF Wire
<1>2. /\ <<"request", r.path>> \in Tokens /\ CRLF \in Tokens
      /\ <<"length", Len(r.body)>> \in Tokens /\ <<"connection", "close">> \in Tokens
  BY RequestFields DEF Tokens
<1>3. A \in Seq(Tokens) /\ Len(A) = 2 /\ A[1] = <<"request", r.path>> /\ A[2] = CRLF
  BY <1>2
<1>4. /\ B \in Seq(Tokens)
      /\ r.body = <<>> => Len(B) = 0
      /\ r.body # <<>> => Len(B) = 2 /\ B[1] = <<"length", Len(r.body)>> /\ B[2] = CRLF
  BY <1>2
<1>5. /\ C \in Seq(Tokens)
      /\ ~r.close => Len(C) = 0
      /\ r.close => Len(C) = 2 /\ C[1] = <<"connection", "close">> /\ C[2] = CRLF
  BY <1>2, RequestFields
<1>6. D \in Seq(Tokens) /\ Len(D) = 1 /\ D[1] = CRLF
  BY <1>2
<1>3a. A \in Seq(Tokens)
  BY <1>3
<1>4a. B \in Seq(Tokens)
  BY <1>4
<1>5a. C \in Seq(Tokens)
  BY <1>5
<1>6a. D \in Seq(Tokens)
  BY <1>6
<1> HIDE DEF A, B, C, D
<1>7. /\ AB \in Seq(Tokens) /\ Len(AB) = 2 + Len(B)
      /\ AB[1] = <<"request", r.path>> /\ AB[2] = CRLF
      /\ \A i \in 1..Len(B) : AB[2 + i] = B[i]
  <2>1. /\ AB \in Seq(Tokens) /\ Len(AB) = Len(A) + Len(B)
        /\ \A i \in 1..Len(A) : AB[i] = A[i]
        /\ \A i \in 1..Len(B) : AB[Len(A) + i] = B[i]
    BY <1>3a, <1>4a
  <2> HIDE DEF AB
  <2> QED
    BY <1>3, <2>1
<1> HIDE DEF AB
<1>8. /\ ABC \in Seq(Tokens) /\ Len(ABC) = Len(AB) + Len(C)
      /\ \A i \in 1..Len(AB) : ABC[i] = AB[i]
      /\ \A i \in 1..Len(C) : ABC[Len(AB) + i] = C[i]
  <2>1. AB \in Seq(Tokens)
    BY <1>7
  <2> QED
    BY <1>5a, <2>1
<1> HIDE DEF ABC
<1>9. /\ H \in Seq(Tokens) /\ Len(H) = Len(ABC) + 1
      /\ \A i \in 1..Len(ABC) : H[i] = ABC[i]
      /\ H[Len(ABC) + 1] = CRLF
  <2>1. ABC \in Seq(Tokens)
    BY <1>8
  <2>2. /\ H \in Seq(Tokens) /\ Len(H) = Len(ABC) + Len(D)
        /\ \A i \in 1..Len(ABC) : H[i] = ABC[i]
        /\ \A i \in 1..Len(D) : H[Len(ABC) + i] = D[i]
    BY <1>6a, <2>1
  <2> HIDE DEF H
  <2> QED
    BY <1>6, <2>2
<1> HIDE DEF H
<1>10. Len(H) = HeadersEnd(r) + 1 /\ \A i \in 1..(HeadersEnd(r) + 1) : H[i] = HeadLine(r, i)
  <2>1. CASE r.body = <<>> /\ ~r.close
    <3>1. Len(B) = 0 /\ Len(C) = 0 /\ HeadersEnd(r) = 2 /\ Len(AB) = 2 /\ Len(ABC) = 2
      BY <2>1, <1>4, <1>5, <1>7, <1>8, HeadNumber
    <3>2. Len(H) = 3 /\ H[1] = <<"request", r.path>> /\ H[2] = CRLF /\ H[3] = CRLF
      BY <3>1, <1>7, <1>8, <1>9
    <3> QED
      BY <2>1, <3>1, <3>2 DEF HeadLine
  <2>2. CASE r.body # <<>> /\ ~r.close
    <3>1. Len(B) = 2 /\ Len(C) = 0 /\ HeadersEnd(r) = 4 /\ Len(AB) = 4 /\ Len(ABC) = 4
      <4>1. Len(B) = 2 /\ Len(C) = 0
        BY <2>2, <1>4, <1>5
      <4>2. HeadersEnd(r) = 4
        BY <2>2, HeadNumber
      <4>3. Len(AB) = 4
        BY <1>7, <4>1
      <4> QED
        BY <1>8, <4>1, <4>2, <4>3
    <3>2. AB[3] = <<"length", Len(r.body)>> /\ AB[4] = CRLF
      BY <2>2, <3>1, <1>4, <1>7
    <3>3. /\ Len(H) = 5 /\ H[1] = <<"request", r.path>> /\ H[2] = CRLF
          /\ H[3] = <<"length", Len(r.body)>> /\ H[4] = CRLF /\ H[5] = CRLF
      BY <3>1, <3>2, <1>7, <1>8, <1>9
    <3> QED
      <4>1. /\ HeadLine(r, 1) = <<"request", r.path>> /\ HeadLine(r, 2) = CRLF
            /\ HeadLine(r, 3) = <<"length", Len(r.body)>> /\ HeadLine(r, 4) = CRLF
            /\ HeadLine(r, 5) = CRLF
        BY <2>2, <3>1 DEF HeadLine
      <4> QED
        BY <3>1, <3>3, <4>1
  <2>3. CASE r.body = <<>> /\ r.close
    <3>1. Len(B) = 0 /\ Len(C) = 2 /\ HeadersEnd(r) = 4 /\ Len(AB) = 2 /\ Len(ABC) = 4
      <4>1. Len(B) = 0 /\ Len(C) = 2
        BY <2>3, <1>4, <1>5
      <4>2. HeadersEnd(r) = 4
        BY <2>3, HeadNumber
      <4>3. Len(AB) = 2
        BY <1>7, <4>1
      <4> QED
        BY <1>8, <4>1, <4>2, <4>3
    <3>2. ABC[3] = <<"connection", "close">> /\ ABC[4] = CRLF
      BY <2>3, <3>1, <1>5, <1>8
    <3>3. /\ Len(H) = 5 /\ H[1] = <<"request", r.path>> /\ H[2] = CRLF
          /\ H[3] = <<"connection", "close">> /\ H[4] = CRLF /\ H[5] = CRLF
      BY <3>1, <3>2, <1>7, <1>8, <1>9
    <3> QED
      BY <2>3, <3>1, <3>3 DEF HeadLine
  <2>4. CASE r.body # <<>> /\ r.close
    <3>1. Len(B) = 2 /\ Len(C) = 2 /\ HeadersEnd(r) = 6 /\ Len(AB) = 4 /\ Len(ABC) = 6
      <4>1. Len(B) = 2 /\ Len(C) = 2
        BY <2>4, <1>4, <1>5
      <4>2. HeadersEnd(r) = 6
        BY <2>4, HeadNumber
      <4>3. Len(AB) = 4
        BY <1>7, <4>1
      <4> QED
        BY <1>8, <4>1, <4>2, <4>3
    <3>2. AB[3] = <<"length", Len(r.body)>> /\ AB[4] = CRLF
      BY <2>4, <3>1, <1>4, <1>7
    <3>3. ABC[5] = <<"connection", "close">> /\ ABC[6] = CRLF
      BY <2>4, <3>1, <1>5, <1>8
    <3>4. /\ Len(H) = 7 /\ H[1] = <<"request", r.path>> /\ H[2] = CRLF
          /\ H[3] = <<"length", Len(r.body)>> /\ H[4] = CRLF
          /\ H[5] = <<"connection", "close">> /\ H[6] = CRLF /\ H[7] = CRLF
      BY <3>1, <3>2, <3>3, <1>7, <1>8, <1>9
    <3> QED
      BY <2>4, <3>1, <3>4 DEF HeadLine
  <2> QED
    BY <2>1, <2>2, <2>3, <2>4, RequestFields
<1>11. HeadersEnd(r) \in Nat /\ r.body \in Seq(Tokens)
  BY HeadNumber, RequestFields
<1>12. /\ H \o r.body \in Seq(Tokens) /\ Len(H \o r.body) = Len(H) + Len(r.body)
       /\ \A i \in 1..Len(H) : (H \o r.body)[i] = H[i]
       /\ \A i \in 1..Len(r.body) : (H \o r.body)[Len(H) + i] = r.body[i]
  <2>1. H \in Seq(Tokens)
    BY <1>9
  <2> QED
    BY <1>11, <2>1
<1> QED
  BY <1>1, <1>10, <1>11, <1>12
-----------------------------------------------------------------------------
(* What the server makes of a text that begins like a request.             *)
Begins(b, r) == \A i \in 1..Len(b) : i <= Len(Wire(r)) => b[i] = Wire(r)[i]

(* What stands at each place of the head.                                  *)
LEMMA HeadLines ==
  ASSUME NEW r \in Requests
  PROVE  /\ HeadLine(r, 1) = <<"request", r.path>> /\ HeadLine(r, 1) # CRLF
         /\ \A i \in {2, 4, 6} : HeadLine(r, i) = CRLF
         /\ HeadLine(r, HeadersEnd(r) + 1) = CRLF
         /\ r.body # <<>> => HeadLine(r, 3) = <<"length", Len(r.body)>>
         /\ r.body = <<>> /\ r.close => HeadLine(r, 3) = <<"connection", "close">>
         /\ r.body # <<>> /\ r.close => HeadLine(r, 5) = <<"connection", "close">>
         /\ \A i \in {3, 5} : i < HeadersEnd(r) => HeadLine(r, i) # CRLF
<1>1. HeadLine(r, 1) = <<"request", r.path>> /\ HeadLine(r, 1) # CRLF
  BY KindsDiffer DEF HeadLine
<1>2. \A i \in {2, 4, 6} : HeadLine(r, i) = CRLF
  BY DEF HeadLine
<1>3. HeadLine(r, HeadersEnd(r) + 1) = CRLF
  <2>1. CASE HeadersEnd(r) = 2
    <3>1. r.body = <<>>
      BY <2>1, HeadNumber
    <3> QED
      BY <2>1, <3>1 DEF HeadLine
  <2>2. CASE HeadersEnd(r) # 2
    BY <2>2, HeadNumber DEF HeadLine
  <2> QED
    BY <2>1, <2>2
<1>4. r.body # <<>> => HeadLine(r, 3) = <<"length", Len(r.body)>>
  BY HeadNumber DEF HeadLine
<1>5. r.body = <<>> /\ r.close => HeadLine(r, 3) = <<"connection", "close">>
  <2> SUFFICES ASSUME r.body = <<>>, r.close PROVE HeadLine(r, 3) = <<"connection", "close">>
    OBVIOUS
  <2>1. HeadersEnd(r) = 4
    BY HeadNumber
  <2> QED
    BY <2>1 DEF HeadLine
<1>6. r.body # <<>> /\ r.close => HeadLine(r, 5) = <<"connection", "close">>
  BY HeadNumber DEF HeadLine
<1>7. \A i \in {3, 5} : i < HeadersEnd(r) => HeadLine(r, i) # CRLF
  <2>1. HeadersEnd(r) > 3 => r.body # <<>> \/ r.close
    BY HeadNumber, RequestFields
  <2>2. HeadersEnd(r) > 5 => r.body # <<>> /\ r.close
    BY HeadNumber, RequestFields
  <2>3. <<"length", Len(r.body)>> # CRLF /\ <<"connection", "close">> # CRLF
    BY KindsDiffer
  <2> QED
    BY <1>4, <1>5, <1>6, <2>1, <2>2, <2>3, RequestFields
<1> QED
  BY <1>1, <1>2, <1>3, <1>4, <1>5, <1>6, <1>7

(* The empty line is where the headers end, and nowhere before.            *)
LEMMA EmptyLine ==
  ASSUME NEW r \in Requests
  PROVE  /\ \A i \in 1..(HeadersEnd(r) - 1) : ~(Wire(r)[i] = CRLF /\ Wire(r)[i + 1] = CRLF)
         /\ Wire(r)[HeadersEnd(r)] = CRLF /\ Wire(r)[HeadersEnd(r) + 1] = CRLF
<1> DEFINE h == HeadersEnd(r)
<1>1. h \in {2, 4, 6}
  BY HeadNumber
<1>2. \A i \in 1..(h + 1) : Wire(r)[i] = HeadLine(r, i)
  BY WireShape
<1>3. /\ HeadLine(r, 1) # CRLF /\ \A i \in {2, 4, 6} : HeadLine(r, i) = CRLF
      /\ HeadLine(r, h + 1) = CRLF /\ \A i \in {3, 5} : i < h => HeadLine(r, i) # CRLF
  BY HeadLines
<1> HIDE DEF h
<1>4. \A i \in 1..(h - 1) : ~(Wire(r)[i] = CRLF /\ Wire(r)[i + 1] = CRLF)
  BY <1>1, <1>2, <1>3
<1>5. Wire(r)[h] = CRLF /\ Wire(r)[h + 1] = CRLF
  BY <1>1, <1>2, <1>3
<1> QED
  BY <1>4, <1>5 DEF h

(* A buffer that begins with a request has its boundary at the end of      *)
(* that request's headers, whatever its body contains.                     *)
LEMMA BoundaryOfText ==
  ASSUME NEW r \in Requests, NEW b \in Seq(Tokens), Begins(b, r)
  PROVE  Boundary(b) = IF Len(b) > HeadersEnd(r) THEN {HeadersEnd(r)} ELSE {}
<1> DEFINE h == HeadersEnd(r)
<1>1. h \in {2, 4, 6} /\ Len(Wire(r)) >= h + 1 /\ Len(b) \in Nat
  <2>1. Len(Wire(r)) = h + 1 + Len(r.body) /\ Len(r.body) \in Nat
    BY WireShape, RequestFields
  <2> QED
    BY <2>1, HeadNumber
<1>2. \A i \in 1..(h - 1) : ~(Wire(r)[i] = CRLF /\ Wire(r)[i + 1] = CRLF)
  BY EmptyLine
<1>3. Wire(r)[h] = CRLF /\ Wire(r)[h + 1] = CRLF
  BY EmptyLine
<1> HIDE DEF h
<1>4. \A i \in 1..Len(b) : i <= h + 1 => b[i] = Wire(r)[i]
  BY <1>1 DEF Begins
<1>5. \A i \in 1..(Len(b) - 1) : i <= h - 1 => ~(b[i] = CRLF /\ b[i + 1] = CRLF)
  <2> SUFFICES ASSUME NEW i \in 1..(Len(b) - 1), i <= h - 1
               PROVE  ~(b[i] = CRLF /\ b[i + 1] = CRLF)
    OBVIOUS
  <2>1. b[i] = Wire(r)[i] /\ b[i + 1] = Wire(r)[i + 1] /\ i \in 1..(h - 1)
    BY <1>1, <1>4
  <2> QED
    BY <1>2, <2>1
<1>6. CASE Len(b) > h
  <2>1. h \in 1..(Len(b) - 1) /\ b[h] = CRLF /\ b[h + 1] = CRLF
    BY <1>1, <1>3, <1>4, <1>6
  <2>2. \A j \in 1..(h - 1) : ~(b[j] = CRLF /\ b[j + 1] = CRLF)
    BY <1>1, <1>5, <1>6
  <2>3. h \in Boundary(b)
    BY <2>1, <2>2 DEF Boundary
  <2>4. ASSUME NEW i \in Boundary(b) PROVE i = h
    <3>1. i \in 1..(Len(b) - 1) /\ b[i] = CRLF /\ b[i + 1] = CRLF
          /\ \A j \in 1..(i - 1) : ~(b[j] = CRLF /\ b[j + 1] = CRLF)
      BY DEF Boundary
    <3>2. ~(i <= h - 1) /\ ~(h <= i - 1)
      BY <1>1, <1>5, <2>1, <3>1
    <3> QED
      BY <1>1, <3>1, <3>2
  <2> QED
    BY <1>6, <2>3, <2>4 DEF h
<1>7. CASE ~(Len(b) > h)
  <2>1. Boundary(b) = {}
    BY <1>1, <1>5, <1>7 DEF Boundary
  <2> QED
    BY <1>7, <2>1 DEF h
<1> QED
  BY <1>6, <1>7

(* What is in front of the empty line.                                     *)
LEMMA HeadersOfText ==
  ASSUME NEW r \in Requests, NEW b \in Seq(Tokens), Begins(b, r), Len(b) > HeadersEnd(r)
  PROVE  /\ HeadersBlock(b) \in Seq(Tokens)
         /\ Len(HeadersBlock(b)) = HeadersEnd(r) - 1
         /\ \A i \in 1..(HeadersEnd(r) - 1) : HeadersBlock(b)[i] = HeadLine(r, i)
<1> DEFINE h == HeadersEnd(r)
<1>1. h \in {2, 4, 6} /\ Len(b) \in Nat /\ Len(b) > h
  BY HeadNumber
<1>2. HeadersBlock(b) = SubSeq(b, 1, h - 1)
  <2>1. Boundary(b) = {h}
    BY BoundaryOfText
  <2> HIDE DEF h
  <2>2. (CHOOSE i \in {h} : TRUE) = h
    OBVIOUS
  <2> QED
    BY <2>1, <2>2, Zenon DEF HeadersBlock
<1>3. ASSUME NEW i \in 1..(h - 1) PROVE b[i] = HeadLine(r, i)
  <2>1. Len(Wire(r)) = h + 1 + Len(r.body) /\ Len(r.body) \in Nat
    BY WireShape, RequestFields
  <2>2. i \in 1..Len(b) /\ i <= Len(Wire(r)) /\ i \in 1..(h + 1)
    BY <1>1, <2>1
  <2>3. b[i] = Wire(r)[i]
    BY <2>2 DEF Begins
  <2>4. Wire(r)[i] = HeadLine(r, i)
    BY <2>2, WireShape
  <2> QED
    BY <2>3, <2>4
<1> HIDE DEF h
<1>4. /\ SubSeq(b, 1, h - 1) \in Seq(Tokens) /\ Len(SubSeq(b, 1, h - 1)) = h - 1
      /\ \A i \in 1..(h - 1) : SubSeq(b, 1, h - 1)[i] = b[i]
  BY <1>1
<1> QED
  BY <1>2, <1>3, <1>4 DEF h

(* The server reads from the headers the path, the length of the body and  *)
(* whether the client asks to close.                                       *)
LEMMA ParsedHeaders ==
  ASSUME NEW r \in Requests, NEW block \in Seq(Tokens), Len(block) = HeadersEnd(r) - 1,
         \A i \in 1..(HeadersEnd(r) - 1) : block[i] = HeadLine(r, i)
  PROVE  /\ RequestPath(block) = r.path
         /\ ContentLength(block) = Len(r.body)
         /\ InHeaders(block, "connection") # {} <=> r.close
<1> DEFINE h == HeadersEnd(r)
<1>1. h \in {2, 4, 6} /\ DOMAIN block = 1..(h - 1)
  BY HeadNumber
<1>2. block[1] = <<"request", r.path>> /\ block[1] # CRLF
  BY <1>1, HeadLines
<1>3. h > 2 => block[2] = CRLF
  BY <1>1, HeadLines
<1>4. FirstLine(block) = {1}
  <2> HIDE DEF h
  <2>1. 1 \in FirstLine(block)
    <3>1. 1 \in DOMAIN block
      BY <1>1
    <3>2. ASSUME NEW j \in 1..1 PROVE block[j] # CRLF
      BY <1>2, j = 1
    <3> QED
      BY <3>1, <3>2 DEF FirstLine
  <2>2. ASSUME NEW i \in FirstLine(block) PROVE i = 1
    <3>1. i \in 1..(h - 1) /\ \A j \in 1..i : block[j] # CRLF
      BY <1>1 DEF FirstLine
    <3> QED
      BY <1>1, <1>3, <3>1
  <2> QED
    BY <2>1, <2>2
<1>5. RequestPath(block) = r.path
  <2>1. InFirstLine(block, "request") = {1}
    BY <1>2, <1>4 DEF InFirstLine
  <2>2. Min({1}) = 1
    BY DEF Min
  <2> QED
    BY <1>2, <2>1, <2>2, <<"request", r.path>>[2] = r.path DEF RequestPath
<1>6. CRLF[1] = "CRLF"
  BY KindsDiffer
<1>7. \A i \in {2, 4, 6} : i <= h - 1 => block[i] = CRLF
  BY <1>1, HeadLines
<1>8. ASSUME NEW kind, kind \in {"length", "connection"}
      PROVE  InHeaders(block, kind) = {i \in {3, 5} : i < h /\ HeadLine(r, i)[1] = kind}
  <2>1. InHeaders(block, kind) = {i \in 2..(h - 1) : block[i][1] = kind}
    BY <1>1, <1>4 DEF InHeaders
  <2>2. \A i \in {2, 4, 6} : i <= h - 1 => block[i][1] # kind
    BY <1>6, <1>7, <1>8
  <2>3. \A i \in 2..(h - 1) : i \in {2, 4, 6} \/ i \in {3, 5}
    BY <1>1
  <2>4. \A i \in {3, 5} : i < h => i \in 2..(h - 1) /\ block[i] = HeadLine(r, i)
    BY <1>1
  <2> HIDE DEF h
  <2>5. \A x : x \in {i \in 2..(h - 1) : block[i][1] = kind}
               <=> x \in {i \in {3, 5} : i < h /\ HeadLine(r, i)[1] = kind}
    BY <1>1, <2>2, <2>3, <2>4
  <2> QED
    BY <2>1, <2>5
<1>9. /\ r.body # <<>> => HeadLine(r, 3) = <<"length", Len(r.body)>>
      /\ r.body = <<>> /\ r.close => HeadLine(r, 3) = <<"connection", "close">>
      /\ r.body # <<>> /\ r.close => HeadLine(r, 5) = <<"connection", "close">>
  BY HeadLines
<1>10. /\ <<"length", Len(r.body)>>[1] = "length" /\ <<"length", Len(r.body)>>[2] = Len(r.body)
       /\ <<"connection", "close">>[1] = "connection"
  OBVIOUS
<1>11. /\ r.body # <<>> => 3 < h
       /\ r.close => 3 < h
       /\ r.body # <<>> /\ r.close => 5 < h
       /\ 5 < h => r.body # <<>> /\ r.close
       /\ 3 < h => r.body # <<>> \/ r.close
       /\ r.body = <<>> => Len(r.body) = 0
  BY HeadNumber, RequestFields
<1>12. InHeaders(block, "length") = IF r.body = <<>> THEN {} ELSE {3}
  <2>1. InHeaders(block, "length") = {i \in {3, 5} : i < h /\ HeadLine(r, i)[1] = "length"}
    BY <1>8
  <2> HIDE DEF h
  <2> QED
    BY <1>9, <1>10, <1>11, <2>1
<1>13. InHeaders(block, "connection") # {} <=> r.close
  <2>1. InHeaders(block, "connection")
          = {i \in {3, 5} : i < h /\ HeadLine(r, i)[1] = "connection"}
    BY <1>8
  <2> HIDE DEF h
  <2> QED
    BY <1>9, <1>10, <1>11, <2>1
<1>14. ContentLength(block) = Len(r.body)
  <2>1. Max({3}) = 3
    BY DEF Max
  <2>2. r.body # <<>> => block[3] = <<"length", Len(r.body)>>
    <3> SUFFICES ASSUME r.body # <<>> PROVE block[3] = HeadLine(r, 3)
      BY <1>9
    <3>1. 3 \in 1..(h - 1)
      BY <1>1, <1>11
    <3> QED
      BY <3>1
  <2> QED
    BY <1>10, <1>11, <1>12, <2>1, <2>2 DEF ContentLength
<1> QED
  BY <1>5, <1>13, <1>14

(* A request is handled when its last byte has come, and no byte later.    *)
LEMMA CompleteText ==
  ASSUME NEW r \in Requests, NEW b \in Seq(Tokens), Begins(b, r)
  PROVE  /\ Complete(b) <=> Len(b) >= Len(Wire(r))
         /\ Complete(b) => RequiredLength(b) = Len(Wire(r))
<1>1. /\ Len(Wire(r)) = HeadersEnd(r) + 1 + Len(r.body)
      /\ HeadersEnd(r) \in Nat /\ Len(r.body) \in Nat /\ Len(b) \in Nat
  BY WireShape, HeadNumber, RequestFields
<1>2. CASE Len(b) > HeadersEnd(r)
  <2>1. Boundary(b) # {}
    <3>1. Boundary(b) = {HeadersEnd(r)}
      BY <1>2, BoundaryOfText
    <3> QED
      BY <3>1
  <2>2. Len(HeadersBlock(b)) = HeadersEnd(r) - 1 /\ ContentLength(HeadersBlock(b)) = Len(r.body)
    BY <1>2, HeadersOfText, ParsedHeaders
  <2>3. RequiredLength(b) = Len(Wire(r))
    BY <1>1, <2>2 DEF RequiredLength
  <2> QED
    BY <2>1, <2>3 DEF Complete
<1>3. CASE ~(Len(b) > HeadersEnd(r))
  <2>1. Boundary(b) = {}
    BY <1>3, BoundaryOfText
  <2>2. Len(b) < Len(Wire(r))
    BY <1>1, <1>3
  <2> QED
    BY <1>1, <2>1, <2>2 DEF Complete
<1> QED
  BY <1>2, <1>3

(* Arithmetic of places: where the body stands in a buffer.                *)
LEMMA PlaceOfBody ==
  ASSUME NEW h \in Nat, NEW m \in Nat, NEW k \in Nat, k >= h + 1 + m
  PROVE  /\ m <= k - (h + 1)
         /\ \A i \in 1..m : /\ h + 1 + i \in 1..k /\ i \in 1..(k - (h + 1))
                           /\ h + 1 + i <= h + 1 + m
  OBVIOUS

(* The reply to a text that begins with a request is the reply to it.      *)
LEMMA ReplyToText ==
  ASSUME NEW r \in Requests, NEW b \in Seq(Tokens), Begins(b, r), Len(b) >= Len(Wire(r))
  PROVE  Answers(Reply(b), r)
<1> DEFINE h == HeadersEnd(r)
           block == HeadersBlock(b)
           behind == BehindHeaders(b)
<1>1. /\ Len(Wire(r)) = h + 1 + Len(r.body)
      /\ h \in Nat /\ Len(r.body) \in Nat /\ Len(b) \in Nat
  BY WireShape, HeadNumber, RequestFields
<1>2. Len(b) > h /\ Len(b) >= h + 1 + Len(r.body)
  BY <1>1
<1>3. Len(block) = h - 1 /\ RequestPath(block) = r.path /\ ContentLength(block) = Len(r.body)
  BY <1>2, HeadersOfText, ParsedHeaders
<1>4. behind = SubSeq(b, h + 2, Len(b))
  <2>1. (h - 1) + 3 = h + 2
    BY <1>1
  <2> QED
    BY <1>3, <2>1 DEF BehindHeaders
<1> HIDE DEF h, block, behind
<1>5. SubSeq(behind, 1, Len(r.body)) = r.body
  <2> DEFINE n == Len(r.body)
  <2>1. r.body \in Seq(Tokens)
    BY RequestFields
  <2>2. /\ behind \in Seq(Tokens) /\ Len(behind) = Len(b) - (h + 1)
        /\ \A i \in 1..(Len(b) - (h + 1)) : behind[i] = b[h + 1 + i]
    BY <1>1, <1>2, <1>4
  <2>3. ASSUME NEW i \in 1..n PROVE behind[i] = r.body[i]
    <3>1. h + 1 + i \in 1..Len(b) /\ h + 1 + i <= Len(Wire(r)) /\ i \in 1..(Len(b) - (h + 1))
      BY <1>1, <1>2, PlaceOfBody
    <3>2. b[h + 1 + i] = Wire(r)[h + 1 + i]
      BY <3>1 DEF Begins
    <3>3. Wire(r)[h + 1 + i] = r.body[i]
      BY WireShape DEF h
    <3> QED
      BY <2>2, <3>1, <3>2, <3>3
  <2>4. n \in Nat /\ n <= Len(behind)
    BY <1>1, <1>2, <2>2, PlaceOfBody
  <2> HIDE DEF n
  <2>5. /\ SubSeq(behind, 1, n) \in Seq(Tokens) /\ Len(SubSeq(behind, 1, n)) = n
        /\ \A i \in 1..n : SubSeq(behind, 1, n)[i] = behind[i]
    BY <2>2, <2>4
  <2>6. \A i \in 1..n : SubSeq(behind, 1, n)[i] = r.body[i]
    BY <2>3, <2>5
  <2> QED
    BY <2>1, <2>5, <2>6 DEF n
<1>6. /\ Reply(b).path = r.path
      /\ Reply(b).body = r.body
      /\ Reply(b).status = IF r.path = NoPath \/ r.path \in routes \cap Throwing THEN 400
                           ELSE IF r.path \in routes THEN 200 ELSE 404
  BY <1>3, <1>5 DEF Reply, block, behind
<1> QED
  BY <1>6 DEF Answers
-----------------------------------------------------------------------------
(* The stream of a connection: its requests one after the other.           *)
LEMMA FlattenType ==
  ASSUME NEW S, NEW seqs \in Seq(Seq(S))
  PROVE  FlattenSeq(seqs) \in Seq(S)
<1> DEFINE F(j) == FlattenSeq(SubSeq(seqs, 1, j))
           T == {j \in Nat : j <= Len(seqs) /\ F(j) \notin Seq(S)}
<1>1. Len(seqs) \in Nat /\ SubSeq(seqs, 1, Len(seqs)) = seqs
  OBVIOUS
<1>2. T = {}
  <2> SUFFICES ASSUME T # {} PROVE FALSE
    OBVIOUS
  <2>1. PICK j \in T : \A y \in T : j <= y
    BY LeastElement
  <2>2. j # 0
    <3>1. F(0) = <<>>
      <4>1. SubSeq(seqs, 1, 0) = <<>>
        OBVIOUS
      <4> QED
        BY <4>1, Len(<<>>) = 0 DEF FlattenSeq
    <3> HIDE DEF F
    <3>2. F(0) \in Seq(S)
      BY <3>1, <<>> \in Seq(S), Zenon
    <3> QED
      BY <3>2, <2>1
  <2>3. j - 1 \in 0..(Len(seqs) - 1) /\ j - 1 \in Nat /\ j - 1 <= Len(seqs) /\ (j - 1) + 1 = j
    BY <1>1, <2>1, <2>2
  <2>4. F(j) = F(j - 1) \o seqs[j]
    <3>1. F((j - 1) + 1) = F(j - 1) \o seqs[(j - 1) + 1]
      BY <2>3, FlattenPrefix
    <3> QED
      BY <2>3, <3>1
  <2> HIDE DEF F
  <2>5. F(j - 1) \in Seq(S)
    BY <2>1, <2>3
  <2>6. seqs[j] \in Seq(S)
    <3>1. j \in 1..Len(seqs)
      BY <1>1, <2>1, <2>2
    <3> QED
      BY <3>1
  <2>7. F(j) \in Seq(S)
    BY <2>4, <2>5, <2>6
  <2> QED
    BY <2>1, <2>7
<1>3. F(Len(seqs)) \in Seq(S)
  BY <1>1, <1>2
<1> QED
  BY <1>1, <1>3

(* The wire of the first requests of a stream, as the flattened prefix of  *)
(* all wires.                                                              *)
LEMMA WiresOfPrefix ==
  ASSUME NEW T, NEW rs \in Seq(Requests), NEW j \in 0..Len(rs),
         \A i \in 1..Len(rs) : Wire(rs[i]) \in Seq(T)
  PROVE  WireAll(SubSeq(rs, 1, j)) = FlattenSeq(SubSeq([i \in 1..Len(rs) |-> Wire(rs[i])], 1, j))
<1> DEFINE p == SubSeq(rs, 1, j)
           w == [i \in 1..Len(rs) |-> Wire(rs[i])]
<1>1. p \in Seq(Requests) /\ Len(p) = j /\ DOMAIN p = 1..j /\ \A i \in 1..j : p[i] = rs[i]
  OBVIOUS
<1>2. w \in Seq(Seq(T)) /\ Len(w) = Len(rs)
  OBVIOUS
<1>3. SubSeq(w, 1, j) = [i \in 1..j |-> w[i]]
  BY <1>2
<1>4. [i \in DOMAIN p |-> Wire(p[i])] = SubSeq(w, 1, j)
  <2>1. \A i \in 1..j : Wire(p[i]) = w[i]
    BY <1>1
  <2> QED
    BY <1>1, <1>3, <2>1
<1> QED
  BY <1>4 DEF WireAll

End(rs, j) == Len(WireAll(SubSeq(rs, 1, j)))

(* The wire of one request more.                                           *)
LEMMA StreamGrows ==
  ASSUME NEW rs \in Seq(Requests), NEW j \in 0..(Len(rs) - 1)
  PROVE  /\ WireAll(SubSeq(rs, 1, 0)) = <<>>
         /\ WireAll(SubSeq(rs, 1, j + 1)) = WireAll(SubSeq(rs, 1, j)) \o Wire(rs[j + 1])
<1> DEFINE w == [i \in 1..Len(rs) |-> Wire(rs[i])]
<1>1. \A i \in 1..Len(rs) : Wire(rs[i]) \in Seq(Tokens)
  BY WireShape
<1>2. w \in Seq(Seq(Tokens)) /\ Len(w) = Len(rs)
  BY <1>1
<1>3. \A k \in 0..Len(rs) : WireAll(SubSeq(rs, 1, k)) = FlattenSeq(SubSeq(w, 1, k))
  BY <1>1, WiresOfPrefix
<1>4. w[j + 1] = Wire(rs[j + 1])
  OBVIOUS
<1> HIDE DEF w
<1>5. j \in 0..(Len(w) - 1) /\ 0 \in 0..Len(rs) /\ j \in 0..Len(rs) /\ j + 1 \in 0..Len(rs)
  BY <1>2
<1>6. /\ FlattenSeq(SubSeq(w, 1, 0)) = <<>>
      /\ FlattenSeq(SubSeq(w, 1, j + 1)) = FlattenSeq(SubSeq(w, 1, j)) \o w[j + 1]
  BY <1>2, <1>5, FlattenPrefix
<1> QED
  BY <1>3, <1>4, <1>5, <1>6

(* What the wires of a prefix are made of.                                 *)
LEMMA StreamType ==
  ASSUME NEW T, NEW rs \in Seq(Requests), NEW j \in 0..Len(rs),
         \A i \in 1..Len(rs) : Wire(rs[i]) \in Seq(T)
  PROVE  WireAll(SubSeq(rs, 1, j)) \in Seq(T)
<1> DEFINE w == [i \in 1..Len(rs) |-> Wire(rs[i])]
<1>1. w \in Seq(Seq(T)) /\ Len(w) = Len(rs)
  OBVIOUS
<1>2. WireAll(SubSeq(rs, 1, j)) = FlattenSeq(SubSeq(w, 1, j))
  BY WiresOfPrefix
<1> HIDE DEF w
<1>3. SubSeq(w, 1, j) \in Seq(Seq(T))
  BY <1>1
<1> QED
  BY <1>2, <1>3, FlattenType

(* Where each request of a stream ends.                                    *)
LEMMA EndGrows ==
  ASSUME NEW rs \in Seq(Requests)
  PROVE  /\ \A j \in 0..Len(rs) : WireAll(SubSeq(rs, 1, j)) \in Seq(Tokens) /\ End(rs, j) \in Nat
         /\ End(rs, 0) = 0
         /\ \A j \in 0..(Len(rs) - 1) :
              End(rs, j + 1) = End(rs, j) + Len(Wire(rs[j + 1])) /\ Len(Wire(rs[j + 1])) \in Nat \ {0}
<1>1. \A i \in 1..Len(rs) : rs[i] \in Requests /\ Wire(rs[i]) \in Seq(Tokens)
  BY WireShape
<1>2. ASSUME NEW j \in 0..Len(rs)
      PROVE  WireAll(SubSeq(rs, 1, j)) \in Seq(Tokens) /\ End(rs, j) \in Nat
  <2>1. WireAll(SubSeq(rs, 1, j)) \in Seq(Tokens)
    BY <1>1, StreamType
  <2> QED
    BY <2>1 DEF End
<1>3. End(rs, 0) = 0
  <2>1. SubSeq(rs, 1, 0) = <<>>
    OBVIOUS
  <2>2. [i \in DOMAIN <<>> |-> Wire(<<>>[i])] = <<>>
    OBVIOUS
  <2>3. WireAll(<<>>) = <<>>
    BY <2>2, Len(<<>>) = 0 DEF WireAll, FlattenSeq
  <2> QED
    BY <2>1, <2>3, Len(<<>>) = 0, Zenon DEF End
<1>4. ASSUME NEW j \in 0..(Len(rs) - 1)
      PROVE  End(rs, j + 1) = End(rs, j) + Len(Wire(rs[j + 1])) /\ Len(Wire(rs[j + 1])) \in Nat \ {0}
  <2>1. j \in 0..Len(rs) /\ j + 1 \in 1..Len(rs)
    OBVIOUS
  <2>2. rs[j + 1] \in Requests /\ Wire(rs[j + 1]) \in Seq(Tokens)
    BY <1>1, <2>1
  <2>3. WireAll(SubSeq(rs, 1, j)) \in Seq(Tokens)
    BY <1>2, <2>1
  <2>4. WireAll(SubSeq(rs, 1, j + 1)) = WireAll(SubSeq(rs, 1, j)) \o Wire(rs[j + 1])
    BY StreamGrows
  <2>5. Len(WireAll(SubSeq(rs, 1, j + 1)))
          = Len(WireAll(SubSeq(rs, 1, j))) + Len(Wire(rs[j + 1]))
    BY <2>2, <2>3, <2>4, Joined
  <2>6. Len(Wire(rs[j + 1])) \in Nat \ {0}
    <3>1. ASSUME NEW r \in Requests PROVE Len(Wire(r)) \in Nat \ {0}
      <4>1. Len(Wire(r)) = HeadersEnd(r) + 1 + Len(r.body)
        BY WireShape
      <4>2. HeadersEnd(r) \in Nat
        BY HeadNumber
      <4>3. Len(r.body) \in Nat
        BY RequestFields
      <4> QED
        BY <4>1, <4>2, <4>3
    <3> QED
      BY <2>2, <3>1
  <2> QED
    BY <2>5, <2>6 DEF End
<1> QED
  BY <1>2, <1>3, <1>4

(* A later request ends later.                                             *)
LEMMA EndsInOrder ==
  ASSUME NEW rs \in Seq(Requests), NEW j \in 0..Len(rs), NEW k \in j..Len(rs)
  PROVE  End(rs, j) + (k - j) <= End(rs, k)
<1> DEFINE E(l) == End(rs, l)
           n == Len(rs)
           T == {l \in Nat : j <= l /\ l <= n /\ ~(E(j) + (l - j) <= E(l))}
<1> SUFFICES ASSUME T # {} PROVE FALSE
  OBVIOUS
<1>1. n \in Nat /\ j \in Nat
  OBVIOUS
<1>2. PICK l \in T : \A y \in T : l <= y
  BY LeastElement
<1>3. \A i \in 0..n : E(i) \in Nat
  BY EndGrows
<1>4. ASSUME NEW i \in 0..(n - 1) PROVE E(i + 1) >= E(i) + 1
  <2>1. End(rs, i + 1) = End(rs, i) + Len(Wire(rs[i + 1])) /\ Len(Wire(rs[i + 1])) \in Nat \ {0}
    BY EndGrows
  <2>2. E(i) \in Nat
    BY <1>1, <1>3
  <2> QED
    BY <2>1, <2>2
<1> HIDE DEF E, n
<1>5. l # j
  BY <1>1, <1>2, <1>3
<1>6. l - 1 \in Nat /\ j <= l - 1 /\ l - 1 <= n /\ l - 1 \notin T
  BY <1>1, <1>2, <1>5
<1>7. E(j) + ((l - 1) - j) <= E(l - 1)
  BY <1>6
<1>8. l - 1 \in 0..(n - 1) /\ (l - 1) + 1 = l
  BY <1>1, <1>2, <1>6
<1>9. E(l) >= E(l - 1) + 1
  BY <1>4, <1>8
<1>10. E(j) \in Nat /\ E(l) \in Nat /\ E(l - 1) \in Nat
  BY <1>1, <1>2, <1>3, <1>6
<1> QED
  BY <1>1, <1>2, <1>7, <1>9, <1>10

(* Each request stands in the stream behind the ones before it.            *)
LEMMA PlaceInStream ==
  ASSUME NEW rs \in Seq(Requests), NEW j \in 0..(Len(rs) - 1), NEW k \in (j + 1)..Len(rs)
  PROVE  \A i \in 1..Len(Wire(rs[j + 1])) :
           WireAll(SubSeq(rs, 1, k))[End(rs, j) + i] = Wire(rs[j + 1])[i]
<1> DEFINE n == Len(rs)
           W(l) == WireAll(SubSeq(rs, 1, l))
           Placed(l) == \A i \in 1..Len(Wire(rs[j + 1])) : W(l)[End(rs, j) + i] = Wire(rs[j + 1])[i]
           T == {l \in Nat : j + 1 <= l /\ l <= n /\ ~Placed(l)}
<1> SUFFICES ASSUME T # {} PROVE FALSE
  OBVIOUS
<1>1. n \in Nat /\ j \in Nat /\ j + 1 <= n
  OBVIOUS
<1>2. PICK l \in T : \A y \in T : l <= y
  BY LeastElement
<1>3. \A i \in 0..n : W(i) \in Seq(Tokens)
  BY EndGrows
<1>4. ASSUME NEW i \in 1..n PROVE Wire(rs[i]) \in Seq(Tokens)
  BY rs[i] \in Requests, WireShape
<1>5. ASSUME NEW i \in 0..(n - 1) PROVE W(i + 1) = W(i) \o Wire(rs[i + 1])
  BY StreamGrows
<1>6. End(rs, j) = Len(W(j))
  BY DEF End
<1>7. Placed(j + 1)
  <2>1. W(j) \in Seq(Tokens) /\ Wire(rs[j + 1]) \in Seq(Tokens)
    <3>1. j \in 0..n /\ j + 1 \in 1..n
      BY <1>1
    <3> HIDE DEF W, n
    <3> QED
      BY <1>3, <1>4, <3>1
  <2>2. W(j + 1) = W(j) \o Wire(rs[j + 1])
    BY <1>1, <1>5
  <2> HIDE DEF W
  <2> QED
    BY <1>6, <2>1, <2>2, Joined
<1> HIDE DEF Placed, n
<1>8. l # j + 1 /\ l \in Nat /\ j + 1 <= l /\ l <= n
  BY <1>2, <1>7
<1>9. l - 1 \in Nat /\ j + 1 <= l - 1 /\ l - 1 <= n /\ l - 1 \notin T
  BY <1>1, <1>2, <1>8
<1>10. Placed(l - 1)
  BY <1>9
<1>11. W(l) = W(l - 1) \o Wire(rs[l])
  <2>1. l - 1 \in 0..(n - 1) /\ (l - 1) + 1 = l
    BY <1>1, <1>8, <1>9
  <2> HIDE DEF W
  <2> QED
    BY <1>5, <2>1
<1>12. W(l - 1) \in Seq(Tokens) /\ Wire(rs[l]) \in Seq(Tokens)
  BY <1>1, <1>3, <1>4, <1>8, <1>9
<1>13. \A i \in 1..Len(W(l - 1)) : W(l)[i] = W(l - 1)[i]
  <2> HIDE DEF W
  <2> QED
    BY <1>11, <1>12, Joined
<1>14. Placed(l)
  <2> SUFFICES ASSUME NEW i \in 1..Len(Wire(rs[j + 1]))
               PROVE  W(l)[End(rs, j) + i] = Wire(rs[j + 1])[i]
    BY DEF Placed
  <2>1. W(l - 1)[End(rs, j) + i] = Wire(rs[j + 1])[i]
    BY <1>10 DEF Placed
  <2>2. End(rs, j) + i \in 1..Len(W(l - 1))
    <3>1. End(rs, j + 1) = End(rs, j) + Len(Wire(rs[j + 1])) /\ Len(Wire(rs[j + 1])) \in Nat
      BY EndGrows
    <3>2. j + 1 \in 0..Len(rs) /\ l - 1 \in (j + 1)..Len(rs) /\ j \in 0..Len(rs) /\ l - 1 \in 0..Len(rs)
      BY <1>1, <1>9 DEF n
    <3>3. End(rs, j + 1) + ((l - 1) - (j + 1)) <= End(rs, l - 1)
      BY <3>2, EndsInOrder
    <3>4. End(rs, j) \in Nat /\ End(rs, l - 1) \in Nat
      BY <3>2, EndGrows
    <3>5. End(rs, l - 1) = Len(W(l - 1))
      BY DEF End
    <3> HIDE DEF W
    <3> QED
      BY <1>1, <1>9, <3>1, <3>3, <3>4, <3>5
  <2> QED
    BY <1>13, <2>1, <2>2
<1> QED
  BY <1>2, <1>14

(* What has come of a stream behind its first j requests begins like the   *)
(* next one.                                                               *)
Rest(rs, j, a) == SubSeq(WireAll(rs), End(rs, j) + 1, a)

(* The stream is its longest prefix.                                       *)
LEMMA WholeStream ==
  ASSUME NEW rs \in Seq(Requests)
  PROVE  /\ WireAll(rs) \in Seq(Tokens) /\ Len(WireAll(rs)) = End(rs, Len(rs))
         /\ WireAll(rs) = WireAll(SubSeq(rs, 1, Len(rs)))
<1>1. SubSeq(rs, 1, Len(rs)) = rs /\ Len(rs) \in 0..Len(rs)
  OBVIOUS
<1> QED
  BY <1>1, EndGrows DEF End

(* The arrived part of a stream behind its first requests.                 *)
LEMMA RestShape ==
  ASSUME NEW rs \in Seq(Requests), NEW j \in 0..Len(rs), NEW a \in Nat,
         End(rs, j) <= a, a <= Len(WireAll(rs))
  PROVE  /\ Rest(rs, j, a) \in Seq(Tokens) /\ Len(Rest(rs, j, a)) = a - End(rs, j)
         /\ \A i \in 1..(a - End(rs, j)) : Rest(rs, j, a)[i] = WireAll(rs)[End(rs, j) + i]
<1> DEFINE W == WireAll(rs)
           e == End(rs, j)
<1>1. W \in Seq(Tokens) /\ e \in Nat /\ e <= a /\ a <= Len(W)
  BY WholeStream, EndGrows
<1> HIDE DEF W, e
<1>2. /\ SubSeq(W, e + 1, a) \in Seq(Tokens) /\ Len(SubSeq(W, e + 1, a)) = a - e
      /\ \A i \in 1..(a - e) : SubSeq(W, e + 1, a)[i] = W[e + i]
  BY <1>1
<1> QED
  BY <1>2, Zenon DEF W, e, Rest

(* What has arrived behind the first requests begins with the next.        *)
LEMMA RestBegins ==
  ASSUME NEW rs \in Seq(Requests), NEW j \in 0..(Len(rs) - 1), NEW a \in Nat,
         End(rs, j) <= a, a <= Len(WireAll(rs))
  PROVE  rs[j + 1] \in Requests /\ Begins(Rest(rs, j, a), rs[j + 1])
<1>1. j \in 0..Len(rs) /\ j + 1 \in 1..Len(rs) /\ Len(rs) \in (j + 1)..Len(rs)
  OBVIOUS
<1>2. rs[j + 1] \in Requests
  BY <1>1
<1>3. ASSUME NEW i \in 1..Len(Rest(rs, j, a)), i <= Len(Wire(rs[j + 1]))
      PROVE  Rest(rs, j, a)[i] = Wire(rs[j + 1])[i]
  <2>1. Len(Rest(rs, j, a)) = a - End(rs, j)
    BY <1>1, RestShape
  <2>2. Rest(rs, j, a)[i] = WireAll(rs)[End(rs, j) + i]
    BY <1>1, <2>1, RestShape
  <2>3. i \in 1..Len(Wire(rs[j + 1]))
    <3>1. Len(Wire(rs[j + 1])) \in Nat /\ Len(Rest(rs, j, a)) \in Nat
      <4>1. Rest(rs, j, a) \in Seq(Tokens)
        BY <1>1, RestShape
      <4> QED
        BY <4>1, EndGrows
    <3> QED
      BY <1>3, <3>1
  <2>4. WireAll(rs)[End(rs, j) + i] = Wire(rs[j + 1])[i]
    BY <1>1, <2>3, PlaceInStream, WholeStream
  <2> QED
    BY <2>2, <2>4
<1> QED
  BY <1>2, <1>3 DEF Begins

(* What is left of a buffer whose front is cut off.                        *)
LEMMA Dropped ==
  ASSUME NEW S, NEW b \in Seq(S), NEW l \in 0..Len(b)
  PROVE  /\ SubSeq(b, l + 1, Len(b)) \in Seq(S) /\ Len(SubSeq(b, l + 1, Len(b))) = Len(b) - l
         /\ \A i \in 1..(Len(b) - l) : SubSeq(b, l + 1, Len(b))[i] = b[l + i]
  OBVIOUS

(* Without the next request the rest shrinks to the rest behind it.        *)
LEMMA RestOfRest ==
  ASSUME NEW rs \in Seq(Requests), NEW j \in 0..(Len(rs) - 1), NEW a \in Nat,
         End(rs, j + 1) <= a, a <= Len(WireAll(rs))
  PROVE  SubSeq(Rest(rs, j, a), Len(Wire(rs[j + 1])) + 1, Len(Rest(rs, j, a))) = Rest(rs, j + 1, a)
<1> DEFINE W == WireAll(rs)
           e == End(rs, j)
           l == Len(Wire(rs[j + 1]))
           b == Rest(rs, j, a)
           c == Rest(rs, j + 1, a)
<1>1. j \in 0..Len(rs) /\ j + 1 \in 0..Len(rs)
  OBVIOUS
<1>2. e \in Nat /\ l \in Nat /\ End(rs, j + 1) = e + l /\ a <= Len(W) /\ Len(W) \in Nat
  BY <1>1, EndGrows, WholeStream
<1>3. e <= a /\ e + l <= a
  BY <1>2
<1>4. b \in Seq(Tokens) /\ Len(b) = a - e /\ \A i \in 1..(a - e) : b[i] = W[e + i]
  BY <1>1, <1>3, RestShape
<1>5. c \in Seq(Tokens) /\ Len(c) = a - (e + l) /\ \A i \in 1..(a - (e + l)) : c[i] = W[e + l + i]
  BY <1>1, <1>2, RestShape
<1> HIDE DEF W, e, l, b, c
<1> DEFINE d == SubSeq(b, l + 1, Len(b))
<1>6. /\ d \in Seq(Tokens) /\ Len(d) = a - (e + l)
      /\ \A i \in 1..(a - (e + l)) : d[i] = b[l + i]
  <2>1. l \in 0..Len(b) /\ Len(b) - l = a - (e + l)
    BY <1>2, <1>3, <1>4
  <2>2. /\ d \in Seq(Tokens) /\ Len(d) = Len(b) - l
        /\ \A i \in 1..(Len(b) - l) : d[i] = b[l + i]
    BY <1>4, <2>1, Dropped
  <2> QED
    BY <2>1, <2>2
<1> HIDE DEF d
<1>7. ASSUME NEW i \in 1..(a - (e + l)) PROVE d[i] = c[i]
  <2>1. l + i \in 1..(a - e) /\ e + (l + i) = e + l + i
    BY <1>2, <1>3
  <2>2. d[i] = b[l + i] /\ b[l + i] = W[e + (l + i)] /\ c[i] = W[e + l + i]
    BY <1>4, <1>5, <1>6, <2>1
  <2> QED
    BY <2>1, <2>2
<1>8. d = c
  BY <1>5, <1>6, <1>7
<1> QED
  BY <1>8 DEF d, l, b, c
-----------------------------------------------------------------------------
(* The while loop is recursive: a round of it, and its equation up to n.   *)
Round(before) ==
  IF ~Complete(before.buffer) THEN before
  ELSE [buffer |-> SubSeq(before.buffer, RequiredLength(before.buffer) + 1, Len(before.buffer)),
        replies |-> Append(before.replies, Reply(before.buffer))]
LoopStep(text, g, n) ==
  IF n = 0 THEN [buffer |-> text, replies |-> <<>>] ELSE Round(g[n - 1])
LoopsUpTo(text, n, g) == g = [i \in 0..n |-> LoopStep(text, g, i)]

(* The framing loop has a result for a buffer of every length.             *)
LEMMA LoopingExists ==
  ASSUME NEW text, NEW n \in Nat
  PROVE  \E g : LoopsUpTo(text, n, g)
<1> DEFINE T == {m \in Nat : ~ \E g : LoopsUpTo(text, m, g)}
<1> SUFFICES ASSUME T # {} PROVE FALSE
  OBVIOUS
<1>1. PICK m \in T : \A y \in T : m <= y
  BY LeastElement
<1>2. PICK g : m # 0 => LoopsUpTo(text, m - 1, g)
  <2>1. m # 0 => m - 1 \in Nat /\ m - 1 \notin T
    BY <1>1
  <2> QED
    BY <2>1
<1> DEFINE h == [i \in 0..m |-> LoopStep(text, g, i)]
<1>3. ASSUME NEW i \in 0..m PROVE LoopStep(text, g, i) = LoopStep(text, h, i)
  <2>1. CASE i = 0
    BY <2>1 DEF LoopStep
  <2>2. CASE i # 0
    <3>1. i - 1 \in 0..(m - 1) /\ i - 1 \in 0..m
      BY <2>2
    <3>2. g[i - 1] = LoopStep(text, g, i - 1)
      BY <1>2, <3>1 DEF LoopsUpTo
    <3>3. g[i - 1] = h[i - 1]
      BY <3>1, <3>2
    <3> HIDE DEF h
    <3> QED
      BY <2>2, <3>3, Zenon DEF LoopStep
  <2> QED
    BY <2>1, <2>2
<1>4. h = [i \in 0..m |-> LoopStep(text, h, i)]
  BY <1>3
<1>5. LoopsUpTo(text, m, h)
  BY <1>4 DEF LoopsUpTo
<1> QED
  BY <1>1, <1>5

(* Loop is what that function gives at the length of the text.             *)
LEMMA LoopEquation ==
  ASSUME NEW text, Len(text) \in Nat
  PROVE  \E g : LoopsUpTo(text, Len(text), g) /\ Loop(text) = g[Len(text)]
<1> DEFINE g == CHOOSE f : f = [i \in 0..Len(text) |-> LoopStep(text, f, i)]
<1>1. LoopsUpTo(text, Len(text), g)
  BY LoopingExists DEF LoopsUpTo
<1>2. Loop(text) = g[Len(text)]
  BY DEF Loop, LoopStep, Round
<1> HIDE DEF g
<1> QED
  BY <1>1, <1>2

(* Every reply that any text can get.                                      *)
Replies ==
  [status : {200, 400, 404}, path : {RequestPath(HeadersBlock(b)) : b \in Seq(Tokens)},
   body : {SubSeq(BehindHeaders(b), 1, ContentLength(HeadersBlock(b))) : b \in Seq(Tokens)},
   close : BOOLEAN]

(* A complete text has one of the replies: a handler's, a 404 or a 400.    *)
LEMMA ReplyType == \A b \in Seq(Tokens) : Reply(b) \in Replies
<1> SUFFICES ASSUME NEW b \in Seq(Tokens) PROVE Reply(b) \in Replies
  OBVIOUS
<1> DEFINE P == {RequestPath(HeadersBlock(c)) : c \in Seq(Tokens)}
           B == {SubSeq(BehindHeaders(c), 1, ContentLength(HeadersBlock(c))) : c \in Seq(Tokens)}
<1>1. /\ RequestPath(HeadersBlock(b)) \in P
      /\ SubSeq(BehindHeaders(b), 1, ContentLength(HeadersBlock(b))) \in B
  OBVIOUS
<1>2. Replies = [status : {200, 400, 404}, path : P, body : B, close : BOOLEAN]
  BY DEF Replies
<1> HIDE DEF P, B
<1> QED
  BY <1>1, <1>2 DEF Reply

(* The replies of a loop answer the requests that are whole, in order; the *)
(* rest is left.                                                           *)
LEMMA LoopFrames ==
  ASSUME NEW rs \in Seq(Requests), NEW m \in 0..Len(rs), NEW a \in Nat,
         End(rs, m) <= a, a <= Len(WireAll(rs)), NEW text, text = Rest(rs, m, a)
  PROVE  \E k \in m..Len(rs) :
           /\ End(rs, k) <= a /\ (k < Len(rs) => a < End(rs, k + 1))
           /\ Loop(text).buffer = Rest(rs, k, a)
           /\ Loop(text).replies \in Seq(Replies) /\ Len(Loop(text).replies) = k - m
           /\ \A i \in 1..(k - m) : Answers(Loop(text).replies[i], rs[m + i])
<1> DEFINE N == Len(rs)
           L == Len(text)
           E(k) == End(rs, k)
<1>1. N \in Nat /\ m \in Nat /\ m <= N
  OBVIOUS
<1>2. text \in Seq(Tokens) /\ L = a - E(m) /\ L \in Nat
  <2>1. text \in Seq(Tokens) /\ Len(text) = a - E(m)
    BY RestShape
  <2>2. E(m) \in Nat /\ E(m) <= a
    BY EndGrows
  <2> QED
    BY <2>1, <2>2
<1>3. PICK g : LoopsUpTo(text, L, g) /\ Loop(text) = g[L]
  BY <1>2, LoopEquation
<1>4. \A i \in 0..L : g[i] = LoopStep(text, g, i)
  BY <1>3 DEF LoopsUpTo
<1> DEFINE Framed(n, k) ==
             /\ E(k) <= a /\ (k = m + n \/ (k < N => a < E(k + 1)))
             /\ g[n].buffer = Rest(rs, k, a)
             /\ g[n].replies \in Seq(Replies) /\ Len(g[n].replies) = k - m
             /\ \A i \in 1..(k - m) : Answers(g[n].replies[i], rs[m + i])
           T == {n \in Nat : n <= L /\ ~ \E k \in m..N : Framed(n, k)}
<1>5. Framed(0, m)
  <2>1. g[0] = [buffer |-> text, replies |-> <<>>]
    BY <1>2, <1>4 DEF LoopStep
  <2>2. <<>> \in Seq(Replies) /\ Len(<<>>) = 0 /\ m - m = 0 /\ m = m + 0
    BY <1>1
  <2>3. g[0].buffer = text /\ g[0].replies = <<>>
    BY <2>1
  <2> QED
    BY <2>2, <2>3
<1>6. ASSUME NEW n \in Nat, n < L, NEW k \in m..N, Framed(n, k)
      PROVE  \E l \in m..N : Framed(n + 1, l)
  <2> DEFINE b == g[n].buffer
             q == g[n].replies
  <2>1. g[n + 1] = Round(g[n])
    <3>1. n + 1 \in 0..L /\ n + 1 # 0 /\ (n + 1) - 1 = n
      BY <1>2, <1>6
    <3> QED
      BY <1>4, <3>1, Zenon DEF LoopStep
  <2>2. CASE ~Complete(b)
    <3>1. g[n + 1] = g[n]
      BY <2>1, <2>2 DEF Round
    <3>2. k < N => a < E(k + 1)
      <4> SUFFICES ASSUME k < N PROVE a < E(k + 1)
        OBVIOUS
      <4>1. k \in 0..(N - 1) /\ k \in 0..N
        BY <1>1
      <4>2. rs[k + 1] \in Requests /\ Begins(b, rs[k + 1])
        BY <1>6, <4>1, RestBegins
      <4>3. b \in Seq(Tokens) /\ Len(b) = a - E(k)
        BY <1>6, <4>1, RestShape
      <4>4. ~(Len(b) >= Len(Wire(rs[k + 1])))
        BY <2>2, <4>2, <4>3, CompleteText
      <4>5. /\ E(k + 1) = E(k) + Len(Wire(rs[k + 1])) /\ E(k) \in Nat
            /\ Len(Wire(rs[k + 1])) \in Nat
        BY <4>1, EndGrows
      <4> QED
        BY <4>3, <4>4, <4>5
    <3>3. Framed(n + 1, k)
      BY <1>6, <3>1, <3>2
    <3> QED
      BY <3>3
  <2>3. CASE Complete(b)
    <3>1. k < N
      <4> SUFFICES ASSUME k = N PROVE FALSE
        BY <1>1
      <4>1. E(N) = Len(WireAll(rs)) /\ E(N) \in Nat /\ k \in 0..N
        BY <1>1, WholeStream, EndGrows
      <4>2. Len(b) = a - E(N)
        BY <1>6, <4>1, RestShape
      <4>3. Len(b) = 0
        BY <1>6, <4>1, <4>2
      <4>4. Boundary(b) = {}
        BY <4>3 DEF Boundary
      <4> QED
        BY <2>3, <4>4 DEF Complete
    <3>2. k \in 0..(N - 1) /\ k \in 0..N /\ k + 1 \in 0..N /\ k + 1 \in m..N
      BY <1>1, <3>1
    <3>3. rs[k + 1] \in Requests /\ Begins(b, rs[k + 1])
      BY <1>6, <3>2, RestBegins
    <3>4. b \in Seq(Tokens) /\ Len(b) = a - E(k)
      BY <1>6, <3>2, RestShape
    <3>5. Len(b) >= Len(Wire(rs[k + 1])) /\ RequiredLength(b) = Len(Wire(rs[k + 1]))
      BY <2>3, <3>3, <3>4, CompleteText
    <3>6. Answers(Reply(b), rs[k + 1])
      BY <3>3, <3>4, <3>5, ReplyToText
    <3>7. E(k + 1) <= a
      <4>1. E(k + 1) = E(k) + Len(Wire(rs[k + 1])) /\ E(k) \in Nat
            /\ Len(Wire(rs[k + 1])) \in Nat
        BY <3>2, EndGrows
      <4> QED
        BY <3>4, <3>5, <4>1
    <3>8. g[n + 1] = [buffer |-> SubSeq(b, RequiredLength(b) + 1, Len(b)),
                      replies |-> Append(q, Reply(b))]
      BY <2>1, <2>3 DEF Round
    <3>9. g[n + 1].buffer = Rest(rs, k + 1, a)
      <4>1. g[n + 1].buffer = SubSeq(b, Len(Wire(rs[k + 1])) + 1, Len(b))
        <5>1. RequiredLength(b) = Len(Wire(rs[k + 1]))
          BY <3>5
        <5> DEFINE rest == SubSeq(b, RequiredLength(b) + 1, Len(b))
                   all == Append(q, Reply(b))
        <5>2. g[n + 1].buffer = rest
          <6>1. g[n + 1] = [buffer |-> rest, replies |-> all]
            BY <3>8
          <6> HIDE DEF rest, all
          <6> QED
            BY <6>1
        <5> HIDE DEF b
        <5> QED
          BY <5>1, <5>2, Zenon
      <4>2. SubSeq(Rest(rs, k, a), Len(Wire(rs[k + 1])) + 1, Len(Rest(rs, k, a)))
              = Rest(rs, k + 1, a)
        BY <3>2, <3>7, RestOfRest
      <4>3. b = Rest(rs, k, a)
        BY <1>6
      <4> QED
        BY <4>1, <4>2, <4>3
    <3>10. Reply(b) \in Replies
      BY <3>4, ReplyType
    <3> DEFINE x == Reply(b)
               p == g[n + 1].replies
    <3>11. p = Append(q, x)
      BY <3>8
    <3>12. q \in Seq(Replies) /\ Len(q) = k - m /\ \A i \in 1..(k - m) : Answers(q[i], rs[m + i])
      BY <1>6
    <3>13. x \in Replies /\ Answers(x, rs[k + 1])
      BY <3>6, <3>10
    <3> HIDE DEF x, p, q, Framed
    <3>14. /\ p \in Seq(Replies) /\ Len(p) = Len(q) + 1 /\ p[Len(q) + 1] = x
           /\ \A i \in 1..Len(q) : p[i] = q[i]
      <4>1. q \in Seq(Replies) /\ x \in Replies
        BY <3>12, <3>13
      <4> QED
        BY <3>11, <4>1
    <3>15. Len(p) = (k + 1) - m
      BY <1>1, <3>2, <3>12, <3>14
    <3>16. \A i \in 1..((k + 1) - m) : Answers(p[i], rs[m + i])
      <4> SUFFICES ASSUME NEW i \in 1..((k + 1) - m) PROVE Answers(p[i], rs[m + i])
        OBVIOUS
      <4>1. CASE i = Len(q) + 1
        <5>1. p[i] = x /\ m + i = k + 1
          BY <1>1, <3>12, <3>14, <4>1
        <5> QED
          BY <3>13, <5>1
      <4>2. CASE i # Len(q) + 1
        <5>1. i \in 1..Len(q) /\ i \in 1..(k - m)
          BY <1>1, <3>2, <3>12, <4>2
        <5> QED
          BY <3>12, <3>14, <5>1
      <4> QED
        BY <4>1, <4>2
    <3>17. k + 1 = m + (n + 1) \/ (k + 1 < N => a < E((k + 1) + 1))
      <4>1. k = m + n
        BY <1>1, <1>6, <3>1, <3>7, EndGrows DEF Framed
      <4> QED
        BY <1>1, <4>1
    <3>18. Framed(n + 1, k + 1)
      BY <3>7, <3>9, <3>14, <3>15, <3>16, <3>17 DEF Framed, p
    <3> QED
      BY <3>2, <3>18
  <2> QED
    BY <2>2, <2>3
<1> HIDE DEF Framed
<1>7. T = {}
  <2> SUFFICES ASSUME T # {} PROVE FALSE
    OBVIOUS
  <2>1. PICK n \in T : \A y \in T : n <= y
    BY LeastElement
  <2>2. n # 0
    <3>1. m \in m..N
      BY <1>1
    <3> QED
      BY <1>5, <2>1, <3>1
  <2>3. n - 1 \in Nat /\ n - 1 < L /\ n - 1 \notin T /\ (n - 1) + 1 = n
    BY <1>2, <2>1, <2>2
  <2>4. PICK k \in m..N : Framed(n - 1, k)
    BY <1>2, <2>3
  <2>5. \E l \in m..N : Framed((n - 1) + 1, l)
    BY <1>6, <2>3, <2>4
  <2> QED
    BY <2>1, <2>3, <2>5
<1>8. PICK k \in m..N : Framed(L, k)
  BY <1>2, <1>7
<1>9. k < N => a < E(k + 1)
  <2> SUFFICES ASSUME k < N, k = m + L PROVE a < E(k + 1)
    BY <1>8 DEF Framed
  <2>1. k + 1 \in m..N /\ m \in 0..N
    BY <1>1, <1>2
  <2>2. E(m) + ((k + 1) - m) <= E(k + 1)
    BY <2>1, EndsInOrder
  <2>3. E(m) \in Nat /\ E(k + 1) \in Nat
    BY <1>1, <2>1, EndGrows
  <2> QED
    BY <1>1, <1>2, <2>2, <2>3
<1> QED
  BY <1>3, <1>8, <1>9 DEF Framed
-----------------------------------------------------------------------------
(* Whatever the bytes are, the buffer stays a text and replies are made.   *)
LEMMA MaxExists ==
  ASSUME NEW n \in Nat, NEW T, T \subseteq 1..n, T # {}
  PROVE  Max(T) \in T
<1> DEFINE D == {n - x : x \in T}
<1>0. ASSUME NEW x \in T PROVE x \in Nat /\ x <= n /\ n - x \in Nat
  BY x \in 1..n
<1>1. D \subseteq Nat /\ D # {}
  BY <1>0
<1>2. PICK d \in D : \A y \in D : d <= y
  BY <1>1, LeastElement
<1>3. PICK x \in T : d = n - x
  BY <1>2
<1>4. ASSUME NEW y \in T PROVE x >= y
  <2>1. n - y \in D /\ x \in Nat /\ y \in Nat
    BY <1>0
  <2>2. d <= n - y
    BY <1>2, <2>1
  <2> QED
    BY <1>3, <2>1, <2>2
<1> QED
  BY <1>4 DEF Max

(* The value of a length header is a number.                               *)
LEMMA LengthTokens == \A x \in Tokens : x[1] = "length" => x[2] \in Nat
<1> SUFFICES ASSUME NEW x \in Tokens, x[1] = "length" PROVE x[2] \in Nat
  OBVIOUS
<1>1. CRLF[1] # "length" /\ <<"connection", "close">>[1] # "length"
  BY KindsDiffer
<1>2. \A y \in ({"request"} \X (Paths \cup {NoPath})) \cup Texts : y[1] # "length"
  BY DEF Texts, Character, Replacement
<1>3. x \in {"length"} \X Nat
  BY <1>1, <1>2 DEF Tokens
<1> QED
  BY <1>3

(* So is the length that the loop cuts off.                                *)
LEMMA RequiredNumber ==
  ASSUME NEW b \in Seq(Tokens), Complete(b)
  PROVE  RequiredLength(b) \in Nat
<1> DEFINE block == HeadersBlock(b)
           T == InHeaders(block, "length")
<1>1. block \in Seq(Tokens)
  <2>1. Boundary(b) # {}
    BY DEF Complete
  <2>2. PICK i \in 1..(Len(b) - 1) : block = SubSeq(b, 1, i - 1)
    BY <2>1 DEF HeadersBlock, Boundary
  <2> HIDE DEF block
  <2>3. SubSeq(b, 1, i - 1) \in Seq(Tokens)
    OBVIOUS
  <2> QED
    BY <2>2, <2>3
<1> HIDE DEF block
<1>2. Len(block) \in Nat /\ T \subseteq 1..Len(block) /\ \A i \in T : block[i][1] = "length"
  BY <1>1 DEF InHeaders
<1>3. ContentLength(block) \in Nat
  <2>1. CASE T = {}
    BY <2>1 DEF ContentLength
  <2>2. CASE T # {}
    <3>1. Max(T) \in T
      BY <1>2, <2>2, MaxExists
    <3> HIDE DEF T
    <3>2. block[Max(T)] \in Tokens /\ block[Max(T)][1] = "length"
      <4>1. Max(T) \in 1..Len(block)
        BY <1>2, <3>1
      <4>2. block[Max(T)] \in Tokens
        BY <1>1, <4>1
      <4> QED
        BY <1>2, <3>1, <4>2
    <3>3. block[Max(T)][2] \in Nat
      BY <3>2, LengthTokens
    <3> QED
      BY <2>2, <3>3 DEF ContentLength, T
  <2> QED
    BY <2>1, <2>2
<1> QED
  BY <1>2, <1>3 DEF RequiredLength, block

(* The loop leaves a text and replies, whatever bytes it is given.         *)
LEMMA LoopType ==
  ASSUME NEW text \in Seq(Tokens)
  PROVE  Loop(text).buffer \in Seq(Tokens) /\ Loop(text).replies \in Seq(Replies)
<1> DEFINE L == Len(text)
<1>1. PICK g : LoopsUpTo(text, L, g) /\ Loop(text) = g[L]
  BY LoopEquation
<1>2. L \in Nat /\ \A i \in 0..L : g[i] = LoopStep(text, g, i)
  BY <1>1 DEF LoopsUpTo
<1> DEFINE Good(n) == g[n].buffer \in Seq(Tokens) /\ g[n].replies \in Seq(Replies)
           T == {n \in Nat : n <= L /\ ~Good(n)}
<1> HIDE DEF L
<1>3. Good(0)
  <2>1. g[0] = [buffer |-> text, replies |-> <<>>]
    BY <1>2 DEF LoopStep
  <2> QED
    BY <2>1
<1>4. ASSUME NEW n \in Nat, n < L, Good(n) PROVE Good(n + 1)
  <2> DEFINE b == g[n].buffer
             q == g[n].replies
             rest == SubSeq(b, RequiredLength(b) + 1, Len(b))
             all == Append(q, Reply(b))
  <2>1. g[n + 1] = Round(g[n])
    <3>1. n + 1 \in 0..L /\ n + 1 # 0 /\ (n + 1) - 1 = n
      BY <1>2, <1>4
    <3> QED
      BY <1>2, <3>1, Zenon DEF LoopStep
  <2>2. CASE ~Complete(b)
    BY <1>4, <2>1, <2>2 DEF Round
  <2>3. CASE Complete(b)
    <3>1. g[n + 1] = [buffer |-> rest, replies |-> all]
      BY <2>1, <2>3 DEF Round
    <3>2. rest \in Seq(Tokens)
      <4>1. RequiredLength(b) \in Nat /\ b \in Seq(Tokens)
        BY <1>4, <2>3, RequiredNumber
      <4> HIDE DEF b
      <4> QED
        BY <4>1
    <3>3. all \in Seq(Replies)
      <4>1. Reply(b) \in Replies /\ q \in Seq(Replies)
        BY <1>4, ReplyType
      <4> HIDE DEF b, q
      <4> QED
        BY <4>1
    <3> HIDE DEF rest, all
    <3> QED
      BY <3>1, <3>2, <3>3
  <2> QED
    BY <2>2, <2>3
<1> HIDE DEF Good
<1>5. T = {}
  <2> SUFFICES ASSUME T # {} PROVE FALSE
    OBVIOUS
  <2>1. PICK n \in T : \A y \in T : n <= y
    BY LeastElement
  <2>2. n # 0
    BY <1>3, <2>1
  <2>3. n - 1 \in Nat /\ n - 1 < L /\ n - 1 \notin T /\ (n - 1) + 1 = n
    BY <1>2, <2>1, <2>2
  <2>4. Good(n - 1)
    BY <1>2, <2>3
  <2>5. Good((n - 1) + 1)
    BY <1>4, <2>3, <2>4
  <2> QED
    BY <2>1, <2>3, <2>5
<1>6. Good(L)
  BY <1>2, <1>5
<1> QED
  BY <1>1, <1>6 DEF Good, L

-----------------------------------------------------------------------------
(* Characters.  A chunk without a character of two bytes is its own text.  *)
Plain == Tokens \ ToSet(TwoBytes)

(* Flattening a sequence cut into single elements gives it back.           *)
LEMMA FlattenSingles ==
  ASSUME NEW S, NEW c \in Seq(S)
  PROVE  FlattenSeq([i \in DOMAIN c |-> <<c[i]>>]) = c
<1> DEFINE w == [i \in 1..Len(c) |-> <<c[i]>>]
           F(j) == FlattenSeq(SubSeq(w, 1, j))
           C(j) == SubSeq(c, 1, j)
           T == {j \in Nat : j <= Len(c) /\ F(j) # C(j)}
<1>1. w \in Seq(Seq(S)) /\ Len(w) = Len(c) /\ Len(c) \in Nat
  <2>1. \A i \in 1..Len(c) : <<c[i]>> \in Seq(S)
    OBVIOUS
  <2> QED
    BY <2>1
<1>2. SubSeq(w, 1, Len(c)) = w /\ SubSeq(c, 1, Len(c)) = c /\ DOMAIN c = 1..Len(c)
  <2> HIDE DEF w
  <2> QED
    BY <1>1
<1>3. \A i \in 1..Len(c) : w[i] = <<c[i]>>
  OBVIOUS
<1> HIDE DEF w
<1>4. F(0) = C(0)
  <2>1. SubSeq(w, 1, 0) = <<>> /\ SubSeq(c, 1, 0) = <<>>
    BY <1>1
  <2> QED
    BY <2>1, Len(<<>>) = 0, Zenon DEF FlattenSeq
<1>5. ASSUME NEW j \in Nat, j < Len(c), F(j) = C(j) PROVE F(j + 1) = C(j + 1)
  <2>1. j \in 0..(Len(w) - 1) /\ j + 1 \in 1..Len(c)
    BY <1>1, <1>5
  <2>2. F(j + 1) = F(j) \o w[j + 1]
    BY <1>1, <2>1, FlattenPrefix
  <2>3. F(j + 1) = C(j) \o <<c[j + 1]>>
    BY <1>3, <1>5, <2>1, <2>2
  <2>4. C(j + 1) = C(j) \o <<c[j + 1]>>
    BY <1>1, <2>1
  <2> QED
    BY <2>3, <2>4
<1> HIDE DEF F, C
<1>6. T = {}
  <2> SUFFICES ASSUME T # {} PROVE FALSE
    OBVIOUS
  <2>1. PICK j \in T : \A y \in T : j <= y
    BY LeastElement
  <2>2. j # 0
    BY <1>4, <2>1
  <2>3. j - 1 \in Nat /\ j - 1 < Len(c) /\ j - 1 \notin T /\ (j - 1) + 1 = j
    BY <1>1, <2>1, <2>2
  <2>4. F(j - 1) = C(j - 1)
    BY <1>1, <2>3
  <2>5. F((j - 1) + 1) = C((j - 1) + 1)
    BY <1>5, <2>3, <2>4
  <2> QED
    BY <2>1, <2>3, <2>5
<1>7. F(Len(c)) = C(Len(c))
  BY <1>1, <1>6
<1> QED
  BY <1>2, <1>7 DEF F, C, w

(* Decoding does not change a chunk of ASCII bytes.                        *)
LEMMA DecodedPlain ==
  ASSUME NEW c \in Seq(Plain)
  PROVE  Decoded(c) = c
<1>1. TwoBytes[1] \in ToSet(TwoBytes) /\ TwoBytes[2] \in ToSet(TwoBytes)
  BY DEF TwoBytes, ToSet
<1>2. ASSUME NEW i \in DOMAIN c PROVE c[i] \notin {TwoBytes[1], TwoBytes[2]}
  BY <1>1 DEF Plain
<1>3. ASSUME NEW i \in 1..(Len(c) - 1) PROVE SubSeq(c, i, i + 1) # TwoBytes
  <2>1. SubSeq(c, i, i + 1)[1] = c[i] /\ i \in DOMAIN c
    OBVIOUS
  <2> QED
    BY <1>2, <2>1
<1> DEFINE Whole0(i) == i \in 1..Len(c) - 1 /\ SubSeq(c, i, i + 1) = TwoBytes
           Text(i) == IF Whole0(i) THEN <<Character>>
                      ELSE IF Whole0(i - 1) THEN <<>>
                      ELSE IF c[i] \in {TwoBytes[1], TwoBytes[2]} THEN <<Replacement>>
                      ELSE <<c[i]>>
<1>4. \A i \in DOMAIN c : Text(i) = <<c[i]>>
  BY <1>2, <1>3
<1>5. Decoded(c) = FlattenSeq([i \in DOMAIN c |-> Text(i)])
  BY DEF Decoded
<1> HIDE DEF Text
<1>6. Decoded(c) = FlattenSeq([i \in DOMAIN c |-> <<c[i]>>])
  BY <1>4, <1>5
<1> QED
  BY <1>6, FlattenSingles

(* Decoding gives text, wherever a character is cut.                       *)
LEMMA DecodedType ==
  ASSUME NEW c \in Seq(Tokens)
  PROVE  Decoded(c) \in Seq(Tokens)
<1> DEFINE Whole0(i) == i \in 1..Len(c) - 1 /\ SubSeq(c, i, i + 1) = TwoBytes
           Text(i) == IF Whole0(i) THEN <<Character>>
                      ELSE IF Whole0(i - 1) THEN <<>>
                      ELSE IF c[i] \in {TwoBytes[1], TwoBytes[2]} THEN <<Replacement>>
                      ELSE <<c[i]>>
<1>1. <<>> \in Seq(Tokens) /\ \A x \in Tokens : <<x>> \in Seq(Tokens)
  OBVIOUS
<1>2. Character \in Tokens /\ Replacement \in Tokens
  BY DEF Tokens, Texts
<1>3. \A i \in DOMAIN c : Text(i) \in Seq(Tokens)
  <2> HIDE DEF Whole0
  <2> QED
    BY <1>1, <1>2
<1>4. Decoded(c) = FlattenSeq([i \in DOMAIN c |-> Text(i)])
  BY DEF Decoded
<1> HIDE DEF Text
<1>5. [i \in DOMAIN c |-> Text(i)] \in Seq(Seq(Tokens))
  BY <1>3
<1> QED
  BY <1>4, <1>5, FlattenType

(* A request with an ASCII body is ASCII.                                  *)
LEMMA PlainWire ==
  ASSUME NEW r \in Requests, ToSet(r.body) \cap ToSet(TwoBytes) = {}
  PROVE  Wire(r) \in Seq(Plain)
<1>1. ToSet(TwoBytes) = {<<"text", "first">>, <<"text", "second">>}
  <2>1. DOMAIN TwoBytes = {1, 2} /\ TwoBytes[1] = <<"text", "first">>
        /\ TwoBytes[2] = <<"text", "second">>
    BY DEF TwoBytes
  <2> QED
    BY <2>1 DEF ToSet
<1>2. Wire(r) \in Seq(Tokens) /\ Len(Wire(r)) = HeadersEnd(r) + 1 + Len(r.body)
  BY WireShape
<1>3. HeadersEnd(r) \in Nat /\ Len(r.body) \in Nat
  BY HeadNumber, RequestFields
<1>4. ASSUME NEW i \in 1..Len(Wire(r)) PROVE Wire(r)[i] \in Plain
  <2>1. Wire(r)[i] \in Tokens
    BY <1>2
  <2>2. CASE i <= HeadersEnd(r) + 1
    <3>1. Wire(r)[i] = HeadLine(r, i)
      BY <1>2, <1>3, <2>2, WireShape
    <3>2. /\ CRLF[1] = "CRLF" /\ <<"request", r.path>>[1] = "request"
          /\ <<"length", Len(r.body)>>[1] = "length" /\ <<"connection", "close">>[1] = "connection"
          /\ <<"text", "first">>[1] = "text" /\ <<"text", "second">>[1] = "text"
      BY KindsDiffer
    <3>3. HeadLine(r, i) \in {CRLF, <<"request", r.path>>, <<"length", Len(r.body)>>,
                              <<"connection", "close">>}
      BY DEF HeadLine
    <3>4. HeadLine(r, i) \notin {<<"text", "first">>, <<"text", "second">>}
      BY <3>2, <3>3
    <3> QED
      BY <1>1, <2>1, <3>1, <3>4 DEF Plain
  <2>3. CASE ~(i <= HeadersEnd(r) + 1)
    <3> DEFINE j == i - (HeadersEnd(r) + 1)
    <3>1. j \in 1..Len(r.body) /\ HeadersEnd(r) + 1 + j = i
      BY <1>2, <1>3, <2>3
    <3>2. Wire(r)[i] = r.body[j]
      BY <3>1, WireShape
    <3>3. r.body[j] \in ToSet(r.body)
      BY <3>1, RequestFields DEF ToSet
    <3> QED
      BY <2>1, <3>2, <3>3 DEF Plain
  <2> QED
    BY <2>2, <2>3
<1> QED
  BY <1>2, <1>4

-----------------------------------------------------------------------------
(* What FrameInv says of a connection: the replies q are to the requests   *)
(* of rs that have arrived whole, the buffer b is what is behind them.     *)
AnswersWith(R, reply, request) ==
  /\ reply.path = request.path
  /\ reply.body = request.body
  /\ reply.path = NoPath => reply.status = 400
  /\ reply.status = 400 => reply.path \in {NoPath} \cup (Throwing \cap R)
  /\ reply.status = 200 => reply.path \in R

Frame(R, rs, a, b, q) ==
  /\ Len(q) \in 0..Len(rs) /\ End(rs, Len(q)) <= a
  /\ Len(q) < Len(rs) => a < End(rs, Len(q) + 1)
  /\ b = Rest(rs, Len(q), a)
  /\ \A i \in 1..Len(q) : AnswersWith(R, q[i], rs[i])

(* More bytes of a stream of single bytes lengthen the rest.               *)
LEMMA RestLonger ==
  ASSUME NEW rs \in Seq(Requests), \A i \in 1..Len(rs) : Wire(rs[i]) \in Seq(Plain),
         NEW m \in 0..Len(rs), NEW a \in Nat, End(rs, m) <= a,
         NEW last \in (a + 1)..Len(WireAll(rs))
  PROVE  Rest(rs, m, a) \o Decoded(SubSeq(WireAll(rs), a + 1, last)) = Rest(rs, m, last)
<1> DEFINE W == WireAll(rs)
           e == End(rs, m)
           b == Rest(rs, m, a)
           c == SubSeq(W, a + 1, last)
           d == Rest(rs, m, last)
<1>1. W \in Seq(Plain)
  <2>1. WireAll(SubSeq(rs, 1, Len(rs))) \in Seq(Plain)
    <3>1. Len(rs) \in 0..Len(rs)
      OBVIOUS
    <3> QED
      BY <3>1, StreamType
  <2> QED
    BY <2>1, WholeStream
<1>2. Len(W) \in Nat /\ e \in Nat /\ e <= a /\ a <= last /\ last <= Len(W) /\ last \in Nat
  BY <1>1, EndGrows
<1>3. /\ b \in Seq(Tokens) /\ Len(b) = a - e /\ \A i \in 1..(a - e) : b[i] = W[e + i]
      /\ d \in Seq(Tokens) /\ Len(d) = last - e /\ \A i \in 1..(last - e) : d[i] = W[e + i]
  BY <1>2, RestShape
<1> HIDE DEF W, e, b, d
<1>4. /\ c \in Seq(Plain) /\ Len(c) = last - a /\ \A i \in 1..(last - a) : c[i] = W[a + i]
  BY <1>1, <1>2
<1> HIDE DEF c
<1>5. Decoded(c) = c
  BY <1>4, DecodedPlain
<1>6. c \in Seq(Tokens)
  BY <1>4 DEF Plain
<1>7. /\ b \o c \in Seq(Tokens) /\ Len(b \o c) = Len(b) + Len(c)
      /\ \A i \in 1..Len(b) : (b \o c)[i] = b[i]
      /\ \A i \in 1..Len(c) : (b \o c)[Len(b) + i] = c[i]
  <2>1. b \in Seq(Tokens)
    BY <1>3
  <2> QED
    BY <1>6, <2>1
<1> DEFINE x == b \o c
<1> HIDE DEF x
<1>8. /\ x \in Seq(Tokens) /\ Len(x) = last - e
      /\ \A i \in 1..(a - e) : x[i] = b[i]
      /\ \A i \in 1..(last - a) : x[(a - e) + i] = c[i]
  <2>1. x \in Seq(Tokens) /\ Len(x) = Len(b) + Len(c)
    BY <1>7 DEF x
  <2>2. \A i \in 1..Len(b) : x[i] = b[i]
    BY <1>7 DEF x
  <2>3. \A i \in 1..Len(c) : x[Len(b) + i] = c[i]
    BY <1>7 DEF x
  <2>4. Len(b) = a - e /\ Len(c) = last - a
    BY <1>3, <1>4
  <2>5. Len(x) = last - e
    BY <1>2, <2>1, <2>4
  <2> QED
    BY <2>1, <2>2, <2>3, <2>4, <2>5
<1>9. ASSUME NEW i \in 1..(last - e) PROVE x[i] = d[i]
  <2>1. CASE i <= a - e
    <3>1. i \in 1..(a - e)
      BY <1>2, <2>1
    <3>2. x[i] = b[i] /\ b[i] = W[e + i] /\ d[i] = W[e + i]
      BY <1>3, <1>8, <3>1
    <3> QED
      BY <3>2
  <2>2. CASE ~(i <= a - e)
    <3> DEFINE j == i - (a - e)
    <3>1. j \in 1..(last - a) /\ (a - e) + j = i /\ a + j = e + i
      BY <1>2, <2>2
    <3> HIDE DEF j
    <3>2. x[i] = c[j] /\ c[j] = W[a + j] /\ d[i] = W[e + i]
      BY <1>3, <1>4, <1>8, <3>1
    <3> QED
      BY <3>1, <3>2
  <2> QED
    BY <2>1, <2>2
<1>10. x = d
  BY <1>3, <1>8, <1>9
<1> QED
  BY <1>5, <1>10 DEF x, b, c, d, W

(* A data event answers what has become whole with it.                     *)
LEMMA FrameData ==
  ASSUME NEW rs \in Seq(Requests), \A i \in 1..Len(rs) : Wire(rs[i]) \in Seq(Plain),
         NEW a \in Nat, NEW b, NEW q \in Seq(Replies), Frame(routes, rs, a, b, q),
         NEW last \in (a + 1)..Len(WireAll(rs)),
         NEW loop, loop = Loop(b \o Decoded(SubSeq(WireAll(rs), a + 1, last)))
  PROVE  Frame(routes, rs, last, loop.buffer, q \o loop.replies)
<1> DEFINE m == Len(q)
           p == loop.replies
           x == q \o p
<1>1. m \in 0..Len(rs) /\ End(rs, m) <= a /\ b = Rest(rs, m, a)
      /\ \A i \in 1..m : AnswersWith(routes, q[i], rs[i])
  BY DEF Frame
<1>2. loop = Loop(Rest(rs, m, last))
  BY <1>1, RestLonger
<1>3. End(rs, m) \in Nat /\ Len(WireAll(rs)) \in Nat /\ Len(rs) \in Nat
  BY <1>1, EndGrows, WholeStream
<1>4. last \in Nat /\ End(rs, m) <= last /\ last <= Len(WireAll(rs))
  BY <1>1, <1>3
<1>5. PICK k \in m..Len(rs) :
        /\ End(rs, k) <= last /\ (k < Len(rs) => last < End(rs, k + 1))
        /\ loop.buffer = Rest(rs, k, last)
        /\ p \in Seq(Replies) /\ Len(p) = k - m
        /\ \A i \in 1..(k - m) : Answers(p[i], rs[m + i])
  <2> DEFINE text == Rest(rs, m, last)
  <2>1. loop = Loop(text) /\ text = Rest(rs, m, last) /\ m \in 0..Len(rs)
    BY <1>1, <1>2
  <2> HIDE DEF text, m
  <2>2. \E k \in m..Len(rs) :
          /\ End(rs, k) <= last /\ (k < Len(rs) => last < End(rs, k + 1))
          /\ Loop(text).buffer = Rest(rs, k, last)
          /\ Loop(text).replies \in Seq(Replies) /\ Len(Loop(text).replies) = k - m
          /\ \A i \in 1..(k - m) : Answers(Loop(text).replies[i], rs[m + i])
    BY <1>4, <2>1, LoopFrames
  <2> QED
    BY <2>1, <2>2
<1>6. \A i \in 1..(k - m) : AnswersWith(routes, p[i], rs[m + i])
  BY <1>5 DEF Answers, AnswersWith
<1> HIDE DEF p
<1>7. /\ x \in Seq(Replies) /\ Len(x) = Len(q) + Len(p)
      /\ \A i \in 1..Len(q) : x[i] = q[i]
      /\ \A i \in 1..Len(p) : x[Len(q) + i] = p[i]
  BY <1>5, Joined
<1>8. m \in Nat /\ k \in Nat /\ m <= k /\ k <= Len(rs)
  BY <1>1, <1>3
<1>9. Len(x) = k
  <2>1. Len(x) = m + Len(p) /\ Len(p) = k - m
    BY <1>5, <1>7
  <2> HIDE DEF m, x
  <2> QED
    BY <1>8, <2>1
<1>10. ASSUME NEW i \in 1..k PROVE AnswersWith(routes, x[i], rs[i])
  <2> HIDE DEF x
  <2>1. CASE i <= m
    BY <1>1, <1>7, <1>8, <2>1
  <2>2. CASE ~(i <= m)
    <3> DEFINE j == i - m
    <3>1. j \in 1..(k - m) /\ m + j = i
      BY <1>8, <2>2
    <3> HIDE DEF j
    <3>2. x[i] = p[j]
      BY <1>5, <1>7, <3>1
    <3> QED
      BY <1>6, <3>1, <3>2
  <2> QED
    BY <2>1, <2>2
<1> HIDE DEF x, m
<1>11. Frame(routes, rs, last, loop.buffer, x)
  BY <1>5, <1>8, <1>9, <1>10 DEF Frame
<1> QED
  BY <1>11 DEF x, p

(* Routes are only added: a reply stays right.                             *)
LEMMA FrameMoreRoutes ==
  ASSUME NEW R, NEW Q, R \subseteq Q, NEW rs, NEW a, NEW b, NEW q, Frame(R, rs, a, b, q)
  PROVE  Frame(Q, rs, a, b, q)
<1>1. \A i \in 1..Len(q) : AnswersWith(Q, q[i], rs[i])
  BY DEF Frame, AnswersWith
<1> QED
  BY <1>1 DEF Frame

-----------------------------------------------------------------------------
(* The invariant.  Objects are made in the order of their numbers: that a  *)
(* new connection is untouched rests on that.                              *)
FunctionTypes ==
  /\ stream \in [Sockets -> Seq(Requests)]
  /\ arrived \in [Sockets -> Nat]
  /\ buffer \in [Sockets -> Seq(Tokens)]
  /\ replies \in [Sockets -> Seq(Replies)]
  /\ writes \in [Sockets -> Seq(Replies)]
TypeInv == TypeOK /\ FunctionTypes

Made(state) == {y \in DOMAIN state : state[y] # "none"}
Numbered(state) == \A y \in Made(state) : y \in 1..Cardinality(Made(state))

(* Nothing has come on a connection that was not made.                     *)
FreshInv ==
  /\ Numbered(socket)
  /\ \A s \in Sockets : socket[s] = "none" =>
       arrived[s] = 0 /\ buffer[s] = <<>> /\ replies[s] = <<>> /\ writes[s] = <<>>

FrameInv ==
  \A s \in Sockets :
    /\ arrived[s] <= Len(WireAll(stream[s]))
    /\ IsASCII(s) => Frame(routes, stream[s], arrived[s], buffer[s], replies[s])

(* What is still to be written has been given as a reply.                  *)
WritesInv ==
  \A s \in Sockets : \A i \in 1..Len(writes[s]) :
    \E j \in 1..Len(replies[s]) : replies[s][j] = writes[s][i]

(* The server on record is the only one that listens, open connections are *)
(* active: so a stop leaves neither.                                       *)
ServerInv ==
  /\ \A s \in Sockets : socket[s] = "open" => s \in activeSockets
  /\ ~unruly => \A n \in Servers : netServer[n] \in {"binding", "listening"} => server = {n}
  /\ StoppedIsGone

Inv == TypeInv /\ FreshInv /\ FrameInv /\ WritesInv /\ ServerInv

-----------------------------------------------------------------------------
(* The object that is made next has not been made.                         *)
LEMMA NewIsUnused ==
  ASSUME NEW S, IsFiniteSet(S), NEW state, DOMAIN state = S, Numbered(state),
         NEW x, NextToMake(state, x), x \in S
  PROVE  state[x] = "none"
<1>1. Cardinality(Made(state)) \in Nat
  BY FS_Subset, FS_CardinalityType DEF Made
<1>2. x = Cardinality(Made(state)) + 1
  BY DEF NextToMake, Made
<1>3. x \notin Made(state)
  BY <1>1, <1>2 DEF Numbered
<1> QED
  BY <1>3 DEF Made

(* Making the next one keeps the numbering.                                *)
LEMMA StillNumbered ==
  ASSUME NEW S, IsFiniteSet(S), NEW state, DOMAIN state = S, Numbered(state),
         NEW x, NextToMake(state, x), NEW new, Made(new) = Made(state) \cup {x}, x \in S
  PROVE  Numbered(new)
<1>1. IsFiniteSet(Made(state))
  BY FS_Subset DEF Made
<1>2. Cardinality(Made(state)) \in Nat
  BY <1>1, FS_CardinalityType
<1>3. x = Cardinality(Made(state)) + 1
  BY DEF NextToMake, Made
<1>4. x \notin Made(state)
  BY <1>2, <1>3 DEF Numbered
<1>5. Cardinality(Made(new)) = Cardinality(Made(state)) + 1
  BY <1>1, <1>4, FS_AddElement
<1> QED
  BY <1>2, <1>3, <1>5 DEF Numbered

(* A connection of which nothing has come is framed.                       *)
LEMMA NothingArrived ==
  ASSUME NEW R, NEW rs \in Seq(Requests)
  PROVE  Frame(R, rs, 0, <<>>, <<>>) /\ 0 <= Len(WireAll(rs))
<1>1. Len(rs) \in Nat /\ Len(WireAll(rs)) \in Nat /\ 0 \in 0..Len(rs)
  BY WholeStream
<1>2. End(rs, 0) = 0
  BY EndGrows
<1>3. Len(rs) > 0 => End(rs, 1) > 0
  <2> SUFFICES ASSUME Len(rs) > 0 PROVE End(rs, 1) > 0
    OBVIOUS
  <2>1. 0 \in 0..(Len(rs) - 1) /\ 0 + 1 = 1
    BY <1>1
  <2>2. End(rs, 0 + 1) = End(rs, 0) + Len(Wire(rs[0 + 1])) /\ Len(Wire(rs[0 + 1])) \in Nat \ {0}
    BY <2>1, EndGrows
  <2> QED
    BY <1>2, <2>1, <2>2
<1>4. Rest(rs, 0, 0) = <<>>
  <2>1. Rest(rs, 0, 0) \in Seq(Tokens) /\ Len(Rest(rs, 0, 0)) = 0 - 0
    BY <1>1, <1>2, RestShape
  <2> QED
    BY <2>1
<1>5. Len(<<>>) = 0
  OBVIOUS
<1> QED
  BY <1>1, <1>2, <1>3, <1>4, <1>5 DEF Frame

(* The invariant holds at first, and each part is kept by every step.      *)
LEMMA InitInv == Init => Inv
<1> SUFFICES ASSUME Init PROVE Inv
  OBVIOUS
<1>1. TypeInv
  <2>1. Cardinality({}) = 0
    BY FS_EmptySet
  <2> QED
    BY <2>1 DEF Init, TypeInv, TypeOK, FunctionTypes
<1>2. FreshInv /\ WritesInv /\ ServerInv
  BY DEF Init, FreshInv, Numbered, Made, WritesInv, ServerInv, StoppedIsGone
<1>3. FrameInv
  <2> SUFFICES ASSUME NEW s \in Sockets
               PROVE  /\ arrived[s] <= Len(WireAll(stream[s]))
                      /\ Frame(routes, stream[s], arrived[s], buffer[s], replies[s])
    BY DEF FrameInv
  <2>1. /\ stream[s] \in Seq(Requests) /\ arrived[s] = 0
        /\ buffer[s] = <<>> /\ replies[s] = <<>>
    BY DEF Init
  <2> QED
    BY <2>1, NothingArrived
<1> QED
  BY <1>1, <1>2, <1>3 DEF Inv

-----------------------------------------------------------------------------
(* A data event, taken apart.                                              *)
Received(s, last, loop) ==
  /\ last \in (arrived[s] + 1)..Len(WireAll(stream[s])) /\ last \in Nat
  /\ loop = Loop(buffer[s] \o Decoded(SubSeq(WireAll(stream[s]), arrived[s] + 1, last)))
  /\ loop.buffer \in Seq(Tokens) /\ loop.replies \in Seq(Replies)
  /\ arrived' = [arrived EXCEPT ![s] = last]
  /\ buffer' = [buffer EXCEPT ![s] = loop.buffer]
  /\ replies' = [replies EXCEPT ![s] = replies[s] \o loop.replies]
  /\ writes' = [writes EXCEPT ![s] = writes[s] \o loop.replies]

(* What an arriving chunk does to the connection, and that it does         *)
(* nothing to others.                                                      *)
LEMMA DataEvent ==
  ASSUME TypeInv, NEW s \in Sockets, Data(s)
  PROVE  \E last, loop : Received(s, last, loop)
<1> DEFINE W == WireAll(stream[s])
           Chunk(last) == SubSeq(W, arrived[s] + 1, last)
<1>1. /\ arrived[s] \in Nat /\ buffer[s] \in Seq(Tokens) /\ stream[s] \in Seq(Requests)
      /\ replies[s] \in Seq(Replies) /\ writes[s] \in Seq(Replies)
  BY DEF TypeInv, FunctionTypes
<1>2. W \in Seq(Tokens)
  BY <1>1, WholeStream
<1>3. PICK last \in (arrived[s] + 1)..Len(W) :
        LET loop == Loop(Accumulated(s, Chunk(last))) IN
        /\ arrived' = [arrived EXCEPT ![s] = last]
        /\ buffer' = [buffer EXCEPT ![s] = loop.buffer]
        /\ replies' = [replies EXCEPT ![s] = @ \o loop.replies]
        /\ writes' = [writes EXCEPT ![s] = @ \o loop.replies]
  BY DEF Data
<1> HIDE DEF W
<1>4. last \in Nat /\ Chunk(last) \in Seq(Tokens)
  BY <1>1, <1>2
<1> HIDE DEF Chunk
<1>5. Decoded(Chunk(last)) \in Seq(Tokens)
  BY <1>4, DecodedType
<1>6. buffer[s] \o Decoded(Chunk(last)) \in Seq(Tokens)
  BY <1>1, <1>5
<1> DEFINE loop == Loop(buffer[s] \o Decoded(Chunk(last)))
<1>7. loop.buffer \in Seq(Tokens) /\ loop.replies \in Seq(Replies)
  BY <1>6, LoopType
<1>8. /\ arrived' = [arrived EXCEPT ![s] = last]
      /\ buffer' = [buffer EXCEPT ![s] = loop.buffer]
      /\ replies' = [replies EXCEPT ![s] = replies[s] \o loop.replies]
      /\ writes' = [writes EXCEPT ![s] = writes[s] \o loop.replies]
  BY <1>1, <1>3 DEF Accumulated, TypeInv, FunctionTypes
<1> HIDE DEF loop
<1>9. /\ loop = Loop(buffer[s] \o Decoded(Chunk(last)))
      /\ last \in (arrived[s] + 1)..Len(W)
  BY <1>3 DEF loop
<1> QED
  BY <1>4, <1>7, <1>8, <1>9 DEF W, Chunk, Received

(* Types are kept.                                                         *)
LEMMA TypeStep == TypeInv /\ [Next]_vars => TypeInv'
<1> SUFFICES ASSUME TypeInv, [Next]_vars PROVE TypeInv'
  OBVIOUS
<1>0. ASSUME NEW s \in Sockets, Data(s) PROVE \E last, loop : Received(s, last, loop)
  BY <1>0, DataEvent
<1> USE DEF TypeInv, TypeOK, FunctionTypes, serverVars, streamVars
<1>1. ASSUME NEW p \in Paths, RegisterRoute(p) PROVE TypeInv'
  BY <1>1 DEF RegisterRoute
<1>2. ASSUME NEW n \in Servers, Start(n) PROVE TypeInv'
  <2>1. Cardinality({n}) = 1
    BY FS_Singleton
  <2> QED
    BY <1>2, <2>1 DEF Start, RecordAfterStart
<1>3. ASSUME NEW n \in Servers, Bind(n) PROVE TypeInv'
  BY <1>3 DEF Bind
<1>4. ASSUME NEW n \in Servers, ServerClosed(n) PROVE TypeInv'
  BY <1>4 DEF ServerClosed
<1>5. CASE Stop
  <2>1. Cardinality({}) = 0
    BY FS_EmptySet
  <2> QED
    BY <1>5, <2>1 DEF Stop, ActiveDestroyed
<1>6. ASSUME NEW s \in Sockets, Accept(s) PROVE TypeInv'
  <2>1. PICK rs \in Streams[s] : stream' = [stream EXCEPT ![s] = rs]
    BY <1>6 DEF Accept
  <2>2. rs \in Seq(Requests)
    BY StreamsAssumption
  <2>3. /\ UNCHANGED <<server, netServer, routes, arrived, buffer, replies, writes, gone>>
        /\ socket' = [socket EXCEPT ![s] = "open"]
        /\ activeSockets' = activeSockets \cup {s}
    BY <1>6 DEF Accept
  <2>4. \A r \in Sockets : stream'[r] \in Streams[r] \cup {<<>>}
    BY <2>1
  <2>5. stream' \in [Sockets -> Seq(Requests)]
    BY <2>1, <2>2
  <2>6. /\ activeSockets' \subseteq Sockets
        /\ socket' \in [Sockets -> {"none", "open", "destroyed", "closed"}]
    BY <2>3
  <2>7. FunctionTypes'
    BY <2>3, <2>5
  <2>8. TypeOK'
    BY <2>3, <2>4, <2>6
  <2> HIDE DEF TypeOK, FunctionTypes
  <2> QED
    BY <2>7, <2>8
<1>7. ASSUME NEW s \in Sockets, Data(s) PROVE TypeInv'
  <2>0. PICK last, loop : Received(s, last, loop)
    BY <1>0, <1>7
  <2>1. /\ last \in Nat
        /\ loop.buffer \in Seq(Tokens) /\ loop.replies \in Seq(Replies)
        /\ arrived' = [arrived EXCEPT ![s] = last]
        /\ buffer' = [buffer EXCEPT ![s] = loop.buffer]
        /\ replies' = [replies EXCEPT ![s] = replies[s] \o loop.replies]
        /\ writes' = [writes EXCEPT ![s] = writes[s] \o loop.replies]
    BY <2>0 DEF Received
  <2>2. UNCHANGED <<server, netServer, routes, activeSockets, socket, stream, gone>>
    BY <1>7 DEF Data
  <2>3. replies[s] \o loop.replies \in Seq(Replies) /\ writes[s] \o loop.replies \in Seq(Replies)
    <3>1. replies[s] \in Seq(Replies) /\ writes[s] \in Seq(Replies)
      OBVIOUS
    <3> QED
      BY <2>1, <3>1
  <2>4. FunctionTypes'
    BY <2>1, <2>2, <2>3
  <2>5. \A r \in Sockets : \A i \in DOMAIN replies'[r] : replies'[r][i].status \in {200, 400, 404}
    <3> SUFFICES ASSUME NEW r \in Sockets, NEW i \in DOMAIN replies'[r]
                 PROVE  replies'[r][i].status \in {200, 400, 404}
      OBVIOUS
    <3>1. replies'[r] \in Seq(Replies)
      BY <2>4
    <3>2. replies'[r][i] \in Replies
      BY <3>1
    <3> QED
      BY <3>2 DEF Replies
  <2> QED
    BY <2>2, <2>4, <2>5
<1>8. ASSUME NEW s \in Sockets, Written(s) PROVE TypeInv'
  <2>1. writes[s] # <<>> /\ writes' = [writes EXCEPT ![s] = Tail(writes[s])]
    BY <1>8 DEF Written
  <2>2. Tail(writes[s]) \in Seq(Replies)
    <3>1. writes[s] \in Seq(Replies)
      OBVIOUS
    <3> QED
      BY <2>1, <3>1
  <2>3. writes' \in [Sockets -> Seq(Replies)]
    BY <2>1, <2>2
  <2>4. /\ UNCHANGED <<server, netServer, routes, activeSockets, stream, arrived, buffer, replies, gone>>
        /\ socket' \in [Sockets -> {"none", "open", "destroyed", "closed"}]
    BY <1>8 DEF Written
  <2> QED
    BY <2>3, <2>4
<1>9. ASSUME NEW s \in Sockets, ClientGone(s) PROVE TypeInv'
  BY <1>9 DEF ClientGone
<1>10. ASSUME NEW s \in Sockets, SocketClose(s) PROVE TypeInv'
  <2>1. <<>> \in Seq(Replies)
    OBVIOUS
  <2> QED
    BY <1>10, <2>1 DEF SocketClose, ActiveWithout
<1>11. CASE UNCHANGED vars
  BY <1>11 DEF vars
<1> QED
  BY <1>1, <1>2, <1>3, <1>4, <1>5, <1>6, <1>7, <1>8, <1>9, <1>10, <1>11 DEF Next

(* A connection that was not made stays untouched.                         *)
LEMMA FreshStep == TypeInv /\ FreshInv /\ [Next]_vars => FreshInv'
<1> SUFFICES ASSUME TypeInv, FreshInv, [Next]_vars PROVE FreshInv'
  OBVIOUS
<1>0. DOMAIN socket = Sockets
  BY DEF TypeInv, TypeOK
<1>1. CASE \E s \in Sockets : Accept(s)
  <2>1. PICK s \in Sockets : Accept(s)
    BY <1>1
  <2>2. /\ socket' = [socket EXCEPT ![s] = "open"] /\ NextToMake(socket, s)
        /\ UNCHANGED <<arrived, buffer, replies, writes>>
    BY <2>1 DEF Accept
  <2>3. Made(socket') = Made(socket) \cup {s}
    BY <1>0, <2>2 DEF Made
  <2>4. Numbered(socket')
    BY <1>0, <2>2, <2>3, StillNumbered, ObjectsAssumption DEF FreshInv
  <2>5. \A r \in Sockets : socket'[r] = "none" => socket[r] = "none"
    BY <1>0, <2>2
  <2>6. Numbered(socket)'
    BY <2>4 DEF Numbered, Made
  <2> QED
    BY <2>2, <2>5, <2>6 DEF FreshInv
<1>2. ASSUME Made(socket') = Made(socket), DOMAIN socket' = Sockets,
             UNCHANGED <<arrived, buffer, replies>>,
             \A s \in Sockets : writes[s] = <<>> => writes'[s] = <<>>
      PROVE  FreshInv'
  <2>1. \A s \in Sockets : socket'[s] = "none" => socket[s] = "none"
    BY <1>0, <1>2 DEF Made
  <2>2. Numbered(socket)'
    BY <1>2 DEF FreshInv, Numbered, Made
  <2> QED
    BY <1>2, <2>1, <2>2 DEF FreshInv
<1> USE DEF serverVars, streamVars, Made
<1>3. ASSUME NEW p \in Paths, RegisterRoute(p) PROVE FreshInv'
  BY <1>0, <1>2, <1>3 DEF RegisterRoute
<1>4. ASSUME NEW n \in Servers, Start(n) \/ Bind(n) \/ ServerClosed(n) PROVE FreshInv'
  BY <1>0, <1>2, <1>4 DEF Start, Bind, ServerClosed
<1>5. CASE Stop
  BY <1>0, <1>2, <1>5 DEF Stop, ActiveDestroyed
<1>6. ASSUME NEW s \in Sockets, Data(s) PROVE FreshInv'
  <2>1. PICK last, loop : Received(s, last, loop)
    BY <1>6, DataEvent
  <2>2. UNCHANGED socket /\ socket[s] # "none"
    BY <1>6 DEF Data
  <2>3. \A r \in Sockets \ {s} : /\ arrived'[r] = arrived[r] /\ buffer'[r] = buffer[r]
                                 /\ replies'[r] = replies[r] /\ writes'[r] = writes[r]
    BY <2>1 DEF Received, TypeInv, FunctionTypes
  <2> QED
    BY <2>2, <2>3 DEF FreshInv, Numbered
<1>7. ASSUME NEW s \in Sockets, Written(s) PROVE FreshInv'
  <2>1. \A r \in Sockets : writes[r] = <<>> => writes'[r] = <<>>
    BY <1>7 DEF Written, TypeInv, FunctionTypes
  <2> QED
    BY <1>0, <1>2, <1>7, <2>1 DEF Written
<1>8. ASSUME NEW s \in Sockets, ClientGone(s) \/ SocketClose(s) PROVE FreshInv'
  BY <1>0, <1>2, <1>8 DEF ClientGone, SocketClose, TypeInv, FunctionTypes
<1>9. CASE UNCHANGED vars
  BY <1>0, <1>2, <1>9 DEF vars
<1> QED
  BY <1>1, <1>3, <1>4, <1>5, <1>6, <1>7, <1>8, <1>9 DEF Next

(* Chunk after chunk, the replies are to the requests that are whole.      *)
LEMMA FrameStep == TypeInv /\ FreshInv /\ FrameInv /\ [Next]_vars => FrameInv'
<1> SUFFICES ASSUME TypeInv, FreshInv, FrameInv, [Next]_vars PROVE FrameInv'
  OBVIOUS
<1>1. ASSUME UNCHANGED <<stream, arrived, buffer, replies>>, routes \subseteq routes'
      PROVE  FrameInv'
  <2> SUFFICES ASSUME NEW s \in Sockets
               PROVE  /\ arrived[s] <= Len(WireAll(stream[s]))
                      /\ IsASCII(s) => Frame(routes', stream[s], arrived[s], buffer[s], replies[s])
    BY <1>1 DEF FrameInv, IsASCII
  <2> QED
    BY <1>1, FrameMoreRoutes DEF FrameInv
<1>2. ASSUME NEW s \in Sockets, Accept(s) PROVE FrameInv'
  <2>1. /\ socket[s] = "none" /\ UNCHANGED <<arrived, buffer, replies, routes>>
    <3>1. DOMAIN socket = Sockets /\ Numbered(socket) /\ NextToMake(socket, s)
      BY <1>2 DEF TypeInv, TypeOK, FreshInv, Accept
    <3>2. socket[s] = "none"
      BY <3>1, NewIsUnused, ObjectsAssumption
    <3> QED
      BY <1>2, <3>2 DEF Accept, streamVars
  <2>2. arrived[s] = 0 /\ buffer[s] = <<>> /\ replies[s] = <<>>
    BY <2>1 DEF FreshInv
  <2>3. PICK rs \in Seq(Requests) : stream' = [stream EXCEPT ![s] = rs]
    BY <1>2, StreamsAssumption DEF Accept
  <2>4. stream'[s] \in Seq(Requests) /\ \A r \in Sockets \ {s} : stream'[r] = stream[r]
    BY <2>3 DEF TypeInv, FunctionTypes
  <2>5. ASSUME NEW r \in Sockets
        PROVE  /\ arrived'[r] <= Len(WireAll(stream'[r]))
               /\ IsASCII(r)' => Frame(routes', stream'[r], arrived'[r], buffer'[r], replies'[r])
    <3>1. CASE r = s
      BY <2>1, <2>2, <2>4, <3>1, NothingArrived
    <3>2. CASE r # s
      BY <2>1, <2>4, <3>2 DEF FrameInv, IsASCII
    <3> QED
      BY <3>1, <3>2
  <2> QED
    BY <2>5 DEF FrameInv
<1>3. ASSUME NEW s \in Sockets, Data(s) PROVE FrameInv'
  <2>1. PICK last, loop : Received(s, last, loop)
    BY <1>3, DataEvent
  <2>2. UNCHANGED <<stream, routes>>
    BY <1>3 DEF Data
  <2>3. /\ stream[s] \in Seq(Requests) /\ arrived[s] \in Nat /\ replies[s] \in Seq(Replies)
        /\ arrived'[s] = last /\ buffer'[s] = loop.buffer /\ replies'[s] = replies[s] \o loop.replies
        /\ \A r \in Sockets \ {s} : /\ arrived'[r] = arrived[r] /\ buffer'[r] = buffer[r]
                                    /\ replies'[r] = replies[r]
    BY <2>1 DEF Received, TypeInv, FunctionTypes
  <2>4. last \in (arrived[s] + 1)..Len(WireAll(stream[s]))
        /\ loop = Loop(buffer[s] \o Decoded(SubSeq(WireAll(stream[s]), arrived[s] + 1, last)))
    BY <2>1 DEF Received
  <2>5. ASSUME IsASCII(s) PROVE Frame(routes, stream[s], last, loop.buffer, replies[s] \o loop.replies)
    <3>1. \A i \in 1..Len(stream[s]) : Wire(stream[s][i]) \in Seq(Plain)
      <4> SUFFICES ASSUME NEW i \in 1..Len(stream[s]) PROVE Wire(stream[s][i]) \in Seq(Plain)
        OBVIOUS
      <4>1. stream[s][i] \in Requests /\ i \in DOMAIN stream[s]
        BY <2>3
      <4>2. ToSet(stream[s][i].body) \cap ToSet(TwoBytes) = {}
        BY <2>5, <4>1 DEF IsASCII
      <4> QED
        BY <4>1, <4>2, PlainWire
    <3>2. Frame(routes, stream[s], arrived[s], buffer[s], replies[s])
      BY <2>5 DEF FrameInv
    <3> QED
      BY <2>3, <2>4, <3>1, <3>2, FrameData
  <2>6. ASSUME NEW r \in Sockets
        PROVE  /\ arrived'[r] <= Len(WireAll(stream'[r]))
               /\ IsASCII(r)' => Frame(routes', stream'[r], arrived'[r], buffer'[r], replies'[r])
    <3>1. CASE r = s
      <4>1. last <= Len(WireAll(stream[s]))
        BY <2>3, <2>4, WholeStream
      <4>2. IsASCII(r)' => IsASCII(s)
        BY <2>2, <3>1 DEF IsASCII
      <4> QED
        BY <2>2, <2>3, <2>5, <3>1, <4>1, <4>2
    <3>2. CASE r # s
      BY <2>2, <2>3, <3>2 DEF FrameInv, IsASCII
    <3> QED
      BY <3>1, <3>2
  <2> QED
    BY <2>6 DEF FrameInv
<1> USE DEF serverVars, streamVars
<1>4. ASSUME NEW p \in Paths, RegisterRoute(p) PROVE FrameInv'
  BY <1>1, <1>4 DEF RegisterRoute
<1>5. ASSUME NEW n \in Servers, Start(n) \/ Bind(n) \/ ServerClosed(n) PROVE FrameInv'
  BY <1>1, <1>5 DEF Start, Bind, ServerClosed
<1>6. CASE Stop
  BY <1>1, <1>6 DEF Stop
<1>7. ASSUME NEW s \in Sockets, Written(s) \/ ClientGone(s) \/ SocketClose(s) PROVE FrameInv'
  BY <1>1, <1>7 DEF Written, ClientGone, SocketClose
<1>8. CASE UNCHANGED vars
  BY <1>1, <1>8 DEF vars
<1> QED
  BY <1>2, <1>3, <1>4, <1>5, <1>6, <1>7, <1>8 DEF Next

(* Only replies are written.                                               *)
LEMMA WritesStep == TypeInv /\ WritesInv /\ [Next]_vars => WritesInv'
<1> SUFFICES ASSUME TypeInv, WritesInv, [Next]_vars PROVE WritesInv'
  OBVIOUS
<1>1. ASSUME UNCHANGED replies,
             \A s \in Sockets : \A i \in 1..Len(writes'[s]) :
               \E j \in 1..Len(writes[s]) : writes[s][j] = writes'[s][i]
      PROVE  WritesInv'
  <2> SUFFICES ASSUME NEW s \in Sockets, NEW i \in 1..Len(writes'[s])
               PROVE  \E j \in 1..Len(replies[s]) : replies[s][j] = writes'[s][i]
    BY <1>1 DEF WritesInv
  <2>1. PICK j \in 1..Len(writes[s]) : writes[s][j] = writes'[s][i]
    BY <1>1
  <2> QED
    BY <2>1 DEF WritesInv
<1>2. UNCHANGED <<writes, replies>> => WritesInv'
  BY DEF WritesInv
<1>3. ASSUME NEW s \in Sockets, Data(s) PROVE WritesInv'
  <2>1. PICK last, loop : Received(s, last, loop)
    BY <1>3, DataEvent
  <2> DEFINE w == writes[s]
             q == replies[s]
             p == loop.replies
  <2>2. /\ replies'[s] = q \o p /\ writes'[s] = w \o p
        /\ w \in Seq(Replies) /\ q \in Seq(Replies) /\ p \in Seq(Replies)
        /\ \A r \in Sockets \ {s} : replies'[r] = replies[r] /\ writes'[r] = writes[r]
    BY <2>1 DEF Received, TypeInv, FunctionTypes
  <2>3. \A i \in 1..Len(w) : \E j \in 1..Len(q) : q[j] = w[i]
    BY DEF WritesInv
  <2> HIDE DEF w, q, p
  <2>4. ASSUME NEW i \in 1..Len(w \o p) PROVE \E j \in 1..Len(q \o p) : (q \o p)[j] = (w \o p)[i]
    <3>1. Len(w \o p) = Len(w) + Len(p) /\ Len(q \o p) = Len(q) + Len(p)
          /\ Len(w) \in Nat /\ Len(q) \in Nat /\ Len(p) \in Nat
      BY <2>2, Joined
    <3>2. CASE i <= Len(w)
      <4>1. i \in 1..Len(w) /\ (w \o p)[i] = w[i]
        BY <2>2, <3>1, <3>2
      <4>2. PICK j \in 1..Len(q) : q[j] = w[i]
        BY <2>3, <4>1
      <4>3. (q \o p)[j] = q[j] /\ j \in 1..Len(q \o p)
        BY <2>2, <3>1
      <4> QED
        BY <4>1, <4>2, <4>3
    <3>3. CASE ~(i <= Len(w))
      <4> DEFINE k == i - Len(w)
      <4>1. k \in 1..Len(p) /\ Len(w) + k = i
        BY <3>1, <3>3
      <4> HIDE DEF k
      <4>2. (w \o p)[i] = p[k] /\ (q \o p)[Len(q) + k] = p[k]
        BY <2>2, <4>1, Joined
      <4>3. Len(q) + k \in 1..Len(q \o p)
        BY <3>1, <4>1
      <4> QED
        BY <4>2, <4>3
    <3> QED
      BY <3>2, <3>3
  <2>5. \A r \in Sockets : \A i \in 1..Len(writes'[r]) :
          \E j \in 1..Len(replies'[r]) : replies'[r][j] = writes'[r][i]
    <3> SUFFICES ASSUME NEW r \in Sockets
                 PROVE  \A i \in 1..Len(writes'[r]) :
                          \E j \in 1..Len(replies'[r]) : replies'[r][j] = writes'[r][i]
      OBVIOUS
    <3>1. CASE r = s
      BY <2>2, <2>4, <3>1
    <3>2. CASE r # s
      <4>1. writes'[r] = writes[r] /\ replies'[r] = replies[r]
        BY <2>2, <3>2
      <4>2. \A i \in 1..Len(writes[r]) :
              \E j \in 1..Len(replies[r]) : replies[r][j] = writes[r][i]
        BY DEF WritesInv
      <4> HIDE DEF w, p, q
      <4> QED
        BY <4>1, <4>2, Zenon
    <3> QED
      BY <3>1, <3>2
  <2> QED
    BY <2>5 DEF WritesInv
<1>4. ASSUME NEW s \in Sockets, Written(s) PROVE WritesInv'
  <2>1. /\ writes[s] # <<>> /\ writes' = [writes EXCEPT ![s] = Tail(writes[s])]
        /\ UNCHANGED replies /\ writes[s] \in Seq(Replies) /\ writes \in [Sockets -> Seq(Replies)]
    BY <1>4 DEF Written, streamVars, TypeInv, FunctionTypes
  <2>2. ASSUME NEW r \in Sockets, NEW i \in 1..Len(writes'[r])
        PROVE  \E j \in 1..Len(writes[r]) : writes[r][j] = writes'[r][i]
    <3>1. CASE r = s
      <4>1. ASSUME NEW w \in Seq(Replies), w # <<>>, NEW k \in 1..Len(Tail(w))
            PROVE  k + 1 \in 1..Len(w) /\ w[k + 1] = Tail(w)[k]
        BY <4>1
      <4>2. writes'[r] = Tail(writes[s])
        BY <2>1, <3>1
      <4> QED
        BY <2>1, <3>1, <4>1, <4>2
    <3>2. CASE r # s
      BY <2>1, <3>2
    <3> QED
      BY <3>1, <3>2
  <2> QED
    BY <1>1, <2>1, <2>2
<1>5. ASSUME NEW s \in Sockets, SocketClose(s) PROVE WritesInv'
  <2>1. /\ writes' = [writes EXCEPT ![s] = <<>>] /\ UNCHANGED replies
        /\ writes \in [Sockets -> Seq(Replies)]
    BY <1>5 DEF SocketClose, streamVars, TypeInv, FunctionTypes
  <2>2. ASSUME NEW r \in Sockets, NEW i \in 1..Len(writes'[r])
        PROVE  \E j \in 1..Len(writes[r]) : writes[r][j] = writes'[r][i]
    <3>1. r # s
      <4>1. Len(<<>>) = 0
        OBVIOUS
      <4> QED
        BY <2>1, <4>1
    <3> QED
      BY <2>1, <3>1
  <2> QED
    BY <1>1, <2>1, <2>2
<1> USE DEF serverVars, streamVars
<1>6. ASSUME NEW p \in Paths, RegisterRoute(p) PROVE WritesInv'
  BY <1>2, <1>6 DEF RegisterRoute
<1>7. ASSUME NEW n \in Servers, Start(n) \/ Bind(n) \/ ServerClosed(n) PROVE WritesInv'
  BY <1>2, <1>7 DEF Start, Bind, ServerClosed
<1>8. CASE Stop
  BY <1>2, <1>8 DEF Stop
<1>9. ASSUME NEW s \in Sockets, Accept(s) \/ ClientGone(s) PROVE WritesInv'
  BY <1>2, <1>9 DEF Accept, ClientGone
<1>10. CASE UNCHANGED vars
  BY <1>2, <1>10 DEF vars
<1> QED
  BY <1>3, <1>4, <1>5, <1>6, <1>7, <1>8, <1>9, <1>10 DEF Next

(* What a stop must end is on record.                                      *)
LEMMA ServerStep == TypeInv /\ ServerInv /\ [Next]_vars => ServerInv'
<1> SUFFICES ASSUME TypeInv, ServerInv, [Next]_vars PROVE ServerInv'
  OBVIOUS
<1> USE DEF TypeInv, TypeOK, ServerInv, StoppedIsGone, serverVars, streamVars
<1>1. ASSUME NEW p \in Paths, RegisterRoute(p) PROVE ServerInv'
  BY <1>1 DEF RegisterRoute
<1>2. ASSUME NEW n \in Servers, Start(n) PROVE ServerInv'
  <2>1. /\ netServer' = [netServer EXCEPT ![n] = "binding"] /\ server' = {n}
        /\ unruly' = (unruly \/ server # {}) /\ UNCHANGED <<activeSockets, socket>>
    BY <1>2 DEF Start, RecordAfterStart
  <2>2. ASSUME ~unruly', NEW m \in Servers, netServer'[m] \in {"binding", "listening"}
        PROVE  m = n
    <3>1. ~unruly /\ server = {}
      BY <2>1, <2>2
    <3>2. netServer[m] \notin {"binding", "listening"}
      BY <3>1
    <3> QED
      BY <2>1, <2>2, <3>2
  <2>3. server' # {}
    BY <2>1
  <2> QED
    BY <2>1, <2>2, <2>3
<1>3. ASSUME NEW n \in Servers, Bind(n) PROVE ServerInv'
  BY <1>3 DEF Bind
<1>4. ASSUME NEW n \in Servers, ServerClosed(n) PROVE ServerInv'
  BY <1>4 DEF ServerClosed
<1>5. CASE Stop
  <2>1. /\ netServer' = [n \in Servers |-> IF n \in server /\ netServer[n] = "listening"
                                            THEN "closing" ELSE netServer[n]]
        /\ unruly' = (unruly \/ \E n \in server : netServer[n] = "binding")
        /\ server' = {} /\ activeSockets' = {}
    BY <1>5 DEF Stop
  <2>2. \A s \in Sockets : socket'[s] # "open"
    BY <1>5 DEF Stop, ActiveDestroyed
  <2>3. ASSUME ~unruly', NEW n \in Servers PROVE netServer'[n] \notin {"binding", "listening"}
    <3>1. ~unruly /\ \A m \in server : netServer[m] # "binding"
      BY <2>1, <2>3
    <3>2. netServer[n] \in {"binding", "listening"} => n \in server
      BY <3>1
    <3> QED
      BY <2>1, <3>1, <3>2
  <2> QED
    BY <2>1, <2>2, <2>3
<1>6. ASSUME NEW s \in Sockets, Accept(s) PROVE ServerInv'
  BY <1>6 DEF Accept
<1>7. ASSUME NEW s \in Sockets, Data(s) PROVE ServerInv'
  BY <1>7 DEF Data
<1>8. ASSUME NEW s \in Sockets, Written(s) PROVE ServerInv'
  BY <1>8 DEF Written
<1>9. ASSUME NEW s \in Sockets, ClientGone(s) PROVE ServerInv'
  BY <1>9 DEF ClientGone
<1>10. ASSUME NEW s \in Sockets, SocketClose(s) PROVE ServerInv'
  BY <1>10 DEF SocketClose, ActiveWithout
<1>11. CASE UNCHANGED vars
  BY <1>11 DEF vars
<1> QED
  BY <1>1, <1>2, <1>3, <1>4, <1>5, <1>6, <1>7, <1>8, <1>9, <1>10, <1>11 DEF Next

-----------------------------------------------------------------------------
(* The invariant holds, whatever clients send and however it is cut.       *)
THEOREM ServerInvariant == Spec => []Inv
<1>1. Inv /\ [Next]_vars => Inv'
  BY TypeStep, FreshStep, FrameStep, WritesStep, ServerStep DEF Inv
<1> QED
  BY <1>1, InitInv, PTL DEF Spec

(* A stop that comes after its start has ended leaves no server and no     *)
(* connection behind.                                                      *)
THEOREM AlwaysConsistent == Spec => []Consistent
<1>1. Inv => Consistent
  BY DEF Inv, TypeInv, ServerInv, Consistent
<1> QED
  BY <1>1, ServerInvariant, PTL

(* However the bytes of any streams of requests are cut into chunks, the   *)
(* requests that have arrived whole are answered once, in order, each with *)
(* its own body: if the bodies are ASCII.                                  *)
THEOREM RequestsAnsweredInOrder == Spec => []AnsweredInOrder
<1>1. Inv => AnsweredInOrder
  <2> SUFFICES ASSUME Inv, NEW s \in Sockets, IsASCII(s) PROVE AllAnswered(s)
    BY DEF AnsweredInOrder
  <2> DEFINE rs == stream[s]
             a == arrived[s]
             q == replies[s]
             m == Len(q)
             J == {j \in 0..Len(rs) : End(rs, j) <= a}
  <2>1. rs \in Seq(Requests) /\ a \in Nat /\ Frame(routes, rs, a, buffer[s], q)
    BY DEF Inv, TypeInv, FunctionTypes, FrameInv
  <2>2. m \in J /\ m \in 0..Len(rs) /\ Len(rs) \in Nat
    BY <2>1 DEF Frame
  <2>3. ASSUME NEW j \in J PROVE j <= m
    <3> SUFFICES ASSUME m + 1 <= j PROVE FALSE
      BY <2>2
    <3>1. m < Len(rs) /\ m + 1 \in 0..Len(rs) /\ j \in (m + 1)..Len(rs)
      BY <2>2
    <3>2. a < End(rs, m + 1)
      BY <2>1, <3>1 DEF Frame
    <3>3. End(rs, m + 1) + (j - (m + 1)) <= End(rs, j)
      BY <2>1, <3>1, EndsInOrder
    <3>4. End(rs, m + 1) \in Nat /\ End(rs, j) \in Nat /\ End(rs, j) <= a
      BY <2>1, <3>1, EndGrows
    <3> QED
      BY <2>1, <2>2, <3>2, <3>3, <3>4
  <2>4. Max(J) = m
    <3>1. \A x \in J : (\A y \in J : x >= y) => x = m
      BY <2>2, <2>3
    <3>2. \A y \in J : m >= y
      BY <2>2, <2>3
    <3> HIDE DEF J, m
    <3> QED
      BY <2>2, <3>1, <3>2 DEF Max
  <2>5. Whole(s) = SubSeq(rs, 1, m)
    <3>1. {j \in 0..Len(stream[s]) : Len(WireAll(SubSeq(stream[s], 1, j))) <= arrived[s]} = J
      BY DEF End
    <3> QED
      BY <2>4, <3>1 DEF Whole
  <2>6. Len(Whole(s)) = m /\ \A i \in 1..m : Whole(s)[i] = rs[i]
    BY <2>1, <2>2, <2>5
  <2>7. DOMAIN q = 1..m
    BY DEF Inv, TypeInv, FunctionTypes
  <2>8. \A i \in 1..m : Answers(q[i], rs[i])
    BY <2>1 DEF Frame, Answers, AnswersWith
  <2> QED
    BY <2>6, <2>7, <2>8 DEF AllAnswered
<1> QED
  BY <1>1, ServerInvariant, PTL

(* The server destroys a connection only when it stops, when the client is *)
(* gone, or after a reply that closes.                                     *)
THEOREM ConnectionsKeptAlive == Spec => KeepAlive
<1> DEFINE Kept ==
      \A s \in Sockets :
        socket[s] = "open" /\ socket'[s] = "destroyed" /\ server' # {} /\ s \notin gone' =>
          \E i \in DOMAIN replies[s] : replies[s][i].status = 400 \/ replies[s][i].close
<1>1. Inv /\ [Next]_vars => [Kept]_vars
  <2> SUFFICES ASSUME Inv, Next, NEW s \in Sockets, socket[s] = "open", socket'[s] = "destroyed",
                      server' # {}, s \notin gone'
               PROVE  \E i \in DOMAIN replies[s] : replies[s][i].status = 400 \/ replies[s][i].close
    OBVIOUS
  <2>1. /\ socket \in [Sockets -> {"none", "open", "destroyed", "closed"}]
        /\ writes[s] \in Seq(Replies) /\ replies[s] \in Seq(Replies)
    BY DEF Inv, TypeInv, TypeOK, FunctionTypes
  <2>2. Written(s)
    <3> USE <2>1 DEF serverVars, streamVars
    <3>1. ASSUME NEW p \in Paths, RegisterRoute(p) PROVE FALSE
      BY <3>1 DEF RegisterRoute
    <3>2. ASSUME NEW n \in Servers, Start(n) \/ Bind(n) \/ ServerClosed(n) PROVE FALSE
      BY <3>2 DEF Start, Bind, ServerClosed
    <3>3. CASE Stop
      BY <3>3 DEF Stop
    <3>4. ASSUME NEW r \in Sockets, Accept(r) \/ Data(r) \/ ClientGone(r) \/ SocketClose(r)
          PROVE  FALSE
      BY <3>4 DEF Accept, Data, ClientGone, SocketClose
    <3>5. ASSUME NEW r \in Sockets, Written(r), r # s PROVE FALSE
      BY <3>5 DEF Written
    <3> QED
      BY <3>1, <3>2, <3>3, <3>4, <3>5 DEF Next
  <2>3. writes[s] # <<>> /\ Closes(writes[s][1])
    BY <2>1, <2>2 DEF Written
  <2>4. 1 \in 1..Len(writes[s])
    BY <2>1, <2>3
  <2>5. PICK j \in 1..Len(replies[s]) : replies[s][j] = writes[s][1]
    BY <2>4 DEF Inv, WritesInv
  <2>6. j \in DOMAIN replies[s]
    BY <2>1
  <2> QED
    BY <2>3, <2>5, <2>6 DEF Closes
<1> QED
  BY <1>1, ServerInvariant, PTL DEF Spec, KeepAlive
=============================================================================
