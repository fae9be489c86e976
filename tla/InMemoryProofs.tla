--------------------------- MODULE InMemoryProofs ---------------------------
(***************************************************************************)
(* The programs that work in memory, for all values of their constants.    *)
(* The URL shortener: what a caller was promised for a URL is what a reader*)
(* gets.  The log aggregator: its ring is the last entries ingested, and a *)
(* query finds what satisfies its filters.  The health checks of the load  *)
(* balancer.  The heap of tasks: its first element is the earliest task.   *)
(* The cache: it drops the least recently used key.  The rate limiters: a  *)
(* client gets no more than its bound and is not refused less.  The load   *)
(* balancer: its strategies are fair while backends come and go.  The      *)
(* parser: what was serialized is what it returns.                         *)
(***************************************************************************)
EXTENDS InMemory, Selections, FiniteSetTheorems, SequenceTheorems, WellFoundedInduction, TLAPS


-----------------------------------------------------------------------------
(* Identifiers and keys.  Encode and DecodeFirst are recursive functions,  *)
(* which exist because each refers to smaller arguments only.              *)

(* A nonempty set of natural numbers has a least element.                  *)
LEMMA LeastElement ==
  ASSUME NEW T, T \subseteq Nat, T # {}
  PROVE  \E x \in T : \A y \in T : x <= y
<1>1. \E x \in T : \A y \in T : ~ (<<y, x>> \in OpToRel(<, Nat))
  BY NatLessThanWellFounded, WFMin
<1>2. PICK x \in T : \A y \in T : ~ (<<y, x>> \in OpToRel(<, Nat))
  BY <1>1
<1>3. \A y \in T : ~ (y < x)
  BY <1>2 DEF OpToRel
<1> QED
  BY <1>3

(* Division with remainder by a base makes a positive number smaller.      *)
LEMMA Division ==
  ASSUME Base \in Nat, Base > 1, NEW n \in Nat
  PROVE  /\ n \div Base \in Nat /\ n % Base \in 0..(Base - 1)
         /\ n = (n \div Base) * Base + (n % Base)
         /\ n > 0 => n \div Base < n
<1> DEFINE q == n \div Base
           r == n % Base
<1>1. q \in Nat /\ r \in 0..(Base - 1)
  OBVIOUS
<1>2. n = Base * q + r
  OBVIOUS
<1>3. n > 0 => q < n
  <2> SUFFICES ASSUME n > 0, q >= n PROVE FALSE
    BY <1>1
  <2> HIDE DEF q, r
  <2>1. Base * q >= 2 * q
    BY <1>1
  <2> QED
    BY <1>1, <1>2, <2>1
<1> HIDE DEF q, r
<1>4. Base * q = q * Base
  BY <1>1
<1>5. n = q * Base + r
  BY <1>2, <1>4
<1>6. q \in Nat /\ r \in 0..(Base - 1) /\ n = q * Base + r /\ (n > 0 => q < n)
  BY <1>1, <1>3, <1>5
<1> QED
  BY <1>6, Zenon DEF q, r

(* The body of Encode, and its equation on the numbers up to n.            *)
EncodeStep(g, i) == IF i < Base THEN <<i>> ELSE Append(g[i \div Base], i % Base)
EncodesUpTo(n, g) == g = [i \in 0..n |-> EncodeStep(g, i)]

(* The body refers to smaller arguments only.                              *)
LEMMA EncodeStepDepends ==
  ASSUME Base \in Nat, Base > 1, NEW i \in Nat, NEW g, NEW h,
         \A j \in Nat : j < i => g[j] = h[j]
  PROVE  EncodeStep(g, i) = EncodeStep(h, i)
<1>1. CASE i < Base
  BY <1>1 DEF EncodeStep
<1>2. CASE ~(i < Base)
  <2>1. i \div Base \in Nat /\ i \div Base < i
    BY <1>2, Division
  <2>2. g[i \div Base] = h[i \div Base]
    BY <2>1
  <2> QED
    BY <1>2, <2>2, Zenon DEF EncodeStep
<1> QED
  BY <1>1, <1>2

(* A function with this body exists.                                       *)
LEMMA EncodingExists ==
  ASSUME Base \in Nat, Base > 1, NEW n \in Nat
  PROVE  \E g : EncodesUpTo(n, g)
<1> DEFINE T == {m \in Nat : ~ \E g : EncodesUpTo(m, g)}
<1> SUFFICES ASSUME T # {} PROVE FALSE
  OBVIOUS
<1>1. PICK m \in T : \A y \in T : m <= y
  BY LeastElement
<1>2. PICK g : m # 0 => EncodesUpTo(m - 1, g)
  <2>1. m # 0 => m - 1 \in Nat /\ m - 1 \notin T
    BY <1>1
  <2> QED
    BY <2>1
<1> DEFINE h == [i \in 0..m |-> EncodeStep(g, i)]
<1>3. ASSUME NEW i \in 0..m PROVE EncodeStep(g, i) = EncodeStep(h, i)
  <2>1. ASSUME NEW j \in Nat, j < i PROVE g[j] = h[j]
    <3>1. m # 0 /\ j \in 0..m - 1 /\ j \in 0..m
      BY <2>1
    <3>2. g[j] = EncodeStep(g, j)
      BY <1>2, <3>1 DEF EncodesUpTo
    <3> QED
      BY <3>1, <3>2
  <2> HIDE DEF h
  <2> QED
    BY <2>1, EncodeStepDepends
<1>4. h = [i \in 0..m |-> EncodeStep(h, i)]
  BY <1>3
<1>5. EncodesUpTo(m, h)
  BY <1>4 DEF EncodesUpTo
<1> QED
  BY <1>1, <1>5

(* There is only one.                                                      *)
LEMMA EncodingUnique ==
  ASSUME Base \in Nat, Base > 1,
         NEW n \in Nat, NEW m \in Nat, NEW g, NEW h,
         EncodesUpTo(n, g), EncodesUpTo(m, h),
         NEW i \in Nat, i <= n, i <= m
  PROVE  g[i] = h[i]
<1> DEFINE T == {j \in Nat : j <= n /\ j <= m /\ g[j] # h[j]}
<1> SUFFICES ASSUME T # {} PROVE FALSE
  OBVIOUS
<1>1. PICK j \in T : \A y \in T : j <= y
  BY LeastElement
<1>2. j \in 0..n /\ j \in 0..m
  BY <1>1
<1>3. g[j] = EncodeStep(g, j) /\ h[j] = EncodeStep(h, j)
  BY <1>2 DEF EncodesUpTo
<1>4. \A k \in Nat : k < j => g[k] = h[k]
  BY <1>1
<1>5. EncodeStep(g, j) = EncodeStep(h, j)
  BY <1>4, EncodeStepDepends
<1> QED
  BY <1>1, <1>3, <1>5

(* Encode satisfies its own equation.                                      *)
LEMMA EncodeEquation ==
  ASSUME Base \in Nat, Base > 1
  PROVE  Shortener!Encode = [id \in Nat |-> EncodeStep(Shortener!Encode, id)]
<1> DEFINE Part(n) == CHOOSE g : EncodesUpTo(n, g)
           f == [id \in Nat |-> Part(id)[id]]
<1>1. \A n \in Nat : EncodesUpTo(n, Part(n))
  BY EncodingExists
<1> HIDE DEF Part
<1>2. ASSUME NEW id \in Nat PROVE Part(id)[id] = EncodeStep(f, id)
  <2>1. id \in 0..id /\ EncodesUpTo(id, Part(id))
    BY <1>1
  <2>2. Part(id)[id] = EncodeStep(Part(id), id)
    BY <2>1 DEF EncodesUpTo
  <2>3. \A j \in Nat : j < id => Part(id)[j] = f[j]
    BY <1>1, EncodingUnique
  <2> HIDE DEF f
  <2>4. EncodeStep(Part(id), id) = EncodeStep(f, id)
    BY <2>3, EncodeStepDepends
  <2> QED
    BY <2>2, <2>4
<1>3. f = [id \in Nat |-> EncodeStep(f, id)]
  BY <1>2
<1> HIDE DEF f
<1>4. Shortener!Encode = CHOOSE e : e = [id \in Nat |-> EncodeStep(e, id)]
  BY DEF Shortener!Encode, EncodeStep
<1> QED
  BY <1>3, <1>4

(* Keys are finite sequences of digits; the key of an identifier is valid. *)
LEMMA EncodeType ==
  ASSUME Base \in Nat, Base > 1, NEW id \in Nat
  PROVE  Shortener!Encode[id] \in Seq(0..(Base - 1)) \ {<<>>}
<1> DEFINE S == Seq(0..(Base - 1)) \ {<<>>}
           T == {m \in Nat : Shortener!Encode[m] \notin S}
<1> SUFFICES ASSUME T # {} PROVE FALSE
  OBVIOUS
<1>1. PICK m \in T : \A y \in T : m <= y
  BY LeastElement
<1>2. Shortener!Encode[m] = EncodeStep(Shortener!Encode, m)
  BY EncodeEquation
<1>3. CASE m < Base
  <2>1. Shortener!Encode[m] = <<m>> /\ m \in 0..(Base - 1)
    BY <1>1, <1>2, <1>3 DEF EncodeStep
  <2>2. \A d \in 0..(Base - 1) : <<d>> \in S
    OBVIOUS
  <2> QED
    BY <1>1, <2>1, <2>2
<1>4. CASE ~(m < Base)
  <2>1. m \div Base \in Nat /\ m \div Base < m /\ m % Base \in 0..(Base - 1)
    <3>1. m \in Nat /\ m > 0
      BY <1>4
    <3> HIDE DEF T
    <3> QED
      BY <3>1, Division, Zenon
  <2>2. Shortener!Encode[m \div Base] \in S
    BY <1>1, <2>1
  <2>3. Shortener!Encode[m] = Append(Shortener!Encode[m \div Base], m % Base)
    BY <1>2, <1>4, Zenon DEF EncodeStep
  <2> HIDE DEF T
  <2>4. ASSUME NEW s \in S, NEW d \in 0..(Base - 1) PROVE Append(s, d) \in S
    OBVIOUS
  <2> HIDE DEF S
  <2>5. Shortener!Encode[m] \in S
    BY <2>1, <2>2, <2>3, <2>4
  <2> QED
    BY <1>1, <2>5 DEF T
<1> QED
  BY <1>3, <1>4

-----------------------------------------------------------------------------
(* The body of DecodeFirst, and its equation on the keys up to a length.   *)
DecodeStep(g, key) ==
  IF key = <<>> THEN 0 ELSE g[SubSeq(key, 1, Len(key) - 1)] * Base + key[Len(key)]
KeysUpTo(n) == {key \in Seq(Nat) : Len(key) <= n}
DecodesUpTo(n, g) == g = [key \in KeysUpTo(n) |-> DecodeStep(g, key)]

(* It refers to shorter keys only.                                         *)
LEMMA DecodeStepDepends ==
  ASSUME NEW key \in Seq(Nat), NEW g, NEW h,
         \A k \in Seq(Nat) : Len(k) < Len(key) => g[k] = h[k]
  PROVE  DecodeStep(g, key) = DecodeStep(h, key)
<1>1. CASE key = <<>>
  BY <1>1 DEF DecodeStep
<1>2. CASE key # <<>>
  <2> DEFINE k == SubSeq(key, 1, Len(key) - 1)
  <2>1. k \in Seq(Nat) /\ Len(k) < Len(key)
    BY <1>2
  <2>2. g[k] = h[k]
    BY <2>1
  <2> QED
    BY <1>2, <2>2, Zenon DEF DecodeStep
<1> QED
  BY <1>1, <1>2

(* A function with this body exists at every length.                       *)
LEMMA DecodingExists ==
  ASSUME NEW n \in Nat
  PROVE  \E g : DecodesUpTo(n, g)
<1> DEFINE T == {m \in Nat : ~ \E g : DecodesUpTo(m, g)}
<1> SUFFICES ASSUME T # {} PROVE FALSE
  OBVIOUS
<1>1. PICK m \in T : \A y \in T : m <= y
  BY LeastElement
<1>2. PICK g : m # 0 => DecodesUpTo(m - 1, g)
  <2>1. m # 0 => m - 1 \in Nat /\ m - 1 \notin T
    BY <1>1
  <2> QED
    BY <2>1
<1> DEFINE h == [key \in KeysUpTo(m) |-> DecodeStep(g, key)]
<1>3. ASSUME NEW key \in KeysUpTo(m) PROVE DecodeStep(g, key) = DecodeStep(h, key)
  <2>1. ASSUME NEW k \in Seq(Nat), Len(k) < Len(key) PROVE g[k] = h[k]
    <3>1. m # 0 /\ k \in KeysUpTo(m - 1) /\ k \in KeysUpTo(m)
      BY <2>1 DEF KeysUpTo
    <3>2. g[k] = DecodeStep(g, k)
      BY <1>2, <3>1 DEF DecodesUpTo
    <3> QED
      BY <3>1, <3>2
  <2> HIDE DEF h
  <2>2. key \in Seq(Nat)
    BY DEF KeysUpTo
  <2> QED
    BY <2>1, <2>2, DecodeStepDepends
<1>4. h = [key \in KeysUpTo(m) |-> DecodeStep(h, key)]
  BY <1>3
<1>5. DecodesUpTo(m, h)
  BY <1>4 DEF DecodesUpTo
<1> QED
  BY <1>1, <1>5

(* There is only one.                                                      *)
LEMMA DecodingUnique ==
  ASSUME NEW n \in Nat, NEW m \in Nat, NEW g, NEW h,
         DecodesUpTo(n, g), DecodesUpTo(m, h),
         NEW key \in KeysUpTo(n), key \in KeysUpTo(m)
  PROVE  g[key] = h[key]
<1> DEFINE T == {l \in Nat : \E k \in Seq(Nat) :
                   Len(k) = l /\ l <= n /\ l <= m /\ g[k] # h[k]}
<1>1. SUFFICES ASSUME T # {} PROVE FALSE
  <2>1. key \in Seq(Nat) /\ Len(key) \in Nat /\ Len(key) <= n /\ Len(key) <= m
    BY DEF KeysUpTo
  <2> QED
    BY <2>1
<1>2. PICK l \in T : \A y \in T : l <= y
  BY <1>1, LeastElement
<1>3. PICK k \in Seq(Nat) : Len(k) = l /\ l <= n /\ l <= m /\ g[k] # h[k]
  BY <1>2
<1>4. k \in KeysUpTo(n) /\ k \in KeysUpTo(m)
  BY <1>3 DEF KeysUpTo
<1>5. g[k] = DecodeStep(g, k) /\ h[k] = DecodeStep(h, k)
  BY <1>4 DEF DecodesUpTo
<1>6. \A j \in Seq(Nat) : Len(j) < Len(k) => g[j] = h[j]
  <2> SUFFICES ASSUME NEW j \in Seq(Nat), Len(j) < Len(k), g[j] # h[j] PROVE FALSE
    OBVIOUS
  <2>1. Len(j) \in Nat /\ Len(j) <= n /\ Len(j) <= m
    BY <1>3
  <2>2. Len(j) \in T
    BY <2>1
  <2> QED
    BY <1>2, <1>3, <2>1, <2>2
<1>7. DecodeStep(g, k) = DecodeStep(h, k)
  BY <1>6, DecodeStepDepends
<1> QED
  BY <1>3, <1>5, <1>7

(* DecodeFirst satisfies its own equation.                                 *)
LEMMA DecodeEquation ==
  Shortener!DecodeFirst = [key \in Seq(Nat) |-> DecodeStep(Shortener!DecodeFirst, key)]
<1> DEFINE Part(n) == CHOOSE g : DecodesUpTo(n, g)
           f == [key \in Seq(Nat) |-> Part(Len(key))[key]]
<1>1. \A n \in Nat : DecodesUpTo(n, Part(n))
  BY DecodingExists
<1> HIDE DEF Part
<1>2. ASSUME NEW key \in Seq(Nat) PROVE Part(Len(key))[key] = DecodeStep(f, key)
  <2> DEFINE p == Part(Len(key))
  <2>1. Len(key) \in Nat /\ key \in KeysUpTo(Len(key)) /\ DecodesUpTo(Len(key), p)
    BY <1>1 DEF KeysUpTo
  <2>2. p[key] = DecodeStep(p, key)
    BY <2>1 DEF DecodesUpTo
  <2> HIDE DEF p
  <2>3. ASSUME NEW k \in Seq(Nat), Len(k) < Len(key) PROVE p[k] = f[k]
    <3>1. Len(k) \in Nat /\ k \in KeysUpTo(Len(k)) /\ k \in KeysUpTo(Len(key))
      BY <2>3, <2>1 DEF KeysUpTo
    <3>2. DecodesUpTo(Len(k), Part(Len(k)))
      BY <1>1, <3>1
    <3>3. p[k] = Part(Len(k))[k]
      BY <2>1, <3>1, <3>2, DecodingUnique
    <3> QED
      BY <3>3
  <2> HIDE DEF f
  <2>4. DecodeStep(p, key) = DecodeStep(f, key)
    BY <2>3, DecodeStepDepends
  <2> QED
    BY <2>2, <2>4 DEF p
<1>3. f = [key \in Seq(Nat) |-> DecodeStep(f, key)]
  BY <1>2
<1> HIDE DEF f
<1>4. Shortener!DecodeFirst = CHOOSE e : e = [key \in Seq(Nat) |-> DecodeStep(e, key)]
  BY DEF Shortener!DecodeFirst, DecodeStep
<1> QED
  BY <1>3, <1>4

(* The key of an identifier is decoded to the identifier.                  *)
LEMMA EncodedIsDecoded ==
  ASSUME Base \in Nat, Base > 1, NEW id \in Nat
  PROVE  Shortener!Decode(Shortener!Encode[id]) = id
<1> DEFINE T == {m \in Nat : Shortener!Decode(Shortener!Encode[m]) # m}
<1> SUFFICES ASSUME T # {} PROVE FALSE
  OBVIOUS
<1>1. PICK m \in T : \A y \in T : m <= y
  BY LeastElement
<1>2. Shortener!Encode[m] = EncodeStep(Shortener!Encode, m)
  BY EncodeEquation
<1>3. \A n \in Nat : Shortener!Encode[n] \in Seq(Nat)
  <2>1. \A n \in Nat : Shortener!Encode[n] \in Seq(0..(Base - 1))
    BY EncodeType
  <2>2. \A s \in Seq(0..(Base - 1)) : s \in Seq(Nat)
    OBVIOUS
  <2> QED
    BY <2>1, <2>2
<1>4. \A s \in Seq(Nat) : Shortener!DecodeFirst[s] = DecodeStep(Shortener!DecodeFirst, s)
  BY DecodeEquation
<1>5. CASE m < Base
  <2>1. Shortener!Encode[m] = <<m>> /\ <<m>> \in Seq(Nat)
    BY <1>2, <1>5 DEF EncodeStep
  <2>2. SubSeq(<<m>>, 1, Len(<<m>>) - 1) = <<>> /\ Len(<<m>>) = 1 /\ <<m>>[1] = m /\ <<m>> # <<>>
    OBVIOUS
  <2>3. Shortener!DecodeFirst[<<>>] = 0
    <3>1. <<>> \in Seq(Nat)
      OBVIOUS
    <3> QED
      BY <1>4, <3>1, Zenon DEF DecodeStep
  <2>4. Shortener!DecodeFirst[<<m>>] = Shortener!DecodeFirst[<<>>] * Base + m
    BY <1>4, <2>1, <2>2 DEF DecodeStep
  <2> QED
    BY <1>1, <2>1, <2>3, <2>4 DEF Shortener!Decode
<1>6. CASE ~(m < Base)
  <2> DEFINE q == m \div Base
             r == m % Base
  <2>1. q \in Nat /\ q < m /\ r \in Nat /\ m = q * Base + r
    BY <1>6, Division
  <2>2. Shortener!Encode[m] = Append(Shortener!Encode[q], r)
    BY <1>2, <1>6, Zenon DEF EncodeStep
  <2> HIDE DEF q, r
  <2>3. Shortener!DecodeFirst[Shortener!Encode[q]] = q
    BY <1>1, <2>1 DEF Shortener!Decode
  <2>4. ASSUME NEW s \in Seq(Nat) PROVE Shortener!DecodeFirst[Append(s, r)] = Shortener!DecodeFirst[s] * Base + r
    <3> DEFINE t == Append(s, r)
    <3>1. t \in Seq(Nat) /\ t # <<>> /\ SubSeq(t, 1, Len(t) - 1) = s /\ t[Len(t)] = r
      BY <2>1
    <3> HIDE DEF t
    <3>2. Shortener!DecodeFirst[t] = Shortener!DecodeFirst[s] * Base + r
      BY <1>4, <3>1, Zenon DEF DecodeStep
    <3> QED
      BY <3>2 DEF t
  <2>5. Shortener!DecodeFirst[Shortener!Encode[m]] = q * Base + r
    BY <1>3, <2>1, <2>2, <2>3, <2>4
  <2> QED
    BY <1>1, <2>1, <2>5 DEF Shortener!Decode
<1> QED
  BY <1>5, <1>6

(* Every key is decoded to a number.                                       *)
LEMMA DecodeType ==
  ASSUME Base \in Nat, NEW key \in Seq(Nat)
  PROVE  Shortener!Decode(key) \in Nat
<1> DEFINE T == {l \in Nat : \E k \in Seq(Nat) : Len(k) = l /\ Shortener!DecodeFirst[k] \notin Nat}
<1>1. SUFFICES ASSUME T # {} PROVE FALSE
  <2>1. Len(key) \in Nat
    OBVIOUS
  <2> QED
    BY <2>1 DEF Shortener!Decode
<1>2. PICK l \in T : \A y \in T : l <= y
  BY <1>1, LeastElement
<1>3. PICK k \in Seq(Nat) : Len(k) = l /\ Shortener!DecodeFirst[k] \notin Nat
  BY <1>2
<1>4. Shortener!DecodeFirst[k] = DecodeStep(Shortener!DecodeFirst, k)
  BY DecodeEquation
<1>5. CASE k = <<>>
  BY <1>3, <1>4, <1>5 DEF DecodeStep
<1>6. CASE k # <<>>
  <2> DEFINE j == SubSeq(k, 1, Len(k) - 1)
  <2>1. j \in Seq(Nat) /\ Len(j) \in Nat /\ Len(j) < l /\ k[Len(k)] \in Nat
    BY <1>3, <1>6
  <2>2. Shortener!DecodeFirst[k] = Shortener!DecodeFirst[j] * Base + k[Len(k)]
    BY <1>4, <1>6, Zenon DEF DecodeStep
  <2> HIDE DEF j
  <2>3. Shortener!DecodeFirst[j] \in Nat
    BY <1>2, <2>1
  <2>4. ASSUME NEW a \in Nat, NEW d \in Nat PROVE a * Base + d \in Nat
    <3>1. a * Base \in Nat
      OBVIOUS
    <3>2. \A p \in Nat : p + d \in Nat
      OBVIOUS
    <3> QED
      BY <3>1, <3>2, Zenon
  <2> QED
    BY <1>3, <2>1, <2>2, <2>3, <2>4
<1> QED
  BY <1>5, <1>6

-----------------------------------------------------------------------------
(* The service.  Its state has types; a database has one row for an        *)
(* identifier.                                                             *)
Row == [id : Nat, url : URLs]
OneRow(rows) == \A i, j \in DOMAIN rows : rows[i].id = rows[j].id => i = j
TypeInv ==
  /\ db \in Seq(Row) /\ OneRow(db)
  /\ nextId \in FirstId..(MaxId + 1)
  /\ DOMAIN reverseDb \subseteq URLs
  /\ \A url \in DOMAIN reverseDb : reverseDb[url] \in Nat
  /\ response.status \in {0, 201, 302, 400, 404}

(* The database has a row for the identifier, which leads to the URL unless*)
(* the identifier was handed out while in use.                             *)
Leads(id, url) == Shortener!Rows(id) # {} /\ (id \notin reissued => Shortener!Lookup(id) = {url})

(* So does the identifier of each URL on record, of each key given and of  *)
(* each key in the cache.                                                  *)
RecordInv == \A url \in DOMAIN reverseDb : Leads(reverseDb[url], url)
GivenInv ==
  \A g \in given : \E url \in URLs, id \in Nat : g = <<url, Shortener!Encode[id]>> /\ Leads(id, url)
CacheInv ==
  \A key \in DOMAIN urlCache :
    Shortener!Decode(key) \in Nat /\ Leads(Shortener!Decode(key), urlCache[key]) /\ urlCache[key] # EmptyURL

(* While no identifier was handed out twice, a new service would find what *)
(* this one has on record, and each URL's key is that of its record.       *)
KeyInv ==
  reissued = {} =>
    /\ reverseDb = Shortener!Reversed(db)
    /\ \A g \in given : g[1] \in DOMAIN reverseDb /\ g[2] = Shortener!Encode[reverseDb[g[1]]]

Inv == TypeInv /\ RecordInv /\ GivenInv /\ CacheInv /\ KeyInv /\ Shortener!EveryRedirectCounted

(* The last row of a URL.                                                  *)
LEMMA LastRow ==
  ASSUME NEW rows \in Seq(Row), NEW url, \E i \in DOMAIN rows : rows[i].url = url
  PROVE  LET l == Shortener!LastRowOf(rows, url) IN
         /\ l \in DOMAIN rows /\ rows[l].url = url
         /\ \A j \in DOMAIN rows : rows[j].url = url => j <= l
<1> DEFINE T == {k \in Nat : Len(rows) - k \in DOMAIN rows /\ rows[Len(rows) - k].url = url}
<1>1. T # {}
  <2>1. PICK i \in DOMAIN rows : rows[i].url = url
    OBVIOUS
  <2>2. Len(rows) - i \in Nat /\ Len(rows) - (Len(rows) - i) = i
    OBVIOUS
  <2> QED
    BY <2>1, <2>2
<1>2. PICK k \in T : \A y \in T : k <= y
  BY <1>1, LeastElement
<1> DEFINE l == Len(rows) - k
<1>3. l \in DOMAIN rows /\ rows[l].url = url
  BY <1>2
<1>4. ASSUME NEW j \in DOMAIN rows, rows[j].url = url PROVE j <= l
  <2>1. Len(rows) - j \in Nat /\ Len(rows) - (Len(rows) - j) = j
    OBVIOUS
  <2>2. Len(rows) - j \in T
    BY <1>4, <2>1
  <2> QED
    BY <1>2, <2>1, <2>2
<1> HIDE DEF l
<1> QED
  BY <1>3, <1>4 DEF Shortener!LastRowOf

(* A row added for a URL without one becomes the URL's last row and leaves *)
(* the others as they are.                                                 *)
LEMMA ReversedOfAppend ==
  ASSUME NEW rows \in Seq(Row), NEW id \in Nat, NEW url \in URLs,
         url \notin DOMAIN Shortener!Reversed(rows)
  PROVE  Shortener!Reversed(Append(rows, [id |-> id, url |-> url])) = Shortener!Extend(Shortener!Reversed(rows), url, id)
<1> DEFINE row == [id |-> id, url |-> url]
           more == Append(rows, row)
           n == Len(rows) + 1
<1>1. row \in Row /\ more \in Seq(Row) /\ DOMAIN more = 1..n /\ DOMAIN rows = 1..(n - 1)
      /\ n \in Nat \ {0} /\ more[n] = row /\ \A i \in 1..(n - 1) : more[i] = rows[i]
  BY DEF Row
<1>2. \A i \in DOMAIN rows : rows[i].url # url
  BY DEF Shortener!Reversed
<1> HIDE DEF more, n
<1>3. row.url = url /\ row.id = id
  OBVIOUS
<1> HIDE DEF row
<1>4. {more[i].url : i \in DOMAIN more} = {rows[i].url : i \in DOMAIN rows} \cup {url}
  <2>1. ASSUME NEW i \in DOMAIN more PROVE more[i].url = url \/ (i \in DOMAIN rows /\ more[i].url = rows[i].url)
    BY <1>1, <1>3
  <2>2. ASSUME NEW i \in DOMAIN rows PROVE i \in DOMAIN more /\ more[i].url = rows[i].url
    BY <1>1
  <2>3. n \in DOMAIN more /\ more[n].url = url
    BY <1>1, <1>3
  <2> QED
    BY <2>1, <2>2, <2>3
<1>5. more[Shortener!LastRowOf(more, url)].id = id
  <2>1. Shortener!LastRowOf(more, url) = n
    <3>1. /\ Shortener!LastRowOf(more, url) \in DOMAIN more /\ more[Shortener!LastRowOf(more, url)].url = url
      <4>1. n \in DOMAIN more /\ more[n].url = url
        BY <1>1, <1>3
      <4> QED
        BY <1>1, <4>1, LastRow
    <3> QED
      BY <1>1, <1>2, <3>1
  <2> QED
    BY <1>1, <1>3, <2>1
<1>6. ASSUME NEW u \in {rows[i].url : i \in DOMAIN rows}
      PROVE  u # url /\ more[Shortener!LastRowOf(more, u)].id = rows[Shortener!LastRowOf(rows, u)].id
  <2> DEFINE a == Shortener!LastRowOf(more, u)
             b == Shortener!LastRowOf(rows, u)
  <2>1. u # url
    BY <1>2
  <2>2. b \in DOMAIN rows /\ rows[b].url = u /\ \A j \in DOMAIN rows : rows[j].url = u => j <= b
    BY LastRow
  <2>3. \E i \in DOMAIN more : more[i].url = u
    BY <1>1, <2>2
  <2>4. a \in DOMAIN more /\ more[a].url = u /\ \A j \in DOMAIN more : more[j].url = u => j <= a
    BY <1>1, <2>3, LastRow
  <2> HIDE DEF a, b
  <2>5. a \in DOMAIN rows /\ rows[a].url = u
    BY <1>1, <1>3, <2>1, <2>4
  <2>6. a <= b /\ b <= a
    BY <1>1, <2>2, <2>4, <2>5
  <2>7. a = b
    BY <1>1, <2>2, <2>5, <2>6
  <2> QED
    BY <1>1, <2>1, <2>2, <2>7 DEF a, b
<1>7. DOMAIN Shortener!Reversed(rows) = {rows[i].url : i \in DOMAIN rows}
  BY DEF Shortener!Reversed
<1>8. ASSUME NEW u \in {more[i].url : i \in DOMAIN more}
      PROVE  more[Shortener!LastRowOf(more, u)].id = IF u = url THEN id ELSE Shortener!Reversed(rows)[u]
  BY <1>4, <1>5, <1>6 DEF Shortener!Reversed
<1> QED
  BY <1>4, <1>7, <1>8 DEF Shortener!Reversed, Shortener!Extend, more, row

(* The identifier a new service finds for a URL leads to it.               *)
LEMMA ReversedLeads ==
  ASSUME db \in Seq(Row), OneRow(db), NEW url \in DOMAIN Shortener!Reversed(db)
  PROVE  /\ url \in URLs /\ Shortener!Reversed(db)[url] \in Nat
         /\ Shortener!Rows(Shortener!Reversed(db)[url]) # {} /\ Shortener!Lookup(Shortener!Reversed(db)[url]) = {url}
<1> DEFINE l == Shortener!LastRowOf(db, url)
           id == db[l].id
<1>1. \E i \in DOMAIN db : db[i].url = url
  BY DEF Shortener!Reversed
<1>2. l \in DOMAIN db /\ db[l].url = url
  BY <1>1, LastRow
<1>3. Shortener!Reversed(db)[url] = id
  BY DEF Shortener!Reversed
<1> HIDE DEF l
<1>4. db[l] \in Row
  BY <1>2
<1>5. id \in Nat /\ url \in URLs
  BY <1>2, <1>4 DEF Row
<1>6. Shortener!Rows(id) = {l}
  BY <1>2 DEF Shortener!Rows, OneRow
<1>7. Shortener!Lookup(id) = {url}
  BY <1>2, <1>6 DEF Shortener!Lookup
<1> QED
  BY <1>3, <1>5, <1>6, <1>7

(* A row that is written leads to its URL; where one lay, its identifier   *)
(* counts as handed out twice; all others lead where they did.             *)
LEMMA SetRowLeads ==
  ASSUME TypeInv, NEW CONSTANT id \in Nat, NEW CONSTANT url \in URLs,
         db' = Shortener!SetRow(id, url),
         reissued' = reissued \cup {j \in {id} : Shortener!Rows(j) # {}}
  PROVE  /\ db' \in Seq(Row) /\ OneRow(db')
         /\ Leads(id, url)'
         /\ \A j \in Nat : \A u : Leads(j, u) => Leads(j, u)'
<1> DEFINE row == [id |-> id, url |-> url]
<1>1. db \in Seq(Row) /\ OneRow(db) /\ row \in Row
  BY DEF TypeInv, Row
<1>2. row.id = id /\ row.url = url
  OBVIOUS
<1>3. CASE Shortener!Rows(id) = {}
  <2> DEFINE n == Len(db) + 1
  <2>1. db' = Append(db, row)
    BY <1>3 DEF Shortener!SetRow
  <2> HIDE DEF row
  <2>2. db' \in Seq(Row) /\ n \in Nat \ {0} /\ DOMAIN db' = 1..n /\ DOMAIN db = 1..(n - 1)
        /\ db'[n] = row /\ \A i \in 1..(n - 1) : db'[i] = db[i]
    BY <1>1, <2>1
  <2> HIDE DEF n
  <2>3. \A i \in 1..(n - 1) : db[i].id # id
    BY <1>3, <2>2 DEF Shortener!Rows
  <2>4. OneRow(db')
    <3> SUFFICES ASSUME NEW i \in 1..n, NEW j \in 1..n, db'[i].id = db'[j].id
                 PROVE  i = j
      BY <2>2 DEF OneRow
    <3>1. CASE i = n
      BY <1>2, <2>2, <2>3, <3>1
    <3>2. CASE j = n
      BY <1>2, <2>2, <2>3, <3>2
    <3>3. CASE i \in 1..(n - 1) /\ j \in 1..(n - 1)
      BY <1>1, <2>2, <3>3 DEF OneRow
    <3> QED
      BY <2>2, <3>1, <3>2, <3>3
  <2>5. reissued' = reissued
    BY <1>3
  <2>6. Shortener!Rows(id)' = {n}
    <3>1. \A i \in 1..n : i = n \/ i \in 1..(n - 1)
      BY <2>2
    <3>2. n \in 1..n
      BY <2>2
    <3> QED
      BY <1>2, <2>2, <2>3, <3>1, <3>2 DEF Shortener!Rows
  <2>7. Leads(id, url)'
    BY <1>2, <2>2, <2>6 DEF Leads, Shortener!Lookup
  <2>8. ASSUME NEW j \in Nat, NEW u, Leads(j, u) PROVE Leads(j, u)'
    <3>1. j # id
      BY <1>3, <2>8 DEF Leads
    <3>2. \A i \in 1..n : i = n \/ i \in 1..(n - 1)
      BY <2>2
    <3>3. Shortener!Rows(j)' = Shortener!Rows(j)
      <4>1. \A i \in 1..(n - 1) : i \in 1..n
        BY <2>2
      <4> QED
        BY <1>2, <2>2, <3>1, <3>2, <4>1 DEF Shortener!Rows
    <3>4. \A i \in Shortener!Rows(j) : db'[i] = db[i]
      BY <2>2 DEF Shortener!Rows
    <3>5. Shortener!Lookup(j)' = Shortener!Lookup(j)
      BY <3>3, <3>4 DEF Shortener!Lookup
    <3> QED
      BY <2>5, <2>8, <3>3, <3>5 DEF Leads
  <2> QED
    BY <2>2, <2>4, <2>7, <2>8
<1>4. CASE Shortener!Rows(id) # {}
  <2>1. db' = [i \in DOMAIN db |-> IF i \in Shortener!Rows(id) THEN row ELSE db[i]]
    BY <1>4 DEF Shortener!SetRow
  <2> HIDE DEF row
  <2>2. db' \in Seq(Row)
    BY <1>1, <2>1
  <2>3. \A i \in DOMAIN db : db'[i].id = db[i].id
    BY <1>2, <2>1 DEF Shortener!Rows
  <2>4. DOMAIN db' = DOMAIN db
    BY <2>1
  <2>5. OneRow(db')
    BY <1>1, <2>3, <2>4 DEF OneRow
  <2>6. \A j : Shortener!Rows(j)' = Shortener!Rows(j)
    BY <2>3, <2>4 DEF Shortener!Rows
  <2>7. id \in reissued'
    BY <1>4
  <2>8. Leads(id, url)'
    BY <1>4, <2>6, <2>7 DEF Leads
  <2>9. ASSUME NEW j \in Nat, NEW u, Leads(j, u) PROVE Leads(j, u)'
    <3>1. CASE j = id
      BY <1>4, <2>6, <2>7, <3>1 DEF Leads
    <3>2. CASE j # id
      <4>1. \A i \in Shortener!Rows(j) : db'[i] = db[i]
        BY <2>1, <3>2 DEF Shortener!Rows
      <4>2. Shortener!Lookup(j)' = Shortener!Lookup(j)
        BY <2>6, <4>1 DEF Shortener!Lookup
      <4> QED
        BY <2>6, <2>9, <4>2 DEF Leads
    <3> QED
      BY <3>1, <3>2
  <2> QED
    BY <2>2, <2>5, <2>8, <2>9
<1> QED
  BY <1>3, <1>4

(* What a key given or cached leads to stays as it is where the database   *)
(* and its reissued identifiers do.                                        *)
LEMMA LeadsUnchanged ==
  ASSUME db' = db, reissued' = reissued
  PROVE  \A j, u : Leads(j, u)' = Leads(j, u)
BY DEF Leads, Shortener!Lookup, Shortener!Rows

(* The same database, read backwards.                                      *)
LEMMA ReversedUnchanged ==
  ASSUME db' = db
  PROVE  Shortener!Reversed(db)' = Shortener!Reversed(db)
<1>1. Shortener!Reversed(db)' = Shortener!Reversed(db')
  BY DEF Shortener!Reversed, Shortener!LastRowOf
<1> QED
  BY <1>1

(* A new service over a preloaded database.                                *)
LEMMA InvInit ==
  ASSUME Shortener!ConstantsFit, Shortener!Init
  PROVE  Inv
<1>1. db \in Seq(Row) /\ OneRow(db)
  BY DEF Shortener!ConstantsFit, Shortener!Init, OneRow, Row
<1>2. \A url \in DOMAIN Shortener!Reversed(db) :
        /\ url \in URLs /\ Shortener!Reversed(db)[url] \in Nat
        /\ Shortener!Rows(Shortener!Reversed(db)[url]) # {} /\ Shortener!Lookup(Shortener!Reversed(db)[url]) = {url}
  BY <1>1, ReversedLeads
<1>3. nextId \in FirstId..(MaxId + 1)
  BY DEF Shortener!ConstantsFit, Shortener!Init
<1>4. TypeInv
  BY <1>1, <1>2, <1>3 DEF TypeInv, Shortener!Init
<1>5. RecordInv
  BY <1>2 DEF RecordInv, Leads, Shortener!Init
<1>6. GivenInv /\ CacheInv /\ KeyInv
  BY DEF GivenInv, CacheInv, KeyInv, Shortener!Init
<1>7. Shortener!EveryRedirectCounted
  BY DEF Shortener!EveryRedirectCounted, Shortener!Init
<1> QED
  BY <1>4, <1>5, <1>6, <1>7 DEF Inv

(* shorten: a URL on record keeps its identifier, another gets the next    *)
(* one and a row.                                                          *)
LEMMA InvShorten ==
  ASSUME Shortener!ConstantsFit, Inv, NEW CONSTANT url \in URLs, Shortener!Shorten(url)
  PROVE  Inv'
<1>1. response'.status = 201 /\ published' = <<>> /\ urlCache' = urlCache
  BY DEF Shortener!Shorten
<1>2. Shortener!EveryRedirectCounted'
  BY <1>1 DEF Shortener!EveryRedirectCounted
<1>3. CASE Shortener!Known(url)
  <2>1. /\ UNCHANGED <<db, reverseDb, nextId, reissued>>
        /\ given' = given \cup {<<url, Shortener!Encode[reverseDb[url]]>>}
    BY <1>3 DEF Shortener!Shorten, Shortener!serviceVars
  <2>2. \A j, u : Leads(j, u)' = Leads(j, u)
    BY <2>1, LeadsUnchanged
  <2>3. TypeInv'
    BY <1>1, <2>1 DEF Inv, TypeInv, OneRow
  <2>4. RecordInv'
    BY <2>1, <2>2 DEF Inv, RecordInv
  <2>5. url \in DOMAIN reverseDb /\ reverseDb[url] \in Nat /\ Leads(reverseDb[url], url)
    BY <1>3 DEF Inv, TypeInv, RecordInv, Shortener!Known
  <2>6. GivenInv'
    <3> SUFFICES ASSUME NEW g \in given'
                 PROVE  \E u \in URLs, id \in Nat : g = <<u, Shortener!Encode[id]>> /\ Leads(id, u)'
      BY DEF GivenInv
    <3>1. CASE g \in given
      BY <2>2, <3>1 DEF Inv, GivenInv
    <3>2. CASE g = <<url, Shortener!Encode[reverseDb[url]]>>
      BY <2>2, <2>5, <3>2
    <3> QED
      BY <2>1, <3>1, <3>2
  <2>7. CacheInv'
    BY <1>1, <2>2 DEF Inv, CacheInv
  <2>8. KeyInv'
    BY <2>1, <2>5, ReversedUnchanged DEF Inv, KeyInv
  <2> QED
    BY <1>2, <2>3, <2>4, <2>6, <2>7, <2>8 DEF Inv
<1>4. CASE ~Shortener!Known(url)
  <2> DEFINE new == nextId
  <2>1. PICK id \in Nat : id = nextId /\ id \in FirstId..MaxId
    BY <1>4 DEF Shortener!Shorten, Inv, TypeInv, Shortener!ConstantsFit
  <2>2. /\ nextId' = id + 1
        /\ db' = Shortener!SetRow(id, url)
        /\ reverseDb' = Shortener!Extend(reverseDb, url, id)
        /\ reissued' = reissued \cup {j \in {id} : Shortener!Rows(j) # {}}
        /\ given' = given \cup {<<url, Shortener!Encode[id]>>}
    BY <1>4, <2>1 DEF Shortener!Shorten
  <2>3. /\ db' \in Seq(Row) /\ OneRow(db')
        /\ Leads(id, url)'
        /\ \A j \in Nat : \A u : Leads(j, u) => Leads(j, u)'
    BY <2>2, SetRowLeads DEF Inv
  <2>4. DOMAIN reverseDb' = DOMAIN reverseDb \cup {url} /\ reverseDb'[url] = id
        /\ \A u \in DOMAIN reverseDb : u # url /\ reverseDb'[u] = reverseDb[u]
    BY <1>4, <2>2 DEF Shortener!Extend, Shortener!Known
  <2>5. TypeInv'
    <3>1. nextId' \in FirstId..(MaxId + 1)
      BY <2>1, <2>2 DEF Shortener!ConstantsFit
    <3>2. OneRow(db)'
      BY <2>3 DEF OneRow
    <3>3. \A u \in DOMAIN reverseDb' : u \in URLs /\ reverseDb'[u] \in Nat
      BY <2>4 DEF Inv, TypeInv
    <3> QED
      BY <1>1, <2>3, <3>1, <3>2, <3>3 DEF TypeInv
  <2>6. RecordInv'
    BY <2>3, <2>4 DEF Inv, TypeInv, RecordInv
  <2>7. GivenInv'
    <3> SUFFICES ASSUME NEW g \in given'
                 PROVE  \E u \in URLs, j \in Nat : g = <<u, Shortener!Encode[j]>> /\ Leads(j, u)'
      BY DEF GivenInv
    <3>1. CASE g \in given
      BY <2>3, <3>1 DEF Inv, GivenInv
    <3>2. CASE g = <<url, Shortener!Encode[id]>>
      BY <2>3, <3>2
    <3> QED
      BY <2>2, <3>1, <3>2
  <2>8. CacheInv'
    BY <1>1, <2>3 DEF Inv, CacheInv
  <2>9. ASSUME reissued' = {} PROVE KeyInv'
    <3>1. reissued = {} /\ Shortener!Rows(id) = {}
      BY <2>2, <2>9
    <3>2. reverseDb = Shortener!Reversed(db)
          /\ \A g \in given : g[1] \in DOMAIN reverseDb /\ g[2] = Shortener!Encode[reverseDb[g[1]]]
      BY <3>1 DEF Inv, KeyInv
    <3>3. db \in Seq(Row) /\ url \notin DOMAIN Shortener!Reversed(db)
      BY <1>4, <3>2 DEF Inv, TypeInv, Shortener!Known
    <3>4. db' = Append(db, [id |-> id, url |-> url])
      BY <2>2, <3>1 DEF Shortener!SetRow
    <3>5. reverseDb' = Shortener!Reversed(db')
      BY <2>2, <3>2, <3>3, <3>4, ReversedOfAppend
    <3>6. Shortener!Reversed(db') = Shortener!Reversed(db)'
      BY DEF Shortener!Reversed, Shortener!LastRowOf
    <3>7. \A g \in given' : g[1] \in DOMAIN reverseDb' /\ g[2] = Shortener!Encode[reverseDb'[g[1]]]
      BY <2>2, <2>4, <3>2
    <3> QED
      BY <3>5, <3>6, <3>7 DEF KeyInv
  <2>10. KeyInv'
    BY <2>9 DEF KeyInv
  <2> QED
    BY <1>2, <2>5, <2>6, <2>7, <2>8, <2>10 DEF Inv
<1> QED
  BY <1>3, <1>4

(* A request that is refused changes nothing.                              *)
LEMMA InvPostInvalid ==
  ASSUME Inv, Shortener!PostInvalid
  PROVE  Inv'
<1>1. /\ UNCHANGED <<db, urlCache, reverseDb, nextId, given, reissued>>
      /\ response' = [status |-> 400] /\ published' = <<>>
  BY DEF Shortener!PostInvalid, Shortener!storeVars, Shortener!serviceVars
<1>2. \A j, u : Leads(j, u)' = Leads(j, u)
  BY <1>1, LeadsUnchanged
<1>3. TypeInv'
  BY <1>1 DEF Inv, TypeInv, OneRow
<1>4. RecordInv' /\ GivenInv' /\ CacheInv'
  BY <1>1, <1>2 DEF Inv, RecordInv, GivenInv, CacheInv
<1>5. KeyInv'
  BY <1>1, ReversedUnchanged DEF Inv, KeyInv
<1>6. Shortener!EveryRedirectCounted'
  BY <1>1 DEF Shortener!EveryRedirectCounted
<1> QED
  BY <1>3, <1>4, <1>5, <1>6 DEF Inv

(* GET: what the cache takes from the database is what its key leads to.   *)
LEMMA InvGet ==
  ASSUME Shortener!ConstantsFit, Inv, NEW CONSTANT key \in Requested, Shortener!Get(key)
  PROVE  Inv'
<1>1. UNCHANGED <<db, reverseDb, nextId, given, reissued>>
  BY DEF Shortener!Get, Shortener!serviceVars
<1>2. \A j, u : Leads(j, u)' = Leads(j, u)
  BY <1>1, LeadsUnchanged
<1>3. RecordInv' /\ GivenInv'
  BY <1>1, <1>2 DEF Inv, RecordInv, GivenInv
<1>4. KeyInv'
  BY <1>1, ReversedUnchanged DEF Inv, KeyInv
<1>5. Shortener!Resolve(key)
  BY DEF Shortener!Get
<1>6. /\ response'.status \in {302, 400, 404}
      /\ response'.status = 302 => published' = <<key>>
      /\ response'.status # 302 => published' = <<>>
  BY <1>5 DEF Shortener!Resolve, Shortener!Clicks
<1>7. Shortener!EveryRedirectCounted'
  BY <1>6 DEF Shortener!EveryRedirectCounted
<1>8. TypeInv'
  BY <1>1, <1>6 DEF Inv, TypeInv, OneRow
<1>9. CacheInv'
  <2>1. CASE urlCache' = urlCache
    BY <1>1, <1>2, <2>1 DEF Inv, CacheInv
  <2>2. CASE \E url \in Shortener!Stored(key) : urlCache' = Shortener!Extend(urlCache, Shortener!CacheKeyOf(key), url)
    <3>1. PICK url \in Shortener!Stored(key) : urlCache' = Shortener!Extend(urlCache, key, url)
      BY <2>2 DEF Shortener!CacheKeyOf
    <3>2. url \in Shortener!Lookup(Shortener!Decode(key)) /\ url # EmptyURL
      BY DEF Shortener!Stored, Shortener!NotEmpty
    <3>3. Shortener!Decode(key) \in Nat
      BY DecodeType DEF Shortener!ConstantsFit
    <3>4. Leads(Shortener!Decode(key), url)
      <4>1. PICK i \in Shortener!Rows(Shortener!Decode(key)) : db[i].url = url
        BY <3>2 DEF Shortener!Lookup
      <4>2. Shortener!Rows(Shortener!Decode(key)) = {i}
        BY <4>1 DEF Shortener!Rows, Inv, TypeInv, OneRow
      <4> QED
        BY <4>1, <4>2 DEF Leads, Shortener!Lookup
    <3>5. DOMAIN urlCache' = DOMAIN urlCache \cup {key} /\ urlCache'[key] = url
          /\ \A k \in DOMAIN urlCache : k = key \/ urlCache'[k] = urlCache[k]
      BY <3>1 DEF Shortener!Extend
    <3> QED
      BY <1>2, <3>2, <3>3, <3>4, <3>5 DEF Inv, CacheInv
  <2> QED
    BY <1>5, <2>1, <2>2 DEF Shortener!Resolve
<1> QED
  BY <1>3, <1>4, <1>7, <1>8, <1>9 DEF Inv

(* A new service reads its record from the database.                       *)
LEMMA InvRestart ==
  ASSUME Shortener!ConstantsFit, Inv, Shortener!Restart
  PROVE  Inv'
<1>1. /\ UNCHANGED <<db, urlCache, response, published, given, reissued>>
      /\ reverseDb' = Shortener!Reversed(db) /\ nextId' = FirstId
  BY DEF Shortener!Restart, Shortener!storeVars, Shortener!NextIdOfNew
<1>2. \A j, u : Leads(j, u)' = Leads(j, u)
  BY <1>1, LeadsUnchanged
<1>3. \A url \in DOMAIN Shortener!Reversed(db) :
        /\ url \in URLs /\ Shortener!Reversed(db)[url] \in Nat
        /\ Shortener!Rows(Shortener!Reversed(db)[url]) # {} /\ Shortener!Lookup(Shortener!Reversed(db)[url]) = {url}
  BY ReversedLeads DEF Inv, TypeInv
<1>4. TypeInv'
  <2>1. nextId' \in FirstId..(MaxId + 1)
    BY <1>1 DEF Shortener!ConstantsFit
  <2> QED
    BY <1>1, <1>3, <2>1 DEF Inv, TypeInv, OneRow
<1>5. RecordInv'
  BY <1>1, <1>2, <1>3 DEF RecordInv, Leads
<1>6. GivenInv' /\ CacheInv'
  BY <1>1, <1>2 DEF Inv, GivenInv, CacheInv
<1>7. KeyInv'
  BY <1>1, ReversedUnchanged DEF Inv, KeyInv
<1>8. Shortener!EveryRedirectCounted'
  BY <1>1 DEF Inv, Shortener!EveryRedirectCounted
<1> QED
  BY <1>4, <1>5, <1>6, <1>7, <1>8 DEF Inv

(* Every step keeps the invariant.                                         *)
LEMMA InvNext ==
  ASSUME Shortener!ConstantsFit, Inv, [Shortener!Next]_Shortener!vars
  PROVE  Inv'
<1>1. ASSUME NEW CONSTANT url \in URLs, Shortener!Shorten(url) PROVE Inv'
  BY <1>1, InvShorten
<1>2. ASSUME Shortener!PostInvalid PROVE Inv'
  BY <1>2, InvPostInvalid
<1>3. ASSUME NEW CONSTANT key \in Requested, Shortener!Get(key) PROVE Inv'
  BY <1>3, InvGet
<1>4. ASSUME Shortener!Restart PROVE Inv'
  BY <1>4, InvRestart
<1>5. ASSUME UNCHANGED Shortener!vars PROVE Inv'
  <2>1. UNCHANGED <<db, urlCache, reverseDb, nextId, response, published, given, reissued>>
    BY <1>5 DEF Shortener!vars, Shortener!storeVars, Shortener!serviceVars
  <2>2. \A j, u : Leads(j, u)' = Leads(j, u)
    BY <2>1, LeadsUnchanged
  <2>3. TypeInv'
    BY <2>1 DEF Inv, TypeInv, OneRow
  <2>4. RecordInv' /\ GivenInv' /\ CacheInv'
    BY <2>1, <2>2 DEF Inv, RecordInv, GivenInv, CacheInv
  <2>5. KeyInv'
    BY <2>1, ReversedUnchanged DEF Inv, KeyInv
  <2>6. Shortener!EveryRedirectCounted'
    BY <2>1 DEF Inv, Shortener!EveryRedirectCounted
  <2> QED
    BY <2>3, <2>4, <2>5, <2>6 DEF Inv
<1> QED
  BY <1>1, <1>2, <1>3, <1>4, <1>5 DEF Shortener!Next

(* What the invariant says of the promises.  A key given for a URL is the  *)
(* one of an identifier; unless that was handed out twice, its row has the *)
(* URL, and so has the cache, if at all, under whatever alias of the key.  *)
LEMMA InvKeepsPromises ==
  ASSUME Shortener!ConstantsFit, Inv
  PROVE  Shortener!PromisesKept
<1>1. Shortener!KeysLeadToTheirURLs
  <2> SUFFICES ASSUME NEW g \in given, g[1] # EmptyURL, Shortener!Decode(g[2]) \in Nat \ reissued,
                      NEW key \in Requested \cup {g[2]},
                      key # <<>>, Shortener!Valid(key), Shortener!Decode(key) = Shortener!Decode(g[2])
               PROVE  Shortener!Target(key) = {g[1]}
    BY DEF Shortener!KeysLeadToTheirURLs, Shortener!KeysLead
  <2>1. PICK url \in URLs, id \in Nat : g = <<url, Shortener!Encode[id]>> /\ Leads(id, url)
    BY DEF Inv, GivenInv
  <2>2. g[1] = url /\ Shortener!Decode(g[2]) = id
    BY <2>1, EncodedIsDecoded DEF Shortener!ConstantsFit
  <2>3. Shortener!Lookup(id) = {url} /\ url # EmptyURL
    BY <2>1, <2>2 DEF Leads
  <2>4. Shortener!Stored(key) = {url}
    BY <2>2, <2>3 DEF Shortener!Stored, Shortener!NotEmpty
  <2>5. key \in DOMAIN urlCache => urlCache[key] = url
    BY <2>2, <2>3 DEF Inv, CacheInv, Leads
  <2>6. Shortener!Cached(key) \in {{}, {url}}
    BY <2>3, <2>5 DEF Shortener!Cached, Shortener!NotEmpty, Shortener!CacheKeyOf
  <2> QED
    BY <2>2, <2>4, <2>6 DEF Shortener!Target
<1>2. Shortener!OneKeyPerURL
  BY DEF Inv, KeyInv, Shortener!OneKeyPerURL
<1> QED
  BY <1>1, <1>2 DEF Inv, Shortener!PromisesKept

(* Whatever base and URLs there are, over whatever database, through every *)
(* order of requests and restarts: a key given for a URL leads to it,      *)
(* through the cache or the database and under every alias, while no       *)
(* identifier was handed out twice; until then a URL has one key; and every*)
(* redirect is counted once.                                               *)
THEOREM ShortenerKeepsPromises == InMemorySpec => []PromisesKept
<1> DEFINE IInv == subject = "shortener" => Inv
<1>1. InMemoryInit => IInv
  BY InvInit, ShortenerAssumption DEF InMemoryInit
<1>2. IInv /\ [InMemoryNext]_allVars => IInv'
  <2> SUFFICES ASSUME IInv, [InMemoryNext]_allVars, subject' = "shortener" PROVE Inv'
    OBVIOUS
  <2>1. subject = "shortener" /\ [Shortener!Next]_Shortener!vars
    BY DEF InMemoryNext, allVars, urlVars, Shortener!vars, Shortener!storeVars, Shortener!serviceVars
  <2> QED
    BY <2>1, InvNext, ShortenerAssumption
<1>3. IInv => PromisesKept
  BY InvKeepsPromises, ShortenerAssumption DEF PromisesKept
<1> QED
  BY <1>1, <1>2, <1>3, PTL DEF InMemorySpec

-----------------------------------------------------------------------------
(* The ring buffer.                                                        *)

(* The remainder of a number that wraps around once at most.               *)
LEMMA WrapsOnce ==
  ASSUME Aggregator!CapacityFits, NEW a \in 0..(2 * LogCapacity - 1)
  PROVE  a % LogCapacity = IF a < LogCapacity THEN a ELSE a - LogCapacity
<1>1. LogCapacity \in Nat \ {0} /\ a \in Nat
  BY DEF Aggregator!CapacityFits
<1>2. CASE a < LogCapacity
  BY <1>1, <1>2
<1>3. CASE ~(a < LogCapacity)
  <2> DEFINE b == a - LogCapacity
  <2>1. b \in 0..(LogCapacity - 1) /\ a = b + LogCapacity
    BY <1>1, <1>3
  <2>2. a % LogCapacity = b
    BY <1>1, <2>1
  <2> QED
    BY <1>3, <2>2
<1> QED
  BY <1>2, <1>3

(* The cells in use come first, and the pointer is behind them until all   *)
(* are.                                                                    *)
RingInv ==
  /\ count \in 0..LogCapacity
  /\ writePointer \in 0..(LogCapacity - 1)
  /\ DOMAIN buffer = 0..(count - 1)
  /\ \A i \in DOMAIN buffer : buffer[i] \in Aggregator!Entries
  /\ count < LogCapacity => writePointer = count

(* What getAll returns, cell by cell.                                      *)
Cells ==
  /\ Aggregator!GetAll \in Seq(Aggregator!Entries)
  /\ Len(Aggregator!GetAll) = count
  /\ \A i \in 1..count :
       Aggregator!GetAll[i] =
         IF count < LogCapacity THEN buffer[i - 1]
         ELSE IF writePointer + i - 1 < LogCapacity THEN buffer[writePointer + i - 1]
         ELSE buffer[writePointer + i - 1 - LogCapacity]

(* What getAll returns, cell by cell.                                      *)
LEMMA GetAllCells ==
  ASSUME Aggregator!CapacityFits
  PROVE  RingInv => Cells
<1> SUFFICES ASSUME RingInv PROVE Cells
  OBVIOUS
<1> DEFINE cell(i) == (Aggregator!Start + i - 1) % LogCapacity
<1>1. /\ LogCapacity \in Nat \ {0} /\ count \in 0..LogCapacity
      /\ writePointer \in 0..(LogCapacity - 1) /\ DOMAIN buffer = 0..(count - 1)
  BY DEF Aggregator!CapacityFits, RingInv
<1>2. Aggregator!GetAll = [i \in 1..count |-> buffer[cell(i)]]
  BY DEF Aggregator!GetAll
<1>3. ASSUME NEW i \in 1..count
      PROVE  cell(i) = IF count < LogCapacity THEN i - 1
                     ELSE IF writePointer + i - 1 < LogCapacity THEN writePointer + i - 1
                     ELSE writePointer + i - 1 - LogCapacity
  <2>1. CASE count < LogCapacity
    <3>1. Aggregator!Start = 0
      BY <1>1, <2>1 DEF Aggregator!Start
    <3>2. 0 + i - 1 = i - 1 /\ i - 1 \in 0..(2 * LogCapacity - 1) /\ i - 1 < LogCapacity
      BY <1>1, <2>1
    <3>3. (i - 1) % LogCapacity = i - 1
      BY <3>2, WrapsOnce
    <3> QED
      BY <2>1, <3>1, <3>2, <3>3
  <2>2. CASE ~(count < LogCapacity)
    <3>1. Aggregator!Start = writePointer
      BY <1>1, <2>2 DEF Aggregator!Start
    <3>2. PICK a \in 0..(2 * LogCapacity - 1) : a = writePointer + i - 1
      BY <1>1
    <3>3. a % LogCapacity = IF a < LogCapacity THEN a ELSE a - LogCapacity
      BY WrapsOnce
    <3>4. cell(i) = a % LogCapacity
      BY <3>1, <3>2
    <3> HIDE DEF cell
    <3>5. cell(i) = IF a < LogCapacity THEN a ELSE a - LogCapacity
      BY <3>3, <3>4
    <3> QED
      BY <1>1, <2>2, <3>2, <3>5
  <2> QED
    BY <2>1, <2>2
<1> HIDE DEF cell
<1>4. ASSUME NEW i \in 1..count PROVE cell(i) \in DOMAIN buffer
  BY <1>1, <1>3
<1>5. \A i \in 1..count : buffer[cell(i)] \in Aggregator!Entries
  BY <1>4 DEF RingInv
<1>6. Aggregator!GetAll \in Seq(Aggregator!Entries) /\ Len(Aggregator!GetAll) = count
  BY <1>1, <1>2, <1>5
<1>7. ASSUME NEW i \in 1..count PROVE Aggregator!GetAll[i] = buffer[cell(i)]
  BY <1>2
<1> QED
  BY <1>3, <1>6, <1>7 DEF Cells

(* The same after a step.                                                  *)
LEMMA GetAllCellsNext ==
  ASSUME Aggregator!CapacityFits
  PROVE  RingInv' => Cells'
<1>1. RingInv => Cells
  BY GetAllCells
<1> QED
  BY <1>1, PTL

(* A push keeps the ring in order and drops the oldest of a full one.      *)
LEMMA PushAccepts ==
  ASSUME Aggregator!CapacityFits, RingInv,
         NEW CONSTANT e \in Aggregator!Entries, Aggregator!Push(e)
  PROVE  RingInv' /\ Aggregator!Ring!Accept(e)
<1> DEFINE old == Aggregator!GetAll
           new == Aggregator!GetAll'
<1>1. /\ LogCapacity \in Nat \ {0} /\ count \in 0..LogCapacity
      /\ writePointer \in 0..(LogCapacity - 1) /\ DOMAIN buffer = 0..(count - 1)
      /\ count < LogCapacity => writePointer = count
  BY DEF Aggregator!CapacityFits, RingInv
<1>2. /\ DOMAIN buffer' = DOMAIN buffer \cup {writePointer}
      /\ buffer'[writePointer] = e
      /\ \A i \in DOMAIN buffer : i # writePointer => buffer'[i] = buffer[i]
      /\ count' = IF count < LogCapacity THEN count + 1 ELSE count
  BY DEF Aggregator!Push, Aggregator!CountAfterPush
<1>3. writePointer' = IF writePointer + 1 < LogCapacity THEN writePointer + 1 ELSE 0
  <2>1. PICK a \in 0..(2 * LogCapacity - 1) : a = writePointer + 1
    BY <1>1
  <2>2. writePointer' = a % LogCapacity
    BY <2>1 DEF Aggregator!Push
  <2>3. a % LogCapacity = IF a < LogCapacity THEN a ELSE a - LogCapacity
    BY WrapsOnce
  <2> QED
    BY <1>1, <2>1, <2>2, <2>3
<1>4. RingInv'
  <2>1. DOMAIN buffer' = 0..(count' - 1)
    BY <1>1, <1>2
  <2>2. /\ count' \in 0..LogCapacity /\ writePointer' \in 0..(LogCapacity - 1)
        /\ count' < LogCapacity => writePointer' = count'
    BY <1>1, <1>2, <1>3
  <2>3. \A i \in DOMAIN buffer' : buffer'[i] \in Aggregator!Entries
    BY <1>2 DEF RingInv
  <2>4. Aggregator!Entries' = Aggregator!Entries
    BY DEF Aggregator!Entries
  <2> QED
    BY <2>1, <2>2, <2>3, <2>4 DEF RingInv
<1>5. /\ old \in Seq(Aggregator!Entries) /\ Len(old) = count
      /\ \A i \in 1..count : old[i] =
           IF count < LogCapacity THEN buffer[i - 1]
           ELSE IF writePointer + i - 1 < LogCapacity THEN buffer[writePointer + i - 1]
           ELSE buffer[writePointer + i - 1 - LogCapacity]
  BY GetAllCells DEF Cells
<1>6. /\ new \in Seq(Aggregator!Entries) /\ Len(new) = count'
      /\ \A i \in 1..count' : new[i] =
           IF count' < LogCapacity THEN buffer'[i - 1]
           ELSE IF writePointer' + i - 1 < LogCapacity THEN buffer'[writePointer' + i - 1]
           ELSE buffer'[writePointer' + i - 1 - LogCapacity]
  <2>1. Cells'
    BY <1>4, GetAllCellsNext
  <2>2. Aggregator!Entries' = Aggregator!Entries
    BY DEF Aggregator!Entries
  <2> QED
    BY <2>1, <2>2 DEF Cells
<1> HIDE DEF old, new
<1>7. new = Aggregator!Ring!Last(Append(old, e))
  <2> DEFINE s == Append(old, e)
  <2>1. s \in Seq(Aggregator!Entries) /\ Len(s) = count + 1 /\ s[count + 1] = e
        /\ \A i \in 1..count : s[i] = old[i]
    BY <1>1, <1>5
  <2> HIDE DEF s
  <2>2. CASE count < LogCapacity
    <3>1. Aggregator!Ring!Last(s) = SubSeq(s, 1, count + 1)
      BY <1>1, <2>1, <2>2 DEF Aggregator!Ring!Last
    <3>2. SubSeq(s, 1, count + 1) = s
      BY <1>1, <2>1
    <3>3. ASSUME NEW i \in 1..(count + 1) PROVE new[i] = s[i]
      <4>1. new[i] = buffer'[i - 1]
        BY <1>1, <1>2, <1>3, <1>6, <2>2
      <4>2. CASE i = count + 1
        BY <1>1, <1>2, <2>1, <2>2, <4>1, <4>2
      <4>3. CASE i \in 1..count
        BY <1>1, <1>2, <1>5, <2>1, <2>2, <4>1, <4>3
      <4> QED
        BY <1>1, <4>2, <4>3
    <3>4. Len(new) = count + 1
      BY <1>2, <1>6, <2>2
    <3>5. new = s
      BY <1>1, <1>6, <2>1, <3>3, <3>4
    <3> QED
      BY <3>1, <3>2, <3>5 DEF s
  <2>3. CASE ~(count < LogCapacity)
    <3> DEFINE l == SubSeq(s, 2, LogCapacity + 1)
    <3>0. count = LogCapacity /\ count' = LogCapacity
      BY <1>1, <1>2, <2>3
    <3>1. Aggregator!Ring!Last(s) = l
      <4>1. Len(s) = LogCapacity + 1 /\ Len(s) > LogCapacity /\ Len(s) - LogCapacity + 1 = 2
        BY <1>1, <2>1, <3>0
      <4> QED
        BY <4>1 DEF Aggregator!Ring!Last
    <3>2. l \in Seq(Aggregator!Entries) /\ Len(l) = LogCapacity
          /\ \A i \in 1..LogCapacity : l[i] = s[i + 1]
      BY <1>1, <2>1, <3>0
    <3>3. ASSUME NEW i \in 1..LogCapacity PROVE new[i] = s[i + 1]
      <4>1. new[i] = IF writePointer' + i - 1 < LogCapacity THEN buffer'[writePointer' + i - 1]
                     ELSE buffer'[writePointer' + i - 1 - LogCapacity]
        BY <1>6, <3>0
      <4>2. CASE i = LogCapacity
        <5>1. new[i] = buffer'[writePointer]
          BY <1>1, <1>3, <4>1, <4>2
        <5> QED
          BY <1>2, <2>1, <3>0, <4>2, <5>1
      <4>3. CASE i # LogCapacity
        <5>1. s[i + 1] = old[i + 1] /\ i + 1 \in 1..count
          BY <1>1, <2>1, <3>0, <4>3
        <5>2. old[i + 1] = IF writePointer + i < LogCapacity THEN buffer[writePointer + i]
                           ELSE buffer[writePointer + i - LogCapacity]
          BY <1>1, <1>5, <3>0, <5>1
        <5>3. CASE writePointer + i < LogCapacity
          <6>1. new[i] = buffer'[writePointer + i]
            <7>1. writePointer' = writePointer + 1
              BY <1>1, <1>3, <3>0, <5>3
            <7>2. writePointer' + i - 1 < LogCapacity
                  /\ writePointer' + i - 1 = writePointer + i
              BY <1>1, <3>0, <5>3, <7>1
            <7> QED
              BY <4>1, <7>2
          <6>2. writePointer + i \in DOMAIN buffer /\ writePointer + i # writePointer
            BY <1>1, <3>0, <5>3
          <6> QED
            BY <1>2, <5>1, <5>2, <5>3, <6>1, <6>2
        <5>4. CASE ~(writePointer + i < LogCapacity)
          <6>1. new[i] = buffer'[writePointer + i - LogCapacity]
            <7>1. CASE writePointer + 1 < LogCapacity
              <8>1. writePointer' = writePointer + 1
                BY <1>3, <7>1
              <8>2. ~(writePointer' + i - 1 < LogCapacity)
                    /\ writePointer' + i - 1 - LogCapacity = writePointer + i - LogCapacity
                BY <1>1, <3>0, <5>4, <8>1
              <8> QED
                BY <4>1, <8>2
            <7>2. CASE ~(writePointer + 1 < LogCapacity)
              <8>1. writePointer' = 0 /\ writePointer = LogCapacity - 1
                BY <1>1, <1>3, <7>2
              <8>2. writePointer' + i - 1 < LogCapacity
                    /\ writePointer' + i - 1 = writePointer + i - LogCapacity
                BY <1>1, <3>0, <8>1
              <8> QED
                BY <4>1, <8>2
            <7> QED
              BY <7>1, <7>2
          <6>2. writePointer + i - LogCapacity \in DOMAIN buffer
                /\ writePointer + i - LogCapacity # writePointer
            BY <1>1, <3>0, <4>3, <5>4
          <6> QED
            BY <1>2, <5>1, <5>2, <5>4, <6>1, <6>2
        <5> QED
          BY <5>3, <5>4
      <4> QED
        BY <4>2, <4>3
    <3>4. new = l
      <4> HIDE DEF l
      <4>1. new \in Seq(Aggregator!Entries) /\ Len(new) = LogCapacity
        BY <1>6, <3>0
      <4> QED
        BY <3>2, <3>3, <4>1
    <3> QED
      BY <3>1, <3>4 DEF s
  <2> QED
    BY <2>2, <2>3
<1> QED
  BY <1>4, <1>7 DEF Aggregator!Ring!Accept, old, new

(* Every step of the aggregator is one of the bounded log, or none of it.  *)
LEMMA RingNext ==
  ASSUME Aggregator!CapacityFits, RingInv, [Aggregator!Next]_Aggregator!vars
  PROVE  /\ RingInv'
         /\ [\E e \in Aggregator!Entries : Aggregator!Ring!Accept(e)]_Aggregator!GetAll
<1>1. ASSUME UNCHANGED <<buffer, writePointer, count>>
      PROVE  RingInv' /\ UNCHANGED Aggregator!GetAll
  BY <1>1 DEF RingInv, Aggregator!GetAll, Aggregator!Start, Aggregator!Entries
<1>2. ASSUME NEW CONSTANT line \in Aggregator!Lines, Aggregator!IngestLogString(line)
      PROVE  /\ RingInv'
             /\ [\E e \in Aggregator!Entries : Aggregator!Ring!Accept(e)]_Aggregator!GetAll
  <2>1. CASE Aggregator!ParseLogLine(line)
    <3>1. line \in Aggregator!Entries
      BY <2>1 DEF Aggregator!Lines, Aggregator!Entries, Aggregator!ParseLogLine
    <3>2. Aggregator!Push(line)
      BY <1>2, <2>1 DEF Aggregator!IngestLogString
    <3> QED
      BY <3>1, <3>2, PushAccepts
  <2>2. CASE ~Aggregator!ParseLogLine(line)
    BY <1>1, <1>2, <2>2 DEF Aggregator!IngestLogString, Aggregator!ringVars
  <2> QED
    BY <2>1, <2>2
<1>3. ASSUME NEW CONSTANT s \in Sockets, Aggregator!StartServer(s) \/ Aggregator!Bind(s)
      PROVE  UNCHANGED <<buffer, writePointer, count>>
  BY <1>3 DEF Aggregator!StartServer, Aggregator!Bind, Aggregator!ringVars
<1>4. ASSUME Aggregator!Stop PROVE UNCHANGED <<buffer, writePointer, count>>
  BY <1>4 DEF Aggregator!Stop, Aggregator!ringVars
<1>5. ASSUME NEW CONSTANT s \in Sockets, NEW CONSTANT line \in Aggregator!Lines,
             Aggregator!Receive(s, line)
      PROVE  Aggregator!IngestLogString(line)
  BY <1>5 DEF Aggregator!Receive
<1>6. ASSUME UNCHANGED Aggregator!vars PROVE UNCHANGED <<buffer, writePointer, count>>
  BY <1>6 DEF Aggregator!vars, Aggregator!ringVars
<1> QED
  BY <1>1, <1>2, <1>3, <1>4, <1>5, <1>6 DEF Aggregator!Next

(* For every capacity, the array, its pointer and its counter are the last *)
(* Capacity entries ingested, oldest first, through every datagram, start  *)
(* and stop, before and after the ring has wrapped around.                 *)
THEOREM RingIsBoundedLog == InMemorySpec => IsBoundedLog
<1>1. InMemoryInit => RingInv /\ Aggregator!Ring!Init
  BY AggregatorAssumption DEF InMemoryInit, Aggregator!Init, RingInv, Aggregator!Ring!Init,
     Aggregator!GetAll, Aggregator!CapacityFits
<1>2. [InMemoryNext]_allVars => [Aggregator!Next]_Aggregator!vars
  BY DEF InMemoryNext, allVars, logVars, Aggregator!vars, Aggregator!ringVars, Aggregator!socketVars
<1>3. RingInv /\ [Aggregator!Next]_Aggregator!vars
        => /\ RingInv'
           /\ [\E e \in Aggregator!Entries : Aggregator!Ring!Accept(e)]_Aggregator!GetAll
  BY RingNext, AggregatorAssumption
<1> QED
  BY <1>1, <1>2, <1>3, PTL DEF InMemorySpec, IsBoundedLog, Aggregator!IsBoundedLog, Aggregator!Ring!Spec

-----------------------------------------------------------------------------
(* The load balancer's health checks: as long as checks do not overlap, the*)
(* health is what was last answered, answer by answer.                     *)
HealthInv ==
  /\ healthy \in [Balancer!Backends -> BOOLEAN] /\ newest \in [Balancer!Backends -> BOOLEAN]
  /\ ~overlapped => healthy = newest

(* Once the checks have settled, each backend's health is what the last    *)
(* check was told of it, unless checks overlapped, for any backends and any*)
(* number of checks.                                                       *)
THEOREM LastCheckWins == InMemorySpec => []HealthIsNewest
<1>1. InMemoryInit => HealthInv
  BY DEF InMemoryInit, Balancer!Init, HealthInv
<1>2. HealthInv /\ [InMemoryNext]_allVars => HealthInv'
  <2> SUFFICES ASSUME HealthInv, [InMemoryNext]_allVars PROVE HealthInv'
    OBVIOUS
  <2> USE DEF HealthInv
  <2>0. Balancer!Backends' = Balancer!Backends
    BY DEF Balancer!Backends
  <2>1. CASE UNCHANGED <<healthy, newest, overlapped>>
    BY <2>0, <2>1
  <2>2. ASSUME NEW h \in Hashes, Balancer!GetNextServer(h) PROVE HealthInv'
    BY <2>0, <2>2 DEF Balancer!GetNextServer, Balancer!checkVars
  <2>3. CASE Balancer!PerformHealthCheck
    BY <2>0, <2>3 DEF Balancer!PerformHealthCheck
  <2>4. ASSUME NEW c \in Checks, NEW b \in Balancer!Backends,
               NEW a \in {"up", "down", "rejected"}, Balancer!PingSettles(c, b, a)
        PROVE  HealthInv'
    <3>1. /\ healthy' = [healthy EXCEPT ![b] = (a = "up")]
          /\ newest' = IF overlapped THEN Balancer!NoAnswers ELSE [newest EXCEPT ![b] = (a = "up")]
          /\ overlapped' = overlapped
      BY <2>4 DEF Balancer!PingSettles, Balancer!HealthAfter
    <3>2. Balancer!NoAnswers \in [Balancer!Backends -> BOOLEAN]
      BY DEF Balancer!NoAnswers
    <3>3. (a = "up") \in BOOLEAN
      OBVIOUS
    <3> QED
      BY <2>0, <3>1, <3>2, <3>3
  <2> QED
    BY <2>1, <2>2, <2>3, <2>4 DEF InMemoryNext, allVars, balancerVars, Balancer!Next
<1>3. HealthInv => HealthIsNewest
  BY DEF HealthInv, HealthIsNewest, Balancer!HealthIsNewest
<1> QED
  BY <1>1, <1>2, <1>3, PTL DEF InMemorySpec

-----------------------------------------------------------------------------
(* Arithmetic of the array's tree.                                         *)

(* An element other than the first is a child of its parent, which is      *)
(* before it in the array.                                                 *)
LEMMA ParentIsBefore ==
  ASSUME NEW i \in Nat, i > 0
  PROVE  /\ Parent(i) \in Nat
         /\ Parent(i) < i
         /\ i = LeftChild(Parent(i)) \/ i = RightChild(Parent(i))
BY DEF Parent, LeftChild, RightChild

(* The parent of a child.                                                  *)
LEMMA ChildrenAndParent ==
  ASSUME NEW i \in Nat
  PROVE  /\ LeftChild(i) \in Nat /\ LeftChild(i) > i /\ Parent(LeftChild(i)) = i
         /\ RightChild(i) \in Nat /\ RightChild(i) > i /\ Parent(RightChild(i)) = i
BY DEF Parent, LeftChild, RightChild

(* What Smallest compares: a child in the array that is not later than the *)
(* element and its other child, or the element itself.                     *)
LEMMA SmallestIsEarliest ==
  ASSUME TypeOK, HeapAssumption, NEW i \in Indices
  PROVE  /\ Smallest(i) \in Indices
         /\ Smallest(i) \in {i, LeftChild(i), RightChild(i)}
         /\ runAt[heap[Smallest(i)]] <= runAt[heap[i]]
         /\ Smallest(i) # i => runAt[heap[Smallest(i)]] < runAt[heap[i]]
         /\ LeftChild(i) < length =>
              runAt[heap[Smallest(i)]] <= runAt[heap[LeftChild(i)]]
         /\ RightChild(i) < length =>
              runAt[heap[Smallest(i)]] <= runAt[heap[RightChild(i)]]
<1>1. i \in Nat /\ LeftChild(i) \in Nat /\ RightChild(i) \in Nat
  BY DEF TypeOK, Indices, LeftChild, RightChild
<1>2. \A j \in Nat : j < length => runAt[heap[j]] \in Int
  BY DEF TypeOK, HeapAssumption, Indices
<1>3. i < length /\ length \in Nat
  BY DEF TypeOK, Indices
<1> DEFINE s == IF LeftChild(i) < length /\ Before(LeftChild(i), i) THEN LeftChild(i) ELSE i
<1>4. /\ s \in Nat /\ s < length /\ s \in {i, LeftChild(i)}
      /\ runAt[heap[s]] <= runAt[heap[i]]
      /\ s # i => runAt[heap[s]] < runAt[heap[i]]
      /\ LeftChild(i) < length => runAt[heap[s]] <= runAt[heap[LeftChild(i)]]
  BY <1>1, <1>2, <1>3 DEF Before
<1>5. Smallest(i) = IF RightChild(i) < length /\ Before(RightChild(i), s)
                    THEN RightChild(i) ELSE s
  BY DEF Smallest
<1> HIDE DEF s
<1>6. CASE RightChild(i) < length /\ Before(RightChild(i), s)
  BY <1>1, <1>2, <1>3, <1>4, <1>5, <1>6 DEF Before, Indices
<1>7. CASE ~(RightChild(i) < length /\ Before(RightChild(i), s))
  <2>1. Smallest(i) = s
    BY <1>5, <1>7
  <2> QED
    BY <1>1, <1>2, <1>3, <1>4, <1>7, <2>1 DEF Before, Indices
<1> QED
  BY <1>6, <1>7
-----------------------------------------------------------------------------
HeapInv == TypeOK /\ HeapOrder

(* The array is in order at the start.                                     *)
LEMMA HeapStarts ==
  ASSUME HeapAssumption, Init
  PROVE  HeapInv
BY DEF Init, HeapInv, TypeOK, HeapOrder, Indices

(* The inductive step: HeapOrder names the one place where each loop may   *)
(* break the order, and what its neighbours satisfy meanwhile.             *)
LEMMA HeapSteps ==
  ASSUME HeapAssumption, HeapInv, [Next]_vars
  PROVE  HeapInv'
<1>1. ASSUME NEW t \in Tasks, Insert(t)
      PROVE  HeapInv'
  <2>1. TypeOK'
    BY <1>1 DEF HeapInv, TypeOK, Insert, Indices
  <2>2. HeapOrder'
    BY <1>1, ParentIsBefore DEF HeapInv, TypeOK, HeapOrder, Insert, Indices, Ordered
  <2> QED
    BY <2>1, <2>2 DEF HeapInv
<1>2. ASSUME BubbleUp
      PROVE  HeapInv'
  <2>1. index \in Nat /\ index < length /\ length \in Nat
    BY <1>2 DEF HeapInv, TypeOK, BubbleUp, Indices
  <2>2. CASE Rises(index)
    <3> DEFINE p == Parent(index)
    <3>1. p \in Nat /\ p < index
      BY <2>1, <2>2, ParentIsBefore DEF Rises
    <3>2. TypeOK'
      BY SMTT(40), <1>2, <2>1, <2>2, <3>1 DEF HeapInv, TypeOK, BubbleUp, Indices, Swap
    <3>3. \A i \in Indices : heap'[i] = IF i = p THEN heap[index]
                                    ELSE IF i = index THEN heap[p] ELSE heap[i]
      BY <1>2, <2>1, <2>2, <3>1 DEF HeapInv, TypeOK, BubbleUp, Indices, Swap
    <3>4. /\ runAt[heap[index]] < runAt[heap[p]]
          /\ \A i \in Indices : runAt[heap[i]] \in Int
      BY <2>1, <2>2 DEF Rises, Before, HeapInv, TypeOK, HeapAssumption, Indices
    <3>5. index' = p /\ length' = length /\ at = "bubbleUp" /\ at' = "bubbleUp"
      BY <1>2, <2>2 DEF BubbleUp
    <3>6. ASSUME NEW i \in Indices \ {0}, i # p
          PROVE  Ordered(Parent(i), i)'
      <4>1. i \in Nat /\ i > 0 /\ Parent(i) \in Indices /\ Parent(i) < i
        BY <2>1, <3>6, ParentIsBefore DEF Indices
      <4>2. CASE i = index
        BY <2>1, <3>1, <3>3, <3>4, <4>1, <4>2 DEF Ordered, Indices
      <4>3. CASE i # index
        <5>1. Ordered(Parent(i), i)
          BY <3>5, <4>3, <3>6 DEF HeapInv, HeapOrder
        <5>2. Parent(i) = index => Ordered(p, i)
          BY <2>1, <3>5, <3>6, <3>1 DEF HeapInv, HeapOrder
        <5> QED
          BY <2>1, <3>1, <3>3, <3>4, <3>6, <4>1, <4>3, <5>1, <5>2 DEF Ordered, Indices
      <4> QED
        BY <4>2, <4>3
    <3>7. ASSUME p > 0, NEW i \in Indices \ {0}, Parent(i) = p
          PROVE  runAt[heap'[Parent(p)]] <= runAt[heap'[i]]
      <4>1. Parent(p) \in Indices /\ Parent(p) < p /\ p \in Indices
        BY <2>1, <3>1, <3>7, ParentIsBefore DEF Indices
      <4>2. Ordered(Parent(p), p)
        BY <3>1, <3>5, <3>7, <4>1 DEF HeapInv, HeapOrder
      <4>3. i # index => Ordered(p, i)
        BY <3>5, <3>7 DEF HeapInv, HeapOrder
      <4>4. i \in Nat /\ i # p /\ i # Parent(p)
        BY <3>1, <3>7, <4>1, ParentIsBefore DEF Indices
      <4> QED
        BY <2>1, <3>1, <3>3, <3>4, <3>7, <4>1, <4>2, <4>3, <4>4 DEF Ordered, Indices
    <3>8. HeapOrder'
      BY <3>5, <3>6, <3>7 DEF HeapOrder, Indices, Ordered
    <3> QED
      BY <3>2, <3>8 DEF HeapInv
  <2>3. CASE ~Rises(index)
    <3>1. TypeOK'
      BY <1>2, <2>3 DEF HeapInv, TypeOK, BubbleUp, Indices
    <3>2. HeapOrder'
      BY <1>2, <2>1, <2>3, ParentIsBefore
         DEF HeapInv, TypeOK, HeapOrder, BubbleUp, Indices, Ordered, Rises, Before, HeapAssumption
    <3> QED
      BY <3>1, <3>2 DEF HeapInv
  <2> QED
    BY <2>2, <2>3
<1>3. ASSUME ExtractMin
      PROVE  HeapInv'
  <2>1. TypeOK'
    BY <1>3 DEF HeapInv, TypeOK, ExtractMin, Indices, AfterPop
  <2>2. HeapOrder'
    BY <1>3, <2>1, ParentIsBefore
       DEF HeapInv, TypeOK, HeapOrder, ExtractMin, AfterPop, Indices, Ordered
  <2> QED
    BY <2>1, <2>2 DEF HeapInv
<1>4. ASSUME BubbleDown
      PROVE  HeapInv'
  <2> DEFINE s == Smallest(index)
  <2>1. index \in Indices /\ index \in Nat /\ length \in Nat /\ at = "bubbleDown"
    BY <1>4 DEF HeapInv, TypeOK, BubbleDown, Indices
  <2>2. /\ s \in Indices
        /\ s \in {index, LeftChild(index), RightChild(index)}
        /\ s # index => runAt[heap[s]] < runAt[heap[index]]
        /\ \A i \in Indices \ {0} : Parent(i) = index => Ordered(s, i)
    <3>1. \A i \in Indices \ {0} : Parent(i) = index =>
             i < length /\ (i = LeftChild(index) \/ i = RightChild(index))
      BY <2>1, ParentIsBefore DEF Indices
    <3> QED
      BY <2>1, <3>1, SmallestIsEarliest DEF HeapInv, Ordered
  <2>3. \A i \in Indices : runAt[heap[i]] \in Int
    BY DEF HeapInv, TypeOK, HeapAssumption
  <2>4. CASE s # index
    <3>1. /\ index' = s /\ length' = length /\ at' = "bubbleDown" /\ result' = result
          /\ heap' = [heap EXCEPT ![index] = heap[s], ![s] = heap[index]]
      BY <1>4, <2>1, <2>4 DEF BubbleDown, MovesTo, Swap
    <3>2. TypeOK'
      BY <2>1, <2>2, <3>1 DEF HeapInv, TypeOK, Indices
    <3>3. \A i \in Indices : heap'[i] = IF i = s THEN heap[index]
                                    ELSE IF i = index THEN heap[s] ELSE heap[i]
      BY <2>1, <2>2, <2>4, <3>1 DEF HeapInv, TypeOK
    <3>4. Parent(s) = index /\ s > index /\ s \in Nat
      BY <2>1, <2>2, <2>4, ChildrenAndParent
    <3>5. ASSUME NEW i \in Indices \ {0}, Parent(i) # s
          PROVE  Ordered(Parent(i), i)'
      <4>1. /\ i \in Nat /\ i > 0
            /\ Parent(i) \in Indices /\ Parent(i) \in Nat /\ Parent(i) < i
        BY <2>1, <3>5, ParentIsBefore DEF Indices
      <4>2. CASE Parent(i) = index
        BY <2>1, <2>2, <2>3, <2>4, <3>3, <3>4, <4>1, <4>2 DEF Ordered
      <4>3. CASE i = index
        <5>1. Ordered(Parent(index), s)
          BY <2>1, <2>2, <3>4, <4>1, <4>3 DEF HeapInv, HeapOrder, Indices
        <5>2. heap'[Parent(i)] = heap[Parent(i)] /\ heap'[i] = heap[s]
          BY <2>1, <2>4, <3>3, <3>5, <4>1, <4>3
        <5> QED
          BY <4>3, <5>1, <5>2 DEF Ordered
      <4>4. CASE Parent(i) # index /\ i # index
        <5>1. Ordered(Parent(i), i)
          BY <2>1, <3>5, <4>4 DEF HeapInv, HeapOrder
        <5>2. i # s
          BY <3>4, <4>4
        <5> QED
          BY <3>3, <3>5, <4>1, <4>4, <5>1, <5>2 DEF Ordered
      <4> QED
        BY <4>2, <4>3, <4>4
    <3>6. ASSUME NEW i \in Indices \ {0}, Parent(i) = s
          PROVE  runAt[heap'[index]] <= runAt[heap'[i]]
      <4>1. Ordered(s, i)
        BY <2>1, <2>4, <3>6 DEF HeapInv, HeapOrder
      <4>2. i > s
        BY <3>6, ParentIsBefore DEF Indices
      <4> QED
        BY <2>1, <2>2, <3>3, <3>4, <3>6, <4>1, <4>2 DEF Ordered, Indices
    <3>7. HeapOrder'
      BY <3>1, <3>4, <3>5, <3>6 DEF HeapOrder, Indices, Ordered
    <3> QED
      BY <3>2, <3>7 DEF HeapInv
  <2>5. CASE s = index
    <3>1. TypeOK'
      BY <1>4, <2>5 DEF HeapInv, TypeOK, BubbleDown, Indices
    <3>2. HeapOrder'
      BY <1>4, <2>1, <2>2, <2>5 DEF HeapInv, HeapOrder, BubbleDown, Indices, Ordered
    <3> QED
      BY <3>1, <3>2 DEF HeapInv
  <2> QED
    BY <2>4, <2>5
<1>5. ASSUME UNCHANGED vars
      PROVE  HeapInv'
  BY <1>5 DEF HeapInv, vars, TypeOK, HeapOrder, Indices, Ordered
<1> QED
  BY <1>1, <1>2, <1>3, <1>4, <1>5 DEF Next

(* The array, the loops' index and the order, for every set of tasks, all  *)
(* times and every length.                                                 *)
THEOREM HeapInvariant == Spec => []HeapInv
<1>1. Init => HeapInv
  BY HeapAssumption, HeapStarts
<1>2. HeapInv /\ [Next]_vars => HeapInv'
  BY HeapAssumption, HeapSteps
<1> QED
  BY <1>1, <1>2, PTL DEF Spec

(* Types of the array, the loops' index and the result.  The code: insert, *)
(* extractMin, bubbleUp and bubbleDown keep the array dense and the loops  *)
(* inside it.                                                              *)
THEOREM HeapTypeCorrect == Spec => []TypeOK
BY HeapInvariant, PTL DEF HeapInv

(* The heap order, with the loops' exceptions, holds at every step of      *)
(* bubbleUp and bubbleDown.                                                *)
THEOREM HeapOrdered == Spec => []HeapOrder
BY HeapInvariant, PTL DEF HeapInv

(* In a heap-ordered array no element is before the first: the least index *)
(* of an element before the first would have such a parent.                *)
LEMMA FirstIsEarliest ==
  ASSUME HeapAssumption, TypeOK, HeapOrder, at = "idle"
  PROVE  \A i \in Indices : Ordered(0, i)
<1> DEFINE Sooner == {i \in Indices : ~Ordered(0, i)}
<1>1. SUFFICES ASSUME Sooner # {}
               PROVE  FALSE
  OBVIOUS
<1>2. PICK i \in Sooner : \A j \in Sooner : i <= j
  <2>1. Sooner \subseteq Nat
    BY DEF TypeOK, Indices
  <2> HIDE DEF Sooner
  <2> QED
    BY <1>1, <2>1, LeastElement
<1>3. i \in Indices /\ i \in Nat /\ ~Ordered(0, i)
  BY <1>2 DEF TypeOK, Indices
<1>4. \A k \in Indices : runAt[heap[k]] \in Int
  BY DEF TypeOK, HeapAssumption
<1>5. i # 0
  BY <1>3, <1>4 DEF Ordered
<1>6. Parent(i) \in Indices /\ Parent(i) < i /\ Parent(i) \in Nat /\ 0 \in Indices
  BY <1>3, <1>5, ParentIsBefore DEF TypeOK, Indices
<1>7. Ordered(Parent(i), i)
  BY <1>3, <1>5 DEF HeapOrder
<1>8. Parent(i) \notin Sooner
  <2>1. ~(i <= Parent(i))
    BY <1>3, <1>6
  <2> QED
    BY <1>2, <2>1
<1>9. Ordered(0, Parent(i))
  BY <1>6, <1>8
<1> QED
  BY <1>3, <1>4, <1>6, <1>7, <1>9 DEF Ordered

(* Between operations the first element is the earliest: what peekMin      *)
(* shows and extractMin returns is a task with the least runAt.            *)
THEOREM EarliestFirst == Spec => []MinFirst
<1>1. HeapInv => MinFirst
  BY HeapAssumption, FirstIsEarliest DEF HeapInv, MinFirst
<1> QED
  BY <1>1, HeapInvariant, PTL
-----------------------------------------------------------------------------
(* The array against the queue it implements: how often a task is in it.   *)

Places(h, n, t) == {i \in 0..(n - 1) : h[i] = t}

(* A function that is one to one and onto makes a bijection exist.         *)
LEMMA OneToOneAndOnto ==
  ASSUME NEW S, NEW T, NEW f \in [S -> T],
         \A a, b \in S : f[a] = f[b] => a = b,
         \A y \in T : \E x \in S : f[x] = y
  PROVE  ExistsBijection(S, T)
<1>1. f \in Injection(S, T)
  BY DEF Injection, IsInjective
<1>2. f \in Surjection(S, T)
  BY DEF Surjection
<1> QED
  BY <1>1, <1>2 DEF ExistsBijection, Bijection

(* The places of a task are finitely many.                                 *)
LEMMA PlacesAreFinite ==
  ASSUME NEW h, NEW n \in Int, NEW t
  PROVE  /\ IsFiniteSet(Places(h, n, t))
         /\ Cardinality(Places(h, n, t)) \in Nat
<1>1. IsFiniteSet(0..(n - 1))
  BY FS_Interval
<1>2. Places(h, n, t) \subseteq 0..(n - 1)
  BY DEF Places
<1>3. IsFiniteSet(Places(h, n, t))
  BY <1>1, <1>2, FS_Subset
<1> QED
  BY <1>3, FS_CardinalityType

(* A swap keeps the number of places of each task: the places correspond   *)
(* by exchanging the two indices.                                          *)
LEMMA SwapKeepsCounts ==
  ASSUME NEW n \in Int, NEW h, NEW g, NEW i \in 0..(n - 1), NEW j \in 0..(n - 1), NEW t,
         \A k \in 0..(n - 1) : g[k] = IF k = i THEN h[j] ELSE IF k = j THEN h[i] ELSE h[k]
  PROVE  Cardinality(Places(g, n, t)) = Cardinality(Places(h, n, t))
<1> DEFINE S == Places(h, n, t)
           T == Places(g, n, t)
           f == [k \in S |-> IF k = i THEN j ELSE IF k = j THEN i ELSE k]
<1>1. f \in [S -> T]
  BY DEF Places
<1>2. \A a, b \in S : f[a] = f[b] => a = b
  OBVIOUS
<1>3. \A y \in T : \E x \in S : f[x] = y
  <2> SUFFICES ASSUME NEW y \in T
               PROVE  \E x \in S : f[x] = y
    OBVIOUS
  <2> DEFINE x == IF y = i THEN j ELSE IF y = j THEN i ELSE y
  <2>1. x \in S /\ f[x] = y
    BY DEF Places
  <2> QED
    BY <2>1
<1>4. ExistsBijection(S, T)
  <2> HIDE DEF S, T, f
  <2> QED
    BY <1>1, <1>2, <1>3, OneToOneAndOnto
<1>5. IsFiniteSet(S)
  BY PlacesAreFinite
<1>6. Cardinality(T) = Cardinality(S)
  <2> HIDE DEF S, T
  <2> QED
    BY <1>4, <1>5, FS_Bijection
<1> QED
  BY <1>6

(* extractMin takes away one place of the first element's task: the places *)
(* that are left correspond, the last moving to the front.                 *)
LEMMA RemoveFirstCounts ==
  ASSUME NEW n \in Nat, n > 0, NEW h, NEW g, NEW t,
         \A k \in 0..(n - 2) : g[k] = IF k = 0 THEN h[n - 1] ELSE h[k]
  PROVE  Cardinality(Places(g, n - 1, t)) =
           Cardinality(Places(h, n, t)) - (IF t = h[0] THEN 1 ELSE 0)
<1> DEFINE S == Places(h, n, t) \ {0}
           T == Places(g, n - 1, t)
           f == [k \in S |-> IF k = n - 1 THEN 0 ELSE k]
<1>1. IsFiniteSet(S) /\ Cardinality(S) =
        Cardinality(Places(h, n, t)) - (IF t = h[0] THEN 1 ELSE 0)
  <2>1. 0 \in Places(h, n, t) <=> t = h[0]
    BY DEF Places
  <2> QED
    BY <2>1, PlacesAreFinite, FS_RemoveElement
<1>2. f \in [S -> T]
  BY DEF Places
<1>3. \A a, b \in S : f[a] = f[b] => a = b
  BY DEF Places
<1>4. \A y \in T : \E x \in S : f[x] = y
  <2> SUFFICES ASSUME NEW y \in T
               PROVE  \E x \in S : f[x] = y
    OBVIOUS
  <2> DEFINE x == IF y = 0 THEN n - 1 ELSE y
  <2>1. x \in S /\ f[x] = y
    BY DEF Places
  <2> QED
    BY <2>1
<1>5. ExistsBijection(S, T)
  <2> HIDE DEF S, T, f
  <2> QED
    BY <1>2, <1>3, <1>4, OneToOneAndOnto
<1>6. Cardinality(T) = Cardinality(S)
  <2>1. IsFiniteSet(S)
    BY <1>1
  <2> HIDE DEF S, T
  <2> QED
    BY <1>5, <2>1, FS_Bijection
<1> QED
  BY <1>1, <1>6

(* The code implements the queue: insert adds a task, extractMin takes an  *)
(* earliest one, and the loops' rounds change neither.                     *)
THEOREM HeapImplementsQueue == Spec => IsQueue
<1> DEFINE places == [t \in Tasks |-> Cardinality({i \in Indices : heap[i] = t})]
<1>0. /\ places = [t \in Tasks |-> Cardinality(Places(heap, length, t))]
      /\ places' = [t \in Tasks |-> Cardinality(Places(heap', length', t))]
  BY DEF Places, Indices
<1>1. Init => Queue!Init
  <2> SUFFICES ASSUME Init
               PROVE  Queue!Init
    OBVIOUS
  <2>1. \A t : {i \in Indices : heap[i] = t} = {}
    BY DEF Init, Indices
  <2> QED
    BY <2>1, FS_EmptySet DEF Init, Queue!Init
<1>2. HeapInv /\ [Next]_vars => [Queue!Next]_Queue!vars
  <2> SUFFICES ASSUME HeapInv, [Next]_vars
               PROVE  [Queue!Next]_Queue!vars
    OBVIOUS
  <2>0. /\ length \in Nat
        /\ \A t : Cardinality(Places(heap, length, t)) \in Nat
    BY PlacesAreFinite DEF HeapInv, TypeOK
  <2>1. ASSUME NEW s \in Tasks, Insert(s)
        PROVE  Queue!Insert(s)
    <3>1. \A t \in Tasks : Cardinality(Places(heap', length', t)) =
            Cardinality(Places(heap, length, t)) + (IF t = s THEN 1 ELSE 0)
      <4>1. length' = length + 1
        BY <2>1 DEF Insert
      <4>2. \A k \in 0..length : heap'[k] = IF k = length THEN s ELSE heap[k]
        BY <2>1 DEF Insert
      <4>3. ASSUME NEW t \in Tasks, t # s
            PROVE  Places(heap', length', t) = Places(heap, length, t)
        BY <2>0, <4>1, <4>2, <4>3 DEF Places
      <4>4. /\ Places(heap', length', s) = Places(heap, length, s) \cup {length}
            /\ length \notin Places(heap, length, s)
        BY <2>0, <4>1, <4>2 DEF Places
      <4>5. Cardinality(Places(heap, length, s) \cup {length}) =
              Cardinality(Places(heap, length, s)) + 1
        BY SMTT(40), <2>0, <4>4, PlacesAreFinite, FS_AddElement
      <4> QED
        BY <2>0, <4>3, <4>4, <4>5
    <3>2. places' = [places EXCEPT ![s] = @ + 1]
      <4> HIDE DEF places
      <4> QED
        BY <1>0, <2>0, <3>1
    <3> QED
      BY <2>1, <3>2 DEF Insert, Queue!Insert
  <2>2. ASSUME BubbleUp \/ BubbleDown
        PROVE  UNCHANGED Queue!vars
    <3>1. /\ length' = length /\ result' = result
          /\ \/ heap' = heap
             \/ \E i, j \in Indices : heap' = Swap(i, j)
      <4>1. index \in Indices
        BY <2>2 DEF HeapInv, TypeOK, BubbleUp, BubbleDown
      <4>2. Smallest(index) \in Indices
        BY <4>1, HeapAssumption, SmallestIsEarliest DEF HeapInv
      <4>3. Rises(index) => Parent(index) \in Indices
        BY <4>1, ParentIsBefore DEF HeapInv, TypeOK, Indices, Rises
      <4> QED
        BY <2>2, <4>1, <4>2, <4>3 DEF BubbleUp, BubbleDown
    <3>2. ASSUME NEW i \in Indices, NEW j \in Indices, heap' = Swap(i, j), NEW t
          PROVE  Cardinality(Places(heap', length, t)) = Cardinality(Places(heap, length, t))
      <4>1. \A k \in 0..(length - 1) :
              heap'[k] = IF k = i THEN heap[j] ELSE IF k = j THEN heap[i] ELSE heap[k]
        BY <3>2 DEF Swap, Indices, HeapInv, TypeOK
      <4>2. i \in 0..(length - 1) /\ j \in 0..(length - 1) /\ length \in Int
        BY <2>0 DEF Indices
      <4> QED
        BY <4>1, <4>2, SwapKeepsCounts
    <3>3. \A t \in Tasks : Cardinality(Places(heap', length', t)) =
                          Cardinality(Places(heap, length, t))
      BY <3>1, <3>2
    <3>4. places' = places
      <4> HIDE DEF places
      <4> QED
        BY <1>0, <3>3
    <3> QED
      BY <3>1, <3>4 DEF Queue!vars
  <2>3. ASSUME ExtractMin
        PROVE  Queue!Extract(heap[0])
    <3>1. heap[0] \in Tasks /\ 0 \in Indices
      BY <2>3 DEF HeapInv, TypeOK, ExtractMin, Indices
    <3>2. \A t \in Tasks : Cardinality(Places(heap', length', t)) =
            Cardinality(Places(heap, length, t)) - (IF t = heap[0] THEN 1 ELSE 0)
      <4>1. length > 0 /\ length' = length - 1
        BY <2>3 DEF ExtractMin, AfterPop
      <4>2. \A k \in 0..(length - 2) :
              heap'[k] = IF k = 0 THEN heap[length - 1] ELSE heap[k]
        BY <2>0, <2>3, <4>1 DEF ExtractMin
      <4> QED
        BY <2>0, <4>1, <4>2, RemoveFirstCounts
    <3>3. places' = [places EXCEPT ![heap[0]] = @ - 1]
      <4> HIDE DEF places
      <4> QED
        BY <1>0, <2>0, <3>1, <3>2
    <3>4. \A t \in Tasks : places[t] > 0 <=> \E i \in Indices : heap[i] = t
      <4> SUFFICES ASSUME NEW t \in Tasks
                   PROVE  places[t] > 0 <=> \E i \in Indices : heap[i] = t
        OBVIOUS
      <4>1. Cardinality(Places(heap, length, t)) = 0 <=> Places(heap, length, t) = {}
        BY <2>0, PlacesAreFinite, FS_EmptySet
      <4>2. Places(heap, length, t) = {} <=> ~ \E i \in Indices : heap[i] = t
        BY DEF Places, Indices
      <4>3. places[t] = Cardinality(Places(heap, length, t))
        <5> HIDE DEF places
        <5> QED
          BY <1>0
      <4>4. Cardinality(Places(heap, length, t)) \in Nat
        BY <2>0
      <4> HIDE DEF places
      <4> QED
        BY <4>1, <4>2, <4>3, <4>4
    <3>5. \A i \in Indices : Ordered(0, i)
      BY <2>3, HeapAssumption, FirstIsEarliest DEF HeapInv, ExtractMin
    <3>6. Queue!Earliest(heap[0])
      <4> HIDE DEF places
      <4>1. places[heap[0]] > 0
        BY <3>1, <3>4
      <4>2. \A s \in Tasks : places[s] > 0 => runAt[heap[0]] <= runAt[s]
        BY <3>4, <3>5 DEF Ordered
      <4> QED
        BY <4>1, <4>2 DEF Queue!Earliest, places
    <3> QED
      BY <2>3, <3>3, <3>6 DEF ExtractMin, Queue!Extract
  <2>4. CASE UNCHANGED vars
    BY <2>4 DEF vars, Queue!vars, Indices
  <2> QED
    <3>1. CASE \E t \in Tasks : Insert(t)
      BY <2>1, <3>1 DEF Queue!Next
    <3>2. CASE ExtractMin
      <4>1. heap[0] \in Tasks
        BY <3>2 DEF HeapInv, TypeOK, ExtractMin, Indices
      <4> QED
        BY <2>3, <3>2, <4>1 DEF Queue!Next
    <3> QED
      BY <2>2, <2>4, <3>1, <3>2 DEF Next
<1> QED
  BY <1>1, <1>2, HeapInvariant, PTL DEF Spec, IsQueue, Queue!Spec

(* What is left of a sequence whose front is cut off.                      *)
LEMMA Dropped ==
  ASSUME NEW S, NEW b \in Seq(S), NEW l \in 0..Len(b)
  PROVE  /\ SubSeq(b, l + 1, Len(b)) \in Seq(S) /\ Len(SubSeq(b, l + 1, Len(b))) = Len(b) - l
         /\ \A i \in 1..(Len(b) - l) : SubSeq(b, l + 1, Len(b))[i] = b[l + i]
  OBVIOUS
-----------------------------------------------------------------------------
(* Kept is recursive: its body, and its equation up to n.                  *)
KeptStep(s, T, g, i) ==
  IF i = 0 THEN <<>> ELSE IF s[i] \in T THEN Append(g[i - 1], s[i]) ELSE g[i - 1]

(* A filter as a table of its prefixes, and sequences alike up to a        *)
(* length.                                                                 *)
KeepsUpTo(s, T, n, g) == g = [i \in 0..n |-> KeptStep(s, T, g, i)]

(* The recursive body of Kept has a function at every length.              *)
LEMMA KeepingExists ==
  ASSUME NEW s, NEW T, NEW n \in Nat
  PROVE  \E g : KeepsUpTo(s, T, n, g)
<1> DEFINE U == {m \in Nat : ~ \E g : KeepsUpTo(s, T, m, g)}
<1> SUFFICES ASSUME U # {} PROVE FALSE
  OBVIOUS
<1>1. PICK m \in U : \A y \in U : m <= y
  BY LeastElement
<1>2. PICK g : m # 0 => KeepsUpTo(s, T, m - 1, g)
  <2>1. m # 0 => m - 1 \in Nat /\ m - 1 \notin U
    BY <1>1
  <2> QED
    BY <2>1
<1> DEFINE h == [i \in 0..m |-> KeptStep(s, T, g, i)]
<1>3. ASSUME NEW i \in 0..m PROVE KeptStep(s, T, g, i) = KeptStep(s, T, h, i)
  <2>1. CASE i = 0
    BY <2>1 DEF KeptStep
  <2>2. CASE i # 0
    <3>1. i - 1 \in 0..(m - 1) /\ i - 1 \in 0..m
      BY <2>2
    <3>2. g[i - 1] = KeptStep(s, T, g, i - 1)
      BY <1>2, <3>1 DEF KeepsUpTo
    <3>3. g[i - 1] = h[i - 1]
      BY <3>1, <3>2
    <3> HIDE DEF h
    <3> QED
      BY <2>2, <3>3, Zenon DEF KeptStep
  <2> QED
    BY <2>1, <2>2
<1>4. h = [i \in 0..m |-> KeptStep(s, T, h, i)]
  BY <1>3
<1>5. KeepsUpTo(s, T, m, h)
  BY <1>4 DEF KeepsUpTo
<1> QED
  BY <1>1, <1>5

(* Kept is what that function gives at the full length.                    *)
LEMMA KeptEquation ==
  ASSUME NEW s, NEW T, Len(s) \in Nat
  PROVE  \E g : KeepsUpTo(s, T, Len(s), g) /\ Kept(s, T) = g[Len(s)]
<1> DEFINE g == CHOOSE f : f = [i \in 0..Len(s) |-> KeptStep(s, T, f, i)]
<1>1. KeepsUpTo(s, T, Len(s), g)
  BY KeepingExists DEF KeepsUpTo
<1>2. Kept(s, T) = g[Len(s)]
  BY DEF Kept, KeptStep
<1> HIDE DEF g
<1> QED
  BY <1>1, <1>2

Alike(r, s, n) == \A i \in 1..n : r[i] = s[i]

(* Of two sequences that begin alike the same is kept so far.              *)
LEMMA KeepingUnique ==
  ASSUME NEW r, NEW s, NEW T, NEW n \in Nat, NEW m \in Nat, NEW g, NEW h,
         KeepsUpTo(r, T, n, g), KeepsUpTo(s, T, m, h), NEW i \in Nat, i <= n, i <= m,
         Alike(r, s, i)
  PROVE  g[i] = h[i]
<1>0. \A j \in 1..i : r[j] = s[j]
  BY DEF Alike
<1> DEFINE U == {j \in Nat : j <= i /\ g[j] # h[j]}
<1> SUFFICES ASSUME U # {} PROVE FALSE
  OBVIOUS
<1>1. PICK j \in U : \A y \in U : j <= y
  BY LeastElement
<1>2. j \in 0..n /\ j \in 0..m /\ j \in 0..i
  BY <1>1
<1>3. g[j] = KeptStep(r, T, g, j) /\ h[j] = KeptStep(s, T, h, j)
  BY <1>2 DEF KeepsUpTo
<1>4. CASE j = 0
  BY <1>1, <1>3, <1>4 DEF KeptStep
<1>5. CASE j # 0
  <2>1. j - 1 \in Nat /\ j - 1 <= i /\ j - 1 \notin U /\ j \in 1..i
    BY <1>1, <1>2, <1>5
  <2>2. g[j - 1] = h[j - 1] /\ r[j] = s[j]
    BY <1>0, <2>1
  <2> DEFINE y == r[j]
             k == h[j - 1]
  <2>3. /\ g[j] = IF y \in T THEN Append(k, y) ELSE k
        /\ h[j] = IF y \in T THEN Append(k, y) ELSE k
    BY <1>3, <1>5, <2>2, Zenon DEF KeptStep
  <2> HIDE DEF y, k
  <2> QED
    BY <1>1, <2>3
<1> QED
  BY <1>4, <1>5

(* One element more is kept, or not.                                       *)
LEMMA KeptLonger ==
  ASSUME NEW p, NEW q, NEW T, NEW n \in Nat, NEW m \in Nat,
         Len(p) = n, Len(q) = m, n = m + 1, Alike(p, q, m)
  PROVE  Kept(p, T) = IF p[n] \in T THEN Append(Kept(q, T), p[n]) ELSE Kept(q, T)
<1>1. PICK g : KeepsUpTo(p, T, n, g) /\ Kept(p, T) = g[n]
  BY KeptEquation
<1>2. g[n] = KeptStep(p, T, g, n)
  BY <1>1, n \in 0..n DEF KeepsUpTo
<1>3. PICK h : KeepsUpTo(q, T, m, h) /\ Kept(q, T) = h[m]
  BY KeptEquation
<1>4. g[m] = h[m]
  <2>1. m <= n /\ m <= m
    OBVIOUS
  <2> QED
    BY <1>1, <1>3, <2>1, KeepingUnique
<1>5. n # 0 /\ n - 1 = m
  OBVIOUS
<1> QED
  BY <1>1, <1>2, <1>3, <1>4, <1>5, Zenon DEF KeptStep

(* Of nothing, nothing is kept.                                            *)
LEMMA KeptNothing == \A T : Kept(<<>>, T) = <<>>
<1> SUFFICES ASSUME NEW T PROVE Kept(<<>>, T) = <<>>
  OBVIOUS
<1>1. PICK g : KeepsUpTo(<<>>, T, 0, g) /\ Kept(<<>>, T) = g[0]
  <2>1. Len(<<>>) = 0 /\ 0 \in Nat
    OBVIOUS
  <2> QED
    BY <2>1, KeptEquation
<1>2. g[0] = KeptStep(<<>>, T, g, 0)
  BY <1>1 DEF KeepsUpTo
<1> QED
  BY <1>1, <1>2 DEF KeptStep

(* Appending, seen by what is kept.                                        *)
LEMMA KeptAppend ==
  ASSUME NEW S, NEW s \in Seq(S), NEW x \in S, NEW T
  PROVE  Kept(Append(s, x), T) = IF x \in T THEN Append(Kept(s, T), x) ELSE Kept(s, T)
<1>1. PICK p, n, m : p = Append(s, x) /\ n = Len(s) + 1 /\ m = Len(s)
  OBVIOUS
<1>2. n \in Nat /\ m \in Nat /\ n = m + 1 /\ Len(s) = m
  BY <1>1
<1>3. Len(p) = n /\ p[n] = x /\ Alike(p, s, m)
  <2>1. ASSUME NEW i \in 1..Len(s) PROVE Append(s, x)[i] = s[i]
    OBVIOUS
  <2>2. Len(Append(s, x)) = Len(s) + 1 /\ Append(s, x)[Len(s) + 1] = x
    OBVIOUS
  <2> QED
    BY <1>1, <2>1, <2>2 DEF Alike
<1>4. Kept(p, T) = IF p[n] \in T THEN Append(Kept(s, T), p[n]) ELSE Kept(s, T)
  BY <1>2, <1>3, KeptLonger
<1> QED
  BY <1>1, <1>3, <1>4

(* What is kept of a prefix that grows by one.                             *)
LEMMA KeptPrefix ==
  ASSUME NEW S, NEW s \in Seq(S), NEW j \in 0..(Len(s) - 1), NEW T
  PROVE  /\ SubSeq(s, 1, j) \in Seq(S) /\ s[j + 1] \in S
         /\ SubSeq(s, 1, j + 1) = Append(SubSeq(s, 1, j), s[j + 1])
         /\ Kept(SubSeq(s, 1, j + 1), T) = IF s[j + 1] \in T THEN Append(Kept(SubSeq(s, 1, j), T), s[j + 1])
                                           ELSE Kept(SubSeq(s, 1, j), T)
<1>1. SubSeq(s, 1, j) \in Seq(S) /\ s[j + 1] \in S
  <2>1. j + 1 \in 1..Len(s)
    OBVIOUS
  <2> QED
    BY <2>1
<1>2. SubSeq(s, 1, j + 1) = Append(SubSeq(s, 1, j), s[j + 1])
  OBVIOUS
<1> DEFINE q == SubSeq(s, 1, j)
           x == s[j + 1]
<1>3. q \in Seq(S) /\ x \in S
  BY <1>1
<1> HIDE DEF q, x
<1>4. Kept(Append(q, x), T) = IF x \in T THEN Append(Kept(q, T), x) ELSE Kept(q, T)
  BY <1>3, KeptAppend
<1> QED
  BY <1>1, <1>2, <1>4, Zenon DEF q, x

(* An induction over the beginnings of a sequence, cut short: the longest  *)
(* beginning is the sequence.                                              *)
LEMMA WholePrefix ==
  ASSUME NEW S, NEW s \in Seq(S)
  PROVE  SubSeq(s, 1, Len(s)) = s /\ SubSeq(s, 1, 0) = <<>> /\ Len(s) \in Nat
  OBVIOUS

(* What is kept is made of what was there.                                 *)
LEMMA KeptType ==
  ASSUME NEW S, NEW s \in Seq(S), NEW T
  PROVE  Kept(s, T) \in Seq(S \cap T)
<1> DEFINE K(j) == Kept(SubSeq(s, 1, j), T)
           U == {j \in Nat : j <= Len(s) /\ K(j) \notin Seq(S \cap T)}
<1>1. Len(s) \in Nat /\ K(0) \in Seq(S \cap T) /\ K(Len(s)) = Kept(s, T)
  <2>0. <<>> \in Seq(S \cap T)
    OBVIOUS
  <2>1. K(0) = <<>>
    BY WholePrefix, KeptNothing
  <2> HIDE DEF K
  <2>2. K(0) \in Seq(S \cap T)
    BY <2>0, <2>1, Zenon
  <2> QED
    BY <2>2, WholePrefix DEF K
<1>2. ASSUME NEW j \in Nat, j < Len(s), K(j) \in Seq(S \cap T) PROVE K(j + 1) \in Seq(S \cap T)
  <2> DEFINE x == s[j + 1]
             k == K(j)
  <2>1. j \in 0..(Len(s) - 1)
    BY <1>1, <1>2
  <2>2. x \in S /\ K(j + 1) = IF x \in T THEN Append(k, x) ELSE k
    BY <2>1, KeptPrefix
  <2>3. k \in Seq(S \cap T)
    BY <1>2
  <2> HIDE DEF K, x, k
  <2>4. x \in T => Append(k, x) \in Seq(S \cap T)
    BY <2>2, <2>3
  <2> QED
    BY <2>2, <2>3, <2>4, Zenon
<1> HIDE DEF K
<1>3. U = {}
  <2> SUFFICES ASSUME U # {} PROVE FALSE
    OBVIOUS
  <2>1. PICK j \in U : \A y \in U : j <= y
    BY LeastElement
  <2>2. j # 0
    BY <1>1, <2>1
  <2>3. j - 1 \in Nat /\ j - 1 < Len(s) /\ j - 1 \notin U /\ (j - 1) + 1 = j
    BY <1>1, <2>1, <2>2
  <2>4. K(j - 1) \in Seq(S \cap T)
    BY <1>1, <2>3
  <2>5. K((j - 1) + 1) \in Seq(S \cap T)
    BY <1>2, <2>3, <2>4
  <2> QED
    BY <2>1, <2>3, <2>5
<1> QED
  BY <1>1, <1>3

(* Induction over sequences: a set that holds the empty sequence, and with *)
(* a sequence every longer one, holds them all.                            *)
LEMMA SequenceInduction ==
  ASSUME NEW S, NEW P, <<>> \in P,
         \A s \in Seq(S) : s \in P => \A x \in S : Append(s, x) \in P
  PROVE  \A s \in Seq(S) : s \in P
<1> SUFFICES ASSUME NEW s \in Seq(S) PROVE s \in P
  OBVIOUS
<1> DEFINE U == {j \in Nat : j <= Len(s) /\ SubSeq(s, 1, j) \notin P}
<1>1. SubSeq(s, 1, Len(s)) = s /\ SubSeq(s, 1, 0) = <<>> /\ Len(s) \in Nat
  BY WholePrefix
<1>2. U = {}
  <2> SUFFICES ASSUME U # {} PROVE FALSE
    OBVIOUS
  <2>1. PICK j \in U : \A y \in U : j <= y
    BY LeastElement
  <2>2. j # 0
    BY <1>1, <2>1
  <2>3. j - 1 \in 0..(Len(s) - 1) /\ j - 1 \in Nat /\ j - 1 <= Len(s) /\ j - 1 \notin U /\ (j - 1) + 1 = j
    BY <1>1, <2>1, <2>2
  <2> DEFINE p == SubSeq(s, 1, j - 1)
             x == s[(j - 1) + 1]
  <2>4. p \in Seq(S) /\ x \in S /\ SubSeq(s, 1, (j - 1) + 1) = Append(p, x)
    BY <2>3, KeptPrefix
  <2>5. p \in P
    BY <2>3
  <2> HIDE DEF p, x
  <2>6. Append(p, x) \in P
    BY <2>4, <2>5
  <2> QED
    BY <2>1, <2>3, <2>4, <2>6
<1>3. SubSeq(s, 1, Len(s)) \in P
  BY <1>1, <1>2
<1> QED
  BY <1>1, <1>3, Zenon

(* Filtering twice is filtering by both.                                   *)
LEMMA KeptTwice ==
  ASSUME NEW S, NEW A, NEW B
  PROVE  \A s \in Seq(S) : Kept(Kept(s, A), B) = Kept(s, A \cap B)
<1> DEFINE P == {s \in Seq(S) : Kept(Kept(s, A), B) = Kept(s, A \cap B)}
<1>1. <<>> \in P
  <2>1. <<>> \in Seq(S)
    OBVIOUS
  <2> QED
    BY <2>1, KeptNothing
<1>2. ASSUME NEW s \in Seq(S), s \in P, NEW x \in S PROVE Append(s, x) \in P
  <2> DEFINE k == Kept(s, A)
             b == Kept(s, A \cap B)
  <2>1. /\ Kept(Append(s, x), A) = IF x \in A THEN Append(k, x) ELSE k
        /\ Kept(Append(s, x), A \cap B) = IF x \in A \cap B THEN Append(b, x) ELSE b
    BY KeptAppend
  <2>2. k \in Seq(S)
    <3>1. k \in Seq(S \cap A)
      BY KeptType
    <3> QED
      BY <3>1
  <2>3. Kept(k, B) = b /\ Append(s, x) \in Seq(S)
    BY <1>2
  <2> HIDE DEF k, b
  <2>4. Kept(Append(k, x), B) = IF x \in B THEN Append(b, x) ELSE b
    BY <2>2, <2>3, KeptAppend
  <2>5. CASE x \in A
    BY <2>1, <2>3, <2>4, <2>5
  <2>6. CASE x \notin A
    BY <2>1, <2>3, <2>6
  <2> QED
    BY <2>5, <2>6
<1> HIDE DEF P
<1>3. \A s \in Seq(S) : s \in P
  BY <1>1, <1>2, SequenceInduction
<1> QED
  BY <1>3 DEF P

(* What is kept depends only on which of the elements are wanted.          *)
LEMMA KeptSame ==
  ASSUME NEW S, NEW A, NEW B, S \cap A = S \cap B
  PROVE  \A s \in Seq(S) : Kept(s, A) = Kept(s, B)
<1> DEFINE P == {s \in Seq(S) : Kept(s, A) = Kept(s, B)}
<1>1. <<>> \in P
  BY KeptNothing
<1>2. ASSUME NEW s \in Seq(S), s \in P, NEW x \in S PROVE Append(s, x) \in P
  <2>1. /\ Kept(Append(s, x), A) = IF x \in A THEN Append(Kept(s, A), x) ELSE Kept(s, A)
        /\ Kept(Append(s, x), B) = IF x \in B THEN Append(Kept(s, B), x) ELSE Kept(s, B)
    BY KeptAppend
  <2>2. x \in A <=> x \in B
    OBVIOUS
  <2>3. Append(s, x) \in Seq(S) /\ Kept(s, A) = Kept(s, B)
    BY <1>2
  <2> QED
    BY <2>1, <2>2, <2>3
<1> HIDE DEF P
<1>3. \A s \in Seq(S) : s \in P
  BY <1>1, <1>2, SequenceInduction
<1> QED
  BY <1>3 DEF P

-----------------------------------------------------------------------------
(* The elements of a sequence, their order, and that none is there twice.  *)
Elements(s) == {s[i] : i \in DOMAIN s}
Order(s) == {<<s[p[1]], s[p[2]]>> : p \in {q \in (1..Len(s)) \X (1..Len(s)) : q[1] < q[2]}}
Distinct(s) == \A i, j \in 1..Len(s) : s[i] = s[j] => i = j

(* What an element more means for them.                                    *)
LEMMA OneMore ==
  ASSUME NEW S, NEW s \in Seq(S), NEW x \in S
  PROVE  /\ Elements(Append(s, x)) = Elements(s) \cup {x}
         /\ Order(Append(s, x)) = Order(s) \cup {<<y, x>> : y \in Elements(s)}
         /\ Distinct(Append(s, x)) <=> Distinct(s) /\ x \notin Elements(s)
<1> DEFINE a == Append(s, x)
<1>1. /\ Len(s) \in Nat /\ Len(a) = Len(s) + 1 /\ DOMAIN a = 1..(Len(s) + 1) /\ DOMAIN s = 1..Len(s)
      /\ a[Len(s) + 1] = x
      /\ \A i \in 1..Len(s) : a[i] = s[i]
  OBVIOUS
<1> HIDE DEF a
<1>2. Elements(a) = Elements(s) \cup {x}
  BY <1>1 DEF Elements
<1>3. ASSUME NEW z \in Order(a) PROVE z \in Order(s) \cup {<<y, x>> : y \in Elements(s)}
  <2>1. PICK i, j \in 1..(Len(s) + 1) : i < j /\ z = <<a[i], a[j]>>
    BY <1>1 DEF Order
  <2>2. i \in 1..Len(s) /\ a[i] = s[i] /\ s[i] \in Elements(s)
    BY <1>1, <2>1 DEF Elements
  <2>3. CASE j = Len(s) + 1
    BY <1>1, <2>1, <2>2, <2>3
  <2>4. CASE j # Len(s) + 1
    <3>1. j \in 1..Len(s) /\ a[j] = s[j]
      BY <1>1, <2>1, <2>4
    <3>2. <<i, j>> \in {q \in (1..Len(s)) \X (1..Len(s)) : q[1] < q[2]}
      BY <2>1, <2>2, <3>1
    <3> QED
      BY <2>1, <2>2, <3>1, <3>2 DEF Order
  <2> QED
    BY <2>3, <2>4
<1>4. ASSUME NEW i \in 1..(Len(s) + 1), NEW j \in 1..(Len(s) + 1), i < j
      PROVE  <<a[i], a[j]>> \in Order(a)
  <2>1. <<i, j>> \in {q \in (1..Len(a)) \X (1..Len(a)) : q[1] < q[2]}
    BY <1>1, <1>4
  <2> QED
    BY <2>1 DEF Order
<1>5. ASSUME NEW z \in Order(s) PROVE z \in Order(a)
  <2>1. PICK i, j \in 1..Len(s) : i < j /\ z = <<s[i], s[j]>>
    BY DEF Order
  <2>2. i \in 1..(Len(s) + 1) /\ j \in 1..(Len(s) + 1) /\ a[i] = s[i] /\ a[j] = s[j]
    BY <1>1, <2>1
  <2> QED
    BY <1>4, <2>1, <2>2
<1>6. ASSUME NEW y \in Elements(s) PROVE <<y, x>> \in Order(a)
  <2>1. PICK i \in 1..Len(s) : y = s[i]
    BY <1>1 DEF Elements
  <2>2. i \in 1..(Len(s) + 1) /\ Len(s) + 1 \in 1..(Len(s) + 1) /\ i < Len(s) + 1 /\ a[i] = s[i]
    BY <1>1, <2>1
  <2> QED
    BY <1>1, <1>4, <2>1, <2>2
<1>7. Order(a) = Order(s) \cup {<<y, x>> : y \in Elements(s)}
  BY <1>3, <1>5, <1>6
<1>8. ASSUME Distinct(a) PROVE Distinct(s) /\ x \notin Elements(s)
  <2>1. \A i \in 1..Len(s) : i \in 1..Len(a) /\ Len(s) + 1 \in 1..Len(a) /\ i # Len(s) + 1
    BY <1>1
  <2> QED
    BY <1>1, <1>8, <2>1 DEF Distinct, Elements
<1>9. ASSUME Distinct(s), x \notin Elements(s) PROVE Distinct(a)
  <2> SUFFICES ASSUME NEW i \in 1..Len(a), NEW j \in 1..Len(a), a[i] = a[j] PROVE i = j
    BY DEF Distinct
  <2>1. /\ i \in 1..Len(s) \/ i = Len(s) + 1
        /\ j \in 1..Len(s) \/ j = Len(s) + 1
    BY <1>1
  <2> QED
    BY <1>1, <1>9, <2>1 DEF Distinct, Elements
<1> QED
  BY <1>2, <1>7, <1>8, <1>9 DEF a

(* What a filter leaves of the elements and of their order.                *)
Selected(k, s, T) ==
  /\ Elements(k) = Elements(s) \cap T
  /\ Order(k) = Order(s) \cap (T \X T)
  /\ Distinct(s) => Distinct(k)

(* A filter takes elements out and leaves the order of the others.         *)
LEMMA KeptSelects ==
  ASSUME NEW S, NEW T
  PROVE  \A s \in Seq(S) : Selected(Kept(s, T), s, T)
<1> DEFINE P == {s \in Seq(S) : Selected(Kept(s, T), s, T)}
<1>1. <<>> \in P
  <2>1. Elements(<<>>) = {} /\ Order(<<>>) = {}
    BY DEF Elements, Order
  <2> QED
    BY <2>1, KeptNothing DEF Selected
<1>2. ASSUME NEW s \in Seq(S), s \in P, NEW x \in S PROVE Append(s, x) \in P
  <2> DEFINE k == Kept(s, T)
  <2>1. Kept(Append(s, x), T) = IF x \in T THEN Append(k, x) ELSE k
    BY KeptAppend
  <2>2. k \in Seq(S) /\ Selected(k, s, T) /\ Append(s, x) \in Seq(S)
    <3>1. k \in Seq(S \cap T)
      BY KeptType
    <3> QED
      BY <1>2, <3>1
  <2> HIDE DEF k
  <2>3. /\ Elements(Append(s, x)) = Elements(s) \cup {x}
        /\ Order(Append(s, x)) = Order(s) \cup {<<y, x>> : y \in Elements(s)}
        /\ Distinct(Append(s, x)) <=> Distinct(s) /\ x \notin Elements(s)
    BY OneMore
  <2>4. /\ Elements(Append(k, x)) = Elements(k) \cup {x}
        /\ Order(Append(k, x)) = Order(k) \cup {<<y, x>> : y \in Elements(k)}
        /\ Distinct(Append(k, x)) <=> Distinct(k) /\ x \notin Elements(k)
    BY <2>2, OneMore
  <2>5. CASE x \in T
    <3>1. Elements(Append(k, x)) = Elements(Append(s, x)) \cap T
      BY <2>2, <2>3, <2>4, <2>5 DEF Selected
    <3>2. Order(Append(k, x)) = Order(Append(s, x)) \cap (T \X T)
      BY <2>2, <2>3, <2>4, <2>5 DEF Selected
    <3>3. Distinct(Append(s, x)) => Distinct(Append(k, x))
      BY <2>2, <2>3, <2>4, <2>5 DEF Selected
    <3> QED
      BY <2>1, <2>2, <2>5, <3>1, <3>2, <3>3 DEF Selected
  <2>6. CASE x \notin T
    <3>1. Elements(k) = Elements(Append(s, x)) \cap T
      BY <2>2, <2>3, <2>6 DEF Selected
    <3>2. Order(k) = Order(Append(s, x)) \cap (T \X T)
      BY <2>2, <2>3, <2>6 DEF Selected
    <3> QED
      BY <2>1, <2>2, <2>3, <2>6, <3>1, <3>2 DEF Selected
  <2> QED
    BY <2>5, <2>6
<1> HIDE DEF P
<1>3. \A s \in Seq(S) : s \in P
  BY <1>1, <1>2, SequenceInduction
<1> QED
  BY <1>3 DEF P

(* What getAll returns is the end of the log.                              *)
EndOfLog == Aggregator!GetAll = Aggregator!Ring!Last(accepted)
LogInv == RingInv /\ accepted \in Seq(Aggregator!Entries) /\ EndOfLog

(* z is the rest of a from the f-th element on.                            *)
IsRest(z, a, f, S) ==
  /\ z \in Seq(S) /\ Len(z) = Len(a) - f + 1
  /\ \A i \in 1..(Len(a) - f + 1) : z[i] = a[f + i - 1]

(* The last entries of a log that is not empty, one by one.                *)
LEMMA LastOf ==
  ASSUME Aggregator!CapacityFits, NEW S, NEW a \in Seq(S), Len(a) >= 1,
         NEW f, f = IF Len(a) > LogCapacity THEN Len(a) - LogCapacity + 1 ELSE 1
  PROVE  f \in 1..Len(a) /\ IsRest(Aggregator!Ring!Last(a), a, f, S)
<1>1. Aggregator!Ring!Last(a) = SubSeq(a, f, Len(a))
  BY Zenon DEF Aggregator!Ring!Last
<1>2. f \in 1..Len(a)
  BY DEF Aggregator!CapacityFits
<1>3. /\ SubSeq(a, f, Len(a)) \in Seq(S)
      /\ Len(SubSeq(a, f, Len(a))) = Len(a) - f + 1
      /\ \A i \in 1..(Len(a) - f + 1) : SubSeq(a, f, Len(a))[i] = a[f + i - 1]
  BY <1>2
<1> QED
  BY <1>1, <1>2, <1>3, Zenon DEF IsRest

(* The last entries of a log that has become longer are the last of its    *)
(* last and the new one.                                                   *)
LEMMA LastOfLonger ==
  ASSUME Aggregator!CapacityFits, NEW S, NEW s \in Seq(S), NEW e \in S
  PROVE  Aggregator!Ring!Last(Append(Aggregator!Ring!Last(s), e)) = Aggregator!Ring!Last(Append(s, e))
<1> DEFINE l == Aggregator!Ring!Last(s)
           a == Append(s, e)
           b == Append(l, e)
<1>0. PICK n, c : n = Len(s) /\ c = LogCapacity
  OBVIOUS
<1>1. PICK d : d = IF n > c THEN n - c ELSE 0
  OBVIOUS
<1>2. n \in Nat /\ c \in Nat \ {0} /\ d \in Nat /\ d <= n
  BY <1>0, <1>1 DEF Aggregator!CapacityFits
<1>3. l = SubSeq(s, d + 1, n)
  <2>1. d + 1 = IF n > c THEN n - c + 1 ELSE 1
    BY <1>1, <1>2
  <2> QED
    BY <1>0, <2>1, Zenon DEF Aggregator!Ring!Last
<1>4. /\ l \in Seq(S) /\ Len(l) = n - d
      /\ \A i \in 1..(n - d) : l[i] = s[d + i]
  BY <1>0, <1>2, <1>3, Dropped
<1>5. /\ a \in Seq(S) /\ Len(a) = n + 1 /\ a[n + 1] = e
      /\ \A i \in 1..n : a[i] = s[i]
  BY <1>0
<1> HIDE DEF l
<1>6. /\ b \in Seq(S) /\ Len(b) = n - d + 1 /\ b[n - d + 1] = e
      /\ \A i \in 1..(n - d) : b[i] = l[i]
  <2>1. Len(l) \in Nat /\ DOMAIN l = 1..Len(l)
    BY <1>4
  <2>2. b \in Seq(S) /\ Len(b) = Len(l) + 1 /\ b[Len(l) + 1] = e /\ \A i \in 1..Len(l) : b[i] = l[i]
    BY <1>4
  <2> QED
    BY <1>4, <2>2
<1> HIDE DEF a, b
<1>7. \A i \in 1..(n - d + 1) : b[i] = a[d + i]
  <2> SUFFICES ASSUME NEW i \in 1..(n - d + 1) PROVE b[i] = a[d + i]
    OBVIOUS
  <2>1. CASE i = n - d + 1
    <3>1. d + i = n + 1
      BY <1>2, <2>1
    <3> QED
      BY <1>5, <1>6, <2>1, <3>1
  <2>2. CASE i # n - d + 1
    <3>1. i \in 1..(n - d) /\ d + i \in 1..n
      BY <1>2, <2>2
    <3> QED
      BY <1>4, <1>5, <1>6, <3>1
  <2> QED
    BY <2>1, <2>2
<1>8. PICK f, g : /\ f = IF n + 1 > c THEN n + 1 - c + 1 ELSE 1
                  /\ g = IF n - d + 1 > c THEN n - d + 1 - c + 1 ELSE 1
  OBVIOUS
<1>9. PICK p, q : p = Aggregator!Ring!Last(a) /\ q = Aggregator!Ring!Last(b)
  OBVIOUS
<1>10. f \in Nat /\ g \in Nat /\ f >= 1 /\ g >= 1 /\ f <= n + 1 /\ d + g = f
  <2>1. CASE n > c
    BY <1>1, <1>2, <1>8, <2>1
  <2>2. CASE ~(n > c)
    BY <1>1, <1>2, <1>8, <2>2
  <2> QED
    BY <2>1, <2>2
<1>11. PICK j \in Nat : j = n + 2 - f
  BY <1>2, <1>10
<1>12. p \in Seq(S) /\ Len(p) = j /\ \A i \in 1..j : p[i] = a[f + i - 1]
  <2>1. Len(a) >= 1 /\ f = IF Len(a) > LogCapacity THEN Len(a) - LogCapacity + 1 ELSE 1
    BY <1>0, <1>2, <1>5, <1>8
  <2>2. IsRest(p, a, f, S)
    BY <1>5, <1>9, <2>1, LastOf
  <2>3. Len(a) - f + 1 = j
    <3>1. PICK k \in Nat : k = Len(a) /\ k = n + 1
      BY <1>2, <1>5
    <3> QED
      BY <1>2, <1>10, <1>11, <3>1
  <2> QED
    BY <2>2, <2>3 DEF IsRest
<1>13. q \in Seq(S) /\ Len(q) = j /\ \A i \in 1..j : q[i] = b[g + i - 1]
  <2>1. Len(b) >= 1 /\ g = IF Len(b) > LogCapacity THEN Len(b) - LogCapacity + 1 ELSE 1
    BY <1>0, <1>2, <1>6, <1>8
  <2>2. IsRest(q, b, g, S)
    BY <1>6, <1>9, <2>1, LastOf
  <2>3. Len(b) - g + 1 = j
    <3>1. PICK k \in Nat : k = Len(b) /\ k = n - d + 1
      BY <1>2, <1>6
    <3> QED
      BY <1>2, <1>10, <1>11, <3>1
  <2> QED
    BY <2>2, <2>3 DEF IsRest
<1>14. ASSUME NEW i \in 1..j PROVE p[i] = q[i]
  <2>1. g + i - 1 \in 1..(n - d + 1) /\ d + (g + i - 1) = f + i - 1
    BY <1>2, <1>10, <1>11
  <2>2. a[f + i - 1] = b[g + i - 1]
    BY <1>7, <2>1
  <2> QED
    BY <1>12, <1>13, <2>2
<1>15. Len(p) = Len(q) /\ \A i \in 1..Len(p) : p[i] = q[i]
  BY <1>12, <1>13, <1>14
<1>16. p = q
  BY <1>12, <1>13, <1>15, SeqEqual
<1> QED
  BY <1>9, <1>16 DEF a, b, l

(* Whatever happens to the aggregator, its answers are the end of the log. *)
LEMMA LogNext ==
  ASSUME Aggregator!CapacityFits, LogInv, [Aggregator!Next]_Aggregator!vars
  PROVE  LogInv'
<1>0. Aggregator!Entries' = Aggregator!Entries
  BY DEF Aggregator!Entries
<1>1. ASSUME UNCHANGED <<buffer, writePointer, count, accepted>>
      PROVE  LogInv'
  <2>1. RingInv' /\ Aggregator!GetAll' = Aggregator!GetAll
    BY <1>1 DEF LogInv, RingInv, Aggregator!GetAll, Aggregator!Start, Aggregator!Entries
  <2> QED
    BY <1>0, <1>1, <2>1 DEF LogInv, EndOfLog, Aggregator!Ring!Last
<1>2. ASSUME NEW CONSTANT line \in Aggregator!Lines, Aggregator!IngestLogString(line)
      PROVE  LogInv'
  <2>1. CASE Aggregator!ParseLogLine(line)
    <3>1. line \in Aggregator!Entries
      BY <2>1 DEF Aggregator!Lines, Aggregator!Entries, Aggregator!ParseLogLine
    <3>2. Aggregator!Push(line) /\ accepted' = Append(accepted, line) /\ accepted \in Seq(Aggregator!Entries)
      BY <1>2, <2>1 DEF Aggregator!IngestLogString, LogInv
    <3>3. RingInv' /\ Aggregator!GetAll' = Aggregator!Ring!Last(Append(Aggregator!GetAll, line))
      BY <3>1, <3>2, PushAccepts DEF LogInv, Aggregator!Ring!Accept
    <3>4. Aggregator!GetAll = Aggregator!Ring!Last(accepted)
      BY DEF LogInv, EndOfLog
    <3>5. Aggregator!Ring!Last(Append(Aggregator!Ring!Last(accepted), line))
            = Aggregator!Ring!Last(Append(accepted, line))
      BY <3>1, <3>2, LastOfLonger
    <3>6. accepted' \in Seq(Aggregator!Entries)
      BY <3>1, <3>2
    <3>7. Aggregator!Ring!Last(Append(accepted, line)) = Aggregator!Ring!Last(accepted)'
      BY <3>2 DEF Aggregator!Ring!Last
    <3> QED
      BY <1>0, <3>3, <3>4, <3>5, <3>6, <3>7 DEF LogInv, EndOfLog
  <2>2. CASE ~Aggregator!ParseLogLine(line)
    BY <1>1, <1>2, <2>2 DEF Aggregator!IngestLogString, Aggregator!ringVars
  <2> QED
    BY <2>1, <2>2
<1>3. ASSUME NEW CONSTANT s \in Sockets, Aggregator!StartServer(s) \/ Aggregator!Bind(s)
      PROVE  UNCHANGED <<buffer, writePointer, count, accepted>>
  BY <1>3 DEF Aggregator!StartServer, Aggregator!Bind, Aggregator!ringVars
<1>4. ASSUME Aggregator!Stop PROVE UNCHANGED <<buffer, writePointer, count, accepted>>
  BY <1>4 DEF Aggregator!Stop, Aggregator!ringVars
<1>5. ASSUME NEW CONSTANT s \in Sockets, NEW CONSTANT line \in Aggregator!Lines,
             Aggregator!Receive(s, line)
      PROVE  Aggregator!IngestLogString(line)
  BY <1>5 DEF Aggregator!Receive
<1>6. ASSUME UNCHANGED Aggregator!vars PROVE UNCHANGED <<buffer, writePointer, count, accepted>>
  BY <1>6 DEF Aggregator!vars, Aggregator!ringVars
<1> QED
  BY <1>1, <1>2, <1>3, <1>4, <1>5, <1>6 DEF Aggregator!Next

(* Filters one after the other find what satisfies them all.               *)
LEMMA QueriesExact ==
  ASSUME Aggregator!CapacityFits, LogInv
  PROVE  Aggregator!QueryExact
<1> SUFFICES ASSUME NEW severity \in Aggregator!Optional(Severities),
                    NEW from \in Aggregator!Optional(Timestamps),
                    NEW to \in Aggregator!Optional(Timestamps)
             PROVE  Aggregator!QueryLogs(severity, from, to) = Aggregator!Found(severity, from, to)
  BY DEF Aggregator!QueryExact
<1> DEFINE E == Aggregator!Entries
           A == {l \in E : \A s \in severity : l.severity = s}
           B == {l \in E : \A t \in from : l.timestamp >= t}
           C == {l \in E : \A t \in to : l.timestamp <= t}
           D == {l \in E : /\ severity # {} => l.severity \in severity
                           /\ \A t \in from : t <= l.timestamp
                           /\ \A t \in to : l.timestamp <= t}
<1>1. PICK log : log = Aggregator!GetAll
  OBVIOUS
<1>2. log \in Seq(E)
  <2>1. Cells
    BY GetAllCells DEF LogInv
  <2> QED
    BY <1>1, <2>1 DEF Cells
<1>3. \A s, T : Aggregator!Kept(s, T) = Kept(s, T)
  BY DEF Aggregator!Kept, Kept
<1>4. Aggregator!QueryLogs(severity, from, to) = Kept(Kept(Kept(log, A), B), C)
  <2>1. Aggregator!QueryLogs(severity, from, to)
          = Aggregator!Kept(Aggregator!Kept(Aggregator!Kept(log, A), B), C)
    BY <1>1, Zenon DEF Aggregator!QueryLogs, Aggregator!NotBefore
  <2> QED
    BY <1>3, <2>1, Zenon
<1>5. Aggregator!Found(severity, from, to) = Kept(log, D)
  <2>1. Aggregator!Found(severity, from, to) = Aggregator!Kept(Aggregator!Ring!Last(accepted), D)
    BY Zenon DEF Aggregator!Found
  <2>2. Aggregator!Ring!Last(accepted) = log
    BY <1>1 DEF LogInv, EndOfLog
  <2> QED
    BY <1>3, <2>1, <2>2, Zenon
<1>6. (A \cap B) \cap C = D
  <2>1. severity = {} \/ \E x : severity = {x}
    BY DEF Aggregator!Optional
  <2>2. \A l \in E : (\A s \in severity : l.severity = s) <=> (severity # {} => l.severity \in severity)
    BY <2>1
  <2>3. \A l \in E : \A t \in from : l.timestamp >= t <=> t <= l.timestamp
    OBVIOUS
  <2> HIDE DEF E
  <2> QED
    BY <2>2, <2>3
<1> HIDE DEF A, B, C, D, E
<1>7. Kept(Kept(log, A), B) = Kept(log, A \cap B)
  BY <1>2, KeptTwice
<1>8. Kept(Kept(log, A \cap B), C) = Kept(log, (A \cap B) \cap C)
  BY <1>2, KeptTwice
<1> QED
  BY <1>4, <1>5, <1>6, <1>7, <1>8, Zenon

(* The sockets of the aggregator.                                          *)
SocketInv ==
  /\ udpSocket \subseteq Sockets
  /\ socket \in [Sockets -> {"none", "binding", "bound", "failed", "closed"}]
  /\ Aggregator!OpenOnlyOnRecord

(* No socket is open that the aggregator has no record of, unless a start  *)
(* replaced one.                                                           *)
LEMMA SocketNext ==
  ASSUME SocketInv, [Aggregator!Next]_Aggregator!vars
  PROVE  SocketInv'
<1> USE DEF SocketInv, Aggregator!OpenOnlyOnRecord
<1>1. ASSUME UNCHANGED <<udpSocket, socket, replaced>> PROVE SocketInv'
  BY <1>1
<1>2. ASSUME NEW CONSTANT s \in Sockets, Aggregator!StartServer(s) PROVE SocketInv'
  BY <1>2 DEF Aggregator!StartServer
<1>3. ASSUME NEW CONSTANT s \in Sockets, Aggregator!Bind(s) PROVE SocketInv'
  BY <1>3 DEF Aggregator!Bind
<1>4. ASSUME Aggregator!Stop PROVE SocketInv'
  <2>1. /\ socket' = [s \in Sockets |-> IF s \in udpSocket THEN "closed" ELSE socket[s]]
        /\ udpSocket' = {} /\ replaced' = replaced
    BY <1>4 DEF Aggregator!Stop, Aggregator!Closing
  <2> QED
    BY <2>1
<1>5. ASSUME NEW CONSTANT line \in Aggregator!Lines, Aggregator!IngestLogString(line) PROVE SocketInv'
  BY <1>1, <1>5 DEF Aggregator!IngestLogString, Aggregator!socketVars
<1>6. ASSUME NEW CONSTANT s \in Sockets, NEW CONSTANT line \in Aggregator!Lines,
             Aggregator!Receive(s, line)
      PROVE  SocketInv'
  BY <1>5, <1>6 DEF Aggregator!Receive
<1>7. ASSUME UNCHANGED Aggregator!vars PROVE SocketInv'
  BY <1>1, <1>7 DEF Aggregator!vars, Aggregator!socketVars
<1> QED
  BY <1>2, <1>3, <1>4, <1>5, <1>6, <1>7 DEF Aggregator!Next

(* The aggregator at its start.                                            *)
LEMMA LogInit ==
  ASSUME Aggregator!CapacityFits, Aggregator!Init
  PROVE  LogInv /\ SocketInv
<1>1. /\ buffer = <<>> /\ writePointer = 0 /\ count = 0 /\ udpSocket = {} /\ accepted = <<>>
      /\ socket = [s \in Sockets |-> "none"]
  BY DEF Aggregator!Init
<1>2. RingInv
  BY <1>1 DEF RingInv, Aggregator!CapacityFits
<1>3. EndOfLog
  <2>1. Aggregator!GetAll = <<>>
    BY <1>1 DEF Aggregator!GetAll
  <2>2. Aggregator!Ring!Last(accepted) = <<>>
    BY <1>1 DEF Aggregator!Ring!Last, Aggregator!CapacityFits
  <2> QED
    BY <2>1, <2>2 DEF EndOfLog
<1>4. SocketInv
  BY <1>1 DEF SocketInv, Aggregator!OpenOnlyOnRecord
<1>5. accepted \in Seq(Aggregator!Entries)
  BY <1>1
<1> QED
  BY <1>2, <1>3, <1>4, <1>5 DEF LogInv

(* What the invariants of the aggregator say of it.                        *)
LEMMA LogConsistent ==
  ASSUME Aggregator!CapacityFits, LogInv, SocketInv
  PROVE  Aggregator!TypeOK /\ Aggregator!QueryExact /\ Aggregator!OpenOnlyOnRecord
<1>1. Aggregator!TypeOK
  BY DEF LogInv, RingInv, SocketInv, Aggregator!TypeOK
<1> QED
  BY <1>1, QueriesExact DEF SocketInv

(* A sequence has as many elements as places, if none is there twice.      *)
LEMMA ElementsCounted ==
  ASSUME NEW S, NEW s \in Seq(S)
  PROVE  /\ IsFiniteSet(Elements(s))
         /\ Distinct(s) => Len(s) = Cardinality(Elements(s))
<1>1. /\ Len(s) \in Nat /\ DOMAIN s = 1..Len(s) /\ IsFiniteSet(1..Len(s)) /\ Cardinality(1..Len(s)) = Len(s)
      /\ s = [i \in 1..Len(s) |-> s[i]]
  <2>1. Len(s) \in Nat /\ DOMAIN s = 1..Len(s) /\ s = [i \in 1..Len(s) |-> s[i]]
    OBVIOUS
  <2>2. IsFiniteSet(1..Len(s)) /\ Cardinality(1..Len(s)) = IF 1 > Len(s) THEN 0 ELSE Len(s) - 1 + 1
    <3>1. 1 \in Int /\ Len(s) \in Int
      BY <2>1
    <3> QED
      BY <3>1, FS_Interval
  <2> QED
    BY <2>1, <2>2
<1>2. s \in Surjection(1..Len(s), Elements(s))
  BY <1>1 DEF Elements, Surjection
<1>3. Distinct(s) => s \in Injection(1..Len(s), Elements(s))
  BY <1>1, <1>2 DEF Distinct, Injection, Surjection, IsInjective
<1>4. /\ IsFiniteSet(Elements(s))
      /\ Cardinality(Elements(s)) = Cardinality(1..Len(s)) <=> s \in Injection(1..Len(s), Elements(s))
  BY <1>1, <1>2, FS_Surjection
<1> QED
  BY <1>1, <1>3, <1>4

(* Only elements are ordered.                                              *)
LEMMA OrderOfElements ==
  ASSUME NEW S, NEW s \in Seq(S)
  PROVE  Order(s) \subseteq Elements(s) \X Elements(s)
BY DEF Order, Elements

(* Without its first, which was before all others, a sequence of distinct  *)
(* elements has the others in the same order.                              *)
LEMMA WithoutFirst ==
  ASSUME NEW S, NEW s \in Seq(S), s # <<>>, Distinct(s)
  PROVE  /\ Head(s) \in Elements(s) /\ Tail(s) \in Seq(S)
         /\ Elements(Tail(s)) = Elements(s) \ {Head(s)}
         /\ Order(Tail(s)) = Order(s) \cap (Elements(Tail(s)) \X Elements(Tail(s)))
         /\ \A y \in Elements(Tail(s)) : <<Head(s), y>> \in Order(s)
         /\ Distinct(Tail(s))
<1> DEFINE h == Head(s)
           r == Tail(s)
<1>1. PICK n : n = Len(s)
  OBVIOUS
<1>2. /\ n \in Nat \ {0} /\ DOMAIN s = 1..n /\ DOMAIN r = 1..(n - 1) /\ Len(r) = n - 1 /\ r \in Seq(S)
      /\ h = s[1] /\ \A i \in 1..(n - 1) : r[i] = s[i + 1]
  BY <1>1
<1>3. \A i, j \in 1..n : s[i] = s[j] => i = j
  BY <1>1 DEF Distinct
<1> HIDE DEF h, r
<1>4. ASSUME NEW i \in 1..(n - 1) PROVE i + 1 \in 1..n /\ i + 1 # 1 /\ 1 \in 1..n
  <2>1. n \in Nat \ {0}
    BY <1>2
  <2> QED
    BY <2>1
<1>5. ASSUME NEW i \in 1..n, i # 1 PROVE i - 1 \in 1..(n - 1) /\ (i - 1) + 1 = i
  <2>1. n \in Nat \ {0}
    BY <1>2
  <2> QED
    BY <1>5, <2>1
<1>6. h \in Elements(s)
  BY <1>2 DEF Elements
<1>7. Elements(r) = Elements(s) \ {h}
  <2>1. ASSUME NEW y \in Elements(r) PROVE y \in Elements(s) \ {h}
    <3>1. PICK i \in 1..(n - 1) : y = r[i]
      BY <1>2 DEF Elements
    <3>2. i + 1 \in 1..n /\ i + 1 # 1 /\ 1 \in 1..n
      BY <1>4
    <3>3. y = s[i + 1] /\ y # s[1]
      BY <1>2, <1>3, <3>1, <3>2
    <3> QED
      BY <1>2, <3>2, <3>3 DEF Elements
  <2>2. ASSUME NEW y \in Elements(s), y # h PROVE y \in Elements(r)
    <3>1. PICK i \in 1..n : y = s[i]
      BY <1>2 DEF Elements
    <3>2. i # 1
      BY <1>2, <2>2, <3>1
    <3>3. i - 1 \in DOMAIN r /\ r[i - 1] = s[i]
      BY <1>2, <1>5, <3>2
    <3> QED
      BY <3>1, <3>3 DEF Elements
  <2> QED
    BY <2>1, <2>2
<1>8. ASSUME NEW i \in 1..n, NEW j \in 1..n, i < j PROVE <<s[i], s[j]>> \in Order(s)
  <2>1. <<i, j>> \in {q \in (1..Len(s)) \X (1..Len(s)) : q[1] < q[2]}
    BY <1>1, <1>8
  <2> QED
    BY <2>1 DEF Order
<1>9. ASSUME NEW i \in 1..(n - 1), NEW j \in 1..(n - 1), i < j PROVE <<r[i], r[j]>> \in Order(r)
  <2>1. <<i, j>> \in {q \in (1..Len(r)) \X (1..Len(r)) : q[1] < q[2]}
    BY <1>2, <1>9
  <2> QED
    BY <2>1 DEF Order
<1>10. Order(r) = Order(s) \cap (Elements(r) \X Elements(r))
  <2>1. ASSUME NEW z \in Order(r) PROVE z \in Order(s) \cap (Elements(r) \X Elements(r))
    <3>1. PICK i, j \in 1..(n - 1) : i < j /\ z = <<r[i], r[j]>>
      BY <1>2 DEF Order
    <3>2. i + 1 \in 1..n /\ j + 1 \in 1..n /\ i + 1 < j + 1
      BY <1>2, <3>1
    <3>3. z = <<s[i + 1], s[j + 1]>>
      BY <1>2, <3>1
    <3>4. r[i] \in Elements(r) /\ r[j] \in Elements(r)
      BY <1>2 DEF Elements
    <3> QED
      BY <1>8, <3>1, <3>2, <3>3, <3>4
  <2>2. ASSUME NEW z \in Order(s), z \in Elements(r) \X Elements(r) PROVE z \in Order(r)
    <3>1. PICK i, j \in 1..n : i < j /\ z = <<s[i], s[j]>>
      BY <1>1 DEF Order
    <3>2. s[i] # h /\ s[j] # h
      BY <1>7, <2>2, <3>1
    <3>3. i # 1 /\ j # 1
      BY <1>2, <3>2
    <3>4. i - 1 \in 1..(n - 1) /\ j - 1 \in 1..(n - 1) /\ i - 1 < j - 1 /\ r[i - 1] = s[i] /\ r[j - 1] = s[j]
      <4>1. i - 1 \in 1..(n - 1) /\ j - 1 \in 1..(n - 1) /\ (i - 1) + 1 = i /\ (j - 1) + 1 = j
        BY <1>5, <3>3
      <4> QED
        BY <1>2, <3>1, <4>1
    <3> QED
      BY <1>9, <3>1, <3>4
  <2> QED
    BY <2>1, <2>2
<1>11. ASSUME NEW y \in Elements(r) PROVE <<h, y>> \in Order(s)
  <2>1. PICK i \in 1..(n - 1) : y = r[i]
    BY <1>2 DEF Elements
  <2>2. y = s[i + 1] /\ h = s[1] /\ 1 < i + 1
    BY <1>2, <2>1
  <2> QED
    BY <1>4, <1>8, <2>2
<1>12. Distinct(r)
  <2> SUFFICES ASSUME NEW i \in 1..(n - 1), NEW j \in 1..(n - 1), r[i] = r[j] PROVE i = j
    BY <1>2 DEF Distinct
  <2>1. i + 1 = j + 1
    BY <1>2, <1>3, <1>4
  <2> QED
    BY <2>1
<1> QED
  BY <1>2, <1>6, <1>7, <1>10, <1>11, <1>12 DEF h, r

-----------------------------------------------------------------------------
(* The cache: the map, and the list of its keys in the order of their use. *)
CacheEntries == [value : Values, expiresAt : SUBSET Int]
Unevicted == IF unlisted THEN {EmptyKey} ELSE {}
ListInv(map, list) ==
  /\ list \in Seq(Keys) /\ Distinct(list)
  /\ Elements(list) \subseteq DOMAIN map /\ DOMAIN map \subseteq Keys
  /\ map \in [DOMAIN map -> CacheEntries]
LruInv ==
  /\ now \in Int /\ answer \subseteq Values /\ unlisted \in BOOLEAN
  /\ ListInv(cache, lruList)
  /\ DOMAIN cache \ Elements(lruList) \subseteq Unevicted
  /\ unlisted \/ Cardinality(DOMAIN cache) <= CacheCapacity

(* Taking a key off the list, and putting it at the end.                   *)
LEMMA TakenOff ==
  ASSUME NEW s, s \in Seq(Keys), NEW k \in Keys
  PROVE  \E u : /\ u = Kept(s, Keys \ {k}) /\ u \in Seq(Keys)
                /\ Elements(u) = Elements(s) \ {k}
                /\ Order(u) = {p \in Order(s) : p[1] # k /\ p[2] # k}
                /\ Distinct(s) => Distinct(u)
<1> DEFINE u == Kept(s, Keys \ {k})
<1>1. u \in Seq(Keys \cap (Keys \ {k})) /\ Selected(u, s, Keys \ {k})
  BY KeptType, KeptSelects
<1>2. Elements(s) \subseteq Keys /\ Order(s) \subseteq Elements(s) \X Elements(s)
  BY OrderOfElements DEF Elements
<1> HIDE DEF u
<1>3. u \in Seq(Keys)
  BY <1>1
<1>4. Elements(u) = Elements(s) \ {k}
  BY <1>1, <1>2 DEF Selected
<1>5. Order(u) = {p \in Order(s) : p[1] # k /\ p[2] # k}
  <2>1. Order(u) = Order(s) \cap ((Keys \ {k}) \X (Keys \ {k})) /\ Order(s) \subseteq Keys \X Keys
    BY <1>1, <1>2 DEF Selected
  <2> QED
    BY <2>1
<1>6. Distinct(s) => Distinct(u)
  BY <1>1 DEF Selected
<1> QED
  BY <1>3, <1>4, <1>5, <1>6 DEF u

(* A key taken off the list and put at its end.                            *)
LEMMA MovedToEnd ==
  ASSUME NEW s, s \in Seq(Keys), NEW k \in Keys
  PROVE  LET e == Append(Kept(s, Keys \ {k}), k) IN
         /\ e \in Seq(Keys)
         /\ Elements(e) = (Elements(s) \ {k}) \cup {k}
         /\ Order(e) = {p \in Order(s) : p[1] # k /\ p[2] # k} \cup {<<j, k>> : j \in Elements(s) \ {k}}
         /\ Distinct(s) => Distinct(e)
<1>1. PICK u : /\ u = Kept(s, Keys \ {k}) /\ u \in Seq(Keys)
               /\ Elements(u) = Elements(s) \ {k}
               /\ Order(u) = {p \in Order(s) : p[1] # k /\ p[2] # k}
               /\ Distinct(s) => Distinct(u)
  BY TakenOff
<1>2. /\ Elements(Append(u, k)) = Elements(u) \cup {k}
      /\ Order(Append(u, k)) = Order(u) \cup {<<y, k>> : y \in Elements(u)}
      /\ Distinct(Append(u, k)) <=> Distinct(u) /\ k \notin Elements(u)
  <2>1. u \in Seq(Keys)
    BY <1>1
  <2> QED
    BY <2>1, OneMore
<1>3. Append(u, k) \in Seq(Keys)
  BY <1>1
<1> QED
  BY <1>1, <1>2, <1>3

(* A cardinality is the same in every module.                              *)
LEMMA CardinalitySame ==
  \A S : LRU!Cardinality(S) = Cardinality(S) /\ LRU!Abstract!Cardinality(S) = Cardinality(S)
BY DEF LRU!Cardinality, LRU!Abstract!Cardinality, Cardinality

(* The map's keys are finitely many.                                       *)
LEMMA CacheFinite ==
  ASSUME LruInv
  PROVE  /\ IsFiniteSet(DOMAIN cache) /\ Cardinality(DOMAIN cache) \in Nat
         /\ ~unlisted => DOMAIN cache = Elements(lruList)
<1>1. IsFiniteSet(Elements(lruList)) /\ DOMAIN cache \ Elements(lruList) \subseteq {EmptyKey}
  BY ElementsCounted DEF LruInv, ListInv, Unevicted
<1>2. IsFiniteSet(Elements(lruList) \cup {EmptyKey})
  BY <1>1, FS_AddElement
<1>3. IsFiniteSet(DOMAIN cache)
  BY <1>1, <1>2, FS_Subset
<1> QED
  BY <1>3, FS_CardinalityType DEF LruInv, ListInv, Unevicted

(* Deleting a key.                                                         *)
LEMMA CacheDrop ==
  ASSUME CacheCapacity \in Nat, LruInv, NEW CONSTANT k \in Keys, LRU!DropKey(k),
         UNCHANGED <<now, unlisted>>, answer' \subseteq Values
  PROVE  /\ LruInv'
         /\ ~unlisted => cache' = LRU!Abstract!Without(k) /\ LRU!InOrder' = LRU!Abstract!Forget(k)
<1>1. PICK u : /\ u = Kept(lruList, Keys \ {k}) /\ u \in Seq(Keys)
               /\ Elements(u) = Elements(lruList) \ {k}
               /\ Order(u) = {p \in Order(lruList) : p[1] # k /\ p[2] # k}
               /\ Distinct(lruList) => Distinct(u)
  BY TakenOff DEF LruInv, ListInv
<1>2. LRU!Unlisted(k) = u
  BY <1>1 DEF LRU!Unlisted, LRU!Kept, Kept
<1>3. /\ cache' = [j \in DOMAIN cache \ {k} |-> cache[j]]
      /\ lruList' = IF k \in DOMAIN cache THEN u ELSE lruList
  BY <1>2 DEF LRU!DropKey
<1>4. Order(lruList) \subseteq Elements(lruList) \X Elements(lruList)
  BY OrderOfElements DEF LruInv, ListInv
<1>5. /\ lruList' \in Seq(Keys) /\ Distinct(lruList')
      /\ Elements(lruList') = Elements(lruList) \ {k}
      /\ Order(lruList') = {p \in Order(lruList) : p[1] # k /\ p[2] # k}
  <2>1. CASE k \in DOMAIN cache
    BY <1>1, <1>3, <2>1 DEF LruInv, ListInv
  <2>2. CASE k \notin DOMAIN cache
    <3>1. k \notin Elements(lruList)
      BY <2>2 DEF LruInv, ListInv
    <3>2. Order(lruList) = {p \in Order(lruList) : p[1] # k /\ p[2] # k}
      BY <1>4, <3>1
    <3> QED
      BY <1>3, <2>2, <3>1, <3>2 DEF LruInv, ListInv
  <2> QED
    BY <2>1, <2>2
<1>6. DOMAIN cache' = DOMAIN cache \ {k} /\ cache' \in [DOMAIN cache \ {k} -> CacheEntries]
  BY <1>3 DEF LruInv, ListInv
<1>7. unlisted \/ Cardinality(DOMAIN cache') <= CacheCapacity
  <2>1. IsFiniteSet(DOMAIN cache) /\ DOMAIN cache' \in SUBSET (DOMAIN cache)
    BY <1>6, CacheFinite
  <2>2. Cardinality(DOMAIN cache') <= Cardinality(DOMAIN cache) /\ Cardinality(DOMAIN cache') \in Nat
    BY <2>1, FS_Subset, FS_CardinalityType
  <2> QED
    BY <2>1, <2>2, CacheFinite DEF LruInv
<1>8. LruInv'
  BY <1>5, <1>6, <1>7 DEF LruInv, ListInv, Unevicted
<1>9. cache' = LRU!Abstract!Without(k)
  BY <1>3 DEF LRU!Abstract!Without
<1>10. LRU!InOrder' = LRU!Abstract!Forget(k)
  BY <1>5 DEF LRU!InOrder, Order, LRU!Abstract!Forget
<1> QED
  BY <1>8, <1>9, <1>10

(* A key becomes the latest, whose entry may be new.                       *)
LEMMA CacheUse ==
  ASSUME LruInv, NEW CONSTANT k \in Keys, k \in DOMAIN cache, lruList' = LRU!ToTheEnd(k),
         DOMAIN cache' = DOMAIN cache, cache' \in [DOMAIN cache -> CacheEntries],
         UNCHANGED <<now, unlisted>>, answer' \subseteq Values
  PROVE  /\ LruInv'
         /\ ~unlisted => LRU!InOrder' = LRU!Abstract!Latest(k, DOMAIN cache \ {k})
<1> DEFINE e == Append(Kept(lruList, Keys \ {k}), k)
<1>1. /\ e \in Seq(Keys)
      /\ Elements(e) = (Elements(lruList) \ {k}) \cup {k}
      /\ Order(e) = {p \in Order(lruList) : p[1] # k /\ p[2] # k}
                      \cup {<<j, k>> : j \in Elements(lruList) \ {k}}
      /\ Distinct(lruList) => Distinct(e)
  BY MovedToEnd DEF LruInv, ListInv
<1>2. lruList' = e
  BY DEF LRU!ToTheEnd, LRU!Unlisted, LRU!Kept, Kept
<1> HIDE DEF e
<1>3. LruInv'
  BY <1>1, <1>2 DEF LruInv, ListInv, Unevicted
<1>4. Order(lruList) \subseteq Elements(lruList) \X Elements(lruList)
  BY OrderOfElements DEF LruInv, ListInv
<1>5. ASSUME ~unlisted PROVE LRU!InOrder' = LRU!Abstract!Latest(k, DOMAIN cache \ {k})
  <2>1. DOMAIN cache = Elements(lruList)
    BY <1>5, CacheFinite
  <2>2. Order(e) = {p \in Order(lruList) : p[1] \in DOMAIN cache \ {k} /\ p[2] \in DOMAIN cache \ {k}}
                     \cup {<<j, k>> : j \in DOMAIN cache \ {k}}
    BY <1>1, <1>4, <2>1
  <2>3. LRU!InOrder = Order(lruList) /\ LRU!InOrder' = Order(e)
    BY <1>2 DEF LRU!InOrder, Order
  <2> QED
    BY <2>2, <2>3, Zenon DEF LRU!Abstract!Latest
<1> QED
  BY <1>3, <1>5

(* What set puts into the map is an entry.                                 *)
LEMMA ExpiryFits ==
  ASSUME LRU!ConstantsFit, LruInv, NEW CONSTANT ttl \in LRU!TTLArguments
  PROVE  LRU!ExpiresAt(ttl) \in SUBSET Int
<1>1. TTLs \subseteq Int /\ now \in Int
  BY DEF LRU!ConstantsFit, LruInv
<1>2. ttl = {} \/ \E s \in TTLs : ttl = {s}
  BY DEF LRU!TTLArguments, LRU!NoTime
<1>3. ttl \subseteq Int
  BY <1>1, <1>2
<1> QED
  BY <1>1, <1>3 DEF LRU!ExpiresAt

(* A new key, with room for it or not.                                     *)
LEMMA CacheInsert ==
  ASSUME CacheCapacity \in Nat \ {0}, LruInv, NEW CONSTANT k \in Keys, k \notin DOMAIN cache,
         NEW CONSTANT v \in Values, NEW CONSTANT ttl \in LRU!TTLArguments, LRU!ConstantsFit,
         LRU!Set(k, v, ttl)
  PROVE  /\ LruInv'
         /\ unlisted' \/ LRU!Abstract!Next
<1> DEFINE entry == [value |-> v, expiresAt |-> LRU!ExpiresAt(ttl)]
           evicts == LRU!Full /\ lruList # <<>>
           gone == IF evicts THEN {Head(lruList)} \ {EmptyKey} ELSE {}
           left == IF evicts THEN Tail(lruList) ELSE lruList
           rest == DOMAIN cache \ gone
<1>0. LRU!Full <=> Cardinality(DOMAIN cache) >= CacheCapacity
  BY CardinalitySame, Zenon DEF LRU!Full
<1>1. /\ cache' = [j \in rest \cup {k} |-> IF j = k THEN entry ELSE cache[j]]
      /\ lruList' = Append(left, k)
      /\ unlisted' = (unlisted \/ (evicts /\ Head(lruList) = EmptyKey))
      /\ UNCHANGED <<now, answer>>
  BY DEF LRU!Set
<1>2. entry \in CacheEntries
  <2>1. LRU!ExpiresAt(ttl) \in SUBSET Int
    BY ExpiryFits
  <2> QED
    BY <2>1 DEF CacheEntries
<1> HIDE DEF entry
<1>3. lruList \in Seq(Keys) /\ Distinct(lruList) /\ Elements(lruList) \subseteq DOMAIN cache
  BY DEF LruInv, ListInv
<1>4. /\ left \in Seq(Keys) /\ Distinct(left)
      /\ Elements(left) = IF evicts THEN Elements(lruList) \ {Head(lruList)} ELSE Elements(lruList)
      /\ Order(left) = {p \in Order(lruList) : p[1] \in Elements(left) /\ p[2] \in Elements(left)}
      /\ evicts => /\ Head(lruList) \in Elements(lruList)
                   /\ \A y \in Elements(left) : <<Head(lruList), y>> \in Order(lruList)
  <2>1. CASE evicts
    <3>1. lruList # <<>> /\ left = Tail(lruList)
      BY <2>1
    <3>2. /\ Head(lruList) \in Elements(lruList) /\ Tail(lruList) \in Seq(Keys)
          /\ Elements(Tail(lruList)) = Elements(lruList) \ {Head(lruList)}
          /\ Order(Tail(lruList)) = Order(lruList) \cap (Elements(Tail(lruList)) \X Elements(Tail(lruList)))
          /\ \A y \in Elements(Tail(lruList)) : <<Head(lruList), y>> \in Order(lruList)
          /\ Distinct(Tail(lruList))
      BY <1>3, <3>1, WithoutFirst
    <3>3. Order(lruList) \subseteq Elements(lruList) \X Elements(lruList)
      BY <1>3, OrderOfElements
    <3> HIDE DEF left
    <3> QED
      BY <2>1, <3>1, <3>2, <3>3
  <2>2. CASE ~evicts
    <3>1. left = lruList
      BY <2>2
    <3>2. Order(lruList) \subseteq Elements(lruList) \X Elements(lruList)
      BY <1>3, OrderOfElements
    <3> HIDE DEF left
    <3> QED
      BY <1>3, <2>2, <3>1, <3>2
  <2> QED
    BY <2>1, <2>2
<1> HIDE DEF left
<1>5. /\ lruList' \in Seq(Keys) /\ Elements(lruList') = Elements(left) \cup {k}
      /\ Order(lruList') = Order(left) \cup {<<y, k>> : y \in Elements(left)}
      /\ Distinct(lruList')
  <2>1. k \notin Elements(left)
    BY <1>3, <1>4
  <2>2. /\ Elements(Append(left, k)) = Elements(left) \cup {k}
        /\ Order(Append(left, k)) = Order(left) \cup {<<y, k>> : y \in Elements(left)}
        /\ Distinct(Append(left, k)) <=> Distinct(left) /\ k \notin Elements(left)
    BY <1>4, OneMore
  <2>3. Append(left, k) \in Seq(Keys)
    BY <1>4
  <2> QED
    BY <1>1, <1>4, <2>1, <2>2, <2>3
<1>6. DOMAIN cache' = rest \cup {k} /\ cache' \in [rest \cup {k} -> CacheEntries]
  <2>1. \A j \in rest \cup {k} : (IF j = k THEN entry ELSE cache[j]) \in CacheEntries
    BY <1>2 DEF LruInv, ListInv
  <2> HIDE DEF rest
  <2> QED
    BY <1>1, <2>1
<1>7. Elements(left) \subseteq rest /\ rest \subseteq Keys
  BY <1>3, <1>4 DEF LruInv, ListInv
<1>8. rest \ Elements(left) \subseteq IF unlisted' THEN {EmptyKey} ELSE {}
  BY <1>1, <1>3, <1>4 DEF LruInv, Unevicted
<1>9. unlisted' \/ Cardinality(DOMAIN cache') <= CacheCapacity
  <2> SUFFICES ASSUME ~unlisted' PROVE Cardinality(DOMAIN cache') <= CacheCapacity
    OBVIOUS
  <2>1. /\ IsFiniteSet(DOMAIN cache) /\ Cardinality(DOMAIN cache) \in Nat
        /\ Cardinality(DOMAIN cache) <= CacheCapacity /\ DOMAIN cache = Elements(lruList)
    BY <1>1, CacheFinite DEF LruInv
  <2>2. CASE LRU!Full
    <3>1. lruList # <<>>
      <4>1. DOMAIN cache # {}
        BY <1>0, <2>1, <2>2, FS_EmptySet
      <4> QED
        BY <2>1, <4>1 DEF Elements
    <3>2. rest = DOMAIN cache \ {Head(lruList)} /\ Head(lruList) \in DOMAIN cache
      BY <1>1, <1>4, <2>1, <2>2, <3>1
    <3>3. IsFiniteSet(rest) /\ Cardinality(rest) = Cardinality(DOMAIN cache) - 1
      BY ZenonT(60), <2>1, <3>2, FS_RemoveElement
    <3>4. k \notin rest
      OBVIOUS
    <3> HIDE DEF rest
    <3>5. Cardinality(rest \cup {k}) = Cardinality(rest) + 1
      BY <3>3, <3>4, FS_AddElement
    <3> QED
      BY <1>6, <2>1, <3>3, <3>5
  <2>3. CASE ~LRU!Full
    <3>1. rest = DOMAIN cache
      BY <2>3
    <3>2. Cardinality(rest \cup {k}) = Cardinality(DOMAIN cache) + 1
      <4> HIDE DEF rest
      <4> QED
        BY <2>1, <3>1, FS_AddElement
    <3> QED
      BY <1>0, <1>6, <2>1, <2>3, <3>2
  <2> QED
    BY <2>2, <2>3
<1>10. LruInv'
  <2>1. unlisted' \in BOOLEAN /\ now' \in Int /\ answer' \subseteq Values
    BY <1>1 DEF LruInv
  <2>2. ListInv(cache, lruList)'
    <3> HIDE DEF rest
    <3> QED
      BY <1>5, <1>6, <1>7 DEF ListInv
  <2>3. DOMAIN cache' \ Elements(lruList') \subseteq Unevicted'
    <3> HIDE DEF rest
    <3> QED
      BY <1>5, <1>6, <1>8 DEF Unevicted
  <2> QED
    BY <1>9, <2>1, <2>2, <2>3 DEF LruInv
<1>11. ASSUME ~unlisted' PROVE LRU!Abstract!Next
  <2>1. /\ DOMAIN cache = Elements(lruList)
        /\ Elements(left) = rest
    BY <1>1, <1>4, <1>11, CacheFinite
  <2>2. LRU!InOrder = Order(lruList) /\ LRU!InOrder' = Order(lruList')
    BY DEF LRU!InOrder, Order
  <2>3. LRU!InOrder' = LRU!Abstract!Latest(k, rest)
    <3>1. LRU!InOrder' = {p \in LRU!InOrder : p[1] \in rest /\ p[2] \in rest} \cup {<<y, k>> : y \in rest}
      BY <1>4, <1>5, <2>1, <2>2, Zenon
    <3> QED
      BY <3>1, Zenon DEF LRU!Abstract!Latest
  <2>4. /\ rest = DOMAIN cache \ (gone \cup {k})
        /\ gone \in SUBSET (DOMAIN cache \ {k})
    BY <1>4, <2>1
  <2>5. k \in DOMAIN cache' /\ cache'[k] = entry
    <3> HIDE DEF rest
    <3> QED
      BY <1>1
  <2>6. cache' = LRU!Abstract!With([j \in rest |-> cache[j]], k, cache'[k])
    <3>1. LRU!Abstract!With([j \in rest |-> cache[j]], k, cache'[k])
            = [j \in rest \cup {k} |-> IF j = k THEN entry ELSE cache[j]]
      <4> HIDE DEF rest
      <4> QED
        BY <2>5 DEF LRU!Abstract!With
    <3> QED
      BY <1>1, <3>1
  <2>7. IF k \in DOMAIN cache \/ Cardinality(DOMAIN cache) < CacheCapacity
        THEN gone = {}
        ELSE \E j \in DOMAIN cache :
               /\ gone = {j}
               /\ \A i \in DOMAIN cache \ {j} : <<j, i>> \in LRU!InOrder
    <3>1. Cardinality(DOMAIN cache) \in Nat /\ IsFiniteSet(DOMAIN cache)
      BY CacheFinite
    <3>2. CASE Cardinality(DOMAIN cache) < CacheCapacity
      BY <1>0, <3>1, <3>2
    <3>3. CASE ~(Cardinality(DOMAIN cache) < CacheCapacity)
      <4>1. LRU!Full
        BY <1>0, <3>1, <3>3
      <4>2. DOMAIN cache # {}
        BY <3>1, <3>3, FS_EmptySet
      <4>3. lruList # <<>>
        BY <2>1, <4>2 DEF Elements
      <4>4. gone = {Head(lruList)}
        BY <1>1, <1>11, <4>1, <4>3
      <4>5. Head(lruList) \in DOMAIN cache /\ rest = DOMAIN cache \ {Head(lruList)}
        BY <1>4, <2>1, <4>1, <4>3, <4>4
      <4>6. \A i \in DOMAIN cache \ {Head(lruList)} : <<Head(lruList), i>> \in LRU!InOrder
        BY <1>4, <2>1, <2>2, <4>1, <4>3, <4>5
      <4> QED
        BY <3>3, <4>4, <4>5, <4>6
    <3> QED
      BY <3>2, <3>3
  <2> HIDE DEF rest, gone
  <2>8. LRU!Abstract!Write(k, cache'[k])
    BY <1>1, <2>3, <2>4, <2>6, <2>7, CardinalitySame, Zenon DEF LRU!Abstract!Write
  <2> QED
    BY <2>5, <2>8 DEF LRU!Abstract!Next
<1> QED
  BY <1>10, <1>11

(* A live entry is one that has not expired.                               *)
LEMMA LiveOrExpired ==
  ASSUME LruInv, NEW k \in DOMAIN cache
  PROVE  LRU!Abstract!Live(k) <=> ~LRU!Expired(k)
<1>1. now \in Int /\ cache[k].expiresAt \subseteq Int
  BY DEF LruInv, ListInv, CacheEntries
<1>2. \A t \in cache[k].expiresAt : now <= t <=> ~(now > t)
  BY <1>1
<1> QED
  BY <1>2, Zenon DEF LRU!Abstract!Live, LRU!Expired

(* get: a key that is there and live moves to the end of the list, an      *)
(* expired one leaves.                                                     *)
LEMMA CacheGet ==
  ASSUME LRU!ConstantsFit, LruInv, NEW CONSTANT k \in Keys, LRU!Get(k)
  PROVE  LruInv' /\ (unlisted' \/ LRU!Abstract!Next)
<1>0. CacheCapacity \in Nat
  BY DEF LRU!ConstantsFit
<1>1. UNCHANGED <<now, unlisted>>
  BY DEF LRU!Get
<1>2. cache \in [DOMAIN cache -> CacheEntries] /\ answer \subseteq Values
  BY DEF LruInv, ListInv
<1>3. LRU!Abstract!Read(k) => LRU!Abstract!Next
  BY DEF LRU!Abstract!Next
<1>4. CASE k \notin DOMAIN cache
  <2>1. answer' = {} /\ UNCHANGED <<cache, lruList>>
    BY <1>4 DEF LRU!Get
  <2>2. LRU!DropKey(k)
    <3>1. cache = [j \in DOMAIN cache \ {k} |-> cache[j]]
      BY <1>2, <1>4
    <3> QED
      BY <1>4, <2>1, <3>1 DEF LRU!DropKey
  <2>3. LruInv' /\ (~unlisted => cache' = LRU!Abstract!Without(k) /\ LRU!InOrder' = LRU!Abstract!Forget(k))
    BY <1>0, <1>1, <2>1, <2>2, CacheDrop
  <2>4. ~LRU!Abstract!Live(k)
    BY <1>4 DEF LRU!Abstract!Live
  <2>5. ~unlisted => LRU!Abstract!Read(k)
    BY <1>1, <2>1, <2>3, <2>4, Zenon DEF LRU!Abstract!Read
  <2> QED
    BY <1>1, <1>3, <2>3, <2>5
<1>5. CASE k \in DOMAIN cache /\ LRU!Expired(k)
  <2>1. answer' = {} /\ LRU!DropKey(k)
    BY <1>5 DEF LRU!Get
  <2>2. LruInv' /\ (~unlisted => cache' = LRU!Abstract!Without(k) /\ LRU!InOrder' = LRU!Abstract!Forget(k))
    BY <1>0, <1>1, <2>1, CacheDrop
  <2>3. ~LRU!Abstract!Live(k)
    BY <1>5, LiveOrExpired
  <2>4. ~unlisted => LRU!Abstract!Read(k)
    BY <1>1, <2>1, <2>2, <2>3, Zenon DEF LRU!Abstract!Read
  <2> QED
    BY <1>1, <1>3, <2>2, <2>4
<1>6. CASE k \in DOMAIN cache /\ ~LRU!Expired(k)
  <2>1. answer' = {cache[k].value} /\ lruList' = LRU!ToTheEnd(k) /\ UNCHANGED cache
    BY <1>6 DEF LRU!Get
  <2>2. answer' \subseteq Values
    BY <1>2, <1>6, <2>1 DEF CacheEntries
  <2>3. LruInv' /\ (~unlisted => LRU!InOrder' = LRU!Abstract!Latest(k, DOMAIN cache \ {k}))
    BY <1>1, <1>2, <1>6, <2>1, <2>2, CacheUse
  <2>4. LRU!Abstract!Live(k)
    BY <1>6, LiveOrExpired
  <2>5. ~unlisted => LRU!Abstract!Read(k)
    BY <1>1, <2>1, <2>3, <2>4, Zenon DEF LRU!Abstract!Read
  <2> QED
    BY <1>1, <1>3, <2>3, <2>5
<1> QED
  BY <1>4, <1>5, <1>6

(* delete: the key leaves the map and the list.                            *)
LEMMA CacheDelete ==
  ASSUME LRU!ConstantsFit, LruInv, NEW CONSTANT k \in Keys, LRU!DropKey(k),
         UNCHANGED <<now, answer, unlisted>>
  PROVE  LruInv' /\ (unlisted' \/ LRU!Abstract!Next)
<1>1. CacheCapacity \in Nat /\ answer' \subseteq Values
  BY DEF LRU!ConstantsFit, LruInv
<1>2. LruInv' /\ (~unlisted => cache' = LRU!Abstract!Without(k) /\ LRU!InOrder' = LRU!Abstract!Forget(k))
  BY <1>1, CacheDrop
<1>3. ~unlisted => LRU!Abstract!Remove(k)
  BY <1>2, Zenon DEF LRU!Abstract!Remove
<1> QED
  BY <1>2, <1>3 DEF LRU!Abstract!Next

(* set: the key is put at the end, after the first of the list has left a  *)
(* full cache.                                                             *)
LEMMA CacheSet ==
  ASSUME LRU!ConstantsFit, LruInv, NEW CONSTANT k \in Keys, NEW CONSTANT v \in Values,
         NEW CONSTANT ttl \in LRU!TTLArguments, LRU!Set(k, v, ttl)
  PROVE  LruInv' /\ (unlisted' \/ LRU!Abstract!Next)
<1>0. CacheCapacity \in Nat \ {0}
  BY DEF LRU!ConstantsFit
<1>1. CASE k \notin DOMAIN cache
  BY <1>0, <1>1, CacheInsert
<1>2. CASE k \in DOMAIN cache
  <2> DEFINE entry == [value |-> v, expiresAt |-> LRU!ExpiresAt(ttl)]
  <2>1. /\ cache' = [j \in (DOMAIN cache \ {}) \cup {k} |-> IF j = k THEN entry ELSE cache[j]]
        /\ lruList' = LRU!ToTheEnd(k) /\ unlisted' = unlisted /\ UNCHANGED <<now, answer>>
    BY <1>2 DEF LRU!Set, LruInv
  <2>2. entry \in CacheEntries
    <3>1. LRU!ExpiresAt(ttl) \in SUBSET Int
      BY ExpiryFits
    <3> QED
      BY <3>1 DEF CacheEntries
  <2> HIDE DEF entry
  <2>3. cache' = [j \in DOMAIN cache |-> IF j = k THEN entry ELSE cache[j]]
    <3>1. (DOMAIN cache \ {}) \cup {k} = DOMAIN cache
      BY <1>2
    <3> QED
      BY <2>1, <3>1, Zenon
  <2>4. DOMAIN cache' = DOMAIN cache /\ cache' \in [DOMAIN cache -> CacheEntries] /\ answer' \subseteq Values
    <3>1. \A j \in DOMAIN cache : (IF j = k THEN entry ELSE cache[j]) \in CacheEntries
      BY <2>2 DEF LruInv, ListInv
    <3> QED
      BY <2>1, <2>3, <3>1 DEF LruInv
  <2>5. LruInv' /\ (~unlisted => LRU!InOrder' = LRU!Abstract!Latest(k, DOMAIN cache \ {k}))
    BY <1>2, <2>1, <2>4, CacheUse
  <2>6. ASSUME ~unlisted PROVE LRU!Abstract!Next
    <3>1. k \in DOMAIN cache' /\ cache'[k] = entry
      BY <1>2, <2>3
    <3>2. DOMAIN cache \ ({} \cup {k}) = DOMAIN cache \ {k} /\ {} \in SUBSET (DOMAIN cache \ {k})
      OBVIOUS
    <3>3. cache' = LRU!Abstract!With([j \in DOMAIN cache \ {k} |-> cache[j]], k, cache'[k])
      <4>1. LRU!Abstract!With([j \in DOMAIN cache \ {k} |-> cache[j]], k, cache'[k])
              = [j \in DOMAIN cache |-> IF j = k THEN entry ELSE cache[j]]
        BY <1>2, <3>1 DEF LRU!Abstract!With
      <4> QED
        BY <2>3, <4>1
    <3>4. LRU!Abstract!Write(k, cache'[k])
      BY <1>2, <2>1, <2>5, <2>6, <3>2, <3>3, Zenon DEF LRU!Abstract!Write
    <3> QED
      BY <3>1, <3>4 DEF LRU!Abstract!Next
  <2> QED
    BY <2>1, <2>5, <2>6
<1> QED
  BY <1>1, <1>2

(* expire: the entry has another time to expire, its place in the list     *)
(* stays.                                                                  *)
LEMMA CacheExpire ==
  ASSUME LRU!ConstantsFit, LruInv, NEW CONSTANT k \in Keys, NEW CONSTANT s \in TTLs, LRU!Expire(k, s)
  PROVE  LruInv' /\ (unlisted' \/ LRU!Abstract!Next)
<1>0. k \in DOMAIN cache /\ UNCHANGED <<now, answer, unlisted>>
  BY DEF LRU!Expire
<1>1. CASE LRU!Expired(k)
  <2>1. LRU!DropKey(k)
    BY <1>1 DEF LRU!Expire
  <2> QED
    BY <1>0, <2>1, CacheDelete
<1>2. CASE ~LRU!Expired(k)
  <2>1. cache' = [cache EXCEPT ![k].expiresAt = {now + s}] /\ UNCHANGED lruList
    <3>1. LRU!ExpiresAt({s}) = {now + s}
      BY DEF LRU!ExpiresAt
    <3> QED
      BY <1>2, <3>1 DEF LRU!Expire
  <2>2. cache \in [DOMAIN cache -> CacheEntries] /\ now + s \in Int
    BY DEF LruInv, ListInv, LRU!ConstantsFit
  <2>3. DOMAIN cache' = DOMAIN cache /\ cache'[k].expiresAt = {now + s} /\ cache' \in [DOMAIN cache -> CacheEntries]
    BY <1>0, <2>1, <2>2 DEF CacheEntries
  <2>4. LruInv'
    BY <1>0, <2>1, <2>3 DEF LruInv, ListInv, Unevicted
  <2>5. LRU!Abstract!Live(k)
    BY <1>0, <1>2, LiveOrExpired
  <2>6. LRU!Abstract!Touch(k, now + s)
    <3>1. UNCHANGED LRU!InOrder
      BY <2>1 DEF LRU!InOrder
    <3> QED
      BY <1>0, <2>1, <2>5, <3>1, Zenon DEF LRU!Abstract!Touch
  <2>7. k \in DOMAIN cache' /\ now + s \in cache'[k].expiresAt
    BY <1>0, <2>3
  <2> QED
    BY <2>4, <2>6, <2>7 DEF LRU!Abstract!Next
<1> QED
  BY <1>1, <1>2

(* Every step of the cache keeps its invariant, and is one of the abstract *)
(* cache until an eviction met the empty string.                           *)
LEMMA CacheNext ==
  ASSUME LRU!ConstantsFit, LruInv, [LRU!Next]_LRU!vars
  PROVE  LruInv' /\ [unlisted' \/ LRU!Abstract!Next]_LRU!vars
<1>1. ASSUME NEW CONSTANT k \in Keys, LRU!Get(k) PROVE LruInv' /\ (unlisted' \/ LRU!Abstract!Next)
  BY <1>1, CacheGet
<1>2. ASSUME NEW CONSTANT k \in Keys, LRU!Delete(k) PROVE LruInv' /\ (unlisted' \/ LRU!Abstract!Next)
  <2>1. LRU!DropKey(k) /\ UNCHANGED <<now, answer, unlisted>>
    BY <1>2 DEF LRU!Delete
  <2> QED
    BY <2>1, CacheDelete
<1>3. ASSUME NEW CONSTANT k \in Keys, NEW CONSTANT v \in Values, NEW CONSTANT ttl \in LRU!TTLArguments,
             LRU!Set(k, v, ttl)
      PROVE  LruInv' /\ (unlisted' \/ LRU!Abstract!Next)
  BY <1>3, CacheSet
<1>4. ASSUME NEW CONSTANT k \in Keys, NEW CONSTANT s \in TTLs, LRU!Expire(k, s)
      PROVE  LruInv' /\ (unlisted' \/ LRU!Abstract!Next)
  BY <1>4, CacheExpire
<1>5. ASSUME LRU!Tick PROVE LruInv' /\ (unlisted' \/ LRU!Abstract!Next)
  <2>1. now' = now + 1 /\ UNCHANGED <<cache, lruList, answer, unlisted>>
    BY <1>5 DEF LRU!Tick
  <2>2. now' \in Int /\ now' > now
    BY <2>1 DEF LruInv
  <2>3. LruInv'
    BY <2>1, <2>2 DEF LruInv, ListInv, Unevicted
  <2>4. LRU!Abstract!Pass
    BY <2>1, <2>2 DEF LRU!Abstract!Pass, LRU!InOrder
  <2> QED
    BY <2>3, <2>4 DEF LRU!Abstract!Next
<1>6. ASSUME UNCHANGED LRU!vars PROVE LruInv'
  BY <1>6 DEF LRU!vars, LruInv, ListInv, Unevicted
<1> QED
  BY <1>1, <1>2, <1>3, <1>4, <1>5, <1>6 DEF LRU!Next

(* What the invariant of the cache says of it.                             *)
LEMMA CacheConsistent ==
  ASSUME LruInv
  PROVE  LRU!TypeOK /\ LRU!ListMatchesMap /\ LRU!WithinCapacity
<1>1. LRU!Listed = Elements(lruList)
  BY DEF LRU!Listed, Elements
<1>2. LRU!ListMatchesMap
  <2>1. Len(lruList) = LRU!Cardinality(LRU!Listed)
    BY <1>1, ElementsCounted, CardinalitySame DEF LruInv, ListInv
  <2> QED
    BY <1>1, <2>1 DEF LruInv, ListInv, Unevicted, LRU!ListMatchesMap
<1>3. LRU!WithinCapacity
  BY CardinalitySame DEF LruInv, LRU!WithinCapacity
<1>4. LRU!TypeOK
  BY DEF LruInv, ListInv, CacheEntries, LRU!TypeOK
<1> QED
  BY <1>2, <1>3, <1>4

(* An empty cache is an empty abstract one.                                *)
LEMMA CacheInit ==
  ASSUME LRU!ConstantsFit, LRU!Init
  PROVE  LruInv /\ LRU!Abstract!Init
<1>0. cache = [k \in {} |-> 0]
  BY DEF LRU!Init
<1>1. lruList = <<>> /\ now = 0 /\ answer = {} /\ unlisted = FALSE
  BY DEF LRU!Init
<1>2. Elements(<<>>) = {} /\ Order(<<>>) = {} /\ Distinct(<<>>) /\ <<>> \in Seq(Keys)
  BY DEF Elements, Order, Distinct
<1>3. DOMAIN cache = {} /\ cache \in [{} -> CacheEntries]
  BY <1>0
<1>4. Cardinality({}) <= CacheCapacity
  BY FS_EmptySet DEF LRU!ConstantsFit
<1>5. LruInv
  <2>0. unlisted \in BOOLEAN
    BY <1>1, Zenon
  <2>1. lruList = <<>> /\ now \in Int /\ answer \subseteq Values
    BY <1>1
  <2>2. ListInv(cache, lruList)
    BY <1>2, <1>3, <2>1 DEF ListInv
  <2>3. DOMAIN cache \ Elements(lruList) \subseteq Unevicted /\ Cardinality(DOMAIN cache) <= CacheCapacity
    BY <1>3, <1>4
  <2> QED
    BY <2>0, <2>1, <2>2, <2>3 DEF LruInv
<1>6. LRU!InOrder = {}
  BY <1>1, <1>2 DEF LRU!InOrder, Order
<1> QED
  BY <1>0, <1>1, <1>5, <1>6 DEF LRU!Abstract!Init

(* For every capacity, every set of keys and values and all expiry times,  *)
(* until an eviction meets the empty string the cache is an abstract one:  *)
(* the key that leaves is the least recently used, expire is not a use, no *)
(* expired value is answered.                                              *)
THEOREM CacheIsLRU == InMemorySpec => IsLRU
<1>1. InMemoryInit => LruInv /\ LRU!Abstract!Init
  BY CacheAssumption, CacheInit DEF InMemoryInit
<1>2. [InMemoryNext]_allVars => [LRU!Next]_LRU!vars
  BY DEF InMemoryNext, allVars, cacheVars, LRU!vars
<1>3. LruInv /\ [LRU!Next]_LRU!vars => LruInv' /\ [unlisted' \/ LRU!Abstract!Next]_LRU!vars
  BY CacheNext, CacheAssumption
<1> QED
  BY <1>1, <1>2, <1>3, PTL DEF InMemorySpec, IsLRU, LRU!IsLRU

-----------------------------------------------------------------------------
(* The rate limiters.  How many of the times of a sequence lie between two *)
(* moments, and how far back the latest is.                                *)
Within(s, f, t) == {i \in DOMAIN s : s[i] \in f..t}
Between(s, f, t) == Cardinality(Within(s, f, t))
Past(s, t) == s \in Seq(Nat) /\ \A i \in DOMAIN s : s[i] <= t

(* This is what the limiters let through.                                  *)
LEMMA ThroughIsBetween ==
  \A s, f, t : Limiters!Through(s, f, t) = Between(s, f, t)
BY DEF Limiters!Through, Between, Within, Limiters!Cardinality, Cardinality

(* They are finitely many, none of nothing, and no fewer in a longer span. *)
LEMMA BetweenNat ==
  ASSUME NEW S, NEW s \in Seq(S), NEW f, NEW t
  PROVE  IsFiniteSet(Within(s, f, t)) /\ Between(s, f, t) \in Nat
<1>1. PICK n \in Nat : DOMAIN s = 1..n
  OBVIOUS
<1>2. IsFiniteSet(1..n)
  <2>1. 1 \in Int /\ n \in Int
    OBVIOUS
  <2> QED
    BY <2>1, FS_Interval
<1>3. IsFiniteSet(Within(s, f, t))
  BY <1>1, <1>2, FS_Subset DEF Within
<1> QED
  BY <1>3, FS_CardinalityType DEF Between

(* None, if none of the times is in the span.                              *)
LEMMA BetweenNothing ==
  ASSUME NEW S, NEW s \in Seq(S), NEW f, NEW t, \A i \in DOMAIN s : s[i] \notin f..t
  PROVE  Between(s, f, t) = 0
<1>1. Within(s, f, t) = {}
  BY DEF Within
<1> QED
  BY <1>1, FS_EmptySet DEF Between

(* No fewer in a span that has all of those.                               *)
LEMMA BetweenMore ==
  ASSUME NEW S, NEW s \in Seq(S), NEW f, NEW t, NEW g, NEW u,
         \A i \in DOMAIN s : s[i] \in f..t => s[i] \in g..u
  PROVE  Between(s, f, t) <= Between(s, g, u)
<1>1. Within(s, f, t) \subseteq Within(s, g, u)
  BY DEF Within
<1>2. IsFiniteSet(Within(s, g, u))
  BY BetweenNat
<1> QED
  BY <1>1, <1>2, FS_Subset DEF Between

(* As many in a span that has the same.                                    *)
LEMMA BetweenSame ==
  ASSUME NEW s, NEW f, NEW t, NEW g, NEW u,
         \A i \in DOMAIN s : s[i] \in f..t <=> s[i] \in g..u
  PROVE  Between(s, f, t) = Between(s, g, u)
<1>1. Within(s, f, t) = Within(s, g, u)
  BY DEF Within
<1> QED
  BY <1>1, Zenon DEF Between

(* Those of two spans that cover a third.                                  *)
LEMMA BetweenSplit ==
  ASSUME NEW S, NEW s \in Seq(S), NEW f, NEW t, NEW g, NEW u, NEW h, NEW v,
         \A i \in DOMAIN s : s[i] \in f..t => s[i] \in g..u \/ s[i] \in h..v
  PROVE  Between(s, f, t) <= Between(s, g, u) + Between(s, h, v)
<1> DEFINE A == Within(s, f, t)
           B == Within(s, g, u)
           C == Within(s, h, v)
<1>1. A \subseteq B \cup C
  BY DEF Within
<1>2. /\ IsFiniteSet(B) /\ IsFiniteSet(C) /\ IsFiniteSet(A)
      /\ Cardinality(A) \in Nat /\ Cardinality(B) \in Nat /\ Cardinality(C) \in Nat
  BY BetweenNat DEF Between
<1> HIDE DEF A, B, C
<1>3. IsFiniteSet(B \cup C) /\ Cardinality(B \cup C) = Cardinality(B) + Cardinality(C) - Cardinality(B \cap C)
  BY <1>2, FS_Union
<1>4. Cardinality(B \cap C) \in Nat
  BY <1>2, FS_Intersection, FS_CardinalityType
<1>5. Cardinality(A) <= Cardinality(B \cup C)
  BY <1>1, <1>3, FS_Subset
<1>6. Cardinality(A) <= Cardinality(B) + Cardinality(C)
  BY <1>2, <1>3, <1>4, <1>5
<1> QED
  BY <1>6 DEF A, B, C, Between

(* One more.                                                               *)
LEMMA BetweenAppend ==
  ASSUME NEW S, NEW s \in Seq(S), NEW x \in S, NEW f, NEW t
  PROVE  Between(Append(s, x), f, t) = Between(s, f, t) + (IF x \in f..t THEN 1 ELSE 0)
<1> DEFINE a == Append(s, x)
<1>1. PICK n \in Nat : n = Len(s) /\ DOMAIN s = 1..n
  OBVIOUS
<1>2. DOMAIN a = 1..(n + 1) /\ a[n + 1] = x /\ \A i \in 1..n : a[i] = s[i]
  BY <1>1
<1> HIDE DEF a
<1>3. IsFiniteSet(Within(s, f, t)) /\ Between(s, f, t) \in Nat
  BY BetweenNat
<1>4. n + 1 \notin Within(s, f, t)
  BY <1>1 DEF Within
<1>5. CASE x \in f..t
  <2>1. Within(a, f, t) = Within(s, f, t) \cup {n + 1}
    <3>1. ASSUME NEW i \in 1..(n + 1) PROVE i \in 1..n \/ i = n + 1
      OBVIOUS
    <3>2. n + 1 \in 1..(n + 1) /\ \A i \in 1..n : i \in 1..(n + 1)
      OBVIOUS
    <3> QED
      BY <1>1, <1>2, <1>5, <3>1, <3>2 DEF Within
  <2>2. Cardinality(Within(s, f, t) \cup {n + 1}) = Cardinality(Within(s, f, t)) + 1
    BY <1>3, <1>4, FS_AddElement
  <2> QED
    BY <1>5, <2>1, <2>2 DEF Between, a
<1>6. CASE x \notin f..t
  <2>1. Within(a, f, t) = Within(s, f, t)
    <3>1. ASSUME NEW i \in 1..(n + 1) PROVE i \in 1..n \/ i = n + 1
      OBVIOUS
    <3>2. n + 1 \in 1..(n + 1) /\ \A i \in 1..n : i \in 1..(n + 1)
      OBVIOUS
    <3> QED
      BY <1>1, <1>2, <1>6, <3>1, <3>2 DEF Within
  <2> QED
    BY <1>3, <1>6, <2>1 DEF Between, a
<1> QED
  BY <1>5, <1>6

(* All of them.                                                            *)
LEMMA BetweenAll ==
  ASSUME NEW S, NEW s \in Seq(S), NEW f, NEW t, \A i \in DOMAIN s : s[i] \in f..t
  PROVE  Between(s, f, t) = Len(s)
<1>1. PICK n \in Nat : n = Len(s) /\ DOMAIN s = 1..n
  OBVIOUS
<1>2. Within(s, f, t) = 1..n
  BY <1>1 DEF Within
<1>3. Cardinality(1..n) = n
  <2>1. 1 \in Int /\ n \in Int
    OBVIOUS
  <2>2. Cardinality(1..n) = IF 1 > n THEN 0 ELSE n - 1 + 1
    BY <2>1, FS_Interval
  <2> QED
    BY <2>2
<1> QED
  BY <1>1, <1>2, <1>3 DEF Between

(* A filter that keeps what lies between two moments leaves their number.  *)
LEMMA BetweenKept ==
  ASSUME NEW T, NEW f, NEW t, f..t \subseteq T
  PROVE  \A s \in Seq(Int) : Between(Kept(s, T), f, t) = Between(s, f, t)
<1> DEFINE P == {s \in Seq(Int) : Between(Kept(s, T), f, t) = Between(s, f, t)}
<1>1. <<>> \in P
  BY KeptNothing
<1>2. ASSUME NEW s \in Seq(Int), s \in P, NEW x \in Int PROVE Append(s, x) \in P
  <2> DEFINE k == Kept(s, T)
  <2>1. Kept(Append(s, x), T) = IF x \in T THEN Append(k, x) ELSE k
    BY KeptAppend
  <2>2. k \in Seq(Int) /\ Between(k, f, t) = Between(s, f, t) /\ Append(s, x) \in Seq(Int)
    <3>1. k \in Seq(Int \cap T)
      BY KeptType
    <3> QED
      BY <1>2, <3>1
  <2> HIDE DEF k
  <2>3. /\ Between(Append(s, x), f, t) = Between(s, f, t) + (IF x \in f..t THEN 1 ELSE 0)
        /\ Between(Append(k, x), f, t) = Between(k, f, t) + (IF x \in f..t THEN 1 ELSE 0)
    BY <2>2, BetweenAppend
  <2>4. Between(s, f, t) \in Nat
    BY BetweenNat
  <2>5. CASE x \in T
    BY <2>1, <2>2, <2>3, <2>5
  <2>6. CASE x \notin T
    <3>1. x \notin f..t
      BY <2>6
    <3> QED
      BY <2>1, <2>2, <2>3, <2>4, <2>6, <3>1
  <2> QED
    BY <2>5, <2>6
<1> HIDE DEF P
<1>3. \A s \in Seq(Int) : s \in P
  BY <1>1, <1>2, SequenceInduction
<1> QED
  BY <1>3 DEF P

(* A request let through now, and the passing of time.                     *)
LEMMA PastNow ==
  ASSUME NEW t \in Nat, NEW s, Past(s, t)
  PROVE  /\ Past(Append(s, t), t) /\ Past(s, t + 1) /\ s \in Seq(Nat)
         /\ \A f, u : /\ Between(s, f, u) \in Nat
                      /\ Between(Append(s, t), f, u) = Between(s, f, u) + (IF t \in f..u THEN 1 ELSE 0)
<1>1. s \in Seq(Nat) /\ \A i \in DOMAIN s : s[i] \in Nat /\ s[i] <= t
  BY DEF Past
<1>2. Past(s, t + 1)
  BY <1>1 DEF Past
<1>3. Past(Append(s, t), t)
  <2>1. Append(s, t) \in Seq(Nat)
    BY <1>1
  <2>2. ASSUME NEW i \in DOMAIN Append(s, t) PROVE Append(s, t)[i] <= t
    <3>1. i \in 1..(Len(s) + 1) /\ Len(s) \in Nat /\ DOMAIN s = 1..Len(s)
      BY <1>1
    <3>2. Append(s, t)[Len(s) + 1] = t /\ \A j \in 1..Len(s) : Append(s, t)[j] = s[j]
      BY <1>1
    <3>3. i = Len(s) + 1 \/ i \in 1..Len(s)
      BY <3>1
    <3> QED
      BY <1>1, <3>1, <3>2, <3>3
  <2> QED
    BY <2>1, <2>2 DEF Past
<1>4. ASSUME NEW f, NEW u
      PROVE  /\ Between(s, f, u) \in Nat
             /\ Between(Append(s, t), f, u) = Between(s, f, u) + (IF t \in f..u THEN 1 ELSE 0)
  BY <1>1, BetweenNat, BetweenAppend
<1> QED
  BY <1>1, <1>2, <1>3, <1>4

(* Nothing was let through later than now.                                 *)
LEMMA NothingLater ==
  ASSUME NEW t \in Nat, NEW s, Past(s, t), NEW f \in Int, NEW u
  PROVE  /\ f > t => Between(s, f, u) = 0
         /\ u \in Int /\ u >= t => Between(s, f, u) = Between(s, f, t)
         /\ Between(s, f, u) \in Nat
<1>1. s \in Seq(Nat) /\ \A i \in DOMAIN s : s[i] \in Nat /\ s[i] <= t
  BY DEF Past
<1>2. ASSUME f > t PROVE Between(s, f, u) = 0
  <2>1. \A i \in DOMAIN s : s[i] \notin f..u
    BY <1>1, <1>2
  <2> QED
    BY <1>1, <2>1, BetweenNothing
<1>3. ASSUME u \in Int, u >= t PROVE Between(s, f, u) = Between(s, f, t)
  <2>1. \A i \in DOMAIN s : s[i] \in f..u <=> s[i] \in f..t
    BY <1>1, <1>3
  <2> QED
    BY <2>1, BetweenSame
<1> QED
  BY <1>1, <1>2, <1>3, BetweenNat

-----------------------------------------------------------------------------
(* The token bucket: what a span cost, in parts of a token.                *)
Cost(s, f, u) == refillEvery * Between(s, f, u)
FullBucket == capacity * refillEvery
TokenSizes == capacity \in Nat /\ refillEvery \in Nat \ {0}
TokenOK(a, s, t) ==
  /\ a \in 0..FullBucket
  /\ \A f \in 0..t : Cost(s, f, t) + a <= FullBucket + (t - f)
  /\ \A f, u \in Nat : f <= u /\ u <= t => Cost(s, f, u) <= FullBucket + (u - f)
  /\ \E f \in 0..t : Cost(s, f, t) + a >= FullBucket + (t - f)

(* What the requests have cost, now and with one more.                     *)
LEMMA CostNow ==
  ASSUME TokenSizes, NEW t \in Nat, NEW s, Past(s, t)
  PROVE  /\ FullBucket \in Nat
         /\ \A f, u : /\ Cost(s, f, u) \in Nat
                      /\ Cost(Append(s, t), f, u) = Cost(s, f, u) + (IF t \in f..u THEN refillEvery ELSE 0)
         /\ \A f \in Nat : f > t => \A u : Cost(s, f, u) = 0
         /\ \A f, u \in Nat : u >= t => Cost(s, f, u) = Cost(s, f, t)
<1>1. FullBucket \in Nat /\ refillEvery \in Nat
  BY DEF FullBucket, TokenSizes
<1>2. ASSUME NEW f, NEW u
      PROVE  /\ Cost(s, f, u) \in Nat
             /\ Cost(Append(s, t), f, u) = Cost(s, f, u) + (IF t \in f..u THEN refillEvery ELSE 0)
  <2>1. PICK b \in Nat : b = Between(s, f, u)
    BY PastNow
  <2>2. Between(Append(s, t), f, u) = b + (IF t \in f..u THEN 1 ELSE 0)
    BY <2>1, PastNow
  <2>3. refillEvery * b \in Nat /\ refillEvery * (b + 1) = refillEvery * b + refillEvery
        /\ refillEvery * (b + 0) = refillEvery * b
    BY <1>1
  <2>4. CASE t \in f..u
    BY <2>1, <2>2, <2>3, <2>4 DEF Cost
  <2>5. CASE t \notin f..u
    BY <2>1, <2>2, <2>3, <2>5 DEF Cost
  <2> QED
    BY <2>4, <2>5
<1>3. refillEvery * 0 = 0
  BY <1>1
<1>4. ASSUME NEW f \in Nat, f > t, NEW u PROVE Cost(s, f, u) = 0
  <2>1. Between(s, f, u) = 0
    BY <1>4, NothingLater
  <2> QED
    BY <1>3, <2>1 DEF Cost
<1>5. ASSUME NEW f \in Nat, NEW u \in Nat, u >= t PROVE Cost(s, f, u) = Cost(s, f, t)
  <2>1. Between(s, f, u) = Between(s, f, t)
    BY <1>5, NothingLater
  <2> QED
    BY <2>1 DEF Cost
<1> QED
  BY <1>1, <1>2, <1>4, <1>5

(* A client that never asked has a full bucket.                            *)
LEMMA TokenNew ==
  ASSUME TokenSizes, NEW t \in Nat
  PROVE  TokenOK(FullBucket, <<>>, t) /\ Past(<<>>, t)
<1>1. Past(<<>>, t)
  BY DEF Past
<1>2. FullBucket \in Nat /\ \A f, u : Cost(<<>>, f, u) = 0
  <2>1. \A f, u : Between(<<>>, f, u) = 0
    <3> SUFFICES ASSUME NEW f, NEW u PROVE Between(<<>>, f, u) = 0
      OBVIOUS
    <3>1. <<>> \in Seq(Nat) /\ \A i \in DOMAIN <<>> : <<>>[i] \notin f..u
      OBVIOUS
    <3> QED
      BY <3>1, BetweenNothing
  <2> QED
    BY <2>1 DEF Cost, FullBucket, TokenSizes
<1>3. \A f \in 0..t : t - f >= 0
  OBVIOUS
<1>4. t \in 0..t /\ t - t = 0
  OBVIOUS
<1> QED
  BY <1>1, <1>2, <1>3, <1>4 DEF TokenOK

(* A moment later.                                                         *)
LEMMA TokenPass ==
  ASSUME TokenSizes, NEW t \in Nat, NEW s, Past(s, t), NEW a, TokenOK(a, s, t),
         NEW b, b = IF FullBucket < a + 1 THEN FullBucket ELSE a + 1
  PROVE  TokenOK(b, s, t + 1)
<1>1. /\ FullBucket \in Nat
      /\ \A f, u : Cost(s, f, u) \in Nat
      /\ \A f \in Nat : f > t => \A u : Cost(s, f, u) = 0
      /\ \A f, u \in Nat : u >= t => Cost(s, f, u) = Cost(s, f, t)
  BY CostNow
<1>2. a \in 0..FullBucket /\ b \in 0..FullBucket /\ b <= a + 1 /\ (b = a + 1 \/ b = FullBucket)
  BY <1>1 DEF TokenOK
<1>3. ASSUME NEW f \in 0..(t + 1) PROVE Cost(s, f, t + 1) + b <= FullBucket + (t + 1 - f)
  <2>1. CASE f = t + 1
    <3>1. Cost(s, f, t + 1) = 0
      BY <1>1, <2>1
    <3> QED
      BY <1>1, <1>2, <2>1, <3>1
  <2>2. CASE f # t + 1
    <3>1. f \in 0..t /\ Cost(s, f, t + 1) = Cost(s, f, t)
      BY <1>1, <2>2
    <3>2. Cost(s, f, t) + a <= FullBucket + (t - f)
      BY <3>1 DEF TokenOK
    <3> QED
      BY <1>1, <1>2, <3>1, <3>2
  <2> QED
    BY <2>1, <2>2
<1>4. ASSUME NEW f \in Nat, NEW u \in Nat, f <= u, u <= t + 1
      PROVE  Cost(s, f, u) <= FullBucket + (u - f)
  <2>1. CASE u <= t
    BY <1>4, <2>1 DEF TokenOK
  <2>2. CASE ~(u <= t)
    <3>1. u = t + 1 /\ f \in 0..(t + 1)
      BY <1>4, <2>2
    <3>2. Cost(s, f, t + 1) + b <= FullBucket + (t + 1 - f) /\ Cost(s, f, t + 1) \in Nat
      BY <1>1, <1>3, <3>1
    <3> QED
      BY <1>1, <1>2, <3>1, <3>2
  <2> QED
    BY <2>1, <2>2
<1>5. \E f \in 0..(t + 1) : Cost(s, f, t + 1) + b >= FullBucket + (t + 1 - f)
  <2>1. CASE b = FullBucket
    <3>1. t + 1 \in Nat /\ t + 1 > t /\ t + 1 \in 0..(t + 1)
      OBVIOUS
    <3>2. Cost(s, t + 1, t + 1) = 0
      BY <1>1, <3>1
    <3> QED
      BY <1>1, <2>1, <3>1, <3>2
  <2>2. CASE b = a + 1
    <3>1. PICK f \in 0..t : Cost(s, f, t) + a >= FullBucket + (t - f)
      BY DEF TokenOK
    <3>2. Cost(s, f, t + 1) = Cost(s, f, t) /\ Cost(s, f, t) \in Nat /\ f \in 0..(t + 1)
      BY <1>1
    <3>3. Cost(s, f, t + 1) + b >= FullBucket + (t + 1 - f)
      BY <1>1, <1>2, <2>2, <3>1, <3>2
    <3> QED
      BY <3>2, <3>3
  <2> QED
    BY <1>2, <2>1, <2>2
<1> QED
  BY <1>2, <1>3, <1>4, <1>5 DEF TokenOK

(* A request let through.                                                  *)
LEMMA TokenTaken ==
  ASSUME TokenSizes, NEW t \in Nat, NEW s, Past(s, t), NEW a, TokenOK(a, s, t), a >= refillEvery
  PROVE  TokenOK(a - refillEvery, Append(s, t), t)
<1> DEFINE r == Append(s, t)
           b == a - refillEvery
<1>1. /\ FullBucket \in Nat
      /\ \A f, u : /\ Cost(s, f, u) \in Nat
                   /\ Cost(r, f, u) = Cost(s, f, u) + (IF t \in f..u THEN refillEvery ELSE 0)
  BY CostNow
<1>2. a \in 0..FullBucket /\ b \in 0..FullBucket /\ a = b + refillEvery /\ refillEvery \in Nat
  BY <1>1 DEF TokenOK, TokenSizes
<1> HIDE DEF r, b
<1>3. ASSUME NEW f \in 0..t
      PROVE  Cost(r, f, t) = Cost(s, f, t) + refillEvery /\ Cost(s, f, t) \in Nat
  <2>1. t \in f..t
    OBVIOUS
  <2> QED
    BY <1>1, <2>1
<1>4. ASSUME NEW f \in 0..t PROVE Cost(r, f, t) + b <= FullBucket + (t - f)
  <2>1. Cost(s, f, t) + a <= FullBucket + (t - f)
    BY DEF TokenOK
  <2> QED
    BY <1>1, <1>2, <1>3, <2>1
<1>5. ASSUME NEW f \in Nat, NEW u \in Nat, f <= u, u <= t
      PROVE  Cost(r, f, u) <= FullBucket + (u - f)
  <2>1. CASE u = t
    <3>1. f \in 0..t
      BY <1>5, <2>1
    <3> QED
      BY <1>1, <1>2, <1>3, <1>4, <2>1, <3>1
  <2>2. CASE u # t
    <3>1. t \notin f..u
      BY <1>5, <2>2
    <3>2. Cost(r, f, u) = Cost(s, f, u)
      BY <1>1, <3>1
    <3> QED
      BY <1>5, <3>2 DEF TokenOK
  <2> QED
    BY <2>1, <2>2
<1>6. \E f \in 0..t : Cost(r, f, t) + b >= FullBucket + (t - f)
  <2>1. PICK f \in 0..t : Cost(s, f, t) + a >= FullBucket + (t - f)
    BY DEF TokenOK
  <2>2. Cost(r, f, t) + b >= FullBucket + (t - f)
    BY <1>1, <1>2, <1>3, <2>1
  <2> QED
    BY <2>2
<1>7. TokenOK(b, r, t)
  BY <1>2, <1>4, <1>5, <1>6 DEF TokenOK
<1> QED
  BY <1>7 DEF r, b

(* What division makes of a product.                                       *)
LEMMA Quotient ==
  ASSUME NEW d \in Nat \ {0}, NEW a \in Int, NEW x \in Nat
  PROVE  /\ d * a <= x => a <= x \div d
         /\ d * a > x => a > x \div d
<1>1. PICK q, r : q = x \div d /\ r = x % d
  OBVIOUS
<1>2. q \in Nat /\ r \in 0..(d - 1) /\ x = d * q + r
  BY <1>1
<1>3. PICK e \in Int : e = a - q
  BY <1>2
<1>4. d * a = d * q + d * e
  <2>1. a = q + e
    BY <1>2, <1>3
  <2>2. d * (q + e) = d * q + d * e
    BY <1>2
  <2> QED
    BY <2>1, <2>2
<1>5. e > 0 => d * e >= d
  BY <1>2
<1>6. e <= 0 => d * e <= 0
  BY <1>2
<1>7. d * q \in Int /\ d * e \in Int /\ d * a \in Int
  BY <1>2
<1>8. PICK u, v, w : u = d * q /\ v = d * e /\ w = d * a
  OBVIOUS
<1>9. /\ u \in Int /\ v \in Int /\ w = u + v /\ x = u + r
      /\ e > 0 => v >= d
      /\ e <= 0 => v <= 0
  BY <1>2, <1>4, <1>5, <1>6, <1>7, <1>8
<1>10. w <= x => e <= 0
  BY <1>2, <1>9
<1>11. w > x => e > 0
  BY <1>2, <1>9
<1> QED
  BY <1>1, <1>2, <1>3, <1>8, <1>10, <1>11

(* What the invariant says of a span, and of a refusal.                    *)
LEMMA TokenBound ==
  ASSUME TokenSizes, NEW t \in Nat, NEW s, Past(s, t), NEW a, TokenOK(a, s, t),
         NEW f \in Nat, NEW u \in Nat, f <= u
  PROVE  Between(s, f, u) <= capacity + (u - f) \div refillEvery
<1>1. /\ FullBucket \in Nat
      /\ \A g \in Nat : g > t => \A v : Cost(s, g, v) = 0
      /\ \A g, v \in Nat : v >= t => Cost(s, g, v) = Cost(s, g, t)
  BY CostNow
<1>2. Cost(s, f, u) <= FullBucket + (u - f)
  <2>1. CASE u <= t
    BY <2>1 DEF TokenOK
  <2>2. CASE u > t /\ f <= t
    <3>1. Cost(s, f, t) <= FullBucket + (t - f) /\ Cost(s, f, u) = Cost(s, f, t)
      BY <1>1, <2>2 DEF TokenOK
    <3> QED
      BY <1>1, <2>2, <3>1, CostNow
  <2>3. CASE f > t
    BY <1>1, <2>3
  <2> QED
    BY <2>1, <2>2, <2>3
<1>3. PICK n \in Nat : n = Between(s, f, u)
  BY PastNow
<1>4. PICK x \in Nat : x = u - f
  OBVIOUS
<1>5. refillEvery \in Nat \ {0} /\ capacity \in Nat /\ n - capacity \in Int
  BY DEF TokenSizes
<1>6. refillEvery * (n - capacity) <= x
  <2>1. refillEvery * (n - capacity) = refillEvery * n - capacity * refillEvery
    BY <1>5
  <2>2. refillEvery * n <= capacity * refillEvery + x
    BY <1>2, <1>3, <1>4 DEF Cost, FullBucket
  <2>3. refillEvery * n \in Nat /\ capacity * refillEvery \in Nat
    BY <1>5
  <2> QED
    BY <2>1, <2>2, <2>3
<1>7. n - capacity <= x \div refillEvery /\ x \div refillEvery \in Int
  BY <1>5, <1>6, Quotient
<1> QED
  BY <1>3, <1>4, <1>5, <1>7

(* A bucket too low for a request: over some span up to now the client has *)
(* had all that the bound allows.                                          *)
LEMMA TokenRefused ==
  ASSUME TokenSizes, NEW t \in Nat, NEW s, Past(s, t), NEW a, TokenOK(a, s, t), ~(a >= refillEvery)
  PROVE  \E f \in 0..t : Between(s, f, t) + 1 > capacity + (t - f) \div refillEvery
<1>1. FullBucket \in Nat /\ a \in Nat
  BY CostNow DEF TokenOK
<1>2. PICK f \in 0..t : Cost(s, f, t) + a >= FullBucket + (t - f)
  BY DEF TokenOK
<1>3. PICK n \in Nat : n = Between(s, f, t)
  BY PastNow
<1>4. PICK x \in Nat : x = t - f
  OBVIOUS
<1>5. refillEvery \in Nat \ {0} /\ capacity \in Nat /\ n + 1 - capacity \in Int
  BY DEF TokenSizes
<1>6. refillEvery * (n + 1 - capacity) > x
  <2>1. refillEvery * (n + 1 - capacity) = refillEvery * n + refillEvery - capacity * refillEvery
    BY <1>5
  <2>2. refillEvery * n + a >= capacity * refillEvery + x
    BY <1>2, <1>3, <1>4 DEF Cost, FullBucket
  <2>3. refillEvery * n \in Nat /\ capacity * refillEvery \in Nat
    BY <1>5
  <2> QED
    BY <1>1, <1>5, <2>1, <2>2, <2>3
<1>7. n + 1 - capacity > x \div refillEvery /\ x \div refillEvery \in Int
  BY <1>5, <1>6, Quotient
<1>8. n + 1 > capacity + x \div refillEvery
  BY <1>5, <1>7
<1> QED
  BY <1>3, <1>4, <1>8

-----------------------------------------------------------------------------
(* The leaky bucket: the time j requests take to leak.                     *)
Leaks(j) == j * leakEvery
QueueSizes == depth \in Nat /\ leakEvery \in Nat \ {0}
LeakSizes(n, l, t) == n \in 0..depth /\ l \in Nat /\ l <= t /\ t < l + leakEvery
LeakOK(n, l, s, t) ==
  /\ LeakSizes(n, l, t)
  /\ \A f \in 0..t, j \in Nat : f >= l - Leaks(j) => Between(s, f, t) <= n + j
  /\ \A f, u, j \in Nat : f <= u /\ u <= t /\ Leaks(j) >= u - f => Between(s, f, u) <= depth + j
  /\ \E f \in 0..t, j \in Nat : f >= l - Leaks(j) /\ Between(s, f, t) >= n + j

(* The times to leak are natural numbers.                                  *)
LEMMA LeakTimes ==
  ASSUME QueueSizes
  PROVE  /\ leakEvery \in Nat \ {0} /\ depth \in Nat /\ Leaks(0) = 0
         /\ \A j \in Nat : Leaks(j) \in Nat /\ Leaks(j + 1) = Leaks(j) + leakEvery
<1>1. leakEvery \in Nat \ {0} /\ depth \in Nat
  BY DEF QueueSizes
<1>2. 0 * leakEvery = 0
  BY <1>1
<1>3. ASSUME NEW j \in Nat
      PROVE  j * leakEvery \in Nat /\ (j + 1) * leakEvery = j * leakEvery + leakEvery
  BY <1>1
<1> QED
  BY <1>1, <1>2, <1>3 DEF Leaks

(* So are the numbers of a queue.                                          *)
LEMMA LeakNumbers ==
  ASSUME QueueSizes, NEW t \in Nat, NEW s, NEW n, NEW l, LeakOK(n, l, s, t)
  PROVE  /\ n \in Nat /\ n <= depth /\ l \in Nat /\ l <= t /\ t < l + leakEvery
         /\ leakEvery \in Nat \ {0} /\ depth \in Nat
<1>1. LeakSizes(n, l, t)
  BY DEF LeakOK
<1> QED
  BY <1>1 DEF LeakSizes, QueueSizes

(* A client that never asked has an empty queue.                           *)
LEMMA LeakNew ==
  ASSUME QueueSizes, NEW t \in Nat
  PROVE  LeakOK(0, t, <<>>, t)
<1>1. \A f, u : Between(<<>>, f, u) = 0
  <2> SUFFICES ASSUME NEW f, NEW u PROVE Between(<<>>, f, u) = 0
    OBVIOUS
  <2>1. <<>> \in Seq(Nat) /\ \A i \in DOMAIN <<>> : <<>>[i] \notin f..u
    OBVIOUS
  <2> QED
    BY <2>1, BetweenNothing
<1>2. /\ leakEvery \in Nat \ {0} /\ depth \in Nat /\ Leaks(0) = 0
      /\ 0 \in 0..depth /\ t < t + leakEvery
  BY LeakTimes
<1>3. t \in 0..t /\ 0 \in Nat /\ t >= t - Leaks(0) /\ Between(<<>>, t, t) >= 0 + 0
  BY <1>1, <1>2
<1>4. \A j \in Nat : 0 <= 0 + j /\ 0 <= depth + j
  BY <1>2
<1> QED
  BY <1>1, <1>2, <1>3, <1>4 DEF LeakOK, LeakSizes

(* A moment later, at which nothing leaks ...                              *)
LEMMA LeakPass ==
  ASSUME QueueSizes, NEW t \in Nat, NEW s, Past(s, t), NEW n, NEW l, LeakOK(n, l, s, t),
         t + 1 < l + leakEvery
  PROVE  LeakOK(n, l, s, t + 1)
<1>0. n \in Nat /\ n <= depth /\ l \in Nat /\ l <= t /\ depth \in Nat
  BY LeakNumbers
<1>1. n \in Nat /\ depth \in Nat /\ \A j \in Nat : Leaks(j) \in Nat
  BY <1>0, LeakTimes
<1>2. ASSUME NEW f \in Nat, NEW u \in Nat
      PROVE  /\ f > t => Between(s, f, u) = 0
             /\ u >= t => Between(s, f, u) = Between(s, f, t)
             /\ Between(s, f, u) \in Nat
  BY NothingLater
<1>3. ASSUME NEW f \in 0..(t + 1), NEW j \in Nat, f >= l - Leaks(j)
      PROVE  Between(s, f, t + 1) <= n + j
  <2>1. CASE f = t + 1
    <3>1. Between(s, f, t + 1) = 0
      BY <1>2, <2>1
    <3> QED
      BY <1>1, <3>1
  <2>2. CASE f # t + 1
    <3>1. f \in 0..t
      BY <2>2
    <3>2. Between(s, f, t + 1) = Between(s, f, t)
      BY <1>2
    <3>3. Between(s, f, t) <= n + j
      BY <1>3, <3>1 DEF LeakOK
    <3> QED
      BY <3>2, <3>3
  <2> QED
    BY <2>1, <2>2
<1>4. ASSUME NEW f \in Nat, NEW u \in Nat, NEW j \in Nat, f <= u, u <= t + 1, Leaks(j) >= u - f
      PROVE  Between(s, f, u) <= depth + j
  <2>1. CASE u <= t
    BY <1>4, <2>1 DEF LeakOK
  <2>2. CASE u = t + 1 /\ f <= t
    <3>0. Between(s, f, u) = Between(s, f, t)
      BY <1>2, <2>2
    <3>1. Between(s, f, u) = Between(s, f, t) /\ Leaks(j) >= t - f
      BY <1>1, <1>4, <2>2, <3>0
    <3>2. Between(s, f, t) <= depth + j
      BY <2>2, <3>1 DEF LeakOK
    <3> QED
      BY <3>1, <3>2
  <2>3. CASE f > t
    <3>1. Between(s, f, u) = 0
      BY <1>2, <2>3
    <3> QED
      BY <1>1, <3>1
  <2> QED
    BY <1>4, <2>1, <2>2, <2>3
<1>5. \E f \in 0..(t + 1), j \in Nat : f >= l - Leaks(j) /\ Between(s, f, t + 1) >= n + j
  <2>1. PICK f \in 0..t, j \in Nat : f >= l - Leaks(j) /\ Between(s, f, t) >= n + j
    BY DEF LeakOK
  <2>2. f \in 0..(t + 1) /\ Between(s, f, t + 1) = Between(s, f, t)
    BY <1>2
  <2> QED
    BY <2>1, <2>2
<1>6. LeakSizes(n, l, t + 1)
  BY <1>0 DEF LeakSizes
<1> QED
  BY <1>3, <1>4, <1>5, <1>6, Zenon DEF LeakOK

(* ... or a request leaks.                                                 *)
LEMMA LeakDrop ==
  ASSUME QueueSizes, NEW t \in Nat, NEW s, Past(s, t), NEW n, NEW l, LeakOK(n, l, s, t),
         NEW q \in Nat, q = t + 1, q = l + leakEvery, NEW m, m = IF n = 0 THEN 0 ELSE n - 1
  PROVE  LeakOK(m, q, s, q)
<1>0. n \in Nat /\ n <= depth /\ l \in Nat /\ l <= t /\ depth \in Nat /\ leakEvery \in Nat \ {0}
  BY LeakNumbers
<1>1. /\ n \in Nat /\ l \in Nat /\ l <= t /\ depth \in Nat /\ m \in 0..depth /\ leakEvery \in Nat \ {0}
      /\ n <= m + 1
      /\ \A j \in Nat : Leaks(j) \in Nat /\ Leaks(j + 1) = Leaks(j) + leakEvery
      /\ Leaks(0) = 0
  BY <1>0, LeakTimes
<1>2. ASSUME NEW f \in Nat, NEW u \in Nat
      PROVE  /\ f > t => Between(s, f, u) = 0
             /\ u >= t => Between(s, f, u) = Between(s, f, t)
             /\ Between(s, f, u) \in Nat
  BY NothingLater
<1>3. ASSUME NEW f \in 0..q, NEW j \in Nat, f >= q - Leaks(j)
      PROVE  Between(s, f, q) <= m + j
  <2>1. CASE f = q
    <3>1. Between(s, f, q) = 0
      BY <1>2, <2>1
    <3> QED
      BY <1>1, <3>1
  <2>2. CASE f # q
    <3>1. f \in 0..t
      BY <2>2
    <3>2. Between(s, f, q) = Between(s, f, t)
      BY <1>2
    <3>3. j # 0
      BY <1>1, <1>3, <3>1
    <3>4. PICK i \in Nat : j = i + 1
      <4>1. j - 1 \in Nat /\ j = (j - 1) + 1
        BY <3>3
      <4> QED
        BY <4>1
    <3>5. Leaks(j) = Leaks(i) + leakEvery /\ Leaks(i) \in Nat
      BY <1>1, <3>4
    <3>6. f >= l - Leaks(i)
      BY <1>1, <1>3, <3>5
    <3>7. Between(s, f, t) <= n + i
      BY <3>1, <3>6 DEF LeakOK
    <3>8. n + i <= m + j
      BY <1>1, <3>4
    <3>9. Between(s, f, t) \in Nat
      <4>1. f \in Nat
        BY <3>1
      <4> QED
        BY <4>1, NothingLater
    <3> QED
      BY <1>1, <3>2, <3>4, <3>7, <3>8, <3>9
  <2> QED
    BY <2>1, <2>2
<1>4. ASSUME NEW f \in Nat, NEW u \in Nat, NEW j \in Nat, f <= u, u <= q, Leaks(j) >= u - f
      PROVE  Between(s, f, u) <= depth + j
  <2>1. CASE u <= t
    BY <1>4, <2>1 DEF LeakOK
  <2>2. CASE u = q /\ f <= t
    <3>0. Between(s, f, u) = Between(s, f, t)
      BY <1>2, <2>2
    <3>1. Between(s, f, u) = Between(s, f, t) /\ Leaks(j) >= t - f
      BY <1>1, <1>4, <2>2, <3>0
    <3>2. Between(s, f, t) <= depth + j
      BY <2>2, <3>1 DEF LeakOK
    <3> QED
      BY <3>1, <3>2
  <2>3. CASE f > t
    <3>1. Between(s, f, u) = 0
      BY <1>2, <2>3
    <3> QED
      BY <1>1, <3>1
  <2> QED
    BY <1>4, <2>1, <2>2, <2>3
<1>5. \E f \in 0..q, j \in Nat : f >= q - Leaks(j) /\ Between(s, f, q) >= m + j
  <2>1. CASE n = 0
    <3>1. q \in 0..q /\ 0 \in Nat /\ q >= q - Leaks(0)
      BY <1>1
    <3>2. Between(s, q, q) >= m + 0
      BY <1>2, <2>1
    <3> QED
      BY <3>1, <3>2
  <2>2. CASE n # 0
    <3>1. PICK f \in 0..t, i \in Nat : f >= l - Leaks(i) /\ Between(s, f, t) >= n + i
      BY DEF LeakOK
    <3>2. PICK j \in Nat : j = i + 1
      OBVIOUS
    <3>3. Leaks(j) = Leaks(i) + leakEvery /\ Leaks(i) \in Nat
      BY <1>1, <3>2
    <3>4. f \in 0..q /\ Between(s, f, q) = Between(s, f, t) /\ Between(s, f, t) \in Nat
      <4>1. f \in Nat /\ q \in Nat /\ q >= t /\ f \in 0..q
        OBVIOUS
      <4> QED
        BY <1>2, <4>1
    <3>5. f >= q - Leaks(j)
      BY <1>1, <3>1, <3>3
    <3>6. Between(s, f, q) >= m + j
      BY <1>1, <2>2, <3>1, <3>2, <3>4
    <3> QED
      BY <3>4, <3>5, <3>6
  <2> QED
    BY <2>1, <2>2
<1>6. LeakSizes(m, q, q)
  BY <1>1 DEF LeakSizes
<1> QED
  BY <1>3, <1>4, <1>5, <1>6, Zenon DEF LeakOK

(* A request let through.                                                  *)
LEMMA LeakTaken ==
  ASSUME QueueSizes, NEW t \in Nat, NEW s, Past(s, t), NEW n, NEW l, LeakOK(n, l, s, t), n < depth
  PROVE  LeakOK(n + 1, l, Append(s, t), t)
<1> DEFINE r == Append(s, t)
<1>0. /\ n \in Nat /\ n <= depth /\ l \in Nat /\ l <= t /\ t < l + leakEvery
      /\ depth \in Nat /\ leakEvery \in Nat \ {0}
  BY LeakNumbers
<1>1. /\ n \in Nat /\ l \in Nat /\ l <= t /\ depth \in Nat /\ LeakSizes(n + 1, l, t)
      /\ n + 1 \in 0..depth /\ leakEvery \in Nat
      /\ \A j \in Nat : Leaks(j) \in Nat
  BY <1>0, LeakTimes DEF LeakSizes
<1>2. \A f, u : /\ Between(s, f, u) \in Nat
                /\ Between(r, f, u) = Between(s, f, u) + (IF t \in f..u THEN 1 ELSE 0)
  BY PastNow
<1> HIDE DEF r
<1>3. ASSUME NEW f \in 0..t PROVE Between(r, f, t) = Between(s, f, t) + 1
  <2>1. t \in f..t
    OBVIOUS
  <2> QED
    BY <1>2, <2>1
<1>4. ASSUME NEW f \in 0..t, NEW j \in Nat, f >= l - Leaks(j) PROVE Between(r, f, t) <= n + 1 + j
  <2>1. Between(s, f, t) <= n + j
    BY <1>4 DEF LeakOK
  <2> QED
    BY <1>1, <1>2, <1>3, <2>1
<1>5. ASSUME NEW f \in Nat, NEW u \in Nat, NEW j \in Nat, f <= u, u <= t, Leaks(j) >= u - f
      PROVE  Between(r, f, u) <= depth + j
  <2>1. CASE u = t
    <3>1. f \in 0..t /\ f >= l - Leaks(j)
      BY <1>1, <1>5, <2>1
    <3>2. Between(r, f, t) <= n + 1 + j /\ Between(r, f, t) \in Nat
      BY <1>2, <1>3, <1>4, <3>1
    <3> QED
      BY <1>1, <2>1, <3>2
  <2>2. CASE u # t
    <3>1. t \notin f..u
      BY <1>5, <2>2
    <3>2. Between(r, f, u) = Between(s, f, u)
      BY <1>2, <3>1
    <3> QED
      BY <1>5, <3>2 DEF LeakOK
  <2> QED
    BY <2>1, <2>2
<1>6. \E f \in 0..t, j \in Nat : f >= l - Leaks(j) /\ Between(r, f, t) >= n + 1 + j
  <2>1. PICK f \in 0..t, j \in Nat : f >= l - Leaks(j) /\ Between(s, f, t) >= n + j
    BY DEF LeakOK
  <2>2. Between(r, f, t) >= n + 1 + j
    BY <1>1, <1>2, <1>3, <2>1
  <2> QED
    BY <2>1, <2>2
<1>7. LeakOK(n + 1, l, r, t)
  BY <1>1, <1>4, <1>5, <1>6, Zenon DEF LeakOK
<1> QED
  BY <1>7 DEF r

(* What the invariant says of a span, and of a refusal.                    *)
LEMMA LeakBound ==
  ASSUME QueueSizes, NEW t \in Nat, NEW s, Past(s, t), NEW n, NEW l, LeakOK(n, l, s, t),
         NEW f \in Nat, NEW u \in Nat, f <= u
  PROVE  Between(s, f, u) <= depth + (u - f + leakEvery - 1) \div leakEvery
<1>0. PICK x \in Nat : x = u - f + leakEvery - 1
  BY DEF QueueSizes
<1>1. PICK j : j = x \div leakEvery
  OBVIOUS
<1>2. j \in Nat /\ Leaks(j) >= u - f
  <2>1. PICK r : r = x % leakEvery
    OBVIOUS
  <2>2. j \in Nat /\ r \in 0..(leakEvery - 1) /\ x = leakEvery * j + r /\ leakEvery \in Nat
    BY <1>0, <1>1, <2>1 DEF QueueSizes
  <2>3. leakEvery * j = Leaks(j) /\ leakEvery * j \in Nat
    BY <2>2 DEF Leaks
  <2> QED
    BY <1>0, <1>1, <2>2, <2>3
<1>3. Between(s, f, u) <= depth + j
  <2>1. CASE u <= t
    BY <1>2, <2>1 DEF LeakOK
  <2>2. CASE u > t /\ f <= t
    <3>1. Between(s, f, u) = Between(s, f, t)
      BY <2>2, NothingLater
    <3>2. Leaks(j) >= t - f
      BY <1>2, <2>2, LeakTimes
    <3>3. Between(s, f, t) <= depth + j
      BY <1>2, <2>2, <3>2 DEF LeakOK
    <3> QED
      BY <3>1, <3>3
  <2>3. CASE f > t
    <3>1. Between(s, f, u) = 0
      BY <2>3, NothingLater
    <3> QED
      BY <1>2, <3>1, LeakTimes
  <2> QED
    BY <2>1, <2>2, <2>3
<1> QED
  BY <1>0, <1>1, <1>3

(* A full queue: over some span up to now the client has had all that the  *)
(* bound allows.                                                           *)
LEMMA LeakRefused ==
  ASSUME QueueSizes, NEW t \in Nat, NEW s, Past(s, t), NEW n, NEW l, LeakOK(n, l, s, t), ~(n < depth)
  PROVE  \E f \in 0..t : Between(s, f, t) + 1 > depth + (t - f) \div leakEvery
<1>1. PICK f \in 0..t, j \in Nat : f >= l - Leaks(j) /\ Between(s, f, t) >= n + j
  BY DEF LeakOK
<1>2. n = depth /\ depth \in Nat /\ l \in Nat /\ t < l + leakEvery /\ leakEvery \in Nat \ {0}
  BY LeakNumbers
<1>3. PICK x \in Nat : x = t - f
  OBVIOUS
<1>4. leakEvery * (j + 1) > x
  <2>1. Leaks(j) \in Nat /\ Leaks(j) = j * leakEvery
    BY LeakTimes DEF Leaks
  <2>2. leakEvery * (j + 1) = Leaks(j) + leakEvery
    BY <1>2, <2>1
  <2> QED
    BY <1>1, <1>2, <1>3, <2>1, <2>2
<1>5. j + 1 > x \div leakEvery /\ x \div leakEvery \in Int
  BY <1>2, <1>4, Quotient
<1>6. Between(s, f, t) \in Nat
  BY PastNow
<1>7. Between(s, f, t) + 1 > depth + x \div leakEvery
  BY <1>1, <1>2, <1>5, <1>6
<1> QED
  BY <1>3, <1>7

-----------------------------------------------------------------------------
(* The fixed window.                                                       *)
WindowSizes == limit \in Nat \ {0} /\ windowSize \in Nat \ {0}
FixedNumbers(n, b, t) == n \in 1..limit /\ b \in Nat /\ b <= t
Bursts(s) == \A f \in Nat : Between(s, f, f + windowSize - 1) < 2 * limit
FixedOK(n, b, s, t) ==
  /\ FixedNumbers(n, b, t)
  /\ \A i \in DOMAIN s : s[i] < b + windowSize
  /\ Between(s, b, t) = n
  /\ Between(s, b + 1, t) < n
  /\ Between(s, b - windowSize + 1, b - 1) < limit
  /\ Bursts(s)

(* A moment later the window is the same.                                  *)
LEMMA FixedPass ==
  ASSUME WindowSizes, NEW t \in Nat, NEW s, Past(s, t), NEW n, NEW b, FixedOK(n, b, s, t)
  PROVE  FixedOK(n, b, s, t + 1)
<1>1. n \in 1..limit /\ b \in Nat /\ b <= t
  <2>1. FixedNumbers(n, b, t)
    BY DEF FixedOK
  <2> QED
    BY <2>1 DEF FixedNumbers
<1>2. FixedNumbers(n, b, t + 1)
  BY <1>1 DEF FixedNumbers
<1>3. Between(s, b, t + 1) = Between(s, b, t)
  BY <1>1, NothingLater
<1>4. Between(s, b + 1, t + 1) = Between(s, b + 1, t)
  BY <1>1, NothingLater
<1> QED
  BY <1>2, <1>3, <1>4 DEF FixedOK

(* A window that opens, before which less than the limit passed in one     *)
(* windowSize.                                                             *)
LEMMA FixedOpens ==
  ASSUME WindowSizes, NEW t \in Nat, NEW s, Past(s, t), \A i \in DOMAIN s : s[i] < t,
         Between(s, t - windowSize + 1, t - 1) < limit, Bursts(s)
  PROVE  FixedOK(1, t, Append(s, t), t)
<1> DEFINE r == Append(s, t)
<1>1. \A f, u : /\ Between(s, f, u) \in Nat
                /\ Between(r, f, u) = Between(s, f, u) + (IF t \in f..u THEN 1 ELSE 0)
  BY PastNow
<1>2. Past(r, t) /\ s \in Seq(Nat)
  BY PastNow
<1> HIDE DEF r
<1>3. limit \in Nat \ {0} /\ windowSize \in Nat \ {0}
  BY DEF WindowSizes
<1>4. ASSUME NEW f \in Int, NEW u \in Int, f >= t PROVE Between(s, f, u) = 0
  <2>1. \A i \in DOMAIN s : s[i] \notin f..u
    BY <1>2, <1>4
  <2> QED
    BY <1>2, <2>1, BetweenNothing
<1>5. FixedNumbers(1, t, t)
  BY <1>3 DEF FixedNumbers
<1>6. \A i \in DOMAIN r : r[i] < t + windowSize
  BY <1>2, <1>3 DEF Past
<1>7. Between(r, t, t) = 1
  <2>1. Between(s, t, t) = 0 /\ t \in t..t
    BY <1>4
  <2> QED
    BY <1>1, <2>1
<1>8. Between(r, t + 1, t) < 1
  <2>1. Between(s, t + 1, t) = 0 /\ t \notin (t + 1)..t
    BY <1>4
  <2> QED
    BY <1>1, <2>1
<1>9. Between(r, t - windowSize + 1, t - 1) < limit
  <2>1. t \notin (t - windowSize + 1)..(t - 1)
    OBVIOUS
  <2> QED
    BY <1>1, <2>1
<1>10. ASSUME NEW f \in Nat, NEW u \in Int, u = f + windowSize - 1 PROVE Between(r, f, u) < 2 * limit
  <2>1. CASE t \notin f..u
    <3>1. Between(s, f, u) < 2 * limit
      BY <1>10 DEF Bursts
    <3> QED
      BY <1>1, <2>1, <3>1
  <2>2. CASE t \in f..u
    <3>1. \A i \in DOMAIN s : s[i] \in f..u => s[i] \in (t - windowSize + 1)..(t - 1)
      BY <1>2, <1>3, <1>10, <2>2
    <3>2. Between(s, f, u) <= Between(s, t - windowSize + 1, t - 1)
      BY <1>2, <3>1, BetweenMore
    <3>3. Between(s, f, u) \in Nat /\ Between(s, t - windowSize + 1, t - 1) \in Nat
      BY <1>1
    <3>4. Between(r, f, u) = Between(s, f, u) + 1
      BY <1>1, <2>2
    <3> QED
      BY <1>3, <3>2, <3>3, <3>4
  <2> QED
    BY <2>1, <2>2
<1>11. Bursts(r)
  BY <1>3, <1>10 DEF Bursts
<1>12. FixedOK(1, t, r, t)
  BY <1>5, <1>6, <1>7, <1>8, <1>9, <1>11 DEF FixedOK
<1> QED
  BY <1>12 DEF r

(* The first window, and one after the last has ended.                     *)
LEMMA FixedFirst ==
  ASSUME WindowSizes, NEW t \in Nat
  PROVE  Bursts(<<>>) /\ FixedOK(1, t, Append(<<>>, t), t)
<1>1. <<>> \in Seq(Nat) /\ Past(<<>>, t) /\ limit \in Nat \ {0} /\ windowSize \in Nat \ {0}
  BY DEF Past, WindowSizes
<1>2. \A f, u : Between(<<>>, f, u) = 0
  <2> SUFFICES ASSUME NEW f, NEW u PROVE Between(<<>>, f, u) = 0
    OBVIOUS
  <2>1. \A i \in DOMAIN <<>> : <<>>[i] \notin f..u
    OBVIOUS
  <2> QED
    BY <1>1, <2>1, BetweenNothing
<1>3. Bursts(<<>>)
  BY <1>1, <1>2 DEF Bursts
<1>4. \A i \in DOMAIN <<>> : <<>>[i] < t
  OBVIOUS
<1>5. Between(<<>>, t - windowSize + 1, t - 1) < limit
  BY <1>1, <1>2
<1> QED
  BY <1>1, <1>3, <1>4, <1>5, FixedOpens

(* The next window of a client: what its last one let through after its    *)
(* first moment is less than the limit.                                    *)
LEMMA FixedAgain ==
  ASSUME WindowSizes, NEW t \in Nat, NEW s, Past(s, t), NEW n, NEW b, FixedOK(n, b, s, t),
         t - b >= windowSize
  PROVE  FixedOK(1, t, Append(s, t), t)
<1>1. limit \in Nat \ {0} /\ windowSize \in Nat \ {0} /\ s \in Seq(Nat)
  BY DEF WindowSizes, Past
<1>2. n \in 1..limit /\ b \in Nat /\ b <= t
  <2>1. FixedNumbers(n, b, t)
    BY DEF FixedOK
  <2> QED
    BY <2>1 DEF FixedNumbers
<1>3. \A i \in DOMAIN s : s[i] \in Nat /\ s[i] < t
  <2>1. \A i \in DOMAIN s : s[i] < b + windowSize
    BY DEF FixedOK
  <2>2. \A i \in DOMAIN s : s[i] \in Nat
    BY <1>1
  <2> QED
    BY <1>1, <1>2, <2>1, <2>2
<1>4. Between(s, t - windowSize + 1, t - 1) < limit
  <2>1. \A i \in DOMAIN s : s[i] \in (t - windowSize + 1)..(t - 1) => s[i] \in (b + 1)..t
    BY <1>1, <1>2
  <2>2. Between(s, t - windowSize + 1, t - 1) <= Between(s, b + 1, t)
    BY <1>1, <2>1, BetweenMore
  <2>3. Between(s, b + 1, t) < n
    BY DEF FixedOK
  <2>4. Between(s, t - windowSize + 1, t - 1) \in Nat /\ Between(s, b + 1, t) \in Nat
    BY <1>1, BetweenNat
  <2> QED
    BY <1>1, <1>2, <2>2, <2>3, <2>4
<1>5. Bursts(s)
  BY DEF FixedOK
<1> QED
  BY <1>3, <1>4, <1>5, FixedOpens

(* A request let through in the current window.                            *)
LEMMA FixedTaken ==
  ASSUME WindowSizes, NEW t \in Nat, NEW s, Past(s, t), NEW n, NEW b, FixedOK(n, b, s, t),
         ~(t - b >= windowSize), n < limit
  PROVE  FixedOK(n + 1, b, Append(s, t), t)
<1> DEFINE r == Append(s, t)
<1>1. \A f, u : /\ Between(s, f, u) \in Nat
                /\ Between(r, f, u) = Between(s, f, u) + (IF t \in f..u THEN 1 ELSE 0)
  BY PastNow
<1>2. Past(r, t) /\ s \in Seq(Nat) /\ r \in Seq(Nat)
  BY PastNow DEF Past
<1> HIDE DEF r
<1>3. limit \in Nat \ {0} /\ windowSize \in Nat \ {0}
  BY DEF WindowSizes
<1>4. n \in 1..limit /\ b \in Nat /\ b <= t
  <2>1. FixedNumbers(n, b, t)
    BY DEF FixedOK
  <2> QED
    BY <2>1 DEF FixedNumbers
<1>5. FixedNumbers(n + 1, b, t)
  BY <1>3, <1>4 DEF FixedNumbers
<1>6. \A i \in DOMAIN r : r[i] < b + windowSize
  <2>1. \A i \in DOMAIN r : r[i] \in Nat /\ r[i] <= t
    BY <1>2 DEF Past
  <2> QED
    BY <1>3, <1>4, <2>1
<1>7. Between(r, b, t) = n + 1
  <2>1. t \in b..t /\ Between(s, b, t) = n
    BY <1>4 DEF FixedOK
  <2> QED
    BY <1>1, <2>1
<1>8. Between(r, b + 1, t) < n + 1
  <2>1. Between(s, b + 1, t) < n /\ Between(s, b + 1, t) \in Nat
    BY <1>1 DEF FixedOK
  <2>2. Between(r, b + 1, t) = Between(s, b + 1, t) + (IF t \in (b + 1)..t THEN 1 ELSE 0)
    BY <1>1
  <2> QED
    BY <1>4, <2>1, <2>2
<1>9. Between(r, b - windowSize + 1, b - 1) < limit
  <2>1. t \notin (b - windowSize + 1)..(b - 1)
    BY <1>3, <1>4
  <2>2. Between(s, b - windowSize + 1, b - 1) < limit
    BY DEF FixedOK
  <2> QED
    BY <1>1, <2>1, <2>2
<1>10. ASSUME NEW f \in Nat, NEW u \in Int, u = f + windowSize - 1 PROVE Between(r, f, u) < 2 * limit
  <2>1. CASE t \notin f..u
    <3>1. Between(s, f, u) < 2 * limit
      BY <1>10 DEF FixedOK, Bursts
    <3> QED
      BY <1>1, <2>1, <3>1
  <2>2. CASE t \in f..u
    <3>1. \A i \in DOMAIN r : r[i] \in f..u => r[i] \in (b - windowSize + 1)..(b - 1) \/ r[i] \in b..t
      <4>1. \A i \in DOMAIN r : r[i] \in Nat /\ r[i] <= t
        BY <1>2 DEF Past
      <4>2. f >= b - windowSize + 1
        BY <1>3, <1>4, <1>10, <2>2
      <4> QED
        BY <1>3, <1>4, <4>1, <4>2
    <3>2. Between(r, f, u) <= Between(r, b - windowSize + 1, b - 1) + Between(r, b, t)
      BY <1>2, <3>1, BetweenSplit
    <3>3. Between(r, f, u) \in Nat /\ Between(r, b - windowSize + 1, b - 1) \in Nat
      BY <1>2, BetweenNat
    <3> QED
      BY <1>3, <1>4, <1>7, <1>9, <3>2, <3>3
  <2> QED
    BY <2>1, <2>2
<1>11. Bursts(r)
  BY <1>3, <1>10 DEF Bursts
<1>12. FixedOK(n + 1, b, r, t)
  BY <1>5, <1>6, <1>7, <1>8, <1>9, <1>11 DEF FixedOK
<1> QED
  BY <1>12 DEF r

(* A full window: its client has had the limit since it began.             *)
LEMMA FixedRefused ==
  ASSUME WindowSizes, NEW t \in Nat, NEW s, NEW n, NEW b, FixedOK(n, b, s, t),
         ~(t - b >= windowSize), ~(n < limit)
  PROVE  \E f \in 0..t : f > t - windowSize /\ Between(s, f, t) >= limit
<1>1. n \in 1..limit /\ b \in Nat /\ b <= t /\ limit \in Nat /\ windowSize \in Nat
  <2>1. FixedNumbers(n, b, t)
    BY DEF FixedOK
  <2> QED
    BY <2>1 DEF FixedNumbers, WindowSizes
<1>2. Between(s, b, t) = n
  BY DEF FixedOK
<1>3. b \in 0..t /\ b > t - windowSize /\ Between(s, b, t) >= limit
  BY <1>1, <1>2
<1> QED
  BY <1>3

-----------------------------------------------------------------------------
(* The sliding log: within the window it holds as many times as passed.    *)
Recent(t) == {ts \in Int : ts > t - windowSize}
Steady(s) == \A f \in Nat : Between(s, f, f + windowSize - 1) <= limit
SlideOK(l, s, t) ==
  /\ Past(l, t) /\ Len(l) <= limit
  /\ \A f \in Int : f > t - windowSize => Between(l, f, t) = Between(s, f, t)
  /\ Steady(s)

(* The log of a client that asks for the first time.                       *)
LEMMA SlideNew ==
  ASSUME WindowSizes, NEW t \in Nat
  PROVE  SlideOK(<<>>, <<>>, t)
<1>1. \A f, u : Between(<<>>, f, u) = 0
  <2> SUFFICES ASSUME NEW f, NEW u PROVE Between(<<>>, f, u) = 0
    OBVIOUS
  <2>1. <<>> \in Seq(Nat) /\ \A i \in DOMAIN <<>> : <<>>[i] \notin f..u
    OBVIOUS
  <2> QED
    BY <2>1, BetweenNothing
<1>2. Past(<<>>, t) /\ limit \in Nat /\ Len(<<>>) = 0
  BY DEF Past, WindowSizes
<1> QED
  BY <1>1, <1>2 DEF SlideOK, Steady

(* A moment later nothing has changed.                                     *)
LEMMA SlidePass ==
  ASSUME WindowSizes, NEW t \in Nat, NEW s, Past(s, t), NEW l, SlideOK(l, s, t)
  PROVE  SlideOK(l, s, t + 1)
<1>1. Past(l, t) /\ Len(l) <= limit /\ Steady(s)
  BY DEF SlideOK
<1>2. PICK q \in Nat : q = t + 1
  OBVIOUS
<1>3. Past(l, q)
  BY <1>1, <1>2, PastNow
<1>4. ASSUME NEW f \in Int, f > q - windowSize PROVE Between(l, f, q) = Between(s, f, q)
  <2>1. Between(l, f, q) = Between(l, f, t) /\ Between(s, f, q) = Between(s, f, t)
    BY <1>1, <1>2, NothingLater
  <2>2. f > t - windowSize
    BY <1>2, <1>4 DEF WindowSizes
  <2> QED
    BY <2>1, <2>2 DEF SlideOK
<1>5. SlideOK(l, s, q)
  BY <1>1, <1>3, <1>4 DEF SlideOK
<1> QED
  BY <1>2, <1>5

(* The filter leaves the times within the window that ends now, as many as *)
(* passed within it ...                                                    *)
LEMMA SlideKept ==
  ASSUME WindowSizes, NEW t \in Nat, NEW s, Past(s, t), NEW l, SlideOK(l, s, t),
         NEW k, k = Kept(l, Recent(t))
  PROVE  SlideOK(k, s, t) /\ Len(k) = Between(s, t - windowSize + 1, t)
<1>1. Past(l, t) /\ Len(l) <= limit /\ Steady(s) /\ limit \in Nat /\ windowSize \in Nat
  BY DEF SlideOK, WindowSizes
<1>2. k \in Seq(Nat) /\ \A i \in DOMAIN k : k[i] \in Nat /\ k[i] \in (t - windowSize + 1)..t
  <2> DEFINE T == {ts \in Int : ts <= t}
  <2>1. k \in Seq(Nat \cap Recent(t))
    BY <1>1, KeptType DEF Past
  <2>2. l \in Seq(T)
    <3>1. Len(l) \in Nat /\ DOMAIN l = 1..Len(l) /\ \A i \in 1..Len(l) : l[i] \in T
      BY <1>1 DEF Past
    <3>2. l = [i \in 1..Len(l) |-> l[i]]
      BY <1>1 DEF Past
    <3> QED
      BY <3>1, <3>2
  <2>3. k \in Seq(T \cap Recent(t))
    BY <2>2, KeptType
  <2>4. k \in Seq(Nat) /\ \A i \in DOMAIN k : k[i] \in Nat /\ k[i] \in T /\ k[i] \in Recent(t)
    BY <2>1, <2>3
  <2> QED
    BY <1>1, <2>4 DEF Recent
<1>3. Past(k, t)
  BY <1>2 DEF Past
<1>4. ASSUME NEW f \in Int, f > t - windowSize PROVE Between(k, f, t) = Between(s, f, t)
  <2>1. f..t \subseteq Recent(t)
    BY <1>1, <1>4 DEF Recent
  <2>2. l \in Seq(Int)
    BY <1>1 DEF Past
  <2>3. Between(k, f, t) = Between(l, f, t)
    BY <2>1, <2>2, BetweenKept
  <2>4. Between(l, f, t) = Between(s, f, t)
    BY <1>4 DEF SlideOK
  <2> QED
    BY <2>3, <2>4
<1>5. Len(k) = Between(s, t - windowSize + 1, t)
  <2>1. Between(k, t - windowSize + 1, t) = Len(k)
    BY <1>2, BetweenAll
  <2>2. t - windowSize + 1 \in Int /\ t - windowSize + 1 > t - windowSize
    BY <1>1
  <2> QED
    BY <1>4, <2>1, <2>2
<1>6. Len(k) <= limit
  <2>1. t - windowSize + 1 \in Int /\ t - windowSize + 1 > t - windowSize
    BY <1>1
  <2>2. Between(l, t - windowSize + 1, t) = Between(s, t - windowSize + 1, t)
    BY <2>1 DEF SlideOK
  <2>3. l \in Seq(Nat)
    BY <1>1 DEF Past
  <2>4. \A i \in DOMAIN l : l[i] \in 0..t
    BY <1>1 DEF Past
  <2>5. Between(l, t - windowSize + 1, t) <= Between(l, 0, t)
    <3>1. \A i \in DOMAIN l : l[i] \in (t - windowSize + 1)..t => l[i] \in 0..t
      BY <2>4
    <3> QED
      BY <2>3, <3>1, BetweenMore
  <2>6. Between(l, 0, t) = Len(l) /\ Len(l) \in Nat
    BY <2>3, <2>4, BetweenAll
  <2>7. Between(l, t - windowSize + 1, t) \in Nat
    BY <2>3, BetweenNat
  <2> QED
    BY <1>1, <1>5, <2>2, <2>5, <2>6, <2>7
<1> QED
  BY <1>1, <1>3, <1>4, <1>5, <1>6 DEF SlideOK

(* ... to which a request let through adds one.                            *)
LEMMA SlideTaken ==
  ASSUME WindowSizes, NEW t \in Nat, NEW s, Past(s, t), NEW k, SlideOK(k, s, t),
         Len(k) = Between(s, t - windowSize + 1, t), Len(k) < limit
  PROVE  SlideOK(Append(k, t), Append(s, t), t)
<1> DEFINE r == Append(s, t)
           m == Append(k, t)
<1>1. Past(k, t) /\ limit \in Nat \ {0} /\ windowSize \in Nat \ {0} /\ Steady(s)
  BY DEF SlideOK, WindowSizes
<1>2. \A f, u : /\ Between(s, f, u) \in Nat
                /\ Between(r, f, u) = Between(s, f, u) + (IF t \in f..u THEN 1 ELSE 0)
  BY PastNow
<1>3. \A f, u : /\ Between(k, f, u) \in Nat
                /\ Between(m, f, u) = Between(k, f, u) + (IF t \in f..u THEN 1 ELSE 0)
  BY <1>1, PastNow
<1>4. Past(m, t) /\ k \in Seq(Nat) /\ s \in Seq(Nat)
  BY <1>1, PastNow
<1>5. Len(m) = Len(k) + 1 /\ Len(k) \in Nat
  BY <1>4
<1> HIDE DEF r, m
<1>6. ASSUME NEW f \in Int, f > t - windowSize PROVE Between(m, f, t) = Between(r, f, t)
  <2>1. Between(k, f, t) = Between(s, f, t)
    BY <1>6 DEF SlideOK
  <2> QED
    BY <1>2, <1>3, <2>1
<1>7. ASSUME NEW f \in Nat, NEW u \in Int, u = f + windowSize - 1 PROVE Between(r, f, u) <= limit
  <2>1. CASE t \notin f..u
    <3>1. Between(s, f, u) <= limit
      BY <1>1, <1>7 DEF Steady
    <3> QED
      BY <1>2, <2>1, <3>1
  <2>2. CASE t \in f..u
    <3>1. \A i \in DOMAIN s : s[i] \in f..u => s[i] \in (t - windowSize + 1)..t
      <4>1. \A i \in DOMAIN s : s[i] \in Nat /\ s[i] <= t
        BY DEF Past
      <4> QED
        BY <1>1, <1>7, <2>2, <4>1
    <3>2. Between(s, f, u) <= Between(s, t - windowSize + 1, t)
      BY <1>4, <3>1, BetweenMore
    <3>3. Between(s, f, u) \in Nat /\ Between(s, t - windowSize + 1, t) \in Nat
      BY <1>2
    <3>4. Between(r, f, u) = Between(s, f, u) + 1
      BY <1>2, <2>2
    <3> QED
      BY <1>1, <3>2, <3>3, <3>4
  <2> QED
    BY <2>1, <2>2
<1>8. Steady(r)
  BY <1>1, <1>7 DEF Steady
<1>9. SlideOK(m, r, t)
  BY <1>1, <1>4, <1>5, <1>6, <1>8 DEF SlideOK
<1> QED
  BY <1>9 DEF m, r

(* A request refused meets a full window.                                  *)
LEMMA SlideRefused ==
  ASSUME WindowSizes, NEW t \in Nat, NEW s, Past(s, t), NEW n, n = Between(s, t - windowSize + 1, t),
         ~(n < limit)
  PROVE  \E f \in 0..t : f > t - windowSize /\ Between(s, f, t) >= limit
<1>1. limit \in Nat /\ windowSize \in Nat \ {0} /\ n \in Nat
  BY PastNow DEF WindowSizes
<1>2. CASE t - windowSize + 1 >= 0
  <2>1. t - windowSize + 1 \in 0..t /\ t - windowSize + 1 > t - windowSize
    BY <1>1, <1>2
  <2> QED
    BY <1>1, <2>1
<1>3. CASE ~(t - windowSize + 1 >= 0)
  <2>1. 0 \in 0..t /\ 0 > t - windowSize
    BY <1>1, <1>3
  <2>2. \A i \in DOMAIN s : s[i] \in (t - windowSize + 1)..t <=> s[i] \in 0..t
    BY <1>1, <1>3 DEF Past
  <2>3. Between(s, 0, t) = n
    BY <2>2, BetweenSame
  <2> QED
    BY <1>1, <2>1, <2>3
<1> QED
  BY <1>2, <1>3

-----------------------------------------------------------------------------
(* The limiters' state of one client: f is the state per client, s the     *)
(* times of the requests let through so far.                               *)
Refilled(f, c, t) ==
  IF c \in DOMAIN f
  THEN Limiters!Least(FullBucket, f[c].tokens + (t - f[c].lastRefill)) ELSE FullBucket
BucketOK(f, c, s, t) ==
  /\ c \in DOMAIN f => f[c] \in [tokens : 0..FullBucket, lastRefill : 0..t]
  /\ TokenOK(Refilled(f, c, t), s, t)

(* The state of one client is put, that of the others is left.             *)
Puts(g, f, c, v) ==
  /\ DOMAIN g = DOMAIN f \cup {c} /\ g[c] = v
  /\ \A d \in DOMAIN f : d # c => g[d] = f[d]

(* It is what Put does.                                                    *)
LEMMA PutPuts == \A f, c, v : Puts(Limiters!Put(f, c, v), f, c, v)
BY DEF Puts, Limiters!Put

(* The token bucket: a moment later, after a request, and of the others.   *)
LEMMA BucketPass ==
  ASSUME TokenSizes, NEW t \in Nat, NEW s, Past(s, t), NEW f, NEW c, BucketOK(f, c, s, t),
         NEW q, q = t + 1
  PROVE  BucketOK(f, c, s, q)
<1> DEFINE a == Refilled(f, c, t)
           b == Refilled(f, c, q)
<1>1. FullBucket \in Nat /\ TokenOK(a, s, t)
  BY CostNow DEF BucketOK
<1>2. b = IF FullBucket < a + 1 THEN FullBucket ELSE a + 1
  <2>1. CASE c \in DOMAIN f
    <3>1. PICK x \in Nat, l \in Nat : x = f[c].tokens /\ l = f[c].lastRefill /\ l <= t
      BY <2>1, <1>1 DEF BucketOK
    <3>2. /\ a = IF FullBucket < x + (t - l) THEN FullBucket ELSE x + (t - l)
          /\ b = IF FullBucket < x + (q - l) THEN FullBucket ELSE x + (q - l)
      BY <2>1, <3>1 DEF Refilled, Limiters!Least
    <3> HIDE DEF a, b
    <3> QED
      BY <1>1, <3>1, <3>2
  <2>2. CASE c \notin DOMAIN f
    <3>1. a = FullBucket /\ b = FullBucket
      BY <2>2 DEF Refilled
    <3> QED
      BY <1>1, <3>1
  <2> QED
    BY <2>1, <2>2
<1>3. TokenOK(b, s, q)
  <2> HIDE DEF a, b
  <2>1. TokenOK(b, s, t + 1)
    BY <1>1, <1>2, TokenPass
  <2> QED
    BY <2>1
<1>4. c \in DOMAIN f => f[c] \in [tokens : 0..FullBucket, lastRefill : 0..q]
  BY <1>1 DEF BucketOK
<1> QED
  BY <1>3, <1>4 DEF BucketOK

(* After a request the bucket is as it was put.                            *)
LEMMA BucketPut ==
  ASSUME TokenSizes, NEW t \in Nat, NEW r, NEW f, NEW c, NEW v, NEW g, Puts(g, f, c, v),
         v \in [tokens : Int, lastRefill : {t}], TokenOK(v.tokens, r, t)
  PROVE  BucketOK(g, c, r, t)
<1>1. g[c] = v /\ c \in DOMAIN g
  BY DEF Puts
<1>2. FullBucket \in Nat /\ v.tokens \in 0..FullBucket
  BY DEF TokenOK, FullBucket, TokenSizes
<1>3. Refilled(g, c, t) = v.tokens
  <2>1. PICK x \in Nat : x = v.tokens /\ x <= FullBucket
    BY <1>2
  <2>2. Refilled(g, c, t) = IF FullBucket < x + (t - t) THEN FullBucket ELSE x + (t - t)
    BY <1>1, <2>1 DEF Refilled, Limiters!Least
  <2> QED
    BY <1>2, <2>1, <2>2
<1>4. v \in [tokens : 0..FullBucket, lastRefill : 0..t]
  BY <1>2
<1> QED
  BY <1>1, <1>3, <1>4 DEF BucketOK

(* Another client's request leaves the bucket.                             *)
LEMMA BucketOther ==
  ASSUME NEW t, NEW s, NEW f, NEW c, NEW v, NEW g, Puts(g, f, c, v), NEW d, d # c,
         BucketOK(f, d, s, t)
  PROVE  BucketOK(g, d, s, t)
<1>1. (d \in DOMAIN g <=> d \in DOMAIN f) /\ (d \in DOMAIN f => g[d] = f[d])
  BY DEF Puts
<1>2. Refilled(g, d, t) = Refilled(f, d, t)
  BY <1>1, Zenon DEF Refilled
<1> QED
  BY <1>1, <1>2, Zenon DEF BucketOK

-----------------------------------------------------------------------------
(* The leaky bucket: how many requests have leaked, and how far the leaks  *)
(* have come.                                                              *)
Left(f, c, t) ==
  IF c \in DOMAIN f THEN Limiters!Most(0, f[c].queueSize - (t - f[c].lastLeak) \div leakEvery) ELSE 0
LeaksTo(f, c, t) ==
  IF c \in DOMAIN f THEN f[c].lastLeak + ((t - f[c].lastLeak) \div leakEvery) * leakEvery ELSE t
QueueOK(f, c, s, t) ==
  /\ c \in DOMAIN f => f[c] \in [queueSize : 0..depth, lastLeak : 0..t]
  /\ c \notin DOMAIN f => s = <<>>
  /\ LeakOK(Left(f, c, t), LeaksTo(f, c, t), s, t)

(* A moment later the same number has leaked, or one more.                 *)
LEMMA NextQuotient ==
  ASSUME NEW d \in Nat \ {0}, NEW x \in Nat
  PROVE  /\ x \div d \in Nat
         /\ \/ (x + 1) \div d = x \div d /\ x + 1 < (x \div d) * d + d
            \/ (x + 1) \div d = x \div d + 1 /\ x + 1 = (x \div d) * d + d
<1>1. PICK q, r : q = x \div d /\ r = x % d
  OBVIOUS
<1>2. q \in Nat /\ r \in 0..(d - 1) /\ x = d * q + r
  BY <1>1
<1>3. PICK p, m : p = (x + 1) \div d /\ m = (x + 1) % d
  OBVIOUS
<1>4. p \in Nat /\ m \in 0..(d - 1) /\ x + 1 = d * p + m
  BY <1>3
<1>5. d * q = q * d /\ d * q \in Nat /\ d * (q + 1) = d * q + d
  BY <1>2
<1>6. CASE x + 1 < d * q + d
  <2>1. p <= q
    <3>1. SUFFICES ASSUME p >= q + 1 PROVE FALSE
      BY <1>2, <1>4
    <3>2. PICK e \in Nat : p = q + 1 + e
      <4>1. p - (q + 1) \in Nat /\ p = q + 1 + (p - (q + 1))
        BY <1>2, <1>4, <3>1
      <4> QED
        BY <4>1
    <3>3. d * p = d * q + d + d * e /\ d * e \in Nat
      BY <1>2, <3>2
    <3> QED
      BY <1>4, <1>5, <1>6, <3>3
  <2>2. d * q <= x + 1
    BY <1>2, <1>5
  <2>3. q <= (x + 1) \div d
    BY <1>2, <2>2, Quotient
  <2>4. p = q
    BY <1>2, <1>3, <1>4, <2>1, <2>3
  <2> QED
    BY <1>1, <1>2, <1>3, <1>5, <1>6, <2>4
<1>7. CASE ~(x + 1 < d * q + d)
  <2>1. x + 1 = d * q + d
    BY <1>2, <1>5, <1>7
  <2>2. q + 1 <= (x + 1) \div d
    <3>1. d * (q + 1) <= x + 1 /\ q + 1 \in Int
      BY <1>2, <1>5, <2>1
    <3> QED
      BY <3>1, Quotient
  <2>3. p <= q + 1
    <3>1. SUFFICES ASSUME p >= q + 2 PROVE FALSE
      BY <1>2, <1>4
    <3>2. PICK e \in Nat : p = q + 2 + e
      <4>1. p - (q + 2) \in Nat /\ p = q + 2 + (p - (q + 2))
        BY <1>2, <1>4, <3>1
      <4> QED
        BY <4>1
    <3>3. d * p = d * q + d + d + d * e /\ d * e \in Nat
      BY <1>2, <3>2
    <3> QED
      BY <1>4, <1>5, <2>1, <3>3
  <2>4. p = q + 1
    BY <1>2, <1>3, <1>4, <2>2, <2>3
  <2> QED
    BY <1>1, <1>2, <1>3, <1>5, <2>1, <2>4
<1> QED
  BY <1>6, <1>7

(* The queue a moment later.                                               *)
LEMMA QueuePass ==
  ASSUME QueueSizes, NEW t \in Nat, NEW s, Past(s, t), NEW f, NEW c, QueueOK(f, c, s, t),
         NEW q \in Nat, q = t + 1
  PROVE  QueueOK(f, c, s, q)
<1>1. c \in DOMAIN f => f[c] \in [queueSize : 0..depth, lastLeak : 0..q]
  BY DEF QueueOK
<1>2. c \notin DOMAIN f => s = <<>>
  BY DEF QueueOK
<1>3. CASE c \notin DOMAIN f
  <2>1. Left(f, c, q) = 0 /\ LeaksTo(f, c, q) = q /\ s = <<>>
    BY <1>2, <1>3 DEF Left, LeaksTo
  <2>2. LeakOK(0, q, <<>>, q)
    BY LeakNew
  <2> QED
    BY <1>1, <1>3, <2>1, <2>2 DEF QueueOK
<1>4. CASE c \in DOMAIN f
  <2>1. PICK n \in Nat, l \in Nat : n = f[c].queueSize /\ l = f[c].lastLeak /\ n <= depth /\ l <= t
    BY <1>4 DEF QueueOK, QueueSizes
  <2>2. PICK x \in Nat : x = t - l
    BY <2>1
  <2>3. q - l = x + 1
    BY <2>1, <2>2
  <2>4. leakEvery \in Nat \ {0}
    BY DEF QueueSizes
  <2> DEFINE k == x \div leakEvery
             p == (x + 1) \div leakEvery
             m == Left(f, c, t)
             e == LeaksTo(f, c, t)
             y == Left(f, c, q)
             z == LeaksTo(f, c, q)
  <2>5. /\ m = IF 0 > n - k THEN 0 ELSE n - k
        /\ e = l + k * leakEvery
    BY <1>4, <2>1, <2>2 DEF Left, LeaksTo, Limiters!Most
  <2>6. /\ y = IF 0 > n - p THEN 0 ELSE n - p
        /\ z = l + p * leakEvery
    BY <1>4, <2>1, <2>3 DEF Left, LeaksTo, Limiters!Most
  <2>7. /\ k \in Nat
        /\ \/ p = k /\ x + 1 < k * leakEvery + leakEvery
           \/ p = k + 1 /\ x + 1 = k * leakEvery + leakEvery
    BY <2>4, NextQuotient
  <2>8. LeakOK(m, e, s, t)
    BY DEF QueueOK
  <2>9. k * leakEvery \in Nat
    BY <2>4, <2>7
  <2> HIDE DEF k, p, m, e, y, z
  <2>10. CASE p = k /\ x + 1 < k * leakEvery + leakEvery
    <3>1. m = y /\ e = z
      BY <2>5, <2>6, <2>10
    <3>2. t + 1 < e + leakEvery
      BY <2>1, <2>2, <2>4, <2>5, <2>9, <2>10
    <3>3. LeakOK(m, e, s, t + 1)
      BY <2>8, <3>2, LeakPass
    <3> QED
      BY <1>1, <1>4, <3>1, <3>3 DEF QueueOK, y, z
  <2>11. CASE p = k + 1 /\ x + 1 = k * leakEvery + leakEvery
    <3>1. q = e + leakEvery
      BY <2>1, <2>2, <2>4, <2>5, <2>9, <2>11
    <3>2. z = q
      <4>1. (k + 1) * leakEvery = k * leakEvery + leakEvery
        BY <2>4, <2>7
      <4> QED
        BY <2>1, <2>2, <2>4, <2>6, <2>9, <2>11, <4>1
    <3>3. y = IF m = 0 THEN 0 ELSE m - 1
      BY <2>1, <2>5, <2>6, <2>7, <2>11
    <3>4. LeakOK(y, q, s, q)
      BY <2>8, <3>1, <3>3, LeakDrop
    <3> QED
      BY <1>1, <1>4, <3>2, <3>4 DEF QueueOK, y, z
  <2> QED
    BY <2>7, <2>10, <2>11
<1> QED
  BY <1>3, <1>4

(* After a request the queue is as it was put.                             *)
LEMMA QueuePut ==
  ASSUME QueueSizes, NEW t \in Nat, NEW r, NEW f, NEW c, NEW v, NEW g, Puts(g, f, c, v),
         v \in [queueSize : Int, lastLeak : Int], LeakOK(v.queueSize, v.lastLeak, r, t)
  PROVE  QueueOK(g, c, r, t)
<1>1. g[c] = v /\ c \in DOMAIN g
  BY DEF Puts
<1>2. PICK n, l : n = v.queueSize /\ l = v.lastLeak
  OBVIOUS
<1>3. n \in Nat /\ n <= depth /\ l \in Nat /\ l <= t /\ t < l + leakEvery /\ leakEvery \in Nat \ {0}
  BY <1>2, LeakNumbers
<1>4. (t - l) \div leakEvery = 0
  BY <1>3
<1>5. Left(g, c, t) = n
  <2>1. Left(g, c, t) = IF 0 > n - (t - l) \div leakEvery THEN 0 ELSE n - (t - l) \div leakEvery
    BY <1>1, <1>2 DEF Left, Limiters!Most
  <2> QED
    BY <1>3, <1>4, <2>1
<1>6. LeaksTo(g, c, t) = l
  <2>1. LeaksTo(g, c, t) = l + ((t - l) \div leakEvery) * leakEvery
    BY <1>1, <1>2 DEF LeaksTo
  <2>2. 0 * leakEvery = 0
    BY <1>3
  <2> QED
    BY <1>3, <1>4, <2>1, <2>2
<1>7. v \in [queueSize : 0..depth, lastLeak : 0..t]
  <2>1. n \in 0..depth /\ l \in 0..t
    BY <1>3 DEF QueueSizes
  <2> QED
    BY <1>2, <2>1
<1> QED
  BY <1>1, <1>2, <1>5, <1>6, <1>7 DEF QueueOK

(* Another client's request leaves the queue.                              *)
LEMMA QueueOther ==
  ASSUME NEW t, NEW s, NEW f, NEW c, NEW v, NEW g, Puts(g, f, c, v), NEW d, d # c,
         QueueOK(f, d, s, t)
  PROVE  QueueOK(g, d, s, t)
<1>1. (d \in DOMAIN g <=> d \in DOMAIN f) /\ (d \in DOMAIN f => g[d] = f[d])
  BY DEF Puts
<1>2. Left(g, d, t) = Left(f, d, t) /\ LeaksTo(g, d, t) = LeaksTo(f, d, t)
  BY <1>1, Zenon DEF Left, LeaksTo
<1> QED
  BY <1>1, <1>2, Zenon DEF QueueOK

-----------------------------------------------------------------------------
(* The windows of one client.                                              *)
WindowOK(f, c, s, t) ==
  IF c \in DOMAIN f
  THEN f[c] \in [count : Int, windowStart : Int] /\ FixedOK(f[c].count, f[c].windowStart, s, t)
  ELSE s = <<>>
LogOK(f, c, s, t) == IF c \in DOMAIN f THEN SlideOK(f[c], s, t) ELSE s = <<>>

(* A moment later.                                                         *)
LEMMA WindowsPass ==
  ASSUME WindowSizes, NEW t \in Nat, NEW s, Past(s, t), NEW f, NEW c, NEW q, q = t + 1
  PROVE  /\ WindowOK(f, c, s, t) => WindowOK(f, c, s, q)
         /\ LogOK(f, c, s, t) => LogOK(f, c, s, q)
<1>1. ASSUME WindowOK(f, c, s, t), c \in DOMAIN f PROVE FixedOK(f[c].count, f[c].windowStart, s, q)
  <2>1. FixedOK(f[c].count, f[c].windowStart, s, t)
    BY <1>1 DEF WindowOK
  <2> QED
    BY <2>1, FixedPass
<1>2. ASSUME LogOK(f, c, s, t), c \in DOMAIN f PROVE SlideOK(f[c], s, q)
  <2>1. SlideOK(f[c], s, t)
    BY <1>2 DEF LogOK
  <2> QED
    BY <2>1, SlidePass
<1> QED
  BY <1>1, <1>2 DEF WindowOK, LogOK

(* The clients that do not ask keep their windows.                         *)
LEMMA WindowsOther ==
  ASSUME NEW t, NEW s, NEW f, NEW c, NEW v, NEW g, Puts(g, f, c, v), NEW d, d # c
  PROVE  /\ WindowOK(f, d, s, t) => WindowOK(g, d, s, t)
         /\ LogOK(f, d, s, t) => LogOK(g, d, s, t)
<1>1. (d \in DOMAIN g <=> d \in DOMAIN f) /\ (d \in DOMAIN f => g[d] = f[d])
  BY DEF Puts
<1> QED
  BY <1>1, Zenon DEF WindowOK, LogOK

(* A request put to each limiter: what it passed is counted, and a request *)
(* it refuses meets a span that is used up.                                *)
LEMMA TokenRequest ==
  ASSUME TokenSizes, NEW t \in Nat, NEW s, Past(s, t), NEW f, NEW c, BucketOK(f, c, s, t),
         NEW a, a = Refilled(f, c, t), NEW v, NEW g, Puts(g, f, c, v),
         v = [tokens |-> IF a >= refillEvery THEN a - refillEvery ELSE a, lastRefill |-> t],
         NEW r, r = IF a >= refillEvery THEN Append(s, t) ELSE s
  PROVE  /\ BucketOK(g, c, r, t)
         /\ a >= refillEvery
              \/ \E u \in 0..t : Between(s, u, t) + 1 > capacity + (t - u) \div refillEvery
<1>1. TokenOK(a, s, t)
  BY DEF BucketOK
<1>2. a \in Int /\ refillEvery \in Int
  BY <1>1 DEF TokenOK, TokenSizes
<1>3. v \in [tokens : Int, lastRefill : {t}]
  BY <1>2
<1>4. CASE a >= refillEvery
  <2>1. v.tokens = a - refillEvery /\ r = Append(s, t)
    BY <1>4
  <2>2. TokenOK(a - refillEvery, Append(s, t), t)
    BY <1>1, <1>4, TokenTaken
  <2>3. TokenOK(v.tokens, r, t)
    BY <2>1, <2>2
  <2> QED
    BY <1>3, <1>4, <2>3, BucketPut
<1>5. CASE ~(a >= refillEvery)
  <2>1. v.tokens = a /\ r = s
    BY <1>5
  <2>2. TokenOK(v.tokens, r, t)
    BY <1>1, <2>1
  <2>3. BucketOK(g, c, r, t)
    BY <1>3, <2>2, BucketPut
  <2>4. \E u \in 0..t : Between(s, u, t) + 1 > capacity + (t - u) \div refillEvery
    BY <1>1, <1>5, TokenRefused
  <2> QED
    BY <2>3, <2>4
<1> QED
  BY <1>4, <1>5

(* A request put to the leaky bucket.                                      *)
LEMMA QueueRequest ==
  ASSUME QueueSizes, NEW t \in Nat, NEW s, Past(s, t), NEW f, NEW c, QueueOK(f, c, s, t),
         NEW n, n = Left(f, c, t), NEW l, l = LeaksTo(f, c, t), NEW v, NEW g, Puts(g, f, c, v),
         v = [queueSize |-> IF n < depth THEN n + 1 ELSE n, lastLeak |-> l],
         NEW r, r = IF n < depth THEN Append(s, t) ELSE s
  PROVE  /\ QueueOK(g, c, r, t)
         /\ n < depth \/ \E u \in 0..t : Between(s, u, t) + 1 > depth + (t - u) \div leakEvery
<1>1. LeakOK(n, l, s, t)
  BY DEF QueueOK
<1>2. n \in Nat /\ l \in Nat
  BY <1>1, LeakNumbers
<1>3. v \in [queueSize : Int, lastLeak : Int]
  BY <1>2
<1>4. CASE n < depth
  <2>1. v.queueSize = n + 1 /\ v.lastLeak = l /\ r = Append(s, t)
    BY <1>4
  <2>2. LeakOK(n + 1, l, Append(s, t), t)
    BY <1>1, <1>4, LeakTaken
  <2>3. LeakOK(v.queueSize, v.lastLeak, r, t)
    BY <2>1, <2>2
  <2> QED
    BY <1>3, <1>4, <2>3, QueuePut
<1>5. CASE ~(n < depth)
  <2>1. v.queueSize = n /\ v.lastLeak = l /\ r = s
    BY <1>5
  <2>2. LeakOK(v.queueSize, v.lastLeak, r, t)
    BY <1>1, <2>1
  <2>3. QueueOK(g, c, r, t)
    BY <1>3, <2>2, QueuePut
  <2>4. \E u \in 0..t : Between(s, u, t) + 1 > depth + (t - u) \div leakEvery
    BY <1>1, <1>5, LeakRefused
  <2> QED
    BY <2>3, <2>4
<1> QED
  BY <1>4, <1>5

(* The window a request finds: a new one, or the one begun.                *)
Fresh(f, c, t) == c \notin DOMAIN f \/ t - f[c].windowStart >= windowSize
CountNow(f, c, t) == IF Fresh(f, c, t) THEN 0 ELSE f[c].count
StartNow(f, c, t) == IF Fresh(f, c, t) THEN t ELSE f[c].windowStart

(* A request put to the fixed window.                                      *)
LEMMA WindowRequest ==
  ASSUME WindowSizes, NEW t \in Nat, NEW s, Past(s, t), NEW f, NEW c, WindowOK(f, c, s, t),
         NEW n, n = CountNow(f, c, t), NEW b, b = StartNow(f, c, t), NEW v, NEW g, Puts(g, f, c, v),
         v = [count |-> IF n < limit THEN n + 1 ELSE n, windowStart |-> b],
         NEW r, r = IF n < limit THEN Append(s, t) ELSE s
  PROVE  /\ WindowOK(g, c, r, t)
         /\ n < limit \/ \E u \in 0..t : u > t - windowSize /\ Between(s, u, t) >= limit
<1>0. c \in DOMAIN g /\ g[c] = v /\ limit \in Nat \ {0}
  BY DEF Puts, WindowSizes
<1>1. CASE c \notin DOMAIN f
  <2>1. n = 0 /\ b = t /\ s = <<>>
    BY <1>1 DEF CountNow, StartNow, Fresh, WindowOK
  <2>2. v = [count |-> 1, windowStart |-> t] /\ r = Append(<<>>, t) /\ n < limit
    BY <1>0, <2>1
  <2>3. FixedOK(1, t, Append(<<>>, t), t)
    BY FixedFirst
  <2>4. g[c] \in [count : Int, windowStart : Int] /\ g[c].count = 1 /\ g[c].windowStart = t
    BY <1>0, <2>2
  <2>5. WindowOK(g, c, r, t)
    BY <1>0, <2>2, <2>3, <2>4, Zenon DEF WindowOK
  <2> QED
    BY <2>2, <2>5
<1>2. CASE c \in DOMAIN f /\ t - f[c].windowStart >= windowSize
  <2>1. n = 0 /\ b = t /\ FixedOK(f[c].count, f[c].windowStart, s, t)
    BY <1>2 DEF CountNow, StartNow, Fresh, WindowOK
  <2>2. v = [count |-> 1, windowStart |-> t] /\ r = Append(s, t) /\ n < limit
    BY <1>0, <2>1
  <2>3. FixedOK(1, t, Append(s, t), t)
    BY <1>2, <2>1, FixedAgain
  <2> QED
    BY <1>0, <2>2, <2>3 DEF WindowOK
<1>3. CASE c \in DOMAIN f /\ ~(t - f[c].windowStart >= windowSize)
  <2>1. /\ n = f[c].count /\ b = f[c].windowStart /\ n \in Int /\ b \in Int
        /\ FixedOK(n, b, s, t) /\ ~(t - b >= windowSize)
    BY <1>3 DEF CountNow, StartNow, Fresh, WindowOK
  <2>2. CASE n < limit
    <3>1. v = [count |-> n + 1, windowStart |-> b] /\ r = Append(s, t)
      BY <2>2
    <3>2. FixedOK(n + 1, b, Append(s, t), t)
      BY <2>1, <2>2, FixedTaken
    <3> QED
      BY <1>0, <2>1, <2>2, <3>1, <3>2 DEF WindowOK
  <2>3. CASE ~(n < limit)
    <3>1. v = [count |-> n, windowStart |-> b] /\ r = s
      BY <2>3
    <3>2. \E u \in 0..t : u > t - windowSize /\ Between(s, u, t) >= limit
      BY <2>1, <2>3, FixedRefused
    <3>3. WindowOK(g, c, r, t)
      BY <1>0, <2>1, <3>1 DEF WindowOK
    <3> QED
      BY <3>2, <3>3
  <2> QED
    BY <2>2, <2>3
<1> QED
  BY <1>1, <1>2, <1>3

(* The times a request finds in the sliding log.                           *)
LogNow(f, c, t) == IF c \in DOMAIN f THEN Kept(f[c], Recent(t)) ELSE <<>>

(* A request put to the sliding log.                                       *)
LEMMA LogRequest ==
  ASSUME WindowSizes, NEW t \in Nat, NEW s, Past(s, t), NEW f, NEW c, LogOK(f, c, s, t),
         NEW k, k = LogNow(f, c, t), NEW v, NEW g, Puts(g, f, c, v),
         v = IF Len(k) < limit THEN Append(k, t) ELSE k,
         NEW r, r = IF Len(k) < limit THEN Append(s, t) ELSE s
  PROVE  /\ LogOK(g, c, r, t)
         /\ Len(k) < limit \/ \E u \in 0..t : u > t - windowSize /\ Between(s, u, t) >= limit
<1>1. SlideOK(k, s, t) /\ Len(k) = Between(s, t - windowSize + 1, t)
  <2>1. CASE c \in DOMAIN f
    <3>1. k = Kept(f[c], Recent(t)) /\ SlideOK(f[c], s, t)
      BY <2>1 DEF LogOK, LogNow
    <3> QED
      BY <3>1, SlideKept
  <2>2. CASE c \notin DOMAIN f
    <3>1. k = <<>> /\ s = <<>>
      BY <2>2 DEF LogOK, LogNow
    <3>2. <<>> \in Seq(Nat) /\ Len(<<>>) = 0 /\ \A i \in DOMAIN <<>> : <<>>[i] \notin (t - windowSize + 1)..t
      OBVIOUS
    <3>3. Between(<<>>, t - windowSize + 1, t) = 0
      BY <3>2, BetweenNothing
    <3>4. SlideOK(<<>>, <<>>, t)
      BY SlideNew
    <3> QED
      BY <3>1, <3>2, <3>3, <3>4
  <2> QED
    BY <2>1, <2>2
<1>2. c \in DOMAIN g /\ g[c] = v
  BY DEF Puts
<1>3. CASE Len(k) < limit
  <2>1. SlideOK(Append(k, t), Append(s, t), t)
    BY <1>1, <1>3, SlideTaken
  <2> QED
    BY <1>2, <1>3, <2>1 DEF LogOK
<1>4. CASE ~(Len(k) < limit)
  <2>1. \E u \in 0..t : u > t - windowSize /\ Between(s, u, t) >= limit
    BY <1>1, <1>4, SlideRefused
  <2>2. LogOK(g, c, r, t)
    BY <1>1, <1>2, <1>4 DEF LogOK
  <2> QED
    BY <2>1, <2>2
<1> QED
  BY <1>3, <1>4

-----------------------------------------------------------------------------
(* The inductive invariant of the limiters.                                *)
ClientOK(c) ==
  /\ \A k \in Limiters!Kinds : Past(passed[k][c], time)
  /\ BucketOK(clientBuckets, c, passed["tokenBucket"][c], time)
  /\ QueueOK(clientQueues, c, passed["leakyBucket"][c], time)
  /\ WindowOK(clientWindows, c, passed["fixedWindow"][c], time)
  /\ LogOK(clientLogs, c, passed["slidingLog"][c], time)
LimiterTypes ==
  /\ time \in Nat
  /\ asked \in [Clients -> Int]
  /\ passed \in [Limiters!Kinds -> [Clients -> Seq(Nat)]]
  /\ DOMAIN clientBuckets \subseteq Clients /\ DOMAIN clientQueues \subseteq Clients
  /\ DOMAIN clientWindows \subseteq Clients /\ DOMAIN clientLogs \subseteq Clients
LimInv == LimiterTypes /\ \A c \in Clients : ClientOK(c)

(* The sizes of the limiters are what the lemmas assume.                   *)
LEMMA LimiterSizes ==
  ASSUME Limiters!ConstantsFit
  PROVE  TokenSizes /\ QueueSizes /\ WindowSizes
BY DEF Limiters!ConstantsFit, TokenSizes, QueueSizes, WindowSizes

(* A moment later.                                                         *)
LEMMA LimitersPass ==
  ASSUME Limiters!ConstantsFit, LimInv, Limiters!Pass
  PROVE  LimInv'
<1>1. /\ time' = time + 1 /\ asked' = asked /\ passed' = passed
      /\ clientBuckets' = clientBuckets /\ clientQueues' = clientQueues
      /\ clientWindows' = clientWindows /\ clientLogs' = clientLogs
  BY DEF Limiters!Pass, Limiters!limiterVars
<1>2. TokenSizes /\ QueueSizes /\ WindowSizes
  BY LimiterSizes
<1>3. time \in Nat /\ time' \in Nat
  BY <1>1 DEF LimInv, LimiterTypes
<1>4. LimiterTypes'
  BY <1>1, <1>3 DEF LimInv, LimiterTypes
<1>5. ASSUME NEW c \in Clients PROVE ClientOK(c)'
  <2>0. ClientOK(c)
    BY DEF LimInv
  <2>1. {"tokenBucket", "leakyBucket", "fixedWindow", "slidingLog"} \subseteq Limiters!Kinds
    BY DEF Limiters!Kinds
  <2>2. \A k \in Limiters!Kinds : Past(passed[k][c], time)
    BY <2>0 DEF ClientOK
  <2>3. \A k \in Limiters!Kinds : Past(passed'[k][c], time')
    <3>1. ASSUME NEW k \in Limiters!Kinds PROVE Past(passed[k][c], time + 1)
      BY <1>3, <2>2, PastNow
    <3> QED
      BY <1>1, <3>1
  <2>4. BucketOK(clientBuckets, c, passed["tokenBucket"][c], time')
    <3>1. BucketOK(clientBuckets, c, passed["tokenBucket"][c], time)
      BY <2>0 DEF ClientOK
    <3>2. Past(passed["tokenBucket"][c], time)
      BY <2>1, <2>2
    <3> QED
      BY <1>1, <1>2, <1>3, <3>1, <3>2, BucketPass
  <2>5. QueueOK(clientQueues, c, passed["leakyBucket"][c], time')
    <3>1. QueueOK(clientQueues, c, passed["leakyBucket"][c], time)
      BY <2>0 DEF ClientOK
    <3>2. Past(passed["leakyBucket"][c], time)
      BY <2>1, <2>2
    <3> QED
      BY <1>1, <1>2, <1>3, <3>1, <3>2, QueuePass
  <2>6. WindowOK(clientWindows, c, passed["fixedWindow"][c], time')
    <3>1. WindowOK(clientWindows, c, passed["fixedWindow"][c], time)
      BY <2>0 DEF ClientOK
    <3>2. Past(passed["fixedWindow"][c], time)
      BY <2>1, <2>2
    <3> QED
      BY <1>1, <1>2, <1>3, <3>1, <3>2, WindowsPass
  <2>7. LogOK(clientLogs, c, passed["slidingLog"][c], time')
    <3>1. LogOK(clientLogs, c, passed["slidingLog"][c], time)
      BY <2>0 DEF ClientOK
    <3>2. Past(passed["slidingLog"][c], time)
      BY <2>1, <2>2
    <3> QED
      BY <1>1, <1>2, <1>3, <3>1, <3>2, WindowsPass
  <2> QED
    BY <1>1, <2>3, <2>4, <2>5, <2>6, <2>7 DEF ClientOK
<1> QED
  BY <1>4, <1>5 DEF LimInv

(* What the limiters' operators are of the state of one client.            *)
LEMMA TokenState ==
  ASSUME NEW c
  PROVE  LET a == Refilled(clientBuckets, c, time) IN
         /\ Limiters!Allow("tokenBucket", c) <=> a >= refillEvery
         /\ Limiters!TokenBucketAfter(c)
              = [tokens |-> IF a >= refillEvery THEN a - refillEvery ELSE a, lastRefill |-> time]
<1> DEFINE a == Refilled(clientBuckets, c, time)
<1>1. Limiters!Bucket(c) = [tokens |-> a, lastRefill |-> time]
  BY DEF Limiters!Bucket, Limiters!Capped, Refilled, FullBucket
<1>2. Limiters!Allow("tokenBucket", c) <=> Limiters!TokenBucketAllow(c)
  BY DEF Limiters!Allow
<1> HIDE DEF a
<1>3. Limiters!TokenBucketAllow(c) <=> a >= refillEvery
  BY <1>1 DEF Limiters!TokenBucketAllow
<1>4. Limiters!TokenBucketAfter(c)
        = [tokens |-> IF a >= refillEvery THEN a - refillEvery ELSE a, lastRefill |-> time]
  <2>1. CASE a >= refillEvery
    BY <1>1, <1>3, <2>1 DEF Limiters!TokenBucketAfter
  <2>2. CASE ~(a >= refillEvery)
    BY <1>1, <1>3, <2>2 DEF Limiters!TokenBucketAfter
  <2> QED
    BY <2>1, <2>2
<1> QED
  BY <1>2, <1>3, <1>4 DEF a

(* The leaky bucket's.                                                     *)
LEMMA QueueState ==
  ASSUME QueueSizes, time \in Nat, NEW c, NEW s, QueueOK(clientQueues, c, s, time)
  PROVE  LET n == Left(clientQueues, c, time)
             l == LeaksTo(clientQueues, c, time)
         IN  /\ Limiters!Allow("leakyBucket", c) <=> n < depth
             /\ Limiters!LeakyBucketAfter(c)
                  = [queueSize |-> IF n < depth THEN n + 1 ELSE n, lastLeak |-> l]
<1> DEFINE n == Left(clientQueues, c, time)
           l == LeaksTo(clientQueues, c, time)
           q == clientQueues[c]
<1>1. Limiters!Queue(c) = [queueSize |-> n, lastLeak |-> l]
  <2>1. CASE c \notin DOMAIN clientQueues
    BY <2>1 DEF Limiters!Queue, Left, LeaksTo
  <2>2. CASE c \in DOMAIN clientQueues
    <3>1. q \in [queueSize : 0..depth, lastLeak : 0..time]
      BY <2>2 DEF QueueOK
    <3>2. PICK k : k = (time - q.lastLeak) \div leakEvery
      OBVIOUS
    <3>3. CASE k = 0
      <4>1. Limiters!Queue(c) = q
        BY <2>2, <3>2, <3>3 DEF Limiters!Queue
      <4>2. n = Limiters!Most(0, q.queueSize - k) /\ l = q.lastLeak + k * leakEvery
        BY <2>2, <3>2 DEF Left, LeaksTo
      <4>3. 0 * leakEvery = 0
        BY DEF QueueSizes
      <4>4. n = q.queueSize /\ l = q.lastLeak
        BY <3>1, <3>3, <4>2, <4>3 DEF Limiters!Most, QueueSizes
      <4> QED
        BY <3>1, <4>1, <4>4
    <3>4. CASE k # 0
      BY <2>2, <3>2, <3>4 DEF Limiters!Queue, Limiters!LeakTime, Left, LeaksTo
    <3> QED
      BY <3>3, <3>4
  <2> QED
    BY <2>1, <2>2
<1>2. Limiters!Allow("leakyBucket", c) <=> Limiters!LeakyBucketAllow(c)
  BY DEF Limiters!Allow
<1> HIDE DEF n, l
<1>3. Limiters!LeakyBucketAllow(c) <=> n < depth
  BY <1>1 DEF Limiters!LeakyBucketAllow
<1>4. Limiters!LeakyBucketAfter(c) = [queueSize |-> IF n < depth THEN n + 1 ELSE n, lastLeak |-> l]
  <2>1. CASE n < depth
    BY <1>1, <1>3, <2>1 DEF Limiters!LeakyBucketAfter
  <2>2. CASE ~(n < depth)
    BY <1>1, <1>3, <2>2 DEF Limiters!LeakyBucketAfter
  <2> QED
    BY <2>1, <2>2
<1> QED
  BY <1>2, <1>3, <1>4 DEF n, l

(* The fixed window's.                                                     *)
LEMMA WindowState ==
  ASSUME NEW c, NEW s, WindowOK(clientWindows, c, s, time)
  PROVE  LET n == CountNow(clientWindows, c, time)
             b == StartNow(clientWindows, c, time)
         IN  /\ Limiters!Allow("fixedWindow", c) <=> n < limit
             /\ Limiters!FixedWindowAfter(c)
                  = [count |-> IF n < limit THEN n + 1 ELSE n, windowStart |-> b]
<1> DEFINE n == CountNow(clientWindows, c, time)
           b == StartNow(clientWindows, c, time)
<1>1. Limiters!Window(c) = [count |-> n, windowStart |-> b]
  <2>1. CASE c \notin DOMAIN clientWindows
    BY <2>1 DEF Limiters!Window, CountNow, StartNow, Fresh
  <2>2. CASE c \in DOMAIN clientWindows
    <3>1. clientWindows[c] \in [count : Int, windowStart : Int]
      BY <2>2 DEF WindowOK
    <3>2. CASE time - clientWindows[c].windowStart >= windowSize
      BY <2>2, <3>2 DEF Limiters!Window, Limiters!WindowStart, CountNow, StartNow, Fresh
    <3>3. CASE ~(time - clientWindows[c].windowStart >= windowSize)
      <4>1. Limiters!Window(c) = clientWindows[c]
        BY <2>2, <3>3 DEF Limiters!Window
      <4>2. n = clientWindows[c].count /\ b = clientWindows[c].windowStart
        BY <2>2, <3>3 DEF CountNow, StartNow, Fresh
      <4> QED
        BY <3>1, <4>1, <4>2
    <3> QED
      BY <3>2, <3>3
  <2> QED
    BY <2>1, <2>2
<1>2. Limiters!Allow("fixedWindow", c) <=> Limiters!FixedWindowAllow(c)
  BY DEF Limiters!Allow
<1> HIDE DEF n, b
<1>3. Limiters!FixedWindowAllow(c) <=> n < limit
  BY <1>1 DEF Limiters!FixedWindowAllow
<1>4. Limiters!FixedWindowAfter(c) = [count |-> IF n < limit THEN n + 1 ELSE n, windowStart |-> b]
  <2>1. CASE n < limit
    BY <1>1, <1>3, <2>1 DEF Limiters!FixedWindowAfter
  <2>2. CASE ~(n < limit)
    BY <1>1, <1>3, <2>2 DEF Limiters!FixedWindowAfter
  <2> QED
    BY <2>1, <2>2
<1> QED
  BY <1>2, <1>3, <1>4 DEF n, b

(* The sliding log's.                                                      *)
LEMMA LogState ==
  ASSUME NEW c
  PROVE  LET k == LogNow(clientLogs, c, time) IN
         /\ Limiters!Allow("slidingLog", c) <=> Len(k) < limit
         /\ Limiters!SlidingLogAfter(c) = IF Len(k) < limit THEN Append(k, time) ELSE k
<1> DEFINE k == LogNow(clientLogs, c, time)
<1>1. \A s, T : Limiters!Kept(s, T) = Kept(s, T)
  BY DEF Limiters!Kept, Kept
<1>2. {ts \in Int : Limiters!InWindow(time - windowSize, ts)} = Recent(time)
  BY DEF Recent, Limiters!InWindow
<1>3. Limiters!Log(c) = k
  BY <1>1, <1>2 DEF Limiters!Log, LogNow
<1>4. Limiters!Allow("slidingLog", c) <=> Limiters!SlidingLogAllow(c)
  BY DEF Limiters!Allow
<1> HIDE DEF k
<1> QED
  BY <1>3, <1>4 DEF Limiters!SlidingLogAllow, Limiters!SlidingLogAfter, k

(* A request, put to the four limiters at once.                            *)
LEMMA PassedAfter ==
  ASSUME LimInv, NEW c \in Clients, Limiters!Request(c)
  PROVE  /\ passed' \in [Limiters!Kinds -> [Clients -> Seq(Nat)]]
         /\ \A k \in Limiters!Kinds :
              /\ passed'[k][c] = IF Limiters!Allow(k, c) THEN Append(passed[k][c], time) ELSE passed[k][c]
              /\ \A d \in Clients : d # c => passed'[k][d] = passed[k][d]
              /\ \A d \in Clients : Past(passed'[k][d], time)
<1>1. time \in Nat /\ passed \in [Limiters!Kinds -> [Clients -> Seq(Nat)]]
  BY DEF LimInv, LimiterTypes
<1>2. passed' = [k \in Limiters!Kinds |->
                   IF Limiters!Allow(k, c) THEN [passed[k] EXCEPT ![c] = Append(@, time)] ELSE passed[k]]
  BY DEF Limiters!Request
<1>3. ASSUME NEW k \in Limiters!Kinds
      PROVE  /\ passed'[k] \in [Clients -> Seq(Nat)]
             /\ passed'[k][c] = IF Limiters!Allow(k, c) THEN Append(passed[k][c], time) ELSE passed[k][c]
             /\ \A d \in Clients : d # c => passed'[k][d] = passed[k][d]
             /\ \A d \in Clients : Past(passed'[k][d], time)
  <2>1. passed[k] \in [Clients -> Seq(Nat)] /\ passed[k][c] \in Seq(Nat)
    BY <1>1
  <2>2. \A d \in Clients : Past(passed[k][d], time)
    BY DEF LimInv, ClientOK
  <2>3. Past(Append(passed[k][c], time), time) /\ Append(passed[k][c], time) \in Seq(Nat)
    BY <1>1, <2>1, <2>2, PastNow
  <2>4. CASE Limiters!Allow(k, c)
    <3>1. passed'[k] = [passed[k] EXCEPT ![c] = Append(passed[k][c], time)]
      BY <1>2, <2>4
    <3> QED
      BY <2>1, <2>2, <2>3, <2>4, <3>1
  <2>5. CASE ~Limiters!Allow(k, c)
    <3>1. passed'[k] = passed[k]
      BY <1>2, <2>5
    <3> QED
      BY <2>1, <2>2, <2>5, <3>1
  <2> QED
    BY <2>4, <2>5
<1>4. passed' \in [Limiters!Kinds -> [Clients -> Seq(Nat)]]
  BY <1>2, <1>3
<1> QED
  BY <1>3, <1>4

(* A request keeps the invariant, and a limiter that refuses it has let    *)
(* its client use up the bound.                                            *)
LEMMA LimitersRequest ==
  ASSUME Limiters!ConstantsFit, LimInv, NEW c \in Clients, Limiters!Request(c)
  PROVE  LimInv' /\ \A k \in Limiters!Kinds : Limiters!Allow(k, c) \/ Limiters!UsedUp(k, c)
<1>1. TokenSizes /\ QueueSizes /\ WindowSizes
  BY LimiterSizes
<1>2. /\ time \in Nat /\ time' = time /\ asked' = [asked EXCEPT ![c] = @ + 1]
      /\ Puts(clientBuckets', clientBuckets, c, Limiters!TokenBucketAfter(c))
      /\ Puts(clientQueues', clientQueues, c, Limiters!LeakyBucketAfter(c))
      /\ Puts(clientWindows', clientWindows, c, Limiters!FixedWindowAfter(c))
      /\ Puts(clientLogs', clientLogs, c, Limiters!SlidingLogAfter(c))
  BY PutPuts DEF LimInv, LimiterTypes, Limiters!Request
<1>3. /\ passed' \in [Limiters!Kinds -> [Clients -> Seq(Nat)]]
      /\ \A k \in Limiters!Kinds :
           /\ passed'[k][c] = IF Limiters!Allow(k, c) THEN Append(passed[k][c], time) ELSE passed[k][c]
           /\ \A d \in Clients : d # c => passed'[k][d] = passed[k][d]
           /\ \A d \in Clients : Past(passed'[k][d], time)
  BY PassedAfter
<1>4. {"tokenBucket", "leakyBucket", "fixedWindow", "slidingLog"} = Limiters!Kinds
  BY DEF Limiters!Kinds
<1>5. LimiterTypes'
  <2>1. asked' \in [Clients -> Int]
    BY <1>2 DEF LimInv, LimiterTypes
  <2>2. /\ DOMAIN clientBuckets' \subseteq Clients /\ DOMAIN clientQueues' \subseteq Clients
        /\ DOMAIN clientWindows' \subseteq Clients /\ DOMAIN clientLogs' \subseteq Clients
    BY <1>2 DEF LimInv, LimiterTypes, Puts
  <2> QED
    BY <1>2, <1>3, <2>1, <2>2 DEF LimiterTypes
<1>6. \A k \in Limiters!Kinds : Past(passed[k][c], time)
  BY DEF LimInv, ClientOK
<1>7. /\ BucketOK(clientBuckets', c, passed'["tokenBucket"][c], time)
      /\ Limiters!Allow("tokenBucket", c) \/ Limiters!UsedUp("tokenBucket", c)
  <2> DEFINE s == passed["tokenBucket"][c]
             a == Refilled(clientBuckets, c, time)
  <2>1. /\ Limiters!Allow("tokenBucket", c) <=> a >= refillEvery
        /\ Limiters!TokenBucketAfter(c)
             = [tokens |-> IF a >= refillEvery THEN a - refillEvery ELSE a, lastRefill |-> time]
    BY TokenState
  <2>2. passed'["tokenBucket"][c] = IF a >= refillEvery THEN Append(s, time) ELSE s
    BY <1>3, <1>4, <2>1
  <2>3. BucketOK(clientBuckets, c, s, time) /\ Past(s, time)
    BY <1>4, <1>6 DEF LimInv, ClientOK
  <2> HIDE DEF a, s
  <2>4. /\ BucketOK(clientBuckets', c, passed'["tokenBucket"][c], time)
        /\ a >= refillEvery
             \/ \E u \in 0..time : Between(s, u, time) + 1 > capacity + (time - u) \div refillEvery
    BY <1>1, <1>2, <2>1, <2>2, <2>3, TokenRequest DEF a
  <2>5. ASSUME NEW u \in 0..time, Between(s, u, time) + 1 > capacity + (time - u) \div refillEvery
        PROVE  Limiters!UsedUp("tokenBucket", c)
    <3>1. Limiters!Through(s, u, time) + 1 > capacity + (time - u) \div refillEvery
      BY <2>5, ThroughIsBetween
    <3> QED
      BY <3>1 DEF Limiters!UsedUp, s
  <2> QED
    BY <2>1, <2>4, <2>5
<1>8. /\ QueueOK(clientQueues', c, passed'["leakyBucket"][c], time)
      /\ Limiters!Allow("leakyBucket", c) \/ Limiters!UsedUp("leakyBucket", c)
  <2> DEFINE s == passed["leakyBucket"][c]
             n == Left(clientQueues, c, time)
             l == LeaksTo(clientQueues, c, time)
  <2>1. QueueOK(clientQueues, c, s, time) /\ Past(s, time)
    BY <1>4, <1>6 DEF LimInv, ClientOK
  <2>2. /\ Limiters!Allow("leakyBucket", c) <=> n < depth
        /\ Limiters!LeakyBucketAfter(c) = [queueSize |-> IF n < depth THEN n + 1 ELSE n, lastLeak |-> l]
    BY <1>1, <1>2, <2>1, QueueState
  <2>3. passed'["leakyBucket"][c] = IF n < depth THEN Append(s, time) ELSE s
    BY <1>3, <1>4, <2>2
  <2> HIDE DEF s, n, l
  <2>4. /\ QueueOK(clientQueues', c, passed'["leakyBucket"][c], time)
        /\ n < depth \/ \E u \in 0..time : Between(s, u, time) + 1 > depth + (time - u) \div leakEvery
    BY <1>1, <1>2, <2>1, <2>2, <2>3, QueueRequest DEF n, l
  <2>5. ASSUME NEW u \in 0..time, Between(s, u, time) + 1 > depth + (time - u) \div leakEvery
        PROVE  Limiters!UsedUp("leakyBucket", c)
    <3>1. Limiters!Through(s, u, time) + 1 > depth + (time - u) \div leakEvery
      BY <2>5, ThroughIsBetween
    <3> QED
      BY <3>1 DEF Limiters!UsedUp, s
  <2> QED
    BY <2>2, <2>4, <2>5
<1>9. /\ WindowOK(clientWindows', c, passed'["fixedWindow"][c], time)
      /\ Limiters!Allow("fixedWindow", c) \/ Limiters!UsedUp("fixedWindow", c)
  <2> DEFINE s == passed["fixedWindow"][c]
             n == CountNow(clientWindows, c, time)
             b == StartNow(clientWindows, c, time)
  <2>1. WindowOK(clientWindows, c, s, time) /\ Past(s, time)
    BY <1>4, <1>6 DEF LimInv, ClientOK
  <2>2. /\ Limiters!Allow("fixedWindow", c) <=> n < limit
        /\ Limiters!FixedWindowAfter(c) = [count |-> IF n < limit THEN n + 1 ELSE n, windowStart |-> b]
    BY <2>1, WindowState
  <2>3. passed'["fixedWindow"][c] = IF n < limit THEN Append(s, time) ELSE s
    BY <1>3, <1>4, <2>2
  <2> HIDE DEF s, n, b
  <2>4. /\ WindowOK(clientWindows', c, passed'["fixedWindow"][c], time)
        /\ n < limit \/ \E u \in 0..time : u > time - windowSize /\ Between(s, u, time) >= limit
    BY <1>1, <1>2, <2>1, <2>2, <2>3, WindowRequest DEF n, b
  <2>5. ASSUME NEW u \in 0..time, u > time - windowSize, Between(s, u, time) >= limit
        PROVE  Limiters!UsedUp("fixedWindow", c)
    <3>1. Limiters!Through(s, u, time) >= limit
      BY <2>5, ThroughIsBetween
    <3> QED
      BY <2>5, <3>1 DEF Limiters!UsedUp, s
  <2> QED
    BY <2>2, <2>4, <2>5
<1>10. /\ LogOK(clientLogs', c, passed'["slidingLog"][c], time)
       /\ Limiters!Allow("slidingLog", c) \/ Limiters!UsedUp("slidingLog", c)
  <2> DEFINE s == passed["slidingLog"][c]
             k == LogNow(clientLogs, c, time)
  <2>1. LogOK(clientLogs, c, s, time) /\ Past(s, time)
    BY <1>4, <1>6 DEF LimInv, ClientOK
  <2>2. /\ Limiters!Allow("slidingLog", c) <=> Len(k) < limit
        /\ Limiters!SlidingLogAfter(c) = IF Len(k) < limit THEN Append(k, time) ELSE k
    BY LogState
  <2>3. passed'["slidingLog"][c] = IF Len(k) < limit THEN Append(s, time) ELSE s
    BY <1>3, <1>4, <2>2
  <2> HIDE DEF s, k
  <2>4. /\ LogOK(clientLogs', c, passed'["slidingLog"][c], time)
        /\ Len(k) < limit \/ \E u \in 0..time : u > time - windowSize /\ Between(s, u, time) >= limit
    BY <1>1, <1>2, <2>1, <2>2, <2>3, LogRequest DEF k
  <2>5. ASSUME NEW u \in 0..time, u > time - windowSize, Between(s, u, time) >= limit
        PROVE  Limiters!UsedUp("slidingLog", c)
    <3>1. Limiters!Through(s, u, time) >= limit
      BY <2>5, ThroughIsBetween
    <3> QED
      BY <2>5, <3>1 DEF Limiters!UsedUp, s
  <2> QED
    BY <2>2, <2>4, <2>5
<1>11. ClientOK(c)'
  BY <1>2, <1>3, <1>7, <1>8, <1>9, <1>10 DEF ClientOK
<1>12. ASSUME NEW d \in Clients, d # c PROVE ClientOK(d)'
  <2>0. ClientOK(d)
    BY DEF LimInv
  <2>1. \A k \in Limiters!Kinds : passed'[k][d] = passed[k][d] /\ Past(passed'[k][d], time')
    BY <1>2, <1>3, <1>12
  <2>2. BucketOK(clientBuckets', d, passed["tokenBucket"][d], time)
    BY <1>2, <1>12, <2>0, BucketOther DEF ClientOK
  <2>3. QueueOK(clientQueues', d, passed["leakyBucket"][d], time)
    BY <1>2, <1>12, <2>0, QueueOther DEF ClientOK
  <2>4. WindowOK(clientWindows', d, passed["fixedWindow"][d], time)
    BY <1>2, <1>12, <2>0, WindowsOther DEF ClientOK
  <2>5. LogOK(clientLogs', d, passed["slidingLog"][d], time)
    BY <1>2, <1>12, <2>0, WindowsOther DEF ClientOK
  <2> QED
    BY <1>2, <1>4, <2>1, <2>2, <2>3, <2>4, <2>5 DEF ClientOK
<1>13. LimInv'
  BY <1>5, <1>11, <1>12 DEF LimInv
<1> QED
  BY <1>4, <1>7, <1>8, <1>9, <1>10, <1>13

(* Every step keeps the invariant, and refuses only at the limit.          *)
LEMMA LimitersNext ==
  ASSUME Limiters!ConstantsFit, LimInv, [Limiters!Next]_Limiters!vars
  PROVE  /\ LimInv'
         /\ \A c \in Clients, k \in Limiters!Kinds :
              asked'[c] # asked[c] => passed'[k][c] # passed[k][c] \/ Limiters!UsedUp(k, c)
<1>1. CASE Limiters!Pass
  <2>1. asked' = asked
    BY <1>1 DEF Limiters!Pass
  <2> QED
    BY <1>1, <2>1, LimitersPass
<1>2. ASSUME NEW c \in Clients, Limiters!Request(c)
      PROVE  /\ LimInv'
             /\ \A d \in Clients, k \in Limiters!Kinds :
                  asked'[d] # asked[d] => passed'[k][d] # passed[k][d] \/ Limiters!UsedUp(k, d)
  <2>1. LimInv' /\ \A k \in Limiters!Kinds : Limiters!Allow(k, c) \/ Limiters!UsedUp(k, c)
    BY <1>2, LimitersRequest
  <2>2. \A k \in Limiters!Kinds :
          passed'[k][c] = IF Limiters!Allow(k, c) THEN Append(passed[k][c], time) ELSE passed[k][c]
    BY <1>2, PassedAfter
  <2>3. \A k \in Limiters!Kinds : passed[k][c] \in Seq(Nat)
    BY DEF LimInv, LimiterTypes
  <2>4. \A s \in Seq(Nat) : Append(s, time) # s
    <3> SUFFICES ASSUME NEW s \in Seq(Nat) PROVE Append(s, time) # s
      OBVIOUS
    <3>1. Len(Append(s, time)) = Len(s) + 1 /\ Len(s) \in Nat
      OBVIOUS
    <3> QED
      BY <3>1
  <2>5. \A d \in Clients : asked'[d] # asked[d] => d = c
    <3>1. asked' = [asked EXCEPT ![c] = @ + 1] /\ asked \in [Clients -> Int]
      BY <1>2 DEF LimInv, LimiterTypes, Limiters!Request
    <3> QED
      BY <3>1
  <2>6. \A k \in Limiters!Kinds : passed'[k][c] # passed[k][c] \/ Limiters!UsedUp(k, c)
    <3> SUFFICES ASSUME NEW k \in Limiters!Kinds, Limiters!Allow(k, c) PROVE passed'[k][c] # passed[k][c]
      BY <2>1
    <3>1. passed'[k][c] = Append(passed[k][c], time)
      BY <2>2
    <3> QED
      BY <2>3, <2>4, <3>1
  <2> QED
    BY <2>1, <2>5, <2>6
<1>3. CASE UNCHANGED Limiters!vars
  <2>1. /\ time' = time /\ asked' = asked /\ passed' = passed
        /\ clientBuckets' = clientBuckets /\ clientQueues' = clientQueues
        /\ clientWindows' = clientWindows /\ clientLogs' = clientLogs
    BY <1>3 DEF Limiters!vars, Limiters!limiterVars
  <2>2. LimiterTypes'
    BY <2>1 DEF LimInv, LimiterTypes
  <2>3. \A c \in Clients : ClientOK(c)'
    BY <2>1 DEF LimInv, ClientOK
  <2> QED
    BY <2>1, <2>2, <2>3 DEF LimInv
<1> QED
  BY <1>1, <1>2, <1>3 DEF Limiters!Next

(* The limiters before the first request.                                  *)
LEMMA LimitersInit ==
  ASSUME Limiters!ConstantsFit, Limiters!Init
  PROVE  LimInv
<1>1. TokenSizes /\ QueueSizes /\ WindowSizes
  BY LimiterSizes
<1>2. /\ time = 0 /\ asked = [c \in Clients |-> 0]
      /\ passed = [k \in Limiters!Kinds |-> [c \in Clients |-> <<>>]]
      /\ DOMAIN clientBuckets = {} /\ DOMAIN clientQueues = {}
      /\ DOMAIN clientWindows = {} /\ DOMAIN clientLogs = {}
  BY DEF Limiters!Init, Limiters!None
<1>3. LimiterTypes
  BY <1>2 DEF LimiterTypes
<1>4. Past(<<>>, 0)
  BY DEF Past
<1>5. ASSUME NEW c \in Clients PROVE ClientOK(c)
  <2>1. \A k \in Limiters!Kinds : passed[k][c] = <<>>
    BY <1>2
  <2>2. {"tokenBucket", "leakyBucket", "fixedWindow", "slidingLog"} = Limiters!Kinds
    BY DEF Limiters!Kinds
  <2>3. \A k \in Limiters!Kinds : Past(passed[k][c], time)
    BY <1>2, <1>4, <2>1
  <2>4. BucketOK(clientBuckets, c, <<>>, 0)
    <3>1. Refilled(clientBuckets, c, 0) = FullBucket
      BY <1>2 DEF Refilled
    <3>2. TokenOK(FullBucket, <<>>, 0)
      BY <1>1, TokenNew
    <3> QED
      BY <1>2, <3>1, <3>2 DEF BucketOK
  <2>5. QueueOK(clientQueues, c, <<>>, 0)
    <3>1. Left(clientQueues, c, 0) = 0 /\ LeaksTo(clientQueues, c, 0) = 0
      BY <1>2 DEF Left, LeaksTo
    <3>2. LeakOK(0, 0, <<>>, 0)
      BY <1>1, LeakNew
    <3> QED
      BY <1>2, <3>1, <3>2 DEF QueueOK
  <2>6. WindowOK(clientWindows, c, <<>>, 0) /\ LogOK(clientLogs, c, <<>>, 0)
    BY <1>2 DEF WindowOK, LogOK
  <2> QED
    BY <1>2, <2>1, <2>2, <2>3, <2>4, <2>5, <2>6 DEF ClientOK
<1> QED
  BY <1>3, <1>5 DEF LimInv

(* What the invariant says of the limiters' state and of their bounds.     *)
LEMMA LimitersConsistent ==
  ASSUME Limiters!ConstantsFit, LimInv
  PROVE  Limiters!TypeOK /\ Limiters!WithinBounds
<1>1. TokenSizes /\ QueueSizes /\ WindowSizes
  BY LimiterSizes
<1>2. MaxSpan \in Nat /\ time \in Nat
  BY DEF Limiters!ConstantsFit, LimInv, LimiterTypes
<1>3. \A c \in Clients : ClientOK(c)
  BY DEF LimInv
<1>4. {"tokenBucket", "leakyBucket", "fixedWindow", "slidingLog"} = Limiters!Kinds
  BY DEF Limiters!Kinds
<1>5. Limiters!TypeOK
  <2>1. ASSUME NEW c \in DOMAIN clientBuckets
        PROVE  clientBuckets[c].tokens \in 0..(capacity * refillEvery)
    <3>1. c \in Clients
      BY DEF LimInv, LimiterTypes
    <3>2. BucketOK(clientBuckets, c, passed["tokenBucket"][c], time)
      BY <1>3, <3>1 DEF ClientOK
    <3> QED
      BY <3>2 DEF BucketOK, FullBucket
  <2>2. ASSUME NEW c \in DOMAIN clientQueues PROVE clientQueues[c].queueSize \in 0..depth
    <3>1. c \in Clients
      BY DEF LimInv, LimiterTypes
    <3>2. QueueOK(clientQueues, c, passed["leakyBucket"][c], time)
      BY <1>3, <3>1 DEF ClientOK
    <3> QED
      BY <3>2 DEF QueueOK
  <2>3. ASSUME NEW c \in DOMAIN clientWindows PROVE clientWindows[c].count \in 0..limit
    <3>1. c \in Clients
      BY DEF LimInv, LimiterTypes
    <3>2. WindowOK(clientWindows, c, passed["fixedWindow"][c], time)
      BY <1>3, <3>1 DEF ClientOK
    <3>3. PICK n : n = clientWindows[c].count
      OBVIOUS
    <3>4. n \in 1..limit
      BY <3>2, <3>3 DEF WindowOK, FixedOK, FixedNumbers
    <3>5. n \in 0..limit
      BY <1>1, <3>4 DEF WindowSizes
    <3> QED
      BY <3>3, <3>5
  <2>4. ASSUME NEW c \in DOMAIN clientLogs PROVE Len(clientLogs[c]) <= limit
    <3>1. c \in Clients
      BY DEF LimInv, LimiterTypes
    <3>2. LogOK(clientLogs, c, passed["slidingLog"][c], time)
      BY <1>3, <3>1 DEF ClientOK
    <3> QED
      BY <3>2 DEF LogOK, SlideOK
  <2> QED
    BY <2>1, <2>2, <2>3, <2>4 DEF Limiters!TypeOK
<1>6. \A span \in Limiters!Spans : span[1] \in Nat /\ span[2] \in Nat /\ span[1] <= span[2]
  BY <1>2 DEF Limiters!Spans
<1>7. Limiters!TokenBucketBound
  <2> SUFFICES ASSUME NEW c \in Clients, NEW span \in Limiters!Spans
               PROVE  Limiters!Through(passed.tokenBucket[c], span[1], span[2])
                        <= capacity + (span[2] - span[1]) \div refillEvery
    BY DEF Limiters!TokenBucketBound
  <2>1. PICK f \in Nat, u \in Nat : f = span[1] /\ u = span[2] /\ f <= u
    BY <1>6
  <2>2. PICK s : s = passed["tokenBucket"][c]
    OBVIOUS
  <2>3. Past(s, time) /\ TokenOK(Refilled(clientBuckets, c, time), s, time)
    BY <1>3, <1>4, <2>2 DEF ClientOK, BucketOK
  <2>4. Between(s, f, u) <= capacity + (u - f) \div refillEvery
    BY <1>1, <1>2, <2>1, <2>3, TokenBound
  <2>5. Limiters!Through(s, f, u) <= capacity + (u - f) \div refillEvery
    BY <2>4, ThroughIsBetween
  <2> QED
    BY <2>1, <2>2, <2>5
<1>8. Limiters!LeakyBucketBound
  <2> SUFFICES ASSUME NEW c \in Clients, NEW span \in Limiters!Spans
               PROVE  Limiters!Through(passed.leakyBucket[c], span[1], span[2])
                        <= depth + Limiters!Ceiling(span[2] - span[1], leakEvery)
    BY DEF Limiters!LeakyBucketBound
  <2>1. PICK f \in Nat, u \in Nat : f = span[1] /\ u = span[2] /\ f <= u
    BY <1>6
  <2>2. PICK s : s = passed["leakyBucket"][c]
    OBVIOUS
  <2>3. /\ Past(s, time)
        /\ LeakOK(Left(clientQueues, c, time), LeaksTo(clientQueues, c, time), s, time)
    BY <1>3, <1>4, <2>2 DEF ClientOK, QueueOK
  <2>4. Between(s, f, u) <= depth + (u - f + leakEvery - 1) \div leakEvery
    BY <1>1, <1>2, <2>1, <2>3, LeakBound
  <2>5. Limiters!Through(s, f, u) <= depth + Limiters!Ceiling(u - f, leakEvery)
    BY <2>4, ThroughIsBetween DEF Limiters!Ceiling
  <2> QED
    BY <2>1, <2>2, <2>5
<1>9. Limiters!FixedWindowBound
  <2> SUFFICES ASSUME NEW c \in Clients, NEW f \in 0..MaxSpan
               PROVE  Limiters!Through(passed.fixedWindow[c], f, f + windowSize - 1) < 2 * limit
    BY DEF Limiters!FixedWindowBound
  <2>1. f \in Nat
    BY <1>2
  <2>2. PICK s : s = passed["fixedWindow"][c]
    OBVIOUS
  <2>3. WindowOK(clientWindows, c, s, time)
    BY <1>3, <2>2 DEF ClientOK
  <2>4. Bursts(s)
    <3>1. Bursts(<<>>)
      BY <1>1, <1>2, FixedFirst
    <3> QED
      BY <2>3, <3>1 DEF WindowOK, FixedOK
  <2>5. Limiters!Through(s, f, f + windowSize - 1) < 2 * limit
    BY <2>1, <2>4, ThroughIsBetween DEF Bursts
  <2> QED
    BY <2>2, <2>5
<1>10. Limiters!SlidingWindowBound
  <2> SUFFICES ASSUME NEW c \in Clients, NEW f \in 0..MaxSpan
               PROVE  Limiters!Through(passed.slidingLog[c], f, f + windowSize - 1) <= limit
    BY DEF Limiters!SlidingWindowBound
  <2>1. f \in Nat
    BY <1>2
  <2>2. PICK s : s = passed["slidingLog"][c]
    OBVIOUS
  <2>3. LogOK(clientLogs, c, s, time)
    BY <1>3, <2>2 DEF ClientOK
  <2>4. Steady(s)
    <3>1. Steady(<<>>)
      BY <1>1, <1>2, SlideNew DEF SlideOK
    <3> QED
      BY <2>3, <3>1 DEF LogOK, SlideOK
  <2>5. Limiters!Through(s, f, f + windowSize - 1) <= limit
    BY <2>1, <2>4, ThroughIsBetween DEF Steady
  <2> QED
    BY <2>2, <2>5
<1> QED
  BY <1>5, <1>7, <1>8, <1>9, <1>10 DEF Limiters!WithinBounds

(* For all rates, sizes and clients, no limiter refuses a request while    *)
(* its client is under its bound, whenever the requests come.              *)
THEOREM RefusalsAreDue == InMemorySpec => RefusesOnlyAtLimit
<1>1. InMemoryInit => LimInv
  BY LimiterAssumption, LimitersInit DEF InMemoryInit
<1>2. [InMemoryNext]_allVars => [Limiters!Next]_Limiters!vars
  BY DEF InMemoryNext, allVars, limiterVars, Limiters!vars, Limiters!limiterVars
<1>3. LimInv /\ [Limiters!Next]_Limiters!vars =>
        LimInv' /\ [\A c \in Clients, k \in Limiters!Kinds :
                      asked'[c] # asked[c] => passed'[k][c] # passed[k][c] \/ Limiters!UsedUp(k, c)]_Limiters!vars
  BY LimitersNext, LimiterAssumption
<1> QED
  BY <1>1, <1>2, <1>3, PTL DEF InMemorySpec, RefusesOnlyAtLimit, Limiters!RefusesOnlyAtLimit

-----------------------------------------------------------------------------
(* The sum of a function over a finite set, as the library computes it: one*)
(* element after the other, in an order nobody knows.                      *)
SumStep(f, g, s) ==
  IF s = {} THEN 0 ELSE f[CHOOSE x \in s : TRUE] + g[s \ {CHOOSE x \in s : TRUE}]
Summing(f, S, g) == g = [s \in SUBSET S |-> SumStep(f, g, s)]
Added(f, S) == (CHOOSE g : Summing(f, S, g))[S]

(* Induction over the subsets of a finite set.                             *)
LEMMA SubsetInduction ==
  ASSUME NEW B, IsFiniteSet(B), NEW P,
         \A S \in SUBSET B : (\A T \in SUBSET S : T # S => T \in P) => S \in P
  PROVE  \A S \in SUBSET B : S \in P
<1> DEFINE U == {n \in Nat : \E S \in SUBSET B : S \notin P /\ Cardinality(S) = n}
<1>1. ASSUME NEW S \in SUBSET B PROVE IsFiniteSet(S) /\ Cardinality(S) \in Nat
  BY FS_Subset, FS_CardinalityType
<1>2. U = {}
  <2> SUFFICES ASSUME U # {} PROVE FALSE
    OBVIOUS
  <2>1. PICK n \in U : \A m \in U : n <= m
    BY LeastElement
  <2>2. PICK S \in SUBSET B : S \notin P /\ Cardinality(S) = n
    BY <2>1
  <2>3. ASSUME NEW T \in SUBSET S, T # S PROVE T \in P
    <3>1. Cardinality(T) < Cardinality(S) /\ T \in SUBSET B
      <4>1. T \subseteq S /\ T # S /\ IsFiniteSet(S)
        BY <1>1, <2>3
      <4>2. IsFiniteSet(T) /\ Cardinality(T) <= Cardinality(S) /\ (Cardinality(S) = Cardinality(T) => S = T)
        BY <4>1, FS_Subset
      <4> QED
        BY <1>1, <2>3, <4>2
    <3>2. Cardinality(T) \in Nat /\ Cardinality(T) \notin U
      BY <1>1, <2>1, <2>2, <3>1
    <3> QED
      BY <3>1, <3>2
  <2> QED
    BY <2>2, <2>3
<1>3. ASSUME NEW S \in SUBSET B PROVE S \in P
  BY <1>1, <1>2
<1> QED
  BY <1>3

(* Of two sums, what they give to the same set.                            *)
SumsAgree(f, S) ==
  \A M, N, g, h :
    S \subseteq M /\ S \subseteq N /\ Summing(f, M, g) /\ Summing(f, N, h) => g[S] = h[S]
LEMMA SummingUnique ==
  ASSUME NEW B, IsFiniteSet(B), NEW f
  PROVE  \A S \in SUBSET B : SumsAgree(f, S)
<1> DEFINE P == {S \in SUBSET B : \A M, N, g, h :
                   S \subseteq M /\ S \subseteq N /\ Summing(f, M, g) /\ Summing(f, N, h) => g[S] = h[S]}
<1>1. ASSUME NEW S \in SUBSET B, \A T \in SUBSET S : T # S => T \in P PROVE S \in P
  <2> SUFFICES ASSUME NEW M, NEW N, NEW g, NEW h, S \subseteq M, S \subseteq N,
                      Summing(f, M, g), Summing(f, N, h)
               PROVE  g[S] = h[S]
    OBVIOUS
  <2>1. g[S] = SumStep(f, g, S) /\ h[S] = SumStep(f, h, S)
    BY DEF Summing
  <2>2. CASE S = {}
    BY <2>1, <2>2 DEF SumStep
  <2>3. CASE S # {}
    <3> DEFINE x == CHOOSE y \in S : TRUE
               T == S \ {x}
    <3>1. x \in S
      BY <2>3
    <3>2. T \in SUBSET S /\ T # S /\ T \subseteq M /\ T \subseteq N
      BY <3>1
    <3>3. T \in P
      BY <1>1, <3>2
    <3>4. g[T] = h[T]
      BY <3>2, <3>3
    <3>5. g[S] = f[x] + g[T] /\ h[S] = f[x] + h[T]
      BY <2>1, <2>3 DEF SumStep
    <3> QED
      BY <3>4, <3>5
  <2> QED
    BY <2>2, <2>3
<1> HIDE DEF P
<1>2. \A S \in SUBSET B : S \in P
  BY <1>1, SubsetInduction
<1> QED
  BY <1>2 DEF P, SumsAgree

(* Two such computations agree on what both have.                          *)
LEMMA SummingAgree ==
  ASSUME NEW S, IsFiniteSet(S), NEW f, NEW M, NEW N, NEW g, NEW h, S \subseteq M, S \subseteq N,
         Summing(f, M, g), Summing(f, N, h)
  PROVE  g[S] = h[S]
<1>1. \A T \in SUBSET S : SumsAgree(f, T)
  BY SummingUnique
<1>2. SumsAgree(f, S)
  BY <1>1
<1> QED
  BY <1>2 DEF SumsAgree

(* There is a sum over every finite set, one step after the other.         *)
LEMMA SummingExists ==
  ASSUME NEW B, IsFiniteSet(B), NEW f
  PROVE  \A S \in SUBSET B : \E g : Summing(f, S, g)
<1> DEFINE P == {S \in SUBSET B : \E g : Summing(f, S, g)}
<1>1. ASSUME NEW S \in SUBSET B, \A T \in SUBSET S : T # S => T \in P PROVE S \in P
  <2> DEFINE x == CHOOSE y \in S : TRUE
             last == IF S = {} THEN 0 ELSE f[x] + Added(f, S \ {x})
             g == [s \in SUBSET S |-> IF s = S THEN last ELSE Added(f, s)]
  <2>1. ASSUME NEW T \in SUBSET S, T # S
        PROVE  /\ Summing(f, T, CHOOSE h : Summing(f, T, h))
               /\ Added(f, T) = (CHOOSE h : Summing(f, T, h))[T]
    <3>1. \E h : Summing(f, T, h)
      BY <1>1, <2>1
    <3> QED
      BY <3>1 DEF Added
  <2>2. ASSUME NEW s \in SUBSET S PROVE g[s] = SumStep(f, g, s)
    <3>1. CASE s = S
      <4>1. CASE S = {}
        BY <3>1, <4>1 DEF SumStep
      <4>2. CASE S # {}
        <5>1. x \in S
          BY <4>2
        <5>2. S \ {x} \in SUBSET S /\ S \ {x} # S
          BY <5>1
        <5>3. g[S \ {x}] = Added(f, S \ {x}) /\ g[S] = f[x] + Added(f, S \ {x})
          BY <4>2, <5>2
        <5>4. SumStep(f, g, S) = f[x] + g[S \ {x}]
          BY <4>2 DEF SumStep
        <5> QED
          BY <3>1, <5>3, <5>4
      <4> QED
        BY <4>1, <4>2
    <3>2. CASE s # S
      <4> DEFINE h == CHOOSE k : Summing(f, s, k)
      <4>1. Summing(f, s, h) /\ Added(f, s) = h[s] /\ g[s] = h[s]
        BY <2>1, <3>2
      <4>2. h[s] = SumStep(f, h, s)
        <5> HIDE DEF h
        <5> QED
          BY <4>1 DEF Summing
      <4>3. CASE s = {}
        BY <4>1, <4>2, <4>3 DEF SumStep
      <4>4. CASE s # {}
        <5> DEFINE y == CHOOSE z \in s : TRUE
                   T == s \ {y}
                   k == CHOOSE l : Summing(f, T, l)
        <5>1. y \in s
          BY <4>4
        <5>2. T \in SUBSET S /\ T # S /\ T \subseteq s /\ T \in SUBSET B
          BY <3>2, <5>1
        <5>3. Summing(f, T, k) /\ Added(f, T) = k[T]
          BY <2>1, <5>2
        <5>4. h[T] = k[T]
          <6>1. IsFiniteSet(T)
            BY <5>2, FS_Subset
          <6> HIDE DEF h, k, T
          <6> QED
            BY <4>1, <5>2, <5>3, <6>1, SummingAgree
        <5>5. g[T] = k[T]
          BY <5>2, <5>3
        <5>6. h[s] = f[y] + h[T] /\ SumStep(f, g, s) = f[y] + g[T]
          BY <4>2, <4>4 DEF SumStep
        <5> QED
          BY <4>1, <5>4, <5>5, <5>6
      <4> QED
        BY <4>3, <4>4
    <3> QED
      BY <3>1, <3>2
  <2>3. Summing(f, S, g)
    <3> HIDE DEF last
    <3> SUFFICES g = [s \in SUBSET S |-> SumStep(f, g, s)]
      BY DEF Summing
    <3> QED
      BY <2>2
  <2> QED
    BY <2>3
<1> HIDE DEF P
<1>2. \A S \in SUBSET B : S \in P
  BY <1>1, SubsetInduction
<1> QED
  BY <1>2 DEF P

(* The equation of the sum.                                                *)
LEMMA AddedStep ==
  ASSUME NEW B, IsFiniteSet(B), NEW f, NEW S \in SUBSET B
  PROVE  /\ S = {} => Added(f, S) = 0
         /\ S # {} => \E x \in S : Added(f, S) = f[x] + Added(f, S \ {x})
<1> DEFINE h == CHOOSE g : Summing(f, S, g)
<1>1. Summing(f, S, h) /\ Added(f, S) = h[S]
  <2>1. \E g : Summing(f, S, g)
    BY SummingExists
  <2> QED
    BY <2>1 DEF Added
<1>2. h[S] = SumStep(f, h, S)
  <2> HIDE DEF h
  <2> QED
    BY <1>1 DEF Summing
<1>3. CASE S = {}
  BY <1>1, <1>2, <1>3 DEF SumStep
<1>4. CASE S # {}
  <2> DEFINE x == CHOOSE y \in S : TRUE
             T == S \ {x}
             k == CHOOSE g : Summing(f, T, g)
  <2>1. x \in S /\ T \in SUBSET B /\ T \subseteq S
    BY <1>4
  <2>2. Summing(f, T, k) /\ Added(f, T) = k[T]
    <3>1. \E g : Summing(f, T, g)
      BY <2>1, SummingExists
    <3> QED
      BY <3>1 DEF Added
  <2>3. h[T] = k[T]
    <3>1. IsFiniteSet(T)
      BY <2>1, FS_Subset
    <3> HIDE DEF h, k, T
    <3> QED
      BY <1>1, <2>1, <2>2, <3>1, SummingAgree
  <2>4. h[S] = f[x] + h[T]
    BY <1>2, <1>4 DEF SumStep
  <2> QED
    BY <1>1, <1>4, <2>1, <2>2, <2>3, <2>4
<1> QED
  BY <1>3, <1>4

(* Sums of integers are integers, of equal functions equal, of functions   *)
(* added up the sum of their sums.                                         *)
LEMMA AddedInt ==
  ASSUME NEW B, IsFiniteSet(B), NEW f \in [B -> Int]
  PROVE  \A S \in SUBSET B : Added(f, S) \in Int
<1> DEFINE P == {S \in SUBSET B : Added(f, S) \in Int}
<1>1. ASSUME NEW S \in SUBSET B, \A T \in SUBSET S : T # S => T \in P PROVE S \in P
  <2>1. CASE S = {}
    <3>1. Added(f, S) = 0
      BY <2>1, AddedStep
    <3> QED
      BY <3>1
  <2>2. CASE S # {}
    <3>1. PICK x \in S : Added(f, S) = f[x] + Added(f, S \ {x})
      BY <2>2, AddedStep
    <3>2. S \ {x} \in SUBSET S /\ S \ {x} # S
      BY <3>1
    <3>3. S \ {x} \in P
      BY <1>1, <3>2
    <3>4. f[x] \in Int
      OBVIOUS
    <3> QED
      BY <3>1, <3>3, <3>4
  <2> QED
    BY <2>1, <2>2
<1> HIDE DEF P
<1>2. \A S \in SUBSET B : S \in P
  BY <1>1, SubsetInduction
<1> QED
  BY <1>2 DEF P

(* It does not matter which element is taken first.                        *)
LEMMA AddedTake ==
  ASSUME NEW B, IsFiniteSet(B), NEW k \in [B -> Int]
  PROVE  \A S \in SUBSET B : \A x \in S : Added(k, S) = k[x] + Added(k, S \ {x})
<1> DEFINE Q == {S \in SUBSET B : \A x \in S : Added(k, S) = k[x] + Added(k, S \ {x})}
<1>1. \A S \in SUBSET B : Added(k, S) \in Int
  BY AddedInt
<1>2. ASSUME NEW S \in SUBSET B, \A T \in SUBSET S : T # S => T \in Q PROVE S \in Q
  <2> SUFFICES ASSUME NEW x \in S PROVE Added(k, S) = k[x] + Added(k, S \ {x})
    OBVIOUS
  <2>1. PICK y \in S : Added(k, S) = k[y] + Added(k, S \ {y})
    BY AddedStep
  <2>2. CASE x = y
    BY <2>1, <2>2
  <2>3. CASE x # y
    <3> DEFINE X == S \ {x}
               Y == S \ {y}
    <3>1. /\ X \in SUBSET S /\ X # S /\ y \in X /\ Y \in SUBSET S /\ Y # S /\ x \in Y
          /\ X \ {y} = Y \ {x} /\ X \ {y} \in SUBSET B
      BY <2>3
    <3>2. X \in Q /\ Y \in Q
      BY <1>2, <3>1
    <3> HIDE DEF X, Y
    <3>3. Added(k, X) = k[y] + Added(k, X \ {y}) /\ Added(k, Y) = k[x] + Added(k, Y \ {x})
      BY <3>1, <3>2
    <3>4. k[x] \in Int /\ k[y] \in Int /\ Added(k, X \ {y}) \in Int
      BY <1>1, <3>1
    <3>5. Added(k, S) = k[y] + (k[x] + Added(k, X \ {y}))
      BY <2>1, <3>1, <3>3 DEF Y
    <3>6. Added(k, S) = k[x] + Added(k, X)
      BY <3>3, <3>4, <3>5
    <3> QED
      BY <3>6 DEF X
  <2> QED
    BY <2>2, <2>3
<1> HIDE DEF Q
<1>3. \A S \in SUBSET B : S \in Q
  BY <1>2, SubsetInduction
<1> QED
  BY <1>3 DEF Q

(* The sum of a sum is the sum of the sums.                                *)
LEMMA AddedPlus ==
  ASSUME NEW B, IsFiniteSet(B), NEW f \in [B -> Int], NEW g \in [B -> Int], NEW h \in [B -> Int]
  PROVE  \A S \in SUBSET B :
           (\A b \in S : h[b] = f[b] + g[b]) => Added(h, S) = Added(f, S) + Added(g, S)
<1> DEFINE P == {S \in SUBSET B :
                   (\A b \in S : h[b] = f[b] + g[b]) => Added(h, S) = Added(f, S) + Added(g, S)}
<1>1. ASSUME NEW S \in SUBSET B, \A T \in SUBSET S : T # S => T \in P PROVE S \in P
  <2> SUFFICES ASSUME \A b \in S : h[b] = f[b] + g[b] PROVE Added(h, S) = Added(f, S) + Added(g, S)
    OBVIOUS
  <2>1. CASE S = {}
    <3>1. Added(f, S) = 0 /\ Added(g, S) = 0 /\ Added(h, S) = 0
      BY <2>1, AddedStep
    <3> QED
      BY <3>1
  <2>2. CASE S # {}
    <3>1. PICK x \in S : TRUE
      BY <2>2
    <3> DEFINE T == S \ {x}
    <3>2. T \in SUBSET S /\ T # S /\ T \in SUBSET B
      BY <3>1
    <3>3. T \in P
      BY <1>1, <3>2
    <3>4. Added(h, T) = Added(f, T) + Added(g, T)
      BY <3>2, <3>3
    <3>5. /\ Added(f, S) = f[x] + Added(f, T) /\ Added(g, S) = g[x] + Added(g, T)
          /\ Added(h, S) = h[x] + Added(h, T)
      BY AddedTake
    <3>6. Added(f, T) \in Int /\ Added(g, T) \in Int /\ f[x] \in Int /\ g[x] \in Int
      BY <3>2, AddedInt
    <3> HIDE DEF T
    <3>7. h[x] = f[x] + g[x]
      OBVIOUS
    <3> QED
      BY <3>4, <3>5, <3>6, <3>7
  <2> QED
    BY <2>1, <2>2
<1> HIDE DEF P
<1>2. \A S \in SUBSET B : S \in P
  BY <1>1, SubsetInduction
<1> QED
  BY <1>2 DEF P

(* A function that is another on a part and zero elsewhere, and one that   *)
(* is another but for one value.                                           *)
IsPart(g, w, A, B) == \A b \in B : g[b] = IF b \in A THEN w[b] ELSE 0
IsLowered(g, f, b, d, B) == \A c \in B : g[c] = IF c = b THEN f[c] - d ELSE f[c]

(* The sum over a part is that of the function that is zero elsewhere.     *)
LEMMA AddedPart ==
  ASSUME NEW B, IsFiniteSet(B), NEW A, NEW w \in [B -> Int], NEW g \in [B -> Int],
         IsPart(g, w, A, B)
  PROVE  \A S \in SUBSET B : Added(g, S) = Added(w, S \cap A)
<1> DEFINE P == {S \in SUBSET B : Added(g, S) = Added(w, S \cap A)}
<1>1. ASSUME NEW S \in SUBSET B, \A T \in SUBSET S : T # S => T \in P PROVE S \in P
  <2>1. CASE S = {}
    <3>1. Added(g, S) = 0 /\ S \cap A = {} /\ Added(w, {}) = 0
      BY <2>1, AddedStep
    <3> QED
      BY <3>1
  <2>2. CASE S # {}
    <3>1. PICK x \in S : TRUE
      BY <2>2
    <3> DEFINE T == S \ {x}
    <3>2. T \in SUBSET S /\ T # S /\ T \in SUBSET B /\ T \cap A \in SUBSET B /\ S \cap A \in SUBSET B
      BY <3>1
    <3>3. T \in P
      BY <1>1, <3>2
    <3>4. Added(g, T) = Added(w, T \cap A) /\ Added(w, T \cap A) \in Int
      BY <3>2, <3>3, AddedInt
    <3>5. Added(g, S) = g[x] + Added(g, T)
      BY AddedTake
    <3>6. CASE x \in A
      <4>1. x \in S \cap A /\ (S \cap A) \ {x} = T \cap A
        BY <3>1, <3>6
      <4>2. Added(w, S \cap A) = w[x] + Added(w, (S \cap A) \ {x})
        BY <3>2, <4>1, AddedTake
      <4>3. g[x] = w[x]
        BY <3>6 DEF IsPart
      <4> HIDE DEF T
      <4> QED
        BY <3>4, <3>5, <4>1, <4>2, <4>3
    <3>7. CASE x \notin A
      <4>1. S \cap A = T \cap A /\ g[x] = 0
        BY <3>7 DEF IsPart
      <4> HIDE DEF T
      <4>2. PICK n \in Int : n = Added(w, T \cap A)
        BY <3>4
      <4>3. Added(g, S) = 0 + n
        BY <3>4, <3>5, <4>1, <4>2
      <4>4. Added(g, S) = n
        BY <4>3
      <4>5. Added(w, S \cap A) = n
        BY <4>1, <4>2
      <4> QED
        BY <4>4, <4>5
    <3> QED
      BY <3>6, <3>7
  <2> QED
    BY <2>1, <2>2
<1> HIDE DEF P
<1>2. \A S \in SUBSET B : S \in P
  BY <1>1, SubsetInduction
<1> QED
  BY <1>2 DEF P

(* A sum grows with what is added.                                         *)
IsBelow(f, g, S) == \A b \in S : f[b] <= g[b]
LEMMA AddedMonotone ==
  ASSUME NEW B, IsFiniteSet(B), NEW f \in [B -> Int], NEW g \in [B -> Int]
  PROVE  \A S \in SUBSET B : IsBelow(f, g, S) => Added(f, S) <= Added(g, S)
<1> DEFINE P == {S \in SUBSET B : IsBelow(f, g, S) => Added(f, S) <= Added(g, S)}
<1>1. ASSUME NEW S \in SUBSET B, \A T \in SUBSET S : T # S => T \in P PROVE S \in P
  <2> SUFFICES ASSUME IsBelow(f, g, S) PROVE Added(f, S) <= Added(g, S)
    OBVIOUS
  <2>1. CASE S = {}
    <3>1. Added(f, S) = 0 /\ Added(g, S) = 0
      BY <2>1, AddedStep
    <3> QED
      BY <3>1
  <2>2. CASE S # {}
    <3>1. PICK x \in S : TRUE
      BY <2>2
    <3> DEFINE T == S \ {x}
    <3>2. T \in SUBSET S /\ T # S /\ T \in SUBSET B
      BY <3>1
    <3>3. T \in P
      BY <1>1, <3>2
    <3>4. Added(f, T) <= Added(g, T)
      <4>1. IsBelow(f, g, T)
        BY DEF IsBelow
      <4> QED
        BY <3>3, <4>1
    <3>5. /\ Added(f, S) = f[x] + Added(f, T) /\ Added(g, S) = g[x] + Added(g, T)
      BY AddedTake
    <3>6. Added(f, T) \in Int /\ Added(g, T) \in Int /\ f[x] \in Int /\ g[x] \in Int
      BY <3>2, AddedInt
    <3> HIDE DEF T
    <3>7. f[x] <= g[x]
      BY DEF IsBelow
    <3> QED
      BY <3>4, <3>5, <3>6, <3>7
  <2> QED
    BY <2>1, <2>2
<1> HIDE DEF P
<1>2. \A S \in SUBSET B : S \in P
  BY <1>1, SubsetInduction
<1> QED
  BY <1>2 DEF P

(* Nothing added up is nothing.                                            *)
LEMMA AddedZero ==
  ASSUME NEW B, IsFiniteSet(B), NEW f \in [B -> Int], NEW S \in SUBSET B, \A b \in S : f[b] = 0
  PROVE  Added(f, S) = 0
<1>1. \A b \in S : f[b] = f[b] + f[b]
  OBVIOUS
<1>2. Added(f, S) = Added(f, S) + Added(f, S)
  BY <1>1, AddedPlus
<1>3. PICK n \in Int : n = Added(f, S)
  BY AddedInt
<1>4. n = n + n
  BY <1>2, <1>3
<1>5. n = 0
  BY <1>4
<1> QED
  BY <1>3, <1>5

(* Natural numbers add up to one, at least as great as each.               *)
LEMMA AddedNat ==
  ASSUME NEW B, IsFiniteSet(B), NEW f \in [B -> Int], NEW S \in SUBSET B, \A b \in S : f[b] >= 0
  PROVE  /\ Added(f, S) >= 0
         /\ \A b \in S : f[b] <= Added(f, S)
         /\ Added(f, S) = 0 => \A b \in S : f[b] = 0
<1> DEFINE z == [b \in B |-> 0]
<1>1. z \in [B -> Int] /\ \A b \in B : z[b] = 0
  OBVIOUS
<1> HIDE DEF z
<1>2. ASSUME NEW T \in SUBSET S PROVE Added(f, T) >= 0 /\ Added(f, T) \in Int
  <2>1. T \in SUBSET B /\ \A b \in T : f[b] \in Int /\ f[b] >= 0
    OBVIOUS
  <2>2. Added(z, T) = 0
    BY <1>1, <2>1, AddedZero
  <2>3. IsBelow(z, f, T)
    BY <1>1, <2>1 DEF IsBelow
  <2>4. Added(z, T) <= Added(f, T)
    BY <1>1, <2>1, <2>3, AddedMonotone
  <2>5. Added(f, T) \in Int
    BY <2>1, AddedInt
  <2> QED
    BY <2>2, <2>4, <2>5
<1>3. ASSUME NEW b \in S PROVE f[b] <= Added(f, S) /\ (Added(f, S) = 0 => f[b] = 0)
  <2>1. S \ {b} \in SUBSET S /\ f[b] \in Int /\ f[b] >= 0
    OBVIOUS
  <2>2. Added(f, S \ {b}) >= 0 /\ Added(f, S \ {b}) \in Int
    BY <1>2, <2>1
  <2>3. Added(f, S) = f[b] + Added(f, S \ {b})
    BY AddedTake
  <2> QED
    BY <2>1, <2>2, <2>3
<1>4. S \in SUBSET S
  OBVIOUS
<1> QED
  BY <1>2, <1>3, <1>4

(* A sum in two parts.                                                     *)
IsSplit(f, S, R) ==
  \E p, q \in Int : p = Added(f, S \cap R) /\ q = Added(f, S \ R) /\ Added(f, S) = p + q
LEMMA AddedSplit ==
  ASSUME NEW B, IsFiniteSet(B), NEW f \in [B -> Int]
  PROVE  \A S, R \in SUBSET B : IsSplit(f, S, R)
<1> SUFFICES ASSUME NEW S \in SUBSET B, NEW R \in SUBSET B PROVE IsSplit(f, S, R)
  OBVIOUS
<1> DEFINE g == [b \in B |-> IF b \in R THEN f[b] ELSE 0]
           h == [b \in B |-> IF b \in B \ R THEN f[b] ELSE 0]
<1>1. /\ g \in [B -> Int] /\ h \in [B -> Int] /\ \A b \in S : f[b] = g[b] + h[b]
  OBVIOUS
<1>2. IsPart(g, f, R, B) /\ IsPart(h, f, B \ R, B)
  BY DEF IsPart
<1> HIDE DEF g, h
<1>3. Added(f, S) = Added(g, S) + Added(h, S)
  BY <1>1, AddedPlus
<1>4. Added(g, S) = Added(f, S \cap R)
  BY <1>1, <1>2, AddedPart
<1>5. Added(h, S) = Added(f, S \cap (B \ R))
  BY <1>1, <1>2, AddedPart
<1>6. S \cap (B \ R) = S \ R
  OBVIOUS
<1>7. PICK p \in Int, q \in Int : p = Added(g, S) /\ q = Added(h, S)
  BY <1>1, AddedInt
<1>8. p = Added(f, S \cap R)
  BY <1>4, <1>7
<1>9. q = Added(f, S \ R)
  BY <1>5, <1>6, <1>7
<1> QED
  BY <1>3, <1>7, <1>8, <1>9 DEF IsSplit

(* A function lowered at one element, on every set.                        *)
LEMMA AddedLowered ==
  ASSUME NEW B, IsFiniteSet(B), NEW f \in [B -> Int], NEW g \in [B -> Int], NEW b \in B, NEW d \in Int,
         IsLowered(g, f, b, d, B), NEW S \in SUBSET B
  PROVE  Added(g, S) = Added(f, S) - (IF b \in S THEN d ELSE 0)
<1>1. CASE b \notin S
  <2> DEFINE z == [c \in B |-> 0]
  <2>1. z \in [B -> Int] /\ \A c \in S : z[c] = 0 /\ g[c] = f[c] + z[c]
    BY <1>1 DEF IsLowered
  <2> HIDE DEF z
  <2>2. Added(z, S) = 0
    BY <2>1, AddedZero
  <2>3. Added(g, S) = Added(f, S) + Added(z, S)
    BY <2>1, AddedPlus
  <2>4. Added(f, S) \in Int
    BY AddedInt
  <2> QED
    BY <1>1, <2>2, <2>3, <2>4
<1>2. CASE b \in S
  <2>1. Added(g, S) = g[b] + Added(g, S \ {b}) /\ Added(f, S) = f[b] + Added(f, S \ {b})
    BY <1>2, AddedTake
  <2> DEFINE T == S \ {b}
             z == [c \in B |-> 0]
  <2>2. T \in SUBSET B /\ z \in [B -> Int] /\ \A c \in T : z[c] = 0 /\ g[c] = f[c] + z[c]
    BY DEF IsLowered
  <2>3. Added(g, S) = g[b] + Added(g, T) /\ Added(f, S) = f[b] + Added(f, T)
    BY <2>1
  <2> HIDE DEF z, T
  <2>4. Added(z, T) = 0
    BY <2>2, AddedZero
  <2>5. Added(g, T) = Added(f, T) + Added(z, T)
    BY <2>2, AddedPlus
  <2>6. Added(f, T) \in Int
    BY <2>2, AddedInt
  <2>7. g[b] = f[b] - d /\ f[b] \in Int
    BY DEF IsLowered
  <2> QED
    BY <1>2, <2>3, <2>4, <2>5, <2>6, <2>7
<1> QED
  BY <1>1, <1>2

(* The library's sums of weights, and of current weights, are such sums.   *)
LEMMA TotalIsAdded ==
  /\ \A S : Balancer!Total(S) = Added(weight, S)
  /\ Balancer!WeightsBalanced <=> Added(currentWeights, 1..NumBackends) = 0
<1>1. \A S : Balancer!Total(S) = Added(weight, S)
  BY DEF Balancer!Total, Balancer!MapThenSumSet, Balancer!MapThenFoldSet, Added, Summing, SumStep
<1>2. Balancer!WeightsBalanced <=> Added(currentWeights, 1..NumBackends) = 0
  BY DEF Balancer!WeightsBalanced, Balancer!Backends, Balancer!MapThenSumSet, Balancer!MapThenFoldSet,
         Added, Summing, SumStep
<1> QED
  BY <1>1, <1>2

-----------------------------------------------------------------------------
(* The load balancer.  Remainders: one is known by its quotient, and n     *)
(* numbers in a row leave every remainder by n.                            *)
LEMMA RemainderUnique ==
  ASSUME NEW n \in Nat \ {0}, NEW q \in Nat, NEW j \in 0..(n - 1), NEW x \in Nat, x = n * q + j
  PROVE  x % n = j
<1>1. PICK p, m : p = x \div n /\ m = x % n
  OBVIOUS
<1>2. p \in Nat /\ m \in 0..(n - 1) /\ x = n * p + m
  BY <1>1
<1>3. n * q \in Nat /\ n * (q + 1) = n * q + n
  OBVIOUS
<1>4. q <= x \div n
  <2>1. n * q <= x
    BY <1>3
  <2> QED
    BY <2>1, Quotient
<1>5. q + 1 > x \div n
  <2>1. n * (q + 1) > x /\ q + 1 \in Int
    BY <1>3
  <2> QED
    BY <2>1, Quotient
<1>6. p = q
  BY <1>1, <1>2, <1>4, <1>5
<1> QED
  BY <1>1, <1>2, <1>3, <1>6

(* As many numbers in a row as the divisor leave every remainder.          *)
LEMMA Rotation ==
  ASSUME NEW n \in Nat \ {0}, NEW a \in Nat, NEW j \in 0..(n - 1)
  PROVE  \E i \in 0..(n - 1) : (a + i) % n = j
<1>1. PICK q, r : q = a \div n /\ r = a % n
  OBVIOUS
<1>2. q \in Nat /\ r \in 0..(n - 1) /\ a = n * q + r
  BY <1>1
<1>3. CASE j >= r
  <2>1. PICK i \in 0..(n - 1) : i = j - r
    BY <1>2, <1>3
  <2>2. a + i = n * q + j /\ a + i \in Nat
    BY <1>2, <2>1
  <2>3. (a + i) % n = j
    BY <1>2, <2>2, RemainderUnique
  <2> QED
    BY <2>3
<1>4. CASE ~(j >= r)
  <2>1. PICK i \in 0..(n - 1) : i = n + j - r
    BY <1>2, <1>4
  <2>2. n * (q + 1) = n * q + n
    BY <1>2
  <2>3. a + i = n * (q + 1) + j /\ a + i \in Nat /\ q + 1 \in Nat
    BY <1>2, <2>1, <2>2
  <2>4. (a + i) % n = j
    BY SMTT(40), <2>3, RemainderUnique
  <2> QED
    BY <2>4
<1> QED
  BY <1>3, <1>4

(* The healthy backends, as a set and as a list.                           *)
Machines == 1..NumBackends
BalancerTypes ==
  /\ healthy \in [Machines -> BOOLEAN]
  /\ rrIndex \in 0..MaxIndex
  /\ currentWeights \in [Machines -> Int]
  /\ pings \subseteq Checks \X Machines
  /\ recent \in Seq(Machines)

(* The list of healthy backends has each of them, and none other.          *)
LEMMA ActiveFacts ==
  ASSUME Balancer!ConstantsFit
  PROVE  /\ Balancer!Backends = Machines /\ Balancer!ActiveSet \subseteq Machines
         /\ Balancer!Active \in Seq(Balancer!ActiveSet)
         /\ Elements(Balancer!Active) = Balancer!ActiveSet
         /\ Balancer!ActiveSet # {} => Len(Balancer!Active) \in Nat \ {0}
<1> DEFINE id == [b \in Machines |-> b]
           A == Balancer!ActiveSet
           k == Kept(id, A)
<1>0. NumBackends \in Nat
  BY DEF Balancer!ConstantsFit
<1>1. Balancer!Backends = Machines /\ A \subseteq Machines
  BY DEF Balancer!Backends, Balancer!ActiveSet, Machines
<1>2. Balancer!Active = k
  <2>1. \A s, T : Balancer!Kept(s, T) = Kept(s, T)
    BY DEF Balancer!Kept, Kept
  <2> QED
    BY <1>1, <2>1 DEF Balancer!Active
<1>3. id \in Seq(Machines) /\ DOMAIN id = Machines
  BY <1>0 DEF Machines
<1>4. Elements(id) = Machines
  BY <1>3 DEF Elements
<1> HIDE DEF id, A
<1>5. k \in Seq(Machines \cap A)
  BY <1>3, KeptType
<1>6. Selected(k, id, A)
  BY <1>3, KeptSelects
<1>7. Machines \cap A = A
  BY <1>1
<1>8. Elements(k) = A
  BY <1>4, <1>6, <1>7 DEF Selected
<1>9. ASSUME A # {} PROVE Len(k) \in Nat \ {0}
  <2>1. PICK i \in DOMAIN k : TRUE
    BY <1>8, <1>9 DEF Elements
  <2>2. Len(k) \in Nat /\ DOMAIN k = 1..Len(k)
    BY <1>5
  <2> QED
    BY <2>1, <2>2
<1> QED
  BY <1>1, <1>2, <1>5, <1>7, <1>8, <1>9 DEF A

(* The latest choices, one more and perhaps without the first.             *)
Later(s, b, n) == SubSeq(Append(s, b), IF Len(Append(s, b)) > n THEN 2 ELSE 1, Len(Append(s, b)))

(* One more choice, and d of the first forgotten.                          *)
IsNext(z, s, b, d) ==
  /\ Len(z) = Len(s) + 1 - d
  /\ \A i \in 1..(Len(s) + 1 - d) : z[i] = IF i + d = Len(s) + 1 THEN b ELSE s[i + d]

IsLater(z, s, b, n) == \E d \in {0, 1} : IsNext(z, s, b, d) /\ (d = 1 => Len(s) >= n)

(* The latest choices after one more: the last is that one.                *)
LEMMA LaterFacts ==
  ASSUME NEW S, NEW s \in Seq(S), NEW b \in S, NEW n \in Int
  PROVE  Later(s, b, n) \in Seq(S) /\ IsLater(Later(s, b, n), s, b, n)
<1>1. PICK m \in Nat : m = Len(s)
  OBVIOUS
<1> DEFINE r == Append(s, b)
<1>2. r \in Seq(S) /\ r = Append(s, b) /\ Len(r) = m + 1 /\ r[m + 1] = b /\ \A i \in 1..m : r[i] = s[i]
  BY <1>1
<1> HIDE DEF r
<1>3. CASE m + 1 > n
  <2>1. Later(s, b, n) = SubSeq(r, 2, m + 1)
    BY <1>2, <1>3 DEF Later
  <2>2. SubSeq(r, 2, m + 1) \in Seq(S) /\ Len(SubSeq(r, 2, m + 1)) = m
        /\ \A i \in 1..m : SubSeq(r, 2, m + 1)[i] = r[i + 1]
    BY <1>2
  <2>3. \A i \in 1..m : r[i + 1] = IF i + 1 = m + 1 THEN b ELSE s[i + 1]
    BY <1>2
  <2>4. IsNext(Later(s, b, n), s, b, 1)
    BY <1>1, <2>1, <2>2, <2>3 DEF IsNext
  <2> QED
    BY <1>1, <1>3, <2>1, <2>2, <2>4 DEF IsLater
<1>4. CASE ~(m + 1 > n)
  <2>1. Later(s, b, n) = SubSeq(r, 1, m + 1)
    BY <1>2, <1>4 DEF Later
  <2>2. SubSeq(r, 1, m + 1) \in Seq(S) /\ Len(SubSeq(r, 1, m + 1)) = m + 1
        /\ \A i \in 1..(m + 1) : SubSeq(r, 1, m + 1)[i] = r[i]
    BY <1>2
  <2>3. \A i \in 1..(m + 1) : r[i] = IF i + 0 = m + 1 THEN b ELSE s[i + 0]
    BY <1>2
  <2>4. IsNext(Later(s, b, n), s, b, 0)
    BY <1>1, <2>1, <2>2, <2>3 DEF IsNext
  <2> QED
    BY <1>1, <2>1, <2>2, <2>4 DEF IsLater
<1> QED
  BY <1>3, <1>4

(* The rotation: the latest choices of round robin, and its next one.      *)
Turns(s, r, k) ==
  /\ Len(s) <= r
  /\ \A i \in 1..Len(s) : s[i] = k[((r - Len(s) + i - 1) % Len(k)) + 1]

(* Another choice in turn keeps to the rotation.                           *)
LEMMA TurnTaken ==
  ASSUME NEW S, NEW s \in Seq(S), NEW r \in Nat, NEW k \in Seq(S), Len(k) # 0, Turns(s, r, k),
         NEW b \in S, b = k[(r % Len(k)) + 1], NEW n \in Int, NEW z, z = Later(s, b, n)
  PROVE  Turns(z, r + 1, k)
<1>1. PICK d \in {0, 1} :
        /\ Len(z) = Len(s) + 1 - d
        /\ \A i \in 1..(Len(s) + 1 - d) : z[i] = IF i + d = Len(s) + 1 THEN b ELSE s[i + d]
  <2>1. IsLater(Later(s, b, n), s, b, n)
    BY LaterFacts
  <2>2. IsLater(z, s, b, n)
    BY <2>1
  <2> QED
    BY <2>2 DEF IsLater, IsNext
<1>2. PICK m \in Nat : m = Len(s) /\ m <= r
  BY DEF Turns
<1>3. ASSUME NEW i \in 1..(m + 1 - d)
      PROVE  z[i] = k[((r + 1 - (m + 1 - d) + i - 1) % Len(k)) + 1]
  <2>1. CASE i + d = m + 1
    <3>1. z[i] = b
      BY <1>1, <1>2, <2>1
    <3>2. r + 1 - (m + 1 - d) + i - 1 = r
      BY <1>2, <2>1
    <3> QED
      BY <3>1, <3>2
  <2>2. CASE i + d # m + 1
    <3>1. PICK e \in 1..m : e = i + d
      BY <2>2
    <3>2. z[i] = s[e]
      BY <1>1, <1>2, <2>2, <3>1
    <3>3. s[e] = k[((r - m + e - 1) % Len(k)) + 1]
      BY <1>2 DEF Turns
    <3>4. r + 1 - (m + 1 - d) + i - 1 = r - m + e - 1
      BY <1>2, <3>1
    <3> QED
      BY <3>2, <3>3, <3>4
  <2> QED
    BY <2>1, <2>2
<1>4. PICK q \in Nat : q = r + 1
  OBVIOUS
<1>5. Len(z) = m + 1 - d /\ Len(z) <= q
  BY <1>1, <1>2, <1>4
<1>6. ASSUME NEW i \in 1..Len(z)
      PROVE  z[i] = k[((q - Len(z) + i - 1) % Len(k)) + 1]
  <2>1. i \in 1..(m + 1 - d)
    BY <1>5
  <2>2. q - Len(z) = r + 1 - (m + 1 - d)
    BY <1>4, <1>5
  <2> QED
    BY <1>3, <2>1, <2>2, Zenon
<1>7. Turns(z, q, k)
  BY <1>5, <1>6, Zenon DEF Turns
<1> QED
  BY <1>4, <1>7, Zenon

(* The last n of a sequence.                                               *)
LastOnes(s, n) == SubSeq(s, Len(s) - n + 1, Len(s))

(* As many choices in a row as there are healthy backends meet them all.   *)
LEMMA TurnsMeetAll ==
  ASSUME NEW S, NEW s \in Seq(S), NEW r \in Nat, NEW k \in Seq(S), Len(k) # 0,
         Turns(s, r, k), Len(s) >= Len(k)
  PROVE  Elements(LastOnes(s, Len(k))) = Elements(k)
<1> DEFINE z == LastOnes(s, Len(k))
<1>0. PICK n \in Nat \ {0} : n = Len(k)
  OBVIOUS
<1>1. PICK m \in Nat : m = Len(s) /\ m <= r /\ m >= n
  <2> HIDE DEF z
  <2>1. Len(s) <= r
    BY DEF Turns
  <2>2. Len(s) \in Nat
    BY LenProperties
  <2>3. Len(s) >= n
    BY <1>0
  <2> QED
    BY <2>1, <2>2, <2>3
<1>2. PICK a \in Nat : a = r - n
  <2>1. r - n \in Nat
    BY <1>1
  <2> QED
    BY <2>1
<1>3. DOMAIN z = 1..n /\ \A i \in 1..n : z[i] = s[m - n + i]
  <2>1. z = SubSeq(s, m - n + 1, m)
    BY <1>0, <1>1 DEF LastOnes
  <2> QED
    BY <1>1, <2>1
<1> HIDE DEF z
<1>4. ASSUME NEW i \in 1..n PROVE z[i] = k[((a + (i - 1)) % n) + 1]
  <2>1. PICK e \in 1..m : e = m - n + i
    <3>1. m - n + i \in 1..m
      BY <1>1
    <3> QED
      BY <3>1
  <2>2. s[e] = k[((r - m + e - 1) % n) + 1]
    BY <1>0, <1>1 DEF Turns
  <2>3. r - m + e - 1 = a + (i - 1)
    BY <1>1, <1>2, <2>1
  <2> QED
    BY <1>3, <2>1, <2>2, <2>3
<1>5. DOMAIN k = 1..n
  BY <1>0
<1>6. ASSUME NEW i \in 1..n PROVE z[i] \in Elements(k)
  <2>1. (a + (i - 1)) % n \in 0..(n - 1)
    OBVIOUS
  <2>2. ((a + (i - 1)) % n) + 1 \in 1..n
    BY <2>1
  <2> QED
    BY <1>4, <1>5, <2>2 DEF Elements
<1>7. ASSUME NEW j \in 1..n PROVE k[j] \in Elements(z)
  <2>1. j - 1 \in 0..(n - 1)
    OBVIOUS
  <2>2. PICK i \in 0..(n - 1) : (a + i) % n = j - 1
    BY <2>1, Rotation
  <2>3. PICK l \in 1..n : l - 1 = i
    <3>1. i + 1 \in 1..n /\ (i + 1) - 1 = i
      OBVIOUS
    <3> QED
      BY <3>1
  <2>4. z[l] = k[(j - 1) + 1]
    BY <1>4, <2>2, <2>3
  <2>5. (j - 1) + 1 = j
    OBVIOUS
  <2> QED
    BY <1>3, <2>4, <2>5 DEF Elements
<1>8. \A x \in Elements(z) : x \in Elements(k)
  BY <1>3, <1>6 DEF Elements
<1>9. \A x \in Elements(k) : x \in Elements(z)
  BY <1>5, <1>7 DEF Elements
<1>10. Elements(z) = Elements(k)
  BY <1>8, <1>9
<1> QED
  BY <1>10 DEF z

(* The backends are finitely many and have weights.                        *)
LEMMA MachinesFinite ==
  ASSUME Balancer!ConstantsFit
  PROVE  IsFiniteSet(Machines) /\ weight \in [Machines -> Int] /\ NumBackends \in Int /\ MaxIndex \in Nat
<1>1. 1 \in Int /\ NumBackends \in Int /\ MaxIndex \in Nat /\ weight \in [Machines -> Int]
  BY DEF Balancer!ConstantsFit, Machines
<1> QED
  BY <1>1, FS_Interval DEF Machines

(* The weighted strategy. One choice: who has most after all gained their  *)
(* weights, and what it leaves of the weights.                             *)
Most(f, A, b) ==
  /\ b \in A
  /\ \A c \in A : \/ f[c] + weight[c] < f[b] + weight[b]
                  \/ f[c] + weight[c] = f[b] + weight[b] /\ b <= c
Paid(f, A, b) ==
  [c \in Machines |->
     (IF c \in A THEN f[c] + weight[c] ELSE f[c]) - (IF c = b THEN Added(weight, A) ELSE 0)]

(* No set of backends is in debt by more than its room.                    *)
Worth == Added(weight, Machines)
Room(X) == Worth * (Cardinality(X) * (NumBackends - Cardinality(X)))
Spread(f) == \A X \in SUBSET Machines : Added(f, X) >= -Room(X)

(* What the weights of a part are, and of all.                             *)
LEMMA WeightFacts ==
  ASSUME Balancer!ConstantsFit
  PROVE  /\ IsFiniteSet(Machines) /\ weight \in [Machines -> Int] /\ NumBackends \in Nat
         /\ \A b \in Machines : weight[b] \in Int /\ weight[b] >= 1
         /\ Worth \in Nat
         /\ \A S \in SUBSET Machines : /\ Added(weight, S) \in Nat /\ Added(weight, S) <= Worth
                                       /\ \A b \in S : weight[b] <= Added(weight, S)
<1>1. IsFiniteSet(Machines) /\ NumBackends \in Nat /\ weight \in [Machines -> Nat \ {0}]
  BY MachinesFinite DEF Balancer!ConstantsFit, Machines
<1>2. /\ weight \in [Machines -> Int]
      /\ \A b \in Machines : weight[b] \in Int /\ weight[b] >= 1 /\ weight[b] >= 0
  BY <1>1
<1>3. ASSUME NEW S \in SUBSET Machines
      PROVE  /\ Added(weight, S) \in Nat
             /\ \A b \in S : weight[b] <= Added(weight, S)
  <2>1. Added(weight, S) \in Int
    BY <1>1, <1>2, AddedInt
  <2>2. \A b \in S : weight[b] >= 0
    BY <1>2
  <2>3. Added(weight, S) >= 0 /\ \A b \in S : weight[b] <= Added(weight, S)
    BY <1>1, <1>2, <2>2, AddedNat
  <2> QED
    BY <2>1, <2>3
<1>4. ASSUME NEW S \in SUBSET Machines PROVE Added(weight, S) <= Worth
  <2>1. Machines \in SUBSET Machines /\ Machines \cap S = S /\ Machines \ S \in SUBSET Machines
    OBVIOUS
  <2>2. IsFiniteSet(Machines) /\ weight \in [Machines -> Int]
    BY <1>1, <1>2
  <2>3. PICK p \in Int, q \in Int :
          /\ p = Added(weight, Machines \cap S) /\ q = Added(weight, Machines \ S)
          /\ Added(weight, Machines) = p + q
    <3>1. IsSplit(weight, Machines, S)
      BY <2>1, <2>2, AddedSplit
    <3> QED
      BY <3>1 DEF IsSplit
  <2>4. Added(weight, Machines \ S) \in Nat
    BY <1>3, <2>1
  <2> QED
    BY <2>1, <2>3, <2>4 DEF Worth
<1>5. Worth \in Nat
  BY <1>3 DEF Worth
<1> QED
  BY <1>1, <1>2, <1>3, <1>4, <1>5

(* What a choice makes of the sum over a set: the chosen one pays what the *)
(* others gain.                                                            *)
LEMMA PaidSums ==
  ASSUME Balancer!ConstantsFit, NEW f \in [Machines -> Int], NEW A \in SUBSET Machines, NEW b \in A,
         NEW X \in SUBSET Machines
  PROVE  /\ Paid(f, A, b) \in [Machines -> Int]
         /\ Added(Paid(f, A, b), X) =
              Added(f, X) + Added(weight, X \cap A) - (IF b \in X THEN Added(weight, A) ELSE 0)
<1>1. /\ IsFiniteSet(Machines) /\ weight \in [Machines -> Int]
      /\ \A S \in SUBSET Machines : Added(weight, S) \in Nat
  BY WeightFacts
<1> DEFINE w == [c \in Machines |-> IF c \in A THEN weight[c] ELSE 0]
           h == [c \in Machines |-> f[c] + w[c]]
           d == Added(weight, A)
           g == Paid(f, A, b)
<1>2. w \in [Machines -> Int] /\ IsPart(w, weight, A, Machines)
  BY <1>1 DEF IsPart
<1>3. h \in [Machines -> Int] /\ \A c \in X : h[c] = f[c] + w[c]
  BY <1>2
<1>4. d \in Int /\ b \in Machines
  BY <1>1
<1>5. g \in [Machines -> Int] /\ IsLowered(g, h, b, d, Machines)
  <2>1. ASSUME NEW c \in Machines
        PROVE  /\ (IF c \in A THEN f[c] + weight[c] ELSE f[c]) = h[c] /\ h[c] \in Int
    BY <1>1
  <2> HIDE DEF h, w, d
  <2>2. \A c \in Machines : g[c] = h[c] - (IF c = b THEN d ELSE 0)
    BY <2>1 DEF Paid, d
  <2>3. \A c \in Machines : g[c] = IF c = b THEN h[c] - d ELSE h[c]
    BY <1>4, <2>1, <2>2
  <2>4. \A c \in Machines : g[c] \in Int
    BY <1>4, <2>1, <2>3
  <2>5. g = [c \in Machines |-> g[c]]
    BY DEF Paid
  <2> QED
    BY <2>3, <2>4, <2>5 DEF IsLowered
<1> HIDE DEF w, h, g
<1>6. Added(g, X) = Added(h, X) - (IF b \in X THEN d ELSE 0)
  <2> HIDE DEF d
  <2> QED
    BY <1>1, <1>3, <1>4, <1>5, AddedLowered
<1>7. Added(h, X) = Added(f, X) + Added(w, X)
  BY <1>1, <1>2, <1>3, AddedPlus
<1>8. Added(w, X) = Added(weight, X \cap A)
  BY <1>1, <1>2, AddedPart
<1>9. Added(g, X) = Added(f, X) + Added(weight, X \cap A) - (IF b \in X THEN d ELSE 0)
  <2>1. PICK x \in Int, y \in Int, z \in Int :
          x = Added(f, X) /\ y = Added(w, X) /\ z = (IF b \in X THEN d ELSE 0)
    BY <1>1, <1>2, <1>4, AddedInt
  <2>2. Added(h, X) = x + y
    BY <1>7, <2>1
  <2>3. Added(g, X) = x + y - z
    BY <1>6, <2>1, <2>2
  <2>4. y = Added(weight, X \cap A)
    BY <1>8, <2>1
  <2> QED
    BY <2>1, <2>3, <2>4
<1> QED
  BY <1>5, <1>9 DEF g

(* The room of three sets that differ by one each.                         *)
LEMMA RoomsMeet ==
  ASSUME NEW W \in Nat, NEW n \in Nat, NEW k \in Nat
  PROVE  W * ((k - 1) * (n - (k - 1))) + W * ((k + 1) * (n - (k + 1))) = 2 * (W * (k * (n - k))) - 2 * W
<1>1. (k - 1) * (n - (k - 1)) + (k + 1) * (n - (k + 1)) = 2 * (k * (n - k)) - 2
  OBVIOUS
<1>2. PICK x \in Int, y \in Int, z \in Int :
        x = (k - 1) * (n - (k - 1)) /\ y = (k + 1) * (n - (k + 1)) /\ z = k * (n - k)
  OBVIOUS
<1>3. x + y = 2 * z - 2
  BY <1>1, <1>2
<1>4. W * x + W * y = W * (x + y)
  OBVIOUS
<1>5. W * (2 * z - 2) = 2 * (W * z) - 2 * W
  OBVIOUS
<1> QED
  BY <1>2, <1>3, <1>4, <1>5

(* A choice keeps every set's debt within its room: whoever pays had at    *)
(* least as much as anyone, so that a set deep in debt does not pay.       *)
LEMMA SpreadStep ==
  ASSUME Balancer!ConstantsFit, NEW f \in [Machines -> Int], NEW A \in SUBSET Machines, NEW b,
         Most(f, A, b), Spread(f)
  PROVE  Spread(Paid(f, A, b))
<1> DEFINE g == Paid(f, A, b)
<1>1. b \in A /\ b \in Machines /\ \A c \in A : f[c] + weight[c] <= f[b] + weight[b]
  <2>1. \A c \in A : f[c] \in Int /\ weight[c] \in Int
    BY WeightFacts
  <2> QED
    BY <2>1 DEF Most
<1>2. ASSUME NEW X \in SUBSET Machines PROVE Added(g, X) >= -Room(X)
  <2>1. Added(g, X) = Added(f, X) + Added(weight, X \cap A) - (IF b \in X THEN Added(weight, A) ELSE 0)
    BY <1>1, PaidSums
  <2>2. PICK s \in Int : s = Added(f, X)
    BY WeightFacts, AddedInt
  <2>3. s >= -Room(X) /\ Room(X) \in Int
    <3>1. IsFiniteSet(X) /\ Cardinality(X) \in Nat
      BY WeightFacts, FS_Subset, FS_CardinalityType
    <3>2. PICK k \in Nat : k = Cardinality(X)
      BY <3>1
    <3>3. Worth \in Nat /\ NumBackends \in Nat
      BY WeightFacts
    <3>4. Room(X) \in Int
      BY <3>2, <3>3 DEF Room
    <3> QED
      BY <2>2, <3>4 DEF Spread
  <2>0. IsFiniteSet(Machines) /\ weight \in [Machines -> Int]
    BY WeightFacts
  <2> HIDE DEF g
  <2>4. CASE b \notin X
    <3>1. X \cap A \in SUBSET Machines
      OBVIOUS
    <3>2. Added(weight, X \cap A) \in Nat
      BY <3>1, WeightFacts
    <3> QED
      BY <2>1, <2>2, <2>3, <2>4, <3>2
  <2>5. CASE b \in X
    <3>1. A \cap X = X \cap A /\ A \cap X \in SUBSET Machines /\ A \ X \in SUBSET Machines
      OBVIOUS
    <3>2. PICK e \in Int, d \in Int :
            e = Added(weight, A \cap X) /\ d = Added(weight, A \ X) /\ Added(weight, A) = e + d
      <4>1. IsSplit(weight, A, X)
        BY <2>0, AddedSplit
      <4> QED
        BY <4>1 DEF IsSplit
    <3>3. d \in Nat /\ d = Added(weight, A \ X)
      BY <3>1, <3>2, WeightFacts
    <3>4. e = Added(weight, X \cap A)
      BY <3>1, <3>2
    <3>5. Added(g, X) = s - d
      <4>1. Added(g, X) = s + e - (e + d)
        BY <2>1, <2>2, <2>5, <3>2, <3>4
      <4> QED
        BY <3>3, <4>1
    <3>6. CASE A \ X = {}
      <4>1. Added(weight, {}) = 0
        BY WeightFacts, AddedStep
      <4>2. d = 0
        BY <3>3, <3>6, <4>1, Zenon
      <4> QED
        BY <2>3, <3>5, <4>2
    <3>7. ASSUME NEW c \in A \ X PROVE s - d >= -Room(X)
      <4> DEFINE Y == X \ {b}
                 Z == X \cup {c}
                 D == (A \ X) \cup {b}
      <4>1. /\ Y \in SUBSET Machines /\ Z \in SUBSET Machines /\ D \in SUBSET Machines
            /\ c \in Z /\ Z \ {c} = X /\ b \in D /\ D \ {b} = A \ X
        BY <1>1, <2>5
      <4>2. PICK k \in Nat : k = Cardinality(X)
        BY WeightFacts, FS_Subset, FS_CardinalityType
      <4>3. Cardinality(Y) = k - 1 /\ Cardinality(Z) = k + 1
        <5>1. IsFiniteSet(X)
          BY WeightFacts, FS_Subset
        <5>2. Cardinality(X \ {b}) = Cardinality(X) - 1
          BY <2>5, <5>1, FS_RemoveElement
        <5>3. Cardinality(X \cup {c}) = Cardinality(X) + 1
          BY <5>1, FS_AddElement
        <5> QED
          BY <4>2, <5>2, <5>3
      <4>4. s = f[b] + Added(f, Y)
        BY <2>2, <2>5, WeightFacts, AddedTake
      <4> HIDE DEF Y, Z, D
      <4>5. Added(f, Z) = f[c] + s
        BY <2>2, <4>1, WeightFacts, AddedTake
      <4>6. Added(weight, D) = weight[b] + d
        BY <3>3, <4>1, WeightFacts, AddedTake
      <4>7. PICK W \in Nat : W = Worth
        BY WeightFacts
      <4>8. weight[b] + d <= W
        BY <4>1, <4>6, <4>7, WeightFacts
      <4>9. PICK n \in Nat : n = NumBackends
        BY WeightFacts
      <4>10. PICK p \in Int, q \in Int, r \in Int :
               /\ p = W * ((k - 1) * (n - (k - 1)))
               /\ q = W * ((k + 1) * (n - (k + 1)))
               /\ r = W * (k * (n - k))
        OBVIOUS
      <4>11. p + q = 2 * r - 2 * W
        BY <4>10, RoomsMeet
      <4>12. Room(Y) = p /\ Room(Z) = q /\ Room(X) = r
        BY <4>2, <4>3, <4>7, <4>9, <4>10 DEF Room
      <4>13. Added(f, Y) >= -p /\ Added(f, Z) >= -q
        BY <4>1, <4>12 DEF Spread
      <4>14. PICK fb \in Int, fc \in Int, wb \in Nat, wc \in Nat, y \in Int :
               fb = f[b] /\ fc = f[c] /\ wb = weight[b] /\ wc = weight[c] /\ y = Added(f, Y)
        <5>1. b \in Machines /\ c \in Machines
          BY <1>1
        <5>2. weight[b] \in Nat /\ weight[c] \in Nat
          BY <5>1, WeightFacts
        <5>3. Added(f, Y) \in Int
          BY <4>1, WeightFacts, AddedInt
        <5> QED
          BY <5>1, <5>2, <5>3
      <4>15. fc + wc <= fb + wb
        BY <1>1, <4>14
      <4>16. s = fb + y /\ y >= -p /\ fc + s >= -q /\ wb + d <= W
        BY <4>4, <4>5, <4>8, <4>13, <4>14
      <4>17. s - d >= -r
        BY <4>11, <4>15, <4>16
      <4> QED
        BY <4>12, <4>17
    <3> QED
      BY <3>5, <3>6, <3>7
  <2> QED
    BY <2>4, <2>5
<1> HIDE DEF g
<1> QED
  BY <1>2 DEF Spread, g

(* How often b is chosen after the first j of the choices r, and what b had*)
(* then, if f is what it has now.                                          *)
PicksAt(r, j, b) == {i \in 1..Len(r) : i > j /\ r[i] = b}
Picks(r, j, b) == Cardinality(PicksAt(r, j, b))
Had(f, r, A, j, b) == f[b] - (Len(r) - j) * weight[b] + Added(weight, A) * Picks(r, j, b)

(* Numbers moved along are as many.                                        *)
Moved(S, d) == {i + d : i \in S}
LEMMA ShiftedCount ==
  ASSUME NEW S, IsFiniteSet(S), S \subseteq Int, NEW d \in Int
  PROVE  IsFiniteSet(Moved(S, d)) /\ Cardinality(Moved(S, d)) = Cardinality(S)
<1> DEFINE T == Moved(S, d)
           f == [i \in S |-> i + d]
<1>1. f \in [S -> T]
  BY DEF Moved
<1>2. \A i, j \in S : f[i] = f[j] => i = j
  <2>1. \A i, j \in S : i \in Int /\ j \in Int /\ (i + d = j + d => i = j)
    OBVIOUS
  <2> QED
    BY <2>1
<1>3. \A t \in T : \E i \in S : f[i] = t
  BY DEF Moved
<1> HIDE DEF T, f
<1>4. ExistsBijection(S, T)
  <2>1. f \in Injection(S, T)
    BY <1>1, <1>2 DEF Injection, IsInjective
  <2>2. f \in Surjection(S, T)
    BY <1>1, <1>3 DEF Surjection
  <2> QED
    BY <2>1, <2>2 DEF ExistsBijection, Bijection
<1>5. IsFiniteSet(T) /\ Cardinality(T) = Cardinality(S)
  BY <1>4, FS_Bijection
<1> QED
  BY <1>5, Zenon DEF T

(* The choices after the j-th.                                             *)
LEMMA PicksFacts ==
  ASSUME NEW S, NEW r \in Seq(S)
  PROVE  /\ \A b : \A j \in Int : IsFiniteSet(PicksAt(r, j, b)) /\ Picks(r, j, b) \in Nat
         /\ \A b : Picks(r, Len(r), b) = 0
         /\ \A b : \A j \in 0..Len(r), i \in 1..Len(r) :
              i = j + 1 => Picks(r, j, b) = Picks(r, i, b) + (IF r[i] = b THEN 1 ELSE 0)
<1>1. Len(r) \in Nat
  OBVIOUS
<1>2. ASSUME NEW b, NEW j \in Int PROVE IsFiniteSet(PicksAt(r, j, b)) /\ Picks(r, j, b) \in Nat
  <2>1. IsFiniteSet(1..Len(r))
    BY <1>1, FS_Interval
  <2>2. PicksAt(r, j, b) \in SUBSET (1..Len(r))
    BY DEF PicksAt
  <2>3. IsFiniteSet(PicksAt(r, j, b))
    BY <2>1, <2>2, FS_Subset
  <2> QED
    BY <2>3, FS_CardinalityType DEF Picks
<1>3. ASSUME NEW b PROVE Picks(r, Len(r), b) = 0
  <2>1. PicksAt(r, Len(r), b) = {}
    BY <1>1 DEF PicksAt
  <2> QED
    BY <2>1, FS_EmptySet DEF Picks
<1>4. ASSUME NEW b, NEW j \in 0..Len(r), NEW i \in 1..Len(r), i = j + 1
      PROVE  Picks(r, j, b) = Picks(r, i, b) + (IF r[i] = b THEN 1 ELSE 0)
  <2>1. IsFiniteSet(PicksAt(r, i, b)) /\ Picks(r, i, b) \in Nat /\ i \notin PicksAt(r, i, b)
    BY <1>2 DEF PicksAt
  <2>2. CASE r[i] = b
    <3>1. PicksAt(r, j, b) = PicksAt(r, i, b) \cup {i}
      <4>1. ASSUME NEW e \in 1..Len(r) PROVE e > j <=> e > i \/ e = i
        BY <1>4
      <4> QED
        BY <1>4, <2>2, <4>1 DEF PicksAt
    <3>2. Cardinality(PicksAt(r, i, b) \cup {i}) = Cardinality(PicksAt(r, i, b)) + 1
      BY <2>1, FS_AddElement
    <3> QED
      BY <2>2, <3>1, <3>2 DEF Picks
  <2>3. CASE r[i] # b
    <3>1. PicksAt(r, j, b) = PicksAt(r, i, b)
      <4>1. ASSUME NEW e \in 1..Len(r) PROVE e > j <=> e > i \/ e = i
        BY <1>4
      <4> QED
        BY <1>4, <2>3, <4>1 DEF PicksAt
    <3>2. Picks(r, j, b) = Picks(r, i, b)
      BY <3>1 DEF Picks
    <3> QED
      BY <2>1, <2>3, <3>2
  <2> QED
    BY <2>2, <2>3
<1> QED
  BY <1>2, <1>3, <1>4

(* What one more choice adds to them.                                      *)
LEMMA PicksNext ==
  ASSUME NEW S, NEW r \in Seq(S), NEW b \in S, NEW d \in {0, 1}, NEW z \in Seq(S), IsNext(z, r, b, d)
  PROVE  \A c : \A j \in Nat :
           j < Len(z) => /\ c = b => Picks(z, j, c) = Picks(r, j + d, c) + 1
                         /\ c # b => Picks(z, j, c) = Picks(r, j + d, c)
<1> SUFFICES ASSUME NEW c, NEW j \in Nat, j < Len(z)
             PROVE  /\ c = b => Picks(z, j, c) = Picks(r, j + d, c) + 1
                    /\ c # b => Picks(z, j, c) = Picks(r, j + d, c)
  OBVIOUS
<1>1. PICK m \in Nat, l \in Nat : m = Len(r) /\ l = Len(z) /\ l = m + 1 - d
  BY DEF IsNext
<1>2. \A i \in 1..l : z[i] = IF i + d = m + 1 THEN b ELSE r[i + d]
  BY <1>1 DEF IsNext
<1>3. PICK q \in Nat : q = j + d
  OBVIOUS
<1> DEFINE P == PicksAt(z, j, c)
           Q == Moved(P, d)
           R == PicksAt(r, q, c)
<1>4. IsFiniteSet(P) /\ IsFiniteSet(R) /\ Picks(r, q, c) \in Nat
  BY PicksFacts
<1>5. Cardinality(Q) = Cardinality(P)
  <2>1. P \in SUBSET Int
    BY DEF PicksAt
  <2>2. d \in Int
    OBVIOUS
  <2> HIDE DEF P
  <2> QED
    BY <1>4, <2>1, <2>2, ShiftedCount
<1>6. ASSUME NEW e PROVE e \in Q <=> e \in R \/ (e = m + 1 /\ c = b)
  <2>1. ASSUME e \in Q PROVE e \in R \/ (e = m + 1 /\ c = b)
    <3>1. PICK i \in 1..l : i > j /\ z[i] = c /\ e = i + d
      BY <1>1, <2>1 DEF PicksAt, Moved
    <3>2. CASE e = m + 1
      BY <1>2, <3>1, <3>2
    <3>3. CASE e # m + 1
      <4>1. e \in 1..m /\ e > q
        BY <1>1, <1>3, <3>1, <3>3
      <4>2. r[e] = c
        BY <1>2, <3>1, <3>3
      <4> QED
        BY <1>1, <4>1, <4>2 DEF PicksAt
    <3> QED
      BY <3>2, <3>3
  <2>2. ASSUME e \in R \/ (e = m + 1 /\ c = b) PROVE e \in Q
    <3>1. e \in 1..(m + 1) /\ e > q /\ (e # m + 1 => r[e] = c) /\ (e = m + 1 => c = b)
      <4>1. CASE e \in R
        BY <1>1, <4>1 DEF PicksAt
      <4>2. CASE e = m + 1 /\ c = b
        BY <1>1, <1>3, <4>2
      <4> QED
        BY <2>2, <4>1, <4>2
    <3>2. PICK i \in 1..l : i + d = e /\ i > j
      <4>1. e - d \in 1..l /\ (e - d) + d = e /\ e - d > j
        BY <1>1, <1>3, <3>1
      <4> QED
        BY <4>1
    <3>3. z[i] = c
      BY <1>2, <3>1, <3>2
    <3>4. i \in P
      BY <1>1, <3>2, <3>3 DEF PicksAt
    <3> HIDE DEF P
    <3> QED
      BY <3>2, <3>4 DEF Moved
  <2> QED
    BY <2>1, <2>2
<1> HIDE DEF P, Q
<1>7. Picks(z, j, c) = Cardinality(Q)
  BY <1>5 DEF Picks, P
<1>8. m + 1 \notin R
  BY <1>1 DEF PicksAt
<1> HIDE DEF R
<1>9. CASE c = b
  <2>1. Q = R \cup {m + 1}
    BY <1>6, <1>9
  <2>2. Cardinality(R \cup {m + 1}) = Cardinality(R) + 1
    BY <1>4, <1>8, FS_AddElement
  <2>3. Picks(z, j, c) = Picks(r, q, c) + 1
    BY <1>7, <2>1, <2>2 DEF Picks, R
  <2> QED
    BY <1>3, <1>9, <2>3
<1>10. CASE c # b
  <2>1. Q = R
    BY <1>6, <1>10
  <2>2. Picks(z, j, c) = Picks(r, q, c)
    BY <1>7, <2>1 DEF Picks, R
  <2> QED
    BY <1>3, <1>4, <1>10, <2>2
<1> QED
  BY <1>9, <1>10

(* A choice leaves what everybody had before.                              *)
HadKept(f, r, A, b, z, d) ==
  \A c \in A : \A j \in Nat : j < Len(z) => Had(Paid(f, A, b), z, A, j, c) = Had(f, r, A, j + d, c)
LEMMA HadNext ==
  ASSUME Balancer!ConstantsFit, NEW f \in [Machines -> Int], NEW A \in SUBSET Machines, NEW b \in A,
         NEW r \in Seq(A), NEW d \in {0, 1}, NEW z \in Seq(A), IsNext(z, r, b, d)
  PROVE  HadKept(f, r, A, b, z, d)
<1> SUFFICES ASSUME NEW c \in A
             PROVE  \A j \in Nat : j < Len(z) => Had(Paid(f, A, b), z, A, j, c) = Had(f, r, A, j + d, c)
  BY DEF HadKept
<1>1. PICK m \in Nat, l \in Nat : m = Len(r) /\ l = Len(z) /\ l = m + 1 - d
  BY DEF IsNext
<1>2. PICK w \in Int : w = weight[c]
  BY WeightFacts
<1>3. PICK T \in Nat : T = Added(weight, A)
  BY WeightFacts
<1>4. PICK x \in Int : x = f[c]
  OBVIOUS
<1>5. PICK y \in Int : y = Paid(f, A, b)[c] /\ y = x + w - (IF c = b THEN T ELSE 0)
  <2>1. Paid(f, A, b)[c] = x + w - (IF c = b THEN T ELSE 0)
    <3>1. Paid(f, A, b)[c] =
            (IF c \in A THEN f[c] + weight[c] ELSE f[c]) - (IF c = b THEN Added(weight, A) ELSE 0)
      BY DEF Paid
    <3> QED
      BY <1>2, <1>3, <1>4, <3>1
  <2>2. PICK y \in Int : y = x + w - (IF c = b THEN T ELSE 0)
    <3>1. CASE c = b
      BY <3>1
    <3>2. CASE c # b
      BY <3>2
    <3> QED
      BY <3>1, <3>2
  <2> QED
    BY <2>1, <2>2
<1>6. ASSUME NEW j \in Nat, j < l PROVE Had(Paid(f, A, b), z, A, j, c) = Had(f, r, A, j + d, c)
  <2>1. PICK p \in Nat : p = Picks(r, j + d, c)
    <3>1. j + d \in Int
      OBVIOUS
    <3> QED
      BY <3>1, PicksFacts
  <2>2. PICK q \in Nat : q = Picks(z, j, c) /\ q = p + (IF c = b THEN 1 ELSE 0)
    <3>1. /\ c = b => Picks(z, j, c) = p + 1
          /\ c # b => Picks(z, j, c) = p
      <4>1. /\ c = b => Picks(z, j, c) = Picks(r, j + d, c) + 1
            /\ c # b => Picks(z, j, c) = Picks(r, j + d, c)
        <5>1. j < Len(z) /\ d \in {0, 1}
          BY <1>1, <1>6
        <5>2. \A k \in Nat :
                k < Len(z) => /\ c = b => Picks(z, k, c) = Picks(r, k + d, c) + 1
                              /\ c # b => Picks(z, k, c) = Picks(r, k + d, c)
          BY PicksNext
        <5> QED
          BY <5>1, <5>2
      <4> QED
        BY <2>1, <4>1
    <3>2. CASE c = b
      BY <3>1, <3>2
    <3>3. CASE c # b
      BY <3>1, <3>3
    <3> QED
      BY <3>2, <3>3
  <2>3. Had(Paid(f, A, b), z, A, j, c) = y - (l - j) * w + T * q
    BY <1>1, <1>2, <1>3, <1>5, <2>2 DEF Had
  <2>4. Had(f, r, A, j + d, c) = x - (m - (j + d)) * w + T * p
    BY <1>1, <1>2, <1>3, <1>4, <2>1 DEF Had
  <2>5. (l - j) * w = (m - (j + d)) * w + w
    <3>1. l - j = (m - (j + d)) + 1
      BY <1>1
    <3>2. PICK k \in Int : k = m - (j + d)
      OBVIOUS
    <3>3. (k + 1) * w = k * w + w
      OBVIOUS
    <3> QED
      BY <3>1, <3>2, <3>3
  <2>6. T * q = T * p + (IF c = b THEN T ELSE 0)
    <3>1. CASE c = b
      BY <2>2, <3>1
    <3>2. CASE c # b
      BY <2>2, <3>2
    <3> QED
      BY <3>1, <3>2
  <2>7. PICK u \in Int, v \in Int : u = (m - (j + d)) * w /\ v = T * p
    OBVIOUS
  <2>8. PICK a \in Int, e \in Int : a = (l - j) * w /\ e = T * q
    OBVIOUS
  <2>9. Had(Paid(f, A, b), z, A, j, c) = y - a + e /\ Had(f, r, A, j + d, c) = x - u + v
    BY <2>3, <2>4, <2>7, <2>8
  <2>10. a = u + w /\ e = v + (IF c = b THEN T ELSE 0)
    BY <2>5, <2>6, <2>7, <2>8
  <2> QED
    BY <1>5, <2>9, <2>10
<1> QED
  BY <1>1, <1>6

(* The furthest that current weights stray from zero.                      *)
Bottom == (NumBackends - 1) * Worth

(* There are as many backends as are said.                                 *)
LEMMA MachinesCounted ==
  ASSUME Balancer!ConstantsFit
  PROVE  Cardinality(Machines) = NumBackends
<1>1. PICK n \in Nat : n = NumBackends
  BY WeightFacts
<1>2. Cardinality(1..n) = IF 1 > n THEN 0 ELSE n - 1 + 1
  <2>1. 1 \in Int /\ n \in Int
    OBVIOUS
  <2> QED
    BY <2>1, FS_Interval
<1> QED
  BY <1>1, <1>2 DEF Machines

(* No backend is further in debt, or ahead, than that.                     *)
LEMMA SpreadBounds ==
  ASSUME Balancer!ConstantsFit, NEW f \in [Machines -> Int], Spread(f), Added(f, Machines) = 0
  PROVE  /\ Bottom \in Int
         /\ \A b \in Machines : f[b] >= -Bottom /\ f[b] <= Bottom
<1>1. PICK W \in Nat, n \in Nat : W = Worth /\ n = NumBackends
  BY WeightFacts
<1>2. PICK p \in Int : /\ p = Bottom /\ p = (n - 1) * W /\ p = W * (1 * (n - 1))
                     /\ p = W * ((n - 1) * (n - (n - 1)))
  <2>1. (n - 1) * W = W * (1 * (n - 1)) /\ (n - 1) * W = W * ((n - 1) * (n - (n - 1))) /\ (n - 1) * W \in Int
    <3>1. n - (n - 1) = 1
      OBVIOUS
    <3>2. PICK k \in Int : k = n - 1
      OBVIOUS
    <3>3. k * W = W * (1 * k) /\ k * W = W * (k * 1) /\ k * W \in Int
      OBVIOUS
    <3> QED
      BY <3>1, <3>2, <3>3
  <2> QED
    BY <1>1, <2>1 DEF Bottom
<1>3. ASSUME NEW b \in Machines PROVE f[b] >= -p /\ f[b] <= p
  <2> DEFINE R == Machines \ {b}
  <2>1. /\ IsFiniteSet(Machines) /\ Machines \in SUBSET Machines
        /\ {b} \in SUBSET Machines /\ R \in SUBSET Machines
    BY WeightFacts
  <2>2. Cardinality(Machines) = n
    BY <1>1, MachinesCounted
  <2>3. Cardinality({b}) = 1 /\ Cardinality(R) = n - 1
    <3>1. Cardinality(Machines \ {b}) = Cardinality(Machines) - 1
      BY <2>1, FS_RemoveElement
    <3> QED
      BY <2>2, <3>1, FS_Singleton
  <2>4. Room({b}) = p /\ Room(R) = p
    <3> HIDE DEF R
    <3> QED
      BY <1>1, <1>2, <2>3 DEF Room
  <2>5. Added(f, {b}) >= -p /\ Added(f, R) >= -p
    <3> HIDE DEF R
    <3> QED
      BY <2>1, <2>4 DEF Spread
  <2>6. Added(f, {b}) = f[b] + Added(f, {})
    <3>1. b \in {b} /\ {b} \ {b} = {}
      OBVIOUS
    <3>2. Added(f, {b}) = f[b] + Added(f, {b} \ {b})
      BY <2>1, <3>1, AddedTake
    <3> QED
      BY <3>1, <3>2
  <2>7. Added(f, {}) = 0
    BY <2>1, AddedStep
  <2>8. Added(f, Machines) = f[b] + Added(f, R)
    BY <2>1, AddedTake
  <2>9. PICK x \in Int, y \in Int : x = f[b] /\ y = Added(f, R)
    <3> HIDE DEF R
    <3> QED
      BY <2>1, AddedInt
  <2> HIDE DEF R
  <2>10. Added(f, {b}) = x
    BY <2>6, <2>7, <2>9
  <2>11. x + y = 0
    BY <2>8, <2>9
  <2> QED
    BY <2>5, <2>9, <2>10, <2>11
<1> QED
  BY <1>2, <1>3

(* What the choices since the health changed tell: each fell on who had    *)
(* most then, and nobody was in more debt than anyone can be.              *)
Then(f, r, A, j) == [c \in A |-> Had(f, r, A, j, c)]
Course(f, r, A) ==
  /\ r \in Seq(A)
  /\ \A j \in 0..Len(r) : \A c \in A : Had(f, r, A, j, c) >= -Bottom
  /\ \A j \in 0..Len(r) : \A i \in 1..Len(r) : i = j + 1 => Most(Then(f, r, A, j), A, r[i])

(* Now is after the last choice.                                           *)
LEMMA HadNow ==
  ASSUME Balancer!ConstantsFit, NEW f \in [Machines -> Int], NEW A \in SUBSET Machines, NEW r \in Seq(A)
  PROVE  /\ \A c \in A : Had(f, r, A, Len(r), c) = f[c]
         /\ \A b : Most(f, A, b) <=> Most(Then(f, r, A, Len(r)), A, b)
<1>1. ASSUME NEW c \in A PROVE Had(f, r, A, Len(r), c) = f[c]
  <2>1. PICK x \in Int, m \in Nat, w \in Int, T \in Nat :
          x = f[c] /\ m = Len(r) /\ w = weight[c] /\ T = Added(weight, A)
    <3>1. f[c] \in Int /\ Len(r) \in Nat /\ c \in Machines
      OBVIOUS
    <3>2. weight[c] \in Int /\ Added(weight, A) \in Nat
      BY <3>1, WeightFacts
    <3> QED
      BY <3>1, <3>2
  <2>2. Picks(r, Len(r), c) = 0
    BY PicksFacts
  <2>3. Had(f, r, A, Len(r), c) = x - (m - m) * w + T * 0
    BY <2>1, <2>2 DEF Had
  <2>4. (m - m) * w = 0 /\ T * 0 = 0
    OBVIOUS
  <2> QED
    BY <2>1, <2>3, <2>4
<1>2. ASSUME NEW c \in A PROVE Then(f, r, A, Len(r))[c] = f[c]
  BY <1>1 DEF Then
<1>3. ASSUME NEW b PROVE Most(f, A, b) <=> Most(Then(f, r, A, Len(r)), A, b)
  BY <1>2 DEF Most
<1> QED
  BY <1>1, <1>3

(* The next choice is one more of the same kind.                           *)
LEMMA PastStep ==
  ASSUME Balancer!ConstantsFit, NEW f \in [Machines -> Int], NEW A \in SUBSET Machines, NEW b,
         NEW r, Course(f, r, A), Most(f, A, b), Spread(Paid(f, A, b)), Added(Paid(f, A, b), Machines) = 0,
         NEW d \in {0, 1}, NEW z \in Seq(A), IsNext(z, r, b, d)
  PROVE  Course(Paid(f, A, b), z, A)
<1> DEFINE g == Paid(f, A, b)
<1>1. b \in A /\ r \in Seq(A)
  BY DEF Most, Course
<1>2. PICK m \in Nat, l \in Nat : m = Len(r) /\ l = Len(z) /\ l = m + 1 - d
  <2>1. Len(z) = Len(r) + 1 - d
    BY DEF IsNext
  <2> QED
    BY <1>1, <2>1
<1>3. g \in [Machines -> Int]
  BY <1>1, PaidSums
<1>4. ASSUME NEW j \in Nat, j < l, NEW c \in A PROVE Had(g, z, A, j, c) = Had(f, r, A, j + d, c)
  <2>1. \A k \in Nat : k < Len(z) => Had(g, z, A, k, c) = Had(f, r, A, k + d, c)
    <3>1. HadKept(f, r, A, b, z, d)
      BY <1>1, HadNext
    <3> QED
      BY <3>1 DEF HadKept
  <2> HIDE DEF g
  <2> QED
    BY <1>2, <1>4, <2>1
<1>5. ASSUME NEW j \in 0..l, NEW c \in A PROVE Had(g, z, A, j, c) >= -Bottom
  <2>1. CASE j < l
    <3>1. PICK i \in 0..m : i = j + d
      BY <1>2, <2>1
    <3>2. Had(f, r, A, i, c) >= -Bottom
      BY <1>2 DEF Course
    <3> HIDE DEF g
    <3>3. Had(g, z, A, j, c) = Had(f, r, A, i, c)
      BY <1>4, <2>1, <3>1
    <3> QED
      BY <3>2, <3>3
  <2>2. CASE ~(j < l)
    <3>1. j = l
      BY <2>2
    <3> HIDE DEF g
    <3>2. Had(g, z, A, Len(z), c) = g[c]
      BY <1>3, HadNow
    <3>4. j = Len(z)
      BY <1>2, <3>1
    <3>3. c \in Machines /\ g[c] >= -Bottom
      BY <1>3, SpreadBounds DEF g
    <3> QED
      BY <3>2, <3>3, <3>4, Zenon
  <2> QED
    BY <2>1, <2>2
<1>6. ASSUME NEW j \in 0..l, NEW i \in 1..l, i = j + 1 PROVE Most(Then(g, z, A, j), A, z[i])
  <2>1. j \in Nat /\ j < l
    BY <1>6
  <2>2. PICK e \in 0..m : e = j + d
    BY <1>2, <2>1
  <2> HIDE DEF g
  <2>3. Then(g, z, A, j) = Then(f, r, A, e)
    BY <1>4, <2>1, <2>2 DEF Then
  <2>4. z[i] = IF i + d = m + 1 THEN b ELSE r[i + d]
    BY <1>2 DEF IsNext
  <2>5. CASE i + d = m + 1
    <3>1. e = m
      BY <1>6, <2>2, <2>5
    <3>2. Most(Then(f, r, A, m), A, b)
      BY <1>1, <1>2, HadNow
    <3> QED
      BY <2>3, <2>4, <2>5, <3>1, <3>2
  <2>6. CASE i + d # m + 1
    <3>1. PICK k \in 1..m : k = i + d /\ k = e + 1
      BY <1>2, <1>6, <2>2, <2>6
    <3>2. Most(Then(f, r, A, e), A, r[k])
      BY <1>2, <3>1 DEF Course
    <3> QED
      BY <2>3, <2>4, <2>6, <3>1, <3>2
  <2> QED
    BY <2>5, <2>6
<1> HIDE DEF g
<1>7. Course(g, z, A)
  BY <1>2, <1>5, <1>6 DEF Course
<1> QED
  BY <1>7 DEF g

(* While the health has never changed: who is not healthy has nothing, the *)
(* others are in debt by less than a round, what was before the first      *)
(* choice is nothing, and every round gives each its weight.               *)
Round(A) == Added(weight, A)
FreshCourse(f, r, A) ==
  /\ \A c \in Machines \ A : f[c] = 0
  /\ \A c \in A : f[c] > -Round(A)
  /\ Len(r) < Round(A) => \A c \in A : Had(f, r, A, 0, c) = 0
  /\ Len(r) >= Round(A) => \A c \in A : Picks(r, Len(r) - Round(A), c) = weight[c]

(* Whoever is chosen has something.                                        *)
LEMMA ChosenHasSome ==
  ASSUME Balancer!ConstantsFit, NEW f \in [Machines -> Int], NEW A \in SUBSET Machines, NEW b,
         Most(f, A, b), Added(f, Machines) = 0, \A c \in Machines \ A : f[c] = 0
  PROVE  f[b] + weight[b] > 0
<1>1. /\ IsFiniteSet(Machines) /\ weight \in [Machines -> Int] /\ b \in A /\ b \in Machines
      /\ A \in SUBSET Machines /\ Machines \in SUBSET Machines
  BY WeightFacts DEF Most
<1> SUFFICES ASSUME ~(f[b] + weight[b] > 0) PROVE FALSE
  OBVIOUS
<1> DEFINE h == [c \in Machines |-> f[c] + weight[c]]
           z == [c \in Machines |-> 0]
<1>2. h \in [Machines -> Int] /\ z \in [Machines -> Int] /\ \A c \in A : h[c] = f[c] + weight[c]
  BY <1>1
<1>3. IsBelow(h, z, A)
  <2>1. ASSUME NEW c \in A PROVE h[c] <= z[c]
    <3>1. f[c] \in Int /\ weight[c] \in Int /\ f[b] \in Int /\ weight[b] \in Int
      BY <1>1
    <3>2. f[c] + weight[c] <= f[b] + weight[b]
      BY <3>1 DEF Most
    <3> QED
      BY <3>1, <3>2
  <2> HIDE DEF h, z
  <2> QED
    BY <2>1 DEF IsBelow
<1>4. \A c \in A : z[c] = 0
  OBVIOUS
<1> HIDE DEF h, z
<1>5. Added(h, A) <= Added(z, A)
  BY <1>1, <1>2, <1>3, AddedMonotone
<1>6. Added(z, A) = 0
  BY <1>1, <1>2, <1>4, AddedZero
<1>7. Added(h, A) = Added(f, A) + Added(weight, A)
  BY <1>1, <1>2, AddedPlus
<1>8. Added(f, A) = 0
  <2>1. IsSplit(f, Machines, A)
    BY <1>1, AddedSplit
  <2>2. PICK p \in Int, q \in Int :
          p = Added(f, Machines \cap A) /\ q = Added(f, Machines \ A) /\ Added(f, Machines) = p + q
    BY <2>1 DEF IsSplit
  <2>3. Machines \cap A = A /\ Machines \ A \in SUBSET Machines
    BY <1>1
  <2>4. Added(f, Machines \ A) = 0
    BY <1>1, <2>3, AddedZero
  <2>5. q = 0 /\ p = 0
    BY <2>2, <2>4
  <2> QED
    BY <2>2, <2>3, <2>5
<1>9. Added(weight, A) \in Nat /\ weight[b] >= 1 /\ weight[b] <= Added(weight, A) /\ weight[b] \in Int
  BY <1>1, WeightFacts
<1> QED
  BY <1>5, <1>6, <1>7, <1>8, <1>9

(* Two who have most are one.                                              *)
LEMMA MostIsOne ==
  ASSUME Balancer!ConstantsFit, NEW A \in SUBSET Machines, NEW f, NEW h, NEW b, NEW e,
         Most(f, A, b), Most(h, A, e), \A c \in A : f[c] = h[c] /\ f[c] \in Int
  PROVE  b = e
<1>1. /\ b \in A /\ e \in A /\ b \in Machines /\ e \in Machines
      /\ f[b] = h[b] /\ f[e] = h[e] /\ f[b] \in Int /\ f[e] \in Int
  BY DEF Most
<1>2. weight[b] \in Int /\ weight[e] \in Int /\ b \in Int /\ e \in Int
  BY <1>1, WeightFacts DEF Machines
<1>3. f[e] + weight[e] < f[b] + weight[b] \/ (f[e] + weight[e] = f[b] + weight[b] /\ b <= e)
  BY <1>1 DEF Most
<1>4. h[b] + weight[b] < h[e] + weight[e] \/ (h[b] + weight[b] = h[e] + weight[e] /\ e <= b)
  BY <1>1 DEF Most
<1>5. PICK x \in Int, y \in Int : x = f[b] + weight[b] /\ y = f[e] + weight[e]
  BY <1>1, <1>2
<1>6. y < x \/ (y = x /\ b <= e)
  BY <1>3, <1>5
<1>7. x < y \/ (x = y /\ e <= b)
  BY <1>1, <1>4, <1>5
<1> QED
  BY <1>2, <1>6, <1>7

(* When the first round is over nobody has anything: multiples of a round, *)
(* none of them less than nothing, add up to nothing.                      *)
LEMMA RoundOver ==
  ASSUME Balancer!ConstantsFit, NEW g \in [Machines -> Int], NEW A \in SUBSET Machines,
         NEW z \in Seq(A), A # {}, Added(g, Machines) = 0, \A c \in Machines \ A : g[c] = 0,
         \A c \in A : g[c] > -Round(A), Len(z) = Round(A), \A c \in A : Had(g, z, A, 0, c) = 0
  PROVE  \A c \in A : Picks(z, 0, c) = weight[c]
<1>1. IsFiniteSet(Machines) /\ weight \in [Machines -> Int] /\ Machines \in SUBSET Machines
  BY WeightFacts
<1>2. PICK T \in Nat : T = Round(A) /\ T >= 1
  <2>1. PICK c \in A : TRUE
    OBVIOUS
  <2>2. c \in Machines
    OBVIOUS
  <2>3. Added(weight, A) \in Nat /\ weight[c] \in Int /\ weight[c] >= 1 /\ weight[c] <= Added(weight, A)
    BY <2>2, WeightFacts
  <2> QED
    BY <2>3 DEF Round
<1>3. ASSUME NEW c \in A
      PROVE  /\ g[c] \in Int /\ g[c] >= 0
             /\ g[c] = 0 => Picks(z, 0, c) = weight[c]
  <2>1. PICK x \in Int, w \in Int, p \in Nat : x = g[c] /\ w = weight[c] /\ p = Picks(z, 0, c)
    <3>1. g[c] \in Int /\ c \in Machines /\ 0 \in Int
      OBVIOUS
    <3>2. weight[c] \in Int
      BY <3>1, WeightFacts
    <3>3. Picks(z, 0, c) \in Nat
      BY <3>1, PicksFacts
    <3> QED
      BY <3>1, <3>2, <3>3
  <2>2. x - (T - 0) * w + T * p = 0
    <3>1. Had(g, z, A, 0, c) = 0
      OBVIOUS
    <3>2. Had(g, z, A, 0, c) = x - (T - 0) * w + T * p
      BY <1>2, <2>1 DEF Had, Round
    <3> QED
      BY <3>1, <3>2
  <2>3. PICK k \in Int : k = w - p
    OBVIOUS
  <2>4. x = T * k
    <3>1. (T - 0) * w = T * w /\ T * k = T * w - T * p
      BY <2>3
    <3>2. PICK a \in Int, e \in Int : a = T * w /\ e = T * p
      OBVIOUS
    <3> QED
      BY <2>2, <3>1, <3>2
  <2>5. x > -T
    BY <1>2, <2>1
  <2>6. k >= 0
    <3> SUFFICES ASSUME k <= -1 PROVE FALSE
      OBVIOUS
    <3>1. T * k <= T * (-1)
      <4>1. PICK n \in Nat : n = -1 - k
        OBVIOUS
      <4>2. T * n >= 0 /\ T * n = T * (-1) - T * k
        <5>1. T * n \in Nat
          OBVIOUS
        <5>2. T * (-1 - k) = T * (-1) - T * k
          OBVIOUS
        <5> QED
          BY <4>1, <5>1, <5>2
      <4>3. PICK a \in Int, e \in Int, u \in Int : a = T * n /\ e = T * (-1) /\ u = T * k
        OBVIOUS
      <4> QED
        BY <4>2, <4>3
    <3>2. T * (-1) = -T
      OBVIOUS
    <3> QED
      BY <2>4, <2>5, <3>1, <3>2
  <2>7. x >= 0
    BY <2>4, <2>6
  <2>8. x = 0 => k = 0
    <3> SUFFICES ASSUME x = 0, k >= 1 PROVE FALSE
      BY <2>6
    <3>1. PICK n \in Nat : n = k - 1
      OBVIOUS
    <3>2. T * k = T * n + T /\ T * n >= 0
      <4>1. T * (n + 1) = T * n + T /\ T * n \in Nat
        OBVIOUS
      <4>2. k = n + 1
        BY <3>1
      <4> QED
        BY <4>1, <4>2
    <3>3. PICK a \in Int : a = T * n
      OBVIOUS
    <3> QED
      BY <1>2, <2>4, <3>2, <3>3
  <2> QED
    BY <2>1, <2>3, <2>7, <2>8
<1>4. Added(g, Machines) = 0 => \A c \in Machines : g[c] = 0
  <2>1. \A c \in Machines : g[c] >= 0
    BY <1>3
  <2> QED
    BY <1>1, <2>1, AddedNat
<1> QED
  BY <1>3, <1>4

(* Only choices more than a round ago are forgotten.                       *)
RoundKept(r, A, d) == d = 1 => Len(r) >= Round(A)

(* The next choice of a fresh start: it falls on whom it fell a round ago. *)
LEMMA FreshStep ==
  ASSUME Balancer!ConstantsFit, NEW f \in [Machines -> Int], NEW A \in SUBSET Machines, NEW b,
         NEW r, Course(f, r, A), Most(f, A, b), Added(f, Machines) = 0, Added(Paid(f, A, b), Machines) = 0,
         NEW d \in {0, 1}, NEW z \in Seq(A), IsNext(z, r, b, d), RoundKept(r, A, d),
         FreshCourse(f, r, A)
  PROVE  FreshCourse(Paid(f, A, b), z, A)
<1> DEFINE g == Paid(f, A, b)
<1>1. b \in A /\ b \in Machines /\ r \in Seq(A) /\ g \in [Machines -> Int]
  <2>1. b \in A /\ r \in Seq(A)
    BY DEF Most, Course
  <2> QED
    BY <2>1, PaidSums
<1>0. b \in A /\ r \in Seq(A)
  BY DEF Most, Course
<1>2. PICK m \in Nat, l \in Nat : m = Len(r) /\ l = Len(z) /\ l = m + 1 - d
  <2>1. Len(z) = Len(r) + 1 - d
    BY DEF IsNext
  <2> QED
    BY <1>1, <2>1
<1>3. PICK T \in Nat : T = Round(A) /\ T >= 1
  <2>1. Added(weight, A) \in Nat /\ weight[b] \in Int /\ weight[b] >= 1 /\ weight[b] <= Added(weight, A)
    BY <1>1, WeightFacts
  <2> QED
    BY <2>1 DEF Round
<1>4. ASSUME NEW c \in Machines \ A PROVE g[c] = 0
  <2>1. c # b /\ f[c] = 0 /\ c \in Machines
    BY <1>1 DEF FreshCourse
  <2>2. g[c] = f[c] - 0
    BY <2>1 DEF Paid
  <2> QED
    BY <2>1, <2>2
<1>5. ASSUME NEW c \in A PROVE g[c] > -T
  <2>1. PICK x \in Int, w \in Int : x = f[c] /\ w = weight[c] /\ w >= 1
    <3>1. f[c] \in Int /\ c \in Machines
      OBVIOUS
    <3>2. weight[c] \in Int /\ weight[c] >= 1
      BY <3>1, WeightFacts
    <3> QED
      BY <3>1, <3>2
  <2>2. x > -T
    BY <1>3, <2>1 DEF FreshCourse
  <2>3. g[c] = x + w - (IF c = b THEN T ELSE 0)
    <3>1. g[c] = (IF c \in A THEN f[c] + weight[c] ELSE f[c]) - (IF c = b THEN Added(weight, A) ELSE 0)
      BY DEF Paid
    <3> HIDE DEF g
    <3> QED
      BY <1>3, <2>1, <3>1 DEF Round
  <2>4. CASE c = b
    <3>1. x + w > 0
      <4>1. f[b] + weight[b] > 0
        BY ChosenHasSome DEF FreshCourse
      <4> QED
        BY <2>1, <2>4, <4>1
    <3> HIDE DEF g
    <3> QED
      BY <2>3, <2>4, <3>1
  <2>5. CASE c # b
    <3> HIDE DEF g
    <3> QED
      BY <2>1, <2>2, <2>3, <2>5
  <2> QED
    BY <2>4, <2>5
<1>6. ASSUME m < T, NEW c \in A PROVE Had(g, z, A, 0, c) = 0
  <2>1. d = 0
    BY <1>2, <1>3, <1>6 DEF RoundKept
  <2>2. 0 < Len(z) /\ 0 \in Nat /\ 0 + d = 0
    BY <1>2, <2>1
  <2>3. \A k \in Nat : k < Len(z) => Had(g, z, A, k, c) = Had(f, r, A, k + d, c)
    <3>1. HadKept(f, r, A, b, z, d)
      BY <1>0, HadNext
    <3> QED
      BY <3>1 DEF HadKept
  <2>4. Had(f, r, A, 0, c) = 0
    BY <1>2, <1>3, <1>6 DEF FreshCourse
  <2> HIDE DEF g
  <2>5. Had(g, z, A, 0, c) = Had(f, r, A, 0 + d, c)
    BY <2>2, <2>3
  <2> QED
    BY <2>2, <2>4, <2>5
<1>7. ASSUME l >= T, m < T, NEW c \in A PROVE Picks(z, l - T, c) = weight[c]
  <2>1. l = T /\ l - T = 0
    BY <1>2, <1>7
  <2>2. \A e \in A : Had(g, z, A, 0, e) = 0
    BY <1>6, <1>7
  <2>3. \A e \in A : g[e] > -Round(A)
    BY <1>3, <1>5
  <2>4. \A e \in Machines \ A : g[e] = 0
    BY <1>4
  <2>5. Added(g, Machines) = 0 /\ A # {} /\ Len(z) = Round(A)
    BY <1>1, <1>2, <1>3, <2>1
  <2> HIDE DEF g
  <2>6. Picks(z, 0, c) = weight[c]
    BY <1>1, <2>2, <2>3, <2>4, <2>5, RoundOver
  <2> QED
    BY <2>1, <2>6
<1>8. ASSUME m >= T, NEW c \in A PROVE Picks(z, l - T, c) = weight[c]
  <2>1. PICK j \in 0..m, i \in 1..m : j = m - T /\ i = j + 1 /\ i = (l - T) + d /\ l - T \in Nat /\ l - T < l
    <3>1. m - T \in 0..m /\ m - T + 1 \in 1..m /\ m - T + 1 = (l - T) + d
      BY <1>2, <1>3, <1>8
    <3>2. l - T \in Nat /\ l - T < l
      <4>1. l = m \/ l = m + 1
        BY <1>2
      <4> QED
        BY <1>3, <1>8, <4>1
    <3> QED
      BY <3>1, <3>2
  <2>2. ASSUME NEW e \in A PROVE Picks(r, j, e) = weight[e] /\ weight[e] \in Int
    <3>1. Picks(r, m - T, e) = weight[e]
      BY <1>2, <1>3, <1>8 DEF FreshCourse
    <3>2. e \in Machines
      OBVIOUS
    <3>3. weight[e] \in Int
      BY <3>2, WeightFacts
    <3> QED
      BY <2>1, <3>1, <3>3
  <2>3. ASSUME NEW e \in A PROVE Had(f, r, A, j, e) = f[e] /\ f[e] \in Int
    <3>1. PICK x \in Int, w \in Int : x = f[e] /\ w = weight[e]
      <4>1. e \in Machines
        OBVIOUS
      <4> QED
        BY <2>2, <4>1
    <3>2. Had(f, r, A, j, e) = x - (m - j) * w + T * w
      BY <1>2, <1>3, <2>2, <3>1 DEF Had, Round
    <3>3. m - j = T
      BY <2>1
    <3>4. PICK a \in Int : a = T * w
      OBVIOUS
    <3>5. Had(f, r, A, j, e) = x - a + a
      BY <3>2, <3>3, <3>4
    <3> QED
      BY <3>1, <3>5
  <2>4. r[i] = b
    <3>1. Most(Then(f, r, A, j), A, r[i])
      BY <1>2, <2>1 DEF Course
    <3>2. \A e \in A : Then(f, r, A, j)[e] = f[e] /\ Then(f, r, A, j)[e] \in Int
      BY <2>3 DEF Then
    <3>3. PICK h : h = Then(f, r, A, j)
      OBVIOUS
    <3>4. Most(h, A, r[i]) /\ \A e \in A : h[e] = f[e] /\ h[e] \in Int
      BY <3>1, <3>2, <3>3
    <3> QED
      BY <3>4, MostIsOne
  <2>5. Picks(r, j, c) = Picks(r, i, c) + (IF r[i] = c THEN 1 ELSE 0)
    <3>1. \A u \in 0..Len(r), v \in 1..Len(r) :
            v = u + 1 => Picks(r, u, c) = Picks(r, v, c) + (IF r[v] = c THEN 1 ELSE 0)
      BY <1>1, PicksFacts
    <3> QED
      BY <1>2, <2>1, <3>1
  <2>6. /\ c = b => Picks(z, l - T, c) = Picks(r, i, c) + 1
        /\ c # b => Picks(z, l - T, c) = Picks(r, i, c)
    <3>1. \A k \in Nat :
            k < Len(z) => /\ c = b => Picks(z, k, c) = Picks(r, k + d, c) + 1
                          /\ c # b => Picks(z, k, c) = Picks(r, k + d, c)
      BY <1>0, PicksNext
    <3> QED
      BY <1>2, <2>1, <3>1
  <2>7. Picks(r, i, c) \in Nat
    BY <1>1, PicksFacts
  <2>8. Picks(r, j, c) = weight[c]
    BY <2>2
  <2>9. CASE c = b
    BY <2>4, <2>5, <2>6, <2>7, <2>8, <2>9
  <2>10. CASE c # b
    BY <2>4, <2>5, <2>6, <2>7, <2>8, <2>10
  <2> QED
    BY <2>9, <2>10
<1> HIDE DEF g
<1>9. l < T => \A c \in A : Had(g, z, A, 0, c) = 0
  BY <1>2, <1>3, <1>6
<1>10. l >= T => \A c \in A : Picks(z, l - T, c) = weight[c]
  BY <1>2, <1>3, <1>7, <1>8
<1>11. FreshCourse(g, z, A)
  BY <1>2, <1>3, <1>4, <1>5, <1>9, <1>10 DEF FreshCourse
<1> QED
  BY <1>11 DEF g

(* The inductive invariant of the balancer.                                *)
BalInv ==
  /\ BalancerTypes
  /\ Added(currentWeights, Machines) = 0
  /\ Spread(currentWeights)
  /\ strategy = "ROUND_ROBIN" => Turns(recent, rrIndex, Balancer!Active)
  /\ strategy = "WEIGHTED_ROUND_ROBIN" => Course(currentWeights, recent, Balancer!ActiveSet)
  /\ strategy = "WEIGHTED_ROUND_ROBIN" /\ ~changed =>
       FreshCourse(currentWeights, recent, Balancer!ActiveSet)

(* No choices yet: nothing is told.                                        *)
LEMMA CourseBegins ==
  ASSUME Balancer!ConstantsFit, NEW f \in [Machines -> Int], NEW A \in SUBSET Machines,
         Spread(f), Added(f, Machines) = 0
  PROVE  Course(f, <<>>, A)
<1>1. <<>> \in Seq(A) /\ Len(<<>>) = 0 /\ 0..0 = {0} /\ 1..0 = {}
  OBVIOUS
<1>2. PICK r \in Seq(A) : r = <<>>
  BY <1>1
<1>3. \A c \in A : Had(f, r, A, Len(r), c) = f[c]
  BY HadNow
<1>4. \A c \in A : Had(f, r, A, 0, c) >= -Bottom
  <2>1. \A c \in A : f[c] >= -Bottom
    BY SpreadBounds
  <2> QED
    BY <1>1, <1>2, <1>3, <2>1
<1> QED
  BY <1>1, <1>2, <1>4 DEF Course

(* With all current weights zero nobody is in debt, whoever is healthy.    *)
LEMMA NothingIsSpread ==
  ASSUME Balancer!ConstantsFit, NEW f \in [Machines -> Int], \A c \in Machines : f[c] = 0
  PROVE  Added(f, Machines) = 0 /\ Spread(f)
<1>1. IsFiniteSet(Machines) /\ NumBackends \in Nat /\ Worth \in Nat
  BY WeightFacts
<1>2. ASSUME NEW X \in SUBSET Machines PROVE Added(f, X) = 0
  BY <1>1, AddedZero
<1>3. ASSUME NEW X \in SUBSET Machines PROVE Room(X) \in Nat
  <2>1. PICK k \in Nat, W \in Nat, n \in Nat :
          k = Cardinality(X) /\ W = Worth /\ n = NumBackends /\ k <= n
    <3>1. Cardinality(X) <= Cardinality(Machines) /\ IsFiniteSet(X)
      BY <1>1, FS_Subset
    <3>2. Cardinality(Machines) = NumBackends
      BY MachinesCounted
    <3> QED
      BY <1>1, <3>1, <3>2, FS_CardinalityType
  <2>2. PICK m \in Nat : m = n - k
    BY <2>1
  <2>3. W * (k * m) \in Nat
    OBVIOUS
  <2> QED
    BY <2>1, <2>2, <2>3 DEF Room
<1>4. ASSUME NEW X \in SUBSET Machines PROVE Added(f, X) >= -Room(X)
  BY <1>2, <1>3
<1> QED
  BY <1>2, <1>4 DEF Spread

(* A fresh start: all current weights are zero and nobody was chosen yet.  *)
LEMMA FreshBegins ==
  ASSUME Balancer!ConstantsFit, NEW f \in [Machines -> Int], \A c \in Machines : f[c] = 0,
         NEW A \in SUBSET Machines
  PROVE  FreshCourse(f, <<>>, A)
<1>1. PICK r \in Seq(A) : r = <<>> /\ Len(r) = 0
  <2>1. <<>> \in Seq(A) /\ Len(<<>>) = 0
    OBVIOUS
  <2> QED
    BY <2>1
<1>2. ASSUME NEW c \in A PROVE f[c] > -Round(A) /\ Had(f, r, A, 0, c) = 0 /\ Round(A) > 0
  <2>1. f[c] = 0 /\ c \in Machines
    OBVIOUS
  <2>2. Added(weight, A) \in Nat /\ weight[c] \in Int /\ weight[c] >= 1 /\ weight[c] <= Added(weight, A)
    BY <2>1, WeightFacts
  <2>3. Had(f, r, A, Len(r), c) = f[c]
    BY HadNow
  <2> QED
    BY <1>1, <2>1, <2>2, <2>3 DEF Round
<1>3. Len(r) >= Round(A) => \A c \in A : Picks(r, Len(r) - Round(A), c) = weight[c]
  <2>1. A # {} => Round(A) > 0
    BY <1>2
  <2>2. Round(A) \in Nat
    BY WeightFacts DEF Round
  <2> QED
    BY <1>1, <2>1, <2>2
<1> QED
  BY <1>1, <1>2, <1>3 DEF FreshCourse

(* Round robin takes its turn.                                             *)
LEMMA RoundRobinStep ==
  ASSUME Balancer!ConstantsFit, BalInv, Balancer!RoundRobin, Balancer!ActiveSet # {},
         healthy' = healthy, strategy' = strategy, pings' = pings
  PROVE  BalInv'
<1>1. /\ Balancer!ActiveSet \subseteq Machines
      /\ Balancer!Active \in Seq(Balancer!ActiveSet)
      /\ Len(Balancer!Active) \in Nat \ {0}
  BY ActiveFacts
<1>2. BalancerTypes /\ NumBackends \in Int /\ MaxIndex \in Nat
  BY MachinesFinite DEF BalInv
<1>3. Balancer!Active' = Balancer!Active
  BY DEF Balancer!Active, Balancer!ActiveSet
<1> DEFINE k == Balancer!Active
           b == k[(rrIndex % Len(k)) + 1]
<1>4. /\ strategy = "ROUND_ROBIN" /\ rrIndex < MaxIndex /\ rrIndex' = rrIndex + 1
      /\ currentWeights' = currentWeights
      /\ recent' = Later(recent, b, NumBackends)
  BY DEF Balancer!RoundRobin, Balancer!Chosen, Balancer!RoundRobinPlace, Later
<1>5. k \in Seq(Machines) /\ b \in Machines
  <2>1. k \in Seq(Machines)
    BY <1>1
  <2>2. rrIndex \in Nat
    BY <1>2 DEF BalancerTypes
  <2>3. (rrIndex % Len(k)) + 1 \in 1..Len(k)
    BY <1>1, <2>2
  <2> HIDE DEF k
  <2> QED
    BY <2>1, <2>3
<1>6. recent \in Seq(Machines) /\ rrIndex \in Nat
  BY <1>2 DEF BalancerTypes
<1>7. recent' \in Seq(Machines)
  <2> HIDE DEF b
  <2> QED
    BY <1>2, <1>4, <1>5, <1>6, LaterFacts
<1>8. BalancerTypes'
  BY <1>2, <1>4, <1>7 DEF BalancerTypes
<1>9. Turns(recent', rrIndex', k)
  <2>1. Turns(recent, rrIndex, k) /\ Len(k) # 0
    BY <1>1, <1>4 DEF BalInv
  <2> HIDE DEF k
  <2>2. Turns(recent', rrIndex + 1, k)
    BY <1>2, <1>4, <1>5, <1>6, <2>1, TurnTaken
  <2> QED
    BY <1>4, <2>2
<1>10. Added(currentWeights', Machines) = 0 /\ Spread(currentWeights')
  BY <1>4 DEF BalInv
<1> QED
  BY <1>3, <1>4, <1>8, <1>9, <1>10 DEF BalInv

(* What the healthy ones gain, the chosen one pays.                        *)
LEMMA WeightedStep ==
  ASSUME Balancer!ConstantsFit, BalInv, Balancer!WeightedRoundRobin,
         healthy' = healthy, strategy' = strategy, pings' = pings, changed' = changed
  PROVE  BalInv'
<1> DEFINE A == Balancer!ActiveSet
<1>1. PICK f : f = currentWeights
  OBVIOUS
<1>2. /\ BalancerTypes /\ f \in [Machines -> Int] /\ Added(f, Machines) = 0 /\ Spread(f)
      /\ strategy = "WEIGHTED_ROUND_ROBIN" /\ Course(f, recent, A)
      /\ ~changed => FreshCourse(f, recent, A)
  BY <1>1 DEF BalInv, BalancerTypes, Balancer!WeightedRoundRobin
<1>3. /\ Balancer!Backends = Machines /\ A \in SUBSET Machines /\ A' = A
      /\ Balancer!TotalWeight = Added(weight, A) /\ Balancer!Total(Balancer!Backends) = Worth
  BY ActiveFacts, TotalIsAdded DEF Balancer!TotalWeight, Worth, Balancer!ActiveSet
<1>4. PICK b \in A :
        /\ Balancer!FirstWithMost(b)
        /\ recent' = Later(recent, b, Balancer!Patience)
        /\ currentWeights' = [c \in Machines |->
             IF c = b THEN Balancer!Gained(c) - Added(weight, A) ELSE Balancer!Gained(c)]
  BY <1>3 DEF Balancer!WeightedRoundRobin, Balancer!Chosen, Later
<1>5. rrIndex' = rrIndex
  BY DEF Balancer!WeightedRoundRobin
<1>6. ASSUME NEW c \in Machines
      PROVE  Balancer!Gained(c) = (IF c \in A THEN f[c] + weight[c] ELSE f[c]) /\ Balancer!Gained(c) \in Int
  <2>1. c \in A <=> healthy[c]
    BY <1>3 DEF Balancer!ActiveSet
  <2>2. f[c] \in Int /\ weight[c] \in Int
    BY <1>2, WeightFacts
  <2> HIDE DEF A
  <2> QED
    BY <1>1, <2>1, <2>2 DEF Balancer!Gained
<1>7. Most(f, A, b)
  <2>1. \A c \in A : \/ Balancer!Gained(c) < Balancer!Gained(b)
                     \/ Balancer!Gained(c) = Balancer!Gained(b) /\ b <= c
    BY <1>4 DEF Balancer!FirstWithMost
  <2>2. \A c \in A : Balancer!Gained(c) = f[c] + weight[c]
    BY <1>3, <1>6
  <2> HIDE DEF A
  <2> QED
    BY <2>1, <2>2 DEF Most
<1>8. currentWeights' = Paid(f, A, b)
  <2>1. ASSUME NEW c \in Machines
        PROVE  currentWeights'[c] = Paid(f, A, b)[c]
    <3>1. Added(weight, A) \in Nat
      BY <1>3, WeightFacts
    <3>2. Paid(f, A, b)[c] = Balancer!Gained(c) - (IF c = b THEN Added(weight, A) ELSE 0)
      BY <1>6 DEF Paid
    <3>3. currentWeights'[c] = IF c = b THEN Balancer!Gained(c) - Added(weight, A) ELSE Balancer!Gained(c)
      BY <1>4
    <3>4. PICK x \in Int, T \in Nat : x = Balancer!Gained(c) /\ T = Added(weight, A)
      BY <1>6, <3>1
    <3> HIDE DEF A
    <3>5. Paid(f, A, b)[c] = x - (IF c = b THEN T ELSE 0) /\ currentWeights'[c] = IF c = b THEN x - T ELSE x
      BY <3>2, <3>3, <3>4
    <3> QED
      BY <3>4, <3>5
  <2> HIDE DEF A
  <2> QED
    BY <1>4, <2>1 DEF Paid
<1> HIDE DEF A
<1>9. Paid(f, A, b) \in [Machines -> Int] /\ Added(Paid(f, A, b), Machines) = 0
  <2>1. Machines \in SUBSET Machines /\ Machines \cap A = A /\ b \in Machines
    BY <1>3
  <2>2. Added(Paid(f, A, b), Machines) = Added(f, Machines) + Added(weight, Machines \cap A)
          - (IF b \in Machines THEN Added(weight, A) ELSE 0)
    BY <1>2, <1>3, <2>1, PaidSums
  <2>3. PICK T \in Nat : T = Added(weight, A)
    BY <1>3, WeightFacts
  <2>4. Added(Paid(f, A, b), Machines) = 0 + T - T
    BY <1>2, <2>1, <2>2, <2>3
  <2>5. 0 + T - T = 0
    BY <2>3
  <2>6. Paid(f, A, b) \in [Machines -> Int]
    BY <1>2, <1>3, <2>1, PaidSums
  <2> QED
    BY <2>4, <2>5, <2>6
<1>10. Spread(Paid(f, A, b))
  BY <1>2, <1>3, <1>7, SpreadStep
<1>11. PICK n \in Int : n = Balancer!Patience /\ n >= Round(A)
  <2>1. PICK k \in Nat, W \in Nat : k = NumBackends /\ W = Worth
    BY WeightFacts
  <2>2. k >= 1 /\ Round(A) \in Nat /\ Round(A) <= W
    <3>1. b \in 1..k
      BY <1>3, <2>1 DEF Machines
    <3>2. k >= 1
      BY <3>1
    <3> QED
      BY <1>3, <2>1, <3>2, WeightFacts DEF Round
  <2>3. Balancer!Patience = 2 * k * W
    BY <1>3, <2>1 DEF Balancer!Patience
  <2>4. 2 * k * W >= W /\ 2 * k * W \in Int
    <3>1. PICK m \in Nat : 2 * k = m + 1
      <4>1. 2 * k - 1 \in Nat /\ 2 * k = (2 * k - 1) + 1
        BY <2>2
      <4> QED
        BY <4>1
    <3>2. (m + 1) * W = m * W + W /\ m * W \in Nat
      OBVIOUS
    <3> QED
      BY <3>1, <3>2
  <2> QED
    BY <2>2, <2>3, <2>4
<1>12. recent' \in Seq(A) /\ IsLater(recent', recent, b, n)
  <2>1. recent \in Seq(A)
    BY <1>2 DEF Course
  <2> QED
    BY <1>4, <1>11, <2>1, LaterFacts
<1>13. PICK d \in {0, 1} : IsNext(recent', recent, b, d) /\ RoundKept(recent, A, d)
  <2>1. PICK d \in {0, 1} : IsNext(recent', recent, b, d) /\ (d = 1 => Len(recent) >= n)
    BY <1>12 DEF IsLater
  <2>2. Len(recent) \in Nat /\ Round(A) \in Int
    <3>1. recent \in Seq(A)
      BY <1>2 DEF Course
    <3>2. Added(weight, A) \in Nat
      BY <1>3, WeightFacts
    <3> QED
      BY <3>1, <3>2 DEF Round
  <2> QED
    BY <1>11, <2>1, <2>2 DEF RoundKept
<1>14. PICK z \in Seq(A) : z = recent'
  BY <1>12
<1>15. Course(Paid(f, A, b), z, A)
  <2>1. IsNext(z, recent, b, d)
    BY <1>13, <1>14
  <2> QED
    BY <1>2, <1>3, <1>7, <1>9, <1>10, <2>1, PastStep
<1>16. ~changed => FreshCourse(Paid(f, A, b), z, A)
  <2>1. IsNext(z, recent, b, d)
    BY <1>13, <1>14
  <2> QED
    BY <1>2, <1>3, <1>7, <1>9, <1>13, <2>1, FreshStep
<1>17. BalancerTypes'
  <2>1. currentWeights' \in [Machines -> Int]
    BY <1>8, <1>9
  <2>2. recent' \in Seq(Machines)
    BY <1>3, <1>12
  <2> QED
    BY <1>2, <1>5, <2>1, <2>2 DEF BalancerTypes
<1>18. A' = A /\ Balancer!ActiveSet' = A
  BY <1>3 DEF A
<1> QED
  BY <1>2, <1>8, <1>9, <1>10, <1>14, <1>15, <1>16, <1>17, <1>18 DEF BalInv

(* IP hash changes nothing but the choices.                                *)
LEMMA IpHashStep ==
  ASSUME Balancer!ConstantsFit, BalInv, NEW h \in Hashes, Balancer!IpHash(h), Balancer!ActiveSet # {},
         healthy' = healthy, strategy' = strategy, pings' = pings
  PROVE  BalInv'
<1>1. /\ Balancer!ActiveSet \subseteq Machines
      /\ Balancer!Active \in Seq(Balancer!ActiveSet)
      /\ Len(Balancer!Active) \in Nat \ {0}
  BY ActiveFacts
<1>2. BalancerTypes /\ h \in Nat
  BY DEF BalInv, Balancer!ConstantsFit
<1> DEFINE k == Balancer!Active
           b == k[(h % Len(k)) + 1]
<1>3. /\ strategy = "IP_HASH" /\ rrIndex' = rrIndex /\ currentWeights' = currentWeights
      /\ recent' = Later(recent, b, 1)
  BY DEF Balancer!IpHash, Balancer!Chosen, Later
<1>4. b \in Machines
  <2>1. k \in Seq(Machines)
    BY <1>1
  <2>2. (h % Len(k)) + 1 \in 1..Len(k)
    BY <1>1, <1>2
  <2> HIDE DEF k
  <2> QED
    BY <2>1, <2>2
<1>5. recent' \in Seq(Machines)
  <2> HIDE DEF b
  <2>1. recent \in Seq(Machines)
    BY <1>2 DEF BalancerTypes
  <2> QED
    BY <1>3, <1>4, <2>1, LaterFacts
<1>6. BalancerTypes'
  BY <1>2, <1>3, <1>5 DEF BalancerTypes
<1> QED
  BY <1>3, <1>6 DEF BalInv

(* The health changes: the choices are counted from here.                  *)
LEMMA PingStep ==
  ASSUME Balancer!ConstantsFit, BalInv, NEW c, NEW b, NEW a, Balancer!PingSettles(c, b, a)
  PROVE  BalInv'
<1>1. /\ pings' = pings \ {<<c, b>>} /\ healthy' = [healthy EXCEPT ![b] = (a = "up")]
      /\ recent' = IF healthy' = healthy THEN recent ELSE <<>>
      /\ strategy' = strategy /\ rrIndex' = rrIndex /\ currentWeights' = currentWeights
      /\ changed' = (changed \/ healthy' # healthy)
  BY DEF Balancer!PingSettles, Balancer!HealthAfter
<1>2. BalancerTypes
  BY DEF BalInv
<1>3. healthy' \in [Machines -> BOOLEAN]
  <2>1. healthy \in [Machines -> BOOLEAN] /\ (a = "up") \in BOOLEAN
    BY <1>2 DEF BalancerTypes
  <2> QED
    BY <1>1, <2>1
<1>4. BalancerTypes'
  BY <1>1, <1>2, <1>3 DEF BalancerTypes
<1>5. strategy' = "ROUND_ROBIN" => Turns(recent', rrIndex', Balancer!Active')
  <2>1. CASE healthy' = healthy
    <3>1. Balancer!Active' = Balancer!Active
      BY <2>1 DEF Balancer!Active, Balancer!ActiveSet
    <3> QED
      BY <1>1, <2>1, <3>1 DEF BalInv
  <2>2. CASE healthy' # healthy
    <3>1. recent' = <<>> /\ rrIndex' \in Nat
      BY <1>1, <1>2, <2>2 DEF BalancerTypes
    <3>2. Len(<<>>) = 0 /\ 1..0 = {}
      OBVIOUS
    <3> QED
      BY <3>1, <3>2 DEF Turns
  <2> QED
    BY <2>1, <2>2
<1>6. Added(currentWeights', Machines) = 0 /\ Spread(currentWeights')
  BY <1>1 DEF BalInv
<1>7. strategy' = "WEIGHTED_ROUND_ROBIN" =>
        /\ Course(currentWeights', recent', Balancer!ActiveSet')
        /\ ~changed' => FreshCourse(currentWeights', recent', Balancer!ActiveSet')
  <2>1. CASE healthy' = healthy
    <3>1. Balancer!ActiveSet' = Balancer!ActiveSet
      BY <2>1 DEF Balancer!ActiveSet
    <3>2. recent' = recent /\ (~changed' => ~changed)
      BY <1>1, <2>1
    <3> QED
      BY <1>1, <3>1, <3>2 DEF BalInv
  <2>2. CASE healthy' # healthy
    <3>1. recent' = <<>> /\ changed' = TRUE
      BY <1>1, <2>2
    <3>2. PICK A \in SUBSET Machines : A = Balancer!ActiveSet'
      BY DEF Balancer!ActiveSet, Balancer!Backends, Machines
    <3>3. PICK f \in [Machines -> Int] : f = currentWeights
      BY <1>2 DEF BalancerTypes
    <3>4. Course(f, <<>>, A)
      BY <3>3, CourseBegins DEF BalInv
    <3> QED
      BY <1>1, <3>1, <3>2, <3>3, <3>4
  <2> QED
    BY <2>1, <2>2
<1> QED
  BY <1>4, <1>5, <1>6, <1>7 DEF BalInv

(* A health check sends its pings.                                         *)
LEMMA CheckStep ==
  ASSUME Balancer!ConstantsFit, BalInv, Balancer!PerformHealthCheck
  PROVE  BalInv'
<1>1. /\ pings' = pings \cup {<<started + 1, b>> : b \in Machines} /\ started + 1 \in Checks
      /\ healthy' = healthy /\ recent' = recent /\ changed' = changed
      /\ strategy' = strategy /\ rrIndex' = rrIndex /\ currentWeights' = currentWeights
  BY DEF Balancer!PerformHealthCheck, Balancer!Backends, Machines
<1>2. BalancerTypes'
  BY <1>1 DEF BalInv, BalancerTypes
<1>3. Balancer!Active' = Balancer!Active /\ Balancer!ActiveSet' = Balancer!ActiveSet
  BY <1>1 DEF Balancer!Active, Balancer!ActiveSet
<1> QED
  BY <1>1, <1>2, <1>3 DEF BalInv

(* Every step of the balancer keeps its invariant.                         *)
LEMMA BalancerNext ==
  ASSUME Balancer!ConstantsFit, BalInv, [Balancer!Next]_Balancer!vars
  PROVE  BalInv'
<1>1. ASSUME NEW h \in Hashes, Balancer!GetNextServer(h) PROVE BalInv'
  <2>1. /\ Balancer!ActiveSet # {} /\ healthy' = healthy /\ strategy' = strategy /\ pings' = pings
        /\ changed' = changed
        /\ Balancer!RoundRobin \/ Balancer!WeightedRoundRobin \/ Balancer!IpHash(h)
    BY <1>1 DEF Balancer!GetNextServer, Balancer!checkVars
  <2> QED
    BY <2>1, RoundRobinStep, WeightedStep, IpHashStep
<1>2. CASE UNCHANGED Balancer!vars
  <2>1. /\ healthy' = healthy /\ recent' = recent /\ strategy' = strategy /\ rrIndex' = rrIndex
        /\ currentWeights' = currentWeights /\ pings' = pings /\ changed' = changed
    BY <1>2 DEF Balancer!vars, Balancer!checkVars
  <2>2. BalancerTypes'
    BY <2>1 DEF BalInv, BalancerTypes
  <2>3. Balancer!Active' = Balancer!Active /\ Balancer!ActiveSet' = Balancer!ActiveSet
    BY <2>1 DEF Balancer!Active, Balancer!ActiveSet
  <2> QED
    BY <2>1, <2>2, <2>3 DEF BalInv
<1> QED
  BY <1>1, <1>2, CheckStep, PingStep DEF Balancer!Next

(* The balancer at its start: all current weights are zero.                *)
LEMMA BalancerInit ==
  ASSUME Balancer!ConstantsFit, Balancer!Init
  PROVE  BalInv
<1>1. /\ healthy \in [Machines -> BOOLEAN] /\ rrIndex = 0 /\ pings = {} /\ recent = <<>>
      /\ currentWeights = [b \in Machines |-> 0]
  BY DEF Balancer!Init, Balancer!Backends, Machines
<1>2. IsFiniteSet(Machines) /\ MaxIndex \in Nat
  BY MachinesFinite
<1>3. BalancerTypes
  BY <1>1, <1>2 DEF BalancerTypes
<1>4. PICK f \in [Machines -> Int] : f = currentWeights /\ \A c \in Machines : f[c] = 0
  BY <1>1
<1>6. Added(f, Machines) = 0 /\ Spread(f)
  BY <1>4, NothingIsSpread
<1>7. PICK A \in SUBSET Machines : A = Balancer!ActiveSet
  BY ActiveFacts
<1>8. Course(f, recent, A)
  BY <1>1, <1>6, CourseBegins
<1>9. FreshCourse(f, recent, A)
  BY <1>1, <1>4, FreshBegins
<1>5. Turns(recent, rrIndex, Balancer!Active)
  <2>1. Len(<<>>) = 0 /\ 1..0 = {}
    OBVIOUS
  <2> QED
    BY <1>1, <2>1 DEF Turns
<1> QED
  BY <1>3, <1>4, <1>5, <1>6, <1>7, <1>8, <1>9 DEF BalInv

(* The last n choices, counted from where they begin.                      *)
LEMMA SharesArePicks ==
  ASSUME NEW S, NEW r \in Seq(S), NEW n \in Nat, n <= Len(r), NEW b
  PROVE  Cardinality({i \in DOMAIN LastOnes(r, n) : LastOnes(r, n)[i] = b}) = Picks(r, Len(r) - n, b)
<1>1. PICK m \in Nat, d \in Nat : m = Len(r) /\ d = m - n
  <2>1. Len(r) \in Nat
    OBVIOUS
  <2> QED
    BY <2>1
<1>2. DOMAIN LastOnes(r, n) = 1..n /\ \A i \in 1..n : LastOnes(r, n)[i] = r[i + d]
  <2>1. LastOnes(r, n) = SubSeq(r, d + 1, m)
    BY <1>1 DEF LastOnes
  <2>2. Len(SubSeq(r, d + 1, m)) = n /\ DOMAIN SubSeq(r, d + 1, m) = 1..n
    BY <1>1
  <2>3. \A i \in 1..n : SubSeq(r, d + 1, m)[i] = r[d + 1 + i - 1] /\ d + 1 + i - 1 = i + d
    BY <1>1
  <2> QED
    BY <2>1, <2>2, <2>3
<1> DEFINE Q == {i \in 1..n : r[i + d] = b}
<1>3. {i \in DOMAIN LastOnes(r, n) : LastOnes(r, n)[i] = b} = Q
  BY <1>2
<1>4. PicksAt(r, d, b) = Moved(Q, d)
  <2>1. ASSUME NEW i \in PicksAt(r, d, b) PROVE i \in Moved(Q, d)
    <3>1. i \in 1..m /\ i > d /\ r[i] = b
      BY <1>1, <2>1 DEF PicksAt
    <3>2. i - d \in 1..n /\ (i - d) + d = i
      BY <1>1, <3>1
    <3>3. i - d \in Q
      BY <3>1, <3>2
    <3> QED
      BY <3>2, <3>3 DEF Moved
  <2>2. ASSUME NEW i \in Q PROVE i + d \in PicksAt(r, d, b)
    <3>1. i + d \in 1..m /\ i + d > d
      BY <1>1
    <3> QED
      BY <1>1, <3>1 DEF PicksAt
  <2> QED
    BY <2>1, <2>2 DEF Moved
<1>5. IsFiniteSet(Q) /\ Q \subseteq Int
  <2>1. IsFiniteSet(1..n) /\ Q \in SUBSET (1..n)
    BY FS_Interval
  <2>2. IsFiniteSet(Q)
    BY <2>1, FS_Subset
  <2> QED
    BY <2>1, <2>2
<1> HIDE DEF Q
<1>6. Cardinality(Moved(Q, d)) = Cardinality(Q)
  <2>1. d \in Int
    BY <1>1
  <2> QED
    BY <1>5, <2>1, ShiftedCount
<1> QED
  BY <1>1, <1>3, <1>4, <1>6 DEF Picks

(* Who was left out for so long would be in more debt than anyone can be.  *)
LEMMA NoneLeftOut ==
  ASSUME Balancer!ConstantsFit, NEW f \in [Machines -> Int], NEW A \in SUBSET Machines, NEW r,
         Spread(f), Added(f, Machines) = 0, Course(f, r, A),
         Len(r) = 2 * NumBackends * Worth
  PROVE  A \subseteq Elements(r)
<1> SUFFICES ASSUME NEW b \in A, b \notin Elements(r)
             PROVE  FALSE
  OBVIOUS
<1>1. PICK n \in Nat, W \in Nat, w \in Int, T \in Nat, x \in Int, y \in Int :
        /\ n = NumBackends /\ W = Worth /\ w = weight[b] /\ T = Added(weight, A)
        /\ x = f[b] /\ y = Had(f, r, A, 0, b) /\ w >= 1 /\ w <= T /\ T <= W
  <2>1. b \in Machines /\ f[b] \in Int /\ weight[b] \in Int /\ weight[b] >= 1
    BY WeightFacts
  <2>2. NumBackends \in Nat /\ Worth \in Nat /\ Added(weight, A) \in Nat
    BY WeightFacts
  <2>3. weight[b] <= Added(weight, A) /\ Added(weight, A) <= Worth
    BY WeightFacts
  <2>4. Len(r) \in Nat /\ Picks(r, 0, b) \in Nat
    BY PicksFacts DEF Course
  <2>5. Had(f, r, A, 0, b) \in Int
    <3>1. (Len(r) - 0) * weight[b] \in Int /\ Added(weight, A) * Picks(r, 0, b) \in Int
      BY <2>1, <2>2, <2>4
    <3> QED
      BY <2>1, <3>1 DEF Had
  <2> QED
    BY <2>1, <2>2, <2>3, <2>5
<1>2. Picks(r, 0, b) = 0
  <2>1. PicksAt(r, 0, b) = {}
    BY DEF PicksAt, Elements, Course
  <2> QED
    BY <2>1, FS_EmptySet DEF Picks
<1>3. PICK l \in Nat : l = Len(r) /\ l = 2 * n * W
  BY <1>1 DEF Course
<1>4. y = x - l * w
  <2>1. y = x - (l - 0) * w + T * 0
    BY <1>1, <1>2, <1>3 DEF Had
  <2> QED
    BY <2>1
<1>5. x <= (n - 1) * W /\ y >= -((n - 1) * W)
  <2>1. f[b] <= Bottom
    BY SpreadBounds
  <2>2. Had(f, r, A, 0, b) >= -Bottom
    BY <1>3 DEF Course
  <2> QED
    BY <1>1, <2>1, <2>2 DEF Bottom
<1>6. PICK p \in Int : p = n * W /\ l = 2 * p /\ (n - 1) * W = p - W
  <2>1. 2 * n * W = 2 * (n * W) /\ (n - 1) * W = n * W - W /\ n * W \in Int
    OBVIOUS
  <2> QED
    BY <1>3, <2>1
<1>7. l * w >= l
  <2>1. PICK v \in Nat : w = v + 1
    <3>1. w - 1 \in Nat /\ w = (w - 1) + 1
      BY <1>1
    <3> QED
      BY <3>1
  <2>2. l * (v + 1) = l * v + l /\ l * v \in Nat
    OBVIOUS
  <2> QED
    BY <2>1, <2>2
<1>8. PICK q \in Int : q = l * w
  OBVIOUS
<1>9. y = x - q /\ q >= l /\ x <= p - W /\ y >= -(p - W)
  BY <1>4, <1>5, <1>6, <1>7, <1>8
<1>10. l = 2 * p /\ W >= 1 /\ x \in Int /\ y \in Int
  BY <1>1, <1>6
<1> QED
  BY <1>9, <1>10

(* What the invariant says of the balancer.                                *)
LEMMA BalancerConsistent ==
  ASSUME Balancer!ConstantsFit, BalInv
  PROVE  Balancer!TypeOK /\ Balancer!FairShares
<1>1. Balancer!TypeOK
  BY ActiveFacts DEF BalInv, BalancerTypes, Balancer!TypeOK
<1>2. Balancer!WeightsBalanced
  BY TotalIsAdded DEF BalInv, Machines
<1>3. Balancer!RoundRobinFair
  <2> DEFINE k == Balancer!Active
  <2> SUFFICES ASSUME strategy = "ROUND_ROBIN", Len(recent) >= Len(k), Balancer!ActiveSet # {}
               PROVE  Balancer!ToSet(Balancer!Latest(Len(k))) = Balancer!ActiveSet
    BY DEF Balancer!RoundRobinFair
  <2>1. Balancer!ToSet(Balancer!Latest(Len(k))) = Elements(LastOnes(recent, Len(k)))
    BY DEF Balancer!ToSet, Balancer!Latest, Elements, LastOnes
  <2>2. /\ Balancer!ActiveSet \subseteq Machines /\ k \in Seq(Balancer!ActiveSet)
        /\ Elements(k) = Balancer!ActiveSet /\ Len(k) \in Nat \ {0}
    BY ActiveFacts
  <2>3. k \in Seq(Machines) /\ Len(k) # 0
    BY <2>2
  <2>4. recent \in Seq(Machines) /\ rrIndex \in Nat /\ Turns(recent, rrIndex, k)
    BY DEF BalInv, BalancerTypes
  <2>5. Elements(LastOnes(recent, Len(k))) = Elements(k)
    <3> HIDE DEF k
    <3> QED
      BY <2>3, <2>4, TurnsMeetAll
  <2> QED
    BY <2>1, <2>2, <2>5
<1>4. PICK f \in [Machines -> Int], A \in SUBSET Machines :
        /\ f = currentWeights /\ Spread(f) /\ Added(f, Machines) = 0
        /\ A = Balancer!ActiveSet /\ Balancer!TotalWeight = Round(A)
        /\ Balancer!Backends = Machines /\ Balancer!Total(Balancer!Backends) = Worth
        /\ strategy = "WEIGHTED_ROUND_ROBIN" =>
             Course(f, recent, A) /\ (~changed => FreshCourse(f, recent, A))
  BY ActiveFacts, TotalIsAdded DEF BalInv, BalancerTypes, Balancer!TotalWeight, Worth, Round
<1>5. Balancer!WeightsBounded
  <2>1. Bottom \in Int /\ \A b \in Machines : f[b] >= -Bottom /\ f[b] <= Bottom
    BY <1>4, SpreadBounds
  <2>2. ASSUME NEW b \in Machines PROVE currentWeights[b] \in -Bottom..Bottom
    <3>1. f[b] \in Int
      OBVIOUS
    <3> QED
      BY <1>4, <2>1, <3>1
  <2>3. PICK m \in Int, W \in Int : m = NumBackends - 1 /\ W = Worth
    BY WeightFacts
  <2>4. -(m * W) = -m * W
    OBVIOUS
  <2>5. Bottom = m * W
    BY <2>3 DEF Bottom
  <2> QED
    BY <1>4, <2>2, <2>3, <2>4, <2>5 DEF Balancer!WeightsBounded
<1>6. Balancer!WeightedExact
  <2> SUFFICES ASSUME strategy = "WEIGHTED_ROUND_ROBIN", ~changed, Len(recent) >= Round(A), NEW b \in A
               PROVE  Balancer!Share(b, Round(A)) = weight[b]
    BY <1>4 DEF Balancer!WeightedExact
  <2>1. recent \in Seq(A) /\ FreshCourse(f, recent, A)
    BY <1>4 DEF Course
  <2>2. Round(A) \in Nat
    BY WeightFacts DEF Round
  <2>3. Picks(recent, Len(recent) - Round(A), b) = weight[b]
    BY <2>1 DEF FreshCourse
  <2>4. Balancer!Latest(Round(A)) = LastOnes(recent, Round(A))
    BY DEF Balancer!Latest, LastOnes
  <2>5. Balancer!Share(b, Round(A)) =
          Cardinality({i \in DOMAIN LastOnes(recent, Round(A)) : LastOnes(recent, Round(A))[i] = b})
    BY <2>4 DEF Balancer!Share, Balancer!Cardinality, Cardinality, Balancer!IsFiniteSet
  <2>6. PICK n \in Nat : n = Round(A) /\ n <= Len(recent)
    BY <2>1, <2>2
  <2>7. Cardinality({i \in DOMAIN LastOnes(recent, n) : LastOnes(recent, n)[i] = b})
          = Picks(recent, Len(recent) - n, b)
    BY <2>1, <2>6, SharesArePicks
  <2> QED
    BY <2>3, <2>5, <2>6, <2>7
<1>7. Balancer!NobodyStarves
  <2> SUFFICES ASSUME strategy = "WEIGHTED_ROUND_ROBIN", Len(recent) = Balancer!Patience
               PROVE  A \subseteq Balancer!ToSet(recent)
    BY <1>4 DEF Balancer!NobodyStarves
  <2>1. Course(f, recent, A) /\ Len(recent) = 2 * NumBackends * Worth
    BY <1>4 DEF Balancer!Patience
  <2>2. A \subseteq Elements(recent)
    BY <1>4, <2>1, NoneLeftOut
  <2>3. Balancer!ToSet(recent) = Elements(recent)
    BY DEF Balancer!ToSet, Elements
  <2> QED
    BY <2>2, <2>3
<1> QED
  BY <1>1, <1>2, <1>3, <1>5, <1>6, <1>7 DEF Balancer!FairShares

(* For every number of backends, all weights, every order of requests and  *)
(* of what the health checks find: round robin serves every healthy backend*)
(* once in as many requests as there are; from a fresh start the weighted  *)
(* strategy gives each its exact weight in every round; and after whatever *)
(* changes of health, its current weights add up to nothing, stay within   *)
(* (n - 1) times all weights, and leave no healthy backend out of 2 * n    *)
(* times all weights of choices in a row.                                  *)
THEOREM SharesAreFair == InMemorySpec => []FairShares
<1>1. InMemoryInit => BalInv
  BY BalancerAssumption, BalancerInit DEF InMemoryInit
<1>2. [InMemoryNext]_allVars => [Balancer!Next]_Balancer!vars
  BY DEF InMemoryNext, allVars, balancerVars, Balancer!vars, Balancer!checkVars
<1>3. BalInv /\ [Balancer!Next]_Balancer!vars => BalInv'
  BY BalancerNext, BalancerAssumption
<1>4. BalInv => FairShares
  BY BalancerConsistent, BalancerAssumption DEF FairShares
<1> QED
  BY <1>1, <1>2, <1>3, <1>4, PTL DEF InMemorySpec

-----------------------------------------------------------------------------
(* FlattenSeq is recursive: its body, and its equation up to n.            *)
FlattenStep(seqs, g, i) == IF i = 1 THEN seqs[i] ELSE g[i - 1] \o seqs[i]
FlattensUpTo(seqs, n, g) == g = [i \in 1..n |-> FlattenStep(seqs, g, i)]

(* The recursive body of FlattenSeq has a function at every length.        *)
LEMMA FlatteningExists ==
  ASSUME NEW seqs, NEW n \in Nat
  PROVE  \E g : FlattensUpTo(seqs, n, g)
<1> DEFINE T == {m \in Nat : ~ \E g : FlattensUpTo(seqs, m, g)}
<1> SUFFICES ASSUME T # {} PROVE FALSE
  OBVIOUS
<1>1. PICK m \in T : \A y \in T : m <= y
  BY LeastElement
<1>2. PICK g : m # 0 => FlattensUpTo(seqs, m - 1, g)
  <2>1. m # 0 => m - 1 \in Nat /\ m - 1 \notin T
    BY <1>1
  <2> QED
    BY <2>1
<1> DEFINE h == [i \in 1..m |-> FlattenStep(seqs, g, i)]
<1>3. ASSUME NEW i \in 1..m PROVE FlattenStep(seqs, g, i) = FlattenStep(seqs, h, i)
  <2>1. CASE i = 1
    BY <2>1 DEF FlattenStep
  <2>2. CASE i # 1
    <3>1. i - 1 \in 1..(m - 1) /\ i - 1 \in 1..m
      BY <2>2
    <3>2. g[i - 1] = FlattenStep(seqs, g, i - 1)
      BY <1>2, <3>1 DEF FlattensUpTo
    <3>3. g[i - 1] = h[i - 1]
      BY <3>1, <3>2
    <3> HIDE DEF h
    <3> QED
      BY <2>2, <3>3, Zenon DEF FlattenStep
  <2> QED
    BY <2>1, <2>2
<1>4. h = [i \in 1..m |-> FlattenStep(seqs, h, i)]
  BY <1>3
<1>5. FlattensUpTo(seqs, m, h)
  BY <1>4 DEF FlattensUpTo
<1> QED
  BY <1>1, <1>5

(* Two lists of sequences that begin alike are flattened alike.            *)
LEMMA FlatteningUnique ==
  ASSUME NEW r, NEW s, NEW n \in Nat, NEW m \in Nat, NEW g, NEW h,
         FlattensUpTo(r, n, g), FlattensUpTo(s, m, h),
         NEW i \in Nat, 1 <= i, i <= n, i <= m
  PROVE  (\A j \in 1..i : r[j] = s[j]) => g[i] = h[i]
<1> HAVE \A j \in 1..i : r[j] = s[j]
<1> DEFINE T == {j \in Nat : 1 <= j /\ j <= i /\ g[j] # h[j]}
<1> SUFFICES ASSUME T # {} PROVE FALSE
  OBVIOUS
<1>1. PICK j \in T : \A y \in T : j <= y
  BY LeastElement
<1>2. j \in 1..n /\ j \in 1..m /\ j \in 1..i
  BY <1>1
<1>3. g[j] = FlattenStep(r, g, j) /\ h[j] = FlattenStep(s, h, j)
  BY <1>2 DEF FlattensUpTo
<1>4. r[j] = s[j]
  BY <1>2
<1>5. CASE j = 1
  BY <1>1, <1>3, <1>4, <1>5 DEF FlattenStep
<1>6. CASE j # 1
  <2>1. j - 1 \in Nat /\ 1 <= j - 1 /\ j - 1 <= i /\ j - 1 \notin T
    BY <1>1, <1>2, <1>6
  <2>2. g[j - 1] = h[j - 1]
    BY <2>1
  <2>3. g[j] = h[j]
    BY <1>3, <1>4, <1>6, <2>2, Zenon DEF FlattenStep
  <2> QED
    BY <1>1, <2>3
<1> QED
  BY <1>5, <1>6

(* FlattenSeq is what that function gives at the full length.              *)
LEMMA FlattenEquation ==
  ASSUME NEW seqs, Len(seqs) \in Nat, Len(seqs) # 0
  PROVE  \E g : FlattensUpTo(seqs, Len(seqs), g) /\ Parser!FlattenSeq(seqs) = g[Len(seqs)]
<1> DEFINE g == CHOOSE f : f = [i \in 1..Len(seqs) |-> FlattenStep(seqs, f, i)]
<1>1. FlattensUpTo(seqs, Len(seqs), g)
  BY FlatteningExists DEF FlattensUpTo
<1>2. Parser!FlattenSeq(seqs) = g[Len(seqs)]
  BY DEF Parser!FlattenSeq, FlattenStep
<1> HIDE DEF g
<1> QED
  BY <1>1, <1>2

(* A list of sequences is flattened one after the other.                   *)
LEMMA FlattenLonger ==
  ASSUME NEW p, NEW q, NEW n \in Nat, NEW m \in Nat,
         Len(p) = n, Len(q) = m, n = m + 1, \A i \in 1..m : p[i] = q[i]
  PROVE  IF m = 0 THEN Parser!FlattenSeq(p) = p[n] ELSE Parser!FlattenSeq(p) = Parser!FlattenSeq(q) \o p[n]
<1>1. PICK g : FlattensUpTo(p, n, g) /\ Parser!FlattenSeq(p) = g[n]
  BY FlattenEquation
<1>2. g[n] = FlattenStep(p, g, n)
  BY <1>1, n \in 1..n DEF FlattensUpTo
<1>3. CASE m = 0
  BY <1>1, <1>2, <1>3 DEF FlattenStep
<1>4. CASE m # 0
  <2>1. PICK h : FlattensUpTo(q, m, h) /\ Parser!FlattenSeq(q) = h[m]
    BY <1>4, FlattenEquation
  <2>2. g[m] = h[m]
    BY <1>1, <1>4, <2>1, FlatteningUnique
  <2>3. n # 1 /\ n - 1 = m
    BY <1>4
  <2> QED
    BY <1>1, <1>2, <1>4, <2>1, <2>2, <2>3, Zenon DEF FlattenStep
<1> QED
  BY <1>3, <1>4

(* One sequence more is flattened behind those before it.                  *)
LEMMA FlattenPrefix ==
  ASSUME NEW S, NEW seqs \in Seq(Seq(S)), NEW j \in 0..(Len(seqs) - 1)
  PROVE  /\ Parser!FlattenSeq(SubSeq(seqs, 1, 0)) = <<>>
         /\ Parser!FlattenSeq(SubSeq(seqs, 1, j + 1)) = Parser!FlattenSeq(SubSeq(seqs, 1, j)) \o seqs[j + 1]
<1> DEFINE P(k) == SubSeq(seqs, 1, k)
<1>1. Parser!FlattenSeq(P(0)) = <<>>
  <2>1. P(0) = <<>> /\ Len(P(0)) = 0
    OBVIOUS
  <2> HIDE DEF P
  <2> QED
    BY <2>1 DEF Parser!FlattenSeq
<1>2. j \in Nat /\ j + 1 \in Nat /\ j + 1 <= Len(seqs) /\ Len(seqs) \in Nat
  OBVIOUS
<1>3. ASSUME NEW k \in Nat, k <= Len(seqs)
      PROVE  Len(P(k)) = k /\ \A i \in 1..k : P(k)[i] = seqs[i]
  BY <1>2
<1>4. seqs[j + 1] \in Seq(S)
  BY <1>2, j + 1 \in DOMAIN seqs
<1> HIDE DEF P
<1>5. PICK p, q, n : p = P(j + 1) /\ q = P(j) /\ n = j + 1
  OBVIOUS
<1>6. Len(p) = n /\ Len(q) = j /\ p[n] = seqs[j + 1] /\ \A i \in 1..j : p[i] = q[i]
  BY <1>2, <1>3, <1>5
<1>7. IF j = 0 THEN Parser!FlattenSeq(p) = p[n] ELSE Parser!FlattenSeq(p) = Parser!FlattenSeq(q) \o p[n]
  <2>1. n \in Nat /\ j \in Nat /\ n = j + 1
    BY <1>2, <1>5
  <2> QED
    BY <1>6, <2>1, FlattenLonger
<1>8. Parser!FlattenSeq(P(j + 1)) = Parser!FlattenSeq(P(j)) \o seqs[j + 1]
  <2>1. <<>> \o seqs[j + 1] = seqs[j + 1]
    BY <1>4
  <2> QED
    BY <1>1, <1>5, <1>6, <1>7, <2>1, Zenon
<1> QED
  BY <1>1, <1>8, Zenon DEF P

(* The parser.  The one sequence begins the other.                         *)
Begins(a, b) == Len(a) <= Len(b) /\ \A x \in 1..Len(a) : a[x] = b[x]

(* Texts that grow by one value each begin one another.                    *)
Grows(L, n, W, u) ==
  /\ W[0] = <<>>
  /\ \A j \in 1..n : u[j] \in Seq(L) /\ W[j] = W[j - 1] \o u[j]
LEMMA GrownBegin ==
  ASSUME NEW L, NEW n \in Nat, NEW W, NEW u, Grows(L, n, W, u)
  PROVE  \A j \in 0..n : W[j] \in Seq(L) /\ \A i \in 0..j : Begins(W[i], W[j])
<1> DEFINE Good(j) == W[j] \in Seq(L) /\ \A i \in 0..j : Begins(W[i], W[j])
           T == {j \in 0..n : ~Good(j)}
<1> SUFFICES ASSUME T # {} PROVE FALSE
  OBVIOUS
<1>1. PICK j \in T : \A y \in T : j <= y
  <2>1. T \subseteq Nat
    OBVIOUS
  <2> HIDE DEF T
  <2> QED
    BY <2>1, LeastElement
<1>2. j \in 0..n /\ ~Good(j)
  OBVIOUS
<1>3. CASE j = 0
  <2>1. W[0] = <<>> /\ <<>> \in Seq(L) /\ 0..0 = {0}
    BY DEF Grows
  <2> QED
    BY <1>2, <1>3, <2>1 DEF Begins
<1>4. CASE j # 0
  <2>1. j \in 1..n /\ j - 1 \in 0..n /\ j - 1 < j
    BY <1>2, <1>4
  <2>2. Good(j - 1)
    BY <1>1, <2>1
  <2>3. u[j] \in Seq(L) /\ W[j] = W[j - 1] \o u[j]
    BY <2>1 DEF Grows
  <2>4. PICK a \in Seq(L), b \in Seq(L) : a = W[j - 1] /\ b = u[j] /\ W[j] = a \o b
    BY <2>2, <2>3
  <2>5. /\ a \o b \in Seq(L) /\ Len(a \o b) = Len(a) + Len(b) /\ Len(a) \in Nat /\ Len(b) \in Nat
        /\ \A x \in 1..Len(a) : (a \o b)[x] = a[x]
    OBVIOUS
  <2>6. ASSUME NEW i \in 0..j PROVE Begins(W[i], W[j])
    <3>1. CASE i = j
      <4>1. PICK d \in Seq(L) : d = W[j]
        BY <2>4, <2>5
      <4>2. Len(d) \in Nat
        OBVIOUS
      <4>3. Begins(d, d)
        BY <4>2 DEF Begins
      <4> QED
        BY <3>1, <4>1, <4>3
    <3>2. CASE i # j
      <4>1. i \in 0..(j - 1) /\ i \in 0..n /\ i < j
        BY <1>2, <3>2
      <4>2. Begins(W[i], a) /\ Good(i)
        <5>1. i \notin T
          BY <1>1, <1>2, <4>1
        <5> QED
          BY <2>2, <2>4, <4>1, <5>1
      <4>3. PICK c \in Seq(L) : c = W[i]
        BY <4>2
      <4>4. Len(c) \in Nat /\ Len(c) <= Len(a) /\ \A x \in 1..Len(c) : x \in 1..Len(a) /\ c[x] = a[x]
        BY <2>5, <4>2, <4>3 DEF Begins
      <4>5. PICK d \in Seq(L) : d = W[j] /\ Len(d) >= Len(a) /\ \A x \in 1..Len(a) : d[x] = a[x]
        <5>1. Len(a \o b) >= Len(a)
          BY <2>5
        <5>2. PICK d : d = a \o b
          OBVIOUS
        <5>3. d \in Seq(L) /\ Len(d) >= Len(a) /\ \A x \in 1..Len(a) : d[x] = a[x]
          BY <2>5, <5>1, <5>2
        <5>4. d = W[j]
          BY <2>4, <5>2
        <5> QED
          BY <5>3, <5>4
      <4>6. Len(d) \in Nat /\ Len(a) \in Nat
        OBVIOUS
      <4>7. Len(c) <= Len(d)
        BY <4>4, <4>5, <4>6
      <4>8. \A x \in 1..Len(c) : c[x] = d[x]
        BY <4>4, <4>5
      <4>9. Begins(c, d)
        BY <4>7, <4>8 DEF Begins
      <4> QED
        BY <4>3, <4>5, <4>9
    <3> QED
      BY <3>1, <3>2
  <2> QED
    BY <1>2, <2>4, <2>5, <2>6
<1> QED
  BY <1>3, <1>4

(* A value of one line or none, and the lines it is sent as.               *)
Lines == LineTexts \cup {Parser!Blank, Parser!NullHeader, Parser!LengthHeader}
Sendable(v) == v = Parser!Null \/ (v \in Seq(Lines) /\ Len(v) = 1)
SendableAll == sent \in Seq({v \in Seq(Lines) : Sendable(v)})
Wires == [i \in 1..Len(sent) |-> Parser!SerializeBulkString(sent[i])]
UpTo == [j \in 0..Len(sent) |-> Parser!Text(SubSeq(sent, 1, j))]

(* The text of the first j values grows with j.                            *)
LEMMA TextsGrow ==
  ASSUME SendableAll
  PROVE  /\ Len(sent) \in Nat
         /\ Grows(Lines, Len(sent), UpTo, Wires)
         /\ \A j \in 1..Len(sent) :
              \/ sent[j] = Parser!Null /\ Wires[j] = <<Parser!NullHeader>>
              \/ sent[j] # Parser!Null /\ sent[j] \in Seq(Lines) /\ Len(sent[j]) = 1
                 /\ Wires[j] = <<Parser!LengthHeader, sent[j][1]>>
         /\ UpTo[Len(sent)] = Parser!Text(sent)
<1>1. PICK n \in Nat : n = Len(sent) /\ DOMAIN sent = 1..n
  BY DEF SendableAll
<1>2. ASSUME NEW j \in 1..n
      PROVE  /\ \/ sent[j] = Parser!Null /\ Wires[j] = <<Parser!NullHeader>>
                \/ sent[j] # Parser!Null /\ sent[j] \in Seq(Lines) /\ Len(sent[j]) = 1
                   /\ Wires[j] = <<Parser!LengthHeader, sent[j][1]>>
             /\ Wires[j] \in Seq(Lines)
  <2>1. Wires[j] = Parser!SerializeBulkString(sent[j]) /\ Sendable(sent[j])
    BY <1>1 DEF Wires, SendableAll
  <2>2. Parser!NullHeader \in Lines /\ Parser!LengthHeader \in Lines
    BY DEF Lines
  <2>3. CASE sent[j] = Parser!Null
    <3>1. Wires[j] = <<Parser!NullHeader>>
      BY <2>1, <2>3 DEF Parser!SerializeBulkString
    <3> QED
      BY <2>2, <2>3, <3>1
  <2>4. CASE sent[j] # Parser!Null
    <3>1. PICK v \in Seq(Lines) : v = sent[j] /\ Len(v) = 1
      BY <2>1, <2>4 DEF Sendable
    <3>2. Wires[j] = <<Parser!LengthHeader>> \o v
      BY <2>1, <2>4, <3>1 DEF Parser!SerializeBulkString
    <3>3. v[1] \in Lines
      BY <3>1
    <3>4. <<Parser!LengthHeader>> \o v = <<Parser!LengthHeader, v[1]>>
      <4>1. PICK h \in Lines : h = Parser!LengthHeader
        BY <2>2
      <4>2. PICK g \in Seq(Lines) : g = <<h>> /\ Len(g) = 1 /\ g[1] = h
        <5>1. <<h>> \in Seq(Lines) /\ Len(<<h>>) = 1 /\ <<h>>[1] = h
          OBVIOUS
        <5> QED
          BY <5>1
      <4>3. /\ g \o v \in Seq(Lines) /\ Len(g \o v) = Len(g) + Len(v)
            /\ \A x \in 1..Len(g) : (g \o v)[x] = g[x]
            /\ \A x \in 1..Len(v) : (g \o v)[Len(g) + x] = v[x]
        OBVIOUS
      <4>4. PICK z \in Seq(Lines) : z = g \o v /\ Len(z) = 2 /\ z[1] = h /\ z[2] = v[1]
        <5>1. Len(g \o v) = 2
          BY <3>1, <4>2, <4>3
        <5>2. (g \o v)[1] = h
          BY <4>2, <4>3
        <5>3. (g \o v)[2] = v[1]
          <6>1. (g \o v)[Len(g) + 1] = v[1]
            BY <3>1, <4>3
          <6>2. PICK q, i : q = g \o v /\ i = Len(g) + 1
            OBVIOUS
          <6>3. i = 2
            BY <4>2, <6>2
          <6>4. q[i] = v[1]
            BY <6>1, <6>2, Zenon
          <6> QED
            BY <6>2, <6>3, <6>4
        <5> QED
          BY <4>3, <5>1, <5>2, <5>3
      <4>5. PICK w \in Seq(Lines) : w = <<h, v[1]>> /\ Len(w) = 2 /\ w[1] = h /\ w[2] = v[1]
        <5>1. PICK y \in Lines : y = v[1]
          BY <3>3
        <5>2. <<h, y>> \in Seq(Lines) /\ Len(<<h, y>>) = 2 /\ <<h, y>>[1] = h /\ <<h, y>>[2] = y
          OBVIOUS
        <5> QED
          BY <5>1, <5>2
      <4>6. \A i \in 1..2 : z[i] = w[i]
        BY <4>4, <4>5
      <4>7. z = w
        BY <4>4, <4>5, <4>6, SeqEqual
      <4> QED
        BY <4>1, <4>2, <4>4, <4>5, <4>7
    <3> QED
      BY <2>2, <2>4, <3>1, <3>2, <3>3, <3>4
  <2> QED
    BY <2>3, <2>4
<1>3. Wires \in Seq(Seq(Lines)) /\ Len(Wires) = n
  BY <1>1, <1>2 DEF Wires
<1>4. ASSUME NEW j \in 0..n
      PROVE  UpTo[j] = Parser!FlattenSeq(SubSeq(Wires, 1, j))
  <2>1. PICK s : s = SubSeq(sent, 1, j)
    OBVIOUS
  <2>2. DOMAIN s = 1..j /\ \A i \in 1..j : s[i] = sent[i] /\ i \in 1..n
    BY <1>1, <2>1 DEF SendableAll
  <2>3. [i \in DOMAIN s |-> Parser!SerializeBulkString(s[i])] = [i \in 1..j |-> Wires[i]]
    BY <1>1, <2>2 DEF Wires
  <2>4. SubSeq(Wires, 1, j) = [i \in 1..j |-> Wires[i]]
    BY <1>3
  <2>5. UpTo[j] = Parser!Text(s)
    BY <1>1, <2>1 DEF UpTo
  <2> QED
    BY <2>3, <2>4, <2>5 DEF Parser!Text
<1>5. UpTo[0] = <<>>
  <2>1. UpTo[0] = Parser!FlattenSeq(SubSeq(Wires, 1, 0))
    BY <1>4
  <2>2. SubSeq(Wires, 1, 0) = <<>> /\ Len(<<>>) = 0
    BY <1>3
  <2> QED
    BY <2>1, <2>2 DEF Parser!FlattenSeq
<1>6. ASSUME NEW j \in 1..n PROVE UpTo[j] = UpTo[j - 1] \o Wires[j]
  <2>1. PICK i \in 0..(n - 1) : i = j - 1 /\ j = i + 1 /\ i \in 0..n
    OBVIOUS
  <2>2. Parser!FlattenSeq(SubSeq(Wires, 1, i + 1)) = Parser!FlattenSeq(SubSeq(Wires, 1, i)) \o Wires[i + 1]
    BY <1>3, FlattenPrefix
  <2>3. UpTo[j] = Parser!FlattenSeq(SubSeq(Wires, 1, j)) /\ UpTo[i] = Parser!FlattenSeq(SubSeq(Wires, 1, i))
    BY <1>4, <2>1
  <2> QED
    BY <2>1, <2>2, <2>3
<1>7. UpTo[n] = Parser!Text(sent)
  <2>1. SubSeq(sent, 1, n) = sent
    BY <1>1 DEF SendableAll
  <2>2. n \in 0..Len(sent) /\ UpTo[n] = Parser!Text(SubSeq(sent, 1, n))
    BY <1>1 DEF UpTo
  <2> QED
    BY <2>1, <2>2
<1> QED
  BY <1>1, <1>2, <1>5, <1>6, <1>7 DEF Grows

(* What arrived: some lines of the text, and then nothing or a blank.      *)
CutAt(z, T, n) ==
  /\ z \in Seq(Lines) /\ n \in 0..Len(T)
  /\ \A x \in 1..n : z[x] = T[x]
  /\ \/ Len(z) = n
     \/ Len(z) = n + 1 /\ z[n + 1] = Parser!Blank

(* The parser is at the first line of the next value, and what it has read *)
(* had arrived; or it is past the end.  What it returned is right.         *)
Returned(i) == IF Begins(UpTo[i], lines) THEN Parser!Decoded(sent[i]) ELSE Parser!Blank
ParseInv ==
  /\ SendableAll
  /\ \E n : CutAt(lines, Parser!Text(sent), n)
  /\ lineIdx \in Nat /\ parsed \in Seq(Lines) /\ Len(parsed) <= Len(sent)
  /\ \A i \in 1..Len(parsed) : parsed[i] = Returned(i)
  /\ \/ lineIdx >= Len(lines)
     \/ lineIdx = Len(UpTo[Len(parsed)]) /\ Begins(UpTo[Len(parsed)], lines)
(* One round.                                                              *)
LEMMA RoundKeeps ==
  ASSUME ParseInv, Parser!Round
  PROVE  ParseInv'
<1>1. /\ Len(sent) \in Nat /\ Grows(Lines, Len(sent), UpTo, Wires)
      /\ \A j \in 1..Len(sent) :
           \/ sent[j] = Parser!Null /\ Wires[j] = <<Parser!NullHeader>>
           \/ sent[j] # Parser!Null /\ sent[j] \in Seq(Lines) /\ Len(sent[j]) = 1
              /\ Wires[j] = <<Parser!LengthHeader, sent[j][1]>>
      /\ UpTo[Len(sent)] = Parser!Text(sent)
  BY TextsGrow DEF ParseInv
<1>2. /\ sent' = sent /\ lines' = lines /\ Len(parsed) < Len(sent) /\ lineIdx < Len(lines)
      /\ lines \in Seq(Lines) /\ parsed \in Seq(Lines) /\ lineIdx \in Nat
  BY DEF ParseInv, CutAt, Parser!Round
<1>3. PICK p \in Seq(Lines), z \in Seq(Lines), k \in Nat, a \in Nat, l \in Nat :
        /\ p = parsed /\ z = lines /\ k = Len(p) + 1 /\ k \in 1..Len(sent) /\ a = lineIdx /\ l = Len(z)
  <2>1. Len(parsed) \in Nat /\ Len(lines) \in Nat
    BY <1>2
  <2>2. Len(parsed) + 1 \in Nat /\ Len(parsed) + 1 \in 1..Len(sent)
    BY <1>1, <1>2, <2>1
  <2> QED
    BY <1>2, <2>1, <2>2
<1>4. PICK W, u, T : W = UpTo /\ u = Wires[k] /\ T = Parser!Text(sent)
  OBVIOUS
<1>5. \A j \in 0..Len(sent) : W[j] \in Seq(Lines) /\ \A i \in 0..j : Begins(W[i], W[j])
  BY <1>1, <1>4, GrownBegin
<1>6. PICK before \in Seq(Lines), after \in Seq(Lines) :
        /\ before = W[k - 1] /\ after = W[k] /\ after = before \o u /\ u \in Seq(Lines)
        /\ Begins(after, T) /\ T \in Seq(Lines)
  <2>1. k - 1 \in 0..Len(sent) /\ k \in 0..Len(sent) /\ Len(sent) \in 0..Len(sent) /\ k \in 0..Len(sent)
    BY <1>1, <1>3
  <2>2. W[k] = W[k - 1] \o u /\ u \in Seq(Lines)
    BY <1>1, <1>3, <1>4 DEF Grows
  <2>3. Begins(W[k], W[Len(sent)]) /\ W[Len(sent)] = T
    BY <1>1, <1>4, <1>5, <2>1
  <2> QED
    BY <1>5, <2>1, <2>2, <2>3
<1>7. a = Len(before) /\ Begins(before, z) /\ a < l
  <2>1. lineIdx = Len(UpTo[Len(parsed)]) /\ Begins(UpTo[Len(parsed)], lines)
    BY <1>2 DEF ParseInv
  <2>2. k - 1 = Len(parsed)
    BY <1>3
  <2> QED
    BY <1>2, <1>3, <1>4, <1>6, <2>1, <2>2
<1>8. PICK m \in 1..2 :
        /\ m = Len(u) /\ Len(after) = a + m /\ \A x \in 1..m : after[a + x] = u[x]
        /\ m = 1 => u[1] = Parser!NullHeader /\ Parser!Decoded(sent[k]) = Parser!Blank
        /\ m = 2 => u[1] = Parser!LengthHeader /\ Parser!Decoded(sent[k]) = u[2]
  <2>1. /\ Len(before \o u) = Len(before) + Len(u)
        /\ \A x \in 1..Len(u) : (before \o u)[Len(before) + x] = u[x]
    BY <1>6
  <2>2. \/ Len(u) = 1 /\ u[1] = Parser!NullHeader /\ Parser!Decoded(sent[k]) = Parser!Blank
        \/ Len(u) = 2 /\ u[1] = Parser!LengthHeader /\ Parser!Decoded(sent[k]) = u[2]
    <3>1. CASE sent[k] = Parser!Null /\ u = <<Parser!NullHeader>>
      BY <3>1 DEF Parser!Decoded
    <3>2. CASE sent[k] # Parser!Null /\ sent[k] \in Seq(Lines) /\ Len(sent[k]) = 1
               /\ u = <<Parser!LengthHeader, sent[k][1]>>
      <4>1. Parser!Decoded(sent[k]) = sent[k][1]
        BY <3>2 DEF Parser!Decoded
      <4> QED
        BY <3>2, <4>1
    <3> QED
      BY <1>1, <1>3, <1>4, <3>1, <3>2
  <2>3. Len(u) \in 1..2
    BY <2>2
  <2>4. Len(after) = a + Len(u) /\ \A x \in 1..Len(u) : after[a + x] = u[x]
    BY <1>6, <1>7, <2>1
  <2>5. /\ Len(u) = 1 => u[1] = Parser!NullHeader /\ Parser!Decoded(sent[k]) = Parser!Blank
        /\ Len(u) = 2 => u[1] = Parser!LengthHeader /\ Parser!Decoded(sent[k]) = u[2]
    <3>1. PICK i, b, d, e : i = Len(u) /\ b = u[1] /\ d = u[2] /\ e = Parser!Decoded(sent[k])
      OBVIOUS
    <3>2. \/ i = 1 /\ b = Parser!NullHeader /\ e = Parser!Blank
          \/ i = 2 /\ b = Parser!LengthHeader /\ e = d
      BY <2>2, <3>1
    <3> QED
      BY <3>1, <3>2
  <2>6. PICK m \in 1..2 : m = Len(u)
    BY <2>3
  <2> QED
    BY <2>4, <2>5, <2>6
<1>9. PICK n \in Nat :
        /\ \A x \in 1..n : z[x] = T[x]
        /\ l = n \/ (l = n + 1 /\ z[n + 1] = Parser!Blank)
  BY <1>3, <1>4, <1>6 DEF ParseInv, CutAt
<1>10. \A x \in 1..(a + m) : x <= n => z[x] = after[x]
  <2>1. \A x \in 1..(a + m) : after[x] = T[x]
    BY <1>6, <1>8 DEF Begins
  <2>2. ASSUME NEW x \in 1..(a + m), x <= n PROVE z[x] = after[x]
    <3>1. x \in 1..n
      BY <2>2
    <3> QED
      BY <1>9, <2>1, <3>1
  <2> QED
    BY <2>2
<1>11. PICK c \in Lines : c = z[a + 1] /\ c = Parser!LineAt(lineIdx)
  <2>1. a + 1 \in 1..l
    BY <1>7
  <2> QED
    BY <1>3, <1>7, <2>1 DEF Parser!LineAt
<1>12. PICK e : e = Parser!LineAt(a + 1) /\ e = IF a + 1 < l THEN z[a + 2] ELSE Parser!Blank
  <2>1. (a + 1) + 1 = a + 2
    OBVIOUS
  <2> QED
    BY <1>3, <2>1 DEF Parser!LineAt
<1>13. /\ c = Parser!NullHeader => parsed' = Append(p, Parser!Blank) /\ lineIdx' = a + 1
       /\ c = Parser!LengthHeader => parsed' = Append(p, e) /\ lineIdx' = a + 2
       /\ c = Parser!Blank => parsed' = Append(p, Parser!Blank) /\ lineIdx' = a + 1
  <2>1. /\ Parser!NullHeader[1] = "$" /\ Parser!LengthHeader[1] = "$" /\ Parser!Blank[1] = ""
        /\ Parser!LengthHeader # Parser!NullHeader
    BY DEF Parser!NullHeader, Parser!LengthHeader, Parser!Blank
  <2>2. \/ /\ c[1] = "$"
           /\ IF c = Parser!NullHeader
              THEN parsed' = Append(p, Parser!Blank) /\ lineIdx' = a + 1
              ELSE parsed' = Append(p, e) /\ lineIdx' = a + 2
        \/ c[1] = "+"
        \/ c[1] \notin {"$", "+"} /\ parsed' = Append(p, c) /\ lineIdx' = a + 1
    BY <1>3, <1>11, <1>12 DEF Parser!Round, Parser!IsNull
  <2>3. c = Parser!NullHeader => c[1] = "$"
    BY <2>1
  <2>4. c = Parser!LengthHeader => c[1] = "$" /\ c # Parser!NullHeader
    BY <2>1
  <2>5. c = Parser!Blank => c[1] = ""
    BY <2>1
  <2> QED
    BY <2>2, <2>3, <2>4, <2>5
<1>14. PICK y \in Lines :
         /\ parsed' = Append(p, y) /\ y = Returned(k) /\ lineIdx' \in Nat
         /\ lineIdx' >= l \/ (lineIdx' = a + m /\ Begins(after, z))
  <2>1. Returned(k) = IF Begins(after, z) THEN Parser!Decoded(sent[k]) ELSE Parser!Blank
    BY <1>3, <1>4, <1>6 DEF Returned
  <2>2. Parser!Blank \in Lines
    BY DEF Lines
  <2>3. ~(n < a)
    BY <1>7, <1>9
  <2>4. CASE n = a
    <3>1. l = a + 1 /\ c = Parser!Blank
      <4>1. l = n + 1 /\ z[n + 1] = Parser!Blank
        BY <1>7, <1>9, <2>4
      <4> QED
        BY <1>11, <2>4, <4>1
    <3>2. ~Begins(after, z)
      <4>1. SUFFICES ASSUME Begins(after, z) PROVE FALSE
        OBVIOUS
      <4>2. a + 1 \in 1..Len(after) /\ 1 \in 1..m
        BY <1>8
      <4>3. after[a + 1] = c /\ after[a + 1] = u[1]
        BY <1>8, <1>11, <4>1, <4>2 DEF Begins
      <4>4. u[1] # Parser!Blank
        <5>1. Parser!NullHeader # Parser!Blank /\ Parser!LengthHeader # Parser!Blank
          BY DEF Parser!NullHeader, Parser!LengthHeader, Parser!Blank
        <5>2. m = 1 \/ m = 2
          OBVIOUS
        <5> QED
          BY <1>8, <5>1, <5>2
      <4> QED
        BY <3>1, <4>3, <4>4
    <3>3. a + 1 \in Nat
      OBVIOUS
    <3> QED
      BY <1>13, <2>1, <2>2, <3>1, <3>2, <3>3
  <2>5. CASE n = a + 1 /\ m = 2
    <3>1. c = Parser!LengthHeader
      <4>1. a + 1 \in 1..(a + m) /\ a + 1 <= n /\ 1 \in 1..m
        BY <2>5
      <4> QED
        BY <1>8, <1>10, <1>11, <2>5, <4>1
    <3>2. l <= a + 2 /\ a + 2 \in Nat /\ e = Parser!Blank
      BY <1>9, <1>12, <2>5
    <3>3. Begins(after, z) => Parser!Decoded(sent[k]) = Parser!Blank
      <4>1. SUFFICES ASSUME Begins(after, z) PROVE Parser!Decoded(sent[k]) = Parser!Blank
        OBVIOUS
      <4>2. a + 2 \in 1..Len(after) /\ 2 \in 1..m /\ a + 2 <= l
        BY <1>3, <1>8, <2>5, <4>1 DEF Begins
      <4>3. after[a + 2] = z[a + 2] /\ after[a + 2] = u[2]
        BY <1>8, <4>1, <4>2 DEF Begins
      <4>4. z[a + 2] = e
        BY <1>12, <4>2
      <4> QED
        BY <1>8, <2>5, <3>2, <4>3, <4>4
    <3> QED
      BY <1>13, <2>1, <2>2, <3>1, <3>2, <3>3
  <2>6. CASE n >= a + m
    <3>1. Begins(after, z)
      BY <1>3, <1>8, <1>9, <1>10, <2>6 DEF Begins
    <3>2. c = u[1]
      <4>1. a + 1 \in 1..(a + m) /\ a + 1 <= n /\ 1 \in 1..m
        BY <2>6
      <4> QED
        BY <1>8, <1>10, <1>11, <4>1
    <3>3. CASE m = 1
      BY <1>8, <1>13, <2>1, <2>2, <3>1, <3>2, <3>3
    <3>4. CASE m = 2
      <4>1. a + 2 \in 1..(a + m) /\ a + 2 <= n /\ 2 \in 1..m /\ a + 1 < l
        BY <1>9, <2>6, <3>4
      <4>2. e = u[2]
        BY <1>8, <1>10, <1>12, <4>1
      <4>3. e \in Lines
        BY <1>6, <1>8, <4>1, <4>2
      <4> QED
        BY <1>8, <1>13, <2>1, <3>1, <3>2, <3>4, <4>2, <4>3
    <3> QED
      BY <3>3, <3>4
  <2> QED
    BY <2>3, <2>4, <2>5, <2>6
<1>15. Len(parsed') = k /\ parsed' \in Seq(Lines) /\ parsed'[k] = y /\ \A i \in 1..(k - 1) : parsed'[i] = p[i]
  BY <1>3, <1>14
<1>16. UpTo' = UpTo /\ SendableAll' /\ \A i : Returned(i)' = Returned(i)
  <2>1. UpTo' = UpTo
    BY <1>2 DEF UpTo
  <2>2. SendableAll'
    BY <1>2 DEF ParseInv, SendableAll
  <2> QED
    BY <1>2, <2>1, <2>2 DEF Returned
<1>17. \A i \in 1..Len(parsed') : parsed'[i] = Returned(i)
  <2>1. ASSUME NEW i \in 1..(k - 1) PROVE parsed'[i] = Returned(i)
    <3>1. i \in 1..Len(parsed)
      BY <1>3
    <3> QED
      BY <1>3, <1>15, <3>1 DEF ParseInv
  <2>2. \A i \in 1..k : i \in 1..(k - 1) \/ i = k
    OBVIOUS
  <2> QED
    BY <1>14, <1>15, <2>1, <2>2
<1>18. lineIdx' >= Len(lines') \/ (lineIdx' = Len(UpTo[k]) /\ Begins(UpTo[k], lines'))
  BY <1>2, <1>3, <1>4, <1>6, <1>8, <1>14
<1>19. (\E x : CutAt(lines, Parser!Text(sent), x))'
  BY <1>2 DEF ParseInv
<1> QED
  BY <1>2, <1>3, <1>14, <1>15, <1>16, <1>17, <1>18, <1>19 DEF ParseInv
(* What the parser starts with.                                            *)
LEMMA ParseBegins ==
  ASSUME Parser!Init, Parser!OneLine
  PROVE  ParseInv
<1>1. SendableAll
  <2>1. PICK n \in 0..MaxValues : sent \in [1..n -> Parser!ValuesOf(MaxLines) \cup {Parser!Null}]
    BY DEF Parser!Init
  <2>2. n \in Nat
    OBVIOUS
  <2>3. ASSUME NEW i \in 1..n PROVE sent[i] \in Seq(Lines) /\ Sendable(sent[i])
    <3>1. CASE sent[i] = Parser!Null
      BY <3>1 DEF Parser!Null, Sendable
    <3>2. CASE sent[i] # Parser!Null
      <4>1. sent[i] \in Parser!ValuesOf(MaxLines)
        BY <2>1, <3>2
      <4>2. PICK k \in 1..MaxLines : sent[i] \in [1..k -> LineTexts]
        BY <4>1 DEF Parser!ValuesOf
      <4>3. sent[i] \in Seq(Lines)
        BY <4>2 DEF Lines
      <4>4. Len(sent[i]) = 1
        BY <2>1, <3>2 DEF Parser!OneLine
      <4> QED
        BY <4>3, <4>4 DEF Sendable
    <3> QED
      BY <3>1, <3>2
  <2>4. sent \in Seq({v \in Seq(Lines) : Sendable(v)})
    <3>1. sent \in [1..n -> {v \in Seq(Lines) : Sendable(v)}]
      BY <2>1, <2>3
    <3> QED
      BY <2>2, <3>1
  <2> QED
    BY <2>4 DEF SendableAll
<1>2. PICK T : T = Parser!Text(sent)
  OBVIOUS
<1>3. T \in Seq(Lines) /\ UpTo[0] = <<>> /\ 0 \in 0..Len(sent)
  <2>1. Len(sent) \in Nat /\ Grows(Lines, Len(sent), UpTo, Wires) /\ UpTo[Len(sent)] = T
    BY <1>1, <1>2, TextsGrow
  <2>2. UpTo[Len(sent)] \in Seq(Lines)
    BY <2>1, GrownBegin
  <2> QED
    BY <2>1, <2>2 DEF Grows
<1>4. PICK n \in 0..Len(T) :
        lines \in {Append(SubSeq(T, 1, n), Parser!Blank), SubSeq(T, 1, n)}
  BY <1>2 DEF Parser!Init, Parser!CutOff
<1>5. PICK s \in Seq(Lines) : s = SubSeq(T, 1, n) /\ Len(s) = n /\ \A x \in 1..n : s[x] = T[x]
  <2>1. /\ SubSeq(T, 1, n) \in Seq(Lines) /\ Len(SubSeq(T, 1, n)) = n
        /\ \A x \in 1..n : SubSeq(T, 1, n)[x] = T[x]
    BY <1>3
  <2> QED
    BY <2>1
<1>6. CutAt(lines, T, n)
  <2>1. CASE lines = s
    BY <1>5, <2>1 DEF CutAt
  <2>2. CASE lines = Append(s, Parser!Blank)
    <3>1. PICK b \in Lines : b = Parser!Blank
      BY DEF Lines
    <3>2. /\ Append(s, b) \in Seq(Lines) /\ Len(Append(s, b)) = n + 1 /\ Append(s, b)[n + 1] = b
          /\ \A x \in 1..n : Append(s, b)[x] = s[x]
      BY <1>5
    <3> QED
      BY <1>5, <2>2, <3>1, <3>2 DEF CutAt
  <2> QED
    BY <1>4, <1>5, <2>1, <2>2
<1>7. lineIdx = 0 /\ parsed = <<>> /\ Len(<<>>) = 0 /\ <<>> \in Seq(Lines) /\ 1..0 = {}
  BY DEF Parser!Init
<1>8. Len(sent) \in Nat /\ Len(UpTo[0]) = 0 /\ Begins(UpTo[0], lines)
  <2>1. Len(lines) \in Nat
    BY <1>6 DEF CutAt
  <2>2. Len(sent) \in Nat
    BY <1>1, TextsGrow
  <2> QED
    BY <1>3, <1>7, <2>1, <2>2 DEF Begins
<1> QED
  BY <1>1, <1>2, <1>6, <1>7, <1>8 DEF ParseInv

(* What the invariant says of the parser's result.                         *)
LEMMA ParseConsistent ==
  ASSUME Parser!OneLine => ParseInv
  PROVE  Parser!RoundTrip
<1> SUFFICES ASSUME Parser!OneLine, NEW i \in DOMAIN parsed
             PROVE  parsed[i] = IF Parser!Arrived(i) THEN Parser!Decoded(sent[i]) ELSE Parser!Blank
  BY DEF Parser!RoundTrip
<1>1. ParseInv
  OBVIOUS
<1>2. /\ i \in 1..Len(parsed) /\ Len(parsed) \in Nat /\ Len(parsed) <= Len(sent) /\ Len(sent) \in Nat
      /\ lines \in Seq(Lines)
  <2>1. SendableAll
    BY <1>1 DEF ParseInv
  <2>2. Len(sent) \in Nat
    BY <2>1, TextsGrow
  <2> QED
    BY <1>1, <2>2 DEF ParseInv, CutAt
<1>3. parsed[i] = Returned(i)
  BY <1>1, <1>2 DEF ParseInv
<1>4. i \in 0..Len(sent)
  BY <1>2
<1>5. PICK s \in Seq(Lines) : s = UpTo[i] /\ s = Parser!Text(SubSeq(sent, 1, i))
  <2>1. UpTo[i] \in Seq(Lines)
    BY <1>1, <1>4, TextsGrow, GrownBegin DEF ParseInv
  <2> QED
    BY <1>4, <2>1 DEF UpTo
<1>6. Parser!Arrived(i) <=> Begins(s, lines)
  <2>1. Parser!Arrived(i) <=> Len(s) <= Len(lines) /\ SubSeq(s, 1, Len(s)) = SubSeq(lines, 1, Len(s))
    BY <1>5 DEF Parser!Arrived, Parser!IsPrefix
  <2>2. PICK z \in Seq(Lines), m \in Nat : z = lines /\ m = Len(s)
    BY <1>2
  <2>3. SubSeq(s, 1, m) = s
    BY <2>2
  <2>4. ASSUME m <= Len(z) PROVE SubSeq(z, 1, m) = s <=> \A x \in 1..m : s[x] = z[x]
    <3>1. /\ SubSeq(z, 1, m) \in Seq(Lines) /\ Len(SubSeq(z, 1, m)) = m
          /\ \A x \in 1..m : SubSeq(z, 1, m)[x] = z[x]
      BY <2>4
    <3>2. PICK r \in Seq(Lines) : r = SubSeq(z, 1, m) /\ Len(r) = m /\ \A x \in 1..m : r[x] = z[x]
      BY <3>1
    <3>3. (\A x \in 1..m : s[x] = z[x]) => r = s
      <4>1. HAVE \A x \in 1..m : s[x] = z[x]
      <4>2. Len(s) = Len(r) /\ \A x \in 1..Len(s) : s[x] = r[x]
        BY <2>2, <3>2, <4>1
      <4> QED
        BY <4>2, SeqEqual
    <3> QED
      BY <3>2, <3>3
  <2> QED
    BY <2>1, <2>2, <2>3, <2>4 DEF Begins
<1> QED
  BY <1>3, <1>5, <1>6 DEF Returned
(* Of any number of values of one line each, or null, however the text was *)
(* cut off at the end of a line: parseArray() returns what had arrived, in *)
(* its order, and '' for the rest.                                         *)
THEOREM WhatIsSentIsParsed == InMemorySpec => []RoundTrip
<1> DEFINE I == subject = "parser" /\ Parser!OneLine => ParseInv
<1>1. InMemoryInit => I
  BY ParseBegins DEF InMemoryInit
<1>2. I /\ [InMemoryNext]_allVars => I'
  <2> SUFFICES ASSUME I, [InMemoryNext]_allVars, subject' = "parser", Parser!OneLine'
               PROVE  ParseInv'
    OBVIOUS
  <2>1. subject = "parser"
    BY DEF InMemoryNext, allVars
  <2>2. Parser!Round \/ UNCHANGED <<sent, lines, lineIdx, parsed>>
    BY <2>1 DEF InMemoryNext, allVars, parserVars
  <2>3. sent' = sent
    BY <2>2 DEF Parser!Round
  <2>4. ParseInv
    BY <2>1, <2>3 DEF Parser!OneLine
  <2>5. CASE Parser!Round
    BY <2>4, <2>5, RoundKeeps
  <2>6. CASE UNCHANGED <<sent, lines, lineIdx, parsed>>
    BY <2>4, <2>6 DEF ParseInv, SendableAll, CutAt, UpTo, Returned
  <2> QED
    BY <2>2, <2>5, <2>6
<1>3. I => RoundTrip
  BY ParseConsistent DEF RoundTrip, Parser!RoundTrip
<1> QED
  BY <1>1, <1>2, <1>3, PTL DEF InMemorySpec

-----------------------------------------------------------------------------
(* All components.  What the heap's invariant says of its answers.         *)
LEMMA HeapConsistent ==
  ASSUME HeapAssumption, HeapInv
  PROVE  TypeOK /\ HeapOrder /\ MinFirst
BY FirstIsEarliest DEF HeapInv, MinFirst

(* The types of the shortener are part of its invariant.                   *)
LEMMA ShortenerTypes ==
  ASSUME Inv
  PROVE  Shortener!TypeOK
<1>1. TypeInv
  BY DEF Inv
<1>2. ASSUME NEW i \in DOMAIN db PROVE db[i].id \in Nat /\ db[i].url \in URLs
  <2>1. db[i] \in Row
    BY <1>1 DEF TypeInv
  <2> QED
    BY <2>1 DEF Row
<1> QED
  BY <1>1, <1>2 DEF TypeInv, Shortener!TypeOK

(* The invariants of the components, each while its component runs.        *)
AllInv ==
  /\ subject = "heap" => HeapInv
  /\ subject = "log" => LogInv /\ SocketInv
  /\ subject = "cache" => LruInv
  /\ subject = "limiters" => LimInv
  /\ subject = "balancer" => BalInv
  /\ subject = "shortener" => Inv

(* They hold when a component is chosen.                                   *)
LEMMA AllStart ==
  ASSUME InMemoryInit
  PROVE  AllInv
<1>1. Init /\ Aggregator!Init /\ LRU!Init /\ Limiters!Init /\ Balancer!Init /\ Shortener!Init
  BY DEF InMemoryInit
<1>2. HeapInv
  BY <1>1, HeapAssumption, HeapStarts
<1>3. LogInv /\ SocketInv
  BY <1>1, AggregatorAssumption, LogInit
<1>4. LruInv
  BY <1>1, CacheAssumption, CacheInit
<1>5. LimInv
  BY <1>1, LimiterAssumption, LimitersInit
<1>6. BalInv
  BY <1>1, BalancerAssumption, BalancerInit
<1>7. subject = "shortener" => Inv
  BY <1>1, ShortenerAssumption, InvInit
<1> QED
  BY <1>2, <1>3, <1>4, <1>5, <1>6, <1>7 DEF AllInv

(* And after every step, which is one of the component that runs.          *)
LEMMA AllSteps ==
  ASSUME AllInv, [InMemoryNext]_allVars
  PROVE  AllInv'
<1>1. subject' = subject
  BY DEF InMemoryNext, allVars
<1>2. ASSUME subject = "heap" PROVE HeapInv'
  <2>1. [Next]_vars
    BY <1>2 DEF InMemoryNext, allVars
  <2> QED
    BY <1>2, <2>1, HeapAssumption, HeapSteps DEF AllInv
<1>3. ASSUME subject = "log" PROVE LogInv' /\ SocketInv'
  <2>1. [Aggregator!Next]_Aggregator!vars
    BY <1>3 DEF InMemoryNext, allVars, logVars, Aggregator!vars, Aggregator!ringVars, Aggregator!socketVars
  <2> QED
    BY <1>3, <2>1, AggregatorAssumption, LogNext, SocketNext DEF AllInv
<1>4. ASSUME subject = "cache" PROVE LruInv'
  <2>1. [LRU!Next]_LRU!vars
    BY <1>4 DEF InMemoryNext, allVars, cacheVars, LRU!vars
  <2> QED
    BY <1>4, <2>1, CacheAssumption, CacheNext DEF AllInv
<1>5. ASSUME subject = "limiters" PROVE LimInv'
  <2>1. [Limiters!Next]_Limiters!vars
    BY <1>5 DEF InMemoryNext, allVars, limiterVars, Limiters!vars, Limiters!limiterVars
  <2> QED
    BY <1>5, <2>1, LimiterAssumption, LimitersNext DEF AllInv
<1>6. ASSUME subject = "balancer" PROVE BalInv'
  <2>1. [Balancer!Next]_Balancer!vars
    BY <1>6 DEF InMemoryNext, allVars, balancerVars, Balancer!vars, Balancer!checkVars
  <2> QED
    BY <1>6, <2>1, BalancerAssumption, BalancerNext DEF AllInv
<1>7. ASSUME subject = "shortener" PROVE Inv'
  <2>1. [Shortener!Next]_Shortener!vars
    BY <1>7 DEF InMemoryNext, allVars, urlVars, Shortener!vars, Shortener!storeVars, Shortener!serviceVars
  <2> QED
    BY <1>7, <2>1, ShortenerAssumption, InvNext DEF AllInv
<1> QED
  BY <1>1, <1>2, <1>3, <1>4, <1>5, <1>6, <1>7 DEF AllInv

(* In every state of each component, whatever the values of its constants: *)
(* its variables have their types; the heap is in order and its first      *)
(* element the earliest; every query of the log finds what satisfies its   *)
(* filters, and no socket is open off the record; the cache's list matches *)
(* its map, within the capacity; no client has more from a limiter than    *)
(* its bound.                                                              *)
THEOREM AlwaysConsistent == InMemorySpec => []Consistent
<1>1. InMemoryInit => AllInv
  BY AllStart
<1>2. AllInv /\ [InMemoryNext]_allVars => AllInv'
  BY AllSteps
<1>3. AllInv => Consistent
  <2> SUFFICES ASSUME AllInv PROVE Consistent
    OBVIOUS
  <2>1. subject = "heap" => TypeOK /\ HeapOrder /\ MinFirst
    BY HeapAssumption, HeapConsistent DEF AllInv
  <2>2. subject = "log" => Aggregator!TypeOK /\ Aggregator!QueryExact /\ Aggregator!OpenOnlyOnRecord
    BY AggregatorAssumption, LogConsistent DEF AllInv
  <2>3. subject = "cache" => LRU!TypeOK /\ LRU!ListMatchesMap /\ LRU!WithinCapacity
    BY CacheConsistent DEF AllInv
  <2>4. subject = "limiters" => Limiters!TypeOK /\ Limiters!WithinBounds
    BY LimiterAssumption, LimitersConsistent DEF AllInv
  <2>5. subject = "balancer" => Balancer!TypeOK
    BY BalancerAssumption, BalancerConsistent DEF AllInv
  <2>6. subject = "shortener" => Shortener!TypeOK
    BY ShortenerTypes DEF AllInv
  <2> QED
    BY <2>1, <2>2, <2>3, <2>4, <2>5, <2>6 DEF Consistent
<1> QED
  BY <1>1, <1>2, <1>3, PTL DEF InMemorySpec
=============================================================================
