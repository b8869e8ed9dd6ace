---------------------------- MODULE WsPayloadProofs ----------------------------
(***************************************************************************)
(* Proofs about the payload of text messages: ValidateUtf8 accepts what     *)
(* RFC 3629 calls UTF-8, and EncodeBase64 and DecodeBase64 are inverse, for *)
(* strings of any length.  Inductions over data go through the least        *)
(* element of a set of numbers (NatMin).                                    *)
(***************************************************************************)
EXTENDS WsPayload, SequenceTheorems, WellFoundedInduction, TLAPS

Byte == 0..255

-----------------------------------------------------------------------------
(* The UTF-8 validator: one byte, in one state.                               *)
Utf8Step(s, c) == utf8d(s, ByteType(c))
State == 0..8

(* The type of a byte, the first part of the table utf8d.                     *)
LEMMA TypeOf ==
  ASSUME NEW c \in Byte
  PROVE  /\ c <= 127 => ByteType(c) = 0
         /\ c \in 128..143 => ByteType(c) = 1
         /\ c \in 144..159 => ByteType(c) = 9
         /\ c \in 160..191 => ByteType(c) = 7
         /\ c \in {192, 193} => ByteType(c) = 8
         /\ c \in 194..223 => ByteType(c) = 2
         /\ c = 224 => ByteType(c) = 10
         /\ c \in (225..239) \ {237} => ByteType(c) = 3
         /\ c = 237 => ByteType(c) = 4
         /\ c = 240 => ByteType(c) = 11
         /\ c \in 241..243 => ByteType(c) = 6
         /\ c = 244 => ByteType(c) = 5
         /\ c \in 245..255 => ByteType(c) = 8
<1> USE DEF Byte
<1>1. c <= 127 => ByteType(c) = 0  BY DEF ByteType
<1>2. c \in 128..143 => ByteType(c) = 1  BY DEF ByteType
<1>3. c \in 144..159 => ByteType(c) = 9  BY DEF ByteType
<1>4. c \in 160..191 => ByteType(c) = 7  BY DEF ByteType
<1>5. c \in {192, 193} => ByteType(c) = 8  BY DEF ByteType
<1>6. c \in 194..223 => ByteType(c) = 2  BY DEF ByteType
<1>7. c = 224 => ByteType(c) = 10  BY DEF ByteType
<1>8. c \in (225..239) \ {237} => ByteType(c) = 3  BY DEF ByteType
<1>9. c = 237 => ByteType(c) = 4  BY DEF ByteType
<1>10. c = 240 => ByteType(c) = 11  BY DEF ByteType
<1>11. c \in 241..243 => ByteType(c) = 6  BY DEF ByteType
<1>12. c = 244 => ByteType(c) = 5  BY DEF ByteType
<1>13. c \in 245..255 => ByteType(c) = 8  BY DEF ByteType
<1> QED  BY <1>1, <1>2, <1>3, <1>4, <1>5, <1>6, <1>7, <1>8, <1>9, <1>10, <1>11, <1>12, <1>13

(* The row s0 of utf8d.                                                       *)
LEMMA FirstOf ==
    /\ FirstByte[0+1] = 0 /\ FirstByte[1+1] = 1 /\ FirstByte[2+1] = 2
    /\ FirstByte[3+1] = 3 /\ FirstByte[4+1] = 5 /\ FirstByte[5+1] = 8
    /\ FirstByte[6+1] = 7 /\ FirstByte[7+1] = 1 /\ FirstByte[8+1] = 1
    /\ FirstByte[9+1] = 1 /\ FirstByte[10+1] = 4 /\ FirstByte[11+1] = 6
BY DEF FirstByte

(* Where the first byte of a character leads.                                 *)
LEMMA FirstStep ==
  ASSUME NEW c \in Byte
  PROVE  /\ c <= 127 => Utf8Step(0, c) = 0
         /\ c \in 128..193 => Utf8Step(0, c) = 1
         /\ c \in 194..223 => Utf8Step(0, c) = 2
         /\ c = 224 => Utf8Step(0, c) = 4
         /\ c \in (225..239) \ {237} => Utf8Step(0, c) = 3
         /\ c = 237 => Utf8Step(0, c) = 5
         /\ c = 240 => Utf8Step(0, c) = 6
         /\ c \in 241..243 => Utf8Step(0, c) = 7
         /\ c = 244 => Utf8Step(0, c) = 8
         /\ c \in 245..255 => Utf8Step(0, c) = 1
<1>1. Utf8Step(0, c) = FirstByte[ByteType(c) + 1]
  BY DEF Utf8Step, utf8d, WS_UTF8_ACCEPT
<1> QED  BY <1>1, TypeOf, FirstOf DEF Byte

(* Where a byte leads in the middle of a character: s1 is REJECT, s2 to s8    *)
(* wait for one to three more bytes.                                          *)
LEMMA LaterStep ==
  ASSUME NEW c \in Byte, NEW s \in 1..8
  PROVE  LET u == Utf8Step(s, c) IN
         /\ s = 1 => u = 1
         /\ s = 2 => u = IF c \in 128..191 THEN 0 ELSE 1
         /\ s = 3 => u = IF c \in 128..191 THEN 2 ELSE 1
         /\ s = 4 => u = IF c \in 160..191 THEN 2 ELSE 1
         /\ s = 5 => u = IF c \in 128..159 THEN 2 ELSE 1
         /\ s = 6 => u = IF c \in 144..191 THEN 3 ELSE 1
         /\ s = 7 => u = IF c \in 128..191 THEN 3 ELSE 1
         /\ s = 8 => u = IF c \in 128..143 THEN 3 ELSE 1
<1>1. Utf8Step(s, c) = IF ByteType(c) \in LaterTypes[s] THEN LaterState[s] ELSE 1
  BY DEF Utf8Step, utf8d, WS_UTF8_ACCEPT, WS_UTF8_REJECT
<1>2. /\ s = 1 => LaterState[s] = 1 /\ LaterTypes[s] = {}
      /\ s = 2 => LaterState[s] = 0 /\ LaterTypes[s] = {1, 7, 9}
      /\ s = 3 => LaterState[s] = 2 /\ LaterTypes[s] = {1, 7, 9}
      /\ s = 4 => LaterState[s] = 2 /\ LaterTypes[s] = {7}
      /\ s = 5 => LaterState[s] = 2 /\ LaterTypes[s] = {1, 9}
      /\ s = 6 => LaterState[s] = 3 /\ LaterTypes[s] = {7, 9}
      /\ s = 7 => LaterState[s] = 3 /\ LaterTypes[s] = {1, 7, 9}
      /\ s = 8 => LaterState[s] = 3 /\ LaterTypes[s] = {1}
  BY DEF LaterState, LaterTypes
<1>3. /\ ByteType(c) \in {1, 7, 9} <=> c \in 128..191
      /\ ByteType(c) \in {7, 9} <=> c \in 144..191
      /\ ByteType(c) \in {1, 9} <=> c \in 128..159
      /\ ByteType(c) = 7 <=> c \in 160..191
      /\ ByteType(c) = 1 <=> c \in 128..143
  BY TypeOf DEF Byte
<1> QED  BY <1>1, <1>2, <1>3, SMT

(* A step ends in a state of the table.                                       *)
LEMMA StepState ==
  ASSUME NEW c \in Byte, NEW s \in State
  PROVE  Utf8Step(s, c) \in State
<1>1. CASE s = 0
  BY <1>1, FirstStep DEF Byte, State
<1>2. CASE s \in 1..8
  BY <1>2, LaterStep DEF State
<1> QED  BY <1>1, <1>2 DEF State

(* A set of numbers has a least one.  Induction, below, follows: it is stated *)
(* with a set, not with a predicate.                                          *)
LEMMA NatMin == ASSUME NEW M, M \subseteq Nat, M # {} PROVE \E x \in M : \A y \in M : x <= y
<1> DEFINE R == OpToRel(<, Nat)
<1>1. IsWellFoundedOn(R, Nat)
  BY NatLessThanWellFounded
<1>2. PICK x \in M : \A y \in M : ~(<<y, x>> \in R)
  <2> HIDE DEF R
  <2> QED BY <1>1, WFMin, Zenon
<1>3. \A y \in Nat, z \in Nat : <<y, z>> \in R <=> y < z
  BY DEF OpToRel
<1> HIDE DEF R
<1>4. ASSUME NEW y \in M PROVE x <= y
  <2>1. x \in Nat /\ y \in Nat
    OBVIOUS
  <2>2. ~(<<y, x>> \in R)
    BY <1>2
  <2>3. ~(y < x)
    BY <1>3, <2>1, <2>2, Zenon
  <2> QED  BY <2>1, <2>3
<1> QED BY <1>4

(* Induction over the numbers: every number is in S.                          *)
LEMMA Induction ==
  ASSUME NEW S, \A n \in Nat : (\A m \in Nat : m < n => m \in S) => n \in S
  PROVE  \A n \in Nat : n \in S
<1>1. SUFFICES ASSUME Nat \ S # {} PROVE FALSE
  OBVIOUS
<1>2. PICK n \in Nat \ S : \A m \in Nat \ S : n <= m
  BY <1>1, NatMin, Zenon
<1>3. \A m \in Nat : m < n => m \in S
  BY <1>2
<1> QED  BY <1>2, <1>3

(* g is the run of the validator from s over the first n bytes of str.        *)
Follows(g, s, str, n) ==
  /\ g[0] = s
  /\ \A i \in 1..n : g[i] = Utf8Step(g[i-1], str[i])

IsRun(g, s, str, n) == g \in [0..n -> State] /\ Follows(g, s, str, n)

(* The function that Utf8States chooses exists.                               *)
LEMMA RunExists ==
  ASSUME NEW s \in State, NEW str \in Seq(Byte), NEW N \in Nat, N <= Len(str)
  PROVE  \E g : IsRun(g, s, str, N)
<1> DEFINE S == {n \in Nat : n <= Len(str) => \E g : IsRun(g, s, str, n)}
<1>1. ASSUME NEW n \in Nat, \A m \in Nat : m < n => m \in S, n <= Len(str)
      PROVE  \E g : IsRun(g, s, str, n)
  <2>1. CASE n = 0
    <3> WITNESS [i \in 0..0 |-> s]
    <3> QED  BY <2>1 DEF IsRun, Follows
  <2>2. CASE n > 0
    <3>1. PICK g : IsRun(g, s, str, n-1)
      BY <1>1, <2>2
    <3> DEFINE h == [i \in 0..n |-> IF i = n THEN Utf8Step(g[n-1], str[n]) ELSE g[i]]
    <3>2. str[n] \in Byte /\ g[n-1] \in State
      BY <1>1, <2>2, <3>1 DEF IsRun, Follows
    <3>3. Utf8Step(g[n-1], str[n]) \in State
      BY <3>2, StepState
    <3>4. h \in [0..n -> State] /\ h[0] = s
      BY <3>1, <3>3, <2>2 DEF IsRun, Follows
    <3>5. ASSUME NEW i \in 1..n PROVE h[i] = Utf8Step(h[i-1], str[i])
      <4>1. i - 1 \in 0..n /\ i - 1 # n /\ h[i-1] = g[i-1]
        OBVIOUS
      <4>2. CASE i = n
        BY <4>1, <4>2
      <4>3. CASE i # n
        <5>1. i \in 1..(n-1) /\ h[i] = g[i]
          BY <4>3
        <5> QED  BY <5>1, <4>1, <3>1 DEF IsRun, Follows
      <4> QED  BY <4>2, <4>3
    <3>6. IsRun(h, s, str, n)
      <4> HIDE DEF h
      <4> QED  BY <3>4, <3>5 DEF IsRun, Follows
    <3> QED  BY <3>6
  <2> QED  BY <2>1, <2>2
<1>2. \A n \in Nat : n \in S
  <2>1. \A n \in Nat : (\A m \in Nat : m < n => m \in S) => n \in S
    BY <1>1
  <2> HIDE DEF S
  <2> QED  BY <2>1, Induction
<1> QED  BY <1>2

(* There is one run from a state over given bytes.                            *)
LEMMA RunUnique ==
  ASSUME NEW N \in Nat, NEW s, NEW g, NEW h, NEW a, NEW b,
         Follows(g, s, a, N), Follows(h, s, b, N), \A i \in 1..N : a[i] = b[i]
  PROVE  \A i \in 0..N : g[i] = h[i]
<1> DEFINE S == {n \in Nat : n <= N => g[n] = h[n]}
<1>1. ASSUME NEW n \in Nat, \A m \in Nat : m < n => m \in S PROVE n \in S
  <2>1. CASE n = 0
    BY <2>1 DEF Follows
  <2>2. CASE n > 0 /\ n <= N
    <3>1. n \in 1..N /\ n - 1 \in Nat /\ n - 1 < n /\ n - 1 <= N
      BY <2>2
    <3>2. g[n-1] = h[n-1]
      BY <3>1, <1>1
    <3> QED  BY <3>1, <3>2 DEF Follows
  <2> QED  BY <2>1, <2>2
<1>2. \A n \in Nat : n \in S
  <2> HIDE DEF S
  <2> QED  BY <1>1, Induction
<1> QED  BY <1>2

Run(s, str) == Utf8States(s, str)

(* Utf8States is the run of the validator over the bytes.                     *)
LEMMA RunIs ==
  ASSUME NEW s \in State, NEW str \in Seq(Byte)
  PROVE  IsRun(Run(s, str), s, str, Len(str))
<1> DEFINE F(g) == [n \in 0..Len(str) |-> IF n = 0 THEN s ELSE utf8d(g[n-1], ByteType(str[n]))]
<1>0. Len(str) \in Nat
  OBVIOUS
<1>1. PICK g : IsRun(g, s, str, Len(str))
  BY <1>0, RunExists
<1>2. g = F(g)
  BY <1>0, <1>1 DEF IsRun, Follows, Utf8Step
<1>3. Run(s, str) = CHOOSE h : h = F(h)
  BY DEF Run, Utf8States
<1> DEFINE h == Run(s, str)
<1>4. h = F(h)
  <2> HIDE DEF F, h
  <2> QED  BY <1>2, <1>3, Zenon DEF h
<1> HIDE DEF h
<1>5. /\ h = [n \in 0..Len(str) |-> h[n]]
      /\ Follows(h, s, str, Len(str))
  BY <1>0, <1>4 DEF Utf8Step, Follows
<1>6. \A i \in 0..Len(str) : g[i] = h[i]
  <2>1. Follows(g, s, str, Len(str))
    BY ONLY <1>1, Zenon DEF IsRun
  <2>2. Follows(h, s, str, Len(str))
    BY ONLY <1>5
  <2> QED  BY ONLY <1>0, <2>1, <2>2, RunUnique
<1>7. h = g
  BY <1>1, <1>5, <1>6 DEF IsRun, Follows
<1> QED  BY <1>1, <1>7 DEF h

(* The run over a and then b: ValidateUtf8 goes on from the state it kept.    *)
LEMMA RunConcat ==
  ASSUME NEW s \in State, NEW a \in Seq(Byte), NEW b \in Seq(Byte)
  PROVE  /\ \A i \in 0..Len(a) : Run(s, a \o b)[i] = Run(s, a)[i]
         /\ \A j \in 0..Len(b) : Run(s, a \o b)[Len(a) + j] = Run(Run(s, a)[Len(a)], b)[j]
<1> DEFINE ab == a \o b
           r  == Run(s, ab)
           q  == Run(s, a)
           h  == [j \in 0..Len(b) |-> r[Len(a) + j]]
<1>1. /\ ab \in Seq(Byte) /\ Len(ab) = Len(a) + Len(b) /\ Len(a) \in Nat /\ Len(b) \in Nat
      /\ \A i \in 1..Len(a) : ab[i] = a[i]
      /\ \A i \in 1..Len(b) : ab[Len(a) + i] = b[i]
  OBVIOUS
<1> HIDE DEF ab
<1>2. IsRun(r, s, ab, Len(a) + Len(b)) /\ IsRun(q, s, a, Len(a))
  <2>1. IsRun(r, s, ab, Len(ab)) /\ IsRun(q, s, a, Len(a))
    BY ONLY <1>1, RunIs, Zenon
  <2> QED  BY ONLY <1>1, <2>1, Zenon
<1> HIDE DEF r, q
<1>3. \A i \in 0..Len(a) : r[i] = q[i]
  <2>1. Follows(r, s, ab, Len(a))
    <3>1. Follows(r, s, ab, Len(a) + Len(b))
      BY ONLY <1>2, Zenon DEF IsRun
    <3>2. \A i \in 1..Len(a) : i \in 1..(Len(a) + Len(b))
      BY ONLY <1>1
    <3> QED  BY ONLY <3>1, <3>2, Zenon DEF Follows
  <2>2. Follows(q, s, a, Len(a))
    BY <1>2 DEF IsRun
  <2>3. Len(a) \in Nat /\ \A i \in 1..Len(a) : ab[i] = a[i]
    BY <1>1
  <2> QED  BY ONLY <2>1, <2>2, <2>3, RunUnique
<1>4. q[Len(a)] \in State
  <2>1. q \in [0..Len(a) -> State]
    BY ONLY <1>2, Zenon DEF IsRun
  <2>2. Len(a) \in 0..Len(a)
    BY ONLY <1>1
  <2> QED  BY ONLY <2>1, <2>2
<1> DEFINE p == Run(q[Len(a)], b)
<1>5. IsRun(p, q[Len(a)], b, Len(b))
  BY ONLY <1>4, b \in Seq(Byte), RunIs, Zenon
<1> HIDE DEF p
<1>6. h[0] = q[Len(a)]
  BY <1>1, <1>3
<1>7. ASSUME NEW j \in 1..Len(b) PROVE h[j] = Utf8Step(h[j-1], b[j])
  <2>1. Len(a) + j \in 1..(Len(a) + Len(b)) /\ (Len(a) + j) - 1 = Len(a) + (j-1) /\ j-1 \in 0..Len(b)
    BY <1>1
  <2>2. r[Len(a) + j] = Utf8Step(r[(Len(a) + j) - 1], ab[Len(a) + j])
    BY <2>1, <1>2 DEF IsRun, Follows
  <2> QED  BY <2>1, <2>2, <1>1
<1> HIDE DEF h
<1>8. \A j \in 0..Len(b) : h[j] = p[j]
  <2>1. Follows(p, q[Len(a)], b, Len(b))
    BY <1>5 DEF IsRun
  <2>2. Follows(h, q[Len(a)], b, Len(b))
    BY <1>6, <1>7 DEF Follows
  <2> QED  BY ONLY <2>1, <2>2, <1>1, RunUnique
<1> QED  BY <1>3, <1>8 DEF h, r, p, q, ab

(* The characters, by their bytes, and what makes a code point fit its length. *)
Later(c) == c \in 128..191
Char1(a) == a < 128
Lead2(a) == a \in 192..223
Char2(a, b) == Lead2(a) /\ a >= 194 /\ Later(b)
Second3(a, b) == (a = 224 => b >= 160) /\ (a = 237 => b <= 159)
Char3(a, b, c) == a \in 224..239 /\ Later(b) /\ Later(c) /\ Second3(a, b)
Second4(a, b) == a <= 244 /\ (a = 240 => b >= 144) /\ (a = 244 => b <= 143)
Char4(a, b, c, d) == a \in 240..247 /\ Later(b) /\ Later(c) /\ Later(d) /\ Second4(a, b)

Fits2(a, b) == 64 * (a - 192) + (b - 128) >= 128
Fits3(a, b, c) ==
  LET code == 4096 * (a - 224) + 64 * (b - 128) + (c - 128)
  IN  code >= 2048 /\ ~(55296 <= code /\ code <= 57343)
Fits4(a, b, c, d) ==
  LET code == 262144 * (a - 240) + 4096 * (b - 128) + 64 * (c - 128) + (d - 128)
  IN  65536 <= code /\ code <= 1114111

(* The number of bytes a lead byte announces.                                 *)
LEMMA LeadIs ==
  ASSUME NEW c \in Byte
  PROVE  /\ CharLen(c) = 1 <=> c < 128
         /\ CharLen(c) = 2 <=> c \in 192..223
         /\ CharLen(c) = 3 <=> c \in 224..239
         /\ CharLen(c) = 4 <=> c \in 240..247
BY DEF Byte, CharLen

(* The lead bytes for which a code point needs 2 bytes.                       *)
LEMMA CodeOf2 ==
  ASSUME NEW a \in Byte, NEW b \in Byte, Lead2(a), Later(b)
  PROVE  Fits2(a, b) <=> a >= 194
BY SMT DEF Byte, Lead2, Later, Fits2

(* The second bytes for which a code point needs 3 bytes and is no surrogate. *)
LEMMA CodeOf3 ==
  ASSUME NEW a \in Byte, NEW b \in Byte, NEW c \in Byte, a \in 224..239, Later(b), Later(c)
  PROVE  Fits3(a, b, c) <=> Second3(a, b)
<1> DEFINE code == 4096 * (a - 224) + 64 * (b - 128) + (c - 128)
<1>1. /\ 224 <= a /\ a <= 239 /\ 128 <= b /\ b <= 191 /\ 128 <= c /\ c <= 191
      /\ a \in Int /\ b \in Int /\ c \in Int
  BY SMT DEF Byte, Later
<1>2. a = 224 /\ b >= 160 => code >= 2048
  BY ONLY <1>1, SMT
<1>3. a = 224 /\ b < 160 => code < 2048
  BY ONLY <1>1, SMT
<1>4. a > 224 => code >= 2048
  BY ONLY <1>1, SMT
<1>5. a = 237 /\ b <= 159 => code < 55296
  BY ONLY <1>1, SMT
<1>6. a = 237 /\ b > 159 => code >= 55296 /\ code <= 57343
  BY ONLY <1>1, SMT
<1>7. a < 237 => code < 55296
  BY ONLY <1>1, SMT
<1>8. a > 237 => code > 57343
  BY ONLY <1>1, SMT
<1> HIDE DEF code
<1>9. code \in Int
  BY ONLY <1>1, SMT DEF code
<1>10. (a = 224 => b >= 160) <=> code >= 2048
  BY ONLY <1>1, <1>2, <1>3, <1>4, <1>9, SMT
<1>11. (a = 237 => b <= 159) <=> ~(55296 <= code /\ code <= 57343)
  BY ONLY <1>1, <1>5, <1>6, <1>7, <1>8, <1>9, SMT
<1> QED  BY ONLY <1>10, <1>11, SMT DEF code, Fits3, Second3

(* The second bytes for which a code point needs 4 bytes and exists.          *)
LEMMA CodeOf4 ==
  ASSUME NEW a \in Byte, NEW b \in Byte, NEW c \in Byte, NEW d \in Byte,
         a \in 240..247, Later(b), Later(c), Later(d)
  PROVE  Fits4(a, b, c, d) <=> Second4(a, b)
<1> DEFINE code == 262144 * (a - 240) + 4096 * (b - 128) + 64 * (c - 128) + (d - 128)
<1>1. /\ 240 <= a /\ a <= 247 /\ 128 <= b /\ b <= 191 /\ 128 <= c /\ c <= 191 /\ 128 <= d /\ d <= 191
      /\ a \in Int /\ b \in Int /\ c \in Int /\ d \in Int
  BY SMT DEF Byte, Later
<1>2. a = 240 /\ b >= 144 => code >= 65536
  BY ONLY <1>1, SMT
<1>3. a = 240 /\ b < 144 => code < 65536
  BY ONLY <1>1, SMT
<1>4. a > 240 => code >= 65536
  BY ONLY <1>1, SMT
<1>5. a = 244 /\ b <= 143 => code <= 1114111
  BY ONLY <1>1, SMT
<1>6. a = 244 /\ b > 143 => code > 1114111
  BY ONLY <1>1, SMT
<1>7. a < 244 => code <= 1114111
  BY ONLY <1>1, SMT
<1>8. a > 244 => code > 1114111
  BY ONLY <1>1, SMT
<1> HIDE DEF code
<1>9. code \in Int
  BY ONLY <1>1, SMT DEF code
<1>10. (a = 240 => b >= 144) <=> code >= 65536
  BY ONLY <1>1, <1>2, <1>3, <1>4, <1>9, SMT
<1>11. (a <= 244 /\ (a = 244 => b <= 143)) <=> code <= 1114111
  BY ONLY <1>1, <1>5, <1>6, <1>7, <1>8, <1>9, SMT
<1> QED  BY ONLY <1>10, <1>11, SMT DEF code, Fits4, Second4

(* IsChar, for a character of 1 byte.                                         *)
LEMMA CharIs1 ==
  ASSUME NEW s \in Seq(Byte), Len(s) = 1
  PROVE  IsChar(s) <=> Char1(s[1])
<1>1. s[1] \in Byte
  OBVIOUS
<1>2. IsChar(s) <=> CharLen(s[1]) = 1
  BY SMT DEF IsChar, NeedsBytes
<1> QED  BY ONLY <1>1, <1>2, LeadIs DEF Char1

(* A character of 2 bytes.                                                    *)
LEMMA CharIs2 ==
  ASSUME NEW s \in Seq(Byte), Len(s) = 2
  PROVE  IsChar(s) <=> Char2(s[1], s[2])
<1>1. s[1] \in Byte /\ s[2] \in Byte
  <2>1. 1 \in 1..Len(s) /\ 2 \in 1..Len(s)
    OBVIOUS
  <2> QED  BY <2>1, ElementOfSeq, Zenon
<1>2. CodePoint(s) = 64 * (s[1] - 192) + (s[2] - 128)
  BY ONLY Len(s) = 2, SMT DEF CodePoint
<1>3. NeedsBytes(CodePoint(s), Len(s)) <=> Fits2(s[1], s[2])
  BY ONLY <1>1, <1>2, Len(s) = 2, SMT DEF NeedsBytes, Fits2, Byte
<1>4. (\A i \in 2..Len(s) : s[i] \in 128..191) <=> Later(s[2])
  BY ONLY Len(s) = 2, SMT DEF Later
<1>5. CharLen(s[1]) = 2 <=> Lead2(s[1])
  BY ONLY <1>1, LeadIs DEF Lead2
<1>6. Lead2(s[1]) /\ Later(s[2]) => (Fits2(s[1], s[2]) <=> s[1] >= 194)
  BY ONLY <1>1, CodeOf2
<1>7. IsChar(s) <=> CharLen(s[1]) = 2 /\ Later(s[2]) /\ Fits2(s[1], s[2])
  BY ONLY <1>3, <1>4, Len(s) = 2, Zenon DEF IsChar
<1> QED  BY ONLY <1>5, <1>6, <1>7, Zenon DEF Char2

(* The range of code points of 3 bytes.                                       *)
LEMMA Needs3 ==
  ASSUME NEW a \in Byte, NEW b \in Byte, NEW c \in Byte
  PROVE  NeedsBytes(4096 * (a - 224) + 64 * (b - 128) + (c - 128), 3) <=> Fits3(a, b, c)
<1>1. ASSUME NEW code \in Int
      PROVE  NeedsBytes(code, 3) <=> code >= 2048 /\ ~(55296 <= code /\ code <= 57343)
  BY ONLY SMT DEF NeedsBytes
<1>2. 4096 * (a - 224) + 64 * (b - 128) + (c - 128) \in Int
  BY SMT DEF Byte
<1> QED  BY ONLY <1>1, <1>2, SMT DEF Fits3

(* A character of 3 bytes.                                                    *)
LEMMA CharIs3 ==
  ASSUME NEW s \in Seq(Byte), Len(s) = 3
  PROVE  IsChar(s) <=> Char3(s[1], s[2], s[3])
<1>1. s[1] \in Byte /\ s[2] \in Byte /\ s[3] \in Byte
  <2>1. 1 \in 1..Len(s) /\ 2 \in 1..Len(s) /\ 3 \in 1..Len(s)
    OBVIOUS
  <2> QED  BY <2>1, ElementOfSeq, Zenon
<1>2. CodePoint(s) = 4096 * (s[1] - 224) + 64 * (s[2] - 128) + (s[3] - 128)
  BY ONLY Len(s) = 3, SMT DEF CodePoint
<1>3. NeedsBytes(CodePoint(s), Len(s)) <=> Fits3(s[1], s[2], s[3])
  BY ONLY <1>1, <1>2, Len(s) = 3, Needs3
<1>4. (\A i \in 2..Len(s) : s[i] \in 128..191) <=> Later(s[2]) /\ Later(s[3])
  BY ONLY Len(s) = 3, SMT DEF Later
<1>5. CharLen(s[1]) = 3 <=> s[1] \in 224..239
  BY ONLY <1>1, LeadIs
<1>6. s[1] \in 224..239 /\ Later(s[2]) /\ Later(s[3]) => (Fits3(s[1], s[2], s[3]) <=> Second3(s[1], s[2]))
  BY ONLY <1>1, CodeOf3
<1>7. IsChar(s) <=> CharLen(s[1]) = 3 /\ Later(s[2]) /\ Later(s[3]) /\ Fits3(s[1], s[2], s[3])
  BY ONLY <1>3, <1>4, Len(s) = 3, Zenon DEF IsChar
<1> QED  BY ONLY <1>5, <1>6, <1>7, Zenon DEF Char3

(* A character of 4 bytes.                                                    *)
LEMMA CharIs4 ==
  ASSUME NEW s \in Seq(Byte), Len(s) = 4
  PROVE  IsChar(s) <=> Char4(s[1], s[2], s[3], s[4])
<1>1. s[1] \in Byte /\ s[2] \in Byte /\ s[3] \in Byte /\ s[4] \in Byte
  <2>1. 1 \in 1..Len(s) /\ 2 \in 1..Len(s) /\ 3 \in 1..Len(s) /\ 4 \in 1..Len(s)
    OBVIOUS
  <2> QED  BY <2>1, ElementOfSeq, Zenon
<1>2. CodePoint(s)
        = 262144 * (s[1] - 240) + 4096 * (s[2] - 128) + 64 * (s[3] - 128) + (s[4] - 128)
  BY ONLY Len(s) = 4, SMT DEF CodePoint
<1>3. NeedsBytes(CodePoint(s), Len(s)) <=> Fits4(s[1], s[2], s[3], s[4])
  BY ONLY <1>1, <1>2, Len(s) = 4, SMT DEF NeedsBytes, Fits4, Byte
<1>4. (\A i \in 2..Len(s) : s[i] \in 128..191) <=> Later(s[2]) /\ Later(s[3]) /\ Later(s[4])
  BY ONLY Len(s) = 4, SMT DEF Later
<1>5. CharLen(s[1]) = 4 <=> s[1] \in 240..247
  BY ONLY <1>1, LeadIs
<1>6. s[1] \in 240..247 /\ Later(s[2]) /\ Later(s[3]) /\ Later(s[4])
        => (Fits4(s[1], s[2], s[3], s[4]) <=> Second4(s[1], s[2]))
  BY ONLY <1>1, CodeOf4
<1>7. IsChar(s) <=> CharLen(s[1]) = 4 /\ Later(s[2]) /\ Later(s[3]) /\ Later(s[4]) /\ Fits4(s[1], s[2], s[3], s[4])
  BY ONLY <1>3, <1>4, Len(s) = 4, Zenon DEF IsChar
<1> QED  BY ONLY <1>5, <1>6, <1>7, Zenon DEF Char4

(* A character takes the validator from ACCEPT to ACCEPT.                     *)
LEMMA Char1Steps ==
  ASSUME NEW a \in Byte, Char1(a)
  PROVE  Utf8Step(0, a) = 0
BY FirstStep DEF Char1, Byte

(* The same for a character of 2 bytes.                                       *)
LEMMA Char2Steps ==
  ASSUME NEW a \in Byte, NEW b \in Byte, Char2(a, b)
  PROVE  Utf8Step(Utf8Step(0, a), b) = 0
BY FirstStep, LaterStep DEF Char2, Lead2, Later

(* The same for a character of 3 bytes.                                       *)
LEMMA Char3Steps ==
  ASSUME NEW a \in Byte, NEW b \in Byte, NEW c \in Byte, Char3(a, b, c)
  PROVE  Utf8Step(Utf8Step(Utf8Step(0, a), b), c) = 0
<1>1. Utf8Step(Utf8Step(0, a), b) = 2
  <2>1. PICK u : u = Utf8Step(0, a)
    BY Zenon
  <2>2. u \in 3..5 /\ (u = 4 => b >= 160) /\ (u = 5 => b <= 159)
    BY <2>1, FirstStep DEF Char3, Second3
  <2>3. Utf8Step(u, b) = 2
    BY <2>2, LaterStep DEF Char3, Later
  <2> QED  BY ONLY <2>1, <2>3, Zenon
<1>2. Utf8Step(2, c) = 0
  BY LaterStep DEF Char3, Later
<1> QED  BY ONLY <1>1, <1>2, Zenon

(* The same for a character of 4 bytes.                                       *)
LEMMA Char4Steps ==
  ASSUME NEW a \in Byte, NEW b \in Byte, NEW c \in Byte, NEW d \in Byte, Char4(a, b, c, d)
  PROVE  Utf8Step(Utf8Step(Utf8Step(Utf8Step(0, a), b), c), d) = 0
<1>1. Utf8Step(Utf8Step(0, a), b) = 3
  <2>1. PICK u : u = Utf8Step(0, a)
    BY Zenon
  <2>2. u \in 6..8 /\ (u = 6 => b >= 144) /\ (u = 8 => b <= 143)
    BY <2>1, FirstStep DEF Char4, Second4
  <2>3. Utf8Step(u, b) = 3
    BY <2>2, LaterStep DEF Char4, Later
  <2> QED  BY ONLY <2>1, <2>3, Zenon
<1>2. Utf8Step(3, c) = 2 /\ Utf8Step(2, d) = 0
  BY LaterStep DEF Char4, Later
<1> QED  BY ONLY <1>1, <1>2, Zenon

(* Backwards: the first byte of a character, from where it led.               *)
LEMMA FirstBack ==
  ASSUME NEW c \in Byte
  PROVE  /\ Utf8Step(0, c) = 2 => c \in 194..223
         /\ Utf8Step(0, c) = 3 => c \in (225..239) \ {237}
         /\ Utf8Step(0, c) = 4 => c = 224
         /\ Utf8Step(0, c) = 5 => c = 237
<1>1. c \in Int /\ 0 <= c /\ c <= 255
  BY DEF Byte
<1> QED  BY <1>1, FirstStep, SMT

(* Backwards: the byte and the state before it, from where it led.            *)
LEMMA StepsBack ==
  ASSUME NEW s \in State, NEW c \in Byte
  PROVE  /\ Utf8Step(s, c) = 0 => (s = 0 /\ Char1(c)) \/ (s = 2 /\ Later(c))
         /\ Utf8Step(s, c) = 2 => \/ s = 0 /\ c \in 194..223
                                  \/ s \in 3..5 /\ Later(c) /\ (s = 4 => c >= 160) /\ (s = 5 => c <= 159)
         /\ Utf8Step(s, c) = 3 => \/ s = 0 /\ c \in (225..239) \ {237}
                                  \/ s \in 6..8 /\ Later(c) /\ (s = 6 => c >= 144) /\ (s = 8 => c <= 143)
         /\ Utf8Step(s, c) \in 4..8 =>
              /\ s = 0
              /\ Utf8Step(s, c) = 4 => c = 224
              /\ Utf8Step(s, c) = 5 => c = 237
              /\ Utf8Step(s, c) = 6 => c = 240
              /\ Utf8Step(s, c) = 7 => c \in 241..243
              /\ Utf8Step(s, c) = 8 => c = 244
<1>1. CASE s = 0
  <2>1. c \in Int /\ 0 <= c /\ c <= 255
    BY DEF Byte
  <2> QED  BY <1>1, <2>1, FirstStep, SMT DEF Char1
<1>2. CASE s \in 1..8
  BY <1>2, LaterStep, SMT DEF Later
<1> QED  BY <1>1, <1>2 DEF State

CharAt(str, n, k) == IsChar(SubSeq(str, n - k + 1, n))

(* A part of a string.                                                        *)
LEMMA Window ==
  ASSUME NEW str \in Seq(Byte), NEW m \in Nat, NEW n \in Nat, 1 <= m, m <= n, n <= Len(str)
  PROVE  /\ SubSeq(str, m, n) \in Seq(Byte)
         /\ Len(SubSeq(str, m, n)) = n - m + 1
         /\ \A i \in 1..(n - m + 1) : SubSeq(str, m, n)[i] = str[m + i - 1]
<1>1. \A i \in m..n : str[i] \in Byte
  OBVIOUS
<1>2. m \in Int /\ n \in Int
  OBVIOUS
<1> QED  BY <1>1, <1>2, SubSeqProperties, m <= n

(* The character of k bytes that ends at n.                                   *)
LEMMA CharAtIs ==
  ASSUME NEW str \in Seq(Byte), NEW n \in Nat, 1 <= n, n <= Len(str)
  PROVE  /\ CharAt(str, n, 1) <=> Char1(str[n])
         /\ n >= 2 => (CharAt(str, n, 2) <=> Char2(str[n-1], str[n]))
         /\ n >= 3 => (CharAt(str, n, 3) <=> Char3(str[n-2], str[n-1], str[n]))
         /\ n >= 4 => (CharAt(str, n, 4) <=> Char4(str[n-3], str[n-2], str[n-1], str[n]))
<1>1. ASSUME n >= 1 PROVE CharAt(str, n, 1) <=> Char1(str[n])
  <2>1. PICK m \in Nat : m = n - 1 + 1 /\ 1 <= m /\ m <= n
    BY <1>1
  <2>2. PICK s : s = SubSeq(str, m, n)
    BY Zenon
  <2>3. s \in Seq(Byte) /\ Len(s) = n - m + 1 /\ \A i \in 1..(n - m + 1) : s[i] = str[m + i - 1]
    BY ONLY <2>1, <2>2, n <= Len(str), Window, Zenon
  <2>4. Len(s) = 1 /\ s[1] = str[n]
    BY <2>1, <2>3
  <2>5. CharAt(str, n, 1) <=> IsChar(s)
    BY <2>1, <2>2 DEF CharAt
  <2> QED  BY ONLY <2>3, <2>4, <2>5, CharIs1, Zenon
<1>2. ASSUME n >= 2 PROVE CharAt(str, n, 2) <=> Char2(str[n-1], str[n])
  <2>1. PICK m \in Nat : m = n - 2 + 1 /\ 1 <= m /\ m <= n
    BY <1>2
  <2>2. PICK s : s = SubSeq(str, m, n)
    BY Zenon
  <2>3. s \in Seq(Byte) /\ Len(s) = n - m + 1 /\ \A i \in 1..(n - m + 1) : s[i] = str[m + i - 1]
    BY ONLY <2>1, <2>2, n <= Len(str), Window, Zenon
  <2>4. Len(s) = 2 /\ s[1] = str[n-1] /\ s[2] = str[n]
    BY <2>1, <2>3
  <2>5. CharAt(str, n, 2) <=> IsChar(s)
    BY <2>1, <2>2 DEF CharAt
  <2> QED  BY ONLY <2>3, <2>4, <2>5, CharIs2, Zenon
<1>3. ASSUME n >= 3 PROVE CharAt(str, n, 3) <=> Char3(str[n-2], str[n-1], str[n])
  <2>1. PICK m \in Nat : m = n - 3 + 1 /\ 1 <= m /\ m <= n
    BY <1>3
  <2>2. PICK s : s = SubSeq(str, m, n)
    BY Zenon
  <2>3. s \in Seq(Byte) /\ Len(s) = n - m + 1 /\ \A i \in 1..(n - m + 1) : s[i] = str[m + i - 1]
    BY ONLY <2>1, <2>2, n <= Len(str), Window, Zenon
  <2>4. Len(s) = 3 /\ s[1] = str[n-2] /\ s[2] = str[n-1] /\ s[3] = str[n]
    <3>1. /\ n - m + 1 = 3
          /\ 1 \in 1..(n - m + 1) /\ 2 \in 1..(n - m + 1) /\ 3 \in 1..(n - m + 1)
          /\ m + 1 - 1 = n-2 /\ m + 2 - 1 = n-1 /\ m + 3 - 1 = n
      BY ONLY <2>1, n \in Nat
    <3>2. s[1] = str[m + 1 - 1] /\ s[2] = str[m + 2 - 1] /\ s[3] = str[m + 3 - 1]
      BY ONLY <2>3, <3>1, Zenon
    <3> QED  BY ONLY <2>3, <3>1, <3>2, Zenon
  <2>5. CharAt(str, n, 3) <=> IsChar(s)
    BY <2>1, <2>2 DEF CharAt
  <2> QED  BY ONLY <2>3, <2>4, <2>5, CharIs3, Zenon
<1>4. ASSUME n >= 4 PROVE CharAt(str, n, 4) <=> Char4(str[n-3], str[n-2], str[n-1], str[n])
  <2>1. PICK m \in Nat : m = n - 4 + 1 /\ 1 <= m /\ m <= n
    BY <1>4
  <2>2. PICK s : s = SubSeq(str, m, n)
    BY Zenon
  <2>3. s \in Seq(Byte) /\ Len(s) = n - m + 1 /\ \A i \in 1..(n - m + 1) : s[i] = str[m + i - 1]
    BY ONLY <2>1, <2>2, n <= Len(str), Window, Zenon
  <2>4. Len(s) = 4 /\ s[1] = str[n-3] /\ s[2] = str[n-2] /\ s[3] = str[n-1] /\ s[4] = str[n]
    <3>1. /\ n - m + 1 = 4
          /\ 1 \in 1..(n - m + 1) /\ 2 \in 1..(n - m + 1) /\ 3 \in 1..(n - m + 1) /\ 4 \in 1..(n - m + 1)
          /\ m + 1 - 1 = n-3 /\ m + 2 - 1 = n-2 /\ m + 3 - 1 = n-1 /\ m + 4 - 1 = n
      BY ONLY <2>1, n \in Nat
    <3>2. s[1] = str[m + 1 - 1] /\ s[2] = str[m + 2 - 1] /\ s[3] = str[m + 3 - 1] /\ s[4] = str[m + 4 - 1]
      BY ONLY <2>3, <3>1, Zenon
    <3> QED  BY ONLY <2>3, <3>1, <3>2, Zenon
  <2>5. CharAt(str, n, 4) <=> IsChar(s)
    BY <2>1, <2>2 DEF CharAt
  <2> QED  BY ONLY <2>3, <2>4, <2>5, CharIs4, Zenon
<1> QED  BY <1>1, <1>2, <1>3, <1>4

(* If the validator accepts up to a character, it accepts the character.      *)
LEMMA CharForward ==
  ASSUME NEW str \in Seq(Byte), NEW g, IsRun(g, 0, str, Len(str)),
         NEW n \in Nat, n <= Len(str), NEW k \in 1..4, k <= n, CharAt(str, n, k), g[n-k] = 0
  PROVE  g[n] = 0
<1>0. Len(str) \in Nat /\ 1 <= n
  OBVIOUS
<1>1. \A i \in 1..Len(str) : str[i] \in Byte /\ g[i] = Utf8Step(g[i-1], str[i])
  BY DEF IsRun, Follows
<1>2. CASE k = 1
  BY <1>0, <1>1, <1>2, CharAtIs, Char1Steps
<1>3. CASE k = 2
  <2>1. n - 1 \in 1..Len(str) /\ n \in 1..Len(str) /\ (n-1) - 1 = n - 2
    BY <1>3
  <2>2. Char2(str[n-1], str[n])
    BY <1>0, <1>3, CharAtIs
  <2>3. g[n-1] = Utf8Step(0, str[n-1]) /\ g[n] = Utf8Step(g[n-1], str[n]) /\ str[n-1] \in Byte /\ str[n] \in Byte
    BY <1>1, <1>3, <2>1
  <2> QED  BY ONLY <2>2, <2>3, Char2Steps, Zenon
<1>4. CASE k = 3
  <2>1. /\ n - 2 \in 1..Len(str) /\ n - 1 \in 1..Len(str) /\ n \in 1..Len(str)
        /\ (n-2) - 1 = n - 3 /\ (n-1) - 1 = n - 2
    BY <1>4
  <2>2. Char3(str[n-2], str[n-1], str[n])
    BY <1>0, <1>4, CharAtIs
  <2>3. /\ g[n-2] = Utf8Step(0, str[n-2]) /\ g[n-1] = Utf8Step(g[n-2], str[n-1])
        /\ g[n] = Utf8Step(g[n-1], str[n])
        /\ str[n-2] \in Byte /\ str[n-1] \in Byte /\ str[n] \in Byte
    BY <1>1, <1>4, <2>1
  <2>4. Utf8Step(Utf8Step(Utf8Step(0, str[n-2]), str[n-1]), str[n]) = 0
    BY ONLY <2>2, <2>3, Char3Steps
  <2> QED  BY ONLY <2>3, <2>4, Zenon
<1>5. CASE k = 4
  <2>1. /\ n - 3 \in 1..Len(str) /\ n - 2 \in 1..Len(str) /\ n - 1 \in 1..Len(str) /\ n \in 1..Len(str)
        /\ (n-3) - 1 = n - 4 /\ (n-2) - 1 = n - 3 /\ (n-1) - 1 = n - 2
    BY <1>5
  <2>2. Char4(str[n-3], str[n-2], str[n-1], str[n])
    BY <1>0, <1>5, CharAtIs
  <2>3. /\ g[n-3] = Utf8Step(0, str[n-3]) /\ g[n-2] = Utf8Step(g[n-3], str[n-2])
        /\ g[n-1] = Utf8Step(g[n-2], str[n-1]) /\ g[n] = Utf8Step(g[n-1], str[n])
        /\ str[n-3] \in Byte /\ str[n-2] \in Byte /\ str[n-1] \in Byte /\ str[n] \in Byte
    BY <1>1, <1>5, <2>1
  <2>4. Utf8Step(Utf8Step(Utf8Step(Utf8Step(0, str[n-3]), str[n-2]), str[n-1]), str[n]) = 0
    BY ONLY <2>2, <2>3, Char4Steps
  <2> QED  BY ONLY <2>3, <2>4, Zenon
<1> QED  BY <1>2, <1>3, <1>4, <1>5

(* If the validator accepts up to n, a character ends there, and it accepts   *)
(* up to that character.                                                      *)
LEMMA CharBack ==
  ASSUME NEW str \in Seq(Byte), NEW g, IsRun(g, 0, str, Len(str)),
         NEW n \in Nat, 1 <= n, n <= Len(str), g[n] = 0
  PROVE  \E k \in 1..4 : k <= n /\ CharAt(str, n, k) /\ g[n-k] = 0
<1>0. Len(str) \in Nat
  OBVIOUS
<1>1. \A i \in 1..Len(str) : /\ str[i] \in Byte /\ g[i-1] \in State
                             /\ g[i] = Utf8Step(g[i-1], str[i])
                             /\ g[i-1] # 0 => i >= 2 /\ i - 1 \in 1..Len(str)
  <2>1. ASSUME NEW i \in 1..Len(str) PROVE str[i] \in Byte /\ g[i-1] \in State
    BY DEF IsRun
  <2>2. ASSUME NEW i \in 1..Len(str) PROVE g[i] = Utf8Step(g[i-1], str[i])
    BY DEF IsRun, Follows
  <2>3. ASSUME NEW i \in 1..Len(str), g[i-1] # 0 PROVE i >= 2 /\ i - 1 \in 1..Len(str)
    BY <2>3 DEF IsRun, Follows
  <2> QED  BY <2>1, <2>2, <2>3
<1>2. n \in 1..Len(str)
  OBVIOUS
<1>3. CASE g[n-1] = 0
  <2>1. Char1(str[n])
    BY <1>1, <1>2, <1>3, StepsBack
  <2> QED  BY <1>3, <2>1, CharAtIs
<1>4. CASE g[n-1] # 0
  <2>1. g[n-1] = 2 /\ Later(str[n])
    BY <1>1, <1>2, <1>4, StepsBack
  <2>2. n >= 2 /\ n - 1 \in 1..Len(str) /\ (n-1)-1 = n-2
    BY <1>1, <1>2, <1>4
  <2>3. CASE g[n-2] = 0
    <3>1. str[n-1] \in 194..223
      <4>1. str[n-1] \in Byte /\ g[n-2] \in State /\ Utf8Step(g[n-2], str[n-1]) = 2
        BY <1>1, <2>1, <2>2
      <4> QED  BY ONLY <2>3, <4>1, FirstBack
    <3>2. Char2(str[n-1], str[n])
      <4>1. ASSUME NEW a \in 194..223 PROVE Lead2(a) /\ a >= 194
        BY ONLY SMT DEF Lead2
      <4> QED  BY ONLY <2>1, <3>1, <4>1, Zenon DEF Char2
    <3> QED  BY <2>2, <2>3, <3>2, CharAtIs
  <2>4. CASE g[n-2] # 0
    <3>1. /\ g[n-2] \in 3..5 /\ Later(str[n-1])
          /\ (g[n-2] = 4 => str[n-1] >= 160) /\ (g[n-2] = 5 => str[n-1] <= 159)
      BY <1>1, <2>1, <2>2, <2>4, StepsBack
    <3>2. n >= 3 /\ n - 2 \in 1..Len(str) /\ (n-2)-1 = n-3
      BY <1>1, <2>2, <2>4
    <3>3. /\ str[n-2] \in Byte /\ g[n-3] \in State
          /\ g[n-2] = Utf8Step(g[n-3], str[n-2])
          /\ g[n-3] # 0 => n - 2 >= 2 /\ n - 3 \in 1..Len(str)
      BY <1>1, <3>2
    <3>4. CASE g[n-3] = 0
      <4>1. str[n-2] \in 224..239 /\ (str[n-2] = 224 => g[n-2] = 4) /\ (str[n-2] = 237 => g[n-2] = 5)
        <5>1. /\ g[n-2] = 3 => str[n-2] \in (225..239) \ {237}
              /\ g[n-2] = 4 => str[n-2] = 224
              /\ g[n-2] = 5 => str[n-2] = 237
          BY ONLY <3>3, <3>4, FirstBack
        <5>2. g[n-2] = 3 \/ g[n-2] = 4 \/ g[n-2] = 5
          BY ONLY <3>1
        <5>3. CASE g[n-2] = 3
          BY ONLY <5>1, <5>3
        <5>4. CASE g[n-2] = 4
          BY ONLY <5>1, <5>4
        <5>5. CASE g[n-2] = 5
          BY ONLY <5>1, <5>5
        <5> QED  BY ONLY <5>2, <5>3, <5>4, <5>5
      <4>2. Char3(str[n-2], str[n-1], str[n])
        BY <2>1, <3>1, <4>1 DEF Char3, Second3
      <4> QED  BY <3>2, <3>4, <4>2, CharAtIs
    <3>5. CASE g[n-3] # 0
      <4>1. /\ g[n-2] = 3 /\ g[n-3] \in 6..8 /\ Later(str[n-2])
            /\ (g[n-3] = 6 => str[n-2] >= 144) /\ (g[n-3] = 8 => str[n-2] <= 143)
        BY ONLY <3>1, <3>3, <3>5, StepsBack
      <4>2. n >= 4 /\ n - 3 \in 1..Len(str) /\ (n-3)-1 = n-4
        BY <3>2, <3>3, <3>5
      <4>3. /\ str[n-3] \in Byte /\ g[n-4] \in State
            /\ g[n-3] = Utf8Step(g[n-4], str[n-3])
        BY <1>1, <4>2
      <4>4. /\ g[n-4] = 0 /\ str[n-3] \in 240..247
            /\ str[n-3] <= 244 /\ (str[n-3] = 240 => g[n-3] = 6) /\ (str[n-3] = 244 => g[n-3] = 8)
        BY ONLY <4>1, <4>3, StepsBack
      <4>5. Char4(str[n-3], str[n-2], str[n-1], str[n])
        BY ONLY <2>1, <3>1, <4>1, <4>4 DEF Char4, Second4
      <4> QED  BY <4>2, <4>4, <4>5, CharAtIs
    <3> QED  BY <3>4, <3>5
  <2> QED  BY <2>3, <2>4
<1> QED  BY <1>3, <1>4

CharEnds(g, str, n) == n = 0 \/ \E k \in 1..4 : k <= n /\ CharAt(str, n, k) /\ g[n-k]

(* The function that WellFormedUpTo chooses exists.                           *)
LEMMA UpToExists ==
  ASSUME NEW str, NEW N \in Nat
  PROVE  \E g : g = [n \in 0..N |-> CharEnds(g, str, n)]
<1> DEFINE S == {n \in Nat : \E g : g = [i \in 0..n |-> CharEnds(g, str, i)]}
<1>1. ASSUME NEW n \in Nat, \A m \in Nat : m < n => m \in S
      PROVE  n \in S
  <2>1. CASE n = 0
    <3> DEFINE g == [i \in 0..0 |-> TRUE]
    <3>1. CharEnds(g, str, 0) = TRUE
      BY Zenon DEF CharEnds
    <3>2. g = [i \in 0..0 |-> CharEnds(g, str, i)]
      <4>1. \A i \in 0..0 : i = 0
        OBVIOUS
      <4> QED  BY <3>1, <4>1, Zenon
    <3> HIDE DEF g
    <3> QED  BY <2>1, <3>2
  <2>2. CASE n > 0
    <3>1. n - 1 \in S
      <4> HIDE DEF S
      <4> QED  BY <1>1, <2>2
    <3>2. PICK g : g = [i \in 0..(n-1) |-> CharEnds(g, str, i)]
      <4> QED  BY <3>1, Zenon
    <3> DEFINE h == [i \in 0..n |-> IF i = n THEN CharEnds(g, str, n) ELSE g[i]]
    <3>3. ASSUME NEW i \in 0..n PROVE CharEnds(h, str, i) = CharEnds(g, str, i)
      <4>1. ASSUME NEW k \in 1..4, k <= i PROVE h[i-k] = g[i-k]
        <5>1. i - k \in 0..n /\ i - k # n
          BY <4>1
        <5> QED  BY <5>1
      <4> HIDE DEF h
      <4> QED  BY <4>1, Zenon DEF CharEnds
    <3>4. ASSUME NEW i \in 0..n PROVE h[i] = CharEnds(g, str, i)
      <4>1. CASE i = n
        BY <4>1
      <4>2. CASE i # n
        <5>1. i \in 0..(n-1) /\ h[i] = g[i]
          BY <4>2
        <5> QED  BY <5>1, <3>2
      <4> QED  BY <4>1, <4>2
    <3>5. h = [i \in 0..n |-> CharEnds(h, str, i)]
      <4>1. h = [i \in 0..n |-> h[i]]
        OBVIOUS
      <4> HIDE DEF h
      <4> QED  BY <4>1, <3>3, <3>4
    <3> HIDE DEF h
    <3> QED  BY <3>5
  <2> QED  BY <2>1, <2>2
<1>2. \A n \in Nat : n \in S
  <2> HIDE DEF S
  <2> QED  BY <1>1, Induction
<1> QED  BY <1>2

UpTo(str) == WellFormedUpTo(str)

(* WellFormedUpTo: a character ends at n, and what is before it is well formed. *)
LEMMA UpToIs ==
  ASSUME NEW str \in Seq(Byte), NEW n \in 0..Len(str)
  PROVE  UpTo(str)[n] = CharEnds(UpTo(str), str, n)
<1> DEFINE F(g) == [i \in 0..Len(str) |-> CharEnds(g, str, i)]
           h == UpTo(str)
<1>1. \E g : g = F(g)
  <2>1. Len(str) \in Nat
    OBVIOUS
  <2> QED  BY ONLY <2>1, UpToExists, Zenon
<1>2. h = CHOOSE g : g = F(g)
  BY DEF UpTo, WellFormedUpTo, CharAt, CharEnds
<1>3. h = F(h)
  <2> HIDE DEF F, h
  <2> QED  BY <1>1, <1>2, Zenon
<1> HIDE DEF h
<1>4. h[n] = CharEnds(h, str, n)
  BY <1>3
<1> QED  BY <1>4 DEF h

(* ValidateUtf8 accepts what RFC 3629 calls UTF-8, by induction over the bytes. *)
LEMMA AcceptIsWellFormed ==
  ASSUME NEW str \in Seq(Byte)
  PROVE  WellFormed(str) <=> ValidateUtf8(0, str) = 0
<1> DEFINE g == Run(0, str)
           u == UpTo(str)
           N == Len(str)
           S == {n \in Nat : n <= N => (u[n] <=> g[n] = 0)}
<1>0. N \in Nat
  OBVIOUS
<1>1. IsRun(g, 0, str, N) /\ \A n \in 0..N : u[n] = CharEnds(u, str, n)
  BY RunIs, UpToIs DEF State
<1>Q. WellFormed(str) = u[N] /\ ValidateUtf8(0, str) = g[N]
  BY DEF UpTo, Run, WellFormed, ValidateUtf8
<1> HIDE DEF g, u
<1>2. ASSUME NEW n \in Nat, \A m \in Nat : m < n => m \in S, n <= N
      PROVE  u[n] <=> g[n] = 0
  <2>1. CASE n = 0
    <3>1. g[0] = 0 /\ u[0] = CharEnds(u, str, 0)
      BY <1>0, <1>1 DEF IsRun, Follows
    <3> QED  BY <2>1, <3>1, Zenon DEF CharEnds
  <2>2. CASE n >= 1
    <3>1. \A k \in 1..4 : k <= n => (u[n-k] <=> g[n-k] = 0)
      <4>1. ASSUME NEW k \in 1..4, k <= n PROVE u[n-k] <=> g[n-k] = 0
        <5>1. n - k \in Nat /\ n - k < n /\ n - k <= N
          BY <4>1, <1>2, <1>0
        <5> QED  BY <5>1, <1>2
      <4> QED  BY <4>1
    <3>2. u[n] <=> \E k \in 1..4 : k <= n /\ CharAt(str, n, k) /\ u[n-k]
      <4>1. n \in 0..N /\ n # 0
        BY <1>0, <1>2, <2>2
      <4>2. u[n] = CharEnds(u, str, n)
        BY <1>1, <4>1
      <4> QED  BY ONLY <4>1, <4>2, Zenon DEF CharEnds
    <3>3. ASSUME u[n] PROVE g[n] = 0
      <4>1. PICK k \in 1..4 : k <= n /\ CharAt(str, n, k) /\ u[n-k]
        BY <3>2, <3>3
      <4>2. g[n-k] = 0
        BY <3>1, <4>1
      <4> QED  BY <1>1, <1>2, <4>1, <4>2, CharForward
    <3>4. ASSUME g[n] = 0 PROVE u[n]
      <4>1. PICK k \in 1..4 : k <= n /\ CharAt(str, n, k) /\ g[n-k] = 0
        BY <1>1, <1>2, <2>2, <3>4, CharBack
      <4> QED  BY <3>1, <3>2, <4>1
    <3> QED  BY <3>3, <3>4
  <2> QED  BY <2>1, <2>2
<1>3. \A n \in Nat : n \in S
  <2>1. \A n \in Nat : (\A m \in Nat : m < n => m \in S) => n \in S
    BY <1>2
  <2> HIDE DEF S
  <2> QED  BY <2>1, Induction
<1> QED  BY <1>0, <1>3, <1>Q

(* A message cut into two chunks.                                             *)
LEMMA ValidateConcat ==
  ASSUME NEW s \in State, NEW a \in Seq(Byte), NEW b \in Seq(Byte)
  PROVE  /\ ValidateUtf8(s, a) \in State
         /\ ValidateUtf8(ValidateUtf8(s, a), b) = ValidateUtf8(s, a \o b)
<1>1. Len(a \o b) = Len(a) + Len(b) /\ Len(a) \in Nat /\ Len(b) \in Nat /\ Len(b) \in 0..Len(b)
  OBVIOUS
<1>2. Run(s, a)[Len(a)] \in State
  BY <1>1, RunIs DEF IsRun
<1>3. Run(s, a \o b)[Len(a) + Len(b)] = Run(Run(s, a)[Len(a)], b)[Len(b)]
  BY <1>1, RunConcat
<1> QED  BY <1>1, <1>2, <1>3 DEF Run, ValidateUtf8

(* No byte leaves REJECT.                                                     *)
LEMMA RejectStays ==
  ASSUME NEW str \in Seq(Byte)
  PROVE  ValidateUtf8(1, str) = 1
<1> DEFINE g == Run(1, str)
           h == [i \in 0..Len(str) |-> 1]
<1>1. Len(str) \in Nat /\ 1 \in State
  BY DEF State
<1>2. Follows(g, 1, str, Len(str))
  BY <1>1, RunIs DEF IsRun
<1>3. Follows(h, 1, str, Len(str))
  <2>1. \A i \in 1..Len(str) : h[i] = 1 /\ h[i-1] = 1
    OBVIOUS
  <2>2. \A i \in 1..Len(str) : Utf8Step(1, str[i]) = 1
    <3>1. \A i \in 1..Len(str) : str[i] \in Byte
      OBVIOUS
    <3> QED  BY <3>1, LaterStep
  <2>3. h[0] = 1
    BY <1>1
  <2> HIDE DEF h
  <2> QED  BY <2>1, <2>2, <2>3 DEF Follows
<1>4. \A i \in 0..Len(str) : g[i] = h[i]
  <2> HIDE DEF g, h
  <2> QED  BY <1>1, <1>2, <1>3, RunUnique
<1>5. g[Len(str)] = 1
  BY <1>1, <1>4
<1> QED  BY <1>5 DEF Run, ValidateUtf8

(* One more byte.                                                             *)
LEMMA ValidateAppend ==
  ASSUME NEW s \in State, NEW a \in Seq(Byte), NEW c \in Byte
  PROVE  ValidateUtf8(s, Append(a, c)) = Utf8Step(ValidateUtf8(s, a), c)
<1>0. PICK b : b = <<c>>
  BY Zenon
<1>1. b \in Seq(Byte) /\ Len(b) = 1 /\ b[1] = c /\ Append(a, c) = a \o b
  BY <1>0
<1>2. PICK t : t = ValidateUtf8(s, a)
  OBVIOUS
<1>3. t \in State /\ ValidateUtf8(s, a \o b) = ValidateUtf8(t, b)
  BY ONLY <1>1, <1>2, ValidateConcat
<1>4. IsRun(Run(t, b), t, b, Len(b))
  BY ONLY <1>1, <1>3, RunIs, Zenon
<1>5. Run(t, b)[1] = Utf8Step(t, c)
  BY ONLY <1>1, <1>4 DEF IsRun, Follows
<1> QED  BY ONLY <1>1, <1>2, <1>3, <1>5, Zenon DEF Run, ValidateUtf8

(* No byte.                                                                   *)
LEMMA ValidateEmpty ==
  ASSUME NEW s \in State
  PROVE  ValidateUtf8(s, <<>>) = s
<1>0. PICK p : p = <<>>
  BY Zenon
<1>1. p \in Seq(Byte) /\ p = <<>> /\ Len(p) = 0
  BY <1>0
<1>2. IsRun(Run(s, p), s, p, Len(p))
  BY ONLY <1>1, RunIs, Zenon
<1>3. Run(s, p)[0] = s
  BY ONLY <1>1, <1>2 DEF IsRun, Follows
<1> QED  BY ONLY <1>1, <1>3, Zenon DEF Run, ValidateUtf8

(* At most three bytes.                                                       *)
LEMMA ValidateShort ==
  ASSUME NEW s \in State, NEW a \in Byte, NEW b \in Byte, NEW c \in Byte
  PROVE  /\ ValidateUtf8(s, <<>>) = s
         /\ ValidateUtf8(s, <<a>>) = Utf8Step(s, a)
         /\ ValidateUtf8(s, <<a, b>>) = Utf8Step(Utf8Step(s, a), b)
         /\ ValidateUtf8(s, <<a, b, c>>) = Utf8Step(Utf8Step(Utf8Step(s, a), b), c)
<1>p. PICK p : p = <<>>
  BY Zenon
<1>q. PICK q : q = <<a>>
  BY Zenon
<1>r. PICK r : r = <<a, b>>
  BY Zenon
<1>t. PICK t : t = <<a, b, c>>
  BY Zenon
<1>5. p = <<>> /\ q = <<a>> /\ r = <<a, b>> /\ t = <<a, b, c>>
  BY <1>p, <1>q, <1>r, <1>t
<1>6. p \in Seq(Byte) /\ q = Append(p, a)
  BY ONLY <1>5
<1>7. q \in Seq(Byte) /\ r = Append(q, b)
  BY ONLY <1>5
<1>8. r \in Seq(Byte) /\ t = Append(r, c)
  BY ONLY <1>5
<1>9. ValidateUtf8(s, p) = s
  BY ONLY <1>5, ValidateEmpty
<1>10. ValidateUtf8(s, q) = Utf8Step(s, a)
  BY ONLY <1>6, <1>9, ValidateAppend
<1>11. ValidateUtf8(s, r) = Utf8Step(Utf8Step(s, a), b)
  BY ONLY <1>7, <1>10, ValidateAppend
<1>12. ValidateUtf8(s, t) = Utf8Step(Utf8Step(Utf8Step(s, a), b), c)
  BY ONLY <1>8, <1>11, ValidateAppend
<1> QED  BY ONLY <1>5, <1>9, <1>10, <1>11, <1>12, Zenon

(* Whatever state but REJECT the validator is in, at most three bytes lead to *)
(* ACCEPT.                                                                    *)
LEMMA Completion ==
  ASSUME NEW s \in State, s # 1
  PROVE  \E rest \in Completions : ValidateUtf8(s, rest) = 0
<1> DEFINE Good(a, b, c) ==
      \/ s = 0
      \/ Utf8Step(s, a) = 0
      \/ Utf8Step(Utf8Step(s, a), b) = 0
      \/ Utf8Step(Utf8Step(Utf8Step(s, a), b), c) = 0
<1>1. \E a \in {128, 191} : Good(a, 128, 128)
  <2>1. 128 \in Byte /\ 191 \in Byte
    BY DEF Byte
  <2>2. Utf8Step(2, 128) = 0 /\ Utf8Step(3, 128) = 2
    BY <2>1, LaterStep
  <2>3. /\ s = 2 => Utf8Step(s, 128) = 0
        /\ s = 3 => Utf8Step(s, 128) = 2
        /\ s = 4 => Utf8Step(s, 191) = 2
        /\ s = 5 => Utf8Step(s, 128) = 2
        /\ s = 6 => Utf8Step(s, 191) = 3
        /\ s = 7 => Utf8Step(s, 128) = 3
        /\ s = 8 => Utf8Step(s, 128) = 3
    BY <2>1, LaterStep
  <2> QED  BY <2>2, <2>3 DEF State
<1>2. PICK a \in {128, 191} : Good(a, 128, 128)
  BY <1>1
<1>3. PICK b \in {128, 191}, c \in {128, 191} : b = 128 /\ c = 128
  OBVIOUS
<1>4. a \in Byte /\ b \in Byte /\ c \in Byte
  BY DEF Byte
<1>5. /\ ValidateUtf8(s, <<>>) = s
      /\ ValidateUtf8(s, <<a>>) = Utf8Step(s, a)
      /\ ValidateUtf8(s, <<a, b>>) = Utf8Step(Utf8Step(s, a), b)
      /\ ValidateUtf8(s, <<a, b, c>>) = Utf8Step(Utf8Step(Utf8Step(s, a), b), c)
  BY ONLY <1>4, ValidateShort
<1>6. /\ <<>> \in Completions /\ <<a>> \in Completions
      /\ <<a, b>> \in Completions /\ <<a, b, c>> \in Completions
  <2> DEFINE E == {128, 191}
  <2>1. a \in E /\ b \in E /\ c \in E
    OBVIOUS
  <2> HIDE DEF E
  <2>2. <<>> \in [1..0 -> E]
    OBVIOUS
  <2>3. <<a>> \in [1..1 -> E]
    BY ONLY <2>1
  <2>4. <<a, b>> \in [1..2 -> E]
    BY ONLY <2>1
  <2>5. <<a, b, c>> \in [1..3 -> E]
    BY ONLY <2>1
  <2> QED  BY ONLY <2>2, <2>3, <2>4, <2>5 DEF Completions, E
<1> QED  BY <1>2, <1>3, <1>5, <1>6

(* ValidateUtf8 rejects what nothing completes.                               *)
LEMMA RejectIsHopeless ==
  ASSUME NEW str \in Seq(Byte)
  PROVE  ValidateUtf8(0, str) = 1
           <=> \A rest \in Completions : ~WellFormed(str \o rest)
<1>0. 0 \in State /\ <<>> \in Seq(Byte)
  BY DEF State
<1>1. ValidateUtf8(0, str) \in State
  BY <1>0, ValidateConcat
<1>2. ASSUME NEW rest \in Completions
      PROVE  /\ rest \in Seq(Byte)
             /\ WellFormed(str \o rest)
                  <=> ValidateUtf8(ValidateUtf8(0, str), rest) = 0
  <2>1. PICK n \in 0..3 : rest \in [1..n -> {128, 191}]
    BY DEF Completions
  <2>2. n \in Nat /\ rest \in [1..n -> Byte]
    BY <2>1 DEF Byte
  <2>3. rest \in Seq(Byte)
    BY <2>2, SeqDef
  <2>4. str \o rest \in Seq(Byte)
    BY <2>3
  <2>5. WellFormed(str \o rest) <=> ValidateUtf8(0, str \o rest) = 0
    BY ONLY <2>4, AcceptIsWellFormed, Zenon
  <2>6. ValidateUtf8(ValidateUtf8(0, str), rest) = ValidateUtf8(0, str \o rest)
    BY ONLY <1>0, <2>3, ValidateConcat
  <2> QED  BY ONLY <2>3, <2>5, <2>6, Zenon
<1>3. ValidateUtf8(0, str) = 1 => \A rest \in Completions : ~WellFormed(str \o rest)
  BY <1>2, RejectStays
<1>4. ValidateUtf8(0, str) # 1 => \E rest \in Completions : WellFormed(str \o rest)
  BY <1>1, <1>2, Completion
<1> QED  BY <1>3, <1>4

(* For every string of bytes: ValidateUtf8, from ACCEPT, ends in ACCEPT       *)
(* exactly when the string is UTF-8 as RFC 3629 defines it, and in REJECT     *)
(* exactly when no continuation makes it so.                                  *)
THEOREM Utf8Correct ==
  ASSUME NEW str \in Seq(Byte)
  PROVE  /\ ValidateUtf8(WS_UTF8_ACCEPT, str) = WS_UTF8_ACCEPT
              <=> WellFormed(str)
         /\ ValidateUtf8(WS_UTF8_ACCEPT, str) = WS_UTF8_REJECT
              <=> \A rest \in Completions : ~WellFormed(str \o rest)
BY AcceptIsWellFormed, RejectIsHopeless DEF WS_UTF8_ACCEPT, WS_UTF8_REJECT

(* The inductive invariant of the payload: utf8State_ is what ValidateUtf8    *)
(* would say of all that arrived, had it arrived at once.                     *)
TextInv == text \in Seq(Byte) /\ utf8State = ValidateUtf8(0, text)

(* A chunk is a sequence of bytes. *)
LEMMA BytesAreSeq == ASSUME NEW n \in Nat, NEW f \in [1..n -> Byte] PROVE f \in Seq(Byte)
OBVIOUS

(* Every chunk preserves it. *)
LEMMA TextInductive ==
  ASSUME Bytes \subseteq Byte, MaxChunk \in Nat, TextInv, [TextNext]_textVars
  PROVE  TextInv'
<1>1. CASE UNCHANGED textVars
  BY <1>1 DEF TextInv, textVars
<1>2. CASE TextNext
  <2>1. PICK n \in 1..MaxChunk : \E chunk \in [1..n -> Bytes] : ReceiveText(chunk)
    BY <1>2 DEF TextNext
  <2>2. PICK chunk \in [1..n -> Bytes] : ReceiveText(chunk)
    BY <2>1
  <2>3. n \in Nat /\ chunk \in [1..n -> Byte]
    BY ONLY Bytes \subseteq Byte, MaxChunk \in Nat, n \in 1..MaxChunk, chunk \in [1..n -> Bytes]
  <2>4. chunk \in Seq(Byte)
    BY ONLY <2>3, BytesAreSeq
  <2>5. text' = text \o chunk /\ utf8State' = ValidateUtf8(utf8State, chunk)
    BY <2>2 DEF ReceiveText
  <2>6. 0 \in State /\ text \in Seq(Byte) /\ utf8State = ValidateUtf8(0, text)
    BY DEF State, TextInv
  <2>7. text \o chunk \in Seq(Byte)
    BY ONLY <2>4, <2>6
  <2> QED  BY ONLY <2>4, <2>5, <2>6, <2>7, ValidateConcat DEF TextInv
<1> QED  BY <1>1, <1>2

(* However a message is cut into chunks, utf8State_ is ACCEPT exactly when    *)
(* what has arrived is UTF-8, and REJECT exactly when nothing can complete    *)
(* it.                                                                        *)
THEOREM Utf8Validated ==
  ASSUME Bytes \subseteq Byte, MaxChunk \in Nat
  PROVE  TextSpec => []Utf8Agrees
<1>1. TextInit => TextInv
  BY ValidateEmpty DEF TextInit, WS_UTF8_ACCEPT, TextInv, State
<1>2. TextInv /\ [TextNext]_textVars => TextInv'
  BY TextInductive
<1>3. TextInv => Utf8Agrees
  BY Utf8Correct DEF TextInv, Utf8Agrees, WS_UTF8_ACCEPT
<1> QED  BY <1>1, <1>2, <1>3, PTL DEF TextSpec

-------------------------------------------------------------------------------
(* Base64: EncodeBase64 and DecodeBase64 (base64.cpp), and then the run that  *)
(* encodes what has arrived.                                                  *)

(* Six bits. *)
Sextet == 0..63
(* The character that base64_chars has for six bits. *)
Letter(x) == base64_chars[x]

(* The alphabet of base64.cpp, as one case distinction. *)
LEMMA LetterIs ==
  ASSUME NEW x \in Sextet
  PROVE  Letter(x) = IF x < 26 THEN 65 + x ELSE IF x < 52 THEN 71 + x ELSE IF x < 62 THEN x - 4
                     ELSE IF x = 62 THEN 43 ELSE 47
<1>1. Letter(x) = CASE x < 26 -> 65 + x [] x \in 26..51 -> 71 + x [] x \in 52..61 -> x - 4
                     [] x = 62 -> 43     [] x = 63 -> 47
  BY Zenon DEF Letter, Sextet, base64_chars
<1>2. CASE x < 26
  BY <1>1, <1>2 DEF Sextet
<1>3. CASE x \in 26..51
  BY <1>1, <1>3 DEF Sextet
<1>4. CASE x \in 52..61
  BY <1>1, <1>4 DEF Sextet
<1>5. CASE x = 62
  BY <1>1, <1>5 DEF Sextet
<1>6. CASE x = 63
  BY <1>1, <1>6 DEF Sextet
<1> QED  BY <1>2, <1>3, <1>4, <1>5, <1>6 DEF Sextet

(* No two sextets have the same character, *)
LEMMA LettersDiffer ==
  ASSUME NEW x \in Sextet, NEW y \in Sextet, Letter(x) = Letter(y)
  PROVE  x = y
BY LetterIs DEF Sextet

(* none has '=', *)
LEMMA LetterNotEquals == ASSUME NEW x \in Sextet PROVE Letter(x) # 61
BY LetterIs DEF Sextet

(* and Find, the find() of DecodeBase64, gets the sextet back. *)
LEMMA FindLetter == ASSUME NEW x \in Sextet PROVE Find(Letter(x)) = x
<1>1. \E i \in 0..63 : base64_chars[i] = Letter(x)
  BY Zenon DEF Letter, Sextet
<1>2. PICK y : y = CHOOSE i \in 0..63 : base64_chars[i] = Letter(x)
  BY Zenon
<1>3. y \in Sextet /\ Letter(y) = Letter(x)
  BY <1>1, <1>2, Zenon DEF Letter, Sextet
<1>4. Find(Letter(x)) = y
  BY <1>1, <1>2, Zenon DEF Find
<1> QED  BY ONLY <1>3, <1>4, LettersDiffer, x \in Sextet, Zenon

(* The four sextets, r = 0..3, that EncodeBase64 makes of three bytes. *)
Six(a, b, c, r) ==
  IF r = 0 THEN a \div 4
  ELSE IF r = 1 THEN 16 * (a % 4) + (b \div 16)
  ELSE IF r = 2 THEN 4 * (b % 16) + (c \div 64)
  ELSE c % 64

(* The same, written out. *)
LEMMA SixIs ==
  ASSUME NEW a \in Byte, NEW b \in Byte, NEW c \in Byte
  PROVE  /\ Six(a, b, c, 0) = a \div 4 /\ Six(a, b, c, 0) \in Sextet
         /\ Six(a, b, c, 1) = 16 * (a % 4) + (b \div 16) /\ Six(a, b, c, 1) \in Sextet
         /\ Six(a, b, c, 2) = 4 * (b % 16) + (c \div 64) /\ Six(a, b, c, 2) \in Sextet
         /\ Six(a, b, c, 3) = c % 64 /\ Six(a, b, c, 3) \in Sextet
<1>1. Six(a, b, c, 0) = a \div 4 /\ a \div 4 \in Sextet
  BY DEF Six, Byte, Sextet
<1>2. Six(a, b, c, 1) = 16 * (a % 4) + (b \div 16) /\ 16 * (a % 4) + (b \div 16) \in Sextet
  BY DEF Six, Byte, Sextet
<1>3. Six(a, b, c, 2) = 4 * (b % 16) + (c \div 64) /\ 4 * (b % 16) + (c \div 64) \in Sextet
  BY DEF Six, Byte, Sextet
<1>4. Six(a, b, c, 3) = c % 64 /\ c % 64 \in Sextet
  BY DEF Six, Byte, Sextet
<1> QED  BY ONLY <1>1, <1>2, <1>3, <1>4

(* They are six bits each. *)
LEMMA SixSextet ==
  ASSUME NEW a \in Byte, NEW b \in Byte, NEW c \in Byte, NEW r \in 0..3
  PROVE  Six(a, b, c, r) \in Sextet
<1>1. r = 0 \/ r = 1 \/ r = 2 \/ r = 3
  OBVIOUS
<1> QED  BY ONLY <1>1, SixIs, a \in Byte, b \in Byte, c \in Byte, Zenon

(* The shifts of DecodeBase64 undo those of EncodeBase64. *)
LEMMA SixBack ==
  ASSUME NEW a \in Byte, NEW b \in Byte, NEW c \in Byte
  PROVE  /\ (Six(a, b, c, 0) * 4 + (Six(a, b, c, 1) \div 16)) % 256 = a
         /\ (Six(a, b, c, 1) * 16 + (Six(a, b, c, 2) \div 4)) % 256 = b
         /\ (Six(a, b, c, 2) * 64 + Six(a, b, c, 3)) % 256 = c
<1>1. ((a \div 4) * 4 + ((16 * (a % 4) + (b \div 16)) \div 16)) % 256 = a
  BY DEF Byte
<1>2. ((16 * (a % 4) + (b \div 16)) * 16 + ((4 * (b % 16) + (c \div 64)) \div 4)) % 256 = b
  BY DEF Byte
<1>3. ((4 * (b % 16) + (c \div 64)) * 64 + (c % 64)) % 256 = c
  BY DEF Byte
<1> QED  BY ONLY <1>1, <1>2, <1>3, SixIs, a \in Byte, b \in Byte, c \in Byte

(* One of three bytes. *)
Nth(a, b, c, i) == IF i = 0 THEN a ELSE IF i = 1 THEN b ELSE c
(* A power of 2, by position. *)
Power(i) == PowersOf2[i]

(* Their values. *)
LEMMA PowerIs ==
  /\ Power(1) = 1 /\ Power(2) = 2 /\ Power(3) = 4 /\ Power(4) = 8
  /\ Power(5) = 16 /\ Power(6) = 32 /\ Power(7) = 64 /\ Power(8) = 128
BY DEF Power, PowersOf2


(* The u-th bit, from the left, of the r-th sextet of three bytes, *)
SixBit(a, b, c, r, u) == (Six(a, b, c, r) \div Power(6 - u)) % 2
(* and the t-th bit of the three bytes. *)
ByteBit(a, b, c, t) == (Nth(a, b, c, t \div 8) \div Power(8 - (t % 8))) % 2

(* The bits of the first sextet are the first six of the three bytes, *)
LEMMA Bits0 ==
  ASSUME NEW a \in Byte, NEW b \in Byte, NEW c \in Byte, NEW u \in 0..5
  PROVE  SixBit(a, b, c, 0, u) = ByteBit(a, b, c, u)
<1>1. /\ ((a \div 4) \div 32) % 2 = (a \div 128) % 2
      /\ ((a \div 4) \div 16) % 2 = (a \div 64) % 2
      /\ ((a \div 4) \div 8) % 2 = (a \div 32) % 2
      /\ ((a \div 4) \div 4) % 2 = (a \div 16) % 2
      /\ ((a \div 4) \div 2) % 2 = (a \div 8) % 2
      /\ ((a \div 4) \div 1) % 2 = (a \div 4) % 2
  BY DEF Byte
<1>2. u = 0 \/ u = 1 \/ u = 2 \/ u = 3 \/ u = 4 \/ u = 5
  OBVIOUS
<1> QED  BY <1>1, <1>2, PowerIs DEF SixBit, ByteBit, Nth, Six

(* those of the second the next six, *)
LEMMA Bits1 ==
  ASSUME NEW a \in Byte, NEW b \in Byte, NEW c \in Byte, NEW u \in 0..5
  PROVE  SixBit(a, b, c, 1, u) = ByteBit(a, b, c, 6 + u)
<1>1. /\ ((16 * (a % 4) + (b \div 16)) \div 32) % 2 = (a \div 2) % 2
      /\ ((16 * (a % 4) + (b \div 16)) \div 16) % 2 = (a \div 1) % 2
      /\ ((16 * (a % 4) + (b \div 16)) \div 8) % 2 = (b \div 128) % 2
      /\ ((16 * (a % 4) + (b \div 16)) \div 4) % 2 = (b \div 64) % 2
      /\ ((16 * (a % 4) + (b \div 16)) \div 2) % 2 = (b \div 32) % 2
      /\ ((16 * (a % 4) + (b \div 16)) \div 1) % 2 = (b \div 16) % 2
  BY SMTT(30) DEF Byte
<1>2. u = 0 \/ u = 1 \/ u = 2 \/ u = 3 \/ u = 4 \/ u = 5
  OBVIOUS
<1> QED  BY <1>1, <1>2, PowerIs DEF SixBit, ByteBit, Nth, Six

(* and so on for the third *)
LEMMA Bits2 ==
  ASSUME NEW a \in Byte, NEW b \in Byte, NEW c \in Byte, NEW u \in 0..5
  PROVE  SixBit(a, b, c, 2, u) = ByteBit(a, b, c, 12 + u)
<1>1. /\ ((4 * (b % 16) + (c \div 64)) \div 32) % 2 = (b \div 8) % 2
      /\ ((4 * (b % 16) + (c \div 64)) \div 16) % 2 = (b \div 4) % 2
      /\ ((4 * (b % 16) + (c \div 64)) \div 8) % 2 = (b \div 2) % 2
      /\ ((4 * (b % 16) + (c \div 64)) \div 4) % 2 = (b \div 1) % 2
      /\ ((4 * (b % 16) + (c \div 64)) \div 2) % 2 = (c \div 128) % 2
      /\ ((4 * (b % 16) + (c \div 64)) \div 1) % 2 = (c \div 64) % 2
  <2>1. PICK x : x = b % 16
    BY Zenon
  <2>2. PICK y : y = c \div 64
    BY Zenon
  <2>3. x \in 0..15 /\ y \in 0..3
    BY <2>1, <2>2 DEF Byte
  <2>4. (b \div 8) % 2 = x \div 8 /\ (b \div 4) % 2 = (x \div 4) % 2 /\ (b \div 2) % 2 = (x \div 2) % 2
        /\ (b \div 1) % 2 = x % 2
    BY <2>1 DEF Byte
  <2>5. (c \div 128) % 2 = y \div 2 /\ (c \div 64) % 2 = y % 2
    BY <2>2 DEF Byte
  <2>6. /\ ((4 * x + y) \div 32) % 2 = x \div 8
        /\ ((4 * x + y) \div 16) % 2 = (x \div 4) % 2
        /\ ((4 * x + y) \div 8) % 2 = (x \div 2) % 2
    BY ONLY <2>3
  <2>7. /\ ((4 * x + y) \div 4) % 2 = x % 2
        /\ ((4 * x + y) \div 2) % 2 = y \div 2
        /\ ((4 * x + y) \div 1) % 2 = y % 2
    BY ONLY <2>3
  <2> QED  BY ONLY <2>1, <2>2, <2>4, <2>5, <2>6, <2>7
<1>2. u = 0 \/ u = 1 \/ u = 2 \/ u = 3 \/ u = 4 \/ u = 5
  OBVIOUS
<1> QED  BY <1>1, <1>2, PowerIs DEF SixBit, ByteBit, Nth, Six

(* and the fourth. *)
LEMMA Bits3 ==
  ASSUME NEW a \in Byte, NEW b \in Byte, NEW c \in Byte, NEW u \in 0..5
  PROVE  SixBit(a, b, c, 3, u) = ByteBit(a, b, c, 18 + u)
<1>1. /\ ((c % 64) \div 32) % 2 = (c \div 32) % 2
      /\ ((c % 64) \div 16) % 2 = (c \div 16) % 2
      /\ ((c % 64) \div 8) % 2 = (c \div 8) % 2
      /\ ((c % 64) \div 4) % 2 = (c \div 4) % 2
      /\ ((c % 64) \div 2) % 2 = (c \div 2) % 2
      /\ ((c % 64) \div 1) % 2 = (c \div 1) % 2
  BY SMTT(30) DEF Byte
<1>2. u = 0 \/ u = 1 \/ u = 2 \/ u = 3 \/ u = 4 \/ u = 5
  OBVIOUS
<1> QED  BY <1>1, <1>2, PowerIs DEF SixBit, ByteBit, Nth, Six

(* Bit u of sextet r is bit 6 r + u of the three bytes. *)
LEMMA BitsOfSix ==
  ASSUME NEW a \in Byte, NEW b \in Byte, NEW c \in Byte, NEW r \in 0..3, NEW u \in 0..5
  PROVE  SixBit(a, b, c, r, u) = ByteBit(a, b, c, 6 * r + u)
<1>1. CASE r = 0
  <2>1. 6 * r + u = u
    BY ONLY <1>1, u \in 0..5
  <2> QED  BY ONLY <1>1, <2>1, Bits0, a \in Byte, b \in Byte, c \in Byte, u \in 0..5
<1>2. CASE r = 1
  <2>1. 6 * r + u = 6 + u
    BY ONLY <1>2, u \in 0..5
  <2> QED  BY ONLY <1>2, <2>1, Bits1, a \in Byte, b \in Byte, c \in Byte, u \in 0..5
<1>3. CASE r = 2
  <2>1. 6 * r + u = 12 + u
    BY ONLY <1>3, u \in 0..5
  <2> QED  BY ONLY <1>3, <2>1, Bits2, a \in Byte, b \in Byte, c \in Byte, u \in 0..5
<1>4. CASE r = 3
  <2>1. 6 * r + u = 18 + u
    BY ONLY <1>4, u \in 0..5
  <2> QED  BY ONLY <1>4, <2>1, Bits3, a \in Byte, b \in Byte, c \in Byte, u \in 0..5
<1> QED  BY ONLY <1>1, <1>2, <1>3, <1>4, r \in 0..3

(* Where bit k of a string is when it is cut into sextets and when it is cut  *)
(* into bytes.                                                                *)
LEMMA Places ==
  ASSUME NEW k \in Nat, 1 <= k
  PROVE  \E q \in Nat, r \in 0..3, u \in 0..5 :
           /\ (k - 1) \div 6 = 4 * q + r /\ (k - 1) % 6 = u
           /\ (k - 1) \div 8 = 3 * q + ((6 * r + u) \div 8) /\ (k - 1) % 8 = (6 * r + u) % 8
<1>1. PICK q : q = (k - 1) \div 24
  BY Zenon
<1>2. PICK r : r = ((k - 1) % 24) \div 6
  BY Zenon
<1>3. PICK u : u = (k - 1) % 6
  BY Zenon
<1>4. q \in Nat /\ r \in 0..3 /\ u \in 0..5 /\ k - 1 = 24 * q + 6 * r + u
  BY <1>1, <1>2, <1>3
<1>5. (k - 1) \div 6 = 4 * q + r /\ (k - 1) % 6 = u
  BY ONLY <1>4, k \in Nat
<1>6. (k - 1) \div 8 = 3 * q + ((6 * r + u) \div 8) /\ (k - 1) % 8 = (6 * r + u) % 8
  BY ONLY <1>4, k \in Nat
<1> QED  BY ONLY <1>4, <1>5, <1>6

(* The bytes of s, and zeros after them. *)
Ext(s, i) == IF i <= Len(s) THEN s[i] ELSE 0
(* Sextet r of the q-th triple of s *)
SextetOf(s, q, r) == Six(Ext(s, 3 * q + 1), Ext(s, 3 * q + 2), Ext(s, 3 * q + 3), r)
(* and the j-th sextet of s. *)
SextetAt(s, j) == SextetOf(s, (j - 1) \div 4, (j - 1) % 4)

(* Zeros are bytes too. *)
LEMMA ExtByte ==
  ASSUME NEW s \in Seq(Byte), NEW i \in Nat, 1 <= i
  PROVE  Ext(s, i) \in Byte
<1>1. 0 \in Byte
  BY DEF Byte
<1>2. CASE i <= Len(s)
  <2>1. s[i] \in Byte
    BY <1>2
  <2> QED  BY ONLY <1>2, <2>1, Zenon DEF Ext
<1>3. CASE ~(i <= Len(s))
  BY ONLY <1>1, <1>3, Zenon DEF Ext
<1> QED  BY ONLY <1>2, <1>3, Zenon

(* A sextet of s is six bits. *)
LEMMA SextetOfIs ==
  ASSUME NEW s \in Seq(Byte), NEW q \in Nat, NEW r \in 0..3
  PROVE  SextetOf(s, q, r) \in Sextet
<1>1. /\ 3 * q + 1 \in Nat /\ 1 <= 3 * q + 1 /\ 3 * q + 2 \in Nat /\ 1 <= 3 * q + 2
      /\ 3 * q + 3 \in Nat /\ 1 <= 3 * q + 3
  BY ONLY q \in Nat
<1>2. Ext(s, 3 * q + 1) \in Byte /\ Ext(s, 3 * q + 2) \in Byte /\ Ext(s, 3 * q + 3) \in Byte
  BY ONLY <1>1, ExtByte, s \in Seq(Byte), Zenon
<1> QED  BY ONLY <1>2, SixSextet, r \in 0..3 DEF SextetOf

(* The sextets of s by triple and place. *)
LEMMA SextetAtIs ==
  ASSUME NEW q \in Nat, NEW r \in 0..3, NEW s
  PROVE  SextetAt(s, 4 * q + r + 1) = SextetOf(s, q, r)
<1>1. ((4 * q + r + 1) - 1) \div 4 = q /\ ((4 * q + r + 1) - 1) % 4 = r
  BY ONLY q \in Nat, r \in 0..3
<1> QED  BY ONLY <1>1, Zenon DEF SextetAt

(* A place in the code, by group of four characters, *)
LEMMA Quotient4 ==
  ASSUME NEW j \in Nat, 1 <= j
  PROVE  \E q \in Nat, r \in 0..3 : q = (j - 1) \div 4 /\ r = (j - 1) % 4 /\ j = 4 * q + r + 1
<1>1. (j - 1) \div 4 \in Nat /\ (j - 1) % 4 \in 0..3 /\ j = 4 * ((j - 1) \div 4) + ((j - 1) % 4) + 1
  OBVIOUS
<1> QED  BY ONLY <1>1

(* and a place in the string, by triple. *)
LEMMA Quotient3 ==
  ASSUME NEW j \in Nat, 1 <= j
  PROVE  \E q \in Nat, r \in 0..2 : q = (j - 1) \div 3 /\ r = (j - 1) % 3 /\ j = 3 * q + r + 1
<1>1. (j - 1) \div 3 \in Nat /\ (j - 1) % 3 \in 0..2 /\ j = 3 * ((j - 1) \div 3) + ((j - 1) % 3) + 1
  OBVIOUS
<1> QED  BY ONLY <1>1

(* EncodeTriple spells the sextets of a triple that s has in full. *)
LEMMA TripleIs ==
  ASSUME NEW s \in Seq(Byte), NEW q \in Nat, NEW r \in 0..3, 3 * q + 3 <= Len(s)
  PROVE  EncodeTriple(s, 3 * q + 1)[r + 1] = Letter(SextetOf(s, q, r))
<1>0. Len(s) \in Nat
  OBVIOUS
<1>1. PICK a : a = s[3 * q + 1]
  BY Zenon
<1>2. PICK b : b = s[3 * q + 2]
  BY Zenon
<1>3. PICK c : c = s[3 * q + 3]
  BY Zenon
<1>4. a \in Byte /\ b \in Byte /\ c \in Byte
  <2>1. 3 * q + 1 \in 1..Len(s) /\ 3 * q + 2 \in 1..Len(s) /\ 3 * q + 3 \in 1..Len(s)
    BY ONLY <1>0, q \in Nat, 3 * q + 3 <= Len(s)
  <2> QED  BY ONLY <1>1, <1>2, <1>3, <2>1, ElementOfSeq, s \in Seq(Byte), Zenon
<1>5. (3 * q + 1) + 1 = 3 * q + 2 /\ (3 * q + 1) + 2 = 3 * q + 3
  BY ONLY q \in Nat
<1>6. EncodeTriple(s, 3 * q + 1) =
        << Letter(a \div 4), Letter(16 * (a % 4) + (b \div 16)), Letter(4 * (b % 16) + (c \div 64)), Letter(c % 64) >>
  BY ONLY <1>1, <1>2, <1>3, <1>5, Zenon DEF EncodeTriple, Letter
<1>7. EncodeTriple(s, 3 * q + 1) =
        << Letter(Six(a, b, c, 0)), Letter(Six(a, b, c, 1)), Letter(Six(a, b, c, 2)), Letter(Six(a, b, c, 3)) >>
  <2>1. /\ Six(a, b, c, 0) = a \div 4 /\ Six(a, b, c, 1) = 16 * (a % 4) + (b \div 16)
        /\ Six(a, b, c, 2) = 4 * (b % 16) + (c \div 64) /\ Six(a, b, c, 3) = c % 64
    BY ONLY <1>4, SixIs
  <2> QED  BY ONLY <1>6, <2>1, Zenon
<1>8. Ext(s, 3 * q + 1) = a /\ Ext(s, 3 * q + 2) = b /\ Ext(s, 3 * q + 3) = c
  <2>1. 3 * q + 1 <= Len(s) /\ 3 * q + 2 <= Len(s)
    BY ONLY <1>0, q \in Nat, 3 * q + 3 <= Len(s)
  <2> QED  BY ONLY <1>1, <1>2, <1>3, <2>1, 3 * q + 3 <= Len(s), Zenon DEF Ext
<1>9. SextetOf(s, q, r) = Six(a, b, c, r)
  BY ONLY <1>8, Zenon DEF SextetOf
<1>10. PICK w0 : w0 = Letter(Six(a, b, c, 0))
  BY Zenon
<1>11. PICK w1 : w1 = Letter(Six(a, b, c, 1))
  BY Zenon
<1>12. PICK w2 : w2 = Letter(Six(a, b, c, 2))
  BY Zenon
<1>13. PICK w3 : w3 = Letter(Six(a, b, c, 3))
  BY Zenon
<1>14. EncodeTriple(s, 3 * q + 1) = <<w0, w1, w2, w3>>
  BY ONLY <1>7, <1>10, <1>11, <1>12, <1>13, Zenon
<1>15. (r = 0 /\ r + 1 = 1) \/ (r = 1 /\ r + 1 = 2) \/ (r = 2 /\ r + 1 = 3) \/ (r = 3 /\ r + 1 = 4)
  BY ONLY r \in 0..3
<1>16. <<w0, w1, w2, w3>>[1] = w0 /\ <<w0, w1, w2, w3>>[2] = w1 /\ <<w0, w1, w2, w3>>[3] = w2
         /\ <<w0, w1, w2, w3>>[4] = w3
  OBVIOUS
<1> QED  BY ONLY <1>9, <1>10, <1>11, <1>12, <1>13, <1>14, <1>15, <1>16, Zenon

(* The number of characters that stand for r bytes, r < 3. *)
Extra(r) == IF r = 0 THEN 0 ELSE r + 1

(* The divisions and remainders of EncodeBase64 for a string of 3 f + r       *)
(* bytes.                                                                     *)
LEMMA PadIs ==
  ASSUME NEW f \in Nat, NEW r \in 0..2
  PROVE  /\ (3 * f + r) \div 3 = f
         /\ Pad(3 * f + r) = IF r = 0 THEN 0 ELSE 3 - r
         /\ (8 * (3 * f + r) + 5) \div 6 = 4 * f + Extra(r)
         /\ 4 * (((3 * f + r) + 2) \div 3) = IF r = 0 THEN 4 * f ELSE 4 * f + 4
<1>1. (3 * f + r) \div 3 = f /\ (3 * f + r) % 3 = r
  OBVIOUS
<1>2. Pad(3 * f + r) = 2 * (r % 2) + (r \div 2)
  BY ONLY <1>1, Zenon DEF Pad
<1>3. r = 0 \/ r = 1 \/ r = 2
  OBVIOUS
<1>4. 2 * (r % 2) + (r \div 2) = IF r = 0 THEN 0 ELSE 3 - r
  BY ONLY <1>3
<1>5. (8 * (3 * f + r) + 5) \div 6 = 4 * f + Extra(r)
  BY ONLY <1>3, f \in Nat DEF Extra
<1>6. 4 * (((3 * f + r) + 2) \div 3) = IF r = 0 THEN 4 * f ELSE 4 * f + 4
  BY ONLY <1>3, f \in Nat
<1> QED  BY ONLY <1>1, <1>2, <1>4, <1>5, <1>6

(* e is what EncodeBase64 writes for the last r bytes: their sextets, then    *)
(* '='.                                                                       *)
IsRest(e, s, f, r) ==
  /\ e \in Seq(Nat)
  /\ Len(e) = IF r = 0 THEN 0 ELSE 4
  /\ \A i \in 1..Extra(r) : e[i] = Letter(SextetOf(s, f, i - 1))
  /\ \A i \in (Extra(r) + 1)..Len(e) : e[i] = 61

(* The characters are numbers. *)
LEMMA LetterNat == ASSUME NEW x \in Sextet PROVE Letter(x) \in Nat
BY LetterIs DEF Sextet

(* EncodeRest writes it, for each remainder r. *)
LEMMA RestIs ==
  ASSUME NEW s \in Seq(Byte), NEW f \in Nat, NEW r \in 0..2, Len(s) = 3 * f + r,
         NEW e, e = EncodeRest(s, 3 * f + 1, Pad(Len(s)))
  PROVE  IsRest(e, s, f, r)
<1>0. Pad(Len(s)) = IF r = 0 THEN 0 ELSE 3 - r
  <2>1. Pad(3 * f + r) = IF r = 0 THEN 0 ELSE 3 - r
    BY ONLY PadIs, f \in Nat, r \in 0..2, Zenon
  <2> QED  BY ONLY <2>1, Len(s) = 3 * f + r
<1>s. SextetOf(s, f, 0) \in Sextet /\ SextetOf(s, f, 1) \in Sextet /\ SextetOf(s, f, 2) \in Sextet
  <2>1. 0 \in 0..3 /\ 1 \in 0..3 /\ 2 \in 0..3
    OBVIOUS
  <2> QED  BY ONLY <2>1, SextetOfIs, s \in Seq(Byte), f \in Nat, Zenon
<1>1. PICK w0 : w0 = Letter(SextetOf(s, f, 0))
  BY Zenon
<1>2. PICK w1 : w1 = Letter(SextetOf(s, f, 1))
  BY Zenon
<1>3. PICK w2 : w2 = Letter(SextetOf(s, f, 2))
  BY Zenon
<1>4. w0 \in Nat /\ w1 \in Nat /\ w2 \in Nat
  BY ONLY <1>s, <1>1, <1>2, <1>3, LetterNat, Zenon
<1>5. CASE r = 0
  <2>1. e = <<>>
    BY ONLY <1>0, <1>5, e = EncodeRest(s, 3 * f + 1, Pad(Len(s))) DEF EncodeRest
  <2> QED  BY ONLY <1>5, <2>1 DEF IsRest, Extra
<1>6. CASE r = 1
  <2>1. e = <<w0, w1, 61, 61>>
    <3>1. PICK a : a = s[3 * f + 1]
      BY Zenon
    <3>2. a \in Byte
      <4>1. 3 * f + 1 \in 1..Len(s)
        BY ONLY <1>6, f \in Nat, Len(s) = 3 * f + r
      <4> QED  BY ONLY <3>1, <4>1, ElementOfSeq, s \in Seq(Byte), Zenon
    <3>3. Ext(s, 3 * f + 1) = a /\ Ext(s, 3 * f + 2) = 0
      BY ONLY <1>6, <3>1, f \in Nat, Len(s) = 3 * f + r DEF Ext
    <3>4. /\ SextetOf(s, f, 0) = a \div 4
          /\ SextetOf(s, f, 1) = (a % 4) * 16
      BY ONLY <3>2, <3>3 DEF SextetOf, Six, Byte
    <3>5. e = << Letter(a \div 4), Letter((a % 4) * 16), 61, 61 >>
      <4>1. Pad(Len(s)) = 2
        BY ONLY <1>0, <1>6
      <4>2. e = EncodeRest(s, 3 * f + 1, 2)
        BY ONLY <4>1, e = EncodeRest(s, 3 * f + 1, Pad(Len(s)))
      <4> QED  BY ONLY <3>1, <4>2 DEF EncodeRest, Equals, Letter
    <3> QED  BY ONLY <1>1, <1>2, <3>4, <3>5, Zenon
  <2> QED  BY ONLY <1>1, <1>2, <1>4, <1>6, <2>1 DEF IsRest, Extra
<1>7. CASE r = 2
  <2>1. e = <<w0, w1, w2, 61>>
    <3>1. PICK a : a = s[3 * f + 1]
      BY Zenon
    <3>2. PICK b : b = s[3 * f + 2]
      BY Zenon
    <3>3. a \in Byte /\ b \in Byte
      <4>1. 3 * f + 1 \in 1..Len(s) /\ 3 * f + 2 \in 1..Len(s)
        BY ONLY <1>7, f \in Nat, Len(s) = 3 * f + r
      <4> QED  BY ONLY <3>1, <3>2, <4>1, ElementOfSeq, s \in Seq(Byte), Zenon
    <3>4. Ext(s, 3 * f + 1) = a /\ Ext(s, 3 * f + 2) = b /\ Ext(s, 3 * f + 3) = 0
      BY ONLY <1>7, <3>1, <3>2, f \in Nat, Len(s) = 3 * f + r DEF Ext
    <3>5. /\ SextetOf(s, f, 0) = a \div 4
          /\ SextetOf(s, f, 1) = 16 * (a % 4) + (b \div 16)
          /\ SextetOf(s, f, 2) = (b % 16) * 4
      <4>1. 0 \in Byte
        BY DEF Byte
      <4>2. \A i : SextetOf(s, f, i) = Six(a, b, 0, i)
        BY ONLY <3>4, Zenon DEF SextetOf
      <4>3. /\ Six(a, b, 0, 0) = a \div 4 /\ Six(a, b, 0, 1) = 16 * (a % 4) + (b \div 16)
            /\ Six(a, b, 0, 2) = 4 * (b % 16) + (0 \div 64)
        BY ONLY <3>3, <4>1, SixIs
      <4>4. 4 * (b % 16) + (0 \div 64) = (b % 16) * 4
        BY ONLY <3>3 DEF Byte
      <4> QED  BY ONLY <4>2, <4>3, <4>4
    <3>6. e = << Letter(a \div 4), Letter(16 * (a % 4) + (b \div 16)), Letter((b % 16) * 4), 61 >>
      <4>1. Pad(Len(s)) = 1 /\ (3 * f + 1) + 1 = 3 * f + 2
        BY ONLY <1>0, <1>7, f \in Nat
      <4>2. e = EncodeRest(s, 3 * f + 1, 1)
        BY ONLY <4>1, e = EncodeRest(s, 3 * f + 1, Pad(Len(s)))
      <4> QED  BY ONLY <3>1, <3>2, <4>1, <4>2 DEF EncodeRest, Equals, Letter
    <3> QED  BY ONLY <1>1, <1>2, <1>3, <3>5, <3>6, Zenon
  <2> QED  BY ONLY <1>1, <1>2, <1>3, <1>4, <1>7, <2>1 DEF IsRest, Extra
<1> QED  BY ONLY <1>5, <1>6, <1>7, r \in 0..2

(* c is the code of s, which has 3 f + r bytes: the sextets of s, then '='. *)
IsCode(c, s, f, r) ==
  /\ c \in Seq(Nat)
  /\ Len(c) = IF r = 0 THEN 4 * f ELSE 4 * f + 4
  /\ \A j \in 1..(4 * f + Extra(r)) : c[j] = Letter(SextetAt(s, j)) /\ SextetAt(s, j) \in Sextet
  /\ \A j \in (4 * f + Extra(r) + 1)..Len(c) : c[j] = 61

(* c is h followed by e. *)
IsConcat(c, h, e, S) ==
  /\ c \in Seq(S) /\ Len(c) = Len(h) + Len(e)
  /\ \A j \in 1..Len(h) : c[j] = h[j]
  /\ \A j \in 1..Len(e) : c[Len(h) + j] = e[j]

(* What concatenation gives. *)
LEMMA Concat2 ==
  ASSUME NEW S, NEW h \in Seq(S), NEW e \in Seq(S), NEW c, c = h \o e
  PROVE  IsConcat(c, h, e, S)
BY DEF IsConcat

(* EncodeBase64 gives the code. *)
LEMMA EncodedIs ==
  ASSUME NEW s \in Seq(Byte), NEW f \in Nat, NEW r \in 0..2, Len(s) = 3 * f + r
  PROVE  IsCode(EncodeBase64(s), s, f, r)
<1> DEFINE h == [k \in 1..(4 * f) |-> EncodeTriple(s, 3 * ((k-1) \div 4) + 1)[((k-1) % 4) + 1]]
<1>1. PICK e : e = EncodeRest(s, 3 * f + 1, Pad(Len(s)))
  BY Zenon
<1>2. IsRest(e, s, f, r)
  BY ONLY <1>1, RestIs, s \in Seq(Byte), f \in Nat, r \in 0..2, Len(s) = 3 * f + r, Zenon
<1>3. PICK c : c = EncodeBase64(s)
  BY Zenon
<1>4. c = h \o e
  <2>1. Len(s) \div 3 = f
    <3>1. (3 * f + r) \div 3 = f
      BY ONLY f \in Nat, r \in 0..2
    <3> QED  BY ONLY <3>1, Len(s) = 3 * f + r
  <2> QED  BY ONLY <1>1, <1>3, <2>1, Zenon DEF EncodeBase64
<1>5. ASSUME NEW k \in 1..(4 * f)
      PROVE  h[k] = Letter(SextetAt(s, k)) /\ SextetAt(s, k) \in Sextet
  <2>1. PICK q \in Nat, i \in 0..3 : q = (k - 1) \div 4 /\ i = (k - 1) % 4 /\ k = 4 * q + i + 1
    <3>1. k \in Nat /\ 1 <= k
      BY ONLY f \in Nat, k \in 1..(4 * f)
    <3> QED  BY ONLY <3>1, Quotient4, Zenon
  <2>2. 3 * q + 3 <= Len(s)
    BY ONLY <2>1, f \in Nat, r \in 0..2, Len(s) = 3 * f + r, k \in 1..(4 * f)
  <2>3. h[k] = EncodeTriple(s, 3 * q + 1)[i + 1]
    BY ONLY <2>1, <1>5, Zenon
  <2>4. EncodeTriple(s, 3 * q + 1)[i + 1] = Letter(SextetOf(s, q, i))
    BY ONLY <2>1, <2>2, TripleIs, s \in Seq(Byte), Zenon
  <2>5. SextetAt(s, k) = SextetOf(s, q, i)
    BY ONLY <2>1, Zenon DEF SextetAt
  <2>6. SextetOf(s, q, i) \in Sextet
    BY ONLY <2>1, SextetOfIs, s \in Seq(Byte), Zenon
  <2> QED  BY ONLY <2>3, <2>4, <2>5, <2>6, Zenon
<1>6. h \in Seq(Nat) /\ Len(h) = 4 * f
  <2>1. \A k \in 1..(4 * f) : h[k] \in Nat
    BY ONLY <1>5, LetterNat, Zenon
  <2>2. h \in [1..(4 * f) -> Nat]
    BY ONLY <2>1, Zenon
  <2> HIDE DEF h
  <2>3. 4 * f \in Nat
    BY ONLY f \in Nat
  <2> QED  BY ONLY <2>2, <2>3
<1> HIDE DEF h
<1>7. /\ e \in Seq(Nat) /\ Len(e) = IF r = 0 THEN 0 ELSE 4
      /\ \A i \in 1..Extra(r) : e[i] = Letter(SextetOf(s, f, i - 1))
      /\ \A i \in (Extra(r) + 1)..Len(e) : e[i] = 61
  BY ONLY <1>2, Zenon DEF IsRest
<1>8. /\ c \in Seq(Nat) /\ Len(c) = Len(h) + Len(e)
      /\ \A j \in 1..Len(h) : c[j] = h[j]
      /\ \A j \in 1..Len(e) : c[Len(h) + j] = e[j]
  <2>1. IsConcat(c, h, e, Nat)
    BY ONLY <1>4, <1>6, <1>7, Concat2, Zenon
  <2> QED  BY ONLY <2>1, Zenon DEF IsConcat
<1>9. Len(c) = IF r = 0 THEN 4 * f ELSE 4 * f + 4
  BY ONLY <1>6, <1>7, <1>8, f \in Nat
<1>10. Extra(r) \in 0..3 /\ Extra(r) <= Len(e) /\ Len(e) \in Nat
  BY ONLY <1>7, r \in 0..2 DEF Extra
<1>11. ASSUME NEW j \in 1..(4 * f + Extra(r)) PROVE c[j] = Letter(SextetAt(s, j)) /\ SextetAt(s, j) \in Sextet
  <2>1. CASE j <= 4 * f
    <3>1. j \in 1..(4 * f)
      BY ONLY <2>1, f \in Nat, <1>10, <1>11
    <3>2. c[j] = h[j]
      BY ONLY <1>6, <1>8, <3>1, Zenon
    <3> QED  BY ONLY <1>5, <3>1, <3>2, Zenon
  <2>2. CASE j > 4 * f
    <3>1. PICK i : i = j - 4 * f
      BY Zenon
    <3>2. i \in 1..Extra(r) /\ i \in 1..Len(e) /\ i - 1 \in 0..3 /\ j = 4 * f + i /\ j = 4 * f + (i - 1) + 1
      BY ONLY <1>10, <1>11, <2>2, <3>1, f \in Nat
    <3>3. c[j] = Letter(SextetOf(s, f, i - 1))
      <4>1. c[Len(h) + i] = e[i] /\ e[i] = Letter(SextetOf(s, f, i - 1))
        BY ONLY <1>7, <1>8, <3>2, Zenon
      <4>2. Len(h) + i = j
        BY ONLY <1>6, <3>2
      <4> QED  BY ONLY <4>1, <4>2, Zenon
    <3>4. SextetAt(s, j) = SextetOf(s, f, i - 1)
      BY ONLY <3>2, SextetAtIs, f \in Nat, Zenon
    <3>5. SextetOf(s, f, i - 1) \in Sextet
      BY ONLY <3>2, SextetOfIs, f \in Nat, s \in Seq(Byte), Zenon
    <3> QED  BY ONLY <3>3, <3>4, <3>5, Zenon
  <2>3. j <= 4 * f \/ j > 4 * f
    BY ONLY f \in Nat, <1>10, <1>11
  <2> QED  BY ONLY <2>1, <2>2, <2>3, Zenon
<1>12. ASSUME NEW j \in (4 * f + Extra(r) + 1)..Len(c) PROVE c[j] = 61
  <2>1. PICK i : i = j - 4 * f
    BY Zenon
  <2>2. i \in (Extra(r) + 1)..Len(e) /\ i \in 1..Len(e) /\ j = 4 * f + i
    <3>1. Len(c) = 4 * f + Len(e)
      BY ONLY <1>6, <1>8, Zenon
    <3> QED  BY ONLY <1>10, <1>12, <2>1, <3>1, f \in Nat
  <2>3. c[Len(h) + i] = e[i] /\ e[i] = 61
    BY ONLY <1>7, <1>8, <2>2, Zenon
  <2>4. Len(h) + i = j
    BY ONLY <1>6, <2>2
  <2> QED  BY ONLY <2>3, <2>4, Zenon
<1>13. IsCode(c, s, f, r)
  BY ONLY <1>8, <1>9, <1>11, <1>12, Zenon DEF IsCode
<1> QED  BY ONLY <1>3, <1>13, Zenon

(* The bytes that DecodeBase64 makes of the q-th group of c, when n           *)
(* characters of c are letters.                                               *)
Decodes(c, s, q, n) ==
  /\ 4 * q + 2 <= n => DecodeFirst(c, 4 * q + 1) = Ext(s, 3 * q + 1)
  /\ 4 * q + 3 <= n => DecodeSecond(c, 4 * q + 1) = Ext(s, 3 * q + 2)
  /\ 4 * q + 4 <= n => DecodeThird(c, 4 * q + 1) = Ext(s, 3 * q + 3)

(* They are the bytes of the q-th triple of s, as far as the letters go. *)
LEMMA GroupBack ==
  ASSUME NEW s \in Seq(Byte), NEW q \in Nat, NEW f \in Nat, NEW r \in 0..2, NEW c, IsCode(c, s, f, r)
  PROVE  Decodes(c, s, q, 4 * f + Extra(r))
<1>0. 4 * f + Extra(r) \in Nat
  BY ONLY f \in Nat, r \in 0..2 DEF Extra
<1>1. ASSUME NEW i \in 0..3, 4 * q + i + 1 <= 4 * f + Extra(r)
      PROVE  Find(c[4 * q + i + 1]) = SextetOf(s, q, i)
  <2>1. 4 * q + i + 1 \in 1..(4 * f + Extra(r))
    BY ONLY <1>0, <1>1, q \in Nat
  <2>2. c[4 * q + i + 1] = Letter(SextetAt(s, 4 * q + i + 1))
    BY ONLY <2>1, IsCode(c, s, f, r), Zenon DEF IsCode
  <2>3. SextetAt(s, 4 * q + i + 1) = SextetOf(s, q, i)
    BY ONLY SextetAtIs, q \in Nat, i \in 0..3, Zenon
  <2>4. SextetOf(s, q, i) \in Sextet
    BY ONLY SextetOfIs, s \in Seq(Byte), q \in Nat, i \in 0..3, Zenon
  <2> QED  BY ONLY <2>2, <2>3, <2>4, FindLetter, Zenon
<1>2. PICK a : a = Ext(s, 3 * q + 1)
  BY Zenon
<1>3. PICK b : b = Ext(s, 3 * q + 2)
  BY Zenon
<1>4. PICK d : d = Ext(s, 3 * q + 3)
  BY Zenon
<1>5. a \in Byte /\ b \in Byte /\ d \in Byte
  <2>1. /\ 3 * q + 1 \in Nat /\ 1 <= 3 * q + 1 /\ 3 * q + 2 \in Nat /\ 1 <= 3 * q + 2
        /\ 3 * q + 3 \in Nat /\ 1 <= 3 * q + 3
    BY ONLY q \in Nat
  <2> QED  BY ONLY <1>2, <1>3, <1>4, <2>1, ExtByte, s \in Seq(Byte), Zenon
<1>6. \A i : SextetOf(s, q, i) = Six(a, b, d, i)
  BY ONLY <1>2, <1>3, <1>4, Zenon DEF SextetOf
<1>7. /\ (Six(a, b, d, 0) * 4 + (Six(a, b, d, 1) \div 16)) % 256 = a
      /\ (Six(a, b, d, 1) * 16 + (Six(a, b, d, 2) \div 4)) % 256 = b
      /\ (Six(a, b, d, 2) * 64 + Six(a, b, d, 3)) % 256 = d
  BY ONLY <1>5, SixBack
<1>8. PICK j : j = 4 * q + 1
  BY Zenon
<1>9. /\ 4 * q + 2 <= 4 * f + Extra(r) =>
           Find(c[j]) = Six(a, b, d, 0) /\ Find(c[j+1]) = Six(a, b, d, 1)
      /\ 4 * q + 3 <= 4 * f + Extra(r) =>
           Find(c[j+1]) = Six(a, b, d, 1) /\ Find(c[j+2]) = Six(a, b, d, 2)
      /\ 4 * q + 4 <= 4 * f + Extra(r) =>
           Find(c[j+2]) = Six(a, b, d, 2) /\ Find(c[j+3]) = Six(a, b, d, 3)
  <2>1. /\ 4 * q + 0 + 1 = j /\ 4 * q + 1 + 1 = j + 1 /\ 4 * q + 2 + 1 = j + 2 /\ 4 * q + 3 + 1 = j + 3
        /\ 4 * q + 2 = j + 1 /\ 4 * q + 3 = j + 2 /\ 4 * q + 4 = j + 3 /\ j \in Nat
    BY ONLY <1>8, q \in Nat
  <2>2. ASSUME NEW i \in 0..3, j + i <= 4 * f + Extra(r) PROVE Find(c[j + i]) = Six(a, b, d, i)
    <3>1. 4 * q + i + 1 = j + i
      BY ONLY <1>8, q \in Nat, i \in 0..3
    <3> QED  BY ONLY <1>1, <1>6, <2>2, <3>1
  <2>3. j + 0 = j /\ 0 \in 0..3 /\ 1 \in 0..3 /\ 2 \in 0..3 /\ 3 \in 0..3
    BY ONLY <2>1
  <2>4. /\ j <= 4 * f + Extra(r) => Find(c[j]) = Six(a, b, d, 0)
        /\ j + 1 <= 4 * f + Extra(r) => Find(c[j+1]) = Six(a, b, d, 1)
        /\ j + 2 <= 4 * f + Extra(r) => Find(c[j+2]) = Six(a, b, d, 2)
        /\ j + 3 <= 4 * f + Extra(r) => Find(c[j+3]) = Six(a, b, d, 3)
    BY ONLY <2>2, <2>3
  <2>5. /\ j + 1 <= 4 * f + Extra(r) => j <= 4 * f + Extra(r)
        /\ j + 2 <= 4 * f + Extra(r) => j + 1 <= 4 * f + Extra(r)
        /\ j + 3 <= 4 * f + Extra(r) => j + 2 <= 4 * f + Extra(r)
    BY ONLY <1>0, <2>1
  <2> QED  BY ONLY <2>1, <2>4, <2>5
<1>10. 4 * q + 2 <= 4 * f + Extra(r) => DecodeFirst(c, j) = a
  BY ONLY <1>7, <1>9, Zenon DEF DecodeFirst
<1>11. 4 * q + 3 <= 4 * f + Extra(r) => DecodeSecond(c, j) = b
  BY ONLY <1>7, <1>9, Zenon DEF DecodeSecond
<1>12. 4 * q + 4 <= 4 * f + Extra(r) => DecodeThird(c, j) = d
  BY ONLY <1>7, <1>9, Zenon DEF DecodeThird
<1> QED  BY ONLY <1>2, <1>3, <1>4, <1>8, <1>10, <1>11, <1>12, Zenon DEF Decodes

(* The last two characters of c are '=' as the remainder r says, which is all *)
(* that DecodeBase64 looks at.                                                *)
Padded(c, n, r) == n \in Nat /\ n > 1 /\ (c[n] = 61 <=> r # 0) /\ (c[n-1] = 61 <=> r = 1)

(* A code is padded in this way. *)
LEMMA PaddingIs ==
  ASSUME NEW s \in Seq(Byte), NEW f \in Nat, NEW r \in 0..2, 3 * f + r > 0, NEW c, IsCode(c, s, f, r)
  PROVE  Padded(c, Len(c), r)
<1>1. /\ Len(c) = IF r = 0 THEN 4 * f ELSE 4 * f + 4
      /\ \A j \in 1..(4 * f + Extra(r)) : c[j] = Letter(SextetAt(s, j)) /\ SextetAt(s, j) \in Sextet
      /\ \A j \in (4 * f + Extra(r) + 1)..Len(c) : c[j] = 61
  BY ONLY IsCode(c, s, f, r), Zenon DEF IsCode
<1>2. \A j \in 1..(4 * f + Extra(r)) : c[j] # 61
  BY ONLY <1>1, LetterNotEquals, Zenon
<1>3. CASE r = 0
  <2>1. Len(c) = 4 * f /\ Extra(r) = 0
    BY ONLY <1>1, <1>3 DEF Extra
  <2>2. Len(c) \in 1..(4 * f + Extra(r)) /\ Len(c) - 1 \in 1..(4 * f + Extra(r)) /\ Len(c) \in Nat /\ Len(c) > 1
    BY ONLY <1>3, <2>1, f \in Nat, 3 * f + r > 0
  <2> QED  BY ONLY <1>2, <1>3, <2>2 DEF Padded
<1>4. CASE r = 1
  <2>1. Len(c) = 4 * f + 4 /\ Extra(r) = 2
    BY ONLY <1>1, <1>4 DEF Extra
  <2>2. /\ Len(c) \in (4 * f + Extra(r) + 1)..Len(c) /\ Len(c) - 1 \in (4 * f + Extra(r) + 1)..Len(c)
        /\ Len(c) \in Nat /\ Len(c) > 1
    BY ONLY <2>1, f \in Nat
  <2> QED  BY ONLY <1>1, <1>4, <2>2 DEF Padded
<1>5. CASE r = 2
  <2>1. Len(c) = 4 * f + 4 /\ Extra(r) = 3
    BY ONLY <1>1, <1>5 DEF Extra
  <2>2. /\ Len(c) \in (4 * f + Extra(r) + 1)..Len(c) /\ Len(c) - 1 \in 1..(4 * f + Extra(r))
        /\ Len(c) \in Nat /\ Len(c) > 1
    BY ONLY <2>1, f \in Nat
  <2> QED  BY ONLY <1>1, <1>2, <1>5, <2>2 DEF Padded
<1> QED  BY ONLY <1>3, <1>4, <1>5, r \in 0..2

(* The bytes that DecodeBase64 makes of the full groups. *)
Groups(c, f) == [k \in 1..(3 * f) |-> DecodeGroup(c, 4 * ((k-1) \div 3) + 1)[((k-1) % 3) + 1]]

(* DecodeBase64 decodes the full groups, then the padded one. *)
LEMMA DecodeIs ==
  ASSUME NEW s \in Seq(Byte), NEW f \in Nat, NEW r \in 0..2, 3 * f + r > 0, NEW c, IsCode(c, s, f, r)
  PROVE  DecodeBase64(c) = Groups(c, f) \o DecodeRest(c, 4 * f + 1, IF r = 0 THEN 0 ELSE 3 - r)
<1>1. PICK n : n = Len(c)
  BY Zenon
<1>2. n \in Nat /\ n > 1 /\ (c[n] = 61 <=> r # 0) /\ (c[n-1] = 61 <=> r = 1)
  <2>1. Padded(c, n, r)
    BY ONLY <1>1, PaddingIs, s \in Seq(Byte), f \in Nat, r \in 0..2, 3 * f + r > 0, IsCode(c, s, f, r)
  <2> QED  BY ONLY <2>1, Zenon DEF Padded
<1>3. n = IF r = 0 THEN 4 * f ELSE 4 * f + 4
  BY ONLY <1>1, IsCode(c, s, f, r), Zenon DEF IsCode
<1>4. PICK p : p = IF r = 0 THEN 0 ELSE 3 - r
  BY Zenon
<1>5. (IF c[n] = 61 THEN 1 ELSE 0) + (IF n > 1 /\ c[n-1] = 61 THEN 1 ELSE 0) = p
  <2>1. r = 0 \/ r = 1 \/ r = 2
    BY ONLY r \in 0..2
  <2> QED  BY ONLY <1>2, <1>4, <2>1
<1>6. (IF n >= 4 + p THEN (n - p) \div 4 ELSE 0) = f
  <2>1. r = 0 \/ r = 1 \/ r = 2
    BY ONLY r \in 0..2
  <2> QED  BY ONLY <1>3, <1>4, <2>1, f \in Nat
<1>7. DecodeBase64(c) = Groups(c, f) \o DecodeRest(c, 4 * f + 1, p)
  BY ONLY <1>1, <1>5, <1>6, Zenon DEF DecodeBase64, Equals, Groups
<1> QED  BY ONLY <1>4, <1>7, Zenon

(* The full groups give the full triples of s, *)
LEMMA GroupsAre ==
  ASSUME NEW s \in Seq(Byte), NEW f \in Nat, NEW r \in 0..2, Len(s) = 3 * f + r, NEW c, IsCode(c, s, f, r)
  PROVE  /\ Groups(c, f) \in Seq(Byte) /\ Len(Groups(c, f)) = 3 * f
         /\ \A k \in 1..(3 * f) : Groups(c, f)[k] = s[k]
<1>0. Extra(r) \in Nat
  BY ONLY r \in 0..2 DEF Extra
<1>1. ASSUME NEW k \in 1..(3 * f) PROVE Groups(c, f)[k] = s[k]
  <2>1. PICK q \in Nat, i \in 0..2 : q = (k - 1) \div 3 /\ i = (k - 1) % 3 /\ k = 3 * q + i + 1
    <3>1. k \in Nat /\ 1 <= k
      BY ONLY f \in Nat, k \in 1..(3 * f)
    <3> QED  BY ONLY <3>1, Quotient3, Zenon
  <2>2. /\ 4 * q + 2 <= 4 * f + Extra(r) /\ 4 * q + 3 <= 4 * f + Extra(r) /\ 4 * q + 4 <= 4 * f + Extra(r)
        /\ 3 * q + 1 <= Len(s) /\ 3 * q + 2 <= Len(s) /\ 3 * q + 3 <= Len(s)
    BY ONLY <1>0, <2>1, f \in Nat, r \in 0..2, k \in 1..(3 * f), Len(s) = 3 * f + r
  <2>3. /\ DecodeFirst(c, 4 * q + 1) = Ext(s, 3 * q + 1)
        /\ DecodeSecond(c, 4 * q + 1) = Ext(s, 3 * q + 2)
        /\ DecodeThird(c, 4 * q + 1) = Ext(s, 3 * q + 3)
    <3>1. Decodes(c, s, q, 4 * f + Extra(r))
      BY ONLY <2>1, GroupBack, s \in Seq(Byte), f \in Nat, r \in 0..2, IsCode(c, s, f, r)
    <3> QED  BY ONLY <2>2, <3>1, Zenon DEF Decodes
  <2>4. Ext(s, 3 * q + 1) = s[3 * q + 1] /\ Ext(s, 3 * q + 2) = s[3 * q + 2] /\ Ext(s, 3 * q + 3) = s[3 * q + 3]
    BY ONLY <2>2, Zenon DEF Ext
  <2>5. DecodeGroup(c, 4 * q + 1) = << s[3 * q + 1], s[3 * q + 2], s[3 * q + 3] >>
    BY ONLY <2>3, <2>4, Zenon DEF DecodeGroup
  <2>6. Groups(c, f)[k] = DecodeGroup(c, 4 * q + 1)[i + 1]
    BY ONLY <2>1, <1>1, Zenon DEF Groups
  <2>7. \/ i + 1 = 1 /\ k = 3 * q + 1
        \/ i + 1 = 2 /\ k = 3 * q + 2
        \/ i + 1 = 3 /\ k = 3 * q + 3
    BY ONLY <2>1
  <2> QED  BY ONLY <2>5, <2>6, <2>7
<1>2. \A k \in 1..(3 * f) : s[k] \in Byte
  <2>1. \A k \in 1..(3 * f) : k \in 1..Len(s)
    BY ONLY f \in Nat, r \in 0..2, Len(s) = 3 * f + r
  <2> QED  BY ONLY <2>1, ElementOfSeq, s \in Seq(Byte), Zenon
<1>3. Groups(c, f) \in [1..(3 * f) -> Byte]
  <2>1. \A k \in 1..(3 * f) : Groups(c, f)[k] \in Byte
    BY ONLY <1>1, <1>2, Zenon
  <2> QED  BY ONLY <2>1, Zenon DEF Groups
<1>4. Groups(c, f) \in Seq(Byte) /\ Len(Groups(c, f)) = 3 * f
  <2>1. 3 * f \in Nat
    BY ONLY f \in Nat
  <2> QED  BY ONLY <1>3, <2>1
<1> QED  BY ONLY <1>1, <1>4, Zenon

(* e is the last r bytes of s, *)
IsLast(e, s, f, r) == e \in Seq(Byte) /\ Len(e) = r /\ \A i \in 1..r : e[i] = s[3 * f + i]

(* and the padded group gives them. *)
LEMMA LastAre ==
  ASSUME NEW s \in Seq(Byte), NEW f \in Nat, NEW r \in 0..2, Len(s) = 3 * f + r, NEW c, IsCode(c, s, f, r),
         NEW e, e = DecodeRest(c, 4 * f + 1, IF r = 0 THEN 0 ELSE 3 - r)
  PROVE  IsLast(e, s, f, r)
<1> SUFFICES e \in Seq(Byte) /\ Len(e) = r /\ \A i \in 1..r : e[i] = s[3 * f + i]
  BY Zenon DEF IsLast
<1>1. CASE r = 0
  <2>1. e = <<>>
    BY ONLY <1>1, e = DecodeRest(c, 4 * f + 1, IF r = 0 THEN 0 ELSE 3 - r) DEF DecodeRest
  <2> QED  BY ONLY <1>1, <2>1
<1>2. ASSUME r # 0 PROVE DecodeFirst(c, 4 * f + 1) = s[3 * f + 1] /\ s[3 * f + 1] \in Byte
  <2>1. 4 * f + 2 <= 4 * f + Extra(r) /\ 3 * f + 1 <= Len(s) /\ 3 * f + 1 \in 1..Len(s)
    BY ONLY <1>2, f \in Nat, r \in 0..2, Len(s) = 3 * f + r DEF Extra
  <2>2. DecodeFirst(c, 4 * f + 1) = Ext(s, 3 * f + 1)
    <3>1. Decodes(c, s, f, 4 * f + Extra(r))
      BY ONLY GroupBack, s \in Seq(Byte), f \in Nat, r \in 0..2, IsCode(c, s, f, r)
    <3> QED  BY ONLY <2>1, <3>1, Zenon DEF Decodes
  <2>3. s[3 * f + 1] \in Byte
    BY ONLY <2>1, ElementOfSeq, s \in Seq(Byte), Zenon
  <2> QED  BY ONLY <2>1, <2>2, <2>3, Zenon DEF Ext
<1>3. ASSUME r = 2 PROVE DecodeSecond(c, 4 * f + 1) = s[3 * f + 2] /\ s[3 * f + 2] \in Byte
  <2>1. 4 * f + 3 <= 4 * f + Extra(r) /\ 3 * f + 2 <= Len(s) /\ 3 * f + 2 \in 1..Len(s)
    BY ONLY <1>3, f \in Nat, r \in 0..2, Len(s) = 3 * f + r DEF Extra
  <2>2. DecodeSecond(c, 4 * f + 1) = Ext(s, 3 * f + 2)
    <3>1. Decodes(c, s, f, 4 * f + Extra(r))
      BY ONLY GroupBack, s \in Seq(Byte), f \in Nat, r \in 0..2, IsCode(c, s, f, r)
    <3> QED  BY ONLY <2>1, <3>1, Zenon DEF Decodes
  <2>3. s[3 * f + 2] \in Byte
    BY ONLY <2>1, ElementOfSeq, s \in Seq(Byte), Zenon
  <2> QED  BY ONLY <2>1, <2>2, <2>3, Zenon DEF Ext
<1>4. CASE r = 1
  <2>1. e = <<s[3 * f + 1]>>
    BY ONLY <1>2, <1>4, e = DecodeRest(c, 4 * f + 1, IF r = 0 THEN 0 ELSE 3 - r) DEF DecodeRest
  <2> QED  BY ONLY <1>2, <1>4, <2>1
<1>5. CASE r = 2
  <2>1. e = <<s[3 * f + 1], s[3 * f + 2]>>
    BY ONLY <1>2, <1>3, <1>5, e = DecodeRest(c, 4 * f + 1, IF r = 0 THEN 0 ELSE 3 - r) DEF DecodeRest
  <2> QED  BY ONLY <1>2, <1>3, <1>5, <2>1
<1> QED  BY ONLY <1>1, <1>4, <1>5, r \in 0..2

(* DecodeBase64 gives back what was encoded. *)
LEMMA DecodesBack ==
  ASSUME NEW s \in Seq(Byte), NEW f \in Nat, NEW r \in 0..2, Len(s) = 3 * f + r, s # <<>>,
         NEW c, IsCode(c, s, f, r)
  PROVE  DecodeBase64(c) = s
<1>0. 3 * f + r > 0
  <2>1. Len(s) # 0 /\ Len(s) \in Nat
    BY s # <<>>
  <2> QED  BY ONLY <2>1, Len(s) = 3 * f + r
<1>1. PICK g : g = Groups(c, f)
  BY Zenon
<1>2. PICK e : e = DecodeRest(c, 4 * f + 1, IF r = 0 THEN 0 ELSE 3 - r)
  BY Zenon
<1>3. PICK d : d = DecodeBase64(c)
  BY Zenon
<1>4. d = g \o e
  BY ONLY <1>0, <1>1, <1>2, <1>3, DecodeIs, s \in Seq(Byte), f \in Nat, r \in 0..2, IsCode(c, s, f, r), Zenon
<1>5. g \in Seq(Byte) /\ Len(g) = 3 * f /\ \A k \in 1..(3 * f) : g[k] = s[k]
  BY ONLY <1>1, GroupsAre, s \in Seq(Byte), f \in Nat, r \in 0..2, Len(s) = 3 * f + r, IsCode(c, s, f, r)
<1>6. e \in Seq(Byte) /\ Len(e) = r /\ \A i \in 1..r : e[i] = s[3 * f + i]
  <2>1. IsLast(e, s, f, r)
    BY ONLY <1>2, LastAre, s \in Seq(Byte), f \in Nat, r \in 0..2, Len(s) = 3 * f + r, IsCode(c, s, f, r), Zenon
  <2> QED  BY ONLY <2>1, Zenon DEF IsLast
<1>7. /\ d \in Seq(Byte) /\ Len(d) = Len(g) + Len(e)
      /\ \A j \in 1..Len(g) : d[j] = g[j]
      /\ \A j \in 1..Len(e) : d[Len(g) + j] = e[j]
  <2>1. IsConcat(d, g, e, Byte)
    BY ONLY <1>4, <1>5, <1>6, Concat2, Zenon
  <2> QED  BY ONLY <2>1, Zenon DEF IsConcat
<1>8. Len(d) = Len(s)
  BY ONLY <1>5, <1>6, <1>7, Len(s) = 3 * f + r
<1>9. ASSUME NEW k \in 1..Len(d) PROVE d[k] = s[k]
  <2>0. Len(d) = 3 * f + r
    BY ONLY <1>8, Len(s) = 3 * f + r
  <2>1. CASE k <= 3 * f
    <3>1. k \in 1..(3 * f)
      BY ONLY <1>9, <2>0, <2>1, f \in Nat, r \in 0..2
    <3> QED  BY ONLY <1>5, <1>7, <3>1, Zenon
  <2>2. CASE k > 3 * f
    <3>1. PICK i : i = k - 3 * f
      BY Zenon
    <3>2. i \in 1..r /\ 3 * f + i = k
      BY ONLY <1>9, <2>0, <2>2, <3>1, f \in Nat, r \in 0..2
    <3>3. d[3 * f + i] = e[i] /\ e[i] = s[3 * f + i]
      BY ONLY <1>5, <1>6, <1>7, <3>2, Zenon
    <3> QED  BY ONLY <3>2, <3>3, Zenon
  <2>3. k <= 3 * f \/ k > 3 * f
    BY ONLY <1>9, <2>0, f \in Nat, r \in 0..2
  <2> QED  BY ONLY <2>1, <2>2, <2>3, Zenon
<1> QED  BY ONLY <1>3, <1>7, <1>8, <1>9, SeqEqual, s \in Seq(Byte), Zenon

(* The bits of s, and zeros after them. *)
ExtBit(s, k) == (Ext(s, ((k - 1) \div 8) + 1) \div Power(8 - ((k - 1) % 8))) % 2

(* The k-th bit of the sextets of s is the k-th bit of s. *)
LEMMA BitsAgree ==
  ASSUME NEW s \in Seq(Byte), NEW k \in Nat, 1 <= k
  PROVE  (SextetAt(s, ((k - 1) \div 6) + 1) \div Power(6 - ((k - 1) % 6))) % 2 = ExtBit(s, k)
<1>1. PICK q \in Nat, r \in 0..3, u \in 0..5 :
           /\ (k - 1) \div 6 = 4 * q + r /\ (k - 1) % 6 = u
           /\ (k - 1) \div 8 = 3 * q + ((6 * r + u) \div 8) /\ (k - 1) % 8 = (6 * r + u) % 8
  BY ONLY Places, k \in Nat, 1 <= k
<1>2. PICK a : a = Ext(s, 3 * q + 1)
  BY Zenon
<1>3. PICK b : b = Ext(s, 3 * q + 2)
  BY Zenon
<1>4. PICK d : d = Ext(s, 3 * q + 3)
  BY Zenon
<1>5. a \in Byte /\ b \in Byte /\ d \in Byte
  <2>1. /\ 3 * q + 1 \in Nat /\ 1 <= 3 * q + 1 /\ 3 * q + 2 \in Nat /\ 1 <= 3 * q + 2
        /\ 3 * q + 3 \in Nat /\ 1 <= 3 * q + 3
    BY ONLY q \in Nat
  <2> QED  BY ONLY <1>2, <1>3, <1>4, <2>1, ExtByte, s \in Seq(Byte), Zenon
<1>6. SextetAt(s, ((k - 1) \div 6) + 1) = Six(a, b, d, r)
  <2>1. SextetAt(s, 4 * q + r + 1) = SextetOf(s, q, r)
    BY ONLY <1>1, SextetAtIs, Zenon
  <2>2. SextetOf(s, q, r) = Six(a, b, d, r)
    BY ONLY <1>2, <1>3, <1>4, Zenon DEF SextetOf
  <2>3. ((k - 1) \div 6) + 1 = 4 * q + r + 1
    BY ONLY <1>1
  <2> QED  BY ONLY <2>1, <2>2, <2>3, Zenon
<1>7. PICK t : t = 6 * r + u
  BY Zenon
<1>8. Ext(s, ((k - 1) \div 8) + 1) = Nth(a, b, d, t \div 8)
  <2>1. \/ t \div 8 = 0 /\ ((k - 1) \div 8) + 1 = 3 * q + 1
        \/ t \div 8 = 1 /\ ((k - 1) \div 8) + 1 = 3 * q + 2
        \/ t \div 8 = 2 /\ ((k - 1) \div 8) + 1 = 3 * q + 3
    BY ONLY <1>1, <1>7
  <2> QED  BY ONLY <1>2, <1>3, <1>4, <2>1 DEF Nth
<1>9. SixBit(a, b, d, r, u) = ByteBit(a, b, d, t)
  <2>1. SixBit(a, b, d, r, u) = ByteBit(a, b, d, 6 * r + u)
    BY ONLY <1>5, r \in 0..3, u \in 0..5, BitsOfSix, Zenon
  <2> QED  BY ONLY <1>7, <2>1, Zenon
<1>10. (SextetAt(s, ((k - 1) \div 6) + 1) \div Power(6 - ((k - 1) % 6))) % 2 = SixBit(a, b, d, r, u)
  BY ONLY <1>1, <1>6, Zenon DEF SixBit
<1>11. ExtBit(s, k) = ByteBit(a, b, d, t)
  <2>1. (k - 1) % 8 = t % 8
    BY ONLY <1>1, <1>7
  <2> QED  BY ONLY <1>8, <2>1, Zenon DEF ExtBit, ByteBit
<1> QED  BY ONLY <1>9, <1>10, <1>11, Zenon

(* The bits of s, read off its bytes, and the zeros after them. *)
LEMMA ExtBitIs ==
  ASSUME NEW s \in Seq(Byte), NEW k \in Nat, 1 <= k
  PROVE  /\ ExtBit(s, k) \in {0, 1}
         /\ k <= 8 * Len(s) =>
              ExtBit(s, k) = (s[((k - 1) \div 8) + 1] \div PowersOf2[8 - ((k - 1) % 8)]) % 2
         /\ k > 8 * Len(s) => ExtBit(s, k) = 0
<1>1. PICK i : i = ((k - 1) \div 8) + 1
  BY Zenon
<1>2. PICK v : v = 8 - ((k - 1) % 8)
  BY Zenon
<1>3. PICK p : p = Power(v)
  BY Zenon
<1>4. PICK x : x = Ext(s, i)
  BY Zenon
<1>5. i \in Nat /\ 1 <= i /\ v \in 1..8
  BY ONLY <1>1, <1>2, k \in Nat, 1 <= k
<1>6. p \in Nat /\ p > 0
  BY ONLY <1>3, <1>5, PowerIs
<1>7. x \in Byte
  BY ONLY <1>4, <1>5, ExtByte, s \in Seq(Byte), Zenon
<1>8. ExtBit(s, k) = (x \div p) % 2
  BY ONLY <1>1, <1>2, <1>3, <1>4, Zenon DEF ExtBit
<1>9. (x \div p) % 2 \in {0, 1}
  BY ONLY <1>6, <1>7 DEF Byte
<1>10. ASSUME k <= 8 * Len(s)
       PROVE  ExtBit(s, k) = (s[((k - 1) \div 8) + 1] \div PowersOf2[8 - ((k - 1) % 8)]) % 2
  <2>1. Len(s) \in Nat
    BY s \in Seq(Byte)
  <2>2. i <= Len(s)
    BY ONLY <1>1, <1>10, <2>1, k \in Nat, 1 <= k
  <2>3. x = s[i]
    BY ONLY <1>4, <2>2, Zenon DEF Ext
  <2> QED  BY ONLY <1>1, <1>2, <1>3, <1>8, <2>3, Zenon DEF Power
<1>11. ASSUME k > 8 * Len(s)
       PROVE  ExtBit(s, k) = 0
  <2>1. Len(s) \in Nat
    BY s \in Seq(Byte)
  <2>2. ~(i <= Len(s))
    BY ONLY <1>1, <1>11, <2>1, k \in Nat, 1 <= k
  <2>3. x = 0
    BY ONLY <1>4, <2>2, Zenon DEF Ext
  <2>4. (0 \div p) % 2 = 0
    BY ONLY <1>6
  <2> QED  BY ONLY <1>8, <2>3, <2>4, Zenon
<1> QED  BY ONLY <1>8, <1>9, <1>10, <1>11, Zenon

(* b is the first m bits of s and the zeros after it. *)
IsBits(b, s, m) == b \in Seq({0, 1}) /\ Len(b) = m /\ \A k \in 1..m : b[k] = ExtBit(s, k)

(* They form a sequence. *)
LEMMA FunctionBits ==
  ASSUME NEW b, NEW s \in Seq(Byte), NEW m \in Nat, b = [k \in 1..m |-> ExtBit(s, k)]
  PROVE  IsBits(b, s, m)
<1>1. ASSUME NEW k \in 1..m PROVE ExtBit(s, k) \in {0, 1}
  <2>1. k \in Nat /\ 1 <= k
    BY ONLY <1>1, m \in Nat
  <2> QED  BY ONLY <2>1, ExtBitIs, s \in Seq(Byte), Zenon
<1>2. b \in [1..m -> {0, 1}]
  BY ONLY <1>1, b = [k \in 1..m |-> ExtBit(s, k)], Zenon
<1>3. b \in Seq({0, 1})
  BY ONLY <1>2, m \in Nat
<1>4. Len(b) = m
  BY ONLY <1>2, <1>3, m \in Nat
<1>5. \A k \in 1..m : b[k] = ExtBit(s, k)
  BY ONLY b = [k \in 1..m |-> ExtBit(s, k)], Zenon
<1> QED  BY ONLY <1>3, <1>4, <1>5, Zenon DEF IsBits

(* Cutting bytes into bits gives the bits of s, *)
LEMMA BitsOfBytes ==
  ASSUME NEW s \in Seq(Byte)
  PROVE  IsBits(Bits(s, 8), s, 8 * Len(s))
<1>1. PICK n : n = Len(s)
  BY Zenon
<1>2. n \in Nat /\ n * 8 = 8 * n /\ 8 * n \in Nat
  <2>1. n \in Nat
    BY <1>1
  <2> QED  BY ONLY <2>1
<1>3. Bits(s, 8) =
        [k \in 1..(8 * n) |-> (s[((k - 1) \div 8) + 1] \div PowersOf2[8 - ((k - 1) % 8)]) % 2]
  BY ONLY <1>1, <1>2, Zenon DEF Bits
<1>4. ASSUME NEW k \in 1..(8 * n)
      PROVE  (s[((k - 1) \div 8) + 1] \div PowersOf2[8 - ((k - 1) % 8)]) % 2 = ExtBit(s, k)
  <2>1. k \in Nat /\ 1 <= k /\ k <= 8 * n
    BY ONLY <1>2, <1>4
  <2> QED  BY ONLY <1>1, <2>1, ExtBitIs, s \in Seq(Byte), Zenon
<1>5. Bits(s, 8) = [k \in 1..(8 * n) |-> ExtBit(s, k)]
  BY ONLY <1>3, <1>4, Zenon
<1> QED  BY ONLY <1>1, <1>2, <1>5, FunctionBits, s \in Seq(Byte), Zenon

(* and so does cutting the sextets of s. *)
LEMMA BitsOfSextets ==
  ASSUME NEW s \in Seq(Byte), NEW m \in Nat, NEW w \in Seq(Sextet), Len(w) = m,
         \A j \in 1..m : w[j] = SextetAt(s, j)
  PROVE  IsBits(Bits(w, 6), s, 6 * m)
<1>1. Len(w) * 6 = 6 * m /\ 6 * m \in Nat
  BY ONLY m \in Nat, Len(w) = m
<1>2. Bits(w, 6) =
        [k \in 1..(6 * m) |-> (w[((k - 1) \div 6) + 1] \div Power(6 - ((k - 1) % 6))) % 2]
  BY ONLY <1>1, Zenon DEF Bits, Power
<1>3. ASSUME NEW k \in 1..(6 * m)
      PROVE  (w[((k - 1) \div 6) + 1] \div Power(6 - ((k - 1) % 6))) % 2 = ExtBit(s, k)
  <2>1. k \in Nat /\ 1 <= k /\ ((k - 1) \div 6) + 1 \in 1..m
    BY ONLY <1>3, m \in Nat
  <2>2. w[((k - 1) \div 6) + 1] = SextetAt(s, ((k - 1) \div 6) + 1)
    BY ONLY <2>1, \A j \in 1..m : w[j] = SextetAt(s, j), Zenon
  <2> QED  BY ONLY <2>1, <2>2, BitsAgree, s \in Seq(Byte), Zenon
<1>4. Bits(w, 6) = [k \in 1..(6 * m) |-> ExtBit(s, k)]
  BY ONLY <1>2, <1>3, Zenon
<1> QED  BY ONLY <1>1, <1>4, FunctionBits, s \in Seq(Byte), Zenon

(* The code has room for every bit of s. *)
LEMMA BitCount ==
  ASSUME NEW f \in Nat, NEW r \in 0..2
  PROVE  /\ 8 * (3 * f + r) \in Nat /\ 8 * (3 * f + r) <= 6 * (4 * f + Extra(r))
         /\ 4 * f + Extra(r) \in Nat /\ 6 * (4 * f + Extra(r)) \in Nat
         /\ 4 * f + Extra(r) <= IF r = 0 THEN 4 * f ELSE 4 * f + 4
<1>1. r = 0 \/ r = 1 \/ r = 2
  OBVIOUS
<1> QED  BY ONLY <1>1, f \in Nat DEF Extra

(* p is the first m elements of c. *)
IsPrefixOf(p, c, m, S) == p \in Seq(S) /\ Len(p) = m /\ \A j \in 1..m : p[j] = c[j]

(* What SubSeq gives. *)
LEMMA PrefixIs ==
  ASSUME NEW S, NEW c \in Seq(S), NEW m \in Nat, m <= Len(c)
  PROVE  IsPrefixOf(SubSeq(c, 1, m), c, m, S)
<1>1. PICK p : p = SubSeq(c, 1, m)
  BY Zenon
<1>2. p \in Seq(S) /\ Len(p) = m
  <2>1. CASE m = 0
    BY ONLY <1>1, <2>1, c \in Seq(S)
  <2>2. CASE m # 0
    BY ONLY <1>1, <2>2, c \in Seq(S), m \in Nat, m <= Len(c), SubSeqProperties
  <2> QED  BY ONLY <2>1, <2>2
<1>3. \A j \in 1..m : p[j] = c[j]
  BY ONLY <1>1, c \in Seq(S), m \in Nat, m <= Len(c), SubSeqProperties
<1> QED  BY ONLY <1>1, <1>2, <1>3, Zenon DEF IsPrefixOf

(* The first m characters of c stand for the sextets of s. *)
Spells(c, s, m) == \A j \in 1..m : c[j] = Letter(SextetAt(s, j)) /\ SextetAt(s, j) \in Sextet

(* w is the first m sextets of s. *)
IsFound(w, s, m) == w \in Seq(Sextet) /\ Len(w) = m /\ \A j \in 1..m : w[j] = SextetAt(s, j)

(* Looking the letters of a code up in base64_chars gives the sextets. *)
LEMMA FoundAre ==
  ASSUME NEW s, NEW m \in Nat, NEW c, NEW p, IsPrefixOf(p, c, m, Nat),
         Spells(c, s, m),
         NEW w, w = [i \in DOMAIN p |-> Find(p[i])]
  PROVE  IsFound(w, s, m)
<1>1. p \in Seq(Nat) /\ Len(p) = m /\ \A j \in 1..m : p[j] = c[j]
  BY ONLY IsPrefixOf(p, c, m, Nat), Zenon DEF IsPrefixOf
<1>2. DOMAIN p = 1..m
  BY ONLY <1>1, m \in Nat
<1>3. \A j \in 1..m : w[j] = SextetAt(s, j)
  BY ONLY <1>1, <1>2, FindLetter, w = [i \in DOMAIN p |-> Find(p[i])],
          Spells(c, s, m), Zenon DEF Spells
<1>4. w \in [1..m -> Sextet]
  BY ONLY <1>2, <1>3, w = [i \in DOMAIN p |-> Find(p[i])],
          Spells(c, s, m), Zenon DEF Spells
<1>5. w \in Seq(Sextet)
  BY ONLY <1>4, m \in Nat
<1>6. Len(w) = m
  BY ONLY <1>4, <1>5, m \in Nat
<1> QED  BY ONLY <1>3, <1>5, <1>6, Zenon DEF IsFound

(* For every string but the empty one, of any length, the code that           *)
(* EncodeBase64 gives has a length that is a multiple of 4, ends in '='       *)
(* exactly beyond the letters needed, spells the bits of the string with      *)
(* zeros added, and is decoded by DecodeBase64 to the string.                 *)
THEOREM Base64Correct ==
  ASSUME NEW s \in Seq(Byte), s # <<>>
  PROVE  RoundTrips(s)
<1>1. PICK f \in Nat, r \in 0..2 : Len(s) = 3 * f + r
  <2>1. Len(s) \in Nat
    OBVIOUS
  <2>2. Len(s) \div 3 \in Nat /\ Len(s) % 3 \in 0..2 /\ Len(s) = 3 * (Len(s) \div 3) + (Len(s) % 3)
    BY ONLY <2>1
  <2> QED  BY ONLY <2>2, Zenon
<1>2. PICK c : c = EncodeBase64(s)
  BY Zenon
<1>3. PICK m : m = 4 * f + Extra(r)
  BY Zenon
<1>4. PICK n : n = 8 * Len(s)
  BY Zenon
<1>5. IsCode(c, s, f, r)
  BY ONLY <1>1, <1>2, EncodedIs, s \in Seq(Byte)
<1>6. /\ c \in Seq(Nat)
      /\ Len(c) = IF r = 0 THEN 4 * f ELSE 4 * f + 4
      /\ \A j \in 1..m : c[j] = Letter(SextetAt(s, j)) /\ SextetAt(s, j) \in Sextet
      /\ \A j \in (m + 1)..Len(c) : c[j] = 61
  BY ONLY <1>3, <1>5, Zenon DEF IsCode
<1>7. m \in Nat /\ m <= Len(c) /\ n \in Nat /\ n <= 6 * m /\ 6 * m \in Nat
  <2>1. /\ 8 * (3 * f + r) \in Nat /\ 8 * (3 * f + r) <= 6 * (4 * f + Extra(r))
        /\ 4 * f + Extra(r) \in Nat /\ 6 * (4 * f + Extra(r)) \in Nat
        /\ 4 * f + Extra(r) <= IF r = 0 THEN 4 * f ELSE 4 * f + 4
    BY ONLY f \in Nat, r \in 0..2, BitCount, Zenon
  <2>2. Len(c) = IF r = 0 THEN 4 * f ELSE 4 * f + 4
    BY ONLY <1>6, Zenon
  <2>3. n = 8 * (3 * f + r)
    BY ONLY <1>1, <1>4, Zenon
  <2> QED  BY ONLY <1>3, <2>1, <2>2, <2>3, Zenon
<1>8. PICK p : p = SubSeq(c, 1, m)
  BY Zenon
<1>9. IsPrefixOf(p, c, m, Nat)
  BY ONLY <1>6, <1>7, <1>8, PrefixIs, Zenon
<1>10. p \in Seq(Nat) /\ Len(p) = m /\ \A j \in 1..m : p[j] = c[j]
  BY ONLY <1>9, Zenon DEF IsPrefixOf
<1>11. PICK w : w = [i \in DOMAIN p |-> Find(p[i])]
  BY Zenon
<1>12. w \in Seq(Sextet) /\ Len(w) = m /\ \A j \in 1..m : w[j] = SextetAt(s, j)
  <2>1. Spells(c, s, m)
    BY ONLY <1>6, Zenon DEF Spells
  <2>2. IsFound(w, s, m)
    BY ONLY <1>7, <1>9, <1>11, <2>1, FoundAre, Zenon
  <2> QED  BY ONLY <2>2, Zenon DEF IsFound
<1>13. PICK b : b = Bits(w, 6)
  BY Zenon
<1>14. PICK d : d = Bits(s, 8)
  BY Zenon
<1>15. b \in Seq({0, 1}) /\ Len(b) = 6 * m /\ \A k \in 1..(6 * m) : b[k] = ExtBit(s, k)
  <2>1. IsBits(b, s, 6 * m)
    BY ONLY <1>7, <1>12, <1>13, BitsOfSextets, s \in Seq(Byte), Zenon
  <2> QED  BY ONLY <2>1, Zenon DEF IsBits
<1>16. d \in Seq({0, 1}) /\ Len(d) = n /\ \A k \in 1..n : d[k] = ExtBit(s, k)
  <2>1. IsBits(d, s, n)
    BY ONLY <1>4, <1>14, BitsOfBytes, s \in Seq(Byte), Zenon
  <2> QED  BY ONLY <2>1, Zenon DEF IsBits
<1>17. SubSeq(b, 1, n) = d
  <2>1. PICK e : e = SubSeq(b, 1, n)
    BY Zenon
  <2>2. n <= Len(b)
    BY ONLY <1>7, <1>15
  <2>3. IsPrefixOf(e, b, n, {0, 1})
    BY ONLY <1>7, <1>15, <2>1, <2>2, PrefixIs, Zenon
  <2>4. e \in Seq({0, 1}) /\ Len(e) = n /\ \A k \in 1..n : e[k] = b[k]
    BY ONLY <2>3, Zenon DEF IsPrefixOf
  <2>5. \A k \in 1..n : k \in 1..(6 * m)
    BY ONLY <1>7
  <2>6. \A k \in 1..n : e[k] = d[k]
    BY ONLY <1>15, <1>16, <2>4, <2>5, Zenon
  <2> QED  BY ONLY <1>16, <2>1, <2>4, <2>6, SeqEqual, Zenon
<1>18. ASSUME NEW k \in (n + 1)..Len(b) PROVE b[k] = 0
  <2>1. k \in Nat /\ 1 <= k /\ k > n /\ k \in 1..(6 * m)
    BY ONLY <1>7, <1>15, <1>18
  <2>2. ExtBit(s, k) = 0
    BY ONLY <1>4, <2>1, ExtBitIs, s \in Seq(Byte), Zenon
  <2> QED  BY ONLY <1>15, <2>1, <2>2, Zenon
<1>19. ASSUME NEW i \in DOMAIN c PROVE c[i] = 61 <=> i > Len(p)
  <2>1. i \in Nat /\ (i \in 1..m \/ i \in (m + 1)..Len(c)) /\ (i \in 1..m => ~(i > m)) /\ (i \in (m + 1)..Len(c) => i > m)
    <3>1. DOMAIN c = 1..Len(c) /\ Len(c) \in Nat
      BY ONLY <1>6
    <3> QED  BY ONLY <1>7, <1>19, <3>1
  <2>2. i \in 1..m => c[i] # 61
    BY ONLY <1>6, LetterNotEquals, Zenon
  <2>3. i \in (m + 1)..Len(c) => c[i] = 61
    BY ONLY <1>6, Zenon
  <2> QED  BY ONLY <1>10, <2>1, <2>2, <2>3, Zenon
<1>20. Len(c) = 4 * ((Len(s) + 2) \div 3) /\ (8 * Len(s) + 5) \div 6 = m
  <2>1. /\ (8 * (3 * f + r) + 5) \div 6 = 4 * f + Extra(r)
        /\ 4 * (((3 * f + r) + 2) \div 3) = IF r = 0 THEN 4 * f ELSE 4 * f + 4
    BY ONLY f \in Nat, r \in 0..2, PadIs, Zenon
  <2> QED  BY ONLY <1>1, <1>3, <1>6, <2>1, Zenon
<1>21. DecodeBase64(c) = s
  BY ONLY <1>1, <1>5, DecodesBack, s \in Seq(Byte), s # <<>>
<1>22. p = SubSeq(c, 1, (8 * Len(s) + 5) \div 6)
  BY ONLY <1>8, <1>20, Zenon
<1>23. \A i \in DOMAIN c : c[i] = Equals <=> i > Len(p)
  BY ONLY <1>19, Zenon DEF Equals
<1> QED  BY ONLY <1>2, <1>4, <1>11, <1>13, <1>14, <1>17, <1>18, <1>20, <1>21, <1>22, <1>23, Zenon DEF RoundTrips

(* Whatever text has arrived, in whatever chunks, its base64 code is right    *)
(* and decodes to it.                                                         *)
THEOREM Base64Kept ==
  ASSUME Bytes \subseteq Byte, MaxChunk \in Nat
  PROVE  TextSpec => []Base64RoundTrip
<1>1. TextInit => TextInv
  BY ValidateEmpty DEF TextInit, WS_UTF8_ACCEPT, TextInv, State
<1>2. TextInv /\ [TextNext]_textVars => TextInv'
  BY TextInductive
<1>3. TextInv => Base64RoundTrip
  BY Base64Correct, Zenon DEF TextInv, Base64RoundTrip
<1> QED  BY <1>1, <1>2, <1>3, PTL DEF TextSpec
===============================================================================
