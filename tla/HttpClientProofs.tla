--------------------------- MODULE HttpClientProofs ---------------------------
(***************************************************************************)
(* Proofs about the HTTP clients.  HttpSession, for any number of requests *)
(* and body units: types, one handler call for each connection, and the    *)
(* body's way from the socket through the BIO to the parser.               *)
(* HttpBeastSession: whose timer can stop a run.  HostCheck, for names and *)
(* certificates of any length: ValidateHostname and hostmatch against      *)
(* RFC 6125; and with it, which handshakes and responses HttpEvSession     *)
(* takes.                                                                  *)
(***************************************************************************)
EXTENDS HttpClient, SequenceTheorems, WellFoundedInduction, TLAPS

Units == 1..MaxUnits

Sorted(s) == \A i, j \in 1..Len(s) : i < j => s[i] < s[j]

Elems(s) == {s[i] : i \in 1..Len(s)}

-----------------------------------------------------------------------------
(* A sequence cut after its first k elements. *)
LEMMA Cut ==
  ASSUME NEW s \in Seq(Units), NEW k \in Nat, k =< Len(s),
         NEW p, p = SubSeq(s, 1, k), NEW q, q = SubSeq(s, k + 1, Len(s))
  PROVE  /\ p \in Seq(Units) /\ Len(p) = k /\ \A i \in 1..k : p[i] = s[i]
         /\ q \in Seq(Units) /\ Len(q) = Len(s) - k
         /\ \A i \in 1..(Len(s) - k) : q[i] = s[k + i]
<1>1. Len(s) \in Nat /\ \A i \in 1..Len(s) : s[i] \in Units
  BY ElementOfSeq, LenProperties
<1>2. /\ p \in Seq(Units) /\ Len(p) = IF 1 <= k THEN k - 1 + 1 ELSE 0
      /\ \A i \in 1..(k - 1 + 1) : p[i] = s[1 + i - 1]
  <2>1. \A i \in 1..k : s[i] \in Units
    BY <1>1
  <2> QED  BY <2>1, SubSeqProperties
<1>3. /\ q \in Seq(Units) /\ Len(q) = IF k + 1 <= Len(s) THEN Len(s) - (k + 1) + 1 ELSE 0
      /\ \A i \in 1..(Len(s) - (k + 1) + 1) : q[i] = s[(k + 1) + i - 1]
  <2>1. k + 1 \in Int /\ Len(s) \in Int /\ \A i \in (k + 1)..Len(s) : s[i] \in Units
    BY <1>1
  <2> QED  BY <2>1, SubSeqProperties
<1> QED  BY <1>1, <1>2, <1>3
(* t is s followed by x. *)
IsJoin(s, x, t) ==
  /\ t \in Seq(Units) /\ Len(t) = Len(s) + Len(x) /\ Len(s) \in Nat /\ Len(x) \in Nat
  /\ \A i \in 1..Len(s) : s[i] \in Int /\ t[i] = s[i]
  /\ \A i \in 1..Len(x) : x[i] \in Int /\ Len(s) + i \in 1..Len(t) /\ t[Len(s) + i] = x[i]
  /\ \A i \in 1..Len(t) : \/ i \in 1..Len(s) /\ t[i] = s[i]
                          \/ i > Len(s) /\ i - Len(s) \in 1..Len(x) /\ t[i] = x[i - Len(s)]

(* Concatenation joins. *)
LEMMA Joined == ASSUME NEW s \in Seq(Units), NEW x \in Seq(Units) PROVE IsJoin(s, x, s \o x)
<1>1. /\ s \o x \in Seq(Units) /\ Len(s \o x) = Len(s) + Len(x)
      /\ \A i \in 1..(Len(s) + Len(x)) : (s \o x)[i] = IF i <= Len(s) THEN s[i] ELSE x[i - Len(s)]
  BY ConcatProperties
<1>2. /\ Len(s) \in Nat /\ Len(x) \in Nat
      /\ \A i \in 1..Len(s) : s[i] \in Units
      /\ \A i \in 1..Len(x) : x[i] \in Units
  BY LenProperties, ElementOfSeq
<1>3. \A u \in Units : u \in Int
  BY DEF Units
<1> DEFINE t == s \o x
<1> HIDE DEF t
<1>4. /\ t \in Seq(Units) /\ Len(t) = Len(s) + Len(x)
      /\ \A i \in 1..(Len(s) + Len(x)) : t[i] = IF i <= Len(s) THEN s[i] ELSE x[i - Len(s)]
  BY <1>1 DEF t
<1>5. \A i \in 1..Len(s) : s[i] \in Int /\ t[i] = s[i]
  BY <1>2, <1>3, <1>4
<1>6. ASSUME NEW i \in 1..Len(x)
      PROVE  x[i] \in Int /\ Len(s) + i \in 1..Len(t) /\ t[Len(s) + i] = x[i]
  <2>1. Len(s) + i \in 1..(Len(s) + Len(x)) /\ ~(Len(s) + i <= Len(s)) /\ (Len(s) + i) - Len(s) = i
    BY <1>2
  <2> QED  BY <1>2, <1>3, <1>4, <2>1
<1>7. ASSUME NEW i \in 1..Len(t)
      PROVE  \/ i \in 1..Len(s) /\ t[i] = s[i]
             \/ i > Len(s) /\ i - Len(s) \in 1..Len(x) /\ t[i] = x[i - Len(s)]
  <2>1. CASE i <= Len(s)
    BY <1>2, <1>4, <2>1
  <2>2. CASE ~(i <= Len(s))
    BY <1>2, <1>4, <2>2
  <2> QED  BY <2>1, <2>2
<1>8. IsJoin(s, x, t)
  BY <1>2, <1>4, <1>5, <1>6, <1>7 DEF IsJoin
<1> QED  BY <1>8 DEF t

(* Ordered units x that are new to s, and newer than what s holds, in order,  *)
(* after its first n units.                                                   *)
FreshFor(s, n, x) ==
  /\ Sorted(x)
  /\ \A i, j \in 1..Len(s) : i # j => s[i] # s[j]
  /\ \A i \in 1..Len(s), j \in 1..Len(x) : s[i] # x[j]
  /\ \A i, j \in (n + 1)..Len(s) : i < j => s[i] < s[j]
  /\ \A i \in (n + 1)..Len(s), j \in 1..Len(x) : s[i] < x[j]

(* Fresh units keep a sequence free of repetitions, and ordered after n. *)
LEMMA Appending ==
  ASSUME NEW s \in Seq(Units), NEW x \in Seq(Units), NEW n \in 0..Len(s), NEW t, IsJoin(s, x, t),
         FreshFor(s, n, x)
  PROVE  /\ Elems(t) = Elems(s) \cup Elems(x)
         /\ \A i, j \in 1..Len(t) : i # j => t[i] # t[j]
         /\ \A i, j \in (n + 1)..Len(t) : i < j => t[i] < t[j]
<1>1. Elems(t) = Elems(s) \cup Elems(x)
  <2>1. \A i \in 1..Len(t) : t[i] \in Elems(s) \cup Elems(x)
    BY DEF Elems, IsJoin
  <2>2. \A i \in 1..Len(s) : s[i] \in Elems(t)
    BY DEF Elems, IsJoin
  <2>3. \A i \in 1..Len(x) : x[i] \in Elems(t)
    BY DEF Elems, IsJoin
  <2> QED  BY <2>1, <2>2, <2>3 DEF Elems
<1>2. ASSUME NEW i \in 1..Len(t), NEW j \in 1..Len(t), i < j
      PROVE  t[i] # t[j] /\ (i > n => t[i] < t[j])
  <2>0. Len(s) \in Nat /\ Len(x) \in Nat /\ Len(t) \in Nat /\ n \in Nat
    BY DEF IsJoin
  <2>1. CASE j =< Len(s)
    <3>1. i \in 1..Len(s) /\ j \in 1..Len(s) /\ t[i] = s[i] /\ t[j] = s[j]
      BY <1>2, <2>0, <2>1 DEF IsJoin
    <3>2. i > n => i \in (n + 1)..Len(s) /\ j \in (n + 1)..Len(s)
      BY <1>2, <2>0, <3>1
    <3> QED  BY <1>2, <2>0, <3>1, <3>2 DEF FreshFor
  <2>2. CASE i =< Len(s) /\ j > Len(s)
    <3>1. /\ i \in 1..Len(s) /\ t[i] = s[i]
          /\ j - Len(s) \in 1..Len(x) /\ t[j] = x[j - Len(s)]
      BY <1>2, <2>0, <2>2 DEF IsJoin
    <3>2. i > n => i \in (n + 1)..Len(s)
      BY <2>0, <3>1
    <3> QED  BY <3>1, <3>2 DEF FreshFor
  <2>3. CASE i > Len(s)
    <3>1. /\ i - Len(s) \in 1..Len(x) /\ t[i] = x[i - Len(s)]
          /\ j - Len(s) \in 1..Len(x) /\ t[j] = x[j - Len(s)] /\ i - Len(s) < j - Len(s)
      BY <1>2, <2>0, <2>3 DEF IsJoin
    <3>2. t[i] < t[j] /\ t[i] \in Int /\ t[j] \in Int
      BY <3>1 DEF FreshFor, Sorted, IsJoin
    <3> QED  BY <3>2
  <2> QED  BY <2>0, <2>1, <2>2, <2>3
<1>3. Len(t) \in Nat
  BY DEF IsJoin
<1>4. \A i, j \in 1..Len(t) : i # j => t[i] # t[j]
  BY <1>2, <1>3
<1>5. \A i, j \in (n + 1)..Len(t) : i < j => t[i] < t[j]
  BY <1>2, <1>3
<1> QED  BY <1>1, <1>4, <1>5

-----------------------------------------------------------------------------
(* A connection that is open has not been answered, every other one has; a   *)
(* request that is on its way has not made its connection.                   *)
AnswerInv ==
  /\ opened =< requests
  /\ socket_ \in {"resolving", "connecting"} => opened < requests
  /\ socket_ = "open" => opened = responses + 1
  /\ socket_ # "open" => opened = responses
  /\ loop = "idle" => socket_ # "open"

(* The units are numbered in the order of sending: what waits in the BIO is  *)
(* in order, and what is on the wire is newer than all that was received.    *)
(* The parser and the BIO hold the received units, each once.  On a TLS      *)
(* connection, what the parser got since the request began is older than     *)
(* what the BIO holds.                                                       *)
UnitsInv ==
  /\ Sorted(wire) /\ Sorted(read_bio_)
  /\ \A u \in received : u =< sent
  /\ \A i \in 1..Len(wire) : wire[i] =< sent /\ \A u \in received : u < wire[i]
  /\ Elems(bodyStream_) \cup Elems(read_bio_) = received
  /\ \A i, j \in 1..Len(bodyStream_) : i # j => bodyStream_[i] # bodyStream_[j]
  /\ \A i \in 1..Len(bodyStream_), j \in 1..Len(read_bio_) : bodyStream_[i] # read_bio_[j]
  /\ \A i, j \in (bodyStart + 1)..Len(bodyStream_) : i < j => bodyStream_[i] < bodyStream_[j]
  /\ https => \A i \in (bodyStart + 1)..Len(bodyStream_), j \in 1..Len(read_bio_) :
                bodyStream_[i] < read_bio_[j]

IInv == TypeOK /\ AnswerInv /\ UnitsInv

(* The sequences and their elements, under the type invariant. *)
LEMMA SeqFacts ==
  ASSUME TypeOK
  PROVE  /\ wire \in Seq(Units) /\ Len(wire) \in Nat /\ \A i \in 1..Len(wire) : wire[i] \in Units
         /\ read_bio_ \in Seq(Units) /\ Len(read_bio_) \in Nat
         /\ \A i \in 1..Len(read_bio_) : read_bio_[i] \in Units
         /\ bodyStream_ \in Seq(Units) /\ Len(bodyStream_) \in Nat
         /\ \A i \in 1..Len(bodyStream_) : bodyStream_[i] \in Units
BY ElementOfSeq, LenProperties DEF TypeOK, Units

(* It holds initially. *)
LEMMA InitHolds == ASSUME Init PROVE IInv
<1>1. <<>> \in Seq(1..MaxUnits) /\ Len(<<>>) = 0
  OBVIOUS
<1>2. TypeOK
  <2>1. https \in BOOLEAN
    BY DEF Init
  <2>2. bodyStart \in 0..Len(bodyStream_) /\ received \subseteq 1..MaxUnits
    BY <1>1 DEF Init
  <2>3. \A s \in {read_bio_, bodyStream_, wire} : s \in Seq(1..MaxUnits)
    BY <1>1 DEF Init
  <2> QED  BY <2>1, <2>2, <2>3, HttpSessionAssumption DEF Init, TypeOK
<1>3. AnswerInv
  BY HttpSessionAssumption DEF Init, AnswerInv
<1>4. UnitsInv
  BY <1>1 DEF Init, UnitsInv, Sorted, Elems
<1> QED  BY <1>2, <1>3, <1>4 DEF IInv

(* The steps that move no unit. *)
LEMMA DoRequestKeeps == ASSUME IInv, NEW secure \in BOOLEAN, DoRequest(secure) PROVE IInv'
<1> USE HttpSessionAssumption
<1>0. <<>> \in Seq(1..MaxUnits) /\ Len(<<>>) = 0 /\ Len(bodyStream_) \in Nat
  BY SeqFacts DEF IInv
<1>1. TypeOK'
  BY <1>0 DEF IInv, TypeOK, DoRequest
<1>2. AnswerInv'
  BY DEF IInv, TypeOK, AnswerInv, DoRequest
<1>3. UnitsInv'
  <2>1. wire' = <<>> /\ bodyStart' = Len(bodyStream_) /\ UNCHANGED <<read_bio_, bodyStream_, sent, received>>
    BY DEF DoRequest
  <2>2. 1..Len(wire') = {} /\ (bodyStart' + 1)..Len(bodyStream_') = {}
    BY <1>0, <2>1
  <2>3. Sorted(wire')
    BY <2>2 DEF Sorted
  <2>4. UnitsInv
    BY DEF IInv
  <2> QED  BY ONLY <2>1, <2>2, <2>3, <2>4 DEF UnitsInv, Sorted, Elems
<1> QED  BY <1>1, <1>2, <1>3 DEF IInv

(* UnitsInv depends on the sequences of units and on nothing else. *)
LEMMA UnitsKept ==
  ASSUME IInv, UNCHANGED <<wire, read_bio_, bodyStream_, received, sent, bodyStart, https>>
  PROVE  UnitsInv'
BY DEF IInv, UnitsInv, Sorted, Elems

(* Lookup, connection, handshake, end of the connection and of uv_run. *)
LEMMA ControlKeeps ==
  ASSUME IInv,
         \/ \E found \in BOOLEAN : OnResolved(found)
         \/ \E connected \in BOOLEAN : OnConnect(connected)
         \/ ReadFromSSLHandshake \/ OnReadGarbage \/ OnReadEnd \/ UvRunReturns
  PROVE  IInv'
<1> USE HttpSessionAssumption
<1>1. UNCHANGED <<wire, read_bio_, bodyStream_, received, sent, bodyStart, https>>
  BY DEF OnResolved, OnConnect, ReadFromSSLHandshake, OnReadGarbage, OnReadEnd, UvRunReturns, netVars
<1>2. UnitsInv'
  BY <1>1, UnitsKept
<1>3. ASSUME NEW found \in BOOLEAN, OnResolved(found) PROVE TypeOK' /\ AnswerInv'
  <2>1. socket_ = "resolving" /\ socket_' \in {"connecting", "failed"}
    BY <1>3 DEF OnResolved
  <2>2. UNCHANGED <<loop, ssl_, asked, requests, opened, responses>>
    BY <1>3 DEF OnResolved, netVars
  <2> QED  BY <1>1, <2>1, <2>2 DEF IInv, TypeOK, AnswerInv
<1>4. ASSUME NEW connected \in BOOLEAN, OnConnect(connected) PROVE TypeOK' /\ AnswerInv'
  BY <1>1, <1>4 DEF OnConnect, IInv, TypeOK, AnswerInv, Running
<1>5. ASSUME ReadFromSSLHandshake PROVE TypeOK' /\ AnswerInv'
  BY <1>1, <1>5 DEF ReadFromSSLHandshake, IInv, TypeOK, AnswerInv, Running
<1>6. ASSUME OnReadGarbage PROVE TypeOK' /\ AnswerInv'
  BY <1>1, <1>6 DEF OnReadGarbage, IInv, TypeOK, AnswerInv, Running, netVars
<1>7. ASSUME OnReadEnd PROVE TypeOK' /\ AnswerInv'
  BY <1>1, <1>7 DEF OnReadEnd, IInv, TypeOK, AnswerInv, Running, netVars
<1>8. ASSUME UvRunReturns PROVE TypeOK' /\ AnswerInv'
  BY <1>1, <1>8 DEF UvRunReturns, IInv, TypeOK, AnswerInv, Running, netVars
<1> QED  BY <1>2, <1>3, <1>4, <1>5, <1>6, <1>7, <1>8 DEF IInv

(* The next unit is put on the wire. *)
LEMMA ServerSendsKeeps == ASSUME IInv, ServerSends PROVE IInv'
<1> USE HttpSessionAssumption
<1>0. sent + 1 \in Units /\ sent \in Nat
  BY DEF IInv, TypeOK, ServerSends, Units
<1>1. /\ wire' \in Seq(Units) /\ Len(wire') = Len(wire) + 1
      /\ \A i \in 1..Len(wire) : wire'[i] = wire[i]
      /\ wire'[Len(wire) + 1] = sent + 1
  <2>1. wire' = Append(wire, sent + 1) /\ wire \in Seq(Units)
    BY SeqFacts DEF IInv, ServerSends
  <2> QED  BY <2>1, <1>0, AppendProperties
<1>2. TypeOK'
  BY <1>0, <1>1 DEF IInv, TypeOK, ServerSends, Units
<1>3. AnswerInv'
  BY DEF IInv, AnswerInv, ServerSends
<1>4. UnitsInv'
  <2>0. /\ Len(wire) \in Nat /\ \A i \in 1..Len(wire) : wire[i] \in Int /\ wire[i] =< sent
        /\ \A i, j \in 1..Len(wire) : i < j => wire[i] < wire[j]
    BY SeqFacts DEF IInv, UnitsInv, Sorted, Units
  <2>1. Sorted(wire')
    <3> SUFFICES ASSUME NEW i \in 1..Len(wire'), NEW j \in 1..Len(wire'), i < j
                 PROVE  wire'[i] < wire'[j]
      BY DEF Sorted
    <3> QED  BY <1>0, <1>1, <2>0
  <2>2. \A i \in 1..Len(wire') : wire'[i] =< sent' /\ \A u \in received' : u < wire'[i]
    BY <1>0, <1>1, SeqFacts DEF IInv, UnitsInv, ServerSends, Units, TypeOK
  <2>3. \A u \in received' : u =< sent'
    BY <1>0 DEF IInv, UnitsInv, ServerSends, TypeOK
  <2> QED  BY <2>1, <2>2, <2>3 DEF IInv, UnitsInv, Sorted, Elems, ServerSends
<1> QED  BY <1>2, <1>3, <1>4 DEF IInv

-----------------------------------------------------------------------------
(* The steps that receive k units. *)
LEMMA ReceiveFacts ==
  ASSUME IInv, NEW k \in Nat, Receive(k), NEW p, p = SubSeq(wire, 1, k)
  PROVE  /\ p \in Seq(Units) /\ Len(p) = k /\ Sorted(p)
         /\ \A i \in 1..k : p[i] \in Units /\ \A u \in received : u < p[i]
         /\ wire' \in Seq(Units) /\ Sorted(wire')
         /\ received' = received \cup Elems(p) /\ received' \subseteq Units
         /\ \A u \in received' : u =< sent
         /\ \A i \in 1..Len(wire') : wire'[i] =< sent /\ \A u \in received' : u < wire'[i]
<1>0. /\ Len(wire) \in Nat /\ k =< Len(wire) /\ wire \in Seq(Units)
      /\ \A i \in 1..Len(wire) : wire[i] \in Units /\ wire[i] =< sent /\ \A u \in received : u < wire[i]
      /\ \A i, j \in 1..Len(wire) : i < j => wire[i] < wire[j]
      /\ received \subseteq Units /\ \A u \in received : u =< sent
  BY SeqFacts DEF IInv, TypeOK, UnitsInv, Sorted, Receive, Units
<1>1. wire' = SubSeq(wire, k + 1, Len(wire)) /\ received' = received \cup {wire[i] : i \in 1..k}
  BY DEF Receive
<1>2. /\ p \in Seq(Units) /\ Len(p) = k /\ \A i \in 1..k : p[i] = wire[i]
      /\ wire' \in Seq(Units) /\ Len(wire') = Len(wire) - k
      /\ \A i \in 1..(Len(wire) - k) : wire'[i] = wire[k + i]
  BY <1>0, <1>1, Cut
<1>3. received' = received \cup Elems(p)
  BY <1>1, <1>2 DEF Elems
<1>4. Sorted(p) /\ \A i \in 1..k : p[i] \in Units /\ \A u \in received : u < p[i]
  <2>1. \A i \in 1..k : i \in 1..Len(wire) /\ p[i] = wire[i]
    BY <1>0, <1>2
  <2>2. \A i, j \in 1..k : i < j => p[i] < p[j]
    BY ONLY <1>0, <2>1
  <2>3. \A i \in 1..k : p[i] \in Units /\ \A u \in received : u < p[i]
    BY ONLY <1>0, <2>1
  <2> QED  BY <1>2, <2>2, <2>3 DEF Sorted
<1>5. Sorted(wire')
  <2> SUFFICES ASSUME NEW i \in 1..Len(wire'), NEW j \in 1..Len(wire'), i < j
               PROVE  wire'[i] < wire'[j]
    BY DEF Sorted
  <2>1. k + i \in 1..Len(wire) /\ k + j \in 1..Len(wire) /\ k + i < k + j
    BY <1>0, <1>2
  <2>2. wire'[i] = wire[k + i] /\ wire'[j] = wire[k + j]
    BY <1>0, <1>2
  <2> QED  BY <1>0, <2>1, <2>2
<1>6. \A u \in received' : u =< sent /\ u \in Units
  BY <1>0, <1>1
<1>7. \A i \in 1..Len(wire') : wire'[i] =< sent /\ \A u \in received' : u < wire'[i]
  <2> SUFFICES ASSUME NEW i \in 1..Len(wire')
               PROVE  wire'[i] =< sent /\ \A u \in received' : u < wire'[i]
    OBVIOUS
  <2>1. k + i \in 1..Len(wire) /\ wire'[i] = wire[k + i]
    BY <1>0, <1>2
  <2>2. wire[k + i] =< sent /\ \A u \in received : u < wire[k + i]
    BY <1>0, <2>1
  <2>3. \A j \in 1..k : wire[j] < wire[k + i]
    BY <1>0, <2>1
  <2> QED  BY <1>1, <2>1, <2>2, <2>3
<1> QED  BY <1>2, <1>3, <1>4, <1>5, <1>6, <1>7

(* The control of a step that receives. *)
LEMMA ReceiveControl ==
  ASSUME IInv, NEW k \in Nat, Receive(k),
         bodyStream_' \in Seq(Units), read_bio_' \in Seq(Units), Len(bodyStream_) =< Len(bodyStream_')
  PROVE  TypeOK' /\ AnswerInv'
<1>1. wire' \in Seq(Units) /\ received' \subseteq Units
  BY ReceiveFacts
<1>2. Len(bodyStream_') \in Nat /\ Len(bodyStream_) \in Nat
  BY SeqFacts, LenProperties DEF IInv
<1>3. UNCHANGED <<loop, https, socket_, ssl_, asked, sent, bodyStart, requests, opened, responses>>
  BY DEF Receive
<1>4. bodyStart' \in 0..Len(bodyStream_')
  BY <1>2, <1>3 DEF IInv, TypeOK
<1>5. TypeOK'
  BY <1>1, <1>3, <1>4 DEF IInv, TypeOK, Units
<1>6. AnswerInv'
  BY <1>3 DEF IInv, AnswerInv
<1> QED  BY <1>5, <1>6

(* The units x go to the parser and those of rest stay in the BIO. *)
Splits(x, rest) ==
  /\ FreshFor(bodyStream_, bodyStart, x) /\ Sorted(rest)
  /\ Elems(bodyStream_) \cup Elems(x) \cup Elems(rest) = received'
  /\ \A i \in 1..Len(bodyStream_), j \in 1..Len(rest) : bodyStream_[i] # rest[j]
  /\ \A i \in 1..Len(x), j \in 1..Len(rest) : x[i] # rest[j]
  /\ https => /\ \A i \in 1..Len(x), j \in 1..Len(rest) : x[i] < rest[j]
              /\ \A i \in (bodyStart + 1)..Len(bodyStream_), j \in 1..Len(rest) :
                   bodyStream_[i] < rest[j]

(* Such a step keeps the invariant. *)
LEMMA ParserTakes ==
  ASSUME IInv, NEW k \in Nat, Receive(k),
         NEW x \in Seq(Units), NEW rest \in Seq(Units),
         IsJoin(bodyStream_, x, bodyStream_'), read_bio_' = rest, Splits(x, rest)
  PROVE  IInv'
<1>0. /\ bodyStart' = bodyStart /\ sent' = sent /\ https' = https
      /\ bodyStart \in 0..Len(bodyStream_)
  BY DEF Receive, IInv, TypeOK
<1>1. bodyStream_ \in Seq(Units) /\ Len(bodyStream_) \in Nat /\ Len(x) \in Nat /\ bodyStart \in Nat
  BY <1>0, SeqFacts, LenProperties DEF IInv
<1>2. IsJoin(bodyStream_, x, bodyStream_') /\ FreshFor(bodyStream_, bodyStart, x)
  BY DEF Splits
<1>3. /\ Elems(bodyStream_') = Elems(bodyStream_) \cup Elems(x)
      /\ \A i, j \in 1..Len(bodyStream_') : i # j => bodyStream_'[i] # bodyStream_'[j]
      /\ \A i, j \in (bodyStart + 1)..Len(bodyStream_') : i < j => bodyStream_'[i] < bodyStream_'[j]
  BY <1>0, <1>1, <1>2, Appending
<1>4. TypeOK' /\ AnswerInv'
  <2>1. bodyStream_' \in Seq(Units) /\ Len(bodyStream_) =< Len(bodyStream_')
    BY <1>1, <1>2 DEF IsJoin
  <2> QED  BY <2>1, ReceiveControl
<1>5. UnitsInv'
  <2>1. /\ Sorted(wire') /\ \A u \in received' : u =< sent
        /\ \A i \in 1..Len(wire') : wire'[i] =< sent /\ \A u \in received' : u < wire'[i]
    BY ReceiveFacts
  <2>2. ASSUME NEW i \in 1..Len(bodyStream_'), NEW j \in 1..Len(rest)
        PROVE  /\ bodyStream_'[i] # rest[j]
               /\ https /\ i > bodyStart => bodyStream_'[i] < rest[j]
    <3>1. CASE i \in 1..Len(bodyStream_) /\ bodyStream_'[i] = bodyStream_[i]
      BY <1>1, <3>1 DEF Splits
    <3>2. CASE i - Len(bodyStream_) \in 1..Len(x) /\ bodyStream_'[i] = x[i - Len(bodyStream_)]
      BY <3>2 DEF Splits
    <3> QED  BY <1>2, <3>1, <3>2 DEF IsJoin
  <2>3. Len(bodyStream_') \in Nat
    BY <1>1, <1>2 DEF IsJoin
  <2>4. https' => \A i \in (bodyStart' + 1)..Len(bodyStream_'), j \in 1..Len(read_bio_') :
                    bodyStream_'[i] < read_bio_'[j]
    BY <1>0, <1>1, <2>2, <2>3
  <2>5. \A i \in 1..Len(bodyStream_'), j \in 1..Len(read_bio_') : bodyStream_'[i] # read_bio_'[j]
    BY <2>2
  <2>6. Elems(bodyStream_') \cup Elems(read_bio_') = received' /\ Sorted(read_bio_')
    BY <1>3 DEF Splits
  <2> QED  BY <1>0, <1>3, <2>1, <2>4, <2>5, <2>6 DEF UnitsInv
<1> QED  BY <1>4, <1>5 DEF IInv

(* Where the received units are. *)
LEMMA Held ==
  ASSUME IInv
  PROVE  /\ \A i \in 1..Len(bodyStream_) : bodyStream_[i] \in received
         /\ \A i \in 1..Len(read_bio_) : read_bio_[i] \in received
         /\ Elems(bodyStream_) \cup Elems(read_bio_) = received
         /\ received \subseteq Units
BY DEF IInv, TypeOK, UnitsInv, Elems, Units

(* Over plain TCP the parser takes all that OnRead was given. *)
LEMMA OnReadPlainKeeps == ASSUME IInv, NEW k \in 1..MaxUnits, OnReadPlain(k) PROVE IInv'
<1> DEFINE p == SubSeq(wire, 1, k)
<1>0. /\ k \in Nat /\ Receive(k) /\ bodyStream_' = bodyStream_ \o p /\ read_bio_' = read_bio_
      /\ ~https /\ bodyStart \in Nat
  BY HttpSessionAssumption DEF OnReadPlain, IInv, TypeOK
<1>1. /\ p \in Seq(Units) /\ Len(p) = k /\ Sorted(p) /\ received' = received \cup Elems(p)
      /\ \A i \in 1..k : p[i] \in Units /\ \A u \in received : u < p[i]
  BY <1>0, ReceiveFacts
<1>2. read_bio_ \in Seq(Units) /\ Len(bodyStream_) \in Nat /\ Sorted(read_bio_)
  BY SeqFacts DEF IInv, UnitsInv
<1> HIDE DEF p
<1>3. \A u \in received, j \in 1..Len(p) : u < p[j] /\ u # p[j] /\ p[j] # u
  BY <1>1, Held DEF Units
<1>4. Splits(p, read_bio_)
  <2>1. FreshFor(bodyStream_, bodyStart, p)
    BY <1>0, <1>1, <1>2, <1>3, Held DEF IInv, UnitsInv, FreshFor
  <2>2. Elems(bodyStream_) \cup Elems(p) \cup Elems(read_bio_) = received'
    BY <1>1, Held
  <2>3. /\ \A i \in 1..Len(bodyStream_), j \in 1..Len(read_bio_) : bodyStream_[i] # read_bio_[j]
        /\ \A i \in 1..Len(p), j \in 1..Len(read_bio_) : p[i] # read_bio_[j]
    BY <1>3, Held DEF IInv, UnitsInv
  <2> QED  BY <1>0, <1>2, <2>1, <2>2, <2>3 DEF Splits
<1>5. IsJoin(bodyStream_, p, bodyStream_')
  <2>1. bodyStream_ \in Seq(Units)
    BY SeqFacts DEF IInv
  <2> QED  BY <1>0, <1>1, <2>1, Joined
<1>6. Receive(k) /\ k \in Nat /\ read_bio_' = read_bio_
  BY <1>0
<1> QED  BY <1>1, <1>2, <1>4, <1>5, <1>6, ParserTakes

(* Over TLS the k units go to the BIO, and SSL_read takes j from there. *)
LEMMA ReadFromSSLKeeps ==
  ASSUME IInv, NEW k \in 0..MaxUnits, NEW j \in 1..MaxUnits, ReadFromSSL(k, j)
  PROVE  IInv'
<1> DEFINE p == SubSeq(wire, 1, k)
           bio == read_bio_ \o p
           x == SubSeq(bio, 1, j)
           rest == SubSeq(bio, j + 1, Len(bio))
<1>0. /\ k \in Nat /\ j \in Nat /\ Receive(k) /\ j =< Len(bio) /\ bodyStart \in Nat
      /\ bodyStream_' = bodyStream_ \o x /\ read_bio_' = rest
  BY HttpSessionAssumption DEF ReadFromSSL, IInv, TypeOK
<1>1. /\ p \in Seq(Units) /\ Len(p) = k /\ Sorted(p) /\ received' = received \cup Elems(p)
      /\ \A i \in 1..k : p[i] \in Units /\ \A u \in received : u < p[i]
  BY <1>0, ReceiveFacts
<1>2. /\ read_bio_ \in Seq(Units) /\ Len(bodyStream_) \in Nat /\ Len(read_bio_) \in Nat
      /\ Sorted(read_bio_) /\ https
      /\ \A i \in 1..Len(read_bio_) : read_bio_[i] \in Int
  BY SeqFacts DEF IInv, UnitsInv, ReadFromSSL, Units
<1> HIDE DEF p
<1>3. \A u \in received, i \in 1..Len(p) : u < p[i] /\ u # p[i] /\ p[i] # u
  BY <1>1, Held DEF Units
<1>4. IsJoin(read_bio_, p, bio) /\ bio \in Seq(Units) /\ Len(bio) \in Nat
  BY <1>1, <1>2, Joined, LenProperties DEF IsJoin
<1> HIDE DEF bio
<1>5. /\ x \in Seq(Units) /\ Len(x) = j /\ \A i \in 1..j : x[i] = bio[i]
      /\ rest \in Seq(Units) /\ Len(rest) = Len(bio) - j
      /\ \A i \in 1..(Len(bio) - j) : rest[i] = bio[j + i]
  <2>1. j \in 0..Len(bio) /\ bio \in Seq(Units)
    BY <1>0, <1>4
  <2> QED  BY ONLY <2>1, Cut
<1> HIDE DEF x, rest
<1>6. /\ Elems(bio) = Elems(read_bio_) \cup Elems(p)
      /\ \A i, l \in 1..Len(bio) : i < l => bio[i] < bio[l] /\ bio[i] # bio[l]
  <2>1. FreshFor(read_bio_, 0, p) /\ 0 \in 0..Len(read_bio_)
    BY <1>1, <1>2, <1>3, Held DEF FreshFor, Sorted
  <2>2. /\ Elems(bio) = Elems(read_bio_) \cup Elems(p)
        /\ \A i, l \in 1..Len(bio) : i # l => bio[i] # bio[l]
        /\ \A i, l \in (0 + 1)..Len(bio) : i < l => bio[i] < bio[l]
    BY <1>1, <1>2, <1>4, <2>1, Appending
  <2> QED  BY <1>4, <2>2
<1>7. /\ \A i \in 1..Len(x) : i \in 1..Len(bio) /\ x[i] = bio[i]
      /\ \A i \in 1..Len(rest) : j + i \in 1..Len(bio) /\ rest[i] = bio[j + i]
  BY <1>0, <1>4, <1>5
<1>8. Elems(x) \cup Elems(rest) = Elems(bio)
  <2>1. ASSUME NEW i \in 1..Len(bio) PROVE bio[i] \in Elems(x) \cup Elems(rest)
    <3>1. CASE i =< j
      BY <1>0, <1>5, <3>1 DEF Elems
    <3>2. CASE i > j
      <4>1. i - j \in 1..Len(rest) /\ rest[i - j] = bio[i]
        BY <1>0, <1>4, <1>5, <3>2
      <4> QED  BY <4>1 DEF Elems
    <3> QED  BY <3>1, <3>2, <1>0
  <2>2. /\ \A i \in 1..Len(x) : x[i] \in Elems(bio)
        /\ \A i \in 1..Len(rest) : rest[i] \in Elems(bio)
    BY <1>7 DEF Elems
  <2>3. Elems(bio) \subseteq Elems(x) \cup Elems(rest)
    BY <2>1 DEF Elems
  <2>4. Elems(x) \subseteq Elems(bio) /\ Elems(rest) \subseteq Elems(bio)
    BY <2>2 DEF Elems
  <2> QED  BY <2>3, <2>4
<1>9. ASSUME NEW i \in 1..Len(bodyStream_), NEW l \in 1..Len(bio)
      PROVE  bodyStream_[i] # bio[l] /\ (i > bodyStart => bodyStream_[i] < bio[l])
  <2>1. CASE l \in 1..Len(read_bio_) /\ bio[l] = read_bio_[l]
    BY <1>0, <1>2, <2>1 DEF IInv, UnitsInv
  <2>2. CASE l - Len(read_bio_) \in 1..Len(p) /\ bio[l] = p[l - Len(read_bio_)]
    BY <1>3, <2>2, Held
  <2> QED  BY <1>4, <2>1, <2>2 DEF IsJoin
<1>10. /\ Sorted(x) /\ Sorted(rest)
       /\ \A i \in 1..Len(x), l \in 1..Len(rest) : x[i] < rest[l] /\ x[i] # rest[l]
  <2>0. Len(x) \in Nat /\ Len(rest) \in Nat /\ Len(x) = j
    BY <1>0, <1>4, <1>5
  <2>1. Sorted(x)
    BY <1>6, <1>7, <2>0 DEF Sorted
  <2>2. Sorted(rest)
    <3> SUFFICES ASSUME NEW i \in 1..Len(rest), NEW l \in 1..Len(rest), i < l PROVE rest[i] < rest[l]
      BY DEF Sorted
    <3>1. j + i < j + l
      BY <1>0, <2>0
    <3> QED  BY <3>1, <1>6, <1>7
  <2>3. ASSUME NEW i \in 1..Len(x), NEW l \in 1..Len(rest) PROVE x[i] < rest[l] /\ x[i] # rest[l]
    <3>1. i < j + l
      BY <1>0, <2>0
    <3> QED  BY <3>1, <1>6, <1>7
  <2> QED  BY <2>1, <2>2, <2>3
<1>11. Splits(x, rest)
  <2>1. FreshFor(bodyStream_, bodyStart, x)
    <3>1. \A i \in (bodyStart + 1)..Len(bodyStream_) : i \in 1..Len(bodyStream_) /\ i > bodyStart
      BY <1>0, <1>2
    <3>2. /\ \A i \in 1..Len(bodyStream_), l \in 1..Len(x) : bodyStream_[i] # x[l]
          /\ \A i \in (bodyStart + 1)..Len(bodyStream_), l \in 1..Len(x) : bodyStream_[i] < x[l]
      BY <1>7, <1>9, <3>1
    <3> QED  BY <1>10, <3>2 DEF FreshFor, IInv, UnitsInv
  <2>2. Elems(bodyStream_) \cup Elems(x) \cup Elems(rest) = received'
    BY <1>1, <1>6, <1>8, Held
  <2>3. /\ \A i \in 1..Len(bodyStream_), l \in 1..Len(rest) : bodyStream_[i] # rest[l]
        /\ \A i \in (bodyStart + 1)..Len(bodyStream_), l \in 1..Len(rest) : bodyStream_[i] < rest[l]
    <3>1. \A i \in (bodyStart + 1)..Len(bodyStream_) : i \in 1..Len(bodyStream_) /\ i > bodyStart
      BY <1>0, <1>2
    <3> QED  BY <1>7, <1>9, <3>1
  <2> QED  BY <1>10, <2>1, <2>2, <2>3 DEF Splits
<1>12. IsJoin(bodyStream_, x, bodyStream_')
  <2>1. bodyStream_ \in Seq(Units)
    BY SeqFacts DEF IInv
  <2> QED  BY <1>0, <1>5, <2>1, Joined
<1>13. Receive(k) /\ k \in Nat /\ read_bio_' = rest
  BY <1>0
<1> QED  BY <1>5, <1>11, <1>12, <1>13, ParserTakes

-----------------------------------------------------------------------------
(* Every step keeps the inductive invariant. *)
LEMMA Inductive == ASSUME IInv, [Next]_vars PROVE IInv'
<1>1. CASE UNCHANGED vars
  <2>1. UnitsInv'
    BY <1>1, UnitsKept DEF vars, netVars
  <2>2. TypeOK'
    BY <1>1 DEF IInv, TypeOK, vars, netVars
  <2>3. AnswerInv'
    BY <1>1 DEF IInv, AnswerInv, vars, netVars
  <2> QED  BY <2>1, <2>2, <2>3 DEF IInv
<1>2. CASE \E secure \in BOOLEAN : DoRequest(secure)
  BY <1>2, DoRequestKeeps
<1>3. CASE \/ \E found \in BOOLEAN : OnResolved(found)
           \/ \E connected \in BOOLEAN : OnConnect(connected)
           \/ ReadFromSSLHandshake \/ OnReadGarbage \/ OnReadEnd \/ UvRunReturns
  BY <1>3, ControlKeeps
<1>4. CASE \E k \in 1..MaxUnits : OnReadPlain(k)
  BY <1>4, OnReadPlainKeeps
<1>5. CASE \E k \in 0..MaxUnits, j \in 1..MaxUnits : ReadFromSSL(k, j)
  BY <1>5, ReadFromSSLKeeps
<1>6. CASE ServerSends
  BY <1>6, ServerSendsKeeps
<1> QED  BY <1>1, <1>2, <1>3, <1>4, <1>5, <1>6 DEF Next

(* The inductive invariant implies BodyConserved. *)
LEMMA Conserved == ASSUME IInv PROVE BodyConserved
<1> DEFINE held == bodyStream_ \o read_bio_
<1>1. IsJoin(bodyStream_, read_bio_, held)
  BY SeqFacts, Joined DEF IInv
<1> HIDE DEF held
<1>2. {held[i] : i \in 1..Len(held)} = received
  <2>1. \A i \in 1..Len(held) : held[i] \in received
    BY <1>1, Held DEF IsJoin
  <2>2. received = {bodyStream_[i] : i \in 1..Len(bodyStream_)} \cup {read_bio_[i] : i \in 1..Len(read_bio_)}
    BY Held DEF Elems
  <2>3. ASSUME NEW u \in received PROVE \E i \in 1..Len(held) : held[i] = u
    <3>1. CASE u \in {bodyStream_[i] : i \in 1..Len(bodyStream_)}
      <4>1. PICK i \in 1..Len(bodyStream_) : bodyStream_[i] = u
        BY <3>1
      <4>2. i \in 1..Len(held) /\ held[i] = u
        BY <1>1, <4>1 DEF IsJoin
      <4> QED  BY <4>2
    <3>2. CASE u \in {read_bio_[i] : i \in 1..Len(read_bio_)}
      <4>1. PICK i \in 1..Len(read_bio_) : read_bio_[i] = u
        BY <3>2
      <4>2. Len(bodyStream_) + i \in 1..Len(held) /\ held[Len(bodyStream_) + i] = u
        BY <1>1, <4>1 DEF IsJoin
      <4> QED  BY <4>2
    <3> QED  BY <2>2, <3>1, <3>2
  <2> QED  BY <2>1, <2>3
<1>3. ASSUME NEW i \in 1..Len(held), NEW j \in 1..Len(held), i < j PROVE held[i] # held[j]
  <2>0. Len(bodyStream_) \in Nat /\ Len(read_bio_) \in Nat
    BY <1>1 DEF IsJoin
  <2>1. CASE j =< Len(bodyStream_)
    BY <1>1, <1>3, <2>0, <2>1 DEF IsJoin, IInv, UnitsInv
  <2>2. CASE i =< Len(bodyStream_) /\ j > Len(bodyStream_)
    <3>1. /\ j - Len(bodyStream_) \in 1..Len(read_bio_) /\ held[j] = read_bio_[j - Len(bodyStream_)]
          /\ i \in 1..Len(bodyStream_) /\ held[i] = bodyStream_[i]
      BY <1>1, <2>0, <2>2 DEF IsJoin
    <3>2. bodyStream_[i] # read_bio_[j - Len(bodyStream_)]
      BY <3>1 DEF IInv, UnitsInv
    <3> QED  BY <3>1, <3>2
  <2>3. CASE i > Len(bodyStream_)
    <3>1. /\ i - Len(bodyStream_) \in 1..Len(read_bio_) /\ held[i] = read_bio_[i - Len(bodyStream_)]
          /\ j - Len(bodyStream_) \in 1..Len(read_bio_) /\ held[j] = read_bio_[j - Len(bodyStream_)]
          /\ i - Len(bodyStream_) < j - Len(bodyStream_)
      BY <1>1, <1>3, <2>0, <2>3 DEF IsJoin
    <3>2. held[i] < held[j] /\ held[i] \in Int /\ held[j] \in Int
      BY <1>1, <3>1 DEF IsJoin, IInv, UnitsInv, Sorted
    <3> QED  BY <3>2
  <2> QED  BY <2>0, <2>1, <2>2, <2>3
<1>4. \A i, j \in 1..Len(held) : i # j => held[i] # held[j]
  <2>1. Len(held) \in Nat
    BY <1>1 DEF IsJoin
  <2> QED  BY <1>3, <2>1
<1> QED  BY <1>2, <1>4 DEF held, BodyConserved, IInv, UnitsInv

(* The inductive invariant of the libuv HTTP client holds. *)
THEOREM Invariance == Spec => []IInv
<1>1. Init => IInv
  BY InitHolds
<1>2. IInv /\ [Next]_vars => IInv'
  BY Inductive
<1> QED  BY <1>1, <1>2, PTL DEF Spec

(* The variables of the libuv HTTP client keep their types; in particular no  *)
(* handler call is made for a connection that does not exist.                 *)
THEOREM TypeCorrect == Spec => []TypeOK
<1>1. IInv => TypeOK
  BY DEF IInv
<1> QED  BY <1>1, Invariance, PTL

(* OnRead calls the response handler once for every connection that was made, *)
(* by the time DoRequest returns, for any number of requests.                 *)
THEOREM Answered == Spec => []AnsweredOnce
<1>1. IInv => AnsweredOnce
  BY DEF IInv, TypeOK, AnswerInv, AnsweredOnce
<1> QED  BY <1>1, Invariance, PTL

(* For any number of units and any chunking, OnRead and ReadFromSSL lose,     *)
(* repeat and reorder nothing between the socket, the BIO and the parser.     *)
THEOREM BodyKept == Spec => []BodyConserved
<1>1. IInv => BodyConserved
  BY Conserved
<1> QED  BY <1>1, Invariance, PTL

-----------------------------------------------------------------------------
(* A behaviour of the client is, seen through the variables of one            *)
(* implementation, a behaviour of that implementation: the others only let    *)
(* it stutter.                                                                *)

(* A step of the client leaves the variables of the libuv client to it. *)
LEMMA ClientSimulatesUv ==
  ASSUME [ClientNext]_<<impl_, vars, evVars, beastVars>>
  PROVE  [Next]_vars
BY DEF ClientNext

(* A step of the client leaves the variables of the Beast client to it. *)
LEMMA ClientSimulatesBeast ==
  ASSUME [ClientNext]_<<impl_, vars, evVars, beastVars>>
  PROVE  [Beast!BeastNext]_beastVars
BY DEF ClientNext

(* A step of the client leaves the variables of the libevent client to it. *)
LEMMA ClientSimulatesEv ==
  ASSUME [ClientNext]_<<impl_, vars, evVars, beastVars>>
  PROVE  [Ev!EvNext]_evVars
BY DEF ClientNext

(* The inductive invariant of the libuv client holds in the client. *)
LEMMA ClientInvariance == ClientSpec => []IInv
<1>1. ClientInit => IInv
  BY InitHolds DEF ClientInit
<1>2. IInv /\ [ClientNext]_<<impl_, vars, evVars, beastVars>> => IInv'
  BY Inductive, ClientSimulatesUv
<1> QED  BY <1>1, <1>2, PTL DEF ClientSpec

(* Whatever implementation the session holds, the response handler of the     *)
(* libuv client is called once for every connection that was made.            *)
THEOREM ClientAnswered == ClientSpec => []AnsweredOnce
<1>1. IInv => AnsweredOnce
  BY DEF IInv, TypeOK, AnswerInv, AnsweredOnce
<1> QED  BY <1>1, ClientInvariance, PTL

(* Whatever implementation the session holds, the libuv client keeps the      *)
(* body's units in order, and loses and repeats none.                         *)
THEOREM ClientBodyKept == ClientSpec => []BodyConserved
<1>1. IInv => BodyConserved
  BY Conserved
<1> QED  BY <1>1, ClientInvariance, PTL

-----------------------------------------------------------------------------
(* The Beast client.  In a DoRequest that found no timer, one that is armed   *)
(* or has expired belongs to the stream that was just answered; what makes    *)
(* this inductive is that the timer is gone from an io_context that was       *)
(* stopped, and that it is not armed twice, so that the request which follows *)
(* a redirect does not inherit it.                                            *)
TimerInv ==
  ~leftOver /\ gracefulTimer # {} =>
    /\ stream_ \in {"shutdown", "answered"} /\ ioc_ # "stopped"
    /\ gracefulTimer \in {{"armed"}, {"expired"}}

(* Every step of the Beast client preserves it. *)
LEMMA TimerInductive ==
  ASSUME TimerInv, [Beast!BeastNext]_beastVars PROVE TimerInv'
<1>1. CASE UNCHANGED beastVars
  BY <1>1 DEF TimerInv, beastVars
<1>2. ASSUME NEW secure \in BOOLEAN, Beast!SetUrl(secure) PROVE TimerInv'
  BY <1>2 DEF TimerInv, Beast!SetUrl
<1>3. ASSUME NEW prepared \in BOOLEAN, Beast!DoRequest(prepared) PROVE TimerInv'
  <2>1. leftOver' = (gracefulTimer # {}) /\ UNCHANGED gracefulTimer
    BY <1>3 DEF Beast!DoRequest, Beast!DoOneRequest
  <2> QED  BY ONLY <2>1, Zenon DEF TimerInv
<1>4. ASSUME NEW phase \in {"resolving", "connecting", "handshake", "writing"}, NEW ok, NEW next,
             Beast!Step(phase, ok, next)
      PROVE  TimerInv'
  BY <1>4 DEF TimerInv, Beast!Step, Beast!Handles
<1>5. CASE Beast!OnReadFails
  BY <1>5 DEF TimerInv, Beast!OnReadFails, Beast!Handles
<1>6. ASSUME Beast!Handles("reading"), Beast!CloseGracefully, UNCHANGED leftOver, ioc_' # "stopped"
      PROVE  TimerInv'
  <2>1. leftOver \/ gracefulTimer = {}
    BY <1>6 DEF TimerInv, Beast!Handles
  <2> QED  BY <1>6, <2>1 DEF TimerInv, Beast!CloseGracefully
<1>7. CASE Beast!OnReadThrows
  BY <1>6, <1>7 DEF Beast!OnReadThrows
<1>8. ASSUME NEW secure \in BOOLEAN, Beast!OnReadRedirect(secure) PROVE TimerInv'
  BY <1>6, <1>8 DEF Beast!OnReadRedirect, Beast!Handles
<1>9. CASE Beast!OnShutdown
  BY <1>9 DEF TimerInv, Beast!OnShutdown, Beast!Handles
<1>10. CASE Beast!GracefulTimerExpires
  BY <1>10 DEF TimerInv, Beast!GracefulTimerExpires
<1>11. CASE Beast!OnTooLongAsyncShutdown
  <2>1. leftOver \/ gracefulTimer = {"expired"}
    BY <1>11 DEF TimerInv, Beast!OnTooLongAsyncShutdown
  <2> QED  BY <1>11, <2>1 DEF TimerInv, Beast!OnTooLongAsyncShutdown
<1>12. CASE Beast!StaleHandler
  BY <1>12 DEF TimerInv, Beast!StaleHandler
<1>13. ASSUME NEW prepared \in BOOLEAN, Beast!Redirected(prepared) PROVE TimerInv'
  BY <1>13 DEF TimerInv, Beast!Redirected, Beast!RunEnds, Beast!DoOneRequest
<1>14. CASE Beast!DoRequestReturns
  BY <1>14 DEF TimerInv, Beast!DoRequestReturns
<1>15. ASSUME NEW ok \in BOOLEAN,
              Beast!OnResolve(ok) \/ Beast!OnConnect(ok) \/ Beast!OnHandShake(ok) \/ Beast!OnWrite(ok)
       PROVE  TimerInv'
  BY <1>4, <1>15 DEF Beast!OnResolve, Beast!OnConnect, Beast!OnHandShake, Beast!OnWrite
<1> QED
  BY <1>1, <1>2, <1>3, <1>5, <1>7, <1>8, <1>9, <1>10, <1>11, <1>12, <1>13, <1>14, <1>15
  DEF Beast!BeastNext, Beast!Handler

(* However the expiry of the timer and the end of the shutdown are ordered,   *)
(* and for any number of redirects, a timer that OnRead arms in a DoRequest   *)
(* which found none stops no run of it but that of its own stream.            *)
THEOREM TimerKept == ClientSpec => []TimerOfThisStream
<1>1. ClientInit => TimerInv
  BY DEF ClientInit, Beast!BeastInit, TimerInv
<1>2. TimerInv /\ [ClientNext]_<<impl_, vars, evVars, beastVars>> => TimerInv'
  BY TimerInductive, ClientSimulatesBeast
<1>3. TimerInv => TimerOfThisStream
  BY DEF TimerInv, TimerOfThisStream, Beast!TimerOfThisStream
<1> QED  BY <1>1, <1>2, <1>3, PTL DEF ClientSpec

-----------------------------------------------------------------------------
(* A character of a name: not 0, which ends a C string. *)
Code == 1..255
(* Two characters that Curl_raw_toupper makes equal. *)
Same(c, d) == Ev!Curl_raw_toupper(c) = Ev!Curl_raw_toupper(d)

(* A set of naturals that is not empty has a least element. *)
LEMMA NatMin == ASSUME NEW M, M \subseteq Nat, M # {} PROVE \E x \in M : \A y \in M : x <= y
<1> DEFINE R == OpToRel(<, Nat)
<1>1. IsWellFoundedOn(R, Nat)
  BY NatLessThanWellFounded
<1>2. PICK x \in M : \A y \in M : ~(<<y, x>> \in R)
  <2> HIDE DEF R
  <2> QED BY <1>1, WFMin, Zenon
<1>3. \A y \in Nat, z \in Nat : <<y, z>> \in R <=> y < z
  BY DEF OpToRel
<1> HIDE DEF R
<1>4. ASSUME NEW y \in M PROVE x <= y
  <2>1. x \in Nat /\ y \in Nat
    OBVIOUS
  <2>2. ~(<<y, x>> \in R)
    BY <1>2
  <2>3. ~(y < x)
    BY <1>3, <2>1, <2>2, Zenon
  <2> QED  BY <2>1, <2>3
<1> QED BY <1>4

(* Min is that element. *)
LEMMA MinIs ==
  ASSUME NEW M, M \subseteq Nat, M # {}
  PROVE  Ev!Min(M) \in M /\ \A y \in M : Ev!Min(M) <= y
BY NatMin, Zenon DEF Ev!Min

(* Upper case makes no character a 0 or a dot, and changes neither. *)
LEMMA ToUpper ==
  ASSUME NEW c \in 0..255
  PROVE  /\ Ev!Curl_raw_toupper(c) \in 0..255
         /\ Ev!Curl_raw_toupper(c) = 0 <=> c = 0
         /\ Ev!Curl_raw_toupper(c) = 46 <=> c = 46
<1>1. CASE c \in 97..122
  BY <1>1 DEF Ev!Curl_raw_toupper
<1>2. CASE c \notin 97..122
  BY <1>2 DEF Ev!Curl_raw_toupper
<1> QED  BY <1>1, <1>2

(* No character is 0 in upper case. *)
LEMMA CodeUpper ==
  ASSUME NEW c \in Code
  PROVE  Ev!Curl_raw_toupper(c) # 0
BY DEF Ev!Curl_raw_toupper, Code

(* No character is 0. *)
LEMMA CodeNonzero ==
  ASSUME NEW c \in Code
  PROVE  c # 0
BY DEF Code

(* Reading a C string inside it. *)
LEMMA Inside ==
  ASSUME NEW s \in Seq(Code), NEW i \in Nat, 1 <= i, i <= Len(s)
  PROVE  Ev!CharAt(s, i) = s[i] /\ s[i] \in Code /\ Ev!CharAt(s, i) \in Code /\ Ev!CharAt(s, i) # 0
<1>1. i \in DOMAIN s /\ s[i] \in Code
  OBVIOUS
<1>2. Ev!CharAt(s, i) = s[i]
  BY ONLY <1>1, Zenon DEF Ev!CharAt
<1>3. s[i] # 0
  BY ONLY <1>1, CodeNonzero, Zenon
<1> QED  BY ONLY <1>1, <1>2, <1>3, Zenon

(* Reading a C string behind its end. *)
LEMMA Outside ==
  ASSUME NEW s \in Seq(Code), NEW i \in Nat, i > Len(s)
  PROVE  Ev!CharAt(s, i) = 0
<1>1. i \notin DOMAIN s
  OBVIOUS
<1> QED  BY ONLY <1>1, Zenon DEF Ev!CharAt

(* m is where the loops of Curl_raw_equal and Curl_raw_nequal stop. *)
StopIs(s, t, m) ==
  /\ m \in Nat /\ 1 <= m /\ m <= Len(s) + 1 /\ m <= Len(t) + 1
  /\ \A j \in 1..(m - 1) : Same(s[j], t[j])
  /\ m <= Len(s) /\ m <= Len(t) => ~Same(s[m], t[m])
  /\ Ev!SameAt(s, t, m) <=> m = Len(s) + 1 /\ m = Len(t) + 1

(* Stop is that place. *)
LEMMA Stops ==
  ASSUME NEW s \in Seq(Code), NEW t \in Seq(Code)
  PROVE  StopIs(s, t, Ev!Stop(s, t))
<1> DEFINE K == {i \in 1..(Len(s) + 1) : Ev!CharAt(s, i) = 0 \/ Ev!CharAt(t, i) = 0 \/ ~Ev!SameAt(s, t, i)}
           m == Ev!Stop(s, t)
<1>1. Len(s) \in Nat /\ Len(t) \in Nat
  OBVIOUS
<1>2. Len(s) + 1 \in K
  <2>1. Len(s) + 1 \in 1..(Len(s) + 1) /\ Len(s) + 1 \in Nat /\ Len(s) + 1 > Len(s)
    BY <1>1
  <2>2. Ev!CharAt(s, Len(s) + 1) = 0
    BY ONLY <2>1, Outside, s \in Seq(Code), Zenon
  <2> QED  BY <2>1, <2>2
<1>3. K \subseteq Nat /\ K # {}
  BY <1>2
<1>4. m \in K /\ \A y \in K : m <= y
  <2>1. m = Ev!Min(K)
    BY DEF Ev!Stop
  <2> HIDE DEF K, m
  <2> QED  BY <1>3, <2>1, MinIs, Zenon
<1> HIDE DEF m
<1>5. m \in Nat /\ 1 <= m /\ m <= Len(s) + 1
  BY <1>1, <1>4
<1>6. \A j \in 1..(m - 1) : Ev!CharAt(s, j) # 0 /\ Ev!CharAt(t, j) # 0 /\ Ev!SameAt(s, t, j)
  <2>1. ASSUME NEW j \in 1..(m - 1) PROVE j \notin K /\ j \in 1..(Len(s) + 1)
    <3> HIDE DEF K
    <3> QED  BY <1>4, <1>5, <1>1
  <2> QED  BY <2>1
<1>7. \A j \in 1..(m - 1) : j <= Len(s) /\ j <= Len(t) /\ Same(s[j], t[j])
  <2>1. ASSUME NEW j \in 1..(m - 1) PROVE j <= Len(s) /\ j <= Len(t) /\ Same(s[j], t[j])
    <3>1. j \in Nat /\ 1 <= j
      OBVIOUS
    <3>2. j <= Len(s) /\ Ev!CharAt(s, j) = s[j]
      BY <1>1, <1>6, <3>1, Inside, Outside
    <3>3. j <= Len(t) /\ Ev!CharAt(t, j) = t[j]
      BY <1>1, <1>6, <3>1, Inside, Outside
    <3> QED  BY <1>6, <3>2, <3>3 DEF Ev!SameAt, Same
  <2> QED  BY <2>1
<1>8. m <= Len(t) + 1
  <2>1. CASE m = 1
    BY <1>1, <2>1
  <2>2. CASE m > 1
    <3>1. m - 1 \in 1..(m - 1)
      BY <1>5, <2>2
    <3>2. m - 1 <= Len(t)
      BY <1>7, <3>1
    <3> QED  BY <1>1, <1>5, <3>2
  <2> QED  BY <1>5, <2>1, <2>2
<1>9. Ev!CharAt(s, m) = 0 \/ Ev!CharAt(t, m) = 0 \/ ~Ev!SameAt(s, t, m)
  BY <1>4
<1>10. ASSUME m <= Len(s), m <= Len(t) PROVE ~Same(s[m], t[m]) /\ ~Ev!SameAt(s, t, m)
  <2>1. Ev!CharAt(s, m) = s[m] /\ Ev!CharAt(s, m) # 0
    BY ONLY <1>5, <1>10, Inside
  <2>2. Ev!CharAt(t, m) = t[m] /\ Ev!CharAt(t, m) # 0
    BY ONLY <1>5, <1>10, Inside
  <2> QED  BY <1>9, <2>1, <2>2 DEF Ev!SameAt, Same
<1>11. Ev!SameAt(s, t, m) <=> m = Len(s) + 1 /\ m = Len(t) + 1
  <2>0. Ev!Curl_raw_toupper(0) = 0
    BY DEF Ev!Curl_raw_toupper
  <2>1. CASE m <= Len(s) /\ m <= Len(t)
    BY <1>1, <1>5, <1>10, <2>1
  <2>2. CASE m <= Len(s) /\ m = Len(t) + 1
    <3>1. Ev!CharAt(s, m) \in Code /\ Ev!CharAt(t, m) = 0
      BY ONLY <1>1, <1>5, <2>2, Inside, Outside
    <3>2. Ev!Curl_raw_toupper(Ev!CharAt(s, m)) # 0
      BY ONLY <3>1, CodeUpper, Zenon
    <3>3. ~Ev!SameAt(s, t, m)
      BY ONLY <2>0, <3>1, <3>2, Zenon DEF Ev!SameAt
    <3>4. m # Len(s) + 1
      BY ONLY <1>1, <1>5, <2>2
    <3> QED  BY ONLY <3>3, <3>4
  <2>3. CASE m = Len(s) + 1 /\ m <= Len(t)
    <3>1. Ev!CharAt(t, m) \in Code /\ Ev!CharAt(s, m) = 0
      BY ONLY <1>1, <1>5, <2>3, Inside, Outside
    <3>2. Ev!Curl_raw_toupper(Ev!CharAt(t, m)) # 0
      BY ONLY <3>1, CodeUpper, Zenon
    <3>3. ~Ev!SameAt(s, t, m)
      BY ONLY <2>0, <3>1, <3>2, Zenon DEF Ev!SameAt
    <3>4. m # Len(t) + 1
      BY ONLY <1>1, <1>5, <2>3
    <3> QED  BY ONLY <3>3, <3>4
  <2>4. CASE m = Len(s) + 1 /\ m = Len(t) + 1
    <3>1. Ev!CharAt(t, m) = 0 /\ Ev!CharAt(s, m) = 0
      BY ONLY <1>1, <1>5, <2>4, Inside, Outside
    <3> QED  BY <2>4, <3>1 DEF Ev!SameAt
  <2> QED  BY <1>1, <1>5, <1>8, <2>1, <2>2, <2>3, <2>4
<1>12. StopIs(s, t, m)
  BY <1>5, <1>7, <1>8, <1>10, <1>11 DEF StopIs
<1> QED  BY <1>12 DEF m

(* s and t are equal up to case. *)
SameText(s, t) == Len(s) = Len(t) /\ \A j \in 1..Len(s) : Same(s[j], t[j])
(* So are their first n characters, which both have. *)
SamePrefix(s, t, n) == n <= Len(s) /\ n <= Len(t) /\ \A j \in 1..n : Same(s[j], t[j])

(* Curl_raw_equal compares up to case. *)
LEMMA EqualIs ==
  ASSUME NEW s \in Seq(Code), NEW t \in Seq(Code)
  PROVE  Ev!Curl_raw_equal(s, t) <=> SameText(s, t)
<1>1. PICK m : m = Ev!Stop(s, t)
  BY Zenon
<1>2. StopIs(s, t, m)
  BY ONLY <1>1, Stops, s \in Seq(Code), t \in Seq(Code), Zenon
<1>3. Len(s) \in Nat /\ Len(t) \in Nat
  OBVIOUS
<1>4. Ev!Curl_raw_equal(s, t) <=> Ev!SameAt(s, t, m)
  BY ONLY <1>1, Zenon DEF Ev!Curl_raw_equal
<1>5. Ev!SameAt(s, t, m) => SameText(s, t)
  BY ONLY <1>2, <1>3 DEF StopIs, SameText
<1>6. SameText(s, t) => Ev!SameAt(s, t, m)
  BY ONLY <1>2, <1>3 DEF StopIs, SameText
<1> QED  BY ONLY <1>4, <1>5, <1>6, Zenon

(* Curl_raw_nequal compares a prefix up to case, when one string is that long. *)
LEMMA NequalIs ==
  ASSUME NEW s \in Seq(Code), NEW t \in Seq(Code), NEW max \in Nat, max <= Len(s) \/ max <= Len(t)
  PROVE  Ev!Curl_raw_nequal(s, t, max) <=> SamePrefix(s, t, max)
<1>1. PICK m : m = Ev!Stop(s, t)
  BY Zenon
<1>2. StopIs(s, t, m)
  BY ONLY <1>1, Stops, s \in Seq(Code), t \in Seq(Code), Zenon
<1>3. Len(s) \in Nat /\ Len(t) \in Nat
  OBVIOUS
<1>4. Ev!Curl_raw_nequal(s, t, max) <=> m > max \/ Ev!SameAt(s, t, m)
  BY ONLY <1>1, Zenon DEF Ev!Curl_raw_nequal
<1>5. m > max => SamePrefix(s, t, max)
  BY ONLY <1>2, <1>3, max \in Nat DEF StopIs, SamePrefix
<1>6. Ev!SameAt(s, t, m) => m > max
  BY ONLY <1>2, <1>3, max \in Nat, max <= Len(s) \/ max <= Len(t) DEF StopIs
<1>7. SamePrefix(s, t, max) => m > max
  BY ONLY <1>2, <1>3, max \in Nat DEF StopIs, SamePrefix
<1> QED  BY ONLY <1>4, <1>5, <1>6, <1>7, Zenon

(* Ranges that start at 1 and are equal end at the same number. *)
LEMMA SameRange ==
  ASSUME NEW a \in Nat, NEW b \in Nat, 1..a = 1..b
  PROVE  a = b
<1>1. a > b => a \in 1..a /\ a \notin 1..b
  OBVIOUS
<1>2. b > a => b \in 1..b /\ b \notin 1..a
  OBVIOUS
<1> QED  BY <1>1, <1>2

(* Comparing up to case is comparing in upper case. *)
LEMMA UpperIs ==
  ASSUME NEW s \in Seq(Code), NEW t \in Seq(Code)
  PROVE  Ev!Upper(s) = Ev!Upper(t) <=> SameText(s, t)
<1>1. DOMAIN s = 1..Len(s) /\ DOMAIN t = 1..Len(t) /\ Len(s) \in Nat /\ Len(t) \in Nat
  OBVIOUS
<1>2. ASSUME Ev!Upper(s) = Ev!Upper(t) PROVE SameText(s, t)
  <2>1. DOMAIN s = DOMAIN t
    BY <1>2, Zenon DEF Ev!Upper
  <2>2. \A j \in DOMAIN s : Ev!Upper(s)[j] = Ev!Curl_raw_toupper(s[j])
    BY Zenon DEF Ev!Upper
  <2>3. \A j \in DOMAIN t : Ev!Upper(t)[j] = Ev!Curl_raw_toupper(t[j])
    BY Zenon DEF Ev!Upper
  <2>4. \A j \in DOMAIN s : Same(s[j], t[j])
    <3>1. ASSUME NEW j \in DOMAIN s PROVE Ev!Curl_raw_toupper(s[j]) = Ev!Curl_raw_toupper(t[j])
      <4>1. Ev!Curl_raw_toupper(s[j]) = Ev!Upper(s)[j] /\ Ev!Curl_raw_toupper(t[j]) = Ev!Upper(t)[j]
        BY ONLY <2>1, <2>2, <2>3, j \in DOMAIN s, Zenon
      <4> QED  BY ONLY <1>2, <4>1
    <3> QED  BY ONLY <3>1, Zenon DEF Same
  <2>5. Len(s) = Len(t)
    BY ONLY <1>1, <2>1, SameRange, Zenon
  <2> QED  BY ONLY <1>1, <2>4, <2>5, Zenon DEF SameText
<1>3. ASSUME SameText(s, t) PROVE Ev!Upper(s) = Ev!Upper(t)
  <2>1. DOMAIN s = DOMAIN t /\ \A j \in DOMAIN s : Same(s[j], t[j])
    BY ONLY <1>1, <1>3, Zenon DEF SameText
  <2> QED  BY ONLY <2>1, Zenon DEF Ev!Upper, Same
<1> QED  BY <1>2, <1>3

(* c is not in s at i or after it. *)
None(s, c, i) == \A j \in i..Len(s) : s[j] # c
(* x is the first place of c in s at i or after it. *)
First(s, c, i, x) == x \in i..Len(s) /\ s[x] = c /\ \A j \in i..(x - 1) : s[j] # c

(* StrChr finds the first place, or none. *)
LEMMA StrChrIs ==
  ASSUME NEW s \in Seq(0..255), NEW c, NEW i \in Nat, 1 <= i
  PROVE  (Ev!StrChr(s, c, i) = 0 /\ None(s, c, i)) \/ First(s, c, i, Ev!StrChr(s, c, i))
<1> DEFINE at == {j \in i..Len(s) : s[j] = c}
           m == Ev!Min(at)
<1>0. Len(s) \in Nat
  OBVIOUS
<1>1. Ev!StrChr(s, c, i) = IF at = {} THEN 0 ELSE m
  BY Zenon DEF Ev!StrChr
<1>2. CASE at = {}
  BY <1>1, <1>2 DEF None
<1>3. CASE at # {}
  <2>1. at \subseteq Nat
    BY <1>0
  <2>2. m \in at /\ \A y \in at : m <= y
    <3> HIDE DEF at
    <3> QED  BY ONLY <1>3, <2>1, MinIs, Zenon
  <2>3. Ev!StrChr(s, c, i) = m
    BY ONLY <1>1, <1>3, Zenon
  <2> HIDE DEF m
  <2>4. m \in i..Len(s) /\ s[m] = c
    BY ONLY <2>2, Zenon
  <2>5. ASSUME NEW j \in i..(m - 1) PROVE s[j] # c
    <3>1. j \in i..Len(s) /\ ~(m <= j)
      BY ONLY <1>0, <2>4, i \in Nat, j \in i..(m - 1)
    <3> QED  BY ONLY <2>2, <3>1, Zenon
  <2> QED  BY ONLY <2>3, <2>4, <2>5, Zenon DEF First
<1> QED  BY <1>2, <1>3

(* What From cuts off. *)
LEMMA FromIs ==
  ASSUME NEW s \in Seq(Code), NEW i \in Nat, 1 <= i, i <= Len(s) + 1
  PROVE  /\ Ev!From(s, i) \in Seq(Code)
         /\ Len(Ev!From(s, i)) = Len(s) - i + 1
         /\ \A j \in 1..(Len(s) - i + 1) : Ev!From(s, i)[j] = s[i + j - 1]
<1>1. Len(s) \in Nat
  OBVIOUS
<1>2. i \in Int /\ Len(s) \in Int /\ i <= Len(s) + 1
  BY <1>1
<1> QED  BY <1>1, SubSeqProperties DEF Ev!From

(* What follows the wildcard at w of p ends h, up to case. *)
SameTail(p, h, w) == \A k \in (w + 1)..Len(p) : Same(p[k], h[k + Len(h) - Len(p)])
(* What the wildcard at w stands for has no dot. *)
Filling(p, h, w) == \A j \in w..(w + Len(h) - Len(p)) : h[j] # 46

(* h is p with a text without dots for the wildcard at w, up to case. *)
WildMatch(p, h, w) ==
  /\ Len(p) <= Len(h)
  /\ \A j \in 1..(w - 1) : Same(p[j], h[j])
  /\ SameTail(p, h, w)
  /\ Filling(p, h, w)

(* A dot is like a dot only. *)
LEMMA SameDot ==
  ASSUME NEW c \in Code, NEW d \in Code, Same(c, d)
  PROVE  c = 46 <=> d = 46
<1>1. c \in 0..255 /\ d \in 0..255
  BY DEF Code
<1> QED  BY ONLY <1>1, Same(c, d), ToUpper, Zenon DEF Same

(* A C string is a sequence of bytes. *)
LEMMA CodeSeq == ASSUME NEW s \in Seq(Code) PROVE s \in Seq(0..255)
<1> DEFINE B == 0..255
<1>1. Code \subseteq B
  BY DEF Code
<1> HIDE DEF B
<1>2. s \in Seq(B)
  BY ONLY <1>1, SeqMonotonic, s \in Seq(Code), Zenon
<1> QED  BY <1>2 DEF B

(* There is only one first place. *)
LEMMA FirstUnique ==
  ASSUME NEW s \in Seq(Code), NEW c, NEW i \in Nat, NEW d, NEW e,
         First(s, c, i, d), First(s, c, i, e)
  PROVE  d = e
<1>1. d \in Int /\ e \in Int /\ i <= d /\ i <= e
  BY DEF First
<1>2. ~(d < e) /\ ~(e < d)
  BY <1>1 DEF First
<1> QED  BY ONLY <1>1, <1>2

(* First and None exclude each other. *)
LEMMA FirstNotNone ==
  ASSUME NEW s \in Seq(Code), NEW c, NEW i \in Nat, NEW d, First(s, c, i, d)
  PROVE  ~None(s, c, i)
BY Zenon DEF First, None

(* StrChr as a test: not 0 is First, 0 is None. *)
LEMMA FirstIs ==
  ASSUME NEW s \in Seq(Code), NEW c, NEW i \in Nat, 1 <= i
  PROVE  /\ Ev!StrChr(s, c, i) # 0 <=> First(s, c, i, Ev!StrChr(s, c, i))
         /\ Ev!StrChr(s, c, i) = 0 <=> None(s, c, i)
         /\ \A d : First(s, c, i, d) => Ev!StrChr(s, c, i) = d
<1>1. PICK x : x = Ev!StrChr(s, c, i)
  BY Zenon
<1>2. (x = 0 /\ None(s, c, i)) \/ First(s, c, i, x)
  <2>1. s \in Seq(0..255)
    BY CodeSeq, Zenon
  <2> QED  BY ONLY <1>1, <2>1, StrChrIs, i \in Nat, 1 <= i, Zenon
<1>3. First(s, c, i, x) => x # 0
  BY ONLY i \in Nat, 1 <= i DEF First
<1>4. First(s, c, i, x) => ~None(s, c, i)
  BY FirstNotNone, Zenon
<1>5. ASSUME NEW d, First(s, c, i, d) PROVE x = d
  <2>1. First(s, c, i, x)
    BY <1>2, <1>5, FirstNotNone, Zenon
  <2> QED  BY ONLY <1>5, <2>1, FirstUnique, s \in Seq(Code), i \in Nat, Zenon
<1> QED  BY ONLY <1>1, <1>2, <1>3, <1>4, <1>5, Zenon

(* The first wildcard of p is at w, and hostmatch honours it: the first dot, at *)
(* d, and another one follow it, and p is not internationalised.                *)
Wildcard(p, w, d) ==
  /\ First(p, 42, 1, w) /\ First(p, 46, 1, d) /\ ~None(p, 46, d + 1)
  /\ w < d /\ ~SamePrefix(p, Ev!Punycode, 4)

(* The prefix of an internationalised label. *)
LEMMA PunycodeIs == Ev!Punycode \in Seq(Code) /\ Len(Ev!Punycode) = 4
BY DEF Ev!Punycode, Code

(* wildcard_enabled of hostmatch, with w and d found by StrChr. *)
Enabled(p, w, d) ==
  /\ w # 0 /\ d # 0 /\ Ev!StrChr(p, 46, d + 1) # 0
  /\ w < d /\ ~Ev!Curl_raw_nequal(p, Ev!Punycode, 4)

(* It is Wildcard. *)
LEMMA EnabledIs ==
  ASSUME NEW p \in Seq(Code), NEW w, NEW d, w = Ev!StrChr(p, 42, 1), d = Ev!StrChr(p, 46, 1)
  PROVE  Enabled(p, w, d) <=> Wildcard(p, w, d)
<1>0. 1 \in Nat /\ 1 <= 1
  OBVIOUS
<1>1. w # 0 <=> First(p, 42, 1, w)
  BY ONLY <1>0, FirstIs, p \in Seq(Code), w = Ev!StrChr(p, 42, 1), Zenon
<1>2. d # 0 <=> First(p, 46, 1, d)
  BY ONLY <1>0, FirstIs, p \in Seq(Code), d = Ev!StrChr(p, 46, 1), Zenon
<1>3. First(p, 46, 1, d) => (Ev!StrChr(p, 46, d + 1) # 0 <=> ~None(p, 46, d + 1))
  <2>1. First(p, 46, 1, d) => d + 1 \in Nat /\ 1 <= d + 1
    BY DEF First
  <2> QED  BY ONLY <2>1, FirstIs, p \in Seq(Code), Zenon
<1>4. Ev!Curl_raw_nequal(p, Ev!Punycode, 4) <=> SamePrefix(p, Ev!Punycode, 4)
  <2>1. 4 \in Nat /\ 4 <= Len(Ev!Punycode)
    BY PunycodeIs
  <2> QED  BY ONLY <2>1, PunycodeIs, NequalIs, p \in Seq(Code), Zenon
<1> QED  BY ONLY <1>1, <1>2, <1>3, <1>4, Zenon DEF Enabled, Wildcard

(* What hostmatch tests when the wildcard is enabled; e is the first dot of h. *)
HostEnds(h, p, w, d, e) ==
  /\ e # 0 /\ Ev!Curl_raw_equal(Ev!From(p, d), Ev!From(h, e))
  /\ e >= d
  /\ Ev!Curl_raw_nequal(p, h, w - 1)
  /\ Ev!Curl_raw_nequal(Ev!From(p, w + 1), Ev!From(h, e - (d - (w + 1))), d - (w + 1))

(* hostmatch in these terms. *)
LEMMA HostMatchIs ==
  ASSUME NEW h, NEW p, NEW w, NEW d, NEW e,
         w = Ev!StrChr(p, 42, 1), d = Ev!StrChr(p, 46, 1), e = Ev!StrChr(h, 46, 1)
  PROVE  Ev!hostmatch(h, p) <=>
           IF ~Enabled(p, w, d) THEN Ev!Curl_raw_equal(p, h) ELSE HostEnds(h, p, w, d, e)
BY Zenon DEF Ev!hostmatch, Enabled, HostEnds, Ev!Dot, Ev!Star

(* The tests of HostEnds without the loops of the comparisons. *)
Suffixes(p, h, w, d, e) ==
  /\ SameText(Ev!From(p, d), Ev!From(h, e))
  /\ SamePrefix(p, h, w - 1)
  /\ SamePrefix(Ev!From(p, w + 1), Ev!From(h, e - (d - (w + 1))), d - (w + 1))

(* Comparing two tails is comparing the strings at shifted places. *)
LEMMA FromSame ==
  ASSUME NEW p \in Seq(Code), NEW h \in Seq(Code), NEW a \in Nat, NEW b \in Nat, NEW n \in Nat,
         1 <= a, a + n <= Len(p) + 1, 1 <= b, b + n <= Len(h) + 1
  PROVE  (\A j \in 1..n : Same(Ev!From(p, a)[j], Ev!From(h, b)[j]))
           <=> \A k \in a..(a + n - 1) : Same(p[k], h[k + (b - a)])
<1>1. Len(p) \in Nat /\ Len(h) \in Nat
  OBVIOUS
<1>2. \A j \in 1..n : Ev!From(p, a)[j] = p[a + j - 1] /\ Ev!From(h, b)[j] = h[b + j - 1]
  <2>0. a <= Len(p) + 1 /\ b <= Len(h) + 1
    BY ONLY <1>1, a \in Nat, a + n <= Len(p) + 1, b \in Nat, b + n <= Len(h) + 1, n \in Nat
  <2>1. \A j \in 1..(Len(p) - a + 1) : Ev!From(p, a)[j] = p[a + j - 1]
    BY ONLY <2>0, FromIs, p \in Seq(Code), a \in Nat, 1 <= a, Zenon
  <2>2. \A j \in 1..(Len(h) - b + 1) : Ev!From(h, b)[j] = h[b + j - 1]
    BY ONLY <2>0, FromIs, h \in Seq(Code), b \in Nat, 1 <= b, Zenon
  <2>3. \A j \in 1..n : j \in 1..(Len(p) - a + 1) /\ j \in 1..(Len(h) - b + 1)
    BY ONLY <1>1, a + n <= Len(p) + 1, b + n <= Len(h) + 1, n \in Nat, a \in Nat, b \in Nat
  <2> QED  BY ONLY <2>1, <2>2, <2>3, Zenon
<1>3. ASSUME \A j \in 1..n : Same(Ev!From(p, a)[j], Ev!From(h, b)[j]), NEW k \in a..(a + n - 1)
      PROVE  Same(p[k], h[k + (b - a)])
  <2>1. k - a + 1 \in 1..n /\ a + (k - a + 1) - 1 = k /\ b + (k - a + 1) - 1 = k + (b - a)
    BY ONLY k \in a..(a + n - 1), a \in Nat, b \in Nat, n \in Nat
  <2>2. Ev!From(p, a)[k - a + 1] = p[k] /\ Ev!From(h, b)[k - a + 1] = h[k + (b - a)]
    BY ONLY <1>2, <2>1
  <2>3. Same(Ev!From(p, a)[k - a + 1], Ev!From(h, b)[k - a + 1])
    BY ONLY <1>3, <2>1, Zenon
  <2> QED  BY ONLY <2>2, <2>3
<1>4. ASSUME \A k \in a..(a + n - 1) : Same(p[k], h[k + (b - a)]), NEW j \in 1..n
      PROVE  Same(Ev!From(p, a)[j], Ev!From(h, b)[j])
  <2>1. a + j - 1 \in a..(a + n - 1) /\ (a + j - 1) + (b - a) = b + j - 1
    BY ONLY j \in 1..n, a \in Nat, b \in Nat, n \in Nat
  <2>2. Same(p[a + j - 1], h[(a + j - 1) + (b - a)])
    BY ONLY <1>4, <2>1, Zenon
  <2>3. Ev!From(p, a)[j] = p[a + j - 1] /\ Ev!From(h, b)[j] = h[b + j - 1]
    BY ONLY <1>2, j \in 1..n, Zenon
  <2> QED  BY ONLY <2>1, <2>2, <2>3
<1> QED  BY ONLY <1>3, <1>4, Zenon

(* The tests of HostEnds place by place. *)
Parts(p, h, w, d, e) ==
  /\ e - d = Len(h) - Len(p)
  /\ \A j \in 1..(w - 1) : Same(p[j], h[j])
  /\ SameTail(p, h, w)

(* They are the same tests. *)
LEMMA SuffixesAre ==
  ASSUME NEW p \in Seq(Code), NEW h \in Seq(Code), NEW w \in Nat, NEW d \in Nat, NEW e \in Nat,
         1 <= w, w < d, d <= Len(p), d <= e, e <= Len(h)
  PROVE  Suffixes(p, h, w, d, e) <=> Parts(p, h, w, d, e)
<1>0. Len(p) \in Nat /\ Len(h) \in Nat
  OBVIOUS
<1> DEFINE a == w + 1
           b == e - (d - (w + 1))
           n == d - (w + 1)
           q == Len(p) - d + 1
<1>1. a \in Nat /\ b \in Nat /\ n \in Nat /\ q \in Nat /\ 1 <= a /\ 1 <= b /\ a + n = d /\ b + n = e
        /\ b - a = e - d /\ a <= Len(p) + 1 /\ b <= Len(h) + 1 /\ w - 1 \in Nat
  BY <1>0
<1> HIDE DEF a, b, n, q
<1>2. Len(Ev!From(p, d)) = Len(p) - d + 1 /\ Len(Ev!From(h, e)) = Len(h) - e + 1
  <2>1. d <= Len(p) + 1 /\ e <= Len(h) + 1 /\ 1 <= d /\ 1 <= e
    BY <1>0
  <2> QED  BY ONLY <2>1, FromIs, p \in Seq(Code), h \in Seq(Code), d \in Nat, e \in Nat, Zenon
<1>3. Len(Ev!From(p, a)) = Len(p) - a + 1 /\ Len(Ev!From(h, b)) = Len(h) - b + 1
  BY ONLY <1>1, FromIs, p \in Seq(Code), h \in Seq(Code), Zenon
<1>4. SamePrefix(Ev!From(p, a), Ev!From(h, b), n) <=> \A k \in a..(a + n - 1) : Same(p[k], h[k + (b - a)])
  <2>1. n <= Len(Ev!From(p, a)) /\ n <= Len(Ev!From(h, b))
    BY ONLY <1>0, <1>1, <1>3, d <= Len(p), e <= Len(h), d \in Nat, e \in Nat
  <2>2. a + n <= Len(p) + 1 /\ b + n <= Len(h) + 1
    BY ONLY <1>0, <1>1, d <= Len(p), e <= Len(h), d \in Nat, e \in Nat
  <2>3. (\A j \in 1..n : Same(Ev!From(p, a)[j], Ev!From(h, b)[j]))
           <=> \A k \in a..(a + n - 1) : Same(p[k], h[k + (b - a)])
    BY ONLY <1>1, <2>2, FromSame, p \in Seq(Code), h \in Seq(Code), Zenon
  <2> QED  BY ONLY <2>1, <2>3, Zenon DEF SamePrefix
<1>5. e - d = Len(h) - Len(p) =>
        (SameText(Ev!From(p, d), Ev!From(h, e)) <=> \A k \in d..(d + q - 1) : Same(p[k], h[k + (e - d)]))
  <2> SUFFICES ASSUME e - d = Len(h) - Len(p)
               PROVE  SameText(Ev!From(p, d), Ev!From(h, e)) <=>
                        \A k \in d..(d + q - 1) : Same(p[k], h[k + (e - d)])
    OBVIOUS
  <2>1. Len(Ev!From(p, d)) = q /\ Len(Ev!From(h, e)) = q
    BY ONLY <1>0, <1>2, e - d = Len(h) - Len(p), d \in Nat, e \in Nat DEF q
  <2>2. d + q <= Len(p) + 1 /\ e + q <= Len(h) + 1 /\ 1 <= d /\ 1 <= e /\ q \in Nat
    BY ONLY <1>0, <1>1, e - d = Len(h) - Len(p), d \in Nat, e \in Nat, w \in Nat, w < d, d <= e DEF q
  <2>3. (\A j \in 1..q : Same(Ev!From(p, d)[j], Ev!From(h, e)[j]))
           <=> \A k \in d..(d + q - 1) : Same(p[k], h[k + (e - d)])
    BY ONLY <2>2, FromSame, p \in Seq(Code), h \in Seq(Code), d \in Nat, e \in Nat, Zenon
  <2> QED  BY ONLY <2>1, <2>3, Zenon DEF SameText
<1>6. SameText(Ev!From(p, d), Ev!From(h, e)) => e - d = Len(h) - Len(p)
  <2>1. SameText(Ev!From(p, d), Ev!From(h, e)) => Len(p) - d + 1 = Len(h) - e + 1
    BY ONLY <1>2, Zenon DEF SameText
  <2> QED  BY ONLY <1>0, <2>1, d \in Nat, e \in Nat
<1>7. SamePrefix(p, h, w - 1) <=> \A j \in 1..(w - 1) : Same(p[j], h[j])
  <2>1. w - 1 <= Len(p) /\ w - 1 <= Len(h)
    BY <1>0
  <2> QED  BY ONLY <2>1, Zenon DEF SamePrefix
<1>8. e - d = Len(h) - Len(p) =>
        (SameTail(p, h, w) <=>
          /\ \A k \in a..(a + n - 1) : Same(p[k], h[k + (b - a)])
          /\ \A k \in d..(d + q - 1) : Same(p[k], h[k + (e - d)]))
  <2> SUFFICES ASSUME e - d = Len(h) - Len(p)
               PROVE  SameTail(p, h, w) <=>
                        /\ \A k \in a..(a + n - 1) : Same(p[k], h[k + (b - a)])
                        /\ \A k \in d..(d + q - 1) : Same(p[k], h[k + (e - d)])
    OBVIOUS
  <2>1. \A k : k \in (w + 1)..Len(p) <=> k \in a..(a + n - 1) \/ k \in d..(d + q - 1)
    BY ONLY <1>0, <1>1, d \in Nat, w \in Nat, w < d, d <= Len(p) DEF a, q
  <2>2. \A k \in (w + 1)..Len(p) : k + Len(h) - Len(p) = k + (b - a) /\ k + Len(h) - Len(p) = k + (e - d)
    BY ONLY <1>0, <1>1, e - d = Len(h) - Len(p), d \in Nat, w \in Nat, e \in Nat
  <2>3. \A k \in (w + 1)..Len(p) : /\ Same(p[k], h[k + Len(h) - Len(p)]) <=> Same(p[k], h[k + (b - a)])
                                   /\ Same(p[k], h[k + Len(h) - Len(p)]) <=> Same(p[k], h[k + (e - d)])
    BY ONLY <2>2
  <2> QED  BY ONLY <2>1, <2>3, Zenon DEF SameTail
<1>9. Suffixes(p, h, w, d, e) <=>
        SameText(Ev!From(p, d), Ev!From(h, e)) /\ SamePrefix(p, h, w - 1)
        /\ SamePrefix(Ev!From(p, a), Ev!From(h, b), n)
  BY ONLY Zenon DEF Suffixes, a, b, n
<1>10. Suffixes(p, h, w, d, e) <=>
         /\ e - d = Len(h) - Len(p)
         /\ \A j \in 1..(w - 1) : Same(p[j], h[j])
         /\ SameTail(p, h, w)
  BY ONLY <1>4, <1>5, <1>6, <1>7, <1>8, <1>9, Zenon
<1> QED  BY ONLY <1>10 DEF Parts

(* The comparisons of HostEnds meet the conditions of EqualIs and NequalIs. *)
LEMMA HostEndsIs ==
  ASSUME NEW p \in Seq(Code), NEW h \in Seq(Code), NEW w \in Nat, NEW d \in Nat, NEW e \in Nat,
         1 <= w, w < d, d <= Len(p), d <= e, e <= Len(h)
  PROVE  HostEnds(h, p, w, d, e) <=> Suffixes(p, h, w, d, e)
<1>0. Len(p) \in Nat /\ Len(h) \in Nat
  OBVIOUS
<1>1. e # 0 /\ e >= d
  OBVIOUS
<1>2. Ev!Curl_raw_equal(Ev!From(p, d), Ev!From(h, e)) <=> SameText(Ev!From(p, d), Ev!From(h, e))
  <2>1. 1 <= d /\ d <= Len(p) + 1 /\ 1 <= e /\ e <= Len(h) + 1
    BY <1>0
  <2>2. Ev!From(p, d) \in Seq(Code) /\ Ev!From(h, e) \in Seq(Code)
    BY ONLY <2>1, FromIs, p \in Seq(Code), h \in Seq(Code), d \in Nat, e \in Nat, Zenon
  <2> QED  BY ONLY <2>2, EqualIs, Zenon
<1>3. Ev!Curl_raw_nequal(p, h, w - 1) <=> SamePrefix(p, h, w - 1)
  <2>1. w - 1 \in Nat /\ w - 1 <= Len(p)
    BY <1>0
  <2> QED  BY ONLY <2>1, NequalIs, p \in Seq(Code), h \in Seq(Code), Zenon
<1> DEFINE a == w + 1
           b == e - (d - (w + 1))
           n == d - (w + 1)
<1>4. Ev!Curl_raw_nequal(Ev!From(p, a), Ev!From(h, b), n) <=> SamePrefix(Ev!From(p, a), Ev!From(h, b), n)
  <2>1. a \in Nat /\ b \in Nat /\ n \in Nat /\ 1 <= a /\ 1 <= b /\ a <= Len(p) + 1 /\ b <= Len(h) + 1
        /\ n <= Len(p) - a + 1
    BY <1>0
  <2> HIDE DEF a, b, n
  <2>2. Ev!From(p, a) \in Seq(Code) /\ Ev!From(h, b) \in Seq(Code) /\ Len(Ev!From(p, a)) = Len(p) - a + 1
    BY ONLY <2>1, FromIs, p \in Seq(Code), h \in Seq(Code), Zenon
  <2>3. n <= Len(Ev!From(p, a))
    BY ONLY <2>1, <2>2, Zenon
  <2> QED  BY ONLY <2>1, <2>2, <2>3, NequalIs, Zenon
<1> QED  BY ONLY <1>1, <1>2, <1>3, <1>4, Zenon DEF HostEnds, Suffixes

(* Where the wildcard and the dot after it are. *)
LEMMA WildcardAt ==
  ASSUME NEW p \in Seq(Code), NEW w, NEW d, Wildcard(p, w, d)
  PROVE  w \in Nat /\ d \in Nat /\ 1 <= w /\ w < d /\ d <= Len(p)
<1>1. w \in 1..Len(p) /\ d \in 1..Len(p) /\ w < d
  BY Zenon DEF Wildcard, First
<1>2. Len(p) \in Nat
  OBVIOUS
<1> QED  BY ONLY <1>1, <1>2

(* When hostmatch takes h, the wildcard stands for a text without dots. *)
LEMMA WildForward ==
  ASSUME NEW p \in Seq(Code), NEW h \in Seq(Code), NEW w, NEW d, NEW e,
         Wildcard(p, w, d), First(h, 46, 1, e), d <= e, HostEnds(h, p, w, d, e)
  PROVE  WildMatch(p, h, w)
<1>0. Len(p) \in Nat /\ Len(h) \in Nat
  OBVIOUS
<1>1. w \in Nat /\ d \in Nat /\ e \in Nat /\ 1 <= w /\ w < d /\ d <= Len(p) /\ e <= Len(h)
  <2>1. e \in 1..Len(h)
    BY Zenon DEF First
  <2>2. e \in Nat /\ e <= Len(h)
    BY ONLY <1>0, <2>1
  <2> QED  BY ONLY <2>2, WildcardAt, Wildcard(p, w, d), p \in Seq(Code), Zenon
<1>2. Suffixes(p, h, w, d, e)
  BY ONLY <1>1, HostEndsIs, p \in Seq(Code), h \in Seq(Code), d <= e, HostEnds(h, p, w, d, e), Zenon
<1>3. e - d = Len(h) - Len(p) /\ (\A j \in 1..(w - 1) : Same(p[j], h[j])) /\ SameTail(p, h, w)
  <2>1. Parts(p, h, w, d, e)
    BY ONLY <1>1, <1>2, SuffixesAre, p \in Seq(Code), h \in Seq(Code), d <= e, Zenon
  <2> QED  BY ONLY <2>1 DEF Parts
<1>4. Len(p) <= Len(h)
  BY ONLY <1>0, <1>1, <1>3, d <= e
<1>5. ASSUME NEW j \in w..(w + Len(h) - Len(p)) PROVE h[j] # 46
  <2>1. j \in 1..(e - 1)
    BY ONLY <1>0, <1>1, <1>3, <1>5
  <2> QED  BY ONLY <2>1, First(h, 46, 1, e), Zenon DEF First
<1> QED  BY ONLY <1>3, <1>4, <1>5, Zenon DEF WildMatch, Filling

(* When it does, the first dot of h is the one that p has, and hostmatch takes h. *)
LEMMA WildBack ==
  ASSUME NEW p \in Seq(Code), NEW h \in Seq(Code), NEW w, NEW d,
         Wildcard(p, w, d), WildMatch(p, h, w)
  PROVE  \E e : First(h, 46, 1, e) /\ d <= e /\ HostEnds(h, p, w, d, e)
<1>0. Len(p) \in Nat /\ Len(h) \in Nat
  OBVIOUS
<1>1. w \in Nat /\ d \in Nat /\ 1 <= w /\ w < d /\ d <= Len(p)
  BY ONLY WildcardAt, Wildcard(p, w, d), p \in Seq(Code), Zenon
<1>2. Len(p) <= Len(h)
  BY Zenon DEF WildMatch
<1> DEFINE x == Len(h) - Len(p)
           e == d + x
<1>3. x \in Nat /\ e \in Nat /\ d <= e /\ e <= Len(h) /\ e - d = Len(h) - Len(p)
        /\ \A k \in Nat : k + Len(h) - Len(p) = k + x
  BY ONLY <1>0, <1>1, <1>2
<1>4. \A k \in (w + 1)..Len(p) : Same(p[k], h[k + x])
  <2>1. ASSUME NEW k \in (w + 1)..Len(p) PROVE Same(p[k], h[k + x])
    <3>1. k \in Nat
      BY ONLY <1>1, k \in (w + 1)..Len(p)
    <3>2. k + Len(h) - Len(p) = k + x
      BY ONLY <1>3, <3>1, Zenon
    <3>3. Same(p[k], h[k + Len(h) - Len(p)])
      BY ONLY WildMatch(p, h, w), k \in (w + 1)..Len(p), Zenon DEF WildMatch, SameTail
    <3> QED  BY ONLY <3>2, <3>3, Zenon
  <2> QED  BY ONLY <2>1, Zenon
<1>5. \A j \in 1..(d - 1) : p[j] # 46
  BY ONLY Wildcard(p, w, d), Zenon DEF Wildcard, First
<1>6. p[d] = 46
  BY ONLY Wildcard(p, w, d), Zenon DEF Wildcard, First
<1> HIDE DEF x, e
<1>c. /\ \A j \in 1..Len(p) : p[j] \in Code
      /\ \A j \in 1..Len(h) : h[j] \in Code
  OBVIOUS
<1>7. h[e] = 46
  <2>1. d \in (w + 1)..Len(p) /\ d \in 1..Len(p) /\ e \in 1..Len(h)
    BY ONLY <1>0, <1>1, <1>3
  <2>2. Same(p[d], h[e])
    BY ONLY <1>4, <2>1, Zenon DEF e
  <2> QED  BY ONLY <1>6, <1>c, <2>1, <2>2, SameDot, Zenon
<1>8. ASSUME NEW j \in 1..(e - 1) PROVE h[j] # 46
  <2>0. j \in Nat /\ j \in 1..Len(h)
    BY ONLY <1>0, <1>3, <1>8
  <2>1. CASE j < w
    <3>1. j \in 1..(w - 1) /\ j \in 1..(d - 1) /\ j \in 1..Len(p)
      BY ONLY <1>0, <1>1, <1>8, <2>0, <2>1
    <3>2. Same(p[j], h[j])
      BY ONLY <3>1, WildMatch(p, h, w), Zenon DEF WildMatch
    <3> QED  BY ONLY <1>5, <1>c, <2>0, <3>1, <3>2, SameDot, Zenon
  <2>2. CASE w <= j /\ j <= w + x
    <3>1. j \in w..(w + Len(h) - Len(p))
      BY ONLY <1>0, <1>1, <1>3, <2>0, <2>2
    <3> QED  BY ONLY <3>1, WildMatch(p, h, w), Zenon DEF WildMatch, Filling
  <2>3. CASE w + x < j
    <3>1. j - x \in (w + 1)..Len(p) /\ j - x \in 1..(d - 1) /\ j - x \in 1..Len(p) /\ (j - x) + x = j
      BY ONLY <1>0, <1>1, <1>3, <1>8, <2>0, <2>3 DEF e
    <3>2. Same(p[j - x], h[j])
      BY ONLY <1>4, <3>1
    <3> QED  BY ONLY <1>5, <1>c, <2>0, <3>1, <3>2, SameDot, Zenon
  <2> QED  BY ONLY <1>1, <1>3, <2>0, <2>1, <2>2, <2>3
<1>9. First(h, 46, 1, e)
  <2>1. e \in 1..Len(h)
    BY ONLY <1>0, <1>1, <1>3
  <2> QED  BY ONLY <1>7, <1>8, <2>1, Zenon DEF First
<1>10. Suffixes(p, h, w, d, e)
  <2>1. (\A j \in 1..(w - 1) : Same(p[j], h[j])) /\ SameTail(p, h, w)
    BY ONLY WildMatch(p, h, w), Zenon DEF WildMatch
  <2>2. Parts(p, h, w, d, e)
    BY ONLY <1>3, <2>1 DEF Parts
  <2> QED  BY ONLY <1>1, <1>3, <2>2, SuffixesAre, p \in Seq(Code), h \in Seq(Code), Zenon
<1>11. HostEnds(h, p, w, d, e)
  BY ONLY <1>1, <1>3, <1>10, HostEndsIs, p \in Seq(Code), h \in Seq(Code), Zenon
<1> QED  BY ONLY <1>3, <1>9, <1>11, Zenon

(* What hostmatch decides: equality up to case, or the wildcard. *)
LEMMA HostMatchWild ==
  ASSUME NEW p \in Seq(Code), NEW h \in Seq(Code)
  PROVE  Ev!hostmatch(h, p) <=>
           \/ (\A w, d : ~Wildcard(p, w, d)) /\ SameText(p, h)
           \/ \E w, d : Wildcard(p, w, d) /\ WildMatch(p, h, w)
<1>1. PICK w : w = Ev!StrChr(p, 42, 1)
  BY Zenon
<1>2. PICK d : d = Ev!StrChr(p, 46, 1)
  BY Zenon
<1>3. PICK e : e = Ev!StrChr(h, 46, 1)
  BY Zenon
<1>4. Ev!hostmatch(h, p) <=> IF ~Enabled(p, w, d) THEN Ev!Curl_raw_equal(p, h) ELSE HostEnds(h, p, w, d, e)
  BY ONLY <1>1, <1>2, <1>3, HostMatchIs, Zenon
<1>5. Enabled(p, w, d) <=> Wildcard(p, w, d)
  BY ONLY <1>1, <1>2, EnabledIs, p \in Seq(Code), Zenon
<1>6. Ev!Curl_raw_equal(p, h) <=> SameText(p, h)
  BY ONLY EqualIs, p \in Seq(Code), h \in Seq(Code), Zenon
<1>0. 1 \in Nat /\ 1 <= 1
  OBVIOUS
<1>7. ASSUME NEW w1, NEW d1, Wildcard(p, w1, d1) PROVE w1 = w /\ d1 = d
  <2>1. First(p, 42, 1, w1) /\ First(p, 46, 1, d1)
    BY ONLY <1>7, Zenon DEF Wildcard
  <2> QED  BY ONLY <1>0, <1>1, <1>2, <2>1, FirstIs, p \in Seq(Code), Zenon
<1>8. ASSUME Wildcard(p, w, d), HostEnds(h, p, w, d, e) PROVE WildMatch(p, h, w)
  <2>1. e # 0 /\ e >= d
    BY ONLY <1>8, Zenon DEF HostEnds
  <2>2. First(h, 46, 1, e)
    BY ONLY <1>0, <1>3, <2>1, FirstIs, h \in Seq(Code), Zenon
  <2>3. d <= e
    <3>1. e \in 1..Len(h)
      BY ONLY <2>2, Zenon DEF First
    <3>2. d \in Nat
      BY ONLY <1>8, WildcardAt, p \in Seq(Code), Zenon
    <3> QED  BY <2>1, <3>1, <3>2
  <2> QED  BY ONLY <1>8, <2>2, <2>3, WildForward, p \in Seq(Code), h \in Seq(Code), Zenon
<1>9. ASSUME Wildcard(p, w, d), WildMatch(p, h, w) PROVE HostEnds(h, p, w, d, e)
  <2>1. PICK e1 : First(h, 46, 1, e1) /\ HostEnds(h, p, w, d, e1)
    BY ONLY <1>9, WildBack, p \in Seq(Code), h \in Seq(Code), Zenon
  <2>2. e = e1
    BY ONLY <1>0, <1>3, <2>1, FirstIs, h \in Seq(Code), Zenon
  <2> QED  BY ONLY <2>1, <2>2, Zenon
<1> QED  BY ONLY <1>4, <1>5, <1>6, <1>7, <1>8, <1>9, Zenon

(* x is s from a to b. *)
IsSlice(x, s, a, b) ==
  x \in Seq(Code) /\ Len(x) = b - a + 1 /\ \A j \in 1..(b - a + 1) : x[j] = s[a + j - 1]

(* SubSeq is that. *)
LEMMA SubSeqIs ==
  ASSUME NEW s \in Seq(Code), NEW a \in Nat, NEW b \in Nat, 1 <= a, a <= b + 1, b <= Len(s)
  PROVE  IsSlice(SubSeq(s, a, b), s, a, b)
<1>1. Len(s) \in Nat
  OBVIOUS
<1>2. \A i \in a..b : s[i] \in Code
  <2>1. \A i \in a..b : i \in 1..Len(s)
    BY ONLY <1>1, a \in Nat, b \in Nat, 1 <= a, b <= Len(s)
  <2>2. \A i \in 1..Len(s) : s[i] \in Code
    OBVIOUS
  <2> QED  BY ONLY <2>1, <2>2, Zenon
<1>3. /\ SubSeq(s, a, b) \in Seq(Code)
      /\ Len(SubSeq(s, a, b)) = IF a <= b THEN b - a + 1 ELSE 0
      /\ \A j \in 1..(b - a + 1) : SubSeq(s, a, b)[j] = s[a + j - 1]
  <2>1. a \in Int /\ b \in Int
    OBVIOUS
  <2> QED  BY ONLY <1>2, <2>1, SubSeqProperties
<1>4. (IF a <= b THEN b - a + 1 ELSE 0) = b - a + 1
  BY ONLY a \in Nat, b \in Nat, a <= b + 1
<1> QED  BY ONLY <1>3, <1>4, Zenon DEF IsSlice

(* A string in upper case is a string of the same length. *)
LEMMA UpperSeq ==
  ASSUME NEW s \in Seq(Code)
  PROVE  /\ Ev!Upper(s) \in Seq(0..255) /\ Len(Ev!Upper(s)) = Len(s)
         /\ \A j \in 1..Len(s) : Ev!Upper(s)[j] = Ev!Curl_raw_toupper(s[j])
<1>1. DOMAIN s = 1..Len(s) /\ Len(s) \in Nat /\ \A j \in 1..Len(s) : s[j] \in Code
  OBVIOUS
<1> DEFINE B == 0..255
<1>2. \A c \in Code : Ev!Curl_raw_toupper(c) \in B
  <2>1. ASSUME NEW c \in Code PROVE c \in 0..255
    BY DEF Code
  <2> QED  BY ONLY <2>1, ToUpper, Zenon
<1> HIDE DEF B
<1>3. Ev!Upper(s) = [j \in 1..Len(s) |-> Ev!Curl_raw_toupper(s[j])]
  BY <1>1 DEF Ev!Upper
<1>4. \A j \in 1..Len(s) : Ev!Curl_raw_toupper(s[j]) \in B
  BY ONLY <1>1, <1>2, Zenon
<1>5. Ev!Upper(s) \in [1..Len(s) -> B]
  BY ONLY <1>3, <1>4, Zenon
<1>6. Ev!Upper(s) \in Seq(B) /\ Len(Ev!Upper(s)) = Len(s)
  BY ONLY <1>1, <1>5
<1>7. \A j \in 1..Len(s) : Ev!Upper(s)[j] = Ev!Curl_raw_toupper(s[j])
  BY ONLY <1>3, Zenon
<1> QED  BY ONLY <1>6, <1>7 DEF B

(* The test for an internationalised label, in the reference and in hostmatch. *)
LEMMA PrefixIs ==
  ASSUME NEW p \in Seq(Code)
  PROVE  Len(p) >= 4 /\ SubSeq(Ev!Upper(p), 1, 4) = Ev!Upper(Ev!Punycode) <=> SamePrefix(p, Ev!Punycode, 4)
<1>0. Len(p) \in Nat
  OBVIOUS
<1> SUFFICES ASSUME Len(p) >= 4
             PROVE  SubSeq(Ev!Upper(p), 1, 4) = Ev!Upper(Ev!Punycode)
                      <=> \A j \in 1..4 : Same(p[j], Ev!Punycode[j])
  BY <1>0, PunycodeIs DEF SamePrefix
<1>1. PICK u : u = Ev!Upper(p)
  BY Zenon
<1>2. PICK v : v = Ev!Upper(Ev!Punycode)
  BY Zenon
<1>3. \A j \in 1..Len(p) : u[j] = Ev!Curl_raw_toupper(p[j])
  BY ONLY <1>1, UpperSeq, p \in Seq(Code), Zenon
<1> DEFINE B == 0..255
<1>4. v \in Seq(B) /\ Len(v) = 4 /\ \A j \in 1..4 : v[j] = Ev!Curl_raw_toupper(Ev!Punycode[j])
  <2>1. /\ v \in Seq(B) /\ Len(v) = Len(Ev!Punycode)
        /\ \A j \in 1..Len(Ev!Punycode) : v[j] = Ev!Curl_raw_toupper(Ev!Punycode[j])
    BY ONLY <1>2, UpperSeq, PunycodeIs, Zenon
  <2> HIDE DEF B
  <2> QED  BY ONLY <2>1, PunycodeIs, Zenon
<1>5. u \in Seq(B) /\ Len(u) = Len(p)
  BY ONLY <1>1, UpperSeq, p \in Seq(Code), Zenon
<1> HIDE DEF B
<1>6. PICK x : x = SubSeq(u, 1, 4)
  BY Zenon
<1>7. x \in Seq(B) /\ Len(x) = 4 /\ \A j \in 1..4 : x[j] = u[j]
  BY ONLY <1>0, <1>5, <1>6, Len(p) >= 4
<1>8. ASSUME \A j \in 1..4 : x[j] = v[j] PROVE x = v
  <2>1. Len(x) = Len(v) /\ \A j \in 1..Len(x) : x[j] = v[j]
    BY ONLY <1>4, <1>7, <1>8
  <2> QED  BY ONLY <1>4, <1>7, <2>1, SeqEqual, Zenon
<1>9. \A j \in 1..4 : u[j] = Ev!Curl_raw_toupper(p[j])
  BY ONLY <1>0, <1>3, Len(p) >= 4
<1>10. ASSUME NEW j \in 1..4 PROVE x[j] = v[j] <=> Same(p[j], Ev!Punycode[j])
  <2>1. x[j] = Ev!Curl_raw_toupper(p[j]) /\ v[j] = Ev!Curl_raw_toupper(Ev!Punycode[j])
    BY ONLY <1>4, <1>7, <1>9, <1>10
  <2> QED  BY ONLY <2>1, Zenon DEF Same
<1>11. x = v <=> \A j \in 1..4 : Same(p[j], Ev!Punycode[j])
  BY ONLY <1>8, <1>10, Zenon
<1> QED  BY ONLY <1>1, <1>2, <1>6, <1>11, Zenon

(* The places of dots. *)
LEMMA DotsAre ==
  ASSUME NEW s \in Seq(Code), NEW f
  PROVE  f \in Ev!Dots(s) <=> f \in 1..Len(s) /\ s[f] = 46
<1>1. DOMAIN s = 1..Len(s)
  OBVIOUS
<1> QED  BY ONLY <1>1, Zenon DEF Ev!Dots, Ev!Dot

(* The reference and hostmatch honour the same wildcards. *)
LEMMA WildIs ==
  ASSUME NEW p \in Seq(Code), NEW i \in 1..Len(p)
  PROVE  Ev!Wild(p, i) <=> \E d : Wildcard(p, i, d)
<1>0. Len(p) \in Nat /\ i \in Nat /\ 1 <= i
  OBVIOUS
<1> DEFINE D == Ev!Dots(p)
<1>1. Ev!Wild(p, i) <=>
        /\ p[i] = 42 /\ 42 \notin {p[j] : j \in 1..(i - 1)}
        /\ \E d, e \in D : d < e /\ \A f \in D : i < f
        /\ ~SamePrefix(p, Ev!Punycode, 4)
  BY ONLY PrefixIs, p \in Seq(Code), Zenon DEF Ev!Wild, Ev!Star
<1>2. \A f : f \in D <=> f \in 1..Len(p) /\ p[f] = 46
  BY ONLY DotsAre, p \in Seq(Code), Zenon
<1> HIDE DEF D
<1>3. First(p, 42, 1, i) <=> p[i] = 42 /\ 42 \notin {p[j] : j \in 1..(i - 1)}
  BY ONLY i \in 1..Len(p), Zenon DEF First
<1>4. D \subseteq Nat
  <2>1. \A f \in 1..Len(p) : f \in Nat
    BY ONLY <1>0
  <2> QED  BY ONLY <1>2, <2>1, Zenon
<1>5. ASSUME NEW d \in D, NEW e \in D, d < e, \A f \in D : i < f
      PROVE  \E m : First(p, 46, 1, m) /\ ~None(p, 46, m + 1) /\ i < m
  <2>1. PICK m \in D : \A f \in D : m <= f
    BY ONLY <1>4, <1>5, NatMin, Zenon
  <2>2. m \in 1..Len(p) /\ p[m] = 46 /\ e \in 1..Len(p) /\ p[e] = 46 /\ i < m
    BY ONLY <1>2, <1>5, <2>1, Zenon
  <2>3. m <= d /\ d \in Nat
    BY ONLY <1>4, <1>5, <2>1, Zenon
  <2>4. e \in (m + 1)..Len(p)
    BY ONLY <1>0, <1>5, <2>2, <2>3
  <2>5. ~None(p, 46, m + 1)
    BY ONLY <2>2, <2>4, Zenon DEF None
  <2>6. ASSUME NEW j \in 1..(m - 1) PROVE p[j] # 46
    <3>1. j \in 1..Len(p) /\ ~(m <= j)
      BY ONLY <1>0, <2>2, <2>6
    <3> QED  BY ONLY <1>2, <2>1, <3>1, Zenon
  <2>7. First(p, 46, 1, m)
    BY ONLY <2>2, <2>6, Zenon DEF First
  <2> QED  BY ONLY <2>2, <2>5, <2>7, Zenon
<1>6. ASSUME NEW m, First(p, 46, 1, m), ~None(p, 46, m + 1), i < m
      PROVE  \E d, e \in D : d < e /\ \A f \in D : i < f
  <2>1. m \in 1..Len(p) /\ p[m] = 46 /\ \A j \in 1..(m - 1) : p[j] # 46
    BY ONLY <1>6, Zenon DEF First
  <2>2. PICK e \in (m + 1)..Len(p) : p[e] = 46
    BY ONLY <1>6, Zenon DEF None
  <2>3. m < e /\ e \in 1..Len(p) /\ m \in D /\ e \in D
    <3>1. m < e /\ e \in 1..Len(p)
      BY ONLY <1>0, <2>1, <2>2
    <3> QED  BY ONLY <1>2, <2>1, <2>2, <3>1, Zenon
  <2>4. ASSUME NEW f \in D PROVE i < f
    <3>1. f \in 1..Len(p) /\ p[f] = 46
      BY ONLY <1>2, <2>4, Zenon
    <3>2. f \notin 1..(m - 1)
      BY ONLY <2>1, <3>1, Zenon
    <3> QED  BY ONLY <1>0, <1>6, <2>1, <3>1, <3>2
  <2> QED  BY ONLY <2>3, <2>4, Zenon
<1>7. (\E d, e \in D : d < e /\ \A f \in D : i < f)
        <=> \E m : First(p, 46, 1, m) /\ ~None(p, 46, m + 1) /\ i < m
  BY ONLY <1>5, <1>6, Zenon
<1> QED  BY ONLY <1>1, <1>3, <1>7, Zenon DEF Wildcard

(* The reference for a wildcard at i that stands for n characters of h. *)
Filled(p, h, i, n) ==
  LET filling == SubSeq(h, i, i + n - 1)
  IN  /\ Ev!Dots(filling) = {}
      /\ Ev!Upper(SubSeq(p, 1, i - 1) \o filling \o Ev!From(p, i + 1)) = Ev!Upper(h)

(* t is a, b and c in a row. *)
IsConcat(t, a, b, c) ==
  /\ t \in Seq(Code) /\ Len(t) = Len(a) + Len(b) + Len(c)
  /\ \A j \in 1..Len(a) : t[j] = a[j]
  /\ \A j \in 1..Len(b) : t[Len(a) + j] = b[j]
  /\ \A j \in 1..Len(c) : t[Len(a) + Len(b) + j] = c[j]

(* Concatenation, place by place. *)
LEMMA Concat3 ==
  ASSUME NEW a \in Seq(Code), NEW b \in Seq(Code), NEW c \in Seq(Code), NEW t, t = a \o b \o c
  PROVE  IsConcat(t, a, b, c)
<1>0. Len(a) \in Nat /\ Len(b) \in Nat /\ Len(c) \in Nat
  OBVIOUS
<1>1. PICK d : d = a \o b
  BY Zenon
<1>2. d \in Seq(Code) /\ Len(d) = Len(a) + Len(b)
  BY ONLY <1>1, a \in Seq(Code), b \in Seq(Code)
<1>3. t \in Seq(Code) /\ Len(t) = Len(d) + Len(c)
  BY ONLY <1>1, <1>2, c \in Seq(Code), t = a \o b \o c
<1>4. \A j \in 1..Len(d) : t[j] = d[j]
  BY ONLY <1>1, <1>2, c \in Seq(Code), t = a \o b \o c
<1>5. \A j \in 1..Len(c) : t[Len(d) + j] = c[j]
  BY ONLY <1>1, <1>2, c \in Seq(Code), t = a \o b \o c
<1>6. \A j \in 1..Len(a) : d[j] = a[j] /\ j \in 1..Len(d)
  BY ONLY <1>0, <1>1, <1>2, a \in Seq(Code), b \in Seq(Code)
<1>7. \A j \in 1..Len(b) : d[Len(a) + j] = b[j] /\ Len(a) + j \in 1..Len(d)
  BY ONLY <1>0, <1>1, <1>2, a \in Seq(Code), b \in Seq(Code)
<1>8. \A j \in 1..Len(c) : t[Len(a) + Len(b) + j] = c[j]
  BY ONLY <1>2, <1>5
<1>9. Len(t) = Len(a) + Len(b) + Len(c)
  BY ONLY <1>2, <1>3
<1> QED  BY ONLY <1>3, <1>4, <1>6, <1>7, <1>8, <1>9, Zenon DEF IsConcat

(* The reference is WildMatch. *)
LEMMA FilledIs ==
  ASSUME NEW p \in Seq(Code), NEW h \in Seq(Code), NEW i \in 1..Len(p), NEW n \in 1..Len(h),
         n + Len(p) - 1 = Len(h)
  PROVE  Filled(p, h, i, n) <=> WildMatch(p, h, i)
<1>0. /\ Len(p) \in Nat /\ Len(h) \in Nat /\ i \in Nat /\ n \in Nat /\ 1 <= i /\ 1 <= n /\ i <= Len(p)
      /\ Len(p) <= Len(h) /\ i + n - 1 \in Nat /\ i <= (i + n - 1) + 1 /\ i + n - 1 <= Len(h)
      /\ i - 1 \in Nat /\ i - 1 <= Len(p) /\ i + 1 \in Nat /\ i + 1 <= Len(p) + 1 /\ 1 <= i + 1
      /\ 1 \in Nat /\ 1 <= 1 /\ 1 <= (i - 1) + 1
      /\ i + Len(h) - Len(p) = i + n - 1
  OBVIOUS
<1>1. PICK a : a = SubSeq(p, 1, i - 1)
  BY Zenon
<1>2. PICK b : b = SubSeq(h, i, i + n - 1)
  BY Zenon
<1>3. PICK c : c = Ev!From(p, i + 1)
  BY Zenon
<1>4. a \in Seq(Code) /\ Len(a) = (i - 1) - 1 + 1 /\ \A j \in 1..((i - 1) - 1 + 1) : a[j] = p[1 + j - 1]
  <2>1. IsSlice(a, p, 1, i - 1)
    BY ONLY <1>0, <1>1, SubSeqIs, p \in Seq(Code), Zenon
  <2> QED  BY ONLY <2>1 DEF IsSlice
<1>5. b \in Seq(Code) /\ Len(b) = (i + n - 1) - i + 1 /\ \A j \in 1..((i + n - 1) - i + 1) : b[j] = h[i + j - 1]
  <2>1. IsSlice(b, h, i, i + n - 1)
    BY ONLY <1>0, <1>2, SubSeqIs, h \in Seq(Code), Zenon
  <2> QED  BY ONLY <2>1 DEF IsSlice
<1>6. c \in Seq(Code) /\ Len(c) = Len(p) - (i + 1) + 1 /\ \A j \in 1..(Len(p) - (i + 1) + 1) : c[j] = p[(i + 1) + j - 1]
  BY ONLY <1>0, <1>3, FromIs, p \in Seq(Code), Zenon
<1>7. Len(a) = i - 1 /\ Len(b) = n /\ Len(c) = Len(p) - i
  BY ONLY <1>0, <1>4, <1>5, <1>6
<1>8. PICK t : t = a \o b \o c
  BY Zenon
<1>c. /\ t \in Seq(Code) /\ Len(t) = Len(a) + Len(b) + Len(c)
      /\ \A j \in 1..Len(a) : t[j] = a[j]
      /\ \A j \in 1..Len(b) : t[Len(a) + j] = b[j]
      /\ \A j \in 1..Len(c) : t[Len(a) + Len(b) + j] = c[j]
  <2>1. IsConcat(t, a, b, c)
    BY ONLY <1>4, <1>5, <1>6, <1>8, Concat3, Zenon
  <2> QED  BY ONLY <2>1, Zenon DEF IsConcat
<1>9. t \in Seq(Code) /\ Len(t) = Len(h)
  BY ONLY <1>0, <1>7, <1>c, n + Len(p) - 1 = Len(h)
<1>10. ASSUME NEW j \in 1..(i - 1) PROVE t[j] = p[j]
  <2>1. j \in 1..Len(a) /\ j \in 1..((i - 1) - 1 + 1) /\ 1 + j - 1 = j
    BY ONLY <1>0, <1>7, <1>10
  <2>2. t[j] = a[j]
    BY ONLY <1>c, <2>1, Zenon
  <2> QED  BY ONLY <1>4, <2>1, <2>2
<1>11. ASSUME NEW j \in i..(i + n - 1) PROVE t[j] = h[j] /\ b[j - i + 1] = h[j]
  <2>1. /\ j - i + 1 \in 1..Len(b) /\ j - i + 1 \in 1..((i + n - 1) - i + 1) /\ i + (j - i + 1) - 1 = j
        /\ j = Len(a) + (j - i + 1)
    BY ONLY <1>0, <1>7, <1>11
  <2>2. t[j] = b[j - i + 1]
    BY ONLY <1>c, <2>1, Zenon
  <2>3. b[j - i + 1] = h[i + (j - i + 1) - 1]
    BY ONLY <1>5, <2>1, Zenon
  <2> QED  BY ONLY <2>1, <2>2, <2>3, Zenon
<1>12. ASSUME NEW k \in (i + 1)..Len(p) PROVE t[k + Len(h) - Len(p)] = p[k]
  <2>1. /\ k - i \in 1..Len(c) /\ k - i \in 1..(Len(p) - (i + 1) + 1) /\ (i + 1) + (k - i) - 1 = k
        /\ k + Len(h) - Len(p) = Len(a) + Len(b) + (k - i)
    BY ONLY <1>0, <1>7, <1>12, n + Len(p) - 1 = Len(h)
  <2>2. t[Len(a) + Len(b) + (k - i)] = c[k - i]
    BY ONLY <1>c, <2>1, Zenon
  <2>3. c[k - i] = p[(i + 1) + (k - i) - 1]
    BY ONLY <1>6, <2>1, Zenon
  <2> QED  BY ONLY <2>1, <2>2, <2>3
<1>13. Ev!Upper(t) = Ev!Upper(h) <=> SameText(t, h)
  BY ONLY <1>9, UpperIs, h \in Seq(Code), Zenon
<1>14. SameText(t, h) <=> (\A j \in 1..(i - 1) : Same(p[j], h[j])) /\ SameTail(p, h, i)
  <2>1. ASSUME SameText(t, h) PROVE (\A j \in 1..(i - 1) : Same(p[j], h[j])) /\ SameTail(p, h, i)
    <3>1. \A j \in 1..Len(h) : Same(t[j], h[j])
      BY ONLY <1>9, <2>1 DEF SameText
    <3>2. ASSUME NEW j \in 1..(i - 1) PROVE Same(p[j], h[j])
      <4>1. j \in 1..Len(h)
        BY ONLY <1>0, <3>2
      <4> QED  BY ONLY <1>10, <3>1, <3>2, <4>1
    <3>3. ASSUME NEW k \in (i + 1)..Len(p) PROVE Same(p[k], h[k + Len(h) - Len(p)])
      <4>1. k + Len(h) - Len(p) \in 1..Len(h)
        BY ONLY <1>0, <3>3
      <4> QED  BY ONLY <1>12, <3>1, <3>3, <4>1
    <3> QED  BY ONLY <3>2, <3>3, Zenon DEF SameTail
  <2>2. ASSUME \A j \in 1..(i - 1) : Same(p[j], h[j]), SameTail(p, h, i) PROVE SameText(t, h)
    <3>1. ASSUME NEW j \in 1..Len(h) PROVE Same(t[j], h[j])
      <4>1. CASE j \in 1..(i - 1)
        BY ONLY <1>10, <2>2, <4>1
      <4>2. CASE j \in i..(i + n - 1)
        BY ONLY <1>11, <4>2 DEF Same
      <4>3. CASE j > i + n - 1
        <5>1. PICK k : k = j - Len(h) + Len(p)
          BY Zenon
        <5>2. k \in (i + 1)..Len(p) /\ k + Len(h) - Len(p) = j
          BY ONLY <1>0, <3>1, <4>3, <5>1, n + Len(p) - 1 = Len(h)
        <5>3. Same(p[k], h[k + Len(h) - Len(p)])
          BY ONLY <2>2, <5>2, Zenon DEF SameTail
        <5> QED  BY ONLY <1>12, <5>2, <5>3
      <4> QED  BY ONLY <1>0, <3>1, <4>1, <4>2, <4>3
    <3> QED  BY ONLY <1>9, <3>1 DEF SameText
  <2> QED  BY ONLY <2>1, <2>2, Zenon
<1>15. Ev!Dots(b) = {} <=> Filling(p, h, i)
  <2>1. \A f : f \in Ev!Dots(b) <=> f \in 1..Len(b) /\ b[f] = 46
    BY ONLY <1>5, DotsAre, Zenon
  <2>2. ASSUME Ev!Dots(b) = {}, NEW j \in i..(i + n - 1) PROVE h[j] # 46
    <3>1. j - i + 1 \in 1..Len(b)
      BY ONLY <1>0, <1>7, <2>2
    <3>2. b[j - i + 1] # 46
      BY ONLY <2>1, <2>2, <3>1, Zenon
    <3>3. b[j - i + 1] = h[j]
      BY ONLY <1>11, <2>2, Zenon
    <3> QED  BY ONLY <3>2, <3>3, Zenon
  <2>3. ASSUME \A j \in i..(i + n - 1) : h[j] # 46, NEW f \in Ev!Dots(b) PROVE FALSE
    <3>1. f \in 1..Len(b) /\ b[f] = 46
      BY ONLY <2>1, <2>3, Zenon
    <3>2. PICK j : j = f + i - 1
      BY Zenon
    <3>3. j \in i..(i + n - 1) /\ j - i + 1 = f
      BY ONLY <1>0, <1>7, <3>1, <3>2
    <3>4. b[j - i + 1] = h[j] /\ h[j] # 46
      BY ONLY <1>11, <2>3, <3>3, Zenon
    <3> QED  BY ONLY <3>1, <3>3, <3>4, Zenon
  <2>4. Ev!Dots(b) = {} <=> \A j \in i..(i + n - 1) : h[j] # 46
    BY ONLY <2>2, <2>3, Zenon
  <2> QED  BY ONLY <1>0, <2>4 DEF Filling
<1>16. Filled(p, h, i, n) <=> Ev!Dots(b) = {} /\ Ev!Upper(t) = Ev!Upper(h)
  BY ONLY <1>1, <1>2, <1>3, <1>8, Zenon DEF Filled
<1> QED  BY ONLY <1>0, <1>13, <1>14, <1>15, <1>16, Zenon DEF WildMatch

(* What the reference decides: equality up to case, or the wildcard. *)
LEMMA NamesHostIs ==
  ASSUME NEW p \in Seq(Code), NEW h \in Seq(Code)
  PROVE  Ev!NamesHost(p, h) <=> SameText(p, h) \/ \E w, d : Wildcard(p, w, d) /\ WildMatch(p, h, w)
<1>0. Len(p) \in Nat /\ Len(h) \in Nat /\ DOMAIN p = 1..Len(p)
  OBVIOUS
<1>1. Ev!NamesHost(p, h) <=>
        \/ Ev!Upper(p) = Ev!Upper(h)
        \/ \E i \in 1..Len(p), n \in 1..Len(h) :
             Ev!Wild(p, i) /\ n + Len(p) - 1 = Len(h) /\ Filled(p, h, i, n)
  BY ONLY <1>0, Zenon DEF Ev!NamesHost, Filled
<1>2. Ev!Upper(p) = Ev!Upper(h) <=> SameText(p, h)
  BY ONLY UpperIs, p \in Seq(Code), h \in Seq(Code), Zenon
<1>3. ASSUME NEW i \in 1..Len(p), NEW n \in 1..Len(h),
             Ev!Wild(p, i), n + Len(p) - 1 = Len(h), Filled(p, h, i, n)
      PROVE  \E w, d : Wildcard(p, w, d) /\ WildMatch(p, h, w)
  <2>1. \E d : Wildcard(p, i, d)
    BY ONLY <1>3, WildIs, p \in Seq(Code), Zenon
  <2>2. WildMatch(p, h, i)
    BY ONLY <1>3, FilledIs, p \in Seq(Code), h \in Seq(Code), Zenon
  <2> QED  BY ONLY <2>1, <2>2, Zenon
<1>4. ASSUME NEW w, NEW d, Wildcard(p, w, d), WildMatch(p, h, w)
      PROVE  \E i \in 1..Len(p), n \in 1..Len(h) :
               Ev!Wild(p, i) /\ n + Len(p) - 1 = Len(h) /\ Filled(p, h, i, n)
  <2>1. w \in Nat /\ d \in Nat /\ 1 <= w /\ w < d /\ d <= Len(p)
    BY ONLY <1>4, WildcardAt, p \in Seq(Code), Zenon
  <2>2. Len(p) <= Len(h)
    BY ONLY <1>4, Zenon DEF WildMatch
  <2>3. PICK n : n = Len(h) - Len(p) + 1
    BY Zenon
  <2>4. w \in 1..Len(p) /\ n \in 1..Len(h) /\ n + Len(p) - 1 = Len(h)
    BY ONLY <1>0, <2>1, <2>2, <2>3
  <2>5. Ev!Wild(p, w)
    BY ONLY <1>4, <2>4, WildIs, p \in Seq(Code), Zenon
  <2>6. Filled(p, h, w, n)
    BY ONLY <1>4, <2>4, FilledIs, p \in Seq(Code), h \in Seq(Code), Zenon
  <2> QED  BY ONLY <2>4, <2>5, <2>6, Zenon
<1> QED  BY ONLY <1>1, <1>2, <1>3, <1>4, Zenon

(* Curl_cert_hostcheck decides as the reference does, for every pattern and host. *)
LEMMA HostCheckIs ==
  ASSUME NEW p \in Seq(Code), NEW h \in Seq(Code)
  PROVE  Ev!Curl_cert_hostcheck(p, h) <=> h # <<>> /\ Ev!NamesHost(p, h)
<1>0. Len(p) \in Nat /\ Len(h) \in Nat
  OBVIOUS
<1>1. \A s \in Seq(Code) : Ev!CharAt(s, 1) # 0 <=> s # <<>>
  <2>1. ASSUME NEW s \in Seq(Code) PROVE Ev!CharAt(s, 1) # 0 <=> s # <<>>
    <3>1. CASE s = <<>>
      <4>1. 1 \in Nat /\ 1 > Len(s)
        BY <3>1
      <4> QED  BY ONLY <3>1, <4>1, Outside, s \in Seq(Code), Zenon
    <3>2. CASE s # <<>>
      <4>1. 1 \in Nat /\ 1 <= 1 /\ 1 <= Len(s)
        BY <3>2
      <4> QED  BY ONLY <3>2, <4>1, Inside, s \in Seq(Code), Zenon
    <3> QED  BY ONLY <3>1, <3>2
  <2> QED  BY ONLY <2>1, Zenon
<1>2. Ev!Curl_raw_equal(h, p) <=> SameText(h, p)
  BY ONLY EqualIs, p \in Seq(Code), h \in Seq(Code), Zenon
<1>3. SameText(h, p) <=> SameText(p, h)
  <2>1. SameText(h, p) => SameText(p, h)
    BY ONLY <1>0 DEF SameText, Same
  <2>2. SameText(p, h) => SameText(h, p)
    BY ONLY <1>0 DEF SameText, Same
  <2> QED  BY ONLY <2>1, <2>2
<1>4. Ev!hostmatch(h, p) <=> \/ (\A w, d : ~Wildcard(p, w, d)) /\ SameText(p, h)
                             \/ \E w, d : Wildcard(p, w, d) /\ WildMatch(p, h, w)
  BY ONLY HostMatchWild, p \in Seq(Code), h \in Seq(Code), Zenon
<1>5. Ev!NamesHost(p, h) <=> SameText(p, h) \/ \E w, d : Wildcard(p, w, d) /\ WildMatch(p, h, w)
  BY ONLY NamesHostIs, p \in Seq(Code), h \in Seq(Code), Zenon
<1>6. Ev!Curl_raw_equal(h, p) \/ Ev!hostmatch(h, p) <=> Ev!NamesHost(p, h)
  BY ONLY <1>2, <1>3, <1>4, <1>5, Zenon
<1>7. h # <<>> /\ Ev!NamesHost(p, h) => p # <<>>
  <2> SUFFICES ASSUME h # <<>>, p = <<>> PROVE ~Ev!NamesHost(p, h)
    OBVIOUS
  <2>1. Len(p) = 0 /\ Len(h) # 0
    OBVIOUS
  <2>2. ~SameText(p, h)
    BY ONLY <2>1 DEF SameText
  <2>3. ASSUME NEW w, NEW d, Wildcard(p, w, d) PROVE FALSE
    <3>1. w \in Nat /\ d \in Nat /\ 1 <= w /\ w < d /\ d <= Len(p)
      BY ONLY <2>3, WildcardAt, p \in Seq(Code), Zenon
    <3> QED  BY ONLY <2>1, <3>1
  <2> QED  BY ONLY <1>5, <2>2, <2>3, Zenon
<1> QED  BY ONLY <1>1, <1>6, <1>7, p \in Seq(Code), h \in Seq(Code), Zenon DEF Ev!Curl_cert_hostcheck

(* A name without a 0 inside it. *)
ZeroFree(name) == 0 \notin {name[i] : i \in DOMAIN name}

(* The comparison of ASN1_STRING_length with strlen finds the other names. *)
LEMMA ZeroFreeIs ==
  ASSUME NEW name \in Seq(0..255)
  PROVE  /\ ZeroFree(name) <=> Len(name) = Ev!StrLen(name)
         /\ ZeroFree(name) => name \in Seq(Code)
<1>0. Len(name) \in Nat /\ DOMAIN name = 1..Len(name)
  OBVIOUS
<1>1. PICK x : x = Ev!StrChr(name, 0, 1)
  BY Zenon
<1>2. (x = 0 /\ None(name, 0, 1)) \/ First(name, 0, 1, x)
  <2>1. 1 \in Nat /\ 1 <= 1
    OBVIOUS
  <2> QED  BY ONLY <1>1, <2>1, StrChrIs, name \in Seq(0..255), Zenon
<1>3. ZeroFree(name) <=> None(name, 0, 1)
  BY ONLY <1>0, Zenon DEF ZeroFree, None
<1>4. Ev!StrLen(name) = IF x = 0 THEN Len(name) ELSE x - 1
  BY ONLY <1>1, Zenon DEF Ev!StrLen
<1>5. ZeroFree(name) <=> Len(name) = Ev!StrLen(name)
  <2>1. CASE x = 0 /\ None(name, 0, 1)
    BY ONLY <1>3, <1>4, <2>1, Zenon
  <2>2. CASE First(name, 0, 1, x)
    <3>1. x \in 1..Len(name) /\ name[x] = 0
      BY ONLY <2>2, Zenon DEF First
    <3>2. ~None(name, 0, 1)
      BY ONLY <3>1, Zenon DEF None
    <3>3. x # 0 /\ x - 1 # Len(name)
      BY ONLY <1>0, <3>1
    <3>4. Ev!StrLen(name) = x - 1
      BY ONLY <1>4, <3>3, Zenon
    <3> QED  BY ONLY <1>3, <3>2, <3>3, <3>4, Zenon
  <2> QED  BY ONLY <1>2, <2>1, <2>2, Zenon
<1>6. ASSUME None(name, 0, 1) PROVE name \in Seq(Code)
  <2> DEFINE B == 0..255
  <2>1. \A b \in B : b # 0 => b \in Code
    BY DEF Code
  <2>s. name \in Seq(B)
    OBVIOUS
  <2> HIDE DEF B
  <2>2. \A i \in 1..Len(name) : name[i] \in B
    BY ONLY <2>s, ElementOfSeq, Zenon
  <2>3. \A i \in 1..Len(name) : name[i] \in Code
    BY ONLY <1>6, <2>1, <2>2, Zenon DEF None
  <2>4. name \in [1..Len(name) -> Code]
    <3>1. name = [i \in 1..Len(name) |-> name[i]]
      BY ONLY name \in Seq(0..255)
    <3> QED  BY ONLY <2>3, <3>1, Zenon
  <2> QED  BY ONLY <1>0, <2>4
<1> QED  BY ONLY <1>3, <1>5, <1>6, Zenon

(* The verdict on one name of the certificate. *)
LEMMA CheckNameIs ==
  ASSUME NEW h \in Seq(Code), NEW name \in Seq(0..255)
  PROVE  /\ Ev!CheckName(h, name) \in {"MalformedCertificate", "MatchFound", "MatchNotFound"}
         /\ Ev!CheckName(h, name) = "MalformedCertificate" <=> ~ZeroFree(name)
         /\ Ev!CheckName(h, name) = "MatchFound" <=> ZeroFree(name) /\ h # <<>> /\ Ev!NamesHost(name, h)
<1>1. ZeroFree(name) <=> Len(name) = Ev!StrLen(name)
  BY ZeroFreeIs, Zenon
<1>2. CASE ~ZeroFree(name)
  <2>1. Ev!CheckName(h, name) = "MalformedCertificate"
    BY ONLY <1>1, <1>2, Zenon DEF Ev!CheckName
  <2> QED  BY ONLY <1>2, <2>1, Zenon
<1>3. CASE ZeroFree(name)
  <2>1. Ev!Curl_cert_hostcheck(name, h) <=> h # <<>> /\ Ev!NamesHost(name, h)
    BY ONLY <1>3, ZeroFreeIs, HostCheckIs, h \in Seq(Code), name \in Seq(0..255), Zenon
  <2>2. Ev!CheckName(h, name) = IF Ev!Curl_cert_hostcheck(name, h) THEN "MatchFound" ELSE "MatchNotFound"
    BY ONLY <1>1, <1>3, Zenon DEF Ev!CheckName
  <2> QED  BY ONLY <1>3, <2>1, <2>2, Zenon
<1> QED  BY ONLY <1>2, <1>3, Zenon

(* Alternative names of a certificate. *)
DnsNames == [dns : BOOLEAN, name : Seq(0..255)]

(* A name of the list that comes before any malformed one names the host. *)
Names(names, h) ==
  \E i \in DOMAIN names :
    /\ names[i].dns /\ h # <<>> /\ Ev!NamesHost(names[i].name, h)
    /\ \A j \in 1..i : names[j].dns => ZeroFree(names[j].name)

(* The loop over the alternative names looks for such a name. *)
LEMMA AlternativeNames ==
  ASSUME NEW h \in Seq(Code), NEW san \in Seq(DnsNames)
  PROVE  Ev!matches_subject_alternative_name(h, san) = "MatchFound" <=> Names(san, h)
<1>0. Len(san) \in Nat /\ DOMAIN san = 1..Len(san) /\ \A i \in 1..Len(san) : san[i] \in DnsNames
  OBVIOUS
<1>1. \A i \in 1..Len(san) : san[i].name \in Seq(0..255)
  BY ONLY <1>0 DEF DnsNames
<1> DEFINE Check(i) == Ev!CheckName(h, san[i].name)
           D == {i \in DOMAIN san : san[i].dns /\ Check(i) # "MatchNotFound"}
           m == Ev!Min(D)
<1>2. Ev!matches_subject_alternative_name(h, san) = IF D = {} THEN "MatchNotFound" ELSE Check(m)
  BY ONLY Zenon DEF Ev!matches_subject_alternative_name
<1>3. \A i \in 1..Len(san) :
        /\ Check(i) \in {"MalformedCertificate", "MatchFound", "MatchNotFound"}
        /\ Check(i) = "MalformedCertificate" <=> ~ZeroFree(san[i].name)
        /\ Check(i) = "MatchFound" <=> ZeroFree(san[i].name) /\ h # <<>> /\ Ev!NamesHost(san[i].name, h)
  BY ONLY <1>1, CheckNameIs, h \in Seq(Code), Zenon
<1>4. D \subseteq Nat
  BY ONLY <1>0
<1>5. \A i : i \in D <=> i \in 1..Len(san) /\ san[i].dns /\ Check(i) # "MatchNotFound"
  BY ONLY <1>0, Zenon
<1>6. D # {} => m \in D /\ \A y \in D : m <= y
  <2> HIDE DEF D
  <2> QED  BY ONLY <1>4, MinIs, Zenon
<1> HIDE DEF Check, D, m
<1>7. ASSUME D # {}, Check(m) = "MatchFound" PROVE Names(san, h)
  <2>1. m \in 1..Len(san) /\ san[m].dns
    BY ONLY <1>5, <1>6, <1>7, Zenon
  <2>2. ZeroFree(san[m].name) /\ h # <<>> /\ Ev!NamesHost(san[m].name, h)
    BY ONLY <1>3, <1>7, <2>1, Zenon
  <2>3. ASSUME NEW j \in 1..m, san[j].dns PROVE ZeroFree(san[j].name)
    <3>1. CASE j = m
      BY ONLY <2>2, <3>1, Zenon
    <3>2. CASE j # m
      <4>1. j \in 1..Len(san) /\ ~(m <= j)
        BY ONLY <1>0, <2>1, <2>3, <3>2
      <4>2. Check(j) = "MatchNotFound"
        BY ONLY <1>5, <1>6, <1>7, <2>3, <4>1, Zenon
      <4> QED  BY ONLY <1>3, <4>1, <4>2, Zenon
    <3> QED  BY ONLY <3>1, <3>2, Zenon
  <2> QED  BY ONLY <1>0, <2>1, <2>2, <2>3, Zenon DEF Names
<1>8. ASSUME Names(san, h) PROVE D # {} /\ Check(m) = "MatchFound"
  <2>1. PICK i \in 1..Len(san) : /\ san[i].dns /\ h # <<>> /\ Ev!NamesHost(san[i].name, h)
                                 /\ \A j \in 1..i : san[j].dns => ZeroFree(san[j].name)
    BY ONLY <1>0, <1>8, Zenon DEF Names
  <2>2. i \in 1..i
    BY ONLY <1>0, <2>1
  <2>3. i \in D
    BY ONLY <1>3, <1>5, <2>1, <2>2, Zenon
  <2>4. m \in D /\ m <= i
    BY ONLY <1>6, <2>3, Zenon
  <2>5. m \in 1..Len(san) /\ san[m].dns /\ Check(m) # "MatchNotFound"
    BY ONLY <1>5, <2>4, Zenon
  <2>6. m \in 1..i
    BY ONLY <1>0, <2>1, <2>4, <2>5
  <2>7. ZeroFree(san[m].name)
    BY ONLY <2>1, <2>5, <2>6, Zenon
  <2> QED  BY ONLY <1>3, <2>3, <2>5, <2>7, Zenon
<1> QED  BY ONLY <1>2, <1>7, <1>8, Zenon

(* Certificates with any names. *)
Certificates == [san : Seq(Seq(DnsNames)), cn : Seq(Seq(0..255))]

(* ValidateHostname looks for such a name among those that count. *)
LEMMA HostnameDecided ==
  ASSUME NEW h \in Seq(1..255), NEW cert \in Certificates
  PROVE  Ev!ValidateHostname(h, cert) = "MatchFound" <=> Names(Ev!NamesOf(cert), h)
<1>0. h \in Seq(Code) /\ cert.san \in Seq(Seq(DnsNames)) /\ cert.cn \in Seq(Seq(0..255))
  BY DEF Code, Certificates
<1> DEFINE names == Ev!NamesOf(cert)
<1>1. names = IF cert.san # <<>> THEN cert.san[1]
              ELSE IF cert.cn # <<>> THEN << [dns |-> TRUE, name |-> cert.cn[1]] >> ELSE <<>>
  BY ONLY Zenon DEF Ev!NamesOf
<1> HIDE DEF names
<1>2. (Ev!ValidateHostname(h, cert) = "MatchFound" <=> Names(names, h))
        => (Ev!ValidateHostname(h, cert) = "MatchFound" <=> Names(Ev!NamesOf(cert), h))
  BY ONLY Zenon DEF names
<1>3. CASE cert.san # <<>>
  <2>1. cert.san[1] \in Seq(DnsNames)
    BY ONLY <1>0, <1>3
  <2>2. names = cert.san[1]
    BY ONLY <1>1, <1>3
  <2>3. Ev!ValidateHostname(h, cert) = Ev!matches_subject_alternative_name(h, cert.san[1])
    BY ONLY <1>3, Zenon DEF Ev!ValidateHostname
  <2> QED  BY ONLY <1>0, <1>2, <2>1, <2>2, <2>3, AlternativeNames, Zenon
<1>4. CASE cert.san = <<>> /\ cert.cn # <<>>
  <2>1. cert.cn[1] \in Seq(0..255)
    BY ONLY <1>0, <1>4
  <2>2. PICK name : name = cert.cn[1]
    BY Zenon
  <2>3. names = << [dns |-> TRUE, name |-> name] >>
    BY ONLY <1>1, <1>4, <2>2, Zenon
  <2>4. Ev!ValidateHostname(h, cert) = Ev!CheckName(h, name)
    BY ONLY <1>4, <2>2, Zenon DEF Ev!ValidateHostname, Ev!matches_common_name
  <2>5. Names(names, h) <=> ZeroFree(name) /\ h # <<>> /\ Ev!NamesHost(name, h)
    <3>1. DOMAIN names = {1} /\ 1..1 = {1} /\ names[1].dns = TRUE /\ names[1].name = name
      BY ONLY <2>3
    <3> QED  BY ONLY <3>1, Zenon DEF Names
  <2>6. name \in Seq(0..255)
    BY ONLY <2>1, <2>2
  <2>7. Ev!CheckName(h, name) = "MatchFound" <=> ZeroFree(name) /\ h # <<>> /\ Ev!NamesHost(name, h)
    BY ONLY <1>0, <2>6, CheckNameIs, Zenon
  <2> QED  BY ONLY <1>2, <2>4, <2>5, <2>7, Zenon
<1>5. CASE cert.san = <<>> /\ cert.cn = <<>>
  <2>1. Ev!ValidateHostname(h, cert) = "Error"
    BY ONLY <1>5, Zenon DEF Ev!ValidateHostname, Ev!matches_common_name
  <2>2. names = <<>>
    BY ONLY <1>1, <1>5
  <2>3. DOMAIN names = {}
    BY ONLY <2>2
  <2>4. ~Names(names, h)
    BY ONLY <2>3, Zenon DEF Names
  <2> QED  BY ONLY <1>2, <2>1, <2>4, Zenon
<1> QED  BY ONLY <1>3, <1>4, <1>5, Zenon

(* ValidateHostname, with hostmatch and the comparisons under it, finds a match *)
(* only if a well-formed name of the certificate names the host by the rules of *)
(* RFC 6125, and finds it if no other name is malformed: for host names, name   *)
(* lists and names of any length.                                               *)
THEOREM HostnameChecked ==
  ASSUME NEW h \in Seq(1..255), NEW cert \in Certificates
  PROVE  /\ Ev!ValidateHostname(h, cert) = "MatchFound" => Ev!CertNamesHost(cert, h)
         /\ Ev!CertNamesHost(cert, h) /\ Ev!WellFormed(cert)
              => Ev!ValidateHostname(h, cert) = "MatchFound"
<1> DEFINE names == Ev!NamesOf(cert)
<1>0. Len(names) \in Nat /\ DOMAIN names = 1..Len(names)
  <2>1. cert.san \in Seq(Seq(DnsNames)) /\ cert.cn \in Seq(Seq(0..255))
    BY DEF Certificates
  <2>2. CASE cert.san # <<>>
    <3>1. cert.san[1] \in Seq(DnsNames)
      BY ONLY <2>1, <2>2
    <3>2. names = cert.san[1]
      BY ONLY <2>2, Zenon DEF Ev!NamesOf
    <3> HIDE DEF names
    <3> QED  BY ONLY <3>1, <3>2
  <2>3. CASE cert.san = <<>>
    <3>1. PICK x : x = [dns |-> TRUE, name |-> cert.cn[1]]
      BY Zenon
    <3>2. names = <<x>> \/ names = <<>>
      BY ONLY <2>3, <3>1, Zenon DEF Ev!NamesOf
    <3> HIDE DEF names
    <3> QED  BY ONLY <3>2
  <2> QED  BY ONLY <2>2, <2>3, Zenon
<1>1. Ev!ValidateHostname(h, cert) = "MatchFound" <=> Names(names, h)
  BY HostnameDecided
<1>2. \A name : Ev!NoZero(name) <=> ZeroFree(name)
  BY ONLY Zenon DEF Ev!NoZero, ZeroFree
<1>3. Ev!CertNamesHost(cert, h) <=>
        \E i \in DOMAIN names : /\ names[i].dns /\ ZeroFree(names[i].name)
                                /\ h # <<>> /\ Ev!NamesHost(names[i].name, h)
  BY ONLY <1>2, Zenon DEF Ev!CertNamesHost
<1>4. Ev!WellFormed(cert) <=> \A i \in DOMAIN names : names[i].dns => ZeroFree(names[i].name)
  BY ONLY <1>2, Zenon DEF Ev!WellFormed
<1> HIDE DEF names
<1>5. ASSUME NEW i \in DOMAIN names PROVE i \in 1..i /\ 1..i \subseteq DOMAIN names
  BY ONLY <1>0, <1>5
<1>6. Names(names, h) => Ev!CertNamesHost(cert, h)
  BY ONLY <1>3, <1>5, Zenon DEF Names
<1>7. Ev!CertNamesHost(cert, h) /\ Ev!WellFormed(cert) => Names(names, h)
  BY ONLY <1>3, <1>4, <1>5, Zenon DEF Names
<1> QED  BY ONLY <1>1, <1>6, <1>7, Zenon

-----------------------------------------------------------------------------
(* Host names of urls. *)
Host == Seq(1..255)

(* The verdict on a peer is one the reference allows. *)
PeerChecked(p) ==
  p # Ev!NoPeer =>
    LET named == p.chainOk /\ Ev!CertNamesHost(p.cert, p.host)
    IN  /\ p.verdict = "accepted" => named
        /\ named /\ Ev!WellFormed(p.cert) => p.verdict = "accepted"

(* Good responses over TLS came from a peer that was accepted. *)
PeerAccepted == \A i \in DOMAIN evResponses : evResponses[i].ok /\ evResponses[i].https => peer.verdict = "accepted"

(* The inductive invariant.  A request is on a TLS connection only after its       *)
(* handshake was accepted; the response frees evReq_, the connection is then done, *)
(* and so no later handshake can change peer.                                      *)
IdentityInv ==
  /\ url_.host \in Host
  /\ PeerChecked(peer)
  /\ evConn_ = "requested" /\ url_.https => peer.verdict = "accepted"
  /\ evReq_ \in {"null", "new"} => evConn_ = "none"
  /\ evReq_ = "freed" => evConn_ = "done"
  /\ evResponses # <<>> => evReq_ = "freed"
  /\ PeerAccepted

(* A failed attempt, retried or given up, keeps it. *)
LEMMA FailsKeeps ==
  ASSUME IdentityInv, Ev!AttemptFails, evConn_ \in {"connecting", "handshake"}, PeerChecked(peer')
  PROVE  IdentityInv'
<1>0. evReq_ \notin {"null", "new", "freed"} /\ evResponses = <<>>
  BY DEF IdentityInv
<1>1. CASE retriesLeft # 0
  <2>1. /\ evConn_' = "connecting"
        /\ UNCHANGED <<evLoop, evReq_, url_, retries_, responseHandler_, evResponses>>
    BY <1>1 DEF Ev!AttemptFails
  <2>2. PeerAccepted'
    BY <1>0, <2>1 DEF PeerAccepted
  <2> QED  BY <1>0, <2>1, <2>2 DEF IdentityInv
<1>2. CASE retriesLeft = 0
  <2>1. /\ evReq_' = "freed" /\ evConn_' = "done" /\ UNCHANGED url_
        /\ evResponses' = evResponses \/ evResponses' = Append(evResponses, [ok |-> FALSE, https |-> url_.https])
    BY <1>2 DEF Ev!AttemptFails, Ev!HandleResponseFailed, Ev!OnResponse, Ev!Settled
  <2>2. evResponses' = <<>> \/ evResponses' = <<[ok |-> FALSE, https |-> url_.https]>>
    BY <1>0, <2>1
  <2>3. PeerAccepted'
    BY <2>2 DEF PeerAccepted
  <2> QED  BY <2>1, <2>3 DEF IdentityInv
<1> QED  BY <1>1, <1>2

(* Every step of the libevent client keeps it. *)
LEMMA IdentityInductive == ASSUME IdentityInv, [Ev!EvNext]_evVars PROVE IdentityInv'
<1> USE DEF IdentityInv
<1>1. CASE UNCHANGED evVars
  BY <1>1 DEF evVars, PeerAccepted
<1>2. CASE Ev!EvDoInit
  BY <1>2 DEF Ev!EvDoInit, PeerAccepted
<1>3. ASSUME NEW https1 \in BOOLEAN, NEW host \in Hosts, Ev!SetUrl(https1, host) PROVE IdentityInv'
  <2>1. host \in Host
    BY HttpClientAssumption DEF Host
  <2>2. /\ evReq_ = "new" /\ url_'.host = host
        /\ UNCHANGED <<evLoop, evReq_, evConn_, retriesLeft, peer, evResponses>>
    BY <1>3 DEF Ev!SetUrl, Ev!Configure
  <2> QED  BY <2>1, <2>2 DEF PeerAccepted
<1>4. ASSUME NEW n \in 0..MaxRetries, Ev!SetRetries(n) PROVE IdentityInv'
  BY <1>4 DEF Ev!SetRetries, Ev!Configure, PeerAccepted
<1>5. CASE Ev!SetHandler
  BY <1>5 DEF Ev!SetHandler, Ev!Configure, PeerAccepted
<1>6. CASE Ev!SetHeader
  BY <1>6 DEF Ev!SetHeader, PeerAccepted
<1>7. CASE Ev!EvDoRequest
  <2>1. CASE evLoop' = "dispatch"
    <3>1. evReq_ # "freed" /\ evConn_' = "connecting" /\ evReq_' = "queued" /\ UNCHANGED <<url_, peer, evResponses>>
      BY <1>7, <2>1 DEF Ev!EvDoRequest, Ev!InitEventConnect
    <3> QED  BY <3>1 DEF PeerAccepted
  <2>2. CASE evLoop' # "dispatch"
    BY <1>7, <2>2 DEF Ev!EvDoRequest, PeerAccepted
  <2> QED  BY <2>1, <2>2
<1>8. CASE Ev!ConnectFails
  <2>1. Ev!AttemptFails /\ evConn_ \in {"connecting", "handshake"} /\ PeerChecked(peer')
    BY <1>8 DEF Ev!ConnectFails
  <2> QED  BY ONLY IdentityInv, <2>1, FailsKeeps, Zenon
<1>9. CASE Ev!Connected
  <2>1. /\ evConn_ = "connecting" /\ evConn_' = IF url_.https THEN "handshake" ELSE "requested"
        /\ peer' = Ev!NoPeer /\ UNCHANGED <<evReq_, url_, evResponses>>
    BY <1>9 DEF Ev!Connected
  <2>2. evResponses = <<>>
    BY <2>1
  <2>3. PeerAccepted'
    BY <2>1, <2>2 DEF PeerAccepted
  <2>4. PeerChecked(peer')
    BY <2>1 DEF PeerChecked
  <2> QED  BY <2>1, <2>2, <2>3, <2>4
<1>10. ASSUME NEW chainOk \in BOOLEAN, NEW cert \in Certs, Ev!Handshake(chainOk, cert) PROVE IdentityInv'
  <2> DEFINE accepted == Ev!VerifyCertCallback(chainOk, url_.host, cert)
  <2>1. cert \in Certificates
    BY HttpClientAssumption DEF Certificates, DnsNames
  <2>2. /\ accepted => chainOk /\ Ev!CertNamesHost(cert, url_.host)
        /\ chainOk /\ Ev!CertNamesHost(cert, url_.host) /\ Ev!WellFormed(cert) => accepted
    BY <2>1, HostnameChecked DEF Ev!VerifyCertCallback, Host
  <2>3. /\ evConn_ = "handshake"
        /\ peer' = [verdict |-> IF accepted THEN "accepted" ELSE "refused",
                    host |-> url_.host, chainOk |-> chainOk, cert |-> cert]
        /\ IF accepted
           THEN evConn_' = "requested" /\ UNCHANGED <<evReq_, url_, evResponses>>
           ELSE Ev!AttemptFails
    BY <1>10 DEF Ev!Handshake
  <2> HIDE DEF accepted
  <2>4. PeerChecked(peer')
    BY <2>2, <2>3 DEF PeerChecked
  <2>5. CASE accepted
    <3>1. evResponses = <<>> /\ evReq_ \notin {"null", "new", "freed"}
      BY <2>3
    <3>2. PeerAccepted'
      BY <2>3, <2>5, <3>1 DEF PeerAccepted
    <3>3. peer'.verdict = "accepted"
      BY <2>3, <2>5
    <3> QED  BY <2>3, <2>4, <2>5, <3>1, <3>2, <3>3
  <2>6. CASE ~accepted
    <3>1. Ev!AttemptFails /\ evConn_ \in {"connecting", "handshake"}
      BY <2>3, <2>6
    <3> QED  BY ONLY IdentityInv, <2>4, <3>1, FailsKeeps, Zenon
  <2> QED  BY <2>5, <2>6
<1>11. CASE Ev!HandshakeFails
  <2>1. Ev!AttemptFails /\ evConn_ \in {"connecting", "handshake"} /\ PeerChecked(peer')
    BY <1>11 DEF Ev!HandshakeFails
  <2> QED  BY ONLY IdentityInv, <2>1, FailsKeeps, Zenon
<1>12. CASE Ev!HandleResponse
  <2>1. /\ evConn_ = "requested" /\ evReq_' = "freed" /\ evConn_' = "done" /\ UNCHANGED <<url_, peer>>
        /\ evResponses' = evResponses \/ evResponses' = Append(evResponses, [ok |-> TRUE, https |-> url_.https])
    BY <1>12 DEF Ev!HandleResponse, Ev!OnResponse, Ev!Settled
  <2>2. evResponses = <<>> /\ (url_.https => peer.verdict = "accepted")
    BY <2>1
  <2>3. evResponses' = <<>> \/ evResponses' = <<[ok |-> TRUE, https |-> url_.https]>>
    BY <2>1, <2>2
  <2>4. PeerAccepted'
    BY <2>1, <2>2, <2>3 DEF PeerAccepted
  <2> QED  BY <2>1, <2>4
<1>13. CASE Ev!OnError
  BY <1>13 DEF Ev!OnError, Ev!Settled, PeerAccepted
<1>14. CASE Ev!DispatchReturns
  BY <1>14 DEF Ev!DispatchReturns, PeerAccepted
<1> QED
  BY <1>1, <1>2, <1>3, <1>4, <1>5, <1>6, <1>7, <1>8, <1>9, <1>10, <1>11, <1>12, <1>13, <1>14 DEF Ev!EvNext

(* Whatever hosts, certificates and failed attempts: VerifyCertCallback accepts *)
(* only certificates that name the url's host, all of them that have no         *)
(* malformed name, and a response that came over TLS was sent by a peer it      *)
(* accepted.                                                                    *)
THEOREM IdentityProved == ClientSpec => []IdentityChecked
<1>1. ClientInit => IdentityInv
  <2> SUFFICES ASSUME ClientInit PROVE IdentityInv
    OBVIOUS
  <2>1. url_ = Ev!NoUrl /\ peer = Ev!NoPeer /\ evResponses = <<>> /\ evReq_ = "null" /\ evConn_ = "none"
    BY DEF ClientInit, Ev!EvInit
  <2>2. <<>> \in Host
    BY DEF Host
  <2> QED  BY <2>1, <2>2 DEF IdentityInv, PeerChecked, PeerAccepted, Ev!NoUrl
<1>2. IdentityInv /\ [ClientNext]_<<impl_, vars, evVars, beastVars>> => IdentityInv'
  BY IdentityInductive, ClientSimulatesEv
<1>3. IdentityInv => IdentityChecked
  BY DEF IdentityInv, PeerChecked, PeerAccepted, IdentityChecked, Ev!IdentityChecked
<1> QED  BY <1>1, <1>2, <1>3, PTL DEF ClientSpec
=============================================================================
