------------------------------- MODULE WsCodec -------------------------------
(***************************************************************************)
(* The pure functions of net/ws_cli on bytes: frame headers, UTF-8         *)
(* validation and Base64.  A buffer is a sequence of bytes 0..255.         *)
(* mask is the four bytes of WSHeader::mask as they lie in memory.         *)
(***************************************************************************)
EXTENDS Integers, Sequences

-----------------------------------------------------------------------------
(* Headers.  payloadLen is a field of 7 bits, wherever it is assigned. *)

PayloadLen(n) == n % 128

PackHeaderFirstByte(h) == 128 * h.fin + 64 * h.rsv1 + 32 * h.rsv2 + 16 * h.rsv3 + (h.opcode % 16)

(* Big endian, of a value below 2^31. *)
EncodeH2N64(n) == <<0, 0, 0, 0, n \div 2^24, (n \div 2^16) % 256, (n \div 2^8) % 256, n % 256>>

PackHeaderRestHostOrder(h) ==
  (IF h.payloadLen <= 125 THEN <<128 * h.maskBit + h.payloadLen>>
   ELSE <<128 * h.maskBit + 126, h.payloadLen % 256, h.payloadLen \div 256>>)
    \o (IF h.maskBit = 1 THEN h.mask ELSE <<>>)

(* Needs a length that the field cannot hold. *)
LongLength(h) == <<128 * h.maskBit + 127>> \o EncodeH2N64(h.payloadLen)

LengthBytes(h) ==
  IF h.payloadLen <= 125 THEN <<128 * h.maskBit + h.payloadLen>>
  ELSE IF h.payloadLen <= 65535
       THEN <<128 * h.maskBit + 126, h.payloadLen \div 256, h.payloadLen % 256>>
       ELSE LongLength(h)

MaskBytes(h) == IF h.maskBit = 1 THEN h.mask ELSE <<>>

PackHeaderRest(h) == LengthBytes(h) \o MaskBytes(h)

PackHeader(h) == <<PackHeaderFirstByte(h)>> \o PackHeaderRest(h)

NEED_MORE == [parse |-> "NEED_MORE"]

(* How many bytes of length follow the second byte. *)
ExtraBytes(short) == CASE short = 126 -> 2 [] short = 127 -> 8 [] OTHER -> 0

(* What the receiver makes of the bytes b: the header, or NEED_MORE.  Of a    *)
(* length of 8 bytes, the lowest one decides what the field keeps.            *)
UnpackHeader(b) ==
  LET short == b[2] % 128
      extra == ExtraBytes(short)
  IN  IF Len(b) < 2 \/ Len(b) < 2 + extra THEN NEED_MORE
      ELSE [fin |-> b[1] \div 128, rsv1 |-> (b[1] \div 64) % 2, rsv2 |-> (b[1] \div 32) % 2,
            rsv3 |-> (b[1] \div 16) % 2, opcode |-> b[1] % 16, maskBit |-> b[2] \div 128,
            payloadLen |-> IF extra = 0 THEN short ELSE PayloadLen(b[2 + extra]),
            mask |-> IF b[2] >= 128 THEN SubSeq(b, 3 + extra, 6 + extra) ELSE <<0, 0, 0, 0>>]

-----------------------------------------------------------------------------
(* UTF-8: the automaton of utf8d. *)

WS_UTF8_ACCEPT == 0
WS_UTF8_REJECT == 1

ByteType(c) ==
  CASE c <= 127                   -> 0
    [] c \in 128..143             -> 1
    [] c \in 144..159             -> 9
    [] c \in 160..191             -> 7
    [] c \in 194..223             -> 2
    [] c = 224                    -> 10
    [] c = 237                    -> 4
    [] c \in (225..239) \ {237}   -> 3
    [] c = 240                    -> 11
    [] c \in 241..243             -> 6
    [] c = 244                    -> 5
    [] c \in {192, 193} \cup (245..255) -> 8

(* The row s0 of the table, and for s2 to s8 the types that do not lead to    *)
(* REJECT, and where they lead.                                               *)
FirstByte == <<0, 1, 2, 3, 5, 8, 7, 1, 1, 1, 4, 6>>
LaterTypes == <<{}, {1, 7, 9}, {1, 7, 9}, {7}, {1, 9}, {7, 9}, {1, 7, 9}, {1}>>
LaterState == <<1, 0, 2, 2, 2, 3, 3, 3>>

utf8dSurrogates(state, type) ==
  IF state = WS_UTF8_ACCEPT THEN FirstByte[type + 1]
  ELSE IF type \in LaterTypes[state] \cup {1, 7, 9} THEN LaterState[state] ELSE WS_UTF8_REJECT

utf8d(state, type) ==
  IF state = WS_UTF8_ACCEPT THEN FirstByte[type + 1]
  ELSE IF type \in LaterTypes[state] THEN LaterState[state] ELSE WS_UTF8_REJECT

(* The state after each byte of str.  The loop stops at REJECT, which no      *)
(* byte leaves.                                                               *)
Utf8States(state, str) ==
  LET after[n \in 0..Len(str)] == IF n = 0 THEN state ELSE utf8d(after[n-1], ByteType(str[n]))
  IN  after

ValidateUtf8(state, str) == Utf8States(state, str)[Len(str)]

-----------------------------------------------------------------------------
(* Base64. *)

base64_chars ==
  [i \in 0..63 |-> CASE i < 26 -> 65 + i [] i \in 26..51 -> 71 + i [] i \in 52..61 -> i - 4
                     [] i = 62 -> 43     [] i = 63 -> 47]
Equals == 61

(* npos, cut to uint8_t, when there is no such character. *)
Find(c) == IF \E i \in 0..63 : base64_chars[i] = c THEN CHOOSE i \in 0..63 : base64_chars[i] = c ELSE 255

PadNone(len) == 0

Pad(len) == LET modulus == len % 3 IN 2 * (modulus % 2) + (modulus \div 2)

(* The characters that stand for the three bytes of s from i on. *)
EncodeTriple(s, i) ==
  << base64_chars[s[i] \div 4], base64_chars[16 * (s[i] % 4) + (s[i+1] \div 16)],
     base64_chars[4 * (s[i+1] % 16) + (s[i+2] \div 64)], base64_chars[s[i+2] % 64] >>

(* What is left of s from i on. *)
EncodeRest(s, i, pad) ==
  CASE pad = 2 -> << base64_chars[s[i] \div 4], base64_chars[(s[i] % 4) * 16], Equals, Equals >>
    [] pad = 1 -> << base64_chars[s[i] \div 4], base64_chars[16 * (s[i] % 4) + (s[i+1] \div 16)],
                     base64_chars[(s[i+1] % 16) * 4], Equals >>
    [] OTHER   -> <<>>

EncodeBase64(s) ==
  LET full == Len(s) \div 3
  IN  [k \in 1..(4 * full) |-> EncodeTriple(s, 3 * ((k-1) \div 4) + 1)[((k-1) % 4) + 1]]
        \o EncodeRest(s, 3 * full + 1, Pad(Len(s)))

(* Of the four characters of str from j on, three bytes.  A byte that         *)
(* base64_chars.find yields has 6 bits, so that | is +.                       *)
DecodeFirst(str, j)  == (Find(str[j]) * 4 + (Find(str[j+1]) \div 16)) % 256
DecodeSecond(str, j) == (Find(str[j+1]) * 16 + (Find(str[j+2]) \div 4)) % 256
DecodeThird(str, j)  == (Find(str[j+2]) * 64 + Find(str[j+3])) % 256

DecodeGroup(str, j) == <<DecodeFirst(str, j), DecodeSecond(str, j), DecodeThird(str, j)>>

DecodeRest(str, j, pad) ==
  CASE pad = 1 -> <<DecodeFirst(str, j), DecodeSecond(str, j)>>
    [] pad = 2 -> <<DecodeFirst(str, j)>>
    [] OTHER   -> <<>>

(* str is not empty: str[len - 1] is read. *)
DecodeBase64(str) ==
  LET len  == Len(str)
      pad  == (IF str[len] = Equals THEN 1 ELSE 0) + (IF len > 1 /\ str[len-1] = Equals THEN 1 ELSE 0)
      full == IF len >= 4 + pad THEN (len - pad) \div 4 ELSE 0
  IN  [k \in 1..(3 * full) |-> DecodeGroup(str, 4 * ((k-1) \div 3) + 1)[((k-1) % 3) + 1]]
        \o DecodeRest(str, 4 * full + 1, pad)
=============================================================================
