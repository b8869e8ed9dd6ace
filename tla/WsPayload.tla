------------------------------ MODULE WsPayload ------------------------------
(***************************************************************************)
(* The payload of a text frame without fin, as it arrives: ReadWebsocket   *)
(* hands every chunk of it to ValidateUtf8, which goes on from utf8State_. *)
(* (In a frame with fin, a chunk that ends inside a code point closes the  *)
(* session, too: see ReceivePayload in WsSession.)  The bytes received so  *)
(* far also serve as a buffer for Base64, as the handshake key and its     *)
(* hash do.                                                                *)
(***************************************************************************)
EXTENDS WsCodec

CONSTANTS Bytes,        \* byte values that arrive
          MaxChunk,     \* bound: length of a chunk
          MaxText       \* bound: length of the message

VARIABLES text,         \* the payload so far
          utf8State     \* utf8State_

textVars == <<text, utf8State>>

(* HandleFrameBegin, for the first frame of a message. *)
TextInit == text = <<>> /\ utf8State = WS_UTF8_ACCEPT

(* A chunk.  After REJECT the session closes; what it still reads leaves        *)
(* utf8State_ as it is.                                                         *)
ReceiveText(chunk) ==
  /\ utf8State # WS_UTF8_REJECT /\ Len(text) + Len(chunk) =< MaxText
  /\ text' = text \o chunk
  /\ utf8State' = ValidateUtf8(utf8State, chunk)

TextNext == \E n \in 1..MaxChunk : \E chunk \in [1..n -> Bytes] : ReceiveText(chunk)

TextSpec == TextInit /\ [][TextNext]_textVars

-----------------------------------------------------------------------------
(* RFC 3629: a character is a lead byte and as many continuation bytes as it  *)
(* says, and encodes a code point that needs that many bytes and is no        *)
(* surrogate.                                                                 *)
CharLen(c) == CASE c < 128           -> 1
                [] c \in 192..223     -> 2
                [] c \in 224..239     -> 3
                [] c \in 240..247     -> 4
                [] OTHER             -> 0

CodePoint(s) ==
  CASE Len(s) = 1 -> s[1]
    [] Len(s) = 2 -> 64 * (s[1] - 192) + (s[2] - 128)
    [] Len(s) = 3 -> 4096 * (s[1] - 224) + 64 * (s[2] - 128) + (s[3] - 128)
    [] Len(s) = 4 -> 262144 * (s[1] - 240) + 4096 * (s[2] - 128) + 64 * (s[3] - 128) + (s[4] - 128)

NeedsBytes(point, len) ==
  /\ len = 2 => point >= 128
  /\ len = 3 => point >= 2048 /\ point \notin 55296..57343
  /\ len = 4 => point >= 65536 /\ point =< 1114111

IsChar(s) ==
  /\ CharLen(s[1]) = Len(s)
  /\ \A i \in 2..Len(s) : s[i] \in 128..191
  /\ NeedsBytes(CodePoint(s), Len(s))

WellFormedUpTo(s) ==
  LET upTo[n \in 0..Len(s)] ==
        n = 0 \/ \E k \in 1..4 : k =< n /\ IsChar(SubSeq(s, n - k + 1, n)) /\ upTo[n - k]
  IN  upTo

WellFormed(s) == WellFormedUpTo(s)[Len(s)]

(* Every start of a character can be completed with bytes 80 and bf. *)
Completions == UNION {[1..n -> {128, 191}] : n \in 0..3}

(* However the payload is cut into chunks, ValidateUtf8 accepts exactly what   *)
(* RFC 3629 calls UTF-8, and rejects as soon as no continuation could make it   *)
(* so: a code point split between two chunks is neither.                        *)
Utf8Agrees ==
  /\ utf8State = WS_UTF8_ACCEPT <=> WellFormed(text)
  /\ utf8State = WS_UTF8_REJECT <=> \A rest \in Completions : ~WellFormed(text \o rest)

PowersOf2 == <<1, 2, 4, 8, 16, 32, 64, 128>>

Bits(s, width) ==
  [k \in 1..(Len(s) * width) |->
     (s[((k - 1) \div width) + 1] \div PowersOf2[width - ((k - 1) % width)]) % 2]

(* The code of s is padded to a multiple of 4 characters with '='; without    *)
(* them it spells the bits of s, with zeros added, in characters of 6 bits;   *)
(* and it decodes to s.                                                       *)
RoundTrips(s) ==
  LET code    == EncodeBase64(s)
      letters == SubSeq(code, 1, (8 * Len(s) + 5) \div 6)
      bits    == Bits([i \in DOMAIN letters |-> Find(letters[i])], 6)
  IN  /\ Len(code) = 4 * ((Len(s) + 2) \div 3)
      /\ DecodeBase64(code) = s
      /\ \A i \in DOMAIN code : code[i] = Equals <=> i > Len(letters)
      /\ SubSeq(bits, 1, 8 * Len(s)) = Bits(s, 8)
      /\ \A k \in (8 * Len(s) + 1)..Len(bits) : bits[k] = 0

(* EncodeBase64 and DecodeBase64 on what has arrived, for each length modulo   *)
(* 3.                                                                          *)
Base64RoundTrip == text # <<>> => RoundTrips(text)
=============================================================================
