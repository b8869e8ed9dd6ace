------------------------------ MODULE HostCheck ------------------------------
(***************************************************************************)
(* Whether a certificate names the host that was asked for:                *)
(* net/http_cli/implement/ev/host_check.cpp compares one name with the     *)
(* host, openssl_hostname_validation.cpp goes through the names of the     *)
(* certificate.  A name is a sequence of character codes; as the code      *)
(* reads it, it ends at the first 0 or at its end.  A certificate has a    *)
(* sequence of at most one sequence of alternative names, and of at most   *)
(* one common name.                                                        *)
(***************************************************************************)
EXTENDS Integers, Sequences, FiniteSetsExt

Dot == 46
Star == 42
Punycode == <<120, 110, 45, 45>>        \* "xn--"

CharAt(s, i) == IF i \in DOMAIN s THEN s[i] ELSE 0
From(s, i) == SubSeq(s, i, Len(s))

(* The position of the first c of s at i or after it; 0 is NULL. *)
StrChr(s, c, i) ==
  LET at == {j \in i..Len(s) : s[j] = c} IN IF at = {} THEN 0 ELSE Min(at)
StrLen(s) == IF StrChr(s, 0, 1) = 0 THEN Len(s) ELSE StrChr(s, 0, 1) - 1

Curl_raw_toupper(c) == IF c \in 97..122 THEN c - 32 ELSE c

SameAt(s, t, i) == Curl_raw_toupper(CharAt(s, i)) = Curl_raw_toupper(CharAt(t, i))

(* Where the loops of the next two stop: at the end of a string, or at a     *)
(* difference.                                                               *)
Stop(s, t) == Min({i \in 1..(Len(s) + 1) : CharAt(s, i) = 0 \/ CharAt(t, i) = 0 \/ ~SameAt(s, t, i)})

Curl_raw_equal(first, second) == SameAt(first, second, Stop(first, second))

Curl_raw_nequal(first, second, max) ==
  Stop(first, second) > max \/ SameAt(first, second, Stop(first, second))

hostmatchAcrossDots(hostname, pattern) ==
  LET wildcard == StrChr(pattern, Star, 1)
  IN  IF wildcard = 0 THEN Curl_raw_equal(pattern, hostname)
      ELSE /\ Curl_raw_nequal(pattern, hostname, wildcard - 1)
           /\ Len(hostname) >= Len(pattern)
           /\ Curl_raw_equal(From(pattern, wildcard + 1),
                             From(hostname, Len(hostname) - Len(pattern) + wildcard + 1))

hostmatch(hostname, pattern) ==
  LET wildcard   == StrChr(pattern, Star, 1)
      patternEnd == StrChr(pattern, Dot, 1)
      hostEnd    == StrChr(hostname, Dot, 1)
      suffixlen  == patternEnd - (wildcard + 1)
      wildcard_enabled ==
        /\ wildcard # 0 /\ patternEnd # 0 /\ StrChr(pattern, Dot, patternEnd + 1) # 0
        /\ wildcard < patternEnd
        /\ ~Curl_raw_nequal(pattern, Punycode, 4)
  IN  IF ~wildcard_enabled THEN Curl_raw_equal(pattern, hostname)
      ELSE /\ hostEnd # 0 /\ Curl_raw_equal(From(pattern, patternEnd), From(hostname, hostEnd))
           /\ hostEnd >= patternEnd
           /\ Curl_raw_nequal(pattern, hostname, wildcard - 1)
           /\ Curl_raw_nequal(From(pattern, wildcard + 1), From(hostname, hostEnd - suffixlen),
                              suffixlen)

Curl_cert_hostcheck(match_pattern, hostname) ==
  /\ CharAt(match_pattern, 1) # 0 /\ CharAt(hostname, 1) # 0
  /\ Curl_raw_equal(hostname, match_pattern) \/ hostmatch(hostname, match_pattern)

(* A DNS name or the common name: a 0 inside it makes it malformed. *)
CheckName(hostname, name) ==
  IF Len(name) # StrLen(name) THEN "MalformedCertificate"
  ELSE IF Curl_cert_hostcheck(name, hostname) THEN "MatchFound" ELSE "MatchNotFound"

(* The first name that matches or is malformed decides.  Names that are not   *)
(* DNS names are passed over.                                                 *)
matches_subject_alternative_name(hostname, san) ==
  LET deciding == {i \in DOMAIN san : san[i].dns /\ CheckName(hostname, san[i].name) # "MatchNotFound"}
  IN  IF deciding = {} THEN "MatchNotFound" ELSE CheckName(hostname, san[Min(deciding)].name)

matches_common_name(hostname, cn) == IF cn = <<>> THEN "Error" ELSE CheckName(hostname, cn[1])

ValidateHostname(hostname, cert) ==
  IF cert.san = <<>> THEN matches_common_name(hostname, cert.cn)
  ELSE matches_subject_alternative_name(hostname, cert.san[1])

-----------------------------------------------------------------------------
(* The reference: RFC 6125, 6.4.3, which hostmatch says it follows.  A name   *)
(* without a wildcard matches itself, up to case.  A wildcard in the leftmost *)
(* of at least three labels stands for one or more characters of that label,  *)
(* unless the label is internationalised.                                     *)
Upper(s) == [i \in DOMAIN s |-> Curl_raw_toupper(s[i])]

Dots(s) == {i \in DOMAIN s : s[i] = Dot}

Wild(pattern, i) ==
  /\ pattern[i] = Star /\ Star \notin {pattern[j] : j \in 1..(i - 1)}
  /\ \E d, e \in Dots(pattern) : d < e /\ \A f \in Dots(pattern) : i < f
  /\ ~(Len(pattern) >= 4 /\ SubSeq(Upper(pattern), 1, 4) = Upper(Punycode))

NamesHost(pattern, hostname) ==
  \/ Upper(pattern) = Upper(hostname)
  \/ \E i \in DOMAIN pattern, n \in 1..Len(hostname) :
       /\ Wild(pattern, i)
       /\ n + Len(pattern) - 1 = Len(hostname)
       /\ LET filling == SubSeq(hostname, i, i + n - 1)
          IN  /\ Dots(filling) = {}
              /\ Upper(SubSeq(pattern, 1, i - 1) \o filling \o From(pattern, i + 1)) = Upper(hostname)

(* The names of a certificate that count: alternative names, when there are   *)
(* any, hide the common name.  One with a 0 inside is malformed.              *)
NamesOf(cert) ==
  IF cert.san # <<>> THEN cert.san[1]
  ELSE IF cert.cn # <<>> THEN << [dns |-> TRUE, name |-> cert.cn[1]] >> ELSE <<>>

NoZero(name) == 0 \notin {name[p] : p \in DOMAIN name}

WellFormed(cert) == \A i \in DOMAIN NamesOf(cert) : NamesOf(cert)[i].dns => NoZero(NamesOf(cert)[i].name)

(* Some name that is not malformed names the host. *)
CertNamesHost(cert, hostname) ==
  \E i \in DOMAIN NamesOf(cert) :
    /\ NamesOf(cert)[i].dns /\ NoZero(NamesOf(cert)[i].name)
    /\ hostname # <<>> /\ NamesHost(NamesOf(cert)[i].name, hostname)
=============================================================================
