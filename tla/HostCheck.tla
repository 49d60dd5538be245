----------------------------- MODULE HostCheck ------------------------------
(***************************************************************************)
(* Does a certificate name the host?  The matching of a name with the host *)
(* (amqp_hostcheck.c) and the choice of the names that count               *)
(* (amqp_openssl_hostname_validation.c).                                   *)
(*                                                                         *)
(* A host name is a sequence of characters.  A name in a certificate has a *)
(* text and says whether a NUL follows within its length.  The names of a  *)
(* certificate are those of its subject alternative names, if it has that  *)
(* extension, and its common name, if it has one.                          *)
(***************************************************************************)
EXTENDS Integers, SequencesExt

MATCH_FOUND == "AMQP_HVR_MATCH_FOUND"
MATCH_NOT_FOUND == "AMQP_HVR_MATCH_NOT_FOUND"
NO_SAN_PRESENT == "AMQP_HVR_NO_SAN_PRESENT"
MALFORMED_CERTIFICATE == "AMQP_HVR_MALFORMED_CERTIFICATE"
ERROR == "AMQP_HVR_ERROR"

Lower == <<"a", "b", "c", "d", "e", "f", "g", "h", "i", "j", "k", "l", "m",
           "n", "o", "p", "q", "r", "s", "t", "u", "v", "w", "x", "y", "z">>

Upper == <<"A", "B", "C", "D", "E", "F", "G", "H", "I", "J", "K", "L", "M",
           "N", "O", "P", "Q", "R", "S", "T", "U", "V", "W", "X", "Y", "Z">>

amqp_raw_toupper(c) ==
    IF \E i \in 1..26 : Lower[i] = c THEN Upper[CHOOSE i \in 1..26 : Lower[i] = c] ELSE c

SameCharacter(c, d) == amqp_raw_toupper(c) = amqp_raw_toupper(d)

amqp_raw_equal(first, second) ==
    /\ Len(first) = Len(second)
    /\ \A i \in DOMAIN first : SameCharacter(first[i], second[i])

\* the first max characters, or all of both when they are shorter
amqp_raw_nequal(first, second, max) ==
    LET Start(s) == SubSeq(s, 1, IF max < Len(s) THEN max ELSE Len(s))
    IN  amqp_raw_equal(Start(first), Start(second))

\* the position of the first c, 0 if there is none
strchr(s, c) ==
    LET at == {i \in DOMAIN s : s[i] = c} IN IF at = {} THEN 0 ELSE Min(at)

From(s, i) == SubSeq(s, i, Len(s))

\* a wildcard counts in the leftmost of two labels too
wildcard_enabledInTwo(pattern) ==
    LET label_end == strchr(pattern, ".")
    IN  /\ label_end # 0
        /\ strchr(pattern, "*") < label_end
        /\ ~ amqp_raw_nequal(pattern, <<"x", "n", "-", "-">>, 4)

\* a wildcard counts in the leftmost of three labels or more
wildcard_enabled(pattern) ==
    LET label_end == strchr(pattern, ".")
    IN  /\ label_end # 0
        /\ strchr(From(pattern, label_end + 1), ".") # 0
        /\ strchr(pattern, "*") < label_end
        /\ ~ amqp_raw_nequal(pattern, <<"x", "n", "-", "-">>, 4)

amqp_hostmatch(hostname, pattern) ==
    LET wildcard == strchr(pattern, "*")
        pattern_label_end == strchr(pattern, ".")
        hostname_label_end == strchr(hostname, ".")
        suffixlen == pattern_label_end - (wildcard + 1)
    IN  IF wildcard = 0 \/ ~ wildcard_enabled(pattern)
        THEN amqp_raw_equal(pattern, hostname)
        ELSE /\ hostname_label_end # 0
             /\ amqp_raw_equal(From(pattern, pattern_label_end),
                               From(hostname, hostname_label_end))
             /\ hostname_label_end >= pattern_label_end
             /\ amqp_raw_nequal(pattern, hostname, wildcard - 1)
             /\ amqp_raw_nequal(From(pattern, wildcard + 1),
                                From(hostname, hostname_label_end - suffixlen), suffixlen)

amqp_hostcheck(match_pattern, hostname) ==
    /\ match_pattern # <<>> /\ hostname # <<>>
    /\ amqp_raw_equal(hostname, match_pattern) \/ amqp_hostmatch(hostname, match_pattern)

-----------------------------------------------------------------------------
amqp_matches_common_name(hostname, cert) ==
    CASE ~ cert.has_cn -> ERROR
      [] cert.has_cn /\ cert.cn.nul -> MALFORMED_CERTIFICATE
      [] OTHER -> IF amqp_hostcheck(cert.cn.text, hostname) THEN MATCH_FOUND
                  ELSE MATCH_NOT_FOUND

\* the first DNS name that is malformed or matches decides
amqp_matches_subject_alternative_name(hostname, cert) ==
    LET Decides(n) == n.dns /\ (n.nul \/ amqp_hostcheck(n.text, hostname))
        at == {i \in DOMAIN cert.san : Decides(cert.san[i])}
    IN  CASE ~ cert.has_san -> NO_SAN_PRESENT
          [] cert.has_san /\ at = {} -> MATCH_NOT_FOUND
          [] OTHER -> IF cert.san[Min(at)].nul THEN MALFORMED_CERTIFICATE ELSE MATCH_FOUND

amqp_ssl_validate_hostname(hostname, cert) ==
    LET result == amqp_matches_subject_alternative_name(hostname, cert)
    IN  IF result = NO_SAN_PRESENT THEN amqp_matches_common_name(hostname, cert) ELSE result

-----------------------------------------------------------------------------
(***************************************************************************)
(* What RFC 6125, section 6.4.3, says of a name, as the comment above      *)
(* amqp_hostmatch takes it: the same labels, or a wildcard that stands for *)
(* one character or more within the leftmost label.                        *)
(***************************************************************************)
Dots(s) == {i \in DOMAIN s : s[i] = "."}

\* the wildcard at position w replaced by n characters of the host
Expanded(pattern, w, hostname, n) ==
    SubSeq(pattern, 1, w - 1) \o SubSeq(hostname, w, w + n - 1) \o From(pattern, w + 1)

NamesHost(pattern, hostname) ==
    \/ pattern # <<>> /\ amqp_raw_equal(pattern, hostname)
    \/ /\ hostname # <<>>
       /\ Cardinality(Dots(pattern)) >= 2
       /\ Len(pattern) >= 4 =>
              ~ amqp_raw_equal(SubSeq(pattern, 1, 4), <<"x", "n", "-", "-">>)
       /\ \E w \in DOMAIN pattern, n \in DOMAIN hostname :
              /\ pattern[w] = "*" /\ w = Min({i \in DOMAIN pattern : pattern[i] = "*"})
              /\ w < Min(Dots(pattern))
              /\ w + n - 1 <= Len(hostname)
              /\ "." \notin {hostname[i] : i \in w .. w + n - 1}
              /\ amqp_raw_equal(Expanded(pattern, w, hostname, n), hostname)

\* the names that count are those of the extension, if there is one
DnsNames(cert) == {name \in ToSet(cert.san) : name.dns}

Named(cert, hostname) ==
    IF cert.has_san
    THEN \E name \in DnsNames(cert) : ~ name.nul /\ NamesHost(name.text, hostname)
    ELSE cert.has_cn /\ ~ cert.cn.nul /\ NamesHost(cert.cn.text, hostname)

\* a name has a NUL in it, or there is no name at all
Malformed(cert) ==
    IF cert.has_san THEN \E name \in DnsNames(cert) : name.nul
    ELSE cert.has_cn => cert.cn.nul

=============================================================================
