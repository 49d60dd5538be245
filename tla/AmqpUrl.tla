------------------------------ MODULE AmqpUrl -------------------------------
(***************************************************************************)
(* amqp_parse_url.  A URL is a scheme and a sequence of tokens: delimiters *)
(* of one character, words that hold none, and percent-encodings, either   *)
(* of a delimiter or broken ("%", not followed by two digits of a          *)
(* character in ASCII).  A component of a URL is a sequence of what its    *)
(* tokens stand for.                                                       *)
(***************************************************************************)
EXTENDS Integers, SequencesExt

CONSTANT
    PortNumber      \* the words that strtol reads to their end, as numbers

NUL == "NUL"
BAD_URL == "AMQP_STATUS_BAD_URL"

DefaultPort == [amqp |-> 5672, amqps |-> 5671]

\* ":" and "@" end every component
DelimitersAlways(colon_and_at_sign_are_delims) ==
    {"/", "?", "#", "[", "]", "%", ":", "@"}

\* the delimiters that end every component, and those of user, host and port
Delimiters(colon_and_at_sign_are_delims) ==
    {"/", "?", "#", "[", "]", "%"}
    \cup IF colon_and_at_sign_are_delims THEN {":", "@"} ELSE {}

\* what a percent-encoding stands for
Encodings == [colon |-> ":", at |-> "@", slash |-> "/", percent |-> "%",
              question |-> "?", hash |-> "#", opening |-> "[", closing |-> "]"]

Decoded(token) == IF token \in DOMAIN Encodings THEN Encodings[token] ELSE token

(***************************************************************************)
(* find_delim from position `from': the component up to the next           *)
(* delimiter, that delimiter, and where the next component starts.  A      *)
(* broken encoding is returned as a delimiter that none of the callers     *)
(* knows.                                                                  *)
(***************************************************************************)
find_delim(url, from, colon_and_at_sign_are_delims) ==
    LET at == {i \in from .. Len(url) :
                   url[i] \in Delimiters(colon_and_at_sign_are_delims)}
        Until(end) == [text  |-> [i \in 1 .. end - from |-> Decoded(url[from + i - 1])],
                       delim |-> IF end > Len(url) THEN NUL ELSE url[end],
                       next  |-> end + 1]
    IN  Until(Min(at \cup {Len(url) + 1}))

amqp_default_connection_info ==
    [user |-> <<"guest">>, password |-> <<"guest">>, host |-> <<"localhost">>,
     port |-> DefaultPort["amqp"], vhost |-> <<"/">>, ssl |-> FALSE]

-----------------------------------------------------------------------------
(***************************************************************************)
(* The steps of amqp_parse_url.  Each looks at the delimiter that the one  *)
(* before it has stopped at, and goes on to the next.  A part of the URL   *)
(* is <<>> until it is found, and then a sequence of one, its text.        *)
(***************************************************************************)
NothingFound ==
    [user |-> <<>>, password |-> <<>>, host |-> <<>>, port |-> <<>>, vhost |-> <<>>,
     behind |-> <<>>, delim |-> NUL, next |-> 1, sound |-> TRUE]

Find(url, s, part, colon_and_at_sign_are_delims) ==
    LET Up(d) == [s EXCEPT ![part] = <<d.text>>, !.delim = d.delim, !.next = d.next]
    IN  Up(find_delim(url, s.next, colon_and_at_sign_are_delims))

HostOrUser(url) == Find(url, NothingFound, "host", TRUE)

\* behind a colon is the port, or the password
PortOrPassword(url, s) == IF s.delim = ":" THEN Find(url, s, "port", TRUE) ELSE s

\* what was found so far were user and password
Userinfo(url, s) ==
    IF s.delim # "@" THEN s
    ELSE Find(url, [s EXCEPT !.user = s.host, !.password = s.port, !.port = <<>>],
              "host", TRUE)

\* a host in brackets: they are its first and its last character
Host(url, s) ==
    LET Opened == [s EXCEPT !.sound = s.port = <<>> /\ s.host = << <<>> >>]
        Closed(h) == Find(url, [h EXCEPT !.sound = @ /\ h.delim = "]"], "behind", TRUE)
    IN  IF s.delim = "[" THEN Closed(Find(url, Opened, "host", FALSE))
        ELSE [s EXCEPT !.host = IF @ = << <<>> >> THEN <<>> ELSE @]

Vhost(url, s) == IF s.delim = "/" THEN Find(url, s, "vhost", TRUE) ELSE s

PortText(text) ==
    /\ Len(text) = 1
    /\ text[1] \in DOMAIN PortNumber
    /\ PortNumber[text[1]] \in 0 .. 65535

Or(part, default) == IF part = <<>> THEN default ELSE part[1]

\* after an error the parts are of no use; the defaults stand for them here
Parsed(scheme, s) ==
    LET default == amqp_default_connection_info
        sound == /\ scheme \in DOMAIN DefaultPort
                 /\ s.sound /\ s.behind \in {<<>>, << <<>> >>}
                 /\ s.port # <<>> => PortText(s.port[1])
                 /\ s.delim = NUL
    IN  IF ~ sound THEN [status |-> BAD_URL, info |-> default]
        ELSE [status |-> "AMQP_STATUS_OK",
              info |-> [user |-> Or(s.user, default.user),
                        password |-> Or(s.password, default.password),
                        host |-> Or(s.host, default.host),
                        port |-> IF s.port = <<>> THEN DefaultPort[scheme]
                                 ELSE PortNumber[s.port[1][1]],
                        vhost |-> Or(s.vhost, default.vhost),
                        ssl |-> scheme = "amqps"]]

amqp_parse_url(scheme, url) ==
    LET userinfo == Userinfo(url, PortOrPassword(url, HostOrUser(url)))
    IN  Parsed(scheme, Vhost(url, PortOrPassword(url, Host(url, userinfo))))

-----------------------------------------------------------------------------
(***************************************************************************)
(* The reference, from amqp.h: how a URL is written that has these parts.  *)
(*   amqp://[$USERNAME[:$PASSWORD]\@]$HOST[:$PORT]/[$VHOST]                *)
(* A part that may be missing is <<>> or a sequence of one, its text.      *)
(***************************************************************************)
Encoding(c) ==
    IF \E e \in DOMAIN Encodings : Encodings[e] = c
    THEN CHOOSE e \in DOMAIN Encodings : Encodings[e] = c ELSE c

Encode(text) == [i \in DOMAIN text |-> Encoding(text[i])]

Optional(part, before) == IF part = <<>> THEN <<>> ELSE before \o Encode(part[1])

Render(parts) ==
    (IF parts.user = <<>> THEN <<>>
     ELSE Encode(parts.user[1]) \o Optional(parts.password, <<":">>) \o <<"@">>)
    \o (IF parts.brackets THEN <<"[">> \o parts.host \o <<"]">> ELSE Encode(parts.host))
    \o Optional(parts.port, <<":">>)
    \o Optional(parts.vhost, <<"/">>)

\* what such a URL says, the parts that are missing set to their defaults
Meaning(scheme, parts) ==
    LET default == amqp_default_connection_info
    IN  [user |-> Or(parts.user, default.user),
         password |-> Or(parts.password, default.password),
         host |-> IF parts.host = <<>> /\ ~ parts.brackets THEN default.host ELSE parts.host,
         port |-> IF parts.port = <<>> THEN DefaultPort[scheme]
                  ELSE PortNumber[parts.port[1][1]],
         vhost |-> Or(parts.vhost, default.vhost),
         ssl |-> scheme = "amqps"]

\* a port is written as a decimal number of 16 bits
SoundPort(parts) ==
    parts.port # <<>> => /\ Len(parts.port[1]) = 1
                         /\ parts.port[1][1] \in DOMAIN PortNumber
                         /\ PortNumber[parts.port[1][1]] \in 0 .. 65535

\* a delimiter that no part of a URL may have outside its place
Strays == {"?", "#", "[", "]", "%"}

\* a text, of words that are not the name of an encoding
IsText(text) ==
    /\ text \in Seq(STRING)
    /\ \A i \in DOMAIN text : text[i] \notin DOMAIN Encodings

\* one that may stand in brackets, where nothing is encoded
IsAddress(text) ==
    /\ IsText(text)
    /\ \A i \in DOMAIN text : text[i] \notin {"/", "?", "#", "[", "]", "%"}

IsPart(part) == part = <<>> \/ (part = <<part[1]>> /\ IsText(part[1]))

\* there is no password without a user
IsParts(parts) ==
    /\ IsPart(parts.user) /\ IsPart(parts.password) /\ IsPart(parts.port) /\ IsPart(parts.vhost)
    /\ parts.user = <<>> => parts.password = <<>>
    /\ parts.brackets \in BOOLEAN
    /\ IF parts.brackets THEN IsAddress(parts.host) ELSE IsText(parts.host)
=============================================================================
