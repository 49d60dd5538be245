------------------------------ MODULE MCSession -----------------------------
(***************************************************************************)
(* One connection on a clock that overflows after 31 units: 4 units to a   *)
(* second, 2 to a millisecond, and an int of 3 bits.                       *)
(***************************************************************************)
EXTENDS Session

\* the words that strtol reads to their end
MCPortNumber == ("5" :> 5) @@ ("65535" :> 65535) @@ ("65536" :> 65536) @@ ("-1" :> -1)

MCSpelling == (<<"a.b.c">> :> <<"a", ".", "b", ".", "c">>)
              @@ (<<"aB.b.c">> :> <<"a", "B", ".", "b", ".", "c">>)
              @@ (<<"b.a">> :> <<"b", ".", "a">>)

UserParts == {[user |-> <<>>, password |-> <<>>]}
             \cup [user : {<< <<>> >>, << <<"u", "@", ":">> >>},
                   password : {<<>>, << <<>> >>, << <<"p", "%", "/">> >>}]

Hosts == {[host |-> <<>>, brackets |-> FALSE], [host |-> <<>>, brackets |-> TRUE],
          [host |-> <<"h">>, brackets |-> FALSE], [host |-> <<"h", ":", "1">>, brackets |-> TRUE]}

UrlRest == [port : {<<>>, << <<"5">> >>, << <<"65535">> >>, << <<"65536">> >>, << <<"-1">> >>,
                    << <<"5", "5x">> >>, << <<>> >>},
            vhost : {<<>>, << <<>> >>, << <<"/">> >>, << <<"v", ":", "w">> >>,
                     << <<"?", "#", "[", "]">> >>}]

MCParts == {u @@ h @@ r : u \in UserParts, h \in Hosts, r \in UrlRest}

Plain(name) == [user |-> <<>>, password |-> <<>>, host |-> name, brackets |-> FALSE,
                port |-> <<>>, vhost |-> <<>>]

Url(scheme, parts, stray) == [scheme |-> scheme, parts |-> parts, stray |-> stray]

AllUrls ==
    {Url(scheme, parts, <<>>) : scheme \in {"amqp", "amqps", "http"}, parts \in MCParts}
    \cup UNION {{Url("amqp", parts, <<at, token>>) : at \in 1 .. Len(Render(parts)) + 1,
                                                    token \in Strays} :
                   parts \in {p \in MCParts :
                                 /\ p.port = << <<"5">> >>
                                 /\ p.vhost \in {<<>>, << <<>> >>, << <<"v", ":", "w">> >>}}}
    \cup {Url("amqps", Plain(name), <<>>) : name \in DOMAIN MCSpelling}
    \cup {Url("amqp", Plain(<<"a.b.c">>), <<>>)}

\* named once more because TLC keeps the value of a definition, not of what replaces a constant
MCUrls == AllUrls

MCTimeouts == {NoTimeout, Timeval(-1, 0), Timeval(0, 3), Timeval(1, 3), Timeval(3, 0),
               Timeval(5, 0), Timeval(7, 3), Timeval(8, 0)}

\* names of up to five characters
Names == UNION {[1..n -> {"a", "b", "*", "."}] : n \in 0..4}
         \cup {<<first>> \o <<".", "b", ".", "c">> : first \in {"a", "A", "b", "*"}}
         \cup {<<"a", "*", ".", "b", ".", "c">>, <<"*", "b", ".", "b", ".", "c">>,
               <<"*", "B", "b", ".", "b", ".", "c">>, <<"a", "*", "B", ".", "b", ".", "c">>,
               <<"x", "n", "-", "-", "*", ".", "b", ".", "c">>, <<"a", ".", "*", ".", "c">>}

Dns(text, nul) == [dns |-> TRUE, nul |-> nul, text |-> text]
WithSan(names) == [has_san |-> TRUE, san |-> names, has_cn |-> FALSE]
WithName(text, nul) == [has_san |-> FALSE, san |-> <<>>, has_cn |-> TRUE,
                        cn |-> [nul |-> nul, text |-> text]]
A == <<"a", ".", "b", ".", "c">>

CertificateSet ==
    {NoCertificate, WithName(A, FALSE), WithName(A, TRUE),
     [has_san |-> FALSE, san |-> <<>>, has_cn |-> FALSE]}
    \cup {WithSan(<<Dns(name, FALSE)>>) : name \in Names}
    \cup {WithSan(<<Dns(A, n1), [dns |-> d, nul |-> n2, text |-> A]>>) :
             n1 \in BOOLEAN, n2 \in BOOLEAN, d \in BOOLEAN}
    \cup {[has_san |-> TRUE, san |-> <<Dns(<<"a">>, FALSE)>>, has_cn |-> TRUE,
           cn |-> [nul |-> FALSE, text |-> A]]}

MCCertificates == [usual |-> WithName(A, FALSE), all |-> CertificateSet]

\* tables: a truth value, a table with an entry
Bool(b) == [kind |-> "BOOLEAN", value |-> b]
Entry(key, value) == [key |-> key, value |-> value]
Nested(table) == [kind |-> "TABLE", value |-> table]

MCDefault == <<Entry(<<1>>, Bool(1)), Entry(<<2>>, Nested(<<Entry(<<3>>, Bool(1)), Entry(<<4>>, Bool(1))>>))>>

ServerTables ==
    {<<>>, <<Entry(<<5>>, [kind |-> "ARRAY", value |-> <<Bool(1)>>]),
             Entry(<<2>>, Nested(<<Entry(<<3>>, Bool(0))>>))>>,
     <<Entry(<<>>, Bool(1))>>}

ClientTables ==
    {<<>>, <<Entry(<<1>>, Bool(0)), Entry(<<6>>, Bool(0))>>,
     <<Entry(<<2>>, Nested(<<Entry(<<4>>, Bool(0)), Entry(<<7>>, Bool(0))>>))>>,
     <<Entry(<<2>>, Bool(0))>>, <<Entry(<<1>>, Nested(<<Entry(<<3>>, Bool(0))>>))>>,
     <<Entry(<<>>, Bool(1))>>,
     <<Entry(<<8>>, [kind |-> "UTF8", value |-> [i \in 1..120 |-> 9]])>>}

MCTables == [usual |-> [theirs |-> <<>>, ours |-> <<>>],
             all |-> [theirs : ServerTables, ours : ClientTables]]

Limits(ch, fr, hb) == [channel_max |-> ch, frame_max |-> fr, heartbeat |-> hb]
ServerLimits == {Limits(0, 0, 0), Limits(8, 128, 1), Limits(65535, 24, 3)}
UsualOffer == [client |-> Limits(7, 24, 0), server |-> Limits(8, 128, 1)]
MCOffers ==
    [usual |-> UsualOffer,
     all |-> [client : {Limits(0, 128, 0), Limits(9, 200, 2)}, server : ServerLimits]
             \cup {UsualOffer, [client |-> Limits(0, 128, 0), server |-> Limits(0, 24, 0)]}]

Sasl(method, user, password, identity, mechanisms) ==
    [method |-> method, user |-> user, password |-> password, identity |-> identity,
     mechanisms |-> mechanisms]
Password == Sasl("PLAIN", <<117>>, <<112>>, <<>>, <<"AMQPLAIN", "PLAIN">>)
MCCredentials ==
    [usual |-> Password,
     all |-> {Password, Sasl("PLAIN", <<117>>, <<112>>, <<>>, <<"EXTERNAL">>),
              Sasl("EXTERNAL", <<>>, <<>>, <<105>>, <<"EXTERNAL">>),
              Sasl("EXTERNAL", <<>>, <<>>, <<>>, <<"EXTERNAL">>)}]
MCVirtualHosts == [usual |-> <<47>>, all |-> {<<47>>, [i \in 1..300 |-> 97]}]

-----------------------------------------------------------------------------
\* the frames of the exchange
MCTable == <<Entry(<<7>>, Bool(1))>>
MCNested == <<Entry(<<7, 8>>, [kind |-> "ARRAY", value |-> <<[kind |-> "I16", value |-> -300],
                                                            [kind |-> "VOID", value |-> 0]>>]),
              Entry(<<9>>, Nested(MCTable))>>
MCValue == [uint8_t |-> <<0, 200>>, uint16_t |-> <<0, 258>>, uint32_t |-> <<0, 66051>>,
            uint64_t |-> <<0, 66051>>, amqp_bytes_t |-> << <<>>, <<5, 6>> >>,
            amqp_table_t |-> << <<>>, MCTable, MCNested >>,
            amqp_boolean_t |-> <<FALSE, TRUE>>]
MCFlags == {0, 65532} \cup {2^k : k \in 2..15}
MCBodyLength == {0, 1, 15, 16, 17, 32, 33, 120, 121}
=============================================================================
