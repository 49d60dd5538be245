---------------------------- MODULE SocketOpening ---------------------------
(***************************************************************************)
(* From a URL to a connected socket: amqp_parse_url, amqp_tcp_socket_new   *)
(* or amqp_ssl_socket_new, and amqp_socket_open_noblock, with the resolver *)
(* and every address it returns, the deadline of the caller, and over TLS  *)
(* the handshake and the certificate of the broker.                        *)
(*                                                                         *)
(* The kernel, the resolver, OpenSSL and the broker are not in the         *)
(* repository: they answer as their interfaces allow.  A descriptor is the *)
(* lowest number that is free; an SSL object is the number of the call of  *)
(* open that made it.  close() of a socket does not fail.                  *)
(***************************************************************************)
EXTENDS MonotonicTime, AmqpUrl, HostCheck

CONSTANTS
    Urls,           \* the URLs: their parts, and a token that is out of place
    Spelling,       \* the hosts that are connected to, each in its characters
    Timeouts,       \* what the callers may pass as a timeout
    Certificates,   \* what the broker may show, NoCertificate included
    MaxNow,         \* bounds: the clock,
    MaxAddresses,   \* the addresses of a host,
    MaxOpens,       \* the calls of amqp_socket_open_noblock,
    MaxRounds       \* the messages of a TLS handshake that are waited for

\* the clock does not reach its end; a second has its microseconds in an int
ASSUME ClockAssumption ==
    /\ MaxNow \in 1 .. UINT64_MAX - 1
    /\ Timeouts \subseteq [tv_sec : Int, tv_usec : Int, given : BOOLEAN]
    /\ NS_PER_MS <= NS_PER_S /\ NS_PER_S <= (INT_MAX + 1) * NS_PER_US

\* the names that a certificate may hold, in characters
IsCertificate(cert) ==
    /\ cert.has_san \in BOOLEAN /\ cert.has_cn \in BOOLEAN
    /\ cert.has_san => cert.san \in Seq([dns : BOOLEAN, nul : BOOLEAN, text : Seq(STRING)])
    /\ cert.has_cn => cert.cn \in [nul : BOOLEAN, text : Seq(STRING)]

\* what is connected to and what the broker shows are written in characters
ASSUME NameAssumption ==
    /\ \A name \in DOMAIN Spelling : Spelling[name] \in Seq(STRING)
    /\ \A cert \in Certificates.all \cup {Certificates.usual} : IsCertificate(cert)

\* a URL is written from its parts, and has at most one delimiter out of its place
ASSUME UrlAssumption ==
    \A u \in Urls : /\ IsParts(u.parts)
                    /\ u.stray \in {<<>>} \cup ((1 .. Len(Render(u.parts)) + 1) \X Strays)

VARIABLES
    pc,         \* where the application or the library is
    status,     \* what the last call returned
    url,        \* what amqp_parse_url was given
    sock,       \* the amqp_tcp_socket_t or amqp_ssl_socket_t
    fds, ssls,  \* the descriptors that are open, the SSL objects that exist
    now,        \* the monotonic clock
    due,        \* the deadline of the call in progress
    limit,      \* ghost: the moment its caller asked for
    wait,       \* the poll() in progress
    todo,       \* the addresses that are left
    opens,      \* how often the socket was opened
    rounds,     \* the messages of the TLS handshake so far
    host,       \* what is being connected to
    shown,      \* ghost: the certificate that was checked last, and how
    abandoned   \* ghost: the SSL objects of calls that computed no deadline

openingVars == <<pc, status, url, sock, fds, ssls, now, due, limit, wait, todo, opens,
                 rounds, host, shown, abandoned>>

None == 0
Forever == -1
Start == 1
NoUrl == [scheme |-> "none"]
NoSocket == [kind |-> "none", sockfd |-> None, ssl |-> None]
NoCertificate == [has_san |-> FALSE, san |-> <<>>, has_cn |-> FALSE, missing |-> TRUE]
NoWait == [for |-> "nothing", fd |-> None]
NothingShown == [cert |-> NoCertificate]

SOCKET_ERROR == "AMQP_STATUS_SOCKET_ERROR"
SOCKET_INUSE == "AMQP_STATUS_SOCKET_INUSE"
RESOLUTION_FAILED == "AMQP_STATUS_HOSTNAME_RESOLUTION_FAILED"
NO_MEMORY == "AMQP_STATUS_NO_MEMORY"
SSL_ERROR == "AMQP_STATUS_SSL_ERROR"
SSL_CONNECTION_FAILED == "AMQP_STATUS_SSL_CONNECTION_FAILED"
PEER_VERIFY_FAILED == "AMQP_STATUS_SSL_PEER_VERIFY_FAILED"
HOSTNAME_VERIFY_FAILED == "AMQP_STATUS_SSL_HOSTNAME_VERIFY_FAILED"
\* a status that is a negative number of milliseconds (amqp_poll)
NEGATIVE_MS == "milliseconds"

OpeningInit ==
    /\ pc = "start" /\ status = TIME_OK /\ url = NoUrl
    /\ sock = NoSocket /\ fds = {} /\ ssls = {}
    /\ now = Start /\ due = UINT64_MAX /\ limit = Forever
    /\ wait = NoWait /\ todo = 0 /\ opens = 0 /\ rounds = 0
    /\ host = <<>> /\ shown = NothingShown /\ abandoned = {}

-----------------------------------------------------------------------------
\* what clock_gettime gives, or 0 when it fails
Clock == {now, 0}

(***************************************************************************)
(* amqp_poll, until it sleeps or returns without.  Signals start it over.  *)
(***************************************************************************)
Sleep(fd, deadline, clock) ==
    LET left == amqp_time_ms_until(deadline, clock)
    IN  [for |-> "poll", fd |-> fd, deadline |-> deadline, since |-> now, ms |-> left.ms,
         status |-> CASE left.status # TIME_OK -> left.status
                      [] left.status = TIME_OK /\ left.ms < -1 -> NEGATIVE_MS
                      [] OTHER -> TIME_OK]

Sleeping == wait # NoWait /\ wait.status = TIME_OK

\* poll with -1 returns only when there is something to do
Ends == Sleeping /\ wait.ms # -1
WakesAt == wait.since + wait.ms * NS_PER_MS

\* what amqp_poll may return now
Polled ==
    IF ~ Sleeping THEN {wait.status}
    ELSE {TIME_OK, SOCKET_ERROR} \cup (IF Ends /\ now >= WakesAt THEN {TIMEOUT} ELSE {})

\* time passes in a sleep that has an end, and never beyond it
Tick ==
    /\ Ends /\ now < WakesAt /\ now < MaxNow
    /\ now' = now + 1
    /\ UNCHANGED <<pc, status, url, sock, fds, ssls, due, limit, wait, todo, opens, rounds,
                   host, shown, abandoned>>

\* after a signal the same milliseconds over again
PollAgainSame(clock) ==
    /\ Sleeping /\ now > wait.since
    /\ wait' = [wait EXCEPT !.since = now]
    /\ UNCHANGED <<pc, status, url, sock, fds, ssls, now, due, limit, todo, opens, rounds,
                   host, shown, abandoned>>

\* a signal, or less data than was waited for: poll once more, for what is left
PollAgain(clock) ==
    /\ Sleeping /\ now > wait.since
    /\ wait' = Sleep(wait.fd, wait.deadline, clock)
    /\ UNCHANGED <<pc, status, url, sock, fds, ssls, now, due, limit, todo, opens, rounds,
                   host, shown, abandoned>>

\* the moment a caller means by a timeout
Limit(timeout) == IF timeout.given THEN now + Asked(timeout) ELSE Forever

-----------------------------------------------------------------------------
Written(u) ==
    IF u.stray = <<>> THEN Render(u.parts)
    ELSE InsertAt(Render(u.parts), u.stray[1], u.stray[2])

Read(u) == amqp_parse_url(u.scheme, Written(u))

ParseUrl ==
    /\ pc = "start"
    /\ pc' = "parsed"
    /\ url' \in Urls
    /\ status' = Read(url').status
    /\ UNCHANGED <<sock, fds, ssls, now, due, limit, wait, todo, opens, rounds, host, shown,
                   abandoned>>

\* amqp_tcp_socket_new or amqp_ssl_socket_new, as the URL says
NewSocket ==
    LET info == Read(url).info
    IN  /\ pc = "parsed" /\ status = TIME_OK /\ info.host \in DOMAIN Spelling
        /\ sock' = [kind |-> IF info.ssl THEN "ssl" ELSE "tcp", sockfd |-> None, ssl |-> None]
        /\ host' = Spelling[info.host]
        /\ pc' = "closed"
        /\ url' = NoUrl
        /\ UNCHANGED <<status, fds, ssls, now, due, limit, wait, todo, opens, rounds, shown,
                       abandoned>>

-----------------------------------------------------------------------------
OverTls == sock.kind = "ssl"

\* amqp_socket_open on a socket that is open
OpenInUse ==
    /\ pc = "open" /\ sock.sockfd # None
    /\ status' = SOCKET_INUSE
    /\ shown' = NothingShown
    /\ UNCHANGED <<pc, url, sock, fds, ssls, now, due, limit, wait, todo, opens, rounds, host,
                   abandoned>>

MayOpen == pc = "closed" /\ sock.sockfd = None /\ opens < MaxOpens

\* SSL_new fails
OpenWithoutSsl ==
    /\ MayOpen /\ OverTls
    /\ opens' = opens + 1
    /\ sock' = [sock EXCEPT !.ssl = None]
    /\ status' = SSL_ERROR
    /\ shown' = NothingShown
    /\ UNCHANGED <<pc, url, fds, ssls, now, due, limit, wait, todo, rounds, host, abandoned>>

\* without a deadline amqp_ssl_socket_open returns at once and keeps its SSL
Open(timeout, clock) ==
    LET deadline == amqp_time_from_now(clock, timeout)
        made == IF OverTls THEN {opens + 1} ELSE {}
    IN  /\ MayOpen
        /\ opens' = opens + 1
        /\ sock' = IF OverTls THEN [sock EXCEPT !.ssl = opens + 1] ELSE sock
        /\ ssls' = ssls \cup made
        /\ limit' = Limit(timeout)
        /\ shown' = NothingShown
        /\ status' = deadline.status
        /\ IF deadline.status # TIME_OK
           THEN abandoned' = abandoned \cup made /\ UNCHANGED <<pc, due>>
           ELSE pc' = "resolve" /\ due' = deadline.time /\ UNCHANGED abandoned
        /\ UNCHANGED <<url, fds, now, wait, todo, rounds, host>>

(***************************************************************************)
(* The errors of open: the descriptor that is closed, if there is one, and *)
(* the SSL object that is freed.                                           *)
(***************************************************************************)
OpenFails(s, fd) ==
    /\ pc' = "closed"
    /\ status' = s
    /\ fds' = fds \ {fd}
    /\ ssls' = ssls \ {sock.ssl}
    /\ sock' = [sock EXCEPT !.sockfd = None, !.ssl = None]
    /\ wait' = NoWait /\ todo' = 0 /\ rounds' = 0

\* getaddrinfo
Resolve ==
    /\ pc = "resolve"
    /\ \/ OpenFails(RESOLUTION_FAILED, None)
       \/ \E n \in 1..MaxAddresses :
              /\ todo' = n
              /\ pc' = "connect"
              /\ UNCHANGED <<status, sock, fds, ssls, wait, rounds>>
    /\ UNCHANGED <<url, now, due, limit, opens, host, shown, abandoned>>

-----------------------------------------------------------------------------
(***************************************************************************)
(* amqp_open_socket_inner goes through the addresses; connect_socket tries *)
(* one, and closes its descriptor when that fails.                         *)
(***************************************************************************)
NewFd == CHOOSE fd \in 1 .. Cardinality(fds) + 1 :
             fd \notin fds /\ \A lower \in 1 .. fd - 1 : lower \in fds

\* the descriptor is left open when there is another address
AddressFailsOpen(s, fd) ==
    IF s = TIMEOUT \/ todo = 1 THEN OpenFails(s, fd)
    ELSE /\ todo' = todo - 1
         /\ pc' = "connect"
         /\ wait' = NoWait
         /\ UNCHANGED <<status, sock, fds, ssls, rounds>>

AddressFails(s, fd) ==
    IF s = TIMEOUT \/ todo = 1 THEN OpenFails(s, fd)
    ELSE /\ todo' = todo - 1
         /\ pc' = "connect"
         /\ fds' = fds \ {fd}
         /\ wait' = NoWait
         /\ UNCHANGED <<status, sock, ssls, rounds>>

AddressConnects(fd) ==
    /\ sock' = [sock EXCEPT !.sockfd = fd]
    /\ fds' = fds \cup {fd}
    /\ pc' = IF OverTls THEN "tls" ELSE "open"
    /\ todo' = 0 /\ wait' = NoWait
    /\ UNCHANGED <<status, ssls, rounds>>

\* socket(), its options or connect() fail, or connect() succeeds at once
ConnectSocket ==
    /\ pc = "connect"
    /\ AddressFails(SOCKET_ERROR, None) \/ AddressConnects(NewFd)
    /\ UNCHANGED <<url, now, due, limit, opens, host, shown, abandoned>>

\* EINPROGRESS
ConnectInProgress(clock) ==
    /\ pc = "connect"
    /\ pc' = "connecting"
    /\ fds' = fds \cup {NewFd}
    /\ wait' = Sleep(NewFd, due, clock)
    /\ UNCHANGED <<status, url, sock, ssls, now, due, limit, todo, opens, rounds, host, shown,
                   abandoned>>

\* poll has returned; SO_ERROR tells whether connect has succeeded
ConnectEnds ==
    /\ pc = "connecting"
    /\ \/ TIME_OK \in Polled /\ AddressConnects(wait.fd)
       \/ TIME_OK \in Polled /\ AddressFails(SOCKET_ERROR, wait.fd)
       \/ \E s \in Polled \ {TIME_OK} : AddressFails(s, wait.fd)
    /\ UNCHANGED <<url, now, due, limit, opens, host, shown, abandoned>>

-----------------------------------------------------------------------------
\* BIO_new, SSL_set_tlsext_host_name or SSL_connect fails
TlsFails ==
    /\ pc = "tls"
    /\ \E s \in {SSL_CONNECTION_FAILED}
                 \cup (IF rounds = 0 THEN {NO_MEMORY, SSL_ERROR} ELSE {}) :
           OpenFails(s, sock.sockfd)
    /\ UNCHANGED <<url, now, due, limit, opens, host, shown, abandoned>>

\* SSL_ERROR_WANT_READ and SSL_ERROR_WANT_WRITE
TlsWants(clock) ==
    /\ pc = "tls" /\ rounds < MaxRounds
    /\ rounds' = rounds + 1
    /\ pc' = "handshake"
    /\ wait' = Sleep(None, due, clock)
    /\ UNCHANGED <<status, url, sock, fds, ssls, now, due, limit, todo, opens, host, shown,
                   abandoned>>

TlsPolled ==
    /\ pc = "handshake"
    /\ \E s \in Polled :
           IF s = TIME_OK
           THEN pc' = "tls" /\ wait' = NoWait
                /\ UNCHANGED <<status, sock, fds, ssls, todo, rounds>>
           ELSE OpenFails(s, sock.sockfd)
    /\ UNCHANGED <<url, now, due, limit, opens, host, shown, abandoned>>

(***************************************************************************)
(* SSL_connect has succeeded; valid is SSL_get_verify_result.  The flags   *)
(* are those of the socket, set before and looked at here.                 *)
(***************************************************************************)
TlsConnected(cert, valid, verify_peer, verify_hostname) ==
    LET there == cert # NoCertificate
        named == there /\ amqp_ssl_validate_hostname(host, cert) = MATCH_FOUND
    IN  /\ pc = "tls"
        /\ shown' = [cert |-> cert, host |-> host, verify_hostname |-> verify_hostname]
        /\ IF verify_peer /\ ~ (there /\ valid)
           THEN OpenFails(PEER_VERIFY_FAILED, sock.sockfd)
           ELSE IF verify_hostname /\ ~ named
           THEN OpenFails(HOSTNAME_VERIFY_FAILED, sock.sockfd)
           ELSE /\ pc' = "open" /\ rounds' = 0
                /\ UNCHANGED <<status, sock, fds, ssls, wait, todo>>
        /\ UNCHANGED <<url, now, due, limit, opens, host, abandoned>>

\* all choices at the first attempt, before time passes; later the usual one.  (A bound.)
Some(choices) == IF now = Start /\ opens = 1 THEN choices.all ELSE {choices.usual}

OpeningNext ==
    \/ ParseUrl
    \/ NewSocket
    \/ OpenInUse
    \/ OpenWithoutSsl
    \/ \E timeout \in Timeouts, clock \in Clock : Open(timeout, clock)
    \/ Resolve
    \/ ConnectSocket
    \/ \E clock \in Clock : ConnectInProgress(clock)
    \/ ConnectEnds
    \/ TlsFails
    \/ \E clock \in Clock : TlsWants(clock)
    \/ TlsPolled
    \/ /\ pc = "tls"
       /\ \E cert \in Some(Certificates), valid, verify_peer, verify_hostname \in BOOLEAN :
              TlsConnected(cert, valid, verify_peer, verify_hostname)

\* the states of a call of open, and of one that waits for poll
Opening == pc \in {"resolve", "connect", "connecting", "tls", "handshake"}
=============================================================================
