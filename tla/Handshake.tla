----------------------------- MODULE Handshake ------------------------------
(***************************************************************************)
(* The control of a session: a socket is opened (SocketOpening), and       *)
(* amqp_login sends, waits, answers and gives up until the broker and the  *)
(* library agree.  Which messages are sent and waited for, what is closed  *)
(* when one fails, the deadline and the limits are here.  What the         *)
(* messages hold otherwise is in Session: here they encode or do not, and  *)
(* please the library or do not.                                           *)
(*                                                                         *)
(* From connection.tune on heartbeats are sent and missed in a login as    *)
(* they are later (Heartbeat).  The one that is sent while open-ok is      *)
(* waited for is a message of the step OPEN_OK.                            *)
(***************************************************************************)
EXTENDS SocketOpening, Tuning

CONSTANTS
    InitialFrameMax,    \* AMQP_INITIAL_FRAME_POOL_PAGE_SIZE
    Offers              \* the limits of the application and of the broker: the usual
                        \* ones, and all of them

\* the largest frame that both sides can name, an int in amqp_login
LargestFrame == 2147483647

AnyLimits == [channel_max : 0 .. AllChannels, frame_max : 0 .. LargestFrame,
           heartbeat : 0 .. AllChannels]

ASSUME OfferAssumption ==
    /\ InitialFrameMax \in Nat
    /\ Offers.usual \in Offers.all
    /\ \A o \in Offers.all : /\ o.client \in AnyLimits /\ o.server \in AnyLimits
                             /\ o.client.frame_max # 0

VARIABLES
    conn,       \* the fields of amqp_connection_state_t that amqp_tune_connection sets
    step,       \* the message of the handshake that is sent or waited for
    timer,      \* next_send_heartbeat and next_recv_heartbeat, of a login under way
    heard       \* ghost: the limits of both sides and what was made of them

handshakeVars == <<openingVars, frame_max, conn, step, timer, heard>>

SASL_UNSUPPORTED == "AMQP_STATUS_BROKER_UNSUPPORTED_SASL_METHOD"
INCOMPATIBLE_VERSION == "AMQP_STATUS_INCOMPATIBLE_AMQP_VERSION"
WRONG_METHOD == "AMQP_STATUS_WRONG_METHOD"
HEARTBEAT_TIMEOUT == "AMQP_STATUS_HEARTBEAT_TIMEOUT"
CONNECTION_CLOSED == "AMQP_STATUS_CONNECTION_CLOSED"
SERVER_EXCEPTION == "AMQP_RESPONSE_SERVER_EXCEPTION"
\* a status that is the number of bytes sent (send_header_inner)
SHORT_COUNT == "bytes"

NothingHeard == [about |-> "nothing"]

\* amqp_new_connection; frame_max is outbound_buffer.len (amqp_tune_connection)
NewConnection ==
    [channel_max |-> 0, frame_max |-> InitialFrameMax, heartbeat |-> 0,
     allocated |-> InitialFrameMax]

NoTimer == [send |-> amqp_time_infinite, recv |-> amqp_time_infinite]

HandshakeInit ==
    /\ OpeningInit
    /\ frame_max = InitialFrameMax
    /\ conn = NewConnection
    /\ step = "none"
    /\ timer = NoTimer
    /\ heard = NothingHeard

-----------------------------------------------------------------------------
\* amqp_socket_close, for TCP and for TLS
SocketClose ==
    /\ fds' = fds \ {sock.sockfd}
    /\ ssls' = ssls \ {sock.ssl}
    /\ sock' = [sock EXCEPT !.sockfd = None, !.ssl = None]

\* error_res of amqp_login_inner
LoginFails(s) ==
    /\ SocketClose
    /\ pc' = "failed" /\ status' = s /\ step' = "none" /\ wait' = NoWait /\ timer' = NoTimer

\* errors that leave the socket to the application
LoginGivesUp(s) ==
    /\ pc' = "failed" /\ status' = s /\ step' = "none" /\ wait' = NoWait /\ timer' = NoTimer
    /\ UNCHANGED <<sock, fds, ssls>>

\* amqp_login is given a limit that is negative or too large
LoginRefused ==
    /\ pc = "open"
    /\ status' = TIME_INVALID
    /\ shown' = NothingShown
    /\ UNCHANGED <<pc, url, sock, fds, ssls, now, due, limit, wait, todo, opens, rounds, host,
                   abandoned, frame_max, conn, step, timer, heard>>

Login(timeout, clock) ==
    LET deadline == amqp_time_from_now(clock, timeout)
    IN  /\ pc = "open"
        /\ limit' = Limit(timeout)
        /\ shown' = NothingShown /\ host' = <<>>
        /\ IF deadline.status # TIME_OK
           THEN LoginFails(deadline.status) /\ UNCHANGED due
           ELSE /\ due' = deadline.time
                /\ pc' = "send" /\ step' = "header" /\ status' = TIME_OK
                /\ UNCHANGED <<sock, fds, ssls, wait, timer>>
        /\ UNCHANGED <<url, now, todo, opens, rounds, abandoned, frame_max, conn, heard>>

-----------------------------------------------------------------------------
(***************************************************************************)
(* amqp_try_send: the message goes out, or waits for room, or fails.       *)
(* connection.open and heartbeats are sent without a deadline.  A send     *)
(* waits no longer than until the broker is to be heard; then it reads     *)
(* (amqp_try_recv), again without a deadline, before it goes on.           *)
(***************************************************************************)
SendDeadline == IF step \in {"OPEN", "OPEN_OK"} THEN amqp_time_infinite ELSE due

SendFails(s) == IF step \in {"OPEN", "OPEN_OK"} THEN LoginGivesUp(s) ELSE LoginFails(s)

\* for the header and start-ok there is no heartbeat: the timer stays at infinity
Sent(clock) ==
    LET next == amqp_time_s_from_now(clock, conn.heartbeat)
    IN  IF next.status # TIME_OK THEN SendFails(next.status)
        ELSE /\ step' = CASE step = "header"   -> "START"
                          [] step = "START_OK" -> "TUNE"
                          [] step = "TUNE_OK"  -> "OPEN"
                          [] step \in {"OPEN", "OPEN_OK"} -> "OPEN_OK"
             /\ pc' = IF step = "TUNE_OK" THEN "make" ELSE "expect"
             /\ timer' = [timer EXCEPT !.send = next.time]
             /\ wait' = NoWait
             /\ UNCHANGED <<status, sock, fds, ssls>>

loginOther == <<url, now, due, limit, todo, opens, rounds, host, shown, abandoned, frame_max,
                conn, heard>>

Send(clock) ==
    /\ pc = "send"
    /\ Sent(clock) \/ SendFails(SOCKET_ERROR)
    /\ UNCHANGED loginOther

SendBlocks(clock) ==
    /\ pc = "send"
    /\ pc' = "blocked"
    /\ wait' = Sleep(None, amqp_time_first(SendDeadline, timer.recv), clock)
    /\ UNCHANGED <<status, sock, fds, ssls, step, timer, loginOther>>

Reads ==
    /\ pc' = "read"
    /\ wait' = Sleep(None, amqp_time_infinite, now)
    /\ UNCHANGED <<status, sock, fds, ssls, step, timer>>

\* of the header, a timeout leaves a count of bytes: 0 is taken for success
SendEnds(clock) ==
    /\ pc = "blocked"
    /\ \E s \in Polled :
           CASE s = TIME_OK -> Sent(clock)
             [] s = TIMEOUT /\ step = "header" -> Sent(clock) \/ LoginFails(SHORT_COUNT)
             [] s = TIMEOUT /\ step # "header" /\ wait.deadline # SendDeadline -> Reads
             [] OTHER -> SendFails(s)
    /\ UNCHANGED loginOther

Renewed(clock) == amqp_time_s_from_now(clock, 2 * conn.heartbeat)

\* what was read is left in the buffer, and the rest of the message is sent
ReadEnds(clock) ==
    /\ pc = "read"
    /\ \/ /\ Renewed(clock).status = TIME_OK
          /\ pc' = "send" /\ wait' = NoWait
          /\ timer' = [timer EXCEPT !.recv = Renewed(clock).time]
          /\ UNCHANGED <<status, sock, fds, ssls, step>>
       \/ \E s \in {SOCKET_ERROR, CONNECTION_CLOSED, Renewed(clock).status} \ {TIME_OK} :
              SendFails(s)
    /\ UNCHANGED loginOther

-----------------------------------------------------------------------------
(***************************************************************************)
(* amqp_simple_wait_method_list turns the deadline into a timeout and      *)
(* amqp_simple_wait_frame_noblock turns that into a deadline again;        *)
(* amqp_simple_rpc waits until the deadline itself.                        *)
(***************************************************************************)
\* the deadline is lost on the way
WaitUntilForever(clock) == [status |-> TIME_OK, time |-> amqp_time_infinite]

WaitUntil(clock) ==
    LET left == amqp_time_tv_until(due, clock)
    IN  IF left.status # TIME_OK THEN [status |-> left.status, time |-> 0]
        ELSE amqp_time_from_now(clock, left.tv)

\* wait_frame_inner for open-ok; its own heartbeat is not due, or has just been sent
AwaitOpenOk(timers, clock) ==
    /\ pc' = "await"
    /\ wait' = Sleep(None, amqp_time_first(due, amqp_time_first(timers.recv, timers.send)), clock)
    /\ timer' = timers
    /\ UNCHANGED <<status, sock, fds, ssls, step>>

Expect(clock) ==
    /\ pc = "expect"
    /\ IF step = "OPEN_OK" THEN AwaitOpenOk(timer, clock)
       ELSE \E until \in {WaitUntil(clock)} :
                IF until.status # TIME_OK THEN LoginFails(until.status)
                ELSE /\ pc' = "await"
                     /\ wait' = Sleep(None, until.time, clock)
                     /\ UNCHANGED <<status, sock, fds, ssls, step, timer>>
    /\ UNCHANGED loginOther

(***************************************************************************)
(* No frame comes: poll fails, the broker has hung up or a time is over:   *)
(* that of the broker, of the caller, or of the library's own heartbeat.   *)
(* (poll may be early by less than a millisecond: wait_frame_inner goes    *)
(* round until the heartbeat is due; here it is due then.)                 *)
(***************************************************************************)
AwaitTimesOut ==
    CASE step = "OPEN_OK" /\ wait.deadline = timer.recv -> LoginFails(HEARTBEAT_TIMEOUT)
      [] step = "OPEN_OK" /\ wait.deadline \notin {timer.recv, due} ->
             /\ pc' = "send" /\ wait' = NoWait
             /\ UNCHANGED <<status, sock, fds, ssls, step, timer>>
      [] OTHER -> LoginFails(TIMEOUT)

AwaitFails ==
    /\ pc = "await"
    /\ \/ TIMEOUT \in Polled /\ AwaitTimesOut
       \/ \E s \in (Polled \ {TIME_OK, TIMEOUT})
                       \cup (IF Sleeping THEN {CONNECTION_CLOSED} ELSE {}) :
              IF step = "OPEN_OK" THEN LoginGivesUp(s) ELSE LoginFails(s)
    /\ UNCHANGED loginOther

Arrives == pc = "await" /\ TIME_OK \in Polled

\* part of a frame, a heartbeat, or a frame that amqp_simple_rpc queues: it waits on
HearOther(clock) ==
    /\ Arrives /\ step = "OPEN_OK"
    /\ IF Renewed(clock).status # TIME_OK THEN LoginGivesUp(Renewed(clock).status)
       ELSE AwaitOpenOk([timer EXCEPT !.recv = Renewed(clock).time], clock)
    /\ UNCHANGED loginOther

\* a frame that is not expected
TakeOther ==
    /\ Arrives
    /\ step # "OPEN_OK"
    /\ LoginFails(WRONG_METHOD)
    /\ UNCHANGED loginOther

\* connection.close
TakeClose ==
    /\ Arrives
    /\ IF step = "START" THEN LoginFails(WRONG_METHOD) ELSE LoginGivesUp(SERVER_EXCEPTION)
    /\ UNCHANGED loginOther

-----------------------------------------------------------------------------
\* what becomes of a message: TIME_OK, or why it cannot be answered
Outcomes ==
    {TIME_OK, TIME_INVALID, INCOMPATIBLE_VERSION, SASL_UNSUPPORTED, NO_MEMORY,
     "AMQP_STATUS_BAD_AMQP_DATA", "AMQP_STATUS_TABLE_TOO_BIG"}

\* connection.start, answered by connection.start-ok
StartTaken(s) ==
    /\ Arrives /\ step = "START"
    /\ IF s = TIME_OK
       THEN /\ pc' = "send" /\ step' = "START_OK" /\ wait' = NoWait
            /\ UNCHANGED <<status, sock, fds, ssls, timer>>
       ELSE LoginFails(s)
    /\ UNCHANGED loginOther

(***************************************************************************)
(* connection.tune, and amqp_tune_connection: the limits are set first,    *)
(* then the times of the heartbeats, then the length of the buffer, and    *)
(* last its memory.  The clock or the memory may fail; s is what becomes   *)
(* of connection.tune-ok in a buffer of this length.                       *)
(***************************************************************************)
Tuned(offer) ==
    [channel_max |-> TunedChannelMax(offer.client.channel_max, offer.server.channel_max),
     frame_max   |-> TunedFrameMax(offer.client.frame_max, offer.server.frame_max),
     heartbeat   |-> TunedHeartbeat(offer.client.heartbeat, offer.server.heartbeat)]

\* when a heartbeat is to be sent, and when one is missed: twice as long
Timers(offer, clock) ==
    LET send == amqp_time_s_from_now(clock, Tuned(offer).heartbeat).status
    IN  IF send # TIME_OK THEN send
        ELSE amqp_time_s_from_now(clock, 2 * Tuned(offer).heartbeat).status

StartedTimer(offer, clock) ==
    [send |-> amqp_time_s_from_now(clock, Tuned(offer).heartbeat).time,
     recv |-> amqp_time_s_from_now(clock, 2 * Tuned(offer).heartbeat).time]

TunedLength(offer, clock) ==
    IF Timers(offer, clock) = TIME_OK THEN Tuned(offer).frame_max ELSE frame_max

TuneTaken(offer, clock, memory, s) ==
    LET tuned == Tuned(offer)
        timers == Timers(offer, clock)
        grown == timers = TIME_OK /\ memory
    IN  /\ Arrives /\ step = "TUNE"
        /\ heard' = [about |-> "tune", offer |-> offer, sent |-> tuned]
        /\ conn' = [channel_max |-> tuned.channel_max, frame_max |-> tuned.frame_max,
                    heartbeat |-> tuned.heartbeat,
                    allocated |-> IF grown THEN tuned.frame_max ELSE conn.allocated]
        /\ frame_max' = TunedLength(offer, clock)
        /\ IF grown /\ s = TIME_OK
           THEN /\ pc' = "send" /\ step' = "TUNE_OK" /\ wait' = NoWait
                /\ timer' = StartedTimer(offer, clock)
                /\ UNCHANGED <<status, sock, fds, ssls>>
           ELSE LoginFails(IF timers # TIME_OK THEN timers
                           ELSE IF ~ memory THEN NO_MEMORY ELSE s)
        /\ UNCHANGED <<url, now, due, limit, todo, opens, rounds, host, shown, abandoned>>

\* connection.open is encoded
OpenMade(s) ==
    /\ pc = "make"
    /\ IF s # TIME_OK THEN LoginGivesUp(s)
       ELSE pc' = "send" /\ UNCHANGED <<status, sock, fds, ssls, step, wait, timer>>
    /\ UNCHANGED loginOther

TakeOpenOk ==
    /\ Arrives /\ step = "OPEN_OK"
    /\ pc' = "connected" /\ step' = "none" /\ wait' = NoWait /\ timer' = NoTimer
    /\ UNCHANGED <<status, sock, fds, ssls, loginOther>>

-----------------------------------------------------------------------------
\* amqp_destroy_connection; without a descriptor amqp_ssl_socket_close frees nothing
Destroy ==
    /\ pc \in {"closed", "open", "failed", "connected"}
    /\ pc' = "destroyed"
    /\ status' = TIME_OK
    /\ IF sock.sockfd # None THEN SocketClose ELSE UNCHANGED <<sock, fds, ssls>>
    /\ conn' = NewConnection /\ frame_max' = InitialFrameMax
    /\ due' = UINT64_MAX /\ limit' = Forever
    /\ shown' = NothingShown /\ heard' = NothingHeard
    /\ UNCHANGED <<url, now, wait, todo, opens, rounds, host, abandoned, step, timer>>

OpeningStep == OpeningNext /\ UNCHANGED <<frame_max, conn, step, timer, heard>>
TimePasses == Tick /\ UNCHANGED <<frame_max, conn, step, timer, heard>>
PollsAgain ==
    /\ \E clock \in Clock : PollAgain(clock)
    /\ UNCHANGED <<frame_max, conn, step, timer, heard>>

\* the steps of a login in which nothing is looked at but what kind of message it is
LoginStep ==
    \/ LoginRefused
    \/ \E timeout \in Timeouts, clock \in Clock : Login(timeout, clock)
    \/ \E clock \in Clock : Send(clock)
    \/ \E clock \in Clock : SendBlocks(clock)
    \/ \E clock \in Clock : SendEnds(clock)
    \/ \E clock \in Clock : ReadEnds(clock)
    \/ \E clock \in Clock : Expect(clock)
    \/ \E clock \in Clock : HearOther(clock)
    \/ AwaitFails
    \/ TakeOther
    \/ TakeClose
    \/ TakeOpenOk

HandshakeNext ==
    \/ OpeningStep
    \/ TimePasses
    \/ PollsAgain
    \/ LoginStep
    \/ \E s \in Outcomes : StartTaken(s)
    \/ \E offer \in Offers.all, clock \in Clock, memory \in BOOLEAN, s \in Outcomes :
           TuneTaken(offer, clock, memory, s)
    \/ \E s \in Outcomes : OpenMade(s)
    \/ Destroy

(***************************************************************************)
(* A session with its data and its exchange of frames is one of these: no  *)
(* field of a message, no frame in use and no error of a codec takes it    *)
(* where this does not go.                                                 *)
(***************************************************************************)
HandshakeSpec == HandshakeInit /\ [][HandshakeNext]_handshakeVars

-----------------------------------------------------------------------------
(***************************************************************************)
(* Every descriptor belongs to the socket or to the connect() in progress, *)
(* however open or login ends; so does every SSL object, except those of   *)
(* amqp_ssl_socket_open when it cannot compute its deadline.  A socket     *)
(* that is open has its descriptor and, over TLS, its SSL object.          *)
(***************************************************************************)
ResourcesHeld ==
    /\ fds \subseteq {sock.sockfd, wait.fd}
    /\ ssls \subseteq {sock.ssl} \cup abandoned
    /\ sock.sockfd # None => sock.sockfd \in fds /\ (OverTls => sock.ssl \in ssls)
    /\ pc = "destroyed" => fds = {}

(***************************************************************************)
(* amqp_parse_url finds the parts that a URL was written from, with the    *)
(* defaults of amqp.h for those that are missing.  A port that is no       *)
(* number of 16 bits, an unknown scheme, or a delimiter out of its place   *)
(* is an error.                                                            *)
(***************************************************************************)
UrlRoundTrip ==
    pc = "parsed" =>
        LET sound == /\ url.scheme \in DOMAIN DefaultPort
                     /\ url.stray = <<>> /\ SoundPort(url.parts)
        IN  /\ status = TIME_OK <=> sound
            /\ sound => Read(url).info = Meaning(url.scheme, url.parts)

(***************************************************************************)
(* A deadline of the caller is kept in every wait of the calls that have   *)
(* one: they return AMQP_STATUS_TIMEOUT less than a millisecond early, and *)
(* do not sleep beyond it, however often poll is interrupted.  It holds    *)
(* while the milliseconds that are left fit an int, and but for the waits  *)
(* that the library makes without the deadline: the read of a send that    *)
(* waits for room until the broker has missed its heartbeat                *)
(* (amqp_socket.c:763), and the send of connection.open (1049) and of a    *)
(* heartbeat (805).                                                        *)
(***************************************************************************)
Unbounded == pc = "read" \/ (pc = "blocked" /\ step \in {"OPEN", "OPEN_OK"})

InRange(t) ==
    limit # Forever /\ limit < UINT64_MAX /\ limit - t < (INT_MAX + 1) * NS_PER_MS

Latest(t) == IF limit > t THEN limit ELSE t

DeadlineKept ==
    /\ status = TIMEOUT =>
           limit # Forever /\ (InRange(now) => now > limit - NS_PER_MS - NS_PER_US)
    /\ (Sleeping /\ InRange(wait.since) /\ ~ Unbounded) =>
           Ends /\ WakesAt <= Latest(wait.since)

\* outbound_buffer is as long as the library takes it to be
BufferMatches == frame_max = conn.allocated /\ frame_max = conn.frame_max

(***************************************************************************)
(* Of two limits the lower one is agreed on, 0 being none (for heartbeats: *)
(* the application's 0 turns them off); and once connected the library     *)
(* keeps to what it has told the broker.  As long as there is a socket to  *)
(* send it to, the buffer has the length that it is taken to have: of the  *)
(* failures in amqp_tune_connection none leaves the socket open.           *)
(***************************************************************************)
TuningAgreed ==
    /\ sock.sockfd # None => BufferMatches
    /\ heard.about = "tune" =>
        LET c == heard.offer.client
            s == heard.offer.server
        IN  /\ heard.sent.channel_max = LowerOf(c.channel_max, s.channel_max, AllChannels)
            /\ heard.sent.frame_max = LowerOf(c.frame_max, s.frame_max, LargestFrame)
            /\ heard.sent.heartbeat =
                   IF c.heartbeat = 0 THEN 0 ELSE LowerOf(c.heartbeat, s.heartbeat, AllChannels)
            /\ pc = "connected" =>
                   /\ conn.channel_max = heard.sent.channel_max
                   /\ conn.heartbeat = heard.sent.heartbeat
                   /\ frame_max = heard.sent.frame_max

(***************************************************************************)
(* A TLS socket that verifies the host name opens only if the certificate  *)
(* names the host by the rules of RFC 6125; and it refuses such a          *)
(* certificate only because one of its names is malformed.                 *)
(***************************************************************************)
HostAsReference ==
    shown # NothingShown =>
        /\ pc = "open" /\ shown.verify_hostname =>
               shown.cert # NoCertificate /\ Named(shown.cert, shown.host)
        /\ status = HOSTNAME_VERIFY_FAILED =>
               \/ shown.cert = NoCertificate \/ Malformed(shown.cert)
               \/ ~ Named(shown.cert, shown.host)
=============================================================================
