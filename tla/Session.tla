------------------------------- MODULE Session ------------------------------
(***************************************************************************)
(* The life of a connection: a socket is opened and amqp_login agrees with *)
(* the broker on how to talk (Handshake), frames are exchanged (Exchange), *)
(* and amqp_destroy_connection ends it.  Here are the contents of the      *)
(* handshake's messages, and what the library makes of them.               *)
(*                                                                         *)
(* The memory of client_properties is recycled once start-ok is sent; here *)
(* they keep the value they were given.                                    *)
(*                                                                         *)
(* What the broker and the application put into the handshake is chosen    *)
(* where the library first looks at it.                                    *)
(***************************************************************************)
EXTENDS Handshake, Exchange

CONSTANTS
    DefaultProperties,  \* what the library says of itself
    \* each a set and the usual one of it:
    Tables,             \* what the broker and the application say of themselves
    Credentials,        \* a SASL method with what it sends, and those of the broker
    VirtualHosts

VARIABLES
    properties, \* server_properties and client_properties of the connection
    told        \* ghost: the tables of both sides, and how far the library came with them

dataVars == <<exchangeVars, properties, told>>

sessionVars == <<handshakeVars, dataVars>>

NoProperties == [server |-> <<>>, client |-> <<>>]
NothingTold == [about |-> "nothing"]

Init ==
    /\ HandshakeInit
    /\ ExchangeInit
    /\ properties = NoProperties
    /\ told = NothingTold

-----------------------------------------------------------------------------
sasl_mechanism_in_list(mechanisms, method) == method \in ToSet(mechanisms)

(***************************************************************************)
(* sasl_response: NUL, the user, NUL and the password for PLAIN, which is  *)
(* in no case empty, or the identity for EXTERNAL.  The pool has no block  *)
(* of no bytes: an empty identity is answered as a lack of memory.         *)
(***************************************************************************)
sasl_response(c) ==
    IF c.method = "PLAIN" THEN <<0>> \o c.user \o <<0>> \o c.password ELSE c.identity

\* a frame of the handshake, encoded into outbound_buffer of this length
LoginFrame(name, m, length) ==
    amqp_frame_to_bytes([frame_type |-> AMQP_FRAME_METHOD, channel |-> 0,
                         id |-> MethodId[name], decoded |-> m], length)

\* connection.start, and all that happens until connection.start-ok is encoded
TakeStart(version, theirs, ours, c) ==
    LET clone == amqp_table_clone(theirs)
        copied == version /\ clone.status = OK
        willing == copied /\ sasl_mechanism_in_list(c.mechanisms, c.method)
        answered == willing /\ sasl_response(c) # <<>>
        merge == amqp_merge_capabilities(DefaultProperties, ours)
        merged == answered /\ merge.status = OK
        frame == LoginFrame("CONNECTION_START_OK",
                            [client_properties |-> merge.table, mechanism |-> <<80>>,
                             response |-> sasl_response(c), locale |-> <<101, 110>>], frame_max)
    IN  /\ StartTaken(IF ~ version THEN INCOMPATIBLE_VERSION
                      ELSE IF ~ copied THEN clone.status
                      ELSE IF ~ willing THEN SASL_UNSUPPORTED
                      ELSE IF ~ answered THEN NO_MEMORY
                      ELSE IF ~ merged THEN merge.status ELSE frame.status)
        /\ told' = [about |-> "start", theirs |-> theirs, ours |-> ours, copied |-> copied,
                    merged |-> merged]
        /\ properties' = [server |-> IF copied THEN clone.table ELSE properties.server,
                          client |-> IF merged THEN merge.table ELSE properties.client]
        /\ UNCHANGED exchangeVars

\* connection.tune, until connection.tune-ok is encoded
TakeTune(offer, clock, memory) ==
    /\ TuneTaken(offer, clock, memory,
                 LoginFrame("CONNECTION_TUNE_OK", Tuned(offer), TunedLength(offer, clock)).status)
    /\ told' = NothingTold
    /\ UNCHANGED <<exchangeVars, properties>>

MakeOpen(vhost) ==
    /\ OpenMade(LoginFrame("CONNECTION_OPEN",
                           [virtual_host |-> vhost, capabilities |-> <<>>, insist |-> TRUE],
                           frame_max).status)
    /\ UNCHANGED dataVars

-----------------------------------------------------------------------------
(***************************************************************************)
(* The connection in use.  Of the states that differ only in what the      *)
(* exchange does not look at, one goes on; and the limits are chosen when  *)
(* the tables are the usual ones.  (Bounds.)                               *)
(***************************************************************************)
PlainTables ==
    properties.server = <<>> /\ properties.client = DefaultProperties

SomeOffers == IF PlainTables THEN Some(Offers) ELSE {Offers.usual}

InUse ==
    /\ pc = "connected" /\ PlainTables /\ sock.kind = "tcp" /\ now = Start /\ limit = Forever
    /\ opens = 1 /\ conn.heartbeat = 0 /\ conn.channel_max = AllChannels

\* amqp_destroy_connection, between two calls
Destroyed ==
    /\ pc = "connected" => Quiet
    /\ Destroy
    /\ properties' = NoProperties /\ told' = NothingTold
    /\ UNCHANGED exchangeVars

\* an application that stops where it is
Stop == pc \in {"parsed", "destroyed"} /\ UNCHANGED sessionVars

LoginNext ==
    \/ LoginStep /\ UNCHANGED dataVars
    \/ Arrives /\ \E version \in BOOLEAN, t \in Some(Tables), c \in Some(Credentials) :
           TakeStart(version, t.theirs, t.ours, c)
    \/ Arrives /\ \E offer \in SomeOffers, clock \in Clock, memory \in BOOLEAN :
           TakeTune(offer, clock, memory)
    \/ \E vhost \in Some(VirtualHosts) : MakeOpen(vhost)

Opens == OpeningStep /\ UNCHANGED dataVars
Passes == TimePasses /\ UNCHANGED dataVars
Polls == PollsAgain /\ UNCHANGED dataVars
Exchanges ==
    InUse /\ ExchangeNext /\ UNCHANGED <<openingVars, conn, step, timer, heard, properties, told>>

Next == Opens \/ Passes \/ Polls \/ LoginNext \/ Exchanges \/ Destroyed \/ Stop

-----------------------------------------------------------------------------
InCall == Opening \/ pc \in {"send", "blocked", "read", "expect", "await", "make"}

\* no one needs to act for the library to go on: nothing is waited for any more
Due == Sleeping => TIMEOUT \in Polled

(***************************************************************************)
(* Time passes, and a call that need not wait goes on, if only to fail.    *)
(* The second part is weak fairness of GoesOn, which can be taken whenever *)
(* InCall /\ Due holds.  Nothing is assumed of the broker, the addresses   *)
(* of the resolver or the application.                                     *)
(***************************************************************************)
GoesOn == pc' # pc \/ todo' # todo

Spec ==
    /\ Init /\ [][Next]_sessionVars
    /\ WF_sessionVars(Passes)
    /\ <>[](InCall /\ Due) => []<><<GoesOn>>_sessionVars

-----------------------------------------------------------------------------
(***************************************************************************)
(* Seen without its bytes a session is a handshake and a conversation: no  *)
(* field of a message and no error of a codec takes either where it does   *)
(* not go by itself, and a connection in use keeps its limits.             *)
(***************************************************************************)
ControlSpec == HandshakeSpec /\ ConversationSpec

(***************************************************************************)
(* A call with such a deadline returns, even if neither the broker nor the *)
(* network ever answers, unless it ends up in a poll that is given no end  *)
(* at all: in the read of a send that has no room (amqp_socket.c:763), or  *)
(* in sending connection.open (1049) or a heartbeat (805) when the broker  *)
(* owes none itself.  (A poll that ends beyond MaxNow, the bound of the    *)
(* clock, counts as one without end.)                                      *)
(***************************************************************************)
Endless == Unbounded /\ Sleeping /\ ~ (Ends /\ WakesAt <= MaxNow)

CallReturns == (InCall /\ InRange(now) /\ limit <= MaxNow) ~> (~ InCall \/ Endless)

-----------------------------------------------------------------------------
(***************************************************************************)
(* The tables of a login.  The entries of a table and of the tables in it, *)
(* each with the keys that lead to it and its value, as a text.            *)
(***************************************************************************)
RECURSIVE Entries(_, _)

Entries(table, path) ==
    UNION {LET e == table[i]
               here == Append(path, e.key)
           IN  IF e.value.kind = "TABLE"
               THEN {[path |-> here, value |-> "TABLE"]} \cup Entries(e.value.value, here)
               ELSE {[path |-> here, value |-> ToString(e.value)]} :
           i \in DOMAIN table}

\* an entry of the base that an entry of the other table replaces
Replaced(e, others) ==
    \E o \in others : /\ IsPrefix(o.path, e.path)
                      /\ o.value # "TABLE" \/ (o.path = e.path /\ e.value # "TABLE")

(***************************************************************************)
(* The client properties are the default ones with those of the            *)
(* application put over them, tables merged key by key; the server         *)
(* properties are those the broker sent.                                   *)
(***************************************************************************)
PropertiesKept ==
    told.about = "start" =>
        LET base == Entries(DefaultProperties, <<>>)
            ours == Entries(told.ours, <<>>)
        IN  /\ told.copied => properties.server = told.theirs
            /\ told.merged => Entries(properties.client, <<>>)
                                  = ours \cup {e \in base : ~ Replaced(e, ours)}
=============================================================================
