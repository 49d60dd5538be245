---------------------------- MODULE OpensslInit -----------------------------
(***************************************************************************)
(* The process-wide state of the OpenSSL glue: whether the library and the *)
(* BIO method are set up, the array of locks OpenSSL calls back for, and   *)
(* the number of TLS sockets that keep them in use.  Threads create, open  *)
(* and delete the TLS socket of their own connection, and any thread may   *)
(* initialize or uninitialize the library.                                 *)
(*                                                                         *)
(* Each body that runs under openssl_init_mutex is one step; between the   *)
(* bodies the threads interleave.  The engine, the contexts and the TLS    *)
(* handshake leave this state alone and are left out.                      *)
(***************************************************************************)
EXTENDS Integers, FiniteSets

CONSTANT Thread

VARIABLES
    do_initialize_openssl, openssl_initialized, openssl_bio_initialized,
    openssl_connections,
    lockarray,      \* amqp_openssl_lockarray: "NULL", "allocated" or "dangling"
    has,            \* the threads whose connection has a TLS socket
    doing,          \* where each thread stands in amqp_ssl_socket_new or _delete
    misinit         \* history: a socket was refused for a failed initialization

flags == <<do_initialize_openssl, openssl_initialized, openssl_bio_initialized,
           lockarray>>

vars == <<flags, openssl_connections, has, doing, misinit>>

Init == /\ do_initialize_openssl = TRUE
        /\ openssl_initialized = FALSE
        /\ openssl_bio_initialized = FALSE
        /\ openssl_connections = 0
        /\ lockarray = "NULL"
        /\ has = {}
        /\ doing = [t \in Thread |-> "idle"]
        /\ misinit = FALSE

(***************************************************************************)
(* setup_openssl, with the three ways it may fail: no memory for the lock  *)
(* array, a lock that cannot be made (the array is freed, the pointer      *)
(* stays), and OpenSSL's own initialization (the array stays).             *)
(***************************************************************************)
SetupDone == openssl_initialized' = TRUE /\ lockarray' = "allocated"

SetupFails == /\ lockarray' \in {"NULL", "dangling", "allocated"}
              /\ UNCHANGED openssl_initialized

SetupNotNeeded == UNCHANGED <<openssl_initialized, lockarray>>

amqp_set_initialize_ssl_library(t, do_initialize) ==
    /\ doing[t] = "idle"
    /\ openssl_connections = 0 /\ ~openssl_initialized
    /\ do_initialize_openssl' = do_initialize
    /\ UNCHANGED <<openssl_initialized, openssl_bio_initialized, lockarray,
                   openssl_connections, has, doing, misinit>>

amqp_initialize_ssl_library(t) ==
    /\ doing[t] = "idle"
    /\ ~openssl_initialized
    /\ SetupDone \/ SetupFails
    /\ UNCHANGED <<do_initialize_openssl, openssl_bio_initialized,
                   openssl_connections, has, doing, misinit>>

-----------------------------------------------------------------------------
(* amqp_ssl_socket_new.                                                    *)

SetupWanted == do_initialize_openssl /\ ~openssl_initialized

(* A socket that is not counted. *)
SocketCountedNot(t) ==
    /\ doing[t] = "idle"
    /\ IF SetupWanted THEN SetupDone ELSE SetupNotNeeded
    /\ openssl_bio_initialized' = TRUE
    /\ doing' = [doing EXCEPT ![t] = "counted"]
    /\ UNCHANGED <<do_initialize_openssl, openssl_connections, has, misinit>>

(* The BIO method is only made along with the library. *)
SocketCountedNoBio(t) ==
    /\ doing[t] = "idle"
    /\ IF SetupWanted THEN SetupDone ELSE SetupNotNeeded
    /\ openssl_bio_initialized' = (openssl_bio_initialized \/ SetupWanted)
    /\ openssl_connections' = openssl_connections + 1
    /\ doing' = [doing EXCEPT ![t] = "counted"]
    /\ UNCHANGED <<do_initialize_openssl, has, misinit>>

(* Initialized, and the array given back at once. *)
SocketCountedArray(t) ==
    /\ doing[t] = "idle"
    /\ openssl_initialized' = (openssl_initialized \/ SetupWanted)
    /\ lockarray' = IF SetupWanted THEN "dangling" ELSE lockarray
    /\ openssl_bio_initialized' = TRUE
    /\ openssl_connections' = openssl_connections + 1
    /\ doing' = [doing EXCEPT ![t] = "counted"]
    /\ UNCHANGED <<do_initialize_openssl, has, misinit>>

(* initialize_ssl_and_increment_connections succeeds. *)
SocketCounted(t) ==
    /\ doing[t] = "idle"
    /\ IF SetupWanted THEN SetupDone ELSE SetupNotNeeded
    /\ openssl_bio_initialized' = TRUE
    /\ openssl_connections' = openssl_connections + 1
    /\ doing' = [doing EXCEPT ![t] = "counted"]
    /\ UNCHANGED <<do_initialize_openssl, has, misinit>>

(* It fails, in the setup or for want of memory for the BIO method. *)
SocketNotCounted(t) ==
    /\ doing[t] = "idle"
    /\ \/ SetupWanted /\ SetupFails
       \/ /\ ~openssl_bio_initialized
          /\ IF SetupWanted THEN SetupDone ELSE SetupNotNeeded
    /\ doing' = [doing EXCEPT ![t] = "refused"]
    /\ misinit' = TRUE
    /\ UNCHANGED <<do_initialize_openssl, openssl_bio_initialized,
                   openssl_connections, has>>

(* The context is there; amqp_set_socket deletes the socket the connection had. *)
SocketMade(t) ==
    /\ doing[t] = "counted"
    /\ has' = has \cup {t}
    /\ doing' = [doing EXCEPT ![t] = IF t \in has THEN "deleted" ELSE "idle"]
    /\ UNCHANGED <<flags, openssl_connections, misinit>>

NoContext(t) ==
    /\ doing[t] = "counted"
    /\ doing' = [doing EXCEPT ![t] = "deleted"]
    /\ UNCHANGED <<flags, openssl_connections, has, misinit>>

(* amqp_ssl_socket_delete closes and frees the socket, then counts it out. *)
SocketDeleted(t) ==
    /\ doing[t] = "idle"
    /\ t \in has
    /\ has' = has \ {t}
    /\ doing' = [doing EXCEPT ![t] = "deleted"]
    /\ UNCHANGED <<flags, openssl_connections, misinit>>

(* Not counted down. *)
decrement_ssl_connectionsNot(t) ==
    /\ doing[t] \in {"deleted", "refused"}
    /\ doing' = [doing EXCEPT ![t] = "idle"]
    /\ UNCHANGED <<flags, openssl_connections, has, misinit>>

(* amqp_ssl_socket_new goes the same way when its socket was never counted. *)
decrement_ssl_connections(t) ==
    /\ doing[t] \in {"deleted", "refused"}
    /\ openssl_connections' = IF openssl_connections > 0 THEN openssl_connections - 1
                                                         ELSE 0
    /\ doing' = [doing EXCEPT ![t] = "idle"]
    /\ UNCHANGED <<flags, has, misinit>>

-----------------------------------------------------------------------------
(***************************************************************************)
(* SOCKET_INUSE leaves everything alone and is not a step.  The array is   *)
(* freed, the pointer to it is not reset.                                  *)
(***************************************************************************)
amqp_uninitialize_ssl_library(t) ==
    /\ doing[t] = "idle"
    /\ openssl_connections = 0
    /\ openssl_bio_initialized' = FALSE
    /\ openssl_initialized' = FALSE
    /\ lockarray' = "dangling"
    /\ UNCHANGED <<do_initialize_openssl, openssl_connections, has, doing, misinit>>

Next == \E t \in Thread :
          \/ \E b \in BOOLEAN : amqp_set_initialize_ssl_library(t, b)
          \/ amqp_initialize_ssl_library(t)
          \/ SocketCounted(t) \/ SocketNotCounted(t)
          \/ SocketMade(t) \/ NoContext(t)
          \/ SocketDeleted(t) \/ decrement_ssl_connections(t)
          \/ amqp_uninitialize_ssl_library(t)

Spec == Init /\ [][Next]_vars

-----------------------------------------------------------------------------
(* What the counter stands for: sockets, and sockets being made or deleted. *)
Counted == { <<t, "socket">> : t \in has }
           \cup { <<t, "call">> : t \in { u \in Thread : doing[u] \in {"counted", "deleted"} } }

(***************************************************************************)
(* The counter is exact at every moment, also between the two halves of    *)
(* amqp_ssl_socket_new and _delete, as long as no initialization has       *)
(* failed; afterwards it may be too low, but never too high: when every    *)
(* socket is gone, the library can be uninitialized.                       *)
(***************************************************************************)
CountExact == /\ openssl_connections <= Cardinality(Counted)
              /\ ~misinit => openssl_connections = Cardinality(Counted)

(***************************************************************************)
(* Whatever other threads initialize and uninitialize, the BIO method is   *)
(* there for a socket to open with, as long as no initialization failed.   *)
(***************************************************************************)
BioKept == ~misinit => (has # {} => openssl_bio_initialized)

(***************************************************************************)
(* OpenSSL's callbacks find the locks: the library does not count as       *)
(* initialized without an allocated array.                                 *)
(***************************************************************************)
LocksThere == openssl_initialized => lockarray = "allocated"
=============================================================================
