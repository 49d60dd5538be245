---------------------------- MODULE SessionProofs ---------------------------
(***************************************************************************)
(* What a session rests on.  The arithmetic of its calls, for a clock and  *)
(* an int of any width: deadlines neither wrap nor come early, a sleep     *)
(* does not outlast its deadline, and both sides agree on one limit.  The  *)
(* OpenSSL state its sockets share, for any number of threads: what is     *)
(* counted, the BIO method and the locks.  From both the control of a      *)
(* session: its descriptors, its deadlines and its limits, however it is   *)
(* opened and its login ends.  What host names a certificate stands for,   *)
(* and so which sockets over TLS are open.  What URLs are read as.  At the *)
(* end the frames a call sends: a message that is published arrives whole, *)
(* and a call that waits for an answer gets one.                           *)
(***************************************************************************)
EXTENDS OpensslInit, Handshake, Conversation, SequenceTheorems, FiniteSetTheorems, WellFoundedInduction, TLAPS

LEMMA ModSmall == ASSUME NEW m \in Nat, NEW n \in Nat, n < m PROVE n % m = n
  BY SMT

LEMMA ModOnce ==
    ASSUME NEW m \in Nat, NEW n \in Nat, m <= n, n < 2 * m PROVE n % m = n - m
  BY SMT

LEMMA Quotient ==
    ASSUME NEW m \in Nat \ {0}, NEW n \in Nat
    PROVE  /\ n \div m \in Nat
           /\ (n \div m) * m <= n
           /\ n < ((n \div m) + 1) * m
  BY SMT

\* an int holds the numbers up to INT_MAX unchanged
LEMMA IntKeeps == ASSUME NEW n \in Nat, n <= INT_MAX PROVE Int32(n) = n
  <1>1. 2 * (INT_MAX + 1) \in Nat /\ n < 2 * (INT_MAX + 1)
    BY UnitAssumption, SMT
  <1>2. n % (2 * (INT_MAX + 1)) = n
    BY <1>1, ModSmall
  <1> QED  BY <1>2 DEF Int32

-----------------------------------------------------------------------------
(***************************************************************************)
(* PointAfter: the test that the clock and the delta have not passed the   *)
(* sum finds every overflow, and no other sum.                             *)
(***************************************************************************)
LEMMA SumExact ==
    ASSUME NEW clock \in Nat, 0 < clock, clock <= UINT64_MAX,
           NEW delta \in Nat, delta <= UINT64_MAX
    PROVE  PointAfter(clock, delta) =
               IF clock + delta <= UINT64_MAX
               THEN [status |-> TIME_OK, time |-> clock + delta]
               ELSE [status |-> TIME_INVALID, time |-> (clock + delta) - (UINT64_MAX + 1)]
  <1> DEFINE m == UINT64_MAX + 1
             n == clock + delta
  <1>1. m \in Nat /\ n \in Nat
    BY UnitAssumption, SMT
  <1>2. CASE n <= UINT64_MAX
    <2>1. n < m
      BY <1>1, <1>2, UnitAssumption, SMT
    <2>2. n % m = n
      BY <1>1, <2>1, ModSmall
    <2>3. ~ (clock > n \/ delta > n)
      BY SMT
    <2> QED  BY <1>2, <2>2, <2>3 DEF PointAfter, Wrapped
  <1>3. CASE ~ (n <= UINT64_MAX)
    <2>1. m <= n /\ n < 2 * m
      BY <1>3, UnitAssumption, SMT
    <2>2. n % m = n - m
      BY <1>1, <2>1, ModOnce
    <2>3. clock > n - m /\ clock # 0
      BY UnitAssumption, SMT
    <2>4. Wrapped(clock + delta) = (clock + delta) - (UINT64_MAX + 1)
      BY <2>2 DEF Wrapped
    <2>5. clock > (clock + delta) - (UINT64_MAX + 1) /\ clock # 0
      BY <2>3
    <2>6. ~ (clock + delta <= UINT64_MAX)
      BY <1>3
    <2>7. PointAfter(clock, delta) =
              [status |-> TIME_INVALID, time |-> (clock + delta) - (UINT64_MAX + 1)]
      BY <2>4, <2>5 DEF PointAfter
    <2> HIDE DEF m, n
    <2> QED  BY <2>6, <2>7, Zenon
  <1> QED  BY <1>2, <1>3

(***************************************************************************)
(* amqp_time_from_now (amqp_time.c:104): as long as the timeout itself     *)
(* fits 64 bits, the deadline is the moment the caller means, or the call  *)
(* fails because that moment cannot be named.  A deadline is never wrapped *)
(* around to an earlier one.                                               *)
(***************************************************************************)
THEOREM DeadlineExact ==
    ASSUME NEW clock \in Nat, 0 < clock, clock <= UINT64_MAX,
           NEW sec \in Nat, NEW usec \in Nat,
           Asked(Timeval(sec, usec)) <= UINT64_MAX
    PROVE  LET moment == clock + Asked(Timeval(sec, usec))
               deadline == amqp_time_from_now(clock, Timeval(sec, usec))
           IN  IF moment <= UINT64_MAX
               THEN deadline = [status |-> TIME_OK, time |-> moment]
               ELSE deadline.status = TIME_INVALID
  <1> DEFINE asked == Asked(Timeval(sec, usec))
  <1>1. asked \in Nat
    <2>1. asked = sec * NS_PER_S + usec * NS_PER_US
      BY DEF Asked, Timeval
    <2> QED  BY <2>1, UnitAssumption, SMT
  <1>2. Wrapped(asked) = asked
    <2>1. UINT64_MAX + 1 \in Nat /\ asked < UINT64_MAX + 1
      BY <1>1, UnitAssumption, SMT
    <2> QED  BY <1>1, <2>1, ModSmall DEF Wrapped
  <1>3. amqp_time_from_now(clock, Timeval(sec, usec)) = PointAfter(clock, asked)
    <2>1. Timeval(sec, usec).given /\ Timeval(sec, usec).tv_sec = sec
          /\ Timeval(sec, usec).tv_usec = usec
      BY DEF Timeval
    <2>2. ~ (sec < 0 \/ usec < 0)
      BY SMT
    <2> QED  BY <1>2, <2>1, <2>2 DEF amqp_time_from_now
  <1> HIDE DEF asked
  <1> QED  BY <1>1, <1>3, SumExact DEF asked

(***************************************************************************)
(* amqp_time_ms_until (amqp_time.c:165): poll sleeps the whole             *)
(* milliseconds up to the deadline: not beyond it, and less than one       *)
(* millisecond short of it.  Their number must fit an int.                 *)
(***************************************************************************)
THEOREM SleepWithinDeadline ==
    ASSUME NEW clock \in Nat, 0 < clock,
           NEW time \in Nat, clock <= time, time < UINT64_MAX,
           (time - clock) \div NS_PER_MS <= INT_MAX
    PROVE  LET sleep == amqp_time_ms_until(time, clock)
           IN  /\ sleep.status = TIME_OK
               /\ sleep.ms \in Nat
               /\ clock + sleep.ms * NS_PER_MS <= time
               /\ time < clock + (sleep.ms + 1) * NS_PER_MS
  <1> DEFINE left == time - clock
             ms == left \div NS_PER_MS
  <1>1. left \in Nat /\ NS_PER_MS \in Nat \ {0}
    BY UnitAssumption, SMT
  <1>2. ms \in Nat /\ ms * NS_PER_MS <= left /\ left < (ms + 1) * NS_PER_MS
    BY <1>1, Quotient
  <1>3. Int32(ms) = ms
    BY <1>2, IntKeeps
  <1>4. time # 0 /\ time # UINT64_MAX /\ clock # 0
    BY UnitAssumption, SMT
  <1>5. amqp_time_ms_until(time, clock) =
            [status |-> TIME_OK, ms |-> IF clock >= time THEN 0 ELSE ms]
    BY <1>3, <1>4 DEF amqp_time_ms_until
  <1>6. clock >= time => ms = 0
    <2>1. clock >= time => left = 0
      BY SMT
    <2>2. 0 \div NS_PER_MS = 0
      BY <1>1, SMT
    <2> QED  BY <2>1, <2>2
  <1>7. amqp_time_ms_until(time, clock) = [status |-> TIME_OK, ms |-> ms]
    BY <1>5, <1>6
  <1>8. clock + ms * NS_PER_MS <= time /\ time < clock + (ms + 1) * NS_PER_MS
    <2> HIDE DEF ms
    <2> QED  BY <1>1, <1>2, SMT
  <1> QED  BY <1>2, <1>7, <1>8

-----------------------------------------------------------------------------
LEMMA AllChannelsNat == AllChannels \in Nat
  BY DEF AllChannels

(***************************************************************************)
(* amqp_login_inner (amqp_socket.c:1399): the number of channels is the    *)
(* lower of the two offers, 0 being no limit, for the application as for   *)
(* the broker.                                                             *)
(***************************************************************************)
THEOREM ChannelMaxAgreed ==
    ASSUME NEW client \in 0..AllChannels, NEW server \in 0..AllChannels
    PROVE  TunedChannelMax(client, server) = LowerOf(client, server, AllChannels)
  <1>1. AllChannels \in Nat
    BY AllChannelsNat
  <1>2. CASE client = 0
    BY <1>1, <1>2, SMT DEF TunedChannelMax, LowerOf, Bound
  <1>3. CASE client # 0
    BY <1>1, <1>3, SMT DEF TunedChannelMax, LowerOf, Bound
  <1> QED  BY <1>2, <1>3

(***************************************************************************)
(* amqp_login_inner (amqp_socket.c:1405): the size of frames is the lower  *)
(* of the two offers, 0 of the broker being no limit; the application has  *)
(* no such value.                                                          *)
(***************************************************************************)
THEOREM FrameMaxAgreed ==
    ASSUME NEW all \in Nat, NEW client \in 1..all, NEW server \in 0..all
    PROVE  TunedFrameMax(client, server) = LowerOf(client, server, all)
  BY SMT DEF TunedFrameMax, LowerOf, Bound

-----------------------------------------------------------------------------
(***************************************************************************)
(* The inductive invariant of OpensslInit.  Counted is finite, because     *)
(* threads come and go one at a time; a thread is only refused where an    *)
(* initialization failed; and the BIO method is there for everything that  *)
(* is counted, also for a socket that is still being made or deleted.      *)
(***************************************************************************)
Standing == {"idle", "counted", "deleted", "refused"}

SharedType ==
    /\ openssl_connections \in Nat
    /\ has \subseteq Thread
    /\ doing \in [Thread -> Standing]
    /\ IsFiniteSet(Counted)

RefusedForFailure == \A t \in Thread : doing[t] = "refused" => misinit

BioForCounted == ~ misinit => (Counted # {} => openssl_bio_initialized)

SharedInv == SharedType /\ RefusedForFailure /\ CountExact /\ BioForCounted /\ LocksThere

LEMMA InCounted ==
    ASSUME NEW t \in Thread
    PROVE  /\ <<t, "socket">> \in Counted <=> t \in has
           /\ <<t, "call">> \in Counted <=> doing[t] \in {"counted", "deleted"}
  BY DEF Counted

(* A step of one thread changes its own entries at most. *)
LEMMA CountedAfter ==
    ASSUME SharedType, NEW t \in Thread, NEW v \in Standing,
           doing' = [doing EXCEPT ![t] = v],
           has' \in {has, has \cup {t}, has \ {t}}
    PROVE  Counted' = (Counted \ {<<t, "socket">>, <<t, "call">>})
                      \cup (IF t \in has' THEN {<<t, "socket">>} ELSE {})
                      \cup (IF v \in {"counted", "deleted"} THEN {<<t, "call">>} ELSE {})
  <1>1. \A u \in Thread : doing'[u] = IF u = t THEN v ELSE doing[u]
    BY DEF SharedType
  <1>2. /\ has \subseteq Thread /\ has' \subseteq Thread
        /\ \A u \in Thread \ {t} : u \in has' <=> u \in has
    BY DEF SharedType
  <1>3. Counted = {<<u, "socket">> : u \in has}
                  \cup {<<u, "call">> : u \in {w \in Thread : doing[w] \in {"counted", "deleted"}}}
    BY DEF Counted
  <1>4. Counted' = {<<u, "socket">> : u \in has'}
                  \cup {<<u, "call">> : u \in {w \in Thread : doing'[w] \in {"counted", "deleted"}}}
    BY DEF Counted
  <1> HIDE DEF Counted
  <1>5. ASSUME NEW x
        PROVE  x \in Counted' <=>
                   \/ x \in Counted /\ x # <<t, "socket">> /\ x # <<t, "call">>
                   \/ t \in has' /\ x = <<t, "socket">>
                   \/ v \in {"counted", "deleted"} /\ x = <<t, "call">>
    <2>1. x \in Counted' <=> \/ \E u \in Thread : u \in has' /\ x = <<u, "socket">>
                             \/ \E u \in Thread : doing'[u] \in {"counted", "deleted"} /\ x = <<u, "call">>
      BY <1>2, <1>4
    <2>2. x \in Counted <=> \/ \E u \in Thread : u \in has /\ x = <<u, "socket">>
                            \/ \E u \in Thread : doing[u] \in {"counted", "deleted"} /\ x = <<u, "call">>
      BY <1>2, <1>3
    <2> QED  BY <1>1, <1>2, <2>1, <2>2
  <1> QED  BY <1>5

(* What a step does to the number of entries. *)
LEMMA CountedGrows ==
    ASSUME SharedType, NEW t \in Thread, doing[t] \in {"idle", "refused"}, has' = has,
           doing' = [doing EXCEPT ![t] = "counted"]
    PROVE  /\ IsFiniteSet(Counted')
           /\ Cardinality(Counted') = Cardinality(Counted) + 1
  <1>1. <<t, "call">> \notin Counted /\ (<<t, "socket">> \in Counted <=> t \in has)
    BY InCounted
  <1>2. Counted' = (Counted \ {<<t, "socket">>, <<t, "call">>})
                      \cup (IF t \in has' THEN {<<t, "socket">>} ELSE {})
                      \cup (IF "counted" \in {"counted", "deleted"} THEN {<<t, "call">>} ELSE {})
    BY CountedAfter DEF Standing
  <1>3. Counted' = Counted \cup {<<t, "call">>}
    BY <1>1, <1>2
  <1> HIDE DEF Counted
  <1> QED  BY <1>1, <1>3, FS_AddElement DEF SharedType

LEMMA CountedKept ==
    ASSUME SharedType, NEW t \in Thread, NEW v \in {"idle", "refused"},
           doing[t] \in {"idle", "refused"}, has' = has, doing' = [doing EXCEPT ![t] = v]
    PROVE  Counted' = Counted
  <1>1. <<t, "call">> \notin Counted /\ (<<t, "socket">> \in Counted <=> t \in has)
    BY InCounted
  <1>2. Counted' = (Counted \ {<<t, "socket">>, <<t, "call">>})
                      \cup (IF t \in has' THEN {<<t, "socket">>} ELSE {})
                      \cup (IF v \in {"counted", "deleted"} THEN {<<t, "call">>} ELSE {})
    BY CountedAfter DEF Standing
  <1> QED  BY <1>1, <1>2

LEMMA CountedMoves ==
    ASSUME SharedType, NEW t \in Thread,
           SocketMade(t) \/ NoContext(t) \/ SocketDeleted(t)
    PROVE  /\ IsFiniteSet(Counted')
           /\ Cardinality(Counted') = Cardinality(Counted)
           /\ Counted # {}
  <1> DEFINE s == <<t, "socket">>
             c == <<t, "call">>
  <1>1. (s \in Counted <=> t \in has) /\ (c \in Counted <=> doing[t] \in {"counted", "deleted"})
    BY InCounted
  <1>2. s # c
    OBVIOUS
  <1>3. IsFiniteSet(Counted)
    BY DEF SharedType
  <1>4. CASE SocketMade(t) /\ t \notin has
    <2>1. Counted' = (Counted \ {c}) \cup {s}
      BY CountedAfter, <1>1, <1>2, <1>4 DEF SocketMade, Standing
    <2>2. c \in Counted /\ s \notin Counted \ {c}
      BY <1>1, <1>4 DEF SocketMade
    <2>3. IsFiniteSet(Counted \ {c}) /\ Cardinality(Counted \ {c}) = Cardinality(Counted) - 1
      BY <1>3, <2>2, FS_RemoveElement
    <2>4. /\ IsFiniteSet((Counted \ {c}) \cup {s})
          /\ Cardinality((Counted \ {c}) \cup {s}) = Cardinality(Counted \ {c}) + 1
      BY <2>2, <2>3, FS_AddElement
    <2>5. Cardinality(Counted) \in Nat
      BY <1>3, FS_CardinalityType
    <2> QED  BY <2>1, <2>2, <2>3, <2>4, <2>5
  <1>5. CASE (SocketMade(t) /\ t \in has) \/ NoContext(t)
    <2>1. c \in Counted
      BY <1>1, <1>5 DEF SocketMade, NoContext
    <2>2. Counted' = Counted
      BY CountedAfter, <1>1, <1>5, <2>1 DEF SocketMade, NoContext, Standing
    <2> QED  BY <1>3, <2>1, <2>2
  <1>6. CASE SocketDeleted(t)
    <2>1. Counted' = (Counted \ {s}) \cup {c}
      BY CountedAfter, <1>1, <1>2, <1>6 DEF SocketDeleted, Standing
    <2>2. s \in Counted /\ c \notin Counted \ {s}
      BY <1>1, <1>6 DEF SocketDeleted
    <2>3. IsFiniteSet(Counted \ {s}) /\ Cardinality(Counted \ {s}) = Cardinality(Counted) - 1
      BY <1>3, <2>2, FS_RemoveElement
    <2>4. /\ IsFiniteSet((Counted \ {s}) \cup {c})
          /\ Cardinality((Counted \ {s}) \cup {c}) = Cardinality(Counted \ {s}) + 1
      BY <2>2, <2>3, FS_AddElement
    <2>5. Cardinality(Counted) \in Nat
      BY <1>3, FS_CardinalityType
    <2> QED  BY <2>1, <2>2, <2>3, <2>4, <2>5
  <1> QED  BY <1>4, <1>5, <1>6

LEMMA CountedLeaves ==
    ASSUME SharedType, NEW t \in Thread, doing[t] = "deleted", has' = has,
           doing' = [doing EXCEPT ![t] = "idle"]
    PROVE  /\ IsFiniteSet(Counted')
           /\ Cardinality(Counted') = Cardinality(Counted) - 1
           /\ Counted # {}
  <1>1. <<t, "call">> \in Counted /\ (<<t, "socket">> \in Counted <=> t \in has)
    BY InCounted
  <1>2. Counted' = (Counted \ {<<t, "socket">>, <<t, "call">>})
                      \cup (IF t \in has' THEN {<<t, "socket">>} ELSE {})
                      \cup (IF "idle" \in {"counted", "deleted"} THEN {<<t, "call">>} ELSE {})
    BY CountedAfter DEF Standing
  <1>3. Counted' = Counted \ {<<t, "call">>}
    BY <1>1, <1>2
  <1> QED  BY <1>1, <1>3, FS_RemoveElement DEF SharedType

(* The count and its bound after a step that leaves misinit alone. *)
LEMMA CountFacts ==
    ASSUME SharedInv
    PROVE  /\ openssl_connections \in Nat /\ IsFiniteSet(Counted)
           /\ Cardinality(Counted) \in Nat
           /\ Cardinality(Counted) = 0 <=> Counted = {}
           /\ openssl_connections <= Cardinality(Counted)
           /\ ~ misinit => openssl_connections = Cardinality(Counted)
  BY FS_CardinalityType, FS_EmptySet DEF SharedInv, SharedType, CountExact

LEMMA SharedInit == Init => SharedInv
  <1> SUFFICES ASSUME Init PROVE SharedInv
    OBVIOUS
  <1>1. Counted = {}
    BY DEF Init, Counted
  <1>2. IsFiniteSet(Counted) /\ Cardinality(Counted) = 0
    BY <1>1, FS_EmptySet
  <1> QED
    BY <1>1, <1>2 DEF Init, SharedInv, SharedType, Standing, RefusedForFailure, CountExact,
                      BioForCounted, LocksThere

(* The steps that leave the threads where they are. *)
LEMMA LibraryStep ==
    ASSUME SharedInv, NEW t \in Thread,
           \/ \E b \in BOOLEAN : amqp_set_initialize_ssl_library(t, b)
           \/ amqp_initialize_ssl_library(t)
           \/ amqp_uninitialize_ssl_library(t)
    PROVE  SharedInv'
  <1>1. UNCHANGED <<openssl_connections, has, doing, misinit>>
    BY DEF amqp_set_initialize_ssl_library, amqp_initialize_ssl_library,
           amqp_uninitialize_ssl_library
  <1>2. Counted' = Counted
    BY <1>1 DEF Counted
  <1>3. SharedType' /\ RefusedForFailure' /\ CountExact'
    BY <1>1, <1>2 DEF SharedInv, SharedType, RefusedForFailure, CountExact
  <1>4. LocksThere'
    BY DEF SharedInv, LocksThere, amqp_set_initialize_ssl_library, SetupDone, SetupFails,
           amqp_initialize_ssl_library, amqp_uninitialize_ssl_library
  <1>5. BioForCounted'
    <2>1. CASE amqp_uninitialize_ssl_library(t)
      <3>1. openssl_connections = 0
        BY <2>1 DEF amqp_uninitialize_ssl_library
      <3>2. ~ misinit => Counted = {}
        BY <3>1, CountFacts
      <3> QED  BY <1>1, <1>2, <3>2 DEF BioForCounted
    <2>2. CASE UNCHANGED openssl_bio_initialized
      BY <1>1, <1>2, <2>2 DEF SharedInv, BioForCounted
    <2> QED
      BY <2>1, <2>2 DEF amqp_set_initialize_ssl_library, amqp_initialize_ssl_library
  <1> QED  BY <1>3, <1>4, <1>5 DEF SharedInv

(* amqp_ssl_socket_new. *)
LEMMA SocketCountedStep ==
    ASSUME SharedInv, NEW t \in Thread, SocketCounted(t)
    PROVE  SharedInv'
  <1>1. /\ doing[t] = "idle" /\ has' = has /\ misinit' = misinit
        /\ doing' = [doing EXCEPT ![t] = "counted"]
        /\ openssl_connections' = openssl_connections + 1
        /\ openssl_bio_initialized' = TRUE
    BY DEF SocketCounted
  <1>2. IsFiniteSet(Counted') /\ Cardinality(Counted') = Cardinality(Counted) + 1
    BY <1>1, CountedGrows DEF SharedInv
  <1>3. SharedType' /\ RefusedForFailure'
    BY <1>1, <1>2 DEF SharedInv, SharedType, Standing, RefusedForFailure
  <1>4. CountExact'
    BY <1>1, <1>2, CountFacts DEF CountExact
  <1>5. BioForCounted'
    BY <1>1 DEF BioForCounted
  <1>6. LocksThere'
    BY DEF SharedInv, LocksThere, SocketCounted, SetupDone, SetupNotNeeded
  <1> QED  BY <1>3, <1>4, <1>5, <1>6 DEF SharedInv

LEMMA SocketNotCountedStep ==
    ASSUME SharedInv, NEW t \in Thread, SocketNotCounted(t)
    PROVE  SharedInv'
  <1>1. /\ doing[t] = "idle" /\ has' = has /\ misinit' = TRUE
        /\ doing' = [doing EXCEPT ![t] = "refused"]
        /\ openssl_connections' = openssl_connections
    BY DEF SocketNotCounted
  <1>2. Counted' = Counted
    BY <1>1, CountedKept DEF SharedInv
  <1>3. SharedType' /\ RefusedForFailure' /\ BioForCounted'
    BY <1>1, <1>2 DEF SharedInv, SharedType, Standing, RefusedForFailure, BioForCounted
  <1>4. CountExact'
    BY <1>1, <1>2 DEF SharedInv, CountExact
  <1>5. LocksThere'
    BY DEF SharedInv, LocksThere, SocketNotCounted, SetupWanted, SetupFails, SetupDone,
           SetupNotNeeded
  <1> QED  BY <1>3, <1>4, <1>5 DEF SharedInv

LEMMA SocketMovesStep ==
    ASSUME SharedInv, NEW t \in Thread,
           SocketMade(t) \/ NoContext(t) \/ SocketDeleted(t)
    PROVE  SharedInv'
  <1>1. /\ UNCHANGED <<flags, openssl_connections, misinit>>
        /\ has' \subseteq Thread
        /\ \E v \in {"idle", "deleted"} : doing' = [doing EXCEPT ![t] = v]
    BY DEF SharedInv, SharedType, SocketMade, NoContext, SocketDeleted
  <1>2. /\ IsFiniteSet(Counted') /\ Cardinality(Counted') = Cardinality(Counted)
        /\ Counted # {}
    BY CountedMoves DEF SharedInv
  <1>3. SharedType' /\ RefusedForFailure'
    BY <1>1, <1>2 DEF SharedInv, SharedType, Standing, RefusedForFailure
  <1>4. CountExact'
    BY <1>1, <1>2 DEF SharedInv, CountExact
  <1>5. BioForCounted' /\ LocksThere'
    BY <1>1, <1>2 DEF SharedInv, BioForCounted, LocksThere, flags
  <1> QED  BY <1>3, <1>4, <1>5 DEF SharedInv

LEMMA DecrementStep ==
    ASSUME SharedInv, NEW t \in Thread, decrement_ssl_connections(t)
    PROVE  SharedInv'
  <1>1. /\ UNCHANGED <<flags, has, misinit>>
        /\ doing' = [doing EXCEPT ![t] = "idle"]
        /\ openssl_connections' = IF openssl_connections > 0 THEN openssl_connections - 1 ELSE 0
    BY DEF decrement_ssl_connections
  <1>2. openssl_connections' \in Nat
    BY <1>1, CountFacts
  <1>3. LocksThere'
    BY <1>1 DEF SharedInv, LocksThere, flags
  <1>4. CASE doing[t] = "deleted"
    <2>1. /\ IsFiniteSet(Counted') /\ Cardinality(Counted') = Cardinality(Counted) - 1
          /\ Counted # {}
      BY <1>1, <1>4, CountedLeaves DEF SharedInv
    <2>2. SharedType' /\ RefusedForFailure'
      BY <1>1, <1>2, <2>1 DEF SharedInv, SharedType, Standing, RefusedForFailure
    <2>3. CountExact'
      BY <1>1, <2>1, CountFacts DEF CountExact
    <2>4. BioForCounted'
      BY <1>1, <2>1 DEF SharedInv, BioForCounted, flags
    <2> QED  BY <1>3, <2>2, <2>3, <2>4 DEF SharedInv
  <1>5. CASE doing[t] = "refused"
    <2>1. Counted' = Counted
      BY <1>1, <1>5, CountedKept DEF SharedInv
    <2>2. SharedType' /\ RefusedForFailure' /\ BioForCounted'
      BY <1>1, <1>2, <2>1
      DEF SharedInv, SharedType, Standing, RefusedForFailure, BioForCounted, flags
    <2>3. misinit'
      BY <1>1, <1>5 DEF SharedInv, RefusedForFailure
    <2>4. CountExact'
      BY <1>1, <2>1, <2>3, CountFacts DEF CountExact
    <2> QED  BY <1>3, <2>2, <2>4 DEF SharedInv
  <1> QED  BY <1>4, <1>5 DEF decrement_ssl_connections

LEMMA SharedStep == SharedInv /\ [Next]_vars => SharedInv'
  <1> SUFFICES ASSUME SharedInv, [Next]_vars PROVE SharedInv'
    OBVIOUS
  <1>1. CASE UNCHANGED vars
    <2>1. Counted' = Counted
      BY <1>1 DEF vars, Counted
    <2>2. SharedType' /\ RefusedForFailure' /\ BioForCounted'
      BY <1>1, <2>1 DEF vars, flags, SharedInv, SharedType, RefusedForFailure, BioForCounted
    <2>3. CountExact' /\ LocksThere'
      BY <1>1, <2>1 DEF vars, flags, SharedInv, CountExact, LocksThere
    <2> QED  BY <2>2, <2>3 DEF SharedInv
  <1>2. CASE Next
    BY <1>2, LibraryStep, SocketCountedStep, SocketNotCountedStep, SocketMovesStep, DecrementStep
    DEF Next
  <1> QED  BY <1>1, <1>2

LEMMA SharedAlways == Spec => []SharedInv
  BY SharedInit, SharedStep, PTL DEF Spec

(***************************************************************************)
(* The count of TLS sockets (amqp_openssl.c:352, 402) is exact between any *)
(* two steps of any number of threads, until an initialization has failed, *)
(* and is never too high: a socket that is gone does not keep the library. *)
(***************************************************************************)
THEOREM CountAlwaysExact == Spec => []CountExact
  BY SharedAlways, PTL DEF SharedInv

(***************************************************************************)
(* As long as no initialization has failed, the BIO method is there while  *)
(* any connection has a TLS socket: amqp_uninitialize_ssl_library destroys *)
(* it under the same mutex and only at a count of 0.                       *)
(***************************************************************************)
THEOREM BioAlwaysKept == Spec => []BioKept
  <1>1. SharedInv => BioKept
    <2>1. has # {} => Counted # {}
      BY DEF Counted
    <2> QED  BY <2>1 DEF SharedInv, BioForCounted, BioKept
  <1> QED  BY <1>1, SharedAlways, PTL

(***************************************************************************)
(* setup_openssl and amqp_uninitialize_ssl_library: an initialized library *)
(* has its array of locks, whichever of the three ways a setup failed.     *)
(***************************************************************************)
THEOREM LocksAlwaysThere == Spec => []LocksThere
  BY SharedAlways, PTL DEF SharedInv

-----------------------------------------------------------------------------
(***************************************************************************)
(* The inductive invariant of Handshake.  Where the calls are, and which   *)
(* message of the handshake is under way.                                  *)
(***************************************************************************)
Before == {"start", "parsed", "closed"}
Connecting == {"resolve", "connect", "connecting"}
Sending == {"send", "blocked", "read"}
Expecting == {"expect", "await"}
Calling == Connecting \cup {"tls", "handshake", "make"} \cup Sending \cup Expecting
Waiting == {"connecting", "handshake", "blocked", "read", "await"}

WaitType == [for : {"poll"}, fd : Nat, deadline : Nat, since : Nat \ {0}, ms : Int,
             status : {TIME_OK, TIMER_FAILURE, NEGATIVE_MS}]

HandshakeType ==
    /\ pc \in Before \cup Calling \cup {"open", "failed", "connected", "destroyed"}
    /\ sock \in [kind : {"none", "tcp", "ssl"}, sockfd : Nat, ssl : Nat]
    /\ wait \in WaitType \cup {NoWait}
    /\ opens \in Nat
    /\ now \in 1 .. MaxNow
    /\ due \in Nat
    /\ conn.heartbeat \in Nat
    /\ timer \in [send : Nat, recv : Nat]

StepInv ==
    /\ step = "none" <=> pc \notin {"make"} \cup Sending \cup Expecting
    /\ pc \in Sending => step \in {"header", "START_OK", "TUNE_OK", "OPEN", "OPEN_OK"}
    /\ pc \in Expecting => step \in {"START", "TUNE", "OPEN_OK"}
    /\ pc = "make" => step = "OPEN"
    /\ pc \in Waiting <=> wait # NoWait

(***************************************************************************)
(* The descriptors are that of the socket and that of the connect() under  *)
(* way, never both; the SSL objects that of the socket and abandoned ones. *)
(***************************************************************************)
FdInv ==
    /\ fds = {sock.sockfd, wait.fd} \ {None}
    /\ wait.fd # None <=> pc = "connecting"
    /\ pc \in Before \cup Connecting \cup {"destroyed"} => sock.sockfd = None

SslInv ==
    /\ ssls \subseteq {sock.ssl} \cup abandoned
    /\ pc \in Before => ssls \subseteq abandoned
    /\ OverTls /\ (pc \in Connecting \/ sock.sockfd # None) => sock.ssl \in ssls

(***************************************************************************)
(* The deadline is the moment the caller asked for, if there is a name for *)
(* it; and the call has not timed out yet.                                 *)
(***************************************************************************)
Named64 == limit # Forever /\ limit < UINT64_MAX

DueInv ==
    /\ limit \in Int
    /\ pc \in Calling =>
         /\ status # TIMEOUT
         /\ limit = Forever \/ limit \in Nat \ {0}
         /\ limit = Forever => due = UINT64_MAX
         /\ Named64 => due = limit

(***************************************************************************)
(* How the deadline of a poll may differ from the caller's: less than a    *)
(* microsecond early, and late only if it is over (Close); or so early     *)
(* that an int has lost the number of seconds, and then the caller's       *)
(* deadline is so far that it is not kept anyway (Far).                    *)
(***************************************************************************)
IntMs == (INT_MAX + 1) * NS_PER_MS

Close(deadline, since) ==
    /\ limit - NS_PER_US < deadline
    /\ deadline <= limit \/ deadline <= since

Far(deadline, since) == deadline + 2 * IntMs <= limit /\ since + 2 * IntMs <= limit

(***************************************************************************)
(* Since connection.tune a poll may also be one for a heartbeat, which     *)
(* ends before the deadline of the caller: Own tells the polls that have   *)
(* that deadline itself, and TimeUp that it is over.                       *)
(***************************************************************************)
Own == ~ Unbounded /\ (pc = "blocked" \/ step = "OPEN_OK" => wait.deadline = due)

TimeUp == wait # NoWait /\ TIMEOUT \in Polled /\ Own

WaitInv ==
    wait # NoWait =>
        /\ wait.since <= now
        /\ wait.status # TIMEOUT
        /\ ~ Ends => now = wait.since
        /\ Ends => /\ wait.ms \in Nat /\ now <= WakesAt
                   /\ WakesAt <= wait.deadline \/ wait.ms = 0
        /\ wait.deadline = UINT64_MAX => wait.ms = -1
        /\ ~ Unbounded => Own \/ wait.deadline <= due
        /\ Own /\ limit = Forever => wait.deadline = UINT64_MAX
        /\ Own /\ Named64 =>
             /\ Close(wait.deadline, wait.since) \/ Far(wait.deadline, wait.since)
             /\ Ends => WakesAt > limit - NS_PER_MS - NS_PER_US \/ WakesAt + IntMs <= limit
        /\ ~ Unbounded /\ Named64 =>
             (Sleeping /\ InRange(wait.since) => Ends /\ WakesAt <= Latest(wait.since))

Timely ==
    status = TIMEOUT =>
        limit # Forever /\ (InRange(now) => now > limit - NS_PER_MS - NS_PER_US)

(***************************************************************************)
(* The buffer has its length, but for a connection that has been given up  *)
(* in the middle of amqp_tune_connection; and once tune-ok is made, the    *)
(* limits stay those that it names.                                        *)
(***************************************************************************)
TuneInv ==
    /\ BufferMatches \/ (pc = "failed" /\ sock.sockfd = None)
    /\ heard.about = "tune" =>
         /\ heard.offer \in Offers.all /\ heard.sent = Tuned(heard.offer)
         /\ pc = "connected" \/ step \in {"TUNE_OK", "OPEN", "OPEN_OK"} =>
              /\ conn.channel_max = heard.sent.channel_max
              /\ conn.heartbeat = heard.sent.heartbeat
              /\ frame_max = heard.sent.frame_max

LoginInv == /\ HandshakeType /\ StepInv /\ FdInv /\ SslInv /\ DueInv /\ WaitInv /\ Timely
            /\ TuneInv
-----------------------------------------------------------------------------
(* What the deadline of a poll makes of it.                                *)

\* an int holds a number unchanged, or is short of it by its whole range at least
LEMMA IntFalls ==
    ASSUME NEW n \in Nat
    PROVE  /\ Int32(n) \in Int
           /\ Int32(n) = n \/ Int32(n) + 2 * (INT_MAX + 1) <= n
  <1> DEFINE m == 2 * (INT_MAX + 1)
             low == n % m
  <1>1. m \in Nat \ {0}
    BY UnitAssumption
  <1>2. n \div m \in Nat /\ low \in 0 .. m - 1 /\ n = m * (n \div m) + low
    <2> HIDE DEF m
    <2> QED  BY <1>1, SMT
  <1>3. PICK k \in Nat : n = m * k + low
    BY <1>2
  <1>4. k = 0 \/ m * k >= m
    <2> HIDE DEF m, low
    <2> QED  BY <1>1, SMT
  <1>5. low = n \/ low + m <= n
    <2>1. m * k \in Nat /\ (k = 0 => m * k = 0)
      <3> HIDE DEF m
      <3> QED  BY <1>1, SMT
    <2> DEFINE mk == m * k
    <2>2. mk \in Nat /\ (mk = 0 \/ mk >= m) /\ n = mk + low
      BY <1>3, <1>4, <2>1
    <2> HIDE DEF mk, low, m
    <2> QED  BY <1>1, <1>2, <2>2, SMT
  <1>6. Int32(n) = IF low <= INT_MAX THEN low ELSE low - m
    BY DEF Int32
  <1> HIDE DEF low
  <1> QED  BY <1>2, <1>5, <1>6, UnitAssumption, SMT

LEMMA Products ==
    /\ NS_PER_MS \in Nat \ {0} /\ NS_PER_S \in Nat \ {0} /\ NS_PER_US \in Nat \ {0}
    /\ IntMs \in Nat \ {0} /\ UINT64_MAX \in Nat /\ INT_MAX \in Nat
    /\ \A n \in Nat : n * NS_PER_MS \in Nat /\ (n # 0 => n * NS_PER_MS >= NS_PER_MS)
    /\ 2 * (INT_MAX + 1) * NS_PER_MS = 2 * IntMs
  BY UnitAssumption, SMT DEF IntMs

LEMMA Monotone ==
    ASSUME NEW a \in Nat, NEW b \in Nat, NEW c \in Nat, a <= b PROVE a * c <= b * c /\ a * c \in Nat /\ b * c \in Nat
  BY SMT

(***************************************************************************)
(* amqp_poll: it sleeps to the last millisecond before the deadline, or to *)
(* one so early that an int has lost the rest.                             *)
(***************************************************************************)
SleepsTo(w, deadline) ==
    /\ w.status # TIMEOUT
    /\ deadline = UINT64_MAX => w.status = TIME_OK /\ w.ms = -1
    /\ w.status = TIME_OK /\ w.ms # -1 =>
         /\ w.ms \in Nat
         /\ now + w.ms * NS_PER_MS <= deadline \/ w.ms = 0
         /\ \/ deadline < now + w.ms * NS_PER_MS + NS_PER_MS
            \/ now + w.ms * NS_PER_MS + 2 * IntMs <= deadline
    /\ w.status = TIME_OK /\ deadline # UINT64_MAX /\ deadline < now + IntMs => w.ms # -1

LEMMA SleepResult ==
    ASSUME NEW deadline \in Nat, NEW clock \in Clock, now \in Nat \ {0}, NEW fd \in Nat
    PROVE  /\ Sleep(fd, deadline, clock) \in WaitType
           /\ Sleep(fd, deadline, clock).fd = fd
           /\ Sleep(fd, deadline, clock).since = now
           /\ Sleep(fd, deadline, clock).deadline = deadline
           /\ SleepsTo(Sleep(fd, deadline, clock), deadline)
  <1> DEFINE left == amqp_time_ms_until(deadline, clock)
             w == Sleep(fd, deadline, clock)
  <1>1. clock = now \/ clock = 0
    BY DEF Clock
  <1>2. /\ left.ms \in Int /\ left.status \in {TIME_OK, TIMER_FAILURE}
        /\ deadline = UINT64_MAX => left.status = TIME_OK /\ left.ms = -1
        /\ deadline # UINT64_MAX /\ deadline <= now /\ left.status = TIME_OK => left.ms = 0
        /\ deadline # UINT64_MAX /\ deadline > now /\ left.status = TIME_OK =>
             left.ms = Int32((deadline - now) \div NS_PER_MS)
    <2>1. CASE deadline = UINT64_MAX
      BY <2>1, ClockAssumption, Products DEF amqp_time_ms_until
    <2>2. CASE deadline # UINT64_MAX /\ deadline = 0
      BY <2>2 DEF amqp_time_ms_until
    <2>3. CASE deadline # UINT64_MAX /\ deadline # 0 /\ clock = 0
      BY <2>3 DEF amqp_time_ms_until, TIME_OK, TIMER_FAILURE
    <2>4. CASE deadline # UINT64_MAX /\ deadline # 0 /\ clock = now
      <3>1. left = [status |-> TIME_OK,
                    ms |-> IF now >= deadline THEN 0 ELSE Int32((deadline - now) \div NS_PER_MS)]
        BY <2>4 DEF amqp_time_ms_until
      <3>2. CASE now >= deadline
        BY <2>4, <3>1, <3>2
      <3>3. CASE ~ (now >= deadline)
        <4>1. (deadline - now) \div NS_PER_MS \in Nat
          BY <3>3, Quotient, Products
        <4>2. left.ms = Int32((deadline - now) \div NS_PER_MS) /\ left.status = TIME_OK
          BY <3>1, <3>3
        <4> QED  BY <2>4, <3>3, <4>1, <4>2, IntFalls
      <3> QED  BY <3>2, <3>3
    <2> QED  BY <1>1, <2>1, <2>2, <2>3, <2>4
  <1>3. /\ w = [for |-> "poll", fd |-> fd, deadline |-> deadline, since |-> now, ms |-> left.ms,
                status |-> w.status]
        /\ w.status = IF left.status # TIME_OK THEN left.status
                      ELSE IF left.ms < -1 THEN NEGATIVE_MS ELSE TIME_OK
    BY DEF Sleep
  <1> HIDE DEF left, w
  <1>4. w \in WaitType /\ w.status \in {TIME_OK, TIMER_FAILURE, NEGATIVE_MS}
    <2>1. w.status \in {TIME_OK, TIMER_FAILURE, NEGATIVE_MS}
      <3>1. CASE left.status = TIME_OK
        BY <1>3, <3>1, Zenon
      <3>2. CASE left.status # TIME_OK
        BY <1>2, <1>3, <3>2
      <3> QED  BY <3>1, <3>2, Zenon
    <2> QED  BY <1>2, <1>3, <2>1 DEF WaitType
  <1>5. TIMEOUT \notin {TIME_OK, TIMER_FAILURE, NEGATIVE_MS} /\ TIME_OK \notin {TIMER_FAILURE, NEGATIVE_MS}
    BY DEF TIMEOUT, TIME_OK, TIMER_FAILURE, NEGATIVE_MS
  <1>6. w.status = TIME_OK => left.status = TIME_OK /\ ~ (left.ms < -1) /\ w.ms = left.ms
    BY <1>2, <1>3, <1>5
  <1>7. SleepsTo(w, deadline)
    <2>1. CASE deadline = UINT64_MAX
      BY <1>2, <1>3, <1>4, <1>5, <1>6, <2>1 DEF SleepsTo
    <2>2. CASE deadline # UINT64_MAX /\ deadline <= now
      <3>1. w.status = TIME_OK => w.ms = 0
        BY <1>2, <1>6, <2>2
      <3>2. 0 * NS_PER_MS = 0
        BY Products
      <3> QED  BY <1>4, <1>5, <2>2, <3>1, <3>2, Products DEF SleepsTo
    <2>3. CASE deadline # UINT64_MAX /\ deadline > now
      <3> DEFINE n == (deadline - now) \div NS_PER_MS
      <3>1. n \in Nat /\ n * NS_PER_MS <= deadline - now /\ deadline - now < (n + 1) * NS_PER_MS
        BY <2>3, Quotient, Products
      <3>2. (n + 1) * NS_PER_MS = n * NS_PER_MS + NS_PER_MS /\ n * NS_PER_MS \in Nat
        <4> HIDE DEF n
        <4> QED  BY <3>1, Products
      <3> HIDE DEF n
      <3>3. w.status = TIME_OK => w.ms = Int32(n)
        BY <1>2, <1>6, <2>3 DEF n
      <3>4. ASSUME w.status = TIME_OK, w.ms # -1
            PROVE  /\ w.ms \in Nat
                   /\ now + w.ms * NS_PER_MS <= deadline
                   /\ \/ deadline < now + w.ms * NS_PER_MS + NS_PER_MS
                      \/ now + w.ms * NS_PER_MS + 2 * IntMs <= deadline
        <4>1. w.ms \in Nat
          BY <1>2, <1>6, <3>4
        <4>2. w.ms = n \/ w.ms + 2 * (INT_MAX + 1) <= n
          BY <3>1, <3>3, <3>4, IntFalls
        <4>3. CASE w.ms = n
          BY <2>3, <3>1, <3>2, <4>1, <4>3, Products
        <4>4. CASE w.ms + 2 * (INT_MAX + 1) <= n
          <5>1. (w.ms + 2 * (INT_MAX + 1)) * NS_PER_MS <= n * NS_PER_MS
            BY <3>1, <4>1, <4>4, Monotone, Products
          <5>2. (w.ms + 2 * (INT_MAX + 1)) * NS_PER_MS = w.ms * NS_PER_MS + 2 * IntMs
            BY <4>1, Products DEF IntMs
          <5>3. w.ms * NS_PER_MS \in Nat
            BY <4>1, Products
          <5> QED  BY <2>3, <3>1, <3>2, <4>1, <5>1, <5>2, <5>3, Products
        <4> QED  BY <4>2, <4>3, <4>4
      <3>5. ASSUME w.status = TIME_OK, deadline < now + IntMs PROVE w.ms # -1
        <4>1. n <= INT_MAX
          <5> SUFFICES ASSUME n >= INT_MAX + 1 PROVE FALSE
            BY <3>1, Products
          <5>1. (INT_MAX + 1) * NS_PER_MS <= n * NS_PER_MS
            BY <3>1, Monotone, Products
          <5> QED  BY <2>3, <3>1, <3>2, <3>5, <5>1, Products DEF IntMs
        <4> QED  BY <3>1, <3>3, <3>5, <4>1, IntKeeps
      <3> QED  BY <1>4, <1>5, <2>3, <3>4, <3>5 DEF SleepsTo
    <2> QED  BY <2>1, <2>2, <2>3
  <1> QED  BY <1>3, <1>4, <1>7 DEF w

LEMMA Statuses ==
    /\ TIMEOUT \notin {TIME_OK, TIME_INVALID, TIMER_FAILURE, NEGATIVE_MS}
    /\ TIME_OK \notin {TIME_INVALID, TIMER_FAILURE, NEGATIVE_MS}
  BY DEF TIMEOUT, TIME_OK, TIME_INVALID, TIMER_FAILURE, NEGATIVE_MS

(***************************************************************************)
(* What is left until a deadline, as seconds and microseconds in an int:   *)
(* not more than there is, and less only by what is below a microsecond,   *)
(* or by the whole range of an int in seconds.                             *)
(***************************************************************************)
LEMMA LeftAsked ==
    ASSUME NEW left \in Nat, NEW a \in Nat, a = Int32(left \div NS_PER_S)
    PROVE  LET b == Int32((left % NS_PER_S) \div NS_PER_US)
               asked == a * NS_PER_S + b * NS_PER_US
           IN  /\ b \in Nat /\ asked \in Nat /\ asked <= left
               /\ left < asked + NS_PER_US \/ asked + 2 * IntMs <= left
  <1> DEFINE s == left \div NS_PER_S
             rest == left % NS_PER_S
             u == rest \div NS_PER_US
             asked == a * NS_PER_S + u * NS_PER_US
  <1>1. NS_PER_S \in Nat \ {0} /\ NS_PER_US \in Nat \ {0} /\ INT_MAX \in Nat /\ IntMs \in Nat
    BY Products
  <1>2. s \in Nat /\ rest \in 0 .. NS_PER_S - 1 /\ left = NS_PER_S * s + rest
    BY <1>1, SMT
  <1>3. u \in Nat /\ u * NS_PER_US <= rest /\ rest < (u + 1) * NS_PER_US
    <2> HIDE DEF rest
    <2> QED  BY <1>1, <1>2, Quotient
  <1>4. (u + 1) * NS_PER_US = u * NS_PER_US + NS_PER_US /\ u * NS_PER_US \in Nat
    <2> HIDE DEF u
    <2> QED  BY <1>1, <1>3, SMT
  <1>5. Int32(u) = u
    <2>1. u <= INT_MAX
      <3> SUFFICES ASSUME u >= INT_MAX + 1 PROVE FALSE
        BY <1>1, <1>3
      <3>1. (INT_MAX + 1) * NS_PER_US <= u * NS_PER_US
        <4> HIDE DEF u
        <4> QED  BY <1>1, <1>3, Monotone
      <3> HIDE DEF u, rest
      <3> QED  BY <1>1, <1>2, <1>3, <1>4, <3>1, ClockAssumption, SMT
    <2> QED  BY <1>3, <2>1, IntKeeps
  <1>6. a = s \/ a + 2 * (INT_MAX + 1) <= s
    BY <1>2, IntFalls
  <1>7. NS_PER_S * s = s * NS_PER_S /\ s * NS_PER_S \in Nat /\ a * NS_PER_S \in Nat
    <2> HIDE DEF s
    <2> QED  BY <1>1, <1>2, SMT
  <1>8. asked \in Nat
    <2> DEFINE p == a * NS_PER_S
               q == u * NS_PER_US
    <2>1. p \in Nat /\ q \in Nat
      BY <1>4, <1>7
    <2> HIDE DEF p, q
    <2> QED  BY <2>1 DEF p, q
  <1>9. asked <= left /\ (left < asked + NS_PER_US \/ asked + 2 * IntMs <= left)
    <2> DEFINE p == a * NS_PER_S
               q == u * NS_PER_US
               r == s * NS_PER_S
    <2>1. p \in Nat /\ q \in Nat /\ r \in Nat /\ q <= rest /\ rest < q + NS_PER_US
          /\ left = r + rest /\ asked = p + q
      BY <1>2, <1>3, <1>4, <1>7
    <2>2. CASE a = s
      <3>1. p = r
        BY <2>2
      <3> HIDE DEF p, q, r, rest, asked
      <3> QED  BY <1>1, <1>2, <2>1, <3>1, SMT
    <2>3. CASE a + 2 * (INT_MAX + 1) <= s
      <3>1. (a + 2 * (INT_MAX + 1)) * NS_PER_S <= r
        <4> HIDE DEF s
        <4> QED  BY <1>1, <1>2, <2>3, Monotone
      <3>2. (a + 2 * (INT_MAX + 1)) * NS_PER_S = p + 2 * ((INT_MAX + 1) * NS_PER_S)
        BY <1>1, SMT
      <3>3. IntMs <= (INT_MAX + 1) * NS_PER_S /\ (INT_MAX + 1) * NS_PER_S \in Nat
        <4>1. NS_PER_MS * (INT_MAX + 1) <= NS_PER_S * (INT_MAX + 1)
          BY Products, ClockAssumption, Monotone
        <4> QED  BY <1>1, <4>1, Products, SMT DEF IntMs
      <3> DEFINE big == (INT_MAX + 1) * NS_PER_S
      <3>4. p + 2 * big <= r /\ IntMs <= big /\ big \in Nat
        BY <3>1, <3>2, <3>3
      <3>5. 2 * IntMs <= 2 * big
        <4> HIDE DEF big
        <4> QED  BY <1>1, <3>4
      <3> HIDE DEF p, q, r, rest, asked, big
      <3> QED  BY <1>1, <1>2, <2>1, <3>4, <3>5, SMT
    <2> QED  BY <1>6, <2>2, <2>3
  <1> QED  BY <1>3, <1>5, <1>8, <1>9

(***************************************************************************)
(* The deadline of a caller becomes a timeout and a deadline again: it     *)
(* loses what is below a microsecond, or so many seconds as an int does    *)
(* not hold.                                                               *)
(***************************************************************************)
LEMMA UntilKeeps ==
    ASSUME now \in 1 .. UINT64_MAX - 1, NEW clock \in Clock, due \in Nat, limit \in Int,
           limit = Forever \/ limit \in Nat \ {0},
           limit = Forever => due = UINT64_MAX,
           Named64 => due = limit
    PROVE  LET until == WaitUntil(clock)
           IN  /\ until.status # TIMEOUT
               /\ until.status = TIME_OK =>
                    /\ until.time \in Nat
                    /\ limit = Forever => until.time = UINT64_MAX
                    /\ Named64 => Close(until.time, now) \/ Far(until.time, now)
  <1> DEFINE until == WaitUntil(clock)
             left == amqp_time_tv_until(due, clock)
  <1>1. clock = now \/ clock = 0
    BY DEF Clock
  <1>2. UINT64_MAX \in Nat /\ NS_PER_US \in Nat \ {0} /\ IntMs \in Nat \ {0} /\ now \in Nat \ {0}
        /\ UINT64_MAX # 0
    BY Products
  <1>4. CASE due = UINT64_MAX
    <2>1. left = [status |-> TIME_OK, tv |-> NoTimeout]
      BY <1>2, <1>4 DEF amqp_time_tv_until
    <2>2. until = [status |-> TIME_OK, time |-> UINT64_MAX]
      BY <1>4, <2>1 DEF WaitUntil, amqp_time_from_now, NoTimeout, amqp_time_infinite
    <2>3. ~ Named64
      BY <1>2, <1>4 DEF Named64
    <2> QED  BY <1>2, <2>2, <2>3, Statuses
  <1>5. CASE due # UINT64_MAX /\ due # 0 /\ clock = 0
    <2>1. left = [status |-> TIMER_FAILURE, tv |-> Timeval(0, 0)]
      BY <1>5 DEF amqp_time_tv_until
    <2>2. until.status = TIMER_FAILURE
      BY <1>5, <2>1, Statuses DEF WaitUntil
    <2> QED  BY <2>2, Statuses
  <1>6. CASE due # UINT64_MAX /\ ~ (due # 0 /\ clock = 0)
    <2>1. PICK n \in Nat :
              /\ left = [status |-> TIME_OK,
                         tv |-> Timeval(Int32(n \div NS_PER_S),
                                        Int32((n % NS_PER_S) \div NS_PER_US))]
              /\ clock = now => n = IF now >= due THEN 0 ELSE due - now
              /\ clock # now => n = 0 /\ due = 0
      <3>1. CASE due = 0
        <4>1. left = [status |-> TIME_OK, tv |-> Timeval(0, 0)]
          BY <1>2, <1>6, <3>1 DEF amqp_time_tv_until
        <4>2. 0 \div NS_PER_S = 0 /\ (0 % NS_PER_S) \div NS_PER_US = 0 /\ Int32(0) = 0
          <5>1. 0 \div NS_PER_S = 0 /\ 0 % NS_PER_S = 0 /\ 0 \div NS_PER_US = 0
            BY UnitAssumption, SMT
          <5> QED  BY <5>1, IntKeeps, UnitAssumption
        <4>3. now >= due
          BY <1>2, <3>1
        <4> QED  BY <3>1, <4>1, <4>2, <4>3
      <3>2. CASE due # 0 /\ clock = now
        <4> DEFINE n == IF now >= due THEN 0 ELSE due - now
        <4>1. n \in Nat
          BY <1>2
        <4>2. left = [status |-> TIME_OK,
                      tv |-> Timeval(Int32(n \div NS_PER_S),
                                     Int32((n % NS_PER_S) \div NS_PER_US))]
          BY <1>2, <1>6, <3>2 DEF amqp_time_tv_until
        <4> HIDE DEF left
        <4> QED  BY <3>2, <4>1, <4>2
      <3> QED  BY <1>1, <1>6, <3>1, <3>2
    <2> DEFINE a == Int32(n \div NS_PER_S)
               b == Int32((n % NS_PER_S) \div NS_PER_US)
    <2>2. until = amqp_time_from_now(clock, Timeval(a, b))
      BY <1>6, <2>1 DEF WaitUntil
    <2>3. a \in Int
      <3>1. n \div NS_PER_S \in Nat
        BY Quotient, Products
      <3> QED  BY <3>1, IntFalls
    <2>4. /\ Timeval(a, b).given /\ Timeval(a, b).tv_sec = a /\ Timeval(a, b).tv_usec = b
          /\ Asked(Timeval(a, b)) = a * NS_PER_S + b * NS_PER_US
      BY DEF Timeval, Asked
    <2> HIDE DEF until, left
    <2>5. CASE a < 0
      <3>1. until = [status |-> TIME_INVALID, time |-> 0]
        <4> HIDE DEF a, b
        <4> QED  BY <2>2, <2>4, <2>5 DEF amqp_time_from_now
      <3> QED  BY <3>1, Statuses DEF until
    <2>6. CASE a \in Nat
      <3> DEFINE asked == a * NS_PER_S + b * NS_PER_US
      <3>1. /\ b \in Nat /\ asked \in Nat /\ asked <= n
            /\ n < asked + NS_PER_US \/ asked + 2 * IntMs <= n
        BY <2>1, <2>6, LeftAsked
      <3> HIDE DEF a, b
      <3>2. CASE clock = now
        <4>1. n = IF now >= due THEN 0 ELSE due - now
          BY <2>1, <3>2
        <4>2. CASE due > UINT64_MAX \/ ~ Named64
          <5>1. ~ Named64 /\ limit # Forever
            BY <1>2, <1>6, <4>2 DEF Named64
          <5>2. until.status # TIMEOUT /\ (until.status = TIME_OK => until.time \in Nat)
            <6> DEFINE delta == Wrapped(asked)
                       point == Wrapped(now + delta)
            <6>1. delta \in Nat /\ point \in Nat
              <7>1. delta \in Nat
                BY <1>2, <3>1, SMT DEF Wrapped
              <7> HIDE DEF delta
              <7>2. now + delta \in Nat
                BY <1>2, <7>1
              <7> QED  BY <1>2, <7>1, <7>2, SMT DEF Wrapped
            <6>2. until = PointAfter(now, delta)
              <7>1. ~ (a < 0 \/ b < 0)
                BY <2>6, <3>1
              <7> QED  BY <2>2, <2>4, <3>2, <7>1 DEF amqp_time_from_now
            <6>3. \/ until = [status |-> TIME_INVALID, time |-> point]
                  \/ until = [status |-> TIME_OK, time |-> point]
              <7> HIDE DEF delta
              <7> QED  BY <1>2, <6>2 DEF PointAfter
            <6> HIDE DEF point
            <6> QED  BY <6>1, <6>3, Statuses
          <5> QED  BY <5>1, <5>2 DEF until
        <4>3. CASE due < UINT64_MAX /\ Named64
          <5>1. now + asked <= UINT64_MAX /\ asked <= UINT64_MAX
            BY <1>2, <3>1, <4>1, <4>3
          <5>2. until = [status |-> TIME_OK, time |-> now + asked]
            BY <1>2, <2>2, <2>4, <2>6, <3>1, <3>2, <5>1, DeadlineExact
          <5>3. Close(now + asked, now) \/ Far(now + asked, now)
            <6> HIDE DEF asked
            <6>1. limit = due /\ due \in Nat
              BY <4>3
            <6>2. CASE now >= due
              BY <1>2, <3>1, <4>1, <6>1, <6>2 DEF Close
            <6>3. CASE ~ (now >= due)
              BY <1>2, <3>1, <4>1, <6>1, <6>3 DEF Close, Far
            <6> QED  BY <6>2, <6>3
          <5>4. now + asked \in Nat /\ limit # Forever
            BY <1>2, <3>1, <4>3 DEF Named64
          <5> QED  BY <5>2, <5>3, <5>4, Statuses DEF until
        <4> QED  BY <1>2, <1>6, <4>2, <4>3
      <3>3. CASE clock # now
        <4>1. clock = 0 /\ due = 0 /\ ~ Named64 /\ limit # Forever
          BY <1>1, <1>2, <2>1, <3>3 DEF Named64
        <4>2. until = [status |-> TIMER_FAILURE, time |-> 0]
          <5>1. ~ (a < 0 \/ b < 0)
            BY <2>6, <3>1
          <5> QED  BY <2>2, <2>4, <4>1, <5>1 DEF amqp_time_from_now, PointAfter
        <4> QED  BY <4>1, <4>2, Statuses DEF until
      <3> QED  BY <3>2, <3>3
    <2> QED  BY <2>3, <2>5, <2>6
  <1> QED  BY <1>4, <1>5, <1>6

(***************************************************************************)
(* The deadline of a call: the moment its caller means, if that can be     *)
(* named.                                                                  *)
(***************************************************************************)
LEMMA StartKeeps ==
    ASSUME now \in 1 .. UINT64_MAX - 1, NEW timeout \in Timeouts, NEW clock \in Clock
    PROVE  LET deadline == amqp_time_from_now(clock, timeout)
               moment == Limit(timeout)
           IN  /\ moment \in Int
               /\ deadline.status # TIMEOUT
               /\ deadline.status = TIME_OK =>
                    /\ deadline.time \in Nat
                    /\ moment = Forever \/ moment \in Nat \ {0}
                    /\ moment = Forever => deadline.time = UINT64_MAX
                    /\ moment # Forever /\ moment < UINT64_MAX => deadline.time = moment
  <1> DEFINE deadline == amqp_time_from_now(clock, timeout)
             moment == Limit(timeout)
             sec == timeout.tv_sec
             usec == timeout.tv_usec
             asked == sec * NS_PER_S + usec * NS_PER_US
  <1>1. clock = now \/ clock = 0
    BY DEF Clock
  <1>2. UINT64_MAX \in Nat /\ now \in Nat \ {0}
    BY Products
  <1>3. /\ timeout \in [tv_sec : Int, tv_usec : Int, given : BOOLEAN]
        /\ sec \in Int /\ usec \in Int /\ timeout.given \in BOOLEAN
    BY ClockAssumption
  <1>4. Asked(timeout) = asked /\ asked \in Int
    <2> DEFINE p == sec * NS_PER_S
               q == usec * NS_PER_US
    <2>1. p \in Int /\ q \in Int
      <3> HIDE DEF sec, usec
      <3> QED  BY <1>3, Products, SMT
    <2>2. asked = p + q
      OBVIOUS
    <2> HIDE DEF p, q, asked
    <2> QED  BY <2>1, <2>2 DEF Asked, asked
  <1>5. CASE ~ timeout.given
    <2>1. moment = Forever /\ deadline = [status |-> TIME_OK, time |-> UINT64_MAX]
      BY <1>5 DEF Limit, amqp_time_from_now, amqp_time_infinite
    <2>2. Forever \in Int
      BY DEF Forever
    <2> QED  BY <1>2, <2>1, <2>2, Statuses
  <1>6. CASE timeout.given /\ (sec < 0 \/ usec < 0)
    <2>1. moment = now + asked /\ deadline = [status |-> TIME_INVALID, time |-> 0]
      BY <1>4, <1>6 DEF Limit, amqp_time_from_now
    <2> HIDE DEF asked, deadline, moment
    <2>2. moment \in Int
      BY <1>2, <1>4, <2>1
    <2> QED  BY <2>1, <2>2, Statuses DEF deadline, moment
  <1>7. CASE timeout.given /\ sec \in Nat /\ usec \in Nat
    <2>1. moment = now + asked
      BY <1>4, <1>7 DEF Limit
    <2>2. asked \in Nat
      <3> DEFINE p == sec * NS_PER_S
                 q == usec * NS_PER_US
      <3>1. p \in Nat /\ q \in Nat
        <4> HIDE DEF sec, usec
        <4> QED  BY <1>7, Products, SMT
      <3>2. asked = p + q
        OBVIOUS
      <3> HIDE DEF p, q, asked
      <3> QED  BY <3>1, <3>2
    <2>3. timeout = Timeval(sec, usec)
      BY <1>3, <1>7 DEF Timeval
    <2>4. deadline = PointAfter(clock, Wrapped(asked))
      <3>1. ~ (sec < 0 \/ usec < 0)
        BY <1>7
      <3> QED  BY <1>4, <1>7, <3>1 DEF amqp_time_from_now
    <2> HIDE DEF sec, usec
    <2>5. moment \in Nat \ {0} /\ moment # Forever
      <3> HIDE DEF asked, moment
      <3> QED  BY <1>2, <2>1, <2>2 DEF Forever
    <2>6. CASE clock = 0
      <3>1. deadline = [status |-> TIMER_FAILURE, time |-> 0]
        BY <2>4, <2>6 DEF PointAfter
      <3> QED  BY <2>5, <3>1, Statuses
    <2>7. CASE clock = now
      <3>1. deadline.status # TIMEOUT /\ (deadline.status = TIME_OK => deadline.time \in Nat)
        <4> DEFINE delta == Wrapped(asked)
                   point == Wrapped(now + delta)
        <4>1. delta \in Nat
          <5> HIDE DEF asked
          <5> QED  BY <1>2, <2>2, SMT DEF Wrapped
        <4> HIDE DEF delta
        <4>2. now + delta \in Nat
          BY <1>2, <4>1
        <4>3. point \in Nat
          BY <1>2, <4>2, SMT DEF Wrapped
        <4>4. \/ deadline = [status |-> TIME_INVALID, time |-> point]
              \/ deadline = [status |-> TIME_OK, time |-> point]
          <5>1. deadline = PointAfter(now, delta)
            BY <2>4, <2>7 DEF delta
          <5> QED  BY <1>2, <5>1 DEF PointAfter
        <4> HIDE DEF deadline, point
        <4> QED  BY <4>3, <4>4, Statuses
      <3>2. ASSUME moment < UINT64_MAX PROVE deadline = [status |-> TIME_OK, time |-> moment]
        <4>1. asked <= UINT64_MAX /\ now + asked <= UINT64_MAX
          <5> HIDE DEF asked, moment
          <5> QED  BY <1>2, <2>1, <2>2, <3>2
        <4>2. Asked(Timeval(sec, usec)) = asked
          BY <1>4, <2>3
        <4>3. /\ now \in Nat /\ 0 < now /\ now <= UINT64_MAX /\ sec \in Nat /\ usec \in Nat
              /\ Asked(Timeval(sec, usec)) <= UINT64_MAX
          BY <1>2, <1>7, <4>1, <4>2
        <4>4. amqp_time_from_now(now, Timeval(sec, usec)) =
                  [status |-> TIME_OK, time |-> now + asked]
          <5> HIDE DEF asked
          <5> QED  BY <4>1, <4>2, <4>3, DeadlineExact
        <4> QED  BY <2>1, <2>3, <2>7, <4>4
      <3> HIDE DEF deadline, moment
      <3> QED  BY <2>5, <3>1, <3>2 DEF deadline, moment
    <2> QED  BY <1>1, <2>6, <2>7
  <1> HIDE DEF sec, usec
  <1>8. (sec < 0 \/ usec < 0) \/ (sec \in Nat /\ usec \in Nat)
    BY <1>3
  <1> QED  BY <1>3, <1>5, <1>6, <1>7, <1>8

-----------------------------------------------------------------------------
(* The times of a step: nothing is waited for, a sleep begins, a sleep is  *)
(* over, or time passes.                                                   *)

LEMMA TimeFacts ==
    ASSUME HandshakeType
    PROVE  /\ UINT64_MAX \in Nat /\ IntMs \in Nat \ {0} /\ NS_PER_MS \in Nat \ {0}
           /\ NS_PER_US \in Nat \ {0} /\ IntMs = (INT_MAX + 1) * NS_PER_MS
           /\ now \in 1 .. UINT64_MAX - 1 /\ now \in Nat \ {0} /\ due \in Nat
  BY Products, ClockAssumption DEF HandshakeType, IntMs

\* when poll may return without a descriptor, the caller's time is over
LEMMA TimeIsOver ==
    ASSUME HandshakeType, WaitInv, limit \in Int, TimeUp
    PROVE  limit # Forever /\ (InRange(now) => now > limit - NS_PER_MS - NS_PER_US)
  <1>1. Sleeping /\ Ends /\ now >= WakesAt /\ wait # NoWait
    <2>1. TIMEOUT \notin {TIME_OK, SOCKET_ERROR}
      BY DEF TIMEOUT, TIME_OK, SOCKET_ERROR
    <2> QED  BY <2>1 DEF Polled, WaitInv, TimeUp
  <1>2. wait \in WaitType /\ wait.ms \in Nat /\ now <= WakesAt
    BY <1>1 DEF HandshakeType, WaitInv
  <1>3. now = WakesAt
    <2>1. wait.ms * NS_PER_MS \in Nat /\ wait.since \in Nat
      BY <1>2, Products DEF WaitType
    <2>2. WakesAt \in Nat
      BY <2>1 DEF WakesAt
    <2> HIDE DEF WakesAt
    <2> QED  BY <1>1, <1>2, <2>2, TimeFacts
  <1>4. limit # Forever
    BY <1>1, <1>2 DEF WaitInv, Ends, TimeUp
  <1>5. Named64 => WakesAt > limit - NS_PER_MS - NS_PER_US \/ WakesAt + IntMs <= limit
    BY <1>1, <1>4 DEF WaitInv, TimeUp
  <1>6. ASSUME InRange(now) PROVE now > limit - NS_PER_MS - NS_PER_US
    <2>1. Named64 /\ limit - now < IntMs
      BY <1>6 DEF InRange, Named64, IntMs
    <2> HIDE DEF WakesAt
    <2> QED  BY <1>3, <1>5, <2>1, TimeFacts
  <1> QED  BY <1>4, <1>6

LEMMA QuietTime ==
    ASSUME HandshakeType, DueInv, WaitInv, Timely,
           wait' = NoWait, UNCHANGED <<now, due, limit>>,
           status' = status \/ status' # TIMEOUT \/ TimeUp,
           pc' \in Calling => pc \in Calling /\ (status' = status \/ status' # TIMEOUT)
    PROVE  DueInv' /\ WaitInv' /\ Timely'
  <1>1. DueInv'
    BY DEF DueInv, Named64
  <1>2. WaitInv'
    BY DEF WaitInv
  <1>3. Timely'
    <2>1. CASE status' = status
      BY <2>1 DEF Timely, InRange
    <2>2. CASE status' # TIMEOUT
      BY <2>2 DEF Timely
    <2>3. CASE TimeUp
      <3>1. limit # Forever /\ (InRange(now) => now > limit - NS_PER_MS - NS_PER_US)
        BY <2>3, TimeIsOver DEF DueInv
      <3> QED  BY <3>1 DEF Timely, InRange
    <2> QED  BY <2>1, <2>2, <2>3
  <1> QED  BY <1>1, <1>2, <1>3

LEMMA SleepTime ==
    ASSUME HandshakeType, DueInv, Timely, pc \in Calling, pc' \in Calling,
           UNCHANGED <<now, due, limit, status>>,
           NEW fd \in Nat, NEW deadline \in Nat, NEW clock \in Clock,
           wait' = Sleep(fd, deadline, clock),
           ~ Unbounded' => Own' \/ deadline <= due,
           Own' /\ limit = Forever => deadline = UINT64_MAX,
           Own' /\ Named64 => Close(deadline, now) \/ Far(deadline, now)
    PROVE  /\ DueInv' /\ WaitInv' /\ Timely'
           /\ wait' \in WaitType /\ wait'.fd = fd /\ wait' # NoWait
  <1> DEFINE w == wait'
             wakes == now + w.ms * NS_PER_MS
  <1>1. DueInv' /\ Timely'
    BY DEF DueInv, Named64, Timely, InRange
  <1>2. /\ w \in WaitType /\ w.fd = fd /\ w.since = now /\ w.deadline = deadline
        /\ SleepsTo(w, deadline)
    <2>1. now \in Nat \ {0}
      BY TimeFacts
    <2> QED  BY <2>1, SleepResult
  <1>3. w # NoWait
    <2>1. w.for = "poll" /\ NoWait.for = "nothing"
      BY <1>2 DEF WaitType, NoWait
    <2> QED  BY <2>1
  <1>4. /\ Sleeping' <=> w.status = TIME_OK
        /\ Ends' <=> w.status = TIME_OK /\ w.ms # -1
        /\ WakesAt' = wakes
        /\ \A t : InRange(t)' <=> InRange(t)
        /\ Latest(now)' = Latest(now)
    BY <1>2, <1>3 DEF Sleeping, Ends, WakesAt, InRange, Latest
  <1>5. Ends' => w.ms \in Nat /\ wakes \in Nat /\ now <= wakes /\ (w.ms = 0 => wakes = now)
    <2>1. ASSUME w.ms \in Nat PROVE w.ms * NS_PER_MS \in Nat /\ (w.ms = 0 => w.ms * NS_PER_MS = 0)
      BY <2>1, Products
    <2>2. Ends' => w.ms \in Nat
      BY <1>2, <1>4 DEF SleepsTo
    <2> DEFINE p == w.ms * NS_PER_MS
    <2>3. Ends' => p \in Nat /\ (w.ms = 0 => p = 0)
      BY <2>1, <2>2
    <2> HIDE DEF w, p
    <2> QED  BY <2>2, <2>3, TimeFacts DEF p
  <1>6. Ends' => /\ wakes <= deadline \/ w.ms = 0
                 /\ deadline < wakes + NS_PER_MS \/ wakes + 2 * IntMs <= deadline
    BY <1>2, <1>4 DEF SleepsTo
  <1> HIDE DEF wakes
  <1>7. ASSUME ~ Unbounded', Named64
        PROVE  /\ Own' => /\ Close(deadline, now) \/ Far(deadline, now)
                          /\ Ends' => \/ wakes > limit - NS_PER_MS - NS_PER_US
                                      \/ wakes + IntMs <= limit
               /\ Sleeping' /\ InRange(now) => Ends' /\ wakes <= Latest(now)
    <2>1. (Close(deadline, now) \/ Far(deadline, now)) \/ deadline <= limit
      BY <1>7 DEF DueInv
    <2>2. limit \in Nat \ {0} /\ limit < UINT64_MAX
      BY <1>7 DEF DueInv, Named64
    <2>3. ASSUME Own'
          PROVE  /\ Close(deadline, now) \/ Far(deadline, now)
                 /\ Ends' => wakes > limit - NS_PER_MS - NS_PER_US \/ wakes + IntMs <= limit
      <3>1. Close(deadline, now) \/ Far(deadline, now)
        BY <1>7, <2>3
      <3> QED  BY <1>5, <1>6, <2>2, <3>1, TimeFacts DEF Close, Far
    <2>4. ASSUME Sleeping', InRange(now)
          PROVE  Ends' /\ wakes <= Latest(now)
      <3>1. limit - now < IntMs
        BY <2>4 DEF InRange, IntMs
      <3>2. deadline <= limit \/ deadline <= now
        BY <2>1, <2>2, <3>1, TimeFacts DEF Close, Far
      <3>3. deadline # UINT64_MAX /\ deadline < now + IntMs
        BY <2>2, <3>1, <3>2, TimeFacts
      <3>4. Ends'
        BY <1>2, <1>4, <2>4, <3>3 DEF SleepsTo
      <3> QED  BY <1>5, <1>6, <2>2, <3>2, <3>4, TimeFacts DEF Latest
    <2> QED  BY <2>1, <2>3, <2>4
  <1>8. WaitInv'
    <2>1. wait'.since <= now' /\ wait'.status # TIMEOUT /\ (~ Ends' => now' = wait'.since)
      BY <1>2, TimeFacts DEF SleepsTo
    <2>2. Ends' => /\ wait'.ms \in Nat /\ now' <= WakesAt'
                   /\ WakesAt' <= wait'.deadline \/ wait'.ms = 0
      BY <1>2, <1>4, <1>5, <1>6
    <2>3. /\ wait'.deadline = UINT64_MAX => wait'.ms = -1
          /\ ~ Unbounded' => Own' \/ wait'.deadline <= due'
          /\ Own' /\ limit' = Forever => wait'.deadline = UINT64_MAX
      BY <1>2 DEF SleepsTo
    <2>4. ASSUME ~ Unbounded', Named64'
          PROVE  /\ Own' => /\ Close(wait.deadline, wait.since)' \/ Far(wait.deadline, wait.since)'
                            /\ Ends' => \/ WakesAt' > limit' - NS_PER_MS - NS_PER_US
                                        \/ WakesAt' + IntMs <= limit'
                 /\ Sleeping' /\ InRange(wait.since)' => Ends' /\ WakesAt' <= Latest(wait.since)'
      <3>1. Named64
        BY <2>4 DEF Named64
      <3>2. /\ Close(wait.deadline, wait.since)' <=> Close(deadline, now)
            /\ Far(wait.deadline, wait.since)' <=> Far(deadline, now)
            /\ InRange(wait.since)' <=> InRange(now)
            /\ Latest(wait.since)' = Latest(now)
        BY <1>2 DEF Close, Far, InRange, Latest
      <3> QED  BY <1>4, <1>7, <2>4, <3>1, <3>2
    <2>5. Own' => ~ Unbounded'
      BY DEF Own
    <2> QED  BY <2>1, <2>2, <2>3, <2>4, <2>5 DEF WaitInv
  <1> QED  BY <1>1, <1>2, <1>3, <1>8

LEMMA TickKeeps == LoginInv /\ TimePasses => LoginInv'
  <1> SUFFICES ASSUME LoginInv, TimePasses PROVE LoginInv'
    OBVIOUS
  <1> USE DEF LoginInv
  <1>1. /\ UNCHANGED <<pc, status, url, sock, fds, ssls, due, limit, wait, todo, opens, rounds,
                       host, shown, abandoned, frame_max, conn, step, timer, heard>>
        /\ now' = now + 1 /\ Ends /\ now < WakesAt /\ now < MaxNow
    BY DEF TimePasses, Tick
  <1>2. pc \in Calling /\ wait # NoWait /\ status # TIMEOUT
    <2>1. wait # NoWait
      BY <1>1 DEF Ends, Sleeping
    <2> QED  BY <2>1 DEF StepInv, Waiting, Calling, Connecting, Sending, Expecting, DueInv
  <1>3. wait \in WaitType /\ wait.ms \in Nat /\ wait.since \in Nat /\ now \in Nat /\ MaxNow \in Nat
    BY <1>1, <1>2, TimeFacts, ClockAssumption DEF HandshakeType, WaitInv, WaitType
  <1>4. WakesAt \in Nat
    <2>1. wait.ms * NS_PER_MS \in Nat
      BY <1>3, Products
    <2> QED  BY <1>3, <2>1 DEF WakesAt
  <1>5. /\ WakesAt' = WakesAt /\ (Ends' <=> Ends) /\ (Sleeping' <=> Sleeping)
        /\ (Named64' <=> Named64)
        /\ Close(wait.deadline, wait.since)' = Close(wait.deadline, wait.since)
        /\ Far(wait.deadline, wait.since)' = Far(wait.deadline, wait.since)
        /\ InRange(wait.since)' = InRange(wait.since)
        /\ Latest(wait.since)' = Latest(wait.since)
        /\ (Own' <=> Own) /\ (Unbounded' <=> Unbounded)
    BY <1>1 DEF WakesAt, Ends, Sleeping, Named64, Close, Far, InRange, Latest, Own, Unbounded
  <1>6. now' \in 1 .. MaxNow /\ wait.since <= now' /\ now' <= WakesAt
    <2> HIDE DEF WakesAt
    <2> QED  BY <1>1, <1>2, <1>3, <1>4 DEF WaitInv
  <1> HIDE DEF LoginInv
  <1>7. HandshakeType'
    BY <1>1, <1>6 DEF LoginInv, HandshakeType
  <1>8. StepInv' /\ FdInv' /\ SslInv' /\ TuneInv'
    BY <1>1 DEF LoginInv, StepInv, FdInv, SslInv, OverTls, TuneInv, BufferMatches
  <1>9. DueInv' /\ Timely'
    BY <1>1, <1>2 DEF LoginInv, DueInv, Named64, Timely
  <1>10. WaitInv'
    BY <1>1, <1>2, <1>5, <1>6, Zenon DEF LoginInv, WaitInv
  <1> QED  BY <1>7, <1>8, <1>9, <1>10 DEF LoginInv

\* the deadline of a poll that is started over is as close to the caller's as before
LEMMA PollAgainKeeps == LoginInv /\ PollsAgain => LoginInv'
  <1> SUFFICES ASSUME LoginInv, NEW clock \in Clock, PollAgain(clock),
                      UNCHANGED <<frame_max, conn, step, timer, heard>>
               PROVE  LoginInv'
    BY DEF PollsAgain
  <1>1. /\ UNCHANGED <<pc, status, url, sock, fds, ssls, now, due, limit, todo, opens, rounds,
                       host, shown, abandoned, frame_max, conn, step, timer, heard>>
        /\ wait' = Sleep(wait.fd, wait.deadline, clock)
        /\ Sleeping /\ now > wait.since
    BY DEF PollAgain
  <1>2. HandshakeType /\ StepInv /\ FdInv /\ SslInv /\ DueInv /\ WaitInv /\ Timely /\ TuneInv
    BY DEF LoginInv
  <1>3. pc \in Waiting /\ wait # NoWait
    BY <1>1, <1>2 DEF Sleeping, StepInv
  <1>4. pc \in Calling /\ pc' \in Calling
    BY <1>1, <1>3 DEF Waiting, Calling, Connecting, Sending, Expecting
  <1>5. wait \in WaitType /\ wait.fd \in Nat /\ wait.deadline \in Nat /\ wait.since \in Nat
    BY <1>2, <1>3 DEF HandshakeType, WaitType
  <1>6. Ends
    BY <1>1, <1>2, <1>3, <1>5, TimeFacts DEF WaitInv
  <1>7. now <= wait.deadline
    <2>1. wait.ms \in Nat /\ now <= WakesAt /\ (WakesAt <= wait.deadline \/ wait.ms = 0)
      BY <1>2, <1>3, <1>6 DEF WaitInv
    <2>2. wait.ms * NS_PER_MS \in Nat /\ (wait.ms = 0 => wait.ms * NS_PER_MS = 0)
      BY <2>1, Products
    <2>3. WakesAt \in Nat /\ (wait.ms = 0 => WakesAt = wait.since)
      BY <1>5, <2>2 DEF WakesAt
    <2> HIDE DEF WakesAt
    <2> QED  BY <1>1, <1>2, <1>5, <2>1, <2>3, TimeFacts
  <1> DEFINE deadline == wait.deadline
  <1>8. /\ Own' <=> Own
        /\ ~ Unbounded' => Own' \/ deadline <= due
        /\ Own' /\ limit = Forever => deadline = UINT64_MAX
    <2>1. wait'.deadline = wait.deadline
      BY <1>1 DEF Sleep
    <2> QED  BY <1>1, <1>2, <1>3, <2>1 DEF WaitInv, Own, Unbounded
  <1>9. Own' /\ Named64 => Close(deadline, now) \/ Far(deadline, now)
    <2> SUFFICES ASSUME Own, Named64
                 PROVE  Close(wait.deadline, now) \/ Far(wait.deadline, now)
      BY <1>8
    <2>1. Close(wait.deadline, wait.since) \/ Far(wait.deadline, wait.since)
      BY <1>2, <1>3 DEF WaitInv
    <2>2. limit \in Int
      BY <1>2 DEF DueInv
    <2>3. CASE Close(wait.deadline, wait.since)
      BY <1>1, <1>2, <1>5, <2>2, <2>3, TimeFacts DEF Close
    <2>4. CASE Far(wait.deadline, wait.since)
      BY <1>1, <1>2, <1>5, <1>7, <2>2, <2>4, TimeFacts DEF Far
    <2> QED  BY <2>1, <2>3, <2>4
  <1>10. /\ DueInv' /\ WaitInv' /\ Timely'
         /\ wait' \in WaitType /\ wait'.fd = wait.fd /\ wait' # NoWait
    <2>1. deadline \in Nat /\ wait' = Sleep(wait.fd, deadline, clock)
      BY <1>1, <1>5
    <2> HIDE DEF deadline
    <2> QED  BY <1>1, <1>2, <1>4, <1>5, <1>8, <1>9, <2>1, SleepTime
  <1>11. HandshakeType' /\ StepInv' /\ FdInv' /\ SslInv' /\ TuneInv'
    <2>1. HandshakeType'
      BY <1>1, <1>2, <1>10 DEF HandshakeType
    <2>2. StepInv'
      BY <1>1, <1>2, <1>3, <1>10 DEF StepInv
    <2>3. FdInv' /\ SslInv' /\ TuneInv'
      BY <1>1, <1>2, <1>10 DEF FdInv, SslInv, OverTls, TuneInv, BufferMatches
    <2> QED  BY <2>1, <2>2, <2>3
  <1> QED  BY <1>10, <1>11 DEF LoginInv

LEMMA NoTimerType == NoTimer \in [send : Nat, recv : Nat]
  BY Products DEF NoTimer, amqp_time_infinite

\* the time of a heartbeat, with the clock as it is
LEMMA TimerTime ==
    ASSUME HandshakeType, NEW clock \in Clock, NEW n \in Nat
    PROVE  LET next == amqp_time_s_from_now(clock, n)
           IN  next.time \in Nat /\ next.status # TIMEOUT
  <1> DEFINE delta == Wrapped(n * NS_PER_S)
             point == Wrapped(clock + delta)
             next == amqp_time_s_from_now(clock, n)
  <1>1. UINT64_MAX \in Nat /\ clock \in Nat
    BY TimeFacts DEF Clock
  <1>2. delta \in Nat /\ point \in Nat
    <2>1. n * NS_PER_S \in Nat
      BY Products, SMT
    <2>2. delta \in Nat
      BY <1>1, <2>1, SMT DEF Wrapped
    <2> HIDE DEF delta
    <2>3. clock + delta \in Nat
      BY <1>1, <2>2
    <2> QED  BY <1>1, <2>2, <2>3, SMT DEF Wrapped
  <1>3. \/ next = [status |-> TIME_OK, time |-> UINT64_MAX]
        \/ next = PointAfter(clock, delta)
    BY DEF amqp_time_s_from_now, amqp_time_infinite
  <1> HIDE DEF delta, next
  <1>4. CASE next = PointAfter(clock, delta)
    <2>1. \/ next = [status |-> TIMER_FAILURE, time |-> 0]
          \/ next = [status |-> TIME_INVALID, time |-> point]
          \/ next = [status |-> TIME_OK, time |-> point]
      BY <1>1, <1>4 DEF PointAfter
    <2> HIDE DEF point
    <2> QED  BY <1>2, <2>1, Statuses DEF next
  <1>5. CASE next = [status |-> TIME_OK, time |-> UINT64_MAX]
    BY <1>1, <1>5, Statuses DEF next
  <1> QED  BY <1>3, <1>4, <1>5

LEMMA LoginInvInit == HandshakeInit => LoginInv
  <1> SUFFICES ASSUME HandshakeInit PROVE LoginInv
    OBVIOUS
  <1> USE DEF HandshakeInit, OpeningInit
  <1>1. HandshakeType
    <2>1. UINT64_MAX \in Nat /\ 1 \in 1 .. MaxNow
      BY ClockAssumption, Products
    <2> QED  BY <2>1, NoTimerType DEF HandshakeType, Before, NoSocket, None, Start, NewConnection
  <1>2. StepInv
    BY DEF StepInv, Before, Sending, Expecting, Waiting
  <1>3. FdInv /\ SslInv
    BY DEF FdInv, SslInv, NoSocket, NoWait, None, Before, Connecting, OverTls
  <1>4. DueInv /\ Timely
    BY DEF DueInv, Timely, Forever, Calling, Connecting, Sending, Expecting, TIME_OK, TIMEOUT
  <1>5. WaitInv
    BY DEF WaitInv
  <1>6. TuneInv
    BY DEF TuneInv, BufferMatches, NewConnection, NothingHeard
  <1> QED  BY <1>1, <1>2, <1>3, <1>4, <1>5, <1>6 DEF LoginInv

-----------------------------------------------------------------------------
(* The steps of amqp_socket_open_noblock.                                  *)

LEMMA NoTimeouts ==
    TIMEOUT \notin {TIME_OK, SOCKET_ERROR, SOCKET_INUSE, RESOLUTION_FAILED, NO_MEMORY, SSL_ERROR,
                    SSL_CONNECTION_FAILED, PEER_VERIFY_FAILED, HOSTNAME_VERIFY_FAILED,
                    TIME_INVALID, SASL_UNSUPPORTED, INCOMPATIBLE_VERSION, WRONG_METHOD,
                    CONNECTION_CLOSED, SERVER_EXCEPTION, SHORT_COUNT, HEARTBEAT_TIMEOUT}
                   \cup Outcomes
  BY DEF TIMEOUT, TIME_OK, SOCKET_ERROR, SOCKET_INUSE, RESOLUTION_FAILED, NO_MEMORY, SSL_ERROR,
         SSL_CONNECTION_FAILED, PEER_VERIFY_FAILED, HOSTNAME_VERIFY_FAILED, TIME_INVALID,
         SASL_UNSUPPORTED, INCOMPATIBLE_VERSION, WRONG_METHOD, CONNECTION_CLOSED,
         SERVER_EXCEPTION, SHORT_COUNT, HEARTBEAT_TIMEOUT, Outcomes

\* while open connects or shakes hands, every poll has the deadline of the caller
LEMMA OpeningOwn ==
    ASSUME LoginInv, pc \in {"connecting", "handshake"}
    PROVE  wait # NoWait /\ Own /\ (TIMEOUT \in Polled => TimeUp)
  <1>1. wait # NoWait /\ step = "none"
    BY DEF LoginInv, StepInv, Waiting, Sending, Expecting
  <1> QED  BY <1>1 DEF Own, Unbounded, TimeUp

LEMMA OpenFailsKeeps ==
    ASSUME LoginInv, NEW s, NEW fd, OpenFails(s, fd),
           pc \in Connecting \cup {"tls", "handshake"},
           fd = IF pc = "connecting" THEN wait.fd ELSE sock.sockfd,
           s # TIMEOUT \/ TimeUp,
           UNCHANGED <<now, due, limit, opens, abandoned, frame_max, conn, step, timer, heard>>
    PROVE  LoginInv'
  <1> USE DEF Before, Connecting, Sending, Expecting, Calling, Waiting
  <1>1. HandshakeType /\ StepInv /\ FdInv /\ SslInv /\ DueInv /\ WaitInv /\ Timely /\ TuneInv
    BY DEF LoginInv
  <1>2. /\ pc' = "closed" /\ status' = s /\ fds' = fds \ {fd} /\ ssls' = ssls \ {sock.ssl}
        /\ sock' = [sock EXCEPT !.sockfd = None, !.ssl = None] /\ wait' = NoWait
    BY DEF OpenFails
  <1>3. DueInv' /\ WaitInv' /\ Timely'
    <2>1. pc' \notin Calling
      BY <1>2
    <2> QED  BY <1>1, <1>2, <2>1, QuietTime
  <1>4. /\ sock' \in [kind : {"none", "tcp", "ssl"}, sockfd : Nat, ssl : Nat]
        /\ sock'.sockfd = None /\ sock'.ssl = None
    BY <1>1, <1>2 DEF HandshakeType, None
  <1>5. HandshakeType'
    BY <1>1, <1>2, <1>4 DEF HandshakeType
  <1>6. StepInv'
    BY <1>1, <1>2 DEF StepInv
  <1>7. FdInv'
    BY <1>1, <1>2, <1>4 DEF FdInv, NoWait
  <1>8. SslInv'
    BY <1>1, <1>2, <1>4 DEF SslInv
  <1>9. TuneInv'
    BY <1>1, <1>2, <1>4 DEF TuneInv, BufferMatches
  <1> QED  BY <1>3, <1>5, <1>6, <1>7, <1>8, <1>9 DEF LoginInv

LEMMA AddressFailsKeeps ==
    ASSUME LoginInv, NEW s, NEW fd, AddressFails(s, fd),
           pc \in {"connect", "connecting"},
           fd = IF pc = "connecting" THEN wait.fd ELSE sock.sockfd,
           s # TIMEOUT \/ TimeUp,
           UNCHANGED <<now, due, limit, opens, abandoned, frame_max, conn, step, timer, heard>>
    PROVE  LoginInv'
  <1> USE DEF Before, Connecting, Sending, Expecting, Calling, Waiting
  <1>1. HandshakeType /\ StepInv /\ FdInv /\ SslInv /\ DueInv /\ WaitInv /\ Timely /\ TuneInv
    BY DEF LoginInv
  <1>2. CASE s = TIMEOUT \/ todo = 1
    BY <1>2, OpenFailsKeeps DEF AddressFails
  <1>3. CASE ~ (s = TIMEOUT \/ todo = 1)
    <2>1. pc' = "connect" /\ fds' = fds \ {fd} /\ wait' = NoWait /\ UNCHANGED <<status, sock, ssls>>
      BY <1>3 DEF AddressFails
    <2>2. DueInv' /\ WaitInv' /\ Timely'
      BY <1>1, <2>1, QuietTime
    <2>3. HandshakeType' /\ StepInv'
      BY <1>1, <2>1 DEF HandshakeType, StepInv
    <2>4. FdInv' /\ SslInv'
      BY <1>1, <2>1 DEF FdInv, SslInv, OverTls, NoWait
    <2>5. TuneInv'
      BY <1>1, <2>1 DEF TuneInv, BufferMatches
    <2> QED  BY <2>2, <2>3, <2>4, <2>5 DEF LoginInv
  <1> QED  BY <1>2, <1>3

LEMMA AddressConnectsKeeps ==
    ASSUME LoginInv, NEW fd \in Nat \ {0}, AddressConnects(fd),
           pc \in {"connect", "connecting"}, fds \subseteq {fd},
           UNCHANGED <<now, due, limit, opens, abandoned, frame_max, conn, step, timer, heard>>
    PROVE  LoginInv'
  <1> USE DEF Before, Connecting, Sending, Expecting, Calling, Waiting
  <1>1. HandshakeType /\ StepInv /\ FdInv /\ SslInv /\ DueInv /\ WaitInv /\ Timely /\ TuneInv
    BY DEF LoginInv
  <1>2. /\ sock' = [sock EXCEPT !.sockfd = fd] /\ fds' = fds \cup {fd}
        /\ pc' = IF OverTls THEN "tls" ELSE "open"
        /\ wait' = NoWait /\ UNCHANGED <<status, ssls>>
    BY DEF AddressConnects
  <1>3. DueInv' /\ WaitInv' /\ Timely'
    BY <1>1, <1>2, QuietTime
  <1>4. /\ sock' \in [kind : {"none", "tcp", "ssl"}, sockfd : Nat, ssl : Nat]
        /\ sock'.sockfd = fd /\ sock'.ssl = sock.ssl /\ sock'.kind = sock.kind
        /\ fd # None
    BY <1>1, <1>2 DEF HandshakeType, None
  <1>5. HandshakeType'
    BY <1>1, <1>2, <1>4 DEF HandshakeType
  <1>6. StepInv'
    BY <1>1, <1>2 DEF StepInv
  <1>7. FdInv'
    BY <1>1, <1>2, <1>4 DEF FdInv, NoWait
  <1>8. SslInv'
    BY <1>1, <1>2, <1>4 DEF SslInv, OverTls
  <1>9. TuneInv'
    BY <1>1, <1>2 DEF TuneInv, BufferMatches
  <1> QED  BY <1>3, <1>5, <1>6, <1>7, <1>8, <1>9 DEF LoginInv

\* with no descriptor open, the next one is 1
LEMMA FirstFd == ASSUME fds = {} PROVE NewFd \in Nat \ {0}
  <1>1. Cardinality(fds) = 0
    BY FS_EmptySet
  <1>2. \E fd \in 1 .. Cardinality(fds) + 1 :
            fd \notin fds /\ \A lower \in 1 .. fd - 1 : lower \in fds
    <2>1. 1 \in 1 .. Cardinality(fds) + 1 /\ \A lower \in 1 .. 1 - 1 : lower \in fds
      BY <1>1
    <2> QED  BY <2>1
  <1>3. NewFd \in 1 .. Cardinality(fds) + 1
    BY <1>2 DEF NewFd
  <1> QED  BY <1>1, <1>3

LEMMA UrlStatus == ASSUME NEW scheme, NEW u PROVE amqp_parse_url(scheme, u).status # TIMEOUT
  BY DEF amqp_parse_url, Parsed, BAD_URL, TIMEOUT

(* The steps before there is a descriptor.  The deadline of open is set.   *)
LEMMA BeforeKeeps ==
    ASSUME LoginInv, UNCHANGED <<frame_max, conn, step, timer, heard>>,
           \/ ParseUrl \/ NewSocket \/ OpenInUse \/ OpenWithoutSsl
           \/ \E timeout \in Timeouts, clock \in Clock : Open(timeout, clock)
    PROVE  LoginInv'
  <1> USE DEF Before, Connecting, Sending, Expecting, Calling, Waiting
  <1>1. HandshakeType /\ StepInv /\ FdInv /\ SslInv /\ DueInv /\ WaitInv /\ Timely /\ TuneInv
    BY DEF LoginInv
  <1>2. ASSUME pc \in Before \cup {"open"}, UNCHANGED <<now, wait>>
        PROVE  wait = NoWait /\ wait' = NoWait
    BY <1>1, <1>2 DEF StepInv
  <1>3. CASE ParseUrl
    <2>1. /\ pc = "start" /\ pc' = "parsed"
          /\ UNCHANGED <<sock, fds, ssls, now, due, limit, wait, opens, abandoned>>
      BY <1>3 DEF ParseUrl
    <2>2. status' # TIMEOUT
      <3>1. status' = amqp_parse_url(url'.scheme, Written(url')).status
        BY <1>3 DEF ParseUrl, Read
      <3> QED  BY <3>1, UrlStatus
    <2>3. DueInv' /\ WaitInv' /\ Timely'
      BY <1>1, <1>2, <2>1, <2>2, QuietTime
    <2>4. HandshakeType' /\ StepInv' /\ FdInv' /\ SslInv' /\ TuneInv'
      BY <1>1, <2>1
      DEF HandshakeType, StepInv, FdInv, SslInv, OverTls, TuneInv, BufferMatches
    <2> QED  BY <2>3, <2>4 DEF LoginInv
  <1>4. CASE NewSocket
    <2>1. /\ pc = "parsed" /\ pc' = "closed"
          /\ sock' \in [kind : {"none", "tcp", "ssl"}, sockfd : Nat, ssl : Nat]
          /\ sock'.sockfd = None
          /\ UNCHANGED <<status, fds, ssls, now, due, limit, wait, opens, abandoned>>
      BY <1>4 DEF NewSocket, None
    <2>2. DueInv' /\ WaitInv' /\ Timely'
      BY <1>1, <1>2, <2>1, QuietTime
    <2>3. HandshakeType' /\ StepInv' /\ TuneInv'
      BY <1>1, <2>1 DEF HandshakeType, StepInv, TuneInv, BufferMatches
    <2>4. FdInv' /\ SslInv'
      BY <1>1, <2>1 DEF FdInv, SslInv, OverTls
    <2> QED  BY <2>2, <2>3, <2>4 DEF LoginInv
  <1>5. CASE OpenInUse
    <2>1. /\ pc = "open"
          /\ status' # TIMEOUT
          /\ UNCHANGED <<pc, sock, fds, ssls, now, due, limit, wait, opens, abandoned>>
      BY <1>5, NoTimeouts DEF OpenInUse
    <2>2. DueInv' /\ WaitInv' /\ Timely'
      BY <1>1, <1>2, <2>1, QuietTime
    <2>3. HandshakeType' /\ StepInv' /\ FdInv' /\ SslInv' /\ TuneInv'
      BY <1>1, <2>1
      DEF HandshakeType, StepInv, FdInv, SslInv, OverTls, TuneInv, BufferMatches
    <2> QED  BY <2>2, <2>3 DEF LoginInv
  <1>6. CASE OpenWithoutSsl
    <2>1. /\ pc = "closed" /\ opens' = opens + 1 /\ sock' = [sock EXCEPT !.ssl = None]
          /\ status' # TIMEOUT
          /\ UNCHANGED <<pc, fds, ssls, now, due, limit, wait, abandoned>>
      BY <1>6, NoTimeouts DEF OpenWithoutSsl, MayOpen
    <2>2. DueInv' /\ WaitInv' /\ Timely'
      BY <1>1, <1>2, <2>1, QuietTime
    <2>3. /\ sock' \in [kind : {"none", "tcp", "ssl"}, sockfd : Nat, ssl : Nat]
          /\ sock'.sockfd = sock.sockfd
      BY <1>1, <2>1 DEF HandshakeType, None
    <2>4. HandshakeType' /\ StepInv' /\ TuneInv'
      BY <1>1, <2>1, <2>3 DEF HandshakeType, StepInv, TuneInv, BufferMatches
    <2>5. FdInv' /\ SslInv'
      BY <1>1, <2>1, <2>3 DEF FdInv, SslInv, OverTls
    <2> QED  BY <2>2, <2>4, <2>5 DEF LoginInv
  <1>7. CASE \E timeout \in Timeouts, clock \in Clock : Open(timeout, clock)
    <2>1. PICK timeout \in Timeouts, clock \in Clock : Open(timeout, clock)
      BY <1>7
    <2> DEFINE deadline == amqp_time_from_now(clock, timeout)
               made == IF OverTls THEN {opens + 1} ELSE {}
    <2>2. /\ pc = "closed" /\ opens' = opens + 1
          /\ sock' = IF OverTls THEN [sock EXCEPT !.ssl = opens + 1] ELSE sock
          /\ ssls' = ssls \cup made /\ limit' = Limit(timeout)
          /\ status' = deadline.status
          /\ IF deadline.status # TIME_OK
             THEN abandoned' = abandoned \cup made /\ UNCHANGED <<pc, due>>
             ELSE pc' = "resolve" /\ due' = deadline.time /\ UNCHANGED abandoned
          /\ UNCHANGED <<fds, now, wait>>
      BY <2>1 DEF Open, MayOpen
    <2>3. /\ Limit(timeout) \in Int
          /\ deadline.status # TIMEOUT
          /\ deadline.status = TIME_OK =>
               /\ deadline.time \in Nat
               /\ Limit(timeout) = Forever \/ Limit(timeout) \in Nat \ {0}
               /\ Limit(timeout) = Forever => deadline.time = UINT64_MAX
               /\ Limit(timeout) # Forever /\ Limit(timeout) < UINT64_MAX =>
                    deadline.time = Limit(timeout)
      BY <1>1, TimeFacts, StartKeeps
    <2> HIDE DEF deadline
    <2>4. wait = NoWait /\ wait' = NoWait
      BY <1>2, <2>2
    <2>5. DueInv' /\ WaitInv' /\ Timely' /\ due' \in Nat
      <3>1. Timely'
        BY <2>2, <2>3 DEF Timely
      <3>2. WaitInv'
        BY <2>4 DEF WaitInv
      <3>3. DueInv' /\ due' \in Nat
        BY <1>1, <2>2, <2>3, TimeFacts DEF DueInv, Named64
      <3> QED  BY <3>1, <3>2, <3>3
    <2>6. /\ sock' \in [kind : {"none", "tcp", "ssl"}, sockfd : Nat, ssl : Nat]
          /\ sock'.sockfd = sock.sockfd /\ opens' \in Nat
          /\ OverTls' = OverTls /\ (OverTls => sock'.ssl = opens + 1)
      BY <1>1, <2>2 DEF HandshakeType, OverTls
    <2>7. HandshakeType' /\ StepInv' /\ TuneInv'
      BY <1>1, <2>2, <2>5, <2>6 DEF HandshakeType, StepInv, TuneInv, BufferMatches
    <2>8. FdInv'
      BY <1>1, <2>2, <2>6 DEF FdInv
    <2>9. SslInv'
      BY <1>1, <2>2, <2>6 DEF SslInv
    <2> QED  BY <2>5, <2>7, <2>8, <2>9 DEF LoginInv
  <1> QED  BY <1>3, <1>4, <1>5, <1>6, <1>7

(* connect_socket and amqp_open_socket_inner. *)
LEMMA ConnectKeeps ==
    ASSUME LoginInv, UNCHANGED <<frame_max, conn, step, timer, heard>>,
           \/ Resolve \/ ConnectSocket \/ ConnectEnds
           \/ \E clock \in Clock : ConnectInProgress(clock)
    PROVE  LoginInv'
  <1> USE DEF Before, Connecting, Sending, Expecting, Calling, Waiting
  <1>1. HandshakeType /\ StepInv /\ FdInv /\ SslInv /\ DueInv /\ WaitInv /\ Timely /\ TuneInv
    BY DEF LoginInv
  <1>2. ASSUME pc \in {"resolve", "connect", "connecting"}
        PROVE  /\ sock.sockfd = None /\ fds \subseteq {wait.fd}
               /\ pc # "connecting" => fds = {} /\ wait = NoWait
               /\ pc = "connecting" => wait # NoWait /\ wait.fd \in Nat \ {0}
    BY <1>1, <1>2 DEF HandshakeType, StepInv, FdInv, WaitType, NoWait, None
  <1>3. CASE Resolve
    <2>1. pc = "resolve" /\ UNCHANGED <<now, due, limit, opens, abandoned>>
      BY <1>3 DEF Resolve
    <2>2. CASE OpenFails(RESOLUTION_FAILED, None)
      BY <1>2, <2>1, <2>2, OpenFailsKeeps, NoTimeouts
    <2>3. CASE pc' = "connect" /\ UNCHANGED <<status, sock, fds, ssls, wait>>
      <3>1. DueInv' /\ WaitInv' /\ Timely'
        BY <1>1, <1>2, <2>1, <2>3, QuietTime
      <3>2. HandshakeType' /\ StepInv' /\ FdInv' /\ SslInv' /\ TuneInv'
        BY <1>1, <2>1, <2>3
        DEF HandshakeType, StepInv, FdInv, SslInv, OverTls, TuneInv, BufferMatches
      <3> QED  BY <3>1, <3>2 DEF LoginInv
    <2> QED  BY <1>3, <2>2, <2>3 DEF Resolve
  <1>4. CASE ConnectSocket
    <2>1. pc = "connect" /\ UNCHANGED <<now, due, limit, opens, abandoned>>
      BY <1>4 DEF ConnectSocket
    <2>2. CASE AddressFails(SOCKET_ERROR, None)
      BY <1>2, <2>1, <2>2, AddressFailsKeeps, NoTimeouts
    <2>3. CASE AddressConnects(NewFd)
      <3>1. fds = {} /\ NewFd \in Nat \ {0}
        BY <1>2, <2>1, FirstFd
      <3> QED  BY <2>1, <2>3, <3>1, AddressConnectsKeeps
    <2> QED  BY <1>4, <2>2, <2>3 DEF ConnectSocket
  <1>5. CASE ConnectEnds
    <2>1. pc = "connecting" /\ UNCHANGED <<now, due, limit, opens, abandoned>>
      BY <1>5 DEF ConnectEnds
    <2>2. CASE AddressConnects(wait.fd)
      BY <1>2, <2>1, <2>2, AddressConnectsKeeps
    <2>3. CASE AddressFails(SOCKET_ERROR, wait.fd)
      BY <2>1, <2>3, AddressFailsKeeps, NoTimeouts
    <2>4. CASE \E s \in Polled \ {TIME_OK} : AddressFails(s, wait.fd)
      BY <1>2, <2>1, <2>4, AddressFailsKeeps, OpeningOwn
    <2> QED  BY <1>5, <2>2, <2>3, <2>4 DEF ConnectEnds
  <1>6. CASE \E clock \in Clock : ConnectInProgress(clock)
    <2>1. PICK clock \in Clock : ConnectInProgress(clock)
      BY <1>6
    <2>2. /\ pc = "connect" /\ pc' = "connecting" /\ fds' = fds \cup {NewFd}
          /\ wait' = Sleep(NewFd, due, clock)
          /\ UNCHANGED <<status, sock, ssls, now, due, limit, opens, abandoned>>
      BY <2>1 DEF ConnectInProgress
    <2>3. NewFd \in Nat \ {0} /\ fds = {}
      BY <1>2, <2>2, FirstFd
    <2>4. /\ ~ Unbounded' => Own' \/ due <= due
          /\ Own' /\ limit = Forever => due = UINT64_MAX
          /\ Own' /\ Named64 => Close(due, now)
      BY <1>1, <2>2, TimeFacts DEF DueInv, Named64, Close
    <2>5. /\ DueInv' /\ WaitInv' /\ Timely'
          /\ wait' \in WaitType /\ wait'.fd = NewFd /\ wait' # NoWait
      BY <1>1, <2>2, <2>3, <2>4, TimeFacts, SleepTime
    <2> HIDE DEF NewFd
    <2>6. HandshakeType' /\ StepInv'
      BY <1>1, <2>2, <2>5 DEF HandshakeType, StepInv
    <2>7. FdInv' /\ SslInv' /\ TuneInv'
      BY <1>1, <1>2, <2>2, <2>3, <2>5 DEF FdInv, SslInv, OverTls, None, TuneInv, BufferMatches
    <2> QED  BY <2>5, <2>6, <2>7 DEF LoginInv
  <1> QED  BY <1>3, <1>4, <1>5, <1>6

(* The TLS handshake. *)
LEMMA TlsKeeps ==
    ASSUME LoginInv, UNCHANGED <<frame_max, conn, step, timer, heard>>,
           \/ TlsFails \/ TlsPolled
           \/ \E clock \in Clock : TlsWants(clock)
           \/ \E cert \in Some(Certificates), valid, verify_peer, verify_hostname \in BOOLEAN :
                  TlsConnected(cert, valid, verify_peer, verify_hostname)
    PROVE  LoginInv'
  <1> USE DEF Before, Connecting, Sending, Expecting, Calling, Waiting
  <1>1. HandshakeType /\ StepInv /\ FdInv /\ SslInv /\ DueInv /\ WaitInv /\ Timely /\ TuneInv
    BY DEF LoginInv
  <1>2. ASSUME pc \in {"tls", "handshake"}, pc' \in {"tls", "open"}, wait' = NoWait,
               UNCHANGED <<status, sock, fds, ssls, now, due, limit, opens, abandoned>>
        PROVE  LoginInv'
    <2>1. DueInv' /\ WaitInv' /\ Timely'
      BY <1>1, <1>2, QuietTime
    <2>2. HandshakeType' /\ StepInv'
      BY <1>1, <1>2 DEF HandshakeType, StepInv
    <2>3. FdInv' /\ SslInv' /\ TuneInv'
      BY <1>1, <1>2 DEF FdInv, SslInv, OverTls, NoWait, TuneInv, BufferMatches
    <2> QED  BY <2>1, <2>2, <2>3 DEF LoginInv
  <1>3. CASE TlsFails
    <2>1. PICK s \in {SSL_CONNECTION_FAILED, NO_MEMORY, SSL_ERROR} : OpenFails(s, sock.sockfd)
      BY <1>3 DEF TlsFails
    <2>2. pc = "tls" /\ UNCHANGED <<now, due, limit, opens, abandoned>>
      BY <1>3 DEF TlsFails
    <2> QED  BY <2>1, <2>2, OpenFailsKeeps, NoTimeouts
  <1>4. CASE TlsPolled
    <2>1. pc = "handshake" /\ UNCHANGED <<now, due, limit, opens, abandoned>>
      BY <1>4 DEF TlsPolled
    <2>2. wait # NoWait
      BY <1>1, <2>1 DEF StepInv
    <2>3. \/ pc' = "tls" /\ wait' = NoWait /\ UNCHANGED <<status, sock, fds, ssls>>
          \/ \E s \in Polled : OpenFails(s, sock.sockfd)
      BY <1>4 DEF TlsPolled
    <2> QED  BY <1>2, <2>1, <2>2, <2>3, OpenFailsKeeps, OpeningOwn
  <1>5. CASE \E clock \in Clock : TlsWants(clock)
    <2>1. PICK clock \in Clock : TlsWants(clock)
      BY <1>5
    <2>2. /\ pc = "tls" /\ pc' = "handshake" /\ wait' = Sleep(None, due, clock)
          /\ UNCHANGED <<status, sock, fds, ssls, now, due, limit, opens, abandoned>>
      BY <2>1 DEF TlsWants
    <2>3. /\ ~ Unbounded' => Own' \/ due <= due
          /\ Own' /\ limit = Forever => due = UINT64_MAX
          /\ Own' /\ Named64 => Close(due, now)
      BY <1>1, <2>2, TimeFacts DEF DueInv, Named64, Close
    <2>4. /\ DueInv' /\ WaitInv' /\ Timely'
          /\ wait' \in WaitType /\ wait'.fd = None /\ wait' # NoWait
      <3>1. None \in Nat
        BY DEF None
      <3> QED  BY <1>1, <2>2, <2>3, <3>1, TimeFacts, SleepTime
    <2>5. HandshakeType' /\ StepInv'
      BY <1>1, <2>2, <2>4 DEF HandshakeType, StepInv
    <2>6. wait = NoWait
      BY <1>1, <2>2 DEF StepInv
    <2>7. FdInv' /\ SslInv' /\ TuneInv'
      BY <1>1, <2>2, <2>4, <2>6 DEF FdInv, SslInv, OverTls, NoWait, TuneInv, BufferMatches
    <2> QED  BY <2>4, <2>5, <2>7 DEF LoginInv
  <1>6. CASE \E cert \in Some(Certificates), valid, verify_peer, verify_hostname \in BOOLEAN :
                 TlsConnected(cert, valid, verify_peer, verify_hostname)
    <2>1. /\ pc = "tls" /\ UNCHANGED <<now, due, limit, opens, abandoned>>
          /\ \/ pc' = "open" /\ UNCHANGED <<status, sock, fds, ssls, wait>>
             \/ OpenFails(PEER_VERIFY_FAILED, sock.sockfd)
             \/ OpenFails(HOSTNAME_VERIFY_FAILED, sock.sockfd)
      BY <1>6 DEF TlsConnected
    <2>2. wait = NoWait
      BY <1>1, <2>1 DEF StepInv
    <2> QED  BY <1>2, <2>1, <2>2, OpenFailsKeeps, NoTimeouts
  <1> QED  BY <1>3, <1>4, <1>5, <1>6

LEMMA OpeningKeeps == LoginInv /\ OpeningStep => LoginInv'
  <1> SUFFICES ASSUME LoginInv, OpeningNext, UNCHANGED <<frame_max, conn, step, timer, heard>>
               PROVE  LoginInv'
    BY DEF OpeningStep
  <1> QED  BY BeforeKeeps, ConnectKeeps, TlsKeeps DEF OpeningNext

-----------------------------------------------------------------------------
(* The steps of amqp_login.                                                *)

\* a login that closes the socket
LEMMA LoginFailsKeeps ==
    ASSUME LoginInv, NEW s, LoginFails(s), pc \in {"make"} \cup Sending \cup Expecting,
           s # TIMEOUT \/ TimeUp,
           UNCHANGED <<now, due, limit, opens, abandoned, frame_max, conn, heard>>
    PROVE  LoginInv'
  <1> USE DEF Before, Connecting, Sending, Expecting, Calling, Waiting
  <1>1. HandshakeType /\ StepInv /\ FdInv /\ SslInv /\ DueInv /\ WaitInv /\ Timely /\ TuneInv
    BY DEF LoginInv
  <1>2. /\ pc' = "failed" /\ status' = s /\ step' = "none" /\ wait' = NoWait /\ timer' = NoTimer
        /\ fds' = fds \ {sock.sockfd} /\ ssls' = ssls \ {sock.ssl}
        /\ sock' = [sock EXCEPT !.sockfd = None, !.ssl = None]
    BY DEF LoginFails, SocketClose
  <1>3. DueInv' /\ WaitInv' /\ Timely'
    BY <1>1, <1>2, QuietTime
  <1>4. /\ sock' \in [kind : {"none", "tcp", "ssl"}, sockfd : Nat, ssl : Nat]
        /\ sock'.sockfd = None /\ sock'.ssl = None
    BY <1>1, <1>2 DEF HandshakeType, None
  <1>5. HandshakeType' /\ StepInv'
    BY <1>1, <1>2, <1>4, NoTimerType DEF HandshakeType, StepInv
  <1>6. FdInv' /\ SslInv'
    BY <1>1, <1>2, <1>4 DEF FdInv, NoWait, SslInv
  <1>7. TuneInv'
    BY <1>1, <1>2, <1>4 DEF TuneInv, BufferMatches
  <1> QED  BY <1>3, <1>5, <1>6, <1>7 DEF LoginInv

\* a login that goes on, or leaves its socket to the application, without a wait
LEMMA LoginMovesKeeps ==
    ASSUME LoginInv, pc \in {"make"} \cup Sending \cup Expecting, wait' = NoWait,
           UNCHANGED <<sock, fds, ssls, now, due, limit, opens, abandoned, frame_max, conn, heard>>,
           timer' \in [send : Nat, recv : Nat],
           \/ /\ pc' = "failed" /\ step' = "none"
              /\ status' # TIMEOUT \/ TimeUp
           \/ pc' = "connected" /\ step = "OPEN_OK" /\ step' = "none" /\ status' = status
           \/ /\ pc' \in {"send", "expect", "make"} /\ status' = status
              /\ pc' = "send" => step' \in {"header", "START_OK", "TUNE_OK", "OPEN", "OPEN_OK"}
              /\ pc' = "expect" => step' \in {"START", "TUNE", "OPEN_OK"}
              /\ pc' = "make" => step' = "OPEN"
              /\ step' \in {"TUNE_OK", "OPEN", "OPEN_OK"} => step \in {"TUNE_OK", "OPEN", "OPEN_OK"}
    PROVE  LoginInv'
  <1> USE DEF Before, Connecting, Sending, Expecting, Calling, Waiting
  <1>1. HandshakeType /\ StepInv /\ FdInv /\ SslInv /\ DueInv /\ WaitInv /\ Timely /\ TuneInv
    BY DEF LoginInv
  <1>2. DueInv' /\ WaitInv' /\ Timely'
    BY <1>1, QuietTime
  <1>3. HandshakeType'
    BY <1>1 DEF HandshakeType
  <1>4. StepInv'
    BY <1>1 DEF StepInv
  <1>5. FdInv' /\ SslInv'
    BY <1>1 DEF FdInv, NoWait, SslInv, OverTls
  <1>6. TuneInv'
    BY <1>1 DEF TuneInv, BufferMatches
  <1> QED  BY <1>2, <1>3, <1>4, <1>5, <1>6 DEF LoginInv

\* a login that leaves its socket to the application
LEMMA LoginGivesUpKeeps ==
    ASSUME LoginInv, NEW s, LoginGivesUp(s), pc \in {"make"} \cup Sending \cup Expecting,
           s # TIMEOUT \/ TimeUp,
           UNCHANGED <<now, due, limit, opens, abandoned, frame_max, conn, heard>>
    PROVE  LoginInv'
  <1>1. /\ pc' = "failed" /\ status' = s /\ step' = "none" /\ wait' = NoWait /\ timer' = NoTimer
        /\ UNCHANGED <<sock, fds, ssls>>
    BY DEF LoginGivesUp
  <1> QED  BY <1>1, NoTimerType, LoginMovesKeeps

\* a login that waits for poll
LEMMA LoginSleepsKeeps ==
    ASSUME LoginInv, pc \in Sending \cup Expecting, pc' \in {"blocked", "read", "await"},
           pc' = "await" <=> pc \in Expecting,
           NEW deadline \in Nat, NEW clock \in Clock, wait' = Sleep(None, deadline, clock),
           ~ Unbounded' => Own' \/ deadline <= due,
           Own' /\ limit = Forever => deadline = UINT64_MAX,
           Own' /\ Named64 => Close(deadline, now) \/ Far(deadline, now),
           timer' \in [send : Nat, recv : Nat],
           UNCHANGED <<status, sock, fds, ssls, now, due, limit, opens, abandoned, frame_max, conn,
                       step, heard>>
    PROVE  LoginInv'
  <1> USE DEF Before, Connecting, Sending, Expecting, Calling, Waiting
  <1>1. HandshakeType /\ StepInv /\ FdInv /\ SslInv /\ DueInv /\ WaitInv /\ Timely /\ TuneInv
    BY DEF LoginInv
  <1>2. /\ DueInv' /\ WaitInv' /\ Timely'
        /\ wait' \in WaitType /\ wait'.fd = None /\ wait' # NoWait
    <2>1. None \in Nat /\ pc \in Calling /\ pc' \in Calling
      BY DEF None
    <2> QED  BY <1>1, <2>1, SleepTime
  <1>3. wait.fd = None /\ pc # "connecting" /\ pc' # "connecting"
    BY <1>1 DEF FdInv
  <1>4. HandshakeType' /\ StepInv'
    BY <1>1, <1>2 DEF HandshakeType, StepInv
  <1>5. FdInv' /\ SslInv' /\ TuneInv'
    BY <1>1, <1>2, <1>3 DEF FdInv, SslInv, OverTls, TuneInv, BufferMatches
  <1> QED  BY <1>2, <1>4, <1>5 DEF LoginInv

(* amqp_login begins: its deadline is set, or it fails for want of one.    *)
LEMMA LoginStarts ==
    ASSUME LoginInv,
           LoginRefused \/ \E timeout \in Timeouts, clock \in Clock : Login(timeout, clock)
    PROVE  LoginInv'
  <1> USE DEF Before, Connecting, Sending, Expecting, Calling, Waiting
  <1>1. HandshakeType /\ StepInv /\ FdInv /\ SslInv /\ DueInv /\ WaitInv /\ Timely /\ TuneInv
    BY DEF LoginInv
  <1>2. CASE LoginRefused
    <2>1. /\ pc = "open" /\ status' # TIMEOUT
          /\ UNCHANGED <<pc, sock, fds, ssls, now, due, limit, wait, opens, abandoned, frame_max,
                         conn, step, timer, heard>>
      BY <1>2, NoTimeouts DEF LoginRefused
    <2>2. wait' = NoWait
      BY <1>1, <2>1 DEF StepInv
    <2>3. DueInv' /\ WaitInv' /\ Timely'
      BY <1>1, <2>1, <2>2, QuietTime
    <2>4. HandshakeType' /\ StepInv' /\ FdInv' /\ SslInv' /\ TuneInv'
      BY <1>1, <2>1
      DEF HandshakeType, StepInv, FdInv, SslInv, OverTls, TuneInv, BufferMatches
    <2> QED  BY <2>3, <2>4 DEF LoginInv
  <1>3. CASE \E timeout \in Timeouts, clock \in Clock : Login(timeout, clock)
    <2>1. PICK timeout \in Timeouts, clock \in Clock : Login(timeout, clock)
      BY <1>3
    <2> DEFINE deadline == amqp_time_from_now(clock, timeout)
    <2>2. /\ pc = "open" /\ limit' = Limit(timeout)
          /\ IF deadline.status # TIME_OK
             THEN LoginFails(deadline.status) /\ UNCHANGED due
             ELSE /\ due' = deadline.time
                  /\ pc' = "send" /\ step' = "header" /\ status' = TIME_OK
                  /\ UNCHANGED <<sock, fds, ssls, wait, timer>>
          /\ UNCHANGED <<now, opens, abandoned, frame_max, conn, heard>>
      BY <2>1 DEF Login
    <2>3. /\ Limit(timeout) \in Int
          /\ deadline.status # TIMEOUT
          /\ deadline.status = TIME_OK =>
               /\ deadline.time \in Nat
               /\ Limit(timeout) = Forever \/ Limit(timeout) \in Nat \ {0}
               /\ Limit(timeout) = Forever => deadline.time = UINT64_MAX
               /\ Limit(timeout) # Forever /\ Limit(timeout) < UINT64_MAX =>
                    deadline.time = Limit(timeout)
      BY <1>1, TimeFacts, StartKeeps
    <2> HIDE DEF deadline
    <2>4. wait = NoWait
      BY <1>1, <2>2 DEF StepInv
    <2>5. CASE deadline.status = TIME_OK
      <3>1. /\ due' = deadline.time /\ pc' = "send" /\ step' = "header" /\ status' = TIME_OK
            /\ UNCHANGED <<sock, fds, ssls, wait, timer>>
        BY <2>2, <2>5
      <3>2. Timely' /\ WaitInv' /\ DueInv'
        BY <2>2, <2>3, <2>4, <2>5, <3>1, NoTimeouts DEF Timely, WaitInv, DueInv, Named64
      <3>3. HandshakeType' /\ StepInv'
        BY <1>1, <2>2, <2>3, <2>4, <2>5, <3>1 DEF HandshakeType, StepInv
      <3>4. FdInv' /\ SslInv' /\ TuneInv'
        BY <1>1, <2>2, <3>1 DEF FdInv, SslInv, OverTls, TuneInv, BufferMatches
      <3> QED  BY <3>2, <3>3, <3>4 DEF LoginInv
    <2>6. CASE deadline.status # TIME_OK
      <3>1. /\ pc' = "failed" /\ status' = deadline.status /\ step' = "none" /\ wait' = NoWait
            /\ fds' = fds \ {sock.sockfd} /\ ssls' = ssls \ {sock.ssl}
            /\ sock' = [sock EXCEPT !.sockfd = None, !.ssl = None] /\ due' = due
            /\ timer' = NoTimer
        BY <2>2, <2>6 DEF LoginFails, SocketClose
      <3>2. Timely' /\ WaitInv' /\ DueInv'
        BY <2>2, <2>3, <3>1 DEF Timely, WaitInv, DueInv
      <3>3. /\ sock' \in [kind : {"none", "tcp", "ssl"}, sockfd : Nat, ssl : Nat]
            /\ sock'.sockfd = None /\ sock'.ssl = None
        BY <1>1, <3>1 DEF HandshakeType, None
      <3>4. HandshakeType' /\ StepInv'
        BY <1>1, <2>2, <3>1, <3>3, NoTimerType DEF HandshakeType, StepInv
      <3>5. FdInv' /\ SslInv' /\ TuneInv'
        BY <1>1, <2>2, <2>4, <3>1, <3>3 DEF FdInv, NoWait, SslInv, TuneInv, BufferMatches
      <3> QED  BY <3>2, <3>4, <3>5 DEF LoginInv
    <2> QED  BY <2>5, <2>6
  <1> QED  BY <1>2, <1>3

(* What is sent. *)
LEMMA SendKeeps ==
    ASSUME LoginInv, NEW clock \in Clock,
           Send(clock) \/ SendEnds(clock) \/ SendBlocks(clock) \/ ReadEnds(clock)
    PROVE  LoginInv'
  <1> USE DEF Sending
  <1>1. HandshakeType /\ StepInv /\ FdInv /\ SslInv /\ DueInv /\ WaitInv /\ Timely /\ TuneInv
    BY DEF LoginInv
  <1>2. /\ UNCHANGED <<now, due, limit, opens, abandoned, frame_max, conn, heard>>
        /\ pc \in Sending /\ step \in {"header", "START_OK", "TUNE_OK", "OPEN", "OPEN_OK"}
    BY <1>1 DEF Send, SendEnds, SendBlocks, ReadEnds, loginOther, StepInv
  <1>3. timer \in [send : Nat, recv : Nat] /\ conn.heartbeat \in Nat /\ due \in Nat
    BY <1>1 DEF HandshakeType
  <1>4. ASSUME NEW s, SendFails(s), s # TIMEOUT \/ TimeUp
        PROVE  LoginInv'
    BY <1>2, <1>4, LoginGivesUpKeeps, LoginFailsKeeps DEF SendFails
  <1>5. CASE Sent(clock)
    <2> DEFINE next == amqp_time_s_from_now(clock, conn.heartbeat)
    <2>1. next.time \in Nat /\ next.status # TIMEOUT
      BY <1>1, <1>3, TimerTime
    <2>2. CASE next.status # TIME_OK
      BY <1>4, <1>5, <2>1, <2>2 DEF Sent
    <2>3. CASE next.status = TIME_OK
      <3>1. /\ wait' = NoWait /\ UNCHANGED <<status, sock, fds, ssls>>
            /\ pc' = IF step = "TUNE_OK" THEN "make" ELSE "expect"
            /\ step = "header" => step' = "START"
            /\ step = "START_OK" => step' = "TUNE"
            /\ step = "TUNE_OK" => step' = "OPEN"
            /\ step \in {"OPEN", "OPEN_OK"} => step' = "OPEN_OK"
            /\ timer' = [timer EXCEPT !.send = next.time]
        BY <1>5, <2>3 DEF Sent
      <3> HIDE DEF next
      <3>2. timer' \in [send : Nat, recv : Nat]
        BY <1>3, <2>1, <3>1
      <3> QED  BY <1>2, <3>1, <3>2, LoginMovesKeeps
    <2> QED  BY <2>2, <2>3
  <1>6. CASE Send(clock)
    BY <1>4, <1>5, <1>6, NoTimeouts DEF Send
  <1>7. CASE SendEnds(clock)
    <2>1. pc = "blocked" /\ wait # NoWait
      BY <1>1, <1>7 DEF SendEnds, StepInv, Waiting
    <2>2. PICK s \in Polled :
              CASE s = TIME_OK -> Sent(clock)
                [] s = TIMEOUT /\ step = "header" -> Sent(clock) \/ LoginFails(SHORT_COUNT)
                [] s = TIMEOUT /\ step # "header" /\ wait.deadline # SendDeadline -> Reads
                [] OTHER -> SendFails(s)
      BY <1>7 DEF SendEnds
    <2>3. \/ Sent(clock) \/ LoginFails(SHORT_COUNT) \/ Reads
          \/ SendFails(s) /\ (s = TIMEOUT => wait.deadline = SendDeadline)
      BY <2>2, NoTimeouts
    <2>4. CASE LoginFails(SHORT_COUNT)
      BY <1>2, <2>4, LoginFailsKeeps, NoTimeouts
    <2>5. CASE SendFails(s) /\ (s = TIMEOUT => wait.deadline = SendDeadline)
      <3>1. ASSUME s = TIMEOUT PROVE TimeUp
        <4>1. Ends /\ TIMEOUT \in Polled
          <5>1. TIMEOUT \notin {TIME_OK, SOCKET_ERROR}
            BY NoTimeouts
          <5> QED  BY <1>1, <2>1, <3>1, <5>1 DEF Polled, WaitInv
        <4>2. wait.deadline # UINT64_MAX
          BY <1>1, <2>1, <4>1 DEF WaitInv, Ends
        <4>3. step \notin {"OPEN", "OPEN_OK"} /\ wait.deadline = due
          BY <2>5, <3>1, <4>2 DEF SendDeadline, amqp_time_infinite
        <4> QED  BY <2>1, <4>1, <4>3 DEF TimeUp, Own, Unbounded
      <3> QED  BY <1>4, <2>5, <3>1
    <2>6. CASE Reads
      <3>1. /\ pc' = "read" /\ wait' = Sleep(None, UINT64_MAX, now)
            /\ UNCHANGED <<status, sock, fds, ssls, step, timer>>
        BY <2>6 DEF Reads, amqp_time_infinite
      <3>2. Unbounded' /\ ~ Own' /\ now \in Clock /\ UINT64_MAX \in Nat
        BY <3>1, Products DEF Unbounded, Own, Clock
      <3> QED  BY <1>2, <1>3, <2>1, <3>1, <3>2, LoginSleepsKeeps DEF Expecting
    <2> QED  BY <1>5, <2>3, <2>4, <2>5, <2>6
  <1>8. CASE SendBlocks(clock)
    <2> DEFINE deadline == amqp_time_first(SendDeadline, timer.recv)
    <2>1. /\ pc = "send" /\ pc' = "blocked" /\ wait' = Sleep(None, deadline, clock)
          /\ UNCHANGED <<status, sock, fds, ssls, step, timer>>
      BY <1>8 DEF SendBlocks
    <2>2. pc \in Calling /\ limit \in Int
      BY <1>1, <2>1 DEF Calling, DueInv
    <2>3. deadline \in Nat /\ (step \notin {"OPEN", "OPEN_OK"} => deadline <= due)
      BY <1>3, Products DEF amqp_time_first, SendDeadline, amqp_time_infinite
    <2> HIDE DEF deadline
    <2>4. wait'.deadline = deadline
      BY <2>1 DEF Sleep
    <2>5. /\ ~ Unbounded' => deadline <= due
          /\ Own' => deadline = due
      BY <1>2, <2>1, <2>3, <2>4 DEF Unbounded, Own
    <2>6. /\ limit = Forever => due = UINT64_MAX
          /\ Named64 => Close(due, now)
      BY <1>1, <2>2, TimeFacts DEF DueInv, Named64, Close
    <2> QED  BY <1>2, <1>3, <2>1, <2>3, <2>5, <2>6, LoginSleepsKeeps DEF Expecting
  <1>9. CASE ReadEnds(clock)
    <2>1. Renewed(clock).time \in Nat /\ Renewed(clock).status # TIMEOUT
      <3>1. 2 * conn.heartbeat \in Nat
        BY <1>3
      <3> QED  BY <1>1, <3>1, TimerTime DEF Renewed
    <2>2. \/ /\ pc' = "send" /\ wait' = NoWait
             /\ timer' = [timer EXCEPT !.recv = Renewed(clock).time]
             /\ UNCHANGED <<status, sock, fds, ssls, step>>
          \/ \E s \in {SOCKET_ERROR, CONNECTION_CLOSED, Renewed(clock).status} : SendFails(s)
      BY <1>9 DEF ReadEnds
    <2>3. CASE \E s \in {SOCKET_ERROR, CONNECTION_CLOSED, Renewed(clock).status} : SendFails(s)
      BY <1>4, <2>1, <2>3, NoTimeouts
    <2>4. CASE /\ pc' = "send" /\ wait' = NoWait
               /\ timer' = [timer EXCEPT !.recv = Renewed(clock).time]
               /\ UNCHANGED <<status, sock, fds, ssls, step>>
      <3>1. timer' \in [send : Nat, recv : Nat]
        BY <1>3, <2>1, <2>4
      <3> QED  BY <1>2, <2>4, <3>1, LoginMovesKeeps
    <2> QED  BY <2>2, <2>3, <2>4
  <1> QED  BY <1>6, <1>7, <1>8, <1>9

(* What is waited for. *)
LEMMA AwaitOpenOkKeeps ==
    ASSUME LoginInv, NEW timers \in [send : Nat, recv : Nat], NEW clock \in Clock,
           AwaitOpenOk(timers, clock), pc \in Expecting, step = "OPEN_OK",
           UNCHANGED <<now, due, limit, opens, abandoned, frame_max, conn, heard>>
    PROVE  LoginInv'
  <1> USE DEF Expecting
  <1>1. HandshakeType /\ DueInv /\ pc \in Calling /\ pc \notin Sending
    BY DEF LoginInv, Calling, Sending
  <1> DEFINE deadline == amqp_time_first(due, amqp_time_first(timers.recv, timers.send))
  <1>2. /\ pc' = "await" /\ wait' = Sleep(None, deadline, clock) /\ timer' = timers
        /\ UNCHANGED <<status, sock, fds, ssls, step>>
    BY DEF AwaitOpenOk
  <1>3. deadline \in Nat /\ deadline <= due
    BY <1>1 DEF HandshakeType, amqp_time_first
  <1> HIDE DEF deadline
  <1>4. wait'.deadline = deadline
    BY <1>2 DEF Sleep
  <1>5. Own' => deadline = due
    BY <1>2, <1>4 DEF Own
  <1>6. /\ limit = Forever => due = UINT64_MAX
        /\ Named64 => Close(due, now)
    BY <1>1, TimeFacts DEF DueInv, Named64, Close
  <1> QED  BY <1>2, <1>3, <1>5, <1>6, LoginSleepsKeeps

LEMMA ExpectKeeps ==
    ASSUME LoginInv, NEW clock \in Clock, Expect(clock)
    PROVE  LoginInv'
  <1>1. HandshakeType /\ StepInv /\ FdInv /\ SslInv /\ DueInv /\ WaitInv /\ Timely /\ TuneInv
    BY DEF LoginInv
  <1>2. /\ pc = "expect"
        /\ UNCHANGED <<now, due, limit, opens, abandoned, frame_max, conn, heard>>
        /\ timer \in [send : Nat, recv : Nat]
    BY <1>1 DEF Expect, loginOther, HandshakeType
  <1>3. CASE step = "OPEN_OK"
    BY <1>2, <1>3, AwaitOpenOkKeeps DEF Expect, Expecting
  <1>4. CASE step # "OPEN_OK"
    <2> DEFINE until == WaitUntil(clock)
    <2>1. IF until.status # TIME_OK THEN LoginFails(until.status)
          ELSE /\ pc' = "await"
               /\ wait' = Sleep(None, until.time, clock)
               /\ UNCHANGED <<status, sock, fds, ssls, step, timer>>
      BY <1>4 DEF Expect
    <2>2. /\ limit \in Int /\ (limit = Forever \/ limit \in Nat \ {0})
          /\ limit = Forever => due = UINT64_MAX
          /\ Named64 => due = limit
      BY <1>1, <1>2 DEF DueInv, Calling, Expecting
    <2>3. /\ until.status # TIMEOUT
          /\ until.status = TIME_OK =>
               /\ until.time \in Nat
               /\ limit = Forever => until.time = UINT64_MAX
               /\ Named64 => Close(until.time, now) \/ Far(until.time, now)
      BY <1>1, <2>2, TimeFacts, UntilKeeps
    <2> HIDE DEF until
    <2>4. CASE until.status # TIME_OK
      BY <1>2, <2>1, <2>3, <2>4, LoginFailsKeeps DEF Expecting
    <2>5. CASE until.status = TIME_OK
      <3>1. ~ Unbounded' => Own'
        BY <1>4, <2>1, <2>5 DEF Own
      <3> QED  BY <1>2, <2>1, <2>3, <2>5, <3>1, LoginSleepsKeeps DEF Expecting, Sending
    <2> QED  BY <2>4, <2>5
  <1> QED  BY <1>3, <1>4

LEMMA AwaitKeeps ==
    ASSUME LoginInv,
           \/ AwaitFails \/ TakeOther \/ TakeClose \/ TakeOpenOk
           \/ \E clock \in Clock : HearOther(clock)
           \/ \E s \in Outcomes : StartTaken(s)
    PROVE  LoginInv'
  <1> USE DEF Expecting
  <1>1. HandshakeType /\ StepInv /\ FdInv /\ SslInv /\ DueInv /\ WaitInv /\ Timely /\ TuneInv
    BY DEF LoginInv
  <1>2. /\ pc = "await" /\ UNCHANGED <<now, due, limit, opens, abandoned, frame_max, conn, heard>>
        /\ timer \in [send : Nat, recv : Nat] /\ conn.heartbeat \in Nat
    BY <1>1 DEF AwaitFails, TakeOther, TakeClose, TakeOpenOk, HearOther, StartTaken, Arrives,
                loginOther, HandshakeType
  <1>3. wait # NoWait /\ (TIMEOUT \in Polled /\ Own => TimeUp)
    BY <1>1, <1>2 DEF StepInv, Waiting, TimeUp
  <1>4. ASSUME NEW s, LoginFails(s) \/ LoginGivesUp(s), s # TIMEOUT \/ TimeUp
        PROVE  LoginInv'
    BY <1>2, <1>4, LoginGivesUpKeeps, LoginFailsKeeps
  <1>5. CASE AwaitFails
    <2>1. CASE TIMEOUT \in Polled /\ AwaitTimesOut
      <3>1. \/ LoginFails(HEARTBEAT_TIMEOUT)
            \/ /\ step = "OPEN_OK" /\ pc' = "send" /\ wait' = NoWait
               /\ UNCHANGED <<status, sock, fds, ssls, step, timer>>
            \/ LoginFails(TIMEOUT) /\ (step = "OPEN_OK" => wait.deadline = due)
        BY <2>1 DEF AwaitTimesOut
      <3>2. CASE LoginFails(HEARTBEAT_TIMEOUT)
        BY <1>4, <3>2, NoTimeouts
      <3>3. CASE /\ step = "OPEN_OK" /\ pc' = "send" /\ wait' = NoWait
                 /\ UNCHANGED <<status, sock, fds, ssls, step, timer>>
        BY <1>2, <3>3, LoginMovesKeeps
      <3>4. CASE LoginFails(TIMEOUT) /\ (step = "OPEN_OK" => wait.deadline = due)
        <4>1. TimeUp
          BY <1>2, <1>3, <2>1, <3>4 DEF Own, Unbounded
        <4> QED  BY <1>4, <3>4, <4>1
      <3> QED  BY <3>1, <3>2, <3>3, <3>4
    <2>2. CASE \E s \in (Polled \ {TIME_OK, TIMEOUT})
                            \cup (IF Sleeping THEN {CONNECTION_CLOSED} ELSE {}) :
                   IF step = "OPEN_OK" THEN LoginGivesUp(s) ELSE LoginFails(s)
      <3>1. PICK s \in (Polled \ {TIME_OK, TIMEOUT}) \cup {CONNECTION_CLOSED} :
                     LoginFails(s) \/ LoginGivesUp(s)
        BY <2>2
      <3> QED  BY <1>4, <3>1, NoTimeouts
    <2> QED  BY <1>5, <2>1, <2>2 DEF AwaitFails
  <1>6. CASE TakeOther \/ TakeClose
    BY <1>4, <1>6, NoTimeouts DEF TakeOther, TakeClose
  <1>7. CASE TakeOpenOk
    <2>1. /\ step = "OPEN_OK" /\ pc' = "connected" /\ step' = "none" /\ wait' = NoWait
          /\ timer' = NoTimer /\ UNCHANGED <<status, sock, fds, ssls>>
      BY <1>7 DEF TakeOpenOk
    <2> QED  BY <1>2, <2>1, NoTimerType, LoginMovesKeeps
  <1>8. CASE \E s \in Outcomes : StartTaken(s)
    <2>1. PICK s \in Outcomes : StartTaken(s)
      BY <1>8
    <2>2. CASE s = TIME_OK
      <3>1. /\ pc' = "send" /\ step' = "START_OK" /\ wait' = NoWait
            /\ UNCHANGED <<status, sock, fds, ssls, timer>>
        BY <2>1, <2>2 DEF StartTaken
      <3> QED  BY <1>2, <3>1, LoginMovesKeeps
    <2>3. CASE s # TIME_OK
      BY <1>4, <2>1, <2>3, NoTimeouts DEF StartTaken
    <2> QED  BY <2>2, <2>3
  <1>9. CASE \E clock \in Clock : HearOther(clock)
    <2>1. PICK clock \in Clock : HearOther(clock)
      BY <1>9
    <2>2. Renewed(clock).time \in Nat /\ Renewed(clock).status # TIMEOUT
      <3>1. 2 * conn.heartbeat \in Nat
        BY <1>2
      <3> QED  BY <1>1, <3>1, TimerTime DEF Renewed
    <2>3. CASE LoginGivesUp(Renewed(clock).status)
      BY <1>4, <2>2, <2>3
    <2>4. CASE AwaitOpenOk([timer EXCEPT !.recv = Renewed(clock).time], clock)
      <3>1. [timer EXCEPT !.recv = Renewed(clock).time] \in [send : Nat, recv : Nat]
        BY <1>2, <2>2
      <3>2. step = "OPEN_OK"
        BY <2>1 DEF HearOther
      <3> QED  BY <1>2, <2>4, <3>1, <3>2, AwaitOpenOkKeeps
    <2> QED  BY <2>1, <2>3, <2>4 DEF HearOther
  <1> QED  BY <1>5, <1>6, <1>7, <1>8, <1>9

(* connection.tune: the limits and the buffer change, and if they do not   *)
(* become one the socket is closed.                                        *)
LEMMA TunedNat == ASSUME NEW offer \in Offers.all PROVE Tuned(offer).heartbeat \in Nat
  <1>1. offer.client.heartbeat \in Nat /\ offer.server.heartbeat \in Nat
    <2>1. offer.client \in AnyLimits /\ offer.server \in AnyLimits
      BY OfferAssumption, Zenon
    <2>2. /\ offer.client.heartbeat \in 0 .. AllChannels
          /\ offer.server.heartbeat \in 0 .. AllChannels
      BY <2>1, Zenon DEF AnyLimits
    <2> QED  BY <2>2, AllChannelsNat
  <1> QED  BY <1>1 DEF Tuned, TunedHeartbeat

LEMMA TuneKeeps ==
    ASSUME LoginInv, NEW offer \in Offers.all, NEW clock \in Clock, NEW memory \in BOOLEAN,
           NEW s \in Outcomes, TuneTaken(offer, clock, memory, s)
    PROVE  LoginInv'
  <1> USE DEF Before, Connecting, Sending, Expecting, Calling, Waiting
  <1>1. HandshakeType /\ StepInv /\ FdInv /\ SslInv /\ DueInv /\ WaitInv /\ Timely /\ TuneInv
    BY DEF LoginInv
  <1> DEFINE tuned == Tuned(offer)
             timers == Timers(offer, clock)
             grown == timers = TIME_OK /\ memory
  <1>2. /\ pc = "await" /\ step = "TUNE"
        /\ heard' = [about |-> "tune", offer |-> offer, sent |-> tuned]
        /\ conn' = [channel_max |-> tuned.channel_max, frame_max |-> tuned.frame_max,
                    heartbeat |-> tuned.heartbeat,
                    allocated |-> IF grown THEN tuned.frame_max ELSE conn.allocated]
        /\ frame_max' = IF timers = TIME_OK THEN tuned.frame_max ELSE frame_max
        /\ UNCHANGED <<now, due, limit, opens, abandoned>>
        /\ IF grown /\ s = TIME_OK
           THEN /\ pc' = "send" /\ step' = "TUNE_OK" /\ wait' = NoWait
                /\ timer' = StartedTimer(offer, clock)
                /\ UNCHANGED <<status, sock, fds, ssls>>
           ELSE LoginFails(IF timers # TIME_OK THEN timers
                           ELSE IF ~ memory THEN NO_MEMORY ELSE s)
    BY DEF TuneTaken, Arrives, TunedLength
  <1>3. timers # TIMEOUT
    BY Statuses DEF Timers, amqp_time_s_from_now, PointAfter
  <1>6. tuned.heartbeat \in Nat /\ StartedTimer(offer, clock) \in [send : Nat, recv : Nat]
    <2>1. tuned.heartbeat \in Nat /\ 2 * tuned.heartbeat \in Nat
      BY TunedNat
    <2> HIDE DEF tuned
    <2>2. /\ amqp_time_s_from_now(clock, tuned.heartbeat).time \in Nat
          /\ amqp_time_s_from_now(clock, 2 * tuned.heartbeat).time \in Nat
      BY <1>1, <2>1, TimerTime
    <2> QED  BY <2>1, <2>2 DEF StartedTimer, tuned
  <1> HIDE DEF timers, tuned
  <1>4. CASE grown /\ s = TIME_OK
    <2>1. /\ pc' = "send" /\ step' = "TUNE_OK" /\ wait' = NoWait
          /\ timer' = StartedTimer(offer, clock) /\ UNCHANGED <<status, sock, fds, ssls>>
      BY <1>2, <1>4
    <2>2. DueInv' /\ WaitInv' /\ Timely'
      BY <1>1, <1>2, <2>1, QuietTime
    <2>3. HandshakeType' /\ StepInv'
      BY <1>1, <1>2, <1>6, <2>1 DEF HandshakeType, StepInv
    <2>4. FdInv' /\ SslInv'
      BY <1>1, <1>2, <2>1 DEF FdInv, NoWait, SslInv, OverTls
    <2>5. TuneInv'
      <3>1. BufferMatches'
        BY <1>2, <1>4 DEF BufferMatches
      <3> QED  BY <1>2, <1>4, <3>1 DEF TuneInv, tuned
    <2> QED  BY <2>2, <2>3, <2>4, <2>5 DEF LoginInv
  <1>5. CASE ~ (grown /\ s = TIME_OK)
    <2>1. PICK t \in {timers, NO_MEMORY, s} : LoginFails(t)
      BY <1>2, <1>5
    <2>2. /\ pc' = "failed" /\ status' = t /\ step' = "none" /\ wait' = NoWait
          /\ timer' = NoTimer /\ fds' = fds \ {sock.sockfd} /\ ssls' = ssls \ {sock.ssl}
          /\ sock' = [sock EXCEPT !.sockfd = None, !.ssl = None]
      BY <2>1 DEF LoginFails, SocketClose
    <2>3. t # TIMEOUT
      BY <1>3, NoTimeouts
    <2>4. DueInv' /\ WaitInv' /\ Timely'
      BY <1>1, <1>2, <2>2, <2>3, QuietTime
    <2>5. /\ sock' \in [kind : {"none", "tcp", "ssl"}, sockfd : Nat, ssl : Nat]
          /\ sock'.sockfd = None /\ sock'.ssl = None
      BY <1>1, <2>2 DEF HandshakeType, None
    <2>6. HandshakeType' /\ StepInv'
      BY <1>1, <1>2, <1>6, <2>2, <2>5, NoTimerType DEF HandshakeType, StepInv
    <2>7. FdInv' /\ SslInv'
      BY <1>1, <1>2, <2>2, <2>5 DEF FdInv, NoWait, SslInv
    <2>8. TuneInv'
      BY <1>2, <2>2, <2>5 DEF TuneInv, tuned
    <2> QED  BY <2>4, <2>6, <2>7, <2>8 DEF LoginInv
  <1> QED  BY <1>4, <1>5

(* connection.open is made, and the connection destroyed. *)
LEMMA EndKeeps ==
    ASSUME LoginInv, Destroy \/ \E s \in Outcomes : OpenMade(s)
    PROVE  LoginInv'
  <1> USE DEF Before, Connecting, Sending, Expecting, Calling, Waiting
  <1>1. HandshakeType /\ StepInv /\ FdInv /\ SslInv /\ DueInv /\ WaitInv /\ Timely /\ TuneInv
    BY DEF LoginInv
  <1>2. CASE \E s \in Outcomes : OpenMade(s)
    <2>1. PICK s \in Outcomes : OpenMade(s)
      BY <1>2
    <2>2. pc = "make" /\ UNCHANGED <<now, due, limit, opens, abandoned, frame_max, conn, heard>>
      BY <2>1 DEF OpenMade, loginOther
    <2>3. wait = NoWait /\ step = "OPEN"
      BY <1>1, <2>2 DEF StepInv
    <2>4. CASE LoginGivesUp(s)
      BY <2>2, <2>4, LoginGivesUpKeeps, NoTimeouts
    <2>5. CASE pc' = "send" /\ UNCHANGED <<status, sock, fds, ssls, step, wait, timer>>
      <3>1. timer' \in [send : Nat, recv : Nat]
        BY <1>1, <2>5 DEF HandshakeType
      <3> QED  BY <2>2, <2>3, <2>5, <3>1, LoginMovesKeeps
    <2> QED  BY <2>1, <2>4, <2>5 DEF OpenMade
  <1>3. CASE Destroy
    <2>1. /\ pc \in {"closed", "open", "failed", "connected"} /\ pc' = "destroyed"
          /\ status' = TIME_OK
          /\ IF sock.sockfd # None
             THEN /\ fds' = fds \ {sock.sockfd} /\ ssls' = ssls \ {sock.ssl}
                  /\ sock' = [sock EXCEPT !.sockfd = None, !.ssl = None]
             ELSE UNCHANGED <<sock, fds, ssls>>
          /\ conn' = NewConnection /\ frame_max' = InitialFrameMax
          /\ due' = UINT64_MAX /\ limit' = Forever /\ heard' = NothingHeard
          /\ UNCHANGED <<now, wait, opens, abandoned, step, timer>>
      BY <1>3 DEF Destroy, SocketClose
    <2>2. wait = NoWait
      BY <1>1, <2>1 DEF StepInv
    <2>3. Timely' /\ WaitInv' /\ DueInv'
      BY <2>1, <2>2, NoTimeouts DEF Timely, WaitInv, DueInv, Forever
    <2>4. /\ sock' \in [kind : {"none", "tcp", "ssl"}, sockfd : Nat, ssl : Nat]
          /\ sock'.sockfd = None
      <3>1. CASE sock.sockfd = None
        BY <1>1, <2>1, <3>1 DEF HandshakeType
      <3>2. CASE sock.sockfd # None
        <4>1. sock' = [sock EXCEPT !.sockfd = None, !.ssl = None]
          BY <2>1, <3>2
        <4> QED  BY <1>1, <4>1 DEF HandshakeType, None
      <3> QED  BY <3>1, <3>2
    <2>5. HandshakeType' /\ StepInv'
      BY <1>1, <2>1, <2>4, TimeFacts DEF HandshakeType, StepInv, NewConnection
    <2>6. FdInv'
      BY <1>1, <2>1, <2>2, <2>4 DEF FdInv, NoWait
    <2>7. SslInv'
      BY <1>1, <2>1, <2>4 DEF SslInv, HandshakeType
    <2>8. TuneInv'
      BY <2>1 DEF TuneInv, BufferMatches, NewConnection, NothingHeard
    <2> QED  BY <2>3, <2>5, <2>6, <2>7, <2>8 DEF LoginInv
  <1> QED  BY <1>2, <1>3

LEMMA LoginInvStep == LoginInv /\ [HandshakeNext]_handshakeVars => LoginInv'
  <1> SUFFICES ASSUME LoginInv, [HandshakeNext]_handshakeVars PROVE LoginInv'
    OBVIOUS
  <1>1. CASE UNCHANGED handshakeVars
    <2>1. /\ UNCHANGED <<pc, status, sock, fds, ssls, now, due, limit, wait, opens, abandoned>>
          /\ UNCHANGED <<frame_max, conn, step, timer, heard>>
      BY <1>1 DEF handshakeVars, openingVars
    <2>2. HandshakeType' /\ StepInv' /\ FdInv' /\ SslInv' /\ TuneInv'
      BY <2>1
      DEF LoginInv, HandshakeType, StepInv, FdInv, SslInv, OverTls, TuneInv, BufferMatches
    <2>3. DueInv' /\ Timely'
      BY <2>1 DEF LoginInv, DueInv, Named64, Timely, InRange
    <2>4. WaitInv'
      BY <2>1, Zenon DEF LoginInv, WaitInv, Ends, Sleeping, WakesAt, Named64, Close, Far, InRange,
                         Latest, Own, Unbounded
    <2> QED  BY <2>2, <2>3, <2>4 DEF LoginInv
  <1>2. CASE HandshakeNext
    <2>1. CASE LoginStep
      BY <2>1, LoginStarts, SendKeeps, ExpectKeeps, AwaitKeeps DEF LoginStep
    <2> QED
      BY <1>2, <2>1, OpeningKeeps, TickKeeps, PollAgainKeeps, AwaitKeeps, TuneKeeps, EndKeeps
      DEF HandshakeNext
  <1> QED  BY <1>1, <1>2

LEMMA LoginInvAlways == HandshakeSpec => []LoginInv
  BY LoginInvInit, LoginInvStep, PTL DEF HandshakeSpec

(***************************************************************************)
(* However open and login end (amqp_tcp_socket.c:62, amqp_openssl.c:179,   *)
(* amqp_socket.c:1255), a descriptor that is open is that of the socket or *)
(* of the connect() under way, an SSL object that of the socket or one     *)
(* that was given up for want of a deadline; a socket that is open has     *)
(* both; and a connection that is destroyed leaves none open.              *)
(***************************************************************************)
THEOREM ResourcesAlwaysHeld == HandshakeSpec => []ResourcesHeld
  <1>1. LoginInv => ResourcesHeld
    <2> SUFFICES ASSUME LoginInv PROVE ResourcesHeld
      OBVIOUS
    <2>1. FdInv /\ SslInv
      BY DEF LoginInv
    <2>2. fds \subseteq {sock.sockfd, wait.fd} /\ ssls \subseteq {sock.ssl} \cup abandoned
      BY <2>1 DEF FdInv, SslInv
    <2>3. sock.sockfd # None => sock.sockfd \in fds /\ (OverTls => sock.ssl \in ssls)
      BY <2>1 DEF FdInv, SslInv
    <2>4. pc = "destroyed" => fds = {}
      BY <2>1 DEF FdInv
    <2> QED  BY <2>2, <2>3, <2>4 DEF ResourcesHeld
  <1> QED  BY <1>1, LoginInvAlways, PTL

(***************************************************************************)
(* Every wait of open and login that has the deadline of its caller keeps  *)
(* it, through amqp_poll, its restarts after signals, the heartbeats that  *)
(* end a wait before, and the conversions of a deadline to a timeout and   *)
(* back (amqp_socket.c:1110, 1203): no timeout a millisecond early, no     *)
(* sleep beyond the deadline.  That leaves out the three that are made     *)
(* without it: the read of a send that has no room (763), and the send of  *)
(* connection.open (1049) and of a heartbeat (805).  For a clock and an    *)
(* int of any width, any timeout, any heartbeat and any number of restarts.*)
(***************************************************************************)
THEOREM DeadlineAlwaysKept == HandshakeSpec => []DeadlineKept
  <1>1. LoginInv => DeadlineKept
    <2> SUFFICES ASSUME LoginInv PROVE DeadlineKept
      OBVIOUS
    <2>1. WaitInv /\ Timely
      BY DEF LoginInv
    <2>2. ASSUME Sleeping, InRange(wait.since), ~ Unbounded
          PROVE  Ends /\ WakesAt <= Latest(wait.since)
      <3>1. wait # NoWait /\ Named64
        BY <2>2 DEF Sleeping, InRange, Named64
      <3> QED  BY <2>1, <2>2, <3>1 DEF WaitInv
    <2> QED  BY <2>1, <2>2, Zenon DEF Timely, DeadlineKept
  <1> QED  BY <1>1, LoginInvAlways, PTL

LEMMA LargestFrameNat == LargestFrame \in Nat
  BY SMT DEF LargestFrame

LEMMA HeartbeatAgreed ==
    ASSUME NEW client \in 0 .. AllChannels, NEW server \in 0 .. AllChannels
    PROVE  TunedHeartbeat(client, server) =
               IF client = 0 THEN 0 ELSE LowerOf(client, server, AllChannels)
  BY AllChannelsNat, SMT DEF TunedHeartbeat, LowerOf, Bound

(***************************************************************************)
(* What amqp_login_inner (amqp_socket.c:1373) tells the broker with        *)
(* tune-ok is the lower of the two limits, whatever both sides offer; a    *)
(* connection that is made keeps to it; and the buffer has the length that *)
(* the library takes it to have as long as there is a socket, whichever    *)
(* step of amqp_tune_connection fails.                                     *)
(***************************************************************************)
THEOREM TuningAlwaysAgreed == HandshakeSpec => []TuningAgreed
  <1>1. LoginInv => TuningAgreed
    <2> SUFFICES ASSUME LoginInv PROVE TuningAgreed
      OBVIOUS
    <2>1. TuneInv
      BY DEF LoginInv
    <2>2. sock.sockfd # None => BufferMatches
      BY <2>1 DEF TuneInv
    <2>3. ASSUME heard.about = "tune"
          PROVE  LET c == heard.offer.client
                     s == heard.offer.server
                 IN  /\ heard.sent.channel_max = LowerOf(c.channel_max, s.channel_max, AllChannels)
                     /\ heard.sent.frame_max = LowerOf(c.frame_max, s.frame_max, LargestFrame)
                     /\ heard.sent.heartbeat =
                            IF c.heartbeat = 0 THEN 0
                            ELSE LowerOf(c.heartbeat, s.heartbeat, AllChannels)
                     /\ pc = "connected" =>
                            /\ conn.channel_max = heard.sent.channel_max
                            /\ conn.heartbeat = heard.sent.heartbeat
                            /\ frame_max = heard.sent.frame_max
      <3> DEFINE mine == heard.offer.client
                 theirs == heard.offer.server
      <3>1. heard.offer \in Offers.all /\ heard.sent = Tuned(heard.offer)
        BY <2>1, <2>3 DEF TuneInv
      <3>2. mine \in AnyLimits /\ theirs \in AnyLimits /\ mine.frame_max # 0
        BY <3>1, OfferAssumption
      <3>3. heard.sent = [channel_max |-> TunedChannelMax(mine.channel_max, theirs.channel_max),
                          frame_max   |-> TunedFrameMax(mine.frame_max, theirs.frame_max),
                          heartbeat   |-> TunedHeartbeat(mine.heartbeat, theirs.heartbeat)]
        BY <3>1 DEF Tuned
      <3> HIDE DEF mine, theirs
      <3>4. /\ heard.sent.channel_max = LowerOf(mine.channel_max, theirs.channel_max, AllChannels)
            /\ heard.sent.heartbeat = IF mine.heartbeat = 0 THEN 0
                                      ELSE LowerOf(mine.heartbeat, theirs.heartbeat, AllChannels)
        BY <3>2, <3>3, ChannelMaxAgreed, HeartbeatAgreed DEF AnyLimits
      <3>5. heard.sent.frame_max = LowerOf(mine.frame_max, theirs.frame_max, LargestFrame)
        <4>1. /\ LargestFrame \in Nat
              /\ mine.frame_max \in 1 .. LargestFrame /\ theirs.frame_max \in 0 .. LargestFrame
          BY <3>2, LargestFrameNat DEF AnyLimits
        <4> QED  BY <3>3, <4>1, FrameMaxAgreed
      <3>6. pc = "connected" => /\ conn.channel_max = heard.sent.channel_max
                                /\ conn.heartbeat = heard.sent.heartbeat
                                /\ frame_max = heard.sent.frame_max
        BY <2>1, <2>3 DEF TuneInv
      <3> QED  BY <3>4, <3>5, <3>6 DEF mine, theirs
    <2> QED  BY <2>2, <2>3 DEF TuningAgreed
  <1> QED  BY <1>1, LoginInvAlways, PTL

-----------------------------------------------------------------------------
(***************************************************************************)
(* Host names.  amqp_hostcheck works with positions: of the wildcard, of   *)
(* the first dots of name and host, of what is left behind them.  It       *)
(* accepts what RFC 6125 accepts, whatever characters both are made of,    *)
(* and amqp_ssl_validate_hostname judges a certificate by it.              *)
(***************************************************************************)
\* the least number of a set of numbers
LEMMA MinIs ==
    ASSUME NEW S \in SUBSET Nat, S # {}
    PROVE  Min(S) \in S /\ \A y \in S : Min(S) <= y
  <1> DEFINE Below == {ss \in Nat \X Nat : ss[1] < ss[2]}
  <1>1. IsWellFoundedOn(Below, Nat)
    <2>1. OpToRel(<, Nat) = Below
      BY DEF OpToRel
    <2> QED  BY <2>1, NatLessThanWellFounded, Zenon
  <1>2. PICK x \in S : \A y \in S : ~ (<<y, x>> \in Below)
    BY <1>1, WFMin
  <1>3. ASSUME NEW y \in S PROVE x <= y
    <2>1. x \in Nat /\ y \in Nat /\ <<y, x>> \notin Below
      BY <1>2
    <2>2. <<y, x>> \in Below <=> y < x
      BY <2>1
    <2> QED  BY <2>1, <2>2
  <1> QED  BY <1>3 DEF Min

\* upper and lower case change no dot, and make none
LEMMA DotAlone == ASSUME NEW c PROVE SameCharacter(c, ".") <=> c = "."
  <1>1. \A i \in 1..26 : Lower[i] # "." /\ Upper[i] # "."
    BY DEF Lower, Upper
  <1>2. amqp_raw_toupper(".") = "."
    BY <1>1 DEF amqp_raw_toupper
  <1>3. ASSUME amqp_raw_toupper(c) = "." PROVE c = "."
    <2>1. CASE \E i \in 1..26 : Lower[i] = c
      <3>1. PICK i \in 1..26 : amqp_raw_toupper(c) = Upper[i]
        BY <2>1 DEF amqp_raw_toupper
      <3> QED  BY <1>1, <1>3, <3>1
    <2> QED  BY <1>3, <2>1 DEF amqp_raw_toupper
  <1> QED  BY <1>2, <1>3 DEF SameCharacter

\* strchr finds the first of a character, or none before the end
LEMMA FirstOf ==
    ASSUME NEW Char, NEW s \in Seq(Char), NEW c, NEW n, n = strchr(s, c)
    PROVE  /\ n \in Nat /\ n <= Len(s)
           /\ n # 0 => s[n] = c
           /\ \A i \in 1 .. Len(s) : i < n \/ n = 0 => s[i] # c
           /\ n = 0 => \A i \in 1 .. Len(s) : s[i] # c
  <1> DEFINE at == {i \in DOMAIN s : s[i] = c}
  <1>1. at \in SUBSET Nat /\ DOMAIN s = 1 .. Len(s) /\ Len(s) \in Nat
    OBVIOUS
  <1>2. n = IF at = {} THEN 0 ELSE Min(at)
    BY DEF strchr
  <1>3. CASE at = {}
    BY <1>1, <1>2, <1>3
  <1>4. CASE at # {}
    <2>1. n = Min(at)
      BY <1>2, <1>4
    <2> HIDE DEF at
    <2>2. n \in at /\ \A y \in at : n <= y
      BY <1>1, <1>4, <2>1, MinIs
    <2> QED  BY <1>1, <2>2 DEF at
  <1> QED  BY <1>3, <1>4

\* the rest of a string
LEMMA FromIs ==
    ASSUME NEW Char, NEW s \in Seq(Char), NEW k \in Nat \ {0}, k <= Len(s) + 1
    PROVE  /\ From(s, k) \in Seq(Char)
           /\ Len(From(s, k)) = Len(s) + 1 - k
           /\ \A i \in 1 .. Len(s) + 1 - k : From(s, k)[i] = s[k + i - 1]
  BY DEF From

\* its start
LEMMA StartIs ==
    ASSUME NEW Char, NEW s \in Seq(Char), NEW k \in Nat, k <= Len(s)
    PROVE  /\ SubSeq(s, 1, k) \in Seq(Char)
           /\ Len(SubSeq(s, 1, k)) = k
           /\ \A i \in 1 .. k : SubSeq(s, 1, k)[i] = s[i]
  OBVIOUS

\* two strings, one behind the other
LEMMA JoinedIs ==
    ASSUME NEW Char, NEW a \in Seq(Char), NEW b \in Seq(Char)
    PROVE  /\ a \o b \in Seq(Char)
           /\ Len(a \o b) = Len(a) + Len(b)
           /\ \A i \in 1 .. Len(a) : (a \o b)[i] = a[i]
           /\ \A i \in Len(a) + 1 .. Len(a) + Len(b) : (a \o b)[i] = b[i - Len(a)]
  OBVIOUS

\* amqp_raw_nequal of strings that are long enough
LEMMA SameStart ==
    ASSUME NEW Char, NEW a \in Seq(Char), NEW b \in Seq(Char), NEW n \in Nat,
           n <= Len(a), n <= Len(b)
    PROVE  amqp_raw_nequal(a, b, n) <=> \A i \in 1 .. n : SameCharacter(a[i], b[i])
  <1>1. (IF n < Len(a) THEN n ELSE Len(a)) = n /\ (IF n < Len(b) THEN n ELSE Len(b)) = n
    OBVIOUS
  <1>2. amqp_raw_nequal(a, b, n) <=> amqp_raw_equal(SubSeq(a, 1, n), SubSeq(b, 1, n))
    BY <1>1 DEF amqp_raw_nequal
  <1> DEFINE u == SubSeq(a, 1, n)
             v == SubSeq(b, 1, n)
  <1>3. /\ Len(u) = n /\ Len(v) = n /\ DOMAIN u = 1 .. n
        /\ \A i \in 1 .. n : u[i] = a[i] /\ v[i] = b[i]
    BY StartIs
  <1> HIDE DEF u, v
  <1>4. amqp_raw_equal(u, v) <=> \A i \in 1 .. n : SameCharacter(a[i], b[i])
    BY <1>3 DEF amqp_raw_equal
  <1> QED  BY <1>2, <1>4 DEF u, v

\* strchr behind the first dot finds one if there are two of them
LEMMA TwoDots ==
    ASSUME NEW Char, NEW p \in Seq(Char), strchr(p, ".") # 0
    PROVE  strchr(From(p, strchr(p, ".") + 1), ".") # 0 <=> Cardinality(Dots(p)) >= 2
  <1> DEFINE d == strchr(p, ".")
             rest == From(p, d + 1)
             e == strchr(rest, ".")
  <1>1. /\ d \in 1 .. Len(p) /\ Len(p) \in Nat /\ p[d] = "."
        /\ \A i \in 1 .. Len(p) : i < d => p[i] # "."
    BY FirstOf
  <1>2. /\ rest \in Seq(Char) /\ Len(rest) = Len(p) - d
        /\ \A i \in 1 .. Len(p) - d : rest[i] = p[d + i]
    <2>1. d + 1 \in Nat \ {0} /\ d + 1 <= Len(p) + 1
      BY <1>1
    <2>2. /\ rest \in Seq(Char) /\ Len(rest) = Len(p) + 1 - (d + 1)
          /\ \A i \in 1 .. Len(p) + 1 - (d + 1) : rest[i] = p[(d + 1) + i - 1]
      BY <2>1, FromIs
    <2>3. Len(p) + 1 - (d + 1) = Len(p) - d
      BY <1>1
    <2>4. \A i \in 1 .. Len(p) - d : (d + 1) + i - 1 = d + i
      BY <1>1
    <2> QED  BY <2>2, <2>3, <2>4
  <1>3. /\ e # 0 => e \in 1 .. Len(rest) /\ rest[e] = "."
        /\ e = 0 => \A i \in 1 .. Len(rest) : rest[i] # "."
    BY <1>2, FirstOf
  <1> HIDE DEF d, rest, e
  <1>4. IsFiniteSet(Dots(p)) /\ d \in Dots(p)
    <2>1. Dots(p) \in SUBSET (1 .. Len(p)) /\ IsFiniteSet(1 .. Len(p))
      <3>1. Dots(p) \in SUBSET (1 .. Len(p))
        BY <1>1 DEF Dots
      <3>2. 1 \in Int /\ Len(p) \in Int
        BY <1>1
      <3> QED  BY <3>1, <3>2, FS_Interval
    <2> QED  BY <1>1, <2>1, FS_Subset DEF Dots
  <1>5. Cardinality(Dots(p)) \in Nat /\ Cardinality(Dots(p)) # 0
    BY <1>4, FS_CardinalityType, FS_EmptySet
  <1>6. CASE e # 0
    <2>1. d + e \in Dots(p) /\ d + e # d
      BY <1>1, <1>2, <1>3, <1>6 DEF Dots
    <2>2. Cardinality(Dots(p)) # 1
      <3>1. ASSUME Cardinality(Dots(p)) = 1 PROVE FALSE
        <4>1. PICK x : Dots(p) = {x}
          BY <1>4, <3>1, FS_Singleton
        <4> QED  BY <1>4, <2>1, <4>1
      <3> QED  BY <3>1
    <2> QED  BY <1>5, <1>6, <2>2 DEF d, rest, e
  <1>7. CASE e = 0
    <2>1. Dots(p) = {d}
      <3>1. ASSUME NEW i \in Dots(p), i # d PROVE FALSE
        <4>1. i \in 1 .. Len(p) /\ p[i] = "." /\ i > d
          BY <1>1, <3>1 DEF Dots
        <4>2. i - d \in 1 .. Len(rest) /\ rest[i - d] = p[i]
          BY <1>1, <1>2, <4>1
        <4> QED  BY <1>3, <1>7, <4>1, <4>2
      <3> QED  BY <1>4, <3>1
    <2>2. Cardinality(Dots(p)) = 1
      BY <2>1, FS_Singleton
    <2> QED  BY <1>7, <2>2 DEF d, rest, e
  <1> QED  BY <1>6, <1>7

\* "xn--" at the start of a name
LEMMA Prefix ==
    ASSUME NEW Char, NEW p \in Seq(Char)
    PROVE  amqp_raw_nequal(p, <<"x", "n", "-", "-">>, 4) <=>
               Len(p) >= 4 /\ amqp_raw_equal(SubSeq(p, 1, 4), <<"x", "n", "-", "-">>)
  <1> DEFINE xn == <<"x", "n", "-", "-">>
             start == SubSeq(p, 1, IF 4 < Len(p) THEN 4 ELSE Len(p))
             xnStart == SubSeq(xn, 1, IF 4 < Len(xn) THEN 4 ELSE Len(xn))
  <1>1. xn \in Seq({"x", "n", "-"}) /\ Len(xn) = 4 /\ DOMAIN xn = 1 .. 4 /\ Len(p) \in Nat
    OBVIOUS
  <1> HIDE DEF xn
  <1>2. xnStart = xn
    <2>1. xnStart = SubSeq(xn, 1, 4)
      BY <1>1
    <2>2. /\ SubSeq(xn, 1, 4) \in Seq({"x", "n", "-"}) /\ Len(SubSeq(xn, 1, 4)) = 4
          /\ \A i \in 1 .. 4 : SubSeq(xn, 1, 4)[i] = xn[i]
      BY <1>1, StartIs
    <2> QED  BY <1>1, <2>1, <2>2
  <1>3. amqp_raw_nequal(p, xn, 4) <=> amqp_raw_equal(start, xn)
    BY <1>2 DEF amqp_raw_nequal
  <1>4. CASE Len(p) >= 4
    <2>1. start = SubSeq(p, 1, 4)
      BY <1>1, <1>4
    <2> QED  BY <1>3, <1>4, <2>1 DEF xn
  <1>5. CASE Len(p) < 4
    <2>1. start = SubSeq(p, 1, Len(p))
      BY <1>1, <1>5
    <2>2. Len(start) = Len(p)
      BY <1>1, <2>1, StartIs
    <2> HIDE DEF start
    <2>3. Len(start) # Len(xn)
      BY <1>1, <1>5, <2>2
    <2>4. ~ amqp_raw_equal(start, xn)
      BY <2>3, Zenon DEF amqp_raw_equal
    <2> QED  BY <1>1, <1>3, <1>5, <2>4 DEF xn
  <1> QED  BY <1>1, <1>4, <1>5

\* a wildcard counts in the leftmost of three labels, if that is not internationalized
LEMMA EnabledIs ==
    ASSUME NEW Char, NEW p \in Seq(Char)
    PROVE  wildcard_enabled(p) <=>
               /\ strchr(p, ".") # 0
               /\ Cardinality(Dots(p)) >= 2
               /\ strchr(p, "*") < strchr(p, ".")
               /\ Len(p) >= 4 => ~ amqp_raw_equal(SubSeq(p, 1, 4), <<"x", "n", "-", "-">>)
  BY TwoDots, Prefix DEF wildcard_enabled

\* the pattern with n characters of the host for its wildcard is the host: what is before
\* the wildcard, and what is behind it
LEMMA ExpandedIs ==
    ASSUME NEW Char, NEW p \in Seq(Char), NEW h \in Seq(Char),
           NEW w \in 1 .. Len(p), NEW n \in Nat, w + n - 1 <= Len(h)
    PROVE  amqp_raw_equal(Expanded(p, w, h, n), h) <=>
               /\ Len(p) + n - 1 = Len(h)
               /\ \A i \in 1 .. w - 1 : SameCharacter(p[i], h[i])
               /\ \A j \in w + 1 .. Len(p) : SameCharacter(p[j], h[j + n - 1])
  <1> DEFINE before == SubSeq(p, 1, w - 1)
             middle == SubSeq(h, w, w + n - 1)
             behind == From(p, w + 1)
             whole == Expanded(p, w, h, n)
  <1>1. Len(p) \in Nat /\ Len(h) \in Nat /\ w \in Nat \ {0} /\ w <= Len(p)
    OBVIOUS
  <1>2. /\ before \in Seq(Char) /\ Len(before) = w - 1
        /\ \A i \in 1 .. w - 1 : before[i] = p[i]
    <2>1. w - 1 \in Nat /\ w - 1 <= Len(p)
      BY <1>1
    <2> QED  BY <2>1, StartIs
  <1>3. /\ middle \in Seq(Char) /\ Len(middle) = n
        /\ \A i \in 1 .. n : middle[i] = h[w + i - 1]
    BY <1>1
  <1>4. /\ behind \in Seq(Char) /\ Len(behind) = Len(p) - w
        /\ \A i \in 1 .. Len(p) - w : behind[i] = p[w + i]
    <2>1. w + 1 \in Nat \ {0} /\ w + 1 <= Len(p) + 1
      BY <1>1
    <2>2. /\ behind \in Seq(Char) /\ Len(behind) = Len(p) + 1 - (w + 1)
          /\ \A i \in 1 .. Len(p) + 1 - (w + 1) : behind[i] = p[(w + 1) + i - 1]
      BY <2>1, FromIs
    <2>3. Len(p) + 1 - (w + 1) = Len(p) - w
      BY <1>1
    <2>4. \A i \in 1 .. Len(p) - w : (w + 1) + i - 1 = w + i
      BY <1>1
    <2> QED  BY <2>2, <2>3, <2>4
  <1>5. whole = (before \o middle) \o behind
    BY DEF Expanded
  <1> HIDE DEF before, middle, behind, whole
  <1> DEFINE front == before \o middle
  <1>6. /\ front \in Seq(Char) /\ Len(front) = w - 1 + n
        /\ \A i \in 1 .. w - 1 : front[i] = p[i]
        /\ \A i \in w .. w - 1 + n : front[i] = h[i]
    <2>1. /\ front \in Seq(Char) /\ Len(front) = Len(before) + Len(middle)
          /\ \A i \in 1 .. Len(before) : front[i] = before[i]
          /\ \A i \in Len(before) + 1 .. Len(before) + Len(middle) :
                 front[i] = middle[i - Len(before)]
      BY <1>2, <1>3, JoinedIs
    <2> HIDE DEF front
    <2>2. Len(front) = w - 1 + n
      BY <1>1, <1>2, <1>3, <2>1
    <2>3. \A i \in 1 .. w - 1 : front[i] = p[i]
      BY <1>2, <2>1
    <2>4. ASSUME NEW i \in w .. w - 1 + n PROVE front[i] = h[i]
      <3>1. /\ i \in Len(before) + 1 .. Len(before) + Len(middle)
            /\ i - Len(before) \in 1 .. n /\ w + (i - Len(before)) - 1 = i
        BY <1>1, <1>2, <1>3
      <3> QED  BY <1>3, <2>1, <3>1
    <2> QED  BY <2>1, <2>2, <2>3, <2>4
  <1> HIDE DEF front
  <1>7. /\ Len(whole) = Len(p) + n - 1 /\ DOMAIN whole = 1 .. Len(p) + n - 1
        /\ \A i \in 1 .. w - 1 : whole[i] = p[i]
        /\ \A i \in w .. w - 1 + n : whole[i] = h[i]
        /\ \A j \in w + 1 .. Len(p) : whole[j + n - 1] = p[j]
    <2>1. /\ whole \in Seq(Char) /\ Len(whole) = Len(front) + Len(behind)
          /\ \A i \in 1 .. Len(front) : whole[i] = front[i]
          /\ \A i \in Len(front) + 1 .. Len(front) + Len(behind) :
                 whole[i] = behind[i - Len(front)]
      <3>1. whole = front \o behind
        BY <1>5 DEF front
      <3> QED  BY <1>4, <1>6, <3>1, JoinedIs
    <2>2. Len(whole) = Len(p) + n - 1
      BY <1>1, <1>4, <1>6, <2>1
    <2>3. ASSUME NEW j \in w + 1 .. Len(p) PROVE whole[j + n - 1] = p[j]
      <3>1. /\ j + n - 1 \in Len(front) + 1 .. Len(front) + Len(behind)
            /\ (j + n - 1) - Len(front) = j - w
            /\ j - w \in 1 .. Len(p) - w /\ w + (j - w) = j
        BY <1>1, <1>4, <1>6
      <3> QED  BY <1>4, <2>1, <3>1
    <2>4. /\ \A i \in 1 .. w - 1 : i \in 1 .. Len(front)
          /\ \A i \in w .. w - 1 + n : i \in 1 .. Len(front)
      BY <1>1, <1>6
    <2> QED  BY <1>6, <2>1, <2>2, <2>3, <2>4
  <1>8. amqp_raw_equal(whole, h) <=>
            /\ Len(p) + n - 1 = Len(h)
            /\ \A i \in 1 .. Len(p) + n - 1 : SameCharacter(whole[i], h[i])
    BY <1>7 DEF amqp_raw_equal
  <1>9. ASSUME \A i \in 1 .. Len(p) + n - 1 : SameCharacter(whole[i], h[i])
        PROVE  /\ \A i \in 1 .. w - 1 : SameCharacter(p[i], h[i])
               /\ \A j \in w + 1 .. Len(p) : SameCharacter(p[j], h[j + n - 1])
    <2>1. /\ \A i \in 1 .. w - 1 : i \in 1 .. Len(p) + n - 1
          /\ \A j \in w + 1 .. Len(p) : j + n - 1 \in 1 .. Len(p) + n - 1
      BY <1>1
    <2> QED  BY <1>7, <1>9, <2>1
  <1>10. ASSUME \A i \in 1 .. w - 1 : SameCharacter(p[i], h[i]),
                \A j \in w + 1 .. Len(p) : SameCharacter(p[j], h[j + n - 1]),
                NEW i \in 1 .. Len(p) + n - 1
         PROVE  SameCharacter(whole[i], h[i])
    <2>1. CASE i < w
      <3>1. i \in 1 .. w - 1
        BY <1>1, <2>1
      <3> QED  BY <1>7, <1>10, <3>1
    <2>2. CASE i >= w /\ i <= w - 1 + n
      <3>1. i \in w .. w - 1 + n
        BY <1>1, <2>2
      <3> QED  BY <1>7, <3>1 DEF SameCharacter
    <2>3. CASE i > w - 1 + n
      <3>1. i - n + 1 \in w + 1 .. Len(p) /\ (i - n + 1) + n - 1 = i
        BY <1>1, <2>3
      <3> QED  BY <1>7, <1>10, <3>1
    <2> QED  BY <1>1, <2>1, <2>2, <2>3
  <1> QED  BY <1>8, <1>9, <1>10 DEF whole

\* two strings from a place on
LEMMA RestSame ==
    ASSUME NEW Char, NEW a \in Seq(Char), NEW b \in Seq(Char),
           NEW k \in Nat \ {0}, NEW l \in Nat \ {0}, k <= Len(a), l <= Len(b)
    PROVE  amqp_raw_equal(From(a, k), From(b, l)) <=>
               /\ Len(a) - k = Len(b) - l
               /\ \A j \in k .. Len(a) : SameCharacter(a[j], b[j + l - k])
  <1> DEFINE u == From(a, k)
             v == From(b, l)
  <1>1. Len(a) \in Nat /\ Len(b) \in Nat /\ k <= Len(a) + 1 /\ l <= Len(b) + 1
    OBVIOUS
  <1>2. /\ u \in Seq(Char) /\ Len(u) = Len(a) + 1 - k
        /\ \A i \in 1 .. Len(a) + 1 - k : u[i] = a[k + i - 1]
    BY <1>1, FromIs
  <1>3. /\ v \in Seq(Char) /\ Len(v) = Len(b) + 1 - l
        /\ \A i \in 1 .. Len(b) + 1 - l : v[i] = b[l + i - 1]
    BY <1>1, FromIs
  <1> HIDE DEF u, v
  <1>4. amqp_raw_equal(u, v) <=>
            Len(u) = Len(v) /\ \A i \in 1 .. Len(u) : SameCharacter(u[i], v[i])
    BY <1>2 DEF amqp_raw_equal
  <1>5. Len(u) = Len(v) <=> Len(a) - k = Len(b) - l
    <2>1. Len(a) + 1 - k = Len(b) + 1 - l <=> Len(a) - k = Len(b) - l
      BY <1>1
    <2> QED  BY <1>2, <1>3, <2>1
  <1>6. ASSUME Len(u) = Len(v)
        PROVE  (\A i \in 1 .. Len(u) : SameCharacter(u[i], v[i])) <=>
               (\A j \in k .. Len(a) : SameCharacter(a[j], b[j + l - k]))
    <2>1. ASSUME NEW i \in 1 .. Len(u)
          PROVE  /\ k + i - 1 \in k .. Len(a)
                 /\ u[i] = a[k + i - 1] /\ v[i] = b[(k + i - 1) + l - k]
      <3>1. i \in 1 .. Len(a) + 1 - k /\ i \in 1 .. Len(b) + 1 - l
        BY <1>2, <1>3, <1>6
      <3>2. k + i - 1 \in k .. Len(a) /\ (k + i - 1) + l - k = l + i - 1
        BY <1>1, <3>1
      <3> QED  BY <1>2, <1>3, <3>1, <3>2
    <2>2. ASSUME NEW j \in k .. Len(a)
          PROVE  /\ j - k + 1 \in 1 .. Len(u)
                 /\ u[j - k + 1] = a[j] /\ v[j - k + 1] = b[j + l - k]
      <3>1. /\ j - k + 1 \in 1 .. Len(a) + 1 - k
            /\ k + (j - k + 1) - 1 = j /\ l + (j - k + 1) - 1 = j + l - k
        BY <1>1
      <3>2. Len(a) + 1 - k = Len(u) /\ Len(b) + 1 - l = Len(u)
        BY <1>2, <1>3, <1>6
      <3> QED  BY <1>2, <1>3, <3>1, <3>2
    <2> QED  BY <2>1, <2>2
  <1> QED  BY <1>4, <1>5, <1>6 DEF u, v

\* n characters of two strings, each from a place on
LEMMA PartSame ==
    ASSUME NEW Char, NEW a \in Seq(Char), NEW b \in Seq(Char),
           NEW k \in Nat \ {0}, NEW l \in Nat \ {0}, NEW n \in Nat,
           k + n <= Len(a) + 1, l + n <= Len(b) + 1
    PROVE  amqp_raw_nequal(From(a, k), From(b, l), n) <=>
               \A j \in k .. k + n - 1 : SameCharacter(a[j], b[j + l - k])
  <1> DEFINE u == From(a, k)
             v == From(b, l)
  <1>1. /\ Len(a) \in Nat /\ Len(b) \in Nat
        /\ k <= Len(a) + 1 /\ l <= Len(b) + 1
    OBVIOUS
  <1>2. /\ u \in Seq(Char) /\ Len(u) = Len(a) + 1 - k
        /\ \A i \in 1 .. Len(a) + 1 - k : u[i] = a[k + i - 1]
    BY <1>1, FromIs
  <1>3. /\ v \in Seq(Char) /\ Len(v) = Len(b) + 1 - l
        /\ \A i \in 1 .. Len(b) + 1 - l : v[i] = b[l + i - 1]
    BY <1>1, FromIs
  <1> HIDE DEF u, v
  <1>4. n <= Len(u) /\ n <= Len(v)
    BY <1>1, <1>2, <1>3
  <1>5. amqp_raw_nequal(u, v, n) <=> \A i \in 1 .. n : SameCharacter(u[i], v[i])
    BY <1>2, <1>3, <1>4, SameStart
  <1>6. ASSUME NEW i \in 1 .. n
        PROVE  /\ k + i - 1 \in k .. k + n - 1
               /\ u[i] = a[k + i - 1] /\ v[i] = b[(k + i - 1) + l - k]
    <2>1. /\ k + i - 1 \in k .. k + n - 1 /\ (k + i - 1) + l - k = l + i - 1
          /\ i \in 1 .. Len(a) + 1 - k /\ i \in 1 .. Len(b) + 1 - l
      BY <1>1
    <2> QED  BY <1>2, <1>3, <2>1
  <1>7. ASSUME NEW j \in k .. k + n - 1
        PROVE  /\ j - k + 1 \in 1 .. n
               /\ u[j - k + 1] = a[j] /\ v[j - k + 1] = b[j + l - k]
    <2>1. /\ j - k + 1 \in 1 .. n /\ k + (j - k + 1) - 1 = j
      BY <1>1
    <2> QED  BY <1>6, <2>1
  <1> QED  BY <1>5, <1>6, <1>7 DEF u, v

\* what amqp_hostmatch compares when the wildcard is at w, and the first labels of name
\* and host end at d and e
Compares(p, h, w, d, e) ==
    LET suffixlen == d - (w + 1)
    IN  /\ e # 0
        /\ amqp_raw_equal(From(p, d), From(h, e))
        /\ e >= d
        /\ amqp_raw_nequal(p, h, w - 1)
        /\ amqp_raw_nequal(From(p, w + 1), From(h, e - suffixlen), suffixlen)

\* together: all but the wildcard and what it stands for
LEMMA ComparesIs ==
    ASSUME NEW Char, NEW p \in Seq(Char), NEW h \in Seq(Char),
           NEW w \in Nat \ {0}, NEW d \in Nat, NEW e \in Nat,
           w < d, d <= Len(p), e <= Len(h)
    PROVE  Compares(p, h, w, d, e) <=>
               /\ e # 0 /\ e >= d /\ Len(p) - d = Len(h) - e
               /\ \A i \in 1 .. w - 1 : SameCharacter(p[i], h[i])
               /\ \A j \in w + 1 .. Len(p) : SameCharacter(p[j], h[j + e - d])
  <1>1. Len(p) \in Nat /\ Len(h) \in Nat
    OBVIOUS
  <1> DEFINE suffixlen == d - (w + 1)
             Right == /\ Len(p) - d = Len(h) - e
                      /\ \A i \in 1 .. w - 1 : SameCharacter(p[i], h[i])
                      /\ \A j \in w + 1 .. Len(p) : SameCharacter(p[j], h[j + e - d])
             Behind == amqp_raw_equal(From(p, d), From(h, e))
             InFront == amqp_raw_nequal(p, h, w - 1)
             Part == amqp_raw_nequal(From(p, w + 1), From(h, e - suffixlen), suffixlen)
  <1>2. ASSUME e # 0, e >= d PROVE Behind /\ InFront /\ Part <=> Right
    <2>1. Behind <=> /\ Len(p) - d = Len(h) - e
                   /\ \A j \in d .. Len(p) : SameCharacter(p[j], h[j + e - d])
      <3>1. d \in Nat \ {0} /\ e \in Nat \ {0}
        BY <1>2
      <3> QED  BY <3>1, RestSame
    <2>2. InFront <=> \A i \in 1 .. w - 1 : SameCharacter(p[i], h[i])
      <3>1. w - 1 \in Nat /\ w - 1 <= Len(p) /\ w - 1 <= Len(h)
        BY <1>1, <1>2
      <3> QED  BY <3>1, SameStart
    <2>3. Part <=> \A j \in w + 1 .. d - 1 : SameCharacter(p[j], h[j + e - d])
      <3> DEFINE l == e - suffixlen
      <3>1. /\ w + 1 \in Nat \ {0} /\ l \in Nat \ {0} /\ suffixlen \in Nat
            /\ (w + 1) + suffixlen <= Len(p) + 1 /\ l + suffixlen <= Len(h) + 1
            /\ (w + 1) + suffixlen - 1 = d - 1
            /\ \A j \in w + 1 .. d - 1 : j + l - (w + 1) = j + e - d
        BY <1>1, <1>2
      <3> HIDE DEF l, suffixlen
      <3>2. amqp_raw_nequal(From(p, w + 1), From(h, l), suffixlen) <=>
                \A j \in w + 1 .. (w + 1) + suffixlen - 1 :
                    SameCharacter(p[j], h[j + l - (w + 1)])
        BY <3>1, PartSame
      <3> QED  BY <3>1, <3>2 DEF l
    <2>4. \A j : j \in w + 1 .. Len(p) <=> j \in w + 1 .. d - 1 \/ j \in d .. Len(p)
      BY <1>1
    <2> HIDE DEF Behind, InFront, Part
    <2> QED  BY <2>1, <2>2, <2>3, <2>4
  <1>3. Compares(p, h, w, d, e) <=> e # 0 /\ e >= d /\ (Behind /\ InFront /\ Part)
    BY DEF Compares
  <1> HIDE DEF Behind, InFront, Part
  <1> QED  BY <1>2, <1>3

\* it stands for the characters that make both first labels end together
LEMMA WildcardIs ==
    ASSUME NEW Char, NEW p \in Seq(Char), NEW h \in Seq(Char),
           NEW w \in Nat \ {0}, NEW d \in Nat, NEW e \in Nat,
           w < d, d <= Len(p), e <= Len(h),
           p[d] = ".", \A i \in 1 .. Len(p) : i < d => p[i] # ".",
           e # 0 => h[e] = ".", \A i \in 1 .. Len(h) : i < e \/ e = 0 => h[i] # "."
    PROVE  Compares(p, h, w, d, e) <=>
               \E n \in DOMAIN h :
                   /\ w + n - 1 <= Len(h)
                   /\ "." \notin {h[i] : i \in w .. w + n - 1}
                   /\ amqp_raw_equal(Expanded(p, w, h, n), h)
  <1>1. /\ Len(p) \in Nat /\ Len(h) \in Nat /\ DOMAIN h = 1 .. Len(h)
        /\ \A i \in 1 .. Len(p) : i < d => p[i] # "."
        /\ \A i \in 1 .. Len(h) : i < e \/ e = 0 => h[i] # "."
    OBVIOUS
  <1>2. Compares(p, h, w, d, e) <=>
            /\ e # 0 /\ e >= d /\ Len(p) - d = Len(h) - e
            /\ \A i \in 1 .. w - 1 : SameCharacter(p[i], h[i])
            /\ \A j \in w + 1 .. Len(p) : SameCharacter(p[j], h[j + e - d])
    BY ComparesIs
  <1>3. Len(p) \in Nat /\ Len(h) \in Nat /\ w \in 1 .. Len(p)
    BY <1>1
  <1>4. ASSUME Compares(p, h, w, d, e)
        PROVE  \E n \in DOMAIN h :
                   /\ w + n - 1 <= Len(h)
                   /\ "." \notin {h[i] : i \in w .. w + n - 1}
                   /\ amqp_raw_equal(Expanded(p, w, h, n), h)
    <2> DEFINE n == e - d + 1
    <2>1. /\ n \in Nat /\ n \in 1 .. Len(h) /\ w + n - 1 <= Len(h) /\ w + n - 1 < e
          /\ Len(p) + n - 1 = Len(h)
      <3>1. e # 0 /\ e >= d /\ Len(p) - d = Len(h) - e
        BY <1>2, <1>4
      <3> QED  BY <1>3, <3>1
    <2>2. \A j \in w + 1 .. Len(p) : j + n - 1 = j + e - d
      BY <1>1
    <2> HIDE DEF n
    <2>3. \A j \in w + 1 .. Len(p) : SameCharacter(p[j], h[j + n - 1])
      BY <1>2, <1>4, <2>2
    <2>4. amqp_raw_equal(Expanded(p, w, h, n), h)
      BY <1>2, <1>4, <1>3, <2>1, <2>3, ExpandedIs
    <2>5. ASSUME NEW i \in w .. w + n - 1 PROVE h[i] # "."
      <3>1. i \in 1 .. Len(h) /\ i < e
        BY <1>1, <2>1
      <3> QED  BY <1>1, <3>1
    <2> QED  BY <1>1, <2>1, <2>4, <2>5
  <1>5. ASSUME NEW n \in DOMAIN h, w + n - 1 <= Len(h),
               "." \notin {h[i] : i \in w .. w + n - 1},
               amqp_raw_equal(Expanded(p, w, h, n), h)
        PROVE  Compares(p, h, w, d, e)
    <2>1. n \in Nat \ {0} /\ \A i \in w .. w + n - 1 : h[i] # "."
      BY <1>1, <1>5
    <2>2. /\ Len(p) + n - 1 = Len(h)
          /\ \A i \in 1 .. w - 1 : SameCharacter(p[i], h[i])
          /\ \A j \in w + 1 .. Len(p) : SameCharacter(p[j], h[j + n - 1])
      BY <1>5, <1>3, <2>1, ExpandedIs
    <2>3. h[d + n - 1] = "." /\ d + n - 1 \in 1 .. Len(h)
      <3>1. d \in w + 1 .. Len(p) /\ d + n - 1 \in 1 .. Len(h)
        BY <1>1, <2>1, <2>2
      <3>2. SameCharacter(h[d + n - 1], ".")
        BY <1>1, <2>2, <3>1 DEF SameCharacter
      <3> QED  BY <3>1, <3>2, DotAlone
    <2>4. ASSUME NEW i \in 1 .. Len(h), i < d + n - 1 PROVE h[i] # "."
      <3>1. CASE i < w
        <4>1. i \in 1 .. w - 1 /\ i \in 1 .. Len(p) /\ i < d
          BY <1>1, <3>1
        <4>2. p[i] # "." /\ SameCharacter(p[i], h[i])
          BY <1>1, <2>2, <4>1
        <4> QED  BY <4>2, DotAlone
      <3>2. CASE i >= w /\ i <= w + n - 1
        <4>1. i \in w .. w + n - 1
          BY <1>1, <2>1, <3>2
        <4> QED  BY <2>1, <4>1
      <3>3. CASE i > w + n - 1
        <4> DEFINE j == i - n + 1
        <4>1. j \in w + 1 .. Len(p) /\ j \in 1 .. Len(p) /\ j < d /\ j + n - 1 = i
          BY <1>1, <2>1, <2>2, <2>4, <3>3
        <4> HIDE DEF j
        <4>2. p[j] # "." /\ SameCharacter(p[j], h[i])
          BY <1>1, <2>2, <4>1
        <4> QED  BY <4>2, DotAlone
      <3> QED  BY <1>1, <2>1, <3>1, <3>2, <3>3
    <2>5. e = d + n - 1
      BY <1>1, <2>1, <2>3, <2>4
    <2>6. e # 0 /\ e >= d /\ Len(p) - d = Len(h) - e
      BY <1>1, <2>1, <2>2, <2>5
    <2>7. \A j \in w + 1 .. Len(p) : j + n - 1 = j + e - d
      BY <1>1, <2>1, <2>5
    <2> QED  BY <1>2, <2>2, <2>6, <2>7
  <1> QED  BY <1>4, <1>5

(***************************************************************************)
(* amqp_hostcheck (amqp_hostcheck.c:184) accepts a name of a certificate   *)
(* for a host exactly when RFC 6125, section 6.4.3, does: the same labels, *)
(* or a wildcard that stands for one character or more within the leftmost *)
(* of at least three.  For strings of any length over any characters.      *)
(***************************************************************************)
THEOREM HostcheckAsReference ==
    ASSUME NEW Char, NEW p \in Seq(Char), NEW h \in Seq(Char)
    PROVE  amqp_hostcheck(p, h) <=> NamesHost(p, h)
  <1> DEFINE w == strchr(p, "*")
             d == strchr(p, ".")
             stars == {i \in DOMAIN p : p[i] = "*"}
             Replaced(v, n) == /\ v + n - 1 <= Len(h)
                               /\ "." \notin {h[i] : i \in v .. v + n - 1}
                               /\ amqp_raw_equal(Expanded(p, v, h, n), h)
  <1>1. /\ DOMAIN p = 1 .. Len(p) /\ Len(p) \in Nat /\ DOMAIN h = 1 .. Len(h) /\ Len(h) \in Nat
        /\ w \in Nat /\ w <= Len(p) /\ d \in Nat
    BY FirstOf
  <1>2. amqp_raw_equal(h, p) <=> amqp_raw_equal(p, h)
    BY <1>1 DEF amqp_raw_equal, SameCharacter
  <1>3. amqp_raw_equal(p, h) /\ p # <<>> => h # <<>>
    BY DEF amqp_raw_equal
  <1>4. w # 0 <=> stars # {}
    BY <1>1, FirstOf
  <1>5. w # 0 => w = Min(stars) /\ w \in DOMAIN p /\ p[w] = "*"
    <2>1. w = IF stars = {} THEN 0 ELSE Min(stars)
      BY DEF strchr
    <2>2. w # 0 => w \in DOMAIN p /\ p[w] = "*"
      BY <1>1, FirstOf
    <2> QED  BY <1>4, <2>1, <2>2
  <1>6. wildcard_enabled(p) <=>
            /\ Cardinality(Dots(p)) >= 2
            /\ w < Min(Dots(p))
            /\ Len(p) >= 4 => ~ amqp_raw_equal(SubSeq(p, 1, 4), <<"x", "n", "-", "-">>)
    <2>1. d # 0 <=> Dots(p) # {}
      BY <1>1, FirstOf DEF Dots
    <2>2. d # 0 => d = Min(Dots(p))
      BY <2>1 DEF strchr, Dots
    <2>3. Cardinality(Dots(p)) >= 2 => Dots(p) # {}
      <3>1. Cardinality({}) = 0 /\ ~ (0 >= 2)
        BY FS_EmptySet
      <3> QED  BY <3>1, Zenon
    <2> QED  BY <2>1, <2>2, <2>3, EnabledIs
  <1>7. w # 0 /\ wildcard_enabled(p) =>
            (amqp_hostmatch(h, p) <=> \E n \in DOMAIN h : Replaced(w, n))
    <2> DEFINE e == strchr(h, ".")
    <2>1. ASSUME w # 0, wildcard_enabled(p)
          PROVE  amqp_hostmatch(h, p) <=> Compares(p, h, w, d, e)
      BY <2>1 DEF amqp_hostmatch, Compares
    <2>2. ASSUME w # 0, wildcard_enabled(p)
          PROVE  /\ w \in Nat \ {0} /\ d \in Nat /\ e \in Nat
                 /\ w < d /\ d <= Len(p) /\ e <= Len(h)
                 /\ p[d] = "." /\ \A i \in 1 .. Len(p) : i < d => p[i] # "."
                 /\ e # 0 => h[e] = "."
                 /\ \A i \in 1 .. Len(h) : i < e \/ e = 0 => h[i] # "."
      <3>1. w < d /\ d # 0
        BY <2>2, EnabledIs
      <3> QED  BY <1>1, <2>2, <3>1, FirstOf
    <2> HIDE DEF w, d, e
    <2> QED  BY <1>1, <2>1, <2>2, WildcardIs
  <1>8. w = 0 \/ ~ wildcard_enabled(p) => (amqp_hostmatch(h, p) <=> amqp_raw_equal(p, h))
    BY DEF amqp_hostmatch
  <1>9. NamesHost(p, h) <=>
            \/ p # <<>> /\ amqp_raw_equal(p, h)
            \/ h # <<>> /\ w # 0 /\ wildcard_enabled(p) /\ \E n \in DOMAIN h : Replaced(w, n)
    <2> HIDE DEF w, d
    <2>1. ASSUME NEW v \in DOMAIN p
          PROVE  p[v] = "*" /\ v = Min(stars) <=> w # 0 /\ v = w
      BY <1>4, <1>5, <2>1
    <2>2. NamesHost(p, h) <=>
              \/ p # <<>> /\ amqp_raw_equal(p, h)
              \/ /\ h # <<>>
                 /\ Cardinality(Dots(p)) >= 2
                 /\ Len(p) >= 4 => ~ amqp_raw_equal(SubSeq(p, 1, 4), <<"x", "n", "-", "-">>)
                 /\ \E v \in DOMAIN p, n \in DOMAIN h :
                        p[v] = "*" /\ v = Min(stars) /\ v < Min(Dots(p)) /\ Replaced(v, n)
      BY DEF NamesHost
    <2> HIDE DEF Replaced, stars
    <2> QED  BY <1>5, <1>6, <2>1, <2>2
  <1>10. amqp_hostcheck(p, h) <=>
            p # <<>> /\ h # <<>> /\ (amqp_raw_equal(h, p) \/ amqp_hostmatch(h, p))
    BY DEF amqp_hostcheck
  <1>11. w # 0 => p # <<>>
    BY <1>1
  <1> HIDE DEF w, d, Replaced
  <1> QED  BY <1>2, <1>3, <1>7, <1>8, <1>9, <1>10, <1>11

-----------------------------------------------------------------------------
(***************************************************************************)
(* amqp_ssl_validate_hostname (amqp_openssl_hostname_validation.c:157)     *)
(* accepts a certificate only if one of the names that count is that of    *)
(* the host, and refuses one that has such a name only because a name is   *)
(* malformed.                                                              *)
(***************************************************************************)
THEOREM CertificateAsReference ==
    ASSUME NEW Char, NEW h \in Seq(Char), NEW cert,
           cert.has_san \in BOOLEAN, cert.has_cn \in BOOLEAN,
           cert.has_san =>
               cert.san \in Seq([dns : BOOLEAN, nul : BOOLEAN, text : Seq(Char)]),
           cert.has_cn => cert.cn \in [nul : BOOLEAN, text : Seq(Char)]
    PROVE  IF amqp_ssl_validate_hostname(h, cert) = MATCH_FOUND THEN Named(cert, h)
           ELSE Malformed(cert) \/ ~ Named(cert, h)
  <1> DEFINE san == amqp_matches_subject_alternative_name(h, cert)
             cn == amqp_matches_common_name(h, cert)
             found == amqp_ssl_validate_hostname(h, cert)
             Meant == IF found = MATCH_FOUND THEN Named(cert, h)
                      ELSE Malformed(cert) \/ ~ Named(cert, h)
  <1>1. found = IF san = NO_SAN_PRESENT THEN cn ELSE san
    BY DEF amqp_ssl_validate_hostname
  <1>2. ASSUME cert.has_san PROVE Meant
    <2> DEFINE Decides(n) == n.dns /\ (n.nul \/ amqp_hostcheck(n.text, h))
               at == {i \in DOMAIN cert.san : Decides(cert.san[i])}
               first == Min(at)
    <2>1. /\ at \in SUBSET Nat
          /\ \A i \in DOMAIN cert.san : /\ cert.san[i].nul \in BOOLEAN
                                        /\ cert.san[i].text \in Seq(Char)
      <3> DEFINE names == cert.san
                 Name == [dns : BOOLEAN, nul : BOOLEAN, text : Seq(Char)]
      <3>1. names \in Seq(Name)
        BY <1>2
      <3> HIDE DEF names, Name
      <3>2. DOMAIN names = 1 .. Len(names) /\ \A i \in DOMAIN names : names[i] \in Name
        BY <3>1
      <3>3. at \in SUBSET Nat
        <4>1. at \in SUBSET DOMAIN cert.san
          OBVIOUS
        <4>2. DOMAIN cert.san \in SUBSET Nat
          BY <3>2 DEF names
        <4> QED  BY <4>1, <4>2, Zenon
      <3> QED  BY <3>2, <3>3 DEF names, Name
    <2>2. \A i \in DOMAIN cert.san :
              amqp_hostcheck(cert.san[i].text, h) <=> NamesHost(cert.san[i].text, h)
      BY <2>1, HostcheckAsReference
    <2>3. DnsNames(cert) = {n \in {cert.san[i] : i \in DOMAIN cert.san} : n.dns}
      BY DEF DnsNames, ToSet
    <2>4. /\ Named(cert, h) <=> \E i \in DOMAIN cert.san :
                 /\ cert.san[i].dns /\ ~ cert.san[i].nul
                 /\ amqp_hostcheck(cert.san[i].text, h)
          /\ Malformed(cert) <=> \E i \in DOMAIN cert.san : cert.san[i].dns /\ cert.san[i].nul
      BY <1>2, <2>2, <2>3 DEF Named, Malformed
    <2>5. san = IF at = {} THEN MATCH_NOT_FOUND
                ELSE IF cert.san[first].nul THEN MALFORMED_CERTIFICATE ELSE MATCH_FOUND
      BY <1>2 DEF amqp_matches_subject_alternative_name
    <2>6. found = san
      BY <1>1, <2>5
         DEF NO_SAN_PRESENT, MATCH_NOT_FOUND, MALFORMED_CERTIFICATE, MATCH_FOUND
    <2>7. CASE at = {}
      <3>1. found # MATCH_FOUND
        BY <2>5, <2>6, <2>7 DEF MATCH_NOT_FOUND, MATCH_FOUND
      <3>2. ~ Named(cert, h)
        BY <2>4, <2>7
      <3> QED  BY <3>1, <3>2
    <2>8. CASE at # {}
      <3> HIDE DEF at
      <3>1. first \in at
        BY <2>1, <2>8, MinIs
      <3>2. first \in DOMAIN cert.san /\ Decides(cert.san[first])
        BY <3>1 DEF at
      <3> HIDE DEF first, found, san
      <3>3. CASE cert.san[first].nul
        <4>1. Malformed(cert)
          BY <2>4, <3>2, <3>3
        <4>2. found # MATCH_FOUND
          BY <2>5, <2>6, <2>8, <3>3 DEF MALFORMED_CERTIFICATE, MATCH_FOUND
        <4> QED  BY <4>1, <4>2
      <3>4. CASE ~ cert.san[first].nul
        <4>1. Named(cert, h)
          BY <2>4, <3>2, <3>4
        <4>2. found = MATCH_FOUND
          BY <2>5, <2>6, <2>8, <3>4
        <4> QED  BY <4>1, <4>2
      <3> QED  BY <3>3, <3>4
    <2> QED  BY <2>7, <2>8
  <1>3. ASSUME ~ cert.has_san PROVE Meant
    <2>1. found = cn
      <3>1. san = NO_SAN_PRESENT
        BY <1>3 DEF amqp_matches_subject_alternative_name
      <3> QED  BY <1>1, <3>1
    <2>2. CASE ~ cert.has_cn
      <3>1. found = ERROR
        BY <2>1, <2>2 DEF amqp_matches_common_name
      <3> QED  BY <1>3, <2>2, <3>1 DEF Malformed, ERROR, MATCH_FOUND
    <2>3. CASE cert.has_cn
      <3>1. cert.cn.text \in Seq(Char) /\ cert.cn.nul \in BOOLEAN
        BY <2>3
      <3>2. cn = IF cert.cn.nul THEN MALFORMED_CERTIFICATE
                 ELSE IF amqp_hostcheck(cert.cn.text, h) THEN MATCH_FOUND
                 ELSE MATCH_NOT_FOUND
        BY <2>3 DEF amqp_matches_common_name
      <3>3. amqp_hostcheck(cert.cn.text, h) <=> NamesHost(cert.cn.text, h)
        BY <3>1, HostcheckAsReference
      <3>4. /\ Named(cert, h) <=> ~ cert.cn.nul /\ NamesHost(cert.cn.text, h)
            /\ Malformed(cert) <=> cert.cn.nul
        BY <1>3, <2>3 DEF Named, Malformed
      <3> QED  BY <2>1, <3>2, <3>3, <3>4
                  DEF MALFORMED_CERTIFICATE, MATCH_FOUND, MATCH_NOT_FOUND
    <2> QED  BY <2>2, <2>3
  <1> HIDE DEF Meant
  <1>4. Meant
    BY <1>2, <1>3
  <1> QED  BY <1>4 DEF Meant

-----------------------------------------------------------------------------
(***************************************************************************)
(* The host name.  What was shown is remembered until the next call; as    *)
(* long as a call of open goes on nothing is, and its status is not yet    *)
(* that of a certificate for another host.                                 *)
(***************************************************************************)
HostInv ==
    /\ host \in Seq(STRING)
    /\ pc \notin {"open", "closed"} => shown = NothingShown
    /\ Opening => status # HOSTNAME_VERIFY_FAILED
    /\ HostAsReference

\* with nothing shown there is nothing to say of the certificate
LEMMA NothingShownKeeps ==
    ASSUME host' \in Seq(STRING), shown' = NothingShown,
           Opening' => status' # HOSTNAME_VERIFY_FAILED
    PROVE  HostInv'
  BY DEF HostInv, HostAsReference

LEMMA HostInvInit == HandshakeInit => HostInv
  BY DEF HandshakeInit, OpeningInit, HostInv, Opening, HostAsReference

\* the steps until the address is connected
LEMMA HostOpens ==
    ASSUME HostInv,
           \/ ParseUrl \/ NewSocket \/ OpenInUse \/ OpenWithoutSsl \/ Resolve
           \/ \E timeout \in Timeouts, clock \in Clock : Open(timeout, clock)
           \/ ConnectSocket \/ ConnectEnds
           \/ \E clock \in Clock : ConnectInProgress(clock)
    PROVE  HostInv'
  <1>1. /\ host \in Seq(STRING)
        /\ pc \notin {"open", "closed"} => shown = NothingShown
        /\ Opening => status # HOSTNAME_VERIFY_FAILED
    BY DEF HostInv
  <1>2. CASE ParseUrl
    BY <1>1, <1>2, NothingShownKeeps DEF ParseUrl, Opening
  <1>3. CASE NewSocket
    <2>1. host' \in Seq(STRING)
      BY <1>3, NameAssumption DEF NewSocket
    <2> QED  BY <1>1, <1>3, <2>1, NothingShownKeeps DEF NewSocket, Opening
  <1>4. CASE OpenInUse \/ OpenWithoutSsl
    BY <1>1, <1>4, NothingShownKeeps DEF OpenInUse, OpenWithoutSsl, MayOpen, Opening
  <1>5. CASE \E timeout \in Timeouts, clock \in Clock : Open(timeout, clock)
    <2>1. PICK timeout \in Timeouts, clock \in Clock : Open(timeout, clock)
      BY <1>5
    <2> DEFINE s == amqp_time_from_now(clock, timeout).status
    <2>2. /\ pc = "closed" /\ shown' = NothingShown /\ host' = host /\ status' = s
          /\ s # TIME_OK => pc' = pc
      BY <2>1 DEF Open, MayOpen
    <2> HIDE DEF s
    <2> QED  BY <1>1, <2>2, NothingShownKeeps DEF Opening, TIME_OK, HOSTNAME_VERIFY_FAILED
  <1>6. CASE Resolve
    BY <1>1, <1>6, NothingShownKeeps DEF Resolve, OpenFails, Opening
  <1>7. CASE \E clock \in Clock : ConnectInProgress(clock)
    BY <1>1, <1>7, NothingShownKeeps DEF ConnectInProgress, Opening
  <1>8. CASE ConnectSocket \/ ConnectEnds
    <2>1. /\ pc \in {"connect", "connecting"} /\ UNCHANGED <<host, shown>>
          /\ (\E s, fd : AddressFails(s, fd)) \/ (\E fd : AddressConnects(fd))
      BY <1>8 DEF ConnectSocket, ConnectEnds
    <2>2. pc' = "closed" \/ status' = status
      BY <2>1 DEF AddressFails, OpenFails, AddressConnects
    <2> QED  BY <1>1, <2>1, <2>2, NothingShownKeeps DEF Opening
  <1> QED  BY <1>2, <1>3, <1>4, <1>5, <1>6, <1>7, <1>8

\* the handshake of TLS, and the certificate
LEMMA HostTls ==
    ASSUME HostInv,
           \/ TlsFails \/ TlsPolled \/ \E clock \in Clock : TlsWants(clock)
           \/ \E cert \in Some(Certificates), valid, verify_peer, verify_hostname \in BOOLEAN :
                  TlsConnected(cert, valid, verify_peer, verify_hostname)
    PROVE  HostInv'
  <1>1. /\ host \in Seq(STRING)
        /\ pc \notin {"open", "closed"} => shown = NothingShown
        /\ Opening => status # HOSTNAME_VERIFY_FAILED
    BY DEF HostInv
  <1>2. CASE TlsFails
    BY <1>1, <1>2, NothingShownKeeps DEF TlsFails, OpenFails, Opening
  <1>3. CASE \E clock \in Clock : TlsWants(clock)
    BY <1>1, <1>3, NothingShownKeeps DEF TlsWants, Opening
  <1>4. CASE TlsPolled
    <2>1. /\ pc = "handshake" /\ UNCHANGED <<host, shown>>
          /\ pc' = "closed" \/ status' = status
      BY <1>4 DEF TlsPolled, OpenFails
    <2> QED  BY <1>1, <2>1, NothingShownKeeps DEF Opening
  <1>5. CASE \E cert \in Some(Certificates), valid, verify_peer, verify_hostname \in BOOLEAN :
                 TlsConnected(cert, valid, verify_peer, verify_hostname)
    <2>1. PICK cert \in Some(Certificates),
               valid \in BOOLEAN, verify_peer \in BOOLEAN, verify_hostname \in BOOLEAN :
               TlsConnected(cert, valid, verify_peer, verify_hostname)
      BY <1>5
    <2> DEFINE there == cert # NoCertificate
               found == amqp_ssl_validate_hostname(host, cert) = MATCH_FOUND
    <2>2. /\ pc = "tls" /\ host' = host
          /\ shown' = [cert |-> cert, host |-> host, verify_hostname |-> verify_hostname]
          /\ \/ pc' = "closed" /\ status' = PEER_VERIFY_FAILED
             \/ pc' = "closed" /\ status' = HOSTNAME_VERIFY_FAILED /\ ~ (there /\ found)
             \/ pc' = "open" /\ status' = status /\ (verify_hostname => there /\ found)
      BY <2>1 DEF TlsConnected, OpenFails
    <2>3. IsCertificate(cert)
      BY NameAssumption DEF Some
    <2>4. IF found THEN Named(cert, host) ELSE Malformed(cert) \/ ~ Named(cert, host)
      BY <1>1, <2>3, CertificateAsReference DEF IsCertificate
    <2> HIDE DEF there, found
    <2>5. ASSUME pc' = "open", shown'.verify_hostname
          PROVE  shown'.cert # NoCertificate /\ Named(shown'.cert, shown'.host)
      BY <2>2, <2>4, <2>5 DEF there
    <2>6. ASSUME status' = HOSTNAME_VERIFY_FAILED
          PROVE  \/ shown'.cert = NoCertificate \/ Malformed(shown'.cert)
                 \/ ~ Named(shown'.cert, shown'.host)
      <3>1. ~ (there /\ found)
        BY <1>1, <2>2, <2>6 DEF Opening, PEER_VERIFY_FAILED, HOSTNAME_VERIFY_FAILED
      <3> QED  BY <2>2, <2>4, <3>1 DEF there
    <2>7. HostAsReference'
      BY <2>5, <2>6 DEF HostAsReference
    <2> QED  BY <1>1, <2>2, <2>7 DEF HostInv, Opening
  <1> QED  BY <1>2, <1>3, <1>4, <1>5

\* a login shows nothing, and whatever was shown is forgotten
LEMMA HostLogin ==
    ASSUME HostInv,
           \/ LoginStep \/ Destroy
           \/ \E s \in Outcomes : StartTaken(s) \/ OpenMade(s)
           \/ \E offer \in Offers.all, clock \in Clock, memory \in BOOLEAN, s \in Outcomes :
                  TuneTaken(offer, clock, memory, s)
    PROVE  HostInv'
  <1>1. /\ host \in Seq(STRING)
        /\ pc \notin {"open", "closed"} => shown = NothingShown
    BY DEF HostInv
  <1>2. CASE LoginRefused \/ \E timeout \in Timeouts, clock \in Clock : Login(timeout, clock)
    <2>1. /\ shown' = NothingShown /\ host' \in {host, <<>>}
          /\ pc' \in {"open", "failed", "send"}
      BY <1>2 DEF LoginRefused, Login, LoginFails
    <2>2. <<>> \in Seq(STRING)
      OBVIOUS
    <2>3. host' \in Seq(STRING)
      BY <1>1, <2>1, <2>2, Zenon
    <2>4. ~ Opening'
      BY <2>1 DEF Opening
    <2> QED  BY <2>1, <2>3, <2>4, NothingShownKeeps, Zenon
  <1>3. CASE \E clock \in Clock :
                 Send(clock) \/ SendEnds(clock) \/ SendBlocks(clock) \/ ReadEnds(clock)
    <2>1. /\ pc \in {"send", "blocked", "read"} /\ UNCHANGED <<host, shown>>
          /\ pc' \in {"make", "expect", "failed", "blocked", "read", "send"}
      BY <1>3
      DEF Send, SendEnds, SendBlocks, ReadEnds, Sent, SendFails, Reads, LoginFails, LoginGivesUp,
          loginOther
    <2> QED  BY <1>1, <2>1, NothingShownKeeps DEF Opening
  <1>4. CASE TakeOther \/ TakeClose \/ TakeOpenOk \/ AwaitFails
             \/ \E clock \in Clock : Expect(clock) \/ HearOther(clock)
    <2>1. /\ pc \in {"expect", "await"} /\ UNCHANGED <<host, shown>>
          /\ pc' \in {"await", "failed", "connected", "send"}
      BY <1>4
      DEF TakeOther, TakeClose, TakeOpenOk, AwaitFails, AwaitTimesOut, Expect, HearOther,
          AwaitOpenOk, Arrives, LoginFails, LoginGivesUp, loginOther
    <2> QED  BY <1>1, <2>1, NothingShownKeeps DEF Opening
  <1>5. CASE \E s \in Outcomes : StartTaken(s) \/ OpenMade(s)
    <2>1. /\ pc \in {"await", "make"} /\ UNCHANGED <<host, shown>>
          /\ pc' \in {"send", "failed"}
      BY <1>5 DEF StartTaken, OpenMade, Arrives, LoginFails, LoginGivesUp, loginOther
    <2> QED  BY <1>1, <2>1, NothingShownKeeps DEF Opening
  <1>6. CASE \E offer \in Offers.all, clock \in Clock, memory \in BOOLEAN, s \in Outcomes :
                 TuneTaken(offer, clock, memory, s)
    <2>1. pc = "await" /\ UNCHANGED <<host, shown>> /\ pc' \in {"send", "failed"}
      BY <1>6 DEF TuneTaken, Arrives, LoginFails
    <2> QED  BY <1>1, <2>1, NothingShownKeeps DEF Opening
  <1>7. CASE Destroy
    BY <1>1, <1>7, NothingShownKeeps DEF Destroy, Opening
  <1> QED  BY <1>2, <1>3, <1>4, <1>5, <1>6, <1>7 DEF LoginStep

LEMMA HostInvStep == HostInv /\ [HandshakeNext]_handshakeVars => HostInv'
  <1> SUFFICES ASSUME HostInv, [HandshakeNext]_handshakeVars PROVE HostInv'
    OBVIOUS
  <1>1. CASE TimePasses \/ PollsAgain \/ UNCHANGED handshakeVars
    <2>1. UNCHANGED <<pc, status, host, shown>>
      BY <1>1 DEF TimePasses, Tick, PollsAgain, PollAgain, handshakeVars, openingVars
    <2> QED  BY <2>1 DEF HostInv, Opening, HostAsReference
  <1>2. CASE OpeningStep
    BY <1>2, HostOpens, HostTls DEF OpeningStep, OpeningNext
  <1> QED  BY <1>1, <1>2, HostLogin DEF HandshakeNext

(***************************************************************************)
(* amqp_ssl_socket_open (amqp_openssl.c:179) leaves a socket that verifies *)
(* the host name open only if the certificate names the host, and refuses  *)
(* one that does only because a name in it is malformed: for every host,   *)
(* every certificate and every way to open, fail and try again.            *)
(***************************************************************************)
THEOREM HostAlwaysAsReference == HandshakeSpec => []HostAsReference
  <1>1. HostInv => HostAsReference
    BY DEF HostInv
  <1> QED  BY <1>1, HostInvInit, HostInvStep, PTL DEF HandshakeSpec

-----------------------------------------------------------------------------
(***************************************************************************)
(* URLs.  What is left of a URL that is written from its parts is a text   *)
(* and a rest, and each step of amqp_parse_url finds the text and stops at *)
(* the head of the rest; so it finds what the URL was written from.  A URL *)
(* that it accepts has no delimiter out of its place but a pair of         *)
(* brackets, so that one more is an error.                                 *)
(***************************************************************************)
LEMMA OwnRange == ASSUME NEW S, NEW s \in Seq(S) PROVE s \in Seq(Range(s))
  <1>1. s \in [1 .. Len(s) -> Range(s)] /\ Len(s) \in Nat
    BY DEF Range
  <1> QED  BY <1>1, SeqDef

\* a sequence of whatever it holds
IsSequence(s) == s \in Seq(Range(s))

LEMMA TextIs == ASSUME NEW text, IsText(text) PROVE IsSequence(text)
  BY OwnRange DEF IsText, IsSequence

\* a component of the URL is the n tokens from here
Spans(uri, from, n, b) ==
    /\ from \in Nat \ {0} /\ n \in Nat /\ from + n <= Len(uri) + 1
    /\ \A i \in from .. from + n - 1 : uri[i] \notin Delimiters(b)
    /\ from + n = Len(uri) + 1 \/ uri[from + n] \in Delimiters(b)

DelimAt(uri, i) == IF i > Len(uri) THEN NUL ELSE uri[i]

Component(uri, from, n) ==
    [text  |-> [i \in 1 .. n |-> Decoded(uri[from + i - 1])],
     delim |-> DelimAt(uri, from + n), next |-> from + n + 1]

LEMMA FindEnds ==
    ASSUME NEW uri, Len(uri) \in Nat, NEW from, NEW n, NEW b \in BOOLEAN, Spans(uri, from, n, b)
    PROVE  find_delim(uri, from, b) = Component(uri, from, n)
  <1> DEFINE at == {i \in from .. Len(uri) : uri[i] \in Delimiters(b)}
             S == at \cup {Len(uri) + 1}
  <1>1. from \in Nat \ {0} /\ n \in Nat /\ from + n <= Len(uri) + 1
    BY DEF Spans
  <1>2. S \in SUBSET Nat /\ from + n \in S
    BY <1>1 DEF Spans
  <1>3. ASSUME NEW y \in S PROVE from + n <= y
    BY <1>1, <1>3 DEF Spans
  <1> HIDE DEF S
  <1>4. Min(S) \in S /\ Min(S) <= from + n
    BY <1>2, MinIs
  <1>5. Min(S) = from + n
    <2>1. PICK least \in Nat : least = Min(S)
      BY <1>2, <1>4
    <2>2. from + n <= least /\ least <= from + n
      BY <1>3, <1>4, <2>1
    <2> QED  BY <1>1, <2>1, <2>2
  <1>6. (from + n) - from = n
    BY <1>1
  <1> QED  BY <1>5, <1>6, Zenon DEF find_delim, S, Component, DelimAt

LEMMA FindStops ==
    ASSUME NEW uri, Len(uri) \in Nat, NEW from \in 1 .. Len(uri) + 1, NEW b \in BOOLEAN
    PROVE  \E n \in Nat : Spans(uri, from, n, b) /\ find_delim(uri, from, b) = Component(uri, from, n)
  <1> DEFINE S == {i \in from .. Len(uri) : uri[i] \in Delimiters(b)} \cup {Len(uri) + 1}
  <1>1. S \in SUBSET Nat /\ Len(uri) + 1 \in S
    OBVIOUS
  <1>2. PICK end \in S : \A y \in S : end <= y
    BY <1>1, MinIs
  <1>3. end \in from .. Len(uri) + 1 /\ (end = Len(uri) + 1 \/ uri[end] \in Delimiters(b))
    BY <1>2
  <1>4. \A i \in from .. end - 1 : uri[i] \notin Delimiters(b)
    BY <1>2, <1>3
  <1>5. PICK n \in Nat : n = end - from
    BY <1>3
  <1>6. Spans(uri, from, n, b)
    BY <1>3, <1>4, <1>5 DEF Spans
  <1> QED  BY <1>6, FindEnds

-----------------------------------------------------------------------------
\* a text is written at this position
WrittenAt(uri, from, text) == \A i \in 1 .. Len(text) : uri[from + i - 1] = Encoding(text[i])

LEMMA EncodingReturns ==
    ASSUME NEW c, c \notin DOMAIN Encodings
    PROVE  /\ Decoded(Encoding(c)) = c
           /\ Encoding(c) \notin {"/", "?", "#", "[", "]", "%", ":", "@"}
  <1>1. DOMAIN Encodings = {"colon", "at", "slash", "percent",
                            "question", "hash", "opening", "closing"}
    BY DEF Encodings
  <1>2. CASE \E e \in DOMAIN Encodings : Encodings[e] = c
    <2>1. Encoding(c) \in DOMAIN Encodings /\ Encodings[Encoding(c)] = c
      BY <1>2 DEF Encoding
    <2> QED  BY <1>1, <2>1 DEF Decoded
  <1>3. CASE ~ \E e \in DOMAIN Encodings : Encodings[e] = c
    <2>1. Encoding(c) = c
      BY <1>3 DEF Encoding
    <2>2. c \notin {"/", "?", "#", "[", "]", "%", ":", "@"}
      BY <1>3 DEF Encodings
    <2> QED  BY <2>1, <2>2 DEF Decoded
  <1> QED  BY <1>2, <1>3

LEMMA OwnElements == ASSUME NEW S, NEW s \in Seq(S) PROVE s = [i \in 1 .. Len(s) |-> s[i]]
  OBVIOUS

LEMMA FindText ==
    ASSUME NEW uri, Len(uri) \in Nat, NEW from \in Nat \ {0}, NEW text, IsText(text),
           WrittenAt(uri, from, text), from + Len(text) <= Len(uri) + 1,
           from + Len(text) = Len(uri) + 1 \/ uri[from + Len(text)] \in {"/", ":", "@", "["}
    PROVE  find_delim(uri, from, TRUE) =
               [text |-> text, delim |-> DelimAt(uri, from + Len(text)),
                next |-> from + Len(text) + 1]
  <1>1. /\ IsSequence(text) /\ Len(text) \in Nat
        /\ \A i \in 1 .. Len(text) : text[i] \notin DOMAIN Encodings
    BY TextIs DEF IsText
  <1>2. \A i \in 1 .. Len(text) : /\ Decoded(uri[from + i - 1]) = text[i]
                                 /\ uri[from + i - 1] \notin Delimiters(TRUE)
    BY <1>1, EncodingReturns DEF WrittenAt, Delimiters
  <1>3. ASSUME NEW i \in from .. from + Len(text) - 1 PROVE uri[i] \notin Delimiters(TRUE)
    <2>1. i - from + 1 \in 1 .. Len(text) /\ from + (i - from + 1) - 1 = i
      BY <1>1
    <2> QED  BY <1>2, <2>1
  <1>4. Spans(uri, from, Len(text), TRUE)
    BY <1>1, <1>3 DEF Spans, Delimiters
  <1>5. find_delim(uri, from, TRUE) = Component(uri, from, Len(text))
    BY <1>4, FindEnds
  <1>6. [i \in 1 .. Len(text) |-> Decoded(uri[from + i - 1])] = text
    <2>1. [i \in 1 .. Len(text) |-> Decoded(uri[from + i - 1])] = [i \in 1 .. Len(text) |-> text[i]]
      BY <1>2, Zenon
    <2>2. text = [i \in 1 .. Len(text) |-> text[i]]
      BY <1>1, OwnElements DEF IsSequence
    <2> QED  BY <2>1, <2>2, Zenon
  <1> QED  BY <1>5, <1>6, Zenon DEF Component

\* what stands in brackets
LEMMA FindAddress ==
    ASSUME NEW uri, Len(uri) \in Nat, NEW from \in Nat \ {0}, NEW text, IsAddress(text),
           \A i \in 1 .. Len(text) : uri[from + i - 1] = text[i],
           from + Len(text) <= Len(uri), uri[from + Len(text)] = "]"
    PROVE  find_delim(uri, from, FALSE) =
               [text |-> text, delim |-> "]", next |-> from + Len(text) + 1]
  <1>1. /\ IsSequence(text) /\ Len(text) \in Nat
        /\ \A i \in 1 .. Len(text) :
               text[i] \notin {"?", "#", "[", "]", "/", "%"} \cup DOMAIN Encodings
    BY TextIs DEF IsText, IsAddress
  <1>2. \A i \in 1 .. Len(text) : /\ Decoded(uri[from + i - 1]) = text[i]
                                 /\ uri[from + i - 1] \notin Delimiters(FALSE)
    BY <1>1 DEF Delimiters, Decoded
  <1>3. ASSUME NEW i \in from .. from + Len(text) - 1 PROVE uri[i] \notin Delimiters(FALSE)
    <2>1. i - from + 1 \in 1 .. Len(text) /\ from + (i - from + 1) - 1 = i
      BY <1>1
    <2> QED  BY <1>2, <2>1
  <1>4. Spans(uri, from, Len(text), FALSE)
    BY <1>1, <1>3 DEF Spans, Delimiters
  <1>5. find_delim(uri, from, FALSE) = Component(uri, from, Len(text))
    BY <1>4, FindEnds
  <1>6. [i \in 1 .. Len(text) |-> Decoded(uri[from + i - 1])] = text
    <2>1. [i \in 1 .. Len(text) |-> Decoded(uri[from + i - 1])] = [i \in 1 .. Len(text) |-> text[i]]
      BY <1>2, Zenon
    <2>2. text = [i \in 1 .. Len(text) |-> text[i]]
      BY <1>1, OwnElements DEF IsSequence
    <2> QED  BY <2>1, <2>2, Zenon
  <1>7. DelimAt(uri, from + Len(text)) = "]"
    BY <1>1 DEF DelimAt
  <1> QED  BY <1>5, <1>6, <1>7, Zenon DEF Component

-----------------------------------------------------------------------------
\* what is left of the URL from this position
Ahead(uri, from, rest) ==
    /\ IsSequence(rest) /\ from \in Nat \ {0}
    /\ Len(uri) \in Nat /\ Len(uri) + 1 = from + Len(rest)
    /\ \A i \in 1 .. Len(rest) : uri[from + i - 1] = rest[i]

\* a component has ended, and this is left with the delimiter that ended it
Stopped(uri, d, rest) ==
    /\ IsSequence(rest)
    /\ IF rest = <<>> THEN d.delim = NUL
       ELSE d.delim = rest[1] /\ Ahead(uri, d.next, Tail(rest))

\* the tokens from this position, and what is behind n of them
Holds(uri, from, s) == \A i \in 1 .. Len(s) : uri[from + i - 1] = s[i]

ThenFollows(uri, from, n, rest) ==
    /\ Len(uri) \in Nat /\ from \in Nat \ {0} /\ n \in Nat /\ Len(rest) \in Nat
    /\ from + n + Len(rest) = Len(uri) + 1
    /\ rest # <<>> => /\ Len(rest) \in Nat \ {0}
                      /\ uri[from + n] = rest[1]
                      /\ Ahead(uri, from + n + 1, Tail(rest))

LEMMA Joins ==
    ASSUME NEW s, IsSequence(s), NEW t, IsSequence(t)
    PROVE  /\ IsSequence(s \o t) /\ Len(s \o t) = Len(s) + Len(t)
           /\ Len(s) \in Nat /\ Len(t) \in Nat
           /\ \A i \in 1 .. Len(s) : (s \o t)[i] = s[i]
           /\ \A i \in 1 .. Len(t) : (s \o t)[Len(s) + i] = t[i]
  <1>1. PICK S : S = Range(s) \cup Range(t)
    OBVIOUS
  <1>2. Range(s) \subseteq S /\ Range(t) \subseteq S
    BY <1>1, Zenon
  <1>3. s \in Seq(S) /\ t \in Seq(S)
    BY <1>2 DEF IsSequence
  <1>4. s \o t \in Seq(S)
    BY <1>3
  <1>5. IsSequence(s \o t)
    BY <1>4, OwnRange, Zenon DEF IsSequence
  <1> QED  BY <1>3, <1>5

LEMMA Rests ==
    ASSUME NEW s, IsSequence(s)
    PROVE  /\ Len(s) \in Nat
           /\ s = <<>> => Len(s) = 0
           /\ s # <<>> => /\ Len(s) \in Nat \ {0} /\ IsSequence(Tail(s))
                          /\ Len(Tail(s)) = Len(s) - 1
                          /\ \A i \in 1 .. Len(s) - 1 : Tail(s)[i] = s[i + 1]
  <1>1. PICK S : s \in Seq(S)
    BY DEF IsSequence
  <1>2. ASSUME s # <<>> PROVE Tail(s) \in Seq(S)
    BY <1>1, <1>2
  <1>3. s # <<>> => IsSequence(Tail(s))
    BY <1>2, OwnRange, Zenon DEF IsSequence
  <1> QED  BY <1>1, <1>3

LEMMA Behind ==
    ASSUME NEW uri, NEW from, NEW s, IsSequence(s), NEW rest, IsSequence(rest),
           Ahead(uri, from, s \o rest)
    PROVE  Holds(uri, from, s) /\ ThenFollows(uri, from, Len(s), rest)
  <1>0. /\ IsSequence(s \o rest) /\ Len(s \o rest) = Len(s) + Len(rest)
        /\ Len(s) \in Nat /\ Len(rest) \in Nat
        /\ \A i \in 1 .. Len(s) : (s \o rest)[i] = s[i]
        /\ \A i \in 1 .. Len(rest) : (s \o rest)[Len(s) + i] = rest[i]
    <2>1. /\ IsSequence(s \o rest) /\ Len(s \o rest) = Len(s) + Len(rest)
          /\ Len(s) \in Nat /\ Len(rest) \in Nat
          /\ \A i \in 1 .. Len(s) : (s \o rest)[i] = s[i]
      BY Joins
    <2>2. ASSUME NEW i \in 1 .. Len(rest) PROVE (s \o rest)[Len(s) + i] = rest[i]
      <3>1. PICK S, T : s \in Seq(S) /\ rest \in Seq(T)
        BY DEF IsSequence
      <3> QED  BY <3>1
    <2> QED  BY <2>1, <2>2
  <1>1. /\ Len(uri) \in Nat /\ from \in Nat \ {0} /\ Len(s) \in Nat /\ Len(rest) \in Nat
        /\ Len(uri) + 1 = from + (Len(s) + Len(rest))
        /\ \A i \in 1 .. Len(s) + Len(rest) : uri[from + i - 1] = (s \o rest)[i]
    BY <1>0 DEF Ahead
  <1>2. \A i \in 1 .. Len(s) : uri[from + i - 1] = s[i]
    BY <1>0, <1>1
  <1>3. ASSUME NEW i \in 1 .. Len(rest) PROVE uri[from + Len(s) + i - 1] = rest[i]
    <2>1. Len(s) + i \in 1 .. Len(s) + Len(rest) /\ from + (Len(s) + i) - 1 = from + Len(s) + i - 1
      BY <1>1
    <2>2. (s \o rest)[Len(s) + i] = rest[i]
      BY <1>0
    <2> QED  BY <1>1, <2>1, <2>2
  <1>4. ASSUME rest # <<>>
        PROVE  /\ Len(rest) \in Nat \ {0} /\ uri[from + Len(s)] = rest[1]
               /\ Ahead(uri, from + Len(s) + 1, Tail(rest))
    <2>1. /\ Len(rest) \in Nat \ {0} /\ IsSequence(Tail(rest))
          /\ Len(Tail(rest)) = Len(rest) - 1
          /\ \A i \in 1 .. Len(rest) - 1 : Tail(rest)[i] = rest[i + 1]
      BY <1>4, Rests, Zenon
    <2>2. uri[from + Len(s)] = rest[1]
      BY <1>1, <1>3, <2>1
    <2>3. ASSUME NEW i \in 1 .. Len(rest) - 1
          PROVE  uri[(from + Len(s) + 1) + i - 1] = Tail(rest)[i]
      <3>1. i + 1 \in 1 .. Len(rest) /\ from + Len(s) + (i + 1) - 1 = (from + Len(s) + 1) + i - 1
        BY <1>1, <2>1
      <3> QED  BY <1>3, <2>1, <3>1
    <2>4. from + Len(s) + 1 \in Nat \ {0} /\ Len(uri) + 1 = (from + Len(s) + 1) + (Len(rest) - 1)
      <3>1. ASSUME NEW f \in Nat, NEW n \in Nat, NEW m \in Nat, NEW l \in Nat, l + 1 = f + (n + m)
            PROVE  f + n + 1 \in Nat \ {0} /\ l + 1 = (f + n + 1) + (m - 1)
        BY <3>1
      <3>2. /\ Len(uri) \in Nat /\ from \in Nat /\ Len(s) \in Nat /\ Len(rest) \in Nat
            /\ Len(uri) + 1 = from + (Len(s) + Len(rest))
        BY <1>1
      <3> QED  BY <3>1, <3>2
    <2> QED  BY <1>1, <2>1, <2>2, <2>3, <2>4 DEF Ahead
  <1>5. from + Len(s) + Len(rest) = Len(uri) + 1
    BY <1>1
  <1> QED  BY <1>1, <1>2, <1>4, <1>5, Zenon DEF Holds, ThenFollows

LEMMA EncodesText ==
    ASSUME NEW text, IsText(text)
    PROVE  /\ IsSequence(Encode(text)) /\ Len(Encode(text)) = Len(text)
           /\ \A i \in 1 .. Len(text) : Encode(text)[i] = Encoding(text[i])
  <1>1. IsSequence(text) /\ Len(text) \in Nat
    BY TextIs, LenProperties, Zenon DEF IsSequence
  <1>2. DOMAIN text = 1 .. Len(text)
    BY <1>1, LenProperties, Zenon DEF IsSequence
  <1>3. Encode(text) = [i \in 1 .. Len(text) |-> Encoding(text[i])]
    BY <1>2, Zenon DEF Encode
  <1>4. PICK S : S = {Encoding(text[i]) : i \in 1 .. Len(text)}
    OBVIOUS
  <1>5. PICK e : e = [i \in 1 .. Len(text) |-> Encoding(text[i])]
    OBVIOUS
  <1>6. e \in [1 .. Len(text) -> S]
    BY <1>4, <1>5
  <1>7. e \in Seq(S) /\ Len(e) = Len(text)
    BY <1>1, <1>6
  <1> QED  BY <1>3, <1>5, <1>7, OwnRange, Zenon DEF IsSequence

LEMMA EmptyText == IsText(<<>>) /\ IsSequence(<<>>) /\ Encode(<<>>) = <<>>
  <1>1. IsSequence(<<>>)
    <2>1. <<>> \in Seq({})
      OBVIOUS
    <2> QED  BY <2>1, OwnRange DEF IsSequence
  <1>2. DOMAIN <<>> = {}
    OBVIOUS
  <1>3. IsText(<<>>)
    BY <1>1, <1>2 DEF IsText
  <1>4. Encode(<<>>) \in Seq({})
    BY DEF Encode
  <1>5. Len(Encode(<<>>)) = 0
    BY <1>3, EncodesText, EmptySeq
  <1> QED  BY <1>1, <1>3, <1>4, <1>5, EmptySeq

\* a component that is written from this text
LEMMA TextAhead ==
    ASSUME NEW uri, NEW from, NEW text, IsText(text), NEW rest, IsSequence(rest),
           rest # <<>> => rest[1] \in {"/", ":", "@", "["},
           Ahead(uri, from, Encode(text) \o rest)
    PROVE  LET d == find_delim(uri, from, TRUE)
           IN  d.text = text /\ Stopped(uri, d, rest)
  <1>1. /\ IsSequence(text) /\ Len(text) \in Nat
    BY TextIs DEF IsText
  <1>2. /\ IsSequence(Encode(text)) /\ Len(Encode(text)) = Len(text)
        /\ \A i \in 1 .. Len(text) : Encode(text)[i] = Encoding(text[i])
    BY EncodesText
  <1>3. /\ Len(uri) \in Nat /\ from \in Nat \ {0} /\ Len(rest) \in Nat
        /\ from + Len(text) + Len(rest) = Len(uri) + 1
        /\ \A i \in 1 .. Len(text) : uri[from + i - 1] = Encoding(text[i])
        /\ rest # <<>> => /\ Len(rest) \in Nat \ {0}
                          /\ uri[from + Len(text)] = rest[1]
                          /\ Ahead(uri, from + Len(text) + 1, Tail(rest))
    <2>1. PICK e : IsSequence(e) /\ e = Encode(text)
      BY <1>2
    <2>2. Ahead(uri, from, e \o rest) /\ Len(e) = Len(text)
      BY <1>2, <2>1, Zenon
    <2>3. Holds(uri, from, e) /\ ThenFollows(uri, from, Len(e), rest)
      BY <2>1, <2>2, Behind, Zenon
    <2>4. \A i \in 1 .. Len(text) : e[i] = Encoding(text[i])
      BY <1>2, <2>1, Zenon
    <2> QED  BY <2>2, <2>3, <2>4, Zenon DEF Holds, ThenFollows
  <1>4. rest = <<>> => Len(rest) = 0
    OBVIOUS
  <1>5. WrittenAt(uri, from, text)
    BY <1>3 DEF WrittenAt
  <1>6. /\ from + Len(text) <= Len(uri) + 1
        /\ from + Len(text) = Len(uri) + 1 \/ uri[from + Len(text)] \in {"/", ":", "@", "["}
    BY <1>1, <1>3, <1>4
  <1>7. find_delim(uri, from, TRUE) =
            [text |-> text, delim |-> DelimAt(uri, from + Len(text)),
             next |-> from + Len(text) + 1]
    BY <1>3, <1>5, <1>6, FindText
  <1>8. IF rest = <<>> THEN DelimAt(uri, from + Len(text)) = NUL
        ELSE DelimAt(uri, from + Len(text)) = rest[1]
    BY <1>1, <1>3, <1>4 DEF DelimAt
  <1> DEFINE d == find_delim(uri, from, TRUE)
  <1>9. d.text = text /\ d.delim = DelimAt(uri, from + Len(text)) /\ d.next = from + Len(text) + 1
    <2>1. PICK c, n : c = DelimAt(uri, from + Len(text)) /\ n = from + Len(text) + 1
      BY Zenon
    <2>2. d = [text |-> text, delim |-> c, next |-> n]
      BY <1>7, <2>1, Zenon
    <2> HIDE DEF d
    <2>3. d.text = text /\ d.delim = c /\ d.next = n
      BY <2>2
    <2> QED  BY <2>1, <2>3, Zenon
  <1> QED  BY <1>3, <1>8, <1>9, Zenon DEF Stopped

\* a sequence that begins with this token
LEMMA Begins ==
    ASSUME NEW c, NEW rest, IsSequence(rest)
    PROVE  /\ IsSequence(<<c>>) /\ IsSequence(<<c>> \o rest)
           /\ <<c>> \o rest # <<>> /\ (<<c>> \o rest)[1] = c /\ Tail(<<c>> \o rest) = rest
  <1>1. PICK S : S = Range(rest) \cup {c}
    OBVIOUS
  <1>2. Range(rest) \subseteq S /\ c \in S
    BY <1>1, Zenon
  <1>3. rest \in Seq(S) /\ <<c>> \in Seq(S)
    BY <1>2 DEF IsSequence
  <1>4. <<c>> \o rest \in Seq(S) /\ Len(<<c>> \o rest) = 1 + Len(rest) /\ Len(rest) \in Nat
    BY <1>3
  <1>5. <<c>> \o rest # <<>>
    BY <1>4
  <1>6. (<<c>> \o rest)[1] = c /\ \A i \in 1 .. Len(rest) : (<<c>> \o rest)[i + 1] = rest[i]
    BY <1>3
  <1>7. Tail(<<c>> \o rest) = rest
    <2>1. PICK t : t = <<c>> \o rest
      OBVIOUS
    <2>2. /\ Tail(t) \in Seq(S) /\ Len(Tail(t)) = Len(rest)
          /\ \A i \in 1 .. Len(rest) : Tail(t)[i] = t[i + 1]
      BY <1>4, <1>5, <2>1
    <2>3. \A i \in 1 .. Len(rest) : Tail(t)[i] = rest[i]
      BY <1>6, <2>1, <2>2
    <2> QED  BY <1>3, <2>1, <2>2, <2>3, SeqEqual, Zenon
  <1> QED  BY <1>3, <1>4, <1>5, <1>6, <1>7, OwnRange, Zenon DEF IsSequence

\* brackets may be moved
Regrouped(r, s, t) == (r \o s) \o t = r \o (s \o t)

LEMMA Regroups ==
    ASSUME NEW r, NEW s, NEW t, IsSequence(r), IsSequence(s), IsSequence(t)
    PROVE  Regrouped(r, s, t)
  <1>1. PICK S : S = Range(r) \cup (Range(s) \cup Range(t))
    OBVIOUS
  <1>2. Range(r) \subseteq S /\ Range(s) \subseteq S /\ Range(t) \subseteq S
    BY <1>1, Zenon
  <1>3. r \in Seq(S) /\ s \in Seq(S) /\ t \in Seq(S)
    BY <1>2 DEF IsSequence
  <1> QED  BY <1>3, ConcatAssociative DEF Regrouped

LEMMA NothingBefore ==
    ASSUME NEW s, IsSequence(s)
    PROVE  <<>> \o s = s /\ s \o <<>> = s /\ IsSequence(<<>>)
  <1>1. <<>> \in Seq({})
    OBVIOUS
  <1>2. IsSequence(<<>>)
    BY <1>1, OwnRange DEF IsSequence
  <1> QED  BY <1>2, ConcatEmptySeq, Zenon DEF IsSequence

\* what stands in brackets, behind the opening one
LEMMA AddressAhead ==
    ASSUME NEW uri, NEW from, NEW text, IsAddress(text), NEW rest, IsSequence(rest),
           Ahead(uri, from, text \o (<<"]">> \o rest))
    PROVE  LET d == find_delim(uri, from, FALSE)
           IN  d.text = text /\ d.delim = "]" /\ Ahead(uri, d.next, rest)
  <1>1. IsSequence(text)
    BY TextIs DEF IsAddress
  <1>2. PICK t : t = <<"]">> \o rest
    OBVIOUS
  <1>3. IsSequence(t) /\ t # <<>> /\ t[1] = "]" /\ Tail(t) = rest
    BY <1>2, Begins, Zenon
  <1>4. Holds(uri, from, text) /\ ThenFollows(uri, from, Len(text), t)
    BY <1>1, <1>2, <1>3, Behind, Zenon
  <1>5. /\ Len(uri) \in Nat /\ from \in Nat \ {0} /\ Len(text) \in Nat /\ Len(t) \in Nat \ {0}
        /\ from + Len(text) + Len(t) = Len(uri) + 1
        /\ uri[from + Len(text)] = "]" /\ Ahead(uri, from + Len(text) + 1, rest)
    BY <1>3, <1>4, Zenon DEF ThenFollows
  <1>6. from + Len(text) <= Len(uri)
    BY <1>5
  <1> DEFINE d == find_delim(uri, from, FALSE)
  <1>7. PICK n : n = from + Len(text) + 1
    OBVIOUS
  <1>8. d = [text |-> text, delim |-> "]", next |-> n]
    BY <1>4, <1>5, <1>6, <1>7, FindAddress, Zenon DEF Holds
  <1> HIDE DEF d
  <1>9. d.text = text /\ d.delim = "]" /\ d.next = n
    BY <1>8
  <1> QED  BY <1>5, <1>7, <1>9, Zenon DEF d

-----------------------------------------------------------------------------
Keys == {"user", "password", "host", "port", "vhost", "behind", "delim", "next", "sound"}

\* what has been found so far, and no error
Found(s, user, password, h, port) ==
    /\ DOMAIN s = Keys
    /\ s.user = user /\ s.password = password /\ s.host = h /\ s.port = port
    /\ s.vhost = <<>> /\ s.behind \in {<<>>, << <<>> >>} /\ s.sound = TRUE

LEMMA NothingIsFound ==
    /\ Found(NothingFound, <<>>, <<>>, <<>>, <<>>)
    /\ NothingFound.next = 1
  BY DEF Found, NothingFound, Keys

LEMMA HostFound ==
    ASSUME NEW uri, NEW s, NEW user, NEW password, NEW h, NEW port,
           Found(s, user, password, h, port),
           NEW text, IsText(text), NEW rest, IsSequence(rest),
           rest # <<>> => rest[1] \in {"/", ":", "@", "["},
           Ahead(uri, s.next, Encode(text) \o rest)
    PROVE  LET t == Find(uri, s, "host", TRUE)
           IN  Found(t, user, password, <<text>>, port) /\ Stopped(uri, t, rest)
  <1>1. PICK d : d = find_delim(uri, s.next, TRUE)
    OBVIOUS
  <1>2. d.text = text /\ Stopped(uri, d, rest)
    BY <1>1, TextAhead, Zenon
  <1>3. PICK t : t = [s EXCEPT !["host"] = <<text>>, !.delim = d.delim, !.next = d.next]
    OBVIOUS
  <1>4. Find(uri, s, "host", TRUE) = t
    BY <1>1, <1>2, <1>3, Zenon DEF Find
  <1>5. Found(t, user, password, <<text>>, port) /\ t.delim = d.delim /\ t.next = d.next
    BY <1>3 DEF Found, Keys
  <1> QED  BY <1>2, <1>4, <1>5, Zenon DEF Stopped

\* a part that is optional is read if it is there
LEMMA PortFound ==
    ASSUME NEW uri, NEW s, NEW user, NEW password, NEW h,
           Found(s, user, password, h, <<>>),
           NEW part, IsPart(part), NEW rest, IsSequence(rest),
           rest # <<>> => rest[1] \in {"/", "@"},
           Stopped(uri, s, Optional(part, <<":">>) \o rest)
    PROVE  LET t == PortOrPassword(uri, s)
           IN  Found(t, user, password, h, part) /\ Stopped(uri, t, rest)
  <1>1. CASE part = <<>>
    <2>1. Optional(part, <<":">>) \o rest = rest
      BY <1>1, NothingBefore, Zenon DEF Optional
    <2>2. s.delim # ":"
      BY <2>1 DEF Stopped, NUL
    <2>3. PortOrPassword(uri, s) = s
      BY <2>2, Zenon DEF PortOrPassword
    <2> QED  BY <1>1, <2>1, <2>3, Zenon
  <1>2. CASE part # <<>>
    <2>1. part = <<part[1]>> /\ IsText(part[1])
      BY <1>2, Zenon DEF IsPart
    <2>2. PICK text : text = part[1]
      OBVIOUS
    <2>3. IsSequence(Encode(text)) /\ IsSequence(Encode(text) \o rest)
      BY <2>1, <2>2, EncodesText, Joins, Zenon
    <2>4. Optional(part, <<":">>) \o rest = <<":">> \o (Encode(text) \o rest)
      <3>1. PICK e : e = Encode(text) /\ IsSequence(e)
        BY <2>3
      <3>2. Optional(part, <<":">>) = <<":">> \o e
        BY <1>2, <2>2, <3>1, Zenon DEF Optional
      <3>3. IsSequence(<<":">>)
        BY <3>1, Begins, Zenon
      <3>4. Regrouped(<<":">>, e, rest)
        BY <3>1, <3>3, Regroups, Zenon
      <3> QED  BY <3>1, <3>2, <3>4, Zenon DEF Regrouped
    <2>5. s.delim = ":" /\ Ahead(uri, s.next, Encode(text) \o rest)
      BY <2>3, <2>4, Begins, Zenon DEF Stopped
    <2>6. PICK d : d = find_delim(uri, s.next, TRUE)
      OBVIOUS
    <2>7. d.text = text /\ Stopped(uri, d, rest)
      <3>1. rest # <<>> => rest[1] \in {"/", ":", "@", "["}
        OBVIOUS
      <3> QED  BY <2>1, <2>2, <2>5, <2>6, <3>1, TextAhead, Zenon
    <2>8. PICK t : t = [s EXCEPT !["port"] = <<text>>, !.delim = d.delim, !.next = d.next]
      OBVIOUS
    <2>9. PortOrPassword(uri, s) = t
      BY <2>5, <2>6, <2>7, <2>8, Zenon DEF Find, PortOrPassword
    <2>10. Found(t, user, password, h, <<text>>) /\ t.delim = d.delim /\ t.next = d.next
      BY <2>8, Zenon DEF Found, Keys
    <2> QED  BY <2>1, <2>2, <2>7, <2>9, <2>10, Zenon DEF Stopped
  <1> QED  BY <1>1, <1>2

\* the last part of a URL
LEMMA VhostFound ==
    ASSUME NEW uri, NEW s, NEW user, NEW password, NEW h, NEW port,
           Found(s, user, password, h, port),
           NEW part, IsPart(part),
           Stopped(uri, s, Optional(part, <<"/">>))
    PROVE  LET t == Vhost(uri, s)
           IN  /\ t.user = user /\ t.password = password /\ t.host = h /\ t.port = port
               /\ t.vhost = part /\ t.behind \in {<<>>, << <<>> >>} /\ t.sound = TRUE
               /\ t.delim = NUL
  <1>1. CASE part = <<>>
    <2>1. s.delim = NUL
      BY <1>1, Zenon DEF Optional, Stopped
    <2>2. Vhost(uri, s) = s
      BY <2>1 DEF Vhost, NUL
    <2> QED  BY <1>1, <2>1, <2>2, Zenon DEF Found
  <1>2. CASE part # <<>>
    <2>1. part = <<part[1]>> /\ IsText(part[1])
      BY <1>2, Zenon DEF IsPart
    <2>2. PICK text : text = part[1]
      OBVIOUS
    <2>3. IsSequence(Encode(text)) /\ IsSequence(<<>>) /\ Encode(text) \o <<>> = Encode(text)
      BY <2>1, <2>2, EncodesText, NothingBefore, Zenon
    <2>4. Optional(part, <<"/">>) = <<"/">> \o (Encode(text) \o <<>>)
      BY <1>2, <2>2, <2>3, Zenon DEF Optional
    <2>5. s.delim = "/" /\ Ahead(uri, s.next, Encode(text) \o <<>>)
      BY <2>3, <2>4, Begins, Zenon DEF Stopped
    <2>6. PICK d : d = find_delim(uri, s.next, TRUE)
      OBVIOUS
    <2>7. d.text = text /\ d.delim = NUL
      BY <2>1, <2>2, <2>3, <2>5, <2>6, TextAhead, Zenon DEF Stopped
    <2>8. PICK t : t = [s EXCEPT !["vhost"] = <<text>>, !.delim = d.delim, !.next = d.next]
      OBVIOUS
    <2>9. Vhost(uri, s) = t
      BY <2>5, <2>6, <2>7, <2>8, Zenon DEF Find, Vhost
    <2>10. /\ t.user = user /\ t.password = password /\ t.host = h /\ t.port = port
           /\ t.vhost = <<text>> /\ t.behind \in {<<>>, << <<>> >>} /\ t.sound = TRUE
           /\ t.delim = d.delim
      BY <2>8, Zenon DEF Found, Keys
    <2> QED  BY <2>1, <2>2, <2>7, <2>9, <2>10, Zenon
  <1> QED  BY <1>1, <1>2

-----------------------------------------------------------------------------
\* a host without brackets
LEMMA PlainHost ==
    ASSUME NEW uri, NEW s, NEW user, NEW password, NEW text, NEW port,
           Found(s, user, password, <<text>>, port),
           NEW rest, rest # <<>> => rest[1] \in {"/", ":"},
           Stopped(uri, s, rest)
    PROVE  LET t == Host(uri, s)
           IN  /\ Found(t, user, password, IF text = <<>> THEN <<>> ELSE <<text>>, port)
               /\ Stopped(uri, t, rest)
  <1>1. s.delim # "["
    BY DEF Stopped, NUL
  <1>2. PICK h : h = IF s.host = << <<>> >> THEN <<>> ELSE s.host
    OBVIOUS
  <1>3. PICK t : t = [s EXCEPT !.host = h]
    OBVIOUS
  <1>4. Host(uri, s) = t
    BY <1>1, <1>2, <1>3, Zenon DEF Host
  <1>5. <<text>> = << <<>> >> <=> text = <<>>
    OBVIOUS
  <1>6. h = IF text = <<>> THEN <<>> ELSE <<text>>
    BY <1>2, <1>5 DEF Found
  <1>7. Found(t, user, password, h, port) /\ t.delim = s.delim /\ t.next = s.next
    BY <1>3, Zenon DEF Found, Keys
  <1> QED  BY <1>4, <1>6, <1>7, Zenon DEF Stopped

\* a host in brackets
LEMMA BracketHost ==
    ASSUME NEW uri, NEW s, NEW user, NEW password,
           Found(s, user, password, << <<>> >>, <<>>),
           NEW text, IsAddress(text), NEW rest, IsSequence(rest),
           rest # <<>> => rest[1] \in {"/", ":"},
           Stopped(uri, s, <<"[">> \o (text \o (<<"]">> \o rest)))
    PROVE  LET t == Host(uri, s)
           IN  Found(t, user, password, <<text>>, <<>>) /\ Stopped(uri, t, rest)
  <1>1. IsSequence(text) /\ IsSequence(<<"]">> \o rest)
    BY TextIs, Begins, Zenon DEF IsAddress
  <1>2. PICK w : w = text \o (<<"]">> \o rest)
    OBVIOUS
  <1>3. IsSequence(w)
    BY <1>1, <1>2, Joins
  <1>4. s.delim = "[" /\ Ahead(uri, s.next, w)
    BY <1>2, <1>3, Begins, Zenon DEF Stopped
  <1>5. PICK s1 : s1 = [s EXCEPT !.sound = TRUE]
    OBVIOUS
  <1>6. Found(s1, user, password, << <<>> >>, <<>>) /\ s1.delim = s.delim /\ s1.next = s.next
    BY <1>5, Zenon DEF Found, Keys
  <1>7. s1 = [s EXCEPT !.sound = s.port = <<>> /\ s.host = << <<>> >>]
    BY <1>5, Zenon DEF Found
  <1>8. PICK d : d = find_delim(uri, s1.next, FALSE)
    OBVIOUS
  <1>9. d.text = text /\ d.delim = "]" /\ Ahead(uri, d.next, rest)
    <2>1. Ahead(uri, s1.next, text \o (<<"]">> \o rest))
      BY <1>2, <1>4, <1>6, Zenon
    <2> QED  BY <1>8, <2>1, AddressAhead
  <1>10. PICK s2 : s2 = [s1 EXCEPT !["host"] = <<text>>, !.delim = d.delim, !.next = d.next]
    OBVIOUS
  <1>11. Find(uri, s1, "host", FALSE) = s2
    BY <1>8, <1>9, <1>10, Zenon DEF Find
  <1>12. /\ Found(s2, user, password, <<text>>, <<>>)
         /\ s2.delim = "]" /\ Ahead(uri, s2.next, rest)
    BY <1>6, <1>9, <1>10, Zenon DEF Found, Keys
  <1>13. PICK s3 : s3 = [s2 EXCEPT !.sound = TRUE]
    OBVIOUS
  <1>14. /\ Found(s3, user, password, <<text>>, <<>>)
         /\ Ahead(uri, s3.next, rest)
    BY <1>12, <1>13, Zenon DEF Found, Keys
  <1>15. s3 = [s2 EXCEPT !.sound = @ /\ s2.delim = "]"]
    BY <1>12, <1>13, Zenon DEF Found
  <1>16. PICK d3 : d3 = find_delim(uri, s3.next, TRUE)
    OBVIOUS
  <1>17. d3.text = <<>> /\ Stopped(uri, d3, rest)
    <2>1. IsText(<<>>) /\ Encode(<<>>) = <<>>
      BY EmptyText
    <2>2. Ahead(uri, s3.next, Encode(<<>>) \o rest)
      BY <1>14, <2>1, NothingBefore, Zenon
    <2>3. rest # <<>> => rest[1] \in {"/", ":", "@", "["}
      OBVIOUS
    <2> QED  BY <1>16, <2>1, <2>2, <2>3, TextAhead, Zenon
  <1>18. PICK t : t = [s3 EXCEPT !["behind"] = << <<>> >>, !.delim = d3.delim, !.next = d3.next]
    OBVIOUS
  <1>19. Find(uri, s3, "behind", TRUE) = t
    BY <1>16, <1>17, <1>18, Zenon DEF Find
  <1>20. Host(uri, s) = t
    BY <1>4, <1>7, <1>11, <1>15, <1>19, Zenon DEF Host
  <1>21. Found(t, user, password, <<text>>, <<>>) /\ t.delim = d3.delim /\ t.next = d3.next
    BY <1>14, <1>18, Zenon DEF Found, Keys
  <1> QED  BY <1>17, <1>20, <1>21, Zenon DEF Stopped

-----------------------------------------------------------------------------
\* the host as it is written, and what is read of it before a bracket
HostText(parts) == IF parts.brackets THEN <<>> ELSE parts.host

HostRest(parts, rest) ==
    IF parts.brackets THEN <<"[">> \o (parts.host \o (<<"]">> \o rest)) ELSE rest

PortAndVhost(parts) == Optional(parts.port, <<":">>) \o Optional(parts.vhost, <<"/">>)

FromHost(parts) == Encode(HostText(parts)) \o HostRest(parts, PortAndVhost(parts))

FromUser(parts) ==
    IF parts.user = <<>> THEN FromHost(parts)
    ELSE Encode(parts.user[1])
         \o (Optional(parts.password, <<":">>) \o (<<"@">> \o FromHost(parts)))

LEMMA OptionalIs ==
    ASSUME NEW part, IsPart(part), NEW c
    PROVE  /\ IsSequence(Optional(part, <<c>>))
           /\ Optional(part, <<c>>) # <<>> => Optional(part, <<c>>)[1] = c
  <1>1. CASE part = <<>>
    BY <1>1, EmptyText, Zenon DEF Optional
  <1>2. CASE part # <<>>
    <2>1. IsSequence(Encode(part[1]))
      BY <1>2, EncodesText, Zenon DEF IsPart
    <2>2. Optional(part, <<c>>) = <<c>> \o Encode(part[1])
      BY <1>2, Zenon DEF Optional
    <2> QED  BY <2>1, <2>2, Begins, Zenon
  <1> QED  BY <1>1, <1>2

LEMMA BothParts ==
    ASSUME NEW parts, IsParts(parts)
    PROVE  /\ IsSequence(PortAndVhost(parts)) /\ IsText(HostText(parts))
           /\ IsSequence(HostRest(parts, PortAndVhost(parts)))
           /\ IsSequence(FromHost(parts))
           /\ PortAndVhost(parts) # <<>> => PortAndVhost(parts)[1] \in {":", "/"}
           /\ HostRest(parts, PortAndVhost(parts)) # <<>>
                  => HostRest(parts, PortAndVhost(parts))[1] \in {":", "/", "["}
  <1> DEFINE P == PortAndVhost(parts)
             po == Optional(parts.port, <<":">>)
             v == Optional(parts.vhost, <<"/">>)
  <1>1. /\ IsPart(parts.port) /\ IsPart(parts.vhost) /\ parts.brackets \in BOOLEAN
        /\ IF parts.brackets THEN IsAddress(parts.host) ELSE IsText(parts.host)
    BY DEF IsParts
  <1>2. /\ IsSequence(po) /\ (po # <<>> => po[1] = ":")
        /\ IsSequence(v) /\ (v # <<>> => v[1] = "/")
    BY <1>1, OptionalIs, Zenon
  <1>3. P = po \o v
    BY Zenon DEF PortAndVhost
  <1>4. IsSequence(P) /\ (P # <<>> => P[1] \in {":", "/"})
    <2>1. CASE po = <<>>
      BY <1>2, <1>3, <2>1, NothingBefore, Zenon
    <2>2. CASE po # <<>>
      <3>1. Len(po) \in Nat \ {0}
        BY <1>2, <2>2, Rests, Zenon
      <3>2. IsSequence(P) /\ P[1] = po[1]
        BY <1>2, <1>3, <3>1, Joins
      <3> QED  BY <1>2, <2>2, <3>2
    <2> QED  BY <2>1, <2>2
  <1> HIDE DEF P, po, v
  <1>5. IsText(HostText(parts))
    BY <1>1, EmptyText, Zenon DEF HostText
  <1>6. /\ IsSequence(HostRest(parts, P))
        /\ HostRest(parts, P) # <<>> => HostRest(parts, P)[1] \in {":", "/", "["}
    <2>1. CASE parts.brackets
      <3>1. PICK w : w = parts.host \o (<<"]">> \o P)
        OBVIOUS
      <3>2. IsSequence(parts.host) /\ IsSequence(<<"]">> \o P)
        BY <1>1, <1>4, <2>1, TextIs, Begins, Zenon DEF IsAddress
      <3>3. IsSequence(w)
        BY <3>1, <3>2, Joins
      <3>4. HostRest(parts, P) = <<"[">> \o w
        BY <2>1, <3>1, Zenon DEF HostRest
      <3> QED  BY <3>3, <3>4, Begins
    <2>2. CASE ~ parts.brackets
      BY <1>4, <2>2 DEF HostRest
    <2> QED  BY <2>1, <2>2
  <1>7. IsSequence(FromHost(parts))
    <2>1. IsSequence(Encode(HostText(parts)))
      BY <1>5, EncodesText
    <2> QED  BY <1>6, <2>1, Joins, Zenon DEF FromHost, P
  <1> QED  BY <1>4, <1>5, <1>6, <1>7 DEF P

LEMMA RenderIs ==
    ASSUME NEW parts, IsParts(parts)
    PROVE  Render(parts) = FromUser(parts) /\ IsSequence(FromUser(parts))
  <1>1. /\ IsPart(parts.user) /\ IsPart(parts.password) /\ IsPart(parts.port)
        /\ IsPart(parts.vhost) /\ parts.brackets \in BOOLEAN
        /\ IF parts.brackets THEN IsAddress(parts.host) ELSE IsText(parts.host)
    BY DEF IsParts
  <1>2. PICK po, v, p : /\ po = Optional(parts.port, <<":">>) /\ v = Optional(parts.vhost, <<"/">>)
                        /\ p = PortAndVhost(parts)
    OBVIOUS
  <1>3. IsSequence(po) /\ IsSequence(v) /\ IsSequence(p) /\ p = po \o v
    BY <1>1, <1>2, OptionalIs, BothParts, Zenon DEF PortAndVhost
  <1>4. PICK h : h = IF parts.brackets THEN <<"[">> \o parts.host \o <<"]">> ELSE Encode(parts.host)
    OBVIOUS
  <1>5. PICK w : w = FromHost(parts) /\ IsSequence(w)
    BY BothParts
  <1>6. IsSequence(h) /\ h \o p = w
    <2>1. CASE parts.brackets
      <3>1. PICK b, c, e : b = <<"[">> /\ c = <<"]">> /\ e = parts.host
        OBVIOUS
      <3>2. IsSequence(e)
        BY <1>1, <2>1, <3>1, TextIs, Zenon DEF IsAddress
      <3>3. IsSequence(b) /\ IsSequence(c)
        BY <3>1, <3>2, Begins, Zenon
      <3>4. h = (b \o e) \o c
        BY <1>4, <2>1, <3>1, Zenon
      <3>5. IsSequence(b \o e) /\ IsSequence(c \o p) /\ IsSequence(h)
        <4>1. IsSequence(b \o e)
          BY <3>2, <3>3, Joins
        <4>2. IsSequence(c \o p)
          BY <1>3, <3>3, Joins
        <4> QED  BY <3>3, <3>4, <4>1, <4>2, Joins
      <3>6. Regrouped(b \o e, c, p)
        BY <1>3, <3>3, <3>5, Regroups, Zenon
      <3>7. Regrouped(b, e, c \o p)
        BY <3>2, <3>3, <3>5, Regroups, Zenon
      <3>8. HostRest(parts, p) = b \o (e \o (c \o p))
        BY <2>1, <3>1, Zenon DEF HostRest
      <3>9. Encode(HostText(parts)) = <<>>
        BY <2>1, EmptyText, Zenon DEF HostText
      <3>10. <<>> \o HostRest(parts, p) = HostRest(parts, p)
        BY <1>2, BothParts, NothingBefore, Zenon
      <3> QED  BY <1>2, <1>5, <3>4, <3>5, <3>6, <3>7, <3>8, <3>9, <3>10, Zenon DEF FromHost, Regrouped
    <2>2. CASE ~ parts.brackets
      <3>1. h = Encode(parts.host) /\ HostText(parts) = parts.host /\ HostRest(parts, p) = p
        BY <1>4, <2>2, Zenon DEF HostText, HostRest
      <3>2. IsSequence(h)
        BY <1>1, <2>2, <3>1, EncodesText, Zenon
      <3> QED  BY <1>2, <1>5, <3>1, <3>2, Zenon DEF FromHost
    <2> QED  BY <2>1, <2>2
  <1>7. ASSUME NEW u, IsSequence(u) PROVE ((u \o h) \o po) \o v = u \o w
    <2>1. IsSequence(u \o h)
      BY <1>6, <1>7, Joins
    <2>2. Regrouped(u \o h, po, v)
      BY <1>3, <2>1, Regroups, Zenon
    <2>3. Regrouped(u, h, p)
      BY <1>3, <1>6, <1>7, Regroups, Zenon
    <2> QED  BY <1>3, <1>6, <2>2, <2>3, Zenon DEF Regrouped
  <1>8. CASE parts.user = <<>>
    <2>1. Render(parts) = ((<<>> \o h) \o po) \o v
      BY <1>2, <1>4, <1>8, Zenon DEF Render
    <2>2. <<>> \o w = w /\ IsSequence(<<>>)
      BY <1>5, NothingBefore, Zenon
    <2> QED  BY <1>5, <1>7, <1>8, <2>1, <2>2, Zenon DEF FromUser
  <1>9. CASE parts.user # <<>>
    <2>1. PICK e, pw, a : /\ e = Encode(parts.user[1]) /\ pw = Optional(parts.password, <<":">>)
                          /\ a = <<"@">>
      OBVIOUS
    <2>2. IsSequence(e) /\ IsSequence(pw) /\ IsSequence(a)
      BY <1>1, <1>5, <1>9, <2>1, EncodesText, OptionalIs, Begins, Zenon DEF IsPart
    <2>3. PICK u : u = (e \o pw) \o a
      OBVIOUS
    <2>4. IsSequence(e \o pw) /\ IsSequence(a \o w) /\ IsSequence(u)
      <3>1. IsSequence(e \o pw)
        BY <2>2, Joins
      <3>2. IsSequence(a \o w)
        BY <1>5, <2>2, Joins
      <3> QED  BY <2>2, <2>3, <3>1, <3>2, Joins
    <2>5. Render(parts) = ((u \o h) \o po) \o v
      BY <1>2, <1>4, <1>9, <2>1, <2>3, Zenon DEF Render
    <2>6. Regrouped(e \o pw, a, w)
      BY <1>5, <2>2, <2>4, Regroups, Zenon
    <2>7. Regrouped(e, pw, a \o w)
      BY <2>2, <2>4, Regroups, Zenon
    <2>8. FromUser(parts) = e \o (pw \o (a \o w))
      BY <1>5, <1>9, <2>1, Zenon DEF FromUser
    <2>9. IsSequence(u \o w)
      BY <1>5, <2>4, Joins
    <2> QED  BY <1>7, <2>3, <2>4, <2>5, <2>6, <2>7, <2>8, <2>9, Zenon DEF Regrouped
  <1> QED  BY <1>8, <1>9

-----------------------------------------------------------------------------
\* the state before the host is looked at: a port behind a plain host may have been read
HostNext(uri, parts, s) ==
    LET HostUntil(port, rest) ==
            /\ Found(s, parts.user, parts.password, <<HostText(parts)>>, port)
            /\ Stopped(uri, s, rest)
    IN  \/ HostUntil(<<>>, HostRest(parts, PortAndVhost(parts)))
        \/ ~ parts.brackets /\ HostUntil(parts.port, Optional(parts.vhost, <<"/">>))

LEMMA NoUser ==
    ASSUME NEW uri, NEW parts, IsParts(parts), parts.user = <<>>, Ahead(uri, 1, FromUser(parts))
    PROVE  HostNext(uri, parts, Userinfo(uri, PortOrPassword(uri, HostOrUser(uri))))
  <1>1. PICK text, p, rest : /\ text = HostText(parts) /\ p = PortAndVhost(parts)
                             /\ rest = HostRest(parts, p)
    OBVIOUS
  <1>2. /\ IsText(text) /\ IsSequence(p) /\ IsSequence(rest)
        /\ rest # <<>> => rest[1] \in {":", "/", "["}
    BY <1>1, BothParts, Zenon
  <1>3. IsPart(parts.port) /\ IsPart(parts.vhost) /\ parts.password = <<>>
    BY Zenon DEF IsParts
  <1>4. PICK s1 : s1 = HostOrUser(uri)
    OBVIOUS
  <1>5. Found(s1, <<>>, <<>>, <<text>>, <<>>) /\ Stopped(uri, s1, rest)
    <2>1. Ahead(uri, NothingFound.next, Encode(text) \o rest)
      BY <1>1, NothingIsFound, Zenon DEF FromUser, FromHost
    <2>2. rest # <<>> => rest[1] \in {"/", ":", "@", "["}
      BY <1>2
    <2> QED  BY <1>2, <1>4, <2>1, <2>2, NothingIsFound, HostFound, Zenon DEF HostOrUser
  <1>6. PICK s2 : s2 = PortOrPassword(uri, s1)
    OBVIOUS
  <1>7. HostNext(uri, parts, s2) /\ s2.delim # "@"
    <2>1. CASE parts.brackets
      <3>1. rest # <<>> /\ rest[1] = "["
        <4>1. PICK w : w = parts.host \o (<<"]">> \o p)
          OBVIOUS
        <4>2. IsSequence(w)
          <5>1. IsSequence(parts.host) /\ IsSequence(<<"]">> \o p)
            BY <1>2, <2>1, TextIs, Begins, Zenon DEF IsParts, IsAddress
          <5> QED  BY <4>1, <5>1, Joins
        <4>3. rest = <<"[">> \o w
          BY <1>1, <2>1, <4>1, Zenon DEF HostRest
        <4> QED  BY <4>2, <4>3, Begins, Zenon
      <3>2. s1.delim = "["
        BY <1>5, <3>1, Zenon DEF Stopped
      <3>3. s2 = s1
        BY <1>6, <3>2 DEF PortOrPassword
      <3> QED  BY <1>1, <1>3, <1>5, <3>2, <3>3 DEF HostNext
    <2>2. CASE ~ parts.brackets
      <3>1. PICK v : v = Optional(parts.vhost, <<"/">>)
        OBVIOUS
      <3>2. IsSequence(v) /\ (v # <<>> => v[1] = "/")
        BY <1>3, <3>1, OptionalIs, Zenon
      <3>3. rest = Optional(parts.port, <<":">>) \o v
        BY <1>1, <2>2, <3>1, Zenon DEF HostRest, PortAndVhost
      <3>4. v # <<>> => v[1] \in {"/", "@"}
        BY <3>2
      <3>5. Found(s2, <<>>, <<>>, <<text>>, parts.port) /\ Stopped(uri, s2, v)
        BY <1>3, <1>5, <1>6, <3>2, <3>3, <3>4, PortFound, Zenon
      <3>6. s2.delim # "@"
        BY <3>2, <3>5 DEF Stopped, NUL
      <3> QED  BY <1>1, <1>3, <2>2, <3>1, <3>5, <3>6, Zenon DEF HostNext
    <2> QED  BY <2>1, <2>2
  <1>8. Userinfo(uri, s2) = s2
    BY <1>7, Zenon DEF Userinfo
  <1> QED  BY <1>4, <1>6, <1>7, <1>8, Zenon

LEMMA WithUser ==
    ASSUME NEW uri, NEW parts, IsParts(parts), parts.user # <<>>, Ahead(uri, 1, FromUser(parts))
    PROVE  HostNext(uri, parts, Userinfo(uri, PortOrPassword(uri, HostOrUser(uri))))
  <1>1. PICK text, rest, w : /\ text = HostText(parts) /\ w = FromHost(parts)
                             /\ rest = HostRest(parts, PortAndVhost(parts))
    OBVIOUS
  <1>2. /\ IsText(text) /\ IsSequence(rest) /\ IsSequence(w) /\ w = Encode(text) \o rest
        /\ rest # <<>> => rest[1] \in {":", "/", "["}
    BY <1>1, BothParts, Zenon DEF FromHost
  <1>3. PICK user : parts.user = <<user>> /\ IsText(user) /\ user = parts.user[1]
    BY Zenon DEF IsParts, IsPart
  <1>4. IsPart(parts.password)
    BY Zenon DEF IsParts
  <1>5. PICK a : a = <<"@">> \o w
    OBVIOUS
  <1>6. IsSequence(a) /\ a # <<>> /\ a[1] = "@" /\ Tail(a) = w
    BY <1>2, <1>5, Begins, Zenon
  <1>7. PICK b : b = Optional(parts.password, <<":">>) \o a
    OBVIOUS
  <1>8. IsSequence(b) /\ (b # <<>> => b[1] \in {"/", ":", "@", "["})
    <2>1. PICK o : o = Optional(parts.password, <<":">>)
      OBVIOUS
    <2>2. IsSequence(o) /\ (o # <<>> => o[1] = ":")
      BY <1>4, <2>1, OptionalIs, Zenon
    <2>3. CASE o = <<>>
      BY <1>6, <1>7, <2>1, <2>3, NothingBefore
    <2>4. CASE o # <<>>
      <3>1. Len(o) \in Nat \ {0}
        BY <2>2, <2>4, Rests, Zenon
      <3>2. IsSequence(b) /\ b[1] = o[1]
        BY <1>6, <1>7, <2>1, <2>2, <3>1, Joins
      <3> QED  BY <2>2, <2>4, <3>2
    <2> QED  BY <2>3, <2>4
  <1>9. PICK s1 : s1 = HostOrUser(uri)
    OBVIOUS
  <1>10. Found(s1, <<>>, <<>>, <<user>>, <<>>) /\ Stopped(uri, s1, b)
    <2>1. Ahead(uri, NothingFound.next, Encode(user) \o b)
      BY <1>1, <1>3, <1>5, <1>7, NothingIsFound, Zenon DEF FromUser
    <2> QED  BY <1>3, <1>8, <1>9, <2>1, NothingIsFound, HostFound, Zenon DEF HostOrUser
  <1>11. PICK s2 : s2 = PortOrPassword(uri, s1)
    OBVIOUS
  <1>12. Found(s2, <<>>, <<>>, <<user>>, parts.password) /\ Stopped(uri, s2, a)
    <2>1. a # <<>> => a[1] \in {"/", "@"}
      BY <1>6
    <2> QED  BY <1>4, <1>6, <1>7, <1>10, <1>11, <2>1, PortFound, Zenon
  <1>13. s2.delim = "@" /\ Ahead(uri, s2.next, w)
    BY <1>6, <1>12, Zenon DEF Stopped
  <1>14. PICK s3 : s3 = [s2 EXCEPT !.user = s2.host, !.password = s2.port, !.port = <<>>]
    OBVIOUS
  <1>15. Found(s3, <<user>>, parts.password, <<user>>, <<>>) /\ s3.next = s2.next
    BY <1>12, <1>14, Zenon DEF Found, Keys
  <1>16. PICK t : t = Find(uri, s3, "host", TRUE)
    OBVIOUS
  <1>17. Found(t, <<user>>, parts.password, <<text>>, <<>>) /\ Stopped(uri, t, rest)
    <2>1. rest # <<>> => rest[1] \in {"/", ":", "@", "["}
      BY <1>2
    <2>2. Ahead(uri, s3.next, Encode(text) \o rest)
      BY <1>2, <1>13, <1>15, Zenon
    <2> QED  BY <1>2, <1>15, <1>16, <2>1, <2>2, HostFound, Zenon
  <1>18. Userinfo(uri, s2) = t
    BY <1>13, <1>14, <1>16, Zenon DEF Userinfo
  <1> QED  BY <1>1, <1>3, <1>9, <1>11, <1>17, <1>18, Zenon DEF HostNext

\* what is found of the host in the end
HostPart(parts) == IF parts.host = <<>> /\ ~ parts.brackets THEN <<>> ELSE <<parts.host>>

LEMMA HostRead ==
    ASSUME NEW uri, NEW parts, IsParts(parts), NEW s, HostNext(uri, parts, s)
    PROVE  LET t == PortOrPassword(uri, Host(uri, s))
           IN  /\ Found(t, parts.user, parts.password, HostPart(parts), parts.port)
               /\ Stopped(uri, t, Optional(parts.vhost, <<"/">>))
  <1>1. PICK text, p, v : /\ text = HostText(parts) /\ p = PortAndVhost(parts)
                          /\ v = Optional(parts.vhost, <<"/">>)
    OBVIOUS
  <1>2. /\ IsSequence(p) /\ IsSequence(v) /\ (v # <<>> => v[1] = "/")
        /\ p # <<>> => p[1] \in {":", "/"}
        /\ IsPart(parts.port) /\ p = Optional(parts.port, <<":">>) \o v
    BY <1>1, BothParts, OptionalIs, Zenon DEF IsParts, PortAndVhost
  <1>3. PICK s1 : s1 = Host(uri, s)
    OBVIOUS
  <1>4. PICK t : t = PortOrPassword(uri, s1)
    OBVIOUS
  <1>5. ASSUME Found(s1, parts.user, parts.password, HostPart(parts), <<>>), Stopped(uri, s1, p)
        PROVE  Found(t, parts.user, parts.password, HostPart(parts), parts.port) /\ Stopped(uri, t, v)
    <2>1. v # <<>> => v[1] \in {"/", "@"}
      BY <1>2
    <2> QED  BY <1>2, <1>4, <1>5, <2>1, PortFound, Zenon
  <1>6. CASE parts.brackets
    <2>1. HostPart(parts) = <<parts.host>> /\ IsAddress(parts.host) /\ text = <<>>
      BY <1>1, <1>6, Zenon DEF HostPart, IsParts, HostText
    <2>2. /\ Found(s, parts.user, parts.password, << <<>> >>, <<>>)
          /\ Stopped(uri, s, <<"[">> \o (parts.host \o (<<"]">> \o p)))
      BY <1>1, <1>6, <2>1, Zenon DEF HostNext, HostRest
    <2>3. p # <<>> => p[1] \in {"/", ":"}
      BY <1>2
    <2>4. Found(s1, parts.user, parts.password, HostPart(parts), <<>>) /\ Stopped(uri, s1, p)
      BY <1>2, <1>3, <2>1, <2>2, <2>3, BracketHost, Zenon
    <2> QED  BY <1>1, <1>3, <1>4, <1>5, <2>4, Zenon
  <1>7. CASE ~ parts.brackets
    <2>1. HostPart(parts) = IF text = <<>> THEN <<>> ELSE <<text>>
      BY <1>1, <1>7, Zenon DEF HostPart, HostText
    <2>2. CASE Found(s, parts.user, parts.password, <<text>>, <<>>) /\ Stopped(uri, s, p)
      <3>1. p # <<>> => p[1] \in {"/", ":"}
        BY <1>2
      <3>2. Found(s1, parts.user, parts.password, HostPart(parts), <<>>) /\ Stopped(uri, s1, p)
        BY <1>3, <2>1, <2>2, <3>1, PlainHost, Zenon
      <3> QED  BY <1>1, <1>3, <1>4, <1>5, <3>2, Zenon
    <2>3. CASE Found(s, parts.user, parts.password, <<text>>, parts.port) /\ Stopped(uri, s, v)
      <3>1. v # <<>> => v[1] \in {"/", ":"}
        BY <1>2
      <3>2. Found(s1, parts.user, parts.password, HostPart(parts), parts.port) /\ Stopped(uri, s1, v)
        BY <1>3, <2>1, <2>3, <3>1, PlainHost, Zenon
      <3>3. s1.delim # ":"
        BY <1>2, <3>2 DEF Stopped, NUL
      <3>4. t = s1
        BY <1>4, <3>3, Zenon DEF PortOrPassword
      <3> QED  BY <1>1, <1>3, <1>4, <3>2, <3>4, Zenon
    <2> QED  BY <1>1, <1>7, <2>2, <2>3, Zenon DEF HostNext, HostRest
  <1> QED  BY <1>6, <1>7

\* the state in which amqp_parse_url comes to its end
Finally(uri) ==
    Vhost(uri, PortOrPassword(uri, Host(uri, Userinfo(uri, PortOrPassword(uri, HostOrUser(uri))))))

\* everything was found, and nothing is left
LEMMA PartsFound ==
    ASSUME NEW parts, IsParts(parts)
    PROVE  LET t == Finally(Render(parts))
           IN  /\ t.user = parts.user /\ t.password = parts.password /\ t.host = HostPart(parts)
               /\ t.port = parts.port /\ t.vhost = parts.vhost
               /\ t.behind \in {<<>>, << <<>> >>} /\ t.sound = TRUE /\ t.delim = NUL
  <1>1. PICK uri : uri = FromUser(parts) /\ IsSequence(uri) /\ uri = Render(parts)
    BY RenderIs
  <1>2. Ahead(uri, 1, uri)
    <2>1. Len(uri) \in Nat
      BY <1>1, Rests, Zenon
    <2> QED  BY <1>1, <2>1 DEF Ahead
  <1>3. HostNext(uri, parts, Userinfo(uri, PortOrPassword(uri, HostOrUser(uri))))
    BY <1>1, <1>2, NoUser, WithUser
  <1>4. PICK s : s = PortOrPassword(uri, Host(uri, Userinfo(uri, PortOrPassword(uri, HostOrUser(uri)))))
    OBVIOUS
  <1>5. /\ Found(s, parts.user, parts.password, HostPart(parts), parts.port)
        /\ Stopped(uri, s, Optional(parts.vhost, <<"/">>))
    BY <1>3, <1>4, HostRead, Zenon
  <1>6. PICK t : t = Vhost(uri, s)
    OBVIOUS
  <1>7. IsPart(parts.vhost)
    BY Zenon DEF IsParts
  <1>8. /\ t.user = parts.user /\ t.password = parts.password /\ t.host = HostPart(parts)
        /\ t.port = parts.port /\ t.vhost = parts.vhost
        /\ t.behind \in {<<>>, << <<>> >>} /\ t.sound = TRUE /\ t.delim = NUL
    <2>1. PICK u, p, h, o, v : /\ u = parts.user /\ p = parts.password /\ h = HostPart(parts)
                               /\ o = parts.port /\ v = parts.vhost
      OBVIOUS
    <2>2. Found(s, u, p, h, o) /\ IsPart(v) /\ Stopped(uri, s, Optional(v, <<"/">>))
      BY <1>5, <1>7, <2>1, Zenon
    <2>3. /\ t.user = u /\ t.password = p /\ t.host = h /\ t.port = o /\ t.vhost = v
          /\ t.behind \in {<<>>, << <<>> >>} /\ t.sound = TRUE /\ t.delim = NUL
      BY <1>6, <2>2, VhostFound
    <2> QED  BY <2>1, <2>3, Zenon
  <1> QED  BY <1>1, <1>4, <1>6, <1>8, Zenon DEF Finally

(***************************************************************************)
(* amqp_parse_url (amqp_url.c:96): what it makes of a URL that is written  *)
(* from its parts, with nothing out of place, is what these parts mean,    *)
(* whatever texts they are and whichever of them are missing; and it       *)
(* accepts the URL if and only if the scheme is known and the port is a    *)
(* number of 16 bits.                                                      *)
(***************************************************************************)
THEOREM PartsRead ==
    ASSUME NEW scheme, NEW parts, IsParts(parts)
    PROVE  LET parsed == amqp_parse_url(scheme, Render(parts))
               sound == scheme \in DOMAIN DefaultPort /\ SoundPort(parts)
           IN  /\ parsed.status = "AMQP_STATUS_OK" <=> sound
               /\ sound => parsed.info = Meaning(scheme, parts)
  <1>1. PICK t : t = Finally(Render(parts))
    OBVIOUS
  <1>2. /\ t.user = parts.user /\ t.password = parts.password /\ t.host = HostPart(parts)
        /\ t.port = parts.port /\ t.vhost = parts.vhost
        /\ t.behind \in {<<>>, << <<>> >>} /\ t.sound = TRUE /\ t.delim = NUL
    BY <1>1, PartsFound, Zenon
  <1>3. PICK parsed : parsed = amqp_parse_url(scheme, Render(parts)) /\ parsed = Parsed(scheme, t)
    BY <1>1, Zenon DEF amqp_parse_url, Finally
  <1>4. (t.port # <<>> => PortText(t.port[1])) <=> SoundPort(parts)
    <2>1. PICK q : q = parts.port /\ t.port = q
      BY <1>2
    <2>2. SoundPort(parts) <=> (q # <<>> => PortText(q[1]))
      BY <2>1 DEF PortText, SoundPort
    <2> QED  BY <2>1, <2>2, Zenon
  <1>5. PICK default : default = amqp_default_connection_info
    OBVIOUS
  <1>6. Or(t.host, default.host) =
             IF parts.host = <<>> /\ ~ parts.brackets THEN default.host ELSE parts.host
    BY <1>2 DEF Or, HostPart
  <1> DEFINE sound == scheme \in DOMAIN DefaultPort /\ SoundPort(parts)
  <1>7. CASE sound
    <2>1. parsed = [status |-> "AMQP_STATUS_OK",
                    info |-> [user |-> Or(t.user, default.user),
                              password |-> Or(t.password, default.password),
                              host |-> Or(t.host, default.host),
                              port |-> IF t.port = <<>> THEN DefaultPort[scheme]
                                       ELSE PortNumber[t.port[1][1]],
                              vhost |-> Or(t.vhost, default.vhost),
                              ssl |-> scheme = "amqps"]]
      BY <1>2, <1>3, <1>4, <1>5, <1>7, Zenon DEF Parsed
    <2>2. parsed = [status |-> "AMQP_STATUS_OK", info |-> Meaning(scheme, parts)]
      BY <1>2, <1>5, <1>6, <2>1, Zenon DEF Meaning
    <2>3. parsed.status = "AMQP_STATUS_OK" /\ parsed.info = Meaning(scheme, parts)
      BY <2>2, Zenon
    <2> QED  BY <1>3, <1>7, <2>3, Zenon
  <1>8. CASE ~ sound
    <2>1. parsed = [status |-> BAD_URL, info |-> default]
      BY <1>2, <1>3, <1>4, <1>5, <1>8, Zenon DEF Parsed
    <2>2. parsed.status = BAD_URL
      BY <2>1, Zenon
    <2>3. parsed.status # "AMQP_STATUS_OK"
      BY <2>2 DEF BAD_URL
    <2> QED  BY <1>3, <1>8, <2>3, Zenon
  <1> QED  BY <1>7, <1>8

-----------------------------------------------------------------------------
StraysBefore(uri, n) == {i \in 1 .. n - 1 : uri[i] \in Strays}

StraysOf(uri) == {i \in 1 .. Len(uri) : uri[i] \in Strays}

\* none, or a pair of brackets
Paired(T) == T = {} \/ \E i, j \in Nat : i # j /\ T = {i, j}

\* what was looked at, up to the delimiter where d has stopped, has these strays
Scanned(uri, d, T) ==
    IF d.delim = NUL THEN StraysOf(uri) = T
    ELSE /\ d.next \in 2 .. Len(uri) + 1 /\ d.delim = uri[d.next - 1]
         /\ StraysBefore(uri, d.next - 1) = T

LEMMA ScanOn ==
    ASSUME NEW uri, Len(uri) \in Nat, NEW from \in 1 .. Len(uri) + 1, NEW b \in BOOLEAN
    PROVE  Scanned(uri, find_delim(uri, from, b), StraysBefore(uri, from))
  <1>1. PICK n \in Nat : Spans(uri, from, n, b) /\ find_delim(uri, from, b) = Component(uri, from, n)
    BY FindStops
  <1>2. PICK d, end, text, c, next :
            /\ d = find_delim(uri, from, b) /\ d = [text |-> text, delim |-> c, next |-> next]
            /\ end = from + n /\ c = DelimAt(uri, end) /\ next = from + n + 1
    BY <1>1, Zenon DEF Component
  <1>3. d.delim = c /\ d.next = next
    BY <1>2
  <1>4. /\ end \in from .. Len(uri) + 1 /\ next = end + 1
        /\ \A i \in from .. end - 1 : uri[i] \notin Delimiters(b)
        /\ end = Len(uri) + 1 \/ uri[end] \in Delimiters(b)
    BY <1>1, <1>2 DEF Spans
  <1>5. Strays \subseteq Delimiters(b)
    BY DEF Strays, Delimiters
  <1>6. StraysBefore(uri, end) = StraysBefore(uri, from)
    BY <1>4, <1>5 DEF StraysBefore
  <1>7. CASE end = Len(uri) + 1
    <2>1. c = NUL
      BY <1>2, <1>7 DEF DelimAt
    <2>2. StraysBefore(uri, end) = StraysOf(uri)
      BY <1>7 DEF StraysBefore, StraysOf
    <2> QED  BY <1>2, <1>3, <1>6, <2>1, <2>2, Zenon DEF Scanned
  <1>8. CASE end # Len(uri) + 1
    <2>1. c = uri[end] /\ c \in Delimiters(b)
      BY <1>2, <1>4, <1>8 DEF DelimAt
    <2>2. c # NUL
      BY <2>1 DEF Delimiters, NUL
    <2>3. next \in 2 .. Len(uri) + 1 /\ next - 1 = end
      BY <1>4, <1>8
    <2> QED  BY <1>2, <1>3, <1>6, <2>1, <2>2, <2>3 DEF Scanned
  <1> QED  BY <1>7, <1>8

\* the next part is looked for behind the delimiter
LEMMA ScanFrom ==
    ASSUME NEW uri, Len(uri) \in Nat, NEW d, NEW T, Scanned(uri, d, T), d.delim # NUL
    PROVE  /\ d.next \in 1 .. Len(uri) + 1 /\ d.next - 1 \in Nat \ T
           /\ StraysBefore(uri, d.next) = IF d.delim \in Strays THEN T \cup {d.next - 1} ELSE T
  <1>1. /\ d.next \in 2 .. Len(uri) + 1 /\ d.delim = uri[d.next - 1]
        /\ StraysBefore(uri, d.next - 1) = T
    BY DEF Scanned
  <1>2. PICK m \in Nat : m = d.next - 1
    BY <1>1
  <1>3. d.next = m + 1 /\ m \in 1 .. Len(uri) /\ d.delim = uri[m] /\ StraysBefore(uri, m) = T
    BY <1>1, <1>2
  <1>4. m \notin T
    BY <1>3 DEF StraysBefore
  <1>5. StraysBefore(uri, m + 1) = IF uri[m] \in Strays THEN T \cup {m} ELSE T
    BY <1>3 DEF StraysBefore
  <1>6. d.next \in 1 .. Len(uri) + 1
    BY <1>1
  <1>7. StraysBefore(uri, d.next) = IF d.delim \in Strays THEN T \cup {m} ELSE T
    BY <1>3, <1>5, Zenon
  <1> QED  BY <1>2, <1>4, <1>6, <1>7, Zenon

\* if there is no error so far, then these are the strays
Clean(uri, s, T) ==
    /\ DOMAIN s = Keys /\ s.sound \in BOOLEAN
    /\ s.sound => Scanned(uri, s, T)

\* t goes on from s to where d has stopped
Advanced(t, s, d) ==
    DOMAIN t = Keys /\ t.sound = s.sound /\ t.delim = d.delim /\ t.next = d.next

LEMMA Finds ==
    ASSUME NEW uri, NEW s, DOMAIN s = Keys, NEW b,
           NEW part \in {"host", "port", "vhost", "behind"}
    PROVE  Advanced(Find(uri, s, part, b), s, find_delim(uri, s.next, b))
  <1>1. PICK d : d = find_delim(uri, s.next, b)
    OBVIOUS
  <1>2. PICK t : t = [s EXCEPT ![part] = <<d.text>>, !.delim = d.delim, !.next = d.next]
    OBVIOUS
  <1>3. Find(uri, s, part, b) = t
    BY <1>1, <1>2, Zenon DEF Find
  <1>4. part # "sound" /\ part # "delim" /\ part # "next"
    OBVIOUS
  <1>5. Advanced(t, s, d)
    BY <1>2, <1>4, Zenon DEF Keys, Advanced
  <1> QED  BY <1>1, <1>3, <1>5, Zenon

\* a further part behind a delimiter that is no stray
LEMMA CleanOn ==
    ASSUME NEW uri, Len(uri) \in Nat, NEW s, NEW T, Clean(uri, s, T), s.delim \in {":", "/", "@"},
           NEW part \in {"host", "port", "vhost", "behind"}
    PROVE  Clean(uri, Find(uri, s, part, TRUE), T) /\ Find(uri, s, part, TRUE).sound = s.sound
  <1>1. PICK d : d = find_delim(uri, s.next, TRUE)
    OBVIOUS
  <1>2. PICK t : t = Find(uri, s, part, TRUE)
    OBVIOUS
  <1>3. DOMAIN s = Keys
    BY DEF Clean
  <1>4. DOMAIN t = Keys /\ t.sound = s.sound /\ t.delim = d.delim /\ t.next = d.next
    <2>1. Advanced(t, s, d)
      BY <1>1, <1>2, <1>3, Finds, Zenon
    <2> QED  BY <2>1, Zenon DEF Advanced
  <1>5. ASSUME s.sound PROVE Scanned(uri, t, T)
    <2>1. Scanned(uri, s, T)
      BY <1>5, Zenon DEF Clean
    <2>2. s.delim # NUL /\ s.delim \notin Strays
      BY DEF NUL, Strays
    <2>3. s.next \in 1 .. Len(uri) + 1 /\ StraysBefore(uri, s.next) = T
      BY <2>1, <2>2, ScanFrom, Zenon
    <2>4. Scanned(uri, d, T)
      BY <1>1, <2>3, ScanOn, Zenon
    <2> QED  BY <1>4, <2>4, Zenon DEF Scanned
  <1> QED  BY <1>2, <1>4, <1>5, Zenon DEF Clean

LEMMA CleanHost ==
    ASSUME NEW uri, Len(uri) \in Nat, NEW s, Clean(uri, s, {}), s.sound = TRUE
    PROVE  \E T : Paired(T) /\ Clean(uri, Host(uri, s), T)
  <1>1. DOMAIN s = Keys /\ Scanned(uri, s, {})
    BY Zenon DEF Clean
  <1>2. CASE s.delim # "["
    <2>1. PICK part : part = IF s.host = << <<>> >> THEN <<>> ELSE s.host
      OBVIOUS
    <2>2. PICK t : t = [s EXCEPT !.host = part]
      OBVIOUS
    <2>3. Host(uri, s) = t
      BY <1>2, <2>1, <2>2, Zenon DEF Host
    <2>4. DOMAIN t = Keys /\ t.sound = s.sound /\ t.delim = s.delim /\ t.next = s.next
      BY <1>1, <2>2, Zenon DEF Keys
    <2>5. Clean(uri, t, {})
      BY <1>1, <2>4, Zenon DEF Clean, Scanned
    <2> QED  BY <2>3, <2>5, Zenon DEF Paired
  <1>3. CASE s.delim = "["
    <2>1. PICK p : p = s.next - 1
      OBVIOUS
    <2>2. s.delim # NUL /\ s.delim \in Strays
      BY <1>3 DEF NUL, Strays
    <2>3. p \in Nat /\ s.next \in 1 .. Len(uri) + 1 /\ StraysBefore(uri, s.next) = {p}
      <3>1. /\ p \in Nat \ {} /\ s.next \in 1 .. Len(uri) + 1
            /\ StraysBefore(uri, s.next) = {} \cup {p}
        BY <1>1, <2>1, <2>2, ScanFrom, Zenon
      <3> QED  BY <3>1
    <2>4. PICK fits : fits = (s.port = <<>> /\ s.host = << <<>> >>) /\ fits \in BOOLEAN
      OBVIOUS
    <2>5. PICK o : o = [s EXCEPT !.sound = fits]
      OBVIOUS
    <2>6. DOMAIN o = Keys /\ o.sound = fits /\ o.delim = s.delim /\ o.next = s.next
      BY <1>1, <2>5, Zenon DEF Keys
    <2>7. PICK h, d : h = Find(uri, o, "host", FALSE) /\ d = find_delim(uri, o.next, FALSE)
      OBVIOUS
    <2>8. DOMAIN h = Keys /\ h.sound = fits /\ h.delim = d.delim /\ h.next = d.next
      <3>1. "host" \in {"host", "port", "vhost", "behind"}
        OBVIOUS
      <3>2. Advanced(h, o, d)
        BY <2>6, <2>7, <3>1, Finds, Zenon
      <3> QED  BY <2>6, <3>2, Zenon DEF Advanced
    <2>9. Scanned(uri, d, {p})
      BY <2>3, <2>6, <2>7, ScanOn, Zenon
    <2>10. Scanned(uri, h, {p})
      BY <2>8, <2>9, Zenon DEF Scanned
    <2>11. PICK closed : closed = (fits /\ h.delim = "]") /\ closed \in BOOLEAN
      BY <2>4
    <2>12. PICK c : c = [h EXCEPT !.sound = closed]
      OBVIOUS
    <2>13. DOMAIN c = Keys /\ c.sound = closed /\ c.next = h.next
      BY <2>8, <2>12, Zenon DEF Keys
    <2>14. PICK t, e : t = Find(uri, c, "behind", TRUE) /\ e = find_delim(uri, c.next, TRUE)
      OBVIOUS
    <2>15. DOMAIN t = Keys /\ t.sound = closed /\ t.delim = e.delim /\ t.next = e.next
      <3>1. "behind" \in {"host", "port", "vhost", "behind"}
        OBVIOUS
      <3>2. Advanced(t, c, e)
        BY <2>13, <2>14, <3>1, Finds, Zenon
      <3> QED  BY <2>13, <3>2, Zenon DEF Advanced
    <2>16. Host(uri, s) = t
      <3>1. c = [h EXCEPT !.sound = @ /\ h.delim = "]"]
        BY <2>8, <2>11, <2>12, Zenon
      <3> QED  BY <1>3, <2>4, <2>5, <2>7, <2>14, <3>1, Zenon DEF Host
    <2>17. CASE closed
      <3>1. PICK q : q = h.next - 1
        OBVIOUS
      <3>2. h.delim # NUL /\ h.delim \in Strays
        BY <2>11, <2>17 DEF NUL, Strays
      <3>3. q \in Nat \ {p} /\ h.next \in 1 .. Len(uri) + 1 /\ StraysBefore(uri, h.next) = {p} \cup {q}
        BY <2>10, <3>1, <3>2, ScanFrom
      <3>4. Scanned(uri, e, {p} \cup {q})
        BY <2>13, <2>14, <3>3, ScanOn, Zenon
      <3>5. Clean(uri, t, {p} \cup {q})
        BY <2>11, <2>15, <3>4, Zenon DEF Clean, Scanned
      <3>6. Paired({p} \cup {q})
        BY <2>3, <3>3 DEF Paired
      <3> QED  BY <2>16, <3>5, <3>6, Zenon
    <2>18. CASE ~ closed
      <3>1. Clean(uri, t, {})
        BY <2>11, <2>15, <2>18, Zenon DEF Clean
      <3> QED  BY <2>16, <3>1, Zenon DEF Paired
    <2> QED  BY <2>17, <2>18
  <1> QED  BY <1>2, <1>3

LEMMA StraysPaired ==
    ASSUME NEW uri, Len(uri) \in Nat, Finally(uri).sound, Finally(uri).delim = NUL
    PROVE  Paired(StraysOf(uri))
  <1>1. PICK s1 : s1 = HostOrUser(uri)
    OBVIOUS
  <1>2. Clean(uri, s1, {}) /\ s1.sound = TRUE
    <2>1. /\ DOMAIN NothingFound = Keys /\ NothingFound.sound = TRUE /\ NothingFound.next = 1
          /\ "host" \in {"host", "port", "vhost", "behind"}
      BY NothingIsFound DEF Found
    <2>2. PICK d : d = find_delim(uri, NothingFound.next, TRUE)
      OBVIOUS
    <2>3. Advanced(s1, NothingFound, d)
      BY <1>1, <2>1, <2>2, Finds, Zenon DEF HostOrUser
    <2>4. StraysBefore(uri, 1) = {} /\ 1 \in 1 .. Len(uri) + 1
      BY DEF StraysBefore
    <2>5. Scanned(uri, d, {})
      BY <2>1, <2>2, <2>4, ScanOn, Zenon
    <2> QED  BY <2>1, <2>3, <2>5, Zenon DEF Advanced, Clean, Scanned
  <1>3. ASSUME NEW s, NEW T, Clean(uri, s, T)
        PROVE  Clean(uri, PortOrPassword(uri, s), T) /\ PortOrPassword(uri, s).sound = s.sound
    <2>1. CASE s.delim = ":"
      <3>1. s.delim \in {":", "/", "@"} /\ "port" \in {"host", "port", "vhost", "behind"}
        BY <2>1
      <3> QED  BY <1>3, <2>1, <3>1, CleanOn, Zenon DEF PortOrPassword
    <2>2. CASE s.delim # ":"
      BY <1>3, <2>2, Zenon DEF PortOrPassword
    <2> QED  BY <2>1, <2>2
  <1>4. PICK s2 : s2 = PortOrPassword(uri, s1)
    OBVIOUS
  <1>5. Clean(uri, s2, {}) /\ s2.sound = TRUE
    BY <1>2, <1>3, <1>4, Zenon
  <1>6. PICK s3 : s3 = Userinfo(uri, s2)
    OBVIOUS
  <1>7. Clean(uri, s3, {}) /\ s3.sound = TRUE
    <2>1. CASE s2.delim = "@"
      <3>1. PICK s : s = [s2 EXCEPT !.user = s2.host, !.password = s2.port, !.port = <<>>]
        OBVIOUS
      <3>2. DOMAIN s = Keys /\ s.sound = s2.sound /\ s.delim = s2.delim /\ s.next = s2.next
        BY <1>5, <3>1, Zenon DEF Clean, Keys
      <3>3. Clean(uri, s, {})
        BY <1>5, <3>2, Zenon DEF Clean, Scanned
      <3>4. s3 = Find(uri, s, "host", TRUE)
        BY <1>6, <2>1, <3>1, Zenon DEF Userinfo
      <3>5. s.delim \in {":", "/", "@"} /\ "host" \in {"host", "port", "vhost", "behind"}
        BY <2>1, <3>2
      <3> QED  BY <1>5, <3>2, <3>3, <3>4, <3>5, CleanOn, Zenon
    <2>2. CASE s2.delim # "@"
      BY <1>5, <1>6, <2>2, Zenon DEF Userinfo
    <2> QED  BY <2>1, <2>2
  <1>8. PICK s4 : s4 = Host(uri, s3)
    OBVIOUS
  <1>9. PICK T : Paired(T) /\ Clean(uri, s4, T)
    BY <1>7, <1>8, CleanHost, Zenon
  <1>10. PICK s5 : s5 = PortOrPassword(uri, s4)
    OBVIOUS
  <1>11. Clean(uri, s5, T)
    BY <1>3, <1>9, <1>10, Zenon
  <1>12. PICK s6 : s6 = Vhost(uri, s5)
    OBVIOUS
  <1>13. Clean(uri, s6, T)
    <2>1. CASE s5.delim = "/"
      <3>1. s5.delim \in {":", "/", "@"} /\ "vhost" \in {"host", "port", "vhost", "behind"}
        BY <2>1
      <3> QED  BY <1>11, <1>12, <2>1, <3>1, CleanOn, Zenon DEF Vhost
    <2>2. CASE s5.delim # "/"
      BY <1>11, <1>12, <2>2, Zenon DEF Vhost
    <2> QED  BY <2>1, <2>2
  <1>14. s6 = Finally(uri)
    BY <1>1, <1>4, <1>6, <1>8, <1>10, <1>12, Zenon DEF Finally
  <1>15. Scanned(uri, s6, T) /\ s6.delim = NUL
    BY <1>13, <1>14, Zenon DEF Clean
  <1> QED  BY <1>9, <1>15, Zenon DEF Scanned

\* a token put in at this position
LEMMA Inserted ==
    ASSUME NEW s, IsSequence(s), NEW at \in 1 .. Len(s) + 1, NEW c, NEW uri, uri = InsertAt(s, at, c)
    PROVE  /\ Len(s) \in Nat /\ Len(uri) = Len(s) + 1
           /\ \A i \in 1 .. at - 1 : uri[i] = s[i]
           /\ uri[at] = c
           /\ \A i \in at .. Len(s) : uri[i + 1] = s[i]
  <1>1. PICK S : s \in Seq(S)
    BY DEF IsSequence
  <1>2. Len(s) \in Nat
    BY <1>1
  <1>3. PICK a, b : a = SubSeq(s, 1, at - 1) /\ b = SubSeq(s, at, Len(s))
    OBVIOUS
  <1>4. /\ a \in Seq(S) /\ Len(a) = at - 1
        /\ \A i \in 1 .. at - 1 : a[i] = s[i]
    BY <1>1, <1>2, <1>3
  <1>5. /\ b \in Seq(S) /\ Len(b) = Len(s) - at + 1
        /\ \A i \in 1 .. Len(s) - at + 1 : b[i] = s[at + i - 1]
    BY <1>1, <1>2, <1>3
  <1>6. PICK C : C = {c}
    OBVIOUS
  <1>7. <<c>> \in Seq(S \cup C) /\ a \in Seq(S \cup C) /\ b \in Seq(S \cup C)
    BY <1>4, <1>5, <1>6
  <1>8. uri = (a \o <<c>>) \o b
    BY <1>3 DEF InsertAt
  <1>9. PICK ac : ac = a \o <<c>>
    OBVIOUS
  <1>10. /\ ac \in Seq(S \cup C) /\ Len(ac) = at
         /\ \A i \in 1 .. at - 1 : ac[i] = s[i]
         /\ ac[at] = c
    BY <1>2, <1>4, <1>7, <1>9
  <1>11. Len(uri) = Len(s) + 1
    <2>1. Len(uri) = Len(ac) + Len(b)
      BY <1>7, <1>8, <1>9, <1>10
    <2>2. Len(ac) = at /\ Len(b) = Len(s) - at + 1 /\ at \in Nat
      BY <1>2, <1>5, <1>10
    <2> QED  BY <1>2, <2>1, <2>2
  <1>12. ASSUME NEW i \in 1 .. at PROVE uri[i] = ac[i]
    BY <1>7, <1>8, <1>9, <1>10
  <1>13. ASSUME NEW i \in at .. Len(s) PROVE uri[i + 1] = s[i]
    <2>1. PICK j \in 1 .. Len(s) - at + 1 : i + 1 = at + j /\ at + j - 1 = i
      BY <1>2
    <2>2. uri[at + j] = b[j]
      BY <1>5, <1>7, <1>8, <1>9, <1>10
    <2> QED  BY <1>5, <2>1, <2>2
  <1>14. (\A i \in 1 .. at - 1 : uri[i] = s[i]) /\ uri[at] = c
    BY <1>2, <1>10, <1>12
  <1> QED  BY <1>2, <1>11, <1>13, <1>14

LEMMA StraysUnpaired ==
    ASSUME NEW s, IsSequence(s), NEW at \in 1 .. Len(s) + 1, NEW c \in Strays,
           Paired(StraysOf(s))
    PROVE  ~ Paired(StraysOf(InsertAt(s, at, c))) /\ Len(InsertAt(s, at, c)) \in Nat
  <1>1. PICK uri : uri = InsertAt(s, at, c)
    OBVIOUS
  <1>2. /\ Len(s) \in Nat /\ Len(uri) = Len(s) + 1
        /\ \A i \in 1 .. at - 1 : uri[i] = s[i]
        /\ uri[at] = c
        /\ \A i \in at .. Len(s) : uri[i + 1] = s[i]
    BY <1>1, Inserted
  <1> DEFINE Moved(i) == IF i < at THEN i ELSE i + 1
             old == StraysOf(s)
             new == StraysOf(uri)
  <1>3. at \in new /\ at \in Nat
    BY <1>2 DEF StraysOf
  <1>4. ASSUME NEW i \in old PROVE Moved(i) \in new \ {at}
    <2>1. i \in 1 .. Len(s) /\ s[i] \in Strays
      BY DEF StraysOf
    <2>2. CASE i < at
      BY <1>2, <1>3, <2>1, <2>2 DEF StraysOf
    <2>3. CASE ~ (i < at)
      <3>1. i \in at .. Len(s) /\ uri[i + 1] = s[i]
        BY <1>2, <1>3, <2>1, <2>3
      <3> QED  BY <1>2, <1>3, <2>1, <2>3, <3>1 DEF StraysOf
    <2> QED  BY <2>2, <2>3
  <1>5. ASSUME NEW i \in new \ {at} PROVE \E j \in old : i = Moved(j)
    <2>1. i \in 1 .. Len(s) + 1 /\ uri[i] \in Strays /\ i # at
      BY <1>2 DEF StraysOf
    <2>2. CASE i < at
      BY <1>2, <1>3, <2>1, <2>2 DEF StraysOf
    <2>3. CASE ~ (i < at)
      <3>1. PICK j \in at .. Len(s) : i = j + 1
        BY <1>2, <1>3, <2>1, <2>3
      <3>2. s[j] = uri[i] /\ j \in 1 .. Len(s) /\ ~ (j < at)
        BY <1>2, <1>3, <3>1
      <3> QED  BY <2>1, <3>1, <3>2 DEF StraysOf
    <2> QED  BY <2>2, <2>3
  <1>6. CASE old = {}
    <2>1. new = {at}
      BY <1>3, <1>5, <1>6
    <2>2. ~ Paired({at})
      BY DEF Paired
    <2> QED  BY <1>1, <1>2, <2>1, <2>2
  <1>7. CASE old # {}
    <2>1. PICK i, j \in Nat : i # j /\ old = {i, j}
      BY <1>7 DEF Paired
    <2>2. Moved(i) \in new \ {at} /\ Moved(j) \in new \ {at}
      BY <1>4, <2>1
    <2>3. Moved(i) # Moved(j)
      BY <1>3, <2>1
    <2> HIDE DEF Moved, new
    <2>4. ~ Paired(new)
      BY <1>3, <2>2, <2>3 DEF Paired
    <2> QED  BY <1>1, <1>2, <2>4 DEF new
  <1> QED  BY <1>6, <1>7

(***************************************************************************)
(* amqp_parse_url (amqp_url.c:96): a URL that is written from its parts    *)
(* has no such delimiter but the brackets around a host, and they are a    *)
(* pair; with one more, wherever it stands, it is an error.                *)
(***************************************************************************)
THEOREM StrayRefused ==
    ASSUME NEW scheme, NEW parts, IsParts(parts),
           NEW at \in 1 .. Len(Render(parts)) + 1, NEW c \in Strays
    PROVE  amqp_parse_url(scheme, InsertAt(Render(parts), at, c)).status = BAD_URL
  <1>1. PICK s : s = Render(parts) /\ IsSequence(s)
    BY RenderIs, Zenon
  <1>2. Paired(StraysOf(s))
    <2>1. Len(s) \in Nat
      BY <1>1, Rests, Zenon
    <2>2. Finally(s).sound = TRUE /\ Finally(s).delim = NUL
      BY <1>1, PartsFound, Zenon
    <2> QED  BY <2>1, <2>2, StraysPaired
  <1>3. PICK uri, t : uri = InsertAt(s, at, c) /\ t = Finally(uri)
    OBVIOUS
  <1>4. Len(uri) \in Nat /\ ~ Paired(StraysOf(uri))
    BY <1>1, <1>2, <1>3, StraysUnpaired
  <1>5. ~ (t.sound /\ t.delim = NUL)
    BY <1>3, <1>4, StraysPaired
  <1>6. PICK parsed : parsed = amqp_parse_url(scheme, uri) /\ parsed = Parsed(scheme, t)
    BY <1>3, Zenon DEF amqp_parse_url, Finally
  <1>7. parsed = [status |-> BAD_URL, info |-> amqp_default_connection_info]
    BY <1>5, <1>6, Zenon DEF Parsed
  <1>8. parsed.status = BAD_URL
    BY <1>7, Zenon
  <1> QED  BY <1>1, <1>3, <1>6, <1>8, Zenon

-----------------------------------------------------------------------------
\* what was given to amqp_parse_url, and what it returned
UrlInv == pc = "parsed" => url \in Urls /\ status = Read(url).status

LEMMA UrlMeant == UrlInv => UrlRoundTrip
  <1> SUFFICES ASSUME UrlInv, pc = "parsed" PROVE UrlRoundTrip
    BY DEF UrlRoundTrip
  <1>1. PICK scheme, parts, stray, written : /\ scheme = url.scheme /\ parts = url.parts
                                             /\ stray = url.stray /\ written = Render(parts)
    OBVIOUS
  <1>2. IsParts(parts) /\ stray \in {<<>>} \cup ((1 .. Len(written) + 1) \X Strays)
    BY <1>1, UrlAssumption, Zenon DEF UrlInv
  <1>3. PICK r : r = Read(url) /\ status = r.status
    BY DEF UrlInv
  <1>4. CASE stray = <<>>
    <2>1. r = amqp_parse_url(scheme, written)
      BY <1>1, <1>3, <1>4, Zenon DEF Read, Written
    <2>2. LET sound == scheme \in DOMAIN DefaultPort /\ SoundPort(parts)
          IN  /\ r.status = "AMQP_STATUS_OK" <=> sound
              /\ sound => r.info = Meaning(scheme, parts)
      BY <1>1, <1>2, <2>1, PartsRead, Zenon
    <2> QED  BY <1>1, <1>3, <1>4, <2>2, Zenon DEF UrlRoundTrip, TIME_OK
  <1>5. CASE stray # <<>>
    <2>1. PICK at \in 1 .. Len(written) + 1, c \in Strays : stray = <<at, c>>
      BY <1>2, <1>5
    <2>2. stray[1] = at /\ stray[2] = c
      BY <2>1
    <2>3. r = amqp_parse_url(scheme, InsertAt(written, at, c))
      BY <1>1, <1>3, <1>5, <2>2, Zenon DEF Read, Written
    <2>4. r.status = BAD_URL
      BY <1>1, <1>2, <2>3, StrayRefused, Zenon
    <2>5. status # TIME_OK
      BY <1>3, <2>4 DEF BAD_URL, TIME_OK
    <2> QED  BY <1>1, <1>5, <2>5, Zenon DEF UrlRoundTrip
  <1> QED  BY <1>4, <1>5

\* only amqp_parse_url leads to where it has returned
LEMMA UrlOpens ==
    ASSUME OpeningNext, ~ ParseUrl
    PROVE  pc' # "parsed"
  <1>1. CASE NewSocket \/ OpenInUse \/ OpenWithoutSsl \/ Resolve \/ TlsFails \/ TlsPolled
    BY <1>1 DEF NewSocket, OpenInUse, OpenWithoutSsl, MayOpen, Resolve, TlsFails, TlsPolled,
                OpenFails
  <1>2. CASE \/ \E timeout \in Timeouts, clock \in Clock : Open(timeout, clock)
             \/ \E clock \in Clock : ConnectInProgress(clock) \/ TlsWants(clock)
    BY <1>2 DEF Open, MayOpen, ConnectInProgress, TlsWants
  <1>3. CASE ConnectSocket \/ ConnectEnds
    <2>1. (\E s, fd : AddressFails(s, fd)) \/ (\E fd : AddressConnects(fd))
      BY <1>3 DEF ConnectSocket, ConnectEnds
    <2> QED  BY <2>1 DEF AddressFails, OpenFails, AddressConnects
  <1>4. CASE \E cert \in Some(Certificates), valid, verify_peer, verify_hostname \in BOOLEAN :
                 TlsConnected(cert, valid, verify_peer, verify_hostname)
    <2>1. pc' \in {"closed", "open"}
      BY <1>4 DEF TlsConnected, OpenFails
    <2> QED  BY <2>1
  <1> QED  BY <1>1, <1>2, <1>3, <1>4 DEF OpeningNext

LEMMA UrlInvStep == UrlInv /\ [HandshakeNext]_handshakeVars => UrlInv'
  <1> SUFFICES ASSUME UrlInv, [HandshakeNext]_handshakeVars PROVE UrlInv'
    OBVIOUS
  <1>1. CASE TimePasses \/ PollsAgain \/ UNCHANGED handshakeVars
    <2>1. UNCHANGED <<pc, url, status>>
      BY <1>1 DEF TimePasses, Tick, PollsAgain, PollAgain, handshakeVars, openingVars
    <2> QED  BY <2>1 DEF UrlInv, Read, Written
  <1>2. CASE ParseUrl
    BY <1>2 DEF ParseUrl, UrlInv, Read, Written
  <1>3. CASE OpeningStep /\ ~ ParseUrl
    BY <1>3, UrlOpens DEF OpeningStep, UrlInv
  <1>4. CASE LoginStep \/ Destroy \/ \E s \in Outcomes : StartTaken(s) \/ OpenMade(s)
    <2>1. pc' # "parsed"
      BY <1>4
      DEF LoginStep, Destroy, LoginRefused, Login, Send, SendBlocks, SendEnds, Sent, SendFails,
          Reads, ReadEnds, Expect, AwaitOpenOk, HearOther, AwaitFails, AwaitTimesOut, TakeOther,
          TakeClose, TakeOpenOk, StartTaken, OpenMade, LoginFails, LoginGivesUp
    <2> QED  BY <2>1 DEF UrlInv
  <1>5. CASE \E offer \in Offers.all, clock \in Clock, memory \in BOOLEAN, s \in Outcomes :
                 TuneTaken(offer, clock, memory, s)
    <2>1. pc' \in {"send", "failed"}
      BY <1>5 DEF TuneTaken, LoginFails
    <2> QED  BY <2>1 DEF UrlInv
  <1> QED  BY <1>1, <1>2, <1>3, <1>4, <1>5 DEF HandshakeNext

(***************************************************************************)
(* amqp_parse_url (amqp_url.c:96) finds the parts that a URL was written   *)
(* from, or tells that the scheme, the port or a delimiter is wrong, in    *)
(* every session: for every set of URLs, each with at most one delimiter   *)
(* out of its place.                                                       *)
(***************************************************************************)
THEOREM UrlAlwaysReadBack == HandshakeSpec => []UrlRoundTrip
  <1>1. HandshakeInit => UrlInv
    BY DEF HandshakeInit, OpeningInit, UrlInv
  <1> QED  BY <1>1, UrlInvStep, UrlMeant, PTL DEF HandshakeSpec

-----------------------------------------------------------------------------
(***************************************************************************)
(* No call of the table is a publication, and no other number is its.      *)
(***************************************************************************)
LEMMA PublishNumber ==
    /\ MethodId["BASIC_PUBLISH"] = Id(60, 40)
    /\ \A name \in Method : name # "BASIC_PUBLISH" => MethodId[name] # Id(60, 40)
    /\ Id(10, 99) # Id(60, 40)
  BY DEF MethodId, Method, Id

LEMMA CallsPublishNothing ==
    \A c \in DOMAIN Call : MethodId[Call[c].request] # Id(60, 40)
  <1> DEFINE Harmless(calls) ==
                 \A c \in DOMAIN calls : calls[c].request \in Method \ {"BASIC_PUBLISH"}
  <1>1. Harmless(ExchangeCalls)
    BY DEF ExchangeCalls, Rpc, Method, MethodId
  <1>2. Harmless(QueueCalls)
    BY DEF QueueCalls, Rpc, Method, MethodId
  <1>3. Harmless(BasicCalls)
    BY DEF BasicCalls, Rpc, Method, MethodId
  <1>4. Harmless(TxCalls)
    BY DEF TxCalls, Rpc, Method, MethodId
  <1>5. Harmless(ApiCalls)
    BY DEF ApiCalls, Rpc, SendOnly, Method, MethodId
  <1>6. \A calls \in CallGroups : Harmless(calls)
    BY <1>1, <1>2, <1>3, <1>4, <1>5, Zenon DEF CallGroups
  <1>7. ASSUME NEW c \in DOMAIN Call
        PROVE  \E calls \in CallGroups : c \in DOMAIN calls /\ Call[c] = calls[c]
    BY Zenon DEF Call
  <1> HIDE DEF Harmless
  <1>8. ASSUME NEW c \in DOMAIN Call PROVE Call[c].request \in Method \ {"BASIC_PUBLISH"}
    BY <1>6, <1>7, Zenon DEF Harmless
  <1> QED  BY <1>8, PublishNumber, Zenon

-----------------------------------------------------------------------------
\* the frames of the call, those that the broker has taken and those on their way
Count == Len(log) + Len(wire)

Frame(i) == IF i <= Len(log) THEN log[i] ELSE wire[i - Len(log)].frame

ToServer == \A i \in 1 .. Len(wire) : wire[i].to = "server"

Typed ==
    /\ wire \in Seq(Range(wire)) /\ log \in Seq(Range(log))
    /\ frame_max \in Nat

\* a header, and the first n frames of a body of this size
HeaderAndBody(size, n) ==
    /\ Count = n + 2
    /\ Frame(2).frame_type = AMQP_FRAME_HEADER
    /\ Frame(2).body_size = size
    /\ \A i \in 1 .. n : /\ Frame(i + 2).frame_type = AMQP_FRAME_BODY
                         /\ Frame(i + 2).body_fragment = Stretch(i, size)

\* full frames have been sent, and there is more to send
Continued(size, n) ==
    /\ HeaderAndBody(size, n)
    /\ call.body_offset = n * usable_body_payload_size
    /\ call.body_offset < size

\* what amqp_basic_publish has sent
Publishing(size) ==
    /\ call.body = Body(size)
    /\ result = OK
    /\ Count >= 1 /\ ToServer
    /\ Frame(1).id = Id(60, 40)
    /\ call.body_offset = -1 => Count = 1
    /\ call.body_offset # -1 => frame_max >= MinFrameMax /\ \E n \in Nat : Continued(size, n)

Whole(size, n) ==
    /\ HeaderAndBody(size, n)
    /\ (n - 1) * usable_body_payload_size < size
    /\ size <= n * usable_body_payload_size

Returned ==
    \/ Count = 0
    \/ /\ ToServer
       /\ \/ result # OK
          \/ Frame(1).id # Id(60, 40)
          \/ \E size, n \in Nat : Whole(size, n)

Waits == call.call \notin {"publish", "none"}

(***************************************************************************)
(* The frames of a call in progress are those it should have sent so far;  *)
(* a call that waits for an answer has at most one frame on the wire, and  *)
(* leaves nothing to the broker when it returns.                           *)
(***************************************************************************)
TalkInv ==
    /\ Typed
    /\ call.call \in {"none", "rpc", "wait", "publish"}
    /\ call.call = "publish" => \E size \in Nat : Publishing(size)
    /\ call.call = "none" => call = NoCall /\ Returned
    /\ Waits => log = <<>> /\ Len(wire) <= 1
    /\ call.call = "wait" => \A i \in 1 .. Len(wire) : wire[i].to = "client"

-----------------------------------------------------------------------------
LEMMA Appended ==
    ASSUME NEW s, s \in Seq(Range(s)), NEW e
    PROVE  /\ Append(s, e) \in Seq(Range(Append(s, e)))
           /\ Len(s) \in Nat /\ Len(Append(s, e)) = Len(s) + 1
           /\ \A i \in 1 .. Len(s) : Append(s, e)[i] = s[i]
           /\ Append(s, e)[Len(s) + 1] = e
  <1> DEFINE S == Range(s) \cup {e}
  <1>1. Range(s) \subseteq S /\ e \in S
    OBVIOUS
  <1> HIDE DEF S
  <1>2. s \in Seq(S)
    BY <1>1
  <1>3. Append(s, e) \in Seq(S)
    BY <1>1, <1>2
  <1>4. Append(s, e) \in Seq(Range(Append(s, e)))
    BY <1>3, OwnRange, Zenon
  <1>5. /\ Len(s) \in Nat /\ Len(Append(s, e)) = Len(s) + 1
        /\ \A i \in 1 .. Len(s) : Append(s, e)[i] = s[i]
        /\ Append(s, e)[Len(s) + 1] = e
    BY <1>1, <1>2
  <1> QED  BY <1>4, <1>5

LEMMA Shortened ==
    ASSUME NEW s, s \in Seq(Range(s)), s # <<>>
    PROVE  /\ Tail(s) \in Seq(Range(Tail(s)))
           /\ Len(s) \in Nat \ {0} /\ Len(Tail(s)) = Len(s) - 1
           /\ Head(s) = s[1]
           /\ \A i \in 1 .. Len(s) - 1 : Tail(s)[i] = s[i + 1]
  <1> DEFINE S == Range(s)
  <1> HIDE DEF S
  <1>1. s \in Seq(S)
    BY DEF S
  <1>2. Tail(s) \in Seq(S)
    BY <1>1
  <1>3. Tail(s) \in Seq(Range(Tail(s)))
    BY <1>2, OwnRange, Zenon
  <1>4. /\ Len(s) \in Nat \ {0} /\ Len(Tail(s)) = Len(s) - 1
        /\ Head(s) = s[1]
        /\ \A i \in 1 .. Len(s) - 1 : Tail(s)[i] = s[i + 1]
    BY <1>1
  <1> QED  BY <1>3, <1>4

\* a frame is sent
LEMMA FrameSent ==
    ASSUME Typed, NEW f, wire' = Append(wire, To("server", f)), UNCHANGED <<log, frame_max>>
    PROVE  /\ Typed' /\ Count \in Nat
           /\ Count' = Count + 1
           /\ \A i \in 1 .. Count : Frame(i)' = Frame(i)
           /\ \A i : i = Count + 1 => Frame(i)' = f
           /\ ToServer => ToServer'
  <1>1. Typed' /\ Len(log) \in Nat /\ Len(wire) \in Nat /\ Len(wire') = Len(wire) + 1
    BY Appended DEF Typed
  <1>2. /\ \A i \in 1 .. Len(wire) : wire'[i] = wire[i]
        /\ wire'[Len(wire) + 1] = To("server", f)
    BY Appended DEF Typed
  <1>3. ToServer => ToServer'
    BY <1>1, <1>2 DEF ToServer, To
  <1>4. \A i \in 1 .. Count : Frame(i)' = Frame(i)
    BY <1>1, <1>2 DEF Frame, Count
  <1>5. ASSUME NEW i, i = Count + 1 PROVE Frame(i)' = f
    <2>1. i - Len(log) = Len(wire) + 1 /\ ~ (i <= Len(log'))
      BY <1>1, <1>5 DEF Count
    <2>2. wire'[i - Len(log')].frame = f
      BY <1>2, <2>1 DEF To
    <2> QED  BY <2>1, <2>2 DEF Frame
  <1> QED  BY <1>1, <1>3, <1>4, <1>5 DEF Count

\* the broker takes a frame
LEMMA FrameTaken ==
    ASSUME Typed, wire # <<>>, log' = Append(log, Head(wire).frame), wire' = Tail(wire),
           UNCHANGED frame_max
    PROVE  /\ Typed' /\ Count \in Nat
           /\ Count' = Count
           /\ \A i \in 1 .. Count : Frame(i)' = Frame(i)
           /\ ToServer => ToServer'
  <1>1. /\ Typed' /\ Len(log) \in Nat /\ Len(wire) \in Nat \ {0}
        /\ Len(wire') = Len(wire) - 1 /\ Len(log') = Len(log) + 1
    BY Appended, Shortened DEF Typed
  <1>2. /\ \A i \in 1 .. Len(wire) - 1 : wire'[i] = wire[i + 1]
        /\ \A i \in 1 .. Len(log) : log'[i] = log[i]
        /\ log'[Len(log) + 1] = wire[1].frame
    BY Appended, Shortened DEF Typed
  <1>3. ToServer => ToServer'
    BY <1>1, <1>2 DEF ToServer
  <1>4. ASSUME NEW i \in 1 .. Count PROVE Frame(i)' = Frame(i)
    <2>1. CASE i <= Len(log)
      BY <1>1, <1>2, <2>1 DEF Frame, Count
    <2>2. CASE i = Len(log) + 1
      BY <1>1, <1>2, <2>2 DEF Frame, Count
    <2>3. CASE i > Len(log) + 1
      <3>1. /\ i - Len(log') \in 1 .. Len(wire) - 1
            /\ (i - Len(log')) + 1 = i - Len(log)
            /\ ~ (i <= Len(log)) /\ ~ (i <= Len(log'))
        BY <1>1, <2>3 DEF Count
      <3>2. wire'[i - Len(log')] = wire[i - Len(log)]
        BY <1>2, <3>1
      <3>3. Frame(i) = wire[i - Len(log)].frame
        BY <3>1 DEF Frame
      <3>4. Frame(i)' = wire'[i - Len(log')].frame
        BY <3>1 DEF Frame
      <3> QED  BY <3>2, <3>3, <3>4
    <2> QED  BY <1>1, <2>1, <2>2, <2>3 DEF Count
  <1> QED  BY <1>1, <1>3, <1>4 DEF Count

LEMMA BodyKept ==
    ASSUME NEW size, NEW n \in Nat, HeaderAndBody(size, n), UNCHANGED frame_max,
           Count' = Count, \A i \in 1 .. Count : Frame(i)' = Frame(i)
    PROVE  HeaderAndBody(size, n)'
  <1>1. usable_body_payload_size' = usable_body_payload_size
    BY DEF usable_body_payload_size
  <1>2. \A i : Stretch(i, size)' = Stretch(i, size)
    BY <1>1 DEF Stretch
  <1>3. Count = n + 2 /\ Frame(2)' = Frame(2)
    BY DEF HeaderAndBody
  <1>4. ASSUME NEW i \in 1 .. n
        PROVE  /\ Frame(i + 2)'.frame_type = AMQP_FRAME_BODY
               /\ Frame(i + 2)'.body_fragment = Stretch(i, size)'
    <2>1. i + 2 \in 1 .. Count
      BY <1>3
    <2>2. Frame(i + 2)' = Frame(i + 2)
      BY <2>1
    <2> QED  BY <1>2, <2>2 DEF HeaderAndBody
  <1> QED  BY <1>3, <1>4 DEF HeaderAndBody

\* from a state between two calls
LEMMA CallStarts ==
    ASSUME TalkInv, Idle, NEW f, NEW s, NEW Follows, send_frame_inner(f, s, Follows),
           UNCHANGED <<log, frame_max>>
    PROVE  /\ Typed' /\ log' = <<>>
           /\ s # OK => call' = NoCall /\ Count' = 0
           /\ s = OK => /\ Follows /\ Len(wire') = 1 /\ Count' = 1 /\ ToServer'
                        /\ \A i : i = 1 => Frame(i)' = f
  <1>1. Typed /\ Count = 0 /\ ToServer
    BY DEF TalkInv, Idle, Count, ToServer
  <1>2. CASE s # OK
    BY <1>1, <1>2 DEF send_frame_inner, Return, Idle, Typed, Count
  <1>3. CASE s = OK
    <2>1. wire' = Append(wire, To("server", f)) /\ Follows
      BY <1>3 DEF send_frame_inner
    <2>2. /\ Typed' /\ ToServer' /\ Count' = 1
          /\ \A i : i = 1 => Frame(i)' = f
      BY <1>1, <2>1, FrameSent
    <2>3. log' = <<>> /\ Len(wire') = 1
      BY <2>2 DEF Idle, Count, Typed
    <2> QED  BY <1>3, <2>1, <2>2, <2>3
  <1> QED  BY <1>2, <1>3

LEMMA RequestKeeps ==
    ASSUME TalkInv, NEW c \in DOMAIN Call, NEW ch, NEW m, NEW s, StartCall(c, ch, m, s)
    PROVE  TalkInv'
  <1> DEFINE replies == Call[c].replies
             f == RequestFrame(c, ch, m)
             Follows == IF replies = {} THEN Return(OK)
                     ELSE call' = [call |-> "rpc", replies |-> replies] /\ UNCHANGED result
  <1>1. Idle /\ send_frame_inner(f, s, Follows) /\ UNCHANGED <<log, frame_max>>
    BY DEF StartCall
  <1>2. f.id # Id(60, 40)
    BY CallsPublishNothing DEF RequestFrame, MethodFrame
  <1> HIDE DEF Follows, f
  <1>3. /\ Typed' /\ log' = <<>>
        /\ s # OK => call' = NoCall /\ Count' = 0
        /\ s = OK => /\ Follows /\ Len(wire') = 1 /\ Count' = 1 /\ ToServer'
                     /\ \A i : i = 1 => Frame(i)' = f
    BY <1>1, CallStarts
  <1>4. CASE s # OK
    BY <1>3, <1>4 DEF TalkInv, Returned, NoCall, Waits
  <1>5. CASE s = OK /\ replies = {}
    <2>1. call' = NoCall /\ Frame(1)'.id # Id(60, 40)
      BY <1>2, <1>3, <1>5 DEF Follows, Return
    <2> QED  BY <1>3, <1>5, <2>1 DEF TalkInv, Returned, NoCall, Waits
  <1>6. CASE s = OK /\ replies # {}
    <2>1. call'.call = "rpc"
      BY <1>3, <1>6 DEF Follows
    <2>2. Typed' /\ log' = <<>> /\ Len(wire') = 1
      BY <1>3, <1>6, Zenon
    <2> HIDE DEF replies
    <2> QED  BY <2>1, <2>2 DEF TalkInv, Waits
  <1> QED  BY <1>4, <1>5, <1>6

LEMMA UnknownKeeps ==
    ASSUME TalkInv, NEW ch, NEW s, SendUnknown(ch, s)
    PROVE  TalkInv'
  <1> DEFINE f == UnknownFrame(ch)
             Follows == Return(OK)
  <1>1. Idle /\ send_frame_inner(f, s, Follows) /\ UNCHANGED <<log, frame_max>>
    BY DEF SendUnknown
  <1>2. f.id # Id(60, 40)
    BY PublishNumber DEF UnknownFrame, MethodFrame
  <1> HIDE DEF Follows, f
  <1>3. /\ Typed' /\ log' = <<>>
        /\ s # OK => call' = NoCall /\ Count' = 0
        /\ s = OK => /\ Follows /\ Len(wire') = 1 /\ Count' = 1 /\ ToServer'
                     /\ \A i : i = 1 => Frame(i)' = f
    BY <1>1, CallStarts
  <1>4. CASE s # OK
    BY <1>3, <1>4 DEF TalkInv, Returned, NoCall, Waits
  <1>5. CASE s = OK
    <2>1. call' = NoCall /\ Frame(1)'.id # Id(60, 40)
      BY <1>2, <1>3, <1>5 DEF Follows, Return
    <2> QED  BY <1>3, <1>5, <2>1 DEF TalkInv, Returned, NoCall, Waits
  <1> QED  BY <1>4, <1>5

LEMMA BodyLengthIs ==
    ASSUME NEW n \in Nat PROVE Len(Body(n)) = n /\ Body(n) \in Seq(Int)
  <1>1. Body(n) \in [1 .. n -> Int]
    BY DEF Body, Base
  <1>2. Body(n) \in Seq(Int)
    BY <1>1, SeqDef
  <1>3. DOMAIN Body(n) = 1 .. n
    BY <1>1
  <1> QED  BY <1>2, <1>3

LEMMA PublicationStarts ==
    ASSUME TalkInv, NEW p \in Publications, NEW s, StartPublish(p, s)
    PROVE  TalkInv'
  <1> DEFINE f == PublishFrame(p)
             begun == PublishCall(p.channel, p.properties, Body(p.length), -1)
             Follows == call' = begun /\ UNCHANGED result
  <1>1. Idle /\ send_frame_inner(f, s, Follows) /\ UNCHANGED <<log, frame_max>>
    BY DEF StartPublish
  <1>2. f.id = Id(60, 40)
    BY PublishNumber DEF PublishFrame, MethodFrame
  <1>3. p.length \in Nat
    BY BodyLengthAssumption DEF Publications
  <1> HIDE DEF Follows, f
  <1>4. /\ Typed' /\ log' = <<>>
        /\ s # OK => call' = NoCall /\ Count' = 0
        /\ s = OK => /\ Follows /\ Len(wire') = 1 /\ Count' = 1 /\ ToServer'
                     /\ \A i : i = 1 => Frame(i)' = f
    BY <1>1, CallStarts
  <1>5. CASE s # OK
    BY <1>4, <1>5 DEF TalkInv, Returned, NoCall, Waits
  <1>6. CASE s = OK
    <2>1. call' = begun /\ result' = OK
      BY <1>1, <1>4, <1>6 DEF Follows, Idle
    <2>2. Len(Body(p.length)) = p.length
      BY <1>3, BodyLengthIs
    <2>3. PICK size \in Nat : size = p.length
      BY <1>3
    <2>4. Publishing(size)'
      BY <1>2, <1>4, <1>6, <2>1, <2>2, <2>3 DEF Publishing, PublishCall
    <2> QED  BY <1>4, <1>6, <2>1, <2>4 DEF TalkInv, Waits, PublishCall
  <1> QED  BY <1>5, <1>6

LEMMA HeaderKeeps ==
    ASSUME TalkInv, NEW s, s = OK => frame_max >= MinFrameMax, PublishHeader(s)
    PROVE  TalkInv'
  <1> DEFINE Follows == PublishedTo(0)
  <1>1. /\ Typed /\ frame_max \in Nat
        /\ call.call = "publish" /\ call.body_offset = -1
        /\ send_frame_inner(MessageHeader, s, Follows)
        /\ UNCHANGED <<log, frame_max>>
    BY DEF TalkInv, PublishHeader, HeaderDue, Typed
  <1>2. PICK size \in Nat : Publishing(size)
    BY <1>1 DEF TalkInv
  <1>3. Count = 1 /\ ToServer /\ result = OK /\ Len(call.body) = size
    BY <1>1, <1>2, BodyLengthIs DEF Publishing
  <1>4. CASE s # OK
    <2>1. call' = NoCall /\ wire' = wire /\ result' # OK
      BY <1>1, <1>4 DEF send_frame_inner, Return
    <2>2. Typed' /\ ToServer'
      BY <1>1, <1>3, <2>1 DEF Typed, ToServer
    <2> QED  BY <2>1, <2>2 DEF TalkInv, Returned, NoCall, Waits
  <1>5. CASE s = OK
    <2>1. wire' = Append(wire, To("server", MessageHeader)) /\ Follows
      BY <1>1, <1>5 DEF send_frame_inner
    <2>2. /\ Typed' /\ ToServer' /\ Count' = 2
          /\ \A i \in 1 .. 1 : Frame(i)' = Frame(i)
          /\ \A i : i = 2 => Frame(i)' = MessageHeader
      <3>1. /\ Typed' /\ Count' = Count + 1 /\ ToServer'
            /\ \A i \in 1 .. Count : Frame(i)' = Frame(i)
            /\ \A i : i = Count + 1 => Frame(i)' = MessageHeader
        BY <1>1, <1>3, <2>1, FrameSent
      <3> QED  BY <1>3, <3>1
    <2>3. Frame(1)'.id = Id(60, 40)
      BY <1>2, <2>2 DEF Publishing
    <2>4. /\ Frame(2)'.frame_type = AMQP_FRAME_HEADER
          /\ Frame(2)'.body_size = size
      BY <1>3, <2>2 DEF MessageHeader, HeaderFrame
    <2>5. HeaderAndBody(size, 0)'
      BY <2>2, <2>4 DEF HeaderAndBody
    <2>6. PICK u \in Nat \ {0} : usable_body_payload_size' = u
      BY <1>1, <1>5 DEF usable_body_payload_size, MinFrameMax, HEADER_SIZE, FOOTER_SIZE
    <2> HIDE DEF Follows
    <2>7. CASE size = 0
      <3>1. call' = NoCall
        BY <1>3, <2>1, <2>7 DEF Follows, PublishedTo, Return
      <3>2. (0 - 1) * u < size /\ size <= 0 * u
        BY <2>7, SMT
      <3>3. Whole(size, 0)'
        BY <2>5, <2>6, <3>2 DEF Whole
      <3>4. Returned'
        BY <2>2, <3>3 DEF Returned
      <3> QED  BY <2>2, <3>1, <3>4 DEF TalkInv, NoCall, Waits
    <2>8. CASE size # 0
      <3>1. call' = PublishCall(call.channel, call.properties, call.body, 0) /\ result' = OK
        BY <1>3, <2>1, <2>8 DEF Follows, PublishedTo
      <3>3. call'.body = call.body /\ call'.body_offset = 0 /\ call'.call = "publish"
        BY <3>1 DEF PublishCall
      <3>4. call'.body = Body(size)
        BY <1>2, <3>3 DEF Publishing
      <3>5. 0 = 0 * u /\ 0 < size
        BY <2>8, SMT
      <3>6. call'.body_offset = 0 * u /\ call'.body_offset < size
        BY <3>3, <3>5
      <3>7. Continued(size, 0)'
        BY <2>5, <2>6, <3>6 DEF Continued
      <3>8. frame_max' >= MinFrameMax
        BY <1>1, <1>5
      <3>9. Publishing(size)'
        BY <2>2, <2>3, <3>1, <3>3, <3>4, <3>7, <3>8 DEF Publishing
      <3> QED  BY <2>2, <3>3, <3>9 DEF TalkInv, Waits
    <2> QED  BY <2>7, <2>8
  <1> QED  BY <1>4, <1>5

\* a body is cut where the frames end
LEMMA NextStretch ==
    ASSUME NEW size \in Nat, NEW n \in Nat, NEW u \in Nat \ {0}, NEW offset \in Nat,
           NEW length \in Nat, offset = n * u, offset < size,
           length = IF size - offset >= u THEN u ELSE size - offset
    PROVE  /\ (n + 1) * u - u = offset
           /\ offset + length = IF (n + 1) * u < size THEN (n + 1) * u ELSE size
           /\ ((n + 1) - 1) * u < size
           /\ offset + length >= size => size <= (n + 1) * u
           /\ ~ (offset + length >= size) => offset + length = (n + 1) * u
  <1>1. (n + 1) * u = n * u + u /\ (n + 1) - 1 = n
    BY SMT
  <1> QED  BY <1>1, SMT

LEMMA FragmentKeeps ==
    ASSUME TalkInv, PublishBody(OK)
    PROVE  TalkInv'
  <1> DEFINE Follows == PublishedTo(call.body_offset + FragmentLength)
  <1>1. /\ Typed /\ frame_max \in Nat
        /\ call.call = "publish" /\ call.body_offset >= 0
        /\ wire' = Append(wire, To("server", NextFragment)) /\ Follows
        /\ UNCHANGED <<log, frame_max>>
    BY DEF TalkInv, PublishBody, BodyDue, Typed, send_frame_inner
  <1>2. PICK size \in Nat : Publishing(size)
    BY <1>1 DEF TalkInv
  <1>3. /\ ToServer /\ result = OK /\ call.body = Body(size) /\ Len(call.body) = size
        /\ Frame(1).id = Id(60, 40)
    BY <1>1, <1>2, BodyLengthIs DEF Publishing
  <1>4. frame_max >= MinFrameMax /\ \E n \in Nat : Continued(size, n)
    BY <1>1, <1>2 DEF Publishing
  <1>5. PICK n \in Nat : Continued(size, n)
    BY <1>4
  <1>6. PICK u \in Nat \ {0} : usable_body_payload_size = u
    BY <1>1, <1>4 DEF usable_body_payload_size, MinFrameMax, HEADER_SIZE, FOOTER_SIZE
  <1>7. usable_body_payload_size' = u
    BY <1>1, <1>6 DEF usable_body_payload_size
  <1>8. n * u \in Nat
    BY SMT
  <1>9. PICK offset \in Nat : call.body_offset = offset /\ offset = n * u /\ offset < size
    BY <1>5, <1>6, <1>8 DEF Continued
  <1>10. PICK length \in Nat :
             /\ length = IF size - offset >= u THEN u ELSE size - offset
             /\ FragmentLength = length
    <2>1. (IF size - offset >= u THEN u ELSE size - offset) \in Nat
      BY <1>9
    <2>2. FragmentLength = IF size - offset >= u THEN u ELSE size - offset
      BY <1>3, <1>6, <1>9 DEF FragmentLength
    <2> QED  BY <2>1, <2>2
  <1>11. /\ (n + 1) * u - u = offset
         /\ offset + length = IF (n + 1) * u < size THEN (n + 1) * u ELSE size
         /\ ((n + 1) - 1) * u < size
         /\ offset + length >= size => size <= (n + 1) * u
         /\ ~ (offset + length >= size) => offset + length = (n + 1) * u
    BY <1>9, <1>10, NextStretch
  <1>12. HeaderAndBody(size, n) /\ Count = n + 2
    BY <1>5 DEF Continued, HeaderAndBody
  <1>13. /\ Typed' /\ ToServer' /\ Count' = n + 3
         /\ \A i \in 1 .. n + 2 : Frame(i)' = Frame(i)
         /\ \A i : i = n + 3 => Frame(i)' = NextFragment
    <2>1. /\ Typed' /\ Count' = Count + 1 /\ ToServer'
          /\ \A i \in 1 .. Count : Frame(i)' = Frame(i)
          /\ \A i : i = Count + 1 => Frame(i)' = NextFragment
      BY <1>1, <1>3, FrameSent
    <2> QED  BY <1>12, <2>1
  <1>14. /\ NextFragment.frame_type = AMQP_FRAME_BODY
         /\ NextFragment.body_fragment = SubSeq(Body(size), offset + 1, offset + length)
    BY <1>3, <1>9, <1>10 DEF NextFragment, BodyFrame
  <1>15. \A i : Stretch(i, size)' = Stretch(i, size)
    BY <1>6, <1>7 DEF Stretch
  <1>16. Stretch(n + 1, size) = SubSeq(Body(size), offset + 1, offset + length)
    BY <1>6, <1>11 DEF Stretch
  <1>17. HeaderAndBody(size, n + 1)'
    <2>1. Count' = (n + 1) + 2
      BY <1>13
    <2>2. Frame(2)' = Frame(2)
      BY <1>13
    <2>3. ASSUME NEW i \in 1 .. n + 1
          PROVE  /\ Frame(i + 2)'.frame_type = AMQP_FRAME_BODY
                 /\ Frame(i + 2)'.body_fragment = Stretch(i, size)'
      <3>1. CASE i \in 1 .. n
        <4>1. Frame(i + 2)' = Frame(i + 2)
          BY <1>13, <3>1
        <4> QED  BY <1>12, <1>15, <3>1, <4>1 DEF HeaderAndBody
      <3>2. CASE i = n + 1
        <4>1. Frame(i + 2)' = NextFragment
          BY <1>13, <3>2
        <4> QED  BY <1>14, <1>15, <1>16, <3>2, <4>1
      <3> QED  BY <3>1, <3>2
    <2> QED  BY <1>12, <2>1, <2>2, <2>3 DEF HeaderAndBody
  <1>18. Frame(1)'.id = Id(60, 40)
    BY <1>3, <1>13
  <1>19. n + 1 \in Nat
    OBVIOUS
  <1>20. Follows = IF offset + length >= size THEN Return(OK)
                ELSE call' = PublishCall(call.channel, call.properties, call.body, offset + length)
                     /\ UNCHANGED result
    BY <1>3, <1>9, <1>10 DEF PublishedTo
  <1> HIDE DEF Follows
  <1>21. CASE offset + length >= size
    <2>1. call' = NoCall
      BY <1>1, <1>20, <1>21 DEF Return
    <2>2. Whole(size, n + 1)'
      BY <1>7, <1>11, <1>17, <1>21 DEF Whole
    <2>3. Returned'
      BY <1>13, <1>19, <2>2 DEF Returned
    <2> QED  BY <1>13, <2>1, <2>3 DEF TalkInv, NoCall, Waits
  <1>22. CASE ~ (offset + length >= size)
    <2>1. /\ call' = PublishCall(call.channel, call.properties, call.body, offset + length)
          /\ result' = OK
      BY <1>1, <1>3, <1>20, <1>22
    <2>2. /\ call'.body = Body(size) /\ call'.body_offset = offset + length
          /\ call'.call = "publish"
      BY <1>3, <2>1 DEF PublishCall
    <2>3. Continued(size, n + 1)'
      BY <1>7, <1>11, <1>17, <1>22, <2>2 DEF Continued
    <2>4. frame_max' >= MinFrameMax /\ Count' >= 1 /\ call'.body_offset # -1
      BY <1>1, <1>4, <1>13, <2>2
    <2>5. Publishing(size)'
      BY <1>13, <1>18, <1>19, <2>1, <2>2, <2>3, <2>4 DEF Publishing
    <2> QED  BY <1>13, <2>2, <2>5 DEF TalkInv, Waits
  <1> QED  BY <1>21, <1>22

LEMMA ServerTakesKeeps ==
    ASSUME TalkInv, ServerTakes(Head(wire).frame)
    PROVE  TalkInv'
  <1>1. /\ Typed /\ wire # <<>> /\ wire[1].to = "server" /\ 1 \in 1 .. Len(wire)
        /\ Len(wire) \in Nat \ {0}
        /\ UNCHANGED <<call, result, frame_max>>
    BY Shortened DEF TalkInv, ServerTakes, Arriving, Typed
  <1>2. call.call # "wait"
    BY <1>1 DEF TalkInv
  <1>3. CASE call.call = "rpc"
    <2>1. log' = <<>> /\ log = <<>> /\ Len(wire) = 1
      <3>1. Waits
        BY <1>3 DEF Waits
      <3>2. log = <<>> /\ Len(wire) <= 1
        BY <3>1 DEF TalkInv
      <3>3. log' = log
        BY <1>3 DEF ServerTakes
      <3>4. \A k \in Nat \ {0} : k <= 1 => k = 1
        OBVIOUS
      <3> QED  BY <1>1, <3>2, <3>3, <3>4, Zenon
    <2>2. Tail(wire) \in Seq(Range(Tail(wire))) /\ Len(Tail(wire)) = 0
      BY <1>1, <2>1, Shortened DEF Typed
    <2>3. wire' = Tail(wire) \/ \E e : wire' = Append(Tail(wire), e)
      BY DEF ServerTakes, ServerAnswers
    <2>4. wire' \in Seq(Range(wire')) /\ Len(wire') <= 1
      <3>1. CASE wire' = Tail(wire)
        BY <2>2, <3>1
      <3>2. ASSUME NEW e, wire' = Append(Tail(wire), e)
            PROVE  wire' \in Seq(Range(wire')) /\ Len(wire') <= 1
        <4> DEFINE rest == Tail(wire)
        <4> HIDE DEF rest
        <4>1. rest \in Seq(Range(rest)) /\ Len(rest) = 0 /\ wire' = Append(rest, e)
          BY <2>2, <3>2 DEF rest
        <4>2. /\ Append(rest, e) \in Seq(Range(Append(rest, e)))
              /\ Len(Append(rest, e)) = Len(rest) + 1
          BY <4>1, Appended
        <4> QED  BY <4>1, <4>2
      <3> QED  BY <2>3, <3>1, <3>2
    <2> QED  BY <1>1, <1>3, <2>1, <2>4 DEF TalkInv, Waits, Typed
  <1>4. CASE call.call # "rpc"
    <2>1. log' = Append(log, Head(wire).frame) /\ wire' = Tail(wire)
      BY <1>4 DEF ServerTakes
    <2>2. /\ Typed' /\ Count \in Nat /\ Count' = Count
          /\ \A i \in 1 .. Count : Frame(i)' = Frame(i)
          /\ ToServer => ToServer'
      BY <1>1, <2>1, FrameTaken
    <2>3. Count >= 1
      BY <1>1, <2>2 DEF Count, Typed
    <2>4. Frame(1)' = Frame(1)
      BY <2>2, <2>3
    <2>5. \A size, n \in Nat : HeaderAndBody(size, n) => HeaderAndBody(size, n)'
      BY <1>1, <2>2, BodyKept
    <2>6. usable_body_payload_size' = usable_body_payload_size
      BY <1>1 DEF usable_body_payload_size
    <2>7. CASE call.call = "publish"
      <3>1. PICK size \in Nat : Publishing(size)
        BY <2>7 DEF TalkInv
      <3>2. \A n \in Nat : Continued(size, n) => Continued(size, n)'
        BY <1>1, <2>5, <2>6 DEF Continued
      <3>3. Publishing(size)'
        BY <1>1, <2>2, <2>4, <3>1, <3>2 DEF Publishing
      <3> QED  BY <1>1, <2>2, <2>7, <3>3 DEF TalkInv, Waits
    <2>8. CASE call.call = "none"
      <3>1. \A size, n \in Nat : Whole(size, n) => Whole(size, n)'
        BY <2>5, <2>6 DEF Whole
      <3>2. Returned'
        BY <1>1, <2>2, <2>3, <2>4, <2>8, <3>1 DEF TalkInv, Returned
      <3> QED  BY <1>1, <2>2, <2>8, <3>2 DEF TalkInv, NoCall, Waits
    <2> QED  BY <1>2, <1>4, <2>7, <2>8 DEF TalkInv
  <1> QED  BY <1>3, <1>4

LEMMA ClientTakesKeeps ==
    ASSUME TalkInv, NEW s, ClientTakes(Head(wire).frame, s)
    PROVE  TalkInv'
  <1>1. /\ Typed /\ wire # <<>> /\ wire[1].to = "client" /\ 1 \in 1 .. Len(wire)
        /\ Len(wire) \in Nat \ {0}
        /\ wire' = Tail(wire) /\ UNCHANGED <<log, frame_max>>
    BY Shortened DEF TalkInv, ClientTakes, Arriving, Typed
  <1>2. ~ ToServer
    BY <1>1 DEF ToServer
  <1>3. Count # 0
    BY <1>1 DEF Count, Typed
  <1>4. Waits
    BY <1>2, <1>3 DEF TalkInv, Publishing, Returned, Waits
  <1>5. log' = <<>> /\ Len(wire) = 1
    <2>1. log = <<>> /\ Len(wire) <= 1
      BY <1>4 DEF TalkInv
    <2>2. \A k \in Nat \ {0} : k <= 1 => k = 1
      OBVIOUS
    <2> QED  BY <1>1, <2>1, <2>2, Zenon
  <1>6. Typed' /\ Len(wire') = 0 /\ Count' = 0
    BY <1>1, <1>5, Shortened DEF Typed, Count
  <1>7. call' = NoCall \/ call' = call
    BY DEF ClientTakes, Return
  <1>8. CASE call' = NoCall
    BY <1>6, <1>8 DEF TalkInv, Returned, NoCall, Waits
  <1>9. CASE call' = call
    BY <1>4, <1>5, <1>6, <1>9 DEF TalkInv, Waits
  <1> QED  BY <1>7, <1>8, <1>9

LEMMA ServerSendsKeeps ==
    ASSUME TalkInv, NEW frame, ServerSends(frame)
    PROVE  TalkInv'
  <1>1. /\ log' = <<>> /\ frame_max' \in Nat /\ call' = [call |-> "wait"]
        /\ wire' = <<To("client", frame)>> /\ log \in Seq(Range(log))
        /\ UNCHANGED log
    BY DEF TalkInv, Typed, ServerSends, Idle
  <1> DEFINE S == {To("client", frame)}
  <1>2. <<To("client", frame)>> \in Seq(S)
    OBVIOUS
  <1>3. wire' \in Seq(Range(wire'))
    BY <1>1, <1>2, OwnRange
  <1>4. Len(wire') = 1 /\ wire'[1].to = "client"
    BY <1>1 DEF To
  <1> QED  BY <1>1, <1>3, <1>4 DEF TalkInv, Typed, Waits

LEMMA TalkInit == ConversationInit => TalkInv
  <1> SUFFICES ASSUME ConversationInit PROVE TalkInv
    OBVIOUS
  <1>1. <<>> \in Seq(Range(<<>>))
    OBVIOUS
  <1>2. Len(<<>>) = 0
    OBVIOUS
  <1> QED  BY <1>1, <1>2 DEF ConversationInit, TalkInv, Typed, Count, Returned, NoCall, Waits

LEMMA TalkStep == TalkInv /\ [ConversationNext]_conversationVars => TalkInv'
  <1> SUFFICES ASSUME TalkInv, [ConversationNext]_conversationVars
               PROVE  TalkInv'
    OBVIOUS
  <1>1. CASE Retuned
    <2>1. Count = 0 /\ call = NoCall
      BY <1>1 DEF Retuned, Idle, Count
    <2>2. Typed' /\ Count' = 0 /\ call' = NoCall
      BY <1>1, <2>1 DEF Retuned, TalkInv, Typed, Count
    <2> QED  BY <2>2 DEF TalkInv, Returned, NoCall, Waits
  <1>2. ASSUME NEW s \in EncodeStatuses, s = OK => frame_max >= MinFrameMax, PublishHeader(s)
        PROVE  TalkInv'
    BY <1>2, HeaderKeeps
  <1>3. CASE PublishBody(OK)
    BY <1>3, FragmentKeeps
  <1>4. CASE Arriving("server") /\ ServerTakes(Head(wire).frame)
    BY <1>4, ServerTakesKeeps
  <1>5. CASE Arriving("client") /\ ClientTakes(Head(wire).frame, OK)
    BY <1>5, ClientTakesKeeps
  <1>6. CASE NextCall
    <2>1. <<>> \in Seq(Range(<<>>)) /\ Len(<<>>) = 0
      OBVIOUS
    <2>2. Typed' /\ Count' = 0 /\ call' = NoCall
      BY <1>6, <2>1 DEF NextCall, TalkInv, Typed, Count
    <2> QED  BY <2>2 DEF TalkInv, Returned, NoCall, Waits
  <1>7. ASSUME NEW frame \in ServerFrames, ServerSends(frame) PROVE TalkInv'
    BY <1>7, ServerSendsKeeps
  <1>8. CASE ApplicationCalls
    <2>1. ASSUME NEW c \in DOMAIN Call, NEW ch \in Channel, NEW s \in EncodeStatuses,
                 NEW m \in Requests(c), StartCall(c, ch, m, s)
          PROVE  TalkInv'
      BY <2>1, RequestKeeps
    <2>2. ASSUME NEW ch \in Channel, NEW s \in EncodeStatuses, SendUnknown(ch, s)
          PROVE  TalkInv'
      BY <2>2, UnknownKeeps
    <2>3. ASSUME NEW p \in Publications, NEW s \in EncodeStatuses, StartPublish(p, s)
          PROVE  TalkInv'
      BY <2>3, PublicationStarts
    <2> QED  BY <1>8, <2>1, <2>2, <2>3 DEF ApplicationCalls
  <1>9. CASE UNCHANGED conversationVars
    <2>1. /\ Typed' /\ Count' = Count /\ (ToServer => ToServer') /\ call' = call
          /\ result' = result /\ frame_max' = frame_max /\ log' = log /\ wire' = wire
          /\ \A i : Frame(i)' = Frame(i)
      BY <1>9 DEF TalkInv, Typed, Count, ToServer, Frame, conversationVars
    <2>2. usable_body_payload_size' = usable_body_payload_size
      BY <2>1 DEF usable_body_payload_size
    <2>3. \A size, n \in Nat : HeaderAndBody(size, n) => HeaderAndBody(size, n)'
      BY <2>1, BodyKept
    <2>4. \A size, n \in Nat : /\ Continued(size, n) => Continued(size, n)'
                               /\ Whole(size, n) => Whole(size, n)'
      BY <2>1, <2>2, <2>3 DEF Continued, Whole
    <2>5. \A size \in Nat : Publishing(size) => Publishing(size)'
      BY <2>1, <2>4 DEF Publishing
    <2>6. Returned => Returned'
      BY <2>1, <2>4 DEF Returned
    <2> QED  BY <2>1, <2>5, <2>6 DEF TalkInv, Waits
  <1> QED
    BY <1>1, <1>2, <1>3, <1>4, <1>5, <1>6, <1>7, <1>8, <1>9 DEF ConversationNext

LEMMA TalkAlways == ConversationSpec => []TalkInv
  BY TalkInit, TalkStep, PTL DEF ConversationSpec

(***************************************************************************)
(* amqp_basic_publish (amqp_api.c:190) that has returned AMQP_STATUS_OK    *)
(* has sent the method, one header with the size of the body, and the body *)
(* from its first byte to its last in frames that are full up to the last  *)
(* one, in this order and none twice: for every limit of the frames, every *)
(* length of the body, and every way the broker takes them meanwhile.      *)
(***************************************************************************)
THEOREM PublishedAlwaysWhole == ConversationSpec => []PublishedWhole
  <1>1. TalkInv => PublishedWhole
    <2> SUFFICES ASSUME TalkInv, call = NoCall, wire = <<>>, result = OK, log # <<>>,
                        log[1].id = MethodId["BASIC_PUBLISH"]
                 PROVE  LET n == Len(log) - 2
                            size == log[2].body_size
                        IN  /\ n >= 0
                            /\ log[2].frame_type = AMQP_FRAME_HEADER
                            /\ (n - 1) * usable_body_payload_size < size
                            /\ size <= n * usable_body_payload_size
                            /\ \A i \in 1 .. n :
                                   /\ log[i + 2].frame_type = AMQP_FRAME_BODY
                                   /\ log[i + 2].body_fragment = Stretch(i, size)
      BY DEF PublishedWhole
    <2>1. Len(wire) = 0 /\ Len(log) \in Nat \ {0} /\ Count = Len(log)
      BY DEF TalkInv, Typed, Count
    <2>2. \A i \in 1 .. Len(log) : Frame(i) = log[i]
      BY DEF Frame
    <2>3. Frame(1).id = Id(60, 40)
      BY <2>1, <2>2, PublishNumber
    <2>4. PICK size \in Nat, n \in Nat : Whole(size, n)
      BY <2>1, <2>3 DEF TalkInv, Returned, NoCall
    <2>5. Len(log) = n + 2
      BY <2>1, <2>4 DEF Whole, HeaderAndBody
    <2>6. log[2].frame_type = AMQP_FRAME_HEADER /\ log[2].body_size = size
      BY <2>2, <2>4, <2>5 DEF Whole, HeaderAndBody
    <2>7. ASSUME NEW i \in 1 .. n
          PROVE  /\ log[i + 2].frame_type = AMQP_FRAME_BODY
                 /\ log[i + 2].body_fragment = Stretch(i, size)
      <3>1. i + 2 \in 1 .. Len(log)
        BY <2>5
      <3>2. Frame(i + 2) = log[i + 2]
        BY <2>2, <3>1
      <3> QED  BY <2>4, <3>2 DEF Whole, HeaderAndBody
    <2>8. /\ (n - 1) * usable_body_payload_size < size
          /\ size <= n * usable_body_payload_size
      BY <2>4 DEF Whole
    <2>9. Len(log) - 2 = n
      BY <2>5
    <2> QED  BY <2>6, <2>7, <2>8, <2>9
  <1> QED  BY <1>1, TalkAlways, PTL

-----------------------------------------------------------------------------
\* each method has a number, and a name, of its own
LEMMA NumbersDiffer ==
    \A name, other \in Method : MethodId[name] = MethodId[other] => name = other
  BY SMTT(60) DEF MethodId, Method, Id

LEMMA NameOfNumber == \A name \in Method : amqp_method_name(MethodId[name]) = name
  <1> SUFFICES ASSUME NEW name \in Method PROVE amqp_method_name(MethodId[name]) = name
    OBVIOUS
  <1>1. MethodId[name] \in {MethodId[m] : m \in Method}
    OBVIOUS
  <1>2. MethodName[MethodId[name]] = CHOOSE m \in Method : MethodId[m] = MethodId[name]
    BY <1>1 DEF MethodName
  <1>3. (CHOOSE m \in Method : MethodId[m] = MethodId[name]) = name
    BY NumbersDiffer
  <1>4. MethodId[name] \in DOMAIN MethodName
    BY <1>1 DEF MethodName
  <1> QED  BY <1>2, <1>3, <1>4 DEF amqp_method_name

\* the methods that may ask for no answer
MayForgo ==
    {"EXCHANGE_DECLARE", "EXCHANGE_DELETE", "EXCHANGE_BIND", "EXCHANGE_UNBIND", "QUEUE_DECLARE",
     "QUEUE_BIND", "QUEUE_PURGE", "QUEUE_DELETE", "BASIC_CONSUME", "BASIC_CANCEL",
     "CONFIRM_SELECT"}

LEMMA WhoForgoes == \A m \in DOMAIN Fields : "nowait" \in DOMAIN Fields[m] => m \in MayForgo
  <1> DEFINE Known(fields) == \A m \in DOMAIN fields : "nowait" \in DOMAIN fields[m] => m \in MayForgo
  <1>1. Known(FieldsConnectionStart)
    BY DEF FieldsConnectionStart
  <1>2. Known(FieldsConnectionClose)
    BY DEF FieldsConnectionClose, Empty
  <1>3. Known(FieldsChannel)
    BY DEF FieldsChannel, Empty
  <1>4. Known(FieldsExchange)
    BY DEF FieldsExchange, MayForgo, Empty
  <1>5. Known(FieldsBinding)
    BY DEF FieldsBinding, MayForgo, Empty
  <1>6. Known(FieldsQueueDelete)
    BY DEF FieldsQueueDelete, MayForgo, Empty
  <1>7. Known(FieldsConsume)
    BY DEF FieldsConsume, MayForgo, Empty
  <1>8. Known(FieldsPublish)
    BY DEF FieldsPublish
  <1>9. Known(FieldsAck)
    BY DEF FieldsAck, Empty
  <1>10. Known(FieldsTx)
    BY DEF FieldsTx, MayForgo, Empty
  <1>11. \A fields \in FieldGroups : Known(fields)
    BY <1>1, <1>2, <1>3, <1>4, <1>5, <1>6, <1>7, <1>8, <1>9, <1>10, Zenon DEF FieldGroups
  <1>12. ASSUME NEW m \in DOMAIN Fields
         PROVE  \E fields \in FieldGroups : m \in DOMAIN fields /\ Fields[m] = fields[m]
    BY Zenon DEF Fields
  <1> HIDE DEF Known
  <1> QED  BY <1>11, <1>12, Zenon DEF Known

LEMMA MethodsHaveFields == Method \subseteq DOMAIN Fields
  <1>1. DOMAIN Fields = UNION {DOMAIN group : group \in FieldGroups}
    BY DEF Fields
  <1>2. Method \subseteq UNION {DOMAIN group : group \in FieldGroups}
    BY DEF Method, MethodId, FieldGroups, FieldsConnectionStart, FieldsConnectionClose,
       FieldsChannel, FieldsExchange, FieldsBinding, FieldsQueueDelete, FieldsConsume,
       FieldsPublish, FieldsAck, FieldsTx
  <1> QED  BY <1>1, <1>2, Zenon

\* a call that waits has asked for an answer, and accepts every answer to its request
LEMMA CallsAsk ==
    \A c \in DOMAIN Call :
        Call[c].replies # {} =>
            /\ Call[c].request \in Method
            /\ Answers(Call[c].request) \subseteq Call[c].replies
            /\ Call[c].request \in MayForgo =>
                   "nowait" \in DOMAIN Call[c].fixed /\ Call[c].fixed["nowait"] = FALSE
  <1> DEFINE Asks(d) ==
                 d.replies # {} =>
                     /\ d.request \in Method
                     /\ Answers(d.request) \subseteq d.replies
                     /\ d.request \in MayForgo =>
                            "nowait" \in DOMAIN d.fixed /\ d.fixed["nowait"] = FALSE
             AllAsk(calls) == \A c \in DOMAIN calls : Asks(calls[c])
  <1>1. AllAsk(ExchangeCalls)
    BY DEF ExchangeCalls, Rpc, Method, MethodId, Answers, AnswerTo, MayForgo, Empty
  <1>2. AllAsk(QueueCalls)
    BY DEF QueueCalls, Rpc, Method, MethodId, Answers, AnswerTo, MayForgo
  <1>3. AllAsk(BasicCalls)
    BY DEF BasicCalls, Rpc, Method, MethodId, Answers, AnswerTo, MayForgo, Empty
  <1>4. AllAsk(TxCalls)
    BY DEF TxCalls, Rpc, Method, MethodId, Answers, AnswerTo, MayForgo, Empty
  <1>5. AllAsk(ApiCalls)
    BY DEF ApiCalls, Rpc, SendOnly, Method, MethodId, Answers, AnswerTo, MayForgo, Empty
  <1>6. \A calls \in CallGroups : AllAsk(calls)
    BY <1>1, <1>2, <1>3, <1>4, <1>5, Zenon DEF CallGroups
  <1>7. ASSUME NEW c \in DOMAIN Call
        PROVE  \E calls \in CallGroups : c \in DOMAIN calls /\ Call[c] = calls[c]
    BY Zenon DEF Call
  <1> HIDE DEF AllAsk
  <1>8. ASSUME NEW c \in DOMAIN Call PROVE Asks(Call[c])
    BY <1>6, <1>7, Zenon DEF AllAsk
  <1> QED  BY <1>8, Zenon

LEMMA SampleFields ==
    ASSUME NEW m, NEW sample \in Samples(m) PROVE DOMAIN sample = DOMAIN Fields[m]
  <1>1. DOMAIN AllFirst(m) = DOMAIN Fields[m]
    BY DEF AllFirst
  <1>2. ASSUME NEW f, NEW v PROVE DOMAIN [AllFirst(m) EXCEPT ![f] = v] = DOMAIN AllFirst(m)
    OBVIOUS
  <1>3. sample = AllFirst(m) \/ \E f, v : sample = [AllFirst(m) EXCEPT ![f] = v]
    <2> DEFINE Changed(f) == {[AllFirst(m) EXCEPT ![f] = v] : v \in ToSet(Value[Fields[m][f]])}
    <2>1. sample = AllFirst(m) \/ \E f \in DOMAIN Fields[m] : sample \in Changed(f)
      BY Zenon DEF Samples
    <2> QED  BY <2>1, Zenon
  <1> QED  BY <1>1, <1>2, <1>3, Zenon

LEMMA RequestAsks ==
    ASSUME NEW c \in DOMAIN Call, Call[c].replies # {}, NEW m \in Requests(c)
    PROVE  WantsAnswer(m)
  <1> DEFINE fixed == Call[c].fixed
             name == Call[c].request
  <1>1. PICK sample \in Samples(name) :
            m = [f \in DOMAIN sample |-> IF f \in DOMAIN fixed THEN fixed[f] ELSE sample[f]]
    BY Zenon DEF Requests
  <1>2. DOMAIN m = DOMAIN Fields[name]
    BY <1>1, SampleFields, Zenon
  <1> SUFFICES ASSUME "nowait" \in DOMAIN m PROVE ~ m.nowait
    BY DEF WantsAnswer
  <1>3. name \in DOMAIN Fields
    BY CallsAsk, MethodsHaveFields
  <1>4. name \in MayForgo
    BY <1>2, <1>3, WhoForgoes, Zenon
  <1>5. "nowait" \in DOMAIN fixed /\ fixed["nowait"] = FALSE
    BY <1>4, CallsAsk, Zenon
  <1>6. m["nowait"] = FALSE
    BY <1>1, <1>2, <1>5, Zenon
  <1> QED  BY <1>6

(***************************************************************************)
(* While a call waits, either its request is on the wire and asks for an   *)
(* answer, or one that the call accepts is.                                *)
(***************************************************************************)
Asking(c) ==
    /\ call.replies = Call[c].replies /\ Call[c].replies # {}
    /\ wire \in Seq(Range(wire)) /\ Len(wire) = 1
    /\ wire[1].to = "server" => /\ wire[1].frame.id = MethodId[Call[c].request]
                                /\ WantsAnswer(wire[1].frame.decoded)
    /\ wire[1].to = "client" => wire[1].frame.id \in {MethodId[r] : r \in call.replies}

AskInv ==
    /\ call.call = "none" => call = NoCall
    /\ call.call = "rpc" => \E c \in DOMAIN Call : Asking(c)

LEMMA OnlyOne ==
    ASSUME NEW s, s \in Seq(Range(s)), Len(s) = 1
    PROVE  s # <<>> /\ Head(s) = s[1] /\ Tail(s) = <<>>
  <1>1. Len(<<>>) # 1
    OBVIOUS
  <1>2. s # <<>>
    BY <1>1, Zenon
  <1>3. Head(s) = s[1] /\ Tail(s) \in Seq(Range(Tail(s))) /\ Len(Tail(s)) = 0
    BY <1>2, Shortened
  <1>4. ASSUME NEW S, NEW e \in Seq(S), Len(e) = 0 PROVE e = <<>>
    BY <1>4
  <1> QED  BY <1>2, <1>3, <1>4, Zenon

LEMMA RequestAsked ==
    ASSUME NEW c \in DOMAIN Call, NEW ch, NEW m \in Requests(c), NEW s, StartCall(c, ch, m, s)
    PROVE  AskInv'
  <1> DEFINE f == RequestFrame(c, ch, m)
             replies == Call[c].replies
  <1>1. CASE s # OK \/ replies = {}
    BY <1>1 DEF StartCall, send_frame_inner, Return, AskInv, NoCall
  <1>2. CASE s = OK /\ replies # {}
    <2>1. call' = [call |-> "rpc", replies |-> replies] /\ wire' = Append(<<>>, To("server", f))
      BY <1>2 DEF StartCall, send_frame_inner, Idle
    <2>2. wire' = <<To("server", f)>>
      BY <2>1
    <2>3. wire' \in Seq(Range(wire')) /\ Len(wire') = 1 /\ wire'[1] = To("server", f)
      BY <2>2 DEF Range
    <2>4. f.id = MethodId[Call[c].request] /\ WantsAnswer(f.decoded)
      BY <1>2, RequestAsks DEF RequestFrame, MethodFrame
    <2>5. wire'[1].to = "server" /\ wire'[1].frame = f
      BY <2>3 DEF To
    <2> HIDE DEF f
    <2>6. Asking(c)'
      BY <1>2, <2>1, <2>3, <2>4, <2>5 DEF Asking
    <2> QED  BY <2>1, <2>6 DEF AskInv
  <1> QED  BY <1>1, <1>2

LEMMA ServerAsked ==
    ASSUME AskInv, ServerTakes(Head(wire).frame)
    PROVE  AskInv'
  <1> DEFINE read == Head(wire).frame
  <1>1. UNCHANGED call /\ wire # <<>> /\ Head(wire).to = "server"
    BY DEF ServerTakes, Arriving
  <1>2. CASE call.call # "rpc"
    BY <1>1, <1>2 DEF AskInv
  <1>3. CASE call.call = "rpc"
    <2>1. PICK c \in DOMAIN Call : Asking(c)
      BY <1>3 DEF AskInv
    <2> DEFINE request == Call[c].request
    <2>2. Head(wire) = wire[1] /\ Tail(wire) = <<>>
      BY <2>1, OnlyOne DEF Asking
    <2>3. read.id = MethodId[request] /\ WantsAnswer(read.decoded)
      BY <1>1, <2>1, <2>2 DEF Asking
    <2>4. amqp_method_name(read.id) = request /\ Answers(request) \subseteq Call[c].replies
      BY <2>1, <2>3, CallsAsk, NameOfNumber, Zenon DEF Asking
    <2>5. ServerAnswers(read.channel, request)
      BY <1>3, <2>3, <2>4, Zenon DEF ServerTakes
    <2>6. PICK answer \in Answers(request) : \E m :
              wire' = Append(Tail(wire), To("client", MethodFrame(read.channel, MethodId[answer], m)))
      BY <2>5, Zenon DEF ServerAnswers
    <2>7. PICK m :
               wire' = Append(Tail(wire), To("client", MethodFrame(read.channel, MethodId[answer], m)))
      BY <2>6
    <2> DEFINE f == MethodFrame(read.channel, MethodId[answer], m)
    <2>8. wire' = <<To("client", f)>>
      <3>1. wire' = Append(<<>>, To("client", f))
        BY <2>2, <2>7, Zenon
      <3> QED  BY <3>1
    <2>9. f.id = MethodId[answer]
      BY DEF MethodFrame
    <2> HIDE DEF f
    <2>10. wire' \in Seq(Range(wire')) /\ Len(wire') = 1 /\ wire'[1] = To("client", f)
      BY <2>8 DEF Range
    <2>11. wire'[1].to = "client" /\ wire'[1].frame = f
      BY <2>10 DEF To
    <2>12. MethodId[answer] \in {MethodId[r] : r \in call.replies}
      BY <2>1, <2>4, <2>6 DEF Asking
    <2>13. Asking(c)'
      BY <1>1, <2>1, <2>9, <2>10, <2>11, <2>12 DEF Asking
    <2> QED  BY <1>1, <1>3, <2>13 DEF AskInv
  <1> QED  BY <1>2, <1>3

LEMMA ClientAnswered ==
    ASSUME AskInv, NEW s, ClientTakes(Head(wire).frame, s)
    PROVE  AskInv'
  <1>1. wire # <<>> /\ Head(wire).to = "client" /\ (call' = NoCall \/ call' = call)
    BY DEF ClientTakes, Arriving, Return
  <1>2. CASE call.call # "rpc"
    BY <1>1, <1>2 DEF AskInv, NoCall
  <1>3. CASE call.call = "rpc"
    <2>1. PICK c \in DOMAIN Call : Asking(c)
      BY <1>3 DEF AskInv
    <2>2. Head(wire) = wire[1]
      BY <2>1, OnlyOne DEF Asking
    <2>3. Head(wire).frame.id \in {MethodId[r] : r \in call.replies}
      BY <1>1, <2>1, <2>2 DEF Asking
    <2>4. call' = NoCall
      BY <2>3 DEF ClientTakes, Return
    <2> QED  BY <2>4 DEF AskInv, NoCall
  <1> QED  BY <1>2, <1>3

LEMMA AskStep == AskInv /\ [ConversationNext]_conversationVars => AskInv'
  <1> SUFFICES ASSUME AskInv, [ConversationNext]_conversationVars PROVE AskInv'
    OBVIOUS
  <1>1. ASSUME call' = NoCall \/ call'.call \notin {"none", "rpc"} PROVE AskInv'
    BY <1>1 DEF AskInv, NoCall
  <1>2. CASE Retuned \/ NextCall
    BY <1>1, <1>2 DEF Retuned, Idle, NextCall
  <1>3. ASSUME NEW s \in EncodeStatuses, PublishHeader(s) PROVE AskInv'
    BY <1>1, <1>3 DEF PublishHeader, send_frame_inner, Return, PublishedTo, PublishCall
  <1>4. CASE PublishBody(OK)
    BY <1>1, <1>4 DEF PublishBody, send_frame_inner, Return, PublishedTo, PublishCall
  <1>5. CASE Arriving("server") /\ ServerTakes(Head(wire).frame)
    BY <1>5, ServerAsked
  <1>6. CASE Arriving("client") /\ ClientTakes(Head(wire).frame, OK)
    BY <1>6, ClientAnswered
  <1>7. CASE call' = [call |-> "wait"]
    BY <1>1, <1>7
  <1>8. CASE ApplicationCalls
    <2>1. ASSUME NEW c \in DOMAIN Call, NEW ch \in Channel, NEW s \in EncodeStatuses,
                 NEW m \in Requests(c), StartCall(c, ch, m, s)
          PROVE  AskInv'
      BY <2>1, RequestAsked
    <2>2. ASSUME NEW ch \in Channel, NEW s \in EncodeStatuses, SendUnknown(ch, s)
          PROVE  AskInv'
      BY <1>1, <2>2 DEF SendUnknown, send_frame_inner, Return
    <2>3. ASSUME NEW p \in Publications, NEW s \in EncodeStatuses, StartPublish(p, s)
          PROVE  AskInv'
      BY <1>1, <2>3 DEF StartPublish, send_frame_inner, Return, PublishCall
    <2> QED  BY <1>8, <2>1, <2>2, <2>3 DEF ApplicationCalls
  <1>9. CASE UNCHANGED conversationVars
    BY <1>9 DEF AskInv, Asking, conversationVars
  <1> QED
    BY <1>2, <1>3, <1>4, <1>5, <1>6, <1>7, <1>8, <1>9 DEF ConversationNext

(***************************************************************************)
(* simple_rpc_inner (amqp_socket.c:1040) waits only for an answer that     *)
(* comes: no request sent by a call of the API asks for none with its      *)
(* nowait, and every answer the protocol has for it is one that the call   *)
(* accepts.  For every value of the fields of every method.                *)
(***************************************************************************)
THEOREM AnswerAlwaysComes == ConversationSpec => []AnswerComes
  <1>1. ConversationInit => AskInv
    BY DEF ConversationInit, AskInv, NoCall
  <1>2. AskInv => AnswerComes
    <2> SUFFICES ASSUME AskInv, call.call = "rpc" PROVE wire # <<>>
      BY DEF AnswerComes
    <2>1. PICK c \in DOMAIN Call : Asking(c)
      BY DEF AskInv
    <2> QED  BY <2>1, OnlyOne DEF Asking
  <1> QED  BY <1>1, <1>2, AskStep, PTL DEF ConversationSpec
=============================================================================
