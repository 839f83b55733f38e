-------------------------- MODULE HandshakeProofs --------------------------
(***************************************************************************)
(* Proofs about the handshake, for every set of data source names.         *)
(***************************************************************************)
EXTENDS Handshake, TLAPS

\* Where the clock starts, which sockets are open at each step of connect, and which one is conn.socket.
Held ==
  /\ pc = "parse" => now = 0
  /\ pc \in {"parse", "dialBroker"} => socks = {} /\ socket = None
  /\ pc \in {"sendInfo", "recvPort"} => socks = {"broker"} /\ socket = None
  /\ pc = "dialCas" => socks = {} /\ socket = None
  /\ pc \in {"sendOpen", "recvOpen"} => socks = {socket} /\ socket \in Sockets

\* How late it can be at each step, and how late the limit in force can be.
Clocked ==
  timeout > 0 =>
    /\ pc = "dialBroker" => now <= dialBy /\ dialBy <= timeout
    /\ pc \in {"sendInfo", "recvPort"} => now <= dl["broker"] /\ dl["broker"] <= 2 * timeout
    /\ pc = "dialCas" => now <= dialBy /\ dialBy <= 3 * timeout
    /\ pc \in {"sendOpen", "recvOpen"} => now <= dl[socket] /\ dl[socket] <= 4 * timeout
    /\ pc = "done" => now <= 4 * timeout

\* What TypeOK says of the steps, the clock and the sockets.
Typed ==
  /\ timeout \in Int /\ pc \in Steps /\ now \in Nat /\ dialBy \in Int
  /\ dl \in [Sockets -> Int] /\ socks \in SUBSET Sockets
  /\ socket \in Sockets \cup {None} /\ session \in BOOLEAN
  /\ result \in {"running", "ok", "err"}
  /\ pc = "done" <=> result /= "running"

\* What OpenedReady says of the socket.
SocketReady == result = "ok" => socks = {socket} /\ dl[socket] = Never /\ session

\* The inductive invariant of connect.
HInv == Typed /\ Held /\ Clocked /\ SocketReady /\ FailedLeavesAtMostSocket

\* The configuration is the DSN's once it has been parsed.
Configured ==
  /\ dsn \in DSNs /\ autoCommit \in BOOLEAN
  /\ pc /= "parse" /\ result /= "err" => autoCommit = ValueOr(dsn.autocommit, TRUE)

\* When a dial that starts at a moment is given up (net.DialTimeout).
LEMMA GiveUpLater ==
  ASSUME NEW t \in Int, NEW at \in Nat
  PROVE GiveUp(t, at) \in Int /\ (t > 0 => GiveUp(t, at) = at + t)
  BY DEF GiveUp, Never

\* The first state of Open (driver.go 35-50).
LEMMA HInvInit == Init => HInv
<1> SUFFICES ASSUME Init PROVE HInv
  OBVIOUS
<1>1. timeout \in Int /\ dialBy \in Int /\ now = 0
  BY HandshakeAssumption DEF Init, Never
<1>2. Typed
  <2>1. dl \in [Sockets -> Int]
    BY DEF Init, Never
  <2>2. session \in BOOLEAN
    BY DEF Init
  <2> QED
    BY <1>1, <2>1, <2>2 DEF Init, Typed, None, Sockets, Steps
<1>3. Clocked
  BY <1>1 DEF Init, Clocked
<1>4. Held /\ SocketReady /\ FailedLeavesAtMostSocket
  BY DEF Init, Held, SocketReady, FailedLeavesAtMostSocket
<1> QED
  BY <1>2, <1>3, <1>4 DEF HInv

\* Every step of connect, and the clock, keep the invariant.
LEMMA HInvStep == HInv /\ dsn \in DSNs /\ [Next]_vars => HInv'
<1> SUFFICES ASSUME HInv, dsn \in DSNs, [Next]_vars PROVE HInv'
  OBVIOUS
<1> USE HandshakeAssumption DEF HInv, Typed, Held, Clocked, SocketReady,
      FailedLeavesAtMostSocket, config, Never, None, Sockets, Steps
<1>1. CASE DialBroker
  BY <1>1 DEF DialBroker, InTime, Cutoff, Arm
<1>2. CASE DialBrokerFails
  BY <1>2 DEF DialBrokerFails, Return
<1>3. CASE SendInfo
  BY <1>3 DEF SendInfo
<1>4. CASE BrokerFails
  BY <1>4 DEF BrokerFails, Return
<1>5. CASE Rejected
  BY <1>5 DEF Rejected, Return
<1>6. CASE Redirected
  BY <1>6 DEF Redirected, GiveUp
<1>7. CASE Reused
  BY <1>7 DEF Reused, Arm
<1>8. CASE DialCas
  <2>1. /\ pc' = "sendOpen" /\ socks' = {"cas"} /\ socket' = "cas" /\ result' = "running"
        /\ UNCHANGED <<dsn, timeout, autoCommit, now, dialBy, session, result>>
    BY <1>8 DEF DialCas
  <2>2. dl' \in [Sockets -> Int] /\ (timeout > 0 => dl'["cas"] = now + timeout)
    BY <1>8 DEF DialCas, Arm
  <2>3. timeout > 0 => now <= 3 * timeout
    BY <1>8 DEF DialCas
  <2> QED
    BY <2>1, <2>2, <2>3
<1>9. CASE DialCasFails
  BY <1>9 DEF DialCasFails, Return
<1>10. CASE SendOpen
  BY <1>10 DEF SendOpen
<1>11. CASE OpenFails
  BY <1>11 DEF OpenFails, Return
<1>12. CASE Opened
  BY <1>12 DEF Opened, Return
<1>13. CASE Refused
  BY <1>13 DEF Refused, Return
<1>14. CASE Tick
  <2>1. now' = now + 1 /\ UNCHANGED <<timeout, pc, dialBy, dl, socks, socket, session, result>>
    BY <1>14 DEF Tick
  <2>2. Cutoff = Never \/ now < Cutoff
    BY <1>14 DEF Tick, InTime
  <2>3. Clocked'
    BY <2>1, <2>2 DEF Cutoff
  <2>4. pc /= "parse"
    BY <2>2 DEF Cutoff
  <2> QED
    BY <2>1, <2>3, <2>4
<1>15. CASE ParseDSN
  <2>1. /\ pc = "parse" /\ pc' = "dialBroker" /\ dialBy' = GiveUp(timeout', now)
        /\ UNCHANGED <<now, dl, socks, socket, session, result>>
    BY <1>15 DEF ParseDSN
  <2>2. timeout' \in Int
    BY <1>15 DEF ParseDSN, ValueOr, DSN, Param
  <2>3. dialBy' \in Int /\ (timeout' > 0 => dialBy' = now + timeout')
    BY <2>1, <2>2, GiveUpLater
  <2> QED
    BY <2>1, <2>2, <2>3
<1>16. CASE BadDSN
  BY <1>16 DEF BadDSN, Return
<1>17. CASE UNCHANGED vars
  BY <1>17 DEF vars
<1> QED
  BY <1>1, <1>2, <1>3, <1>4, <1>5, <1>6, <1>7, <1>8, <1>9, <1>10, <1>11, <1>12,
     <1>13, <1>14, <1>15, <1>16, <1>17 DEF Next, Driver

\* parseDSN sets the configuration, and no later step touches it (driver.go 35-50).
LEMMA ConfiguredStep == Configured /\ HInv /\ [Next]_vars => Configured'
<1> SUFFICES ASSUME Configured, HInv, [Next]_vars PROVE Configured'
  OBVIOUS
<1>1. CASE ParseDSN
  <2>1. dsn' = dsn /\ autoCommit' = ValueOr(dsn.autocommit, TRUE)
    BY <1>1 DEF ParseDSN
  <2>2. ValueOr(dsn.autocommit, TRUE) \in BOOLEAN
    BY HandshakeAssumption DEF Configured, ValueOr, DSN, Param
  <2> QED
    BY <2>1, <2>2 DEF Configured
<1>2. CASE BadDSN
  BY <1>2 DEF BadDSN, Return, config, Configured
<1>3. ASSUME ~ParseDSN, ~BadDSN
      PROVE /\ dsn' = dsn /\ autoCommit' = autoCommit
            /\ pc' /= "parse" /\ result' /= "err" => pc /= "parse" /\ result /= "err"
  BY <1>3 DEF HInv, Typed, Next, Driver, DialBroker, DialBrokerFails, SendInfo, BrokerFails, Rejected,
     Redirected, Reused, DialCas, DialCasFails, SendOpen, OpenFails, Opened, Refused, Tick,
     Return, config, vars
<1> QED
  BY <1>1, <1>2, <1>3 DEF Configured

\* The invariant holds in every reachable state.
LEMMA HandshakeInvariant == Spec => [](HInv /\ Configured)
<1>1. Init => Configured
  BY DEF Init, Configured
<1>2. Configured => dsn \in DSNs
  BY DEF Configured
<1> QED
  BY <1>1, <1>2, HInvInit, HInvStep, ConfiguredStep, PTL DEF Spec

\* A connection that Open returns holds one socket, with no deadline left on it, and a
\* CAS session, on the redirected and on the reused path alike (conn.go 38-106), and commits
\* by itself unless its DSN says otherwise.
THEOREM OpenReady == Spec => []OpenedReady
<1>1. HInv /\ Configured => OpenedReady
  <2> SUFFICES ASSUME HInv, Configured, result = "ok" PROVE OpenedReady
    BY DEF OpenedReady
  <2>1. socks = {socket} /\ dl[socket] = Never /\ session
    BY DEF HInv, SocketReady
  <2>2. autoCommit = ValueOr(dsn.autocommit, TRUE) /\ dsn.autocommit \in Param(BOOLEAN)
    BY HandshakeAssumption DEF HInv, Typed, Configured, DSN
  <2>3. ~autoCommit <=> dsn.autocommit = [ok |-> TRUE, value |-> FALSE]
    <3>1. PICK o \in BOOLEAN, v \in BOOLEAN : dsn.autocommit = [ok |-> o, value |-> v]
      BY <2>2 DEF Param
    <3>2. autoCommit = IF o THEN v ELSE TRUE
      BY <2>2, <3>1 DEF ValueOr
    <3>3. CASE o = TRUE /\ v = FALSE
      BY <3>1, <3>2, <3>3
    <3>4. CASE o = FALSE
      BY <3>1, <3>2, <3>4
    <3>5. CASE v = TRUE
      BY <3>1, <3>2, <3>5
    <3> QED
      BY <3>3, <3>4, <3>5
  <2> QED
    BY <2>1, <2>3 DEF OpenedReady
<1> QED
  BY <1>1, HandshakeInvariant, PTL

\* A failed handshake leaves at most the socket that was already in conn.socket.
THEOREM FailureReleasesBroker == Spec => []FailedLeavesAtMostSocket
<1>1. HInv => FailedLeavesAtMostSocket
  BY DEF HInv
<1> QED
  BY <1>1, HandshakeInvariant, PTL

\* For every positive timeout Open takes at most four times as long (conn.go 40, 47, 73, 84).
THEOREM OpenTakesFourTimeouts == Spec => []OpenBounded
<1>1. HInv => OpenBounded
  BY HandshakeAssumption DEF HInv, Typed, Held, Clocked, OpenBounded, Steps, Sockets
<1> QED
  BY <1>1, HandshakeInvariant, PTL
=============================================================================
