----------------------------- MODULE Handshake -----------------------------
(***************************************************************************)
(* Driver.Open: parseDSN, and conn.connect, the two-step broker handshake  *)
(* that makes a connection.  The driver dials the broker, sends its client *)
(* info, is given a CAS port (negative: rejected, zero: the CAS answers on *)
(* this socket, positive: dial that port), and opens the database there.   *)
(*                                                                         *)
(* A DSN is what net/url makes of it: does it parse, is its scheme cubrid, *)
(* does its port fit an int, does it name a database, and for each of its  *)
(* two parameters whether it is there with a text that can be read (ok),   *)
(* and as what (value).                                                    *)
(*                                                                         *)
(* Time is counted in ticks.  It passes only while the driver waits for a  *)
(* peer; the two requests are a few hundred bytes on a fresh socket and    *)
(* are written without waiting.  The broker and the CAS may answer, refuse *)
(* or stay silent.                                                         *)
(***************************************************************************)
EXTENDS Integers

CONSTANTS
  DSNs,             \* the data source names Open is called with
  DefaultTimeout,   \* 30 seconds, in ticks
  MaxNow            \* bound: the clock stops there

Param(V) == [ok : BOOLEAN, value : V]

DSN == [parses : BOOLEAN, scheme : BOOLEAN, port : BOOLEAN, database : BOOLEAN,
        timeout : Param(Int), autocommit : Param(BOOLEAN)]

ASSUME HandshakeAssumption ==
  /\ DSNs \subseteq DSN
  /\ DefaultTimeout \in Nat \ {0}
  /\ MaxNow \in Nat

VARIABLES
  dsn,       \* the argument of Open
  timeout,   \* conn.timeout, 0 = wait forever
  autoCommit,\* conn.autoCommit
  pc,        \* the next step of Open
  now,       \* ticks since Open was called
  dialBy,    \* when the dial in progress is given up
  dl,        \* the deadline of each socket
  socks,     \* the sockets this call has open
  socket,    \* conn.socket
  session,   \* conn.casInfo and conn.protoVer are the server's
  result     \* what Open returned

vars == <<dsn, timeout, autoCommit, pc, now, dialBy, dl, socks, socket, session, result>>

config == <<dsn, timeout, autoCommit>>   \* fixed once the DSN is parsed

Sockets == {"broker", "cas"}
Steps == {"parse", "dialBroker", "sendInfo", "recvPort", "dialCas", "sendOpen", "recvOpen", "done"}

Never == -1   \* no deadline
None == "none"

\* SetDeadline(time.Now().Add(c.timeout)), made only for a positive timeout.
Arm(s) == IF timeout > 0 THEN [dl EXCEPT ![s] = now + timeout] ELSE dl

\* When net.DialTimeout gives up: a timeout of zero is none, a negative one is already over.
GiveUp(t, at) == IF t = 0 THEN Never ELSE IF t > 0 THEN at + t ELSE at

Return(r) ==
  /\ pc' = "done"
  /\ result' = r

\* What ends the wait in progress, if nothing else does.
Cutoff == CASE pc \in {"dialBroker", "dialCas"} -> dialBy
            [] pc = "recvPort" -> dl["broker"]
            [] pc = "recvOpen" -> dl[socket]
            [] OTHER -> now

InTime == Cutoff = Never \/ now < Cutoff

Init ==
  /\ dsn \in DSNs
  /\ timeout = DefaultTimeout
  /\ autoCommit = TRUE
  /\ pc = "parse"
  /\ now = 0
  /\ dialBy = Never
  /\ dl = [s \in Sockets |-> Never]
  /\ socks = {}
  /\ socket = None
  /\ session = FALSE
  /\ result = "running"

\* What the URL, the scheme, the port and the path must be.
Valid(d) == d.parses /\ d.scheme /\ d.port /\ d.database

\* A parameter that is missing, or that cannot be read, leaves the default.
ValueOr(p, default) == IF p.ok THEN p.value ELSE default

\* Fault: a timeout that is missing or cannot be read is the zero duration.
ParseDSNZero ==
  /\ pc = "parse" /\ Valid(dsn)
  /\ timeout' = ValueOr(dsn.timeout, 0)
  /\ autoCommit' = ValueOr(dsn.autocommit, TRUE)
  /\ dialBy' = GiveUp(timeout', now)
  /\ pc' = "dialBroker"
  /\ UNCHANGED <<dsn, now, dl, socks, socket, session, result>>

ParseDSN ==
  /\ pc = "parse" /\ Valid(dsn)
  /\ timeout' = ValueOr(dsn.timeout, DefaultTimeout)
  /\ autoCommit' = ValueOr(dsn.autocommit, TRUE)
  /\ dialBy' = GiveUp(timeout', now)
  /\ pc' = "dialBroker"
  /\ UNCHANGED <<dsn, now, dl, socks, socket, session, result>>

BadDSN ==
  /\ pc = "parse" /\ ~Valid(dsn)
  /\ Return("err")
  /\ UNCHANGED <<config, now, dialBy, dl, socks, socket, session>>

DialBroker ==
  /\ pc = "dialBroker" /\ InTime
  /\ socks' = {"broker"}
  /\ dl' = Arm("broker")
  /\ pc' = "sendInfo"
  /\ UNCHANGED <<config, now, dialBy, socket, session, result>>

\* Refused, unreachable, or the timeout is over.
DialBrokerFails ==
  /\ pc = "dialBroker"
  /\ Return("err")
  /\ UNCHANGED <<config, now, dialBy, dl, socks, socket, session>>

SendInfo ==
  /\ pc = "sendInfo"
  /\ pc' = "recvPort"
  /\ UNCHANGED <<config, now, dialBy, dl, socks, socket, session, result>>

\* The write or the read of the port fails, or the deadline passes: the socket is closed.
BrokerFails ==
  /\ pc \in {"sendInfo", "recvPort"}
  /\ socks' = socks \ {"broker"}
  /\ Return("err")
  /\ UNCHANGED <<config, now, dialBy, dl, socket, session>>

\* newPort < 0
Rejected ==
  /\ pc = "recvPort" /\ InTime
  /\ socks' = socks \ {"broker"}
  /\ Return("err")
  /\ UNCHANGED <<config, now, dialBy, dl, socket, session>>

\* Fault: the broker's socket stays open beside the CAS socket.
RedirectedKeepsBroker ==
  /\ pc = "recvPort" /\ InTime
  /\ dialBy' = GiveUp(timeout, now)
  /\ pc' = "dialCas"
  /\ UNCHANGED <<config, now, dl, socks, socket, session, result>>

\* newPort > 0
Redirected ==
  /\ pc = "recvPort" /\ InTime
  /\ socks' = socks \ {"broker"}
  /\ dialBy' = GiveUp(timeout, now)
  /\ pc' = "dialCas"
  /\ UNCHANGED <<config, now, dl, socket, session, result>>

\* newPort = 0: the broker's socket becomes the connection and its deadline starts again.
Reused ==
  /\ pc = "recvPort" /\ InTime
  /\ socket' = "broker"
  /\ dl' = Arm("broker")
  /\ pc' = "sendOpen"
  /\ UNCHANGED <<config, now, dialBy, socks, session, result>>

\* Fault: the new socket is used without a deadline.
DialCasUnarmed ==
  /\ pc = "dialCas" /\ InTime
  /\ socks' = socks \cup {"cas"}
  /\ socket' = "cas"
  /\ pc' = "sendOpen"
  /\ UNCHANGED <<config, now, dialBy, dl, session, result>>

DialCas ==
  /\ pc = "dialCas" /\ InTime
  /\ socks' = socks \cup {"cas"}
  /\ socket' = "cas"
  /\ dl' = Arm("cas")
  /\ pc' = "sendOpen"
  /\ UNCHANGED <<config, now, dialBy, session, result>>

DialCasFails ==
  /\ pc = "dialCas"
  /\ Return("err")
  /\ UNCHANGED <<config, now, dialBy, dl, socks, socket, session>>

SendOpen ==
  /\ pc = "sendOpen"
  /\ pc' = "recvOpen"
  /\ UNCHANGED <<config, now, dialBy, dl, socks, socket, session, result>>

\* The write or the read fails, or the deadline passes: connect returns as it is.
OpenFails ==
  /\ pc \in {"sendOpen", "recvOpen"}
  /\ Return("err")
  /\ UNCHANGED <<config, now, dialBy, dl, socks, socket, session>>

\* Fault: the deadline of the handshake stays on the connection.
OpenedKeepsDeadline ==
  /\ pc = "recvOpen" /\ InTime
  /\ session' = TRUE
  /\ Return("ok")
  /\ UNCHANGED <<config, now, dialBy, dl, socks, socket>>

\* The CAS opened the database: keep what it sent and clear the deadline.
Opened ==
  /\ pc = "recvOpen" /\ InTime
  /\ session' = TRUE
  /\ dl' = [dl EXCEPT ![socket] = Never]
  /\ Return("ok")
  /\ UNCHANGED <<config, now, dialBy, socks, socket>>

\* The CAS answered with an error code (ParseOpenDatabase).
Refused ==
  /\ pc = "recvOpen" /\ InTime
  /\ Return("err")
  /\ UNCHANGED <<config, now, dialBy, dl, socks, socket, session>>

Driver ==
  \/ ParseDSN \/ BadDSN \/ DialBroker \/ DialBrokerFails \/ SendInfo \/ BrokerFails
  \/ Rejected \/ Redirected \/ Reused
  \/ DialCas \/ DialCasFails \/ SendOpen \/ OpenFails \/ Opened \/ Refused

\* Time passes while the driver waits, up to the moment the wait is cut off.
Tick ==
  /\ InTime /\ now < MaxNow
  /\ now' = now + 1
  /\ UNCHANGED <<config, pc, dialBy, dl, socks, socket, session, result>>

Next == Driver \/ Tick

Spec == Init /\ [][Next]_vars

\* The driver's own steps: what it does without a peer, and giving up when the time is over.
OwnStep ==
  \/ ParseDSN \/ BadDSN \/ SendInfo \/ SendOpen
  \/ ~InTime /\ (DialBrokerFails \/ BrokerFails \/ DialCasFails \/ OpenFails)

\* The clock runs and the driver's goroutine is scheduled; no peer has to answer.
FairSpec == Spec /\ WF_vars(OwnStep) /\ WF_vars(Tick)

-----------------------------------------------------------------------------

\* The type invariant.
TypeOK ==
  /\ dsn \in DSNs
  /\ timeout \in Int /\ autoCommit \in BOOLEAN
  /\ pc \in Steps
  /\ now \in Nat
  /\ dialBy \in Int
  /\ dl \in [Sockets -> Int]
  /\ socks \in SUBSET Sockets
  /\ socket \in Sockets \cup {None}
  /\ session \in BOOLEAN
  /\ result \in {"running", "ok", "err"}
  /\ pc = "done" <=> result /= "running"

\* The connection Open hands out is ready for its first call whichever way the
\* handshake went (conn.go 38-106): it holds one socket and no other is open, the
\* socket's deadline is cleared, the CAS session is known, and it commits by itself
\* unless the DSN says otherwise in a way that can be read (driver.go 107-111).  A
\* connection that kept the handshake's deadline would fail some call minutes later.
OpenedReady ==
  result = "ok" => /\ socks = {socket} /\ dl[socket] = Never /\ session
                   /\ ~autoCommit <=> dsn.autocommit = [ok |-> TRUE, value |-> FALSE]

\* A handshake that fails leaves no socket behind but the one already stored in
\* conn.socket; one that fails before that leaves none.  (The failures after it, conn.go
\* 88-100, do leave that one to the garbage collector: Open drops the conn.)
FailedLeavesAtMostSocket ==
  result = "err" => socks \subseteq {socket}

\* A positive timeout bounds Open as a whole, by four times its value: one for each dial
\* and one for the exchange that follows it (conn.go 40, 47, 73, 84).
OpenBounded ==
  timeout > 0 => now <= 4 * timeout

\* Open returns, however silent the broker and the CAS are, unless the DSN itself asks for a
\* timeout of zero: one that is mistyped or left out never means to wait for ever
\* (driver.go 79-84, 112-116).
OpenReturns == <>(dsn.timeout = [ok |-> TRUE, value |-> 0] \/ pc = "done")
=============================================================================
