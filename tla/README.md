# Verification of cubrid-go

TLA+ models of the CUBRID driver for Go, the TLC configurations that check them on
small instances, and TLAPS proofs of the results that matter most.
`PROJECT.json` lists the runs, the mutants that show each property can fail, the
findings, the hazards, and for every definition the source lines it models.

## The system

The driver implements `database/sql/driver` over CUBRID's CAS protocol. A connection
is made through a broker that hands the client to a CAS process; from then on the
driver writes one request at a time to the CAS socket and reads one framed answer.

| Component | Source | State | Operations | What makes it correct |
|---|---|---|---|---|
| Handshake | `driver.go` Open, parseDSN, `conn.go` connect | the configuration, the sockets being opened, their deadlines | parse the DSN, dial broker, exchange client info, dial CAS or reuse the socket, open the database | a connection comes out with one clean socket, configured as asked; a failure leaves none behind; Open ends |
| Connection | `conn.go` | `closed`, `autoCommit`, socket deadline, one request in flight | QueryContext, ExecContext, Prepare, Begin, BeginTx, Ping, ServerVersion, Close | each call reads its own answer; deadlines do not outlive their call; cancellation unblocks; handles are not leaked |
| Context watcher | `conn.go` watchContextCancel | one goroutine per call | wake on cancellation, end with the call | ends; acts on no other call |
| Prepared statement | `stmt.go` | query handle, `closed` | Exec, Query, Close | the handle is closed once and by its owner |
| Transaction | `tx.go` | the connection's `autoCommit` | Commit, Rollback | the flag agrees with the server |
| Result set | `rows.go` | buffer, offset, counters, `exhausted`, perhaps a handle | Next, Close | each tuple of its own result once, in order, then io.EOF |
| Interpolation | `types.go` | none (a scanner and a builder) | InterpolateArgs | `?` in literals and comments is not a placeholder; an argument arrives as one value |
| Packets | `protocol.go`, `packet.go`, `constants.go` | the reader's buffer and offset | Write*, Parse* | what one side puts in the other takes out, to the last byte |
| Errors | `errors.go` | none | newError | an error has the same code, text and class whoever reads it |
| Pool | `database/sql`, through `conn.go`, `tx.go` | connections idle and taken, retries | db.Exec, db.BeginTx, Commit, Rollback, lifetimes | a statement is not run twice; what is acknowledged is committed; the next user finds a clean connection |
| GORM dialector | `dialector/` | none | QuoteTo, BindVarTo, DataTypeOf, catalog queries | names and bind variables survive the driver's scanner; a column holds its field |

Interactions: `database/sql` calls a connection, its statements, result sets and its
transaction one at a time (it holds the connection's lock; most methods take `conn.mu`
as well, rows.Next and rows.Close do not). All of them share the socket, the CAS
session behind it, and `conn.autoCommit`. A watcher shares the socket's deadline with
the call it watches and, for a moment, with the one after it. Query handles are
allocated by the server (FC=2, FC=41) and released by FC=6; a `stmt` or a `rows` owns
them, or nobody does. `database/sql` keeps connections in a pool, closes the ones that
return `driver.ErrBadConn`, and makes the call again elsewhere. GORM builds the
statements of its users with the dialector and sends them down the same way.

What is hard: the watcher, the clock and the server run concurrently with a call; a
read that is given up leaves its answer in the socket; several calls make two or three
round trips, each of which may fail; clean-up is best effort; a call without a
context has no deadline. The list of hazards, at their lines, is in `PROJECT.json`.

## Modules

| Module | Models | Used by |
|---|---|---|
| `CasConn` | one connection with its statements, result sets, transaction, watchers, contexts and the CAS process | `MCCasConn`; proofs in `CasConnProofs` |
| `RowStream` | what a result set promises (abstract) | `Cursor` |
| `Cursor` | `rows`: the buffer, FETCH, the end of the data, shared handles | `MCCursor`; proofs in `CursorProofs` |
| `Session` | what a connection promises to `database/sql` (abstract) | `CasConn`, `Pool` |
| `Pool` | several goroutines on pooled connections, each a `Session` | itself; proofs in `PoolProofs` |
| `Handshake` | `Driver.Open`: `parseDSN` and `connect` | `MCHandshake`; proofs in `HandshakeProofs` |
| `Packet` | the bytes of the requests | `Wire` |
| `Wire` | the packet reader, the parsers and the error classes, over answers and requests | `MCWire`; proofs in `WireProofs` |
| `Interpolate` | `InterpolateArgs` and its scanner | `Dialector`; proofs in `InterpolateProofs` |
| `Dialector` | statements that GORM builds, handed to `Interpolate` | `MCDialector`; proofs in `DialectorProofs` |
| `SequenceLemmas` | nothing: induction over the naturals and sequences of sequences | `InterpolateProofs`, `WireProofs` |

Operators commented `Fault:` are plausible bugs; they appear in no specification and
are there to be put in the place of the definition that follows them.

### CasConn

A call is a list of round trips (`todo`); `pc` says where in the current one it is:
`check` (the second look at the context), `send`, `len` and `body` (the two reads of
`recv`), `reset` and `stop` (the deferred functions). What a call does between two
blocking points is one step. The `On...` actions are what a caller does with an
answer: parser first, then the caller's code, including the round trips it adds
(LAST_INSERT_ID, FC=6). `Fail` is every error return.

- *Contexts.* A context is live, `due` (its time is up, the runtime has not noticed)
  or done. The socket's own deadline passes exactly when the time is up, so a read can
  fail with a timeout before the context reports its error, as in the code.
- *Socket.* An answer is two units, the length and the rest. A read that fails at the
  deadline leaves them all, or takes part of one (`Torn`); what is then read as a
  length is junk (`frame = 0`) and what is read after it is arbitrary (`RecvJunk`).
  Requests fit in the socket's buffer: a write does not block. The answer arrives in
  one piece; between its two units the reader can still be interrupted.
- *Server.* Answers in order, one for each request; may answer any request with an
  error, except the release of a handle it has; may be silent; may crash at any time.
  It is not known from this repository whether FC=15 with the auto-commit flag ends a
  transaction, so it may.
- *database/sql.* One call at a time, one Tx at a time, one Commit or Rollback for
  each Tx, after which the Tx is forgotten. Calls on a connection whose peer is gone go
  on, as the driver reports no `ErrBadConn` for them.
- *Handles.* `stmts` and `cursors` are the handles with an owner: an open statement, or open
  rows with `closeHandle` set. The rows of stmt.Query without arguments have it unset and
  read through their statement's handle (`sharers`). database/sql waits with the Close of a
  statement of the pool until its rows are closed, but not with one that was prepared on a Tx
  or a sql.Conn. rows.Next checks nothing: it fetches through the handle it was made with
  (`RowsFetch`), whatever became of that.
- `inTx` stands for database/sql's Tx, `orphaned` is a history variable: the requests
  whose answer their call did not read.

Left out: row counts, column metadata, error texts and codes (an error is one of
`err`, `ctx`, `badconn`).

### Cursor and RowStream

`RowStream` says that a result set delivers tuple 1, 2, 3, ... of its own execution and
io.EOF after the last. `Cursor` has the counters and the buffer of `rows`; the server
chooses how many tuples come with the answer (for a SELECT, at least one if there are
any) and in each FETCH (at most the fetch size). The result sets in `SharedReader` come
from one prepared statement without arguments and read through its handle, which holds
the result of the last execution; the others have a handle of their own, and those of
them that are not CALLs (`OwnReader`) are the ones `RowStream` is promised for. A FETCH that fails changes nothing and is not a step
here; `CasConn` has it.

### Session and Pool

`Session` is one level above `CasConn`: a connection executes one call at a time; a call
sends the request that matters, then perhaps some that tidy up (LAST_INSERT_ID, which the
server runs as a statement, and FC=6); the server serves requests in order. It says what `database/sql` may rely on: in which auto-commit mode a
statement reaches the server, that success is reported only for a request the server
accepted, that `driver.ErrBadConn` is returned only by a call that sent nothing (Ping
apart), and that Begin turns auto-commit off and only a successful END_TRAN turns it on.
A connection is `lost` once an answer was given up on; from then on an answer may be
anybody's. `CasConn` implements it (`ImplementsSession`): `sessionOf` maps contexts,
handles, watchers and the units on the socket away, and `orphaned` to `lost`.

`Pool` runs jobs on such connections the way `database/sql` does. The pool is not in
this repository; it is modelled from what it does with the driver's results: an error
puts a connection back, `driver.ErrBadConn` closes it and makes the call again, at most
twice on cached connections and then on a new one, a Tx keeps its connection until its
end, connections have a lifetime. `conn` implements neither `driver.SessionResetter`,
`driver.Validator` nor `driver.Pinger`, so nothing else looks at a connection between
two users. After the answer to a statement the call makes up to three more round trips
(`Taking`, `Tidying`): LAST_INSERT_ID, the FC=6 of that, the FC=6 of the statement. Each of them may
fail or time out, and the call reports success all the same; the connection it leaves to its Tx or
to the pool may be out of step. A connection on which END_TRAN failed, or on which an answer was given up,
whatever the round trip, is `fouled`; `tainted` are the jobs that had one. These two history variables say exactly
where the promises end: docs/API_REFERENCE.md:261 ("After `Commit()` or `Rollback()`,
auto-commit is restored to `true`") holds for END_TRANs that succeed only.
`Stuck` are the connections on which a read may block for ever: the server is there, and it has not
answered, or what it sent is not in step with the calls.

### Packet and Wire

Bytes are 0..255. `Packet` has the writers, `Wire` a reader that executes a parser read
by read: a parser is a list of reads, and a length, a count or a type that was read puts
further reads in front of the rest. A read outside of the buffer is a Go panic. Every
answer is given to its own parser, as on a connection that is in step, and to every
other one, as on a connection that is not. 64-bit integers and floats stay the bytes they
are; the statement text of a request is any bytes. A bind parameter is read as the comment
protocol.go:595-602 describes it: a size, 0 for NULL, then a type and a value that takes the rest,
so that an empty `[]byte` is one of no bytes and no NULL. The three names of the open request are compared
with the fields the server reads, position by position (`InField`). The encoding of answers and the
reading of requests are the server's and are external. `IsMessage` says which messages
there are: numbers have their widths, a length fits in 32 bits, a value is one of its
column's type, and an error has a negative code, as `raiseError` and its callers take it.

### Handshake

`parseDSN` rejects a DSN or takes its two parameters, with their defaults where they are
missing or cannot be read. Then the steps of `connect`, each of which may succeed, fail or wait. Ticks pass while the
driver waits, up to the limit in force: the dial's or the socket's deadline. Timeouts
are integers, because the DSN accepts zero (no limit) and negative durations.

### Interpolate

The scanner's loop, one iteration per step, then the loop that builds the text. An
argument's value is chosen when it is formatted. `TokenEnd` and `TokenStarts` define
tokens directly, by where a literal, a quoted identifier or a comment ends, without
scanner states; that is the reference the scanner is compared with. The scanner knows no
double-quoted identifiers, so the comparison is made for statements whose identifiers
hold nothing it reacts to (`PlainNames`).

### Dialector

GORM writes a statement part by part: a quoted name, a bind variable, a column
definition; text of its own is one character. The migrator's catalog queries are texts of
their own. The finished statement goes to `Interpolate`.

## Runs

Passing:

| Run | Instance | Shows |
|---|---|---|
| `calls` | every kind of call, 1 context, 1 watcher, 2 handles, no new call after 3 requests | `NoDanglingHandle`, `HandlesAccountedFor`, `AutoCommitIsTrue`: handles are used, closed and accounted for by exactly one owner, those who borrow one from an open statement find it open, and the auto-commit flag tells the truth; `OnlyOrphansLinger`, `InStep`: what can be left behind in the socket, and by whom |
| `live` | every kind of call, 1 context with a deadline, 1 watcher, 1 handle, no new call after 2 requests, fairness | `CasConn` implements `Session`; `StaleDeadlineOnlyByCancel`: when a deadline can be left on the socket; `CancelReturns`, `WatchersExit` |
| `sets` | one result set with its own handle beside two that share one, fairness | `BufferMatches`, `PositionsInOrder`, `Drains`, and `Cursor` implements `RowStream` |
| `open` | DSNs with timeouts -1 to 3, unreadable or missing, every autocommit, each way of being invalid; fairness | `OpenedReady`, `FailedLeavesAtMostSocket`, `OpenBounded`, `OpenReturns` |
| `args` | every statement of up to 5 characters, statements of up to 3 parts built by GORM, up to 2 arguments of 10, 98 fields | `ScanFindsPlaceholders`, `ArgsArriveWhole`, `GormStatementsArrive`, `ColumnsHoldFields` |
| `pool` | two db.Exec and a Tx on a pool of one connection, a tidy-up after a statement, fairness | `AtMostOnce`, `AcknowledgedIsDurable`, `OnlyCommittedIsDurable`, `IdleIsClean`; if no read blocks for ever, `StaleLeaves`, `JobsReturn` |
| `bytes` | every request and every kind of answer, with up to two columns and two rows of every kind of type; names of 0, 1, 31, 32 and 33 bytes for each field of the open request | `AnswersArriveWhole`, `ErrorsReadTheSame`, `RequestsArriveWhole` |

The bounds: a stale answer needs the request that was given up and the one after it (2
requests); a call that started below the bound runs to its end (the longest, an INSERT,
makes 4 round trips), and three requests are a Prepare, a use and a Close, or a
statement, its END_TRAN and the call after. Two
handles tell a statement's handle from a result set's. One context serves several calls, and calls
without one run between them, so that a late watcher or a deadline meets a call that is not its
own; that a second context adds nothing, such as a late watcher beside another call's context,
is left to `StaleDeadlineNeedsCancel`, `StaysInStep` and `NoAnswerLeftUnread`, which hold for any
number of contexts and watchers. Two result sets are the
fewest that can share a handle; up to three tuples with a fetch size of two give a first
batch, a full one and a short one. One connection makes the three jobs of `pool` meet on
it in every order, a Tx between the two others included; every retry, up to the
third try that insists on a new connection, happens there. The code makes up to three
tidy-ups after a statement; the model lets each be given up on, and one (`MaxTidy`) is enough for the Tx or the
next job to go on with a connection that is out of step. The theorems about `Pool` hold for any number of them. The columns of `args` have the widths of Go's types and
their neighbours. Five characters hold every pair of delimiters with a `?`
inside and one after it, except a closed comment with both, which needs six; unclosed
and empty comments are covered.

Violated, each stating what a document, comment or test of the repository says
(details and quotations under "findings"):

| Run | Claim | What happens |
|---|---|---|
| `answer` | `OwnAnswer` | after a timeout the connection stays in use, and the next call takes the late answer for its own |
| `deadline` | `DeadlineReset` | a watcher sets the deadline after the call has cleared it |
| `leak` | `NoHandleLeak` | a context done just after the answer arrived: the result is dropped, its handle with it |
| `stray` | `FetchKeepsCursor` | rows of a statement prepared on a Tx fetch through its handle after the statement was closed |
| `two` | `OwnTuples` | a result set goes on with the tuples of a later execution |

The passing properties are the counterparts: they say exactly how far the claim holds.
`InStep` and `OnlyOrphansLinger` confine `answer` to abandoned reads,
`StaleDeadlineOnlyByCancel` confines `deadline` to deadlines that have passed while some context is done,
`HandlesAccountedFor` confines `leak` to contexts that are done, `NoDanglingHandle` confines `stray` to rows whose
statement was closed before them, `ImplementsRowStream` confines `two` to shared handles. `AutoCommitIsTrue` says that a failed END_TRAN at least never leaves the
flag lying.

More behaviours a reader of the documents may not expect are visible in the
models. An Exec whose LAST_INSERT_ID query fails succeeds with the id 0 (`Fail`,
`BestEffort`). For a CALL the parsers read no inline rows, so the result set starts out
exhausted and its rows are never fetched (`Inline`, `ExhaustedAtOpen`). The `timeout`
of the DSN is granted to each of the handshake's four waits, so that Open is bounded
by four times its value (`OpenBounded`). db.PingContext does nothing on a connection the
pool has cached, as `conn.Ping` has no context parameter and is never called. Names of more than 32 bytes
are cut in the open request (`InField`). A text field without a size gets VARCHAR(256), as docs/GORM.md:184
announces, and a uint64 a BIGINT, which has no room for its upper half (`Excepted`). A field with a `type:` tag
gets VARCHAR(256) or, if it has a default, the text of the default as its column type, where docs/GORM.md:191
says the tag forces the type: `type:DOUBLE;default:0`, as in docs/GORM.md:61, makes a column of type 0
(`dataTypeFromTag`). `ColumnsHoldFields` does not hold for these fields, and names them as exceptions. A handshake
that fails after the redirect leaves its socket open (`FailedLeavesAtMostSocket` allows that one). On a connection that is out of step, some answers
take a parser that is not theirs past the end of its buffer (`Panic`); error answers never do.

### Fairness

`CasConn`: the caller's steps, each watcher and the timers of contexts are weakly fair
(the Go scheduler and runtime). Nothing is assumed of the server, of who cancels, or
of who calls, and a read of junk is not assumed to end. `Cursor`: the application keeps
calling Next and FETCH is answered. `Pool`: the driver runs unless its read may block (`Stuck`),
programs end what they have begun, lifetimes run out (README.md:201 has programs set one) and the pool's
cleaner runs; nothing is assumed of the server, nor that a read ends on a connection that lost its
step. Commit, Rollback and the methods of stmt have no deadline, so that nobody can promise `StaleLeaves` and
`JobsReturn` without a condition: both are stated for behaviours in which no connection is stuck for ever
(`NoneStuckForEver`). What they show is that nothing else is waited for: not a connection another job
has put back, not a Close, not a round trip that tidies up, and not an answer once the stream has ended. `Handshake`: the clock runs and the driver takes
its own steps, which are those that need no peer and giving up when the limit is
reached.

`open`, `args` and `bytes` do not check for deadlock: these functions return once. The `CasConn`
and `Cursor` configurations say in a comment where they do the same because a bound
ends the run.

## Proofs

All theorems hold for every value of the constants. They rest on the named assumptions
of the modules, which TLC evaluates in every run:

- `ConnAssumption`, `CursorAssumption`, `HandshakeAssumption`, `PoolAssumption`: the
  constants are of their kinds; "no context", "no job" and the like differ from what
  they stand beside, as nil differs from any pointer in the code.
- `InterpolateAssumption`: the arguments are of the kinds the model knows, and the text of a number is
  not empty and has no two signs side by side (they would open a comment).
- `WireAssumption`: every message is one (`IsMessage`), whatever its size.
- `DialectorAssumption`: an auto-increment field is an integer and an integer has at
  most 64 bits, as in Go; there may be two arguments.

### CasConn

- `TypeCorrect` : `Spec => []TypeOK`. Type correctness includes where a
  call has round trips left, so it is inductive as it stands; one lemma for each
  family of actions.
- `StaysInStep` : `Spec => []InStep`. `InStep` speaks of the states around a round trip
  only. The inductive invariant `OneInFlight` says what is in the socket during it: as
  long as no answer was abandoned, either the request alone, or the answer's units
  that were not read yet, with the id of the request made last.
- `StaleDeadlineNeedsCancel` : `Spec => []StaleDeadlineOnlyByCancel`. `DeadlineOwned`
  adds the states inside calls: a watcher about to set the deadline has a context that
  is done, and whenever no call with a context is on the socket, or its deferred reset
  has run, a deadline there has passed and some context is done. The formula does not say
  whose watcher set it.
- `NoAnswerLeftUnread` : `Spec => []OnlyOrphansLinger`. `Lingering`
  says that every request and answer in flight has the id of the call in progress or of one
  that gave up, and that the call in progress has one answer, in order. `Paired` adds,
  for a connection in step, that the server has exactly the current request and that
  its answer arrives whole while the server lives; the proofs about handles start from it.
- `HandlesStayValid`, `AutoCommitTellsTheTruth`, `NoHandleLost` : the
  three properties of run `calls`; the first includes that a FETCH names an open handle as long
  as every statement outlives the rows that share its handle (`Fetching`: the FETCH in progress is that of
  open rows). They need what the server's queue and the answers in
  flight may still do to the open handles and to the transaction. `Facts` has it, for a
  connection in step: the handles that statements and result sets hold are open and
  distinct, those about to be released are nobody's, an answer in flight is true when it
  is read (`Promise`), and auto-commit is on only if the server has no transaction.
  `InTime` says that reads time out and answers are given up only once a context is no longer
  live; until then (`Accounted`) an open handle is held, or is to be released by the
  call in progress, or comes with an answer that is not read yet.
- `Refines` : `Spec => ImplementsSession`, step by step.
  Every step of a call maps to `Take`, `Start`, `Begin`, `Send`, `Fail`, `Tidied`, `Refuse`,
  `Close` or a stutter, field by field; the server's to `Serve` or `Die`; watchers, contexts
  and the first half of an answer to stutters. It uses the invariants above (`Sound`), and
  `InCall`: a call with round trips left has not failed, and one that looks at its context
  again was let in by an open connection.

### Cursor

- `RowsTypeCorrect`, `BufferAlwaysMatches`, `NeverRepeatsOrSkips`,
  `CursorImplementsRowStream` : for any mix of result sets with handles of their own and
  shared ones. `IInv` adds to the window of each buffer which execution a handle that is
  not shared holds; the positions of a shared one are in order because FETCH names an
  absolute position, whatever execution answers it. Each step of `Cursor` is a step of
  `RowStream` for the result set it belongs to, or leaves the abstract variables alone. The
  run `two` shows that tuples of a shared handle are not promised.

### Pool

- `NoStatementTwice`, `SuccessIsDurable`, `OnlyCommitsAreDurable`, `ReturnedClean` : the safety
  properties of run `pool`, for any number of jobs, connections and tidy-ups. The inductive
  invariant `PoolInv` relates each job to the connection it has: connections are in states a
  `Session` can be in (`SessionsOK`); a taken connection has one user, and only its call
  keeps it busy (`Owned`); the session's call is the one the job is waiting for (`UsersOK`); a
  statement is not sent, or under way once, or executed, or lost (`Once`); who uses a connection
  that lost its step is tainted (`Tainting`); and on one that did not, auto-commit is off
  exactly during a Tx, and the server's transaction holds its work only (`Durability`).

### Handshake

- `OpenReady`, `FailureReleasesBroker`, `OpenTakesFourTimeouts` : `HInv` says for each
  step of `connect` which sockets are open (`Held`) and how late it and the limit in
  force can be (`Clocked`); `Configured` that the configuration is the DSN's from
  `parseDSN` on.

### Interpolate and Dialector

- `ScanTypeCorrect`, `PlaceholdersFound` (`DSpec => []ScanFindsPlaceholders`) : the scanner finds
  exactly the `?` that stand outside of literals, quoted names and comments, for statements
  of any length. What the statement means is defined by its tokens, without a scanner: a
  recursive function that goes from the start of a token to its end. The library states
  induction with an operator as a parameter, which the provers cannot take. Here it comes from
  a set instead: if n were missing from a set that contains 0 and with k also k + 1, adding
  one would map its members up to n one to one into those of them that are not 0
  (`SetInduction` in `SequenceLemmas`, by the pigeonhole theorem of `FiniteSetTheorems`). With it
  the recursive function exists, and tokens tile the text (`TokensTile`). The
  invariant `ScanInv` says where the scanner is: between two tokens, or inside the one literal,
  comment or name that its state names and that is not closed so far, with all
  placeholders before it found.
- `ArgumentsArrive` (`DSpec => []ArgsArriveWhole`) : whatever the arguments are, their literals are tokens
  of the text that is sent, read back as the arguments, and hold no placeholder. The lemmas in
  `InterpolateProofs` say that the tokens of a joined text are those of its parts if the first
  part closes all of its own and the seam opens no new one (`JoinedTokens`); that a statement cut at
  its placeholders falls into pieces whose tokens are the statement's (`CutTokens`,
  `PieceTokens`); that a text with its quotes and backslashes doubled is one token between
  quotes and reads back as it was (`QuotedToken`, `DoubledReadsBack`). The invariant `ArriveInv` says
  of the text built so far that it is as long as what was copied plus what the literals added
  (`Growth`), that every literal so far is in place, and that no placeholder is left; each
  `Splice` adds one piece and one literal to it (`SpliceStep`), `CopyRest` the last piece.
- `StatementsArrive` (`DSpec => []GormStatementsArrive`) : a statement that GORM writes with plain names
  has as many placeholders as values were bound, and the identifiers of the text that is sent
  are the names that were quoted, in their order, whatever the values are. What was written so
  far is `Built`: its tokens are closed, its placeholders stand by themselves, and it has the
  names and the number of placeholders asked for. Each part the dialector writes is `Built`
  (`BuiltName`: a quoted name is one token that reads back as the name, and stays plain when its
  quotes are doubled), and so are two such texts joined at an "x" (`BuiltJoined`, from
  `IdentifiersJoined` and `JoinedCount`). While values are put in, `NamesKept` says that the names in the
  text built and in what is not yet copied make up the statement's; a literal has no
  identifiers, and a statement cut at a placeholder keeps its own on both sides (`RestNames`).
- `ColumnsAlwaysHold` : `DSpec => []ColumnsHoldFields`, for every kind, size and precision, but for the
  three exceptions that `Excepted` names.

### Wire

- `WireTypeCorrect` : `Spec => []TypeOK`, for packets of any size. A parser takes lengths and counts
  from the packet, so that the offset stays inside it is no property of the offset alone.
  `WireType` adds that what is left to read are known reads (`SoundEntries`), each with a natural length
  and a type always read as one byte. `FollowsType` and `ThenType` say that whatever follows from a value
  is of that kind again, for every value the bytes can hold; `ProgramType` that the parsers are;
  `ReadingType` that a read returns what its width can hold.
- `ErrorsReported` : `Spec => []ErrorsReadTheSame`. An error is four bytes of CAS_INFO, -1, its code, its
  message and a zero, and every parser starts with CAS_INFO and one number (`ProgramStarts`). `Reporting`
  follows it through the five states in which a parser can be with it: at the start, at the -1 that
  it takes for its own first field, at the code, at the message, at the end. In each it says what is left of
  the packet (`Rest`), what was returned, and what is to be read; `After1` to `After4` are the steps
  between them. Codes survive the wire because `Int32` undoes `writeInt` for every number of 32 bits
  (`IntBack`).
- `AnswersArrive` : `Spec => []AnswersArriveWhole`, and `RequestsArrive` : `Spec => []RequestsArriveWhole`, for
  answers and requests of any size: any number of columns, results and rows, any list of bind
  parameters, names of any length. The invariant `Arriving` looks ahead: as long as the parser and the packet are in step, the
  reads that are left lead from here to `Home`, where every byte is used up and what was meant is what was
  returned. It is inductive because each step takes the first of those reads; that it holds at the start is the
  work. A path (`Leads`) goes from one situation to the next, a situation being the bytes left, the fields
  returned and what is known of the columns. The path is a function on 0..n, so that two of them are joined,
  and one is cut at its first step, by induction over n with the predicate made a set (`SetInduction`). `Reads`
  abstracts from what comes before and after: with the bytes w in front, these reads return these fields and
  leave the rest alone. Reads follow one another (`ReadsJoin`), a value puts its further reads in front
  (`ReadsValue`), and a loop over n entries reads the concatenation of what they read. From these come
  values, cells, rows, columns and results, and then one parser after the other. A request's
  arguments have no count in front: `Repeats` reads on until a limit is reached, and `Serves` says that
  a writer's arguments take the server from one of them to the next.
- The proof found a place where the model relied on the order of the arms of a CASE (`Fields` on a column
  type of the old protocol). TLA+ leaves that choice open and TLC takes the first arm; the arms now exclude
  each other.

### Only model-checked

- The liveness properties (`CancelReturns`, `WatchersExit`, `Drains`, `OpenReturns`, `StaleLeaves`,
  `JobsReturn`): the prover has no rules for fairness here.

## Not modelled

- `ColumnTypeDatabaseTypeName`: a table from type codes to names.
- Of the dialector: Initialize, the clause builders, DefaultValueOf and the migrator's
  loops, which hand over to GORM; GORM itself.
- The text of numbers, dates and hex digits, and the bits of floats.
- The client info exchange at the level of bytes: ten constant bytes and one integer.
- host, user and password of the DSN in `Handshake`, which carries them along; `Wire` has the names of
  the open request.
- A `?` that touches a quote or a dash becomes part of what it touches once replaced
  by a literal; `ArgsArriveWhole` is stated for placeholders that stand by themselves.
- How a server configured not to read backslash escapes sees the doubled backslashes.
- Pools of several connections: jobs meet on a connection, not across two; sql.Conn,
  prepared statements that database/sql re-prepares on other connections, and limits on
  idle connections.
- Lateness of Go's timers, and data races: the only data two goroutines share without
  a lock is the socket, whose methods are safe to use concurrently.

## Plan

1. `Cursor` on top of `CasConn`: FETCH errors and deadlines in the middle of a result.
