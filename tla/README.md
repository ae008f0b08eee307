# Verification of the pyfix FIX engine

pyfix is a FIX engine in Python on top of Twisted. It keeps two counterparties' streams of numbered
messages complete and in order, across gaps, reconnections and restarts. This directory holds TLA+
models of its protocol core, of the sessions of a program and of the order manager on top of it, the TLC
configurations that check them and the TLAPS proofs about them.

| File | Content |
|---|---|
| `FixSession.tla` | two sessions, their protocols, connections, databases and applications |
| `FixStream.tla` | abstract specification: what a session promises an application |
| `FixSessionMC.tla`, `Session*.cfg` | bounds for `FixSession`, five runs |
| `FixSessionProofs.tla` | proofs about `FixSession`: types, numbers that never run ahead |
| `FixSessionOrder.tla` | the same: delivery in order, across connections |
| `FixSessionStream.tla` | the same: nothing lost on one connection, and the refinement of `FixStream` |
| `FixTimers.tla`, `Timers*.cfg` | the delayed calls of one protocol and the clock, two runs |
| `FixTimersProofs.tla` | proofs about `FixTimers` |
| `FixParser.tla`, `FixParserMC.tla`, `Parser*.cfg` | the stream parser, two runs |
| `FixParserProofs.tla` | proofs about `FixParser` |
| `FixConfig.tla` | `makeConfig` and the configuration files of the examples |
| `FixManager.tla`, `FixManagerMC.tla`, `ManagerAll.cfg` | the programs of a host: configured sessions, lookup tables, ports, connectors, who is bound to whom; one run |
| `FixManagerProofs.tla` | proofs about `FixManager` |
| `OrderFlow.tla`, `OrderFlowMC.tla`, `OrdersAll.cfg` | the order manager through restarts, one run |
| `OrderFlowProofs.tla` | proofs about `OrderFlow` |
| `NumberBuffer.tla`, `NumberBufferMC.tla`, `NumberBuffer.cfg` | the index of the memory-mapped persister, one run |
| `NumberBufferProofs.tla` | proofs about `NumberBuffer` |
| `PROJECT.json` | components, runs, mutants, map to the source, findings, hazards, theorems |

Check a configuration with `tlc -config SessionRestart.cfg FixSessionMC`, a proof with
`tlapm FixTimersProofs.tla`.

## 1. The system

### 1.1 Components, their state and operations

* **Protocol** (`pyfix/FIXProtocol.py`). One object per TCP connection. State: the state object
  (AwaitingLogon, NormalMessageProcessing, GapProcessing, AwaitingLogout, LoggedOut), the fields of
  GapProcessing (`gaps`, `gap_queue`, `last_sequence`, `pending_application_messages`), three tables of
  delayed calls. Operations: `dataReceived` (parse, validate, hand to the state object), the session
  handlers (`on_logout`, `on_heartbeat`, `on_test_request`, `on_resend_request`), the timers, `_logoff`,
  `connectionMade`, `connectionLost`, `clean_up_and_die`.
* **Session** (`pyfix/Session.py`). One object per counterparty for the life of the process. State:
  `in_msg_seq_num`, `out_msg_seq_num`, the bound protocol, `want_to_be_logged_in`. Operations:
  `bind_protocol`, `release_protocol`, `compile_message` (number, persist), `persist_and_advance`,
  `logon`, `logoff`, `set_persister`.
* **Factories** (`pyfix/ProtocolFactories.py`). Build protocols; the initiator's binds its session at
  once, the acceptor's finds the session when the Logon is read.
* **Berkeley persister** (`pyfix/persistence/BerkeleyPersister.py`). Per session and day three record
  databases (in, out, ledger); `getNextSeq` is the last key plus one.
* **Parser** (`pyfix/FIXParser.py`). `feed` cuts messages out of chunks of text. State: `buf`,
  `triplets`, `bytes_in_buffer`. `SynchronousParser` parses one stored message.
* **Configuration** (`pyfix/FIXConfig.py`). `makeConfig` turns the dictionary of a file into session
  configurations or raises.
* **Session manager** (`pyfix/SessionFactory.py`). Tables from compids, ports and roles to sessions and
  factories; `addSession`, `getConnected`.
* **Application** (`pyfix/FIXApplication.py`). `on_message`, `set_protocol`, `set_state`, `recover` from
  the ledger.
* **Dictionary and validation** (`pyfix/FIXSpec.py`). Classes generated from XML; `Message.validate`.
* **Order management** (`core/OrderManager.py`, `util/OrderState.py`, `core/ClOrdIDGen.py`,
  `core/persistence.py`). Books of orders, executions, identifiers, a file of orders for recovery.
* **Others**: a memory-mapped persister nothing uses, a Perspective Broker view for remote monitoring,
  reference data, examples (multiplexer, FTP bridge), data files, generated HTML.

### 1.2 Interaction

One reactor thread per process runs callbacks to completion: bytes from a connection, a lost connection,
a timer, an application's call. A `dataReceived` goes through parser, validation, state object, session,
persister and application before the next callback starts. The two processes run side by side and meet
in the connection only. An exception leaving `dataReceived` makes Twisted drop the connection, which
calls `connectionLost` and so `clean_up_and_die`; what was assigned before it stays. An exception in a
delayed call is logged and nothing else. `transport.loseConnection` flushes and stops reading;
`callLater(0, ...)` runs on the next turn, other callbacks may come first.

### 1.3 What is hard

Gaps on both sides at once; messages put aside during a gap and fed back afterwards; a connection lost
between two steps of a recovery; a crash between two calls of one callback; a Logon read from a
connection the other side has given up; clean-up reached from several callbacks in any order; three
chained timers that jitter; chunks cut anywhere; two connectors for one session; programs started,
logged off, added to and ended while Logons are on their way; an order sent and not yet written when its
program ends. `PROJECT.json` lists each hazard at its line, with the
properties that cover it or why none does yet.

### 1.4 What makes each part correct

* Protocol and session: each application gets the other's stored messages in order, once, without holes;
  numbers never run ahead of the peer; gaps close; a logoff ends; persistence never contradicts the
  counters.
* Timers: a silent peer is noticed in bounded time, a live one is kept, a dead protocol leaves nothing.
* Parser: the same messages for every chunking, every byte accounted for.
* Manager: each table knows the same sessions, one per pair of compids; a connection joins two sessions
  that name each other; a session logged off stays off; a wanted initiator gets through.
* Orders: both books agree, every fill is told, every order written is known again after a restart and
  none is sent twice. Memory-mapped index: its length is what was written.
* Validation: accepted exactly when well-formed.

## 2. How the source was read

The repository is half way through a migration (Python 2 and 3, camel case and snake case) and does not
run as it stands under either. The models take the evident meaning of Python constructs (`has_key`,
`items()` returning a list, `sort` on it), and take names as they are: a misspelled attribute or keyword
raises where it is evaluated, and the exception has the effect described in 1.2. Where this matters:

* `session.inDb` (FIXProtocol 193): a duplicate in the normal state raises. `Raise` in `OnMsgNormal`.
* `self.session_wanttobelogged` (ProtocolFactories 63): an initiator never reconnects by itself.
  `Connect` is the user calling `InitiatorFactory.logon`, without fairness; in `FixManager` a connector
  that had a connection ends as "lost".
* `Session.logon` (77-82) raises behind the flag, for either role: `AllowLogon` of both modules.
* `addSession` of an acceptor always raises: the port was just put into the `defaultdict` (76), so the
  test for a new one (82) fails, and the factory is missing, or `add_session` gets one argument for two.
  What was assigned before stays: `AddSession`.
* The two JavaScript configurations say `defaults` for `default`: `makeConfig` raises on both
  (`ChunkPasses`).
* `OrderState.orderState` is unset before the first fill: `isTerminal` raises. `unset` in `OrderFlow`.
* `self.factory` of an acceptor's session, read in `Session.logon` after the flag was set: `AllowLogon`.
* `want_to_be_logged_on` (FIXProtocol 476): `on_logout` leaves `want` alone.
* `protocol.loggedOutState`, and a header that is not there, in the answer to an unknown session
  (100-108): `RefuseLogon` is an exception and writes nothing.

## 3. The models

### 3.1 `FixSession`

Two sessions, `Initiator` and `Acceptor`. State and code:

| Variable | Code |
|---|---|
| `state`, `conn`, `closing` | state object, which connection, pending `callLater(0, clean_up_and_die)` |
| `inSeq`, `inLast` | `in_msg_seq_num`, last key of `in_db` |
| `outLog[p][n]` | what was compiled under number n: stored application message, stored session message, or not stored. `out_msg_seq_num` is its length plus one |
| `miss`, `last`, `queue`, `pending`, `replay` | fields of GapProcessing, and the messages it is feeding back |
| `todo` | what is left of the running callback |
| `net`, `hello` | messages written and not read; Logons the acceptor has not read |
| `delivered` | history: numbers given to `app.on_message` |
| `used` | history: how often each environment event happened, for the bounds |

A callback is one action up to the first point where another process could see a difference, and a list
of tasks (`Play`, `Open`, `Persist`, `Drain`, `Drained`, `Replay`) after it. No other callback of the
same process starts while tasks are left; the peer's may, and a `Crash` may fall between any two. Reading a
Logon is one action, with what follows its reply; its one point in between at which a crash makes a difference,
the acceptor's reply written and the Logon not yet persisted, is a case of `Crash` (`DieAnswering`). Actions
and code: `Deliver` is `dataReceived` for one message in each state object; `Connect` is
`InitiatorFactory.logon`, `buildProtocol` and `connectionMade`; `ReadLogon` is
`AcceptorAwaitingLogon.on_msg`; `ConnectionLost`, `Drop`, `CleanUp` are the three ways into
`clean_up_and_die`; `SendHeartbeat`, `Logoff`, `AllowLogon` as named; `Send`, `Skip`, `Hole` are the three
kinds of order of `testIntermittentGaps.py` (sent; stored but not sent; neither); `Crash` and `NextDay`
are a restart the same day and on a later one.

Abstracted: a message is its type, number, duplicate flag and one argument. The time stamps, texts and
fields are left out, as are TestRequests (they are numbered like Heartbeats) and SequenceReset-Reset (the
code asserts it away and never sends it). All messages pass validation. Each `dataReceived` brings one
message; the parser has its own module. `Die` always releases the session; the test request that times out,
after which it does not, is in `FixTimers`. Only business messages are recorded in `delivered`. `Wire` loses
what is written to a connection its peer has given up.

`FixStream` is the abstract specification: `sent` grows, `got` takes the first stored application message
that was not given yet. `BothStreams` instantiates it once per direction (`sent <- outLog`,
`got <- delivered`) and is checked as a property of `FixSession`.

### 3.2 `FixTimers`

One protocol, its pending calls as ticks left, and the reactor's clock: `Tick` is not enabled while a call
is due. `beat`, `checks`, `acks` are `send_heartbeat_call`, `heartbeat_checks`, `test_request_checks`;
`fired` says that the last holds a call that was called, as `check_test_request_acknowledged` leaves it
there. `CancelAndRelease` is the loop of `clean_up_and_die`: with `fired` it stops at that call, having
cancelled some of `acks` (dictionary order is not fixed). The peer, gaps and the network are the
environment; `peer` is chosen once: `any`, `answers` (test requests within `AnswerWithin`, no gaps) or
`regular` (also Heartbeats within `BeatEvery`). `bound` starts either way, so one model covers initiator
and acceptor.

`FixSession` and `FixTimers` divide the protocol: the first has the numbering and leaves the time out (a
heartbeat may be sent at any moment, a connection may drop at any moment), the second has the time and
leaves the numbers out (a gap may open and fill at any moment).

### 3.3 `FixParser`

`Feed(n)` is `FIXParser.feed` with a chunk of n bytes, for every n. A field is two bytes, so that chunks
also end inside a field and between a value and its SOH. What the parser holds is a stretch of the stream
and is kept as positions. A parser that raised is not fed again (its connection drops); so "bad" may stand for a
field without "=", one with an unknown tag and an unknown message type, which raise different exceptions and
leave the same behind. `Messages` lists the
messages by the positions of their CheckSums, `InOrder` being the order in which the loop meets them.

`ChunksDoNotMatter` compares what was handed out with `Meant`, which reads the messages off the stream and
knows nothing of chunks. `EveryByteAccounted` counts fields: those in messages handed out (`Given`, one for
each message that holds it), those still held, those discarded.

### 3.4 `FixConfig` and `FixManager`

`FixConfig` has `makeConfig` as two operators: `Accepts` (the loop's exceptions) and `MakeConfig` (what it
returns), over dictionaries as records. The example files are constants of it: the two JavaScript files
whole, the YAML files with as many of their clients, sources and sinks as asked for.

`FixManager` has several programs on one host, each with a configuration file:

| Variable | Code |
|---|---|
| `status` | "off"; "built", the `SessionManager` exists; "running", after `getConnected`; "refused", an exception ended it |
| `made` | the `Session` objects of a program, by number, with their configuration |
| `sessionByTuple`, `acceptorsByTuple`, `initiatorsByTuple`, `acceptorsByPort` | the tables, as sets of rows |
| `initiatorFactories`, `acceptorFactories` | the sessions with a factory; the ports with one (its `sessionMap` is the table of the port) |
| `listening` | who listens at which port |
| `want`, `protocol` | `want_to_be_logged_in`; the connector whose end the session is bound to, 0 for none |
| `continueTrying` | of the `InitiatorFactory`, a `ReconnectingClientFactory` |
| `dials` | connectors, and the connection each made: the state of the near (initiator's) and far end |
| `addFailed`, `doubled`, `used`, `events` | history and bounds |

`Start` is the constructor, `GetConnected`, `AddSession`, `FactoryLogon`, `AllowLogon` and `Logoff` as
named, each called by somebody; `Connect` is a connection made and `buildProtocol`, which fails for a bound
session, `Refused` is `clientConnectionFailed`, `Retry` is Twisted's delayed call; `ReadLogon` is the
acceptor's lookup (`SessionFor`, that is `get_session_for_message`) and bind; `CloseNear` and `CloseFar`
are the two ends of a connection closing in either order, which releases the session except after a test
request that timed out (the session then stays bound to a dead protocol until its program ends, and refuses
every other connection); `Exit` is the end of a program. `StopTrying` is Twisted's: the factory knows one
connector, so that of a session dialled twice another attempt may go on; which one it knows is left open, as is
whether the call it would cancel was called already (then it raises). What happens on
a bound connection is `FixSession`'s: it appears here only as a Logout on its way (`leaving`) or a fault.
Abstracted: hosts (there is one), retry delays, the sections for other services in the files.

`EventuallyLoggedOn` allows that the session had a connection and lost it, since nothing dials it again.

### 3.5 `OrderFlow`

`ordersByClOrdID`, `openOrdersByClOrdID`, `numOrders`, `previousIds` are the attributes of that name;
`file` is the order file as the list of the clOrdIDs written; `sent` is what went to the market, and `told`
what the fill listener was told. `OnOrder`, `OnExecution` (with `OrderState.apply` and `isTerminal`) and
`OnRecoveredOrder` are the three handlers. The application, the sender of an order and the file may raise
at their place in `onOrder` and `onExecution`, and what was done before stays: histories (`notSent`,
`notRelayed`) name these orders. `CrashInOnOrder` is a crash between sending and writing; `Crash` any other.
Abstracted: prices, the average price, the fields of the records. Assumed of the data: an execution that is no
fill carries no shares, since `onExecution` tells the listener whatever `lastShares` it finds while
`OrderState.apply` adds those of fills. An execution that matches no open order
changes nothing.

### 3.6 `NumberBuffer`

A file of `capacity` numbers, of which it only matters which are zero: `allocateMmap` leaves the last
number of a new file non-zero; opening a file that exists is not modelled. `SetItem` appends; `Length`, `Bisect`, `Return` are `__len__`, one step per
round of its loop.

## 4. What is checked

Every property has a mutant in `PROJECT.json`: a plausible mistake in a mapped definition that makes TLC
report the property under the same configuration.

| Run | Shows | Bounds |
|---|---|---|
| `session_one_connection` | `NothingLost`, `NeverAhead`, and `BothStreams`: on one connection the protocol implements the abstract stream | 2 sent, 2 skipped, 1 hole, 1 heartbeat per run; 318 000 states |
| `session_restart` | three connections, an order not persisted, logout, network failure, late Logons, crash: `InOrderUnlessLowered`, `PersistAssertion`, `WasSent`, `AheadOfForgottenOnly`, and `OnlyLateLogonLowers` | one order of each kind, two late Logons, one of each other event; 1.3 million states |
| `session_live` | `GapHeals`, `Arrives` under fairness, both applications sending, a side that starts a new day | 89 000 states |
| `session_logoff_hangs` | counterexample: a logoff that never ends | |
| `session_loss_on_reconnect` | counterexample: messages lost when a gap's connection goes | |
| `timers_all` | six properties of the delayed calls | interval 4, jitter 1, wait 10 ticks; 650 000 states |
| `timers_ghosts` | counterexample: calls left after a test request timed out | |
| `parser_clean` | every cut of two or three messages behind a truncated one | 85 streams of up to 14 fields |
| `parser_sync` | counterexample: stray fields join the next message | |
| `manager_all` | `RightCounterparty`, `OneSessionPerIdentity`, `TablesAgree`, `LoggedOffStaysOff`, and `EventuallyLoggedOn` under fairness, for four sets of files | three programs, up to three sessions each, two events of somebody or of the network; 175 000 states |
| `orders_all` | `BooksAgree`, `FillsTold`, `OpenWasSent`, `SentIsKnown`, `RecoveryStopsAtReuse`, `SentAgain` | two clOrdIDs, three orders, one share, two restarts; 310 000 states |
| `number_buffer` | `LenCounts`, `Halves`, and `LenReturns` under fairness | every capacity from 1 to 17; 1 900 states |

**Bounds.** Two skipped numbers and two sent messages give gaps of length two, a gap that opens again
while earlier messages are replayed, queues with two entries and messages put aside behind them; the hole
gives a gap fill next to a resend. One heartbeat and the session messages give both sides numbers without
application messages, so gap fills span several. `session_restart` has three connections, of which two may be
given up with their Logons unread: read one after the other they are the case in which the assertion of
`persist_and_advance` fails for a Logon. Its hole is what a crash may forget: compiled last, covered by a gap
fill, and used again after the restart (`NeverAhead` is violated there, and `PersistAssertion` without its
exception). A stored message is resent there
because its connection was lost, before or after its delivery.
The constraint `HoleOrLate` keeps the run within minutes: an order that is not persisted and a late Logon do
not meet in one behaviour, as each is there for a case of its own. Orders skipped on purpose are in `session_one_connection`. The intervals of `timers_all` let heartbeat, check and test request overlap in every order,
and jitter stays below half the interval, beyond which `NoNeedlessTest` is false. In `session_live` a new
day stands for any way in which one side's numbers fall behind. In `manager_all` the four setups are a pair of
single sessions (refused), a pair of multi-session programs, two programs that want one port, and the
multiplexer between its neighbours; two events are enough for a session added at both sides, for a second dial
and a logoff, or for a fault and a restart. In `orders_all` two clOrdIDs and three orders let one be used again
after its order was filled, and two restarts let the second recovery read what the first left; the two
clOrdIDs are interchangeable (symmetry, no liveness). `number_buffer` has odd, even and powers of two.

**Fairness.** `System(p)` (handle what was received or lost, continue a callback, run `callLater(0)`) and
`ReadLogon` are weakly fair: the reactor serves ready events. Nothing is assumed of users, applications,
the heartbeat's moment or the network. In `FixManager`, `Settle` (read a Logon, notice that the other end is
gone) is weakly fair for the same reason, and `Attempt(s)`, for each session that may be an initiator, since
Twisted's `ReconnectingClientFactory` retries with a bounded delay and without giving up; nothing is assumed of
starting, ending, logging on and off. In `NumberBuffer` a call of `__len__` goes on.

**Deadlock** is not checked in the session and parser runs: two sides that are logged out, with the budget
spent, or a stream that has been read, have nothing left to do; nor in `manager_all` and `orders_all`, where
programs that are refused or down and a spent budget end a behaviour. It is checked in the timer runs and in
`number_buffer`.

**What the counterexamples say of the code.** The findings in `PROJECT.json` quote the lines. In short: a
gap does not survive its connection, since `in_msg_seq_num` is moved past it when it opens; an application
gets messages before they are persisted; AwaitingLogout answers no resend request; a timed-out test
request breaks clean-up and leaves the session bound; the parser looks for the preamble only at the start
of what it holds. That an application may be given a message twice after a crash (`InOrder` fails at once under
`session_restart`'s bounds) follows from the second of these and is no finding of its own. Two more things follow from reading the code and are cases that the properties name:
a number compiled with `persist=False` at the end of the log is forgotten by a crash and used again, though the
peer may have taken it as covered by a gap fill (`AheadOfForgottenOnly` says by how much the peer is ahead at
most); and the assertion of `persist_and_advance` (`Session.py` 131) fails for the second of two Logons read
late, and after a new day of one side only (`PersistAssertion` names the one and excludes the other). Hence the
conditions in the passing properties: `InOrderUnlessLowered` excludes restarts and late Logons,
`OnlyLateLogonLowers` runs in which something was forgotten or a new day began, `CleanUnlessTimedOut` excludes that timeout, `NothingLost` is for one connection.

## 5. What is proved

For all values of the constants, from the named assumptions of the modules (two distinct peers, limits
that are numbers; positive intervals and delays up to `MaxDelay`; files that fit and name each session once;
capacities above zero):

* `FixSessionProofs!TypeCorrect`: `Spec => []TypeOK`. One lemma per operator (`InSequenceType`,
  `OnMsgGapType`, ...), then one step per action. `TypeOK` is inductive.
* `FixSessionProofs!NeverAheadWithoutRestart` and `WasSentWithoutRestart`: `NeverAhead` and `WasSent` as long as
  `NoRestart`. Neither is inductive: a message on its way, put aside or owed by the running callback raises
  `in_msg_seq_num` and reaches the application later. `Bounded` says that all of these, in `net`, `hello`,
  `pending`, `replay`, `queue`, `todo`, carry numbers the peer has compiled, and those of application messages
  under which it stored one; the logs only grow without a restart, so what fits keeps fitting.
* `FixSessionOrder!InOrderWithoutRestart` and `PersistAssertionHolds`: `InOrderUnlessLowered`, and
  `PersistAssertion` (behind a handler and for Logons) as long as `Calm` (no restart, no late Logon). The invariant is `Ordered`, on top of `Bounded`.
  Its receiver half, `Core`: the tasks of a callback come in the order play, move, drain, replay and name numbers
  that fit `in_msg_seq_num`; what waits in `pending` lies below what waits in `replay`; all that was delivered lies
  below what the queue, the gaps and the next message can still give. Its wire half: a message that is no
  duplicate is ahead of everything its receiver holds (`FreshAhead`) and of what is in front of it (`Line`), a
  Logon not read yet is ahead of all that (`HelloAhead`), and nothing is written to an acceptor before it has read
  the Logon of that connection (`Connections`, `Idle`). A step of one peer is split into what it does to
  its own side (`Onward`) and to the rest (`Around`). A new number is ahead of everything by `Bounded`.
* `FixSessionStream!NothingLostOnOneConnection` and `StreamsOnOneConnection`: `NothingLost` as long as `OneLink`
  (`Calm`, and at most one connection was made), and `BothStreams` if that is always so: a refinement, step by
  step. The invariant is one `Side` per direction, on top of `Ordered`. Every number below `in_msg_seq_num`
  that stands for a stored application message was given, is recovered and queued, or is still missing and known
  to be (`Whole`, or `Over` once the side is logged out). What is on the wire is true (`Truthful`): a gap fill hides
  no stored message, no session message has the number of one. And resends lead up to what follows them: what a
  receiver lacks below a duplicate is in the duplicates in front of it (`Led`), what it lacks below the rest of
  a playback is on the wire (`Playing`), and nobody asks for less than it lacks (`Asked`). So the next duplicate
  is the next number missing, and the queue drains in the order of the stream.
* `FixTimersProofs!SilenceIsBounded`, `CleanUpIsComplete`, `TheDeadStayDead`, `TypeCorrect`: from one inductive
  invariant. Its heart is `Watched`: in the normal state, clean-up is pending, or the next heartbeat, some
  check, or some test request is due early enough for what must follow it. Each of the three calls hands
  over to the next; a Heartbeat resets the silence.
* `FixTimersProofs!AnsweringPeerKept`, if `AnswerWithin < AckWait`, and `NoTestForARegularPeer`, if
  `BeatEvery < CheckWait`: the two conditions on a peer under which the timers leave it alone, which
  `TimersAll.cfg` meets. `Live` says that an unanswered test request of a peer that answers is younger than the
  time it takes to answer, `Regular` that no check has been
  pending for longer than the peer has been quiet.
* `FixParserProofs!TypeCorrect`, `CountSuffices`, `BytesAccounted`: from `Kept` (positions and types) and
  `Placed` (the fields in front of what is held are those handed out and those discarded). Discarding takes a
  byte too few per field off `bytes_in_buffer`, so the count errs upwards only: `Placed` bounds it from below.
  That a message takes its fields out of the count exactly once needs cardinalities of sets of pairs and an
  induction over sets (`SetInduction`, from the well-foundedness of the naturals).
* `FixParserProofs!ChunkingIsInvisible`: `ChunksDoNotMatter` for any streams that satisfy `BackToBack`: behind the
  first preamble, a CheckSum is followed by the next preamble. The runs' streams do (`CleanAssumption`);
  `parser_sync` shows that stray fields between two messages do make a difference. The invariant `Exact`
  says that the parser stands in front of any preamble or right behind a complete message (`Fresh`), has handed
  out what is complete in front of that (`MeantGrows`), and that nothing complete waits: below `min_size` bytes,
  or without "10=" in sight, there is no whole message (`WaitingIsIncomplete`).
* `FixManagerProofs!TypeCorrect`, `IdentitiesAreUnique`, `TablesAlwaysAgree`, `NoStrangerIsBound`,
  `LogoffIsFinal`: from `ProgramInv` (types, each table keyed by what it is keyed by, a row refers to the
  session with that configuration, nothing before the start) and `ConnectionInv` (`Bound`: a session is bound
  to a connector of its own, or to the far end of one whose compids are its own flipped; `OneAcceptor` per
  connection; `OneDial` going on, and `Wanted` and bound to nothing (`Quiet`) while it tries, for a session that
  is not in `doubled`). An end that closed may still have its session bound to it, after a test request timed out.
  `RightCounterparty` alone says nothing of an initiator whose connection is bound at one end only.
* `OrderFlowProofs`: every property of `orders_all`. Besides the
  properties it needs `Written` (what is in the file was sent, and is there twice only if its clOrdID was used
  again) and `Known` (while recovery runs, the books are the records it has read; when the program is up, every
  record is in them or was filled since).
* `NumberBufferProofs!TypeCorrect`, `LenIsCount`, `BracketHalves`, for every capacity: the numbers below `count` and the last one
  are those that are not zero, and the bracket keeps its ends on either side of `count`.

Model-checked only:

* Liveness: `GapHeals`, `Arrives`, `EventuallyLoggedOn`, `LenReturns`. The prover does not reason about fairness.
  Of `LenReturns` the variant is proved: `Halves` makes the bracket smaller at every turn.
* `OnlyLateLogonLowers`. The invariant `Ordered` carries the order of delivery, which a late Logon breaks, so it
  says nothing of the steps after one.
* `PersistAssertion` and `AheadOfForgottenOnly` through a crash or a late Logon.
* That the streams of `parser_clean` are `BackToBack` (`CleanAssumption`, evaluated by TLC).

## 6. Plan

Done: the modules and proofs above. Next, in this order:

1. **Invalid messages in `FixSession`**: `on_msg` 704-743. A message that fails validation is answered and
   then raises; its playback raises at the sender too. Abstractly, a flag on messages and log entries.
   Property: a poisoned message does not stop the stream.
2. **`FixRecovery`**: SynchronousParser and the ledger: what a restart feeds to the application.
3. **`FixValidate`**: `Message.validate` as an operator over small dictionaries against a declarative
   definition; enumerated flags.
4. **`Multiplexer`**: two sessions joined by the example application.
5. **Proofs**: `OnlyLateLogonLowers` without restarts, from the part of `Ordered` that survives a late Logon.

Composition: `FixSession` stays the centre; 1 and 4 extend or instantiate it, 2 refines its `Crash`, and
`FixManager` says who the two peers of a `FixSession` are: its `RightCounterparty` is what `FixSession` assumes,
and its `leaving` and faults are `FixSession`'s `Logoff` and `Drop`. `OrderFlow` sits on what `delivered` promises.

## 7. Not modelled

Perspective, reference data, business message records, data files, generated documentation and the
JavaScript of its tool, and the examples other than the multiplexer: input and output or plain data, no
protocol state. The records of the order file are not modelled either: as they stand, writing one raises for
any clOrdID that is a string (`core/persistence.py` 100) and reading one for want of `get_field` (143), so that
`OrderFlow` has them as a step that may raise. `PROJECT.json` gives the reason for each component.

Seen in the source and outside every model: `MMAPPersister` reads `globalIdx`, which it never makes
(`MMapPersister.py` 170); `ClOrdIDGen` and `OrderGenerator` read `self.ft` and `self.df`, which do not exist;
`set_persister` divides by the time it took (`Session.py` 117); `PossDupFlag` and `GapFillFlag` are compared
as non-empty, so an explicit "N" counts as set (`FIXProtocol.py` 190); the answer to a Logon of an unknown
session is built from a reply that is not there (103); `getConnected` leaves the ports it has opened when one
of them is taken (`SessionFactory.py` 98, in `FixManager` the program then ends).
