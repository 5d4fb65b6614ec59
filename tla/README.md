# A TLA+ model of the go-otel-audit client

`go-otel-audit` sends security audit records from a program to an audit agent on
the same host. A program makes one `audit.Client`; `Send` puts a record on a
bounded queue and returns at once, and goroutines of the client write it to the
agent, reconnect when the connection breaks, and give up for good ("the client is
dead") when reconnecting cannot work. This directory models that client, what
becomes of its records in memory and on the wire, the connections of package `conn`
and the server of the repository's tests; checks the models with TLC, and proves with
TLAPS, for every value of the constants, all that TLC checks but liveness. Line numbers are
those of the source; `PROJECT.json` maps every definition to the lines it stands for.

## The system

### Parts, their state and their operations

| Part | State | Operations |
|---|---|---|
| Client (`audit/audit.go`) | `sendCh` (capacity `queueSize`), `notifier` (capacity 2), `clientDead` | `New`, `Send`, `Notify` |
| Connection manager (`audit/audit.go`) | the sender it holds; which function its goroutine is in | `startConnManager`, `launchManager`, `startDeferred`, `deferredConnect`, `manageSender`, `reconnect`, `newSender`, `sendNotifyDead` |
| Message sender (`audit/msgsender.go`) | connection, heartbeat ticker, the message in hand; the channel `start` returns | `start`, `sender`, `serviceMsg`, `write` |
| Closers (`audit/audit.go`) | the group of `closeAuditConn` goroutines | `closeAuditConn` |
| Connections (`audit/conn`, `conn/internal/writer`) | a socket; the package-wide `ClosePool` | `NewDomainSocket`, `NewTCPConn`, `NewNoOP`, `Write`, `CloseSend` |
| Records (`audit/msgs/msgs.go`) | the record's slices and maps, shared between copies of a `Msg` | `New`, `Validate`, `Clone`, `MarshalMsgpack`/`marshalPrep`, `Addr`, the enumerations' text |
| Metrics (`audit/metrics.go`) | counters | `Add` |
| Test server (`internal/server`) | listener, one reader per connection | `accept`, `readMsgs`, `Close` |
| Host information | none | `kernelVer`, `version.Semantic` |

### How they interact

* The user's goroutines share `sendCh`, `clientDead` and `notifier` with the
  client's own. Nothing is locked: `Send` loads the flag, validates, then does a
  non-blocking put.
* One manager goroutine (`manageSender`, or `deferredConnect` and then
  `manageSender`) starts one sender goroutine at a time, waits for its result and
  replaces it through `reconnect`. With `WithDeferredConnection` a *no-op* sender
  drains the queue until the first connection, and must be gone before the real
  sender starts: both receive from `sendCh`.
* A sender whose `Write` fails puts the record back on `sendCh`, or drops it when
  the queue is full, notifies, and ends.
* Manager, senders and closers put on `notifier` and drop the notice when it is
  full; only the notice of death evicts the oldest.
* A `Msg` is copied on its way (call, queue, requeue, `Write`), its slices' backing
  arrays are not: `marshalPrep` sorts and compacts them in place.
* `newSender` calls `create`, which is `NewDomainSocket` or `NewTCPConn`: a look at
  the process-wide `ClosePool`, then a dial. `CloseSend` gives the close to that pool.
* The test server's readers each decode one connection and share one channel of
  capacity one. A record with the access level `resetConn` makes a reader close its
  connection.

### What is hard, and what makes each part correct

* **Client and senders**: records move between four places (queue, sender's hand,
  sent, dropped) by steps of different goroutines. Correct when every accepted record is
  at exactly one of them (`NoRecordLost`, `AtOnePlace`), one goroutine at most receives
  (`OneConsumer`), and each is settled in the end (`AcceptedIsSettled`).
* **Manager**: two callers of `reconnect`, two ways to fail, a hand-over between
  senders. Correct when it never ends leaving a client that looks alive
  (`NobodyServesMeansDead`), a dead client stays dead (`DeadStaysDead`) and a
  deferred start ends (`DeferredIsUpgraded`).
* **Notice of death**: an eviction loop that races closers and the user. Correct when the
  notice is there as soon as `Send` says the client is dead (`DeathIsReported`) and
  the loop ends (`DeathCompletes`).
* **Heartbeats**: only after the first record of a connection (`RecordThenHeartbeat`).
* **Closers**: a bound on connections that hang in `CloseSend`
  (`NoRetryWhileClosing`, and what the comments promise: `UnclosedConnsStopRetries`).
* **Marshalling**: rewrites memory others may still read. Correct when the wire
  has the sorted set of what was validated (`WireIsCompact`, `WireIsFaithful`,
  `RetryIsFaithful`) and a cloned template is untouched (`TemplateIsIsolated`).
  A sort must not run while another goroutine reads the array, unless the user
  shared it (`CloneIsRaceFree`).
* **Validation and text**: enumerations become text and come back by way of index
  tables, a header byte dropped without a look, quotes trimmed. Correct when the reader
  gets what was sent (`TripIsFaithful`), can tell records from heartbeats
  (`OnlyRecordsValidate`), and of the records `Validate` accepts panics on none but those
  that have no form it can read (`OnlyFatalRecordsPanic`).
* **Connections**: a limit on closes under way that must only delay (`RefusalsEnd`).
* **Test server**: readers that wait for one another, a listener that closes, resets
  with messages in flight. Correct when a connection's records stay whole and in order
  (`InOrder`) and accepted connections stay readable (`AcceptedStayReadable`).
* **Client and agent together**: a failed `Write` may have sent a part; the record goes
  out again on another connection. Correct when the agent sees it once
  (`AtMostOnce`), metrics and agent agree (`CountersAreTrue`), what was sent is lost only
  with a connection the agent gave up (`SentArrives`), the agent sees a record first
  (`AgentSeesRecordFirst`), and the client outlives any behaviour of the agent
  (`OutlivesTheAgent`).
* **Cloning**: correct when a queued clone shares nothing with what the user still
  edits (`QueuedIsFrozen`, `EditsStayPut`), and starts equal (`CloneIsEqual`).

`PROJECT.json` lists the hazards, each at its line with the properties about it.

## The modules

| Module | What it is |
|---|---|
| `AuditLog` | What the client promises about the fate of a record, without goroutines or connections. |
| `AuditClient` | Client, manager, senders, closers and connections: the code of `audit.go` and `msgsender.go`. |
| `MCAuditClient` | Constants of its TLC runs. |
| `AuditClientProofs` | Its theorems. |
| `AuditClientRefinement` | The proof that `AuditClient` implements `AuditLog`. |
| `RecordWire` | Who shares a record's slices, what `marshalPrep` makes of them, and who reads them meanwhile. |
| `MCRecordWire` | Constants of its TLC runs. |
| `RecordWireProofs` | Its theorems. |
| `RecordClone` | Which objects a `Clone()` has for itself, and what edits of the template do to clones in the queue. |
| `MCRecordClone` | Constants of its TLC run. |
| `RecordCloneProofs` | Its theorems. |
| `RecordTrip` | One record through `Send`, `Validate`, marshalling and the server's reading: enumerations, address, every rule. |
| `MCRecordTrip` | The messages of its TLC run. |
| `RecordTripProofs` | Its theorems. |
| `AuditConn` | Package `conn` and its writer: close pool, dial, `Write`, `CloseSend`; the kernel's socket. |
| `AuditServer` | The test server on `AuditConn`'s connections. |
| `MCAuditServer` | Constants of its TLC run. |
| `AuditServerProofs` | Its theorems. |
| `EndToEnd` | `AuditClient` joined with `AuditServer`. |
| `MCEndToEnd` | Constants of its TLC run. |
| `EndToEndProofs` | Its theorems. |

`EndToEnd` extends `AuditClient` and instantiates `AuditServer`, which extends
`AuditConn`; `AuditClient` has its refinement of `AuditLog`. The record modules stand
alone: each looks at one aspect of a record whose fate is `AuditClient`'s.
`EndToEndProofs` extends `AuditClientRefinement` and instantiates `AuditServerProofs`:
what is proved of each side is used of the two joined.

### AuditClient

One action is one step of one goroutine between two operations on shared state.
`mgr` is the program counter of `New` and then of the manager; `pc[k]` that of the
goroutine of sender `k` (`"noop"` or `"real"`; there is never a second of a kind).

| Action | Code |
|---|---|
| `StartConnManager` | `startConnManager` with the first `createSender`, and what it leads to |
| `DeferredConnect` | `deferredConnect` to the start of the no-op sender |
| `ReconnectAttempt`, `ReconnectDial`, `ReconnectError` | one attempt of `reconnect`'s backoff: the guard on the closers, `createSender`, the notice of an error |
| `PutDeadNotice`, `EvictOldest`, `StoreDead` | `sendNotifyDead`'s `TryPut` and `TryGet`, then `clientDead.Store(true)` |
| `CancelNoop`, `AwaitNoop` | `cancelNoop()`, `<-noopDone` and the hand-over |
| `SenderLost` | `manageSender` receives what its sender returned |
| `SenderLoop`, `SelectDone`, `SelectMsg`, `SelectTick` | `sender`'s test of its context and the three cases of `serviceMsg`'s `select` |
| `WriteOk`, `WriteFails`, `SenderFails` | `write`: success with its count and what `serviceMsg` does next; failure with its requeue; the notice and the end of the goroutine |
| `TickFires` | the ticker (channel of one) |
| `CloserDone` | a `closeAuditConn` goroutine; it may also never come back |
| `SendChecks`, `SendPuts` | `Send` up to its `TryPut`, and the `TryPut` |
| `ReadNotify` | the user receives from `Notify()` |

Data are reduced to what the properties tell apart. A record is a model value, one
for each call of `Send`, with its type, whether it validates and whether msgpack can
encode it as constants. A notice is its kind. A connection is a number, used in
order. History variables (`deadSeen`, `wire`, the state `"abandoned"`) record what the
code does not keep. `broken` tells an I/O failure from an encoding failure.

What tests alone can do is left out: `testing.Testing()` is false, so the only context
that is ever cancelled is the no-op sender's, and `create` is a real one. The no-op
sender's start and the `Once` task that runs it cannot fail. The three
construction checks of `New` (`uuid.Nil`, kernel version, metrics) and options
returning an error make `New` return before any state exists; they are the
state `"failed"` as far as anything else can see.

### RecordWire

`heap` maps an owner (a record or the template) to the arrays it allocated, `view` a
record to the owner of the arrays its slices point to. `SendOwn`, `SendClone` and
`SendCopy` are the ways a user fills a record: slices of its own, `Clone()`,
a copy of the struct. `Write` is `MarshalMsgpack` and the socket; after an error the
record is written again with the slice lengths it had. `slices.Sort` and
`slices.Compact` are modelled as the Go library defines them: `Sorted` puts at each place the element whose `Rank` is
that place, `Runs` are the starts of the runs of equal elements, which `Compact` keeps,
and it clears the elements behind its result (Go 1.22 and later).

Marshalling is two steps, so that the user's goroutine can come between:
`MarshalBegins` starts the sort, `Write` ends it. `raced` remembers that the user read
or cloned an array the sender was writing: a data race, so `ReadTemplate` sees any
mixture of what stood there and what will (`Torn`). Strings torn in themselves are left out.

### RecordClone

An object is a slice, a map, a map's entry or a value of `CustomData`, and is named by the
record that allocated it; `slice`, `mapOf` and `entry` say to which object a record
refers, `data` what an object holds. `Clone` is `Record.Clone` with its three helpers:
new maps for those that are not nil, new slices of entries, and in `CustomData`
whatever `Cloner` or a plain copy gives. `Send` queues the `Msg` and remembers what
the record says; `EditObject` and `DeleteKey` are the user, who goes on with the template
and with clones not yet sent. Marshalling's own rewriting is left to `RecordWire`.

### RecordTrip

The record goes through `stage`. `Send` refuses a type that is not the user's,
stamps the service tree and validates; `Checks` lists the rules of `Record.Validate`
in the order of the code, and a loop over a map may stop at any faulty entry.
`Heartbeat` is the client's own message; `Write` marshals. `ServerReads` is
`msgFromWrap`, which goes by way of JSON and panics if `json.Marshal` or
`json.Unmarshal` returns an error: on text that is not UTF-8 or a NaN in `CustomData`
(`JSONTakes`), on an address that does not parse or two keys of a map that are read as the
same (`RecordTakes`). `ValuesRead` calls the `UnmarshalMsgpack` method of each value; no code
reads a whole record that way.

The index tables are those of the four `_string.go` files, and a name is a slice of
its table: `String` takes it, `unString` looks for it. Every value of every
enumeration, the first without a name and 65535 go through. A free text is empty,
UTF-8 or garbled, an address one of its five classes, `CustomData` absent, fit for JSON or
not, and `MsgpackString` keeps the
length of the header. `IsRecord` says which records Go's types allow: enumerations are
`Uint16`, so a value need not have a name. The code drops one byte of the header,
which is all of it up to 31 bytes of text. The longest text, `CallerIdentityType(65535)`,
has 25.

### AuditConn and AuditServer

| Action | Code |
|---|---|
| `Check`, `Dial`, `DialFails` | `NewDomainSocket` and `NewTCPConn`: the test of `ClosePool.Len()`, then `DialTimeout` |
| `Write`, `WriteFails` | `writer.Conn.Write` under its deadline; a failure may leave a fragment (`Cut`) |
| `CloseSend`, `CloseReturns`, `CloseHangs` | `CloseSend` submits `conn.Close()` and returns nil; the job returns or hangs |
| `Listen`, `StopListening` | `New` of the server; `Close`, or an `Accept` that fails |
| `Accept`, `Read`, `ReadFails`, `Put` | `accept` and one reader goroutine: `Decode`, the reset, the end of the stream, the send on `msgCh` |
| `Take` | the user of `MsgCh()` |

A packet is a message with its number on the connection, so that order and loss can be
seen. `written` and `received` are histories. The backlog, the bytes in flight and the
two ends of a socket belong to the kernel and are marked external, as is the
pool's count: jobs that have not returned. The two constructors differ only in
the network they dial and are one definition.

### EndToEnd

Each step is a step of one side, or of both where the code calls: `CreateChecks`,
`CreateConnects` and `CreateFails` are `AuditClient`'s start or retry joined with
`AuditConn`'s check and dial, `WriteReaches` and `WriteIsLost` are the real sender's
`Write` joined with the socket's: `WriteReaches` takes `conn.Write` and the count of the
record (`msgsender.go:162` and `201`) as one step, so the moment at which a
record has arrived and is not counted yet is not a state. All other steps of a side leave
the other unchanged, ticks among them.
`CreateFails` is limited to errors that are retried, for package `conn` makes no
other, and `CloseSend` is never called, for a live client never calls it.

## What TLC checks

All runs are exhaustive for their constants.

| Run | Instance | Shows |
|---|---|---|
| `reconnect` | linux, deferred start, 3 records, one that cannot be encoded, queue of 2, 3 connections | `TypeOK`, `NoRecordLost`, `AtOnePlace`, `OneConsumer`, `RecordThenHeartbeat`, `DeadStaysDead` |
| `death` | a host that is not linux, deferred start, 2 records, queue of 1; closers that fail, a user who need not read | `DeathIsReported`, `NobodyServesMeansDead`, `NoRetryWhileClosing`, `DeathCompletes` |
| `live` | linux, deferred start, 2 records, one that cannot be encoded, queue of 2, connections without end | `AcceptedIsSettled`, `DeferredIsUpgraded` |
| `wire` | 2 records and a template, up to 3 categories, duplicates; the user reads while the sender sorts | `WireIsCompact`, `WireIsFaithful`, `CloneIsRaceFree`, `TemplateIsIsolated` |
| `clone` | 2 clones of a template, 2 keys in each map, one value of `CustomData` a `Cloner` and one not, 2 edits | `QueuedIsFrozen`, `EditsStayPut`, `CloneIsEqual` |
| `trip` | a record that validates with every change of up to two fields, and every type of message | `TripIsFaithful`, `OnlyFatalRecordsPanic`, `OnlyRecordsValidate` |
| `link` | 2 connections, 2 messages each, one that asks for a reset; socket of 2, pool of 1 | `InOrder`, `AcceptedStayReadable`, `RefusalsEnd` |
| `endtoend` | client that starts connected, 3 records, one that asks for a reset, periodic heartbeats, queue of 1, 2 connections of up to 3 messages, socket of 2; the other two records symmetric | `AtMostOnce`, `CountersAreTrue`, `SentArrives`, `AgentSeesRecordFirst`, `OutlivesTheAgent`, and `ImplementsLog`: the client implements `AuditLog` with capacity `QueueSize + 1` |

### Bounds

`MaxConns` bounds the connections ever made; a connection that is not there to be made
is the one thing the bound takes away. `Write` may fail on every connection, the last too,
after which `reconnect` retries with errors only: such attempts are not bounded. With
3 connections a sender fails twice and is replaced twice, with what the first two
left on the queue, ticker and notifier; a third replacement starts from a state the
second already reached, since a sender carries nothing over but queue and
notifier. A record that cannot be encoded ends a sender like an I/O failure and uses up a
connection too. `live` has no such bound: its one number stands for connections without end, since
`Reuse` frees the number of a connection that was given up, and failing,
requeuing and reconnecting can go on for ever. Three records with a
queue of two reach every combination that matters of one in hand, a queue full
behind it and a call still to come; the queue of one in `death` and `endtoend` makes the
requeue find the queue full. The notifier has its real capacity of two,
save in `endtoend`, which says nothing of notices and gives it one.
`MaxClosers` is 1 where the code has 1000: the proofs show that the value cannot
matter (`NoRetryWhileClosing`). In `RecordWire` two records can share with the
template and with each other, two writes are a failure and a retry, and three
elements over two values have every pattern of duplicates; 0 is Go's zero value, which
no user sends but `Compact` leaves behind. In `RecordClone` two edits are one
through each of two records that share, or two of the same object; a clone that
shared anything would show at the first.

In `RecordTrip` two fields at a time are enough, since no rule and no text depends
on more than two; records with two identity types of which one or both have no name are
among those values. In `AuditConn` the
second connection is enough to fill the pool with the first one's close and to
compete for `msgCh`; with `MaxWrites` and `BufCap` 2 a message stands before the one that
resets, or is in flight behind it, and the pool of one stands for ten, with the same test. In
`EndToEnd` a connection carries up to three messages: a record, its heartbeat, and a
record or the heartbeat of a tick; each record can be written to each of
the two connections. The client starts connected, since `reconnect` has the hand-over from
the no-op sender, which never touches a socket; a third record is needed to offer more than
the `QueueSize + 1` that may be pending. Its records can all be encoded: `reconnect` and `live` have one that
cannot, which never reaches a socket.

`CHECK_DEADLOCK FALSE` is set for the record modules, which stop when
every record is written, sent or read and the edits are used up, and for `link`, which
stops when the bounds on messages and closes are reached and all readers are done or
wait for more. `AuditClient` and `EndToEnd` are checked for deadlock: `Quiescent` allows it to stop
exactly when `New` failed, when the manager has gone, or when the real sender
waits at an empty queue.

### Fairness

`FairSpec` assumes that a goroutine that can go on does (weak fairness: the
scheduler). Go's `select` chooses at random among the ready cases, so a case
that is ready again and again is taken (strong fairness on each of the three). A
`Write` returns, with success or with the error of its 15 s deadline (weak
fairness on the two together). A `create` that is tried for ever succeeds, or
makes a connection that is rejected, if the bound leaves one (strong
fairness): without it `reconnect` retries for ever, which is what its comment says
it does. Nothing is assumed of the user, who need not send nor read notices, of the
ticker, or of `CloseSend`, which may hang.

`LiveSpec` adds what connections without end need. Numbers do not run out: `Reuse`
is weakly fair, as it stands for the next connection. And a sender that comes to a `Write`
that could succeed again and again has one that does (strong fairness on `WriteOk`). That
is an assumption on the agent, not on the code: an agent that accepts every connection and
lets every `Write` fail keeps the client failing, requeuing and reconnecting for
ever, and nothing in the code ends that loop. It says nothing of a record that cannot be encoded, whose `Write`
never could succeed: it comes back without end, and `AcceptedIsSettled` is that the
others are settled all the same, because the requeue puts it behind them.

`AuditServer`'s `FairSpec` assumes that readers run and the user of `MsgCh()` takes
(weak fairness); that a reader waiting for room in `msgCh` gets its turn (strong
fairness: Go serves the waiting senders of a channel in order); that whoever was
refused by the pool tries again, as the client's backoff does; and that a close comes to an end
or hangs. Nothing is assumed of the listener, of `Write` or of who calls `CloseSend`.

### Where code and documentation differ

Each of these runs checks one sentence of the documentation and finds it refuted.

* `doc_closers`: "we will stop trying to reconnect after c.maxCloser attempts"
  (`audit.go:341`). `manageSender` never hands a failed connection to
  `closeAuditConn`, so the group the guard counts stays empty. The theorem
  `NoRetryWhileClosingAlways` is the other half: the guard never fires.
* `doc_broken`: a sender ends only "because the connection is broken"
  (`audit.go:354`). A record that msgpack cannot encode has the same effect, and
  is requeued.
* `doc_dead`: `clientDead` is set "so Send returns ErrClientDead rather than silently
  dropping" (`audit.go:377`). `Send` accepts a record if the client dies between
  its test and its put.
* `doc_retry`: compaction gives "an ordered slice" without duplicates
  (`msgs.go:102`). A record written again after a failed attempt also has the zero
  value `Compact` left in its array, which `Validate` would refuse as an access
  level and `msgs.go:299` calls a bug as a category.

Three more differences have no run:

* `Notify` is said to receive an error when "the queue is full" (`audit.go:486`, and
  `audit.go:93`). `Send` returns `ErrQueueFull` and puts no notice.
* Drops of a deferred client are "recorded in the drop metrics" (`audit.go:186`). The
  records still queued when it dies are counted nowhere.
* The test server is one "that can accept the audit messages from the client"
  (`server.go:2`), and values no enumeration declares "should be fine" (`msgs.go:592`).
  `msgFromWrap` panics on some records that `Validate` accepts; `OnlyFatalRecordsPanic` says
  exactly on which: text that is not UTF-8, `CustomData` JSON does not take, and two
  identity types that are read as one because a nameless one is read as unknown.
  `AuditServer` has no such record: there a reader ends at a reset or a failed read only.

And one observation on the pool: its limit is tested before a dial of up to ten
seconds and counts closes, not connections. It slows a process down whose closes hang and
does not bound how many may; `RefusalsEnd` therefore allows for closes that hang.

## What is proved

Every invariant, every action property and the refinement that a passing run checks is
also a theorem: TLC shows it on an instance, the proof for every value of the
constants that satisfies the named assumptions. Those say what the code and its
types do (a queue of at least one, `uint16` enumerations, model values that are
different things), with one exception: `JointAssumption` takes a host and
a kind of connection that `newSender` accepts, without which there is no server to speak of.
No theorem rests on the bounds of the runs, and no specification a theorem is about leaves
out steps of the code to stay small: `MaxConns`, `MaxClosers`, `MaxWrites`, `MaxCloses` and `MaxEdits`
are any natural numbers.

| Module | From | Theorem | Property |
|---|---|---|---|
| `AuditClientProofs` | `RecordsAssumption`, `SizeAssumption`, `EnvAssumption` | `TypeCorrect` | `TypeOK` |
| | | `OneConsumerAlways` | `OneConsumer` |
| | | `NoRecordLostAlways`, `AtOnePlaceAlways` | `NoRecordLost`, `AtOnePlace` |
| | | `DeathIsReportedAlways`, `NobodyServesMeansDeadAlways` | `DeathIsReported`, `NobodyServesMeansDead` |
| | | `DeadStaysDeadAlways` | `DeadStaysDead` |
| | | `NoRetryWhileClosingAlways` | `NoRetryWhileClosing` |
| | | `RecordThenHeartbeatAlways` | `RecordThenHeartbeat` |
| `AuditClientRefinement` | the same | `ClientImplementsLog` | `ImplementsLog` |
| `RecordWireProofs` | `WireAssumption` | `TypeCorrect` | its `TypeOK` |
| | | `WireIsCompactAlways`, `WireIsFaithfulAlways` | `WireIsCompact`, `WireIsFaithful` |
| | | `CloneIsRaceFreeAlways`, `TemplateIsIsolatedAlways` | `CloneIsRaceFree`, `TemplateIsIsolated` |
| `RecordCloneProofs` | `CloneAssumption` | `TypeCorrect` | its `TypeOK` |
| | | `EditsStayPutAlways`, `QueuedIsFrozenAlways`, `CloneIsEqualAlways` | `EditsStayPut`, `QueuedIsFrozen`, `CloneIsEqual` |
| `RecordTripProofs` | `OfferedAssumption` | `OnlyFatalRecordsPanicAlways`, `TripIsFaithfulAlways`, `OnlyRecordsValidateAlways` | `OnlyFatalRecordsPanic`, `TripIsFaithful`, `OnlyRecordsValidate` |
| `AuditServerProofs` | `ConnAssumption`, `ResetAssumption` | `TypeCorrect` | types of both its modules |
| | | `InOrderAlways` | `InOrder` |
| `EndToEndProofs` | the client's and `JointAssumption` | `EachSideIsItself` | the two joined behave as `AuditClient` and as `AuditServer` |
| | | `JointImplementsLog` | `ImplementsLog` |
| | | `OutlivesTheAgentAlways`, `AtMostOnceAlways`, `CountersAreTrueAlways`, `SentArrivesAlways`, `AgentSeesRecordFirstAlways` | the properties of those names |

### The client

The argument goes in layers, each an inductive invariant that uses those before it.

1. `TypeOK` is inductive. The queue stays within its capacity because every put,
   the requeue included, is non-blocking.
2. `Control` says, for each point of the manager, which senders may run. It is
   needed because `OneConsumer` alone does not say why the real sender is off while
   `deferredConnect` waits. It holds that a real sender never ends with nil: only
   a cancelled context makes one, and only the no-op sender has such a context.
3. `Places` is the accounting with `HandsEmpty`: a goroutine that is not writing
   holds no record. Each step moves one record from one place to the next, and
   with `OneConsumer` in `Control` a sender starts with an empty hand.
4. `Death` relates manager, flag and notice: `reconnect` holds no sender, so a
   `deferredConnect` without one knows the client is dead; and from the landing of the
   notice only the user can take it out, since the evicting loop has ended.
5. `Closers` says that a connection is closed only when `newSender` rejects it,
   and that this error is permanent: at most one closer ever runs.
6. `FirstMessages` says what is on each connection at each point of the real sender:
   nothing until the first record is written, only that record while the heartbeat is in
   hand, both from then on. A tick is only served by a sender that has sent a record, and
   a new sender starts on a connection nothing was written to.

`AppendElements` and `TailElements` are the facts about sequences the accounting rests
on: what a put and a receive do to the elements and to their being distinct.

The refinement reads the fate of a record off `call`, `sent` and `dropped`. `Places`
makes pending what is queued or in hand (`FateOf`); with `OneConsumer` one record at most
is in a hand, so no more than `QueueSize + 1` are pending (`PendingBound`), which is the
capacity `AuditLog` promises. `LogStep` then goes through the actions: `SendChecks`
offers or rejects, `SendPuts` accepts or rejects, a write settles, a failed one settles
or leaves the fate alone, and all others are stutters.

### Records

* `RecordWireProofs` first says what sorting and compacting do to any sequence of
  naturals: `Ranks` are all different, so every place has an element (`CountIsOnto`: an
  injection of a finite set into 1 to its cardinality is onto), the result is ordered and
  holds the same elements; compacting keeps the first of each run. `Busy` says the
  record being sorted is queued and has writes left; `Views`, that a record looks at its
  own arrays unless it was sent as a copy. `Faithful` adds what a *retry* needs, for the
  wire alone does not tell it: `Held`, that the arrays of a queued record still hold the
  elements asked for if they were distinct, whoever else rewrote the arrays, and exactly what
  was asked for until the record's first attempt if nobody shares them.
* `RecordCloneProofs` has `Separate`: what a record refers to is its own, except for the
  references in `CustomData` that implement no `Cloner`. An edit through one record then
  reaches no cell another record can see.
* `RecordTripProofs` takes the tables as they are in the code: the names of a type are all
  different and shorter than 32 bytes (`Tables`), so `unString` finds the value a text was
  made of (`ValueReturns`), and different values of a type have different texts (`TextsDiffer`), so
  that keys fall together only where names are missing. `FatalIsFatal` takes from that which accepted records
  `msgFromWrap` cannot read, `RoundTrip` what it makes of a whole record whose
  identities stay `Apart`, and `ValuesAreRead` what each method makes of its value.
  `ValidatesIs` turns the rules in order into a conjunction that no longer depends on
  which faulty entry of a map is met first, and `StillPasses` compares it before and
  after. `OnItsWay` says which record is where at each stage.

### Connections and server

`Ends` collects what the two ends of one connection say of each other: a connection in the
backlog is there once and has no reader yet; a reader that waits on `msgCh` holds a
packet; a stream without a server's end is empty, and a client that can still write has
left no fragment in it. `InOrder` by
itself is inductive on top of `Ends`. A `Read` moves one packet from the stream to the
reader, a `Put` moves it to the channel, a `Take` moves it to what was received, and all
three leave their concatenation as it is; since every step touches one connection only,
the rest is framing (`OthersInOrder`).

### Client and server together

Each step of `JointSpec` is a step of `AuditClient` or a stutter, and a step of
`AuditServer` or a stutter (`EachSideIsItself`), so all theorems of both sides hold of the
two. `Alive` adds that `CreateFails` never brings a permanent error; `Hands` that what the real
sender is about to write is a record or a heartbeat, which is what `AuditServer` takes for a message. `Tallied` compares the two
sides' histories: every record written was written once, to one connection, and is counted
as sent, every record counted as sent was written, the first message of a connection is a
record and the second its heartbeat, whatever ticks fire. With `InOrder` that
gives `ArrivesAsWritten`, and from it follow the five properties: what is received or on
its way is an initial part of what was written.

### Only model-checked

The liveness properties: `DeathCompletes`, `AcceptedIsSettled`, `DeferredIsUpgraded`,
`AcceptedStayReadable` and `RefusalsEnd`. They need fairness and `ENABLED`, which are out
of the prover's reach. What the four `doc_` runs refute is false, and their
counterexamples are TLC's.

## What comes next

1. The safety kernels of the liveness properties: that whenever a record is pending or a
   notice is due some goroutine is at a step that can be taken, with its guard
   spelled out.
2. An abstract specification of a connection as a channel that loses only its end, and
   `AuditServer` shown to implement it from `InOrder`.
3. The hazards no property covers yet (see `PROJECT.json`), and the counters of
   `metrics.go` that are not kept.

## Not modelled

* The wording and times of notices and log lines, the delays of the backoff and of
  the ticker, timeouts other than as an outcome that may come at any moment.
* Metrics other than records sent and dropped. `diagnosticDropped` is never created,
  which would matter only for a `Diagnostic` message, and nothing makes one.
* The fields of a heartbeat, `kernelVer` and `version` (a system call and a
  constant that fill them).
* Which path `setDefaults` picks for the socket, and the error branches of
  `writer.New`, which its callers cannot reach.
* The substitutes of `testing.go` and `conn/hang_conn.go`: reachable in tests
  only, and what they do is an outcome in the model.
* A second server at the same address. The first one's connections live on with
  a channel of their own, so it is another instance of `AuditServer`; a
  restarted agent is not part of the repository.
* The encodings themselves: msgpack and JSON are external and are modelled by what the
  code relies on (headers, quotes, absent fields, equal keys, what has no form in JSON).
  `CustomData` that msgpack can write and the server's decoder cannot read is left out. Upper and lower case, which
  `unString` ignores, tell no two names apart. The text of `msgs.Type` and `conn.Type` is
  only logged or sent, never read back.
