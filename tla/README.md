# Goruptor, verified

TLA+ models, TLC runs and TLAPS proofs for the exchange in this repository: an
order path of TCP/HTTP front ends, an ingress that deduplicates, a lock-free ring
buffer with a journaler and an engine, a write-ahead log, a matching engine, an
archiver and an ordered shutdown.

    tlc -workers 2 -config ring_always.cfg MCRing     # model-check one run
    tlapm RingProofs.tla                              # check the proofs of one module

## 1. Inventory

| Part | Code | State | Operations | What makes it correct |
|---|---|---|---|---|
| Ring, with and without a journal | `internal/disruptor/buffer.go`, `journal.go` | three cursors, slots with stamps, closed/failed flags, `durMu`/`durCond`, the journaler's batch | `Publish`, `WaitDurable`, `StartJournaler`, `StartConsumer`, `Close`, `Shutdown` | ack implies durable; engine = prefix of the journal; no slot overrun; no lost wakeup; refused orders leave no trace; nobody hangs; drained shutdown |
| Write-ahead log | `internal/storage/wal.go` | the file, the bufio writer with its sticky error, `closed` | `NewWAL`+`repairTail`, `Append`, `Sync`, `Close`, `ReadAll` | no promised event is lost in a crash; nothing is invented; the file stays appendable |
| Matching | `internal/matching/orderbook.go`, `handler.go` | per side: map of levels, heap of prices, cached best price, cached volumes | `Process`, `SetRestoreMode`, `GetSnapshot` | price-time priority; redundant parts agree; snapshot true; what the SQS workers receive is live trades in order, none twice |
| Price heaps | `internal/matching/heaps.go`, `bestPrices` | an array per side | push, pop, k best | top is best; k best exact though only a window is read |
| Ingress | `internal/ingest/ingest.go` | `IDSet` | `Submit` = `Admit` + `Confirm` | at most once per `order_id`; ids freed exactly when the order is certainly not in the ring |
| TCP server | `internal/api/tcp_server.go` | `conns`, `wg`, `closing`, per connection a handler with a batch | `Serve`, `handleConnection`, `Shutdown` | acks in order, one per frame, only for durable orders; every batch read is answered; a graceful end leaves nobody at work; `Shutdown` returns |
| HTTP entry | `internal/api/server.go` | none of its own | `handleCreateOrder` = `Submit` | as the TCP server, with one frame |
| Live book | `internal/api/server.go` | `clients`, `stop`, `mu` | `handleWS`, `broadcastTicker`, `Shutdown` | a slow watcher holds up neither registrations nor the shutdown |
| Batcher | `internal/storage/batcher.go` | queue, batch, `closeMu`, `flushCtx` | `Push`, worker, flush, `Close` | no send on a closed channel; nothing stored twice or lost without a log; `Close` drains and returns |
| Shutdown | `internal/app/shutdown.go`, `cmd/goruptor-server/main.go` | the step, its context | HTTP, TCP, ring, WAL, batcher, trades | trade channel outlives the engine, WAL outlives the journaler, a clean shutdown loses nothing |
| SQS publisher | `internal/cloud` | `TradeCh`, trades in the workers' hands | publish or drop, 50 workers, `Close` | nothing is sent on the closed channel, nothing taken in is left unsent |
| Load client | `cmd/dma-loadtest/main.go` | per connection a window, counters, two goroutines | writer, reader, deadline, report | the report is what the server said; the run ends |
| Candles, scripts, infra, dashboard | `internal/api/chart.go`, ... | none | | not modelled (section 7) |

How they interact. Request goroutines call `Ingress.Admit`, which calls
`Ring.Publish`, and `Ingress.Confirm`, which calls `Ring.WaitDurable` and then
`Batcher.Push`. The journaler goroutine copies published slots to the WAL and
releases them (`journalCursor`); the engine goroutine runs `OrderBook.Process` on
what is released and sends trades into `TradeCh`. They share atomics, `durMu` and
channels. At boot `main` replays the WAL into the book and registers its ids
before it starts anything. On a signal `main` runs `Components.Shutdown`.

What is hard: the lock-free interleavings of the ring, the wakeup of waiters, a
journal that fails halfway, `Close` racing with claims, retries of orders whose
outcome is unknown, crashes between write, fsync and ack, crashes during the
repair of an earlier crash, and a shutdown whose steps time out. `PROJECT.json`
lists each hazard at its line with the properties that would catch it.

## 2. Modules

    OrderLog         contract of the ring
     ├─ RingBuffer → RingProperties ─┬→ RingInvariant ─┬→ RingProofs
     │                (MCRing)       └→ PlainRing ─────┘   PlainRing: without a journal
     └─ Ingress ─┬─ Exchange   (MCExchange)  → ExchangeProofs   connections, crashes, boot
                 └─ Shutdown   (MCShutdown)  → ShutdownProofs   Components.Shutdown
    Wire             contract of the DMA port
     ├─ TCPServer    (MCTCPServer) → TCPServerProofs   the server keeps it
     └─ LoadTest     → LoadTestProofs   the load client relies on it
    PriceTimeBook    naive book ⇐ OrderBook (MCOrderBook) ┐
    PriceHeap        (MCPriceHeap) ───────────────────────┴→ MCMatching → OrderBookProofs
    WAL              file, repair, crashes ┐
    Batcher          (MCBatcher) ──────────┴→ MCStorage → StorageProofs
    WebSockets       watchers, broadcaster, Server.Shutdown
    Recursion        lemmas: induction and recursion over data, for the proofs

- **RingBuffer**. One action per atomic access of `buffer.go`: `Claim` is the
  `AddUint64`, `Gate`/`FullCheck` the two loads of the backpressure loop,
  `WriteEvent` and `Stamp` the two writes to a slot, and so on for the journaler
  (`jpc`), the engine (`cpc`) and a caller of `Shutdown` (`spc`). `event` and
  `stamp` are the slots' two fields; `pc`, `seq` are a producer's place and its
  local `seq`. The engine's and journaler's local cursors equal their published
  cursor, except between two steps named in comments. `log`/`synced` are the
  journal and its fsynced part, `executed` what `OnEvent` was given: the only
  ghosts. Time is a nondeterministic choice (`SyncInterval` may or may not have
  passed). Go's atomics are sequentially consistent, and the plain slot write is
  ordered by the stamp, so interleaving is the right semantics.
- **OrderLog**. What the ring promises: a journal that grows at its end, a
  released prefix, an engine behind it, one final verdict per order. The ring is
  checked to implement it (`RingProperties!ImplementsOrderLog`), and Exchange and
  Shutdown run on it instead of on the ring.
- **PlainRing** adds what changes when `b.journal` is nil: no journaler, `consumable`
  reads the stamp, `WaitDurable` returns at once. `journaled` is chosen once.
- **Ingress** adds the `IDSet` and the stages of `Admit` and `Confirm` to the
  steps of OrderLog. A shard's mutex makes each call of the set one step.
- **Exchange** adds connections (`handleConnection`: read what is buffered,
  admitting each frame as it is read, then confirm in order, then one write),
  process crashes, power losses and `main`'s boot. An HTTP request is a
  connection with one frame. The file is `past \o written`; `stable` is its
  fsynced length.
- **Shutdown** adds `Components.Shutdown`: each step tells its component to stop
  (`Begin`), waits for what that component waits for (`Over`), and ends well
  (`Finish`) or badly (`StepFails`: expired context, an error from closing the WAL or
  the database); plus the journaler, engine, batcher worker and SQS workers as far as
  steps wait on them: `trades` counts what is in `TradeCh`, `sending` what the workers
  hold. A handler whose request has its result still has to write the answer: it does
  and returns (`Answer`, into `left`), or waits in `conn.Write` for a client that does
  not read (`Stall`, into `stalled`), until that client reads, hangs up or is cut off
  (`Unstall`). The HTTP and TCP steps wait for the handlers that have not returned.
- **TCPServer** goes inside the server that Exchange takes for granted: the accept
  loop between `Accept` and its second look at `closing`, the wait group, the read
  deadline of `Shutdown`, sockets on which `conn.Write` waits for the client, and
  every place where a handler may be caught by any of it. Verdicts are a choice here;
  Exchange says which.
- **Wire** is what a client sees of it: per connection one ack per frame in order, a
  rejection last, no end while an ack is owed unless a shutdown ran out of time.
  TCPServer implements it, and **LoadTest** checks the load client against *any* server
  that keeps it, so client and server are each checked against the other's contract
  instead of in one large product.
- **WebSockets** has one step per use of `Server.mu`, and holds the mutex over a step
  where the code does something under it that could wait.
- **WAL**. An encoded event is three bytes (everything up to `}`, `}`, `\n`), so
  a crash cuts a line in every way the code tells apart. `repairTail` is one
  action per system call, so a crash may fall between them. `kept` and `written`
  are ghosts: what a reader is entitled to, and what was ever put in the file;
  an opening sets both to what it found, and `ReplayIsTrue` says that it found all of the
  first and nothing that is not in the second.
- **OrderBook** runs one action per turn of the inner loop of `matchBuy` and
  `matchSell` (mirror images, written once over the taker's side); an SQS worker takes
  the head of `tradeCh` between any two of them (`TakeTrade`), since it does not take
  `ob.mu`. **PriceHeap**
  has `container/heap`'s push and pop and `bestPrices` as operators.
  **PriceTimeBook** is `refBook` of `reference_test.go`.
- **MCStorage** and **MCMatching** put two parts that share no state into one run (WAL
  and Batcher; order book and price heaps): `part` says which of them a behaviour
  explores, the other never moves, so nothing is interleaved and nothing is lost. The
  heaps need a run beside the book's because only heaps of more than three prices have
  entries that `bestPrices` does not look at.
- **Batcher**. `closeMu` has Go's writer preference (a waiting `Lock` keeps new
  `RLock`s out); the sink may store, report an error or, in `HangingSpec`, never
  answer. An `INSERT` that reports an error, cancelled (`batcher.go:130`) or not, may
  have taken effect (`SinkFails`), so an order reported as lost may be in the table. The
  ghost `accepted` is what went into the queue, in the order of the sends.

Definitions named `Faulty...` are plausible bugs: each is the mutated form of the
definition next to it and is used by no specification. For every property of a
passing run one of them makes TLC find a violation (`mutants` in `PROJECT.json`).

## 3. Runs

| Run | Module | Bounds | Shows |
|---|---|---|---|
| `ring_always` | MCRing | 3 orders, 2 slots, batches of 2, fsync per batch | the safety properties of the ring; it implements OrderLog |
| `ring_interval` | PlainRing | 2 orders, 1 slot, batches of 1, interval mode or no journal | drained shutdown; order of execution without a journal; `Publish`, `WaitDurable`, `Shutdown` return |
| `order_book` | MCMatching | 5 orders, 3 prices, 2 quantities, `TradeCh` of 1, depth 2; heaps alone: prices 1..9, k up to 3 | redundant parts agree, snapshots; the workers receive live trades in order, none twice; it implements PriceTimeBook; heaps and `bestPrices` |
| `web_sockets` | WebSockets | 2 watchers, 1 unread snapshot each | a slow watcher hurts nobody |
| `storage` | MCStorage | log: 6 events, batches of 2, 3 crashes, junk of 2 or 3 bytes; archiver: 4 orders, queue of 1, batches of 2, a database that answers | promised events survive and are what is replayed; the archiver accounts for every order, repeats none and keeps their order; `Close` returns |
| `exchange` | MCExchange | 2 connections, 4 frames (a retry, a malformed one), 2 crashes | confirmed orders survive, at most once, ids, acks in order, frames answered |
| `shutdown` | MCShutdown | one HTTP and one TCP request, `TradeCh` of 1, 1 worker | the shutdown order, with clients that may not read their answers |
| `dma_server` | MCTCPServer | a client with 3 frames and one that says nothing, batches of 2, 1 unread ack | a graceful end is quiet, `Shutdown` returns; it implements Wire |
| `load_client` | LoadTest | 2 connections, 3 orders, window 0 and 1, buffers of 1 | the report is true and the run ends |
| `ring_fail_stop` | RingProperties | 2 orders | *violated*: see section 6 |
| `wal_one_byte_tail` | WAL | junk of 1 byte | *violated*: see section 6 |
| `batcher_hanging_sink` | MCBatcher | a database that never answers | *violated*: see section 6 |

Why the bounds are enough. Three orders on two slots lap the ring, leave gaps of
unstamped slots behind stamped ones, and make a batch shorter and longer than
`MaxBatch`; one slot makes every order but the first wait. `ClosedBit = 8`
keeps counter and bit apart as 2^63 does; `CounterRoom` is the bound that no
2^63 calls are made. Nine prices give heaps of four levels, one more than the
deepest window checked (k = 3). Five orders on three prices build and empty
levels on both sides and cross several of them. Three crashes fit a crash in an
append, one in its repair and one after. Two connections and a retry give the
races on an id, within a batch, across connections and across restarts. Three
frames on batches of two and a socket that takes one ack give a batch cut by its
limit, a second batch behind it, and a handler stuck in the middle of a write; a
client that never sends a frame is the idle read that `Shutdown` must wake. Three
orders on two connections do not divide evenly, and windows 0 and 1 are the two ways
the writer works. One worker leaves every point at which `Close` can find a trade.
Symmetry is used only in runs without liveness. `CHECK_DEADLOCK FALSE` is set
where the system really stops: bounded orders handled, or the process ended.

The TLC bounds are constants (`MaxOrders`, `MaxEvents`, `MaxCrashes`) or guards
(`CounterRoom`) and named in the modules.

### Fairness

Weak fairness on goroutines, never on the environment: a goroutine that can take a
step takes one (Go's scheduler, which preempts; a runnable waiter for `durMu` gets
it, since Go's mutex hands over to starving waiters and each holder is finite here).
Nobody has to publish, to wait, to call `Shutdown`, to send a frame, to fail or to
expire. `ring_interval` needs no fairness for `durMu` beyond that: only finitely
many orders contend for it. In `exchange` the journaler writes and releases what is
published unless it fails. In `storage` the database answers; in
`batcher_hanging_sink` it need not before its context is cancelled, but `ctx`
does expire.

Clients and watchers are never fair: they need not read, send, leave or come. So
`ShutdownReturns` and `ShutdownEnds` except a client that stops reading (the handler's
write has no deadline; only `ctx` ends the wait). In Shutdown that means: `Answer` is
fair, `Unstall` is not, and a step whose context has expired returns. And
`SlowWatcherHurtsNobody` excepts the watcher that registers after the sweep (section 6).
Strong fairness is used once, in
WebSockets, where it stands for two promises of the Go runtime: a goroutine waiting
for a mutex gets it, and a `select` does not for ever prefer one ready case. In
LoadTest the client's deadlines pass and the server owes nothing at all.

## 4. Proofs

Eight modules hold theorems. Each is for every value of the constants; the named
`ASSUME`s of the modules are all they assume, but for the condition on the WAL's junk
that is part of the statement. Every invariant and every action property or refinement
that a passing run checks is a theorem.

| Theorem | States |
|---|---|
| *RingProofs* | any orders, capacity, batch size, sync mode, with a journal or without |
| `RingInvariantHolds` | `Spec => []RingInv` |
| `TypeCorrect`, `AckIsDurable`, `EngineIsBehindJournal`, `SlotsAreKept`, `WakeupsAreNotLost`, `RefusedOrdersLeaveNoTrace`, `UnconfirmedOrdersAreNotExecuted`, `ShutdownDrains` | `TypeOK`, `AckImpliesDurable`, `EngineFollowsJournal`, `SlotsKept`, `NoLostWakeup`, `RefusedLeavesNoTrace`, `UnconfirmedNotExecuted`, `DrainedShutdown` |
| `RingImplementsOrderLog` | `Spec => ImplementsOrderLog` |
| `PlainRingIsInOrder` | `ModeSpec => []PlainRingInOrder` |
| *OrderBookProofs* | any prices, quantities, number of orders, depth, room in `TradeCh` |
| `BookInvariant` | `Spec => []BookInv` |
| `BookIsConsistent`, `TradesArePublishedOnce`, `SnapshotIsTrue` | `BookConsistent`, `TradesPublishedOnce`, `SnapshotTrue` |
| `BookIsPriceTime` | `Spec => ImplementsPriceTime` |
| `BestPricesAreExact` | `HeapSpec => []BestPricesExact`, for heaps of any size |
| *StorageProofs* | the log: any events, batches, crashes; the archiver: any orders, queue, batch size, a database that answers or not |
| `LogKeepsItsPromises`, `LogReplays`, `LogEndsInLineFeed` | `NothingLostNothingInvented`, `ReplayIsTrue`, `EndsInLineFeed`, if the junk is never one byte |
| `CloseInvariantHolds` | `Spec => []CloseInv` |
| `NobodySendsOnClosed`, `CloseInTimeDrains`, `OrdersAreSomewhereOnce` | `NoSendOnClosed`, `CloseDrains`, `EveryOrderSomewhereOnce` |
| *ExchangeProofs* | any finite orders, connections, scripts, number of crashes |
| `ExchangeInvariantHolds` | `Spec => []ExchangeInv` |
| `ConfirmedOrdersSurvive`, `OrderIdsAtMostOnce`, `IdsAreAccountedFor`, `AcksComeInOrder` | `ConfirmedSurvives`, `AtMostOnce`, `IdsAccountedFor`, `AcksInOrder` |
| *ShutdownProofs* | any finite orders, room, number of workers |
| `ShutdownInvariantHolds` | `Spec => []ShutdownInv` |
| `TradesOutliveEngine`, `WALOutlives`, `ShutdownIsClean` | `NoTradeOnClosedChannel`, `WALOutlivesJournaler`, `CleanShutdown` |
| *TCPServerProofs* | any finite clients, frames, batch limit, socket room |
| `ServerInvariantHolds` | `Spec => []ServerInv` |
| `GracefulShutdownIsQuiet`, `ServerKeepsContract` | `GracefulMeansQuiet`, `ImplementsWire` |
| *LoadTestProofs* | any number of orders, connections and windows, any server within Wire |
| `LoadInvariantHolds`, `ReportIsTrue` | `LoadSpec => []LoadInv`, `LoadSpec => []ReportTrue` |

### The ring

The argument. None of the properties is inductive: each leans on which slot holds
what. `RingInv` (module RingInvariant) says why:

- *ClaimInv*: sequences are unique, below the claim count, and none is new after
  `Close`;
- *WindowInv*: whoever passed the gate is less than a lap ahead of the engine, and
  whoever has not stamped is ahead of everything the journaler took. With the
  arithmetic lemma `SameResidue` (two numbers less than a lap apart that share a
  slot are equal) this makes slots exclusive (`OneSlotEach`);
- *SlotInv*: a stamped order's slot is its own until the engine frees it, and
  every stamp and event in a slot comes from such an order. A fresh stamp therefore
  means the slot holds exactly the next sequence;
- *JournalInv*: hence journal and batch are the orders of consecutive sequences,
  and the file is level with `journalCursor` except around an append;
- *EngineInv*: the engine is behind `journalCursor`, and executed what is there;
- *WaitInv*: `durMu` is held between check and sleep, so a broadcast cannot fall
  between them.

There is one lemma per action (`...Keeps`), resting on frame lemmas for the
conjuncts that the action does not disturb. `DrainInv` adds what `Shutdown`
needs: a stage that returned in a healthy ring was above `finalSeq`, with nothing
left to fsync. `DrainedState` then counts: all sequences below `finalSeq` are
journaled and executed.

`RingImplementsOrderLog` maps each action to a step of OrderLog or to none. The step
that carries the weight is the append: that the batch holds orders which are
published, new to the file, and in the order of their sequences is *JournalInv*;
that a waiter which gives up does so on an order the engine will not run is *WaitInv*
with *EngineInv*.

Without a journal the claim and window conjuncts stand as they are (`RingCore`, with the
same lemmas), nothing is journaled (`NoJournal`), and the engine's cursor takes over the
part that `journalCursor` plays with a journal (`PlainEngineInv`, `PlainDrainInv`): an
order that has not stamped is not below what was handed to the engine, so a stamp that
equals the next sequence plus one is of this lap.

### Recursion over data

The library's induction theorems take an operator as a parameter and no installed prover
can instantiate them. Module Recursion states what the proofs need over *sets* and
*functions* instead: a set of naturals with 0 that is closed under + 1 is `Nat`
(`SetInduction`), and a recursion in which a rank falls has a solution
(`RecursionExists`, `LoopExists`), which is what gives a meaning to the
`CHOOSE` behind a recursive function. Each recursive definition of the models (`Scan`,
`HeapPush`, `HeapPop`, `BestPrices`, `TotalOf`, `FullLevels`, `FirstId`) is first shown
to satisfy its equations (lemmas `...Unfolds`, `FirstIdIs`, `LevelsAre`), and then reasoned about by induction on
those. What stays out of reach is `RECURSIVE` operators, which the models do not use.

### Matching

*Heaps.* `HeapOf(side, h, X)` says that the array `h` lists the prices `X`, each once, and
that no entry beats its parent. `up` and `down` break this at one place on their way;
the invariants of the two loops are `OrderedButAt` (only the entry under way may beat its
parent, and nothing below it beats its grandparent) and `OrderedButUnder` (only the
children of the entry under way may).

*bestPrices.* A loop invariant over the entries read (`Scans`) makes `out` the k best of
them, best first. That the first 2^k - 1 entries suffice: the ancestors of an entry at
position j form a chain of prices at least as good, one per level, so an entry outside the
first k levels has k better ones inside.

*The book.* `BookInv` holds at every turn of the matching loop and not only between
orders: heap, map and cached best price of a side agree, each level's queue is not
empty and in order of arrival, its volume is the sum of what its orders have left, the
taker is younger than all that rest, and even during a match the resting orders do not
cross (which is what lets `addOrder` put the rest of the taker into the book). The
refinement of the naive book follows: the head of the queue at the heap's top is the
oldest order at the best price, and when the loop ends with quantity left nothing in
the naive book matches.

### Write-ahead log

`LogInv` describes the file as the first n bytes of whole encoded events followed by junk
(`Holds`), with what each place in the code knows of n: an open log without a failed
write ends behind a line feed, a truncated one before it, and only a power loss leaves
junk. Every action is a lemma about byte arrays: a cut anywhere, an append, a
repair. `Scan` of such a file is the events whose brace is among the n bytes
(`ScanOfLog`), so a file that only grows never loses a reader's events. A power loss
leaves the file from the disk's image on, which is why *PromiseInv* says that the
disk's events are a prefix of the file's.

`LogReplays` says of the step that opens the file what `PromiseInv` says of states: the
repair leaves `Scan(file).events` as it was, so what `main` replays begins with what was
promised before and has nothing that was never appended.

The condition `1 \notin JunkLengths` is what the invariant needs and the code does not
check: one byte behind the last event is taken for a line feed. `Holds` therefore says
that the file is never one byte longer than its events; `wal_one_byte_tail` shows what
happens otherwise (section 6).

### The front door

`ExchangeInv` is the conjunction of what a crash must not break:

- *StageInv*: the verdict of the ring fits the stage of the order's handling;
- *FileInv*: an order is in the file once, either in `past`, of which this life knows
  nothing, or among the orders this life accepted;
- *IdInv*: an id has one holder (in the file, on its way, or of unknown outcome) and
  the taken ids are exactly those of the holders. `AtMostOnce` needs it: that the
  journal has no two orders of one id is inductive only with the orders that may
  still get there;
- *DiskInv*: what is confirmed is below `stable`;
- *AckInv*: what is answered is what was dealt with, in order.

A boot starts from `past` alone, which is why *FileInv* says that an order of the past
has status `"new"` and a stage of its previous life.

### Shutdown, archiver, server

- `ShutdownInv`: *OrderInv* (what the steps so far have ensured), *StoppedInv* (a stage
  that returned from a healthy ring left every published order released, the engine
  every released one executed), *FrontInv* (a server whose step ended well has no
  handler left, so nothing is archived behind the flush). `WALOutlives` does not say
  that the WAL is never closed under the journaler: `shutdown.go` goes on to the WAL
  after a ring step that ran out of time, and the journaler then gets `ErrWALClosed`. It
  says that this happens only in a shutdown that reported its ring step.
- `CloseInv`: *LockInv* (readers and writer of `closeMu` exclude each other) and
  *ClosedInv*. `PlaceInv` then says that what `Push` took is, in order and once, what
  was settled by a flush, then the batch, then the queue, and that the table is an
  ordered part of what was settled, without repeats.
- `ServerInv`: *CountInv* (wait group, set and flags agree with where the handlers
  stand), *PlaceInv* (a connection nobody handles has no history; one closed under
  its handler was torn down by a shutdown out of time) and *AnswerInv* (acks written
  plus verdicts still to write account for the frames taken in, or a rejection ends
  them). The last is the reason why a close never leaves an ack owed, which is the
  guard of Wire's `Close`.
- `LoadInv`: per connection *Behind* (orders are handed over, sent, taken, answered and
  reported in that order), *InFlight* (sem counts the orders in flight), *Counts* (what
  the reader has counted is what it has read) and *Ends* (a reader stops with an error or
  behind its last ack; `runConn` returns after its reader). Exit code 0 then means that
  every ack of every share was "ok", and `AllIds` says that the shares are `Total`
  orders under `Total` different order_ids: the ranges that main hands out
  are adjacent (`IdsAreNext`, by induction over the connections).

Only model-checked: liveness, everywhere, since fairness and `ENABLED` are out of the
prover's reach (`PublishReturns`, `WaitAnswered`, `ShutdownCompletes`, `CloseReturns`,
`FramesAnswered`, `ShutdownEnds`, `ShutdownReturns`, `RunEnds`,
`SlowWatcherHurtsNobody`). WebSockets has no safety property of its own. The properties
of the three violated runs are false.

## 5. Abstractions

An order stands for its `OrderEvent`; a malformed one is a member of `Invalid`.
The wire format, JSON, SQL, HTTP statuses and logging are left out. The plain
mutexes around a few lines (`IDSet` shards, `WAL.mu`, `OrderBook.mu`, `TCPServer.mu`)
make one step of what they protect; the deadline sweep of `TCPServer.Shutdown` is one
for that reason. `finalSeq` is stored together with the add that closes the claims:
nobody reads it before `closedFlag`. Shutdown assumes that both stages were
running and that system calls on the WAL return.

In Exchange a write of acks reaches the client whole or not at all; in TCPServer it
goes out ack by ack. In TCPServer a frame arrives whole, `Admit` and the confirmation
of a batch are one step each (their inside is Exchange's and the ring's), and a frame
cut off by the end of its connection counts as not sent. In Shutdown an SQS send ends;
whether it succeeded is not told apart, since the worker goes on either way. The
WebSocket and HTTP libraries are external: an upgrade starts a handler, a write waits
for the watcher or fails on a closed connection.

Some steps are coarser than the code where no property can tell. `RingBuffer!Collect`
and `RingBuffer!Drained` make one step of two loads each (stamp and event,
`buffer.go:281-284`; `closedFlag` and `finalSeq`, `buffer.go:216` and `293`): a fresh
stamp fixes its event until the engine frees the slot, and `finalSeq` is not written after
`closedFlag`. `LoadTest!Put` with window 0 sends the newest frame out of a full buffer
with the others, where `bufio` keeps its tail (`main.go:222`): the server may then see
it earlier than it can.

## 6. Findings

1. `ring_fail_stop` violates `FailStopDrains`. The comment of `StartConsumer`
   (`buffer.go:196-197`) says that the engine of a failed ring first processes
   everything that was on disk. It looks at `journalCursor` and *then* at
   `failedFlag` (`buffer.go:210-215`): if the journaler releases a batch and fails
   on the next one in between, the engine leaves released, perhaps acked orders
   unprocessed. They are in the file, and the next boot replays them.
2. `batcher_hanging_sink` violates `CloseReturns`. `Batcher.Close` promises to
   return when `ctx` expires (`batcher.go:115-117`), but first takes `closeMu`
   (line 119), which a `Push` blocked on the full queue holds for reading. With a
   sink that hangs, `Close` never looks at `ctx`.
3. `wal_one_byte_tail` violates `EndsInLineFeed`. `repairTail` (`wal.go:80`) takes
   one byte after the last event for its line feed without looking. If it is
   another byte, which unsynced data after a power loss can be, the file is not
   repaired, the next event is appended to the junk, and the restart after that
   cuts it off.

Two more observations, which no run reports. A watcher whose `handleWS` registers
after the sweep of `Server.Shutdown` (`server.go:147`; the sweep is lines 89-94) is closed by
nobody, and if it does not read, the broadcaster waits for it and never sees `stop`;
the process ends soon after (`StuckOnLateComer`). And the broadcaster writes to
connections from its copy of the list (`server.go:189`), after their handler may have
returned and the library may have recycled the object; what it does then is the
library's.

## 7. Not modelled

- `chart.go` (one read-only SQL query), `scripts`, `infra`, `web`: no state of the exchange.
- Set-up: `Listen`, `Addr`, `NewAWSPublisher`, the tables `NewBatcher` creates, flags.
- The wire format of the TCP server, the HTTP library, latencies of the load client.
- `WAL.Close` hanging in the kernel (`shutdown.go:82`): no model says when a system
  call does not return.
- Overflow of `TotalVolume`: the limits of `ingest.go` put it out of reach.

## 8. Plan

Done, in this order: the ring with its contract, its safety and liveness; price
heaps and book with the naive book; WAL; batcher; ingress, exchange and shutdown on
the contract; the proofs about the ring; the ring without a journal; the TCP server
with the contract of its port, and the load client on that contract; the live book;
the proofs about exchange, shutdown, archiver and server, and the two refinements;
the proofs about the ring without a journal, the log, the order book with its heaps and
its refinement of the naive book, and the load client.

Left: a safety contract of the live book (who may still be written to after
`Server.Shutdown`), which would give WebSockets a theorem; the file and the
recovery of Exchange as a refinement of WAL, which today are two models of one file that
meet only in what `ReadAll` returns.
