# Formal model of the NSE low-latency trading system

TLA+ modules that model the concurrent and stateful parts of the trading system
under `src/`, TLC configurations that check them on small instances, and TLAPS
proofs of the central invariants for every value of the constants.

## The system and its parts

| Part | Source | State | Operations that change it | Module |
|---|---|---|---|---|
| Ring buffer (SPSC) | `common/ring_buffer.hpp` | `head_`, `tail_`, `buffer_` | `push`, `pop` (`size` reads) | `RingBuffer` |
| Async logger | `common/logger.hpp` | ring, `running_`, `flush_request_` | `log`, `DrainLoop`, destructor | `Logger` |
| Order table | `order_book/order_book.hpp:132-231` | `orders_` | `InsertOrder`, `EraseOrder` | `OrderTable` |
| Order book | `order_book/order_book.hpp`, `price_level.hpp` | levels, orders, `expected_seq_`, `stale_`, tick | `apply_event`, `clear`, `set_tick_size` | `OrderBook`, `ExchangeBook` |
| Event generator | `sim/mtbt_generator.hpp` | `live`, `mid_`, counters | `generate_mbo` | `MtbtGenerator` |
| Book manager | `order_book/book_manager.hpp` | `slots_` | `add_token`, `route` | `MarketDataPath` |
| Feed handler | `feed_handler/feed_handler.hpp` | `StreamStats` | `on_packet`, `clear_retransmit` | `FeedHandler` |
| MTBT parser | `feed_handler/mtbt_parser.hpp` | statistics | pure decoding | constructors of `OrderBook` |
| Market data gateway | `gateway/market_data_gateway.hpp` | `out_`, `dropped_` | `poll_once` | `MarketDataPath` |
| Order manager | `order_manager/order_manager.hpp` | `table_`, `next_clordid_`, `live_count_` | `new_order`, `on_ack`, `on_fill`, `on_cancel_ack`, `on_reject` | `OrderManager` |
| Order gateway | `gateway/order_gateway.hpp` | connection | `connect`, `send_order`, `poll_response` | `OrderEntry`, `NnfSession` |
| NNF session | `session/nnf_session.hpp` | login state, timers, `out_seq_` | login, logout, disconnect, heartbeat | `NnfSession` |
| Risk manager | `risk/risk_manager.hpp` | position, P&L, bucket, kill switches | `check`, `on_fill`, `set_kill_switch` | `RiskManager` |
| Strategy | `strategy/market_making.hpp` | quotes, position, pending orders | `on_book_update`, `on_fill`, `on_cancel` | `MarketMaking` |
| Quoting math, market hours | `strategy/quoting_math.hpp`, `common/time_utils.hpp` | none | pure | `QuotingMath`, `MarketRules` |
| Pipeline | `pipeline.hpp`, `main.cpp` | orders last sent | `process`, `on_fill` | `Pipeline` |
| Backtest | `sim/backtest_engine.hpp`, `fill_simulator.hpp` | simulated quotes | `run_backtest`, `register_order`, `on_event` | `Backtest` |
| iRage adapter | `irage/mystrat.cpp` | per-symbol rejects, kill flag, settings | callbacks on three threads | `IrageStrat` |

Data flows in two directions. Inbound: two multicast sources carry each stream;
the gateway thread gives packets to the feed handler, which removes duplicates,
notes gaps and emits events; these go through a ring to the order book thread,
which routes them to the book of their token. Outbound: the strategy quotes on
the book, risk approves, the order manager records the order and encodes it, the
order gateway sends it, and replies come back to the order manager. The iRage
adapter is a second way out: the same quoting math on a vendor platform that
owns the session, the feed and the order slots.

What is hard here is what the properties are about: two threads on a ring
without locks; packets lost, repeated, late and overlapping; a book that must
know when it is wrong; a hash table that deletes by moving records; a slot table
indexed by the low bits of an id, with replies that may be lost or late; orders
refused behind the strategy's back and cancels that are never sent; a kill
switch thrown by another thread in the middle of a decision.

## Modules

- **`BoundedFifo`** is what a queue promises. **`RingBuffer`** has one action per
  shared access of `push` and `pop`. The counters wrap (at `Wrap`, for 2^64) and
  an acquire load returns any value the other side stored since the last one
  seen, which is what the C++ memory model guarantees.
- **`Logger`** extends `RingBuffer`: `log` is its producer, the drain thread and
  then the destructor its consumer. `user` says whether a behaviour is the
  logger's or that of two bare threads, with which the ring is checked alone.
- **`OrderSet`** is a bounded set of order numbers. **`OrderTable`** is the
  open-addressing table, with `EraseOrder` one loop iteration at a time and an
  arbitrary hash function.
- **`OrderBook`** has one operator per method of the class, a function from a
  book record to a book record; `hung` stands for the endless loop of
  `EraseOrder` on a full table, which `OrderTable` exhibits. **`ExchangeBook`**
  puts the book beside an exchange (external) that publishes what happens to its
  orders. **`MtbtGenerator`** adds the synthetic stream as a second publisher:
  `generate_mbo` one message at a time, a random number being any of its range,
  with its list of live orders, from which it removes by moving the last.
- **`FeedHandler`** is `on_packet`, one action per loop iteration, because each
  `emit` is visible to another thread. The two sources are one network from
  which any packet may come any number of times or never. **`MarketDataPath`**
  composes it with the event queue (the FIFO that `RingBuffer` is shown to be)
  and one `OrderBook` record per watched token.
- **`OrderManager`** has one action per handler, callable in any order with any
  id; unused slots start with arbitrary ids, as `LiveOrder::order` has no
  initializer. **`OrderEntry`** adds the exchange (external) and a connection
  that delivers in order and loses what is in flight when it drops. Its `caller`
  variable chooses between that exchange and calls of anything by anyone. The
  dispatch of a reply to its handler is not in the repository and is external.
- **`NnfSession`** is the session object and the gateway under it, on a
  connection that may end at any moment. The thread that drives it (external)
  encodes a message, sends it and notes it in three steps, polls, and tells the
  session of a lost connection some time later or never. The clock is
  `CLOCK_REALTIME` and may be set at any time; differences of times are unsigned.
- **`MarketRules`** and **`QuotingMath`** are pure operators. Integer division
  truncates towards zero, as in C++ (`Trunc`).
- **`RiskManager`** is `check` in the order of its conditions, in two steps,
  between which another thread may throw the kill switch. The bucket counts
  clock units (`Cost` per order) instead of doubles. **`MarketMaking`** has one
  operator per method on a record of the strategy's fields.
- **`Pipeline`** composes book, strategy, risk and order manager: `process` is
  one step up to the strategy's orders, then two per order. `driver` says who
  calls it: the live loop with a venue (external) or **`Backtest`**, the loop of
  `run_backtest` with the fill simulator. **`MCTrading`** is their instance.
- **`IrageStrat`** is `onMarketData` in four steps per symbol: it looks at the
  tick and the inventory, judges by the reject counters, and sends one order for
  each side. Everything the other threads do may happen between any two of them.
  `sendOrder` and the slots are those of `irage/mock`; a slot is the working order
  and the request in flight. An answer of the exchange (external) first moves slot
  and inventory; the callback that counts rejects is a later step. **`MCIrage`** is
  its instance.
- **`RingBufferProofs`**, **`LoggerProofs`**, **`FeedHandlerProofs`**,
  **`OrderManagerProofs`**, **`NnfSessionProofs`**, **`RiskManagerProofs`**,
  **`MarketMakingProofs`** and **`IrageProofs`** hold the theorems.

Operators with a comment "Mutant of X" are wrong variants of X. They
are used by no specification; substituting one for X makes the property that is
meant to catch it fail.

## Runs

Bounds are chosen so that every wrap, eviction, collision and loss happens.

| Run | Instance | Result |
|---|---|---|
| `ring_two_threads` | 2 slots, counters wrap at 8, 2 values, one of them critical | FIFO refinement, no slot race, `size` in range, every element consumed; the logger sleeps flushed, closes complete, and its destructor returns |
| `table_sparse` | 4 orders, 8 slots, all 4096 hash functions | a set, findable, erase ends |
| `table_full` | 2 orders, 2 slots | **violated**: erase does not end on a full table |
| `book_any` | 2 orders, 3 prices, 2 levels, 2 table slots, any event | arrays sorted and bounded, stale book frozen |
| `book_lossy` | 3 orders, 2 prices, 5 messages, losses and Snap Quotes; or a generated stream of 10 messages | the book mirrors the exchange or is stale; on the generated stream it is never stale and equals the generator's list |
| `book_reseed` | Snap Quotes, no loss | **violated**: a seeded level outlives its orders |
| `path_lossy` | 4 messages, batches up to 3, queue of 2, heartbeats | events in order, once, losses reported exactly; a fresh book is complete; a Snap Quote ends staleness |
| `path_two_tokens` | two tokens on a stream | **violated**: a gap is counted without a loss |
| `entry_exchange` | 2 slots, 3 ids, disconnects, any call | count exact, live orders keep their slot, no working order forgotten; agreement without loss |
| `trading` | one token, 4 markets, 3 live or 6 recorded events, 4 times of day, 2 order slots | rate bound, kill lag, no self-cross, position and cash agree, no venue order forgotten, quotes fresh |
| `irage` | one symbol with two sides, 3 ticks, 2 daily ranges, quotes of 2 lots, maximum of one lot and one reject | kill and close end with no order; kill lag, overshoot, rejects beyond the maximum and prices bounded |
| `session` | heartbeat every 2, reconnect window 1, a clock set to any of 4 times, 4 numbers, 3 messages in flight | a ready session is signed on on its connection and numbers agree |

The violated properties quote a comment of the code; `PROJECT.json` names the
comment, the line and what the code does instead.

Deadlock is checked except where the system really may stop: a hung book, an
exchange that has sent its last message, an order manager out of ids, a closed
logger, and the end of a recorded session.

Symmetry is not used: most runs check a temporal formula, and prices and ids are
ordered.

### Bounds

`MaxSeq`, `MaxBatch`, `MaxId`, `MaxQty`, `MaxFilled`, `MaxCount`, `MaxGen`,
`MaxEvents`, `MaxTime`, `MaxSends`, `MaxFlight` bound counters and queues of the
code that have no bound there; `Capacity`, `TableSize`, `OmSlots`, `MaxLevels`,
`QueueSize`, `MaxLive`, `Depth` are small values of its constants. `Wrap` of the
ring is a multiple of `Capacity`, as 2^64 is, and `Wrap` of the session exceeds
every time. In `book_lossy` five messages are enough for add, modify, loss, Snap
Quote and one event after; its eight levels a side never overflow, and `book_any`,
with three prices and two levels, is the instance that does. In `path_lossy` a queue
of two is full after two messages of a batch of three. In `trading` two order
slots fill up with superseded orders, a bucket of two runs dry, one lot is the
position limit, and the times lie before, in and after the quoting hours; six
recorded events let an order be registered, filled and registered again. In
`irage` one daily range is off the tick grid on both sides of the markets and the
other has no price of the grid at all; the bounds on the position and on the
rejects are reached exactly. In `session` a window of 1 is missed and met, and
four numbers let a reconnect start below, at and above where the last login left.

### Fairness

- `RingBuffer`, `Logger`: the consumer takes an element whose publication it can
  see, and ends a `pop` it began. The drain thread and a destructor that began go
  on; a `pop` in a loop that keeps loading `tail_` sees the current value at
  some time (strong fairness), which is what C++ asks of atomics: a store becomes
  visible in finite time.
- `OrderTable`: the loop of `EraseOrder` runs; nothing in it blocks.
- `MarketDataPath`: the order book thread keeps popping. `OrderEntry`: the client
  keeps polling for replies.
- `IrageStrat`: the platform calls `onMarketData` again and again, a pass goes on,
  the RECV thread makes the call it is about to make, and the exchange answers each
  request. Without the last no cancel is possible,
  as the platform refuses it while a request is unanswered.

Nothing else is assumed of the network or the exchange. `NnfSession`, `Pipeline`
and `Backtest` have safety properties only. That a heartbeat goes out in time is
not claimed: the thread that asks for it is not in the repository.

## Proofs

Assumptions are the named ASSUMEs of the modules, which state what the code's
`static_assert`s, types and configuration state; TLC evaluates them on every run.

- **Ring buffer.** `RingInv` is inductive: in the cyclic order of the counters
  `seenHead`, `head`, `seenTail`, `tail` follow each other within `Capacity`; a
  producer past its check has a free slot, a consumer past its check an element.
  The bare no-race property is not inductive, because a check made earlier with
  an old counter must still be valid now. Modular differences are first turned
  into linear case distinctions; two positions less than `Capacity` apart have
  different slots. From it follow `NoRace`, `SizeCorrect` and, with the
  refinement mapping, `Refinement`: the ring implements `BoundedFifo`.
- **Logger.** `LogInv`: output that is not flushed exists only between the first
  pop of a round and its flush, and then `any` is set; once the destructor has
  joined, no other thread moves. `SleepsFlushed` and `ClosedComplete` follow.
- **Feed handler.** `FeedInv` adds to the three safety properties that emitted
  numbers and the gap lie below `next_seq` and that nothing was emitted before
  the first message.
- **Order manager.** `ManagerInv`: occupied slots hold open orders and
  `live_count_` is their number; the two need each other, as `Release` decides by
  `occupied` whether to count. `LiveOrdersKept` is an action property from it.
- **Risk manager.** `RateLimited`: for any two approved orders, those between
  them cost at most a full bucket and the time between. The invariant adds what
  the bucket owes: from each approved order on, the tokens left and the orders
  since are covered by the cap and the time that the limiter has seen. `KillStops`:
  at most the one `check` that had loaded the switch still approves.
- **Strategy.** `NeverSelfCrossed` needs that the desired bid lies below the
  desired ask in any uncrossed market (the skews move both by the same ticks, and
  a one-tick market falls back to the touch) and that a side which is kept has the
  desired price.
- **Session.** `NumberingAgrees`, from `SessionInv`: on a connection that works, a
  session that was not yet answered has nothing but its sign on or the answer to it
  in flight, and a session that is ready has no answer in flight and its number is
  the exchange's plus the application messages on the way. The property alone is
  not inductive, as the answer to a sign on makes it true from what is in flight.
- **iRage adapter**, for any number of symbols. `IrageInv`: rejects counted, not yet
  counted and still to come from a quote in flight or in the plan stay within the
  maximum and two, so `RejectsStayBounded`; a pass that quotes under a thrown switch
  began before it and has sent at most two quotes for each symbol behind it, so
  `KillLagBounded`. `GateInv` adds up, per side, the position, what is left of the
  working order and what a request or plan may still bring, within the maximum and
  three quotes less two units, so `InventoryStaysBounded`.

The inductive invariants `RingInv`, `FeedInv` and `ManagerInv` also hold on the
small instances, but no run repeats what is proved.

Only model-checked: liveness (`Delivered`, `EraseReturns`, `ReseedRecovers`,
`SlotReleased`, `DestructorReturns`, `SweepCompletes`), which TLAPS does not do;
`OrderTable`, `OrderBook`, `ExchangeBook`, `MtbtGenerator`, `MarketDataPath`,
`OrderEntry`, `Pipeline` and `Backtest`, not proved; `SentInDpr` of `IrageStrat`;
the binary searches of the book, which are recursive functions. `irage` has one
symbol; that symbols do not disturb each other is shown by the theorems only.

## Not modelled

- Byte layouts (NNF encoder, MTBT offsets, `encode_capture`), sockets and their
  options, thread pinning, formatting, CSV loading, metrics, fees, command line
  tools, benchmarks and the dashboard: no control the properties depend on.
- The memory pool and `MtbtGenerator::generate`: the program does not use them.
  `PriceLevel::modify_order` and `OrderBook::set_token` have no caller.
- More than one token in risk, strategy and pipeline: the daily P&L, which mixes
  tokens, is listed as a hazard.
- Statistics (`packets`, `messages`, `malformed_`, latency probes, dropped log
  entries); `duplicates` is a set.
- Set-up and display of the iRage adapter (`initialize`, `getUIData`,
  `onTimerUpdate`) and the STOP mode, in which the platform cancels.
- Two consumers on the logger's ring (`Flush` beside the drain thread), which the
  ring's contract excludes.

Some behaviour that is visible in the models and disagrees with a comment or a
document has no run of its own and is described with the hazards in
`PROJECT.json`: late messages counted as duplicates, heartbeats that take a
sequence number, `last_sent()` after an event without orders, pre-close cancels
that nobody sends, and rejects that pass `kMaxConsecutiveRejects` by up to two
where the iRage README says "we stop short of it".

## Possible extensions

`RiskManager` and `MarketMaking` with two tokens; `OrderTable`'s `Findable` by a
probe-path invariant and `OrderBook`'s `StaleIsFrozen` as theorems; `NnfSession`
under `OrderEntry`, so that orders survive a reconnect.
