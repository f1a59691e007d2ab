# Formal model of cpp-lessons

`cpp-lessons` is a course on C++ for low-latency trading.  Its running code is a
small tick-to-trade program (`src/examples/capstone/`), the components the lessons
build up to it (`src/examples/*.hpp`) and a static-site generator in Python.  This
directory holds TLA+ modules of that code, TLC configurations that check them on
small instances, and TLAPS proofs of the properties that matter most.

    tlc -config SpscQueue.cfg SpscQueue         # check a model
    tlapm SpscQueueProofs.tla                   # check the proofs

## 1. Inventory

| component | state | operations | talks to |
|---|---|---|---|
| SPSC queue, `spsc_queue.hpp` | `head_`, `tail_` (atomics), `cached_tail_`, `cached_head_`, `slots_` | `try_push`, `try_pop`, `size_approx` | two threads, shared memory |
| capstone threads, `capstone/main.cpp` | `g_log`, `g_logging`, the logger's `drained`, `Stats` | `run`, `logging_thread`, `main` | queue; one call each into decoder, guard, book, strategy, risk per message |
| order book, `capstone/book.hpp` | level quantities, best levels, order slab with free list, id table | `on_add`, `on_reduce`, `clear`, getters | called by `run` and `trace_demo`; read by the strategy |
| decoder and guard, `capstone/decoder.hpp` | `expected_`, `gaps_`, `duplicates_` | `decode_*`, `SequenceGuard::accept` | called by `run` |
| strategy, `capstone/strategy.hpp` | `position_`, `last_px_`, `last_side_` | `on_book`, `on_fill` | reads the book, is told of fills |
| risk gate, `capstone/risk.hpp` | `killed_`, `window_start_ns_`, `in_window_` | `check`, `kill` | sees the strategy's order and position |
| feed generator, `capstone/feed.hpp` | `live_`, next id, sequence number, random state | `generate` | produces the byte stream `run` consumes |
| trace ring, `trace_ring.hpp`, `capstone/trace_demo.cpp` | `head_`, `buf_` | `put`, `snapshot`, journey assembly | hot thread writes, cold thread reads |
| containers, `static_vector.hpp` | sizes, storage, free list | `StaticVector`, `Arena`, `ObjectPool` operations | none |
| benchmark support, `bench.hpp` | histogram buckets, generator state | `record`, `percentile`, `Rng` | the demos |
| SPSC demo, `spsc_demo.cpp` | two queues | ping-pong, throughput | two threads |
| site generator and lint, `build.py`, `lint.py` | fence and admonition stacks | `Renderer.render`, `check` | files |
| scripts, `check_snippets.py`, `repl/`, `assets/`, CI | none that outlives a call | run tools, rewrite text | external programs |
| demonstrations, `cache_effects.cpp`, `alloc_guard_demo.cpp` | a global flag | measure, abort on allocation | containers |
| lesson listings, `content/34, 36, 37, 40` | seqlock; feed arbitrator; ladder book and id map; rate limiter, fixed-point arithmetic | as listed | none |
| lesson 41's program, `content/41` | its own book, id map, strategy, gate, log queue and flag | as lesson 37 and the capstone | a logger thread |

What is hard, and what makes each part correct:

- **SPSC queue.** Two threads, no locks, weakly ordered memory, stale private copies
  of the other side's index, indices that run for ever modulo 2^w.  Correct means: no
  data race on a slot; exactly the accepted elements come out, in order; a refusal
  means full, or empty; together, an atomic bounded FIFO.
- **Capstone threads.** The hot thread must never wait; the logger must not leave an
  accepted record behind although it reads a flag and a queue size at two different
  moments; shutdown must end.
- **Order book.** Single-threaded, but a long sequence of legal calls has to keep four
  structures in step: slab, id table, level totals and cached best prices.  A broken
  probe chain or a missed rescan shows only many calls later.
- **Strategy and risk.** Positions, fills and limits are updated in an order that
  decides whether a limit can be passed; the rate window depends on a clock that one
  of the two runs does not have.
- **Feed, guard and book together.** The generator's idea of which orders are alive
  against the book's; gaps and duplicates that are counted and then ignored; a lost cancel
  that keeps its slot of the slab.
- **Trace ring.** A reader copies what a writer is overwriting; what is torn must at least
  be confined to what was lapped, and the journey decoder must drop what was cut off.
- **Containers.** Boundary cases (empty, full, the width of a size, an odd address), elements
  whose copies throw in the middle of an operation, constructors and destructors that call
  the pool they run in.
- **Histogram, fixed point.** Truncation, rounding, saturation.
- **Seqlock.** Correct only by two release fences and one acquire fence around relaxed
  accesses; and the shared segment outlives the process that writes it.
- **Feed arbitrator.** Two lossy lines that drift apart.
- **Ladder book, id map.** As for the capstone's book, with links to keep besides.

`PROJECT.json` lists the same components with their status, and the hazards of this
code line by line with the property that watches each.

## 2. Plan

| # | module | composes | status |
|---|---|---|---|
| 1 | `BoundedFifo` - abstract queue | | done |
| 2 | `SpscQueue` - the queue under release/acquire | implements `BoundedFifo` | done |
| 3 | `LogDrain` - hot thread, logger, shutdown | extends `SpscQueue` | done |
| 4 | `SpscQueueProofs` - of the queue and of the hand-off | extends `LogDrain` | done |
| 5 | `AbstractBook`, `Book`, `MCBook` | `Book` implements `AbstractBook` | done |
| 6 | `SequenceGuard` - gaps and duplicates on a bad line | | done |
| 7 | `Quoting`, `MCGuards` - strategy, fills and risk gate | | done |
| 8 | `TickToTrade` - generator, guard, book, strategy, risk | `SequenceGuard`, `AbstractBook`, `Quoting` | done |
| 9 | `LossyFeed` - generator, guard and book behind a bad line | extends `SequenceGuard` | done |
| 10 | `TraceRing` - one writer, one copying reader; `TraceDemo` - the journeys | | done |
| 11 | `BoundedBags`, `StaticVector`; `Arena`; `ObjectPool` | `StaticVector` implements `BoundedBags` | done |
| 12 | `Histogram`, `MCHistogram` | | done |
| 13 | `SpscDemo` - both measurements of the demo | extends `Histogram`, three instances of `BoundedFifo` | done |
| 14 | `Seqlock`, `FeedArbitrator` (lessons 34, 36) | | done |
| 15 | `IdMap`, `LadderBook` (lesson 37), `RateLimiter`, `FixedPoint` (lesson 40) | | done |
| 16 | `DataLemmas` - division, least elements, recursion, sums | | done |
| 17 | `BookProofs` - id table, slab, ladder, and the refinement of `AbstractBook` | extends `MCBook` | done |
| 18 | `GuardProofs`, `TickToTradeProofs` - guard, quoting, and the loop over both | | done |
| 19 | `ContainerProofs`, `LessonProofs`, `DemoProofs` | each extends the components it is about | done |
| 20 | proofs of `LossyFeed`, `IdMap`, `LadderBook`, `Histogram`, `TraceDemo` and of `ImplementsBoundedBags`, in the modules of rows 18 and 19 | | done |

Abstract specifications: a bounded FIFO for the queue, a keyed set of resting orders for
the book, bounded bags for the vectors, and, inside `LadderBook` and `IdMap`, the plain list
that the lesson wants the fast structure compared with.

Components that share no state are checked together: `MCGuards`, `MCBookAndDemos`,
`MCTradeAndContainers` and `MCLessons` each extend several modules and choose at the start, in the variable `used`, the
one that moves.  A behaviour in which several moved would be an interleaving of independent
ones and could violate nothing that one of each cannot.  That is why those modules name their
initial states, steps and variables apart (`PoolInit`, `PoolNext`, `pool`, and so on).

## 3. The modules

### `SpscQueue`: `spsc_queue.hpp`

Each atomic index is its *modification order*, a sequence of messages `[val, view]`:
`val` is the w-bit value stored, `view` the number of slot accesses of the storing
thread that happen before any load that acquires the message.  A thread knows its own
index exactly; a load of the other one may return any message not older than the last
it read.  That is what the C++ memory model grants a single-writer atomic: staleness
without limit, coherence, and synchronisation by release and acquire.

`slots_` is plain memory.  Every slot carries the ordinal of its last write (`wEpoch`)
and last read (`rEpoch`); `pView` and `cView` say which accesses of the other side are
known to be ordered before the thread's next step.  An access to a slot whose last
conflicting access is not covered is a data race.  The race itself is the property
(`RaceFree`); since it never happens the values read need no nondeterminism.

Actions follow the code's atomic accesses: `PushBegin` (own load, test against the
cached tail), `LoadTail(i)` (fresh load, second test, refusal), `WriteSlot(v)`,
`StoreHead`; `PopBegin`, `LoadHead(i)`, `ReadSlot`, `StoreTail`; `SizeApprox(i)` called
by the consumer, as the logger does.  `sent` and `received` are history variables.
`Capacity` need not be a power of two here: `SpscAssumption` asks for what the code
uses, `Capacity + 1 < 2^w` and `Capacity` dividing `2^w`, which `i & kMask` needs to
stay continuous when the index wraps.

### `BoundedFifo`

The promise: a FIFO of at most `Capacity` elements with atomic `Put` and `Get`; refusals
stutter.  `SpscQueue!ImplementsFifo` maps the abstract content to what the slots between
`tail_` and `head_` hold in memory, so a slot overwritten too early breaks it.

### `LogDrain`: the two threads of `capstone/main.cpp`

`Hot` is the main thread: `LogRecord` starts a `try_push`, `ReloadTail` may end in a
refusal that increments `dropped_logs`, `FinishPush` writes and publishes, `Stop` clears
`g_logging` at the end of the feed, `Join` waits.  `Logger` is `logging_thread`:
`LoadFlag(j)` reads any not-too-old message of `g_logging`, `CheckSize(i)` is
`size_approx`, then the steps of `try_pop`; a successful one counts into `drained`.
Messages of `g_logging` carry what its release store publishes: the messages of `head_`
and the slot writes before it.  A logger that has acquired `false` can therefore not
miss a published record, and this is what the loop condition depends on.

### `Book` and `AbstractBook`: `capstone/book.hpp`

Variables are the class's members; the two sides are one function indexed by side.
`OnAdd` and `OnReduce` are the whole handlers.  `FindId`, `InsertId` and `EraseId` work on
the table as the loops do: linear probing from `Home[id]` (the hash, an arbitrary
function), and backward-shift deletion as a recursive function over the run of occupied
slots behind the erased one, with the code's cyclic-interval test (`Movable`).
Quantities are Qty words, `% QtyWord`.  Prices off the ladder and a full slab are
`IgnoreAdd`, an unknown id is `IgnoreReduce`.

Assumed of the caller: an id that rests is not added again and quantities are at least
one.  Assumed of the sizes: a level's total fits its word (`BookAssumption`).  A released
slot keeps only `next_free`; its other fields are stale in the code and overwritten
before they are read.

`AbstractBook` is a function from resting ids to side, level and quantity, which one
operation changes at one id.  Its operators `Depth` and `Touch` are the reference
definitions of level quantity and best price, over any such function.  `MCBook` keeps what a
caller sees (`Resting`, every id looked up in the table) in a variable `shown` beside the book and
checks that `shown` behaves as the abstract book.

### `SequenceGuard`: `decoder.hpp`

`Start`, `InOrder`, `Duplicate` and `Gap` are the four branches of `accept`.  The line is
external: `Deliver(n)` hands over any message any number of times in any order, its number
taken modulo `SeqWord`.  `delivered` is a history variable; the counters are compared with
what it says was skipped or repeated.

### `Quoting`: `strategy.hpp`, `risk.hpp`, the fills of `main.cpp`

One step is what `run` does after a book update.  `Quiet` is `on_book` returning no order;
`Order` is `on_book` producing one, `RiskGate::check` with its refusals in the code's order,
the simulated fill and `on_fill`.  `LeanSide`, `Micro`, `QuotePrice` and `Quotes` are the
stages of `on_book`.  `Tick` moves the clock, which a message reads once, and only in the
measured pass (`measure`, chosen at the start).  `Kill` is `kill()`, which the gate offers and nothing in the
repository calls.  `quote_number` is kept modulo `FillPeriod` (64 in the code), and
`in_window_` is saturated one past the limit.

Here the touch is any of `Touches`, so nothing about quoting depends on how the book moves.

### `TickToTrade`: `feed.hpp` and the loop of `run`

Composes `SequenceGuard`, `AbstractBook` and `Quoting` over one set of variables.  `Add`,
`Cancel` and `Execute` are `encode_add`, `encode_cancel` and `encode_execute` followed by
everything `run` does with the message: `Numbered` (the guard), the change of the book, and
`React` (`on_book`, the gate, the fill) on the changed book.  The book here is the
abstract one; run `book_and_demos` shows that `Book` implements it.  `live_` is the
generator's vector as a set: ids are picked from it at random and none is in it twice.

### `LossyFeed`: the guard's verdict against the book

`run` shows each message to `SequenceGuard::accept`, ignores the answer and applies the
message.  `SendAdd`, `SendCancel` and `SendExecute` are the generator; `exchange` remembers
its book after every message.  `Handle(i)` hands message `i` over, any number of times and
in any order, to the guard (`SequenceGuard`, which the module extends) and to a book in which price and side
are left out and an id added twice has two entries, as in the code's table.  Of the two refusals of
`on_add` one cannot occur here: the generator keeps every price within ten ticks of its reference,
far inside the ladder.  The other can (`Exhausted`): an order whose cancel was lost keeps its slot, and
once such orders fill the slab the next add is dropped.  `refused` remembers the ids to which that happened.

### `TraceRing` and `TraceDemo`: `trace_ring.hpp`, `capstone/trace_demo.cpp`

A record is named by its number.  `StoreField(f)` is a plain store of one field, `StoreHead`
the release of `head_`.  `Begin` loads a possibly old `head_`; `Copy` copies one record, each
field of it independently from any store the load did not already supersede (`Visible`): the
data race that the code's "best effort" accepts is that choice.  `TraceDemo` runs the message
loop with its five stamps on one thread, each piece of work taking any time of `Cost`, then
`Assemble` takes the snapshot and folds the decoder's switch (`Decode`) over it.

### `StaticVector`, `BoundedBags`, `Arena`, `ObjectPool`: `static_vector.hpp`

`StaticVector` holds several vectors as raw storage and a size word of the width the code
selects.  Copying an element may throw (`result' = "threw"`), at any element of an assignment
or constructor.  After a constructor that throws there is no vector whose destructor could run: what
it had copied stays in the storage (`ConstructThrows`), and `given_up` names the storage it stays in.  `BoundedBags` is the promise, `ImplementsBoundedBags` the refinement.

`Arena` keeps addresses as numbers modulo `Memory` and remembers every block handed out.
`ObjectPool` splits `acquire` and `release` at the point where `T`'s constructor or destructor
runs, and keeps the calls in progress on a stack, so that they may nest; `AcquireThrows` is a
constructor that throws.

### `SpscDemo`: `spsc_demo.cpp`

Main and the two consumers, over `BoundedFifo` three times.  A refused try is another turn
of a spin loop and stutters.  The second consumer is the first's successor in the
variable `consumer`, as `ping_pong` has joined the first before `throughput` starts.  Every
round after the warm-up records half of an arbitrary elapsed time in the histogram, so the
properties of `Histogram` are checked on what the demo feeds it.

### `Histogram`: `bench.hpp`

`Record` and `Percentile` as written; a probability is a fraction, and a product that is a whole
number may be truncated to one less, because the double may lie below the fraction.  `MCHistogram`
records a few samples in it and nothing else.

### `Seqlock`: lesson 34

Memory keeps all stores to a location; a load takes any that its thread's view has not
left behind.  A store carries the view of its thread's last release fence; a relaxed load sets that
view aside (`pending`) until the next acquire fence, an acquire load takes it at once.  These
are the C++ rules for fences.  The payload words are relaxed atomics as in `WordSeqlock`;
the plain `memcpy` of the first listing is a race, as the lesson says.  `load` is
`try_load` repeated.  `Crash` is the writer that dies inside an update, in lesson 34's shared
segment.

### `FeedArbitrator`: lesson 36

`Process`, `Duplicate` and `Gap` are the branches of `classify`.  The lines are external: each
delivers in order or loses.

### `IdMap`, `LadderBook`: lesson 37

`IdMap` is the open-addressing table with any hash function (`home`); `Probe` is where a
probe ends, `Erased` folds one turn of the backward shift (`ShiftedOne`) over the slots behind the
hole.  `LadderBook` composes each operation from small book-to-book steps (`Before`, `After`,
`RepairBest`, `Freed`, `Unlinked`, `Added`), beside the effect on the reference list `orders`.  Prices
are any number of ticks from `base_`; `SlotOf` is the cast of `add` to a word of `IntWord` values, which
comes before the comparison with the window.  An order of the reference list keeps its price and
the slot that `add` made of it.

### `RateLimiter`, `FixedPoint`: lesson 40

`Allow(t)` is `allow`; `allowed` remembers the times of what was allowed.  `FixedPoint` has one state
per call: divisor and dividend, or step and numerator, every combination below the bounds.

## 4. The runs

| run | asks | bounds and why they suffice |
|---|---|---|
| `spsc_queue` | race freedom, FIFO delivery, justified refusals, refinement of `BoundedFifo` | 2 slots, indices mod 4, 6 pushes: indices wrap, each slot is used three times, every stale message is offered to every load; about 7,000 states |
| `log_drain` | nothing left behind at exit, the hot thread never waits, shutdown ends | 2 slots, 5 calls of `try_push`: queue fills, records are dropped, the flag is cleared with the logger at each of its steps and with 0 to 2 records queued; 11,000 states |
| `guards` | **feed**: counters and answers of the guard under loss, repetition, reordering; what clean counters, and a clean history of one id, say about the book; **orders**: quotes inside the touch, position, burst, stale quotes | **feed**: 3 orders of 2 lots, executions of 1, 5 messages, 5 deliveries in any order, no wrap: several gaps, late and repeated messages at once; an add lost and its cancel kept, an add repeated after its cancel, an execution before its add; a slab of 2 for 3 ids, so that a lost cancel makes it refuse an add; 565,000 states; **orders**: spreads of 1, 2 and 4, both sides heavy or not; every gate refusal that can occur; 5 instants and a window of 2, so that bursts straddle an edge; every second quote fills; with a clock and with all timestamps 0; 7,800 states |
| `trade_and_containers` | **loop**: feed, guard, book and quoting together; **containers**: pool: slots, free list and count under nested and throwing calls; vectors: lifetimes, and the refinement of bounded bags; arena: alignment, disjointness, justified refusals | **loop**: 3 orders of 1 or 2 lots at 4 prices, executions of 1, sequence numbers modulo 3 (they wrap twice and more); 36,000 states; **containers**: pool of 4, calls nested 3 deep; 2 vectors of 3, with words of 3, 16 and 64 values for the size, the first too narrow for 3, initializers of up to 4, constructors that throw after 0 to 2 elements; a buffer of 14 bytes at address 3, requests of 2, 3, 7 and 20 bytes at alignments 1, 2 and 8; 253,000 states |
| `book_and_demos` | **book**: id table, slab, level totals and best prices agree, and are the abstract book; **demos**: ring: where a racing snapshot may be wrong; journeys: which are assembled, from which stamps; queue demo: deadlock, pairing of replies, counts, termination, percentiles | **book**: 3 orders, 3 levels, table of 4 with homes 3, 3 and 0: full table runs that wrap, movable and immovable entries, a rescan that skips an empty level; the slab runs out; cancels of zero, part, and too much; 45,000 states; **demos**: ring of 4, 2 fields, 9 records, snapshots of 2 or all (the writer laps the reader twice); 3 messages of 5 stamps in 8 slots, so that the ring begins inside a message; 7 rounds of which 2 warm up, 12 streamed through 4 slots, 3 buckets of 2 and samples 0 to 7, below, on and beyond the last edge; 86,000 states |
| `lessons` | seqlock: torn and old payloads, readers let through; arbitrator: nothing twice, gaps exact; limiter: never above the rate, never below it; arithmetic: against exact results; id map: find, and the table's shape after erasures; ladder: against the list of orders | 2 words and 5 stores, each load free among all stores not superseded; 2 lines and 6 messages, any losses, any lead; 3 per 10 instants (a remainder of 1 is lost per second), 12 instants; all divisors and dividends of 7 bits, numerators to 60 and steps to 12, both signs; 4 ids, 5 slots, up to 3 live, all hash functions up to the names of the ids; 3 ids, 3 slab entries, 3 slots, prices in the window, just below, just above, and one a word of 8 away from its last slot, quantities 1 and 2 (slab full, replace in place and refused); 174,000 states |
| `sequence_guard_wrap` | the guard's answers across the wrap: **violated**, see below | 6 numbers, 7 messages: one wrap |
| `tick_to_trade_ghost` | whether every live id rests: **violated**, see below | as the loop of `trade_and_containers` |
| `trace_demo_stages` | whether the book stage is the book's time: **violated**, see below | as the demos of `book_and_demos` |
| `ladder_alias` | whether only prices of the window rest: **violated**, see below | 3 slots, a word of 8 values, one price 8 ticks above the lowest |
| `histogram_rank_zero` | whether a percentile of 0 means a sample under one bucket: **violated**, see below | 3 buckets of 2, up to 3 samples, the median |
| `feed_arbitrator_late` | whether a duplicate was taken before: **violated**, see below | 2 lines, 3 messages |

Several properties are conjunctions of named parts, each stated in its module where the claim of
the code it answers to is quoted: `RefusesRightly`, `LadderAgrees`, `FeedWellFormed`, `PoolAccounted`,
`ArenaExact`, `SnapshotFaithful`, `JourneysTrue`, `PercentilesTrue`, `HandoffsExact`, `CleanSnapshot`,
`TakenOrReported`, `LimitExact`, `ArithmeticExact`, `MapExact`, `LadderExact`.  The text below names the part
that a remark is about.

**Where the code departs from its comments.**

- `decoder.hpp:55` says `accept` "Returns false when this message is a duplicate or leaves
  a gap."  `expected_ == 0` stands for *not started*, and is also the value after number
  2^32 - 1: whatever comes next is accepted, and nothing counted
  (`sequence_guard_wrap`).  A feed without losses is not disturbed by it (`NoFalseAlarm`).
- `feed.hpp:98` says "A partial fill leaves the order resting, so it stays cancellable."
  Executions are of 10, orders of 1 to 500: one for all that is left removes the order from the
  book, and the generator keeps the id (`tick_to_trade_ghost`).  Later messages for it are
  ignored by `on_reduce`, and no order leaks the other way (`NothingLeaks`).
- `trace_demo.cpp:95` puts the stamp `decoded` after the book update.  The exercise it
  carries out names the boundaries "packet received, decode complete, book updated, ..."
  (`28a-tracing-and-instrumentation.md:333`); as written the update is counted under decode
  and the book column is empty (`trace_demo_stages`).  Totals and the two last stages are right
  (`TotalsAreOwn`).
- Lesson 37, line 296, says of `add` "kNull means the price is outside the window or the slab is
  full", and lines 470-471 ask the reader to "confirm the book refuses out-of-window adds".  Line 298
  casts `px - base_` to `int32_t` before the comparison: a price a multiple of 2^32 ticks away from
  one of the window is accepted in its place (`ladder_alias`).  The book stays consistent slot by
  slot (`LadderExact`), and the capstone's `index_of` compares in 64 bits.
- `bench.hpp:70` says "A reported p50 of 0 means 'under one bucket', not 'free'".  The rank is a
  truncated product: p50 of one sample, p99 of fewer than 100, has rank 0, which the first bucket
  satisfies empty, and reads 0 whatever was measured (`histogram_rank_zero`).  From rank 1 on the
  percentile is its sample's (`PercentileIsFloorOfSample`).
- Lesson 36, line 412, says of `Duplicate` "the other line got here first", and lines 398-399 that the
  handler "takes whichever copy of a given sequence number arrives first".  Once a gap was
  reported, the slower line's copy of a missing message is the first to arrive; it is answered
  `Duplicate` and never taken (`feed_arbitrator_late`).  The message stays in the reported gap
  (`GapsExact`), so the book knows what it lacks.

**Seen on the way,** read off the code and consistent with the models, but not checked by a
run of its own:

- Lesson 34, line 285, warns of a writer that dies and leaves `seq_` odd.  `NeverTorn` covers the
  death.  A writer restarted on the same segment would load the odd value and from then on store
  even *during* an update ("odd: in progress", line 78); the listing has one writer, and
  the model no successor.
- `static_vector.hpp:28-34`: the copying constructors fill the vector in their body.  When an element
  throws there, the destructor does not run and the elements before it are never destroyed.
  `ConstructedUpToSize` states it as the one exception to a vector's lifetime; an assignment that
  throws leaves nothing behind.  No comment of the file claims more.
- `book.hpp:42` drops an add in silence when the slab is full.  Behind a line that loses messages a
  cancel that never arrives keeps its order's slot for ever, so that enough losses make the book
  refuse orders whose own messages all came (`DamageIsLocal` names them).  Nothing counts those
  refusals; what did show is the guard's count of the loss (`CleanMeansFaithful`).
- The program of lesson 41 stops its logger otherwise than `capstone/main.cpp` does: the thread pops,
  and when it finds the queue empty tests `running`, which is stored relaxed (lines 905-912, 941).  It
  may therefore find the queue empty, then see the flag cleared, and leave behind what was
  pushed in between.  The lesson does not claim otherwise.

**What else the runs say.**  Since the strategy buys when flat or short and sells when long,
its position is always flat or one clip long (`OneClip`).  The position limits of strategy and
gate, which `main.cpp:54-56` wants "exercised rather than dead", are never reached with the
shipped sizes.  The rate limit admits up to twice its number within one second across a
window's edge, and in the unmeasured pass it is a limit for the whole pass
(`BurstBounded`).  A quote the gate refused is remembered like one that was sent, and is
not repeated at the same price; a filled one always is replaced (`FilledQuoteReplaced`),
because the fill turns the strategy to the other side.

Two data values are enough for FIFO order here because the properties compare positions
of `sent` and `received` exactly and the value of every push is chosen freely.

`MaxPush` is the only bound on behaviour and cuts a run of the queue or of the capstone
short; it appears as a guard of `PushBegin` and `LogRecord` and is arbitrary in the proofs.
The book has no such bound: its states are finite.  `MaxMessage`, `MaxDeliveries`, `MaxTime`,
`MaxIds`, `MaxPut`, `Messages`, `MaxStores` and `MaxDepth` bound the line, the clock, the feed, the
ring, the writer and the nesting of calls; runs with them may stop there, so `CHECK_DEADLOCK` is
off for `guards`, `trade_and_containers`, `book_and_demos`, `lessons` and the violations (in
`Quoting` a quiet message is always possible, and a call on the book always returns).  `SpscDemo` ends besides, and the
callers of a pool may have lost every handle to constructors that throw.

**Fairness.** `HotSpec`, the specification of `log_drain`, is weakly fair to the hot thread only, so
`HotPathNeverBlocked` says that it does not depend on the logger.  `ShutdownTerminates` assumes
`LoggerScheduled` as well: weak fairness of the logger, as a preemptive scheduler gives, and
strong fairness of its reading the newest message of `g_logging`, as the C++ standard asks that
stores become visible in finite time.  In `SpscDemo` each thread spins and the scheduler runs both:
weak fairness per thread.  In `Seqlock` the reader is weakly fair, and strongly fair in loading
the newest counter, again because stores become visible; the writer may stop anywhere, and
`ReadersGetThrough` speaks of a writer that rests between two stores.  `MCBookAndDemos` and `MCLessons`
give the same fairness to the steps of the module in use.  The queue and the book have no liveness
of their own: a call on them is finite, and nothing forces one.

Every property has a mutant in `PROJECT.json`: a plausible bug (a relaxed store, a test off
by one, a deletion without the shift, a slot not linked back) under which TLC reports
that property violated.  The mutated bodies stand in the modules next to the
definition they replace and are used nowhere else.

## 5. The proofs

Every theorem holds for all constants that satisfy the named assumption of its model, on the
specification the runs check.  The assumptions are those the code makes of its sizes: the queue's
`Capacity + 1 < 2^w`, a book whose level totals fit their word and whose table has more slots than
there are orders (`BookAssumption`), a spread of at least two ticks (`FeedAssumption`), at most one
message per clock tick (`RateAssumption`), a capacity that the widest `size_type` holds
(`VectorAssumption`).  `VectorAssumption` also says that the value outside a lifetime is no bag, which the
choice of that constant decides.

| module | theorem | states |
|---|---|---|
| `SpscQueueProofs` | `TypeCorrect`, `NoDataRace`, `DeliversInOrder` | `Spec => []TypeOK`, `[]RaceFree`, `[]FifoDelivery` |
| | `RefusesOnlyWhenFull`, `RefusesOnlyWhenEmpty` | the two action properties; together `RefusesOnlyAtItsLimits`, `Spec => RefusesRightly` |
| | `Refinement` | `Spec => ImplementsFifo` |
| | `NoRecordLost` | `DrainSafety => []NothingLeftBehind` |
| `BookProofs` | `IdsAlwaysResolve`, `SlabAlwaysAccounted`, `LadderAlwaysAgrees` | `Spec => []IdsResolve`, `[]SlabAccounted`, `[]LadderAgrees` |
| | `BookImplementsOrders` | `MCSpec => ImplementsBook` |
| `TickToTradeProofs` | `FeedAlwaysWellFormed` | `Spec => []FeedWellFormed` |
| | `FeedKeepsContract`, `AlwaysQuotesCurrentBook` | `Spec => KeepsBookContract`, `Spec => QuotesCurrentBook` |
| `GuardProofs` | `GuardTypeCorrect`, `CountersAreExact`, `IrregularIsTold` | `NoWrap => (GuardSpec => []GuardTypeOK)`, `[]CountersExact`, `TellsIrregular` |
| | `QuotingTypeCorrect`, `NeverJoinsTouch`, `StaysWithinOneClip`, `FillIsReplaced` | `Spec => []TypeOK`, `[]InsideTouch`, `[]OneClip`, `[]FilledQuoteReplaced` |
| | `BurstsAreBounded` | `Spec => []BurstBounded` |
| | `DamageStaysLocal`, `CleanStaysFaithful` | `LossySpec => []DamageIsLocal`, `NoWrap => (LossySpec => []CleanMeansFaithful)` |
| `ContainerProofs` | `PoolTypeCorrect`, `NeverHandedTwice`, `FreeListNeverBroken`, `LiveCounts` | `PoolSpec => []PoolTypeOK`, `[]HandedOnce`, `[]FreeListWhole`, `[]LiveExact`; together `PoolKeepsAccount`, `[]PoolAccounted` |
| | `ObjectsAreUpToSize`, `VectorsAreBoundedBags` | `VectorSpec => []ConstructedUpToSize`, `VectorSpec => ImplementsBoundedBags` |
| | `BlocksNeverOverlap`, `RefusalsJustified` | `ArenaSpec => []BlocksApart`, `[]RefusedOnlyWhenFull`; together `AllocatesExactly`, `[]ArenaExact` |
| `LessonProofs` | `NeverTakenTwice`, `GapReportsExact` | `ArbitratorSpec => []TakenOnce`, `[]GapsExact`; with them `TakesOrReports`, `[]TakenOrReported` |
| | `SnapshotAlwaysClean` | `SeqlockSpec => []CleanSnapshot` |
| | `LimitAlwaysExact` | `LimiterSpec => []LimitExact` |
| | `ArithmeticAlwaysExact` | `CallSpec => []ArithmeticExact` |
| | `MapAlwaysExact`, `LadderAlwaysExact` | `MapSpec => []MapExact`, `LadderSpec => []LadderExact` |
| | `FittingPricesKeepWindow` | `PricesFit => (LadderSpec => []WindowKept)`: prices within the word are refused as they should be |
| `DemoProofs` | `RingTypeCorrect`, `OnlyOverrunDamages`, `QuietSnapshotExact` | `RingSpec => []RingTypeOK`, `[]DamagedOnlyByOverrun`, `[]UndisturbedExact`; together `SnapshotsFaithful`, `[]SnapshotFaithful` |
| | `HandoffsAlwaysExact`, `PercentilesAlwaysTrue` | `DemoSpec => []HandoffsExact`, `[]PercentilesTrue` |
| | `JourneysAlwaysTrue` | `TraceSpec => []JourneysTrue` |

**Data.**  Induction theorems that take a predicate as a parameter cannot be used with the
installed provers.  `DataLemmas` does without: from `NatLessThanWellFounded`, which takes none, it
proves `LeastNat` (a non-empty set of naturals has a least element), and every argument by induction
becomes one about the least counterexample.  On it rest that a function defined by recursion on
the naturals obeys its equation (`RecursionExists`), the same for the community modules' folds over
finite sets (`FoldTableExists`), and what sums do when a term is added, removed, enlarged or
split off (`TotalWith`, `TotalWithout`, `TotalMonotone`, `TotalUnion`).  `DepthOfOneMore` and `BestLevelIs` apply
that to the levels of a set of resting orders.

**Queue.**  `RaceFree` and `FifoDelivery` are not inductive.  `IInv` adds what ties the words to the
ghosts: the k-th message of `head_` has value `(k - 1) % Word` and view `k - 1` (the same
for `tail_`); each cached copy is the value of a message already seen; the views lag behind
by exactly what was seen; at most `Capacity` elements are in flight; the slots between
consumer and producer hold the elements sent last; the epochs of each slot are the
largest ordinals congruent to it.  From these a wrapped difference equals the true one
(`Capacity + 1 < Word` is what makes it so), hence the full and empty tests are
conservative, hence no race.  Arithmetic about `%` is isolated in lemmas stated over
`SlotOf` and `Wrap`, so the step proofs use no non-linear reasoning.  For the hand-off `DrainIInv`
adds that the messages of `g_logging` carry what they say, that a logger that has seen `false` has seen
all of `head_`, and that `drained + dropped` accounts for every completed call.

**Book.**  `StoreInv` is about storage.  `TableOK` says that each id has one entry and that no slot
between an entry's home and the entry is vacant, so a probe that meets a vacant slot has proved the id
absent.  `EraseId` leaves that form while it shifts: `ShiftInv` describes the table in the middle of the
run, with the one hole still to be filled, and `ShiftStep` shows that the cyclic-interval test moves
exactly the entries that the hole would cut off; the run ends because the table has a vacant
slot (`RunIs`).  `SlabListed` numbers the free slots by their place on the list, as for the pool
below.  `BookInv` adds `Ladder`: quantities are sums over the resting orders and best levels are
extreme non-empty ones.  One order changes at a time, so each sum changes by one term
(`AddLadder`, `ReduceLadder`); the rescan of an emptied best level is the case that needs `BestIs`.
`BookImplementsOrders` maps the three structures together to the ids that rest.

**The loop.**  `LoopInv` of `TickToTradeProofs` keeps live ids below the generator's next id, resting
ids among the live, bids below and offers above the middle, and the guard's `expected_` in step with
the feed's number, whether or not either has wrapped.  The touch of a book kept like that is
uncrossed, and `QuotedInside` is `InsideTouch` for that touch.

**Guard, strategy and gate.**  The guard's invariant ties `expected_` to the greatest number delivered; a
message that jumps ahead adds to the skipped numbers exactly the interval from `expected_` to its own,
and one that falls behind changes neither set.  `NoWrap` cannot be dropped: `sequence_guard_wrap` is
the counterexample.  For quoting, `QuotingInv` adds what the last order left behind: `last_side_` is its
side, and after a fill the position is the one that leans the other way, which is why the
repeated-quote test cannot match.  `InsideTouch` needs only that the micro-price is an integer;
the clamps do the rest.  `Burst` is the invariant of the rate window: since it opened at
most the limit was accepted, in the part of a second before it at most the limit again, and in no
stretch of a second more than both; a stretch meets at most two windows because they open at least
a second apart.

**Behind a bad line.**  An order is `Alone` when the book holds its quantity in one entry and nothing else for
its id, or no entry when the quantity is 0.  `LocalInv`: while the messages about an id have come
completely and in order (`InStep`), the id is alone with the exchange's quantity after the newest of
them, or absent because its add was refused.  Nothing about the other ids enters, which is why damage is local; what the feed itself
must keep to for this is `FeedRight` (an id is added once, before all else, and messages about other
ids leave its true quantity alone).  Without a count in the guard every id is in step
(`CleanMeansComplete`), hence `CleanStaysFaithful`.  `DamageIsLocal` speaks of the set of places at which an id's
messages were delivered and not of the subsequence: the prover knows nothing of `SelectSeq`.

**Containers.**  The pool's calls in progress, the owned and the lost handles are apart, and the free slots
can be numbered by their place on the list.  An acquire keeps the numbering and drops its top, a
release adds one above it; so reachability along `next_free` never appears.  For the vectors `Sound` is
carried through each operator that makes a vector from another, so a copy that throws half-way
still leaves one; the size never wraps because its width is chosen to hold the capacity.  The arena
needs that all blocks lie behind `cursor` and that `allocate` rounds up to the *least* multiple
(`RoundsUp`).  `VectorsAreBoundedBags` maps a vector to the bag of what lies in front of its size, for
each value the number of places that hold it.  An operation puts one value at the end, takes the last
away, or moves the last into a gap, and these change one or two counts by one (`BagOfMore`,
`BagOfLess`, `LastMoved`); a copy that runs to its end carries the whole bag (`CopiedWhole`), one that throws
leaves a part of it, which is what `BoundedBags` allows and no more.

**Lessons.**  Gaps of the arbitrator lie below `expected`, are apart from each other, and below `expected` a
message was taken once or lies in exactly one gap.  For the seqlock, `CounterStores` and `WordStores` say what
each store of the history publishes: an even counter shows every word of its payload, and a
word shows the odd counter it was written under.  `CopyInv` follows the reader: a word it copied that is newer
than its version has set aside that odd counter, which the acquire fence then makes visible, so the
second load of the counter differs and the copy is thrown away.  For the limiter, `NoMore`
bounds the messages since any instant together with the tokens left, in nanoseconds and not in
tokens, so that what a division cuts off stays in the sum; `NoLess` names an instant at which the
bucket was full and since which nothing that came in was lost.  `FixedPoint` is a matter of
division with remainder: the reciprocal exceeds 2^32 by at most one divisor (`DivideIs`), and the cut-off
quotient is one of the two nearest multiples (`RoundIs`).  The id map's invariant is the order behind linear
probing: the table is *laid out* as the list of its ids (`LaidOut`) when between an id's home and its slot lie
only ids inserted before it.  A list has one layout at most (`OneLayout`), so whatever keeps the table
laid out keeps it equal to the one inserted afresh (`FreshIs`), which is the claim of
`AsIfNeverInserted`.  During the shift the hole counts as a slot that any id may have passed; `ShutSoFar` says
that among the slots the shift has come to, none holds an id that passed the hole, and at the first
empty slot that holds for all of them (`HoleShut`).

The ladder's properties follow links, and its proof follows none.  `LadderIn` gives each resting order a
*stamp*, the number of the add that brought it, and says that `next` and `prev` lead to the neighbours in
stamp among the orders at the same price (`Chain`), that the stamps rise along the reference list
(`MatchIn`), that a level's quantity is the sum over its orders (`PlacesIn`), and that the free entries can be
numbered from the end of their list to its head (`FreeIn`).  An order cut out leaves a chain of the others
(`ChainCut`), one behind the newest extends it (`ChainAppended`), and a change at one price leaves
the rest (`ChainKept`); the free list loses or gains its last number.  `RemoveKeeps`, `LessKeeps` and
`AddKeeps` put these together, and the operations are made of those three.  That the walk from `free_head`
meets the numbers downward and stops at `kNull` (`WalkIs`) is the only induction along a list.  None of it asks
what a slot means: `LadderAlwaysExact` holds for any prices, also those the cast brings into the window
by mistake.  That the cast is the only way in is `FittingPricesKeepWindow`, from `Filed`: every order of the
list has the slot that `SlotOf` makes of its price.

**Ring and demo.**  Of each copied field of a snapshot it is known that it was stored already and is
either the record's own or at least `N` later (two numbers in one slot are a lap apart, `LapApart`).
`DemoInv` of the SPSC demo says, for each pair of places of the two threads, which message is on its
way in which queue and which numbers have arrived.  For the percentiles `HistInv` compares sums: the counts up to a bucket are the samples up to that
bucket's upper edge.  The walk over the buckets therefore stops in the one that holds the sample of the
asked rank (`OfRank`), the least value with enough samples at or below it.  For the journeys `TraceInv` says that the
records are five for each message in order, their stamps as far apart as the work between them took;
the assembly of five records gives that message's journey whatever was under way before
(`OneMessage`), so only the message the ring's lap has cut open is lost (`AssembledIs`).

Only model-checked: liveness (`HotPathNeverBlocked`, `ShutdownTerminates`, `Terminates`,
`ReadersGetThrough`), which the prover does not treat under fairness.  Every other property of a
passing run is stated by a theorem.

## 6. Not modelled

- Byte order and message layout (pure conversions), the feed's buffer size, statistics and
  printing, clocks and the random generator (inputs are nondeterministic instead), the four
  passes of `main` (each is a fresh run over the same feed).
- `cache_effects.cpp`: it measures how memory access patterns behave in a cache; there is no
  protocol, and its result is time.
- `alloc_guard_demo.cpp`: one plain global flag set around loops over containers that are
  modelled.  The flag is neither atomic nor nested, which one thread and one hot section at a
  time do not notice.
- `build.py`, `lint.py`: text is turned into text line by line, with no state that outlives a
  file; their output is a matter of formatting.  `check_snippets.py`, `repl/`, `assets/` and the
  workflow run external programs.
- Lesson 41's program, a second capstone in one listing: its book and id map are lesson 37's with a
  counter of dropped adds, its threads and queue those of `examples/capstone/` with another stopping
  test (section 4), its strategy, gate and encoder variants of the capstone's.
- The remaining lessons: prose, fragments, or the code of `examples/` again.
- Callers that break a contract the code states or plainly relies on: a handle released twice, an
  id map filled to its last slot, a request as large as the address space, a reader asleep for
  2^31 stores.  Assumptions or guards of the modules name each of them.
