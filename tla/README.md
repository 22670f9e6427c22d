# A TLA+ model of ctp-gateway-cpp

The gateway takes market data from CTP (the Chinese futures exchanges' API) and
publishes it to the Tyche engine: futures as `quote` events, options, by way of
a ring buffer and a dispatch thread, as `send_compute_greeks` events. These
modules model its C++ sources under `src/src/`; paths below are relative to the
repository's root directory `src/`, line numbers are those of the commit modelled.

    tlc -workers 2 -config QuotePipeline.cfg QuotePipeline   # one of the runs
    tlapm QuotePipelineProofs.tla                            # one of the proofs

`PROJECT.json` lists the runs, the findings, the hazards, the theorems and, for
each definition, the lines it stands for.

## 1. The system

### Threads

| thread | runs | modelled as |
|---|---|---|
| owner: `main()` or the host's thread in `tyche_module_run()` | `start()`, the 500 ms polling loop, `stop()`, the destructor | `main` in QuotePipeline, `owner` in GatewayLifecycle, `waiter` in TdSession, all of InstrumentResolver |
| MdApi's callback thread | `MdSpiImpl`'s callbacks, `on_quote_received` | `"md"` in QuotePipeline, `spi` in MdSession, `md` in StaleDetection |
| TdApi's callback thread | `TdSpiImpl`'s callbacks | `spi` in TdSession |
| `option_dispatch_thread_` | `option_dispatch_loop` | `"disp"` in QuotePipeline, `disp` in StaleDetection and GatewayLifecycle |
| one detached thread per released API | `Join()` | `joining` in GatewayLifecycle |
| TycheCore's workers, the host | the `gateway_status` handler, signals, `tyche_module_stop()` | `query` in StaleDetection, `HostStop` in GatewayLifecycle, `ModuleStop` in ModuleHost |
| the engine's module thread | `tyche_module_init()`, `tyche_module_run()`, the end of the process | `host` in ModuleHost |

### Components

| component | state | operations | what makes it correct | module |
|---|---|---|---|---|
| quote pipeline (`ctp_gateway.cpp` 351-598, 623-642) | ring buffer, dispatch batch, atomic counters, `shm_write_lock_` | callback, dispatch loop, drain, sends, ends of start and stop | every tick published or in a counted loss; order kept; counters true; the two SHM writers exclude each other; stop joins before it releases | QuotePipeline, TickChannel |
| staleness (`ctp_gateway.h` 46-56, `.cpp` 383-385, 504-525) | `last_tick_ns_`, `tick_stale_` | store, periodic check, two status answers | a silence is flagged in time, an alarm goes within one check of its cause | StaleDetection |
| lifecycle (`ctp_gateway.cpp` 49-93, 294-349, 623-668, `ctp_api_raii.h`, `dll_handle.h`, `main.cpp`, `dll_entry.cpp`) | APIs, SPIs, library handles, four flags, the thread | start, init_ctp, stop, cleanup_ctp, deleters, drivers | nothing used after it is gone, nothing left behind, a stop is honoured | GatewayLifecycle |
| instrument list (`ctp_gateway.cpp` 100-266) | `instruments_`, `option_instrument_set_` | queries and retries | list of one round, options told from futures, bounded delay | InstrumentResolver |
| market-data session (`md_spi.cpp`) | `logged_in_`, `instruments_` | login, logout, disconnect, subscribe, `set_instruments` | the latest list is subscribed, the session comes back | MdSession |
| trading session (`td_spi.cpp`) | `logged_in_`, `mtx_`, `cv_` | authenticate, login, `wait_for_login` | no missed wakeup, the wait ends | TdSession |
| library loader (`ctp_loader.cpp`), `DllHandle` | library handles | resolve, validate, open, find the symbol, create | every opened library has one owner, also when a step throws | GatewayLifecycle (`OpenLib`, `CreateApi`, `TdFails`, `TdHandler`, `MdFails`) |
| conversions (`md_spi.cpp` 158-225, `ctp_gateway.cpp` 270-292, 402-474) | none | CTP record to payload and tick, payload to tick, tick to payload | no value under another's name, losses known | QuoteConversion, QuotePath |
| SHM frame (`shm_writer.h`) | none | serialise, frame, write | every frame comes apart into what was put in; both transports carry the same | ShmWriter, QuotePath |
| `QuoteValidator` | none | `validate` and its three checks | accepted ticks of a day stay in order | QuoteValidator, QuotePath |
| module entry (`dll_entry.cpp`) | `g_queue`, `g_gateway`, `g_running` | init, run, stop, static destruction | return codes tell the truth, a writer has a queue, a stop ends a run | ModuleHost |
| configuration (`config.cpp`) | `GatewayConfig` | `from_file` | what the other modules assume of it is checked | ConfigLoader, ModuleHost |
| logging, adapters, mocks, vendored headers, tests, build | | | | not modelled, see section 5 |

External and modelled from their use: TycheCore's `RingBuffer` (a bounded FIFO
with atomic operations), its transport (a send publishes or throws), its
`SharedMemoryQueue` (one writer at a time; a write is refused when the queue is
full or the message too long) and the reader at its other end, CTP's fronts
and callback threads (callbacks one at a time, in the order of their causes),
`static_data` (answers, errors, timeouts), `steady_clock`.

### Interaction

`start()` registers (GatewayLifecycle `Transport`), resolves the instruments
(InstrumentResolver), starts TdApi and waits for its login (TdSession), starts
MdApi with the list (MdSession), sets `ctp_running_` and spawns the dispatch
thread (QuotePipeline). From MdApi's `Init()` on the callback thread calls
`on_quote_received`, which stores the time (StaleDetection) and queues or sends
the tick. `stop()` clears `ctp_running_`, joins the dispatch thread, lets go of
the CTP objects and closes the base class. GatewayLifecycle models the whole of
start and stop with the pipeline reduced to "a callback is running" and "the
dispatch thread exists"; QuotePipeline models the pipeline with start and stop
reduced to the steps it can see. The two agree on those steps. QuotePath adds to
the pipeline's question (which ticks arrive, in what order) the other one (what is
in them), and ModuleHost puts GatewayLifecycle's start and stop, as single steps,
into the hands of an engine that calls the exported functions as it likes.

### What is hard

Two threads writing one queue; an overwrite racing a pop; a send that throws
half-way through a batch; teardown while callbacks run; unsigned time
differences between two reads; condition-variable wakeups; rounds of queries
that fail half-way; a stop that comes early. `PROJECT.json` lists each hazard at
its line with the properties aimed at it.

## 2. Modules and their correspondence to the code

**QuotePipeline** has one action per visible access. A tick is its number in the
order of callbacks, an instrument id matters only for its membership of
`option_instrument_set_`. `pc[t]` is the place of a thread, `batch` the part of
the loop's local array that is not yet done with (the drain's single tick is a
batch of one, `draining` tells which loop sends). `SendThrows` has three
outcomes because the code has: counted (loop), ignored (drain), out of the
callback and `std::terminate` (futures). In SHM mode lock, write, counter and
unlock are two actions, `LockShm` and `WriteShm`: nobody else can touch the
queue in between, which is what `ShmWriterExclusive` checks. `shm_mode` is chosen
in `Init` and never changes, so that one run covers both transports. Left out: the
adaptive wait (it changes no shared state), logging, and field contents, which are
in QuotePath. `evicted`,
`swallowed` and `offered` are ghosts.

**TickChannel** is the abstract specification: a lossy channel that neither
reorders, repeats nor invents. QuotePipeline implements it twice. For options,
`pending` is the undelivered part of the batch followed by the ring, and
`push_overwrite` on a full ring is `AcceptReplacing`; for futures `pending` is
the callback's own tick.

**StaleDetection** splits each function at its reads and writes: clock, then
atomic. Time is in units of 5 s; `Modulus` stands for 2^64. `Lag` is an assumption: how
long a callback or a status request may take between its two accesses, and how long
past its interval the loop may come to its check, a pass busy with sending included.
Nothing in the code bounds a send; without the assumption "in time" has no meaning.
Two ghosts date what may excuse an alarm on a live feed: `resumed_at`, when a
tick last ended a silence, and `raced_at`, when one last overtook a check.

**GatewayLifecycle** follows the owner's program counter through every statement
that acquires, hands on or releases something, including both exception
handlers, `~CtpGateway` and the two drivers. The two sessions are made by the same
steps: load the library, create the API, make the SPI, register it, `Init()`, and
any of them may throw, the wait for the TdApi's login included (`TdFails`,
`MdFails`). A loader that fails after `OpenLib` closes the library on the way out,
because until `init_ctp()` adopts it a local `DllHandle` owns it (`Unwind`). The
handler for the TdApi resets SPI, API and library one step at a time (`TdHandler`), as
`cleanup_ctp()` does for both sessions. A deleter is one step (`RegisterSpi(nullptr)`,
`Release()`, start of the detached `Join()`).

**InstrumentResolver** models every outcome of a request that the code tells
apart: contracts, a "No handler" error, another error, a timeout, another
exception. It keeps the code's asymmetries: an error skips the product's options,
an exception does not; an option query never fails a round; an empty but
successful round is repeated without a pause; the option set is not cleared.
Every request takes any time up to the timeout, whatever comes of it: `request_event`
may answer, or report an error, just before it would have given up (`Waits`).
Nothing keeps a product from being configured twice, so an entry of the
configuration is told from another by its place (`Entries`).

**MdSession** and **TdSession** model every callback and the thread on the other
side (`set_instruments()`, `wait_for_login()`), with the front as an external
actor. `refused` in MdSession remembers that the front said no, or that a
request could not be sent: the code tries each only once. The gateway never requests
a logout, so the answer to one comes only when the front has ended the session.

**QuoteConversion** is a set of tables: which member of CTP's record, which payload
key and which member of `QuoteTick` belong together. A text is the sequence of its
characters and is cut to the array it is copied into (`Cut`), as `strncpy` does. `ReadKey` is the
key `on_quote_received` looks for, which for three members is not the key
`depth_to_payload` writes; the member then keeps the zero of the `memset`.

**ShmWriter** builds the frame `[length, 2 bytes][topic][message]`. The serialised
message is one unit, a character of the topic one byte; the length goes through
`uint16_t` and two little-endian bytes. The payload that `write_shm_quote_tick`
packs by hand is a table of its own (`TickPayload`), so that its agreement with
`tick_to_payload` is something to check.

**QuoteValidator** has the checks of `validate()` with whole-number prices. Nothing
in the gateway calls it, and it leaves the previous tick to its caller.

**QuotePath** composes the three. A callback converts the record, publishes a
future's payload or fills a tick and queues it; `Dispatch` sends the head of the
ring; over shared memory `EngineRead` takes frames apart again. The ring and the
queue only delay, except that the queue refuses a frame when it is full or the
frame too long. `WriteOther` stands for an outside caller of `write_shm_event`, `Judge`
for one of `validate()` that compares with the tick it accepted last.

**ConfigLoader** and **ModuleHost**. A document is a function from the sections
that are present to objects; `Refused` lists what `from_file` throws for, `from_file`
gives what it returns. ModuleHost numbers the queue objects, so that a gateway's
plain pointer to a queue that has been replaced can be told from one to the present
queue. `InitThrows` are the two handlers of `tyche_module_init()`; `QueueInvalid` is
the return with 1, which leaves the previous gateway alone. At the end of the process
the statics go in reverse order: the queue, then the gateway.

The operators whose comment says "Mutant" are variants of the definition that
follows them, each with one plausible programming error. They are in no
specification; each breaks one of the properties, which shows that the
property depends on that part of the code.

## 3. What the runs check

| run | module | shows | bounds |
|---|---|---|---|
| pipeline | QuotePipeline | accounting, counters, teardown, writer exclusion, order of both streams (refinement), with throwing sends over ZMQ and a queue that fills over shared memory; no tick starves, stop returns; the inductive invariant of the proofs | ring 2, batch 2, 2 slots, 4 ticks; a future, an option, an empty id |
| stale | StaleDetection | silence flagged in time, no alarm that outlives its cause by more than a check | 22 units = 110 s, lag 1 unit |
| lifecycle_exe | GatewayLifecycle | ownership on all paths; a stop is honoured; MdApi is tried whatever becomes of TdApi | none: the state space is finite |
| md_session | MdSession | subscription and recovery | lists {}, {a}, {b}; 2 calls of `set_instruments`, 2 losses |
| td_session | TdSession | no missed wakeup; the wait ends | 2 losses; with authentication, of which the path without is a part |
| resolver | InstrumentResolver | list of one round, classification, delay | 3 entries: a product with two option products, one with one, configured twice; 2 retries, pauses of 3, timeouts of 2 |
| quote_path | QuotePath | values keep their names, frames come apart, both transports agree, validated ticks stay in order | 11 depth records, 3 quotes, arrays of 4, 2 slots, messages up to 320, topics of 300, 400 and 65539 |
| module_host | ModuleHost | return codes, configuration, queue and gateway lifetimes; a stop ends a run | 14 documents, 3 calls of init, 2 queue names |

Why the bounds are enough to be interesting. In QuotePipeline, 4 ticks with
a ring and a batch of 2 fill the ring while a batch is being sent, so that
overwrites (with and without a racing pop), partial batches, the drain and a
stop at any moment all occur; two slots fill while the engine does not read.
StaleDetection's clock covers three checks and a silence longer than threshold +
interval + lag. Two losses give MdSession and TdSession a disconnect during the
login that follows a disconnect. Two retries distinguish first, middle and last
round in InstrumentResolver; a timeout of 2 has answers that are immediate, slow and
as late as can be, and a pause of 3 keeps pauses and timeouts apart in the sum.
In QuotePath every field of the base record has a
value of its own, so that an exchange of two fields shows; the other records each
differ from it in one thing a conversion or a check looks at. Arrays of 4 stand for
32 and 9: the widths only decide whether a text is cut, and an id of 5 characters is.
A topic of 300 needs the second length byte and fits the queue, 400 is refused by
the queue, 65539 by the length check. Three quotes are what `DayInOrder` needs: two ticks
and one between them. Three calls of init give a first one, a second one that
replaces or fails, and one after a failure. The module_host documents hold, for each
value `from_file` checks, one on the wrong side of its limit.

Four statements of the code's comments, docs and tests do not hold, and a run each
shows how:

| run | statement | what the code does |
|---|---|---|
| stale_wrap | "no update for >5 seconds" (`ctp_gateway.h:53`) | the age wraps when a tick is stored between the two reads. The loop's check reads the same age, so its "last tick is >30 seconds old" (`ctp_gateway.cpp:504`) fails in the same way; `FlagTracksFeed` says how soon that is put right |
| lifecycle_spi | "防止 dangling SPI 引用" (`ctp_gateway.cpp:319`) | the handler below that comment (`:320`) destroys the SPI before the API that points to it, and so does `cleanup_ctp()` (`:654`) |
| lifecycle_lost_stop | "signal shutdown" (`dll_entry.cpp:9`) | a stop before run is overwritten |
| greeks_limits | the test's `tick_to_payload` "mirrors the conversion the gateway will use" (`test_option_dispatch.cpp:15`, `:26`, `:95`) | an option's event has other keys for its limits (`ctp_gateway.cpp:435`), and the values are 0 because `depth_to_payload` (`md_spi.cpp:186`) writes other keys than the callback reads |

Smaller observations made while reading, which no run checks:

* "CTP 停止后 drain 剩余数据" (`ctp_gateway.cpp:574`): the drain comes before CTP is
  stopped; ticks of later callbacks stay in the ring. QuotePipeline has these steps,
  and `EveryTickAccounted` counts those ticks as waiting.
* The deleter "joins any internal thread" (`ctp_api_raii.h:13`), but detached (`:25`),
  and `cleanup_ctp()` closes the library at once (`ctp_gateway.cpp:656`): `Join()` may
  still be executing in it. GatewayLifecycle has these steps (`joining`).
* "dropped %d ticks so far" (`ctp_gateway.cpp:483`) also counts pushes that found
  room after all; `DroppedCoversEvictions` says in which direction it errs.
* The `gateway_status` handler reports the 30 s flag, while `get_status_payload`,
  which the header says it uses (`ctp_gateway.h:40`), answers the 5 s test. Nothing
  ever increments `reconnect_count_` (`ctp_gateway.h:117`) or assigns `start_time_`,
  from which `uptime_secs` is computed.
* The "60s 最大等待时间" (longest wait) of `ctp_gateway.cpp:128` counts the pauses only.
  Every query of every round may take a timeout on top, futures and options, failed or
  answered: `StartupBounded` has the sum, which for one product of SHFE, a timeout
  of 10 s and 12 retries is 60 + 13 * 2 * 10 = 320 s.
  After the last failed round the gateway goes on with what
  that round had found, while the log says "empty instrument list" (`:238`).
* `engine_port` is checked to be at most 65535, but `engine_port + 5` is used too
  (`ctp_gateway.cpp:17`). A negative number in `shm_tuning` becomes a large
  `uint32_t` (`config.cpp:116`).
* `tyche_module_init()` streams `shm_queue_name` (`dll_entry.cpp:56`) before the
  null check at `:62`.
* When a second init returns 1, the gateway of the first one keeps a pointer to
  the queue that is gone; `tyche_module_run()` does not look at the code. That is why
  `WriterHasQueue` has the condition `init_code = 0`. A second run after one init
  calls a `start()` that returns at once, and idles until the stop.
* `EventsFaithful` takes the code's own tables for what an option's event should hold, so the
  three limits that are always 0 and an id that is cut satisfy it; it is
  `GreeksCarryLimits` that shows the former. `DayInOrder` is about a caller of `validate()`
  that the gateway does not have.
* `OptionsClassified` is about the lists that `static_data` gave. With a pre-resolved list the
  classification is as good as the configuration, which nothing compares with it.
* Ids of more than 31 characters are cut on the option path only.
* "Another trading day" (`quote_validator.h:23`) asks both ticks for a `trading_day`. A
  tick without one is of the same day as either neighbour, so that the checks cannot be
  chained across it; `DayInOrder` therefore asks for one day pairwise.

### Fairness

* QuotePipeline: weak fairness of the callback thread's, the dispatch thread's
  and the owner's steps, each as one action: the operating system schedules
  threads. Nothing makes CTP push, anyone call `stop()` or the engine read.
  Over shared memory a thread may find the lock taken, but its holder always gives it
  back, and the feed is finite, so that contention ends and weak fairness suffices.
  With an endless feed the drain need not end.
* GatewayLifecycle: the owner and the dispatch thread are scheduled. Callbacks
  need not happen and `Join()` need not return, as `ctp_api_raii.h:23` warns.
* MdSession: CTP runs queued callbacks, reconnects ("will auto-reconnect",
  `md_spi.cpp:79`) and answers logins. It need not drop, and may say no.
* TdSession: strong fairness of the callback thread and of a waiter that has a
  reason to wake, because both contend for `mtx_`, whose waiters are served
  eventually. Nothing makes the timeout expire, so that `LoginEndsWait` holds
  without its help; `WaitReturns` says what follows once it has.
* InstrumentResolver: the one thread runs; each request is answered or times out.
* ModuleHost: a call in progress goes on (its `start()` and `stop()` return, which is
  GatewayLifecycle's and QuotePipeline's matter). Nothing makes the engine call
  anything. QuotePath states no liveness and no fairness.

## 4. What is proved

All theorems are checked by TLAPS for every value of the constants that satisfies
the modules' `ASSUME`s, and every leaf by SMT, Zenon or LS4.

**QuotePipelineProofs.** `PipelineAssumption` allows any ring capacity from 1, any
batch size from 0 to 256 (0 included: safety does not need progress), any number
of slots and ticks, and both modes. The argument has three layers.

* `Control` = types + `BatchShape` (the batch is non-empty exactly while
  sending) + `PhasesAgree` (owner and dispatch thread agree on whether the latter
  exists) + `ShmWriterExclusive`. It is inductive by itself: `BatchShape` is what
  makes `Head(batch)` and `Tail(batch)` meaningful in the send steps,
  `PhasesAgree` is what makes the join imply the exit. From it:
  `TypeCorrect`, `WritersExclude`, `DispatchGoneAtRelease`.
* `Books` = `EveryTickAccounted`, `CountersMatch` and `DroppedCoversEvictions`,
  inductive relative to `Control`. Each step moves one tick between published,
  waiting and lost; the lemmas `PublishCounts` and `LossCounted` say by how much.
  The terms for threads between two accesses (`MdInHand`, `One(pc = "sent")`) are
  what makes the equations hold at every step and not only at rest. From it:
  `TicksAccounted`, `CountersReported`, `DropsCovered`.
* `Streams` is what the refinements need of a state besides: the batch fits the
  loop's array (`BatchFits`), so that what is pending stays within the channel's bound,
  and everything queued or published has an earlier number than the tick the callback
  has in hand, or than the next one if it has none (`TicksBehind`), so that the
  channel may accept that tick. `StreamStep` says in seven kinds what any step of the
  pipeline does to the two streams: a tick arrives, is queued (with the oldest making
  room if the ring is full), a future is done with, the dispatch thread takes a tick from
  the ring or is done with one (sent, or lost to a throw or a full queue), or one
  of the threads moves without the streams noticing. With it `OptionsImplementChannel` and
  `FuturesImplementChannel` map every step to a step of TickChannel or a stutter.
  `PipelineInvariant` sums up the three layers.

The order itself is a property of the channel: the lemmas `StepKeepsOrder`, `TwoParts`,
`AppendNewer`, `TailInOrder` and `WithoutInOrder` show on sequences alone that no
channel step reorders what is delivered, what is pending, or the one after the
other. `OptionsInOrder` and `FuturesInOrder` put both together: what the bus has seen of a
stream is in the order of CTP's callbacks, with nothing twice, for every capacity,
batch size, queue and feed.

**GatewayLifecycleProofs.** `DllOutlivesApi` and the others are not inductive: they
need to know, for each place of the owner, what has been made and what is
already gone. `LifecycleInv` says so place by place (`NotMadeYet`,
`MadeBeforeUse`, `RegisteredWithLiveApi`, `CleanupOnce`, `ResetOrder`,
`DispatchOwned`); one lemma per phase shows that its steps keep all of it. The
lemmas `MakingFails` and `HandlesTd` are for the paths through an exception: what
unwinding leaves, and that the TdApi's handler gets from any of it to a gateway
that may go on with its MdApi.

**StaleDetectionProofs.** `StaleInv` adds to the types `Clocks`, where the clock
readings that the threads hold lie relative to each other, and `LastCheckClear`: a
check that found no staleness leaves a last tick at most `LoopLimit` older than
itself, and `last_tick_ns_` does not go back after that. With the bound on the time
between two checks this gives `SilencesFlagged`. The other direction rests on
`AlarmDated`: while the flag is up the feed is still silent, or a tick has ended the
silence, or overtaken the last check, not before that check began. That dates the
cause, and `FlagTracks` follows with the same bound.

**MdSessionProofs.** `SessionInv`: `ViewInv`, the last queued callback that sets
`logged_in_`, or else the flag itself, tells whether the session is up; and `Tended`, a
list not yet subscribed in this session has somebody on the way to do it (the setter,
the login callback, or a login still queued) unless the front has refused.

**TdSessionProofs.** `WaitInv`: the waiter holds `mtx_` from its look at
`logged_in_` until it sleeps, and the flag only changes under `mtx_`, so that the
login's notification cannot fall between.

**InstrumentResolverProofs.** `ResolverInv`: `Left` names the queries of this round that
are still to be made; the list is what the others brought (`Listing`), every option
in it has been put into the set (`Classified`), and the time spent is covered by the rounds
before and by one timeout for each query that is no longer `Left` (`Paid`).

**ModuleHostProofs.** `HostInv`: for each place inside `tyche_module_init()` and
`_run()`, what the call has made so far (`CallsConsistent`), and for each code, what is
left when it has been returned (`CodesTruthful`). `AcceptedConfiguration` derives
`GatewayUsable` from the conditions `from_file` throws for; it needs that a number
from_file reads is one, which `HostAssumption` says of documents without a
mistyped value, as `get<int>()` does. `WritersHaveQueues`
follows: threads are only active inside a run, and no run is inside an init that
may replace the queue.

**QuotePathProofs.** `PathInv`: the ring holds ticks of pushed options, the queue
frames of events that are faithful. `Faithful` only grows as more quotes are
pushed (lemma `PushedGrows`), so that what was true of an event when it was made
stays true while it waits. `OptionPayload` is the calculation on the tables,
`FrameParts` that on frames; `TwoBytes` is where the length check is needed, and
`TransportsDoAgree` follows from it and the two tables. `DaysInOrder` is an induction over
the accepted ticks: the new tick is compared with its predecessor only, which is the last
one between it and any earlier tick of its instrument (`PredecessorIsLast`), so that what the
invariant says up to there carries on. `FeedAssumption` says that volumes and
milliseconds are integers and that a time `sscanf` can read has three.

Every invariant and both refinements that a run checks are theorems. Only model-checked, on
the instances above, are the nine liveness properties (fairness and ENABLED are out of
the prover's reach): `QueuedTicksLeave`, `StopCompletes`, `StopHonoured`, `MdDespiteTd`,
`SessionRecovers`, `LoginEndsWait`, `WaitReturns`, `Resolves` and `StopEndsRun`.
What the four violated statements say is refuted by their runs and needs no proof.
GatewayLifecycle with the library's driver (`Driver = "dll"`) is covered by the
theorems, which hold for both drivers.

## 5. Limits

* The C++ memory model: each atomic access is one step, and steps interleave. All
  flags that carry a protocol are sequentially consistent or only polled.
* A callback still running when `cleanup_ctp()` destroys its SPI object is
  undefined behaviour of the object; QuotePipeline lets such a callback finish,
  GatewayLifecycle shows that it is possible (`NoDanglingSpi`).
* Allocation failures, and `std::thread` or mutex operations that throw.
* A second owner: `start()` called twice and concurrent `stop()`s return at the
  first exchange, and the model has them as the guards of `Start` and `Stop`.

### Not modelled

* **CTP's headers** (`include/ctp/*.h`), 18,734 lines of vendored declarations:
  constants, type names, record layouts and pure virtual interfaces. They contain no
  behaviour to model; the gateway uses one of the records
  (`CThostFtdcDepthMarketDataField`, in QuoteConversion) and some dozen of the
  functions, which are modelled as external where the code calls them. The project's
  own sources have about 3,250 lines; the map covers about half of these, and the rest
  are the following items, comments, includes and logging.
* **ApiAdapters and mocks** (`ctp_api_adapter.*`, `mock_ctp_api.h` and the interface
  headers): forwarding wrappers for tests. The gateway holds the CTP classes themselves.
* **Logging**: output only.
* **Which paths the loader refuses**, and on Windows the search for a mangled
  export name: string work whose only effect on the rest is that the step throws or does not, which
  GatewayLifecycle leaves open at every such step.
* **Status report**: fields that copy a member. The counters are in QuotePipeline, the
  staleness answers in StaleDetection.
* **`main()`'s argument parsing** and all console output; build files, tests, samples.

## 6. Plan

Done: QuotePipeline with TickChannel, StaleDetection, GatewayLifecycle with the
loader, MdSession, TdSession, InstrumentResolver, QuoteConversion, ShmWriter,
QuoteValidator, QuotePath, ConfigLoader, ModuleHost; a module of proofs for each
state machine, with every safety property of the runs and both refinements.

Left:

1. The safety halves of the liveness properties, as theorems: that a thread which waits has a
   step left that ends the wait (the flag is down, the drain runs, the timeout is
   pending), so that only fairness itself is left to the model checker.
2. That ModuleHost's single steps for `start()` and `stop()` are what GatewayLifecycle's
   many steps amount to, as a refinement of one by the other.
3. ShutdownDrain: the drain against a feed that never ends, with the rate of both
   as the assumption under which it does.
