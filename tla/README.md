# Formal models of streamingpoc

`streamingpoc` is a collection of small programs that measure how fast market
data events travel: over FastCast multicast with Esper at the receiving end,
inside Esper alone, and through a SAP ESP project whose C SDK it carries along. This directory holds TLA+
models of these programs, the TLC runs that check them and the TLAPS proofs
about them. The repository's own README is empty and it has no tests, so the
source is the reference; the SDK headers in `dbgpub/include/sdk` are the
reference for what callers may expect of the SDK.

Source paths below are relative to `src/`; `EP`, `ER`, `DJ`, `RTT`, `CPP` stand for
`EventPublisher.java`, `EventReceiver.java`, `DbagPublisher.java`,
`RTTClient.java` and `dbag_publisher.cpp`.

## 1. Inventory

| Component | State it keeps | Operations | Hard behaviour |
|---|---|---|---|
| **netfeed publisher** "PUB" (`src/main/java/.../netfeed/EventPublisher.java`) | loop index, histogram `hi`, tasks of the executor `dumper` | `run` sends 4,000,000 events and an END, for ever; `messageReceived` on topic *back* records a latency or closes a round; `dropped`; `Runnable.run` prints | three kinds of thread; a histogram is handed from one to another without a lock; a dropped subscription is silently given up |
| **netfeed receiver** "SUB" (`EventReceiver.java`) | the listener's `count`, `backBuf` | `messageReceived` on topic *stream* feeds Esper, whose listener bounces every 10th event, or bounces the END; `dropped` exits the process | the receiving thread spins on `offer`; it can fall behind and be dropped; it may be started again at any time |
| **netfeed messages** (`MarketEvent`, `MarketEventStruct`, `MeasuredEvent`) | plain data | getters and setters | - |
| **FastCast** (external, `fc.kson`) | per topic: publisher history, receiver queue | `offer`, `subscribe`, delivery, drop | losses repaired from a bounded history only |
| **StupidPool** (`ER:183-219`) | an `AtomicReferenceArray`, two static counters | `getBA`, `returnBA` | lock-free, any number of threads, slots reused with the same array (ABA), racy counters |
| **DbagPublisher** (`dbgpub/DbagPublisher.java`) | rounds, rows, `inblock`, SDK start count | connect, insert rows in transactions, publish, commit, stop | a transaction lives across rounds; buffered and unbuffered mode differ; exceptions at any call |
| **dbag_publisher** (`dbgpub/dbag_publisher.cpp`) | as above, and a listener's counters | `loadData`, `listen` | same, plus exit on any error; its `main` is commented out |
| **RTTClient** (`sapsrc/.../RTTClient.java`) | rounds, rows; the receiver's histogram and counter | `doPublish`, `doSubcribe` | two threads over one SDK; the stop arrives while the other thread is anywhere; base data, lost data |
| **SAP ESP SDK** (`dbgpub/include/sdk`, headers of a binary) | start count; servers, projects, publishers, subscribers with their connection, writers, queues, events; a project's clock | start/stop; connect, disconnect, close of each entity; write, publish, commit; subscribe, getNextEvent; callbacks and selectors; pause, resume, set and reset of the clock | threads of its own (publishing, updater, dispatcher), queues at their limit, lost connections and retries, modes that promise different things |
| **adapter headers** (`dbgpub/include/DataValue.hpp`, `adapter/GenericAdapterInterface.h`) | a fixed decimal: two unsigned words and its digits | compare, set and get digits | a signed order on unsigned words, digits in a byte each |
| **MDEsper** (`src/main/java/.../esper`) | latency histogram and counter | statements and listeners over Esper, a sending loop | Esper's timer thread calls two of the listeners |
| **parsehistogram** (`HistoParse`, `POCHistogram`) | list of entries, `maxCount` | parse files of dumps, dump again with percentiles | exceptions, caught for a line but not for a file |
| scripts, `pom.xml`, `log4j.xml` | - | - | - |

How the components interact:

* PUB and SUB are two processes joined by two FastCast topics. PUB publishes
  *stream*, SUB subscribes to it; SUB publishes *back*, PUB subscribes to it.
  Inside SUB, FastCast's receiving thread calls Esper, which calls the listener
  in the same thread. Inside PUB, the receiving thread calls `dumper.execute`.
* DbagPublisher and RTTClient talk to an ESP project through the SDK. RTTClient's
  two threads share only the SDK, which main starts and stops.
* In the SDK, users' threads fill message writers; a publisher puts what they hold
  on the wire or in a queue that its own thread drains into the project's window;
  changes of the window reach subscribers through a queue in the project. In
  callback and selection mode an updater thread carries out calls and raises
  events, which a dispatcher or a selector delivers.
* MDEsper uses Esper inside one process; HistoParse reads files that the
  others' output was redirected to.

What makes each component correct:

* **netfeed**: a printed report is about the events it claims to be about. ENDs
  and events never overtake each other; a report is complete unless SUB was
  dropped; it is frozen once handed over; it is printed exactly once, and in the
  end.
* **StupidPool**: an array is lent to one thread at a time, and no call loops.
* **DbagPublisher / RTTClient (publishing)**: rows reach the stream in order and
  once, in transactions of the size asked for; the commit covers them; starts and
  stops of the SDK match; nobody waits for ever.
* **RTTClient (receiving)**: reports have exactly the announced size, count no row
  twice, and the thread ends when the SDK is stopped.
* **SDK, publishing**: rows are in the order they were written, in one place each; a
  call that returned has kept the promise of its mode; a transaction is applied
  whole or not at all. **Subscribing**: what a subscriber makes of its events is the
  window, or it was told that data was lost. **Events**: each change of state is
  told once, in order, to those who registered for it. **Clock**: what a client has
  paused stays paused for all components, and a call that has waited for the maximum
  sleep time is known to all of them.
* **Adapter headers**: comparisons of fixed decimals are those of the integers.

`PROJECT.json` lists the hazards, line by line, with the properties that catch
them.

## 2. Plan

| Stage | Modules | State |
|---|---|---|
| 1 | `FastCast`, `FeedLinks`, `EventPublisher`, `EventReceiver`, composed by `NetFeed`; abstract `LatencyReports`; proofs `NetFeed_proofs` | done |
| 1 | `StupidPool`, abstract `BufferPool`; proofs in `NetFeed_proofs` | done |
| 1 | `EspSdk`, `DbagPublisher`, `RttClient`, abstract `RowStream` | done |
| 2 | `CppPublisher` (`loadData` and `listen` in one process) | done |
| 2 | the SDK itself: `EspWindow` and `EspMessageWriter`, used by `EspPublisher` and `EspSubscriber`; `EspEvents`, used by `EspConnection`; `EspClock` | done |
| 2 | `FixedDecimal`, operators that are proved about | done |
| 3 | proofs of the measurement and the publishers: `DataLemmas`, used by `NetFeed_proofs`, `DbagPublisher_proofs`, `RttClient_proofs`, `CppPublisher_proofs` | done |
| 3 | proofs of the SDK: `EspProject_proofs` (about `EspClock` and `EspConnection`), `EspPublisher_proofs`, `EspSubscriber_proofs` | done |
| 4 | NetFeed: restart of PUB while SUB and bounced messages of the old process live on | open |

The abstract specifications worth having are `LatencyReports` (what the reader
of PUB's output may believe), `BufferPool` (what a pool's callers may believe)
and `RowStream` (what the owner of a stream may believe of a publisher).

## 3. The models

### NetFeed

`FastCast` is the contract of a topic, a record of `open` (somebody subscribes),
`queue` (what the subscriber can still get) and `gap` (it has missed something
for good). `Offered` never blocks: FastCast does not hold a publisher back, and
both callers retry an `offer` that fails for want of packet rate, which is a
stuttering step. A subscriber that lags by `History` messages loses everything
from there on and is told by `dropped()` once it has taken what it holds.

`FeedLinks` declares the two topics and what is on them. An event is its round
and its index; that stands for the send time stamp, the only field the
programs use after sending.

`EventPublisher` (PUB):

| Code | Model |
|---|---|
| call of `run` and its `i` | `pubRound`, `pubI` |
| field `hi`, the histogram objects | `hi`, an index into `histos` |
| tasks in `dumper`, output | `dumping`, `printed` |
| `EP:96-111` | `SendEvent` |
| `EP:112-114`, the loop in `main` | `SendEnd` |
| `EP:63-72` | `RecordLatency(fast)`, fast being the test against one second |
| `EP:51-62` | `CloseRound` |
| `EP:76-78` | `LoseBack` |
| `EP:59-61` | `Dump(k)` |

`EventReceiver` (SUB): `cur` is the message that the receiving thread is
spinning to bounce; while it is there the thread takes nothing else. `Start` is
somebody starting the program, `ReceiveEvent` goes from `messageReceived` through
Esper into the listener, `ReceiveEnd` is the `else` branch, `Bounce` the `offer`
that succeeds, `Exit` is `dropped()` with its `System.exit`. What SUB had offered
on *back* when it died may arrive in part (`Orphaned`).

`NetFeed` composes the two; each thread's steps interleave with all others.
`ends`, `inc` and a bounced message's `inc` are history: they tell which SUB
process acknowledged a round. `LatencyReports` is the abstract measurement and
`NetFeed!Abstract` the refinement mapping: the k-th END received closes report k,
whose samples are those of the k-th histogram from then on.

### StupidPool

One action per shared access of `getBA` and `returnBA`: the read of a slot, the
`compareAndSet`, the read and the write of a counter. `slot[t]` is the loop index `i`, `held[t]` is what thread t
has in hand between calls, `ba[t]` the call's local variable. A new array is one
nobody refers to (the garbage collector's view of `new`). The caller in
`messageReceived` is commented out; the pool is public, and the model lets every
thread use it. `BufferPool` is the abstract pool; an array counts as lent from
the successful `compareAndSet` on. The specification's names begin with Pool where
`NetFeed` has the same ones (`PoolInit`, `PoolSpec`), since one module proves things about both.

### EspSdk, DbagPublisher, RttClient

`EspSdk` keeps the state of one publisher: calls of start and stop, the
connection, the writer and whether it is in a block, the queue of the buffered
mode, the rows the project has. A row is its running number.

`DbagPublisher` is one run: `pc` is where the thread is. `WriteRow` is the body up
to `endRow()`, `EndRow` the rest of it with `endBlock()` and `publish()`, `EndRound`
the end of a round with the commit of the last one, `Report` the division by the
time it took, `StopPublisher` and `Finally` the two stops. `Throw` is every
exception: a failed connect, a lost connection, a division by zero. `blockSize` and
`bufferSize` are chosen from `Args` at the start.

`RttClient` adds the subscriber: `events` is what `getNextEvent()` will answer,
filled by the project (`Package`, `LoseData`, `Disconnect`) and closed by main's
stop (`CloseSubscriber`). `RecordRow` is one iteration of the row loop,
`RecordFails` the exception `recordValue` throws for a latency beyond the
histogram's range, which ends the thread.

`RowStream` is the abstract stream both publishers fill.

### CppPublisher

The body of `main()` in `dbag_publisher.cpp` is commented out; the model runs
`loadData()` and `listen()` as that body would, side by side in one process, and
takes `listen()`'s stream to be the one `loadData()` fills. `lpc` and `hpc` are the
places of the two threads. Every call may fail, and then `print_error_and_exit`
ends the process under both (`LoadFails`, `ListenFails`). Two statements end it
otherwise, as process `trapped`: the division by the time a round took (`CPP:237`), zero
if that is less than half a millisecond, and the text `CPP:367` points to by adding a
number to a string. `clock` ticks between any two steps; a row's key is
`Nanos(clock)`, which is `clock % Second`. `live` holds the handles that have been
created and not freed, `dangling` says that one was used after it had been freed (or
before it was created).

### The SDK: EspWindow, EspMessageWriter, EspPublisher, EspSubscriber

The SDK comes as binaries; its headers' declarations, and the contracts that their
comments state, are the source of these modules. Their users do what the headers
allow, in any order, where `EspSdk` above is the small part that the three publishers
rely on, with three limits: an entity is connected once (what connecting again after
DISCONNECTED does is not said), a clock that is not paused is not resumed (neither is
that), and a subscription that is requested before `connect` is the same step as one
requested after it, since the request reaches the project when the connection is there.

`EspWindow` is a keyed window of the project and what the operations of a row
(`ESP_OPERATION_T`) do to it, singly, as an envelope or as a transaction that fails
as a whole. It declares the schema: the keys, the values and the number of columns, the first of
which is the key. `EspMessageWriter` is the state of one writer and its relative row
writer: columns in order, nulls, shine-through, blocks.

`EspPublisher`: threads with one writer each (writers are not thread safe, the
publisher is). `opt` is what `EspPublisherOptions` sets: the blocking mode, the buffer
size, whether `publish()` waits for the acknowledgement; `raw` gives the threads raw
writers, which take formatted buffers (`Add_Buffer`). `queue` is drained by the
publishing thread (`Send`), `wire` by the project (`Process`). A call that waits is in
`pc` until it returns or fails. With a buffer there are two ways to wait. `end_row`,
`end_block` and `add_buffer` wait in "queue" for room for what they have completed
(`Complete`, then `Enqueue`). `publish()` and `commit()` wait for the data that is queued at the
time of the call (`ahead`): `publish()` until all of that is on the wire, `commit()` until the
project has processed it. Units go by in order, so `ahead` is the number of those still
to come, and what others queue later does not count. Every row carries its thread, its number in the order its
thread completed rows, and the number of its transaction (`Stamped`); these, `completed`,
`flushed`, `acked` and the project's `log` are history, which no guard looks at but the
bounds. `Written(t)` puts the rows of a thread together again from wherever they are.

`EspSubscriber`: the project's window changes (`Publish`), the changes go to the
subscription's queue at once or at the next `Pulse`, and the user takes events one
by one and builds `replica` from their rows. `opt` has the flags and the queue size,
which counts messages; a full queue makes the project wait, lose data or drop the
connection, depending on the flags. Data that is lost is the oldest beyond the base; a
warning takes its place (`Shed`), and the base is never shed. `Expected` is the window the
user will have when it has read all that is on its way, and `Agree` says when a copy is right
but for some keys.

### EspEvents, EspConnection

`EspEvents` holds the event codes of the headers as sets of bits, and the two ways
in which a code can be tested against a mask of registered events; the headers
do not say which one is used, so `test` is chosen at the start.

`EspConnection` has servers, projects, publishers and subscribers in callback or
selection mode. `calls` are what the updater thread has to do for each entity, in
order (`Update`); doing it changes `conn` and raises events; `Raise` keeps those `Chosen` for
the user; `Dispatch` and `Select` hand them over. A lost connection makes an entity
stale or, without retries, disconnected, and retries follow (`Lose`, `Retry`). Each entity has a
connection of its own that may break; an entity inside another one can be got only once
that one has connected (`Available`), but the headers do not say what the loss of the outer
connection does to it, and the model lets either break without the other.

### EspClock

The clock of a project, the components that go by it, and clients with a copy each, of
which `snap` keeps the pause count. `made` has the system's time of every change. A component
discovers changes on its own (`Discover`): `seen` is how many it has discovered, `runs`
whether it takes the clock to run since. What the header says of the maximum sleep time is
a bound on that: time does not pass (`Tick`) beyond `MaxSleep` after a change that a
component has not discovered (`Awake`). A call that makes a change knows nothing of the
components; it only waits until `MaxSleep` has passed since its change (`call`, `Returns`).
Nobody else has to wait: other clients change the clock in the meantime, and debug mode
halts it and lets it go on (`Debug`).

There is one count of pauses, which any client may decrement (`Resume`). `owes` is history,
the pauses a client has not resumed, and `orderly` says that nobody has resumed more than
it owes. The system's clock ticks two half ticks at a time so that a rate can be half of it;
rate 2 is the system's.

### FixedDecimal

`FixedDecimalValue` of `DataValue.hpp` with words of `Word` values: `Signed` is the cast to
`long long` in `operator<`, `SetDigits` the digits packed into 16 bits. The module
has no state; its operators are not run but proved about (in `CppPublisher_proofs`).

## 4. Runs

| Run | Instance | Shows |
|---|---|---|
| `feed` | 3 rounds of 3 events, one in 2 bounced, history 3 | samples in their round, complete reports, nothing overtakes, histograms frozen after the hand-over; an END that SUB can still get is reported unless somebody is dropped; refinement of `LatencyReports`, with its fairness |
| `feed_bounce_thread` | 2 rounds, the same otherwise | finding: the receiving thread blocks on the bounce |
| `pool_safety` | 3 threads, 4 arrays, 2 slots, 4 calls of `getBA` | exclusive arrays, counters never too high, bounded calls, refinement of `BufferPool` |
| `dbag_publisher` | 2 rounds of 4 rows; block sizes 0, 1, 2, 3, 5 without and 0, 3 with a buffer of 2 | block flag, what exactly the commit covers, drained queue, refinement of `RowStream`, termination |
| `dbag_stops` | the same | finding: two stops for one start |
| `dbag_open_block` | the same | finding: the commit leaves an open transaction behind |
| `rtt_client` | 2 rounds of 2 rows, queue of 2, reports of 2 | exact and ordered reports, matching stops, refinement of `RowStream`, both threads end |
| `cpp_publisher` | 2 rounds of 2 rows, seconds of 2 ticks; blocks of 2, without and with a buffer | success means everything was sent, neither stop hits the other thread, no handle is used after its end, latencies right modulo a second, both functions end |
| `esp_publisher` | 2 threads, 2 rows, one block (those without rows of a buffered publisher not counted), one key, a socket of one unit; synchronous without a buffer, a buffer of 2 with transactions of the SDK's, a queue of 1 with raw writers and explicit blocks | order and place of every row, what a returned call promised, whole transactions; calls that wait for the queue return though others go on filling it, others wait for ever only if they are overtaken for ever; closing delivers |
| `esp_subscriber` | 3 messages of 5 kinds, 2 keys, 7 sets of options, queues of 1 and 2 | the replica converges to the window, blocks are kept; it catches up and does not stop the project for good |
| `esp_connection` | a server and a project; a publisher and a subscriber; a project and its publisher; 1 loss, 1 error, up to 2 retries | the events give the right view of the state, follow the protocol and ask for one call at a time; no connection stays stale, the publisher goes on |
| `esp_clock` | 2 clients, 2 components, 4 changes within 5 ticks, a maximum sleep time of 2 ticks | the real flag; a call that has waited has arrived everywhere; what a client has paused stays paused |

Properties are conjunctions where one reader would ask for all parts:
`EventsTell` of `NoneMissed`, `ViewRight`, `Protocol` and `OneCallPerReady`,
`NobodyStuck` of `StaleEnds` and `PublisherGoesOn`. A definition commented as a *slip* is a wrong variant of an
action, named for the property that catches it.

Bounds, and why they are enough. `MaxRounds = 3` lets a round be lost between two
that are reported, and two reports be printed at a time. Three events with one
in two bounced make rounds of one and of two samples, so that the sampling phase
moves across ENDs. A history of three is less than a round, so that SUB can be
dropped in any phase, and *back* can overflow, too. Three threads and two slots
give the pool every race for a slot, with a third thread to change it in
between, and one array reused in the same slot (ABA); four arrays are as many as
four calls can need. For DbagPublisher the block sizes leave a rest of 0, 1 and
3 rows, one exceeds the round, and a transaction spans two rounds. In RttClient
a DATA event holds one to four rows, so reports end inside and across events.
For the C++ publisher a second of two ticks makes time stamps repeat within and
across rounds. In the SDK, two threads and two rows give the publisher every
order of writing, sending and processing around a full queue of one or two units
and a block of two rows. The rows are few, and two threads would soon have nothing more to
queue; so a buffered publisher takes blocks without rows, which count for no bound: one
thread can go on queuing for ever while another one waits, which is the case the header
warns of (`esp_publisher.h:341-347`) and what `CallsReturn` is about. Two keys let a subscriber's pulse consolidate one key while
another one is untouched, three messages are one more than the queue holds.
The events need one loss (all retries may fail or the second may work), one failed
call, and two publishes, so that a READY can be used twice if nothing prevents
it. Of the clock's four changes, two may be pauses of both clients, the others a
resume, a reset or the beginning and end of debug mode; two ticks of sleep let a
component discover a change before, between or after two others, and changes overlap
with calls that wait for earlier ones. Symmetry is used for the clock's clients and components and for the
pool's threads and arrays only, which no action tells apart, and never in a run
that checks liveness.

Fairness. `FairSpec` of NetFeed has weak fairness of each thread: PUB's main
thread, both receiving threads, and each task of the cached thread pool, which
starts a thread for a task when none is free. A spin on `offer` ends since the
permitted packet rate is renewed with time. `Start` is not fair: nothing obliges
anybody to start SUB; nor are `Exit` and `LoseBack`. In `DbagPublisher` and `RttClient`
the program's threads and the SDK's publishing thread are fair; losing a
connection, packaging and losing data are not. In the SDK, its own threads and calls in
progress go on: the publishing thread, the project, the updater, the dispatcher,
retries and pulses; a subscriber's user goes on reading, and a selector's user
selecting, since nothing is promised to a user who does not. Publishing, losing
a connection, disconnecting and closing are never fair. Fairness is weak throughout, so a call
that waits for room in a publisher's queue may be overtaken again and again, which
`CallsReturn` allows for. In `CppPublisher` its two
threads and the SDK's publishing thread are fair, ticks and losses are not.
`pool_safety` and `esp_clock` check no liveness and have no fairness. Deadlock is
checked, except where a program may end, a closed entity is of no further use, or
users may stop; each cfg says so.

### Findings

* `ER:102`: the comment at `ER:145-146` wants bounces done in a different thread;
  the executor for it is commented out and the bounce spins in the receiving
  thread (`feed_bounce_thread`). Had only the events been moved, though, ENDs
  would overtake them: that is the mutant `ReceiveEndDirect`.
* `DJ:97`: without a buffer and with a block size, the rows after the last multiple
  of the block size stay in an open transaction at the commit (`dbag_open_block`).
  `CommittedRows` states how many.
* `DJ:116`, `DJ:146`: two stops match one start (`dbag_stops`). `RTTClient` does it
  right, as `StopsMatchStarts` of `rtt_client` shows.

Observed while modelling, and not run as findings, since nothing in the
repository says otherwise of them or since the models leave them out:

* `CPP:204-215`: the end of a block is commented out, so with a block size and no buffer
  rows are published one by one in a transaction that never ends (`CPP:151`, `:259`).
* `CPP:164`: the key of a row is `tv_nsec` alone; keys repeat, an insert of a key that is
  there is rejected (`esp_stream.h:65`), and success is reported (`CPP:249`).
  `SuccessMeansSent` and `LatencyModuloSecond` state what does hold.
* `CPP:246`: `loadData()` and its callees never free the error, URI and credentials objects
  that the headers ask to be freed (`esp_error.h:35`, `esp_credentials.h:63`).
* `esp_publisher.h:187`, `esp_subscriber.h:154`, `:159`: three event codes are the OR of
  two others, although codes are to be OR'd into masks; however the SDK tests a mask,
  somebody registered for the two gets the third, or nobody gets it alone.
  `EventsTell` holds for both ways of testing, and so says that nothing is missed.
* `POCHistogram.java:46`, `:56`: counts that are totals already are added up again, so that
  percentiles exceed one. `HistoParse.java:49`: a file without a header line ends the
  whole run, and the list `parseLines` returns stays empty, so the .csv files are never
  written.

## 5. Proofs

`NetFeed_proofs` (for every number of events, sampling rate, history and rounds;
the assumptions are the `ASSUME`s of `FastCast`, `FeedLinks` and `EventReceiver`:
positive numbers):

* `TypeCorrect`: `Spec => []TypeOK`.
* `NothingOvertakes`: `Spec => []PipelineInOrder`.
* `SamplesAreInTheirRound`: `Spec => []SamplesInTheirRound`.
* `MeasureIsConsistent`: `Spec => []MeasureInv`.
* `HandedOverIsFrozen`: `Spec => HandedOverFrozen`.
* `Implements`: `Spec => ImplementsReports`.

They all follow from one inductive invariant, `FeedInv == TypeOK /\
PipelineInOrder /\ MeasureInv`. `SamplesInTheirRound` alone is not inductive: it
looks at closed reports, but the reason why the next END cannot close too early is
that nothing on its way is out of order. So `PipelineInOrder` orders the whole
pipeline (topic *back*, the message being bounced, topic *stream*, the message to
be sent next), and `MeasureInv` ties its near end to the histogram: what has
been recorded since the last END precedes everything in flight, and everything
in flight is later than the last END. Each action is shown to keep both: sending
appends the greatest message, taking removes the least, a drop or a restart
removes some. The refinement then needs only `MeasureInv` for the step that closes
a report and the frozen histograms for the others.

The second part of the module proves `ReportsAreComplete`,
`Spec => []CompleteReports`. Which events a SUB process bounces is settled when it starts:
its listener counts every event from then on, so a number per process, its base `b[i]`,
says of each message whether the `i`-th process bounces it (`Phase`, `Returned`; the count
is the phase of the next message, `CountRight`). The inductive invariant `ReportInv` says
that such bases exist with which nothing is missing on the way: topic *stream* holds
successive messages (`StreamInv`), no message to be bounced lies between two neighbours
on topic *back*, in the receiving thread or to be received next (`QueueLinked`, `FrontLinked`,
`CurLinked`), only what is to be bounced is (`AllReturned`), and so the open histogram is
exactly what was to be bounced between the last END and the next message to arrive
(`OpenReport`). A new process gets a new base, and neighbours of different processes are
not linked, which is why the property is about reports of the same one. What remains is
arithmetic: nothing but events between two ENDs makes them ENDs of successive rounds, and
of `NumEvents` successive numbers `NumEvents \div SampleEvery` of them, rounded down or
up, are in one residue class (`CountInPhase`).

The third part of the module is about `StupidPool` (for every set of threads and arrays and every size):
`PoolTypeCorrect`, `ArraysAreExclusive`, `StatisticsAreLowerBounds`, `CallsAreBounded` (every step of a call lowers
`StepsLeft` and no other thread raises it, so a call is wait-free) and `PoolImplemented`.
`Exclusive` is inductive together with `PoolTypeOK`, which says at which label a call
owns an array. A `compareAndSet` that succeeds on an array which has been away
and come back (ABA) is harmless because what it compares is all that matters:
the array is in the slot now, and so in no other place.

`StatisticsAreLowerBounds` (`NeverOvercounted`) needs more, because an increment that
lost its race sets a counter back: `CountInv` says that there are numbers of hits and
misses, with the calls in progress as many as the calls begun, which neither a counter
nor a value read by an increment in progress exceeds.

`DbagPublisher_proofs` (for every number of rows and rounds, block and buffer
size in `Args`): `TypeCorrect`, `BlockFlagRight`, `AllButTheOpenBlock`, `QueueDrained` and
`StreamImplemented`. One inductive invariant, `IInv`, gives all of them. Its parts:
`LifeInv` ties starts and stops to the place of main; `IdleInv` and `ModeInv` say
which of writer and queue is used and when a transaction is open (`BlockFlag`);
`NumberInv` that the rows on the stream, then those queued or written, are
consecutive numbers; `PlaceInv` that the next number is the place in the rounds;
`WriterInv` that the writer holds the rows since the last one that ended a block,
of this round or of the one before; `CommitInv` that nothing is sent once the commit
is done. Without `NumberInv` the refinement cannot say which row comes next;
without `WriterInv` nobody knows what the commit leaves behind. The refinement
maps the end of a block, the sending of a queued row and a row without a block to
the abstract stream's delivery, the commit to its end, and all else to stutters.

`RttClient_proofs` (for every number of rounds and rows, queue and report size; a positive
number of rounds, as the code's `lcount = 20`): `StopsMatched`, `StreamImplemented`,
`ReportsAreExact`, `TypeCorrect` and `SamplesAreInOrder`. The two threads
share nothing but the SDK, and the proof shows it: `MainInv` is inductive without a
word about the receiver, `ReceiverInv` without one about main's place. `HistogramInv` says
that `histoCounter` is the size of the histogram being filled, below `ReportRows`.
`SamplesInOrder` looks at the latencies recorded, which says nothing of those that come
next; `PipelineInv` orders the whole pipeline, recorded rows, the rows being read and the rows
of all events to come, up to where the subscription stands, without gaps unless data was
lost. `ReadInv` says when there is nothing on the way; each step of either thread and of
the project moves the border between the parts or adds to the end.

`CppPublisher_proofs` (for every number of rounds and rows, block and buffer sizes, length
of a second and bound of the clock): `PublishedRows`, `HandlesAlive`, `LatencyRight`. The
invariant `IInv` has one part per reason: `LifeInv` counts starts and stops by the places of
both threads, so that neither stop is the last one while the other thread works, whatever
the order; `HandleInv` says which handles are alive at which place; `ModeInv` which of writer
and queue is used; `NumberInv` that the rows sent, and then those on their way, are
numbered on; `PlaceInv` that there are as many as the place in the rounds says; `CommitInv`
that the last round ends with nothing left. `PublishedRows` needs the last four, for only
together do they tell that a loss of the link or an exit cannot be taken for success.
`LatencyRight` is inductive once every row is known to carry the nanoseconds of the time it
was written at (`Row`); that a difference of remainders is right modulo a second is
arithmetic (`WholeSeconds`).

The same module holds the theorems about the fixed decimals of `FixedDecimal` (for words of
any even number of values; the premise `EvenWord` is stated in each theorem):
`ComparisonsRight`, all comparisons are those of the integers in two's complement, and
`DigitsComeBack`, which digits of `setDigits()` are read back.

`EspProject_proofs` is about the clock and about connections. The clock, for every finite set
of clients, every set of components and of positive rates, every positive sleep time and
every bound: `RealIsReal`, `ChangesHaveArrived` and `PausesHold`. `ClockInv` has one part per
reason. `Timing`: changes are made in the order of time, and no component has slept through
one for the maximum sleep time, so that none can have missed a change when the call that made
it returns. `Waiting`: a call waits for its client's last change.
`Counted`: in an orderly history the count of pauses is the sum of what the clients owe, which
changes with the one that pauses or resumes (`SumOfChanged`), is zero after a reset
(`SumOfZero`) and is at least what any one owes (`SumOfBounds`). `Viewed`: a component that
has discovered the last change of a client that owes a resume takes the clock to be paused,
and the copy of such a client has a pause. `PauseHolds` alone is not inductive: it says nothing
while the client's call still waits, and nothing of why a component that discovers somebody
else's change keeps the pause.

Connections, for every set of entities, setups of them and bounds (`SetupsAssumption` says
what the headers do: events of the entity's kind, and that only servers and projects
reconnect): `EventsTellTheState`. The invariant `ConnInv` is one statement about each entity
(`Sound`), of its state `c`, the events `s` raised, `p` pending and `g` delivered, and its
calls `q`. What was delivered and is pending is what was `Chosen` of the events raised, and who
registers for an event has chosen it (`ChosenRight`), so that nothing is missed however events
are taken. `Telling` relates the state to the last event that tells one; it needs that a
closed entity has no calls left (`CallsOf`), or a late call would raise something after CLOSED.
`OneTurn` says that a READY pending and a publish called exclude each other, and that there is
neither before the entity has connected. One event is shown to keep all this (`RaiseOne`); two
at once, as in closing a connected entity, are one after the other through a state nobody sees
(`RaiseTwo`). That an event is chosen is a filter of sequences (`Only`), which distributes over
concatenation (`OnlyConcat`) and absorbs another filter (`OnlyTwice`).

`EspPublisher_proofs` (for every set of threads, schema, options, operations and buffers,
any numbers of rows and blocks; the assumptions are `OptionsAssumption`, what the header
allows, and `InputsAssumption`, that buffers hold rows): `RowsInOrderOnce`, `PromisesAreKept`,
`TransactionsWhole`. The inductive invariant is `IInv`, whose parts were first checked by TLC
on a larger instance than the run's (one more set of options, two blocks):

* `WriterInv` says where nothing can be: no rows outside of a block, no queue without a
  buffer, no unsent units with one but those of a call that waits for room.
* `OrderInv` is `InOrderOnce` for two borders more: the rows the project has, those with the
  wire, and all, are `1, 2, 3, ...`; a broken connection leaves the first two. Every step but
  that one is shown to *move on* (`MovesOn`): each of the three sequences of each thread is a
  beginning of what it was before, or gets the next row behind it. That `Send` in transactions
  of its own, `WriteUnit` and `Process` lose and double nothing is that flattening is a
  homomorphism, so that the sequence of all rows is the same one afterwards.
* `PromisesKept` is kept by whatever moves on; the calls that return set the counts, and
  what they waited for with `OrderInv` says the rows are where they should be.
* `AheadInv` is why a buffered `publish()` or `commit()` may look at a number only: behind the
  first `ahead` units of wire and queue there are none of the thread that waits (`Behind`), as
  it is in no other call while others queue theirs. When `ahead` is no more than the wire
  holds, its rows have all left the queue, and when it is zero the project has them.
* `BlockInv` follows the transactions as a second such sequence (`Rest`): units of one
  block each (`ShapedUnits`), in rising numbers, all later than the blocks the project has
  rows of (`Queued`). So the rows of a transaction reach the project in one unit, and
  `Passing` decides about it as a whole. A unit the SDK makes of several (`AUTO_BLOCKING`)
  is why the property asks for `Blocking`.

`EspSubscriber_proofs` (for every schema, any sets of messages and options and any bound; the
assumptions are `SchemaAssumption`, that the shinethrough mark is no value,
`MessagesAssumption`, that messages hold rows of the schema, and `SubscriberAssumption`):
`CopyConverges`, `BlocksStayWhole` and `TypeCorrect`. The inductive invariant is `Inv`, which
TLC has checked on the run's instance:

* `TypeOK`, with the windows and copies finite: pulses and bases enumerate their keys.
* `Order`: no rows without the event they are from, no copy before there is a subscription,
  and only pulses leave changes behind.
* `Converges` itself. It speaks of all that is on its way (`Expected`), so taking an event or
  reading a row does not change it (`ReadHead`), and what is delivered is read after the rest
  (`ReadConcat`, `ExpectedMore`). It remains to show what the rows delivered do to a copy that
  agrees with the window. Those of a message follow the window row by row
  (`DeltaKeeps`, `DeltasFollow`), with the rows that fail or have no effect left out; a cell that is
  shinethrough is right if the copy's is, which is why without a base a cell may be null as well.
  Those of a base or a pulse tell the state of their keys whatever there was before
  (`Latest`, `LatestAllKeep`), and so make a copy right about the keys it is wrong about.
* `Kept`, which strengthens `BlocksKept`. That one looks at the copy between two events, and says
  nothing of the events to come. `Tells(queue, replica, rows, past)` says: wherever the queue is cut
  behind SYNC_END and before any warning, reading up to the cut makes the copy one of
  the windows `past`. Taking an event or a row is a cut further on (`TailTells`, `ReadTells`),
  a message adds one cut, whose window is the one `Converges` gives (`AppendTells`), the base adds
  none before its end (`BaseTells`), and shed data changes nothing before the warning
  (`ShedTells`, by `ShedFacts`, which says what is left of a queue).

`Kept` needs `Converges`, for the window at a new cut is known because the copy agrees with it;
`Converges` does not need `Kept`. `Has_Flag("PRESERVE_BLOCKS")` is
used at one place only, that a message is one event.

`DataLemmas` has what these proofs share and the library does not offer. The installed
provers cannot instantiate the library's induction theorems, which take an operator; but
`WFMin` takes a set, and so induction is stated here of the *set* of the numbers, or sequences, that
have a property (`SetInduction`, `SeqInduction`), and recursion of a function on them
(`Recursion`). From these: the k-th member of a finite set (`Ranks`), what `FlattenSeq` and
a `FlatMap` make of an appended, a joined and a split sequence, and the sum of a function
over a finite set when one value changes. It also has sequences of consecutive numbers and
the remainder of successive numbers.

Every safety property of the passing runs is proved. Only model-checked are those out of the prover's
reach: all liveness and fairness (`EndIsReported`, `ImplementsFairReports`, `Terminates`, `ThreadsEnd`,
`CallsReturn`, `CatchesUp`, `NobodyStuck`), and the ENABLED of `BounceInDifferentThread`. What
`After` and `FlattenSeq` compute is proved with the inductions of `DataLemmas`. The prover does not know `SelectSeq`, which is why `By` is a
flattened sequence and `Only` a recursive function.

## 6. Not modelled

* A restart of PUB, several SUBs at once, and several publishers on a topic.
* FastCast's protocol (packets, retransmission, rates), Esper, HdrHistogram and
  the SDK's inside: external; their contracts are modelled from their use and,
  for the SDK, from its headers.
* Of the SDK: schemas, metadata, streams' types, credentials, URIs and error objects
  carry no behaviour of their own; `esp_dispatcher.h` only runs what other parts ask
  for. A reconnecting publisher or subscriber does not exist in the headers.
* `DataValue.hpp` apart from the fixed decimal: unions of plain values; the arithmetic of
  fixed decimals is declared without a body. `GenericAdapterInterface.h` declares what an
  adapter would export, and nothing in the repository does or calls it.
* MDEsper: it sends from one thread, and what its listeners print is arithmetic over
  batches that Esper makes up. `MovingAverage` only prints, and nobody uses
  `RateReportingListener`.
* parsehistogram: a sequential converter of text files; see the observations above.
* Prices and quantities, the wording of output, time as such. Latency enters only
  as a free choice between recorded and cut off, or recorded and thrown.
* The lines of two reports printed at the same time can alternate on
  `System.out`; the text of reports is not modelled.
* Negative block and buffer sizes on DbagPublisher's command line; the option
  parser of `dbag_publisher.cpp`.
* Scripts, build files and logging configuration.
