# TLA+ models of cpp-base

This directory holds TLA+ models of the stateful parts of cpp-base. Each
model comes with the TLC configurations that check it. Every module is
written from the C++ under `src/`, and `PROJECT.json` maps each
definition to the lines it models.

## The system

cpp-base is a library of independent components:

* **Probabilistic sets and counters.**
  * `CuckooFilter` stores fingerprints in a `SingleTable` of packed tags.
  * `BloomFilter` is a bit vector.
  * `ExpandableBloomFilter` grows a chain of `BloomFilter`s.
  * `CountMinSketch` keeps a matrix of saturating counters.
  * They are all single-threaded.
* **Producer/consumer queues.**
  * Non-blocking queues: `RingBuffer` under a mutex (`MpmcQueueByMutex`), and two lock-free single-producer/single-consumer queues (`SpscQueueByFolly`, `SpscQueueByDrDobbs`).
  * Blocking wrappers: `BlockingQueueBySemaphore` and `BlockingQueueBySpinLock`, which add blocking on top of any non-blocking queue.
* **Time and threads.**
  * `PeriodicClosure` runs a closure on its own thread and sleeps through a `Clock`.
  * That clock is either `RealClock` or `SimulatedClock`; the simulated one wakes sleepers from `AdvanceTime`.
* **Cluster membership.** Each server runs a `MembershipManager`. It competes through a `ZooKeeperClient` for N active positions, which are ephemeral ZooKeeper nodes.
* **Caches and registries.**
  * `LruMap`/`LruSet` are bounded maps and sets.
  * `GlobalExporter` is the mutex-protected registry of exported stats and configs; the HTTP server serves it.
* **I/O and text.** HTTP server, sockets, file streams, string conversions, MD5.

The components interact in these places:
* the blocking wrappers call a non-blocking queue;
* `PeriodicClosure` sleeps on a `Clock`;
* `MembershipManager` drives a `ZooKeeperClient`, whose servers are shared by all the servers of the cluster;
* `ExpandableBloomFilter` owns `BloomFilter`s;
* `HttpServer` accepts connections and reads and writes them through `Socket`, one thread per connection;
* every exported stat or config registers itself with `GlobalExporter` on construction, and the exporter calls back into it from the HTTP thread.

## Modules

| Module | Models | State | Actions |
|---|---|---|---|
| `SingleTable` | `single_table.h`, bit tricks of `util.h` | none; pure operators over a table value (bucket -> bytes) | `ReadTag`, `WriteTag`, `FindTagInBucket(s)`, `DeleteTagFromBucket`, `InsertTagToBucket`, `NumTagsInBucket` |
| `CuckooFilter` | `cuckoo_filter.h` | `data` (table_), `num_elements` (num_elements_), `last_victim` (last_victim_) | `Insert`, `Delete` (with `DeleteVictim`, `TryEliminateVictim`), `Clear`; `Contains` is a query operator |
| `CuckooSet` | the abstract promise of the filter | `stored`, a bag of fingerprints | insert one copy, delete one stored copy, clear |
| `MC_CuckooFilter` | model-checking instance of `CuckooFilter` (the 2-bit run) | | |
| `BloomFilter` | `bloom_filter.cc/.h` | none; a filter is a record value (sizes, set bits, `num_inserts_`) | `New`, `Insert`, `Contains`, `Clear` as operators |
| `ExpandableBloomFilter` | `expandable_bloom_filter.cc` | `instances` (instances_), `num_inserts` (num_inserts_), `crashed` (a CHECK failed), `inserted` (history of keys passed to Insert since Clear) | `InsertExisting`, `InsertNew`, `Clear` |
| `CountMinSketch` | `count_min_sketch.h` | `matrix` (matrix_), `sum_counts` (sum_counts_), `calls`, `returned` (AddCount's result), `true_count` and `clamped` (history) | `AddCount` (Increment/Decrement), `Clear`; `GetCount` is a query operator |
| `MC_CountMinSketch` | model-checking instance of `CountMinSketch` (the saturation run) | | |
| `MC_Sequential` | one model-checking module for the single-threaded components: the cuckoo filter (whose module it extends, so that `CuckooSetRefinement` is checked through one `INSTANCE`), the sketch, the expandable filter, `LruMap`, the conversions of `Numbers`, `Strings`, `Md5` and the two file streams; `running` picks one in `Init` | `running` and the variables of each | the chosen component's actions; a finished or crashed component repeats its final state |
| `BoundedFifo` | the abstract promise of every non-blocking queue | `queue`, a sequence of at most `Bound` elements | `Put`, `Get` |
| `RingBuffer` | `ring_buffer.h` (and `MpmcQueueByMutex`, which calls it under a mutex) | none; a ring is a record `[data, front, count]` | `New`, `TryPut`, `TryGet` as operators, with their CHECKs as `Assert` |
| `BlockingQueueBySemaphore` | `blocking_queue_by_semaphore.h` over a `MpmcQueueByMutex` | `ring`, `empty`/`full` (the semaphores), `ppc`/`sent` per producer, `cpc` per consumer, `taken` (history), `crashed` | per thread: `PutAcquire`, `PutInner`, `PutPost`, `GetAcquire`, `GetInner`, `GetPost` |
| `SpscQueueByFolly` | `spsc_queue_by_folly.h` called through `blocking_queue_by_spinlock.h` | `readIndex`, `writeIndex`, `records`, producer `ppc`/`pcur`/`sent`, consumer `cpc`/`ccur`/`cval`/`received` | `ProducerCheck`, `ProducerWrite`, `ProducerPublish`, `ConsumerCheck`, `ConsumerRead`, `ConsumerRelease` |
| `SpscQueueByDrDobbs` | `spsc_queue_by_drdobbs.h` called through `blocking_queue_by_spinlock.h` | `first`, `divider`, `last` (node numbers), `approx_size`, producer `ppc`/`sent`, consumer `cpc`/`cval`/`received` | `ProducerCheck`, `ProducerPublish`, `ProducerTrim`, `ProducerCount`, `ConsumerCheck`, `ConsumerRead`, `ConsumerAdvance`, `ConsumerUncount` |
| `MC_Concurrent` | one model-checking module for the threaded components: `running` picks the semaphore, Folly or Dr Dobb's queue, `PeriodicClosure` or `HttpServer` in `Init`, and only that one takes steps | `running` and the variables of the five instances | each thread's step of the chosen component |
| `PeriodicClosure` | `periodic_closure.cc` over `SimulatedClock` (`clock.cc`) | `now`, `events` (the clock's events_ for the closure's cond_var_), `should_stop`, `did_stop`, `rpc` (Run thread), `mpc` (main thread), `advances` | Run: `RunCheck`, `RunRegister`, `RunWait`; main: `AdvanceTime`, `Destroy`, `DestructorNotify`, `DestructorCheck` |
| `MembershipManager` | `membership_manager.cc` over `zk_client.cc` | `zk` (leader-<pos> nodes as <<address, session>>), `path_made`, per server `pc`, `idx`, `retries`, `my_position`, `address_map`, `incarnation`; `errors`, `crashes` | per server: `Connect`, `MakeZkPathStep`, `FindCreate`, `FindGet`, `FindDelete`, `RefreshGet`, `InitCheck`, `Crash`, `Restart`; per position: `Expire` |
| `HttpServer` | `http_server.cc/.h` over `socket.cc/.h` | listen thread `shutdown`/`listen`/`backlog`, `stop` (the `Stop()` caller), per connection `hpc`, `tries`, `cur` (the request being read), `closeconn`, `fd` (open or closed), `rbuf` (read_buffer_), `handled`; per peer `wire` (bytes in flight), `peer`, `replies`; `terminated` (an uncaught exception) | listen: `StartLoop`, `StartAccept`, `StartJoin`; `Stop`: `StopSet`, `StopJoin`; per connection `HandleClientTop`, `HandleClientReadLine`, `HandleClientGiveUp`, `HandleClientParse`, `HandleClientBody`, `HandleClientPost`, `HandleClientReply`; per peer `PeerRequest`, `PeerSend`, `PeerClose` |
| `MC_HttpServer` | model-checking instance of `HttpServer` (the reset run) | | |
| `MC_MembershipManager` | model-checking instance (servers as model values) | | |
| `LruMap` | `lru_map.h` (and `lru_set.h`, the same map with the value true) | `list` (list_, front first), `map` (the keys of map_), `capacity` (capacity_), `evicted` (what `evicted_value` received), `crashed` | `SetCapacity`, `Clear`, `PutNew`, `PutExisting`, `GetWithTouch` (also `Touch`), `Erase`, `EvictOldest`; `GetWithoutTouch`, `OldestKey`, `OldestValue` are query operators |
| `LruCache` | the abstract promise of `LruMap` | `entries` (key -> value), `older` (the recency order), `evicted`, `capacity` | `PutNew`, `PutEvicting`, `PutExisting`, `Use`, `Erase`, `EvictOldest`, `Clear`, `SetCapacity` |
| `GlobalExporter` | `global_exporter.cc`, `exported_stat.h`, `exported_config.h` | `phase` (per exportee: none, base, ready, dying), `stats`/`configs` (exported_stats_/exported_configs_), `value`, `crashed`, `called` (the exportees the last exporter call ran a virtual method of) | owner: `Construct` (base constructor, `Add`), `Constructed`, `Update`, `Destruct` (derived destructor), `Destructed` (base destructor, `Remove`); exporter, grouped by the HTTP handler that makes the call: `HandleVarz` (`RenderOne`, also `GetOne`, `RenderAll`, `ResetStat`, `ResetAllStats` on stats) and `HandleConfigz` (`RenderOne`, `RenderAll`, `SetConfig` on configs) |
| `MC_GlobalExporter` | model-checking instance of `GlobalExporter` | | |
| `IntMath` | the integral functions of `MathUtil` (`math_util.h`) and `mkgmtime` (`clock.cc`) | none; operators, with C's truncating `/` and `%` as `CDiv` and `CMod`, and reference definitions | |
| `Numbers` | the integer conversions of `numbers.cc`, and the calls of `IntMath` | `call` (the call and its arguments), `out` (what it returns) | `Parse`, `FormatInt32`, `FormatHex`, `FormatHex32`, `FormatHex64`, `Math`, `MkGmTime`; the algorithms are RECURSIVE operators |
| `MC_Numbers` | the inputs of the conversions (used by `MC_Sequential`), and the run of `mkgmtime` before 1970 | | |
| `Strings` | `StringTrim`, `StartsWith`, `EndsWith`, `ConsumeFirstWord` (`split.h`), the join loops (`join.h`) and the `StringPiece` comparisons (`stringpiece.h`) | `call`, `out` | `Trim`, `Consume`, `Affix`, `Compare`, `Join`, `JoinKv`; the helpers are operators, checked against reference definitions |
| `MC_Strings` | the inputs of the string helpers (used by `MC_Sequential` and the trim run) | | |
| `Md5` | `md5.cc/.h` | `md5` (finalized, buffer, count, state, digest), `msg` (the message fed), `pos` | `Update` (a chunk of the message), `Finalize`, `Read` (the digest after finalisation) |
| `FileInputStream` | `file_input_stream.cc/.h` over `File::Read` | `file`, `stream` (buffer, `buff_ptr_`, `reached_eof_`, file offset, `fp_` set), `got` (history), `errors`, `calls`, `crashed` | `ReadCall`, `ReadLineCall`, `ReadGenericCall`, `Close`; `RefillBuffer` and the loops are (recursive) operators |
| `FileOutputStream` | `file_output_stream.cc/.h` over `File::Write` | `buf`, `open`, `disk` (the file), `sent`, `accepted` (history), `errors`, `calls`, `destroyed` | `WriteCall`, `FlushCall`, `CloseCall`, `Destroy` (the destructor) |

### CuckooFilter and SingleTable

The filter is single-threaded, so each public call is one atomic action.

**Keys.** A key reaches the filter only through the two 32-bit halves of its re-hash (`GetIndexAndTag`):
* the high half modulo the bucket count is the bucket, so the model enumerates the buckets (`HashHighs`);
* the low half gives the tag through `TagHash`, with its mask and its "never 0" fix-up; the model takes the low halves from the constant `HashLows`.

**AltIndex.** It is kept with its XOR and the Murmur constant. Since the bucket count is a power of two dividing 2^32, the 32-bit product can be reduced modulo the bucket count first, which keeps TLC's integers in range.

**Kick loop.** The cuckoo-kick loop of `AddInternal` is the recursive operator `AddLoop`. The slot the table's Mersenne Twister picks for each kick is a nondeterministic choice (`KickChoices`). `KicksFor` offers that choice only when the loop will really kick, which prunes identical successors. Delete's re-add of the victim (`TryEliminateVictim`) takes kick choices only when a victim is pending (`NoKicks` otherwise), for the same reason.

**Byte layout.** The table is kept at the level of bytes, so that the width-specific packing of `ReadTag`/`WriteTag` is modelled as the code does it:
* nibbles for 4-bit tags;
* 16-bit little-endian words straddling bytes for 12-bit tags;
* the OR of the 2-bit case.

**Bit tricks.** The `hasvalueW` tricks are evaluated lane by lane, with the borrow of the 64-bit subtraction carried from lane to lane. A bucket is at most 4 lanes, and the masks discard everything above them.

**Refinement.** `CuckooSet` states what the filter promises: it is a multiset of fingerprints, where a fingerprint is a tag and its bucket pair {i, AltIndex(i, tag)}. `StoredBag` maps the filter's state (the occupied slots plus the pending victim) to that bag.

### BloomFilter and ExpandableBloomFilter

A `BloomFilter` is a value: its bit vector is the set of indexes whose bit is
set, which is exactly what `data_[index/8] & (1 << index%8)` addresses. The
constructor's rounding of the bit size to whole bytes and its
`round(bits/expected * ln 2)` clamped to 1..8 are kept (ln 2 to six decimals).
`Hash64NumWithSeed(key, hash_keys_[i])` is the constant `Mix[key][i]`: the seeds
come from `mt19937_64(1000)` in every filter, so a key has the same i-th mix in
every instance of the chain and only the modulo by the bit size differs.
`Insert` returns whether any bit changed and always increments `num_inserts_`.

`ExpandableBloomFilter` holds the instances in a sequence. `Insert` is split
into two actions by its first early return: `InsertExisting` (some instance
already contains the key) and `InsertNew` (the CHECK_LE, the growth to the
summed cutoffs and bit sizes when the last instance is full, the insert into
the new last instance, its CHECK, and `++num_inserts_`). A failing CHECK sets
`crashed`, which disables every action, as an abort would.

### CountMinSketch

The sketch is single-threaded: `AddCount` and `Clear` are atomic actions.
`Hash64NumWithSeed(key, row + 1) % num_cols_` becomes the constant column
table `Col`, and `num_rows_` is a constant. `num_cols_` keeps the code's
integer divisions of the memory budget. Cells are `uint8` or `uint16`:
`uint32` cells need integers TLC does not have. `AddCount` adds the signed
increment to each cell, clamps it to 0..max of T, adds the increment
unclamped to `sum_counts_`, and returns the least clamped cell (starting from
max of T, as the code's `min` does). `true_count` (the exact per-key counts)
and `clamped` (whether any clamp took effect) are history variables for the
properties.

### Queues

`BoundedFifo` is what every non-blocking queue promises: a sequence of at
most `Bound` elements, appended at the back and taken from the front. Each
queue module maps its state to such a sequence and checks `Spec` of the
instance as a property (a refinement).

**BlockingQueueBySemaphore.** Producer and consumer threads run the steps of
`Put`/`Get`: take a semaphore token, call the inner queue (the `CHECK`), post
the other semaphore. `TryPut`/`TryGet` have the same successful steps, and their
failing `sem_trywait` changes nothing. A thread asleep in `sem_wait` is in the same state as
one that has not called yet, so the step that takes the token is the return
from `sem_wait`. The inner queue is a `MpmcQueueByMutex`: its mutex makes each
`RingBuffer` call one atomic step. `InnerUsable` is how many elements the inner
queue takes; it is less than `Capacity()` for the SPSC queues, which is why
`empty_` starts at `Capacity() - 1`.

**SPSC queues.** One producer thread and one consumer thread call the queue through
`BlockingQueueBySpinLock`, whose retry loops call `TryPut`/`TryGet` again
after a failure: a failing check is a step that changes nothing. Every
access to shared memory is its own step:
* in Folly: the acquire load of the other index, the record write or read, and the release store of the own index;
* in Dr Dobb's: the load of `approx_size_`, the store of `last`, each iteration of the trim loop, the increment, and on the consumer side the load of `last`, the read, the store of `divider` and the decrement.

The acquire/release pairs (Folly) and the atomics (Dr Dobb's `approx_size_`;
the pointers are plain, as in the article) make sequentially consistent
interleaving of these steps the behaviours to consider. Dr Dobb's nodes are
numbered in allocation order: node n holds item n, the list is `first .. last`,
and every node below `first` is deleted.

**MC_Concurrent.** The three queues, `PeriodicClosure` and `HttpServer` do not
interact, so a product of their state spaces would only multiply the
interleavings. Instead, `MC_Concurrent` instantiates the five modules side by side. `Init` chooses one component in
`running`, and only that component's actions are enabled. The others stay in
their initial states. The state space is the sum of the five, and each
property is that component's property (a liveness property is stated as
`running = "x" => P`). Fairness is weak fairness of each named
thread step of each component.

**MC_Sequential.** The single-threaded components are combined the same way:
the sketch, the expandable filter, `LruMap`, the conversions, the string
helpers, MD5 and the two file streams. Only the component in `running` takes
steps. Each property is that component's property, stated on its instance,
and holds trivially while another component runs.

### LruMap

`LruMap` keeps `list_` as a sequence of `<<key, value>>` pairs, front first,
and `map_` as the set of its keys. An iterator is identified with its node's
key: the keys of the list are distinct whenever `map_` and `list_` agree,
which `MapMatchesList` checks. Each public method is one step, because the
class is not thread safe and its callers serialise. `Node(k)` is the
position `map_[k]` points at; a method that finds no node for a key of
`map_` fails the `CHECK(list_it->first == key)`. A failed CHECK aborts the
process: the step sets `crashed` and changes nothing else, and nothing
follows. `Put` is two actions, one per branch of `map_.find`.
`PutNew` includes the `EvictOldest` it makes when the map is full, with
the CHECKs before and after. `SetCapacity` is allowed only while the map is
empty, the "initialization time" its comment requires.

`LruCache` states the promise without a list: a partial function
`entries` and a strict order `older` on its keys. Putting or using a key
makes it the most recent. Putting a new key into a full cache first removes the
least recent one and reports its value in `evicted`. The refinement maps
`entries` to what `GetWithoutTouch` returns, and `older` to the list order
(`OlderPairs`: a key is older than every key nearer the front).

### Numbers

`Numbers` models the parser template `safe_strtoIntType_base_internal`, as
called by `safe_strto32_base(startptr, buffer_size, v, base)`. A string is a
sequence of ASCII codes, and `kAsciiToInt` and `ascii_isspace` are functions
of the code. The template keeps its structure:
* the prefix processing runs only when the first character is `<= '0'`, the last is `< '0'`, or the base is 0;
* Duff's device is a plain loop with the same checks in the same order;
* the overflow loop has the two INT_MIN special cases;
* `max_length` is taken from the caller's base, and the cutoff and remainder from the base after the `0x` and base-0 processing.

The template is run at two widths:
* at 8 bits, with the tables its comments define ("cutoff: array of floor(maximum IntType / base)"), so that every overflow edge is reached by strings of at most four characters;
* at 32 bits, with the literal int32 tables of the source.

The INT_MIN result, `sign * (value * base + digit)`, overflows int32 before the negation (undefined behaviour). The build wraps it to INT_MIN, which is the value the model computes.

The writers are modelled by what they do:
* `FastUInt32ToBufferLeft`: `Pairs(u, d)` is the code from label `lt<100 d>` on, and `Lead(u, d)` is a single leading digit followed by `sublt<d>`, so each `goto` entry is one call;
* `FastHexToBuffer`: the do-while loop;
* `InternalFastHexToBuffer`: the fixed-width loop, behind `FastHex32ToBuffer` and `FastHex64ToBuffer`.

The same runs check `IntMath`, whose operators `Numbers` calls (`Math` and
`MkGmTime`). C's `/` and `%` truncate toward zero; TLA+'s `\div` and `%`
round toward minus infinity. The code's divisions therefore go through
`CDiv` and `CMod`, and the reference definitions use `\div` directly:
`RefFloor`, `RefCeil`, a search for the GCD and LCM, and `Timegm`, which
counts leap years.

A state is one call with its result. `Init` chooses the call, and its step computes what the call returns. The reference definitions say what the header promises, independently of the code:
* `RefParse` reads the string as spaces, sign, prefix, digits and spaces, and checks the value's range;
* `Repr` gives the digits of a number in a base;
* `NumDigits`, `MaxInt` and `Pow2Mod` define the tables.

### GlobalExporter

Each exportee object goes through four steps on its owner's thread:
* `Construct`: the base constructor calls `ExportStat`/`ExportConfig`, i.e. `Add`, under the exporter's mutex. `Add` CHECK-fails (`crashed`) when the name is taken.
* `Constructed`: the derived constructor finishes.
* `Destruct`: the derived destructor runs and its members are destroyed.
* `Destructed`: the base destructor calls `Remove`, which erases the name.

`Update` is the owner storing a new value into its exported variable. The
exporter's calls are grouped by the HTTP handler that makes them:
`HandleVarz` (`/varz`) renders or resets stats, and `HandleConfigz`
(`/configz`) renders or sets configs. Each
exporter call holds `mutex_` for its whole body, so it is one step. `called`
records the exportees whose virtual methods it ran:
* `RenderOne` and `RenderAll` call `GetValue`;
* `ResetStat` and `ResetAllStats` call `ResetValue`, which stores 0 only for a resettable stat;
* `SetConfig` calls `SetValue`, which stores only a value that parses and passes validation, and then `GetValue`.

The string a config is set to is abstracted to its `ParseValue` result,
because the `std::string` overloads of `safe_strto*` call libc `strtol`. The
exporter's own `system_uptime` callback is built during static initialisation,
before any thread runs, so it is left out. The run assumes no fairness and
turns deadlock checking off, since a failed CHECK aborts the process.

### PeriodicClosure

The Run thread and the test's main thread interleave at every call into the
clock (each takes the clock's `mutex_`, so each is one step) and at each read
or write of `should_stop_`/`did_stop_`. `WaitOnCondVar` is two steps, as in the
code: `RunRegister` inserts `now + wait` into `events_` under the mutex, and
`RunWait` then enters `cond_var->wait` on Run's own local mutex, which no
notifier takes. `AdvanceTime` erases the due events and calls `notify_one`,
which wakes Run only if it is already waiting; `NotifyCondVar` (the
destructor's) erases the closure's events and does the same. The time Run
computes to sleep comes from the constant set `Waits`, since it is measured on
the real steady clock.

`cond_var->wait` is called without a predicate, so it may return without a
notify: `RunSpurious`, at most `MaxSpurious` times and never required to
happen, takes Run from its wait back to the loop test. After such a return Run
can register the same wake-up time again, which fails `WaitOnCondVar`'s
`CHECK(!ContainsKey(events_, p))` (`clock.cc:74`); both threads then go to
`aborted`, the process having ended.

### MembershipManager

Every server runs `Init` against one ZooKeeper ensemble. Each ZooKeeper call
is one atomic step of its server, and the servers interleave freely. A call may
fail (up to `MaxErrors` failures in all), which is how the model covers
connection loss, timeouts and the callback's connection states. A server may
crash at any point (up to `MaxCrashes`), and a server whose `Init` returns
false exits. Either kind of server is restarted with the same address and a
new session (`incarnation`). ZooKeeper eventually removes the ephemeral nodes
of a dead session (`Expire`). `FindCreate`, `FindGet` and `FindDelete` are the
three ZooKeeper calls of one pass of `FindMyPosition`'s loop
(`TryCreatingNode` is a create followed by a get). `RefreshGet` is one pass of
`RefreshAddressMap`, and `InitCheck` is `Init`'s all-taken test.

### HttpServer

The listen thread loops on `Accept` with a one-second timeout until
`shutdown_` is set; `Stop()` sets it and joins the thread. Every accepted
connection gets its own `HandleClient` thread, and the connection threads and
the listen thread interleave freely. Each action is one pass of the code
between two socket calls, with the socket call itself:
* `Socket::Read` returns a prefix of the bytes on the wire, times out (`-1`
  with no data), returns 0 on a FIN (and `Abort` closes the socket and clears
  the read buffer), or throws on an RST;
* `Socket::Write` throws on an RST to an open socket, else sends the reply.

A peer is the client at the other end of a connection. It picks its next
request from a small set (`Script`), writes it as segments (the request line,
split or whole, and the body), waits for the reply, and at the end closes with
a FIN, or an RST if it is in `ResetConns`. A request is a record of its method,
`Content-Length`, version, close flag and whether its header parses; the
`Cord` buffer and `HttpRequest::ParseFrom` are not in the sources, so their
effect on these fields is modelled from the calls in `http_server.cc`.

Two behaviours the model reaches have no property, because they depend on the
`Cord` code that is absent: a request that arrives after a body keeps the
body's bytes in `read_buffer_` (`http_server.cc:167`), and a body cut off by a
FIN is lost when `Abort` clears the buffer.

### Strings

`Strings` models a string as a sequence of byte values; a C string is the
same bytes followed by a NUL. Each call is one step, as in `Numbers`: `Init`
chooses the helper and its arguments, and the step computes the result.
* `StringTrim` keeps `find_first_not_of`, `find_last_not_of` and the two
  `substr`/`erase` calls, with `npos` and the clamping of a count past the
  end.
* `StartsWith` and `EndsWith` are the `strncmp` calls of the code, which
  stop at a NUL of either string.
* `ConsumeFirstWord` returns the bytes before the first space and leaves
  the input after the run of spaces that follows.
* The join loops write each part and put the delimiter before every part
  but the first.
* `==` compares the sizes, then the last byte, then `memcmp` over the even
  prefix, as the code does; `<` is `memcmp` over the shorter length followed
  by the size test. Bytes are compared unsigned.
The reference definitions (`Trimmed`, `LexLess`, `Interleaved`) say what the
comments promise, independently of the code.

### MD5

`Md5` keeps the `MD5` class's state: the buffered bytes of an incomplete
block, the 64-bit bit count, the four state words and the digest. A 32-bit
word is a pair of 16-bit halves, since TLC's integers are signed 32-bit;
addition carries between the halves, and rotation and the round functions
work on the halves. `Transform` runs the 64 steps of the four rounds, and
`Update` runs it on every full block as the code does, buffering the rest.
A caller feeds one test message in chunks of the sizes in `Chunks`, and may
call `Finalize` after any prefix. `RfcMd5` is RFC 1321's definition on a
whole message, with its own padding, and the test vectors carry the digests
the RFC lists.

### File streams

`FileInputStream` and `FileOutputStream` are single-threaded buffered
streams over a `File`. Each public call is one atomic action, and the loops
inside a call are recursive operators. The file system's behaviour is a
choice made per call:
* reading: `read(2)` returns what a regular file holds, or fails on the
  call numbered by `FailAt`;
* writing: a fault pattern says, for each `write(2)` call of the action,
  whether it writes one byte (`"short"`), fails, or writes everything.
Failures are bounded by `MaxErrors`. A failed `CHECK` or a call through the
null `fp_` aborts the process (`crashed`). The history variables `got` and
`accepted` record the bytes the caller was told were read or written. The
file's data bytes are distinct and increasing, so the order and the
uniqueness of what is delivered can be checked from the values alone.

Three behaviours of the code are reached and are part of the model:
* a failed refill inside `Read` or `ReadLine` drops the bytes the call had
  already copied;
* a failed `Flush` leaves the bytes already written in the buffer, so a
  later `Flush` writes them again;
* `ReadGeneric` does not first move unread bytes to the front, so the
  `CHECK_LE` in `RefillBuffer` aborts when more bytes are unread than were
  consumed.
The properties are therefore stated under "no failed system call". The abort
is a crash of the process, which the model stops at.

| Run | Config | Checks | Result |
|---|---|---|---|
| `sequential` | `MC_Sequential.cfg` | `SeqTypeOK`; `CuckooContainsMatchesStored`, `CuckooSetRefinement` (CuckooFilter implements CuckooSet); `NoUnderestimateUnclamped`, `RowSumsMatchUnclamped` (the sketch); `NoFalseNegative`, `NoCheckFailure`, `FilledInOrder` (the expandable filter); `MapMatchesList`, `CheckFailsOnlyAtZeroCapacity`, `LruRefinesCache` (LruMap implements LruCache); `ParseMatchesReference`, `DecimalRoundTrip`, `HexMatchesReference`, `Int32TablesExact`, `MathMatchesReference`, `MkgmtimeMatchesTimegm` (the conversions); `StringsMatchReference`; `DigestMatchesRfc1321`; `DeliveredInFileOrder`, `FileHoldsAcceptedBytes` (the file streams) | pass: ~142k states, about 2 minutes |
| `concurrent` | `MC_Concurrent.cfg` | `TypeOK`, `NoCheckFailure`, `FifoPerProducer`, `ReceivedInOrder`, `NoUseAfterFree`, `RingRefinesFifo`, `FollyRefinesFifo`, `DrDobbsRefinesFifo`, `AllDelivered`, `DestructorReturns`, `BodyIntact`, `StopReturns` | pass: ~121k states, under 3 minutes |
| `membership` | `MC_MembershipManager.cfg` | `TypeOK`, `NoStaleAdoption`, `PositionsDecided` | pass: ~465k states, about 1 minute |
| `periodic_lost_wakeup` | `PeriodicClosure_lost.cfg` | `NoLostWakeup` | violation: a code bug |
| `periodic_dangling_event` | `PeriodicClosure_dangling.cfg` | `NoDanglingEvent` | violation: a code bug |
| `membership_delete_race` | `MC_MembershipManager_delete.cfg` | `PositionHeldExclusively` | violation: a code bug |
| `cuckoo_b2_or` | `MC_CuckooFilter_b2.cfg` | `CuckooSetRefinement` with 2-bit tags | violation: a code bug |
| `cms_saturation` | `MC_CountMinSketch_sat.cfg` | `NoUnderestimate` | violation: a gap in the spec |
| `exporter_partial_object` | `MC_GlobalExporter.cfg` | `NoCallOnPartialObject` | violation: a code bug |
| `http_reset` | `MC_HttpServer_reset.cfg` | `ServerSurvives` | violation: a code bug |
| `trim_all_spaces` | `MC_Strings_trim.cfg` | `TrimMatchesReference` | violation: a code bug |
| `mkgmtime_before_1970` | `MC_Numbers_time.cfg` | `MkgmtimeMatchesTimegm` on dates of 1902 to 1969 | violation: a code bug |

**What the passing runs show.**
* `CuckooContainsMatchesStored`: `Contains` is exact on fingerprints, with no false negative and no answer for a fingerprint that is not stored. This holds through kicks, victims and deletes, and through the `hasvalue4` trick applied to a tag with its top bit set.
* `CuckooSetRefinement`: every step of the filter is an insert, delete or clear of exactly one fingerprint.

* `NoFalseNegative`: every key passed to `ExpandableBloomFilter::Insert` since the last `Clear` is reported by `Contains`, whichever instance it went to.
* `NoCheckFailure`: neither `CHECK_LE(NumElements, cutoff)` nor `CHECK(Insert)` can fail. The second holds because a key no instance contains has a clear bit in the last one, including a freshly appended one.
* `FilledInOrder`: instances fill exactly to their cutoff, in order, and `num_inserts_` is their sum.
* `NoUnderestimateUnclamped`: while no cell has been clamped and no exact count is negative, `GetCount` never understates a key, even with colliding keys.
* `RowSumsMatchUnclamped`: until a clamp, every row's cells add up to `sum_counts_`.
* `NoCheckFailure` (semaphore queue): whatever the interleaving of two producers and two consumers, a token of `empty_` always stands for a free inner slot and a token of `full_` for an element, so neither `CHECK` fails.
* `FifoPerProducer`: each producer's items are taken in the order put, without loss or duplication.
* `RingRefinesFifo`, `FollyRefinesFifo`, `DrDobbsRefinesFifo`: each non-blocking queue is a bounded FIFO. For Folly the bound is `size - 1`. For Dr Dobb's it is `capacity_`, even though `approx_size_` lags both threads.
* `ReceivedInOrder` (Folly): the consumer gets 1, 2, ... in order, so no slot is read before it is written or overwritten before it is read.
* `NoUseAfterFree` (Dr Dobb's): the trim loop never deletes the node `divider` points at or any later node.
* `AllDelivered`: whichever queue runs, every item put is eventually received.
* `MapMatchesList`: after any sequence of `LruMap` calls, every node of `list_` has its key in `map_`, once, and the two have the same size: `CheckInternalCorrectness` cannot fail.
* `CheckFailsOnlyAtZeroCapacity`: the CHECKs of `Put` and `EvictOldest` fail only for a map whose capacity is 0, where the first `Put` asks `EvictOldest` to evict from an empty map. A map of capacity 0 is accepted by both the constructor and `SetCapacity`.
* `LruRefinesCache`: `LruMap` implements `LruCache`. Every `Put` of a new key into a full map, and every `EvictOldest`, removes and reports the least recently used entry, and `Put` and `GetWithTouch` make their key the most recent.
* `ParseMatchesReference`: the parser returns true exactly for the strings the header allows, with their value, and false on every other string and on overflow. This covers every string of up to four characters over space, `+`, `-`, `0`, `1`, `2`, `7`, `8`, `f` and `x` in bases 0, 8, 10 and 16 at 8 bits, and the int32 overflow boundary in every base 2..36 and in base 0.
* `DecimalRoundTrip`: `FastInt32ToBufferLeft` writes the decimal digits of every branch threshold of both signs, and `safe_strto32_base` reads them back.
* `HexMatchesReference`: the hex writers write the base-16 digits, padded to 8 or 16 digits by the fixed-width ones.
* `Int32TablesExact`: for every base, the int32 max-length, cutoff and remainder tables and the int64 remainder table hold what their comments define.
* `MathMatchesReference`: `CeilOfRatio` and `FloorOfRatio` round C's truncated quotient the right way for every sign combination, GCD is the greatest common divisor and `LeastCommonMultiple` the least common multiple, and the comparisons are right at the int32 extremes.
* `MkgmtimeMatchesTimegm` (from December 1969 on): `mkgmtime` returns what `timegm` returns, across the leap years 1972 and 2000 and with months that carry into the year.
* `StringsMatchReference`: over every string of up to three bytes of NUL, space, `a` and 0xFF, `ConsumeFirstWord`, `StartsWith` and `EndsWith` (on affixes without a NUL, where `strncmp` is a plain prefix test) and the six `StringPiece` comparisons agree with the reference definitions; the `==` shortcut through the last byte and the even-length `memcmp` misses no byte. The join loops put exactly one delimiter between two parts.
* `DigestMatchesRfc1321`: whatever chunks of 1, 64 and 128 bytes the caller passes to `Update`, `Finalize` gives RFC 1321's digest of the bytes fed, for the RFC's test messages and one of 130 bytes, so the buffering across block boundaries, the padding to 56 bytes modulo 64 (with a second block when fewer than 9 bytes are free) and the bit count are right.
* `DeliveredInFileOrder`: the bytes the input stream returns are the file's data bytes in file order, each at most once; while no `read(2)` has failed none is skipped, and once `reached_eof_` is set all have been returned. This holds through `Read` calls larger than the buffer, lines split across refills, CR LF and bare CR, and `ReadGeneric` on a short buffer.
* `FileHoldsAcceptedBytes`: while no `write(2)` has failed, the file followed by the buffer holds exactly the bytes of the `Write` calls that returned true, each once, whatever short writes `Flush` met; after the destructor the file alone holds them.
* `DestructorReturns`: the destructor's notify loop ends (unless the process aborts first), because a notification eventually reaches `Run` in its wait, even when an earlier one was lost or the wait returned spuriously.
* `NoStaleAdoption`: a restarted server never takes the node of its own earlier session as its position. That node would disappear when ZooKeeper expires the old session.
* `BodyIntact`: a request with a positive `Content-Length` is handled with exactly that many body bytes, whether the body arrives with the header, split across reads, or after a peer's half-close.
* `StopReturns`: once `Stop()` has set `shutdown_`, its `join()` returns: the listen thread's one-second `Accept` timeout brings it back to the loop test, whatever the connections do.
* `PositionsDecided`: `FindMyPosition` eventually ends on every server for good, through competing servers, stale nodes, a crash and failed calls.

**What the failing runs show.**

`periodic_lost_wakeup`: the test's `AdvanceTime` runs between `WaitOnCondVar`'s
insertion of the event and its `wait()` (`clock.cc:78`). It erases the event,
and its `notify_one` finds no waiter, so `Run` sleeps with no wake-up
registered while simulated time goes on. Only the destructor wakes it again.

`periodic_dangling_event`: `Run` registers a wake-up after the destructor's
`NotifyCondVar` has erased the events, and its wait then returns spuriously
(`clock.cc:78` waits with no predicate). `Run` sees `should_stop_`, sets
`did_stop_`, and the destructor's loop ends, so the destructor returns with an
event in `events_` that points to the destroyed `cond_var_`. The next
`AdvanceTime` past that time calls `notify_one` on freed memory. Without the
spurious return the destructor's next notify would erase the event.

`membership_delete_race`: a restarted server reads leader-0, which still holds
its own address from its earlier run, and decides to delete it. The old session
then expires, and another server creates leader-0. The delete
(`membership_manager.cc:136`, `zoo_delete` with version -1) removes that live
node, and the restarted server creates its own. Both servers now hold position
0. Position 1 stays empty, so neither `Init` ever returns. This is why the
`membership` run checks `PositionsDecided`, not `Init` returning.

`cuckoo_b2_or`: With 2-bit tags, `WriteTag` ORs the tag into the byte (`single_table.h:111`). Overwriting a slot during a kick therefore merges two tags: TLC shows tag 1 overwritten by tag 2 leaving tag 3. Deleting writes 0, which clears nothing.

`cms_saturation`: `AddCount(k1, 300)` saturates the uint8 cells at 255, and a
`Decrement(k1)` then gives 254 while the exact count is 299. The sketch then
understates a key with certainty. spec.md 4.4 promises overestimation only,
and its own example is the saturating `AddCount(100, 300)`.

`exporter_partial_object`: `AbstractExportedStat`'s constructor registers
`this` with the exporter (`exported_stat.h:23`) before the derived constructor
has built the variable pointer or the callbacks. A `RenderAll` on the
HTTP thread in that window calls `GetValue` through the base class's vtable,
which is a pure virtual call. The same window opens at the other end: the base
destructor unregisters only after the derived part is destroyed. Configs do the
same in `AbstractExportedConfig`.

`http_reset`: a client sends a request whose header line does not parse, then
resets the connection. `HandleClient` answers `BAD_REQUEST` with
`Socket::Write` (`http_server.cc:138`), which throws on the reset socket. No
`try` surrounds the call in the connection thread, so `std::terminate` ends the
whole server. The same happens when the read of a POST body throws
(`http_server.cc:163`). A client on the network can stop the server this way.

`trim_all_spaces`: `StringTrim` (`split.h:92`) finds no non-space with
`find_last_not_of` in a string of spaces only, and then takes
`substr(0, str.length() - 1)`. A string of n spaces comes back as n - 1
spaces, where every other string comes back without its leading and trailing
spaces: `"  "` gives `" "`, not `""`.

`mkgmtime_before_1970`: `mkgmtime` (`clock.cc:129`) counts leap days with C
divisions of `year_for_leap - 69`, `- 1` and `+ 299`. For years before 1969
these round toward zero instead of down. 1902-01-01 comes out one day late,
and so do three years in four before 1968 (for example 1965-03 to 1968-02).
`clock.h` calls it a replacement for `mktime` that assumes GMT. Its caller
`strptime_64` stores the negative result in a `uint64_t`, so its `ret < 0`
check never throws.

**Bounds.**
* `ExpectedNumElements = 4` gives 2 buckets of 4 slots, the smallest table in which a tag's two buckets differ and a full pair forces kicks and a victim.
* `HashLows = {0, 30}` gives two kinds of tag:
  * tag 1, whose alternate bucket is the other bucket;
  * tag 14, whose alternate bucket is itself, and whose top bit exercises the `& ~x` term of the bit trick.
* `MaxCuckooCount` stands in for `kMaxCuckooCount = 500`:
  * It is 3: two kicks, so an evicted tag can be carried on and evicted again.

* `sequential`, expandable filter: keys 0..4, an 8-bit first filter and cutoff 1. The chain grows to 4 instances (cutoffs 1, 1, 2, 4), and the 8-bit filters with 6 hashes give false positives, so `Insert` of a fresh key sometimes returns false. The mixes are a fixed arithmetic table spread over 0..60, so the modulo by 8, 16 and 32 bits differs.

* `sequential`, count-min sketch: a 2x2 uint8 sketch (4 bytes of budget) with three keys: k1 and k3 share both columns and k2 shares one, so collisions happen in every row. The increments are 1, -1 and 300, so decrements of absent keys and saturation both occur, within `MaxCalls = 5` calls.
* `concurrent`, semaphore queue: two producers and two consumers, `Capacity() = 3` with 2 usable inner slots (the SPSC case), and 3 items per producer. The two semaphore tokens both run out, and two threads of a kind race.
* `concurrent`, Folly: size 3 (two usable slots) and 8 items, so both indexes wrap more than twice.
* `concurrent`, Dr Dobb's: capacity 2 and 6 items, enough for the trim loop to delete several nodes and to race the consumer.
* `sequential`, LRU map: three keys, two values and capacities 0, 1, 2 and 4. Capacity 4 exceeds the key count, so it stands for the int64 max of the default constructor. Capacity 1 makes every new `Put` evict, and capacity 2 makes the order of two kept keys matter.
* `sequential`, conversions, covers each overflow edge at 8 bits: 127, 128, -128 and -129 in bases 8, 10 and 16, and both INT_MIN cases (octal `-200`, hex `-80`). The int32 strings are a value one below, at and one above the cutoff, followed by a digit around the remainder; they carry a sign, leading spaces or a leading zero (which takes the overflow loop). The writers get every threshold of `FastUInt32ToBufferLeft` (9, 10, 99, 100, ... 1000000000 and 2147483647) of both signs. `MathUtil` gets every sign combination of numerator and divisor, exact and inexact, and the int32 extremes. INT_MIN is left out, because its negation overflows. `mkgmtime` gets dates from December 1969 to 2037 around the leap years 1972 and 2000, with months -1, 12, 13 and 24. 2037 is the last year whose seconds fit TLC's integers.
* `sequential`, strings: every string of up to three bytes over NUL, space, `a` and 0xFF (leading, trailing and inner spaces, spaces only, the empty string, an embedded NUL, a byte above 127), affixes of up to two bytes, pieces of up to three bytes over NUL, `a` and 0xFF (odd and even sizes that differ in the last or only in an inner byte), joins of up to three parts with delimiters of 0 to 2 bytes, and up to two key/value pairs.
* `sequential`, MD5: the seven test messages of RFC 1321 A.5 (0 to 80 bytes, the empty one included) and one of 130 bytes, fed in chunks of 1, 64 and 128 bytes. The 62-byte message needs a second padding block, and the 80-byte one has a chunk that crosses a block boundary. A bit count above 2^32 would need 512 MiB.
* `sequential`, file streams: a 2-byte buffer, so a 3-byte `Read` needs two refills and a line spans refills. The files are `efg`, `e\r\nh`, `\nf\nhi` and `ef\r`: a CR LF pair split across refills, empty lines, a line without its `\n`, and a bare CR at the end. `Read` takes 1 or 3 bytes and `ReadGeneric` 2 bytes. One `read(2)` fails, at any of the first three calls of an action, within four calls. The output stream gets `Write`s of 1 and 3 bytes (one fits, one does not), and fault patterns of a short write, a failure, or both, within three calls and one failure.
* `concurrent`, `PeriodicClosure`, uses period 2, waits of 1 or 2, up to three `AdvanceTime` calls of 1 or 2, and `MaxSpurious = 1`: one spurious return is enough to re-register a wake-up time or outlive the last notify. An advance can land between registering and waiting, after the wait, or not at all before `Destroy`.
* `concurrent`, HTTP server: two connections. The first sends a POST of two body bytes, split across two reads and kept alive, then a GET/1.0; the second sends one of a POST with no body, a header that does not parse, or a version-0.0 request, then closes. `MaxTries = 2` stands for the 100 read attempts of a request line (`kMaxTries`), enough for one timeout and a retry. The pass run resets no connection; `http_reset` lets the second peer reset instead of close.
* `exporter_partial_object` uses two instances of one stat class (both export "hits", only one resettable) and one config, with inputs that fail to parse, pass or fail validation. Two steps reach the violation; the duplicate name also reaches `Add`'s CHECK.
* `membership` uses three servers for two positions (one becomes a backup), a one-component path, one retry per call, one failed call and one crash. These are enough for a stale node, its deletion, expiry racing a competitor, a failed `GetNode` in `RefreshAddressMap`, and a restart after a failed `Init`. The violation run needs only a crash and no failed call.

**Mutants.** Each checked property is broken by a plausible bug. The mutants are listed in `PROJECT.json`:
* the victim branch of `Delete` decrementing `num_elements_`;
* the bit trick without `& ~x`;
* the kick loop not carrying the evicted tag;
* for the expandable filter: `Clear` keeping `num_inserts_`, `Contains` skipping the first instance, growth tested with `>` instead of `==`, and the key inserted into the stale `last` after growth;
* for the sketch: max of T off by one, `GetCount` using the wrong row seed, `Clear` keeping `sum_counts_`, `AddCount` returning the unclamped minimum;
* for `PeriodicClosure`: the wait not scaled to microseconds, and the destructor notifying only once;
* for `MembershipManager`: the retry test `< 0`, a node with my own address adopted instead of deleted, and `++pos` left out;
* for `LruMap`: `EvictOldest` reporting the key instead of the value, `Erase` leaving the key in `map_`, eviction tested with `>` instead of `==`, and `Put` of an existing key without the splice to the front;
* for `Strings`: `StringPiece ==` without the last-byte test;
* for `Md5`: `Finalize` padding to a block without the wrap to a second one;
* for the file streams: `RefillBuffer` dropping the unread bytes instead of moving them, and `Flush`'s loop writing the whole buffer again after a short write;
* for `Numbers`: `two_ASCII_digits` without the `% 10`, the overflow loop without the "cutoff + 1 and digit 0" INT_MIN case, `u > 10` for `u >= 10` in `FastUInt32ToBufferLeft`, the hex loop shifting by a byte, and a base-10 cutoff one too large; `FloorOfRatio` adjusting only a negative quotient; `mkgmtime` counting the leap day from March;
* for `HttpServer`: `Accept` ignoring its timeout, `Read` taking a FIN for data, and the body test off by one;
* for the queues: `RingBuffer` without the wrap or taking from the back, `empty_` starting at `Capacity()`, `Get` not posting `empty_`, Folly storing an index before the record access or wrapping late or testing emptiness off by one, Dr Dobb's testing capacity with `>`, trimming up to `last`, jumping `divider` to `last`, and testing emptiness off by one.

**Fairness.** The filters and the sketch are passive objects, so nothing in them has to happen eventually and no fairness is assumed. The queue models assume weak fairness of each thread's steps, which is what the OS scheduler provides to a runnable thread. A producer or consumer that spins in `BlockingQueueBySpinLock` is always runnable. One asleep in `sem_wait` becomes runnable when the semaphore is posted: the token step is enabled while the count is positive, and nothing else can take the token forever because of the other threads' fairness. The semaphore model ends in `Finished`, a terminal stutter in which all items are put and the consumers sleep on an empty queue, so deadlock checking stays on.

`LruMap`, the conversions, `Strings`, `Md5` and the file streams assume no
fairness: each is a passive object or a call that returns once. A failed
CHECK aborts the process, and a conversion's result, an MD5 digest, a
stream's last call or its destructor is final; `MC_Sequential` models each of
these as a repeating final state, so the `sequential` run keeps deadlock
checking on. The separate `mkgmtime_before_1970` and `trim_all_spaces` runs
turn it off, since a single call ends.

`HttpServer` assumes weak fairness of the listen thread, of the `Stop()`
caller's `join`, and of each connection thread: each is a runnable OS thread
(a blocked `Accept` or `Read` returns at its timeout). The peers are the
network's clients, so no fairness is assumed of them: a client may never send.

`PeriodicClosure` assumes weak fairness of the Run thread and of the main
thread. The destructor's loop keeps notifying, so nothing stronger is needed. A
spurious return from the wait is allowed but never required, so it carries no
fairness.
`MembershipManager` assumes weak fairness of:
* each server's steps;
* a restart of an exited server (a supervisor restarts it);
* `Expire` of each dead session's node (ZooKeeper's session timeout).

Failures and crashes are bounded, so eventually they stop.

## Known defects without a run of their own

* `num_elements_` of the cuckoo filter does not count a pending victim.
  `AddInternal` increments it only when a tag lands in the table, while
  `NumElements()` ("Number of inserted items so far", `cuckoo_filter.h:141`),
  the member's comment ("Number of items stored", line 222) and spec.md 4.5
  (the victim is still stored) count it. The model keeps the code's
  bookkeeping; no property states either reading.
* `FileOutputStream::Flush` keeps the bytes an earlier `write(2)` of a failed
  loop wrote, so a later flush writes them twice (`file_output_stream.cc:83`).
* `FileInputStream::Read` returns -1 after consuming bytes when a refill fails
  (`file_input_stream.cc:122`), and the bytes are lost.
* `FileInputStream::ReadGeneric` called again after it returned false on a
  short tail aborts in `RefillBuffer`'s `CHECK_LE` (`file_input_stream.cc:80`)
  with no `read(2)` failing: the `sequential` model reaches it with three
  `ReadGeneric<2>` on a 3-byte file and a 2-byte buffer.

The `sequential` run reaches each of these; its properties are stated for
the histories the code's comments promise something about.

## Plan

Done:
* the cuckoo filter, the Bloom filters and the count-min sketch;
* the queues;
* `PeriodicClosure` with `SimulatedClock`;
* `MembershipManager` over its ZooKeeper environment;
* `LruMap` refining `LruCache`;
* the integer conversions of `numbers.cc`;
* `GlobalExporter` with the lifecycle of its exportees;
* the integral functions of `MathUtil` and `mkgmtime`;
* `HttpServer` over its sockets, with client peers that split, close or reset;
* `split.h`, `join.h` and the `StringPiece` comparisons;
* `MD5`;
* the file input and output streams, with failing and short system calls.

These come next:
1. A passing run of `GlobalExporter` for objects built before any request, with a property that `Add`'s CHECK fails exactly on a second live exportee of the same name, where the header says a duplicate overwrites.
2. `File::Open` and the factories of the file streams, and `close(2)` failing in `Close`.

## Not modelled

* HTTP routing (`http_message.cc`, the handlers) and the `Cord` buffer are not in the repository's sources (`cord.h` is absent); the model abstracts a message to its method, length, version and close flag.
* Of the file streams: `File::Open`, `Size`, `LastErrorMsg` and the factories, pipes, a failing `close(2)`, and `alt/file.cc` (the stdio and protobuf wrappers).
* `SplitStringAndParse`, `JoinStringsInArray` and the float and printf-based conversions. The `safe_strto*` overloads that call libc `strtol` are libc.
* What `StartsWith`/`EndsWith` should return for an affix holding a NUL: the model computes `strncmp`, which stops at the NUL, but the header does not say whether a `std::string` with an embedded NUL is meant to match, so no property states it.
* `MD5::AsHexDigest` and `AsRawByteArray` only format the digest; MD5's 64-bit bit count past 2^32 needs 512 MiB of input.
* `FastUInt64ToBufferLeft`, the int64 cutoffs and max lengths, and `FastInt32ToBufferLeft(INT_MIN)` need integers beyond TLC's signed 32 bits.
* The floating-point members of `math_util.h` (`WithinMargin`, `WithinFraction`, `NearBy*`, `AlmostEquals`) need reals. `LeastCommonMultiple`'s wrap modulo 2^32 and `CeilOfRatio(INT_MIN, -1)` need integers beyond TLC's.
* `ThreadPool` is only declared in the repository.
* 32-bit cuckoo tags do not fit TLC's signed 32-bit integers.
* Logging (the `log_regulator_` warnings) changes no state that any operation reads back.
