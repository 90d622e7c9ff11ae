# HCMonitor in TLA+

HCMonitor watches the mirrored traffic of a network service. It receives
packets with DPDK, pairs requests with responses, and prints the distribution of
the response times every interval. It is a pipeline of threads ("lcores"), each
spinning on a core of its own, that share rings, queues, tables and counters
**without a single lock**. The program comes with no tests. These modules say
what the pipeline promises, where it keeps the promise, and where it does not.

Paths below are relative to `src/HCMonitor/` unless they start with `src/`.

## 1. The system

```
 NIC queue r --RX lcore r--> SSD_Ring[r] --process lcore--> PrQue[r] --MONITOR lcore--> hash, Maxseq,
 (mempool r)                 (packet ring)  packet_process  (metadata)                   ack_time, counters
                                                                                             |
          TSTAMP lcore: ts   TIMER lcore: burst.txt (MCC mode)                     CDF lcore: cdf.txt
```

| Component | State | Operations | Talks to |
|---|---|---|---|
| RX lcores (`main.c:695-744`) | `SSD_Ring[r]` (`occupy`, `deque`, slots), `queue_states`, `pkt_free` | poll the NIC, drop short packets, copy the mbuf header into a slot, stamp it, publish, free the mbuf | process lcores through the ring; the NIC through the mempool |
| Process lcores (`main.c:511-555`) | their share `pos .. end-1` of the rings | parse a packet, `packet_process`, advance `deque` | RX lcores, MONITOR lcore |
| Metadata queues (`rx_queue.c:41-54`, `monitor.c:808-918`) | `PrQue[r]` (`occupy`, `deque`, array), the global `max_size` | `key_extract` or `burst_count`, growth by `realloc` | process lcores write, the MONITOR lcore reads |
| Response time (`monitor.c:505-711`) | request hash, `Maxseq`, `req_out_if`, `req_hy_count`, `ack_time`, counters | `response_time_process` on a request or a response | reads the queues, feeds the CDF lcore |
| Interval report (`monitor.c:211-503`) | `ack_time_hy`, `idx`, `ack_pri_*` | `lcore_online`: sleep, copy, `cdf_acktime`, `clear` | shares all of the above with the MONITOR lcore |
| TSTAMP and TIMER lcores (`main.c:600-690`) | `ts`; `burst[]`, `request_num` | read the clock into `ts`; print statistics; print and reset the MCC counters | RX lcores read `ts`, process lcores count |
| Start-up (`main.c:950-1187`, `config.c`) | `conf`, lcore numbers, port lists, mempools | read `setting.cfg`, configure ports, allocate queues and the hash, launch | everybody |
| Capture tools (`src/pcap_analyse/`) | files | `split_pcap_bytime`, `burst_width` | files written by the first are read by the second |
| Parsers (`monitor.c:781-917`, `http_parse.c`) | fields of the slot an earlier packet left | by label, as HTTP, as HTTPS (builds with `USE_HTTP 1`), MCC | process lcores call them, the MONITOR lcore reads the slot |
| MySQL (`send_sql.c`, builds with `OP_MYSQL`) | tables of a database, never read back | queries; `insert_mysql_hy` also calls `clear()` | called by `cdf_acktime` row by row |
| Packet trace (`ssd_trace.c`) | | builds with `PMD_MODE`, which do not compile | |

### What is hard here, and what correct means

* *Two threads, one ring.* The only synchronisation is the order of the stores:
  slot first, `occupy` last. Correct: a slot is never written while it is read,
  packets come out in order, each once, and none that was taken is lost.
* *A ring at its limit.* The RX lcore must drop and go on, not wait; every mbuf
  must go back to its pool or reception stops.
* *A queue that grows under its reader.* `packet_process` never refuses an entry;
  it enlarges a modulus that all queues share.
* *Traffic as it comes.* Retransmissions, packets captured twice, lost, or out of
  order between queues; sequence numbers that wrap; connections that start again.
  Correct: a latency is the time between the first capture of a request and its own
  response, once per request.
* *A report made while it is written to.* The CDF lcore copies, resets and clears
  what the MONITOR lcore is updating, in arrays that the MONITOR lcore makes larger. Correct: every sample is
  reported once, with the right request, and the arrays are large enough (they are one sample short at times: section 5).
* *Slots used again under settings that do not fit the build.* A parser writes the fields it
  has; size and layout of the hash key are decided in different places. Correct: in every mode
  what it is meant to measure is measured, and leftovers spoil none of it (of what else is measured, see section 5).
* *Liveness.* A ring, queue or sample must not be passed over for ever.

`PROJECT.json` lists each hazard at its line with the properties that watch it.

## 2. The modules

| Module | Models | Extends / instantiates |
|---|---|---|
| `PacketFifo` | the abstract specification: bounded FIFOs of numbered packets | |
| `SsdRing` | NIC, mempools, RX lcores, `SSD_Ring`, process lcores | extends `Lcores`, refines `PacketFifo` |
| `Lcores` | the numbering of the lcores, the loop each enters, the rings each process lcore serves | |
| `PrQueue` | `packet_process`, the metadata queues and their growth, the MONITOR lcore's round | extends `Lcores`, refines `PacketFifo` while sound |
| `ResponseTime` | clients, server, lossy capture, `response_time_process` whole | |
| `IntervalReport` | `response_time_process` and `lcore_online` load by load against each other | |
| `StartUp` | `main` until the lcores are launched: settings, options, ports, hash key, links | instantiates `Lcores` |
| `Parsing` | all parsers, slots used again, and their measurement, after `StartUp` | extends `StartUp`, instantiates `ResponseTime` |
| `CdfReport` | what a report says: split by priority, percentiles, histogram | |
| `Statistics` | TSTAMP's clock and requests per second, the MCC mode's `burst_count` and TIMER | |
| `SplitPcap`, `BurstWidth` | the capture tools; the second runs on the first one's files | `BurstWidth` extends `SplitPcap` |
| `MC...` | the instances for TLC; `MCOutput` puts `Statistics`, `CdfReport` and the capture tools side by side, which have no state in common: each behaviour is one of the three (`program`) | |
| `DataLemmas` | lemmas: arrays used in a circle as sequences, rising sequences, functions defined by recursion, `\div` and `%` | |
| `SsdRingProofs` | theorems about the packet rings, refinement included, and about the division of labour of `Lcores` | `SsdRing`, `DataLemmas` |
| `PrQueueProofs` | theorems about the metadata queues, refinement included | `PrQueue`, `DataLemmas` |
| `ResponseTimeProofs` | theorems about `response_time_process` | `ResponseTime`, `DataLemmas` |
| `IntervalReportProofs` | theorems about the two lcores around the samples | `IntervalReport` |
| `StatisticsProofs` | theorems about stamps, rates and the MCC counters | `Statistics`, `DataLemmas` |
| `ParsingProofs` | theorems about start-up and about what the modes measure | `Parsing` (and so `StartUp`), `DataLemmas` |
| `OutputProofs` | theorems about the numbers of a report and about the capture tools | `CdfReport`, `BurstWidth`, `DataLemmas` |

How the modules fit: `SsdRing` ends where a packet is parsed, `PrQueue` starts
there, its `offered` counter standing for the FIFO `SsdRing` was shown to be. Its
output, again a FIFO per queue with losses, is `net` in `ResponseTime`, which adds
what the packets mean and treats `response_time_process` as one step.
`IntervalReport` takes that step apart, because the CDF lcore sees its inside, and in
return makes the traffic simple. `CdfReport` treats the report as one step again and looks
at its numbers. `Statistics` stands beside the pipeline: its stamps are the times that
`ResponseTime` takes for exact. `Parsing` composes three: the configuration that `StartUp` reaches
decides how its packets are parsed, and `OnRequest` and `OnResponse` of `ResponseTime` measure
the slots, with the hash keys that configuration gives them.

### State and actions against the code

* **`SsdRing`** keeps the code's names. One action is one access to shared memory:
  `Launch`, `Alloc` (`main.c:695-702`), `RxBurst` (711-727), `Examine` (the length
  and the full test, 728-729), `Store` (730-733), `Publish` (735), `Free` (740-742);
  `Skip`, `Take` (520), `Parse` (521-548), `Dequeue` (550). The program is built
  with `-O0` for x86 (`Makefile:59`), so stores are seen in program order. A slot
  holds the mbuf its header was copied from and the number of the packet it was
  taken for; the bytes stay in the mbuf (`data`), as in the code, and are
  overwritten when the NIC reuses it. One mempool per NIC queue, as in
  `main.c:974-983`.
* **`PrQueue`** splits `max_size = REBUFF + max_size` into its load and its store,
  and the `realloc` into a step of its own. An access outside an array is
  undefined in C: the model lets a write vanish and a read return anything that was
  ever there, and notes it in the ghost `damage` (`outside`; `dangling` for a pointer from before a
  `realloc`; `moved` for entries that a new modulus renumbers).
* **`ResponseTime`** keeps every counter of `response_time_process`. The hash is
  modelled by its contract: a position per key, none free means `-ENOSPC`. Sequence
  numbers are words modulo `SeqMod`. `req` and `seen` are ghosts: which
  request a packet belongs to and when it was first captured.
* **`IntervalReport`** makes each load and store of a shared variable a step, `x++`
  two; a `memcpy`, or a loop over one array, is one step, and so is the part of `cdf_acktime` that sizes the
  priority arrays and prints (it loads the priority counters several times, and they change meanwhile only
  if a sample is recorded beside it, which `overlap` notes). `GrowTest`, `GrowThre` and four `Realloc` are
  `monitor.c:628-635`: the test comes before a sample is stored and is `idx_hy > thre`, so the arrays grow
  one sample late; two of the four are those the CDF lcore copies to. `size` keeps the elements of each. `crossed` and
  `overlap` are ghosts that name the windows in which the two lcores disturb each
  other, so that the properties can claim everything outside them; `outside` notes an access beyond an array's end, or to
  an array that is moved meanwhile, which is undefined in C: from then on any number of a copy's elements may be missing.
* **`CdfReport`**: `cdf_acktime` is one step, run between samples. `Rank` is
  `ceil(u[i] * n)` with `u[i]` a float, and so is the product: it lies between `AtLeast` and `AtMost`, a part in
  `Precision` (2^23) of `n` to either side of the exact one, and may be anywhere in between. So the rank can be one too
  large (60 % of 25: `0.6f` is above 0.6) or one too small (99.99 % of 9994 to 9999: `0.9999f` is below 0.9999);
  0, 0.5 and 1 are floats and their ranks exact. `qsort` is given by what it returns: the k-th element is the least
  that `compInc` puts k or more elements not after. `sketch_delay` keeps its single pass over the
  sorted array. The variables that hold the printed rows are empty after other steps. `OP_MYSQL`, a build option, is chosen at
  the start: such a build sends each row to the database before it reads the next, and `clear()` wipes the
  arrays at the row of 99 % (`Wiped`).
* **`Statistics`**: each load and store of a shared variable is a step, except that
  the lone writer of `pkt_req` increments it in one. `enable_mcc` is chosen at the
  start; the part of the program the mode makes no use of stands still. `crossed` is a
  ghost: the counters to which a value was stored that no longer followed from what they held.
* **`StartUp`**: `main` is alone until it launches the lcores, so each phase of it is one step, with an
  exit for the calls that may fail: `getConfig`, `l2fwd_parse_args`, `CountPorts`, `InitPorts`
  (`AddPort` for each enabled port in turn, `PortList`), `Allocate`. Waiting for the links is modelled port by port
  (`Look`) and round by round (`NextRound`, `Launch`), because links change meanwhile (`Links`).
* **`Parsing`**: `packet_process` calls one of four parsers, each a function from the slot as the last packet
  left it to the slot as it is queued. What a payload begins with is a member of a small set; `Key` is
  the tuple of fields that lie in the bytes the hash is told to take. Whether the build has the HTTP
  parsers is chosen at the start, as every setting is, also the file that cannot be read.
* **`SplitPcap`, `BurstWidth`** keep the arithmetic (seconds and microseconds,
  division that truncates, the index that starts at 1) and drop the file format. The
  element of `ts` that is read without ever being written is any time stamp. `burst_width.c:298` reads through
  `pkt_header_last`, which is never set: `ReadUnset` is the crash, at the first packet or not at all, since the pointer
  does not change. `ToolsInit` and `ToolsNext` of
  `BurstWidth` run both tools, one after the other.

Each mutated operator (marked "mutant" in its comment) is a plausible slip in the
operator that follows it; it is there to show that the properties notice.

## 3. What the runs show

| Run | Question | Result |
|---|---|---|
| `ring` | 2 rings of 2 slots that fill and wrap, 2 mbufs per queue, one process lcore that may stop: is the lock-free ring sound, start-up included, and does anything get stuck? | holds: `RingInv`, `SpscExclusion`, `MbufsConserved`, refinement of `PacketFifo`; mbufs return even if the process lcore stops; each packet that got a slot is parsed if it runs. With one process lcore the run says nothing of two that share a ring; the theorem `RingExclusion` does |
| `ring_stale` | is the packet that is parsed the packet that was received? | **no**: the mbuf is freed and refilled before it is parsed |
| `queue` | 2 queues, 2 process lcores, one growth each | holds: sound before the first growth, FIFO unless one of the three accidents happened, all entries measured |
| `queue_loss` | does a growth keep the entries? | **no**: after a wrap-around the new modulus skips some |
| `rt_closed_loop` | 2 closed-loop clients, a repeated and a lost packet, a buffer of one sample | holds: accurate, one sample per request, no false retransmission, no false miss, buffers overrun by one at most (`TypeOK`) |
| `rt_adverse` | out-of-order queues, wrapping numbers, a full hash, new connections | holds: counters agree, samples of first connections accurate |
| `report` | MONITOR and CDF lcore interleaved over several intervals, with arrays of one or two samples that grow | holds: samples pair their own request; outside the named windows each is reported once; the sample arrays are short by one sample at most, the priority arrays suffice unless a sample is recorded beside the report (`ReportInBounds`); what no window or access outside an array took is reported in the end |
| `report_idle` | are connections counted even when the lcores never overlap? | **no**: an interval without samples leaves the flags set |
| `output` | three programs side by side: a clock of 5 ticks over two full seconds, 3 requests and a wrapping counter, 2 process lcores, 3 clients, 2 rows and TIMER; all intervals of up to 4 samples of 3 latencies and 2 priorities, one after the other; all captures of up to 3 packets from 4 hosts of 3 networks over two seconds | holds: stamps off by less than a second, exact within one, no request shown twice, uncrossed counters add up; rows (up to 99 % if built with `OP_MYSQL`) are quantiles of their column's samples, up to the precision of floats, the histogram counts this interval's; no packet of a capture is lost, files end at the code's limit across full seconds, each group has the stamps of its network in order, a width is found except of a lone packet or when the networks fill the array |
| `split_limit` | does a file of `split_pcap_bytime` span the 600 ms, or the second, that its comments and README say? | **no**: 700 ms, neither of them |
| `width` | is a width of `burst_width` the length of the burst? | **no**: it ends at the last packet but one |
| `modes` | every setting, port mask, failure and link at start-up; then 2 exchanges of 2 clients, requests and responses of one or two segments, by label, HTTP, HTTPS and MCC | holds: the RX lcores poll a port that runs; links are waited for and printed as said; each mode measures the answers `AnswersMeasured` claims, and whatever packets went through the slots, the samples `SamplesAsConfigured` claims are right: labelled ones, GETs and HTTPS. HTTP samples not of a GET, which the program makes of second segments and errors, builds whose key does not tell clients apart, and answers of a later second are claimed by neither (section 5) |

The findings, with the lines they contradict, are in `PROJECT.json`.

### Bounds, and why they are enough

* Rings have 2 slots, so that full, empty and wrapped around are all a step apart; more
  slots add only repetitions of the same states, and `SsdRingProofs` removes the
  bound. `NB_MBUF`, `MaxBurst` 2: a burst with a packet left over, and a mempool that
  runs dry. `MaxPkts` 2 per ring: every slot is used. One process lcore has both rings, which
  is where one could starve; that two process lcores never share a ring is proved.
* Queues start with 2 elements (3 for the loss) and grow once each, so that one
  queue's growth meets the other's indices. `MaxGrowth` bounds `realloc`.
* `MaxReqs` 2 requests per flow is the least that has a "last request", which is all the
  code remembers; `MaxTime` 3 orders a request, its copy and a response; one copy,
  one loss, one reconnection are each enough to break every mutant.
  `SeqMod` 8 with a first number of 5 wraps at the second request; 64 never wraps.
* `IntervalReport` uses one flow with two requests and a copy, and any number of
  intervals: each lcore can be anywhere in its loop while the other takes any step. `CAT_BUFF`, 80000000 in the code, is 1
  or 2: with 1 the second sample is one too many and the response after it, a copy too, enlarges the arrays; with 2 they are
  long enough for nearly all that can happen, as usual.
* `CdfReport` has rows of 2 latencies, two of them, and a latency beyond the last; 4
  samples put the percentiles on every one of them. `Precision` 24 stands for 2^23: at 3 samples the
  float product can pass a whole number upwards (30 %) and downwards (70 %), as it does at 25 and at 9994 samples in the code. The number of
  intervals is not bounded.
* `Statistics` has seconds of 2 ns, so that a full second is always near; `Word` 3 wraps
  at the third request, which is also the least with two lcores in `burst_count` after a reset.
* `modes` has 2 ports and 2 looks at the links (the 90 of the code are a count), queues of 3 slots, which
  8 packets go round more than twice, and seconds of 2 ticks, so that a response can come in the second
  of its request or in the next. Traffic flows only in the deployment of the README (one port, one RX
  lcore, link up), under those settings the build looks at: the others change nothing the parsers see.
  The priority labels of the exchanges alternate.
* The capture tools use seconds of 3 ms of 2 µs and a limit of 2 ms, which keeps the
  ratio's one property that matters (limit below a second, truncation visible). Three packets of three networks
  fill the array of `MaxGroups` 3. `split_limit` and `width` have seconds of 4 ms, with room for 1 ms (the comment), 2 ms
  (the code) and 3 ms (just below a second), as 600, 700 and 1000 are three limits.
  The clients of `Statistics` are symmetric: it treats them all alike.

### Fairness

Each lcore is pinned to its own core and never blocks, so weak fairness of each one's
whole loop is what the deployment gives. `RxFairness` is assumed in
`ring`, and the process lcores' fairness only as the hypothesis of the
property that needs it. `queue` needs only the MONITOR lcore's, `report` only the CDF
lcore's: it sleeps and works for ever. The environment (traffic, NIC) is never fair.

`CHECK_DEADLOCK FALSE` is set where a bounded environment runs out of packets
(`rt_*`) or the program ends (`modes`, whose start-up can fail, `split_limit` and `width`). In the other runs the lcores spin for ever
and TLC checks that some step is always possible; in `output` a tool that is done stays so (`Stopped`).

## 4. What is proved

`SsdRingProofs` proves, for all numbers of rings, process lcores, slots,
mbufs and packets (`LcoreAssumption`; `RingAssumption`: naturals, at least one slot and
one element of a burst; `MbufAssumption`: the zeroed header is not an mbuf):

* `RingInvariant`: `Spec => []RingInv`, the inductive invariant;
* `RingTypes`: `Spec => []TypeOK`, all indices stay inside their rings;
* `RingExclusion`: `Spec => []SpscExclusion`, the lock-free protocol is safe;
* `NoMbufLeaks`: `Spec => []MbufsConserved`, no mbuf is lost or in two places;
* `RingImplementsFifo`: `Spec => RingIsFifo`, the refinement: every step is a step of
  `PacketFifo` or leaves its variables alone;
* `OneRole`: the role tests of `l2fwd_main_loop` stand one after the other and none excludes
  the others; still each lcore passes exactly one (the loops never end, so a second one would
  never be played);
* `EveryRingServed`: if the process lcores divide the rings evenly, as `setting.cfg` asks,
  each ring is served. `ServedOnce` shows that it is served by one only, evenly divided or not.

`SpscExclusion` is not inductive. It speaks of a slot being written *now*; that the
slot is free was decided earlier, at the full test, from a `deque` that has
moved since. `RingInv` adds what carries the decision over: between the test and the
publication there is room (`HasRoom`), because only RX lcore r moves `occupy`
and the process lcore's moves only add room; a process lcore that found a
packet still has it, because only it moves `deque`; no other process lcore visits
the ring, because the shares `pos .. end - 1` are disjoint (`ServedOnce`, an
argument about integer division that also covers numbers that do not divide); and every
unread slot has been filled (`Unread`), so that parsing never meets the
zeroed header. The step proof (`TypeStep`, `RxInvStep`, `ReadingStep`) has one case per
action.

`MbufsConserved` counts places; `MbufInv` says where they are. The mbufs that RX lcore r
will free stand in a line, its burst followed by the NIC's queue (`Path`), their packets rising
(`PathInv`), so that no mbuf stands twice; what is not in a pool stands in its own lcore's
line (`NoneLost`). The refinement adds `OrderInv`: what waits in a ring rises and is above what was parsed,
and what still stands on the line is above both, except for the mbuf freed right after its publication.
An array used in a circle is a sequence for these proofs only; `DataLemmas`
says what appending, taking and storing do to it (`RingSeqAppend`, `RingSeqTail`, `RingSeqStore`, and
`RingSeqGrow` for an array that becomes larger).

`PrQueueProofs` proves, for all numbers of queues, lcores, elements and growths (`LcoreAssumption`;
`QueueAssumption`: `QUESIZE` and `REBUFF` at least 1):

* `QueueTypes`: `Spec => []TypeOK`. That `max_size` stays within its type is not obvious, since each lcore adds
  `REBUFF` to a value it loaded earlier: `GrowthInv` bounds the shared modulus, and
  every loaded copy of it, by the number of growths that were begun (`Grown`);
* `NothingBreaksUngrown`: `Spec => []SoundUntilGrowth`. `UngrownInv` adds that as long as the modulus is the
  first one, all arrays have that size and nobody is between the store of a larger modulus and its `realloc`;
* `QueuesImplementFifo`: `Spec => FifoWhileSound`. Until `damage` notes one of the three accidents, every step, a
  growth's included, is a step of a FIFO or none (`SoundInv`). Its heart is that a growth without a wrap-around moves no
  entry, and that an lcore that found the queue full still finds room after the modulus has grown (`RoomGrows`, `RoomBeyond`).

`ResponseTimeProofs` proves, for all numbers of clients, requests, copies, losses and reconnections
(`ResponseAssumption`: finitely many clients, a payload of 1 to `SeqMod - 1`, at least one tick, positive sizes):

* `ResponseTypes`: `Spec => []TypeOK`, in it that `ack_time` is never written more than one sample
  beyond its size; `SlotInv` adds that no two keys share a position;
* `CountersStayConsistent`: `Spec => []CountersAgree`, for every traffic the model has: a full hash, wrapping numbers,
  overtaking directions;
* `RequestsSampledOnce`: `Spec => []OneSamplePerRequest`. A position never answers an acknowledgement it has
  answered, because `rsp_sent_seq` only rises and stays at or above that of each of its samples (`AckInv`);
* `SamplesAreAccurate`: `Spec => [](OnePass => SamplesAccurate)`;
* `NoResponseMissed`: `Spec => [](Calm => NothingMissed)`;
* `OnlyCopiesCounted`: `Spec => [](Calm => NoFalseRetrans)`.

`OnePass` is what the code needs and does not check: the requests of a connection cover less than the sequence space, and
none of them has number 0, which is also the start value of the table, so that such a request is taken for a copy. Without it a late
response can lie in the window of a request that came a whole turn later. Both runs of `ResponseTime` satisfy it.
The invariant (`TimingInv`) ties a position to the client's history: it stands at the request with the highest number
seen and has the time of its first copy (`StandInv`), and a response still waiting was captured no later than any
later request of its client (`LateInv`): that, and `Latency > 0`, is why a response that is overtaken by
the next request gives no sample rather than a wrong one.

`Calm` is stronger: clients that wait for each response, on their first connection, numbers that do not wrap (`NoWrap`), and a
hash with room for every client. It is the traffic for which the two counters mean something
(section 5 has what happens outside), and `rt_closed_loop` satisfies it. `LineInv` says that the packets of a flow wait in the order of
its requests and behind what was seen of it; for `NothingMissed`, `LossInv` adds that a request that
is not lost was seen, or waits in front of its response. `NoFalseRetrans` is not inductive, as it says nothing about packets still
waiting: `RetransInv` bounds the counters *plus the copies that wait* (`Copies`) by what was sent again. A step that counts a retransmission
takes a copy off a queue (`TakeCopies`); only a packet sent again joins as one (`SendCopies`). That a response which is not
new at its position was sampled before needs `RspInv`: `rsp_sent_seq` is 0 or the acknowledgement of a sample.

`IntervalReportProofs` proves, for all sizes and numbers of flows, requests and copies and any number of intervals
(`ReportAssumption`), over every interleaving of loads and stores:

* `ReportTypes`: `Spec => []TypeOK`. The indices are bounded by the responses captured so far (`RoomInv`), the
  retransmission counters by the copies (`RecountInv`), although `x++` is a load and a store and the CDF lcore resets them in between;
* `PairsOwnRequest`: `Spec => []SamplesPairOwnRequest`. `clear()` takes sequence numbers away in the middle of a packet, but
  a number that is there belongs to the time stamp beside it (`SeqInv`);
* `ReportStaysInBounds`: `Spec => []ReportInBounds`. That the sample arrays are short by one sample at most, whatever the
  CDF lcore does, needs `GrowInv`: between two growths all four have `thre` elements and the number of samples was tested against it
  before the last one came; within a growth each has its old or its new size. What a report copies fits but for one sample as long as
  nothing is recorded or grows beside it (`FitsInv`). For the priority arrays `BoundsInv` follows the number of high-priority
  samples from the buffer through the counters and the copies to the arrays, as long as the lcores did not overlap and no array was left;
* `SamplesReportedOnce`: `Spec => []ReportedOnce`. `PlaceInv` keeps account of where each sample is: in the live part of the
  buffer, in the copy, or reported, and in one of them; `FreshInv` says why no response is recorded a second time.

`StatisticsProofs` proves, for all lengths of a second, counter widths, and numbers of lcores, clients and rows
(`StatisticsAssumption`; no more clients than the burst hash has entries, see section 5; the specification is `StatSpec`):

* `StatisticsTypes`: `StatSpec => []StatTypes`;
* `StampsNearTheClock`: `StatSpec => []StampOffByLessThanASecond`. Each of a stamp's words belongs to a reading between two
  ghosts (`StampInv`), and mixing the words of two readings puts the value less than a second outside the time between them (`MixedStamp`);
* `RequestsShownOnce`: `StatSpec => []NoRequestShownTwice`. `RateInv`: the remembered counter is the true count of some
  moment modulo the counter's width, and nothing after that moment was shown;
* `NoCountLost`: `StatSpec => []CountsAddUp`, of counters no stale value was stored to and of clients that fit into the burst hash (the
  code does not see to that), row by row, by counting the pairs `<<client, n>>` of a row (`CountInv`).

`ParsingProofs` proves two theorems about start-up, for all numbers of ports, queues and looks, every setting,
mask and failure (`StartUpAssumption`: at least one of each):

* `LinksPrinted`: `Spec => []LinksPrintedOnce`. `check_all_ports_link_status` delays at most `MAX_CHECK_TIME` times
  and has printed each enabled port once when it returns. What makes it inductive (`WaitInv`) is that
  the delays never exceed the rounds, that a round which does not print still has one before it that will
  (`count < MAX_CHECK_TIME` while `print_flag` is 0, the reason for the `- 1` of `main.c:935`), and that the printing
  round has printed exactly the enabled ports below `portid`. Links may change at every step;
* `PolledPortRuns`: `Spec => []FirstPortServed`. Before the loop over the ports all lists are empty; after it
  each RX lcore's list is that of the least enabled port (`ServeInv`), by induction along the loop.

and three about what runs after it, for all queue sizes, numbers of exchanges, tick lengths and kinds of
payload, in every build and configuration (`ParsingAssumption`: no request begins like a response):

* `ParsingTypes`: `Spec => []TypeOK`, whichever parser writes whichever fields of whichever slot (`TypeInv`: what `StartUp`
  decided, and the types of slots, table and traffic). That a key has one position is not part of it;
* `ParsingAccuracy`: under `NoWrap`, `Spec => []SamplesAsConfigured`, which claims labelled samples, and of HTTP those of GETs, and
  HTTPS, where the key tells the clients apart. The invariant (`AccuracyInv`) follows an exchange
  through the pipeline: exchanges of a client come one after the other, in time and in their numbers (`ExchangeInv`); what
  waits in the queue tells of one of them, in the order it was captured (`LineInv`); each position of the table
  stands at a request of the client its key names, behind everything that waits (`TableInv`); so each sample is of its own
  exchange (`SampleInv`). `MccInv` says why nothing is measured in the MCC mode: nothing ever gives a slot a type;
* `ParsingComplete`: under `NoWrap`, `Spec => [](~Full => AnswersMeasured)`, for the two clients of the module, without copies or
  losses, and not for answers that come in a later second than a key that takes in the second. The invariant (`CompleteInv`) adds that an
  answered exchange the mode means to measure has its sample or its response still waits (`MeasuredInv`), and that until then the table
  stands at its request, or the request waits in front of the response (`ReachInv`).

`NoWrap` (the numbers of `MaxReqs` exchanges of at most 3 fit into the sequence space) and `~Full` (the hash has room) leave out what
`ResponseTime` is about, with its own theorems for wrapping numbers and full hashes; `modes` satisfies both.
The keys are handled by what they tell: `KeyEnd` reads the client back from each of the four layouts.

`OutputProofs` proves about the report, for all latencies, numbers of samples, array sizes and widths of rows (`CdfAssumption`):

* `ReportTypes`: `Spec => []TypeOK`, in it that the arrays which `cdf_acktime` resizes hold every sample of their label;
* `ReportQuantiles`: `Spec => []PercentilesAreQuantiles`;
* `ReportHistogram`: `Spec => []SketchCountsInterval`.

The invariant (`CdfInv`) ties what is recorded to the priority indices, and says that the histogram is
empty between reports. The work is in the lemmas about the algorithms, all in terms of one number, `Below(a, y)`, how many elements of `a` are
below `y`: the k-th element of the sorted array is the one that fewer than k are below and k or more are not above (`Order`);
the rank, which is the ceiling of one end or the other of the float product because the two ends are less than 1 apart
(`2 * MaxSamples < Precision`, so for fewer than 2^22 samples), picks a quantile up to that distance (`CeilFacts`, `RankFacts`, `RankIsQuantile`); the split by
priority keeps the number below every `y` (`SplitFacts`); and the single pass of `sketch_delay` stops at
`Below` of each row's end (`SketchFacts`).

It also proves about the capture tools, for every capture in time order, of any length and any sources, and every limit below a
second (`SplitAssumption`, `WidthAssumption`):

* `CaptureTypes`: `ToolsSpec => []ToolTypes`;
* `SplitLosesNothing`: `ToolsSpec => []SplitKeepsCapture`;
* `SplitAtLimit`: `ToolsSpec => []FilesAreBursts`;
* `NetworksGrouped`: `ToolsSpec => []GroupsByNetwork`;
* `WidthsOfBursts`: `ToolsSpec => []WidthOfSplitFile`, which measures against the burst itself: the width is no longer than that and
  misses no more than its last gap (which it does miss: the run `width`).

`ToolsInv` has two parts. `SplitInv` says that the next packet is measured from the first one of the last file, and that the
files are in time order. `WidthInv` says that `burst_width` reads a file of which all this holds (`Reading`), that its groups
are those of what it has read (`GroupsOf`), that it has crashed only before the first group (`CrashKept`), and that a width computed is that of its group. The arithmetic is in `Near` (`less_second` with its truncating
division tells the times within the limit from those beyond it, across a full second) and `WidthIs` (`compute_data` does
not take its "unexpected" branch for stamps that close).

What a function defined by recursion computes (the lists of the RX lcores, the split, the histogram, the flattened files) is proved in
all these without a rule that takes an operator as a parameter: a set of numbers that has 0 and with each number the next is all of
them (`Induction` of `DataLemmas`; `Recursion` for the functions themselves), and the set of those for which the function is right is one.

Only model-checked: liveness under fairness (`EveryMbufReturns`, `EveryPacketParsed`, `EveryEntryMeasured`,
`EverySampleReported`) and everything with `ENABLED`, which are out of the prover's reach. Of every other property the passing runs
check there is a theorem; those about `NothingMissed`, `NoFalseRetrans`, `SamplesAccurate`, `SamplesAsConfigured` and `AnswersMeasured`
have the conditions named above, which the runs satisfy that check these properties.

## 5. What is not modelled, and what the models showed besides

Not modelled: the printed text; averages and goodput; the port statistics; the pairing of ports and the
output rings, which nothing uses; the queries and tables of MySQL; the packet trace (`PMD_MODE`), which does
not compile (`SSD_NUM` is commented out, `main.c:1173` assigns a structure to a pointer); the sorting of packet gaps in `burst_width`, whose output is compiled out.
Memory that runs out (`malloc`, `realloc` returning null) is left out everywhere.

Seen while modelling, and not kept as runs:

* A client with two requests under way gets only the last one measured, and an answer
  to the first can be taken for it (`SamplesAccurate` claims `Window = 1`).
* A wrap of the sequence number counts new requests as retransmissions until the next `clear()`
  (`NoFalseRetrans` is claimed where numbers do not wrap).
* The sample arrays grow one sample late (`monitor.c:628` tests before the sample is stored, with `>`): with `thre` + 1 samples the last
  one is written behind `ack_time`, and the `memcpy` of `:489` overruns `ack_time_hy`, which nothing between the two lcores has
  to go wrong for. The growth also moves `ack_time_hy` while the CDF lcore may be at work on it, and if the index
  is reset between its two loads (`:628`, `:630`), `thre` becomes 0 and the next sample has no room. `ReportInBounds` bounds the
  first (one sample, never more), and `outside` excepts what the others may lose.
* A sample recorded between the copies of an interval's samples and `idx_hy = 0` is in no
  report (`ReportedOnce` excepts it as `crossed`).
* A full request hash is not noticed: `monitor.c:516` tests `ret`, which is 0 there, and not
  `ret_req`, whose error code then indexes the arrays (`rt_adverse` runs into it and shows that the
  counters still agree).
* The 60 % row of 25 samples is the 16th: `0.6f` is a little above 0.6. That is still a quantile. The 99.99 % row of
  9994 to 9999 samples is not: `0.9999f` is below 0.9999, and the rank one too small. `PercentilesAreQuantiles` claims
  quantiles up to a part in 2^23, of fewer than 2^22 samples. Beyond 2^24 samples the last rank can be too large.
* A stamp that mixes two readings across a full second is off by almost one, and so is the latency.
  While `print_stats` prints, the clock stands still.
* In the MCC mode a count can be lost or printed twice; a 129th client is written to
  `burst[-4]`; `burst_count` queues entries whose type it never sets (which measures nothing: `SamplesAsConfigured`).
* The loop over `u[]` in `cdf_acktime` looks for a zero the array does not have. `good_cnt` is never initialised.
* With `enableHTTP 1`, as `setting.cfg` says for HTTP traffic, but `USE_HTTP 0`, the build's default, packets are
  still parsed by label, and the hash key takes in the second of the time stamp (`monitor.c:720`): only a
  response of the same second finds its request. `AnswersMeasured` claims no more.
* With `USE_HTTP 1` and `enableHTTP 0` the key leaves out the client's address: clients on equal ports collide
  (`Keyed` excepts it).
* As HTTP, only GETs are measured (a response is always looked up as one), and only those of one segment; with
  `rspPri` responses take the priority of whatever was in their slot. Second segments and errors become requests
  or responses of status -1, and samples of their own.
* In a build with `OP_MYSQL` the rows of `cdf.txt` after 99 % are 0: `insert_mysql_hy` calls `clear()` at the row of
  99 %, and the arrays are read on (`send_sql.c:126`; `PercentilesAreQuantiles` excepts these rows).
* A `setting.cfg` that cannot be read is reported and then ignored (`main.c:957`). A port mask that cannot be
  parsed is -1, every port, and only 0 is tested (`main.c:840`). Of the core mask only the RX lcores are
  tested (`main.c:1067`): without a MONITOR lcore the program runs and measures nothing.
* `InitQueue` writes six queue pointers into an array of `rx_que`.
* `config.c:68` looks `PriOffset` up as `pri_high_rate`; `Hrate` of `setting.cfg` is never read.
* `miss_rep` also counts second copies of a response (`NothingMissed`).
* `clear()` forgets requests under way, whose responses are then misses.
* `split_pcap_bytime` frees `pkt_header` twice before it ends, after its files are closed.
* `burst_width.c:298` reads through a pointer never set, at every packet. `burst_width` exits when the tenth network is
  stored, although it fits, and of a network of one packet it reads memory never written. `WidthOfSplitFile` excepts both.

## 6. Plan

1. *Pipeline*: `SsdRing` and `PrQueue` composed through `PacketFifo`.
2. *Report*: averages, and the stamps of `Statistics` fed into `ResponseTime`.
3. *Proofs*: `ParsingAccuracy` without `NoWrap`, with the argument of `OnePass`.

## Running

`tlc -config <run>.cfg <MC module>` (`PROJECT.json` pairs them); `tlapm` on each of the `...Proofs.tla` and on `DataLemmas.tla`
(about twenty minutes in all; `ParsingProofs`, `ResponseTimeProofs` and `OutputProofs` take most of it).
