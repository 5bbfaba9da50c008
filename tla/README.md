# TLA+ models of the timing CPU and the cache

This directory holds a model-checking development for three files of the
simulator:

| source | what it is |
|---|---|
| `src/src/cpu/simple/timing.cc` | `TimingSimpleCPU`, a single-issue CPU that talks to memory through split-transaction ports |
| `src/src/mem/cache/cache_impl.hh` | `Cache<TagStore,Buffering,Coherence>`, the glue between a tag store, a miss queue and a coherence policy |
| `src/src/sim/system.hh` | `System`, the object that knows the memory mode and counts work items |

`PROJECT.json` is the machine-readable index: components, runs, the source
lines every definition models, mutants, findings and hazards.

## 1. Inventory

### 1.1 TimingSimpleCPU

*State.* `_status` (Idle, Running, IcacheRetry, IcacheWaitResponse,
DcacheRetry, DcacheWaitResponse, SwitchedOut), the SimObject state (Running,
Draining, Drained), `ifetch_pkt` and `dcache_pkt` (packets the CPU still
owns), `fetchEvent`, `drainEvent`, one `tickEvent` per port holding at most one
packet, the thread context (active or suspended, PC), the peers of the two
ports.

*Operations.*

| operation | called by | what it does |
|---|---|---|
| `fetch` | fetch event, `advanceInst` | allocates a packet, translates, sends; on rejection keeps the packet and waits for a retry; on a fault goes to `advanceInst` |
| `completeIfetch` | icache response | deletes the packet; completes a drain if one waits; otherwise executes: `read`, `write`, or no access and `advanceInst` |
| `read`, `write` | the executing instruction | allocate and send a data packet; `write` completes a store conditional that failed early without sending |
| `completeDataAccess` | dcache response | deletes the packet; on a drain advances the PC and completes the drain, else `advanceInst` |
| `advanceInst` | the three above | advances the PC and fetches, if the CPU is still Running |
| `recvTiming` (both ports) | memory system | completes at once on a clock edge, else parks the packet in the tick event |
| `recvRetry` (both ports) | memory system | sends the kept packet again |
| `activateContext`, `suspendContext` | thread context | Idle to Running with a fetch event; Running to Idle |
| `drain`, `resume`, `switchOut`, `takeOverFrom` | configuration driver | the drain protocol and the replacement of one CPU model by another |
| `serialize`, `unserialize` | checkpointing | write the SimObject state, the status and the thread of a drained CPU; restore them in a simulator started from the checkpoint |

*Hard behaviours.* Ownership of a packet moves at the instant `sendTiming`
returns true. A response or a retry is a callback that arrives after any
number of other events; each callback asserts the status it expects. A drain
may be requested in any status and completes only inside a completion
callback. `switchOut` and `takeOverFrom` rebind ports while events are
scheduled.

### 1.2 Cache

*State.* The tag store (status bits of each line), the miss queue (MSHRs with
their target lists, the order in which they are sent, a write buffer), the
causes for which the bus is requested, the responses scheduled to the CPU
side, the flags a snoop leaves on the snooped packet.

*Operations.*

| operation | called by | what it does |
|---|---|---|
| `doTimingAccess` | ports | dispatches to `access`, `handleResponse` or `snoop` |
| `access` | CPU side | fast write allocation, or `handleAccess`; queues writebacks; answers a hit; on a miss fails a store conditional at once or hands the packet to the miss queue |
| `getPacket` | memory-side port when it may send | takes the next packet of the miss queue and sets its bus command from the line's state |
| `sendResult` | memory-side port after the send | marks in service, completes an upgrade in place; on failure or NACK restores the command |
| `handleResponse` | bus | drops a Nacked response; else fills the line, serves the MSHR's targets, queues the victim's writeback |
| `snoop` | bus | NACKs or appends an invalidate when the line's MSHR is in service; supplies or drops a writeback of the write buffer; else applies the policy's state change |
| `doAtomicAccess`, `probe` with `update`, `snoopProbe` | ports | the same decisions taken synchronously; `probe` panics on an outstanding MSHR or writeback |
| `doFunctionalAccess`, `probe` without `update` | ports | a debug access: a write changes the data in every place that holds the line, a read is patched from the MSHR targets and the write buffer |

*Hard behaviours.* A snoop races the fill of the same line. The bus may reject
or NACK any send, and the bus command is recomputed at every attempt. The
targets of one MSHR are answered from three different functions. The cache
blocks the CPU side when MSHRs, targets or write buffers run out. Two caches
that ask to own one line meet each other's MSHR in their snoops.

### 1.3 System

`system.hh` declares accessors: the memory mode queries (`isAtomicMode`,
`isTimingMode`, `bypassCaches`, `getMemoryMode`), `allocatePID`, the work item
counters (`incWorkItemsBegin`, `incWorkItemsEnd`, `markWorkItem`,
`workItemBegin`). Its only interaction with the other two files is
`resume()` of the CPU asserting the timing mode.

### 1.4 How the parts interact

The CPU's ports are bound to a cache's CPU side; the cache's memory side is
bound to a bus. A CPU request becomes a hit (answered by `respond`) or a
target of an MSHR, the MSHR becomes a bus request, the bus response a fill,
the fill the responses to the targets, each response a `recvTiming` on the
CPU. Every packet a cache puts on the bus is snooped by the other caches
before `sendTiming` returns: the flags the snoopers set on the packet
(`NACKED_LINE`, `SATISFIED`) are what `sendResult` of the sender reads. The
driver drains every object, then switches CPUs or memory modes, then resumes.

## 2. Modules

| module | models | instantiated by |
|---|---|---|
| `TimingCPU` | all state-changing operations of `timing.cc`; the memory system, the event queue and the driver are its environment | `MCTimingCPU` |
| `Cache` | the timing path of `cache_impl.hh` with the miss queue, the tag store and the coherence policy it is a template over | `MCCache` |
| `CacheAtomic` | extends `Cache` with the atomic path (`doAtomicAccess`, `probe`, `snoopProbe`) and the memory mode of `System` | `MCCacheAtomic` |
| `CacheData` | extends `Cache` with the data of the lines and with the functional path (`doFunctionalAccess`, `probe` without `update`) | `MCCacheData` |
| `LineMemory` | the abstract specification `CacheData` implements: one value per line, requests that take effect one at a time | instantiated by `CacheData` |
| `CpuCache` | `TimingCPU` and `Cache` composed over the dcache port | `MCCpuCache` |
| `CacheBus` | two instances of `Cache` with the MSI policy composed over one snooping bus | `MCCacheBus` |

Definitions keep the names of the functions they model. An action models the
whole handler: `IcachePort_recvTiming` includes `completeIfetch`, the
execution of the instruction, `read` or `write`, and the `fetch` of
`advanceInst`, because the code runs them in one call. Helper operators
pass the fields a handler has written so far as a record (`c` in `TimingCPU`,
`g` in `Cache`), so that the order of the assignments of the code is kept.
The two ports of the CPU have the same code but for the completion they
call (`IcachePort::recvTiming` and `DcachePort::recvTiming`, and likewise
the tick events and `recvRetry`): `recvTiming`, `process` and `recvRetry`
take the port and are written once, and `IcachePort_recvTiming`,
`DcachePort_recvTiming` and the others are their instances.

### 2.1 TimingCPU

Variables are the fields of the class (`status`, `ifetch_pkt`, `dcache_pkt`,
`fetchEvent`, `tickPkt`, `peer`), the thread context (`threadActive`, `pc`),
and the environment: `mem` (packets the memory system owns), `retryOwed`,
`cachePeer`. `instAddr`, `retired` and `leaked` let properties speak about
instruction order and about packets nobody references.

`ckpt` is the checkpoint `serialize` wrote last, `restored` says that the CPU
was unserialized and waits for `resume()`. `unserialize` is the start of a new
simulator: every field is as the constructor left it, the memory system holds
nothing, and the status, the thread and the PC come from the checkpoint. The
code reads `so_state` and drops it, so the restored CPU is Running to the
drain protocol whatever the checkpoint says. No event runs between
`unserialize` and `resume()`.

Abstractions: a packet is an identity; an instruction is the choice between
no access, a load, a store, a store conditional that fails early, a faulting
translation and a suspending instruction; the instruction stream is a ring of
`NumPCs` positions; `nextCycle(mem_time) == curTick` is a nondeterministic
choice.

### 2.2 Cache

Variables: `blk`, `mq`, `pendingList`, `wb`, `masterRequests` (the cache),
`req`, `responses` (the CPU side), `busReqs`, `snoopFlags` (the bus). The
module has no history variable: an invalidate a snoop appends is the target
`Inval` of the MSHR (`addTarget`), as `invalidatePkt` is in the code.

The bus is the environment of the module: `MemSide_send(ok, nacked)` is a
send the bus took or refused and that a snooper NACKed or not,
`MemSide_recvSnoop` a packet of any other agent, `MemSide_recvResponse` the
answer to an MSHR in service. `handleResponse` keeps its branch for a
response with the result `Nacked`; no configuration delivers one (section 5).

`cache_impl.hh` calls into three template parameters whose code is not in
this repository. They are modelled from the specification and marked
`spec_modelled` in the map: `handleMiss`, `mqGetPacket`, `markInService`,
`doWriteback`, `findMSHR`, `findWrites`, `Blocked` (miss queue); `Permits`,
`Victims`, `Evict`, `ServeTargets` (tag store); `getBusCmd`, `getNewState`,
`handleBusRequest`, `allowFastWrites` (coherence, for the policy without a
protocol and for MSI).

### 2.3 CacheAtomic

`CacheAtomic` extends `Cache` and adds `memoryMode` (the field of `System`),
`panicked` (probe has called `panic`) and the history `sentAtomic` (what the
last atomic access sent with `sendAtomic`). Its next-state relation is a step
of the timing path while the mode is timing (`TimingAccess`), an atomic
access of the CPU side (`CpuSide_recvAtomic`, which is `probe` with
`update = true`), an atomic snoop (`MemSide_recvAtomic`, which is
`snoopProbe`), or a change of mode by the driver (`setMemoryMode`).

The driver changes the mode when the CPU side is drained (it waits for no
response). The constant `CacheDrains` says whether it also waits until the
cache has nothing to send and no MSHR: the code of that wait is not in
`src/`, and the specification does not state it.

### 2.4 CacheData and LineMemory

`CacheData` extends `Cache`. Every action of the timing path is the action of
`Cache` conjoined with what the step does to the data: `val` (the data of a
block), `wbVal` (of the writebacks, in the order of `wb`), `data` (of a
packet: what it writes, or what it has read), `busVal` (of the fill the bus
has in flight) and `memVal` (the memory below). A line holds one value. The
operator `DataPath` serves the targets a step has answered, in the order in
which the step answered them, against the line.

The functional path is `probe_read` (an operator: what the packet of a
functional read holds at the end, `NULL` if nothing satisfied it) and the
action `doFunctionalAccess` for a functional write (`probe_write`). They
follow `probe` with `update = false`: a write, and any access from the memory
side, is first handed to the other side; then the tags; then `fixPacket` over
the targets of the line's MSHR and over the writebacks of the line in the
write buffer, in that order; then a read from the CPU side that nothing
satisfied goes to the memory.

Modelled from the specification, because the code is not under `src/`: a
functional access to a present block reads or writes its data without
changing its state; `fixPacket` copies the data of every overlapping packet
that has data, a later one over an earlier one; the ports patch a fill that
is in flight.

`LineMemory` is what the CPU side may rely on: a memory of one value per
line; a request is issued, performed (a read takes the line's value, a write
replaces it) and delivered; a store conditional fails or is performed;
several outstanding requests to one line may be performed in one step (a
fill serves all the targets of its MSHR); a functional write changes the
line and the data of the writes to it that still wait. `CacheData`
implements it under the refinement mapping

* `mem[a]`: the block's data if the block is dirty, else the data of the
  newest writeback of the line in the write buffer, else `memVal[a]`;
* `pend[r]`: the request the CPU side waits for, done once its response is
  scheduled.

The mapping holds for a cache with the MSI policy whose CPU side reads and
writes (no Writeback, no WriteInvalidateReq from above), alone on its bus
and with devices that do not answer Nacked. Fast write allocation, snoops
and Nacked responses are checked without data in module `Cache`.

### 2.5 CpuCache

`CpuCache` instantiates `TimingCPU` and `Cache` (`Reqs <- Packets`) and
joins them at the dcache port. What either module leaves to its environment
the other decides:

* a step of the CPU that sends on the dcache port is conjoined with
  `Dcache_sendTiming`: the packet is refused only by a blocked cache, and an
  accepted packet is the argument of the cache's `CpuSide_recvTiming` in the
  same step, as `sendTiming` calls `access` in the code;
* `Dcache_sendResponse` is the cache's response event and the CPU's
  `DcachePort_recvTiming` for the same packet;
* `Dcache_sendRetry` is the CPU's `recvRetry`, given when the cache is no
  longer blocked.

The icache port keeps the abstract memory system of `TimingCPU`; the memory
side of the cache keeps the bus of `Cache`, without other agents. The CPU
stays wired to its cache: switching CPUs and checkpoints are in `TimingCPU`.

### 2.6 CacheBus

`CacheBus` instantiates `Cache` twice (`A` and `B`, both with the MSI
policy), each with variables of its own (`blkA` ... `snoopFlagsA`, `blkB` ...
`snoopFlagsB`) and with a CPU side of its own. What `Cache` leaves to the
bus, the other cache decides:

* `A_send` is one transfer of the bus. `A!getPacket` is the packet cache A
  offers; `OnBus` is its command and its line; cache B snoops it
  (`B!MemSide_recvSnoop`), and `A!MemSide_send` is `sendResult` of A with the
  `NACKED_LINE` flag that this very snoop has left. In the code the three
  run in one call of `sendTiming`, so they are one step. `B_send` is the
  same with the roles exchanged.
* `A_recvResponse`, `B_recvResponse`: the answer to a packet the bus
  delivered and nobody NACKed, from the memory or from the cache that
  supplied the line.
* `A_recvTiming`, `B_recvTiming`, `A_sendResponse`, `B_sendResponse`: the CPU
  sides. A CPU sends loads and stores of less than a line (`DataKinds`):
  store conditionals, writebacks from above and whole-line writes are
  checked for a single cache in `cache_msi`.

Lines are their status bits, as in `Cache`: the module checks who may write
a line and who still holds a copy, not the data that moves between the
caches. The bus always takes the packet offered (a bus that refuses is
checked in `cache_msi` and `cpu_cache`) and picks any cache that asks for
it: arbitration is not under `src/`.

### 2.7 What the model assumes of the callers

Some guards of the actions are not conditions of the code: they say when
the caller, which is not under `src/`, makes the call.

* `activateContext` is called for a thread that is not active, while events
  run, on the CPU the caches are bound to; the code asserts only the status
  `Idle`.
* `switchOut`, `takeOverFrom` and `serialize` are called by the
  configuration script once `drain()` has completed (`simState =
  "Drained"`); the functions themselves check nothing of it. `serialize`
  writes whatever state it finds.
* `resume()` asserts the timing memory mode; the mode is a variable of
  `CacheAtomic` only, and the assertion is not a step of `TimingCPU`.
* `CpuSide_recvAtomic` and `MemSide_recvAtomic` are called in the atomic
  mode, the timing callbacks in the timing mode.
* `fetch()` calls itself through `advanceInst(fault)` for as long as the
  translation faults; the model takes one faulting fetch before the one
  that is sent, which is what it takes to lose a packet (finding 2).
* The bounds `MaxAppended` and the capped counters are named in section
  3.7.

## 3. Runs

| run | configuration | result |
|---|---|---|
| `cpu` | `MCTimingCPU.cfg` | passes: 7 invariants, 2 temporal properties |
| `cpu_drainrace` | `MCTimingCPU_drainrace.cfg` | `DrainedIsQuiescent` violated |
| `cpu_leak` | `MCTimingCPU_leak.cfg` | `NoLeak` violated |
| `cache_msi` | `MCCache_msi.cfg` | passes: 5 invariants, 2 action properties |
| `cache_bus` | `MCCacheBus.cfg` | passes: 4 invariants |
| `cache_bus_lostwb` | `MCCacheBus_lostwb.cfg` | `WritebackIsHandedOver` violated |
| `cache_atomic` | `MCCacheAtomic.cfg` | passes: 2 invariants, 2 action properties |
| `cache_atomic_switch` | `MCCacheAtomic_switch.cfg` | `AtomicAccessNeverPanics` violated |
| `cache_fastwrite` | `MCCache_fastwrite.cfg` | `MissedLineNotWritable` violated |
| `cache_data` | `MCCacheData.cfg` | passes: 3 invariants, the refinement `ImplementsMemory` |
| `cache_functional` | `MCCacheData_functional.cfg` | `FunctionalReadSeesNewest` violated |
| `cpu_cache` | `MCCpuCache.cfg` | passes: 3 invariants, 1 liveness property |

Run one with `tlc -workers 2 -config MCCache_msi.cfg MCCache`.

### 3.1 Properties of the CPU

* `SingleOwner`: a packet is referenced from one place only: the CPU's
  pointer, a tick event or the memory system.
* `CallbackAssertsHold`: whenever a response, a tick event or a retry can
  arrive, the status and the pointers are what the `assert`s of the callback
  demand.
* `DrainedIsQuiescent`: a Drained CPU has no packet anywhere and is owed no
  retry.
* `NoOrphanedTransaction`: every packet in the memory system and every retry
  owed has a cache-side port that points back to this CPU.
* `InOrderExecution`: the instruction being fetched or executed is the
  successor of the last one that completed, across drains and switches.
* `NoLostWakeup`: every status has its wake-up pending: a CPU that waits for
  a response has the packet in the memory system or in a tick event, one
  that waits for a retry is owed it, one that is Running has its fetch event
  scheduled (unless it is Drained or waits for `resume()`), across drains,
  switches and restarts from a checkpoint.
* `RetryBeforeNewer` (action property): a retry sends the very packet that
  was rejected.
* `DrainCompletes` (liveness): Draining leads to Drained, unless the
  simulator is given up for one restored from a checkpoint.
* `NoLeak`: no packet becomes unreachable without being deleted (violated).

### 3.2 Properties of the cache

* `PendingMissKeepsItsCommand`: an MSHR that waits for the bus carries the
  command of its first target, the CPU's packet it will be sent for.
  `getPacket` replaces the command by the bus command computed from the
  line's state (`setBusCmd`); a send the bus refuses or a snooper NACKs
  has to put the CPU's command back (`restoreOrigCmd` in `sendResult`), and
  an MSHR made pending again after a fill or an upgrade takes the command of
  the first target left. Otherwise the next `getPacket` starts from a bus
  command computed for a state a snoop may have changed since.
* `EachRequestInOnePlace`: a request the CPU waits for is a target of
  exactly one MSHR or is among the scheduled responses, never both, never
  neither.
* `NoStuckMiss`: every MSHR is pending with the bus requested, or in service
  with an answer on its way; every writeback in the buffer has the bus
  requested.
* `MissedLineNotWritable`: a line with an MSHR outstanding is not writable
  unless the MSHR is an upgrade completing.
* `DirtyEvictionWritesBack` (action property): a line that is dirty before
  a step and not after it has its writeback queued in that step or was
  snooped. The property compares the tags before and after a step; a store
  served and dropped within one fill is not a change of the tags and is the
  subject of `WritebackIsHandedOver` (section 3.3).
* `WriteNeedsOwnership` (action property, MSI): a line becomes dirty only
  if it was writable already or in the step that completes an invalidating
  bus request for it.

That a request of the CPU is answered is the liveness property
`DataAccessCompletes` of the CPU with its cache (section 3.6).

### 3.3 Properties of two caches on one bus

* `StaleCopyIsInvalidated`: when one cache may write a line and the other
  still holds a copy, the copy is on its way out: the invalidate the snoop
  appended for the writer's request is still a target of the line's MSHR in
  the other cache. It relates the tags of one cache to the miss queue of the
  other, and takes a load and a store merged in one MSHR, a snoop between
  the send and the fill, and two fills to reach.
* `OwnershipSerialized`: the two caches never both wait for a line they have
  asked to own. The second request meets the MSHR of the first in service,
  is NACKed (`snoop`) and stays pending (`sendResult`), because two fills
  would leave two owners.
* `ModifiedInOneCache`: modified data of a line has one home. While one
  cache holds the line dirty, or a writeback of it in its write buffer, the
  other holds no modified data of the line and may not write it. It relates
  the tags and the write buffer of one cache to those of the other: a snoop
  that reads takes the data from the dirty block or from the writeback
  (`handleBusRequest`, `snoopWrites`), and one that invalidates takes the
  writeback out of the buffer. The copy that `StaleCopyIsInvalidated` is
  about is therefore never a second version of the data.
* `WritebackIsHandedOver` (an action property; violated, finding 4): the
  snoop of an invalidating packet takes a writeback out of the write buffer
  only for a sender that takes the modified data over. After the step in
  which the bus carried the packet, the sender holds the line dirty or
  waits for the fill of the line it asked to own.

### 3.4 Properties of the atomic path

* `AtomicAccessNeverPanics`: `probe` never meets an MSHR or a writeback of
  the line it misses on.
* `DirtyDataReachesMemory` (action property): on either path a line loses
  its dirty bit only in a step that queues its writeback, sends it with
  `sendAtomic`, or in a snoop.
* `AtomicWriteNeedsOwnership` (action property, MSI): `WriteNeedsOwnership`
  for the composed system, where `probe` acquires the line with the command
  it sends atomically.

### 3.5 Properties of the data and of the functional path

* `ImplementsMemory`: `CacheData` implements `LineMemory` (the property is
  `Abs!Spec`): every read returns what the last write performed on the line
  left, through hits, merged misses, fills, upgrades, replacements,
  writebacks and functional writes. With the write buffer of two entries a
  writeback of a line and a miss of the same line wait together, and the
  order in which `getPacket` sends them is part of what is checked.
* `CleanLineIsCurrent`: a block that is not dirty holds the value the
  memory system holds for its line.
* `FunctionalReadSeesNewest`: a functional read returns the newest data
  written to the line, also of a write that still waits in an MSHR; from
  the memory side the cache answers with that or not at all. Violated
  (finding 6).
* `FunctionalReadSeesNewestOfOneQueue`: the same for every line whose data
  on its way waits in one queue only, writes in the targets of its MSHR or a
  writeback in the write buffer. The two together are the only state in
  which the order of the fix-ups of `probe` returns older data.

### 3.6 Properties of the CPU with its cache

* `CacheAnswersTheWaitingCpu`: the packets the CPU believes the memory
  system owns are the requests the cache owes an answer, no MSHR holds a
  target the CPU has completed, and a scheduled response finds the CPU in
  `DcacheWaitResponse`.
* `DrainedLeavesOnlyWritebacks`: a Drained CPU has left no MSHR, no bus
  request and no response in its cache. Writebacks it may leave: the state
  `Drained` with a writeback in the write buffer is reachable, which is the
  premise of finding 5.
* `DataAccessCompletes` (liveness): every data access completes and every
  drain that waits for one ends, with no fairness assumed of the data side
  of the CPU other than that the cache's events run.

### 3.7 Bounds

`cpu`: three packet identities, because at most two are alive at once (one
fetch or data packet of this instruction, and the packet a fault path leaks);
a ring of three stream positions tells the successor from the predecessor.

`cache_msi`: two lines competing for a tag store of one line, so
that every fill evicts; two MSHRs, so that a full miss queue happens; one
write buffer, so that the buffer is full after one eviction. Three CPU
requests in flight and four targets to an MSHR are what an upgrade that
leaves a target unserved takes: a load and a store merged in one MSHR, the
invalidate a snoop appends while the read is in service, and a request
behind it. The fill serves the load, the upgrade the store, the invalidate
drops the line, and `sendResult` makes the MSHR pending a third time for
the last request. The three requests are symmetric (`ReqSymmetry`); the run
has invariants and action properties only. `MaxAppended` bounds the
invalidates other agents append to one MSHR while it is in service: a snoop
that would append one more is not taken (snoops that are NACKed or that go
to the write buffer or the tags always are). The code has no such bound,
and one is enough to reach every branch of `snoop`.

`cache_atomic`: the bounds of `cache_msi` with two requests and two targets
to an MSHR; the memory mode starts in any of
its three values and changes any number of times.

`cache_bus`: two lines in a tag store of one, two MSHRs of two targets and
one write buffer for both caches. Cache A has
two CPU requests in flight, so that a load and a store merge in one MSHR
and a fill leaves a target behind; cache B has one, which is enough for it
to compete for the line, to NACK and to be NACKed. Two requests on
both sides put the state space out of reach of a run of minutes; the
violation of `WritebackIsHandedOver` needs the merge in one cache only.
`NumBlocks = 1` makes the fill of the second line evict the first, so that
a dirty line reaches the write buffer while the other cache still asks for
it. `MaxAppended
= 1`: a cache does not put a packet on the bus that would append a second
invalidate to an MSHR of the other cache; the code has no such
bound. `NumTargets = 2` leaves no room for a further request behind an
appended invalidate, so an upgrade that completes in `sendResult` serves
every target that is left (the other case is checked in `cache_msi`).

`cache_data` and `cache_functional`: two lines, two MSHRs of two targets,
two requests, no snoops, and two values, which tell the newest write from
the one before it. The write buffer has two entries: with one the cache is
blocked from an eviction until the writeback is sent, so no miss of a line
is taken while a writeback of it waits; with two the cache stays open to
the CPU side, and a writeback and a miss of one line are queued together.

`cpu_cache`: three packets as in `cpu`; two lines in a tag store of one, two
MSHRs of two targets and one write buffer, with the policy without a
protocol. The CPU has one data access outstanding at a
time, so MSHR targets never merge here; the write buffer of one entry makes
the cache refuse the CPU after every eviction of a dirty line, so rejected
sends, retries and drains that wait for a retried access all happen.

### 3.8 Fairness

`TimingCPU`: weak fairness of the fetch event, the responses, the tick events
and the retries. The event queue runs every scheduled event, and the memory
system answers every packet it accepted and calls `recvRetry` after every
rejection. A retry may be rejected again, but a rejected retry leaves every
variable as it was, so weak fairness of `recvRetry` asks for the retry that
is accepted: a peer that owes a retry ends up taking the packet. The driver
has no fairness: nothing obliges it to drain, resume or switch.

`Cache`, `CacheAtomic` and `CacheBus` state safety only. A cache alone
answers every request if the bus gives it its turn, and that is shown where
the CPU side is the CPU of the code (`CpuCache`). For two caches no
liveness is claimed: a request that is NACKed is sent again, the cache that
NACKed it can lose the line and ask to own it again before the retry, and
nothing in `cache_impl.hh` bounds the number of NACKs a request takes.
Whether it is answered depends on the arbitration of the bus, which is not
under `src/`. Under weak fairness of the sends the model has the behaviour
in which one cache is NACKed for ever.

`CpuCache`: the fairness of `TimingCPU` for the event queue and the icache
side; for the bus, weak fairness of a send the bus accepts and of the
response to each MSHR in service (weak fairness suffices: one CPU with one
access outstanding cannot keep the write buffer full); and weak fairness of
the cache's own response event and retry. The fairness `TimingCPU` assumes
of its data side is not assumed: `DataAccessCompletes` shows the cache
provides it.

`CacheData` and `LineMemory` state safety only.

## 4. Findings

1. **Drain race** (`timing.cc:137`). `drain()` reports Drained from the
   status alone. If events are still serviced afterwards, the scheduled
   fetch event or `activateContext` sends a fetch from a Drained CPU.
2. **Leak on a fetch fault** (`timing.cc:452`). `fetch()` allocates the
   Request and the Packet before the translation; on a fault nothing deletes
   them. `read()` and `write()` leak the Request in the same way.
3. **Fast write over an outstanding miss** (`cache_impl.hh:194`). A
   `WriteInvalidateReq` is allocated over an outstanding miss with a warning
   only; the fill that follows replaces the written line.
4. **An upgrade from a stale copy cancels the owner's writeback**
   (`cache_impl.hh:429` and `:470`). A snoop that meets the line's MSHR in
   service appends the invalidate behind the targets already queued. When a
   load and a store of cache A wait in one MSHR, the fill of the load leaves
   the line valid, the store does not hit it, the service of the targets
   stops there and the MSHR is sent again as an upgrade: the invalidate is
   still behind the store. Cache B has had its fill by then and has written
   the line, so A's copy is older than B's data, is valid and answers loads.
   The specification says the invalidate applies the instant the fill
   lands. `StaleCopyIsInvalidated` is what does hold: the invalidate is
   never lost, and A's copy goes when its upgrade is served. The harm is
   done on the way. In the trace of `cache_bus_lostwb` (13 states) B evicts
   the line before A's upgrade is sent; the snoop of the upgrade finds B's
   writeback in the write buffer and takes it out ("this must be an upgrade
   or other cache will take ownership"); the upgrade completes in
   `sendResult`, A's store is served and the queued invalidate drops the
   line, which `sendResult` asserts to write nothing back. The data of
   both stores is in no cache and never reaches the memory, while the
   specification has a writeback entry queued until the next level accepts
   it. With one access outstanding per CPU, as `TimingSimpleCPU` issues
   them, the property holds in the bounds of `cache_bus` (12,513 states):
   the sender of an upgrade that cancels a writeback ends the step with the
   line dirty (checked with `ReqsA <- MCReqsB` in `MCCacheBus_lostwb.cfg`).

5. **Atomic access after a change of mode** (`cache_impl.hh:600`).
   `probe()` panics on a line with a writeback or an MSHR outstanding. A
   writeback needs no response, so the CPU side is drained while the write
   buffer still holds it; the specification states no condition on the
   cache for the change of mode.

6. **Functional read returns an older writeback**
   (`cache_impl.hh:583`). `probe` patches a functional read from the targets
   of the line's MSHR first and from the write buffer second. When a dirty
   line was evicted and a later write to it waits in the MSHR, the read
   returns the data of the writeback. The specification says a debug read
   observes the most recent write even before it is committed.

## 5. Not modelled

* Line sizes, latencies and ticks: time is the order of events. The assertion
  of `getPacket` on the ready time of an MSHR is therefore not a step.
* Uncacheable requests, prefetches, the coherence engine's own packets
  (`getCoherencePacket`, `sendCoherenceResult`): what the miss queue and
  the prefetcher do with them is outside `src/` and the specification says
  too little to model them from it.
* Responses with the result `Nacked`. `handleResponse` returns early and
  leaves the MSHR in service; nothing under `src/` produces such a response
  (a NACK of a snooper comes back with the send, and `snoopResponse` is an
  assertion with the comment that it is not reached), and the specification
  lists the retry as unimplemented. The branch is in the model and no
  configuration takes it.
* `invalidateBlk` and `propogateInvalidate`: calls of the coherence engine
  of a multi-level hierarchy.
* Data with the policy without a protocol: whether `handleFill` marks a
  fast-allocated line dirty is outside `src/`. The fast write allocation
  itself is reached in `cache_fastwrite` only.
* Data that moves between two caches, more than two caches, and the
  arbitration of the bus. The memory copy of a supplied line (`memcpy` in
  `snoop`) is the data path of a snoop and needs values in `CacheBus`.
* Liveness of two caches (section 3.8).
* Of `System`: the work item counters and `allocatePID` are sequential
  counters with no interleaving; ports, master ids and physical memory are
  declarations.
* The other CPU of a switch and the icache in `CpuCache`.
* Statistics and tracing.
* What is left of the three files holds no state change of its own: the
  licences and includes, the registration of statistics, the parameter
  declarations and the builder of `TimingSimpleCPU` at the end of
  `timing.cc`, the status-change and address-range callbacks of the ports,
  and the declarations of `system.hh`. The map covers about half of the
  lines for that reason, and no further component of `src/` is left to
  model.

## 6. Roadmap

1. Line values in `CacheBus`, for coherence of the data (reads see the last
   write) and `LineMemory` for both CPU sides, once finding 4 is settled:
   with a stale copy, and a writeback cancelled for it, the two caches are
   not one memory.
2. `CpuCache` with both caches of the CPU and with the switch of CPUs over a
   cache that still holds the old CPU's writebacks.
3. The memory mode in `TimingCPU` (`resume()` asserts the timing mode), with
   the driver of `CacheAtomic`.
