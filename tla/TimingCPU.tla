----------------------------- MODULE TimingCPU -----------------------------
(***************************************************************************)
(* TimingSimpleCPU (src/src/cpu/simple/timing.cc): a single-issue CPU that *)
(* fetches one instruction over its icache port, executes it, issues at    *)
(* most one data access over its dcache port, and fetches the next one     *)
(* only when the outstanding access has completed.                         *)
(*                                                                         *)
(* The CPU's fields keep their names.  The memory system behind the two    *)
(* ports is the environment: it accepts or rejects a sendTiming, owes a    *)
(* recvRetry after a rejection, and answers every accepted packet once.    *)
(* A packet is an identity drawn from Packets; of its address only the     *)
(* position of the fetched instruction in the instruction stream is kept;  *)
(* its data and the statistics (numCycles, previousTick) are not modelled. *)
(* Simulated time is abstracted to the order of events: whether a response *)
(* arrives on a clock edge (nextCycle(mem_time) = curTick) is a choice.    *)
(***************************************************************************)
EXTENDS Naturals, FiniteSets

CONSTANTS
    Packets,              \* identities of heap-allocated Packet/Request pairs
    NULL,                 \* the null pointer
    SimRunsWhileDrained,  \* TRUE: the event queue is serviced while this CPU
                          \* is Drained (another object is still draining)
    NumPCs                \* positions of the dynamic instruction stream,
                          \* counted modulo NumPCs

ASSUME /\ NULL \notin Packets
       /\ SimRunsWhileDrained \in BOOLEAN
       /\ NumPCs \in Nat \ {0, 1}

Ports == {"icache", "dcache"}

PCs == 0 .. NumPCs - 1
Succ(a) == (a + 1) % NumPCs

CpuStatus == {"Idle", "Running", "IcacheRetry", "IcacheWaitResponse",
              "DcacheRetry", "DcacheWaitResponse", "SwitchedOut"}

VARIABLES
    status,        \* _status
    simState,      \* SimObject::State: Running, Draining, Drained
    ifetch_pkt,    \* the fetch packet the CPU still owns, or NULL
    dcache_pkt,    \* the data packet the CPU still owns, or NULL
    fetchEvent,    \* TRUE iff fetchEvent is scheduled
    drainEvent,    \* TRUE iff a drain event waits to be processed
    tickPkt,       \* [port -> packet held by the port's tickEvent, or NULL]
    threadActive,  \* the thread context is ThreadContext::Active
    pc,            \* the thread's PC: the stream position to fetch next
    instAddr,      \* position of the instruction being fetched (the fetch
                   \* request's address) or executed (curStaticInst), or NULL
    peer,          \* [port -> the port's peer: "cache" or NULL]
    cachePeer,     \* [port -> whom the cache-side port points back to]
    mem,           \* [port -> packets the memory system accepted and owns]
    retryOwed,     \* [port -> the peer rejected a send and owes recvRetry]
    leaked,        \* a Packet or Request became unreachable undeleted
    ckpt,          \* the checkpoint serialize() wrote last, or NULL, with the
                   \* wiring of the configuration it belongs to
    restored,      \* the CPU was unserialized and waits for resume()
    retired        \* history: position of the last instruction that completed
                   \* or faulted

cpuVars == <<status, simState, ifetch_pkt, dcache_pkt, fetchEvent, drainEvent,
             tickPkt, threadActive, pc, instAddr, peer>>
envVars == <<cachePeer, mem, retryOwed>>
vars    == <<cpuVars, envVars, ckpt, restored, leaked, retired>>

-----------------------------------------------------------------------------
(* Where packets are. *)

Holders == <<{ifetch_pkt}, {dcache_pkt}, mem.icache, mem.dcache,
             {tickPkt.icache}, {tickPkt.dcache}>>

Owned == (UNION {Holders[i] : i \in DOMAIN Holders}) \ {NULL}

\* The event queue is serviced (see SimRunsWhileDrained); it is not between
\* unserialize and resume().
EventsRun == (simState # "Drained" \/ SimRunsWhileDrained) /\ ~restored

TypeOK ==
    /\ status \in CpuStatus
    /\ simState \in {"Running", "Draining", "Drained"}
    /\ {ifetch_pkt, dcache_pkt} \subseteq Packets \cup {NULL}
    /\ {fetchEvent, drainEvent, threadActive, leaked, restored} \subseteq BOOLEAN
    /\ tickPkt \in [Ports -> Packets \cup {NULL}]
    /\ peer \in [Ports -> {"cache", NULL}]
    /\ cachePeer \in [Ports -> {"self", "other"}]
    /\ mem \in [Ports -> SUBSET Packets]
    /\ retryOwed \in [Ports -> BOOLEAN]
    /\ ckpt \in {NULL} \cup [so_state : {"Running", "Draining", "Drained"},
                             status : CpuStatus, active : BOOLEAN, pc : PCs,
                             peer : [Ports -> {"cache", NULL}],
                             cachePeer : [Ports -> {"self", "other"}]]
    /\ {pc, retired} \subseteq PCs
    /\ instAddr \in PCs \cup {NULL}

\* The constructor, for a CPU wired to its caches and for one created to be
\* switched in later (no peers yet, the caches point at the other CPU).
Init ==
    /\ status = "Idle"
    /\ simState = "Running"
    /\ ifetch_pkt = NULL
    /\ dcache_pkt = NULL
    /\ fetchEvent = FALSE
    /\ drainEvent = FALSE
    /\ tickPkt = [p \in Ports |-> NULL]
    /\ threadActive = FALSE
    /\ \/ peer = [p \in Ports |-> "cache"] /\ cachePeer = [p \in Ports |-> "self"]
       \/ peer = [p \in Ports |-> NULL] /\ cachePeer = [p \in Ports |-> "other"]
    /\ mem = [p \in Ports |-> {}]
    /\ retryOwed = [p \in Ports |-> FALSE]
    /\ leaked = FALSE
    /\ ckpt = NULL
    /\ restored = FALSE
    /\ pc = 0
    /\ instAddr = NULL
    /\ retired = NumPCs - 1

-----------------------------------------------------------------------------
(* The pipeline.  An operator that stands for a function called in the     *)
(* middle of a handler takes h, what the handler has computed so far: st   *)
(* the status, mem the memory system's packets, free the identities a new  *)
(* Packet may get, lk whether something leaked, pc and retired.            *)

\* The handler's view when it is entered.
Now == [st |-> status, mem |-> mem, free |-> Packets \ Owned, lk |-> leaked,
        pc |-> pc, retired |-> retired]

\* The handler's view once the response p was taken from the memory system,
\* which is left with m, and deleted.
After(p, m) == [Now EXCEPT !.mem = m, !.free = @ \cup {p}]

WaitResponse == [icache |-> "IcacheWaitResponse", dcache |-> "DcacheWaitResponse"]
Retry == [icache |-> "IcacheRetry", dcache |-> "DcacheRetry"]

\* Port::sendTiming as the CPU sees it: the peer takes the packet or owes a
\* retry.
sendTiming(port, q, m, accepted) ==
    /\ peer[port] # NULL
    /\ mem' = [m EXCEPT ![port] = IF accepted THEN @ \cup {q} ELSE @]
    /\ retryOwed' = [retryOwed EXCEPT ![port] = ~accepted]

\* Mutation of handOver: the CPU's pointer keeps pointing at a packet the
\* memory system accepted.
handOver_keepsPointer(q, accepted) == q

\* The CPU's pointer to q after sendTiming: the ownership of an accepted
\* packet went to the memory system.
handOver(q, accepted) == IF accepted THEN NULL ELSE q

\* The if around every sendTiming: the CPU waits for the response or for the
\* retry.
send(port, q, m, accepted) ==
    /\ sendTiming(port, q, m, accepted)
    /\ status' = IF accepted THEN WaitResponse[port] ELSE Retry[port]

\* fetch().  A translation fault goes through advanceInst(fault), which
\* advances the PC into the fault handler and fetches again while the CPU
\* is Running: fault then stands for one faulting fetch before the one that
\* is sent (the fault handler's own fetch does not fault), whose packet the
\* second fetch overwrites in ifetch_pkt.  A CPU that is not Running keeps
\* the packet of the faulting fetch in ifetch_pkt; the next fetch() loses it.
fetch(h) ==
    \E q \in h.free, fault \in BOOLEAN, accepted \in BOOLEAN :
        LET at == IF fault THEN Succ(h.pc) ELSE h.pc IN
        /\ leaked' = (h.lk \/ (fault /\ h.st = "Running") \/ ifetch_pkt # NULL)
        /\ pc' = at
        /\ retired' = IF fault THEN h.pc ELSE h.retired
        /\ \/ /\ fault /\ h.st # "Running"
              /\ status' = h.st
              /\ ifetch_pkt' = q
              /\ instAddr' = NULL
              /\ mem' = h.mem
              /\ UNCHANGED retryOwed
           \/ /\ ~fault \/ h.st = "Running"
              /\ send("icache", q, h.mem, accepted)
              /\ ifetch_pkt' = handOver(q, accepted)
              /\ instAddr' = at

\* advanceInst(fault): advancePC, then the next fetch if still Running.
advanceInst(h) ==
    \/ /\ h.st = "Running"
       /\ fetch([h EXCEPT !.pc = Succ(@)])
    \/ /\ h.st # "Running"
       /\ status' = h.st
       /\ mem' = h.mem
       /\ leaked' = h.lk
       /\ pc' = Succ(h.pc)
       /\ retired' = h.retired
       /\ instAddr' = NULL
       /\ UNCHANGED <<ifetch_pkt, retryOwed>>

\* suspendContext(): called by the executing instruction (a syscall or a
\* quiesce), so while the CPU is Running.
suspendContext(suspends) == IF suspends THEN "Idle" ELSE "Running"

\* read(), without a translation fault (with one it only leaks the Request).
read(h) ==
    \E q \in h.free, accepted \in BOOLEAN :
        /\ send("dcache", q, h.mem, accepted)
        /\ dcache_pkt' = handOver(q, accepted)

\* write(), without a translation fault and with do_access.
write(h) == dcache_pkt = NULL /\ read(h)

\* A handler of a draining CPU ends in completeDrain(): the drain event is
\* processed and the CPU stops Running, at position at, with nothing sent.
completeDrain(m, at, done) ==
    /\ simState' = "Drained"
    /\ drainEvent' = FALSE
    /\ status' = "Running"
    /\ mem' = m
    /\ pc' = at
    /\ retired' = done
    /\ instAddr' = NULL
    /\ UNCHANGED <<ifetch_pkt, dcache_pkt, retryOwed, leaked, threadActive>>

\* The part of completeIfetch after the drain check: the fetched instruction
\* (at ia) executes.  A memory reference leaves through read or write; a
\* non-memory instruction, a data translation fault and a store conditional
\* that fails early (its packet is allocated and deleted on the spot) retire
\* and go on to advanceInst.
execute(h, ia) ==
    /\ UNCHANGED <<simState, drainEvent>>
    /\ \/ /\ (read(h) \/ write(h))
          /\ instAddr' = ia
          /\ UNCHANGED <<ifetch_pkt, leaked, threadActive, pc, retired>>
       \/ \E suspends \in BOOLEAN, dfault \in BOOLEAN, scFails \in BOOLEAN :
             LET idle == suspends /\ ~dfault /\ ~scFails IN
             /\ scFails => dcache_pkt = NULL /\ h.free # {}
             /\ advanceInst([h EXCEPT !.st = suspendContext(idle),
                                      !.lk = @ \/ dfault,
                                      !.retired = ia])
             /\ threadActive' = (threadActive /\ ~idle)
             /\ dcache_pkt' = IF scFails THEN NULL ELSE dcache_pkt

\* Mutation of completeIfetch: the drain check is missing.
completeIfetch_noDrainCheck(p, m) ==
    status = "IcacheWaitResponse" /\ execute(After(p, m), instAddr)

\* Mutation of completeIfetch: the instruction is decoded from the packet
\* after the packet was deleted.
completeIfetch_useAfterDelete(p, m) ==
    status = "IcacheWaitResponse" /\ simState # "Draining" /\ execute(After(p, m), NULL)

\* completeIfetch(pkt): pkt is deleted; a draining CPU stops here, with the
\* instruction not executed and the PC still at it.
completeIfetch(p, m) ==
    /\ status = "IcacheWaitResponse"
    /\ \/ simState = "Draining" /\ completeDrain(m, pc, retired)
       \/ simState # "Draining" /\ execute(After(p, m), instAddr)

\* completeDataAccess after the drain check: on to the next instruction.
nextInst(p, m) ==
    /\ advanceInst([After(p, m) EXCEPT !.st = "Running", !.retired = instAddr])
    /\ UNCHANGED <<simState, drainEvent, dcache_pkt, threadActive>>

\* Mutation of completeDataAccess: a draining CPU completes the access and
\* leaves the PC at the instruction it has just completed.
completeDataAccess_noAdvancePC(p, m) ==
    /\ status = "DcacheWaitResponse"
    /\ \/ simState = "Draining" /\ completeDrain(m, pc, instAddr)
       \/ simState # "Draining" /\ nextInst(p, m)

\* completeDataAccess(pkt): the instruction completes and retires; a
\* draining CPU advances the PC and stops, another goes on to advanceInst.
completeDataAccess(p, m) ==
    /\ status = "DcacheWaitResponse"
    /\ \/ simState = "Draining" /\ completeDrain(m, Succ(pc), instAddr)
       \/ simState # "Draining" /\ nextInst(p, m)

-----------------------------------------------------------------------------
(* Callbacks of the two ports and events of the event queue. *)

\* What the handlers of the event queue leave alone.
eventFrame == <<fetchEvent, peer, cachePeer, ckpt, restored>>

\* TickEvent::schedule(pkt, t): the port's tick event keeps the packet until
\* it is processed.
TickEvent_schedule(port, p) == tickPkt' = [tickPkt EXCEPT ![port] = p]

\* What a port does with a response: cpu->completeIfetch(pkt) of the icache
\* port, cpu->completeDataAccess(pkt) of the dcache port.
complete(port, p, m) ==
    \/ port = "icache" /\ completeIfetch(p, m)
    \/ port = "dcache" /\ completeDataAccess(p, m)

\* recvTiming of a port for the response p: the memory system gives up the
\* packet, which is completed at once when it arrives on a clock edge, else
\* by the port's tickEvent.
recvTiming(port) ==
    \E p \in mem[port] :
        LET m == [mem EXCEPT ![port] = @ \ {p}] IN
        /\ EventsRun
        /\ cachePeer[port] = "self"
        /\ UNCHANGED eventFrame
        /\ \/ complete(port, p, m) /\ UNCHANGED tickPkt
           \/ /\ TickEvent_schedule(port, p)
              /\ mem' = m
              /\ UNCHANGED <<status, simState, ifetch_pkt, dcache_pkt, drainEvent,
                             threadActive, pc, instAddr, retired, retryOwed, leaked>>

\* TickEvent::process of a port.
process(port) ==
    /\ EventsRun
    /\ tickPkt[port] # NULL
    /\ tickPkt' = [tickPkt EXCEPT ![port] = NULL]
    /\ complete(port, tickPkt[port], mem)
    /\ UNCHANGED eventFrame

IcachePort_recvTiming == recvTiming("icache")
ITickEvent_process == process("icache")
DcachePort_recvTiming == recvTiming("dcache")
DTickEvent_process == process("dcache")

\* recvRetry of a port, offering q: rejected again, nothing changes.
recvRetry(port, q, accepted) ==
    /\ EventsRun
    /\ retryOwed[port]
    /\ status = Retry[port]
    /\ send(port, q, mem, accepted)
    /\ UNCHANGED <<simState, drainEvent, tickPkt, threadActive, pc, instAddr,
                   retired, leaked, eventFrame>>

\* Mutation of IcachePort::recvRetry: a new packet is built for the retry
\* instead of the one that was rejected.
IcachePort_recvRetry_newPacket ==
    \E q \in Packets \ Owned, accepted \in BOOLEAN :
        recvRetry("icache", q, accepted) /\ UNCHANGED <<ifetch_pkt, dcache_pkt>>

\* IcachePort::recvRetry: the packet kept at the rejection is offered again.
IcachePort_recvRetry ==
    \E accepted \in BOOLEAN :
        /\ ifetch_pkt # NULL
        /\ recvRetry("icache", ifetch_pkt, accepted)
        /\ ifetch_pkt' = handOver(ifetch_pkt, accepted)
        /\ UNCHANGED dcache_pkt

DcachePort_recvRetry ==
    \E accepted \in BOOLEAN :
        /\ dcache_pkt # NULL
        /\ recvRetry("dcache", dcache_pkt, accepted)
        /\ dcache_pkt' = handOver(dcache_pkt, accepted)
        /\ UNCHANGED ifetch_pkt

\* fetchEvent fires: fetch() runs whatever the status is.
FetchEvent_process ==
    /\ EventsRun
    /\ fetchEvent
    /\ fetchEvent' = FALSE
    /\ fetch(Now)
    /\ UNCHANGED <<simState, dcache_pkt, drainEvent, tickPkt, threadActive,
                   peer, cachePeer, ckpt, restored>>

-----------------------------------------------------------------------------
(* Calls from the thread context and from the simulation script. *)

\* What the calls of the script leave alone.
scriptFrame == <<ifetch_pkt, dcache_pkt, tickPkt, instAddr, mem, retryOwed, leaked,
                 ckpt>>

activateContext ==
    /\ EventsRun
    /\ status = "Idle"
    /\ ~threadActive
    /\ cachePeer.icache = "self"
    /\ status' = "Running"
    /\ threadActive' = TRUE
    /\ fetchEvent' = TRUE
    /\ UNCHANGED <<simState, drainEvent, pc, retired, peer, cachePeer, restored,
                   scriptFrame>>

\* Mutation of isDrained: a CPU waiting for a retry counts as drained.
isDrained_ignoresRetry == status \notin {"IcacheWaitResponse", "DcacheWaitResponse"}

\* Mutation of isDrained: only a fetch in flight is waited for.
isDrained_ignoresDcache == status \notin {"IcacheRetry", "IcacheWaitResponse"}

\* The condition of drain(): the CPU is not waiting for an access to
\* complete.
isDrained == status \in {"Idle", "Running", "SwitchedOut"}

\* drain(): Drained at once unless an access is outstanding.
drain ==
    /\ simState = "Running"
    /\ simState' = IF isDrained THEN "Drained" ELSE "Draining"
    /\ drainEvent' = IF isDrained THEN drainEvent ELSE TRUE
    /\ UNCHANGED <<status, fetchEvent, threadActive, pc, retired, peer, cachePeer,
                   restored, scriptFrame>>

\* Mutation of resume: the state changes and no fetch is scheduled.
resume_noReschedule ==
    /\ simState = "Drained" \/ restored
    /\ simState' = "Running"
    /\ restored' = FALSE
    /\ UNCHANGED <<status, fetchEvent, drainEvent, threadActive, pc, retired, peer,
                   cachePeer, scriptFrame>>

\* resume(), called on a drained CPU and on one just unserialized: a CPU
\* that is neither Idle nor SwitchedOut gets one fetch event, the old one
\* descheduled.
resume ==
    /\ simState = "Drained" \/ restored
    /\ fetchEvent' = (fetchEvent \/ status \notin {"SwitchedOut", "Idle"})
    /\ simState' = "Running"
    /\ restored' = FALSE
    /\ UNCHANGED <<status, drainEvent, threadActive, pc, retired, peer, cachePeer,
                   scriptFrame>>

switchOut ==
    /\ simState = "Drained"
    /\ status \in {"Running", "Idle"}
    /\ cachePeer.icache = "self"
    /\ status' = "SwitchedOut"
    /\ fetchEvent' = FALSE
    /\ UNCHANGED <<simState, drainEvent, threadActive, pc, retired, peer, cachePeer,
                   restored, scriptFrame>>

\* Mutation of setPeer: the peers are not pointed at this CPU.
setPeer_notCalled == cachePeer

\* takeOverFrom, peer->setPeer(&port) for both ports: the caches point at
\* this CPU.
setPeer == [p \in Ports |-> "self"]

\* takeOverFrom(oldCPU): this CPU gets the old CPU's thread (active or not,
\* at the position the old CPU left it), takes the old CPU's peers where it
\* has none, and points the peers at itself.
takeOverFrom ==
    \E active \in BOOLEAN, at \in PCs :
        /\ simState = "Drained"
        /\ status \in {"Idle", "SwitchedOut"}
        /\ cachePeer.icache = "other"
        /\ threadActive' = active
        /\ pc' = at
        /\ retired' = (at + NumPCs - 1) % NumPCs
        /\ status' = IF active THEN "Running" ELSE "Idle"
        /\ peer' = [p \in Ports |-> "cache"]
        /\ cachePeer' = setPeer
        /\ UNCHANGED <<simState, fetchEvent, drainEvent, restored, scriptFrame>>

\* The same takeOverFrom run by the CPU that replaces this one: it points
\* the caches at itself and takes the thread.
OtherTakesOver ==
    /\ simState = "Drained"
    /\ status = "SwitchedOut"
    /\ cachePeer.icache = "self"
    /\ cachePeer' = [p \in Ports |-> "other"]
    /\ threadActive' = FALSE
    /\ UNCHANGED <<status, simState, fetchEvent, drainEvent, pc, retired, peer,
                   restored, scriptFrame>>

\* What goes to a checkpoint: the SimObject state and, with
\* BaseSimpleCPU::serialize, the status and the thread.
Checkpoint == [so_state |-> simState, status |-> status, active |-> threadActive,
               pc |-> pc, peer |-> peer, cachePeer |-> cachePeer]

\* serialize(os).  The function writes whatever state it finds; that it is
\* called once drain() has completed is the script's part (the guard).
serialize ==
    /\ simState = "Drained"
    /\ ckpt' = Checkpoint
    /\ UNCHANGED <<cpuVars, envVars, restored, leaked, retired>>

\* unserialize(cp, section), in a simulator started from the checkpoint,
\* whatever became of the one that wrote it.  The CPU is as its constructor
\* left it and the memory system holds nothing; the SimObject state is read
\* from the checkpoint and dropped, BaseSimpleCPU::unserialize restores the
\* status and the thread.  The ports are wired as they were when the
\* checkpoint was written: the script rebuilds that configuration.
unserialize ==
    /\ ckpt # NULL
    /\ simState' = "Running"
    /\ status' = ckpt.status
    /\ threadActive' = ckpt.active
    /\ pc' = ckpt.pc
    /\ retired' = (ckpt.pc + NumPCs - 1) % NumPCs
    /\ ifetch_pkt' = NULL /\ dcache_pkt' = NULL
    /\ fetchEvent' = FALSE /\ drainEvent' = FALSE
    /\ tickPkt' = [p \in Ports |-> NULL]
    /\ instAddr' = NULL
    /\ mem' = [p \in Ports |-> {}]
    /\ retryOwed' = [p \in Ports |-> FALSE]
    /\ peer' = ckpt.peer /\ cachePeer' = ckpt.cachePeer
    /\ restored' = TRUE
    /\ UNCHANGED <<ckpt, leaked>>

-----------------------------------------------------------------------------
Next ==
    \/ FetchEvent_process
    \/ IcachePort_recvTiming
    \/ ITickEvent_process
    \/ IcachePort_recvRetry
    \/ DcachePort_recvTiming
    \/ DTickEvent_process
    \/ DcachePort_recvRetry
    \/ activateContext
    \/ drain
    \/ resume
    \/ switchOut
    \/ takeOverFrom
    \/ OtherTakesOver
    \/ serialize
    \/ unserialize

\* The event queue runs every scheduled event, the memory system answers
\* every packet it accepted, and a peer that owes a retry gives it and ends
\* up accepting the packet (the step of a rejected retry changes nothing, so
\* weak fairness asks for the accepting one).
Fairness ==
    /\ WF_vars(FetchEvent_process)
    /\ WF_vars(IcachePort_recvTiming) /\ WF_vars(ITickEvent_process)
    /\ WF_vars(DcachePort_recvTiming) /\ WF_vars(DTickEvent_process)
    /\ WF_vars(IcachePort_recvRetry) /\ WF_vars(DcachePort_recvRetry)

Spec == Init /\ [][Next]_vars /\ Fairness

-----------------------------------------------------------------------------
(* Properties *)

\* A packet has one owner: no two of the CPU's pointers, the memory system
\* and the tick events hold the same packet.  fetch, read, write and the two
\* recvRetry give up the CPU's pointer when sendTiming returns true; a
\* pointer kept there is deleted twice, once by each holder.
SingleOwner ==
    \A i, j \in DOMAIN Holders : i < j => Holders[i] \cap Holders[j] \subseteq {NULL}

\* The assertions of the callbacks hold whenever the callback can come:
\* completeIfetch and completeDataAccess find the status waiting for that
\* response (and one response only), recvRetry finds the rejected packet and
\* the retry status, and write() finds dcache_pkt NULL when the fetched
\* instruction executes.
CallbackAssertsHold ==
    /\ mem.icache \cup ({tickPkt.icache} \ {NULL}) # {} =>
           /\ status = "IcacheWaitResponse"
           /\ dcache_pkt = NULL
           /\ Cardinality(mem.icache \cup ({tickPkt.icache} \ {NULL})) = 1
    /\ mem.dcache \cup ({tickPkt.dcache} \ {NULL}) # {} =>
           /\ status = "DcacheWaitResponse"
           /\ Cardinality(mem.dcache \cup ({tickPkt.dcache} \ {NULL})) = 1
    /\ retryOwed.icache => ifetch_pkt # NULL /\ status = "IcacheRetry"
    /\ retryOwed.dcache => dcache_pkt # NULL /\ status = "DcacheRetry"

\* drain(): a CPU that reports Drained has no access outstanding and starts
\* none until resume(): nothing is in the memory system or in a tick event,
\* no retry is owed, and the status is one switchOut() accepts.
DrainedIsQuiescent ==
    simState = "Drained" =>
        /\ status \in {"Idle", "Running", "SwitchedOut"}
        /\ Owned \subseteq {ifetch_pkt}
        /\ \A p \in Ports : ~retryOwed[p]

\* takeOverFrom()/switchOut(): a packet in the memory system or a retry owed
\* belongs to a CPU the cache still points at, and a CPU that can send has a
\* peer: no transaction is orphaned by a switch.
NoOrphanedTransaction ==
    /\ \A p \in Ports : mem[p] # {} \/ retryOwed[p] =>
           cachePeer[p] = "self" /\ peer[p] = "cache"
    /\ fetchEvent => peer.icache = "cache" /\ cachePeer.icache = "self"

\* recvRetry: while a port owes a retry, the only packet that may enter the
\* memory system through it is the rejected one, and it enters alone.
RetryBeforeNewer ==
    [][\A p \in Ports :
          retryOwed[p] /\ mem'[p] # mem[p] =>
              mem'[p] = mem[p] \cup {IF p = "icache" THEN ifetch_pkt ELSE dcache_pkt}]_vars

\* drain(): a CPU that had to wait for an access (Draining) gets Drained and
\* has processed the drain event, unless the simulator is given up for one
\* started from a checkpoint.
DrainCompletes ==
    (simState = "Draining") ~> ((simState = "Drained" /\ ~drainEvent) \/ restored)

\* advancePC: instructions complete once each and in stream order.  The PC
\* is the position after the last instruction that completed or faulted, and
\* the instruction being fetched or executed is the one at the PC; a drain
\* between fetch and completion neither skips nor repeats an instruction.
InOrderExecution ==
    /\ pc = Succ(retired)
    /\ instAddr \in {NULL, pc}

\* Every status has its wake-up pending, so the CPU never hangs: waiting
\* for a response, the packet is in the memory system or in the tick event;
\* waiting for a retry, the retry is owed; Running outside a handler, the
\* next fetch is scheduled, unless the CPU is Drained, or just unserialized,
\* and waits for resume().  No wake-up is lost across drain, switch-out,
\* take-over, and a checkpoint (serialize) records no status that waits for
\* something the restored simulator does not have.
NoLostWakeup ==
    /\ status = "IcacheWaitResponse" => mem.icache \cup ({tickPkt.icache} \ {NULL}) # {}
    /\ status = "DcacheWaitResponse" => mem.dcache \cup ({tickPkt.dcache} \ {NULL}) # {}
    /\ status = "IcacheRetry" => retryOwed.icache
    /\ status = "DcacheRetry" => retryOwed.dcache
    /\ status = "Running" /\ simState = "Running" /\ ~restored => fetchEvent

\* Every Packet and Request the CPU allocates stays reachable until it is
\* deleted (spec, lifecycles: pairs are destroyed once consumed).
NoLeak == ~leaked

=============================================================================
