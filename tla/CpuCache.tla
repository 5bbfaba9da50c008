------------------------------ MODULE CpuCache ------------------------------
(***************************************************************************)
(* TimingSimpleCPU with its data cache: the dcache port of the CPU         *)
(* (src/src/cpu/simple/timing.cc) bound to the CPU side of a Cache         *)
(* (src/src/mem/cache/cache_impl.hh).                                      *)
(*                                                                         *)
(* Both modules are taken as they are.  What each of them leaves to its    *)
(* environment is here decided by the other: a sendTiming of the CPU is    *)
(* accepted when the cache is not blocked and is then the cache's access;  *)
(* a response the cache has scheduled is the CPU's recvTiming; the retry   *)
(* comes when the cache can take the packet.  A call of one component into *)
(* the other is one step, as it is one call chain in the code.  The icache *)
(* port keeps the abstract memory system of module TimingCPU, and the      *)
(* memory side of the cache the bus of module Cache, without other agents. *)
(* The CPU is the one wired to the cache for the whole behaviour: the      *)
(* replacement of the CPU and checkpoints are checked in module TimingCPU. *)
(***************************************************************************)
EXTENDS Naturals, Sequences, FiniteSets

CONSTANTS
    Packets, NULL, SimRunsWhileDrained, NumPCs,               \* of TimingCPU
    Addrs, NumMSHRs, NumTargets, WriteBuffers, NumBlocks,     \* of Cache
    HasProtocol, MaxAppended

VARIABLES
    status, simState, ifetch_pkt, dcache_pkt, fetchEvent, drainEvent, tickPkt,
    threadActive, pc, instAddr, peer, cachePeer, mem, retryOwed, leaked, ckpt,
    restored, retired,
    blk, mq, pendingList, wb, masterRequests, req, responses, busReqs,
    snoopFlags

CPU == INSTANCE TimingCPU
DC == INSTANCE Cache WITH Reqs <- Packets

cpu == <<status, simState, ifetch_pkt, dcache_pkt, fetchEvent, drainEvent, tickPkt,
         threadActive, pc, instAddr, peer, cachePeer, mem, retryOwed, leaked, ckpt,
         restored, retired>>
cache == <<blk, mq, pendingList, wb, masterRequests, req, responses, busReqs,
           snoopFlags>>
vars == <<cpu, cache>>

TypeOK == CPU!TypeOK /\ DC!TypeOK

Init ==
    /\ CPU!Init
    /\ peer = [p \in CPU!Ports |-> "cache"]
    /\ DC!Init

-----------------------------------------------------------------------------
(* The dcache port and the CPU-side port of the cache. *)

\* What read() and write() send: loads, stores and store conditionals of
\* less than a line.
DataKinds == {k \in DC!Kinds : k.cmd \in {"ReadReq", "WriteReq"} /\ ~k.full}

\* dcachePort.sendTiming in this step of the CPU: nothing was sent; the
\* packet was refused, by a cache that is blocked; or the cache took it,
\* and has run access on it.
Dcache_sendTiming ==
    LET taken == mem'.dcache \ mem.dcache
        refused == retryOwed'.dcache /\ ~retryOwed.dcache
    IN  \/ /\ taken = {} /\ ~refused
           /\ UNCHANGED cache
        \/ /\ refused /\ DC!Blocked
           /\ UNCHANGED cache
        \/ \E q \in taken, k \in DataKinds, a \in Addrs :
              DC!CpuSide_recvTiming(q, [cmd |-> k.cmd, full |-> k.full,
                                        locked |-> k.locked, addr |-> a])

\* The response event of the cache's CPU-side port: the first response
\* scheduled is the packet of the CPU's recvTiming.
Dcache_sendResponse ==
    /\ DC!CpuSide_sendResponse
    /\ CPU!DcachePort_recvTiming
    /\ mem.dcache \ mem'.dcache = {Head(responses)}

\* The cache is no longer blocked and gives the retry it owes: the CPU
\* sends the packet it kept.
Dcache_sendRetry ==
    /\ ~DC!Blocked
    /\ CPU!DcachePort_recvRetry
    /\ Dcache_sendTiming

-----------------------------------------------------------------------------
(* The steps of the CPU and of the cache. *)

\* An instruction arrives and executes: its data access goes to the cache.
IcachePort_recvTiming == CPU!IcachePort_recvTiming /\ Dcache_sendTiming
ITickEvent_process == CPU!ITickEvent_process /\ Dcache_sendTiming

\* The steps of the CPU that send nothing to the data cache.
FetchEvent_process == CPU!FetchEvent_process /\ UNCHANGED cache
IcachePort_recvRetry == CPU!IcachePort_recvRetry /\ UNCHANGED cache
DTickEvent_process == CPU!DTickEvent_process /\ UNCHANGED cache
activateContext == CPU!activateContext /\ UNCHANGED cache
drain == CPU!drain /\ UNCHANGED cache
resume == CPU!resume /\ UNCHANGED cache

\* The memory side of the cache.
MemSide_send(success) == DC!MemSide_send(success, FALSE) /\ UNCHANGED cpu
MemSide_recvResponse(s) == DC!MemSide_recvResponse(s, "Success") /\ UNCHANGED cpu

Next ==
    \/ FetchEvent_process
    \/ IcachePort_recvTiming
    \/ ITickEvent_process
    \/ IcachePort_recvRetry
    \/ Dcache_sendResponse
    \/ DTickEvent_process
    \/ Dcache_sendRetry
    \/ activateContext
    \/ drain
    \/ resume
    \/ \E success \in BOOLEAN : MemSide_send(success)
    \/ \E s \in DC!Slots : MemSide_recvResponse(s)

\* The event queue runs every scheduled event; the instruction memory and
\* the bus answer what they accepted and end up accepting what is sent.
\* Nothing is assumed of the data side of the CPU: the cache provides it.
Fairness ==
    /\ WF_vars(FetchEvent_process)
    /\ WF_vars(IcachePort_recvTiming) /\ WF_vars(ITickEvent_process)
    /\ WF_vars(IcachePort_recvRetry)
    /\ WF_vars(DTickEvent_process)
    /\ WF_vars(Dcache_sendResponse)
    /\ WF_vars(Dcache_sendRetry)
    /\ WF_vars(MemSide_send(TRUE))
    /\ \A s \in DC!Slots : WF_vars(MemSide_recvResponse(s))

Spec == Init /\ [][Next]_vars /\ Fairness

-----------------------------------------------------------------------------
(* Properties *)

\* DcachePort::recvTiming/respond: the CPU and the cache agree on what is
\* outstanding.  The packets the CPU has given to the memory system are
\* exactly the requests the cache still owes an answer; the cache keeps no
\* target that the CPU has completed and deleted; and a response the cache
\* has scheduled finds the CPU waiting for it, with the event queue running
\* and the port's tick event free: the assertions of completeDataAccess
\* hold for the cache the CPU really has, through rejected sends, retries
\* and drains.
CacheAnswersTheWaitingCpu ==
    /\ mem.dcache = {r \in Packets : req[r] # NULL}
    /\ \A s \in DC!Slots : mq[s] # NULL =>
           \A i \in DOMAIN mq[s].targets : mq[s].targets[i] \in mem.dcache
    /\ responses # <<>> =>
           /\ status = "DcacheWaitResponse"
           /\ CPU!EventsRun
           /\ tickPkt.dcache = NULL

\* drain()/access: a CPU that has reported Drained has left no miss in its
\* cache: no MSHR, no request on the bus, no response scheduled.  What it
\* may leave is writebacks in the write buffer, which need no response.
DrainedLeavesOnlyWritebacks ==
    simState = "Drained" =>
        /\ \A s \in DC!Slots : mq[s] = NULL
        /\ busReqs = {} /\ responses = <<>>

\* read/write/recvRetry against access/sendResult/handleResponse: every data
\* access of the CPU completes, and with it every drain that waits for one,
\* although the cache refuses packets while its write buffer is full: the
\* retry the cache owes comes, the miss is sent after the writeback, the
\* fill is answered.  The fairness TimingCPU assumes of its data side is
\* what the cache does.
DataAccessCompletes ==
    /\ (status \in {"DcacheRetry", "DcacheWaitResponse"})
           ~> (status \notin {"DcacheRetry", "DcacheWaitResponse"})
    /\ (simState = "Draining") ~> (simState = "Drained" /\ ~drainEvent)

=============================================================================
