---------------------------- MODULE CacheAtomic ----------------------------
(***************************************************************************)
(* The atomic path of the Cache (src/src/mem/cache/cache_impl.hh):         *)
(* doAtomicAccess, probe with update = true and snoopProbe, next to the    *)
(* timing path of module Cache, and the memory mode of the System          *)
(* (src/src/sim/system.hh) that says which of the two paths the CPU side   *)
(* uses.                                                                   *)
(*                                                                         *)
(* An atomic access resolves before it returns: a miss is fetched with     *)
(* sendAtomic and filled on the spot, writebacks are sent with sendAtomic. *)
(* probe cannot handle a line with an MSHR or a writeback outstanding and  *)
(* panics.  The driver changes the memory mode when the CPU side is        *)
(* drained.                                                                *)
(*                                                                         *)
(* probe with update = false (doFunctionalAccess) changes no state of the  *)
(* cache; it patches the data of the probing packet, which is not modelled *)
(* here.                                                                   *)
(***************************************************************************)
EXTENDS Cache

CONSTANTS
    CacheDrains    \* the driver changes the memory mode only when the cache
                   \* has nothing left to send either

ASSUME CacheDrains \in BOOLEAN

VARIABLES
    memoryMode,    \* System::memoryMode
    sentAtomic,    \* history: what the last atomic access sent with
                   \* memSidePort->sendAtomic, as <<command, line>>
    panicked       \* probe has called panic()

atomicVars == <<memoryMode, sentAtomic, panicked>>
varsA == <<vars, atomicVars>>

MemoryModes == {"timing", "atomic", "atomic_noncaching"}

isAtomicMode == memoryMode \in {"atomic", "atomic_noncaching"}
isTimingMode == memoryMode = "timing"
bypassCaches == memoryMode = "atomic_noncaching"

\* What the CPU side sends atomically: the packets of the timing path, and
\* the upgrade of a cache above this one.
AtomicKinds == Kinds \cup {[cmd |-> "UpgradeReq", full |-> FALSE, locked |-> FALSE]}

TypeOKA ==
    /\ TypeOK
    /\ memoryMode \in MemoryModes
    /\ \A i \in DOMAIN sentAtomic : sentAtomic[i] \in BusCmds \X Addrs
    /\ panicked \in BOOLEAN

InitA ==
    /\ Init
    /\ memoryMode \in MemoryModes
    /\ sentAtomic = <<>>
    /\ panicked = FALSE

-----------------------------------------------------------------------------
(* probe *)

\* The writebacks ws, as the packets sendAtomic carries.
AsPackets(ws) == [i \in DOMAIN ws |-> <<"Writeback", ws[i]>>]

\* The fetch of probe for packet p, replacing v: command cmd goes to the bus
\* with sendAtomic, handleFill puts the line in state st and satisfies p,
\* the writebacks wbsSent go out with sendAtomic, the writebacks wbsQueued
\* to the miss queue.
atomicFill(p, v, cmd, st, wbsSent, wbsQueued) ==
    /\ blk' = [Evict(v) EXCEPT ![p.addr] = Touched(st, p.cmd)]
    /\ sentAtomic' = <<<<cmd, p.addr>>>> \o AsPackets(wbsSent)
    /\ doWriteback(wbsQueued)

\* Mutation of probeFetch: the writebacks of the fill go to the miss queue,
\* as on the timing path.
probeFetch_queuesWritebacks(p, v) ==
    LET temp_cmd == getBusCmd(p.cmd, blk[p.addr]) IN
    atomicFill(p, v, temp_cmd, getNewState(temp_cmd, blk[p.addr]), <<>>, Writebacks(v))

\* Mutation of probeFetch: the writebacks of the fill are forgotten.
probeFetch_dropsWritebacks(p, v) ==
    LET temp_cmd == getBusCmd(p.cmd, blk[p.addr]) IN
    atomicFill(p, v, temp_cmd, getNewState(temp_cmd, blk[p.addr]), <<>>, <<>>)

\* Mutation of probeFetch: the packet's own command goes to the bus, not
\* the command the coherence policy chose.
probeFetch_sendsOwnCmd(p, v) ==
    atomicFill(p, v, p.cmd, getNewState(p.cmd, blk[p.addr]), Writebacks(v), <<>>)

\* Mutation of probeFetch: the line is filled in its old state.
probeFetch_fillsOldState(p, v) ==
    atomicFill(p, v, getBusCmd(p.cmd, blk[p.addr]), blk[p.addr], Writebacks(v), <<>>)

\* probe, the fetch of a line that missed: the bus command is the coherence
\* policy's for the line's state, the line is filled in the state the
\* policy gives for the answer, the victim's writeback is sent at once.
probeFetch(p, v) ==
    LET temp_cmd == getBusCmd(p.cmd, blk[p.addr]) IN
    atomicFill(p, v, temp_cmd, getNewState(temp_cmd, blk[p.addr]), Writebacks(v), <<>>)

\* probe, the miss: with an MSHR or a writeback of the line outstanding
\* probe panics; else the line is fetched.
probeMiss(p) ==
    \/ /\ findMSHR(p.addr) # {} \/ findWrites(p.addr) # {}
       /\ panicked' = TRUE
       /\ UNCHANGED <<blk, wb, masterRequests, sentAtomic>>
    \/ /\ findMSHR(p.addr) = {} /\ findWrites(p.addr) = {}
       /\ \E v \in Victims(p.addr) : probeFetch(p, v)
       /\ UNCHANGED panicked

\* An upgrade or an invalidate from above is satisfied and not forwarded.
satisfiedAbove(c) == isInvalidate(c) /\ ~isRead(c) /\ ~isWrite(c)

\* probe(pkt, update = true): the upgrade from above, the hit, the packet
\* the tags returned SATISFIED, the miss.
probe(p) ==
    LET hit == Permits(blk[p.addr], p.cmd) IN
    \/ /\ satisfiedAbove(p.cmd) \/ (~hit /\ Satisfied(p))
       /\ sentAtomic' = <<>>
       /\ UNCHANGED <<blk, wb, masterRequests, panicked>>
    \/ /\ ~satisfiedAbove(p.cmd) /\ hit
       /\ blk' = [blk EXCEPT ![p.addr] = Touched(@, p.cmd)]
       /\ sentAtomic' = <<>>
       /\ UNCHANGED <<wb, masterRequests, panicked>>
    \/ /\ ~satisfiedAbove(p.cmd) /\ ~hit /\ ~Satisfied(p)
       /\ probeMiss(p)

\* snoopProbe(pkt): the coherence policy's new state is applied to the tags,
\* whether or not this cache supplies the data.
snoopProbe(c, a) ==
    /\ blk' = [blk EXCEPT ![a] = handleBusRequest(c, @).new_state]
    /\ snoopFlags' = IF handleBusRequest(c, blk[a]).satisfy
                     THEN {"SATISFIED", "RESPONDED"} ELSE {}

-----------------------------------------------------------------------------
(* The ports and the driver. *)

\* doAtomicAccess on the CPU side.
CpuSide_recvAtomic(p) ==
    /\ isAtomicMode /\ ~bypassCaches /\ ~panicked
    /\ probe(p)
    /\ UNCHANGED <<mq, pendingList, req, responses, busReqs, snoopFlags, memoryMode>>

\* doAtomicAccess on the memory side, for the request of another agent.
MemSide_recvAtomic(c, a) ==
    /\ isAtomicMode /\ ~panicked
    /\ snoopProbe(c, a)
    /\ UNCHANGED <<mq, pendingList, wb, masterRequests, req, responses, busReqs,
                   atomicVars>>

\* A step of the timing path.
TimingAccess ==
    /\ isTimingMode
    /\ Next
    /\ UNCHANGED atomicVars

\* The CPU side is drained: it waits for no response.
CpuSideDrained == responses = <<>> /\ \A r \in Reqs : req[r] = NULL

\* The cache has nothing to send and waits for nothing.
CacheDrained == masterRequests = {} /\ \A s \in Slots : mq[s] = NULL

\* System::setMemoryMode, called by the driver between drain and resume.
setMemoryMode(mode) ==
    /\ mode # memoryMode
    /\ ~panicked
    /\ CpuSideDrained
    /\ CacheDrains => CacheDrained
    /\ memoryMode' = mode
    /\ sentAtomic' = <<>>
    /\ UNCHANGED <<vars, panicked>>

NextA ==
    \/ TimingAccess
    \/ \E k \in AtomicKinds, a \in Addrs :
          CpuSide_recvAtomic([cmd |-> k.cmd, full |-> k.full, locked |-> k.locked,
                              addr |-> a])
    \/ \E c \in SnoopCmds, a \in Addrs : MemSide_recvAtomic(c, a)
    \/ \E mode \in MemoryModes : setMemoryMode(mode)

SpecA == InitA /\ [][NextA]_varsA

-----------------------------------------------------------------------------
(* Properties *)

\* probe's panic "Atomic access ran into outstanding MSHR's or WB's!" is
\* never reached: no atomic access of the CPU side misses on a line that
\* has an MSHR or a writeback left over from the timing path.
AtomicAccessNeverPanics == ~panicked

\* Dirty data is not dropped on either path: a line loses its dirty bit
\* only in a step that queues its writeback (handleResponse, access), sends
\* it with sendAtomic (probe), or in a snoop that hands the line over
\* (snoop, snoopProbe).
DirtyDataReachesMemory ==
    [][\A a \in Addrs :
          BlkDirty \in blk[a] /\ BlkDirty \notin blk'[a] =>
              \/ wb' = Append(wb, a)
              \/ \E i \in DOMAIN sentAtomic' : sentAtomic'[i] = <<"Writeback", a>>
              \/ \E c \in SnoopCmds : snoop(c, a) \/ snoopProbe(c, a)]_varsA

\* probe with a coherence protocol: a line is written only by its owner,
\* on the atomic path as on the timing path.  It becomes dirty only if it
\* was writable already, or in the step that completes an invalidating
\* request for it, which for probe is the command it sent with sendAtomic.
\* (A writeback from the cache above is the owner's own data.)
AtomicWriteNeedsOwnership ==
    [][HasProtocol =>
          \A a \in Addrs :
              BlkDirty \notin blk[a] /\ BlkDirty \in blk'[a] =>
                  \/ BlkWritable \in blk[a]
                  \/ Acquires(a)
                  \/ \E i \in DOMAIN sentAtomic' :
                        /\ sentAtomic'[i][2] = a
                        /\ \/ isInvalidate(sentAtomic'[i][1])
                           \/ sentAtomic'[i][1] = "Writeback"]_varsA

=============================================================================
