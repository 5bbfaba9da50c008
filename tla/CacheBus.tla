------------------------------ MODULE CacheBus ------------------------------
(***************************************************************************)
(* Two Caches (src/src/mem/cache/cache_impl.hh) with the MSI protocol on   *)
(* one snooping bus, each under a CPU side of its own.                     *)
(*                                                                         *)
(* Module Cache is taken twice, as it is.  What it leaves to the bus is    *)
(* here decided by the other cache: the packet getPacket hands to the      *)
(* memory-side port of one cache is, in the same step, the snoop of the    *)
(* other, and the NACKED_LINE flag that snoop leaves on the packet is what *)
(* sendResult of the sender sees.  The memory below, or the cache that     *)
(* supplied the line, answers every packet that was sent and not NACKed.   *)
(* Lines are their status bits, as in module Cache.                        *)
(***************************************************************************)
EXTENDS Naturals, Sequences, FiniteSets

CONSTANTS Addrs, ReqsA, ReqsB, NULL, NumMSHRs, NumTargets, WriteBuffers, NumBlocks,
          MaxAppended

VARIABLES
    blkA, mqA, pendingListA, wbA, masterRequestsA, reqA, responsesA, busReqsA, snoopFlagsA,
    blkB, mqB, pendingListB, wbB, masterRequestsB, reqB, responsesB, busReqsB, snoopFlagsB

A == INSTANCE Cache WITH
        Reqs <- ReqsA, HasProtocol <- TRUE,
        blk <- blkA, mq <- mqA, pendingList <- pendingListA, wb <- wbA,
        masterRequests <- masterRequestsA, req <- reqA, responses <- responsesA,
        busReqs <- busReqsA, snoopFlags <- snoopFlagsA
B == INSTANCE Cache WITH
        Reqs <- ReqsB, HasProtocol <- TRUE,
        blk <- blkB, mq <- mqB, pendingList <- pendingListB, wb <- wbB,
        masterRequests <- masterRequestsB, req <- reqB, responses <- responsesB,
        busReqs <- busReqsB, snoopFlags <- snoopFlagsB

cacheA == <<blkA, mqA, pendingListA, wbA, masterRequestsA, reqA, responsesA, busReqsA, snoopFlagsA>>
cacheB == <<blkB, mqB, pendingListB, wbB, masterRequestsB, reqB, responsesB, busReqsB, snoopFlagsB>>
vars == <<cacheA, cacheB>>

TypeOK == A!TypeOK /\ B!TypeOK

Init == A!Init /\ B!Init

-----------------------------------------------------------------------------
(* The CPU sides. *)

\* What a CPU sends to its data cache: loads and stores of less than a line.
DataKinds == {k \in A!Kinds : k.cmd \in {"ReadReq", "WriteReq"} /\ ~k.full /\ ~k.locked}

Packet(k, a) == [cmd |-> k.cmd, full |-> k.full, locked |-> k.locked, addr |-> a]

A_recvTiming == \E r \in ReqsA, k \in DataKinds, a \in Addrs :
                    A!CpuSide_recvTiming(r, Packet(k, a)) /\ UNCHANGED cacheB
B_recvTiming == \E r \in ReqsB, k \in DataKinds, a \in Addrs :
                    B!CpuSide_recvTiming(r, Packet(k, a)) /\ UNCHANGED cacheA

A_sendResponse == A!CpuSide_sendResponse /\ UNCHANGED cacheB
B_sendResponse == B!CpuSide_sendResponse /\ UNCHANGED cacheA

-----------------------------------------------------------------------------
(* The bus. *)

\* The packet g of getPacket as the bus and the snoopers see it: its command
\* and its line, for a writeback w[g.at] of the write buffer w.
OnBus(g, w) == [cmd |-> IF g.wb THEN "Writeback" ELSE g.mq[g.at].cmd,
                addr |-> IF g.wb THEN w[g.at] ELSE g.mq[g.at].addr]

\* Bus::recvTiming for the packet of cache A: the bus is free, cache B
\* snoops the packet, and sendTiming returns to A's sendResult with the
\* flags the snoop has set.
A_send ==
    /\ masterRequestsA # {}
    /\ LET pkt == OnBus(A!getPacket, wbA) IN B!MemSide_recvSnoop(pkt.cmd, pkt.addr, TRUE)
    /\ A!MemSide_send(TRUE, "NACKED_LINE" \in snoopFlagsB')

B_send ==
    /\ masterRequestsB # {}
    /\ LET pkt == OnBus(B!getPacket, wbB) IN A!MemSide_recvSnoop(pkt.cmd, pkt.addr, TRUE)
    /\ B!MemSide_send(TRUE, "NACKED_LINE" \in snoopFlagsA')

\* The response to a packet the bus delivered, from the memory or from the
\* cache that supplied the line.
A_recvResponse == \E s \in A!Slots : A!MemSide_recvResponse(s, "Success") /\ UNCHANGED cacheB
B_recvResponse == \E s \in B!Slots : B!MemSide_recvResponse(s, "Success") /\ UNCHANGED cacheA

Next ==
    \/ A_recvTiming \/ A_send \/ A_recvResponse \/ A_sendResponse
    \/ B_recvTiming \/ B_send \/ B_recvResponse \/ B_sendResponse

Spec == Init /\ [][Next]_vars

-----------------------------------------------------------------------------
(* Properties *)

\* The fill of line a in flight in a cache with miss queue q will leave no
\* copy: an invalidate waits among the targets of the line's MSHR.
Doomed(q, a) ==
    \E s \in DOMAIN q : /\ q[s] # NULL /\ q[s].addr = a
                         /\ \E i \in DOMAIN q[s].targets : q[s].targets[i] = A!Inval

\* The lines writable in the cache with tags w and present in the other
\* cache, with tags o.
Shared(w, o) == {a \in Addrs : A!BlkWritable \in w[a] /\ o[a] # {}}

\* snoop/handleResponse of two caches: a copy of a line the other cache
\* may write is at least on its way out: the invalidate appended for the
\* writer's request is still a target of the line's MSHR.
StaleCopyIsInvalidated ==
    /\ \A a \in Shared(blkA, blkB) : Doomed(mqB, a)
    /\ \A a \in Shared(blkB, blkA) : Doomed(mqA, a)

\* The lines a cache with miss queue q has asked to own and waits for.
Acquiring(q) ==
    {q[s].addr : s \in {t \in DOMAIN q : q[t] # NULL /\ q[t].inService
                                          /\ A!isInvalidate(q[t].cmd)}}

\* snoop/sendResult of two caches: the requests for the ownership of a line
\* are serialised.  While one cache waits for the line it asked to own, the
\* request of the other is NACKed and stays pending: the two fills would
\* leave two owners.
OwnershipSerialized == Acquiring(mqA) \cap Acquiring(mqB) = {}

\* Line a is modified in the cache with tags b and write buffer w: the block
\* is dirty, or a writeback of it waits for the bus.
Modified(b, w, a) == A!BlkDirty \in b[a] \/ \E i \in DOMAIN w : w[i] = a

\* snoop/handleBusRequest/markInService of two caches: modified data of a
\* line has one home.  While one cache holds a line dirty, or its writeback
\* in the write buffer, the other holds no modified data of the line and may
\* not write it: the stale copy the appended invalidate leaves for a while
\* is never a second version of the data.
ModifiedInOneCache ==
    \A a \in Addrs :
        /\ Modified(blkA, wbA, a) => ~Modified(blkB, wbB, a) /\ A!BlkWritable \notin blkB[a]
        /\ Modified(blkB, wbB, a) => A!BlkWritable \notin blkA[a]

\* The lines with fewer writebacks in the write buffer v than in w.
TakenOut(w, v) ==
    {a \in Addrs : Cardinality({i \in DOMAIN v : v[i] = a}) < Cardinality({i \in DOMAIN w : w[i] = a})}

\* The cache with tags b and miss queue q answers for the modified data of
\* line a: it holds the line dirty, or waits for the line it asked to own.
TakesOver(b, q, a) == A!BlkDirty \in b[a] \/ a \in Acquiring(q)

\* snoop/markInService/sendResult of two caches: a writeback is "queued
\* until the next level accepts it".  The snoop of an invalidating packet
\* takes a writeback out of the write buffer only for a sender that takes
\* the modified data over ("this must be an upgrade or other cache will
\* take ownership"): after the step the sender holds the line dirty, or
\* waits for the fill of the line it asked to own.
WritebackIsHandedOver ==
    [][/\ B_send => \A a \in TakenOut(wbA, wbA') : TakesOver(blkB', mqB', a)
       /\ A_send => \A a \in TakenOut(wbB, wbB') : TakesOver(blkA', mqA', a)]_vars

=============================================================================
