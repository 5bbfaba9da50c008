------------------------------- MODULE Cache -------------------------------
(***************************************************************************)
(* The timing path of one Cache (src/src/mem/cache/cache_impl.hh): access  *)
(* on the CPU side, getPacket/sendResult when the memory-side port sends,  *)
(* handleResponse and snoop on the memory side.                            *)
(*                                                                         *)
(* The collaborators the Cache is a template over are modelled with it,    *)
(* from the specification: the tag store (blk), the miss queue (the MSHRs  *)
(* mq, their pending order and the write buffer wb) and the coherence      *)
(* policy (a single-cache policy without a protocol, or an MSI protocol).  *)
(* The environment is the CPU side, which submits requests and takes the   *)
(* responses, and the bus, which accepts or rejects what the cache sends,  *)
(* answers what it accepted and delivers the snoops of other agents.       *)
(*                                                                         *)
(* A line is its status bits, a request its command and its line address;  *)
(* module CacheData adds the data.  Uncacheable requests and prefetches    *)
(* are left out of this module.                                            *)
(***************************************************************************)
EXTENDS Naturals, Sequences, FiniteSets

CONSTANTS
    Addrs,         \* line addresses
    Reqs,          \* identities of the packets the CPU side sends
    NULL,
    NumMSHRs,      \* entries of the miss queue
    NumTargets,    \* targets of one MSHR before the cache blocks
    WriteBuffers,  \* write buffer entries before the cache blocks
    NumBlocks,     \* lines the tag store holds
    HasProtocol,   \* coherence->hasProtocol(): MSI, else the single-cache policy
    MaxAppended    \* bound of the model: invalidates the snoops of other
                   \* agents append to one MSHR while its fill is in flight

ASSUME /\ NumMSHRs \in Nat \ {0} /\ NumTargets \in Nat \ {0}
       /\ WriteBuffers \in Nat \ {0} /\ NumBlocks \in Nat \ {0}
       /\ HasProtocol \in BOOLEAN /\ MaxAppended \in Nat

Slots == 1 .. NumMSHRs

\* CacheBlk::State
BlkValid == "Valid"
BlkWritable == "Writable"
BlkDirty == "Dirty"
BlkStates == {{}, {BlkValid}, {BlkValid, BlkWritable},
              {BlkValid, BlkWritable, BlkDirty}}

\* What the CPU side sends: the command, whether it covers a whole line,
\* whether it is a store conditional.
Kinds ==
    { [cmd |-> "ReadReq", full |-> FALSE, locked |-> FALSE],
      [cmd |-> "WriteReq", full |-> FALSE, locked |-> FALSE],
      [cmd |-> "WriteReq", full |-> TRUE, locked |-> FALSE],
      [cmd |-> "WriteReq", full |-> FALSE, locked |-> TRUE],
      [cmd |-> "WriteInvalidateReq", full |-> TRUE, locked |-> FALSE],
      [cmd |-> "Writeback", full |-> TRUE, locked |-> FALSE] }

CpuPackets == [cmd : {k.cmd : k \in Kinds}, full : BOOLEAN, locked : BOOLEAN,
               addr : Addrs]

BusCmds == {"ReadReq", "ReadExReq", "UpgradeReq", "WriteInvalidateReq", "Writeback"}
SnoopCmds == {"ReadReq", "ReadExReq", "UpgradeReq", "InvalidateReq",
              "WriteInvalidateReq"}

\* Attributes of the commands (Packet::isRead and so on).
isRead(c) == c \in {"ReadReq", "ReadExReq"}
isWrite(c) == c \in {"WriteReq", "WriteInvalidateReq", "Writeback"}
isInvalidate(c) == c \in {"ReadExReq", "UpgradeReq", "InvalidateReq", "WriteInvalidateReq"}
needsResponse(c) == c \in {"ReadReq", "WriteReq", "ReadExReq", "WriteInvalidateReq"}

\* The target a snoop appends to an MSHR in service (invalidatePkt).
Inval == "InvalidateReq"

VARIABLES
    blk,             \* tags: [line -> status bits]
    mq,              \* missQueue: [slot -> MSHR or NULL]
    pendingList,     \* slots of the MSHRs to send, in order
    wb,              \* write buffer: lines of the writebacks to send, in order
    masterRequests,  \* BaseCache: the causes for which the bus is requested
    req,             \* [packet -> what the CPU side sent and waits for, or NULL]
    responses,       \* responses respond() has scheduled to the CPU side
    busReqs,         \* slots whose request the bus accepted and will answer
    snoopFlags       \* what the last snoop left on the snooped packet

cacheVars == <<blk, mq, pendingList, wb, masterRequests>>
vars == <<cacheVars, req, responses, busReqs, snoopFlags>>

MSHR == [addr : Addrs, cmd : BusCmds \cup {"WriteReq"}, origCmd : {k.cmd : k \in Kinds},
         targets : Seq(Reqs \cup {Inval}), inService : BOOLEAN]

TypeOK ==
    /\ blk \in [Addrs -> BlkStates]
    /\ mq \in [Slots -> MSHR \cup {NULL}]
    /\ pendingList \in Seq(Slots)
    /\ wb \in Seq(Addrs)
    /\ masterRequests \subseteq {"MSHR", "WB"}
    /\ req \in [Reqs -> CpuPackets \cup {NULL}]
    /\ responses \in Seq(Reqs)
    /\ busReqs \subseteq Slots
    /\ snoopFlags \subseteq {"SATISFIED", "NACKED_LINE", "SHARED_LINE", "RESPONDED"}

Init ==
    /\ blk = [a \in Addrs |-> {}]
    /\ mq = [s \in Slots |-> NULL]
    /\ pendingList = <<>>
    /\ wb = <<>>
    /\ masterRequests = {}
    /\ req = [r \in Reqs |-> NULL]
    /\ responses = <<>>
    /\ busReqs = {}
    /\ snoopFlags = {}

-----------------------------------------------------------------------------
(* The tag store. *)

\* What handleAccess and handleFill check before a target is satisfied, and
\* what satisfying it does to the line.
Permits(st, c) == IF isWrite(c) THEN BlkWritable \in st ELSE BlkValid \in st
Touched(st, c) == IF isWrite(c) THEN st \cup {BlkDirty} ELSE st

Frames == {a \in Addrs : blk[a] # {}}

\* The lines handleFill may replace to make room for line a (NULL: none is
\* replaced), the tags without the victim, and the writeback the victim needs.
Victims(a) == IF blk[a] # {} \/ Cardinality(Frames) < NumBlocks THEN {NULL} ELSE Frames
Evict(v) == IF v = NULL THEN blk ELSE [blk EXCEPT ![v] = {}]
Writebacks(v) == IF v # NULL /\ BlkDirty \in blk[v] THEN <<v>> ELSE <<>>

\* handleFill satisfies the targets of the MSHR in order against the line in
\* state st until one the line does not permit; an appended invalidate
\* invalidates the line.  The result: the line's state, the targets
\* satisfied and the targets left.
RECURSIVE ServeTargets(_, _, _)
ServeTargets(ts, st, served) ==
    IF ts = <<>> \/ (Head(ts) # Inval /\ ~Permits(st, req[Head(ts)].cmd))
    THEN [st |-> st, served |-> served, rest |-> ts]
    ELSE IF Head(ts) = Inval
         THEN ServeTargets(Tail(ts), {}, served)
         ELSE ServeTargets(Tail(ts), Touched(st, req[Head(ts)].cmd),
                           Append(served, Head(ts)))

-----------------------------------------------------------------------------
(* The coherence policy. *)

allowFastWrites == ~HasProtocol

getBusCmd(c, st) ==
    IF c = "Writeback" THEN "Writeback"
    ELSE IF ~HasProtocol \/ ~isWrite(c) THEN "ReadReq"
    ELSE IF BlkValid \in st THEN "UpgradeReq"
    ELSE IF c = "WriteInvalidateReq" THEN "WriteInvalidateReq"
    ELSE "ReadExReq"

getNewState(c, st) ==
    IF HasProtocol /\ c = "ReadReq" THEN {BlkValid} ELSE {BlkValid, BlkWritable}

\* handleBusRequest: whether this cache supplies the data (it holds the
\* line dirty and the snoop reads), and the line's new state.
handleBusRequest(c, st) ==
    [satisfy |-> HasProtocol /\ isRead(c) /\ BlkDirty \in st,
     new_state |-> IF isInvalidate(c) THEN {}
                   ELSE IF HasProtocol /\ st # {} THEN {BlkValid} ELSE st]

-----------------------------------------------------------------------------
(* The miss queue. *)

findMSHR(a) == {s \in Slots : mq[s] # NULL /\ mq[s].addr = a}
findWrites(a) == {i \in DOMAIN wb : wb[i] = a}

FreeSlots == {s \in Slots : mq[s] = NULL}

\* BaseCache::isBlocked: no MSHR free, an MSHR with all its targets taken,
\* or the write buffer full.  The CPU-side port refuses requests meanwhile.
Blocked ==
    \/ FreeSlots = {}
    \/ \E s \in Slots : mq[s] # NULL /\ Len(mq[s].targets) >= NumTargets
    \/ Len(wb) >= WriteBuffers

\* doWriteback for each writeback of ws: into the write buffer, and the bus
\* is requested for it.
doWriteback(ws) ==
    /\ wb' = wb \o ws
    /\ masterRequests' = masterRequests \cup (IF ws = <<>> THEN {} ELSE {"WB"})

\* The sequence q without its i-th element.
Without(q, i) == [j \in 1 .. Len(q) - 1 |-> IF j < i THEN q[j] ELSE q[j + 1]]

\* handleMiss: a writeback from above goes to the write buffer; a miss to a
\* line with an MSHR becomes a target of it; another gets the first free
\* MSHR, which is queued for the bus.
handleMiss(r, p) ==
    \/ /\ p.cmd = "Writeback"
       /\ doWriteback(<<p.addr>>)
       /\ UNCHANGED <<mq, pendingList>>
    \/ /\ p.cmd # "Writeback"
       /\ \E s \in findMSHR(p.addr) :
              mq' = [mq EXCEPT ![s].targets = Append(@, r)]
       /\ UNCHANGED <<pendingList, wb, masterRequests>>
    \/ /\ p.cmd # "Writeback"
       /\ findMSHR(p.addr) = {}
       /\ \E s \in FreeSlots :
              /\ \A t \in FreeSlots : s <= t
              /\ mq' = [mq EXCEPT ![s] = [addr |-> p.addr, cmd |-> p.cmd,
                                          origCmd |-> p.cmd, targets |-> <<r>>,
                                          inService |-> FALSE]]
              /\ pendingList' = Append(pendingList, s)
       /\ masterRequests' = masterRequests \cup {"MSHR"}
       /\ UNCHANGED wb

\* MissQueue::getPacket: the first pending MSHR, or a writeback when there
\* is no MSHR to send, the write buffer is full, or a writeback of the same
\* line is pending.  The result is <<"mshr", slot>> or <<"wb", index>>.
mqGetPacket ==
    LET first(S) == CHOOSE i \in S : \A j \in S : i <= j
        conflicts == IF pendingList = <<>> THEN {}
                     ELSE findWrites(mq[Head(pendingList)].addr)
    IN  IF wb # <<>> /\ (pendingList = <<>> \/ Len(wb) >= WriteBuffers)
        THEN <<"wb", 1>>
        ELSE IF conflicts # {} THEN <<"wb", first(conflicts)>>
        ELSE <<"mshr", Head(pendingList)>>

\* markInService of the writeback at index i: it needs no response and
\* leaves the write buffer.
markInService_wb(i) ==
    /\ wb' = Without(wb, i)
    /\ masterRequests' = IF Len(wb) = 1 THEN masterRequests \ {"WB"} ELSE masterRequests

-----------------------------------------------------------------------------
(* The Cache. *)

\* BaseCache::respond: the response is scheduled to the CPU side.
respond(rs) == responses' = responses \o rs

\* Mutation of fastAllocate: the coherence policy is not asked.
fastAllocate_ignoresPolicy(p) ==
    /\ p.full
    /\ p.cmd \in {"WriteReq", "WriteInvalidateReq"}
    /\ (p.cmd = "WriteInvalidateReq" \/ findMSHR(p.addr) = {})

\* access, the fast write-allocate: a write of a whole line that found no
\* block is allocated on the spot when the policy allows it and, unless it
\* is a WriteInvalidateReq, no miss to the line is outstanding (with one,
\* the code warns and allocates).
fastAllocate(p) ==
    /\ p.full /\ allowFastWrites
    /\ p.cmd \in {"WriteReq", "WriteInvalidateReq"}
    /\ (p.cmd = "WriteInvalidateReq" \/ findMSHR(p.addr) = {})

\* The packet comes back from the tags SATISFIED: a store conditional that
\* missed the cache completely and so has failed.
Satisfied(p) == p.locked /\ blk[p.addr] = {}

\* Mutation of miss: the failed store conditional is answered and handed to
\* the miss queue as well (the else is missing).
miss_noElse(r, p) ==
    /\ handleMiss(r, p)
    /\ respond(IF Satisfied(p) THEN <<r>> ELSE <<>>)
    /\ UNCHANGED blk

\* Mutation of miss: the failed store conditional is not answered.
miss_dropsFailedSC(r, p) ==
    \/ /\ Satisfied(p)
       /\ UNCHANGED <<cacheVars, responses>>
    \/ /\ ~Satisfied(p)
       /\ handleMiss(r, p)
       /\ UNCHANGED <<blk, responses>>

\* access, the miss: a satisfied packet is answered, another goes to the
\* miss queue.
miss(r, p) ==
    \/ /\ Satisfied(p)
       /\ respond(<<r>>)
       /\ UNCHANGED cacheVars
    \/ /\ ~Satisfied(p)
       /\ handleMiss(r, p)
       /\ UNCHANGED <<blk, responses>>

\* access(pkt), for the packet r with contents p: a hit is answered, a fast
\* write-allocate fills the line, queues the victim's writeback and is
\* answered as a hit, anything else is a miss.
access(r, p) ==
    LET a == p.addr
        hit == Permits(blk[a], p.cmd)
    IN
    /\ req' = IF needsResponse(p.cmd) THEN [req EXCEPT ![r] = p] ELSE req
    /\ \/ /\ hit
          /\ blk' = [blk EXCEPT ![a] = Touched(@, p.cmd)]
          /\ respond(IF needsResponse(p.cmd) THEN <<r>> ELSE <<>>)
          /\ UNCHANGED <<mq, pendingList, wb, masterRequests>>
       \/ /\ ~hit /\ fastAllocate(p)
          /\ \E v \in Victims(a) :
                /\ blk' = [Evict(v) EXCEPT ![a] = {BlkValid, BlkWritable}]
                /\ doWriteback(Writebacks(v))
          /\ respond(<<r>>)
          /\ UNCHANGED <<mq, pendingList>>
       \/ /\ ~hit /\ ~fastAllocate(p)
          /\ miss(r, p)

\* Mutation of getPacket: the bus command is not set, the MSHR goes out with
\* the command of the CPU's packet.
getPacket_noSetBusCmd ==
    [wb |-> mqGetPacket[1] = "wb", at |-> mqGetPacket[2], mq |-> mq]

\* getPacket(): what the miss queue has to send; for an MSHR the bus command
\* is computed from the line's state now, and setBusCmd keeps the command
\* it replaces.  The result: the writeback or MSHR chosen and the miss
\* queue after setBusCmd.
getPacket ==
    LET sel == mqGetPacket
        s == sel[2]
    IN  IF sel[1] = "wb"
        THEN [wb |-> TRUE, at |-> s, mq |-> mq]
        ELSE [wb |-> FALSE, at |-> s,
              mq |-> [mq EXCEPT ![s].origCmd = mq[s].cmd,
                                ![s].cmd = getBusCmd(mq[s].cmd, blk[mq[s].addr])]]

\* The pending list and the bus request once the first pending MSHR is marked
\* in service.
markInService ==
    /\ pendingList' = Tail(pendingList)
    /\ masterRequests' = IF Len(pendingList) = 1 THEN masterRequests \ {"MSHR"}
                         ELSE masterRequests

\* sendResult when the packet was sent: a writeback leaves the write buffer;
\* an MSHR is marked in service; an upgrade, which gets no response, is
\* completed here: the line takes its new state and the targets are served,
\* and the MSHR is freed or, with targets left, goes to the end of the
\* pending list for the first of them.
sent(g) ==
    LET s == g.at
        e == g.mq[s]
        res == ServeTargets(e.targets, getNewState(e.cmd, blk[e.addr]), <<>>)
    IN
    \/ /\ g.wb
       /\ markInService_wb(s)
       /\ UNCHANGED <<blk, mq, pendingList, responses>>
    \/ /\ ~g.wb /\ e.cmd # "UpgradeReq"
       /\ markInService
       /\ mq' = [g.mq EXCEPT ![s].inService = TRUE]
       /\ UNCHANGED <<blk, wb, responses>>
    \/ /\ ~g.wb /\ e.cmd = "UpgradeReq"
       /\ blk' = [blk EXCEPT ![e.addr] = res.st]
       /\ respond(res.served)
       /\ \/ /\ res.rest = <<>>
             /\ markInService
             /\ mq' = [g.mq EXCEPT ![s] = NULL]
          \/ /\ res.rest # <<>>
             /\ mq' = [g.mq EXCEPT ![s].targets = res.rest,
                                   ![s].cmd = req[Head(res.rest)].cmd]
             /\ pendingList' = Append(Tail(pendingList), s)
             /\ UNCHANGED masterRequests
       /\ UNCHANGED wb

\* Mutation of sendResult: restoreOrigCmd is left out, the MSHR keeps the
\* bus command of the send that failed.
notSent_keepsBusCmd(g) ==
    /\ mq' = IF g.wb THEN mq ELSE g.mq
    /\ UNCHANGED <<blk, pendingList, wb, masterRequests, responses>>

\* sendResult when it was not: the MSHR gets back the command setBusCmd
\* replaced and stays pending.
notSent(g) ==
    /\ mq' = IF g.wb THEN mq ELSE [g.mq EXCEPT ![g.at].cmd = g.mq[g.at].origCmd]
    /\ UNCHANGED <<blk, pendingList, wb, masterRequests, responses>>

\* Mutation of sendResult: NACKED_LINE is not looked at.
sendResult_ignoresNack(g, success, nacked) ==
    \/ success /\ sent(g)
    \/ ~success /\ notSent(g)

\* sendResult(pkt, mshr, success) for the packet g that getPacket returned;
\* nacked: a snooper flagged the packet NACKED_LINE.
sendResult(g, success, nacked) ==
    \/ success /\ ~nacked /\ sent(g)
    \/ ~(success /\ ~nacked) /\ notSent(g)

\* handleResponse for a fill that replaces v and leaves the writebacks ws:
\* the line takes its new state, the writebacks are queued, the targets
\* served are answered; an MSHR with targets left is made pending again for
\* the first of them, another is freed.
filled(s, res, v, ws) ==
    /\ blk' = [Evict(v) EXCEPT ![mq[s].addr] = res.st]
    /\ wb' = wb \o ws
    /\ masterRequests' = masterRequests
           \cup (IF ws = <<>> THEN {} ELSE {"WB"})
           \cup (IF res.rest = <<>> THEN {} ELSE {"MSHR"})
    /\ respond(res.served)
    /\ \/ /\ res.rest = <<>>
          /\ mq' = [mq EXCEPT ![s] = NULL]
          /\ UNCHANGED pendingList
       \/ /\ res.rest # <<>>
          /\ mq' = [mq EXCEPT ![s].targets = res.rest, ![s].inService = FALSE,
                              ![s].cmd = req[Head(res.rest)].cmd]
          /\ pendingList' = Append(pendingList, s)

\* What the targets of MSHR s get from its fill.
Fill(s) == ServeTargets(mq[s].targets, getNewState(mq[s].cmd, blk[mq[s].addr]), <<>>)

\* Mutation of handleResponse: the writebacks of the fill are not passed on
\* to the miss queue.
handleResponse_dropsWritebacks(s, result) ==
    \/ /\ result = "Nacked"
       /\ UNCHANGED <<cacheVars, responses>>
    \/ /\ result = "Success"
       /\ \E v \in Victims(mq[s].addr) : filled(s, Fill(s), v, <<>>)

\* handleResponse(pkt) for the response to the request of MSHR s.  A Nacked
\* response is warned about and dropped.
handleResponse(s, result) ==
    \/ /\ result = "Nacked"
       /\ UNCHANGED <<cacheVars, responses>>
    \/ /\ result = "Success"
       /\ \E v \in Victims(mq[s].addr) : filled(s, Fill(s), v, Writebacks(v))

\* The snoop is NACKed: the request in service is itself an invalidate and
\* the snoop is not one that only invalidates.
Nacks(c, s) ==
    isInvalidate(mq[s].cmd) /\ c \notin {"InvalidateReq", "WriteInvalidateReq"}

\* Mutations of addTarget: nothing is appended to the MSHR; the snooped
\* packet is appended, not the cache's invalidatePkt.
addTarget_dropped(ts, c) == ts
addTarget_snooped(ts, c) == Append(ts, c)

\* missQueue->addTarget(mshr, invalidatePkt) for the snoop with command c.
addTarget(ts, c) == Append(ts, Inval)

\* snoop, when the line's MSHR s is in service: the snoop is NACKed, or an
\* invalidate is appended to the MSHR's targets.
snoopInService(c, s) ==
    /\ snoopFlags' = IF Nacks(c, s) THEN {"SATISFIED", "NACKED_LINE"} ELSE {}
    /\ mq' = IF Nacks(c, s) THEN mq ELSE [mq EXCEPT ![s].targets = addTarget(@, c)]
    /\ UNCHANGED <<blk, pendingList, wb, masterRequests, responses>>

\* The data a snooped read is given by the cache that holds it modified.
supply(c, flags) == IF isRead(c) THEN {"SATISFIED", "RESPONDED"} \cup flags ELSE {}

\* Mutation of snoopWrites: an invalidating snoop leaves the writeback in the
\* write buffer.
snoopWrites_keepsWriteback(c, writes) ==
    /\ snoopFlags' = supply(c, {"SHARED_LINE"})
    /\ UNCHANGED <<wb, masterRequests>>

\* snoop, when writebacks of the line wait in the write buffer: the first
\* supplies a read, and an invalidate takes it out of the buffer.
snoopWrites(c, writes) ==
    /\ snoopFlags' = supply(c, {"SHARED_LINE"})
    /\ IF isInvalidate(c)
       THEN markInService_wb(CHOOSE i \in writes : \A j \in writes : i <= j)
       ELSE UNCHANGED <<wb, masterRequests>>

\* snoop(pkt) for a snoop with command c of line a: it meets an MSHR in
\* service, else a writeback of the line in the write buffer, else the tags.
snoop(c, a) ==
    LET inService == {s \in findMSHR(a) : mq[s].inService}
        protocol == HasProtocol \/ isInvalidate(c)
        writes == findWrites(a)
        bus == handleBusRequest(c, blk[a])
    IN
    \/ /\ protocol
       /\ \E s \in inService : snoopInService(c, s)
    \/ /\ protocol /\ inService = {} /\ writes # {}
       /\ snoopWrites(c, writes)
       /\ UNCHANGED <<blk, mq, pendingList, responses>>
    \/ /\ ~protocol \/ (inService = {} /\ writes = {})
       /\ blk' = [blk EXCEPT ![a] = bus.new_state]
       /\ snoopFlags' = IF bus.satisfy THEN {"SATISFIED", "RESPONDED"} ELSE {}
       /\ UNCHANGED <<mq, pendingList, wb, masterRequests, responses>>

-----------------------------------------------------------------------------
(* The ports: doTimingAccess on either side, and the memory-side send. *)

\* doTimingAccess on the CPU side: the CPU-side port takes a request unless
\* the cache is blocked.
CpuSide_recvTiming(r, p) ==
    /\ req[r] = NULL
    /\ ~Blocked
    /\ access(r, p)
    /\ UNCHANGED <<busReqs, snoopFlags>>

\* doTimingAccess on the memory side, for a response.
MemSide_recvResponse(s, result) ==
    /\ s \in busReqs
    /\ busReqs' = busReqs \ {s}
    /\ handleResponse(s, result)
    /\ UNCHANGED <<req, snoopFlags>>

\* The snoop with command c appends an invalidate to MSHR s.
Appends(c, s) ==
    (HasProtocol \/ isInvalidate(c)) /\ mq[s].inService /\ ~Nacks(c, s)

\* doTimingAccess on the memory side, for a request another agent put on
\* the bus: snooped only in the commit phase.  The model bounds the
\* invalidates appended to one MSHR by MaxAppended.
MemSide_recvSnoop(c, a, commit) ==
    /\ \A s \in findMSHR(a) :
          commit /\ Appends(c, s) =>
              Cardinality({i \in DOMAIN mq[s].targets : mq[s].targets[i] = Inval})
                  < MaxAppended
    /\ IF commit THEN snoop(c, a)
                 ELSE UNCHANGED <<cacheVars, responses, snoopFlags>>
    /\ UNCHANGED <<req, busReqs>>

\* The bus answers the request g it took: a read or a whole-line write of an
\* MSHR, not a writeback or an upgrade.
Answers(g) == ~g.wb /\ needsResponse(g.mq[g.at].cmd)

\* The memory-side port got the bus: getPacket, sendTiming, sendResult.
MemSide_send(success, nacked) ==
    /\ masterRequests # {}
    /\ sendResult(getPacket, success, nacked)
    /\ busReqs' = IF success /\ ~nacked /\ Answers(getPacket)
                  THEN busReqs \cup {getPacket.at} ELSE busReqs
    /\ UNCHANGED <<req, snoopFlags>>

\* The CPU side takes the first response.
CpuSide_sendResponse ==
    /\ responses # <<>>
    /\ responses' = Tail(responses)
    /\ req' = [req EXCEPT ![Head(responses)] = NULL]
    /\ UNCHANGED <<cacheVars, busReqs, snoopFlags>>

Next ==
    \/ \E r \in Reqs, k \in Kinds, a \in Addrs :
          CpuSide_recvTiming(r, [cmd |-> k.cmd, full |-> k.full, locked |-> k.locked,
                                 addr |-> a])
    \/ \E success \in BOOLEAN, nacked \in BOOLEAN : MemSide_send(success, nacked)
    \/ \E s \in Slots : MemSide_recvResponse(s, "Success")
    \/ \E c \in SnoopCmds, a \in Addrs, commit \in BOOLEAN : MemSide_recvSnoop(c, a, commit)
    \/ CpuSide_sendResponse

Spec == Init /\ [][Next]_vars

-----------------------------------------------------------------------------
(* Properties *)

\* getPacket/sendResult/handleResponse: an MSHR that waits for the bus
\* carries the command of the CPU's packet it will be sent for, its first
\* target.  A send the bus refused or a snooper NACKed leaves no bus command
\* behind (restoreOrigCmd), and an MSHR made pending again after a fill or
\* an upgrade that did not serve all its targets takes the command of the
\* first one left: the next getPacket computes the bus command from what
\* the CPU asked and the line's state then, not from a command computed
\* for a state the line has left since.
PendingMissKeepsItsCommand ==
    \A s \in Slots :
        mq[s] # NULL /\ ~mq[s].inService =>
            /\ Head(mq[s].targets) \in Reqs
            /\ mq[s].cmd = req[Head(mq[s].targets)].cmd

\* Where the packet r of the CPU side is: the targets of the MSHRs and the
\* responses that hold it.
Places(r) ==
    UNION {{<<s, i>> : i \in {j \in DOMAIN mq[s].targets : mq[s].targets[j] = r}} :
               s \in {t \in Slots : mq[t] # NULL}}
        \cup {<<0, i>> : i \in {j \in DOMAIN responses : responses[j] = r}}

\* access/handleResponse/sendResult: a request that needs a response is, until
\* the CPU side has taken the response, either one target of one MSHR or one
\* scheduled response, never both, never twice, never nowhere; and nothing
\* answers a request that is not outstanding.
EachRequestInOnePlace ==
    \A r \in Reqs : Cardinality(Places(r)) = IF req[r] = NULL THEN 0 ELSE 1

\* sendResult/handleResponse/markInService: an MSHR is in service exactly
\* while the bus owes the answer to its request, and is otherwise queued to
\* be sent, once, with the bus requested; a writeback in the write buffer has
\* the bus requested.  No miss is left that nothing will ever send or answer.
NoStuckMiss ==
    /\ \A s \in Slots :
          /\ s \in busReqs <=> mq[s] # NULL /\ mq[s].inService
          /\ Cardinality({i \in DOMAIN pendingList : pendingList[i] = s})
                = IF mq[s] # NULL /\ ~mq[s].inService THEN 1 ELSE 0
    /\ "MSHR" \in masterRequests <=> pendingList # <<>>
    /\ "WB" \in masterRequests <=> wb # <<>>

\* access: a line whose miss is outstanding is not made writable behind the
\* miss (the fill would overwrite what was written to it): a whole-line write
\* is not fast-allocated over an outstanding miss.
MissedLineNotWritable ==
    \A s \in Slots : mq[s] # NULL => BlkWritable \notin blk[mq[s].addr]

\* access/handleResponse, the loops over writebacks: a line that is dirty
\* before a step and not after it lost its data to the write buffer (the
\* victim's writeback is queued in the step that replaces it) or to a snoop
\* of another agent, which takes the data or the ownership.  The property
\* compares the tags before and after a step: a store that handleFill
\* serves and an appended invalidate drops within one fill is outside it
\* (that loss is the subject of WritebackIsHandedOver in CacheBus).
DirtyEvictionWritesBack ==
    [][\A a \in Addrs :
          BlkDirty \in blk[a] /\ BlkDirty \notin blk'[a] =>
              \/ wb' = Append(wb, a)
              \/ \E c \in SnoopCmds : snoop(c, a)]_vars

\* The bus saw this cache ask for line a with a command that invalidates the
\* other copies, in the request that completes now: the fill of an MSHR in
\* service, or the upgrade getPacket hands to sendResult.
Acquires(a) ==
    \E s \in findMSHR(a) :
        isInvalidate(IF mq[s].inService THEN mq[s].cmd ELSE getPacket.mq[s].cmd)

\* getPacket/sendResult/handleResponse with a coherence protocol: a line is
\* written only by its owner.  It becomes dirty only if it was writable
\* already or in the step that completes an invalidating request for it;
\* a write that missed is never sent as a plain read or with the command of
\* the CPU's packet.
WriteNeedsOwnership ==
    [][HasProtocol =>
          \A a \in Addrs :
              BlkDirty \notin blk[a] /\ BlkDirty \in blk'[a] =>
                  BlkWritable \in blk[a] \/ Acquires(a)]_vars

=============================================================================
