----------------------------- MODULE CacheData -----------------------------
(***************************************************************************)
(* The Cache of module Cache with the data it moves, and its functional    *)
(* path (doFunctionalAccess, and probe without update, of                  *)
(* src/src/mem/cache/cache_impl.hh).                                       *)
(*                                                                         *)
(* A line is one value.  The control is that of module Cache, step for     *)
(* step; each step is extended by what it does to the data: of the lines   *)
(* in the tags, of the writebacks in the write buffer, of the requests in  *)
(* the targets, of the fill the bus has in flight, of the memory below.    *)
(* The agent on the CPU side is a CPU: it reads and writes, and needs an   *)
(* answer to both.  No other agent is on the bus and no device answers     *)
(* Nacked, so that the cache and the memory below it are one memory to the *)
(* CPU side: the specification LineMemory, which this module implements.   *)
(***************************************************************************)
EXTENDS Cache, SequencesExt

CONSTANT Values     \* what a line holds

ASSUME Values \subseteq Nat /\ 0 \in Values

VARIABLES
    val,      \* tags: [line -> the data of the block, NULL without one]
    wbVal,    \* the data of the writebacks in wb, in the same order
    memVal,   \* the memory below: [line -> data]
    busVal,   \* [slot -> the data of the fill the bus has in flight, or NULL]
    data      \* [packet -> the data it writes, or has read once answered]

dataVars == <<val, wbVal, memVal, busVal, data>>
varsD == <<vars, dataVars>>

\* What a CPU sends.
CpuKinds == {k \in Kinds : k.cmd \in {"ReadReq", "WriteReq"}}

TypeOKD ==
    /\ TypeOK
    /\ val \in [Addrs -> Values \cup {NULL}]
    /\ \A a \in Addrs : val[a] = NULL <=> blk[a] = {}
    /\ wbVal \in Seq(Values) /\ Len(wbVal) = Len(wb)
    /\ memVal \in [Addrs -> Values]
    /\ busVal \in [Slots -> Values \cup {NULL}]
    /\ \A s \in Slots : busVal[s] = NULL <=> s \notin busReqs
    /\ data \in [Reqs -> Values \cup {NULL}]

InitD ==
    /\ Init
    /\ val = [a \in Addrs |-> NULL]
    /\ wbVal = <<>>
    /\ memVal = [a \in Addrs |-> 0]
    /\ busVal = [s \in Slots |-> NULL]
    /\ data = [r \in Reqs |-> NULL]

-----------------------------------------------------------------------------
(* The data of the timing path. *)

\* The responses this step schedules, in the order the targets were served.
Served == SubSeq(responses', Len(responses) + 1, Len(responses'))

\* The tags satisfy request r against a line: a read takes the line's data,
\* a write replaces it.
Serve(st, r) ==
    IF isWrite(req'[r].cmd) THEN [st EXCEPT !.line = st.data[r]]
                            ELSE [st EXCEPT !.data[r] = st.line]

\* What a step of the cache on line a does to the data, when the line holds
\* x before its targets are served and the packets hold d: the targets are
\* served in order, a line without a block has no data, and the writebacks
\* the step queues carry the data of the blocks replaced.
DataPath(a, x, d) ==
    LET st == FoldLeft(Serve, [line |-> x, data |-> d], Served)
        queued == SubSeq(wb', Len(wb) + 1, Len(wb'))
    IN  /\ data' = st.data
        /\ val' = [b \in Addrs |-> IF blk'[b] = {} THEN NULL
                                   ELSE IF b = a THEN st.line ELSE val[b]]
        /\ wbVal' = wbVal \o [i \in DOMAIN queued |-> val[queued[i]]]

\* The CPU side sends packet r with contents p, a write with the data v.
CpuSide_recvTimingD(r, p, v) ==
    /\ CpuSide_recvTiming(r, p)
    /\ DataPath(p.addr, val[p.addr],
                [data EXCEPT ![r] = IF isWrite(p.cmd) /\ ~Satisfied(p) THEN v ELSE NULL])
    /\ UNCHANGED <<memVal, busVal>>

\* The memory-side port sends: a writeback takes its data to the memory, a
\* request that is answered gets the data the memory holds now, an upgrade
\* serves its targets against the line.
MemSide_sendD(success) ==
    LET g == getPacket
        a == mq[g.at].addr
    IN
    /\ MemSide_send(success, FALSE)
    /\ \/ /\ ~success
          /\ UNCHANGED dataVars
       \/ /\ success /\ g.wb
          /\ memVal' = [memVal EXCEPT ![wb[g.at]] = wbVal[g.at]]
          /\ wbVal' = Without(wbVal, g.at)
          /\ UNCHANGED <<val, busVal, data>>
       \/ /\ success /\ ~g.wb
          /\ busVal' = IF Answers(g) THEN [busVal EXCEPT ![g.at] = memVal[a]] ELSE busVal
          /\ DataPath(a, val[a], data)
          /\ UNCHANGED memVal

\* The fill arrives with the data the memory gave it.
MemSide_recvResponseD(s) ==
    /\ MemSide_recvResponse(s, "Success")
    /\ DataPath(mq[s].addr, busVal[s], data)
    /\ busVal' = [busVal EXCEPT ![s] = NULL]
    /\ UNCHANGED memVal

\* The CPU takes the first response, and its data.
CpuSide_sendResponseD ==
    /\ CpuSide_sendResponse
    /\ data' = [data EXCEPT ![Head(responses)] = NULL]
    /\ UNCHANGED <<val, wbVal, memVal, busVal>>

-----------------------------------------------------------------------------
(* The functional path. *)

\* The targets of the miss to line a; Packet::hasData of a target: it is a
\* write of the CPU side.
Targets(a) == IF findMSHR(a) = {} THEN <<>> ELSE mq[CHOOSE s \in findMSHR(a) : TRUE].targets
hasData(t) == t \in Reqs /\ isWrite(req[t].cmd)

\* The data fixPacket finds for a read of line a: of the targets of the
\* line's miss that have data, then of the writebacks of the line in the
\* write buffer.
Fixes(a) ==
    LET ts == SelectSeq(Targets(a), hasData)
        ws == SelectSeq([i \in DOMAIN wb |-> i], LAMBDA i : wb[i] = a)
    IN  [i \in DOMAIN ts |-> data[ts[i]]] \o [i \in DOMAIN ws |-> wbVal[ws[i]]]

\* TimingSimpleCPU::CpuPort::recvFunctional: the CPU has no storage of its
\* own and supplies nothing.
CpuPort_recvFunctional == NULL

\* Mutation of probe: the targets and the write buffer are not looked at.
probe_read_noFixes(a, isCpuSide) ==
    IF blk[a] # {} THEN val[a] ELSE IF isCpuSide THEN memVal[a] ELSE NULL

\* probe(pkt, update = false) for a read of line a, and what the packet
\* holds at the end (NULL: nothing, the result is not Success).  A read
\* from the memory side is first handed to the CPU side.  The block
\* supplies the data on a hit; every target and writeback that has data
\* then overwrites what the packet holds; a read from the CPU side that
\* nothing satisfied goes on to the memory.
probe_read(a, isCpuSide) ==
    LET above == IF isCpuSide THEN NULL ELSE CpuPort_recvFunctional
        found == (IF blk[a] # {} THEN <<val[a]>> ELSE <<>>) \o Fixes(a)
    IN  IF above # NULL THEN above
        ELSE IF found # <<>> THEN Last(found)
        ELSE IF isCpuSide THEN memVal[a] ELSE NULL

\* fixPacket of a write of v over what overlaps line a and has data: the
\* targets of the line's miss, the writebacks of the line, and the fill of
\* the line the ports have in flight.
fixPackets(a, v) ==
    /\ data' = [r \in Reqs |-> IF r \in Range(SelectSeq(Targets(a), hasData))
                               THEN v ELSE data[r]]
    /\ wbVal' = [i \in DOMAIN wb |-> IF wb[i] = a THEN v ELSE wbVal[i]]
    /\ busVal' = [s \in Slots |-> IF s \in findMSHR(a) /\ busVal[s] # NULL
                                  THEN v ELSE busVal[s]]

\* Mutation of probe: the write does not reach the block of the line.
probe_write_skipsBlock(a, v) ==
    /\ memVal' = [memVal EXCEPT ![a] = v]
    /\ fixPackets(a, v)
    /\ UNCHANGED <<vars, val>>

\* Mutation of probe: the write is copied to the line whether the tags
\* found a block or not.
probe_write_noBlockCheck(a, v) ==
    /\ memVal' = [memVal EXCEPT ![a] = v]
    /\ val' = [val EXCEPT ![a] = v]
    /\ fixPackets(a, v)
    /\ UNCHANGED vars

\* probe(pkt, update = false) for a write of v to line a: the data is
\* changed in all locations.  The write is first handed to the other side
\* (from the CPU side that is the memory; from the memory side the bus has
\* handed it to the memory); then the block, if the tags find one, and the
\* packets that overlap take it.  The state of the line does not change.
probe_write(a, v) ==
    /\ memVal' = [memVal EXCEPT ![a] = v]
    /\ val' = IF blk[a] # {} THEN [val EXCEPT ![a] = v] ELSE val
    /\ fixPackets(a, v)
    /\ UNCHANGED vars

\* doFunctionalAccess(pkt, isCpuSide): the probe without update.  A read
\* changes nothing and is the operator probe_read; a write does the same
\* from either side.
doFunctionalAccess(a, v) == probe_write(a, v)

NextD ==
    \/ \E r \in Reqs, k \in CpuKinds, a \in Addrs, v \in Values :
          CpuSide_recvTimingD(r, [cmd |-> k.cmd, full |-> k.full, locked |-> k.locked,
                                  addr |-> a], v)
    \/ \E success \in BOOLEAN : MemSide_sendD(success)
    \/ \E s \in Slots : MemSide_recvResponseD(s)
    \/ CpuSide_sendResponseD
    \/ \E a \in Addrs, v \in Values : doFunctionalAccess(a, v)

SpecD == InitD /\ [][NextD]_varsD

-----------------------------------------------------------------------------
(* The refinement: the cache and the memory below are one memory. *)

\* The value of line a: of the block when it is dirty, else of the newest
\* writeback of the line in the write buffer, else of the memory.
AbsMem(a) ==
    IF BlkDirty \in blk[a] THEN val[a]
    ELSE IF findWrites(a) # {} THEN wbVal[Max(findWrites(a))]
    ELSE memVal[a]

\* The operations outstanding: a request is done once its response is
\* scheduled.
AbsPend ==
    [r \in Reqs |->
        IF req[r] = NULL THEN NULL
        ELSE [addr |-> req[r].addr, write |-> isWrite(req[r].cmd),
              locked |-> req[r].locked, val |-> data[r],
              done |-> r \in Range(responses)]]

Abs == INSTANCE LineMemory WITH mem <- [a \in Addrs |-> AbsMem(a)], pend <- AbsPend

-----------------------------------------------------------------------------
(* Properties *)

\* access/sendResult/handleResponse and the miss queue: to the CPU side the
\* cache is the memory.  Every read returns what the last write performed
\* on the line left, through hits, misses merged into one MSHR, targets
\* served by a fill or an upgrade, replacements and their writebacks, and
\* the order in which getPacket sends a writeback and a miss of one line
\* that wait together (a write buffer of two entries: with one the cache is
\* blocked until the writeback is sent, and no miss of its line is taken).
ImplementsMemory == Abs!Spec

\* handleResponse/probe: a block that is not dirty holds what the memory
\* system holds for the line; a fill or a functional write never leaves an
\* older copy in the tags.
CleanLineIsCurrent ==
    \A a \in Addrs : blk[a] # {} => val[a] = AbsMem(a)

\* The newest data written to line a: of the last write that waits in the
\* line's MSHR, else what the memory system holds.
Newest(a) ==
    LET ts == SelectSeq(Targets(a), hasData)
    IN  IF ts # <<>> THEN data[Last(ts)] ELSE AbsMem(a)

\* probe without update, the fix-ups (fixPacket over the targets and the
\* write buffer): a functional read observes the most recent write, also one
\* that is not performed yet.  From the CPU side it always has a result;
\* from the memory side the cache answers with the newest data or not at
\* all.
\* A functional read of line a returns the newest data.
SeesNewest(a) ==
    /\ probe_read(a, TRUE) = Newest(a)
    /\ probe_read(a, FALSE) \in {NULL, Newest(a)}

FunctionalReadSeesNewest == \A a \in Addrs : SeesNewest(a)

\* probe without update, the order of its fix-ups (the targets of the
\* line's MSHR first, the write buffer after them): a functional read
\* observes the most recent write wherever the data of the line that is on
\* its way waits in one queue only, writes in the targets of the line's
\* MSHR or a writeback in the write buffer.  Both at once is the one case
\* in which the later fix-up overwrites the newer data with older.
FunctionalReadSeesNewestOfOneQueue ==
    \A a \in Addrs :
        SelectSeq(Targets(a), hasData) = <<>> \/ findWrites(a) = {} => SeesNewest(a)

=============================================================================
