----------------------------- MODULE LineMemory -----------------------------
(***************************************************************************)
(* What a cache and the memory behind it promise to the agent on the CPU   *)
(* side, whatever the cache holds, has in flight or has queued: one value  *)
(* per line, and requests that take effect one at a time.  A read returns  *)
(* the value of the line at the moment it is performed, a write replaces   *)
(* it; a store conditional fails when it is issued or is performed as a    *)
(* write.  Requests to one line that are outstanding together may be       *)
(* performed in one step (a fill serves all the targets of its miss), in   *)
(* some order.  A functional write changes the line at once, and with it   *)
(* the data of the writes to the line that are still to be performed.      *)
(*                                                                         *)
(* Module CacheData shows that the cache of cache_impl.hh implements this  *)
(* specification.                                                          *)
(***************************************************************************)
EXTENDS Naturals, SequencesExt

CONSTANTS
    Addrs,   \* line addresses
    Reqs,    \* identities of the requests
    Values,  \* what a line holds
    NULL

VARIABLES
    mem,     \* [line -> value]
    pend     \* [request -> the outstanding operation, or NULL]

\* An operation: val is the data of a write (NULL once it has failed) and
\* the result of a read that is done.
Ops == [addr : Addrs, write : BOOLEAN, locked : BOOLEAN,
        val : Values \cup {NULL}, done : BOOLEAN]

TypeOK ==
    /\ mem \in [Addrs -> Values]
    /\ pend \in [Reqs -> Ops \cup {NULL}]

Init ==
    /\ mem \in [Addrs -> Values]
    /\ pend = [r \in Reqs |-> NULL]

\* The operations an agent may issue.
Issuable == {op \in Ops : /\ ~op.done
                          /\ op.write <=> op.val # NULL
                          /\ op.locked => op.write}

Waiting == {r \in Reqs : pend[r] # NULL /\ ~pend[r].done}

\* The memory and the operations st once r is performed, or has failed.
Do(st, r) ==
    LET op == st.pend[r] IN
    [mem  |-> IF op.write THEN [st.mem EXCEPT ![op.addr] = op.val] ELSE st.mem,
     pend |-> [st.pend EXCEPT ![r].done = TRUE,
                              ![r].val = IF op.write THEN @ ELSE st.mem[op.addr]]]
Failed(st, r) ==
    [st EXCEPT !.pend[r].done = TRUE, !.pend[r].val = NULL]

Becomes(st) == mem' = st.mem /\ pend' = st.pend

Issued(r, op) == [mem |-> mem, pend |-> [pend EXCEPT ![r] = op]]

\* A request is issued; it waits, is performed at once, or is a store
\* conditional that fails.
Request(r, op) ==
    /\ pend[r] = NULL
    /\ op \in Issuable
    /\ \/ Becomes(Issued(r, op))
       \/ Becomes(Do(Issued(r, op), r))
       \/ op.locked /\ Becomes(Failed(Issued(r, op), r))

\* The waiting requests rs, all to one line, are performed in this order.
Perform(rs) ==
    /\ rs \in SetToAllKPermutations(Waiting) \ {<<>>}
    /\ \A i \in DOMAIN rs : pend[rs[i]].addr = pend[rs[1]].addr
    /\ Becomes(FoldLeft(Do, [mem |-> mem, pend |-> pend], rs))

\* The agent takes the answer.
Deliver(r) ==
    /\ pend[r] # NULL /\ pend[r].done
    /\ pend' = [pend EXCEPT ![r] = NULL]
    /\ UNCHANGED mem

\* A functional write of v to line a.
Poke(a, v) ==
    /\ mem' = [mem EXCEPT ![a] = v]
    /\ pend' = [r \in Reqs |->
                  IF r \in Waiting /\ pend[r].write /\ pend[r].addr = a
                  THEN [pend[r] EXCEPT !.val = v] ELSE pend[r]]

Next ==
    \/ \E r \in Reqs, op \in Ops : Request(r, op)
    \/ \E rs \in SetToAllKPermutations(Reqs) : Perform(rs)
    \/ \E r \in Reqs : Deliver(r)
    \/ \E a \in Addrs, v \in Values : Poke(a, v)

Spec == Init /\ [][Next]_<<mem, pend>>

=============================================================================
