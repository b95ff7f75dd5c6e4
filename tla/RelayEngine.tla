----------------------------- MODULE RelayEngine -----------------------------
(***************************************************************************)
(* The block relay of qbit-photon (contrib/photon/src/relay_engine.cpp):   *)
(* one block on its way out, and the blocks that come in, each from the    *)
(* headers and chunks one peer sends for one hash prefix, in any order,    *)
(* duplicated or incomplete.  The main loop (app.cpp) calls one handler at *)
(* a time, so a handler is an action.                                      *)
(*                                                                         *)
(* Buffered bytes are counted in chunks: every one is FEC_CHUNK_SIZE.  A   *)
(* coding group is complete with DataChunks different chunks of it (when   *)
(* wirehair wants one more it is only complete later).                     *)
(***************************************************************************)
EXTENDS Integers, Sequences, FiniteSetsExt, Functions

CONSTANTS
    Prefixes,      \* hash prefixes, numbers
    Peers,         \* slot, session and id of a remote peer, numbered in their order
    Groups,        \* coding groups of a block
    ChunkIds, DataChunks,
    BadChunk,      \* a chunk whose group is not one of the block's
    MaxEntries,    \* max_inbound_entries
    MaxPerEntry,   \* max_inbound_buffered_chunks_per_entry
    MaxBuffered,   \* max_inbound_buffered_bytes, in chunks
    MaxAge,        \* max_inbound_age
    SeenCapacity,  \* seen_blocks_capacity
    ChunksPerTick, \* max_outbound_chunks_per_tick
    TotalChunks,   \* the length of an outbound schedule
    MaxTime        \* bound on the clock

ASSUME RelayAssumption ==
    /\ Prefixes \subseteq Nat /\ Peers \subseteq Nat
    /\ {MaxEntries, MaxPerEntry, ChunksPerTick, DataChunks} \subseteq Nat \ {0}
    /\ {MaxBuffered, MaxAge, SeenCapacity, TotalChunks, MaxTime} \subseteq Nat

Keys == Prefixes \X Peers
Chunks == (Groups \X ChunkIds) \cup {BadChunk}
None == [prefix |-> 0, header_sent |-> FALSE, cursor |-> 0]

VARIABLES
    store,      \* m_inbound, and m_inbound_buffered_bytes
    outbound,   \* m_outbound
    seen_order, seen_set,   \* m_seen_order, m_seen_set
    now,        \* the clock
    since       \* (history) the blocks that became known after a block did

vars == <<store, outbound, seen_order, seen_set, now, since>>
known == <<seen_order, seen_set, since>>

Init ==
    /\ store = [map |-> <<>>, buffered |-> 0]
    /\ outbound = None
    /\ seen_order = <<>> /\ seen_set = {}
    /\ now = 0
    /\ since = <<>>

-----------------------------------------------------------------------------
(* Entries.                                                                *)

\* The chunks the entries of K have buffered.
BufferedChunks(map, K) == UNION {{k} \X DOMAIN map[k].buffer : k \in K}

Buffered(map, K) == Cardinality(BufferedChunks(map, K))

\* The entries of K are erased, after ClearBufferedChunks of each.
Erased(st, K) ==
    LET bytes == Buffered(st.map, K) IN
    [map |-> Restrict(st.map, DOMAIN st.map \ K),
     buffered |-> IF bytes <= st.buffered THEN st.buffered - bytes ELSE 0]

MutFresh_Never(st) == st

\* EvictExpiredInbound
Fresh(st) ==
    Erased(st, {k \in DOMAIN st.map : now - st.map[k].last_updated > MaxAge})

OfPrefix(st, p) == {k \in DOMAIN st.map : k[1] = p}

\* InboundRelayKeyLess breaks the ties of EvictOldestInbound.
Less(j, k) == j[1] < k[1] \/ (j[1] = k[1] /\ j[2] < k[2])
Older(map, j, k) ==
    \/ map[j].first_seen < map[k].first_seen
    \/ map[j].first_seen = map[k].first_seen /\ Less(j, k)

MutWithRoom_OneMore(st) ==
    Erased(st, {k \in DOMAIN st.map :
        Cardinality({j \in DOMAIN st.map : Older(st.map, k, j)}) >= MaxEntries})

\* The oldest entries go until there is room for a new one.
WithRoom(st) ==
    Erased(st, {k \in DOMAIN st.map :
        Cardinality({j \in DOMAIN st.map : Older(st.map, k, j)}) >= MaxEntries - 1})

Put(st, k, e) ==
    [st EXCEPT !.map = [j \in DOMAIN st.map \cup {k} |-> IF j = k THEN e ELSE st.map[j]]]

\* GetOrCreateInbound
GetOrCreate(st, k) ==
    IF k \in DOMAIN st.map
    THEN [st EXCEPT !.map[k].last_updated = now]
    ELSE Put(WithRoom(st), k, [decoder |-> FALSE, chunks |-> {}, buffer |-> <<>>,
                               first_seen |-> now, last_updated |-> now])

\* HasGlobalInboundBufferCapacity
HasCapacity(st) == MaxBuffered >= 1 /\ st.buffered <= MaxBuffered - 1

-----------------------------------------------------------------------------
(* Known blocks.                                                           *)

IsKnown(p) == p \in seen_set

MutRemember_KeepOldest(p) ==
    /\ seen_order' = Append(IF Len(seen_order) < SeenCapacity THEN seen_order
                            ELSE Tail(seen_order), p)
    /\ seen_set' = seen_set \cup {p}
    /\ since' = [q \in DOMAIN since \cup {p} |-> IF q = p THEN {} ELSE since[q] \cup {p}]

MutRemember_EarlyPop(p) ==
    LET kept == IF Len(seen_order) + 1 < SeenCapacity THEN seen_order ELSE Tail(seen_order) IN
    /\ seen_order' = Append(kept, p)
    /\ seen_set' = {kept[i] : i \in DOMAIN kept} \cup {p}
    /\ since' = [q \in DOMAIN since \cup {p} |-> IF q = p THEN {} ELSE since[q] \cup {p}]

\* RememberSeen
RememberSeen(p) ==
    LET over == Len(seen_order) + 1 - SeenCapacity
        kept == IF p \in seen_set THEN SelectSeq(seen_order, LAMBDA q : q # p)
                ELSE IF over > 0 THEN SubSeq(seen_order, over + 1, Len(seen_order))
                ELSE seen_order
    IN
    /\ seen_order' = IF SeenCapacity = 0 THEN <<>> ELSE Append(kept, p)
    /\ seen_set' = IF SeenCapacity = 0 THEN {}
                   ELSE (seen_set \ (Range(seen_order) \ Range(kept))) \cup {p}
    /\ since' = [q \in DOMAIN since \cup {p} |-> IF q = p THEN {} ELSE since[q] \cup {p}]

-----------------------------------------------------------------------------
(* Decoding.                                                               *)

Complete(chunks, g) == Cardinality({c \in chunks : c[1] = g}) >= DataChunks

Refused == {BadChunk}

\* What adding the chunks new to a decoder may lead to: the chunks it has then,
\* or Refused for a bad chunk or when the codec fails on a group's last chunk.
AddChunks(chunks, new) ==
    LET all == chunks \cup new IN
    IF BadChunk \in new THEN {Refused}
    ELSE {all} \cup
         (IF \E g \in Groups : Complete(all, g) /\ ~Complete(chunks, g) THEN {Refused} ELSE {})

Keep(st) == store' = st /\ UNCHANGED known

MutTryFinalize_OneEntry(st, k) ==
    IF \E g \in Groups : ~Complete(st.map[k].chunks, g)
    THEN Keep(st)
    ELSE \/ store' = Erased(st, {k}) /\ RememberSeen(k[1])
         \/ Keep(Erased(st, {k}))

\* TryFinalizeInbound: the block is submitted to the node, which may refuse
\* it; or it cannot be put together.
TryFinalize(st, k) ==
    IF \E g \in Groups : ~Complete(st.map[k].chunks, g)
    THEN Keep(st)
    ELSE \/ store' = Erased(st, OfPrefix(st, k[1])) /\ RememberSeen(k[1])
         \/ Keep(Erased(st, {k}))

-----------------------------------------------------------------------------
(* The handlers.                                                           *)

\* OnNewBlock: a block of the local node, from now on the one that is sent.
OnNewBlock(p) ==
    /\ ~IsKnown(p)
    /\ outbound' = [prefix |-> p, header_sent |-> FALSE, cursor |-> 0]
    /\ RememberSeen(p)
    /\ store' = Erased(store, OfPrefix(store, p))
    /\ UNCHANGED now

MutWithDecoder_CountKept(st, k, chunks) ==
    [st EXCEPT !.map[k].decoder = TRUE, !.map[k].chunks = chunks, !.map[k].buffer = <<>>]

\* The chunks a decoder has taken are no longer buffered (ClearBufferedChunks).
WithDecoder(st, k, chunks) ==
    LET bytes == Buffered(st.map, {k}) IN
    [st EXCEPT !.map[k] = [@ EXCEPT !.decoder = TRUE, !.chunks = chunks, !.buffer = <<>>],
               !.buffered = IF bytes <= @ THEN @ - bytes ELSE 0]

\* OnBlockHeader: a header is sent several times.  The first one makes the
\* decoder, if there is memory, and the decoder takes the chunks that came before.
OnBlockHeader(k) ==
    LET st == GetOrCreate(Fresh(store), k) IN
    /\ \/ Keep(Fresh(store))     \* a known block, or a field is out of range
       \/ ~IsKnown(k[1]) /\ st.map[k].decoder /\ Keep(st)
       \/ ~IsKnown(k[1]) /\ ~st.map[k].decoder /\ Keep(Erased(st, {k}))
       \/ /\ ~IsKnown(k[1]) /\ ~st.map[k].decoder
          /\ \E chunks \in AddChunks({}, Range(st.map[k].buffer)) \ {Refused} :
                TryFinalize(WithDecoder(st, k, chunks), k)
    /\ UNCHANGED <<outbound, now>>

\* FeedChunk, and TryFinalizeInbound when the entry is still there.
FeedChunk(st, k, c) ==
    IF ~st.map[k].decoder
    THEN Keep(IF Len(st.map[k].buffer) >= MaxPerEntry \/ ~HasCapacity(st) THEN st
              ELSE [st EXCEPT !.map[k].buffer = Append(@, c), !.buffered = @ + 1])
    ELSE \E chunks \in AddChunks(st.map[k].chunks, {c}) :
            IF chunks = Refused THEN Keep(Erased(st, {k}))
            ELSE TryFinalize([st EXCEPT !.map[k].chunks = chunks], k)

MutOnBlockChunk_RoomFirst(k, c) ==
    LET fresh == Fresh(store) IN
    /\ IF IsKnown(k[1]) THEN Keep(fresh) ELSE FeedChunk(GetOrCreate(fresh, k), k, c)
    /\ UNCHANGED <<outbound, now>>

\* OnBlockChunk
OnBlockChunk(k, c) ==
    LET fresh == Fresh(store) IN
    /\ IF IsKnown(k[1]) \/ (k \notin DOMAIN fresh.map /\ ~HasCapacity(fresh))
       THEN Keep(fresh)
       ELSE FeedChunk(GetOrCreate(fresh, k), k, c)
    /\ UNCHANGED <<outbound, now>>

\* PumpOutbound while some peer is active: the header, then the next chunks.
PumpOutbound ==
    LET next == outbound.cursor + ChunksPerTick IN
    /\ outbound # None
    /\ store' = Fresh(store)
    /\ outbound' = IF next > TotalChunks THEN None
                   ELSE [outbound EXCEPT !.header_sent = TRUE, !.cursor = next]
    /\ UNCHANGED <<known, now>>

\* PumpOutbound with nothing to send or nobody to send to.
PumpNothing ==
    /\ Keep(Fresh(store))
    /\ UNCHANGED <<outbound, now>>

Tick ==
    /\ now < MaxTime
    /\ now' = now + 1
    /\ UNCHANGED <<store, outbound, known>>

Next ==
    \/ \E p \in Prefixes : OnNewBlock(p)
    \/ \E k \in Keys : OnBlockHeader(k) \/ \E c \in Chunks : OnBlockChunk(k, c)
    \/ PumpOutbound \/ PumpNothing
    \/ Tick

Spec == Init /\ [][Next]_vars

-----------------------------------------------------------------------------
(* Properties.                                                             *)

Entries ==
    [decoder : BOOLEAN, chunks : SUBSET (Groups \X ChunkIds),
     buffer : UNION {[1..n -> Chunks] : n \in 0..MaxPerEntry},
     first_seen : 0..MaxTime, last_updated : 0..MaxTime]

\* Every variable has its type; the entries and the chunks that are buffered
\* for one keep to their limits.
TypeOK ==
    /\ DOMAIN store.map \subseteq Keys /\ Cardinality(DOMAIN store.map) <= MaxEntries
    /\ \A k \in DOMAIN store.map : store.map[k] \in Entries
    /\ store.buffered \in Nat
    /\ outbound \in [prefix : Prefixes \cup {0}, header_sent : BOOLEAN, cursor : 0..TotalChunks]
    /\ seen_order \in Seq(Prefixes) /\ seen_set \subseteq Prefixes
    /\ now \in 0..MaxTime

\* m_inbound_buffered_bytes is the sum of what the entries have buffered, on
\* every path on which an entry goes or its decoder is made, and keeps to its
\* limit: "global pre-header buffering" of RUNBOOK.md is never leaked away.
BufferAccounted ==
    /\ store.buffered = Buffered(store.map, DOMAIN store.map)
    /\ store.buffered <= MaxBuffered

\* A block that is known has no incomplete copy from any peer: it will not be
\* submitted a second time.
KnownIsDone == \A k \in DOMAIN store.map : ~IsKnown(k[1])

\* The queue and the set of known blocks tell the same.
SeenMirrored ==
    /\ seen_set = Range(seen_order)
    /\ Len(seen_order) = Cardinality(seen_set)
    /\ Len(seen_order) <= SeenCapacity

\* A block stays known until SeenCapacity others have become known after it.
KnownLongEnough ==
    \A p \in DOMAIN since : Cardinality(since[p]) < SeenCapacity => IsKnown(p)

\* An entry that has had no activity for longer than max_inbound_age is not
\* taken up again: a later packet starts a new one.
NoRevival ==
    [][\A k \in DOMAIN store.map \cap DOMAIN store'.map :
          \/ store'.map[k] = store.map[k]
          \/ store'.map[k].first_seen = now
          \/ now - store.map[k].last_updated <= MaxAge]_vars

\* "When the global pre-header byte cap is full, PHOTON rejects the new chunk
\* instead of evicting an existing decoder" (RUNBOOK.md): a chunk that finds
\* no room takes no other live entry of another block away.
FullRejects ==
    [][~HasCapacity(store) =>
          \A j \in DOMAIN store.map \ DOMAIN store'.map :
             now - store.map[j].last_updated <= MaxAge =>
                \A k \in Keys, c \in Chunks : OnBlockChunk(k, c) => j[1] = k[1]]_vars

=============================================================================
