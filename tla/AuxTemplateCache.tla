-------------------------- MODULE AuxTemplateCache --------------------------
(***************************************************************************)
(* The cache of merged-mining candidates (src/rpc/mining.cpp).  RPC worker *)
(* threads run createauxblock and submitauxblock; the cache has a mutex of *)
(* its own, taken for one call at a time, and the active tip is read under *)
(* cs_main before it, so tips, time and the other workers move in between. *)
(*                                                                         *)
(* Tips are numbered in the order they were first active.  A candidate is  *)
(* identified by its hash, which is a function of its previous block and   *)
(* of its content (payout, transactions, time): two calls may produce the  *)
(* same one.                                                               *)
(***************************************************************************)
EXTENDS Integers, FiniteSets, Functions

CONSTANTS
    Workers,      \* RPC worker threads
    Contents,     \* what candidates on the same tip differ in
    Expiry,       \* -auxpowtemplateexpiry; zero switches it off
    CacheLimit,   \* -auxpowtemplatecachelimit; zero or less switches it off
    MaxTip, MaxTime, MaxStores   \* bounds on the tips, the clock, the candidates made

ASSUME CacheAssumption == Expiry \in Nat /\ CacheLimit \in Int
ASSUME BoundAssumption == {MaxTip, MaxTime, MaxStores} \subseteq Nat

VARIABLES
    tip, top,   \* the active tip, the number of the last new one
    now,        \* the node's clock
    cache,      \* g_aux_block_cache
    sequence,   \* g_aux_block_cache_sequence
    worker,     \* the calls in progress
    accepted,   \* candidates that are blocks of the chain
    promised    \* (history) the age of the candidates that must be cached still

vars == <<tip, top, now, cache, sequence, worker, accepted, promised>>

Candidates == [prev : 0..MaxTip, content : Contents]
Ages == 0..MaxTime
Idle == [pc |-> "idle"]

Init ==
    /\ tip = 0 /\ top = 0
    /\ now = 0
    /\ cache = <<>>
    /\ sequence = 0
    /\ worker = [w \in Workers |-> Idle]
    /\ accepted = {}
    /\ promised = <<>>

-----------------------------------------------------------------------------
(* The chain and the clock.                                                *)

\* A candidate is promised to stay cached while its previous block stays the tip.
SetTip(t) ==
    /\ tip' = t
    /\ promised' = Restrict(promised, {h \in DOMAIN promised : h.prev = t})

NewTip ==
    /\ top < MaxTip
    /\ top' = top + 1
    /\ SetTip(top')

Connected ==
    /\ NewTip
    /\ UNCHANGED <<now, cache, sequence, worker, accepted>>

Reorganised ==
    /\ \E t \in (0..top) \ {tip} : SetTip(t)
    /\ UNCHANGED <<top, now, cache, sequence, worker, accepted>>

MutExpired_Never(created, t) == FALSE

\* IsAuxBlockTemplateExpired
Expired(created, t) == Expiry > 0 /\ t - created > Expiry

\* The node's clock is the system's, which may be put forward and back.
Tick ==
    /\ now' \in Ages \ {now}
    /\ promised' = Restrict(promised, {h \in DOMAIN promised : ~Expired(promised[h], now')})
    /\ UNCHANGED <<tip, top, cache, sequence, worker, accepted>>

-----------------------------------------------------------------------------
(* The cache.                                                              *)

\* PruneAuxBlockCacheLocked
Pruned(c, t) ==
    Restrict(c, {h \in DOMAIN c : h.prev = t /\ ~Expired(c[h].created, now)})

MutTrimmed_OneMore(c) ==
    IF CacheLimit <= 0 THEN c
    ELSE Restrict(c, {h \in DOMAIN c :
            Cardinality({g \in DOMAIN c : c[g].sequence > c[h].sequence}) <= CacheLimit})

\* TrimAuxBlockCacheToLimitLocked
Trimmed(c) ==
    IF CacheLimit <= 0 THEN c
    ELSE Restrict(c, {h \in DOMAIN c :
            Cardinality({g \in DOMAIN c : c[g].sequence > c[h].sequence}) < CacheLimit})

MutStored_PostIncrement(c, h) ==
    [g \in DOMAIN c \cup {h} |->
        IF g = h THEN [created |-> now, sequence |-> sequence] ELSE c[g]]

\* The assignment of StoreCachedAuxBlock.
Stored(c, h) ==
    [g \in DOMAIN c \cup {h} |->
        IF g = h THEN [created |-> now, sequence |-> sequence + 1] ELSE c[g]]

-----------------------------------------------------------------------------
(* createauxblock.                                                         *)

\* createNewBlock makes the template on the tip of the moment.
CreateTemplate(w) ==
    /\ worker[w].pc = "idle"
    /\ \E x \in Contents :
          worker' = [worker EXCEPT ![w] =
                        [pc |-> "template", hash |-> [prev |-> tip, content |-> x]]]
    /\ UNCHANGED <<tip, top, now, cache, sequence, accepted, promised>>

\* The active tip is read; cadence may be inactive at the height, or the
\* template's time invalid, and the call ends there.
CreateReadTip(w) ==
    /\ worker[w].pc = "template"
    /\ \/ worker' = [worker EXCEPT ![w] =
                        [pc |-> "prune", hash |-> worker[w].hash, tip |-> tip]]
       \/ worker' = [worker EXCEPT ![w] = Idle]
    /\ UNCHANGED <<tip, top, now, cache, sequence, accepted, promised>>

CreatePrune(w) ==
    /\ worker[w].pc = "prune"
    /\ cache' = Pruned(cache, worker[w].tip)
    /\ worker' = [worker EXCEPT ![w].pc = "store"]
    /\ UNCHANGED <<tip, top, now, sequence, accepted, promised>>

\* StoreCachedAuxBlock, and the hash goes to the caller.
CreateStore(w) ==
    LET h == worker[w].hash
        stored == Stored(cache, h)
        kept == DOMAIN Trimmed(stored)
    IN
    /\ worker[w].pc = "store"
    /\ sequence < MaxStores
    /\ sequence' = sequence + 1
    /\ cache' = Trimmed(stored)
    /\ promised' = [g \in {g \in DOMAIN promised \cup {h} : g \in kept /\ g.prev = tip} |->
                       IF g = h THEN now ELSE promised[g]]
    /\ worker' = [worker EXCEPT ![w] = Idle]
    /\ UNCHANGED <<tip, top, now, accepted>>

-----------------------------------------------------------------------------
(* submitauxblock.                                                         *)

SubmitReadTip(w) ==
    /\ worker[w].pc = "idle"
    /\ \E h \in Candidates :
          worker' = [worker EXCEPT ![w] = [pc |-> "submit", hash |-> h, tip |-> tip]]
    /\ UNCHANGED <<tip, top, now, cache, sequence, accepted, promised>>

\* (History: the time, and the number of the last candidate stored by then.)
SubmitPrune(w) ==
    /\ worker[w].pc = "submit"
    /\ cache' = Pruned(cache, worker[w].tip)
    /\ worker' = [worker EXCEPT ![w] =
                     [pc |-> "get", hash |-> worker[w].hash, pruned |-> now,
                      last |-> sequence]]
    /\ UNCHANGED <<tip, top, now, sequence, accepted, promised>>

\* GetCachedAuxBlock; the answer is "stale-prevblk" when it is not there.
SubmitGet(w) ==
    LET h == worker[w].hash IN
    /\ worker[w].pc = "get"
    /\ worker' = [worker EXCEPT ![w] =
          IF h \notin DOMAIN cache THEN Idle
          ELSE [pc |-> "process", hash |-> h, pruned |-> worker[w].pruned,
                last |-> worker[w].last, found |-> cache[h]]]
    /\ UNCHANGED <<tip, top, now, cache, sequence, accepted, promised>>

\* ProcessSubmittedBlock: a new valid block becomes the tip, by a reorganisation
\* when its previous block is no longer the tip; other outcomes (duplicate,
\* inconclusive, a rejection) leave the cache as it is.
SubmitProcess(w) ==
    LET h == worker[w].hash IN
    /\ worker[w].pc = "process"
    /\ \/ /\ h \notin accepted
          /\ NewTip
          /\ accepted' = accepted \cup {h}
          /\ worker' = [worker EXCEPT ![w] = [pc |-> "remove", hash |-> h]]
       \/ /\ worker' = [worker EXCEPT ![w] = Idle]
          /\ UNCHANGED <<tip, top, accepted, promised>>
    /\ UNCHANGED <<now, cache, sequence>>

\* RemoveCachedAuxBlock
SubmitRemove(w) ==
    /\ worker[w].pc = "remove"
    /\ cache' = Restrict(cache, DOMAIN cache \ {worker[w].hash})
    /\ worker' = [worker EXCEPT ![w] = Idle]
    /\ UNCHANGED <<tip, top, now, sequence, accepted, promised>>

Next ==
    \/ Connected \/ Reorganised \/ Tick
    \/ \E w \in Workers :
          \/ CreateTemplate(w) \/ CreateReadTip(w) \/ CreatePrune(w) \/ CreateStore(w)
          \/ SubmitReadTip(w) \/ SubmitPrune(w) \/ SubmitGet(w)
          \/ SubmitProcess(w) \/ SubmitRemove(w)

Spec == Init /\ [][Next]_vars

-----------------------------------------------------------------------------
(* Properties.                                                             *)

Entries == [created : Ages, sequence : 1..MaxStores]
Calls ==
    {Idle}
    \cup [pc : {"template", "remove"}, hash : Candidates]
    \cup [pc : {"prune", "store", "submit"}, hash : Candidates, tip : 0..MaxTip]
    \cup [pc : {"get"}, hash : Candidates, pruned : Ages, last : 0..MaxStores]
    \cup [pc : {"process"}, hash : Candidates, pruned : Ages, last : 0..MaxStores,
          found : Entries]

\* Every variable has its type.
TypeOK ==
    /\ tip \in 0..top /\ top \in 0..MaxTip
    /\ now \in Ages
    /\ DOMAIN cache \subseteq Candidates
    /\ \A h \in DOMAIN cache : cache[h] \in Entries
    /\ sequence \in 0..MaxStores
    /\ \A w \in Workers : worker[w] \in Calls
    /\ accepted \subseteq Candidates
    /\ DOMAIN promised \subseteq Candidates
    /\ \A h \in DOMAIN promised : promised[h] \in Ages

\* However calls overlap, and however often the same candidate is made again,
\* the cache keeps to -auxpowtemplatecachelimit.
CacheBounded == CacheLimit > 0 => Cardinality(DOMAIN cache) <= CacheLimit

\* A candidate that submitauxblock hands to validation had not outlived
\* -auxpowtemplateexpiry when the call pruned the cache, or was stored after
\* that, although the cache is unlocked between the two and the clock may be
\* put back.
FreshWhenSubmitted ==
    \A w \in Workers :
        worker[w].pc = "process" /\ Expiry > 0 /\ worker[w].found.sequence <= worker[w].last
            => worker[w].pruned - worker[w].found.created <= Expiry

\* "The candidate remains cached for submitauxblock while its previous block
\* stays on the active tip, its age does not exceed -auxpowtemplateexpiry, and
\* it has not been evicted by -auxpowtemplatecachelimit" (help of
\* createauxblock).
CachedWhileCurrent == DOMAIN promised \subseteq DOMAIN cache
=============================================================================
