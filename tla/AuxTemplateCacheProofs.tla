----------------------- MODULE AuxTemplateCacheProofs -----------------------
(***************************************************************************)
(* For any number of RPC workers, any limit and any expiry: the cache of   *)
(* merged-mining candidates keeps to its limit, and no candidate that had  *)
(* expired when the call pruned it is taken from it.                       *)
(*                                                                         *)
(* The limit rests on the sequence numbers: no two cached candidates have  *)
(* the same one, so of the candidates that are kept the oldest has all the *)
(* others after it, and fewer than the limit come after it.                *)
(***************************************************************************)
EXTENDS AuxTemplateCache, FiniteSetTheorems, WellFoundedInduction, TLAPS

-----------------------------------------------------------------------------
(* Trimming.                                                               *)

\* The numbers of the cached candidates, and that they tell them apart.
Numbered(c) ==
    /\ IsFiniteSet(DOMAIN c)
    /\ \A h \in DOMAIN c : c[h].sequence \in Nat
    /\ \A g, h \in DOMAIN c : c[g].sequence = c[h].sequence => g = h

\* A set of naturals that is not empty has a least element.
LEMMA LeastNatural ==
    ASSUME NEW T, T \subseteq Nat, T # {}
    PROVE  \E x \in T : \A y \in T : x <= y
<1>1. \E x \in T : \A y \in T : ~(<<y, x>> \in OpToRel(<, Nat))
  BY NatLessThanWellFounded, WFMin
<1>2. PICK x \in T : \A y \in T : ~(<<y, x>> \in OpToRel(<, Nat))
  BY <1>1
<1>3. \A y \in T : ~(y < x)
  BY <1>2 DEF OpToRel
<1> QED BY <1>3

\* TrimAuxBlockCacheToLimitLocked leaves at most CacheLimit candidates.
LEMMA TrimmedBound ==
    ASSUME NEW c, Numbered(c), CacheLimit > 0
    PROVE  Cardinality(DOMAIN Trimmed(c)) <= CacheLimit
<1> DEFINE After(h) == {g \in DOMAIN c : c[g].sequence > c[h].sequence}
           K == {h \in DOMAIN c : Cardinality(After(h)) < CacheLimit}
<1>0. CacheLimit \in Int
  BY CacheAssumption
<1>1. DOMAIN Trimmed(c) = K
  <2>1. Trimmed(c) = Restrict(c, K)
    BY <1>0, ~(CacheLimit <= 0) DEF Trimmed
  <2> HIDE DEF K
  <2> QED BY <2>1 DEF Restrict
<1>2. IsFiniteSet(K)
  <2>1. K \subseteq DOMAIN c
    OBVIOUS
  <2> QED BY <2>1, FS_Subset DEF Numbered
<1>3. CASE K = {}
  <2>1. Cardinality(DOMAIN Trimmed(c)) = 0
    BY <1>1, <1>3, FS_EmptySet
  <2> QED BY <1>0, <2>1
<1>4. CASE K # {}
  <2> DEFINE T == {c[h].sequence : h \in K}
  <2>1. T \subseteq Nat /\ T # {}
    BY <1>4 DEF Numbered
  <2> HIDE DEF T
  <2>2. PICK x \in T : \A y \in T : x <= y
    BY <2>1, LeastNatural
  <2>3. PICK h \in K : x = c[h].sequence
    BY <2>2 DEF T
  <2>4. K \ {h} \subseteq After(h)
    <3> SUFFICES ASSUME NEW g \in K, g # h PROVE g \in After(h)
      OBVIOUS
    <3>1. c[g].sequence \in T
      BY DEF T
    <3>2. c[h].sequence <= c[g].sequence
      BY <2>2, <2>3, <3>1
    <3>3. c[h].sequence # c[g].sequence
      BY <2>3 DEF Numbered
    <3> QED BY <2>3, <3>2, <3>3 DEF Numbered
  <2>5. IsFiniteSet(After(h)) /\ Cardinality(After(h)) \in Nat
    <3>1. After(h) \subseteq DOMAIN c
      OBVIOUS
    <3>2. IsFiniteSet(After(h))
      BY <3>1, FS_Subset DEF Numbered
    <3> HIDE DEF After
    <3> QED BY <3>2, FS_CardinalityType
  <2>6. Cardinality(After(h)) < CacheLimit
    BY <2>3
  <2> HIDE DEF K, After
  <2>7. Cardinality(K \ {h}) <= Cardinality(After(h))
    BY <2>4, <2>5, FS_Subset
  <2>8. Cardinality(K \ {h}) = Cardinality(K) - 1
    BY <1>2, <2>3, FS_RemoveElement
  <2>9. Cardinality(K) \in Nat
    BY <1>2, FS_CardinalityType
  <2> QED BY <1>0, <1>1, <2>5, <2>6, <2>7, <2>8, <2>9
<1> QED BY <1>3, <1>4

-----------------------------------------------------------------------------
(* The inductive invariant.                                                *)

\* The cache c is well formed when the last number given out is last.
CacheOK(c, last) ==
    /\ DOMAIN c \subseteq Candidates
    /\ \A h \in DOMAIN c : c[h] \in Entries /\ c[h].sequence <= last
    /\ Numbered(c)
    /\ CacheLimit > 0 => Cardinality(DOMAIN c) <= CacheLimit

\* None of the candidates in c had expired at the time t, of those whose number
\* is at most last.
NoneExpired(c, t, last) ==
    Expiry > 0 => \A h \in DOMAIN c : c[h].sequence <= last => t - c[h].created <= Expiry

\* A submission that has pruned the cache finds nothing in it that had expired
\* by then, because what was stored since has a higher number.
IInv ==
    /\ tip \in 0..top /\ top \in 0..MaxTip
    /\ now \in Ages
    /\ sequence \in 0..MaxStores
    /\ CacheOK(cache, sequence)
    /\ worker \in [Workers -> Calls]
    /\ accepted \subseteq Candidates
    /\ DOMAIN promised \subseteq Candidates
    /\ \A h \in DOMAIN promised : promised[h] \in Ages
    /\ \A w \in Workers : worker[w].pc = "get" =>
          /\ worker[w].last <= sequence
          /\ NoneExpired(cache, worker[w].pruned, worker[w].last)
    /\ FreshWhenSubmitted

\* Dropping candidates keeps a cache well formed.
LEMMA DropOK ==
    ASSUME NEW c, NEW last \in Nat, CacheOK(c, last), NEW S \in SUBSET DOMAIN c
    PROVE  /\ CacheOK(Restrict(c, S), last)
           /\ \A t, l \in Int : NoneExpired(c, t, l) => NoneExpired(Restrict(c, S), t, l)
<1> DEFINE d == Restrict(c, S)
<1>1. DOMAIN d = S /\ \A h \in S : d[h] = c[h]
  BY DEF Restrict
<1> HIDE DEF d
<1>2. IsFiniteSet(S) /\ Cardinality(S) <= Cardinality(DOMAIN c)
      /\ Cardinality(S) \in Nat /\ Cardinality(DOMAIN c) \in Nat
  BY FS_Subset, FS_CardinalityType DEF CacheOK, Numbered
<1>3. Numbered(d)
  BY <1>1, <1>2 DEF CacheOK, Numbered
<1>4. CacheLimit > 0 => Cardinality(S) <= CacheLimit
  BY <1>2, CacheAssumption DEF CacheOK
<1>5. CacheOK(d, last)
  BY <1>1, <1>3, <1>4 DEF CacheOK
<1>6. ASSUME NEW t \in Int, NEW l \in Int, NoneExpired(c, t, l) PROVE NoneExpired(d, t, l)
  BY <1>1, <1>6 DEF NoneExpired
<1> QED BY <1>5, <1>6 DEF d

\* Storing a candidate and trimming keep it well formed.
LEMMA StoreOK ==
    ASSUME IInv, NEW h \in Candidates, sequence < MaxStores
    PROVE  /\ CacheOK(Trimmed(Stored(cache, h)), sequence + 1)
           /\ \A t, l \in Int : l <= sequence /\ NoneExpired(cache, t, l)
                 => NoneExpired(Trimmed(Stored(cache, h)), t, l)
           /\ DOMAIN Trimmed(Stored(cache, h)) \subseteq Candidates
<1> DEFINE c == Stored(cache, h)
           K == {g \in DOMAIN c :
                    Cardinality({f \in DOMAIN c : c[f].sequence > c[g].sequence}) < CacheLimit}
<1>0. /\ Expiry \in Nat /\ CacheLimit \in Int /\ MaxStores \in Nat
      /\ sequence \in Nat /\ now \in Nat /\ now \in Ages
  BY CacheAssumption, BoundAssumption DEF IInv, Ages
<1>1. /\ DOMAIN c = DOMAIN cache \cup {h}
      /\ c[h] = [created |-> now, sequence |-> sequence + 1]
      /\ \A g \in DOMAIN cache \ {h} : c[g] = cache[g]
  BY DEF Stored
<1>2. /\ DOMAIN cache \subseteq Candidates /\ IsFiniteSet(DOMAIN cache)
      /\ \A g \in DOMAIN cache : /\ cache[g] \in Entries
                                 /\ cache[g].sequence <= sequence
                                 /\ cache[g].sequence \in Nat
                                 /\ cache[g].created \in Nat
      /\ \A f, g \in DOMAIN cache : cache[f].sequence = cache[g].sequence => f = g
  BY DEF IInv, CacheOK, Numbered, Entries, Ages
<1> HIDE DEF c
<1>3. IsFiniteSet(DOMAIN c)
  BY <1>1, <1>2, FS_AddElement
<1>4. Numbered(c)
  <2>1. \A g \in DOMAIN c : c[g].sequence \in Nat
    BY <1>0, <1>1, <1>2
  <2>2. \A f, g \in DOMAIN c : c[f].sequence = c[g].sequence => f = g
    BY <1>0, <1>1, <1>2
  <2> QED BY <1>3, <2>1, <2>2 DEF Numbered
<1>5. \A g \in DOMAIN c : g \in Candidates /\ c[g] \in Entries /\ c[g].sequence <= sequence + 1
  <2>1. c[h] \in Entries /\ c[h].sequence <= sequence + 1
    BY <1>0, <1>1 DEF Entries
  <2>2. \A g \in DOMAIN c \ {h} : c[g] \in Entries /\ c[g].sequence <= sequence + 1
    BY <1>0, <1>1, <1>2
  <2> QED BY <1>1, <1>2, <2>1, <2>2
<1>6. PICK S \in SUBSET DOMAIN c :
        /\ DOMAIN Trimmed(c) = S
        /\ \A g \in S : Trimmed(c)[g] = c[g]
  <2>1. CASE CacheLimit <= 0
    BY <2>1 DEF Trimmed
  <2>2. CASE ~(CacheLimit <= 0)
    <3>1. Trimmed(c) = Restrict(c, K)
      BY <2>2 DEF Trimmed
    <3>2. K \in SUBSET DOMAIN c
      OBVIOUS
    <3> HIDE DEF K
    <3> QED BY <3>1, <3>2 DEF Restrict
  <2> QED BY <2>1, <2>2
<1>7. CacheLimit > 0 => Cardinality(S) <= CacheLimit
  BY <1>4, <1>6, TrimmedBound
<1>8. IsFiniteSet(S)
  BY <1>3, <1>6, FS_Subset
<1>9. Numbered(Trimmed(c))
  BY <1>4, <1>6, <1>8 DEF Numbered
<1>10. CacheOK(Trimmed(c), sequence + 1)
  BY <1>5, <1>6, <1>7, <1>9 DEF CacheOK
<1>11. ASSUME NEW t \in Int, NEW l \in Int, l <= sequence, NoneExpired(cache, t, l)
       PROVE  NoneExpired(Trimmed(c), t, l)
  <2> SUFFICES ASSUME Expiry > 0, NEW g \in S, c[g].sequence <= l
               PROVE  t - c[g].created <= Expiry
    BY <1>6 DEF NoneExpired
  <2>1. CASE g = h
    BY <1>0, <1>1, <1>11, <2>1
  <2>2. CASE g # h
    <3>1. g \in DOMAIN cache /\ c[g] = cache[g]
      BY <1>1, <1>6, <2>2
    <3> QED BY <1>11, <3>1 DEF NoneExpired
  <2> QED BY <2>1, <2>2
<1> QED BY <1>5, <1>6, <1>10, <1>11 DEF c

-----------------------------------------------------------------------------
(* The steps.                                                              *)

LEMMA InitIInv == Init => IInv
<1> SUFFICES ASSUME Init PROVE IInv
  OBVIOUS
<1> USE BoundAssumption DEF Init
<1>1. IsFiniteSet(DOMAIN cache) /\ DOMAIN cache = {}
  BY FS_EmptySet
<1>2. CacheOK(cache, sequence)
  <2>1. Cardinality(DOMAIN cache) = 0
    BY <1>1, FS_EmptySet
  <2>2. Numbered(cache)
    BY <1>1 DEF Numbered
  <2> QED BY <1>1, <2>1, <2>2, CacheAssumption DEF CacheOK
<1>3. worker \in [Workers -> Calls] /\ \A w \in Workers : worker[w].pc = "idle"
  <2>1. Idle \in Calls /\ Idle.pc = "idle"
    BY DEF Idle, Calls
  <2>2. worker = [w \in Workers |-> Idle]
    OBVIOUS
  <2> QED BY ONLY <2>1, <2>2
<1>4. DOMAIN promised = {}
  OBVIOUS
<1>5. now \in Ages /\ tip \in 0..top /\ top \in 0..MaxTip /\ sequence \in 0..MaxStores
  BY DEF Ages
<1>6. accepted \subseteq Candidates
  OBVIOUS
<1>7. FreshWhenSubmitted
  BY <1>3 DEF FreshWhenSubmitted
<1> QED BY <1>2, <1>3, <1>4, <1>5, <1>6, <1>7 DEF IInv

\* What a step of the call of worker w must show of that call.
CallOK(u, c) ==
    /\ u \in Calls
    /\ u.pc = "get" => u.last <= sequence /\ NoneExpired(c, u.pruned, u.last)
    /\ u.pc = "process" /\ Expiry > 0 /\ u.found.sequence <= u.last
          => u.pruned - u.found.created <= Expiry

\* A step of one worker that leaves no expired candidate to another.
LEMMA WorkerStep ==
    ASSUME IInv, NEW w \in Workers, NEW u, worker' = [worker EXCEPT ![w] = u],
           sequence' \in {sequence, sequence + 1}, CallOK(u, cache'),
           \A t, l \in Int : l <= sequence /\ NoneExpired(cache, t, l) => NoneExpired(cache', t, l)
    PROVE  /\ worker' \in [Workers -> Calls]
           /\ \A v \in Workers : worker'[v].pc = "get" =>
                 /\ worker'[v].last <= sequence'
                 /\ NoneExpired(cache', worker'[v].pruned, worker'[v].last)
           /\ FreshWhenSubmitted'
<1>1. worker \in [Workers -> Calls]
  BY DEF IInv
<1>2. worker'[w] = u /\ \A v \in Workers \ {w} : worker'[v] = worker[v]
  BY <1>1
<1>3. worker' \in [Workers -> Calls]
  BY <1>1 DEF CallOK
<1>4. ASSUME NEW v \in Workers, worker'[v].pc = "get"
      PROVE  /\ worker'[v].last <= sequence'
             /\ NoneExpired(cache', worker'[v].pruned, worker'[v].last)
  <2>1. worker'[v].pruned \in Int /\ worker'[v].last \in Int
    BY <1>3, <1>4 DEF Calls, Idle, Ages
  <2>2. sequence \in Int
    BY DEF IInv
  <2>3. CASE v = w
    BY <1>2, <1>4, <2>1, <2>2, <2>3 DEF CallOK
  <2>4. CASE v # w
    <3>1. worker'[v] = worker[v]
      BY <1>2, <2>4
    <3>2. worker[v].last <= sequence /\ NoneExpired(cache, worker[v].pruned, worker[v].last)
      BY <1>4, <3>1 DEF IInv
    <3> QED BY <2>1, <2>2, <3>1, <3>2
  <2> QED BY <2>3, <2>4
<1>5. FreshWhenSubmitted'
  BY <1>2 DEF FreshWhenSubmitted, IInv, CallOK
<1> QED BY <1>3, <1>4, <1>5

\* A candidate that is stored is promised from the present.
LEMMA PromiseOK ==
    ASSUME IInv, NEW h \in Candidates, NEW S \in SUBSET (DOMAIN promised \cup {h}),
           promised' = [g \in S |-> IF g = h THEN now ELSE promised[g]]
    PROVE  DOMAIN promised' \subseteq Candidates /\ \A g \in DOMAIN promised' : promised'[g] \in Ages
<1>1. DOMAIN promised' = S /\ \A g \in S : promised'[g] = IF g = h THEN now ELSE promised[g]
  OBVIOUS
<1>2. DOMAIN promised \subseteq Candidates /\ now \in Ages /\ \A g \in DOMAIN promised : promised[g] \in Ages
  BY DEF IInv
<1> QED BY <1>1, <1>2

LEMMA NextIInv == IInv /\ [Next]_vars => IInv'
<1> SUFFICES ASSUME IInv, [Next]_vars PROVE IInv'
  OBVIOUS
<1>0. /\ Expiry \in Nat /\ MaxTip \in Nat /\ MaxTime \in Nat /\ MaxStores \in Nat
      /\ tip \in 0..top /\ top \in 0..MaxTip /\ tip \in 0..MaxTip
      /\ now \in Ages /\ now \in Nat /\ sequence \in Nat
      /\ CacheOK(cache, sequence)
      /\ worker \in [Workers -> Calls]
  BY CacheAssumption, BoundAssumption DEF IInv, Ages
<1>same. \A t, l \in Int : l <= sequence /\ NoneExpired(cache, t, l) => NoneExpired(cache, t, l)
  OBVIOUS
<1>1. CASE UNCHANGED vars
  BY <1>1 DEF IInv, vars, FreshWhenSubmitted, NoneExpired, CacheOK, Numbered
<1>2. ASSUME NEW t, SetTip(t)
      PROVE  DOMAIN promised' \subseteq Candidates /\ \A g \in DOMAIN promised' : promised'[g] \in Ages
  BY <1>2 DEF SetTip, IInv, Restrict
<1>3. CASE Connected
  <2>1. SetTip(top') /\ top < MaxTip /\ top' = top + 1 /\ UNCHANGED <<now, cache, sequence, worker, accepted>>
    BY <1>3 DEF Connected, NewTip
  <2>2. tip' \in 0..top' /\ top' \in 0..MaxTip
    BY <1>0, <2>1 DEF SetTip
  <2> QED BY <1>2, <2>1, <2>2 DEF IInv, FreshWhenSubmitted, NoneExpired
<1>4. CASE Reorganised
  <2>1. PICK t \in (0..top) \ {tip} : SetTip(t)
    BY <1>4 DEF Reorganised
  <2>2. UNCHANGED <<top, now, cache, sequence, worker, accepted>> /\ tip' \in 0..top
    BY <1>4, <2>1 DEF Reorganised, SetTip
  <2> QED BY <1>2, <2>1, <2>2 DEF IInv, FreshWhenSubmitted, NoneExpired
<1>5. CASE Tick
  <2>1. now' \in Ages /\ UNCHANGED <<tip, top, cache, sequence, worker, accepted>>
    BY <1>5 DEF Tick
  <2>2. DOMAIN promised' \subseteq Candidates /\ \A g \in DOMAIN promised' : promised'[g] \in Ages
    BY <1>5 DEF Tick, IInv, Restrict
  <2> QED BY <2>1, <2>2 DEF IInv, FreshWhenSubmitted, NoneExpired
<1>6. ASSUME NEW w \in Workers, CreateTemplate(w) PROVE IInv'
  <2>1. PICK x \in Contents :
          worker' = [worker EXCEPT ![w] = [pc |-> "template", hash |-> [prev |-> tip, content |-> x]]]
    BY <1>6 DEF CreateTemplate
  <2>2. CallOK([pc |-> "template", hash |-> [prev |-> tip, content |-> x]], cache')
    BY <1>0 DEF CallOK, Calls, Candidates
  <2>3. UNCHANGED <<tip, top, now, cache, sequence, accepted, promised>>
    BY <1>6 DEF CreateTemplate
  <2> QED BY <1>same, <2>1, <2>2, <2>3, WorkerStep DEF IInv
<1>7. ASSUME NEW w \in Workers, CreateReadTip(w) PROVE IInv'
  <2>1. worker[w].hash \in Candidates
    BY <1>0, <1>7 DEF CreateReadTip, Calls, Idle
  <2>2. /\ CallOK([pc |-> "prune", hash |-> worker[w].hash, tip |-> tip], cache')
        /\ CallOK(Idle, cache')
    BY <1>0, <2>1 DEF CallOK, Calls, Idle
  <2>3. UNCHANGED <<tip, top, now, cache, sequence, accepted, promised>>
    BY <1>7 DEF CreateReadTip
  <2>4. \E u : worker' = [worker EXCEPT ![w] = u] /\ CallOK(u, cache')
    BY <1>7, <2>2 DEF CreateReadTip
  <2> QED BY <1>same, <2>3, <2>4, WorkerStep DEF IInv
<1>8. ASSUME NEW w \in Workers, NEW t, cache' = Pruned(cache, t), UNCHANGED <<now, sequence>>
      PROVE  /\ CacheOK(cache', sequence')
             /\ \A a, l \in Int : l <= sequence /\ NoneExpired(cache, a, l) => NoneExpired(cache', a, l)
             /\ NoneExpired(cache', now, sequence)
  <2> DEFINE S == {h \in DOMAIN cache : h.prev = t /\ ~Expired(cache[h].created, now)}
  <2>1. S \in SUBSET DOMAIN cache /\ cache' = Restrict(cache, S)
    BY <1>8 DEF Pruned
  <2>2. NoneExpired(cache', now, sequence)
    <3>1. \A h \in S : h \in DOMAIN cache /\ ~Expired(cache[h].created, now) /\ cache[h].created \in Nat
      BY <1>0 DEF CacheOK, Entries, Ages
    <3> HIDE DEF S
    <3> QED BY <1>0, <2>1, <3>1 DEF NoneExpired, Expired, Restrict
  <2> HIDE DEF S
  <2> QED BY <1>0, <1>8, <2>1, <2>2, DropOK
<1>9. ASSUME NEW w \in Workers, CreatePrune(w) PROVE IInv'
  <2> DEFINE u == [worker[w] EXCEPT !.pc = "store"]
  <2>1. worker' = [worker EXCEPT ![w] = u]
    BY <1>9 DEF CreatePrune
  <2>2. u \in Calls /\ u.pc = "store"
    BY <1>0, <1>9 DEF CreatePrune, Calls, Idle
  <2>3. CallOK(u, cache')
    BY <2>2 DEF CallOK
  <2>4. cache' = Pruned(cache, worker[w].tip) /\ UNCHANGED <<tip, top, now, sequence, accepted, promised>>
    BY <1>9 DEF CreatePrune
  <2> HIDE DEF u
  <2> QED BY <1>8, <2>1, <2>3, <2>4, WorkerStep DEF IInv
<1>10. ASSUME NEW w \in Workers, CreateStore(w) PROVE IInv'
  <2> DEFINE h == worker[w].hash
             S == {g \in DOMAIN promised \cup {h} :
                     g \in DOMAIN Trimmed(Stored(cache, h)) /\ g.prev = tip}
  <2>1. h \in Candidates
    BY <1>0, <1>10 DEF CreateStore, Calls, Idle
  <2>2. /\ sequence < MaxStores /\ sequence' = sequence + 1
        /\ cache' = Trimmed(Stored(cache, h))
        /\ worker' = [worker EXCEPT ![w] = Idle]
        /\ UNCHANGED <<tip, top, now, accepted>>
    BY <1>10 DEF CreateStore
  <2>3. promised' = [g \in S |-> IF g = h THEN now ELSE promised[g]]
    BY <1>10 DEF CreateStore
  <2>4. S \in SUBSET (DOMAIN promised \cup {h})
    OBVIOUS
  <2> HIDE DEF S, h
  <2>5. DOMAIN promised' \subseteq Candidates /\ \A g \in DOMAIN promised' : promised'[g] \in Ages
    BY <2>1, <2>3, <2>4, PromiseOK
  <2>6. /\ CacheOK(cache', sequence')
        /\ \A a, l \in Int : l <= sequence /\ NoneExpired(cache, a, l) => NoneExpired(cache', a, l)
    BY <2>1, <2>2, StoreOK
  <2>7. CallOK(Idle, cache')
    BY DEF CallOK, Calls, Idle
  <2>8. sequence' \in 0..MaxStores
    BY <1>0, <2>2
  <2> QED BY <2>2, <2>5, <2>6, <2>7, <2>8, WorkerStep DEF IInv
<1>11. ASSUME NEW w \in Workers, SubmitReadTip(w) PROVE IInv'
  <2>1. PICK h \in Candidates : worker' = [worker EXCEPT ![w] = [pc |-> "submit", hash |-> h, tip |-> tip]]
    BY <1>11 DEF SubmitReadTip
  <2>2. CallOK([pc |-> "submit", hash |-> h, tip |-> tip], cache')
    BY <1>0 DEF CallOK, Calls
  <2>3. UNCHANGED <<tip, top, now, cache, sequence, accepted, promised>>
    BY <1>11 DEF SubmitReadTip
  <2> QED BY <1>same, <2>1, <2>2, <2>3, WorkerStep DEF IInv
<1>12. ASSUME NEW w \in Workers, SubmitPrune(w) PROVE IInv'
  <2> DEFINE u == [pc |-> "get", hash |-> worker[w].hash, pruned |-> now, last |-> sequence]
  <2>1. worker[w].hash \in Candidates
    BY <1>0, <1>12 DEF SubmitPrune, Calls, Idle
  <2>2. /\ worker' = [worker EXCEPT ![w] = u]
        /\ cache' = Pruned(cache, worker[w].tip) /\ UNCHANGED <<tip, top, now, sequence, accepted, promised>>
    BY <1>12 DEF SubmitPrune
  <2>3. NoneExpired(cache', now, sequence) /\ sequence \in 0..MaxStores
    BY <1>8, <2>2 DEF IInv
  <2>4. CallOK(u, cache')
    BY <1>0, <2>1, <2>3 DEF CallOK, Calls
  <2> HIDE DEF u
  <2> QED BY <1>8, <2>2, <2>4, WorkerStep DEF IInv
<1>13. ASSUME NEW w \in Workers, SubmitGet(w) PROVE IInv'
  <2> DEFINE h == worker[w].hash
             u == [pc |-> "process", hash |-> h, pruned |-> worker[w].pruned,
                   last |-> worker[w].last, found |-> cache[h]]
  <2>1. /\ worker[w].pc = "get"
        /\ worker' = [worker EXCEPT ![w] = IF h \notin DOMAIN cache THEN Idle ELSE u]
        /\ UNCHANGED <<tip, top, now, cache, sequence, accepted, promised>>
    BY <1>13 DEF SubmitGet
  <2>2. CASE h \notin DOMAIN cache
    <3>1. CallOK(Idle, cache')
      BY DEF CallOK, Calls, Idle
    <3> QED BY <1>same, <2>1, <2>2, <3>1, WorkerStep DEF IInv
  <2>3. CASE h \in DOMAIN cache
    <3>1. h \in Candidates /\ worker[w].pruned \in Ages /\ worker[w].last \in 0..MaxStores
      BY <1>0, <2>1 DEF Calls, Idle
    <3>2. cache[h] \in Entries
      BY <1>0, <2>3 DEF CacheOK
    <3>3. Expiry > 0 /\ cache[h].sequence <= worker[w].last
             => worker[w].pruned - cache[h].created <= Expiry
      BY <2>1, <2>3 DEF IInv, NoneExpired
    <3>4. CallOK(u, cache')
      BY <3>1, <3>2, <3>3 DEF CallOK, Calls
    <3>5. worker' = [worker EXCEPT ![w] = u]
      BY <2>1, <2>3
    <3> HIDE DEF u
    <3> QED BY <1>same, <2>1, <3>4, <3>5, WorkerStep DEF IInv
  <2> QED BY <2>2, <2>3
<1>14. ASSUME NEW w \in Workers, SubmitProcess(w) PROVE IInv'
  <2> DEFINE h == worker[w].hash
  <2>1. h \in Candidates
    BY <1>0, <1>14 DEF SubmitProcess, Calls, Idle
  <2>2. UNCHANGED <<now, cache, sequence>>
    BY <1>14 DEF SubmitProcess
  <2>3. CallOK([pc |-> "remove", hash |-> h], cache') /\ CallOK(Idle, cache')
    BY <2>1 DEF CallOK, Calls, Idle
  <2>4. CASE /\ h \notin accepted /\ NewTip
             /\ accepted' = accepted \cup {h}
             /\ worker' = [worker EXCEPT ![w] = [pc |-> "remove", hash |-> h]]
    <3>1. SetTip(top') /\ tip' \in 0..top' /\ top' \in 0..MaxTip
      BY <1>0, <2>4 DEF NewTip, SetTip
    <3>2. accepted' \subseteq Candidates
      BY <2>1, <2>4 DEF IInv
    <3> HIDE DEF h
    <3> QED BY <1>2, <1>same, <2>2, <2>3, <2>4, <3>1, <3>2, WorkerStep DEF IInv
  <2>5. CASE worker' = [worker EXCEPT ![w] = Idle] /\ UNCHANGED <<tip, top, accepted, promised>>
    BY <1>same, <2>2, <2>3, <2>5, WorkerStep DEF IInv
  <2> QED BY <1>14, <2>4, <2>5 DEF SubmitProcess
<1>15. ASSUME NEW w \in Workers, SubmitRemove(w) PROVE IInv'
  <2> DEFINE S == DOMAIN cache \ {worker[w].hash}
  <2>1. /\ cache' = Restrict(cache, S) /\ worker' = [worker EXCEPT ![w] = Idle]
        /\ UNCHANGED <<tip, top, now, sequence, accepted, promised>>
    BY <1>15 DEF SubmitRemove
  <2>2. S \in SUBSET DOMAIN cache
    OBVIOUS
  <2> HIDE DEF S
  <2>3. /\ CacheOK(cache', sequence')
        /\ \A a, l \in Int : l <= sequence /\ NoneExpired(cache, a, l) => NoneExpired(cache', a, l)
    BY <1>0, <2>1, <2>2, DropOK
  <2>4. CallOK(Idle, cache')
    BY DEF CallOK, Calls, Idle
  <2> QED BY <2>1, <2>3, <2>4, WorkerStep DEF IInv
<1> QED
  BY <1>1, <1>3, <1>4, <1>5, <1>6, <1>7, <1>9, <1>10, <1>11, <1>12, <1>13, <1>14, <1>15 DEF Next

\* The invariant holds in every reachable state.
THEOREM Invariance == Spec => []IInv
BY InitIInv, NextIInv, PTL DEF Spec

\* For any number of workers the calls in progress, the cache and the promises
\* have their types.
THEOREM TypeCorrect == Spec => []TypeOK
<1>1. IInv => TypeOK
  BY DEF IInv, TypeOK, CacheOK, Entries
<1> QED BY <1>1, Invariance, PTL

\* The cache keeps to -auxpowtemplatecachelimit however the calls overlap.
THEOREM LimitKept == Spec => []CacheBounded
<1>1. IInv => CacheBounded
  BY DEF IInv, CacheBounded, CacheOK
<1> QED BY <1>1, Invariance, PTL

\* submitauxblock hands validation no candidate that was cached and had outlived
\* -auxpowtemplateexpiry when it pruned the cache, wherever the clock is put.
THEOREM NothingExpiredSubmitted == Spec => []FreshWhenSubmitted
<1>1. IInv => FreshWhenSubmitted
  BY DEF IInv
<1> QED BY <1>1, Invariance, PTL

-----------------------------------------------------------------------------
(* One worker.  Calls that do not overlap keep what the help promises: the *)
(* tip a call has read is the tip, or nothing is promised any more, since  *)
(* a change of the tip ends the promises and only a later call makes new   *)
(* ones.                                                                   *)

OneWorker == \A v, w \in Workers : v = w

\* A candidate that is promised is on the tip, cached at its age, and not
\* expired, and the call in progress neither prunes nor removes it.
PromisesKept ==
    /\ \A h \in DOMAIN promised :
          /\ h.prev = tip
          /\ h \in DOMAIN cache /\ cache[h].created = promised[h]
          /\ ~Expired(promised[h], now)
    /\ \A w \in Workers :
          /\ worker[w].pc \in {"prune", "submit"} =>
                \A h \in DOMAIN promised : h.prev = worker[w].tip
          /\ worker[w].pc = "remove" => worker[w].hash \notin DOMAIN promised

\* Promises that end, of candidates that stay cached.
LEMMA PromisesShrink ==
    ASSUME PromisesKept, UNCHANGED <<cache, worker>>,
           DOMAIN promised' \subseteq DOMAIN promised,
           \A h \in DOMAIN promised' : /\ promised'[h] = promised[h]
                                       /\ h.prev = tip'
                                       /\ ~Expired(promised[h], now')
    PROVE  PromisesKept'
BY DEF PromisesKept

\* A call that prunes the cache for the tip t drops nothing promised.
LEMMA PruneKeeps ==
    ASSUME PromisesKept, NEW t, \A h \in DOMAIN promised : h.prev = t,
           cache' = Pruned(cache, t)
    PROVE  \A h \in DOMAIN promised : h \in DOMAIN cache' /\ cache'[h] = cache[h]
<1> DEFINE S == {h \in DOMAIN cache : h.prev = t /\ ~Expired(cache[h].created, now)}
<1>1. \A h \in DOMAIN promised : h \in S
  BY DEF PromisesKept
<1>2. cache' = Restrict(cache, S)
  BY DEF Pruned
<1> HIDE DEF S
<1> QED BY <1>1, <1>2 DEF Restrict

\* A step of the only worker that keeps the promises as they are.
LEMMA CallKeeps ==
    ASSUME OneWorker, IInv, PromisesKept, NEW w \in Workers, NEW u,
           worker' = [worker EXCEPT ![w] = u], UNCHANGED <<tip, now, promised>>,
           \A h \in DOMAIN promised : h \in DOMAIN cache' /\ cache'[h] = cache[h],
           u.pc \in {"prune", "submit"} => u.tip = tip,
           u.pc # "remove"
    PROVE  PromisesKept'
<1>1. \A v \in Workers : worker'[v] = u
  BY DEF OneWorker, IInv
<1> QED BY <1>1 DEF PromisesKept

LEMMA PromisesStep ==
    ASSUME OneWorker, IInv, PromisesKept, [Next]_vars
    PROVE  PromisesKept'
<1>0. /\ Expiry \in Nat /\ top \in Nat /\ tip \in Nat /\ tip <= top /\ now \in Nat
      /\ worker \in [Workers -> Calls]
  BY CacheAssumption, BoundAssumption DEF IInv, Ages
<1>same. \A h \in DOMAIN promised : h \in DOMAIN cache /\ cache[h] = cache[h]
  BY DEF PromisesKept
<1>idle. Idle.pc = "idle"
  BY DEF Idle
<1>1. CASE UNCHANGED vars
  BY <1>1 DEF vars, PromisesKept
<1>2. ASSUME NEW t, SetTip(t)
      PROVE  /\ tip' = t /\ DOMAIN promised' = {h \in DOMAIN promised : h.prev = t}
             /\ \A h \in DOMAIN promised' : promised'[h] = promised[h]
  BY <1>2 DEF SetTip, Restrict
<1>3. ASSUME NEW t, SetTip(t), UNCHANGED <<cache, worker, now>> PROVE PromisesKept'
  <2>1. /\ DOMAIN promised' \subseteq DOMAIN promised
        /\ \A h \in DOMAIN promised' : /\ promised'[h] = promised[h]
                                       /\ h.prev = tip'
                                       /\ ~Expired(promised[h], now')
    BY <1>2, <1>3 DEF PromisesKept
  <2> QED BY <1>3, <2>1, PromisesShrink
<1>4. CASE Connected \/ Reorganised
  BY <1>3, <1>4 DEF Connected, Reorganised, NewTip
<1>5. CASE Tick
  <2> DEFINE S == {h \in DOMAIN promised : ~Expired(promised[h], now')}
  <2>1. promised' = Restrict(promised, S) /\ UNCHANGED <<tip, cache, worker>>
    BY <1>5 DEF Tick
  <2>2. DOMAIN promised' = S /\ \A h \in S : promised'[h] = promised[h]
    <3> HIDE DEF S
    <3> QED BY <2>1 DEF Restrict
  <2>3. \A h \in S : h \in DOMAIN promised /\ ~Expired(promised[h], now') /\ h.prev = tip'
    BY <2>1 DEF PromisesKept
  <2> HIDE DEF S
  <2> QED BY <2>1, <2>2, <2>3, PromisesShrink
<1>6. ASSUME NEW w \in Workers, CreateTemplate(w) PROVE PromisesKept'
  <2>1. PICK x \in Contents :
          worker' = [worker EXCEPT ![w] = [pc |-> "template", hash |-> [prev |-> tip, content |-> x]]]
    BY <1>6 DEF CreateTemplate
  <2> DEFINE u == [pc |-> "template", hash |-> [prev |-> tip, content |-> x]]
  <2>2. worker' = [worker EXCEPT ![w] = u] /\ u.pc = "template"
    BY <2>1
  <2>3. UNCHANGED <<tip, now, cache, promised>>
    BY <1>6 DEF CreateTemplate
  <2> HIDE DEF u
  <2> QED BY <1>same, <2>2, <2>3, CallKeeps
<1>7. ASSUME NEW w \in Workers, CreateReadTip(w) PROVE PromisesKept'
  <2>1. \/ worker' = [worker EXCEPT ![w] = [pc |-> "prune", hash |-> worker[w].hash, tip |-> tip]]
        \/ worker' = [worker EXCEPT ![w] = [pc |-> "idle"]]
    BY <1>7 DEF CreateReadTip, Idle
  <2> QED BY <1>7, <1>same, <2>1, CallKeeps DEF CreateReadTip
<1>8. ASSUME NEW w \in Workers, CreatePrune(w) PROVE PromisesKept'
  <2> DEFINE u == [worker[w] EXCEPT !.pc = "store"]
  <2>1. worker[w].pc = "prune" /\ cache' = Pruned(cache, worker[w].tip)
        /\ worker' = [worker EXCEPT ![w] = u] /\ UNCHANGED <<tip, now, promised>>
    BY <1>8 DEF CreatePrune
  <2>2. u.pc = "store"
    BY <1>0, <2>1 DEF Calls, Idle
  <2>3. \A h \in DOMAIN promised : h \in DOMAIN cache' /\ cache'[h] = cache[h]
    BY <2>1, PruneKeeps DEF PromisesKept
  <2> HIDE DEF u
  <2> QED BY <2>1, <2>2, <2>3, CallKeeps
<1>9. ASSUME NEW w \in Workers, CreateStore(w) PROVE PromisesKept'
  <2> DEFINE h == worker[w].hash
             c == Stored(cache, h)
             S == {g \in DOMAIN promised \cup {h} : g \in DOMAIN Trimmed(c) /\ g.prev = tip}
             K == {f \in DOMAIN c :
                     Cardinality({g \in DOMAIN c : c[g].sequence > c[f].sequence}) < CacheLimit}
  <2>1. /\ cache' = Trimmed(c) /\ worker' = [worker EXCEPT ![w] = Idle]
        /\ UNCHANGED <<tip, now>>
        /\ promised' = [g \in S |-> IF g = h THEN now ELSE promised[g]]
    BY <1>9 DEF CreateStore
  <2>2. \A g \in DOMAIN Trimmed(c) : g \in DOMAIN c /\ Trimmed(c)[g] = c[g]
    <3>1. Trimmed(c) = c \/ Trimmed(c) = Restrict(c, K)
      BY DEF Trimmed
    <3>2. K \subseteq DOMAIN c
      OBVIOUS
    <3> HIDE DEF K, c
    <3> QED BY <3>1, <3>2 DEF Restrict
  <2>3. \A g \in DOMAIN c : c[g].created = IF g = h THEN now ELSE cache[g].created
    BY DEF Stored
  <2>4. \A g \in S : /\ g.prev = tip /\ g \in DOMAIN cache'
                     /\ g # h => g \in DOMAIN promised
                     /\ cache'[g] = c[g] /\ g \in DOMAIN c
    BY <2>1, <2>2
  <2>5. DOMAIN promised' = S /\ \A g \in S : promised'[g] = IF g = h THEN now ELSE promised[g]
    BY <2>1
  <2>6. ~Expired(now, now)
    BY <1>0 DEF Expired
  <2>7. \A v \in Workers : worker'[v] = Idle
    BY <1>0, <2>1 DEF OneWorker
  <2> HIDE DEF S, h, c
  <2>8. \A g \in DOMAIN promised' :
          /\ g.prev = tip' /\ g \in DOMAIN cache' /\ cache'[g].created = promised'[g]
          /\ ~Expired(promised'[g], now')
    BY <2>1, <2>3, <2>4, <2>5, <2>6 DEF PromisesKept
  <2> QED BY <2>7, <2>8 DEF PromisesKept, Idle
<1>10. ASSUME NEW w \in Workers, SubmitReadTip(w) PROVE PromisesKept'
  <2>1. PICK h \in Candidates : worker' = [worker EXCEPT ![w] = [pc |-> "submit", hash |-> h, tip |-> tip]]
    BY <1>10 DEF SubmitReadTip
  <2> DEFINE u == [pc |-> "submit", hash |-> h, tip |-> tip]
  <2>2. worker' = [worker EXCEPT ![w] = u] /\ u.pc = "submit" /\ u.tip = tip
    BY <2>1
  <2>3. UNCHANGED <<tip, now, cache, promised>>
    BY <1>10 DEF SubmitReadTip
  <2> HIDE DEF u
  <2> QED BY <1>same, <2>2, <2>3, CallKeeps
<1>11. ASSUME NEW w \in Workers, SubmitPrune(w) PROVE PromisesKept'
  <2> DEFINE u == [pc |-> "get", hash |-> worker[w].hash, pruned |-> now, last |-> sequence]
  <2>1. /\ worker[w].pc = "submit" /\ cache' = Pruned(cache, worker[w].tip)
        /\ worker' = [worker EXCEPT ![w] = u] /\ u.pc = "get"
        /\ UNCHANGED <<tip, now, promised>>
    BY <1>11 DEF SubmitPrune
  <2>2. \A h \in DOMAIN promised : h \in DOMAIN cache' /\ cache'[h] = cache[h]
    BY <2>1, PruneKeeps DEF PromisesKept
  <2> HIDE DEF u
  <2> QED BY <2>1, <2>2, CallKeeps
<1>12. ASSUME NEW w \in Workers, SubmitGet(w) PROVE PromisesKept'
  <2> DEFINE u == IF worker[w].hash \notin DOMAIN cache THEN Idle
                  ELSE [pc |-> "process", hash |-> worker[w].hash, pruned |-> worker[w].pruned,
                        last |-> worker[w].last, found |-> cache[worker[w].hash]]
  <2>1. worker' = [worker EXCEPT ![w] = u] /\ UNCHANGED <<tip, now, cache, promised>>
    BY <1>12 DEF SubmitGet
  <2>2. u.pc \in {"idle", "process"}
    BY DEF Idle
  <2> HIDE DEF u
  <2> QED BY <1>same, <2>1, <2>2, CallKeeps
<1>13. ASSUME NEW w \in Workers, SubmitProcess(w) PROVE PromisesKept'
  <2> DEFINE h == worker[w].hash
  <2>1. UNCHANGED <<now, cache>>
    BY <1>13 DEF SubmitProcess
  <2>2. CASE NewTip /\ worker' = [worker EXCEPT ![w] = [pc |-> "remove", hash |-> h]]
    <3>1. SetTip(top + 1) /\ top + 1 # tip
      BY <1>0, <2>2 DEF NewTip
    <3>2. /\ tip' = top + 1
          /\ \A g \in DOMAIN promised' : /\ g \in DOMAIN promised /\ g.prev = tip'
                                         /\ promised'[g] = promised[g]
      BY <1>2, <3>1
    <3>3. h \notin DOMAIN promised'
      BY <3>1, <3>2 DEF PromisesKept
    <3>4. \A v \in Workers : worker'[v].pc = "remove" /\ worker'[v].hash = h
      BY <1>0, <2>2 DEF OneWorker
    <3> HIDE DEF h
    <3> QED BY <2>1, <3>2, <3>3, <3>4 DEF PromisesKept
  <2>3. CASE worker' = [worker EXCEPT ![w] = Idle] /\ UNCHANGED <<tip, promised>>
    BY <1>same, <1>idle, <2>1, <2>3, CallKeeps
  <2> QED BY <1>13, <2>2, <2>3 DEF SubmitProcess
<1>14. ASSUME NEW w \in Workers, SubmitRemove(w) PROVE PromisesKept'
  <2>1. /\ worker[w].pc = "remove"
        /\ cache' = Restrict(cache, DOMAIN cache \ {worker[w].hash})
        /\ worker' = [worker EXCEPT ![w] = Idle] /\ UNCHANGED <<tip, now, promised>>
    BY <1>14 DEF SubmitRemove
  <2>2. \A h \in DOMAIN promised : h \in DOMAIN cache' /\ cache'[h] = cache[h]
    BY <2>1 DEF PromisesKept, Restrict
  <2> QED BY <1>idle, <2>1, <2>2, CallKeeps
<1> QED
  BY <1>1, <1>4, <1>5, <1>6, <1>7, <1>8, <1>9, <1>10, <1>11, <1>12, <1>13, <1>14 DEF Next

\* With one worker thread the candidates stay cached as the help of
\* createauxblock says, whatever the tip does between the steps of a call: only
\* calls that overlap prune for a tip that another call has moved past.
THEOREM CachedWithOneWorker ==
    ASSUME OneWorker
    PROVE  Spec => []CachedWhileCurrent
<1>1. Init => PromisesKept
  BY DEF Init, PromisesKept, Idle
<1>2. IInv /\ PromisesKept /\ [Next]_vars => PromisesKept'
  BY PromisesStep
<1>3. PromisesKept => CachedWhileCurrent
  BY DEF PromisesKept, CachedWhileCurrent
<1> QED BY <1>1, <1>2, <1>3, Invariance, PTL DEF Spec
=============================================================================
