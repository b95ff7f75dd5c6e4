-------------------------- MODULE RelayEngineProofs --------------------------
(***************************************************************************)
(* For any number of blocks, peers and chunks and any limits: a known      *)
(* block leaves no entry behind, the history of known blocks is consistent *)
(* and forgets the oldest only, the entries keep to their limits, and an   *)
(* entry that has expired is not taken up again.                           *)
(***************************************************************************)
EXTENDS RelayEngine, FiniteSetTheorems, WellFoundedInduction, TLAPS

-----------------------------------------------------------------------------
(* The history of known blocks.                                            *)

\* The queue holds each known block once.
SeenOK ==
    /\ seen_order \in Seq(Prefixes)
    /\ seen_set = Range(seen_order)
    /\ \A i, j \in 1..Len(seen_order) : seen_order[i] = seen_order[j] => i = j
    /\ IsFiniteSet(seen_set) /\ Cardinality(seen_set) = Len(seen_order)
    /\ Len(seen_order) <= SeenCapacity

\* The blocks after a block in the queue became known after it, and one that
\* has left the queue was followed by as many as the queue holds.
SinceOK ==
    /\ \A i \in 1..Len(seen_order) : seen_order[i] \in DOMAIN since
    /\ \A i, j \in 1..Len(seen_order) : i < j => seen_order[j] \in since[seen_order[i]]
    /\ \A p \in DOMAIN since :
          /\ IsFiniteSet(since[p])
          /\ p \notin seen_set => Cardinality(since[p]) >= SeenCapacity

LEMMA RememberSeenOK ==
    ASSUME SeenOK, SinceOK, NEW p \in Prefixes, p \notin seen_set, RememberSeen(p)
    PROVE  SeenOK' /\ SinceOK' /\ seen_set' \subseteq seen_set \cup {p}
<1> DEFINE n == Len(seen_order)
<1>0. /\ SeenCapacity \in Nat /\ n \in Nat /\ n <= SeenCapacity /\ seen_order \in Seq(Prefixes)
      /\ seen_set = Range(seen_order) /\ IsFiniteSet(seen_set) /\ Cardinality(seen_set) = n
  BY RelayAssumption DEF SeenOK
<1>1. /\ DOMAIN since' = DOMAIN since \cup {p}
      /\ since'[p] = {}
      /\ \A q \in DOMAIN since \ {p} : since'[q] = since[q] \cup {p}
  BY DEF RememberSeen
<1>2. \A q \in DOMAIN since' : IsFiniteSet(since'[q])
  <2> SUFFICES ASSUME NEW q \in DOMAIN since' PROVE IsFiniteSet(since'[q])
    OBVIOUS
  <2>1. CASE q = p
    BY <1>1, <2>1, FS_EmptySet
  <2>2. CASE q # p
    <3>1. IsFiniteSet(since[q]) /\ since'[q] = since[q] \cup {p}
      BY <1>1, <2>2 DEF SinceOK
    <3> QED BY <3>1, FS_AddElement
  <2> QED BY <2>1, <2>2
<1>3. \A q \in DOMAIN since \ {p} :
         q \notin seen_set => Cardinality(since'[q]) >= SeenCapacity
  <2> SUFFICES ASSUME NEW q \in DOMAIN since \ {p}, q \notin seen_set
               PROVE  Cardinality(since'[q]) >= SeenCapacity
    OBVIOUS
  <2>1. /\ IsFiniteSet(since[q]) /\ Cardinality(since[q]) >= SeenCapacity
        /\ since[q] \subseteq since'[q] /\ IsFiniteSet(since'[q])
    BY <1>1, <1>2 DEF SinceOK
  <2>2. Cardinality(since[q]) <= Cardinality(since'[q])
    BY <2>1, FS_Subset
  <2>3. Cardinality(since[q]) \in Nat /\ Cardinality(since'[q]) \in Nat
    BY <2>1, FS_CardinalityType
  <2> QED BY <1>0, <2>1, <2>2, <2>3
<1>4. CASE SeenCapacity = 0
  <2>1. seen_order' = <<>> /\ seen_set' = {}
    BY <1>4 DEF RememberSeen
  <2>2. SeenOK'
    BY <1>4, <2>1, FS_EmptySet DEF SeenOK, Range
  <2>3. \A q \in DOMAIN since' : Cardinality(since'[q]) >= SeenCapacity
    BY <1>2, <1>4, FS_CardinalityType
  <2>4. SinceOK'
    BY <1>2, <2>1, <2>3 DEF SinceOK
  <2> QED BY <2>1, <2>2, <2>4
<1>5. CASE SeenCapacity > 0 /\ n < SeenCapacity
  <2>1. seen_order' = Append(seen_order, p) /\ seen_set' = seen_set \cup {p}
    BY <1>0, <1>5 DEF RememberSeen
  <2>2. /\ seen_order' \in Seq(Prefixes) /\ Len(seen_order') = n + 1
        /\ \A i \in 1..n : seen_order'[i] = seen_order[i]
        /\ seen_order'[n + 1] = p
    BY <1>0, <2>1
  <2>3. seen_set' = Range(seen_order')
    BY <1>0, <2>1, <2>2 DEF Range
  <2>4. IsFiniteSet(seen_set') /\ Cardinality(seen_set') = n + 1
    BY <1>0, <2>1, FS_AddElement
  <2>6. \A i \in 1..n : seen_order[i] \in DOMAIN since /\ seen_order[i] # p
    BY <1>0 DEF SinceOK, Range
  <2>5. SeenOK'
    <3>1. \A i, j \in 1..(n + 1) : seen_order'[i] = seen_order'[j] => i = j
      BY <1>0, <2>2, <2>6 DEF SeenOK
    <3> QED BY <1>0, <1>5, <2>2, <2>3, <2>4, <3>1 DEF SeenOK
  <2>7. \A i \in 1..(n + 1) : seen_order'[i] \in DOMAIN since'
    BY <1>0, <1>1, <2>2, <2>6
  <2>8. ASSUME NEW i \in 1..(n + 1), NEW j \in 1..(n + 1), i < j
        PROVE  seen_order'[j] \in since'[seen_order'[i]]
    <3>1. i \in 1..n /\ since'[seen_order'[i]] = since[seen_order[i]] \cup {p}
      BY <1>0, <1>1, <2>2, <2>6, <2>8
    <3>2. CASE j = n + 1
      BY <2>2, <3>1, <3>2
    <3>3. CASE j # n + 1
      <4>1. j \in 1..n /\ seen_order'[j] = seen_order[j]
        BY <1>0, <2>2, <3>3
      <4>2. seen_order[j] \in since[seen_order[i]]
        BY <2>8, <3>1, <4>1 DEF SinceOK
      <4> QED BY <3>1, <4>1, <4>2
    <3> QED BY <3>2, <3>3
  <2>9. SinceOK'
    BY <1>1, <1>2, <1>3, <2>1, <2>2, <2>7, <2>8 DEF SinceOK
  <2> QED BY <2>1, <2>5, <2>9
<1>6. CASE SeenCapacity > 0 /\ n = SeenCapacity
  <2> DEFINE old == seen_order[1]
             kept == SubSeq(seen_order, 2, n)
  <2>1. /\ kept \in Seq(Prefixes) /\ Len(kept) = n - 1
        /\ \A i \in 1..(n - 1) : kept[i] = seen_order[i + 1]
    BY <1>0, <1>6
  <2>2. seen_order' = Append(kept, p) /\ seen_set' = (seen_set \ (Range(seen_order) \ Range(kept))) \cup {p}
    BY <1>0, <1>6 DEF RememberSeen
  <2> HIDE DEF kept
  <2>3. /\ seen_order' \in Seq(Prefixes) /\ Len(seen_order') = n
        /\ \A i \in 1..(n - 1) : seen_order'[i] = seen_order[i + 1]
        /\ seen_order'[n] = p
    BY <1>0, <1>6, <2>1, <2>2
  <2>4. \A i \in 1..n : seen_order[i] \in DOMAIN since /\ seen_order[i] # p /\ seen_order[i] \in seen_set
    BY <1>0 DEF SinceOK, Range
  <2>5. \A i, j \in 1..n : seen_order[i] = seen_order[j] => i = j
    BY DEF SeenOK
  <2>6. \A i, j \in 1..n : seen_order'[i] = seen_order'[j] => i = j
    BY <1>0, <2>3, <2>4, <2>5
  <2>7. Range(kept) = seen_set \ {old}
    <3>1. ASSUME NEW q \in Range(kept) PROVE q \in seen_set \ {old}
      <4>1. PICK i \in 1..(n - 1) : q = kept[i]
        BY <2>1 DEF Range
      <4>2. i + 1 \in 1..n /\ 1 \in 1..n /\ i + 1 # 1 /\ q = seen_order[i + 1]
        BY <1>0, <2>1, <4>1
      <4> QED BY <2>4, <2>5, <4>2
    <3>2. ASSUME NEW q \in seen_set \ {old} PROVE q \in Range(kept)
      <4>1. PICK i \in 1..n : q = seen_order[i]
        BY <1>0 DEF Range
      <4>2. i - 1 \in 1..(n - 1) /\ kept[i - 1] = q
        BY <1>0, <2>1, <4>1
      <4> QED BY <2>1, <4>2 DEF Range
    <3> QED BY <3>1, <3>2
  <2>8. seen_set' = (seen_set \ {old}) \cup {p}
    BY <1>0, <2>2, <2>7
  <2>9. seen_set' = Range(seen_order')
    <3>0. DOMAIN kept = 1..(n - 1) /\ DOMAIN seen_order' = 1..n
      BY <1>0, <2>1, <2>3
    <3>1. ASSUME NEW q \in Range(kept) PROVE q \in Range(seen_order')
      <4>1. PICK i \in 1..(n - 1) : q = kept[i]
        BY <3>0 DEF Range
      <4>2. i \in 1..n /\ seen_order'[i] = q
        BY <1>0, <2>1, <2>3, <4>1
      <4> QED BY <3>0, <4>2 DEF Range
    <3>2. ASSUME NEW q \in Range(seen_order') PROVE q \in Range(kept) \cup {p}
      <4>1. PICK i \in 1..n : q = seen_order'[i]
        BY <3>0 DEF Range
      <4>2. i = n \/ (i \in 1..(n - 1) /\ q = kept[i])
        BY <1>0, <2>1, <2>3, <4>1
      <4> QED BY <2>3, <3>0, <4>1, <4>2 DEF Range
    <3>3. p \in Range(seen_order')
      <4>1. n \in 1..n
        BY <1>0, <1>6
      <4> QED BY <2>3, <3>0, <4>1 DEF Range
    <3> QED BY <2>7, <2>8, <3>1, <3>2, <3>3
  <2>10. IsFiniteSet(seen_set') /\ Cardinality(seen_set') = n
    <3>1. old \in seen_set
      BY <1>0, <1>6, <2>4
    <3> HIDE DEF old
    <3>2. IsFiniteSet(seen_set \ {old}) /\ Cardinality(seen_set \ {old}) = n - 1
      BY <1>0, <3>1, FS_RemoveElement
    <3>3. p \notin seen_set \ {old}
      OBVIOUS
    <3>4. IsFiniteSet(seen_set') /\ Cardinality(seen_set') = Cardinality(seen_set \ {old}) + 1
      BY <2>8, <3>2, <3>3, FS_AddElement
    <3> QED BY <1>0, <3>2, <3>4
  <2>11. SeenOK'
    BY <1>0, <2>3, <2>6, <2>9, <2>10 DEF SeenOK
  <2>12. \A i \in 1..n : seen_order'[i] \in DOMAIN since'
    BY <1>0, <1>1, <2>3, <2>4
  <2>13. ASSUME NEW i \in 1..n, NEW j \in 1..n, i < j
         PROVE  seen_order'[j] \in since'[seen_order'[i]]
    <3>1. i + 1 \in 1..n /\ since'[seen_order'[i]] = since[seen_order[i + 1]] \cup {p}
      <4>1. i \in 1..(n - 1) /\ i + 1 \in 1..n
        BY <1>0, <2>13
      <4>2. seen_order'[i] = seen_order[i + 1] /\ seen_order[i + 1] \in DOMAIN since \ {p}
        BY <2>3, <2>4, <4>1
      <4> QED BY <1>1, <4>1, <4>2
    <3>2. CASE j = n
      BY <2>3, <3>1, <3>2
    <3>3. CASE j # n
      <4>1. j + 1 \in 1..n /\ seen_order'[j] = seen_order[j + 1] /\ i + 1 < j + 1
        BY <1>0, <2>3, <2>13, <3>3
      <4>2. seen_order[j + 1] \in since[seen_order[i + 1]]
        BY <3>1, <4>1 DEF SinceOK
      <4> QED BY <3>1, <4>1, <4>2
    <3> QED BY <3>2, <3>3
  <2>14. Cardinality(since'[old]) >= SeenCapacity
    <3>1. old \in DOMAIN since /\ old # p /\ since'[old] = since[old] \cup {p}
      BY <1>0, <1>1, <1>6, <2>4
    <3>2. seen_set' \subseteq since'[old]
      <4> SUFFICES ASSUME NEW q \in seen_set, q # old PROVE q \in since[old]
        BY <2>8, <3>1
      <4>1. PICK i \in 1..n : q = seen_order[i]
        BY <1>0 DEF Range
      <4>2. 1 \in 1..n /\ 1 < i
        BY <1>0, <1>6, <4>1
      <4> QED BY <4>1, <4>2 DEF SinceOK
    <3>3. IsFiniteSet(since'[old])
      BY <1>1, <1>2, <3>1
    <3> HIDE DEF old
    <3>4. Cardinality(seen_set') <= Cardinality(since'[old])
      BY <3>2, <3>3, FS_Subset
    <3> QED BY <1>6, <2>10, <3>4
  <2>15. \A q \in DOMAIN since' : q \notin seen_set' => Cardinality(since'[q]) >= SeenCapacity
    BY <1>1, <1>3, <2>8, <2>14
  <2>16. SinceOK'
    BY <1>2, <2>3, <2>12, <2>13, <2>15 DEF SinceOK
  <2> QED BY <2>8, <2>11, <2>16
<1> QED BY <1>0, <1>4, <1>5, <1>6

-----------------------------------------------------------------------------
(* The entries.                                                            *)

\* An entry buffers chunks until it has a decoder.
EntryOK(e) ==
    /\ e \in [decoder : BOOLEAN, chunks : SUBSET (Groups \X ChunkIds), buffer : Seq(Chunks),
              first_seen : 0..MaxTime, last_updated : 0..MaxTime]
    /\ Len(e.buffer) <= MaxPerEntry
    /\ IF e.decoder THEN e.buffer = <<>> ELSE e.chunks = {}

\* The entries of the map m keep to their limits, none is of a known block.
MapOK(m) ==
    /\ m = [k \in DOMAIN m |-> m[k]]
    /\ DOMAIN m \subseteq Keys /\ IsFiniteSet(DOMAIN m) /\ Cardinality(DOMAIN m) <= MaxEntries
    /\ \A k \in DOMAIN m : EntryOK(m[k]) /\ k[1] \notin seen_set

\* An entry of m is new, or is in the store and has not expired there.
Current(m) ==
    \A k \in DOMAIN m : \/ m[k].first_seen = now
                        \/ k \in DOMAIN store.map /\ now - store.map[k].last_updated <= MaxAge

\* The counter of a store is the number of chunks its entries have buffered.
Counted(st) ==
    /\ DOMAIN st = {"map", "buffered"}
    /\ st.buffered = Buffered(st.map, DOMAIN st.map)
    /\ st.buffered \in 0..MaxBuffered

Outbounds == [prefix : Prefixes \cup {0}, header_sent : BOOLEAN, cursor : 0..TotalChunks]

IInv ==
    /\ Counted(store) /\ MapOK(store.map)
    /\ now \in 0..MaxTime
    /\ outbound \in Outbounds
    /\ SeenOK /\ SinceOK

\* A set of naturals that is not empty has a least element.
LEMMA LeastNatural ==
    ASSUME NEW T, T \subseteq Nat, T # {}
    PROVE  \E x \in T : \A y \in T : x <= y
<1>1. PICK x \in T : \A y \in T : ~(<<y, x>> \in OpToRel(<, Nat))
  BY NatLessThanWellFounded, WFMin
<1>2. \A y \in T : ~(y < x)
  BY <1>1 DEF OpToRel
<1> QED BY <1>2

\* Among some entries there is an oldest.
LEMMA OldestEntry ==
    ASSUME NEW m, NEW K \in SUBSET Keys, K # {}, \A k \in K : m[k].first_seen \in Nat
    PROVE  \E k \in K : \A j \in K \ {k} : Older(m, k, j)
<1>0. \A k \in K : k[1] \in Nat /\ k[2] \in Nat /\ k = <<k[1], k[2]>>
  <2> SUFFICES ASSUME NEW k \in Prefixes \X Peers
               PROVE  k[1] \in Nat /\ k[2] \in Nat /\ k = <<k[1], k[2]>>
    BY DEF Keys
  <2>1. k[1] \in Prefixes /\ k[2] \in Peers /\ k = <<k[1], k[2]>>
    OBVIOUS
  <2> QED BY <2>1, RelayAssumption
<1> DEFINE T == {m[k].first_seen : k \in K}
<1>1. PICK a \in T : \A y \in T : a <= y
  <2>1. T \subseteq Nat /\ T # {}
    OBVIOUS
  <2> HIDE DEF T
  <2> QED BY <2>1, LeastNatural
<1> DEFINE K1 == {k \in K : m[k].first_seen = a}
           P == {k[1] : k \in K1}
<1>2. PICK b \in P : \A y \in P : b <= y
  <2>1. P \subseteq Nat /\ P # {}
    BY <1>0, <1>1
  <2> HIDE DEF P
  <2> QED BY <2>1, LeastNatural
<1> DEFINE K2 == {k \in K1 : k[1] = b}
           Q == {k[2] : k \in K2}
<1>3. PICK c \in Q : \A y \in Q : c <= y
  <2>1. Q \subseteq Nat /\ Q # {}
    BY <1>0, <1>2
  <2> HIDE DEF Q
  <2> QED BY <2>1, LeastNatural
<1>4. PICK k \in K2 : k[2] = c
  BY <1>3
<1>5. ASSUME NEW j \in K \ {k} PROVE Older(m, k, j)
  <2>1. m[k].first_seen = a /\ k[1] = b /\ k[2] = c /\ a \in Nat /\ b \in Nat /\ c \in Nat /\ k \in K
    BY <1>0, <1>4
  <2>2. m[j].first_seen \in Nat /\ a <= m[j].first_seen
    BY <1>1
  <2>3. CASE m[j].first_seen # a
    BY <2>1, <2>2, <2>3 DEF Older
  <2>4. CASE m[j].first_seen = a
    <3>1. j \in K1 /\ j[1] \in Nat /\ b <= j[1]
      BY <1>0, <1>2, <2>4
    <3>2. CASE j[1] # b
      BY <2>1, <2>4, <3>1, <3>2 DEF Older, Less
    <3>3. CASE j[1] = b
      <4>1. j[2] \in Nat /\ c <= j[2] /\ j[2] # c
        BY <1>0, <1>3, <2>1, <3>1, <3>3
      <4> QED BY <2>1, <2>4, <3>3, <4>1 DEF Older, Less
    <3> QED BY <3>2, <3>3
  <2> QED BY <2>3, <2>4
<1> QED BY <1>4, <1>5

\* The chunks buffered for some entries are finitely many.
LEMMA BufferedFinite ==
    ASSUME NEW m, MapOK(m), NEW K \in SUBSET DOMAIN m
    PROVE  IsFiniteSet(BufferedChunks(m, K)) /\ Buffered(m, K) \in Nat
<1> DEFINE S == BufferedChunks(m, K)
           I == 1..MaxPerEntry
           D == DOMAIN m
           T == D \X I
<1>1. \A k \in K : DOMAIN m[k].buffer \subseteq I
  <2> TAKE k \in K
  <2> DEFINE b == m[k].buffer
  <2>1. b \in Seq(Chunks) /\ Len(b) <= MaxPerEntry /\ MaxPerEntry \in Nat
    BY RelayAssumption DEF MapOK, EntryOK
  <2> HIDE DEF b
  <2>2. DOMAIN b = 1..Len(b) /\ Len(b) \in Nat
    BY <2>1
  <2>3. DOMAIN b \subseteq 1..MaxPerEntry
    BY <2>1, <2>2
  <2> QED BY <2>3 DEF b
<1>2. IsFiniteSet(D) /\ IsFiniteSet(I) /\ K \subseteq D
  <2>1. IsFiniteSet(DOMAIN m) /\ MaxPerEntry \in Nat
    BY RelayAssumption DEF MapOK
  <2> QED BY <2>1, FS_Interval
<1> HIDE DEF D, I
<1>3. S \subseteq T /\ IsFiniteSet(T)
  <2>1. ASSUME NEW x \in S PROVE x \in T
    <3>1. PICK k \in K : x \in {k} \X DOMAIN m[k].buffer
      BY <2>1 DEF BufferedChunks
    <3> QED BY <1>1, <1>2, <3>1
  <2>2. IsFiniteSet(T)
    BY <1>2, FS_Product
  <2> QED BY <2>1, <2>2
<1> HIDE DEF S, T
<1>4. IsFiniteSet(S) /\ Cardinality(S) \in Nat
  BY <1>3, FS_Subset, FS_CardinalityType
<1> QED BY <1>4 DEF S, Buffered

\* What is buffered for some entries and for the others adds up.
LEMMA BufferedSplit ==
    ASSUME NEW m, MapOK(m), NEW K \in SUBSET DOMAIN m
    PROVE  Buffered(m, DOMAIN m) = Buffered(m, K) + Buffered(m, DOMAIN m \ K)
<1> DEFINE S == BufferedChunks(m, K)
           T == BufferedChunks(m, DOMAIN m \ K)
           U == BufferedChunks(m, DOMAIN m)
<1>1. IsFiniteSet(S) /\ IsFiniteSet(T) /\ Cardinality(S) \in Nat /\ Cardinality(T) \in Nat
  <2>1. K \in SUBSET DOMAIN m /\ DOMAIN m \ K \in SUBSET DOMAIN m
    OBVIOUS
  <2> QED BY <2>1, BufferedFinite DEF Buffered
<1>2. U = S \cup T
  BY DEF BufferedChunks
<1>3. S \cap T = {}
  BY DEF BufferedChunks
<1> HIDE DEF S, T, U
<1>4. Cardinality(U) = Cardinality(S) + Cardinality(T)
  BY <1>1, <1>2, <1>3, FS_Union, FS_EmptySet
<1> QED BY <1>4 DEF Buffered, S, T, U

\* What is buffered depends on the buffers only.
LEMMA BufferedFrame ==
    ASSUME NEW m, NEW u, NEW K, \A k \in K : m[k].buffer = u[k].buffer
    PROVE  Buffered(m, K) = Buffered(u, K)
<1>1. BufferedChunks(m, K) = BufferedChunks(u, K)
  BY DEF BufferedChunks
<1> QED BY <1>1 DEF Buffered

\* A store whose entry of k is replaced by one with the same buffer.
LEMMA UpdatedCounted ==
    ASSUME NEW st, Counted(st), NEW k \in DOMAIN st.map, NEW e, e.buffer = st.map[k].buffer,
           NEW w, DOMAIN w = {"map", "buffered"}, w.map = [st.map EXCEPT ![k] = e],
           w.buffered = st.buffered
    PROVE  Counted(w)
<1> DEFINE u == [st.map EXCEPT ![k] = e]
<1>1. DOMAIN u = DOMAIN st.map /\ \A j \in DOMAIN st.map : st.map[j].buffer = u[j].buffer
  OBVIOUS
<1> HIDE DEF u
<1>2. Buffered(st.map, DOMAIN st.map) = Buffered(u, DOMAIN u)
  BY <1>1, BufferedFrame
<1> QED BY <1>2 DEF Counted, u

\* Erasing entries takes what they have buffered from the counter.
LEMMA ErasedMap ==
    ASSUME NEW st, Counted(st), MapOK(st.map), NEW K \in SUBSET DOMAIN st.map
    PROVE  /\ Counted(Erased(st, K)) /\ MapOK(Erased(st, K).map)
           /\ DOMAIN Erased(st, K).map = DOMAIN st.map \ K
           /\ \A k \in DOMAIN st.map \ K : Erased(st, K).map[k] = st.map[k]
           /\ Current(st.map) => Current(Erased(st, K).map)
<1> DEFINE m == Erased(st, K).map
           S == DOMAIN st.map \ K
           b == Buffered(st.map, K)
<1>0. /\ Erased(st, K) = [map |-> Restrict(st.map, S),
                          buffered |-> IF b <= st.buffered THEN st.buffered - b ELSE 0]
      /\ m = Restrict(st.map, S)
  BY DEF Erased
<1>1. /\ DOMAIN Erased(st, K) = {"map", "buffered"} /\ m = Restrict(st.map, S)
      /\ Erased(st, K).buffered = IF b <= st.buffered THEN st.buffered - b ELSE 0
  <2> HIDE DEF b, S
  <2> QED BY <1>0
<1> HIDE DEF m
<1>2. m = [k \in S |-> st.map[k]]
  BY <1>1 DEF Restrict
<1>3. DOMAIN m = S /\ m = [k \in DOMAIN m |-> m[k]] /\ \A k \in S : m[k] = st.map[k]
  BY <1>2
<1>4. IsFiniteSet(S) /\ Cardinality(S) <= MaxEntries
  <2>1. /\ IsFiniteSet(DOMAIN st.map) /\ Cardinality(DOMAIN st.map) <= MaxEntries
        /\ MaxEntries \in Nat
    BY RelayAssumption DEF MapOK
  <2>2. IsFiniteSet(S) /\ Cardinality(S) <= Cardinality(DOMAIN st.map)
    BY <2>1, FS_Subset
  <2>3. Cardinality(S) \in Nat /\ Cardinality(DOMAIN st.map) \in Nat
    BY <2>1, <2>2, FS_CardinalityType
  <2> QED BY <2>1, <2>2, <2>3
<1>5. MapOK(m)
  BY <1>3, <1>4 DEF MapOK
<1>6. Current(st.map) => Current(m)
  BY <1>3 DEF Current
<1>7. Counted(Erased(st, K))
  <2>1. Buffered(m, S) = Buffered(st.map, S)
    BY <1>3, BufferedFrame
  <2>2. /\ b \in Nat /\ Buffered(st.map, S) \in Nat
        /\ st.buffered = b + Buffered(st.map, S)
    <3>1. S \in SUBSET DOMAIN st.map
      OBVIOUS
    <3> QED BY <3>1, BufferedFinite, BufferedSplit DEF Counted
  <2>3. st.buffered \in 0..MaxBuffered /\ MaxBuffered \in Nat
    BY RelayAssumption DEF Counted
  <2> HIDE DEF b, S
  <2>4. Erased(st, K).buffered = Buffered(m, S) /\ Buffered(m, S) \in 0..MaxBuffered
    BY <1>1, <2>1, <2>2, <2>3
  <2> QED BY <1>1, <1>3, <2>4 DEF Counted, m
<1> QED BY <1>3, <1>5, <1>6, <1>7 DEF m

\* EvictOldestInbound leaves room for one.
LEMMA RoomForOne ==
    ASSUME NEW st, Counted(st), MapOK(st.map)
    PROVE  Cardinality(DOMAIN WithRoom(st).map) <= MaxEntries - 1
<1> DEFINE D == DOMAIN st.map
           After(k) == {j \in D : Older(st.map, k, j)}
           gone == {k \in D : Cardinality(After(k)) >= MaxEntries - 1}
           K == D \ gone
<1>0. MaxEntries \in Nat \ {0} /\ IsFiniteSet(D) /\ D \subseteq Keys
  BY RelayAssumption DEF MapOK
<1>1. DOMAIN WithRoom(st).map = K
  <2>1. WithRoom(st) = Erased(st, gone)
    BY DEF WithRoom
  <2>2. gone \in SUBSET DOMAIN st.map
    OBVIOUS
  <2> HIDE DEF gone
  <2> QED BY <2>1, <2>2, ErasedMap
<1>2. K \subseteq D /\ \A k \in K : ~(Cardinality(After(k)) >= MaxEntries - 1)
  OBVIOUS
<1>3. \A k \in K : IsFiniteSet(After(k)) /\ Cardinality(After(k)) \in Nat
  <2> SUFFICES ASSUME NEW k \in K PROVE IsFiniteSet(After(k)) /\ Cardinality(After(k)) \in Nat
    OBVIOUS
  <2>1. After(k) \subseteq D
    OBVIOUS
  <2> HIDE DEF After, D
  <2> QED BY <1>0, <2>1, FS_Subset, FS_CardinalityType
<1>4. \A k \in K, j \in K : Older(st.map, k, j) => j \in After(k)
  OBVIOUS
<1>5. \A k \in K : st.map[k].first_seen \in Nat
  <2>1. \A k \in D : EntryOK(st.map[k])
    BY DEF MapOK
  <2> HIDE DEF D, gone
  <2> QED BY <2>1, RelayAssumption DEF EntryOK
<1> HIDE DEF K, After, gone, D
<1>6. IsFiniteSet(K) /\ Cardinality(K) \in Nat
  BY <1>0, <1>2, FS_Subset, FS_CardinalityType
<1>7. CASE K = {}
  <2>1. Cardinality(K) = 0
    BY <1>7, FS_EmptySet
  <2> QED BY <1>0, <1>1, <2>1
<1>8. CASE K # {}
  <2>1. PICK k \in K : \A j \in K \ {k} : Older(st.map, k, j)
    BY <1>0, <1>2, <1>5, <1>8, OldestEntry
  <2>2. K \ {k} \subseteq After(k)
    BY <1>4, <2>1
  <2>3. Cardinality(K \ {k}) = Cardinality(K) - 1
    BY <1>6, FS_RemoveElement
  <2>4. Cardinality(K \ {k}) <= Cardinality(After(k))
    BY <1>3, <2>2, FS_Subset
  <2> QED BY <1>0, <1>1, <1>2, <1>3, <1>6, <2>3, <2>4
<1> QED BY <1>7, <1>8

\* The entry of k is replaced by one of the same age.
LEMMA UpdatedMap ==
    ASSUME NEW m, MapOK(m), Current(m), NEW k \in DOMAIN m, NEW e, EntryOK(e),
           e.first_seen = m[k].first_seen
    PROVE  /\ MapOK([m EXCEPT ![k] = e]) /\ Current([m EXCEPT ![k] = e])
           /\ DOMAIN [m EXCEPT ![k] = e] = DOMAIN m
<1> DEFINE u == [m EXCEPT ![k] = e]
<1>1. DOMAIN u = DOMAIN m /\ u = [j \in DOMAIN u |-> u[j]]
      /\ \A j \in DOMAIN m : u[j] = IF j = k THEN e ELSE m[j]
  OBVIOUS
<1> HIDE DEF u
<1>2. MapOK(u)
  BY <1>1 DEF MapOK
<1>3. Current(u)
  BY <1>1 DEF Current
<1> QED BY <1>1, <1>2, <1>3 DEF u

\* EvictExpiredInbound
LEMMA FreshMap ==
    ASSUME IInv
    PROVE  Counted(Fresh(store)) /\ MapOK(Fresh(store).map) /\ Current(Fresh(store).map)
<1> DEFINE gone == {k \in DOMAIN store.map : now - store.map[k].last_updated > MaxAge}
<1>0. /\ MaxAge \in Nat /\ MaxTime \in Nat /\ now \in 0..MaxTime
      /\ Counted(store) /\ MapOK(store.map) /\ gone \in SUBSET DOMAIN store.map
  BY RelayAssumption DEF IInv
<1>1. Fresh(store) = Erased(store, gone)
  BY DEF Fresh
<1>2. \A k \in DOMAIN store.map \ gone : now - store.map[k].last_updated <= MaxAge
  <2> SUFFICES ASSUME NEW k \in DOMAIN store.map, ~(now - store.map[k].last_updated > MaxAge)
               PROVE  now - store.map[k].last_updated <= MaxAge
    OBVIOUS
  <2>1. store.map[k].last_updated \in 0..MaxTime
    BY <1>0 DEF MapOK, EntryOK
  <2> QED BY <1>0, <2>1
<1> HIDE DEF gone
<1>3. /\ Counted(Fresh(store)) /\ MapOK(Fresh(store).map)
      /\ DOMAIN Fresh(store).map = DOMAIN store.map \ gone
  BY <1>0, <1>1, ErasedMap
<1> QED BY <1>2, <1>3 DEF Current

\* GetOrCreateInbound
LEMMA GetOrCreateMap ==
    ASSUME NEW st, Counted(st), MapOK(st.map), Current(st.map), NEW k \in Keys, ~IsKnown(k[1]),
           now \in 0..MaxTime
    PROVE  /\ Counted(GetOrCreate(st, k)) /\ MapOK(GetOrCreate(st, k).map)
           /\ Current(GetOrCreate(st, k).map) /\ k \in DOMAIN GetOrCreate(st, k).map
<1>1. CASE k \in DOMAIN st.map
  <2> DEFINE e == [st.map[k] EXCEPT !.last_updated = now]
  <2>1. GetOrCreate(st, k) = [st EXCEPT !.map[k].last_updated = now]
    BY <1>1 DEF GetOrCreate
  <2>2. /\ DOMAIN GetOrCreate(st, k) = {"map", "buffered"}
        /\ GetOrCreate(st, k).map = [st.map EXCEPT ![k] = e]
        /\ GetOrCreate(st, k).buffered = st.buffered
    BY <1>1, <2>1 DEF Counted
  <2>3. EntryOK(e) /\ e.first_seen = st.map[k].first_seen /\ e.buffer = st.map[k].buffer
    BY <1>1 DEF MapOK, EntryOK
  <2> HIDE DEF e
  <2>4. Counted(GetOrCreate(st, k))
    BY <1>1, <2>2, <2>3, UpdatedCounted
  <2> QED BY <1>1, <2>2, <2>3, <2>4, UpdatedMap
<1>2. CASE k \notin DOMAIN st.map
  <2> DEFINE r == WithRoom(st)
             D == DOMAIN r.map
             e == [decoder |-> FALSE, chunks |-> {}, buffer |-> <<>>,
                   first_seen |-> now, last_updated |-> now]
             m == [j \in D \cup {k} |-> IF j = k THEN e ELSE r.map[j]]
  <2>1. /\ Counted(r) /\ MapOK(r.map) /\ Current(r.map) /\ k \notin D
        /\ Cardinality(D) <= MaxEntries - 1
    <3> DEFINE gone == {i \in DOMAIN st.map :
                 Cardinality({j \in DOMAIN st.map : Older(st.map, i, j)}) >= MaxEntries - 1}
    <3>1. r = Erased(st, gone) /\ gone \in SUBSET DOMAIN st.map
      BY DEF WithRoom
    <3> HIDE DEF gone
    <3> QED BY <1>2, <3>1, ErasedMap, RoomForOne
  <2>2. GetOrCreate(st, k) = [r EXCEPT !.map = m]
    BY <1>2 DEF GetOrCreate, Put
  <2> HIDE DEF r
  <2>3. EntryOK(e) /\ e.first_seen = now /\ DOMAIN e.buffer = {}
    BY RelayAssumption DEF EntryOK
  <2> HIDE DEF e
  <2>4. DOMAIN m = D \cup {k} /\ m = [j \in DOMAIN m |-> m[j]]
        /\ m[k] = e /\ \A j \in D : m[j] = r.map[j]
    BY <2>1
  <2>5. /\ DOMAIN GetOrCreate(st, k) = {"map", "buffered"} /\ GetOrCreate(st, k).map = m
        /\ GetOrCreate(st, k).buffered = r.buffered
    BY <2>1, <2>2 DEF Counted
  <2> HIDE DEF m
  <2>6. IsFiniteSet(D \cup {k}) /\ Cardinality(D \cup {k}) <= MaxEntries
    <3>1. IsFiniteSet(D) /\ MaxEntries \in Nat
      BY <2>1, RelayAssumption DEF MapOK
    <3> HIDE DEF D
    <3>2. Cardinality(D \cup {k}) = Cardinality(D) + 1 /\ IsFiniteSet(D \cup {k}) /\ Cardinality(D) \in Nat
      BY <2>1, <3>1, FS_AddElement, FS_CardinalityType
    <3> QED BY <2>1, <3>1, <3>2
  <2>7. MapOK(m)
    BY <2>1, <2>3, <2>4, <2>6 DEF MapOK, IsKnown
  <2>8. Current(m)
    BY <2>1, <2>3, <2>4 DEF Current
  <2>9. Counted(GetOrCreate(st, k))
    <3>1. BufferedChunks(m, D \cup {k}) = BufferedChunks(r.map, D)
      BY <2>3, <2>4 DEF BufferedChunks
    <3> QED BY <2>1, <2>4, <2>5, <3>1 DEF Counted, Buffered
  <2> QED BY <2>4, <2>5, <2>7, <2>8, <2>9
<1> QED BY <1>1, <1>2

-----------------------------------------------------------------------------
(* The steps.                                                              *)

\* What a handler that has evicted the expired entries leaves.
Handled ==
    /\ Counted(store') /\ MapOK(store.map)' /\ SeenOK' /\ SinceOK'
    /\ Current(store'.map)

LEMMA KeepHandled ==
    ASSUME IInv, NEW st, Counted(st), MapOK(st.map), Current(st.map), Keep(st)
    PROVE  Handled
<1>1. store' = st /\ UNCHANGED <<seen_order, seen_set, since>>
  BY DEF Keep, known
<1> QED BY <1>1 DEF Handled, IInv, MapOK, SeenOK, SinceOK

\* The block is known now, and the entries for it are gone.
LEMMA KnownHandled ==
    ASSUME IInv, NEW st, Counted(st), MapOK(st.map), NEW p \in Prefixes, p \notin seen_set,
           store' = Erased(st, OfPrefix(st, p)), RememberSeen(p)
    PROVE  /\ Counted(store') /\ MapOK(store.map)' /\ SeenOK' /\ SinceOK'
           /\ Current(st.map) => Current(store'.map)
           /\ \A k \in DOMAIN store'.map : k \in DOMAIN st.map /\ store'.map[k] = st.map[k]
<1>1. SeenOK' /\ SinceOK' /\ seen_set' \subseteq seen_set \cup {p}
  BY RememberSeenOK DEF IInv
<1> DEFINE K == OfPrefix(st, p)
<1>2. \A k \in DOMAIN st.map \ K : k[1] # p
  BY DEF OfPrefix
<1>3. store' = Erased(st, K) /\ K \in SUBSET DOMAIN st.map
  BY DEF OfPrefix
<1> HIDE DEF K
<1>4. /\ Counted(store') /\ MapOK(store'.map)
      /\ DOMAIN store'.map = DOMAIN st.map \ K
      /\ \A k \in DOMAIN st.map \ K : store'.map[k] = st.map[k]
      /\ Current(st.map) => Current(store'.map)
  BY <1>3, ErasedMap
<1>5. MapOK(store.map)'
  BY <1>1, <1>2, <1>4 DEF MapOK
<1> QED BY <1>1, <1>4, <1>5

LEMMA TryFinalizeHandled ==
    ASSUME IInv, NEW st, Counted(st), MapOK(st.map), Current(st.map), NEW k \in DOMAIN st.map,
           TryFinalize(st, k)
    PROVE  Handled
<1>1. k \in Keys /\ k[1] \in Prefixes /\ k[1] \notin seen_set
  BY DEF MapOK, Keys
<1>2. CASE Keep(st)
  BY <1>2, KeepHandled
<1>3. CASE store' = Erased(st, OfPrefix(st, k[1])) /\ RememberSeen(k[1])
  BY <1>1, <1>3, KnownHandled DEF Handled
<1>4. CASE Keep(Erased(st, {k}))
  <2>1. {k} \in SUBSET DOMAIN st.map
    OBVIOUS
  <2> QED BY <1>4, <2>1, ErasedMap, KeepHandled
<1> QED BY <1>2, <1>3, <1>4 DEF TryFinalize

\* A decoder that takes chunks holds chunks of the block.
LEMMA AddChunksType ==
    ASSUME NEW chunks \in SUBSET (Groups \X ChunkIds), NEW new \in SUBSET Chunks,
           NEW c \in AddChunks(chunks, new), c # Refused
    PROVE  c \in SUBSET (Groups \X ChunkIds)
<1>1. BadChunk \notin new /\ c = chunks \cup new
  BY DEF AddChunks
<1> QED BY <1>1 DEF Chunks

LEMMA DecoderEntry ==
    ASSUME NEW r, EntryOK(r), NEW t \in BOOLEAN, NEW chunks \in SUBSET (Groups \X ChunkIds), t
    PROVE  LET e == [r EXCEPT !.decoder = t, !.chunks = chunks, !.buffer = <<>>]
           IN  EntryOK(e) /\ e.first_seen = r.first_seen /\ e.buffer = <<>>
<1> DEFINE e == [r EXCEPT !.decoder = t, !.chunks = chunks, !.buffer = <<>>]
           R == [decoder : BOOLEAN, chunks : SUBSET (Groups \X ChunkIds), buffer : Seq(Chunks),
                 first_seen : 0..MaxTime, last_updated : 0..MaxTime]
<1>1. r \in R /\ <<>> \in Seq(Chunks)
  BY DEF EntryOK
<1>2. e \in R /\ e.decoder = t /\ e.buffer = <<>> /\ e.first_seen = r.first_seen
  BY <1>1
<1>3. Len(e.buffer) <= MaxPerEntry
  BY <1>2, RelayAssumption
<1> HIDE DEF e
<1>4. EntryOK(e)
  BY <1>2, <1>3 DEF EntryOK
<1> QED BY <1>2, <1>4 DEF e

\* ClearBufferedChunks of an entry that stays.
LEMMA ClearedCounted ==
    ASSUME NEW st, Counted(st), MapOK(st.map), NEW k \in DOMAIN st.map, NEW e, e.buffer = <<>>,
           NEW w, DOMAIN w = {"map", "buffered"}, w.map = [st.map EXCEPT ![k] = e],
           w.buffered = IF Buffered(st.map, {k}) <= st.buffered
                        THEN st.buffered - Buffered(st.map, {k}) ELSE 0
    PROVE  Counted(w)
<1> DEFINE D == DOMAIN st.map
           b == Buffered(st.map, {k})
           r == Buffered(st.map, D \ {k})
<1>1. b \in Nat /\ r \in Nat /\ st.buffered = b + r /\ st.buffered \in 0..MaxBuffered
  <2>1. {k} \in SUBSET DOMAIN st.map /\ D \ {k} \in SUBSET DOMAIN st.map
    OBVIOUS
  <2> QED BY <2>1, BufferedFinite, BufferedSplit DEF Counted
<1>2. /\ DOMAIN w.map = D /\ w.map[k].buffer = <<>>
      /\ \A j \in D \ {k} : w.map[j] = st.map[j]
  OBVIOUS
<1>3. BufferedChunks(w.map, D) = BufferedChunks(st.map, D \ {k})
  BY <1>2 DEF BufferedChunks
<1>4. Buffered(w.map, DOMAIN w.map) = r
  BY <1>2, <1>3 DEF Buffered
<1>5. w.buffered = IF b <= st.buffered THEN st.buffered - b ELSE 0
  OBVIOUS
<1>6. MaxBuffered \in Nat
  BY RelayAssumption
<1> HIDE DEF b, r, D
<1>7. w.buffered = r /\ r \in 0..MaxBuffered
  BY <1>1, <1>5, <1>6
<1> QED BY <1>4, <1>7 DEF Counted

\* One more chunk is buffered, and counted.
LEMMA AppendedCounted ==
    ASSUME NEW st, Counted(st), MapOK(st.map), HasCapacity(st), NEW k \in DOMAIN st.map,
           NEW c \in Chunks, NEW e, e.buffer = Append(st.map[k].buffer, c),
           NEW w, DOMAIN w = {"map", "buffered"}, w.map = [st.map EXCEPT ![k] = e],
           w.buffered = st.buffered + 1
    PROVE  Counted(w)
<1> DEFINE D == DOMAIN st.map
           a == st.map[k].buffer
           S == BufferedChunks(st.map, D)
           n == Len(a) + 1
<1>1. a \in Seq(Chunks) /\ Len(a) \in Nat /\ DOMAIN a = 1..Len(a)
  <2>1. a \in Seq(Chunks)
    BY DEF MapOK, EntryOK
  <2> HIDE DEF a
  <2> QED BY <2>1
<1>2. DOMAIN w.map = D /\ e.buffer = Append(a, c) /\ w.map[k] = e
      /\ \A j \in D \ {k} : w.map[j] = st.map[j]
  OBVIOUS
<1> HIDE DEF a
<1>3. DOMAIN e.buffer = DOMAIN a \cup {n} /\ n \notin DOMAIN a
  BY <1>1, <1>2
<1> HIDE DEF n
<1>4. BufferedChunks(w.map, D) = S \cup {<<k, n>>}
  BY <1>2, <1>3 DEF BufferedChunks, a
<1>5. <<k, n>> \notin S
  BY <1>3 DEF BufferedChunks, a
<1>6. IsFiniteSet(S) /\ Cardinality(S) = st.buffered
  BY BufferedFinite DEF Counted, Buffered
<1> HIDE DEF S
<1>7. Cardinality(S \cup {<<k, n>>}) = st.buffered + 1
  BY <1>5, <1>6, FS_AddElement
<1>8. st.buffered + 1 \in 0..MaxBuffered
  BY RelayAssumption DEF Counted, HasCapacity
<1> QED BY <1>2, <1>4, <1>7, <1>8 DEF Counted, Buffered

LEMMA HeaderHandled ==
    ASSUME IInv, NEW k \in Keys, OnBlockHeader(k)
    PROVE  Handled /\ now' = now /\ outbound' \in Outbounds
<1> DEFINE fresh == Fresh(store)
           st == GetOrCreate(fresh, k)
<1>0. /\ now' = now /\ now \in 0..MaxTime /\ outbound' \in Outbounds
      /\ Counted(fresh) /\ MapOK(fresh.map) /\ Current(fresh.map)
  BY FreshMap DEF OnBlockHeader, IInv
<1>1. CASE Keep(fresh)
  BY <1>0, <1>1, KeepHandled
<1>2. ASSUME ~IsKnown(k[1])
      PROVE  Counted(st) /\ MapOK(st.map) /\ Current(st.map) /\ k \in DOMAIN st.map
  BY <1>0, <1>2, GetOrCreateMap
<1> HIDE DEF fresh
<1> HIDE DEF st
<1>3. CASE ~IsKnown(k[1]) /\ Keep(st)
  <2>1. Counted(st) /\ MapOK(st.map) /\ Current(st.map)
    BY <1>2, <1>3
  <2> QED BY <1>0, <1>3, <2>1, KeepHandled
<1>4. CASE ~IsKnown(k[1]) /\ Keep(Erased(st, {k}))
  <2>1. Counted(st) /\ MapOK(st.map) /\ Current(st.map) /\ {k} \in SUBSET DOMAIN st.map
    BY <1>2, <1>4
  <2> QED BY <1>0, <1>4, <2>1, ErasedMap, KeepHandled
<1>5. ASSUME ~IsKnown(k[1]), ~st.map[k].decoder,
             NEW chunks \in AddChunks({}, Range(st.map[k].buffer)) \ {Refused},
             TryFinalize(WithDecoder(st, k, chunks), k)
      PROVE  Handled
  <2>1. Counted(st) /\ MapOK(st.map) /\ Current(st.map) /\ k \in DOMAIN st.map /\ EntryOK(st.map[k])
    BY <1>2, <1>5 DEF MapOK
  <2>2. chunks \in SUBSET (Groups \X ChunkIds)
    <3>1. Range(st.map[k].buffer) \in SUBSET Chunks
      BY <2>1 DEF EntryOK, Range
    <3> QED BY <1>5, <3>1, AddChunksType
  <2> DEFINE w == WithDecoder(st, k, chunks)
             e == [st.map[k] EXCEPT !.decoder = TRUE, !.chunks = chunks, !.buffer = <<>>]
             b == IF Buffered(st.map, {k}) <= st.buffered
                  THEN st.buffered - Buffered(st.map, {k}) ELSE 0
  <2>3. /\ DOMAIN w = {"map", "buffered"} /\ w.map = [st.map EXCEPT ![k] = e]
        /\ w.buffered = b
    <3>1. w = [st EXCEPT !.map[k] = e, !.buffered = b]
      BY DEF WithDecoder
    <3> HIDE DEF e, b, w
    <3> QED BY <2>1, <3>1 DEF Counted
  <2>4. EntryOK(e) /\ e.first_seen = st.map[k].first_seen /\ e.buffer = <<>>
    BY <2>1, <2>2, DecoderEntry
  <2> HIDE DEF e, w
  <2>5. MapOK(w.map) /\ Current(w.map) /\ k \in DOMAIN w.map
    BY <2>1, <2>3, <2>4, UpdatedMap
  <2>6. Counted(w)
    BY <2>1, <2>3, <2>4, ClearedCounted
  <2> QED BY <1>5, <2>3, <2>5, <2>6, TryFinalizeHandled DEF w
<1> QED BY <1>0, <1>1, <1>3, <1>4, <1>5 DEF OnBlockHeader, fresh, st

LEMMA ChunkHandled ==
    ASSUME IInv, NEW k \in Keys, NEW c \in Chunks, OnBlockChunk(k, c)
    PROVE  Handled /\ now' = now /\ outbound' \in Outbounds
<1> DEFINE fresh == Fresh(store)
           st == GetOrCreate(fresh, k)
<1>0. /\ now' = now /\ now \in 0..MaxTime /\ outbound' \in Outbounds
      /\ Counted(fresh) /\ MapOK(fresh.map) /\ Current(fresh.map)
  BY FreshMap DEF OnBlockChunk, IInv
<1>1. CASE Keep(fresh)
  BY <1>0, <1>1, KeepHandled
<1>2. CASE ~IsKnown(k[1]) /\ FeedChunk(st, k, c)
  <2>1. Counted(st) /\ MapOK(st.map) /\ Current(st.map) /\ k \in DOMAIN st.map
    BY <1>0, <1>2, GetOrCreateMap
  <2> HIDE DEF st, fresh
  <2>2. EntryOK(st.map[k])
    BY <2>1 DEF MapOK
  <2>3. CASE Keep(st)
    BY <1>0, <2>1, <2>3, KeepHandled
  <2>4. CASE /\ ~st.map[k].decoder /\ ~(Len(st.map[k].buffer) >= MaxPerEntry)
             /\ HasCapacity(st)
             /\ Keep([st EXCEPT !.map[k].buffer = Append(@, c), !.buffered = @ + 1])
    <3> DEFINE e == [st.map[k] EXCEPT !.buffer = Append(@, c)]
               w == [st EXCEPT !.map[k].buffer = Append(@, c), !.buffered = @ + 1]
    <3>0. HasCapacity(st)
      BY <2>4
    <3>1. /\ DOMAIN w = {"map", "buffered"} /\ w.map = [st.map EXCEPT ![k] = e]
          /\ w.buffered = st.buffered + 1
      BY <2>1 DEF Counted
    <3>2. /\ EntryOK(e) /\ e.first_seen = st.map[k].first_seen
          /\ e.buffer = Append(st.map[k].buffer, c)
      <4> DEFINE b == Append(st.map[k].buffer, c)
      <4>1. b \in Seq(Chunks) /\ Len(b) <= MaxPerEntry
        <5> DEFINE a == st.map[k].buffer
        <5>1. a \in Seq(Chunks) /\ Len(a) \in Nat /\ MaxPerEntry \in Nat /\ Len(a) < MaxPerEntry
          <6>1. ~(Len(a) >= MaxPerEntry)
            BY <2>4
          <6>2. a \in Seq(Chunks) /\ MaxPerEntry \in Nat
            BY <2>2, RelayAssumption DEF EntryOK
          <6> HIDE DEF a
          <6> QED BY <6>1, <6>2
        <5> HIDE DEF a
        <5>2. Append(a, c) \in Seq(Chunks) /\ Len(Append(a, c)) = Len(a) + 1
          BY <5>1
        <5> QED BY <5>1, <5>2 DEF a
      <4>2. e = [st.map[k] EXCEPT !.buffer = b]
        OBVIOUS
      <4>3. b = Append(st.map[k].buffer, c)
        OBVIOUS
      <4> HIDE DEF e, b
      <4> QED BY <2>2, <2>4, <4>1, <4>2, <4>3 DEF EntryOK
    <3>3. Keep(w)
      BY <2>4
    <3> HIDE DEF e, w
    <3>4. MapOK(w.map) /\ Current(w.map)
      BY <2>1, <3>1, <3>2, UpdatedMap
    <3>5. Counted(w)
      BY <2>1, <3>0, <3>1, <3>2, AppendedCounted
    <3> QED BY <1>0, <3>3, <3>4, <3>5, KeepHandled
  <2>5. CASE Keep(Erased(st, {k}))
    <3>1. {k} \in SUBSET DOMAIN st.map
      BY <2>1
    <3> QED BY <1>0, <2>1, <2>5, <3>1, ErasedMap, KeepHandled
  <2>6. ASSUME st.map[k].decoder, NEW chunks \in AddChunks(st.map[k].chunks, {c}), chunks # Refused,
               TryFinalize([st EXCEPT !.map[k].chunks = chunks], k)
        PROVE  Handled
    <3> DEFINE e == [st.map[k] EXCEPT !.chunks = chunks]
               w == [st EXCEPT !.map[k].chunks = chunks]
    <3>1. chunks \in SUBSET (Groups \X ChunkIds)
      BY <2>2, <2>6, AddChunksType DEF EntryOK
    <3>2. /\ DOMAIN w = {"map", "buffered"} /\ w.map = [st.map EXCEPT ![k] = e]
          /\ w.buffered = st.buffered
      BY <2>1 DEF Counted
    <3>3. EntryOK(e) /\ e.first_seen = st.map[k].first_seen /\ e.buffer = st.map[k].buffer
      BY <2>2, <2>6, <3>1 DEF EntryOK
    <3>4. TryFinalize(w, k)
      BY <2>6
    <3> HIDE DEF e, w
    <3>5. MapOK(w.map) /\ Current(w.map) /\ k \in DOMAIN w.map
      BY <2>1, <3>2, <3>3, UpdatedMap
    <3>6. Counted(w)
      BY <2>1, <3>2, <3>3, UpdatedCounted
    <3> QED BY <3>4, <3>5, <3>6, TryFinalizeHandled
  <2> QED BY <1>0, <1>2, <2>3, <2>4, <2>5, <2>6 DEF FeedChunk
<1> QED BY <1>1, <1>2 DEF OnBlockChunk

\* OnNewBlock changes no entry it keeps.
LEMMA NewBlockHandled ==
    ASSUME IInv, NEW p \in Prefixes, OnNewBlock(p)
    PROVE  /\ IInv'
           /\ \A k \in DOMAIN store'.map : k \in DOMAIN store.map /\ store'.map[k] = store.map[k]
<1>1. /\ p \notin seen_set /\ RememberSeen(p) /\ now' = now
      /\ store' = Erased(store, OfPrefix(store, p))
  BY DEF OnNewBlock, IsKnown
<1>2. Counted(store) /\ MapOK(store.map)
  BY DEF IInv
<1>3. outbound' \in Outbounds
  BY RelayAssumption DEF OnNewBlock, Outbounds
<1> QED BY <1>1, <1>2, <1>3, KnownHandled DEF IInv

LEMMA PumpHandled ==
    ASSUME IInv, PumpOutbound \/ PumpNothing
    PROVE  Handled /\ now' = now /\ outbound' \in Outbounds
<1>1. Keep(Fresh(store)) /\ now' = now
  BY DEF PumpOutbound, PumpNothing, Keep, known
<1>2. outbound' \in Outbounds
  <2>0. outbound \in Outbounds /\ ChunksPerTick \in Nat /\ TotalChunks \in Nat
    BY RelayAssumption DEF IInv
  <2>1. None \in Outbounds
    BY <2>0 DEF None, Outbounds
  <2>2. ASSUME NEW t \in BOOLEAN, ~(outbound.cursor + ChunksPerTick > TotalChunks)
        PROVE  [outbound EXCEPT !.header_sent = t, !.cursor = outbound.cursor + ChunksPerTick]
                 \in Outbounds
    <3> DEFINE n == outbound.cursor + ChunksPerTick
    <3>1. outbound.cursor \in 0..TotalChunks
      BY <2>0 DEF Outbounds
    <3>2. n \in 0..TotalChunks
      BY <2>0, <2>2, <3>1
    <3> HIDE DEF n
    <3>3. [outbound EXCEPT !.header_sent = t, !.cursor = n] \in Outbounds
      BY <2>0, <3>2 DEF Outbounds
    <3> QED BY <3>3 DEF n
  <2> QED BY <2>0, <2>1, <2>2 DEF PumpOutbound, PumpNothing
<1> QED BY <1>1, <1>2, FreshMap, KeepHandled

LEMMA HandledIInv ==
    ASSUME IInv, Handled, now' = now, outbound' \in Outbounds
    PROVE  IInv'
BY DEF IInv, Handled

-----------------------------------------------------------------------------
(* The theorems.                                                           *)

LEMMA InitIInv == Init => IInv
<1> SUFFICES ASSUME Init PROVE IInv
  OBVIOUS
<1>1. /\ DOMAIN store = {"map", "buffered"} /\ store.map = <<>> /\ store.buffered = 0
      /\ now = 0 /\ seen_order = <<>> /\ seen_set = {} /\ since = <<>> /\ outbound = None
  BY DEF Init
<1>2. IsFiniteSet({}) /\ Cardinality({}) = 0
  BY FS_EmptySet
<1>3. /\ {MaxTime, SeenCapacity, MaxEntries, MaxBuffered, TotalChunks} \subseteq Nat
  BY RelayAssumption
<1>4. MapOK(store.map)
  BY <1>1, <1>2, <1>3 DEF MapOK
<1>5. SeenOK /\ SinceOK
  BY <1>1, <1>2, <1>3 DEF SeenOK, SinceOK, Range
<1>6. Counted(store)
  <2>1. BufferedChunks(store.map, DOMAIN store.map) = {}
    BY <1>1 DEF BufferedChunks
  <2>2. Buffered(store.map, DOMAIN store.map) = 0
    BY <1>2, <2>1 DEF Buffered
  <2>3. 0 \in 0..MaxBuffered
    BY <1>3
  <2> QED BY <1>1, <2>2, <2>3 DEF Counted
<1>7. outbound \in Outbounds
  BY <1>1, <1>3 DEF None, Outbounds
<1> QED BY <1>1, <1>3, <1>4, <1>5, <1>6, <1>7 DEF IInv

LEMMA NextIInv == IInv /\ [Next]_vars => IInv'
<1> SUFFICES ASSUME IInv, [Next]_vars PROVE IInv'
  OBVIOUS
<1>1. ASSUME NEW p \in Prefixes, OnNewBlock(p) PROVE IInv'
  BY <1>1, NewBlockHandled
<1>2. ASSUME NEW k \in Keys, OnBlockHeader(k) PROVE IInv'
  BY <1>2, HeaderHandled, HandledIInv
<1>3. ASSUME NEW k \in Keys, NEW c \in Chunks, OnBlockChunk(k, c) PROVE IInv'
  BY <1>3, ChunkHandled, HandledIInv
<1>4. CASE PumpOutbound \/ PumpNothing
  BY <1>4, PumpHandled, HandledIInv
<1>5. CASE Tick
  BY <1>5, RelayAssumption DEF Tick, known, IInv, Counted, MapOK, SeenOK, SinceOK
<1>6. CASE UNCHANGED vars
  BY <1>6 DEF vars, IInv, Counted, MapOK, SeenOK, SinceOK
<1> QED BY <1>1, <1>2, <1>3, <1>4, <1>5, <1>6 DEF Next

\* The inductive invariant holds in every reachable state of the relay.
THEOREM Invariance == Spec => []IInv
BY InitIInv, NextIInv, PTL DEF Spec

\* A block that is known has no incomplete copy left from any peer: OnNewBlock
\* and TryFinalizeInbound erase every entry of the prefix they remember.
THEOREM KnownBlocksDone == Spec => []KnownIsDone
<1>1. IInv => KnownIsDone
  BY DEF IInv, MapOK, KnownIsDone, IsKnown
<1> QED BY <1>1, Invariance, PTL

\* m_seen_order and m_seen_set hold the same blocks, each once, within
\* seen_blocks_capacity.
THEOREM SeenIsMirrored == Spec => []SeenMirrored
<1>1. IInv => SeenMirrored
  BY DEF IInv, SeenOK, SeenMirrored
<1> QED BY <1>1, Invariance, PTL

\* RememberSeen forgets a block only after seen_blocks_capacity others.
THEOREM SeenLongEnough == Spec => []KnownLongEnough
<1>1. IInv => KnownLongEnough
  <2> SUFFICES ASSUME IInv, NEW p \in DOMAIN since, p \notin seen_set
               PROVE  ~(Cardinality(since[p]) < SeenCapacity)
    BY DEF KnownLongEnough, IsKnown
  <2>1. IsFiniteSet(since[p]) /\ Cardinality(since[p]) >= SeenCapacity
    BY DEF IInv, SinceOK
  <2>2. Cardinality(since[p]) \in Nat /\ SeenCapacity \in Nat
    BY <2>1, FS_CardinalityType, RelayAssumption
  <2> QED BY <2>1, <2>2
<1> QED BY <1>1, Invariance, PTL

\* There are at most max_inbound_entries entries, and none has more than
\* max_inbound_buffered_chunks_per_entry chunks buffered.
THEOREM EntriesLimited ==
    Spec => [](/\ Cardinality(DOMAIN store.map) <= MaxEntries
               /\ \A k \in DOMAIN store.map : Len(store.map[k].buffer) <= MaxPerEntry)
<1>1. IInv => /\ Cardinality(DOMAIN store.map) <= MaxEntries
              /\ \A k \in DOMAIN store.map : Len(store.map[k].buffer) <= MaxPerEntry
  BY DEF IInv, MapOK, EntryOK
<1> QED BY <1>1, Invariance, PTL

\* An entry that has expired is evicted before a handler looks for it, so no
\* packet takes it up again (EvictExpiredInbound comes first in OnBlockHeader and
\* OnBlockChunk).
THEOREM ExpiredNotRevived == Spec => NoRevival
<1> DEFINE A == \A k \in DOMAIN store.map \cap DOMAIN store'.map :
                   \/ store'.map[k] = store.map[k]
                   \/ store'.map[k].first_seen = now
                   \/ now - store.map[k].last_updated <= MaxAge
<1>1. IInv /\ [Next]_vars => [A]_vars
  <2> SUFFICES ASSUME IInv, Next PROVE A
    OBVIOUS
  <2>1. ASSUME Handled PROVE A
    BY <2>1 DEF Handled, Current
  <2>2. ASSUME NEW p \in Prefixes, OnNewBlock(p) PROVE A
    BY <2>2, NewBlockHandled
  <2>3. ASSUME NEW k \in Keys, OnBlockHeader(k) PROVE A
    BY <2>1, <2>3, HeaderHandled
  <2>4. ASSUME NEW k \in Keys, NEW c \in Chunks, OnBlockChunk(k, c) PROVE A
    BY <2>1, <2>4, ChunkHandled
  <2>5. CASE PumpOutbound \/ PumpNothing
    BY <2>1, <2>5, PumpHandled
  <2>6. CASE Tick
    BY <2>6 DEF Tick
  <2> QED BY <2>2, <2>3, <2>4, <2>5, <2>6 DEF Next
<1> HIDE DEF A
<1>2. Spec => [][A]_vars
  BY <1>1, Invariance, PTL DEF Spec
<1> QED BY <1>2 DEF NoRevival, A

\* Every variable of the relay has its type, for any number of blocks and peers.
THEOREM TypeCorrect == Spec => []TypeOK
<1>1. IInv => TypeOK
  <2> SUFFICES ASSUME IInv PROVE TypeOK
    OBVIOUS
  <2>1. ASSUME NEW k \in DOMAIN store.map PROVE store.map[k] \in Entries
    <3> DEFINE e == store.map[k]
               b == e.buffer
    <3>1. EntryOK(e)
      BY DEF IInv, MapOK
    <3> HIDE DEF e
    <3>2. /\ b \in Seq(Chunks) /\ Len(b) <= MaxPerEntry /\ MaxPerEntry \in Nat
      BY <3>1, RelayAssumption DEF EntryOK
    <3>3. b \in UNION {[1..n -> Chunks] : n \in 0..MaxPerEntry}
      <4> HIDE DEF b
      <4>1. Len(b) \in 0..MaxPerEntry /\ b \in [1..Len(b) -> Chunks]
        BY <3>2
      <4> QED BY <4>1
    <3>4. e \in Entries
      BY <3>1, <3>3 DEF EntryOK, Entries
    <3> QED BY <3>4 DEF e
  <2>2. /\ DOMAIN store.map \subseteq Keys /\ Cardinality(DOMAIN store.map) <= MaxEntries
    BY DEF IInv, MapOK
  <2>3. store.buffered \in Nat /\ outbound \in Outbounds /\ now \in 0..MaxTime
    BY RelayAssumption DEF IInv, Counted
  <2>4. seen_order \in Seq(Prefixes) /\ seen_set \subseteq Prefixes
    BY DEF IInv, SeenOK, Range
  <2> QED BY <2>1, <2>2, <2>3, <2>4 DEF TypeOK, Outbounds
<1> QED BY <1>1, Invariance, PTL

\* The counter of buffered bytes is what the entries hold, whichever way they
\* go (EvictExpiredInbound, EvictOldestInbound, EraseInbound,
\* EraseInboundForPrefix, a decoder that takes the chunks over), and never more
\* than max_inbound_buffered_bytes.
THEOREM BuffersCounted == Spec => []BufferAccounted
<1>1. IInv => BufferAccounted
  BY RelayAssumption DEF IInv, Counted, BufferAccounted
<1> QED BY <1>1, Invariance, PTL

-----------------------------------------------------------------------------
(* A full buffer.                                                          *)

\* With fewer entries than the limit, EvictOldestInbound is not called.
LEMMA RoomLeft ==
    ASSUME NEW st, Counted(st), MapOK(st.map), Cardinality(DOMAIN st.map) <= MaxEntries - 1
    PROVE  DOMAIN WithRoom(st).map = DOMAIN st.map
<1> DEFINE D == DOMAIN st.map
           After(k) == {j \in D : Older(st.map, k, j)}
           gone == {k \in D : Cardinality(After(k)) >= MaxEntries - 1}
<1>0. /\ MaxEntries \in Nat \ {0} /\ IsFiniteSet(D) /\ D \subseteq Keys
      /\ Cardinality(D) \in Nat /\ Cardinality(D) <= MaxEntries - 1
  BY RelayAssumption, FS_CardinalityType DEF MapOK
<1>1. ASSUME NEW k \in D PROVE k \notin After(k)
  <2>1. st.map[k].first_seen \in Nat
    BY RelayAssumption DEF MapOK, EntryOK
  <2>2. k[1] \in Nat /\ k[2] \in Nat
    <3>1. k \in Prefixes \X Peers
      BY <1>0 DEF Keys
    <3>2. k[1] \in Prefixes /\ k[2] \in Peers
      BY <3>1
    <3> QED BY <3>2, RelayAssumption
  <2> QED BY <2>1, <2>2 DEF Older, Less
<1>2. ASSUME NEW k \in D PROVE ~(Cardinality(After(k)) >= MaxEntries - 1)
  <2> DEFINE A == After(k)
  <2>1. A \subseteq D \ {k}
    BY <1>1
  <2> HIDE DEF A, D
  <2>2. IsFiniteSet(D \ {k}) /\ Cardinality(D \ {k}) = Cardinality(D) - 1
    BY <1>0, FS_RemoveElement
  <2>3. Cardinality(A) \in Nat /\ Cardinality(A) <= Cardinality(D \ {k})
    BY <2>1, <2>2, FS_Subset, FS_CardinalityType
  <2>4. ~(Cardinality(A) >= MaxEntries - 1)
    BY <1>0, <2>2, <2>3
  <2> QED BY <2>4 DEF A, D
<1>3. gone = {}
  BY <1>2
<1>4. WithRoom(st) = Erased(st, gone) /\ gone \in SUBSET DOMAIN st.map
  BY DEF WithRoom
<1> HIDE DEF gone
<1> QED BY <1>3, <1>4, ErasedMap

\* A store that had no capacity and has some once the expired entries are gone
\* has lost an entry.
LEMMA CapacityFreed ==
    ASSUME IInv, ~HasCapacity(store), HasCapacity(Fresh(store))
    PROVE  Cardinality(DOMAIN Fresh(store).map) <= MaxEntries - 1
<1> DEFINE gone == {k \in DOMAIN store.map : now - store.map[k].last_updated > MaxAge}
           D == DOMAIN store.map
           F == DOMAIN Fresh(store).map
<1>1. /\ Counted(store) /\ MapOK(store.map) /\ gone \in SUBSET D
      /\ Fresh(store) = Erased(store, gone) /\ Counted(Fresh(store)) /\ MapOK(Fresh(store).map)
  BY FreshMap DEF IInv, Fresh
<1> HIDE DEF gone
<1>2. F = D \ gone /\ \A k \in F : Fresh(store).map[k] = store.map[k]
  BY <1>1, ErasedMap
<1>3. gone # {}
  <2> SUFFICES ASSUME gone = {} PROVE FALSE
    OBVIOUS
  <2>1. F = D /\ \A k \in D : Fresh(store).map[k].buffer = store.map[k].buffer
    BY <1>2
  <2>2. Buffered(Fresh(store).map, F) = Buffered(store.map, D)
    BY <2>1, BufferedFrame
  <2>3. Fresh(store).buffered = store.buffered
    BY <1>1, <2>2 DEF Counted
  <2> QED BY <2>3 DEF HasCapacity
<1>4. IsFiniteSet(D) /\ Cardinality(D) <= MaxEntries /\ MaxEntries \in Nat
  BY <1>1, RelayAssumption DEF MapOK
<1>5. PICK g \in gone : g \in D
  BY <1>1, <1>3
<1>6. F \subseteq D \ {g}
  BY <1>2, <1>5
<1> HIDE DEF D, F
<1>7. IsFiniteSet(D \ {g}) /\ Cardinality(D \ {g}) = Cardinality(D) - 1 /\ Cardinality(D) \in Nat
  BY <1>4, <1>5, FS_RemoveElement, FS_CardinalityType
<1>8. Cardinality(F) \in Nat /\ Cardinality(F) <= Cardinality(D \ {g})
  BY <1>6, <1>7, FS_Subset, FS_CardinalityType
<1>9. Cardinality(F) <= MaxEntries - 1
  BY <1>4, <1>7, <1>8
<1> QED BY <1>9 DEF F

\* FeedChunk erases no entry but those of the block it feeds.
LEMMA FeedChunkKeeps ==
    ASSUME NEW st, Counted(st), MapOK(st.map), NEW k \in DOMAIN st.map, NEW c \in Chunks,
           FeedChunk(st, k, c), NEW j \in DOMAIN st.map, j[1] # k[1]
    PROVE  j \in DOMAIN store'.map
<1>1. ASSUME NEW K \in SUBSET DOMAIN st.map, \A i \in K : i[1] = k[1], store' = Erased(st, K)
      PROVE  j \in DOMAIN store'.map
  <2>1. DOMAIN Erased(st, K).map = DOMAIN st.map \ K
    BY ErasedMap
  <2> QED BY <1>1, <2>1
<1>2. CASE store' = st
  BY <1>2
<1>3. CASE store' = Erased(st, {k})
  <2>1. {k} \in SUBSET DOMAIN st.map
    OBVIOUS
  <2> QED BY <1>1, <1>3, <2>1
<1> DEFINE u == [st EXCEPT !.map[k].buffer = Append(@, c), !.buffered = @ + 1]
<1>4. CASE store' = u
  BY <1>4 DEF Counted
<1>5. ASSUME NEW chunks, TryFinalize([st EXCEPT !.map[k].chunks = chunks], k)
      PROVE  j \in DOMAIN store'.map
  <2> DEFINE w == [st EXCEPT !.map[k].chunks = chunks]
  <2>1. DOMAIN w.map = DOMAIN st.map
    BY DEF Counted
  <2>2. TryFinalize(w, k)
    BY <1>5
  <2> HIDE DEF w
  <2>3. ASSUME NEW K, \A i \in K : i[1] = k[1], store' = Erased(w, K)
        PROVE  j \in DOMAIN store'.map
    <3>1. store'.map = Restrict(w.map, DOMAIN w.map \ K)
      BY <2>3 DEF Erased
    <3>2. DOMAIN store'.map = DOMAIN w.map \ K
      BY <3>1 DEF Restrict
    <3> QED BY <2>1, <2>3, <3>2
  <2>4. CASE store' = w
    BY <2>1, <2>4
  <2>5. CASE store' = Erased(w, {k})
    BY <2>3, <2>5
  <2>6. CASE store' = Erased(w, OfPrefix(w, k[1]))
    BY <2>3, <2>6 DEF OfPrefix
  <2> QED BY <2>2, <2>4, <2>5, <2>6 DEF TryFinalize, Keep
<1>6. CASE ~st.map[k].decoder
  <2>1. store' = IF Len(st.map[k].buffer) >= MaxPerEntry \/ ~HasCapacity(st) THEN st ELSE u
    BY <1>6 DEF FeedChunk, Keep
  <2> HIDE DEF u
  <2> QED BY <1>2, <1>4, <2>1
<1>7. CASE st.map[k].decoder
  <2>1. PICK chunks \in AddChunks(st.map[k].chunks, {c}) :
           IF chunks = Refused THEN Keep(Erased(st, {k}))
           ELSE TryFinalize([st EXCEPT !.map[k].chunks = chunks], k)
    BY <1>7 DEF FeedChunk
  <2>2. CASE chunks = Refused
    BY <1>3, <2>1, <2>2 DEF Keep
  <2>3. CASE chunks # Refused
    BY <1>5, <2>1, <2>3
  <2> QED BY <2>2, <2>3
<1> QED BY <1>6, <1>7

\* A chunk for which there is no room in the buffers displaces no live entry of
\* another block: OnBlockChunk asks HasGlobalInboundBufferCapacity before it
\* makes an entry, and when only the eviction of expired entries has made room
\* it needs no other entry's place.
THEOREM FullBufferRejects == Spec => FullRejects
<1> DEFINE A == ~HasCapacity(store) =>
                  \A j \in DOMAIN store.map \ DOMAIN store'.map :
                     now - store.map[j].last_updated <= MaxAge =>
                        \A k \in Keys, c \in Chunks : OnBlockChunk(k, c) => j[1] = k[1]
<1>1. ASSUME IInv PROVE A
  <2> SUFFICES ASSUME ~HasCapacity(store),
                      NEW j \in DOMAIN store.map, j \notin DOMAIN store'.map,
                      now - store.map[j].last_updated <= MaxAge,
                      NEW k \in Keys, NEW c \in Chunks, OnBlockChunk(k, c), j[1] # k[1]
               PROVE  FALSE
    OBVIOUS
  <2> DEFINE fresh == Fresh(store)
             st == GetOrCreate(fresh, k)
  <2>1. Counted(fresh) /\ MapOK(fresh.map) /\ Current(fresh.map) /\ now \in 0..MaxTime
    BY <1>1, FreshMap DEF IInv
  <2>2. j \in DOMAIN fresh.map
    <3> DEFINE gone == {i \in DOMAIN store.map : now - store.map[i].last_updated > MaxAge}
    <3>1. Fresh(store) = Erased(store, gone) /\ gone \in SUBSET DOMAIN store.map
      BY DEF Fresh
    <3>2. j \notin gone
      <4>1. store.map[j].last_updated \in 0..MaxTime /\ MaxAge \in Nat
        BY <1>1, RelayAssumption DEF IInv, MapOK, EntryOK
      <4> QED BY <2>1, <4>1, RelayAssumption
    <3> HIDE DEF gone
    <3> QED BY <1>1, <3>1, <3>2, ErasedMap DEF IInv
  <2>3. ~Keep(fresh)
    BY <2>2 DEF Keep
  <2>4. /\ ~IsKnown(k[1]) /\ FeedChunk(st, k, c)
        /\ k \in DOMAIN fresh.map \/ HasCapacity(fresh)
    BY <2>3 DEF OnBlockChunk
  <2>5. Counted(st) /\ MapOK(st.map) /\ k \in DOMAIN st.map
    BY <2>1, <2>4, GetOrCreateMap
  <2>6. j \in DOMAIN st.map
    <3>1. CASE k \in DOMAIN fresh.map
      <4>1. st = [fresh EXCEPT !.map[k].last_updated = now]
        BY <3>1 DEF GetOrCreate
      <4> HIDE DEF st, fresh
      <4> QED BY <2>1, <2>2, <4>1 DEF Counted
    <3>2. CASE k \notin DOMAIN fresh.map
      <4>1. DOMAIN WithRoom(fresh).map = DOMAIN fresh.map
        <5>1. Cardinality(DOMAIN fresh.map) <= MaxEntries - 1
          BY <1>1, <2>4, <3>2, CapacityFreed
        <5> HIDE DEF fresh
        <5> QED BY <2>1, <5>1, RoomLeft
      <4>2. st.map = [i \in DOMAIN WithRoom(fresh).map \cup {k} |-> st.map[i]]
        <5> DEFINE r == WithRoom(fresh)
                   e == [decoder |-> FALSE, chunks |-> {}, buffer |-> <<>>,
                         first_seen |-> now, last_updated |-> now]
        <5>1. st = Put(r, k, e)
          BY <3>2 DEF GetOrCreate
        <5>2. Counted(r)
          <6> DEFINE gone == {i \in DOMAIN fresh.map :
                Cardinality({l \in DOMAIN fresh.map : Older(fresh.map, i, l)}) >= MaxEntries - 1}
          <6>1. r = Erased(fresh, gone) /\ gone \in SUBSET DOMAIN fresh.map
            BY DEF WithRoom
          <6> HIDE DEF gone, fresh
          <6> QED BY <2>1, <6>1, ErasedMap
        <5> HIDE DEF st, r, e
        <5>3. st.map = [i \in DOMAIN r.map \cup {k} |-> IF i = k THEN e ELSE r.map[i]]
          BY <5>1, <5>2 DEF Put, Counted
        <5> QED BY <5>3 DEF r
      <4> HIDE DEF st, fresh
      <4> QED BY <2>2, <4>1, <4>2
    <3> QED BY <3>1, <3>2
  <2> HIDE DEF st, fresh
  <2> QED BY <2>4, <2>5, <2>6, FeedChunkKeeps
<1> HIDE DEF A
<1>2. IInv /\ [Next]_vars => [A]_vars
  BY <1>1
<1>3. Spec => [][A]_vars
  BY <1>2, Invariance, PTL DEF Spec
<1> QED BY <1>3 DEF FullRejects, A

=============================================================================
