------------------------- MODULE PhotonSessionProofs -------------------------
(***************************************************************************)
(* Proofs about PhotonSession for any number of daemons, restarts and      *)
(* datagrams: as long as the counter has not come within WrapGap of its    *)
(* maximum and the history of retired identities has not overflowed, the   *)
(* replay protection keeps its promises.                                   *)
(***************************************************************************)
EXTENDS PhotonSession, FiniteSets, SequenceTheorems, FiniteSetTheorems, TLAPS

\* A process sends so little on a link that the wrap window of
\* IsForwardInboundCounter cannot be reached.
NoWrap == \A n \in Nodes : SendBound[n] + WrapGap <= CounterMax

\* The peer restarts so seldom that kRetiredRemoteIdentityHistoryLimit is
\* never exceeded.
HistoryHolds == \A n \in Nodes : MaxIncarnation[n] <= HistoryLimit

-----------------------------------------------------------------------------
(* What ties a slot's replay state (remote identity, last counter, baseline *)
(* flag, retired identities) to the log L of accepted packets; m and b      *)
(* bound the peer's incarnations and counters.                              *)

Ordered(L) ==
    \A i, j \in DOMAIN L :
        i < j /\ L[i].session = L[j].session => L[i].counter < L[j].counter

Contiguous(L) ==
    \A i, j, k \in DOMAIN L :
        i < j /\ j < k /\ L[i].session = L[k].session =>
            L[j].session = L[i].session

\* The session of entry k replaced another one, and entry k is its first
\* session-bound packet.
FirstBound(L, k) ==
    /\ L[k].type \notin Handshakes
    /\ L[k].session # L[1].session
    /\ \A j \in 1..(k - 1) :
          L[j].session = L[k].session => L[j].type \in Handshakes

Baseline(L) ==
    \A k \in DOMAIN L : FirstBound(L, k) =>
        L[k].counter = NextInboundCounter(L[k - 1].counter)

LastEntry(rem, last, L) ==
    /\ rem = 0 <=> L = <<>>
    /\ last = 0 <=> L = <<>>
    /\ L # <<>> => L[Len(L)].session = rem /\ L[Len(L)].counter = last
    /\ \A i \in DOMAIN L : L[i].session = rem => L[i].counter <= last

OthersRetired(rem, ret, L) ==
    \A i \in DOMAIN L :
        L[i].session = rem \/ \E j \in DOMAIN ret : ret[j] = L[i].session

RetiredOnce(rem, ret, m) ==
    /\ \A j \in DOMAIN ret : ret[j] # rem /\ ret[j] <= m
    /\ \A i, j \in DOMAIN ret : ret[i] = ret[j] => i = j

BaselinePending(rem, req, L) ==
    L # <<>> /\ rem # L[1].session
    /\ (\A i \in DOMAIN L : L[i].session = rem => L[i].type \in Handshakes)
    => req

Typed(rem, last, req, ret, L, m, b) ==
    /\ rem \in Nat /\ rem <= m
    /\ last \in Nat /\ last <= b
    /\ req \in BOOLEAN
    /\ ret \in Seq(Incarnations)
    /\ L \in Seq(Packets)

Consistent(rem, last, req, ret, L, m, b) ==
    /\ Typed(rem, last, req, ret, L, m, b)
    /\ LastEntry(rem, last, L)
    /\ OthersRetired(rem, ret, L)
    /\ RetiredOnce(rem, ret, m)
    /\ BaselinePending(rem, req, L)
    /\ Ordered(L) /\ Contiguous(L) /\ Baseline(L)

-----------------------------------------------------------------------------
(* A sequence of distinct incarnations is no longer than their number.     *)

\* Distinct entries of 1..m: at most m of them.
LEMMA DistinctLen ==
    ASSUME NEW m \in Nat, NEW q \in Seq(Incarnations),
           \A j \in DOMAIN q : q[j] <= m,
           \A i, j \in DOMAIN q : q[i] = q[j] => i = j
    PROVE  Len(q) <= m
<1>1. q \in [1..Len(q) -> 1..m]
  BY DEF Incarnations
<1>2. q \in Injection(1..Len(q), 1..m)
  BY <1>1 DEF Injection, IsInjective
<1>0. \A n \in Nat : IsFiniteSet(1..n) /\ Cardinality(1..n) = n
  BY FS_Interval
<1>3. IsFiniteSet(1..m) /\ Cardinality(1..m) = m
  BY <1>0
<1>4. Len(q) \in Nat /\ Cardinality(1..Len(q)) = Len(q)
  BY <1>0
<1>5. Cardinality(1..Len(q)) <= Cardinality(1..m)
  BY <1>2, <1>3, FS_Injection
<1> QED BY <1>3, <1>4, <1>5

\* What Append does, in the form the proofs below use.
LEMMA AppendFacts ==
    ASSUME NEW S, NEW L \in Seq(S), NEW p \in S
    PROVE  /\ Append(L, p) \in Seq(S)
           /\ Append(L, p) # <<>>
           /\ DOMAIN L = 1..Len(L)
           /\ Len(L) \in Nat
           /\ Len(Append(L, p)) = Len(L) + 1
           /\ DOMAIN Append(L, p) = 1..(Len(L) + 1)
           /\ \A i \in 1..Len(L) : Append(L, p)[i] = L[i]
           /\ Append(L, p)[Len(L) + 1] = p
           /\ L = <<>> <=> Len(L) = 0
  BY AppendProperties

-----------------------------------------------------------------------------
(* Accepting a packet keeps the slot and the log consistent.               *)

\* A handshake of a session that is neither the current one nor retired
\* (ReplaceRemoteSession): its identity has not been seen in this log.
LEMMA AcceptReplace ==
    ASSUME NEW m \in Nat, NEW b \in Nat, m <= HistoryLimit,
           NEW rem, NEW last, NEW req, NEW ret, NEW L, NEW p \in Packets,
           Consistent(rem, last, req, ret, L, m, b),
           p.session <= m, p.counter <= b,
           p.type \in Handshakes, rem # 0, rem # p.session,
           \A j \in DOMAIN ret : ret[j] # p.session
    PROVE  /\ Len(ret) < HistoryLimit
           /\ Consistent(p.session, p.counter, TRUE, Append(ret, rem),
                         Append(L, p), m, b)
<1> DEFINE R == Append(ret, rem)
           M == Append(L, p)
<1>0. /\ Typed(rem, last, req, ret, L, m, b) /\ LastEntry(rem, last, L)
      /\ OthersRetired(rem, ret, L) /\ RetiredOnce(rem, ret, m)
      /\ BaselinePending(rem, req, L)
      /\ Ordered(L) /\ Contiguous(L) /\ Baseline(L)
  BY DEF Consistent
<1>1. rem \in Incarnations /\ ret \in Seq(Incarnations) /\ L \in Seq(Packets)
  BY <1>0 DEF Typed, Incarnations
<1>2. p.session \in Incarnations /\ p.counter \in Nat \ {0}
  BY CounterAssumption DEF Packets, Counters
<1>R. /\ R \in Seq(Incarnations) /\ DOMAIN ret = 1..Len(ret) /\ Len(ret) \in Nat
      /\ Len(R) = Len(ret) + 1 /\ DOMAIN R = 1..(Len(ret) + 1)
      /\ \A i \in 1..Len(ret) : R[i] = ret[i]
      /\ R[Len(ret) + 1] = rem
  BY <1>1, AppendFacts
<1>M. /\ M \in Seq(Packets) /\ M # <<>> /\ DOMAIN L = 1..Len(L) /\ Len(L) \in Nat
      /\ Len(M) = Len(L) + 1 /\ DOMAIN M = 1..(Len(L) + 1)
      /\ \A i \in 1..Len(L) : M[i] = L[i]
      /\ M[Len(L) + 1] = p
  BY <1>1, AppendFacts
<1>3. RetiredOnce(p.session, R, m)
  <2>1. \A j \in DOMAIN R : R[j] # p.session /\ R[j] <= m
    BY <1>0, <1>R DEF RetiredOnce, Typed
  <2>2. \A i, j \in DOMAIN R : R[i] = R[j] => i = j
    BY <1>0, <1>R DEF RetiredOnce
  <2> QED BY <2>1, <2>2 DEF RetiredOnce
<1>4. Len(ret) < HistoryLimit
  <2>1. Len(R) <= m
    BY <1>R, <1>3, DistinctLen DEF RetiredOnce
  <2> QED BY <2>1, <1>R, HistoryAssumption
<1>5. OthersRetired(p.session, R, M)
  <2>1. SUFFICES ASSUME NEW i \in DOMAIN M, M[i].session # p.session
                 PROVE  \E j \in DOMAIN R : R[j] = M[i].session
    BY DEF OthersRetired
  <2>2. i \in DOMAIN L /\ M[i] = L[i]
    BY <2>1, <1>M
  <2>3. CASE L[i].session = rem
    <3>1. Len(ret) + 1 \in DOMAIN R
      BY <1>R
    <3> QED BY <3>1, <2>2, <2>3, <1>R
  <2>4. CASE \E j \in DOMAIN ret : ret[j] = L[i].session
    <3>1. PICK j \in DOMAIN ret : ret[j] = L[i].session
      BY <2>4
    <3>2. j \in DOMAIN R /\ R[j] = ret[j]
      BY <1>R
    <3> QED BY <3>1, <3>2, <2>2
  <2> QED BY <2>2, <2>3, <2>4, <1>0 DEF OthersRetired
<1>6. \A i \in 1..Len(L) : M[i].session # p.session
  BY <1>0, <1>M DEF OthersRetired
<1>7. LastEntry(p.session, p.counter, M)
  BY <1>2, <1>6, <1>M DEF LastEntry, Incarnations
<1>8. Ordered(M)
  BY <1>0, <1>6, <1>M DEF Ordered
<1>9. Contiguous(M)
  BY <1>0, <1>6, <1>M DEF Contiguous
<1>10. Baseline(M)
  <2>1. SUFFICES ASSUME NEW k \in DOMAIN M, FirstBound(M, k)
                 PROVE  M[k].counter = NextInboundCounter(M[k - 1].counter)
    BY DEF Baseline
  <2>2. k \in 1..Len(L)
    BY <2>1, <1>M DEF FirstBound
  <2>3. FirstBound(L, k)
    BY <2>1, <2>2, <1>M DEF FirstBound
  <2>4. k # 1
    BY <2>3 DEF FirstBound
  <2>5. L[k].counter = NextInboundCounter(L[k - 1].counter)
    BY <2>2, <2>3, <1>0, <1>M DEF Baseline
  <2> QED BY <2>2, <2>4, <2>5, <1>M
<1>11. Typed(p.session, p.counter, TRUE, R, M, m, b)
  BY <1>2, <1>R, <1>M DEF Typed, Incarnations
<1>12. BaselinePending(p.session, TRUE, M)
  BY DEF BaselinePending
<1> QED
  BY <1>3, <1>4, <1>5, <1>7, <1>8, <1>9, <1>10, <1>11, <1>12 DEF Consistent

\* Away from the wrap window a forward counter is a greater counter.
LEMMA ForwardIsGreater ==
    ASSUME NEW b \in Nat, b + WrapGap <= CounterMax,
           NEW prev \in Nat, prev <= b, NEW cur \in Nat \ {0},
           IsForwardInboundCounter(prev, cur)
    PROVE  cur > prev
  BY CounterAssumption DEF IsForwardInboundCounter

\* A packet of the current session, or the first handshake of a fresh slot:
\* its counter is beyond everything accepted in this session.
LEMMA AcceptContinue ==
    ASSUME NEW m \in Nat, NEW b \in Nat, b + WrapGap <= CounterMax,
           NEW rem, NEW last, NEW req, NEW ret, NEW L, NEW p \in Packets,
           Consistent(rem, last, req, ret, L, m, b),
           p.session <= m, p.counter <= b,
           p.type \in Handshakes => rem \in {0, p.session},
           p.type \in Handshakes => \A j \in DOMAIN ret : ret[j] # p.session,
           p.type \notin Handshakes => rem = p.session,
           last # 0 => IsForwardInboundCounter(last, p.counter),
           last # 0 /\ req /\ p.type \notin Handshakes =>
               p.counter = NextInboundCounter(last)
    PROVE  Consistent(p.session, p.counter,
                      req /\ p.type \in Handshakes /\ rem # 0, ret,
                      Append(L, p), m, b)
<1> DEFINE M == Append(L, p)
           req2 == req /\ p.type \in Handshakes /\ rem # 0
<1>0. /\ Typed(rem, last, req, ret, L, m, b) /\ LastEntry(rem, last, L)
      /\ OthersRetired(rem, ret, L) /\ RetiredOnce(rem, ret, m)
      /\ BaselinePending(rem, req, L)
      /\ Ordered(L) /\ Contiguous(L) /\ Baseline(L)
  BY DEF Consistent
<1>1. L \in Seq(Packets) /\ last \in Nat /\ last <= b
  BY <1>0 DEF Typed
<1>2. p.session \in Nat \ {0} /\ p.counter \in Nat \ {0}
  BY CounterAssumption DEF Packets, Counters, Incarnations
<1>M. /\ M \in Seq(Packets) /\ M # <<>> /\ DOMAIN L = 1..Len(L) /\ Len(L) \in Nat
      /\ Len(M) = Len(L) + 1 /\ DOMAIN M = 1..(Len(L) + 1)
      /\ \A i \in 1..Len(L) : M[i] = L[i]
      /\ M[Len(L) + 1] = p
      /\ L = <<>> <=> Len(L) = 0
  BY <1>1, AppendFacts
<1>3. Len(L) # 0 =>
        /\ rem = p.session /\ last # 0 /\ p.counter > last
        /\ L[Len(L)].session = rem /\ L[Len(L)].counter = last
  <2>1. Len(L) # 0 => rem # 0 /\ last # 0
                      /\ L[Len(L)].session = rem /\ L[Len(L)].counter = last
    BY <1>0, <1>M DEF LastEntry
  <2>2. last # 0 => p.counter > last
    BY <1>1, <1>2, ForwardIsGreater
  <2> QED BY <2>1, <2>2
<1>4. \A i \in 1..Len(L) : M[i].session = p.session => M[i].counter < p.counter
  <2>1. SUFFICES ASSUME NEW i \in 1..Len(L), M[i].session = p.session
                 PROVE  M[i].counter < p.counter
    OBVIOUS
  <2>2. L[i].counter <= last
    BY <2>1, <1>0, <1>3, <1>M DEF LastEntry
  <2>3. L[i].counter \in Nat
    <3>1. L[i] \in Packets
      BY <2>1, <1>1, ElementOfSeq
    <3> QED BY <3>1, CounterAssumption DEF Packets, Counters
  <2> QED BY <2>2, <2>3, <1>1, <1>2, <1>3, <1>M
<1>5. LastEntry(p.session, p.counter, M)
  <2>1. \A i \in DOMAIN M : M[i].session = p.session => M[i].counter <= p.counter
    <3>1. SUFFICES ASSUME NEW i \in DOMAIN M, M[i].session = p.session
                   PROVE  M[i].counter <= p.counter
      OBVIOUS
    <3>2. CASE i = Len(L) + 1
      BY <3>2, <1>M, <1>2
    <3>3. CASE i \in 1..Len(L)
      <4>1. M[i].counter \in Nat
        <5>1. M[i] \in Packets
          BY <3>3, <1>1, <1>M, ElementOfSeq
        <5> QED BY <5>1, CounterAssumption DEF Packets, Counters
      <4> QED BY <3>1, <3>3, <4>1, <1>4, <1>2
    <3> QED BY <3>2, <3>3, <1>M
  <2> QED BY <2>1, <1>2, <1>M DEF LastEntry
<1>6. OthersRetired(p.session, ret, M)
  BY <1>0, <1>3, <1>M DEF OthersRetired
<1>7. RetiredOnce(p.session, ret, m)
  BY <1>0 DEF RetiredOnce
<1>8. Ordered(M)
  <2>1. SUFFICES ASSUME NEW i \in DOMAIN M, NEW j \in DOMAIN M, i < j,
                        M[i].session = M[j].session
                 PROVE  M[i].counter < M[j].counter
    BY DEF Ordered
  <2>2. CASE j = Len(L) + 1
    BY <2>1, <2>2, <1>4, <1>M
  <2>3. CASE j \in 1..Len(L)
    BY <2>1, <2>3, <1>0, <1>M DEF Ordered
  <2> QED BY <2>2, <2>3, <1>M
<1>9. Contiguous(M)
  <2>1. SUFFICES ASSUME NEW i \in DOMAIN M, NEW j \in DOMAIN M, NEW k \in DOMAIN M,
                        i < j, j < k, M[i].session = M[k].session
                 PROVE  M[j].session = M[i].session
    BY DEF Contiguous
  <2>2. CASE k = Len(L) + 1
    <3>1. L[i].session = L[Len(L)].session
      BY <2>1, <2>2, <1>3, <1>M
    <3>2. CASE j = Len(L)
      BY <3>1, <3>2, <2>1, <1>M
    <3>3. CASE j < Len(L)
      <4>1. i \in DOMAIN L /\ j \in DOMAIN L /\ Len(L) \in DOMAIN L
        BY <2>1, <3>3, <1>M
      <4>2. L[j].session = L[i].session
        BY <4>1, <3>1, <3>3, <2>1, <1>0 DEF Contiguous
      <4> QED BY <4>1, <4>2, <1>M
    <3> QED BY <2>1, <2>2, <3>2, <3>3, <1>M
  <2>3. CASE k \in 1..Len(L)
    BY <2>1, <2>3, <1>0, <1>M DEF Contiguous
  <2> QED BY <2>2, <2>3, <1>M
<1>10. ASSUME p.session # M[1].session,
              \A i \in 1..Len(L) :
                  M[i].session = p.session => M[i].type \in Handshakes
       PROVE  Len(L) # 0 /\ req
  <2>1. Len(L) # 0
    BY <1>10, <1>M
  <2>2. L # <<>> /\ rem # L[1].session
    BY <2>1, <1>10, <1>3, <1>M
  <2>3. \A i \in DOMAIN L : L[i].session = rem => L[i].type \in Handshakes
    BY <2>1, <1>10, <1>3, <1>M
  <2> QED BY <2>1, <2>2, <2>3, <1>0 DEF BaselinePending
<1>11. Baseline(M)
  <2>1. SUFFICES ASSUME NEW k \in DOMAIN M, FirstBound(M, k)
                 PROVE  M[k].counter = NextInboundCounter(M[k - 1].counter)
    BY DEF Baseline
  <2>2. CASE k \in 1..Len(L)
    <3>1. FirstBound(L, k)
      BY <2>1, <2>2, <1>M DEF FirstBound
    <3>2. k # 1
      BY <3>1 DEF FirstBound
    <3>3. L[k].counter = NextInboundCounter(L[k - 1].counter)
      BY <2>2, <3>1, <1>0, <1>M DEF Baseline
    <3> QED BY <2>2, <3>2, <3>3, <1>M
  <2>3. CASE k = Len(L) + 1
    <3>1. /\ p.type \notin Handshakes /\ p.session # M[1].session
          /\ \A i \in 1..Len(L) :
                 M[i].session = p.session => M[i].type \in Handshakes
      BY <2>1, <2>3, <1>M DEF FirstBound
    <3>2. Len(L) # 0 /\ req
      BY <3>1, <1>10
    <3>3. p.counter = NextInboundCounter(last) /\ last = L[Len(L)].counter
      BY <3>1, <3>2, <1>3
    <3>4. k - 1 = Len(L) /\ Len(L) \in 1..Len(L)
      BY <2>3, <3>2, <1>M
    <3>5. M[k] = p /\ M[k - 1] = L[Len(L)]
      BY <2>3, <3>4, <1>M
    <3> QED BY <3>3, <3>5
  <2>4. k \in 1..Len(L) \/ k = Len(L) + 1
    BY <1>M
  <2> QED BY <2>2, <2>3, <2>4
<1>12. BaselinePending(p.session, req2, M)
  <2>1. SUFFICES ASSUME p.session # M[1].session,
                        \A i \in DOMAIN M :
                            M[i].session = p.session => M[i].type \in Handshakes
                 PROVE  req2
    BY DEF BaselinePending
  <2>2. p.type \in Handshakes
    BY <2>1, <1>M
  <2>3. Len(L) # 0 /\ req
    BY <2>1, <1>10, <1>M
  <2>4. rem # 0
    BY <2>3, <1>3, <1>2
  <2> QED BY <2>2, <2>3, <2>4
<1>13. Typed(p.session, p.counter, req2, ret, M, m, b)
  BY <1>0, <1>2, <1>M DEF Typed
<1> QED
  BY <1>5, <1>6, <1>7, <1>8, <1>9, <1>11, <1>12, <1>13 DEF Consistent

-----------------------------------------------------------------------------
(* The slot operations.                                                    *)

\* The operations before and after the replay check leave the replay state
\* alone.
LEMMA SlotOps ==
    ASSUME NEW s \in Slots
    PROVE  /\ FreshSlot \in Slots
           /\ EnsureLocalSession(s) \in Slots
           /\ ConsumeCounter(s) \in Slots
           /\ \A st \in States : [s EXCEPT !.state = st] \in Slots
<1>1. FreshSlot \in Slots
  BY CounterAssumption DEF Slots, States, Counters, FreshSlot
<1>2. EnsureLocalSession(s) \in Slots
  BY DEF Slots, EnsureLocalSession
<1>3. ConsumeCounter(s) \in Slots
  BY CounterAssumption DEF Slots, Counters, ConsumeCounter
<1>4. \A st \in States : [s EXCEPT !.state = st] \in Slots
  BY DEF Slots
<1> QED BY <1>1, <1>2, <1>3, <1>4

\* Updating the replay state of a slot.
LEMMA ReplayFields ==
    ASSUME NEW s \in Slots, NEW r \in Nat, NEW c \in 0..CounterMax,
           NEW q \in BOOLEAN, NEW h \in Seq(Incarnations)
    PROVE  /\ [s EXCEPT !.remote = r, !.last_inbound = c,
                        !.require_next = q] \in Slots
           /\ [s EXCEPT !.retired = h, !.remote = r, !.last_inbound = c,
                        !.require_next = q] \in Slots
<1>1. [s EXCEPT !.retired = h] \in Slots
  BY DEF Slots
<1>2. \A u \in Slots : [u EXCEPT !.remote = r] \in Slots
  BY DEF Slots
<1>3. \A u \in Slots : [u EXCEPT !.last_inbound = c] \in Slots
  BY DEF Slots
<1>4. \A u \in Slots : [u EXCEPT !.require_next = q] \in Slots
  BY DEF Slots
<1> QED BY <1>1, <1>2, <1>3, <1>4, Zenon

\* AcceptInboundReplayState and the transition after it yield a slot.
LEMMA AcceptType ==
    ASSUME NEW s \in Slots, NEW p \in Packets
    PROVE  /\ AcceptInboundReplayState(s, p) \in Slots
           /\ TransitionOn(AcceptInboundReplayState(s, p), p) \in Slots
<1> DEFINE t == AcceptInboundReplayState(s, p)
<1>0. p.session \in Nat /\ p.counter \in 0..CounterMax
  BY CounterAssumption DEF Packets, Counters, Incarnations
<1>2. s.remote # 0 => RetireRemoteIdentity(s) \in Seq(Incarnations)
  <2>1. s.retired \in Seq(Incarnations) /\ s.remote \in Nat
    BY DEF Slots
  <2>2. s.retired # <<>> => Tail(s.retired) \in Seq(Incarnations)
    BY <2>1
  <2>3. Len(s.retired) >= HistoryLimit => s.retired # <<>>
    BY <2>1, HistoryAssumption
  <2>4. \A q \in Seq(Incarnations) : s.remote # 0 =>
            Append(q, s.remote) \in Seq(Incarnations)
    BY <2>1 DEF Incarnations
  <2> QED BY <2>1, <2>2, <2>3, <2>4 DEF RetireRemoteIdentity
<1>3. ASSUME Replaces(s, p) PROVE t \in Slots
  <2>1. s.remote # 0
    BY <1>3 DEF Replaces
  <2> QED
    BY <1>0, <1>2, <1>3, <2>1, ReplayFields
    DEF AcceptInboundReplayState, ReplaceRemoteSession
<1>4. ASSUME ~Replaces(s, p) PROVE t \in Slots
  <2> DEFINE q == s.require_next /\ p.type \in Handshakes /\ s.remote # 0
             r == IF p.type \in Handshakes THEN p.session ELSE s.remote
  <2>1. q \in BOOLEAN
    OBVIOUS
  <2>2. r \in Nat
    BY <1>0 DEF Slots
  <2>3. t = [s EXCEPT !.remote = r, !.last_inbound = p.counter,
                      !.require_next = q]
    BY <1>4 DEF AcceptInboundReplayState
  <2>4. s.retired \in Seq(Incarnations)
    BY DEF Slots
  <2> HIDE DEF q, r, t
  <2> QED BY <1>0, <2>1, <2>2, <2>3, <2>4, ReplayFields
<1>5. t \in Slots
  BY <1>3, <1>4
<1>6. \E st \in States : TransitionOn(t, p) = [t EXCEPT !.state = st]
  <2>1. t.state \in States
    BY <1>5 DEF Slots
  <2> QED BY <2>1 DEF TransitionOn, States
<1> QED BY <1>5, <1>6, SlotOps

-----------------------------------------------------------------------------
(* Type correctness.                                                       *)

\* A larger set of packets, more sequences over it.
LEMMA SeqGrows ==
    ASSUME NEW A, NEW B, A \subseteq B, NEW q \in Seq(A)
    PROVE  q \in Seq(B)
  OBVIOUS

\* Sending one packet on a link.
LEMMA SendType ==
    ASSUME TypeOK, NEW l \in Links, NEW s \in Slots, NEW type \in Types,
           SendSignedControlMessage(l, s, type)
    PROVE  /\ slot' \in [Links -> Slots]
           /\ sent' \in [Links -> Nat]
           /\ net \subseteq net' /\ net' \subseteq Packets
<1>1. ConsumeCounter(s) \in Slots
  BY SlotOps
<1>2. PacketOf(l, s, type) \in Packets
  BY DEF TypeOK, PacketOf, Packets, Links, Slots
<1> QED BY <1>1, <1>2 DEF SendSignedControlMessage, TypeOK

\* Every step of every daemon keeps the variables within their types.
LEMMA TypeStep ==
    TypeOK /\ [Next]_vars => TypeOK'
<1> SUFFICES ASSUME TypeOK, [Next]_vars PROVE TypeOK'
  OBVIOUS
<1>0. /\ slot \in [Links -> Slots] /\ inc \in [Nodes -> Incarnations]
      /\ net \subseteq Packets /\ sent \in [Links -> Nat]
      /\ log \in [Links -> Seq(net)]
  BY DEF TypeOK
<1>1. ASSUME NEW l \in Links, TickConnect(l) PROVE TypeOK'
  <2>1. [EnsureLocalSession(slot[l]) EXCEPT !.state = "Connecting"] \in Slots
        /\ ConsumeCounter(EnsureLocalSession(slot[l])) \in Slots
    BY <1>0, SlotOps DEF States
  <2>2. /\ slot' \in [Links -> Slots] /\ sent' \in [Links -> Nat]
        /\ net \subseteq net' /\ net' \subseteq Packets
    <3>1. CASE SendSignedControlMessage(l,
                 [EnsureLocalSession(slot[l]) EXCEPT !.state = "Connecting"], "Syn")
      BY <2>1, <3>1, SendType DEF Types, Handshakes
    <3>2. CASE /\ sent' = [sent EXCEPT ![l] = @ + 1]
               /\ slot' = [slot EXCEPT ![l] =
                              ConsumeCounter(EnsureLocalSession(slot[l]))]
               /\ UNCHANGED net
      BY <1>0, <2>1, <3>2
    <3> QED BY <1>1, <3>1, <3>2 DEF TickConnect
  <2> QED BY <1>0, <1>1, <2>2, SeqGrows DEF TickConnect, TypeOK
<1>2. ASSUME NEW l \in Links, TickTimeout(l) \/ TickStale(l) PROVE TypeOK'
  <2>1. /\ [slot[l] EXCEPT !.state = "Disconnected"] \in Slots
        /\ [slot[l] EXCEPT !.state = "Stale"] \in Slots
    BY <1>0, SlotOps DEF States
  <2>2. slot' \in [Links -> Slots]
    BY <1>0, <1>2, <2>1 DEF TickTimeout, TickStale
  <2> QED BY <1>0, <1>2, <2>2 DEF TickTimeout, TickStale, TypeOK
<1>3. ASSUME NEW l \in Links, TickKeepalive(l) \/ PumpOutbound(l) PROVE TypeOK'
  <2>2. /\ slot' \in [Links -> Slots] /\ sent' \in [Links -> Nat]
        /\ net \subseteq net' /\ net' \subseteq Packets
    BY <1>0, <1>3, SendType DEF TickKeepalive, PumpOutbound, Types
  <2> QED BY <1>0, <1>3, <2>2, SeqGrows DEF TickKeepalive, PumpOutbound, TypeOK
<1>4. ASSUME NEW p \in net, HandleInbound(p) PROVE TypeOK'
  <2> DEFINE l == <<p.dst, p.src>>
             s == IF p.type = "Syn" THEN EnsureLocalSession(slot[l]) ELSE slot[l]
             t == TransitionOn(AcceptInboundReplayState(s, p), p)
  <2>1. l \in Links /\ p \in Packets
    BY <1>0 DEF Links, Packets
  <2>2. s \in Slots
    BY <1>0, <2>1, SlotOps
  <2>3. t \in Slots
    BY <2>1, <2>2, AcceptType
  <2>4. log' = [log EXCEPT ![l] = Append(@, p)] /\ inc' = inc
    BY <1>4 DEF HandleInbound
  <2>5. \/ SendSignedControlMessage(l, t, "SynAck")
        \/ slot' = [slot EXCEPT ![l] = t] /\ UNCHANGED <<net, sent>>
    BY <1>4 DEF HandleInbound
  <2> HIDE DEF l, t
  <2>6. /\ slot' \in [Links -> Slots] /\ sent' \in [Links -> Nat]
        /\ net \subseteq net' /\ net' \subseteq Packets
    BY <1>0, <2>1, <2>3, <2>5, SendType DEF Types, Handshakes
  <2>7. log' \in [Links -> Seq(net)]
    BY <1>0, <2>1, <2>4
  <2> QED BY <1>0, <2>4, <2>6, <2>7, SeqGrows DEF TypeOK
<1>5. ASSUME NEW n \in Nodes, StartProcess(n)
      PROVE  /\ slot' \in [Links -> Slots] /\ sent' \in [Links -> Nat]
             /\ inc' \in [Nodes -> Incarnations] /\ log' \in [Links -> Seq(net)]
  <2>1. FreshSlot \in Slots
    BY CounterAssumption DEF Slots, States, Counters, FreshSlot
  <2> QED BY <1>0, <1>5, <2>1, BoundAssumption DEF StartProcess, Incarnations
<1>6. ASSUME NEW n \in Nodes, Crash(n) PROVE TypeOK'
  BY <1>0, <1>5, <1>6 DEF Crash, TypeOK
<1>7. ASSUME NEW n \in Nodes, Shutdown(n) PROVE TypeOK'
  <2>1. \A l \in Links : PacketOf(l, slot[l], "Disconnect") \in Packets
    BY <1>0 DEF PacketOf, Packets, Links, Slots, Types
  <2>2. net \subseteq net' /\ net' \subseteq Packets
    BY <1>0, <1>7, <2>1 DEF Shutdown
  <2>3. StartProcess(n)
    BY <1>7 DEF Shutdown
  <2> QED BY <2>2, <2>3, <1>5, SeqGrows DEF TypeOK
<1>8. ASSUME UNCHANGED vars PROVE TypeOK'
  BY <1>0, <1>8 DEF TypeOK, vars
<1> QED BY <1>1, <1>2, <1>3, <1>4, <1>6, <1>7, <1>8 DEF Next

\* Type correctness of the session layer.
THEOREM TypeCorrect == Spec => []TypeOK
<1>1. Init => TypeOK
  <2>1. FreshSlot \in Slots
    BY CounterAssumption DEF Slots, States, Counters, FreshSlot
  <2> QED BY <2>1 DEF Init, TypeOK, Incarnations
<1> QED BY <1>1, TypeStep, PTL DEF Spec

-----------------------------------------------------------------------------
(* The inductive invariant.                                                *)

CountOK(s, c, b) == c <= b /\ (c < CounterMax => s.next_counter = c + 1)

Bounds ==
    /\ \A n \in Nodes : inc[n] <= MaxIncarnation[n]
    /\ \A l \in Links : CountOK(slot[l], sent[l], SendBound[l[1]])
    /\ \A p \in net : /\ p.counter <= SendBound[p.src]
                      /\ p.session <= MaxIncarnation[p.src]

SlotConsistent(s, l, L) ==
    Consistent(s.remote, s.last_inbound, s.require_next, s.retired, L,
               MaxIncarnation[l[2]], SendBound[l[2]])

LogConsistent == \A l \in Links : SlotConsistent(slot[l], l, log[l])

IInv == TypeOK /\ Bounds /\ LogConsistent

\* A packet that a daemon sends carries a counter and a session within the
\* daemon's bounds.
LEMMA PacketBounds ==
    ASSUME NoWrap, TypeOK, Bounds, NEW l \in Links, NEW s \in Slots,
           NEW type \in Types, s.next_counter = slot[l].next_counter,
           sent[l] < SendBound[l[1]]
    PROVE  /\ PacketOf(l, s, type).src = l[1]
           /\ PacketOf(l, s, type).counter <= SendBound[l[1]]
           /\ PacketOf(l, s, type).session <= MaxIncarnation[l[1]]
<1>1. l[1] \in Nodes
  BY DEF Links
<1>2. SendBound[l[1]] <= CounterMax /\ SendBound[l[1]] \in Nat /\ sent[l] \in Nat
  BY <1>1, CounterAssumption, BoundAssumption DEF NoWrap, TypeOK
<1>3. s.next_counter = sent[l] + 1
  BY <1>2, CounterAssumption DEF Bounds, CountOK
<1> QED BY <1>1, <1>2, <1>3 DEF PacketOf, Bounds

\* Using up a counter keeps the slot's counter in step with what was sent.
LEMMA CountStep ==
    ASSUME NoWrap, TypeOK, Bounds, NEW l \in Links, NEW s \in Slots,
           s.next_counter = slot[l].next_counter, sent[l] < SendBound[l[1]]
    PROVE  CountOK(ConsumeCounter(s), sent[l] + 1, SendBound[l[1]])
<1>1. l[1] \in Nodes
  BY DEF Links
<1>2. SendBound[l[1]] <= CounterMax /\ SendBound[l[1]] \in Nat /\ sent[l] \in Nat
  BY <1>1, CounterAssumption, BoundAssumption DEF NoWrap, TypeOK
<1>3. s.next_counter = sent[l] + 1
  BY <1>2, CounterAssumption DEF Bounds, CountOK
<1>4. ConsumeCounter(s).next_counter =
          IF s.next_counter = CounterMax THEN 1 ELSE s.next_counter + 1
  BY DEF ConsumeCounter, Slots
<1> QED BY <1>2, <1>3, <1>4, CounterAssumption DEF CountOK

\* Sending one packet keeps the bounds.
LEMMA SendBounds ==
    ASSUME NoWrap, TypeOK, Bounds, NEW l \in Links, NEW s \in Slots,
           NEW type \in Types, s.next_counter = slot[l].next_counter,
           SendSignedControlMessage(l, s, type), inc' = inc
    PROVE  Bounds'
<1>1. sent[l] < SendBound[l[1]]
  BY DEF SendSignedControlMessage
<1>2. CountOK(ConsumeCounter(s), sent[l] + 1, SendBound[l[1]])
  BY <1>1, CountStep
<1>3. \A k \in Links : CountOK(slot'[k], sent'[k], SendBound[k[1]])
  BY <1>2 DEF SendSignedControlMessage, TypeOK, Bounds
<1>4. \A p \in net' : /\ p.counter <= SendBound[p.src]
                     /\ p.session <= MaxIncarnation[p.src]
  BY <1>1, PacketBounds DEF SendSignedControlMessage, Bounds
<1> QED BY <1>3, <1>4 DEF Bounds

\* The replay state is untouched by the operations around the replay check.
LEMMA ReplayStateKept ==
    ASSUME NEW s \in Slots, NEW l \in Links, NEW L, NEW st \in States,
           SlotConsistent(s, l, L)
    PROVE  /\ SlotConsistent(EnsureLocalSession(s), l, L)
           /\ SlotConsistent(ConsumeCounter(s), l, L)
           /\ SlotConsistent([s EXCEPT !.state = st], l, L)
  BY DEF SlotConsistent, EnsureLocalSession, ConsumeCounter, Slots

\* A slot that has accepted nothing.
LEMMA FreshConsistent ==
    ASSUME NEW l \in Links
    PROVE  SlotConsistent(FreshSlot, l, <<>>)
<1>1. MaxIncarnation[l[2]] \in Nat /\ SendBound[l[2]] \in Nat
  BY BoundAssumption DEF Links
<1>2. <<>> \in Seq(Incarnations) /\ <<>> \in Seq(Packets) /\ DOMAIN <<>> = {}
  OBVIOUS
<1>3. Consistent(0, 0, FALSE, <<>>, <<>>, MaxIncarnation[l[2]], SendBound[l[2]])
  BY <1>1, <1>2
  DEF Consistent, Typed, LastEntry, OthersRetired, RetiredOnce,
      BaselinePending, Ordered, Contiguous, Baseline
<1> QED BY <1>3 DEF SlotConsistent, FreshSlot

\* The whole of HandleInbound on the replay state.
LEMMA AcceptConsistent ==
    ASSUME NoWrap, HistoryHolds, TypeOK, Bounds, NEW p \in net, NEW s \in Slots,
           NEW L, SlotConsistent(s, <<p.dst, p.src>>, L),
           Authentic(s, p), Replaces(s, p) \/ Continues(s, p)
    PROVE  /\ SlotConsistent(TransitionOn(AcceptInboundReplayState(s, p), p),
                             <<p.dst, p.src>>, Append(L, p))
           /\ TransitionOn(AcceptInboundReplayState(s, p), p).next_counter
                 = s.next_counter
<1> DEFINE t == AcceptInboundReplayState(s, p)
           m == MaxIncarnation[p.src]
           b == SendBound[p.src]
<1>1. /\ p \in Packets /\ p.src \in Nodes /\ m \in Nat /\ b \in Nat
      /\ p.session <= m /\ p.counter <= b
      /\ m <= HistoryLimit /\ b + WrapGap <= CounterMax
  BY BoundAssumption DEF TypeOK, Packets, Bounds, NoWrap, HistoryHolds
<1>2. Consistent(s.remote, s.last_inbound, s.require_next, s.retired, L, m, b)
  BY DEF SlotConsistent
<1>3. ASSUME Replaces(s, p)
      PROVE  /\ Consistent(t.remote, t.last_inbound, t.require_next, t.retired,
                           Append(L, p), m, b)
             /\ t.next_counter = s.next_counter
  <2>1. /\ p.type \in Handshakes /\ s.remote # 0 /\ s.remote # p.session
        /\ \A j \in DOMAIN s.retired : s.retired[j] # p.session
    BY <1>3 DEF Replaces, IsRetiredRemoteIdentity
  <2>2. /\ Len(s.retired) < HistoryLimit
        /\ Consistent(p.session, p.counter, TRUE, Append(s.retired, s.remote),
                      Append(L, p), m, b)
    BY <1>1, <1>2, <2>1, AcceptReplace
  <2>3. \A j \in DOMAIN s.retired : s.retired[j] # s.remote
    BY <1>2 DEF Consistent, RetiredOnce
  <2>4. RetireRemoteIdentity(s) = Append(s.retired, s.remote)
    <3>1. Len(s.retired) \in Nat
      BY DEF Slots
    <3> QED BY <2>1, <2>2, <2>3, <3>1, HistoryAssumption
            DEF RetireRemoteIdentity, IsRetiredRemoteIdentity
  <2>5. /\ t.remote = p.session /\ t.last_inbound = p.counter
        /\ t.require_next = TRUE /\ t.retired = RetireRemoteIdentity(s)
        /\ t.next_counter = s.next_counter
    BY <1>3 DEF AcceptInboundReplayState, ReplaceRemoteSession, Slots
  <2> QED BY <2>2, <2>4, <2>5
<1>4. ASSUME ~Replaces(s, p), Continues(s, p)
      PROVE  /\ Consistent(t.remote, t.last_inbound, t.require_next, t.retired,
                           Append(L, p), m, b)
             /\ t.next_counter = s.next_counter
  <2>1. /\ p.type \in Handshakes => s.remote \in {0, p.session}
        /\ p.type \in Handshakes =>
              \A j \in DOMAIN s.retired : s.retired[j] # p.session
        /\ s.last_inbound # 0 =>
              IsForwardInboundCounter(s.last_inbound, p.counter)
        /\ s.last_inbound # 0 /\ s.require_next /\ p.type \notin Handshakes =>
              p.counter = NextInboundCounter(s.last_inbound)
    BY <1>4 DEF Continues, IsRetiredRemoteIdentity
  <2>2. p.type \notin Handshakes => s.remote = p.session
    BY DEF Authentic
  <2>3. Consistent(p.session, p.counter,
                   s.require_next /\ p.type \in Handshakes /\ s.remote # 0,
                   s.retired, Append(L, p), m, b)
    <3> HIDE DEF t, m, b
    <3> QED BY <1>1, <1>2, <2>1, <2>2, AcceptContinue, Zenon
  <2>4. t = [s EXCEPT
                !.remote = IF p.type \in Handshakes THEN p.session ELSE @,
                !.last_inbound = p.counter,
                !.require_next = @ /\ p.type \in Handshakes /\ s.remote # 0]
    BY <1>4 DEF AcceptInboundReplayState
  <2>5. /\ t.remote = p.session /\ t.last_inbound = p.counter
        /\ t.retired = s.retired /\ t.next_counter = s.next_counter
    BY <2>2, <2>4 DEF Slots
  <2>6. t.require_next = (s.require_next /\ p.type \in Handshakes /\ s.remote # 0)
    BY <2>4 DEF Slots
  <2> QED BY <2>3, <2>5, <2>6
<1>5. t \in Slots
  BY <1>1, AcceptType
<1> HIDE DEF t
<1>6. /\ TransitionOn(t, p).remote = t.remote
      /\ TransitionOn(t, p).last_inbound = t.last_inbound
      /\ TransitionOn(t, p).require_next = t.require_next
      /\ TransitionOn(t, p).retired = t.retired
      /\ TransitionOn(t, p).next_counter = t.next_counter
  BY <1>5 DEF TransitionOn, Slots
<1>7. /\ Consistent(t.remote, t.last_inbound, t.require_next, t.retired,
                    Append(L, p), m, b)
      /\ t.next_counter = s.next_counter
  BY <1>3, <1>4
<1> QED BY <1>6, <1>7 DEF SlotConsistent, t

\* Every step keeps the inductive invariant.
LEMMA InvStep ==
    ASSUME NoWrap, HistoryHolds
    PROVE  IInv /\ [Next]_vars => IInv'
<1> SUFFICES ASSUME IInv, [Next]_vars PROVE IInv'
  OBVIOUS
<1>0. /\ TypeOK /\ Bounds /\ LogConsistent /\ TypeOK'
      /\ slot \in [Links -> Slots] /\ log \in [Links -> Seq(net)]
      /\ sent \in [Links -> Nat] /\ net \subseteq Packets
  BY TypeStep DEF IInv, TypeOK
<1>1. ASSUME NEW l \in Links, TickConnect(l) PROVE IInv'
  <2> DEFINE e == EnsureLocalSession(slot[l])
             s == [e EXCEPT !.state = "Connecting"]
  <2>1. e \in Slots /\ s \in Slots
    BY <1>0, SlotOps DEF States
  <2>2. /\ SlotConsistent(ConsumeCounter(s), l, log[l])
        /\ SlotConsistent(ConsumeCounter(e), l, log[l])
    <3>1. SlotConsistent(slot[l], l, log[l]) /\ "Connecting" \in States
      BY <1>0 DEF LogConsistent, States
    <3>2. SlotConsistent(e, l, log[l])
      BY <1>0, <3>1, ReplayStateKept
    <3>3. SlotConsistent(s, l, log[l])
      BY <2>1, <3>1, <3>2, ReplayStateKept
    <3> QED BY <2>1, <3>1, <3>2, <3>3, ReplayStateKept
  <2>3. e.next_counter = slot[l].next_counter /\ s.next_counter = slot[l].next_counter
    BY <1>0 DEF EnsureLocalSession, Slots
  <2>4. log' = log /\ inc' = inc
    BY <1>1 DEF TickConnect
  <2>5. CASE SendSignedControlMessage(l, s, "Syn")
    <3>1. Bounds'
      BY <1>0, <2>1, <2>3, <2>4, <2>5, SendBounds DEF Types, Handshakes
    <3>2. LogConsistent'
      BY <1>0, <2>2, <2>4, <2>5 DEF LogConsistent, SendSignedControlMessage
    <3> QED BY <1>0, <3>1, <3>2 DEF IInv
  <2>6. CASE /\ sent[l] < SendBound[l[1]]
             /\ sent' = [sent EXCEPT ![l] = @ + 1]
             /\ slot' = [slot EXCEPT ![l] = ConsumeCounter(e)]
             /\ UNCHANGED net
    <3>1. CountOK(ConsumeCounter(e), sent[l] + 1, SendBound[l[1]])
      BY <1>0, <2>1, <2>3, <2>6, CountStep
    <3>2. Bounds'
      BY <1>0, <2>4, <2>6, <3>1 DEF Bounds
    <3>3. LogConsistent'
      BY <1>0, <2>2, <2>4, <2>6 DEF LogConsistent
    <3> QED BY <1>0, <3>2, <3>3 DEF IInv
  <2> QED BY <1>1, <2>5, <2>6 DEF TickConnect
<1>2. ASSUME NEW l \in Links, TickTimeout(l) \/ TickStale(l) PROVE IInv'
  <2>1. PICK st \in States :
           /\ slot' = [slot EXCEPT ![l] = [slot[l] EXCEPT !.state = st]]
           /\ UNCHANGED <<inc, net, sent, log>>
    BY <1>0, <1>2 DEF TickTimeout, TickStale, States
  <2>2. SlotConsistent([slot[l] EXCEPT !.state = st], l, log[l])
    BY <1>0, ReplayStateKept DEF LogConsistent
  <2>3. LogConsistent'
    BY <1>0, <2>1, <2>2 DEF LogConsistent
  <2>4. [slot[l] EXCEPT !.state = st].next_counter = slot[l].next_counter
    BY <1>0 DEF Slots
  <2>5. Bounds'
    BY <1>0, <2>1, <2>4 DEF Bounds, CountOK
  <2> QED BY <1>0, <2>3, <2>5 DEF IInv
<1>3. ASSUME NEW l \in Links, TickKeepalive(l) \/ PumpOutbound(l) PROVE IInv'
  <2>1. PICK type \in Types : SendSignedControlMessage(l, slot[l], type)
    BY <1>3 DEF TickKeepalive, PumpOutbound, Types
  <2>2. log' = log /\ inc' = inc
    BY <1>3 DEF TickKeepalive, PumpOutbound
  <2>3. Bounds'
    BY <1>0, <2>1, <2>2, SendBounds
  <2>4. SlotConsistent(ConsumeCounter(slot[l]), l, log[l])
    <3>1. SlotConsistent(slot[l], l, log[l]) /\ "Stale" \in States
      BY <1>0 DEF LogConsistent, States
    <3> QED BY <1>0, <3>1, ReplayStateKept
  <2>5. LogConsistent'
    BY <1>0, <2>1, <2>2, <2>4 DEF LogConsistent, SendSignedControlMessage
  <2> QED BY <1>0, <2>3, <2>5 DEF IInv
<1>4. ASSUME NEW p \in net, HandleInbound(p) PROVE IInv'
  <2> DEFINE l == <<p.dst, p.src>>
             s == IF p.type = "Syn" THEN EnsureLocalSession(slot[l]) ELSE slot[l]
             t == TransitionOn(AcceptInboundReplayState(s, p), p)
  <2>1. l \in Links /\ p \in Packets
    BY <1>0 DEF Links, Packets
  <2>2. s \in Slots /\ s.next_counter = slot[l].next_counter
    <3>1. slot[l] \in Slots /\ EnsureLocalSession(slot[l]) \in Slots
      BY <1>0, <2>1, SlotOps
    <3>2. EnsureLocalSession(slot[l]).next_counter = slot[l].next_counter
      BY <3>1 DEF EnsureLocalSession, Slots
    <3> QED BY <3>1, <3>2
  <2>3. t \in Slots
    BY <2>1, <2>2, AcceptType
  <2>4. SlotConsistent(s, l, log[l])
    <3>1. SlotConsistent(slot[l], l, log[l]) /\ "Stale" \in States
      BY <1>0, <2>1 DEF LogConsistent, States
    <3> QED BY <1>0, <2>1, <3>1, ReplayStateKept
  <2>5. Authentic(s, p) /\ (Replaces(s, p) \/ Continues(s, p))
    BY <1>4 DEF HandleInbound
  <2>6. SlotConsistent(t, l, Append(log[l], p)) /\ t.next_counter = s.next_counter
    BY <1>0, <2>2, <2>4, <2>5, AcceptConsistent
  <2>7. log' = [log EXCEPT ![l] = Append(@, p)] /\ inc' = inc
    BY <1>4 DEF HandleInbound
  <2>8. \/ SendSignedControlMessage(l, t, "SynAck")
        \/ slot' = [slot EXCEPT ![l] = t] /\ UNCHANGED <<net, sent>>
    BY <1>4 DEF HandleInbound
  <2> HIDE DEF l, s, t
  <2>9. CASE SendSignedControlMessage(l, t, "SynAck")
    <3>1. Bounds'
      BY <1>0, <2>1, <2>2, <2>3, <2>6, <2>7, <2>9, SendBounds
      DEF Types, Handshakes
    <3>2. SlotConsistent(ConsumeCounter(t), l, Append(log[l], p))
      <4>1. "Stale" \in States
        BY DEF States
      <4> QED BY <2>1, <2>3, <2>6, <4>1, ReplayStateKept
    <3>3. LogConsistent'
      BY <1>0, <2>1, <2>7, <2>9, <3>2 DEF LogConsistent, SendSignedControlMessage
    <3> QED BY <1>0, <3>1, <3>3 DEF IInv
  <2>10. CASE slot' = [slot EXCEPT ![l] = t] /\ UNCHANGED <<net, sent>>
    <3>1. Bounds'
      BY <1>0, <2>1, <2>2, <2>6, <2>7, <2>10 DEF Bounds, CountOK
    <3>2. LogConsistent'
      BY <1>0, <2>1, <2>6, <2>7, <2>10 DEF LogConsistent
    <3> QED BY <1>0, <3>1, <3>2 DEF IInv
  <2> QED BY <2>8, <2>9, <2>10
<1>5. ASSUME NEW n \in Nodes, StartProcess(n)
      PROVE  /\ LogConsistent'
             /\ \A k \in Nodes : inc'[k] <= MaxIncarnation[k]
             /\ \A l \in Links : CountOK(slot'[l], sent'[l], SendBound[l[1]])
  <2>1. LogConsistent'
    BY <1>0, <1>5, FreshConsistent DEF StartProcess, LogConsistent
  <2>2. \A k \in Nodes : inc'[k] <= MaxIncarnation[k]
    <3>1. /\ inc \in [Nodes -> Nat] /\ inc[n] < MaxIncarnation[n]
          /\ inc' = [inc EXCEPT ![n] = @ + 1]
      BY <1>0, <1>5 DEF StartProcess, TypeOK, Incarnations
    <3>2. MaxIncarnation[n] \in Nat
      BY BoundAssumption
    <3> QED BY <1>0, <3>1, <3>2 DEF Bounds
  <2>3. \A l \in Links : CountOK(FreshSlot, 0, SendBound[l[1]])
    BY BoundAssumption DEF CountOK, FreshSlot, Links
  <2>4. \A l \in Links : CountOK(slot'[l], sent'[l], SendBound[l[1]])
    BY <1>0, <1>5, <2>3 DEF StartProcess, Bounds
  <2> QED BY <2>1, <2>2, <2>4
<1>6. ASSUME NEW n \in Nodes, Crash(n) PROVE IInv'
  BY <1>0, <1>5, <1>6 DEF Crash, IInv, Bounds
<1>7. ASSUME NEW n \in Nodes, Shutdown(n) PROVE IInv'
  <2>1. ASSUME NEW p \in net', p \notin net
        PROVE  p.counter <= SendBound[p.src] /\ p.session <= MaxIncarnation[p.src]
    <3>1. PICK l \in Links : /\ p = PacketOf(l, slot[l], "Disconnect")
                             /\ sent[l] < SendBound[l[1]]
      BY <1>7, <2>1 DEF Shutdown
    <3> QED BY <1>0, <3>1, PacketBounds DEF Types
  <2>2. Bounds'
    BY <1>0, <1>5, <1>7, <2>1 DEF Shutdown, Bounds
  <2> QED BY <1>0, <1>5, <1>7, <2>2 DEF Shutdown, IInv
<1>8. ASSUME UNCHANGED vars PROVE IInv'
  BY <1>0, <1>8 DEF vars, IInv, Bounds, LogConsistent
<1> QED BY <1>1, <1>2, <1>3, <1>4, <1>6, <1>7, <1>8 DEF Next

\* The inductive invariant holds throughout.
LEMMA Invariance ==
    ASSUME NoWrap, HistoryHolds
    PROVE  Spec => []IInv
<1>1. Init => IInv
  <2> SUFFICES ASSUME Init PROVE IInv
    OBVIOUS
  <2>1. FreshSlot \in Slots
    BY CounterAssumption DEF Slots, States, Counters, FreshSlot
  <2>2. TypeOK
    BY <2>1 DEF Init, TypeOK, Incarnations
  <2>3. Bounds
    BY BoundAssumption DEF Init, Bounds, CountOK, FreshSlot, Links
  <2>4. LogConsistent
    BY FreshConsistent DEF Init, LogConsistent
  <2> QED BY <2>2, <2>3, <2>4 DEF IInv
<1>2. IInv /\ [Next]_vars => IInv'
  BY InvStep
<1> QED BY <1>1, <1>2, PTL DEF Spec

\* Replay protection: whatever the network loses, repeats, delays or
\* reorders and however the daemons restart, a process accepts the packets of
\* one remote session in strictly increasing counter order.
THEOREM ReplayProtection ==
    ASSUME NoWrap, HistoryHolds
    PROVE  Spec => []SessionOrder
<1>1. IInv => SessionOrder
  BY DEF IInv, LogConsistent, SlotConsistent, Consistent, Ordered, SessionOrder
<1> QED BY <1>1, Invariance, PTL

\* In particular a process accepts no datagram twice: only a counter that has
\* come round to the one accepted before lets a repeated datagram in.
THEOREM NothingAcceptedTwice ==
    ASSUME NoWrap, HistoryHolds
    PROVE  Spec => []AcceptedOnce
<1>1. IInv => AcceptedOnce
  <2> SUFFICES ASSUME IInv, NEW l \in Links, NEW i \in DOMAIN log[l], NEW j \in DOMAIN log[l],
                      log[l][i] = log[l][j], i # j
               PROVE  FALSE
    BY DEF AcceptedOnce
  <2>1. log[l] \in Seq(net) /\ net \subseteq Packets
    BY DEF IInv, TypeOK
  <2>2. i \in Nat /\ j \in Nat /\ log[l][i].counter \in Nat
    BY <2>1, CounterAssumption DEF Packets, Counters
  <2>3. SessionOrder
    BY DEF IInv, LogConsistent, SlotConsistent, Consistent, Ordered, SessionOrder
  <2>4. i < j \/ j < i
    BY <2>2
  <2> QED BY <2>2, <2>3, <2>4 DEF SessionOrder
<1> QED BY <1>1, Invariance, PTL

\* A session that was replaced never refreshes the slot again.
THEOREM RetiredStaysRetired ==
    ASSUME NoWrap, HistoryHolds
    PROVE  Spec => []SessionContiguous
<1>1. IInv => SessionContiguous
  BY DEF IInv, LogConsistent, SlotConsistent, Consistent, Contiguous,
         SessionContiguous
<1> QED BY <1>1, Invariance, PTL

\* The first session-bound packet after a replacement continues the counter
\* of the handshake before it.
THEOREM BaselineAfterReset ==
    ASSUME NoWrap, HistoryHolds
    PROVE  Spec => []PostResetBaseline
<1>1. IInv => PostResetBaseline
  BY DEF IInv, LogConsistent, SlotConsistent, Consistent, Baseline, FirstBound,
         PostResetBaseline
<1> QED BY <1>1, Invariance, PTL
=============================================================================
