--------------------------- MODULE TxRequestProofs ---------------------------
(***************************************************************************)
(* For any peers, hashes, priorities and delays: the invariants of         *)
(* TxRequest, and that it implements TxRequestRules.                       *)
(*                                                                         *)
(* Every operation works on the announcements of one hash at a time, so    *)
(* the proof is about such columns: ColumnStep says what an operation may  *)
(* make of one.  Each operation of the tracker gets a lemma, each action   *)
(* is then a ColumnStep of every hash, and the theorems follow.            *)
(***************************************************************************)
EXTENDS TxRequest, FiniteSetTheorems, TLAPS

Columns == [Peers -> Announcements]

Abs(c) == [p \in Peers |-> StatusOf(c[p])]

\* What an operation may make of the column c of h: d is sane, the rules
\* allow the change, only peers in Q have a new announcement, and only those
\* in R a new request.
ColumnStep(h, c, d, Q, R) ==
    /\ d \in Columns
    /\ Sane(h, d)
    /\ Rules!HashStep(Abs(c), Abs(d))
    /\ \A q \in Peers : d[q].state # "NONE" => c[q].state # "NONE" \/ q \in Q
    /\ \A q \in Peers : d[q].state = "REQUESTED" => c[q].state = "REQUESTED" \/ q \in R

-----------------------------------------------------------------------------
(* Announcements and priorities.                                           *)

\* What an announcement's state says about its status in the rules.
LEMMA StatusFacts ==
    ASSUME NEW a \in Announcements
    PROVE  /\ StatusOf(a) \in Rules!Statuses
           /\ StatusOf(a) = "none" <=> a.state = "NONE"
           /\ StatusOf(a) = "candidate" <=> IsCandidate(a)
           /\ StatusOf(a) = "requested" <=> a.state = "REQUESTED"
           /\ StatusOf(a) = "failed" <=> a.state = "COMPLETED"
           /\ a.state = "NONE" <=> a = None
           /\ a.state \in {"NONE", "DELAYED", "READY", "BEST", "REQUESTED", "COMPLETED"}
           /\ a.wait \in Int
  BY DEF Announcements, None, States, StatusOf, IsCandidate, Rules!Statuses

\* The priority order is strict.
LEMMA BetterFacts ==
    ASSUME NEW h \in TxHashes, NEW p \in Peers, NEW q \in Peers
    PROVE  /\ ~Better(h, p, p)
           /\ Better(h, p, q) => ~Better(h, q, p)
           /\ \A r \in Peers : Better(h, p, q) /\ Better(h, q, r) => Better(h, p, r)
  <1>1. Rank[h][p] \in Nat /\ Rank[h][q] \in Nat /\ \A r \in Peers : Rank[h][r] \in Nat
    BY RankAssumption
  <1> QED  BY <1>1 DEF Better

\* Of two peers one is the better choice: PriorityComputer never ties.
LEMMA BetterTotal ==
    ASSUME NEW h \in TxHashes, NEW p \in Peers, NEW q \in Peers, p # q
    PROVE  Better(h, p, q) \/ Better(h, q, p)
  <1>1. {p, q} \in (SUBSET Peers) \ {{}}
    OBVIOUS
  <1>2. \E x \in {p, q} : \A r \in {p, q} \ {x} : Better(h, x, r)
    BY <1>1, RankAssumption
  <1> QED  BY <1>2

\* TopReady is the best of the READY announcements.
LEMMA TopReadyFacts ==
    ASSUME NEW h \in TxHashes, NEW c, InState(c, "READY") # {}
    PROVE  /\ TopReady(h, c) \in InState(c, "READY")
           /\ \A r \in InState(c, "READY") \ {TopReady(h, c)} : Better(h, TopReady(h, c), r)
  <1>1. InState(c, "READY") \in (SUBSET Peers) \ {{}}
    BY DEF InState
  <1>2. \E q \in InState(c, "READY") : \A r \in InState(c, "READY") \ {q} : Better(h, q, r)
    BY <1>1, RankAssumption
  <1> QED  BY <1>2 DEF TopReady

\* Changing one state keeps the type.
LEMMA SetStateFacts ==
    ASSUME NEW c \in Columns, NEW p \in Peers, NEW s \in States, c[p].wait \in Int
    PROVE  /\ SetState(c, p, s) \in Columns
           /\ SetState(c, p, s)[p].state = s
           /\ \A q \in Peers \ {p} : SetState(c, p, s)[q] = c[q]
  BY DEF SetState, Columns, Announcements

\* Equal statuses: the rules see nothing.
LEMMA SameStatus ==
    ASSUME NEW c \in Columns, NEW d \in Columns,
           \A q \in Peers : StatusOf(c[q]) = StatusOf(d[q])
    PROVE  Rules!HashStep(Abs(c), Abs(d))
  <1>1. Abs(c) = Abs(d)
    BY DEF Abs
  <1> QED  BY <1>1 DEF Rules!HashStep

\* Nothing happens to a column.
LEMMA SameColumn ==
    ASSUME NEW h \in TxHashes, NEW c \in Columns, Sane(h, c), NEW Q, NEW R
    PROVE  ColumnStep(h, c, c, Q, R)
  BY SameStatus DEF ColumnStep

-----------------------------------------------------------------------------
(* The operations of the tracker on one column.                            *)

\* PromoteCandidateReady keeps the column sane and changes no status.
LEMMA PromoteStep ==
    ASSUME NEW h \in TxHashes, NEW c \in Columns, Sane(h, c), NEW p \in Peers,
           c[p].state = "DELAYED"
    PROVE  ColumnStep(h, c, PromoteCandidateReady(h, c, p), {}, {})
  <1> DEFINE d == PromoteCandidateReady(h, c, p)
             top == \A q \in InState(c, "READY") : Better(h, p, q)
  <1>0. \A q \in Peers : c[q] \in Announcements /\ c[q].wait \in Int
    BY StatusFacts DEF Columns
  <1>1. CASE top /\ Selected(c) = {}
    <2>1. d = SetState(c, p, "BEST")
      BY <1>1 DEF PromoteCandidateReady
    <2>2. /\ d \in Columns /\ d[p].state = "BEST"
          /\ \A q \in Peers \ {p} : d[q] = c[q]
      BY <2>1, <1>0, SetStateFacts DEF States
    <2>3. Sane(h, d)
      BY <2>2, <1>1 DEF Sane, InState, Selected, IsSelected
    <2>4. \A q \in Peers : StatusOf(c[q]) = StatusOf(d[q])
      BY <2>2, <1>0 DEF StatusOf, IsCandidate
    <2> HIDE DEF d
    <2>5. ColumnStep(h, c, d, {}, {})
      BY <2>2, <2>3, <2>4, SameStatus DEF ColumnStep
    <2> QED  BY <2>5 DEF d
  <1>2. CASE top /\ Selected(c) # {} /\ \E q \in InState(c, "BEST") : Better(h, p, q)
    <2>1. d = [q \in Peers |->
                IF q = p THEN [c[q] EXCEPT !.state = "BEST"]
                ELSE IF c[q].state = "BEST" THEN [c[q] EXCEPT !.state = "READY"]
                ELSE c[q]]
      BY <1>2 DEF PromoteCandidateReady
    <2> HIDE DEF d
    <2>2. d \in Columns
      BY <2>1, <1>0 DEF Columns, Announcements, None, States
    <2>3. /\ d[p].state = "BEST"
          /\ \A q \in Peers \ {p} :
                d[q].state = IF c[q].state = "BEST" THEN "READY" ELSE c[q].state
      BY <2>1, <1>0 DEF Announcements, None
    <2>4. PICK b \in InState(c, "BEST") : Better(h, p, b)
      BY <1>2
    <2>5. \A q \in Peers : IsSelected(c[q]) => q = b
      BY <2>4 DEF Sane, Selected, InState, IsSelected
    <2>6. b \in Peers /\ c[b].state = "BEST" /\ b # p
      BY <2>4 DEF InState
    <2>7. \A q \in Peers \ {p} : d[q].state # "BEST" /\ d[q].state # "REQUESTED"
      BY <2>3, <2>5, <2>6 DEF IsSelected
    <2>8. \A q \in Peers \ {p} : d[q].state = "READY" => c[q].state = "READY" \/ q = b
      BY <2>3, <2>5, <2>6 DEF IsSelected
    <2>9. Sane(h, d)
      BY <2>3, <2>4, <2>7, <2>8, <1>2 DEF Sane, InState, Selected, IsSelected
    <2>10. \A q \in Peers : StatusOf(c[q]) = StatusOf(d[q])
      BY <2>3, <1>0 DEF StatusOf, IsCandidate
    <2>11. ColumnStep(h, c, d, {}, {})
      BY <2>2, <2>3, <2>7, <2>9, <2>10, SameStatus DEF ColumnStep
    <2> QED  BY <2>11 DEF d
  <1>3. CASE ~top \/ (Selected(c) # {} /\ ~\E q \in InState(c, "BEST") : Better(h, p, q))
    <2>1. d = SetState(c, p, "READY")
      BY <1>3 DEF PromoteCandidateReady
    <2>2. /\ d \in Columns /\ d[p].state = "READY"
          /\ \A q \in Peers \ {p} : d[q] = c[q]
      BY <2>1, <1>0, SetStateFacts DEF States
    <2> HIDE DEF d
    <2>3. Selected(c) # {}
      BY <1>3 DEF Sane
    <2>4. \A b \in InState(c, "BEST") : Better(h, b, p)
      <3>1. SUFFICES ASSUME NEW b \in Peers, c[b].state = "BEST"  PROVE Better(h, b, p)
        BY DEF InState
      <3>2. CASE top
        BY <3>1, <3>2, <1>3, BetterTotal DEF InState
      <3>3. CASE ~top
        <4>1. PICK q \in Peers : c[q].state = "READY" /\ ~Better(h, p, q)
          BY <3>3 DEF InState
        <4>2. Better(h, q, p)
          BY <4>1, BetterTotal
        <4>3. Better(h, b, q)
          BY <4>1, <3>1 DEF Sane, InState
        <4> QED  BY <4>2, <4>3, BetterFacts
      <3> QED  BY <3>2, <3>3
    <2>5. Sane(h, d)
      <3>1. Selected(d) = Selected(c)
        BY <2>2 DEF Selected, IsSelected
      <3>2. InState(d, "BEST") = InState(c, "BEST")
        BY <2>2 DEF InState
      <3>3. InState(d, "READY") = InState(c, "READY") \cup {p}
        BY <2>2 DEF InState
      <3> QED  BY <2>2, <2>3, <2>4, <3>1, <3>2, <3>3 DEF Sane
    <2>6. \A q \in Peers : StatusOf(c[q]) = StatusOf(d[q])
      BY <2>2, <1>0 DEF StatusOf, IsCandidate
    <2>7. ColumnStep(h, c, d, {}, {})
      BY <2>2, <2>5, <2>6, SameStatus DEF ColumnStep
    <2> QED  BY <2>7 DEF d
  <1> QED  BY <1>1, <1>2, <1>3

\* ChangeAndReselect: the states it leaves, and that they are sane.
LEMMA ReselectSane ==
    ASSUME NEW h \in TxHashes, NEW c \in Columns, Sane(h, c), NEW p \in Peers,
           c[p].state # "NONE", NEW s \in {"DELAYED", "COMPLETED"},
           s = "COMPLETED" => ~IsOnlyNonCompleted(c, p)
    PROVE  /\ ChangeAndReselect(h, c, p, s) \in Columns
           /\ Sane(h, ChangeAndReselect(h, c, p, s))
           /\ ChangeAndReselect(h, c, p, s)[p].state = s
           /\ \A q \in Peers \ {p} :
                 \/ ChangeAndReselect(h, c, p, s)[q] = c[q]
                 \/ /\ ChangeAndReselect(h, c, p, s)[q].state = "BEST"
                    /\ c[q].state = "READY"
  <1> DEFINE d == ChangeAndReselect(h, c, p, s)
  <1>0. /\ \A q \in Peers : c[q] \in Announcements /\ c[q].wait \in Int
        /\ s \in States
    BY StatusFacts DEF Columns, States
  <1>1. ASSUME NEW e \in Columns, NEW f \in Columns,
               f[p].state = s, \A q \in Peers \ {p} : f[q] = e[q],
               \A q \in Peers \ {p} : e[q] = c[q] \/ (e[q].state = "BEST" /\ c[q].state = "READY")
        PROVE  InState(f, "COMPLETED") # {} =>
                   \E q \in Peers : f[q].state \notin {"NONE", "COMPLETED"}
    BY <1>1 DEF IsOnlyNonCompleted, InState
  <1>2. CASE IsSelected(c[p]) /\ InState(c, "READY") # {}
    <2> DEFINE t == TopReady(h, c)
               e == SetState(c, t, "BEST")
    <2>1. /\ t \in Peers /\ c[t].state = "READY"
          /\ \A r \in InState(c, "READY") \ {t} : Better(h, t, r)
      BY <1>2, TopReadyFacts DEF InState
    <2>2. t # p
      BY <1>2, <2>1 DEF IsSelected
    <2> HIDE DEF t
    <2>3. e \in Columns /\ e[t].state = "BEST" /\ \A q \in Peers \ {t} : e[q] = c[q]
      BY <2>1, <1>0, SetStateFacts DEF States
    <2>4. d = SetState(e, p, s)
      BY <1>2 DEF ChangeAndReselect, t
    <2> HIDE DEF e, d
    <2>5. e[p].wait \in Int
      BY <2>2, <2>3, <1>0
    <2>6. d \in Columns /\ d[p].state = s /\ \A q \in Peers \ {p} : d[q] = e[q]
      BY <2>3, <2>4, <2>5, <1>0, SetStateFacts
    <2>7. \A q \in Peers \ {p} : IsSelected(d[q]) => q = t
      BY <2>1, <2>3, <2>6, <1>2 DEF Sane, Selected, IsSelected
    <2>8. Sane(h, d)
      <3>1. \A x, y \in Selected(d) : x = y
        BY <2>6, <2>7 DEF Selected, IsSelected
      <3>2. t \in Selected(d)
        BY <2>1, <2>2, <2>3, <2>6 DEF Selected, IsSelected
      <3>3. \A x \in InState(d, "BEST"), y \in InState(d, "READY") : Better(h, x, y)
        BY <2>1, <2>3, <2>6, <2>7 DEF InState, IsSelected
      <3>4. InState(d, "COMPLETED") # {} => \E q \in Peers : d[q].state \notin {"NONE", "COMPLETED"}
        BY <1>1, <2>1, <2>2, <2>3, <2>6
      <3> QED  BY <3>1, <3>2, <3>3, <3>4 DEF Sane
    <2> QED  BY <2>1, <2>2, <2>3, <2>6, <2>8 DEF d
  <1>3. CASE ~(IsSelected(c[p]) /\ InState(c, "READY") # {})
    <2>1. d = SetState(c, p, s)
      BY <1>3 DEF ChangeAndReselect
    <2> HIDE DEF d
    <2>2. d \in Columns /\ d[p].state = s /\ \A q \in Peers \ {p} : d[q] = c[q]
      BY <2>1, <1>0, SetStateFacts
    <2>3. \A x, y \in Selected(d) : x = y
      BY <2>2 DEF Sane, Selected, IsSelected
    <2>4. InState(d, "READY") # {} => Selected(d) # {}
      BY <2>2, <1>3 DEF Sane, Selected, IsSelected, InState
    <2>5. \A x \in InState(d, "BEST"), y \in InState(d, "READY") : Better(h, x, y)
      BY <2>2 DEF Sane, InState
    <2>6. InState(d, "COMPLETED") # {} => \E q \in Peers : d[q].state \notin {"NONE", "COMPLETED"}
      BY <1>1, <2>2
    <2>7. Sane(h, d)
      BY <2>3, <2>4, <2>5, <2>6 DEF Sane
    <2> QED  BY <2>2, <2>7 DEF d
  <1> QED  BY <1>2, <1>3

\* SetTimePoint, second loop.
LEMMA DelayStep ==
    ASSUME NEW h \in TxHashes, NEW c \in Columns, Sane(h, c), NEW p \in Peers,
           IsSelectable(c[p])
    PROVE  ColumnStep(h, c, ChangeAndReselect(h, c, p, "DELAYED"), {}, {})
  <1> DEFINE d == ChangeAndReselect(h, c, p, "DELAYED")
  <1>1. /\ d \in Columns /\ Sane(h, d) /\ d[p].state = "DELAYED"
        /\ \A q \in Peers \ {p} : d[q] = c[q] \/ (d[q].state = "BEST" /\ c[q].state = "READY")
    BY ReselectSane DEF IsSelectable
  <1> HIDE DEF d
  <1>2. \A q \in Peers : StatusOf(c[q]) = StatusOf(d[q])
    BY <1>1 DEF StatusOf, IsCandidate, IsSelectable
  <1>3. ColumnStep(h, c, d, {}, {})
    BY <1>1, <1>2, SameStatus DEF ColumnStep, IsSelectable
  <1> QED  BY <1>3 DEF d

\* The column of a forgotten hash.
LEMMA ForgetStep ==
    ASSUME NEW h \in TxHashes, NEW c \in Columns, NEW Q, NEW R
    PROVE  ColumnStep(h, c, NoColumn, Q, R)
  <1>1. NoColumn \in Columns
    BY DEF NoColumn, Columns, Announcements
  <1>2. \A q \in Peers : NoColumn[q].state = "NONE"
    BY DEF NoColumn, None
  <1>3. Sane(h, NoColumn)
    BY <1>2 DEF Sane, InState, Selected, IsSelected
  <1>4. Abs(NoColumn) = Rules!NothingKnown
    BY <1>2 DEF Abs, StatusOf, Rules!NothingKnown
  <1>5. Rules!HashStep(Abs(c), Abs(NoColumn))
    BY <1>4 DEF Rules!HashStep, Rules!Forgotten
  <1> QED  BY <1>1, <1>2, <1>3, <1>5 DEF ColumnStep

\* MakeCompleted is a failure, or forgets the hash.
LEMMA CompleteStep ==
    ASSUME NEW h \in TxHashes, NEW c \in Columns, Sane(h, c), NEW p \in Peers,
           c[p].state # "NONE"
    PROVE  ColumnStep(h, c, MakeCompleted(h, c, p), {}, {})
  <1>1. CASE c[p].state = "COMPLETED"
    BY <1>1, SameColumn DEF MakeCompleted
  <1>2. CASE c[p].state # "COMPLETED" /\ IsOnlyNonCompleted(c, p)
    BY <1>2, ForgetStep DEF MakeCompleted
  <1>3. CASE c[p].state # "COMPLETED" /\ ~IsOnlyNonCompleted(c, p)
    <2> DEFINE d == ChangeAndReselect(h, c, p, "COMPLETED")
    <2>1. /\ d \in Columns /\ Sane(h, d) /\ d[p].state = "COMPLETED"
          /\ \A q \in Peers \ {p} : d[q] = c[q] \/ (d[q].state = "BEST" /\ c[q].state = "READY")
      BY <1>3, ReselectSane
    <2> HIDE DEF d
    <2>2. /\ StatusOf(d[p]) = "failed"
          /\ \A q \in Peers \ {p} : StatusOf(d[q]) = StatusOf(c[q])
      BY <2>1 DEF StatusOf, IsCandidate
    <2>3. Rules!Becomes(Abs(c), Abs(d), {p}, "failed")
      BY <2>2 DEF Rules!Becomes, Abs
    <2>4. p \in Rules!Live(Abs(c))
      BY <1>3 DEF Rules!Live, Abs, StatusOf, Columns, Announcements, States, None, IsCandidate
    <2>5. Rules!Live(Abs(c)) # {p}
      <3>1. PICK q \in Peers \ {p} : c[q].state \notin {"NONE", "COMPLETED"}
        BY <1>3 DEF IsOnlyNonCompleted
      <3>2. c[q] \in Announcements
        BY DEF Columns
      <3>3. Abs(c)[q] \in {"candidate", "requested"}
        BY <3>1, <3>2, StatusFacts DEF Abs, Rules!Statuses
      <3> QED  BY <3>3 DEF Rules!Live
    <2>6. Rules!HashStep(Abs(c), Abs(d))
      BY <2>3, <2>4, <2>5 DEF Rules!HashStep, Rules!Failed
    <2>7. ColumnStep(h, c, d, {}, {})
      BY <2>1, <2>6, <1>3 DEF ColumnStep
    <2> QED  BY <2>7, <1>3 DEF d, MakeCompleted
  <1> QED  BY <1>1, <1>2, <1>3

\* ReceivedResponse, for a peer that may have no announcement.
LEMMA ResponseStep ==
    ASSUME NEW h \in TxHashes, NEW c \in Columns, Sane(h, c), NEW p \in Peers
    PROVE  ColumnStep(h, c, ReceivedResponse(h, c, p), {}, {})
  BY SameColumn, CompleteStep DEF ReceivedResponse

\* ReceivedInv from every peer in S: the ones without an announcement get one.
LEMMA AnnounceStep ==
    ASSUME NEW h \in TxHashes, NEW c \in Columns, Sane(h, c), NEW S \in SUBSET Peers,
           NEW d \in Columns,
           \A q \in Peers :
               d[q] = c[q] \/ (q \in S /\ c[q].state = "NONE" /\ d[q].state = "DELAYED")
    PROVE  ColumnStep(h, c, d, S, {})
  <1>1. Sane(h, d)
    <2>1. Selected(d) = Selected(c)
      BY DEF Selected, IsSelected
    <2>2. InState(d, "READY") = InState(c, "READY") /\ InState(d, "BEST") = InState(c, "BEST")
      BY DEF InState
    <2>3. InState(d, "COMPLETED") = InState(c, "COMPLETED")
      BY DEF InState
    <2>4. (\E q \in Peers : c[q].state \notin {"NONE", "COMPLETED"})
          => \E q \in Peers : d[q].state \notin {"NONE", "COMPLETED"}
      OBVIOUS
    <2> QED  BY <2>1, <2>2, <2>3, <2>4 DEF Sane
  <1>2. Rules!Announced(Abs(c), Abs(d))
    <2> DEFINE N == {q \in Peers : d[q] # c[q]}
    <2>1. N \in SUBSET {q \in Peers : Abs(c)[q] = "none"}
      BY DEF Abs, StatusOf
    <2>2. Abs(d) = [q \in Peers |-> IF q \in N THEN "candidate" ELSE Abs(c)[q]]
      BY DEF Abs, StatusOf, IsCandidate
    <2> QED  BY <2>1, <2>2 DEF Rules!Announced, Rules!Becomes
  <1> QED  BY <1>1, <1>2 DEF ColumnStep, Rules!HashStep

\* RequestedTx, as GetRequestsToSend calls it.
LEMMA RequestStep ==
    ASSUME NEW h \in TxHashes, NEW c \in Columns, Sane(h, c), NEW p \in Peers,
           c[p].state = "BEST"
    PROVE  /\ ColumnStep(h, c, RequestedTx(c, p), {}, {p})
           /\ \A q \in Peers \ {p} : RequestedTx(c, p)[q] = c[q]
           /\ RequestedTx(c, p)[p].state = "REQUESTED"
  <1> DEFINE d == RequestedTx(c, p)
  <1>1. d = [q \in Peers |->
               IF q = p THEN [state |-> "REQUESTED", wait |-> GetdataInterval] ELSE c[q]]
    BY DEF RequestedTx, IsCandidate
  <1> HIDE DEF d
  <1>2. d[p].state = "REQUESTED" /\ \A q \in Peers \ {p} : d[q] = c[q]
    BY <1>1
  <1>3. d \in Columns
    BY <1>1, DelayAssumption DEF Columns, Announcements, States
  <1>4. Selected(d) = Selected(c) /\ Selected(c) = {p}
    BY <1>2 DEF Selected, IsSelected, Sane
  <1>5. InState(d, "READY") = InState(c, "READY") /\ InState(d, "BEST") = {}
    BY <1>2, <1>4 DEF InState, Selected, IsSelected
  <1>6. Sane(h, d)
    BY <1>2, <1>4, <1>5 DEF Sane
  <1>7. Rules!Requested(Abs(c), Abs(d))
    <2>1. Abs(c)[p] = "candidate"
      BY DEF Abs, StatusOf, IsCandidate
    <2>2. \A q \in Peers : Abs(c)[q] # "requested"
      BY <1>4, StatusFacts DEF Abs, Columns, Selected, IsSelected
    <2>3. Abs(d) = [q \in Peers |-> IF q \in {p} THEN "requested" ELSE Abs(c)[q]]
      BY <1>2 DEF Abs, StatusOf, IsCandidate
    <2> QED  BY <2>1, <2>2, <2>3 DEF Rules!Requested, Rules!Becomes
  <1>8. ColumnStep(h, c, d, {}, {p})
    BY <1>2, <1>3, <1>6, <1>7 DEF ColumnStep, Rules!HashStep
  <1> QED  BY <1>2, <1>8 DEF d

\* A peer is gone from a column that MakeCompleted has been applied to.
LEMMA DropStep ==
    ASSUME NEW h \in TxHashes, NEW c \in Columns, Sane(h, c), NEW p \in Peers
    PROVE  /\ ColumnStep(h, c, DropPeer(h, c, p), {}, {})
           /\ DropPeer(h, c, p)[p].state = "NONE"
  <1> DEFINE m == MakeCompleted(h, c, p)
             d == DropPeer(h, c, p)
  <1>1. CASE c[p].state = "NONE"
    BY <1>1, SameColumn DEF DropPeer
  <1>2. CASE c[p].state # "NONE" /\ c[p].state # "COMPLETED" /\ IsOnlyNonCompleted(c, p)
    <2>1. d = NoColumn
      BY <1>2 DEF DropPeer, MakeCompleted, NoColumn, None
    <2> QED  BY <2>1, ForgetStep DEF NoColumn, None
  <1>3. CASE c[p].state # "NONE" /\ ~(c[p].state # "COMPLETED" /\ IsOnlyNonCompleted(c, p))
    <2>1. /\ m \in Columns /\ Sane(h, m) /\ m[p].state = "COMPLETED"
          /\ \A q \in Peers \ {p} : m[q] = c[q] \/ (m[q].state = "BEST" /\ c[q].state = "READY")
      BY <1>3, ReselectSane DEF MakeCompleted
    <2>2. d = [m EXCEPT ![p] = None]
      BY <1>3 DEF DropPeer
    <2>3. PICK l \in Peers \ {p} : m[l].state \notin {"NONE", "COMPLETED"}
      BY <2>1 DEF Sane, InState
    <2> HIDE DEF m, d
    <2>4. d \in Columns /\ d[p] = None /\ \A q \in Peers \ {p} : d[q] = m[q]
      BY <2>1, <2>2 DEF Columns, Announcements
    <2>5. d[p].state = "NONE"
      BY <2>4 DEF None
    <2>6. Sane(h, d)
      <3>1. Selected(d) = Selected(m)
        BY <2>1, <2>4, <2>5 DEF Selected, IsSelected
      <3>2. InState(d, "READY") = InState(m, "READY") /\ InState(d, "BEST") = InState(m, "BEST")
        BY <2>1, <2>4, <2>5 DEF InState
      <3>3. d[l].state \notin {"NONE", "COMPLETED"}
        BY <2>3, <2>4
      <3> QED  BY <2>1, <3>1, <3>2, <3>3 DEF Sane
    <2>7. Rules!PeerGone(Abs(c), Abs(d))
      <3>1. StatusOf(d[p]) = "none" /\ \A q \in Peers \ {p} : StatusOf(d[q]) = StatusOf(c[q])
        BY <2>1, <2>4, <2>5 DEF StatusOf, IsCandidate
      <3>2. Rules!Becomes(Abs(c), Abs(d), {p}, "none")
        BY <3>1 DEF Rules!Becomes, Abs
      <3>3. c[l].state \notin {"NONE", "COMPLETED"} /\ c[l] \in Announcements
        BY <2>1, <2>3 DEF Columns
      <3>4. l \in Rules!Live(Abs(c))
        BY <3>3, StatusFacts DEF Rules!Live, Abs, Rules!Statuses
      <3> QED  BY <3>2, <3>4, <2>3 DEF Rules!PeerGone
    <2>8. ColumnStep(h, c, d, {}, {})
      BY <2>1, <2>4, <2>5, <2>6, <2>7, <1>3 DEF ColumnStep, Rules!HashStep
    <2> QED  BY <2>5, <2>8 DEF d
  <1> QED  BY <1>1, <1>2, <1>3

\* The clock changes no state.
LEMMA ClockStep ==
    ASSUME NEW h \in TxHashes, NEW c \in Columns, Sane(h, c), NEW d \in Columns,
           \A q \in Peers : d[q].state = c[q].state
    PROVE  ColumnStep(h, c, d, {}, {})
  <1>1. Sane(h, d)
    BY DEF Sane, Selected, IsSelected, InState
  <1>2. \A q \in Peers : StatusOf(c[q]) = StatusOf(d[q])
    BY DEF StatusOf, IsCandidate
  <1> QED  BY <1>1, <1>2, SameStatus DEF ColumnStep

\* ReceivedInv touches the announcement of one peer.
LEMMA ReceivedInvFacts ==
    ASSUME NEW c \in Columns, NEW p \in Peers, NEW delay \in Int
    PROVE  /\ ReceivedInv(c, p, delay) \in Columns
           /\ \A q \in Peers :
                 \/ ReceivedInv(c, p, delay)[q] = c[q]
                 \/ /\ q = p /\ c[q].state = "NONE"
                    /\ ReceivedInv(c, p, delay)[q].state = "DELAYED"
  BY DEF ReceivedInv, Columns, Announcements, States

\* A delay is a number.
LEMMA DelayFacts ==
    ASSUME NEW a, NEW p, NEW by_txid
    PROVE  Delay(a, p, by_txid) \in Int
  BY DelayAssumption DEF Delay

-----------------------------------------------------------------------------
(* The actions: a ColumnStep of every hash.                                *)

\* What is requested in a step of GetRequestsToSend, per hash.
AskedNow ==
    [h \in TxHashes |->
        {p \in Peers : call.op = "request" /\ h \in call.todo /\ p = call.peer}]

AllSteps(a, b, Q, R) ==
    /\ b \in [TxHashes -> Columns]
    /\ \A h \in TxHashes : ColumnStep(h, a[h], b[h], Q, R[h])

\* Between GetRequestable and the last request, the times agree with the
\* states: SetTimePoint has left nothing to promote or to take back.
Settled ==
    call.op = "request" =>
        \A h \in TxHashes, p \in Peers :
            /\ ~Early(h, p)
            /\ ann[h][p].state = "DELAYED" => ann[h][p].wait > 0

IInv ==
    /\ TypeOK
    /\ SanityCheck
    /\ OnlyBestRequested
    /\ NoStrays
    /\ LimitKept
    /\ Settled

\* The peers that may have a new announcement: connected, and within the limit
\* with all that is new.
Welcome ==
    {q \in peers : q \in RelayPeers \/ Count(ann', q) <= MaxAnnouncements}

\* Who has announced at most the hashes in S on top of what is in a, has at
\* most that many announcements more.
LEMMA CountAdded ==
    ASSUME NEW a, NEW b, NEW q, NEW S \in SUBSET TxHashes,
           \A h \in TxHashes \ S : b[h][q].state # "NONE" => a[h][q].state # "NONE"
    PROVE  /\ Count(a, q) \in Nat /\ Count(b, q) \in Nat /\ Cardinality(S) \in Nat
           /\ Count(b, q) <= Count(a, q) + Cardinality(S)
  <1> DEFINE A == {h \in TxHashes : a[h][q].state # "NONE"}
             B == {h \in TxHashes : b[h][q].state # "NONE"}
  <1>1. Count(a, q) = Cardinality(A) /\ Count(b, q) = Cardinality(B)
    BY DEF Count
  <1>2. A \subseteq TxHashes /\ B \subseteq TxHashes /\ B \subseteq A \cup S
    OBVIOUS
  <1> HIDE DEF A, B
  <1>3. IsFiniteSet(A) /\ IsFiniteSet(B) /\ IsFiniteSet(S)
    BY <1>2, HashAssumption, FS_Subset
  <1>4. Cardinality(A) \in Nat /\ Cardinality(B) \in Nat /\ Cardinality(S) \in Nat
    BY <1>3, FS_CardinalityType
  <1>5. /\ IsFiniteSet(A \cup S) /\ Cardinality(A \cap S) \in Nat
        /\ Cardinality(A \cup S) = Cardinality(A) + Cardinality(S) - Cardinality(A \cap S)
    BY <1>3, FS_Union, FS_Intersection, FS_CardinalityType
  <1>6. Cardinality(B) <= Cardinality(A \cup S)
    BY <1>2, <1>5, FS_Subset
  <1> QED  BY <1>1, <1>4, <1>5, <1>6

\* More peers allowed, fewer demands.
LEMMA Weaken ==
    ASSUME NEW h, NEW c, NEW d, NEW Q, NEW R, NEW Q2, NEW R2,
           ColumnStep(h, c, d, Q, R), Q \subseteq Q2, R \subseteq R2
    PROVE  ColumnStep(h, c, d, Q2, R2)
  BY DEF ColumnStep

\* An operation on the column of one hash.
LEMMA OneColumn ==
    ASSUME NEW a \in [TxHashes -> Columns], \A g \in TxHashes : Sane(g, a[g]),
           NEW h \in TxHashes, NEW e, NEW b, b = [a EXCEPT ![h] = e],
           NEW Q, NEW R, ColumnStep(h, a[h], e, Q, R[h])
    PROVE  AllSteps(a, b, Q, R)
  <1>1. e \in Columns
    BY DEF ColumnStep
  <1>2. b \in [TxHashes -> Columns]
    BY <1>1
  <1>3. ASSUME NEW g \in TxHashes PROVE ColumnStep(g, a[g], b[g], Q, R[g])
    <2>1. CASE g = h
      BY <2>1
    <2>2. CASE g # h
      <3>1. b[g] = a[g]
        BY <2>2
      <3> QED  BY <3>1, SameColumn
    <2> QED  BY <2>1, <2>2
  <1> QED  BY <1>2, <1>3 DEF AllSteps

\* ReceivedTx, whatever validation says.
LEMMA ReceivedTxSteps ==
    ASSUME IInv, NEW p \in Peers, NEW x \in Transactions, ReceivedTx(p, x)
    PROVE  AllSteps(ann, ann', Welcome, AskedNow)
  <1>0. /\ ann \in [TxHashes -> Columns] /\ \A g \in TxHashes : Sane(g, ann[g])
        /\ peers \subseteq Peers
    BY DEF IInv, TypeOK, SanityCheck, Columns
  <1> DEFINE a == Responded(p, x)
  <1>1. /\ DOMAIN a = TxHashes
        /\ \A h \in TxHashes :
             /\ a[h] = IF h \in Hashes(x) THEN ReceivedResponse(h, ann[h], p) ELSE ann[h]
             /\ ColumnStep(h, ann[h], a[h], {}, {})
    BY <1>0, ResponseStep, SameColumn DEF Responded
  <1>2. \A h \in TxHashes : ann[h] \in Columns /\ a[h] \in Columns
    BY <1>0, <1>1 DEF ColumnStep
  <1> HIDE DEF a
  <1>3. ASSUME NEW S, ann' = Forget(a, S)  PROVE AllSteps(ann, ann', Welcome, AskedNow)
    <2>1. \A h \in TxHashes : ann'[h] = IF h \in S THEN NoColumn ELSE a[h]
      BY <1>3 DEF Forget
    <2>2. \A h \in TxHashes : ColumnStep(h, ann[h], ann'[h], {}, {})
      BY <2>1, <1>1, <1>2, ForgetStep
    <2>3. ann' \in [TxHashes -> Columns]
      BY <2>2, <1>3 DEF Forget, ColumnStep
    <2>4. \A h \in TxHashes : ColumnStep(h, ann[h], ann'[h], Welcome, AskedNow[h])
      BY <2>2, Weaken
    <2> QED  BY <2>3, <2>4 DEF AllSteps
  <1>4. ASSUME NEW parents \in Parents(x), OrphanKept(a, p, x, parents)
        PROVE  AllSteps(ann, ann', Welcome, AskedNow)
    <2> DEFINE asked == {q \in {p} \cup UNION {GetCandidatePeers(a, h) : h \in Hashes(x)} :
                            MayResolve(a, q, parents)}
    <2>1. /\ asked \in SUBSET Peers /\ asked \subseteq peers /\ parents \in SUBSET TxHashes
          /\ \A q \in asked : q \in RelayPeers
                               \/ Count(a, q) + Cardinality(parents) <= MaxAnnouncements
      BY <1>0 DEF MayResolve, Parents
    <2>2. ann' = Forget(ParentsAnnounced(a, asked, parents), Hashes(x))
      BY <1>4 DEF OrphanKept
    <2> HIDE DEF asked
    <2>3. \A h \in TxHashes :
            ann'[h] = IF h \in Hashes(x) THEN NoColumn
                      ELSE IF h \in parents
                      THEN [q \in Peers |-> IF q \in asked
                              THEN ReceivedInv(a[h], q, Delay(a, q, TRUE))[q] ELSE a[h][q]]
                      ELSE a[h]
      BY <2>2 DEF Forget, ParentsAnnounced
    <2>4. asked \subseteq Welcome
      <3> SUFFICES ASSUME NEW q \in asked, q \notin RelayPeers
                   PROVE  Count(ann', q) <= MaxAnnouncements
        BY <2>1 DEF Welcome
      <3>1. \A h \in TxHashes \ parents :
               ann'[h][q].state # "NONE" => a[h][q].state # "NONE"
        <4> TAKE h \in TxHashes \ parents
        <4>1. ann'[h] = NoColumn \/ ann'[h] = a[h]
          BY <2>3
        <4>2. NoColumn[q].state = "NONE"
          BY <2>1 DEF NoColumn, None
        <4> QED  BY <4>1, <4>2
      <3> QED  BY <2>1, <3>1, CountAdded, LimitAssumption
    <2>5. ASSUME NEW h \in TxHashes PROVE ColumnStep(h, ann[h], ann'[h], Welcome, AskedNow[h])
      <3>1. CASE h \in Hashes(x)
        BY <3>1, <2>3, <1>2, ForgetStep
      <3>2. CASE h \notin Hashes(x) /\ h \in parents
        <4>1. a[h] = ann[h]
          BY <3>2, <1>1
        <4> DEFINE r == [q \in Peers |-> ReceivedInv(ann[h], q, Delay(a, q, TRUE))[q]]
        <4>2. ann'[h] = [q \in Peers |-> IF q \in asked THEN r[q] ELSE ann[h][q]]
          BY <3>2, <2>3, <4>1
        <4>3. \A q \in Peers :
                 /\ r[q] \in Announcements
                 /\ r[q] = ann[h][q] \/ (ann[h][q].state = "NONE" /\ r[q].state = "DELAYED")
          <5>1. SUFFICES ASSUME NEW q \in Peers, NEW D, D = Delay(a, q, TRUE)
                PROVE  /\ ReceivedInv(ann[h], q, D)[q] \in Announcements
                       /\ \/ ReceivedInv(ann[h], q, D)[q] = ann[h][q]
                          \/ /\ ann[h][q].state = "NONE"
                             /\ ReceivedInv(ann[h], q, D)[q].state = "DELAYED"
            OBVIOUS
          <5>2. D \in Int
            BY <5>1, DelayAssumption DEF Delay
          <5> QED  BY <5>2, <1>2, ReceivedInvFacts DEF Columns
        <4> HIDE DEF r
        <4>4. ann'[h] \in Columns
          BY <4>2, <4>3, <1>2 DEF Columns
        <4>5. \A q \in Peers :
                 \/ ann'[h][q] = ann[h][q]
                 \/ q \in asked /\ ann[h][q].state = "NONE" /\ ann'[h][q].state = "DELAYED"
          BY <4>2, <4>3
        <4>6. ColumnStep(h, ann[h], ann'[h], asked, {})
          BY <4>4, <4>5, <2>1, <1>0, <1>2, AnnounceStep
        <4> QED  BY <4>6, <2>4, Weaken
      <3>3. CASE h \notin Hashes(x) /\ h \notin parents
        <4>1. ann'[h] = a[h]
          BY <3>3, <2>3
        <4> QED  BY <4>1, <1>1, Weaken
      <3> QED  BY <3>1, <3>2, <3>3
    <2>6. ann' \in [TxHashes -> Columns]
      BY <2>2, <2>5 DEF Forget, ColumnStep
    <2> QED  BY <2>5, <2>6 DEF AllSteps
  <1> QED  BY <1>3, <1>4 DEF ReceivedTx, a

\* Every step of the tracker is a ColumnStep of every hash.
LEMMA NextSteps ==
    ASSUME IInv, Next
    PROVE  AllSteps(ann, ann', Welcome, AskedNow)
  <1>0. /\ ann \in [TxHashes -> Columns] /\ \A g \in TxHashes : Sane(g, ann[g])
        /\ peers \subseteq Peers
        /\ \A g \in TxHashes : ann[g] \in Columns /\ \A q \in Peers : ann[g][q] \in Announcements
    BY DEF IInv, TypeOK, SanityCheck, Columns
  <1>1. ASSUME UNCHANGED ann  PROVE AllSteps(ann, ann', Welcome, AskedNow)
    BY <1>0, <1>1, SameColumn DEF AllSteps
  <1>2. ASSUME NEW h \in TxHashes, NEW e, ann' = [ann EXCEPT ![h] = e],
               ColumnStep(h, ann[h], e, {}, {})
        PROVE  AllSteps(ann, ann', Welcome, AskedNow)
    <2>1. ColumnStep(h, ann[h], e, Welcome, AskedNow[h])
      BY <1>2, Weaken
    <2> QED  BY <2>1, <1>0, <1>2, OneColumn
  <1>3. ASSUME ann' \in [TxHashes -> Columns],
               \A h \in TxHashes : ColumnStep(h, ann[h], ann'[h], {}, {})
        PROVE  AllSteps(ann, ann', Welcome, AskedNow)
    <2>1. \A h \in TxHashes : ColumnStep(h, ann[h], ann'[h], Welcome, AskedNow[h])
      BY <1>3, Weaken
    <2> QED  BY <2>1, <1>3 DEF AllSteps
  <1>4. CASE \E h \in TxHashes, p \in Peers : SetTimePointForward(h, p)
    <2>1. PICK h \in TxHashes, p \in Peers : SetTimePointForward(h, p)
      BY <1>4
    <2> DEFINE e == IF ann[h][p].state = "DELAYED" THEN PromoteCandidateReady(h, ann[h], p)
                    ELSE MakeCompleted(h, ann[h], p)
    <2>2. ann[h][p].state # "NONE" /\ ann' = [ann EXCEPT ![h] = e]
      BY <2>1, <1>0 DEF SetTimePointForward, Due, IsWaiting
    <2>3. ColumnStep(h, ann[h], e, {}, {})
      BY <2>2, <1>0, PromoteStep, CompleteStep
    <2> QED  BY <2>2, <2>3, <1>2
  <1>5. CASE \E h \in TxHashes, p \in Peers : SetTimePointBackward(h, p)
    <2>1. PICK h \in TxHashes, p \in Peers : SetTimePointBackward(h, p)
      BY <1>5
    <2> DEFINE e == ChangeAndReselect(h, ann[h], p, "DELAYED")
    <2>2. IsSelectable(ann[h][p]) /\ ann' = [ann EXCEPT ![h] = e]
      BY <2>1, <1>0 DEF SetTimePointBackward, Early
    <2>3. ColumnStep(h, ann[h], e, {}, {})
      BY <2>2, <1>0, DelayStep
    <2> QED  BY <2>2, <2>3, <1>2
  <1>6. CASE GetRequestable \/ RequestsReturned \/ \E p \in Peers : GetRequestsToSend(p)
    BY <1>1, <1>6 DEF GetRequestable, RequestsReturned, GetRequestsToSend
  <1>7. CASE \E h \in TxHashes : RequestOrForget(h)
    <2>1. PICK h \in TxHashes : RequestOrForget(h)
      BY <1>7
    <2>2. /\ call.op = "request" /\ h \in call.todo /\ ann[h][call.peer].state = "BEST"
          /\ call \in Calls
      BY <2>1 DEF RequestOrForget, IInv, OnlyBestRequested, TypeOK
    <2>3. call.peer \in Peers
      BY <2>2 DEF Calls, Idle
    <2>4. CASE ann' = [ann EXCEPT ![h] = RequestedTx(ann[h], call.peer)]
      <3>1. ColumnStep(h, ann[h], RequestedTx(ann[h], call.peer), {}, {call.peer})
        BY <1>0, <2>2, <2>3, RequestStep
      <3>2. {call.peer} \subseteq AskedNow[h]
        BY <2>2, <2>3 DEF AskedNow
      <3>3. ColumnStep(h, ann[h], RequestedTx(ann[h], call.peer), Welcome, AskedNow[h])
        BY <3>1, <3>2, Weaken
      <3> QED  BY <3>3, <2>4, <1>0, OneColumn
    <2>5. CASE ann' = Forget(ann, {h})
      <3>1. /\ ann' \in [TxHashes -> Columns]
            /\ \A g \in TxHashes : ann'[g] = NoColumn \/ ann'[g] = ann[g]
        BY <2>5, <1>0 DEF Forget, Columns, NoColumn, Announcements
      <3> QED  BY <3>1, <1>0, <1>3, ForgetStep, SameColumn
    <2> QED  BY <2>1, <2>4, <2>5, <1>0 DEF RequestOrForget
  <1>8. CASE \E p \in Peers : DisconnectedPeer(p)
    <2>1. PICK p \in Peers : DisconnectedPeer(p)
      BY <1>8
    <2>2. \A h \in TxHashes : ann'[h] = DropPeer(h, ann[h], p)
      BY <2>1 DEF DisconnectedPeer
    <2>3. \A h \in TxHashes : ColumnStep(h, ann[h], ann'[h], {}, {})
      BY <2>2, <1>0, DropStep
    <2>4. ann' \in [TxHashes -> Columns]
      BY <2>1, <2>3 DEF DisconnectedPeer, ColumnStep
    <2> QED  BY <2>3, <2>4, <1>3
  <1>9. CASE \E p \in Peers, h \in TxHashes : AddTxAnnouncement(p, h)
    <2>1. PICK p \in Peers, h \in TxHashes : AddTxAnnouncement(p, h)
      BY <1>9
    <2> DEFINE e == ReceivedInv(ann[h], p, Delay(ann, p, h \notin Wtxids))
    <2>2. p \in peers /\ ann' = [ann EXCEPT ![h] = e]
      BY <2>1, <1>0 DEF AddTxAnnouncement
    <2>3. /\ e \in Columns
          /\ \A q \in Peers :
               e[q] = ann[h][q]
               \/ (q \in {p} /\ ann[h][q].state = "NONE" /\ e[q].state = "DELAYED")
      BY <1>0, DelayFacts, ReceivedInvFacts
    <2> HIDE DEF e
    <2>4. ColumnStep(h, ann[h], e, {p}, {})
      BY <2>3, <1>0, AnnounceStep
    <2>5. {p} \subseteq Welcome
      <3> SUFFICES ASSUME p \notin RelayPeers PROVE Count(ann', p) <= MaxAnnouncements
        BY <2>2 DEF Welcome
      <3>1. Count(ann, p) < MaxAnnouncements
        BY <2>1 DEF AddTxAnnouncement
      <3>2. \A g \in TxHashes \ {h} : ann'[g][p].state # "NONE" => ann[g][p].state # "NONE"
        BY <2>2, <1>0
      <3>3. {h} \in SUBSET TxHashes /\ Cardinality({h}) = 1
        BY FS_Singleton
      <3> QED  BY <3>1, <3>2, <3>3, CountAdded, LimitAssumption
    <2>6. ColumnStep(h, ann[h], e, Welcome, AskedNow[h])
      BY <2>4, <2>5, Weaken
    <2> QED  BY <2>2, <2>6, <1>0, OneColumn
  <1>10. CASE \E p \in Peers, h \in TxHashes : ReceivedNotFound(p, h)
    <2>1. PICK p \in Peers, h \in TxHashes : ReceivedNotFound(p, h)
      BY <1>10
    <2>2. ann' = [ann EXCEPT ![h] = ReceivedResponse(h, ann[h], p)]
      BY <2>1, <1>0 DEF ReceivedNotFound
    <2> QED  BY <2>2, <1>0, <1>2, ResponseStep
  <1>11. CASE \E p \in Peers, x \in Transactions :
                 \E parents \in Parents(x) : AddOrphanAnnouncement(p, x, parents)
    <2>0. PICK p \in Peers : \E parents \in SUBSET TxHashes : \E x \in Transactions :
                                 AddOrphanAnnouncement(p, x, parents)
      BY <1>11 DEF Parents
    <2>1. PICK parents \in SUBSET TxHashes :
                 \E x \in Transactions : AddOrphanAnnouncement(p, x, parents)
      BY <2>0
    <2>2. /\ p \in peers /\ ann' = ParentsAnnounced(ann, {p}, parents)
          /\ p \in RelayPeers \/ Count(ann, p) + Cardinality(parents) <= MaxAnnouncements
      BY <2>1 DEF AddOrphanAnnouncement, MayResolve
    <2>3. {p} \subseteq Welcome
      <3> SUFFICES ASSUME p \notin RelayPeers PROVE Count(ann', p) <= MaxAnnouncements
        BY <2>2 DEF Welcome
      <3>1. \A h \in TxHashes \ parents :
               ann'[h][p].state # "NONE" => ann[h][p].state # "NONE"
        BY <2>2 DEF ParentsAnnounced
      <3>2. /\ Count(ann, p) \in Nat /\ Count(ann', p) \in Nat /\ Cardinality(parents) \in Nat
            /\ Count(ann', p) <= Count(ann, p) + Cardinality(parents)
        BY <3>1, CountAdded
      <3>3. Count(ann, p) + Cardinality(parents) <= MaxAnnouncements
        BY <2>2
      <3> QED  BY <3>2, <3>3, LimitAssumption
    <2>4. ASSUME NEW h \in TxHashes PROVE ColumnStep(h, ann[h], ann'[h], Welcome, AskedNow[h])
      <3> DEFINE D == Delay(ann, p, TRUE)
      <3>0. D \in Int
        BY DelayAssumption DEF Delay
      <3> HIDE DEF D
      <3>1. ReceivedInv(ann[h], p, D)[p] \in Announcements
            /\ \/ ReceivedInv(ann[h], p, D)[p] = ann[h][p]
               \/ ann[h][p].state = "NONE" /\ ReceivedInv(ann[h], p, D)[p].state = "DELAYED"
        BY <1>0, <3>0, ReceivedInvFacts DEF Columns
      <3>2. CASE h \in parents
        <4>1. ann'[h] = [q \in Peers |-> IF q \in {p}
                THEN ReceivedInv(ann[h], q, D)[q] ELSE ann[h][q]]
          BY <2>2, <3>2 DEF ParentsAnnounced, D
        <4>2. ann'[h] \in Columns
          BY <4>1, <3>1, <1>0 DEF Columns
        <4>3. \A q \in Peers :
                 \/ ann'[h][q] = ann[h][q]
                 \/ q \in {p} /\ ann[h][q].state = "NONE" /\ ann'[h][q].state = "DELAYED"
          BY <4>1, <3>1
        <4>4. ColumnStep(h, ann[h], ann'[h], {p}, {})
          BY <4>2, <4>3, <1>0, AnnounceStep
        <4> QED  BY <4>4, <2>3, Weaken
      <3>3. CASE h \notin parents
        <4>1. ann'[h] = ann[h]
          BY <2>2, <3>3 DEF ParentsAnnounced
        <4> QED  BY <4>1, <1>0, SameColumn
      <3> QED  BY <3>2, <3>3
    <2>5. ann' \in [TxHashes -> Columns]
      BY <2>2, <2>4 DEF ParentsAnnounced, ColumnStep
    <2> QED  BY <2>4, <2>5 DEF AllSteps
  <1>12. CASE \E p \in Peers, x \in Transactions : ReceivedTx(p, x)
    BY <1>12, ReceivedTxSteps
  <1>13. CASE \E x \in Transactions : BlockConnected(x) \/ ProcessOrphanTx(x)
    <2>1. PICK S : ann' = Forget(ann, S)
      BY <1>13 DEF BlockConnected, ProcessOrphanTx
    <2>2. /\ ann' \in [TxHashes -> Columns]
          /\ \A g \in TxHashes : ann'[g] = NoColumn \/ ann'[g] = ann[g]
      BY <2>1, <1>0 DEF Forget, Columns, NoColumn, Announcements
    <2> QED  BY <2>2, <1>0, <1>3, ForgetStep, SameColumn
  <1>14. CASE ClockForward \/ ClockBack
    <2>1. PICK d \in Int : ann' = Shifted(d)
      BY <1>14 DEF ClockForward, ClockBack
    <2>2. \A h \in TxHashes, q \in Peers :
             ann'[h][q] \in Announcements /\ ann'[h][q].state = ann[h][q].state
      BY <2>1, <1>0 DEF Shifted, Announcements, None, States
    <2>3. ann' \in [TxHashes -> Columns]
      BY <2>1, <2>2 DEF Shifted, Columns
    <2>4. \A h \in TxHashes : ColumnStep(h, ann[h], ann'[h], {}, {})
      BY <2>2, <2>3, <1>0, ClockStep
    <2> QED  BY <2>3, <2>4, <1>3
  <1> QED
    BY <1>4, <1>5, <1>6, <1>7, <1>8, <1>9, <1>10, <1>11, <1>12, <1>13, <1>14 DEF Next, CallStep

-----------------------------------------------------------------------------
(* The invariant.                                                          *)

\* It holds when nothing has been announced.
LEMMA InitIInv ==
    ASSUME Init
    PROVE  IInv
  <1>1. \A h \in TxHashes : ann[h] = NoColumn
    BY DEF Init
  <1>2. NoColumn \in Columns /\ \A q \in Peers : NoColumn[q].state = "NONE"
    BY DEF NoColumn, None, Columns, Announcements
  <1>3. TypeOK
    BY <1>2, DelayAssumption DEF Init, TypeOK, Columns, Calls
  <1>4. SanityCheck
    BY <1>1, <1>2, ForgetStep DEF SanityCheck, ColumnStep
  <1>5. NoStrays
    BY <1>1, <1>2 DEF NoStrays
  <1>6. OnlyBestRequested /\ Settled
    BY DEF Init, Idle, OnlyBestRequested, Settled
  <1>7. LimitKept
    <2> SUFFICES ASSUME NEW p \in Peers PROVE Count(ann, p) <= MaxAnnouncements
      BY DEF LimitKept
    <2>1. {h \in TxHashes : ann[h][p].state # "NONE"} = {}
      BY <1>1, <1>2
    <2>2. Count(ann, p) = 0
      BY <2>1, FS_EmptySet DEF Count
    <2> QED  BY <2>2, LimitAssumption
  <1> QED  BY <1>3, <1>4, <1>5, <1>6, <1>7 DEF IInv

\* What the steps leave alone.
LEMMA NextFrame ==
    ASSUME Next
    PROVE  /\ \/ \E p \in Peers : DisconnectedPeer(p)
              \/ call' = call /\ peers' = peers /\ call.op # "request"
              \/ CallStep /\ peers' = peers
              \/ \E p \in Peers : GetRequestsToSend(p)
           /\ back' = back \/ (back > 0 /\ back' = back - 1)
  <1>1. CASE CallStep
    BY <1>1 DEF CallStep, SetTimePointForward, SetTimePointBackward, GetRequestable,
                RequestOrForget, RequestsReturned
  <1>2. CASE \E p \in Peers : DisconnectedPeer(p) \/ GetRequestsToSend(p)
    BY <1>2 DEF DisconnectedPeer, GetRequestsToSend
  <1>3. ASSUME call = Idle, UNCHANGED <<peers, call>>,
               back' = back \/ (back > 0 /\ back' = back - 1)
        PROVE  /\ call' = call /\ peers' = peers /\ call.op # "request"
               /\ back' = back \/ (back > 0 /\ back' = back - 1)
    BY <1>3 DEF Idle
  <1>4. CASE \E p \in Peers, h \in TxHashes : AddTxAnnouncement(p, h) \/ ReceivedNotFound(p, h)
    BY <1>3, <1>4 DEF AddTxAnnouncement, ReceivedNotFound
  <1>5. CASE \E p \in Peers, x \in Transactions :
                \E parents \in Parents(x) : AddOrphanAnnouncement(p, x, parents)
    BY <1>3, <1>5 DEF AddOrphanAnnouncement
  <1>6. CASE \E p \in Peers, x \in Transactions : ReceivedTx(p, x)
    <2>1. call = Idle /\ UNCHANGED <<peers, call, back>>
      BY <1>6 DEF ReceivedTx
    <2> QED  BY <2>1, <1>3
  <1>7. CASE \E x \in Transactions : BlockConnected(x) \/ ProcessOrphanTx(x)
    BY <1>3, <1>7 DEF BlockConnected, ProcessOrphanTx
  <1>8. CASE ClockForward \/ ClockBack
    BY <1>3, <1>8 DEF ClockForward, ClockBack
  <1> QED  BY <1>1, <1>2, <1>4, <1>5, <1>6, <1>7, <1>8 DEF Next

\* Every step keeps it.
LEMMA NextIInv ==
    ASSUME IInv, [Next]_vars
    PROVE  IInv'
  <1>1. CASE UNCHANGED vars
    BY <1>1 DEF vars, IInv, TypeOK, SanityCheck, OnlyBestRequested, NoStrays, LimitKept, Count,
                Settled, Early
  <1>2. CASE Next
    <2>0. /\ TypeOK /\ OnlyBestRequested /\ NoStrays /\ LimitKept /\ Settled
          /\ ann \in [TxHashes -> Columns]
      BY DEF IInv, TypeOK, Columns
    <2>1. AllSteps(ann, ann', Welcome, AskedNow)
      BY <1>2, NextSteps
    <2>2. ann' \in [TxHashes -> Columns] /\ SanityCheck'
      BY <2>1 DEF AllSteps, ColumnStep, SanityCheck
    <2>3. \A h \in TxHashes, q \in Peers : ann'[h][q].state # "NONE" => q \in peers
      BY <2>0, <2>1 DEF AllSteps, ColumnStep, NoStrays, Welcome
    <2>4. /\ \/ \E p \in Peers : DisconnectedPeer(p)
             \/ call' = call /\ peers' = peers /\ call.op # "request"
             \/ CallStep /\ peers' = peers
             \/ \E p \in Peers : GetRequestsToSend(p)
          /\ back' = back \/ (back > 0 /\ back' = back - 1)
      BY <1>2, NextFrame
    <2>5. NoStrays'
      <3>1. CASE peers' = peers
        BY <3>1, <2>3 DEF NoStrays
      <3>2. CASE \E p \in Peers : DisconnectedPeer(p)
        <4>1. PICK p \in Peers : DisconnectedPeer(p)
          BY <3>2
        <4>2. \A h \in TxHashes : ann[h] \in Columns /\ Sane(h, ann[h])
          BY <2>0 DEF IInv, SanityCheck
        <4>3. \A h \in TxHashes : ann'[h] = DropPeer(h, ann[h], p)
          BY <4>1 DEF DisconnectedPeer
        <4>4. \A h \in TxHashes : ann'[h][p].state = "NONE"
          BY <4>2, <4>3, DropStep
        <4> QED  BY <4>1, <4>4, <2>3 DEF DisconnectedPeer, NoStrays
      <3> QED  BY <2>4, <3>1, <3>2 DEF GetRequestsToSend
    <2>6. TypeOK'
      <3>1. call' \in Calls
        <4>1. CASE \E p \in Peers : GetRequestsToSend(p)
          <5>1. PICK p \in Peers : call' = [op |-> "settime", peer |-> p, todo |-> {}]
            BY <4>1 DEF GetRequestsToSend
          <5> QED  BY <5>1 DEF Calls
        <4>2. CASE call' = call
          BY <4>2, <2>0 DEF TypeOK
        <4>3. CASE GetRequestable
          <5>1. call \in Calls /\ call.op = "settime"
            BY <4>3, <2>0 DEF TypeOK, GetRequestable
          <5>2. call.peer \in Peers
            BY <5>1 DEF Calls, Idle
          <5>3. PICK S \in SUBSET TxHashes :
                   call' = [op |-> "request", peer |-> call.peer, todo |-> S]
            BY <4>3 DEF GetRequestable
          <5> QED  BY <5>2, <5>3 DEF Calls
        <4>4. CASE \E h \in TxHashes : RequestOrForget(h)
          BY <4>4, <2>0 DEF TypeOK, RequestOrForget, Calls, Idle
        <4>5. CASE RequestsReturned
          BY <4>5 DEF RequestsReturned, Calls
        <4> QED
          BY <2>4, <4>1, <4>2, <4>3, <4>4, <4>5
          DEF CallStep, SetTimePointForward, SetTimePointBackward, DisconnectedPeer
      <3>2. peers' \subseteq Peers
        BY <2>4, <2>0 DEF TypeOK, DisconnectedPeer, GetRequestsToSend
      <3>3. back' \in Nat
        BY <2>4, <2>0 DEF TypeOK
      <3> QED  BY <2>2, <3>1, <3>2, <3>3 DEF TypeOK, Columns
    <2>7. OnlyBestRequested' /\ Settled'
      <3>1. CASE call'.op # "request"
        BY <3>1 DEF OnlyBestRequested, Settled
      <3>2. CASE GetRequestable
        <4>1. \A h \in TxHashes, p \in Peers : ~Due(h, p) /\ ~Early(h, p) /\ ann' = ann
          BY <3>2 DEF GetRequestable
        <4>2. \A h \in TxHashes, p \in Peers : ann[h][p].wait \in Int
          BY <2>0, StatusFacts DEF Columns
        <4>3. \A h \in TxHashes, p \in Peers :
                 ~Early(h, p)' /\ (ann'[h][p].state = "DELAYED" => ann'[h][p].wait > 0)
          BY <4>1, <4>2 DEF Due, Early, IsWaiting
        <4>4. OnlyBestRequested'
          BY <3>2, <4>1 DEF GetRequestable, OnlyBestRequested
        <4> QED  BY <4>3, <4>4 DEF Settled
      <3>3. CASE \E h \in TxHashes : RequestOrForget(h)
        <4>1. PICK h \in TxHashes : RequestOrForget(h)
          BY <3>3
        <4>2. /\ call.op = "request" /\ h \in call.todo /\ ann[h][call.peer].state = "BEST"
              /\ call \in Calls
              /\ call' = [call EXCEPT !.todo = @ \ {h}]
          BY <4>1, <2>0 DEF RequestOrForget, OnlyBestRequested, TypeOK
        <4>3. /\ call.peer \in Peers /\ call'.op = "request" /\ call'.peer = call.peer
              /\ call'.todo = call.todo \ {h} /\ call.todo \subseteq TxHashes
          BY <4>2 DEF Calls, Idle
        <4>4. /\ \A g \in TxHashes \ {h} : ann'[g] = ann[g]
              /\ \A q \in Peers : \/ ann'[h][q] = ann[h][q]
                                  \/ ann'[h][q].state \in {"NONE", "REQUESTED"}
          <5>1. CASE ann' = [ann EXCEPT ![h] = RequestedTx(ann[h], call.peer)]
            <6>1. ann[h] \in Columns /\ Sane(h, ann[h])
              BY <2>0 DEF IInv, SanityCheck
            <6>2. ann'[h] = RequestedTx(ann[h], call.peer)
              BY <5>1, <2>0
            <6>3. /\ \A q \in Peers \ {call.peer} : ann'[h][q] = ann[h][q]
                  /\ ann'[h][call.peer].state = "REQUESTED"
              <7>1. call.peer \in Peers /\ ann[h][call.peer].state = "BEST"
                BY <4>2, <4>3
              <7>2. /\ \A q \in Peers \ {call.peer} :
                          RequestedTx(ann[h], call.peer)[q] = ann[h][q]
                    /\ RequestedTx(ann[h], call.peer)[call.peer].state = "REQUESTED"
                BY <6>1, <7>1, RequestStep
              <7> QED  BY <6>2, <7>2
            <6>4. \A g \in TxHashes \ {h} : ann'[g] = ann[g]
              BY <5>1, <2>0
            <6> QED  BY <6>3, <6>4
          <5>2. CASE ann' = Forget(ann, {h})
            BY <5>2 DEF Forget, NoColumn, None
          <5> QED  BY <4>1, <5>1, <5>2, <2>0 DEF RequestOrForget
        <4>5. OnlyBestRequested'
          BY <4>2, <4>3, <4>4, <2>0 DEF OnlyBestRequested
        <4>6. ASSUME NEW g \in TxHashes, NEW q \in Peers
              PROVE  ~Early(g, q)' /\ (ann'[g][q].state = "DELAYED" => ann'[g][q].wait > 0)
          <5>1. ann'[g][q] = ann[g][q] \/ ann'[g][q].state \in {"NONE", "REQUESTED"}
            BY <4>4
          <5>2. ~Early(g, q) /\ (ann[g][q].state = "DELAYED" => ann[g][q].wait > 0)
            BY <4>2, <2>0 DEF Settled
          <5> QED  BY <5>1, <5>2 DEF Early, IsSelectable
        <4> QED  BY <4>5, <4>6 DEF Settled
      <3>4. CASE \E p \in Peers : DisconnectedPeer(p) \/ GetRequestsToSend(p)
        BY <3>1, <3>4 DEF DisconnectedPeer, GetRequestsToSend, Idle
      <3>5. CASE CallStep
        <4>1. ASSUME NEW h \in TxHashes, NEW p \in Peers,
                     SetTimePointForward(h, p) \/ SetTimePointBackward(h, p)
              PROVE  call'.op # "request"
          BY <4>1 DEF SetTimePointForward, SetTimePointBackward
        <4>2. CASE RequestsReturned
          BY <3>1, <4>2 DEF RequestsReturned, Idle
        <4> QED  BY <3>1, <3>2, <3>3, <3>5, <4>1, <4>2 DEF CallStep
      <3> QED  BY <2>4, <3>1, <3>4, <3>5
    <2>8. LimitKept'
      <3> SUFFICES ASSUME NEW p \in Peers, p \notin RelayPeers
                   PROVE  Count(ann', p) <= MaxAnnouncements
        BY DEF LimitKept, Count
      <3>1. CASE p \in Welcome
        BY <3>1 DEF Welcome
      <3>2. CASE p \notin Welcome
        <4>1. \A h \in TxHashes \ {} : ann'[h][p].state # "NONE" => ann[h][p].state # "NONE"
          BY <2>1, <3>2 DEF AllSteps, ColumnStep
        <4>2. {} \in SUBSET TxHashes /\ Cardinality({}) = 0
          BY FS_EmptySet
        <4>3. Count(ann, p) <= MaxAnnouncements
          BY <2>0 DEF LimitKept
        <4> QED  BY <4>1, <4>2, <4>3, CountAdded, LimitAssumption
      <3> QED  BY <3>1, <3>2
    <2> QED  BY <2>2, <2>5, <2>6, <2>7, <2>8 DEF IInv
  <1> QED  BY <1>1, <1>2

-----------------------------------------------------------------------------
(* The theorems.                                                           *)

\* The inductive invariant holds.
THEOREM Invariance == Spec => []IInv
  <1>1. Init => IInv
    BY InitIInv
  <1>2. IInv /\ [Next]_vars => IInv'
    BY NextIInv
  <1> QED  BY <1>1, <1>2, PTL DEF Spec

\* TypeOK always holds.
THEOREM TypeCorrect == Spec => []TypeOK
  <1>1. IInv => TypeOK
    BY DEF IInv
  <1> QED  BY <1>1, Invariance, PTL

\* The assertions of TxRequestTracker::SanityCheck never fail.
THEOREM IndexStaysSane == Spec => []SanityCheck
  <1>1. IInv => SanityCheck
    BY DEF IInv
  <1> QED  BY <1>1, Invariance, PTL

\* The branch of RequestedTx that "will never execute" never does.
THEOREM RequestsAreBest == Spec => []OnlyBestRequested
  <1>1. IInv => OnlyBestRequested
    BY DEF IInv
  <1> QED  BY <1>1, Invariance, PTL

\* No announcement outlives the connection of its peer.
THEOREM NothingStrays == Spec => []NoStrays
  <1>1. IInv => NoStrays
    BY DEF IInv
  <1> QED  BY <1>1, Invariance, PTL

\* MAX_PEER_TX_ANNOUNCEMENTS is never exceeded: not by an announcement, and not
\* by the parents of an orphan, of which several are announced at once on
\* behalf of several peers.
THEOREM LimitIsKept == Spec => []LimitKept
  <1>1. IInv => LimitKept
    BY DEF IInv
  <1> QED  BY <1>1, Invariance, PTL

\* The peer that is asked is due, and the best of those that are.
THEOREM TheBestIsAsked == Spec => BestIsAsked
  <1> DEFINE A == \A h \in TxHashes, p \in Peers :
                    ann'[h][p].state = "REQUESTED" /\ ann[h][p].state # "REQUESTED" =>
                      /\ ann[h][p].wait <= 0
                      /\ \A q \in Peers \ {p} :
                           IsCandidate(ann[h][q]) /\ ann[h][q].wait <= 0 => Better(h, p, q)
  <1>1. IInv /\ [Next]_vars => [A]_vars
    <2>1. SUFFICES ASSUME IInv, Next, NEW h \in TxHashes, NEW p \in Peers,
                          ann'[h][p].state = "REQUESTED", ann[h][p].state # "REQUESTED"
          PROVE  /\ ann[h][p].wait <= 0
                 /\ \A q \in Peers \ {p} :
                      IsCandidate(ann[h][q]) /\ ann[h][q].wait <= 0 => Better(h, p, q)
      OBVIOUS
    <2>2. AllSteps(ann, ann', Welcome, AskedNow)
      BY <2>1, NextSteps
    <2>3. p \in AskedNow[h]
      BY <2>1, <2>2 DEF AllSteps, ColumnStep
    <2>4. call.op = "request" /\ h \in call.todo /\ p = call.peer
      BY <2>3 DEF AskedNow
    <2>5. /\ ann[h][p].state = "BEST" /\ Sane(h, ann[h])
          /\ \A q \in Peers :
               ~Early(h, q) /\ (ann[h][q].state = "DELAYED" => ann[h][q].wait > 0)
      BY <2>1, <2>4 DEF IInv, OnlyBestRequested, SanityCheck, Settled
    <2>6. \A q \in Peers : ann[h][q].wait \in Int
      BY <2>1, StatusFacts DEF IInv, TypeOK
    <2>7. ann[h][p].wait <= 0
      BY <2>5, <2>6 DEF Early, IsSelectable
    <2>8. ASSUME NEW q \in Peers \ {p}, IsCandidate(ann[h][q]), ann[h][q].wait <= 0
          PROVE  Better(h, p, q)
      <3>1. ann[h][q].state # "DELAYED"
        BY <2>5, <2>6, <2>8
      <3>2. ann[h][q].state # "BEST"
        BY <2>5, <2>8 DEF Sane, Selected, IsSelected
      <3>3. q \in InState(ann[h], "READY") /\ p \in InState(ann[h], "BEST")
        BY <3>1, <3>2, <2>5, <2>8 DEF InState, IsCandidate
      <3> QED  BY <3>3, <2>5 DEF Sane
    <2> QED  BY <2>7, <2>8
  <1> QED  BY <1>1, Invariance, PTL DEF Spec, BestIsAsked

\* The tracker and its caller implement the rules of txrequest.h.
THEOREM RulesImplemented == Spec => ImplementsRules
  <1> DEFINE status == [h \in TxHashes |-> [p \in Peers |-> StatusOf(ann[h][p])]]
  <1>1. Init => Rules!Init
    BY DEF Init, NoColumn, None, StatusOf, Rules!Init, Rules!NothingKnown
  <1>2. IInv /\ [Next]_vars => [Rules!Next]_status
    <2>1. CASE UNCHANGED vars
      BY <2>1 DEF vars
    <2>2. ASSUME IInv, Next  PROVE Rules!Next
      <3>1. /\ ann' \in [TxHashes -> Columns]
            /\ \A h \in TxHashes : Rules!HashStep(Abs(ann[h]), Abs(ann'[h]))
        BY <2>2, NextSteps DEF AllSteps, ColumnStep
      <3>2. /\ \A h \in TxHashes : status[h] = Abs(ann[h])
            /\ \A h \in TxHashes : status'[h] = Abs(ann'[h])
        BY DEF Abs
      <3>3. status' \in [TxHashes -> [Peers -> Rules!Statuses]]
        BY <3>1, StatusFacts DEF Columns
      <3> QED  BY <3>1, <3>2, <3>3 DEF Rules!Next
    <2> QED  BY <2>1, <2>2
  <1> QED  BY <1>1, <1>2, Invariance, PTL DEF Spec, ImplementsRules, Rules!Spec
=============================================================================
