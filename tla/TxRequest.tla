------------------------------ MODULE TxRequest ------------------------------
(***************************************************************************)
(* Which peer is asked for which transaction: TxRequestTracker             *)
(* (txrequest.cpp) and its only caller, TxDownloadManagerImpl, which runs  *)
(* every operation under m_tx_download_mutex.                              *)
(*                                                                         *)
(* ann[h][p] is the announcement of hash h by peer p, state "NONE" when    *)
(* m_index holds none.  The index orders the announcements of one hash by  *)
(* state and, when READY, by priority; "the next one" of the code becomes  *)
(* a statement about that order.  m_peerinfo caches counts of the index.   *)
(*                                                                         *)
(* Times are relative: wait is m_time minus now.  The clock moves all of   *)
(* them, forward any number of times and back at most MaxBack times, so a  *)
(* wait below -back is never told apart from it.                           *)
(*                                                                         *)
(* AlreadyHaveTx asks the memory pool, the orphanage and four filters of   *)
(* recent transactions, none of them modelled: each call may get either    *)
(* answer.  A peer that has not connected yet is one that has announced    *)
(* nothing.                                                                *)
(*                                                                         *)
(* SetTimePoint and the loop over its result run one iteration per step;   *)
(* call says which, and no other operation starts until it is over.        *)
(***************************************************************************)
EXTENDS Integers, FiniteSets

CONSTANTS
    Peers,              \* NodeIds, never used twice
    TxHashes,           \* txids and wtxids
    Wtxids,             \* those announced as wtxids
    Transactions,       \* [txid, wtxid] records
    Preferred,          \* peers with m_preferred
    RelayPeers,         \* peers with m_relay_permissions
    WtxidPeers,         \* peers with m_wtxid_relay
    Rank,               \* the salted hash of hash and peer
    MaxAnnouncements,   \* MAX_PEER_TX_ANNOUNCEMENTS
    MaxInFlight,        \* MAX_PEER_TX_REQUEST_IN_FLIGHT
    NonprefDelay, TxidDelay, OverloadDelay, GetdataInterval,
    MaxBack,            \* bound: how often the clock goes back
    MaxTracked          \* bound: announcements tracked at once

\* PriorityComputer: higher priorities are selected first.
Better(h, p, q) ==
    IF p \in Preferred /\ q \notin Preferred THEN TRUE
    ELSE IF p \notin Preferred /\ q \in Preferred THEN FALSE
    ELSE Rank[h][p] > Rank[h][q]

ASSUME RankAssumption ==
    /\ Rank \in [TxHashes -> [Peers -> Nat]]
    /\ \A h \in TxHashes : \A S \in (SUBSET Peers) \ {{}} :
          \E q \in S : \A r \in S \ {q} : Better(h, q, r)
ASSUME DelayAssumption ==
    /\ NonprefDelay \in Nat /\ TxidDelay \in Nat /\ OverloadDelay \in Nat
    /\ GetdataInterval \in Nat /\ MaxBack \in Nat
\* Hashes have 256 bits.
ASSUME HashAssumption ==
    /\ IsFiniteSet(TxHashes)
    /\ Wtxids \subseteq TxHashes
    /\ Transactions \subseteq [txid : TxHashes, wtxid : TxHashes]

ASSUME LimitAssumption == MaxAnnouncements \in Nat

VARIABLES
    ann,        \* m_index
    peers,      \* m_peer_info
    call,       \* the operation that is running
    back        \* how often the clock may still go back

vars == <<ann, peers, call, back>>

None == [state |-> "NONE", wait |-> 0]
NoColumn == [p \in Peers |-> None]
Idle == [op |-> "idle", todo |-> {}]

-----------------------------------------------------------------------------
(* The index.  c is the part of one hash h.                                *)

IsSelected(a) == a.state \in {"BEST", "REQUESTED"}
IsWaiting(a) == a.state \in {"REQUESTED", "DELAYED"}
IsSelectable(a) == a.state \in {"READY", "BEST"}
IsCandidate(a) == a.state \in {"DELAYED", "READY", "BEST"}

InState(c, s) == {q \in Peers : c[q].state = s}
Selected(c) == {q \in Peers : IsSelected(c[q])}
\* The time of a COMPLETED announcement is not read again.
SetState(c, p, s) ==
    [c EXCEPT ![p] = [state |-> s, wait |-> IF s = "COMPLETED" THEN 0 ELSE c[p].wait]]

\* The last READY announcement in the order of the index.
TopReady(h, c) ==
    CHOOSE q \in InState(c, "READY") :
        \A r \in InState(c, "READY") \ {q} : Better(h, q, r)

MutPromote_AnyReady(h, c, p) ==
    IF Selected(c) = {} THEN SetState(c, p, "BEST") ELSE SetState(c, p, "READY")

PromoteCandidateReady(h, c, p) ==
    LET top == \A q \in InState(c, "READY") : Better(h, p, q)
    IN  IF top /\ Selected(c) = {} THEN SetState(c, p, "BEST")
        ELSE IF top /\ \E q \in InState(c, "BEST") : Better(h, p, q)
        THEN [q \in Peers |->
                IF q = p THEN [c[q] EXCEPT !.state = "BEST"]
                ELSE IF c[q].state = "BEST" THEN [c[q] EXCEPT !.state = "READY"]
                ELSE c[q]]
        ELSE SetState(c, p, "READY")

ChangeAndReselect(h, c, p, new_state) ==
    LET d == IF IsSelected(c[p]) /\ InState(c, "READY") # {}
             THEN SetState(c, TopReady(h, c), "BEST")
             ELSE c
    IN  SetState(d, p, new_state)

IsOnlyNonCompleted(c, p) ==
    \A q \in Peers \ {p} : c[q].state \in {"NONE", "COMPLETED"}

MakeCompleted(h, c, p) ==
    IF c[p].state = "COMPLETED" THEN c
    ELSE IF IsOnlyNonCompleted(c, p) THEN NoColumn
    ELSE ChangeAndReselect(h, c, p, "COMPLETED")

MutReceivedInv_AfterFailure(c, p, delay) ==
    IF c[p].state \notin {"NONE", "COMPLETED"} THEN c
    ELSE [c EXCEPT ![p] = [state |-> "DELAYED", wait |-> delay]]

ReceivedInv(c, p, delay) ==
    IF c[p].state # "NONE" THEN c
    ELSE [c EXCEPT ![p] = [state |-> "DELAYED", wait |-> delay]]

RequestedTx(c, p) ==
    IF ~IsCandidate(c[p]) THEN c
    ELSE [q \in Peers |->
            IF q = p THEN [state |-> "REQUESTED", wait |-> GetdataInterval]
            ELSE IF c[p].state = "BEST" THEN c[q]
            ELSE IF c[q].state = "BEST" THEN [c[q] EXCEPT !.state = "READY"]
            ELSE IF c[q].state = "REQUESTED" THEN [state |-> "COMPLETED", wait |-> 0]
            ELSE c[q]]

ReceivedResponse(h, c, p) ==
    IF c[p].state = "NONE" THEN c ELSE MakeCompleted(h, c, p)

\* TxRequestTracker::DisconnectedPeer, its part of one hash.
DropPeer(h, c, p) ==
    IF c[p].state = "NONE" THEN c
    ELSE [MakeCompleted(h, c, p) EXCEPT ![p] = None]

MutForget_StateOnly(a, S) ==
    [h \in TxHashes |->
        IF h \in S THEN [p \in Peers |-> [a[h][p] EXCEPT !.state = "NONE"]] ELSE a[h]]

\* ForgetTxHash of all hashes in S.
Forget(a, S) == [h \in TxHashes |-> IF h \in S THEN NoColumn ELSE a[h]]

Count(a, p) == Cardinality({h \in TxHashes : a[h][p].state # "NONE"})
CountInFlight(a, p) == Cardinality({h \in TxHashes : a[h][p].state = "REQUESTED"})
Size == Cardinality({x \in TxHashes \X Peers : ann[x[1]][x[2]].state # "NONE"})
GetCandidatePeers(a, h) == {p \in Peers : a[h][p].state \notin {"NONE", "COMPLETED"}}

-----------------------------------------------------------------------------
(* Announcements.                                                          *)

Init ==
    /\ ann = [h \in TxHashes |-> NoColumn]
    /\ peers = Peers
    /\ call = Idle
    /\ back = MaxBack

DisconnectedPeer(p) ==
    /\ call = Idle
    /\ p \in peers
    /\ peers' = peers \ {p}
    /\ ann' = [h \in TxHashes |-> DropPeer(h, ann[h], p)]
    /\ UNCHANGED <<call, back>>

\* The delay of an announcement, by txid or by wtxid.
Delay(a, p, by_txid) ==
    (IF p \in Preferred THEN 0 ELSE NonprefDelay)
    + (IF by_txid /\ WtxidPeers \cap peers # {} THEN TxidDelay ELSE 0)
    + (IF p \notin RelayPeers /\ CountInFlight(a, p) >= MaxInFlight THEN OverloadDelay ELSE 0)

MutAdd_NoLimit(p, h) ==
    /\ call = Idle
    /\ p \in peers
    /\ Size < MaxTracked
    /\ ann' = [ann EXCEPT ![h] = ReceivedInv(@, p, Delay(ann, p, h \notin Wtxids))]
    /\ UNCHANGED <<peers, call, back>>

\* AddTxAnnouncement of a hash that is not that of an orphan.
AddTxAnnouncement(p, h) ==
    /\ call = Idle
    /\ p \in peers
    /\ p \in RelayPeers \/ Count(ann, p) < MaxAnnouncements
    /\ Size < MaxTracked
    /\ ann' = [ann EXCEPT ![h] = ReceivedInv(@, p, Delay(ann, p, h \notin Wtxids))]
    /\ UNCHANGED <<peers, call, back>>

MutMayResolve_AnyPeer(a, p, parents) ==
    p \in RelayPeers \/ Count(a, p) + Cardinality(parents) <= MaxAnnouncements

\* MaybeAddOrphanResolutionCandidate lets p be asked for the parents.
MayResolve(a, p, parents) ==
    /\ p \in peers
    /\ p \in RelayPeers \/ Count(a, p) + Cardinality(parents) <= MaxAnnouncements

\* The announcements a, with the parents announced by the peers in Q.
ParentsAnnounced(a, Q, parents) ==
    [h \in TxHashes |->
        IF h \in parents
        THEN [p \in Peers |-> IF p \in Q THEN ReceivedInv(a[h], p, Delay(a, p, TRUE))[p] ELSE a[h][p]]
        ELSE a[h]]

\* The sets of parents an orphan can miss.
Parents(x) == SUBSET (TxHashes \ (Wtxids \cup {x.txid, x.wtxid}))

\* AddTxAnnouncement of an orphan, x, that p has not announced before: its
\* missing parents are announced instead.
AddOrphanAnnouncement(p, x, parents) ==
    /\ call = Idle
    /\ parents # {}
    /\ MayResolve(ann, p, parents)
    /\ Size + Cardinality(parents) <= MaxTracked
    /\ ann' = ParentsAnnounced(ann, {p}, parents)
    /\ UNCHANGED <<peers, call, back>>

-----------------------------------------------------------------------------
(* GetRequestsToSend.                                                      *)

\* SendMessages(p) calls it.
GetRequestsToSend(p) ==
    /\ call = Idle
    /\ p \in peers
    /\ call' = [op |-> "settime", peer |-> p, todo |-> {}]
    /\ UNCHANGED <<ann, peers, back>>

MutDue_DelayedOnly(h, p) == ann[h][p].state = "DELAYED" /\ ann[h][p].wait <= 0
MutEarly_Never(h, p) == FALSE

Due(h, p) == IsWaiting(ann[h][p]) /\ ann[h][p].wait <= 0
Early(h, p) == IsSelectable(ann[h][p]) /\ ann[h][p].wait > 0

\* SetTimePoint, first loop: the earliest announcement that is due.
SetTimePointForward(h, p) ==
    /\ call.op = "settime"
    /\ Due(h, p)
    /\ \A g \in TxHashes, q \in Peers : Due(g, q) => ann[h][p].wait <= ann[g][q].wait
    /\ ann' = [ann EXCEPT ![h] = IF ann[h][p].state = "DELAYED"
                                 THEN PromoteCandidateReady(h, @, p)
                                 ELSE MakeCompleted(h, @, p)]
    /\ UNCHANGED <<peers, call, back>>

\* SetTimePoint, second loop: the latest one that is selected too early.
SetTimePointBackward(h, p) ==
    /\ call.op = "settime"
    /\ \A g \in TxHashes, q \in Peers : ~Due(g, q)
    /\ Early(h, p)
    /\ \A g \in TxHashes, q \in Peers : Early(g, q) => ann[h][p].wait >= ann[g][q].wait
    /\ ann' = [ann EXCEPT ![h] = ChangeAndReselect(h, @, p, "DELAYED")]
    /\ UNCHANGED <<peers, call, back>>

MutGetRequestable_Ready ==
    /\ call.op = "settime"
    /\ \A g \in TxHashes, q \in Peers : ~Due(g, q) /\ ~Early(g, q)
    /\ call' = [op |-> "request", peer |-> call.peer,
                todo |-> {h \in TxHashes : IsSelectable(ann[h][call.peer])}]
    /\ UNCHANGED <<ann, peers, back>>

\* GetRequestable, after SetTimePoint: what to request from the peer.
GetRequestable ==
    /\ call.op = "settime"
    /\ \A g \in TxHashes, q \in Peers : ~Due(g, q) /\ ~Early(g, q)
    /\ call' = [op |-> "request", peer |-> call.peer,
                todo |-> {h \in TxHashes : ann[h][call.peer].state = "BEST"}]
    /\ UNCHANGED <<ann, peers, back>>

\* The loop over the requestable hashes.
RequestOrForget(h) ==
    /\ call.op = "request"
    /\ h \in call.todo
    /\ call' = [call EXCEPT !.todo = @ \ {h}]
    /\ ann' \in {[ann EXCEPT ![h] = RequestedTx(@, call.peer)], Forget(ann, {h})}
    /\ UNCHANGED <<peers, back>>

RequestsReturned ==
    /\ call.op = "request"
    /\ call.todo = {}
    /\ call' = Idle
    /\ UNCHANGED <<ann, peers, back>>

-----------------------------------------------------------------------------
(* Answers, blocks and the clock.                                          *)

ReceivedNotFound(p, h) ==
    /\ call = Idle
    /\ p \in peers
    /\ ann' = [ann EXCEPT ![h] = ReceivedResponse(h, @, p)]
    /\ UNCHANGED <<peers, call, back>>

Hashes(x) == {x.txid, x.wtxid}

\* ReceivedTx up to AlreadyHaveTx.
Responded(p, x) ==
    [h \in TxHashes |-> IF h \in Hashes(x) THEN ReceivedResponse(h, ann[h], p) ELSE ann[h]]

\* MempoolRejectedTx for missing inputs: whoever may be asked for the parents
\* is, and the orphan itself is forgotten.
OrphanKept(a, p, x, parents) ==
    LET asked == {q \in {p} \cup UNION {GetCandidatePeers(a, h) : h \in Hashes(x)} :
                     MayResolve(a, q, parents)}
    IN  /\ Size + Cardinality(parents) * Cardinality(asked) <= MaxTracked
        /\ ann' = Forget(ParentsAnnounced(a, asked, parents), Hashes(x))

\* A transaction comes in from p: ReceivedTx, then validation and
\* MempoolAcceptedTx or MempoolRejectedTx, all under the mutex.  Nothing is
\* forgotten when the transaction was there or had lost its witness.
ReceivedTx(p, x) ==
    LET a == Responded(p, x) IN
    /\ call = Idle
    /\ p \in peers
    /\ \/ \E S \in {{}, {x.wtxid}, Hashes(x)} : ann' = Forget(a, S)
       \/ \E parents \in Parents(x) : OrphanKept(a, p, x, parents)
    /\ UNCHANGED <<peers, call, back>>

BlockConnected(x) ==
    /\ call = Idle
    /\ ann' = Forget(ann, Hashes(x))
    /\ UNCHANGED <<peers, call, back>>

\* ProcessOrphanTx and ProcessPackageResult: a transaction of the orphanage
\* is accepted, or rejected for good.
ProcessOrphanTx(x) ==
    /\ call = Idle
    /\ \E S \in {{x.wtxid}, Hashes(x)} : ann' = Forget(ann, S)
    /\ UNCHANGED <<peers, call, back>>

\* The announcements after the clock has moved by d.
Shifted(d) ==
    [h \in TxHashes |-> [p \in Peers |->
        IF ann[h][p].state \in {"NONE", "COMPLETED"} \/ ann[h][p].wait - d < -back THEN ann[h][p]
        ELSE [ann[h][p] EXCEPT !.wait = @ - d]]]

ClockForward ==
    /\ call = Idle
    /\ ann' = Shifted(1)
    /\ UNCHANGED <<peers, call, back>>

ClockBack ==
    /\ call = Idle
    /\ back > 0
    /\ back' = back - 1
    /\ ann' = Shifted(-1)
    /\ UNCHANGED <<peers, call>>

-----------------------------------------------------------------------------
CallStep ==
    \/ \E h \in TxHashes, p \in Peers :
          SetTimePointForward(h, p) \/ SetTimePointBackward(h, p)
    \/ GetRequestable
    \/ \E h \in TxHashes : RequestOrForget(h)
    \/ RequestsReturned

Next ==
    \/ CallStep
    \/ \E p \in Peers :
          \/ DisconnectedPeer(p)
          \/ GetRequestsToSend(p)
          \/ \E h \in TxHashes : AddTxAnnouncement(p, h) \/ ReceivedNotFound(p, h)
          \/ \E x \in Transactions :
                \/ \E parents \in Parents(x) : AddOrphanAnnouncement(p, x, parents)
                \/ ReceivedTx(p, x)
    \/ \E x \in Transactions : BlockConnected(x) \/ ProcessOrphanTx(x)
    \/ ClockForward
    \/ ClockBack

Spec == Init /\ [][Next]_vars

\* The message handler thread calls SendMessages for every peer in turn, the
\* loops of a call end, and time passes.
Fairness ==
    /\ WF_vars(CallStep)
    /\ \A p \in Peers : SF_vars(GetRequestsToSend(p))
    /\ SF_vars(ClockForward)

FairSpec == Spec /\ Fairness

-----------------------------------------------------------------------------
(* Properties.                                                             *)

States == {"DELAYED", "READY", "BEST", "REQUESTED", "COMPLETED"}
Announcements == {None} \cup [state : States, wait : Int]
Calls == {Idle} \cup [op : {"settime", "request"}, peer : Peers, todo : SUBSET TxHashes]

\* Every variable has its type.
TypeOK ==
    /\ ann \in [TxHashes -> [Peers -> Announcements]]
    /\ peers \subseteq Peers
    /\ call \in Calls
    /\ back \in Nat

\* The assertions of SanityCheck, of one hash.
Sane(h, c) ==
    /\ InState(c, "COMPLETED") # {} =>
          \E p \in Peers : c[p].state \notin {"NONE", "COMPLETED"}
    /\ \A p, q \in Selected(c) : p = q
    /\ InState(c, "READY") # {} => Selected(c) # {}
    /\ \A p \in InState(c, "BEST"), q \in InState(c, "READY") : Better(h, p, q)

\* TxRequestTracker::SanityCheck, after every operation and between the
\* iterations of SetTimePoint: one announcement of a hash is selected at most,
\* one is whenever some are ready, no ready one is better than the best, and a
\* hash is forgotten when only failures are left.
SanityCheck == \A h \in TxHashes : Sane(h, ann[h])

\* The branch of RequestedTx for announcements that are not CANDIDATE_BEST "will
\* never execute" (txrequest.cpp): when it is called, nothing done since
\* GetRequestable has taken the choice back.
OnlyBestRequested ==
    call.op = "request" => \A h \in call.todo : ann[h][call.peer].state = "BEST"

\* CheckIsEmpty: an announcement belongs to a connected peer, whatever is
\* announced on its behalf while orphans are resolved.
NoStrays ==
    \A h \in TxHashes, p \in Peers : ann[h][p].state # "NONE" => p \in peers

\* MAX_PEER_TX_ANNOUNCEMENTS holds, parents of orphans included.
LimitKept == \A p \in Peers \ RelayPeers : Count(ann, p) <= MaxAnnouncements

\* A transaction is requested from a peer only once its time has come, and no
\* other peer whose time has come is a better choice.
BestIsAsked ==
    [][\A h \in TxHashes, p \in Peers :
          ann'[h][p].state = "REQUESTED" /\ ann[h][p].state # "REQUESTED" =>
             /\ ann[h][p].wait <= 0
             /\ \A q \in Peers \ {p} :
                   IsCandidate(ann[h][q]) /\ ann[h][q].wait <= 0 => Better(h, p, q)]_vars

\* The rules of txrequest.h.
StatusOf(a) ==
    IF a.state = "NONE" THEN "none"
    ELSE IF IsCandidate(a) THEN "candidate"
    ELSE IF a.state = "REQUESTED" THEN "requested"
    ELSE "failed"

Rules == INSTANCE TxRequestRules WITH
    status <- [h \in TxHashes |-> [p \in Peers |-> StatusOf(ann[h][p])]]

\* The tracker and its caller implement the rules: one outstanding request per
\* hash, none from a peer that has failed until it is forgotten and announced
\* again, and no hash kept for failures alone.
ImplementsRules == Rules!Spec

\* No candidate waits for ever: it is requested, or dropped, although others
\* may be asked first and never answer.
CandidatesServed ==
    \A h \in TxHashes, p \in Peers :
        IsCandidate(ann[h][p]) ~> ~IsCandidate(ann[h][p])
=============================================================================
