--------------------------- MODULE TxRequestRules ---------------------------
(***************************************************************************)
(* What the transaction request tracker promises its callers (the rules at *)
(* the head of txrequest.h), with no clock, no priorities and no states of *)
(* a candidate: per transaction hash, which peers have announced it, which *)
(* one has been asked for it, and which have failed.                       *)
(***************************************************************************)
CONSTANTS Peers, TxHashes

VARIABLE status     \* status[h][p]: what is known of h from p

Statuses == {"none", "candidate", "requested", "failed"}

Live(c) == {p \in Peers : c[p] \in {"candidate", "requested"}}

NothingKnown == [p \in Peers |-> "none"]

\* Only the peers in S change, and they change to s.
Becomes(c, d, S, s) == d = [p \in Peers |-> IF p \in S THEN s ELSE c[p]]

\* New announcements, of peers that have none.
Announced(c, d) ==
    \E S \in SUBSET {p \in Peers : c[p] = "none"} : Becomes(c, d, S, "candidate")

\* A request, when none is outstanding.
Requested(c, d) ==
    \E p \in Peers :
        /\ c[p] = "candidate"
        /\ \A q \in Peers : c[q] # "requested"
        /\ Becomes(c, d, {p}, "requested")

\* A failure: expiry, an answer without the transaction.
Failed(c, d) ==
    \E p \in Live(c) : Live(c) # {p} /\ Becomes(c, d, {p}, "failed")

\* A peer goes offline and others remain.
PeerGone(c, d) ==
    \E p \in Peers : ~(Live(c) \subseteq {p}) /\ Becomes(c, d, {p}, "none")

\* Everything about the hash is forgotten: it is not needed any more, or only
\* failed announcements would remain.
Forgotten(c, d) == d = NothingKnown

HashStep(c, d) ==
    d = c \/ Announced(c, d) \/ Requested(c, d) \/ Failed(c, d) \/ PeerGone(c, d)
          \/ Forgotten(c, d)

Init == status = [h \in TxHashes |-> NothingKnown]

\* One call of the tracker may move several hashes, each by one rule.
Next ==
    /\ status' \in [TxHashes -> [Peers -> Statuses]]
    /\ \A h \in TxHashes : HashStep(status[h], status'[h])

Spec == Init /\ [][Next]_status
=============================================================================
