---------------------------- MODULE PhotonSession ----------------------------
(***************************************************************************)
(* The session layer of the Photon block relay (contrib/photon): every     *)
(* daemon runs one PeerManager holding one PeerSlot per configured peer.   *)
(* Slots of different daemons talk over UDP, which may lose, duplicate,    *)
(* delay and reorder datagrams, and daemons may stop and start again.      *)
(*                                                                         *)
(* slot[<<n, p>>] is the slot that daemon n keeps for its peer p.          *)
(*                                                                         *)
(* Timeouts read a clock; here they may fire at any moment, which allows   *)
(* every timing.  PhotonLink has the clock.                                *)
(***************************************************************************)
EXTENDS PhotonSlot

CONSTANTS
    Nodes,            \* the daemons
    MaxIncarnation,   \* bound, per daemon: how often it is started
    SendBound         \* bound, per daemon: datagrams a process sends per link

ASSUME BoundAssumption ==
    /\ MaxIncarnation \in [Nodes -> Nat \ {0}]
    /\ SendBound \in [Nodes -> Nat]

Links == {l \in Nodes \X Nodes : l[1] # l[2]}

\* seq numbers the datagrams of one process on one link: it identifies the
\* datagram for the properties and is not part of the packet on the wire.
Packets ==
    {p \in [src : Nodes, dst : Nodes, session : Incarnations, type : Types,
            counter : Counters, seq : Nat \ {0}] : p.src # p.dst}

VARIABLES
    slot,       \* PeerManager::m_slots of every daemon
    inc,        \* which incarnation of the daemon is running
    net,        \* datagrams that have been sent and may (still) arrive
    sent,       \* datagrams the running process has sent on the link
    log         \* datagrams the running process has accepted on the link

vars == <<slot, inc, net, sent, log>>

-----------------------------------------------------------------------------
(* Actions.                                                                *)

\* The packet that the slot of link l sends next.
PacketOf(l, s, type) ==
    [src |-> l[1], dst |-> l[2], session |-> inc[l[1]], type |-> type,
     counter |-> s.next_counter, seq |-> sent[l] + 1]

Init ==
    /\ slot = [l \in Links |-> FreshSlot]
    /\ inc = [n \in Nodes |-> 1]
    /\ net = {}
    /\ sent = [l \in Links |-> 0]
    /\ log = [l \in Links |-> <<>>]

\* The slot of link l becomes s with its next counter used up by one packet
\* of the given type, which is handed to the network.
SendSignedControlMessage(l, s, type) ==
    /\ sent[l] < SendBound[l[1]]
    /\ sent' = [sent EXCEPT ![l] = @ + 1]
    /\ slot' = [slot EXCEPT ![l] = ConsumeCounter(s)]
    /\ net' = IF CanSend(s, type) THEN net \cup {PacketOf(l, s, type)} ELSE net

\* Tick, kDisconnected, once the reconnect time has come.  When the send
\* fails the counter and the session id are spent all the same.
TickConnect(l) ==
    /\ slot[l].state = "Disconnected"
    /\ LET s == EnsureLocalSession(slot[l])
       IN  \/ SendSignedControlMessage(l, [s EXCEPT !.state = "Connecting"], "Syn")
           \/ /\ sent[l] < SendBound[l[1]]
              /\ sent' = [sent EXCEPT ![l] = @ + 1]
              /\ slot' = [slot EXCEPT ![l] = ConsumeCounter(s)]
              /\ UNCHANGED net
    /\ UNCHANGED <<inc, log>>

\* Tick, kConnecting and kStale after connect_timeout.
TickTimeout(l) ==
    /\ slot[l].state \in {"Connecting", "Stale"}
    /\ slot' = [slot EXCEPT ![l].state = "Disconnected"]
    /\ UNCHANGED <<inc, net, sent, log>>

\* Tick, kActive after stale_timeout without an accepted packet.
TickStale(l) ==
    /\ slot[l].state = "Active"
    /\ slot' = [slot EXCEPT ![l].state = "Stale"]
    /\ UNCHANGED <<inc, net, sent, log>>

\* Tick, kActive and kStale: the keepalive.
TickKeepalive(l) ==
    /\ slot[l].state \in {"Active", "Stale"}
    /\ SendSignedControlMessage(l, slot[l], "Keepalive")
    /\ UNCHANGED <<inc, log>>

\* RelayEngine::PumpOutbound: a block header or chunk to an active peer.
PumpOutbound(l) ==
    /\ slot[l].state = "Active"
    /\ slot[l].local_session
    /\ SendSignedControlMessage(l, slot[l], "Block")
    /\ UNCHANGED <<inc, log>>

\* HandleInbound of a packet that is accepted; any other packet is dropped
\* and leaves the daemon as it was.
HandleInbound(p) ==
    LET l == <<p.dst, p.src>>
        s == IF p.type = "Syn" THEN EnsureLocalSession(slot[l]) ELSE slot[l]
        t == TransitionOn(AcceptInboundReplayState(s, p), p)
    IN  /\ Authentic(s, p)
        /\ Replaces(s, p) \/ Continues(s, p)
        /\ log' = [log EXCEPT ![l] = Append(@, p)]
        /\ IF p.type = "Syn" THEN SendSignedControlMessage(l, t, "SynAck")
           ELSE slot' = [slot EXCEPT ![l] = t] /\ UNCHANGED <<net, sent>>
        /\ UNCHANGED inc

\* A new process of daemon n: every slot starts fresh with a new identity.
StartProcess(n) ==
    /\ inc[n] < MaxIncarnation[n]
    /\ inc' = [inc EXCEPT ![n] = @ + 1]
    /\ slot' = [l \in Links |-> IF l[1] = n THEN FreshSlot ELSE slot[l]]
    /\ sent' = [l \in Links |-> IF l[1] = n THEN 0 ELSE sent[l]]
    /\ log' = [l \in Links |-> IF l[1] = n THEN <<>> ELSE log[l]]

\* The process dies without a word and is started again.
Crash(n) == StartProcess(n) /\ UNCHANGED net

\* The process stops in order, SendDisconnectAll, and is started again.
Shutdown(n) ==
    LET told == {l \in Links : l[1] = n /\ slot[l].state # "Disconnected"}
    IN  /\ StartProcess(n)
        /\ \A l \in told : sent[l] < SendBound[l[1]]
        /\ net' = net \cup {PacketOf(l, slot[l], "Disconnect") :
                             l \in {k \in told : CanSend(slot[k], "Disconnect")}}

Next ==
    \/ \E l \in Links :
          \/ TickConnect(l)
          \/ TickTimeout(l)
          \/ TickStale(l)
          \/ TickKeepalive(l)
          \/ PumpOutbound(l)
    \/ \E p \in net : HandleInbound(p)
    \/ \E n \in Nodes : Crash(n) \/ Shutdown(n)

Spec == Init /\ [][Next]_vars

-----------------------------------------------------------------------------
(* Properties.                                                             *)

\* Every variable has its type, and the datagrams accepted on a link are
\* datagrams the peer sent.
TypeOK ==
    /\ slot \in [Links -> Slots]
    /\ inc \in [Nodes -> Incarnations]
    /\ net \subseteq Packets
    /\ sent \in [Links -> Nat]
    /\ log \in [Links -> Seq(net)]

\* Replay protection of AcceptInboundReplayState: among the datagrams one
\* process accepts on a link, those of one remote session have strictly
\* increasing counters, whatever the network repeats or reorders.  In
\* particular none is accepted twice.
SessionOrder ==
    \A l \in Links : \A i, j \in DOMAIN log[l] :
        i < j /\ log[l][i].session = log[l][j].session =>
            log[l][i].counter < log[l][j].counter

\* A replaced session never comes back: the datagrams of one remote session
\* are accepted in one unbroken run, so nothing of a retired session, be it a
\* handshake or a session-bound packet, refreshes the slot again.
SessionContiguous ==
    \A l \in Links : \A i, j, k \in DOMAIN log[l] :
        i < j /\ j < k /\ log[l][i].session = log[l][k].session =>
            log[l][j].session = log[l][i].session

\* The first session-bound packet accepted after a session was replaced
\* continues the counter of the handshake accepted just before it
\* (require_next_inbound_counter_after_reset).
PostResetBaseline ==
    \A l \in Links : \A k \in DOMAIN log[l] :
        LET p == log[l][k] IN
        /\ p.type \notin Handshakes
        /\ p.session # log[l][1].session
        /\ \A j \in 1..(k - 1) :
              log[l][j].session = p.session => log[l][j].type \in Handshakes
        => p.counter = NextInboundCounter(log[l][k - 1].counter)

\* No datagram is accepted twice by one process, the counter's wrap included
\* (contrib/photon/RUNBOOK.md: "replayed packets are dropped before peer
\* liveness refreshes").
AcceptedOnce ==
    \A l \in Links : \A i, j \in DOMAIN log[l] :
        log[l][i] = log[l][j] => i = j

\* The identities a slot has retired are old ones (contrib/photon/RUNBOOK.md:
\* a Syn "is a deterministic restart signal" that "retires the old identity").
\* A handshake with a retired identity is refused, so the running process of a
\* peer must not be among them: the link would stay down until it is restarted.
LiveNotRetired ==
    \A l \in Links : \A i \in DOMAIN slot[l].retired :
        slot[l].retired[i] # inc[l[2]]
=============================================================================
