------------------------------ MODULE PhotonSlot ------------------------------
(***************************************************************************)
(* One PeerSlot of a Photon PeerManager (contrib/photon): its packet       *)
(* counters and sessions, and what an inbound packet does to it.  Both     *)
(* PhotonSession and PhotonLink are built from it.                         *)
(*                                                                         *)
(* A (peer_id, session_id) pair is drawn at random once per process and    *)
(* slot and never drawn again, so it is represented by the incarnation of  *)
(* the daemon that drew it (0: none).  Datagrams whose MAC does not verify *)
(* are dropped by the code without touching the slot and are left out, and *)
(* so are Ping and Pong, which no part of the daemon sends.                *)
(***************************************************************************)
EXTENDS Integers, Sequences

CONSTANTS
    CounterMax,       \* largest value of the 32-bit packet counter
    WrapGap,          \* kMaxAcceptedInboundWrapGap
    HistoryLimit      \* kRetiredRemoteIdentityHistoryLimit

ASSUME CounterAssumption ==
    /\ CounterMax \in Nat \ {0}
    /\ WrapGap \in Nat
ASSUME HistoryAssumption == HistoryLimit \in Nat \ {0}

States == {"Disconnected", "Connecting", "Active", "Stale"}
Handshakes == {"Syn", "SynAck"}
Types == Handshakes \cup {"Keepalive", "Disconnect", "Block"}
Incarnations == Nat \ {0}
Counters == 1..CounterMax

Slots == [state : States, next_counter : Counters, local_session : BOOLEAN,
          remote : Nat, last_inbound : 0..CounterMax,
          require_next : BOOLEAN, retired : Seq(Incarnations)]

-----------------------------------------------------------------------------
(* Counters.                                                               *)

NextInboundCounter(counter) == IF counter = CounterMax THEN 1 ELSE counter + 1

MutIsForward_AcceptEqual(previous, current) ==
    \/ current >= previous
    \/ (CounterMax - previous) + current <= WrapGap

IsForwardInboundCounter(previous, current) ==
    /\ current # previous
    /\ \/ current > previous
       \/ (CounterMax - previous) + current <= WrapGap

-----------------------------------------------------------------------------
(* The slot.                                                               *)

MutFreshSlot_CounterZero ==
    [state |-> "Disconnected", next_counter |-> 0, local_session |-> FALSE,
     remote |-> 0, last_inbound |-> 0, require_next |-> FALSE,
     retired |-> <<>>]

\* PeerSlot as the constructor leaves it.  last_inbound = 0 stands for
\* has_last_inbound_counter = false, remote = 0 for has_remote_identity =
\* false, local_session for local_session_id # 0.
FreshSlot ==
    [state |-> "Disconnected", next_counter |-> 1, local_session |-> FALSE,
     remote |-> 0, last_inbound |-> 0, require_next |-> FALSE,
     retired |-> <<>>]

EnsureLocalSession(s) == [s EXCEPT !.local_session = TRUE]

ConsumeCounter(s) ==
    [s EXCEPT !.next_counter = IF @ = CounterMax THEN 1 ELSE @ + 1]

\* Whether SendSignedControlMessage gets as far as handing the packet out.
CanSend(s, type) == type \in Handshakes \/ s.local_session

IsRetiredRemoteIdentity(s, session) ==
    \E i \in DOMAIN s.retired : s.retired[i] = session

MutRetire_Nothing(s) == s.retired

RetireRemoteIdentity(s) ==
    IF s.remote = 0 \/ IsRetiredRemoteIdentity(s, s.remote) THEN s.retired
    ELSE IF Len(s.retired) >= HistoryLimit
         THEN Append(Tail(s.retired), s.remote)
         ELSE Append(s.retired, s.remote)

MutReplace_NoBaseline(s, p) ==
    [s EXCEPT !.retired = RetireRemoteIdentity(s), !.remote = p.session,
              !.last_inbound = p.counter, !.require_next = FALSE]

\* ReplaceRemoteSession with require_next_non_handshake = true.
ReplaceRemoteSession(s, p) ==
    [s EXCEPT !.retired = RetireRemoteIdentity(s), !.remote = p.session,
              !.last_inbound = p.counter, !.require_next = TRUE]

-----------------------------------------------------------------------------
(* Receiving.                                                              *)

\* HandleInbound up to the MAC check.  The MAC of a non-handshake packet is
\* keyed to the sender's session, so it verifies only against the session
\* the slot holds; handshakes are not bound to a session.
Authentic(s, p) ==
    IF p.type \in Handshakes
    THEN p.type = "SynAck" => s.local_session
    ELSE s.state \in {"Active", "Stale"} /\ p.session = s.remote

MutReplaces_Retired(s, p) ==
    /\ p.type \in Handshakes
    /\ s.remote \notin {0, p.session}
    /\ p.type = "Syn" \/ s.state = "Connecting"

\* AcceptInboundReplayState, the early return that replaces the session.
Replaces(s, p) ==
    /\ p.type \in Handshakes
    /\ ~IsRetiredRemoteIdentity(s, p.session)
    /\ s.remote \notin {0, p.session}
    /\ p.type = "Syn" \/ s.state = "Connecting"

\* AcceptInboundReplayState, the path within one session.
Continues(s, p) ==
    /\ p.type \in Handshakes =>
          /\ ~IsRetiredRemoteIdentity(s, p.session)
          /\ s.remote \in {0, p.session}
    /\ s.last_inbound # 0 =>
          /\ IsForwardInboundCounter(s.last_inbound, p.counter)
          /\ s.require_next /\ p.type \notin Handshakes =>
                p.counter = NextInboundCounter(s.last_inbound)

AcceptInboundReplayState(s, p) ==
    IF Replaces(s, p) THEN ReplaceRemoteSession(s, p)
    ELSE [s EXCEPT !.remote = IF p.type \in Handshakes THEN p.session ELSE @,
                   !.last_inbound = p.counter,
                   !.require_next = @ /\ p.type \in Handshakes /\ s.remote # 0]

\* The switch over the message type.
TransitionOn(s, p) ==
    [s EXCEPT !.state =
        IF p.type = "Disconnect" THEN "Disconnected"
        ELSE IF p.type = "Block" /\ @ \notin {"Connecting", "Stale"} THEN @
        ELSE "Active"]
=============================================================================
