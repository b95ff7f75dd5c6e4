------------------------------ MODULE PhotonLink ------------------------------
(***************************************************************************)
(* One link between two Photon daemons, with the clock: the timers of      *)
(* PeerManager::Tick decide when a slot connects, keeps alive, turns stale *)
(* and gives up, and a slot that gave up waits for its reconnect backoff.  *)
(* The question is whether the link always comes back after the network    *)
(* was cut, packets were lost and daemons were restarted.                  *)
(*                                                                         *)
(* Time is discrete and timers count down.  The daemon's loop wakes up far *)
(* more often than the timers run out, and a datagram travels faster than  *)
(* that: a unit of time passes only when nothing is due and nothing is in  *)
(* flight.  Datagrams may be lost and do not overtake each other here;     *)
(* PhotonSession has the network that duplicates, delays and reorders.     *)
(* Block traffic is left out: it can only refresh a slot sooner.           *)
(*                                                                         *)
(* Without reordering, a packet of the session a slot holds is either the  *)
(* next one after the last accepted or comes after a gap.  Counters are    *)
(* kept as just that: the last accepted counter is 1, the next packet has  *)
(* 2, and one after a gap 3.  (PhotonSession has the counters and their    *)
(* wrap.)  gap[n] says that a counter spent towards n since the last       *)
(* accepted packet belongs to a packet n did not accept.                   *)
(***************************************************************************)
EXTENDS PhotonSlot

CONSTANTS
    Ends,               \* the two daemons
    ConnectTimeout, KeepaliveInterval, StaleTimeout,
    InitialBackoff, MaxBackoff,    \* PeerManagerConfig
    MaxCuts,            \* bound: how often the network is cut
    MaxLosses,          \* bound: single datagrams lost
    MaxRestarts         \* bound: restarts, of both daemons together

ASSUME EndsAssumption == \E a, b \in Ends : a # b /\ Ends = {a, b}
ASSUME TimerAssumption ==
    /\ {ConnectTimeout, KeepaliveInterval, StaleTimeout} \subseteq Nat \ {0}
    /\ InitialBackoff \in Nat \ {0}
    /\ MaxBackoff \in Nat /\ MaxBackoff >= InitialBackoff
\* The defaults of PeerManagerConfig, which nothing changes, are 5 and 15 s.
ASSUME KeepaliveAssumption == KeepaliveInterval < StaleTimeout
\* The three counters this module tells apart.
ASSUME CounterRoom == CounterMax >= 3
ASSUME FaultAssumption == {MaxCuts, MaxLosses, MaxRestarts} \subseteq Nat

Other(n) == CHOOSE m \in Ends : m # n

VARIABLES
    slot,       \* the slot each daemon keeps for the other
    inc,        \* which incarnation of the daemon is running
    timer,      \* time left until the state of the slot times out
    keep,       \* time left until the next keepalive is due
    backoff,    \* PeerSlot::reconnect_backoff
    chan,       \* chan[n]: datagrams on their way to n
    gap,        \* gap[n]: the next packet to n does not continue the counter
    up,         \* whether the network between the two works
    faults,     \* faults still to come
    calm        \* time since the last fault, up to just over RecoveryTime

vars == <<slot, inc, timer, keep, backoff, chan, gap, up, faults, calm>>

LargerOf(i, j) == IF i > j THEN i ELSE j

\* How long the link may take to come back.
RecoveryTime ==
    ConnectTimeout + LargerOf(MaxBackoff, StaleTimeout + InitialBackoff)

Packets == [type : Types, session : Incarnations]

\* What the slots and their timers may be, and that a backoff stays in bounds.
TypeOK ==
    /\ slot \in [Ends -> Slots]
    /\ inc \in [Ends -> Incarnations]
    /\ timer \in [Ends -> Nat]
    /\ keep \in [Ends -> 0..KeepaliveInterval]
    /\ backoff \in [Ends -> InitialBackoff..MaxBackoff]
    /\ chan \in [Ends -> Seq(Packets)]
    /\ gap \in [Ends -> BOOLEAN]
    /\ up \in BOOLEAN
    /\ calm \in 0..(RecoveryTime + 1)
    /\ faults \in [cuts : 0..MaxCuts, losses : 0..MaxLosses, restarts : 0..MaxRestarts]

Init ==
    /\ slot = [n \in Ends |-> FreshSlot]
    /\ inc = [n \in Ends |-> 1]
    /\ timer = [n \in Ends |-> 0]
    /\ keep = [n \in Ends |-> KeepaliveInterval]
    /\ backoff = [n \in Ends |-> InitialBackoff]
    /\ chan = [n \in Ends |-> <<>>]
    /\ gap = [n \in Ends |-> FALSE]
    /\ up = TRUE
    /\ calm = 0
    /\ faults = [cuts |-> MaxCuts, losses |-> MaxLosses, restarts |-> MaxRestarts]

-----------------------------------------------------------------------------
(* Sending.  The network takes no packet while it is cut; whether the      *)
(* sender is told (an unreachable host) or not is up to the network.       *)

\* n spends a counter on a packet of the given type; ch and g are the channels
\* and gaps before that.
Send(n, type, ch, g) ==
    IF up
    THEN /\ chan' = [ch EXCEPT ![Other(n)] = Append(@, [type |-> type, session |-> inc[n]])]
         /\ gap' = g
    ELSE /\ chan' = ch
         /\ gap' = [g EXCEPT ![Other(n)] = TRUE]

-----------------------------------------------------------------------------
(* Transitions.                                                            *)

MutDoubleBackoff_NoMaximum(b) == IF b >= MaxBackoff THEN MaxBackoff ELSE 2 * b

DoubleBackoff(b) == IF 2 * b > MaxBackoff THEN MaxBackoff ELSE 2 * b

\* The wait is the backoff before it is doubled.
TransitionToDisconnected(n, s) ==
    /\ slot' = [slot EXCEPT ![n] = [s EXCEPT !.state = "Disconnected"]]
    /\ timer' = [timer EXCEPT ![n] = backoff[n]]
    /\ backoff' = [backoff EXCEPT ![n] = DoubleBackoff(@)]

-----------------------------------------------------------------------------
(* PeerManager::Tick, one action per branch.                               *)

ConnectDue(n) == slot[n].state = "Disconnected" /\ timer[n] = 0
TimeoutDue(n) == slot[n].state \in {"Connecting", "Stale"} /\ timer[n] = 0
StaleDue(n) == slot[n].state = "Active" /\ timer[n] = 0
KeepaliveDue(n) ==
    slot[n].state \in {"Active", "Stale"} /\ timer[n] # 0 /\ keep[n] = 0

TickConnect(n) ==
    /\ ConnectDue(n)
    /\ slot' = [slot EXCEPT ![n] = [EnsureLocalSession(@) EXCEPT !.state = "Connecting"]]
    /\ timer' = [timer EXCEPT ![n] = ConnectTimeout]
    /\ Send(n, "Syn", chan, gap)
    /\ UNCHANGED <<inc, keep, backoff, up, faults, calm>>

\* The peer's name does not resolve, or the Syn cannot be handed out.
TickConnectFails(n) ==
    /\ ConnectDue(n)
    /\ ~up
    /\ \/ TransitionToDisconnected(n, slot[n]) /\ UNCHANGED <<chan, gap>>
       \/ TransitionToDisconnected(n, EnsureLocalSession(slot[n])) /\ Send(n, "Syn", chan, gap)
    /\ UNCHANGED <<inc, keep, up, faults, calm>>

TickTimeout(n) ==
    /\ TimeoutDue(n)
    /\ TransitionToDisconnected(n, slot[n])
    /\ UNCHANGED <<inc, keep, chan, gap, up, faults, calm>>

TickStale(n) ==
    /\ StaleDue(n)
    /\ slot' = [slot EXCEPT ![n].state = "Stale"]
    /\ timer' = [timer EXCEPT ![n] = ConnectTimeout]
    /\ UNCHANGED <<inc, keep, backoff, chan, gap, up, faults, calm>>

TickKeepalive(n) ==
    /\ KeepaliveDue(n)
    /\ Send(n, "Keepalive", chan, gap)
    /\ keep' = [keep EXCEPT ![n] = KeepaliveInterval]
    /\ UNCHANGED <<slot, inc, timer, backoff, up, faults, calm>>

\* The keepalive cannot be handed out: it stays due, its counter is gone.
TickKeepaliveFails(n) ==
    /\ KeepaliveDue(n)
    /\ ~up
    /\ Send(n, "Keepalive", chan, gap)
    /\ UNCHANGED <<slot, inc, timer, keep, backoff, up, faults, calm>>

Tick(n) ==
    \/ TickConnect(n) \/ TickConnectFails(n) \/ TickTimeout(n) \/ TickStale(n)
    \/ TickKeepalive(n) \/ TickKeepaliveFails(n)

-----------------------------------------------------------------------------
(* PeerManager::HandleInbound.                                             *)

\* The packet n receives next, with its counter as n's slot sees it.
Arriving(n) ==
    [type |-> Head(chan[n]).type, session |-> Head(chan[n]).session,
     counter |-> IF gap[n] THEN 3 ELSE 2]

\* The slot of n before it looks at p.
Prepared(n, p) == IF p.type = "Syn" THEN EnsureLocalSession(slot[n]) ELSE slot[n]

Accepts(s, p) == Authentic(s, p) /\ (Replaces(s, p) \/ Continues(s, p))

DropInbound(n) ==
    /\ chan[n] # <<>>
    /\ ~Accepts(Prepared(n, Arriving(n)), Arriving(n))
    /\ slot' = [slot EXCEPT ![n] = Prepared(n, Arriving(n))]
    /\ chan' = [chan EXCEPT ![n] = Tail(@)]
    /\ gap' = [gap EXCEPT ![n] = TRUE]
    /\ UNCHANGED <<inc, timer, keep, backoff, up, faults, calm>>

MutHandleInbound_AnswersAnyHandshake(n) ==
    LET p == Arriving(n)
        s == TransitionOn(AcceptInboundReplayState(Prepared(n, p), p), p)
        ch == [chan EXCEPT ![n] = Tail(@)]
        g == [gap EXCEPT ![n] = FALSE]
    IN  /\ chan[n] # <<>>
        /\ Accepts(Prepared(n, p), p)
        /\ slot' = [slot EXCEPT ![n] = [s EXCEPT !.last_inbound = 1]]
        /\ IF p.type \in Handshakes THEN Send(n, "SynAck", ch, g)
           ELSE chan' = ch /\ gap' = g
        /\ backoff' = [backoff EXCEPT ![n] = InitialBackoff]
        /\ timer' = [timer EXCEPT ![n] =
              IF p.type = "Disconnect" THEN InitialBackoff ELSE StaleTimeout]
        /\ UNCHANGED <<inc, keep, up, faults, calm>>

MutHandleInbound_KeepsBackoff(n) ==
    LET p == Arriving(n)
        s == TransitionOn(AcceptInboundReplayState(Prepared(n, p), p), p)
        ch == [chan EXCEPT ![n] = Tail(@)]
        g == [gap EXCEPT ![n] = FALSE]
    IN  /\ chan[n] # <<>>
        /\ Accepts(Prepared(n, p), p)
        /\ slot' = [slot EXCEPT ![n] = [s EXCEPT !.last_inbound = 1]]
        /\ IF p.type = "Syn" THEN Send(n, "SynAck", ch, g) ELSE chan' = ch /\ gap' = g
        /\ backoff' = backoff
        /\ timer' = [timer EXCEPT ![n] =
              IF p.type = "Disconnect" THEN InitialBackoff ELSE StaleTimeout]
        /\ UNCHANGED <<inc, keep, up, faults, calm>>

\* An accepted packet makes the slot active and is its sign of life; a Syn is
\* answered at once.  A Disconnect sends the slot into its initial backoff.
HandleInbound(n) ==
    LET p == Arriving(n)
        s == TransitionOn(AcceptInboundReplayState(Prepared(n, p), p), p)
        ch == [chan EXCEPT ![n] = Tail(@)]
        g == [gap EXCEPT ![n] = FALSE]
    IN  /\ chan[n] # <<>>
        /\ Accepts(Prepared(n, p), p)
        /\ slot' = [slot EXCEPT ![n] = [s EXCEPT !.last_inbound = 1]]
        /\ IF p.type = "Syn" THEN Send(n, "SynAck", ch, g) ELSE chan' = ch /\ gap' = g
        /\ backoff' = [backoff EXCEPT ![n] = InitialBackoff]
        /\ timer' = [timer EXCEPT ![n] =
              IF p.type = "Disconnect" THEN InitialBackoff ELSE StaleTimeout]
        /\ UNCHANGED <<inc, keep, up, faults, calm>>

Inbound(n) == DropInbound(n) \/ HandleInbound(n)

-----------------------------------------------------------------------------
(* The clock, and what goes wrong.                                         *)

Elapse(t) == [n \in Ends |-> IF t[n] = 0 THEN 0 ELSE t[n] - 1]

\* A keepalive that cannot be handed out stays due while time goes on.
TimeStep ==
    /\ \A n \in Ends :
          /\ chan[n] = <<>>
          /\ ~(ConnectDue(n) \/ TimeoutDue(n) \/ StaleDue(n))
          /\ KeepaliveDue(n) => ~up
    /\ timer' = Elapse(timer)
    /\ keep' = Elapse(keep)
    /\ calm' = IF up /\ calm <= RecoveryTime THEN calm + 1 ELSE calm
    /\ UNCHANGED <<slot, inc, backoff, chan, gap, up, faults>>

Cut ==
    /\ up /\ faults.cuts > 0
    /\ up' = FALSE
    /\ chan' = [n \in Ends |-> <<>>]
    /\ gap' = [n \in Ends |-> gap[n] \/ chan[n] # <<>>]
    /\ calm' = 0
    /\ faults' = [faults EXCEPT !.cuts = @ - 1]
    /\ UNCHANGED <<slot, inc, timer, keep, backoff>>

Restore ==
    /\ ~up
    /\ up' = TRUE
    /\ UNCHANGED <<slot, inc, timer, keep, backoff, chan, gap, faults, calm>>

Lose(n) ==
    /\ faults.losses > 0
    /\ chan[n] # <<>>
    /\ chan' = [chan EXCEPT ![n] = Tail(@)]
    /\ gap' = [gap EXCEPT ![n] = TRUE]
    /\ calm' = 0
    /\ faults' = [faults EXCEPT !.losses = @ - 1]
    /\ UNCHANGED <<slot, inc, timer, keep, backoff, up>>

\* A new process: a PeerManager fresh from its constructor.
Reborn(n) ==
    /\ faults.restarts > 0
    /\ slot' = [slot EXCEPT ![n] = FreshSlot]
    /\ inc' = [inc EXCEPT ![n] = @ + 1]
    /\ timer' = [timer EXCEPT ![n] = 0]
    /\ keep' = [keep EXCEPT ![n] = KeepaliveInterval]
    /\ backoff' = [backoff EXCEPT ![n] = InitialBackoff]
    /\ calm' = 0
    /\ faults' = [faults EXCEPT !.restarts = @ - 1]
    /\ UNCHANGED up

Crash(n) == Reborn(n) /\ UNCHANGED <<chan, gap>>

\* SendDisconnectAll, then the next process starts.
Shutdown(n) ==
    /\ slot[n].state # "Disconnected"
    /\ Send(n, "Disconnect", chan, gap)
    /\ Reborn(n)

Next ==
    \/ \E n \in Ends : Tick(n) \/ Inbound(n) \/ Lose(n) \/ Crash(n) \/ Shutdown(n)
    \/ TimeStep \/ Cut \/ Restore

\* The loop of the daemon reads the socket and calls Tick forever, time goes
\* on, and a network that was cut is repaired some day.
Fairness ==
    /\ \A n \in Ends : WF_vars(Tick(n)) /\ WF_vars(Inbound(n))
    /\ WF_vars(TimeStep) /\ WF_vars(Restore)

Spec == Init /\ [][Next]_vars /\ Fairness

-----------------------------------------------------------------------------
(* Properties.                                                             *)

BothActive == \A n \in Ends : slot[n].state = "Active"

\* However the network was cut, packets lost and daemons restarted: once it has
\* worked without a fault for longer than a timeout and the longest wait, both
\* ends are active, and they stay so.
RecoversInTime == calm > RecoveryTime => BothActive

\* The ends do not answer each other's answers: a Syn is answered by a SynAck,
\* a SynAck by nothing.  Every exchange comes to an end, so time goes on and,
\* with RecoversInTime, the link always recovers.
ExchangesEnd == []<>(\A n \in Ends : chan[n] = <<>>)
===============================================================================
