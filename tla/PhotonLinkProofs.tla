--------------------------- MODULE PhotonLinkProofs ---------------------------
(***************************************************************************)
(* What holds of a Photon link for every choice of timers, backoffs and    *)
(* fault budgets: its types, that it is back within RecoveryTime of the    *)
(* last fault, and that no end retires the session of the running peer.    *)
(*                                                                         *)
(* The argument for the second.  TimeLeft(n) is how long n waits, at most, *)
(* until it sends its next Syn if nothing reaches it before.  It is at     *)
(* most RecoveryTime in every state, and without faults it shrinks as time *)
(* passes and no step of Tick enlarges it.  So an end that no packet       *)
(* revives dials in time, and a dial without faults leaves both ends       *)
(* active, synchronised and with a keepalive due before they turn stale.   *)
(* An end that a packet does revive has heard from a peer that is          *)
(* synchronised with it: either the peer goes on and keeps it alive, or    *)
(* the peer itself is not revived any more and dials in time.              *)
(***************************************************************************)
EXTENDS PhotonLink, SequenceTheorems, TLAPS

-----------------------------------------------------------------------------
(* What holds in every state.                                              *)

\* A state comes with its timeout, and only a slot that heard nothing since it
\* left "Stale" has more than the initial backoff.
TimersOK(n) ==
    /\ slot[n].state = "Active" => timer[n] <= StaleTimeout
    /\ slot[n].state \in {"Connecting", "Stale"} => timer[n] <= ConnectTimeout
    /\ slot[n].state = "Disconnected" => timer[n] <= MaxBackoff
    /\ slot[n].state \in {"Active", "Stale"} => backoff[n] = InitialBackoff

\* Sessions arrive in the order of the incarnations: what n holds is not newer
\* than what is in flight to it, and what it retired is older than either.
SessionsOK(n) ==
    /\ slot[n].remote <= inc[Other(n)]
    /\ slot[n].last_inbound \in {0, 1}
    /\ \A i \in DOMAIN slot[n].retired : slot[n].retired[i] < slot[n].remote
    /\ \A i \in DOMAIN chan[n] :
          slot[n].remote <= chan[n][i].session /\ chan[n][i].session <= inc[Other(n)]
    /\ \A i, j \in DOMAIN chan[n] : i <= j => chan[n][i].session <= chan[n][j].session

\* Nothing is in flight, and no time counts as calm, while the network is cut.
CutOK == ~up => calm = 0 /\ \A n \in Ends : chan[n] = <<>>

-----------------------------------------------------------------------------
(* What holds once some time has passed since the last fault.              *)

Carries(c, type) == \E i \in DOMAIN c : c[i].type = type

InFlight(type, n) == Carries(chan[n], type)

\* Only what the running process of a peer sends while nothing goes wrong.
Undisturbed(c, session) ==
    \A i \in DOMAIN c : /\ c[i].session = session
                        /\ c[i].type \in {"Syn", "SynAck", "Keepalive"}

Sending(n) == slot[n].state \in {"Active", "Stale"}

\* n is active, accepts whatever its peer sends, and the peer's next packet
\* comes before n turns stale.
Settled(n) ==
    /\ slot[n].state = "Active"
    /\ slot[n].remote = inc[Other(n)]
    /\ gap[n] => ~slot[n].require_next
    /\ timer[n] > 0
    /\ chan[n] # <<>> \/ timer[n] > keep[Other(n)]

\* n accepts a SynAck.
Dialing(n) ==
    /\ slot[n].local_session
    /\ (slot[n].state = "Connecting" /\ timer[n] > 0) \/ Settled(n)

\* A handshake will reach n before time passes.
Expecting(n) ==
    InFlight("Syn", n) \/ InFlight("SynAck", n) \/ InFlight("Syn", Other(n))

FlightOK(n) ==
    /\ Undisturbed(chan[n], inc[Other(n)])
    /\ InFlight("Syn", Other(n)) \/ InFlight("SynAck", n) => Dialing(n)
    /\ InFlight("SynAck", Other(n)) => Settled(n)

\* Until when n dials, if it hears nothing before.
TimeLeft(n) ==
    IF slot[n].state = "Disconnected" THEN timer[n]
    ELSE IF slot[n].state = "Active" THEN timer[n] + ConnectTimeout + backoff[n]
    ELSE timer[n] + backoff[n]

OnTime(n) == calm + TimeLeft(n) <= RecoveryTime

\* n is on its way: it dials in time itself, or its silent peer does, or a
\* handshake is in flight, or it is settled and its peer keeps it so.
Recovering(n) ==
    \/ OnTime(n)
    \/ OnTime(Other(n)) /\ ~Sending(Other(n))
    \/ Expecting(n)
    \/ Settled(n) /\ (Sending(Other(n)) \/ Expecting(Other(n)))

IInv ==
    /\ TypeOK
    /\ CutOK
    /\ \A n \in Ends :
          /\ TimersOK(n)
          /\ SessionsOK(n)
          /\ calm > 0 => FlightOK(n)
          /\ Recovering(n)
          /\ calm > RecoveryTime => Settled(n)

-----------------------------------------------------------------------------
(* The two ends, and the operators of PhotonSlot.                          *)

\* There are two ends.
LEMMA OtherEnd ==
    ASSUME NEW n \in Ends
    PROVE  /\ Other(n) \in Ends
           /\ Other(n) # n
           /\ Other(Other(n)) = n
           /\ \A k \in Ends : k = n \/ k = Other(n)
  BY EndsAssumption DEF Other

\* The times of a link are natural numbers.
LEMMA Times ==
    /\ ConnectTimeout \in Nat \ {0} /\ KeepaliveInterval \in Nat \ {0}
    /\ StaleTimeout \in Nat \ {0} /\ InitialBackoff \in Nat \ {0}
    /\ MaxBackoff \in Nat /\ InitialBackoff <= MaxBackoff
    /\ RecoveryTime \in Nat
    /\ RecoveryTime >= ConnectTimeout + MaxBackoff
    /\ RecoveryTime >= ConnectTimeout + StaleTimeout + InitialBackoff
  BY TimerAssumption DEF RecoveryTime, LargerOf

\* What a slot is made of.
LEMMA SlotFields ==
    ASSUME NEW s \in Slots
    PROVE  /\ s.state \in States /\ s.next_counter \in Counters
           /\ s.local_session \in BOOLEAN /\ s.remote \in Nat
           /\ s.last_inbound \in 0..CounterMax /\ s.require_next \in BOOLEAN
           /\ s.retired \in Seq(Incarnations)
           /\ \A i \in DOMAIN s.retired : s.retired[i] \in Incarnations
  BY DEF Slots

\* The packet a slot looks at.
Seen == [type : Types, session : Incarnations, counter : {2, 3}]

\* What retiring the session a slot holds does to its history.
LEMMA Retired ==
    ASSUME NEW s \in Slots
    PROVE  /\ RetireRemoteIdentity(s) \in Seq(Incarnations)
           /\ \A i \in DOMAIN RetireRemoteIdentity(s) :
                 \/ RetireRemoteIdentity(s)[i] = s.remote
                 \/ \E j \in DOMAIN s.retired :
                       RetireRemoteIdentity(s)[i] = s.retired[j]
<1> DEFINE q == s.retired
<1>1. q \in Seq(Incarnations) /\ s.remote \in Nat
  BY SlotFields
<1>2. \A c \in Seq(Incarnations) : s.remote # 0 =>
         /\ Append(c, s.remote) \in Seq(Incarnations)
         /\ \A i \in DOMAIN Append(c, s.remote) :
               \/ Append(c, s.remote)[i] = s.remote
               \/ i \in DOMAIN c /\ Append(c, s.remote)[i] = c[i]
  BY <1>1 DEF Incarnations
<1>3. q # <<>> =>
         /\ Tail(q) \in Seq(Incarnations)
         /\ \A i \in DOMAIN Tail(q) : i + 1 \in DOMAIN q /\ Tail(q)[i] = q[i + 1]
  BY <1>1
<1>4. Len(q) >= HistoryLimit => q # <<>>
  BY <1>1, HistoryAssumption
<1>5. CASE s.remote = 0 \/ IsRetiredRemoteIdentity(s, s.remote)
  BY <1>1, <1>5 DEF RetireRemoteIdentity
<1>6. CASE ~(s.remote = 0 \/ IsRetiredRemoteIdentity(s, s.remote))
  <2>1. CASE Len(q) >= HistoryLimit
    <3>1. RetireRemoteIdentity(s) = Append(Tail(q), s.remote)
      BY <1>6, <2>1 DEF RetireRemoteIdentity
    <3> QED BY <1>2, <1>3, <1>4, <1>6, <2>1, <3>1
  <2>2. CASE ~(Len(q) >= HistoryLimit)
    <3>1. RetireRemoteIdentity(s) = Append(q, s.remote)
      BY <1>6, <2>2 DEF RetireRemoteIdentity
    <3> QED BY <1>1, <1>2, <1>6, <3>1
  <2> QED BY <2>1, <2>2
<1> QED BY <1>5, <1>6

\* The slot after an accepted packet, whose counter becomes the last one.
Taken(s, p) ==
    [TransitionOn(AcceptInboundReplayState(s, p), p) EXCEPT !.last_inbound = 1]

\* What an accepted packet makes of a slot.
LEMMA Accepted ==
    ASSUME NEW s \in Slots, NEW p \in Seen, Accepts(s, p)
    PROVE  /\ Taken(s, p) \in Slots
           /\ Taken(s, p).state = IF p.type = "Disconnect" THEN "Disconnected" ELSE "Active"
           /\ Taken(s, p).local_session = s.local_session
           /\ Taken(s, p).remote = p.session
           /\ Taken(s, p).last_inbound = 1
           /\ Taken(s, p).require_next => p.type \in Handshakes
           /\ \A i \in DOMAIN Taken(s, p).retired :
                 \/ Taken(s, p).retired[i] = s.remote /\ s.remote # p.session
                 \/ \E j \in DOMAIN s.retired : Taken(s, p).retired[i] = s.retired[j]
<1> DEFINE t == Taken(s, p)
           a == AcceptInboundReplayState(s, p)
           x == IF p.type = "Disconnect" THEN "Disconnected" ELSE "Active"
<1>0. /\ p.type \in Types /\ p.session \in Nat /\ p.counter \in Nat
      /\ 1 \in 0..CounterMax /\ x \in States
  BY CounterAssumption DEF Seen, Incarnations, States
<1>1. /\ a.state = s.state /\ a.next_counter = s.next_counter
      /\ a.local_session = s.local_session
      /\ a.remote = p.session /\ a.require_next \in BOOLEAN
      /\ a.require_next => p.type \in Handshakes
      /\ a.retired \in Seq(Incarnations)
      /\ \A i \in DOMAIN a.retired :
            \/ a.retired[i] = s.remote /\ s.remote # p.session
            \/ \E j \in DOMAIN s.retired : a.retired[i] = s.retired[j]
      /\ a = [state |-> a.state, next_counter |-> a.next_counter,
              local_session |-> a.local_session, remote |-> a.remote,
              last_inbound |-> a.last_inbound, require_next |-> a.require_next,
              retired |-> a.retired]
  <2>1. CASE Replaces(s, p)
    <3>1. p.type \in Handshakes /\ s.remote # p.session
      BY <2>1 DEF Replaces
    <3>2. a = [s EXCEPT !.retired = RetireRemoteIdentity(s), !.remote = p.session,
                        !.last_inbound = p.counter, !.require_next = TRUE]
      BY <2>1 DEF AcceptInboundReplayState, ReplaceRemoteSession
    <3>3. a.retired = RetireRemoteIdentity(s)
      BY <3>2 DEF Slots
    <3>4. /\ a.state = s.state /\ a.next_counter = s.next_counter
          /\ a.local_session = s.local_session
          /\ a.remote = p.session /\ a.require_next = TRUE
      BY <3>2 DEF Slots
    <3>5. a = [state |-> a.state, next_counter |-> a.next_counter,
               local_session |-> a.local_session, remote |-> a.remote,
               last_inbound |-> a.last_inbound, require_next |-> a.require_next,
               retired |-> a.retired]
      BY <3>2 DEF Slots
    <3> HIDE DEF a
    <3> QED BY <3>1, <3>3, <3>4, <3>5, Retired
  <2>2. CASE ~Replaces(s, p)
    <3> DEFINE r == IF p.type \in Handshakes THEN p.session ELSE s.remote
               b == s.require_next /\ p.type \in Handshakes /\ s.remote # 0
    <3>1. a = [s EXCEPT !.remote = r, !.last_inbound = p.counter, !.require_next = b]
      BY <2>2 DEF AcceptInboundReplayState, Slots
    <3>2. r = p.session
      BY DEF Accepts, Authentic
    <3>3. b \in BOOLEAN /\ (b => p.type \in Handshakes)
      OBVIOUS
    <3> HIDE DEF r, b
    <3>4. /\ a.state = s.state /\ a.next_counter = s.next_counter
          /\ a.local_session = s.local_session
          /\ a.remote = r /\ a.require_next = b /\ a.retired = s.retired
      BY <3>1 DEF Slots
    <3>5. a = [state |-> a.state, next_counter |-> a.next_counter,
               local_session |-> a.local_session, remote |-> a.remote,
               last_inbound |-> a.last_inbound, require_next |-> a.require_next,
               retired |-> a.retired]
      BY <3>1 DEF Slots
    <3> HIDE DEF a
    <3> QED BY <3>2, <3>3, <3>4, <3>5, SlotFields
  <2> QED BY <2>1, <2>2
<1>2. TransitionOn(a, p) = [a EXCEPT !.state = x]
  <2>1. p.type = "Block" => s.state \in {"Active", "Stale"}
    BY DEF Accepts, Authentic, Handshakes
  <2> HIDE DEF a
  <2>2. (p.type = "Block" /\ a.state \notin {"Connecting", "Stale"}) => a.state = "Active"
    BY <1>1, <2>1
  <2> QED BY <1>1, <2>2 DEF TransitionOn
<1> HIDE DEF x
<1>6. t = [[a EXCEPT !.state = x] EXCEPT !.last_inbound = 1]
  BY <1>2 DEF Taken
<1> HIDE DEF a, t
<1>3. /\ t.state = x /\ t.next_counter = s.next_counter
      /\ t.local_session = s.local_session /\ t.remote = p.session
      /\ t.last_inbound = 1 /\ t.require_next = a.require_next
      /\ t.retired = a.retired
  BY <1>1, <1>6
<1>4. t = [state |-> t.state, next_counter |-> t.next_counter,
           local_session |-> t.local_session, remote |-> t.remote,
           last_inbound |-> t.last_inbound, require_next |-> t.require_next,
           retired |-> t.retired]
  BY <1>1, <1>6
<1>5. t \in Slots
  BY <1>0, <1>1, <1>3, <1>4, SlotFields DEF Slots
<1> QED BY <1>1, <1>3, <1>5 DEF x, t

\* Which packets a slot accepts for sure: every Syn of a session it has not
\* retired, the SynAck it waits for, and what continues its session.
LEMMA Acceptable ==
    ASSUME NEW s \in Slots, NEW p \in Seen, s.last_inbound \in {0, 1},
           ~IsRetiredRemoteIdentity(s, p.session)
    PROVE  /\ p.type = "Syn" => Accepts(s, p)
           /\ /\ p.type = "SynAck" /\ s.local_session
              /\ s.state = "Connecting" \/ s.remote = p.session
              => Accepts(s, p)
           /\ /\ p.type = "Keepalive" /\ s.state \in {"Active", "Stale"}
              /\ s.remote = p.session
              /\ s.require_next => p.counter = 2
              => Accepts(s, p)
<1>1. /\ NextInboundCounter(1) = 2
      /\ \A c \in {2, 3} : IsForwardInboundCounter(1, c)
  BY CounterAssumption, CounterRoom DEF NextInboundCounter, IsForwardInboundCounter
<1>2. p.counter \in {2, 3}
  BY DEF Seen
<1>3. ASSUME p.type \in Handshakes, p.type = "SynAck" => s.local_session,
             p.type = "Syn" \/ s.state = "Connecting" \/ s.remote \in {0, p.session}
      PROVE  Accepts(s, p)
  <2>1. Authentic(s, p)
    BY <1>3 DEF Authentic
  <2>2. CASE s.remote \in {0, p.session}
    BY <1>1, <1>2, <1>3, <2>1, <2>2 DEF Accepts, Continues
  <2>3. CASE s.remote \notin {0, p.session}
    BY <1>3, <2>1, <2>3 DEF Accepts, Replaces
  <2> QED BY <2>2, <2>3
<1>4. ASSUME p.type = "Keepalive", s.state \in {"Active", "Stale"},
             s.remote = p.session, s.require_next => p.counter = 2
      PROVE  Accepts(s, p)
  <2>1. p.type \notin Handshakes
    BY <1>4 DEF Handshakes
  <2> QED BY <1>1, <1>2, <1>4, <2>1 DEF Accepts, Authentic, Continues
<1> QED BY <1>3, <1>4 DEF Handshakes

\* Taking a packet off a channel.
LEMMA TailPackets ==
    ASSUME NEW c \in Seq(Packets), c # <<>>
    PROVE  /\ 1 \in DOMAIN c /\ Head(c) = c[1] /\ Head(c) \in Packets
           /\ Tail(c) \in Seq(Packets)
           /\ \A i \in DOMAIN Tail(c) : i + 1 \in DOMAIN c /\ Tail(c)[i] = c[i + 1]
           /\ \A i \in DOMAIN c : i # 1 => i - 1 \in DOMAIN Tail(c)
                                           /\ Tail(c)[i - 1] = c[i]
  OBVIOUS

\* What is on a channel.
LEMMA PacketFields ==
    ASSUME NEW c \in Seq(Packets)
    PROVE  \A i \in DOMAIN c : /\ i \in Nat /\ i >= 1
                               /\ c[i] \in Packets /\ c[i].session \in Nat
<1>1. \A i \in DOMAIN c : i \in Nat /\ i >= 1 /\ c[i] \in Packets
  OBVIOUS
<1>2. \A q \in Packets : q.session \in Nat
  BY DEF Packets, Incarnations
<1> QED BY <1>1, <1>2

\* Putting one on.
LEMMA AppendPackets ==
    ASSUME NEW c \in Seq(Packets), NEW p \in Packets
    PROVE  /\ Append(c, p) \in Seq(Packets) /\ Append(c, p) # <<>>
           /\ \A i \in DOMAIN c : i \in DOMAIN Append(c, p) /\ Append(c, p)[i] = c[i]
           /\ \A i \in DOMAIN Append(c, p) : i \notin DOMAIN c => Append(c, p)[i] = p
           /\ \A i, j \in DOMAIN Append(c, p) :
                 i <= j /\ j \in DOMAIN c => i \in DOMAIN c
           /\ \E i \in DOMAIN Append(c, p) : i \notin DOMAIN c
<1>1. /\ Len(c) \in Nat /\ DOMAIN c = 1..Len(c)
      /\ DOMAIN Append(c, p) = 1..(Len(c) + 1)
  OBVIOUS
<1>2. Len(c) + 1 \in DOMAIN Append(c, p) /\ Len(c) + 1 \notin DOMAIN c
  BY <1>1
<1> QED BY <1>1, <1>2

-----------------------------------------------------------------------------
(* What the steps do.                                                      *)

\* Sending a packet: onto the channel, or lost with its counter.
LEMMA SendEffect ==
    ASSUME TypeOK, NEW n \in Ends, NEW type \in Types,
           NEW ch \in [Ends -> Seq(Packets)], NEW g \in [Ends -> BOOLEAN],
           Send(n, type, ch, g)
    PROVE  /\ chan' \in [Ends -> Seq(Packets)] /\ gap' \in [Ends -> BOOLEAN]
           /\ chan'[n] = ch[n] /\ gap'[n] = g[n]
           /\ up => /\ chan'[Other(n)] = Append(ch[Other(n)],
                                                [type |-> type, session |-> inc[n]])
                    /\ gap' = g
           /\ ~up => chan' = ch
           /\ [type |-> type, session |-> inc[n]] \in Packets
<1> DEFINE p == [type |-> type, session |-> inc[n]]
<1>1. p \in Packets
  BY DEF TypeOK, Packets
<1> HIDE DEF p
<1>2. CASE up
  <2>1. /\ chan' = [ch EXCEPT ![Other(n)] = Append(@, p)]
        /\ gap' = g
    BY <1>2 DEF Send, p
  <2>2. Append(ch[Other(n)], p) \in Seq(Packets)
    BY <1>1, OtherEnd, AppendPackets
  <2> QED BY <1>1, <1>2, <2>1, <2>2, OtherEnd DEF p
<1>3. CASE ~up
  BY <1>1, <1>3, OtherEnd DEF Send, p
<1> QED BY <1>2, <1>3

\* The packet at hand, and the slot that looks at it.
LEMMA ArrivingType ==
    ASSUME TypeOK, NEW n \in Ends, chan[n] # <<>>
    PROVE  /\ Arriving(n) \in Seen
           /\ Arriving(n).type = chan[n][1].type
           /\ Arriving(n).session = chan[n][1].session
           /\ Arriving(n).counter = 2 <=> ~gap[n]
           /\ Prepared(n, Arriving(n)) \in Slots
           /\ Prepared(n, Arriving(n)).local_session
                 <=> (Arriving(n).type = "Syn" \/ slot[n].local_session)
           /\ Prepared(n, Arriving(n)).state = slot[n].state
           /\ Prepared(n, Arriving(n)).remote = slot[n].remote
           /\ Prepared(n, Arriving(n)).last_inbound = slot[n].last_inbound
           /\ Prepared(n, Arriving(n)).require_next = slot[n].require_next
           /\ Prepared(n, Arriving(n)).retired = slot[n].retired
<1> DEFINE p == Arriving(n)
<1>1. chan[n] \in Seq(Packets) /\ gap[n] \in BOOLEAN /\ slot[n] \in Slots
  BY DEF TypeOK
<1>2. Head(chan[n]) = chan[n][1] /\ Head(chan[n]) \in Packets
  BY <1>1, TailPackets
<1>3. /\ p \in Seen /\ p.type = chan[n][1].type /\ p.session = chan[n][1].session
      /\ p.counter = 2 <=> ~gap[n]
  BY <1>1, <1>2 DEF Arriving, Packets, Seen
<1> HIDE DEF p
<1>4. CASE p.type = "Syn"
  BY <1>1, <1>3, <1>4 DEF Prepared, EnsureLocalSession, Slots, p
<1>5. CASE p.type # "Syn"
  BY <1>1, <1>3, <1>5 DEF Prepared, p
<1> QED BY <1>4, <1>5

\* An accepted packet.
LEMMA HandleEffect ==
    ASSUME TypeOK, NEW n \in Ends, HandleInbound(n)
    PROVE  /\ slot' \in [Ends -> Slots] /\ slot'[Other(n)] = slot[Other(n)]
           /\ slot'[n].state = IF Arriving(n).type = "Disconnect" THEN "Disconnected" ELSE "Active"
           /\ slot'[n].local_session <=> (Arriving(n).type = "Syn" \/ slot[n].local_session)
           /\ slot'[n].remote = Arriving(n).session
           /\ slot'[n].last_inbound = 1
           /\ \A i \in DOMAIN slot'[n].retired :
                 \/ slot'[n].retired[i] = slot[n].remote /\ slot[n].remote # Arriving(n).session
                 \/ \E j \in DOMAIN slot[n].retired :
                       slot'[n].retired[i] = slot[n].retired[j]
           /\ timer' = [timer EXCEPT ![n] =
                 IF Arriving(n).type = "Disconnect" THEN InitialBackoff ELSE StaleTimeout]
           /\ backoff' = [backoff EXCEPT ![n] = InitialBackoff]
           /\ chan' \in [Ends -> Seq(Packets)] /\ gap' \in [Ends -> BOOLEAN]
           /\ chan'[n] = Tail(chan[n]) /\ gap'[n] = FALSE
           /\ chan'[Other(n)] =
                 IF Arriving(n).type = "Syn" /\ up
                 THEN Append(chan[Other(n)], [type |-> "SynAck", session |-> inc[n]])
                 ELSE chan[Other(n)]
           /\ up => gap'[Other(n)] = gap[Other(n)]
           /\ UNCHANGED <<inc, keep, up, faults, calm>>
           /\ Accepts(Prepared(n, Arriving(n)), Arriving(n)) /\ chan[n] # <<>>
<1> DEFINE p == Arriving(n)
           s == Prepared(n, p)
           t == Taken(s, p)
           ch == [chan EXCEPT ![n] = Tail(@)]
           g == [gap EXCEPT ![n] = FALSE]
<1>0. /\ chan[n] # <<>> /\ Accepts(s, p)
      /\ slot' = [slot EXCEPT ![n] = t]
      /\ IF p.type = "Syn" THEN Send(n, "SynAck", ch, g) ELSE chan' = ch /\ gap' = g
      /\ backoff' = [backoff EXCEPT ![n] = InitialBackoff]
      /\ timer' = [timer EXCEPT ![n] =
            IF p.type = "Disconnect" THEN InitialBackoff ELSE StaleTimeout]
      /\ UNCHANGED <<inc, keep, up, faults, calm>>
  BY Zenon DEF HandleInbound, Taken
<1>1. /\ slot \in [Ends -> Slots] /\ chan \in [Ends -> Seq(Packets)]
      /\ gap \in [Ends -> BOOLEAN] /\ up \in BOOLEAN
  BY DEF TypeOK
<1>2. /\ ch \in [Ends -> Seq(Packets)] /\ g \in [Ends -> BOOLEAN]
      /\ ch[n] = Tail(chan[n]) /\ g[n] = FALSE
      /\ ch[Other(n)] = chan[Other(n)] /\ g[Other(n)] = gap[Other(n)]
  BY <1>0, <1>1, TailPackets, OtherEnd
<1>3. s \in Slots /\ p \in Seen
  BY <1>0, ArrivingType
<1> HIDE DEF s
<1>4. /\ t \in Slots
      /\ t.state = IF p.type = "Disconnect" THEN "Disconnected" ELSE "Active"
      /\ t.local_session = s.local_session
      /\ t.remote = p.session
      /\ t.last_inbound = 1
      /\ \A i \in DOMAIN t.retired :
            \/ t.retired[i] = s.remote /\ s.remote # p.session
            \/ \E j \in DOMAIN s.retired : t.retired[i] = s.retired[j]
  BY <1>0, <1>3, Accepted
<1> HIDE DEF t, ch, g
<1>5. slot'[n] = t /\ slot'[Other(n)] = slot[Other(n)] /\ slot' \in [Ends -> Slots]
  BY <1>0, <1>1, <1>4, OtherEnd
<1>6. /\ s.local_session <=> (p.type = "Syn" \/ slot[n].local_session)
      /\ s.remote = slot[n].remote /\ s.retired = slot[n].retired
  BY <1>0, ArrivingType DEF s
<1>7. /\ chan' \in [Ends -> Seq(Packets)] /\ gap' \in [Ends -> BOOLEAN]
      /\ chan'[n] = Tail(chan[n]) /\ gap'[n] = FALSE
      /\ chan'[Other(n)] =
            IF p.type = "Syn" /\ up
            THEN Append(chan[Other(n)], [type |-> "SynAck", session |-> inc[n]])
            ELSE chan[Other(n)]
      /\ up => gap'[Other(n)] = gap[Other(n)]
  <2>1. CASE p.type = "Syn"
    <3>1. Send(n, "SynAck", ch, g) /\ "SynAck" \in Types
      BY <1>0, <2>1 DEF Types, Handshakes
    <3>2. /\ chan' \in [Ends -> Seq(Packets)] /\ gap' \in [Ends -> BOOLEAN]
          /\ chan'[n] = ch[n] /\ gap'[n] = g[n]
          /\ up => /\ chan'[Other(n)] = Append(ch[Other(n)],
                                        [type |-> "SynAck", session |-> inc[n]])
                   /\ gap' = g
          /\ ~up => chan' = ch
      BY <1>2, <3>1, SendEffect
    <3> QED BY <1>1, <1>2, <2>1, <3>2
  <2>2. CASE p.type # "Syn"
    BY <1>0, <1>1, <1>2, <2>2
  <2> QED BY <2>1, <2>2
<1> HIDE DEF p
<1> QED BY <1>0, <1>4, <1>5, <1>6, <1>7 DEF s, p

\* Giving up, from any slot.
LEMMA DisconnectedEffect ==
    ASSUME TypeOK, NEW n \in Ends, NEW s \in Slots, TransitionToDisconnected(n, s)
    PROVE  /\ slot' \in [Ends -> Slots] /\ slot'[Other(n)] = slot[Other(n)]
           /\ slot'[n] = [s EXCEPT !.state = "Disconnected"]
           /\ timer' \in [Ends -> Nat] /\ timer'[Other(n)] = timer[Other(n)]
           /\ timer'[n] = backoff[n]
           /\ backoff' \in [Ends -> InitialBackoff..MaxBackoff]
           /\ backoff'[Other(n)] = backoff[Other(n)]
<1>1. /\ slot \in [Ends -> Slots] /\ timer \in [Ends -> Nat]
      /\ backoff \in [Ends -> InitialBackoff..MaxBackoff]
  BY DEF TypeOK
<1>2. [s EXCEPT !.state = "Disconnected"] \in Slots
  BY DEF Slots, States
<1>3. backoff[n] \in Nat /\ DoubleBackoff(backoff[n]) \in InitialBackoff..MaxBackoff
  BY <1>1, Times DEF DoubleBackoff
<1>4. /\ slot' = [slot EXCEPT ![n] = [s EXCEPT !.state = "Disconnected"]]
      /\ timer' = [timer EXCEPT ![n] = backoff[n]]
      /\ backoff' = [backoff EXCEPT ![n] = DoubleBackoff(backoff[n])]
  BY <1>1 DEF TransitionToDisconnected
<1> QED BY <1>1, <1>2, <1>3, <1>4, OtherEnd

\* A refused packet.
LEMMA DropEffect ==
    ASSUME TypeOK, NEW n \in Ends, DropInbound(n)
    PROVE  /\ chan[n] # <<>> /\ ~Accepts(Prepared(n, Arriving(n)), Arriving(n))
           /\ slot' \in [Ends -> Slots] /\ slot'[Other(n)] = slot[Other(n)]
           /\ slot'[n] = Prepared(n, Arriving(n))
           /\ chan' \in [Ends -> Seq(Packets)] /\ gap' \in [Ends -> BOOLEAN]
           /\ chan'[n] = Tail(chan[n]) /\ gap'[n] = TRUE
           /\ chan'[Other(n)] = chan[Other(n)] /\ gap'[Other(n)] = gap[Other(n)]
           /\ UNCHANGED <<inc, timer, keep, backoff, up, faults, calm>>
<1> DEFINE s == Prepared(n, Arriving(n))
<1>1. chan[n] # <<>> /\ ~Accepts(s, Arriving(n))
  BY Zenon DEF DropInbound
<1>2. /\ slot' = [slot EXCEPT ![n] = s]
      /\ chan' = [chan EXCEPT ![n] = Tail(chan[n])]
      /\ gap' = [gap EXCEPT ![n] = TRUE]
      /\ UNCHANGED <<inc, timer, keep, backoff, up, faults, calm>>
  BY DEF DropInbound
<1>3. s \in Slots
  BY <1>1, ArrivingType
<1>4. /\ slot \in [Ends -> Slots] /\ chan \in [Ends -> Seq(Packets)]
      /\ gap \in [Ends -> BOOLEAN]
  BY DEF TypeOK
<1>5. Tail(chan[n]) \in Seq(Packets)
  BY <1>1, <1>4, TailPackets
<1> HIDE DEF s
<1>6. /\ slot' \in [Ends -> Slots] /\ slot'[Other(n)] = slot[Other(n)] /\ slot'[n] = s
  BY <1>2, <1>3, <1>4, OtherEnd
<1>7. /\ chan' \in [Ends -> Seq(Packets)] /\ chan'[n] = Tail(chan[n])
      /\ chan'[Other(n)] = chan[Other(n)]
  BY <1>2, <1>4, <1>5, OtherEnd
<1>8. /\ gap' \in [Ends -> BOOLEAN] /\ gap'[n] = TRUE /\ gap'[Other(n)] = gap[Other(n)]
  BY <1>2, <1>4, OtherEnd
<1> QED BY <1>1, <1>2, <1>6, <1>7, <1>8 DEF s

\* A new process.
LEMMA RebornEffect ==
    ASSUME TypeOK, NEW n \in Ends, Reborn(n)
    PROVE  /\ slot' \in [Ends -> Slots] /\ slot'[Other(n)] = slot[Other(n)]
           /\ slot'[n] = FreshSlot
           /\ inc' \in [Ends -> Incarnations] /\ inc'[Other(n)] = inc[Other(n)]
           /\ inc'[n] = inc[n] + 1
           /\ timer' \in [Ends -> Nat] /\ timer'[Other(n)] = timer[Other(n)]
           /\ timer'[n] = 0
           /\ keep' \in [Ends -> 0..KeepaliveInterval]
           /\ backoff' \in [Ends -> InitialBackoff..MaxBackoff]
           /\ backoff'[Other(n)] = backoff[Other(n)]
           /\ calm' = 0 /\ up' = up
           /\ faults' \in [cuts : 0..MaxCuts, losses : 0..MaxLosses,
                           restarts : 0..MaxRestarts]
<1>1. FreshSlot \in Slots
  BY CounterAssumption DEF FreshSlot, Slots, States, Counters
<1>2. /\ slot \in [Ends -> Slots] /\ inc \in [Ends -> Incarnations]
      /\ timer \in [Ends -> Nat] /\ keep \in [Ends -> 0..KeepaliveInterval]
      /\ backoff \in [Ends -> InitialBackoff..MaxBackoff]
      /\ faults \in [cuts : 0..MaxCuts, losses : 0..MaxLosses, restarts : 0..MaxRestarts]
  BY DEF TypeOK
<1>3. /\ KeepaliveInterval \in 0..KeepaliveInterval
      /\ InitialBackoff \in InitialBackoff..MaxBackoff
      /\ inc[n] + 1 \in Incarnations
  BY <1>2, Times DEF Incarnations
<1>4. /\ slot' = [slot EXCEPT ![n] = FreshSlot]
      /\ inc' = [inc EXCEPT ![n] = inc[n] + 1]
      /\ timer' = [timer EXCEPT ![n] = 0]
      /\ keep' = [keep EXCEPT ![n] = KeepaliveInterval]
      /\ backoff' = [backoff EXCEPT ![n] = InitialBackoff]
      /\ calm' = 0 /\ up' = up
      /\ faults.restarts > 0
      /\ faults' = [faults EXCEPT !.restarts = faults.restarts - 1]
  BY DEF Reborn
<1>5. /\ slot' \in [Ends -> Slots] /\ slot'[Other(n)] = slot[Other(n)]
      /\ slot'[n] = FreshSlot
  BY <1>1, <1>2, <1>4, OtherEnd
<1>6. /\ inc' \in [Ends -> Incarnations] /\ inc'[Other(n)] = inc[Other(n)]
      /\ inc'[n] = inc[n] + 1
  BY <1>2, <1>3, <1>4, OtherEnd
<1>7. /\ timer' \in [Ends -> Nat] /\ timer'[Other(n)] = timer[Other(n)]
      /\ timer'[n] = 0
      /\ keep' \in [Ends -> 0..KeepaliveInterval]
      /\ backoff' \in [Ends -> InitialBackoff..MaxBackoff]
      /\ backoff'[Other(n)] = backoff[Other(n)]
  BY <1>2, <1>3, <1>4, OtherEnd
<1>8. faults' \in [cuts : 0..MaxCuts, losses : 0..MaxLosses, restarts : 0..MaxRestarts]
  BY <1>2, <1>4, FaultAssumption
<1> QED BY <1>4, <1>5, <1>6, <1>7, <1>8

\* Opening a local session changes nothing else.
LEMMA EnsuredType ==
    ASSUME NEW s \in Slots
    PROVE  /\ EnsureLocalSession(s) \in Slots
           /\ EnsureLocalSession(s).remote = s.remote
           /\ EnsureLocalSession(s).last_inbound = s.last_inbound
           /\ EnsureLocalSession(s).retired = s.retired
           /\ EnsureLocalSession(s).local_session = TRUE
  BY DEF EnsureLocalSession, Slots

\* Changing the state of a slot changes nothing else.
LEMMA StateType ==
    ASSUME NEW s \in Slots, NEW st \in States
    PROVE  /\ [s EXCEPT !.state = st] \in Slots
           /\ [s EXCEPT !.state = st].state = st
           /\ [s EXCEPT !.state = st].remote = s.remote
           /\ [s EXCEPT !.state = st].last_inbound = s.last_inbound
           /\ [s EXCEPT !.state = st].retired = s.retired
           /\ [s EXCEPT !.state = st].local_session = s.local_session
           /\ [s EXCEPT !.state = st].require_next = s.require_next
  BY DEF Slots

\* Dialling.
LEMMA ConnectEffect ==
    ASSUME TypeOK, NEW n \in Ends, TickConnect(n)
    PROVE  /\ slot' \in [Ends -> Slots] /\ slot'[Other(n)] = slot[Other(n)]
           /\ slot'[n].state = "Connecting" /\ slot'[n].local_session = TRUE
           /\ slot'[n].remote = slot[n].remote
           /\ slot'[n].last_inbound = slot[n].last_inbound
           /\ slot'[n].retired = slot[n].retired
           /\ timer' \in [Ends -> Nat] /\ timer'[Other(n)] = timer[Other(n)]
           /\ timer'[n] = ConnectTimeout
           /\ Send(n, "Syn", chan, gap)
           /\ slot[n].state = "Disconnected" /\ timer[n] = 0
           /\ UNCHANGED <<inc, keep, backoff, up, faults, calm>>
<1> DEFINE e == EnsureLocalSession(slot[n])
           s == [e EXCEPT !.state = "Connecting"]
<1>1. slot \in [Ends -> Slots] /\ timer \in [Ends -> Nat] /\ slot[n] \in Slots
  BY DEF TypeOK
<1>2. /\ slot' = [slot EXCEPT ![n] = s]
      /\ timer' = [timer EXCEPT ![n] = ConnectTimeout]
      /\ Send(n, "Syn", chan, gap)
      /\ slot[n].state = "Disconnected" /\ timer[n] = 0
      /\ UNCHANGED <<inc, keep, backoff, up, faults, calm>>
  BY <1>1 DEF TickConnect, ConnectDue
<1>3. /\ s \in Slots /\ s.state = "Connecting" /\ s.local_session = TRUE
      /\ s.remote = slot[n].remote /\ s.last_inbound = slot[n].last_inbound
      /\ s.retired = slot[n].retired
  <2>1. /\ e \in Slots /\ e.remote = slot[n].remote
        /\ e.last_inbound = slot[n].last_inbound /\ e.retired = slot[n].retired
        /\ e.local_session = TRUE /\ "Connecting" \in States
    BY <1>1, EnsuredType DEF States
  <2> HIDE DEF e
  <2> QED BY <2>1, StateType
<1> HIDE DEF s
<1>4. slot'[n] = s /\ slot'[Other(n)] = slot[Other(n)] /\ slot' \in [Ends -> Slots]
  BY <1>1, <1>2, <1>3, OtherEnd
<1>5. /\ timer' \in [Ends -> Nat] /\ timer'[Other(n)] = timer[Other(n)]
      /\ timer'[n] = ConnectTimeout
  BY <1>1, <1>2, Times, OtherEnd
<1> QED BY <1>2, <1>3, <1>4, <1>5

\* Turning stale.
LEMMA StaleEffect ==
    ASSUME TypeOK, NEW n \in Ends, TickStale(n)
    PROVE  /\ slot' \in [Ends -> Slots] /\ slot'[Other(n)] = slot[Other(n)]
           /\ slot'[n] = [slot[n] EXCEPT !.state = "Stale"]
           /\ timer' \in [Ends -> Nat] /\ timer'[Other(n)] = timer[Other(n)]
           /\ timer'[n] = ConnectTimeout
           /\ slot[n].state = "Active" /\ timer[n] = 0
           /\ UNCHANGED <<inc, keep, backoff, chan, gap, up, faults, calm>>
<1>1. slot \in [Ends -> Slots] /\ timer \in [Ends -> Nat] /\ slot[n] \in Slots
  BY DEF TypeOK
<1>2. /\ slot' = [slot EXCEPT ![n] = [slot[n] EXCEPT !.state = "Stale"]]
      /\ timer' = [timer EXCEPT ![n] = ConnectTimeout]
      /\ slot[n].state = "Active" /\ timer[n] = 0
      /\ UNCHANGED <<inc, keep, backoff, chan, gap, up, faults, calm>>
  BY <1>1 DEF TickStale, StaleDue
<1>3. [slot[n] EXCEPT !.state = "Stale"] \in Slots
  BY <1>1, StateType DEF States
<1> QED BY <1>1, <1>2, <1>3, Times, OtherEnd

\* A packet lost on the way.
LEMMA LoseEffect ==
    ASSUME TypeOK, NEW n \in Ends, Lose(n)
    PROVE  /\ chan[n] # <<>>
           /\ chan' \in [Ends -> Seq(Packets)] /\ gap' \in [Ends -> BOOLEAN]
           /\ chan'[n] = Tail(chan[n]) /\ chan'[Other(n)] = chan[Other(n)]
           /\ calm' = 0
           /\ faults' \in [cuts : 0..MaxCuts, losses : 0..MaxLosses,
                           restarts : 0..MaxRestarts]
           /\ UNCHANGED <<slot, inc, timer, keep, backoff, up>>
<1>1. /\ chan \in [Ends -> Seq(Packets)] /\ gap \in [Ends -> BOOLEAN]
      /\ faults \in [cuts : 0..MaxCuts, losses : 0..MaxLosses, restarts : 0..MaxRestarts]
  BY DEF TypeOK
<1>2. /\ chan[n] # <<>> /\ faults.losses > 0
      /\ chan' = [chan EXCEPT ![n] = Tail(chan[n])]
      /\ gap' = [gap EXCEPT ![n] = TRUE]
      /\ faults' = [faults EXCEPT !.losses = faults.losses - 1]
      /\ calm' = 0
      /\ UNCHANGED <<slot, inc, timer, keep, backoff, up>>
  BY DEF Lose
<1>3. Tail(chan[n]) \in Seq(Packets)
  BY <1>1, <1>2, TailPackets
<1>4. /\ chan' \in [Ends -> Seq(Packets)]
      /\ chan'[n] = Tail(chan[n]) /\ chan'[Other(n)] = chan[Other(n)]
  BY <1>1, <1>2, <1>3, OtherEnd
<1>5. gap' \in [Ends -> BOOLEAN]
  BY <1>1, <1>2
<1>6. faults' \in [cuts : 0..MaxCuts, losses : 0..MaxLosses, restarts : 0..MaxRestarts]
  <2>1. faults.losses - 1 \in 0..MaxLosses
    BY <1>1, <1>2, FaultAssumption
  <2> QED BY <1>1, <1>2, <2>1
<1> QED BY <1>2, <1>4, <1>5, <1>6

\* Time passing.
LEMMA TimeEffect ==
    ASSUME TypeOK, TimeStep
    PROVE  /\ timer' \in [Ends -> Nat] /\ keep' \in [Ends -> 0..KeepaliveInterval]
           /\ \A n \in Ends :
                 /\ chan[n] = <<>>
                 /\ timer[n] > 0 /\ timer'[n] = timer[n] - 1
                 /\ keep'[n] = IF keep[n] = 0 THEN 0 ELSE keep[n] - 1
                 /\ up /\ Sending(n) => keep[n] > 0
           /\ calm' \in 0..(RecoveryTime + 1)
           /\ calm' <= calm + 1 /\ (up \/ calm' = calm)
           /\ UNCHANGED <<slot, inc, backoff, chan, gap, up, faults>>
<1>1. /\ timer \in [Ends -> Nat] /\ keep \in [Ends -> 0..KeepaliveInterval]
      /\ calm \in 0..(RecoveryTime + 1) /\ \A n \in Ends : slot[n].state \in States
  <2>1. \A n \in Ends : slot[n] \in Slots
    BY DEF TypeOK
  <2>2. \A n \in Ends : slot[n].state \in States
    BY <2>1, SlotFields
  <2> QED BY <2>2 DEF TypeOK
<1>2. /\ timer' = [n \in Ends |-> IF timer[n] = 0 THEN 0 ELSE timer[n] - 1]
      /\ keep' = [n \in Ends |-> IF keep[n] = 0 THEN 0 ELSE keep[n] - 1]
      /\ UNCHANGED <<slot, inc, backoff, chan, gap, up, faults>>
  BY DEF TimeStep, Elapse
<1>3. ASSUME NEW n \in Ends
      PROVE  /\ chan[n] = <<>> /\ timer[n] > 0
             /\ up /\ Sending(n) => keep[n] > 0
  <2>1. /\ chan[n] = <<>>
        /\ ~(ConnectDue(n) \/ TimeoutDue(n) \/ StaleDue(n))
        /\ KeepaliveDue(n) => ~up
    BY DEF TimeStep
  <2>2. timer[n] # 0
    BY <1>1, <2>1 DEF ConnectDue, TimeoutDue, StaleDue, States
  <2> QED BY <1>1, <2>1, <2>2 DEF KeepaliveDue, Sending
<1>4. /\ calm' \in 0..(RecoveryTime + 1)
      /\ calm' <= calm + 1 /\ (up \/ calm' = calm)
  <2>1. calm' = IF up /\ calm <= RecoveryTime THEN calm + 1 ELSE calm
    BY DEF TimeStep
  <2> QED BY <1>1, <2>1, Times
<1>5. timer' \in [Ends -> Nat]
  BY <1>1, <1>2
<1>6. keep' \in [Ends -> 0..KeepaliveInterval]
  <2>1. ASSUME NEW n \in Ends
        PROVE  (IF keep[n] = 0 THEN 0 ELSE keep[n] - 1) \in 0..KeepaliveInterval
    <3>1. keep[n] \in 0..KeepaliveInterval /\ KeepaliveInterval \in Nat
      BY <1>1, Times
    <3> QED BY <3>1
  <2> QED BY <1>2, <2>1
<1> QED BY <1>1, <1>2, <1>3, <1>4, <1>5, <1>6

-----------------------------------------------------------------------------
(* Type correctness.                                                       *)

\* Every step keeps the types.
LEMMA TypeStep == TypeOK /\ [Next]_vars => TypeOK'
<1> SUFFICES ASSUME TypeOK, [Next]_vars PROVE TypeOK'
  OBVIOUS
<1>0. /\ slot \in [Ends -> Slots] /\ inc \in [Ends -> Incarnations]
      /\ timer \in [Ends -> Nat] /\ keep \in [Ends -> 0..KeepaliveInterval]
      /\ backoff \in [Ends -> InitialBackoff..MaxBackoff]
      /\ chan \in [Ends -> Seq(Packets)] /\ gap \in [Ends -> BOOLEAN]
      /\ up \in BOOLEAN /\ calm \in 0..(RecoveryTime + 1)
      /\ faults \in [cuts : 0..MaxCuts, losses : 0..MaxLosses, restarts : 0..MaxRestarts]
      /\ {"Syn", "SynAck", "Keepalive", "Disconnect"} \subseteq Types
      /\ 0 \in 0..(RecoveryTime + 1)
  BY Times DEF TypeOK, Types, Handshakes
<1>1. ASSUME NEW n \in Ends, TickConnect(n) PROVE TypeOK'
  <2>1. /\ slot' \in [Ends -> Slots] /\ timer' \in [Ends -> Nat]
        /\ Send(n, "Syn", chan, gap)
        /\ UNCHANGED <<inc, keep, backoff, up, faults, calm>>
    BY <1>1, ConnectEffect
  <2>2. chan' \in [Ends -> Seq(Packets)] /\ gap' \in [Ends -> BOOLEAN]
    BY <1>0, <2>1, SendEffect
  <2> QED BY <1>0, <2>1, <2>2 DEF TypeOK
<1>2. ASSUME NEW n \in Ends, TickConnectFails(n) PROVE TypeOK'
  <2>1. UNCHANGED <<inc, keep, up, faults, calm>>
    BY <1>2 DEF TickConnectFails
  <2>2. slot[n] \in Slots /\ EnsureLocalSession(slot[n]) \in Slots
    BY <1>0, EnsuredType
  <2>3. \/ TransitionToDisconnected(n, slot[n])
        \/ TransitionToDisconnected(n, EnsureLocalSession(slot[n]))
    BY <1>2 DEF TickConnectFails
  <2>4. /\ slot' \in [Ends -> Slots] /\ timer' \in [Ends -> Nat]
        /\ backoff' \in [Ends -> InitialBackoff..MaxBackoff]
    BY <2>2, <2>3, DisconnectedEffect
  <2>5. UNCHANGED <<chan, gap>> \/ Send(n, "Syn", chan, gap)
    BY <1>2 DEF TickConnectFails
  <2>6. chan' \in [Ends -> Seq(Packets)] /\ gap' \in [Ends -> BOOLEAN]
    BY <1>0, <2>5, SendEffect
  <2> QED BY <1>0, <2>1, <2>4, <2>6 DEF TypeOK
<1>3. ASSUME NEW n \in Ends, TickTimeout(n) PROVE TypeOK'
  <2>1. /\ TransitionToDisconnected(n, slot[n]) /\ slot[n] \in Slots
        /\ UNCHANGED <<inc, keep, chan, gap, up, faults, calm>>
    BY <1>0, <1>3 DEF TickTimeout
  <2>2. /\ slot' \in [Ends -> Slots] /\ timer' \in [Ends -> Nat]
        /\ backoff' \in [Ends -> InitialBackoff..MaxBackoff]
    BY <2>1, DisconnectedEffect
  <2> QED BY <1>0, <2>1, <2>2 DEF TypeOK
<1>4. ASSUME NEW n \in Ends, TickStale(n) PROVE TypeOK'
  <2>1. /\ slot' \in [Ends -> Slots] /\ timer' \in [Ends -> Nat]
        /\ UNCHANGED <<inc, keep, backoff, chan, gap, up, faults, calm>>
    BY <1>4, StaleEffect
  <2> QED BY <1>0, <2>1 DEF TypeOK
<1>5. ASSUME NEW n \in Ends, TickKeepalive(n) \/ TickKeepaliveFails(n) PROVE TypeOK'
  <2>1. /\ Send(n, "Keepalive", chan, gap)
        /\ keep' = [keep EXCEPT ![n] = KeepaliveInterval] \/ keep' = keep
        /\ UNCHANGED <<slot, inc, timer, backoff, up, faults, calm>>
    BY <1>5 DEF TickKeepalive, TickKeepaliveFails
  <2>2. chan' \in [Ends -> Seq(Packets)] /\ gap' \in [Ends -> BOOLEAN]
    BY <1>0, <2>1, SendEffect
  <2>3. keep' \in [Ends -> 0..KeepaliveInterval]
    <3>1. KeepaliveInterval \in 0..KeepaliveInterval
      BY Times
    <3> QED BY <1>0, <2>1, <3>1
  <2> QED BY <1>0, <2>1, <2>2, <2>3 DEF TypeOK
<1>6. ASSUME NEW n \in Ends, HandleInbound(n) PROVE TypeOK'
  <2> DEFINE p == Arriving(n)
  <2>1. /\ slot' \in [Ends -> Slots]
        /\ timer' = [timer EXCEPT ![n] =
              IF p.type = "Disconnect" THEN InitialBackoff ELSE StaleTimeout]
        /\ backoff' = [backoff EXCEPT ![n] = InitialBackoff]
        /\ chan' \in [Ends -> Seq(Packets)] /\ gap' \in [Ends -> BOOLEAN]
        /\ UNCHANGED <<inc, keep, up, faults, calm>>
    BY <1>6, HandleEffect
  <2>2. timer' \in [Ends -> Nat] /\ backoff' \in [Ends -> InitialBackoff..MaxBackoff]
    BY <1>0, <2>1, Times
  <2> QED BY <1>0, <2>1, <2>2 DEF TypeOK
<1>7. ASSUME NEW n \in Ends, DropInbound(n) PROVE TypeOK'
  <2>1. /\ slot' \in [Ends -> Slots]
        /\ chan' \in [Ends -> Seq(Packets)] /\ gap' \in [Ends -> BOOLEAN]
        /\ UNCHANGED <<inc, timer, keep, backoff, up, faults, calm>>
    BY <1>7, DropEffect
  <2> QED BY <1>0, <2>1 DEF TypeOK
<1>8. ASSUME NEW n \in Ends, Lose(n) PROVE TypeOK'
  <2>1. /\ chan' \in [Ends -> Seq(Packets)] /\ gap' \in [Ends -> BOOLEAN]
        /\ faults' \in [cuts : 0..MaxCuts, losses : 0..MaxLosses,
                        restarts : 0..MaxRestarts]
        /\ calm' = 0
        /\ UNCHANGED <<slot, inc, timer, keep, backoff, up>>
    BY <1>8, LoseEffect
  <2> QED BY <1>0, <2>1 DEF TypeOK
<1>9. ASSUME NEW n \in Ends, Crash(n) \/ Shutdown(n) PROVE TypeOK'
  <2>1. Reborn(n)
    BY <1>9 DEF Crash, Shutdown
  <2>2. /\ slot' \in [Ends -> Slots] /\ inc' \in [Ends -> Incarnations]
        /\ timer' \in [Ends -> Nat] /\ keep' \in [Ends -> 0..KeepaliveInterval]
        /\ backoff' \in [Ends -> InitialBackoff..MaxBackoff]
        /\ calm' = 0 /\ up' = up
        /\ faults' \in [cuts : 0..MaxCuts, losses : 0..MaxLosses,
                        restarts : 0..MaxRestarts]
    BY <2>1, RebornEffect
  <2>3. UNCHANGED <<chan, gap>> \/ Send(n, "Disconnect", chan, gap)
    BY <1>9 DEF Crash, Shutdown
  <2>4. chan' \in [Ends -> Seq(Packets)] /\ gap' \in [Ends -> BOOLEAN]
    BY <1>0, <2>3, SendEffect
  <2> QED BY <1>0, <2>2, <2>4 DEF TypeOK
<1>10. ASSUME TimeStep PROVE TypeOK'
  <2>1. /\ timer' \in [Ends -> Nat] /\ keep' \in [Ends -> 0..KeepaliveInterval]
        /\ calm' \in 0..(RecoveryTime + 1)
        /\ UNCHANGED <<slot, inc, backoff, chan, gap, up, faults>>
    BY <1>10, TimeEffect
  <2> QED BY <1>0, <2>1 DEF TypeOK
<1>11. ASSUME Cut PROVE TypeOK'
  <2>1. /\ chan' = [n \in Ends |-> <<>>] /\ up' = FALSE /\ calm' = 0
        /\ gap' = [n \in Ends |-> gap[n] \/ chan[n] # <<>>]
        /\ faults.cuts > 0 /\ faults' = [faults EXCEPT !.cuts = faults.cuts - 1]
        /\ UNCHANGED <<slot, inc, timer, keep, backoff>>
    BY <1>11 DEF Cut
  <2>2. gap' \in [Ends -> BOOLEAN]
    BY <1>0, <2>1
  <2>3. chan' \in [Ends -> Seq(Packets)]
    BY <2>1
  <2>4. faults' \in [cuts : 0..MaxCuts, losses : 0..MaxLosses, restarts : 0..MaxRestarts]
    <3>1. faults.cuts - 1 \in 0..MaxCuts
      BY <1>0, <2>1, FaultAssumption
    <3> QED BY <1>0, <2>1, <3>1
  <2> QED BY <1>0, <2>1, <2>2, <2>3, <2>4 DEF TypeOK
<1>12. ASSUME Restore PROVE TypeOK'
  BY <1>0, <1>12 DEF Restore, TypeOK
<1>13. ASSUME UNCHANGED vars PROVE TypeOK'
  BY <1>0, <1>13 DEF vars, TypeOK
<1> QED
  BY <1>1, <1>2, <1>3, <1>4, <1>5, <1>6, <1>7, <1>8, <1>9, <1>10, <1>11, <1>12, <1>13
  DEF Next, Tick, Inbound

\* The initial state has the types.
LEMMA TypeInit == Init => TypeOK
<1> SUFFICES ASSUME Init PROVE TypeOK
  OBVIOUS
<1>1. FreshSlot \in Slots
  BY CounterAssumption DEF FreshSlot, Slots, States, Counters
<1> QED BY <1>1, Times, FaultAssumption DEF Init, TypeOK, Incarnations

\* TypeOK: the slots, timers and channels of a link keep their types, and
\* TransitionToDisconnected's doubled backoff stays between initial_backoff and
\* max_backoff.
THEOREM TypeCorrect == Spec => []TypeOK
<1> QED BY TypeInit, TypeStep, PTL DEF Spec

-----------------------------------------------------------------------------
(* Timers, sessions and the cut network.                                   *)

\* Every step keeps the timers within their timeouts.
LEMMA TimersStep ==
    ASSUME TypeOK, \A n \in Ends : TimersOK(n), [Next]_vars, NEW k \in Ends
    PROVE  TimersOK(k)'
<1>0. /\ TimersOK(k) /\ slot[k] \in Slots /\ slot[k].state \in States
      /\ timer[k] \in Nat /\ backoff[k] \in InitialBackoff..MaxBackoff
  BY SlotFields DEF TypeOK
<1>1. ASSUME NEW n \in Ends, TickConnect(n) PROVE TimersOK(k)'
  <2>1. CASE k = n
    <3>1. slot'[k].state = "Connecting" /\ timer'[k] = ConnectTimeout
      BY <1>1, <2>1, ConnectEffect
    <3> QED BY <3>1, Times DEF TimersOK
  <2>2. CASE k = Other(n)
    BY <1>0, <1>1, <2>2, ConnectEffect DEF TimersOK
  <2> QED BY <2>1, <2>2, OtherEnd
<1>2. ASSUME NEW n \in Ends, NEW s \in Slots, TransitionToDisconnected(n, s)
      PROVE  TimersOK(k)'
  <2>1. CASE k = n
    <3>1. slot'[k].state = "Disconnected" /\ timer'[k] = backoff[k]
      BY <1>2, <2>1, DisconnectedEffect DEF Slots
    <3> QED BY <1>0, <3>1, Times DEF TimersOK
  <2>2. CASE k = Other(n)
    BY <1>0, <1>2, <2>2, DisconnectedEffect DEF TimersOK
  <2> QED BY <2>1, <2>2, OtherEnd
<1>3. ASSUME NEW n \in Ends, TickConnectFails(n) \/ TickTimeout(n) PROVE TimersOK(k)'
  <2>1. slot[n] \in Slots /\ EnsureLocalSession(slot[n]) \in Slots
    BY EnsuredType DEF TypeOK
  <2>2. \/ TransitionToDisconnected(n, slot[n])
        \/ TransitionToDisconnected(n, EnsureLocalSession(slot[n]))
    BY <1>3 DEF TickConnectFails, TickTimeout
  <2> QED BY <1>2, <2>1, <2>2
<1>4. ASSUME NEW n \in Ends, TickStale(n) PROVE TimersOK(k)'
  <2>1. CASE k = n
    <3>1. /\ slot'[k] = [slot[k] EXCEPT !.state = "Stale"]
          /\ timer'[k] = ConnectTimeout
          /\ backoff' = backoff /\ slot[k].state = "Active"
      BY <1>4, <2>1, StaleEffect
    <3>2. slot'[k].state = "Stale"
      BY <1>0, <3>1 DEF Slots
    <3> QED BY <1>0, <3>1, <3>2, Times DEF TimersOK
  <2>2. CASE k = Other(n)
    BY <1>0, <1>4, <2>2, StaleEffect DEF TimersOK
  <2> QED BY <2>1, <2>2, OtherEnd
<1>5. ASSUME NEW n \in Ends, TickKeepalive(n) \/ TickKeepaliveFails(n)
      PROVE  TimersOK(k)'
  BY <1>0, <1>5 DEF TickKeepalive, TickKeepaliveFails, TimersOK
<1>6. ASSUME NEW n \in Ends, HandleInbound(n) PROVE TimersOK(k)'
  <2> DEFINE p == Arriving(n)
  <2>1. /\ slot'[Other(n)] = slot[Other(n)]
        /\ slot'[n].state = IF p.type = "Disconnect" THEN "Disconnected" ELSE "Active"
        /\ timer' = [timer EXCEPT ![n] =
              IF p.type = "Disconnect" THEN InitialBackoff ELSE StaleTimeout]
        /\ backoff' = [backoff EXCEPT ![n] = InitialBackoff]
    BY <1>6, HandleEffect
  <2> HIDE DEF p
  <2>2. timer \in [Ends -> Nat] /\ backoff \in [Ends -> InitialBackoff..MaxBackoff]
    BY DEF TypeOK
  <2>3. CASE k = n
    BY <2>1, <2>2, <2>3, Times DEF TimersOK
  <2>4. CASE k = Other(n)
    BY <1>0, <2>1, <2>2, <2>4, OtherEnd DEF TimersOK
  <2> QED BY <2>3, <2>4, OtherEnd
<1>7. ASSUME NEW n \in Ends, DropInbound(n) PROVE TimersOK(k)'
  <2>1. CASE k = n
    <3>0. /\ chan[n] # <<>> /\ slot'[n] = Prepared(n, Arriving(n))
          /\ UNCHANGED <<timer, backoff>>
      BY <1>7, DropEffect
    <3>1. slot'[k].state = slot[k].state
      BY <2>1, <3>0, ArrivingType
    <3> QED BY <1>0, <3>0, <3>1 DEF TimersOK
  <2>2. CASE k = Other(n)
    BY <1>0, <1>7, <2>2, DropEffect DEF TimersOK
  <2> QED BY <2>1, <2>2, OtherEnd
<1>8. ASSUME NEW n \in Ends, Lose(n) PROVE TimersOK(k)'
  BY <1>0, <1>8 DEF Lose, TimersOK
<1>9. ASSUME NEW n \in Ends, Crash(n) \/ Shutdown(n) PROVE TimersOK(k)'
  <2>1. Reborn(n)
    BY <1>9 DEF Crash, Shutdown
  <2>2. CASE k = n
    <3>1. slot'[k].state = "Disconnected" /\ timer'[k] = 0
      BY <2>1, <2>2, RebornEffect DEF FreshSlot
    <3> QED BY <3>1, Times DEF TimersOK
  <2>3. CASE k = Other(n)
    BY <1>0, <2>1, <2>3, RebornEffect DEF TimersOK
  <2> QED BY <2>2, <2>3, OtherEnd
<1>10. ASSUME TimeStep PROVE TimersOK(k)'
  <2>1. timer'[k] = timer[k] - 1 /\ UNCHANGED <<slot, backoff>>
    BY <1>10, TimeEffect
  <2> QED BY <1>0, <2>1, Times DEF TimersOK
<1>11. ASSUME Cut \/ Restore \/ UNCHANGED vars PROVE TimersOK(k)'
  BY <1>0, <1>11 DEF Cut, Restore, vars, TimersOK
<1> QED
  BY <1>1, <1>3, <1>4, <1>5, <1>6, <1>7, <1>8, <1>9, <1>10, <1>11
  DEF Next, Tick, Inbound

\* The sessions of an end, one by one.
LEMMA SessionsMade ==
    ASSUME NEW k \in Ends,
           slot'[k].remote <= inc'[Other(k)],
           slot'[k].last_inbound \in {0, 1},
           \A i \in DOMAIN slot'[k].retired : slot'[k].retired[i] < slot'[k].remote,
           \A i \in DOMAIN chan'[k] :
              slot'[k].remote <= chan'[k][i].session /\ chan'[k][i].session <= inc'[Other(k)],
           \A i, j \in DOMAIN chan'[k] : i <= j => chan'[k][i].session <= chan'[k][j].session
    PROVE  SessionsOK(k)'
  BY Zenon DEF SessionsOK

\* What leaves the session of k and its order alone: the channel to k may lose
\* packets and gain one of the peer that is running.
LEMMA SessionsFrame ==
    ASSUME TypeOK, TypeOK', NEW k \in Ends, SessionsOK(k),
           slot'[k].remote = slot[k].remote,
           slot'[k].last_inbound = slot[k].last_inbound,
           slot'[k].retired = slot[k].retired,
           inc[Other(k)] <= inc'[Other(k)],
           \/ chan'[k] = chan[k]
           \/ chan'[k] = <<>>
           \/ chan[k] # <<>> /\ chan'[k] = Tail(chan[k])
           \/ \E p \in Packets : p.session = inc[Other(k)] /\ chan'[k] = Append(chan[k], p)
    PROVE  SessionsOK(k)'
<1> DEFINE r == slot[k].remote
           o == inc[Other(k)]
           Ordered(c, hi) ==
              /\ \A i \in DOMAIN c : r <= c[i].session /\ c[i].session <= hi
              /\ \A i, j \in DOMAIN c : i <= j => c[i].session <= c[j].session
<1>1. /\ chan[k] \in Seq(Packets) /\ chan'[k] \in Seq(Packets) /\ r \in Nat /\ o \in Nat
      /\ inc'[Other(k)] \in Nat /\ r <= o
  <2>1. slot[k] \in Slots /\ Other(k) \in Ends
    BY OtherEnd DEF TypeOK
  <2>2. r \in Nat /\ r <= o
    BY <2>1, SlotFields DEF SessionsOK
  <2> QED BY <2>1, <2>2 DEF TypeOK, Incarnations
<1>2. \A q \in Packets : q.session \in Nat
  BY DEF Packets, Incarnations
<1>3. Ordered(chan[k], o)
  BY DEF SessionsOK
<1>4. Ordered(chan'[k], o)
  <2>1. CASE chan'[k] = chan[k] \/ chan'[k] = <<>>
    BY <1>3, <2>1
  <2>2. CASE chan[k] # <<>> /\ chan'[k] = Tail(chan[k])
    <3> HIDE DEF r, o
    <3> QED BY <1>1, <1>3, <2>2, TailPackets
  <2>3. ASSUME NEW p \in Packets, p.session = o, chan'[k] = Append(chan[k], p)
        PROVE  Ordered(chan'[k], o)
    <3> HIDE DEF r, o
    <3> DEFINE c == chan[k]
               d == Append(c, p)
    <3>1. /\ \A i \in DOMAIN c : d[i] = c[i] /\ c[i].session \in Nat
          /\ \A i \in DOMAIN d : i \notin DOMAIN c => d[i] = p
          /\ \A i, j \in DOMAIN d : i <= j /\ j \in DOMAIN c => i \in DOMAIN c
      BY <1>1, AppendPackets, PacketFields
    <3>2. Ordered(c, o)
      BY <1>3
    <3> HIDE DEF c, d
    <3>3. Ordered(d, o)
      BY <1>1, <2>3, <3>1, <3>2
    <3> QED BY <2>3, <3>3 DEF c, d
  <2> QED BY <2>1, <2>2, <2>3
<1>5. Ordered(chan'[k], inc'[Other(k)])
  <2> DEFINE c == chan'[k]
             h == inc'[Other(k)]
  <2>1. \A i \in DOMAIN c : c[i].session \in Nat
    BY <1>1, PacketFields
  <2>2. o \in Nat /\ h \in Nat /\ o <= h /\ Ordered(c, o)
    BY <1>1, <1>4
  <2> HIDE DEF r, o, c, h
  <2>3. Ordered(c, h)
    BY <2>1, <2>2
  <2> QED BY <2>3 DEF c, h
<1>6. r <= inc'[Other(k)]
  <2> HIDE DEF r, o
  <2> QED BY <1>1 DEF o
<1>7. /\ slot[k].last_inbound \in {0, 1}
      /\ \A i \in DOMAIN slot[k].retired : slot[k].retired[i] < r
  BY DEF SessionsOK
<1>8. slot'[k].remote = r
  OBVIOUS
<1>9. /\ \A i \in DOMAIN chan'[k] : r <= chan'[k][i].session
                                    /\ chan'[k][i].session <= inc'[Other(k)]
      /\ \A i, j \in DOMAIN chan'[k] : i <= j => chan'[k][i].session <= chan'[k][j].session
  BY <1>5
<1> HIDE DEF r, o
<1> QED BY <1>6, <1>7, <1>8, <1>9, SessionsMade

\* Every step keeps the sessions in order.
LEMMA SessionsStep ==
    ASSUME TypeOK, TypeOK', \A n \in Ends : SessionsOK(n), CutOK, [Next]_vars,
           NEW k \in Ends
    PROVE  SessionsOK(k)'
<1>0. /\ SessionsOK(k) /\ slot[k] \in Slots /\ inc \in [Ends -> Incarnations]
      /\ inc[Other(k)] \in Nat
      /\ chan \in [Ends -> Seq(Packets)] /\ gap \in [Ends -> BOOLEAN]
      /\ {"Syn", "SynAck", "Keepalive", "Disconnect"} \subseteq Types
  BY OtherEnd DEF TypeOK, Incarnations, Types, Handshakes
<1>1. ASSUME NEW n \in Ends, NEW type \in Types, Send(n, type, chan, gap)
      PROVE  \/ chan'[k] = chan[k]
             \/ \E p \in Packets : p.session = inc[Other(k)]
                                    /\ chan'[k] = Append(chan[k], p)
  <2>1. CASE k = n
    BY <1>0, <1>1, <2>1, SendEffect
  <2>2. CASE k = Other(n)
    <3> DEFINE p == [type |-> type, session |-> inc[n]]
    <3>1. /\ chan'[Other(n)] = Append(chan[Other(n)], p) \/ chan'[Other(n)] = chan[Other(n)]
          /\ p \in Packets
      BY <1>0, <1>1, SendEffect
    <3>2. p.session = inc[Other(k)]
      BY <2>2, OtherEnd
    <3> HIDE DEF p
    <3> QED BY <2>2, <3>1, <3>2
  <2> QED BY <2>1, <2>2, OtherEnd
<1>2. ASSUME NEW n \in Ends, Tick(n) PROVE SessionsOK(k)'
  <2>1. inc' = inc
    BY <1>2 DEF Tick, TickConnect, TickConnectFails, TickTimeout, TickStale,
                TickKeepalive, TickKeepaliveFails
  <2>2. \/ chan'[k] = chan[k]
        \/ \E p \in Packets : p.session = inc[Other(k)]
                               /\ chan'[k] = Append(chan[k], p)
    <3>1. \/ chan' = chan
          \/ Send(n, "Syn", chan, gap) \/ Send(n, "Keepalive", chan, gap)
      BY <1>2 DEF Tick, TickConnect, TickConnectFails, TickTimeout, TickStale,
                  TickKeepalive, TickKeepaliveFails
    <3> QED BY <1>0, <1>1, <3>1
  <2>3. ASSUME NEW s \in Slots, TransitionToDisconnected(n, s),
               s.remote = slot[n].remote, s.last_inbound = slot[n].last_inbound,
               s.retired = slot[n].retired
        PROVE  /\ slot'[k].remote = slot[k].remote
               /\ slot'[k].last_inbound = slot[k].last_inbound
               /\ slot'[k].retired = slot[k].retired
    <3>1. slot'[Other(n)] = slot[Other(n)] /\ slot'[n] = [s EXCEPT !.state = "Disconnected"]
      BY <2>3, DisconnectedEffect
    <3>2. CASE k = n
      BY <2>3, <3>1, <3>2 DEF Slots
    <3> QED BY <3>1, <3>2, OtherEnd
  <2>4. /\ slot'[k].remote = slot[k].remote
        /\ slot'[k].last_inbound = slot[k].last_inbound
        /\ slot'[k].retired = slot[k].retired
    <3>1. CASE TickConnect(n)
      <4>1. CASE k = n
        BY <3>1, <4>1, ConnectEffect
      <4>2. CASE k = Other(n)
        BY <3>1, <4>2, ConnectEffect
      <4> QED BY <4>1, <4>2, OtherEnd
    <3>2. CASE TickConnectFails(n) \/ TickTimeout(n)
      <4>1. slot[n] \in Slots
        BY DEF TypeOK
      <4>2. /\ EnsureLocalSession(slot[n]) \in Slots
            /\ EnsureLocalSession(slot[n]).remote = slot[n].remote
            /\ EnsureLocalSession(slot[n]).last_inbound = slot[n].last_inbound
            /\ EnsureLocalSession(slot[n]).retired = slot[n].retired
        BY <4>1, EnsuredType
      <4>3. \/ TransitionToDisconnected(n, slot[n])
            \/ TransitionToDisconnected(n, EnsureLocalSession(slot[n]))
        BY <3>2 DEF TickConnectFails, TickTimeout
      <4> QED BY <2>3, <4>1, <4>2, <4>3
    <3>3. CASE TickStale(n)
      <4>1. /\ slot'[Other(n)] = slot[Other(n)]
            /\ slot'[n] = [slot[n] EXCEPT !.state = "Stale"]
        BY <3>3, StaleEffect
      <4>2. CASE k = n
        BY <1>0, <4>1, <4>2 DEF Slots
      <4> QED BY <4>1, <4>2, OtherEnd
    <3>4. CASE TickKeepalive(n) \/ TickKeepaliveFails(n)
      BY <3>4 DEF TickKeepalive, TickKeepaliveFails
    <3> QED BY <1>2, <3>1, <3>2, <3>3, <3>4 DEF Tick
  <2> QED BY <1>0, <2>1, <2>2, <2>4, SessionsFrame
<1>3. ASSUME NEW n \in Ends, HandleInbound(n) PROVE SessionsOK(k)'
  <2> DEFINE p == Arriving(n)
  <2>1. /\ slot'[Other(n)] = slot[Other(n)] /\ inc' = inc
        /\ slot'[n].remote = p.session /\ slot'[n].last_inbound = 1
        /\ \A i \in DOMAIN slot'[n].retired :
              \/ slot'[n].retired[i] = slot[n].remote /\ slot[n].remote # p.session
              \/ \E j \in DOMAIN slot[n].retired :
                    slot'[n].retired[i] = slot[n].retired[j]
        /\ chan'[n] = Tail(chan[n]) /\ chan[n] # <<>>
        /\ chan'[Other(n)] =
              IF p.type = "Syn" /\ up
              THEN Append(chan[Other(n)], [type |-> "SynAck", session |-> inc[n]])
              ELSE chan[Other(n)]
    BY <1>3, HandleEffect
  <2>2. CASE k = n
    <3> DEFINE c == chan[k]
               r == slot[k].remote
               v == c[1].session
    <3>1. c \in Seq(Packets) /\ c # <<>> /\ p.session = v
      BY <1>0, <2>1, <2>2, ArrivingType
    <3>2. /\ 1 \in DOMAIN c /\ \A i \in DOMAIN c : i >= 1 /\ c[i].session \in Nat
      BY <3>1, TailPackets, PacketFields
    <3>3. /\ r <= v /\ v <= inc[Other(k)] /\ r \in Nat /\ v \in Nat
      BY <1>0, <3>1, <3>2, SlotFields DEF SessionsOK
    <3>4. \A j \in DOMAIN slot[k].retired :
             slot[k].retired[j] \in Nat /\ slot[k].retired[j] < r
      BY <1>0, SlotFields DEF SessionsOK, Incarnations
    <3>5. \A i \in DOMAIN slot'[k].retired : slot'[k].retired[i] < v
      <4> TAKE i \in DOMAIN slot'[k].retired
      <4>1. \/ slot'[k].retired[i] = r /\ r # v
            \/ \E j \in DOMAIN slot[k].retired : slot'[k].retired[i] = slot[k].retired[j]
        BY <2>1, <2>2, <3>1
      <4> HIDE DEF r, v, p
      <4> QED BY <3>3, <3>4, <4>1
    <3>6. /\ \A i \in DOMAIN c : v <= c[i].session /\ c[i].session <= inc[Other(k)]
          /\ \A i, j \in DOMAIN c : i <= j => c[i].session <= c[j].session
      BY <1>0, <3>2 DEF SessionsOK
    <3>7. \A i \in DOMAIN Tail(c) : i \in Nat /\ i + 1 \in DOMAIN c /\ Tail(c)[i] = c[i + 1]
      <4> HIDE DEF c, v, r, p
      <4>1. Tail(c) \in Seq(Packets)
        BY <3>1, TailPackets
      <4>2. \A i \in DOMAIN Tail(c) : i \in Nat
        BY <4>1, PacketFields
      <4>3. \A i \in DOMAIN Tail(c) : i + 1 \in DOMAIN c /\ Tail(c)[i] = c[i + 1]
        BY <3>1, TailPackets
      <4> QED BY <4>2, <4>3
    <3>8. /\ \A i \in DOMAIN Tail(c) :
                v <= Tail(c)[i].session /\ Tail(c)[i].session <= inc[Other(k)]
          /\ \A i, j \in DOMAIN Tail(c) : i <= j => Tail(c)[i].session <= Tail(c)[j].session
      <4> DEFINE d == Tail(c)
      <4>1. \A i \in DOMAIN d : i \in Nat /\ i + 1 \in DOMAIN c /\ d[i] = c[i + 1]
        BY <3>7
      <4> HIDE DEF c, v, d, r, p
      <4>2. ASSUME NEW i \in DOMAIN d
            PROVE  v <= d[i].session /\ d[i].session <= inc[Other(k)]
        BY <3>6, <4>1
      <4>3. ASSUME NEW i \in DOMAIN d, NEW j \in DOMAIN d, i <= j
            PROVE  d[i].session <= d[j].session
        <5>1. i + 1 <= j + 1
          BY <4>1, <4>3
        <5> QED BY <3>6, <4>1, <5>1
      <4> QED BY <4>2, <4>3 DEF d
    <3>9. slot'[k].remote = v /\ chan'[k] = Tail(c) /\ slot'[k].last_inbound = 1
      BY <2>1, <2>2, <3>1
    <3> HIDE DEF c, v, r, p
    <3>10. inc'[Other(k)] = inc[Other(k)]
      BY <2>1
    <3> QED BY <3>3, <3>5, <3>8, <3>9, <3>10, SessionsMade
  <2>3. CASE k = Other(n)
    <3>1. [type |-> "SynAck", session |-> inc[n]] \in Packets
      BY <1>0 DEF Packets
    <3>2. n = Other(k)
      BY <2>3, OtherEnd
    <3>3. [type |-> "SynAck", session |-> inc[n]].session = inc[Other(k)]
      BY <3>2
    <3>4. \/ chan'[k] = chan[k]
          \/ chan'[k] = Append(chan[k], [type |-> "SynAck", session |-> inc[n]])
      BY <2>1, <2>3
    <3>5. \/ chan'[k] = chan[k]
          \/ \E q \in Packets : q.session = inc[Other(k)]
                                 /\ chan'[k] = Append(chan[k], q)
      BY <3>1, <3>3, <3>4
    <3>6. slot'[k] = slot[k] /\ inc' = inc
      BY <2>1, <2>3
    <3>7. inc[Other(k)] <= inc'[Other(k)]
      BY <1>0, <3>6
    <3> HIDE DEF p
    <3> QED BY <1>0, <3>5, <3>6, <3>7, SessionsFrame
  <2> QED BY <2>2, <2>3, OtherEnd
<1>4. ASSUME NEW n \in Ends, DropInbound(n) PROVE SessionsOK(k)'
  <2>1. /\ slot'[Other(n)] = slot[Other(n)] /\ inc' = inc
        /\ slot'[n] = Prepared(n, Arriving(n)) /\ chan[n] # <<>>
        /\ chan'[n] = Tail(chan[n]) /\ chan'[Other(n)] = chan[Other(n)]
    BY <1>4, DropEffect
  <2>2. /\ slot'[k].remote = slot[k].remote
        /\ slot'[k].last_inbound = slot[k].last_inbound
        /\ slot'[k].retired = slot[k].retired
    <3>1. CASE k = n
      BY <1>0, <2>1, <3>1, ArrivingType
    <3>2. CASE k = Other(n)
      BY <2>1, <3>2
    <3> QED BY <3>1, <3>2, OtherEnd
  <2>3. chan'[k] = chan[k] \/ (chan[k] # <<>> /\ chan'[k] = Tail(chan[k]))
    BY <2>1, OtherEnd
  <2>4. inc[Other(k)] <= inc'[Other(k)]
    BY <1>0, <2>1
  <2> QED BY <1>0, <2>2, <2>3, <2>4, SessionsFrame
<1>5. ASSUME NEW n \in Ends, Lose(n) PROVE SessionsOK(k)'
  <2>1. /\ slot' = slot /\ inc' = inc /\ chan[n] # <<>>
        /\ chan'[n] = Tail(chan[n]) /\ chan'[Other(n)] = chan[Other(n)]
    BY <1>5, LoseEffect
  <2>2. chan'[k] = chan[k] \/ (chan[k] # <<>> /\ chan'[k] = Tail(chan[k]))
    BY <2>1, OtherEnd
  <2>3. slot'[k] = slot[k] /\ inc[Other(k)] <= inc'[Other(k)]
    BY <1>0, <2>1
  <2> QED BY <1>0, <2>2, <2>3, SessionsFrame
<1>6. ASSUME NEW n \in Ends, Crash(n) \/ Shutdown(n) PROVE SessionsOK(k)'
  <2>1. Reborn(n) /\ (chan' = chan \/ Send(n, "Disconnect", chan, gap))
    BY <1>6 DEF Crash, Shutdown
  <2>2. /\ slot'[n] = FreshSlot /\ slot'[Other(n)] = slot[Other(n)]
        /\ inc'[n] = inc[n] + 1 /\ inc'[Other(n)] = inc[Other(n)]
    BY <2>1, RebornEffect
  <2>3. chan'[n] = chan[n]
    BY <1>0, <2>1, SendEffect
  <2>4. CASE k = n
    <3>1. /\ slot'[k].remote = 0 /\ slot'[k].last_inbound = 0 /\ slot'[k].retired = <<>>
      BY <2>2, <2>4 DEF FreshSlot
    <3>2. \A i \in DOMAIN chan[k] : chan[k][i].session \in Nat
      BY <1>0, PacketFields
    <3>3. inc'[Other(k)] = inc[Other(k)] /\ chan'[k] = chan[k] /\ inc[Other(k)] \in Nat
      BY <1>0, <2>2, <2>3, <2>4
    <3>4. /\ \A i \in DOMAIN chan[k] : chan[k][i].session <= inc[Other(k)]
          /\ \A i, j \in DOMAIN chan[k] : i <= j => chan[k][i].session <= chan[k][j].session
      BY <1>0 DEF SessionsOK
    <3>5. \A i \in DOMAIN chan[k] : 0 <= chan[k][i].session
      BY <3>2
    <3>6. 0 <= inc[Other(k)]
      BY <3>3
    <3>7. \A i \in DOMAIN slot'[k].retired : slot'[k].retired[i] < slot'[k].remote
      BY <3>1
    <3> QED BY <3>1, <3>3, <3>4, <3>5, <3>6, <3>7, SessionsMade
  <2>5. CASE k = Other(n)
    <3>1. inc[Other(k)] <= inc'[Other(k)]
      <4>1. Other(k) = n
        BY <2>5, OtherEnd
      <4>2. inc'[Other(k)] = inc[Other(k)] + 1 /\ inc[Other(k)] \in Nat
        BY <1>0, <2>2, <4>1
      <4> QED BY <4>2
    <3>2. \/ chan'[k] = chan[k]
          \/ \E p \in Packets : p.session = inc[Other(k)]
                                 /\ chan'[k] = Append(chan[k], p)
      BY <1>0, <1>1, <2>1
    <3> QED BY <1>0, <2>2, <2>5, <3>1, <3>2, SessionsFrame
  <2> QED BY <2>4, <2>5, OtherEnd
<1>7. ASSUME TimeStep \/ Cut \/ Restore \/ UNCHANGED vars PROVE SessionsOK(k)'
  <2>1. /\ slot' = slot /\ inc' = inc
        /\ chan' = chan \/ chan' = [n \in Ends |-> <<>>]
    BY <1>7 DEF TimeStep, Cut, Restore, vars
  <2> QED BY <1>0, <2>1, SessionsFrame
<1> QED BY <1>2, <1>3, <1>4, <1>5, <1>6, <1>7 DEF Next, Inbound

\* Every step keeps a cut network silent.
LEMMA CutStep ==
    ASSUME TypeOK, TypeOK', CutOK, [Next]_vars
    PROVE  CutOK'
<1>0. chan \in [Ends -> Seq(Packets)] /\ gap \in [Ends -> BOOLEAN] /\ up \in BOOLEAN
      /\ {"Syn", "SynAck", "Keepalive", "Disconnect"} \subseteq Types
  BY DEF TypeOK, Types, Handshakes
<1>1. ASSUME NEW n \in Ends, Tick(n) PROVE CutOK'
  <2>1. /\ up' = up /\ calm' = calm
        /\ chan' = chan \/ Send(n, "Syn", chan, gap) \/ Send(n, "Keepalive", chan, gap)
    BY <1>1 DEF Tick, TickConnect, TickConnectFails, TickTimeout, TickStale,
                TickKeepalive, TickKeepaliveFails
  <2> QED BY <1>0, <2>1, SendEffect DEF CutOK
<1>2. ASSUME NEW n \in Ends, Inbound(n) \/ Lose(n) PROVE CutOK'
  <2>1. chan[n] # <<>>
    BY <1>2 DEF Inbound, HandleInbound, DropInbound, Lose
  <2>2. up' = up
    BY <1>2 DEF Inbound, HandleInbound, DropInbound, Lose
  <2> QED BY <2>1, <2>2 DEF CutOK
<1>3. ASSUME NEW n \in Ends, Crash(n) \/ Shutdown(n) PROVE CutOK'
  <2>1. /\ up' = up /\ calm' = 0
        /\ chan' = chan \/ Send(n, "Disconnect", chan, gap)
    BY <1>3 DEF Crash, Shutdown, Reborn
  <2> QED BY <1>0, <2>1, SendEffect DEF CutOK
<1>4. ASSUME TimeStep PROVE CutOK'
  <2>1. UNCHANGED <<chan, up>> /\ (up \/ calm' = calm)
    BY <1>4, TimeEffect
  <2> QED BY <2>1 DEF CutOK
<1>5. ASSUME Cut \/ Restore \/ UNCHANGED vars PROVE CutOK'
  BY <1>5 DEF Cut, Restore, vars, CutOK
<1> QED BY <1>1, <1>2, <1>3, <1>4, <1>5 DEF Next

-----------------------------------------------------------------------------
(* Recovery.                                                               *)

\* At a fault, every end still dials in time.
LEMMA AtFault ==
    TypeOK /\ (\A n \in Ends : TimersOK(n)) /\ calm = 0 => \A n \in Ends : Recovering(n)
<1> SUFFICES ASSUME TypeOK, NEW n \in Ends, TimersOK(n), calm = 0
             PROVE  Recovering(n)
  OBVIOUS
<1>1. slot[n].state \in States
  <2>1. slot[n] \in Slots
    BY DEF TypeOK
  <2> QED BY <2>1, SlotFields
<1>2. timer[n] \in Nat /\ backoff[n] \in InitialBackoff..MaxBackoff
  BY DEF TypeOK
<1>3. TimeLeft(n) \in Nat /\ TimeLeft(n) <= RecoveryTime
  BY <1>1, <1>2, Times DEF TimersOK, TimeLeft, States
<1> QED BY <1>3 DEF Recovering, OnTime

\* What a channel carries after one more packet, and after one less.
LEMMA CarriesAppend ==
    ASSUME NEW c \in Seq(Packets), NEW p \in Packets, NEW type
    PROVE  Carries(Append(c, p), type) <=> (Carries(c, type) \/ p.type = type)
<1> DEFINE d == Append(c, p)
<1>1. /\ \A i \in DOMAIN c : i \in DOMAIN d /\ d[i] = c[i]
      /\ \A i \in DOMAIN d : i \notin DOMAIN c => d[i] = p
      /\ \E i \in DOMAIN d : i \notin DOMAIN c
  BY AppendPackets
<1> HIDE DEF d
<1> QED BY <1>1 DEF Carries, d

LEMMA CarriesTail ==
    ASSUME NEW c \in Seq(Packets), c # <<>>, NEW type
    PROVE  /\ Carries(Tail(c), type) => Carries(c, type)
           /\ Carries(c, type) => c[1].type = type \/ Carries(Tail(c), type)
<1> DEFINE d == Tail(c)
<1>1. /\ \A i \in DOMAIN d : i + 1 \in DOMAIN c /\ d[i] = c[i + 1]
      /\ \A i \in DOMAIN c : i # 1 => i - 1 \in DOMAIN d /\ d[i - 1] = c[i]
  BY TailPackets
<1> HIDE DEF d
<1> QED BY <1>1 DEF Carries, d

LEMMA UndisturbedStep ==
    ASSUME NEW c \in Seq(Packets), NEW o, Undisturbed(c, o)
    PROVE  /\ c # <<>> => Undisturbed(Tail(c), o)
           /\ \A p \in Packets :
                 p.session = o /\ p.type \in {"Syn", "SynAck", "Keepalive"}
                    => Undisturbed(Append(c, p), o)
<1>1. c # <<>> => Undisturbed(Tail(c), o)
  BY TailPackets DEF Undisturbed
<1>2. ASSUME NEW p \in Packets,
             p.session = o, p.type \in {"Syn", "SynAck", "Keepalive"}
      PROVE  Undisturbed(Append(c, p), o)
  <2> DEFINE d == Append(c, p)
  <2>1. /\ \A i \in DOMAIN c : d[i] = c[i]
        /\ \A i \in DOMAIN d : i \notin DOMAIN c => d[i] = p
    BY AppendPackets
  <2> HIDE DEF d
  <2> QED BY <1>2, <2>1 DEF Undisturbed, d
<1> QED BY <1>1, <1>2

\* What leaves an end settled or dialling: nothing happens to it, and its peer
\* spends its keepalive only by sending one.
LEMMA SettledFrame ==
    ASSUME NEW k \in Ends, slot'[k] = slot[k], inc' = inc, gap'[k] = gap[k],
           timer'[k] = timer[k],
           chan'[k] # <<>> \/ (chan'[k] = chan[k] /\ keep'[Other(k)] = keep[Other(k)])
    PROVE  /\ Settled(k) => Settled(k)'
           /\ Dialing(k) => Dialing(k)'
  BY DEF Settled, Dialing

\* Dialling: both ends expect a handshake.
LEMMA CalmConnect ==
    ASSUME IInv, calm > 0, NEW n \in Ends, TickConnect(n)
    PROVE  \A k \in Ends : FlightOK(k)' /\ Recovering(k)'
<1> DEFINE m == Other(n)
           p == [type |-> "Syn", session |-> inc[n]]
<1>0. /\ m \in Ends /\ Other(m) = n /\ m # n /\ \A k \in Ends : k = n \/ k = m
      /\ Other(n) = m
  BY OtherEnd
<1>1. /\ TypeOK /\ up /\ FlightOK(n) /\ FlightOK(m)
      /\ chan \in [Ends -> Seq(Packets)] /\ gap \in [Ends -> BOOLEAN]
      /\ chan[n] \in Seq(Packets) /\ chan[m] \in Seq(Packets)
      /\ "Syn" \in Types
  <2>1. TypeOK /\ CutOK /\ \A k \in Ends : Recovering(k) /\ FlightOK(k)
    BY DEF IInv
  <2>2. up
    BY <2>1 DEF CutOK
  <2> QED BY <1>0, <2>1, <2>2 DEF TypeOK, Types, Handshakes
<1>2. /\ slot'[m] = slot[m] /\ timer'[m] = timer[m]
      /\ slot'[n].state = "Connecting" /\ slot'[n].local_session = TRUE
      /\ timer'[n] = ConnectTimeout /\ slot[n].state = "Disconnected"
      /\ Send(n, "Syn", chan, gap)
      /\ UNCHANGED <<inc, keep, backoff, up, faults, calm>>
  BY <1>1, ConnectEffect
<1>3. /\ chan'[n] = chan[n] /\ chan'[m] = Append(chan[m], p) /\ gap' = gap
      /\ p \in Packets
  BY <1>1, <1>2, SendEffect
<1>4. p.type = "Syn" /\ p.session = inc[n]
  OBVIOUS
<1> HIDE DEF m, p
<1>5. \A ty : /\ Carries(chan'[n], ty) <=> Carries(chan[n], ty)
              /\ Carries(chan'[m], ty) <=> (Carries(chan[m], ty) \/ ty = "Syn")
  <2>1. ASSUME NEW ty
        PROVE  Carries(Append(chan[m], p), ty) <=> (Carries(chan[m], ty) \/ p.type = ty)
    BY <1>1, <1>3, CarriesAppend
  <2> QED BY <1>3, <1>4, <2>1
<1>6. Undisturbed(chan'[n], inc'[m]) /\ Undisturbed(chan'[m], inc'[n])
  BY <1>0, <1>1, <1>2, <1>3, <1>4, UndisturbedStep DEF FlightOK
<1>7. chan'[m] # <<>>
  BY <1>1, <1>3, AppendPackets
<1>8. /\ Settled(m) => Settled(m)'
      /\ Dialing(m) => Dialing(m)'
  BY <1>0, <1>2, <1>3, <1>7, SettledFrame
<1>9. FlightOK(n)'
  <2>1. Dialing(n)'
    BY <1>2, Times DEF Dialing
  <2>2. ~Carries(chan'[m], "SynAck")
    BY <1>0, <1>1, <1>2, <1>5 DEF FlightOK, InFlight, Settled
  <2> QED BY <1>0, <1>6, <2>1, <2>2 DEF FlightOK, InFlight
<1>10. FlightOK(m)'
  BY <1>0, <1>1, <1>5, <1>6, <1>8 DEF FlightOK, InFlight
<1>11. Expecting(n)' /\ Expecting(m)'
  BY <1>0, <1>5 DEF Expecting, InFlight
<1> QED BY <1>0, <1>9, <1>10, <1>11 DEF Recovering

\* An end that is about to hear nothing moves on towards its next dial.
LEMMA CalmDecline ==
    ASSUME IInv, calm > 0, NEW n \in Ends, ~Settled(n), ~Dialing(n),
           slot'[Other(n)] = slot[Other(n)], timer'[Other(n)] = timer[Other(n)],
           backoff'[Other(n)] = backoff[Other(n)],
           OnTime(n) => OnTime(n)', Sending(n)' => Sending(n),
           UNCHANGED <<inc, keep, chan, gap, calm>>
    PROVE  \A k \in Ends : FlightOK(k)' /\ Recovering(k)'
<1> DEFINE m == Other(n)
<1>0. /\ m \in Ends /\ Other(m) = n /\ m # n /\ \A k \in Ends : k = n \/ k = m
      /\ Other(n) = m
  BY OtherEnd
<1>1. FlightOK(n) /\ FlightOK(m) /\ Recovering(n) /\ Recovering(m)
  BY <1>0 DEF IInv
<1>2. /\ slot'[m] = slot[m] /\ timer'[m] = timer[m] /\ backoff'[m] = backoff[m]
      /\ UNCHANGED <<inc, keep, chan, gap, calm>>
  OBVIOUS
<1> HIDE DEF m
<1>3. Settled(m) => Settled(m)'
  BY <1>0, <1>2, SettledFrame
<1>4. Dialing(m) => Dialing(m)'
  BY <1>0, <1>2, SettledFrame
<1>5. ~InFlight("Syn", m) /\ ~InFlight("SynAck", n) /\ ~InFlight("SynAck", m)
  BY <1>0, <1>1 DEF FlightOK
<1>6. \A k \in Ends : \A ty : InFlight(ty, k)' <=> InFlight(ty, k)
  BY <1>2 DEF InFlight
<1>7. Undisturbed(chan'[n], inc'[m]) /\ Undisturbed(chan'[m], inc'[n])
  BY <1>0, <1>1, <1>2 DEF FlightOK
<1>8. FlightOK(n)'
  BY <1>0, <1>5, <1>6, <1>7 DEF FlightOK
<1>9. FlightOK(m)'
  BY <1>0, <1>1, <1>3, <1>4, <1>6, <1>7 DEF FlightOK
<1>10. \A k \in Ends : Expecting(k) => Expecting(k)'
  BY <1>6, OtherEnd DEF Expecting
<1>11. OnTime(m) => OnTime(m)'
  BY <1>2 DEF OnTime, TimeLeft
<1>12. (Sending(m) <=> Sending(m)') /\ (Settled(m) => Sending(m))
  BY <1>2 DEF Sending, Settled
<1>13. Recovering(n)'
  BY <1>0, <1>1, <1>10, <1>11, <1>12 DEF Recovering
<1>14. Recovering(m)'
  <2>1. CASE Sending(n)'
    BY <1>0, <1>1, <1>3, <1>10, <1>11, <2>1 DEF Recovering
  <2>2. CASE ~Sending(n)'
    BY <1>0, <1>1, <1>3, <1>10, <1>11, <1>12, <2>2 DEF Recovering
  <2> QED BY <2>1, <2>2
<1> QED BY <1>0, <1>8, <1>9, <1>13, <1>14

\* Giving up.
LEMMA CalmTimeout ==
    ASSUME IInv, calm > 0, NEW n \in Ends, TickTimeout(n)
    PROVE  \A k \in Ends : FlightOK(k)' /\ Recovering(k)'
<1>1. /\ TypeOK /\ slot[n] \in Slots /\ timer[n] = 0
      /\ slot[n].state \in {"Connecting", "Stale"}
      /\ TransitionToDisconnected(n, slot[n])
      /\ UNCHANGED <<inc, keep, chan, gap, up, faults, calm>>
  BY DEF IInv, TypeOK, TickTimeout, TimeoutDue
<1>2. /\ slot'[Other(n)] = slot[Other(n)] /\ timer'[Other(n)] = timer[Other(n)]
      /\ backoff'[Other(n)] = backoff[Other(n)] /\ timer'[n] = backoff[n]
      /\ slot'[n] = [slot[n] EXCEPT !.state = "Disconnected"]
  BY <1>1, DisconnectedEffect
<1>3. slot'[n].state = "Disconnected"
  BY <1>1, <1>2 DEF Slots
<1>4. ~Settled(n) /\ ~Dialing(n)
  <2>1. timer[n] = 0
    BY <1>1
  <2>2. ~(timer[n] > 0)
    BY <2>1
  <2> QED BY <2>2 DEF Settled, Dialing
<1>5. OnTime(n) => OnTime(n)'
  <2>1. backoff[n] \in Nat
    BY Times DEF IInv, TypeOK
  <2>2. TimeLeft(n) = backoff[n]
    BY <1>1, <2>1 DEF TimeLeft
  <2>3. TimeLeft(n)' = backoff[n]
    BY <1>2, <1>3 DEF TimeLeft
  <2> QED BY <1>1, <2>2, <2>3 DEF OnTime
<1>6. ~Sending(n)'
  BY <1>3 DEF Sending
<1> QED BY <1>1, <1>2, <1>4, <1>5, <1>6, CalmDecline

\* Turning stale.
LEMMA CalmStale ==
    ASSUME IInv, calm > 0, NEW n \in Ends, TickStale(n)
    PROVE  \A k \in Ends : FlightOK(k)' /\ Recovering(k)'
<1>1. /\ TypeOK /\ slot[n] \in Slots /\ backoff[n] \in Nat
  BY Times DEF IInv, TypeOK
<1>2. /\ slot'[Other(n)] = slot[Other(n)] /\ timer'[Other(n)] = timer[Other(n)]
      /\ slot'[n] = [slot[n] EXCEPT !.state = "Stale"]
      /\ timer'[n] = ConnectTimeout /\ slot[n].state = "Active" /\ timer[n] = 0
      /\ UNCHANGED <<inc, keep, backoff, chan, gap, up, faults, calm>>
  BY <1>1, StaleEffect
<1>3. slot'[n].state = "Stale"
  BY <1>1, <1>2 DEF Slots
<1>4. ~Settled(n) /\ ~Dialing(n)
  <2>1. timer[n] = 0
    BY <1>2
  <2>2. ~(timer[n] > 0)
    BY <2>1
  <2> QED BY <2>2 DEF Settled, Dialing
<1>5. OnTime(n) => OnTime(n)'
  <2>1. TimeLeft(n) = ConnectTimeout + backoff[n]
    BY <1>1, <1>2, Times DEF TimeLeft
  <2>2. TimeLeft(n)' = ConnectTimeout + backoff[n]
    BY <1>2, <1>3 DEF TimeLeft
  <2> QED BY <1>2, <2>1, <2>2 DEF OnTime
<1>6. Sending(n)
  BY <1>2 DEF Sending
<1> QED BY <1>2, <1>4, <1>5, <1>6, CalmDecline

\* A keepalive: it will reach a peer that accepts it in time.
LEMMA CalmKeepalive ==
    ASSUME IInv, calm > 0, NEW n \in Ends, TickKeepalive(n)
    PROVE  \A k \in Ends : FlightOK(k)' /\ Recovering(k)' /\ (Settled(k) => Settled(k)')
<1> DEFINE m == Other(n)
           p == [type |-> "Keepalive", session |-> inc[n]]
<1>0. /\ m \in Ends /\ Other(m) = n /\ m # n /\ \A k \in Ends : k = n \/ k = m
      /\ Other(n) = m
  BY OtherEnd
<1>1. /\ TypeOK /\ up /\ FlightOK(n) /\ FlightOK(m) /\ Recovering(n) /\ Recovering(m)
      /\ chan \in [Ends -> Seq(Packets)] /\ gap \in [Ends -> BOOLEAN]
      /\ chan[n] \in Seq(Packets) /\ chan[m] \in Seq(Packets)
      /\ keep \in [Ends -> 0..KeepaliveInterval]
      /\ "Keepalive" \in Types
  <2>1. TypeOK /\ CutOK /\ \A k \in Ends : Recovering(k) /\ FlightOK(k)
    BY DEF IInv
  <2>2. up
    BY <2>1 DEF CutOK
  <2>3. /\ chan \in [Ends -> Seq(Packets)] /\ gap \in [Ends -> BOOLEAN]
        /\ keep \in [Ends -> 0..KeepaliveInterval]
    BY <2>1 DEF TypeOK
  <2> QED BY <1>0, <2>1, <2>2, <2>3 DEF Types
<1>2. /\ Send(n, "Keepalive", chan, gap)
      /\ keep' = [keep EXCEPT ![n] = KeepaliveInterval]
      /\ UNCHANGED <<slot, inc, timer, backoff, up, faults, calm>>
  BY DEF TickKeepalive
<1>3. /\ chan'[n] = chan[n] /\ chan'[m] = Append(chan[m], p) /\ gap' = gap
      /\ p \in Packets
  BY <1>1, <1>2, SendEffect
<1>4. p.type = "Keepalive" /\ p.session = inc[n]
  OBVIOUS
<1> HIDE DEF m, p
<1>5. \A k \in Ends : \A ty \in {"Syn", "SynAck"} : InFlight(ty, k)' <=> InFlight(ty, k)
  <2>1. \A ty \in {"Syn", "SynAck"} : Carries(chan'[m], ty) <=> Carries(chan[m], ty)
    BY <1>1, <1>3, <1>4, CarriesAppend
  <2> QED BY <1>0, <1>3, <2>1 DEF InFlight
<1>6. Undisturbed(chan'[n], inc'[m]) /\ Undisturbed(chan'[m], inc'[n])
  BY <1>0, <1>1, <1>2, <1>3, <1>4, UndisturbedStep DEF FlightOK
<1>7. chan'[m] # <<>> /\ keep'[m] = keep[m]
  <2>1. Append(chan[m], p) # <<>>
    BY <1>1, <1>3, AppendPackets
  <2>2. keep'[m] = keep[m]
    BY <1>0, <1>1, <1>2
  <2> QED BY <1>3, <2>1, <2>2
<1>8. /\ (Settled(m) => Settled(m)') /\ (Dialing(m) => Dialing(m)')
      /\ (Settled(n) => Settled(n)') /\ (Dialing(n) => Dialing(n)')
  BY <1>0, <1>2, <1>3, <1>7, SettledFrame
<1>9. \A k \in Ends : FlightOK(k)'
  <2>1. FlightOK(n)'
    BY <1>0, <1>1, <1>5, <1>6, <1>8 DEF FlightOK
  <2>2. FlightOK(m)'
    BY <1>0, <1>1, <1>5, <1>6, <1>8 DEF FlightOK
  <2> QED BY <1>0, <2>1, <2>2
<1>10. \A k \in Ends : Expecting(k) => Expecting(k)'
  BY <1>5, OtherEnd DEF Expecting
<1>11. \A k \in Ends : (OnTime(k) => OnTime(k)') /\ (Sending(k) <=> Sending(k)')
  BY <1>2 DEF OnTime, TimeLeft, Sending
<1>12. \A k \in Ends : Recovering(k)'
  <2>1. Recovering(n)'
    BY <1>0, <1>1, <1>8, <1>10, <1>11 DEF Recovering
  <2>2. Recovering(m)'
    BY <1>0, <1>1, <1>8, <1>10, <1>11 DEF Recovering
  <2> QED BY <1>0, <2>1, <2>2
<1>13. \A k \in Ends : Settled(k) => Settled(k)'
  BY <1>0, <1>8
<1> QED BY <1>9, <1>12, <1>13

\* The session of the running peer is not retired.
LEMMA NotRetired ==
    ASSUME TypeOK, NEW n \in Ends, SessionsOK(n)
    PROVE  /\ \A i \in DOMAIN slot[n].retired : slot[n].retired[i] # inc[Other(n)]
           /\ slot[n].last_inbound \in {0, 1}
<1>1. slot[n] \in Slots /\ Other(n) \in Ends
  BY OtherEnd DEF TypeOK
<1>2. /\ slot[n].remote \in Nat /\ inc[Other(n)] \in Nat
      /\ \A i \in DOMAIN slot[n].retired : slot[n].retired[i] \in Nat
  BY <1>1, SlotFields DEF TypeOK, Incarnations
<1> QED BY <1>2 DEF SessionsOK

\* A packet that is not accepted is a keepalive to an end that is not settled.
LEMMA Refused ==
    ASSUME IInv, calm > 0, NEW n \in Ends, chan[n] # <<>>,
           ~Accepts(Prepared(n, Arriving(n)), Arriving(n))
    PROVE  Arriving(n).type = "Keepalive" /\ ~Settled(n)
<1> DEFINE p == Arriving(n)
           s == Prepared(n, p)
<1>0. TypeOK /\ SessionsOK(n) /\ FlightOK(n) /\ chan[n] \in Seq(Packets) /\ gap[n] \in BOOLEAN
  BY DEF IInv, TypeOK
<1>1. /\ p \in Seen /\ p.type = chan[n][1].type /\ p.session = chan[n][1].session
      /\ p.counter = 2 <=> ~gap[n]
      /\ s \in Slots /\ s.state = slot[n].state /\ s.remote = slot[n].remote
      /\ s.local_session <=> (p.type = "Syn" \/ slot[n].local_session)
      /\ s.last_inbound = slot[n].last_inbound
      /\ s.require_next = slot[n].require_next /\ s.retired = slot[n].retired
  BY <1>0, ArrivingType
<1>2. 1 \in DOMAIN chan[n]
  BY <1>0, TailPackets
<1>3. p.session = inc[Other(n)] /\ p.type \in {"Syn", "SynAck", "Keepalive"}
  BY <1>0, <1>1, <1>2 DEF FlightOK, Undisturbed
<1> HIDE DEF p, s
<1>4. ~IsRetiredRemoteIdentity(s, p.session) /\ s.last_inbound \in {0, 1}
  BY <1>0, <1>1, <1>3, NotRetired DEF IsRetiredRemoteIdentity
<1>5. ~Accepts(s, p)
  BY DEF s, p
<1>6. p.type # "Syn"
  BY <1>1, <1>4, <1>5, Acceptable
<1>7. ASSUME p.type = "SynAck" PROVE FALSE
  <2>1. InFlight("SynAck", n)
    BY <1>1, <1>2, <1>7 DEF InFlight, Carries
  <2>2. s.local_session /\ (s.state = "Connecting" \/ s.remote = p.session)
    BY <1>0, <1>1, <1>3, <2>1 DEF FlightOK, Dialing, Settled
  <2> QED BY <1>1, <1>4, <1>5, <1>7, <2>2, Acceptable
<1>8. p.type = "Keepalive"
  BY <1>3, <1>6, <1>7
<1>9. ASSUME Settled(n) PROVE FALSE
  <2>1. /\ s.state = "Active" /\ s.remote = p.session
        /\ s.require_next => p.counter = 2
    BY <1>0, <1>1, <1>3, <1>9 DEF Settled
  <2> QED BY <1>1, <1>4, <1>5, <1>8, <2>1, Acceptable
<1> QED BY <1>8, <1>9 DEF p

\* Such a keepalive changes nothing.
LEMMA CalmDrop ==
    ASSUME IInv, calm > 0, NEW n \in Ends, DropInbound(n)
    PROVE  \A k \in Ends : FlightOK(k)' /\ Recovering(k)'
<1> DEFINE m == Other(n)
<1>0. /\ m \in Ends /\ Other(m) = n /\ m # n /\ \A k \in Ends : k = n \/ k = m
      /\ Other(n) = m
  BY OtherEnd
<1>1. /\ TypeOK /\ FlightOK(n) /\ FlightOK(m) /\ Recovering(n) /\ Recovering(m)
      /\ chan[n] \in Seq(Packets) /\ chan[m] \in Seq(Packets)
  <2>1. TypeOK /\ \A k \in Ends : Recovering(k) /\ FlightOK(k)
    BY DEF IInv
  <2> QED BY <1>0, <2>1 DEF TypeOK
<1>2. /\ chan[n] # <<>> /\ ~Accepts(Prepared(n, Arriving(n)), Arriving(n))
      /\ slot'[m] = slot[m] /\ slot'[n] = Prepared(n, Arriving(n))
      /\ chan'[n] = Tail(chan[n]) /\ chan'[m] = chan[m] /\ gap'[m] = gap[m]
      /\ UNCHANGED <<inc, timer, keep, backoff, up, faults, calm>>
  BY <1>1, DropEffect
<1>3. /\ Arriving(n).type = "Keepalive" /\ ~Settled(n)
      /\ chan[n][1].type = "Keepalive"
  BY <1>1, <1>2, Refused, ArrivingType
<1>4. slot'[n] = slot[n]
  BY <1>2, <1>3 DEF Prepared
<1> HIDE DEF m
<1>5. \A k \in Ends : \A ty \in {"Syn", "SynAck"} : InFlight(ty, k)' <=> InFlight(ty, k)
  <2>1. ASSUME NEW ty \in {"Syn", "SynAck"}
        PROVE  Carries(chan'[n], ty) <=> Carries(chan[n], ty)
    <3>1. /\ Carries(Tail(chan[n]), ty) => Carries(chan[n], ty)
          /\ Carries(chan[n], ty) => chan[n][1].type = ty \/ Carries(Tail(chan[n]), ty)
      BY <1>1, <1>2, CarriesTail
    <3>2. chan[n][1].type # ty /\ chan'[n] = Tail(chan[n])
      BY <1>2, <1>3
    <3> QED BY <3>1, <3>2
  <2>2. chan'[m] = chan[m]
    BY <1>2
  <2> QED BY <1>0, <2>1, <2>2 DEF InFlight
<1>6. Undisturbed(chan'[n], inc'[m]) /\ Undisturbed(chan'[m], inc'[n])
  BY <1>0, <1>1, <1>2, UndisturbedStep DEF FlightOK
<1>7. /\ Settled(m) => Settled(m)'
      /\ Dialing(m) => Dialing(m)'
  BY <1>0, <1>2, SettledFrame
<1>8. Dialing(n) => Dialing(n)'
  BY <1>2, <1>3, <1>4 DEF Dialing
<1>9. \A k \in Ends : Expecting(k) => Expecting(k)'
  BY <1>5, OtherEnd DEF Expecting
<1>10. \A k \in Ends : (OnTime(k) => OnTime(k)') /\ (Sending(k) <=> Sending(k)')
  <2>1. \A k \in Ends : slot'[k] = slot[k]
    BY <1>0, <1>2, <1>4
  <2> QED BY <1>2, <2>1 DEF OnTime, TimeLeft, Sending
<1>11. FlightOK(n)'
  BY <1>0, <1>1, <1>3, <1>5, <1>6, <1>8 DEF FlightOK
<1>12. FlightOK(m)'
  BY <1>0, <1>1, <1>5, <1>6, <1>7 DEF FlightOK
<1>13. Recovering(n)'
  BY <1>0, <1>1, <1>3, <1>9, <1>10 DEF Recovering
<1>14. Recovering(m)'
  BY <1>0, <1>1, <1>7, <1>9, <1>10 DEF Recovering
<1> QED BY <1>0, <1>11, <1>12, <1>13, <1>14

\* An accepted packet settles the end it reaches.
LEMMA CalmHandle ==
    ASSUME IInv, calm > 0, NEW n \in Ends, HandleInbound(n)
    PROVE  \A k \in Ends : FlightOK(k)' /\ Recovering(k)' /\ (Settled(k) => Settled(k)')
<1> DEFINE m == Other(n)
           p == Arriving(n)
           a == [type |-> "SynAck", session |-> inc[n]]
<1>0. /\ m \in Ends /\ Other(m) = n /\ m # n /\ \A k \in Ends : k = n \/ k = m
      /\ Other(n) = m
  BY OtherEnd
<1>1. /\ TypeOK /\ up /\ FlightOK(n) /\ FlightOK(m) /\ Recovering(n) /\ Recovering(m)
      /\ chan[n] \in Seq(Packets) /\ chan[m] \in Seq(Packets)
      /\ timer \in [Ends -> Nat] /\ backoff \in [Ends -> InitialBackoff..MaxBackoff]
      /\ keep[m] \in 0..KeepaliveInterval
  <2>1. TypeOK /\ CutOK /\ \A k \in Ends : Recovering(k) /\ FlightOK(k)
    BY DEF IInv
  <2>2. up
    BY <2>1 DEF CutOK
  <2> QED BY <1>0, <2>1, <2>2 DEF TypeOK
<1>2. a \in Packets /\ a.type = "SynAck" /\ a.session = inc[n]
  BY <1>1 DEF TypeOK, Packets, Types, Handshakes
<1>3. /\ slot'[m] = slot[m]
      /\ slot'[n].state = IF p.type = "Disconnect" THEN "Disconnected" ELSE "Active"
      /\ slot'[n].local_session <=> (p.type = "Syn" \/ slot[n].local_session)
      /\ slot'[n].remote = p.session
      /\ chan'[n] = Tail(chan[n]) /\ gap'[n] = FALSE
      /\ chan'[m] = IF p.type = "Syn" /\ up THEN Append(chan[m], a) ELSE chan[m]
      /\ up => gap'[m] = gap[m]
      /\ chan[n] # <<>>
      /\ UNCHANGED <<inc, keep, up, faults, calm>>
  BY <1>1, HandleEffect
<1>4. /\ timer' = [timer EXCEPT ![n] =
            IF p.type = "Disconnect" THEN InitialBackoff ELSE StaleTimeout]
      /\ backoff' = [backoff EXCEPT ![n] = InitialBackoff]
      /\ Accepts(Prepared(n, p), p)
  BY <1>1, HandleEffect
<1>5. /\ 1 \in DOMAIN chan[n]
      /\ p.type = chan[n][1].type /\ p.session = chan[n][1].session
      /\ Prepared(n, p).state = slot[n].state
  BY <1>1, <1>3, TailPackets, ArrivingType
<1>6. p.session = inc[m] /\ p.type \in {"Syn", "SynAck", "Keepalive"}
  BY <1>0, <1>1, <1>5 DEF FlightOK, Undisturbed
<1>7. p.type = "Keepalive" => Sending(n)
  BY <1>4, <1>5 DEF Accepts, Authentic, Handshakes, Sending
<1> HIDE DEF m, p, a
<1>8. /\ timer'[n] = StaleTimeout /\ timer'[m] = timer[m] /\ backoff'[m] = backoff[m]
  BY <1>0, <1>1, <1>4, <1>6
<1>9. Settled(n)' /\ Sending(n)'
  <2>1. StaleTimeout > 0 /\ StaleTimeout > keep[m]
    BY <1>1, Times, KeepaliveAssumption
  <2> QED BY <1>0, <1>3, <1>6, <1>8, <2>1 DEF Settled, Sending
<1>10. chan'[m] = chan[m] \/ chan'[m] # <<>>
  <2>1. Append(chan[m], a) # <<>>
    BY <1>1, <1>2, AppendPackets
  <2> QED BY <1>3, <2>1
<1>11. /\ Settled(m) => Settled(m)'
       /\ Dialing(m) => Dialing(m)'
  BY <1>0, <1>1, <1>3, <1>8, <1>10, SettledFrame
<1>12. \A ty \in {"Syn", "SynAck"} :
          /\ InFlight(ty, n)' => InFlight(ty, n)
          /\ InFlight(ty, n) => p.type = ty \/ InFlight(ty, n)'
          /\ InFlight(ty, m)' <=> (InFlight(ty, m) \/ (ty = "SynAck" /\ p.type = "Syn"))
  <2>1. ASSUME NEW ty
        PROVE  /\ Carries(chan'[n], ty) => Carries(chan[n], ty)
               /\ Carries(chan[n], ty) => p.type = ty \/ Carries(chan'[n], ty)
    <3>1. /\ Carries(Tail(chan[n]), ty) => Carries(chan[n], ty)
          /\ Carries(chan[n], ty) => chan[n][1].type = ty \/ Carries(Tail(chan[n]), ty)
      BY <1>1, <1>3, CarriesTail
    <3>2. chan[n][1].type = p.type /\ chan'[n] = Tail(chan[n])
      BY <1>3, <1>5
    <3> QED BY <3>1, <3>2
  <2>2. ASSUME NEW ty
        PROVE  Carries(chan'[m], ty)
                  <=> (Carries(chan[m], ty) \/ (ty = "SynAck" /\ p.type = "Syn"))
    <3>1. Carries(Append(chan[m], a), ty) <=> (Carries(chan[m], ty) \/ a.type = ty)
      BY <1>1, <1>2, CarriesAppend
    <3>2. chan'[m] = IF p.type = "Syn" THEN Append(chan[m], a) ELSE chan[m]
      BY <1>1, <1>3
    <3> QED BY <1>2, <3>1, <3>2
  <2> QED BY <2>1, <2>2 DEF InFlight
<1>13. InFlight(p.type, n)
  BY <1>5 DEF InFlight, Carries
<1>14. Undisturbed(chan'[n], inc'[m]) /\ Undisturbed(chan'[m], inc'[n])
  BY <1>0, <1>1, <1>2, <1>3, UndisturbedStep DEF FlightOK
<1>15. FlightOK(n)'
  <2>1. InFlight("Syn", m)' \/ InFlight("SynAck", n)' => Dialing(n)'
    BY <1>0, <1>1, <1>3, <1>9, <1>12 DEF FlightOK, Dialing
  <2> QED BY <1>0, <1>9, <1>14, <2>1 DEF FlightOK
<1>16. FlightOK(m)'
  BY <1>0, <1>1, <1>11, <1>12, <1>13, <1>14 DEF FlightOK
<1>17. /\ OnTime(m) => OnTime(m)'
       /\ Sending(m) <=> Sending(m)'
       /\ Settled(m) => Sending(m)
  BY <1>3, <1>8 DEF OnTime, TimeLeft, Sending, Settled
<1>18. \A k \in Ends : Settled(k) => Settled(k)'
  BY <1>0, <1>9, <1>11
<1>19. CASE p.type = "Syn"
  <2>1. Expecting(m)'
    BY <1>0, <1>12, <1>19 DEF Expecting
  <2>2. Recovering(n)' /\ Recovering(m)'
    BY <1>0, <1>9, <2>1 DEF Recovering
  <2> QED BY <1>0, <1>15, <1>16, <1>18, <2>2
<1>20. CASE p.type = "SynAck"
  <2>1. Settled(m)' /\ Sending(m)'
    BY <1>0, <1>1, <1>11, <1>13, <1>17, <1>20 DEF FlightOK
  <2>2. Recovering(n)' /\ Recovering(m)'
    BY <1>0, <1>9, <2>1 DEF Recovering
  <2> QED BY <1>0, <1>15, <1>16, <1>18, <2>2
<1>21. CASE p.type = "Keepalive"
  <2>1. Expecting(m) => Expecting(m)'
    BY <1>0, <1>12, <1>21 DEF Expecting
  <2>2. Recovering(m)'
    BY <1>0, <1>1, <1>7, <1>9, <1>11, <1>17, <1>21, <2>1 DEF Recovering
  <2>3. Recovering(n)'
    BY <1>0, <1>1, <1>7, <1>9, <1>17, <1>21, <2>1 DEF Recovering
  <2> QED BY <1>0, <1>15, <1>16, <1>18, <2>2, <2>3
<1> QED BY <1>6, <1>19, <1>20, <1>21

\* A timer above a running countdown stays above it.
LEMMA Countdown ==
    ASSUME NEW t \in Nat, NEW q \in Nat, q > 0, t > q
    PROVE  t - 1 > 0 /\ t - 1 > (IF q = 0 THEN 0 ELSE q - 1)
  OBVIOUS

\* Time passes only with nothing in flight and nothing due: an end comes a step
\* closer to its next dial, and a settled one hears from its peer before it
\* turns stale.
LEMMA CalmTime ==
    ASSUME IInv, TypeOK', TimeStep, up
    PROVE  \A k \in Ends : /\ FlightOK(k)' /\ Recovering(k)'
                           /\ calm' > RecoveryTime => Settled(k)'
<1>1. /\ TypeOK /\ calm \in Nat /\ calm' \in Nat /\ RecoveryTime \in Nat
      /\ \A k \in Ends : /\ timer[k] \in Nat /\ keep[k] \in Nat /\ backoff[k] \in Nat
                          /\ slot[k].state \in States
  <2>0. TypeOK
    BY DEF IInv
  <2>1. /\ slot \in [Ends -> Slots] /\ timer \in [Ends -> Nat]
        /\ keep \in [Ends -> 0..KeepaliveInterval]
        /\ backoff \in [Ends -> InitialBackoff..MaxBackoff]
        /\ calm \in 0..(RecoveryTime + 1) /\ calm' \in 0..(RecoveryTime + 1)
    BY <2>0 DEF TypeOK
  <2>2. ASSUME NEW k \in Ends PROVE slot[k].state \in States
    BY <2>1, SlotFields
  <2>3. ASSUME NEW k \in Ends
        PROVE  timer[k] \in Nat /\ keep[k] \in Nat /\ backoff[k] \in Nat
    <3>1. timer[k] \in Nat /\ keep[k] \in 0..KeepaliveInterval
          /\ backoff[k] \in InitialBackoff..MaxBackoff
      BY <2>1
    <3> QED BY <3>1, Times
  <2>4. calm \in Nat /\ calm' \in Nat /\ RecoveryTime \in Nat
    BY <2>1, Times
  <2> QED BY <2>0, <2>2, <2>3, <2>4
<1>2. /\ \A k \in Ends :
            /\ chan[k] = <<>> /\ chan'[k] = <<>>
            /\ timer[k] > 0 /\ timer'[k] = timer[k] - 1
            /\ keep'[k] = IF keep[k] = 0 THEN 0 ELSE keep[k] - 1
            /\ Sending(k) => keep[k] > 0
      /\ calm' <= calm + 1
      /\ UNCHANGED <<slot, inc, backoff, gap>>
  BY <1>1, TimeEffect
<1>3. \A k \in Ends : /\ ~Carries(chan[k], "Syn") /\ ~Carries(chan[k], "SynAck")
                      /\ ~Carries(chan'[k], "Syn") /\ ~Carries(chan'[k], "SynAck")
                      /\ Undisturbed(chan'[k], inc'[Other(k)])
  <2> TAKE k \in Ends
  <2>1. chan[k] = <<>> /\ chan'[k] = <<>>
    BY <1>2
  <2>2. \A ty : ~Carries(<<>>, ty)
    BY DEF Carries
  <2>3. \A o : Undisturbed(<<>>, o)
    BY DEF Undisturbed
  <2> QED BY <2>1, <2>2, <2>3
<1>4. ASSUME NEW n \in Ends
      PROVE  /\ FlightOK(n)' /\ Recovering(n)'
             /\ calm' > RecoveryTime => Settled(n)'
  <2> DEFINE m == Other(n)
  <2>0. m \in Ends /\ Other(n) = m /\ Other(m) = n
    BY OtherEnd
  <2> HIDE DEF m
  <2>1. FlightOK(n)'
    BY <1>3, <2>0 DEF FlightOK, InFlight
  <2>2. \A k \in Ends : TimeLeft(k) \in Nat /\ TimeLeft(k)' \in Nat
                        /\ TimeLeft(k)' = TimeLeft(k) - 1
    <3> TAKE k \in Ends
    <3>1. /\ timer[k] \in Nat /\ timer[k] > 0 /\ backoff[k] \in Nat /\ ConnectTimeout \in Nat
          /\ timer'[k] = timer[k] - 1 /\ backoff'[k] = backoff[k] /\ slot'[k] = slot[k]
      BY <1>1, <1>2, Times
    <3> QED BY <3>1 DEF TimeLeft
  <2>3. \A k \in Ends : OnTime(k) => OnTime(k)'
    BY <1>1, <1>2, <2>2 DEF OnTime
  <2>4. /\ Sending(n)' <=> Sending(n)
        /\ Sending(m)' <=> Sending(m)
    BY <1>2 DEF Sending
  <2>5. ~Expecting(n) /\ ~Expecting(m)
    BY <1>3, <2>0 DEF Expecting, InFlight
  <2>6. Settled(n) /\ Sending(m) => Settled(n)'
    <3> SUFFICES ASSUME Settled(n), Sending(m) PROVE Settled(n)'
      OBVIOUS
    <3>0. timer[n] > keep[m]
      BY <1>2, <2>0 DEF Settled
    <3>1. timer'[n] > 0 /\ timer'[n] > keep'[m]
      <4>1. timer[n] \in Nat /\ keep[m] \in Nat
        BY <1>1, <2>0
      <4>2. timer'[n] = timer[n] - 1
        BY <1>2
      <4>3. keep[m] > 0
        BY <1>2, <2>0
      <4>4. keep'[m] = IF keep[m] = 0 THEN 0 ELSE keep[m] - 1
        BY <1>2, <2>0
      <4> QED BY <3>0, <4>1, <4>2, <4>3, <4>4, Countdown
    <3>2. slot'[n] = slot[n] /\ inc'[m] = inc[m] /\ gap'[n] = gap[n]
      BY <1>2
    <3>3. /\ slot[n].state = "Active" /\ slot[n].remote = inc[m]
          /\ gap[n] => ~slot[n].require_next
      BY <2>0 DEF Settled
    <3> QED BY <2>0, <3>1, <3>2, <3>3 DEF Settled
  <2>7. Recovering(n)
    BY DEF IInv
  <2>8. Recovering(n)'
    BY <2>0, <2>3, <2>4, <2>5, <2>6, <2>7 DEF Recovering
  <2>9. ASSUME calm' > RecoveryTime PROVE Settled(n)'
    <3>1. ~OnTime(n)' /\ ~OnTime(m)'
      <4>1. TimeLeft(n)' \in Nat /\ TimeLeft(m)' \in Nat
        BY <2>0, <2>2
      <4>2. calm' \in Nat /\ RecoveryTime \in Nat
        BY <1>1
      <4> QED BY <2>9, <4>1, <4>2 DEF OnTime
    <3>2. Settled(n) /\ Sending(m)
      BY <2>0, <2>3, <2>5, <2>7, <3>1 DEF Recovering
    <3> QED BY <2>6, <3>2
  <2> QED BY <2>1, <2>8, <2>9
<1> QED BY <1>4

-----------------------------------------------------------------------------
(* The invariant, and what follows from it.                                *)

\* A step that leaves calm alone once time has passed without a fault.
LEMMA CalmStep ==
    ASSUME IInv, calm > 0, NEW n \in Ends, Tick(n) \/ Inbound(n)
    PROVE  \A k \in Ends : /\ FlightOK(k)' /\ Recovering(k)'
                           /\ calm > RecoveryTime => Settled(k)'
<1>1. up
  <2>1. CutOK /\ calm # 0
    BY DEF IInv
  <2> QED BY <2>1 DEF CutOK
<1>2. calm > RecoveryTime => \A k \in Ends : Settled(k)
  BY DEF IInv
<1>3. /\ ~TickConnectFails(n) /\ ~TickKeepaliveFails(n)
  BY <1>1 DEF TickConnectFails, TickKeepaliveFails
<1>4. CASE TickConnect(n)
  <2>1. ~Settled(n)
    BY <1>4 DEF TickConnect, ConnectDue, Settled
  <2> QED BY <1>2, <1>4, <2>1, CalmConnect
<1>5. CASE TickTimeout(n)
  <2>1. ~Settled(n)
    BY <1>5 DEF TickTimeout, TimeoutDue, Settled
  <2> QED BY <1>2, <1>5, <2>1, CalmTimeout
<1>6. CASE TickStale(n)
  <2>1. ~Settled(n)
    BY <1>6 DEF TickStale, StaleDue, Settled
  <2> QED BY <1>2, <1>6, <2>1, CalmStale
<1>7. CASE TickKeepalive(n)
  BY <1>2, <1>7, CalmKeepalive
<1>8. CASE DropInbound(n)
  <2>1. ~Settled(n)
    BY <1>8, Refused DEF DropInbound
  <2> QED BY <1>2, <1>8, <2>1, CalmDrop
<1>9. CASE HandleInbound(n)
  BY <1>2, <1>9, CalmHandle
<1> QED BY <1>3, <1>4, <1>5, <1>6, <1>7, <1>8, <1>9 DEF Tick, Inbound

LEMMA AtFaultIInv ==
    /\ TypeOK /\ CutOK /\ calm = 0
    /\ \A n \in Ends : TimersOK(n) /\ SessionsOK(n)
    => IInv
  BY AtFault, Times DEF IInv

LEMMA InitIInv == Init => IInv
<1> SUFFICES ASSUME Init PROVE IInv
  OBVIOUS
<1>1. TypeOK
  BY TypeInit
<1>2. CutOK /\ calm = 0
  BY DEF Init, CutOK
<1>3. ASSUME NEW n \in Ends PROVE TimersOK(n) /\ SessionsOK(n)
  <2>1. /\ slot[n] = FreshSlot /\ timer[n] = 0 /\ backoff[n] = InitialBackoff
        /\ chan[n] = <<>> /\ inc[Other(n)] = 1
    BY OtherEnd DEF Init
  <2>2. /\ slot[n].state = "Disconnected" /\ slot[n].remote = 0
        /\ slot[n].last_inbound = 0 /\ slot[n].retired = <<>>
    BY <2>1 DEF FreshSlot
  <2>3. TimersOK(n)
    BY <2>1, <2>2, Times DEF TimersOK
  <2>4. SessionsOK(n)
    BY <2>1, <2>2 DEF SessionsOK
  <2> QED BY <2>3, <2>4
<1> QED BY <1>1, <1>2, <1>3, AtFaultIInv

LEMMA NextIInv == IInv /\ [Next]_vars => IInv'
<1> SUFFICES ASSUME IInv, [Next]_vars PROVE IInv'
  OBVIOUS
<1>1. TypeOK'
  BY TypeStep DEF IInv
<1>2. \A n \in Ends : TimersOK(n)' /\ SessionsOK(n)'
  BY <1>1, TimersStep, SessionsStep DEF IInv
<1>3. CutOK'
  BY <1>1, CutStep DEF IInv
<1>4. CASE calm' = 0
  <2>1. (TypeOK /\ CutOK /\ calm = 0
          /\ (\A n \in Ends : TimersOK(n) /\ SessionsOK(n)) => IInv)'
    BY AtFaultIInv, PTL
  <2> QED BY <1>1, <1>2, <1>3, <1>4, <2>1
<1>5. CASE calm' # 0
  <2>0. calm \in Nat /\ calm' \in Nat
    BY <1>1, Times DEF IInv, TypeOK
  <2> SUFFICES \A k \in Ends : /\ calm' > 0 => FlightOK(k)'
                               /\ Recovering(k)'
                               /\ calm' > RecoveryTime => Settled(k)'
    BY <1>1, <1>2, <1>3 DEF IInv
  <2>1. ASSUME NEW n \in Ends, Tick(n) \/ Inbound(n) PROVE calm' = calm
    BY <2>1 DEF Tick, TickConnect, TickConnectFails, TickTimeout, TickStale, TickKeepalive,
                TickKeepaliveFails, Inbound, DropInbound, HandleInbound
  <2>2. CASE \E n \in Ends : Tick(n) \/ Inbound(n)
    <3>1. PICK n \in Ends : Tick(n) \/ Inbound(n)
      BY <2>2
    <3>2. calm' = calm /\ calm > 0
      BY <1>5, <2>0, <2>1, <3>1
    <3> QED BY <3>1, <3>2, CalmStep
  <2>3. CASE TimeStep
    <3>1. TypeOK /\ (~up => calm = 0)
      BY DEF IInv, CutOK
    <3>2. up
      BY <1>5, <2>3, <3>1, TimeEffect
    <3> QED BY <1>1, <2>3, <3>2, CalmTime
  <2>4. ASSUME NEW n \in Ends, Lose(n) \/ Crash(n) \/ Shutdown(n) PROVE FALSE
    BY <1>5, <2>4 DEF Lose, Crash, Shutdown, Reborn
  <2>5. ~Cut
    BY <1>5 DEF Cut
  <2>6. ~Restore
    BY <1>5 DEF Restore, IInv, CutOK
  <2>7. CASE UNCHANGED vars
    <3>1. UNCHANGED <<slot, inc, timer, keep, backoff, chan, gap, calm>>
      BY <2>7 DEF vars
    <3>2. \A k \in Ends : /\ calm > 0 => FlightOK(k)
                          /\ Recovering(k)
                          /\ calm > RecoveryTime => Settled(k)
      BY DEF IInv
    <3>3. \A k \in Ends : Settled(k)' <=> Settled(k)
      BY <3>1 DEF Settled
    <3>4. \A k \in Ends : Dialing(k)' <=> Dialing(k)
      BY <3>1, <3>3 DEF Dialing
    <3>5. /\ \A k, ty : InFlight(ty, k)' <=> InFlight(ty, k)
          /\ \A k : Undisturbed(chan[k], inc[Other(k)])' <=> Undisturbed(chan[k], inc[Other(k)])
      BY <3>1 DEF InFlight
    <3>6. \A k : Expecting(k)' <=> Expecting(k)
      BY <3>5 DEF Expecting
    <3>7. \A k : (OnTime(k)' <=> OnTime(k)) /\ (Sending(k)' <=> Sending(k))
      BY <3>1 DEF OnTime, TimeLeft, Sending
    <3>8. \A k \in Ends : FlightOK(k)' <=> FlightOK(k)
      BY <3>3, <3>4, <3>5 DEF FlightOK
    <3>9. \A k \in Ends : Recovering(k)' <=> Recovering(k)
      BY <3>3, <3>6, <3>7 DEF Recovering
    <3> QED BY <3>1, <3>2, <3>3, <3>8, <3>9
  <2> QED BY <2>2, <2>3, <2>4, <2>5, <2>6, <2>7 DEF Next
<1> QED BY <1>4, <1>5

\* The link recovers: whatever was cut, lost or restarted, for every choice of
\* the timers, the backoffs and the numbers of faults, both ends are active once
\* RecoveryTime has passed without a fault (PeerManager::Tick, HandleInbound).
THEOREM Recovery == Spec => []RecoversInTime
<1>1. IInv => RecoversInTime
  BY DEF IInv, RecoversInTime, BothActive, Settled
<1> QED BY <1>1, InitIInv, NextIInv, PTL DEF Spec

\* On a link that loses packets but delivers none after a later one, however
\* often the daemons crash and whatever is lost, no end has the session of the
\* running peer among those it has retired (retired_remote_sessions).  It is
\* the delayed Syn of an earlier process that retires a running one.
THEOREM RunningNotRetired ==
    Spec => [](\A n \in Ends : \A i \in DOMAIN slot[n].retired :
                  slot[n].retired[i] # inc[Other(n)])
<1>1. IInv => \A n \in Ends : \A i \in DOMAIN slot[n].retired :
                  slot[n].retired[i] # inc[Other(n)]
  BY NotRetired DEF IInv
<1> QED BY <1>1, InitIInv, NextIInv, PTL DEF Spec
===============================================================================
