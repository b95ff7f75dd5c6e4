--------------------------- MODULE MCPhotonSession ---------------------------
(***************************************************************************)
(* Two daemons, a and b; how often each is started and how many datagrams  *)
(* each process sends is bounded per daemon, and so is the number of       *)
(* datagrams in flight.                                                    *)
(***************************************************************************)
EXTENDS PhotonSession, FiniteSets, TLC

CONSTANTS a, b, StartsA, StartsB, SendsA, SendsB, MaxNet

MCMaxIncarnation == a :> StartsA @@ b :> StartsB
MCSendBound == a :> SendsA @@ b :> SendsB

NetBound == Cardinality(net) <= MaxNet
=============================================================================
