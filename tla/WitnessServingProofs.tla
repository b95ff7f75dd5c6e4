------------------------ MODULE WitnessServingProofs ------------------------
(***************************************************************************)
(* What holds of the block requests of peers although the file is read     *)
(* after cs_main has been released.  Serving leaves the compaction as it   *)
(* is, so its theorems hold of the composition; and an answer is the right *)
(* one unless the compaction has reached the file since the lookup.        *)
(***************************************************************************)
EXTENDS WitnessServing, WitnessCompactionProofs

allvars == <<vars, servevars>>

\* A request that waits for its read passed the lookup.
RequestOK ==
    \/ request = NoRequest
    \/ request \in Requests /\ (request.kind = "witness" => ~request.pruned)

\* The compaction has not reached the file of the request r since its lookup:
\* it is not being handed over, and the index says of it what it said then.
Untouched(r) ==
    /\ mem[r.file] = r.pruned
    /\ pending.stage = "none" \/ pending.file # r.file

\* The block as it was asked for.
AsAsked(r) == IF r.kind = "witness" THEN "full" ELSE "stripped"

\* What ProcessGetBlockData reads from a file the compaction has not reached is
\* the block that was looked up, and the peer gets it in the form asked for.
ServedAsAsked ==
    SendBlock /\ Untouched(request) =>
        reply' = [kind |-> request.kind, data |-> AsAsked(request)]

-----------------------------------------------------------------------------

\* Requests do not change what the compaction may do: the composition without
\* the requests is a behaviour of WitnessCompaction, fairness apart
\* (ProcessGetBlockData only reads).
LEMMA ServingIsCompaction == ServingSpec => Init /\ [][Next]_vars
<1>1. ServingInit => Init
  BY DEF ServingInit
<1>2. [ServingNext]_allvars => [Next]_vars
  <2>1. ASSUME UNCHANGED allvars PROVE UNCHANGED vars
    BY <2>1 DEF allvars
  <2>2. ASSUME ServingNext PROVE Next \/ UNCHANGED vars
    BY <2>2 DEF ServingNext, LookupBlock, SendBlock
  <2> QED BY <2>1, <2>2
<1> QED BY <1>1, <1>2, PTL DEF ServingSpec, allvars

LEMMA RequestStep == RequestOK /\ [ServingNext]_allvars => RequestOK'
<1> SUFFICES ASSUME RequestOK, [ServingNext]_allvars PROVE RequestOK'
  OBVIOUS
<1>1. ASSUME NEW r \in Requests, LookupBlock(r) PROVE RequestOK'
  BY <1>1 DEF LookupBlock, RequestOK, Requests
<1>2. CASE SendBlock
  BY <1>2 DEF SendBlock, RequestOK
<1>3. CASE request' = NoRequest \/ UNCHANGED servevars
  BY <1>3 DEF RequestOK, servevars
<1> QED BY <1>1, <1>2, <1>3 DEF ServingNext, allvars

\* A file the compaction has not reached is read as it was looked up.
LEMMA ReadUntouched ==
    ASSUME MaxFaults <= 1, IInv, RequestOK, SendBlock, Untouched(request)
    PROVE  ReadAt(request) = IF request.pruned THEN "stripped" ELSE "full"
<1>1. request \in Requests /\ request.file \in DataFiles /\ request.pruned \in BOOLEAN
  BY DEF SendBlock, RequestOK, Requests
<1>2. Plain(request.file)
  BY <1>1 DEF SendBlock, IInv, OthersOK, Untouched
<1> QED BY <1>1, <1>2, CompleteFacts DEF Plain, ReadAt, Untouched

\* Peers get the blocks they ask for, in the form they ask for, from every file
\* that no compaction reaches between the two steps of their request, whatever
\* crashes and whatever single I/O call fails.
THEOREM RequestsServed ==
    ASSUME MaxFaults <= 1
    PROVE  ServingSpec => [][ServedAsAsked]_allvars
<1>1. ServingInit => RequestOK
  BY DEF ServingInit, RequestOK
<1>2. ASSUME IInv, RequestOK PROVE ServedAsAsked
  <2> SUFFICES ASSUME SendBlock, Untouched(request)
               PROVE  reply' = [kind |-> request.kind, data |-> AsAsked(request)]
    BY DEF ServedAsAsked
  <2>1. ReadAt(request) = IF request.pruned THEN "stripped" ELSE "full"
    BY <1>2, ReadUntouched
  <2>2. /\ request.kind \in {"witness", "plain"}
        /\ request.kind = "witness" => ~request.pruned
    BY <1>2 DEF SendBlock, RequestOK, Requests
  <2>3. reply' = [kind |-> request.kind,
                  data |-> IF request.kind = "plain" /\ ReadAt(request) = "full"
                           THEN "stripped" ELSE ReadAt(request)]
    BY DEF SendBlock
  <2> QED BY <2>1, <2>2, <2>3 DEF AsAsked
<1>3. IInv /\ RequestOK => ServedAsAsked
  BY <1>2
<1> QED BY <1>1, <1>3, RequestStep, ServingIsCompaction, InitIInv, NextIInv, PTL DEF ServingSpec, allvars
=============================================================================
