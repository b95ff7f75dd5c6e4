---------------------------- MODULE WitnessServing ----------------------------
(***************************************************************************)
(* Witness compaction composed with the block requests of peers            *)
(* (PeerManagerImpl::ProcessGetBlockData in src/net_processing.cpp).  A    *)
(* request is answered in two steps: the block's status and position are   *)
(* looked up under cs_main, and the file is read after the lock has been   *)
(* released, when a flush may be at any of its steps.                      *)
(***************************************************************************)
EXTENDS WitnessCompaction

VARIABLES
    request,   \* the request between its two steps
    reply      \* what the last request was answered with

servevars == <<request, reply>>

\* A block is the first of its file or a later one: only the first starts at
\* the same offset in the complete and in the compacted file.
Requests == [kind : {"witness", "plain"}, file : DataFiles, first : BOOLEAN,
             pruned : BOOLEAN]
NoRequest == [kind |-> "none"]
NoReply == [kind |-> "none", data |-> "none"]

ServingInit == Init /\ request = NoRequest /\ reply = NoReply

\* The lookup, under cs_main: no flush is under way.
LookupBlock(r) ==
    /\ pc = "idle"
    /\ request = NoRequest
    /\ r.pruned = mem[r.file]
    /\ IF r.kind = "witness" /\ r.pruned
       THEN reply' = [kind |-> "witness", data |-> "notfound"] /\ UNCHANGED request
       ELSE request' = r /\ reply' = NoReply
    /\ UNCHANGED vars

\* What is found in the file at the position looked up.
ReadAt(r) ==
    LET content == dir[r.file]["blk"]
        expected == IF r.pruned THEN "stripped" ELSE "full"
    IN  IF content = expected \/ (r.first /\ content \in {"full", "stripped"})
        THEN content
        ELSE "disconnect"

\* The read: the raw bytes are the answer to a witness request (ReadRawBlock),
\* a block serialised without witnesses the answer to a plain one (ReadBlock).
SendBlock ==
    /\ pc \notin {"startup", "failed"}
    /\ request # NoRequest
    /\ reply' = [kind |-> request.kind,
                 data |-> IF request.kind = "plain" /\ ReadAt(request) = "full"
                          THEN "stripped" ELSE ReadAt(request)]
    /\ request' = NoRequest
    /\ UNCHANGED vars

\* A crash takes the connection with it.
ServingNext ==
    \/ \E r \in Requests : LookupBlock(r)
    \/ SendBlock
    \/ /\ Next
       /\ IF pc' = "startup" THEN request' = NoRequest /\ reply' = NoReply
                             ELSE UNCHANGED servevars

ServingSpec == ServingInit /\ [][ServingNext]_<<vars, servevars>>

\* A request for a block with its witnesses is never answered with a block
\* without them: "the network format matches the format on disk"
\* (net_processing.cpp, the fast path of ProcessGetBlockData).
WitnessBlocksWhole == reply.kind = "witness" => reply.data # "stripped"
=============================================================================
