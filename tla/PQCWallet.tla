------------------------------ MODULE PQCWallet ------------------------------
(***************************************************************************)
(* Post-quantum signing keys of a descriptor wallet (src/wallet): a key    *)
(* may make PQC_MAX_SIGNATURES signatures in its life, so every signature  *)
(* takes a counter value that is reserved in the wallet database first.    *)
(* Several threads sign at once, with providers that are snapshots of the  *)
(* keys; another locks, unlocks or encrypts the wallet; plaintext keys are *)
(* validated in the background after a load; the process may crash, and a  *)
(* database commit that is reported as failed may have been done.          *)
(*                                                                         *)
(* cs_wallet makes one action of every step below: the reservers take it   *)
(* (WithWalletLock), and so do loading, locking and encrypting.  An        *)
(* authentication tag is represented by the counter it is computed over.   *)
(***************************************************************************)
EXTENDS Integers

CONSTANTS
    Keys,            \* the keys of one descriptor
    Signers,         \* threads that sign
    MaxSignatures,   \* PQC_MAX_SIGNATURES
    MaxBatch         \* bound on the signatures per key of one transaction

ASSUME WalletAssumption ==
    /\ Keys # {}
    /\ MaxSignatures \in Nat \ {0}
    /\ MaxBatch \in Nat

NoTag == -1        \* a record without a tag: plaintext, or written before tags
NoCounter == -1    \* the provider has no private key
Counters == 0..MaxSignatures

\* A key in memory is pending or failed while it is kept from signing.
Forms == {"pending", "failed", "plain", "crypted"}
Records == [form : Forms, counter : Counters, tag : Counters \cup {NoTag}]
Jobs == Keys \X (0..(MaxSignatures - 1))

VARIABLES
    db,          \* the records in the wallet database
    mem,         \* m_map_pqc_keys, m_map_crypted_pqc_keys, m_map_pqc_sig_counters, ...
    master,      \* vMasterKey is there: the wallet is unlocked
    crypted,     \* mapMasterKeys is not empty: IsCrypted() holds
    block,       \* m_block_signing_provider_snapshots
    locker,      \* the thread in CWallet::Lock
    signer,      \* the signing threads
    validating,  \* the pending keys the validation step is looking at
    spent,       \* (history) every counter value that was handed out
    signed       \* (history) those a signature was made with

walletvars == <<mem, master, crypted, block, locker, validating>>
vars == <<db, walletvars, signer, spent, signed>>

AllCrypted(m) == \A k \in Keys : m[k].form = "crypted"

NoProvider == [k \in Keys |-> NoCounter]
IdleSigner == [pc |-> "idle", counted |-> FALSE, counters |-> NoProvider, jobs |-> {}]

-----------------------------------------------------------------------------
(* Loading.                                                                *)

\* Plaintext records are held back until they have been validated.
Load(d) ==
    [k \in Keys |-> [d[k] EXCEPT !.form = IF @ = "plain" THEN "pending" ELSE @]]

Init ==
    /\ \E r \in {[form |-> "plain", counter |-> 0, tag |-> NoTag],
                 [form |-> "crypted", counter |-> 0, tag |-> NoTag]} :
          db = [k \in Keys |-> r]
    /\ mem = Load(db)
    /\ master = FALSE
    /\ crypted = AllCrypted(db)
    /\ block = FALSE
    /\ locker = "idle"
    /\ signer = [s \in Signers |-> IdleSigner]
    /\ validating = {}
    /\ spent = {}
    /\ signed = {}

\* The process starts again on the records d.
Restarted(d) ==
    /\ db' = d
    /\ mem' = Load(d)
    /\ master' = FALSE
    /\ crypted' = AllCrypted(d)
    /\ block' = FALSE
    /\ locker' = "idle"
    /\ signer' = [s \in Signers |-> IdleSigner]
    /\ validating' = {}
    /\ UNCHANGED <<spent, signed>>

Crash == Restarted(db)

\* RunPlaintextPQCKeyValidationStep reads a pending key under cs_wallet ...
ValidateBegin(k) ==
    /\ validating = {}
    /\ mem[k].form = "pending"
    /\ validating' = {[key |-> k, counter |-> mem[k].counter]}
    /\ UNCHANGED <<db, mem, master, crypted, block, locker, signer, spent, signed>>

\* ... and records the outcome later, with the counter it read.
ValidateEnd(v) ==
    /\ validating' = {}
    /\ \E form \in {"plain", "failed"} :
          mem' = IF mem[v.key].form # "pending" THEN mem
                 ELSE IF form = "failed" THEN [mem EXCEPT ![v.key].form = "failed"]
                 ELSE [mem EXCEPT ![v.key].form = "plain", ![v.key].counter = v.counter]
    /\ UNCHANGED <<db, master, crypted, block, locker, signer, spent, signed>>

-----------------------------------------------------------------------------
(* Reserving counters.                                                     *)

\* DecryptPQCKey accepts the record.
Decrypts(r) == r.tag = NoTag \/ r.tag = r.counter

\* IsLocked
Locked == crypted /\ ~master

\* The key is in the provider with its private part.  A locked wallet provides
\* none, not even those that are not encrypted.
Usable(k) ==
    /\ ~Locked
    /\ \/ mem[k].form = "plain"
       \/ mem[k].form = "crypted" /\ Decrypts(mem[k])

MutMayReserve_AtLimit(counts) ==
    \A k \in DOMAIN counts :
        /\ mem[k].form \in {"plain", "crypted"}
        /\ mem[k].counter < MaxSignatures
        /\ mem[k].form = "crypted" => master

\* ReservePQCSignatureCountersBatch up to the database transaction.
MayReserve(counts) ==
    \A k \in DOMAIN counts :
        /\ mem[k].form \in {"plain", "crypted"}
        /\ mem[k].counter <= MaxSignatures - counts[k]
        /\ mem[k].form = "crypted" => master

\* The records of the keys in counts after the reservation, the others as in r.
Advanced(r, counts) ==
    [k \in Keys |->
        IF k \in DOMAIN counts
        THEN [form |-> mem[k].form,
              counter |-> mem[k].counter + counts[k],
              tag |-> IF mem[k].form = "crypted" THEN mem[k].counter + counts[k] ELSE NoTag]
        ELSE r[k]]

\* The values handed out: those from the counter in memory on.
Assigned(counts) ==
    {j \in Jobs : /\ j[1] \in DOMAIN counts
                  /\ j[2] >= mem[j[1]].counter
                  /\ j[2] < mem[j[1]].counter + counts[j[1]]}

MutCommit_Unchecked(counts) ==
    /\ db' \in {db, Advanced(db, counts)}
    /\ mem' = Advanced(mem, counts)
    /\ spent' = spent \cup Assigned(counts)

MutCommit_MemoryKept(counts) ==
    /\ db' = Advanced(db, counts)
    /\ mem' = mem
    /\ spent' = spent \cup Assigned(counts)

MutCommit_TagKept(counts) ==
    /\ db' = Advanced(db, counts)
    /\ mem' = [k \in Keys |-> [Advanced(mem, counts)[k] EXCEPT !.tag = mem[k].tag]]
    /\ spent' = spent \cup Assigned(counts)

\* The transaction commits, then the maps in memory follow.
CommitReservation(counts) ==
    /\ db' = Advanced(db, counts)
    /\ mem' = Advanced(mem, counts)
    /\ spent' = spent \cup Assigned(counts)

\* It is reported as failed, done or not: nothing is handed out.
ReservationFails(counts) ==
    /\ db' \in {db, Advanced(db, counts)}
    /\ UNCHANGED <<mem, spent>>

-----------------------------------------------------------------------------
(* Signing.                                                                *)

\* CWallet::SignTransaction and FillPSBT: signers of an encrypted wallet are
\* counted, unless a thread in Lock keeps them out.
BeginSigning(s) ==
    /\ signer[s].pc = "idle"
    /\ crypted => ~block
    /\ signer' = [signer EXCEPT ![s].pc = "begun", ![s].counted = crypted]
    /\ UNCHANGED <<db, walletvars, spent, signed>>

\* The snapshot of the keys and counters.
GetSigningProvider(s) ==
    /\ signer[s].pc = "begun"
    /\ signer' = [signer EXCEPT ![s].pc = "signing", ![s].counters =
                     [k \in Keys |-> IF Usable(k) THEN mem[k].counter ELSE NoCounter]]
    /\ UNCHANGED <<db, walletvars, spent, signed>>

CanSignPQC(s, k) == signer[s].counters[k] \in 0..(MaxSignatures - 1)

\* FlatSigningProvider::SignPQC up to the raw signer.
SignPQC(s, k) ==
    LET counts == [j \in {k} |-> 1] IN
    /\ signer[s].pc = "signing" /\ signer[s].jobs = {}
    /\ CanSignPQC(s, k)
    /\ MayReserve(counts)
    /\ \/ /\ CommitReservation(counts)
          /\ signer' = [signer EXCEPT ![s].jobs = Assigned(counts),
                                      ![s].counters[k] = mem[k].counter + 1]
       \/ ReservationFails(counts) /\ UNCHANGED signer
    /\ UNCHANGED <<master, crypted, block, locker, validating, signed>>

\* TrySignTransactionPQCParallel up to the workers.
SignTransactionPQCParallel(s, counts) ==
    /\ signer[s].pc = "signing" /\ signer[s].jobs = {}
    /\ \A k \in DOMAIN counts : signer[s].counters[k] # NoCounter
    /\ MayReserve(counts)
    /\ \/ /\ CommitReservation(counts)
          /\ signer' = [signer EXCEPT ![s].jobs = Assigned(counts)]
       \/ ReservationFails(counts) /\ UNCHANGED signer
    /\ UNCHANGED <<master, crypted, block, locker, validating, signed>>

\* The raw signer, on the thread itself or on a worker.
Sign(s, j) ==
    /\ signer' = [signer EXCEPT ![s].jobs = @ \ {j}]
    /\ signed' = signed \cup {j}
    /\ UNCHANGED <<db, walletvars, spent>>

\* It fails: the other jobs are cancelled, the values stay consumed.
SignFails(s) ==
    /\ signer[s].jobs # {}
    /\ signer' = [signer EXCEPT ![s].jobs = {}]
    /\ UNCHANGED <<db, walletvars, spent, signed>>

EndSigning(s) ==
    /\ signer[s].pc # "idle" /\ signer[s].jobs = {}
    /\ signer' = [signer EXCEPT ![s] = IdleSigner]
    /\ UNCHANGED <<db, walletvars, spent, signed>>

-----------------------------------------------------------------------------
(* Locking, unlocking, encrypting.                                         *)

\* CWallet::Lock: keep new signers out, ...
LockBegin ==
    /\ crypted
    /\ locker = "idle"
    /\ block' = TRUE
    /\ locker' = "wait"
    /\ UNCHANGED <<db, mem, master, crypted, validating, signer, spent, signed>>

MutLockClear_NoWait ==
    /\ locker = "wait"
    /\ master' = FALSE
    /\ locker' = "done"
    /\ UNCHANGED <<db, mem, crypted, block, validating, signer, spent, signed>>

\* ... wait for those that have begun, forget the key, ...
LockClear ==
    /\ locker = "wait"
    /\ \A s \in Signers : ~signer[s].counted
    /\ master' = FALSE
    /\ locker' = "done"
    /\ UNCHANGED <<db, mem, crypted, block, validating, signer, spent, signed>>

MutLockEnd_StillBlocked ==
    /\ locker = "done"
    /\ locker' = "idle"
    /\ UNCHANGED <<db, mem, master, crypted, block, validating, signer, spent, signed>>

\* ... and let signers in again.
LockEnd ==
    /\ locker = "done"
    /\ block' = FALSE
    /\ locker' = "idle"
    /\ UNCHANGED <<db, mem, master, crypted, validating, signer, spent, signed>>

\* CheckDecryptionKey: the record gets a tag.
Tagged(r) == [r EXCEPT !.tag = r.counter]

\* Unlock with the right key.  Records without a tag get one, each with a
\* write of its own that may fail, done or not.
Unlock ==
    /\ AllCrypted(mem)
    /\ \A k \in Keys : Decrypts(mem[k])
    /\ LET legacy == {k \in Keys : mem[k].tag = NoTag} IN
       \E written \in SUBSET legacy : \E acknowledged \in SUBSET written :
          /\ db' = [k \in Keys |-> IF k \in written THEN Tagged(mem[k]) ELSE db[k]]
          /\ mem' = [k \in Keys |-> IF k \in acknowledged THEN Tagged(mem[k]) ELSE mem[k]]
    /\ master' = TRUE
    /\ UNCHANGED <<crypted, block, locker, validating, signer, spent, signed>>

MutEncrypted_NewCounter == [k \in Keys |-> [form |-> "crypted", counter |-> 0, tag |-> 0]]

\* DescriptorScriptPubKeyMan::Encrypt of every key.
Encrypted == [k \in Keys |-> Tagged([mem[k] EXCEPT !.form = "crypted"])]

\* EncryptWallet; when the commit fails the process aborts.  When the
\* transaction cannot be begun it returns with the new entry of mapMasterKeys
\* in place: the wallet is taken for encrypted and its keys are not.
EncryptWallet ==
    /\ ~crypted
    /\ \A k \in Keys : mem[k].form = "plain"
    /\ locker = "idle"
    /\ \/ /\ db' = Encrypted /\ mem' = Encrypted
          /\ master' = FALSE /\ crypted' = TRUE
          /\ UNCHANGED <<block, locker, validating, signer, spent, signed>>
       \/ /\ crypted' = TRUE
          /\ UNCHANGED <<db, mem, master, block, locker, validating, signer, spent, signed>>
       \/ \E d \in {db, Encrypted} : Restarted(d)

Batches == UNION {[K -> 1..MaxBatch] : K \in (SUBSET Keys) \ {{}}}

Next ==
    \/ \E k \in Keys : ValidateBegin(k)
    \/ \E v \in validating : ValidateEnd(v)
    \/ \E s \in Signers :
          \/ BeginSigning(s)
          \/ GetSigningProvider(s)
          \/ \E k \in Keys : SignPQC(s, k)
          \/ \E counts \in Batches : SignTransactionPQCParallel(s, counts)
          \/ \E j \in signer[s].jobs : Sign(s, j)
          \/ SignFails(s)
          \/ EndSigning(s)
    \/ LockBegin \/ LockClear \/ LockEnd
    \/ Unlock
    \/ EncryptWallet
    \/ Crash

Spec == Init /\ [][Next]_vars

\* Threads that have begun to sign come to an end (every loop of SignTransaction
\* is over the inputs of one transaction), and Lock takes its steps.
Fairness ==
    /\ \A s \in Signers :
          /\ WF_vars(GetSigningProvider(s))
          /\ WF_vars(SignFails(s) \/ \E j \in signer[s].jobs : Sign(s, j))
          /\ WF_vars(EndSigning(s))
    /\ WF_vars(LockClear)
    /\ WF_vars(LockEnd)

FairSpec == Spec /\ Fairness

-----------------------------------------------------------------------------
(* Properties.                                                             *)

SignerStates ==
    [pc : {"idle", "begun", "signing"}, counted : BOOLEAN,
     counters : [Keys -> Counters \cup {NoCounter}], jobs : SUBSET Jobs]

\* Every variable has its type.
TypeOK ==
    /\ db \in [Keys -> Records]
    /\ mem \in [Keys -> Records]
    /\ master \in BOOLEAN /\ crypted \in BOOLEAN /\ block \in BOOLEAN
    /\ locker \in {"idle", "wait", "done"}
    /\ signer \in [Signers -> SignerStates]
    /\ validating \subseteq [key : Keys, counter : Counters]
    /\ spent \subseteq Jobs
    /\ signed \subseteq Jobs

\* A signature never uses a counter value the database does not count: so no
\* crash, failed commit, encryption or background validation lets a key make
\* more signatures than its record says.
SignaturesDurable == \A j \in signed : j[2] < db[j[1]].counter

\* A counter value is handed out once in the life of the key, whichever
\* threads sign, and whether or not the signature was made ("reusing it would
\* be less safe than overcounting", signingprovider.cpp).
NeverReassigned ==
    [][\A s \in Signers : (signer'[s].jobs \ signer[s].jobs) \cap spent = {}]_vars

\* The counter in memory never goes back, not even across a restart.
CounterMonotone == [][\A k \in Keys : mem'[k].counter >= mem[k].counter]_vars

\* The record of an encrypted key, in memory and on disk, always carries the
\* tag of its own counter (or none): an interrupted update never makes a key
\* undecryptable.
TagsMatch ==
    \A k \in Keys : \A r \in {db[k], mem[k]} : r.form = "crypted" => Decrypts(r)

\* No private key is in the hands of a counted signer while the wallet is
\* locked, encrypted or not: Lock waits for the signers that have one ("Active
\* PQC signers may need cs_wallet to reserve counters", wallet.cpp), and a
\* provider made in a locked wallet has none, also when an EncryptWallet that
\* failed has left the keys in plaintext.
LockWaits ==
    \A s \in Signers, k \in Keys :
        signer[s].counted /\ signer[s].counters[k] # NoCounter => master

\* Lock comes to an end, and signers are let in again: waiting for signers
\* that wait for the wallet is no deadlock.
LockEnds == block ~> ~block
=============================================================================
