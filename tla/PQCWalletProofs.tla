--------------------------- MODULE PQCWalletProofs ---------------------------
(***************************************************************************)
(* Proofs about PQCWallet for any number of keys and threads and any       *)
(* signature limit.  The properties are about what has been signed, handed *)
(* out or written; what makes them inductive is the order the counters     *)
(* keep: every value handed out is below the counter in memory, and that   *)
(* is never above the one in the database.                                 *)
(***************************************************************************)
EXTENDS PQCWallet, TLAPS

Covered ==
    /\ \A k \in Keys : mem[k].counter <= db[k].counter
    /\ \A j \in spent : j[2] < mem[j[1]].counter
    /\ signed \subseteq spent
    /\ \A s \in Signers : signer[s].jobs \subseteq spent

\* A validation step in progress knows the counter of its key.
ValidationCurrent ==
    \A v \in validating :
        mem[v.key].form = "pending" => v.counter = mem[v.key].counter

\* Signers are counted while mapMasterKeys has an entry, and only a signer that has
\* taken its snapshot holds keys.
SignerShape ==
    \A s \in Signers :
        /\ signer[s].counted => crypted
        /\ signer[s].pc # "signing" => signer[s].counters = NoProvider

IInv ==
    /\ TypeOK
    /\ Covered
    /\ ValidationCurrent
    /\ TagsMatch
    /\ SignerShape
    /\ LockWaits

\* What the callers pass to ReservePQCSignatureCountersBatch.
IsCounts(counts) ==
    /\ DOMAIN counts \subseteq Keys
    /\ \A k \in DOMAIN counts : counts[k] \in Nat \ {0}

-----------------------------------------------------------------------------
(* Facts about the operators.                                              *)

\* Loading keeps types, counters and tags.
LEMMA LoadFacts ==
    ASSUME NEW d \in [Keys -> Records]
    PROVE  /\ Load(d) \in [Keys -> Records]
           /\ \A k \in Keys : /\ Load(d)[k].counter = d[k].counter
                              /\ Load(d)[k].tag = d[k].tag
                              /\ Load(d)[k].form = "crypted" <=> d[k].form = "crypted"
  BY DEF Load, Records, Forms

\* A reservation the checks let through yields records.
LEMMA AdvancedFacts ==
    ASSUME NEW r \in [Keys -> Records], mem \in [Keys -> Records],
           NEW counts, IsCounts(counts), MayReserve(counts)
    PROVE  LET a == Advanced(r, counts) IN
           /\ a \in [Keys -> Records]
           /\ \A k \in DOMAIN counts :
                 /\ a[k].form = mem[k].form
                 /\ a[k].counter = mem[k].counter + counts[k]
                 /\ a[k].counter > mem[k].counter
                 /\ mem[k].form \in {"plain", "crypted"}
                 /\ Decrypts(a[k])
           /\ \A k \in Keys : k \notin DOMAIN counts => a[k] = r[k]
<1> DEFINE a == Advanced(r, counts)
<1>1. ASSUME NEW k \in DOMAIN counts
      PROVE  /\ k \in Keys /\ a[k] \in Records
             /\ a[k].form = mem[k].form
             /\ a[k].counter = mem[k].counter + counts[k]
             /\ a[k].counter > mem[k].counter
             /\ mem[k].form \in {"plain", "crypted"}
             /\ Decrypts(a[k])
  <2> DEFINE n == mem[k].counter + counts[k]
             f == mem[k].form
             t == IF f = "crypted" THEN n ELSE NoTag
  <2>1. k \in Keys /\ mem[k] \in Records /\ counts[k] \in Nat \ {0}
    BY DEF IsCounts
  <2>2. mem[k].counter \in Nat /\ f \in {"plain", "crypted"}
    BY <2>1, WalletAssumption DEF MayReserve, Records, Counters
  <2>3. n \in Counters /\ n > mem[k].counter
    BY <2>1, <2>2, WalletAssumption DEF MayReserve, Counters
  <2>4. a[k] = [form |-> f, counter |-> n, tag |-> t]
    BY <2>1 DEF Advanced
  <2>5. t \in Counters \cup {NoTag} /\ (t = NoTag \/ t = n) /\ f \in Forms
    BY <2>2, <2>3 DEF Forms
  <2> HIDE DEF a, n, f, t
  <2>6. a[k] \in Records /\ a[k].form = f /\ a[k].counter = n /\ Decrypts(a[k])
    BY <2>3, <2>4, <2>5 DEF Records, Decrypts
  <2> QED BY <2>1, <2>2, <2>3, <2>6 DEF n, f
<1>3. \A k \in Keys : k \notin DOMAIN counts => a[k] = r[k]
  BY DEF Advanced
<1>4. a \in [Keys -> Records]
  <2>1. \A k \in Keys : a[k] \in Records
    BY <1>1, <1>3
  <2>2. a = [k \in Keys |-> a[k]]
    BY DEF Advanced
  <2> HIDE DEF a
  <2> QED BY <2>1, <2>2
<1> QED BY <1>1, <1>3, <1>4

\* The values handed out are new, and below the new counter.
LEMMA AssignedFacts ==
    ASSUME mem \in [Keys -> Records], NEW counts, IsCounts(counts)
    PROVE  /\ Assigned(counts) \subseteq Jobs
           /\ \A j \in Assigned(counts) :
                 /\ j[1] \in DOMAIN counts
                 /\ j[2] >= mem[j[1]].counter
                 /\ j[2] < mem[j[1]].counter + counts[j[1]]
  BY DEF Assigned

\* A single signature and a batch are reservations alike.
LEMMA CallersPassCounts ==
    /\ \A k \in Keys : IsCounts([j \in {k} |-> 1])
    /\ \A counts \in Batches : IsCounts(counts)
  BY WalletAssumption DEF IsCounts, Batches

-----------------------------------------------------------------------------
(* The records: what a reservation, and a start, leave of the invariant.   *)

\* The part of the invariant about the records and the values handed out.
Recorded ==
    /\ db \in [Keys -> Records] /\ mem \in [Keys -> Records]
    /\ spent \subseteq Jobs
    /\ \A k \in Keys : mem[k].counter <= db[k].counter
    /\ \A j \in spent : j[2] < mem[j[1]].counter
    /\ ValidationCurrent
    /\ TagsMatch

LEMMA CommitKeeps ==
    ASSUME Recorded, NEW counts, IsCounts(counts), MayReserve(counts),
           CommitReservation(counts), validating' = validating,
           validating \subseteq [key : Keys, counter : Counters]
    PROVE  /\ Recorded'
           /\ Assigned(counts) \subseteq spent' /\ spent \subseteq spent'
           /\ Assigned(counts) \cap spent = {}
           /\ \A k \in Keys : mem'[k].counter >= mem[k].counter
           /\ \A k \in Keys : mem'[k].form = mem[k].form
<1>1. db \in [Keys -> Records] /\ mem \in [Keys -> Records] /\ spent \subseteq Jobs
  BY DEF Recorded
<1>2. DOMAIN counts \subseteq Keys /\ \A k \in DOMAIN counts : counts[k] \in Nat \ {0}
  BY DEF IsCounts
<1>3. /\ mem' \in [Keys -> Records] /\ db' \in [Keys -> Records]
      /\ \A k \in DOMAIN counts :
            /\ mem'[k].form = mem[k].form /\ db'[k].form = mem[k].form
            /\ mem'[k].counter = mem[k].counter + counts[k]
            /\ db'[k].counter = mem[k].counter + counts[k]
            /\ mem'[k].counter > mem[k].counter
            /\ mem[k].form \in {"plain", "crypted"}
            /\ Decrypts(mem'[k]) /\ Decrypts(db'[k])
      /\ \A k \in Keys : k \notin DOMAIN counts => mem'[k] = mem[k] /\ db'[k] = db[k]
  BY <1>1, AdvancedFacts DEF CommitReservation
<1>4. \A k \in Keys : mem[k].counter \in Nat /\ mem'[k].counter \in Nat /\ db'[k].counter \in Nat
  BY <1>1, <1>3, WalletAssumption DEF Records, Counters
<1>5. /\ Assigned(counts) \subseteq Jobs
      /\ \A j \in Assigned(counts) :
            /\ j[1] \in DOMAIN counts
            /\ j[2] >= mem[j[1]].counter
            /\ j[2] < mem[j[1]].counter + counts[j[1]]
  BY <1>1, AssignedFacts
<1>6. spent' = spent \cup Assigned(counts)
  BY DEF CommitReservation
<1>7. \A k \in Keys : mem'[k].counter >= mem[k].counter /\ mem'[k].form = mem[k].form
  BY <1>2, <1>3, <1>4
<1>8. \A k \in Keys : mem'[k].counter <= db'[k].counter
  BY <1>2, <1>3, <1>4 DEF Recorded
<1>J. \A j \in Jobs : j[1] \in Keys /\ j[2] \in Int
  BY WalletAssumption DEF Jobs
<1>9. \A j \in spent' : j[2] < mem'[j[1]].counter
  <2>1. ASSUME NEW j \in spent PROVE j[2] < mem'[j[1]].counter
    <3>1. j[1] \in Keys /\ j[2] \in Int /\ j[2] < mem[j[1]].counter
      BY <1>1, <1>J DEF Recorded
    <3> QED BY <3>1, <1>7, <1>4
  <2>2. ASSUME NEW j \in Assigned(counts) PROVE j[2] < mem'[j[1]].counter
    BY <1>5, <1>3
  <2> QED BY <1>6, <2>1, <2>2
<1>10. Assigned(counts) \cap spent = {}
  <2>1. ASSUME NEW j \in Assigned(counts), j \in spent PROVE FALSE
    <3>1. j[1] \in Keys /\ j[2] \in Int /\ j[2] < mem[j[1]].counter
      BY <2>1, <1>1, <1>J DEF Recorded
    <3>2. j[2] >= mem[j[1]].counter
      BY <1>5
    <3> QED BY <3>1, <3>2, <1>4
  <2> QED BY <2>1
<1>11. ValidationCurrent'
  <2>1. ASSUME NEW v \in validating, mem'[v.key].form = "pending"
        PROVE  v.counter = mem'[v.key].counter
    <3>1. v.key \in Keys
      OBVIOUS
    <3>2. mem'[v.key] = mem[v.key]
      BY <2>1, <3>1, <1>3
    <3> QED BY <2>1, <3>2 DEF Recorded, ValidationCurrent
  <2> QED BY <2>1 DEF ValidationCurrent
<1>12. TagsMatch'
  BY <1>3 DEF Recorded, TagsMatch
<1> QED BY <1>1, <1>3, <1>5, <1>6, <1>7, <1>8, <1>9, <1>10, <1>11, <1>12 DEF Recorded

LEMMA FailureKeeps ==
    ASSUME Recorded, NEW counts, IsCounts(counts), MayReserve(counts),
           ReservationFails(counts), validating' = validating
    PROVE  Recorded' /\ mem' = mem /\ spent' = spent
<1>1. db \in [Keys -> Records] /\ mem \in [Keys -> Records]
  BY DEF Recorded
<1>2. mem' = mem /\ spent' = spent
  BY DEF ReservationFails
<1>3. CASE db' = db
  BY <1>2, <1>3 DEF Recorded, ValidationCurrent, TagsMatch
<1>4. CASE db' = Advanced(db, counts)
  <2>1. /\ db' \in [Keys -> Records]
        /\ \A k \in DOMAIN counts : db'[k].counter > mem[k].counter /\ Decrypts(db'[k])
        /\ \A k \in Keys : k \notin DOMAIN counts => db'[k] = db[k]
    BY <1>1, <1>4, AdvancedFacts
  <2>2. \A k \in Keys : mem[k].counter \in Nat /\ db'[k].counter \in Nat
    BY <1>1, <2>1, WalletAssumption DEF Records, Counters
  <2>3. \A k \in Keys : mem[k].counter <= db'[k].counter
    BY <2>1, <2>2 DEF Recorded
  <2>4. TagsMatch'
    BY <1>2, <2>1 DEF Recorded, TagsMatch
  <2> QED BY <1>1, <1>2, <2>1, <2>3, <2>4 DEF Recorded, ValidationCurrent
<1> QED BY <1>3, <1>4 DEF ReservationFails

\* A start on records that count at least what the memory counted.
LEMMA RestartKeeps ==
    ASSUME IInv, NEW d \in [Keys -> Records], Restarted(d),
           \A k \in Keys : mem[k].counter <= d[k].counter,
           \A k \in Keys : d[k].form = "crypted" => Decrypts(d[k])
    PROVE  IInv' /\ (\A k \in Keys : mem'[k].counter >= mem[k].counter)
<1>1. /\ db' = d /\ mem' = Load(d) /\ master' = FALSE /\ block' = FALSE /\ locker' = "idle"
      /\ signer' = [s \in Signers |-> IdleSigner] /\ validating' = {}
      /\ spent' = spent /\ signed' = signed
      /\ crypted' \in BOOLEAN
  BY DEF Restarted, AllCrypted
<1>2. /\ mem' \in [Keys -> Records]
      /\ \A k \in Keys : /\ mem'[k].counter = d[k].counter
                         /\ mem'[k].tag = d[k].tag
                         /\ mem'[k].form = "crypted" <=> d[k].form = "crypted"
  BY <1>1, LoadFacts
<1>3. \A k \in Keys : mem[k].counter \in Nat /\ d[k].counter \in Nat
  <2>1. \A r \in Records : r.counter \in Nat
    BY WalletAssumption DEF Records, Counters
  <2> QED BY <2>1 DEF IInv, TypeOK
<1>4. IdleSigner \in SignerStates /\ ~IdleSigner.counted /\ IdleSigner.jobs = {}
      /\ IdleSigner.counters = NoProvider
  BY DEF IdleSigner, SignerStates, NoProvider
<1>5. TypeOK'
  BY <1>1, <1>2, <1>4 DEF IInv, TypeOK
<1>6. \A j \in spent : j[2] < mem'[j[1]].counter
  <2>1. SUFFICES ASSUME NEW j \in spent PROVE j[2] < mem'[j[1]].counter
    OBVIOUS
  <2>2. j[1] \in Keys /\ j[2] \in Int /\ j[2] < mem[j[1]].counter
    BY WalletAssumption DEF IInv, TypeOK, Covered, Jobs
  <2> QED BY <2>2, <1>2, <1>3
<1>7. Covered'
  BY <1>1, <1>2, <1>3, <1>4, <1>6 DEF Covered, IInv
<1>8. TagsMatch'
  BY <1>1, <1>2 DEF TagsMatch, Decrypts
<1>9. ValidationCurrent' /\ SignerShape' /\ LockWaits'
  BY <1>1, <1>4 DEF ValidationCurrent, SignerShape, LockWaits
<1> QED BY <1>2, <1>3, <1>5, <1>7, <1>8, <1>9 DEF IInv

-----------------------------------------------------------------------------
(* The invariant.                                                          *)

LEMMA InitInvariant == Init => IInv
<1> SUFFICES ASSUME Init PROVE IInv
  OBVIOUS
<1>1. PICK r \in {[form |-> "plain", counter |-> 0, tag |-> NoTag],
                 [form |-> "crypted", counter |-> 0, tag |-> NoTag]} :
           db = [k \in Keys |-> r]
  BY DEF Init
<1>2. r \in Records /\ Decrypts(r) /\ r.counter = 0
  BY <1>1, WalletAssumption DEF Records, Forms, Counters, Decrypts, NoTag
<1>3. db \in [Keys -> Records] /\ \A k \in Keys : db[k].counter = 0 /\ Decrypts(db[k])
  BY <1>1, <1>2
<1>4. /\ mem \in [Keys -> Records]
      /\ \A k \in Keys : mem[k].counter = db[k].counter /\ Decrypts(mem[k])
  BY <1>3, LoadFacts DEF Init, Decrypts
<1>5. IdleSigner \in SignerStates /\ ~IdleSigner.counted /\ IdleSigner.jobs = {}
      /\ IdleSigner.counters = NoProvider
  BY DEF IdleSigner, SignerStates, NoProvider
<1>6. TypeOK
  BY <1>3, <1>4, <1>5 DEF Init, TypeOK, AllCrypted
<1>7. Covered
  BY <1>3, <1>4, <1>5 DEF Init, Covered
<1>8. TagsMatch /\ ValidationCurrent /\ SignerShape /\ LockWaits
  BY <1>3, <1>4, <1>5 DEF Init, TagsMatch, ValidationCurrent, SignerShape, LockWaits
<1> QED BY <1>6, <1>7, <1>8 DEF IInv

LEMMA ValidateKeeps ==
    ASSUME IInv
    PROVE  /\ \A k \in Keys : ValidateBegin(k) => IInv'
           /\ \A v \in validating : ValidateEnd(v) =>
                 IInv' /\ \A k \in Keys : mem'[k].counter = mem[k].counter
<1> USE DEF IInv
<1>1. ASSUME NEW k \in Keys, ValidateBegin(k) PROVE IInv'
  <2>1. mem[k].counter \in Counters
    BY DEF TypeOK, Records
  <2>2. TypeOK'
    BY <1>1, <2>1 DEF TypeOK, ValidateBegin
  <2>3. ValidationCurrent'
    BY <1>1 DEF ValidationCurrent, ValidateBegin
  <2>4. Covered' /\ TagsMatch' /\ SignerShape' /\ LockWaits'
    BY <1>1 DEF ValidateBegin, Covered, TagsMatch, SignerShape, LockWaits
  <2> QED BY <2>2, <2>3, <2>4
<1>2. ASSUME NEW v \in validating, ValidateEnd(v)
      PROVE  IInv' /\ \A k \in Keys : mem'[k].counter = mem[k].counter
  <2>1. v.key \in Keys /\ v.counter \in Counters
    BY DEF TypeOK
  <2>2. /\ mem' \in [Keys -> Records]
        /\ \A k \in Keys : /\ mem'[k].counter = mem[k].counter /\ mem'[k].tag = mem[k].tag
                           /\ mem'[k].form = "crypted" <=> mem[k].form = "crypted"
    <3>0. mem \in [Keys -> Records]
      BY DEF TypeOK
    <3>1. CASE mem[v.key].form # "pending"
      BY <3>0, <3>1, <1>2 DEF ValidateEnd
    <3>2. CASE mem[v.key].form = "pending"
      <4>1. v.counter = mem[v.key].counter
        BY <3>2 DEF ValidationCurrent
      <4>2. CASE mem' = [mem EXCEPT ![v.key].form = "failed"]
        BY <4>2, <3>0, <3>2, <2>1 DEF Records, Forms
      <4>3. CASE mem' = [mem EXCEPT ![v.key].form = "plain", ![v.key].counter = v.counter]
        BY <4>3, <4>1, <3>0, <3>2, <2>1 DEF Records, Forms
      <4> QED BY <4>2, <4>3, <3>2, <1>2 DEF ValidateEnd
    <3> QED BY <3>1, <3>2
  <2>3. TypeOK'
    BY <1>2, <2>2 DEF TypeOK, ValidateEnd
  <2>4. ValidationCurrent'
    BY <1>2 DEF ValidationCurrent, ValidateEnd
  <2>5. Covered'
    <3>1. \A j \in spent : j[1] \in Keys
      BY DEF TypeOK, Jobs
    <3> QED BY <1>2, <2>2, <3>1 DEF Covered, ValidateEnd
  <2>6. TagsMatch' /\ SignerShape' /\ LockWaits'
    BY <1>2, <2>2 DEF ValidateEnd, TagsMatch, Decrypts, SignerShape, LockWaits
  <2> QED BY <2>2, <2>3, <2>4, <2>5, <2>6
<1> QED BY <1>1, <1>2

LEMMA SignerSteps ==
    ASSUME IInv, NEW s \in Signers
    PROVE  /\ BeginSigning(s) => IInv'
           /\ GetSigningProvider(s) => IInv'
           /\ \A j \in signer[s].jobs : Sign(s, j) => IInv'
           /\ SignFails(s) => IInv'
           /\ EndSigning(s) => IInv'
<1> USE DEF IInv
<1>0. /\ signer \in [Signers -> SignerStates]
      /\ \A t \in Signers : signer[t].jobs \subseteq Jobs /\ signer[t].jobs \subseteq spent
      /\ spent \subseteq Jobs /\ signed \subseteq spent
  BY DEF TypeOK, SignerStates, Covered
<1>1. ASSUME db' = db, walletvars' = walletvars, spent' = spent,
             signed' \subseteq spent,
             NEW x \in SignerStates, signer' = [signer EXCEPT ![s] = x],
             x.jobs \subseteq spent,
             x.counted => crypted,
             x.pc # "signing" => x.counters = NoProvider,
             x.counted => \A k \in Keys : x.counters[k] # NoCounter => master
      PROVE  IInv'
  <2>0. /\ signer' \in [Signers -> SignerStates]
        /\ signer'[s] = x /\ \A t \in Signers \ {s} : signer'[t] = signer[t]
    BY <1>0, <1>1
  <2>1. TypeOK'
    BY <1>0, <1>1, <2>0 DEF TypeOK, walletvars
  <2>2. Covered' /\ TagsMatch' /\ ValidationCurrent'
    BY <1>0, <1>1, <2>0 DEF Covered, TagsMatch, ValidationCurrent, walletvars
  <2>3. SignerShape' /\ LockWaits'
    BY <1>1, <2>0 DEF SignerShape, LockWaits, walletvars
  <2> QED BY <2>1, <2>2, <2>3
<1> DEFINE y == signer[s]
<1>y. /\ y \in SignerStates /\ y.jobs \subseteq spent
      /\ y.counted => crypted
      /\ y.pc # "signing" => y.counters = NoProvider
      /\ y.counted => \A k \in Keys : y.counters[k] # NoCounter => master
  BY <1>0 DEF SignerShape, LockWaits
<1>2. ASSUME BeginSigning(s) PROVE IInv'
  <2> DEFINE x == [y EXCEPT !.pc = "begun", !.counted = crypted]
  <2>1. signer' = [signer EXCEPT ![s] = x]
    BY <1>0, <1>2 DEF BeginSigning
  <2>2. crypted \in BOOLEAN
    BY DEF TypeOK
  <2> HIDE DEF y
  <2>3. x \in SignerStates /\ x.jobs = y.jobs /\ x.counters = y.counters
        /\ x.counted = crypted /\ x.pc = "begun"
    BY <1>y, <2>2 DEF SignerStates
  <2>4. y.pc = "idle"
    BY <1>2 DEF BeginSigning, y
  <2>5. x.counters = NoProvider /\ \A k \in Keys : x.counters[k] = NoCounter
    BY <1>y, <2>3, <2>4 DEF NoProvider
  <2> HIDE DEF x, IInv
  <2> QED BY <1>0, <1>1, <1>2, <1>y, <2>1, <2>3, <2>5 DEF BeginSigning
<1>3. ASSUME GetSigningProvider(s) PROVE IInv'
  <2> DEFINE c == [k \in Keys |-> IF Usable(k) THEN mem[k].counter ELSE NoCounter]
             x == [y EXCEPT !.pc = "signing", !.counters = c]
  <2>1. signer' = [signer EXCEPT ![s] = x]
    BY <1>0, <1>3 DEF GetSigningProvider
  <2>2. c \in [Keys -> Counters \cup {NoCounter}]
    BY DEF TypeOK, Records
  <2>3. y.counted => \A k \in Keys : c[k] # NoCounter => master
    BY <1>y DEF Usable, Locked
  <2> HIDE DEF y, c
  <2>4. x \in SignerStates /\ x.jobs = y.jobs /\ x.counters = c
        /\ x.counted = y.counted /\ x.pc = "signing"
    BY <1>y, <2>2 DEF SignerStates
  <2> HIDE DEF x, IInv
  <2> QED BY <1>0, <1>1, <1>3, <1>y, <2>1, <2>3, <2>4 DEF GetSigningProvider
<1>4. ASSUME NEW J \in SUBSET y.jobs, signer' = [signer EXCEPT ![s].jobs = J],
             db' = db, walletvars' = walletvars, spent' = spent,
             signed' \subseteq spent
      PROVE  IInv'
  <2> DEFINE x == [y EXCEPT !.jobs = J]
  <2>1. signer' = [signer EXCEPT ![s] = x]
    BY <1>0, <1>4
  <2> HIDE DEF y
  <2>2. x \in SignerStates /\ x.jobs = J /\ x.counters = y.counters
        /\ x.counted = y.counted /\ x.pc = y.pc
    BY <1>y, <1>4 DEF SignerStates
  <2> HIDE DEF x, IInv
  <2> QED BY <1>1, <1>4, <1>y, <2>1, <2>2
<1>5. ASSUME NEW j \in signer[s].jobs, Sign(s, j) PROVE IInv'
  <2>1. signer' = [signer EXCEPT ![s].jobs = y.jobs \ {j}]
    BY <1>0, <1>5 DEF Sign
  <2>2. signed' \subseteq spent
    BY <1>0, <1>5 DEF Sign
  <2>3. db' = db /\ walletvars' = walletvars /\ spent' = spent
    BY <1>5 DEF Sign
  <2>4. y.jobs \ {j} \in SUBSET y.jobs
    OBVIOUS
  <2> HIDE DEF y, IInv
  <2> QED BY <1>4, <2>1, <2>2, <2>3, <2>4
<1>6. ASSUME SignFails(s) PROVE IInv'
  <2>1. {} \in SUBSET y.jobs
    OBVIOUS
  <2>2. /\ signer' = [signer EXCEPT ![s].jobs = {}]
        /\ db' = db /\ walletvars' = walletvars /\ spent' = spent /\ signed' = signed
    BY <1>6 DEF SignFails
  <2> HIDE DEF y, IInv
  <2> QED BY <1>0, <1>4, <2>1, <2>2
<1>7. ASSUME EndSigning(s) PROVE IInv'
  <2>1. IdleSigner \in SignerStates /\ ~IdleSigner.counted /\ IdleSigner.jobs = {}
        /\ IdleSigner.counters = NoProvider
    BY DEF IdleSigner, SignerStates, NoProvider
  <2> HIDE DEF IInv
  <2> QED BY <1>0, <1>1, <1>7, <2>1 DEF EndSigning
<1> QED BY <1>2, <1>3, <1>5, <1>6, <1>7

LEMMA ReservationDone ==
    ASSUME IInv, NEW s \in Signers, NEW counts, IsCounts(counts), MayReserve(counts),
           UNCHANGED <<master, crypted, block, locker, validating, signed>>,
           signer[s].pc = "signing", signer[s].jobs = {},
           CommitReservation(counts),
           NEW c \in [Keys -> Counters \cup {NoCounter}],
           \A k \in Keys : c[k] # NoCounter => signer[s].counters[k] # NoCounter,
           signer' = [signer EXCEPT ![s].jobs = Assigned(counts), ![s].counters = c]
    PROVE  /\ IInv'
           /\ \A t \in Signers : (signer'[t].jobs \ signer[t].jobs) \cap spent = {}
           /\ \A k \in Keys : mem'[k].counter >= mem[k].counter
<1> USE DEF IInv
<1>0. /\ signer \in [Signers -> SignerStates]
      /\ \A t \in Signers : signer[t].jobs \subseteq spent
      /\ signed \subseteq spent /\ spent \subseteq Jobs
      /\ validating \subseteq [key : Keys, counter : Counters]
  BY DEF TypeOK, Covered
<1>1. Recorded
  BY DEF Recorded, TypeOK, Covered
<1> DEFINE y == signer[s]
           A == Assigned(counts)
           x == [y EXCEPT !.jobs = A, !.counters = c]
<1>3. /\ Recorded' /\ A \subseteq spent' /\ spent \subseteq spent' /\ A \cap spent = {}
      /\ \A k \in Keys : mem'[k].counter >= mem[k].counter /\ mem'[k].form = mem[k].form
  BY <1>0, <1>1, CommitKeeps
<1>4. signer' = [signer EXCEPT ![s] = x]
  BY <1>0
<1>5. y \in SignerStates /\ y.pc = "signing" /\ y.jobs = {}
  BY <1>0
<1>6. \A k \in Keys : c[k] # NoCounter => y.counters[k] # NoCounter
  OBVIOUS
<1>7. A \subseteq Jobs
  BY DEF Assigned
<1> HIDE DEF y, A
<1>8. x \in SignerStates /\ x.jobs = A /\ x.counted = y.counted /\ x.pc = "signing"
      /\ x.counters = c
  BY <1>5, <1>7 DEF SignerStates
<1> HIDE DEF x
<1>9. /\ signer' \in [Signers -> SignerStates]
      /\ signer'[s] = x /\ \A t \in Signers \ {s} : signer'[t] = signer[t]
  BY <1>0, <1>4, <1>8
<1>10. TypeOK'
  BY <1>0, <1>3, <1>9 DEF TypeOK, Recorded
<1>11. Covered'
  BY <1>0, <1>3, <1>8, <1>9 DEF Covered, Recorded
<1>13. SignerShape'
  BY <1>8, <1>9 DEF SignerShape, y
<1>14. LockWaits'
  BY <1>3, <1>6, <1>8, <1>9 DEF LockWaits, y
<1>15. \A t \in Signers : (signer'[t].jobs \ signer[t].jobs) \cap spent = {}
  BY <1>3, <1>8, <1>9
<1> QED BY <1>3, <1>10, <1>11, <1>13, <1>14, <1>15 DEF Recorded

LEMMA ReservationUndone ==
    ASSUME IInv, NEW counts, IsCounts(counts), MayReserve(counts),
           UNCHANGED <<master, crypted, block, locker, validating, signed>>,
           ReservationFails(counts), UNCHANGED signer
    PROVE  IInv' /\ mem' = mem
<1> USE DEF IInv
<1>1. Recorded
  BY DEF Recorded, TypeOK, Covered
<1>2. Recorded' /\ mem' = mem /\ spent' = spent
  BY <1>1, FailureKeeps
<1>3. TypeOK' /\ Covered'
  BY <1>2 DEF TypeOK, Covered, Recorded
<1>4. SignerShape' /\ LockWaits'
  BY <1>2 DEF SignerShape, LockWaits
<1> QED BY <1>2, <1>3, <1>4 DEF Recorded

LEMMA LockSteps ==
    ASSUME IInv
    PROVE  (LockBegin => IInv') /\ (LockClear => IInv') /\ (LockEnd => IInv')
<1> USE DEF IInv
<1>1. ASSUME db' = db, mem' = mem, validating' = validating, signer' = signer,
             spent' = spent, signed' = signed, crypted' = crypted,
             master' \in BOOLEAN, block' \in BOOLEAN, locker' \in {"idle", "wait", "done"},
             master' = master \/ \A s \in Signers : ~signer[s].counted
      PROVE  IInv'
  <2>1. TypeOK' /\ Covered'
    BY <1>1 DEF TypeOK, Covered
  <2>2. ValidationCurrent' /\ TagsMatch' /\ SignerShape'
    BY <1>1 DEF ValidationCurrent, TagsMatch, SignerShape
  <2>3. LockWaits'
    BY <1>1 DEF LockWaits
  <2> QED BY <2>1, <2>2, <2>3
<1>2. master \in BOOLEAN /\ block \in BOOLEAN
  BY DEF TypeOK
<1>3. LockBegin => IInv'
  BY <1>1, <1>2 DEF LockBegin
<1>4. LockClear => IInv'
  BY <1>1, <1>2 DEF LockClear
<1>5. LockEnd => IInv'
  BY <1>1, <1>2 DEF LockEnd
<1> QED BY <1>3, <1>4, <1>5

LEMMA UnlockKeeps ==
    ASSUME IInv, Unlock
    PROVE  IInv' /\ \A k \in Keys : mem'[k].counter = mem[k].counter
<1> USE DEF IInv
<1>1. PICK written \in SUBSET Keys, acknowledged \in SUBSET Keys :
         /\ acknowledged \subseteq written
         /\ db' = [k \in Keys |-> IF k \in written THEN Tagged(mem[k]) ELSE db[k]]
         /\ mem' = [k \in Keys |-> IF k \in acknowledged THEN Tagged(mem[k]) ELSE mem[k]]
  BY DEF Unlock
<1>2. db \in [Keys -> Records] /\ mem \in [Keys -> Records]
  BY DEF TypeOK
<1>3. \A k \in Keys : /\ Tagged(mem[k]) \in Records
                     /\ Tagged(mem[k]).counter = mem[k].counter
                     /\ Tagged(mem[k]).form = mem[k].form
                     /\ Decrypts(Tagged(mem[k]))
  BY <1>2 DEF Tagged, Records, Decrypts
<1>4. db' \in [Keys -> Records] /\ mem' \in [Keys -> Records]
  BY <1>1, <1>2, <1>3
<1>5. \A k \in Keys : /\ mem'[k].counter = mem[k].counter /\ mem'[k].form = mem[k].form
                     /\ db'[k].counter \in {db[k].counter, mem[k].counter}
  BY <1>1, <1>3
<1>T. \A k \in Keys : mem'[k] \in {mem[k], Tagged(mem[k])} /\ db'[k] \in {db[k], Tagged(mem[k])}
  BY <1>1
<1>6. \A k \in Keys : mem[k].counter \in Nat /\ mem[k].form = "crypted" /\ Decrypts(mem[k])
  <2>1. \A r \in Records : r.counter \in Nat
    BY WalletAssumption DEF Records, Counters
  <2> QED BY <1>2, <2>1 DEF Unlock, AllCrypted
<1>7. /\ master' = TRUE
      /\ UNCHANGED <<crypted, block, locker, validating, signer, spent, signed>>
  BY DEF Unlock
<1>8. TypeOK'
  BY <1>4, <1>7 DEF TypeOK
<1>9. Covered'
  <2>1. \A j \in spent : j[1] \in Keys
    BY DEF TypeOK, Jobs
  <2> QED BY <1>5, <1>6, <1>7, <2>1 DEF Covered
<1>10. ValidationCurrent'
  <2>1. \A v \in validating : v.key \in Keys
    BY DEF TypeOK
  <2> QED BY <1>5, <1>7, <2>1 DEF ValidationCurrent
<1>11. TagsMatch'
  BY <1>3, <1>6, <1>T DEF TagsMatch
<1>12. SignerShape' /\ LockWaits'
  BY <1>5, <1>7 DEF SignerShape, LockWaits
<1> QED BY <1>5, <1>8, <1>9, <1>10, <1>11, <1>12

LEMMA EncryptKeeps ==
    ASSUME IInv, EncryptWallet
    PROVE  IInv' /\ \A k \in Keys : mem'[k].counter >= mem[k].counter
<1>1. db \in [Keys -> Records] /\ mem \in [Keys -> Records]
  BY DEF IInv, TypeOK
<1> DEFINE e == Encrypted
<1>2. /\ e \in [Keys -> Records]
      /\ \A k \in Keys : /\ e[k].counter = mem[k].counter
                         /\ e[k].form = "crypted" /\ Decrypts(e[k])
  BY <1>1 DEF Encrypted, Tagged, Records, Forms, Decrypts
<1>3. \A k \in Keys : mem[k].counter \in Nat
  <2>1. \A r \in Records : r.counter \in Nat
    BY WalletAssumption DEF Records, Counters
  <2> QED BY <1>1, <2>1
<1>4. ~crypted
  BY DEF EncryptWallet
<1> HIDE DEF e
<1>5. ASSUME db' = e, mem' = e, master' = FALSE, crypted' = TRUE,
             UNCHANGED <<block, locker, validating, signer, spent, signed>>
      PROVE  IInv' /\ \A k \in Keys : mem'[k].counter >= mem[k].counter
  <2>1. \A s \in Signers : ~signer[s].counted
    BY <1>4 DEF IInv, SignerShape
  <2>2. TypeOK'
    BY <1>2, <1>5 DEF IInv, TypeOK
  <2>3. Covered'
    <3>1. \A j \in spent : j[1] \in Keys
      BY DEF IInv, TypeOK, Jobs
    <3> QED BY <1>2, <1>3, <1>5, <3>1 DEF IInv, Covered
  <2>4. ValidationCurrent'
    <3>1. \A v \in validating : v.key \in Keys
      BY DEF IInv, TypeOK
    <3> QED BY <1>2, <1>5, <3>1 DEF ValidationCurrent
  <2>5. TagsMatch'
    BY <1>2, <1>5 DEF TagsMatch
  <2>6. SignerShape' /\ LockWaits'
    BY <1>5, <2>1 DEF IInv, SignerShape, LockWaits
  <2> QED BY <1>2, <1>3, <1>5, <2>2, <2>3, <2>4, <2>5, <2>6 DEF IInv
<1>6. ASSUME Restarted(e)
      PROVE  IInv' /\ \A k \in Keys : mem'[k].counter >= mem[k].counter
  BY <1>2, <1>3, <1>6, RestartKeeps
<1>7. ASSUME Restarted(db)
      PROVE  IInv' /\ \A k \in Keys : mem'[k].counter >= mem[k].counter
  BY <1>1, <1>7, RestartKeeps DEF IInv, Covered, TagsMatch
<1>8. ASSUME crypted' = TRUE,
             UNCHANGED <<db, mem, master, block, locker, validating, signer, spent, signed>>
      PROVE  IInv' /\ \A k \in Keys : mem'[k].counter >= mem[k].counter
  <2>1. TypeOK' /\ Covered' /\ ValidationCurrent' /\ TagsMatch'
    BY <1>8 DEF IInv, TypeOK, Covered, ValidationCurrent, TagsMatch
  <2>2. SignerShape' /\ LockWaits'
    BY <1>8 DEF IInv, SignerShape, LockWaits
  <2> QED BY <1>3, <1>8, <2>1, <2>2 DEF IInv
<1> QED BY <1>5, <1>6, <1>7, <1>8 DEF EncryptWallet, e

\* What a step may do to the values handed out and to the counters.
StepKeeps ==
    /\ \A t \in Signers : (signer'[t].jobs \ signer[t].jobs) \cap spent = {}
    /\ \A k \in Keys : mem'[k].counter >= mem[k].counter

LEMMA ReserveSteps ==
    ASSUME IInv, NEW s \in Signers
    PROVE  /\ \A k \in Keys : SignPQC(s, k) => IInv' /\ StepKeeps
           /\ \A counts \in Batches :
                 SignTransactionPQCParallel(s, counts) => IInv' /\ StepKeeps
<1>0. /\ signer \in [Signers -> SignerStates] /\ mem \in [Keys -> Records]
      /\ signer[s].counters \in [Keys -> Counters \cup {NoCounter}]
  BY DEF IInv, TypeOK, SignerStates
<1>N. \A k \in Keys : mem[k].counter \in Nat
  <2>1. \A r \in Records : r.counter \in Nat
    BY WalletAssumption DEF Records, Counters
  <2> QED BY <1>0, <2>1
<1>F. ASSUME mem' = mem, signer' = signer PROVE StepKeeps
  BY <1>F, <1>N DEF StepKeeps
<1>1. ASSUME NEW k \in Keys, SignPQC(s, k) PROVE IInv' /\ StepKeeps
  <2> DEFINE counts == [j \in {k} |-> 1]
             c == [signer[s].counters EXCEPT ![k] = mem[k].counter + 1]
  <2>1. /\ signer[s].pc = "signing" /\ signer[s].jobs = {}
        /\ CanSignPQC(s, k) /\ MayReserve(counts)
        /\ UNCHANGED <<master, crypted, block, locker, validating, signed>>
        /\ \/ /\ CommitReservation(counts)
              /\ signer' = [signer EXCEPT ![s].jobs = Assigned(counts),
                                          ![s].counters[k] = mem[k].counter + 1]
           \/ ReservationFails(counts) /\ UNCHANGED signer
    BY <1>1 DEF SignPQC
  <2>2. IsCounts(counts)
    BY CallersPassCounts
  <2>3. \A j \in Keys : c[j] # NoCounter => signer[s].counters[j] # NoCounter
    BY <1>0, <2>1 DEF CanSignPQC, NoCounter
  <2>4. mem[k].counter + 1 \in Counters
    <3>1. mem[k].counter <= MaxSignatures - 1
      BY <2>1 DEF MayReserve
    <3> QED BY <3>1, <1>N, WalletAssumption DEF Counters
  <2>5. c \in [Keys -> Counters \cup {NoCounter}]
    BY <1>0, <2>4
  <2>6. [signer EXCEPT ![s].jobs = Assigned(counts), ![s].counters[k] = mem[k].counter + 1]
        = [signer EXCEPT ![s].jobs = Assigned(counts), ![s].counters = c]
    BY <1>0 DEF SignerStates
  <2> HIDE DEF counts, c
  <2>7. CASE /\ CommitReservation(counts)
             /\ signer' = [signer EXCEPT ![s].jobs = Assigned(counts), ![s].counters = c]
    BY <2>1, <2>2, <2>3, <2>5, <2>7, ReservationDone DEF StepKeeps
  <2>8. CASE ReservationFails(counts) /\ UNCHANGED signer
    BY <2>1, <2>2, <2>8, <1>F, ReservationUndone
  <2> QED BY <2>1, <2>6, <2>7, <2>8
<1>2. ASSUME NEW counts \in Batches, SignTransactionPQCParallel(s, counts)
      PROVE  IInv' /\ StepKeeps
  <2> DEFINE c == signer[s].counters
  <2>1. /\ signer[s].pc = "signing" /\ signer[s].jobs = {}
        /\ MayReserve(counts)
        /\ UNCHANGED <<master, crypted, block, locker, validating, signed>>
        /\ \/ /\ CommitReservation(counts)
              /\ signer' = [signer EXCEPT ![s].jobs = Assigned(counts)]
           \/ ReservationFails(counts) /\ UNCHANGED signer
    BY <1>2 DEF SignTransactionPQCParallel
  <2>2. IsCounts(counts)
    BY CallersPassCounts
  <2>4. [signer EXCEPT ![s].jobs = Assigned(counts)]
        = [signer EXCEPT ![s].jobs = Assigned(counts), ![s].counters = c]
    BY <1>0 DEF SignerStates
  <2>5. CASE /\ CommitReservation(counts)
             /\ signer' = [signer EXCEPT ![s].jobs = Assigned(counts), ![s].counters = c]
    BY <1>0, <2>1, <2>2, <2>5, ReservationDone DEF StepKeeps
  <2>6. CASE ReservationFails(counts) /\ UNCHANGED signer
    BY <2>1, <2>2, <2>6, <1>F, ReservationUndone
  <2> QED BY <2>1, <2>4, <2>5, <2>6
<1> QED BY <1>1, <1>2

\* Every step keeps the invariant, hands out only fresh values and takes no
\* counter back.
LEMMA NextInvariant == IInv /\ [Next]_vars => IInv' /\ StepKeeps
<1> SUFFICES ASSUME IInv, [Next]_vars PROVE IInv' /\ StepKeeps
  OBVIOUS
<1>N. \A k \in Keys : mem[k].counter \in Nat
  <2>1. \A r \in Records : r.counter \in Nat
    BY WalletAssumption DEF Records, Counters
  <2> QED BY <2>1 DEF IInv, TypeOK
\* Most steps change no counter and hand out nothing.
<1>K. ASSUME \A k \in Keys : mem'[k].counter = mem[k].counter,
             \A t \in Signers : signer'[t].jobs \subseteq signer[t].jobs
      PROVE  StepKeeps
  BY <1>K, <1>N DEF StepKeeps
<1>I. IdleSigner.jobs = {}
  BY DEF IdleSigner
<1>S. signer \in [Signers -> SignerStates]
  BY DEF IInv, TypeOK
<1>1. ASSUME NEW k \in Keys, ValidateBegin(k) PROVE IInv' /\ StepKeeps
  BY <1>1, <1>K, ValidateKeeps DEF ValidateBegin
<1>2. ASSUME NEW v \in validating, ValidateEnd(v) PROVE IInv' /\ StepKeeps
  BY <1>2, <1>K, ValidateKeeps DEF ValidateEnd
<1>3. ASSUME NEW s \in Signers, BeginSigning(s) PROVE IInv' /\ StepKeeps
  <2>1. \A t \in Signers : signer'[t].jobs = signer[t].jobs
    BY <1>3, <1>S DEF BeginSigning, SignerStates
  <2> QED BY <1>3, <1>K, <2>1, SignerSteps DEF BeginSigning, walletvars
<1>4. ASSUME NEW s \in Signers, GetSigningProvider(s) PROVE IInv' /\ StepKeeps
  <2>1. \A t \in Signers : signer'[t].jobs = signer[t].jobs
    BY <1>4, <1>S DEF GetSigningProvider, SignerStates
  <2> QED BY <1>4, <1>K, <2>1, SignerSteps DEF GetSigningProvider, walletvars
<1>5. ASSUME NEW s \in Signers, NEW j \in signer[s].jobs, Sign(s, j)
      PROVE  IInv' /\ StepKeeps
  <2>1. \A t \in Signers : signer'[t].jobs \subseteq signer[t].jobs
    BY <1>5, <1>S DEF Sign, SignerStates
  <2> QED BY <1>5, <1>K, <2>1, SignerSteps DEF Sign, walletvars
<1>6. ASSUME NEW s \in Signers, SignFails(s) PROVE IInv' /\ StepKeeps
  <2>1. \A t \in Signers : signer'[t].jobs \subseteq signer[t].jobs
    BY <1>6, <1>S DEF SignFails, SignerStates
  <2> QED BY <1>6, <1>K, <2>1, SignerSteps DEF SignFails, walletvars
<1>7. ASSUME NEW s \in Signers, EndSigning(s) PROVE IInv' /\ StepKeeps
  <2>1. \A t \in Signers : signer'[t].jobs \subseteq signer[t].jobs
    BY <1>7, <1>S, <1>I DEF EndSigning
  <2> QED BY <1>7, <1>K, <2>1, SignerSteps DEF EndSigning, walletvars
<1>8. ASSUME LockBegin \/ LockClear \/ LockEnd PROVE IInv' /\ StepKeeps
  BY <1>8, <1>K, LockSteps DEF LockBegin, LockClear, LockEnd
<1>9. ASSUME Unlock PROVE IInv' /\ StepKeeps
  BY <1>9, <1>K, UnlockKeeps DEF Unlock
<1>10. ASSUME EncryptWallet PROVE IInv' /\ StepKeeps
  <2>1. \A t \in Signers : signer'[t].jobs \subseteq signer[t].jobs
    BY <1>10, <1>I DEF EncryptWallet, Restarted
  <2> QED BY <1>10, <2>1, EncryptKeeps DEF StepKeeps
<1>11. ASSUME Crash PROVE IInv' /\ StepKeeps
  <2>1. \A t \in Signers : signer'[t].jobs \subseteq signer[t].jobs
    BY <1>11, <1>I DEF Crash, Restarted
  <2>2. db \in [Keys -> Records]
    BY DEF IInv, TypeOK
  <2>3. /\ \A k \in Keys : mem[k].counter <= db[k].counter
        /\ \A k \in Keys : db[k].form = "crypted" => Decrypts(db[k])
    BY DEF IInv, Covered, TagsMatch
  <2>4. Restarted(db)
    BY <1>11 DEF Crash
  <2> QED BY <2>1, <2>2, <2>3, <2>4, RestartKeeps DEF StepKeeps
<1>12. ASSUME UNCHANGED vars PROVE IInv' /\ StepKeeps
  <2>1. StepKeeps
    BY <1>12, <1>K DEF vars, walletvars
  <2>2. TypeOK' /\ Covered' /\ ValidationCurrent' /\ TagsMatch'
    BY <1>12 DEF IInv, vars, walletvars, TypeOK, Covered, ValidationCurrent, TagsMatch
  <2>3. SignerShape' /\ LockWaits'
    BY <1>12 DEF IInv, vars, walletvars, SignerShape, LockWaits
  <2> QED BY <2>1, <2>2, <2>3 DEF IInv
<1>13. ASSUME NEW s \in Signers, NEW k \in Keys, SignPQC(s, k) PROVE IInv' /\ StepKeeps
  BY <1>13, ReserveSteps
<1>14. ASSUME NEW s \in Signers, NEW counts \in Batches, SignTransactionPQCParallel(s, counts)
       PROVE  IInv' /\ StepKeeps
  BY <1>14, ReserveSteps
<1> QED
  BY <1>1, <1>2, <1>3, <1>4, <1>5, <1>6, <1>7, <1>8, <1>9, <1>10, <1>11, <1>12, <1>13, <1>14
  DEF Next

LEMMA Invariance == Spec => []IInv
  BY InitInvariant, NextInvariant, PTL DEF Spec

-----------------------------------------------------------------------------
(* The theorems.                                                           *)

\* Every variable keeps its type; in particular no counter passes
\* PQC_MAX_SIGNATURES, in memory or in the database.
THEOREM TypeCorrect == Spec => []TypeOK
  BY Invariance, PTL DEF IInv

\* No signature uses a counter value that the database does not count, after
\* any crashes, failed commits, encryptions and validations.
THEOREM DurableBeforeSigning == Spec => []SignaturesDurable
<1>1. IInv => SignaturesDurable
  <2> SUFFICES ASSUME IInv, NEW j \in signed PROVE j[2] < db[j[1]].counter
    BY DEF SignaturesDurable
  <2>1. j \in spent /\ j[1] \in Keys /\ j[2] \in Int
    BY WalletAssumption DEF IInv, Covered, TypeOK, Jobs
  <2>2. \A r \in Records : r.counter \in Int
    BY WalletAssumption DEF Records, Counters
  <2>3. mem[j[1]].counter \in Int /\ db[j[1]].counter \in Int
    BY <2>1, <2>2 DEF IInv, TypeOK
  <2> QED BY <2>1, <2>3 DEF IInv, Covered
<1> QED BY <1>1, Invariance, PTL

\* The tag of an encrypted record is that of its counter.
THEOREM TagsAlwaysMatch == Spec => []TagsMatch
  BY Invariance, PTL DEF IInv

\* Lock leaves the master key to the signers of an encrypted wallet.
THEOREM LockWaitsForSigners == Spec => []LockWaits
  BY Invariance, PTL DEF IInv

\* A counter value is handed out once in the life of the key.
THEOREM HandedOutOnce == Spec => NeverReassigned
<1>1. StepKeeps => \A s \in Signers : (signer'[s].jobs \ signer[s].jobs) \cap spent = {}
  BY DEF StepKeeps
<1> QED BY <1>1, Invariance, NextInvariant, PTL DEF Spec, NeverReassigned

\* The counter in memory never goes back.
THEOREM CountersOnlyGrow == Spec => CounterMonotone
<1>1. StepKeeps => \A k \in Keys : mem'[k].counter >= mem[k].counter
  BY DEF StepKeeps
<1> QED BY <1>1, Invariance, NextInvariant, PTL DEF Spec, CounterMonotone
=============================================================================
