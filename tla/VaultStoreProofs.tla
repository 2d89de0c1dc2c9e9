-------------------------- MODULE VaultStoreProofs --------------------------
(***************************************************************************)
(* What the formats of a stored vault keep and what they refuse, for every *)
(* vault and every passphrase; and what the pipeline behind a save keeps,  *)
(* for any calls, cards, messages and older vaults, any number of them at  *)
(* once, through failed writes, locks and crashes.                         *)
(*                                                                         *)
(* LineInv is about the two queues: which jobs can stand in them in which  *)
(* phase and which caller each stands for. DataInv adds what is in them.   *)
(* A later snapshot has what an earlier one has, but not because the next  *)
(* has what the last has: an excused card may be missing in between and    *)
(* there again behind. So each place is compared with every later one. A   *)
(* failed commit moves the live vault back, so the image it would put back *)
(* stands in the same line, short only of what commits behind it pinned.   *)
(*                                                                         *)
(* That the pipeline is a DurableCell is about the snapshots in both       *)
(* queues, read as one: SnapshotsIn is followed along a queue by a run, and*)
(* each step of the pipeline adds a snapshot behind, takes the one in      *)
(* front, moves one from queue to queue in its place, or moves none.       *)
(***************************************************************************)
EXTENDS VaultStore, FiniteSetTheorems, SequenceTheorems, TLAPS

IsVaultData(data) ==
  /\ data = [k \in Keys |-> data[k]]
  /\ \A mr \in data["messages"] : IsMessage(mr)

\* A field comes back as it was, whatever it carries.
LEMMA FieldRoundTrip ==
  ASSUME NEW mr, IsMessage(mr), NEW f \in Required \cup Optional, mr[f] # Absent
  PROVE  Decoded(f, Coded(f, mr[f])) = mr[f]
<1>1. CASE f = "direction"
  BY <1>1 DEF IsMessage, Coded, Decoded
<1>2. CASE f = "delivery"
  BY <1>2 DEF IsMessage, Coded, Decoded
<1>3. CASE f # "direction" /\ f # "delivery"
  BY <1>3 DEF Coded, Decoded
<1>4. QED  BY <1>1, <1>2, <1>3

(* A message is read back as it was written: what it carries, and what it   *)
(* does not (vault.ts encodeVaultData, decodeVaultData).                    *)
THEOREM MessageRoundTrip ==
  ASSUME NEW mr, IsMessage(mr)
  PROVE  DecodeMessage(EncodeMessage(mr)) = mr
<1> DEFINE D == Required \cup { g \in Optional : mr[g] # Absent }
           back(f) == IF f \in D THEN Decoded(f, Coded(f, mr[f])) ELSE Absent
<1>1. EncodeMessage(mr) = [f \in D |-> Coded(f, mr[f])]
  BY DEF EncodeMessage
<1>2. DecodeMessage(EncodeMessage(mr)) = [f \in Required \cup Optional |-> back(f)]
  BY <1>1 DEF DecodeMessage
<1>3. ASSUME NEW f \in Required \cup Optional
      PROVE  back(f) = mr[f]
  <2>1. CASE f \in D
    <3>1. mr[f] # Absent  BY <2>1 DEF IsMessage
    <3>2. QED  BY <2>1, <3>1, FieldRoundTrip
  <2>2. CASE f \notin D
    BY <2>2
  <2>3. QED  BY <2>1, <2>2
<1>4. mr = [f \in Required \cup Optional |-> mr[f]]
  BY DEF IsMessage
<1>5. [f \in Required \cup Optional |-> back(f)] = [f \in Required \cup Optional |-> mr[f]]
  <2> HIDE DEF back
  <2> QED  BY <1>3
<1>6. QED  BY <1>2, <1>4, <1>5

\* The messages of a vault come back as they were.
LEMMA MessagesRoundTrip ==
  ASSUME NEW S, \A mr \in S : IsMessage(mr)
  PROVE  { DecodeMessage(rec) : rec \in { EncodeMessage(mr) : mr \in S } } = S
<1>1. \A mr \in S : DecodeMessage(EncodeMessage(mr)) = mr
  BY MessageRoundTrip
<1>2. QED  BY <1>1

\* So does everything else, when every key was written.
LEMMA DataRoundTrip ==
  ASSUME NEW data, IsVaultData(data)
  PROVE  DecodeVaultData(EncodeVaultData(data)) = data
<1> DEFINE map == EncodeVaultData(data)
<1>1. DOMAIN map = Keys
  BY DEF EncodeVaultData
<1>2. "messages" \in Keys
  BY DEF Keys
<1>3. map["messages"] = { EncodeMessage(mr) : mr \in data["messages"] }
  BY <1>2 DEF EncodeVaultData
<1>4. \A k \in Keys \ {"messages"} : map[k] = data[k]
  BY DEF EncodeVaultData
<1>5. { DecodeMessage(rec) : rec \in map["messages"] } = data["messages"]
  BY <1>3, MessagesRoundTrip DEF IsVaultData
<1> HIDE DEF map
<1>6. DecodeVaultData(map) = [k \in Keys |-> data[k]]
  BY <1>1, <1>4, <1>5 DEF DecodeVaultData
<1>7. QED  BY <1>6 DEF map, IsVaultData

(* What createVaultBlob agrees to write, decryptVaultBlob opens with the    *)
(* same passphrase and gives back whole: no vault can lock its owner out.   *)
THEOREM BlobRoundTrip ==
  ASSUME NEW passphrase, NEW data, IsVaultData(data), NEW params, NEW salt,
         Creatable(data, params)
  PROVE  LET blob == CreateVaultBlob(passphrase, data, params, salt)
         IN  Decrypts(blob, passphrase) /\ DecryptVaultBlob(blob) = data
<1> DEFINE map == EncodeVaultData(data)
           blob == CreateVaultBlob(passphrase, data, params, salt)
<1>1. WorthDeriving(blob)
  BY DEF WorthDeriving, CreateVaultBlob, SealAs, Creatable, VAULT_FORMAT_ALLOWLIST,
         VAULT_FORMAT_VERSION
<1>2. Decodes(map, VAULT_FORMAT_VERSION)
  <2>1. DOMAIN map = Keys /\ map["mailboxes"] = data["mailboxes"]
    BY DEF EncodeVaultData, Keys
  <2>2. QED  BY <2>1 DEF Decodes, Creatable
<1>3. Decrypts(blob, passphrase)
  BY <1>1, <1>2 DEF Decrypts, CreateVaultBlob, SealAs
<1>4. DecryptVaultBlob(blob) = data
  BY DataRoundTrip DEF DecryptVaultBlob, CreateVaultBlob, SealAs
<1>5. QED  BY <1>3, <1>4

(* A blob of an older format opens too. Its keys come back as they were,    *)
(* the keys it did not have yet come back empty, and only a format that has *)
(* mailboxes needs their tokens to fit.                                     *)
THEOREM OldBlobsOpen ==
  ASSUME NEW passphrase, NEW data, IsVaultData(data), NEW params, NEW salt,
         WithinWalls(params), NEW format \in VAULT_FORMAT_ALLOWLIST,
         "mailboxes" \notin OptionalIn(format) => TokensFit(data["mailboxes"])
  PROVE  LET blob == SealAs(format, passphrase, EncodeFor(data, format), params, salt)
         IN  /\ Decrypts(blob, passphrase)
             /\ \A k \in Keys \ OptionalIn(format) : DecryptVaultBlob(blob)[k] = data[k]
             /\ \A k \in OptionalIn(format) : DecryptVaultBlob(blob)[k] = {}
<1> DEFINE written == Keys \ OptionalIn(format)
           map == EncodeFor(data, format)
           blob == SealAs(format, passphrase, map, params, salt)
<1>1. DOMAIN map = written /\ written \subseteq Keys /\ OptionalIn(format) \subseteq Keys
  BY DEF OptionalIn, Keys, EncodeFor
<1>2. WorthDeriving(blob)
  BY DEF WorthDeriving, SealAs
<1>3. "mailboxes" \in DOMAIN map => map["mailboxes"] = data["mailboxes"]
  BY <1>1 DEF EncodeVaultData, EncodeFor, Keys
<1>4. Decrypts(blob, passphrase)
  <2>1. Decodes(map, format)
    BY <1>1, <1>3 DEF Decodes
  <2>2. QED  BY <1>2, <2>1 DEF Decrypts, SealAs
<1>5. DecryptVaultBlob(blob) = DecodeVaultData(map)
  BY DEF DecryptVaultBlob, SealAs
<1>6. ASSUME NEW k \in written
      PROVE  DecryptVaultBlob(blob)[k] = data[k]
  <2>1. map[k] = EncodeVaultData(data)[k]
    BY DEF EncodeFor
  <2>2. DecodeVaultData(map)[k] = DecodeVaultData(EncodeVaultData(data))[k]
    <3>1. k \in Keys /\ k \in DOMAIN map /\ k \in DOMAIN EncodeVaultData(data)
      BY <1>1 DEF EncodeVaultData
    <3> HIDE DEF map
    <3>2. QED  BY <2>1, <3>1 DEF DecodeVaultData
  <2>3. QED  BY <1>5, <2>2, DataRoundTrip
<1>7. ASSUME NEW k \in OptionalIn(format)
      PROVE  DecryptVaultBlob(blob)[k] = {}
  <2>1. k \in Keys /\ k \notin DOMAIN map
    BY <1>1
  <2> HIDE DEF map
  <2>2. QED  BY <1>5, <2>1 DEF DecodeVaultData
<1>8. QED  BY <1>4, <1>6, <1>7

(* The part of a blob that is not encrypted is authentic: whoever changes   *)
(* the format, the parameters or the salt beside a ciphertext that opened,  *)
(* or offers another passphrase, has a blob that does not open.             *)
THEOREM DescriptorIsAuthentic ==
  ASSUME NEW blob, NEW other, NEW passphrase, NEW guess,
         Decrypts(blob, passphrase), Decrypts(other, guess),
         other.ciphertext = blob.ciphertext
  PROVE  /\ other.format = blob.format /\ other.kdf = blob.kdf
         /\ other.params = blob.params /\ other.salt = blob.salt
         /\ guess = passphrase
BY DEF Decrypts, DescriptorAAD, DeriveWrapKey
-----------------------------------------------------------------------------
(* What the queues hold. *)

Blob == { Seal(v) : v \in { u \in Vaults : Creatable(u, Params) } } \cup { LeftBy(old) : old \in Older }

Job == [op : {"create", "forget"}]
         \cup [op : {"seal"}, for : Call, data : Vaults]
         \cup [op : {"unlock"}, data : Blob, passphrase : {Own, Mistyped}]

Write == [op : {"load"}] \cup [op : {"save"}, for : Call \cup {"first"}, data : Blob]

Types ==
  /\ phase \in {"none", "creating", "writing", "open", "locked", "loading", "deriving"}
  /\ session \in Nat
  /\ mem \in Vaults
  /\ armed \in BOOLEAN
  /\ jobs \in Seq(Job)
  /\ writes \in Seq(Write)
  /\ disk \in Blob \cup {NoBlob}
  /\ call \in [Call -> [at : {"idle", "sealing", "saving"}, session : Nat, before : Vaults,
                        card : Cards \cup {NoCard}]]
  /\ acked \in [contacts : SUBSET Cards, messages : SUBSET Records]
  /\ overtaken \in SUBSET (Cards \cup Records)
  /\ undone \in SUBSET Cards

\* Which messages can be under way in which phase, and in which order.
Shape ==
  /\ \A i \in DOMAIN jobs :
       /\ jobs[i].op = "create" => phase = "creating" /\ Len(jobs) = 1
       /\ jobs[i].op = "unlock" => phase = "deriving" /\ i = Len(jobs)
       /\ jobs[i].op = "forget" => /\ phase \in {"locked", "loading", "deriving"}
                                   /\ \A j \in DOMAIN jobs : j > i => jobs[j].op = "unlock"
       /\ jobs[i].op = "seal" => armed /\ phase \in {"open", "locked", "loading", "deriving"}
  /\ \A i \in DOMAIN writes :
       /\ writes[i].op = "load" => /\ phase = "loading" /\ disk # NoBlob
                                   /\ \A j \in DOMAIN writes : writes[j].op = "load" => j = i
       /\ writes[i].op = "save" =>
            IF writes[i].for = "first"
            THEN phase = "writing" /\ \A j \in DOMAIN writes : j = i
            ELSE phase \in {"open", "locked", "loading", "deriving"}
  /\ phase \in {"writing", "open"} => armed
  /\ phase \in {"creating", "writing"} => disk = NoBlob

SealFor(i, f) == i \in DOMAIN jobs /\ jobs[i].op = "seal" /\ jobs[i].for = f
SaveFor(i, f) == i \in DOMAIN writes /\ writes[i].op = "save" /\ writes[i].for = f

\* One job stands for one persist that waits.
Lined ==
  /\ \A i \in DOMAIN jobs : jobs[i].op = "seal" => call[jobs[i].for].at = "sealing"
  /\ \A i \in DOMAIN writes :
       writes[i].op = "save" /\ writes[i].for # "first" => call[writes[i].for].at = "saving"
  /\ \A f \in Call :
       /\ call[f].at = "sealing" => \E i \in DOMAIN jobs : SealFor(i, f)
       /\ call[f].at = "saving" => \E i \in DOMAIN writes : SaveFor(i, f)
  /\ \A f \in Commit : call[f].at # "idle" => call[f].card \in Cards
  /\ \A f \in Call : \A i, j \in DOMAIN jobs : SealFor(i, f) /\ SealFor(j, f) => i = j
  /\ \A f \in Call : \A i, j \in DOMAIN writes : SaveFor(i, f) /\ SaveFor(j, f) => i = j

LineInv == Types /\ Shape /\ Lined

-----------------------------------------------------------------------------
(* Queues. *)

LEMMA Posted ==
  ASSUME NEW J, NEW q \in Seq(J), NEW x \in J
  PROVE  /\ Append(q, x) \in Seq(J)
         /\ Len(q) \in Nat /\ DOMAIN q = 1 .. Len(q)
         /\ Len(Append(q, x)) = Len(q) + 1
         /\ DOMAIN Append(q, x) = 1 .. (Len(q) + 1)
         /\ \A i \in DOMAIN q : Append(q, x)[i] = q[i]
         /\ Append(q, x)[Len(q) + 1] = x
         /\ \A i \in DOMAIN Append(q, x) : i \in DOMAIN q \/ i = Len(q) + 1
         /\ DOMAIN q \subseteq DOMAIN Append(q, x)
         /\ Len(q) + 1 \in DOMAIN Append(q, x)
         /\ Len(q) + 1 \notin DOMAIN q
         /\ \A i \in DOMAIN q : i < Len(q) + 1 /\ ~(Len(q) + 1 < i)
  OBVIOUS

LEMMA Taken ==
  ASSUME NEW J, NEW q \in Seq(J), q # <<>>
  PROVE  /\ Tail(q) \in Seq(J)
         /\ Len(q) \in Nat /\ DOMAIN q = 1 .. Len(q)
         /\ 1 \in DOMAIN q /\ Head(q) = q[1] /\ q[1] \in J
         /\ Len(Tail(q)) = Len(q) - 1
         /\ DOMAIN Tail(q) = 1 .. (Len(q) - 1)
         /\ \A i \in DOMAIN Tail(q) : i + 1 \in DOMAIN q /\ Tail(q)[i] = q[i + 1] /\ i + 1 # 1
         /\ \A i \in DOMAIN q : i # 1 => i - 1 \in DOMAIN Tail(q) /\ (i - 1) + 1 = i /\ 1 < i
         /\ \A i, j \in DOMAIN Tail(q) : (i < j <=> i + 1 < j + 1) /\ (i + 1 = j + 1 => i = j)
  OBVIOUS

-----------------------------------------------------------------------------
(* What is sealed and what is left over opens under the owner's passphrase. *)

LEMMA VaultIsData ==
  ASSUME NEW v \in Vaults
  PROVE  /\ IsVaultData(v)
         /\ v["mailboxes"] = v.mailboxes
<1>1. v = [k \in Keys |-> v[k]]
  BY DEF Vaults, Keys
<1>2. \A mr \in v["messages"] : IsMessage(mr)
  BY DataAssumption DEF Vaults, Records
<1> QED
  BY <1>1, <1>2 DEF IsVaultData

LEMMA SealedOpens ==
  ASSUME NEW v \in Vaults, Creatable(v, Params)
  PROVE  /\ Seal(v) \in Blob
         /\ Decrypts(Seal(v), Own)
         /\ DecryptVaultBlob(Seal(v)) = v
<1>1. Decrypts(Seal(v), Own) /\ DecryptVaultBlob(Seal(v)) = v
  BY BlobRoundTrip, VaultIsData DEF Seal
<1> QED
  BY <1>1 DEF Blob

LEMMA EmptyIsVault == EmptyVault \in Vaults /\ Creatable(EmptyVault, Params) /\ Whole(EmptyVault)
  BY DataAssumption DEF EmptyVault, Vaults, Creatable, TokensFit, Whole

\* What an older build left reads as its vault, less what its format had no key for.
LEMMA LeftOpens ==
  ASSUME NEW old \in Older
  PROVE  LET v == DecryptVaultBlob(LeftBy(old))
         IN  /\ Decrypts(LeftBy(old), Own)
             /\ v \in Vaults /\ Whole(v)
             /\ v.contacts = old.data.contacts
             /\ v.messages = old.data.messages
<1> DEFINE v == DecryptVaultBlob(LeftBy(old))
           d == old.data
<1>1. /\ old.format \in VAULT_FORMAT_ALLOWLIST /\ d \in Vaults
      /\ "mailboxes" \notin OptionalIn(old.format) => TokensFit(d["mailboxes"]) /\ Whole(d)
  BY DataAssumption, VaultIsData
<1>2. /\ Decrypts(LeftBy(old), Own)
      /\ \A k \in Keys \ OptionalIn(old.format) : v[k] = d[k]
      /\ \A k \in OptionalIn(old.format) : v[k] = {}
  <2>1. IsVaultData(d) /\ WithinWalls(Params)
    BY <1>1, VaultIsData, DataAssumption
  <2> HIDE DEF d
  <2>2. LET blob == SealAs(old.format, Own, EncodeFor(d, old.format), Params, Salt)
        IN  /\ Decrypts(blob, Own)
            /\ \A k \in Keys \ OptionalIn(old.format) : DecryptVaultBlob(blob)[k] = d[k]
            /\ \A k \in OptionalIn(old.format) : DecryptVaultBlob(blob)[k] = {}
    BY <1>1, <2>1, OldBlobsOpen
  <2> QED
    BY <2>2 DEF LeftBy, d
<1>3. OptionalIn(old.format) \subseteq {"seen", "mailboxes"}
  BY DEF OptionalIn
<1>4. v = [k \in Keys |-> v[k]]
  BY DEF DecryptVaultBlob, DecodeVaultData
<1> HIDE DEF v, d
<1>5. /\ v["seeds"] = d["seeds"] /\ v["contacts"] = d["contacts"] /\ v["highWater"] = d["highWater"]
      /\ v["messages"] = d["messages"]
      /\ v["seen"] \in {d["seen"], {}} /\ v["mailboxes"] \in {d["mailboxes"], {}}
  BY <1>2, <1>3 DEF Keys
<1>6. v = [seeds |-> v["seeds"], contacts |-> v["contacts"], highWater |-> v["highWater"],
           messages |-> v["messages"], seen |-> v["seen"], mailboxes |-> v["mailboxes"]]
  BY <1>4 DEF Keys
<1>7. v \in Vaults
  BY <1>1, <1>5, <1>6 DEF Vaults
<1>8. Whole(v)
  <2>1. CASE "mailboxes" \in OptionalIn(old.format)
    <3>1. v.mailboxes = {}
      BY <1>2, <2>1
    <3> QED
      BY <3>1 DEF Whole
  <2>2. CASE "mailboxes" \notin OptionalIn(old.format)
    <3>1. v.mailboxes = d.mailboxes /\ v.contacts = d.contacts
      BY <1>2, <1>5, <2>2 DEF Keys
    <3> QED
      BY <1>1, <2>2, <3>1 DEF Whole
  <2> QED
    BY <2>1, <2>2
<1> QED
  BY <1>2, <1>5, <1>7, <1>8 DEF v, d

LEMMA BlobOpens ==
  ASSUME NEW b \in Blob
  PROVE  Decrypts(b, Own) /\ DecryptVaultBlob(b) \in Vaults
  BY SealedOpens, LeftOpens DEF Blob

\* Nothing that is written looks like an empty database.
LEMMA BlobIsThere ==
  ASSUME NEW b \in Blob
  PROVE  b # NoBlob
<1>1. \A format, map, params, salt :
        DOMAIN SealAs(format, Own, map, params, salt) = {"format", "kdf", "params", "salt", "ciphertext"}
  BY DEF SealAs
<1>2. DOMAIN b = {"format", "kdf", "params", "salt", "ciphertext"}
  <2>1. CASE b \in { Seal(v) : v \in { u \in Vaults : Creatable(u, Params) } }
    BY <1>1, <2>1 DEF Seal, CreateVaultBlob
  <2>2. CASE b \in { LeftBy(old) : old \in Older }
    BY <1>1, <2>2 DEF LeftBy
  <2> QED
    BY <2>1, <2>2 DEF Blob
<1>3. DOMAIN NoBlob = {"blob"}
  BY DEF NoBlob
<1> QED
  BY <1>2, <1>3

LEMMA Kinds ==
  /\ \A j \in Job : /\ j.op \in {"create", "forget", "seal", "unlock"}
                    /\ j.op = "seal" => j.for \in Call /\ j.data \in Vaults
                    /\ j.op = "unlock" => j.data \in Blob
  /\ [op |-> "create"] \in Job /\ [op |-> "forget"] \in Job
  /\ \A f \in Call, v \in Vaults : [op |-> "seal", for |-> f, data |-> v] \in Job
  /\ \A b \in Blob, p \in {Own, Mistyped} : [op |-> "unlock", data |-> b, passphrase |-> p] \in Job
  /\ \A w \in Write : /\ w.op \in {"load", "save"}
                      /\ w.op = "save" => w.for \in Call \cup {"first"} /\ w.data \in Blob
  /\ [op |-> "load"] \in Write
  /\ \A f \in Call \cup {"first"}, b \in Blob : [op |-> "save", for |-> f, data |-> b] \in Write
  BY DEF Job, Write

\* Every message in a queue is of its kind.
LEMMA QueueKinds ==
  ASSUME Types
  PROVE  /\ \A i \in DOMAIN jobs : /\ jobs[i] \in Job
                                   /\ jobs[i].op \in {"create", "forget", "seal", "unlock"}
                                   /\ jobs[i].op = "seal" => jobs[i].for \in Call /\ jobs[i].data \in Vaults
                                   /\ jobs[i].op = "unlock" => jobs[i].data \in Blob
         /\ \A i \in DOMAIN writes : /\ writes[i] \in Write
                                     /\ writes[i].op \in {"load", "save"}
                                     /\ writes[i].op = "save" => /\ writes[i].for \in Call \cup {"first"}
                                                                 /\ writes[i].data \in Blob
<1>1. \A i \in DOMAIN jobs : jobs[i] \in Job
  BY DEF Types
<1>2. \A i \in DOMAIN writes : writes[i] \in Write
  BY DEF Types
<1> QED
  BY <1>1, <1>2, Kinds

LEMMA InitLine == Init => LineInv
<1> SUFFICES ASSUME Init PROVE LineInv
  OBVIOUS
<1>1. DOMAIN jobs = {} /\ DOMAIN writes = {}
  BY DEF Init
<1>2. Types
  <2>1. jobs \in Seq(Job) /\ writes \in Seq(Write)
    BY DEF Init
  <2>2. disk \in Blob \cup {NoBlob}
    BY DEF Init, Blob
  <2>3. acked \in [contacts : SUBSET Cards, messages : SUBSET Records]
    BY DataAssumption DEF Init, Vaults
  <2>4. call \in [Call -> [at : {"idle", "sealing", "saving"}, session : Nat, before : Vaults,
                           card : Cards \cup {NoCard}]]
    BY EmptyIsVault DEF Init, Idle
  <2> QED
    BY <2>1, <2>2, <2>3, <2>4, EmptyIsVault DEF Init, Types
<1>3. Shape /\ Lined
  BY <1>1 DEF Init, Shape, Lined, Idle, Call
<1> QED
  BY <1>2, <1>3 DEF LineInv

LEMMA CreateLine ==
  ASSUME LineInv, CreateIdentity
  PROVE  LineInv'
<1> USE DEF LineInv, CreateIdentity, Post, histories
<1>1. DOMAIN jobs = {} /\ DOMAIN writes = {}
  BY QueueKinds DEF Shape
<1>2. /\ jobs' \in Seq(Job)
      /\ DOMAIN jobs' = {1} /\ Len(jobs') = 1 /\ jobs'[1] = [op |-> "create"]
  <2>1. Len(jobs) = 0
    BY <1>1 DEF Types
  <2> QED
    BY <2>1, Kinds, Posted DEF Types
<1>3. Types'
  BY <1>2 DEF Types
<1>4. Shape'
  BY <1>1, <1>2 DEF Shape
<1>5. Lined'
  BY <1>1, <1>2 DEF Lined, SealFor, SaveFor
<1> QED
  BY <1>3, <1>4, <1>5

LEMMA WorkerCreatesLine ==
  ASSUME LineInv, WorkerCreates
  PROVE  LineInv'
<1> USE DEF LineInv, WorkerCreates, histories
<1>1. /\ jobs' \in Seq(Job) /\ 1 \in DOMAIN jobs /\ Head(jobs) = jobs[1]
      /\ Len(jobs') = Len(jobs) - 1 /\ DOMAIN jobs' = 1 .. Len(jobs')
  BY Taken DEF Types
<1>2. phase = "creating" /\ Len(jobs) = 1
  BY <1>1 DEF Shape
<1>3. DOMAIN jobs' = {} /\ DOMAIN jobs = {1}
  BY <1>1, <1>2 DEF Types
<1>4. DOMAIN writes = {}
  BY <1>2, QueueKinds DEF Shape
<1>5. /\ writes' \in Seq(Write) /\ DOMAIN writes' = {1}
      /\ writes'[1] = [op |-> "save", for |-> "first", data |-> Seal(EmptyVault)]
  <2>1. Len(writes) = 0
    BY <1>4 DEF Types
  <2>2. [op |-> "save", for |-> "first", data |-> Seal(EmptyVault)] \in Write
    BY Kinds, SealedOpens, EmptyIsVault
  <2> QED
    BY <2>1, <2>2, Posted DEF Types
<1>6. Types'
  BY <1>1, <1>5 DEF Types
<1>7. Shape'
  BY <1>2, <1>3, <1>5 DEF Shape
<1>8. Lined'
  BY <1>1, <1>2, <1>3, <1>4, <1>5 DEF Lined, SealFor, SaveFor
<1> QED
  BY <1>6, <1>7, <1>8

(* A persist is asked for.                                                  *)
LEMMA PersistLine ==
  ASSUME LineInv, phase = "open",
         NEW f \in Call \ Pending, NEW v \in Vaults, NEW b \in Vaults, NEW c \in Cards \cup {NoCard}, f \in Commit => c \in Cards,
         Persist(f, v, b, c), mem' = v,
         UNCHANGED <<phase, session, armed, writes, disk, histories>>
  PROVE  LineInv'
<1> USE DEF LineInv, histories
<1> DEFINE j == [op |-> "seal", for |-> f, data |-> v]
<1>1. j \in Job /\ jobs' = Append(jobs, j) /\ j.op = "seal" /\ j.for = f
  BY Kinds DEF Persist, Post
<1> HIDE DEF j
<1>2. /\ jobs' \in Seq(Job)
      /\ Len(jobs') = Len(jobs) + 1
      /\ \A i \in DOMAIN jobs : jobs'[i] = jobs[i]
      /\ jobs'[Len(jobs) + 1] = j
      /\ \A i \in DOMAIN jobs' : i \in DOMAIN jobs \/ i = Len(jobs) + 1
      /\ DOMAIN jobs \subseteq DOMAIN jobs'
      /\ Len(jobs) + 1 \in DOMAIN jobs'
      /\ Len(jobs) + 1 \notin DOMAIN jobs
  BY <1>1, Posted DEF Types
<1>3. call' = [call EXCEPT ![f] = [at |-> "sealing", session |-> session, before |-> b, card |-> c]]
  BY DEF Persist
<1>4. call[f].at = "idle"
  BY DEF Pending, Types
<1>5. Types'
  <2>1. call' \in [Call -> [at : {"idle", "sealing", "saving"}, session : Nat, before : Vaults,
                            card : Cards \cup {NoCard}]]
    BY <1>3 DEF Types
  <2> QED
    BY <1>2, <2>1 DEF Types
<1>6. Shape'
  BY <1>1, <1>2, QueueKinds DEF Shape
<1>7. Lined'
  <2>1. \A i \in DOMAIN jobs : ~SealFor(i, f)
    BY <1>4 DEF Lined, SealFor
  <2>2. \A i \in DOMAIN writes : ~SaveFor(i, f)
    BY <1>4, CallsAssumption DEF Lined, SaveFor
  <2>3. \A g \in Call : g # f => call'[g] = call[g]
    BY <1>3 DEF Types
  <2>4. call'[f].at = "sealing"
    BY <1>3 DEF Types
  <2>5. \A i, g : SealFor(i, g)' <=> SealFor(i, g) \/ (i = Len(jobs) + 1 /\ g = f)
    BY <1>1, <1>2 DEF SealFor
  <2>6. \A i, g : SaveFor(i, g)' <=> SaveFor(i, g)
    BY DEF SaveFor
  <2>7. \A i \in DOMAIN jobs' : jobs'[i].op = "seal" => call'[jobs'[i].for].at = "sealing"
    <3> SUFFICES ASSUME NEW i \in DOMAIN jobs', jobs'[i].op = "seal"
                 PROVE  call'[jobs'[i].for].at = "sealing"
      OBVIOUS
    <3>1. CASE i \in DOMAIN jobs
      BY <3>1, <1>2, <2>3, <2>4, QueueKinds DEF Lined
    <3>2. CASE i = Len(jobs) + 1
      BY <3>2, <1>1, <1>2, <2>4
    <3> QED
      BY <3>1, <3>2, <1>2
  <2>8. \A i \in DOMAIN writes' : writes'[i].op = "save" /\ writes'[i].for # "first" =>
          call'[writes'[i].for].at = "saving"
    BY <1>4, <2>2, <2>3, QueueKinds DEF Lined, SaveFor
  <2>9. \A g \in Call :
          /\ call'[g].at = "sealing" => \E i \in DOMAIN jobs' : SealFor(i, g)'
          /\ call'[g].at = "saving" => \E i \in DOMAIN writes' : SaveFor(i, g)'
    BY <1>2, <2>3, <2>4, <2>5, <2>6 DEF Lined
  <2>10. \A g \in Call : \A i, k \in DOMAIN jobs' : SealFor(i, g)' /\ SealFor(k, g)' => i = k
    <3>1. \A i, g : SealFor(i, g) => i \in DOMAIN jobs
      BY DEF SealFor
    <3>2. \A g \in Call : \A i, k : SealFor(i, g) /\ SealFor(k, g) => i = k
      BY <3>1 DEF Lined
    <3> QED
      BY <2>1, <2>5, <3>1, <3>2
  <2>11. \A g \in Call : \A i, k \in DOMAIN writes' : SaveFor(i, g)' /\ SaveFor(k, g)' => i = k
    BY <2>6 DEF Lined
  <2>12. \A g \in Commit : call'[g].at # "idle" => call'[g].card \in Cards
    BY <1>3, <2>3 DEF Lined, Call, Types
  <2> QED
    BY <2>7, <2>8, <2>9, <2>10, <2>11, <2>12 DEF Lined
<1> QED
  BY <1>5, <1>6, <1>7

\* The vault after a message is added.
LEMMA Added ==
  ASSUME NEW v \in Vaults, NEW f \in Send \cup Receive,
         NEW s \in SUBSET { r["msgId"] : r \in Records }
  PROVE  [v EXCEPT !.messages = @ \cup {RecordOf[f]}, !.seen = @ \cup s] \in Vaults
  BY DEF Vaults, Records

LEMMA AddMessageLine ==
  ASSUME LineInv, NEW f \in Send \cup Receive, NEW s \in SUBSET { r["msgId"] : r \in Records },
         AddMessage(f, s)
  PROVE  LineInv'
<1>1. mem' \in Vaults
  BY Added DEF AddMessage, LineInv, Types
<1> QED
  BY <1>1, PersistLine, EmptyIsVault, CallsAssumption DEF AddMessage, Call

LEMMA SendReceiveLine ==
  ASSUME LineInv
  PROVE  /\ \A f \in Send : SendMessage(f) => LineInv'
         /\ \A f \in Receive : ReceiveMessage(f) => LineInv'
<1>1. \A f \in Receive : {RecordOf[f]["msgId"]} \in SUBSET { r["msgId"] : r \in Records }
  BY DEF Records
<1> QED
  BY <1>1, AddMessageLine DEF SendMessage, ReceiveMessage

\* The vault after a pin, and the images taken before it.
LEMMA PinnedVault ==
  ASSUME NEW v \in Vaults, NEW p \in Pairing
  PROVE  /\ [v EXCEPT !.contacts = (@ \ Pinned(v, p.card.of)) \cup {p.card},
                      !.mailboxes = PutMailboxes(v, p)] \in Vaults
         /\ [EmptyVault EXCEPT !.contacts = v.contacts, !.mailboxes = v.mailboxes] \in Vaults
         /\ p.card \in Cards
<1>1. PutMailboxes(v, p) \subseteq Mailboxes
  BY DEF Vaults, PutMailboxes, Mailboxes
<1> QED
  BY <1>1, EmptyIsVault DEF Vaults, Cards

LEMMA CommitLine ==
  ASSUME LineInv, NEW p \in Pairing, CommitContact(p)
  PROVE  LineInv'
<1> DEFINE f == CHOOSE k \in Commit \ Pending : TRUE
           b == [EmptyVault EXCEPT !.contacts = mem.contacts, !.mailboxes = mem.mailboxes]
<1>1. f \in Call \ Pending
  BY DEF CommitContact, Call
<1>2. mem' \in Vaults /\ b \in Vaults /\ p.card \in Cards
  BY PinnedVault DEF CommitContact, LineInv, Types
<1>3. Persist(f, mem', b, p.card)
  BY DEF CommitContact
<1> HIDE DEF f, b
<1> QED
  BY <1>1, <1>2, <1>3, PersistLine DEF CommitContact

LEMMA LockLine ==
  ASSUME LineInv, Lock
  PROVE  LineInv'
<1> USE DEF LineInv, Lock, histories
<1>1. /\ jobs' \in Seq(Job)
      /\ Len(jobs') = Len(jobs) + 1
      /\ \A i \in DOMAIN jobs : jobs'[i] = jobs[i]
      /\ jobs'[Len(jobs) + 1].op = "forget"
      /\ \A i \in DOMAIN jobs' : i \in DOMAIN jobs \/ i = Len(jobs) + 1
      /\ DOMAIN jobs \subseteq DOMAIN jobs'
      /\ Len(jobs) + 1 \notin DOMAIN jobs
      /\ \A i \in DOMAIN jobs : ~(Len(jobs) + 1 < i)
  BY Kinds, Posted DEF Types, Forget, Post
<1>2. Types'
  BY <1>1 DEF Types
<1>3. \A i \in DOMAIN jobs : jobs[i].op = "seal"
  BY QueueKinds DEF Shape
<1>4. Shape'
  <2>1. \A j \in DOMAIN jobs' : ~(j > Len(jobs) + 1)
    BY <1>1 DEF Types
  <2> QED
    BY <1>1, <1>3, <2>1 DEF Shape
<1>5. Lined'
  <2>1. \A i, g : SealFor(i, g)' <=> SealFor(i, g)
    BY <1>1 DEF SealFor
  <2>2. \A i, g : SaveFor(i, g)' <=> SaveFor(i, g)
    BY DEF SaveFor
  <2>3. \A i, g : SealFor(i, g) => i \in DOMAIN jobs
    BY DEF SealFor
  <2>4. \A i \in DOMAIN jobs' : jobs'[i].op = "seal" => call'[jobs'[i].for].at = "sealing"
    BY <1>1 DEF Lined
  <2>5. \A i \in DOMAIN writes' : writes'[i].op = "save" /\ writes'[i].for # "first" =>
          call'[writes'[i].for].at = "saving"
    BY DEF Lined
  <2> QED
    BY <1>1, <2>1, <2>2, <2>3, <2>4, <2>5 DEF Lined
<1> QED
  BY <1>2, <1>4, <1>5

LEMMA UnlockLine ==
  ASSUME LineInv, Unlock
  PROVE  LineInv'
<1> USE DEF LineInv, Unlock, histories
<1>1. /\ writes' \in Seq(Write)
      /\ \A i \in DOMAIN writes : writes'[i] = writes[i]
      /\ writes'[Len(writes) + 1].op = "load"
      /\ \A i \in DOMAIN writes' : i \in DOMAIN writes \/ i = Len(writes) + 1
      /\ DOMAIN writes \subseteq DOMAIN writes'
      /\ Len(writes) + 1 \notin DOMAIN writes
  BY Kinds, Posted DEF Types
<1>2. Types'
  BY <1>1 DEF Types
<1>3. \A i \in DOMAIN writes : /\ writes[i].op = "save" /\ writes[i].for # "first"
                               /\ phase = "locked"
  BY QueueKinds DEF Shape
<1>4. \A i \in DOMAIN jobs : jobs[i].op \in {"seal", "forget"} /\ phase = "locked"
  BY QueueKinds DEF Shape
<1>5. Shape'
  BY <1>1, <1>3, <1>4 DEF Shape
<1>6. Lined'
  <2>1. \A i, g : SealFor(i, g)' <=> SealFor(i, g)
    BY DEF SealFor
  <2>2. \A i, g : SaveFor(i, g)' <=> SaveFor(i, g)
    BY <1>1 DEF SaveFor
  <2>3. \A i, g : SaveFor(i, g) => i \in DOMAIN writes
    BY DEF SaveFor
  <2>4. \A i \in DOMAIN jobs' : jobs'[i].op = "seal" => call'[jobs'[i].for].at = "sealing"
    BY DEF Lined
  <2>5. \A i \in DOMAIN writes' : writes'[i].op = "save" /\ writes'[i].for # "first" =>
          call'[writes'[i].for].at = "saving"
    BY <1>1 DEF Lined
  <2> QED
    BY <1>1, <2>1, <2>2, <2>3, <2>4, <2>5 DEF Lined
<1> QED
  BY <1>2, <1>5, <1>6

\* The worker's queue after its oldest message is taken.
LEMMA JobTaken ==
  ASSUME LineInv, jobs # <<>>, jobs' = Tail(jobs)
  PROVE  /\ jobs' \in Seq(Job)
         /\ Len(jobs) \in Nat /\ DOMAIN jobs = 1 .. Len(jobs)
         /\ 1 \in DOMAIN jobs /\ Head(jobs) = jobs[1]
         /\ Len(jobs') = Len(jobs) - 1 /\ DOMAIN jobs' = 1 .. (Len(jobs) - 1)
         /\ \A i \in DOMAIN jobs' : i + 1 \in DOMAIN jobs /\ jobs'[i] = jobs[i + 1] /\ i + 1 # 1
         /\ \A i \in DOMAIN jobs : i # 1 => i - 1 \in DOMAIN jobs' /\ (i - 1) + 1 = i /\ 1 < i
         /\ \A i, j \in DOMAIN jobs' : (i < j <=> i + 1 < j + 1) /\ (i + 1 = j + 1 => i = j)
         /\ \A i, g : SealFor(i, g)' <=> i \in DOMAIN jobs' /\ SealFor(i + 1, g)
<1>1. /\ jobs' \in Seq(Job)
      /\ Len(jobs) \in Nat /\ DOMAIN jobs = 1 .. Len(jobs)
      /\ 1 \in DOMAIN jobs /\ Head(jobs) = jobs[1]
      /\ Len(jobs') = Len(jobs) - 1 /\ DOMAIN jobs' = 1 .. (Len(jobs) - 1)
      /\ \A i \in DOMAIN jobs' : i + 1 \in DOMAIN jobs /\ jobs'[i] = jobs[i + 1] /\ i + 1 # 1
      /\ \A i \in DOMAIN jobs : i # 1 => i - 1 \in DOMAIN jobs' /\ (i - 1) + 1 = i /\ 1 < i
      /\ \A i, j \in DOMAIN jobs' : (i < j <=> i + 1 < j + 1) /\ (i + 1 = j + 1 => i = j)
  BY Taken DEF LineInv, Types
<1>2. \A i, g : SealFor(i, g)' <=> i \in DOMAIN jobs' /\ SealFor(i + 1, g)
  BY <1>1 DEF SealFor
<1> QED
  BY <1>1, <1>2

\* The database's queue after its oldest request is taken.
LEMMA WriteTaken ==
  ASSUME LineInv, writes # <<>>, writes' = Tail(writes)
  PROVE  /\ writes' \in Seq(Write)
         /\ Len(writes) \in Nat /\ DOMAIN writes = 1 .. Len(writes)
         /\ 1 \in DOMAIN writes /\ Head(writes) = writes[1]
         /\ \A i \in DOMAIN writes' : i + 1 \in DOMAIN writes /\ writes'[i] = writes[i + 1] /\ i + 1 # 1
         /\ \A i \in DOMAIN writes : i # 1 => i - 1 \in DOMAIN writes' /\ (i - 1) + 1 = i /\ 1 < i
         /\ \A i, j \in DOMAIN writes' : (i < j <=> i + 1 < j + 1) /\ (i + 1 = j + 1 => i = j)
         /\ \A i, g : SaveFor(i, g)' <=> i \in DOMAIN writes' /\ SaveFor(i + 1, g)
<1>1. /\ writes' \in Seq(Write)
      /\ Len(writes) \in Nat /\ DOMAIN writes = 1 .. Len(writes)
      /\ 1 \in DOMAIN writes /\ Head(writes) = writes[1]
      /\ \A i \in DOMAIN writes' : i + 1 \in DOMAIN writes /\ writes'[i] = writes[i + 1] /\ i + 1 # 1
      /\ \A i \in DOMAIN writes : i # 1 => i - 1 \in DOMAIN writes' /\ (i - 1) + 1 = i /\ 1 < i
      /\ \A i, j \in DOMAIN writes' : (i < j <=> i + 1 < j + 1) /\ (i + 1 = j + 1 => i = j)
  BY Taken DEF LineInv, Types
<1>2. \A i, g : SaveFor(i, g)' <=> i \in DOMAIN writes' /\ SaveFor(i + 1, g)
  BY <1>1 DEF SaveFor
<1> QED
  BY <1>1, <1>2

\* An unlock is the last message of its queue: the worker answers it alone.
LEMMA UnlockTaken ==
  ASSUME LineInv, jobs # <<>>, Head(jobs).op = "unlock", jobs' = Tail(jobs)
  PROVE  /\ phase = "deriving" /\ DOMAIN jobs' = {} /\ jobs' \in Seq(Job)
         /\ jobs[1].op = "unlock" /\ jobs[1].data \in Blob /\ DOMAIN jobs = {1}
<1>1. jobs[1].op = "unlock" /\ 1 \in DOMAIN jobs
  BY JobTaken
<1>2. phase = "deriving" /\ 1 = Len(jobs) /\ jobs[1].data \in Blob
  BY <1>1, QueueKinds DEF LineInv, Shape
<1> QED
  BY <1>1, <1>2, JobTaken

LEMMA WorkerUnlocksLine ==
  ASSUME LineInv, WorkerUnlocks \/ WorkerRefuses
  PROVE  LineInv'
<1> USE DEF LineInv, histories
<1>1. /\ phase = "deriving" /\ DOMAIN jobs' = {} /\ jobs' \in Seq(Job)
      /\ jobs[1].op = "unlock" /\ jobs[1].data \in Blob /\ DOMAIN jobs = {1}
      /\ Head(jobs) = jobs[1]
  BY UnlockTaken, JobTaken DEF WorkerUnlocks, WorkerRefuses
<1>2. /\ UNCHANGED <<writes, disk, call, acked, overtaken, undone>>
      /\ \/ phase' = "open" /\ armed' = TRUE
         \/ phase' = "locked" /\ armed' = armed
      /\ session' \in {session, session + 1}
      /\ mem' \in {mem, DecryptVaultBlob(jobs[1].data)}
  BY <1>1 DEF WorkerUnlocks, WorkerRefuses
<1>3. Types'
  <2>1. DecryptVaultBlob(jobs[1].data) \in Vaults
    BY <1>1, BlobOpens
  <2>2. mem' \in Vaults
    BY <1>2, <2>1 DEF Types
  <2>3. session' \in Nat
    BY <1>2 DEF Types
  <2>4. armed' \in BOOLEAN
    BY <1>2 DEF Types
  <2> QED
    BY <1>1, <1>2, <2>2, <2>3, <2>4 DEF Types
<1>4. Shape'
  BY <1>1, <1>2 DEF Shape
<1>5. Lined'
  BY <1>1, <1>2 DEF Lined, SealFor, SaveFor
<1> QED
  BY <1>3, <1>4, <1>5

LEMMA WorkerForgetsLine ==
  ASSUME LineInv, WorkerForgets
  PROVE  LineInv'
<1> USE DEF LineInv, WorkerForgets, histories
<1>1. Types'
  BY JobTaken DEF Types
<1>2. phase \in {"locked", "loading", "deriving"} /\ \A j \in DOMAIN jobs' : jobs'[j].op = "unlock"
  <2>1. jobs[1].op = "forget" /\ 1 \in DOMAIN jobs
    BY JobTaken
  <2>2. \A j \in DOMAIN jobs : j # 1 => jobs[j].op = "unlock"
    BY <2>1, JobTaken DEF Shape
  <2> QED
    BY <2>1, <2>2, JobTaken DEF Shape
<1>3. Shape'
  <2>1. \A i \in DOMAIN jobs' : i + 1 = Len(jobs) => i = Len(jobs')
    BY JobTaken
  <2>2. \A i \in DOMAIN jobs' : phase' = "deriving" /\ i = Len(jobs')
    BY <1>2, <2>1, JobTaken DEF Shape
  <2> QED
    BY <1>2, <2>2 DEF Shape
<1>4. Lined'
  <2>1. \A i, g : ~SealFor(i, g) /\ ~SealFor(i, g)'
    <3>1. \A i \in DOMAIN jobs : jobs[i].op # "seal"
      BY <1>2, JobTaken
    <3> QED
      BY <1>2, <3>1 DEF SealFor
  <2>2. \A i, g : SaveFor(i, g)' <=> SaveFor(i, g)
    BY DEF SaveFor
  <2> QED
    BY <1>2, <2>1, <2>2 DEF Lined
<1> QED
  BY <1>1, <1>3, <1>4

\* What a persist that failed leaves behind.
LEMMA FailedTypes ==
  ASSUME LineInv, NEW f \in Call, f \in Pending, Failed(f)
  PROVE  /\ call' = [call EXCEPT ![f] = Idle] /\ call'[f].at = "idle"
         /\ \A g \in Call : g # f => call'[g] = call[g]
         /\ call' \in [Call -> [at : {"idle", "sealing", "saving"}, session : Nat, before : Vaults,
                                card : Cards \cup {NoCard}]]
         /\ mem' \in Vaults
         /\ UNCHANGED <<acked, overtaken>>
         /\ undone' \in SUBSET Cards
<1> USE DEF LineInv, Types
<1>1. /\ call' = [call EXCEPT ![f] = Idle]
      /\ UNCHANGED <<acked, overtaken>>
      /\ mem' = TakeBack(f, mem)
  BY DEF Failed
<1>2. Idle \in [at : {"idle", "sealing", "saving"}, session : Nat, before : Vaults,
                card : Cards \cup {NoCard}] /\ Idle.at = "idle"
  BY EmptyIsVault DEF Idle
<1>3. mem' \in Vaults
  <2>1. call[f].before \in Vaults
    OBVIOUS
  <2> QED
    BY <1>1, <2>1 DEF TakeBack, Vaults
<1>4. undone' \in SUBSET Cards
  <2>1. \A k \in Commit \cap (Overlapping(f) \cup {f}) : call[k].card \in Cards
    BY DEF Overlapping, Pending, Lined
  <2>2. call[f].before.contacts \in SUBSET Cards
    BY DEF Vaults
  <2> QED
    BY <2>1, <2>2 DEF Failed
<1> QED
  BY <1>1, <1>2, <1>3, <1>4

LEMMA WorkerSealsLine ==
  ASSUME LineInv, WorkerSeals, NEW f, f = jobs[1].for, NEW v, v = jobs[1].data
  PROVE  LineInv'
<1> USE DEF LineInv
<1>1. /\ jobs # <<>> /\ jobs' = Tail(jobs) /\ Head(jobs) = jobs[1] /\ 1 \in DOMAIN jobs
      /\ jobs[1].op = "seal"
      /\ UNCHANGED <<phase, session, armed, disk>>
  BY JobTaken DEF WorkerSeals
<1>2. f \in Call /\ v \in Vaults /\ SealFor(1, f) /\ call[f].at = "sealing" /\ f # "first"
  BY <1>1, QueueKinds, CallsAssumption DEF Lined, SealFor
<1>3. /\ armed /\ phase \in {"open", "locked", "loading", "deriving"}
  BY <1>1 DEF Shape
<1>4. \A i, g : SealFor(i, g)' <=> i \in DOMAIN jobs' /\ SealFor(i + 1, g)
  BY <1>1, JobTaken
<1>5. \A i : ~SealFor(i, f)'
  <2>1. \A i \in DOMAIN jobs' : ~SealFor(i + 1, f)
    BY <1>1, <1>2, JobTaken DEF Lined
  <2> QED
    BY <1>4, <2>1
<1>6. \A i \in DOMAIN writes : ~SaveFor(i, f)
  BY <1>2 DEF Lined, SaveFor
<1>7. \A i \in DOMAIN jobs' :
        /\ jobs'[i].op = "create" => phase = "creating"
        /\ jobs'[i].op = "unlock" => phase = "deriving" /\ i = Len(jobs')
        /\ jobs'[i].op = "forget" => /\ phase \in {"locked", "loading", "deriving"}
                                     /\ \A j \in DOMAIN jobs' : j > i => jobs'[j].op = "unlock"
        /\ jobs'[i].op = "seal" => armed /\ phase \in {"open", "locked", "loading", "deriving"}
  <2> SUFFICES ASSUME NEW i \in DOMAIN jobs'
               PROVE  /\ jobs'[i].op = "create" => phase = "creating"
                      /\ jobs'[i].op = "unlock" => phase = "deriving" /\ i = Len(jobs')
                      /\ jobs'[i].op = "forget" => /\ phase \in {"locked", "loading", "deriving"}
                                                   /\ \A j \in DOMAIN jobs' : j > i => jobs'[j].op = "unlock"
                      /\ jobs'[i].op = "seal" => armed /\ phase \in {"open", "locked", "loading", "deriving"}
    OBVIOUS
  <2>1. i + 1 \in DOMAIN jobs /\ jobs'[i] = jobs[i + 1]
    BY <1>1, JobTaken
  <2>2. i + 1 = Len(jobs) => i = Len(jobs')
    BY <1>1, JobTaken
  <2>3. \A j \in DOMAIN jobs' : j > i => j + 1 > i + 1 /\ j + 1 \in DOMAIN jobs /\ jobs'[j] = jobs[j + 1]
    BY <1>1, JobTaken
  <2> QED
    BY <2>1, <2>2, <2>3 DEF Shape
<1>8. CASE Creatable(v, Params)
  <2> DEFINE w == [op |-> "save", for |-> f, data |-> Seal(v)]
  <2>1. /\ writes' = Append(writes, w)
        /\ call' = [call EXCEPT ![f].at = "saving"]
        /\ UNCHANGED <<mem, acked, overtaken, undone>>
    BY <1>1, <1>3, <1>8 DEF WorkerSeals, histories
  <2>2. w \in Write /\ w.op = "save" /\ w.for = f
    BY <1>2, <1>8, Kinds, SealedOpens
  <2> HIDE DEF w
  <2>3. /\ writes' \in Seq(Write)
        /\ \A i \in DOMAIN writes : writes'[i] = writes[i]
        /\ writes'[Len(writes) + 1] = w
        /\ \A i \in DOMAIN writes' : i \in DOMAIN writes \/ i = Len(writes) + 1
        /\ DOMAIN writes \subseteq DOMAIN writes'
        /\ Len(writes) + 1 \in DOMAIN writes'
        /\ Len(writes) + 1 \notin DOMAIN writes
    BY <2>1, <2>2, Posted DEF Types
  <2>4. /\ call' \in [Call -> [at : {"idle", "sealing", "saving"}, session : Nat, before : Vaults,
                               card : Cards \cup {NoCard}]]
        /\ call'[f].at = "saving" /\ call'[f].card = call[f].card
        /\ \A g \in Call : g # f => call'[g] = call[g]
    BY <1>2, <2>1 DEF Types
  <2>5. Types'
    BY <1>1, <2>1, <2>3, <2>4, JobTaken DEF Types
  <2>6. \A i \in DOMAIN writes' :
          /\ writes'[i].op = "load" => /\ phase = "loading" /\ disk # NoBlob
                                       /\ \A j \in DOMAIN writes' : writes'[j].op = "load" => j = i
          /\ writes'[i].op = "save" =>
               IF writes'[i].for = "first"
               THEN phase = "writing" /\ \A j \in DOMAIN writes' : j = i
               ELSE phase \in {"open", "locked", "loading", "deriving"}
    <3> SUFFICES ASSUME NEW i \in DOMAIN writes'
                 PROVE  /\ writes'[i].op = "load" => /\ phase = "loading" /\ disk # NoBlob
                                                     /\ \A j \in DOMAIN writes' : writes'[j].op = "load" => j = i
                        /\ writes'[i].op = "save" =>
                             IF writes'[i].for = "first"
                             THEN phase = "writing" /\ \A j \in DOMAIN writes' : j = i
                             ELSE phase \in {"open", "locked", "loading", "deriving"}
      OBVIOUS
    <3>1. CASE i = Len(writes) + 1
      BY <1>2, <1>3, <2>2, <2>3, <3>1
    <3>2. CASE i \in DOMAIN writes
      <4>1. writes[i].op = "save" => writes[i].for # "first"
        BY <1>3, <3>2 DEF Shape
      <4>2. \A j \in DOMAIN writes' : writes'[j].op = "load" => j \in DOMAIN writes /\ writes[j].op = "load"
        BY <2>2, <2>3
      <4> QED
        BY <1>3, <2>3, <3>2, <4>1, <4>2 DEF Shape
    <3> QED
      BY <2>3, <3>1, <3>2
  <2>7. Shape'
    <3>1. \A i \in DOMAIN jobs' : jobs'[i].op # "create"
      BY <1>3, <1>7
    <3> QED
      BY <1>1, <1>3, <1>7, <2>6, <3>1 DEF Shape
  <2>8. \A i, g : SaveFor(i, g)' <=> SaveFor(i, g) \/ (i = Len(writes) + 1 /\ g = f)
    BY <2>2, <2>3 DEF SaveFor
  <2>9. Lined'
    <3>1. \A i \in DOMAIN jobs' : jobs'[i].op = "seal" => call'[jobs'[i].for].at = "sealing"
      <4> SUFFICES ASSUME NEW i \in DOMAIN jobs', jobs'[i].op = "seal"
                   PROVE  call'[jobs'[i].for].at = "sealing"
        OBVIOUS
      <4>1. i + 1 \in DOMAIN jobs /\ jobs'[i] = jobs[i + 1]
        BY <1>1, JobTaken
      <4>2. jobs'[i].for # f
        BY <1>5 DEF SealFor
      <4> QED
        BY <2>4, <4>1, <4>2, QueueKinds DEF Lined
    <3>2. \A i \in DOMAIN writes' : writes'[i].op = "save" /\ writes'[i].for # "first" =>
            call'[writes'[i].for].at = "saving"
      BY <2>2, <2>3, <2>4, QueueKinds DEF Lined
    <3>3. \A g \in Call :
            /\ call'[g].at = "sealing" => \E i \in DOMAIN jobs' : SealFor(i, g)'
            /\ call'[g].at = "saving" => \E i \in DOMAIN writes' : SaveFor(i, g)'
      <4> SUFFICES ASSUME NEW g \in Call
                   PROVE  /\ call'[g].at = "sealing" => \E i \in DOMAIN jobs' : SealFor(i, g)'
                          /\ call'[g].at = "saving" => \E i \in DOMAIN writes' : SaveFor(i, g)'
        OBVIOUS
      <4>1. CASE g = f
        BY <2>3, <2>4, <2>8, <4>1
      <4>2. CASE g # f
        <5>1. \A i \in DOMAIN jobs : SealFor(i, g) => i # 1
          BY <1>2, <4>2 DEF SealFor
        <5>2. \A i \in DOMAIN jobs : SealFor(i, g) => i - 1 \in DOMAIN jobs' /\ SealFor(i - 1, g)'
          BY <1>1, <1>4, <5>1, JobTaken
        <5> QED
          BY <2>3, <2>4, <2>8, <4>2, <5>2 DEF Lined
      <4> QED
        BY <4>1, <4>2
    <3>4. \A g \in Call : \A i, k \in DOMAIN jobs' : SealFor(i, g)' /\ SealFor(k, g)' => i = k
      BY <1>1, <1>4, JobTaken DEF Lined
    <3>5. \A g \in Call : \A i, k \in DOMAIN writes' : SaveFor(i, g)' /\ SaveFor(k, g)' => i = k
      <4>1. \A i, g : SaveFor(i, g) => i \in DOMAIN writes
        BY DEF SaveFor
      <4>2. \A g \in Call : \A i, k : SaveFor(i, g) /\ SaveFor(k, g) => i = k
        BY <4>1 DEF Lined
      <4> QED
        BY <1>6, <2>8, <4>1, <4>2
    <3>6. \A g \in Commit : call'[g].at # "idle" => call'[g].card \in Cards
      BY <1>2, <2>4 DEF Lined, Call
    <3> QED
      BY <3>1, <3>2, <3>3, <3>4, <3>5, <3>6 DEF Lined
  <2> QED
    BY <2>5, <2>7, <2>9
<1>9. CASE ~Creatable(v, Params)
  <2>1. Failed(f) /\ UNCHANGED writes /\ f \in Pending
    BY <1>1, <1>2, <1>9 DEF WorkerSeals, Pending
  <2>2. /\ call'[f].at = "idle"
        /\ \A g \in Call : g # f => call'[g] = call[g]
        /\ call' \in [Call -> [at : {"idle", "sealing", "saving"}, session : Nat, before : Vaults,
                               card : Cards \cup {NoCard}]]
        /\ mem' \in Vaults /\ UNCHANGED <<acked, overtaken>> /\ undone' \in SUBSET Cards
    BY <1>2, <2>1, FailedTypes
  <2>3. Types'
    BY <1>1, <2>1, <2>2, JobTaken DEF Types
  <2>4. Shape'
    <3>1. \A i \in DOMAIN jobs' : jobs'[i].op # "create"
      BY <1>3, <1>7
    <3> QED
      BY <1>1, <1>3, <1>7, <2>1, <3>1 DEF Shape
  <2>5. Lined'
    <3>1. \A i, g : SaveFor(i, g)' <=> SaveFor(i, g)
      BY <2>1 DEF SaveFor
    <3>2. \A i \in DOMAIN jobs' : jobs'[i].op = "seal" => call'[jobs'[i].for].at = "sealing"
      <4> SUFFICES ASSUME NEW i \in DOMAIN jobs', jobs'[i].op = "seal"
                   PROVE  call'[jobs'[i].for].at = "sealing"
        OBVIOUS
      <4>1. i + 1 \in DOMAIN jobs /\ jobs'[i] = jobs[i + 1]
        BY <1>1, JobTaken
      <4>2. jobs'[i].for # f
        BY <1>5 DEF SealFor
      <4> QED
        BY <2>2, <4>1, <4>2, QueueKinds DEF Lined
    <3>3. \A i \in DOMAIN writes' : writes'[i].op = "save" /\ writes'[i].for # "first" =>
            call'[writes'[i].for].at = "saving"
      <4> SUFFICES ASSUME NEW i \in DOMAIN writes, writes[i].op = "save", writes[i].for # "first"
                   PROVE  call'[writes[i].for].at = "saving"
        BY <2>1
      <4>1. writes[i].for \in Call /\ writes[i].for # f
        BY <1>6, QueueKinds DEF SaveFor
      <4> QED
        BY <2>2, <4>1 DEF Lined
    <3>4. \A g \in Call :
            /\ call'[g].at = "sealing" => \E i \in DOMAIN jobs' : SealFor(i, g)'
            /\ call'[g].at = "saving" => \E i \in DOMAIN writes' : SaveFor(i, g)'
      <4> SUFFICES ASSUME NEW g \in Call, g # f
                   PROVE  /\ call'[g].at = "sealing" => \E i \in DOMAIN jobs' : SealFor(i, g)'
                          /\ call'[g].at = "saving" => \E i \in DOMAIN writes' : SaveFor(i, g)'
        BY <2>2
      <4>1. \A i \in DOMAIN jobs : SealFor(i, g) => i # 1
        BY <1>2 DEF SealFor
      <4>2. \A i \in DOMAIN jobs : SealFor(i, g) => i - 1 \in DOMAIN jobs' /\ SealFor(i - 1, g)'
        BY <1>1, <1>4, <4>1, JobTaken
      <4> QED
        BY <2>1, <2>2, <3>1, <4>2 DEF Lined
    <3>5. \A g \in Call : \A i, k \in DOMAIN jobs' : SealFor(i, g)' /\ SealFor(k, g)' => i = k
      BY <1>1, <1>4, JobTaken DEF Lined
    <3>6. \A g \in Call : \A i, k \in DOMAIN writes' : SaveFor(i, g)' /\ SaveFor(k, g)' => i = k
      BY <2>1, <3>1 DEF Lined
    <3>7. \A g \in Commit : call'[g].at # "idle" => call'[g].card \in Cards
      BY <1>2, <2>2 DEF Lined, Call
    <3> QED
      BY <3>2, <3>3, <3>4, <3>5, <3>6, <3>7 DEF Lined
  <2> QED
    BY <2>3, <2>4, <2>5
<1> QED
  BY <1>8, <1>9

\* The oldest write is a persist's.
LEMMA HeadSave ==
  ASSUME LineInv, writes # <<>>, writes' = Tail(writes), Head(writes).op = "save",
         NEW f, f = Head(writes).for, f # "first"
  PROVE  /\ f \in Call /\ f \in Pending /\ call[f].at = "saving" /\ SaveFor(1, f)
         /\ 1 \in DOMAIN writes /\ Head(writes) = writes[1] /\ writes[1].data \in Blob
         /\ phase \in {"open", "locked", "loading", "deriving"}
         /\ \A i \in DOMAIN writes : SaveFor(i, f) => i = 1
         /\ \A i : ~SaveFor(i, f)'
         /\ \A i \in DOMAIN jobs : ~SealFor(i, f)
<1> USE DEF LineInv
<1>1. writes[1] = Head(writes) /\ 1 \in DOMAIN writes
  BY WriteTaken
<1>2. f \in Call /\ writes[1].data \in Blob
  BY <1>1, QueueKinds
<1>3. call[f].at = "saving" /\ SaveFor(1, f)
  BY <1>1 DEF Lined, SaveFor
<1>4. \A i \in DOMAIN writes : SaveFor(i, f) => i = 1
  BY <1>1, <1>2, <1>3 DEF Lined
<1>5. \A i : ~SaveFor(i, f)'
  BY <1>4, WriteTaken
<1>6. \A i \in DOMAIN jobs : ~SealFor(i, f)
  BY <1>3 DEF Lined, SealFor
<1>7. phase \in {"open", "locked", "loading", "deriving"}
  BY <1>1 DEF Shape
<1> QED
  BY <1>1, <1>2, <1>3, <1>4, <1>5, <1>6, <1>7 DEF Pending

\* It lands or fails, and its caller hears.
LEMMA SaveAnswered ==
  ASSUME LineInv, writes # <<>>, writes' = Tail(writes), Head(writes).op = "save",
         NEW f, f = Head(writes).for, f # "first",
         UNCHANGED <<phase, session, armed, jobs>>,
         call'[f].at = "idle", \A g \in Call : g # f => call'[g] = call[g],
         disk' \in {disk, Head(writes).data}
  PROVE  Shape' /\ Lined'
<1> USE DEF LineInv
<1>1. /\ f \in Call /\ call[f].at = "saving" /\ SaveFor(1, f)
      /\ Head(writes) = writes[1] /\ writes[1].data \in Blob
      /\ phase \in {"open", "locked", "loading", "deriving"}
      /\ \A i : ~SaveFor(i, f)'
      /\ \A i \in DOMAIN jobs : ~SealFor(i, f)
  BY HeadSave
<1>2. disk # NoBlob => disk' # NoBlob
  BY <1>1, BlobIsThere
<1>3. Shape'
  <2>1. \A i \in DOMAIN writes' :
          /\ writes'[i].op = "load" => /\ phase = "loading" /\ disk' # NoBlob
                                       /\ \A j \in DOMAIN writes' : writes'[j].op = "load" => j = i
          /\ writes'[i].op = "save" => writes'[i].for # "first"
    <3> SUFFICES ASSUME NEW i \in DOMAIN writes'
                 PROVE  /\ writes'[i].op = "load" => /\ phase = "loading" /\ disk' # NoBlob
                                                     /\ \A j \in DOMAIN writes' : writes'[j].op = "load" => j = i
                        /\ writes'[i].op = "save" => writes'[i].for # "first"
      OBVIOUS
    <3>1. i + 1 \in DOMAIN writes /\ writes'[i] = writes[i + 1]
      BY WriteTaken
    <3>2. \A j \in DOMAIN writes' : j + 1 \in DOMAIN writes /\ writes'[j] = writes[j + 1]
                                    /\ (j + 1 = i + 1 => j = i)
      BY WriteTaken
    <3> QED
      BY <1>1, <1>2, <3>1, <3>2 DEF Shape
  <2> QED
    BY <1>1, <2>1 DEF Shape
<1>4. Lined'
  <2>1. \A i, g : SealFor(i, g)' <=> SealFor(i, g)
    BY DEF SealFor
  <2>2. \A i \in DOMAIN jobs' : jobs'[i].op = "seal" => call'[jobs'[i].for].at = "sealing"
    <3> SUFFICES ASSUME NEW i \in DOMAIN jobs, jobs[i].op = "seal"
                 PROVE  call'[jobs[i].for].at = "sealing"
      OBVIOUS
    <3>1. jobs[i].for \in Call /\ jobs[i].for # f
      BY <1>1, QueueKinds DEF SealFor
    <3> QED
      BY <3>1 DEF Lined
  <2>3. \A i \in DOMAIN writes' : writes'[i].op = "save" /\ writes'[i].for # "first" =>
          call'[writes'[i].for].at = "saving"
    <3> SUFFICES ASSUME NEW i \in DOMAIN writes', writes'[i].op = "save", writes'[i].for # "first"
                 PROVE  call'[writes'[i].for].at = "saving"
      OBVIOUS
    <3>1. i + 1 \in DOMAIN writes /\ writes'[i] = writes[i + 1]
      BY WriteTaken
    <3>2. writes'[i].for # f
      BY <1>1 DEF SaveFor
    <3> QED
      BY <3>1, <3>2, QueueKinds DEF Lined
  <2>4. \A g \in Call :
          /\ call'[g].at = "sealing" => \E i \in DOMAIN jobs' : SealFor(i, g)'
          /\ call'[g].at = "saving" => \E i \in DOMAIN writes' : SaveFor(i, g)'
    <3> SUFFICES ASSUME NEW g \in Call, g # f
                 PROVE  /\ call'[g].at = "sealing" => \E i \in DOMAIN jobs' : SealFor(i, g)'
                        /\ call'[g].at = "saving" => \E i \in DOMAIN writes' : SaveFor(i, g)'
      OBVIOUS
    <3>1. \A i \in DOMAIN writes : SaveFor(i, g) => i # 1
      BY <1>1 DEF SaveFor
    <3>2. \A i \in DOMAIN writes : SaveFor(i, g) => i - 1 \in DOMAIN writes' /\ SaveFor(i - 1, g)'
      BY <3>1, WriteTaken
    <3> QED
      BY <2>1, <3>2 DEF Lined
  <2>5. \A g \in Call : \A i, k \in DOMAIN jobs' : SealFor(i, g)' /\ SealFor(k, g)' => i = k
    BY <2>1 DEF Lined
  <2>6. \A g \in Call : \A i, k \in DOMAIN writes' : SaveFor(i, g)' /\ SaveFor(k, g)' => i = k
    BY WriteTaken DEF Lined
  <2>7. \A g \in Commit : call'[g].at # "idle" => call'[g].card \in Cards
    BY DEF Lined, Call
  <2> QED
    BY <2>2, <2>3, <2>4, <2>5, <2>6, <2>7 DEF Lined
<1> QED
  BY <1>3, <1>4

\* The oldest write is a new identity's: it is all there is.
LEMMA FirstTaken ==
  ASSUME LineInv, writes # <<>>, writes' = Tail(writes), Head(writes).op = "save",
         Head(writes).for = "first"
  PROVE  /\ phase = "writing" /\ disk = NoBlob /\ Head(writes).data \in Blob
         /\ DOMAIN writes' = {} /\ writes' \in Seq(Write) /\ DOMAIN jobs = {}
         /\ \A f \in Call : call[f].at = "idle"
<1> USE DEF LineInv
<1>1. writes[1] = Head(writes) /\ 1 \in DOMAIN writes /\ writes' \in Seq(Write)
  BY WriteTaken
<1>2. phase = "writing" /\ \A j \in DOMAIN writes : j = 1
  BY <1>1 DEF Shape
<1>3. disk = NoBlob
  BY <1>2 DEF Shape
<1>4. DOMAIN writes' = {}
  BY <1>2, WriteTaken
<1>5. DOMAIN jobs = {}
  BY <1>2, QueueKinds DEF Shape
<1>6. Head(writes).data \in Blob
  BY <1>1, QueueKinds
<1>7. \A f \in Call : call[f].at = "idle"
  <2> SUFFICES ASSUME NEW f \in Call PROVE call[f].at = "idle"
    OBVIOUS
  <2>1. call[f].at # "sealing"
    BY <1>5 DEF Lined
  <2>2. \A i \in DOMAIN writes : ~SaveFor(i, f)
    BY <1>1, <1>2, CallsAssumption DEF SaveFor
  <2>3. call[f].at # "saving"
    BY <2>2 DEF Lined
  <2> QED
    BY <2>1, <2>3 DEF Types
<1> QED
  BY <1>1, <1>2, <1>3, <1>4, <1>5, <1>6, <1>7

\* What a persist that landed leaves behind.
LEMMA AcknowledgedTypes ==
  ASSUME LineInv, NEW f \in Call, f \in Pending, Acknowledged(f)
  PROVE  /\ call'[f].at = "idle"
         /\ \A g \in Call : g # f => call'[g] = call[g]
         /\ call' \in [Call -> [at : {"idle", "sealing", "saving"}, session : Nat, before : Vaults,
                                card : Cards \cup {NoCard}]]
         /\ acked' \in [contacts : SUBSET Cards, messages : SUBSET Records]
         /\ UNCHANGED <<mem, overtaken, undone>>
<1> USE DEF LineInv, Types
<1>1. call' = [call EXCEPT ![f] = Idle] /\ UNCHANGED <<mem, overtaken, undone>>
  BY DEF Acknowledged
<1>2. Idle \in [at : {"idle", "sealing", "saving"}, session : Nat, before : Vaults,
                card : Cards \cup {NoCard}] /\ Idle.at = "idle"
  BY EmptyIsVault DEF Idle
<1>3. f \in Commit => call[f].card \in Cards
  BY DEF Pending, Lined
<1>4. f \notin Commit => RecordOf[f] \in Records
  BY DEF Records, Call
<1>5. acked' \in [contacts : SUBSET Cards, messages : SUBSET Records]
  BY <1>3, <1>4 DEF Acknowledged
<1> QED
  BY <1>1, <1>2, <1>5

LEMMA StoreSavesLine ==
  ASSUME LineInv, StoreSaves, NEW f, f = Head(writes).for
  PROVE  LineInv'
<1> USE DEF LineInv
<1>1. /\ writes # <<>> /\ writes' = Tail(writes) /\ Head(writes).op = "save"
      /\ disk' = Head(writes).data /\ UNCHANGED <<armed, jobs>>
  BY DEF StoreSaves
<1>2. CASE f = "first"
  <2>1. /\ phase = "writing" /\ disk' \in Blob
        /\ DOMAIN writes' = {} /\ writes' \in Seq(Write) /\ DOMAIN jobs = {}
        /\ \A g \in Call : call[g].at = "idle"
    BY <1>1, <1>2, FirstTaken
  <2>2. phase' = "open" /\ session' = session + 1 /\ mem' = EmptyVault /\ UNCHANGED <<call, histories>>
    BY <1>2 DEF StoreSaves
  <2>3. Types'
    BY <1>1, <2>1, <2>2, EmptyIsVault DEF Types, histories
  <2>4. ASSUME armed PROVE Shape'
    BY <1>1, <2>1, <2>2, <2>4 DEF Shape
  <2>5. Lined'
    BY <1>1, <2>1, <2>2 DEF Lined, SealFor, SaveFor, histories, Call
  <2>6. armed
    BY <2>1 DEF Shape
  <2> QED
    BY <2>3, <2>4, <2>5, <2>6
<1>3. CASE f # "first"
  <2>1. Acknowledged(f) /\ UNCHANGED <<phase, session>>
    BY <1>3 DEF StoreSaves
  <2>2. f \in Call /\ f \in Pending /\ disk' \in Blob
    BY <1>1, <1>3, HeadSave
  <2>3. /\ call'[f].at = "idle"
        /\ \A g \in Call : g # f => call'[g] = call[g]
        /\ call' \in [Call -> [at : {"idle", "sealing", "saving"}, session : Nat, before : Vaults,
                               card : Cards \cup {NoCard}]]
        /\ acked' \in [contacts : SUBSET Cards, messages : SUBSET Records]
        /\ UNCHANGED <<mem, overtaken, undone>>
    BY <2>1, <2>2, AcknowledgedTypes
  <2>4. writes' \in Seq(Write)
    BY <1>1, WriteTaken
  <2>5. Types'
    BY <1>1, <2>1, <2>2, <2>3, <2>4 DEF Types
  <2>6. Shape' /\ Lined'
    BY <1>1, <1>3, <2>1, <2>3, SaveAnswered
  <2> QED
    BY <2>5, <2>6
<1> QED
  BY <1>2, <1>3

LEMMA StoreRefusesLine ==
  ASSUME LineInv, StoreRefuses, NEW f, f = Head(writes).for
  PROVE  LineInv'
<1> USE DEF LineInv
<1>1. /\ writes # <<>> /\ writes' = Tail(writes) /\ Head(writes).op = "save"
      /\ UNCHANGED <<session, armed, jobs, disk>>
  BY DEF StoreRefuses
<1>2. CASE f = "first"
  <2>1. /\ DOMAIN writes' = {} /\ writes' \in Seq(Write) /\ DOMAIN jobs = {}
        /\ \A g \in Call : call[g].at = "idle"
    BY <1>1, <1>2, FirstTaken
  <2>2. phase' = "none" /\ UNCHANGED <<mem, call, histories>>
    BY <1>2 DEF StoreRefuses
  <2>3. Types'
    BY <1>1, <2>1, <2>2 DEF Types, histories
  <2>4. Shape'
    BY <1>1, <2>1, <2>2 DEF Shape
  <2>5. Lined'
    BY <1>1, <2>1, <2>2 DEF Lined, SealFor, SaveFor, histories, Call
  <2> QED
    BY <2>3, <2>4, <2>5
<1>3. CASE f # "first"
  <2>1. Failed(f) /\ UNCHANGED phase
    BY <1>3 DEF StoreRefuses
  <2>2. f \in Call /\ f \in Pending
    BY <1>1, <1>3, HeadSave
  <2>3. /\ call'[f].at = "idle"
        /\ \A g \in Call : g # f => call'[g] = call[g]
        /\ call' \in [Call -> [at : {"idle", "sealing", "saving"}, session : Nat, before : Vaults,
                               card : Cards \cup {NoCard}]]
        /\ mem' \in Vaults /\ UNCHANGED <<acked, overtaken>> /\ undone' \in SUBSET Cards
    BY <2>1, <2>2, FailedTypes
  <2>4. writes' \in Seq(Write)
    BY <1>1, WriteTaken
  <2>5. Types'
    BY <1>1, <2>1, <2>3, <2>4 DEF Types
  <2>6. Shape' /\ Lined'
    BY <1>1, <1>3, <2>1, <2>3, SaveAnswered
  <2> QED
    BY <2>5, <2>6
<1> QED
  BY <1>2, <1>3

\* What snapshots and the stored blob disagree about is cards and messages.
LEMMA DisputedTypes ==
  ASSUME LineInv
  PROVE  /\ Stored \in Vaults
         /\ Unsaved \in SUBSET Vaults
         /\ UNION { Disputed(v) : v \in Unsaved } \in SUBSET (Cards \cup Records)
<1> USE DEF LineInv
<1>1. Stored \in Vaults
  BY BlobOpens, EmptyIsVault DEF Stored, Types
<1>2. Unsaved \in SUBSET Vaults
  BY QueueKinds, BlobOpens DEF Unsaved
<1>3. \A v \in Vaults : Facts(v) \in SUBSET (Cards \cup Records)
  BY DEF Facts, Vaults
<1> QED
  BY <1>1, <1>2, <1>3 DEF Disputed

LEMMA StoreLoadsLine ==
  ASSUME LineInv, StoreLoads
  PROVE  LineInv'
<1> USE DEF LineInv
<1>1. /\ writes # <<>> /\ writes' = Tail(writes) /\ Head(writes).op = "load"
      /\ phase' = "deriving"
      /\ UNCHANGED <<session, mem, armed, disk, call, acked, undone>>
  BY DEF StoreLoads
<1>2. 1 \in DOMAIN writes /\ writes[1].op = "load"
  BY <1>1, WriteTaken
<1>3. phase = "loading" /\ disk \in Blob /\ \A i \in DOMAIN writes : writes[i].op = "load" => i = 1
  BY <1>2 DEF Shape, Types
<1>4. \A i \in DOMAIN jobs : jobs[i].op \in {"seal", "forget"}
  BY <1>3, QueueKinds DEF Shape
<1> PICK typed \in {Own, Mistyped} :
           jobs' = Append(jobs, [op |-> "unlock", data |-> disk, passphrase |-> typed])
  BY DEF StoreLoads, Post
<1>5. [op |-> "unlock", data |-> disk, passphrase |-> typed] \in Job
  BY <1>3, Kinds
<1>6. /\ jobs' \in Seq(Job)
      /\ Len(jobs') = Len(jobs) + 1
      /\ \A i \in DOMAIN jobs : jobs'[i] = jobs[i]
      /\ jobs'[Len(jobs) + 1].op = "unlock"
      /\ \A i \in DOMAIN jobs' : i \in DOMAIN jobs \/ i = Len(jobs) + 1
      /\ DOMAIN jobs \subseteq DOMAIN jobs'
      /\ Len(jobs) + 1 \notin DOMAIN jobs
  BY <1>5, Posted DEF Types
<1>7. Types'
  <2>1. overtaken' \in SUBSET (Cards \cup Records)
    BY DisputedTypes DEF StoreLoads, Types
  <2>2. writes' \in Seq(Write)
    BY <1>1, WriteTaken
  <2> QED
    BY <1>1, <1>6, <2>1, <2>2 DEF Types
<1>8. \A i \in DOMAIN writes' : writes'[i].op = "save" /\ writes'[i].for # "first"
  <2> SUFFICES ASSUME NEW i \in DOMAIN writes'
               PROVE  writes'[i].op = "save" /\ writes'[i].for # "first"
    OBVIOUS
  <2>1. i + 1 \in DOMAIN writes /\ writes'[i] = writes[i + 1] /\ i + 1 # 1
    BY <1>1, WriteTaken
  <2> QED
    BY <1>3, <2>1, QueueKinds DEF Shape
<1>9. Shape'
  BY <1>1, <1>3, <1>4, <1>6, <1>8 DEF Shape
<1>10. Lined'
  <2>1. \A i, g : SealFor(i, g)' <=> SealFor(i, g)
    BY <1>6 DEF SealFor
  <2>2. \A i, g : SaveFor(i, g)' <=> i \in DOMAIN writes' /\ SaveFor(i + 1, g)
    BY <1>1, WriteTaken
  <2>3. \A i \in DOMAIN jobs' : jobs'[i].op = "seal" => call'[jobs'[i].for].at = "sealing"
    BY <1>1, <1>6 DEF Lined
  <2>4. \A i \in DOMAIN writes' : writes'[i].op = "save" /\ writes'[i].for # "first" =>
          call'[writes'[i].for].at = "saving"
    BY <1>1, WriteTaken DEF Lined
  <2>5. \A g \in Call :
          /\ call'[g].at = "sealing" => \E i \in DOMAIN jobs' : SealFor(i, g)'
          /\ call'[g].at = "saving" => \E i \in DOMAIN writes' : SaveFor(i, g)'
    <3>1. \A i, g : SaveFor(i, g) => i # 1
      BY <1>2 DEF SaveFor
    <3>2. \A g : \A i \in DOMAIN writes : SaveFor(i, g) => i - 1 \in DOMAIN writes' /\ SaveFor(i - 1, g)'
      BY <1>1, <2>2, <3>1, WriteTaken
    <3> QED
      BY <1>1, <1>6, <2>1, <3>2 DEF Lined
  <2>6. \A g \in Call : \A i, k \in DOMAIN jobs' : SealFor(i, g)' /\ SealFor(k, g)' => i = k
    <3>1. \A i, g : SealFor(i, g) => i \in DOMAIN jobs
      BY DEF SealFor
    <3> QED
      BY <2>1, <3>1 DEF Lined
  <2>7. \A g \in Call : \A i, k \in DOMAIN writes' : SaveFor(i, g)' /\ SaveFor(k, g)' => i = k
    BY <1>1, <2>2, WriteTaken DEF Lined
  <2>8. \A g \in Commit : call'[g].at # "idle" => call'[g].card \in Cards
    BY <1>1 DEF Lined
  <2> QED
    BY <2>3, <2>4, <2>5, <2>6, <2>7, <2>8 DEF Lined
<1> QED
  BY <1>7, <1>9, <1>10

LEMMA CrashLine ==
  ASSUME LineInv, Crash
  PROVE  LineInv'
<1> USE DEF LineInv, Crash, histories
<1>1. DOMAIN jobs' = {} /\ DOMAIN writes' = {} /\ jobs' \in Seq(Job) /\ writes' \in Seq(Write)
  OBVIOUS
<1>2. Idle \in [at : {"idle", "sealing", "saving"}, session : Nat, before : Vaults,
                card : Cards \cup {NoCard}] /\ Idle.at = "idle"
  BY EmptyIsVault DEF Idle
<1>3. Types'
  BY <1>1, <1>2, EmptyIsVault DEF Types
<1>4. Shape'
  BY <1>1 DEF Shape
<1>5. Lined'
  BY <1>1, <1>2 DEF Lined, Call
<1> QED
  BY <1>3, <1>4, <1>5

LEMMA NextLine == LineInv /\ [Next]_vars => LineInv'
<1> SUFFICES ASSUME LineInv, [Next]_vars PROVE LineInv'
  OBVIOUS
<1>1. CASE UNCHANGED vars
  BY <1>1 DEF vars, histories, LineInv, Types, Shape, Lined, SealFor, SaveFor
<1>2. CASE Worker
  BY <1>2, WorkerCreatesLine, WorkerUnlocksLine, WorkerForgetsLine, WorkerSealsLine DEF Worker
<1>3. CASE Store
  BY <1>3, StoreSavesLine, StoreRefusesLine, StoreLoadsLine DEF Store
<1> QED
  BY <1>1, <1>2, <1>3, CreateLine, SendReceiveLine, CommitLine, LockLine, UnlockLine, CrashLine
  DEF Next

LEMMA LineHolds == Spec => []LineInv
  BY InitLine, NextLine, PTL DEF Spec

(* Every variable of the vault's pipeline stays within its type, and what is*)
(* stored always reads as a vault of this owner (ui/session.ts,             *)
(* ui/vault-client.ts, ui/storage.ts, vault.ts).                            *)
THEOREM StoreTypes == Spec => []TypeOK
<1>1. LineInv => TypeOK
  <2> SUFFICES ASSUME LineInv PROVE TypeOK
    OBVIOUS
  <2>1. Stored \in Vaults
    BY DisputedTypes
  <2> QED
    BY <2>1, QueueKinds DEF LineInv, Types, TypeOK
<1> QED
  BY <1>1, LineHolds, PTL

(* Every caller that waits for a save is answered by exactly one job of one *)
(* queue, and no job answers a caller that does not wait (ui/session.ts     *)
(* persist and commit, ui/vault-client.ts call).                            *)
THEOREM OneJobPerWaiter == Spec => []WaitersAreInLine
<1>1. LineInv => WaitersAreInLine
  <2> SUFFICES ASSUME LineInv, NEW f \in Call
               PROVE  Cardinality({ i \in DOMAIN jobs : jobs[i].op = "seal" /\ jobs[i].for = f })
                        + Cardinality({ i \in DOMAIN writes : writes[i].op = "save" /\ writes[i].for = f })
                      = IF f \in Pending THEN 1 ELSE 0
    BY DEF WaitersAreInLine
  <2> DEFINE seals == { i \in DOMAIN jobs : jobs[i].op = "seal" /\ jobs[i].for = f }
             saves == { i \in DOMAIN writes : writes[i].op = "save" /\ writes[i].for = f }
  <2>1. /\ seals = { i \in DOMAIN jobs : SealFor(i, f) }
        /\ saves = { i \in DOMAIN writes : SaveFor(i, f) }
    BY DEF SealFor, SaveFor
  <2>2. f # "first" /\ call[f].at \in {"idle", "sealing", "saving"}
    BY CallsAssumption DEF LineInv, Types
  <2>3. call[f].at # "sealing" => seals = {}
    BY <2>1 DEF LineInv, Lined, SealFor
  <2>4. call[f].at # "saving" => saves = {}
    BY <2>1, <2>2 DEF LineInv, Lined, SaveFor
  <2>5. call[f].at = "sealing" => \E i : seals = {i}
    <3> SUFFICES ASSUME call[f].at = "sealing" PROVE \E i : seals = {i}
      OBVIOUS
    <3> PICK i \in DOMAIN jobs : SealFor(i, f)
      BY DEF LineInv, Lined
    <3>1. seals = {i}
      BY <2>1 DEF LineInv, Lined
    <3> QED
      BY <3>1
  <2>6. call[f].at = "saving" => \E i : saves = {i}
    <3> SUFFICES ASSUME call[f].at = "saving" PROVE \E i : saves = {i}
      OBVIOUS
    <3> PICK i \in DOMAIN writes : SaveFor(i, f)
      BY DEF LineInv, Lined
    <3>1. saves = {i}
      BY <2>1 DEF LineInv, Lined
    <3> QED
      BY <3>1
  <2>7. Cardinality({}) = 0 /\ \A i : Cardinality({i}) = 1
    BY FS_EmptySet, FS_Singleton
  <2>8. Cardinality(seals) + Cardinality(saves) = IF f \in Pending THEN 1 ELSE 0
    <3> HIDE DEF seals, saves
    <3>1. CASE call[f].at = "idle"
      BY <2>3, <2>4, <2>7, <3>1 DEF Pending
    <3>2. CASE call[f].at = "sealing"
      <4>1. f \in Pending
        BY <3>2 DEF Pending
      <4>2. Cardinality(seals) = 1
        BY <2>5, <2>7, <3>2
      <4>3. Cardinality(saves) = 0
        BY <2>4, <2>7, <3>2
      <4> QED
        BY <4>1, <4>2, <4>3
    <3>3. CASE call[f].at = "saving"
      <4>1. f \in Pending
        BY <3>3 DEF Pending
      <4>2. Cardinality(saves) = 1
        BY <2>6, <2>7, <3>3
      <4>3. Cardinality(seals) = 0
        BY <2>3, <2>7, <3>3
      <4> QED
        BY <4>1, <4>2, <4>3
    <3> QED
      BY <2>2, <3>1, <3>2, <3>3
  <2> QED
    BY <2>8
<1> QED
  BY <1>1, LineHolds, PTL
-----------------------------------------------------------------------------
(* The line of snapshots. Every persist that waits has its snapshot in it,  *)
(* and what is asked later stands behind.                                   *)

\* One queue: the messages of a kind posted for f, what they carry, their order.
For(q, kind, i, f) == i \in DOMAIN q /\ q[i].op = kind /\ q[i].for = f
In(q, kind, f) == \E i \in DOMAIN q : For(q, kind, i, f)
Img(q, kind, f) == { q[i].data : i \in { k \in DOMAIN q : For(q, kind, k, f) } }
Before(q, kind, f, g) == \E i, j \in DOMAIN q : i < j /\ For(q, kind, i, f) /\ For(q, kind, j, g)

\* What a step does to the messages of a kind: nothing, one more at the end, the oldest gone.
Same(q, r, kind) ==
  \A f : /\ Img(r, kind, f) = Img(q, kind, f)
         /\ In(r, kind, f) <=> In(q, kind, f)
         /\ \A g : Before(r, kind, f, g) <=> Before(q, kind, f, g)

Joined(q, r, kind, f, d) ==
  \A g : /\ Img(r, kind, g) = IF g = f THEN {d} ELSE Img(q, kind, g)
         /\ In(r, kind, g) <=> g = f \/ In(q, kind, g)
         /\ \A h : Before(r, kind, g, h) <=> Before(q, kind, g, h) \/ (h = f /\ In(q, kind, g))

Left(q, r, kind, f, d) ==
  /\ Img(q, kind, f) = {d}
  /\ \A g : /\ Img(r, kind, g) = IF g = f THEN {} ELSE Img(q, kind, g)
            /\ In(r, kind, g) <=> g # f /\ In(q, kind, g)
            /\ Before(q, kind, f, g) <=> g # f /\ In(q, kind, g)
            /\ ~Before(q, kind, g, f)
            /\ \A h : Before(r, kind, g, h) <=> g # f /\ Before(q, kind, g, h)

LEMMA AppendOther ==
  ASSUME NEW J, NEW q \in Seq(J), NEW x \in J, NEW kind, x.op # kind
  PROVE  Same(q, Append(q, x), kind)
<1> DEFINE r == Append(q, x)
<1>1. /\ \A i \in DOMAIN q : r[i] = q[i]
      /\ r[Len(q) + 1] = x
      /\ \A i \in DOMAIN r : i \in DOMAIN q \/ i = Len(q) + 1
      /\ DOMAIN q \subseteq DOMAIN r
  BY Posted
<1> HIDE DEF r
<1>2. \A i, f : For(r, kind, i, f) <=> For(q, kind, i, f)
  BY <1>1 DEF For
<1>3. \A i, f : For(q, kind, i, f) => i \in DOMAIN q /\ i \in DOMAIN r /\ r[i] = q[i]
  BY <1>1 DEF For
<1>4. \A f : Img(r, kind, f) = Img(q, kind, f)
  <2> TAKE f
  <2>1. { k \in DOMAIN r : For(r, kind, k, f) } = { k \in DOMAIN q : For(q, kind, k, f) }
    BY <1>2, <1>3
  <2> QED
    BY <1>3, <2>1 DEF Img
<1>5. \A f : In(r, kind, f) <=> In(q, kind, f)
  BY <1>2, <1>3 DEF In
<1>6. \A f, g : Before(r, kind, f, g) <=> Before(q, kind, f, g)
  BY <1>2, <1>3 DEF Before
<1> QED
  BY <1>4, <1>5, <1>6 DEF r, Same

LEMMA AppendFor ==
  ASSUME NEW J, NEW q \in Seq(J), NEW x \in J, NEW kind, x.op = kind,
         NEW f, x.for = f, ~In(q, kind, f)
  PROVE  Joined(q, Append(q, x), kind, f, x.data)
<1> DEFINE r == Append(q, x)
           n == Len(q) + 1
<1>1. /\ \A i \in DOMAIN q : r[i] = q[i]
      /\ r[n] = x
      /\ \A i \in DOMAIN r : i \in DOMAIN q \/ i = n
      /\ DOMAIN q \subseteq DOMAIN r
      /\ n \in DOMAIN r /\ n \notin DOMAIN q
      /\ \A i \in DOMAIN q : i < n /\ ~(n < i)
      /\ ~(n < n)
  BY Posted
<1> HIDE DEF r, n
<1>2. \A i, g : For(r, kind, i, g) <=> For(q, kind, i, g) \/ (i = n /\ g = f)
  BY <1>1 DEF For
<1>3. \A i, g : For(q, kind, i, g) => i \in DOMAIN q /\ g # f
  BY DEF For, In
<1>4. \A g : Img(r, kind, g) = IF g = f THEN {x.data} ELSE Img(q, kind, g)
  <2> TAKE g
  <2>1. CASE g = f
    <3>1. { k \in DOMAIN r : For(r, kind, k, g) } = {n}
      BY <1>1, <1>2, <1>3, <2>1
    <3> QED
      BY <1>1, <2>1, <3>1 DEF Img
  <2>2. CASE g # f
    <3>1. { k \in DOMAIN r : For(r, kind, k, g) } = { k \in DOMAIN q : For(q, kind, k, g) }
      BY <1>1, <1>2, <1>3, <2>2
    <3> QED
      BY <1>1, <2>2, <3>1 DEF Img
  <2> QED
    BY <2>1, <2>2
<1>5. \A g : In(r, kind, g) <=> g = f \/ In(q, kind, g)
  <2> TAKE g
  <2>1. In(r, kind, g) => g = f \/ In(q, kind, g)
    BY <1>2, <1>3 DEF In
  <2>2. g = f => In(r, kind, g)
    BY <1>1, <1>2 DEF In
  <2>3. In(q, kind, g) => In(r, kind, g)
    BY <1>1, <1>2 DEF In
  <2> QED
    BY <2>1, <2>2, <2>3
<1>6. \A g, h : Before(r, kind, g, h) <=> Before(q, kind, g, h) \/ (h = f /\ In(q, kind, g))
  <2> TAKE g, h
  <2>1. Before(r, kind, g, h) => Before(q, kind, g, h) \/ (h = f /\ In(q, kind, g))
    <3> SUFFICES ASSUME NEW i \in DOMAIN r, NEW j \in DOMAIN r, i < j, For(r, kind, i, g), For(r, kind, j, h)
                 PROVE  Before(q, kind, g, h) \/ (h = f /\ In(q, kind, g))
      BY DEF Before
    <3>1. i \in DOMAIN q /\ For(q, kind, i, g)
      BY <1>1, <1>2, <1>3
    <3> QED
      BY <1>2, <1>3, <3>1 DEF Before, In
  <2>2. Before(q, kind, g, h) => Before(r, kind, g, h)
    BY <1>1, <1>2 DEF Before
  <2>3. h = f /\ In(q, kind, g) => Before(r, kind, g, h)
    BY <1>1, <1>2 DEF Before, In
  <2> QED
    BY <2>1, <2>2, <2>3
<1> QED
  BY <1>4, <1>5, <1>6 DEF r, Joined

LEMMA TailOther ==
  ASSUME NEW J, NEW q \in Seq(J), q # <<>>, NEW kind, Head(q).op # kind
  PROVE  Same(q, Tail(q), kind)
<1> DEFINE r == Tail(q)
<1>1. /\ Head(q) = q[1]
      /\ \A i \in DOMAIN r : i + 1 \in DOMAIN q /\ r[i] = q[i + 1] /\ i + 1 # 1
      /\ \A i \in DOMAIN q : i # 1 => i - 1 \in DOMAIN r /\ (i - 1) + 1 = i
      /\ \A i, j \in DOMAIN r : i < j <=> i + 1 < j + 1
  BY Taken
<1> HIDE DEF r
<1>2. \A i, f : For(r, kind, i, f) <=> i \in DOMAIN r /\ For(q, kind, i + 1, f)
  BY <1>1 DEF For
<1>3. \A i, f : For(q, kind, i, f) => i # 1 /\ i \in DOMAIN q
  BY <1>1 DEF For
<1>4. \A f : Img(r, kind, f) = Img(q, kind, f)
  <2> TAKE f
  <2>1. \A i \in DOMAIN r : For(r, kind, i, f) => i + 1 \in DOMAIN q /\ For(q, kind, i + 1, f) /\ r[i] = q[i + 1]
    BY <1>1, <1>2
  <2>2. \A i \in DOMAIN q : For(q, kind, i, f) => i - 1 \in DOMAIN r /\ For(r, kind, i - 1, f) /\ r[i - 1] = q[i]
    BY <1>1, <1>2, <1>3
  <2> QED
    BY <2>1, <2>2 DEF Img
<1>5. \A f : In(r, kind, f) <=> In(q, kind, f)
  BY <1>1, <1>2, <1>3 DEF In
<1>6. \A f, g : Before(r, kind, f, g) <=> Before(q, kind, f, g)
  <2> TAKE f, g
  <2>1. Before(r, kind, f, g) => Before(q, kind, f, g)
    BY <1>1, <1>2 DEF Before
  <2>2. Before(q, kind, f, g) => Before(r, kind, f, g)
    <3> SUFFICES ASSUME NEW i \in DOMAIN q, NEW j \in DOMAIN q, i < j, For(q, kind, i, f), For(q, kind, j, g)
                 PROVE  Before(r, kind, f, g)
      BY DEF Before
    <3>1. i - 1 \in DOMAIN r /\ j - 1 \in DOMAIN r /\ (i - 1) + 1 = i /\ (j - 1) + 1 = j
      BY <1>1, <1>3
    <3>2. i - 1 < j - 1
      BY <1>1, <3>1
    <3> QED
      BY <1>2, <3>1, <3>2 DEF Before
  <2> QED
    BY <2>1, <2>2
<1> QED
  BY <1>4, <1>5, <1>6 DEF r, Same

LEMMA TailFor ==
  ASSUME NEW J, NEW q \in Seq(J), q # <<>>, NEW kind, Head(q).op = kind,
         NEW f, Head(q).for = f, \A i \in DOMAIN q : For(q, kind, i, f) => i = 1
  PROVE  Left(q, Tail(q), kind, f, Head(q).data)
<1> DEFINE r == Tail(q)
<1>1. /\ Head(q) = q[1] /\ 1 \in DOMAIN q
      /\ \A i \in DOMAIN r : i + 1 \in DOMAIN q /\ r[i] = q[i + 1] /\ i + 1 # 1
      /\ \A i \in DOMAIN q : i # 1 => i - 1 \in DOMAIN r /\ (i - 1) + 1 = i /\ 1 < i
      /\ \A i, j \in DOMAIN r : i < j <=> i + 1 < j + 1
      /\ \A i \in DOMAIN q : ~(i < 1)
  BY Taken
<1> HIDE DEF r
<1>2. \A i, g : For(r, kind, i, g) <=> i \in DOMAIN r /\ For(q, kind, i + 1, g)
  BY <1>1 DEF For
<1>3. \A i, g : For(q, kind, i, g) => i \in DOMAIN q /\ (i = 1 <=> g = f)
  BY <1>1 DEF For
<1>4. For(q, kind, 1, f)
  BY <1>1 DEF For
<1>5. Img(q, kind, f) = {Head(q).data}
  <2>1. { k \in DOMAIN q : For(q, kind, k, f) } = {1}
    BY <1>1, <1>4
  <2> QED
    BY <1>1, <2>1 DEF Img
<1>6. \A g : Img(r, kind, g) = IF g = f THEN {} ELSE Img(q, kind, g)
  <2> TAKE g
  <2>1. CASE g = f
    <3>1. { k \in DOMAIN r : For(r, kind, k, g) } = {}
      BY <1>1, <1>2, <1>3, <2>1
    <3> QED
      BY <2>1, <3>1 DEF Img
  <2>2. CASE g # f
    <3>1. \A i \in DOMAIN r : For(r, kind, i, g) => i + 1 \in DOMAIN q /\ For(q, kind, i + 1, g) /\ r[i] = q[i + 1]
      BY <1>1, <1>2
    <3>2. \A i \in DOMAIN q : For(q, kind, i, g) => i - 1 \in DOMAIN r /\ For(r, kind, i - 1, g) /\ r[i - 1] = q[i]
      BY <1>1, <1>2, <1>3, <2>2
    <3> QED
      BY <2>2, <3>1, <3>2 DEF Img
  <2> QED
    BY <2>1, <2>2
<1>7. \A g : In(r, kind, g) <=> g # f /\ In(q, kind, g)
  BY <1>1, <1>2, <1>3 DEF In
<1>8. \A g : Before(q, kind, f, g) <=> g # f /\ In(q, kind, g)
  BY <1>1, <1>3, <1>4 DEF In, Before
<1>9. \A g : ~Before(q, kind, g, f)
  BY <1>1, <1>3 DEF Before
<1>10. \A g, h : Before(r, kind, g, h) <=> g # f /\ Before(q, kind, g, h)
  <2> TAKE g, h
  <2>1. Before(r, kind, g, h) => g # f /\ Before(q, kind, g, h)
    BY <1>1, <1>2, <1>3 DEF Before
  <2>2. g # f /\ Before(q, kind, g, h) => Before(r, kind, g, h)
    <3> SUFFICES ASSUME g # f, NEW i \in DOMAIN q, NEW j \in DOMAIN q, i < j,
                        For(q, kind, i, g), For(q, kind, j, h)
                 PROVE  Before(r, kind, g, h)
      BY DEF Before
    <3>1. i # 1 /\ j # 1
      BY <1>1, <1>3
    <3>2. i - 1 \in DOMAIN r /\ j - 1 \in DOMAIN r /\ (i - 1) + 1 = i /\ (j - 1) + 1 = j
      BY <1>1, <3>1
    <3>3. i - 1 < j - 1
      BY <1>1, <3>2
    <3> QED
      BY <1>2, <3>2, <3>3 DEF Before
  <2> QED
    BY <2>1, <2>2
<1> QED
  BY <1>5, <1>6, <1>7, <1>8, <1>9, <1>10 DEF r, Left

\* Both queues: the snapshot that stands for a persist, and which stands before which.
Image(f) ==
  Img(jobs, "seal", f) \cup { DecryptVaultBlob(b) : b \in Img(writes, "save", f) }

Ahead(f, g) ==
  \/ Before(jobs, "seal", f, g)
  \/ Before(writes, "save", f, g)
  \/ In(writes, "save", f) /\ In(jobs, "seal", g)

\* A persist that waits is in one of the queues, once.
LEMMA InLine ==
  ASSUME LineInv
  PROVE  /\ \A f \in Call : In(jobs, "seal", f) <=> call[f].at = "sealing"
         /\ \A f \in Call : In(writes, "save", f) <=> call[f].at = "saving"
         /\ \A f \in Call : f \in Pending <=> In(jobs, "seal", f) \/ In(writes, "save", f)
         /\ \A f \in Call : ~(In(jobs, "seal", f) /\ In(writes, "save", f))
         /\ \A f \in Call : \A i, k \in DOMAIN jobs :
              For(jobs, "seal", i, f) /\ For(jobs, "seal", k, f) => i = k
         /\ \A f \in Call : \A i, k \in DOMAIN writes :
              For(writes, "save", i, f) /\ For(writes, "save", k, f) => i = k
<1> USE DEF LineInv
<1>1. \A i, f : (For(jobs, "seal", i, f) <=> SealFor(i, f)) /\ (For(writes, "save", i, f) <=> SaveFor(i, f))
  BY DEF For, SealFor, SaveFor
<1>2. \A f \in Call : In(jobs, "seal", f) <=> call[f].at = "sealing"
  BY <1>1 DEF In, Lined, SealFor
<1>3. \A f \in Call : In(writes, "save", f) <=> call[f].at = "saving"
  BY <1>1, CallsAssumption DEF In, Lined, SaveFor
<1>4. \A f \in Call : call[f].at \in {"idle", "sealing", "saving"}
  BY DEF Types
<1> QED
  BY <1>1, <1>2, <1>3, <1>4 DEF Lined, Pending

\* Nothing stands for a caller that does not wait; a snapshot is a vault.
LEMMA Images ==
  ASSUME LineInv
  PROVE  /\ \A f \in Call : Image(f) \subseteq Vaults
         /\ \A f \in Call : f \notin Pending => Image(f) = {}
         /\ \A f, g \in Call : Ahead(f, g) => f \in Pending /\ g \in Pending /\ f # g
         /\ \A f, g \in Pending : f # g => Ahead(f, g) \/ Ahead(g, f)
<1> USE DEF LineInv
<1>1. \A f \in Call : Image(f) \subseteq Vaults
  BY QueueKinds, BlobOpens DEF Image, Img, For
<1>2. \A f \in Call : f \notin Pending => Image(f) = {}
  BY InLine DEF Image, Img, In
<1>3. \A f, g \in Call : Ahead(f, g) => f \in Pending /\ g \in Pending /\ f # g
  <2> SUFFICES ASSUME NEW f \in Call, NEW g \in Call, Ahead(f, g)
               PROVE  f \in Pending /\ g \in Pending /\ f # g
    OBVIOUS
  <2>1. CASE Before(jobs, "seal", f, g)
    <3> PICK i \in DOMAIN jobs, j \in DOMAIN jobs :
               i < j /\ For(jobs, "seal", i, f) /\ For(jobs, "seal", j, g)
      BY <2>1 DEF Before
    <3>1. i # j
      BY QueueKinds DEF Types
    <3> QED
      BY <3>1, InLine DEF In
  <2>2. CASE Before(writes, "save", f, g)
    <3> PICK i \in DOMAIN writes, j \in DOMAIN writes :
               i < j /\ For(writes, "save", i, f) /\ For(writes, "save", j, g)
      BY <2>2 DEF Before
    <3>1. i # j
      BY QueueKinds DEF Types
    <3> QED
      BY <3>1, InLine DEF In
  <2> QED
    BY <2>1, <2>2, InLine DEF Ahead
<1>4. \A f, g \in Pending : f # g => Ahead(f, g) \/ Ahead(g, f)
  <2> SUFFICES ASSUME NEW f \in Pending, NEW g \in Pending, f # g
               PROVE  Ahead(f, g) \/ Ahead(g, f)
    OBVIOUS
  <2>1. f \in Call /\ g \in Call
    BY DEF Pending
  <2>2. CASE In(jobs, "seal", f) /\ In(jobs, "seal", g)
    <3> PICK i \in DOMAIN jobs, j \in DOMAIN jobs : For(jobs, "seal", i, f) /\ For(jobs, "seal", j, g)
      BY <2>2 DEF In
    <3>1. i # j
      BY DEF For
    <3>2. i < j \/ j < i
      BY <3>1 DEF Types
    <3> QED
      BY <3>2 DEF Ahead, Before
  <2>3. CASE In(writes, "save", f) /\ In(writes, "save", g)
    <3> PICK i \in DOMAIN writes, j \in DOMAIN writes :
               For(writes, "save", i, f) /\ For(writes, "save", j, g)
      BY <2>3 DEF In
    <3>1. i # j
      BY DEF For
    <3>2. i < j \/ j < i
      BY <3>1 DEF Types
    <3> QED
      BY <3>2 DEF Ahead, Before
  <2> QED
    BY <2>1, <2>2, <2>3, InLine DEF Ahead
<1> QED
  BY <1>1, <1>2, <1>3, <1>4

\* A persist that is asked for goes to the end of the line.
LEMMA AskedLine ==
  ASSUME LineInv, NEW f \in Call \ Pending, NEW v \in Vaults,
         jobs' = Append(jobs, [op |-> "seal", for |-> f, data |-> v]), UNCHANGED writes
  PROVE  /\ \A g : Image(g)' = IF g = f THEN {v} ELSE Image(g)
         /\ \A g \in Call : \A h : Ahead(g, h)' <=> Ahead(g, h) \/ (h = f /\ g \in Pending)
<1> DEFINE j == [op |-> "seal", for |-> f, data |-> v]
<1>1. j \in Job /\ j.op = "seal" /\ j.for = f /\ j.data = v
  BY Kinds
<1>2. ~In(jobs, "seal", f) /\ ~In(writes, "save", f) /\ f \in Call
  BY InLine
<1>3. jobs \in Seq(Job)
  BY DEF LineInv, Types
<1>4. jobs' = Append(jobs, j)
  OBVIOUS
<1> HIDE DEF j
<1>5. Joined(jobs, jobs', "seal", f, v)
  BY <1>1, <1>2, <1>3, <1>4, AppendFor
<1>6. \A g : Image(g)' = IF g = f THEN {v} ELSE Image(g)
  <2> TAKE g
  <2>1. Image(g)' = Img(jobs', "seal", g) \cup { DecryptVaultBlob(b) : b \in Img(writes, "save", g) }
    BY DEF Image
  <2>2. g = f => Img(writes, "save", g) = {}
    BY <1>2 DEF Img, In
  <2> QED
    BY <1>5, <2>1, <2>2 DEF Image, Joined
<1>7. \A g \in Call : \A h : Ahead(g, h)' <=> Ahead(g, h) \/ (h = f /\ g \in Pending)
  <2> TAKE g \in Call
  <2> TAKE h
  <2>1. Ahead(g, h)' <=> \/ Before(jobs', "seal", g, h)
                         \/ Before(writes, "save", g, h)
                         \/ In(writes, "save", g) /\ In(jobs', "seal", h)
    BY DEF Ahead
  <2>2. g \in Pending <=> In(jobs, "seal", g) \/ In(writes, "save", g)
    BY InLine
  <2> QED
    BY <1>5, <2>1, <2>2 DEF Ahead, Joined
<1> QED
  BY <1>6, <1>7

\* What every other step does to the line: nothing, or one leaves it.
LineStays ==
  /\ \A g : Image(g)' = Image(g)
  /\ \A g, h : Ahead(g, h)' <=> Ahead(g, h)

LineLoses(f) ==
  /\ \A g : Image(g)' = IF g = f THEN {} ELSE Image(g)
  /\ \A g, h : Ahead(g, h)' <=> Ahead(g, h) /\ g # f /\ h # f

LEMMA StaysLine ==
  ASSUME Same(jobs, jobs', "seal"), Same(writes, writes', "save")
  PROVE  LineStays
<1>1. \A g : Image(g)' = Image(g)
  <2> TAKE g
  <2>1. Image(g)' = Img(jobs', "seal", g) \cup { DecryptVaultBlob(b) : b \in Img(writes', "save", g) }
    BY DEF Image
  <2> QED
    BY <2>1 DEF Image, Same
<1>2. \A g, h : Ahead(g, h)' <=> Ahead(g, h)
  <2> TAKE g, h
  <2>1. Ahead(g, h)' <=> \/ Before(jobs', "seal", g, h)
                         \/ Before(writes', "save", g, h)
                         \/ In(writes', "save", g) /\ In(jobs', "seal", h)
    BY DEF Ahead
  <2> QED
    BY <2>1 DEF Ahead, Same
<1> QED
  BY <1>1, <1>2 DEF LineStays

\* The worker seals the oldest snapshot: it is the last the database is asked to take.
LEMMA SealedLine ==
  ASSUME NEW f, NEW v, NEW b, DecryptVaultBlob(b) = v,
         In(jobs, "seal", f), ~In(writes, "save", f),
         Left(jobs, jobs', "seal", f, v), Joined(writes, writes', "save", f, b)
  PROVE  LineStays
<1>1. \A g : Image(g)' = Image(g)
  <2> TAKE g
  <2>1. Image(g)' = Img(jobs', "seal", g) \cup { DecryptVaultBlob(a) : a \in Img(writes', "save", g) }
    BY DEF Image
  <2>2. CASE g = f
    <3>1. Img(jobs, "seal", f) = {v} /\ Img(writes, "save", f) = {}
      BY DEF Left, Img, In
    <3>2. Img(jobs', "seal", f) = {} /\ Img(writes', "save", f) = {b}
      BY DEF Left, Joined
    <3> QED
      BY <2>1, <2>2, <3>1, <3>2 DEF Image
  <2>3. CASE g # f
    BY <2>1, <2>3 DEF Image, Left, Joined
  <2> QED
    BY <2>2, <2>3
<1>2. \A g, h : Ahead(g, h)' <=> Ahead(g, h)
  <2> TAKE g, h
  <2>1. Ahead(g, h)' <=> \/ Before(jobs', "seal", g, h)
                         \/ Before(writes', "save", g, h)
                         \/ In(writes', "save", g) /\ In(jobs', "seal", h)
    BY DEF Ahead
  <2>2. /\ Before(jobs', "seal", g, h) <=> g # f /\ Before(jobs, "seal", g, h)
        /\ Before(jobs, "seal", f, h) <=> h # f /\ In(jobs, "seal", h)
        /\ In(jobs', "seal", h) <=> h # f /\ In(jobs, "seal", h)
    BY DEF Left
  <2>3. /\ Before(writes', "save", g, h) <=> Before(writes, "save", g, h) \/ (h = f /\ In(writes, "save", g))
        /\ In(writes', "save", g) <=> g = f \/ In(writes, "save", g)
    BY DEF Joined
  <2>4. CASE g = f
    BY <2>1, <2>2, <2>3, <2>4 DEF Ahead
  <2>5. CASE g # f
    BY <2>1, <2>2, <2>3, <2>5 DEF Ahead
  <2> QED
    BY <2>4, <2>5
<1> QED
  BY <1>1, <1>2 DEF LineStays

\* The oldest snapshot is refused by the worker.
LEMMA RefusedLine ==
  ASSUME NEW f, NEW v, ~In(writes, "save", f), Left(jobs, jobs', "seal", f, v), UNCHANGED writes
  PROVE  LineLoses(f)
<1>1. \A g : Image(g)' = IF g = f THEN {} ELSE Image(g)
  <2> TAKE g
  <2>1. Image(g)' = Img(jobs', "seal", g) \cup { DecryptVaultBlob(a) : a \in Img(writes, "save", g) }
    BY DEF Image
  <2>2. g = f => Img(writes, "save", g) = {}
    BY DEF Img, In
  <2> QED
    BY <2>1, <2>2 DEF Image, Left
<1>2. \A g, h : Ahead(g, h)' <=> Ahead(g, h) /\ g # f /\ h # f
  <2> TAKE g, h
  <2>1. Ahead(g, h)' <=> \/ Before(jobs', "seal", g, h)
                         \/ Before(writes, "save", g, h)
                         \/ In(writes, "save", g) /\ In(jobs', "seal", h)
    BY DEF Ahead
  <2>2. Before(writes, "save", g, h) => g # f /\ h # f
    BY DEF Before, In
  <2> QED
    BY <2>1, <2>2 DEF Ahead, Left
<1> QED
  BY <1>1, <1>2 DEF LineLoses

\* The database answers the oldest save: everybody else stood behind it.
LEMMA AnsweredLine ==
  ASSUME NEW f, NEW b, In(writes, "save", f), ~In(jobs, "seal", f),
         Left(writes, writes', "save", f, b), UNCHANGED jobs
  PROVE  /\ LineLoses(f)
         /\ Image(f) = {DecryptVaultBlob(b)}
         /\ \A g : g # f /\ (In(jobs, "seal", g) \/ In(writes, "save", g)) => Ahead(f, g)
         /\ \A g : ~Ahead(g, f)
<1>1. \A g : Image(g)' = IF g = f THEN {} ELSE Image(g)
  <2> TAKE g
  <2>1. Image(g)' = Img(jobs, "seal", g) \cup { DecryptVaultBlob(a) : a \in Img(writes', "save", g) }
    BY DEF Image
  <2>2. g = f => Img(jobs, "seal", g) = {}
    BY DEF Img, In
  <2> QED
    BY <2>1, <2>2 DEF Image, Left
<1>2. \A g, h : Ahead(g, h)' <=> Ahead(g, h) /\ g # f /\ h # f
  <2> TAKE g, h
  <2>1. Ahead(g, h)' <=> \/ Before(jobs, "seal", g, h)
                         \/ Before(writes', "save", g, h)
                         \/ In(writes', "save", g) /\ In(jobs, "seal", h)
    BY DEF Ahead
  <2>2. Before(jobs, "seal", g, h) => g # f /\ h # f
    BY DEF Before, In
  <2>3. /\ Before(writes', "save", g, h) <=> g # f /\ Before(writes, "save", g, h)
        /\ In(writes', "save", g) <=> g # f /\ In(writes, "save", g)
        /\ Before(writes, "save", g, h) => h # f
    BY DEF Left
  <2> QED
    BY <2>1, <2>2, <2>3 DEF Ahead
<1>3. Image(f) = {DecryptVaultBlob(b)}
  BY DEF Image, Left, Img, In
<1>4. \A g : g # f /\ (In(jobs, "seal", g) \/ In(writes, "save", g)) => Ahead(f, g)
  BY DEF Ahead, Left
<1>5. \A g : ~Ahead(g, f)
  BY DEF Ahead, Left, Before, In
<1> QED
  BY <1>1, <1>2, <1>3, <1>4, <1>5 DEF LineLoses

-----------------------------------------------------------------------------
(* What a later vault keeps of an earlier one: a card may give way to one of*)
(* the same peer with a higher serial, and X is excused.                    *)

Covers(v, c) == \E d \in v.contacts : d.of = c.of /\ d.serial >= c.serial
Kept(X, C, v) == \A c \in C : Covers(v, c) \/ c \in X
Follows(X, u, v) == Kept(X, u.contacts, v) /\ u.messages \subseteq v.messages \cup X

Single(v) == \A c, d \in v.contacts : c.of = d.of => c = d
Sound(v) == Whole(v) /\ Single(v)

Excuses == overtaken \cup undone

\* The live vault, or the one that is about to be.
Waking == { DecryptVaultBlob(jobs[i].data) : i \in { k \in DOMAIN jobs : jobs[k].op = "unlock" } }
Alive == (IF phase = "open" THEN {mem} ELSE {}) \cup Waking

\* A commit that would still put its images back, and the cards of such commits:
\* all, f's and those behind it, those behind g, those ahead of f, those between.
Ours(f) == f \in Commit /\ f \in Pending /\ call[f].session = session /\ phase = "open"

Putting == { call[k].card : k \in { h \in Call : Ours(h) } }
PutSince(f) == { call[k].card : k \in { h \in Call : Ours(h) /\ (h = f \/ Ahead(f, h)) } }
PutAfter(g) == { call[k].card : k \in { h \in Call : Ours(h) /\ Ahead(g, h) } }
PutUntil(f) == { call[k].card : k \in { h \in Call : Ours(h) /\ Ahead(h, f) } }
PutBetween(g, f) == { call[k].card : k \in { h \in Call : Ours(h) /\ Ahead(g, h) /\ Ahead(h, f) } }

\* Later sessions stand behind earlier ones.
Sessions ==
  /\ \A f \in Pending : call[f].session <= session
  /\ \A f, g \in Call : Ahead(f, g) => call[f].session <= call[g].session

\* A snapshot holds what its persist is for.
Carried ==
  \A f \in Call : \A u \in Image(f) :
    IF f \in Commit THEN call[f].card \in u.contacts ELSE RecordOf[f] \in u.messages

\* What was acknowledged, what is stored, what is in line and what is live
\* follow each other.
Chain ==
  /\ Follows(Excuses, acked, Stored)
  /\ \A f \in Call : \A u \in Image(f) :
       Follows(Excuses, acked, u) /\ Follows(Excuses, Stored, u)
  /\ \A f, g \in Call : Ahead(f, g) =>
       \A u \in Image(f), v \in Image(g) : Follows(Excuses, u, v)
  /\ \A v \in Alive : /\ Follows(Excuses, acked, v)
                      /\ Follows(Excuses, Stored, v)
                      /\ \A f \in Call : \A u \in Image(f) : Follows(Excuses, u, v)

\* The image a commit would put back keeps what is older than the commit, and
\* misses of what is newer only what it and the commits behind it pinned.
Undoable ==
  \A f \in Call : Ours(f) =>
    /\ Kept(Excuses, acked.contacts, call[f].before)
    /\ Kept(Excuses, Stored.contacts, call[f].before)
    /\ \A g \in Call : Ahead(g, f) =>
         \A u \in Image(g) : Kept(Excuses, u.contacts, call[f].before)
    /\ Kept(Excuses \cup PutSince(f), mem.contacts, call[f].before)
    /\ \A g \in Call : g = f \/ Ahead(f, g) =>
         \A u \in Image(g) : Kept(Excuses \cup PutSince(f), u.contacts, call[f].before)

\* A pin that is live, or would be put back, is in every older vault but those
\* that a commit still waiting stands behind.
Grounded ==
  /\ \A v \in Alive :
       /\ v.contacts \subseteq Stored.contacts \cup Excuses \cup Putting
       /\ \A g \in Call : \A u \in Image(g) :
            v.contacts \subseteq u.contacts \cup Excuses \cup PutAfter(g)
  /\ \A f \in Call : Ours(f) =>
       /\ call[f].before.contacts \subseteq Stored.contacts \cup Excuses \cup PutUntil(f)
       /\ \A g \in Call : Ahead(g, f) => \A u \in Image(g) :
            call[f].before.contacts \subseteq u.contacts \cup Excuses \cup PutBetween(g, f)

Wholes ==
  /\ Sound(Stored)
  /\ \A f \in Call : \A u \in Image(f) : Sound(u)
  /\ \A v \in Alive : Sound(v)
  /\ \A f \in Call : Ours(f) => Sound(call[f].before)

DataInv ==
  /\ LineInv
  /\ Sessions /\ Carried /\ Chain /\ Undoable /\ Grounded /\ Wholes
  /\ Image("first") \subseteq {EmptyVault}

LEMMA KeptMore ==
  ASSUME NEW X, NEW Y, X \subseteq Y
  PROVE  /\ \A C, v : Kept(X, C, v) => Kept(Y, C, v)
         /\ \A u, v : Follows(X, u, v) => Follows(Y, u, v)
  BY DEF Kept, Follows

\* A vault follows itself.
LEMMA FollowsOwn ==
  /\ \A v \in Vaults, c \in Cards : c \in v.contacts => Covers(v, c)
  /\ \A X : \A v \in Vaults : Follows(X, v, v)
<1>1. \A c \in Cards : c.serial \in Nat
  BY DataAssumption DEF Cards
<1>2. \A v \in Vaults, c \in Cards : c \in v.contacts => Covers(v, c)
  BY <1>1 DEF Covers
<1>3. \A v \in Vaults : v.contacts \subseteq Cards
  BY DEF Vaults
<1> QED
  BY <1>2, <1>3 DEF Follows, Kept

\* What DataInv speaks of are vaults and facts.
LEMMA DataTypes ==
  ASSUME LineInv
  PROVE  /\ Stored \in Vaults
         /\ Alive \subseteq Vaults
         /\ Excuses \subseteq Cards \cup Records
         /\ \A f \in Call : Image(f) \subseteq Vaults
         /\ \A f \in Call : call[f].before \in Vaults
         /\ \A f \in Call : Ours(f) => call[f].card \in Cards
         /\ acked.contacts \subseteq Cards /\ acked.messages \subseteq Records
         /\ mem \in Vaults
         /\ session \in Nat
<1>1. Alive \subseteq Vaults
  BY QueueKinds, BlobOpens DEF LineInv, Types, Alive, Waking
<1>2. \A f \in Call : Ours(f) => call[f].card \in Cards
  BY DEF LineInv, Lined, Ours, Pending
<1> QED
  BY <1>1, <1>2, DisputedTypes, Images DEF LineInv, Types, Excuses

\* The cards of the commits that could still put back, when at most f is one no more.
LEMMA PutsKeep ==
  ASSUME NEW f,
         \A h \in Call : Ours(h) /\ h # f => Ours(h)' /\ call'[h].card = call[h].card,
         \A g, h \in Call : Ahead(g, h) /\ g # f /\ h # f => Ahead(g, h)',
         NEW lost, f \in Call /\ Ours(f) => call[f].card \in lost
  PROVE  /\ Putting \subseteq Putting' \cup lost
         /\ \A j \in Call : j # f =>
              /\ PutSince(j) \subseteq PutSince(j)' \cup lost
              /\ PutAfter(j) \subseteq PutAfter(j)' \cup lost
              /\ PutUntil(j) \subseteq PutUntil(j)' \cup lost
              /\ \A g \in Call : g # f => PutBetween(g, j) \subseteq PutBetween(g, j)' \cup lost
<1>1. Putting \subseteq Putting' \cup lost
  BY DEF Putting
<1>2. ASSUME NEW j \in Call, j # f
      PROVE  /\ PutSince(j) \subseteq PutSince(j)' \cup lost
             /\ PutAfter(j) \subseteq PutAfter(j)' \cup lost
             /\ PutUntil(j) \subseteq PutUntil(j)' \cup lost
  <2>1. PutSince(j) \subseteq PutSince(j)' \cup lost
    BY <1>2 DEF PutSince
  <2>2. PutAfter(j) \subseteq PutAfter(j)' \cup lost
    BY <1>2 DEF PutAfter
  <2>3. PutUntil(j) \subseteq PutUntil(j)' \cup lost
    BY <1>2 DEF PutUntil
  <2> QED
    BY <2>1, <2>2, <2>3
<1>3. ASSUME NEW j \in Call, j # f, NEW g \in Call, g # f
      PROVE  PutBetween(g, j) \subseteq PutBetween(g, j)' \cup lost
  BY <1>3 DEF PutBetween
<1> QED
  BY <1>1, <1>2, <1>3

\* A step that touches neither the line nor what is stored: at most the vault
\* is closed, or reopened for a session in which nothing waits yet.
LEMMA QuietData ==
  ASSUME DataInv, LineInv',
         \A g \in Call : Image(g)' = Image(g),
         \A g, h \in Call : Ahead(g, h)' <=> Ahead(g, h),
         Image("first")' \subseteq {EmptyVault},
         Stored' = Stored, UNCHANGED <<acked, overtaken, undone>>,
         Pending' = Pending, session <= session',
         \A g \in Call : /\ call'[g].session = call[g].session
                         /\ call'[g].before = call[g].before
                         /\ call'[g].card = call[g].card,
         \/ Alive' = {} /\ \A g \in Call : ~Ours(g)'
         \/ /\ Alive' = Alive /\ \A g \in Call : Ours(g)' <=> Ours(g)
            /\ (\E g \in Call : Ours(g)) => mem' = mem
  PROVE  DataInv'
<1> USE DEF DataInv
<1>1. Excuses' = Excuses
  BY DEF Excuses
<1>2. Sessions'
  <2>1. \A f \in Pending : f \in Call /\ call[f].session \in Nat
    BY DEF LineInv, Types, Pending
  <2>2. session \in Nat /\ session' \in Nat
    BY DEF LineInv, Types
  <2>3. \A f \in Pending' : call'[f].session <= session'
    BY <2>1, <2>2 DEF Sessions
  <2> QED
    BY <2>3 DEF Sessions
<1>3. Carried'
  BY DEF Carried, Call
<1>4. Chain'
  <2>1. Alive' \subseteq Alive
    OBVIOUS
  <2> QED
    BY <1>1, <2>1 DEF Chain
<1>5. CASE Alive' = {} /\ \A g \in Call : ~Ours(g)'
  <2>1. Undoable'
    BY <1>5 DEF Undoable
  <2>2. Grounded'
    BY <1>5 DEF Grounded
  <2>3. Wholes'
    BY <1>5 DEF Wholes
  <2> QED
    BY <1>2, <1>3, <1>4, <2>1, <2>2, <2>3
<1>6. CASE /\ Alive' = Alive /\ \A g \in Call : Ours(g)' <=> Ours(g)
           /\ (\E g \in Call : Ours(g)) => mem' = mem
  <2>1. /\ Putting \subseteq Putting'
        /\ \A j \in Call : /\ PutSince(j) \subseteq PutSince(j)'
                           /\ PutAfter(j) \subseteq PutAfter(j)'
                           /\ PutUntil(j) \subseteq PutUntil(j)'
                           /\ \A g \in Call : PutBetween(g, j) \subseteq PutBetween(g, j)'
    <3>1. "first" \notin Call
      BY CallsAssumption
    <3> QED
      BY <1>6, <3>1, PutsKeep
  <2>2. Undoable'
    <3> SUFFICES ASSUME NEW f \in Call, Ours(f)'
                 PROVE  /\ Kept(Excuses', acked'.contacts, call'[f].before)
                        /\ Kept(Excuses', Stored'.contacts, call'[f].before)
                        /\ \A g \in Call : Ahead(g, f)' =>
                             \A u \in Image(g)' : Kept(Excuses', u.contacts, call'[f].before)
                        /\ Kept(Excuses' \cup PutSince(f)', mem'.contacts, call'[f].before)
                        /\ \A g \in Call : g = f \/ Ahead(f, g)' =>
                             \A u \in Image(g)' : Kept(Excuses' \cup PutSince(f)', u.contacts, call'[f].before)
      BY DEF Undoable
    <3>1. Ours(f) /\ mem' = mem
      BY <1>6
    <3>2. Excuses \cup PutSince(f) \subseteq Excuses' \cup PutSince(f)'
      BY <1>1, <2>1
    <3>3. \A C, v : Kept(Excuses \cup PutSince(f), C, v) => Kept(Excuses' \cup PutSince(f)', C, v)
      BY <3>2, KeptMore
    <3> QED
      BY <1>1, <3>1, <3>3 DEF Undoable
  <2>3. Grounded'
    <3>1. ASSUME NEW v \in Alive'
          PROVE  /\ v.contacts \subseteq Stored'.contacts \cup Excuses' \cup Putting'
                 /\ \A g \in Call : \A u \in Image(g)' :
                      v.contacts \subseteq u.contacts \cup Excuses' \cup PutAfter(g)'
      BY <1>1, <1>6, <2>1 DEF Grounded
    <3>2. ASSUME NEW f \in Call, Ours(f)'
          PROVE  /\ call'[f].before.contacts \subseteq Stored'.contacts \cup Excuses' \cup PutUntil(f)'
                 /\ \A g \in Call : Ahead(g, f)' => \A u \in Image(g)' :
                      call'[f].before.contacts \subseteq u.contacts \cup Excuses' \cup PutBetween(g, f)'
      <4>1. Ours(f)
        BY <1>6, <3>2
      <4> QED
        BY <1>1, <2>1, <4>1 DEF Grounded
    <3> QED
      BY <3>1, <3>2 DEF Grounded
  <2>4. Wholes'
    BY <1>6 DEF Wholes
  <2> QED
    BY <1>2, <1>3, <1>4, <2>2, <2>3, <2>4
<1> QED
  BY <1>5, <1>6

\* While a session is open its vault is the only one.
LEMMA OpenAlive ==
  /\ LineInv /\ phase = "open" => Alive = {mem}
  /\ LineInv' /\ phase' = "open" => Alive' = {mem'}
<1>1. LineInv /\ phase = "open" => \A k \in DOMAIN jobs : jobs[k].op # "unlock"
  BY DEF LineInv, Shape
<1>2. LineInv' /\ phase' = "open" => \A k \in DOMAIN jobs' : jobs'[k].op # "unlock"
  BY DEF LineInv, Shape
<1> QED
  BY <1>1, <1>2 DEF Alive, Waking

\* A persist is asked for: its snapshot follows the vault it changed.
LEMMA AskedData ==
  ASSUME DataInv, LineInv', phase = "open", phase' = "open", session' = session,
         NEW f \in Call \ Pending, NEW v \in Vaults, NEW b \in Vaults, NEW c,
         call' = [call EXCEPT ![f] = [at |-> "sealing", session |-> session, before |-> b, card |-> c]],
         mem' = v, Stored' = Stored, UNCHANGED <<acked, overtaken, undone>>,
         \A g : Image(g)' = IF g = f THEN {v} ELSE Image(g),
         \A g \in Call : \A h : Ahead(g, h)' <=> Ahead(g, h) \/ (h = f /\ g \in Pending),
         \A d \in Cards : Covers(mem, d) => Covers(v, d), mem.messages \subseteq v.messages,
         f \in Commit => b.contacts = mem.contacts /\ c \in v.contacts /\ v.contacts \subseteq mem.contacts \cup {c},
         f \notin Commit => v.contacts = mem.contacts /\ RecordOf[f] \in v.messages,
         Sound(mem) => Sound(v) /\ Sound(b)
  PROVE  DataInv'
<1> USE DEF DataInv
<1>1. Excuses' = Excuses
  BY DEF Excuses
<1>2. Alive = {mem} /\ Alive' = {v}
  BY OpenAlive
<1>3. /\ f \in Call /\ f # "first" /\ f \notin Pending
      /\ call'[f].session = session /\ call'[f].before = b /\ call'[f].card = c /\ call'[f].at = "sealing"
      /\ \A g \in Call : g # f => call'[g] = call[g]
  BY CallsAssumption DEF LineInv, Types
<1>4. \A g \in Call : g \in Pending' <=> g = f \/ g \in Pending
  BY <1>3 DEF Pending
<1>5. \A g, h \in Call : Ahead(g, h) => g \in Pending /\ h \in Pending /\ g # f /\ h # f
  BY <1>3, Images
<1>6. \A g, h \in Call : h # f => (Ahead(g, h)' <=> Ahead(g, h))
  OBVIOUS
<1>7. \A g \in Call : Ahead(g, f)' <=> g \in Pending
  BY <1>3, <1>5
<1>8. \A g \in Call : g # f => Image(g)' = Image(g)
  OBVIOUS
<1>9. Image(f)' = {v}
  OBVIOUS
<1>10. \A g \in Call : ~Ahead(f, g)'
  BY <1>3, <1>5
<1>11. \A g \in Call : g # f => (Ours(g)' <=> Ours(g))
  BY <1>3, <1>4 DEF Ours
<1>12. Ours(f)' <=> f \in Commit
  BY <1>3, <1>4 DEF Ours
<1>13. /\ Stored \in Vaults /\ acked.contacts \subseteq Cards
       /\ \A g \in Call : \A u \in Image(g) : u \in Vaults /\ u.contacts \subseteq Cards
       /\ \A d \in Cards : d \in mem.contacts => Covers(mem, d)
       /\ mem.contacts \subseteq Cards /\ v.contacts \subseteq Cards
  <2>1. \A w \in Vaults : w.contacts \subseteq Cards
    BY DEF Vaults
  <2> QED
    BY <2>1, DataTypes, FollowsOwn
<1>14. \A C \in SUBSET Cards : \A X : Kept(X, C, mem) => Kept(X, C, v)
  BY DEF Kept
<1>15. \A X, u : u.contacts \subseteq Cards /\ Follows(X, u, mem) => Follows(X, u, v)
  BY <1>14 DEF Follows
<1>16. Sessions'
  <2>1. \A g \in Pending' : call'[g].session <= session'
    <3> SUFFICES ASSUME NEW g \in Pending' PROVE call'[g].session <= session
      OBVIOUS
    <3>1. g \in Call
      BY DEF Pending
    <3>2. session \in Nat
      BY DataTypes
    <3> QED
      BY <1>3, <1>4, <3>1, <3>2 DEF Sessions
  <2>2. \A g, h \in Call : Ahead(g, h)' => call'[g].session <= call'[h].session
    BY <1>3, <1>5, <1>6, <1>7 DEF Sessions
  <2> QED
    BY <2>1, <2>2 DEF Sessions
<1>17. Carried'
  <2> SUFFICES ASSUME NEW g \in Call, NEW u \in Image(g)'
               PROVE  IF g \in Commit THEN call'[g].card \in u.contacts ELSE RecordOf[g] \in u.messages
    BY DEF Carried
  <2>1. CASE g = f
    BY <1>3, <1>9, <2>1
  <2>2. CASE g # f
    BY <1>3, <1>8, <2>2 DEF Carried
  <2> QED
    BY <2>1, <2>2
<1>18. Chain'
  <2>1. \A g \in Call : \A u \in Image(g)' : Follows(Excuses, acked, u) /\ Follows(Excuses, Stored, u)
    <3>1. Follows(Excuses, acked, v) /\ Follows(Excuses, Stored, v)
      BY <1>2, <1>13, <1>15, DataTypes DEF Chain, Vaults
    <3> QED
      BY <1>8, <1>9, <3>1 DEF Chain
  <2>2. \A g \in Call : \A u \in Image(g)' : Follows(Excuses, u, v)
    <3>1. Follows(Excuses, v, v)
      BY FollowsOwn
    <3>2. \A g \in Call : \A u \in Image(g) : Follows(Excuses, u, v)
      BY <1>2, <1>13, <1>15 DEF Chain
    <3> QED
      BY <1>8, <1>9, <3>1, <3>2
  <2>3. \A g, h \in Call : Ahead(g, h)' =>
          \A u \in Image(g)', w \in Image(h)' : Follows(Excuses, u, w)
    <3> SUFFICES ASSUME NEW g \in Call, NEW h \in Call, Ahead(g, h)', NEW u \in Image(g)', NEW w \in Image(h)'
                 PROVE  Follows(Excuses, u, w)
      OBVIOUS
    <3>1. CASE h = f
      BY <1>9, <2>2, <3>1
    <3>2. CASE h # f
      BY <1>5, <1>6, <1>8, <3>2 DEF Chain
    <3> QED
      BY <3>1, <3>2
  <2>4. Follows(Excuses, acked, v) /\ Follows(Excuses, Stored, v)
    BY <1>9, <2>1, <1>3
  <2> QED
    BY <1>1, <1>2, <2>1, <2>2, <2>3, <2>4 DEF Chain
<1>19. /\ Putting \subseteq Putting'
       /\ \A j \in Call : j # f => /\ PutSince(j) \subseteq PutSince(j)'
                                   /\ PutAfter(j) \subseteq PutAfter(j)'
                                   /\ PutUntil(j) \subseteq PutUntil(j)'
                                   /\ \A g \in Call : g # f => PutBetween(g, j) \subseteq PutBetween(g, j)'
  <2>1. \A h \in Call : Ours(h) /\ h # f => Ours(h)' /\ call'[h].card = call[h].card
    BY <1>3, <1>11
  <2>2. ~Ours(f)
    BY <1>3 DEF Ours
  <2>3. /\ Putting \subseteq Putting' \cup {}
        /\ \A j \in Call : j # f =>
             /\ PutSince(j) \subseteq PutSince(j)' \cup {}
             /\ PutAfter(j) \subseteq PutAfter(j)' \cup {}
             /\ PutUntil(j) \subseteq PutUntil(j)' \cup {}
             /\ \A g \in Call : g # f => PutBetween(g, j) \subseteq PutBetween(g, j)' \cup {}
    BY <2>1, <2>2, PutsKeep
  <2> QED
    BY <2>3
<1>20. f \in Commit => /\ c \in Putting' /\ c \in PutSince(f)'
                       /\ \A j \in Pending : c \in PutSince(j)' /\ c \in PutAfter(j)'
  BY <1>3, <1>7, <1>12 DEF Putting, PutSince, PutAfter, Pending
<1>21. /\ Putting \subseteq PutUntil(f)'
       /\ \A g \in Call : g # f => PutAfter(g) \subseteq PutBetween(g, f)'
  <2>1. \A h \in Call : Ours(h) => h # f /\ Ours(h)' /\ call'[h].card = call[h].card /\ Ahead(h, f)'
    BY <1>3, <1>7, <1>11 DEF Ours
  <2>2. Putting \subseteq PutUntil(f)'
    BY <2>1 DEF Putting, PutUntil
  <2>3. \A g \in Call : g # f => PutAfter(g) \subseteq PutBetween(g, f)'
    BY <2>1, <1>6 DEF PutAfter, PutBetween
  <2> QED
    BY <2>2, <2>3
<1>22. Undoable'
  <2> SUFFICES ASSUME NEW k \in Call, Ours(k)'
               PROVE  /\ Kept(Excuses', acked'.contacts, call'[k].before)
                      /\ Kept(Excuses', Stored'.contacts, call'[k].before)
                      /\ \A g \in Call : Ahead(g, k)' =>
                           \A u \in Image(g)' : Kept(Excuses', u.contacts, call'[k].before)
                      /\ Kept(Excuses' \cup PutSince(k)', mem'.contacts, call'[k].before)
                      /\ \A g \in Call : g = k \/ Ahead(k, g)' =>
                           \A u \in Image(g)' : Kept(Excuses' \cup PutSince(k)', u.contacts, call'[k].before)
    BY DEF Undoable
  <2>1. CASE k = f
    <3>1. f \in Commit /\ b.contacts = mem.contacts
      BY <1>12, <2>1
    <3>2. \A X, C : Kept(X, C, mem) => Kept(X, C, b)
      BY <3>1 DEF Kept, Covers
    <3>3. /\ Kept(Excuses, acked.contacts, b) /\ Kept(Excuses, Stored.contacts, b)
          /\ \A g \in Call : \A u \in Image(g) : Kept(Excuses, u.contacts, b)
      BY <1>2, <3>2 DEF Chain, Follows
    <3>4. Kept(Excuses \cup PutSince(f)', v.contacts, b)
      <4>1. \A d \in mem.contacts : Covers(b, d)
        BY <1>13, <3>1 DEF Covers
      <4> QED
        BY <1>20, <3>1, <4>1 DEF Kept
    <3>5. \A g \in Call : Ahead(g, f)' => g # f
      BY <1>3, <1>7
    <3> QED
      BY <1>1, <1>3, <1>8, <1>9, <1>10, <2>1, <3>3, <3>4, <3>5
  <2>2. CASE k # f
    <3>1. Ours(k) /\ k \in Pending /\ call'[k].before = call[k].before
      BY <1>3, <1>11, <2>2 DEF Ours
    <3>2. \A C, w : Kept(Excuses \cup PutSince(k), C, w) => Kept(Excuses \cup PutSince(k)', C, w)
      <4>1. Excuses \cup PutSince(k) \subseteq Excuses \cup PutSince(k)'
        BY <1>19, <2>2
      <4> QED
        BY <4>1, KeptMore
    <3>3. Kept(Excuses \cup PutSince(k)', v.contacts, call[k].before)
      <4>1. Kept(Excuses \cup PutSince(k)', mem.contacts, call[k].before)
        BY <3>1, <3>2 DEF Undoable
      <4>2. v.contacts \subseteq mem.contacts \cup (IF f \in Commit THEN {c} ELSE {})
        OBVIOUS
      <4> QED
        BY <1>20, <3>1, <4>1, <4>2 DEF Kept
    <3>4. \A g \in Call : Ahead(g, k)' =>
            \A u \in Image(g)' : Kept(Excuses, u.contacts, call[k].before)
      BY <1>5, <1>6, <1>8, <2>2, <3>1 DEF Undoable
    <3>5. \A g \in Call : g = k \/ Ahead(k, g)' =>
            \A u \in Image(g)' : Kept(Excuses \cup PutSince(k)', u.contacts, call[k].before)
      <4> SUFFICES ASSUME NEW g \in Call, g = k \/ Ahead(k, g)', NEW u \in Image(g)'
                   PROVE  Kept(Excuses \cup PutSince(k)', u.contacts, call[k].before)
        OBVIOUS
      <4>1. CASE g = f
        BY <1>9, <3>3, <4>1
      <4>2. CASE g # f
        BY <1>6, <1>8, <3>1, <3>2, <4>2 DEF Undoable
      <4> QED
        BY <4>1, <4>2
    <3>6. Kept(Excuses, acked.contacts, call[k].before) /\ Kept(Excuses, Stored.contacts, call[k].before)
      BY <3>1 DEF Undoable
    <3> QED
      BY <1>1, <3>1, <3>3, <3>4, <3>5, <3>6
  <2> QED
    BY <2>1, <2>2
<1>23. Grounded'
  <2>1. v.contacts \subseteq Stored.contacts \cup Excuses \cup Putting'
    <3>1. mem.contacts \subseteq Stored.contacts \cup Excuses \cup Putting
      BY <1>2 DEF Grounded
    <3> QED
      BY <1>19, <1>20, <3>1
  <2>2. \A g \in Call : \A u \in Image(g)' : v.contacts \subseteq u.contacts \cup Excuses \cup PutAfter(g)'
    <3> SUFFICES ASSUME NEW g \in Call, NEW u \in Image(g)'
                 PROVE  v.contacts \subseteq u.contacts \cup Excuses \cup PutAfter(g)'
      OBVIOUS
    <3>1. CASE g = f
      BY <1>9, <3>1
    <3>2. CASE g # f
      <4>1. u \in Image(g) /\ g \in Pending
        BY <1>8, <3>2, Images
      <4>2. mem.contacts \subseteq u.contacts \cup Excuses \cup PutAfter(g)
        BY <1>2, <4>1 DEF Grounded
      <4> QED
        BY <1>19, <1>20, <3>2, <4>1, <4>2
    <3> QED
      BY <3>1, <3>2
  <2>3. ASSUME NEW k \in Call, Ours(k)'
        PROVE  /\ call'[k].before.contacts \subseteq Stored.contacts \cup Excuses \cup PutUntil(k)'
               /\ \A g \in Call : Ahead(g, k)' => \A u \in Image(g)' :
                    call'[k].before.contacts \subseteq u.contacts \cup Excuses \cup PutBetween(g, k)'
    <3>1. CASE k = f
      <4>1. b.contacts = mem.contacts /\ call'[k].before = b
        BY <1>3, <1>12, <2>3, <3>1
      <4>2. mem.contacts \subseteq Stored.contacts \cup Excuses \cup PutUntil(f)'
        BY <1>2, <1>21 DEF Grounded
      <4>3. ASSUME NEW g \in Call, Ahead(g, f)', NEW u \in Image(g)'
            PROVE  mem.contacts \subseteq u.contacts \cup Excuses \cup PutBetween(g, f)'
        <5>1. g # f /\ u \in Image(g)
          BY <1>3, <1>7, <1>8, <4>3
        <5> QED
          BY <1>2, <1>21, <5>1 DEF Grounded
      <4> QED
        BY <3>1, <4>1, <4>2, <4>3
    <3>2. CASE k # f
      <4>1. Ours(k) /\ call'[k] = call[k]
        BY <1>3, <1>11, <2>3, <3>2
      <4>2. \A g \in Call : Ahead(g, k)' => Ahead(g, k) /\ g # f /\ Image(g)' = Image(g)
        BY <1>5, <1>6, <1>8, <3>2
      <4> QED
        BY <1>19, <3>2, <4>1, <4>2 DEF Grounded
    <3> QED
      BY <3>1, <3>2
  <2> QED
    BY <1>1, <1>2, <2>1, <2>2, <2>3 DEF Grounded
<1>24. Wholes'
  <2>1. Sound(v) /\ Sound(b)
    BY <1>2 DEF Wholes
  <2>2. \A g \in Call : \A u \in Image(g)' : Sound(u)
    BY <1>8, <1>9, <2>1 DEF Wholes
  <2>3. \A g \in Call : Ours(g)' => Sound(call'[g].before)
    BY <1>3, <1>11, <2>1 DEF Wholes
  <2> QED
    BY <1>2, <2>1, <2>2, <2>3 DEF Wholes
<1>25. Image("first")' \subseteq {EmptyVault}
  BY <1>3
<1> QED
  BY <1>16, <1>17, <1>18, <1>22, <1>23, <1>24, <1>25

\* A persist that failed leaves the line: what a commit puts back keeps all that is
\* older, and what it takes with it is excused if anyone of its session stands behind.
LEMMA FailedData ==
  ASSUME DataInv, LineInv', NEW f \in Call, f \in Pending, LineLoses(f), Failed(f),
         Image("first")' \subseteq {EmptyVault},
         Stored' = Stored, phase' = phase, session' = session, phase = "open" \/ Alive' = Alive
  PROVE  DataInv'
<1> USE DEF DataInv
<1>1. /\ call'[f].at = "idle"
      /\ \A g \in Call : g # f => call'[g] = call[g]
      /\ UNCHANGED <<acked, overtaken>> /\ mem' = TakeBack(f, mem)
  BY FailedTypes DEF Failed
<1>2. Excuses \subseteq Excuses'
  BY DEF Failed, Excuses
<1>3. /\ \A C, v : Kept(Excuses, C, v) => Kept(Excuses', C, v)
      /\ \A u, v : Follows(Excuses, u, v) => Follows(Excuses', u, v)
  BY <1>2, KeptMore
<1>4. \A g \in Call : g \in Pending' <=> g # f /\ g \in Pending
  BY <1>1 DEF Pending
<1>5. /\ \A g, h \in Call : Ahead(g, h)' => Ahead(g, h) /\ g # f /\ h # f
      /\ \A g, h \in Call : Ahead(g, h) /\ g # f /\ h # f => Ahead(g, h)'
      /\ Image(f)' = {}
      /\ \A g \in Call : g # f => Image(g)' = Image(g)
  BY DEF LineLoses
<1>6. \A g \in Call : Ours(g)' <=> Ours(g) /\ g # f
  BY <1>1, <1>4 DEF Ours
<1>7. \A g \in Call : \A u \in Image(g)' : g # f /\ u \in Image(g)
  BY <1>5
<1>8. Sessions'
  <2>1. \A g \in Pending' : g \in Call /\ g # f /\ g \in Pending
    BY <1>4 DEF Pending
  <2> QED
    BY <1>1, <1>5, <2>1 DEF Sessions
<1>9. Carried'
  BY <1>1, <1>7 DEF Carried
<1>10. /\ Follows(Excuses', acked, Stored)
       /\ \A g \in Call : \A u \in Image(g)' : Follows(Excuses', acked, u) /\ Follows(Excuses', Stored, u)
       /\ \A g, h \in Call : Ahead(g, h)' =>
            \A u \in Image(g)', w \in Image(h)' : Follows(Excuses', u, w)
  BY <1>3, <1>5, <1>7 DEF Chain
<1>11. ASSUME NEW lost, Ours(f) => call[f].card \in lost
       PROVE  /\ Putting \subseteq Putting' \cup lost
              /\ \A j \in Call : j # f =>
                   /\ PutSince(j) \subseteq PutSince(j)' \cup lost
                   /\ PutAfter(j) \subseteq PutAfter(j)' \cup lost
                   /\ PutUntil(j) \subseteq PutUntil(j)' \cup lost
                   /\ \A g \in Call : g # f => PutBetween(g, j) \subseteq PutBetween(g, j)' \cup lost
  <2>1. \A h \in Call : Ours(h) /\ h # f => Ours(h)' /\ call'[h].card = call[h].card
    BY <1>1, <1>6
  <2> QED
    BY <1>5, <1>11, <2>1, PutsKeep
\* Whatever a commit that goes on waiting would still put back.
<1>12. ASSUME Ours(f) => call[f].card \in Excuses'
       PROVE  /\ \A k \in Call : Ours(k)' =>
                   /\ Kept(Excuses', acked.contacts, call[k].before)
                   /\ Kept(Excuses', Stored.contacts, call[k].before)
                   /\ \A g \in Call : Ahead(g, k)' =>
                        \A u \in Image(g)' : Kept(Excuses', u.contacts, call[k].before)
                   /\ Kept(Excuses' \cup PutSince(k)', mem.contacts, call[k].before)
                   /\ \A g \in Call : g = k \/ Ahead(k, g)' =>
                        \A u \in Image(g)' : Kept(Excuses' \cup PutSince(k)', u.contacts, call[k].before)
                   /\ call[k].before.contacts \subseteq Stored.contacts \cup Excuses' \cup PutUntil(k)'
                   /\ \A g \in Call : Ahead(g, k)' => \A u \in Image(g)' :
                        call[k].before.contacts \subseteq u.contacts \cup Excuses' \cup PutBetween(g, k)'
  <2> SUFFICES ASSUME NEW k \in Call, Ours(k)'
               PROVE  /\ Kept(Excuses', acked.contacts, call[k].before)
                      /\ Kept(Excuses', Stored.contacts, call[k].before)
                      /\ \A g \in Call : Ahead(g, k)' =>
                           \A u \in Image(g)' : Kept(Excuses', u.contacts, call[k].before)
                      /\ Kept(Excuses' \cup PutSince(k)', mem.contacts, call[k].before)
                      /\ \A g \in Call : g = k \/ Ahead(k, g)' =>
                           \A u \in Image(g)' : Kept(Excuses' \cup PutSince(k)', u.contacts, call[k].before)
                      /\ call[k].before.contacts \subseteq Stored.contacts \cup Excuses' \cup PutUntil(k)'
                      /\ \A g \in Call : Ahead(g, k)' => \A u \in Image(g)' :
                           call[k].before.contacts \subseteq u.contacts \cup Excuses' \cup PutBetween(g, k)'
    OBVIOUS
  <2>1. Ours(k) /\ k # f
    BY <1>6
  <2>2. /\ PutSince(k) \subseteq PutSince(k)' \cup Excuses'
        /\ PutUntil(k) \subseteq PutUntil(k)' \cup Excuses'
        /\ \A g \in Call : g # f => PutBetween(g, k) \subseteq PutBetween(g, k)' \cup Excuses'
    BY <1>11, <1>12, <2>1
  <2>3. \A C, w : Kept(Excuses \cup PutSince(k), C, w) => Kept(Excuses' \cup PutSince(k)', C, w)
    <3>1. Excuses \cup PutSince(k) \subseteq Excuses' \cup PutSince(k)'
      BY <1>2, <2>2
    <3> QED
      BY <3>1, KeptMore
  <2>4. /\ Kept(Excuses', acked.contacts, call[k].before)
        /\ Kept(Excuses', Stored.contacts, call[k].before)
        /\ Kept(Excuses' \cup PutSince(k)', mem.contacts, call[k].before)
    BY <1>3, <2>1, <2>3 DEF Undoable
  <2>5. \A g \in Call : Ahead(g, k)' =>
          \A u \in Image(g)' : Kept(Excuses', u.contacts, call[k].before)
    BY <1>3, <1>5, <1>7, <2>1 DEF Undoable
  <2>6. \A g \in Call : g = k \/ Ahead(k, g)' =>
          \A u \in Image(g)' : Kept(Excuses' \cup PutSince(k)', u.contacts, call[k].before)
    BY <1>5, <1>7, <2>1, <2>3 DEF Undoable
  <2>7. call[k].before.contacts \subseteq Stored.contacts \cup Excuses' \cup PutUntil(k)'
    BY <1>2, <2>1, <2>2 DEF Grounded
  <2>8. ASSUME NEW g \in Call, Ahead(g, k)', NEW u \in Image(g)'
        PROVE  call[k].before.contacts \subseteq u.contacts \cup Excuses' \cup PutBetween(g, k)'
    <3>1. Ahead(g, k) /\ g # f /\ u \in Image(g)
      BY <1>5, <1>7, <2>8
    <3>2. call[k].before.contacts \subseteq u.contacts \cup Excuses \cup PutBetween(g, k)
      BY <2>1, <3>1 DEF Grounded
    <3> QED
      BY <1>2, <2>2, <3>1, <3>2
  <2> QED
    BY <2>4, <2>5, <2>6, <2>7, <2>8
<1>13. CASE ~Ours(f)
  <2>1. phase = "open" => mem' = mem
    BY <1>1, <1>13 DEF TakeBack, Ours
  <2>2. Alive' = Alive
    BY <2>1, OpenAlive
  <2>3. Chain'
    <3>1. \A v \in Alive : /\ Follows(Excuses', acked, v) /\ Follows(Excuses', Stored, v)
                           /\ \A g \in Call : \A u \in Image(g)' : Follows(Excuses', u, v)
      BY <1>3, <1>7 DEF Chain
    <3> QED
      BY <1>1, <1>10, <2>2, <3>1 DEF Chain
  <2>4. \A k \in Call : Ours(k)' => mem' = mem /\ call'[k] = call[k]
    BY <1>1, <1>6, <2>1 DEF Ours
  <2>5. Undoable'
    BY <1>1, <1>12, <1>13, <2>4 DEF Undoable
  <2>6. Grounded'
    <3>1. ASSUME NEW v \in Alive
          PROVE  /\ v.contacts \subseteq Stored.contacts \cup Excuses' \cup Putting'
                 /\ \A g \in Call : \A u \in Image(g)' :
                      v.contacts \subseteq u.contacts \cup Excuses' \cup PutAfter(g)'
      <4>1. /\ Putting \subseteq Putting' \cup {}
            /\ \A g \in Call : g # f => PutAfter(g) \subseteq PutAfter(g)' \cup {}
        BY <1>11, <1>13
      <4>2. v.contacts \subseteq Stored.contacts \cup Excuses \cup Putting
        BY DEF Grounded
      <4>3. \A g \in Call : \A u \in Image(g) : v.contacts \subseteq u.contacts \cup Excuses \cup PutAfter(g)
        BY DEF Grounded
      <4>4. v.contacts \subseteq Stored.contacts \cup Excuses' \cup Putting'
        BY <1>2, <4>1, <4>2
      <4>5. ASSUME NEW g \in Call, NEW u \in Image(g)'
            PROVE  v.contacts \subseteq u.contacts \cup Excuses' \cup PutAfter(g)'
        <5>1. g # f /\ v.contacts \subseteq u.contacts \cup Excuses \cup PutAfter(g)
          BY <1>7, <4>3, <4>5
        <5> QED
          BY <1>2, <4>1, <5>1
      <4> QED
        BY <4>4, <4>5
    <3> QED
      BY <1>1, <1>12, <1>13, <2>2, <2>4, <3>1 DEF Grounded
  <2>7. Wholes'
    BY <1>6, <1>7, <2>2, <2>4 DEF Wholes
  <2> QED
    BY <1>8, <1>9, <2>3, <2>5, <2>6, <2>7
<1>14. CASE Ours(f)
  <2> DEFINE b == call[f].before
  <2>1. /\ f \in Commit /\ phase = "open" /\ call[f].session = session
        /\ b \in Vaults
    BY <1>14, DataTypes DEF Ours
  <2>2. /\ mem'.contacts = b.contacts /\ mem'.mailboxes = b.mailboxes /\ mem'.messages = mem.messages
    BY <1>1, <2>1 DEF TakeBack, LineInv, Types, Vaults
  <2>3. Alive = {mem} /\ Alive' = {mem'}
    BY <2>1, OpenAlive
  <2>4. \A g \in Call : Ours(g) => g = f \/ g \in Overlapping(f)
    BY <2>1 DEF Ours, Overlapping
  \* Someone of the session waits beside it: everything in play is excused.
  <2>5. Overlapping(f) # {} =>
          /\ \A g \in Call : Ours(g) => call[g].card \in Excuses'
          /\ b.contacts \subseteq Excuses'
    <3> SUFFICES ASSUME Overlapping(f) # {}
                 PROVE  /\ \A g \in Call : Ours(g) => call[g].card \in Excuses'
                        /\ b.contacts \subseteq Excuses'
      OBVIOUS
    <3>1. undone' = undone \cup { call[k].card : k \in Commit \cap (Overlapping(f) \cup {f}) } \cup b.contacts
      BY <2>1 DEF Failed
    <3>2. \A g \in Call : Ours(g) => g \in Commit \cap (Overlapping(f) \cup {f})
      BY <2>4 DEF Ours
    <3> QED
      BY <3>1, <3>2 DEF Excuses
  \* Nobody does: whatever waits is older.
  <2>6. Overlapping(f) = {} =>
          /\ \A g \in Call : Ours(g) => g = f
          /\ \A g \in Pending : g # f => Ahead(g, f)
    <3> SUFFICES ASSUME Overlapping(f) = {}
                 PROVE  /\ \A g \in Call : Ours(g) => g = f
                        /\ \A g \in Pending : g # f => Ahead(g, f)
      OBVIOUS
    <3>1. \A g \in Call : Ours(g) => g = f
      BY <2>4
    <3>2. ASSUME NEW g \in Pending, g # f, ~Ahead(g, f)
          PROVE  FALSE
      <4>1. g \in Call /\ Ahead(f, g)
        BY <3>2, Images DEF Pending
      <4>2. call[f].session <= call[g].session /\ call[g].session <= session
        BY <4>1 DEF Sessions
      <4>3. call[g].session \in Nat /\ session \in Nat
        BY <4>1 DEF LineInv, Types
      <4>4. g \in Overlapping(f)
        BY <2>1, <3>2, <4>2, <4>3 DEF Overlapping
      <4> QED
        BY <4>4
    <3> QED
      BY <3>1, <3>2
  <2>7. ASSUME NEW g \in Call, NEW u \in Image(g)'
        PROVE  Kept(Excuses', u.contacts, b)
    <3>1. g # f /\ u \in Image(g) /\ g \in Pending
      BY <1>7, <2>7, Images
    <3>2. CASE Ahead(g, f)
      BY <1>3, <1>14, <3>1, <3>2 DEF Undoable
    <3>3. CASE ~Ahead(g, f)
      <4>1. Ahead(f, g) /\ Overlapping(f) # {}
        BY <2>6, <3>1, <3>3, Images
      <4>2. Kept(Excuses \cup PutSince(f), u.contacts, b)
        BY <1>14, <3>1, <4>1 DEF Undoable
      <4>3. Excuses \cup PutSince(f) \subseteq Excuses'
        BY <1>2, <2>5, <4>1 DEF PutSince
      <4> QED
        BY <4>2, <4>3, KeptMore
    <3> QED
      BY <3>2, <3>3
  <2>8. \A C : Kept(Excuses', C, mem') <=> Kept(Excuses', C, b)
    BY <2>2 DEF Kept, Covers
  <2>9. Chain'
    <3>1. Kept(Excuses', acked.contacts, b) /\ Kept(Excuses', Stored.contacts, b)
      BY <1>3, <1>14 DEF Undoable
    <3>2. /\ acked.messages \subseteq mem.messages \cup Excuses'
          /\ Stored.messages \subseteq mem.messages \cup Excuses'
          /\ \A g \in Call : \A u \in Image(g)' : u.messages \subseteq mem.messages \cup Excuses'
      BY <1>2, <1>7, <2>3 DEF Chain, Follows
    <3>3. /\ Follows(Excuses', acked, mem') /\ Follows(Excuses', Stored, mem')
          /\ \A g \in Call : \A u \in Image(g)' : Follows(Excuses', u, mem')
      BY <2>2, <2>7, <2>8, <3>1, <3>2 DEF Follows
    <3> QED
      BY <1>1, <1>10, <2>3, <3>3 DEF Chain
  <2>10. \A k \in Call : Ours(k)' => Overlapping(f) # {}
    BY <1>6, <2>6
  <2>11. Undoable'
    <3>1. \A k \in Call : Ours(k)' => Kept(Excuses' \cup PutSince(k)', mem'.contacts, call[k].before)
      BY <2>2, <2>5, <2>10 DEF Kept
    <3> QED
      BY <1>1, <1>6, <1>12, <1>14, <2>5, <2>10, <3>1 DEF Undoable
  <2>12. Grounded'
    <3>1. ASSUME NEW g \in Call, NEW u \in Image(g)'
          PROVE  b.contacts \subseteq u.contacts \cup Excuses' \cup PutAfter(g)'
      <4>1. CASE Overlapping(f) # {}
        BY <2>5, <4>1
      <4>2. CASE Overlapping(f) = {}
        <5>1. u \in Image(g) /\ Ahead(g, f)
          BY <1>7, <2>6, <3>1, <4>2, Images
        <5>2. b.contacts \subseteq u.contacts \cup Excuses \cup PutBetween(g, f)
          BY <1>14, <5>1 DEF Grounded
        <5>3. PutBetween(g, f) = {}
          BY <2>6, <4>2, Images DEF PutBetween
        <5> QED
          BY <1>2, <5>2, <5>3
      <4> QED
        BY <4>1, <4>2
    <3>2. b.contacts \subseteq Stored.contacts \cup Excuses' \cup Putting'
      <4>1. CASE Overlapping(f) # {}
        BY <2>5, <4>1
      <4>2. CASE Overlapping(f) = {}
        <5>1. b.contacts \subseteq Stored.contacts \cup Excuses \cup PutUntil(f)
          BY <1>14 DEF Grounded
        <5>2. PutUntil(f) = {}
          BY <2>6, <4>2, Images DEF PutUntil
        <5> QED
          BY <1>2, <5>1, <5>2
      <4> QED
        BY <4>1, <4>2
    <3> QED
      BY <1>1, <1>6, <1>12, <1>14, <2>2, <2>3, <2>5, <2>10, <3>1, <3>2 DEF Grounded
  <2>13. Wholes'
    <3>1. Sound(b)
      BY <1>14 DEF Wholes
    <3>2. Sound(mem')
      BY <2>2, <3>1 DEF Sound, Whole, Single
    <3> QED
      BY <1>1, <1>6, <1>7, <2>3, <3>2 DEF Wholes
  <2> QED
    BY <1>8, <1>9, <2>9, <2>11, <2>12, <2>13
<1> QED
  BY <1>13, <1>14

\* The oldest snapshot lands: everybody else stood behind it.
LEMMA LandedData ==
  ASSUME DataInv, LineInv', NEW f \in Call, f \in Pending, LineLoses(f), Acknowledged(f),
         Image("first")' \subseteq {EmptyVault},
         phase' = phase, session' = session, UNCHANGED jobs,
         Image(f) = {Stored'},
         \A g \in Pending : g # f => Ahead(f, g),
         \A g : ~Ahead(g, f)
  PROVE  DataInv'
<1> USE DEF DataInv
<1>1. /\ call'[f].at = "idle"
      /\ \A g \in Call : g # f => call'[g] = call[g]
      /\ UNCHANGED <<mem, overtaken, undone>>
  BY AcknowledgedTypes
<1>2. Excuses' = Excuses /\ Alive' = Alive
  BY <1>1 DEF Excuses, Alive, Waking
<1>3. \A g \in Call : g \in Pending' <=> g # f /\ g \in Pending
  BY <1>1 DEF Pending
<1>4. /\ \A g, h \in Call : Ahead(g, h)' => Ahead(g, h) /\ g # f /\ h # f
      /\ \A g, h \in Call : Ahead(g, h) /\ g # f /\ h # f => Ahead(g, h)'
      /\ Image(f)' = {}
      /\ \A g \in Call : g # f => Image(g)' = Image(g)
  BY DEF LineLoses
<1>5. \A g \in Call : Ours(g)' <=> Ours(g) /\ g # f
  BY <1>1, <1>3 DEF Ours
<1>6. \A g \in Call : \A u \in Image(g)' : g # f /\ u \in Image(g) /\ Ahead(f, g)
  BY <1>4, Images
<1>7. \A g \in Call : Ours(g)' => Ahead(f, g)
  BY <1>5 DEF Ours
<1>8. /\ acked'.contacts \subseteq acked.contacts \cup Stored'.contacts
      /\ acked'.messages \subseteq acked.messages \cup Stored'.messages
  <2>1. IF f \in Commit THEN call[f].card \in Stored'.contacts ELSE RecordOf[f] \in Stored'.messages
    BY DEF Carried
  <2>2. acked \in [contacts : SUBSET Cards, messages : SUBSET Records]
    BY DEF LineInv, Types
  <2> QED
    BY <2>1, <2>2 DEF Acknowledged
<1>9. /\ \A X, v : Kept(X, acked.contacts, v) /\ Kept(X, Stored'.contacts, v) => Kept(X, acked'.contacts, v)
      /\ \A X, v : Follows(X, acked, v) /\ Follows(X, Stored', v) => Follows(X, acked', v)
  BY <1>8 DEF Kept, Follows
<1>10. Sessions'
  <2>1. \A g \in Pending' : g \in Call /\ g # f /\ g \in Pending
    BY <1>3 DEF Pending
  <2> QED
    BY <1>1, <1>4, <2>1 DEF Sessions
<1>11. Carried'
  BY <1>1, <1>6 DEF Carried
<1>12. Chain'
  <2>1. Follows(Excuses, acked', Stored')
    <3>1. Stored' \in Vaults /\ Follows(Excuses, acked, Stored')
      BY Images DEF Chain
    <3> QED
      BY <1>9, <3>1, FollowsOwn
  <2>2. \A g \in Call : \A u \in Image(g)' : Follows(Excuses, acked', u) /\ Follows(Excuses, Stored', u)
    BY <1>6, <1>9 DEF Chain
  <2>3. \A g, h \in Call : Ahead(g, h)' =>
          \A u \in Image(g)', w \in Image(h)' : Follows(Excuses, u, w)
    BY <1>4, <1>6 DEF Chain
  <2>4. \A v \in Alive : /\ Follows(Excuses, acked', v) /\ Follows(Excuses, Stored', v)
                         /\ \A g \in Call : \A u \in Image(g)' : Follows(Excuses, u, v)
    BY <1>6, <1>9 DEF Chain
  <2> QED
    BY <1>2, <2>1, <2>2, <2>3, <2>4 DEF Chain
\* f stood behind nobody, so the commits behind anyone are those that were.
<1>13. \A h \in Call : Ours(h) /\ h # f => Ours(h)' /\ call'[h].card = call[h].card
  BY <1>1, <1>5
<1>14. /\ \A j \in Call : j # f => /\ PutSince(j) \subseteq PutSince(j)'
                                   /\ PutAfter(j) \subseteq PutAfter(j)'
                                   /\ \A g \in Call : g # f => PutBetween(g, j) \subseteq PutBetween(g, j)'
                                   /\ PutBetween(f, j) \subseteq PutUntil(j)'
       /\ PutAfter(f) \subseteq Putting'
  <2>1. \A j \in Call : j # f => PutSince(j) \subseteq PutSince(j)'
    BY <1>4, <1>13 DEF PutSince
  <2>2. \A j \in Call : j # f => PutAfter(j) \subseteq PutAfter(j)'
    BY <1>4, <1>13 DEF PutAfter
  <2>3. \A j, g \in Call : j # f /\ g # f => PutBetween(g, j) \subseteq PutBetween(g, j)'
    BY <1>4, <1>13 DEF PutBetween
  <2>4. \A j \in Call : j # f => PutBetween(f, j) \subseteq PutUntil(j)'
    BY <1>4, <1>13, Images DEF PutBetween, PutUntil
  <2>5. PutAfter(f) \subseteq Putting'
    BY <1>13, Images DEF PutAfter, Putting
  <2> QED
    BY <2>1, <2>2, <2>3, <2>4, <2>5
<1>15. Undoable'
  <2> SUFFICES ASSUME NEW k \in Call, Ours(k)'
               PROVE  /\ Kept(Excuses', acked'.contacts, call'[k].before)
                      /\ Kept(Excuses', Stored'.contacts, call'[k].before)
                      /\ \A g \in Call : Ahead(g, k)' =>
                           \A u \in Image(g)' : Kept(Excuses', u.contacts, call'[k].before)
                      /\ Kept(Excuses' \cup PutSince(k)', mem'.contacts, call'[k].before)
                      /\ \A g \in Call : g = k \/ Ahead(k, g)' =>
                           \A u \in Image(g)' : Kept(Excuses' \cup PutSince(k)', u.contacts, call'[k].before)
    BY DEF Undoable
  <2>1. Ours(k) /\ k # f /\ Ahead(f, k) /\ call'[k] = call[k]
    BY <1>1, <1>5, <1>7
  <2>2. Kept(Excuses, Stored'.contacts, call[k].before)
    BY <2>1 DEF Undoable
  <2>3. Kept(Excuses, acked'.contacts, call[k].before)
    BY <1>9, <2>1, <2>2 DEF Undoable
  <2>4. \A C, v : Kept(Excuses \cup PutSince(k), C, v) => Kept(Excuses \cup PutSince(k)', C, v)
    <3>1. Excuses \cup PutSince(k) \subseteq Excuses \cup PutSince(k)'
      BY <1>14, <2>1
    <3> QED
      BY <3>1, KeptMore
  <2>5. \A g \in Call : Ahead(g, k)' =>
          \A u \in Image(g)' : Kept(Excuses, u.contacts, call[k].before)
    BY <1>4, <1>6, <2>1 DEF Undoable
  <2>6. Kept(Excuses \cup PutSince(k)', mem.contacts, call[k].before)
    BY <2>1, <2>4 DEF Undoable
  <2>7. \A g \in Call : g = k \/ Ahead(k, g)' =>
          \A u \in Image(g)' : Kept(Excuses \cup PutSince(k)', u.contacts, call[k].before)
    BY <1>4, <1>6, <2>1, <2>4 DEF Undoable
  <2> QED
    BY <1>1, <1>2, <2>1, <2>2, <2>3, <2>5, <2>6, <2>7
<1>16. Grounded'
  <2>1. ASSUME NEW v \in Alive
        PROVE  /\ v.contacts \subseteq Stored'.contacts \cup Excuses \cup Putting'
               /\ \A g \in Call : \A u \in Image(g)' :
                    v.contacts \subseteq u.contacts \cup Excuses \cup PutAfter(g)'
    <3>1. \A g \in Call : \A u \in Image(g) : v.contacts \subseteq u.contacts \cup Excuses \cup PutAfter(g)
      BY DEF Grounded
    <3>2. v.contacts \subseteq Stored'.contacts \cup Excuses \cup PutAfter(f)
      BY <3>1
    <3>3. v.contacts \subseteq Stored'.contacts \cup Excuses \cup Putting'
      BY <1>14, <3>2
    <3>4. ASSUME NEW g \in Call, NEW u \in Image(g)'
          PROVE  v.contacts \subseteq u.contacts \cup Excuses \cup PutAfter(g)'
      <4>1. g # f /\ v.contacts \subseteq u.contacts \cup Excuses \cup PutAfter(g)
        BY <1>6, <3>1, <3>4
      <4> QED
        BY <1>14, <4>1
    <3> QED
      BY <3>3, <3>4
  <2>2. ASSUME NEW k \in Call, Ours(k)'
        PROVE  /\ call'[k].before.contacts \subseteq Stored'.contacts \cup Excuses \cup PutUntil(k)'
               /\ \A g \in Call : Ahead(g, k)' => \A u \in Image(g)' :
                    call'[k].before.contacts \subseteq u.contacts \cup Excuses \cup PutBetween(g, k)'
    <3>1. Ours(k) /\ k # f /\ Ahead(f, k) /\ call'[k] = call[k]
      BY <1>1, <1>5, <1>7, <2>2
    <3>2. call[k].before.contacts \subseteq Stored'.contacts \cup Excuses \cup PutBetween(f, k)
      BY <3>1 DEF Grounded
    <3>3. ASSUME NEW g \in Call, Ahead(g, k)', NEW u \in Image(g)'
          PROVE  call[k].before.contacts \subseteq u.contacts \cup Excuses \cup PutBetween(g, k)'
      <4>1. g # f /\ Ahead(g, k) /\ u \in Image(g)
        BY <1>4, <1>6, <3>3
      <4>2. call[k].before.contacts \subseteq u.contacts \cup Excuses \cup PutBetween(g, k)
        BY <3>1, <4>1 DEF Grounded
      <4> QED
        BY <1>14, <3>1, <4>1, <4>2
    <3> QED
      BY <1>14, <3>1, <3>2, <3>3
  <2> QED
    BY <1>2, <2>1, <2>2 DEF Grounded
<1>17. Wholes'
  BY <1>1, <1>2, <1>5, <1>6 DEF Wholes
<1> QED
  BY <1>10, <1>11, <1>12, <1>15, <1>16, <1>17

-----------------------------------------------------------------------------
(* Every step of the pipeline is one of these.                              *)

\* Posting or taking another message leaves what is about to be unlocked.
LEMMA WakingStays ==
  ASSUME LineInv
  PROVE  /\ \A j \in Job : j.op # "unlock" /\ jobs' = Append(jobs, j) => Waking' = Waking
         /\ jobs # <<>> /\ Head(jobs).op # "unlock" /\ jobs' = Tail(jobs) => Waking' = Waking
         /\ jobs' = jobs => Waking' = Waking
<1>1. ASSUME NEW j \in Job, j.op # "unlock", jobs' = Append(jobs, j)
      PROVE  Waking' = Waking
  <2>1. /\ \A i \in DOMAIN jobs : jobs'[i] = jobs[i] /\ i \in DOMAIN jobs'
        /\ jobs'[Len(jobs) + 1] = j
        /\ \A i \in DOMAIN jobs' : i \in DOMAIN jobs \/ i = Len(jobs) + 1
    BY <1>1, Posted DEF LineInv, Types
  <2>2. { k \in DOMAIN jobs' : jobs'[k].op = "unlock" } = { k \in DOMAIN jobs : jobs[k].op = "unlock" }
    BY <1>1, <2>1
  <2> QED
    BY <2>1, <2>2 DEF Waking
<1>2. ASSUME jobs # <<>>, Head(jobs).op # "unlock", jobs' = Tail(jobs)
      PROVE  Waking' = Waking
  <2>1. /\ Head(jobs) = jobs[1]
        /\ \A i \in DOMAIN jobs' : i + 1 \in DOMAIN jobs /\ jobs'[i] = jobs[i + 1]
        /\ \A i \in DOMAIN jobs : i # 1 => i - 1 \in DOMAIN jobs' /\ (i - 1) + 1 = i
    BY <1>2, JobTaken
  <2>2. Waking' \subseteq Waking
    BY <2>1 DEF Waking
  <2>3. Waking \subseteq Waking'
    <3> SUFFICES ASSUME NEW i \in DOMAIN jobs, jobs[i].op = "unlock"
                 PROVE  DecryptVaultBlob(jobs[i].data) \in Waking'
      BY DEF Waking
    <3>1. i # 1
      BY <1>2, <2>1
    <3>2. i - 1 \in DOMAIN jobs' /\ jobs'[i - 1] = jobs[i]
      BY <2>1, <3>1
    <3> QED
      BY <3>2 DEF Waking
  <2> QED
    BY <2>2, <2>3
<1>3. jobs' = jobs => Waking' = Waking
  BY DEF Waking
<1> QED
  BY <1>1, <1>2, <1>3

\* A step that leaves both queues' snapshots alone, and the persists with them.
LEMMA StillData ==
  ASSUME DataInv, LineInv', LineStays,
         UNCHANGED <<disk, call, acked, overtaken, undone>>, session' = session,
         \/ Alive' = {} /\ phase' # "open"
         \/ Alive' = Alive /\ mem' = mem /\ (phase' = "open" <=> phase = "open")
  PROVE  DataInv'
<1>1. Stored' = Stored /\ Pending' = Pending
  BY DEF Stored, Pending
<1>2. session <= session'
  BY DataTypes DEF DataInv
<1>3. \/ Alive' = {} /\ \A g \in Call : ~Ours(g)'
      \/ Alive' = Alive /\ mem' = mem /\ \A g \in Call : Ours(g)' <=> Ours(g)
  <2>1. \A g : Ours(g)' <=> g \in Commit /\ g \in Pending /\ call[g].session = session /\ phase' = "open"
    BY <1>1 DEF Ours
  <2> QED
    BY <2>1 DEF Ours
<1> QED
  BY <1>1, <1>2, <1>3, QuietData DEF LineStays, DataInv

LEMMA CreateData ==
  ASSUME DataInv, LineInv', CreateIdentity
  PROVE  DataInv'
<1> USE DEF CreateIdentity, histories
<1>1. LineInv /\ jobs \in Seq(Job) /\ [op |-> "create"] \in Job
  BY Kinds DEF DataInv, LineInv, Types
<1>2. jobs' = Append(jobs, [op |-> "create"]) /\ writes' = writes
  BY DEF Post
<1>3. Same(jobs, jobs', "seal") /\ Same(writes, writes', "save")
  <2>1. Same(jobs, jobs', "seal")
    BY <1>1, <1>2, AppendOther
  <2>2. Same(writes, writes', "save")
    BY <1>2 DEF Same
  <2> QED
    BY <2>1, <2>2
<1>4. Alive' = Alive
  BY <1>1, <1>2, WakingStays DEF Alive
<1> QED
  BY <1>3, <1>4, StaysLine, StillData

LEMMA LockData ==
  ASSUME DataInv, LineInv', Lock
  PROVE  DataInv'
<1> USE DEF Lock, histories
<1>1. LineInv /\ jobs \in Seq(Job) /\ [op |-> "forget"] \in Job
  BY Kinds DEF DataInv, LineInv, Types
<1>2. jobs' = Append(jobs, [op |-> "forget"]) /\ writes' = writes
  BY DEF Forget, Post
<1>3. Same(jobs, jobs', "seal") /\ Same(writes, writes', "save")
  <2>1. Same(jobs, jobs', "seal")
    BY <1>1, <1>2, AppendOther
  <2>2. Same(writes, writes', "save")
    BY <1>2 DEF Same
  <2> QED
    BY <2>1, <2>2
<1>4. Waking = {}
  BY <1>1 DEF LineInv, Shape, Waking
<1>5. Alive' = {}
  BY <1>1, <1>2, <1>4, WakingStays DEF Alive
<1> QED
  BY <1>3, <1>5, StaysLine, StillData

LEMMA UnlockData ==
  ASSUME DataInv, LineInv', Unlock
  PROVE  DataInv'
<1> USE DEF Unlock, histories
<1>1. LineInv /\ writes \in Seq(Write) /\ [op |-> "load"] \in Write
  BY Kinds DEF DataInv, LineInv, Types
<1>2. Same(jobs, jobs', "seal") /\ Same(writes, writes', "save")
  <2>1. Same(jobs, jobs', "seal")
    BY DEF Same
  <2>2. Same(writes, writes', "save")
    BY <1>1, AppendOther
  <2> QED
    BY <2>1, <2>2
<1>3. Alive' = Alive
  BY <1>1, WakingStays DEF Alive
<1> QED
  BY <1>2, <1>3, StaysLine, StillData

LEMMA WorkerForgetsData ==
  ASSUME DataInv, LineInv', WorkerForgets
  PROVE  DataInv'
<1> USE DEF WorkerForgets, histories
<1>1. LineInv /\ jobs \in Seq(Job)
  BY DEF DataInv, LineInv, Types
<1>2. Same(jobs, jobs', "seal")
  BY <1>1, TailOther
<1>3. Same(writes, writes', "save")
  BY DEF Same
<1>4. Alive' = Alive
  BY <1>1, WakingStays DEF Alive
<1> QED
  BY <1>2, <1>3, <1>4, StaysLine, StillData

LEMMA UnchangedData ==
  ASSUME DataInv, LineInv', UNCHANGED vars
  PROVE  DataInv'
<1> USE DEF vars, histories
<1>1. Same(jobs, jobs', "seal") /\ Same(writes, writes', "save")
  BY DEF Same
<1>2. Alive' = Alive
  BY DEF Alive, Waking
<1> QED
  BY <1>1, <1>2, StaysLine, StillData

\* The worker opens what the database read, or refuses it.
LEMMA WorkerUnlocksData ==
  ASSUME DataInv, LineInv', WorkerUnlocks \/ WorkerRefuses
  PROVE  DataInv'
<1> USE DEF histories
<1>1. LineInv /\ jobs \in Seq(Job)
  BY DEF DataInv, LineInv, Types
<1>2. jobs # <<>> /\ Head(jobs).op = "unlock" /\ jobs' = Tail(jobs) /\ Head(jobs) = jobs[1]
  BY <1>1, JobTaken DEF WorkerUnlocks, WorkerRefuses
<1>3. phase = "deriving" /\ DOMAIN jobs' = {} /\ DOMAIN jobs = {1}
  BY <1>1, <1>2, UnlockTaken
<1>4. /\ UNCHANGED <<writes, disk, call, acked, overtaken, undone>>
      /\ \/ phase' = "open" /\ session' = session + 1 /\ mem' = DecryptVaultBlob(jobs[1].data)
         \/ phase' = "locked" /\ session' = session
  BY <1>2 DEF WorkerUnlocks, WorkerRefuses
<1>5. LineStays
  <2>1. Same(jobs, jobs', "seal") /\ Same(writes, writes', "save")
    BY <1>1, <1>2, <1>4, TailOther DEF Same
  <2> QED
    BY <2>1, StaysLine
<1>6. Stored' = Stored /\ Pending' = Pending
  BY <1>4 DEF Stored, Pending
<1>7. session \in Nat /\ session <= session'
  BY <1>1, <1>4 DEF LineInv, Types
<1>8. Waking' = {}
  BY <1>3 DEF Waking
<1>9. CASE phase' = "locked"
  <2>1. Alive' = {} /\ \A g \in Call : ~Ours(g)'
    BY <1>8, <1>9 DEF Alive, Ours
  <2> QED
    BY <1>4, <1>5, <1>6, <1>7, <2>1, QuietData DEF LineStays, DataInv
<1>10. CASE phase' = "open"
  <2>1. session' = session + 1 /\ mem' = DecryptVaultBlob(jobs[1].data)
    BY <1>4, <1>10
  <2>2. Alive' = {mem'}
    BY <1>8, <1>10 DEF Alive
  <2>3. Alive = {mem'}
    <3>1. Waking = {mem'}
      BY <1>2, <1>3, <2>1 DEF Waking
    <3> QED
      BY <1>3, <3>1 DEF Alive
  <2>4. \A g \in Call : ~Ours(g)
    BY <1>3 DEF Ours
  <2>5. \A g \in Call : ~Ours(g)'
    <3> SUFFICES ASSUME NEW g \in Call, g \in Pending, call[g].session = session + 1 PROVE FALSE
      BY <1>4, <1>6, <2>1 DEF Ours
    <3>1. call[g].session <= session
      BY DEF DataInv, Sessions
    <3> QED
      BY <1>7, <3>1
  <2> QED
    BY <1>4, <1>5, <1>6, <1>7, <2>2, <2>3, <2>4, <2>5, QuietData DEF LineStays, DataInv
<1> QED
  BY <1>4, <1>9, <1>10

\* The worker makes the first blob: it holds nothing.
LEMMA WorkerCreatesData ==
  ASSUME DataInv, LineInv', WorkerCreates
  PROVE  DataInv'
<1> USE DEF WorkerCreates, histories
<1> DEFINE w == [op |-> "save", for |-> "first", data |-> Seal(EmptyVault)]
<1>1. LineInv /\ jobs \in Seq(Job) /\ writes \in Seq(Write) /\ w \in Write
  BY EmptyIsVault, SealedOpens, Kinds DEF DataInv, LineInv, Types
<1>2. w.op = "save" /\ w.for = "first" /\ w.data = Seal(EmptyVault) /\ writes' = Append(writes, w)
  OBVIOUS
<1> HIDE DEF w
<1>3. phase = "creating"
  <2>1. 1 \in DOMAIN jobs /\ Head(jobs) = jobs[1]
    BY <1>1, JobTaken
  <2> QED
    BY <1>1, <2>1 DEF LineInv, Shape
<1>4. ~In(writes, "save", "first")
  BY <1>1, <1>3 DEF In, For, LineInv, Shape
<1>5. Joined(writes, writes', "save", "first", Seal(EmptyVault))
  BY <1>1, <1>2, <1>4, AppendFor
<1>6. Same(jobs, jobs', "seal")
  BY <1>1, TailOther
<1>7. ASSUME NEW g \in Call PROVE Image(g)' = Image(g)
  <2>1. Image(g)' = Img(jobs', "seal", g) \cup { DecryptVaultBlob(b) : b \in Img(writes', "save", g) }
    BY DEF Image
  <2>2. g # "first"
    BY CallsAssumption
  <2> QED
    BY <1>5, <1>6, <2>1, <2>2 DEF Image, Same, Joined
<1>8. ASSUME NEW g \in Call, NEW h \in Call PROVE Ahead(g, h)' <=> Ahead(g, h)
  <2>1. Ahead(g, h)' <=> \/ Before(jobs', "seal", g, h)
                         \/ Before(writes', "save", g, h)
                         \/ In(writes', "save", g) /\ In(jobs', "seal", h)
    BY DEF Ahead
  <2>2. g # "first" /\ h # "first"
    BY CallsAssumption
  <2> QED
    BY <1>5, <1>6, <2>1, <2>2 DEF Ahead, Same, Joined
<1>9. Image("first")' \subseteq {EmptyVault}
  <2>1. Image("first")' = Img(jobs', "seal", "first") \cup { DecryptVaultBlob(b) : b \in Img(writes', "save", "first") }
    BY DEF Image
  <2>2. Img(jobs, "seal", "first") = {}
    BY <1>1, QueueKinds, CallsAssumption DEF LineInv, Img, For
  <2>3. DecryptVaultBlob(Seal(EmptyVault)) = EmptyVault
    BY EmptyIsVault, SealedOpens
  <2> QED
    BY <1>5, <1>6, <2>1, <2>2, <2>3 DEF Same, Joined
<1>10. Stored' = Stored /\ Pending' = Pending /\ session' = session /\ session <= session'
  BY <1>1 DEF Stored, Pending, LineInv, Types
<1>11. Alive' = Alive /\ \A g \in Call : ~Ours(g) /\ ~Ours(g)'
  BY <1>1, <1>3, WakingStays DEF Alive, Ours
<1> QED
  BY <1>7, <1>8, <1>9, <1>10, <1>11, QuietData

\* A message is added: everything else stays as it is.
LEMMA AddMessageData ==
  ASSUME DataInv, LineInv', NEW f \in Send \cup Receive, NEW s \in SUBSET { r["msgId"] : r \in Records },
         AddMessage(f, s)
  PROVE  DataInv'
<1> USE DEF DataInv, AddMessage, histories
<1> DEFINE v == [mem EXCEPT !.messages = @ \cup {RecordOf[f]}, !.seen = @ \cup s]
<1>1. f \in Call \ Pending /\ f \notin Commit /\ mem \in Vaults
  BY CallsAssumption, DataTypes DEF Call
<1>2. v \in Vaults
  BY <1>1, Added
<1>3. /\ v.contacts = mem.contacts /\ v.mailboxes = mem.mailboxes
      /\ mem.messages \subseteq v.messages /\ RecordOf[f] \in v.messages
      /\ mem' = v
  BY <1>1 DEF Vaults
<1> HIDE DEF v
<1>4. /\ jobs' = Append(jobs, [op |-> "seal", for |-> f, data |-> v])
      /\ call' = [call EXCEPT ![f] = [at |-> "sealing", session |-> session,
                                      before |-> EmptyVault, card |-> NoCard]]
  BY <1>3 DEF Persist, Post
<1>5. /\ \A g : Image(g)' = IF g = f THEN {v} ELSE Image(g)
      /\ \A g \in Call : \A h : Ahead(g, h)' <=> Ahead(g, h) \/ (h = f /\ g \in Pending)
  BY <1>1, <1>2, <1>4, AskedLine
<1>6. \A d \in Cards : Covers(mem, d) => Covers(v, d)
  BY <1>3 DEF Covers
<1>7. Sound(mem) => Sound(v) /\ Sound(EmptyVault)
  BY <1>3, EmptyIsVault DEF Sound, Whole, Single, EmptyVault
<1>8. Stored' = Stored
  BY DEF Stored
<1> QED
  BY <1>1, <1>2, <1>3, <1>4, <1>5, <1>6, <1>7, <1>8, EmptyIsVault, AskedData

\* What pinning a card keeps: a card gives way only to a higher serial of its peer.
LEMMA PinKeeps ==
  ASSUME NEW v \in Vaults, NEW p \in Pairing, Single(v), Classify(v, p.card) # "rejected", NEW w,
         w.contacts = (v.contacts \ Pinned(v, p.card.of)) \cup {p.card},
         w.mailboxes = PutMailboxes(v, p),
         w.messages = v.messages
  PROVE  /\ p.card \in w.contacts /\ w.contacts \subseteq v.contacts \cup {p.card}
         /\ w.messages = v.messages
         /\ \A d \in Cards : Covers(v, d) => Covers(w, d)
         /\ Whole(v) => Whole(w)
         /\ Single(w)
<1> USE DEF Vaults, Pinned
<1>1. /\ w.contacts = (v.contacts \ Pinned(v, p.card.of)) \cup {p.card}
      /\ w.mailboxes = PutMailboxes(v, p)
      /\ w.messages = v.messages
  OBVIOUS
<1>2. \A c \in Cards : c.serial \in Nat
  BY DataAssumption DEF Cards
<1>3. p.card \in Cards /\ v.contacts \subseteq Cards
  BY DEF Cards
<1>4. \A d \in v.contacts : d.of = p.card.of => p.card.serial >= d.serial
  <2> SUFFICES ASSUME NEW d \in v.contacts, d.of = p.card.of PROVE p.card.serial >= d.serial
    OBVIOUS
  <2>1. CASE p.card \in v.contacts
    <3>1. d = p.card
      BY <2>1 DEF Single
    <3> QED
      BY <1>2, <1>3, <3>1
  <2>2. CASE p.card \notin v.contacts
    <3>1. d \in Pinned(v, p.card.of)
      OBVIOUS
    <3>2. ~(p.card.serial <= d.serial)
      BY <2>2, <3>1 DEF Classify
    <3> QED
      BY <1>2, <1>3, <3>2
  <2> QED
    BY <2>1, <2>2
<1>5. \A d \in Cards : Covers(v, d) => Covers(w, d)
  <2> SUFFICES ASSUME NEW d \in Cards, NEW e \in v.contacts, e.of = d.of, e.serial >= d.serial
               PROVE  Covers(w, d)
    BY DEF Covers
  <2>1. CASE e.of = p.card.of
    <3>1. p.card.serial >= e.serial
      BY <1>4, <2>1
    <3>2. p.card.serial >= d.serial
      BY <1>2, <1>3, <3>1
    <3> QED
      BY <1>1, <2>1, <3>2 DEF Covers
  <2>2. CASE e.of # p.card.of
    BY <1>1, <2>2 DEF Covers
  <2> QED
    BY <2>1, <2>2
<1>6. Whole(v) => Whole(w)
  <2> SUFFICES ASSUME Whole(v), NEW mb \in w.mailboxes
               PROVE  \E q \in Pairing :
                        /\ mb \in q.mailboxes
                        /\ \E c \in w.contacts : c.of = q.card.of /\ q.card.serial <= c.serial
    BY DEF Whole
  <2>1. CASE mb \in p.mailboxes
    BY <1>1, <1>2, <1>3, <2>1
  <2>2. CASE mb \notin p.mailboxes
    <3>1. mb \in v.mailboxes
      BY <1>1, <2>2 DEF PutMailboxes
    <3>2. PICK q \in Pairing : /\ mb \in q.mailboxes
                              /\ \E c \in v.contacts : c.of = q.card.of /\ q.card.serial <= c.serial
      BY <3>1 DEF Whole
    <3>3. q.card \in Cards /\ q.card.serial \in Nat
      BY <1>2 DEF Cards
    <3>4. Covers(v, q.card)
      BY <1>2, <1>3, <3>2, <3>3 DEF Covers
    <3>5. PICK c \in w.contacts : c.of = q.card.of /\ c.serial >= q.card.serial
      BY <1>5, <3>3, <3>4 DEF Covers
    <3>6. c.serial \in Nat
      BY <1>1, <1>2, <1>3, <3>5
    <3> QED
      BY <3>2, <3>3, <3>5, <3>6
  <2> QED
    BY <2>1, <2>2
<1>7. Single(w)
  BY <1>1 DEF Single
<1> QED
  BY <1>1, <1>5, <1>6, <1>7

LEMMA CommitData ==
  ASSUME DataInv, LineInv', NEW p \in Pairing, CommitContact(p)
  PROVE  DataInv'
<1> USE DEF DataInv, histories
<1> DEFINE f == CHOOSE k \in Commit \ Pending : TRUE
           b == [EmptyVault EXCEPT !.contacts = mem.contacts, !.mailboxes = mem.mailboxes]
           v == [mem EXCEPT !.contacts = (@ \ Pinned(mem, p.card.of)) \cup {p.card},
                            !.mailboxes = PutMailboxes(mem, p)]
<1>1. f \in Call \ Pending /\ f \in Commit
  BY DEF CommitContact, Call
<1>2. mem \in Vaults /\ Sound(mem) /\ phase = "open"
  <2>1. phase = "open" /\ Alive = {mem}
    BY OpenAlive DEF CommitContact
  <2> QED
    BY <2>1, DataTypes DEF Wholes
<1>3. v \in Vaults /\ b \in Vaults
  BY <1>2, PinnedVault
<1>4. b.contacts = mem.contacts /\ b.mailboxes = mem.mailboxes
  BY DEF EmptyVault
<1>5. /\ p.card \in v.contacts /\ v.contacts \subseteq mem.contacts \cup {p.card}
      /\ v.messages = mem.messages
      /\ \A d \in Cards : Covers(mem, d) => Covers(v, d)
      /\ Whole(mem) => Whole(v)
      /\ Single(v)
  <2>1. Classify(mem, p.card) # "rejected" /\ Single(mem)
    BY <1>2 DEF CommitContact, Sound
  <2>2. /\ v.contacts = (mem.contacts \ Pinned(mem, p.card.of)) \cup {p.card}
        /\ v.mailboxes = PutMailboxes(mem, p)
        /\ v.messages = mem.messages
    BY <1>2 DEF Vaults
  <2> HIDE DEF DataInv, histories, f, b, v
  <2> QED
    BY <1>2, <2>1, <2>2, PinKeeps
<1>6. mem' = v /\ Persist(f, mem', b, p.card) /\ UNCHANGED <<phase, session, armed, writes, disk, histories>>
  BY DEF CommitContact
<1> HIDE DEF f, b, v
<1>7. /\ jobs' = Append(jobs, [op |-> "seal", for |-> f, data |-> v])
      /\ call' = [call EXCEPT ![f] = [at |-> "sealing", session |-> session, before |-> b, card |-> p.card]]
  BY <1>6 DEF Persist, Post
<1>8. Sound(b)
  BY <1>2, <1>4 DEF Sound, Whole, Single
<1>9. Stored' = Stored
  BY <1>6 DEF Stored
<1>10. ASSUME NEW k \in Call \ Pending, k \in Commit, NEW x \in Vaults, x = v, NEW y \in Vaults, y = b,
             jobs' = Append(jobs, [op |-> "seal", for |-> k, data |-> x]),
             call' = [call EXCEPT ![k] = [at |-> "sealing", session |-> session, before |-> y, card |-> p.card]]
      PROVE  DataInv'
  <2>1. /\ \A g : Image(g)' = IF g = k THEN {x} ELSE Image(g)
        /\ \A g \in Call : \A h : Ahead(g, h)' <=> Ahead(g, h) \/ (h = k /\ g \in Pending)
    BY <1>6, <1>10, AskedLine
  <2>2. /\ phase' = "open" /\ session' = session /\ mem' = x /\ UNCHANGED <<acked, overtaken, undone>>
        /\ mem.messages \subseteq x.messages /\ \A d \in Cards : Covers(mem, d) => Covers(x, d)
        /\ y.contacts = mem.contacts /\ p.card \in x.contacts /\ x.contacts \subseteq mem.contacts \cup {p.card}
        /\ Sound(mem) => Sound(x) /\ Sound(y)
    BY <1>2, <1>4, <1>5, <1>6, <1>8, <1>10 DEF Sound
  <2> QED
    BY <1>2, <1>9, <1>10, <2>1, <2>2, AskedData
<1> QED
  BY <1>1, <1>3, <1>7, <1>10

LEMMA WorkerSealsData ==
  ASSUME DataInv, LineInv', WorkerSeals, NEW f, f = jobs[1].for, NEW v, v = jobs[1].data
  PROVE  DataInv'
<1> USE DEF DataInv
<1>1. /\ jobs # <<>> /\ jobs' = Tail(jobs) /\ Head(jobs) = jobs[1] /\ 1 \in DOMAIN jobs
      /\ jobs[1].op = "seal" /\ jobs \in Seq(Job) /\ writes \in Seq(Write)
      /\ UNCHANGED <<phase, session, armed, disk>>
  BY JobTaken DEF WorkerSeals, LineInv, Types
<1>2. f \in Call /\ v \in Vaults /\ For(jobs, "seal", 1, f)
  BY <1>1, QueueKinds DEF For, LineInv
<1>3. In(jobs, "seal", f) /\ ~In(writes, "save", f) /\ f \in Pending /\ f # "first"
  BY <1>1, <1>2, InLine, CallsAssumption DEF In
<1>4. \A i \in DOMAIN jobs : For(jobs, "seal", i, f) => i = 1
  BY <1>1, <1>2, InLine
<1>5. Left(jobs, jobs', "seal", f, v)
  BY <1>1, <1>4, TailFor
<1>6. Waking' = Waking
  BY <1>1, WakingStays
<1>7. armed
  BY <1>1 DEF LineInv, Shape
<1>8. Stored' = Stored
  BY <1>1 DEF Stored
<1>9. CASE Creatable(v, Params)
  <2> DEFINE w == [op |-> "save", for |-> f, data |-> Seal(v)]
  <2>1. /\ writes' = Append(writes, w)
        /\ call' = [call EXCEPT ![f].at = "saving"]
        /\ UNCHANGED <<mem, acked, overtaken, undone>>
    BY <1>1, <1>7, <1>9 DEF WorkerSeals, histories
  <2>2. w \in Write /\ w.op = "save" /\ w.for = f /\ w.data = Seal(v)
    BY <1>2, <1>9, Kinds, SealedOpens
  <2> HIDE DEF w
  <2>3. Joined(writes, writes', "save", f, Seal(v))
    BY <1>1, <1>3, <2>1, <2>2, AppendFor
  <2>4. LineStays
    BY <1>2, <1>3, <1>5, <1>9, <2>3, SealedOpens, SealedLine
  <2>5. \A g \in Call : /\ call'[g].session = call[g].session /\ call'[g].before = call[g].before
                        /\ call'[g].card = call[g].card
                        /\ call'[g].at # "idle" <=> call[g].at # "idle"
    BY <1>2, <1>3, <2>1 DEF LineInv, Types, Pending
  <2>6. Pending' = Pending
    BY <2>5 DEF Pending
  <2>7. Alive' = Alive /\ \A g \in Call : Ours(g)' <=> Ours(g)
    BY <1>1, <1>6, <2>1, <2>5, <2>6 DEF Alive, Ours
  <2>8. session <= session'
    BY <1>1 DEF LineInv, Types
  <2> QED
    BY <1>8, <2>1, <2>4, <2>5, <2>6, <2>7, <2>8, QuietData DEF LineStays
<1>10. CASE ~Creatable(v, Params)
  <2>1. Failed(f) /\ UNCHANGED writes
    BY <1>1, <1>10 DEF WorkerSeals
  <2>2. LineLoses(f)
    BY <1>3, <1>5, <2>1, RefusedLine
  <2>3. Image("first")' \subseteq {EmptyVault}
    BY <1>3, <2>2 DEF LineLoses
  <2>4. phase = "open" \/ Alive' = Alive
    BY <1>1, <1>6 DEF Alive
  <2> QED
    BY <1>1, <1>2, <1>3, <1>8, <2>1, <2>2, <2>3, <2>4, FailedData
<1> QED
  BY <1>9, <1>10

\* The database answers a save of a persist: it was the oldest snapshot.
LEMMA AnsweredData ==
  ASSUME LineInv, writes # <<>>, writes' = Tail(writes), Head(writes).op = "save",
         NEW f, f = Head(writes).for, f # "first", UNCHANGED jobs
  PROVE  /\ f \in Call /\ f \in Pending
         /\ LineLoses(f)
         /\ Image(f) = {DecryptVaultBlob(Head(writes).data)}
         /\ \A g \in Pending : g # f => Ahead(f, g)
         /\ \A g : ~Ahead(g, f)
         /\ Waking' = Waking
         /\ Head(writes).data \in Blob
<1>1. /\ f \in Call /\ f \in Pending /\ 1 \in DOMAIN writes /\ Head(writes) = writes[1]
      /\ Head(writes).data \in Blob
  BY HeadSave
<1>2. writes \in Seq(Write) /\ For(writes, "save", 1, f)
  BY <1>1 DEF For, LineInv, Types
<1>3. In(writes, "save", f) /\ ~In(jobs, "seal", f)
  BY <1>1, <1>2, InLine DEF In
<1>4. \A i \in DOMAIN writes : For(writes, "save", i, f) => i = 1
  BY <1>1, <1>2, InLine
<1>5. Left(writes, writes', "save", f, Head(writes).data)
  BY <1>2, <1>4, TailFor
<1>6. /\ LineLoses(f)
      /\ Image(f) = {DecryptVaultBlob(Head(writes).data)}
      /\ \A g : g # f /\ (In(jobs, "seal", g) \/ In(writes, "save", g)) => Ahead(f, g)
      /\ \A g : ~Ahead(g, f)
  BY <1>3, <1>5, AnsweredLine
<1>7. \A g \in Pending : g # f => Ahead(f, g)
  BY <1>6, InLine DEF Pending
<1> QED
  BY <1>1, <1>6, <1>7, WakingStays

\* The database answers the first save: nothing else is under way.
LEMMA FirstAnswered ==
  ASSUME LineInv, writes # <<>>, writes' = Tail(writes), Head(writes).op = "save",
         Head(writes).for = "first", UNCHANGED jobs
  PROVE  /\ phase = "writing" /\ disk = NoBlob /\ Waking = {} /\ Waking' = {}
         /\ Pending = {}
         /\ \A g : Image(g)' = {}
         /\ \A g, h \in Call : ~Ahead(g, h) /\ ~Ahead(g, h)'
         /\ DecryptVaultBlob(Head(writes).data) \in Image("first")
<1>1. /\ phase = "writing" /\ disk = NoBlob /\ DOMAIN writes' = {} /\ DOMAIN jobs = {}
      /\ \A g \in Call : call[g].at = "idle"
  BY FirstTaken
<1>2. Pending = {}
  BY <1>1 DEF Pending
<1>3. Waking = {} /\ Waking' = {}
  BY <1>1 DEF Waking
<1>4. \A g : Image(g)' = {}
  BY <1>1 DEF Image, Img
<1>5. \A g, h \in Call : ~Ahead(g, h)
  BY <1>2, Images
<1>6. \A g, h \in Call : ~Ahead(g, h)'
  BY <1>1 DEF Ahead, Before, In
<1>7. DecryptVaultBlob(Head(writes).data) \in Image("first")
  <2>1. 1 \in DOMAIN writes /\ Head(writes) = writes[1]
    BY WriteTaken
  <2>2. writes[1].data \in Img(writes, "save", "first")
    BY <2>1 DEF Img, For
  <2> QED
    BY <2>1, <2>2 DEF Image
<1> QED
  BY <1>1, <1>2, <1>3, <1>4, <1>5, <1>6, <1>7

LEMMA StoreSavesData ==
  ASSUME DataInv, LineInv', StoreSaves, NEW f, f = Head(writes).for
  PROVE  DataInv'
<1> USE DEF DataInv
<1>1. /\ writes # <<>> /\ writes' = Tail(writes) /\ Head(writes).op = "save"
      /\ disk' = Head(writes).data /\ UNCHANGED <<armed, jobs>>
  BY DEF StoreSaves
<1>2. \A d \in Blob : disk' = d => Stored' = DecryptVaultBlob(d)
  BY BlobIsThere, BlobOpens DEF Stored
<1>3. CASE f # "first"
  <2>1. /\ f \in Call /\ f \in Pending
        /\ LineLoses(f)
        /\ Image(f) = {DecryptVaultBlob(Head(writes).data)}
        /\ \A g \in Pending : g # f => Ahead(f, g)
        /\ \A g : ~Ahead(g, f)
        /\ Head(writes).data \in Blob
    BY <1>1, <1>3, AnsweredData
  <2>2. Stored' = DecryptVaultBlob(Head(writes).data)
    BY <1>1, <1>2, <2>1
  <2>3. Acknowledged(f) /\ phase' = phase /\ session' = session
    BY <1>3 DEF StoreSaves
  <2>4. Image("first")' \subseteq {EmptyVault}
    BY <1>3, <2>1 DEF LineLoses
  <2> QED
    BY <1>1, <2>1, <2>2, <2>3, <2>4, LandedData
<1>4. CASE f = "first"
  <2>1. /\ phase = "writing" /\ disk = NoBlob /\ Waking' = {}
        /\ Pending = {}
        /\ \A g : Image(g)' = {}
        /\ \A g, h \in Call : ~Ahead(g, h)'
        /\ DecryptVaultBlob(Head(writes).data) \in Image("first")
    BY <1>1, <1>4, FirstAnswered
  <2>2. phase' = "open" /\ session' = session + 1 /\ mem' = EmptyVault /\ UNCHANGED <<call, acked, overtaken, undone>>
    BY <1>4 DEF StoreSaves, histories
  <2>3. Head(writes).data \in Blob
    BY <1>1, <1>4, FirstTaken
  <2>4. Stored = EmptyVault /\ Stored' = EmptyVault
    BY <1>1, <1>2, <2>1, <2>3 DEF Stored
  <2>5. Pending' = {} /\ Excuses' = Excuses /\ Alive' = {EmptyVault}
    BY <2>1, <2>2 DEF Pending, Excuses, Alive
  <2>6. \A g \in Call : ~Ours(g)'
    BY <2>5 DEF Ours
  <2>7. Sessions' /\ Carried'
    BY <2>1, <2>5 DEF Sessions, Carried
  <2>8. Chain'
    <3>1. Follows(Excuses, acked, EmptyVault) /\ Follows(Excuses, EmptyVault, EmptyVault)
      BY <2>4, EmptyIsVault, FollowsOwn DEF Chain
    <3> QED
      BY <2>1, <2>2, <2>4, <2>5, <3>1 DEF Chain
  <2>9. Undoable'
    BY <2>6 DEF Undoable
  <2>10. Grounded'
    <3>1. EmptyVault.contacts = {}
      BY DEF EmptyVault
    <3> QED
      BY <2>5, <2>6, <3>1 DEF Grounded
  <2>11. Wholes'
    <3>1. Sound(EmptyVault)
      BY EmptyIsVault DEF Sound, Single, EmptyVault
    <3> QED
      BY <2>1, <2>4, <2>5, <2>6, <3>1 DEF Wholes
  <2>12. Image("first")' \subseteq {EmptyVault}
    BY <2>1
  <2> QED
    BY <2>7, <2>8, <2>9, <2>10, <2>11, <2>12
<1> QED
  BY <1>3, <1>4

LEMMA StoreRefusesData ==
  ASSUME DataInv, LineInv', StoreRefuses, NEW f, f = Head(writes).for
  PROVE  DataInv'
<1> USE DEF DataInv
<1>1. /\ writes # <<>> /\ writes' = Tail(writes) /\ Head(writes).op = "save"
      /\ UNCHANGED <<session, armed, jobs, disk>>
  BY DEF StoreRefuses
<1>2. Stored' = Stored
  BY <1>1 DEF Stored
<1>3. CASE f # "first"
  <2>1. f \in Call /\ f \in Pending /\ LineLoses(f) /\ Waking' = Waking
    BY <1>1, <1>3, AnsweredData
  <2>2. Failed(f) /\ phase' = phase
    BY <1>3 DEF StoreRefuses
  <2>3. Image("first")' \subseteq {EmptyVault}
    BY <1>3, <2>1 DEF LineLoses
  <2>4. phase = "open" \/ Alive' = Alive
    BY <2>1, <2>2 DEF Alive
  <2> QED
    BY <1>1, <1>2, <2>1, <2>2, <2>3, <2>4, FailedData
<1>4. CASE f = "first"
  <2>1. /\ phase = "writing" /\ Waking' = {}
        /\ Pending = {}
        /\ \A g : Image(g)' = {}
        /\ \A g, h \in Call : ~Ahead(g, h) /\ ~Ahead(g, h)'
    BY <1>1, <1>4, FirstAnswered
  <2>2. phase' = "none" /\ UNCHANGED <<mem, call, acked, overtaken, undone>>
    BY <1>4 DEF StoreRefuses, histories
  <2>3. \A g \in Call : Image(g)' = Image(g)
    BY <2>1, Images
  <2>4. Pending' = Pending
    BY <2>2 DEF Pending
  <2>5. Alive' = {} /\ \A g \in Call : ~Ours(g)'
    BY <2>1, <2>2 DEF Alive, Ours
  <2>6. session <= session'
    BY <1>1 DEF LineInv, Types
  <2> QED
    BY <1>2, <2>1, <2>2, <2>3, <2>4, <2>5, <2>6, QuietData
<1> QED
  BY <1>3, <1>4

\* What is in line and not stored, or stored and not in line, is disputed.
LEMMA DisputedCovers ==
  ASSUME LineInv, overtaken' = overtaken \cup UNION { Disputed(v) : v \in Unsaved }, undone' = undone,
         NEW f \in Call, NEW u \in Image(f)
  PROVE  /\ Follows(Excuses', u, Stored)
         /\ Stored.contacts \subseteq u.contacts \cup Excuses'
<1>1. u \in Vaults /\ Stored \in Vaults
  BY DataTypes
<1>2. u \in Unsaved
  <2>1. f # "first"
    BY CallsAssumption
  <2>2. CASE u \in Img(jobs, "seal", f)
    BY <2>2 DEF Img, For, Unsaved
  <2>3. CASE u \in { DecryptVaultBlob(b) : b \in Img(writes, "save", f) }
    <3> PICK i \in DOMAIN writes : For(writes, "save", i, f) /\ u = DecryptVaultBlob(writes[i].data)
      BY <2>3 DEF Img
    <3> QED
      BY <2>1 DEF For, Unsaved
  <2> QED
    BY <2>2, <2>3 DEF Image
<1>3. Disputed(u) \subseteq Excuses'
  BY <1>2 DEF Excuses
<1>4. /\ u.contacts \subseteq Cards /\ u.messages \subseteq Records
      /\ Stored.contacts \subseteq Cards /\ Stored.messages \subseteq Records
      /\ Cards \cap Records = {}
  BY <1>1, DataAssumption DEF Vaults
<1>5. /\ u.contacts \subseteq Stored.contacts \cup Excuses'
      /\ u.messages \subseteq Stored.messages \cup Excuses'
      /\ Stored.contacts \subseteq u.contacts \cup Excuses'
  BY <1>3, <1>4 DEF Disputed, Facts
<1> QED
  BY <1>1, <1>4, <1>5, FollowsOwn DEF Follows, Kept

LEMMA StoreLoadsData ==
  ASSUME DataInv, LineInv', StoreLoads
  PROVE  DataInv'
<1> USE DEF DataInv
<1>1. /\ writes # <<>> /\ writes' = Tail(writes) /\ Head(writes).op = "load"
      /\ phase' = "deriving" /\ writes \in Seq(Write) /\ jobs \in Seq(Job)
      /\ UNCHANGED <<session, mem, armed, disk, call, acked, undone>>
      /\ overtaken' = overtaken \cup UNION { Disputed(v) : v \in Unsaved }
  BY DEF StoreLoads, LineInv, Types
<1>2. phase = "loading" /\ disk \in Blob /\ disk # NoBlob
  <2>1. 1 \in DOMAIN writes /\ writes[1].op = "load"
    BY <1>1, WriteTaken
  <2> QED
    BY <2>1 DEF LineInv, Shape, Types
<1> PICK typed \in {Own, Mistyped} :
           jobs' = Append(jobs, [op |-> "unlock", data |-> disk, passphrase |-> typed])
  BY DEF StoreLoads, Post
<1> DEFINE j == [op |-> "unlock", data |-> disk, passphrase |-> typed]
<1>3. j \in Job /\ j.op = "unlock" /\ j.data = disk /\ jobs' = Append(jobs, j)
  BY <1>2, Kinds
<1> HIDE DEF j
<1>4. LineStays
  <2>1. Same(jobs, jobs', "seal")
    BY <1>1, <1>3, AppendOther
  <2>2. Same(writes, writes', "save")
    BY <1>1, TailOther
  <2> QED
    BY <2>1, <2>2, StaysLine
<1>5. Stored' = Stored /\ Stored = DecryptVaultBlob(disk)
  BY <1>1, <1>2, BlobOpens DEF Stored
<1>6. Alive' = {Stored}
  <2>1. \A i \in DOMAIN jobs : jobs[i].op # "unlock"
    BY <1>2 DEF LineInv, Shape
  <2>2. /\ \A i \in DOMAIN jobs : jobs'[i] = jobs[i]
        /\ jobs'[Len(jobs) + 1] = j
        /\ \A i \in DOMAIN jobs' : i \in DOMAIN jobs \/ i = Len(jobs) + 1
        /\ Len(jobs) + 1 \in DOMAIN jobs'
    BY <1>1, <1>3, Posted
  <2>3. { k \in DOMAIN jobs' : jobs'[k].op = "unlock" } = {Len(jobs) + 1}
    BY <1>3, <2>1, <2>2
  <2>4. Waking' = {Stored}
    BY <1>3, <1>5, <2>2, <2>3 DEF Waking
  <2> QED
    BY <1>1, <2>4 DEF Alive
<1>7. \A g \in Call : Image(g)' = Image(g)
  BY <1>4 DEF LineStays
<1>8. \A g, h \in Call : Ahead(g, h)' <=> Ahead(g, h)
  BY <1>4 DEF LineStays
<1>9. \A g \in Call : ~Ours(g)'
  BY <1>1 DEF Ours
<1>10. Excuses \subseteq Excuses'
  BY <1>1 DEF Excuses
<1>11. \A u, v : Follows(Excuses, u, v) => Follows(Excuses', u, v)
  BY <1>10, KeptMore
<1>12. \A g \in Call : \A u \in Image(g) : /\ Follows(Excuses', u, Stored)
                                           /\ Stored.contacts \subseteq u.contacts \cup Excuses'
  BY <1>1, DisputedCovers
<1>13. Pending' = Pending
  BY <1>1 DEF Pending
<1>14. Sessions' /\ Carried'
  BY <1>1, <1>7, <1>8, <1>13 DEF Sessions, Carried
<1>15. Chain'
  <2>1. Follows(Excuses', acked, Stored) /\ Follows(Excuses', Stored, Stored)
    BY <1>11, DataTypes, FollowsOwn DEF Chain
  <2>2. \A g \in Call : \A u \in Image(g) : Follows(Excuses', acked, u) /\ Follows(Excuses', Stored, u)
    BY <1>11 DEF Chain
  <2>3. \A g, h \in Call : Ahead(g, h) => \A u \in Image(g), w \in Image(h) : Follows(Excuses', u, w)
    BY <1>11 DEF Chain
  <2> QED
    BY <1>1, <1>5, <1>6, <1>7, <1>8, <1>12, <2>1, <2>2, <2>3 DEF Chain
<1>16. Undoable'
  BY <1>9 DEF Undoable
<1>17. Grounded'
  <2>1. \A g \in Call : \A u \in Image(g)' : Stored.contacts \subseteq u.contacts \cup Excuses'
    BY <1>7, <1>12
  <2> QED
    BY <1>5, <1>6, <1>9, <2>1 DEF Grounded
<1>18. Wholes'
  BY <1>5, <1>6, <1>7, <1>9 DEF Wholes
<1>19. Image("first")' \subseteq {EmptyVault}
  BY <1>4 DEF LineStays
<1> QED
  BY <1>14, <1>15, <1>16, <1>17, <1>18, <1>19

\* Nothing waits after a crash, and nothing is live.
LEMMA CrashData ==
  ASSUME DataInv, LineInv', Crash
  PROVE  DataInv'
<1> USE DEF DataInv, Crash, histories
<1>1. Stored' = Stored /\ Excuses' = Excuses
  BY DEF Stored, Excuses
<1>2. Pending' = {}
  BY DEF Pending, Idle
<1>3. \A g : Image(g)' = {}
  BY DEF Image, Img
<1>4. \A g, h : ~Ahead(g, h)'
  BY DEF Ahead, Before, In
<1>5. Alive' = {} /\ \A g : ~Ours(g)'
  BY <1>2 DEF Alive, Waking, Ours
<1>6. Sessions' /\ Carried'
  BY <1>2, <1>3, <1>4 DEF Sessions, Carried
<1>7. Chain'
  BY <1>1, <1>3, <1>4, <1>5 DEF Chain
<1>8. Undoable' /\ Grounded'
  BY <1>5 DEF Undoable, Grounded
<1>9. Wholes'
  BY <1>1, <1>3, <1>5 DEF Wholes
<1> QED
  BY <1>3, <1>6, <1>7, <1>8, <1>9

LEMMA InitData == Init => DataInv
<1> SUFFICES ASSUME Init PROVE DataInv
  OBVIOUS
<1> USE DEF Init
<1>1. Pending = {}
  BY DEF Pending, Idle
<1>2. \A g : Image(g) = {}
  BY DEF Image, Img
<1>3. \A g, h : ~Ahead(g, h)
  BY DEF Ahead, Before, In
<1>4. Alive = {} /\ \A g : ~Ours(g)
  BY <1>1 DEF Alive, Waking, Ours
<1>5. Stored \in Vaults /\ Sound(Stored) /\ acked.contacts = Stored.contacts /\ acked.messages = Stored.messages
  <2>1. CASE disk = NoBlob /\ acked = [contacts |-> {}, messages |-> {}]
    <3>1. Stored = EmptyVault
      BY <2>1 DEF Stored
    <3> QED
      BY <2>1, <3>1, EmptyIsVault DEF Sound, Single, EmptyVault
  <2>2. ASSUME NEW old \in Older, disk = LeftBy(old),
               acked = [contacts |-> old.data.contacts, messages |-> old.data.messages]
        PROVE  Stored \in Vaults /\ Sound(Stored) /\ acked.contacts = Stored.contacts /\ acked.messages = Stored.messages
    <3>1. LeftBy(old) # NoBlob
      BY BlobIsThere DEF Blob
    <3>2. Decrypts(LeftBy(old), Own)
      BY LeftOpens
    <3>3. Stored = DecryptVaultBlob(LeftBy(old))
      BY <2>2, <3>1, <3>2 DEF Stored
    <3>4. Stored \in Vaults /\ Whole(Stored) /\ Stored.contacts = old.data.contacts /\ Stored.messages = old.data.messages
      BY <3>3, LeftOpens
    <3>5. Single(Stored)
      BY <3>4, DataAssumption DEF Single
    <3> QED
      BY <2>2, <3>4, <3>5 DEF Sound
  <2> QED
    BY <2>1, <2>2
<1>6. Chain
  <2>1. Follows(Excuses, acked, Stored)
    BY <1>5, FollowsOwn DEF Follows
  <2> QED
    BY <1>2, <1>3, <1>4, <2>1 DEF Chain
<1>7. Sessions /\ Carried /\ Undoable /\ Grounded /\ Wholes
  BY <1>1, <1>2, <1>3, <1>4, <1>5 DEF Sessions, Carried, Undoable, Grounded, Wholes
<1> QED
  BY <1>2, <1>6, <1>7, InitLine DEF DataInv

LEMMA NextData == DataInv /\ [Next]_vars => DataInv'
<1> SUFFICES ASSUME DataInv, [Next]_vars PROVE DataInv'
  OBVIOUS
<1>1. LineInv'
  BY NextLine DEF DataInv
<1>2. CASE UNCHANGED vars
  BY <1>1, <1>2, UnchangedData
<1>3. CASE \/ \E f \in Send : SendMessage(f)
           \/ \E f \in Receive : ReceiveMessage(f)
  <2>1. \A f \in Receive : {RecordOf[f]["msgId"]} \in SUBSET { r["msgId"] : r \in Records }
    BY DEF Records
  <2> QED
    BY <1>1, <1>3, <2>1, AddMessageData DEF SendMessage, ReceiveMessage
<1>4. CASE Worker
  BY <1>1, <1>4, WorkerCreatesData, WorkerUnlocksData, WorkerForgetsData, WorkerSealsData DEF Worker
<1>5. CASE Store
  BY <1>1, <1>5, StoreSavesData, StoreRefusesData, StoreLoadsData DEF Store
<1> QED
  BY <1>1, <1>2, <1>3, <1>4, <1>5, CreateData, CommitData, LockData, UnlockData, CrashData
  DEF Next

LEMMA DataHolds == Spec => []DataInv
  BY InitData, NextData, PTL DEF Spec

(* What a caller was told is saved, and what an older build left, stays on  *)
(* the disk through failed writes, later snapshots, locks, crashes and the  *)
(* change of format; a pin may give way to a higher serial, and what a race *)
(* of an unlock or of a failing commit loses is named (ui/session.ts commit *)
(* and persist, ui/vault-worker.ts, ui/storage.ts, contacts.ts).            *)
THEOREM AcknowledgedIsKept == Spec => []AckedStays
<1>1. DataInv => AckedStays
  <2> SUFFICES ASSUME DataInv PROVE AckedStays
    OBVIOUS
  <2>1. Follows(Excuses, acked, Stored)
    BY DEF DataInv, Chain
  <2>2. /\ acked.messages \subseteq Records /\ undone \subseteq Cards
        /\ Cards \cap Records = {}
    BY DataAssumption DEF DataInv, LineInv, Types
  <2>3. acked.messages \subseteq Stored.messages \cup overtaken
    BY <2>1, <2>2 DEF Follows, Excuses
  <2>4. \A c \in acked.contacts : \/ \E d \in Pinned(Stored, c.of) : d.serial >= c.serial
                                  \/ c \in overtaken \cup undone
    BY <2>1 DEF Follows, Kept, Covers, Pinned, Excuses
  <2> QED
    BY <2>3, <2>4 DEF AckedStays
<1> QED
  BY <1>1, DataHolds, PTL

(* A contact the ready screen can list is on the disk or its commit is still*)
(* being written, but for the two races that are named; and every mailbox,  *)
(* in memory or stored, is a pinned peer's and came with no later card than *)
(* the pin, whether or not each ceremony agreed on one (ui/session.ts       *)
(* commit, contacts.ts, vault.ts putMailbox and restoreMailboxes).          *)
THEOREM ListedIsOnDisk == Spec => []ListedIsDurable
<1>1. DataInv => ListedIsDurable
  <2> SUFFICES ASSUME DataInv PROVE ListedIsDurable
    OBVIOUS
  <2>1. Whole(Stored)
    BY DEF DataInv, Wholes, Sound
  <2>2. ASSUME phase = "open"
        PROVE  /\ Whole(mem)
               /\ \A c \in mem.contacts :
                    \/ c \in Stored.contacts \cup overtaken \cup undone
                    \/ \E k \in Commit \cap Pending : call[k].card = c
    <3>1. Alive = {mem}
      BY <2>2, OpenAlive DEF DataInv
    <3>2. Whole(mem) /\ mem.contacts \subseteq Stored.contacts \cup Excuses \cup Putting
      BY <3>1 DEF DataInv, Wholes, Sound, Grounded
    <3> QED
      BY <3>2 DEF Excuses, Putting, Ours
  <2> QED
    BY <2>1, <2>2 DEF ListedIsDurable
<1> QED
  BY <1>1, DataHolds, PTL

-----------------------------------------------------------------------------
(* A set of numbers that has 0 and every successor has all of them.         *)
LEMMA EveryTurn ==
  ASSUME NEW S \in SUBSET Nat, 0 \in S, \A n \in S : n + 1 \in S
  PROVE  S = Nat
<1> DEFINE Missing == Nat \ S
           Below(x) == { y \in Missing : y <= x }
           T == { Below(x) : x \in Missing }
<1> SUFFICES ASSUME Missing # {} PROVE FALSE
  OBVIOUS
<1>1. ASSUME NEW x \in Missing, NEW y \in Missing, y < x
      PROVE  <<Below(y), Below(x)>> \in StrictSubsetOrdering(Nat)
  <2>1. x \in Nat /\ y \in Nat
    OBVIOUS
  <2>2. \A z \in Missing : z <= y => z <= x
    BY <1>1, <2>1
  <2>3. x <= x /\ ~ (x <= y)
    BY <1>1, <2>1
  <2>4. x \in Below(x) /\ x \notin Below(y)
    BY <2>3
  <2>5. Below(y) \subseteq Below(x) /\ Below(x) \subseteq Nat
    BY <2>2
  <2> HIDE DEF Below
  <2> QED
    BY <2>4, <2>5 DEF StrictSubsetOrdering
<1>2. T \subseteq FiniteSubsetsOf(Nat)
  <2> SUFFICES ASSUME NEW x \in Missing PROVE IsFiniteSet(Below(x))
    BY DEF FiniteSubsetsOf
  <2> QED
    BY FS_BoundedSetOfNaturals
<1>3. PICK L \in T : \A M \in T : ~ (<<M, L>> \in StrictSubsetOrdering(Nat))
  <2>1. T # {}
    OBVIOUS
  <2> HIDE DEF T
  <2> QED
    BY <1>2, <2>1, WFMin, FS_StrictSubsetOrderingWellFounded
<1>4. PICK x \in Missing : L = Below(x)
  OBVIOUS
<1>5. x \in Nat \ {0} /\ x - 1 \in Nat /\ x - 1 < x
  OBVIOUS
<1>6. x - 1 \notin Missing
  <2> SUFFICES ASSUME x - 1 \in Missing PROVE FALSE
    OBVIOUS
  <2>1. Below(x - 1) \in T
    OBVIOUS
  <2> HIDE DEF T, Below, Missing
  <2> QED
    BY <1>1, <1>3, <1>4, <1>5, <2>1
<1>7. (x - 1) + 1 \in S
  BY <1>5, <1>6
<1> QED
  BY <1>5, <1>7


-----------------------------------------------------------------------------
(* The snapshots in a queue, oldest first, along its jobs.                  *)

\* The snapshots of a queue's start, and what the next job makes of them.
Grown(s, j) == IF Carries(j) THEN Append(s, Snapshot(j)) ELSE s

Sifts(q, n, g) == g = [i \in 0 .. n |-> IF i = 0 THEN <<>> ELSE Grown(g[i - 1], q[i])]

Runs(q, n, g) == g[0] = <<>> /\ \A i \in 1 .. n : g[i] = Grown(g[i - 1], q[i])

LEMMA SiftsOn == ASSUME NEW q, NEW n \in Nat PROVE \E g : Sifts(q, n, g)
<1> DEFINE S == { i \in Nat : \E g : Sifts(q, i, g) }
<1>1. 0 \in S
  <2> DEFINE g == [i \in 0 .. 0 |-> <<>>]
  <2>1. Sifts(q, 0, g)
    BY DEF Sifts
  <2> HIDE DEF g
  <2> QED
    BY <2>1
<1>2. ASSUME NEW i \in S PROVE i + 1 \in S
  <2>1. PICK g : Sifts(q, i, g)
    OBVIOUS
  <2> DEFINE h == [j \in 0 .. i + 1 |-> IF j <= i THEN g[j] ELSE Grown(g[i], q[i + 1])]
  <2>2. \A j \in 0 .. i : h[j] = g[j] /\ g[j] = IF j = 0 THEN <<>> ELSE Grown(g[j - 1], q[j])
    BY <2>1 DEF Sifts
  <2>3. h[i + 1] = Grown(g[i], q[i + 1])
    OBVIOUS
  <2>4. \A j \in 0 .. i + 1 : h[j] = IF j = 0 THEN <<>> ELSE Grown(h[j - 1], q[j])
    <3> TAKE j \in 0 .. i + 1
    <3>1. CASE j = 0
      <4>1. 0 \in 0 .. i
        OBVIOUS
      <4> HIDE DEF h
      <4> QED
        BY <2>2, <3>1, <4>1
    <3>2. CASE j \in 1 .. i
      <4>1. j - 1 \in 0 .. i /\ j \in 0 .. i /\ j # 0
        BY <3>2
      <4> HIDE DEF h
      <4> QED
        BY <2>2, <4>1
    <3>3. CASE j = i + 1
      <4>1. j - 1 = i /\ i \in 0 .. i /\ j # 0
        BY <3>3
      <4> HIDE DEF h
      <4> QED
        BY <2>2, <2>3, <3>3, <4>1
    <3> QED
      BY <3>1, <3>2, <3>3
  <2>5. h = [j \in 0 .. i + 1 |-> h[j]]
    OBVIOUS
  <2> HIDE DEF h
  <2>6. Sifts(q, i + 1, h)
    BY <2>4, <2>5 DEF Sifts
  <2> QED
    BY <2>6
<1> HIDE DEF S
<1>3. S = Nat
  <2>1. S \in SUBSET Nat
    BY DEF S
  <2> QED
    BY <1>1, <1>2, <2>1, EveryTurn
<1> QED
  BY <1>3 DEF S

LEMMA Sifted ==
  ASSUME NEW J, NEW q \in Seq(J)
  PROVE  \E g : Runs(q, Len(q), g) /\ SnapshotsIn(q) = g[Len(q)]
<1> DEFINE k == Len(q)
           upTo == CHOOSE g : g = [n \in 0 .. Len(q) |->
             IF n = 0 THEN <<>>
             ELSE IF Carries(q[n]) THEN Append(g[n - 1], Snapshot(q[n])) ELSE g[n - 1]]
<1>1. SnapshotsIn(q) = upTo[k]
  BY DEF SnapshotsIn
<1>2. k \in Nat
  OBVIOUS
<1>3. Sifts(q, k, upTo)
  <2>1. \E g : Sifts(q, k, g)
    BY <1>2, SiftsOn
  <2> QED
    BY <2>1 DEF Sifts, Grown
<1> HIDE DEF upTo, k
<1>4. \A n \in 0 .. k : upTo[n] = IF n = 0 THEN <<>> ELSE Grown(upTo[n - 1], q[n])
  BY <1>3 DEF Sifts
<1>5. upTo[0] = <<>> /\ \A n \in 1 .. k : upTo[n] = Grown(upTo[n - 1], q[n])
  BY <1>2, <1>4
<1> QED
  BY <1>1, <1>5 DEF k, Runs

\* Place for place, the jobs of two queues add the same.
Alike(q, r, n) == \A i \in 1 .. n : \A s : Grown(s, q[i]) = Grown(s, r[i])

(* Two runs that add alike go alike.                                        *)
LEMMA SiftAlike ==
  ASSUME NEW q, NEW r, NEW m \in Nat, NEW g, NEW h, Runs(q, m, g), Runs(r, m, h), Alike(q, r, m)
  PROVE  g[m] = h[m]
<1> DEFINE S == { n \in Nat : n <= m => g[n] = h[n] }
<1>1. 0 \in S
  BY DEF Runs
<1>2. ASSUME NEW n \in S PROVE n + 1 \in S
  <2> SUFFICES ASSUME n + 1 <= m PROVE g[n + 1] = h[n + 1]
    OBVIOUS
  <2>1. n + 1 \in 1 .. m /\ (n + 1) - 1 = n /\ g[n] = h[n]
    OBVIOUS
  <2> QED
    BY <2>1 DEF Runs, Alike
<1> HIDE DEF S
<1>3. S \in SUBSET Nat
  BY DEF S
<1>4. m \in S
  BY <1>1, <1>2, <1>3, EveryTurn
<1> QED
  BY <1>4 DEF S

(* A job that joins a queue adds its snapshot, or nothing.                  *)
LEMMA SnapshotsAppend ==
  ASSUME NEW J, NEW q \in Seq(J), NEW x \in J
  PROVE  SnapshotsIn(Append(q, x)) = Grown(SnapshotsIn(q), x)
<1> DEFINE r == Append(q, x)
<1>1. /\ r \in Seq(J) /\ Len(q) \in Nat /\ Len(r) = Len(q) + 1 /\ r[Len(q) + 1] = x
      /\ \A n \in 1 .. Len(q) : r[n] = q[n]
  OBVIOUS
<1> HIDE DEF r
<1> PICK g : Runs(q, Len(q), g) /\ SnapshotsIn(q) = g[Len(q)]
  BY Sifted
<1> PICK h : Runs(r, Len(r), h) /\ SnapshotsIn(r) = h[Len(r)]
  BY <1>1, Sifted
<1>2. Runs(r, Len(q), h)
  BY <1>1 DEF Runs
<1>3. Alike(q, r, Len(q))
  BY <1>1 DEF Alike
<1>4. g[Len(q)] = h[Len(q)]
  BY <1>1, <1>2, <1>3, SiftAlike
<1>5. h[Len(q) + 1] = Grown(h[Len(q)], x)
  <2>1. Len(q) + 1 \in 1 .. Len(r) /\ (Len(q) + 1) - 1 = Len(q)
    BY <1>1
  <2> QED
    BY <1>1, <2>1 DEF Runs
<1> QED
  BY <1>1, <1>4, <1>5 DEF r

(* Jobs that add alike, place for place, make queues that carry the same.   *)
LEMMA SnapshotsAlike ==
  ASSUME NEW J, NEW q \in Seq(J), NEW r \in Seq(J), Len(q) = Len(r), Alike(q, r, Len(q))
  PROVE  SnapshotsIn(q) = SnapshotsIn(r)
<1> PICK g : Runs(q, Len(q), g) /\ SnapshotsIn(q) = g[Len(q)]
  BY Sifted
<1> PICK h : Runs(r, Len(r), h) /\ SnapshotsIn(r) = h[Len(r)]
  BY Sifted
<1> DEFINE m == Len(q)
<1>1. /\ m \in Nat /\ Runs(q, m, g) /\ Runs(r, m, h)
      /\ SnapshotsIn(q) = g[m] /\ SnapshotsIn(r) = h[m]
  OBVIOUS
<1>2. Alike(q, r, m)
  OBVIOUS
<1> HIDE DEF m
<1>3. g[m] = h[m]
  BY ONLY <1>1, <1>2, SiftAlike
<1> QED
  BY <1>1, <1>3

(* A job that carries nothing is not missed.                                *)
LEMMA SnapshotsSkip ==
  ASSUME NEW J, NEW q \in Seq(J), NEW r \in Seq(J), NEW m \in 1 .. Len(q),
         ~Carries(q[m]), Len(r) = Len(q) - 1,
         \A n \in 1 .. Len(r) : r[n] = IF n < m THEN q[n] ELSE q[n + 1]
  PROVE  SnapshotsIn(r) = SnapshotsIn(q)
<1> PICK g : Runs(q, Len(q), g) /\ SnapshotsIn(q) = g[Len(q)]
  BY Sifted
<1> PICK h : Runs(r, Len(r), h) /\ SnapshotsIn(r) = h[Len(r)]
  BY Sifted
<1>1. Len(q) \in Nat /\ Len(r) \in Nat /\ m \in Nat /\ m >= 1 /\ m <= Len(q)
  OBVIOUS
<1>0. /\ g[0] = <<>> /\ \A n \in 1 .. Len(q) : g[n] = Grown(g[n - 1], q[n])
      /\ h[0] = <<>> /\ \A n \in 1 .. Len(r) : h[n] = Grown(h[n - 1], r[n])
  BY DEF Runs
<1> DEFINE S == { n \in Nat : n <= Len(r) => h[n] = IF n < m THEN g[n] ELSE g[n + 1] }
<1>2. g[m] = g[m - 1]
  BY <1>0, <1>1 DEF Grown
<1>3. 0 \in S
  BY <1>0, <1>1, <1>2
<1>4. ASSUME NEW n \in S PROVE n + 1 \in S
  <2> SUFFICES ASSUME n + 1 <= Len(r) PROVE h[n + 1] = IF n + 1 < m THEN g[n + 1] ELSE g[n + 2]
    OBVIOUS
  <2>1. n \in Nat /\ n + 1 \in 1 .. Len(r) /\ (n + 1) - 1 = n /\ n <= Len(r)
    BY <1>1
  <2>2. h[n + 1] = Grown(h[n], r[n + 1]) /\ h[n] = IF n < m THEN g[n] ELSE g[n + 1]
    BY <1>0, <2>1
  <2>3. CASE n + 1 < m
    <3>1. n + 1 \in 1 .. Len(q) /\ n < m
      BY <1>1, <2>1, <2>3
    <3>2. r[n + 1] = q[n + 1] /\ g[n + 1] = Grown(g[n], q[n + 1])
      BY <1>0, <2>1, <2>3, <3>1
    <3> QED
      BY <2>2, <2>3, <3>1, <3>2
  <2>4. CASE ~(n + 1 < m)
    <3>1. n + 2 \in 1 .. Len(q) /\ (n + 2) - 1 = n + 1 /\ (n + 1) + 1 = n + 2
      BY <1>1, <2>1
    <3>2. r[n + 1] = q[n + 2] /\ g[n + 2] = Grown(g[n + 1], q[n + 2])
      BY <1>0, <2>1, <2>4, <3>1
    <3>3. h[n] = g[n + 1]
      <4>1. CASE n < m
        <5>1. n = m - 1 /\ n + 1 = m
          BY <1>1, <2>1, <2>4, <4>1
        <5> QED
          BY <1>2, <2>2, <4>1, <5>1
      <4>2. CASE ~(n < m)
        BY <2>2, <4>2
      <4> QED
        BY <4>1, <4>2
    <3> QED
      BY <2>2, <2>4, <3>2, <3>3
  <2> QED
    BY <2>3, <2>4
<1> HIDE DEF S
<1>5. S \in SUBSET Nat
  BY DEF S
<1>6. Len(r) \in S
  BY <1>1, <1>3, <1>4, <1>5, EveryTurn
<1>7. h[Len(r)] = IF Len(r) < m THEN g[Len(r)] ELSE g[Len(r) + 1]
  BY <1>1, <1>6 DEF S
<1> QED
  BY <1>1, <1>2, <1>7

(* The oldest job that carries something carries the oldest snapshot.       *)
LEMMA SnapshotsFirst ==
  ASSUME NEW J, NEW V, NEW q \in Seq(J), q # <<>>, Carries(q[1]),
         \A n \in 1 .. Len(q) : Carries(q[n]) => Snapshot(q[n]) \in V
  PROVE  /\ SnapshotsIn(q) # <<>>
         /\ Head(SnapshotsIn(q)) = Snapshot(q[1])
         /\ Tail(SnapshotsIn(q)) = SnapshotsIn(Tail(q))
<1> DEFINE r == Tail(q)
<1>1. /\ r \in Seq(J) /\ Len(q) \in Nat /\ Len(q) >= 1 /\ Len(r) \in Nat /\ Len(r) + 1 = Len(q)
      /\ \A n \in 1 .. Len(r) : r[n] = q[n + 1]
  OBVIOUS
<1> HIDE DEF r
<1> PICK g : Runs(q, Len(q), g) /\ SnapshotsIn(q) = g[Len(q)]
  BY Sifted
<1> PICK h : Runs(r, Len(r), h) /\ SnapshotsIn(r) = h[Len(r)]
  BY <1>1, Sifted
<1>0. /\ g[0] = <<>> /\ \A n \in 1 .. Len(q) : g[n] = Grown(g[n - 1], q[n])
      /\ h[0] = <<>> /\ \A n \in 1 .. Len(r) : h[n] = Grown(h[n - 1], r[n])
  BY DEF Runs
<1> DEFINE x == Snapshot(q[1])
           Leads(s, t) == s \in Seq(V) /\ s # <<>> /\ Head(s) = x /\ Tail(s) = t
<1>2. ASSUME NEW s, NEW t, Leads(s, t), NEW y \in V
      PROVE  Leads(Append(s, y), Append(t, y))
  <2>1. s \in Seq(V) /\ s # <<>> /\ Head(s) = x /\ Tail(s) = t
    BY <1>2
  <2> HIDE DEF x
  <2>2. Append(s, y) \in Seq(V) /\ Append(s, y) # <<>> /\ Head(Append(s, y)) = x
        /\ Tail(Append(s, y)) = Append(t, y)
    BY <2>1, AppendProperties, HeadTailAppend
  <2> QED
    BY <2>2
<1> DEFINE S == { n \in Nat : n <= Len(r) => Leads(g[n + 1], h[n]) }
<1>3. 0 \in S
  <2>1. 1 \in 1 .. Len(q) /\ 1 - 1 = 0
    BY <1>1
  <2>2. g[1] = Grown(g[0], q[1]) /\ x \in V
    BY <1>0, <2>1
  <2>3. g[1] = Append(<<>>, x)
    BY <1>0, <2>2 DEF Grown
  <2> HIDE DEF x
  <2>4. Append(<<>>, x) \in Seq(V) /\ Append(<<>>, x) # <<>>
        /\ Head(Append(<<>>, x)) = x /\ Tail(Append(<<>>, x)) = <<>>
    BY <2>2
  <2>5. Leads(g[1], h[0])
    BY <1>0, <2>3, <2>4
  <2> QED
    BY <2>5
<1> HIDE DEF Leads, x
<1>4. ASSUME NEW n \in S PROVE n + 1 \in S
  <2> SUFFICES ASSUME n + 1 <= Len(r) PROVE Leads(g[n + 2], h[n + 1])
    OBVIOUS
  <2>1. n \in Nat /\ n + 1 \in 1 .. Len(r) /\ (n + 1) - 1 = n /\ n <= Len(r)
        /\ n + 2 \in 1 .. Len(q) /\ (n + 2) - 1 = n + 1 /\ (n + 1) + 1 = n + 2
    BY <1>1
  <2>2. /\ h[n + 1] = Grown(h[n], q[n + 2]) /\ g[n + 2] = Grown(g[n + 1], q[n + 2])
        /\ Leads(g[n + 1], h[n])
    BY <1>0, <1>1, <2>1
  <2>3. CASE Carries(q[n + 2])
    BY <1>2, <2>1, <2>2, <2>3 DEF Grown
  <2>4. CASE ~Carries(q[n + 2])
    BY <2>2, <2>4 DEF Grown
  <2> QED
    BY <2>3, <2>4
<1> HIDE DEF S
<1>5. S \in SUBSET Nat
  BY DEF S
<1>6. Len(r) \in S
  BY <1>1, <1>3, <1>4, <1>5, EveryTurn
<1>7. Leads(SnapshotsIn(q), SnapshotsIn(r))
  BY <1>1, <1>6 DEF S
<1> QED
  BY <1>7 DEF Leads, x, r

(* Both queues, one behind the other: what the database has been asked is   *)
(* older than what the worker has been asked.                               *)
Flow(w, j) == SnapshotsIn(w \o j)

LEMMA Behind ==
  ASSUME NEW J, NEW w \in Seq(J), NEW j \in Seq(J)
  PROVE  /\ w \o j \in Seq(J) /\ Len(w) \in Nat /\ Len(j) \in Nat
         /\ Len(w \o j) = Len(w) + Len(j)
         /\ \A n \in 1 .. Len(w) + Len(j) :
              (w \o j)[n] = IF n <= Len(w) THEN w[n] ELSE j[n - Len(w)]
  BY ConcatProperties

LEMMA FlowPosted ==
  ASSUME NEW J, NEW w \in Seq(J), NEW j \in Seq(J), NEW x \in J
  PROVE  Flow(w, Append(j, x)) = Grown(Flow(w, j), x)
<1> DEFINE q == w \o j
           r == w \o Append(j, x)
<1>1. /\ q \in Seq(J) /\ Len(q) = Len(w) + Len(j) /\ Len(w) \in Nat /\ Len(j) \in Nat
      /\ \A n \in 1 .. Len(w) + Len(j) : q[n] = IF n <= Len(w) THEN w[n] ELSE j[n - Len(w)]
  BY Behind
<1>2. /\ Append(j, x) \in Seq(J) /\ Len(Append(j, x)) = Len(j) + 1
      /\ \A n \in 1 .. Len(j) : Append(j, x)[n] = j[n]
      /\ Append(j, x)[Len(j) + 1] = x
  BY AppendProperties
<1>3. /\ r \in Seq(J) /\ Len(r) = Len(w) + Len(Append(j, x))
      /\ \A n \in 1 .. Len(w) + Len(Append(j, x)) :
           r[n] = IF n <= Len(w) THEN w[n] ELSE Append(j, x)[n - Len(w)]
  BY <1>2, Behind
<1> HIDE DEF q, r
<1>4. /\ Append(q, x) \in Seq(J) /\ Len(Append(q, x)) = Len(q) + 1
      /\ \A n \in 1 .. Len(q) : Append(q, x)[n] = q[n]
      /\ Append(q, x)[Len(q) + 1] = x
  BY <1>1, AppendProperties
<1>5. \A n \in 1 .. Len(r) : r[n] = Append(q, x)[n]
  <2> TAKE n \in 1 .. Len(r)
  <2>1. CASE n <= Len(w)
    <3>1. n \in 1 .. Len(w) /\ n \in 1 .. Len(q) /\ n \in 1 .. Len(r)
      BY <1>1, <2>1
    <3>2. q[n] = w[n] /\ Append(q, x)[n] = q[n]
      BY <1>1, <1>4, <2>1, <3>1
    <3>3. r[n] = w[n]
      BY <1>3, <2>1, <3>1
    <3> QED
      BY <3>2, <3>3
  <2>2. CASE n > Len(w) /\ n <= Len(w) + Len(j)
    <3>1. n - Len(w) \in 1 .. Len(j) /\ n \in 1 .. Len(q) /\ n \in 1 .. Len(r) /\ ~(n <= Len(w))
      BY <1>1, <2>2
    <3>2. q[n] = j[n - Len(w)] /\ Append(q, x)[n] = q[n]
      BY <1>1, <1>4, <3>1
    <3>3. r[n] = j[n - Len(w)]
      BY <1>2, <1>3, <3>1
    <3> QED
      BY <3>2, <3>3
  <2>3. CASE n = Len(w) + Len(j) + 1
    <3>1. n - Len(w) = Len(j) + 1
      BY <1>1, <2>3
    <3> QED
      BY <1>1, <1>2, <1>3, <1>4, <2>3, <3>1
  <2> QED
    BY <1>1, <1>2, <1>3, <2>1, <2>2, <2>3
<1>6. r = Append(q, x)
  BY <1>1, <1>2, <1>3, <1>4, <1>5
<1> QED
  BY <1>1, <1>6, SnapshotsAppend DEF Flow, q, r

LEMMA FlowLate ==
  ASSUME NEW J, NEW w \in Seq(J), NEW j \in Seq(J), NEW x \in J, ~Carries(x)
  PROVE  Flow(Append(w, x), j) = Flow(w, j)
<1> DEFINE q == Append(w, x) \o j
           r == w \o j
           m == Len(w) + 1
<1>1. /\ r \in Seq(J) /\ Len(r) = Len(w) + Len(j) /\ Len(w) \in Nat /\ Len(j) \in Nat
      /\ \A n \in 1 .. Len(w) + Len(j) : r[n] = IF n <= Len(w) THEN w[n] ELSE j[n - Len(w)]
  BY Behind
<1>2. /\ Append(w, x) \in Seq(J) /\ Len(Append(w, x)) = m
      /\ \A n \in 1 .. Len(w) : Append(w, x)[n] = w[n]
      /\ Append(w, x)[m] = x
  BY AppendProperties
<1>3. /\ q \in Seq(J) /\ Len(q) = m + Len(j)
      /\ \A n \in 1 .. m + Len(j) : q[n] = IF n <= m THEN Append(w, x)[n] ELSE j[n - m]
  BY <1>2, Behind
<1> HIDE DEF q, r
<1>4. m \in 1 .. Len(q) /\ q[m] = x /\ Len(r) = Len(q) - 1
  BY <1>1, <1>2, <1>3
<1>5. \A n \in 1 .. Len(r) : r[n] = IF n < m THEN q[n] ELSE q[n + 1]
  <2> TAKE n \in 1 .. Len(r)
  <2>1. CASE n < m
    <3>1. n \in 1 .. Len(w) /\ n \in 1 .. m + Len(j) /\ n <= m /\ n <= Len(w)
      BY <1>1, <2>1
    <3> QED
      BY <1>1, <1>2, <1>3, <2>1, <3>1
  <2>2. CASE ~(n < m)
    <3>1. n + 1 \in 1 .. m + Len(j) /\ ~(n + 1 <= m) /\ (n + 1) - m = n - Len(w) /\ ~(n <= Len(w))
      BY <1>1, <2>2
    <3> QED
      BY <1>1, <1>3, <2>2, <3>1
  <2> QED
    BY <2>1, <2>2
<1> HIDE DEF m
<1>6. SnapshotsIn(r) = SnapshotsIn(q)
  BY <1>1, <1>3, <1>4, <1>5, SnapshotsSkip
<1> QED
  BY <1>6 DEF Flow, q, r

LEMMA FlowServed ==
  ASSUME NEW J, NEW w \in Seq(J), NEW j \in Seq(J), j # <<>>, ~Carries(j[1])
  PROVE  Flow(w, Tail(j)) = Flow(w, j)
<1> DEFINE q == w \o j
           r == w \o Tail(j)
           m == Len(w) + 1
<1>1. /\ q \in Seq(J) /\ Len(q) = Len(w) + Len(j) /\ Len(w) \in Nat /\ Len(j) \in Nat
      /\ \A n \in 1 .. Len(w) + Len(j) : q[n] = IF n <= Len(w) THEN w[n] ELSE j[n - Len(w)]
  BY Behind
<1>2. /\ Tail(j) \in Seq(J) /\ Len(Tail(j)) = Len(j) - 1 /\ Len(j) >= 1
      /\ \A n \in 1 .. Len(j) - 1 : Tail(j)[n] = j[n + 1]
  OBVIOUS
<1>3. /\ r \in Seq(J) /\ Len(r) = Len(w) + Len(Tail(j))
      /\ \A n \in 1 .. Len(w) + Len(Tail(j)) : r[n] = IF n <= Len(w) THEN w[n] ELSE Tail(j)[n - Len(w)]
  BY <1>2, Behind
<1> HIDE DEF q, r
<1>4. m \in 1 .. Len(q) /\ q[m] = j[1] /\ Len(r) = Len(q) - 1
  BY <1>1, <1>2, <1>3
<1>5. \A n \in 1 .. Len(r) : r[n] = IF n < m THEN q[n] ELSE q[n + 1]
  <2> TAKE n \in 1 .. Len(r)
  <2>1. CASE n < m
    BY <1>1, <1>2, <1>3, <2>1
  <2>2. CASE ~(n < m)
    <3>1. /\ n - Len(w) \in 1 .. Len(j) - 1 /\ (n - Len(w)) + 1 = (n + 1) - Len(w)
          /\ n + 1 \in 1 .. Len(q) /\ ~(n + 1 <= Len(w)) /\ ~(n <= Len(w))
      BY <1>1, <1>2, <1>3, <2>2
    <3> QED
      BY <1>1, <1>2, <1>3, <2>2, <3>1
  <2> QED
    BY <2>1, <2>2
<1> HIDE DEF m
<1>6. SnapshotsIn(r) = SnapshotsIn(q)
  BY <1>1, <1>3, <1>4, <1>5, SnapshotsSkip
<1> QED
  BY <1>6 DEF Flow, q, r

LEMMA FlowHanded ==
  ASSUME NEW J, NEW w \in Seq(J), NEW j \in Seq(J), j # <<>>, NEW x \in J,
         \A s : Grown(s, j[1]) = Grown(s, x)
  PROVE  Flow(Append(w, x), Tail(j)) = Flow(w, j)
<1> DEFINE q == w \o j
           r == Append(w, x) \o Tail(j)
           m == Len(w) + 1
<1>1. /\ q \in Seq(J) /\ Len(q) = Len(w) + Len(j) /\ Len(w) \in Nat /\ Len(j) \in Nat
      /\ \A n \in 1 .. Len(w) + Len(j) : q[n] = IF n <= Len(w) THEN w[n] ELSE j[n - Len(w)]
  BY Behind
<1>2. /\ Tail(j) \in Seq(J) /\ Len(Tail(j)) = Len(j) - 1 /\ Len(j) >= 1
      /\ \A n \in 1 .. Len(j) - 1 : Tail(j)[n] = j[n + 1]
  OBVIOUS
<1>3. /\ Append(w, x) \in Seq(J) /\ Len(Append(w, x)) = m
      /\ \A n \in 1 .. Len(w) : Append(w, x)[n] = w[n]
      /\ Append(w, x)[m] = x
  BY AppendProperties
<1>4. /\ r \in Seq(J) /\ Len(r) = m + Len(Tail(j))
      /\ \A n \in 1 .. m + Len(Tail(j)) : r[n] = IF n <= m THEN Append(w, x)[n] ELSE Tail(j)[n - m]
  BY <1>2, <1>3, Behind
<1> HIDE DEF q, r
<1>5. Len(q) = Len(r)
  BY <1>1, <1>2, <1>4
<1>6. q[m] = j[1] /\ r[m] = x
  BY <1>1, <1>2, <1>3, <1>4
<1>7. \A n \in 1 .. Len(q) : n # m => q[n] = r[n]
  <2> TAKE n \in 1 .. Len(q)
  <2>1. CASE n < m
    BY <1>1, <1>2, <1>3, <1>4, <2>1
  <2>2. CASE n > m
    <3>1. /\ n - m \in 1 .. Len(j) - 1 /\ (n - m) + 1 = n - Len(w)
          /\ n \in 1 .. m + Len(Tail(j)) /\ ~(n <= Len(w)) /\ ~(n <= m)
      BY <1>1, <1>2, <2>2
    <3> QED
      BY <1>1, <1>2, <1>4, <2>2, <3>1
  <2> QED
    BY <1>1, <2>1, <2>2
<1>8. Alike(q, r, Len(q))
  BY <1>6, <1>7 DEF Alike
<1>9. SnapshotsIn(q) = SnapshotsIn(r)
  BY <1>1, <1>4, <1>5, <1>8, SnapshotsAlike
<1> QED
  BY <1>9 DEF Flow, q, r

LEMMA TailBehind ==
  ASSUME NEW J, NEW w \in Seq(J), NEW j \in Seq(J), w # <<>>
  PROVE  /\ w \o j \in Seq(J) /\ w \o j # <<>> /\ (w \o j)[1] = w[1]
         /\ Tail(w \o j) = Tail(w) \o j
<1> DEFINE q == w \o j
           r == Tail(w) \o j
<1>1. /\ q \in Seq(J) /\ Len(q) = Len(w) + Len(j) /\ Len(w) \in Nat /\ Len(j) \in Nat
      /\ \A n \in 1 .. Len(w) + Len(j) : q[n] = IF n <= Len(w) THEN w[n] ELSE j[n - Len(w)]
  BY Behind
<1>2. /\ Tail(w) \in Seq(J) /\ Len(Tail(w)) = Len(w) - 1 /\ Len(w) >= 1
      /\ \A n \in 1 .. Len(w) - 1 : Tail(w)[n] = w[n + 1]
  OBVIOUS
<1>3. /\ r \in Seq(J) /\ Len(r) = Len(Tail(w)) + Len(j)
      /\ \A n \in 1 .. Len(Tail(w)) + Len(j) :
           r[n] = IF n <= Len(Tail(w)) THEN Tail(w)[n] ELSE j[n - Len(Tail(w))]
  BY <1>2, Behind
<1> HIDE DEF q, r
<1>4. q # <<>> /\ q[1] = w[1] /\ Len(q) >= 1
  BY <1>1, <1>2
<1>5. /\ Tail(q) \in Seq(J) /\ Len(Tail(q)) = Len(q) - 1
      /\ \A n \in 1 .. Len(q) - 1 : Tail(q)[n] = q[n + 1]
  BY <1>1, <1>4
<1>6. \A n \in 1 .. Len(q) - 1 : q[n + 1] = r[n]
  <2> TAKE n \in 1 .. Len(q) - 1
  <2>1. CASE n <= Len(w) - 1
    BY <1>1, <1>2, <1>3, <2>1
  <2>2. CASE ~(n <= Len(w) - 1)
    <3>1. n - (Len(w) - 1) = (n + 1) - Len(w) /\ ~(n + 1 <= Len(w)) /\ n + 1 \in 1 .. Len(w) + Len(j)
      BY <1>1, <1>2, <2>2
    <3> QED
      BY <1>1, <1>2, <1>3, <2>2, <3>1
  <2> QED
    BY <2>1, <2>2
<1>7. Tail(q) = r
  BY <1>1, <1>2, <1>3, <1>5, <1>6
<1> QED
  BY <1>1, <1>4, <1>7 DEF q, r

LEMMA FlowDone ==
  ASSUME NEW J, NEW w \in Seq(J), NEW j \in Seq(J), w # <<>>, ~Carries(w[1])
  PROVE  Flow(Tail(w), j) = Flow(w, j)
<1> DEFINE q == w \o j
           r == Tail(q)
<1>1. q \in Seq(J) /\ q # <<>> /\ q[1] = w[1] /\ r = Tail(w) \o j
  BY TailBehind
<1> HIDE DEF q
<1>2. /\ r \in Seq(J) /\ 1 \in 1 .. Len(q) /\ Len(r) = Len(q) - 1
      /\ \A n \in 1 .. Len(r) : r[n] = IF n < 1 THEN q[n] ELSE q[n + 1]
  BY <1>1
<1>3. ~Carries(q[1])
  BY <1>1
<1> HIDE DEF r
<1>4. SnapshotsIn(r) = SnapshotsIn(q)
  BY <1>1, <1>2, <1>3, SnapshotsSkip
<1> QED
  BY <1>1, <1>4 DEF Flow, q

LEMMA FlowLands ==
  ASSUME NEW J, NEW V, NEW w \in Seq(J), NEW j \in Seq(J), w # <<>>, Carries(w[1]),
         \A x \in J : Carries(x) => Snapshot(x) \in V
  PROVE  /\ Flow(w, j) # <<>>
         /\ Head(Flow(w, j)) = Snapshot(w[1])
         /\ Tail(Flow(w, j)) = Flow(Tail(w), j)
<1> DEFINE q == w \o j
<1>1. q \in Seq(J) /\ q # <<>> /\ q[1] = w[1] /\ Tail(q) = Tail(w) \o j
  BY TailBehind
<1> HIDE DEF q
<1>2. \A n \in 1 .. Len(q) : Carries(q[n]) => Snapshot(q[n]) \in V
  BY <1>1
<1>3. Carries(q[1])
  BY <1>1
<1> QED
  BY <1>1, <1>2, <1>3, SnapshotsFirst DEF Flow, q

-----------------------------------------------------------------------------
(* The pipeline is a durable cell.                                          *)

Jobs == Job \cup Write

IsOpen == phase \in {"open", "deriving"}
Live == IF phase = "open" THEN mem ELSE Unlocking

\* What is being unlocked is still in line.
Waiting == phase = "deriving" => jobs # <<>> /\ jobs[Len(jobs)].op = "unlock"

CellInv == DataInv /\ Waiting

LEMMA Carrying ==
  /\ \A j \in Job : Carries(j) <=> j.op = "seal"
  /\ \A w \in Write : Carries(w) <=> w.op = "save" /\ w.for # "first"
  /\ \A x \in Jobs : Carries(x) => Snapshot(x) \in Vaults
  /\ \A j \in Job : Carries(j) => Snapshot(j) = j.data
  /\ \A w \in Write : Carries(w) => Snapshot(w) = DecryptVaultBlob(w.data)
<1>1. \A j \in Job : j.op \in {"create", "forget", "seal", "unlock"}
                     /\ (j.op = "seal" => j.data \in Vaults)
  BY Kinds
<1>2. \A w \in Write : w.op \in {"load", "save"}
                       /\ (w.op = "save" => DecryptVaultBlob(w.data) \in Vaults)
  BY Kinds, BlobOpens
<1> QED
  BY <1>1, <1>2 DEF Carries, Snapshot, Jobs

LEMMA Lines ==
  ASSUME LineInv
  PROVE  /\ jobs \in Seq(Job) /\ writes \in Seq(Write)
         /\ jobs \in Seq(Jobs) /\ writes \in Seq(Jobs)
         /\ Job \subseteq Jobs /\ Write \subseteq Jobs
<1>1. jobs \in Seq(Job) /\ writes \in Seq(Write)
  BY DEF LineInv, Types
<1>2. Job \subseteq Jobs /\ Write \subseteq Jobs
  BY DEF Jobs
<1>3. jobs \in Seq(Jobs) /\ writes \in Seq(Jobs)
  BY <1>1, <1>2
<1> QED
  BY <1>1, <1>2, <1>3

LEMMA FlightIs == InFlight = Flow(writes, jobs) /\ InFlight' = Flow(writes', jobs')
  BY DEF InFlight, Flow

\* The one unlock in line is what Unlocking reads.
LEMMA UnlockingIs ==
  ASSUME LineInv, Waiting, phase = "deriving"
  PROVE  /\ Len(jobs) \in DOMAIN jobs
         /\ Unlocking = DecryptVaultBlob(jobs[Len(jobs)].data)
         /\ \A i \in DOMAIN jobs : jobs[i].op = "unlock" <=> i = Len(jobs)
<1>1. Len(jobs) \in DOMAIN jobs /\ jobs[Len(jobs)].op = "unlock"
  BY DEF Waiting, LineInv, Types
<1>2. \A i \in DOMAIN jobs : jobs[i].op = "unlock" <=> i = Len(jobs)
  BY <1>1 DEF LineInv, Shape
<1>3. (CHOOSE i \in DOMAIN jobs : jobs[i].op = "unlock") = Len(jobs)
  BY <1>1, <1>2
<1> QED
  BY <1>1, <1>2, <1>3 DEF Unlocking

\* While nothing is unlocked, a closed vault is worth nothing.
LEMMA ClosedIs == phase # "deriving" => Unlocking = EmptyVault
  BY DEF Unlocking

(* A persist puts a value and asks for it to be written.                    *)
LEMMA PersistCell ==
  ASSUME CellInv, CellInv', phase = "open", NEW f \in Call, NEW v, NEW b, NEW c,
         Persist(f, v, b, c), mem' = v, UNCHANGED <<phase, session, armed, writes, disk>>
  PROVE  Cell!Put
<1> DEFINE j == [op |-> "seal", for |-> f, data |-> v]
<1>1. v \in Vaults /\ LineInv /\ LineInv'
  BY DEF CellInv, DataInv, LineInv, Types
<1>2. j \in Job /\ j.op = "seal" /\ j.data = v /\ jobs' = Append(jobs, j)
  BY <1>1, Kinds DEF Persist, Post
<1> HIDE DEF j
<1>3. Carries(j) /\ Snapshot(j) = v
  BY <1>2, Carrying
<1>4. InFlight' = Append(InFlight, v)
  <2>1. Flow(writes, jobs') = Grown(Flow(writes, jobs), j)
    BY <1>1, <1>2, Lines, FlowPosted
  <2> QED
    BY <1>3, <2>1, FlightIs DEF Grown
<1>5. Stored' = Stored /\ phase' = "open"
  BY DEF Stored
<1> QED
  BY <1>1, <1>4, <1>5 DEF Cell!Put

LEMMA LockCell ==
  ASSUME CellInv, Lock
  PROVE  Cell!Close
<1> USE DEF CellInv, DataInv
<1> DEFINE j == [op |-> "forget"]
<1>1. j \in Job /\ j.op = "forget" /\ jobs' = Append(jobs, j)
  BY Kinds DEF Lock, Forget, Post
<1> HIDE DEF j
<1>2. ~Carries(j)
  BY <1>1, Carrying
<1>3. Flow(writes, jobs') = Flow(writes, jobs)
  BY <1>1, <1>2, Lines, FlowPosted DEF Grown
<1>4. InFlight' = InFlight
  BY <1>3, FlightIs DEF Lock
<1>5. Stored' = Stored /\ Unlocking' = EmptyVault
  BY DEF Lock, Stored, Unlocking
<1> QED
  BY <1>4, <1>5 DEF Lock, Cell!Close

(* What leaves the cell as it is: nothing is open and no snapshot moves.    *)
LEMMA ClosedCell ==
  ASSUME ~IsOpen, ~IsOpen', InFlight' = InFlight, Stored' = Stored
  PROVE  UNCHANGED Cell!vars
  BY DEF IsOpen, Unlocking, Cell!vars

LEMMA CreateCell ==
  ASSUME CellInv, CreateIdentity
  PROVE  UNCHANGED Cell!vars
<1> USE DEF CellInv, DataInv
<1> DEFINE j == [op |-> "create"]
<1>1. j \in Job /\ j.op = "create" /\ jobs' = Append(jobs, j) /\ writes' = writes
  BY Kinds DEF CreateIdentity, Post
<1> HIDE DEF j
<1>2. ~Carries(j)
  BY <1>1, Carrying
<1>3. Flow(writes, jobs') = Flow(writes, jobs)
  BY <1>1, <1>2, Lines, FlowPosted DEF Grown
<1>4. InFlight' = InFlight
  BY <1>1, <1>3, FlightIs
<1> QED
  BY <1>4, ClosedCell DEF CreateIdentity, Stored, IsOpen

LEMMA WorkerCreatesCell ==
  ASSUME CellInv, WorkerCreates
  PROVE  UNCHANGED Cell!vars
<1> USE DEF CellInv, DataInv
<1> DEFINE x == [op |-> "save", for |-> "first", data |-> Seal(EmptyVault)]
<1>1. x \in Write /\ x.op = "save" /\ x.for = "first" /\ writes' = Append(writes, x)
  BY Kinds, SealedOpens, EmptyIsVault DEF WorkerCreates
<1> HIDE DEF x
<1>2. jobs # <<>> /\ jobs' = Tail(jobs) /\ jobs[1].op = "create" /\ jobs[1] \in Job /\ 1 \in DOMAIN jobs
  BY JobTaken, QueueKinds DEF WorkerCreates, LineInv
<1>3. ~Carries(x) /\ ~Carries(jobs[1])
  BY <1>1, <1>2, Carrying
<1>4. \A s : Grown(s, jobs[1]) = Grown(s, x)
  BY <1>3 DEF Grown
<1>5. Flow(writes', jobs') = Flow(writes, jobs)
  BY <1>1, <1>2, <1>4, Lines, FlowHanded
<1>6. InFlight' = InFlight
  BY <1>5, FlightIs
<1>7. phase = "creating"
  BY <1>2 DEF LineInv, Shape
<1> QED
  BY <1>6, <1>7, ClosedCell DEF WorkerCreates, Stored, IsOpen

LEMMA UnlockCell ==
  ASSUME CellInv, Unlock
  PROVE  UNCHANGED Cell!vars
<1> USE DEF CellInv, DataInv
<1> DEFINE x == [op |-> "load"]
<1>1. x \in Write /\ x.op = "load" /\ writes' = Append(writes, x) /\ jobs' = jobs
  BY Kinds DEF Unlock
<1> HIDE DEF x
<1>2. ~Carries(x)
  BY <1>1, Carrying
<1>3. Flow(writes', jobs') = Flow(writes, jobs)
  BY <1>1, <1>2, Lines, FlowLate
<1>4. InFlight' = InFlight
  BY <1>3, FlightIs
<1> QED
  BY <1>4, ClosedCell DEF Unlock, Stored, IsOpen

(* The worker answers something that carries nothing.                       *)
LEMMA ServedFlight ==
  ASSUME LineInv, jobs # <<>>, Head(jobs).op # "seal", jobs' = Tail(jobs), writes' = writes
  PROVE  InFlight' = InFlight
<1>1. 1 \in DOMAIN jobs /\ Head(jobs) = jobs[1] /\ jobs[1] \in Job
  BY JobTaken, QueueKinds DEF LineInv
<1>2. ~Carries(jobs[1])
  BY <1>1, Carrying
<1>3. Flow(writes, jobs') = Flow(writes, jobs)
  BY <1>2, Lines, FlowServed
<1> QED
  BY <1>3, FlightIs

LEMMA WorkerUnlocksCell ==
  ASSUME CellInv, WorkerUnlocks
  PROVE  UNCHANGED Cell!vars
<1> USE DEF CellInv, DataInv
<1>1. InFlight' = InFlight
  BY ServedFlight DEF WorkerUnlocks
<1>2. phase = "deriving" /\ DOMAIN jobs = {1} /\ Head(jobs) = jobs[1]
  BY UnlockTaken, JobTaken DEF WorkerUnlocks
<1>3. Unlocking = mem'
  <2>1. Len(jobs) = 1
    BY <1>2, UnlockingIs
  <2> QED
    BY <1>2, <2>1, UnlockingIs DEF WorkerUnlocks
<1> QED
  BY <1>1, <1>2, <1>3 DEF WorkerUnlocks, Stored, Cell!vars

LEMMA WorkerRefusesCell ==
  ASSUME CellInv, WorkerRefuses
  PROVE  Cell!Close
<1> USE DEF CellInv, DataInv
<1>1. InFlight' = InFlight
  BY ServedFlight DEF WorkerRefuses
<1>2. phase = "deriving"
  BY UnlockTaken DEF WorkerRefuses
<1>3. Unlocking' = EmptyVault /\ Stored' = Stored
  BY DEF WorkerRefuses, Unlocking, Stored
<1> QED
  BY <1>1, <1>2, <1>3 DEF WorkerRefuses, Cell!Close

(* Until it is answered itself, the unlock in line stays the last.          *)
LEMMA TailWaits ==
  ASSUME LineInv, Waiting, phase = "deriving", jobs # <<>>, Head(jobs).op # "unlock"
  PROVE  /\ Tail(jobs) # <<>>
         /\ Tail(jobs)[Len(Tail(jobs))] = jobs[Len(jobs)]
<1>1. jobs \in Seq(Job) /\ Len(jobs) \in Nat /\ Len(jobs) >= 1 /\ Head(jobs) = jobs[1]
  BY DEF LineInv, Types
<1>2. Len(jobs) # 1
  BY <1>1 DEF Waiting
<1>3. Tail(jobs) \in Seq(Job) /\ Len(Tail(jobs)) = Len(jobs) - 1
      /\ \A i \in 1 .. Len(jobs) - 1 : Tail(jobs)[i] = jobs[i + 1]
  BY <1>1
<1>4. \A n \in Nat : n >= 1 /\ n # 1 => n - 1 \in 1 .. n - 1 /\ (n - 1) + 1 = n /\ n - 1 # 0
  OBVIOUS
<1>5. Len(jobs) - 1 \in 1 .. Len(jobs) - 1 /\ (Len(jobs) - 1) + 1 = Len(jobs) /\ Len(jobs) - 1 # 0
  BY <1>1, <1>2, <1>4
<1>6. Tail(jobs) # <<>>
  BY <1>3, <1>5
<1> QED
  BY <1>3, <1>5, <1>6

LEMMA UnlockingStays ==
  ASSUME LineInv, Waiting, jobs # <<>>, Head(jobs).op # "unlock", jobs' = Tail(jobs),
         phase' = phase, LineInv', Waiting'
  PROVE  Unlocking' = Unlocking
<1>1. CASE phase = "deriving"
  <2>1. Unlocking = DecryptVaultBlob(jobs[Len(jobs)].data)
    BY <1>1, UnlockingIs
  <2>2. Unlocking' = DecryptVaultBlob(jobs'[Len(jobs')].data)
    <3>1. Len(jobs') \in DOMAIN jobs' /\ jobs'[Len(jobs')].op = "unlock"
      BY <1>1 DEF Waiting, LineInv, Types
    <3>2. \A i \in DOMAIN jobs' : jobs'[i].op = "unlock" <=> i = Len(jobs')
      BY <3>1 DEF LineInv, Shape
    <3>3. (CHOOSE i \in DOMAIN jobs' : jobs'[i].op = "unlock") = Len(jobs')
      BY <3>1, <3>2
    <3> QED
      BY <1>1, <3>3 DEF Unlocking
  <2> QED
    BY <1>1, <2>1, <2>2, TailWaits
<1>2. CASE phase # "deriving"
  BY <1>2 DEF Unlocking
<1> QED
  BY <1>1, <1>2

LEMMA WorkerForgetsCell ==
  ASSUME CellInv, CellInv', WorkerForgets
  PROVE  UNCHANGED Cell!vars
<1> USE DEF CellInv, DataInv
<1>1. InFlight' = InFlight
  BY ServedFlight DEF WorkerForgets
<1>2. Unlocking' = Unlocking
  BY UnlockingStays DEF WorkerForgets
<1> QED
  BY <1>1, <1>2 DEF WorkerForgets, Stored, Cell!vars

(* Sealing moves a snapshot from one queue to the other, not in the line.   *)
LEMMA WorkerSealsCell ==
  ASSUME CellInv, CellInv', WorkerSeals
  PROVE  UNCHANGED Cell!vars
<1> USE DEF CellInv, DataInv
<1>1. jobs # <<>> /\ jobs' = Tail(jobs) /\ 1 \in DOMAIN jobs /\ Head(jobs) = jobs[1]
      /\ jobs[1] \in Job /\ jobs[1].op = "seal" /\ jobs[1].for \in Call /\ jobs[1].data \in Vaults
      /\ UNCHANGED <<phase, session, armed, disk>>
  BY JobTaken, QueueKinds DEF WorkerSeals, LineInv
<1> DEFINE v == jobs[1].data
           x == [op |-> "save", for |-> jobs[1].for, data |-> Seal(v)]
<1>2. armed
  BY <1>1 DEF LineInv, Shape
<1>3. Creatable(v, Params)
  <2>1. \A mb \in v.mailboxes : mb \in Mailboxes
    BY <1>1 DEF Vaults
  <2>2. v["mailboxes"] = v.mailboxes
    BY <1>1, VaultIsData
  <2> HIDE DEF v
  <2> QED
    BY <2>1, <2>2, TokensAssumption, DataAssumption DEF Creatable, TokensFit
<1>4. writes' = Append(writes, x) /\ mem' = mem
  BY <1>1, <1>2, <1>3 DEF WorkerSeals
<1>5. x \in Write /\ Carries(x) /\ Snapshot(x) = v
  <2>1. Seal(v) \in Blob /\ DecryptVaultBlob(Seal(v)) = v
    BY <1>1, <1>3, SealedOpens
  <2>2. x \in Write /\ x.op = "save" /\ x.for # "first" /\ x.data = Seal(v)
    BY <1>1, <2>1, Kinds, CallsAssumption
  <2> HIDE DEF x, v
  <2> QED
    BY <2>1, <2>2, Carrying
<1> HIDE DEF x
<1>6. Carries(jobs[1]) /\ Snapshot(jobs[1]) = v
  BY <1>1, Carrying
<1> HIDE DEF v
<1>7. \A s : Grown(s, jobs[1]) = Grown(s, x)
  BY <1>5, <1>6 DEF Grown
<1>8. Flow(writes', jobs') = Flow(writes, jobs)
  BY <1>1, <1>4, <1>5, <1>7, Lines, FlowHanded
<1>9. InFlight' = InFlight
  BY <1>8, FlightIs
<1>10. Unlocking' = Unlocking
  BY <1>1, UnlockingStays
<1> QED
  BY <1>1, <1>4, <1>9, <1>10 DEF Stored, Cell!vars

(* The oldest save in flight is answered.                                   *)
LEMMA LandedFlight ==
  ASSUME LineInv, writes # <<>>, Carries(writes[1]), writes' = Tail(writes), jobs' = jobs
  PROVE  /\ InFlight # <<>> /\ Head(InFlight) = Snapshot(writes[1])
         /\ InFlight' = Tail(InFlight)
<1>1. writes \in Seq(Jobs) /\ jobs \in Seq(Jobs)
  BY Lines
<1>2. \A x \in Jobs : Carries(x) => Snapshot(x) \in Vaults
  BY Carrying
<1>3. /\ Flow(writes, jobs) # <<>>
      /\ Head(Flow(writes, jobs)) = Snapshot(writes[1])
      /\ Tail(Flow(writes, jobs)) = Flow(Tail(writes), jobs)
  BY <1>1, <1>2, FlowLands
<1> QED
  BY <1>3, FlightIs

(* The database answers.                                                    *)
LEMMA StoreSavesCell ==
  ASSUME CellInv, CellInv', StoreSaves
  PROVE  [Cell!Next]_Cell!vars
<1> USE DEF CellInv, DataInv
<1>1. /\ writes # <<>> /\ writes' = Tail(writes) /\ Head(writes) = writes[1] /\ 1 \in DOMAIN writes
      /\ writes[1] \in Write /\ writes[1].op = "save" /\ writes[1].data \in Blob
      /\ disk' = writes[1].data /\ UNCHANGED <<armed, jobs>>
  BY WriteTaken, QueueKinds DEF StoreSaves, LineInv
<1>2. Stored' = DecryptVaultBlob(writes[1].data)
  BY <1>1, BlobIsThere, BlobOpens DEF Stored
<1>3. CASE writes[1].for = "first"
  <2>1. phase = "writing" /\ disk = NoBlob
    BY <1>1, <1>3, FirstTaken
  <2>2. phase' = "open" /\ mem' = EmptyVault
    BY <1>1, <1>3 DEF StoreSaves
  <2>3. DecryptVaultBlob(writes[1].data) \in Image("first")
    <3>1. writes[1].data \in Img(writes, "save", "first")
      BY <1>1, <1>3 DEF Img, For
    <3> QED
      BY <3>1 DEF Image
  <2>4. Stored = EmptyVault /\ Stored' = EmptyVault
    BY <1>2, <2>1, <2>3 DEF Stored
  <2>5. InFlight' = InFlight
    <3>1. ~Carries(writes[1])
      BY <1>1, <1>3, Carrying
    <3>2. Flow(writes', jobs') = Flow(writes, jobs)
      BY <1>1, <3>1, Lines, FlowDone
    <3> QED
      BY <3>2, FlightIs
  <2>6. Cell!Open
    BY <2>1, <2>2, <2>4, <2>5 DEF Cell!Open
  <2> QED
    BY <2>6 DEF Cell!Next
<1>4. CASE writes[1].for # "first"
  <2>1. phase' = phase /\ mem' = mem
    BY <1>1, <1>4 DEF StoreSaves, Acknowledged
  <2>2. Carries(writes[1]) /\ Snapshot(writes[1]) = DecryptVaultBlob(writes[1].data)
    BY <1>1, <1>4, Carrying
  <2>3. /\ InFlight # <<>> /\ Head(InFlight) = Stored' /\ InFlight' = Tail(InFlight)
    BY <1>1, <1>2, <2>2, LandedFlight
  <2>4. Unlocking' = Unlocking
    BY <1>1, <2>1 DEF Unlocking
  <2>5. Cell!Land
    BY <2>1, <2>3, <2>4 DEF Cell!Land
  <2> QED
    BY <2>5 DEF Cell!Next
<1> QED
  BY <1>3, <1>4

LEMMA StoreRefusesCell ==
  ASSUME CellInv, CellInv', StoreRefuses
  PROVE  [Cell!Next]_Cell!vars
<1> USE DEF CellInv, DataInv
<1>1. /\ writes # <<>> /\ writes' = Tail(writes) /\ Head(writes) = writes[1] /\ 1 \in DOMAIN writes
      /\ writes[1] \in Write /\ writes[1].op = "save"
      /\ UNCHANGED <<session, armed, jobs, disk>>
  BY WriteTaken, QueueKinds DEF StoreRefuses, LineInv
<1>2. Stored' = Stored
  BY <1>1 DEF Stored
<1>3. CASE writes[1].for = "first"
  <2>1. phase = "writing" /\ phase' = "none"
    BY <1>1, <1>3, FirstTaken DEF StoreRefuses
  <2>2. ~Carries(writes[1])
    BY <1>1, <1>3, Carrying
  <2>3. Flow(writes', jobs') = Flow(writes, jobs)
    BY <1>1, <2>2, Lines, FlowDone
  <2> QED
    BY <1>2, <2>1, <2>3, FlightIs, ClosedCell DEF IsOpen
<1>4. CASE writes[1].for # "first"
  <2>1. phase' = phase /\ mem' \in Vaults
    BY <1>1, <1>4 DEF StoreRefuses, LineInv, Types
  <2>2. Carries(writes[1])
    BY <1>1, <1>4, Carrying
  <2>3. InFlight # <<>> /\ InFlight' = Tail(InFlight)
    BY <1>1, <2>2, LandedFlight
  <2>4. Unlocking' = Unlocking
    BY <1>1, <2>1 DEF Unlocking
  <2>5. Cell!Fail
    BY <1>2, <2>1, <2>3, <2>4 DEF Cell!Fail
  <2> QED
    BY <2>5 DEF Cell!Next
<1> QED
  BY <1>3, <1>4

LEMMA StoreLoadsCell ==
  ASSUME CellInv, CellInv', StoreLoads
  PROVE  Cell!Open
<1> USE DEF CellInv, DataInv
<1>1. /\ writes # <<>> /\ writes' = Tail(writes) /\ Head(writes) = writes[1] /\ 1 \in DOMAIN writes
      /\ writes[1] \in Write /\ writes[1].op = "load" /\ phase' = "deriving" /\ disk' = disk
  BY WriteTaken, QueueKinds DEF StoreLoads, LineInv
<1>2. phase = "loading" /\ disk \in Blob
  BY <1>1 DEF LineInv, Shape, Types
<1> PICK typed \in {Own, Mistyped} :
           jobs' = Append(jobs, [op |-> "unlock", data |-> disk, passphrase |-> typed])
  BY DEF StoreLoads, Post
<1> DEFINE j == [op |-> "unlock", data |-> disk, passphrase |-> typed]
<1>3. j \in Job /\ j.op = "unlock" /\ j.data = disk /\ jobs' = Append(jobs, j)
  BY <1>2, Kinds
<1> HIDE DEF j
<1>4. InFlight' = InFlight
  <2>1. ~Carries(writes[1]) /\ ~Carries(j)
    BY <1>1, <1>3, Carrying
  <2>2. Tail(writes) \in Seq(Jobs)
    BY <1>1, Lines
  <2>3. Flow(Tail(writes), jobs) = Flow(writes, jobs)
    BY <1>1, <2>1, Lines, FlowDone
  <2>4. Flow(Tail(writes), Append(jobs, j)) = Flow(Tail(writes), jobs)
    BY <1>3, <2>1, <2>2, Lines, FlowPosted DEF Grown
  <2> QED
    BY <1>1, <1>3, <2>3, <2>4, FlightIs
<1>5. Stored = DecryptVaultBlob(disk) /\ Stored' = Stored
  BY <1>1, <1>2, BlobIsThere, BlobOpens DEF Stored
<1>6. Unlocking' = Stored
  <2>1. /\ jobs'[Len(jobs) + 1] = j /\ Len(jobs) + 1 \in DOMAIN jobs'
        /\ \A i \in DOMAIN jobs' : i \in DOMAIN jobs \/ i = Len(jobs) + 1
        /\ \A i \in DOMAIN jobs : jobs'[i] = jobs[i]
    BY <1>3, Lines, Posted
  <2>2. \A i \in DOMAIN jobs : jobs[i].op # "unlock"
    BY <1>2 DEF LineInv, Shape
  <2>3. (CHOOSE i \in DOMAIN jobs' : jobs'[i].op = "unlock") = Len(jobs) + 1
    BY <1>3, <2>1, <2>2
  <2> QED
    BY <1>1, <1>3, <1>5, <2>1, <2>3 DEF Unlocking
<1> QED
  BY <1>1, <1>2, <1>4, <1>5, <1>6 DEF Cell!Open

LEMMA CrashCell ==
  ASSUME Crash
  PROVE  Cell!Crash
<1>1. InFlight' = <<>>
  <2>1. <<>> \o <<>> = <<>> /\ <<>> \in Seq({}) /\ Len(<<>>) = 0
    OBVIOUS
  <2>2. SnapshotsIn(<<>>) = <<>>
    <3> PICK g : Runs(<<>>, Len(<<>>), g) /\ SnapshotsIn(<<>>) = g[Len(<<>>)]
      BY <2>1, Sifted
    <3> QED
      BY <2>1 DEF Runs
  <2> QED
    BY <2>1, <2>2, FlightIs DEF Crash, Flow
<1> QED
  BY <1>1 DEF Crash, Cell!Crash, Stored, Unlocking

LEMMA WaitingStays ==
  ASSUME LineInv, Waiting, [Next]_vars
  PROVE  Waiting'
<1>1. CASE StoreLoads
  <2>1. PICK typed \in {Own, Mistyped} :
           jobs' = Append(jobs, [op |-> "unlock", data |-> disk, passphrase |-> typed])
    BY <1>1 DEF StoreLoads, Post
  <2>2. /\ jobs' # <<>> /\ Len(jobs') = Len(jobs) + 1
        /\ jobs'[Len(jobs) + 1] = [op |-> "unlock", data |-> disk, passphrase |-> typed]
    BY <2>1, Lines
  <2> QED
    BY <2>2 DEF Waiting
<1>2. CASE WorkerForgets \/ WorkerSeals
  <2>1. jobs # <<>> /\ Head(jobs).op # "unlock" /\ jobs' = Tail(jobs) /\ phase' = phase
    BY <1>2 DEF WorkerForgets, WorkerSeals
  <2> QED
    BY <2>1, TailWaits DEF Waiting
<1>3. CASE UNCHANGED <<phase, jobs>>
  BY <1>3 DEF Waiting
<1>4. CASE phase' # "deriving"
  BY <1>4 DEF Waiting
<1> QED
  BY <1>1, <1>2, <1>3, <1>4
  DEF Next, vars, CreateIdentity, SendMessage, ReceiveMessage, AddMessage, CommitContact, Lock,
      Unlock, Worker, WorkerCreates, WorkerUnlocks, WorkerRefuses, Store, StoreSaves,
      StoreRefuses, Crash

(* What the rest of the client may rely on: a live value that exists while  *)
(* the vault is open, saves of it that reach the disk in the order they     *)
(* were asked for or not at all and that a lock does not withdraw, and an   *)
(* unlock that starts from what the disk held when it began (ui/session.ts  *)
(* persist, ui/vault-worker.ts, ui/vault-client.ts, ui/storage.ts).         *)
THEOREM ImplementsCell == Spec => CellSpec
<1>1. Init => CellInv /\ Cell!Init
  <2> SUFFICES ASSUME Init PROVE CellInv /\ Cell!Init
    OBVIOUS
  <2>1. DataInv /\ Waiting
    BY InitData DEF Init, Waiting
  <2>2. Stored \in Vaults
    BY <2>1, DisputedTypes DEF DataInv
  <2>3. InFlight = <<>>
    <3>1. writes \o jobs = <<>> /\ <<>> \in Seq({}) /\ Len(<<>>) = 0
      BY DEF Init
    <3> PICK g : Runs(<<>>, Len(<<>>), g) /\ SnapshotsIn(<<>>) = g[Len(<<>>)]
      BY <3>1, Sifted
    <3> QED
      BY <3>1 DEF Runs, InFlight
  <2> QED
    BY <2>1, <2>2, <2>3 DEF CellInv, Cell!Init, Init, Unlocking
<1>2. CellInv /\ [Next]_vars => CellInv'
  BY NextData, WaitingStays DEF CellInv, DataInv
<1>3. CellInv /\ CellInv' /\ [Next]_vars => [Cell!Next]_Cell!vars
  <2> SUFFICES ASSUME CellInv, CellInv', [Next]_vars PROVE [Cell!Next]_Cell!vars
    OBVIOUS
  <2>1. CASE UNCHANGED vars
    BY <2>1 DEF vars, InFlight, Stored, Unlocking, Cell!vars
  <2>2. ASSUME NEW f \in Send \cup Receive, NEW s, AddMessage(f, s)
        PROVE  Cell!Put
    BY <2>2, PersistCell DEF AddMessage, Call
  <2>3. ASSUME NEW p \in Pairing, CommitContact(p)
        PROVE  Cell!Put
    <3>1. (CHOOSE k \in Commit \ Pending : TRUE) \in Call
      BY <2>3 DEF CommitContact, Call
    <3> QED
      BY <2>3, <3>1, PersistCell DEF CommitContact
  <2>4. CASE Worker
    BY <2>4, WorkerCreatesCell, WorkerUnlocksCell, WorkerRefusesCell, WorkerForgetsCell,
       WorkerSealsCell DEF Worker, Cell!Next
  <2>5. CASE Store
    BY <2>5, StoreSavesCell, StoreRefusesCell, StoreLoadsCell DEF Store, Cell!Next
  <2> QED
    BY <2>1, <2>2, <2>3, <2>4, <2>5, CreateCell, LockCell, UnlockCell, CrashCell
    DEF Next, SendMessage, ReceiveMessage, Cell!Next
<1> QED
  BY <1>1, <1>2, <1>3, PTL DEF Spec, CellSpec, Cell!Spec
=============================================================================
