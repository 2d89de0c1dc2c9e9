------------------------------ MODULE VaultBlob -----------------------------
(***************************************************************************)
(* What a stored vault is made of and what of it comes back: the formats   *)
(* of client/src/vault.ts.                                                 *)
(*                                                                         *)
(* A blob is written in the newest format and read in every format listed. *)
(* A key that a format did not have yet is optional when that format is    *)
(* read; a field of a message that carries nothing is not written. An      *)
(* array is the set of its entries, a byte string a value; a key is what   *)
(* it was derived from, and a ciphertext opens under the key and the       *)
(* associated data it was made with.                                       *)
(***************************************************************************)
EXTENDS Naturals

CONSTANTS
  ARGON2_FLOOR, ARGON2_CEILING,   \* [t, m, p]
  Token,                          \* strings that match CAP_TOKEN_RE
  Absent                          \* an optional field that is not there

VAULT_FORMAT_VERSION == 3
VAULT_FORMAT_ALLOWLIST == {1, 2, 3}
KDF_ARGON2ID == 1

ASSUME WallsAssumption ==
  /\ ARGON2_FLOOR \in [t : Nat, m : Nat, p : Nat]
  /\ ARGON2_CEILING \in [t : Nat, m : Nat, p : Nat]

-----------------------------------------------------------------------------
(* Message records. *)

Required == {"peerId", "direction", "timestampMs", "body"}
Optional == {"msgId", "delivery", "wire", "receivedAtMs"}

Coded(f, v) ==
  CASE f = "direction" -> IF v = "out" THEN 1 ELSE 0
    [] f = "delivery"  -> IF v = "relayed" THEN 1 ELSE 0
    [] OTHER           -> v

Decoded(f, v) ==
  CASE f = "direction" -> IF v = 1 THEN "out" ELSE "in"
    [] f = "delivery"  -> IF v = 1 THEN "relayed" ELSE "queued"
    [] OTHER           -> v

\* A message as vault.ts types it: what is required is there, the two fields
\* that are coded take one of their two values.
IsMessage(mr) ==
  /\ mr = [f \in Required \cup Optional |-> mr[f]]
  /\ \A f \in Required : mr[f] # Absent
  /\ mr["direction"] \in {"in", "out"}
  /\ mr["delivery"] \in {"queued", "relayed", Absent}

\* Slip: the sealed bytes are written for a message that is out already.
EncodeMessageRelayed(mr) ==
  [f \in Required \cup { g \in Optional : mr[g] # Absent
                          /\ (g = "wire" => mr["delivery"] = "relayed") } |-> Coded(f, mr[f])]

EncodeMessage(mr) ==
  [f \in Required \cup { g \in Optional : mr[g] # Absent } |-> Coded(f, mr[f])]

DecodeMessage(rec) ==
  [f \in Required \cup Optional |-> IF f \in DOMAIN rec THEN Decoded(f, rec[f]) ELSE Absent]

-----------------------------------------------------------------------------
(* Vault data. *)

Keys == {"seeds", "contacts", "highWater", "messages", "seen", "mailboxes"}

\* Keys that a blob of this format need not have.
OptionalIn(format) ==
  (IF format >= 2 THEN {} ELSE {"seen"}) \cup (IF format >= 3 THEN {} ELSE {"mailboxes"})

TokensFit(mailboxes) ==
  \A mb \in mailboxes : mb.inboxPullToken \in Token /\ mb.outboxWriteCap \in Token

EncodeVaultData(data) ==
  [k \in Keys |-> IF k = "messages" THEN { EncodeMessage(mr) : mr \in data[k] } ELSE data[k]]

\* What a build of an older format wrote: the keys that format had.
EncodeFor(data, format) == [k \in Keys \ OptionalIn(format) |-> EncodeVaultData(data)[k]]

Decodes(map, format) ==
  /\ Keys \ OptionalIn(format) \subseteq DOMAIN map
  /\ DOMAIN map \subseteq Keys
  /\ "mailboxes" \in DOMAIN map => TokensFit(map["mailboxes"])

DecodeVaultData(map) ==
  [k \in Keys |->
     IF k \notin DOMAIN map THEN {}
     ELSE IF k = "messages" THEN { DecodeMessage(rec) : rec \in map[k] }
     ELSE map[k]]

-----------------------------------------------------------------------------
(* Blobs. *)

WithinWalls(params) ==
  /\ params.t >= ARGON2_FLOOR.t /\ params.m >= ARGON2_FLOOR.m /\ params.p >= ARGON2_FLOOR.p
  /\ params.t <= ARGON2_CEILING.t /\ params.m <= ARGON2_CEILING.m /\ params.p <= ARGON2_CEILING.p

DescriptorAAD(format, kdf, params, salt) == <<format, kdf, params, salt>>

DeriveWrapKey(passphrase, salt, params) == <<passphrase, salt, params>>

\* Otherwise createVaultBlob throws.
Creatable(data, params) == WithinWalls(params) /\ TokensFit(data["mailboxes"])

SealAs(format, passphrase, map, params, salt) ==
  [format |-> format, kdf |-> KDF_ARGON2ID, params |-> params, salt |-> salt,
   ciphertext |-> [key |-> DeriveWrapKey(passphrase, salt, params),
                   aad |-> DescriptorAAD(format, KDF_ARGON2ID, params, salt),
                   plaintext |-> map]]

CreateVaultBlob(passphrase, data, params, salt) ==
  SealAs(VAULT_FORMAT_VERSION, passphrase, EncodeVaultData(data), params, salt)

\* What is asked of a blob before any work is spent on it.
WorthDeriving(blob) ==
  /\ blob.format \in VAULT_FORMAT_ALLOWLIST
  /\ blob.kdf = KDF_ARGON2ID
  /\ WithinWalls(blob.params)

\* Otherwise decryptVaultBlob throws.
Decrypts(blob, passphrase) ==
  /\ WorthDeriving(blob)
  /\ blob.ciphertext.key = DeriveWrapKey(passphrase, blob.salt, blob.params)
  /\ blob.ciphertext.aad = DescriptorAAD(blob.format, blob.kdf, blob.params, blob.salt)
  /\ Decodes(blob.ciphertext.plaintext, blob.format)

DecryptVaultBlob(blob) == DecodeVaultData(blob.ciphertext.plaintext)
=============================================================================
