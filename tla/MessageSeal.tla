----------------------------- MODULE MessageSeal ----------------------------
(***************************************************************************)
(* client/src/seal.ts: how a message becomes an envelope and what the      *)
(* recipient asks of one before it believes it.                            *)
(*                                                                         *)
(* A public key stands for its pair, and whoever is written as km holds    *)
(* both secrets behind km's public keys. A Diffie-Hellman secret is the    *)
(* pair of keys it is made from, a derived key what it was derived from, a *)
(* ciphertext what is in it with the key and the associated data it was    *)
(* made with, a signature its signer and what was signed. Identities are   *)
(* numbers: their order is that of their bytes. The nonce is left out.     *)
(***************************************************************************)
EXTENDS Naturals

CONSTANT CLOCK_SKEW_MS   \* how far ahead of our clock a stamp may be

ASSUME SkewAssumption == CLOCK_SKEW_MS \in Nat

MESSAGE_VERSION == 1
MESSAGE_VERSION_ALLOWLIST == {1}

\* The public half of a key manager, as the card we hand out carries it.
CardOf(km) == [identityPub |-> km.identityPub, encryptionPub |-> km.encryptionPub]

\* Party 0 is the one with the smaller identity.
MessageKeyInfo(ownId, ownX, peerId, peerX) ==
  IF ownId <= peerId
  THEN [ids |-> <<ownId, peerId>>, xs |-> <<ownX, peerX>>]
  ELSE [ids |-> <<peerId, ownId>>, xs |-> <<peerX, ownX>>]

DeriveMessageKey(km, peer) ==
  [dh   |-> {km.encryptionPub, peer.encryptionPub},
   info |-> MessageKeyInfo(km.identityPub, km.encryptionPub,
                           peer.identityPub, peer.encryptionPub)]

Sign(km, inner) == [by |-> km.identityPub, over |-> inner]

\* seal, whose clock may be any.
Seal(km, recipient, body, timestampMs) ==
  LET inner == [senderId |-> km.identityPub, recipientId |-> recipient.identityPub,
                timestampMs |-> timestampMs, body |-> body]
  IN  [version    |-> MESSAGE_VERSION,
       ciphertext |-> [key       |-> DeriveMessageKey(km, recipient),
                       aad       |-> MESSAGE_VERSION,
                       plaintext |-> [inner |-> inner, sig |-> Sign(km, inner)]]]

\* What an envelope is known by once it is open: its authenticated bytes.
ComputeMsgId(env) == env.ciphertext.plaintext

\* Slip: whoever shares the key with us is taken for the sender.
AddressedByTheKey(km, sender, inner) == TRUE

\* From the one whose card the key was derived with, and to us.
Addressed(km, sender, inner) ==
  /\ inner.senderId = sender.identityPub
  /\ inner.recipientId = km.identityPub

\* Otherwise open throws.
Opens(km, sender, env, nowMs) ==
  LET inner == env.ciphertext.plaintext.inner
  IN  /\ env.version \in MESSAGE_VERSION_ALLOWLIST
      /\ env.ciphertext.key = DeriveMessageKey(km, sender)
      /\ env.ciphertext.aad = env.version
      /\ Addressed(km, sender, inner)
      /\ inner.timestampMs <= nowMs + CLOCK_SKEW_MS
      /\ env.ciphertext.plaintext.sig = [by |-> inner.senderId, over |-> inner]
=============================================================================
